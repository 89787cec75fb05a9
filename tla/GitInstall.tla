----------------------------- MODULE GitInstall -----------------------------
(***************************************************************************)
(* GitInstaller.Install (src/dependency/git.go): a locked Git dependency   *)
(* is checked out at its target, through a checkout cache that all         *)
(* projects of a user share, or without one.  Every process restores the   *)
(* same package into a target of its own; the cache entry of the package   *)
(* is common to those that use the cache.                                  *)
(*                                                                         *)
(* One action is one file system call or one verification of a checkout.   *)
(* A call or a Git command may fail (fault, which includes a cancelled     *)
(* context), a process may crash, and a user may edit a target.            *)
(***************************************************************************)
EXTENDS Integers, FiniteSets

CONSTANTS
    Procs,          \* processes, one target each
    None,           \* no such path
    MaxCalls,       \* Install calls of a process
    MaxFaults,      \* failing calls, in all
    MaxCrashes,     \* crashes, in all
    MaxEdits        \* edits by the user, in all

\* A checkout: the commit of its HEAD, whether git status is empty, and whether
\* its sources have the locked checksum.  A foreign one is no Git checkout.
Checkout == [commit : {"locked", "old", "foreign"}, clean : BOOLEAN, sound : BOOLEAN]
Locked == [commit |-> "locked", clean |-> TRUE, sound |-> TRUE]
Paths == Checkout \union {None}

ASSUME GitAssumption ==
    /\ {MaxCalls, MaxFaults, MaxCrashes, MaxEdits} \subseteq Nat
    /\ None \notin Checkout

VARIABLES
    remote,     \* what a clone of the source gives at the locked commit
    short,      \* pkg.Commit is an abbreviated commit
    sharing,    \* the processes whose installer has a CacheDir
    cache,      \* the cache entry of the package
    target,     \* target[p]
    backup,     \* .pawnkit-replace-* of a running call
    orphans,    \* backups no call will look at again
    staging,    \* .pawnkit-restore-* of a running call
    source,     \* where the call clones from
    dest,       \* what installCheckout installs: "cache" or "target"
    pc,         \* next step of the call, "idle" outside of one
    existed,    \* targetExists
    failed,     \* the error of installCheckout
    result,     \* of the last call: "none", "installed", "present", "error"
    start,      \* the target when the last call began
    hit,        \* a fault or an edit disturbed the last call
    racing,     \* an edit came after the call had looked for edits
    calls, faults, crashes, edits

world == <<remote, short, sharing>>
disk == <<cache, target, backup, orphans, staging>>
call == <<source, dest, existed, failed>>
outcome == <<result, start>>
budget == <<calls, crashes, edits, racing>>
vars == <<world, disk, call, pc, outcome, hit, faults, budget>>

\* No call has begun.
InitGit ==
    /\ backup = [p \in Procs |-> None]
    /\ orphans = [p \in Procs |-> {}]
    /\ staging = [p \in Procs |-> None]
    /\ source = [p \in Procs |-> "remote"]
    /\ dest = [p \in Procs |-> "target"]
    /\ pc = [p \in Procs |-> "idle"]
    /\ existed = [p \in Procs |-> FALSE]
    /\ failed = [p \in Procs |-> FALSE]
    /\ result = [p \in Procs |-> "none"]
    /\ start = target
    /\ hit = [p \in Procs |-> FALSE]
    /\ racing = [p \in Procs |-> FALSE]
    /\ calls = [p \in Procs |-> 0]
    /\ faults = 0 /\ crashes = 0 /\ edits = 0

\* Anything may be in the cache, at the targets and behind the source.
Init ==
    /\ remote \in Checkout /\ short \in BOOLEAN /\ sharing \in SUBSET Procs
    /\ cache \in Paths
    /\ target \in [Procs -> Paths]
    /\ InitGit

Goto(p, l) == pc' = [pc EXCEPT ![p] = l]

Return(p, r) == Goto(p, "idle") /\ result' = [result EXCEPT ![p] = r]

Works == UNCHANGED <<hit, faults>>

Fault(p) ==
    /\ faults < MaxFaults
    /\ faults' = faults + 1
    /\ hit' = [hit EXCEPT ![p] = TRUE]

At(p, l) == pc[p] = l /\ UNCHANGED <<world, start, budget>>

\* A wrong form: no checksum.
VerifiedCommit(c) == c # None /\ c.commit = "locked" /\ c.clean

\* verifyExistingCheckout: HEAD is the locked commit, git status prints
\* nothing, the checksum agrees.
Verified(c) == c # None /\ c = Locked

\* A wrong form: git status is not asked.
ReplaceableDirty(c) == c.commit = "old" \/ (c.commit = "locked" /\ short)

\* validateReplaceableCheckout compares HEAD with pkg.Commit as a string, so an
\* abbreviated commit differs from the HEAD it names.
Replaceable(c) ==
    /\ c.clean
    /\ (c.commit = "old" \/ (c.commit = "locked" /\ short))

Start(p) ==
    /\ pc[p] = "idle" /\ calls[p] < MaxCalls
    /\ calls' = [calls EXCEPT ![p] = @ + 1]
    /\ start' = [start EXCEPT ![p] = target[p]]
    /\ existed' = [existed EXCEPT ![p] = FALSE]
    /\ failed' = [failed EXCEPT ![p] = FALSE]
    /\ source' = [source EXCEPT ![p] = "remote"]
    /\ result' = [result EXCEPT ![p] = "none"]
    /\ hit' = [hit EXCEPT ![p] = FALSE]
    /\ racing' = [racing EXCEPT ![p] = FALSE]
    /\ Goto(p, "verify")
    /\ UNCHANGED <<world, disk, dest, faults, crashes, edits>>

\* Lstat of the target and verifyExistingCheckout.
Verify(p) ==
    /\ At(p, "verify")
    /\ UNCHANGED <<disk, call>>
    /\ \/ Works /\ target[p] = None
          /\ Goto(p, "cache") /\ UNCHANGED result
       \/ Works /\ Verified(target[p])
          /\ Return(p, "present")
       \/ Works /\ target[p] # None /\ ~Verified(target[p])
          /\ Goto(p, "replaceable") /\ UNCHANGED result
       \/ Fault(p) /\ target[p] # None
          /\ Goto(p, "replaceable") /\ UNCHANGED result
       \/ Fault(p) /\ Return(p, "error")

CheckReplaceable(p) ==
    /\ At(p, "replaceable")
    /\ UNCHANGED <<disk, source, dest, failed>>
    /\ \/ Works /\ Replaceable(target[p])
          /\ existed' = [existed EXCEPT ![p] = TRUE]
          /\ Goto(p, "cache") /\ UNCHANGED result
       \/ Works /\ ~Replaceable(target[p])
          /\ Return(p, "error") /\ UNCHANGED existed
       \/ Fault(p)
          /\ Return(p, "error") /\ UNCHANGED existed

\* What follows the choice of the source: replaceCheckout or installCheckout.
Proceed(p, from) ==
    /\ source' = [source EXCEPT ![p] = from]
    /\ dest' = [dest EXCEPT ![p] = "target"]
    /\ failed' = [failed EXCEPT ![p] = FALSE]
    /\ Goto(p, IF existed[p] THEN "preserve" ELSE "clone")

\* ensureCachedCheckout: an entry is verified, a missing one is installed.
LookUpCache(p) ==
    /\ At(p, "cache") /\ p \in sharing
    /\ UNCHANGED <<disk, existed>>
    /\ \/ Works /\ Verified(cache)
          /\ Proceed(p, "cache") /\ UNCHANGED result
       \/ Works /\ cache # None /\ ~Verified(cache)
          /\ Return(p, "error") /\ UNCHANGED <<source, dest, failed>>
       \/ Works /\ cache = None
          /\ dest' = [dest EXCEPT ![p] = "cache"]
          /\ Goto(p, "clone") /\ UNCHANGED <<source, failed, result>>
       \/ Fault(p)
          /\ Return(p, "error") /\ UNCHANGED <<source, dest, failed>>

\* Without a cache directory the source itself is cloned.
SkipCache(p) ==
    /\ At(p, "cache") /\ p \notin sharing
    /\ Works
    /\ Proceed(p, "remote")
    /\ UNCHANGED <<disk, existed, result>>

Fetched(p) == IF source[p] = "cache" THEN cache ELSE remote

\* installCheckout up to the verified staging directory.  What the clone gives
\* must be the locked commit and have the checksum.
Clone(p) ==
    /\ At(p, "clone")
    /\ UNCHANGED <<cache, target, backup, orphans, source, dest, existed, result>>
    /\ \/ Works /\ Verified(Fetched(p))
          /\ staging' = [staging EXCEPT ![p] = Fetched(p)]
          /\ Goto(p, "publish") /\ UNCHANGED failed
       \/ (Fault(p) \/ (Works /\ ~Verified(Fetched(p))))
          /\ failed' = [failed EXCEPT ![p] = TRUE]
          /\ Goto(p, "unstage") /\ UNCHANGED staging

\* os.Rename of the staging directory fails on a directory that is not empty.
Publish(p) ==
    /\ At(p, "publish")
    /\ Goto(p, "unstage")
    /\ UNCHANGED <<backup, orphans, source, dest, existed, result>>
    /\ \/ /\ Works
          /\ IF dest[p] = "cache"
             THEN cache = None /\ cache' = staging[p] /\ UNCHANGED target
             ELSE /\ target[p] = None
                  /\ target' = [target EXCEPT ![p] = staging[p]]
                  /\ UNCHANGED cache
          /\ staging' = [staging EXCEPT ![p] = None]
          /\ UNCHANGED failed
       \/ /\ (Fault(p) \/ (Works /\ dest[p] = "cache" /\ cache # None)
                       \/ (Works /\ dest[p] = "target" /\ target[p] # None))
          /\ failed' = [failed EXCEPT ![p] = TRUE]
          /\ UNCHANGED <<cache, target, staging>>

\* A wrong form: the backup goes before the deferred function knows the error.
UnstageAndDrop(p) ==
    /\ At(p, "unstage")
    /\ Works
    /\ staging' = [staging EXCEPT ![p] = None]
    /\ backup' = [backup EXCEPT ![p] = IF dest[p] = "target" THEN None ELSE @]
    /\ UNCHANGED <<cache, target, orphans, source, dest, existed, failed>>
    /\ IF dest[p] = "cache"
       THEN Goto(p, "cached") /\ UNCHANGED result
       ELSE Return(p, IF failed[p] THEN "error" ELSE "installed")

\* The deferred removal of the staging directory, whose error is ignored, and
\* the return of installCheckout to its caller.
Unstage(p) ==
    /\ At(p, "unstage")
    /\ Works
    /\ staging' = [staging EXCEPT ![p] = None]
    /\ UNCHANGED <<cache, target, backup, orphans, source, dest, existed, failed>>
    /\ \/ dest[p] = "cache"
          /\ Goto(p, "cached") /\ UNCHANGED result
       \/ dest[p] = "target" /\ backup[p] = None
          /\ Return(p, IF failed[p] THEN "error" ELSE "installed")
       \/ dest[p] = "target" /\ backup[p] # None
          /\ Goto(p, IF failed[p] THEN "clear" ELSE "drop") /\ UNCHANGED result

\* A wrong form: an installation that failed is an error, whoever won.
CachedOrError(p) ==
    /\ At(p, "cached")
    /\ Works
    /\ UNCHANGED <<disk, existed>>
    /\ IF failed[p]
       THEN Return(p, "error") /\ UNCHANGED <<source, dest, failed>>
       ELSE Proceed(p, "cache") /\ UNCHANGED result

\* An installation into the cache that failed does not matter if another process
\* has installed the same checkout meanwhile.
Cached(p) ==
    /\ At(p, "cached")
    /\ UNCHANGED <<disk, existed>>
    /\ \/ Works /\ (~failed[p] \/ Verified(cache))
          /\ Proceed(p, "cache") /\ UNCHANGED result
       \/ Works /\ failed[p] /\ ~Verified(cache)
          /\ Return(p, "error") /\ UNCHANGED <<source, dest, failed>>
       \/ Fault(p) /\ failed[p]
          /\ Return(p, "error") /\ UNCHANGED <<source, dest, failed>>

\* replaceCheckout: the checkout in the way becomes the backup.
Preserve(p) ==
    /\ At(p, "preserve")
    /\ UNCHANGED <<cache, orphans, staging, call>>
    /\ \/ /\ Works
          /\ backup' = [backup EXCEPT ![p] = target[p]]
          /\ target' = [target EXCEPT ![p] = None]
          /\ Goto(p, "clone") /\ UNCHANGED result
       \/ /\ Fault(p)
          /\ Return(p, "error") /\ UNCHANGED <<target, backup>>

\* The deferred undo: RemoveAll(target), then Rename(backup, target).  Errors of
\* both are ignored, and a target that stays stops the rename.
Clear(p) ==
    /\ At(p, "clear")
    /\ Goto(p, "restore")
    /\ UNCHANGED <<cache, backup, orphans, staging, call, result>>
    /\ \/ Works /\ target' = [target EXCEPT ![p] = None]
       \/ Fault(p) /\ UNCHANGED target

\* A wrong form: the backup is removed like any temporary directory.
RestoreNothing(p) ==
    /\ At(p, "restore")
    /\ Works
    /\ Return(p, "error")
    /\ backup' = [backup EXCEPT ![p] = None]
    /\ UNCHANGED <<cache, orphans, staging, call, target>>

Restore(p) ==
    /\ At(p, "restore")
    /\ Return(p, "error")
    /\ backup' = [backup EXCEPT ![p] = None]
    /\ UNCHANGED <<cache, staging, call>>
    /\ \/ /\ Works /\ target[p] = None
          /\ target' = [target EXCEPT ![p] = backup[p]]
          /\ UNCHANGED orphans
       \/ /\ (Fault(p) \/ (Works /\ target[p] # None))
          /\ orphans' = [orphans EXCEPT ![p] = @ \union {backup[p]}]
          /\ UNCHANGED target

\* RemoveAll(backup); its error is ignored too.
Drop(p) ==
    /\ At(p, "drop")
    /\ Return(p, "installed")
    /\ backup' = [backup EXCEPT ![p] = None]
    /\ UNCHANGED <<cache, target, staging, call>>
    /\ \/ Works /\ UNCHANGED orphans
       \/ Fault(p) /\ orphans' = [orphans EXCEPT ![p] = @ \union {backup[p]}]

\* Nothing of the process is left but the directories; no call looks for them.
Crash(p) ==
    /\ pc[p] # "idle" /\ crashes < MaxCrashes
    /\ crashes' = crashes + 1
    /\ Goto(p, "idle")
    /\ backup' = [backup EXCEPT ![p] = None]
    /\ orphans' = [orphans EXCEPT ![p] = @ \union ({backup[p]} \ {None})]
    /\ staging' = [staging EXCEPT ![p] = None]
    /\ UNCHANGED <<world, cache, target, call, outcome, hit, faults, calls, edits, racing>>

\* The user edits a file of the checkout at the target.
Edit(p) ==
    /\ edits < MaxEdits /\ target[p] # None
    /\ edits' = edits + 1
    /\ target' = [target EXCEPT ![p].clean = FALSE]
    /\ hit' = [hit EXCEPT ![p] = TRUE]
    /\ racing' = [racing EXCEPT ![p] = pc[p] \notin {"idle", "verify", "replaceable"}]
    /\ UNCHANGED <<world, cache, backup, orphans, staging, call, pc, outcome, faults, calls, crashes>>

Step(p) ==
    \/ Verify(p) \/ CheckReplaceable(p) \/ LookUpCache(p) \/ SkipCache(p)
    \/ Clone(p) \/ Publish(p) \/ Unstage(p) \/ Cached(p) \/ Preserve(p)
    \/ Clear(p) \/ Restore(p) \/ Drop(p)

Next == \E p \in Procs : Start(p) \/ Step(p) \/ Crash(p) \/ Edit(p)

Spec == Init /\ [][Next]_vars

-----------------------------------------------------------------------------
\* Every variable keeps its type; installCheckout never holds anything but a
\* verified checkout between its steps.
TypeOK ==
    /\ remote \in Checkout /\ short \in BOOLEAN /\ sharing \subseteq Procs
    /\ cache \in Paths
    /\ target \in [Procs -> Paths] /\ backup \in [Procs -> Paths]
    /\ staging \in [Procs -> {None, Locked}]
    /\ orphans \in [Procs -> SUBSET Checkout]
    /\ source \in [Procs -> {"remote", "cache"}] /\ dest \in [Procs -> {"cache", "target"}]
    /\ pc \in [Procs -> {"idle", "verify", "replaceable", "cache", "clone", "publish",
                         "unstage", "cached", "preserve", "clear", "restore", "drop"}]
    /\ existed \in [Procs -> BOOLEAN] /\ failed \in [Procs -> BOOLEAN]
    /\ result \in [Procs -> {"none", "installed", "present", "error"}]
    /\ start \in [Procs -> Paths]
    /\ hit \in [Procs -> BOOLEAN] /\ racing \in [Procs -> BOOLEAN]
    /\ calls \in [Procs -> 0 .. MaxCalls]
    /\ faults \in 0 .. MaxFaults /\ crashes \in 0 .. MaxCrashes /\ edits \in 0 .. MaxEdits

\* The same checkout, edits aside.
Same(c, d) ==
    IF c = None \/ d = None THEN c = d
    ELSE [c EXCEPT !.clean = TRUE] = [d EXCEPT !.clean = TRUE]

\* Install returns success only with the locked commit at the target, whole and
\* with its checksum, whatever was there before and whoever filled the cache.
\* The user's later edits aside.
ReportedIsLocked ==
    \A p \in Procs :
        (pc[p] = "idle" /\ result[p] \in {"installed", "present"})
            => Same(target[p], Locked)

\* Edits made before a call looks for them are never moved away or removed: the
\* call refuses.  (Edits that race with the call after that are lost.)
EditsStay ==
    [][\A p \in Procs :
          (target[p] # None /\ ~target[p].clean /\ ~racing[p]) => target'[p] = target[p]]_vars

\* The checkout that a call found is at the target or in a backup until the new
\* one is in place, at every step, failure and crash.
OldKept ==
    \A p \in Procs :
        \/ start[p] = None
        \/ Same(target[p], start[p]) \/ Same(target[p], Locked)
        \/ \E c \in {backup[p]} \union orphans[p] : Same(c, start[p])

\* A call that fails leaves the checkout it found at the target, unless undoing
\* the replacement fails as well: then the backup has it.
FailureRestores ==
    \A p \in Procs :
        (pc[p] = "idle" /\ result[p] = "error" /\ orphans[p] = {})
            => Same(target[p], start[p])

\* A call that no fault disturbs succeeds if the remote is what was locked, the
\* target can be replaced and the cache entry it uses is not damaged: the race for the
\* cache entry has a winner and no loser, and a crashed call before leaves
\* nothing in the way.
UndisturbedSucceeds ==
    \A p \in Procs :
        (pc[p] = "idle" /\ result[p] = "error" /\ ~hit[p])
            => \/ ~Verified(remote)
               \/ p \in sharing /\ cache # None /\ ~Verified(cache)
               \/ start[p] # None /\ ~Verified(start[p]) /\ ~Replaceable(start[p])

=============================================================================
