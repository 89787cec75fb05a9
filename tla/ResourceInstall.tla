-------------------------- MODULE ResourceInstall --------------------------
(***************************************************************************)
(* InstallResourcePayload (src/dependency/resource_install.go): a verified *)
(* payload is staged in a private directory below .pawnkit, every file it  *)
(* replaces is renamed into a backup, the staged files are renamed over    *)
(* their destinations, and a failure walks the entries backwards.  The     *)
(* private directory is removed whatever happened.                         *)
(*                                                                         *)
(* Several installers share one project root.  Each file system call is a  *)
(* step of its own and may fail; a context may be cancelled and a process  *)
(* may die between any two calls.                                          *)
(***************************************************************************)
EXTENDS Naturals, Sequences

CONSTANTS
    Installers,     \* concurrent calls of InstallResourcePayload
    Files,          \* destinations below the project root
    Dirs,           \* the parent directories of the destinations
    ParentOf,       \* the directory a destination is in
    Entries,        \* the sorted destinations of each installer's payload
    Absent,         \* nothing at the path
    Directory,      \* a directory, or a link to one
    Dangling,       \* a link to nothing: Lstat sees it, Stat does not
    Old             \* what the user has: a file, or a link to one

Contents == {Absent, Directory, Dangling, Old} \union Installers

ASSUME InstallAssumption ==
    /\ ParentOf \in [Files -> Dirs]
    /\ Entries \in [Installers -> Seq(Files)]
    /\ \A p \in Installers : \A i, j \in DOMAIN Entries[p] :
           Entries[p][i] = Entries[p][j] => i = j
    /\ Absent \notin {Directory, Dangling, Old} \union Installers
    /\ Directory \notin {Dangling, Old} \union Installers
    /\ Dangling \notin {Old} \union Installers
    /\ Old \notin Installers

VARIABLES
    disk,       \* what is at each destination; p stands for p's new content
    dirs,       \* what is at each parent directory
    meta,       \* what is at root/.pawnkit
    original,   \* the disk before any installer ran (history)
    pc,         \* the next file system call of an installer
    k,          \* the loop index of the installer
    staged,     \* indices whose file is in the installer's stage directory
    backup,     \* what the backup directory holds for each index
    had,        \* entry.hadTarget
    inst,       \* entry.installed
    txn,        \* the transaction directory exists
    err,        \* the error the call returns
    cancelled,  \* ctx.Err() is not nil
    alive       \* the process has not died

shared == <<disk, dirs, meta>>
entryvars == <<staged, backup, had, inst, txn>>
vars == <<shared, original, pc, k, entryvars, err, cancelled, alive>>

Kinds == {"absent", "dir", "link", "file"}
PCs == {"start", "mkmeta", "mktemp", "stage", "commit", "stat", "preserve",
        "mkparent", "place", "unplace", "restore", "cleanup", "done"}
Errors == {"none", "failed", "damaged", "unclean"}

Idx(p) == DOMAIN Entries[p]
Last(p) == Len(Entries[p])
File(p) == Entries[p][k[p]]

Init ==
    /\ disk \in [Files -> {Absent, Directory, Dangling, Old}]
    /\ dirs \in [Dirs -> Kinds]
    /\ \A f \in Files : dirs[ParentOf[f]] \in {"absent", "file"} => disk[f] = Absent
    /\ meta \in Kinds
    /\ original = disk
    /\ pc = [p \in Installers |-> "start"]
    /\ k = [p \in Installers |-> 1]
    /\ staged = [p \in Installers |-> {}]
    /\ backup = [p \in Installers |-> [i \in Idx(p) |-> Absent]]
    /\ had = [p \in Installers |-> {}]
    /\ inst = [p \in Installers |-> {}]
    /\ txn = [p \in Installers |-> FALSE]
    /\ err = [p \in Installers |-> "none"]
    /\ cancelled = [p \in Installers |-> FALSE]
    /\ alive = [p \in Installers |-> TRUE]

At(p, l) == alive[p] /\ pc[p] = l
Goto(p, l) == pc' = [pc EXCEPT ![p] = l]

\* An error returned before the transaction directory exists.
FailEarly(p) ==
    /\ Goto(p, "done")
    /\ err' = [err EXCEPT ![p] = "failed"]
    /\ UNCHANGED <<k, entryvars>>

\* An error while staging: only the deferred cleanup follows.
FailStaging(p) ==
    /\ Goto(p, "cleanup")
    /\ err' = [err EXCEPT ![p] = "failed"]
    /\ UNCHANGED <<k, entryvars>>

\* Mutant of FailCommit: the rollback forgets the entry that failed.
FailCommitSkippingOne(p) ==
    /\ Goto(p, "unplace")
    /\ k' = [k EXCEPT ![p] = @ - 1]
    /\ err' = [err EXCEPT ![p] = "failed"]
    /\ UNCHANGED entryvars

\* commitResourceEntries returns an error: rollback starts at the last entry.
FailCommit(p) ==
    /\ Goto(p, "unplace")
    /\ k' = [k EXCEPT ![p] = Last(p)]
    /\ err' = [err EXCEPT ![p] = "failed"]
    /\ UNCHANGED entryvars

\* ctx.Err, validatePayloadDestinations and the Lstat of .pawnkit.  Distinct
\* entries (InstallAssumption) are what the validation guarantees.
Start(p) ==
    /\ At(p, "start")
    /\ \/ FailEarly(p)
       \/ /\ ~cancelled[p]
          /\ Entries[p] # <<>>
          /\ meta \in {"absent", "dir"}
          /\ Goto(p, IF meta = "absent" THEN "mkmeta" ELSE "mktemp")
          /\ UNCHANGED <<k, entryvars, err>>
    /\ UNCHANGED <<shared, original, cancelled, alive>>

\* The MkdirAll of prepareResourceMetadataDir.
MakeMeta(p) ==
    /\ At(p, "mkmeta")
    /\ \/ FailEarly(p) /\ UNCHANGED meta
       \/ /\ meta \in {"absent", "dir"}
          /\ meta' = "dir"
          /\ Goto(p, "mktemp")
          /\ UNCHANGED <<k, entryvars, err>>
    /\ UNCHANGED <<disk, dirs, original, cancelled, alive>>

MakeTemp(p) ==
    /\ At(p, "mktemp")
    /\ \/ FailEarly(p)
       \/ /\ txn' = [txn EXCEPT ![p] = TRUE]
          /\ Goto(p, "stage")
          /\ UNCHANGED <<k, staged, backup, had, inst, err>>
    /\ UNCHANGED <<shared, original, cancelled, alive>>

\* One iteration of the staging loop: MkdirAll and WriteFile in the private
\* directory, which no other process reads.
Stage(p) ==
    /\ At(p, "stage")
    /\ k[p] <= Last(p)
    /\ \/ FailStaging(p)
       \/ /\ ~cancelled[p]
          /\ staged' = [staged EXCEPT ![p] = @ \union {k[p]}]
          /\ k' = [k EXCEPT ![p] = @ + 1]
          /\ UNCHANGED <<pc, err, backup, had, inst, txn>>
    /\ UNCHANGED <<shared, original, cancelled, alive>>

BeginCommit(p) ==
    /\ At(p, "stage")
    /\ k[p] > Last(p)
    /\ Goto(p, "commit")
    /\ k' = [k EXCEPT ![p] = 1]
    /\ UNCHANGED <<shared, original, entryvars, err, cancelled, alive>>

\* The head of the commit loop: ctx.Err and rejectSymlinkParents.
CheckParents(p) ==
    /\ At(p, "commit")
    /\ k[p] <= Last(p)
    /\ \/ FailCommit(p)
       \/ /\ ~cancelled[p]
          /\ dirs[ParentOf[File(p)]] \in {"absent", "dir"}
          /\ Goto(p, "stat")
          /\ UNCHANGED <<k, entryvars, err>>
    /\ UNCHANGED <<shared, original, cancelled, alive>>

\* Every entry is in place: commitResourceEntries returns nil.
Committed(p) ==
    /\ At(p, "commit")
    /\ k[p] > Last(p)
    /\ Goto(p, "cleanup")
    /\ UNCHANGED <<shared, original, k, entryvars, err, cancelled, alive>>

\* fsys.Stat(entry.target), which follows links.
StatTarget(p) ==
    /\ At(p, "stat")
    /\ \/ FailCommit(p)
       \/ /\ disk[File(p)] # Directory
          /\ Goto(p, IF disk[File(p)] \in {Absent, Dangling} THEN "mkparent" ELSE "preserve")
          /\ UNCHANGED <<k, entryvars, err>>
    /\ UNCHANGED <<shared, original, cancelled, alive>>

\* Rename(target, backup), after the MkdirAll of the private backup directory.
Preserve(p) ==
    /\ At(p, "preserve")
    /\ \/ FailCommit(p) /\ UNCHANGED disk
       \/ /\ disk[File(p)] # Absent
          /\ backup' = [backup EXCEPT ![p][k[p]] = disk[File(p)]]
          /\ disk' = [disk EXCEPT ![File(p)] = Absent]
          /\ had' = [had EXCEPT ![p] = @ \union {k[p]}]
          /\ Goto(p, "mkparent")
          /\ UNCHANGED <<k, staged, inst, txn, err>>
    /\ UNCHANGED <<dirs, meta, original, cancelled, alive>>

\* MkdirAll(Dir(target)); a directory it creates is never removed again.
MakeParent(p) ==
    /\ At(p, "mkparent")
    /\ \/ FailCommit(p) /\ UNCHANGED dirs
       \/ /\ dirs[ParentOf[File(p)]] # "file"
          /\ dirs' = [dirs EXCEPT ![ParentOf[File(p)]] = IF @ = "absent" THEN "dir" ELSE @]
          /\ Goto(p, "place")
          /\ UNCHANGED <<k, entryvars, err>>
    /\ UNCHANGED <<disk, meta, original, cancelled, alive>>

\* Rename(staged, target): replaces anything but a directory.
Place(p) ==
    /\ At(p, "place")
    /\ \/ FailCommit(p) /\ UNCHANGED disk
       \/ /\ disk[File(p)] # Directory
          /\ k[p] \in staged[p]
          /\ disk' = [disk EXCEPT ![File(p)] = p]
          /\ staged' = [staged EXCEPT ![p] = @ \ {k[p]}]
          /\ inst' = [inst EXCEPT ![p] = @ \union {k[p]}]
          /\ k' = [k EXCEPT ![p] = @ + 1]
          /\ Goto(p, "commit")
          /\ UNCHANGED <<backup, had, txn, err>>
    /\ UNCHANGED <<dirs, meta, original, cancelled, alive>>

\* Mutant of RollbackError: the failing entry is tried again, for ever.
RollbackErrorRetry(p) ==
    /\ err' = [err EXCEPT ![p] = "damaged"]
    /\ Goto(p, "unplace")
    /\ UNCHANGED <<k, entryvars>>

\* rollbackResourceEntries records an error and continues with the next entry.
RollbackError(p) ==
    /\ err' = [err EXCEPT ![p] = "damaged"]
    /\ k' = [k EXCEPT ![p] = @ - 1]
    /\ Goto(p, "unplace")
    /\ UNCHANGED entryvars

\* Mutant of Unplace: files the payload added are left in place.
UnplaceNothing(p) ==
    /\ At(p, "unplace")
    /\ k[p] >= 1
    /\ Goto(p, "restore")
    /\ UNCHANGED <<shared, original, k, entryvars, err, cancelled, alive>>

\* RemoveAll(target) of an installed entry.
Unplace(p) ==
    /\ At(p, "unplace")
    /\ k[p] >= 1
    /\ \/ /\ k[p] \in inst[p]
          /\ RollbackError(p)
          /\ UNCHANGED disk
       \/ /\ disk' = IF k[p] \in inst[p] THEN [disk EXCEPT ![File(p)] = Absent] ELSE disk
          /\ Goto(p, "restore")
          /\ UNCHANGED <<k, entryvars, err>>
    /\ UNCHANGED <<dirs, meta, original, cancelled, alive>>

\* Rename(backup, target) of a preserved entry, then the next entry.
Restore(p) ==
    /\ At(p, "restore")
    /\ \/ /\ k[p] \in had[p]
          /\ RollbackError(p)
          /\ UNCHANGED disk
       \/ /\ k[p] \in had[p]
          /\ disk[File(p)] # Directory
          /\ disk' = [disk EXCEPT ![File(p)] = backup[p][k[p]]]
          /\ backup' = [backup EXCEPT ![p][k[p]] = Absent]
          /\ k' = [k EXCEPT ![p] = @ - 1]
          /\ Goto(p, "unplace")
          /\ UNCHANGED <<staged, had, inst, txn, err>>
       \/ /\ k[p] \notin had[p]
          /\ k' = [k EXCEPT ![p] = @ - 1]
          /\ Goto(p, "unplace")
          /\ UNCHANGED <<disk, entryvars, err>>
    /\ UNCHANGED <<dirs, meta, original, cancelled, alive>>

RolledBack(p) ==
    /\ At(p, "unplace")
    /\ k[p] < 1
    /\ Goto(p, "cleanup")
    /\ UNCHANGED <<shared, original, k, entryvars, err, cancelled, alive>>

\* The deferred RemoveAll(transactionDir), whatever the call returns.  When it
\* fails it has removed some of the files, and only a nil error is replaced.
Cleanup(p) ==
    /\ At(p, "cleanup")
    /\ \/ /\ txn' = [txn EXCEPT ![p] = FALSE]
          /\ staged' = [staged EXCEPT ![p] = {}]
          /\ backup' = [backup EXCEPT ![p] = [i \in Idx(p) |-> Absent]]
          /\ UNCHANGED err
       \/ /\ \E gone \in SUBSET Idx(p) :
                /\ staged' = [staged EXCEPT ![p] = @ \ gone]
                /\ backup' = [backup EXCEPT ![p] =
                                 [i \in Idx(p) |-> IF i \in gone THEN Absent ELSE @[i]]]
          /\ err' = [err EXCEPT ![p] = IF @ = "none" THEN "unclean" ELSE @]
          /\ UNCHANGED txn
    /\ Goto(p, "done")
    /\ UNCHANGED <<shared, original, k, had, inst, cancelled, alive>>

\* The caller cancels the context of a running call.
Cancel(p) ==
    /\ alive[p] /\ pc[p] # "done" /\ ~cancelled[p]
    /\ cancelled' = [cancelled EXCEPT ![p] = TRUE]
    /\ UNCHANGED <<shared, original, pc, k, entryvars, err, alive>>

\* The process dies: no deferred call runs and nothing ever repairs the root.
Crash(p) ==
    /\ alive[p] /\ pc[p] # "done"
    /\ alive' = [alive EXCEPT ![p] = FALSE]
    /\ UNCHANGED <<shared, original, pc, k, entryvars, err, cancelled>>

Step(p) ==
    \/ Start(p) \/ MakeMeta(p) \/ MakeTemp(p) \/ Stage(p) \/ BeginCommit(p)
    \/ CheckParents(p) \/ Committed(p) \/ StatTarget(p) \/ Preserve(p)
    \/ MakeParent(p) \/ Place(p) \/ Unplace(p) \/ Restore(p) \/ RolledBack(p)
    \/ Cleanup(p)

Next == \E p \in Installers : Step(p) \/ Cancel(p) \/ Crash(p)

Spec == Init /\ [][Next]_vars

\* A call that is not killed runs on: the code never blocks.
FairSpec == Spec /\ \A p \in Installers : WF_vars(Step(p))
-----------------------------------------------------------------------------
(***************************************************************************)
(* Properties.  Isolated is what two installers need to be independent of  *)
(* each other: the code takes no lock.                                     *)
(***************************************************************************)
Isolated ==
    \A p, q \in Installers : \A i \in Idx(p), j \in Idx(q) :
        Entries[p][i] = Entries[q][j] => p = q

\* Every variable keeps its type: loop indices, per-entry sets and what may be at
\* a destination, a backup and a parent directory.
TypeOK ==
    /\ disk \in [Files -> Contents]
    /\ dirs \in [Dirs -> Kinds]
    /\ meta \in Kinds
    /\ original \in [Files -> {Absent, Directory, Dangling, Old}]
    /\ pc \in [Installers -> PCs]
    /\ k \in [Installers -> Nat]
    /\ staged \in [Installers -> SUBSET Nat]
    /\ DOMAIN backup = Installers
    /\ \A p \in Installers : backup[p] \in [Idx(p) -> Contents]
    /\ had \in [Installers -> SUBSET Nat]
    /\ inst \in [Installers -> SUBSET Nat]
    /\ txn \in [Installers -> BOOLEAN]
    /\ err \in [Installers -> Errors]
    /\ cancelled \in [Installers -> BOOLEAN]
    /\ alive \in [Installers -> BOOLEAN]

\* The point after which the call counts as committed, dead or alive.
HasCommitted(p) == pc[p] \in {"cleanup", "done"} /\ err[p] \in {"none", "unclean"}

\* What Stat tells of a destination: a dangling link is not there.
Seen(c) == IF c = Dangling THEN Absent ELSE c

\* No user file is ever lost by an install that has not committed, even when
\* the process dies between any two calls: its content is at the destination
\* or in the backup, unless the rollback itself failed (commitResourceEntries,
\* rollbackResourceEntries and the deferred RemoveAll together).
NothingLost ==
    \A p \in Installers : \A i \in Idx(p) :
        /\ original[Entries[p][i]] = Old
        /\ ~HasCommitted(p)
        /\ err[p] # "damaged"
        => Old \in {disk[Entries[p][i]], backup[p][i]}

\* A call that fails, and whose rollback reports no error, leaves every one of
\* its destinations as Stat saw it before the call: replaced files are back
\* and files the payload added are gone.
FailedRestores ==
    \A p \in Installers : \A i \in Idx(p) :
        pc[p] = "done" /\ err[p] = "failed" =>
            Seen(disk[Entries[p][i]]) = Seen(original[Entries[p][i]])

\* Once the commit loop has ended the whole payload is installed, and stays so
\* whatever the cleanup, a crash or the other installers do.
CommittedInstalled ==
    \A p \in Installers : \A i \in Idx(p) :
        HasCommitted(p) => disk[Entries[p][i]] = p

\* A call that nobody kills returns: the rollback passes every entry even when
\* some of its file system calls fail.
Returns == \A p \in Installers : <>(pc[p] = "done" \/ ~alive[p])

\* The install seen as one atomic step (AtomicInstall).
Owned == [p \in Installers |-> {Entries[p][i] : i \in Idx(p)}]

InFlight(p) == ~HasCommitted(p) /\ pc[p] # "done"

Undone(p, i) ==
    LET f == Entries[p][i] IN
    IF backup[p][i] # Absent THEN backup[p][i]
    ELSE IF disk[f] = p THEN Absent ELSE Seen(disk[f])

View ==
    [f \in Files |->
        IF \E p \in Installers : InFlight(p) /\ f \in Owned[p]
        THEN LET p == CHOOSE p \in Installers : InFlight(p) /\ f \in Owned[p]
             IN Undone(p, CHOOSE i \in Idx(p) : Entries[p][i] = f)
        ELSE Seen(disk[f])]

Status ==
    [p \in Installers |->
        IF HasCommitted(p) THEN "committed"
        ELSE IF pc[p] = "done" THEN err[p] ELSE "running"]

Atomic == INSTANCE AtomicInstall WITH
    Initial <- {Absent, Directory, Old},
    view <- View,
    status <- Status

\* InstallResourcePayload implements the atomic install: readers that undo
\* unfinished installs see a payload appear at once or not at all.
ImplementsAtomic == Atomic!Spec

\* docs/architecture.md:74: "A failed commit restores every replaced file."
\* Whatever fails, the content of a file that a failed call replaced is still
\* somewhere: the rollback's own failure is followed by the deferred RemoveAll
\* of the only copy.
FailedCommitKeepsFiles ==
    \A p \in Installers : \A i \in Idx(p) :
        /\ pc[p] = "done"
        /\ err[p] \in {"failed", "damaged"}
        /\ original[Entries[p][i]] = Old
        => Old \in {disk[Entries[p][i]], backup[p][i]}
=============================================================================
