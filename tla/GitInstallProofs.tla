-------------------------- MODULE GitInstallProofs --------------------------
(***************************************************************************)
(* The Git installer for any number of projects that share a cache, of     *)
(* calls, faults, crashes and edits, and for anything that is in the cache *)
(* and at the targets before: a reported checkout is the locked one, the   *)
(* old one is kept until then, edits stay, and no race makes a call fail.  *)
(***************************************************************************)
EXTENDS GitInstall, TLAPS

\* installCheckout works for the cache.
Caching(p) == pc[p] \in {"clone", "publish", "unstage", "cached"} /\ dest[p] = "cache"

\* installCheckout works for the target.
Placing(p) == pc[p] \in {"clone", "publish", "unstage"} /\ dest[p] = "target"

\* What keeps a call that nothing disturbs from success.
Hopeless(p) ==
    \/ ~Verified(remote)
    \/ p \in sharing /\ cache # None /\ ~Verified(cache)
    \/ start[p] # None /\ ~Verified(start[p]) /\ ~Replaceable(start[p])

\* The target is as the call found it, edits aside.
AsFound(p) ==
    /\ backup[p] = None
    /\ Same(target[p], start[p])
    /\ hit[p] \/ target[p] = start[p]

\* What the staging directory, the error, the source and the result are during a call.
Control(p) ==
    /\ staging[p] # None => pc[p] \in {"publish", "unstage"}
    /\ pc[p] = "publish" => staging[p] = Locked
    /\ pc[p] \in {"verify", "replaceable", "cache", "preserve", "clone", "publish"} => ~failed[p]
    /\ pc[p] \in {"verify", "replaceable", "cache"} \/ Caching(p) => source[p] = "remote"
    /\ pc[p] = "cached" => dest[p] = "cache"
    /\ Caching(p) => p \in sharing
    /\ pc[p] # "idle" => result[p] = "none"

\* A call that clones from the cache has seen the locked checkout there, and a
\* checkout once in the cache stays.
Entry(p) ==
    /\ source[p] = "cache" => cache = Locked
    /\ Caching(p) /\ pc[p] \in {"unstage", "cached"} /\ ~failed[p] => cache = Locked
    /\ Caching(p) /\ failed[p] /\ ~hit[p] => ~Verified(remote) \/ cache # None

\* Before the call has looked at the cache.
Looking(p) ==
    /\ pc[p] \in {"verify", "replaceable"} => AsFound(p) /\ ~existed[p]
    /\ pc[p] = "replaceable" => target[p] # None /\ (hit[p] \/ ~Verified(target[p]))

\* While the cache is filled: what is to be replaced had no edits.
Waiting(p) ==
    /\ pc[p] \in {"cache", "preserve"} \/ Caching(p) =>
          /\ AsFound(p)
          /\ existed[p] <=> target[p] # None
          /\ existed[p] => racing[p] \/ target[p].clean
    /\ pc[p] = "preserve" => existed[p] /\ dest[p] = "target"

\* While the target is empty or new: the old checkout is the backup.
Replacing(p) ==
    /\ Placing(p) =>
          /\ Same(backup[p], start[p])
          /\ pc[p] \in {"clone", "publish"} => target[p] = None
          /\ pc[p] = "unstage" => IF failed[p] THEN target[p] = None /\ (hit[p] \/ ~Verified(remote))
                                  ELSE Same(target[p], Locked)
    /\ pc[p] \in {"clear", "restore", "drop"} => backup[p] # None /\ Same(backup[p], start[p])
    /\ pc[p] \in {"clear", "restore"} => target[p] = None /\ (hit[p] \/ ~Verified(remote))
    /\ pc[p] = "drop" => Same(target[p], Locked)

\* After a call.
Returned(p) ==
    pc[p] = "idle" =>
        /\ backup[p] = None
        /\ result[p] \in {"installed", "present"} => Same(target[p], Locked)
        /\ result[p] = "error" /\ orphans[p] = {} => Same(target[p], start[p])
        /\ result[p] = "error" /\ ~hit[p] => Hopeless(p)
        /\ \/ start[p] = None
           \/ Same(target[p], start[p]) \/ Same(target[p], Locked)
           \/ \E c \in orphans[p] : Same(c, start[p])

Phase(p) ==
    Control(p) /\ Entry(p) /\ Looking(p) /\ Waiting(p) /\ Replacing(p) /\ Returned(p)

\* The inductive invariant.
Inv == TypeOK /\ \A p \in Procs : Phase(p)

-----------------------------------------------------------------------------
\* What Same is used for: Same is an equivalence on paths, and edits do not count.
LEMMA SameFacts ==
    /\ \A c \in Paths : Same(c, c) /\ (Same(None, c) => c = None) /\ (Same(c, None) => c = None)
    /\ \A c \in Checkout : [c EXCEPT !.clean = FALSE] \in Checkout
    /\ \A c \in Checkout, d \in Paths : Same(c, d) => Same([c EXCEPT !.clean = FALSE], d)
<1>1. \A c \in Paths : Same(c, c) /\ (Same(None, c) => c = None) /\ (Same(c, None) => c = None)
  BY DEF Same
<1>2. \A c \in Checkout : [c EXCEPT !.clean = FALSE] \in Checkout
  BY DEF Checkout
<1>3. ASSUME NEW c \in Checkout, NEW d \in Paths, Same(c, d)
      PROVE  Same([c EXCEPT !.clean = FALSE], d)
  <2>1. c # None /\ [c EXCEPT !.clean = FALSE] # None
    BY <1>2, GitAssumption
  <2>2. d # None /\ d \in Checkout /\ [c EXCEPT !.clean = TRUE] = [d EXCEPT !.clean = TRUE]
    BY <1>3, <2>1 DEF Same, Paths
  <2>3. [[c EXCEPT !.clean = FALSE] EXCEPT !.clean = TRUE] = [c EXCEPT !.clean = TRUE]
    BY DEF Checkout
  <2> QED
    BY <2>1, <2>2, <2>3 DEF Same
<1> QED
  BY <1>1, <1>2, <1>3

\* Locked is a checkout, and there is one or there is none.
LEMMA LockedFacts ==
    Locked \in Checkout /\ Locked # None /\ None \in Paths /\ Locked.clean
<1>1. Locked \in Checkout /\ Locked.clean
  BY DEF Locked, Checkout
<1> QED
  BY <1>1, GitAssumption DEF Paths

\* The bounds are numbers.
LEMMA Bounds == MaxCalls \in Nat /\ MaxFaults \in Nat /\ MaxCrashes \in Nat /\ MaxEdits \in Nat
BY GitAssumption

\* The program points of a call.
Points == {"idle", "verify", "replaceable", "cache", "clone", "publish",
           "unstage", "cached", "preserve", "clear", "restore", "drop"}

\* A call counts a fault or it does not.
LEMMA FaultTypes ==
    ASSUME faults \in 0 .. MaxFaults, hit \in [Procs -> BOOLEAN], NEW p \in Procs, Works \/ Fault(p)
    PROVE  faults' \in 0 .. MaxFaults /\ hit' \in [Procs -> BOOLEAN]
<1>1. CASE Works
  BY <1>1 DEF Works
<1>2. CASE Fault(p)
  <2>1. faults' = faults + 1 /\ faults < MaxFaults /\ hit' = [hit EXCEPT ![p] = TRUE]
    BY <1>2 DEF Fault
  <2> QED
    BY <2>1, Bounds
<1> QED
  BY <1>1, <1>2

\* What a step of p leaves alone: the calls of the others, and the cache but for the
\* checkout it may put into an empty one.
Frame(p) ==
    /\ remote' = remote /\ short' = short /\ sharing' = sharing
    /\ cache' = cache \/ (cache = None /\ cache' = Locked)
    /\ \A q \in Procs \ {p} :
          /\ target'[q] = target[q] /\ backup'[q] = backup[q] /\ orphans'[q] = orphans[q]
          /\ staging'[q] = staging[q] /\ source'[q] = source[q] /\ dest'[q] = dest[q]
          /\ pc'[q] = pc[q] /\ existed'[q] = existed[q] /\ failed'[q] = failed[q]
          /\ result'[q] = result[q] /\ start'[q] = start[q]
          /\ hit'[q] = hit[q] /\ racing'[q] = racing[q]

\* The phases of the others survive a step, as nothing they say of the cache is undone.
LEMMA FrameInv ==
    ASSUME Inv, NEW p \in Procs, TypeOK', Frame(p), Phase(p)'
    PROVE  Inv'
<1> SUFFICES ASSUME NEW q \in Procs \ {p}
             PROVE  Phase(q)'
  BY DEF Inv
<1>1. Phase(q)
  BY DEF Inv
<1>2. Control(q)' /\ Looking(q)' /\ Waiting(q)' /\ Replacing(q)'
  BY <1>1 DEF Phase, Control, Looking, Waiting, Replacing, AsFound, Frame, Caching, Placing
<1>3. Entry(q)'
  BY <1>1, LockedFacts DEF Phase, Entry, Frame, Caching
<1>4. Hopeless(q) => Hopeless(q)'
  BY LockedFacts DEF Hopeless, Frame, Verified, Replaceable
<1>5. Returned(q)'
  BY <1>1, <1>4 DEF Phase, Returned, Frame
<1> QED
  BY <1>2, <1>3, <1>5 DEF Phase

\* A call begins with what is at the target.
LEMMA StartInv ==
    ASSUME Inv, NEW p \in Procs, Start(p)
    PROVE  Inv'
<1> USE DEF Start, world, disk, call, outcome, budget, Goto
<1>1. TypeOK /\ Phase(p)
  BY DEF Inv
<1>2. TypeOK'
  BY <1>1, LockedFacts, Bounds DEF TypeOK, Paths
<1>3. Frame(p)
  BY <1>1, LockedFacts DEF TypeOK, Frame, Phase, Control
<1>4. Control(p)'
  BY <1>1, LockedFacts DEF TypeOK, Phase, Control, Caching, Verified, Waiting
<1>5. Entry(p)'
  BY <1>1, LockedFacts DEF TypeOK, Phase, Control, Entry, Caching, Verified, Waiting
<1>6. Looking(p)'
  BY <1>1, SameFacts, LockedFacts, GitAssumption DEF TypeOK, Phase, Looking, Returned, AsFound, Paths, Verified
<1>7. Waiting(p)'
  BY <1>1, SameFacts, LockedFacts, GitAssumption
  DEF TypeOK, Phase, Control, Looking, Waiting, AsFound, Caching, Verified, Replaceable, Paths
<1>8. Replacing(p)'
  BY <1>1, SameFacts, LockedFacts, GitAssumption
  DEF TypeOK, Phase, Control, Entry, Waiting, Replacing, AsFound, Caching, Placing, Verified, Paths
<1>9. Returned(p)'
  BY <1>1, SameFacts, LockedFacts, GitAssumption
  DEF TypeOK, Phase, Control, Entry, Looking, Waiting, Replacing, Returned, AsFound, Caching, Placing,
      Hopeless, Verified, Paths
<1> QED
  BY <1>2, <1>3, <1>4, <1>5, <1>6, <1>7, <1>8, <1>9, FrameInv DEF Phase

\* A checkout that is the locked one is reported; another one is to be replaced.
LEMMA VerifyInv ==
    ASSUME Inv, NEW p \in Procs, Verify(p)
    PROVE  Inv'
<1> USE DEF Verify, world, disk, call, outcome, budget, At, Works, Fault, Goto, Return
<1>1. TypeOK /\ Phase(p)
  BY DEF Inv
<1>2. TypeOK'
  <2>1. faults' \in 0 .. MaxFaults /\ hit' \in [Procs -> BOOLEAN]
    <3> HIDE DEF Works, Fault
    <3>1. Works \/ Fault(p)
      OBVIOUS
    <3> QED
      BY <1>1, <3>1, FaultTypes DEF TypeOK
  <2> HIDE DEF Works, Fault
  <2> QED
    BY <1>1, <2>1, LockedFacts DEF TypeOK, Paths, Verified
<1>3. Frame(p)
  BY <1>1, LockedFacts DEF TypeOK, Frame, Phase, Control
<1>4. Control(p)'
  BY <1>1, LockedFacts DEF TypeOK, Phase, Control, Caching, Verified, Waiting
<1>5. Entry(p)'
  BY <1>1, LockedFacts DEF TypeOK, Phase, Control, Entry, Caching, Verified, Waiting
<1>6. Looking(p)'
  BY <1>1, SameFacts, LockedFacts, GitAssumption DEF TypeOK, Phase, Looking, Returned, AsFound, Paths, Verified
<1>7. Waiting(p)'
  BY <1>1, SameFacts, LockedFacts, GitAssumption
  DEF TypeOK, Phase, Control, Looking, Waiting, AsFound, Caching, Verified, Replaceable, Paths
<1>8. Replacing(p)'
  BY <1>1, SameFacts, LockedFacts, GitAssumption
  DEF TypeOK, Phase, Control, Entry, Waiting, Replacing, AsFound, Caching, Placing, Verified, Paths
<1>9. Returned(p)'
  BY <1>1, SameFacts, LockedFacts, GitAssumption
  DEF TypeOK, Phase, Control, Entry, Looking, Waiting, Replacing, Returned, AsFound, Caching, Placing,
      Hopeless, Verified, Paths
<1> QED
  BY <1>2, <1>3, <1>4, <1>5, <1>6, <1>7, <1>8, <1>9, FrameInv DEF Phase

\* Only a checkout without edits is to be replaced.
LEMMA CheckReplaceableInv ==
    ASSUME Inv, NEW p \in Procs, CheckReplaceable(p)
    PROVE  Inv'
<1> USE DEF CheckReplaceable, world, disk, call, outcome, budget, At, Works, Fault, Goto, Return
<1>1. TypeOK /\ Phase(p)
  BY DEF Inv
<1>2. TypeOK'
  <2>1. faults' \in 0 .. MaxFaults /\ hit' \in [Procs -> BOOLEAN]
    <3> HIDE DEF Works, Fault
    <3>1. Works \/ Fault(p)
      OBVIOUS
    <3> QED
      BY <1>1, <3>1, FaultTypes DEF TypeOK
  <2>2. pc' \in [Procs -> Points] /\ result' \in [Procs -> {"none", "installed", "present", "error"}]
    BY <1>1 DEF TypeOK, Points
  <2>3. /\ source' \in [Procs -> {"remote", "cache"}] /\ dest' \in [Procs -> {"cache", "target"}]
        /\ existed' \in [Procs -> BOOLEAN] /\ failed' \in [Procs -> BOOLEAN]
    BY <1>1 DEF TypeOK
  <2>4. UNCHANGED <<remote, short, sharing, cache, target, backup, orphans, staging, start, calls, crashes, edits, racing>>
    OBVIOUS
  <2> HIDE DEF Works, Fault, CheckReplaceable
  <2> QED
    BY <1>1, <2>1, <2>2, <2>3, <2>4 DEF TypeOK, Points
<1>3. Frame(p)
  BY <1>1, LockedFacts DEF TypeOK, Frame, Phase, Control
<1>4. Control(p)'
  BY <1>1, LockedFacts DEF TypeOK, Phase, Control, Caching, Verified, Waiting
<1>5. Entry(p)'
  BY <1>1, LockedFacts DEF TypeOK, Phase, Control, Entry, Caching, Verified, Waiting
<1>6. Looking(p)'
  BY <1>1, SameFacts, LockedFacts, GitAssumption DEF TypeOK, Phase, Looking, Returned, AsFound, Paths, Verified
<1>7. Waiting(p)'
  BY <1>1, SameFacts, LockedFacts, GitAssumption
  DEF TypeOK, Phase, Control, Looking, Waiting, AsFound, Caching, Verified, Replaceable, Paths
<1>8. Replacing(p)'
  BY <1>1, SameFacts, LockedFacts, GitAssumption
  DEF TypeOK, Phase, Control, Entry, Waiting, Replacing, AsFound, Caching, Placing, Verified, Paths
<1>9. Returned(p)'
  BY <1>1, SameFacts, LockedFacts, GitAssumption
  DEF TypeOK, Phase, Control, Entry, Looking, Waiting, Replacing, Returned, AsFound, Caching, Placing,
      Hopeless, Verified, Paths, Replaceable
<1> QED
  BY <1>2, <1>3, <1>4, <1>5, <1>6, <1>7, <1>8, <1>9, FrameInv DEF Phase

\* The cache has the locked checkout, or it is to be filled, or there is no hope.
LEMMA LookUpCacheInv ==
    ASSUME Inv, NEW p \in Procs, LookUpCache(p)
    PROVE  Inv'
<1> USE DEF LookUpCache, world, disk, call, outcome, budget, At, Works, Fault, Goto, Return, Proceed
<1>1. TypeOK /\ Phase(p)
  BY DEF Inv
<1>2. TypeOK'
  <2>1. faults' \in 0 .. MaxFaults /\ hit' \in [Procs -> BOOLEAN]
    <3> HIDE DEF Works, Fault
    <3>1. Works \/ Fault(p)
      OBVIOUS
    <3> QED
      BY <1>1, <3>1, FaultTypes DEF TypeOK
  <2>2. pc' \in [Procs -> Points] /\ result' \in [Procs -> {"none", "installed", "present", "error"}]
    BY <1>1 DEF TypeOK, Points
  <2>3. source' \in [Procs -> {"remote", "cache"}] /\ dest' \in [Procs -> {"cache", "target"}]
    BY <1>1 DEF TypeOK
  <2>4. existed' \in [Procs -> BOOLEAN] /\ failed' \in [Procs -> BOOLEAN]
    BY <1>1 DEF TypeOK
  <2>5. UNCHANGED <<remote, short, sharing, cache, target, backup, orphans, staging, start, calls, crashes, edits, racing>>
    OBVIOUS
  <2> HIDE DEF Works, Fault, LookUpCache
  <2> QED
    BY <1>1, <2>1, <2>2, <2>3, <2>4, <2>5 DEF TypeOK, Points
<1>3. Frame(p)
  BY <1>1, LockedFacts DEF TypeOK, Frame, Phase, Control
<1>4. Control(p)'
  BY <1>1, LockedFacts DEF TypeOK, Phase, Control, Caching, Verified, Waiting
<1>5. Entry(p)'
  BY <1>1, LockedFacts DEF TypeOK, Phase, Control, Entry, Caching, Verified, Waiting
<1>6. Looking(p)'
  BY <1>1, SameFacts, LockedFacts, GitAssumption DEF TypeOK, Phase, Looking, Returned, AsFound, Paths, Verified
<1>7. Waiting(p)'
  BY <1>1, SameFacts, LockedFacts, GitAssumption
  DEF TypeOK, Phase, Control, Looking, Waiting, AsFound, Caching, Verified, Replaceable, Paths
<1>8. Replacing(p)'
  BY <1>1, SameFacts, LockedFacts, GitAssumption
  DEF TypeOK, Phase, Control, Entry, Waiting, Replacing, AsFound, Caching, Placing, Verified, Paths
<1>9. Returned(p)'
  BY <1>1, SameFacts, LockedFacts, GitAssumption
  DEF TypeOK, Phase, Control, Entry, Looking, Waiting, Replacing, Returned, AsFound, Caching, Placing,
      Hopeless, Verified, Paths
<1> QED
  BY <1>2, <1>3, <1>4, <1>5, <1>6, <1>7, <1>8, <1>9, FrameInv DEF Phase

\* Without a cache the target is looked after all the same.
LEMMA SkipCacheInv ==
    ASSUME Inv, NEW p \in Procs, SkipCache(p)
    PROVE  Inv'
<1> USE DEF SkipCache, world, disk, call, outcome, budget, At, Works, Fault, Goto, Return, Proceed
<1>1. TypeOK /\ Phase(p)
  BY DEF Inv
<1>2. TypeOK'
  <2>1. faults' \in 0 .. MaxFaults /\ hit' \in [Procs -> BOOLEAN]
    <3> HIDE DEF Works, Fault
    <3>1. Works \/ Fault(p)
      OBVIOUS
    <3> QED
      BY <1>1, <3>1, FaultTypes DEF TypeOK
  <2>2. pc' \in [Procs -> Points] /\ result' \in [Procs -> {"none", "installed", "present", "error"}]
    BY <1>1 DEF TypeOK, Points
  <2>3. source' \in [Procs -> {"remote", "cache"}] /\ dest' \in [Procs -> {"cache", "target"}]
    BY <1>1 DEF TypeOK
  <2>4. existed' \in [Procs -> BOOLEAN] /\ failed' \in [Procs -> BOOLEAN]
    BY <1>1 DEF TypeOK
  <2>5. UNCHANGED <<remote, short, sharing, cache, target, backup, orphans, staging, start, calls, crashes, edits, racing>>
    OBVIOUS
  <2> HIDE DEF Works, Fault, SkipCache
  <2> QED
    BY <1>1, <2>1, <2>2, <2>3, <2>4, <2>5 DEF TypeOK, Points
<1>3. Frame(p)
  BY <1>1, LockedFacts DEF TypeOK, Frame, Phase, Control
<1>4. Control(p)'
  BY <1>1, LockedFacts DEF TypeOK, Phase, Control, Caching, Verified, Waiting
<1>5. Entry(p)'
  BY <1>1, LockedFacts DEF TypeOK, Phase, Control, Entry, Caching, Verified, Waiting
<1>6. Looking(p)'
  BY <1>1, SameFacts, LockedFacts, GitAssumption DEF TypeOK, Phase, Looking, Returned, AsFound, Paths, Verified
<1>7. Waiting(p)'
  BY <1>1, SameFacts, LockedFacts, GitAssumption
  DEF TypeOK, Phase, Control, Looking, Waiting, AsFound, Caching, Verified, Replaceable, Paths
<1>8. Replacing(p)'
  BY <1>1, SameFacts, LockedFacts, GitAssumption
  DEF TypeOK, Phase, Control, Entry, Waiting, Replacing, AsFound, Caching, Placing, Verified, Paths
<1>9. Returned(p)'
  BY <1>1, SameFacts, LockedFacts, GitAssumption
  DEF TypeOK, Phase, Control, Entry, Looking, Waiting, Replacing, Returned, AsFound, Caching, Placing,
      Hopeless, Verified, Paths
<1> QED
  BY <1>2, <1>3, <1>4, <1>5, <1>6, <1>7, <1>8, <1>9, FrameInv DEF Phase

\* What is staged is the locked checkout.
LEMMA CloneInv ==
    ASSUME Inv, NEW p \in Procs, Clone(p)
    PROVE  Inv'
<1> USE DEF Clone, world, disk, call, outcome, budget, At, Works, Fault, Goto, Fetched
<1>1. TypeOK /\ Phase(p)
  BY DEF Inv
<1>2. TypeOK'
  <2>1. faults' \in 0 .. MaxFaults /\ hit' \in [Procs -> BOOLEAN]
    <3> HIDE DEF Works, Fault
    <3>1. Works \/ Fault(p)
      OBVIOUS
    <3> QED
      BY <1>1, <3>1, FaultTypes DEF TypeOK
  <2> HIDE DEF Works, Fault
  <2>2. staging' \in [Procs -> {None, Locked}]
    BY <1>1, LockedFacts DEF TypeOK, Verified
  <2>3. pc' \in [Procs -> Points] /\ failed' \in [Procs -> BOOLEAN]
    BY <1>1 DEF TypeOK, Points
  <2>4. UNCHANGED <<remote, short, sharing, cache, target, backup, orphans, source, dest, existed, result, start,
                    calls, crashes, edits, racing>>
    OBVIOUS
  <2> HIDE DEF Clone
  <2> QED
    BY <1>1, <2>1, <2>2, <2>3, <2>4 DEF TypeOK, Points
<1>3. Frame(p)
  BY <1>1, LockedFacts DEF TypeOK, Frame, Phase, Control
<1>4. Control(p)'
  BY <1>1, LockedFacts DEF TypeOK, Phase, Control, Caching, Verified, Waiting
<1>5. Entry(p)'
  BY <1>1, LockedFacts DEF TypeOK, Phase, Control, Entry, Caching, Verified, Waiting
<1>6. Looking(p)'
  BY <1>1, SameFacts, LockedFacts, GitAssumption DEF TypeOK, Phase, Looking, Returned, AsFound, Paths, Verified
<1>7. Waiting(p)'
  BY <1>1, SameFacts, LockedFacts, GitAssumption
  DEF TypeOK, Phase, Control, Looking, Waiting, AsFound, Caching, Verified, Replaceable, Paths
<1>8. Replacing(p)'
  BY <1>1, SameFacts, LockedFacts, GitAssumption
  DEF TypeOK, Phase, Control, Entry, Waiting, Replacing, AsFound, Caching, Placing, Verified, Paths
<1>9. Returned(p)'
  BY <1>1, SameFacts, LockedFacts, GitAssumption
  DEF TypeOK, Phase, Control, Entry, Looking, Waiting, Replacing, Returned, AsFound, Caching, Placing,
      Hopeless, Verified, Paths
<1> QED
  BY <1>2, <1>3, <1>4, <1>5, <1>6, <1>7, <1>8, <1>9, FrameInv DEF Phase

\* The staged checkout is put where there is none.
LEMMA PublishInv ==
    ASSUME Inv, NEW p \in Procs, Publish(p)
    PROVE  Inv'
<1> USE DEF Publish, world, disk, call, outcome, budget, At, Works, Fault, Goto
<1>1. TypeOK /\ Phase(p)
  BY DEF Inv
<1>2. TypeOK'
  <2>1. faults' \in 0 .. MaxFaults /\ hit' \in [Procs -> BOOLEAN]
    <3> HIDE DEF Works, Fault
    <3>1. Works \/ Fault(p)
      OBVIOUS
    <3> QED
      BY <1>1, <3>1, FaultTypes DEF TypeOK
  <2> HIDE DEF Works, Fault
  <2>2. staging' \in [Procs -> {None, Locked}]
    BY <1>1, LockedFacts DEF TypeOK, Verified
  <2>3. cache' \in Paths /\ target' \in [Procs -> Paths]
    BY <1>1, LockedFacts DEF TypeOK, Paths, Phase, Control
  <2> QED
    BY <1>1, <2>1, <2>2, <2>3, LockedFacts DEF TypeOK, Paths
<1>3. Frame(p)
  BY <1>1, LockedFacts DEF TypeOK, Frame, Phase, Control
<1>4. Control(p)'
  BY <1>1, LockedFacts DEF TypeOK, Phase, Control, Caching, Verified, Waiting
<1>5. Entry(p)'
  BY <1>1, LockedFacts DEF TypeOK, Phase, Control, Entry, Caching, Verified, Waiting
<1>6. Looking(p)'
  BY <1>1, SameFacts, LockedFacts, GitAssumption DEF TypeOK, Phase, Looking, Returned, AsFound, Paths, Verified
<1>7. Waiting(p)'
  BY <1>1, SameFacts, LockedFacts, GitAssumption
  DEF TypeOK, Phase, Control, Looking, Waiting, AsFound, Caching, Verified, Replaceable, Paths
<1>8. Replacing(p)'
  BY <1>1, SameFacts, LockedFacts, GitAssumption
  DEF TypeOK, Phase, Control, Entry, Waiting, Replacing, AsFound, Caching, Placing, Verified, Paths
<1>9. Returned(p)'
  BY <1>1, SameFacts, LockedFacts, GitAssumption
  DEF TypeOK, Phase, Control, Entry, Looking, Waiting, Replacing, Returned, AsFound, Caching, Placing,
      Hopeless, Verified, Paths
<1> QED
  BY <1>2, <1>3, <1>4, <1>5, <1>6, <1>7, <1>8, <1>9, FrameInv DEF Phase

\* installCheckout returns to its caller.
LEMMA UnstageInv ==
    ASSUME Inv, NEW p \in Procs, Unstage(p)
    PROVE  Inv'
<1> USE DEF Unstage, world, disk, call, outcome, budget, At, Works, Fault, Goto, Return
<1>1. TypeOK /\ Phase(p)
  BY DEF Inv
<1>2. TypeOK'
  <2>1. faults' \in 0 .. MaxFaults /\ hit' \in [Procs -> BOOLEAN]
    <3> HIDE DEF Works, Fault
    <3>1. Works \/ Fault(p)
      OBVIOUS
    <3> QED
      BY <1>1, <3>1, FaultTypes DEF TypeOK
  <2> HIDE DEF Works, Fault
  <2> QED
    BY <1>1, <2>1, LockedFacts DEF TypeOK, Paths, Verified
<1>3. Frame(p)
  BY <1>1, LockedFacts DEF TypeOK, Frame, Phase, Control
<1>4. Control(p)'
  BY <1>1, LockedFacts DEF TypeOK, Phase, Control, Caching, Verified, Waiting
<1>5. Entry(p)'
  BY <1>1, LockedFacts DEF TypeOK, Phase, Control, Entry, Caching, Verified, Waiting
<1>6. Looking(p)'
  BY <1>1, SameFacts, LockedFacts, GitAssumption DEF TypeOK, Phase, Looking, Returned, AsFound, Paths, Verified
<1>7. Waiting(p)'
  BY <1>1, SameFacts, LockedFacts, GitAssumption
  DEF TypeOK, Phase, Control, Looking, Waiting, AsFound, Caching, Verified, Replaceable, Paths
<1>8. Replacing(p)'
  BY <1>1, SameFacts, LockedFacts, GitAssumption
  DEF TypeOK, Phase, Control, Entry, Waiting, Replacing, AsFound, Caching, Placing, Verified, Paths
<1>9. Returned(p)'
  BY <1>1, SameFacts, LockedFacts, GitAssumption
  DEF TypeOK, Phase, Control, Entry, Looking, Waiting, Replacing, Returned, AsFound, Caching, Placing,
      Hopeless, Verified, Paths
<1> QED
  BY <1>2, <1>3, <1>4, <1>5, <1>6, <1>7, <1>8, <1>9, FrameInv DEF Phase

\* A filled cache has the locked checkout, whoever filled it.
LEMMA CachedInv ==
    ASSUME Inv, NEW p \in Procs, Cached(p)
    PROVE  Inv'
<1> USE DEF Cached, world, disk, call, outcome, budget, At, Works, Fault, Goto, Return, Proceed
<1>1. TypeOK /\ Phase(p)
  BY DEF Inv
<1>2. TypeOK'
  <2>1. faults' \in 0 .. MaxFaults /\ hit' \in [Procs -> BOOLEAN]
    <3> HIDE DEF Works, Fault
    <3>1. Works \/ Fault(p)
      OBVIOUS
    <3> QED
      BY <1>1, <3>1, FaultTypes DEF TypeOK
  <2>2. pc' \in [Procs -> Points] /\ result' \in [Procs -> {"none", "installed", "present", "error"}]
    BY <1>1 DEF TypeOK, Points
  <2>3. source' \in [Procs -> {"remote", "cache"}] /\ dest' \in [Procs -> {"cache", "target"}]
    BY <1>1 DEF TypeOK
  <2>4. existed' \in [Procs -> BOOLEAN] /\ failed' \in [Procs -> BOOLEAN]
    BY <1>1 DEF TypeOK
  <2>5. UNCHANGED <<remote, short, sharing, cache, target, backup, orphans, staging, start, calls, crashes, edits, racing>>
    OBVIOUS
  <2> HIDE DEF Works, Fault, Cached
  <2> QED
    BY <1>1, <2>1, <2>2, <2>3, <2>4, <2>5 DEF TypeOK, Points
<1>3. Frame(p)
  BY <1>1, LockedFacts DEF TypeOK, Frame, Phase, Control
<1>4. Control(p)'
  BY <1>1, LockedFacts DEF TypeOK, Phase, Control, Caching, Verified, Waiting
<1>5. Entry(p)'
  BY <1>1, LockedFacts DEF TypeOK, Phase, Control, Entry, Caching, Verified, Waiting
<1>6. Looking(p)'
  BY <1>1, SameFacts, LockedFacts, GitAssumption DEF TypeOK, Phase, Looking, Returned, AsFound, Paths, Verified
<1>7. Waiting(p)'
  BY <1>1, SameFacts, LockedFacts, GitAssumption
  DEF TypeOK, Phase, Control, Looking, Waiting, AsFound, Caching, Verified, Replaceable, Paths
<1>8. Replacing(p)'
  BY <1>1, SameFacts, LockedFacts, GitAssumption
  DEF TypeOK, Phase, Control, Entry, Waiting, Replacing, AsFound, Caching, Placing, Verified, Paths
<1>9. Returned(p)'
  BY <1>1, SameFacts, LockedFacts, GitAssumption
  DEF TypeOK, Phase, Control, Entry, Looking, Waiting, Replacing, Returned, AsFound, Caching, Placing,
      Hopeless, Verified, Paths
<1> QED
  BY <1>2, <1>3, <1>4, <1>5, <1>6, <1>7, <1>8, <1>9, FrameInv DEF Phase

\* The old checkout is moved to the backup.
LEMMA PreserveInv ==
    ASSUME Inv, NEW p \in Procs, Preserve(p)
    PROVE  Inv'
<1> USE DEF Preserve, world, disk, call, outcome, budget, At, Works, Fault, Goto, Return
<1>1. TypeOK /\ Phase(p)
  BY DEF Inv
<1>2. TypeOK'
  <2>1. faults' \in 0 .. MaxFaults /\ hit' \in [Procs -> BOOLEAN]
    <3> HIDE DEF Works, Fault
    <3>1. Works \/ Fault(p)
      OBVIOUS
    <3> QED
      BY <1>1, <3>1, FaultTypes DEF TypeOK
  <2> HIDE DEF Works, Fault
  <2> QED
    BY <1>1, <2>1, LockedFacts DEF TypeOK, Paths, Verified
<1>3. Frame(p)
  BY <1>1, LockedFacts DEF TypeOK, Frame, Phase, Control
<1>4. Control(p)'
  BY <1>1, LockedFacts DEF TypeOK, Phase, Control, Caching, Verified, Waiting
<1>5. Entry(p)'
  BY <1>1, LockedFacts DEF TypeOK, Phase, Control, Entry, Caching, Verified, Waiting
<1>6. Looking(p)'
  BY <1>1, SameFacts, LockedFacts, GitAssumption DEF TypeOK, Phase, Looking, Returned, AsFound, Paths, Verified
<1>7. Waiting(p)'
  BY <1>1, SameFacts, LockedFacts, GitAssumption
  DEF TypeOK, Phase, Control, Looking, Waiting, AsFound, Caching, Verified, Replaceable, Paths
<1>8. Replacing(p)'
  BY <1>1, SameFacts, LockedFacts, GitAssumption
  DEF TypeOK, Phase, Control, Entry, Waiting, Replacing, AsFound, Caching, Placing, Verified, Paths
<1>9. Returned(p)'
  BY <1>1, SameFacts, LockedFacts, GitAssumption
  DEF TypeOK, Phase, Control, Entry, Looking, Waiting, Replacing, Returned, AsFound, Caching, Placing,
      Hopeless, Verified, Paths
<1> QED
  BY <1>2, <1>3, <1>4, <1>5, <1>6, <1>7, <1>8, <1>9, FrameInv DEF Phase

\* There is nothing to clear.
LEMMA ClearInv ==
    ASSUME Inv, NEW p \in Procs, Clear(p)
    PROVE  Inv'
<1> USE DEF Clear, world, disk, call, outcome, budget, At, Works, Fault, Goto
<1>1. TypeOK /\ Phase(p)
  BY DEF Inv
<1>2. TypeOK'
  <2>1. faults' \in 0 .. MaxFaults /\ hit' \in [Procs -> BOOLEAN]
    <3> HIDE DEF Works, Fault
    <3>1. Works \/ Fault(p)
      OBVIOUS
    <3> QED
      BY <1>1, <3>1, FaultTypes DEF TypeOK
  <2> HIDE DEF Works, Fault
  <2> QED
    BY <1>1, <2>1, LockedFacts DEF TypeOK, Paths, Verified
<1>3. Frame(p)
  BY <1>1, LockedFacts DEF TypeOK, Frame, Phase, Control
<1>4. Control(p)'
  BY <1>1, LockedFacts DEF TypeOK, Phase, Control, Caching, Verified, Waiting
<1>5. Entry(p)'
  BY <1>1, LockedFacts DEF TypeOK, Phase, Control, Entry, Caching, Verified, Waiting
<1>6. Looking(p)'
  BY <1>1, SameFacts, LockedFacts, GitAssumption DEF TypeOK, Phase, Looking, Returned, AsFound, Paths, Verified
<1>7. Waiting(p)'
  BY <1>1, SameFacts, LockedFacts, GitAssumption
  DEF TypeOK, Phase, Control, Looking, Waiting, AsFound, Caching, Verified, Replaceable, Paths
<1>8. Replacing(p)'
  BY <1>1, SameFacts, LockedFacts, GitAssumption
  DEF TypeOK, Phase, Control, Entry, Waiting, Replacing, AsFound, Caching, Placing, Verified, Paths
<1>9. Returned(p)'
  BY <1>1, SameFacts, LockedFacts, GitAssumption
  DEF TypeOK, Phase, Control, Entry, Looking, Waiting, Replacing, Returned, AsFound, Caching, Placing,
      Hopeless, Verified, Paths
<1> QED
  BY <1>2, <1>3, <1>4, <1>5, <1>6, <1>7, <1>8, <1>9, FrameInv DEF Phase

\* The old checkout is put back, or stays in a backup.
LEMMA RestoreInv ==
    ASSUME Inv, NEW p \in Procs, Restore(p)
    PROVE  Inv'
<1> USE DEF Restore, world, disk, call, outcome, budget, At, Works, Fault, Goto, Return
<1>1. TypeOK /\ Phase(p)
  BY DEF Inv
<1>2. TypeOK'
  <2>1. faults' \in 0 .. MaxFaults /\ hit' \in [Procs -> BOOLEAN]
    <3> HIDE DEF Works, Fault
    <3>1. Works \/ Fault(p)
      OBVIOUS
    <3> QED
      BY <1>1, <3>1, FaultTypes DEF TypeOK
  <2> HIDE DEF Works, Fault
  <2> QED
    BY <1>1, <2>1, LockedFacts DEF TypeOK, Paths, Verified, Phase, Replacing
<1>3. Frame(p)
  BY <1>1, LockedFacts DEF TypeOK, Frame, Phase, Control
<1>4. Control(p)'
  BY <1>1, LockedFacts DEF TypeOK, Phase, Control, Caching, Verified, Waiting
<1>5. Entry(p)'
  BY <1>1, LockedFacts DEF TypeOK, Phase, Control, Entry, Caching, Verified, Waiting
<1>6. Looking(p)'
  BY <1>1, SameFacts, LockedFacts, GitAssumption DEF TypeOK, Phase, Looking, Returned, AsFound, Paths, Verified
<1>7. Waiting(p)'
  BY <1>1, SameFacts, LockedFacts, GitAssumption
  DEF TypeOK, Phase, Control, Looking, Waiting, AsFound, Caching, Verified, Replaceable, Paths
<1>8. Replacing(p)'
  BY <1>1, SameFacts, LockedFacts, GitAssumption
  DEF TypeOK, Phase, Control, Entry, Waiting, Replacing, AsFound, Caching, Placing, Verified, Paths
<1>9. Returned(p)'
  BY <1>1, SameFacts, LockedFacts, GitAssumption
  DEF TypeOK, Phase, Control, Entry, Looking, Waiting, Replacing, Returned, AsFound, Caching, Placing,
      Hopeless, Verified, Paths
<1> QED
  BY <1>2, <1>3, <1>4, <1>5, <1>6, <1>7, <1>8, <1>9, FrameInv DEF Phase

\* The new checkout is in place.
LEMMA DropInv ==
    ASSUME Inv, NEW p \in Procs, Drop(p)
    PROVE  Inv'
<1> USE DEF Drop, world, disk, call, outcome, budget, At, Works, Fault, Goto, Return
<1>1. TypeOK /\ Phase(p)
  BY DEF Inv
<1>2. TypeOK'
  <2>1. faults' \in 0 .. MaxFaults /\ hit' \in [Procs -> BOOLEAN]
    <3> HIDE DEF Works, Fault
    <3>1. Works \/ Fault(p)
      OBVIOUS
    <3> QED
      BY <1>1, <3>1, FaultTypes DEF TypeOK
  <2> HIDE DEF Works, Fault
  <2> QED
    BY <1>1, <2>1, LockedFacts DEF TypeOK, Paths, Verified, Phase, Replacing
<1>3. Frame(p)
  BY <1>1, LockedFacts DEF TypeOK, Frame, Phase, Control
<1>4. Control(p)'
  BY <1>1, LockedFacts DEF TypeOK, Phase, Control, Caching, Verified, Waiting
<1>5. Entry(p)'
  BY <1>1, LockedFacts DEF TypeOK, Phase, Control, Entry, Caching, Verified, Waiting
<1>6. Looking(p)'
  BY <1>1, SameFacts, LockedFacts, GitAssumption DEF TypeOK, Phase, Looking, Returned, AsFound, Paths, Verified
<1>7. Waiting(p)'
  BY <1>1, SameFacts, LockedFacts, GitAssumption
  DEF TypeOK, Phase, Control, Looking, Waiting, AsFound, Caching, Verified, Replaceable, Paths
<1>8. Replacing(p)'
  BY <1>1, SameFacts, LockedFacts, GitAssumption
  DEF TypeOK, Phase, Control, Entry, Waiting, Replacing, AsFound, Caching, Placing, Verified, Paths
<1>9. Returned(p)'
  BY <1>1, SameFacts, LockedFacts, GitAssumption
  DEF TypeOK, Phase, Control, Entry, Looking, Waiting, Replacing, Returned, AsFound, Caching, Placing,
      Hopeless, Verified, Paths
<1> QED
  BY <1>2, <1>3, <1>4, <1>5, <1>6, <1>7, <1>8, <1>9, FrameInv DEF Phase

\* A crash leaves the old checkout at the target or in a backup.
LEMMA CrashInv ==
    ASSUME Inv, NEW p \in Procs, Crash(p)
    PROVE  Inv'
<1> USE DEF Crash, world, disk, call, outcome, budget, Goto
<1>1. TypeOK /\ Phase(p)
  BY DEF Inv
<1>2. TypeOK'
  BY <1>1, LockedFacts, Bounds DEF TypeOK, Paths
<1>3. Frame(p)
  BY <1>1, LockedFacts DEF TypeOK, Frame, Phase, Control
<1>4. Control(p)'
  BY <1>1, LockedFacts DEF TypeOK, Phase, Control, Caching, Verified, Waiting
<1>5. Entry(p)'
  BY <1>1, LockedFacts DEF TypeOK, Phase, Control, Entry, Caching, Verified, Waiting
<1>6. Looking(p)'
  BY <1>1, SameFacts, LockedFacts, GitAssumption DEF TypeOK, Phase, Looking, Returned, AsFound, Paths, Verified
<1>7. Waiting(p)'
  BY <1>1, SameFacts, LockedFacts, GitAssumption
  DEF TypeOK, Phase, Control, Looking, Waiting, AsFound, Caching, Verified, Replaceable, Paths
<1>8. Replacing(p)'
  BY <1>1, SameFacts, LockedFacts, GitAssumption
  DEF TypeOK, Phase, Control, Entry, Waiting, Replacing, AsFound, Caching, Placing, Verified, Paths
<1>9. Returned(p)'
  BY <1>1, SameFacts, LockedFacts, GitAssumption
  DEF TypeOK, Phase, Control, Entry, Looking, Waiting, Replacing, Returned, AsFound, Caching, Placing,
      Hopeless, Verified, Paths
<1> QED
  BY <1>2, <1>3, <1>4, <1>5, <1>6, <1>7, <1>8, <1>9, FrameInv DEF Phase

\* An edit changes neither the commit nor the sources.
LEMMA EditInv ==
    ASSUME Inv, NEW p \in Procs, Edit(p)
    PROVE  Inv'
<1> USE DEF Edit, world, disk, call, outcome, budget
<1>1. TypeOK /\ Phase(p)
  BY DEF Inv
<1>2. TypeOK'
  BY <1>1, SameFacts, LockedFacts, Bounds DEF TypeOK, Paths
<1>3. Frame(p)
  BY <1>1, LockedFacts DEF TypeOK, Frame, Phase, Control
<1>4. Control(p)'
  BY <1>1, LockedFacts DEF TypeOK, Phase, Control, Caching, Verified, Waiting
<1>5. Entry(p)'
  BY <1>1, LockedFacts DEF TypeOK, Phase, Control, Entry, Caching, Verified, Waiting
<1>6. Looking(p)'
  BY <1>1, SameFacts, LockedFacts, GitAssumption DEF TypeOK, Phase, Looking, Returned, AsFound, Paths, Verified
<1>7. Waiting(p)'
  BY <1>1, SameFacts, LockedFacts, GitAssumption
  DEF TypeOK, Phase, Control, Looking, Waiting, AsFound, Caching, Verified, Replaceable, Paths
<1>8. Replacing(p)'
  BY <1>1, SameFacts, LockedFacts, GitAssumption
  DEF TypeOK, Phase, Control, Entry, Waiting, Replacing, AsFound, Caching, Placing, Verified, Paths
<1>9. Returned(p)'
  BY <1>1, SameFacts, LockedFacts, GitAssumption
  DEF TypeOK, Phase, Control, Entry, Looking, Waiting, Replacing, Returned, AsFound, Caching, Placing,
      Hopeless, Verified, Paths
<1> QED
  BY <1>2, <1>3, <1>4, <1>5, <1>6, <1>7, <1>8, <1>9, FrameInv DEF Phase

\* Nothing is known of a call before the first.
LEMMA InitInv == Init => Inv
<1> SUFFICES ASSUME Init
             PROVE  Inv
  OBVIOUS
<1> USE DEF Init, InitGit
<1>1. TypeOK
  BY GitAssumption DEF TypeOK, Paths
<1>2. ASSUME NEW p \in Procs
      PROVE  Phase(p)
  BY SameFacts DEF Phase, Control, Entry, Looking, Waiting, Replacing, Returned, AsFound, Caching, Placing
<1> QED
  BY <1>1, <1>2 DEF Inv

\* Every step keeps the invariant.
LEMMA NextInv ==
    ASSUME Inv, [Next]_vars
    PROVE  Inv'
<1>1. CASE UNCHANGED vars
  <2> USE DEF vars, world, disk, call, outcome, budget
  <2>1. TypeOK'
    BY <1>1 DEF Inv, TypeOK
  <2>2. ASSUME NEW p \in Procs
        PROVE  Phase(p)'
    BY <1>1 DEF Inv, Phase, Control, Entry, Looking, Waiting, Replacing, Returned, AsFound,
                Caching, Placing, Hopeless, Verified, Replaceable, Same
  <2> QED
    BY <2>1, <2>2 DEF Inv
<1>2. CASE Next
  BY <1>2, StartInv, VerifyInv, CheckReplaceableInv, LookUpCacheInv, SkipCacheInv, CloneInv, PublishInv, UnstageInv,
     CachedInv, PreserveInv, ClearInv, RestoreInv, DropInv, CrashInv, EditInv DEF Next, Step
<1> QED
  BY <1>1, <1>2

-----------------------------------------------------------------------------
\* The inductive invariant: where the old and the new checkout are at each step of
\* Install (git.go:79-231).
THEOREM InstallInvariant == Spec => []Inv
  BY InitInv, NextInv, PTL DEF Spec

\* Every variable keeps its type: nothing but the locked checkout is ever staged.
THEOREM InstallTypeCorrect == Spec => []TypeOK
<1>1. Inv => TypeOK
  BY DEF Inv
<1> QED
  BY <1>1, InstallInvariant, PTL

\* A call reports success with the locked commit at the target only, whatever was
\* there and in the cache, and however many projects fill the cache (git.go:79).
THEOREM SuccessIsLocked == Spec => []ReportedIsLocked
<1>1. Inv => ReportedIsLocked
  BY DEF Inv, Phase, Returned, ReportedIsLocked
<1> QED
  BY <1>1, InstallInvariant, PTL

\* At every step, failure and crash the checkout that was found is at the target or in
\* a backup, until the new one is in place (replaceCheckout).
THEOREM OldIsKept == Spec => []OldKept
<1>1. Inv => OldKept
  <2> SUFFICES ASSUME Inv, NEW p \in Procs, start[p] # None,
                      ~Same(target[p], start[p]), ~Same(target[p], Locked)
               PROVE  \E c \in {backup[p]} \union orphans[p] : Same(c, start[p])
    BY DEF OldKept
  <2>1. TypeOK /\ Phase(p)
    BY DEF Inv
  <2>2. CASE pc[p] = "idle"
    BY <2>1, <2>2 DEF Phase, Returned
  <2>3. CASE pc[p] # "idle"
    <3>1. Placing(p) \/ pc[p] \in {"clear", "restore", "drop"}
      BY <2>1, <2>3 DEF TypeOK, Phase, Looking, Waiting, AsFound, Caching, Placing, Control
    <3> QED
      BY <2>1, <3>1 DEF Phase, Replacing
  <2> QED
    BY <2>2, <2>3
<1> QED
  BY <1>1, InstallInvariant, PTL

\* A call that fails leaves what it found at the target, unless the undo of the
\* replacement failed (replaceCheckout).
THEOREM FailurePutsBack == Spec => []FailureRestores
<1>1. Inv => FailureRestores
  BY DEF Inv, Phase, Returned, FailureRestores
<1> QED
  BY <1>1, InstallInvariant, PTL

\* No race of any number of projects for the cache makes a call fail
\* (ensureCachedCheckout).
THEOREM RaceHasNoLoser == Spec => []UndisturbedSucceeds
<1>1. Inv => UndisturbedSucceeds
  BY DEF Inv, Phase, Returned, Hopeless, UndisturbedSucceeds
<1> QED
  BY <1>1, InstallInvariant, PTL

\* An edit that a call may have seen is never moved away or removed
\* (validateReplaceableCheckout).
THEOREM EditsAreLeft == Spec => EditsStay
<1> DEFINE Left == \A p \in Procs :
                      target[p] # None /\ ~target[p].clean /\ ~racing[p] => target'[p] = target[p]
<1>1. ASSUME Inv, [Next]_vars
      PROVE  [Left]_vars
  <2> SUFFICES ASSUME Next, NEW p \in Procs, target[p] # None, ~target[p].clean, ~racing[p]
               PROVE  target'[p] = target[p]
    BY <1>1
  <2>1. TypeOK /\ Phase(p) /\ target[p] \in Checkout
    BY <1>1 DEF Inv, TypeOK, Paths
  <2>2. PICK q \in Procs : Start(q) \/ Step(q) \/ Crash(q) \/ Edit(q)
    BY DEF Next
  <2>3. ASSUME target'[p] # target[p]
        PROVE  Publish(q) \/ Preserve(q) \/ Clear(q) \/ Restore(q) \/ Edit(q)
    BY <2>2, <2>3 DEF Step, Start, Verify, CheckReplaceable, LookUpCache, SkipCache, Clone, Unstage, Cached, Drop,
                      Crash, disk, call, outcome
  <2>4. CASE q # p
    BY <2>1, <2>3, <2>4 DEF Publish, Preserve, Clear, Restore, Edit, TypeOK
  <2>5. CASE q = p /\ Edit(q)
    <3>1. target'[p] = [target[p] EXCEPT !.clean = FALSE]
      BY <2>1, <2>5 DEF Edit, TypeOK
    <3> QED
      BY <2>1, <3>1 DEF Checkout
  <2>6. CASE q = p /\ Preserve(q)
    BY <2>1, <2>6 DEF Preserve, At, Phase, Waiting
  <2>7. CASE q = p /\ (Publish(q) \/ Clear(q) \/ Restore(q))
    BY <2>1, <2>3, <2>7 DEF Publish, Clear, Restore, At, Phase, Replacing, Placing, TypeOK
  <2> QED
    BY <2>3, <2>4, <2>5, <2>6, <2>7
<1> QED
  BY InstallInvariant, <1>1, PTL DEF Spec, EditsStay
=============================================================================
