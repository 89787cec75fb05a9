----------------------- MODULE ResourceInstallProofs -----------------------
(***************************************************************************)
(* Proofs about ResourceInstall for any number of installers with disjoint *)
(* payloads of any length.                                                 *)
(*                                                                         *)
(* None of the safety properties is inductive: what the destination and    *)
(* the backup of an entry hold depends on how far the loops have come.     *)
(* Phase says it for every program point, and IInv adds the bounds of the  *)
(* loop index.                                                             *)
(***************************************************************************)
EXTENDS ResourceInstall, TLAPS

Untouched(p, i) ==
    /\ i \notin had[p] /\ i \notin inst[p]
    /\ disk[Entries[p][i]] = original[Entries[p][i]]
    /\ backup[p][i] = Absent

MovedAway(p, i) ==
    /\ i \in had[p] /\ i \notin inst[p]
    /\ disk[Entries[p][i]] = Absent
    /\ original[Entries[p][i]] = Old
    /\ backup[p][i] = Old

SafeBackup(p, i) ==
    \/ i \in had[p] /\ original[Entries[p][i]] = Old /\ backup[p][i] = Old
    \/ /\ i \notin had[p]
       /\ original[Entries[p][i]] \in {Absent, Dangling}
       /\ backup[p][i] = Absent

InPlace(p, i) == i \in inst[p] /\ disk[Entries[p][i]] = p /\ SafeBackup(p, i)

TakenOut(p, i) == i \in inst[p] /\ disk[Entries[p][i]] = Absent /\ SafeBackup(p, i)

Restored(p, i) ==
    /\ Seen(disk[Entries[p][i]]) = Seen(original[Entries[p][i]])
    /\ backup[p][i] = Absent

ToRollBack(p, i) == Untouched(p, i) \/ MovedAway(p, i) \/ InPlace(p, i)

\* What holds of entry i of installer p at each program point.
Phase(p, i) ==
    /\ pc[p] \in {"start", "mkmeta", "mktemp", "stage"} => Untouched(p, i)
    /\ pc[p] \in {"commit", "stat", "preserve", "mkparent", "place"} =>
          /\ i < k[p] => InPlace(p, i)
          /\ i > k[p] => Untouched(p, i)
    /\ pc[p] \in {"commit", "stat", "preserve"} /\ i = k[p] => Untouched(p, i)
    /\ pc[p] = "preserve" /\ i = k[p] => original[Entries[p][i]] = Old
    /\ pc[p] \in {"mkparent", "place"} /\ i = k[p] =>
          \/ MovedAway(p, i)
          \/ Untouched(p, i) /\ original[Entries[p][i]] \in {Absent, Dangling}
    /\ pc[p] \in {"unplace", "restore"} =>
          /\ i < k[p] => ToRollBack(p, i)
          /\ i > k[p] /\ err[p] = "failed" => Restored(p, i)
    /\ pc[p] = "unplace" /\ i = k[p] => ToRollBack(p, i)
    /\ pc[p] = "restore" /\ i = k[p] =>
          Untouched(p, i) \/ MovedAway(p, i) \/ TakenOut(p, i)
    /\ pc[p] \in {"cleanup", "done"} =>
          /\ err[p] \in {"none", "unclean"} => disk[Entries[p][i]] = p
          /\ err[p] = "failed" => Restored(p, i)

\* The loop index and the error at each program point.
Control(p) ==
    /\ pc[p] \in {"commit", "stat", "preserve", "mkparent", "place", "restore"} => k[p] >= 1
    /\ pc[p] \in {"stat", "preserve", "mkparent", "place", "restore"} => k[p] \in Idx(p)
    /\ pc[p] = "commit" => k[p] <= Last(p) + 1
    /\ pc[p] = "unplace" => k[p] <= Last(p)
    /\ pc[p] \in {"unplace", "restore"} => err[p] \in {"failed", "damaged"}
    /\ pc[p] \notin {"unplace", "restore", "cleanup", "done"} => err[p] = "none"

IInv ==
    /\ TypeOK
    /\ \A p \in Installers : Control(p)
    /\ \A p \in Installers : \A i \in Idx(p) : Phase(p, i)
-----------------------------------------------------------------------------
\* The loop indices of a payload are 1 .. Len, and index a destination.
LEMMA Indices ==
    ASSUME NEW p \in Installers
    PROVE  /\ Last(p) \in Nat
           /\ Idx(p) = 1 .. Last(p)
           /\ \A i \in Idx(p) : Entries[p][i] \in Files
  BY InstallAssumption DEF InstallAssumption, Last, Idx

\* What a step of p leaves alone when it touches no destination but that of
\* the current entry: everything of the other installers.
Frame(p) ==
    /\ original' = original
    /\ \A f \in Files : (k[p] \notin Idx(p) \/ f # File(p)) => disk'[f] = disk[f]
    /\ \A q \in Installers \ {p} :
          /\ pc'[q] = pc[q] /\ k'[q] = k[q] /\ err'[q] = err[q]
          /\ backup'[q] = backup[q] /\ had'[q] = had[q] /\ inst'[q] = inst[q]

\* Installers with disjoint payloads do not disturb each other's invariant.
LEMMA FrameKeepsOthers ==
    ASSUME Isolated, IInv, NEW p \in Installers, Frame(p),
           NEW q \in Installers, q # p
    PROVE  Control(q)' /\ \A i \in Idx(q) : Phase(q, i)'
<1> USE DEF Frame
<1>1. /\ pc'[q] = pc[q] /\ k'[q] = k[q] /\ err'[q] = err[q]
      /\ backup'[q] = backup[q] /\ had'[q] = had[q] /\ inst'[q] = inst[q]
      /\ original' = original
  OBVIOUS
<1>2. Control(q)'
  BY <1>1 DEF IInv, Control, Idx, Last
<1>3. ASSUME NEW i \in Idx(q)
      PROVE  Phase(q, i)'
  <2>1. Entries[q][i] \in Files
    BY Indices
  <2>2. k[p] \in Idx(p) => Entries[q][i] # File(p)
    BY DEF Isolated, File
  <2>3. disk'[Entries[q][i]] = disk[Entries[q][i]]
    BY <2>1, <2>2
  <2>4. Phase(q, i)
    BY DEF IInv
  <2> QED
    BY <1>1, <2>3, <2>4
    DEF Phase, Untouched, MovedAway, InPlace, TakenOut, SafeBackup, Restored, ToRollBack
<1> QED
  BY <1>2, <1>3

\* A step of p keeps the invariant when it keeps the types, frames the other
\* installers and re-establishes p's own part.
LEMMA OwnPart ==
    ASSUME Isolated, IInv, NEW p \in Installers, TypeOK', Frame(p),
           Control(p)', \A i \in Idx(p) : Phase(p, i)'
    PROVE  IInv'
<1>1. \A q \in Installers : q # p => Control(q)' /\ \A i \in Idx(q) : Phase(q, i)'
  BY FrameKeepsOthers
<1> QED
  BY <1>1 DEF IInv, Idx

-----------------------------------------------------------------------------
\* The invariant holds at first.
LEMMA InitIInv == Init => IInv
<1> SUFFICES ASSUME Init
             PROVE  IInv
  OBVIOUS
<1>1. TypeOK
  BY InstallAssumption
  DEF Init, TypeOK, InstallAssumption, Contents, Kinds, PCs, Errors, Idx
<1>2. ASSUME NEW p \in Installers
      PROVE  Control(p)
  BY <1>2 DEF Init, Control
<1>3. ASSUME NEW p \in Installers, NEW i \in Idx(p)
      PROVE  Phase(p, i)
  <2>1. Untouched(p, i)
    BY DEF Init, Untouched
  <2> QED
    BY <2>1 DEF Init, Phase
<1> QED
  BY <1>1, <1>2, <1>3 DEF IInv
-----------------------------------------------------------------------------
(* The steps before the commit loop: nothing below the root is touched.    *)

\* Start keeps the inductive invariant.
LEMMA StartStep ==
    ASSUME Isolated, IInv, NEW p \in Installers, Start(p)
    PROVE  IInv'
<1> USE DEF Start, FailEarly, Goto, At, shared, entryvars
<1>1. TypeOK'
  <2>1. pc' \in [Installers -> PCs]
    BY DEF IInv, TypeOK, PCs
  <2>2. err' \in [Installers -> Errors]
    BY DEF IInv, TypeOK, Errors
  <2> QED
    BY <2>1, <2>2 DEF IInv, TypeOK
<1>2. Frame(p)
  BY DEF IInv, TypeOK, Frame
<1>3. Control(p)'
  BY DEF IInv, TypeOK, Control
<1>4. ASSUME NEW i \in Idx(p)
      PROVE  Phase(p, i)'
  <2>1. Untouched(p, i)
    BY DEF IInv, Phase
  <2>2. Untouched(p, i)'
    BY <2>1 DEF Untouched
  <2>3. Restored(p, i)'
    BY <2>2 DEF Untouched, Restored, Seen
  <2> QED
    BY <2>2, <2>3 DEF Phase, IInv, TypeOK
<1> QED
  BY <1>1, <1>2, <1>3, <1>4, OwnPart

\* MakeMeta keeps the inductive invariant.
LEMMA MakeMetaStep ==
    ASSUME Isolated, IInv, NEW p \in Installers, MakeMeta(p)
    PROVE  IInv'
<1> USE DEF MakeMeta, FailEarly, Goto, At, shared, entryvars
<1>1. TypeOK'
  <2>1. pc' \in [Installers -> PCs]
    BY DEF IInv, TypeOK, PCs
  <2>2. err' \in [Installers -> Errors]
    BY DEF IInv, TypeOK, Errors
  <2>3. meta' \in Kinds
    BY DEF IInv, TypeOK, Kinds
  <2> QED
    BY <2>1, <2>2, <2>3 DEF IInv, TypeOK
<1>2. Frame(p)
  BY DEF IInv, TypeOK, Frame
<1>3. Control(p)'
  BY DEF IInv, TypeOK, Control
<1>4. ASSUME NEW i \in Idx(p)
      PROVE  Phase(p, i)'
  <2>1. Untouched(p, i)
    BY DEF IInv, Phase
  <2>2. Untouched(p, i)'
    BY <2>1 DEF Untouched
  <2>3. Restored(p, i)'
    BY <2>2 DEF Untouched, Restored, Seen
  <2> QED
    BY <2>2, <2>3 DEF Phase, IInv, TypeOK
<1> QED
  BY <1>1, <1>2, <1>3, <1>4, OwnPart

\* MakeTemp keeps the inductive invariant.
LEMMA MakeTempStep ==
    ASSUME Isolated, IInv, NEW p \in Installers, MakeTemp(p)
    PROVE  IInv'
<1> USE DEF MakeTemp, FailEarly, Goto, At, shared, entryvars
<1>1. TypeOK'
  <2>1. pc' \in [Installers -> PCs]
    BY DEF IInv, TypeOK, PCs
  <2>2. err' \in [Installers -> Errors]
    BY DEF IInv, TypeOK, Errors
  <2> QED
    BY <2>1, <2>2 DEF IInv, TypeOK
<1>2. Frame(p)
  BY DEF IInv, TypeOK, Frame
<1>3. Control(p)'
  BY DEF IInv, TypeOK, Control
<1>4. ASSUME NEW i \in Idx(p)
      PROVE  Phase(p, i)'
  <2>1. Untouched(p, i)
    BY DEF IInv, Phase
  <2>2. Untouched(p, i)'
    BY <2>1 DEF Untouched
  <2>3. Restored(p, i)'
    BY <2>2 DEF Untouched, Restored, Seen
  <2> QED
    BY <2>2, <2>3 DEF Phase, IInv, TypeOK
<1> QED
  BY <1>1, <1>2, <1>3, <1>4, OwnPart

\* Stage keeps the inductive invariant.
LEMMA StageStep ==
    ASSUME Isolated, IInv, NEW p \in Installers, Stage(p)
    PROVE  IInv'
<1> USE DEF Stage, FailStaging, Goto, At, shared, entryvars
<1>1. TypeOK'
  <2>1. k' \in [Installers -> Nat]
    BY DEF IInv, TypeOK
  <2>2. staged' \in [Installers -> SUBSET Nat]
    BY DEF IInv, TypeOK
  <2> QED
    BY <2>1, <2>2 DEF IInv, TypeOK, PCs, Errors
<1>2. Frame(p)
  BY DEF IInv, TypeOK, Frame
<1>3. Control(p)'
  BY DEF IInv, TypeOK, Control
<1>4. ASSUME NEW i \in Idx(p)
      PROVE  Phase(p, i)'
  <2>1. Untouched(p, i)
    BY DEF IInv, Phase
  <2>2. Untouched(p, i)'
    BY <2>1 DEF Untouched
  <2>3. Restored(p, i)'
    BY <2>2 DEF Untouched, Restored, Seen
  <2> QED
    BY <2>2, <2>3 DEF Phase, IInv, TypeOK
<1> QED
  BY <1>1, <1>2, <1>3, <1>4, OwnPart

\* BeginCommit keeps the inductive invariant.
LEMMA BeginCommitStep ==
    ASSUME Isolated, IInv, NEW p \in Installers, BeginCommit(p)
    PROVE  IInv'
<1> USE DEF BeginCommit, Goto, At, shared, entryvars
<1>0. Last(p) \in Nat /\ Idx(p) = 1 .. Last(p)
  BY Indices
<1>1. TypeOK'
  BY DEF IInv, TypeOK, PCs
<1>2. Frame(p)
  BY DEF IInv, TypeOK, Frame
<1>3. Control(p)'
  <2>1. pc'[p] = "commit" /\ k'[p] = 1 /\ err'[p] = "none"
    BY DEF IInv, TypeOK, Control
  <2>2. k'[p] <= Last(p)' + 1
    BY <1>0, <2>1 DEF Last
  <2> QED
    BY <2>1, <2>2 DEF Control
<1>4. ASSUME NEW i \in Idx(p)
      PROVE  Phase(p, i)'
  <2>1. Untouched(p, i)
    BY DEF IInv, Phase
  <2>2. Untouched(p, i)'
    BY <2>1 DEF Untouched
  <2>3. pc'[p] = "commit" /\ k'[p] = 1 /\ i >= 1
    BY <1>0 DEF IInv, TypeOK
  <2> QED
    BY <1>0, <2>2, <2>3 DEF Phase
<1> QED
  BY <1>1, <1>2, <1>3, <1>4, OwnPart

-----------------------------------------------------------------------------
(* The commit loop.                                                         *)

\* An error of commitResourceEntries hands every entry to the rollback.
LEMMA FailCommitOwn ==
    ASSUME IInv, NEW p \in Installers, FailCommit(p), disk' = disk, original' = original,
           pc[p] \in {"commit", "stat", "preserve", "mkparent", "place"},
           k[p] \in Idx(p)
    PROVE  Control(p)' /\ \A i \in Idx(p) : Phase(p, i)'
<1> USE DEF FailCommit, Goto, entryvars
<1>0. Last(p) \in Nat /\ Idx(p) = 1 .. Last(p) /\ k[p] \in Nat
  BY Indices DEF IInv, TypeOK
<1>1. /\ pc'[p] = "unplace" /\ k'[p] = Last(p) /\ err'[p] = "failed"
  BY DEF IInv, TypeOK
<1>2. Control(p)'
  BY <1>0, <1>1 DEF Control, Last
<1>3. ASSUME NEW i \in Idx(p)
      PROVE  Phase(p, i)'
  <2>1. ToRollBack(p, i)
    <3>1. Phase(p, i) /\ (i < k[p] \/ i = k[p] \/ i > k[p])
      BY <1>0 DEF IInv
    <3> QED
      BY <3>1 DEF Phase, ToRollBack
  <2>2. ToRollBack(p, i)'
    BY <2>1 DEF ToRollBack, Untouched, MovedAway, InPlace, SafeBackup
  <2>3. i <= k'[p]
    BY <1>0, <1>1
  <2> QED
    BY <1>0, <1>1, <2>2, <2>3 DEF Phase
<1> QED
  BY <1>2, <1>3

\* FailCommit keeps the inductive invariant.
LEMMA FailCommitStep ==
    ASSUME Isolated, IInv, NEW p \in Installers, FailCommit(p),
           UNCHANGED <<disk, dirs, meta, original, cancelled, alive>>,
           pc[p] \in {"commit", "stat", "preserve", "mkparent", "place"},
           k[p] \in Idx(p)
    PROVE  IInv'
<1>0. Last(p) \in Nat
  BY Indices
<1>1. TypeOK'
  <2>1. k' \in [Installers -> Nat]
    BY <1>0 DEF IInv, TypeOK, FailCommit
  <2>2. pc' \in [Installers -> PCs]
    BY DEF IInv, TypeOK, PCs, FailCommit, Goto
  <2>3. err' \in [Installers -> Errors]
    BY DEF IInv, TypeOK, Errors, FailCommit
  <2> QED
    BY <2>1, <2>2, <2>3 DEF IInv, TypeOK, FailCommit, entryvars
<1>2. Frame(p)
  BY DEF IInv, TypeOK, Frame, FailCommit, Goto, entryvars
<1>3. Control(p)' /\ \A i \in Idx(p) : Phase(p, i)'
  BY FailCommitOwn
<1> QED
  BY <1>1, <1>2, <1>3, OwnPart

\* CheckParents keeps the inductive invariant.
LEMMA CheckParentsStep ==
    ASSUME Isolated, IInv, NEW p \in Installers, CheckParents(p)
    PROVE  IInv'
<1>0. /\ Last(p) \in Nat /\ Idx(p) = 1 .. Last(p) /\ k[p] \in Idx(p)
      /\ At(p, "commit") /\ UNCHANGED <<shared, original, cancelled, alive>>
  BY Indices DEF IInv, TypeOK, Control, CheckParents, At
<1>1. CASE FailCommit(p)
  BY <1>0, <1>1, FailCommitStep DEF At, shared
<1>2. CASE ~FailCommit(p)
  <2>1. Goto(p, "stat") /\ UNCHANGED <<k, entryvars, err>>
    BY <1>2 DEF CheckParents
  <2> USE <1>0, <2>1 DEF At, Goto, shared, entryvars
  <2>2. pc' \in [Installers -> PCs] /\ pc'[p] = "stat"
    BY DEF IInv, TypeOK, PCs
  <2>3. TypeOK'
    BY <2>2 DEF IInv, TypeOK
  <2>4. Frame(p)
    BY DEF IInv, TypeOK, Frame
  <2>5. Control(p)'
    BY <2>2 DEF Control, IInv, Idx, TypeOK
  <2>6. ASSUME NEW i \in Idx(p)
        PROVE  Phase(p, i)'
    <3>1. Phase(p, i)
      BY DEF IInv
    <3> QED
      BY <2>2, <3>1 DEF Phase, Untouched, InPlace, SafeBackup
  <2> QED
    BY <2>3, <2>4, <2>5, <2>6, OwnPart
<1> QED
  BY <1>1, <1>2

\* The last entry is in place, so every entry is.
LEMMA CommittedStep ==
    ASSUME Isolated, IInv, NEW p \in Installers, Committed(p)
    PROVE  IInv'
<1> USE DEF Committed, Goto, At, shared, entryvars
<1>0. Last(p) \in Nat /\ Idx(p) = 1 .. Last(p) /\ k[p] \in Nat
  BY Indices DEF IInv, TypeOK
<1>1. TypeOK'
  BY DEF IInv, TypeOK, PCs
<1>2. Frame(p)
  BY DEF IInv, TypeOK, Frame
<1>3. Control(p)'
  BY DEF IInv, TypeOK, Control
<1>4. ASSUME NEW i \in Idx(p)
      PROVE  Phase(p, i)'
  <2>1. InPlace(p, i)
    BY <1>0 DEF IInv, Phase
  <2>2. disk'[Entries[p][i]] = p /\ pc'[p] = "cleanup" /\ err'[p] = "none"
    BY <2>1 DEF InPlace, IInv, Control, TypeOK
  <2> QED
    BY <2>2 DEF Phase
<1> QED
  BY <1>1, <1>2, <1>3, <1>4, OwnPart

\* StatTarget keeps the inductive invariant.
LEMMA StatTargetStep ==
    ASSUME Isolated, IInv, NEW p \in Installers, StatTarget(p)
    PROVE  IInv'
<1>0. /\ Last(p) \in Nat /\ Idx(p) = 1 .. Last(p) /\ k[p] \in Idx(p) /\ k[p] \in Nat
      /\ At(p, "stat") /\ UNCHANGED <<shared, original, cancelled, alive>>
  BY Indices DEF IInv, TypeOK, Control, StatTarget, At
<1>1. CASE FailCommit(p)
  BY <1>0, <1>1, FailCommitStep DEF At, shared
<1>2. CASE ~FailCommit(p)
  <2>1. /\ disk[File(p)] # Directory
        /\ Goto(p, IF disk[File(p)] \in {Absent, Dangling} THEN "mkparent" ELSE "preserve")
        /\ UNCHANGED <<k, entryvars, err>>
    BY <1>2 DEF StatTarget
  <2> USE <1>0, <2>1 DEF At, Goto, shared, entryvars
  <2>2. /\ pc' \in [Installers -> PCs]
        /\ pc'[p] = IF disk[File(p)] \in {Absent, Dangling} THEN "mkparent" ELSE "preserve"
    BY DEF IInv, TypeOK, PCs
  <2>3. TypeOK'
    BY <2>2 DEF IInv, TypeOK
  <2>4. Frame(p)
    BY DEF IInv, TypeOK, Frame
  <2>5. Control(p)'
    BY <2>2 DEF Control, IInv, Idx
  <2>6. Untouched(p, k[p]) /\ File(p) \in Files
    BY Indices DEF IInv, Phase, File
  <2>7. original[File(p)] = disk[File(p)]
    BY <2>6 DEF Untouched, File
  <2>8. original[File(p)] \in {Absent, Dangling, Old}
    BY <2>6, <2>7 DEF IInv, TypeOK
  <2>9. ASSUME NEW i \in Idx(p)
        PROVE  Phase(p, i)'
    <3>1. Phase(p, i)
      BY DEF IInv
    <3> QED
      BY <2>2, <2>7, <2>8, <3>1 DEF Phase, Untouched, InPlace, SafeBackup, File
  <2> QED
    BY <2>3, <2>4, <2>5, <2>9, OwnPart
<1> QED
  BY <1>1, <1>2

\* The other entries keep their destinations when p works on the current one.
LEMMA OtherEntries ==
    ASSUME NEW p \in Installers, k[p] \in Idx(p), NEW i \in Idx(p), i # k[p],
           \A f \in Files : f # File(p) => disk'[f] = disk[f]
    PROVE  disk'[Entries[p][i]] = disk[Entries[p][i]]
  BY Indices, InstallAssumption DEF InstallAssumption, File, Idx

\* Preserve keeps the inductive invariant.
LEMMA PreserveStep ==
    ASSUME Isolated, IInv, NEW p \in Installers, Preserve(p)
    PROVE  IInv'
<1>0. /\ Last(p) \in Nat /\ Idx(p) = 1 .. Last(p) /\ k[p] \in Idx(p) /\ k[p] \in Nat
      /\ File(p) \in Files
      /\ At(p, "preserve") /\ UNCHANGED <<dirs, meta, original, cancelled, alive>>
  BY Indices DEF IInv, TypeOK, Control, Preserve, At, File
<1>1. CASE FailCommit(p) /\ UNCHANGED disk
  BY <1>0, <1>1, FailCommitStep DEF At
<1>2. CASE ~(FailCommit(p) /\ UNCHANGED disk)
  <2>1. /\ backup' = [backup EXCEPT ![p][k[p]] = disk[File(p)]]
        /\ disk' = [disk EXCEPT ![File(p)] = Absent]
        /\ had' = [had EXCEPT ![p] = @ \union {k[p]}]
        /\ Goto(p, "mkparent")
        /\ UNCHANGED <<k, staged, inst, txn, err>>
    BY <1>2 DEF Preserve
  <2> USE <1>0, <2>1 DEF At, Goto
  <2>2. /\ pc' \in [Installers -> PCs] /\ pc'[p] = "mkparent"
        /\ had' \in [Installers -> SUBSET Nat] /\ had'[p] = had[p] \union {k[p]}
    BY DEF IInv, TypeOK, PCs
  <2>3. /\ disk' \in [Files -> Contents] /\ disk'[File(p)] = Absent
        /\ \A f \in Files : f # File(p) => disk'[f] = disk[f]
    BY DEF IInv, TypeOK, Contents
  <2>4. /\ DOMAIN backup' = Installers
        /\ \A q \in Installers : q # p => backup'[q] = backup[q]
        /\ backup'[p] = [backup[p] EXCEPT ![k[p]] = disk[File(p)]]
    BY DEF IInv, TypeOK
  <2>5. \A q \in Installers : backup'[q] \in [Idx(q) -> Contents]
    BY <2>4 DEF IInv, TypeOK
  <2>6. TypeOK'
    BY <2>2, <2>3, <2>4, <2>5 DEF IInv, TypeOK, Idx
  <2>7. Frame(p)
    BY <2>3, <2>4 DEF IInv, TypeOK, Frame
  <2>8. Control(p)'
    BY <2>2 DEF Control, IInv, Idx
  <2>9. Untouched(p, k[p]) /\ original[File(p)] = Old
    BY DEF IInv, Phase, File
  <2>10. /\ backup'[p][k[p]] = Old
         /\ \A i \in Idx(p) : i # k[p] => backup'[p][i] = backup[p][i]
    BY <2>4, <2>9 DEF IInv, TypeOK, Untouched, File
  <2>11. ASSUME NEW i \in Idx(p), i # k[p]
         PROVE  Phase(p, i)'
    <3>1. Phase(p, i)
      BY DEF IInv
    <3>2. disk'[Entries[p][i]] = disk[Entries[p][i]]
      BY <2>3, <2>11, OtherEntries
    <3> QED
      BY <2>2, <2>10, <2>11, <3>1, <3>2 DEF Phase, Untouched, InPlace, SafeBackup
  <2>12. MovedAway(p, k[p])'
    BY <2>2, <2>3, <2>9, <2>10 DEF MovedAway, Untouched, File
  <2>13. Phase(p, k[p])'
    BY <2>2, <2>12 DEF Phase
  <2>14. \A i \in Idx(p) : Phase(p, i)'
    BY <2>11, <2>13
  <2> QED
    BY <2>6, <2>7, <2>8, <2>14, OwnPart
<1> QED
  BY <1>1, <1>2

\* MakeParent keeps the inductive invariant.
LEMMA MakeParentStep ==
    ASSUME Isolated, IInv, NEW p \in Installers, MakeParent(p)
    PROVE  IInv'
<1>0. /\ Last(p) \in Nat /\ Idx(p) = 1 .. Last(p) /\ k[p] \in Idx(p) /\ k[p] \in Nat
      /\ ParentOf[File(p)] \in Dirs
      /\ At(p, "mkparent") /\ UNCHANGED <<disk, meta, original, cancelled, alive>>
  BY Indices, InstallAssumption
  DEF IInv, TypeOK, Control, File, InstallAssumption, MakeParent, At
<1>1. CASE FailCommit(p) /\ UNCHANGED dirs
  BY <1>0, <1>1, FailCommitStep DEF At
<1>2. CASE ~(FailCommit(p) /\ UNCHANGED dirs)
  <2>1. /\ dirs' = [dirs EXCEPT ![ParentOf[File(p)]] = IF @ = "absent" THEN "dir" ELSE @]
        /\ Goto(p, "place")
        /\ UNCHANGED <<k, entryvars, err>>
    BY <1>2 DEF MakeParent
  <2> USE <1>0, <2>1 DEF At, Goto, entryvars
  <2>2. /\ pc' \in [Installers -> PCs] /\ pc'[p] = "place"
        /\ dirs' \in [Dirs -> Kinds]
    BY DEF IInv, TypeOK, PCs, Kinds
  <2>3. TypeOK'
    BY <2>2 DEF IInv, TypeOK
  <2>4. Frame(p)
    BY DEF IInv, TypeOK, Frame
  <2>5. Control(p)'
    BY <2>2 DEF Control, IInv, Idx
  <2>6. ASSUME NEW i \in Idx(p)
        PROVE  Phase(p, i)'
    <3>1. Phase(p, i)
      BY DEF IInv
    <3> QED
      BY <2>2, <3>1 DEF Phase, Untouched, MovedAway, InPlace, SafeBackup
  <2> QED
    BY <2>3, <2>4, <2>5, <2>6, OwnPart
<1> QED
  BY <1>1, <1>2

\* Place keeps the inductive invariant.
LEMMA PlaceStep ==
    ASSUME Isolated, IInv, NEW p \in Installers, Place(p)
    PROVE  IInv'
<1>0. /\ Last(p) \in Nat /\ Idx(p) = 1 .. Last(p) /\ k[p] \in Idx(p) /\ k[p] \in Nat
      /\ File(p) \in Files
      /\ At(p, "place") /\ UNCHANGED <<dirs, meta, original, cancelled, alive>>
  BY Indices DEF IInv, TypeOK, Control, Place, At, File
<1>1. CASE FailCommit(p) /\ UNCHANGED disk
  BY <1>0, <1>1, FailCommitStep DEF At
<1>2. CASE ~(FailCommit(p) /\ UNCHANGED disk)
  <2>1. /\ disk' = [disk EXCEPT ![File(p)] = p]
        /\ staged' = [staged EXCEPT ![p] = @ \ {k[p]}]
        /\ inst' = [inst EXCEPT ![p] = @ \union {k[p]}]
        /\ k' = [k EXCEPT ![p] = @ + 1]
        /\ Goto(p, "commit")
        /\ UNCHANGED <<backup, had, txn, err>>
    BY <1>2 DEF Place
  <2> USE <1>0, <2>1 DEF At, Goto
  <2>2. /\ pc' \in [Installers -> PCs] /\ pc'[p] = "commit"
        /\ inst' \in [Installers -> SUBSET Nat] /\ inst'[p] = inst[p] \union {k[p]}
    BY DEF IInv, TypeOK, PCs
  <2>3. /\ k' \in [Installers -> Nat] /\ k'[p] = k[p] + 1
        /\ staged' \in [Installers -> SUBSET Nat]
    BY DEF IInv, TypeOK
  <2>4. /\ disk' \in [Files -> Contents] /\ disk'[File(p)] = p
        /\ \A f \in Files : f # File(p) => disk'[f] = disk[f]
    BY DEF IInv, TypeOK, Contents
  <2>5. TypeOK'
    BY <2>2, <2>3, <2>4 DEF IInv, TypeOK
  <2>6. Frame(p)
    BY <2>4 DEF IInv, TypeOK, Frame
  <2>7. Control(p)'
    BY <2>2, <2>3 DEF Control, IInv, Last
  <2>8. \/ MovedAway(p, k[p])
        \/ Untouched(p, k[p]) /\ original[File(p)] \in {Absent, Dangling}
    BY DEF IInv, Phase, File
  <2>9. ASSUME NEW i \in Idx(p), i # k[p]
        PROVE  Phase(p, i)'
    <3>1. Phase(p, i)
      BY DEF IInv
    <3>2. disk'[Entries[p][i]] = disk[Entries[p][i]]
      BY <2>4, <2>9, OtherEntries
    <3>3. i < k[p] => InPlace(p, i)'
      BY <2>2, <2>9, <3>1, <3>2 DEF Phase, InPlace, SafeBackup
    <3>4. i > k[p] => Untouched(p, i)'
      BY <2>2, <2>9, <3>1, <3>2 DEF Phase, Untouched
    <3>5. /\ i < k[p] + 1 => i < k[p]
          /\ i > k[p] + 1 => i > k[p]
          /\ i = k[p] + 1 => i > k[p]
      BY <2>9
    <3> QED
      BY <2>2, <2>3, <3>3, <3>4, <3>5 DEF Phase
  <2>10. ASSUME NEW i \in Idx(p), i = k[p]
         PROVE  Phase(p, i)'
    <3>1. SafeBackup(p, i)
      BY <2>8, <2>10 DEF MovedAway, Untouched, SafeBackup, File
    <3>2. InPlace(p, i)'
      BY <2>2, <2>4, <2>10, <3>1 DEF InPlace, SafeBackup, File
    <3>3. i < k'[p] /\ ~(i > k'[p]) /\ i # k'[p]
      BY <2>3, <2>10
    <3> QED
      BY <2>2, <3>2, <3>3 DEF Phase
  <2>11. \A i \in Idx(p) : Phase(p, i)'
    BY <2>9, <2>10
  <2> QED
    BY <2>5, <2>6, <2>7, <2>11, OwnPart
<1> QED
  BY <1>1, <1>2
-----------------------------------------------------------------------------
(* The rollback, the cleanup and the environment.                          *)

\* RollbackError keeps the inductive invariant.
LEMMA RollbackErrorStep ==
    ASSUME Isolated, IInv, NEW p \in Installers, RollbackError(p),
           UNCHANGED <<shared, original, cancelled, alive>>,
           pc[p] \in {"unplace", "restore"}, k[p] >= 1
    PROVE  IInv'
<1> USE DEF RollbackError, Goto, shared, entryvars
<1>0. /\ Last(p) \in Nat /\ Idx(p) = 1 .. Last(p) /\ k[p] \in Nat
      /\ k[p] <= Last(p)
  BY Indices DEF IInv, TypeOK, Control
<1>1. /\ pc' \in [Installers -> PCs] /\ pc'[p] = "unplace"
      /\ err' \in [Installers -> Errors] /\ err'[p] = "damaged"
      /\ k' \in [Installers -> Nat] /\ k'[p] = k[p] - 1
  BY <1>0 DEF IInv, TypeOK, PCs, Errors
<1>2. TypeOK'
  BY <1>1 DEF IInv, TypeOK
<1>3. Frame(p)
  BY DEF IInv, TypeOK, Frame
<1>4. Control(p)'
  BY <1>0, <1>1 DEF Control, Last
<1>5. ASSUME NEW i \in Idx(p)
      PROVE  Phase(p, i)'
  <2>1. i <= k'[p] => i < k[p]
    BY <1>0, <1>1
  <2>2. i < k[p] => ToRollBack(p, i)
    BY DEF IInv, Phase
  <2>3. i < k[p] => ToRollBack(p, i)'
    BY <2>2 DEF ToRollBack, Untouched, MovedAway, InPlace, SafeBackup
  <2>4. i < k'[p] \/ i = k'[p] => i <= k'[p]
    BY <1>0, <1>1
  <2> QED
    BY <1>1, <2>1, <2>3, <2>4 DEF Phase
<1> QED
  BY <1>2, <1>3, <1>4, <1>5, OwnPart

\* Unplace keeps the inductive invariant.
LEMMA UnplaceStep ==
    ASSUME Isolated, IInv, NEW p \in Installers, Unplace(p)
    PROVE  IInv'
<1>0. /\ Last(p) \in Nat /\ Idx(p) = 1 .. Last(p) /\ k[p] \in Idx(p) /\ k[p] \in Nat
      /\ File(p) \in Files /\ k[p] >= 1
      /\ At(p, "unplace") /\ UNCHANGED <<dirs, meta, original, cancelled, alive>>
  BY Indices DEF IInv, TypeOK, Control, Unplace, At, File
<1>1. CASE RollbackError(p) /\ UNCHANGED disk
  BY <1>0, <1>1, RollbackErrorStep DEF At, shared
<1>2. CASE ~(RollbackError(p) /\ UNCHANGED disk)
  <2>1. /\ disk' = IF k[p] \in inst[p] THEN [disk EXCEPT ![File(p)] = Absent] ELSE disk
        /\ Goto(p, "restore")
        /\ UNCHANGED <<k, entryvars, err>>
    BY <1>2 DEF Unplace
  <2> USE <1>0, <2>1 DEF At, Goto, entryvars
  <2>2. pc' \in [Installers -> PCs] /\ pc'[p] = "restore"
    BY DEF IInv, TypeOK, PCs
  <2>3. /\ disk' \in [Files -> Contents]
        /\ k[p] \in inst[p] => disk'[File(p)] = Absent
        /\ k[p] \notin inst[p] => disk' = disk
        /\ \A f \in Files : f # File(p) => disk'[f] = disk[f]
    BY DEF IInv, TypeOK, Contents
  <2>4. TypeOK'
    BY <2>2, <2>3 DEF IInv, TypeOK
  <2>5. Frame(p)
    BY <2>3 DEF IInv, TypeOK, Frame
  <2>6. Control(p)'
    BY <2>2 DEF Control, IInv, Idx
  <2>7. ASSUME NEW i \in Idx(p), i # k[p]
        PROVE  Phase(p, i)'
    <3>1. Phase(p, i)
      BY DEF IInv
    <3>2. disk'[Entries[p][i]] = disk[Entries[p][i]]
      BY <2>3, <2>7, OtherEntries
    <3>3. i < k[p] => ToRollBack(p, i)'
      BY <3>1, <3>2 DEF Phase, ToRollBack, Untouched, MovedAway, InPlace, SafeBackup
    <3>4. i > k[p] /\ err[p] = "failed" => Restored(p, i)'
      BY <3>1, <3>2 DEF Phase, Restored
    <3> QED
      BY <2>2, <2>7, <3>3, <3>4 DEF Phase
  <2>8. ASSUME NEW i \in Idx(p), i = k[p]
        PROVE  Phase(p, i)'
    <3>1. ToRollBack(p, i)
      BY <2>8 DEF IInv, Phase
    <3>2. Untouched(p, i)' \/ MovedAway(p, i)' \/ TakenOut(p, i)'
      BY <2>3, <2>8, <3>1
      DEF ToRollBack, Untouched, MovedAway, InPlace, TakenOut, SafeBackup, File
    <3> QED
      BY <2>2, <2>8, <3>2 DEF Phase
  <2> QED
    BY <2>4, <2>5, <2>6, <2>7, <2>8, OwnPart
<1> QED
  BY <1>1, <1>2

\* The two ways of ending the rollback of an entry without an error share it.
LEMMA EntryRolledBack ==
    ASSUME Isolated, IInv, NEW p \in Installers, At(p, "restore"), TypeOK', Frame(p),
           pc'[p] = "unplace", k'[p] = k[p] - 1, UNCHANGED <<had, inst, err, original>>,
           \A i \in Idx(p) : i # k[p] =>
               backup'[p][i] = backup[p][i] /\ disk'[Entries[p][i]] = disk[Entries[p][i]],
           \A i \in Idx(p) : i = k[p] => Restored(p, i)'
    PROVE  IInv'
<1>0. /\ Last(p) \in Nat /\ Idx(p) = 1 .. Last(p) /\ k[p] \in Idx(p) /\ k[p] \in Nat
  BY Indices DEF IInv, TypeOK, Control, At
<1>1. Control(p)'
  BY <1>0 DEF Control, Last, IInv, At
<1>2. ASSUME NEW i \in Idx(p)
      PROVE  Phase(p, i)'
  <2>1. Phase(p, i)
    BY DEF IInv
  <2>2. i < k[p] => ToRollBack(p, i)'
    BY <1>0, <2>1
    DEF At, Phase, ToRollBack, Untouched, MovedAway, InPlace, SafeBackup
  <2>3. i > k[p] /\ err[p] = "failed" => Restored(p, i)'
    BY <1>0, <2>1 DEF At, Phase, Restored
  <2>4. /\ i < k'[p] \/ i = k'[p] => i < k[p]
        /\ i > k'[p] => i = k[p] \/ i > k[p]
    BY <1>0
  <2> QED
    BY <2>2, <2>3, <2>4 DEF Phase
<1> QED
  BY <1>1, <1>2, OwnPart

\* Restore keeps the inductive invariant.
LEMMA RestoreStep ==
    ASSUME Isolated, IInv, NEW p \in Installers, Restore(p)
    PROVE  IInv'
<1>0. /\ Last(p) \in Nat /\ Idx(p) = 1 .. Last(p) /\ k[p] \in Idx(p) /\ k[p] \in Nat
      /\ File(p) \in Files /\ k[p] >= 1
      /\ At(p, "restore") /\ UNCHANGED <<dirs, meta, original, cancelled, alive>>
  BY Indices DEF IInv, TypeOK, Control, Restore, At, File
<1>1. Untouched(p, k[p]) \/ MovedAway(p, k[p]) \/ TakenOut(p, k[p])
  BY <1>0 DEF IInv, Phase, At
<1>2. CASE RollbackError(p) /\ UNCHANGED disk
  BY <1>0, <1>2, RollbackErrorStep DEF At, shared
<1>3. CASE /\ k[p] \in had[p]
           /\ disk' = [disk EXCEPT ![File(p)] = backup[p][k[p]]]
           /\ backup' = [backup EXCEPT ![p][k[p]] = Absent]
           /\ k' = [k EXCEPT ![p] = @ - 1]
           /\ Goto(p, "unplace")
           /\ UNCHANGED <<staged, had, inst, txn, err>>
  <2> USE <1>0, <1>3 DEF At, Goto
  <2>1. /\ pc' \in [Installers -> PCs] /\ pc'[p] = "unplace"
        /\ k' \in [Installers -> Nat] /\ k'[p] = k[p] - 1
    BY DEF IInv, TypeOK, PCs
  <2>2. backup[p][k[p]] = Old /\ original[File(p)] = Old
    BY <1>1 DEF Untouched, MovedAway, TakenOut, SafeBackup, File
  <2>3. /\ disk' \in [Files -> Contents] /\ disk'[File(p)] = Old
        /\ \A f \in Files : f # File(p) => disk'[f] = disk[f]
    BY <2>2 DEF IInv, TypeOK, Contents
  <2>4. /\ DOMAIN backup' = Installers
        /\ \A q \in Installers : q # p => backup'[q] = backup[q]
        /\ backup'[p] = [backup[p] EXCEPT ![k[p]] = Absent]
    BY DEF IInv, TypeOK
  <2>5. \A q \in Installers : backup'[q] \in [Idx(q) -> Contents]
    BY <2>4 DEF IInv, TypeOK, Contents
  <2>6. TypeOK'
    BY <2>1, <2>3, <2>4, <2>5 DEF IInv, TypeOK, Idx
  <2>7. Frame(p)
    BY <2>3, <2>4 DEF IInv, TypeOK, Frame
  <2>8. /\ backup'[p][k[p]] = Absent
        /\ \A i \in Idx(p) : i # k[p] => backup'[p][i] = backup[p][i]
    BY <2>4 DEF IInv, TypeOK
  <2>9. \A i \in Idx(p) : i # k[p] => disk'[Entries[p][i]] = disk[Entries[p][i]]
    BY <2>3, OtherEntries
  <2>10. \A i \in Idx(p) : i = k[p] => Restored(p, i)'
    BY <2>2, <2>3, <2>8 DEF Restored, File
  <2> QED
    BY <2>1, <2>6, <2>7, <2>8, <2>9, <2>10, EntryRolledBack
<1>4. CASE /\ k[p] \notin had[p]
           /\ k' = [k EXCEPT ![p] = @ - 1]
           /\ Goto(p, "unplace")
           /\ UNCHANGED <<disk, entryvars, err>>
  <2> USE <1>0, <1>4 DEF At, Goto, entryvars
  <2>1. /\ pc' \in [Installers -> PCs] /\ pc'[p] = "unplace"
        /\ k' \in [Installers -> Nat] /\ k'[p] = k[p] - 1
    BY DEF IInv, TypeOK, PCs
  <2>2. TypeOK'
    BY <2>1 DEF IInv, TypeOK
  <2>3. Frame(p)
    BY DEF IInv, TypeOK, Frame
  <2>4. \A i \in Idx(p) : i = k[p] => Restored(p, i)'
    BY <1>1 DEF Restored, Untouched, MovedAway, TakenOut, SafeBackup, Seen
  <2> QED
    BY <2>1, <2>2, <2>3, <2>4, EntryRolledBack
<1> QED
  BY <1>2, <1>3, <1>4 DEF Restore

\* RolledBack keeps the inductive invariant.
LEMMA RolledBackStep ==
    ASSUME Isolated, IInv, NEW p \in Installers, RolledBack(p)
    PROVE  IInv'
<1> USE DEF RolledBack, Goto, At, shared, entryvars
<1>0. Last(p) \in Nat /\ Idx(p) = 1 .. Last(p) /\ k[p] \in Nat
  BY Indices DEF IInv, TypeOK
<1>1. pc' \in [Installers -> PCs] /\ pc'[p] = "cleanup" /\ err[p] \in {"failed", "damaged"}
  BY DEF IInv, TypeOK, PCs, Control
<1>2. TypeOK'
  BY <1>1 DEF IInv, TypeOK
<1>3. Frame(p)
  BY DEF IInv, TypeOK, Frame
<1>4. Control(p)'
  BY <1>1 DEF Control
<1>5. ASSUME NEW i \in Idx(p)
      PROVE  Phase(p, i)'
  <2>1. i > k[p]
    BY <1>0
  <2>2. err[p] = "failed" => Restored(p, i)
    BY <2>1 DEF IInv, Phase
  <2> QED
    BY <1>1, <2>2 DEF Phase, Restored
<1> QED
  BY <1>2, <1>3, <1>4, <1>5, OwnPart

\* Removing the transaction directory, wholly or in part, only drops backups.
LEMMA CleanupStep ==
    ASSUME Isolated, IInv, NEW p \in Installers, Cleanup(p)
    PROVE  IInv'
<1> USE DEF At, shared
<1>1. /\ pc[p] = "cleanup" /\ pc' \in [Installers -> PCs] /\ pc'[p] = "done"
      /\ UNCHANGED <<disk, original, k, had, inst>>
      /\ \A q \in Installers : q # p => pc'[q] = pc[q]
  BY DEF Cleanup, Goto, IInv, TypeOK, PCs
<1>2. /\ err' \in [Installers -> Errors]
      /\ err'[p] = err[p] \/ (err[p] = "none" /\ err'[p] = "unclean")
      /\ \A q \in Installers : q # p => err'[q] = err[q]
  <2>1. \/ UNCHANGED err
        \/ err' = [err EXCEPT ![p] = IF @ = "none" THEN "unclean" ELSE @]
    BY DEF Cleanup
  <2>2. CASE UNCHANGED err
    BY <2>2 DEF IInv, TypeOK
  <2>3. CASE err' = [err EXCEPT ![p] = IF @ = "none" THEN "unclean" ELSE @]
    <3>1. err \in [Installers -> Errors]
      BY DEF IInv, TypeOK
    <3>2. err'[p] = IF err[p] = "none" THEN "unclean" ELSE err[p]
      BY <2>3, <3>1
    <3>3. \A q \in Installers : q # p => err'[q] = err[q]
      BY <2>3, <3>1
    <3>4. err'[p] \in Errors
      BY <3>1, <3>2 DEF Errors
    <3>5. err' \in [Installers -> Errors]
      BY <2>3, <3>1, <3>2, <3>4
    <3> QED
      BY <3>2, <3>3, <3>5
  <2> QED
    BY <2>1, <2>2, <2>3
<1>3. /\ DOMAIN backup' = Installers
      /\ \A q \in Installers : q # p => backup'[q] = backup[q]
      /\ backup'[p] \in [Idx(p) -> Contents]
      /\ \A i \in Idx(p) : backup'[p][i] \in {Absent, backup[p][i]}
  <2>1. CASE backup' = [backup EXCEPT ![p] = [i \in Idx(p) |-> Absent]]
    BY <2>1 DEF IInv, TypeOK, Contents
  <2>2. CASE \E gone \in SUBSET Idx(p) :
                backup' = [backup EXCEPT ![p] =
                              [i \in Idx(p) |-> IF i \in gone THEN Absent ELSE @[i]]]
    BY <2>2 DEF IInv, TypeOK, Contents
  <2> QED
    BY <2>1, <2>2 DEF Cleanup
<1>4. staged' \in [Installers -> SUBSET Nat] /\ txn' \in [Installers -> BOOLEAN]
  <2>1. \/ staged' = [staged EXCEPT ![p] = {}]
        \/ \E gone \in SUBSET Idx(p) : staged' = [staged EXCEPT ![p] = @ \ gone]
    BY DEF Cleanup
  <2>2. PICK S \in SUBSET Nat : staged' = [staged EXCEPT ![p] = S]
    <3>1. staged[p] \subseteq Nat
      BY DEF IInv, TypeOK
    <3>2. {} \subseteq Nat /\ \A gone : staged[p] \ gone \subseteq Nat
      BY <3>1
    <3> QED
      BY <2>1, <3>2
  <2>3. staged' \in [Installers -> SUBSET Nat]
    BY <2>2 DEF IInv, TypeOK
  <2> QED
    BY <2>3 DEF Cleanup, IInv, TypeOK
<1>5. \A q \in Installers : backup'[q] \in [Idx(q) -> Contents]
  BY <1>3 DEF IInv, TypeOK
<1>6. TypeOK'
  BY <1>1, <1>2, <1>3, <1>4, <1>5 DEF Cleanup, IInv, TypeOK, Idx
<1>7. Frame(p)
  BY <1>1, <1>2, <1>3 DEF Frame
<1>8. Control(p)'
  BY <1>1 DEF Control
<1>9. ASSUME NEW i \in Idx(p)
      PROVE  Phase(p, i)'
  <2>1. Phase(p, i)
    BY DEF IInv
  <2>2. err[p] = "failed" => Restored(p, i)'
    BY <1>1, <1>3, <2>1 DEF Phase, Restored
  <2> QED
    BY <1>1, <1>2, <2>1, <2>2 DEF Phase
<1> QED
  BY <1>6, <1>7, <1>8, <1>9, OwnPart

\* Cancelling or killing an installer changes nothing the invariant speaks of.
LEMMA IdleStep ==
    ASSUME IInv, UNCHANGED <<shared, original, pc, k, entryvars, err>>,
           cancelled' \in [Installers -> BOOLEAN], alive' \in [Installers -> BOOLEAN]
    PROVE  IInv'
<1> USE DEF shared, entryvars
<1>1. TypeOK'
  BY DEF IInv, TypeOK, Idx
<1>2. \A p \in Installers : Control(p)'
  BY DEF IInv, Control, Idx, Last
<1>3. ASSUME NEW p \in Installers, NEW i \in Idx(p)
      PROVE  Phase(p, i)'
  <2>1. Phase(p, i)
    BY DEF IInv
  <2> QED
    BY <2>1
    DEF Phase, Untouched, MovedAway, InPlace, TakenOut, SafeBackup, Restored, ToRollBack
<1> QED
  BY <1>1, <1>2, <1>3 DEF IInv, Idx

-----------------------------------------------------------------------------
\* The invariant is inductive.
LEMMA NextIInv ==
    ASSUME Isolated, IInv, [Next]_vars
    PROVE  IInv'
<1>1. ASSUME NEW p \in Installers, Step(p)
      PROVE  IInv'
  BY <1>1, StartStep, MakeMetaStep, MakeTempStep, StageStep, BeginCommitStep,
     CheckParentsStep, CommittedStep, StatTargetStep, PreserveStep, MakeParentStep,
     PlaceStep, UnplaceStep, RestoreStep, RolledBackStep, CleanupStep
  DEF Step
<1>2. ASSUME NEW p \in Installers, Cancel(p)
      PROVE  IInv'
  <2>1. /\ cancelled' \in [Installers -> BOOLEAN] /\ alive' \in [Installers -> BOOLEAN]
        /\ UNCHANGED <<shared, original, pc, k, entryvars, err>>
    BY <1>2 DEF Cancel, IInv, TypeOK
  <2> QED
    BY <2>1, IdleStep
<1>3. ASSUME NEW p \in Installers, Crash(p)
      PROVE  IInv'
  <2>1. /\ cancelled' \in [Installers -> BOOLEAN] /\ alive' \in [Installers -> BOOLEAN]
        /\ UNCHANGED <<shared, original, pc, k, entryvars, err>>
    BY <1>3 DEF Crash, IInv, TypeOK
  <2> QED
    BY <2>1, IdleStep
<1>4. CASE UNCHANGED vars
  <2>1. /\ cancelled' \in [Installers -> BOOLEAN] /\ alive' \in [Installers -> BOOLEAN]
        /\ UNCHANGED <<shared, original, pc, k, entryvars, err>>
    BY <1>4 DEF vars, IInv, TypeOK
  <2> QED
    BY <2>1, IdleStep
<1> QED
  BY <1>1, <1>2, <1>3, <1>4 DEF Next

\* For any number of installers with disjoint payloads, the inductive invariant
\* holds in every reachable state of InstallResourcePayload.
THEOREM Invariant ==
    ASSUME Isolated
    PROVE  Spec => []IInv
<1>1. Init => IInv
  BY InitIInv
<1>2. IInv /\ [Next]_vars => IInv'
  BY NextIInv
<1> QED
  BY <1>1, <1>2, PTL DEF Spec

\* Every variable keeps its type.
THEOREM TypeCorrect ==
    ASSUME Isolated
    PROVE  Spec => []TypeOK
<1>1. IInv => TypeOK
  BY DEF IInv
<1> QED
  BY <1>1, Invariant, PTL

\* No install that has not committed ever loses a user file, at whatever call
\* it fails, is cancelled or is killed, as long as the rollback itself works.
THEOREM NothingIsLost ==
    ASSUME Isolated
    PROVE  Spec => []NothingLost
<1>1. ASSUME IInv
      PROVE  NothingLost
  <2> SUFFICES ASSUME NEW p \in Installers, NEW i \in Idx(p),
                      original[Entries[p][i]] = Old,
                      ~HasCommitted(p), err[p] # "damaged"
               PROVE  Old \in {disk[Entries[p][i]], backup[p][i]}
    BY DEF NothingLost
  <2>1. Phase(p, i) /\ Control(p) /\ pc[p] \in PCs /\ err[p] \in Errors
    BY <1>1 DEF IInv, TypeOK
  <2>2. Old # Absent /\ Old # Dangling
    BY InstallAssumption DEF InstallAssumption
  <2>3. Untouched(p, i) \/ MovedAway(p, i) \/ InPlace(p, i) \/ TakenOut(p, i)
           => Old \in {disk[Entries[p][i]], backup[p][i]}
    BY <2>2 DEF Untouched, MovedAway, InPlace, TakenOut, SafeBackup
  <2>4. Restored(p, i) => Old \in {disk[Entries[p][i]], backup[p][i]}
    BY <2>2 DEF Restored, Seen
  <2>5. i < k[p] \/ i = k[p] \/ i > k[p]
    BY <1>1, Indices DEF IInv, TypeOK
  <2> QED
    BY <2>1, <2>3, <2>4, <2>5 DEF Phase, ToRollBack, Control, HasCommitted, PCs, Errors
<1> QED
  BY <1>1, Invariant, PTL

\* A failed call whose rollback reports no error leaves all its destinations as
\* Stat saw them before.
THEOREM FailureRestores ==
    ASSUME Isolated
    PROVE  Spec => []FailedRestores
<1>1. ASSUME IInv
      PROVE  FailedRestores
  BY <1>1 DEF FailedRestores, IInv, Phase, Restored
<1> QED
  BY <1>1, Invariant, PTL

\* Once the commit loop has ended, every file of the payload is in place and
\* stays there.
THEOREM CommitStays ==
    ASSUME Isolated
    PROVE  Spec => []CommittedInstalled
<1>1. ASSUME IInv
      PROVE  CommittedInstalled
  BY <1>1 DEF CommittedInstalled, HasCommitted, IInv, Phase
<1> QED
  BY <1>1, Invariant, PTL

-----------------------------------------------------------------------------
(***************************************************************************)
(* InstallResourcePayload implements the install in one step               *)
(* (AtomicInstall).                                                        *)
(*                                                                         *)
(* What a reader who undoes unfinished installs sees of a payload that is  *)
(* in flight never changes, even when its rollback fails at some entries.  *)
(* IInv says nothing of those entries; Undoable does.                      *)
(***************************************************************************)
\* While p is in flight entry i can be undone, and what is kept of it is not
\* also at the destination.
Undoable(p, i) ==
    InFlight(p) =>
        /\ Undone(p, i) = Seen(original[Entries[p][i]])
        /\ backup[p][i] # Absent => disk[Entries[p][i]] \in {Absent, p}

RInv == IInv /\ \A p \in Installers : \A i \in Idx(p) : Undoable(p, i)

-----------------------------------------------------------------------------
\* What an entry holds as long as no rollback failed can be undone.
LEMMA PhaseIsUndoable ==
    IInv => \A p \in Installers : \A i \in Idx(p) : err[p] # "damaged" => Undoable(p, i)
<1> SUFFICES ASSUME IInv, NEW p \in Installers, NEW i \in Idx(p), err[p] # "damaged", InFlight(p)
             PROVE  /\ Undone(p, i) = Seen(original[Entries[p][i]])
                    /\ backup[p][i] # Absent => disk[Entries[p][i]] \in {Absent, p}
  BY DEF Undoable
<1>1. /\ Phase(p, i) /\ Control(p) /\ pc[p] \in PCs /\ err[p] \in Errors
      /\ Entries[p][i] \in Files /\ k[p] \in Nat /\ i \in Nat
      /\ original[Entries[p][i]] \in {Absent, Directory, Dangling, Old}
  BY Indices DEF IInv, TypeOK
<1>2. /\ p \notin {Absent, Directory, Dangling, Old}
      /\ Absent # Directory /\ Absent # Dangling /\ Absent # Old /\ Dangling # Old
      /\ Dangling # Directory /\ Directory # Old
  BY InstallAssumption DEF InstallAssumption
<1>3. Untouched(p, i) \/ MovedAway(p, i) \/ InPlace(p, i) \/ TakenOut(p, i) \/ Restored(p, i)
  <2>1. i < k[p] \/ i = k[p] \/ i > k[p]
    BY <1>1
  <2> QED
    BY <1>1, <2>1 DEF Phase, Control, ToRollBack, InFlight, HasCommitted, PCs, Errors
<1>4. CASE Untouched(p, i)
  BY <1>1, <1>2, <1>4 DEF Untouched, Undone, Seen
<1>5. CASE MovedAway(p, i)
  BY <1>1, <1>2, <1>5 DEF MovedAway, Undone, Seen
<1>6. CASE InPlace(p, i)
  BY <1>1, <1>2, <1>6 DEF InPlace, SafeBackup, Undone, Seen
<1>7. CASE TakenOut(p, i)
  BY <1>1, <1>2, <1>7 DEF TakenOut, SafeBackup, Undone, Seen
<1>8. CASE Restored(p, i)
  BY <1>1, <1>2, <1>8 DEF Restored, Undone, Seen
<1> QED
  BY <1>3, <1>4, <1>5, <1>6, <1>7, <1>8

\* Two entries of a payload are different destinations.
LEMMA EntriesDiffer ==
    ASSUME NEW p \in Installers, NEW i \in Idx(p), NEW j \in Idx(p), Entries[p][i] = Entries[p][j]
    PROVE  i = j
BY InstallAssumption DEF InstallAssumption, Idx

\* A step of p touches its own variables and the destination of its current entry.
LEMMA StepFrames ==
    ASSUME IInv, NEW p \in Installers, Step(p)
    PROVE  Frame(p)
<1> USE DEF Frame, At, Goto, FailEarly, FailStaging, FailCommit, RollbackError, shared, entryvars, File
<1>1. CASE Start(p) \/ MakeMeta(p) \/ MakeTemp(p)
  BY <1>1 DEF Start, MakeMeta, MakeTemp, IInv, TypeOK
<1>2. CASE Stage(p) \/ BeginCommit(p) \/ CheckParents(p) \/ Committed(p)
  BY <1>2 DEF Stage, BeginCommit, CheckParents, Committed, IInv, TypeOK
<1>3. CASE StatTarget(p) \/ MakeParent(p) \/ RolledBack(p)
  BY <1>3 DEF StatTarget, MakeParent, RolledBack, IInv, TypeOK
<1>4. ASSUME Preserve(p) \/ Place(p) \/ Unplace(p) \/ Restore(p)
      PROVE  Frame(p)
  <2>1. disk \in [Files -> Contents] /\ k[p] \in Idx(p)
    BY <1>4, Indices DEF Preserve, Place, Unplace, Restore, IInv, TypeOK, Control
  <2>2. \A f \in Files : f # File(p) => disk'[f] = disk[f]
    <3>1. CASE Preserve(p)
      BY <2>1, <3>1 DEF Preserve
    <3>2. CASE Place(p)
      BY <2>1, <3>2 DEF Place
    <3>3. CASE Unplace(p)
      BY <2>1, <3>3 DEF Unplace
    <3>4. CASE Restore(p)
      BY <2>1, <3>4 DEF Restore
    <3> QED
      BY <1>4, <3>1, <3>2, <3>3, <3>4
  <2>3. original' = original
    BY <1>4 DEF Preserve, Place, Unplace, Restore
  <2>4. ASSUME NEW q \in Installers \ {p}
        PROVE  /\ pc'[q] = pc[q] /\ k'[q] = k[q] /\ err'[q] = err[q]
               /\ backup'[q] = backup[q] /\ had'[q] = had[q] /\ inst'[q] = inst[q]
    <3> USE DEF IInv, TypeOK
    <3>1. CASE Preserve(p)
      BY <3>1 DEF Preserve
    <3>2. CASE Place(p)
      BY <3>2 DEF Place
    <3>3. CASE Unplace(p)
      BY <3>3 DEF Unplace
    <3>4. CASE Restore(p)
      BY <3>4 DEF Restore
    <3> QED
      BY <1>4, <3>1, <3>2, <3>3, <3>4
  <2> QED
    BY <2>1, <2>2, <2>3, <2>4
<1>5. CASE Cleanup(p)
  BY <1>5 DEF Cleanup, IInv, TypeOK
<1> QED
  BY <1>1, <1>2, <1>3, <1>4, <1>5 DEF Step

-----------------------------------------------------------------------------
\* A rollback that has failed goes on with what it can still undo.
LEMMA DamagedStep ==
    ASSUME Isolated, RInv, IInv', NEW p \in Installers, Step(p), err'[p] = "damaged",
           NEW i \in Idx(p)
    PROVE  Undoable(p, i)'
<1> SUFFICES ASSUME InFlight(p)'
             PROVE  /\ Undone(p, i)' = Seen(original[Entries[p][i]])
                    /\ backup'[p][i] # Absent => disk'[Entries[p][i]] \in {Absent, p}
  <2>1. original' = original
    BY StepFrames DEF RInv, Frame
  <2> QED
    BY <2>1 DEF Undoable
<1> USE DEF At, Goto
<1>1. /\ IInv /\ TypeOK /\ Control(p) /\ Phase(p, i) /\ Undoable(p, i)
      /\ k[p] \in Idx(p) => Phase(p, k[p])
  BY DEF RInv, IInv
<1>2. /\ p \notin {Absent, Directory, Dangling, Old}
      /\ Absent # Old /\ Dangling # Old /\ Absent # Dangling
  BY InstallAssumption DEF InstallAssumption
<1>3. Unplace(p) \/ Restore(p) \/ RolledBack(p)
  <2> USE DEF Control, FailEarly, FailStaging, FailCommit, InFlight, IInv, TypeOK, Errors
  <2>1. CASE Start(p) \/ MakeMeta(p) \/ MakeTemp(p) \/ Stage(p)
    BY <1>1, <2>1 DEF Start, MakeMeta, MakeTemp, Stage
  <2>2. CASE BeginCommit(p) \/ Committed(p)
    BY <1>1, <2>2 DEF BeginCommit, Committed
  <2>5. CASE CheckParents(p) \/ StatTarget(p)
    BY <1>1, <2>5 DEF CheckParents, StatTarget
  <2>3. CASE Preserve(p) \/ MakeParent(p) \/ Place(p)
    BY <1>1, <2>3 DEF Preserve, MakeParent, Place
  <2>4. CASE Cleanup(p)
    BY <1>1, <2>4 DEF Cleanup
  <2> QED
    BY <2>1, <2>2, <2>3, <2>4, <2>5 DEF Step
<1>4. pc[p] \in {"unplace", "restore"} /\ InFlight(p)
  BY <1>1, <1>3 DEF Unplace, Restore, RolledBack, InFlight, HasCommitted
<1>5. /\ Undone(p, i) = Seen(original[Entries[p][i]])
      /\ backup[p][i] # Absent => disk[Entries[p][i]] \in {Absent, p}
  BY <1>1, <1>4 DEF Undoable
<1>6. CASE backup'[p][i] = backup[p][i] /\ disk'[Entries[p][i]] = disk[Entries[p][i]]
  BY <1>5, <1>6 DEF Undone
<1>7. CASE RolledBack(p)
  BY <1>6, <1>7 DEF RolledBack, shared, entryvars
<1>8. CASE Unplace(p)
  <2>1. k[p] \in Idx(p) /\ File(p) \in Files /\ Entries[p][i] \in Files
    BY <1>1, <1>8, Indices DEF Unplace, TypeOK, Control, File
  <2>2. backup' = backup
    BY <1>8 DEF Unplace, RollbackError, entryvars
  <2>3. CASE i # k[p] \/ k[p] \notin inst[p] \/ UNCHANGED disk
    <3>1. disk'[Entries[p][i]] = disk[Entries[p][i]]
      BY <1>1, <1>8, <2>1, <2>3, EntriesDiffer DEF Unplace, File, TypeOK
    <3> QED
      BY <1>6, <2>2, <3>1
  <2>4. CASE i = k[p] /\ k[p] \in inst[p] /\ disk' = [disk EXCEPT ![File(p)] = Absent]
    <3>1. InPlace(p, i) /\ disk'[Entries[p][i]] = Absent
      BY <1>1, <1>8, <2>1, <2>4 DEF Unplace, Phase, ToRollBack, Untouched, MovedAway, File, TypeOK
    <3> QED
      BY <1>2, <1>5, <2>2, <3>1 DEF Undone, InPlace, SafeBackup, Seen
  <2> QED
    BY <1>8, <2>3, <2>4 DEF Unplace
<1>9. CASE Restore(p)
  <2>1. k[p] \in Idx(p) /\ File(p) \in Files /\ Entries[p][i] \in Files
    BY <1>1, <1>9, Indices DEF Restore, TypeOK, Control, File
  <2>2. CASE UNCHANGED <<disk, backup>>
    BY <1>6, <2>2
  <2>3. CASE i # k[p]
    <3>1. disk'[Entries[p][i]] = disk[Entries[p][i]]
      BY <1>1, <1>9, <2>1, <2>3, EntriesDiffer DEF Restore, File, TypeOK
    <3>2. backup'[p][i] = backup[p][i]
      BY <1>1, <1>9, <2>1, <2>3 DEF Restore, RollbackError, entryvars, TypeOK
    <3> QED
      BY <1>6, <3>1, <3>2
  <2>4. CASE /\ i = k[p] /\ k[p] \in had[p]
             /\ disk' = [disk EXCEPT ![File(p)] = backup[p][k[p]]]
             /\ backup' = [backup EXCEPT ![p][k[p]] = Absent]
    <3>1. backup[p][i] = Old /\ original[Entries[p][i]] = Old
      BY <1>1, <1>9, <2>1, <2>4 DEF Restore, Phase, Untouched, MovedAway, TakenOut, SafeBackup
    <3>2. backup'[p][i] = Absent /\ disk'[Entries[p][i]] = Old
      BY <1>1, <2>1, <2>4, <3>1 DEF File, TypeOK
    <3> QED
      BY <1>2, <3>1, <3>2 DEF Undone, Seen
  <2> QED
    BY <1>9, <2>2, <2>3, <2>4 DEF Restore, RollbackError, entryvars
<1> QED
  BY <1>3, <1>7, <1>8, <1>9

\* Nothing that another installer does changes what can be undone.
LEMMA OthersUndoable ==
    ASSUME Isolated, RInv, NEW p \in Installers, Frame(p), NEW q \in Installers, q # p, NEW i \in Idx(q)
    PROVE  Undoable(q, i)'
<1>1. Entries[q][i] \in Files /\ Undoable(q, i)
  BY Indices DEF RInv
<1>2. k[p] \in Idx(p) => Entries[q][i] # File(p)
  BY DEF Isolated, File
<1>3. /\ disk'[Entries[q][i]] = disk[Entries[q][i]] /\ backup'[q] = backup[q]
      /\ pc'[q] = pc[q] /\ err'[q] = err[q] /\ original' = original
  BY <1>1, <1>2 DEF Frame
<1> QED
  BY <1>1, <1>3 DEF Undoable, InFlight, HasCommitted, Undone

\* The invariant holds at first.
LEMMA InitRInv == Init => RInv
<1>1. Init => IInv
  BY InitIInv
<1>2. Init => \A p \in Installers : err[p] # "damaged"
  BY DEF Init
<1> QED
  BY <1>1, <1>2, PhaseIsUndoable DEF RInv

\* It is inductive.
LEMMA NextRInv ==
    ASSUME Isolated
    PROVE  RInv /\ [Next]_vars => RInv'
<1>1. IInv' => \A p \in Installers : \A i \in Idx(p) : err'[p] # "damaged" => Undoable(p, i)'
  <2>1. (IInv => \A p \in Installers : \A i \in Idx(p) : err[p] # "damaged" => Undoable(p, i))'
    BY PhaseIsUndoable, PTL
  <2> QED
    BY <2>1 DEF Idx
<1> SUFFICES ASSUME RInv, [Next]_vars
             PROVE  RInv'
  OBVIOUS
<1>2. IInv /\ IInv'
  BY NextIInv DEF RInv
<1>3. ASSUME NEW p \in Installers, Step(p)
      PROVE  RInv'
  <2>1. \A q \in Installers : q # p => \A i \in Idx(q) : Undoable(q, i)'
    BY <1>2, <1>3, StepFrames, OthersUndoable
  <2>2. \A i \in Idx(p) : Undoable(p, i)'
    BY <1>1, <1>2, <1>3, DamagedStep
  <2> QED
    BY <1>2, <2>1, <2>2 DEF RInv, Idx
<1>4. ASSUME UNCHANGED <<shared, original, pc, k, entryvars, err>>
      PROVE  RInv'
  <2>1. UNCHANGED <<disk, original, pc, backup, err>>
    BY <1>4 DEF shared, entryvars
  <2> QED
    BY <1>2, <2>1 DEF RInv, Undoable, InFlight, HasCommitted, Undone, Idx
<1> QED
  BY <1>3, <1>4 DEF Next, Cancel, Crash, vars

-----------------------------------------------------------------------------
\* What the reader sees at a destination: the original below an install in flight,
\* and what is there otherwise.
ViewIs ==
    /\ \A p \in Installers : InFlight(p) =>
          \A f \in Owned[p] : View[f] = Seen(original[f])
    /\ \A f \in Files : (\A p \in Installers : InFlight(p) => f \notin Owned[p]) =>
          View[f] = Seen(disk[f])
    /\ View \in [Files -> {Absent, Directory, Old} \union Installers]

\* A destination belongs to one installer and one entry.
LEMMA ViewFacts ==
    ASSUME Isolated
    PROVE  RInv => ViewIs
<1> SUFFICES ASSUME RInv
             PROVE  ViewIs
  OBVIOUS
<1>1. ASSUME NEW p \in Installers, InFlight(p), NEW f \in Owned[p]
      PROVE  View[f] = Seen(original[f])
  <2>1. PICK i \in Idx(p) : Entries[p][i] = f
    BY <1>1 DEF Owned
  <2>2. f \in Files
    BY <2>1, Indices
  <2>3. \A q \in Installers : f \in Owned[q] => q = p
    BY <2>1 DEF Owned, Isolated
  <2>4. \A j \in Idx(p) : Entries[p][j] = f => j = i
    BY <2>1, EntriesDiffer
  <2>5. p = CHOOSE q \in Installers : InFlight(q) /\ f \in Owned[q]
    BY <1>1, <2>3
  <2>6. i = CHOOSE j \in Idx(p) : Entries[p][j] = f
    BY <2>1, <2>4
  <2>7. View[f] = Undone(p, i)
    BY <1>1, <2>2, <2>5, <2>6 DEF View
  <2> QED
    BY <1>1, <2>1, <2>7 DEF RInv, Undoable
<1>2. ASSUME NEW f \in Files, \A p \in Installers : InFlight(p) => f \notin Owned[p]
      PROVE  View[f] = Seen(disk[f])
  BY <1>2 DEF View
<1>3. ASSUME NEW f \in Files
      PROVE  View[f] \in {Absent, Directory, Old} \union Installers
  <2>1. disk[f] \in Contents /\ original[f] \in {Absent, Directory, Dangling, Old}
    BY DEF RInv, IInv, TypeOK
  <2>2. View[f] \in {Seen(disk[f]), Seen(original[f])}
    BY <1>1, <1>2
  <2> QED
    BY <2>1, <2>2 DEF Contents, Seen
<1>4. View = [f \in Files |-> View[f]]
  BY DEF View
<1> QED
  BY <1>1, <1>2, <1>3, <1>4 DEF ViewIs

\* At first the reader sees what is there.
LEMMA InitAtomic ==
    ASSUME Isolated
    PROVE  Init => Atomic!Init
<1> SUFFICES ASSUME Init
             PROVE  Atomic!Init
  OBVIOUS
<1>1. RInv /\ ViewIs
  BY InitRInv, ViewFacts
<1>2. \A p \in Installers : InFlight(p) /\ pc[p] # "done" /\ ~HasCommitted(p)
  BY DEF Init, InFlight, HasCommitted
<1>3. ASSUME NEW f \in Files
      PROVE  View[f] \in {Absent, Directory, Old}
  <2>1. disk[f] = original[f] /\ disk[f] \in {Absent, Directory, Dangling, Old}
    BY DEF Init
  <2>2. View[f] = Seen(disk[f])
    BY <1>1, <1>2, <2>1 DEF ViewIs
  <2> QED
    BY <2>1, <2>2 DEF Seen
<1>4. View \in [Files -> {Absent, Directory, Old}]
  BY <1>3 DEF View
<1>5. Status = [p \in Installers |-> "running"]
  BY <1>2 DEF Status
<1> QED
  BY <1>4, <1>5 DEF Atomic!Init

\* The reader sees the same of every destination that p does not own.
LEMMA OthersViewed ==
    ASSUME Isolated, RInv, ViewIs, ViewIs', NEW p \in Installers, Frame(p),
           NEW f \in Files, f \notin Owned[p]
    PROVE  View'[f] = View[f]
<1>1. \A q \in Installers : q # p => (InFlight(q)' <=> InFlight(q))
  BY DEF Frame, InFlight, HasCommitted
<1>2. original' = original
  BY DEF Frame
<1>3. CASE \E q \in Installers : InFlight(q) /\ f \in Owned[q]
  <2>1. PICK q \in Installers : InFlight(q) /\ f \in Owned[q]
    BY <1>3
  <2>2. InFlight(q)'
    BY <1>1, <2>1
  <2> QED
    BY <1>2, <2>1, <2>2 DEF ViewIs, Owned, Idx
<1>4. CASE \A q \in Installers : InFlight(q) => f \notin Owned[q]
  <2>1. \A q \in Installers : InFlight(q)' => f \notin Owned[q]
    BY <1>1, <1>4
  <2>2. k[p] \in Idx(p) => f # File(p)
    BY DEF Owned, File
  <2>3. disk'[f] = disk[f]
    BY <2>2 DEF Frame
  <2> QED
    BY <1>4, <2>1, <2>3 DEF ViewIs, Owned, Idx, Seen
<1> QED
  BY <1>3, <1>4

\* A step of p leaves what the reader sees alone, or is one of the three ends of p.
LEMMA StepAtomic ==
    ASSUME Isolated, RInv, RInv', ViewIs, ViewIs', NEW p \in Installers, Step(p)
    PROVE  Atomic!Next \/ UNCHANGED <<View, Status>>
<1>1. /\ Frame(p) /\ IInv /\ IInv' /\ TypeOK /\ TypeOK' /\ original' = original
  BY StepFrames DEF RInv, IInv, Frame
<1>2. \A f \in Files : f \notin Owned[p] => View'[f] = View[f]
  BY <1>1, OthersViewed
<1>3. \A q \in Installers : q # p => Status'[q] = Status[q]
  BY <1>1 DEF Frame, Status, HasCommitted
<1>4. /\ Status \in [Installers -> {"running", "committed", "failed", "damaged", "none", "unclean"}]
      /\ Status' = [q \in Installers |-> Status'[q]] /\ Status = [q \in Installers |-> Status[q]]
      /\ View' = [f \in Files |-> View'[f]] /\ View = [f \in Files |-> View[f]]
  BY <1>1 DEF Status, View, TypeOK, Errors
<1>5. \A f \in Owned[p] : \A q \in Installers : f \in Owned[q] => q = p
  BY DEF Owned, Isolated
<1>6. Owned[p] \subseteq Files
  BY Indices DEF Owned
<1>7. ASSUME Status'[p] = Status[p], \A f \in Owned[p] : View'[f] = View[f]
      PROVE  UNCHANGED <<View, Status>>
  BY <1>2, <1>3, <1>4, <1>7
<1>8. CASE InFlight(p) /\ InFlight(p)'
  <2>1. Status'[p] = Status[p]
    BY <1>8 DEF InFlight, Status
  <2>2. \A f \in Owned[p] : View'[f] = View[f]
    BY <1>1, <1>8 DEF ViewIs, Owned, Idx
  <2> QED
    BY <1>7, <2>1, <2>2
<1>9. ASSUME ~InFlight(p)'
      PROVE  \A f \in Owned[p] : View'[f] = Seen(disk'[f])
  <2>1. \A f \in Owned[p] : \A q \in Installers : InFlight(q)' => f \notin Owned[q]
    BY <1>5, <1>9
  <2> QED
    BY <1>6, <2>1 DEF ViewIs, Owned, Idx
<1>10. CASE ~InFlight(p)
  <2>1. Cleanup(p) /\ HasCommitted(p)
    BY <1>10 DEF InFlight, HasCommitted, Step, Start, MakeMeta, MakeTemp, Stage, BeginCommit,
                 CheckParents, Committed, StatTarget, Preserve, MakeParent, Place, Unplace, Restore,
                 RolledBack, Cleanup, At
  <2>2. disk' = disk /\ pc'[p] = "done" /\ err'[p] \in {"none", "unclean"}
    BY <1>1, <2>1 DEF Cleanup, Goto, shared, HasCommitted, TypeOK
  <2>3. HasCommitted(p)' /\ ~InFlight(p)'
    BY <2>2 DEF HasCommitted, InFlight
  <2>4. \A f \in Owned[p] : View[f] = Seen(disk[f])
    <3>1. \A f \in Owned[p] : \A q \in Installers : InFlight(q) => f \notin Owned[q]
      BY <1>5, <1>10
    <3> QED
      BY <1>6, <3>1 DEF ViewIs
  <2>5. Status'[p] = Status[p]
    BY <2>1, <2>3 DEF Status
  <2> QED
    BY <1>7, <1>9, <2>2, <2>3, <2>4, <2>5
<1>11. CASE InFlight(p) /\ HasCommitted(p)'
  <2>1. ASSUME NEW f \in Owned[p]
        PROVE  View'[f] = p
    <3>1. PICK j \in Idx(p) : Entries[p][j] = f
      BY DEF Owned
    <3>2. disk'[f] = p
      BY <1>1, <1>11, <3>1 DEF IInv, Phase, HasCommitted, Idx
    <3>3. p # Dangling
      BY InstallAssumption DEF InstallAssumption
    <3> QED
      BY <1>9, <1>11, <3>2, <3>3 DEF InFlight, Seen
  <2>2. View' = [f \in Files |-> IF f \in Owned[p] THEN p ELSE View[f]]
    BY <1>2, <1>4, <2>1
  <2>3. Status[p] = "running" /\ Status'[p] = "committed"
    BY <1>11 DEF Status, InFlight
  <2>4. Status' = [Status EXCEPT ![p] = "committed"]
    BY <1>3, <1>4, <2>3
  <2>5. Atomic!Commit(p)
    BY <2>2, <2>3, <2>4 DEF Atomic!Commit, Atomic!Finish
  <2> QED
    BY <2>5 DEF Atomic!Next
<1>12. CASE InFlight(p) /\ ~InFlight(p)' /\ ~HasCommitted(p)'
  <2>1. pc'[p] = "done" /\ err'[p] \in {"failed", "damaged"} /\ Status[p] = "running"
        /\ Status'[p] = err'[p]
    BY <1>1, <1>12 DEF InFlight, HasCommitted, Status, TypeOK, Errors
  <2>2. Status' = [Status EXCEPT ![p] = err'[p]]
    BY <1>3, <1>4, <2>1
  <2>3. CASE err'[p] = "failed"
    <3>1. ASSUME NEW f \in Owned[p]
          PROVE  View'[f] = View[f]
      <4>1. PICK j \in Idx(p) : Entries[p][j] = f
        BY DEF Owned
      <4>2. Seen(disk'[f]) = Seen(original[f])
        <5>1. Phase(p, j)'
          BY <1>1, <4>1 DEF IInv, Idx
        <5> QED
          BY <1>1, <2>1, <2>3, <4>1, <5>1 DEF Phase, Restored
      <4> QED
        BY <1>9, <1>12, <4>2 DEF ViewIs
    <3>2. View' = View
      BY <1>2, <1>4, <3>1
    <3>3. Atomic!Abort(p)
      BY <2>1, <2>2, <2>3, <3>2 DEF Atomic!Abort, Atomic!Finish
    <3> QED
      BY <3>3 DEF Atomic!Next
  <2>4. CASE err'[p] = "damaged"
    <3>1. disk' = disk
      <4> USE DEF At, Goto, FailEarly, IInv, Control, InFlight, TypeOK
      <4>1. CASE Start(p) \/ MakeMeta(p) \/ MakeTemp(p)
        BY <1>1, <2>1, <2>4, <4>1 DEF Start, MakeMeta, MakeTemp
      <4>2. CASE Stage(p) \/ BeginCommit(p) \/ CheckParents(p) \/ Committed(p) \/ StatTarget(p)
        BY <4>2 DEF Stage, BeginCommit, CheckParents, Committed, StatTarget, shared
      <4>3. CASE Preserve(p) \/ MakeParent(p) \/ Place(p)
        BY <1>1, <2>1, <4>3 DEF Preserve, MakeParent, Place, FailCommit
      <4>4. CASE Unplace(p) \/ Restore(p)
        BY <1>1, <2>1, <4>4 DEF Unplace, Restore, RollbackError
      <4>5. CASE RolledBack(p) \/ Cleanup(p)
        BY <4>5 DEF RolledBack, Cleanup, shared
      <4> QED
        BY <4>1, <4>2, <4>3, <4>4, <4>5 DEF Step
    <3>2. ASSUME NEW f \in Owned[p]
          PROVE  View'[f] = View[f] \/ View'[f] \in {Absent, p}
      <4>1. PICK j \in Idx(p) : Entries[p][j] = f
        BY DEF Owned
      <4>2. /\ Undone(p, j) = Seen(original[f])
            /\ backup[p][j] # Absent => disk[f] \in {Absent, p}
        BY <1>12, <4>1 DEF RInv, Undoable
      <4>3. View'[f] = Seen(disk[f]) /\ View[f] = Undone(p, j)
        BY <1>9, <1>12, <3>1, <4>2 DEF ViewIs
      <4>4. Seen(Absent) = Absent /\ Seen(p) = p
        BY InstallAssumption DEF Seen, InstallAssumption
      <4> QED
        BY <4>1, <4>2, <4>3, <4>4 DEF Undone
    <3>3. \A f \in Files :
             \/ View'[f] = View[f]
             \/ f \in Owned[p] /\ View'[f] \in {Absent, p}
      BY <1>2, <3>2
    <3>4. View' \in [Files -> {Absent, Directory, Old} \union Installers]
      BY DEF ViewIs
    <3>5. Atomic!Damage(p)
      BY <2>1, <2>2, <2>4, <3>3, <3>4 DEF Atomic!Damage, Atomic!Finish
    <3> QED
      BY <3>5 DEF Atomic!Next
  <2> QED
    BY <2>1, <2>3, <2>4
<1> QED
  BY <1>8, <1>10, <1>11, <1>12

\* Every step of the installers is a step of the atomic install or none.
LEMMA NextAtomic ==
    ASSUME Isolated, RInv, RInv', ViewIs, ViewIs', [Next]_vars
    PROVE  Atomic!Next \/ UNCHANGED <<View, Status>>
<1>1. ASSUME NEW p \in Installers, Step(p)
      PROVE  Atomic!Next \/ UNCHANGED <<View, Status>>
  BY <1>1, StepAtomic
<1>2. ASSUME UNCHANGED <<shared, original, pc, k, entryvars, err>>
      PROVE  UNCHANGED <<View, Status>>
  BY <1>2 DEF shared, entryvars, View, Status, InFlight, HasCommitted, Undone, Owned, Idx
<1> QED
  BY <1>1, <1>2 DEF Next, Cancel, Crash, vars

\* InstallResourcePayload implements AtomicInstall (docs/architecture.md:72): to a
\* reader who undoes unfinished installs a payload appears at once or not at all,
\* whatever fails, is cancelled or dies, unless the call says its rollback failed.
THEOREM InstallIsAtomic ==
    ASSUME Isolated
    PROVE  Spec => ImplementsAtomic
<1>1. Init => RInv /\ Atomic!Init
  BY InitRInv, InitAtomic
<1>2. RInv /\ [Next]_vars => RInv'
  BY NextRInv
<1>3. RInv => ViewIs
  BY ViewFacts
<1>4. RInv /\ RInv' /\ ViewIs /\ ViewIs' /\ [Next]_vars => [Atomic!Next]_(Atomic!vars)
  BY NextAtomic DEF Atomic!vars
<1> QED
  BY <1>1, <1>2, <1>3, <1>4, PTL DEF Spec, ImplementsAtomic, Atomic!Spec
=============================================================================
