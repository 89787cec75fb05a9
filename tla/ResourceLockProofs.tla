------------------------- MODULE ResourceLockProofs -------------------------
(***************************************************************************)
(* The resource records for every set of packages, commits, targets and    *)
(* declared resources: they are current and unique, updates leave the      *)
(* others alone, and a complete target can be restored.                    *)
(***************************************************************************)
EXTENDS ResourceLock, TLAPS, SequenceTheorems, WellFoundedInduction

-----------------------------------------------------------------------------
\* A set of numbers has a least one.
LEMMA LeastExists ==
    ASSUME NEW s \in SUBSET Nat, s # {}
    PROVE  \E x \in s : \A y \in s : x <= y
<1>1. PICK x \in s : \A y \in s : ~ (<<y, x>> \in OpToRel(<, Nat))
  BY NatLessThanWellFounded, WFMin
<1>2. OpToRel(<, Nat) = {ss \in Nat \X Nat : ss[1] < ss[2]}
  BY Zenon DEF OpToRel
<1>3. \A y \in s : ~ (y < x)
  BY <1>1, <1>2
<1> QED
  BY <1>3

\* A package's manifest gives a target at most one resource.
LEMMA SelectedOnce ==
    ASSUME NEW s, NEW t, NEW v, NEW r \in SelectManifestResource(s, t, v),
           NEW q \in SelectManifestResource(s, t, v)
    PROVE  r = q
<1>1. ASSUME NEW hits, NEW x \in FirstAt(s, hits), NEW y \in FirstAt(s, hits)
      PROVE  x = y
  BY <1>1 DEF FirstAt
<1> QED BY <1>1 DEF SelectManifestResource

\* The new records of a target: of that target, at the locked commit, and one
\* per package.
LEMMA ResolvedRecords ==
    ASSUME NEW t, NEW v
    PROVE  /\ \A r \in Resolved(t, v) :
                 /\ r.target = t
                 /\ locked[r.package] = r.commit
                 /\ locked[r.package] # None
           /\ \A r, q \in Resolved(t, v) : r.package = q.package => r = q
<1>1. ASSUME NEW r \in Resolved(t, v)
      PROVE  \E p \in Offering : \E x \in SelectManifestResource(Declared(p), t, v) :
                r = [package |-> p, resource |-> x.name, target |-> t, commit |-> locked[p]]
  BY <1>1 DEF Resolved
<1>2. \A r \in Resolved(t, v) :
         /\ r.target = t
         /\ locked[r.package] = r.commit
         /\ locked[r.package] # None
  BY <1>1 DEF Offering, InLock
<1>3. ASSUME NEW r \in Resolved(t, v), NEW q \in Resolved(t, v), r.package = q.package
      PROVE  r = q
  <2>1. PICK p \in Offering : \E x \in SelectManifestResource(Declared(p), t, v) :
           r = [package |-> p, resource |-> x.name, target |-> t, commit |-> locked[p]]
    BY <1>1
  <2>2. PICK p2 \in Offering : \E y \in SelectManifestResource(Declared(p2), t, v) :
           q = [package |-> p2, resource |-> y.name, target |-> t, commit |-> locked[p2]]
    BY <1>1
  <2>3. p = p2
    BY <1>3, <2>1, <2>2
  <2>4. PICK x \in SelectManifestResource(Declared(p), t, v) :
           r = [package |-> p, resource |-> x.name, target |-> t, commit |-> locked[p]]
    BY <2>1
  <2>5. PICK y \in SelectManifestResource(Declared(p), t, v) :
           q = [package |-> p, resource |-> y.name, target |-> t, commit |-> locked[p]]
    BY <2>2, <2>3
  <2>6. x = y
    BY SelectedOnce
  <2> QED BY <2>4, <2>5, <2>6
<1> QED BY <1>2, <1>3

\* The records of the lock are current, one per target and of packages in the
\* lock.
RecordsInv ==
    /\ RecordsCurrent
    /\ OneRecordPerTarget
    /\ \A r \in records : locked[r.package] # None

\* It holds of a project without a lock.
LEMMA InitRecords == Init => RecordsInv
BY DEF Init, InitLock, RecordsInv, RecordsCurrent, OneRecordPerTarget

\* Every update of the lock keeps it.
LEMMA NextRecords ==
    ASSUME RecordsInv, [Next]_vars
    PROVE  RecordsInv'
<1> USE DEF RecordsInv, RecordsCurrent, OneRecordPerTarget
<1>1. ASSUME NEW now \in [Packages -> Commits \union {None}], WriteDependencies(now)
      PROVE  RecordsInv'
  BY <1>1 DEF WriteDependencies, Kept
<1>2. ASSUME NEW done \in SUBSET InLock, Checkout(done)
      PROVE  RecordsInv'
  BY <1>2 DEF Checkout
<1>3. ASSUME NEW t \in Targets, NEW v \in Versions, ResolveResources(t, v)
      PROVE  RecordsInv'
  <2>1. records' = Resolved(t, v) \union {r \in records : r.target # t} /\ locked' = locked
    BY <1>3 DEF ResolveResources, MarshalSampctlResources
  <2> QED BY <2>1, ResolvedRecords
<1>4. ASSUME NEW t \in Targets, NEW v \in Versions, FailResolve(t, v)
      PROVE  RecordsInv'
  BY <1>4 DEF FailResolve
<1>5. ASSUME NEW t \in Targets, RestoreResources(t)
      PROVE  RecordsInv'
  BY <1>5 DEF RestoreResources
<1>6. CASE UNCHANGED vars
  BY <1>6 DEF vars
<1> QED BY <1>1, <1>2, <1>3, <1>4, <1>5, <1>6 DEF Next

\* Whatever the packages, targets and resources are, and in whatever order
\* dependencies and resources are updated, every record in the lock is of the
\* locked commit of a locked package (RecordsCurrent).
THEOREM RecordsAreCurrent == Spec => []RecordsCurrent
<1>1. RecordsInv => RecordsCurrent
  BY DEF RecordsInv
<1> QED BY InitRecords, NextRecords, <1>1, PTL DEF Spec

\* A package never has two records for one target (OneRecordPerTarget).
THEOREM RecordsAreUnique == Spec => []OneRecordPerTarget
<1>1. RecordsInv => OneRecordPerTarget
  BY DEF RecordsInv
<1> QED BY InitRecords, NextRecords, <1>1, PTL DEF Spec

\* A resolution of one target leaves the records of the others alone, and an
\* update of one dependency those of the others (OthersKept).
THEOREM OthersAreKept == Spec => OthersKept
<1> DEFINE Keeps ==
      \A r \in records :
          \/ r \in records'
          \/ last'.op = "resolve" /\ r.target = last'.target
          \/ last'.op = "write" /\ locked'[r.package] # locked[r.package]
<1>1. ASSUME RecordsInv, [Next]_vars
      PROVE  [Keeps]_vars
  <2>1. ASSUME NEW now \in [Packages -> Commits \union {None}], WriteDependencies(now)
        PROVE  Keeps
    <3>1. last'.op = "write" /\ locked' = now /\ records' = Kept(now)
      BY <2>1 DEF WriteDependencies, Call
    <3>2. ASSUME NEW r \in records, locked[r.package] = now[r.package]
          PROVE  r \in Kept(now)
      BY <1>1, <3>2 DEF Kept, RecordsInv
    <3> QED BY <3>1, <3>2
  <2>2. ASSUME NEW done \in SUBSET InLock, Checkout(done)
        PROVE  Keeps
    BY <2>2 DEF Checkout
  <2>3. ASSUME NEW t \in Targets, NEW v \in Versions, ResolveResources(t, v)
        PROVE  Keeps
    BY <2>3 DEF ResolveResources, MarshalSampctlResources, Call
  <2>4. ASSUME NEW t \in Targets, NEW v \in Versions, FailResolve(t, v)
        PROVE  Keeps
    BY <2>4 DEF FailResolve
  <2>5. ASSUME NEW t \in Targets, RestoreResources(t)
        PROVE  Keeps
    BY <2>5 DEF RestoreResources
  <2> QED BY <1>1, <2>1, <2>2, <2>3, <2>4, <2>5 DEF Next
<1> QED BY InitRecords, NextRecords, <1>1, PTL DEF Spec, OthersKept

-----------------------------------------------------------------------------
\* What is found at the indices hits is one of the entries.
LEMMA FirstIsEntry ==
    ASSUME NEW S, NEW s \in Seq(S), NEW hits \in SUBSET DOMAIN s, NEW r \in FirstAt(s, hits)
    PROVE  \E i \in DOMAIN s : r = s[i]
<1>1. hits # {} /\ r = s[CHOOSE i \in hits : \A j \in hits : i <= j]
  BY DEF FirstAt
<1>2. hits \in SUBSET Nat
  BY LenProperties
<1>3. \E i \in hits : \A j \in hits : i <= j
  BY <1>1, <1>2, LeastExists
<1> QED
  BY <1>1, <1>3

\* The resource that a manifest selects is one it declares.
LEMMA SelectedIsDeclared ==
    ASSUME NEW s \in Seq(Resources), NEW t, NEW v, NEW r \in SelectManifestResource(s, t, v)
    PROVE  r \in Resources /\ \E i \in DOMAIN s : r = s[i]
<1> DEFINE At(w) == {i \in DOMAIN s : s[i].platform = t[1] /\ s[i].version = w}
<1>1. PICK hits \in SUBSET DOMAIN s : r \in FirstAt(s, hits)
  BY At(v) \in SUBSET DOMAIN s, At("") \in SUBSET DOMAIN s DEF SelectManifestResource
<1>2. PICK i \in DOMAIN s : r = s[i]
  BY <1>1, FirstIsEntry
<1> QED
  BY <1>2, ElementOfSeq, LenProperties

\* The records of a target come from what the locked packages declare.
LEMMA ResolvedAreDeclared ==
    ASSUME TypeOK, NEW t \in Targets, NEW v \in Versions, NEW r \in Resolved(t, v)
    PROVE  /\ r \in Records /\ r.package \in InLock
           /\ \E i \in DOMAIN Declared(r.package) : Declared(r.package)[i].name = r.resource
<1>1. PICK p \in Offering : \E x \in SelectManifestResource(Declared(p), t, v) :
         r = [package |-> p, resource |-> x.name, target |-> t, commit |-> locked[p]]
  BY DEF Resolved
<1>2. PICK x \in SelectManifestResource(Declared(p), t, v) :
         r = [package |-> p, resource |-> x.name, target |-> t, commit |-> locked[p]]
  BY <1>1
<1>3. p \in InLock /\ p \in Packages /\ locked[p] \in Commits /\ Declared(p) # <<>>
  BY DEF Offering, InLock, TypeOK
<1>4. Declared(p) \in Seq(Resources)
  <2>1. checkout[p] \in Commits \/ checkout[p] = None
    BY <1>3 DEF TypeOK
  <2> QED
    BY <1>3, <2>1, EmptySeq DEF TypeOK, Declared
<1>5. x \in Resources /\ \E i \in DOMAIN Declared(p) : x = Declared(p)[i]
  BY <1>2, <1>4, SelectedIsDeclared
<1>6. x.name \in Names
  BY <1>5 DEF Resources
<1> QED
  BY <1>2, <1>3, <1>5, <1>6 DEF Records

\* Without a stale resolution a record names a resource its package declares at the
\* commit the record is of.
Recorded ==
    ~stale => \A r \in records :
                 \E i \in DOMAIN declared[r.package][r.commit] :
                     declared[r.package][r.commit][i].name = r.resource

LockInv == RecordsInv /\ TypeOK /\ Recorded

\* A project without a lock has no records.
LEMMA InitLockInv == Init => LockInv
<1> SUFFICES ASSUME Init
             PROVE  LockInv
  OBVIOUS
<1>1. TypeOK
  BY LockAssumption DEF Init, InitLock, TypeOK, Call
<1>2. Recorded
  BY DEF Init, InitLock, Recorded
<1> QED
  BY <1>1, <1>2, InitRecords DEF LockInv

\* A resolution writes declared records, and the other calls no records at all.
LEMMA NextLockInv ==
    ASSUME LockInv, [Next]_vars
    PROVE  LockInv'
<1>1. RecordsInv'
  BY NextRecords DEF LockInv
<1>2. ASSUME NEW now \in [Packages -> Commits \union {None}], WriteDependencies(now)
      PROVE  TypeOK' /\ Recorded'
  <2>1. /\ locked' = now /\ records' = Kept(now) /\ UNCHANGED <<declared, checkout, stale>>
        /\ last' = [op |-> "write", target |-> None, version |-> "", ok |-> TRUE]
    BY <1>2 DEF WriteDependencies, Call
  <2>2. Kept(now) \subseteq records /\ \A r \in Kept(now) : now[r.package] # None
    BY DEF Kept
  <2>3. \A r \in records : r.package \in Packages
    BY DEF LockInv, TypeOK, Records
  <2>4. TypeOK'
    BY <2>1, <2>2, <2>3, LockAssumption DEF LockInv, TypeOK, InLock
  <2>5. Recorded'
    BY <2>1, <2>2 DEF LockInv, Recorded
  <2> QED
    BY <2>4, <2>5
<1>3. ASSUME NEW done \in SUBSET InLock, Checkout(done)
      PROVE  TypeOK' /\ Recorded'
  <2>1. /\ checkout' = [p \in Packages |-> IF p \in done THEN locked[p] ELSE checkout[p]]
        /\ UNCHANGED <<declared, locked, records, stale>>
        /\ last' = [op |-> "checkout", target |-> None, version |-> "", ok |-> (done = InLock)]
    BY <1>3 DEF Checkout, Call
  <2>2. TypeOK'
    BY <2>1, LockAssumption DEF LockInv, TypeOK, InLock
  <2>3. Recorded'
    BY <2>1 DEF LockInv, Recorded
  <2> QED
    BY <2>2, <2>3
<1>4. ASSUME NEW t \in Targets, NEW v \in Versions, ResolveResources(t, v)
      PROVE  TypeOK' /\ Recorded'
  <2>1. /\ records' = Resolved(t, v) \union {r \in records : r.target # t}
        /\ UNCHANGED <<declared, locked, checkout>>
        /\ last' = [op |-> "resolve", target |-> t, version |-> v, ok |-> TRUE]
    BY <1>4 DEF ResolveResources, MarshalSampctlResources, Call
  <2>2. stale' = (stale \/ \E p \in InLock : checkout[p] # locked[p])
    BY <1>4 DEF ResolveResources
  <2>3. \A r \in Resolved(t, v) : r \in Records /\ r.package \in InLock
    BY ResolvedAreDeclared DEF LockInv
  <2>4. TypeOK'
    <3>1. stale' \in BOOLEAN
      BY <2>2 DEF LockInv, TypeOK
    <3>2. records' \subseteq Records /\ \A r \in records' : r.package \in InLock
      BY <2>1, <2>3 DEF LockInv, TypeOK
    <3>3. InLock' = InLock
      BY <2>1 DEF InLock
    <3> QED
      BY <2>1, <3>1, <3>2, <3>3 DEF LockInv, TypeOK
  <2>5. ASSUME ~stale', NEW r \in records'
        PROVE  \E i \in DOMAIN declared[r.package][r.commit] :
                   declared[r.package][r.commit][i].name = r.resource
    <3>1. CASE r \in records
      BY <2>2, <2>5, <3>1 DEF LockInv, Recorded, TypeOK
    <3>2. CASE r \in Resolved(t, v)
      <4>1. /\ r.package \in InLock /\ r.commit = locked[r.package]
            /\ \E i \in DOMAIN Declared(r.package) : Declared(r.package)[i].name = r.resource
        BY <3>2, ResolvedAreDeclared, ResolvedRecords DEF LockInv
      <4>2. checkout[r.package] = locked[r.package] /\ locked[r.package] # None
        BY <2>2, <2>5, <4>1 DEF InLock
      <4>3. Declared(r.package) = declared[r.package][r.commit]
        BY <4>1, <4>2 DEF Declared
      <4> QED
        BY <4>1, <4>3
    <3> QED
      BY <2>1, <2>5, <3>1, <3>2
  <2>6. Recorded'
    BY <2>1, <2>5 DEF Recorded
  <2> QED
    BY <2>4, <2>6
<1>5. ASSUME NEW t \in Targets, NEW v \in Versions, FailResolve(t, v)
      PROVE  TypeOK' /\ Recorded'
  <2>1. /\ UNCHANGED <<declared, locked, records, checkout, stale>>
        /\ last' = [op |-> "resolve", target |-> t, version |-> v, ok |-> FALSE]
    BY <1>5 DEF FailResolve, Call
  <2> QED
    BY <2>1 DEF LockInv, TypeOK, Recorded, InLock
<1>6. ASSUME NEW t \in Targets, RestoreResources(t)
      PROVE  TypeOK' /\ Recorded'
  <2>1. PICK ok \in BOOLEAN : last' = [op |-> "restore", target |-> t, version |-> "", ok |-> ok]
    BY <1>6 DEF RestoreResources, Call
  <2>2. UNCHANGED <<declared, locked, records, checkout, stale>>
    BY <1>6 DEF RestoreResources
  <2> QED
    BY <2>1, <2>2, LockAssumption DEF LockInv, TypeOK, Recorded, InLock
<1>7. ASSUME UNCHANGED vars
      PROVE  TypeOK' /\ Recorded'
  <2>1. UNCHANGED <<declared, locked, records, checkout, stale, last>>
    BY <1>7 DEF vars
  <2> QED
    BY <2>1 DEF LockInv, TypeOK, Recorded, InLock
<1>8. TypeOK' /\ Recorded'
  BY <1>2, <1>3, <1>4, <1>5, <1>6, <1>7 DEF Next, LockInv
<1> QED
  BY <1>1, <1>8 DEF LockInv

\* The inductive invariant of the resource records.
THEOREM LockInvariant == Spec => []LockInv
  BY InitLockInv, NextLockInv, PTL DEF Spec

\* Every variable keeps its type, and the records are of packages in the lock.
THEOREM LockTypeCorrect == Spec => []TypeOK
<1>1. LockInv => TypeOK
  BY DEF LockInv
<1> QED
  BY <1>1, LockInvariant, PTL

\* Where resources are named alike, a target that is complete can be restored
\* (CompleteIsRestorable).
THEOREM CompleteCanBeRestored == Spec => []CompleteIsRestorable
<1>1. ASSUME LockInv, NEW t \in Targets, NEW v \in Versions, OneName, ~stale,
             \A p \in InLock : checkout[p] = locked[p], HasCompleteTarget(t, v),
             NEW r \in records
      PROVE  \E x \in records : x.package = r.package /\ x.resource = r.resource /\ x.target = t
  <2> DEFINE p == r.package
             s == declared[p][locked[p]]
  <2>1. p \in InLock /\ p \in Packages /\ locked[p] \in Commits /\ r.commit = locked[p]
    BY <1>1 DEF LockInv, TypeOK, RecordsInv, RecordsCurrent, Records, InLock
  <2>2. Declared(p) = s /\ s \in Seq(Resources)
    BY <1>1, <2>1, LockAssumption DEF Declared, LockInv, TypeOK, InLock
  <2>3. PICK i \in DOMAIN s : s[i].name = r.resource
    BY <1>1, <2>1 DEF LockInv, Recorded
  <2>4. p \in Offering
    BY <2>1, <2>2, <2>3, EmptySeq DEF Offering
  <2>5. PICK q \in SelectManifestResource(Declared(p), t, v) : TRUE
    BY <1>1, <2>4 DEF HasCompleteTarget, Resolvable
  <2>6. PICK j \in DOMAIN s : q = s[j]
    BY <2>2, <2>5, SelectedIsDeclared
  <2>7. q.name = r.resource
    BY <1>1, <2>1, <2>3, <2>6 DEF OneName
  <2> QED
    BY <1>1, <2>4, <2>5, <2>7 DEF HasCompleteTarget
<1>2. LockInv => CompleteIsRestorable
  BY <1>1 DEF CompleteIsRestorable, Restorable
<1> QED
  BY <1>2, LockInvariant, PTL
=============================================================================
