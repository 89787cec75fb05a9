------------------------ MODULE GraphResolveProofs ------------------------
(***************************************************************************)
(* Proofs about GraphResolve for any repositories, manifests, overrides,   *)
(* old names and limits.                                                   *)
(***************************************************************************)
EXTENDS GraphResolve, TLAPS, FiniteSetTheorems, SequenceTheorems, WellFoundedInduction

-----------------------------------------------------------------------------
\* A set of numbers has a least one.
LEMMA LeastExists ==
    ASSUME NEW s \in SUBSET Nat, s # {}
    PROVE  \E x \in s : \A y \in s : x <= y
<1>1. PICK x \in s : \A y \in s : ~ (<<y, x>> \in OpToRel(<, Nat))
  BY NatLessThanWellFounded, WFMin
<1>2. OpToRel(<, Nat) = {ss \in Nat \X Nat : ss[1] < ss[2]}
  BY Zenon DEF OpToRel
<1>3. \A y \in s : ~ (y < x)
  BY <1>1, <1>2
<1> QED
  BY <1>3

-----------------------------------------------------------------------------
(***************************************************************************)
(* Overrides are followed by a recursive function.                         *)
(***************************************************************************)
Step(d) == IF Replaced(d) THEN overrides[dependencyKey(d)] ELSE d

Chain(f, n, d) == f = [i \in 0 .. n |-> IF i = 0 THEN d ELSE Step(f[i - 1])]

\* A chain of replacements exists for any length.
LEMMA ChainExists ==
    ASSUME NEW d, NEW n \in Nat
    PROVE  \E f : Chain(f, n, d)
<1> DEFINE bad == {m \in Nat : ~ \E f : Chain(f, m, d)}
<1>1. ASSUME bad # {}
      PROVE  FALSE
  <2>1. PICK m \in bad : \A x \in bad : m <= x
    BY <1>1, LeastExists
  <2>2. CASE m = 0
    <3>1. Chain([i \in 0 .. 0 |-> d], 0, d)
      BY DEF Chain
    <3> QED
      BY <2>2, <3>1
  <2>3. CASE m # 0
    <3>1. m - 1 \in Nat /\ m - 1 \notin bad
      BY <2>1, <2>3
    <3>2. PICK f : Chain(f, m - 1, d)
      BY <3>1
    <3> DEFINE g == [i \in 0 .. m |-> IF i = m THEN Step(f[m - 1]) ELSE f[i]]
    <3>3. \A i \in 0 .. m : g[i] = IF i = 0 THEN d ELSE Step(g[i - 1])
      <4> SUFFICES ASSUME NEW i \in 0 .. m
                   PROVE  g[i] = IF i = 0 THEN d ELSE Step(g[i - 1])
        OBVIOUS
      <4>1. CASE i = m
        BY <2>3, <4>1
      <4>2. CASE i # m
        <5>1. i \in 0 .. m - 1 /\ f[i] = IF i = 0 THEN d ELSE Step(f[i - 1])
          BY <3>1, <3>2, <4>2 DEF Chain
        <5>2. i # 0 => i - 1 \in 0 .. m /\ i - 1 # m
          BY <4>2
        <5> QED
          BY <5>1, <5>2, <4>2
      <4> QED
        BY <4>1, <4>2
    <3>4. Chain(g, m, d)
      BY <3>3 DEF Chain
    <3> QED
      BY <2>1, <3>4
  <2> QED
    BY <2>2, <2>3
<1> QED
  BY <1>1

\* What an override leads to is a dependency.
LEMMA OverriddenTypes ==
    ASSUME WorldOK, NEW d \in Deps
    PROVE  Overridden(d) \in Deps
<1> DEFINE n == Cardinality(DOMAIN overrides)
           f == CHOOSE at : Chain(at, n, d)
<1>1. n \in Nat
  BY FS_CardinalityType DEF WorldOK
<1>2. Chain(f, n, d)
  BY <1>1, ChainExists
<1>3. \A x \in Deps : Step(x) \in Deps
  BY DEF Step, Replaced, WorldOK
<1> DEFINE bad == {m \in 0 .. n : f[m] \notin Deps}
<1>4. ASSUME bad # {}
      PROVE  FALSE
  <2>1. bad \in SUBSET Nat
    BY <1>1
  <2> HIDE DEF f
  <2>2. PICK m \in bad : \A x \in bad : m <= x
    BY <1>4, <2>1, LeastExists
  <2>3. m # 0
    BY <1>1, <1>2 DEF Chain
  <2>4. m - 1 \in 0 .. n /\ f[m - 1] \in Deps
    BY <1>1, <2>2, <2>3
  <2>5. f[m] = Step(f[m - 1])
    BY <1>1, <1>2, <2>3 DEF Chain
  <2> QED
    BY <1>3, <2>4, <2>5
<1>5. f[n] \in Deps
  <2> HIDE DEF f, n
  <2> QED
    BY <1>1, <1>4
<1>6. Followed(d) = f[n]
  BY DEF Followed, Chain, Step
<1> QED
  BY <1>5, <1>6 DEF Overridden, WorldOK

-----------------------------------------------------------------------------
(***************************************************************************)
(* The state: its types, the way from a name to its package, the requests  *)
(* in the queue and the edges.                                             *)
(***************************************************************************)
TypedPackages(pkgs) ==
    /\ DOMAIN pkgs \subseteq Keys /\ IsFiniteSet(DOMAIN pkgs)
    /\ \A k \in DOMAIN pkgs : pkgs[k] \in Packages

Types ==
    /\ WorldOK /\ TypeOK
    /\ TypedPackages(packages) /\ TypedPackages(before)
    /\ round \in {1, 2} /\ update \in BOOLEAN
    /\ round = 1 => ~update

\* Every name that was met leads to the one package that has it.
Names ==
    /\ \A k \in DOMAIN packages :
          /\ packages[k].name \in DOMAIN canonicalKeys
          /\ canonicalKeys[packages[k].name] = k
          /\ k[2] \in DOMAIN canonicalKeys
    /\ \A i \in DOMAIN canonicalKeys :
          /\ canonicalKeys[i] \in DOMAIN packages
          /\ packages[canonicalKeys[i]].name = canon[i]

\* d is one of the dependencies of the package k.
Wants(k, d) ==
    LET needed == manifests[<<packages[k].name, packages[k].commit>>]
    IN \E c \in DOMAIN needed : needed[c] = d

\* A request is one of the project, or of a package that wants it.
Asked ==
    \A i \in DOMAIN queue :
        IF queue[i].direct THEN queue[i].parent = NoParent
        ELSE queue[i].parent \in DOMAIN packages /\ Wants(queue[i].parent, queue[i].dep)

\* Nothing is required by, or depends on, what is not in the graph.
Edges ==
    /\ EdgesAgree
    /\ \A k \in DOMAIN packages :
          /\ packages[k].requiredBy \subseteq DOMAIN packages
          /\ packages[k].dependencies \subseteq {packages[j].name : j \in DOMAIN packages}

GraphInv == Types /\ Names /\ Asked /\ Edges

\* The repository that is asked for, and its package if there is one.
Name == canon[Current.dep.id]
Place == canonicalKeys[Name]

\* The two ways of merging are one, since old and new names lead to one package.
Merging ==
    /\ Usable /\ ~TooDeep
    /\ Name \in DOMAIN canonicalKeys /\ Place \in DOMAIN packages
    /\ packages[Place].name = Name
    /\ Current.dep.id \notin DOMAIN canonicalKeys => ~Full
    /\ ~constraintsConflict(Place, Current)
    /\ packages' = mergeResolutionEdge(Place, Current)
    /\ queue' = Tail(queue)
    /\ UNCHANGED <<canonicalKeys, status>>

Conflicting ==
    /\ Usable /\ ~TooDeep
    /\ Name \in DOMAIN canonicalKeys /\ Place \in DOMAIN packages
    /\ packages[Place].name = Name
    /\ constraintsConflict(Place, Current)
    /\ Stop("conflict")

\* Any other end of the traversal.
Ending ==
    \/ RejectCycle \/ RejectDepth \/ RejectCount \/ Fail \/ Finish

\* The head of the queue and what is left.
LEMMA QueueParts ==
    ASSUME queue \in Seq(Requests), queue # <<>>
    PROVE  /\ Head(queue) \in Requests /\ Head(queue) = queue[1] /\ 1 \in DOMAIN queue
           /\ Tail(queue) \in Seq(Requests) /\ Len(Tail(queue)) = Len(queue) - 1
           /\ \A i \in 1 .. Len(queue) - 1 : Tail(queue)[i] = queue[i + 1]
           /\ Len(queue) \in Nat /\ Len(queue) > 0
BY HeadTailProperties, EmptySeq, LenProperties

\* An override changes the dependency of a request and nothing else.
LEMMA CurrentParts ==
    ASSUME WorldOK, queue \in Seq(Requests), queue # <<>>
    PROVE  /\ Current \in Requests
           /\ Current.parent = queue[1].parent /\ Current.depth = queue[1].depth
           /\ Current.direct = queue[1].direct /\ Current.dev = queue[1].dev
           /\ Current.dep = IF queue[1].direct THEN queue[1].dep ELSE Overridden(queue[1].dep)
<1>1. queue[1] \in Requests /\ Head(queue) = queue[1]
  BY QueueParts
<1>2. queue[1].dep \in Deps
  BY <1>1 DEF Requests
<1>3. Overridden(queue[1].dep) \in Deps
  BY <1>2, OverriddenTypes
<1> QED
  BY <1>1, <1>2, <1>3 DEF Current, Requests

\* A function on 1..n is a sequence.
LEMMA FunctionIsSeq ==
    ASSUME NEW S, NEW n \in Nat, NEW f \in [1 .. n -> S]
    PROVE  f \in Seq(S) /\ Len(f) = n
<1>1. f \in Seq(S)
  BY SeqDef
<1>2. DOMAIN f = 1 .. n /\ DOMAIN f = 1 .. Len(f) /\ Len(f) \in Nat
  BY <1>1, LenProperties
<1> QED
  BY <1>1, <1>2

\* The requests of the project.
LEMMA RootRequests ==
    ASSUME WorldOK
    PROVE  /\ rootResolutionRequests \in Seq(Requests)
           /\ Len(rootResolutionRequests) = Len(root)
           /\ \A i \in 1 .. Len(root) :
                 /\ rootResolutionRequests[i] = Request(root[i].dep, NoParent, 0, TRUE, root[i].dev)
                 /\ root[i].dep \in Deps /\ root[i].dev \in BOOLEAN
<1>1. /\ Len(root) \in Nat /\ DOMAIN root = 1 .. Len(root)
      /\ \A i \in 1 .. Len(root) : root[i] \in [dep : Deps, dev : BOOLEAN]
  <2>1. root \in Seq([dep : Deps, dev : BOOLEAN])
    BY DEF WorldOK
  <2> QED
    BY <2>1, LenProperties, ElementOfSeq
<1>2. \A i \in 1 .. Len(root) : Request(root[i].dep, NoParent, 0, TRUE, root[i].dev) \in Requests
  BY <1>1, ResolveAssumption DEF Request, Requests
<1>3. /\ rootResolutionRequests \in [1 .. Len(root) -> Requests]
      /\ \A i \in 1 .. Len(root) :
            rootResolutionRequests[i] = Request(root[i].dep, NoParent, 0, TRUE, root[i].dev)
  BY <1>1, <1>2 DEF rootResolutionRequests
<1>4. \A i \in 1 .. Len(root) : root[i].dep \in Deps /\ root[i].dev \in BOOLEAN
  BY <1>1
<1> QED
  BY <1>1, <1>3, <1>4, FunctionIsSeq

\* The package a request is merged into is that of its present name.
LEMMA KnownPlace ==
    ASSUME GraphInv, queue # <<>>
    PROVE  /\ KnownKeys(Current) =
                 IF Current.dep.id \in DOMAIN canonicalKeys THEN {Place} ELSE {}
           /\ Current.dep.id \in DOMAIN canonicalKeys => Name \in DOMAIN canonicalKeys
           /\ Name \in DOMAIN canonicalKeys =>
                 Place \in DOMAIN packages /\ packages[Place].name = Name
<1>1. Current.dep \in Deps /\ Current.dep.id \in Ids /\ dependencyKey(Current.dep)[2] = Current.dep.id
  BY CurrentParts DEF GraphInv, Types, TypeOK, Requests, Deps, dependencyKey
<1>2. Name \in Ids /\ canon[Name] = Name
  BY <1>1 DEF Name, GraphInv, Types, WorldOK
<1>3. Name \in DOMAIN canonicalKeys => Place \in DOMAIN packages /\ packages[Place].name = Name
  BY <1>2 DEF GraphInv, Names, Place
<1>4. Current.dep.id \in DOMAIN canonicalKeys =>
         Name \in DOMAIN canonicalKeys /\ canonicalKeys[Current.dep.id] = Place
  BY DEF GraphInv, Names, Place, Name
<1>5. Current.dep.id \notin DOMAIN canonicalKeys => dependencyKey(Current.dep) \notin DOMAIN packages
  BY <1>1 DEF GraphInv, Names
<1> QED
  BY <1>3, <1>4, <1>5 DEF KnownKeys

\* What a step is.
LEMMA StepCases ==
    ASSUME GraphInv, [Next]_vars
    PROVE  Merging \/ Conflicting \/ AddPackage \/ Ending \/ Again \/ UNCHANGED vars
<1>1. ASSUME Conflict
      PROVE  Conflicting
  BY <1>1, KnownPlace DEF Conflict, Conflicting, Usable, Looping
<1>2. ASSUME Merge
      PROVE  Merging
  BY <1>2, KnownPlace DEF Merge, Merging, Usable, Looping
<1>3. ASSUME CanonicalMerge
      PROVE  Merging \/ Conflicting
  BY <1>3, KnownPlace DEF CanonicalMerge, Merging, Conflicting, Unknown, Usable, Looping, Name, Place
<1> QED
  BY <1>1, <1>2, <1>3 DEF Next, Iterate, Ending

-----------------------------------------------------------------------------
(***************************************************************************)
(* What a merge and a new package do to each part of the state.            *)
(***************************************************************************)
\* The parts of the state that do not say what they are about are of these types.
LEMMA RequestTypes ==
    ASSUME GraphInv, queue # <<>>
    PROVE  /\ queue \in Seq(Requests) /\ Current \in Requests
           /\ Current.dep \in Deps /\ Current.dep.id \in Ids /\ Current.dep.con \in Constraints
           /\ dependencyKey(Current.dep) \in Keys
           /\ dependencyKind(Current.dep, Current.dev)
                 \in {"dependency", "dev-dependency", "plugin"}
           /\ Name \in Ids
           /\ Current.parent = NoParent \/ Current.parent \in DOMAIN packages
           /\ NoParent \notin DOMAIN packages
           /\ Current.parent = NoParent <=> Current.direct
<1>1. WorldOK /\ queue \in Seq(Requests)
  BY DEF GraphInv, Types, TypeOK
<1>2. Current \in Requests
  BY <1>1, CurrentParts
<1>3. Current.dep \in Deps
  BY <1>2 DEF Requests
<1>4. /\ Current.dep.id \in Ids /\ Current.dep.con \in Constraints
      /\ dependencyKey(Current.dep) \in Keys
      /\ dependencyKind(Current.dep, Current.dev) \in {"dependency", "dev-dependency", "plugin"}
  BY <1>3 DEF Deps, Keys, Schemes, dependencyKey, dependencyKind
<1>5. Name \in Ids
  BY <1>1, <1>4 DEF Name, WorldOK
<1>6. NoParent \notin DOMAIN packages
  BY ResolveAssumption DEF GraphInv, Types, TypedPackages
<1>7. 1 \in DOMAIN queue /\ Current.parent = queue[1].parent /\ Current.direct = queue[1].direct
  BY <1>1, QueueParts, CurrentParts
<1>8. /\ Current.parent = NoParent \/ Current.parent \in DOMAIN packages
      /\ Current.parent = NoParent <=> Current.direct
  BY <1>6, <1>7 DEF GraphInv, Asked
<1> QED
  BY <1>1, <1>2, <1>3, <1>4, <1>5, <1>6, <1>8

\* addForwardDependency touches nothing but the dependencies of a package.
LEMMA ForwardParts ==
    ASSUME NEW p \in Packages, NEW n \in Ids, NEW q, q = [p EXCEPT !.dependencies = @ \union {n}]
    PROVE  /\ q \in Packages
           /\ q.name = p.name /\ q.con = p.con /\ q.commit = p.commit /\ q.kind = p.kind
           /\ q.transitive = p.transitive /\ q.requiredBy = p.requiredBy
           /\ q.dependencies = p.dependencies \union {n}
BY DEF Packages

\* A merge changes the package of the name and the dependencies of the parent.
LEMMA MergeEffect ==
    ASSUME GraphInv, Merging
    PROVE  /\ DOMAIN packages' = DOMAIN packages
           /\ \A j \in DOMAIN packages :
                 /\ packages'[j] \in Packages
                 /\ packages'[j].name = packages[j].name
                 /\ packages'[j].con = packages[j].con
                 /\ packages'[j].commit = packages[j].commit
                 /\ packages'[j].transitive =
                       IF j = Place THEN packages[j].transitive /\ ~Current.direct
                       ELSE packages[j].transitive
                 /\ packages'[j].kind =
                       IF j = Place /\ Current.direct THEN dependencyKind(Current.dep, Current.dev)
                       ELSE packages[j].kind
                 /\ packages'[j].requiredBy =
                       IF j = Place THEN packages[j].requiredBy \union ({Current.parent} \ {NoParent})
                       ELSE packages[j].requiredBy
                 /\ packages'[j].dependencies =
                       IF j = Current.parent THEN packages[j].dependencies \union {Name}
                       ELSE packages[j].dependencies
<1>1. queue # <<>> /\ Place \in DOMAIN packages /\ packages[Place].name = Name
  BY DEF Merging, Usable, Looping
<1>2. /\ dependencyKind(Current.dep, Current.dev) \in {"dependency", "dev-dependency", "plugin"}
      /\ Name \in Ids /\ Current.direct \in BOOLEAN
      /\ Current.parent = NoParent \/ (Current.parent \in DOMAIN packages /\ Current.parent \in Keys)
      /\ NoParent \notin DOMAIN packages
  BY <1>1, RequestTypes DEF Requests, GraphInv, Types, TypedPackages
<1>3. \A j \in DOMAIN packages : packages[j] \in Packages
  BY DEF GraphInv, Types, TypedPackages
<1> DEFINE p == packages[Place]
           merged == [p EXCEPT
               !.transitive = @ /\ ~Current.direct,
               !.kind = IF Current.direct THEN dependencyKind(Current.dep, Current.dev) ELSE @,
               !.requiredBy = @ \union ({Current.parent} \ {NoParent})]
           placed == [packages EXCEPT ![Place] = merged]
<1>4. packages' = addForwardDependency(placed, Current.parent, Name)
  BY <1>1 DEF Merging, mergeResolutionEdge
<1>5. /\ merged \in Packages
      /\ merged.name = p.name /\ merged.con = p.con /\ merged.commit = p.commit
      /\ merged.transitive = (p.transitive /\ ~Current.direct)
      /\ merged.kind = IF Current.direct THEN dependencyKind(Current.dep, Current.dev) ELSE p.kind
      /\ merged.requiredBy = p.requiredBy \union ({Current.parent} \ {NoParent})
      /\ merged.dependencies = p.dependencies
  <2>1. p \in Packages
    BY <1>1, <1>3
  <2>2. /\ merged.name = p.name /\ merged.con = p.con /\ merged.commit = p.commit
        /\ merged.transitive = (p.transitive /\ ~Current.direct)
        /\ merged.kind = IF Current.direct THEN dependencyKind(Current.dep, Current.dev) ELSE p.kind
        /\ merged.requiredBy = p.requiredBy \union ({Current.parent} \ {NoParent})
        /\ merged.dependencies = p.dependencies
    BY <2>1 DEF Packages
  <2>3. merged \in Packages
    <3>1. /\ (p.transitive /\ ~Current.direct) \in BOOLEAN
          /\ (IF Current.direct THEN dependencyKind(Current.dep, Current.dev) ELSE p.kind)
                 \in {"dependency", "dev-dependency", "plugin"}
          /\ p.requiredBy \union ({Current.parent} \ {NoParent}) \in SUBSET Keys
      BY <1>2, <2>1 DEF Packages
    <3> QED
      BY <2>1, <3>1 DEF Packages
  <2> QED
    BY <2>2, <2>3
<1> HIDE DEF merged
<1>6. /\ DOMAIN placed = DOMAIN packages
      /\ \A j \in DOMAIN packages : placed[j] = IF j = Place THEN merged ELSE packages[j]
  BY <1>1
<1> HIDE DEF placed
<1>7. CASE Current.parent = NoParent
  BY <1>1, <1>2, <1>3, <1>4, <1>5, <1>6, <1>7 DEF addForwardDependency
<1>8. CASE Current.parent # NoParent
  <2>1. packages' = [placed EXCEPT ![Current.parent].dependencies = @ \union {Name}]
    BY <1>4, <1>8 DEF addForwardDependency
  <2>2. \A j \in DOMAIN packages : placed[j] \in Packages
    BY <1>3, <1>5, <1>6
  <2>3. /\ DOMAIN packages' = DOMAIN packages
        /\ \A j \in DOMAIN packages :
              packages'[j] = IF j = Current.parent
                             THEN [placed[j] EXCEPT !.dependencies = @ \union {Name}]
                             ELSE placed[j]
    BY <1>6, <2>1
  <2>4. \A j \in DOMAIN packages :
           /\ packages'[j] \in Packages
           /\ packages'[j].name = placed[j].name /\ packages'[j].con = placed[j].con
           /\ packages'[j].commit = placed[j].commit /\ packages'[j].kind = placed[j].kind
           /\ packages'[j].transitive = placed[j].transitive
           /\ packages'[j].requiredBy = placed[j].requiredBy
           /\ packages'[j].dependencies =
                 IF j = Current.parent THEN placed[j].dependencies \union {Name}
                 ELSE placed[j].dependencies
    <3> SUFFICES ASSUME NEW j \in DOMAIN packages, j = Current.parent
                 PROVE  /\ packages'[j] \in Packages
                        /\ packages'[j].name = placed[j].name /\ packages'[j].con = placed[j].con
                        /\ packages'[j].commit = placed[j].commit
                        /\ packages'[j].kind = placed[j].kind
                        /\ packages'[j].transitive = placed[j].transitive
                        /\ packages'[j].requiredBy = placed[j].requiredBy
                        /\ packages'[j].dependencies = placed[j].dependencies \union {Name}
      BY <2>2, <2>3
    <3>1. placed[j] \in Packages /\ packages'[j] = [placed[j] EXCEPT !.dependencies = @ \union {Name}]
      BY <2>2, <2>3
    <3> QED
      BY <1>2, <3>1, ForwardParts
  <2>5. /\ \A j \in DOMAIN packages : j # Place => placed[j] = packages[j]
        /\ placed[Place] = merged
    BY <1>1, <1>6
  <2>6. \A j \in DOMAIN packages : j # Place =>
           /\ packages'[j] \in Packages
           /\ packages'[j].name = packages[j].name /\ packages'[j].con = packages[j].con
           /\ packages'[j].commit = packages[j].commit /\ packages'[j].kind = packages[j].kind
           /\ packages'[j].transitive = packages[j].transitive
           /\ packages'[j].requiredBy = packages[j].requiredBy
           /\ packages'[j].dependencies =
                 IF j = Current.parent THEN packages[j].dependencies \union {Name}
                 ELSE packages[j].dependencies
    BY <2>4, <2>5
  <2>7. /\ packages'[Place] \in Packages
        /\ packages'[Place].name = merged.name /\ packages'[Place].con = merged.con
        /\ packages'[Place].commit = merged.commit /\ packages'[Place].kind = merged.kind
        /\ packages'[Place].transitive = merged.transitive
        /\ packages'[Place].requiredBy = merged.requiredBy
        /\ packages'[Place].dependencies =
              IF Place = Current.parent THEN merged.dependencies \union {Name}
              ELSE merged.dependencies
    BY <1>1, <2>4, <2>5
  <2>8. /\ packages'[Place].name = packages[Place].name
        /\ packages'[Place].con = packages[Place].con
        /\ packages'[Place].commit = packages[Place].commit
        /\ packages'[Place].kind = IF Current.direct THEN dependencyKind(Current.dep, Current.dev)
                                   ELSE packages[Place].kind
        /\ packages'[Place].transitive = (packages[Place].transitive /\ ~Current.direct)
        /\ packages'[Place].requiredBy =
              packages[Place].requiredBy \union ({Current.parent} \ {NoParent})
        /\ packages'[Place].dependencies =
              IF Place = Current.parent THEN packages[Place].dependencies \union {Name}
              ELSE packages[Place].dependencies
    BY <1>5, <2>7
  <2> SUFFICES ASSUME NEW j \in DOMAIN packages
               PROVE  /\ packages'[j] \in Packages
                      /\ packages'[j].name = packages[j].name
                      /\ packages'[j].con = packages[j].con
                      /\ packages'[j].commit = packages[j].commit
                      /\ packages'[j].transitive =
                            IF j = Place THEN packages[j].transitive /\ ~Current.direct
                            ELSE packages[j].transitive
                      /\ packages'[j].kind =
                            IF j = Place /\ Current.direct
                            THEN dependencyKind(Current.dep, Current.dev)
                            ELSE packages[j].kind
                      /\ packages'[j].requiredBy =
                            IF j = Place
                            THEN packages[j].requiredBy \union ({Current.parent} \ {NoParent})
                            ELSE packages[j].requiredBy
                      /\ packages'[j].dependencies =
                            IF j = Current.parent THEN packages[j].dependencies \union {Name}
                            ELSE packages[j].dependencies
    BY <2>3
  <2>9. CASE j = Place
    BY <2>7, <2>8, <2>9
  <2>10. CASE j # Place
    BY <2>6, <2>10
  <2> QED
    BY <2>9, <2>10
<1> QED
  BY <1>7, <1>8

\* The key of a new package, its commit, and what it wants.
NewKey == dependencyKey(Current.dep)
NewCommit == Revision(Current.dep)
Wanted == manifests[<<Name, NewCommit>>]

\* The commit that is chosen and the dependencies that come with it.
LEMMA NewTypes ==
    ASSUME GraphInv, AddPackage
    PROVE  /\ queue # <<>> /\ Name \notin DOMAIN canonicalKeys
           /\ Current.dep.id \notin DOMAIN canonicalKeys
           /\ NewKey \in Keys /\ NewKey \notin DOMAIN packages /\ NewKey[2] = Current.dep.id
           /\ NewCommit \in Commits
           /\ Wanted \in Seq(Deps)
           /\ Cardinality(DOMAIN packages) < MaxPackages
<1>1. /\ queue # <<>> /\ Name \notin DOMAIN canonicalKeys /\ KnownKeys(Current) = {}
      /\ ~(Cardinality(DOMAIN packages) >= MaxPackages)
  BY DEF AddPackage, Unknown, Usable, Looping, Name, Full
<1>2. Current.dep.id \notin DOMAIN canonicalKeys
  BY <1>1, KnownPlace
<1>3. NewKey \in Keys /\ NewKey[2] = Current.dep.id
  BY <1>1, RequestTypes DEF NewKey, dependencyKey
<1>4. NewKey \notin DOMAIN packages
  BY <1>2, <1>3 DEF GraphInv, Names
<1>5. NewCommit \in Commits
  BY DEF NewCommit, Revision, reusable, RemoteCommit, Commits, GraphInv, Types, TypedPackages, Packages
<1>6. Wanted \in Seq(Deps)
  BY <1>1, <1>5, RequestTypes DEF Wanted, GraphInv, Types, WorldOK
<1>7. Cardinality(DOMAIN packages) < MaxPackages
  BY <1>1, ResolveAssumption, FS_CardinalityType DEF GraphInv, Types, TypedPackages
<1> QED
  BY <1>1, <1>2, <1>3, <1>4, <1>5, <1>6, <1>7

\* A new package changes the dependencies of its parent only.
LEMMA AddEffect ==
    ASSUME GraphInv, AddPackage
    PROVE  /\ DOMAIN packages' = DOMAIN packages \union {NewKey}
           /\ packages'[NewKey] =
                 [con |-> Current.dep.con, name |-> Name, commit |-> NewCommit,
                  kind |-> dependencyKind(Current.dep, Current.dev), transitive |-> ~Current.direct,
                  requiredBy |-> {Current.parent} \ {NoParent}, dependencies |-> {}]
           /\ packages'[NewKey] \in Packages
           /\ \A j \in DOMAIN packages :
                 /\ packages'[j] \in Packages
                 /\ packages'[j].name = packages[j].name
                 /\ packages'[j].con = packages[j].con
                 /\ packages'[j].commit = packages[j].commit
                 /\ packages'[j].transitive = packages[j].transitive
                 /\ packages'[j].kind = packages[j].kind
                 /\ packages'[j].requiredBy = packages[j].requiredBy
                 /\ packages'[j].dependencies =
                       IF j = Current.parent THEN packages[j].dependencies \union {Name}
                       ELSE packages[j].dependencies
           /\ DOMAIN canonicalKeys' = DOMAIN canonicalKeys \union {Name, Current.dep.id}
           /\ \A i \in DOMAIN canonicalKeys' :
                 canonicalKeys'[i] =
                    IF i \in {Name, Current.dep.id} THEN NewKey ELSE canonicalKeys[i]
<1>1. queue # <<>>
  BY NewTypes
<1>2. /\ dependencyKind(Current.dep, Current.dev) \in {"dependency", "dev-dependency", "plugin"}
      /\ Name \in Ids /\ Current.direct \in BOOLEAN /\ Current.dep.con \in Constraints
      /\ Current.parent = NoParent \/ (Current.parent \in DOMAIN packages /\ Current.parent \in Keys)
      /\ NoParent \notin DOMAIN packages
  BY <1>1, RequestTypes DEF Requests, GraphInv, Types, TypedPackages
<1>3. \A j \in DOMAIN packages : packages[j] \in Packages
  BY DEF GraphInv, Types, TypedPackages
<1>4. NewKey \in Keys /\ NewKey \notin DOMAIN packages /\ NewCommit \in Commits
  BY NewTypes
<1> DEFINE pkg == [con |-> Current.dep.con, name |-> Name, commit |-> NewCommit,
                   kind |-> dependencyKind(Current.dep, Current.dev), transitive |-> ~Current.direct,
                   requiredBy |-> {Current.parent} \ {NoParent}, dependencies |-> {}]
           placed == [k \in DOMAIN packages \union {NewKey} |->
                         IF k = NewKey THEN pkg ELSE packages[k]]
<1>5. /\ packages' = addForwardDependency(placed, Current.parent, Name)
      /\ canonicalKeys' = [i \in DOMAIN canonicalKeys \union {Name, Current.dep.id} |->
                              IF i \in {Name, Current.dep.id} THEN NewKey ELSE canonicalKeys[i]]
  BY DEF AddPackage, NewKey, Name, NewCommit
<1>6. pkg \in Packages
  BY <1>2, <1>4 DEF Packages
<1> HIDE DEF pkg
<1>7. /\ DOMAIN placed = DOMAIN packages \union {NewKey}
      /\ placed[NewKey] = pkg
      /\ \A j \in DOMAIN packages : placed[j] = packages[j]
  BY <1>4
<1> HIDE DEF placed
<1>8. CASE Current.parent = NoParent
  <2>1. packages' = placed
    BY <1>5, <1>8 DEF addForwardDependency
  <2> QED
    BY <1>2, <1>3, <1>5, <1>6, <1>7, <1>8, <2>1 DEF pkg
<1>9. CASE Current.parent # NoParent
  <2>1. packages' = [placed EXCEPT ![Current.parent].dependencies = @ \union {Name}]
    BY <1>5, <1>9 DEF addForwardDependency
  <2>2. Current.parent # NewKey
    BY <1>2, <1>4, <1>9
  <2>3. /\ DOMAIN packages' = DOMAIN packages \union {NewKey}
        /\ packages'[NewKey] = pkg
        /\ \A j \in DOMAIN packages :
              packages'[j] = IF j = Current.parent
                             THEN [packages[j] EXCEPT !.dependencies = @ \union {Name}]
                             ELSE packages[j]
    BY <1>4, <1>7, <2>1, <2>2
  <2>4. \A j \in DOMAIN packages :
           /\ packages'[j] \in Packages
           /\ packages'[j].name = packages[j].name /\ packages'[j].con = packages[j].con
           /\ packages'[j].commit = packages[j].commit /\ packages'[j].kind = packages[j].kind
           /\ packages'[j].transitive = packages[j].transitive
           /\ packages'[j].requiredBy = packages[j].requiredBy
           /\ packages'[j].dependencies =
                 IF j = Current.parent THEN packages[j].dependencies \union {Name}
                 ELSE packages[j].dependencies
    <3> SUFFICES ASSUME NEW j \in DOMAIN packages, j = Current.parent
                 PROVE  /\ packages'[j] \in Packages
                        /\ packages'[j].name = packages[j].name
                        /\ packages'[j].con = packages[j].con
                        /\ packages'[j].commit = packages[j].commit
                        /\ packages'[j].kind = packages[j].kind
                        /\ packages'[j].transitive = packages[j].transitive
                        /\ packages'[j].requiredBy = packages[j].requiredBy
                        /\ packages'[j].dependencies = packages[j].dependencies \union {Name}
      BY <1>3, <2>3
    <3>1. packages[j] \in Packages /\ packages'[j] = [packages[j] EXCEPT !.dependencies = @ \union {Name}]
      BY <1>3, <2>3
    <3> QED
      BY <1>2, <3>1, ForwardParts
  <2> QED
    BY <1>5, <1>6, <2>3, <2>4 DEF pkg
<1> QED
  BY <1>8, <1>9

\* A new package puts what it wants at the end of the queue.
LEMMA AddQueue ==
    ASSUME GraphInv, AddPackage
    PROVE  /\ queue' \in Seq(Requests)
           /\ Len(Wanted) \in Nat /\ DOMAIN Wanted = 1 .. Len(Wanted)
           /\ Len(queue') = Len(queue) - 1 + Len(Wanted)
           /\ \A i \in 1 .. Len(queue) - 1 : queue'[i] = queue[i + 1]
           /\ \A i \in 1 .. Len(Wanted) :
                 queue'[Len(queue) - 1 + i] =
                     Request(Wanted[i], NewKey, Current.depth + 1, FALSE, FALSE)
<1>1. /\ queue # <<>> /\ queue \in Seq(Requests) /\ Current \in Requests
      /\ NewKey \in Keys /\ Wanted \in Seq(Deps)
  BY NewTypes, RequestTypes
<1>2. /\ Tail(queue) \in Seq(Requests) /\ Len(Tail(queue)) = Len(queue) - 1
      /\ \A i \in 1 .. Len(queue) - 1 : Tail(queue)[i] = queue[i + 1]
      /\ Len(queue) \in Nat /\ Len(queue) > 0
  BY <1>1, QueueParts
<1>3. /\ Len(Wanted) \in Nat /\ DOMAIN Wanted = 1 .. Len(Wanted)
      /\ \A i \in 1 .. Len(Wanted) : Wanted[i] \in Deps
  BY <1>1, LenProperties, ElementOfSeq
<1>4. Current.depth + 1 \in 0 .. MaxDepth + 1
  <2>1. ~ (Current.depth > MaxDepth)
    BY DEF AddPackage, Unknown, TooDeep
  <2>2. Current.depth \in 0 .. MaxDepth + 1
    BY <1>1 DEF Requests
  <2> QED
    BY <2>1, <2>2, ResolveAssumption
<1> DEFINE asked == [i \in DOMAIN Wanted |->
                        Request(Wanted[i], NewKey, Current.depth + 1, FALSE, FALSE)]
<1>5. \A i \in 1 .. Len(Wanted) :
         Request(Wanted[i], NewKey, Current.depth + 1, FALSE, FALSE) \in Requests
  BY <1>1, <1>3, <1>4 DEF Request, Requests
<1>6. /\ asked \in [1 .. Len(Wanted) -> Requests]
      /\ \A i \in 1 .. Len(Wanted) :
            asked[i] = Request(Wanted[i], NewKey, Current.depth + 1, FALSE, FALSE)
  BY <1>3, <1>5
<1>7. queue' = Tail(queue) \o asked
  BY DEF AddPackage, NewKey, NewCommit, Wanted, Name
<1> HIDE DEF asked
<1>8. asked \in Seq(Requests) /\ Len(asked) = Len(Wanted)
  BY <1>3, <1>6, FunctionIsSeq
<1>9. /\ queue' \in Seq(Requests)
      /\ Len(queue') = Len(Tail(queue)) + Len(asked)
      /\ \A i \in 1 .. Len(Tail(queue)) + Len(asked) :
            queue'[i] = IF i <= Len(Tail(queue)) THEN Tail(queue)[i]
                        ELSE asked[i - Len(Tail(queue))]
  <2>1. /\ Tail(queue) \o asked \in Seq(Requests)
        /\ Len(Tail(queue) \o asked) = Len(Tail(queue)) + Len(asked)
        /\ \A i \in 1 .. Len(Tail(queue)) + Len(asked) :
              (Tail(queue) \o asked)[i] = IF i <= Len(Tail(queue)) THEN Tail(queue)[i]
                                          ELSE asked[i - Len(Tail(queue))]
    <3>1. Tail(queue) \in Seq(Requests) /\ asked \in Seq(Requests)
      BY <1>2, <1>8
    <3> QED
      BY <3>1, ConcatProperties
  <2> QED
    BY <1>7, <2>1
<1>10. /\ Len(queue') = Len(queue) - 1 + Len(Wanted)
       /\ \A i \in 1 .. Len(queue) - 1 + Len(Wanted) :
             queue'[i] = IF i <= Len(queue) - 1 THEN Tail(queue)[i]
                         ELSE asked[i - (Len(queue) - 1)]
  BY <1>2, <1>8, <1>9
<1>11. ASSUME NEW i \in 1 .. Len(Wanted)
       PROVE  queue'[Len(queue) - 1 + i] = asked[i]
  <2>1. /\ Len(queue) - 1 + i \in 1 .. Len(queue) - 1 + Len(Wanted)
        /\ ~(Len(queue) - 1 + i <= Len(queue) - 1)
        /\ Len(queue) - 1 + i - (Len(queue) - 1) = i
    BY <1>2, <1>3
  <2> QED
    BY <1>10, <2>1
<1>12. ASSUME NEW i \in 1 .. Len(queue) - 1
       PROVE  queue'[i] = queue[i + 1]
  <2>1. i \in 1 .. Len(queue) - 1 + Len(Wanted) /\ i <= Len(queue) - 1
    BY <1>2, <1>3
  <2> QED
    BY <1>2, <1>10, <2>1
<1> QED
  BY <1>3, <1>6, <1>9, <1>10, <1>11, <1>12

\* What stays when the traversal goes on.
LEMMA Unmoved ==
    ASSUME Merging \/ Conflicting \/ AddPackage \/ Ending
    PROVE  UNCHANGED world
BY DEF Merging, Conflicting, AddPackage, Ending, Unknown, Usable, Looping, Running, RejectCycle,
       RejectDepth, RejectCount, Fail, Finish

\* A step that only sets the status.
LEMMA EndingParts ==
    ASSUME Conflicting \/ Ending
    PROVE  /\ UNCHANGED <<world, traversal>>
           /\ status' \in {"ok", "failed", "cycle", "deep", "conflict", "many"}
           /\ status' = "conflict" => Conflicting
BY DEF Conflicting, Ending, Unknown, Usable, Looping, Running, RejectCycle,
       RejectDepth, RejectCount, Fail, Finish, Stop

\* Types through a step.
LEMMA TypesStep ==
    ASSUME GraphInv, Merging \/ Conflicting \/ AddPackage \/ Ending
    PROVE  Types'
<1>1. /\ WorldOK /\ TypeOK /\ TypedPackages(packages) /\ TypedPackages(before)
      /\ round \in {1, 2} /\ update \in BOOLEAN /\ (round = 1 => ~update)
  BY DEF GraphInv, Types
<1>2. UNCHANGED world
  BY Unmoved
<1>3. /\ WorldOK' /\ TypedPackages(before)'
      /\ round' \in {1, 2} /\ update' \in BOOLEAN /\ (round' = 1 => ~update')
  BY <1>1, <1>2 DEF world, WorldOK, TypedPackages
<1>4. CASE Merging
  <2>1. DOMAIN packages' = DOMAIN packages /\ \A j \in DOMAIN packages : packages'[j] \in Packages
    BY <1>4, MergeEffect
  <2>2. queue' \in Seq(Requests) /\ canonicalKeys' = canonicalKeys /\ status' = status
    BY <1>1, <1>4, QueueParts DEF Merging, Usable, Looping, TypeOK
  <2> QED
    BY <1>1, <1>3, <2>1, <2>2 DEF Types, TypeOK, TypedPackages
<1>5. CASE AddPackage
  <2>1. /\ DOMAIN packages' = DOMAIN packages \union {NewKey}
        /\ \A j \in DOMAIN packages' : packages'[j] \in Packages
    BY <1>5, AddEffect
  <2>2. /\ NewKey \in Keys /\ NewKey \notin DOMAIN packages
        /\ Cardinality(DOMAIN packages) < MaxPackages
    BY <1>5, NewTypes
  <2>3. /\ IsFiniteSet(DOMAIN packages')
        /\ Cardinality(DOMAIN packages') = Cardinality(DOMAIN packages) + 1
        /\ Cardinality(DOMAIN packages) \in Nat
    BY <1>1, <2>1, <2>2, FS_AddElement, FS_CardinalityType DEF TypedPackages
  <2>4. TypedPackages(packages)' /\ Cardinality(DOMAIN packages') <= MaxPackages
    BY <1>1, <2>1, <2>2, <2>3, ResolveAssumption DEF TypedPackages
  <2>5. /\ DOMAIN canonicalKeys' \subseteq Ids
        /\ \A i \in DOMAIN canonicalKeys' : canonicalKeys'[i] \in DOMAIN packages'
    <3>1. Name \in Ids /\ Current.dep.id \in Ids
      BY <1>5, NewTypes, RequestTypes
    <3> QED
      BY <1>1, <1>5, <2>1, <3>1, AddEffect DEF TypeOK
  <2>6. queue' \in Seq(Requests) /\ status' = status
    BY <1>5, AddQueue DEF AddPackage
  <2> QED
    BY <1>1, <1>3, <2>4, <2>5, <2>6 DEF Types, TypeOK, TypedPackages
<1>6. CASE Conflicting \/ Ending
  BY <1>1, <1>3, <1>6, EndingParts DEF Types, TypeOK, TypedPackages, traversal
<1> QED
  BY <1>4, <1>5, <1>6

\* Names through a merge and a new package.
LEMMA NamesStep ==
    ASSUME GraphInv, Merging \/ AddPackage
    PROVE  Names'
<1>1. Names /\ canon' = canon
  BY Unmoved DEF GraphInv, world
<1>2. CASE Merging
  <2>1. canonicalKeys' = canonicalKeys
    BY <1>2 DEF Merging
  <2>2. /\ DOMAIN packages' = DOMAIN packages
        /\ \A j \in DOMAIN packages : packages'[j].name = packages[j].name
    BY <1>2, MergeEffect
  <2> QED
    BY <1>1, <2>1, <2>2 DEF Names
<1>3. CASE AddPackage
  <2>1. /\ Name \notin DOMAIN canonicalKeys /\ Current.dep.id \notin DOMAIN canonicalKeys
        /\ NewKey \notin DOMAIN packages /\ NewKey[2] = Current.dep.id
        /\ canon[Name] = Name /\ canon[Current.dep.id] = Name
    BY <1>3, NewTypes, RequestTypes DEF Name, GraphInv, Types, WorldOK
  <2>2. /\ DOMAIN packages' = DOMAIN packages \union {NewKey}
        /\ packages'[NewKey].name = Name
        /\ \A j \in DOMAIN packages : packages'[j].name = packages[j].name
        /\ DOMAIN canonicalKeys' = DOMAIN canonicalKeys \union {Name, Current.dep.id}
        /\ \A i \in DOMAIN canonicalKeys' :
              canonicalKeys'[i] =
                 IF i \in {Name, Current.dep.id} THEN NewKey ELSE canonicalKeys[i]
    <3>1. packages'[NewKey].name = Name
      <4>1. packages'[NewKey] =
               [con |-> Current.dep.con, name |-> Name, commit |-> NewCommit,
                kind |-> dependencyKind(Current.dep, Current.dev), transitive |-> ~Current.direct,
                requiredBy |-> {Current.parent} \ {NoParent}, dependencies |-> {}]
        BY <1>3, AddEffect
      <4> QED
        BY <4>1
    <3> QED
      BY <1>3, <3>1, AddEffect
  <2>3. ASSUME NEW k \in DOMAIN packages'
        PROVE  /\ packages'[k].name \in DOMAIN canonicalKeys'
               /\ canonicalKeys'[packages'[k].name] = k
               /\ k[2] \in DOMAIN canonicalKeys'
    <3>1. CASE k = NewKey
      BY <2>1, <2>2, <3>1
    <3>2. CASE k \in DOMAIN packages
      <4>1. /\ packages[k].name \in DOMAIN canonicalKeys
            /\ canonicalKeys[packages[k].name] = k /\ k[2] \in DOMAIN canonicalKeys
        BY <1>1, <3>2 DEF Names
      <4> QED
        BY <2>1, <2>2, <3>2, <4>1
    <3> QED
      BY <2>2, <3>1, <3>2
  <2>4. ASSUME NEW i \in DOMAIN canonicalKeys'
        PROVE  /\ canonicalKeys'[i] \in DOMAIN packages'
               /\ packages'[canonicalKeys'[i]].name = canon[i]
    <3>1. CASE i \in {Name, Current.dep.id}
      BY <2>1, <2>2, <3>1
    <3>2. CASE i \notin {Name, Current.dep.id}
      <4>1. /\ canonicalKeys[i] \in DOMAIN packages /\ packages[canonicalKeys[i]].name = canon[i]
        BY <1>1, <2>2, <3>2 DEF Names
      <4> QED
        BY <2>2, <3>2, <4>1
    <3> QED
      BY <3>1, <3>2
  <2> QED
    BY <1>1, <2>3, <2>4 DEF Names
<1> QED
  BY <1>2, <1>3

\* What a package wants does not change.
LEMMA WantsStep ==
    ASSUME GraphInv, Merging \/ AddPackage, NEW k \in DOMAIN packages
    PROVE  /\ k \in DOMAIN packages' /\ packages'[k].name = packages[k].name
           /\ packages'[k].con = packages[k].con /\ packages'[k].commit = packages[k].commit
           /\ \A d : Wants(k, d)' <=> Wants(k, d)
<1>1. /\ k \in DOMAIN packages' /\ packages'[k].name = packages[k].name
      /\ packages'[k].con = packages[k].con /\ packages'[k].commit = packages[k].commit
  BY MergeEffect, AddEffect
<1>2. manifests' = manifests
  BY Unmoved DEF world
<1> QED
  BY <1>1, <1>2 DEF Wants

\* The requests left were asked before, and the new ones are of the new package.
LEMMA AskedStep ==
    ASSUME GraphInv, Merging \/ AddPackage
    PROVE  Asked'
<1>1. queue # <<>> /\ queue \in Seq(Requests)
  BY DEF Merging, AddPackage, Unknown, Usable, Looping, GraphInv, Types, TypeOK
<1>2. /\ Len(queue) \in Nat /\ Len(queue) > 0 /\ DOMAIN queue = 1 .. Len(queue)
  BY <1>1, QueueParts, LenProperties
<1>3. ASSUME NEW r, \E i \in 1 .. Len(queue) - 1 : r = queue[i + 1]
      PROVE  IF r.direct THEN r.parent = NoParent
             ELSE /\ r.parent \in DOMAIN packages'
                  /\ \E c \in DOMAIN manifests'[<<packages'[r.parent].name, packages'[r.parent].commit>>] :
                        manifests'[<<packages'[r.parent].name, packages'[r.parent].commit>>][c] = r.dep
  <2>1. PICK i \in DOMAIN queue : r = queue[i]
    BY <1>2, <1>3
  <2>2. CASE ~r.direct
    <3>1. r.parent \in DOMAIN packages /\ Wants(r.parent, r.dep)
      BY <2>1, <2>2 DEF GraphInv, Asked
    <3>2. r.parent \in DOMAIN packages' /\ packages'[r.parent].name = packages[r.parent].name
          /\ packages'[r.parent].commit = packages[r.parent].commit /\ manifests' = manifests
      BY <3>1, WantsStep, Unmoved DEF world
    <3> QED
      BY <2>2, <3>1, <3>2 DEF Wants
  <2> QED
    BY <2>1, <2>2 DEF GraphInv, Asked
<1>4. CASE Merging
  <2>1. queue' = Tail(queue)
    BY <1>4 DEF Merging
  <2>2. ASSUME NEW i \in DOMAIN queue'
        PROVE  \E j \in 1 .. Len(queue) - 1 : queue'[i] = queue[j + 1]
    <3>1. i \in 1 .. Len(queue) - 1
      BY <1>1, <2>1, QueueParts, LenProperties
    <3> QED
      BY <1>1, <2>1, <3>1, QueueParts
  <2> QED
    BY <1>3, <2>2 DEF Asked, Wants
<1>5. CASE AddPackage
  <2>1. /\ Len(Wanted) \in Nat
        /\ DOMAIN queue' = 1 .. Len(queue) - 1 + Len(Wanted)
    BY <1>5, AddQueue, LenProperties
  <2>2. ASSUME NEW i \in DOMAIN queue'
        PROVE  \/ \E j \in 1 .. Len(queue) - 1 : queue'[i] = queue[j + 1]
               \/ \E j \in 1 .. Len(Wanted) :
                     queue'[i] = Request(Wanted[j], NewKey, Current.depth + 1, FALSE, FALSE)
    <3>1. CASE i \in 1 .. Len(queue) - 1
      BY <1>5, <3>1, AddQueue
    <3>2. CASE i \notin 1 .. Len(queue) - 1
      <4> DEFINE j == i - (Len(queue) - 1)
      <4>1. j \in 1 .. Len(Wanted) /\ i = Len(queue) - 1 + j
        BY <1>2, <2>1, <3>2
      <4> HIDE DEF j
      <4> QED
        BY <1>5, <4>1, AddQueue
    <3> QED
      BY <3>1, <3>2
  <2>3. ASSUME NEW r, \E j \in 1 .. Len(Wanted) :
                         r = Request(Wanted[j], NewKey, Current.depth + 1, FALSE, FALSE)
        PROVE  /\ ~r.direct /\ r.parent \in DOMAIN packages'
               /\ \E c \in DOMAIN manifests'[<<packages'[r.parent].name, packages'[r.parent].commit>>] :
                     manifests'[<<packages'[r.parent].name, packages'[r.parent].commit>>][c] = r.dep
    <3>1. PICK j \in 1 .. Len(Wanted) :
                  r = Request(Wanted[j], NewKey, Current.depth + 1, FALSE, FALSE)
      BY <2>3
    <3>2. r.dep = Wanted[j] /\ r.parent = NewKey /\ ~r.direct
      BY <3>1 DEF Request
    <3>3. /\ NewKey \in DOMAIN packages' /\ packages'[NewKey].name = Name
          /\ packages'[NewKey].commit = NewCommit
      <4>1. packages'[NewKey] =
               [con |-> Current.dep.con, name |-> Name, commit |-> NewCommit,
                kind |-> dependencyKind(Current.dep, Current.dev), transitive |-> ~Current.direct,
                requiredBy |-> {Current.parent} \ {NoParent}, dependencies |-> {}]
        BY <1>5, AddEffect
      <4> QED
        BY <1>5, <4>1, AddEffect
    <3>4. manifests' = manifests /\ DOMAIN Wanted = 1 .. Len(Wanted)
      BY <1>5, Unmoved, AddQueue DEF world
    <3> QED
      BY <3>2, <3>3, <3>4 DEF Wanted
  <2> QED
    BY <1>3, <2>2, <2>3 DEF Asked, Wants
<1> QED
  BY <1>4, <1>5

\* The edges through a merge and a new package.
LEMMA EdgesStep ==
    ASSUME GraphInv, Merging \/ AddPackage
    PROVE  Edges'
<1>1. Edges /\ Names
  BY DEF GraphInv
<1>2. CASE Merging
  <2>1. /\ Current.parent = NoParent \/ Current.parent \in DOMAIN packages
        /\ NoParent \notin DOMAIN packages
        /\ Place \in DOMAIN packages /\ packages[Place].name = Name
    BY <1>2, RequestTypes DEF Merging, Usable, Looping
  <2>2. \A k \in DOMAIN packages : packages[k].name = Name <=> k = Place
    BY <1>1, <2>1 DEF Names, Place
  <2>3. /\ DOMAIN packages' = DOMAIN packages
        /\ \A j \in DOMAIN packages :
              /\ packages'[j].name = packages[j].name
              /\ packages'[j].requiredBy =
                    IF j = Place THEN packages[j].requiredBy \union ({Current.parent} \ {NoParent})
                    ELSE packages[j].requiredBy
              /\ packages'[j].dependencies =
                    IF j = Current.parent THEN packages[j].dependencies \union {Name}
                    ELSE packages[j].dependencies
    BY <1>2, MergeEffect
  <2>4. ASSUME NEW j \in DOMAIN packages, NEW k \in DOMAIN packages
        PROVE  j \in packages'[k].requiredBy <=> packages'[k].name \in packages'[j].dependencies
    <3>1. j \in packages[k].requiredBy <=> packages[k].name \in packages[j].dependencies
      BY <1>1 DEF Edges, EdgesAgree
    <3>2. j \in packages'[k].requiredBy
             <=> j \in packages[k].requiredBy \/ (k = Place /\ j = Current.parent)
      <4>1. packages'[k].requiredBy =
               IF k = Place THEN packages[k].requiredBy \union ({Current.parent} \ {NoParent})
               ELSE packages[k].requiredBy
        BY <2>3
      <4>2. j # NoParent
        BY <2>1
      <4> QED
        BY <4>1, <4>2
    <3>3. packages'[k].name \in packages'[j].dependencies
             <=> packages[k].name \in packages[j].dependencies
                 \/ (j = Current.parent /\ packages[k].name = Name)
      <4>1. /\ packages'[k].name = packages[k].name
            /\ packages'[j].dependencies =
                  IF j = Current.parent THEN packages[j].dependencies \union {Name}
                  ELSE packages[j].dependencies
        BY <2>3
      <4> QED
        BY <4>1
    <3> QED
      BY <2>2, <3>1, <3>2, <3>3
  <2>5. ASSUME NEW k \in DOMAIN packages
        PROVE  /\ packages'[k].requiredBy \subseteq DOMAIN packages'
               /\ packages'[k].dependencies \subseteq {packages'[j].name : j \in DOMAIN packages'}
    <3>1. /\ packages[k].requiredBy \subseteq DOMAIN packages
          /\ packages[k].dependencies \subseteq {packages[j].name : j \in DOMAIN packages}
      BY <1>1 DEF Edges
    <3>2. packages'[k].requiredBy \subseteq DOMAIN packages'
      <4>1. packages'[k].requiredBy =
               IF k = Place THEN packages[k].requiredBy \union ({Current.parent} \ {NoParent})
               ELSE packages[k].requiredBy
        BY <2>3
      <4> QED
        BY <2>1, <2>3, <3>1, <4>1
    <3>3. Name \in {packages[j].name : j \in DOMAIN packages}
      BY <2>1
    <3>4. packages'[k].dependencies \subseteq {packages[j].name : j \in DOMAIN packages}
      <4>1. packages'[k].dependencies =
               IF k = Current.parent THEN packages[k].dependencies \union {Name}
               ELSE packages[k].dependencies
        BY <2>3
      <4> QED
        BY <3>1, <3>3, <4>1
    <3>5. \A j \in DOMAIN packages : j \in DOMAIN packages' /\ packages'[j].name = packages[j].name
      BY <2>3
    <3> QED
      BY <3>2, <3>4, <3>5
  <2> QED
    BY <2>3, <2>4, <2>5 DEF Edges, EdgesAgree
<1>3. CASE AddPackage
  <2>1. /\ Current.parent = NoParent \/ Current.parent \in DOMAIN packages
        /\ NoParent \notin DOMAIN packages /\ NewKey \notin DOMAIN packages
        /\ Name \notin DOMAIN canonicalKeys
    BY <1>3, NewTypes, RequestTypes
  <2>2. \A k \in DOMAIN packages : packages[k].name # Name
    BY <1>1, <2>1 DEF Names
  <2>3. /\ DOMAIN packages' = DOMAIN packages \union {NewKey}
        /\ \A j \in DOMAIN packages :
              /\ packages'[j].name = packages[j].name
              /\ packages'[j].requiredBy = packages[j].requiredBy
              /\ packages'[j].dependencies =
                    IF j = Current.parent THEN packages[j].dependencies \union {Name}
                    ELSE packages[j].dependencies
    BY <1>3, AddEffect
  <2>4. /\ packages'[NewKey].name = Name
        /\ packages'[NewKey].requiredBy = {Current.parent} \ {NoParent}
        /\ packages'[NewKey].dependencies = {}
    <3>1. packages'[NewKey] =
             [con |-> Current.dep.con, name |-> Name, commit |-> NewCommit,
              kind |-> dependencyKind(Current.dep, Current.dev), transitive |-> ~Current.direct,
              requiredBy |-> {Current.parent} \ {NoParent}, dependencies |-> {}]
      BY <1>3, AddEffect
    <3> QED
      BY <3>1
  <2>5. \A k \in DOMAIN packages :
           /\ packages[k].requiredBy \subseteq DOMAIN packages
           /\ packages[k].dependencies \subseteq {packages[j].name : j \in DOMAIN packages}
           /\ Name \notin packages[k].dependencies
    BY <1>1, <2>2 DEF Edges
  <2>6. ASSUME NEW j \in DOMAIN packages', NEW k \in DOMAIN packages'
        PROVE  j \in packages'[k].requiredBy <=> packages'[k].name \in packages'[j].dependencies
    <3>1. CASE j \in DOMAIN packages /\ k \in DOMAIN packages
      <4>1. j \in packages[k].requiredBy <=> packages[k].name \in packages[j].dependencies
        BY <1>1, <3>1 DEF Edges, EdgesAgree
      <4>2. /\ packages'[k].name = packages[k].name
            /\ packages'[k].requiredBy = packages[k].requiredBy
            /\ packages'[j].dependencies =
                  IF j = Current.parent THEN packages[j].dependencies \union {Name}
                  ELSE packages[j].dependencies
        BY <2>3, <3>1
      <4>3. packages[k].name # Name
        BY <2>2, <3>1
      <4> QED
        BY <4>1, <4>2, <4>3
    <3>2. CASE j \in DOMAIN packages /\ k = NewKey
      BY <2>1, <2>3, <2>4, <2>5, <3>2
    <3>3. CASE j = NewKey
      <4>1. j \notin packages'[k].requiredBy
        <5>1. CASE k = NewKey
          BY <2>1, <2>4, <3>3, <5>1
        <5>2. CASE k \in DOMAIN packages
          <6>1. packages'[k].requiredBy = packages[k].requiredBy
            BY <2>3, <5>2
          <6> QED
            BY <2>1, <2>5, <3>3, <5>2, <6>1
        <5> QED
          BY <2>3, <5>1, <5>2
      <4> QED
        BY <2>4, <3>3, <4>1
    <3> QED
      BY <2>3, <3>1, <3>2, <3>3
  <2>7. ASSUME NEW k \in DOMAIN packages'
        PROVE  /\ packages'[k].requiredBy \subseteq DOMAIN packages'
               /\ packages'[k].dependencies \subseteq {packages'[j].name : j \in DOMAIN packages'}
    <3>1. {packages[j].name : j \in DOMAIN packages} \union {Name}
              \subseteq {packages'[j].name : j \in DOMAIN packages'}
      <4>1. \A j \in DOMAIN packages : j \in DOMAIN packages' /\ packages'[j].name = packages[j].name
        BY <2>3
      <4>2. NewKey \in DOMAIN packages'
        BY <2>3
      <4> QED
        BY <2>4, <4>1, <4>2
    <3>2. CASE k = NewKey
      BY <2>1, <2>3, <2>4, <3>2
    <3>3. CASE k \in DOMAIN packages
      <4>1. packages'[k].dependencies
               \subseteq {packages[j].name : j \in DOMAIN packages} \union {Name}
        BY <2>3, <2>5, <3>3
      <4>2. packages'[k].requiredBy \subseteq DOMAIN packages'
        BY <2>3, <2>5, <3>3
      <4> QED
        BY <3>1, <4>1, <4>2
    <3> QED
      BY <2>3, <3>2, <3>3
  <2> QED
    BY <2>6, <2>7 DEF Edges, EdgesAgree
<1> QED
  BY <1>2, <1>3

\* A resolution that begins.
FreshState ==
    /\ WorldOK /\ queue = rootResolutionRequests /\ packages = EmptyFunction
    /\ canonicalKeys = EmptyFunction /\ status = "running" /\ TypedPackages(before)
    /\ round \in {1, 2} /\ update \in BOOLEAN /\ (round = 1 => ~update)

LEMMA Fresh == FreshState => GraphInv
<1> SUFFICES ASSUME FreshState
             PROVE  GraphInv
  OBVIOUS
<1>1. /\ WorldOK /\ queue = rootResolutionRequests /\ status = "running" /\ TypedPackages(before)
      /\ round \in {1, 2} /\ update \in BOOLEAN /\ (round = 1 => ~update)
      /\ DOMAIN packages = {} /\ DOMAIN canonicalKeys = {}
  BY DEF FreshState, EmptyFunction
<1>2. queue \in Seq(Requests)
  BY <1>1, RootRequests
<1>3. IsFiniteSet(DOMAIN packages) /\ Cardinality(DOMAIN packages) = 0
  BY <1>1, FS_EmptySet
<1>4. Types
  BY <1>1, <1>2, <1>3, ResolveAssumption DEF Types, TypeOK, TypedPackages
<1>5. Names /\ Edges
  BY <1>1 DEF Names, Edges, EdgesAgree
<1>6. Asked
  <2>1. ASSUME NEW i \in DOMAIN queue
        PROVE  queue[i].direct /\ queue[i].parent = NoParent
    <3>1. i \in 1 .. Len(root)
      BY <1>1, <1>2, RootRequests, LenProperties
    <3>2. queue[i] = Request(root[i].dep, NoParent, 0, TRUE, root[i].dev)
      BY <1>1, <3>1, RootRequests
    <3> QED
      BY <3>2 DEF Request
  <2> QED
    BY <2>1 DEF Asked
<1> QED
  BY <1>4, <1>5, <1>6 DEF GraphInv

LEMMA InitInv ==
    ASSUME Init
    PROVE  GraphInv
<1>1. TypedPackages(before)
  <2>1. DOMAIN before = {}
    BY DEF Init, InitResolve, EmptyFunction
  <2> QED
    BY <2>1, FS_EmptySet DEF TypedPackages
<1> QED
  BY <1>1, Fresh DEF Init, InitResolve, FreshState

\* The second resolution starts as the first did.
LEMMA AgainFresh ==
    ASSUME GraphInv, Again
    PROVE  FreshState'
<1>1. /\ WorldOK' /\ TypedPackages(before)' /\ round' = 2 /\ update' \in BOOLEAN
      /\ rootResolutionRequests' = rootResolutionRequests
  BY DEF GraphInv, Types, Again, WorldOK, TypedPackages, rootResolutionRequests
<1> QED
  BY <1>1 DEF Again, EmptyFunction, FreshState

LEMMA AgainStep ==
    ASSUME GraphInv, Again
    PROVE  GraphInv'
BY AgainFresh, Fresh, PTL

\* The graph is well formed at every iteration.
LEMMA StepInv ==
    ASSUME GraphInv, [Next]_vars
    PROVE  GraphInv'
<1>1. CASE Merging \/ AddPackage
  BY <1>1, TypesStep, NamesStep, AskedStep, EdgesStep DEF GraphInv
<1>2. CASE Conflicting \/ Ending
  <2>1. Types'
    BY <1>2, TypesStep
  <2>2. UNCHANGED <<world, traversal>>
    BY <1>2, EndingParts
  <2>3. Names' /\ Asked' /\ Edges'
    <3>1. /\ packages' = packages /\ queue' = queue /\ canonicalKeys' = canonicalKeys
          /\ manifests' = manifests /\ canon' = canon
      BY <2>2 DEF world, traversal
    <3> QED
      BY <3>1 DEF GraphInv, Names, Asked, Wants, Edges, EdgesAgree
  <2> QED
    BY <2>1, <2>3 DEF GraphInv
<1>3. CASE UNCHANGED vars
  <2>1. UNCHANGED <<world, traversal, status>>
    BY <1>3 DEF vars
  <2>2. /\ packages' = packages /\ queue' = queue /\ canonicalKeys' = canonicalKeys
        /\ manifests' = manifests /\ canon' = canon /\ root' = root /\ overrides' = overrides
        /\ before' = before /\ round' = round /\ update' = update /\ status' = status
    BY <2>1 DEF world, traversal
  <2>3. Types'
    BY <2>2 DEF GraphInv, Types, WorldOK, TypeOK, TypedPackages
  <2>4. Names' /\ Asked' /\ Edges'
    BY <2>2 DEF GraphInv, Names, Asked, Wants, Edges, EdgesAgree
  <2> QED
    BY <2>3, <2>4 DEF GraphInv
<1> QED
  BY <1>1, <1>2, <1>3, StepCases, AgainStep

\* Whatever the repositories depend on, every request in the queue is of the
\* project or of a package that wants it, every name leads to the one package
\* that has it, and the edges join packages of the graph.
THEOREM GraphInvariant == Spec => []GraphInv
<1>1. Init => GraphInv
  BY InitInv
<1>2. GraphInv /\ [Next]_vars => GraphInv'
  BY StepInv
<1> QED
  BY <1>1, <1>2, PTL DEF Spec

\* Every variable keeps its type, the graph never exceeds the limit of packages
\* and no request the limit of depth by more than one.
THEOREM GraphTypeCorrect == Spec => []TypeOK
<1>1. GraphInv => TypeOK
  BY DEF GraphInv, Types
<1> QED
  BY <1>1, GraphInvariant, PTL

\* A package is required by a parent just when the parent lists its name, after
\* every merge, whatever aliases led to it.
THEOREM EdgesAlwaysAgree == Spec => []EdgesAgree
<1>1. GraphInv => EdgesAgree
  BY DEF GraphInv, Edges
<1> QED
  BY <1>1, GraphInvariant, PTL

-----------------------------------------------------------------------------
(***************************************************************************)
(* The second resolution goes through the states the first went through.   *)
(* One iteration of the loop as a function of the state it starts in.      *)
(***************************************************************************)
HeadOf(q) ==
    IF Head(q).direct THEN Head(q) ELSE [Head(q) EXCEPT !.dep = Overridden(@)]

Pinned(con) == IF con # "" THEN "tag" ELSE "old"

Contradicts(p, r) == p.con # r.dep.con /\ (p.transitive \/ r.direct)

Merged(pkgs, k, r) ==
    LET p == pkgs[k]
        merged == [p EXCEPT
            !.transitive = @ /\ ~r.direct,
            !.kind = IF r.direct THEN dependencyKind(r.dep, r.dev) ELSE @,
            !.requiredBy = @ \union ({r.parent} \ {NoParent})]
    IN addForwardDependency([pkgs EXCEPT ![k] = merged], r.parent, p.name)

\* What AddPackage does at a commit.
NewPackage(r, commit) ==
    [con |-> r.dep.con, name |-> canon[r.dep.id], commit |-> commit,
     kind |-> dependencyKind(r.dep, r.dev), transitive |-> ~r.direct,
     requiredBy |-> {r.parent} \ {NoParent}, dependencies |-> {}]

Added(s, commit) ==
    LET r == HeadOf(s[1])
        key == dependencyKey(r.dep)
        name == canon[r.dep.id]
        children == manifests[<<name, commit>>]
    IN << Tail(s[1]) \o [i \in DOMAIN children |->
                             Request(children[i], key, r.depth + 1, FALSE, FALSE)],
          addForwardDependency([k \in DOMAIN s[2] \union {key} |->
                                    IF k = key THEN NewPackage(r, commit) ELSE s[2][k]],
                               r.parent, name),
          [i \in DOMAIN s[3] \union {name, r.dep.id} |->
               IF i \in {name, r.dep.id} THEN key ELSE s[3][i]] >>

\* The traversal does not end in s = <<queue, packages, canonicalKeys>>.
Goes(s) ==
    /\ s[1] # <<>>
    /\ Head(s[1]).direct \/ ~OverrideCycle(Head(s[1]).dep)
    /\ ~ (HeadOf(s[1]).depth > MaxDepth)
    /\ LET r == HeadOf(s[1])
           name == canon[r.dep.id]
       IN /\ r.dep.id \notin DOMAIN s[3] => ~ (Cardinality(DOMAIN s[2]) >= MaxPackages)
          /\ name \in DOMAIN s[3] => ~Contradicts(s[2][s[3][name]], r)

\* The state after s, when a moving reference is at its first commit.
After(s) ==
    LET r == HeadOf(s[1])
        name == canon[r.dep.id]
    IN IF name \in DOMAIN s[3] THEN <<Tail(s[1]), Merged(s[2], s[3][name], r), s[3]>>
       ELSE Added(s, Pinned(r.dep.con))

Start == <<rootResolutionRequests, EmptyFunction, EmptyFunction>>

\* The packages of one graph are in another at the same constraints.
Inside(p, q) == \A k \in DOMAIN p : k \in DOMAIN q /\ q[k].con = p[k].con

\* The first resolution leaves behind every state between its start and where it is.
First ==
    /\ Start \in past \/ (traversal = Start /\ status = "running")
    /\ \A s \in past :
          \/ Goes(s) /\ (After(s) \in past \/ After(s) = traversal)
          \/ s = traversal /\ status # "running"
    /\ \A s \in past : Inside(s[2], packages)
    /\ status = "ok" => queue = <<>> /\ traversal \in past

\* The second goes through them, up to the result of the first.
Second ==
    /\ traversal \in past
    /\ \A s \in past : (Goes(s) /\ After(s) \in past) \/ (s[1] = <<>> /\ s[2] = before)
    /\ \A s \in past : Inside(s[2], before)
    /\ status \in {"running", "failed", "ok"}
    /\ status = "ok" => packages = before

\* A package is at the commit its constraint asks for, and the locked one at the
\* commit of the first resolution.
CommitsRight ==
    /\ \A k \in DOMAIN packages : packages[k].commit = NodeCommit(packages[k].con)
    /\ \A k \in DOMAIN before : before[k].commit = Pinned(before[k].con)

Replay ==
    /\ CommitsRight
    /\ round = 1 => DOMAIN before = {} /\ First
    /\ (round = 2 /\ ~update) => Second

\* One iteration does not depend on the state it is taken in.
LEMMA SameTraversal ==
    ASSUME UNCHANGED <<root, manifests, canon, overrides>>
    PROVE  /\ \A s : (Goes(s)' <=> Goes(s)) /\ After(s)' = After(s)
           /\ Start' = Start
<1>1. root' = root /\ manifests' = manifests /\ canon' = canon /\ overrides' = overrides
  OBVIOUS
<1>2. \A d : Overridden(d)' = Overridden(d) /\ (OverrideCycle(d)' <=> OverrideCycle(d))
  BY <1>1 DEF Overridden, OverrideCycle, Followed, Replaced
<1>3. Start' = Start
  BY <1>1 DEF Start, rootResolutionRequests, EmptyFunction
<1>4. ASSUME NEW s
      PROVE  (Goes(s)' <=> Goes(s)) /\ After(s)' = After(s)
  <2>1. HeadOf(s[1])' = HeadOf(s[1])
    BY <1>2 DEF HeadOf
  <2>2. Goes(s)' <=> Goes(s)
    BY <1>1, <1>2, <2>1 DEF Goes
  <2>3. Added(s, Pinned(HeadOf(s[1]).dep.con))' = Added(s, Pinned(HeadOf(s[1]).dep.con))
    BY <1>1, <2>1 DEF Added, NewPackage
  <2>4. After(s)' = After(s)
    BY <1>1, <2>1, <2>3 DEF After
  <2> QED
    BY <2>2, <2>4
<1> QED
  BY <1>3, <1>4

LEMMA SameWorld ==
    ASSUME UNCHANGED world
    PROVE  /\ \A s : (Goes(s)' <=> Goes(s)) /\ After(s)' = After(s)
           /\ Start' = Start
           /\ \A con : NodeCommit(con)' = NodeCommit(con)
<1>1. UNCHANGED <<root, manifests, canon, overrides>> /\ update' = update
  BY DEF world
<1>2. \A con : NodeCommit(con)' = NodeCommit(con)
  BY <1>1 DEF NodeCommit
<1> QED
  BY <1>1, <1>2, SameTraversal

\* What a merge and a new package do is what After says.
LEMMA GoesStep ==
    ASSUME GraphInv, Merging \/ (AddPackage /\ NewCommit = Pinned(Current.dep.con))
    PROVE  Goes(traversal) /\ traversal' = After(traversal)
<1>1. HeadOf(queue) = Current
  BY DEF HeadOf, Current
<1>2. traversal[1] = queue /\ traversal[2] = packages /\ traversal[3] = canonicalKeys
  BY DEF traversal
<1>3. /\ queue # <<>> /\ (Head(queue).direct \/ ~OverrideCycle(Head(queue).dep))
      /\ ~ (Current.depth > MaxDepth)
  BY DEF Merging, AddPackage, Unknown, Usable, Looping, TooDeep
<1>4. CASE Merging
  <2>1. /\ Name \in DOMAIN canonicalKeys /\ ~Contradicts(packages[Place], Current)
        /\ Current.dep.id \notin DOMAIN canonicalKeys => ~ (Cardinality(DOMAIN packages) >= MaxPackages)
    BY <1>4 DEF Merging, Contradicts, constraintsConflict, Full
  <2>2. Goes(traversal)
    BY <1>1, <1>2, <1>3, <2>1 DEF Goes, Name, Place
  <2>3. packages' = Merged(packages, Place, Current)
    BY <1>4 DEF Merging, mergeResolutionEdge, Merged
  <2>4. After(traversal) = <<Tail(queue), Merged(packages, Place, Current), canonicalKeys>>
    BY <1>1, <1>2, <2>1 DEF After, Name, Place
  <2> QED
    BY <1>4, <2>2, <2>3, <2>4 DEF Merging, traversal
<1>5. CASE AddPackage /\ NewCommit = Pinned(Current.dep.con)
  <2>1. Name \notin DOMAIN canonicalKeys /\ ~ (Cardinality(DOMAIN packages) >= MaxPackages)
    BY <1>5 DEF AddPackage, Unknown, Full, Name
  <2>2. Goes(traversal)
    BY <1>1, <1>2, <1>3, <2>1 DEF Goes, Name
  <2>3. After(traversal) = Added(traversal, NewCommit)
    BY <1>1, <1>2, <1>5, <2>1 DEF After, Name
  <2>4. /\ queue' = Tail(queue) \o
                 [i \in DOMAIN Wanted |-> Request(Wanted[i], NewKey, Current.depth + 1, FALSE, FALSE)]
        /\ packages' = addForwardDependency([k \in DOMAIN packages \union {NewKey} |->
                                                IF k = NewKey THEN NewPackage(Current, NewCommit)
                                                ELSE packages[k]],
                                            Current.parent, Name)
        /\ canonicalKeys' = [i \in DOMAIN canonicalKeys \union {Name, Current.dep.id} |->
                                IF i \in {Name, Current.dep.id} THEN NewKey ELSE canonicalKeys[i]]
    BY <1>5 DEF AddPackage, NewKey, NewCommit, Wanted, Name, NewPackage
  <2>5. Added(traversal, NewCommit) =
          << Tail(queue) \o
                 [i \in DOMAIN Wanted |-> Request(Wanted[i], NewKey, Current.depth + 1, FALSE, FALSE)],
             addForwardDependency([k \in DOMAIN packages \union {NewKey} |->
                                      IF k = NewKey THEN NewPackage(Current, NewCommit)
                                      ELSE packages[k]],
                                  Current.parent, Name),
             [i \in DOMAIN canonicalKeys \union {Name, Current.dep.id} |->
                 IF i \in {Name, Current.dep.id} THEN NewKey ELSE canonicalKeys[i]] >>
    BY <1>1, <1>2 DEF Added, NewKey, Name, Wanted
  <2> QED
    BY <2>2, <2>3, <2>4, <2>5 DEF traversal
<1> QED
  BY <1>4, <1>5

\* Where the traversal goes on, the package it meets is one of the next graph.
LEMMA AddedParts ==
    ASSUME GraphInv, AddPackage
    PROVE  /\ After(traversal) = Added(traversal, Pinned(Current.dep.con))
           /\ NewKey \in DOMAIN After(traversal)[2]
           /\ After(traversal)[2][NewKey].con = Current.dep.con
<1>1. HeadOf(queue) = Current
  BY DEF HeadOf, Current
<1>2. traversal[1] = queue /\ traversal[2] = packages /\ traversal[3] = canonicalKeys
  BY DEF traversal
<1>3. Name \notin DOMAIN canonicalKeys
  BY DEF AddPackage, Name
<1>4. After(traversal) = Added(traversal, Pinned(Current.dep.con))
  BY <1>1, <1>2, <1>3 DEF After, Name
<1> DEFINE pkg == NewPackage(Current, Pinned(Current.dep.con))
           placed == [k \in DOMAIN packages \union {NewKey} |->
                         IF k = NewKey THEN pkg ELSE packages[k]]
<1>5. Added(traversal, Pinned(Current.dep.con))[2] = addForwardDependency(placed, Current.parent, Name)
  BY <1>1, <1>2 DEF Added, NewKey, Name
<1>6. pkg.con = Current.dep.con
  BY DEF NewPackage
<1>7. queue # <<>> /\ NewKey \notin DOMAIN packages
  BY NewTypes
<1>8. Current.parent = NoParent \/ Current.parent \in DOMAIN packages
  BY <1>7, RequestTypes
<1> HIDE DEF pkg
<1>9. NewKey \in DOMAIN placed /\ placed[NewKey] = pkg
  OBVIOUS
<1> HIDE DEF placed
<1>10. /\ NewKey \in DOMAIN addForwardDependency(placed, Current.parent, Name)
       /\ addForwardDependency(placed, Current.parent, Name)[NewKey] = pkg
  BY <1>7, <1>8, <1>9 DEF addForwardDependency
<1> QED
  BY <1>4, <1>5, <1>6, <1>10

\* The commit of a new package: the locked one is offered to every request but
\* those of an update.
LEMMA CommitStep ==
    ASSUME GraphInv, Replay, AddPackage
    PROVE  NewCommit = NodeCommit(Current.dep.con)
<1>1. round \in {1, 2} /\ update \in BOOLEAN /\ (round = 1 => ~update)
  BY DEF GraphInv, Types
<1>2. CASE round = 1 \/ update
  <2>1. ~reusable(NewKey, Current.dep.con)
    BY <1>2 DEF reusable, Replay
  <2> QED
    BY <1>1, <1>2, <2>1 DEF NewCommit, Revision, RemoteCommit, NodeCommit, NewKey
<1>3. CASE round = 2 /\ ~update
  <2>1. Second /\ CommitsRight
    BY <1>3 DEF Replay
  <2>2. After(traversal) \in past
    <3>1. traversal[1] # <<>>
      BY NewTypes DEF traversal
    <3> QED
      BY <2>1, <3>1 DEF Second
  <2>3. NewKey \in DOMAIN before /\ before[NewKey].con = Current.dep.con
    BY <2>1, <2>2, AddedParts DEF Second, Inside
  <2>4. NewCommit = before[NewKey].commit
    BY <1>3, <2>3 DEF NewCommit, Revision, reusable, NewKey
  <2> QED
    BY <1>3, <2>1, <2>3, <2>4 DEF CommitsRight, Pinned, NodeCommit
<1> QED
  BY <1>1, <1>2, <1>3

\* What an iteration leaves behind.
LEMMA PastStep ==
    ASSUME Merging \/ Conflicting \/ AddPackage \/ Ending
    PROVE  /\ status = "running"
           /\ past' = IF round = 1 THEN past \union {traversal} ELSE past
BY DEF Merging, Conflicting, AddPackage, Ending, Unknown, Usable, Looping, Running, RejectCycle,
       RejectDepth, RejectCount, Fail, Finish

\* Commits through a merge and a new package.
LEMMA CommitsStep ==
    ASSUME GraphInv, Replay, Merging \/ AddPackage
    PROVE  /\ CommitsRight'
           /\ Inside(packages, packages')
<1>1. CommitsRight /\ before' = before
  BY Unmoved DEF Replay, world
<1>2. \A k \in DOMAIN before' : before'[k].commit = Pinned(before'[k].con)
  BY <1>1 DEF CommitsRight
<1>3. \A k \in DOMAIN packages :
         /\ k \in DOMAIN packages' /\ packages'[k].con = packages[k].con
         /\ packages'[k].commit = packages[k].commit
  BY WantsStep
<1>4. \A k \in DOMAIN packages' : packages'[k].commit = NodeCommit(packages'[k].con)
  <2>1. CASE Merging
    <3>1. DOMAIN packages' = DOMAIN packages
      BY <2>1, MergeEffect
    <3> QED
      BY <1>1, <1>3, <3>1 DEF CommitsRight
  <2>2. CASE AddPackage
    <3>1. packages'[NewKey] =
             [con |-> Current.dep.con, name |-> Name, commit |-> NewCommit,
              kind |-> dependencyKind(Current.dep, Current.dev), transitive |-> ~Current.direct,
              requiredBy |-> {Current.parent} \ {NoParent}, dependencies |-> {}]
      BY <2>2, AddEffect
    <3>2. packages'[NewKey].commit = NodeCommit(packages'[NewKey].con)
      BY <2>2, <3>1, CommitStep
    <3>3. DOMAIN packages' = DOMAIN packages \union {NewKey}
      BY <2>2, AddEffect
    <3> QED
      BY <1>1, <1>3, <3>2, <3>3 DEF CommitsRight
  <2> QED
    BY <2>1, <2>2
<1>5. update' = update
  BY Unmoved DEF world
<1> QED
  BY <1>2, <1>3, <1>4, <1>5 DEF CommitsRight, Inside, NodeCommit

\* The traversal goes on.
LEMMA ReplayMoves ==
    ASSUME GraphInv, Replay, Merging \/ AddPackage
    PROVE  Replay'
<1>1. /\ round \in {1, 2} /\ update \in BOOLEAN /\ (round = 1 => ~update)
  BY DEF GraphInv, Types
<1>2. UNCHANGED world /\ round' = round /\ update' = update /\ before' = before
  BY Unmoved DEF world
<1>3. /\ \A s : (Goes(s)' <=> Goes(s)) /\ After(s)' = After(s)
      /\ Start' = Start
  BY <1>2, SameWorld
<1>4. CommitsRight' /\ Inside(packages, packages')
  BY CommitsStep
<1>5. /\ status = "running" /\ status' = "running"
      /\ past' = IF round = 1 THEN past \union {traversal} ELSE past
  BY PastStep DEF Merging, AddPackage
<1>6. ASSUME ~update
      PROVE  Goes(traversal) /\ traversal' = After(traversal)
  <2>1. \A con : NodeCommit(con) = Pinned(con)
    BY <1>6 DEF NodeCommit, Pinned
  <2> QED
    BY <2>1, CommitStep, GoesStep
<1>7. CASE round = 1
  <2>1. First /\ DOMAIN before = {}
    BY <1>7 DEF Replay
  <2>2. Goes(traversal) /\ traversal' = After(traversal) /\ past' = past \union {traversal}
    BY <1>1, <1>5, <1>6, <1>7
  <2>3. Start' \in past'
    BY <1>3, <2>1, <2>2 DEF First
  <2>4. ASSUME NEW s \in past'
        PROVE  Goes(s)' /\ (After(s)' \in past' \/ After(s)' = traversal')
    <3>1. Goes(s) /\ (After(s) \in past' \/ After(s) = traversal')
      BY <1>5, <2>1, <2>2 DEF First
    <3> QED
      BY <1>3, <3>1
  <2>5. ASSUME NEW s \in past'
        PROVE  Inside(s[2], packages')
    <3>1. Inside(s[2], packages)
      BY <2>1, <2>2 DEF First, Inside, traversal
    <3> QED
      BY <1>4, <3>1 DEF Inside
  <2>6. First'
    BY <1>5, <2>3, <2>4, <2>5 DEF First, Inside
  <2> QED
    BY <1>2, <1>4, <1>7, <2>1, <2>6 DEF Replay
<1>8. CASE round = 2 /\ ~update
  <2>1. Second
    BY <1>8 DEF Replay
  <2>2. Goes(traversal) /\ traversal' = After(traversal) /\ past' = past
    BY <1>5, <1>6, <1>8
  <2>3. traversal' \in past'
    BY <2>1, <2>2 DEF Second, Goes
  <2>4. ASSUME NEW s \in past'
        PROVE  /\ (Goes(s)' /\ After(s)' \in past') \/ (s[1] = <<>> /\ s[2] = before')
               /\ Inside(s[2], before')
    BY <1>2, <1>3, <2>1, <2>2 DEF Second
  <2>5. Second'
    BY <1>5, <2>3, <2>4 DEF Second, Inside
  <2> QED
    BY <1>2, <1>4, <1>8, <2>5 DEF Replay
<1>9. CASE round = 2 /\ update
  BY <1>2, <1>4, <1>9 DEF Replay
<1> QED
  BY <1>1, <1>7, <1>8, <1>9

\* The traversal ends, and the second one from the lock only as the first did.
LEMMA ReplayEnds ==
    ASSUME GraphInv, Replay, Conflicting \/ Ending
    PROVE  Replay'
<1>1. round \in {1, 2} /\ update \in BOOLEAN /\ (round = 1 => ~update)
  BY DEF GraphInv, Types
<1>2. /\ UNCHANGED world /\ traversal' = traversal
      /\ round' = round /\ update' = update /\ before' = before
      /\ queue' = queue /\ packages' = packages
  BY EndingParts DEF world, traversal
<1>3. /\ \A s : (Goes(s)' <=> Goes(s)) /\ After(s)' = After(s)
      /\ Start' = Start
      /\ \A con : NodeCommit(con)' = NodeCommit(con)
  BY <1>2, SameWorld
<1>4. CommitsRight'
  BY <1>2, <1>3 DEF Replay, CommitsRight
<1>5. /\ status = "running" /\ status' # "running"
      /\ past' = IF round = 1 THEN past \union {traversal} ELSE past
  BY PastStep, EndingParts
<1>6. status' = "ok" => queue = <<>>
  BY DEF Conflicting, Ending, RejectCycle, RejectDepth, RejectCount, Fail, Finish, Unknown, Usable,
         Looping, Stop
<1>7. CASE round = 1
  <2>1. First /\ DOMAIN before = {} /\ past' = past \union {traversal}
    BY <1>5, <1>7 DEF Replay
  <2>2. Start' \in past'
    BY <1>3, <2>1 DEF First
  <2>3. ASSUME NEW s \in past'
        PROVE  /\ \/ Goes(s)' /\ (After(s)' \in past' \/ After(s)' = traversal')
                  \/ s = traversal' /\ status' # "running"
               /\ Inside(s[2], packages')
    <3>1. CASE s = traversal
      BY <1>2, <1>5, <3>1 DEF Inside, traversal
    <3>2. CASE s \in past
      BY <1>2, <1>3, <1>5, <2>1, <3>2 DEF First
    <3> QED
      BY <2>1, <3>1, <3>2
  <2>4. First'
    BY <1>2, <1>6, <2>1, <2>2, <2>3 DEF First, Inside
  <2> QED
    BY <1>2, <1>4, <1>7, <2>1, <2>4 DEF Replay
<1>8. CASE round = 2 /\ ~update
  <2>1. Second /\ past' = past
    BY <1>5, <1>8 DEF Replay
  <2>2. CASE queue = <<>>
    <3>1. packages = before
      BY <2>1, <2>2 DEF Second, Goes, traversal
    <3>2. status' \in {"failed", "ok"}
      BY <2>2 DEF Conflicting, Ending, RejectCycle, RejectDepth, RejectCount, Fail, Finish, Unknown,
                  Usable, Looping, Stop
    <3>3. Second'
      BY <1>2, <1>3, <2>1, <3>1, <3>2 DEF Second, Inside
    <3> QED
      BY <1>2, <1>4, <1>8, <3>3 DEF Replay
  <2>3. CASE queue # <<>>
    <3>1. Goes(traversal)
      BY <2>1, <2>3 DEF Second, traversal
    <3>2. HeadOf(queue) = Current /\ traversal[1] = queue /\ traversal[2] = packages
          /\ traversal[3] = canonicalKeys
      BY DEF HeadOf, Current, traversal
    <3>3. ~RejectCycle
      BY <3>1, <3>2 DEF Goes, RejectCycle
    <3>4. ~RejectDepth
      BY <3>1, <3>2 DEF Goes, RejectDepth, TooDeep
    <3>5. ~RejectCount
      BY <2>3, <3>1, <3>2, KnownPlace DEF Goes, RejectCount, Unknown, Full
    <3>6. ~Conflicting
      BY <3>1, <3>2 DEF Goes, Conflicting, Contradicts, constraintsConflict, Name, Place
    <3>7. status' = "failed"
      BY <2>3, <3>3, <3>4, <3>5, <3>6 DEF Ending, Fail, Finish, Stop
    <3>8. Second'
      BY <1>2, <1>3, <2>1, <3>7 DEF Second, Inside
    <3> QED
      BY <1>2, <1>4, <1>8, <3>8 DEF Replay
  <2> QED
    BY <2>2, <2>3
<1>9. CASE round = 2 /\ update
  BY <1>2, <1>4, <1>9 DEF Replay
<1> QED
  BY <1>1, <1>7, <1>8, <1>9

\* The second resolution begins where the first did.
LEMMA ReplayAgain ==
    ASSUME GraphInv, Replay, Again
    PROVE  Replay'
<1>1. /\ round = 1 /\ status = "ok" /\ First /\ ~update
      /\ round' = 2 /\ before' = packages /\ status' = "running" /\ past' = past
      /\ packages' = EmptyFunction /\ traversal' = Start
  BY DEF GraphInv, Types, Replay, Again, traversal, Start
<1>2. UNCHANGED <<root, manifests, canon, overrides>>
  BY DEF Again
<1>3. CommitsRight'
  <2>1. DOMAIN packages' = {}
    BY <1>1 DEF EmptyFunction
  <2>2. \A k \in DOMAIN before' : before'[k].commit = Pinned(before'[k].con)
    BY <1>1 DEF Replay, CommitsRight, NodeCommit, Pinned
  <2> QED
    BY <2>1, <2>2 DEF CommitsRight
<1>4. ASSUME NEW s \in past'
      PROVE  /\ (Goes(s)' /\ After(s)' \in past') \/ (s[1] = <<>> /\ s[2] = before')
             /\ Inside(s[2], before')
  <2>1. Inside(s[2], before')
    BY <1>1 DEF First
  <2>2. Goes(s)' <=> Goes(s)
    BY <1>2, SameTraversal
  <2>3. After(s)' = After(s)
    BY <1>2, SameTraversal
  <2>4. (Goes(s) /\ After(s) \in past) \/ (s[1] = <<>> /\ s[2] = packages)
    BY <1>1 DEF First, traversal
  <2> QED
    BY <1>1, <2>1, <2>2, <2>3, <2>4
<1>5. traversal' \in past'
  BY <1>1 DEF First
<1>6. Second'
  BY <1>1, <1>4, <1>5 DEF Second, Inside
<1> QED
  BY <1>1, <1>3, <1>6 DEF Replay

LEMMA ReplayInit ==
    ASSUME Init
    PROVE  Replay
BY DEF Init, InitResolve, Replay, CommitsRight, First, Start, traversal, EmptyFunction

LEMMA ReplayStep ==
    ASSUME GraphInv, Replay, [Next]_vars
    PROVE  Replay'
<1>1. CASE UNCHANGED vars
  <2>1. UNCHANGED world /\ UNCHANGED <<queue, packages, status, past, traversal>>
    BY <1>1 DEF vars, traversal
  <2>2. /\ \A s : (Goes(s)' <=> Goes(s)) /\ After(s)' = After(s)
        /\ Start' = Start
        /\ \A con : NodeCommit(con)' = NodeCommit(con)
    BY <2>1, SameWorld
  <2>3. round' = round /\ update' = update /\ before' = before
    BY <2>1 DEF world
  <2> QED
    BY <2>1, <2>2, <2>3 DEF Replay, CommitsRight, First, Second, Inside
<1> QED
  BY <1>1, StepCases, ReplayMoves, ReplayEnds, ReplayAgain

\* The second resolution goes through the states of the first.
THEOREM ReplayInvariant == Spec => [](GraphInv /\ Replay)
<1>1. Init => GraphInv /\ Replay
  BY InitInv, ReplayInit
<1>2. GraphInv /\ Replay /\ [Next]_vars => (GraphInv /\ Replay)'
  BY StepInv, ReplayStep
<1> QED
  BY <1>1, <1>2, PTL DEF Spec

\* A resolution from the lock of the one before, without an update, meets no
\* limit and no conflict the first one did not meet, and ends with the same graph
\* at the same commits, whatever the remote did; with one, every moving reference
\* follows the remote.
THEOREM AlwaysReproducible == Spec => []Reproducible
<1>1. ASSUME GraphInv, Replay
      PROVE  Reproducible
  <2>1. CASE round = 2 /\ update
    BY <1>1, <2>1 DEF Reproducible, Replay, CommitsRight, NodeCommit
  <2>2. CASE round = 2 /\ ~update
    BY <1>1, <2>2 DEF Reproducible, Replay, Second
  <2> QED
    BY <2>1, <2>2 DEF Reproducible
<1> QED
  BY <1>1, ReplayInvariant, PTL

-----------------------------------------------------------------------------
(***************************************************************************)
(* The traversal and the closure of the project's dependencies.            *)
(***************************************************************************)
RootNode(i) == <<canon[root[i].dep.id], root[i].dep.con>>

Met(i) == \E k \in DOMAIN packages : ~packages[k].transitive /\ PackageNode(k) = RootNode(i)

\* A package that is not transitive has the key of a direct dependency, and the
\* kind of the last one, of the m looked at, that names its repository.
OfTheProject(k, m) ==
    /\ \E i \in 1 .. m : k = dependencyKey(root[i].dep) /\ RootNode(i) = PackageNode(k)
    /\ \E i \in 1 .. m :
          /\ RootNode(i) = PackageNode(k)
          /\ packages[k].kind = dependencyKind(root[i].dep, root[i].dev)
          /\ \A j \in i + 1 .. m : RootNode(j)[1] # packages[k].name

\* The first m dependencies of the project are looked at, and they come first.
Looked(m) ==
    /\ Len(root) - m <= Len(queue)
    /\ \A i \in DOMAIN queue :
          IF i <= Len(root) - m THEN queue[i] = rootResolutionRequests[m + i]
          ELSE ~queue[i].direct
    /\ \A i \in 1 .. m : Met(i)
    /\ m < Len(root) => \A k \in DOMAIN packages : ~packages[k].transitive
    /\ \A k \in DOMAIN packages : ~packages[k].transitive => OfTheProject(k, m)

Sound == \A k \in DOMAIN packages : PackageNode(k) \in Closure

Pending(k, d) ==
    \E i \in DOMAIN queue : ~queue[i].direct /\ queue[i].parent = k /\ queue[i].dep = d

\* What a package wants is in the graph or in the queue.
Complete ==
    \A k \in DOMAIN packages, d \in Deps :
        Wants(k, d) => Pending(k, d) \/ Required(d) \subseteq {PackageNode(j) : j \in DOMAIN packages}

Towards ==
    /\ \E m \in 0 .. Len(root) : Looked(m)
    /\ Sound /\ Complete
    /\ status = "conflict" => ~Consistent
    /\ status = "ok" => queue = <<>>

\* A direct dependency decides for its repository, and only for that one.
LEMMA RequiredCases ==
    ASSUME WorldOK, NEW d \in Deps
    PROVE  /\ canon[Overridden(d).id] \in Ids /\ Overridden(d).con \in Constraints
           /\ DirectNodes = {RootNode(i) : i \in 1 .. Len(root)} /\ DirectNodes \subseteq Nodes
           /\ Required(d) \subseteq Nodes
           /\ \A n \in Required(d) : n[1] = canon[Overridden(d).id]
           /\ \A n \in Required(d) :
                 n \in DirectNodes \/ n = <<canon[Overridden(d).id], Overridden(d).con>>
           /\ \/ Required(d) = {<<canon[Overridden(d).id], Overridden(d).con>>}
              \/ Required(d) \subseteq DirectNodes /\ Required(d) # {}
           /\ (\A n \in DirectNodes : n[1] # canon[Overridden(d).id]) =>
                 Required(d) = {<<canon[Overridden(d).id], Overridden(d).con>>}
           /\ (\E n \in DirectNodes : n[1] = canon[Overridden(d).id]) =>
                 Required(d) \subseteq DirectNodes
<1>1. Overridden(d) \in Deps
  BY OverriddenTypes
<1>2. canon[Overridden(d).id] \in Ids /\ Overridden(d).con \in Constraints
  BY <1>1 DEF Deps, WorldOK
<1>3. \A i \in 1 .. Len(root) : RootNode(i) \in Nodes
  <2> SUFFICES ASSUME NEW i \in 1 .. Len(root)
               PROVE  RootNode(i) \in Nodes
    OBVIOUS
  <2>1. root[i].dep \in Deps
    BY RootRequests
  <2> QED
    BY <2>1 DEF RootNode, Nodes, Deps, WorldOK
<1>4. DOMAIN root = 1 .. Len(root)
  <2>1. root \in Seq([dep : Deps, dev : BOOLEAN])
    BY DEF WorldOK
  <2> QED
    BY <2>1, LenProperties
<1>5. DirectNodes = {RootNode(i) : i \in 1 .. Len(root)}
  BY <1>4 DEF DirectNodes, RootNode
<1>6. DirectNodes \subseteq Nodes
  BY <1>3, <1>5
<1> DEFINE name == canon[Overridden(d).id]
           con == Overridden(d).con
           chosen == {n \in DirectNodes : n[1] = name}
<1>7. Required(d) = IF chosen = {} THEN {<<name, con>>} ELSE chosen
  BY DEF Required
<1>8. <<name, con>> \in Nodes
  BY <1>2 DEF Nodes
<1> HIDE DEF name, con
<1>9. /\ Required(d) \subseteq Nodes /\ \A n \in Required(d) : n[1] = name
      /\ \A n \in Required(d) : n \in DirectNodes \/ n = <<name, con>>
      /\ Required(d) = {<<name, con>>} \/ (Required(d) \subseteq DirectNodes /\ Required(d) # {})
      /\ (\A n \in DirectNodes : n[1] # name) => Required(d) = {<<name, con>>}
      /\ (\E n \in DirectNodes : n[1] = name) => Required(d) \subseteq DirectNodes
  BY <1>6, <1>7, <1>8
<1> QED
  BY <1>2, <1>5, <1>6, <1>9 DEF name, con

\* The closure is closed, and the least set that is.
LEMMA ClosureFacts ==
    ASSUME WorldOK
    PROVE  /\ DirectNodes \subseteq Closure /\ Closure \subseteq Nodes
           /\ \A x \in Closure : Needs(x) \subseteq Closure
           /\ \A s \in SUBSET Nodes : Closed(s) => Closure \subseteq s
<1>1. DirectNodes \subseteq Nodes
  <2> SUFFICES ASSUME NEW i \in DOMAIN root
               PROVE  <<canon[root[i].dep.id], root[i].dep.con>> \in Nodes
    BY DEF DirectNodes
  <2>1. root \in Seq([dep : Deps, dev : BOOLEAN])
    BY DEF WorldOK
  <2>2. root[i].dep \in Deps
    <3>1. i \in 1 .. Len(root)
      BY <2>1, LenProperties
    <3> QED
      BY <3>1, RootRequests
  <2> QED
    BY <2>2 DEF Nodes, Deps, WorldOK
<1>2. \A x \in Nodes : Needs(x) \subseteq Nodes
  <2> SUFFICES ASSUME NEW x \in Nodes, NEW n \in Needs(x)
               PROVE  n \in Nodes
    OBVIOUS
  <2> DEFINE needed == manifests[<<x[1], NodeCommit(x[2])>>]
  <2>1. needed \in Seq(Deps)
    BY DEF WorldOK, NodeCommit, Commits, Nodes
  <2>2. PICK i \in DOMAIN needed : n \in Required(needed[i])
    BY DEF Needs
  <2>3. needed[i] \in Deps
    <3> HIDE DEF needed
    <3> QED
      BY <2>1, <2>2, LenProperties, ElementOfSeq
  <2> QED
    BY <2>2, <2>3, RequiredCases
<1> QED
  BY <1>1, <1>2 DEF Closure, Closed

\* A request that a package makes is one of the needs of its node.
LEMMA WantsNeeds ==
    ASSUME GraphInv, CommitsRight, NEW k \in DOMAIN packages, NEW d, Wants(k, d)
    PROVE  d \in Deps /\ Required(d) \subseteq Needs(PackageNode(k))
<1>1. packages[k] \in Packages /\ packages[k].commit = NodeCommit(packages[k].con)
  BY DEF GraphInv, Types, TypedPackages, CommitsRight
<1> DEFINE needed == manifests[<<packages[k].name, packages[k].commit>>]
<1>2. needed \in Seq(Deps)
  BY <1>1 DEF GraphInv, Types, WorldOK, Packages
<1>3. PICK c \in DOMAIN needed : needed[c] = d
  BY DEF Wants
<1>4. PackageNode(k)[1] = packages[k].name /\ PackageNode(k)[2] = packages[k].con
  BY DEF PackageNode
<1>5. Needs(PackageNode(k)) = UNION {Required(needed[i]) : i \in DOMAIN needed}
  BY <1>1, <1>4 DEF Needs
<1>6. d \in Deps
  <2> HIDE DEF needed
  <2> QED
    BY <1>2, <1>3, LenProperties, ElementOfSeq
<1> QED
  BY <1>3, <1>5, <1>6

\* What Current is: the next dependency of the project, or an overridden request.
LEMMA HeadCases ==
    ASSUME GraphInv, queue # <<>>, NEW m \in 0 .. Len(root), Looked(m)
    PROVE  /\ Len(root) \in Nat
           /\ Current.direct <=> m < Len(root)
           /\ Current.direct => /\ m + 1 \in 1 .. Len(root)
                                /\ Current.dep = root[m + 1].dep /\ Current.dev = root[m + 1].dev
                                /\ RootNode(m + 1) = <<Name, Current.dep.con>>
           /\ ~Current.direct => /\ m = Len(root) /\ queue[1].dep \in Deps
                                 /\ Current.dep = Overridden(queue[1].dep)
                                 /\ Current.parent = queue[1].parent
                                 /\ Current.parent \in DOMAIN packages
                                 /\ Wants(Current.parent, queue[1].dep)
<1>1. WorldOK /\ queue \in Seq(Requests)
  BY DEF GraphInv, Types, TypeOK
<1>2. Len(root) \in Nat
  <2>1. root \in Seq([dep : Deps, dev : BOOLEAN])
    BY <1>1 DEF WorldOK
  <2> QED
    BY <2>1, LenProperties
<1>3. /\ 1 \in DOMAIN queue /\ queue[1] \in Requests
      /\ Current.parent = queue[1].parent /\ Current.direct = queue[1].direct
      /\ Current.dev = queue[1].dev
      /\ Current.dep = IF queue[1].direct THEN queue[1].dep ELSE Overridden(queue[1].dep)
  BY <1>1, QueueParts, CurrentParts
<1>4. CASE m < Len(root)
  <2>1. queue[1] = rootResolutionRequests[m + 1] /\ m + 1 \in 1 .. Len(root)
    BY <1>2, <1>3, <1>4 DEF Looked
  <2>2. queue[1] = Request(root[m + 1].dep, NoParent, 0, TRUE, root[m + 1].dev)
    BY <1>1, <2>1, RootRequests
  <2>3. queue[1].direct /\ queue[1].dep = root[m + 1].dep /\ queue[1].dev = root[m + 1].dev
    BY <2>2 DEF Request
  <2> QED
    BY <1>2, <1>3, <1>4, <2>1, <2>3 DEF RootNode, Name
<1>5. CASE m = Len(root)
  <2>1. ~queue[1].direct
    BY <1>2, <1>3, <1>5 DEF Looked
  <2>2. queue[1].parent \in DOMAIN packages /\ Wants(queue[1].parent, queue[1].dep)
    BY <1>3, <2>1 DEF GraphInv, Asked
  <2>3. queue[1].dep \in Deps
    BY <1>3 DEF Requests
  <2> QED
    BY <1>2, <1>3, <1>5, <2>1, <2>2, <2>3
<1> QED
  BY <1>2, <1>4, <1>5

\* Nothing outside of the traversal changes, and neither does the closure.
LEMMA SameClosure ==
    ASSUME UNCHANGED world
    PROVE  /\ root' = root /\ canon' = canon /\ manifests' = manifests
           /\ Closure' = Closure /\ (Consistent' <=> Consistent)
           /\ rootResolutionRequests' = rootResolutionRequests
           /\ \A d : Required(d)' = Required(d)
           /\ \A i : RootNode(i)' = RootNode(i)
<1>1. /\ root' = root /\ manifests' = manifests /\ canon' = canon /\ overrides' = overrides
      /\ update' = update
  BY DEF world
<1>2. DirectNodes' = DirectNodes /\ Nodes' = Nodes
  BY <1>1 DEF DirectNodes, Nodes
<1>3. \A d : Overridden(d)' = Overridden(d)
  BY <1>1 DEF Overridden, Followed, Replaced
<1>4. \A d : Required(d)' = Required(d)
  BY <1>1, <1>2, <1>3 DEF Required
<1>5. \A x : Needs(x)' = Needs(x)
  <2>1. \A con : NodeCommit(con)' = NodeCommit(con)
    BY <1>1 DEF NodeCommit
  <2> QED
    BY <1>1, <1>4, <2>1 DEF Needs
<1>6. \A s : Closed(s)' <=> Closed(s)
  BY <1>2, <1>5 DEF Closed
<1>7. Closure' = Closure
  BY <1>2, <1>6 DEF Closure
<1>8. Consistent' <=> Consistent
  BY <1>7 DEF Consistent
<1>9. \A i : RootNode(i)' = RootNode(i)
  BY <1>1 DEF RootNode
<1>10. rootResolutionRequests' = rootResolutionRequests
  BY <1>1 DEF rootResolutionRequests
<1> QED
  BY <1>1, <1>4, <1>7, <1>8, <1>9, <1>10

\* What a merge and a new package do to the nodes of the graph and to the marks
\* of the direct dependencies.
LEMMA NodesStep ==
    ASSUME GraphInv, Merging \/ AddPackage
    PROVE  /\ \A k \in DOMAIN packages :
                 /\ k \in DOMAIN packages' /\ PackageNode(k)' = PackageNode(k)
                 /\ packages'[k].name = packages[k].name
           /\ Merging => DOMAIN packages' = DOMAIN packages
           /\ AddPackage => /\ DOMAIN packages' = DOMAIN packages \union {NewKey}
                            /\ packages'[NewKey].con = Current.dep.con
                            /\ packages'[NewKey].name = Name
                            /\ packages'[NewKey].transitive = ~Current.direct
                            /\ packages'[NewKey].kind = dependencyKind(Current.dep, Current.dev)
                            /\ packages'[NewKey].commit = NewCommit
                            /\ \A k \in DOMAIN packages : /\ k # NewKey
                                                          /\ packages[k].name # Name
                                                          /\ packages'[k].transitive = packages[k].transitive
                                                          /\ packages'[k].kind = packages[k].kind
<1>1. \A k \in DOMAIN packages :
         /\ k \in DOMAIN packages' /\ PackageNode(k)' = PackageNode(k)
         /\ packages'[k].name = packages[k].name
  BY WantsStep DEF PackageNode
<1>2. Merging => DOMAIN packages' = DOMAIN packages
  BY MergeEffect
<1>3. ASSUME AddPackage
      PROVE  /\ DOMAIN packages' = DOMAIN packages \union {NewKey}
             /\ packages'[NewKey].con = Current.dep.con
             /\ packages'[NewKey].name = Name
             /\ packages'[NewKey].transitive = ~Current.direct
             /\ packages'[NewKey].kind = dependencyKind(Current.dep, Current.dev)
             /\ packages'[NewKey].commit = NewCommit
             /\ \A k \in DOMAIN packages : /\ k # NewKey
                                           /\ packages[k].name # Name
                                           /\ packages'[k].transitive = packages[k].transitive
                                           /\ packages'[k].kind = packages[k].kind
  <2>1. packages'[NewKey] =
           [con |-> Current.dep.con, name |-> Name, commit |-> NewCommit,
            kind |-> dependencyKind(Current.dep, Current.dev), transitive |-> ~Current.direct,
            requiredBy |-> {Current.parent} \ {NoParent}, dependencies |-> {}]
    BY <1>3, AddEffect
  <2>2. /\ packages'[NewKey].name = Name /\ packages'[NewKey].con = Current.dep.con
        /\ packages'[NewKey].transitive = ~Current.direct
        /\ packages'[NewKey].kind = dependencyKind(Current.dep, Current.dev)
        /\ packages'[NewKey].commit = NewCommit
    BY <2>1
  <2>4. NewKey \notin DOMAIN packages /\ Name \notin DOMAIN canonicalKeys
    BY <1>3, NewTypes
  <2>5. \A k \in DOMAIN packages : packages[k].name # Name
    BY <2>4 DEF GraphInv, Names
  <2>6. /\ DOMAIN packages' = DOMAIN packages \union {NewKey}
        /\ \A k \in DOMAIN packages : /\ packages'[k].transitive = packages[k].transitive
                                      /\ packages'[k].kind = packages[k].kind
    BY <1>3, AddEffect
  <2> QED
    BY <2>2, <2>4, <2>5, <2>6
<1> QED
  BY <1>1, <1>2, <1>3

\* What is left of the queue.
LEMMA QueueStep ==
    ASSUME GraphInv, Merging \/ AddPackage
    PROVE  /\ queue # <<>> /\ Len(queue) \in Nat /\ Len(queue) > 0
           /\ DOMAIN queue = 1 .. Len(queue)
           /\ Len(queue') \in Nat /\ Len(queue) - 1 <= Len(queue')
           /\ DOMAIN queue' = 1 .. Len(queue')
           /\ \A i \in 1 .. Len(queue) - 1 : queue'[i] = queue[i + 1]
           /\ \A i \in DOMAIN queue' : i > Len(queue) - 1 => ~queue'[i].direct
<1>1. queue # <<>> /\ queue \in Seq(Requests)
  BY DEF Merging, AddPackage, Unknown, Usable, Looping, GraphInv, Types, TypeOK
<1>2. Len(queue) \in Nat /\ Len(queue) > 0 /\ DOMAIN queue = 1 .. Len(queue)
  BY <1>1, QueueParts, LenProperties
<1>3. CASE Merging
  <2>1. queue' = Tail(queue)
    BY <1>3 DEF Merging
  <2>2. /\ Len(Tail(queue)) = Len(queue) - 1 /\ DOMAIN Tail(queue) = 1 .. Len(Tail(queue))
        /\ \A i \in 1 .. Len(queue) - 1 : Tail(queue)[i] = queue[i + 1]
    BY <1>1, QueueParts, LenProperties
  <2> QED
    BY <1>1, <1>2, <2>1, <2>2
<1>4. CASE AddPackage
  <2>1. /\ queue' \in Seq(Requests) /\ Len(Wanted) \in Nat
        /\ Len(queue') = Len(queue) - 1 + Len(Wanted)
        /\ \A i \in 1 .. Len(queue) - 1 : queue'[i] = queue[i + 1]
        /\ \A i \in 1 .. Len(Wanted) :
              queue'[Len(queue) - 1 + i] =
                  Request(Wanted[i], NewKey, Current.depth + 1, FALSE, FALSE)
    BY <1>4, AddQueue
  <2>2. DOMAIN queue' = 1 .. Len(queue')
    BY <2>1, LenProperties
  <2>3. ASSUME NEW i \in DOMAIN queue', i > Len(queue) - 1
        PROVE  ~queue'[i].direct
    <3> DEFINE j == i - (Len(queue) - 1)
    <3>1. j \in 1 .. Len(Wanted) /\ i = Len(queue) - 1 + j
      BY <1>2, <2>1, <2>2, <2>3
    <3> HIDE DEF j
    <3>2. queue'[i] = Request(Wanted[j], NewKey, Current.depth + 1, FALSE, FALSE)
      BY <2>1, <3>1
    <3> QED
      BY <3>2 DEF Request
  <2> QED
    BY <1>1, <1>2, <2>1, <2>2, <2>3
<1> QED
  BY <1>3, <1>4

\* The next dependency of the project is looked at, if one is left.
LEMMA LookedQueue ==
    ASSUME GraphInv, Merging \/ AddPackage, NEW m \in 0 .. Len(root), Looked(m),
           NEW n \in 0 .. Len(root), n = IF Current.direct THEN m + 1 ELSE m
    PROVE  /\ Len(root) - n <= Len(queue')
           /\ \A i \in DOMAIN queue' :
                 IF i <= Len(root) - n THEN queue'[i] = rootResolutionRequests[n + i]
                 ELSE ~queue'[i].direct
<1>1. /\ Len(queue) \in Nat /\ Len(queue) > 0 /\ DOMAIN queue = 1 .. Len(queue)
      /\ Len(queue') \in Nat /\ Len(queue) - 1 <= Len(queue') /\ DOMAIN queue' = 1 .. Len(queue')
      /\ queue # <<>>
  BY QueueStep
<1>2. Len(root) \in Nat /\ (Current.direct <=> m < Len(root)) /\ (~Current.direct => m = Len(root))
  BY <1>1, HeadCases
<1>3. Len(root) - n <= Len(queue) - 1 /\ (m < Len(root) => n = m + 1) /\ (m = Len(root) => n = m)
  <2>1. Len(root) - m <= Len(queue)
    BY DEF Looked
  <2> QED
    BY <1>1, <1>2, <2>1
<1>5. /\ \A i \in 1 .. Len(queue) - 1 : queue'[i] = queue[i + 1]
      /\ \A i \in DOMAIN queue' : i > Len(queue) - 1 => ~queue'[i].direct
  BY QueueStep
<1>4. ASSUME NEW i \in DOMAIN queue'
      PROVE  IF i <= Len(root) - n THEN queue'[i] = rootResolutionRequests[n + i]
             ELSE ~queue'[i].direct
  <2>1. CASE i <= Len(root) - n
    <3>1. /\ i \in 1 .. Len(queue) - 1 /\ i + 1 \in DOMAIN queue /\ i + 1 <= Len(root) - m
          /\ m + (i + 1) = n + i
      <4>1. i \in Nat /\ i >= 1 /\ m \in Nat /\ m <= Len(root)
        BY <1>1, <1>2
      <4>2. n = m + 1
        <5>1. m # Len(root)
          BY <1>2, <1>3, <2>1, <4>1
        <5> QED
          BY <1>2, <1>3, <4>1, <5>1
      <4>3. i <= Len(queue) - 1
        BY <1>1, <1>2, <1>3, <2>1, <4>1, <4>2
      <4>4. Len(queue) \in Nat /\ DOMAIN queue = 1 .. Len(queue) /\ Len(root) \in Nat
        BY <1>1, <1>2
      <4>5. i \in 1 .. Len(queue) - 1 /\ i + 1 \in DOMAIN queue
        BY <4>1, <4>3, <4>4
      <4>6. i + 1 <= Len(root) - m
        BY <2>1, <4>1, <4>2, <4>4
      <4>7. m + (i + 1) = n + i
        BY <4>1, <4>2
      <4> QED
        BY <4>5, <4>6, <4>7
    <3>2. queue[i + 1] = rootResolutionRequests[m + (i + 1)]
      BY <3>1 DEF Looked
    <3> QED
      BY <1>5, <2>1, <3>1, <3>2
  <2>2. CASE i > Len(root) - n /\ i <= Len(queue) - 1
    <3>1. i \in 1 .. Len(queue) - 1 /\ i + 1 \in DOMAIN queue /\ ~ (i + 1 <= Len(root) - m)
      BY <1>1, <1>2, <1>3, <2>2
    <3>2. ~queue[i + 1].direct
      BY <3>1 DEF Looked
    <3>3. ~ (i <= Len(root) - n)
      BY <1>1, <1>2, <2>2
    <3> QED
      BY <1>5, <3>1, <3>2, <3>3
  <2>3. CASE i > Len(queue) - 1
    <3>1. ~ (i <= Len(root) - n)
      BY <1>1, <1>2, <1>3, <2>3
    <3> QED
      BY <1>5, <2>3, <3>1
  <2> QED
    BY <1>1, <1>2, <2>1, <2>2, <2>3
<1> QED
  BY <1>1, <1>2, <1>3, <1>4

\* A name is that of one package.
LEMMA OneName ==
    ASSUME GraphInv, NEW j \in DOMAIN packages, NEW k \in DOMAIN packages,
           packages[j].name = packages[k].name
    PROVE  j = k
BY DEF GraphInv, Names

\* The marks of the direct dependencies through a merge.
LEMMA LookedMerge ==
    ASSUME GraphInv, Merging, NEW m \in 0 .. Len(root), Looked(m)
    PROVE  \E n \in 0 .. Len(root) : Looked(n)'
<1>0. PICK n \in {m, m + 1} : n = IF Current.direct THEN m + 1 ELSE m
  OBVIOUS
<1>1. /\ queue # <<>> /\ Place \in DOMAIN packages /\ packages[Place].name = Name
      /\ ~constraintsConflict(Place, Current)
  BY DEF Merging, Usable, Looping
<1>2. /\ Len(root) \in Nat /\ (Current.direct <=> m < Len(root))
      /\ Current.direct => /\ m + 1 \in 1 .. Len(root)
                           /\ Current.dep = root[m + 1].dep /\ Current.dev = root[m + 1].dev
                           /\ RootNode(m + 1) = <<Name, Current.dep.con>>
      /\ ~Current.direct => m = Len(root)
  BY <1>1, HeadCases
<1>3. n \in 0 .. Len(root)
  BY <1>0, <1>2
<1>4. /\ Len(root) - n <= Len(queue')
      /\ \A i \in DOMAIN queue' :
            IF i <= Len(root) - n THEN queue'[i] = rootResolutionRequests[n + i]
            ELSE ~queue'[i].direct
  BY <1>0, <1>3, LookedQueue
<1>5. /\ root' = root /\ rootResolutionRequests' = rootResolutionRequests
      /\ \A i : RootNode(i)' = RootNode(i)
  BY Unmoved, SameClosure
<1>6. DOMAIN packages' = DOMAIN packages
  BY MergeEffect
<1>7. \A k \in DOMAIN packages :
         /\ PackageNode(k)' = PackageNode(k) /\ packages'[k].name = packages[k].name
         /\ packages'[k].transitive = packages[k].transitive
         /\ packages'[k].kind = IF k = Place /\ Current.direct
                                THEN dependencyKind(Current.dep, Current.dev)
                                ELSE packages[k].kind
  <2> SUFFICES ASSUME NEW k \in DOMAIN packages
               PROVE  packages'[k].transitive = packages[k].transitive
    BY NodesStep, MergeEffect
  <2>1. packages[k].transitive \in BOOLEAN /\ Current.direct \in BOOLEAN
    BY <1>1, RequestTypes DEF GraphInv, Types, TypedPackages, Packages, Requests
  <2>2. CASE Current.direct
    <3>1. ~packages[k].transitive
      BY <1>2, <2>2 DEF Looked
    <3>2. packages'[k].transitive = IF k = Place THEN packages[k].transitive /\ ~Current.direct
                                    ELSE packages[k].transitive
      BY MergeEffect
    <3> QED
      BY <2>1, <3>1, <3>2
  <2>3. CASE ~Current.direct
    <3>1. packages'[k].transitive = IF k = Place THEN packages[k].transitive /\ ~Current.direct
                                    ELSE packages[k].transitive
      BY MergeEffect
    <3> QED
      BY <2>1, <2>3, <3>1
  <2> QED
    BY <2>2, <2>3
<1>8. Current.direct => ~packages[Place].transitive /\ PackageNode(Place) = <<Name, Current.dep.con>>
  <2>1. ASSUME Current.direct
        PROVE  packages[Place].con = Current.dep.con
    BY <1>1, <2>1 DEF constraintsConflict
  <2> QED
    BY <1>1, <1>2, <2>1 DEF PackageNode, Looked
<1>9. ASSUME NEW i \in 1 .. n
      PROVE  \E k \in DOMAIN packages' : ~packages'[k].transitive /\ PackageNode(k)' = RootNode(i)
  <2>1. CASE i \in 1 .. m
    <3>1. PICK k \in DOMAIN packages : ~packages[k].transitive /\ PackageNode(k) = RootNode(i)
      BY <2>1 DEF Looked, Met
    <3> QED
      BY <1>6, <1>7, <3>1
  <2>2. CASE i = m + 1 /\ Current.direct
    <3>1. ~packages'[Place].transitive /\ \E k \in DOMAIN packages : k = Place /\ PackageNode(k)' = RootNode(i)
      BY <1>1, <1>0, <1>2, <1>7, <1>8, <2>2
    <3> QED
      BY <1>6, <3>1
  <2> QED
    BY <1>0, <1>2, <2>1, <2>2
<1>10. n < Len(root) => \A k \in DOMAIN packages' : ~packages'[k].transitive
  <2>1. n < Len(root) => m < Len(root)
    BY <1>0, <1>2
  <2> QED
    BY <1>6, <1>7, <2>1 DEF Looked
<1>11. ASSUME NEW k \in DOMAIN packages', ~packages'[k].transitive
       PROVE  /\ \E i \in 1 .. n : k = dependencyKey(root[i].dep) /\ RootNode(i) = PackageNode(k)
              /\ \E i \in 1 .. n :
                    /\ RootNode(i) = PackageNode(k)
                    /\ packages'[k].kind = dependencyKind(root[i].dep, root[i].dev)
                    /\ \A j \in i + 1 .. n : RootNode(j)[1] # packages[k].name
  <2>1. k \in DOMAIN packages /\ OfTheProject(k, m)
    BY <1>6, <1>7, <1>11 DEF Looked
  <2>2. PICK i \in 1 .. m : k = dependencyKey(root[i].dep) /\ RootNode(i) = PackageNode(k)
    BY <2>1 DEF OfTheProject
  <2>3. i \in 1 .. n
    BY <1>0, <1>2
  <2>4. CASE k = Place /\ Current.direct
    <3>1. /\ m + 1 \in 1 .. n /\ RootNode(m + 1) = PackageNode(k)
          /\ packages'[k].kind = dependencyKind(root[m + 1].dep, root[m + 1].dev)
          /\ ~ \E j \in (m + 1) + 1 .. n : TRUE
      BY <1>0, <1>2, <1>7, <1>8, <2>1, <2>4
    <3> QED
      BY <2>2, <2>3, <3>1
  <2>5. CASE ~ (k = Place /\ Current.direct)
    <3>1. PICK l \in 1 .. m : /\ RootNode(l) = PackageNode(k)
                              /\ packages[k].kind = dependencyKind(root[l].dep, root[l].dev)
                              /\ \A j \in l + 1 .. m : RootNode(j)[1] # packages[k].name
      BY <2>1 DEF OfTheProject
    <3>2. packages'[k].kind = packages[k].kind
      BY <1>7, <2>1, <2>5
    <3>3. ASSUME NEW j \in l + 1 .. n
          PROVE  RootNode(j)[1] # packages[k].name
      <4>1. CASE j \in l + 1 .. m
        BY <3>1, <4>1
      <4>2. CASE j = m + 1 /\ Current.direct
        <5>1. k # Place /\ RootNode(j)[1] = Name
          BY <1>0, <1>2, <2>5, <4>2
        <5> QED
          BY <1>1, <2>1, <5>1, OneName
      <4> QED
        BY <1>0, <1>2, <4>1, <4>2
    <3>4. l \in 1 .. n
      BY <1>0, <1>2
    <3> QED
      BY <2>2, <2>3, <3>1, <3>2, <3>3, <3>4
  <2> QED
    BY <2>4, <2>5
<1>12. \A k \in DOMAIN packages' : ~packages'[k].transitive => OfTheProject(k, n)'
  BY <1>5, <1>6, <1>7, <1>11 DEF OfTheProject
<1>13. \A i \in 1 .. n : Met(i)'
  BY <1>5, <1>9 DEF Met
<1>14. Looked(n)'
  BY <1>4, <1>5, <1>10, <1>12, <1>13 DEF Looked
<1> QED
  BY <1>3, <1>5, <1>14

\* The marks of the direct dependencies through a new package.
LEMMA LookedAdd ==
    ASSUME GraphInv, AddPackage, NEW m \in 0 .. Len(root), Looked(m)
    PROVE  \E n \in 0 .. Len(root) : Looked(n)'
<1>0. PICK n \in {m, m + 1} : n = IF Current.direct THEN m + 1 ELSE m
  OBVIOUS
<1>1. queue # <<>>
  BY NewTypes
<1>2. /\ Len(root) \in Nat /\ (Current.direct <=> m < Len(root))
      /\ Current.direct => /\ m + 1 \in 1 .. Len(root)
                           /\ Current.dep = root[m + 1].dep /\ Current.dev = root[m + 1].dev
                           /\ RootNode(m + 1) = <<Name, Current.dep.con>>
      /\ ~Current.direct => m = Len(root)
  BY <1>1, HeadCases
<1>3. n \in 0 .. Len(root) /\ (Current.direct => n = m + 1) /\ (~Current.direct => n = m)
  BY <1>0, <1>2
<1>4. /\ Len(root) - n <= Len(queue')
      /\ \A i \in DOMAIN queue' :
            IF i <= Len(root) - n THEN queue'[i] = rootResolutionRequests[n + i]
            ELSE ~queue'[i].direct
  BY <1>0, <1>3, LookedQueue
<1>5. /\ root' = root /\ rootResolutionRequests' = rootResolutionRequests
      /\ \A i : RootNode(i)' = RootNode(i)
  BY Unmoved, SameClosure
<1>6. /\ DOMAIN packages' = DOMAIN packages \union {NewKey}
      /\ packages'[NewKey].con = Current.dep.con /\ packages'[NewKey].name = Name
      /\ packages'[NewKey].transitive = ~Current.direct
      /\ packages'[NewKey].kind = dependencyKind(Current.dep, Current.dev)
      /\ NewKey = dependencyKey(Current.dep)
  BY NodesStep DEF NewKey
<1>7. \A k \in DOMAIN packages :
         /\ k # NewKey /\ packages[k].name # Name
         /\ PackageNode(k)' = PackageNode(k) /\ packages'[k].name = packages[k].name
         /\ packages'[k].transitive = packages[k].transitive
         /\ packages'[k].kind = packages[k].kind
  BY NodesStep
<1>8. ASSUME NEW i \in 1 .. n
      PROVE  \E k \in DOMAIN packages' : ~packages'[k].transitive /\ PackageNode(k)' = RootNode(i)
  <2>1. CASE i \in 1 .. m
    <3>1. PICK k \in DOMAIN packages : ~packages[k].transitive /\ PackageNode(k) = RootNode(i)
      BY <2>1 DEF Looked, Met
    <3> QED
      BY <1>6, <1>7, <3>1
  <2>2. CASE i = m + 1 /\ Current.direct
    <3>1. /\ ~packages'[NewKey].transitive
          /\ <<packages'[NewKey].name, packages'[NewKey].con>> = RootNode(i)
      BY <1>2, <1>6, <2>2
    <3> QED
      BY <1>6, <3>1 DEF PackageNode
  <2> QED
    BY <1>2, <1>3, <2>1, <2>2
<1>9. n < Len(root) => \A k \in DOMAIN packages' : ~packages'[k].transitive
  <2>1. n < Len(root) => m < Len(root) /\ Current.direct
    BY <1>2, <1>3
  <2> QED
    BY <1>6, <1>7, <2>1 DEF Looked
<1>10. ASSUME NEW k \in DOMAIN packages', ~packages'[k].transitive
       PROVE  /\ \E i \in 1 .. n : k = dependencyKey(root[i].dep) /\ RootNode(i) = PackageNode(k)'
              /\ \E i \in 1 .. n :
                    /\ RootNode(i) = PackageNode(k)'
                    /\ packages'[k].kind = dependencyKind(root[i].dep, root[i].dev)
                    /\ \A j \in i + 1 .. n : RootNode(j)[1] # packages'[k].name
  <2>1. CASE k = NewKey
    <3>1. Current.direct /\ n = m + 1
      BY <1>3, <1>6, <1>10, <2>1
    <3>2. /\ m + 1 \in 1 .. n /\ k = dependencyKey(root[m + 1].dep)
          /\ RootNode(m + 1) = <<packages'[k].name, packages'[k].con>>
          /\ packages'[k].kind = dependencyKind(root[m + 1].dep, root[m + 1].dev)
          /\ ~ \E j \in (m + 1) + 1 .. n : TRUE
      BY <1>2, <1>6, <2>1, <3>1
    <3> QED
      BY <3>2 DEF PackageNode
  <2>2. CASE k \in DOMAIN packages
    <3>1. OfTheProject(k, m)
      BY <1>7, <1>10, <2>2 DEF Looked
    <3>2. PICK i \in 1 .. m : k = dependencyKey(root[i].dep) /\ RootNode(i) = PackageNode(k)
      BY <3>1 DEF OfTheProject
    <3>3. PICK l \in 1 .. m : /\ RootNode(l) = PackageNode(k)
                              /\ packages[k].kind = dependencyKind(root[l].dep, root[l].dev)
                              /\ \A j \in l + 1 .. m : RootNode(j)[1] # packages[k].name
      BY <3>1 DEF OfTheProject
    <3>4. i \in 1 .. n /\ l \in 1 .. n
      BY <1>2, <1>3
    <3>5. ASSUME NEW j \in l + 1 .. n
          PROVE  RootNode(j)[1] # packages[k].name
      <4>1. CASE j \in l + 1 .. m
        BY <3>3, <4>1
      <4>2. CASE j = m + 1 /\ Current.direct
        <5>1. RootNode(j)[1] = Name
          BY <1>2, <4>2
        <5> QED
          BY <1>7, <2>2, <5>1
      <4> QED
        BY <1>2, <1>3, <4>1, <4>2
    <3> QED
      BY <1>7, <2>2, <3>2, <3>3, <3>4, <3>5
  <2> QED
    BY <1>6, <2>1, <2>2
<1>11. \A k \in DOMAIN packages' : ~packages'[k].transitive => OfTheProject(k, n)'
  BY <1>5, <1>10 DEF OfTheProject
<1>12. \A i \in 1 .. n : Met(i)'
  BY <1>5, <1>8 DEF Met
<1>13. Looked(n)'
  BY <1>4, <1>5, <1>9, <1>11, <1>12 DEF Looked
<1> QED
  BY <1>3, <1>13

\* Once the project's dependencies are met, a request for a repository of theirs
\* comes to one of them, and any other to what it asks for.
LEMMA Decided ==
    ASSUME GraphInv, queue # <<>>, NEW m \in 0 .. Len(root), Looked(m), ~Current.direct
    PROVE  /\ queue[1].dep \in Deps
           /\ \A n \in DirectNodes : \E k \in DOMAIN packages :
                 ~packages[k].transitive /\ PackageNode(k) = n
           /\ (\A k \in DOMAIN packages : packages[k].name = Name => packages[k].transitive)
                 => Required(queue[1].dep) = {<<Name, Current.dep.con>>}
           /\ \A k \in DOMAIN packages : packages[k].name = Name /\ ~packages[k].transitive
                 => Required(queue[1].dep) \subseteq DirectNodes
           /\ \A n \in Required(queue[1].dep) : n[1] = Name
<1>1. /\ m = Len(root) /\ queue[1].dep \in Deps /\ Current.dep = Overridden(queue[1].dep)
      /\ WorldOK
  BY HeadCases DEF GraphInv, Types
<1>2. canon[Overridden(queue[1].dep).id] = Name
  BY <1>1 DEF Name
<1>3. DirectNodes = {RootNode(i) : i \in 1 .. Len(root)}
  BY <1>1, RequiredCases
<1>4. \A n \in DirectNodes : \E k \in DOMAIN packages : ~packages[k].transitive /\ PackageNode(k) = n
  BY <1>1, <1>3 DEF Looked, Met
<1>5. ASSUME NEW k \in DOMAIN packages, ~packages[k].transitive
      PROVE  PackageNode(k) \in DirectNodes
  BY <1>1, <1>3, <1>5 DEF Looked, OfTheProject
<1>6. \A k \in DOMAIN packages : PackageNode(k)[1] = packages[k].name
  BY DEF PackageNode
<1>7. (\A n \in DirectNodes : n[1] # Name) => Required(queue[1].dep) = {<<Name, Current.dep.con>>}
  BY <1>1, <1>2, RequiredCases
<1>8. (\E n \in DirectNodes : n[1] = Name) => Required(queue[1].dep) \subseteq DirectNodes
  BY <1>1, <1>2, RequiredCases
<1>9. \A n \in Required(queue[1].dep) : n[1] = Name
  BY <1>1, <1>2, RequiredCases
<1> QED
  BY <1>1, <1>4, <1>5, <1>6, <1>7, <1>8, <1>9

\* The node of a new package is one of the closure.
LEMMA NewNode ==
    ASSUME GraphInv, CommitsRight, Sound, AddPackage, NEW m \in 0 .. Len(root), Looked(m)
    PROVE  <<Name, Current.dep.con>> \in Closure
<1>1. queue # <<>> /\ WorldOK /\ \A k \in DOMAIN packages : packages[k].name # Name
  BY NewTypes, NodesStep DEF GraphInv, Types
<1>2. CASE Current.direct
  <2>1. m + 1 \in 1 .. Len(root) /\ RootNode(m + 1) = <<Name, Current.dep.con>>
    BY <1>1, <1>2, HeadCases
  <2>2. root[m + 1].dep \in Deps
    BY <1>1, <2>1, RootRequests
  <2>3. RootNode(m + 1) \in DirectNodes
    BY <1>1, <2>1, <2>2, RequiredCases
  <2> QED
    BY <1>1, <2>1, <2>3, ClosureFacts
<1>3. CASE ~Current.direct
  <2>1. Current.parent \in DOMAIN packages /\ Wants(Current.parent, queue[1].dep)
    BY <1>1, <1>3, HeadCases
  <2>2. Required(queue[1].dep) = {<<Name, Current.dep.con>>}
    BY <1>1, <1>3, Decided
  <2>3. Required(queue[1].dep) \subseteq Needs(PackageNode(Current.parent))
    BY <2>1, WantsNeeds
  <2> QED
    BY <1>1, <2>1, <2>2, <2>3, ClosureFacts DEF Sound
<1> QED
  BY <1>2, <1>3

\* What the head of the queue asks for is in the graph after it.
LEMMA Settled ==
    ASSUME GraphInv, Merging \/ AddPackage, NEW m \in 0 .. Len(root), Looked(m), ~Current.direct
    PROVE  Required(queue[1].dep) \subseteq {<<packages'[j].name, packages'[j].con>> : j \in DOMAIN packages'}
<1>1. queue # <<>>
  BY QueueStep
<1>2. \A k \in DOMAIN packages : /\ k \in DOMAIN packages' /\ packages'[k].name = packages[k].name
                                 /\ packages'[k].con = packages[k].con
  BY WantsStep
<1>3. \A n \in DirectNodes : n \in {<<packages'[j].name, packages'[j].con>> : j \in DOMAIN packages'}
  BY <1>1, <1>2, Decided DEF PackageNode
<1>4. CASE Merging
  <2>1. Place \in DOMAIN packages /\ packages[Place].name = Name /\ ~constraintsConflict(Place, Current)
    BY <1>4 DEF Merging
  <2>2. CASE packages[Place].transitive
    <3>1. packages[Place].con = Current.dep.con
      BY <2>1, <2>2 DEF constraintsConflict
    <3>2. Required(queue[1].dep) = {<<Name, Current.dep.con>>}
      BY <1>1, <2>1, <2>2, Decided, OneName
    <3>3. <<Name, Current.dep.con>> = <<packages'[Place].name, packages'[Place].con>>
      BY <1>2, <2>1, <3>1
    <3> QED
      BY <1>2, <2>1, <3>2, <3>3
  <2>3. CASE ~packages[Place].transitive
    BY <1>1, <1>3, <2>1, <2>3, Decided
  <2> QED
    BY <2>2, <2>3
<1>5. CASE AddPackage
  <2>1. Required(queue[1].dep) = {<<Name, Current.dep.con>>}
    BY <1>1, <1>5, Decided, NodesStep
  <2>2. /\ NewKey \in DOMAIN packages' /\ packages'[NewKey].name = Name
        /\ packages'[NewKey].con = Current.dep.con
    BY <1>5, NodesStep
  <2> QED
    BY <2>1, <2>2
<1> QED
  BY <1>4, <1>5

\* No node leaves the closure.
LEMMA SoundStep ==
    ASSUME GraphInv, CommitsRight, Sound, Merging \/ AddPackage,
           NEW m \in 0 .. Len(root), Looked(m)
    PROVE  Sound'
<1>1. Closure' = Closure
  BY Unmoved, SameClosure
<1>2. \A k \in DOMAIN packages : PackageNode(k)' \in Closure
  BY NodesStep DEF Sound
<1>3. CASE Merging
  BY <1>1, <1>2, <1>3, NodesStep DEF Sound
<1>4. CASE AddPackage
  <2>1. <<packages'[NewKey].name, packages'[NewKey].con>> \in Closure
    BY <1>4, NewNode, NodesStep
  <2>2. DOMAIN packages' = DOMAIN packages \union {NewKey}
    BY <1>4, NodesStep
  <2> QED
    BY <1>1, <1>2, <2>1, <2>2 DEF Sound, PackageNode
<1> QED
  BY <1>3, <1>4

\* What a package wants is asked for until it is there.
LEMMA CompleteStep ==
    ASSUME GraphInv, Complete, Merging \/ AddPackage, NEW m \in 0 .. Len(root), Looked(m)
    PROVE  Complete'
<1>1. /\ queue # <<>> /\ Len(queue) \in Nat /\ Len(queue) > 0 /\ DOMAIN queue = 1 .. Len(queue)
      /\ Len(queue') \in Nat /\ Len(queue) - 1 <= Len(queue') /\ DOMAIN queue' = 1 .. Len(queue')
      /\ \A i \in 1 .. Len(queue) - 1 : queue'[i] = queue[i + 1]
  BY QueueStep
<1>2. (\A d : Required(d)' = Required(d)) /\ manifests' = manifests
  BY Unmoved, SameClosure
<1>3. \A k \in DOMAIN packages : /\ k \in DOMAIN packages' /\ packages'[k].name = packages[k].name
                                 /\ packages'[k].con = packages[k].con
                                 /\ packages'[k].commit = packages[k].commit
  BY WantsStep
<1> DEFINE nodes == {<<packages'[j].name, packages'[j].con>> : j \in DOMAIN packages'}
<1>4. {PackageNode(j) : j \in DOMAIN packages} \subseteq nodes
  BY <1>3 DEF PackageNode
<1>5. ASSUME NEW k \in DOMAIN packages, NEW d \in Deps, Wants(k, d)
      PROVE  \/ \E i \in DOMAIN queue' : ~queue'[i].direct /\ queue'[i].parent = k /\ queue'[i].dep = d
             \/ Required(d) \subseteq nodes
  <2>1. CASE Required(d) \subseteq {PackageNode(j) : j \in DOMAIN packages}
    BY <1>4, <2>1
  <2>2. CASE Pending(k, d)
    <3>1. PICK i \in DOMAIN queue : ~queue[i].direct /\ queue[i].parent = k /\ queue[i].dep = d
      BY <2>2 DEF Pending
    <3>2. CASE i = 1
      <4>1. queue \in Seq(Requests) /\ WorldOK
        BY DEF GraphInv, Types, TypeOK
      <4>2. ~Current.direct
        BY <1>1, <3>1, <3>2, <4>1, CurrentParts
      <4> QED
        BY <3>1, <3>2, <4>2, Settled
    <3>3. CASE i # 1
      <4>1. i - 1 \in 1 .. Len(queue) - 1 /\ i - 1 \in DOMAIN queue' /\ (i - 1) + 1 = i
        BY <1>1, <3>3
      <4>2. queue'[i - 1] = queue[i]
        BY <1>1, <4>1
      <4> QED
        BY <3>1, <4>1, <4>2
    <3> QED
      BY <3>2, <3>3
  <2> QED
    BY <1>5, <2>1, <2>2 DEF Complete
<1>6. ASSUME AddPackage, NEW c \in DOMAIN Wanted
      PROVE  \E i \in DOMAIN queue' : /\ ~queue'[i].direct /\ queue'[i].parent = NewKey
                                      /\ queue'[i].dep = Wanted[c]
  <2>1. /\ Len(Wanted) \in Nat /\ DOMAIN Wanted = 1 .. Len(Wanted)
        /\ Len(queue') = Len(queue) - 1 + Len(Wanted)
        /\ queue'[Len(queue) - 1 + c] = Request(Wanted[c], NewKey, Current.depth + 1, FALSE, FALSE)
    BY <1>6, AddQueue
  <2>2. Len(queue) - 1 + c \in DOMAIN queue'
    BY <1>1, <2>1
  <2> QED
    BY <2>1, <2>2 DEF Request
<1>7. ASSUME NEW k \in DOMAIN packages', NEW d \in Deps,
             \E c \in DOMAIN manifests[<<packages'[k].name, packages'[k].commit>>] :
                manifests[<<packages'[k].name, packages'[k].commit>>][c] = d
      PROVE  \/ \E i \in DOMAIN queue' : ~queue'[i].direct /\ queue'[i].parent = k /\ queue'[i].dep = d
             \/ Required(d) \subseteq nodes
  <2>1. CASE k \in DOMAIN packages
    <3>1. Wants(k, d)
      BY <1>3, <1>7, <2>1 DEF Wants
    <3> QED
      BY <1>5, <2>1, <3>1
  <2>2. CASE k \notin DOMAIN packages
    <3>1. AddPackage /\ k = NewKey
      BY <2>2, NodesStep
    <3>2. packages'[k].name = Name /\ packages'[k].commit = NewCommit
      BY <3>1, NodesStep
    <3>3. \E c \in DOMAIN Wanted : Wanted[c] = d
      BY <1>7, <3>2 DEF Wanted
    <3> QED
      BY <1>6, <3>1, <3>3
  <2> QED
    BY <2>1, <2>2
<1> QED
  BY <1>2, <1>7 DEF Complete, Wants, Pending, PackageNode

\* A conflict is one of the closure.
LEMMA ConflictStep ==
    ASSUME GraphInv, CommitsRight, Sound, Conflicting, NEW m \in 0 .. Len(root), Looked(m)
    PROVE  ~Consistent
<1>1. /\ queue # <<>> /\ WorldOK
      /\ Place \in DOMAIN packages /\ packages[Place].name = Name
      /\ packages[Place].con # Current.dep.con
      /\ packages[Place].transitive \/ Current.direct
  BY DEF Conflicting, Usable, Looping, constraintsConflict, GraphInv, Types
<1>2. <<Name, Current.dep.con>> \in Closure
  <2>1. CASE Current.direct
    <3>1. m + 1 \in 1 .. Len(root) /\ RootNode(m + 1) = <<Name, Current.dep.con>>
      BY <1>1, <2>1, HeadCases
    <3>2. root[m + 1].dep \in Deps
      BY <1>1, <3>1, RootRequests
    <3>3. RootNode(m + 1) \in DirectNodes
      BY <1>1, <3>1, <3>2, RequiredCases
    <3> QED
      BY <1>1, <3>1, <3>3, ClosureFacts
  <2>2. CASE ~Current.direct
    <3>1. Current.parent \in DOMAIN packages /\ Wants(Current.parent, queue[1].dep)
      BY <1>1, <2>2, HeadCases
    <3>2. \A k \in DOMAIN packages : packages[k].name = Name => packages[k].transitive
      BY <1>1, <2>2, OneName
    <3>3. Required(queue[1].dep) = {<<Name, Current.dep.con>>}
      BY <1>1, <2>2, <3>2, Decided
    <3>4. Required(queue[1].dep) \subseteq Needs(PackageNode(Current.parent))
      BY <3>1, WantsNeeds
    <3> QED
      BY <1>1, <3>1, <3>3, <3>4, ClosureFacts DEF Sound
  <2> QED
    BY <2>1, <2>2
<1>3. PackageNode(Place) \in Closure
  BY <1>1 DEF Sound
<1>4. <<Name, packages[Place].con>> \in Closure
  BY <1>1, <1>3 DEF PackageNode
<1>5. <<Name, Current.dep.con>> # <<Name, packages[Place].con>>
  BY <1>1
<1> QED
  BY <1>2, <1>4, <1>5 DEF Consistent

LEMMA TowardsStep ==
    ASSUME GraphInv, CommitsRight, Towards, Merging \/ Conflicting \/ AddPackage \/ Ending
    PROVE  Towards'
<1>1. /\ root' = root /\ Closure' = Closure /\ (Consistent' <=> Consistent)
      /\ rootResolutionRequests' = rootResolutionRequests
      /\ canon' = canon /\ manifests' = manifests
      /\ \A d : Required(d)' = Required(d)
      /\ \A i : RootNode(i)' = RootNode(i)
  BY Unmoved, SameClosure
<1>2. PICK m \in 0 .. Len(root) : Looked(m)
  BY DEF Towards
<1>3. status = "running"
  BY PastStep
<1>4. CASE Merging \/ AddPackage
  <2>1. \E n \in 0 .. Len(root) : Looked(n)'
    BY <1>2, <1>4, LookedMerge, LookedAdd
  <2>2. Sound' /\ Complete'
    BY <1>2, <1>4, SoundStep, CompleteStep DEF Towards
  <2>3. status' = "running"
    BY <1>3, <1>4 DEF Merging, AddPackage
  <2> QED
    BY <1>1, <2>1, <2>2, <2>3 DEF Towards
<1>5. CASE Conflicting \/ Ending
  <2>1. queue' = queue /\ packages' = packages
    BY <1>5, EndingParts DEF traversal
  <2>2. Looked(m)'
    BY <1>1, <1>2, <2>1 DEF Looked, Met, PackageNode, OfTheProject
  <2>3. Sound' /\ Complete'
    BY <1>1, <2>1 DEF Towards, Sound, Complete, PackageNode, Wants, Pending
  <2>4. status' = "conflict" => ~Consistent
    BY <1>2, <1>5, EndingParts, ConflictStep DEF Towards
  <2>5. status' = "ok" => queue = <<>>
    BY <1>5 DEF Conflicting, Ending, RejectCycle, RejectDepth, RejectCount, Fail, Finish, Unknown,
                Usable, Looping, Stop
  <2> QED
    BY <1>1, <2>1, <2>2, <2>3, <2>4, <2>5 DEF Towards
<1> QED
  BY <1>4, <1>5

\* Nothing is looked at when a resolution begins.
LEMMA TowardsFresh == FreshState => Towards
<1> SUFFICES ASSUME FreshState
             PROVE  Towards
  OBVIOUS
<1>1. /\ WorldOK /\ queue = rootResolutionRequests /\ status = "running" /\ DOMAIN packages = {}
  BY DEF FreshState, EmptyFunction
<1>2. /\ Len(root) \in Nat /\ Len(queue) = Len(root) /\ DOMAIN queue = 1 .. Len(root)
  <2>1. root \in Seq([dep : Deps, dev : BOOLEAN])
    BY <1>1 DEF WorldOK
  <2>2. Len(root) \in Nat
    BY <2>1, LenProperties
  <2> QED
    BY <1>1, <2>2, RootRequests, LenProperties
<1>3. Looked(0)
  BY <1>1, <1>2 DEF Looked
<1> QED
  BY <1>1, <1>2, <1>3 DEF Towards, Sound, Complete

LEMMA TowardsNext ==
    ASSUME GraphInv, CommitsRight, Towards, [Next]_vars
    PROVE  Towards'
<1>1. CASE UNCHANGED vars
  <2>1. UNCHANGED <<world, queue, packages, status>>
    BY <1>1 DEF vars, traversal
  <2>2. /\ root' = root /\ Closure' = Closure /\ (Consistent' <=> Consistent)
        /\ rootResolutionRequests' = rootResolutionRequests
        /\ canon' = canon /\ manifests' = manifests
        /\ \A d : Required(d)' = Required(d)
        /\ \A i : RootNode(i)' = RootNode(i)
    BY <2>1, SameClosure
  <2>3. PICK m \in 0 .. Len(root) : Looked(m)
    BY DEF Towards
  <2>4. Looked(m)'
    BY <2>1, <2>2, <2>3 DEF Looked, Met, PackageNode, OfTheProject
  <2>5. Sound' /\ Complete'
    BY <2>1, <2>2 DEF Towards, Sound, Complete, PackageNode, Wants, Pending
  <2> QED
    BY <2>1, <2>2, <2>4, <2>5 DEF Towards
<1>2. CASE Again
  BY <1>2, AgainFresh, TowardsFresh, PTL
<1> QED
  BY <1>1, <1>2, StepCases, TowardsStep

\* The traversal stays on its way to the closure.
THEOREM TowardsInvariant == Spec => [](GraphInv /\ Replay /\ Towards)
<1>1. Init => GraphInv /\ Replay /\ Towards
  <2> SUFFICES ASSUME Init
               PROVE  GraphInv /\ Replay /\ Towards
    OBVIOUS
  <2>1. FreshState
    BY FS_EmptySet DEF Init, InitResolve, FreshState, TypedPackages, EmptyFunction
  <2> QED
    BY <2>1, InitInv, ReplayInit, TowardsFresh
<1>2. GraphInv /\ Replay /\ Towards /\ [Next]_vars => (GraphInv /\ Replay /\ Towards)'
  BY StepInv, ReplayStep, TowardsNext DEF Replay
<1> QED
  BY <1>1, <1>2, PTL DEF Spec

\* At the end every dependency of the project is met and every want is satisfied.
LEMMA AtTheEnd ==
    ASSUME GraphInv, Towards, status = "ok"
    PROVE  /\ WorldOK /\ Len(root) \in Nat /\ Looked(Len(root))
           /\ DirectNodes = {RootNode(i) : i \in 1 .. Len(root)}
           /\ \A k \in DOMAIN packages, d \in Deps :
                 Wants(k, d) => Required(d) \subseteq {PackageNode(j) : j \in DOMAIN packages}
<1>1. WorldOK /\ queue = <<>>
  BY DEF GraphInv, Types, Towards
<1>2. Len(queue) = 0 /\ DOMAIN queue = {}
  BY <1>1
<1>3. Len(root) \in Nat /\ DOMAIN root = 1 .. Len(root)
  <2>1. root \in Seq([dep : Deps, dev : BOOLEAN])
    BY <1>1 DEF WorldOK
  <2> QED
    BY <2>1, LenProperties
<1>4. Looked(Len(root))
  <2>1. PICK m \in 0 .. Len(root) : Looked(m)
    BY DEF Towards
  <2>2. m = Len(root)
    BY <1>2, <1>3, <2>1 DEF Looked
  <2> QED
    BY <2>1, <2>2
<1>5. DirectNodes = {RootNode(i) : i \in 1 .. Len(root)}
  BY <1>3 DEF DirectNodes, RootNode
<1>6. \A k \in DOMAIN packages, d \in Deps :
         Wants(k, d) => Required(d) \subseteq {PackageNode(j) : j \in DOMAIN packages}
  BY <1>2 DEF Towards, Complete, Pending
<1> QED
  BY <1>1, <1>3, <1>4, <1>5, <1>6

\* A resolution that succeeds finds exactly the closure of the project's
\* dependencies, one package per repository, whatever names it has, and marks
\* those the project names.
THEOREM AlwaysClosure == Spec => []ResolvesClosure
<1>1. ASSUME GraphInv, Replay, Towards
      PROVE  ResolvesClosure
  <2> SUFFICES ASSUME status = "ok"
               PROVE  /\ {PackageNode(k) : k \in DOMAIN packages} = Closure
                      /\ \A j, k \in DOMAIN packages : packages[j].name = packages[k].name => j = k
                      /\ \A k \in DOMAIN packages :
                             packages[k].transitive = (PackageNode(k) \notin DirectNodes)
    BY DEF ResolvesClosure
  <2> DEFINE nodes == {PackageNode(k) : k \in DOMAIN packages}
  <2>1. /\ WorldOK /\ Len(root) \in Nat /\ Looked(Len(root))
        /\ DirectNodes = {RootNode(i) : i \in 1 .. Len(root)}
        /\ \A k \in DOMAIN packages, d \in Deps : Wants(k, d) => Required(d) \subseteq nodes
    BY <1>1, AtTheEnd
  <2>2. CommitsRight /\ Sound
    BY <1>1 DEF Replay, Towards
  <2>3. \A k \in DOMAIN packages : packages[k] \in Packages
    BY <1>1 DEF GraphInv, Types, TypedPackages
  <2>4. nodes \in SUBSET Nodes
    BY <2>3 DEF PackageNode, Nodes, Packages
  <2>5. DirectNodes \subseteq nodes
    <3> SUFFICES ASSUME NEW i \in 1 .. Len(root)
                 PROVE  RootNode(i) \in nodes
      BY <2>1
    <3> QED
      BY <2>1 DEF Looked, Met
  <2>6. ASSUME NEW k \in DOMAIN packages, NEW n \in Needs(PackageNode(k))
        PROVE  n \in nodes
    <3> DEFINE needed == manifests[<<packages[k].name, packages[k].commit>>]
    <3>1. Needs(PackageNode(k)) = UNION {Required(needed[i]) : i \in DOMAIN needed}
      BY <2>2 DEF CommitsRight, PackageNode, Needs
    <3>2. PICK i \in DOMAIN needed : n \in Required(needed[i])
      BY <3>1
    <3>3. Wants(k, needed[i])
      BY DEF Wants
    <3>4. needed[i] \in Deps
      BY <1>1, <2>2, <3>3, WantsNeeds
    <3> QED
      BY <2>1, <3>2, <3>3, <3>4
  <2>7. Closed(nodes)
    BY <2>5, <2>6 DEF Closed
  <2>8. nodes = Closure
    BY <2>1, <2>2, <2>4, <2>7, ClosureFacts DEF Sound
  <2>9. \A j, k \in DOMAIN packages : packages[j].name = packages[k].name => j = k
    BY <1>1, OneName
  <2>10. ASSUME NEW k \in DOMAIN packages
         PROVE  packages[k].transitive = (PackageNode(k) \notin DirectNodes)
    <3>1. packages[k].transitive \in BOOLEAN
      BY <2>3 DEF Packages
    <3>2. ~packages[k].transitive => PackageNode(k) \in DirectNodes
      BY <2>1 DEF Looked, OfTheProject
    <3>3. ASSUME PackageNode(k) \in DirectNodes
          PROVE  ~packages[k].transitive
      <4>1. PICK j \in DOMAIN packages : ~packages[j].transitive /\ PackageNode(j) = PackageNode(k)
        BY <2>1, <3>3 DEF Looked, Met
      <4>2. j = k
        BY <2>9, <4>1 DEF PackageNode
      <4> QED
        BY <4>1, <4>2
    <3> QED
      BY <3>1, <3>2, <3>3
  <2> QED
    BY <2>8, <2>9, <2>10
<1> QED
  BY <1>1, TowardsInvariant, PTL

\* A conflict is reported only when the closure really needs a repository at two
\* constraints, in whatever order the traversal meets them.
THEOREM ConflictsAreReal == Spec => []ConflictIsReal
<1>1. Towards => ConflictIsReal
  BY DEF Towards, ConflictIsReal
<1> QED
  BY <1>1, TowardsInvariant, PTL

\* The lock a resolution writes needs no resolution, unless the manifest names
\* one repository by two keys: the last request of a key is the one that counts
\* on both sides.
THEOREM FreshLockAlwaysCurrent == Spec => []FreshLockIsCurrent
<1>1. ASSUME GraphInv, Towards, status = "ok", NamesAreKeys
      PROVE  ~LockNeedsResolution(packages)
  <2>1. WorldOK /\ Len(root) \in Nat /\ Looked(Len(root))
    BY <1>1, AtTheEnd
  <2>2. DOMAIN root = 1 .. Len(root)
    <3>1. root \in Seq([dep : Deps, dev : BOOLEAN])
      BY <2>1 DEF WorldOK
    <3> QED
      BY <3>1, LenProperties
  <2>3. ASSUME NEW i \in 1 .. Len(root), NEW k \in DOMAIN packages, ~packages[k].transitive,
               packages[k].name = RootNode(i)[1]
        PROVE  k = dependencyKey(root[i].dep)
    <3>1. PICK j \in 1 .. Len(root) : k = dependencyKey(root[j].dep) /\ RootNode(j) = PackageNode(k)
      BY <2>1, <2>3 DEF Looked, OfTheProject
    <3>2. RootNode(j)[1] = RootNode(i)[1]
      BY <2>3, <3>1 DEF PackageNode
    <3>3. canon[root[i].dep.id] = canon[root[j].dep.id]
      BY <3>2 DEF RootNode
    <3> QED
      BY <1>1, <2>2, <3>1, <3>3 DEF NamesAreKeys
  <2>4. ASSUME NEW i \in 1 .. Len(root)
        PROVE  /\ dependencyKey(root[i].dep) \in DOMAIN packages
               /\ ~packages[dependencyKey(root[i].dep)].transitive
               /\ packages[dependencyKey(root[i].dep)].con = root[i].dep.con
               /\ packages[dependencyKey(root[i].dep)].name = RootNode(i)[1]
    <3>1. PICK k \in DOMAIN packages : ~packages[k].transitive /\ PackageNode(k) = RootNode(i)
      BY <2>1 DEF Looked, Met
    <3>2. packages[k].name = RootNode(i)[1] /\ packages[k].con = root[i].dep.con
      BY <3>1 DEF PackageNode, RootNode
    <3> QED
      BY <2>3, <3>1, <3>2
  <2>5. ASSUME NEW i \in 1 .. Len(root)
        PROVE  LET k == dependencyKey(root[i].dep) IN
               /\ packages[k].con = Expected(k).dep.con
               /\ packages[k].kind = dependencyKind(Expected(k).dep, Expected(k).dev)
    <3> DEFINE k == dependencyKey(root[i].dep)
               Last(j) == /\ dependencyKey(root[j].dep) = k
                          /\ \A l \in DOMAIN root : dependencyKey(root[l].dep) = k => l <= j
    <3>1. k \in DOMAIN packages /\ ~packages[k].transitive
      BY <2>4
    <3>2. PICK j \in 1 .. Len(root) :
             /\ RootNode(j) = PackageNode(k)
             /\ packages[k].kind = dependencyKind(root[j].dep, root[j].dev)
             /\ \A l \in j + 1 .. Len(root) : RootNode(l)[1] # packages[k].name
      BY <2>1, <3>1 DEF Looked, OfTheProject
    <3>3. packages[k].name = RootNode(j)[1] /\ packages[k].con = root[j].dep.con
      BY <3>2 DEF PackageNode, RootNode
    <3>4. dependencyKey(root[j].dep) = k
      BY <2>3, <3>1, <3>3
    <3>5. ASSUME NEW l \in DOMAIN root, dependencyKey(root[l].dep) = k
          PROVE  l <= j
      <4>1. RootNode(l)[1] = packages[k].name /\ l \in 1 .. Len(root)
        BY <2>2, <2>4, <3>5
      <4> QED
        BY <2>1, <3>2, <4>1
    <3>6. Last(j) /\ j \in DOMAIN root
      BY <2>2, <3>4, <3>5
    <3>7. \A l \in DOMAIN root : Last(l) => l = j
      BY <2>1, <2>2, <3>6
    <3>8. (CHOOSE l \in DOMAIN root : Last(l)) = j
      BY <3>6, <3>7
    <3>9. Expected(k) = root[j]
      BY <3>8 DEF Expected
    <3> QED
      BY <3>2, <3>3, <3>9
  <2>6. DirectKeys = {dependencyKey(root[i].dep) : i \in 1 .. Len(root)}
    BY <2>2 DEF DirectKeys
  <2>7. DirectKeys \subseteq DOMAIN packages
    BY <2>4, <2>6
  <2>8. ASSUME NEW k \in DOMAIN packages
        PROVE  IF k \in DirectKeys
               THEN /\ ~packages[k].transitive
                    /\ packages[k].con = Expected(k).dep.con
                    /\ packages[k].kind = dependencyKind(Expected(k).dep, Expected(k).dev)
               ELSE packages[k].transitive
    <3>1. CASE k \in DirectKeys
      BY <2>4, <2>5, <2>6, <3>1
    <3>2. CASE k \notin DirectKeys
      BY <2>1, <2>6, <3>2 DEF Looked, OfTheProject
    <3> QED
      BY <3>1, <3>2
  <2> QED
    BY <2>7, <2>8 DEF LockNeedsResolution
<1>2. GraphInv /\ Towards => FreshLockIsCurrent
  BY <1>1 DEF FreshLockIsCurrent
<1> QED
  BY <1>2, TowardsInvariant, PTL
=============================================================================
