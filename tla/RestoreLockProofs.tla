-------------------------- MODULE RestoreLockProofs --------------------------
(***************************************************************************)
(* The document and the restore for any keys, names, graphs and manifests: *)
(* what is written is what Load returns, an edit of the manifest does not  *)
(* go unnoticed, and a restore that succeeds has every package in place.   *)
(***************************************************************************)
EXTENDS RestoreLock, TLAPS, SequenceTheorems, WellFoundedInduction

-----------------------------------------------------------------------------
\* A set of numbers has a least one.
LEMMA LeastExists ==
    ASSUME NEW s \in SUBSET Nat, s # {}
    PROVE  \E x \in s : \A y \in s : x <= y
<1>1. PICK x \in s : \A y \in s : ~ (<<y, x>> \in OpToRel(<, Nat))
  BY NatLessThanWellFounded, WFMin
<1>2. OpToRel(<, Nat) = {ss \in Nat \X Nat : ss[1] < ss[2]}
  BY Zenon DEF OpToRel
<1>3. \A y \in s : ~ (y < x)
  BY <1>1, <1>2
<1> QED
  BY <1>3

\* The names of the packages of r that are required by k.
Children(r, nm, k) == {nm[c] : c \in {x \in DOMAIN r : k \in r[x].requiredBy}}

\* The names of the packages of r.
NamesOf(r, nm) == {nm[j] : j \in DOMAIN r}

\* The packages that were written, by the manifest they were resolved from.
Origin ==
    /\ resolved \in Resolutions
    /\ DOMAIN from \subseteq DOMAIN resolved
    /\ \A k \in DOMAIN resolved :
          /\ resolved[k].transitive = (k \notin DOMAIN from)
          /\ k \in DOMAIN from => resolved[k].con = from[k].con
          /\ resolved[k].kind = dependencyKind(k, k \in DOMAIN from /\ from[k].dev)
          /\ resolved[k].requiredBy \subseteq DOMAIN resolved
          /\ resolved[k].dependencies = Children(resolved, name, k)

\* The document is the last resolution.
Document ==
    doc # None =>
        /\ DOMAIN doc = DOMAIN resolved
        /\ \A k \in DOMAIN resolved :
              /\ doc[k].con = resolved[k].con /\ doc[k].commit = resolved[k].commit
              /\ doc[k].name = name[k]
              /\ doc[k].scheme = IF resolved[k].kind \in {"dependency", "dev-dependency"} THEN ""
                                 ELSE resolved[k].kind
              /\ doc[k].transitive = resolved[k].transitive
              /\ doc[k].requiredBy = resolved[k].requiredBy

\* What LockNeedsResolution and Restore look at in the lock, whatever the names are.
Loaded ==
    lock # None =>
        /\ doc # None
        /\ DOMAIN lock.packages = DOMAIN resolved
        /\ \A k \in DOMAIN resolved :
              /\ lock.packages[k].transitive = resolved[k].transitive
              /\ lock.packages[k].con = resolved[k].con
              /\ lock.packages[k].kind = dependencyKind(k, FALSE)
              /\ lock.packages[k].name = name[k]
              /\ lock.packages[k].dependencies \subseteq NamesOf(resolved, name)

FileInv ==
    /\ name \in [Keys -> Names]
    /\ direct \in Manifests /\ from \in Manifests
    /\ Origin /\ Document /\ Loaded /\ LockTypeOK /\ LoadsBack

-----------------------------------------------------------------------------
\* A package of a resolution has the fields of one.
LEMMA ResolvedTypes ==
    ASSUME NEW r \in Resolutions
    PROVE  DOMAIN r \subseteq Keys /\ \A k \in DOMAIN r : r[k] \in Resolved
BY DEF Resolutions

\* Before the first resolution there is no document.
LEMMA InitFileInv == Init => FileInv
<1> SUFFICES ASSUME Init
             PROVE  FileInv
  OBVIOUS
<1>1. NoPackages \in Resolutions /\ NoPackages \in Manifests /\ DOMAIN NoPackages = {}
  <2>1. NoPackages \in [{} -> Resolved] /\ NoPackages \in [{} -> [con : Constraints, dev : BOOLEAN]]
    BY DEF NoPackages
  <2> QED
    BY <2>1 DEF Resolutions, Manifests, NoPackages
<1> QED
  BY <1>1 DEF Init, InitRestore, InitFile, FileInv, Origin, Document, Loaded, LockTypeOK, LoadsBack

\* With distinct names every name leads back to its package.
LEMMA NamedIsKey ==
    ASSUME FileInv, doc # None, NamesDistinct, NEW k \in DOMAIN resolved
    PROVE  Named(doc, doc[k].name) = k
<1>1. {j \in DOMAIN doc : doc[j].name = doc[k].name} = {k}
  BY DEF FileInv, Document, NamesDistinct
<1>2. k \in Nat
  BY ResolvedTypes, LockFileAssumption DEF FileInv, Origin
<1>3. Last({k}) = k
  BY <1>2 DEF Last
<1> QED
  BY <1>1, <1>3 DEF Named

\* Edges that were turned round twice are the edges that were written.
LEMMA LinkedBack ==
    ASSUME FileInv, doc # None, NamesDistinct, NEW k \in DOMAIN resolved
    PROVE  Linked(k) = resolved[k].dependencies
<1>1. /\ DOMAIN doc = DOMAIN resolved
      /\ \A j \in DOMAIN resolved : doc[j].name = name[j] /\ doc[j].requiredBy = resolved[j].requiredBy
  BY DEF FileInv, Document
<1>2. ASSUME NEW x \in DOMAIN resolved
      PROVE  (\E p \in doc[x].requiredBy \intersect DOMAIN doc : doc[p].name = doc[k].name)
                <=> k \in resolved[x].requiredBy
  BY <1>1 DEF NamesDistinct, FileInv, Origin
<1>3. {x \in DOMAIN doc : \E p \in doc[x].requiredBy \intersect DOMAIN doc : doc[p].name = doc[k].name}
         = {x \in DOMAIN resolved : k \in resolved[x].requiredBy}
  BY <1>1, <1>2
<1>4. Linked(k) = {doc[c].name : c \in {x \in DOMAIN resolved : k \in resolved[x].requiredBy}}
  BY <1>3, NamedIsKey DEF Linked
<1>5. {doc[c].name : c \in {x \in DOMAIN resolved : k \in resolved[x].requiredBy}}
         = {name[c] : c \in {x \in DOMAIN resolved : k \in resolved[x].requiredBy}}
  BY <1>1
<1> QED
  BY <1>4, <1>5 DEF FileInv, Origin, Children

\* Edges lead to packages of the document.
LEMMA LinkedToPackages ==
    ASSUME FileInv, doc # None, NEW k \in DOMAIN resolved
    PROVE  Linked(k) \subseteq NamesOf(resolved, name)
<1>1. Linked(k) \subseteq {doc[c].name : c \in DOMAIN doc}
  BY DEF Linked
<1>2. {doc[c].name : c \in DOMAIN doc} = NamesOf(resolved, name)
  <2>1. DOMAIN doc = DOMAIN resolved /\ \A c \in DOMAIN resolved : doc[c].name = name[c]
    BY DEF FileInv, Document
  <2> QED
    BY <2>1 DEF NamesOf
<1> QED
  BY <1>1, <1>2

\* What Load makes of a document is the resolution.
LEMMA LoadFileInv ==
    ASSUME FileInv, Load
    PROVE  FileInv'
<1>1. /\ doc # None /\ DOMAIN lock'.packages = DOMAIN resolved
      /\ lock'.diagnosed = Diagnosed
      /\ \A k \in DOMAIN resolved : lock'.packages[k] = normalizeSampctlPackage(k)
      /\ UNCHANGED <<name, direct, from, resolved, doc>>
  BY DEF Load, FileInv, Document
<1>2. Origin' /\ Document'
  BY <1>1 DEF FileInv, Origin, Document
<1>3. Loaded'
  <2>1. ASSUME NEW k \in DOMAIN resolved
        PROVE  /\ lock'.packages[k].transitive = doc[k].transitive
               /\ lock'.packages[k].con = doc[k].con
               /\ lock'.packages[k].name = doc[k].name
    <3>1. lock'.packages[k] = normalizeSampctlPackage(k)
      BY <1>1
    <3>2. /\ normalizeSampctlPackage(k).con = doc[k].con
          /\ normalizeSampctlPackage(k).name = doc[k].name
      BY DEF normalizeSampctlPackage
    <3>3. normalizeSampctlPackage(k).transitive = doc[k].transitive
      BY DEF normalizeSampctlPackage
    <3> QED
      BY <3>1, <3>2, <3>3
  <2>2. ASSUME NEW k \in DOMAIN resolved
        PROVE  lock'.packages[k].dependencies \subseteq NamesOf(resolved, name)
    <3>1. lock'.packages[k] = normalizeSampctlPackage(k)
      BY <1>1
    <3>2. Linked(k) \subseteq NamesOf(resolved, name)
      BY <1>1, LinkedToPackages
    <3>3. normalizeSampctlPackage(k).dependencies = Linked(k)
      BY DEF normalizeSampctlPackage
    <3> QED
      BY <3>1, <3>2, <3>3
  <2>3. ASSUME NEW k \in DOMAIN resolved
        PROVE  lock'.packages[k].kind = dependencyKind(k, FALSE)
    <3>1. k \in Keys
      BY <1>1, ResolvedTypes DEF FileInv, Origin
    <3>2. doc[k].scheme = IF SchemeOf[k] # "" THEN SchemeOf[k] ELSE ""
      <4>1. resolved[k].kind = dependencyKind(k, k \in DOMAIN from /\ from[k].dev)
        BY DEF FileInv, Origin
      <4>2. doc[k].scheme = IF resolved[k].kind \in {"dependency", "dev-dependency"} THEN ""
                            ELSE resolved[k].kind
        BY <1>1 DEF FileInv, Document
      <4>3. SchemeOf[k] \in {"", "plugin", "component", "includes", "filterscript"}
        BY <3>1, LockFileAssumption
      <4> QED
        BY <4>1, <4>2, <4>3 DEF dependencyKind
    <3>3. lock'.packages[k].kind = IF doc[k].scheme = "" THEN "dependency" ELSE doc[k].scheme
      <4>1. lock'.packages[k] = normalizeSampctlPackage(k)
        BY <1>1
      <4>2. normalizeSampctlPackage(k).kind = IF doc[k].scheme = "" THEN "dependency" ELSE doc[k].scheme
        BY DEF normalizeSampctlPackage
      <4> QED
        BY <4>1, <4>2
    <3> QED
      BY <3>2, <3>3 DEF dependencyKind
  <2>4. ASSUME NEW k \in DOMAIN resolved
        PROVE  /\ doc[k].transitive = resolved[k].transitive
               /\ doc[k].con = resolved[k].con
               /\ doc[k].name = name[k]
    BY <1>1 DEF FileInv, Document
  <2> QED
    BY <1>1, <2>1, <2>2, <2>4, <2>3 DEF Loaded
<1>4. lock'.diagnosed = ~NamesDistinct
  <2>1. ~UnknownParent
    BY <1>1 DEF UnknownParent, FileInv, Origin, Document
  <2>2. DuplicateName <=> ~NamesDistinct
    <3>1. DOMAIN doc = DOMAIN resolved
      BY <1>1 DEF FileInv, Document
    <3>2. \A j, k \in DOMAIN resolved : (doc[j].name = doc[k].name) <=> (name[j] = name[k])
      BY <1>1 DEF FileInv, Document
    <3> QED
      BY <3>1, <3>2 DEF DuplicateName, NamesDistinct
  <2> QED
    BY <1>1, <2>1, <2>2 DEF Diagnosed
<1>5. ASSUME NamesDistinct, NEW k \in DOMAIN resolved
      PROVE  lock'.packages[k] =
                [con |-> resolved[k].con, commit |-> resolved[k].commit,
                 name |-> name[k],
                 kind |-> IF resolved[k].kind = "dev-dependency" THEN "dependency"
                          ELSE resolved[k].kind,
                 transitive |-> resolved[k].transitive,
                 requiredBy |-> resolved[k].requiredBy,
                 dependencies |-> resolved[k].dependencies]
  <2>1. resolved[k].kind \in Kinds
    BY ResolvedTypes DEF FileInv, Origin, Resolved
  <2>2. (IF doc[k].scheme = "" THEN "dependency" ELSE doc[k].scheme)
           = IF resolved[k].kind = "dev-dependency" THEN "dependency" ELSE resolved[k].kind
    BY <1>1, <2>1 DEF FileInv, Document, Kinds
  <2>3. Linked(k) = resolved[k].dependencies
    BY <1>1, <1>5, LinkedBack
  <2>4. lock'.packages[k] = normalizeSampctlPackage(k)
    BY <1>1
  <2> QED
    BY <1>1, <2>2, <2>3, <2>4 DEF normalizeSampctlPackage, FileInv, Document
<1>6. NamesDistinct' = NamesDistinct
  BY <1>1 DEF NamesDistinct
<1>7. LoadsBack'
  BY <1>1, <1>4, <1>5, <1>6 DEF LoadsBack
<1>8. LockTypeOK'
  <2>1. DOMAIN resolved \subseteq Keys /\ DOMAIN doc = DOMAIN resolved
    BY <1>1, ResolvedTypes DEF FileInv, Origin, Document
  <2>2. ASSUME NEW k \in DOMAIN resolved
        PROVE  lock'.packages[k] \in
                  [con : Constraints, commit : Commits, name : Names,
                   kind : Kinds \ {"dev-dependency"},
                   transitive : BOOLEAN, requiredBy : SUBSET Keys,
                   dependencies : SUBSET Names]
    <3>1. /\ resolved[k].con \in Constraints /\ resolved[k].commit \in Commits
          /\ resolved[k].kind \in Kinds /\ resolved[k].transitive \in BOOLEAN
          /\ resolved[k].requiredBy \in SUBSET Keys
      BY ResolvedTypes DEF FileInv, Origin, Resolved
    <3>2. Linked(k) \in SUBSET Names
      BY <1>1, <2>1, LinkedToPackages DEF NamesOf, FileInv
    <3>3. (IF doc[k].scheme = "" THEN "dependency" ELSE doc[k].scheme) \in Kinds \ {"dev-dependency"}
      BY <1>1, <3>1 DEF FileInv, Document, Kinds
    <3>4. doc[k].name \in Names
      BY <1>1, <2>1 DEF FileInv, Document
    <3>5. /\ doc[k].con = resolved[k].con /\ doc[k].commit = resolved[k].commit
          /\ doc[k].requiredBy = resolved[k].requiredBy
      BY <1>1 DEF FileInv, Document
    <3>6. doc[k].transitive \in BOOLEAN
      BY <1>1, <3>1 DEF FileInv, Document
    <3>7. lock'.packages[k] = normalizeSampctlPackage(k)
      BY <1>1
    <3>8. /\ doc[k].con \in Constraints /\ doc[k].commit \in Commits
          /\ doc[k].requiredBy \in SUBSET Keys
      BY <3>1, <3>5
    <3>9. normalizeSampctlPackage(k) \in
                  [con : Constraints, commit : Commits, name : Names,
                   kind : Kinds \ {"dev-dependency"},
                   transitive : BOOLEAN, requiredBy : SUBSET Keys,
                   dependencies : SUBSET Names]
      BY <3>2, <3>3, <3>4, <3>6, <3>8 DEF normalizeSampctlPackage
    <3> QED
      BY <3>7, <3>9
  <2> QED
    BY <1>1, <1>4, <2>1, <2>2 DEF LockTypeOK, FileInv
<1> QED
  BY <1>1, <1>2, <1>3, <1>7, <1>8 DEF FileInv

\* A resolution is written and read by the document's own rules.
LEMMA NextFileInv ==
    ASSUME FileInv, [Next]_vars
    PROVE  FileInv'
<1>1. ASSUME NEW found \in Resolutions, Write(found)
      PROVE  FileInv'
  <2>1. /\ resolved' = found /\ from' = direct /\ name' = name /\ direct' = direct /\ lock' = None
        /\ doc' = [k \in DOMAIN found |-> encodeSampctlDependency(k, found[k])]
    BY <1>1 DEF Write, WriteDependencies
  <2>2. ASSUME NEW k \in DOMAIN found
        PROVE  found[k].dependencies = Children(found, name, k)
    BY <1>1 DEF Write, WriteDependencies, IsResolution, Children
  <2>3. ASSUME NEW k \in DOMAIN found
        PROVE  found[k].kind = dependencyKind(k, k \in DOMAIN direct /\ direct[k].dev)
    <3>1. found[k].kind = DirectKind(k)
      BY <1>1 DEF Write, WriteDependencies, IsResolution
    <3> QED
      BY <3>1 DEF DirectKind
  <2>4. ASSUME NEW k \in DOMAIN found
        PROVE  /\ found[k].transitive = (k \notin DOMAIN direct)
               /\ k \in DOMAIN direct => found[k].con = direct[k].con
               /\ found[k].requiredBy \subseteq DOMAIN found
    BY <1>1 DEF Write, WriteDependencies, IsResolution
  <2>5. DOMAIN direct \subseteq DOMAIN found
    BY <1>1 DEF Write, WriteDependencies, IsResolution
  <2>6. Origin'
    <3>1. \A k \in DOMAIN found : Children(found, name, k)' = Children(found, name, k)
      BY <2>1 DEF Children
    <3> QED
      BY <2>1, <2>2, <2>3, <2>4, <2>5, <3>1 DEF Origin, dependencyKind, Children
  <2>7. Document'
    BY <2>1 DEF Document, encodeSampctlDependency
  <2> QED
    BY <1>1, <2>1, <2>6, <2>7, ResolvedTypes DEF FileInv, Loaded, LoadsBack, LockTypeOK
<1>2. ASSUME UNCHANGED <<name, from, resolved, doc, lock>>, direct' \in Manifests
      PROVE  FileInv'
  <2>1. NamesDistinct' = NamesDistinct
    BY <1>2 DEF NamesDistinct
  <2> QED
    BY <1>2, <2>1 DEF FileInv, Origin, Document, Loaded, LoadsBack, LockTypeOK
<1>3. ASSUME NEW new \in Manifests, Edit(new)
      PROVE  FileInv'
  BY <1>2, <1>3 DEF Edit, EditManifest
<1>4. CASE LoadLock
  BY <1>4, LoadFileInv DEF LoadLock
<1>5. CASE Begin \/ Step \/ UNCHANGED vars
  <2>1. UNCHANGED lockvars
    BY <1>5 DEF Begin, Step, VisitRoot, VisitDependency, Leave, RejectTargets, AcceptTargets, Install,
                FailInstall, Finish, Ordering, Ordered, Installing, vars
  <2> QED
    BY <1>2, <2>1 DEF lockvars, FileInv
<1> QED
  BY <1>1, <1>3, <1>4, <1>5 DEF Next

\* What the manifest, the document and the lock say of each other in every state.
THEOREM FileInvariant == Spec => []FileInv
  BY InitFileInv, NextFileInv, PTL DEF Spec

\* Whatever is written is what Load returns, but for the dev flag, if the names of the
\* packages differ; if they do not, Load says so (load.go, sampctl.go).
THEOREM LoadReturnsWritten == Spec => []LoadsBack
<1>1. FileInv => LoadsBack
  BY DEF FileInv
<1> QED
  BY <1>1, FileInvariant, PTL

\* LockNeedsResolution notices every edit of the dependencies, and nothing but edits and
\* dev dependencies, for any manifests (resolution.go:52).
THEOREM EditsAreNoticed == Spec => []DetectsChanges
<1>1. ASSUME FileInv, lock # None
      PROVE  LockNeedsResolution <=> Edited \/ PlainDev
  <2>1. /\ DOMAIN lock.packages = DOMAIN resolved
        /\ DOMAIN from \subseteq DOMAIN resolved /\ DOMAIN resolved \subseteq Keys
    BY <1>1, ResolvedTypes DEF FileInv, Origin, Loaded
  <2>2. ASSUME NEW k \in DOMAIN resolved
        PROVE  /\ lock.packages[k].transitive <=> k \notin DOMAIN from
               /\ k \in DOMAIN from => lock.packages[k].con = from[k].con
               /\ lock.packages[k].kind # DirectKind(k)
                     <=> k \in DOMAIN direct /\ DirectKind(k) = "dev-dependency"
    <3>1. lock.packages[k].transitive = (k \notin DOMAIN from)
      BY <1>1 DEF FileInv, Origin, Loaded
    <3>2. k \in DOMAIN from => lock.packages[k].con = from[k].con
      BY <1>1 DEF FileInv, Origin, Loaded
    <3>3. lock.packages[k].kind = dependencyKind(k, FALSE)
      BY <1>1 DEF FileInv, Loaded
    <3>4. SchemeOf[k] \in {"", "plugin", "component", "includes", "filterscript"}
      BY <2>1, LockFileAssumption
    <3> QED
      BY <3>1, <3>2, <3>3, <3>4 DEF DirectKind, dependencyKind
  <2>3. ASSUME NEW k \in DOMAIN resolved
        PROVE  Stale(k) <=> \/ (k \in DOMAIN direct) # (k \in DOMAIN from)
                            \/ k \in DOMAIN direct /\ direct[k].con # from[k].con
                            \/ k \in DOMAIN direct /\ DirectKind(k) = "dev-dependency"
    BY <2>2, <2>3 DEF Stale
  <2> QED
    BY <1>1, <2>1, <2>3 DEF LockNeedsResolution, Edited, PlainDev
<1>2. FileInv => DetectsChanges
  BY <1>1 DEF DetectsChanges
<1> QED
  BY <1>2, FileInvariant, PTL

-----------------------------------------------------------------------------
\* The packages up to the m-th are installed.
Installed(m) ==
    \A i \in 1 .. m :
        checkout[Target(order[i])] =
            [key |-> Locked(order[i]), commit |-> lock.packages[Locked(order[i])].commit]

\* A traversal is of the packages of the lock; after it, all of them are ordered and
\* have targets of their own.
TraversalInv ==
    /\ pc # "idle" => lock # None /\ result = "none"
    /\ pc # "order" => stack = <<>>
    /\ \A i \in DOMAIN stack : stack[i].name \in LockedNames /\ stack[i].rest \subseteq LockedNames
    /\ visiting \intersect visited = {}
    /\ pc = "order" => visited \subseteq LockedNames /\ next = 1
    /\ pc = "install" \/ result = "ok" =>
          /\ lock # None /\ LockedNames = visited /\ ~Collision
          /\ Installed(next - 1)
    /\ result = "ok" => next = Len(order) + 1

RestoreInv == FileInv /\ TypeOK /\ TraversalInv

-----------------------------------------------------------------------------
\* The sorted loops take an element of what is left.
LEMMA FirstIsIn ==
    ASSUME NEW s \in SUBSET Names, s # {}
    PROVE  First(s) \in s
BY LeastExists, LockFileAssumption DEF First

\* indexByName finds a package.
LEMMA LastIsIn ==
    ASSUME NEW s \in SUBSET Keys, s # {}
    PROVE  Last(s) \in s
<1>1. s \subseteq Nat /\ \E last \in Nat : \A k \in s : k <= last
  <2>1. PICK last \in Keys : \A k \in Keys : k <= last
    BY LockFileAssumption
  <2> QED
    BY <2>1, LockFileAssumption
<1> DEFINE bounds == {n \in Nat : \A k \in s : k <= n}
<1>2. PICK n \in bounds : \A m \in bounds : n <= m
  <2>1. bounds \in SUBSET Nat /\ bounds # {}
    BY <1>1
  <2> HIDE DEF bounds
  <2> QED
    BY <2>1, LeastExists
<1>3. n \in s
  <2> SUFFICES ASSUME n \notin s
               PROVE  FALSE
    OBVIOUS
  <2>1. \A k \in s : k < n
    BY <1>1
  <2>2. n - 1 \in bounds
    <3>1. PICK k \in s : TRUE
      OBVIOUS
    <3>2. k \in Nat /\ n \in Nat /\ k < n
      BY <1>1, <2>1
    <3>3. n - 1 \in Nat /\ \A j \in s : j <= n - 1
      BY <1>1, <2>1, <3>2
    <3> QED
      BY <3>3
  <2> QED
    BY <1>2, <2>2
<1>4. \E k \in s : \A j \in s : j <= k
  BY <1>2, <1>3
<1> QED
  BY <1>4 DEF Last

\* The package of a name in the lock is one of the lock's.
LEMMA LockedIsIn ==
    ASSUME FileInv, lock # None, NEW n \in LockedNames
    PROVE  /\ Locked(n) \in DOMAIN lock.packages
           /\ lock.packages[Locked(n)].dependencies \subseteq LockedNames
<1> DEFINE ks == {k \in DOMAIN lock.packages : lock.packages[k].name = n}
<1>1. ks \in SUBSET Keys /\ ks # {}
  BY ResolvedTypes DEF LockedNames, FileInv, Origin, Loaded
<1>2. Locked(n) \in ks
  BY <1>1, LastIsIn DEF Locked, Named
<1>3. NamesOf(resolved, name) \subseteq LockedNames
  <2>1. DOMAIN lock.packages = DOMAIN resolved
        /\ \A k \in DOMAIN resolved : lock.packages[k].name = name[k]
    BY DEF FileInv, Loaded
  <2> QED
    BY <2>1 DEF NamesOf, LockedNames
<1> QED
  BY <1>2, <1>3 DEF FileInv, Loaded

\* The names of the lock are names.
LEMMA LockedNamesTyped ==
    ASSUME FileInv, lock # None
    PROVE  LockedNames \subseteq Names
BY DEF LockedNames, FileInv, Loaded, LockTypeOK

\* Before the first call nothing is ordered or installed.
LEMMA InitRestoreInv == Init => RestoreInv
<1> SUFFICES ASSUME Init
             PROVE  RestoreInv
  OBVIOUS
<1> USE DEF Init, InitRestore
<1>1. FileInv
  BY InitFileInv
<1>2. TypeOK
  BY <1>1 DEF TypeOK, FileInv
<1>3. TraversalInv
  BY DEF TraversalInv
<1> QED
  BY <1>1, <1>2, <1>3 DEF RestoreInv

\* A step that leaves the document and the lock alone leaves what they say.
LEMMA LockStays ==
    ASSUME RestoreInv, UNCHANGED lockvars
    PROVE  /\ FileInv' /\ LockTypeOK'
           /\ lock' = lock /\ LockedNames' = LockedNames
           /\ \A n : Locked(n)' = Locked(n)
<1>1. UNCHANGED <<name, direct, from, resolved, doc, lock>>
  BY DEF lockvars
<1>2. NamesDistinct' = NamesDistinct
  BY <1>1 DEF NamesDistinct
<1>3. FileInv'
  BY <1>1, <1>2 DEF RestoreInv, FileInv, Origin, Document, Loaded, LoadsBack, LockTypeOK
<1> QED
  BY <1>1, <1>3 DEF FileInv, LockedNames, Locked, Named

\* What is below dependencies/ and how far the loops are is left alone between two
\* calls, and the last result is forgotten with the lock it is about.
LEMMA BetweenCalls ==
    ASSUME RestoreInv, [Next]_vars, UNCHANGED <<checkout, traversal, next, pc>>, pc = "idle",
           result' = "none" \/ (result' = result /\ UNCHANGED lock)
    PROVE  RestoreInv'
<1>1. FileInv'
  BY NextFileInv DEF RestoreInv
<1>2. TypeOK'
  BY <1>1 DEF RestoreInv, TypeOK, FileInv, traversal
<1>3. stack = <<>> /\ stack' = <<>> /\ DOMAIN stack' = {}
  BY DEF RestoreInv, TraversalInv, traversal
<1>4. /\ pc' = "idle" /\ next' = next /\ order' = order /\ visited' = visited /\ visiting' = visiting
      /\ visiting \intersect visited = {} /\ checkout' = checkout
  BY DEF RestoreInv, TraversalInv, traversal
<1>5. ASSUME result' = "none"
      PROVE  TraversalInv'
  BY <1>3, <1>4, <1>5 DEF TraversalInv
<1>6. ASSUME result' = result, lock' = lock
      PROVE  TraversalInv'
  <2>1. LockedNames' = LockedNames /\ Collision' = Collision /\ Installed(next - 1)' = Installed(next - 1)
    BY <1>4, <1>6 DEF Installed, Collision, LockedNames, Locked, Named
  <2> QED
    BY <1>3, <1>4, <1>6, <2>1 DEF RestoreInv, TraversalInv
<1> QED
  BY <1>1, <1>2, <1>5, <1>6 DEF RestoreInv

\* A call begins with nothing ordered.
LEMMA BeginInv ==
    ASSUME RestoreInv, Begin
    PROVE  RestoreInv'
<1>1. FileInv' /\ LockTypeOK' /\ lock' # None
  BY LockStays DEF Begin
<1>2. stack' = <<>> /\ order' = <<>> /\ visiting' = {} /\ visited' = {} /\ next' = 1
      /\ pc' = "order" /\ result' = "none" /\ checkout' = checkout
  BY DEF Begin
<1>3. TypeOK'
  BY <1>1, <1>2 DEF RestoreInv, TypeOK
<1>4. TraversalInv'
  BY <1>1, <1>2 DEF TraversalInv
<1> QED
  BY <1>1, <1>3, <1>4 DEF RestoreInv

\* The stack that visit works on: below the next call the frames keep their names.
Frame == [name : Names, rest : SUBSET Names]

LikeStack(st) ==
    /\ st \in Seq(Frame) /\ Len(st) = Len(stack)
    /\ \A i \in 1 .. Len(st) : st[i].name = stack[i].name /\ st[i].rest \subseteq LockedNames

\* A step of the traversal keeps the invariant if the stack and the order do.
LEMMA Traverses ==
    ASSUME RestoreInv, pc = "order", pc' = pc, result' = result,
           UNCHANGED <<lockvars, checkout, next>>,
           stack' \in Seq(Frame), order' \in Seq(Names),
           \A i, j \in 1 .. Len(stack') : stack'[i].name = stack'[j].name => i = j,
           visiting' = {stack'[i].name : i \in 1 .. Len(stack')},
           visited' = {order'[i] : i \in 1 .. Len(order')},
           \A i, j \in 1 .. Len(order') : order'[i] = order'[j] => i = j,
           Len(order') \in Nat, Len(order') >= Len(order),
           visiting' \intersect visited' = {}, visited' \subseteq LockedNames,
           \A i \in 1 .. Len(stack') : stack'[i].name \in LockedNames
                                       /\ stack'[i].rest \subseteq LockedNames
    PROVE  RestoreInv'
<1>1. FileInv' /\ LockTypeOK' /\ lock' = lock /\ LockedNames' = LockedNames
  BY LockStays
<1>2. DOMAIN stack' = 1 .. Len(stack') /\ DOMAIN order' = 1 .. Len(order')
  BY LenProperties
<1>3. next' \in 1 .. Len(order') + 1
  <2>1. order \in Seq(Names) /\ next \in 1 .. Len(order) + 1
    BY DEF RestoreInv, TypeOK
  <2>2. Len(order) \in Nat
    BY <2>1, LenProperties
  <2> QED
    BY <2>1, <2>2
<1>4. TypeOK'
  BY <1>1, <1>2, <1>3 DEF RestoreInv, TypeOK, Frame
<1>5. TraversalInv'
  BY <1>1, <1>2 DEF RestoreInv, TraversalInv
<1> QED
  BY <1>1, <1>4, <1>5 DEF RestoreInv

\* The traversal's own facts, over the indices.
LEMMA TraversalFacts ==
    ASSUME RestoreInv
    PROVE  /\ stack \in Seq(Frame) /\ Len(stack) \in Nat /\ DOMAIN stack = 1 .. Len(stack)
           /\ order \in Seq(Names) /\ Len(order) \in Nat /\ DOMAIN order = 1 .. Len(order)
           /\ \A i, j \in 1 .. Len(stack) : stack[i].name = stack[j].name => i = j
           /\ visiting = {stack[i].name : i \in 1 .. Len(stack)}
           /\ visited = {order[i] : i \in 1 .. Len(order)}
           /\ \A i, j \in 1 .. Len(order) : order[i] = order[j] => i = j
           /\ \A i \in 1 .. Len(stack) : stack[i] \in Frame /\ stack[i].name \in LockedNames
                                         /\ stack[i].rest \subseteq LockedNames
<1>1. stack \in Seq(Frame) /\ order \in Seq(Names)
  BY DEF RestoreInv, TypeOK, Frame
<1>2. /\ Len(stack) \in Nat /\ DOMAIN stack = 1 .. Len(stack)
      /\ Len(order) \in Nat /\ DOMAIN order = 1 .. Len(order)
  BY <1>1, LenProperties
<1>3. \A i \in 1 .. Len(stack) : stack[i] \in Frame
  BY <1>1, ElementOfSeq
<1> QED
  BY <1>1, <1>2, <1>3 DEF RestoreInv, TypeOK, TraversalInv

\* visit enters a name that is neither visited nor being visited.
LEMMA EnterInv ==
    ASSUME RestoreInv, pc = "order", UNCHANGED <<lockvars, checkout, next, pc, result>>,
           NEW n \in LockedNames \ (visited \union visiting), NEW below, LikeStack(below),
           Enter(n, below)
    PROVE  RestoreInv'
<1> DEFINE f == [name |-> n, rest |-> lock.packages[Locked(n)].dependencies]
<1>1. lock # None /\ FileInv
  BY DEF RestoreInv, TraversalInv
<1>2. f \in Frame /\ f.name = n /\ f.rest \subseteq LockedNames
  <2>1. LockedNames \subseteq Names /\ lock.packages[Locked(n)].dependencies \subseteq LockedNames
    BY <1>1, LockedNamesTyped, LockedIsIn
  <2> QED
    BY <2>1 DEF Frame
<1>3. stack' = Append(below, f) /\ visiting' = visiting \union {n} /\ visited' = visited /\ order' = order
  BY DEF Enter
<1> HIDE DEF f
<1>4. below \in Seq(Frame) /\ Len(below) = Len(stack)
      /\ \A i \in 1 .. Len(stack) : below[i].name = stack[i].name /\ below[i].rest \subseteq LockedNames
  BY DEF LikeStack
<1>5. /\ stack' \in Seq(Frame) /\ Len(stack') = Len(stack) + 1
      /\ \A i \in 1 .. Len(stack) : stack'[i] = below[i]
      /\ stack'[Len(stack) + 1] = f
  BY <1>2, <1>3, <1>4, AppendProperties
<1>6. Len(stack) \in Nat
  BY TraversalFacts
<1>7. \A i \in 1 .. Len(stack) : stack'[i].name = stack[i].name /\ stack'[i].name # n
  BY <1>4, <1>5, TraversalFacts
<1>8. visiting' = {stack'[i].name : i \in 1 .. Len(stack')}
  <2>1. visiting = {stack[i].name : i \in 1 .. Len(stack)}
    BY TraversalFacts
  <2>2. ASSUME NEW x \in visiting'
        PROVE  \E i \in 1 .. Len(stack') : stack'[i].name = x
    <3>1. CASE x = n
      BY <3>1, <1>2, <1>5, <1>6
    <3>2. CASE x \in visiting
      <4>1. PICK i \in 1 .. Len(stack) : stack[i].name = x
        BY <2>1, <3>2
      <4>2. i \in 1 .. Len(stack') /\ stack'[i].name = x
        BY <4>1, <1>5, <1>6, <1>7
      <4> QED
        BY <4>2
    <3> QED
      BY <2>2, <3>1, <3>2, <1>3
  <2>3. ASSUME NEW i \in 1 .. Len(stack')
        PROVE  stack'[i].name \in visiting'
    <3>1. CASE i = Len(stack) + 1
      BY <3>1, <1>2, <1>3, <1>5
    <3>2. CASE i \in 1 .. Len(stack)
      BY <3>2, <2>1, <1>3, <1>7
    <3> QED
      BY <3>1, <3>2, <1>5, <1>6
  <2> QED
    BY <2>2, <2>3
<1>9. \A i, j \in 1 .. Len(stack') : stack'[i].name = stack'[j].name => i = j
  BY <1>2, <1>5, <1>6, <1>7, TraversalFacts
<1>10. \A i \in 1 .. Len(stack') : stack'[i].name \in LockedNames /\ stack'[i].rest \subseteq LockedNames
  BY <1>2, <1>4, <1>5, <1>6, <1>7, TraversalFacts
<1>11. visiting' \intersect visited' = {} /\ visited' \subseteq LockedNames
  BY <1>3 DEF RestoreInv, TraversalInv
<1>12. /\ order' \in Seq(Names) /\ Len(order') \in Nat /\ Len(order') >= Len(order)
       /\ visited' = {order'[i] : i \in 1 .. Len(order')}
       /\ \A i, j \in 1 .. Len(order') : order'[i] = order'[j] => i = j
  BY <1>3, TraversalFacts
<1> QED
  BY <1>5, <1>8, <1>9, <1>10, <1>11, <1>12, Traverses

\* The loop over the names enters one that is left.
LEMMA VisitRootInv ==
    ASSUME RestoreInv, VisitRoot
    PROVE  RestoreInv'
<1>1. lock # None /\ FileInv /\ pc = "order" /\ visited \subseteq LockedNames
  BY DEF RestoreInv, TraversalInv, VisitRoot, Ordering
<1>2. stack = <<>> /\ visiting = {} /\ LockedNames # visited
  BY DEF VisitRoot, RestoreInv, TypeOK
<1>3. First(LockedNames \ visited) \in LockedNames \ visited
  BY <1>1, <1>2, LockedNamesTyped, FirstIsIn
<1>4. LikeStack(<<>>)
  BY <1>2, EmptySeq DEF LikeStack
<1> QED
  BY <1>1, <1>2, <1>3, <1>4, EnterInv DEF VisitRoot, Ordering

\* The first m elements of a sequence.
LEMMA FirstElements ==
    ASSUME NEW S, NEW s \in Seq(S), NEW m \in Nat, m <= Len(s)
    PROVE  /\ SubSeq(s, 1, m) \in Seq(S) /\ Len(SubSeq(s, 1, m)) = m
           /\ \A i \in 1 .. m : SubSeq(s, 1, m)[i] = s[i]
<1>1. 1 \in Int /\ m \in Int /\ \A i \in 1 .. m : s[i] \in S
  BY ElementOfSeq, LenProperties
<1>2. /\ SubSeq(s, 1, m) \in Seq(S)
      /\ Len(SubSeq(s, 1, m)) = IF 1 <= m THEN m - 1 + 1 ELSE 0
      /\ \A i \in 1 .. m - 1 + 1 : SubSeq(s, 1, m)[i] = s[1 + i - 1]
  BY <1>1, SubSeqProperties
<1>3. m - 1 + 1 = m /\ (~ (1 <= m) => m = 0) /\ \A i \in 1 .. m : 1 + i - 1 = i
  OBVIOUS
<1> QED
  BY <1>2, <1>3

\* The calls below the one on top.
LEMMA BelowIs ==
    ASSUME RestoreInv, stack # <<>>
    PROVE  /\ Below \in Seq(Frame) /\ Len(Below) = Len(stack) - 1
           /\ \A i \in 1 .. Len(stack) - 1 : Below[i] = stack[i]
<1>1. Len(stack) \in Nat /\ Len(stack) # 0 /\ stack \in Seq(Frame)
  BY TraversalFacts, EmptySeq
<1>2. Len(stack) - 1 \in Nat /\ Len(stack) - 1 <= Len(stack)
  BY <1>1
<1> QED
  BY <1>1, <1>2, FirstElements DEF Below

\* The frame that is on top, and the stack with a dependency tried.
LEMMA TriedIsLike ==
    ASSUME RestoreInv, stack # <<>>, Top.rest # {}
    PROVE  LET d == First(Top.rest) IN
           /\ d \in LockedNames
           /\ LikeStack(Append(Below, [Top EXCEPT !.rest = @ \ {d}]))
<1> DEFINE d == First(Top.rest)
           f == [Top EXCEPT !.rest = @ \ {d}]
           m == Len(stack) - 1
<1>1. Len(stack) \in Nat /\ Len(stack) > 0 /\ m \in Nat /\ Len(stack) \in 1 .. Len(stack)
  BY TraversalFacts, EmptySeq
<1>2. Top \in Frame /\ Top.name \in LockedNames /\ Top.rest \subseteq LockedNames
  BY <1>1, TraversalFacts DEF Top
<1>3. d \in LockedNames
  BY <1>2, FirstIsIn DEF Frame
<1>4. f \in Frame /\ f.name = Top.name /\ f.rest \subseteq LockedNames
  BY <1>2 DEF Frame
<1> HIDE DEF f, d
<1>5. /\ Below \in Seq(Frame) /\ Len(Below) = m
      /\ \A i \in 1 .. m : Below[i] = stack[i]
  BY BelowIs
<1>6. /\ Append(Below, f) \in Seq(Frame) /\ Len(Append(Below, f)) = m + 1
      /\ \A i \in 1 .. m : Append(Below, f)[i] = Below[i]
      /\ Append(Below, f)[m + 1] = f
  BY <1>4, <1>5, AppendProperties
<1>7. \A i \in 1 .. Len(stack) : i \in 1 .. m \/ i = m + 1
  BY <1>1
<1>8. LikeStack(Append(Below, f))
  BY <1>1, <1>4, <1>5, <1>6, <1>7, TraversalFacts DEF LikeStack, Top
<1> QED
  BY <1>3, <1>8 DEF d, f

\* visit enters a dependency, or has met it before.
LEMMA VisitDependencyInv ==
    ASSUME RestoreInv, VisitDependency
    PROVE  RestoreInv'
<1> DEFINE d == First(Top.rest)
           tried == Append(Below, [Top EXCEPT !.rest = @ \ {d}])
<1>1. d \in LockedNames /\ LikeStack(tried)
  BY TriedIsLike DEF VisitDependency
<1>2. /\ \/ d \notin visited \union visiting /\ Enter(d, tried)
         \/ stack' = tried /\ UNCHANGED <<visiting, visited, order>>
      /\ pc = "order" /\ UNCHANGED <<lockvars, checkout, next, pc, result>>
  BY DEF VisitDependency, Ordering
<1> HIDE DEF d, tried
<1>3. CASE d \notin visited \union visiting /\ Enter(d, tried)
  BY <1>1, <1>2, <1>3, EnterInv
<1>4. CASE stack' = tried /\ UNCHANGED <<visiting, visited, order>>
  <2>1. /\ stack' \in Seq(Frame) /\ Len(stack') = Len(stack)
        /\ \A i \in 1 .. Len(stack') : stack'[i].name = stack[i].name /\ stack'[i].rest \subseteq LockedNames
    BY <1>1, <1>4 DEF LikeStack
  <2>2. /\ \A i, j \in 1 .. Len(stack') : stack'[i].name = stack'[j].name => i = j
        /\ \A i \in 1 .. Len(stack') : stack'[i].name \in LockedNames /\ stack'[i].rest \subseteq LockedNames
    BY <2>1, TraversalFacts
  <2>3. visiting' = {stack'[i].name : i \in 1 .. Len(stack')}
    <3>1. visiting = {stack[i].name : i \in 1 .. Len(stack)}
      BY TraversalFacts
    <3>2. visiting' = visiting
      BY <1>4
    <3> QED
      BY <2>1, <3>1, <3>2
  <2>4. visiting' \intersect visited' = {} /\ visited' \subseteq LockedNames
    BY <1>2, <1>4 DEF RestoreInv, TraversalInv
  <2>5. /\ order' \in Seq(Names) /\ Len(order') \in Nat /\ Len(order') >= Len(order)
        /\ visited' = {order'[i] : i \in 1 .. Len(order')}
        /\ \A i, j \in 1 .. Len(order') : order'[i] = order'[j] => i = j
    BY <1>4, TraversalFacts
  <2> QED
    BY <1>2, <2>1, <2>2, <2>3, <2>4, <2>5, Traverses
<1> QED
  BY <1>2, <1>3, <1>4

\* visit returns: the name is ordered.
LEMMA LeaveInv ==
    ASSUME RestoreInv, Leave
    PROVE  RestoreInv'
<1> DEFINE m == Len(stack) - 1
           k == Len(order)
           n == Top.name
<1>1. /\ pc = "order" /\ UNCHANGED <<lockvars, checkout, next, pc, result>> /\ stack # <<>>
      /\ stack' = Below /\ visiting' = visiting \ {n} /\ visited' = visited \union {n}
      /\ order' = Append(order, n)
  BY DEF Leave, Ordering
<1>2. Len(stack) \in Nat /\ Len(stack) > 0 /\ m \in Nat /\ Len(stack) \in 1 .. Len(stack)
  BY <1>1, TraversalFacts, EmptySeq
<1>3. n \in LockedNames /\ n \in Names /\ n \in visiting
  BY <1>2, TraversalFacts DEF Top, Frame
<1>4. /\ stack' \in Seq(Frame) /\ Len(stack') = m
      /\ \A i \in 1 .. m : stack'[i] = stack[i]
  BY <1>1, BelowIs
<1>5. /\ \A i, j \in 1 .. Len(stack') : stack'[i].name = stack'[j].name => i = j
      /\ \A i \in 1 .. Len(stack') : stack'[i].name \in LockedNames /\ stack'[i].rest \subseteq LockedNames
  BY <1>2, <1>4, TraversalFacts
<1>6. visiting' = {stack'[i].name : i \in 1 .. Len(stack')}
  <2>1. \A i \in 1 .. Len(stack) : i \in 1 .. m \/ i = Len(stack)
    BY <1>2
  <2>2. \A i \in 1 .. m : stack[i].name # n
    BY <1>2, TraversalFacts DEF Top
  <2>3. visiting = {stack[i].name : i \in 1 .. Len(stack)} /\ \A i \in 1 .. m : i \in 1 .. Len(stack)
    BY <1>2, TraversalFacts
  <2>4. ASSUME NEW x \in visiting'
        PROVE  \E i \in 1 .. m : stack[i].name = x
    <3>1. x \in visiting /\ x # n
      BY <1>1
    <3>2. PICK i \in 1 .. Len(stack) : stack[i].name = x
      BY <2>3, <3>1
    <3> QED
      BY <2>1, <3>1, <3>2 DEF Top
  <2>5. \A i \in 1 .. m : stack[i].name \in visiting'
    BY <1>1, <2>2, <2>3
  <2> QED
    BY <1>4, <2>4, <2>5
<1>7. visiting' \intersect visited' = {} /\ visited' \subseteq LockedNames
  BY <1>1, <1>3 DEF RestoreInv, TraversalInv
<1>8. n \notin visited
  BY <1>3 DEF RestoreInv, TraversalInv
<1>9. /\ order' \in Seq(Names) /\ Len(order') = k + 1 /\ k \in Nat
      /\ \A i \in 1 .. k : order'[i] = order[i]
      /\ order'[k + 1] = n
  BY <1>1, <1>3, TraversalFacts, AppendProperties
<1>10. visited = {order[i] : i \in 1 .. k} /\ \A i \in 1 .. k + 1 : i \in 1 .. k \/ i = k + 1
  BY <1>9, TraversalFacts
<1>11. visited' = {order'[i] : i \in 1 .. Len(order')}
  <2>1. ASSUME NEW x \in visited'
        PROVE  \E i \in 1 .. k + 1 : order'[i] = x
    <3>1. CASE x = n
      BY <3>1, <1>9
    <3>2. CASE x \in visited
      <4>1. PICK i \in 1 .. k : order[i] = x
        BY <3>2, <1>10
      <4>2. i \in 1 .. k + 1 /\ order'[i] = x
        BY <4>1, <1>9
      <4> QED
        BY <4>2
    <3> QED
      BY <2>1, <3>1, <3>2, <1>1
  <2>2. \A i \in 1 .. k + 1 : order'[i] \in visited'
    BY <1>1, <1>9, <1>10
  <2> QED
    BY <1>9, <2>1, <2>2
<1>12. \A i, j \in 1 .. Len(order') : order'[i] = order'[j] => i = j
  <2>1. \A i \in 1 .. k : order[i] # n
    BY <1>8, <1>10
  <2> QED
    BY <1>9, <1>10, <2>1, TraversalFacts
<1>13. Len(order') \in Nat /\ Len(order') >= Len(order)
  BY <1>9
<1> QED
  BY <1>1, <1>4, <1>5, <1>6, <1>7, <1>9, <1>11, <1>12, <1>13, Traverses

\* The targets are compared once all names are ordered.
LEMMA TargetsInv ==
    ASSUME RestoreInv, RejectTargets \/ AcceptTargets
    PROVE  RestoreInv'
<1>1. /\ pc = "order" /\ UNCHANGED <<lockvars, checkout, next>> /\ UNCHANGED traversal
      /\ stack = <<>> /\ LockedNames = visited
      /\ \/ Collision /\ pc' = "idle" /\ result' = "collision"
         \/ ~Collision /\ pc' = "install" /\ result' = result
  BY DEF RejectTargets, AcceptTargets, Ordered, Ordering
<1>2. FileInv' /\ LockTypeOK' /\ lock' = lock /\ LockedNames' = LockedNames
  BY <1>1, LockStays
<1>3. TypeOK'
  BY <1>1, <1>2 DEF RestoreInv, TypeOK, traversal
<1>4. lock # None /\ result = "none" /\ next = 1
  BY <1>1 DEF RestoreInv, TraversalInv
<1>5. Collision' <=> Collision
  BY <1>1 DEF Collision, traversal
<1>6. Installed(next - 1)'
  BY <1>1, <1>4 DEF Installed
<1>7. stack' = <<>> /\ DOMAIN stack' = {} /\ next' = 1 /\ visited' = visited
      /\ visiting' \intersect visited' = {}
  BY <1>1, <1>4 DEF traversal, RestoreInv, TraversalInv
<1>8. TraversalInv'
  BY <1>1, <1>2, <1>4, <1>5, <1>6, <1>7 DEF TraversalInv
<1> QED
  BY <1>2, <1>3, <1>8 DEF RestoreInv

\* The installer leaves the locked commit at a target no other package has.
LEMMA InstallInv ==
    ASSUME RestoreInv, Install
    PROVE  RestoreInv'
<1> DEFINE n == order[next]
           c == [key |-> Locked(n), commit |-> lock.packages[Locked(n)].commit]
<1>1. /\ pc = "install" /\ UNCHANGED lockvars /\ UNCHANGED traversal /\ next <= Len(order)
      /\ checkout' = [checkout EXCEPT ![Target(n)] = c]
      /\ next' = next + 1 /\ pc' = pc /\ result' = result
  BY DEF Install, Installing
<1>2. /\ FileInv' /\ LockTypeOK' /\ lock' = lock /\ LockedNames' = LockedNames
      /\ \A x : Locked(x)' = Locked(x)
  BY <1>1, LockStays
<1>3. /\ FileInv /\ lock # None /\ LockedNames = visited /\ ~Collision /\ Installed(next - 1)
      /\ result = "none"
  BY <1>1 DEF RestoreInv, TraversalInv
<1>4. next \in 1 .. Len(order) /\ Len(order) \in Nat /\ DOMAIN order = 1 .. Len(order)
  <2>1. next \in 1 .. Len(order) + 1
    BY DEF RestoreInv, TypeOK
  <2> QED
    BY <1>1, <2>1, TraversalFacts
<1>5. n \in LockedNames /\ n \in Names
  BY <1>3, <1>4, LockedNamesTyped, TraversalFacts
<1>6. Locked(n) \in DOMAIN lock.packages /\ DOMAIN lock.packages \subseteq Keys
      /\ lock.packages[Locked(n)].commit \in Commits
  BY <1>3, <1>5, LockedIsIn DEF FileInv, LockTypeOK
<1>7. Target(n) \in Repos /\ c \in [key : Keys, commit : Commits]
  BY <1>5, <1>6, RestoreAssumption DEF Target
<1> HIDE DEF c
<1>8. checkout' \in [Repos -> [key : Keys, commit : Commits] \union {None}]
  BY <1>1, <1>7 DEF RestoreInv, TypeOK
<1>9. next' \in 1 .. Len(order') + 1
  BY <1>1, <1>4 DEF traversal
<1>10. TypeOK'
  BY <1>1, <1>2, <1>8, <1>9 DEF RestoreInv, TypeOK, traversal
<1>11. Installed(next - 1)'
  <2>1. ASSUME NEW i \in 1 .. next
        PROVE  checkout'[Target(order[i])]
                 = [key |-> Locked(order[i]), commit |-> lock.packages[Locked(order[i])].commit]
    <3>1. CASE i = next
      BY <3>1, <1>1, <1>7 DEF c, RestoreInv, TypeOK
    <3>2. CASE i # next
      <4>1. i \in 1 .. next - 1 /\ i \in 1 .. Len(order)
        BY <2>1, <3>2, <1>4
      <4>2. Target(order[i]) # Target(n)
        BY <3>2, <4>1, <1>3, <1>4 DEF Collision
      <4>3. checkout'[Target(order[i])] = checkout[Target(order[i])]
        <5>1. order[i] \in Names
          BY <4>1, TraversalFacts, ElementOfSeq
        <5>2. Target(order[i]) \in Repos
          BY <5>1, RestoreAssumption DEF Target
        <5> QED
          BY <4>2, <5>2, <1>1 DEF RestoreInv, TypeOK
      <4> QED
        BY <4>1, <4>3, <1>3 DEF Installed
    <3> QED
      BY <3>1, <3>2
  <2>2. order' = order /\ next' - 1 = next
    BY <1>1, <1>4 DEF traversal
  <2> QED
    BY <2>1, <2>2, <1>2, <1>1 DEF Installed, Target
<1>12. TraversalInv'
  <2>1. Collision' <=> Collision
    BY <1>1 DEF Collision, traversal
  <2>2. stack' = <<>> /\ visited' = visited /\ visiting' = visiting /\ DOMAIN stack' = {}
    BY <1>1 DEF traversal, RestoreInv, TraversalInv
  <2> QED
    BY <1>1, <1>2, <1>3, <1>11, <2>1, <2>2 DEF RestoreInv, TraversalInv
<1> QED
  BY <1>2, <1>10, <1>12 DEF RestoreInv

\* The call ends in the middle, or after the last package.
LEMMA ReturnInv ==
    ASSUME RestoreInv, FailInstall \/ Finish
    PROVE  RestoreInv'
<1>1. /\ pc = "install" /\ UNCHANGED lockvars /\ UNCHANGED traversal /\ UNCHANGED <<checkout, next>>
      /\ pc' = "idle"
      /\ \/ result' = "failed"
         \/ next > Len(order) /\ result' = "ok"
  BY DEF FailInstall, Finish, Installing
<1>2. /\ FileInv' /\ LockTypeOK' /\ lock' = lock /\ LockedNames' = LockedNames
      /\ \A x : Locked(x)' = Locked(x)
  BY <1>1, LockStays
<1>3. TypeOK'
  BY <1>1, <1>2 DEF RestoreInv, TypeOK, traversal
<1>4. next > Len(order) => next = Len(order) + 1
  <2>1. next \in 1 .. Len(order) + 1
    BY DEF RestoreInv, TypeOK
  <2> QED
    BY <2>1, TraversalFacts
<1>5. /\ Collision' <=> Collision
      /\ Installed(next - 1)' <=> Installed(next - 1)
  BY <1>1, <1>2 DEF Collision, Installed, Target, traversal
<1>6. stack' = <<>> /\ visited' = visited /\ visiting' = visiting /\ order' = order /\ next' = next
      /\ DOMAIN stack' = {}
  BY <1>1 DEF traversal, RestoreInv, TraversalInv
<1>7. TraversalInv'
  BY <1>1, <1>2, <1>4, <1>5, <1>6 DEF RestoreInv, TraversalInv
<1> QED
  BY <1>2, <1>3, <1>7 DEF RestoreInv

\* Every step of Restore, and every step between two calls.
LEMMA NextRestoreInv ==
    ASSUME RestoreInv, [Next]_vars
    PROVE  RestoreInv'
<1>1. ASSUME NEW found \in Resolutions, Write(found)
      PROVE  RestoreInv'
  BY <1>1, BetweenCalls DEF Write
<1>2. ASSUME NEW new \in Manifests, Edit(new)
      PROVE  RestoreInv'
  BY <1>2, BetweenCalls DEF Edit, EditManifest
<1>3. CASE LoadLock
  BY <1>3, BetweenCalls DEF LoadLock
<1>4. CASE UNCHANGED vars
  <2>1. FileInv' /\ LockTypeOK' /\ lock' = lock /\ LockedNames' = LockedNames
        /\ \A x : Locked(x)' = Locked(x)
    BY <1>4, LockStays DEF vars
  <2>2. UNCHANGED <<checkout, stack, visiting, visited, order, next, pc, result>>
    BY <1>4 DEF vars, traversal
  <2>3. (Collision' <=> Collision) /\ (Installed(next - 1)' <=> Installed(next - 1))
    BY <2>1, <2>2 DEF Collision, Installed, Target
  <2>4. TypeOK'
    BY <2>1, <2>2 DEF RestoreInv, TypeOK
  <2>5. TraversalInv'
    BY <2>1, <2>2, <2>3 DEF RestoreInv, TraversalInv
  <2> QED
    BY <2>1, <2>4, <2>5 DEF RestoreInv
<1>5. CASE Begin
  BY <1>5, BeginInv
<1>6. CASE Step
  BY <1>6, VisitRootInv, VisitDependencyInv, LeaveInv, TargetsInv, InstallInv, ReturnInv DEF Step
<1> QED
  BY <1>1, <1>2, <1>3, <1>4, <1>5, <1>6 DEF Next

\* The inductive invariant of the document and the restore.
THEOREM RestoreInvariant == Spec => []RestoreInv
  BY InitRestoreInv, NextRestoreInv, PTL DEF Spec

\* Every variable keeps its type, and the traversal never holds a name twice
\* (restore.go, visit).
THEOREM RestoreTypeCorrect == Spec => []TypeOK
<1>1. RestoreInv => TypeOK
  BY DEF RestoreInv
<1> QED
  BY <1>1, RestoreInvariant, PTL

\* A restore that succeeds has every locked package at its own directory and commit,
\* for any graph, with cycles or not, and whatever was there before (restore.go).
THEOREM RestoreIsComplete == Spec => []RestoreInstalls
<1>1. ASSUME RestoreInv, result = "ok", ~lock.diagnosed, NEW k \in DOMAIN lock.packages
      PROVE  checkout[Target(lock.packages[k].name)] = [key |-> k, commit |-> lock.packages[k].commit]
  <2> DEFINE n == lock.packages[k].name
  <2>1. lock # None /\ LockedNames = visited /\ Installed(Len(order)) /\ FileInv
    <3>1. next - 1 = Len(order)
      BY <1>1, TraversalFacts DEF RestoreInv, TraversalInv
    <3> QED
      BY <1>1, <3>1 DEF RestoreInv, TraversalInv
  <2>2. n \in visited
    BY <2>1 DEF LockedNames
  <2>3. PICK i \in 1 .. Len(order) : order[i] = n
    BY <1>1, <2>2, TraversalFacts
  <2>4. NamesDistinct /\ DOMAIN lock.packages = DOMAIN resolved
    BY <1>1, <2>1 DEF FileInv, LoadsBack
  <2>5. \A j \in DOMAIN resolved : lock.packages[j].name = name[j]
    BY <2>1 DEF FileInv, Loaded
  <2>6. {j \in DOMAIN lock.packages : lock.packages[j].name = n} = {k}
    BY <1>1, <2>4, <2>5 DEF NamesDistinct
  <2>7. Locked(n) = k
    <3>1. {k} \in SUBSET Keys
      BY <1>1, <2>1 DEF FileInv, LockTypeOK
    <3>2. Last({k}) \in {k}
      BY <3>1, LastIsIn
    <3> QED
      BY <2>6, <3>2 DEF Locked, Named
  <2> QED
    BY <2>1, <2>3, <2>7 DEF Installed
<1>2. RestoreInv => RestoreInstalls
  BY <1>1 DEF RestoreInstalls
<1> QED
  BY <1>2, RestoreInvariant, PTL

-----------------------------------------------------------------------------
(***************************************************************************)
(* The order of the traversal.                                             *)
(***************************************************************************)
\* A call of visit is made for a dependency of the call below it.
Path ==
    \A i, j \in 1 .. Len(stack) : i < j => stack[j].name \in Reachable(stack[i].name)

\* A dependency that is not left to try has been met.
Tried ==
    \A i \in 1 .. Len(stack) :
        /\ stack[i].rest \subseteq DependsOn(stack[i].name)
        /\ DependsOn(stack[i].name) \subseteq stack[i].rest \union visited \union visiting

\* What a name depends on comes before it, or depends on it in turn.
Before ==
    \A i \in 1 .. Len(order) : \A d \in DependsOn(order[i]) :
        (\E j \in 1 .. i : order[j] = d) \/ order[i] \in Reachable(d)

OrderInv == pc \in {"order", "install"} => Path /\ Tried /\ Before

-----------------------------------------------------------------------------
\* What n depends on can be reached from it.
LEMMA ReachesDependency ==
    ASSUME FileInv, lock # None, NEW n \in LockedNames, NEW d \in DependsOn(n)
    PROVE  d \in Reachable(n)
BY LockedIsIn DEF DependsOn, Reachable

\* What is reached from n leads on.
LEMMA ReachesOn ==
    ASSUME FileInv, lock # None, NEW n, NEW m \in Reachable(n), NEW d \in DependsOn(m)
    PROVE  d \in Reachable(n)
<1>1. m \in LockedNames
  BY DEF Reachable
<1>2. d \in LockedNames
  BY <1>1, LockedIsIn DEF DependsOn
<1> QED
  BY <1>2 DEF Reachable

\* The graph is that of the lock.
LEMMA GraphStays ==
    ASSUME RestoreInv, UNCHANGED lockvars
    PROVE  \A n : DependsOn(n)' = DependsOn(n) /\ Reachable(n)' = Reachable(n)
<1>1. lock' = lock /\ LockedNames' = LockedNames /\ \A n : Locked(n)' = Locked(n)
  BY LockStays
<1>2. \A n : DependsOn(n)' = DependsOn(n)
  BY <1>1 DEF DependsOn
<1> QED
  BY <1>1, <1>2 DEF Reachable

\* visit enters a dependency of the call on top, or the first name.
LEMMA EnterOrder ==
    ASSUME RestoreInv, OrderInv, pc = "order", UNCHANGED <<lockvars, pc>>,
           NEW n \in LockedNames \ (visited \union visiting), NEW below, LikeStack(below),
           Len(stack) > 0 => n \in DependsOn(stack[Len(stack)].name),
           \A i \in 1 .. Len(stack) : /\ below[i].rest \subseteq stack[i].rest
                                      /\ stack[i].rest \subseteq below[i].rest \union {n},
           Enter(n, below)
    PROVE  OrderInv'
<1> DEFINE f == [name |-> n, rest |-> lock.packages[Locked(n)].dependencies]
           k == Len(stack)
<1>1. /\ stack' = Append(below, f) /\ visiting' = visiting \union {n}
      /\ visited' = visited /\ order' = order /\ pc' = "order"
  BY DEF Enter
<1>2. lock # None /\ FileInv
  BY DEF RestoreInv, TraversalInv
<1>3. k \in Nat /\ \A i \in 1 .. k : stack[i].name \in LockedNames
  BY TraversalFacts
<1>4. below \in Seq(Frame) /\ Len(below) = k /\ \A i \in 1 .. k : below[i].name = stack[i].name
  BY DEF LikeStack
<1>5. f \in Frame /\ f.name = n /\ f.rest = DependsOn(n)
  <2>1. LockedNames \subseteq Names /\ lock.packages[Locked(n)].dependencies \subseteq LockedNames
    BY <1>2, LockedNamesTyped, LockedIsIn
  <2> QED
    BY <2>1 DEF Frame, DependsOn
<1> HIDE DEF f
<1>6. /\ Len(stack') = k + 1 /\ stack'[k + 1] = f
      /\ \A i \in 1 .. k : stack'[i] = below[i] /\ stack'[i].name = stack[i].name
  BY <1>1, <1>4, <1>5, AppendProperties
<1>7. \A x : DependsOn(x)' = DependsOn(x) /\ Reachable(x)' = Reachable(x)
  BY GraphStays
<1>8. Path /\ Tried /\ Before
  BY DEF OrderInv
<1>9. \A i \in 1 .. k + 1 : i \in 1 .. k \/ i = k + 1
  BY <1>3
<1>10. ASSUME NEW i \in 1 .. k
       PROVE  n \in Reachable(stack[i].name)
  <2>1. k > 0 /\ k \in 1 .. k /\ n \in DependsOn(stack[k].name)
    BY <1>3
  <2>2. CASE i = k
    BY <2>1, <2>2, <1>2, <1>3, ReachesDependency
  <2>3. CASE i # k
    <3>1. stack[k].name \in Reachable(stack[i].name)
      BY <2>1, <2>3, <1>3, <1>8 DEF Path
    <3> QED
      BY <2>1, <3>1, <1>2, ReachesOn
  <2> QED
    BY <2>2, <2>3
<1>11. Path'
  <2> SUFFICES ASSUME NEW i \in 1 .. k + 1, NEW j \in 1 .. k + 1, i < j
               PROVE  stack'[j].name \in Reachable(stack'[i].name)
    BY <1>6, <1>7 DEF Path
  <2>1. i \in 1 .. k /\ stack'[i].name = stack[i].name
    BY <1>3, <1>6, <1>9
  <2>2. CASE j \in 1 .. k
    BY <2>1, <2>2, <1>6, <1>8 DEF Path
  <2>3. CASE j = k + 1
    BY <2>1, <2>3, <1>5, <1>6, <1>10
  <2> QED
    BY <2>2, <2>3, <1>9
<1>12. Tried'
  <2> SUFFICES ASSUME NEW i \in 1 .. k + 1
               PROVE  /\ stack'[i].rest \subseteq DependsOn(stack'[i].name)
                      /\ DependsOn(stack'[i].name) \subseteq stack'[i].rest \union visited' \union visiting'
    BY <1>6, <1>7 DEF Tried
  <2>1. CASE i \in 1 .. k
    <3>1. /\ stack[i].rest \subseteq DependsOn(stack[i].name)
          /\ DependsOn(stack[i].name) \subseteq stack[i].rest \union visited \union visiting
      BY <2>1, <1>8 DEF Tried
    <3>2. /\ stack'[i].rest \subseteq stack[i].rest /\ stack[i].rest \subseteq stack'[i].rest \union {n}
          /\ stack'[i].name = stack[i].name
      BY <2>1, <1>6
    <3> QED
      BY <1>1, <3>1, <3>2
  <2>2. CASE i = k + 1
    BY <2>2, <1>5, <1>6
  <2> QED
    BY <2>1, <2>2, <1>9
<1>13. Before'
  BY <1>1, <1>7, <1>8 DEF Before
<1> QED
  BY <1>11, <1>12, <1>13 DEF OrderInv

\* The loop over the names enters one that is left.
LEMMA VisitRootOrder ==
    ASSUME RestoreInv, OrderInv, VisitRoot
    PROVE  OrderInv'
<1>1. lock # None /\ FileInv /\ pc = "order" /\ visited \subseteq LockedNames
  BY DEF RestoreInv, TraversalInv, VisitRoot, Ordering
<1>2. stack = <<>> /\ visiting = {} /\ LockedNames # visited
  BY DEF VisitRoot, RestoreInv, TypeOK
<1>3. First(LockedNames \ visited) \in LockedNames \ visited
  BY <1>1, <1>2, LockedNamesTyped, FirstIsIn
<1>4. LikeStack(<<>>) /\ Len(stack) = 0
  BY <1>2, EmptySeq DEF LikeStack
<1>5. UNCHANGED <<lockvars, pc>> /\ Enter(First(LockedNames \ visited), <<>>)
  BY DEF VisitRoot, Ordering
<1> HIDE DEF First
<1> QED
  BY <1>1, <1>2, <1>3, <1>4, <1>5, EnterOrder

\* The loop over the dependencies takes the one it tries, and no other.
LEMMA TriedRests ==
    ASSUME RestoreInv, stack # <<>>, Top.rest # {}
    PROVE  LET d == First(Top.rest)
               tried == Append(Below, [Top EXCEPT !.rest = @ \ {d}])
           IN /\ d \in Top.rest /\ Top = stack[Len(stack)] /\ Len(stack) \in 1 .. Len(stack)
              /\ \A i \in 1 .. Len(stack) : /\ tried[i].rest \subseteq stack[i].rest
                                            /\ stack[i].rest \subseteq tried[i].rest \union {d}
<1> DEFINE d == First(Top.rest)
           f == [Top EXCEPT !.rest = @ \ {d}]
           tried == Append(Below, f)
           k == Len(stack)
<1>1. /\ k \in Nat /\ k > 0 /\ k \in 1 .. k /\ k - 1 \in Nat /\ k - 1 + 1 = k
      /\ \A i \in 1 .. k : i \in 1 .. k - 1 \/ i = k
  <2>1. k \in Nat /\ k # 0
    BY TraversalFacts, EmptySeq
  <2> HIDE DEF k
  <2> QED
    BY <2>1
<1>2. Top = stack[k] /\ Top \in Frame
  BY <1>1, TraversalFacts DEF Top
<1>3. d \in Top.rest
  <2>1. Top.rest \in SUBSET Names
    BY <1>2 DEF Frame
  <2> QED
    BY <2>1, FirstIsIn
<1>4. f \in Frame /\ f.rest = Top.rest \ {d}
  BY <1>2 DEF Frame
<1>5. /\ Below \in Seq(Frame) /\ Len(Below) = k - 1
      /\ \A i \in 1 .. k - 1 : Below[i] = stack[i]
  BY BelowIs
<1> HIDE DEF f, d
<1>6. /\ \A i \in 1 .. k - 1 : tried[i] = stack[i]
      /\ tried[k] = f
  <2>1. /\ Len(Append(Below, f)) = k - 1 + 1
        /\ \A i \in 1 .. k - 1 : Append(Below, f)[i] = Below[i]
        /\ Append(Below, f)[k - 1 + 1] = f
    BY <1>4, <1>5, AppendProperties
  <2> QED
    BY <2>1, <1>1, <1>5
<1> HIDE DEF tried
<1>7. \A i \in 1 .. k : /\ tried[i].rest \subseteq stack[i].rest
                        /\ stack[i].rest \subseteq tried[i].rest \union {d}
  BY <1>1, <1>2, <1>4, <1>6
<1> QED
  BY <1>1, <1>2, <1>3, <1>7 DEF tried, f, d

\* visit enters a dependency, or has met it before.
LEMMA VisitDependencyOrder ==
    ASSUME RestoreInv, OrderInv, VisitDependency
    PROVE  OrderInv'
<1> DEFINE d == First(Top.rest)
           tried == Append(Below, [Top EXCEPT !.rest = @ \ {d}])
           k == Len(stack)
<1>1. d \in LockedNames /\ LikeStack(tried)
  BY TriedIsLike DEF VisitDependency
<1>2. /\ d \in Top.rest /\ Top = stack[k] /\ k \in 1 .. k
      /\ \A i \in 1 .. k : /\ tried[i].rest \subseteq stack[i].rest
                           /\ stack[i].rest \subseteq tried[i].rest \union {d}
  BY TriedRests DEF VisitDependency
<1>3. /\ \/ d \notin visited \union visiting /\ Enter(d, tried)
         \/ d \in visited \union visiting /\ stack' = tried /\ UNCHANGED <<visiting, visited, order>>
      /\ pc = "order" /\ UNCHANGED <<lockvars, pc>>
  BY DEF VisitDependency, Ordering
<1> HIDE DEF d, tried
<1>4. Path /\ Tried /\ Before
  BY <1>3 DEF OrderInv
<1>5. d \in DependsOn(stack[k].name)
  BY <1>2, <1>4 DEF Tried
<1>6. CASE d \notin visited \union visiting /\ Enter(d, tried)
  BY <1>1, <1>2, <1>3, <1>5, <1>6, EnterOrder
<1>7. CASE d \in visited \union visiting /\ stack' = tried /\ UNCHANGED <<visiting, visited, order>>
  <2>1. \A x : DependsOn(x)' = DependsOn(x) /\ Reachable(x)' = Reachable(x)
    BY <1>3, GraphStays
  <2>2. Len(stack') = k /\ \A i \in 1 .. k : stack'[i].name = stack[i].name
    BY <1>1, <1>7 DEF LikeStack
  <2>3. Path'
    BY <2>1, <2>2, <1>4 DEF Path
  <2>4. Before'
    BY <2>1, <1>4, <1>7 DEF Before
  <2>5. ASSUME NEW i \in 1 .. k
        PROVE  /\ stack'[i].rest \subseteq DependsOn(stack[i].name)
               /\ DependsOn(stack[i].name) \subseteq stack'[i].rest \union visited \union visiting
    <3>1. /\ stack[i].rest \subseteq DependsOn(stack[i].name)
          /\ DependsOn(stack[i].name) \subseteq stack[i].rest \union visited \union visiting
      BY <1>4 DEF Tried
    <3>2. /\ stack'[i].rest \subseteq stack[i].rest
          /\ stack[i].rest \subseteq stack'[i].rest \union {d}
      BY <1>2, <1>7
    <3> QED
      BY <3>1, <3>2, <1>7
  <2>6. Tried'
    BY <2>1, <2>2, <2>5, <1>7 DEF Tried
  <2> QED
    BY <2>3, <2>4, <2>6 DEF OrderInv
<1> QED
  BY <1>3, <1>6, <1>7

\* visit returns: whatever the name depends on comes before it, or is on the stack.
LEMMA LeaveOrder ==
    ASSUME RestoreInv, OrderInv, Leave
    PROVE  OrderInv'
<1> DEFINE m == Len(stack) - 1
           k == Len(order)
           n == Top.name
<1>1. /\ pc = "order" /\ UNCHANGED <<lockvars, pc>> /\ stack # <<>> /\ Top.rest = {}
      /\ stack' = Below /\ visiting' = visiting \ {n} /\ visited' = visited \union {n}
      /\ order' = Append(order, n)
  BY DEF Leave, Ordering
<1>2. /\ Len(stack) \in Nat /\ Len(stack) > 0 /\ m \in Nat /\ Len(stack) \in 1 .. Len(stack)
      /\ Top = stack[Len(stack)]
  BY <1>1, TraversalFacts, EmptySeq DEF Top
<1>3. n \in Names
  BY <1>2, TraversalFacts DEF Frame
<1>4. Len(stack') = m /\ \A i \in 1 .. m : stack'[i] = stack[i]
  BY <1>1, BelowIs
<1>5. /\ Len(order') = k + 1 /\ k \in Nat
      /\ \A i \in 1 .. k : order'[i] = order[i]
      /\ order'[k + 1] = n
  BY <1>1, <1>3, TraversalFacts, AppendProperties
<1>6. \A x : DependsOn(x)' = DependsOn(x) /\ Reachable(x)' = Reachable(x)
  BY <1>1, GraphStays
<1>7. Path /\ Tried /\ Before
  BY <1>1 DEF OrderInv
<1>8. \A i \in 1 .. m : i \in 1 .. Len(stack)
  BY <1>2
<1>9. Path'
  BY <1>4, <1>6, <1>7, <1>8 DEF Path
<1>10. Tried'
  <2> SUFFICES ASSUME NEW i \in 1 .. m
               PROVE  /\ stack[i].rest \subseteq DependsOn(stack[i].name)
                      /\ DependsOn(stack[i].name) \subseteq stack[i].rest \union visited' \union visiting'
    BY <1>4, <1>6 DEF Tried
  <2>1. /\ stack[i].rest \subseteq DependsOn(stack[i].name)
        /\ DependsOn(stack[i].name) \subseteq stack[i].rest \union visited \union visiting
    BY <1>7, <1>8 DEF Tried
  <2> QED
    BY <2>1, <1>1
<1>11. ASSUME NEW d \in DependsOn(n)
       PROVE  (\E j \in 1 .. k + 1 : order'[j] = d) \/ n \in Reachable(d)
  <2>1. d \in visited \union visiting
    BY <1>1, <1>2, <1>7 DEF Tried
  <2>2. CASE d \in visited
    <3>1. PICK j \in 1 .. k : order[j] = d
      BY <2>2, TraversalFacts
    <3>2. j \in 1 .. k + 1 /\ order'[j] = d
      BY <3>1, <1>5
    <3> QED
      BY <3>2
  <2>3. CASE d \in visiting
    <3>1. PICK i \in 1 .. Len(stack) : stack[i].name = d
      BY <2>3, TraversalFacts
    <3>2. CASE i = Len(stack)
      <4>1. k + 1 \in 1 .. k + 1 /\ order'[k + 1] = d
        BY <3>1, <3>2, <1>2, <1>5
      <4> QED
        BY <4>1
    <3>3. CASE i # Len(stack)
      <4>1. i < Len(stack)
        BY <3>3, <1>2
      <4> QED
        BY <4>1, <3>1, <1>2, <1>7 DEF Path
    <3> QED
      BY <3>2, <3>3
  <2> QED
    BY <2>1, <2>2, <2>3
<1>12. Before'
  <2> SUFFICES ASSUME NEW i \in 1 .. k + 1, NEW d \in DependsOn(order'[i])
               PROVE  (\E j \in 1 .. i : order'[j] = d) \/ order'[i] \in Reachable(d)
    BY <1>5, <1>6 DEF Before
  <2>1. CASE i = k + 1
    BY <2>1, <1>5, <1>11
  <2>2. CASE i # k + 1
    <3>1. i \in 1 .. k /\ order'[i] = order[i]
      BY <2>2, <1>5
    <3>2. CASE order[i] \in Reachable(d)
      BY <3>1, <3>2
    <3>3. CASE \E j \in 1 .. i : order[j] = d
      <4>1. PICK j \in 1 .. i : order[j] = d
        BY <3>3
      <4>2. j \in 1 .. k
        BY <3>1, <1>5
      <4> QED
        BY <4>1, <4>2, <1>5
    <3> QED
      BY <3>1, <3>2, <3>3, <1>7 DEF Before
  <2> QED
    BY <2>1, <2>2
<1> QED
  BY <1>9, <1>10, <1>12 DEF OrderInv

\* While targets are compared and packages installed the order stays.
LEMMA OrderStays ==
    ASSUME RestoreInv, OrderInv, pc \in {"order", "install"},
           UNCHANGED lockvars, UNCHANGED traversal
    PROVE  OrderInv'
<1>1. \A x : DependsOn(x)' = DependsOn(x) /\ Reachable(x)' = Reachable(x)
  BY GraphStays
<1>2. UNCHANGED <<stack, visiting, visited, order>>
  BY DEF traversal
<1>3. Path /\ Tried /\ Before
  BY DEF OrderInv
<1>4. Path' /\ Tried' /\ Before'
  BY <1>1, <1>2, <1>3 DEF Path, Tried, Before
<1> QED
  BY <1>4 DEF OrderInv

\* A call begins with nothing ordered.
LEMMA BeginOrder ==
    ASSUME Begin
    PROVE  OrderInv'
<1>1. stack' = <<>> /\ order' = <<>> /\ Len(<<>>) = 0
  BY EmptySeq DEF Begin
<1> QED
  BY <1>1 DEF OrderInv, Path, Tried, Before

LEMMA NextOrderInv ==
    ASSUME RestoreInv, OrderInv, [Next]_vars
    PROVE  OrderInv'
<1>1. ASSUME pc' = "idle"
      PROVE  OrderInv'
  BY <1>1 DEF OrderInv
<1>2. CASE Begin
  BY <1>2, BeginOrder
<1>3. CASE VisitRoot \/ VisitDependency \/ Leave
  BY <1>3, VisitRootOrder, VisitDependencyOrder, LeaveOrder
<1>4. CASE RejectTargets \/ FailInstall \/ Finish
  BY <1>4, <1>1 DEF RejectTargets, FailInstall, Finish
<1>5. CASE AcceptTargets \/ Install
  <2>1. pc \in {"order", "install"} /\ UNCHANGED lockvars /\ UNCHANGED traversal
    BY <1>5 DEF AcceptTargets, Ordered, Ordering, Install, Installing
  <2> QED
    BY <2>1, OrderStays
<1>6. ASSUME NEW found \in Resolutions, Write(found)
      PROVE  OrderInv'
  BY <1>1, <1>6 DEF Write
<1>7. ASSUME NEW new \in Manifests, Edit(new)
      PROVE  OrderInv'
  BY <1>1, <1>7 DEF Edit
<1>8. CASE LoadLock
  BY <1>1, <1>8 DEF LoadLock
<1>9. CASE UNCHANGED vars
  <2>1. UNCHANGED lockvars /\ UNCHANGED traversal /\ pc' = pc
    BY <1>9 DEF vars
  <2>2. CASE pc \in {"order", "install"}
    BY <2>1, <2>2, OrderStays
  <2>3. CASE pc \notin {"order", "install"}
    BY <2>1, <2>3 DEF OrderInv
  <2> QED
    BY <2>2, <2>3
<1> QED
  BY <1>2, <1>3, <1>4, <1>5, <1>6, <1>7, <1>8, <1>9 DEF Next, Step

\* The inductive invariant of the order: a dependency that is met again comes before,
\* or leads back (restore.go, orderedPackages).
THEOREM OrderInvariant == Spec => [](RestoreInv /\ OrderInv)
<1>1. Init => OrderInv
  BY DEF Init, InitRestore, OrderInv
<1>2. RestoreInv /\ OrderInv /\ [Next]_vars => (RestoreInv /\ OrderInv)'
  BY NextRestoreInv, NextOrderInv
<1> QED
  BY <1>1, <1>2, InitRestoreInv, PTL DEF Spec

\* No package is installed before one it depends on unless the two are in a cycle,
\* for any graph (restore.go, orderedPackages).
THEOREM DependenciesComeFirst == Spec => []DependenciesFirst
<1>1. ASSUME RestoreInv, OrderInv, pc = "install", NEW i \in DOMAIN order, NEW j \in DOMAIN order,
             order[j] \in DependsOn(order[i])
      PROVE  j <= i \/ order[i] \in Reachable(order[j])
  <2>1. /\ DOMAIN order = 1 .. Len(order) /\ Len(order) \in Nat
        /\ \A x, y \in 1 .. Len(order) : order[x] = order[y] => x = y
    BY <1>1, TraversalFacts
  <2>2. (\E x \in 1 .. i : order[x] = order[j]) \/ order[i] \in Reachable(order[j])
    BY <1>1, <2>1 DEF OrderInv, Before
  <2>3. ASSUME NEW x \in 1 .. i, order[x] = order[j]
        PROVE  j <= i
    <3>1. x \in 1 .. Len(order) /\ i \in 1 .. Len(order) /\ j \in 1 .. Len(order)
      BY <2>1
    <3>2. x = j
      BY <2>1, <2>3, <3>1
    <3> QED
      BY <3>1, <3>2
  <2> QED
    BY <2>2, <2>3
<1>2. RestoreInv /\ OrderInv => DependenciesFirst
  BY <1>1 DEF DependenciesFirst
<1> QED
  BY <1>2, OrderInvariant, PTL
=============================================================================
