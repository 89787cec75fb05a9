---------------------------- MODULE ResourceLock ----------------------------
(***************************************************************************)
(* The resource records of pawn.lock over the life of a project: the       *)
(* dependency writer (src/lockfile/dependencies_write.go) drops the records *)
(* of changed packages, ResourceResolver (resource_resolver.go) rewrites   *)
(* the records of one target from the checked-out manifests, and           *)
(* ResourceRestorer (resource_restore.go) installs the records of one      *)
(* target.  The calls come from one tool at a time, in any order.          *)
(***************************************************************************)
EXTENDS Integers, Sequences, FiniteSets

CONSTANTS
    Packages,       \* dependency keys
    BinaryKinds,    \* packages of a kind that must declare resources
    Commits,
    Names,          \* names (patterns) of resources
    Platforms,      \* a target is a platform and an architecture
    Archs,
    Versions,       \* runtime versions; "" is none
    None            \* not in the lock, not checked out

ASSUME LockAssumption ==
    /\ BinaryKinds \subseteq Packages
    /\ None \notin Commits
    /\ "" \in Versions

Targets == Platforms \X Archs
Resources == [name : Names, platform : Platforms, version : Versions]
Records == [package : Packages, resource : Names, target : Targets, commit : Commits]

VARIABLES
    declared,   \* the resources a package declares at a commit, in order
    locked,     \* the commit of each package in the lock, or None
    records,    \* pawnkit.resources; commit is where the asset came from (history)
    checkout,   \* the commit of each package below dependencies/, or None
    stale,      \* a resolution read a checkout that was not the locked commit (history)
    last        \* the last call, its target, its runtime version and its outcome

vars == <<declared, locked, records, checkout, stale, last>>

Call(op, target, version, ok) ==
    [op |-> op, target |-> target, version |-> version, ok |-> ok]

\* declared is chosen by the module that checks.
InitLock ==
    /\ locked = [p \in Packages |-> None]
    /\ records = {}
    /\ checkout = [p \in Packages |-> None]
    /\ stale = FALSE
    /\ last = Call("none", None, "", TRUE)

InLock == {p \in Packages : locked[p] # None}

\* A wrong form: a package is compared by its key alone.
KeptByKey(now) == {r \in records : locked[r.package] # None /\ now[r.package] # None}

\* filterChangedResourceRecords: a record stays when its package had the same
\* commit in the lock before.
Kept(now) ==
    {r \in records : locked[r.package] # None /\ locked[r.package] = now[r.package]}

\* MarshalSampctlDependencies with the packages a resolution found.
WriteDependencies(now) ==
    /\ locked' = now
    /\ records' = Kept(now)
    /\ last' = Call("write", None, "", TRUE)
    /\ UNCHANGED <<declared, checkout, stale>>

\* Restorer.Restore checks the packages out one after the other and may stop
\* after any of them.
Checkout(done) ==
    /\ checkout' = [p \in Packages |-> IF p \in done THEN locked[p] ELSE checkout[p]]
    /\ last' = Call("checkout", None, "", done = InLock)
    /\ UNCHANGED <<declared, locked, records, stale>>

\* loadResourceManifest reads what is checked out, whatever the lock says.
Declared(p) == IF checkout[p] = None THEN <<>> ELSE declared[p][checkout[p]]

\* The first of the entries of s at the indices hits, or none.
FirstAt(s, hits) ==
    IF hits = {} THEN {} ELSE {s[CHOOSE i \in hits : \A j \in hits : i <= j]}

\* SelectManifestResource: the exact version, then the platform default (which
\* is also what no version asks for).
SelectManifestResource(s, target, version) ==
    LET At(v) == {i \in DOMAIN s : s[i].platform = target[1] /\ s[i].version = v}
    IN FirstAt(s, IF At(version) # {} THEN At(version) ELSE At(""))

\* The packages a resolution looks for resources in; the others are skipped.
Offering == {p \in InLock : Declared(p) # <<>>}

\* Every package can be resolved: none of a binary kind lacks resources, and
\* every other one has a resource for the target.
Resolvable(target, version) ==
    /\ InLock \intersect BinaryKinds \subseteq Offering
    /\ \A p \in Offering : SelectManifestResource(Declared(p), target, version) # {}

\* The records of a target, one per offering package; the assets are those of
\* the locked commit.
Resolved(target, version) ==
    UNION {{[package |-> p, resource |-> r.name, target |-> target, commit |-> locked[p]] :
               r \in SelectManifestResource(Declared(p), target, version)} : p \in Offering}

\* A wrong form: the records of the architecture's other platforms go as well.
ResolveResourcesForgetting(target, version) ==
    /\ Resolvable(target, version)
    /\ records' = Resolved(target, version)
    /\ stale' = stale
    /\ last' = Call("resolve", target, version, TRUE)
    /\ UNCHANGED <<declared, locked, checkout>>

\* A wrong form: a record is replaced only by one of the same name.
ResolveResourcesMerging(target, version) ==
    /\ Resolvable(target, version)
    /\ records' = Resolved(target, version) \union records
    /\ stale' = stale
    /\ last' = Call("resolve", target, version, TRUE)
    /\ UNCHANGED <<declared, locked, checkout>>

\* validateResourceUpdate: records are of packages in the lock, one per package,
\* resource and target.
Accepted(new) ==
    \A r \in new :
        /\ r.package \in InLock
        /\ \A s \in new :
              r.package = s.package /\ r.resource = s.resource /\ r.target = s.target => r = s

\* MarshalSampctlResources replaces the records and nothing else, or refuses.
MarshalSampctlResources(new) ==
    /\ Accepted(new)
    /\ records' = new

\* ResourceResolver.Resolve and MarshalSampctlResources: all records of the
\* target are new, those of the other targets stay.
ResolveResources(target, version) ==
    /\ Resolvable(target, version)
    /\ MarshalSampctlResources(Resolved(target, version)
                                   \union {r \in records : r.target # target})
    /\ stale' = (stale \/ \E p \in InLock : checkout[p] # locked[p])
    /\ last' = Call("resolve", target, version, TRUE)
    /\ UNCHANGED <<declared, locked, checkout>>

\* A package without resources for the target, an error of the release provider
\* or a download, or an update that is not accepted: nothing is written.
FailResolve(target, version) ==
    /\ last' = Call("resolve", target, version, FALSE)
    /\ UNCHANGED <<declared, locked, records, checkout, stale>>

\* HasCompleteTarget: every offering package has a record of the target for the
\* resource its manifest selects.
HasCompleteTarget(target, version) ==
    /\ Resolvable(target, version)
    /\ \A p \in Offering : \A r \in SelectManifestResource(Declared(p), target, version) :
           \E x \in records : x.package = p /\ x.resource = r.name /\ x.target = target

\* selectTargetResources: every package and resource name with a record has one
\* for the target.
Restorable(target) ==
    \A r \in records :
        \E x \in records :
            x.package = r.package /\ x.resource = r.resource /\ x.target = target

\* ResourceRestorer.Restore; installing its payload is ResourceInstall.
RestoreResources(target) ==
    /\ \E ok \in BOOLEAN :
          /\ ok => Restorable(target)
          /\ last' = Call("restore", target, "", ok)
    /\ UNCHANGED <<declared, locked, records, checkout, stale>>

Next ==
    \/ \E now \in [Packages -> Commits \union {None}] : WriteDependencies(now)
    \/ \E done \in SUBSET InLock : Checkout(done)
    \/ \E t \in Targets, v \in Versions : ResolveResources(t, v) \/ FailResolve(t, v)
    \/ \E t \in Targets : RestoreResources(t)

Init ==
    /\ declared \in [Packages -> [Commits -> Seq(Resources)]]
    /\ InitLock

Spec == Init /\ [][Next]_vars

-----------------------------------------------------------------------------
\* Records are of packages in the lock, or the next Load reports them.
TypeOK ==
    /\ declared \in [Packages -> [Commits -> Seq(Resources)]]
    /\ locked \in [Packages -> Commits \union {None}]
    /\ records \subseteq Records
    /\ \A r \in records : r.package \in InLock
    /\ checkout \in [Packages -> Commits \union {None}]
    /\ stale \in BOOLEAN
    /\ last \in [op : {"none", "write", "checkout", "resolve", "restore"},
                 target : Targets \union {None}, version : Versions, ok : BOOLEAN]

\* Every record in the lock is of a package in the lock and of an asset of its
\* locked commit, in whatever order dependencies and resources of whatever
\* targets were updated.
RecordsCurrent ==
    \A r \in records : locked[r.package] = r.commit

\* A package has at most one record per target, also after its resource was
\* renamed between two commits or selected for another runtime version.
OneRecordPerTarget ==
    \A r, s \in records : r.package = s.package /\ r.target = s.target => r = s

\* A resolution of one target leaves the records of every other target alone,
\* and an update of one dependency those of every other dependency.
OthersKept ==
    [][\A r \in records :
          \/ r \in records'
          \/ last'.op = "resolve" /\ r.target = last'.target
          \/ last'.op = "write" /\ locked'[r.package] # locked[r.package]]_vars

\* Where packages name their resources alike on all platforms, at all commits
\* and for all versions, a target that is complete can be restored, as long as
\* resolutions read restored checkouts.
OneName ==
    \A p \in Packages : \A c, d \in Commits :
        \A i \in DOMAIN declared[p][c], j \in DOMAIN declared[p][d] :
            declared[p][c][i].name = declared[p][d][j].name

CompleteIsRestorable ==
    \A t \in Targets, v \in Versions :
        /\ OneName /\ ~stale
        /\ \A p \in InLock : checkout[p] = locked[p]
        /\ HasCompleteTarget(t, v)
        => Restorable(t)

\* resource_restore.go:38 "Restore installs every locked resource for target
\* below root.": after a resolution of the target that succeeded it can.
ResolvedIsRestorable ==
    last.op = "resolve" /\ last.ok /\ ~stale => Restorable(last.target)
=============================================================================
