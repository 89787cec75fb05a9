---------------------------- MODULE GraphResolve ----------------------------
(***************************************************************************)
(* GraphResolver.ResolveWithOptions (src/dependency/resolution.go): a      *)
(* breadth-first traversal of the dependency graph that starts at the      *)
(* direct dependencies of the project, applies overrides to the transitive *)
(* ones, merges requests for one repository and rejects conflicting        *)
(* constraints.  One iteration of the loop is one action: the traversal is *)
(* sequential, and only the provider is outside.                           *)
(*                                                                         *)
(* A repository is an id.  The provider may tell that an id is an alias of *)
(* another (a renamed repository); canon says so.  A constraint stands for *)
(* the reference a dependency names.  The reference "" is a moving one (the *)
(* remote's HEAD): Again resolves the project a second time, from the lock *)
(* of the first and after the remote has moved from commit "old" to "new". *)
(* Every other reference is a tag.                                         *)
(***************************************************************************)
EXTENDS Integers, Sequences, FiniteSets

CONSTANTS
    Ids,            \* site/user/repo
    Constraints,    \* dependencyConstraint: "", ":tag", "@branch", "#commit"
    NoParent,       \* the parent of a direct request
    MaxPackages,    \* maxResolutionPackages
    MaxDepth        \* maxResolutionDepth

Schemes == {"", "plugin"}
Deps == [scheme : Schemes, id : Ids, con : Constraints]
Keys == Schemes \X Ids
Commits == {"old", "new", "tag"}

ASSUME ResolveAssumption ==
    /\ MaxPackages \in Nat /\ MaxDepth \in Nat
    /\ NoParent \notin Keys

VARIABLES
    root,       \* the project's dependencies, each with its dev flag
    manifests,  \* the dependencies a repository has at a commit
    canon,      \* the canonical id of every id
    overrides,  \* pawnkit.dependencyOverrides, as keys to dependencies
    before,     \* the lock of the first resolution: packages by key
    round,      \* 1, or 2 after Again
    update,     \* options.Update
    queue,      \* requests not yet looked at
    packages,   \* the result so far, by key
    canonicalKeys,
    status,
    past        \* the states the first resolution has left behind (history)

world == <<root, manifests, canon, overrides, before, round, update>>
traversal == <<queue, packages, canonicalKeys>>
vars == <<world, traversal, status, past>>

dependencyKey(d) == <<d.scheme, d.id>>

dependencyKind(d, dev) ==
    IF d.scheme # "" THEN d.scheme ELSE IF dev THEN "dev-dependency" ELSE "dependency"

Requests ==
    [dep : Deps, parent : Keys \union {NoParent}, depth : 0 .. MaxDepth + 1,
     direct : BOOLEAN, dev : BOOLEAN]

Packages ==
    [con : Constraints, name : Ids, commit : Commits,
     kind : {"dependency", "dev-dependency", "plugin"}, transitive : BOOLEAN,
     requiredBy : SUBSET Keys, dependencies : SUBSET Ids]

Request(d, parent, depth, direct, dev) ==
    [dep |-> d, parent |-> parent, depth |-> depth, direct |-> direct, dev |-> dev]

rootResolutionRequests ==
    [i \in DOMAIN root |-> Request(root[i].dep, NoParent, 0, TRUE, root[i].dev)]

EmptyFunction == [x \in {} |-> x]

\* What there is outside of the traversal.  An old name leads to the present one,
\* and an override keeps the scheme.
WorldOK ==
    /\ root \in Seq([dep : Deps, dev : BOOLEAN])
    /\ manifests \in [Ids \X Commits -> Seq(Deps)]
    /\ canon \in [Ids -> Ids] /\ \A i \in Ids : canon[canon[i]] = canon[i]
    /\ DOMAIN overrides \subseteq Keys /\ IsFiniteSet(DOMAIN overrides)
    /\ \A k \in DOMAIN overrides : overrides[k] \in Deps /\ overrides[k].scheme = k[1]

InitResolve ==
    /\ before = EmptyFunction
    /\ round = 1
    /\ update = FALSE
    /\ queue = rootResolutionRequests
    /\ packages = EmptyFunction
    /\ canonicalKeys = EmptyFunction
    /\ status = "running"
    /\ past = {}

Init == WorldOK /\ InitResolve

\* applyDependencyOverride follows replacements until one has no override or
\* replaces only the reference; a longer chain than there are overrides has a
\* cycle.
Replaced(d) ==
    dependencyKey(d) \in DOMAIN overrides
        /\ dependencyKey(overrides[dependencyKey(d)]) # dependencyKey(d)

Followed(d) ==
    LET at[n \in 0 .. Cardinality(DOMAIN overrides)] ==
            IF n = 0 THEN d
            ELSE IF Replaced(at[n - 1]) THEN overrides[dependencyKey(at[n - 1])]
            ELSE at[n - 1]
    IN at[Cardinality(DOMAIN overrides)]

OverrideCycle(d) == Replaced(Followed(d))

Overridden(d) ==
    LET e == Followed(d) IN
    IF dependencyKey(e) \in DOMAIN overrides THEN overrides[dependencyKey(e)] ELSE e

\* The request at the head of the queue, overridden unless it is direct.
Current ==
    LET r == Head(queue) IN
    IF r.direct THEN r ELSE [r EXCEPT !.dep = Overridden(r.dep)]

TooDeep == Current.depth > MaxDepth

\* A wrong form: the bound is off by one.
FullLate == Cardinality(DOMAIN packages) > MaxPackages

Full == Cardinality(DOMAIN packages) >= MaxPackages

\* The package a request is merged into before the provider is asked.
KnownKeys(r) ==
    IF r.dep.id \in DOMAIN canonicalKeys THEN {canonicalKeys[r.dep.id]}
    ELSE {dependencyKey(r.dep)} \intersect DOMAIN packages

\* A wrong form: a transitive request may contradict nothing.
constraintsConflictAlways(k, r) == packages[k].con # r.dep.con

\* A wrong form: the first of two transitive requests wins.
constraintsConflictFirstWins(k, r) ==
    packages[k].con # r.dep.con /\ r.direct

\* A direct dependency decides the constraint for every transitive request.
constraintsConflict(k, r) ==
    /\ packages[k].con # r.dep.con
    /\ (packages[k].transitive \/ r.direct)

addForwardDependency(pkgs, parent, name) ==
    IF parent = NoParent THEN pkgs
    ELSE [pkgs EXCEPT ![parent].dependencies = @ \union {name}]

\* A wrong form: only the child learns of the edge.
mergeResolutionEdgeBackward(k, r) ==
    [packages EXCEPT ![k].transitive = @ /\ ~r.direct,
                     ![k].requiredBy = @ \union ({r.parent} \ {NoParent})]

\* A wrong form: the kind of a direct request is ignored.
mergeResolutionEdgeKeepKind(k, r) ==
    LET p == packages[k]
        merged == [p EXCEPT !.transitive = @ /\ ~r.direct,
                            !.requiredBy = @ \union ({r.parent} \ {NoParent})]
    IN addForwardDependency([packages EXCEPT ![k] = merged], r.parent, p.name)

mergeResolutionEdge(k, r) ==
    LET p == packages[k]
        merged == [p EXCEPT
            !.transitive = @ /\ ~r.direct,
            !.kind = IF r.direct THEN dependencyKind(r.dep, r.dev) ELSE @,
            !.requiredBy = @ \union ({r.parent} \ {NoParent})]
    IN addForwardDependency([packages EXCEPT ![k] = merged], r.parent, p.name)

Stop(s) == status' = s /\ UNCHANGED traversal

Running ==
    /\ status = "running"
    /\ past' = IF round = 1 THEN past \union {traversal} ELSE past
    /\ UNCHANGED world
Looping == Running /\ queue # <<>>

\* ctx.Err or an error of the provider, an invalid commit included.
Fail == Looping /\ Stop("failed")

\* A wrong form: a cycle of replacements is followed for ever.
RejectCycleNever == FALSE

RejectCycle ==
    /\ Looping /\ ~Head(queue).direct
    /\ OverrideCycle(Head(queue).dep)
    /\ Stop("cycle")

\* An override that can be followed, or a direct request.
Usable ==
    /\ Looping
    /\ (Head(queue).direct \/ ~OverrideCycle(Head(queue).dep))

RejectDepth ==
    /\ Usable /\ TooDeep
    /\ Stop("deep")

Conflict ==
    /\ Usable /\ ~TooDeep
    /\ \E k \in KnownKeys(Current) : constraintsConflict(k, Current)
    /\ Stop("conflict")

Merge ==
    /\ Usable /\ ~TooDeep
    /\ \E k \in KnownKeys(Current) :
          /\ ~constraintsConflict(k, Current)
          /\ packages' = mergeResolutionEdge(k, Current)
    /\ queue' = Tail(queue)
    /\ UNCHANGED <<canonicalKeys, status>>

Unknown == Usable /\ ~TooDeep /\ KnownKeys(Current) = {}

RejectCount ==
    /\ Unknown /\ Full
    /\ Stop("many")

\* The provider answers, and it says that the repository has another name that
\* is known already.
CanonicalMerge ==
    /\ Unknown /\ ~Full
    /\ canon[Current.dep.id] \in DOMAIN canonicalKeys
    /\ LET k == canonicalKeys[canon[Current.dep.id]] IN
       \/ /\ constraintsConflict(k, Current)
          /\ Stop("conflict")
       \/ /\ ~constraintsConflict(k, Current)
          /\ packages' = mergeResolutionEdge(k, Current)
          /\ queue' = Tail(queue)
          /\ UNCHANGED <<canonicalKeys, status>>

\* A wrong form: the option is read the wrong way round.
reusableOnUpdate(key, con) ==
    update /\ key \in DOMAIN before /\ before[key].con = con

\* reusableLockedPackage: a locked package is offered to the provider only for
\* the same key and constraint, and never with Update.
reusable(key, con) ==
    ~update /\ key \in DOMAIN before /\ before[key].con = con

RemoteCommit(con) ==
    IF con # "" THEN "tag" ELSE IF round = 1 THEN "old" ELSE "new"

\* selectGitRevision: the locked commit first.
Revision(d) ==
    IF reusable(dependencyKey(d), d.con) THEN before[dependencyKey(d)].commit
    ELSE RemoteCommit(d.con)

\* The provider answers with a repository that is new to the graph.
AddPackage ==
    /\ Unknown /\ ~Full
    /\ canon[Current.dep.id] \notin DOMAIN canonicalKeys
    /\ LET r == Current
           key == dependencyKey(r.dep)
           name == canon[r.dep.id]
           pkg == [con |-> r.dep.con, name |-> name, commit |-> Revision(r.dep),
                   kind |-> dependencyKind(r.dep, r.dev), transitive |-> ~r.direct,
                   requiredBy |-> {r.parent} \ {NoParent}, dependencies |-> {}]
           children == manifests[<<name, pkg.commit>>]
       IN /\ packages' = addForwardDependency(
                 [k \in DOMAIN packages \union {key} |-> IF k = key THEN pkg ELSE packages[k]],
                 r.parent, name)
          /\ canonicalKeys' = [i \in DOMAIN canonicalKeys \union {name, r.dep.id} |->
                                  IF i \in {name, r.dep.id} THEN key ELSE canonicalKeys[i]]
          /\ queue' = Tail(queue) \o
                 [i \in DOMAIN children |->
                     Request(children[i], key, r.depth + 1, FALSE, FALSE)]
    /\ UNCHANGED status

Finish ==
    /\ Running /\ queue = <<>>
    /\ Stop("ok")

\* The caller locks the result, and resolves again when the remote has moved.
Again ==
    /\ status = "ok" /\ round = 1
    /\ round' = 2
    /\ before' = packages
    /\ update' \in BOOLEAN
    /\ queue' = rootResolutionRequests
    /\ packages' = EmptyFunction
    /\ canonicalKeys' = EmptyFunction
    /\ status' = "running"
    /\ UNCHANGED <<root, manifests, canon, overrides, past>>

Iterate == RejectCycle \/ RejectDepth \/ Conflict \/ Merge \/ RejectCount
           \/ CanonicalMerge \/ AddPackage \/ Finish

Next == Iterate \/ Fail \/ Again

Spec == Init /\ [][Next]_vars

\* LockNeedsResolution of the project's manifest and a lock with these packages.
DirectKeys == {dependencyKey(root[i].dep) : i \in DOMAIN root}

\* The map of requests keeps the last one of a key: dev dependencies come last.
Expected(k) ==
    root[CHOOSE i \in DOMAIN root :
            /\ dependencyKey(root[i].dep) = k
            /\ \A j \in DOMAIN root : dependencyKey(root[j].dep) = k => j <= i]

LockNeedsResolution(pkgs) ==
    \/ \E k \in DOMAIN pkgs :
          IF k \in DirectKeys
          THEN \/ pkgs[k].transitive
               \/ pkgs[k].con # Expected(k).dep.con
               \/ pkgs[k].kind # dependencyKind(Expected(k).dep, Expected(k).dev)
          ELSE ~pkgs[k].transitive
    \/ ~ (DirectKeys \subseteq DOMAIN pkgs)

-----------------------------------------------------------------------------
(***************************************************************************)
(* The reference: the repositories and constraints a project needs, as a   *)
(* closure that knows nothing of queues, keys and orders.                  *)
(***************************************************************************)
DirectNodes == {<<canon[root[i].dep.id], root[i].dep.con>> : i \in DOMAIN root}

\* What a requirement comes to: a direct constraint wins over a transitive one.
Required(d) ==
    LET e == Overridden(d)
        name == canon[e.id]
        chosen == {n \in DirectNodes : n[1] = name}
    IN IF chosen = {} THEN {<<name, e.con>>} ELSE chosen

\* The commit of a node: a resolution from the lock stays at the old one.
NodeCommit(con) ==
    IF con # "" THEN "tag" ELSE IF update THEN "new" ELSE "old"

Needs(node) ==
    LET needed == manifests[<<node[1], NodeCommit(node[2])>>]
    IN UNION {Required(needed[i]) : i \in DOMAIN needed}

\* The least set that holds the direct dependencies and what its members need.
Nodes == Ids \X Constraints

Closed(s) == DirectNodes \subseteq s /\ \A x \in s : Needs(x) \subseteq s

Closure == {n \in Nodes : \A s \in SUBSET Nodes : Closed(s) => n \in s}

Consistent == \A x, y \in Closure : x[1] = y[1] => x = y

PackageNode(k) == <<packages[k].name, packages[k].con>>

\* Every variable keeps its type, and the limits of packages and of depth hold.
TypeOK ==
    /\ queue \in Seq(Requests)
    /\ DOMAIN packages \subseteq Keys /\ Cardinality(DOMAIN packages) <= MaxPackages
    /\ \A k \in DOMAIN packages : packages[k] \in Packages
    /\ DOMAIN canonicalKeys \subseteq Ids
    /\ \A i \in DOMAIN canonicalKeys : canonicalKeys[i] \in DOMAIN packages
    /\ status \in {"running", "ok", "failed", "cycle", "deep", "conflict", "many"}

\* A resolution that succeeds finds exactly the closure of the project's
\* dependencies, one package per repository whatever names it has, each at the
\* constraint of a direct dependency if there is one.
ResolvesClosure ==
    status = "ok" =>
        /\ {PackageNode(k) : k \in DOMAIN packages} = Closure
        /\ \A j, k \in DOMAIN packages : packages[j].name = packages[k].name => j = k
        /\ \A k \in DOMAIN packages :
               packages[k].transitive = (PackageNode(k) \notin DirectNodes)

\* A conflict is reported only when the closure really needs a repository at
\* two constraints, in whatever order the traversal meets them.
ConflictIsReal == status = "conflict" => ~Consistent

\* Both directions of the graph agree at every iteration: a package is required
\* by a parent just when the parent lists its name.  RequiredBy holds keys and
\* Dependencies names, and merges must keep up both.
EdgesAgree ==
    \A j, k \in DOMAIN packages :
        j \in packages[k].requiredBy <=> packages[k].name \in packages[j].dependencies

\* A resolution from the lock of the one before, without Update, gives the
\* same graph at the same commits although the remote has moved, and never
\* fails on a conflict or a limit the first one did not meet.  With Update every
\* moving reference follows the remote.
Reproducible ==
    round = 2 =>
        IF update
        THEN \A k \in DOMAIN packages : packages[k].commit # "old"
        ELSE /\ status \in {"running", "failed", "ok"}
             /\ (status = "ok" => packages = before)

\* The lock a resolution writes is current for the manifest it was resolved
\* from, unless the manifest names one repository by two keys.
NamesAreKeys ==
    \A i, j \in DOMAIN root :
        canon[root[i].dep.id] = canon[root[j].dep.id]
            => dependencyKey(root[i].dep) = dependencyKey(root[j].dep)

FreshLockIsCurrent ==
    (status = "ok" /\ NamesAreKeys) => ~LockNeedsResolution(packages)

\* The traversal ends, cycles and aliases or not.
Terminates == <>(status # "running")
=============================================================================
