----------------------------- MODULE RestoreLock -----------------------------
(***************************************************************************)
(* Restorer.Restore (src/dependency/restore.go) on a lock that Load        *)
(* returned: a depth-first traversal orders the packages, their targets    *)
(* are compared, and each is installed in turn.  An installation may fail, *)
(* which ends the call; what was installed stays.  The project is resolved *)
(* and written, loaded and restored again and again (LockFile).            *)
(*                                                                         *)
(* The installer is GitInstall: it leaves the locked commit at the target, *)
(* or fails and leaves the target as it was.                               *)
(***************************************************************************)
EXTENDS LockFile, Sequences

CONSTANTS
    Repos,          \* the directories below dependencies/
    RepoOf          \* the last part of a name

ASSUME RestoreAssumption == RepoOf \in [Names -> Repos]

VARIABLES
    checkout,   \* the key and commit below each directory, or None
    stack,      \* calls of visit: a name and the dependencies not yet visited
    visiting,
    visited,
    order,      \* the names in the order of installation
    next,       \* the index of the next one to install
    pc,         \* "idle", "order" or "install"
    result      \* of the last call: "none", "ok", "collision" or "failed"

traversal == <<stack, visiting, visited, order>>
vars == <<lockvars, checkout, traversal, next, pc, result>>

Locked(n) == Named(lock.packages, n)
LockedNames == {lock.packages[k].name : k \in DOMAIN lock.packages}
Target(n) == RepoOf[n]

InitRestore ==
    /\ InitFile
    /\ checkout = [r \in Repos |-> None]
    /\ stack = <<>> /\ order = <<>>
    /\ visiting = {} /\ visited = {}
    /\ next = 1
    /\ pc = "idle"
    /\ result = "none"

\* Between two calls of Restore.
Write(found) ==
    /\ pc = "idle"
    /\ WriteDependencies(found)
    /\ result' = "none"
    /\ UNCHANGED <<checkout, traversal, next, pc>>

LoadLock ==
    /\ pc = "idle"
    /\ Load
    /\ result' = "none"
    /\ UNCHANGED <<checkout, traversal, next, pc>>

Edit(new) ==
    /\ pc = "idle"
    /\ EditManifest(new)
    /\ UNCHANGED <<checkout, traversal, next, pc, result>>

Begin ==
    /\ pc = "idle" /\ lock # None
    /\ pc' = "order"
    /\ stack' = <<>> /\ order' = <<>>
    /\ visiting' = {} /\ visited' = {}
    /\ next' = 1
    /\ result' = "none"
    /\ UNCHANGED <<lockvars, checkout>>

First(s) == CHOOSE n \in s : \A m \in s : n <= m

\* visit(n) of a name that is neither visited nor being visited.
Enter(n, below) ==
    /\ stack' = Append(below, [name |-> n, rest |-> lock.packages[Locked(n)].dependencies])
    /\ visiting' = visiting \union {n}
    /\ UNCHANGED <<visited, order>>

Ordering == pc = "order" /\ UNCHANGED <<lockvars, checkout, next>>

VisitRoot ==
    /\ Ordering /\ stack = <<>>
    /\ LockedNames # visited
    /\ Enter(First(LockedNames \ visited), <<>>)
    /\ UNCHANGED <<pc, result>>

Top == stack[Len(stack)]
Below == SubSeq(stack, 1, Len(stack) - 1)

\* A wrong form: a dependency in a cycle is waited for.
VisitDependencyWaiting ==
    /\ Ordering /\ stack # <<>> /\ Top.rest # {}
    /\ LET d == First(Top.rest)
           tried == Append(Below, [Top EXCEPT !.rest = @ \ {d}])
       IN \/ d \notin visited \union visiting /\ Enter(d, tried)
          \/ d \in visited /\ stack' = tried /\ UNCHANGED <<visiting, visited, order>>
          \/ d \in visiting /\ UNCHANGED traversal
    /\ UNCHANGED <<pc, result>>

\* A wrong form: the dependencies are left to the loop over the names.
VisitDependencyNever ==
    /\ Ordering /\ stack # <<>> /\ Top.rest # {}
    /\ stack' = Append(Below, [Top EXCEPT !.rest = {}])
    /\ UNCHANGED <<visiting, visited, order, pc, result>>

\* The loop over the sorted dependencies.  A cycle is no error: a package that
\* is being visited is skipped.
VisitDependency ==
    /\ Ordering /\ stack # <<>> /\ Top.rest # {}
    /\ LET d == First(Top.rest)
           tried == Append(Below, [Top EXCEPT !.rest = @ \ {d}])
       IN \/ d \notin visited \union visiting /\ Enter(d, tried)
          \/ d \in visited \union visiting /\ stack' = tried /\ UNCHANGED <<visiting, visited, order>>
    /\ UNCHANGED <<pc, result>>

Leave ==
    /\ Ordering /\ stack # <<>> /\ Top.rest = {}
    /\ stack' = Below
    /\ visiting' = visiting \ {Top.name}
    /\ visited' = visited \union {Top.name}
    /\ order' = Append(order, Top.name)
    /\ UNCHANGED <<pc, result>>

\* A wrong form: one directory may be the target of two packages.
CollisionNever == FALSE

\* validateTargets: two packages with one target.
Collision ==
    \E i, j \in DOMAIN order : i # j /\ Target(order[i]) = Target(order[j])

Ordered == Ordering /\ stack = <<>> /\ LockedNames = visited

RejectTargets ==
    /\ Ordered /\ Collision
    /\ pc' = "idle" /\ result' = "collision"
    /\ UNCHANGED traversal

AcceptTargets ==
    /\ Ordered /\ ~Collision
    /\ pc' = "install"
    /\ UNCHANGED <<traversal, result>>

Installing == pc = "install" /\ UNCHANGED <<lockvars, traversal>>

Install ==
    /\ Installing /\ next <= Len(order)
    /\ LET n == order[next] IN
       checkout' = [checkout EXCEPT ![Target(n)] =
                       [key |-> Locked(n), commit |-> lock.packages[Locked(n)].commit]]
    /\ next' = next + 1
    /\ UNCHANGED <<pc, result>>

\* The installer fails, or the context is cancelled.
FailInstall ==
    /\ Installing /\ next <= Len(order)
    /\ pc' = "idle" /\ result' = "failed"
    /\ UNCHANGED <<checkout, next>>

Finish ==
    /\ Installing /\ next > Len(order)
    /\ pc' = "idle" /\ result' = "ok"
    /\ UNCHANGED <<checkout, next>>

Step == VisitRoot \/ VisitDependency \/ Leave \/ RejectTargets \/ AcceptTargets
        \/ Install \/ FailInstall \/ Finish

Next ==
    \/ \E found \in Resolutions : Write(found)
    \/ \E new \in Manifests : Edit(new)
    \/ LoadLock \/ Begin \/ Step

Init ==
    /\ name \in [Keys -> Names]
    /\ direct \in Manifests
    /\ InitRestore

Spec == Init /\ [][Next]_vars

-----------------------------------------------------------------------------
\* The traversal never holds a name twice.
TypeOK ==
    /\ LockTypeOK
    /\ checkout \in [Repos -> [key : Keys, commit : Commits] \union {None}]
    /\ stack \in Seq([name : Names, rest : SUBSET Names])
    /\ \A i, j \in DOMAIN stack : stack[i].name = stack[j].name => i = j
    /\ visiting = {stack[i].name : i \in DOMAIN stack}
    /\ order \in Seq(Names) /\ visited = {order[i] : i \in DOMAIN order}
    /\ \A i, j \in DOMAIN order : order[i] = order[j] => i = j
    /\ next \in 1 .. Len(order) + 1
    /\ pc \in {"idle", "order", "install"}
    /\ result \in {"none", "ok", "collision", "failed"}

DependsOn(n) == lock.packages[Locked(n)].dependencies

\* The least set that holds what n depends on and what its members depend on.
Reachable(n) ==
    LET Closed(s) == DependsOn(n) \subseteq s /\ \A m \in s : DependsOn(m) \subseteq s
    IN {m \in LockedNames : \A s \in SUBSET LockedNames : Closed(s) => m \in s}

\* No package is installed before one it depends on, however the sorted names
\* and the edges lie, unless the two are in a cycle.
DependenciesFirst ==
    pc = "install" =>
        \A i, j \in DOMAIN order :
            order[j] \in DependsOn(order[i]) => j <= i \/ order[i] \in Reachable(order[j])

\* A Restore that succeeds on a lock without diagnostics leaves every locked
\* package at its own directory at its locked commit, whatever earlier calls,
\* that may have failed half-way or followed another lock, left there.
RestoreInstalls ==
    (result = "ok" /\ ~lock.diagnosed) =>
        \A k \in DOMAIN lock.packages :
            checkout[Target(lock.packages[k].name)] =
                [key |-> k, commit |-> lock.packages[k].commit]

\* A call returns, cycles or not.
RestoreReturns == pc # "idle" ~> pc = "idle"
=============================================================================
