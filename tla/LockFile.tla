------------------------------ MODULE LockFile ------------------------------
(***************************************************************************)
(* The packages of a resolution on their way through pawn.lock:            *)
(* MarshalSampctlDependencies writes them in sampctl's form (src/lockfile/ *)
(* dependencies_write.go), Load reads and links them again (load.go,       *)
(* sampctl.go, validate.go), and LockNeedsResolution compares the result   *)
(* with a manifest that may have been edited (src/dependency/resolution.go).*)
(*                                                                         *)
(* The document knows packages by key and edges by the keys of the parents; *)
(* a lock has names and edges by the names of the children.  Keys and names *)
(* are numbers, in the order the code sorts them.                          *)
(***************************************************************************)
EXTENDS Integers, FiniteSets

CONSTANTS
    Keys,           \* dependency keys: scheme or site, user and repository
    Names,          \* user/repo: two hosts may have the same
    SchemeOf,       \* the scheme of a key: "", "plugin", ...
    Constraints,    \* what a dependency asks for
    Commits,
    None            \* no document, no lock

ASSUME LockFileAssumption ==
    /\ Keys \subseteq Nat /\ Names \subseteq Nat
    /\ Keys # {} => \E last \in Keys : \A k \in Keys : k <= last
    /\ SchemeOf \in [Keys -> {"", "plugin", "component", "includes", "filterscript"}]

VARIABLES
    name,       \* the user/repo of each key
    direct,     \* the manifest: a constraint and a dev flag for some keys
    from,       \* the manifest the document was resolved from (history)
    resolved,   \* the packages that were written (history)
    doc,        \* the document's dependencies by key, or None
    lock        \* what Load returned, or None

lockvars == <<name, direct, from, resolved, doc, lock>>

Manifests == UNION {[ks -> [con : Constraints, dev : BOOLEAN]] : ks \in SUBSET Keys}

Kinds == {"dependency", "dev-dependency", "plugin", "component", "includes", "filterscript"}

\* What a resolution may say of a package.
Resolved == [con : Constraints, commit : Commits, kind : Kinds, transitive : BOOLEAN,
             requiredBy : SUBSET Keys, dependencies : SUBSET Names]
Resolutions == UNION {[ks -> Resolved] : ks \in SUBSET Keys}

NoPackages == [k \in {} |-> None]

\* name and direct are chosen by the module that checks.
InitFile ==
    /\ from = NoPackages
    /\ resolved = NoPackages
    /\ doc = None
    /\ lock = None

dependencyKind(k, dev) ==
    IF SchemeOf[k] # "" THEN SchemeOf[k]
    ELSE IF dev THEN "dev-dependency" ELSE "dependency"

DirectKind(k) == dependencyKind(k, k \in DOMAIN direct /\ direct[k].dev)

\* What GraphResolve says of the packages of a resolution: they have every
\* direct dependency at its constraint, a transitive one is required by another
\* package, and both directions of the edges agree.
IsResolution(found) ==
    /\ DOMAIN direct \subseteq DOMAIN found
    /\ \A k \in DOMAIN found :
          /\ found[k].transitive = (k \notin DOMAIN direct)
          /\ (k \in DOMAIN direct => found[k].con = direct[k].con)
          /\ (found[k].transitive => found[k].requiredBy # {})
          /\ found[k].requiredBy \subseteq DOMAIN found
          /\ found[k].kind = DirectKind(k)
          /\ found[k].dependencies =
                {name[c] : c \in {x \in DOMAIN found : k \in found[x].requiredBy}}

\* A wrong form: direct packages have no parents.
encodeSampctlDependencyDirect(k, p) ==
    [con |-> p.con, commit |-> p.commit, name |-> name[k],
     scheme |-> IF p.kind \in {"dependency", "dev-dependency"} THEN "" ELSE p.kind,
     transitive |-> p.transitive, requiredBy |-> IF p.transitive THEN p.requiredBy ELSE {}]

\* encodeSampctlDependency: there is no place for the dev flag or for the names
\* of the dependencies.
encodeSampctlDependency(k, p) ==
    [con |-> p.con, commit |-> p.commit, name |-> name[k],
     scheme |-> IF p.kind \in {"dependency", "dev-dependency"} THEN "" ELSE p.kind,
     transitive |-> p.transitive, requiredBy |-> p.requiredBy]

\* MarshalSampctlDependencies.  Its validation knows duplicate keys, which a
\* resolution has none of, and not duplicate names.
WriteDependencies(found) ==
    /\ IsResolution(found)
    /\ from' = direct
    /\ resolved' = found
    /\ doc' = [k \in DOMAIN found |-> encodeSampctlDependency(k, found[k])]
    /\ lock' = None
    /\ UNCHANGED <<name, direct>>

\* indexByName keeps the last package of a name.
Last(ks) == CHOOSE k \in ks : \A j \in ks : j <= k

Named(pkgs, n) == Last({k \in DOMAIN pkgs : pkgs[k].name = n})

\* linkSampctlDependencies: a child becomes a dependency of the package its
\* parent's name stands for.
Linked(k) ==
    IF Named(doc, doc[k].name) # k THEN {}
    ELSE {doc[c].name : c \in {x \in DOMAIN doc :
              \E p \in doc[x].requiredBy \intersect DOMAIN doc : doc[p].name = doc[k].name}}

normalizeSampctlPackage(k) ==
    [con |-> doc[k].con, commit |-> doc[k].commit, name |-> doc[k].name,
     kind |-> IF doc[k].scheme = "" THEN "dependency" ELSE doc[k].scheme,
     transitive |-> doc[k].transitive, requiredBy |-> doc[k].requiredBy,
     dependencies |-> Linked(k)]

UnknownParent == \E k \in DOMAIN doc : ~ (doc[k].requiredBy \subseteq DOMAIN doc)

DuplicateName == \E j, k \in DOMAIN doc : j # k /\ doc[j].name = doc[k].name

\* Whether Load reports a problem; the lock is there all the same.
Diagnosed == UnknownParent \/ DuplicateName

Load ==
    /\ doc # None
    /\ lock' = [packages |-> [k \in DOMAIN doc |-> normalizeSampctlPackage(k)],
                diagnosed |-> Diagnosed]
    /\ UNCHANGED <<name, direct, from, resolved, doc>>

\* The user edits the dependencies of the manifest.
EditManifest(new) ==
    /\ direct' = new
    /\ UNCHANGED <<name, from, resolved, doc, lock>>

\* A wrong form: a package is compared whether it is direct or not.
StaleForgettingTransitive(k) ==
    k \in DOMAIN direct /\
        \/ lock.packages[k].con # direct[k].con
        \/ lock.packages[k].kind # DirectKind(k)

\* The lock's package differs from what the manifest expects of its key.
Stale(k) ==
    IF k \in DOMAIN direct
    THEN \/ lock.packages[k].transitive
         \/ lock.packages[k].con # direct[k].con
         \/ lock.packages[k].kind # DirectKind(k)
    ELSE ~lock.packages[k].transitive

LockNeedsResolution ==
    \/ lock = None
    \/ \E k \in DOMAIN lock.packages : Stale(k)
    \/ ~ (DOMAIN direct \subseteq DOMAIN lock.packages)

-----------------------------------------------------------------------------
\* Every variable keeps its type; a loaded lock has just the document's packages.
LockTypeOK ==
    /\ name \in [Keys -> Names]
    /\ direct \in Manifests /\ from \in Manifests
    /\ doc # None => DOMAIN doc \subseteq Keys
    /\ lock # None =>
          /\ doc # None /\ DOMAIN lock.packages = DOMAIN doc
          /\ lock.diagnosed \in BOOLEAN
          /\ \A k \in DOMAIN doc :
                lock.packages[k] \in
                    [con : Constraints, commit : Commits, name : Names,
                     kind : Kinds \ {"dev-dependency"},
                     transitive : BOOLEAN, requiredBy : SUBSET Keys,
                     dependencies : SUBSET Names]

NamesDistinct == \A j, k \in DOMAIN resolved : name[j] = name[k] => j = k

\* A resolution comes back from the document as it was written: every package,
\* its constraint and commit, and its edges, which the document turns round and
\* Load turns back from keys to names.  Only the dev flag is lost.  Packages of
\* two hosts with one name are the exception, and Load then says so.
LoadsBack ==
    lock # None =>
        /\ lock.diagnosed = ~NamesDistinct
        /\ DOMAIN lock.packages = DOMAIN resolved
        /\ (NamesDistinct =>
               \A k \in DOMAIN resolved :
                   lock.packages[k] =
                       [con |-> resolved[k].con, commit |-> resolved[k].commit,
                        name |-> name[k],
                        kind |-> IF resolved[k].kind = "dev-dependency" THEN "dependency"
                                 ELSE resolved[k].kind,
                        transitive |-> resolved[k].transitive,
                        requiredBy |-> resolved[k].requiredBy,
                        dependencies |-> resolved[k].dependencies])

\* The manifest asks for other dependencies or constraints than the one that was resolved.
Edited == DOMAIN direct # DOMAIN from \/ \E k \in DOMAIN direct : direct[k].con # from[k].con

\* A direct dev dependency whose key has no scheme.
PlainDev == \E k \in DOMAIN direct : DirectKind(k) = "dev-dependency"

\* LockNeedsResolution "reports whether direct dependencies changed" (resolution.go:52): an
\* edit of the manifest's dependencies never goes unnoticed, whatever was direct or
\* transitive before, and nothing else asks for a resolution, except that a manifest with
\* a dev dependency does so forever, as the document has no place for the flag.
DetectsChanges == lock # None => (LockNeedsResolution <=> Edited \/ PlainDev)
=============================================================================
