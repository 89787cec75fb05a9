---------------------------- MODULE ResourceTool ----------------------------
(***************************************************************************)
(* A tool that resolves and restores the resources of a project, one       *)
(* operation after the other, each with a ReplayDownloader of its own, and *)
(* the view a tool loads of the project afterwards:                        *)
(*   ReplayStore     the downloads, which other goroutines use too         *)
(*   ResourceRecord  what is resolved, locked and extracted                *)
(*   ProjectView     what is found of it                                   *)
(* ResourceResolver.Resolve and ResourceRestorer.Restore are the loops of  *)
(* src/dependency/resource_resolver.go and resource_restore.go for one     *)
(* target.  InstallResourcePayload happens in one step or not at all,      *)
(* which ResourceInstall implements.                                       *)
(***************************************************************************)
EXTENDS ReplayStore, ResourceRecord, ProjectView

CONSTANTS
    Tool,           \* the goroutine of the tool
    Project,        \* the root of the project
    Packages,       \* the packages [repo, kind] of the lock, in the order of their names
    Assets,         \* the release assets [name, suffix, url] of each package, in order
    Matching,       \* the pairs <<pattern, asset name>> that match
    Offers,         \* what the manifests may offer: per runtime version and package a
                    \* resource, or Unset
    TargetOf,       \* the target that a resource on offer is for
    RuntimeVersions,
    Manifests,      \* what the manifest of a project may say
    Disks,          \* what the disk may hold before: path to content
    Starts,         \* where a tool looks for a project from
    LoadOptions,    \* [build, managed]
    Specs           \* names in include directives

ASSUME ToolAssumption ==
    /\ Tool \in Threads
    /\ IsPath(Project) /\ IsAbs(Project)
    /\ \A i, j \in DOMAIN Packages : Packages[i] = Packages[j] => i = j
    /\ DOMAIN Packages = 1 .. Len(Packages) /\ Len(Packages) \in Nat
    /\ \A i \in DOMAIN Packages : \A j \in DOMAIN Assets[i] :
          Assets[i][j].url \in URLs
    /\ Bytes \subseteq DOMAIN Data
    /\ \A o \in DOMAIN Offers, v \in RuntimeVersions, i \in DOMAIN Packages :
          Offers[o][v][i] # Unset =>
              /\ DOMAIN Offers[o][v][i].files \subseteq Nat
              /\ \A j \in DOMAIN Offers[o][v][i].files : IsPath(Offers[o][v][i].files[j][2])
    /\ \A m \in Manifests : IsManifest(m) /\ m.repos \in Seq(Range(m.repos))
    /\ \A disk \in Disks : \A path \in DOMAIN disk : IsPath(path) /\ IsAbs(path) /\ Clean(path) = path
    /\ \A start \in Starts : IsPath(start) /\ IsAbs(start)
    /\ \A options \in LoadOptions : ArePaths(options.managed)
    /\ \A spec \in Specs : IsPath(spec) /\ spec # <<>>

\* The validator of the manifest wants a name of each resource.
ASSUME OfferAssumption ==
    \A o \in DOMAIN Offers, v \in RuntimeVersions, i \in DOMAIN Packages :
        Offers[o][v][i] # Unset => Offers[o][v][i].name # ""

VARIABLES
    offers,     \* which of Offers the manifests of the packages offer
    lock,       \* the resource records of the target in pawn.lock
    tree,       \* the files of the disk: path to content
    job,        \* the operation of the tool
    view        \* the project as loaded since the last operation, or Unset

tool == <<offers, lock, tree, job, view>>

vars == <<store, tool>>

NoJob == [pc |-> "idle", resolves |-> FALSE, version |-> "", todo |-> {}, asset |-> Unset,
          made |-> {}, payload |-> <<>>, failure |-> "nothing ran"]

Init ==
    /\ NewStore
    /\ server \in [URLs -> Bytes]
    /\ offers \in DOMAIN Offers
    /\ tree \in Disks
    /\ lock = {}
    /\ job = NoJob
    /\ view = Unset

Offered(i) == Offers[offers][job.version][i]

Offering(version) == {i \in DOMAIN Packages : Offers[offers][version][i] # Unset}

First(todo) == CHOOSE i \in todo : \A j \in todo : i <= j

\* A new store, then Resolve and Restore, or only Restore.
Begin(version, resolves) ==
    /\ job.pc = "idle"
    /\ OpenStore
    /\ job' = [NoJob EXCEPT !.pc = IF resolves THEN "resolve" ELSE "restore",
                            !.resolves = resolves,
                            !.version = version,
                            !.todo = IF resolves THEN Offering(version) ELSE {},
                            !.failure = ""]
    /\ view' = Unset
    /\ UNCHANGED <<offers, lock, tree>>

\* The call ends, and the tool closes its store.
End(failure) ==
    /\ job' = [job EXCEPT !.pc = "close", !.failure = failure]
    /\ UNCHANGED <<offers, lock, view>>

Fail(failure) == End(failure) /\ UNCHANGED <<store, tree>>

Answered == call[Tool].pc = "idle"

\* SelectReleaseAsset: the first asset whose name the resource matches, if it has
\* one, with the size the server reports.
SelectReleaseAsset(resource, assets) ==
    LET hits == {i \in DOMAIN assets : <<resource.name, assets[i].name>> \in Matching}
    IN {[name |-> assets[i].name, suffix |-> assets[i].suffix, url |-> assets[i].url,
         size |-> Data[server[assets[i].url]].size] :
            i \in {i \in hits : assets[i].name # "" /\ \A j \in hits : i <= j}}

\* The assets of the next package are listed, which may fail, and one is requested.
Select ==
    /\ job.pc = "resolve" /\ job.todo # {}
    /\ LET i == First(job.todo)
           selected == {a \in SelectReleaseAsset(Offered(i), Assets[i]) :
                            AssetAllowed(a.size)}
       IN \/ \E a \in selected :
                /\ job' = [job EXCEPT !.pc = "resolving", !.asset = a]
                /\ Download(Tool, a.url)
                /\ UNCHANGED <<offers, lock, tree, view>>
          \/ Fail(IF selected = {} THEN "asset" ELSE "io")

\* ResolveResourceRecord of what was downloaded.
ResolveRecord ==
    /\ job.pc = "resolving" /\ Answered
    /\ LET i == First(job.todo)
           bytes == call[Tool].bytes
           resolved == ResolveResourceRecord(Packages[i], Offered(i), job.asset, bytes)
       IN \/ /\ bytes # None /\ resolved.ok
             /\ job' = [job EXCEPT !.pc = "resolve", !.todo = @ \ {i}, !.asset = Unset,
                                   !.made = @ \union {resolved.record}]
             /\ UNCHANGED <<store, offers, lock, tree, view>>
          \/ bytes # None /\ ~resolved.ok /\ Fail("asset")
          \/ bytes = None /\ Fail("io")

\* MarshalSampctlResources writes the records when the next Load would accept them.
Write ==
    /\ job.pc = "resolve" /\ job.todo = {}
    /\ \/ /\ Accepted(job.made, TargetOf[offers])
          /\ lock' = job.made
          /\ job' = [job EXCEPT !.pc = "restore"]
          /\ UNCHANGED <<store, offers, tree, view>>
       \/ ~Accepted(job.made, TargetOf[offers]) /\ Fail("lock")

\* Restore: destinations differ, then every record is fetched; without records
\* nothing is done.
BeginRestore ==
    /\ job.pc = "restore"
    /\ CASE ~DestinationsDiffer(lock) -> Fail("shared")
         [] DestinationsDiffer(lock) /\ lock = {} -> Fail("")
         [] OTHER -> /\ job' = [job EXCEPT !.pc = "fetch",
                                           !.todo = {i \in DOMAIN Packages : \E r \in lock : r.package = Packages[i]}]
                     /\ UNCHANGED <<store, offers, lock, tree, view>>

RecordOf(i) == CHOOSE r \in lock : r.package = Packages[i]

Fetch ==
    /\ job.pc = "fetch" /\ job.todo # {}
    /\ job' = [job EXCEPT !.pc = "fetching"]
    /\ Download(Tool, RecordOf(First(job.todo)).url)
    /\ UNCHANGED <<offers, lock, tree, view>>

\* FetchResource of what was downloaded; later records overwrite (maps.Copy).
Fetched ==
    /\ job.pc = "fetching" /\ Answered
    /\ LET i == First(job.todo)
           bytes == call[Tool].bytes
           result == FetchResource(RecordOf(i), bytes)
       IN \/ /\ bytes # None /\ result.ok
             /\ job' = [job EXCEPT !.pc = "fetch", !.todo = @ \ {i}, !.payload = Over(result.payload, @)]
             /\ UNCHANGED <<store, offers, lock, tree, view>>
          \/ bytes # None /\ ~result.ok /\ Fail("checksum")
          \/ bytes = None /\ Fail("io")

\* InstallResourcePayload: all of the payload, or nothing and an error.
Install ==
    /\ job.pc = "fetch" /\ job.todo = {}
    /\ \/ /\ tree' = Over([path \in {Join(Project, d) : d \in DOMAIN job.payload} |->
                            job.payload[CHOOSE d \in DOMAIN job.payload : Join(Project, d) = path]],
                         tree)
          /\ End("")
          /\ UNCHANGED store
       \/ Fail("io")

\* The store is closed, and the call returns when that is done.
CloseStore ==
    /\ job.pc = "close"
    /\ Close(Tool)
    /\ job' = [job EXCEPT !.pc = "closing"]
    /\ UNCHANGED <<offers, lock, tree, view>>

Finish ==
    /\ job.pc = "closing" /\ Answered
    /\ job' = [job EXCEPT !.pc = "idle", !.asset = Unset, !.payload = <<>>]
    /\ UNCHANGED <<store, offers, lock, tree, view>>

\* A step of the store for any goroutine, and a change of the server.
Serve(t) == StoreStep(t) /\ UNCHANGED tool

\* Another goroutine uses the store of the operation.
Share(t) ==
    /\ t # Tool /\ job.pc # "idle"
    /\ Close(t) \/ \E u \in URLs : Download(t, u)
    /\ UNCHANGED tool

Republish(u, b) == Publish(u, b) /\ UNCHANGED tool

\* project.Load, between the operations.
LoadProject(start, m, options) ==
    /\ job.pc = "idle"
    /\ view' = Load(DOMAIN tree, start, m, options)
    /\ UNCHANGED <<store, offers, lock, tree, job>>

Step == Select \/ ResolveRecord \/ Write \/ BeginRestore \/ Fetch \/ Fetched \/ Install \/ CloseStore \/ Finish

Next ==
    \/ \E version \in RuntimeVersions, resolves \in BOOLEAN : Begin(version, resolves)
    \/ Step
    \/ \E t \in Threads : Serve(t) \/ Share(t)
    \/ \E u \in URLs, b \in Bytes : Republish(u, b)
    \/ \E start \in Starts, m \in Manifests, options \in LoadOptions : LoadProject(start, m, options)

Spec == Init /\ [][Next]_vars

-----------------------------------------------------------------------------
Restored == job.pc = "idle" /\ job.failure = ""

\* One destination in two spellings.
SpelledTwice(r) ==
    \E f, g \in r.files :
        /\ Lower(f.destination) # Lower(g.destination)
        /\ Lower(Clean(f.destination)) = Lower(Clean(g.destination))

\* A file that is the directory it is in, or an asset with the name of the one above.
Nameless(r) ==
    \E f \in r.files : f.source \in {<<".">>, <<"..">>} \/ f.destination = <<".">>

\* resource_replay.go:38: the restore of an operation that resolved gets the very
\* bytes that were resolved, whatever the server serves by then, and what
\* ResolveResourceRecord accepts of them FetchResource accepts.  Only two packages
\* with one destination are found out by the restore.
ResolvedRestores ==
    job.resolves => job.failure # "checksum" /\ (job.failure = "shared" => Cardinality(lock) > 1)

\* What the lock refuses of a resolution as a whole.  A target is resolved when it has
\* a platform (resource_resolve.go:25), whatever follows.
Unrecorded == Cardinality(job.made) > MaxRecords \/ TargetOf[offers] \notin LockTargets

\* What ResolveResourceRecord accepts the lock accepts, sizes and their sum included;
\* only two spellings of one destination, a file with the name of a directory, too
\* many records and the spelling of the target it does not.
ResolvedLocks ==
    job.resolves /\ job.failure = "lock" =>
        Unrecorded \/ \E r \in job.made : SpelledTwice(r) \/ Nameless(r)

\* After a restore that succeeded, every file of every record in the lock is in
\* the project with exactly its content: none is missing, stale or overwritten by
\* another one (resource_restore.go, validateResourceDestinations).
InstalledIsLocked ==
    Restored => \A r \in lock : \A f \in r.files :
        LET path == Join(Project, f.destination)
        IN path \in DOMAIN tree /\ tree[path] = f.checksum

Below(path, directory) == IsPrefix(directory, path)

Dependencies == Append(view.root, "dependencies")

\* No root of the project itself and none that a tool adds is in dependencies/.
RootsApart ==
    \A r \in ToSet(view.declared) \union ToSet(view.quoted) \union {Clean(r) : r \in ToSet(view.managed)} :
        ~Below(r, Dependencies)

\* The package whose checkout or extracted includes a path is of.
PackageOf(directory, path) ==
    IF path[Len(directory) + 1] = ".resources" THEN ExtractedPackage[path[Len(directory) + 2]]
    ELSE path[Len(directory) + 1]

\* A destination is an include in a directory of extracted includes of the package.
Extracted(d, repo) ==
    /\ Len(d) = 4 /\ d[1] = "dependencies" /\ d[2] = ".resources" /\ Join(Project, d) = Project \o d
    /\ d[3] \in DOMAIN ExtractedPackage /\ ExtractedPackage[d[3]] = repo

\* The package has no other directory of extracted includes.
OnlyExtraction(name) ==
    \A other \in DOMAIN ExtractedPackage :
        ExtractedPackage[other] = ExtractedPackage[name]
        /\ IsDir(DOMAIN tree, Project \o <<"dependencies", ".resources", other>>) => other = name

\* CHANGELOG 0.3.3, "Prefer direct dependencies and extracted sampctl resources":
\* an include that the last restore extracted is found by an angle include of its
\* name, and no file of the checkout of its package is, unless the project declares
\* a root in dependencies/.  Another directory of the package, left by an earlier
\* resource, may hide it.
ExtractedFound ==
    view # Unset /\ view.root = Project /\ RootsApart /\ Restored =>
        \A r \in lock : \A f \in r.files :
            Extracted(f.destination, r.package.repo) /\ OnlyExtraction(f.destination[3]) =>
                LET found == ResolveAll(DOMAIN tree, view, Project, <<Last(f.destination)>>, FALSE)
                IN /\ Project \o f.destination \in ToSet(found)
                   /\ r.package.repo \in ToSet(CheckedOut(DOMAIN tree, Dependencies)) =>
                          \A path \in ToSet(found) : ~Below(path, Append(Dependencies, r.package.repo))

\* CHANGELOG 0.3.3: of the packages that have an include, a direct dependency is
\* meant when one is among them, be it read from its checkout or from extracted
\* includes and however its directory sorts, unless the project declares a root in
\* dependencies/.  A direct dependency that is extracted but not checked out comes
\* after all checkouts and is left out here.
DirectFirst ==
    view # Unset /\ RootsApart =>
        \A name \in {Last(path) : path \in {path \in DOMAIN tree : Below(path, Dependencies)}} :
            LET found == ResolveAll(DOMAIN tree, view, view.root, <<name>>, FALSE)
                installed == {i \in DOMAIN found : Below(found[i], Dependencies) /\ found[i] # Dependencies}
                direct == {i \in installed : PackageOf(Dependencies, found[i]) \in ToSet(view.repos)}
            IN (\E i \in direct : PackageOf(Dependencies, found[i]) \in ToSet(CheckedOut(DOMAIN tree, Dependencies)))
                   => \A i \in installed : \E j \in direct : j <= i

\* Whatever the manifests and the include directives say, neither an include root
\* nor a file that an include finds is outside of the outermost project, but for the
\* roots a tool adds (project_test.go, TestLoad_RejectsBuildIncludeOutsideWorkspace;
\* include_test.go, TestResolve_TraversalSpecRejected).  Left out is an entry that
\* names the directory of the outermost project instead of a file: the directory it
\* is in becomes a root (project.go:79, 131).
NothingOutside ==
    view # Unset /\ Lower(view.entry) # Lower(view.boundary) =>
        LET tops == {view.boundary} \union {Clean(r) : r \in ToSet(view.managed)}
            Inside(path) == \E top \in tops : top = <<"", "">> \/ Within(path, top)
        IN /\ \A r \in ToSet(view.roots) : Inside(r)
           /\ \A from \in {path \in Starts : Below(Dir(path), view.root)}, spec \in Specs, quoted \in BOOLEAN :
                 \A path \in ToSet(ResolveAll(DOMAIN tree, view, from, spec, quoted)) : Inside(path)

\* Every call of every goroutine ends, however the calls fail and whoever closes
\* the store.
CallsEnd == []<>(job.pc = "idle" /\ \A t \in Threads : call[t].pc = "idle")
=============================================================================
