----------------------------- MODULE ProjectView -----------------------------
(***************************************************************************)
(* What a tool sees of a project: project.Load (src/project/project.go)    *)
(* finds the root (src/workspace/workspace.go), selects profile and build  *)
(* (src/profile/profile.go), joins paths (src/paths/paths.go) and lists    *)
(* the include roots, which include.Resolver searches                      *)
(* (src/include/include.go).                                               *)
(*                                                                         *)
(* files is the set of the paths of all files; a directory exists when a   *)
(* file is below it.  A manifest is [entry, build, builds, includes,       *)
(* repos] and a build is [name, includes]; what else they say changes no   *)
(* include root.                                                           *)
(***************************************************************************)
EXTENDS PathUtil, FiniteSets

CONSTANTS
    Unset,              \* no manifest, no build, nothing found
    NameOrder,          \* the names of directories, in the order ReadDir lists them
    ExtractedPackage,   \* directory name to the name before "-" and six or more hex digits
    WithInc,            \* name of an include to that name with ".inc"
    ManifestAt          \* path to the manifest a file is decoded to, unless it is malformed

\* What the includes of a manifest or a build can be, and a manifest: lists of paths.
ArePaths(paths) == paths \in Seq(Range(paths)) /\ \A path \in Range(paths) : IsPath(path)

IsManifest(m) ==
    /\ ArePaths(m.includes) /\ IsPath(m.entry)
    /\ m.builds \in Seq(Range(m.builds))
    /\ \A b \in Range(m.builds) \union ({m.build} \ {Unset}) :
          DOMAIN b = {"name", "includes"} /\ ArePaths(b.includes)

ASSUME ViewAssumption ==
    /\ NameOrder \in Seq(Range(NameOrder)) /\ DOMAIN ExtractedPackage \subseteq Range(NameOrder)
    /\ \A path \in DOMAIN ManifestAt : IsManifest(ManifestAt[path])

\* The items of a list at some places, in its order, and those that are in a set.
Picked(items, places) ==
    LET kept[i \in 0 .. Len(items)] ==
            IF i = 0 THEN <<>>
            ELSE IF i \in places THEN Append(kept[i - 1], items[i]) ELSE kept[i - 1]
    IN kept[Len(items)]

Among(items, allowed) == Picked(items, {i \in DOMAIN items : items[i] \in allowed})

IsFile(files, path) == path \in files

IsDir(files, path) == \E f \in files : IsStrictPrefix(path, f)

\* ReadDir: the names of the directories in a directory, in order.
Directories(files, path) ==
    Picked(NameOrder, {i \in DOMAIN NameOrder : IsDir(files, Append(path, NameOrder[i]))})

-----------------------------------------------------------------------------
ManifestNames == <<"pawn.json", "pawn.yaml">>

\* The manifests in a directory; the first counts.
ManifestsIn(files, directory) ==
    Among([i \in DOMAIN ManifestNames |-> Append(directory, ManifestNames[i])], files)

\* The directories with a manifest from path up, the nearest first.  A manifest in
\* "/" itself is left out.
ProjectsAbove(files, path) ==
    LET above == [i \in 1 .. (Len(path) - 1) |-> SubSeq(path, 1, Len(path) + 1 - i)]
    IN Picked(above, {i \in DOMAIN above : ManifestsIn(files, above[i]) # <<>>})

\* FindRoot: the nearest directory with a manifest, from a file or a directory.
NearestOf(projects) == IF projects = <<>> THEN Unset ELSE projects[1]

FindRoot(files, start) ==
    NearestOf(ProjectsAbove(files, IF IsFile(files, start) THEN Dir(start) ELSE Clean(start)))

\* Boundary: the outermost directory with a manifest, from the root up.
Boundary(files, root) == Last(ProjectsAbove(files, root))

-----------------------------------------------------------------------------
\* mergeBuild: a field that the build leaves empty comes from the default build;
\* the includes are the field that matters here.
MergeBuild(build, default) ==
    IF default # Unset /\ build.includes = <<>> THEN [build EXCEPT !.includes = default.includes]
    ELSE build

\* selectBuild: without a name the default build, else the first; with a name
\* the first of that name.  ok is FALSE for a name no build has.
Selected(candidates, default, mayLack) ==
    IF candidates = <<>> THEN [ok |-> mayLack, build |-> Unset]
    ELSE [ok |-> TRUE, build |-> MergeBuild(candidates[1], default)]

SelectBuild(m, name) ==
    IF name = "" /\ m.build # Unset THEN [ok |-> TRUE, build |-> m.build]
    ELSE Selected(Picked(m.builds, {i \in DOMAIN m.builds : name \in {"", m.builds[i].name}}),
                  m.build, name = "")

IncludesOf(build) == IF build = Unset THEN <<>> ELSE build.includes

-----------------------------------------------------------------------------
\* appendUnique, item by item: each stays where it is first.
Uniquely(items) == Picked(items, {i \in DOMAIN items : \A j \in 1 .. (i - 1) : items[j] # items[i]})

SafeOnes(paths) == Picked(paths, {i \in DOMAIN paths : Safe(paths[i])})

JoinEach(root, paths) == [i \in DOMAIN paths |-> Join(root, paths[i])]

\* installedResourceRoots: the names of the directories of extracted includes, of
\* all packages or of one.
Extractions(files, directory) ==
    Among(Directories(files, Append(directory, ".resources")), DOMAIN ExtractedPackage)

ExtractionsOf(files, directory, package) ==
    Among(Extractions(files, directory),
          {name \in DOMAIN ExtractedPackage : ExtractedPackage[name] = package})

DependencyFallbackRoots(files, root) ==
    IF IsDir(files, Append(root, "include")) THEN <<Append(root, "include")>> ELSE <<root>>

\* dependencyPackageRoots: what the manifest of an installed package declares.
DeclaredRoots(files, root, declared) ==
    IF declared = <<>> THEN DependencyFallbackRoots(files, root)
    ELSE Uniquely(JoinEach(root, SafeOnes(declared)))

DependencyPackageRoots(files, root) ==
    LET found == ManifestsIn(files, root)
        m == ManifestAt[found[1]]
    IN DeclaredRoots(files, root,
           IF found = <<>> \/ found[1] \notin DOMAIN ManifestAt THEN <<>>
           ELSE IncludesOf(SelectBuild(m, "").build) \o m.includes)

\* A package is searched in its extracted includes, in the last directory of
\* them, or in its checkout.
RootsOf(files, directory, package) ==
    LET extractions == ExtractionsOf(files, directory, package)
    IN IF extractions # <<>> THEN <<directory \o <<".resources", Last(extractions)>>>>
       ELSE DependencyPackageRoots(files, Append(directory, package))

PackageRoots(files, directory, packages) ==
    Uniquely(FlattenSeq([i \in DOMAIN packages |-> RootsOf(files, directory, packages[i])]))

CheckedOut(files, directory) ==
    Among(Directories(files, directory), ToSet(NameOrder) \ {".resources"})

\* A wrong form: packages are searched in the order of their directories.
InstalledDependencyRootsUnordered(files, directory, repos) ==
    PackageRoots(files, directory, CheckedOut(files, directory))

\* A wrong form: extracted includes of a package that is not checked out are
\* forgotten.
InstalledDependencyRootsCheckedOut(files, directory, repos) ==
    LET packages == CheckedOut(files, directory)
    IN PackageRoots(files, directory,
           Uniquely(Among(repos, ToSet(packages)) \o packages))

\* installedDependencyRoots: the packages below dependencies/, the direct ones
\* first, each by its extracted includes if it has any; then the extracted
\* includes of packages that are not checked out.
InstalledDependencyRoots(files, directory, repos) ==
    LET packages == CheckedOut(files, directory)
        extractions == Extractions(files, directory)
    IN PackageRoots(files, directory,
           Uniquely(Among(repos, ToSet(packages))
                    \o packages
                    \o [i \in DOMAIN extractions |-> ExtractedPackage[extractions[i]]]))

\* JoinWithin and SafeJoin of the project's own paths.
Escapes(root, boundary, rel) == IsAbs(rel) \/ ~Within(Join(root, rel), boundary)

\* The entry, and the root of quoted includes: its directory.
EntryPath(root, entry) == IF entry = <<"">> THEN <<"">> ELSE Join(root, entry)

EntryRoots(root, entry) == IF entry = <<"">> THEN <<>> ELSE <<Dir(EntryPath(root, entry))>>

\* projectIncludeRoots, in order: the build's, the entry's directory, the project,
\* the declared ones, the dependencies' and those a tool adds.
ProjectIncludeRoots(files, root, m, build, managed) ==
    Uniquely(JoinEach(root, IncludesOf(build))
             \o EntryRoots(root, m.entry)
             \o <<root>>
             \o JoinEach(root, m.includes)
             \o InstalledDependencyRoots(files, Append(root, "dependencies"), m.repos)
             \o [i \in DOMAIN managed |-> Clean(managed[i])])

Acceptable(root, boundary, m, build, managed) ==
    /\ m.entry # <<"">> => ~Escapes(root, boundary, m.entry)
    /\ \A rel \in ToSet(m.includes) : Safe(rel)
    /\ \A rel \in ToSet(IncludesOf(build)) : ~Escapes(root, boundary, rel)
    /\ \A path \in ToSet(managed) : IsAbs(path)

\* Load of the project at root with the build that is selected; the roots it declares are
\* kept apart for the properties.
LoadAt(files, root, boundary, m, selected, options) ==
    IF selected.ok /\ Acceptable(root, boundary, m, selected.build, options.managed)
    THEN [root |-> root,
          boundary |-> boundary,
          repos |-> m.repos,
          entry |-> EntryPath(root, m.entry),
          quoted |-> EntryRoots(root, m.entry),
          declared |-> JoinEach(root, IncludesOf(selected.build) \o m.includes),
          managed |-> options.managed,
          roots |-> ProjectIncludeRoots(files, root, m, selected.build, options.managed)]
    ELSE Unset

\* Load: the view of the project that contains start, whose manifest is decoded to
\* m (an empty one when it is malformed), or an error.
LoadBelow(files, root, m, options) ==
    IF root = Unset THEN Unset
    ELSE LoadAt(files, root, Boundary(files, root), m, SelectBuild(m, options.build), options)

Load(files, start, m, options) == LoadBelow(files, FindRoot(files, start), m, options)

-----------------------------------------------------------------------------
\* searchCandidates: a name without extension is tried with ".inc" as well.
SearchCandidates(spec) ==
    IF Last(spec) \in DOMAIN WithInc
    THEN <<spec, Append(Front(spec), WithInc[Last(spec)])>>
    ELSE <<spec>>

\* dirMatches: the candidates that are files below a directory.
DirMatches(files, directory, candidates) ==
    Among(JoinEach(directory, SafeOnes(candidates)), files)

\* relativeMatches: relative to the including file, within a root.
RelativeMatches(files, view, directory, candidates) ==
    LET roots == ToSet(view.roots) \union ToSet(view.quoted)
    IN Among(JoinEach(directory, candidates),
             {path \in files : \E r \in roots : Within(path, r)})

\* The directories ResolveAll searches for a name that is not relative.
SearchDirectories(view, from, quoted) ==
    (IF quoted THEN Append(view.quoted, Dir(from)) ELSE <<>>) \o view.roots

\* ResolveAll: the files an include directive may mean, the meant one first.
ResolveAll(files, view, from, spec, quoted) ==
    LET candidates == SearchCandidates(spec)
        directories == SearchDirectories(view, from, quoted)
    IN IF spec[1] \in {".", ".."} /\ Len(spec) > 1
       THEN Uniquely(RelativeMatches(files, view, Dir(from), candidates))
       ELSE Uniquely(FlattenSeq([i \in DOMAIN directories |->
                                    DirMatches(files, directories[i], candidates)]))
=============================================================================
