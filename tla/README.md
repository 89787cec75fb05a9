# A TLA+ model of pawn-project

pawn-project is a Go library that reads the manifest of a Pawn project,
resolves its dependencies into a graph of Git commits, keeps that graph and the
binary resources of its packages in `pawn.lock`, restores both below the project
root, and keeps a cache of compilers ("toolchains").  This directory models the
parts of it that keep state: what is on disk, in the lock file and in the caches,
and what the operations do to it when calls fail, processes die, several calls
overlap or calls come in an unexpected order.

`PROJECT.json` lists the components, the model checking runs, the mutated
definitions that show that each property can fail, the source lines behind every
definition, the findings, the hazards and the theorems.

    tlc -workers 2 -config MCGitInstall.cfg MCGitInstall.tla     # one run
    tlapm ResourceInstallProofs.tla                              # the proofs

## 1. Inventory

| part | source | state it keeps | operations | what makes it correct |
|---|---|---|---|---|
| resource install transaction | `dependency/resource_install.go` | the project's files, a private transaction directory | `InstallResourcePayload` | a payload is installed whole or not at all; no user file is lost |
| toolchain cache | `toolchain/toolchain.go`, `cache.go`, `fs.go` | a directory per version, a staging and a backup directory, a mutex | `Resolve`, `Update`, `List` | an entry is whole; a failed store undoes; pinned versions stay; a checksum is honoured |
| dependency graph resolution | `dependency/resolution.go`, `git_revision.go`, `manifest/dependency.go` | a queue of requests and the packages found (of one call); its result becomes the lock | `ResolveWithOptions`, `LockNeedsResolution` | the result is the closure of the requirements; a lock reproduces it |
| git checkouts and their cache | `dependency/git.go`, `integrity.go` | the checkout of each package, a cache of checkouts that projects share | `GitInstaller.Install` | success means the locked commit; failure leaves the old checkout; edits are not touched |
| lock file | `lockfile/*.go` | `pawn.lock` | `MarshalSampctlDependencies`, `MarshalSampctlResources`, `Load` | what is written comes back; changed packages lose their records |
| dependency restore | `dependency/restore.go` | `dependencies/<repo>` | `Restorer.Restore` | dependencies first, each package at its own directory at its commit |
| resource records | `dependency/resource_resolver.go`, `resource_resolve.go`, `resource_restore.go`, `lockfile/resources_write.go` | `pawnkit.resources` in the lock | `Resolve`, `HasCompleteTarget`, `Restore` | records are of the locked commits, one per target; a complete target can be restored |
| resource download and inspection | `dependency/resource.go`, `resource_record.go` | none | read an archive, map its files to destinations, check both against a record | what is resolved can be restored, destinations do not collide, sizes are bounded |
| replay downloader | `dependency/resource_replay.go` | a temporary directory with the bytes of each URL, a mutex | `Download`, `Close` | a URL is fetched once, everybody reads the same bytes, a close waits |
| toolchain archives, index, HTTP | `toolchain/archive.go`, `index.go`, `http.go` | none | select an artifact, fetch it, unpack it, find the compiler in it | nothing is written outside an entry; what is stored resolves; the reviewed compiler is returned |
| manifest | `manifest/*.go` | none | `Load`, validate, encode, `ParseDependency` | |
| project | `project/*.go` | none; reads what restores left on disk | load manifest, lock, profile and paths together | direct dependencies and extracted includes are preferred |
| profiles, paths, includes, workspace | `profile`, `paths`, `include`, `pathutil`, `workspace` | none | choose a build, find the root, search an include | nothing outside of the outermost project is found |
| file systems, configuration, doctor, fingerprint | `fsx`, `toolconfig`, `doctor`, `fingerprint` | the in-memory file system of the tests | | |

How they interact:

    manifest ──> GraphResolver ──> MarshalSampctlDependencies ──> pawn.lock
                     ^  reuses the lock's commits                   │ Load
                     └──────────────────────────────────────────────┤
                                                                    v
    Restorer ──calls, in dependency order──> GitInstaller ──> dependencies/<repo>
                                                │                   │ manifests
                                        checkout cache              v
    pawn.lock <── MarshalSampctlResources <── ResourceResolver (one target)
        │
        └──> ResourceRestorer ──> InstallResourcePayload ──> files of the project
                                                                    │
    ResourceResolver and ResourceRestorer share a ReplayDownloader  v
    (one operation), so that a restore reads what      project.Load ──> include roots
    was resolved                                       include.ResolveAll ──> a file

    toolchain.Resolver: a cache of its own, used by no other part

Nothing here is a long-running service: calls are made by a tool, one goroutine
per call.  The hard behaviours are

- *partial failure*: almost every operation is a sequence of renames with a
  hand-written undo, whose own calls may fail too;
- *crashes*: a process may die between any two calls, and what it leaves behind
  meets the next call;
- *overlap*: projects share the checkout cache, threads share a toolchain
  resolver, goroutines share a replay downloader, and no lock covers two processes;
- *stale data*: a lock, a checkout and a manifest are three views of one thing,
  updated by different calls; a server may serve other bytes on the next request;
  directories that no lock names any more stay on disk;
- *order*: a graph is traversed in the order of its queue, with names that turn
  out to be aliases, and the result must not depend on it.

## 2. The modules

| module | models | composed of |
|---|---|---|
| `AtomicInstall` | abstract: a payload is installed in one step or not at all | |
| `ResourceInstall` | `InstallResourcePayload`, one action per file system call | refines `AtomicInstall` |
| `ResourceInstallProofs` | its inductive invariant and four theorems | extends `ResourceInstall` |
| `ToolchainCache` | `Resolve`, `Update`, `List` by threads of several processes | |
| `ToolchainCacheProofs` | its inductive invariant and four theorems | extends `ToolchainCache` |
| `ToolchainStore` | index, archives, `Resolve` and `Update` of several versions by calls that overlap | extends `PathUtil` |
| `ToolchainStoreProofs` | its inductive invariant and three theorems; lemmas about cleaned paths | extends `ToolchainStore` |
| `GraphResolve` | one iteration of the traversal per action; the closure it must compute | |
| `GraphResolveProofs` | its three inductive invariants and six theorems | extends `GraphResolve` |
| `GitInstall` | `GitInstaller.Install`, with the shared cache and without | |
| `GitInstallProofs` | its inductive invariant and six theorems | extends `GitInstall` |
| `LockFile` | the document: write, load, link; `LockNeedsResolution` | |
| `RestoreLock` | the order of installation and the loop that installs | extends `LockFile` |
| `RestoreLockProofs` | the invariants of the document, of a restore and of its order, and five theorems | extends `RestoreLock` |
| `ResourceLock` | the resource records over updates, checkouts, resolutions, restores | |
| `ResourceLockProofs` | their inductive invariant and five theorems | extends `ResourceLock` |
| `ReplayStore` | `ReplayDownloader`, by goroutines, with the mutex held over the download | |
| `PathUtil` | cleaning, joining and comparing paths, as sequences of names | |
| `ResourceRecord` | inspection of an archive, its record, and every check of record and archive | extends `PathUtil` |
| `ProjectView` | the search for a project, the include roots it gets and the search for an include | extends `PathUtil` |
| `ResourceTool` | a tool that resolves, restores and loads | extends `ReplayStore`, `ResourceRecord`, `ProjectView` |
| `ResourceToolProofs` | the invariants of the store, of the tool and of its view, and twelve theorems; lemmas about joined paths, lists of paths and their order, records and sizes | extends `ResourceTool` |
| `MC*` | constants, bounds and fairness of the runs | |

`ResourceTool` is the composition of the three modules above it: its actions call
`Download`, `Close` and `StoreStep` of the store, and write the records and load
the views that the operators of the other two compute.

`RestoreLock` uses the others by their contracts, not by composition:
`LockFile!IsResolution` says of a resolution what the graph run checks of
`GraphResolve` (`EdgesAgree`, `ResolvesClosure`), and `RestoreLock!Install` does
what the git run checks of `GitInstall` (`ReportedIsLocked`, `FailureRestores`).
In the same way `ResourceLock!Checkout` stands for a whole `Restore` and
`RestoreResources` for a `ResourceRestorer.Restore`; `ResourceTool!Install` is one
step that installs all or nothing, which is what `ResourceInstall` implements when
nobody else writes the destinations.

### ResourceInstall

State: `disk` (a file, a directory, a dangling link or nothing at each
destination; the name of an installer is the content it installs), the parents
`dirs`, `.pawnkit` as `meta`, and per call the fields of `resourceInstallEntry`
(`had` is `hadTarget`, `inst` is `installed`), the contents of its stage and
backup directories, a program counter and the error it will return.  Actions
follow the calls: `Start` (destination checks), `MakeMeta`, `MakeTemp`, `Stage`,
then per entry `CheckParents`, `StatTarget`, `Preserve`, `MakeParent`, `Place`; a
failure enters the rollback, `Unplace` and `Restore` per entry backwards; `Cleanup`
is the deferred `RemoveAll`.  Every one may fail.  `Cancel` and `Crash` come at any
time.  "damaged" is an error after a rollback that failed, "unclean" one of the
cleanup of a committed install.

### ToolchainCache

One coordinate, because coordinates share nothing but the mutex.  A directory has
a binary and metadata; an artifact stands for its bytes and their checksum.
`dir`, `tmp` and `old` are the entry, its staging and its backup directory.  The
actions of a store are those of `storeFromDownload` and `commitCacheEntry` one by
one: `ClearStaging`, `MakeStaging`, `WriteBinary`, `ReadBack`, `WriteMetadata`,
`RemoveStaleBackup`, `StatDir`, `RenameOld`, `RenameNew`, `UndoRename`,
`RemoveBackup`, `CleanStaging`.  `Lookup`, `Verify` and `Store` hold the process's
mutex and `Download` does not, as in the code.  `published` is history: the last
entry that was committed.

### ToolchainStore

`ToolchainCache` takes one version apart into file system calls; this module has
many versions and looks at what is in the bytes.  Calls overlap as the code lets them:
the mutex is held over the look-up and again over the store, and not over the download
between them (`toolchain.go:160-176`).  So `Begin` is a call up to the end of its look-up,
`waiting` holds the calls that wait for a download, and `Download` is the rest of one,
with the store, which does not look again.  What a URL serves changes at any time, so
`Download` may get any bytes.  An artifact of an
index, the options of a call and the data behind each checksum are records; contents
of files stand for their checksums.  `Selected` is `Index.Select`, `Extract` the
extraction of a zip or a tar with their limits and their different treatment of
directories and links, `Compilers` the choice of the executable,
`InstallDownloadedArtifact` and `Entries` what is staged and the checks before the
rename, `Find` the look-up, whose hit never falls back to a download and whose miss waits for
one, `Resolve` and `Update` the calls with local compilers included.  `StoreFromDownload`
is one step, as the mutex covers it: it removes the staging and the backup directory of
its version and puts the entry in place.  Of a download that is rejected only the
staging directory is gone.  `seen`, what the look-up of a call found, and `changed`, the
directories that the last call changed, are history.

### GraphResolve

A repository is an id and `canon` tells which ids are aliases, which the code
learns from the provider only when it asks.  One iteration of the loop is one
action, chosen by the code's conditions in the code's order: `RejectCycle` (of
overrides), `RejectDepth`, `Conflict`, `Merge`, `RejectCount`, `CanonicalMerge`,
`AddPackage`, `Finish`; `Fail` is an error of the provider.  `Again` resolves a
second time with the lock of the first after the remote has moved, with or
without `Update`.  `Closure` is the reference: the least set of repositories and
constraints that has what the manifests require, with no queue, key or order in it.
`past` is history, the states that the first resolution has left behind; the second
is compared with them in the proofs.

### GitInstall

A checkout is its commit, whether it was edited and whether its sources have the
locked checksum.  The program counter follows `Install`: `Verify`,
`CheckReplaceable`, `LookUpCache`, `Clone`, `Publish` (the rename), `Unstage` (the
deferred removal), `Cached`, and for a replacement `Preserve`, `Clear`, `Restore`,
`Drop`.  `Clone`, `Publish` and `Unstage` are `installCheckout`, which runs for the
cache and then for the target.  An installer without a cache directory, one outside of
`sharing`, takes `SkipCache` and clones from the remote to the target at once.  A crash leaves the caller's backup as an orphan, as
its name is random.  The syntax checks before the first call (source type, URL,
form of the commit) touch nothing and are left out.

### LockFile and RestoreLock

The document knows packages by key and edges by the parents' keys; the loaded
lock has edges by the children's names.  `encodeSampctlDependency`,
`normalizeSampctlPackage` and `Linked` are that conversion with what it loses: the
dev flag and, when two hosts have one name, all but the last package of that name.
`RestoreLock` runs the depth-first `visit` of `orderedPackages` with an explicit
stack, one action per call, loop iteration and return, then `validateTargets` and
the loop over `restorePackage`.

### ResourceLock

`locked`, `records` and `checkout` are the lock's packages, its resource records
and what is below `dependencies/`.  A record carries as history the commit its
asset came from.  `WriteDependencies` filters the records as
`filterChangedResourceRecords` does, `ResolveResources` reads the checked-out
manifests, replaces the records of one target and writes them through
`MarshalSampctlResources`, `Checkout` may stop half-way, `RestoreResources`
installs one target or fails.

### ReplayStore

The variables are the fields of `ReplayDownloader` (`mu`, `files`, `closed`), its
directory (`present`, and `garbage` for a partial file that `os.Remove` left), the
call of each goroutine and what the server serves.  `Download` and `Close` begin a
call; `Lock`, `Refuse`, `Replay`, `Request`, `CreateTemp`, `Copy`, `Keep` and
`RemoveStore` are its steps up to the deferred unlock, which is part of each step
that returns.  `Publish` lets the server change at any time, even between the
request and the copy.  `fetched` and `seen` are history.

### ResourceRecord

Contents are model values and a checksum is the content.  Bytes have a form (zip,
tar, gzipped tar, text), a size and, in an archive, entries with a name, a kind, a
size, a content and whether they can be read; the order of the entries matters,
as the last file of two with one name wins in a payload.  A regular expression is
the set of paths it matches.  `Inspect` is `InspectResourceArchive` with its limits
on files and bytes, where the sum of a zip's sizes wraps (`Wrap`, 2^64 in the
code); `ResolveResourceRecord` maps plugins, includes and other files to their
destinations and rejects those that collide; `Valid` is what the validator of the
lock asks of a record and `Accepted` what it asks of all of a target, their number and
the spelling of the target included; `DestinationsDiffer` and `FetchResource` are the checks of
a restore.

### PathUtil and ProjectView

A path is a sequence of names; `Clean`, `Join`, `Within` and `Safe` do what
`pathutil` does to it.  A disk is the set of its files, and a directory is a prefix
of one.  `FindRoot` and `Boundary` are the searches of `workspace`, `SelectBuild`
the choice of a build with the empty name and the unknown one, `Load` is
`project.Load` with the checks that reject a manifest, and `ProjectIncludeRoots`
with `InstalledDependencyRoots` the list it computes from the manifest and from
`dependencies/`.  `ResolveAll` is the search of `include`.

### ResourceTool

`Begin` opens a store for an operation for one runtime version, and `TargetOf` is the
target of the resources it offers.  `Select`,
`ResolveRecord` and `Write` are the loop of `ResourceResolver.Resolve` and the
write of the lock; `BeginRestore`, `Fetch`, `Fetched` and `Install` are
`ResourceRestorer.Restore`; `CloseStore` and `Finish` close the store, after a
failure as well.  An operation may also restore only.  `Share` is another goroutine
that uses the same store, and `LoadProject` reads the disk between operations, from
any directory and with any of several manifests.

## 3. Runs

| run | properties | what it shows | distinct states |
|---|---|---|---|
| `install` | NothingLost, ImplementsAtomic, Returns | the undo works at every failure, cancellation and crash, and two installers do not disturb each other | 271,752 |
| `toolchain` | EntryWhole, EntryKept, ChecksumHonoured, CallsReturn | an entry is never half-written; a failed store puts back what it replaced; nothing unverified is returned; the mutex is always released | 193,254 |
| `toolchain_store` | StoredResolves, ExtractedInside, OnlyOwnReplaced | what a call stored is what the next one finds; an archive writes nothing outside its entry; other versions stay, and a `Resolve` replaces nothing that it has found | 21,916 |
| `graph` | TypeOK, ResolvesClosure, ConflictIsReal, EdgesAgree, Reproducible, FreshLockIsCurrent, Terminates | the traversal computes the closure, whatever the order, the aliases and the overrides | 28,612 |
| `git` | ReportedIsLocked, OldKept, FailureRestores, UndisturbedSucceeds, EditsStay | checkouts are the locked ones or the old ones; the race for the cache has no loser | 683,191 |
| `lock_file` | LoadsBack, DetectsChanges, DependenciesFirst, RestoreInstalls, RestoreReturns | the document keeps every graph; a resolution is asked for after edits and, but for dev dependencies, after nothing else; order and success of a restore | 232,292 |
| `resource_lock` | RecordsCurrent, OneRecordPerTarget, CompleteIsRestorable, OthersKept | records never outlive the commit or the name they were made for | 267,745 |
| `resource_tool` | DownloadedOnce, CloseWaits, ResolvedRestores, ResolvedLocks, InstalledIsLocked, ExtractedFound, DirectFirst, NothingOutside, CallsEnd | from the download to the include that is found: what was resolved is restored although the server changes, what was restored is what the lock says, and it is what an include means | 72,454 |

`TypeOK` is checked by `graph` and proved for `ResourceInstall`,
`ToolchainCache`, `ReplayStore` (`StoreTypeOK`), `GitInstall`, `GraphResolve`,
`RestoreLock` and `ResourceLock`.

Four runs show that the code does not do what its documents say.  Each checks one
property and finds it violated:

| run | property | what happens |
|---|---|---|
| `install_loss` | FailedCommitKeepsFiles | a rename of the rollback fails, and the deferred `RemoveAll` of the transaction directory removes the only copy of the user's file (`docs/architecture.md:74`) |
| `toolchain_list` | ListComplete | a `.tmp` or `.old` directory left by a crash or a failed removal has metadata of another version than its name, and every later `List` fails (`toolchain.go:209`) |
| `resource_lock_restore` | ResolvedIsRestorable | a package that names its resource differently per platform cannot be restored for either target once both are locked (`resource_restore.go:37`) |
| `toolchain_store_pinned` | PinnedVersionsStay | two calls of `Resolve` miss in the cache, and the download of the second is stored over the entry that the first has stored meanwhile (`docs/compatibility.md:78`, `toolchain.go:151`) |

More observations are conditions of properties that hold:
`DetectsChanges` excludes dev dependencies: the document has no place for the flag
(`dependencies_write.go:143`), so that a project with a dev dependency of no scheme needs
resolution after every resolution, where `resolution.go:52` says that only changes do;
`FreshLockIsCurrent` needs `NamesAreKeys`, since a manifest that names one
repository by two keys (with a scheme, or by an alias) needs resolution right
after it was resolved; `LoadsBack` and `RestoreInstalls` exclude two hosts with
one user and repository, which the resolver keeps apart and the writer accepts,
but `Load` reports and `Restorer` cannot install; `EditsStay` covers edits made
before `Install` looks for them, as those that come later move with the backup;
`ResolvedRestores` excludes two packages with one destination, which pass both
`Resolve` and `MarshalSampctlResources` and are rejected by every `Restore`;
`ResolvedLocks` excludes one destination spelled in two ways, which passes
`mapResourceFiles`, as that compares uncleaned names, and is rejected by the
validator, which cleans first, and a source `.` or `..` or a destination `.`, which the
validator rejects (`validate.go:213`): `unsafeArchivePath` lets `.` pass
(`resource.go:258`), and the name of an asset is not looked at before; it also excludes
a target that `Resolve` takes, as it has a platform (`resource_resolve.go:25`), and the
lock does not (`validate.go:125`), and more records than a lock may have, where the model
counts those of one target and the lock those of all;
`NothingOutside` excludes that the search starts at the directory of the outermost
project under the name of a file, so that its parent becomes an include root
(`project.go:79`, `project.go:131`);
`ExtractedFound` excludes another directory of extracted includes of the package
(`OnlyExtraction`), left by an earlier resource, as nothing removes it and the last name
that `ReadDir` lists is searched (`project.go:213`); `DirectFirst` excludes a direct
dependency that is extracted but not checked out, which is searched after all
checkouts; both exclude a root in `dependencies/` that the project itself declares, has
its entry in or is given by a tool (`RootsApart`), as such a root is searched before or
after all packages whatever it belongs to (`project.go:112-150`);
`OnlyOwnReplaced` excludes a version that is named like the `.tmp` or `.old`
directory of another, which a store of the other removes (`cache.go:148`), and an entry
that was cached after the look-up: each is a way for a `Resolve` to violate
`PinnedVersionsStay`, of which the run shows the second; `StoredResolves` excludes
a compiler called `toolchain.json`, which the metadata overwrites, so that the entry
never verifies again.

Other things met on the way, on which no property depends: one archive with
the compilers of two targets is cached for the first, and a `Resolve` of the second target's reviewed artifact
returns the first one's compiler, as a cache hit compares the archive checksum only
and never the executable's (`cache.go:109-115`, `README.md:75`); a clean checkout of
another commit is replaced, where `docs/compatibility.md:50` says that it must
match already and `git_test.go:91` wants the replacement; a record with one source
and two destinations restores from a zip and never from a tar; a
`ReplayDownloader.Close` whose `RemoveAll` fails stays closed, and its directory is
never removed; a tar that spells a name `./bin/pawncc` does not contain the
executable `bin/pawncc` of an index; `selectRuntime` with a name and no `Runtimes` returns the single
runtime whatever its name.

### Bounds

- `install`: two installers, payloads of two files and one, two parent
  directories of which one may be missing or a link.  Two entries are enough for
  a rollback that has something before, at and after the failing entry; a longer
  payload repeats the middle, and the proofs cover every length.  Faults are not
  bounded: every call may fail.  Only the first installer is cancelled or dies.
- `toolchain`: two threads of one process, then a process with one thread that
  starts after the first has ended or died; two artifacts; unbounded faults; one
  crash.  Two threads give every order of look-up, download and store; the third
  meets what a crash left.  `Concurrent = FALSE` is a bound and an assumption:
  with two processes at once the shared staging directory makes every property
  fail, and nothing in the code or its documents claims otherwise.
- `toolchain_store`: one vendor, two versions of which one is named like the other's
  staging directory; ten downloads: a bare binary and archives with compilers of two
  targets, other spellings, duplicates, names that lead out, a file that is a
  directory elsewhere, links, too many entries and too many bytes (`MaxFiles = 4`,
  `MaxBytes = 3` for 10000 and 2^29); a valid index, one with a duplicate and one with
  a path that leads out; calls with and without an index, by two callers.  Two have every
  overlap of a look-up, a download and a store of one with those of another.  No bound
  on the number of calls.
- `graph`: four ids, one of which may be an alias; up to two direct
  dependencies; manifests with chains, diamonds, cycles, self-dependencies and a
  change of one manifest when the remote moves; overrides that chain and that form
  a cycle; two constraints; `MaxPackages = 3` and `MaxDepth = 2` (1024 and 64 in
  the code, lowered so that both limits are met).
- `git`: two projects, two calls each, one fault, one crash and one edit in all; the
  second project uses the cache, and the first does or does not;
  every kind of checkout at the first target.  One fault at each place, with a
  crash before or after it, reaches every undo; two calls let the second meet what
  the first left.
- `lock_file`: three keys, one a plugin; every edge set over them with one
  self-edge; names distinct, equal for two hosts, or with one repository name for
  two users; a second resolution of the same graph at new commits, or an edit.
- `resource_lock`: two packages, one of a kind that must have resources; two
  commits, two targets, two versions; resources named alike, per platform or per
  version.  No bound on the number of calls: the state is finite.

- `resource_tool`: a package with a plugin and one with includes only, two operations for
  two runtime versions, with resources that change their pattern, their
  destination or their number between them; archives with entries that differ in
  letters only, plugins that occur twice, more entries than `MaxFiles`, a zip with a
  sum of sizes that wraps below the limit, a tar with a negative size.  `MaxFiles = 4`,
  `MaxBytes = 10` and `Wrap = 32` stand for 4096, 2^30 and 2^64, so that every limit
  of an archive is met and exceeded.  `MaxRecords = 2`, for 1024, is met only; one offer
  is for a target that the lock refuses (`LockTargets`).  The run has two families of initial states, as their product would only
  multiply independent choices: all assets and offers with the tool alone, where
  the server changes once (`MaxChanges`), and one offer with a second goroutine that
  makes two calls (`MaxShared`) during a single operation.  A project is loaded
  after the last operation, alone or inside another one, from two directories,
  with manifests that name roots inside, above and outside of it.

`CHECK_DEADLOCK FALSE` is in the configurations of programs that end.  The
resource lock and the toolchain store never end, and their runs check for
deadlock.

### Fairness

Weak fairness of the steps of each call (`Step(p)`, `Iterate`): the code blocks
nowhere except at the toolchain mutex, and the Go scheduler runs every runnable
goroutine.  Weak fairness is enough at the mutex because the runs have finitely
many calls, so that it is free from some point on.  Nothing is assumed of
crashes, cancellations, faults, edits and new calls, and no fairness is assumed
of a step of a dead process, whose actions are disabled.

`resource_tool` assumes less: weak fairness of the disjunction of the tool's steps
and of the steps of every goroutine in the store.  One goroutine at a time holds
the store's mutex and the others have few calls, so that this is enough.  Nobody
has to begin an operation, to load, to share or to publish.

## 4. Proofs

`ResourceInstallProofs` holds for any number of installers, any files and
payloads of any length.  Its assumptions are `InstallAssumption` (a destination
occurs once in a payload, and the markers for contents are distinct), and
`Isolated`: the payloads of two installers are disjoint.  The code takes no lock,
so that without it the rollback of one installer may remove a file of the other.

None of the properties is inductive: whether the user's file is at its
destination or in the backup depends on how far the loops are.  `IInv` says it
for every program point.  `Phase(p, i)` gives the state of entry `i`: before the
loop index everything is `InPlace`, after it `Untouched`; during a rollback what is
before the index still has to be rolled back and what is after it is `Restored`,
unless an error was noted.  `Control(p)` bounds the index.  There is one lemma per
action, and two frame lemmas (`FrameKeepsOthers`, `OwnPart`) that use `Isolated` to
reduce each to the acting installer.  From `Invariant` follow `TypeCorrect`,
`NothingIsLost`, `FailureRestores` and `CommitStays`; no run checks the properties of
the last two (`FailedRestores`, `CommittedInstalled`), as `ImplementsAtomic` says more.

The same module shows, from the same two assumptions, that the install implements
`AtomicInstall` (`InstallIsAtomic`).  `IInv` is not enough for it: it says
nothing of an entry whose rollback failed.  `Undoable` adds that a reader who
undoes an install in flight still sees the original there, and that what is in the
backup is not at the destination as well; `DamagedStep` is the part of its
induction that does not follow from `IInv`.  `ViewFacts` says what the mapping
`View` is at every destination, without its CHOOSE, and `StepAtomic` maps the steps:
while an install is in flight, and in its cleanup after a commit, nothing is seen to
change; the step out of the commit loop is `Commit`, a step to a return with
"failed" is `Abort`, and one with "damaged" is `Damage`.

`ResourceLockProofs` holds for any packages, commits, targets and declared
resources.  `RecordsInv` is `RecordsCurrent`, `OneRecordPerTarget` and that
records are of locked packages; the last conjunct is needed for `OthersKept`,
because the filter drops records of packages that were not locked before.
`SelectedOnce` says that a manifest gives a target at most one resource and
`ResolvedRecords` what a resolution writes.  `RecordsAreCurrent`, `RecordsAreUnique`
and `OthersAreKept` follow.  `LockInv` adds the types and `Recorded`: as long as no
resolution read a stale checkout, a record has a name that its package declares at
the record's commit.  With `RecordsCurrent` that makes the package of every record
one that a complete target has a record of, which is `CompleteCanBeRestored`.

`ResourceToolProofs` holds for any goroutines, URLs and bytes, from `StoreAssumption`
(the markers are no URL, bytes or goroutine), and for any packages, manifests, assets,
archives and disks, from `RecordAssumption` (the entries of an archive are a sequence,
their sizes have the width of the readers, the limit of a size fits its signed half),
`FoldedAssumption` (the lower-case form of a segment is not empty and is its own),
`ViewAssumption` (the names `ReadDir` sorts are a sequence, with the names of the
extracted directories in it, manifests hold lists of paths) and `ToolAssumption` (the project, what is on the disk and where a search starts
are clean absolute paths, the packages are listed once, an asset has a URL, what a
manifest or an include names is a path), `RecordsAssumption` (the limit of records is a
number) and `OfferAssumption` (a resource that is selected has a name, as the validator
of manifests wants).

- The store.  The argument is mutual exclusion: whoever is between Lock and Unlock
  holds the mutex, and what was kept is what was fetched once and what everybody has
  read (`StoreInv`).  `StepsTheStore` shows that a step of the tool is one of the
  store, so that the composition implements it (`ToolUsesStore`).
- Paths.  Two destinations that `DestinationsDiffer` tells apart must not meet when
  they are joined to the project (`JoinInjective`).  `Clean` is a loop over the segments,
  and what a destination pushes on the project it pushes on nothing as well
  (`PushDown`, `PushedTogether`), as long as it leads nowhere up, which `Safe` says; what
  is the same below the project is the same alone.  The loop is a recursive function,
  which exists by the least index without it.
- Records.  `ResolvedFetches` says that what `ResolveResourceRecord` accepts of some
  bytes `FetchResource` accepts of the same bytes: the entries of an archive that can be
  listed have different names (`NamedOnce`), so that the entry a reader looks up for a
  source is the one the source was mapped from.  `FetchedIsLaid` says that the payload has
  for every destination the content of its record.
- The tool.  `Making` is what a resolution has recorded, from bytes that are still in
  the store; `Locking` that the lock is valid and, in an operation that resolved, what it
  made; `Fetching` that every record is laid in the payload or still to be fetched, and
  that nothing else is in it; `Asked` that the answer the tool waits for is one that
  readers of the URL are given.  Together with the store's invariant they are inductive
  (`ToolInvariant`), and `LockedIsInstalled` and `ResolvedCanBeRestored` follow.
- Sizes.  The inspection adds the sizes up in the order of the entries, modulo the width
  of the counter, and looks at the sum after each; the validator adds them up in the
  order of the files.  `ZipTotals` and `TarTotals` say that a sum that is accepted is the
  plain sum, as one that has wrapped is refused and stays so.  `SumsExist` gives the sum
  over a set in any order and `SizesAdd` that it is one, so that files with different
  entries have no more of them and no larger sum than the archive (`SizesBounded`).
  `ResolvedIsValid` follows: a record that was made is one the validator accepts, or has
  one of the odd names `ResolvedLocks` excludes.  `LocksInv` keeps that over a resolution,
  and that a call that fails at the lock has recorded such a name, or too many records or
  a target the lock does not spell like that (`Unrecorded`); `ResolvedIsLocked` follows.
- The view.  The lists of roots are selections, first occurrences and concatenations:
  `PickedList`, `UniquelyList` and `FlattenList` say that they hold what was there and
  nothing else, each by the least index that would be wrong.  A path is `Proper` when it
  is absolute and clean, `Join` keeps it so, and what it adds stays below where it was joined
  unless it leads up (`SafeBelow`, `JoinIsInside`).  `RootsAreGood` says that every root
  is below the project, the dependencies or a root that a manifest names there, `ResolvedAreHeld` that what is found in
  such roots is below one of those.  With `ViewInv`, that the view was loaded from a proper
  start, `NothingIsOutside` follows.
- The order.  `Leads` says that in a list nothing of one kind is before anything of
  another, unless it is there earlier as well.  Concatenation, first occurrences and
  `FlattenSeq` keep it (`ConcatLeads`, `UniquelyLeads`, `FlattenLeads`), the last by
  `FlattenInOrder`: before what is in one of the lists is all that is in those before it.
  A root or file below `dependencies/` is of one package (`Owned`): everything below a
  checkout is of that package, and everything below a directory of extracted includes of
  the one it was extracted from.  So the packages' order (`PackagesLead`) becomes that of
  their roots (`DependenciesLead`), of all roots of the project (`RootsLead`) and of the
  files that are found in them (`FoundLeads`).  `LoadedInv` says that the view is what
  loading the present disk gives, as no operation runs while one is held: with `ViewInv`
  it gives `DirectComesFirst`.  For `ExtractedIsFound`, the installed files are on the disk
  (`ToolInv`), so that their directory is listed (`ExtractionIsFound`); as the only one of its
  package it is the package's only root (`OnlyExtractionRoots`), and what is below the
  checkout is below no root (`CheckoutIsApart`).

`ToolchainCacheProofs` holds for any processes, threads and artifacts, on the
assumption `OneAtATime` that processes run one after the other, without which the
shared staging directory breaks every property.  Its invariant is again mutual
exclusion (`Locked`) with what each step of a store has done to the staging, the
backup and the version directory (`Stored`); `Kept` says that the committed entry
is in the cache except between the two renames.  `EntryIsWhole`, `EntryIsKept`,
`ChecksumIsHonoured` and `CacheTypeCorrect` follow.

`GitInstallProofs` holds for any number of projects, with a cache or without, calls,
faults, crashes and edits, and for anything that is in the cache and at the targets before; the bounds
of the run are constants there, as large as one likes.  Projects meet in the cache
only, and the cache only ever changes from nothing to the locked checkout
(`Entry`), so that a step of one keeps the phases of the others.  `Phase(p)` has
one part per stage of a call: what the target is before the call has looked
(`Looking`), while the cache is filled (`Waiting`), while the target is replaced
(`Replacing`) and after the call (`Returned`).  `SuccessIsLocked`, `OldIsKept`,
`FailurePutsBack`, `RaceHasNoLoser`, `EditsAreLeft` and `InstallTypeCorrect` follow.

`RestoreLockProofs` holds for any names, graphs and manifests, and any keys with a
greatest one among them, so that "the last package of a name" exists.  `FileInv` relates the
manifest a resolution came from, the resolution (`Origin`), the document
(`Document`) and what was loaded (`Loaded`); `LinkedBack` is the lemma that turning
the edges round twice gives them back when names are distinct.  `LoadReturnsWritten`
and `EditsAreNoticed` follow.  `RestoreInv` adds the traversal: the stack and the order hold
each name once, the two are disjoint, and from the comparison of targets on the
order has every locked name, with targets of their own.  An installation then
cannot disturb an earlier one, which is `RestoreIsComplete`; `RestoreTypeCorrect` is
the rest.  For `DependenciesComeFirst`, `OrderInv` says that the stack is a path of the
graph (`Path`), that a dependency which is not left to try has been met (`Tried`), and
that what a package in the order needs is before it or leads back to it (`Before`).
When a package is appended, what it needs and is still being visited is below it on
the stack, and so leads to it.  `Reachable` is the least closed set, so that its
closure and its leastness are the two facts the proof takes from it.

`GraphResolveProofs` holds for any repositories, manifests, old names, overrides,
constraints and limits.  What the world is like (`WorldOK`) is part of `Init`: an old
name leads to a present one, an override keeps the scheme, and both are finite.
There are three invariants, one on top of the other.

- `GraphInv`: types and limits; `Names`, that every name which was met leads to the
  one package that has it; `Asked`, that every request is one of the project or of a
  package that wants it; and `Edges`.  A merge is the step that could break it: it
  may find its package by a key, by a name or by what the name is now.
  `EdgesAlwaysAgree` and `GraphTypeCorrect` follow.
- `Replay`: an iteration is a function of the queue and the packages as long as
  commits come from the lock or the same remote (`After`, `GoesStep`).  `First` says that
  `past` holds every state from the start to the present one, and `Second` that the
  second resolution is in one of them, so that it can neither fail nor end elsewhere:
  `AlwaysReproducible`.
- `Towards`: the project's dependencies are looked at first and one after the other
  (`Looked`), every package is in the closure (`Sound`), and what a package wants is in
  the graph or in the queue (`Complete`).  At the end the queue is empty, so that the
  packages are closed, and the closure is the least such set: `AlwaysClosure`.  A
  conflict has two constraints of one repository in the closure (`ConflictsAreReal`),
  and `Looked` knows which direct dependency the lock has the kind of
  (`FreshLockAlwaysCurrent`).

Overrides are followed by a recursive function.  That it exists for every length is
shown by the least length without it (`LeastExists`, from the well-foundedness of the
natural numbers): an induction with a set in the place of the predicate.

`ToolchainStoreProofs` holds for any vendors, versions, indexes, options, limits and
bytes, from `StoreAssumption`: names in archives and paths that are asked for are paths,
that is, sequences.  A name is checked by `SafeJoin`, and the cleaned one is written.
`CleanIsSafe` says that these agree: `Clean` adds no segment, and what it leaves of a
relative path has ".." at the front only (`PushLeads`), by the same kind of induction
over its loop.  With it `EntriesAreGood` says what may be put into an entry, and
`ResolveIs`, `UpdateIs`, `BeginIs`, `DownloadIs` and `NextIs` sort the steps into those
that fail, those that find, those that wait and those that store.  `StoreInv` is that
every entry is inside its directory, that what was returned last is in the cache as it
is, and that a call that waits had not found the entry it will store
(`WaitersSawNothing`).  `ExtractedStaysInside` and `StoredAlwaysResolves` follow, and
`OnlyOwnIsReplaced` from the last part and the same cases, for any callers and any
overlap of their calls.

Only model-checked: liveness (`Returns`, `CallsReturn`, `Terminates`, `RestoreReturns`,
`CallsEnd`), as the prover has no ENABLED.  Every invariant that a passing run checks is
stated by a theorem.

## 5. Not modelled

- Bytes: compression, JSON and YAML, HTTP requests and redirects.  Where a modelled
  operation uses them they are a choice between success and an error.
- Strings: URL, version, constraint and dependency syntax, drive letters of Windows.
  A regular expression or glob is the set of paths it matches.
- Git itself: a clone gives the commit that was asked for or fails, and
  `git status` tells whether there are edits.
- Local packages and toolchains with a local path beyond the look for them.
- `manifest`: decoding, validation and encoding, pure functions of one document.
  `project.Load` accepts or rejects a manifest in `ProjectView`.
- Of `project` and `profile`: the loading of the lock into the view, the choice of a
  runtime, presets and the output path.  They read and keep nothing.
- `lockfile`'s graph view and release tags: listings of what is modelled.
- `FindCompiler` for a compiler outside of the cache, and diagnostics of
  `loadResourceManifest`.
- `toolconfig`, `doctor`, `fingerprint` and `fsx`: reports, and the file system of
  the tests.
- Loss of written data in a crash of the machine: the code calls no `fsync` and
  promises nothing.  A crash here is the death of a process.

## 6. Plan

Done, in this order: the install transaction with its abstract specification and
proofs, the toolchain cache, the graph resolution, the git installer, the
resource records with proofs, the lock file and the restore; then the replay
downloader with proofs, the resource records of archives, the project view and the
tool that composes them, the toolchain store, and the proofs of the toolchain cache,
the git installer, the lock file, the restore and the refinement; then the proofs of
the graph resolution, of the order of a restore, of the toolchain store and of the
tool; last the proofs of the sizes in a record and of the view: what is in it and in
which order.

Next:

1. `LockFile`: the two directions of the round trip for local packages and the dev
   flag of the draft schema.
2. The choice and merge of profiles (`profile.go`) and the validation of manifests.
