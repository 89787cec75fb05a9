--------------------------- MODULE ToolchainStore ---------------------------
(***************************************************************************)
(* What a compiler cache holds after calls for several vendors, versions   *)
(* and targets (src/toolchain): the selection of an artifact from an index *)
(* (index.go), the extraction of archives (archive.go), and Resolve and    *)
(* Update with the checks between them (toolchain.go, cache.go).           *)
(*                                                                         *)
(* Calls overlap as the mutex of a Resolver lets them: the look-up in the  *)
(* cache is a step, and so is the store, which does not look again; in     *)
(* between a call waits for its download, and others look up and store.    *)
(* File system calls do not fail; ToolchainCache has these, for one        *)
(* coordinate.  A store leaves nothing of its staging directory.           *)
(*                                                                         *)
(* Bytes and contents of files stand for their checksums, and "" for one   *)
(* that is not given.  Data of bytes is [form, size, entries]; an entry is *)
(* [name, kind, size, content, readable], where kind is "file", "dir" or   *)
(* "link".                                                                 *)
(***************************************************************************)
EXTENDS Integers, FiniteSets, PathUtil

CONSTANTS
    Callers,        \* who calls, one call at a time each
    MaxFiles,       \* maxArchiveFiles, 10000
    MaxBytes,       \* maxArchiveBytes and maxDownloadBytes, 2^29
    Data,           \* what bytes hold
    Vendors,        \* those that are supported
    Versions,       \* those that name a directory of the vendor's
    StagingName,    \* version to the name of its directory with .tmp
    BackupName,     \* and with .old
    Secure,         \* the URLs with https, a host and no user
    Locals,         \* the files a tool may name as local compilers: path to content
    Indexes,        \* compiler indexes: sequences of artifacts
    Options,        \* what tools ask for without an index
    Targets

ASSUME StoreAssumption ==
    /\ MaxFiles \in Nat /\ MaxBytes \in Nat
    /\ DOMAIN StagingName = Versions /\ DOMAIN BackupName = Versions
    /\ \A bytes \in DOMAIN Data : \A i \in DOMAIN Data[bytes].entries :
          IsPath(Data[bytes].entries[i].name)
    /\ \A opts \in Options : IsPath(opts.path)
    /\ \A index \in Indexes : \A i \in DOMAIN index : IsPath(index[i].path)

VARIABLES
    cache,      \* the directories <<vendor, name>> of the cache: [files, meta]
    waiting,    \* the calls that wait for a download: [call, opts, seen] by caller, where
                \* seen is what the look-up of the call has found in the cache
    last        \* the last call that returned: its status and, unless it is an error that
                \* left the cache alone, its options and its result, and as history the
                \* directories of the cache that it has changed

vars == <<cache, waiting, last>>

MetadataFile == <<"toolchain.json">>

NoInfo == [vendor |-> "", version |-> "", path |-> <<"">>, checksum |-> "", artifact |-> ""]

Nothing == [call |-> "none", opts |-> {}, status |-> "none", info |-> NoInfo, changed |-> {}]

Init ==
    /\ cache = <<>>
    /\ waiting = <<>>
    /\ last = Nothing

-----------------------------------------------------------------------------
\* validateCoordinate.
ValidCoordinate(vendor, version) == vendor \in Vendors /\ version \in Versions

\* CompilerArtifact.validate.
ValidArtifact(a) ==
    /\ ValidCoordinate(a.vendor, a.version)
    /\ a.target # "" /\ a.size >= 1
    /\ a.format \in {"raw", "zip", "tar.gz"}
    /\ a.url \in Secure
    /\ a.checksum # "" /\ a.execsum # ""
    /\ Safe(a.path)

SameCoordinate(a, b) == a.vendor = b.vendor /\ a.version = b.version /\ a.target = b.target

\* LoadIndex, of an index with the checksum that was expected.
ValidIndex(index) ==
    /\ index # <<>>
    /\ \A i \in DOMAIN index : ValidArtifact(index[i])
    /\ \A i, j \in DOMAIN index : SameCoordinate(index[i], index[j]) => i = j

\* Index.Select.
Selected(index, vendor, version, target) ==
    {index[i] : i \in {j \in DOMAIN index :
        SameCoordinate(index[j], [vendor |-> vendor, version |-> version, target |-> target])}}

\* CompilerArtifact.ResolveOptions.
ResolveOptions(a, offline) ==
    [local |-> <<"">>, vendor |-> a.vendor, version |-> a.version, url |-> a.url,
     checksum |-> a.checksum, size |-> a.size, format |-> a.format, path |-> a.path,
     execsum |-> a.execsum, offline |-> offline]

-----------------------------------------------------------------------------
\* The entries that become files.
Extracted(entries) == {i \in DOMAIN entries : entries[i].kind # "dir"}

TotalBytes(entries) == MapThenSumSet(LAMBDA i : entries[i].size, Extracted(entries))

\* A wrong form: names are not checked.
ZipAcceptsAny(entries) == Len(entries) <= MaxFiles

\* extractZip looks at the names of directories too, and takes a link for a file.
ZipAccepts(entries) ==
    /\ Len(entries) <= MaxFiles
    /\ \A i \in DOMAIN entries : Safe(entries[i].name)

\* extractTarGzip.
TarAccepts(entries) ==
    /\ Cardinality(Extracted(entries)) <= MaxFiles
    /\ \A i \in Extracted(entries) : entries[i].kind = "file" /\ Safe(entries[i].name)

\* No file is written to a directory or below a file.
Placeable(paths) ==
    \A p \in paths : p # <<".">> /\ \A q \in paths \ {p} : ~IsPrefix(p, q)

\* The entries with one path.
At(entries, path) == {i \in Extracted(entries) : Clean(entries[i].name) = path}

\* The files of an archive by path; the last of several with one path stays.
Contents(entries) ==
    [p \in {Clean(entries[i].name) : i \in Extracted(entries)} |->
        entries[Max(At(entries, p))].content]

Extract(format, entries) ==
    [ok |-> /\ IF format = "zip" THEN ZipAccepts(entries) ELSE TarAccepts(entries)
            /\ Extracted(entries) # {}
            /\ TotalBytes(entries) <= MaxBytes
            /\ \A i \in Extracted(entries) : entries[i].readable
            /\ Placeable(DOMAIN Contents(entries)),
     files |-> Contents(entries)]

\* The first of some entries.
First(indices) == {i \in indices : \A j \in indices : i <= j}

\* The compiler among the names as the archive spells them: the one that is asked
\* for, or else the first that looks like one, or else the first of all.
Compilers(entries, path) ==
    LET files == Extracted(entries)
        like == {i \in files : Base(entries[i].name) \in {"pawncc", "pawncc.exe"}}
        chosen == CASE path # <<"">>                 -> {i \in files : entries[i].name = path}
                    [] path = <<"">> /\ like # {}    -> First(like)
                    [] path = <<"">> /\ like = {}    -> First(files)
    IN {entries[i].name : i \in chosen}

\* f with v at x.
Put(x, v, f) == [y \in DOMAIN f \union {x} |-> IF y = x THEN v ELSE f[y]]

\* A raw artifact is the compiler.
Raw(bytes, path) ==
    LET binary == IF path = <<"">> THEN <<"pawncc">> ELSE path
    IN [ok |-> Safe(binary) /\ Placeable({Clean(binary)}),
        files |-> [p \in {Clean(binary)} |-> bytes],
        compilers |-> {binary}]

Unpacked(format, bytes, path) ==
    LET entries == Data[bytes].entries
        archive == Extract(format, entries)
    IN [ok |-> Data[bytes].form = format /\ archive.ok,
        files |-> archive.files,
        compilers |-> Compilers(entries, path)]

\* Without a format the first bytes tell a ZIP from a compiler.
Format(bytes, opts) ==
    CASE opts.format # ""                                 -> opts.format
      [] opts.format = "" /\ Data[bytes].form = "zip"     -> "zip"
      [] opts.format = "" /\ Data[bytes].form # "zip"     -> "raw"

\* installDownloadedArtifact.
InstallDownloadedArtifact(bytes, opts) ==
    CASE Format(bytes, opts) = "raw"                -> Raw(bytes, opts.path)
      [] Format(bytes, opts) \in {"zip", "tar.gz"}  -> Unpacked(Format(bytes, opts), bytes, opts.path)
      [] OTHER                                      -> [ok |-> FALSE]

-----------------------------------------------------------------------------
\* The checks before the staging directory is cleared.
Downloaded(bytes, opts) ==
    /\ Data[bytes].size <= MaxBytes
    /\ opts.size \in {0, Data[bytes].size}
    /\ opts.checksum \in {"", bytes}

Metadata(opts, binary, checksum, bytes) ==
    [vendor |-> opts.vendor, version |-> opts.version, path |-> binary,
     checksum |-> checksum, artifact |-> bytes]

\* A wrong form: the checksum of the download is taken for that of the compiler.
EntriesUnread(bytes, opts) ==
    LET installed == InstallDownloadedArtifact(bytes, opts)
    IN IF ~installed.ok THEN {}
       ELSE {[files |-> Put(MetadataFile, "metadata", installed.files),
              meta |-> Metadata(opts, Clean(binary), bytes, bytes)] : binary \in installed.compilers}

\* The entry that is staged: the compiler is read back, compared with its expected
\* checksum, and the metadata written, over a file of that name if there is one.
\* The set is empty after an error.
Entries(bytes, opts) ==
    LET installed == InstallDownloadedArtifact(bytes, opts)
    IN IF ~installed.ok \/ ~Placeable({MetadataFile} \union DOMAIN installed.files) THEN {}
       ELSE {[files |-> Put(MetadataFile, "metadata", installed.files),
              meta |-> Metadata(opts, Clean(binary), installed.files[Clean(binary)], bytes)] :
                 binary \in {b \in installed.compilers :
                                opts.execsum \in {"", installed.files[Clean(b)]}}}

EntryDir(opts) == <<opts.vendor, opts.version>>
StagingDir(opts) == <<opts.vendor, StagingName[opts.version]>>
BackupDir(opts) == <<opts.vendor, BackupName[opts.version]>>

\* f without some of its arguments.
Without(f, some) == [x \in DOMAIN f \ some |-> f[x]]

Changed(d) == d \notin DOMAIN cache' \/ cache'[d] # cache[d]

\* The call of a caller returns.
Return(c, call, opts, status, info) ==
    /\ last' = [call |-> call, opts |-> {opts}, status |-> status, info |-> info,
                changed |-> {d \in DOMAIN cache : Changed(d)}]
    /\ waiting' = Without(waiting, {c})

\* It returns an error and has changed nothing.
Fail(c, status) ==
    /\ UNCHANGED cache
    /\ last' = [Nothing EXCEPT !.status = status]
    /\ waiting' = Without(waiting, {c})

\* storeFromDownload, with commitCacheEntry, under the mutex: whether an entry is there
\* by now makes no difference.
StoreFromDownload(c, call, opts, bytes) ==
    \/ ~Downloaded(bytes, opts) /\ Fail(c, "mismatch")
    \/ /\ Downloaded(bytes, opts) /\ Entries(bytes, opts) = {}
       /\ cache' = Without(cache, {StagingDir(opts)})
       /\ Return(c, call, opts, "rejected", NoInfo)
    \/ /\ Downloaded(bytes, opts)
       /\ \E entry \in Entries(bytes, opts) :
             /\ cache' = Put(EntryDir(opts), entry, Without(cache, {StagingDir(opts), BackupDir(opts)}))
             /\ Return(c, call, opts, "stored", entry.meta)

\* Resolver.download of a call that waits: without a URL nothing is asked for, and the
\* downloader takes no other URL than a secure one.  What a URL serves changes at any
\* time, so it may be any bytes; a store reads them, and that may fail as well.
Download(c) ==
    LET call == waiting[c].call
        opts == waiting[c].opts
    IN \/ opts.url = "" /\ Fail(c, "no url")
       \/ opts.url # "" /\ Fail(c, "io")
       \/ opts.url \in Secure /\ \E bytes \in DOMAIN Data : StoreFromDownload(c, call, opts, bytes)

\* The call of a caller goes on to its download, without the mutex.
Wait(c, call, opts, seen) ==
    /\ waiting' = Put(c, [call |-> call, opts |-> opts, seen |-> seen], waiting)
    /\ UNCHANGED <<cache, last>>

\* resolveLocal: the vendor is "local" unless one is given.
ResolveLocal(c, call, opts) ==
    LET sum == Locals[opts.local]
        info == [vendor |-> IF opts.vendor = "" THEN "local" ELSE opts.vendor,
                 version |-> opts.version, path |-> opts.local, checksum |-> sum, artifact |-> ""]
    IN \/ opts.local \notin DOMAIN Locals /\ Fail(c, "io")
       \/ /\ opts.local \in DOMAIN Locals /\ opts.checksum \in {"", sum}
          /\ UNCHANGED cache
          /\ Return(c, call, opts, "local", info)
       \/ /\ opts.local \in DOMAIN Locals /\ opts.checksum \notin {"", sum}
          /\ Fail(c, "mismatch")

\* lookupCache: the metadata is of the coordinate.
Cached(opts) == EntryDir(opts) \in DOMAIN cache

\* verifyCached: the compiler is the one of the metadata, and it or the artifact
\* it came from has the expected checksum.
Verified(opts) ==
    LET entry == cache[EntryDir(opts)]
    IN /\ entry.meta.vendor = opts.vendor /\ entry.meta.version = opts.version
       /\ entry.meta.path \in DOMAIN entry.files
       /\ entry.files[entry.meta.path] = entry.meta.checksum
       /\ opts.checksum \in {"", entry.meta.artifact, entry.meta.checksum}

\* A cache hit.
Hit(c, opts) ==
    /\ Cached(opts) /\ Verified(opts)
    /\ UNCHANGED cache
    /\ Return(c, "resolve", opts, "cached", cache[EntryDir(opts)].meta)

\* What the look-up of a call found.
Seen(opts) == {EntryDir(opts)} \intersect DOMAIN cache

\* A wrong form: what is not as expected is downloaded again.
FindOrReplace(c, opts) ==
    \/ Hit(c, opts)
    \/ ~(Cached(opts) /\ Verified(opts)) /\ Wait(c, "resolve", opts, Seen(opts))

\* The look-up, under the mutex, and what follows from it; what is cached and not as
\* expected is an error.
Find(c, opts) ==
    \/ Hit(c, opts)
    \/ Cached(opts) /\ ~Verified(opts) /\ Fail(c, "mismatch")
    \/ ~Cached(opts) /\ opts.offline /\ Fail(c, "offline")
    \/ ~Cached(opts) /\ ~opts.offline /\ Wait(c, "resolve", opts, Seen(opts))

Valid(opts) == ValidCoordinate(opts.vendor, opts.version)

\* What Resolve does before its download.
Resolve(c, opts) ==
    \/ opts.local # <<"">> /\ ResolveLocal(c, "resolve", opts)
    \/ opts.local = <<"">> /\ ~Valid(opts) /\ Fail(c, "invalid")
    \/ opts.local = <<"">> /\ Valid(opts) /\ Find(c, opts)

\* What Update does before it: there is no look-up.
Update(c, opts) ==
    \/ opts.local # <<"">> /\ ResolveLocal(c, "update", opts)
    \/ opts.local = <<"">> /\ ~Valid(opts) /\ Fail(c, "invalid")
    \/ opts.local = <<"">> /\ Valid(opts) /\ Wait(c, "update", opts, {})

\* A tool resolves, or updates to, the artifact an index has for its target.
ResolveReviewed(c, index, vendor, version, target, offline) ==
    /\ ValidIndex(index)
    /\ \E a \in Selected(index, vendor, version, target) : Resolve(c, ResolveOptions(a, offline))

UpdateReviewed(c, index, vendor, version, target) ==
    /\ ValidIndex(index)
    /\ \E a \in Selected(index, vendor, version, target) : Update(c, ResolveOptions(a, FALSE))

\* A caller that does not wait begins a call.
Begin(c) ==
    \/ \E opts \in Options : Resolve(c, opts) \/ Update(c, opts)
    \/ \E index \in Indexes, vendor \in Vendors, version \in Versions, target \in Targets :
          \/ \E offline \in BOOLEAN : ResolveReviewed(c, index, vendor, version, target, offline)
          \/ UpdateReviewed(c, index, vendor, version, target)

Next ==
    \/ \E c \in Callers \ DOMAIN waiting : Begin(c)
    \/ \E c \in DOMAIN waiting : Download(c)

Spec == Init /\ [][Next]_vars

-----------------------------------------------------------------------------
\* What a call that succeeds returns is what the same call finds in the cache next,
\* offline and whatever the server serves by then (compatibility.md:72, "verified
\* cache lookup").  Only a compiler with the name of the metadata is overwritten.
StoredResolves ==
    last.status \in {"stored", "cached"} =>
        \A opts \in last.opts :
            last.info.path # MetadataFile =>
                Cached(opts) /\ Verified(opts) /\ cache[EntryDir(opts)].meta = last.info

\* A call changes no entry but that of its coordinate, does not remove it, and replaces
\* it only when it is an Update or the entry was stored after its look-up: what a Resolve
\* finds it never replaces, and an entry is never lost.  Versions with the names of its
\* staging and its backup directory are in its way (see PinnedVersionsStay).
OnlyOwnReplaced ==
    [][cache' # cache =>
          \E c \in DOMAIN waiting \ DOMAIN waiting' :
             LET opts == waiting[c].opts
             IN \A d \in DOMAIN cache \ {StagingDir(opts), BackupDir(opts)} :
                   Changed(d) => /\ d = EntryDir(opts) /\ d \in DOMAIN cache'
                                 /\ d \notin waiting[c].seen]_vars

\* compatibility.md:78, "Pinned versions never change", for "Never update silently during a
\* deterministic build": a Resolve changes no entry of the cache, its own or another.
PinnedVersionsStay == last.call = "resolve" => last.changed = {}

\* architecture.md:80, "Manifest, include, lockfile, and archive paths are cleaned and
\* checked for traversal before filesystem access": every file of an entry is below
\* its directory, and none is where a directory is.
ExtractedInside ==
    \A d \in DOMAIN cache :
        /\ Placeable(DOMAIN cache[d].files)
        /\ \A p \in DOMAIN cache[d].files : Safe(p)
=============================================================================
