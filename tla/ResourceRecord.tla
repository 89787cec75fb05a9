--------------------------- MODULE ResourceRecord ---------------------------
(***************************************************************************)
(* The record of a resource: ResolveResourceRecord builds it from a release *)
(* asset (src/dependency/resource_record.go), the lock validates it        *)
(* (src/lockfile/validate.go) and FetchResource takes the asset apart by it *)
(* (src/dependency/resource.go).                                           *)
(*                                                                         *)
(* Bytes and contents of files stand for their checksums.  Data of bytes   *)
(* is [form, size, entries]; form is what the first bytes say they are.    *)
(* An entry of an archive is [name, kind, size, content, readable], where  *)
(* size is what the archive declares.  A pattern is [hits, base]: the paths it matches (or   *)
(* just itself when it is no regular expression) and its last element, or  *)
(* NoBase when that has characters a pattern gives a meaning.              *)
(***************************************************************************)
EXTENDS Integers, FiniteSets, PathUtil

CONSTANTS
    MaxFiles,       \* maxResourceFiles, 4096
    MaxBytes,       \* maxResourceBytes, 2^30
    MaxRecords,     \* maxResolvedResources, 1024
    LockTargets,    \* the targets that targetPattern of the lock matches
    Wrap,           \* sizes in an archive are modulo this, 2^64
    NoBase,
    Data,           \* what bytes hold
    IncludeDirName  \* <<repo, resource name>> to "<repo>-<first bytes of the hash>"

ASSUME RecordAssumption ==
    /\ MaxFiles \in Nat \ {0} /\ MaxBytes \in Nat /\ Wrap \in Nat
    /\ MaxBytes < Wrap \div 2
    /\ \A bytes \in DOMAIN Data :
          /\ Data[bytes].entries \in Seq(Range(Data[bytes].entries))
          /\ \A i \in DOMAIN Data[bytes].entries : Data[bytes].entries[i].size \in 0 .. (Wrap - 1)

ASSUME RecordsAssumption == MaxRecords \in Nat

UnsafeArchivePath(path) == path = <<"">> \/ ~Safe(path)

FilesAmong(entries) == {entries[i] : i \in {j \in DOMAIN entries : entries[j].kind = "file"}}

\* What every reader of an archive checks of every entry, wanted or not.
Listable(entries) ==
    /\ Len(entries) <= MaxFiles
    /\ \A i \in DOMAIN entries :
          /\ ~UnsafeArchivePath(entries[i].name)
          /\ entries[i].kind \in {"file", "dir"}
          /\ \A j \in 1..(i - 1) : Lower(entries[i].name) # Lower(entries[j].name)

TooLarge == -1

\* int64 of an unsigned size.
Signed(size) == IF size >= Wrap \div 2 THEN size - Wrap ELSE size

\* The unsigned sum of the sizes of a ZIP, compared after each addition.
ZipAdd(total, size) ==
    IF total = TooLarge \/ (total + size) % Wrap > MaxBytes THEN TooLarge
    ELSE (total + size) % Wrap

ZipTotal(entries) ==
    LET total[i \in 0 .. Len(entries)] ==
            IF i = 0 THEN 0
            ELSE IF entries[i].kind = "file" THEN ZipAdd(total[i - 1], entries[i].size)
            ELSE total[i - 1]
    IN total[Len(entries)]

\* The signed sum of the sizes of a tar, each compared with what is left.
TarAdd(total, size) ==
    IF total = TooLarge \/ size < 0 \/ size > MaxBytes - total THEN TooLarge ELSE total + size

TarTotal(entries) ==
    LET total[i \in 0 .. Len(entries)] ==
            IF i = 0 THEN 0
            ELSE IF entries[i].kind = "file" THEN TarAdd(total[i - 1], Signed(entries[i].size))
            ELSE total[i - 1]
    IN total[Len(entries)]

\* readBounded, readExact: an entry yields its content when it has the size that
\* is expected and can be read.
ReadExact(e, expected) ==
    expected >= 0 /\ expected = Signed(e.size) /\ expected <= MaxBytes /\ e.readable

InspectZIP(bytes) ==
    /\ Data[bytes].form = "zip"
    /\ Listable(Data[bytes].entries)
    /\ ZipTotal(Data[bytes].entries) # TooLarge
    /\ \A i \in DOMAIN Data[bytes].entries :
          Data[bytes].entries[i].kind = "file" => 
              /\ Data[bytes].entries[i].size <= MaxBytes
              /\ ReadExact(Data[bytes].entries[i], Signed(Data[bytes].entries[i].size))

InspectTar(bytes) ==
    /\ Data[bytes].form = "tar.gz"
    /\ Listable(Data[bytes].entries)
    /\ TarTotal(Data[bytes].entries) # TooLarge
    /\ \A i \in DOMAIN Data[bytes].entries :
          Data[bytes].entries[i].kind = "file" => ReadExact(Data[bytes].entries[i], Signed(Data[bytes].entries[i].size))

\* inspectResourceArchive: the name of the asset or its first bytes tell.
ArchiveFormat(suffix, form) ==
    CASE suffix = "zip" \/ form = "zip"       -> "zip"
      [] suffix = "tar.gz" \/ form = "tar.gz" -> "tar.gz"
      [] OTHER                                -> "unsupported"

Inspect(format, bytes) ==
    \/ format = "zip" /\ InspectZIP(bytes)
    \/ format = "tar.gz" /\ InspectTar(bytes)

-----------------------------------------------------------------------------
MatchResourcePath(source, patterns) == \E i \in DOMAIN patterns : source \in patterns[i].hits

\* The files a plugin pattern that matches nothing may mean by its last element.
Candidates(pattern, sources) ==
    IF pattern.hits \intersect sources # {} THEN {}
    ELSE {s \in sources : Last(s) = pattern.base}

Ambiguous(resource, sources) ==
    \E i \in DOMAIN resource.plugins : Cardinality(Candidates(resource.plugins[i], sources)) > 1

ApplyPluginBasenameFallback(resource, sources) ==
    [name |-> resource.name, archive |-> resource.archive, includes |-> resource.includes,
     files |-> resource.files,
     plugins |-> [i \in DOMAIN resource.plugins |->
         LET pattern == resource.plugins[i]
         IN IF Candidates(pattern, sources) = {} THEN pattern
            ELSE [pattern EXCEPT !.hits = Candidates(pattern, sources)]]]

ResourceBinaryDirectory(kind) ==
    CASE kind = "component"     -> <<"components">>
      [] kind = "filterscript"  -> <<"filterscripts">>
      [] OTHER                  -> <<"plugins">>

ResourceIncludeDirectory(package, name) ==
    <<"dependencies", ".resources", IncludeDirName[<<package.repo, name>>]>>

\* The destination a mapping of "files" gives: the name of the source alone, in a
\* directory, or the path as it is.
MappedTo(destination, source) ==
    CASE destination = <<"">>       -> <<Last(source)>>
      [] destination # <<"">> /\ Last(destination) = "" -> Join(destination, <<Last(source)>>)
      [] OTHER                      -> destination

\* resource.files is a sequence of <<pattern, destination>> in the order of the
\* sorted patterns.  The set is empty when the file is not selected.
ResourceFileDestination(package, resource, source) ==
    LET plugin == Join(ResourceBinaryDirectory(package.kind), <<Last(source)>>)
        header == Join(ResourceIncludeDirectory(package, resource.name), <<Last(source)>>)
        matching == {i \in DOMAIN resource.files : source \in resource.files[i][1].hits}
        first == CHOOSE i \in matching : \A j \in matching : i <= j
    IN CASE MatchResourcePath(source, resource.plugins)     -> {plugin}
         [] ~MatchResourcePath(source, resource.plugins)
              /\ MatchResourcePath(source, resource.includes) -> {header}
         [] OTHER ->
              CASE matching # {}         -> {MappedTo(resource.files[first][2], source)}
                [] matching = {} /\ resource.archive -> {}
                [] OTHER                 -> {IF package.kind = "includes" THEN header ELSE plugin}

\* A wrong form: two files of the archive may have one destination.
MapOverwriting(package, resource, files) ==
    LET r == ApplyPluginBasenameFallback(resource, {f.name : f \in files})
        Chosen(f) == ResourceFileDestination(package, r, f.name)
        mapped == UNION {{[source |-> f.name, destination |-> d, size |-> Signed(f.size), checksum |-> f.content] :
                             d \in Chosen(f)} : f \in files}
    IN [ok |-> mapped # {} /\ ~Ambiguous(resource, {f.name : f \in files}),
        files |-> mapped]

\* mapResourceFiles: destinations are safe and differ in more than case.
MapResourceFiles(package, resource, files) ==
    LET sources == {f.name : f \in files}
        r == ApplyPluginBasenameFallback(resource, sources)
        Chosen(f) == ResourceFileDestination(package, r, f.name)
        mapped == UNION {{[source |-> f.name, destination |-> d, size |-> Signed(f.size), checksum |-> f.content] :
                             d \in Chosen(f)} : f \in files}
    IN [ok |-> /\ ~Ambiguous(resource, sources)
               /\ \A m \in mapped : ~UnsafeArchivePath(m.destination)
               /\ \A m, n \in mapped :
                     Lower(m.destination) = Lower(n.destination) => m = n
               /\ mapped # {},
        files |-> mapped]

\* SelectReleaseAsset: the limits an asset must keep.
AssetAllowed(size) == size \in 1..MaxBytes

\* ResolveResourceRecord of an asset [url, suffix, size, name] that was downloaded.
ResolveResourceRecord(package, resource, asset, bytes) ==
    LET format == IF resource.archive THEN ArchiveFormat(asset.suffix, Data[bytes].form) ELSE "file"
        whole == [name |-> <<asset.name>>, size |-> Data[bytes].size, content |-> bytes]
        mapped == MapResourceFiles(package, resource,
                      IF resource.archive THEN FilesAmong(Data[bytes].entries) ELSE {whole})
    IN [ok |-> /\ Data[bytes].size = asset.size
               /\ resource.archive => Inspect(format, bytes)
               /\ mapped.ok,
        record |-> [package |-> package, resource |-> resource.name, url |-> asset.url,
                    size |-> Data[bytes].size, checksum |-> bytes, archive |-> format,
                    files |-> mapped.files]]

-----------------------------------------------------------------------------
\* checkResourceFile and checkResource: what the next Load must not report.
UnsafeResourcePath(path) == path \in {<<"">>, <<".">>} \/ ~Safe(path)

\* The extracted bytes, added up file by file.
SizeOf(files) ==
    LET sum[some \in SUBSET files] ==
            IF some = {} THEN 0
            ELSE LET f == CHOOSE f \in some : TRUE IN f.size + sum[some \ {f}]
    IN sum[files]

Valid(record) ==
    /\ record.resource # ""
    /\ record.size \in 1..MaxBytes
    /\ Cardinality(record.files) \in 1..MaxFiles
    /\ record.archive = "file" => Cardinality(record.files) = 1
    /\ \A f \in record.files :
          /\ ~UnsafeResourcePath(f.source) /\ ~UnsafeResourcePath(f.destination)
          /\ f.size \in 0..MaxBytes
          /\ \A g \in record.files :
                Lower(Clean(f.destination)) = Lower(Clean(g.destination)) => f = g
    /\ SizeOf(record.files) <= MaxBytes

\* checkResources for the records of one target.
Accepted(records, target) ==
    /\ Cardinality(records) <= MaxRecords
    /\ records # {} => target \in LockTargets
    /\ \A r \in records : Valid(r)

\* validateResourceDestinations of a restore, over all records of its target.
DestinationsDiffer(records) ==
    \A r, s \in records : \A f \in r.files, g \in s.files :
        Lower(Clean(f.destination)) = Lower(Clean(g.destination)) => r = s /\ f = g

-----------------------------------------------------------------------------
VerifyResourceFile(file, size, content) == size = file.size /\ content = file.checksum

\* The entries the readers look a declared source up by, without regard to case.
Named(entries, source) ==
    {i \in DOMAIN entries : entries[i].kind = "file" /\ Lower(entries[i].name) = Lower(source)}

ReadFile(bytes, record) ==
    /\ Cardinality(record.files) = 1
    /\ \A f \in record.files : VerifyResourceFile(f, Data[bytes].size, bytes)

Readable(bytes, record) ==
    \A f \in record.files : \E i \in Named(Data[bytes].entries, f.source) :
        /\ ReadExact(Data[bytes].entries[i], f.size)
        /\ VerifyResourceFile(f, f.size, Data[bytes].entries[i].content)

ReadZip(bytes, record) ==
    /\ Data[bytes].form = "zip"
    /\ Listable(Data[bytes].entries)
    /\ ZipTotal(Data[bytes].entries) # TooLarge
    /\ Readable(bytes, record)

\* A tar is read from front to back, with one declared file per source.
ReadTar(bytes, record) ==
    /\ Data[bytes].form = "tar.gz"
    /\ Listable(Data[bytes].entries)
    /\ TarTotal(Data[bytes].entries) # TooLarge
    /\ Readable(bytes, record)
    /\ \A f, g \in record.files : Lower(f.source) = Lower(g.source) => f = g

\* What the readers take out of the download for a declared file.
ContentOf(bytes, record, f) ==
    LET named == Named(Data[bytes].entries, f.source)
    IN IF record.archive = "file" \/ named = {} THEN bytes
       ELSE Data[bytes].entries[CHOOSE i \in named : TRUE].content

PayloadOf(bytes, record) ==
    [d \in {f.destination : f \in record.files} |->
        ContentOf(bytes, record, CHOOSE f \in record.files : f.destination = d)]

\* A wrong form: the download is trusted, and so is what is in it.
FetchUnchecked(record, bytes) ==
    [ok |-> record.archive # "file" => Data[bytes].form = record.archive,
     payload |-> PayloadOf(bytes, record)]

\* FetchResource of the bytes the URL serves: the payload maps destinations to
\* contents.
FetchResource(record, bytes) ==
    [ok |-> /\ Data[bytes].size = record.size
            /\ bytes = record.checksum
            /\ \/ record.archive = "file" /\ ReadFile(bytes, record)
               \/ record.archive = "zip" /\ ReadZip(bytes, record)
               \/ record.archive = "tar.gz" /\ ReadTar(bytes, record),
     payload |-> PayloadOf(bytes, record)]

\* maps.Copy of one payload over another.
Over(first, second) ==
    [d \in DOMAIN first \union DOMAIN second |-> IF d \in DOMAIN first THEN first[d] ELSE second[d]]
=============================================================================
