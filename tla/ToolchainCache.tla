--------------------------- MODULE ToolchainCache ---------------------------
(***************************************************************************)
(* The compiler cache (src/toolchain/toolchain.go, cache.go): Resolve,     *)
(* Update and List of one coordinate by the threads of several processes.  *)
(* A process has one Resolver; its mutex is held while the cache is looked *)
(* up and while a download is stored, not while it is fetched, and no lock *)
(* covers two processes.  Every file system call may fail, and a process   *)
(* may die between any two.                                                *)
(*                                                                         *)
(* An artifact stands for its bytes, its checksum and the compiler in it.  *)
(***************************************************************************)
EXTENDS Naturals, FiniteSets

CONSTANTS
    Procs,          \* processes that share the cache directory
    Threads,        \* calls of Resolve, Update and List
    ProcOf,         \* the process that makes each call
    Artifacts,      \* what the download URL may serve
    None,           \* no file, no artifact, no directory
    Unchecked,            \* no expected checksum
    Free,           \* a mutex nobody holds
    Concurrent      \* two processes may use the cache at once (a bound)

ASSUME CacheAssumption ==
    /\ ProcOf \in [Threads -> Procs]
    /\ {None, Unchecked} \intersect Artifacts = {}
    /\ Free \notin Threads
    /\ Concurrent \in BOOLEAN

VARIABLES
    dir,        \* <cache>/<vendor>/<version>
    tmp,        \* the same with .tmp: the staging directory
    old,        \* the same with .old: the backup directory
    cacheMu,    \* who holds each process's mutex
    up,         \* the processes that run now
    gone,       \* the processes that ended or died
    op,         \* what each thread calls
    expected,   \* its ExpectedChecksum
    offline,    \* its Offline option
    pc,         \* its next step
    meta,       \* the checksum it read from, or computed for, the metadata
    got,        \* what it downloaded
    had,        \* hadExisting of commitCacheEntry
    res,        \* what it returned
    published,  \* the artifact of the last committed entry (history)
    lost        \* the committed entry is gone, by a crash or a failed undo (history)

disk == <<dir, tmp, old>>
call == <<op, expected, offline>>
loc == <<meta, got, had>>
hist == <<published, lost>>
vars == <<disk, cacheMu, up, gone, call, pc, loc, res, hist>>

\* A cache directory: the binary and the checksum in toolchain.json.
Entry(b, m) == [bin |-> b, meta |-> m]
Dirs == [bin : Artifacts \union {None}, meta : Artifacts \union {None}] \union {None}

\* What a RemoveAll that fails half-way may leave behind.
Remains(d) == IF d = None THEN {None}
              ELSE {Entry(b, m) : b \in {d.bin, None}, m \in {d.meta, None}}

StoreSteps == {"rmstage", "mkstage", "writebin", "readback", "writemeta", "rmold",
               "statdir", "renold", "rennew", "undo", "rmold2", "cleanup"}
PCs == {"idle", "lookup", "verify", "download", "store", "done"} \union StoreSteps
Results == {"none", "ok", "notcached", "offline", "mismatch", "failed"}

Init ==
    /\ dir = None /\ tmp = None /\ old = None
    /\ cacheMu = [p \in Procs |-> Free]
    /\ up = {} /\ gone = {}
    /\ op \in [Threads -> {"resolve", "update", "list"}]
    /\ expected \in [Threads -> Artifacts \union {Unchecked}]
    /\ offline \in [Threads -> BOOLEAN]
    /\ pc = [t \in Threads |-> "idle"]
    /\ meta = [t \in Threads |-> None]
    /\ got = [t \in Threads |-> None]
    /\ had = [t \in Threads |-> FALSE]
    /\ res = [t \in Threads |-> "none"]
    /\ published = None
    /\ lost = FALSE

Running(t) == ProcOf[t] \in up
At(t, l) == Running(t) /\ pc[t] = l
Goto(t, l) == pc' = [pc EXCEPT ![t] = l]
Lock(t) == cacheMu[ProcOf[t]] = Free /\ cacheMu' = [cacheMu EXCEPT ![ProcOf[t]] = t]
Unlock(t) == cacheMu' = [cacheMu EXCEPT ![ProcOf[t]] = Free]

Return(t, r) == Goto(t, "done") /\ res' = [res EXCEPT ![t] = r]

\* Resolve goes to the cache first; Update to the network; List takes the lock.
Begin(t) ==
    /\ At(t, "idle")
    /\ op[t] \in {"resolve", "update"}
    /\ Goto(t, IF op[t] = "resolve" THEN "lookup" ELSE "download")
    /\ UNCHANGED <<disk, cacheMu, up, gone, call, loc, res, hist>>

HasMeta(d) == d # None /\ d.meta # None

\* cacheMu.Lock and the Stat and ReadFile of readMetadata.
Lookup(t) ==
    /\ At(t, "lookup")
    /\ cacheMu[ProcOf[t]] = Free
    /\ \/ /\ HasMeta(dir)
          /\ Lock(t)
          /\ meta' = [meta EXCEPT ![t] = dir.meta]
          /\ Goto(t, "verify")
          /\ UNCHANGED res
       \/ /\ ~HasMeta(dir)
          /\ IF offline[t] THEN Return(t, "offline")
             ELSE Goto(t, "download") /\ UNCHANGED res
          /\ UNCHANGED <<cacheMu, meta>>
       \/ /\ Return(t, "failed")
          /\ UNCHANGED <<cacheMu, meta>>
    /\ UNCHANGED <<disk, up, gone, call, got, had, hist>>

\* Mutant of Verified: the expected checksum is forgotten on a cache hit.
VerifiedUnpinned(t) == dir # None /\ dir.bin = meta[t]

\* verifyCached: the binary against the metadata and the expected checksum.
\* A bad entry is an error, never a reason to download.
Verified(t) ==
    /\ dir # None
    /\ dir.bin = meta[t]
    /\ expected[t] \in {Unchecked, meta[t]}

Verify(t) ==
    /\ At(t, "verify")
    /\ \/ Verified(t) /\ Return(t, "ok")
       \/ ~Verified(t) /\ Return(t, "mismatch")
       \/ Return(t, "failed")
    /\ Unlock(t)
    /\ UNCHANGED <<disk, up, gone, call, loc, hist>>

\* downloader.Download: no lock is held, and the server may serve anything.
Download(t) ==
    /\ At(t, "download")
    /\ \/ \E a \in Artifacts : got' = [got EXCEPT ![t] = a] /\ Goto(t, "store") /\ UNCHANGED res
       \/ Return(t, "failed") /\ UNCHANGED got
    /\ UNCHANGED <<disk, cacheMu, up, gone, call, meta, had, hist>>

\* storeFromDownload: the lock, then the size and checksum of the artifact.  The
\* cache is not looked up again.
Store(t) ==
    /\ At(t, "store")
    /\ cacheMu[ProcOf[t]] = Free
    /\ \/ /\ expected[t] \in {Unchecked, got[t]}
          /\ Lock(t)
          /\ Goto(t, "rmstage")
          /\ UNCHANGED res
       \/ /\ expected[t] \notin {Unchecked, got[t]}
          /\ Return(t, "mismatch")
          /\ UNCHANGED cacheMu
       \/ Return(t, "failed") /\ UNCHANGED cacheMu
    /\ UNCHANGED <<disk, up, gone, call, loc, hist>>

\* An error after the staging directory was cleared: the deferred RemoveAll runs.
FailStore(t) == Goto(t, "cleanup") /\ res' = [res EXCEPT ![t] = "failed"]

\* Mutant of ClearStaging: an early return keeps the mutex.
ClearStagingLocked(t) ==
    /\ At(t, "rmstage")
    /\ \/ tmp' = None /\ Goto(t, "mkstage") /\ UNCHANGED <<cacheMu, res>>
       \/ tmp' \in Remains(tmp) /\ Return(t, "failed") /\ UNCHANGED cacheMu
    /\ UNCHANGED <<dir, old, up, gone, call, loc, hist>>

ClearStaging(t) ==
    /\ At(t, "rmstage")
    /\ \/ tmp' = None /\ Goto(t, "mkstage") /\ UNCHANGED <<cacheMu, res>>
       \/ tmp' \in Remains(tmp) /\ Return(t, "failed") /\ Unlock(t)
    /\ UNCHANGED <<dir, old, up, gone, call, loc, hist>>

MakeStaging(t) ==
    /\ At(t, "mkstage")
    /\ \/ tmp' = (IF tmp = None THEN Entry(None, None) ELSE tmp) /\ Goto(t, "writebin") /\ UNCHANGED res
       \/ FailStore(t) /\ UNCHANGED tmp
    /\ UNCHANGED <<dir, old, cacheMu, up, gone, call, loc, hist>>

\* installDownloadedArtifact makes the directory of the binary again, writes or
\* extracts it, and the binary is made executable.
WriteBinary(t) ==
    /\ At(t, "writebin")
    /\ \/ /\ tmp' = Entry(got[t], IF tmp = None THEN None ELSE tmp.meta)
          /\ Goto(t, "readback")
          /\ UNCHANGED res
       \/ FailStore(t) /\ UNCHANGED tmp
    /\ UNCHANGED <<dir, old, cacheMu, up, gone, call, loc, hist>>

\* Mutant of ReadBack: the entry is committed before its metadata is written.
ReadBackAndCommit(t) ==
    /\ At(t, "readback")
    /\ tmp # None /\ tmp.bin # None
    /\ meta' = [meta EXCEPT ![t] = tmp.bin]
    /\ Goto(t, "rmold")
    /\ UNCHANGED <<disk, cacheMu, up, gone, call, got, had, res, hist>>

\* The checksum in the metadata is that of the staged binary.
ReadBack(t) ==
    /\ At(t, "readback")
    /\ \/ /\ tmp # None /\ tmp.bin # None
          /\ meta' = [meta EXCEPT ![t] = tmp.bin]
          /\ Goto(t, "writemeta")
          /\ UNCHANGED res
       \/ FailStore(t) /\ UNCHANGED meta
    /\ UNCHANGED <<disk, cacheMu, up, gone, call, got, had, hist>>

WriteMetadata(t) ==
    /\ At(t, "writemeta")
    /\ \/ /\ tmp # None
          /\ tmp' = Entry(tmp.bin, meta[t])
          /\ Goto(t, "rmold")
          /\ UNCHANGED res
       \/ FailStore(t) /\ UNCHANGED tmp
    /\ UNCHANGED <<dir, old, cacheMu, up, gone, call, loc, hist>>

\* commitCacheEntry: RemoveAll(backupDir), whose error is ignored.
RemoveStaleBackup(t) ==
    /\ At(t, "rmold")
    /\ old' \in {None} \union Remains(old)
    /\ Goto(t, "statdir")
    /\ UNCHANGED <<dir, tmp, cacheMu, up, gone, call, loc, res, hist>>

StatDir(t) ==
    /\ At(t, "statdir")
    /\ \/ /\ had' = [had EXCEPT ![t] = dir # None]
          /\ Goto(t, IF dir # None THEN "renold" ELSE "rennew")
          /\ UNCHANGED res
       \/ FailStore(t) /\ UNCHANGED had
    /\ UNCHANGED <<disk, cacheMu, up, gone, call, meta, got, hist>>

\* A rename onto a directory succeeds only when that directory is empty.
CanReplace(d) == d \in {None, Entry(None, None)}

RenameOld(t) ==
    /\ At(t, "renold")
    /\ \/ /\ dir # None /\ CanReplace(old)
          /\ old' = dir /\ dir' = None
          /\ Goto(t, "rennew")
          /\ UNCHANGED res
       \/ FailStore(t) /\ UNCHANGED <<dir, old>>
    /\ UNCHANGED <<tmp, cacheMu, up, gone, call, loc, hist>>

\* Mutant of RenameNew: a failure does not put the previous entry back.
RenameNewNoUndo(t) ==
    /\ At(t, "rennew")
    /\ \/ /\ tmp # None /\ CanReplace(dir)
          /\ dir' = tmp /\ tmp' = None
          /\ published' = tmp.bin /\ lost' = FALSE
          /\ Goto(t, "rmold2")
          /\ UNCHANGED res
       \/ FailStore(t) /\ UNCHANGED <<dir, tmp, hist>>
    /\ UNCHANGED <<old, cacheMu, up, gone, call, loc>>

RenameNew(t) ==
    /\ At(t, "rennew")
    /\ \/ /\ tmp # None /\ CanReplace(dir)
          /\ dir' = tmp /\ tmp' = None
          /\ published' = tmp.bin /\ lost' = FALSE
          /\ Goto(t, "rmold2")
          /\ UNCHANGED res
       \/ /\ IF had[t] THEN Goto(t, "undo") /\ res' = [res EXCEPT ![t] = "failed"]
                       ELSE FailStore(t)
          /\ UNCHANGED <<dir, tmp, hist>>
    /\ UNCHANGED <<old, cacheMu, up, gone, call, loc>>

\* Rename(backupDir, dir), whose error is ignored.
UndoRename(t) ==
    /\ At(t, "undo")
    /\ \/ old # None /\ CanReplace(dir) /\ dir' = old /\ old' = None /\ UNCHANGED lost
       \/ UNCHANGED <<dir, old>> /\ lost' = TRUE
    /\ Goto(t, "cleanup")
    /\ UNCHANGED <<tmp, cacheMu, up, gone, call, loc, res, published>>

\* RemoveAll(backupDir) after the commit: its error is returned.
RemoveBackup(t) ==
    /\ At(t, "rmold2")
    /\ \/ old' = None /\ res' = [res EXCEPT ![t] = "ok"]
       \/ old' \in Remains(old) /\ res' = [res EXCEPT ![t] = "failed"]
    /\ Goto(t, "cleanup")
    /\ UNCHANGED <<dir, tmp, cacheMu, up, gone, call, loc, hist>>

\* The deferred calls: RemoveAll(stagingDir), error ignored, and Unlock.
CleanStaging(t) ==
    /\ At(t, "cleanup")
    /\ tmp' \in {None} \union Remains(tmp)
    /\ Goto(t, "done")
    /\ Unlock(t)
    /\ got' = [got EXCEPT ![t] = None]      \* the locals go out of scope
    /\ had' = [had EXCEPT ![t] = FALSE]
    /\ UNCHANGED <<dir, old, up, gone, call, meta, res, hist>>

\* readCacheEntry: metadata that names another version than its directory is an
\* error.  A staging or backup directory that was left behind has such metadata.
Misnamed == HasMeta(old) \/ HasMeta(tmp)

\* List reads every directory of the vendor under the lock.
List(t) ==
    /\ At(t, "idle") /\ op[t] = "list"
    /\ cacheMu[ProcOf[t]] = Free
    /\ Return(t, IF Misnamed THEN "mismatch"
                 ELSE IF HasMeta(dir) THEN "ok" ELSE "notcached")
    /\ UNCHANGED <<disk, cacheMu, up, gone, call, loc, hist>>

\* A process starts, alone unless Concurrent; it ends when its calls are done.
Launch(p) ==
    /\ p \notin up \union gone
    /\ Concurrent \/ up = {}
    /\ up' = up \union {p}
    /\ UNCHANGED <<disk, cacheMu, gone, call, pc, loc, res, hist>>

Exit(p) ==
    /\ p \in up
    /\ \A t \in Threads : ProcOf[t] = p => pc[t] = "done"
    /\ up' = up \ {p} /\ gone' = gone \union {p}
    /\ UNCHANGED <<disk, cacheMu, call, pc, loc, res, hist>>

\* The process dies: the mutex goes with it, the files stay.
Crash(p) ==
    /\ p \in up
    /\ \E t \in Threads : ProcOf[t] = p /\ pc[t] \in StoreSteps
    /\ up' = up \ {p} /\ gone' = gone \union {p}
    /\ lost' = (lost \/ \E t \in Threads : /\ ProcOf[t] = p
                                           /\ pc[t] \in {"rennew", "undo"}
                                           /\ had[t])
    /\ UNCHANGED <<disk, cacheMu, call, pc, loc, res, published>>

Step(t) ==
    \/ Begin(t) \/ Lookup(t) \/ Verify(t) \/ Download(t) \/ Store(t) \/ ClearStaging(t)
    \/ MakeStaging(t) \/ WriteBinary(t) \/ ReadBack(t) \/ WriteMetadata(t)
    \/ RemoveStaleBackup(t) \/ StatDir(t) \/ RenameOld(t) \/ RenameNew(t)
    \/ UndoRename(t) \/ RemoveBackup(t) \/ CleanStaging(t) \/ List(t)

Next ==
    \/ \E t \in Threads : Step(t)
    \/ \E p \in Procs : Launch(p) \/ Exit(p) \/ Crash(p)

Spec == Init /\ [][Next]_vars

\* The Go scheduler runs every runnable thread and grants a free mutex to a
\* waiting one; calls are finite.
FairSpec == Spec /\ \A t \in Threads : WF_vars(Step(t))

-----------------------------------------------------------------------------
\* Processes run one after the other: two at once would share the staging and the
\* backup directory, and no lock covers both.
OneAtATime == ~Concurrent

\* Every variable keeps its type; a directory holds nothing but artifacts and their
\* metadata, never the checksum a caller expected.
TypeOK ==
    /\ dir \in Dirs /\ tmp \in Dirs /\ old \in Dirs
    /\ cacheMu \in [Procs -> Threads \union {Free}]
    /\ up \subseteq Procs /\ gone \subseteq Procs
    /\ op \in [Threads -> {"resolve", "update", "list"}]
    /\ expected \in [Threads -> Artifacts \union {Unchecked}]
    /\ offline \in [Threads -> BOOLEAN]
    /\ pc \in [Threads -> PCs]
    /\ meta \in [Threads -> Artifacts \union {None}]
    /\ got \in [Threads -> Artifacts \union {None}]
    /\ had \in [Threads -> BOOLEAN]
    /\ res \in [Threads -> Results]
    /\ published \in Artifacts \union {None}
    /\ lost \in BOOLEAN

\* A version directory always holds a binary and the metadata of that very
\* binary, whatever call failed or process died while it was stored.
EntryWhole == dir # None => dir.bin # None /\ dir.bin = dir.meta

\* While no store is under way, the last committed entry is in the cache: a
\* store that fails puts back what it replaced.  It can only be missing after a
\* crash between the two renames or a rename back that failed.
EntryKept ==
    (~lost /\ \A t \in Threads : Running(t) => pc[t] \notin StoreSteps)
        => dir = (IF published = None THEN None ELSE Entry(published, published))

\* A call with an expected checksum that succeeds returns that very artifact,
\* from the cache or from the network, and what it returns was whole.
ChecksumHonoured ==
    \A t \in Threads :
        res[t] = "ok" /\ op[t] # "list" => meta[t] # None /\ expected[t] \in {Unchecked, meta[t]}

\* Every call of a process that lives on returns: the lock is always released.
CallsReturn ==
    \A t \in Threads : Running(t) ~> (pc[t] = "done" \/ ~Running(t))

\* toolchain.go:209 "List returns every toolchain currently in the cache."
\* A List that reads the directories without a file system error does not fail.
ListComplete ==
    \A t \in Threads : op[t] = "list" => res[t] # "mismatch"
=============================================================================
