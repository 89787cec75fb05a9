------------------------ MODULE ToolchainCacheProofs ------------------------
(***************************************************************************)
(* The compiler cache for any number of processes that run one after the   *)
(* other, of threads and of artifacts: an entry is whole, it is kept while *)
(* a store fails, and an expected checksum is honoured.                    *)
(***************************************************************************)
EXTENDS ToolchainCache, TLAPS

Holding == StoreSteps \union {"verify"}

Alone == \A p, q \in up : p = q

\* A process that runs has not ended, and one that never ran has called nothing.
Fresh ==
    /\ up \intersect gone = {}
    /\ \A t \in Threads : ProcOf[t] \notin up \union gone => pc[t] = "idle"

Locked == \A t \in Threads : Running(t) /\ pc[t] \in Holding => cacheMu[ProcOf[t]] = t

Whole(d) == d # None => d.bin # None /\ d.bin = d.meta

Committed == IF published = None THEN None ELSE Entry(published, published)

\* What a store has put into the staging directory and taken out of the cache.
Stored(t) ==
    /\ pc[t] \in {"store"} \union StoreSteps => got[t] \in Artifacts
    /\ pc[t] \in StoreSteps => expected[t] \in {Unchecked, got[t]}
    /\ pc[t] \in {"readback", "writemeta"} => tmp.bin = got[t]
    /\ pc[t] \in {"writemeta", "rmold", "statdir", "renold", "rennew", "rmold2"} => meta[t] = got[t]
    /\ pc[t] \in {"rmold", "statdir", "renold", "rennew"} => tmp = Entry(got[t], got[t])
    /\ pc[t] = "renold" => had[t]
    /\ pc[t] \in {"rennew", "undo"} =>
          /\ dir = None
          /\ had[t] => Whole(old)
          /\ ~lost => Committed = IF had[t] THEN old ELSE None
    /\ pc[t] = "undo" => had[t]

Result(t) ==
    res[t] = "ok" =>
        /\ pc[t] \in {"cleanup", "done"}
        /\ op[t] # "list" => meta[t] # None /\ expected[t] \in {Unchecked, meta[t]}

\* Between the two renames of a commit the entry is in the backup directory.
Kept ==
    ~lost => \/ dir = Committed
             \/ \E t \in Threads : Running(t) /\ pc[t] \in {"rennew", "undo"}

Inv ==
    /\ TypeOK
    /\ Alone
    /\ Fresh
    /\ Locked
    /\ Whole(dir)
    /\ Kept
    /\ \A t \in Threads : (Running(t) => Stored(t)) /\ Result(t)

-----------------------------------------------------------------------------
\* Only one thread at a time is between Lock and Unlock.
LEMMA OneHolds ==
    ASSUME Inv, NEW t \in Threads, NEW s \in Threads, s # t,
           Running(t), Running(s), pc[t] \in Holding
    PROVE  pc[s] \notin Holding
  BY DEF Inv, Alone, Locked, Running

\* What a step of t leaves alone.
Frame(t) ==
    /\ up' = up /\ gone' = gone
    /\ op' = op /\ expected' = expected /\ offline' = offline
    /\ \A s \in Threads \ {t} :
          /\ pc'[s] = pc[s] /\ meta'[s] = meta[s] /\ got'[s] = got[s]
          /\ had'[s] = had[s] /\ res'[s] = res[s]

\* A step changes the disk under the mutex only, and keeps it while it goes on.
Guarded(t) ==
    /\ \A p \in Procs \ {ProcOf[t]} : cacheMu'[p] = cacheMu[p]
    /\ pc'[t] \in Holding => cacheMu'[ProcOf[t]] = t
    /\ \/ pc[t] \in Holding /\ (~lost' => dir' = Committed' \/ pc'[t] \in {"rennew", "undo"})
       \/ /\ cacheMu[ProcOf[t]] = Free \/ cacheMu' = cacheMu
          /\ pc[t] \notin Holding
          /\ UNCHANGED <<disk, hist>>

\* A step of one thread that keeps its own part of the invariant keeps the whole.
LEMMA FrameInv ==
    ASSUME Inv, NEW t \in Threads, Running(t), TypeOK', Frame(t), Guarded(t),
           Stored(t)', Result(t)', Whole(dir)'
    PROVE  Inv'
<1> USE CacheAssumption
<1>1. Alone' /\ Fresh'
  BY DEF Inv, Alone, Fresh, Frame, Running
<1>2. Locked'
  <2> SUFFICES ASSUME NEW s \in Threads, Running(s)', pc'[s] \in Holding
               PROVE  cacheMu'[ProcOf[s]] = s
    BY DEF Locked
  <2>1. CASE s = t
    BY <2>1 DEF Guarded
  <2>2. CASE s # t
    <3>1. Running(s) /\ pc[s] \in Holding /\ cacheMu[ProcOf[s]] = s
      BY <2>2 DEF Inv, Locked, Frame, Running
    <3>2. pc[t] \notin Holding
      BY <3>1, <2>2, OneHolds
    <3>3. ProcOf[s] = ProcOf[t]
      BY <3>1 DEF Inv, Alone, Running
    <3>4. cacheMu' = cacheMu
      BY <3>1, <3>2, <3>3 DEF Guarded
    <3> QED
      BY <3>1, <3>4
  <2> QED
    BY <2>1, <2>2
<1>3. Kept'
  <2>1. CASE pc[t] \in Holding
    BY <2>1 DEF Guarded, Kept, Running, Frame
  <2>2. CASE pc[t] \notin Holding
    <3>1. UNCHANGED <<disk, hist>>
      BY <2>2 DEF Guarded
    <3>2. ASSUME NEW s \in Threads, Running(s), pc[s] \in {"rennew", "undo"}
          PROVE  Running(s)' /\ pc'[s] \in {"rennew", "undo"}
      BY <2>2, <3>2 DEF Frame, Running, Holding, StoreSteps
    <3> QED
      BY <3>1, <3>2 DEF Inv, Kept, Committed, disk, hist
  <2> QED
    BY <2>1, <2>2
<1>4. ASSUME NEW s \in Threads
      PROVE  (Running(s)' => Stored(s)') /\ Result(s)'
  <2>1. CASE s = t
    BY <2>1
  <2>2. CASE s # t
    <3>1. Result(s)'
      BY <2>2 DEF Inv, Result, Frame
    <3>2. ASSUME Running(s)'
          PROVE  Stored(s)'
      <4>1. Running(s) /\ Stored(s)
        BY <3>2 DEF Inv, Frame, Running
      <4>2. CASE pc[t] \in Holding
        <5>1. pc[s] \notin Holding
          BY <4>1, <4>2, <2>2, OneHolds
        <5>2. pc'[s] = pc[s]
          BY <2>2 DEF Frame
        <5> QED
          BY <5>1, <5>2, <4>1, <2>2 DEF Stored, Frame, Holding, StoreSteps
      <4>3. CASE pc[t] \notin Holding
        <5>1. UNCHANGED <<disk, hist>>
          BY <4>3 DEF Guarded
        <5> QED
          BY <4>1, <5>1, <2>2 DEF Stored, Frame, Committed, Whole, disk, hist
      <4> QED
        BY <4>2, <4>3
    <3> QED
      BY <3>1, <3>2
  <2> QED
    BY <2>1, <2>2
<1> QED
  BY <1>1, <1>2, <1>3, <1>4 DEF Inv

\* Outside of the two renames the committed entry is in the cache.
LEMMA KeptNow ==
    ASSUME Inv, NEW t \in Threads, Running(t), pc[t] \in Holding \ {"rennew", "undo"}, ~lost
    PROVE  dir = Committed
<1>1. ASSUME NEW s \in Threads, Running(s), pc[s] \in {"rennew", "undo"}
      PROVE  FALSE
  <2>1. s # t /\ pc[s] \in Holding
    BY <1>1 DEF Holding, StoreSteps
  <2> QED
    BY <1>1, <2>1, OneHolds
<1> QED
  BY <1>1 DEF Inv, Kept

\* A removal that fails leaves a directory with less in it.
LEMMA RemainsDirs == \A d \in Dirs : Remains(d) \subseteq Dirs
BY DEF Dirs, Remains, Entry

\* A call begins: nothing on disk changes, and no mutex is taken.
LEMMA BeginInv ==
    ASSUME Inv, NEW t \in Threads, Begin(t)
    PROVE  Inv'
<1> USE CacheAssumption DEF Begin, At, Goto, disk, call, loc, hist
<1>1. Running(t) /\ pc[t] = "idle"
  OBVIOUS
<1>2. TypeOK'
  BY DEF Inv, TypeOK, PCs, StoreSteps, Results
<1>3. Frame(t)
  BY DEF Frame, Inv, TypeOK
<1>4. Guarded(t)
  BY <1>1 DEF Guarded, Inv, TypeOK, Holding, StoreSteps, Lock
<1>5. Stored(t)'
  BY <1>1, KeptNow DEF Stored, Inv, TypeOK, Holding, StoreSteps, Committed, Entry, Whole
<1>6. Result(t)' /\ Whole(dir)'
  BY <1>1 DEF Result, Whole, Inv, TypeOK, Stored, StoreSteps, Entry, Verified
<1> QED
  BY <1>1, <1>2, <1>3, <1>4, <1>5, <1>6, FrameInv

\* A look-up that finds a version keeps the mutex for its verification.
LEMMA LookupInv ==
    ASSUME Inv, NEW t \in Threads, Lookup(t)
    PROVE  Inv'
<1> USE CacheAssumption DEF Lookup, At, Goto, Return, disk, call, hist
<1>1. Running(t) /\ pc[t] = "lookup"
  OBVIOUS
<1>2. TypeOK'
  BY DEF Inv, TypeOK, PCs, StoreSteps, Results, Lock, HasMeta, Dirs
<1>3. Frame(t)
  BY DEF Frame, Inv, TypeOK
<1>4. Guarded(t)
  BY <1>1 DEF Guarded, Inv, TypeOK, Holding, StoreSteps, Lock
<1>5. Stored(t)'
  BY <1>1, KeptNow DEF Stored, Inv, TypeOK, Holding, StoreSteps, Committed, Entry, Whole
<1>6. Result(t)' /\ Whole(dir)'
  BY <1>1 DEF Result, Whole, Inv, TypeOK, Stored, StoreSteps, Entry, Verified
<1> QED
  BY <1>1, <1>2, <1>3, <1>4, <1>5, <1>6, FrameInv

\* A verified entry is whole, so that its checksum is that of its binary.
LEMMA VerifyInv ==
    ASSUME Inv, NEW t \in Threads, Verify(t)
    PROVE  Inv'
<1> USE CacheAssumption DEF Verify, At, Goto, Return, disk, call, loc, hist
<1>1. Running(t) /\ pc[t] = "verify"
  OBVIOUS
<1>2. TypeOK'
  BY DEF Inv, TypeOK, PCs, StoreSteps, Results, Unlock
<1>3. Frame(t)
  BY DEF Frame, Inv, TypeOK
<1>4. Guarded(t)
  BY <1>1, KeptNow DEF Guarded, Inv, TypeOK, Locked, Holding, StoreSteps, Unlock, Committed, Stored, Entry
<1>5. Stored(t)'
  BY <1>1, KeptNow DEF Stored, Inv, TypeOK, Holding, StoreSteps, Committed, Entry, Whole
<1>6. Result(t)' /\ Whole(dir)'
  BY <1>1 DEF Result, Whole, Inv, TypeOK, Stored, StoreSteps, Entry, Verified
<1> QED
  BY <1>1, <1>2, <1>3, <1>4, <1>5, <1>6, FrameInv

\* A download changes nothing but what the thread has got.
LEMMA DownloadInv ==
    ASSUME Inv, NEW t \in Threads, Download(t)
    PROVE  Inv'
<1> USE CacheAssumption DEF Download, At, Goto, Return, disk, call, hist
<1>1. Running(t) /\ pc[t] = "download"
  OBVIOUS
<1>2. TypeOK'
  <2>1. TypeOK
    BY DEF Inv
  <2>2. got' \in [Threads -> Artifacts \union {None}]
    BY <2>1 DEF TypeOK
  <2>3. pc' \in [Threads -> PCs] /\ res' \in [Threads -> Results]
    BY <2>1 DEF TypeOK, PCs, StoreSteps, Results
  <2>4. UNCHANGED <<dir, tmp, old, cacheMu, up, gone, op, expected, offline, meta, had, published, lost>>
    OBVIOUS
  <2> HIDE DEF Download
  <2> QED
    BY <2>1, <2>2, <2>3, <2>4 DEF TypeOK
<1>3. Frame(t)
  BY DEF Frame, Inv, TypeOK
<1>4. Guarded(t)
  BY <1>1 DEF Guarded, Inv, TypeOK, Holding, StoreSteps, Lock
<1>5. Stored(t)'
  BY <1>1, KeptNow DEF Stored, Inv, TypeOK, Holding, StoreSteps, Committed, Entry, Whole
<1>6. Result(t)' /\ Whole(dir)'
  BY <1>1 DEF Result, Whole, Inv, TypeOK, Stored, StoreSteps, Entry, Verified
<1> QED
  BY <1>1, <1>2, <1>3, <1>4, <1>5, <1>6, FrameInv

\* A store starts with the mutex and with an artifact that has the expected checksum.
LEMMA StoreInv ==
    ASSUME Inv, NEW t \in Threads, Store(t)
    PROVE  Inv'
<1> USE CacheAssumption DEF Store, At, Goto, Return, disk, call, loc, hist
<1>1. Running(t) /\ pc[t] = "store"
  OBVIOUS
<1>2. TypeOK'
  BY DEF Inv, TypeOK, PCs, StoreSteps, Results, Lock
<1>3. Frame(t)
  BY DEF Frame, Inv, TypeOK
<1>4. Guarded(t)
  BY <1>1 DEF Guarded, Inv, TypeOK, Holding, StoreSteps, Lock
<1>5. Stored(t)'
  BY <1>1, KeptNow DEF Stored, Inv, TypeOK, Holding, StoreSteps, Committed, Entry, Whole
<1>6. Result(t)' /\ Whole(dir)'
  BY <1>1 DEF Result, Whole, Inv, TypeOK, Stored, StoreSteps, Entry, Verified
<1> QED
  BY <1>1, <1>2, <1>3, <1>4, <1>5, <1>6, FrameInv

\* Removing the staging directory leaves the entry alone.
LEMMA ClearStagingInv ==
    ASSUME Inv, NEW t \in Threads, ClearStaging(t)
    PROVE  Inv'
<1> USE CacheAssumption DEF ClearStaging, At, Goto, Return, call, loc, hist
<1>1. Running(t) /\ pc[t] = "rmstage"
  OBVIOUS
<1>2. TypeOK'
  BY RemainsDirs DEF Inv, TypeOK, PCs, StoreSteps, Results, Unlock, Dirs
<1>3. Frame(t)
  BY DEF Frame, Inv, TypeOK
<1>4. Guarded(t)
  BY <1>1, KeptNow DEF Guarded, Inv, TypeOK, Locked, Holding, StoreSteps, Unlock, Committed, Stored, Entry
<1>5. Stored(t)'
  BY <1>1, KeptNow DEF Stored, Inv, TypeOK, Holding, StoreSteps, Committed, Entry, Whole
<1>6. Result(t)' /\ Whole(dir)'
  BY <1>1 DEF Result, Whole, Inv, TypeOK, Stored, StoreSteps, Entry, Verified
<1> QED
  BY <1>1, <1>2, <1>3, <1>4, <1>5, <1>6, FrameInv

\* A staging directory begins empty.
LEMMA MakeStagingInv ==
    ASSUME Inv, NEW t \in Threads, MakeStaging(t)
    PROVE  Inv'
<1> USE CacheAssumption DEF MakeStaging, At, Goto, FailStore, call, loc, hist
<1>1. Running(t) /\ pc[t] = "mkstage"
  OBVIOUS
<1>2. TypeOK'
  BY DEF Inv, TypeOK, PCs, StoreSteps, Results, Dirs, Entry
<1>3. Frame(t)
  BY DEF Frame, Inv, TypeOK
<1>4. Guarded(t)
  BY <1>1, KeptNow DEF Guarded, Inv, TypeOK, Locked, Holding, StoreSteps, Unlock, Committed, Stored, Entry
<1>5. Stored(t)'
  BY <1>1, KeptNow DEF Stored, Inv, TypeOK, Holding, StoreSteps, Committed, Entry, Whole
<1>6. Result(t)' /\ Whole(dir)'
  BY <1>1 DEF Result, Whole, Inv, TypeOK, Stored, StoreSteps, Entry, Verified
<1> QED
  BY <1>1, <1>2, <1>3, <1>4, <1>5, <1>6, FrameInv

\* The binary staged is the one downloaded.
LEMMA WriteBinaryInv ==
    ASSUME Inv, NEW t \in Threads, WriteBinary(t)
    PROVE  Inv'
<1> USE CacheAssumption DEF WriteBinary, At, Goto, FailStore, call, loc, hist
<1>1. Running(t) /\ pc[t] = "writebin"
  OBVIOUS
<1>2. TypeOK'
  BY DEF Inv, TypeOK, PCs, StoreSteps, Results, Dirs, Entry
<1>3. Frame(t)
  BY DEF Frame, Inv, TypeOK
<1>4. Guarded(t)
  BY <1>1, KeptNow DEF Guarded, Inv, TypeOK, Locked, Holding, StoreSteps, Unlock, Committed, Stored, Entry
<1>5. Stored(t)'
  BY <1>1, KeptNow DEF Stored, Inv, TypeOK, Holding, StoreSteps, Committed, Entry, Whole
<1>6. Result(t)' /\ Whole(dir)'
  BY <1>1 DEF Result, Whole, Inv, TypeOK, Stored, StoreSteps, Entry, Verified
<1> QED
  BY <1>1, <1>2, <1>3, <1>4, <1>5, <1>6, FrameInv

\* The checksum is computed from the staged binary.
LEMMA ReadBackInv ==
    ASSUME Inv, NEW t \in Threads, ReadBack(t)
    PROVE  Inv'
<1> USE CacheAssumption DEF ReadBack, At, Goto, FailStore, disk, call, hist
<1>1. Running(t) /\ pc[t] = "readback"
  OBVIOUS
<1>2. TypeOK'
  BY DEF Inv, TypeOK, PCs, StoreSteps, Results, Dirs
<1>3. Frame(t)
  BY DEF Frame, Inv, TypeOK
<1>4. Guarded(t)
  BY <1>1, KeptNow DEF Guarded, Inv, TypeOK, Locked, Holding, StoreSteps, Unlock, Committed, Stored, Entry
<1>5. Stored(t)'
  BY <1>1, KeptNow DEF Stored, Inv, TypeOK, Holding, StoreSteps, Committed, Entry, Whole
<1>6. Result(t)' /\ Whole(dir)'
  BY <1>1 DEF Result, Whole, Inv, TypeOK, Stored, StoreSteps, Entry, Verified
<1> QED
  BY <1>1, <1>2, <1>3, <1>4, <1>5, <1>6, FrameInv

\* The staged metadata is the checksum of the staged binary: what is renamed is whole.
LEMMA WriteMetadataInv ==
    ASSUME Inv, NEW t \in Threads, WriteMetadata(t)
    PROVE  Inv'
<1> USE CacheAssumption DEF WriteMetadata, At, Goto, FailStore, call, loc, hist
<1>1. Running(t) /\ pc[t] = "writemeta"
  OBVIOUS
<1>2. TypeOK'
  BY DEF Inv, TypeOK, PCs, StoreSteps, Results, Dirs, Entry
<1>3. Frame(t)
  BY DEF Frame, Inv, TypeOK
<1>4. Guarded(t)
  BY <1>1, KeptNow DEF Guarded, Inv, TypeOK, Locked, Holding, StoreSteps, Unlock, Committed, Stored, Entry
<1>5. Stored(t)'
  BY <1>1, KeptNow DEF Stored, Inv, TypeOK, Holding, StoreSteps, Committed, Entry, Whole
<1>6. Result(t)' /\ Whole(dir)'
  BY <1>1 DEF Result, Whole, Inv, TypeOK, Stored, StoreSteps, Entry, Verified
<1> QED
  BY <1>1, <1>2, <1>3, <1>4, <1>5, <1>6, FrameInv

\* Removing a stale backup leaves the entry and the staged one alone.
LEMMA RemoveStaleBackupInv ==
    ASSUME Inv, NEW t \in Threads, RemoveStaleBackup(t)
    PROVE  Inv'
<1> USE CacheAssumption DEF RemoveStaleBackup, At, Goto, call, loc, hist
<1>1. Running(t) /\ pc[t] = "rmold"
  OBVIOUS
<1>2. TypeOK'
  BY RemainsDirs DEF Inv, TypeOK, PCs, StoreSteps, Results, Dirs
<1>3. Frame(t)
  BY DEF Frame, Inv, TypeOK
<1>4. Guarded(t)
  BY <1>1, KeptNow DEF Guarded, Inv, TypeOK, Locked, Holding, StoreSteps, Unlock, Committed, Stored, Entry
<1>5. Stored(t)'
  BY <1>1, KeptNow DEF Stored, Inv, TypeOK, Holding, StoreSteps, Committed, Entry, Whole
<1>6. Result(t)' /\ Whole(dir)'
  BY <1>1 DEF Result, Whole, Inv, TypeOK, Stored, StoreSteps, Entry, Verified
<1> QED
  BY <1>1, <1>2, <1>3, <1>4, <1>5, <1>6, FrameInv

\* hadExisting tells whether there is a committed entry.
LEMMA StatDirInv ==
    ASSUME Inv, NEW t \in Threads, StatDir(t)
    PROVE  Inv'
<1> USE CacheAssumption DEF StatDir, At, Goto, FailStore, disk, call, hist
<1>1. Running(t) /\ pc[t] = "statdir"
  OBVIOUS
<1>2. TypeOK'
  BY DEF Inv, TypeOK, PCs, StoreSteps, Results
<1>3. Frame(t)
  BY DEF Frame, Inv, TypeOK
<1>4. Guarded(t)
  BY <1>1, KeptNow DEF Guarded, Inv, TypeOK, Locked, Holding, StoreSteps, Unlock, Committed, Stored, Entry
<1>5. Stored(t)'
  BY <1>1, KeptNow DEF Stored, Inv, TypeOK, Holding, StoreSteps, Committed, Entry, Whole
<1>6. Result(t)' /\ Whole(dir)'
  BY <1>1 DEF Result, Whole, Inv, TypeOK, Stored, StoreSteps, Entry, Verified
<1> QED
  BY <1>1, <1>2, <1>3, <1>4, <1>5, <1>6, FrameInv

\* After the first rename the backup is the committed entry.
LEMMA RenameOldInv ==
    ASSUME Inv, NEW t \in Threads, RenameOld(t)
    PROVE  Inv'
<1> USE CacheAssumption DEF RenameOld, At, Goto, FailStore, call, loc, hist
<1>1. Running(t) /\ pc[t] = "renold"
  OBVIOUS
<1>2. TypeOK'
  BY DEF Inv, TypeOK, PCs, StoreSteps, Results, Dirs
<1>3. Frame(t)
  BY DEF Frame, Inv, TypeOK
<1>4. Guarded(t)
  BY <1>1, KeptNow DEF Guarded, Inv, TypeOK, Locked, Holding, StoreSteps, Unlock, Committed, Stored, Entry
<1>5. Stored(t)'
  BY <1>1, KeptNow DEF Stored, Inv, TypeOK, Holding, StoreSteps, Committed, Entry, Whole
<1>6. Result(t)' /\ Whole(dir)'
  BY <1>1 DEF Result, Whole, Inv, TypeOK, Stored, StoreSteps, Entry, Verified
<1> QED
  BY <1>1, <1>2, <1>3, <1>4, <1>5, <1>6, FrameInv

\* After the second rename the staged entry is the committed one.
LEMMA RenameNewInv ==
    ASSUME Inv, NEW t \in Threads, RenameNew(t)
    PROVE  Inv'
<1> USE CacheAssumption DEF RenameNew, At, Goto, FailStore, call, loc, hist
<1>1. Running(t) /\ pc[t] = "rennew"
  OBVIOUS
<1>2. TypeOK'
  <2>1. TypeOK
    BY DEF Inv
  <2>2. pc' \in [Threads -> PCs] /\ res' \in [Threads -> Results]
    BY <2>1 DEF TypeOK, PCs, StoreSteps, Results
  <2>3. dir' \in Dirs /\ tmp' \in Dirs
    BY <2>1 DEF TypeOK, Dirs
  <2>4. published' \in Artifacts \union {None} /\ lost' \in BOOLEAN
    BY <2>1 DEF TypeOK, Dirs
  <2>5. UNCHANGED <<old, cacheMu, up, gone, op, expected, offline, meta, got, had>>
    OBVIOUS
  <2> HIDE DEF RenameNew
  <2> QED
    BY <2>1, <2>2, <2>3, <2>4, <2>5 DEF TypeOK
<1>3. Frame(t)
  BY DEF Frame, Inv, TypeOK
<1>4. Guarded(t)
  BY <1>1, KeptNow DEF Guarded, Inv, TypeOK, Locked, Holding, StoreSteps, Unlock, Committed, Stored, Entry
<1>5. Stored(t)'
  BY <1>1, KeptNow DEF Stored, Inv, TypeOK, Holding, StoreSteps, Committed, Entry, Whole
<1>6. Result(t)' /\ Whole(dir)'
  BY <1>1 DEF Result, Whole, Inv, TypeOK, Stored, StoreSteps, Entry, Verified
<1> QED
  BY <1>1, <1>2, <1>3, <1>4, <1>5, <1>6, FrameInv

\* A rename back that works returns the committed entry; one that fails counts as its loss.
LEMMA UndoRenameInv ==
    ASSUME Inv, NEW t \in Threads, UndoRename(t)
    PROVE  Inv'
<1> USE CacheAssumption DEF UndoRename, At, Goto, call, loc
<1>1. Running(t) /\ pc[t] = "undo"
  OBVIOUS
<1>2. TypeOK'
  BY DEF Inv, TypeOK, PCs, StoreSteps, Results, Dirs
<1>3. Frame(t)
  BY DEF Frame, Inv, TypeOK
<1>4. Guarded(t)
  BY <1>1, KeptNow DEF Guarded, Inv, TypeOK, Locked, Holding, StoreSteps, Unlock, Committed, Stored, Entry
<1>5. Stored(t)'
  BY <1>1, KeptNow DEF Stored, Inv, TypeOK, Holding, StoreSteps, Committed, Entry, Whole
<1>6. Result(t)' /\ Whole(dir)'
  BY <1>1 DEF Result, Whole, Inv, TypeOK, Stored, StoreSteps, Entry, Verified
<1> QED
  BY <1>1, <1>2, <1>3, <1>4, <1>5, <1>6, FrameInv

\* The backup of a commit is no longer needed.
LEMMA RemoveBackupInv ==
    ASSUME Inv, NEW t \in Threads, RemoveBackup(t)
    PROVE  Inv'
<1> USE CacheAssumption DEF RemoveBackup, At, Goto, call, loc, hist
<1>1. Running(t) /\ pc[t] = "rmold2"
  OBVIOUS
<1>2. TypeOK'
  BY RemainsDirs DEF Inv, TypeOK, PCs, StoreSteps, Results, Dirs
<1>3. Frame(t)
  BY DEF Frame, Inv, TypeOK
<1>4. Guarded(t)
  BY <1>1, KeptNow DEF Guarded, Inv, TypeOK, Locked, Holding, StoreSteps, Unlock, Committed, Stored, Entry
<1>5. Stored(t)'
  BY <1>1, KeptNow DEF Stored, Inv, TypeOK, Holding, StoreSteps, Committed, Entry, Whole
<1>6. Result(t)' /\ Whole(dir)'
  BY <1>1 DEF Result, Whole, Inv, TypeOK, Stored, StoreSteps, Entry, Verified
<1> QED
  BY <1>1, <1>2, <1>3, <1>4, <1>5, <1>6, FrameInv

\* The deferred removal of the staging directory leaves the entry alone.
LEMMA CleanStagingInv ==
    ASSUME Inv, NEW t \in Threads, CleanStaging(t)
    PROVE  Inv'
<1> USE CacheAssumption DEF CleanStaging, At, Goto, call, hist
<1>1. Running(t) /\ pc[t] = "cleanup"
  OBVIOUS
<1>2. TypeOK'
  BY RemainsDirs DEF Inv, TypeOK, PCs, StoreSteps, Results, Unlock, Dirs
<1>3. Frame(t)
  BY DEF Frame, Inv, TypeOK
<1>4. Guarded(t)
  BY <1>1, KeptNow DEF Guarded, Inv, TypeOK, Locked, Holding, StoreSteps, Unlock, Committed, Stored, Entry
<1>5. Stored(t)'
  BY <1>1, KeptNow DEF Stored, Inv, TypeOK, Holding, StoreSteps, Committed, Entry, Whole
<1>6. Result(t)' /\ Whole(dir)'
  BY <1>1 DEF Result, Whole, Inv, TypeOK, Stored, StoreSteps, Entry, Verified
<1> QED
  BY <1>1, <1>2, <1>3, <1>4, <1>5, <1>6, FrameInv

\* A listing changes nothing on disk.
LEMMA ListInv ==
    ASSUME Inv, NEW t \in Threads, List(t)
    PROVE  Inv'
<1> USE CacheAssumption DEF List, At, Goto, Return, disk, call, loc, hist
<1>1. Running(t) /\ pc[t] = "idle"
  OBVIOUS
<1>2. TypeOK'
  BY DEF Inv, TypeOK, PCs, StoreSteps, Results
<1>3. Frame(t)
  BY DEF Frame, Inv, TypeOK
<1>4. Guarded(t)
  BY <1>1 DEF Guarded, Inv, TypeOK, Holding, StoreSteps, Lock
<1>5. Stored(t)'
  BY <1>1, KeptNow DEF Stored, Inv, TypeOK, Holding, StoreSteps, Committed, Entry, Whole
<1>6. Result(t)' /\ Whole(dir)'
  BY <1>1 DEF Result, Whole, Inv, TypeOK, Stored, StoreSteps, Entry, Verified
<1> QED
  BY <1>1, <1>2, <1>3, <1>4, <1>5, <1>6, FrameInv

\* Every step of a thread.
LEMMA StepInv ==
    ASSUME Inv, NEW t \in Threads, Step(t)
    PROVE  Inv'
BY BeginInv, LookupInv, VerifyInv, DownloadInv, StoreInv, ClearStagingInv, MakeStagingInv, WriteBinaryInv, ReadBackInv, WriteMetadataInv, RemoveStaleBackupInv, StatDirInv, RenameOldInv, RenameNewInv, UndoRenameInv, RemoveBackupInv, CleanStagingInv, ListInv DEF Step

\* The cache starts empty, with no process.
LEMMA InitInv == Init => Inv
<1> SUFFICES ASSUME Init
             PROVE  Inv
  OBVIOUS
<1> USE CacheAssumption DEF Init
<1>1. TypeOK
  BY DEF TypeOK, Dirs, PCs, Results
<1>2. Alone /\ Fresh /\ Locked
  BY DEF Alone, Fresh, Locked, Running
<1>3. Whole(dir) /\ Kept
  BY DEF Whole, Kept, Committed
<1>4. ASSUME NEW t \in Threads
      PROVE  (Running(t) => Stored(t)) /\ Result(t)
  BY <1>4 DEF Running, Stored, Result, StoreSteps
<1> QED
  BY <1>1, <1>2, <1>3, <1>4 DEF Inv

\* A process that starts has idle threads only, and is alone.
LEMMA LaunchInv ==
    ASSUME OneAtATime, Inv, NEW p \in Procs, Launch(p)
    PROVE  Inv'
<1> USE CacheAssumption DEF OneAtATime, Launch, disk, call, loc, hist
<1>1. TypeOK'
  BY DEF Inv, TypeOK
<1>2. Alone' /\ Fresh'
  BY DEF Inv, Alone, Fresh
<1>3. ASSUME NEW t \in Threads, Running(t)'
      PROVE  pc[t] = "idle"
  BY <1>3 DEF Inv, Fresh, Running
<1>4. Locked'
  BY <1>3 DEF Locked, Holding, StoreSteps
<1>5. Kept'
  BY DEF Inv, Kept, Running, Committed
<1>6. ASSUME NEW t \in Threads
      PROVE  (Running(t)' => Stored(t)') /\ Result(t)'
  BY <1>3 DEF Inv, Stored, Result, StoreSteps
<1> QED
  BY <1>1, <1>2, <1>4, <1>5, <1>6 DEF Inv, Whole

\* What is true of the threads that run stays true of those that still do.
LEMMA StopInv ==
    ASSUME Inv, NEW p \in up, up' = up \ {p}, gone' = gone \union {p}, lost' \in BOOLEAN, lost => lost',
           UNCHANGED <<disk, cacheMu, call, pc, loc, res, published>>, Kept'
    PROVE  Inv'
<1> USE DEF disk, call, loc
<1>1. TypeOK'
  BY DEF Inv, TypeOK
<1>2. Alone' /\ Fresh' /\ Locked'
  BY DEF Inv, Alone, Fresh, Locked, Running
<1>3. ASSUME NEW t \in Threads
      PROVE  (Running(t)' => Stored(t)') /\ Result(t)'
  BY DEF Inv, TypeOK, Stored, Result, Running, Whole, Committed
<1> QED
  BY <1>1, <1>2, <1>3 DEF Inv, Whole

\* A process that ends has no thread in a store.
LEMMA ExitInv ==
    ASSUME Inv, NEW p \in Procs, Exit(p)
    PROVE  Inv'
<1>1. Kept'
  BY DEF Exit, Inv, Kept, Running, Committed, disk, hist
<1> QED
  BY <1>1, StopInv DEF Exit, Inv, TypeOK, disk, call, loc, hist

\* A crash between the two renames loses the entry that was there.
LEMMA CrashInv ==
    ASSUME Inv, NEW p \in Procs, Crash(p)
    PROVE  Inv'
<1>1. ASSUME NEW t \in Threads, ~lost', Running(t), pc[t] \in {"rennew", "undo"}, ProcOf[t] = p
      PROVE  dir' = Committed'
  BY <1>1 DEF Crash, Inv, TypeOK, Stored, Committed, disk
<1>2. Kept'
  BY <1>1 DEF Crash, Inv, Kept, Running, Committed, disk
<1> QED
  BY <1>2, StopInv DEF Crash, Inv, TypeOK

-----------------------------------------------------------------------------
\* The inductive invariant: who holds a mutex, what is staged and what is kept
\* aside at each step of a store (cache.go:122-259).
THEOREM CacheInvariant ==
    ASSUME OneAtATime
    PROVE  Spec => []Inv
<1>1. Inv /\ [Next]_vars => Inv'
  <2> SUFFICES ASSUME Inv, [Next]_vars
               PROVE  Inv'
    OBVIOUS
  <2>1. CASE UNCHANGED vars
    BY <2>1 DEF Inv, TypeOK, Alone, Fresh, Locked, Whole, Kept, Stored, Result, Running, Committed,
                vars, disk, call, loc, hist
  <2>2. CASE Next
    BY <2>2, StepInv, LaunchInv, ExitInv, CrashInv DEF Next
  <2> QED
    BY <2>1, <2>2
<1> QED
  BY <1>1, InitInv, PTL DEF Spec

\* Every variable keeps its type, for any processes, threads and artifacts.
THEOREM CacheTypeCorrect ==
    ASSUME OneAtATime
    PROVE  Spec => []TypeOK
<1>1. Inv => TypeOK
  BY DEF Inv
<1> QED
  BY <1>1, CacheInvariant, PTL

\* A version directory is never half-written, whatever call fails or process dies
\* (commitCacheEntry).
THEOREM EntryIsWhole ==
    ASSUME OneAtATime
    PROVE  Spec => []EntryWhole
<1>1. Inv => EntryWhole
  BY DEF Inv, Whole, EntryWhole
<1> QED
  BY <1>1, CacheInvariant, PTL

\* A store that fails puts back what it replaced; only a crash between the two
\* renames or a rename back that fails loses it (commitCacheEntry).
THEOREM EntryIsKept ==
    ASSUME OneAtATime
    PROVE  Spec => []EntryKept
<1>1. Inv => EntryKept
  BY DEF Inv, Kept, EntryKept, Committed, StoreSteps
<1> QED
  BY <1>1, CacheInvariant, PTL

\* Nothing is returned that does not have the expected checksum (verifyCached,
\* storeFromDownload).
THEOREM ChecksumIsHonoured ==
    ASSUME OneAtATime
    PROVE  Spec => []ChecksumHonoured
<1>1. Inv => ChecksumHonoured
  BY DEF Inv, Result, ChecksumHonoured
<1> QED
  BY <1>1, CacheInvariant, PTL
=============================================================================
