----------------------------- MODULE ReplayStore -----------------------------
(***************************************************************************)
(* ReplayDownloader (src/dependency/resource_replay.go): the downloads of  *)
(* one operation, kept in a temporary directory and replayed.  Goroutines  *)
(* download and close; a mutex is held over the whole of a call, the       *)
(* download from the server included.  The server may change what a URL    *)
(* serves at any time and every call may fail.                             *)
(***************************************************************************)
EXTENDS Naturals, FiniteSets

CONSTANTS
    Threads,    \* goroutines that share the store
    URLs,
    Bytes,      \* what a URL may serve
    None,       \* nothing, and the result of a call that failed
    Free        \* a mutex nobody holds

ASSUME StoreAssumption ==
    /\ None \notin Bytes
    /\ None \notin URLs
    /\ Free \notin Threads
    /\ IsFiniteSet(Threads)

VARIABLES
    server,     \* what each URL serves
    mu,         \* d.mu
    files,      \* d.files: the bytes kept for each URL, or None
    closed,     \* d.closed
    present,    \* the temporary directory exists
    garbage,    \* it has a partial file that could not be removed
    call,       \* per goroutine: its step, its URL and the bytes it read or holds
    fetched,    \* per URL: how many downloads were kept (history)
    seen        \* per URL: what readers of the store were given (history)

store == <<server, mu, files, closed, present, garbage, call, fetched, seen>>

Steps == {"idle", "lock", "locked", "opened", "created", "copied", "closeLock", "closing"}

\* A download of t has made its temporary file, or is about to.
Writing(t) == call[t].pc \in {"opened", "created", "copied"}

\* NewReplayDownloader.
NewStore ==
    /\ mu = Free
    /\ files = [u \in URLs |-> None]
    /\ closed = FALSE
    /\ present = TRUE
    /\ garbage = FALSE
    /\ call = [t \in Threads |-> [pc |-> "idle", url |-> None, bytes |-> None]]
    /\ fetched = [u \in URLs |-> 0]
    /\ seen = [u \in URLs |-> {}]

\* The store of the next operation; the old one has no calls under way.
OpenStore ==
    /\ \A t \in Threads : call[t].pc = "idle"
    /\ mu' = Free
    /\ files' = [u \in URLs |-> None]
    /\ closed' = FALSE
    /\ present' = TRUE
    /\ garbage' = FALSE
    /\ call' = [t \in Threads |-> [pc |-> "idle", url |-> None, bytes |-> None]]
    /\ fetched' = [u \in URLs |-> 0]
    /\ seen' = [u \in URLs |-> {}]
    /\ UNCHANGED server

At(t, step) == call' = [call EXCEPT ![t].pc = step]

\* A wrong form: a call that fails leaves the mutex locked.
ReturnHolding(t, bytes) ==
    /\ mu' = IF bytes = None THEN mu ELSE Free
    /\ call' = [call EXCEPT ![t].pc = "idle", ![t].bytes = bytes]
    /\ seen' = IF bytes = None THEN seen
               ELSE [seen EXCEPT ![call[t].url] = @ \union {bytes}]

\* The deferred Unlock and the result: a reader of bytes, or an error.
Return(t, bytes) ==
    /\ mu' = Free
    /\ call' = [call EXCEPT ![t].pc = "idle", ![t].bytes = bytes]
    /\ seen' = IF bytes = None THEN seen
               ELSE [seen EXCEPT ![call[t].url] = @ \union {bytes}]

Download(t, u) ==
    /\ call[t].pc = "idle"
    /\ call' = [call EXCEPT ![t] = [pc |-> "lock", url |-> u, bytes |-> None]]
    /\ UNCHANGED <<server, mu, files, closed, present, garbage, fetched, seen>>

\* A wrong form: nothing is locked.
LockNothing(t) ==
    /\ \/ call[t].pc = "lock" /\ At(t, "locked")
       \/ call[t].pc = "closeLock" /\ At(t, "closing")
    /\ UNCHANGED <<server, mu, files, closed, present, garbage, fetched, seen>>

Lock(t) ==
    /\ mu = Free
    /\ mu' = t
    /\ \/ call[t].pc = "lock" /\ At(t, "locked")
       \/ call[t].pc = "closeLock" /\ At(t, "closing")
    /\ UNCHANGED <<server, files, closed, present, garbage, fetched, seen>>

\* A closed store refuses.
Refuse(t) ==
    /\ call[t].pc = "locked" /\ closed
    /\ Return(t, None)
    /\ UNCHANGED <<server, files, closed, present, garbage, fetched>>

\* The file of an earlier download is opened, which may fail.
Replay(t) ==
    /\ call[t].pc = "locked" /\ ~closed
    /\ files[call[t].url] # None
    /\ Return(t, files[call[t].url]) \/ Return(t, None)
    /\ UNCHANGED <<server, files, closed, present, garbage, fetched>>

\* d.base.Download: the response is what the server serves now.
Request(t) ==
    /\ call[t].pc = "locked" /\ ~closed
    /\ files[call[t].url] = None
    /\ \/ /\ call' = [call EXCEPT ![t].pc = "opened", ![t].bytes = server[call[t].url]]
          /\ UNCHANGED <<mu, seen>>
       \/ Return(t, None)
    /\ UNCHANGED <<server, files, closed, present, garbage, fetched>>

CreateTemp(t) ==
    /\ call[t].pc = "opened"
    /\ \/ At(t, "created") /\ UNCHANGED <<mu, seen>>
       \/ Return(t, None)
    /\ UNCHANGED <<server, files, closed, present, garbage, fetched>>

\* The deferred Remove of a file that is not kept, which may fail.
Discard(t) ==
    /\ garbage' \in {garbage, TRUE}
    /\ Return(t, None)

\* io.Copy: fails when a read or a write does, or at the size limit.
Copy(t) ==
    /\ call[t].pc = "created"
    /\ \/ At(t, "copied") /\ UNCHANGED <<mu, garbage, seen>>
       \/ Discard(t)
    /\ UNCHANGED <<server, files, closed, present, fetched>>

\* A wrong form: the file is read and not remembered.
KeepNothing(t) ==
    /\ call[t].pc = "copied"
    /\ fetched' = [fetched EXCEPT ![call[t].url] = @ + 1]
    /\ Return(t, call[t].bytes)
    /\ UNCHANGED <<server, files, closed, present, garbage>>

\* Sync and Close, then the file is kept whether it can be opened or not.
Keep(t) ==
    /\ call[t].pc = "copied"
    /\ \/ /\ files' = [files EXCEPT ![call[t].url] = call[t].bytes]
          /\ fetched' = [fetched EXCEPT ![call[t].url] = @ + 1]
          /\ Return(t, call[t].bytes) \/ Return(t, None)
          /\ UNCHANGED garbage
       \/ Discard(t) /\ UNCHANGED <<files, fetched>>
    /\ UNCHANGED <<server, closed, present>>

Close(t) ==
    /\ call[t].pc = "idle"
    /\ call' = [call EXCEPT ![t] = [pc |-> "closeLock", url |-> None, bytes |-> None]]
    /\ UNCHANGED <<server, mu, files, closed, present, garbage, fetched, seen>>

\* RemoveAll may fail; a second Close does nothing.
RemoveStore(t) ==
    /\ call[t].pc = "closing"
    /\ closed' = TRUE
    /\ present' \in IF closed THEN {present} ELSE {FALSE, TRUE}
    /\ garbage' = (garbage /\ present')
    /\ mu' = Free
    /\ At(t, "idle")
    /\ UNCHANGED <<server, files, fetched, seen>>

\* The server changes what it serves.
Publish(u, b) ==
    /\ server' = [server EXCEPT ![u] = b]
    /\ UNCHANGED <<mu, files, closed, present, garbage, call, fetched, seen>>

\* A call goes on.
StoreStep(t) ==
    Lock(t) \/ Refuse(t) \/ Replay(t) \/ Request(t) \/ CreateTemp(t) \/ Copy(t) \/ Keep(t) \/ RemoveStore(t)

StoreNext ==
    \/ \E t \in Threads : StoreStep(t) \/ Close(t) \/ \E u \in URLs : Download(t, u)
    \/ \E u \in URLs, b \in Bytes : Publish(u, b)
    \/ OpenStore

StoreInit == server \in [URLs -> Bytes] /\ NewStore

StoreSpec == StoreInit /\ [][StoreNext]_store

-----------------------------------------------------------------------------
StoreTypeOK ==
    /\ server \in [URLs -> Bytes]
    /\ mu \in Threads \union {Free}
    /\ files \in [URLs -> Bytes \union {None}]
    /\ closed \in BOOLEAN /\ present \in BOOLEAN /\ garbage \in BOOLEAN
    /\ call \in [Threads -> [pc : Steps, url : URLs \union {None}, bytes : Bytes \union {None}]]
    /\ fetched \in [URLs -> Nat]
    /\ seen \in [URLs -> SUBSET Bytes]

\* resource_replay.go:38 "downloads each URL at most once": a download that was
\* kept is never repeated, and whoever reads the URL through the store, from
\* whatever goroutine and whatever the server serves by then, reads those bytes.
DownloadedOnce ==
    \A u \in URLs : fetched[u] <= 1 /\ Cardinality(seen[u]) <= 1

\* Close does not take the directory from under a download of another goroutine,
\* and no download writes into it again.
CloseWaits ==
    ~present => closed /\ ~garbage /\ \A t \in Threads : ~Writing(t)
=============================================================================
