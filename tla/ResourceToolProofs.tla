------------------------- MODULE ResourceToolProofs -------------------------
(***************************************************************************)
(* Proofs about ResourceTool for any project, packages, manifests, archives *)
(* and servers, and about the ReplayStore it downloads with for any         *)
(* goroutines, URLs and bytes.                                             *)
(***************************************************************************)
EXTENDS ResourceTool, FiniteSetTheorems, SequenceTheorems, WellFoundedInduction, TLAPS

-----------------------------------------------------------------------------
(***************************************************************************)
(* The store.  The argument is mutual exclusion: whoever is between Lock   *)
(* and Unlock is the holder of the mutex, so that a download that found no *)
(* file and an open store still finds none when it keeps its own.          *)
(***************************************************************************)
Inside(t) == call[t].pc \in {"locked", "opened", "created", "copied", "closing"}

\* The holder of the mutex is the one inside.
Exclusion == \A t \in Threads : Inside(t) <=> mu = t

\* A call of Download has a URL; one that writes has bytes, and nothing is kept
\* for its URL.
Calling ==
    \A t \in Threads :
        /\ call[t].pc \in {"lock", "locked"} => call[t].url \in URLs
        /\ Writing(t) => /\ call[t].url \in URLs
                         /\ call[t].bytes \in Bytes
                         /\ ~closed
                         /\ files[call[t].url] = None

\* What was kept and what was read agree.
Kept ==
    \A u \in URLs :
        \/ files[u] = None /\ fetched[u] = 0 /\ seen[u] = {}
        \/ files[u] \in Bytes /\ fetched[u] = 1 /\ seen[u] \subseteq {files[u]}

Gone == ~present => closed /\ ~garbage

StoreInv == StoreTypeOK /\ Exclusion /\ Calling /\ Kept /\ Gone

-----------------------------------------------------------------------------
\* A store begins unused: nobody holds the mutex and nothing is kept.
LEMMA StoreInitInv == StoreInit => StoreInv
<1> SUFFICES ASSUME StoreInit PROVE StoreInv
    OBVIOUS
<1> USE StoreAssumption DEF StoreInit, NewStore
<1>1. StoreTypeOK BY DEF StoreTypeOK, Steps
<1>2. Exclusion BY DEF Exclusion, Inside
<1>3. Calling BY DEF Calling, Writing
<1>4. Kept /\ Gone BY DEF Kept, Gone
<1> QED BY <1>1, <1>2, <1>3, <1>4 DEF StoreInv

\* What a step does to the call of its goroutine, and that it leaves the others
\* alone.
Moved(t, step, bytes) ==
    /\ call' \in [Threads -> [pc : Steps, url : URLs \union {None}, bytes : Bytes \union {None}]]
    /\ call'[t].pc = step
    /\ call'[t].url = call[t].url
    /\ call'[t].bytes = bytes
    /\ \A o \in Threads \ {t} : call'[o] = call[o]

\* A thread that goes on in its call leaves the calls of the others alone.
LEMMA AtMoves ==
    ASSUME StoreTypeOK, NEW t \in Threads, NEW step \in Steps, At(t, step)
    PROVE  Moved(t, step, call[t].bytes)
BY DEF StoreTypeOK, At, Moved

\* So does a thread that returns.
LEMMA ReturnMoves ==
    ASSUME StoreTypeOK, NEW t \in Threads, NEW bytes \in Bytes \union {None}, Return(t, bytes)
    PROVE  Moved(t, "idle", bytes)
BY DEF StoreTypeOK, Return, Moved, Steps

\* A call returns and nothing that is kept has changed.
Returned(t, bytes) ==
    /\ Inside(t)
    /\ Return(t, bytes)
    /\ bytes = None \/ (call[t].url \in URLs /\ bytes = files[call[t].url])
    /\ UNCHANGED <<server, files, closed, present, fetched>>
    /\ garbage' \in BOOLEAN /\ (garbage' = garbage \/ present)

\* A return with the mutex gives it back, and what was read is what was kept.
LEMMA ReturnInv ==
    ASSUME StoreInv, NEW t \in Threads, NEW bytes \in Bytes \union {None}, Returned(t, bytes)
    PROVE  StoreInv'
<1> USE StoreAssumption DEF StoreInv
<1>0. /\ Inside(t) /\ Return(t, bytes)
      /\ bytes = None \/ (call[t].url \in URLs /\ bytes = files[call[t].url])
      /\ server' = server /\ files' = files /\ closed' = closed
      /\ present' = present /\ fetched' = fetched
      /\ garbage' \in BOOLEAN /\ (garbage' = garbage \/ present)
    BY DEF Returned
<1>1. Moved(t, "idle", bytes) BY <1>0, ReturnMoves
<1>2. /\ mu' = Free
      /\ seen' = IF bytes = None THEN seen ELSE [seen EXCEPT ![call[t].url] = @ \union {bytes}]
    BY <1>0 DEF Return
<1>3. StoreTypeOK' BY <1>0, <1>1, <1>2 DEF StoreTypeOK, Moved
<1>4. Exclusion' BY <1>0, <1>1, <1>2 DEF Exclusion, Inside, Moved
<1>5. Calling' BY <1>0, <1>1 DEF Calling, Writing, Moved
<1>6. Kept' BY <1>0, <1>2 DEF StoreTypeOK, Kept
<1>7. Gone' BY <1>0 DEF Gone
<1> QED BY <1>3, <1>4, <1>5, <1>6, <1>7

\* Every step of the store preserves the invariant.
LEMMA StoreStepInv ==
    ASSUME StoreInv, [StoreNext]_store
    PROVE  StoreInv'
<1> USE StoreAssumption
<1>0. StoreTypeOK /\ Exclusion /\ Calling /\ Kept /\ Gone BY DEF StoreInv
<1>1. ASSUME NEW t \in Threads, NEW u \in URLs, Download(t, u) PROVE StoreInv'
    BY <1>0, <1>1 DEF StoreInv, Download, StoreTypeOK, Exclusion, Calling, Kept, Gone, Inside, Writing, Steps
<1>2. ASSUME NEW t \in Threads, Lock(t) PROVE StoreInv'
    <2>1. CASE call[t].pc = "lock" /\ At(t, "locked")
        <3>1. Moved(t, "locked", call[t].bytes) BY <1>0, <2>1, AtMoves DEF Steps
        <3> QED BY <1>0, <1>2, <2>1, <3>1
            DEF StoreInv, Lock, Moved, StoreTypeOK, Exclusion, Calling, Kept, Gone, Inside, Writing
    <2>2. CASE call[t].pc = "closeLock" /\ At(t, "closing")
        <3>1. Moved(t, "closing", call[t].bytes) BY <1>0, <2>2, AtMoves DEF Steps
        <3> QED BY <1>0, <1>2, <2>2, <3>1
            DEF StoreInv, Lock, Moved, StoreTypeOK, Exclusion, Calling, Kept, Gone, Inside, Writing
    <2> QED BY <1>2, <2>1, <2>2 DEF Lock
<1>3. ASSUME NEW t \in Threads, Refuse(t) PROVE StoreInv'
    <2>1. Returned(t, None) BY <1>0, <1>3 DEF Refuse, Returned, Inside, StoreTypeOK
    <2> QED BY <2>1, ReturnInv
<1>4. ASSUME NEW t \in Threads, Replay(t) PROVE StoreInv'
    <2>1. call[t].url \in URLs /\ files[call[t].url] \in Bytes
        BY <1>0, <1>4 DEF Replay, StoreTypeOK, Calling
    <2>2. Returned(t, files[call[t].url]) \/ Returned(t, None)
        BY <1>0, <1>4, <2>1 DEF Replay, Returned, Inside, StoreTypeOK
    <2> QED BY <2>1, <2>2, ReturnInv
<1>5. ASSUME NEW t \in Threads, Request(t) PROVE StoreInv'
    <2>1. CASE Return(t, None)
        <3>1. Returned(t, None) BY <1>0, <1>5, <2>1 DEF Request, Returned, Inside, StoreTypeOK
        <3> QED BY <3>1, ReturnInv
    <2>2. CASE call' = [call EXCEPT ![t].pc = "opened", ![t].bytes = server[call[t].url]]
               /\ UNCHANGED <<mu, seen>>
        <3>1. PICK b \in Bytes : call' = [call EXCEPT ![t].pc = "opened", ![t].bytes = b]
            BY <1>0, <1>5, <2>2 DEF Request, Calling, StoreTypeOK
        <3>2. call \in [Threads -> [pc : Steps, url : URLs \union {None}, bytes : Bytes \union {None}]]
            BY <1>0 DEF StoreTypeOK
        <3>3. /\ call'[t].pc = "opened" /\ call'[t].url = call[t].url /\ call'[t].bytes = b
              /\ \A o \in Threads \ {t} : call'[o] = call[o]
            BY <3>1, <3>2
        <3>4. call' \in [Threads -> [pc : Steps, url : URLs \union {None}, bytes : Bytes \union {None}]]
            <4>1. "opened" \in Steps BY DEF Steps
            <4>2. [call[t] EXCEPT !.pc = "opened", !.bytes = b] \in [pc : Steps, url : URLs \union {None}, bytes : Bytes \union {None}]
                BY <3>2, <4>1
            <4>3. call' = [call EXCEPT ![t] = [call[t] EXCEPT !.pc = "opened", !.bytes = b]]
                BY <3>1, <3>2
            <4> QED BY <3>2, <4>2, <4>3
        <3>5. Moved(t, "opened", b) BY <3>3, <3>4 DEF Moved
        <3> QED BY <1>0, <1>5, <2>2, <3>5
            DEF StoreInv, Request, Moved, StoreTypeOK, Exclusion, Calling, Kept, Gone, Inside, Writing
    <2> QED BY <1>5, <2>1, <2>2 DEF Request
<1>6. ASSUME NEW t \in Threads, CreateTemp(t) PROVE StoreInv'
    <2>1. CASE Return(t, None)
        <3>1. Returned(t, None) BY <1>0, <1>6, <2>1 DEF CreateTemp, Returned, Inside, StoreTypeOK
        <3> QED BY <3>1, ReturnInv
    <2>2. CASE At(t, "created") /\ UNCHANGED <<mu, seen>>
        <3>1. Moved(t, "created", call[t].bytes) BY <1>0, <2>2, AtMoves DEF Steps
        <3> QED BY <1>0, <1>6, <2>2, <3>1
            DEF StoreInv, CreateTemp, Moved, StoreTypeOK, Exclusion, Calling, Kept, Gone, Inside, Writing
    <2> QED BY <1>6, <2>1, <2>2 DEF CreateTemp
<1>7. ASSUME NEW t \in Threads, Copy(t) PROVE StoreInv'
    <2>1. CASE Discard(t)
        <3>1. present BY <1>0, <1>7 DEF Copy, Calling, Writing, Gone
        <3>2. Returned(t, None)
            BY <1>0, <1>7, <2>1, <3>1 DEF Copy, Discard, Returned, Inside, StoreTypeOK
        <3> QED BY <3>2, ReturnInv
    <2>2. CASE At(t, "copied") /\ UNCHANGED <<mu, garbage, seen>>
        <3>1. Moved(t, "copied", call[t].bytes) BY <1>0, <2>2, AtMoves DEF Steps
        <3> QED BY <1>0, <1>7, <2>2, <3>1
            DEF StoreInv, Copy, Moved, StoreTypeOK, Exclusion, Calling, Kept, Gone, Inside, Writing
    <2> QED BY <1>7, <2>1, <2>2 DEF Copy
<1>8. ASSUME NEW t \in Threads, Keep(t) PROVE StoreInv'
    <2> DEFINE u == call[t].url
               b == call[t].bytes
    <2>1. u \in URLs /\ b \in Bytes /\ ~closed /\ files[u] = None /\ present /\ Inside(t)
        BY <1>0, <1>8 DEF Keep, Calling, Writing, Gone, Inside
    <2>2. CASE Discard(t) /\ UNCHANGED <<files, fetched>>
        <3>1. Returned(t, None)
            BY <1>0, <1>8, <2>1, <2>2 DEF Keep, Discard, Returned, StoreTypeOK
        <3> QED BY <3>1, ReturnInv
    <2>3. ASSUME NEW bytes \in {b, None}, Return(t, bytes),
                 files' = [files EXCEPT ![u] = b],
                 fetched' = [fetched EXCEPT ![u] = @ + 1],
                 garbage' = garbage
          PROVE  StoreInv'
        <3>1. Moved(t, "idle", bytes) BY <1>0, <2>1, <2>3, ReturnMoves
        <3>2. /\ mu' = Free
              /\ seen' = IF bytes = None THEN seen ELSE [seen EXCEPT ![u] = @ \union {bytes}]
            BY <1>0, <2>3 DEF Return
        <3>3. UNCHANGED <<server, closed, present>> BY <1>0, <1>8 DEF Keep
        <3>4. StoreTypeOK' BY <1>0, <2>1, <2>3, <3>1, <3>2, <3>3 DEF StoreTypeOK, Moved
        <3>5. Exclusion' BY <1>0, <2>1, <3>1, <3>2 DEF Exclusion, Inside, Moved
        <3>6. \A o \in Threads \ {t} : ~Writing(o) /\ call'[o] = call[o]
            BY <1>0, <2>1, <3>1 DEF Moved, Exclusion, Inside, Writing
        <3>7. Calling' BY <1>0, <3>1, <3>3, <3>6 DEF Calling, Writing, Moved
        <3>8. Kept' BY <1>0, <2>1, <2>3, <3>2 DEF StoreTypeOK, Kept
        <3>9. Gone' BY <1>0, <2>3, <3>3 DEF Gone
        <3> QED BY <3>4, <3>5, <3>7, <3>8, <3>9 DEF StoreInv
    <2> QED BY <1>8, <2>2, <2>3 DEF Keep
<1>9. ASSUME NEW t \in Threads, RemoveStore(t) PROVE StoreInv'
    <2>1. At(t, "idle") /\ mu' = Free /\ closed' = TRUE /\ UNCHANGED <<server, files, fetched, seen>>
        BY <1>0, <1>9 DEF RemoveStore
    <2>2. Moved(t, "idle", call[t].bytes) BY <1>0, <2>1, AtMoves DEF Steps
    <2>3. /\ present' \in BOOLEAN /\ garbage' \in BOOLEAN
          /\ garbage' = (garbage /\ present')
        BY <1>0, <1>9 DEF RemoveStore, StoreTypeOK
    <2>4. Inside(t) BY <1>0, <1>9 DEF RemoveStore, Inside
    <2>5. StoreTypeOK' BY <1>0, <2>1, <2>2, <2>3 DEF StoreTypeOK, Moved
    <2>6. Exclusion' BY <1>0, <2>1, <2>2, <2>4 DEF Exclusion, Inside, Moved
    <2>7. \A o \in Threads \ {t} : ~Writing(o) /\ call'[o] = call[o]
        BY <1>0, <2>2, <2>4 DEF Moved, Exclusion, Inside, Writing
    <2>8. Calling' BY <1>0, <2>1, <2>2, <2>7 DEF Calling, Writing, Moved
    <2>9. Kept' BY <1>0, <2>1 DEF Kept
    <2>10. Gone' BY <1>0, <2>1, <2>3 DEF Gone
    <2> QED BY <2>5, <2>6, <2>8, <2>9, <2>10 DEF StoreInv
<1>10. ASSUME NEW t \in Threads, Close(t) PROVE StoreInv'
    BY <1>0, <1>10 DEF StoreInv, Close, StoreTypeOK, Exclusion, Calling, Kept, Gone, Inside, Writing, Steps
<1>11. ASSUME NEW u \in URLs, NEW b \in Bytes, Publish(u, b) PROVE StoreInv'
    BY <1>0, <1>11 DEF StoreInv, Publish, StoreTypeOK, Exclusion, Calling, Kept, Gone, Inside, Writing
<1>12. CASE OpenStore
    BY <1>0, <1>12 DEF StoreInv, OpenStore, StoreTypeOK, Exclusion, Calling, Kept, Gone, Inside, Writing, Steps
<1>13. CASE UNCHANGED store
    BY <1>0, <1>13 DEF StoreInv, store, StoreTypeOK, Exclusion, Calling, Kept, Gone, Inside, Writing
<1> QED
    BY <1>1, <1>2, <1>3, <1>4, <1>5, <1>6, <1>7, <1>8, <1>9, <1>10, <1>11, <1>12, <1>13
    DEF StoreNext, StoreStep

\* The inductive invariant: mutual exclusion, and what it keeps.
THEOREM StoreInvariant == StoreSpec => []StoreInv
BY StoreInitInv, StoreStepInv, PTL DEF StoreSpec

\* Type correctness of the store.
THEOREM StoreTypeCorrect == StoreSpec => []StoreTypeOK
<1>1. StoreInv => StoreTypeOK BY DEF StoreInv
<1> QED BY <1>1, StoreInvariant, PTL

\* A URL is downloaded and kept at most once, and all who read it through the
\* store read the same bytes (resource_replay.go:38), for any number of goroutines.
THEOREM StoreDownloadsOnce == StoreSpec => []DownloadedOnce
<1>1. StoreInv => DownloadedOnce
    <2> SUFFICES ASSUME StoreInv, NEW u \in URLs PROVE fetched[u] <= 1 /\ Cardinality(seen[u]) <= 1
        BY DEF DownloadedOnce
    <2>1. fetched[u] <= 1 BY DEF StoreInv, Kept
    <2>2. PICK b : seen[u] \subseteq {b} BY DEF StoreInv, Kept
    <2>3. IsFiniteSet({b}) /\ Cardinality({b}) = 1 BY FS_Singleton
    <2>4. Cardinality(seen[u]) <= 1 BY <2>2, <2>3, FS_Subset
    <2> QED BY <2>1, <2>4
<1> QED BY <1>1, StoreInvariant, PTL

\* Close waits for the download under way and none begins after it
\* (resource_replay.go:89), for any number of goroutines.
THEOREM StoreCloseWaits == StoreSpec => []CloseWaits
<1>1. StoreInv => CloseWaits BY DEF StoreInv, Gone, Calling, CloseWaits
<1> QED BY <1>1, StoreInvariant, PTL

-----------------------------------------------------------------------------
(***************************************************************************)
(* Paths.                                                                  *)
(***************************************************************************)
\* A set of numbers has a least one.
LEMMA LeastExists ==
    ASSUME NEW s \in SUBSET Nat, s # {}
    PROVE  \E x \in s : \A y \in s : x <= y
<1>1. PICK x \in s : \A y \in s : ~ (<<y, x>> \in OpToRel(<, Nat))
  BY NatLessThanWellFounded, WFMin
<1>2. OpToRel(<, Nat) = {ss \in Nat \X Nat : ss[1] < ss[2]}
  BY Zenon DEF OpToRel
<1>3. \A y \in s : ~ (y < x)
  BY <1>1, <1>2
<1> QED
  BY <1>3

-----------------------------------------------------------------------------
(***************************************************************************)
(* Clean goes through a path by a recursive function.                      *)
(***************************************************************************)
Cleaning(f, n, path) ==
    f = [i \in 0 .. n |-> IF i = 0 THEN <<>> ELSE Push(IsAbs(path), f[i - 1], path[i])]

\* There is such a function for any length.
LEMMA KeptExists ==
    ASSUME NEW path, NEW n \in Nat
    PROVE  \E f : Cleaning(f, n, path)
<1> DEFINE bad == {m \in Nat : ~ \E f : Cleaning(f, m, path)}
<1>1. ASSUME bad # {}
      PROVE  FALSE
  <2>1. PICK m \in bad : \A x \in bad : m <= x
    BY <1>1, LeastExists
  <2>2. CASE m = 0
    <3>1. Cleaning([i \in 0 .. 0 |-> <<>>], 0, path)
      BY DEF Cleaning
    <3> QED
      BY <2>2, <3>1
  <2>3. CASE m # 0
    <3>1. m - 1 \in Nat /\ m - 1 \notin bad
      BY <2>1, <2>3
    <3>2. PICK f : Cleaning(f, m - 1, path)
      BY <3>1
    <3> DEFINE g == [i \in 0 .. m |-> IF i = m THEN Push(IsAbs(path), f[m - 1], path[m]) ELSE f[i]]
    <3>3. \A i \in 0 .. m : g[i] = IF i = 0 THEN <<>> ELSE Push(IsAbs(path), g[i - 1], path[i])
      <4> SUFFICES ASSUME NEW i \in 0 .. m
                   PROVE  g[i] = IF i = 0 THEN <<>> ELSE Push(IsAbs(path), g[i - 1], path[i])
        OBVIOUS
      <4>1. CASE i = m
        BY <2>3, <4>1
      <4>2. CASE i # m
        <5>1. i \in 0 .. m - 1 /\ f[i] = IF i = 0 THEN <<>> ELSE Push(IsAbs(path), f[i - 1], path[i])
          BY <3>1, <3>2, <4>2 DEF Cleaning
        <5>2. i # 0 => i - 1 \in 0 .. m /\ i - 1 # m
          BY <4>2
        <5> QED
          BY <5>1, <5>2, <4>2
      <4> QED
        BY <4>1, <4>2
    <3>4. Cleaning(g, m, path)
      BY <3>3 DEF Cleaning
    <3> QED
      BY <2>1, <3>4
  <2> QED
    BY <2>2, <2>3
<1> QED
  BY <1>1

\* What Clean keeps of a path, segment by segment.
LEMMA CleanKeeps ==
    ASSUME NEW path, IsPath(path)
    PROVE  \E f : /\ f[0] = <<>>
                  /\ \A i \in 1 .. Len(path) : f[i] = Push(IsAbs(path), f[i - 1], path[i])
                  /\ Clean(path) = Rooted(IsAbs(path), f[Len(path)])
<1> DEFINE n == Len(path)
           f == CHOOSE kept : Cleaning(kept, n, path)
<1>1. n \in Nat
  BY LenProperties
<1>2. Cleaning(f, n, path)
  BY <1>1, KeptExists
<1>3. Clean(path) = Rooted(IsAbs(path), f[n])
  BY DEF Clean, Cleaning
<1> HIDE DEF f
<1>4. f[0] = <<>>
  BY <1>1, <1>2 DEF Cleaning
<1>5. \A i \in 1 .. n : f[i] = Push(IsAbs(path), f[i - 1], path[i])
  <2> SUFFICES ASSUME NEW i \in 1 .. n
               PROVE  f[i] = Push(IsAbs(path), f[i - 1], path[i])
    OBVIOUS
  <2>1. i \in 0 .. n /\ i # 0
    BY <1>1
  <2> QED
    BY <2>1, <1>2 DEF Cleaning
<1> QED
  BY <1>3, <1>4, <1>5

\* The last segment, and what is before it.
LEMMA FrontOfAppend ==
    ASSUME NEW S, NEW s \in Seq(S), NEW x \in S
    PROVE  Front(Append(s, x)) = s /\ Last(Append(s, x)) = x
<1> DEFINE t == Append(s, x)
           n == Len(s)
<1>1. n \in Nat /\ Len(t) = n + 1 /\ \A i \in 1 .. n : t[i] = s[i]
  BY AppendProperties, LenProperties
<1>2. t[n + 1] = x /\ \A i \in 1 .. n : s[i] \in S
  BY AppendProperties, ElementOfSeq
<1> HIDE DEF t
<1>3. /\ SubSeq(t, 1, n) \in Seq(S) /\ Len(SubSeq(t, 1, n)) = n
      /\ \A i \in 1 .. n : SubSeq(t, 1, n)[i] = s[i]
  <2> HIDE DEF n
  <2>1. \A i \in 1 .. n : t[i] \in S
    BY <1>1, <1>2
  <2>2. /\ SubSeq(t, 1, n) \in Seq(S) /\ Len(SubSeq(t, 1, n)) = IF 1 <= n THEN n - 1 + 1 ELSE 0
        /\ \A i \in 1 .. n - 1 + 1 : SubSeq(t, 1, n)[i] = t[1 + i - 1]
    BY <1>1, <2>1, SubSeqProperties
  <2>3. (IF 1 <= n THEN n - 1 + 1 ELSE 0) = n /\ n - 1 + 1 = n /\ \A i \in 1 .. n : 1 + i - 1 = i
    BY <1>1
  <2> QED
    BY <1>1, <2>2, <2>3
<1>4. SubSeq(t, 1, n) = s
  BY <1>3, SeqEqual
<1>5. Len(t) - 1 = n
  BY <1>1
<1> QED
  BY <1>1, <1>2, <1>4, <1>5 DEF Front, Last, t

\* What is not empty.
Solid(segments) == segments \ {""}

\* What is pushed on a path is one of its segments, and not an empty one.
LEMMA PushInSeq ==
    ASSUME NEW T, NEW S, S = Solid(T), NEW abs, NEW out \in Seq(S), NEW segment \in T
    PROVE  Push(abs, out, segment) \in Seq(S)
<1>1. segment # "" => Append(out, segment) \in Seq(S)
  <2>1. segment # "" => segment \in S
    BY DEF Solid
  <2> QED
    BY <2>1, AppendProperties
<1>2. ASSUME out # <<>>
      PROVE  Front(out) \in Seq(S)
  <2>1. PICK s \in Seq(S), x \in S : out = Append(s, x)
    BY <1>2, SequenceEmptyOrAppend
  <2> QED
    BY <2>1, FrontOfAppend
<1> QED
  BY <1>1, <1>2 DEF Push

\* Clean of an absolute path and of a relative one.
AbsPush(out, segment) == Push(TRUE, out, segment)
RelPush(out, segment) == Push(FALSE, out, segment)
AbsRooted(segments) == Rooted(TRUE, segments)
RelRooted(segments) == Rooted(FALSE, segments)

\* Both ways of pushing stay in the sequences.
LEMMA PushesInSeq ==
    ASSUME NEW T, NEW S, S = Solid(T), NEW out \in Seq(S), NEW segment \in T
    PROVE  AbsPush(out, segment) \in Seq(S) /\ RelPush(out, segment) \in Seq(S)
BY PushInSeq DEF AbsPush, RelPush

\* The segments of a path are pushed on an absolute base, and by themselves.
PushedOn(f, base, rel) == f[0] = base /\ \A i \in 1 .. Len(rel) : f[i] = AbsPush(f[i - 1], rel[i])
PushedAlone(k, rel) == k[0] = <<>> /\ \A i \in 1 .. Len(rel) : k[i] = RelPush(k[i - 1], rel[i])

\* What Clean keeps of an absolute path.
LEMMA AbsKeeps ==
    ASSUME NEW path, IsPath(path), IsAbs(path)
    PROVE  \E f : PushedOn(f, <<>>, path) /\ Clean(path) = AbsRooted(f[Len(path)])
<1>1. PICK abs : abs = IsAbs(path)
  OBVIOUS
<1>2. abs = TRUE
  BY <1>1 DEF IsAbs
<1>3. PICK f : /\ f[0] = <<>>
               /\ \A i \in 1 .. Len(path) : f[i] = Push(abs, f[i - 1], path[i])
               /\ Clean(path) = Rooted(abs, f[Len(path)])
  BY <1>1, CleanKeeps
<1> QED
  BY <1>2, <1>3 DEF PushedOn, AbsPush, AbsRooted

\* What Clean keeps of a relative path.
LEMMA RelKeeps ==
    ASSUME NEW path, IsPath(path), ~IsAbs(path)
    PROVE  \E f : PushedAlone(f, path) /\ Clean(path) = RelRooted(f[Len(path)])
<1>1. PICK abs : abs = IsAbs(path)
  OBVIOUS
<1>2. abs = FALSE
  BY <1>1 DEF IsAbs
<1>3. PICK f : /\ f[0] = <<>>
               /\ \A i \in 1 .. Len(path) : f[i] = Push(abs, f[i - 1], path[i])
               /\ Clean(path) = Rooted(abs, f[Len(path)])
  BY <1>1, CleanKeeps
<1> QED
  BY <1>2, <1>3 DEF PushedAlone, RelPush, RelRooted

\* A relative path that leads up, and one that nowhere does.
Up(out) == out # <<>> /\ out[1] = ".."
Down(out) == ".." \notin Range(out)

\* The segments of a path and one more.
LEMMA RangeOfAppend ==
    ASSUME NEW S, NEW s \in Seq(S), NEW x \in S
    PROVE  Range(Append(s, x)) = Range(s) \union {x}
<1> DEFINE t == Append(s, x)
           n == Len(s)
<1>1. n \in Nat /\ DOMAIN s = 1 .. n
  BY LenProperties
<1>2. t \in Seq(S) /\ Len(t) = n + 1 /\ t[n + 1] = x /\ \A i \in 1 .. n : t[i] = s[i]
  BY AppendProperties
<1>3. DOMAIN t = 1 .. n + 1
  BY <1>2, LenProperties
<1> HIDE DEF t, n
<1>4. \A i \in 1 .. n + 1 : i \in 1 .. n \/ i = n + 1
  BY <1>1
<1>5. n + 1 \in 1 .. n + 1 /\ 1 .. n \subseteq 1 .. n + 1
  BY <1>1
<1>6. Range(t) = Range(s) \union {x}
  BY <1>1, <1>2, <1>3, <1>4, <1>5 DEF Range
<1> QED
  BY <1>6 DEF t

\* What leads up goes on to do so.
LEMMA PushUp ==
    ASSUME NEW S, NEW out \in Seq(S), NEW segment \in S, Up(out)
    PROVE  Up(RelPush(out, segment))
<1>1. PICK s \in Seq(S), x \in S : out = Append(s, x)
  BY SequenceEmptyOrAppend DEF Up
<1>2. Front(out) = s /\ Last(out) = x
  BY <1>1, FrontOfAppend
<1>3. /\ Len(s) \in Nat /\ \A i \in 1 .. Len(s) : out[i] = s[i]
      /\ out[Len(s) + 1] = x
  BY <1>1, AppendProperties, LenProperties
<1>4. /\ Len(out) \in Nat /\ Len(out) = Len(s) + 1
      /\ Append(out, segment) # <<>> /\ \A i \in 1 .. Len(out) : Append(out, segment)[i] = out[i]
  BY <1>1, AppendProperties, LenProperties
<1>5. ASSUME x # ".."
      PROVE  Up(s)
  <2>1. s # <<>>
    <3>1. CASE s = <<>>
      <4>1. Len(s) = 0
        BY <3>1, EmptySeq
      <4> QED
        BY <1>3, <1>5, <4>1 DEF Up
    <3> QED
      BY <3>1
  <2>2. Len(s) # 0
    BY <2>1, EmptySeq
  <2>3. 1 \in 1 .. Len(s)
    BY <1>3, <2>2
  <2> QED
    BY <1>3, <2>1, <2>3 DEF Up
<1>6. Up(Append(out, segment))
  <2>1. 1 \in 1 .. Len(out)
    BY <1>3, <1>4
  <2> QED
    BY <1>4, <2>1 DEF Up
<1> QED
  BY <1>2, <1>5, <1>6 DEF AbsPush, RelPush, Push

\* What leads nowhere up is pushed on a directory as it is pushed on nothing.
LEMMA PushDown ==
    ASSUME NEW S, NEW base \in Seq(S), NEW out \in Seq(S), NEW segment \in S, Down(out)
    PROVE  \/ Up(RelPush(out, segment))
           \/ /\ Down(RelPush(out, segment))
              /\ AbsPush(base \o out, segment) = base \o RelPush(out, segment)
<1>1. /\ Append(out, segment) \in Seq(S) /\ Range(Append(out, segment)) = Range(out) \union {segment}
      /\ base \o out \in Seq(S) /\ base \o Append(out, segment) = Append(base \o out, segment)
  <2>1. Append(out, segment) = out \o <<segment>> /\ <<segment>> \in Seq(S)
    BY AppendIsConcat
  <2>2. base \o out \in Seq(S)
    BY ConcatProperties
  <2>3. Append(base \o out, segment) = (base \o out) \o <<segment>>
    BY <2>2, AppendIsConcat
  <2>4. (base \o out) \o <<segment>> = base \o (out \o <<segment>>)
    BY <2>1, ConcatAssociative
  <2>5. Append(out, segment) \in Seq(S) /\ Range(Append(out, segment)) = Range(out) \union {segment}
    BY AppendProperties, RangeOfAppend
  <2> QED
    BY <2>1, <2>2, <2>3, <2>4, <2>5
<1>2. CASE segment \in {"", "."}
  BY <1>2 DEF AbsPush, RelPush, Push
<1>3. CASE segment \notin {"", ".", ".."}
  <2>1. RelPush(out, segment) = Append(out, segment)
    BY <1>3 DEF AbsPush, RelPush, Push
  <2>2. AbsPush(base \o out, segment) = Append(base \o out, segment)
    BY <1>3 DEF AbsPush, RelPush, Push
  <2> QED
    BY <1>1, <1>3, <2>1, <2>2 DEF Down
<1>4. CASE segment = ".." /\ out = <<>>
  <2>1. RelPush(out, segment) = Append(out, segment)
    BY <1>4 DEF AbsPush, RelPush, Push
  <2>2. Append(out, segment) # <<>> /\ Append(out, segment)[1] = segment
    <3>1. Len(out) = 0
      BY <1>4, EmptySeq
    <3>2. Append(out, segment)[Len(out) + 1] = segment /\ Append(out, segment) # <<>>
      BY AppendProperties
    <3> QED
      BY <3>1, <3>2
  <2> QED
    BY <1>4, <2>1, <2>2 DEF Up
<1>5. CASE segment = ".." /\ out # <<>>
  <2>1. PICK s \in Seq(S), x \in S : out = Append(s, x)
    BY <1>5, SequenceEmptyOrAppend
  <2>2. Front(out) = s /\ Last(out) = x
    BY <2>1, FrontOfAppend
  <2>3. x # ".." /\ Down(s)
    BY <2>1, RangeOfAppend DEF Down
  <2>4. base \o s \in Seq(S) /\ base \o out = Append(base \o s, x)
    <3>1. out = s \o <<x>> /\ <<x>> \in Seq(S) /\ base \o s \in Seq(S)
      BY <2>1, AppendIsConcat, ConcatProperties
    <3>2. Append(base \o s, x) = (base \o s) \o <<x>>
      BY <3>1, AppendIsConcat
    <3>3. (base \o s) \o <<x>> = base \o (s \o <<x>>)
      <4>1. PICK one : one = <<x>>
        OBVIOUS
      <4>2. one \in Seq(S)
        BY <3>1, <4>1
      <4>3. (base \o s) \o one = base \o (s \o one)
        BY <4>2, ConcatAssociative, SMTT(20)
      <4> QED
        BY <4>1, <4>3
    <3> QED
      BY <3>1, <3>2, <3>3
  <2>5. Front(base \o out) = base \o s /\ Last(base \o out) = x /\ base \o out # <<>>
    <3>1. PICK b : b = base \o s
      OBVIOUS
    <3>2. b \in Seq(S) /\ base \o out = Append(b, x)
      BY <2>4, <3>1
    <3>3. Front(Append(b, x)) = b /\ Last(Append(b, x)) = x
      BY <3>2, FrontOfAppend
    <3>4. Append(b, x) # <<>>
      BY <3>2, AppendProperties
    <3> QED
      BY <3>1, <3>2, <3>3, <3>4
  <2>6. RelPush(out, segment) = s
    BY <1>5, <2>2, <2>3 DEF AbsPush, RelPush, Push
  <2>7. AbsPush(base \o out, segment) = base \o s
    BY <1>5, <2>3, <2>5 DEF AbsPush, RelPush, Push
  <2> QED
    BY <2>3, <2>6, <2>7
<1> QED
  BY <1>2, <1>3, <1>4, <1>5

\* What Clean keeps of a path is a sequence of its segments.
LEMMA CleanIsPath ==
    ASSUME NEW path, IsPath(path)
    PROVE  IsPath(Clean(path))
<1> DEFINE n == Len(path)
           T == Range(path) \union {"", "."}
           S == Solid(T)
<1>1. path \in Seq(Range(path)) /\ n \in Nat
  BY LenProperties DEF IsPath
<1>2. \A i \in 1 .. n : path[i] \in T
  BY <1>1, ElementOfSeq
<1>3. PICK f : /\ f[0] = <<>>
               /\ \A i \in 1 .. n : f[i] = Push(IsAbs(path), f[i - 1], path[i])
               /\ Clean(path) = Rooted(IsAbs(path), f[n])
  BY CleanKeeps
<1> HIDE DEF S, T
<1> DEFINE bad == {i \in 0 .. n : f[i] \notin Seq(S)}
<1>4. ASSUME bad # {}
      PROVE  FALSE
  <2>1. bad \in SUBSET Nat
    BY <1>1
  <2>2. PICK i \in bad : \A x \in bad : i <= x
    BY <1>4, <2>1, LeastExists
  <2>3. <<>> \in Seq(S)
    BY EmptySeq
  <2>4. i # 0
    BY <1>3, <2>2, <2>3
  <2>5. i - 1 \in 0 .. n /\ i \in 1 .. n /\ i - 1 \notin bad
    BY <1>1, <2>2, <2>4
  <2>6. f[i - 1] \in Seq(S) /\ path[i] \in T
    BY <1>2, <2>5
  <2>7. Push(IsAbs(path), f[i - 1], path[i]) \in Seq(S)
    BY <2>6, PushInSeq DEF S
  <2> QED
    BY <1>3, <2>2, <2>5, <2>7
<1>5. f[n] \in Seq(S)
  <2>1. n \in 0 .. n
    BY <1>1
  <2> QED
    BY <1>4, <2>1
<1>6. f[n] \in Seq(T)
  <2>1. S \subseteq T
    BY DEF S, Solid
  <2> QED
    BY <1>5, <2>1, SeqMonotonic
<1>7. <<"", "">> \in Seq(T) /\ <<"">> \in Seq(T) /\ <<".">> \in Seq(T)
  BY DEF T
<1>8. <<"">> \o f[n] \in Seq(T)
  BY <1>6, <1>7, ConcatProperties
<1>9. Clean(path) \in Seq(T)
  BY <1>3, <1>6, <1>7, <1>8 DEF Rooted, IsAbs
<1> QED
  BY <1>9, SeqOfRange DEF IsPath

-----------------------------------------------------------------------------
\* What Clean keeps of the first segments of a path does not depend on the others.
LEMMA SameBelow ==
    ASSUME NEW T, NEW S, S = Solid(T), NEW root \in Seq(T), NEW rel \in Seq(T), NEW f, NEW g,
           PushedOn(f, <<>>, root \o rel), PushedOn(g, <<>>, root)
    PROVE  f[Len(root)] = g[Len(root)] /\ g[Len(root)] \in Seq(S)
<1> DEFINE m == Len(root)
<1>1. /\ m \in Nat /\ Len(root \o rel) \in Nat /\ m <= Len(root \o rel)
      /\ \A i \in 1 .. m : (root \o rel)[i] = root[i] /\ root[i] \in T
  BY ConcatProperties, LenProperties, ElementOfSeq
<1>3. f[0] = <<>> /\ \A i \in 1 .. Len(root \o rel) : f[i] = AbsPush(f[i - 1], (root \o rel)[i])
  BY DEF PushedOn
<1>4. g[0] = <<>> /\ \A i \in 1 .. m : g[i] = AbsPush(g[i - 1], root[i])
  BY DEF PushedOn
<1> DEFINE bad == {i \in 0 .. m : ~ (f[i] = g[i] /\ g[i] \in Seq(S))}
<1>2. ASSUME bad # {}
      PROVE  FALSE
  <2>1. bad \in SUBSET Nat
    BY <1>1
  <2>2. PICK i \in bad : \A x \in bad : i <= x
    BY <1>2, <2>1, LeastExists
  <2>3. i # 0
    BY <1>3, <1>4, <2>2, EmptySeq
  <2>4. i - 1 \in 0 .. m /\ i \in 1 .. m /\ i \in 1 .. Len(root \o rel) /\ i - 1 \notin bad
    BY <1>1, <2>2, <2>3
  <2>5. f[i - 1] = g[i - 1] /\ g[i - 1] \in Seq(S)
    BY <2>4
  <2>6. f[i] = AbsPush(g[i - 1], root[i])
    BY <1>1, <1>3, <2>4, <2>5
  <2>7. g[i] = AbsPush(g[i - 1], root[i])
    BY <1>4, <2>4
  <2>8. AbsPush(g[i - 1], root[i]) \in Seq(S)
    BY <1>1, <2>4, <2>5, PushesInSeq
  <2> QED
    BY <2>2, <2>6, <2>7, <2>8
<1> QED
  <2>1. m \in 0 .. m
    BY <1>1
  <2> QED
    BY <1>2, <2>1

\* Either the path leads up, or both go together.
LEMMA PushedTogether ==
    ASSUME NEW T, NEW S, S = Solid(T), NEW rel \in Seq(T), NEW base \in Seq(S),
           NEW f, PushedOn(f, base, rel), NEW k, PushedAlone(k, rel)
    PROVE  k[Len(rel)] \in Seq(S) /\ (Up(k[Len(rel)]) \/ f[Len(rel)] = base \o k[Len(rel)])
<1>0. PICK n \in Nat : n = Len(rel)
  BY LenProperties
<1>6. /\ \A i \in 1 .. n : rel[i] \in T
      /\ f[0] = base /\ \A i \in 1 .. n : f[i] = AbsPush(f[i - 1], rel[i])
      /\ k[0] = <<>> /\ \A i \in 1 .. n : k[i] = RelPush(k[i - 1], rel[i])
  BY <1>0, ElementOfSeq DEF PushedOn, PushedAlone
<1> DEFINE Together(i) == /\ k[i] \in Seq(S)
                          /\ Up(k[i]) \/ (Down(k[i]) /\ f[i] = base \o k[i])
           bad == {i \in 0 .. n : ~Together(i)}
<1>1. Together(0)
  <2>1. <<>> \in Seq(S) /\ base \o <<>> = base
    BY EmptySeq, ConcatEmptySeq
  <2>3. Down(<<>>)
    BY DEF Down, Range
  <2> QED
    BY <1>6, <2>1, <2>3
<1>2. ASSUME NEW i \in 1 .. n, Together(i - 1)
      PROVE  Together(i)
  <2>1. k[i] = RelPush(k[i - 1], rel[i]) /\ rel[i] \in T /\ f[i] = AbsPush(f[i - 1], rel[i])
    BY <1>6
  <2>2. PICK out, x, g : out = k[i - 1] /\ x = rel[i] /\ g = f[i - 1]
    OBVIOUS
  <2>3. k[i] = RelPush(out, x) /\ x \in T /\ f[i] = AbsPush(g, x)
    BY <2>1, <2>2
  <2>4. out \in Seq(S) /\ (Up(out) \/ (Down(out) /\ g = base \o out))
    BY <1>2, <2>2
  <2>5. PICK y, z : y = k[i] /\ z = f[i]
    OBVIOUS
  <2> SUFFICES y \in Seq(S) /\ (Up(y) \/ (Down(y) /\ z = base \o y))
    BY <2>5
  <2>6. y = RelPush(out, x) /\ z = AbsPush(g, x)
    BY <2>3, <2>5
  <2> HIDE DEF Together
  <2>7. y \in Seq(S)
    BY <2>3, <2>4, <2>6, PushesInSeq
  <2>8. CASE x = ""
    BY <2>4, <2>6, <2>7, <2>8 DEF AbsPush, RelPush, Push
  <2>9. CASE x # ""
    <3>1. x \in S
      BY <2>3, <2>9 DEF Solid
    <3>2. CASE Up(out)
      BY <2>4, <2>6, <2>7, <3>1, <3>2, PushUp
    <3>3. CASE Down(out) /\ g = base \o out
      <4>1. \/ Up(RelPush(out, x))
            \/ /\ Down(RelPush(out, x))
               /\ AbsPush(base \o out, x) = base \o RelPush(out, x)
        BY <2>4, <3>1, <3>3, PushDown
      <4> QED
        BY <2>6, <2>7, <3>3, <4>1
    <3> QED
      BY <2>4, <3>2, <3>3
  <2> QED
    BY <2>8, <2>9
<1> HIDE DEF Together
<1>3. ASSUME bad # {}
      PROVE  FALSE
  <2>0. bad \in SUBSET Nat
    OBVIOUS
  <2>1. PICK i \in bad : \A x \in bad : i <= x
    BY <1>3, <2>0, LeastExists
  <2>2. i \in 0 .. n /\ i # 0 /\ ~Together(i)
    BY <1>1, <2>1
  <2>3. i \in 1 .. n /\ i - 1 \in 0 .. n /\ ~ (i <= i - 1)
    BY <2>2
  <2>4. Together(i - 1)
    BY <2>1, <2>3
  <2> QED
    BY <1>2, <2>2, <2>3, <2>4
<1>4. n \in 0 .. n
  OBVIOUS
<1>5. Together(n)
  BY <1>3, <1>4
<1> QED
  BY <1>0, <1>5 DEF Together

\* A safe path that is joined to a directory is cleaned below it.
LEMMA JoinIsBelow ==
    ASSUME NEW T, NEW S, S = Solid(T), NEW root \in Seq(T), IsAbs(root), NEW rel \in Seq(T), Safe(rel), NEW g,
           PushedOn(g, <<>>, root)
    PROVE  /\ g[Len(root)] \in Seq(S)
           /\ \E out \in Seq(S) : Clean(rel) = RelRooted(out) /\ Join(root, rel) = AbsRooted(g[Len(root)] \o out)
<1>1. PICK m, n, path : m = Len(root) /\ n = Len(rel) /\ path = root \o rel
  OBVIOUS
<1>2. m \in Nat /\ n \in Nat
  BY <1>1, LenProperties
<1>3. /\ path \in Seq(T) /\ Len(path) = m + n
      /\ \A i \in 1 .. m + n : path[i] = IF i <= m THEN root[i] ELSE rel[i - m]
  BY <1>1, ConcatProperties, LenProperties
<1>4. \A i \in 1 .. n : rel[i] \in T
  BY <1>1, ElementOfSeq
<1>5. IsPath(path) /\ IsPath(rel)
  BY <1>3, SeqOfRange DEF IsPath
<1>6. m > 1 /\ root[1] = "" /\ ~IsAbs(rel)
  <2>1. ~IsAbs(rel)
    BY DEF Safe
  <2> QED
    BY <1>1, <2>1 DEF IsAbs
<1>7. IsAbs(path)
  <2>0. m > 1
    BY <1>6
  <2>1. m + n > 1 /\ 1 \in 1 .. m + n /\ 1 <= m
    BY <1>2, <2>0
  <2>2. path[1] = "" /\ Len(path) > 1
    BY <1>3, <1>6, <2>1
  <2> QED
    BY <2>2 DEF IsAbs
<1>8. PICK f : PushedOn(f, <<>>, path) /\ Clean(path) = AbsRooted(f[Len(path)])
  BY <1>5, <1>7, AbsKeeps
<1>9. PICK k : PushedAlone(k, rel) /\ Clean(rel) = RelRooted(k[Len(rel)])
  BY <1>5, <1>6, RelKeeps
<1>10. f[m] = g[m] /\ g[m] \in Seq(S)
  <2>1. PushedOn(f, <<>>, root \o rel)
    BY <1>1, <1>8
  <2>2. f[Len(root)] = g[Len(root)] /\ g[Len(root)] \in Seq(S)
    BY <2>1, SameBelow
  <2> QED
    BY <1>1, <2>2
<1>15. \A i \in 1 .. m + n : f[i] = AbsPush(f[i - 1], path[i])
  BY <1>3, <1>8 DEF PushedOn
<1>11. \A i \in 1 .. n : f[m + i] = AbsPush(f[m + (i - 1)], rel[i])
  <2> SUFFICES ASSUME NEW i \in 1 .. n
               PROVE  f[m + i] = AbsPush(f[m + (i - 1)], rel[i])
    OBVIOUS
  <2>1. m + i \in 1 .. m + n /\ ~ (m + i <= m) /\ m + i - 1 = m + (i - 1) /\ m + i - m = i
    BY <1>2
  <2>2. PICK j : j = m + i
    OBVIOUS
  <2>6. j \in Int
    BY <1>2, <2>2
  <2>3. j \in 1 .. m + n /\ ~ (j <= m) /\ j - 1 = m + (i - 1) /\ j - m = i
    BY <1>2, <2>1, <2>2, <2>6
  <2>4. f[j] = AbsPush(f[j - 1], path[j])
    BY <1>15, <2>3
  <2>5. path[j] = rel[j - m]
    BY <1>3, <2>3
  <2> QED
    BY Zenon, <2>2, <2>3, <2>4, <2>5
<1>12. k[n] \in Seq(S) /\ (Up(k[n]) \/ f[m + n] = g[m] \o k[n])
  <2>1. PICK base : base = g[m]
    OBVIOUS
  <2>2. base \in Seq(S) /\ f[m] = base
    BY <1>10, <2>1
  <2>3. PICK h : h = [i \in 0 .. n |-> f[m + i]]
    OBVIOUS
  <2>4. h[0] = base /\ h[n] = f[m + n]
    BY <1>2, <2>2, <2>3
  <2>5. \A i \in 1 .. n : h[i] = AbsPush(h[i - 1], rel[i])
    <3> SUFFICES ASSUME NEW i \in 1 .. n
                 PROVE  h[i] = AbsPush(h[i - 1], rel[i])
      OBVIOUS
    <3>1. i \in 0 .. n /\ i - 1 \in 0 .. n
      BY <1>2
    <3>2. h[i] = f[m + i] /\ h[i - 1] = f[m + (i - 1)]
      BY <2>3, <3>1
    <3> QED
      BY <1>11, <3>2
  <2>6. PushedOn(h, base, rel)
    BY <1>1, <2>4, <2>5 DEF PushedOn
  <2>7. k[Len(rel)] \in Seq(S) /\ (Up(k[Len(rel)]) \/ h[Len(rel)] = base \o k[Len(rel)])
    BY <1>9, <2>2, <2>6, PushedTogether
  <2>8. k[n] \in Seq(S) /\ (Up(k[n]) \/ h[n] = base \o k[n])
    BY <1>1, <2>7
  <2> QED
    BY <2>1, <2>4, <2>8
<1>13. ~Up(k[n])
  <2>1. Clean(rel)[1] # ".."
    BY DEF Safe, HasTraversal
  <2>2. Up(k[n]) => k[n] # <<>> /\ k[n][1] = ".."
    BY DEF Up
  <2>3. k[n] # <<>> => Clean(rel) = k[n]
    BY <1>1, <1>9 DEF RelRooted, Rooted
  <2> QED
    BY <2>1, <2>2, <2>3
<1>14. Join(root, rel) = AbsRooted(g[m] \o k[n])
  <2>1. Clean(path) = AbsRooted(f[m + n])
    BY <1>3, <1>8
  <2> QED
    BY <1>1, <1>12, <1>13, <2>1 DEF Join
<1> QED
  BY <1>1, <1>9, <1>10, <1>12, <1>14

\* A segment and what follows it.
LEMMA ConsInjective ==
    ASSUME NEW T, NEW x \in T, NEW s \in Seq(T)
    PROVE  /\ <<x>> \in Seq(T) /\ \A t \in Seq(T) : <<x>> \o s = <<x>> \o t => s = t
           /\ s # <<>> => s[1] \in T /\ (<<x>> \o s)[2] = s[1]
<1>1. <<x>> \in Seq(T) /\ Len(<<x>>) = 1
  OBVIOUS
<1>2. PICK e : e = <<x>>
  OBVIOUS
<1>3. e \in Seq(T) /\ Len(e) = 1
  BY <1>1, <1>2
<1>4. \A t \in Seq(T) : e \o s = e \o t => s = t
  BY <1>3, ConcatSimplifications
<1>5. ASSUME s # <<>>
      PROVE  s[1] \in T /\ (e \o s)[2] = s[1]
  <2>1. Len(s) \in Nat /\ Len(s) # 0
    BY <1>5, EmptySeq, LenProperties
  <2>2. 1 \in 1 .. Len(s) /\ 2 \in 1 .. 1 + Len(s) /\ ~ (2 <= 1) /\ 2 - 1 = 1
    BY <2>1
  <2>3. (e \o s)[2] = IF 2 <= Len(e) THEN e[2] ELSE s[2 - Len(e)]
    <3>1. PICK k, n : k = 2 /\ n = Len(e) + Len(s)
      OBVIOUS
    <3>2. k \in 1 .. n
      BY <1>3, <2>2, <3>1
    <3>3. (e \o s)[k] = IF k <= Len(e) THEN e[k] ELSE s[k - Len(e)]
      BY <1>3, <3>1, <3>2, ConcatProperties
    <3> QED
      BY <3>1, <3>3
  <2>4. s[1] \in T
    BY <2>2, ElementOfSeq
  <2> QED
    BY <1>3, <2>2, <2>3, <2>4
<1> QED
  BY <1>2, <1>3, <1>4, <1>5

\* What is solid has no empty segments.
LEMMA SolidStays ==
    ASSUME NEW T
    PROVE  /\ "" \in T \union {""} /\ Solid(T) \subseteq T \union {""}
           /\ \A x \in Solid(T) : x # ""
BY Zenon DEF Solid

\* A root with nothing below it differs from one with something below it.
LEMMA RootedInjective ==
    ASSUME NEW T, NEW S, S = Solid(T), NEW p \in Seq(S), NEW q \in Seq(S), AbsRooted(p) = AbsRooted(q)
    PROVE  p = q
<1>1. PICK W, e : W = T \union {""} /\ e = ""
  OBVIOUS
<1>2. e \in W /\ S \subseteq W /\ \A x \in S : x # e
  BY <1>1, SolidStays
<1>3. p \in Seq(W) /\ q \in Seq(W)
  BY <1>2, SeqMonotonic
<1>4. /\ p = <<>> => AbsRooted(p) = <<e, e>>
      /\ p # <<>> => AbsRooted(p) = <<e>> \o p
      /\ q = <<>> => AbsRooted(q) = <<e, e>>
      /\ q # <<>> => AbsRooted(q) = <<e>> \o q
  BY <1>1 DEF AbsRooted, RelRooted, Rooted
<1>5. <<e, e>>[2] = e
  OBVIOUS
<1>6. ASSUME NEW s \in Seq(S), s \in Seq(W), s # <<>>
      PROVE  <<e>> \o s # <<e, e>>
  <2>1. (<<e>> \o s)[2] = s[1]
    BY <1>2, <1>6, ConsInjective
  <2>2. s[1] \in S
    <3>1. Len(s) \in Nat /\ Len(s) # 0
      BY <1>6, EmptySeq, LenProperties
    <3>2. 1 \in 1 .. Len(s)
      BY <3>1
    <3> QED
      BY <3>2, ElementOfSeq
  <2>3. s[1] # e
    BY <1>2, <2>2
  <2> QED
    BY <1>5, <2>1, <2>3
<1>7. p # <<>> /\ q # <<>> => p = q
  <2>1. \A t \in Seq(W) : <<e>> \o p = <<e>> \o t => p = t
    BY <1>2, <1>3, ConsInjective
  <2> QED
    BY <1>3, <1>4, <2>1
<1>8. ~ (p = <<>> /\ q # <<>>)
  BY <1>3, <1>4, <1>6
<1>9. ~ (p # <<>> /\ q = <<>>)
  BY <1>3, <1>4, <1>6
<1> QED
  BY <1>7, <1>8, <1>9

\* Safe paths that are joined to one directory and give one path clean to one path
\* (what InstallResourcePayload writes, and what was compared before).
LEMMA JoinInjective ==
    ASSUME NEW root, IsPath(root), IsAbs(root), NEW a, IsPath(a), Safe(a), NEW b, IsPath(b), Safe(b),
           Join(root, a) = Join(root, b)
    PROVE  Clean(a) = Clean(b)
<1>1. PICK g : PushedOn(g, <<>>, root)
  BY AbsKeeps
<1>2. PICK T : T = Range(root) \union Range(a) \union Range(b)
  OBVIOUS
<1>13. PICK S : S = Solid(T)
  OBVIOUS
<1>3. Range(root) \subseteq T /\ Range(a) \subseteq T /\ Range(b) \subseteq T
  BY <1>2
<1>4. root \in Seq(T) /\ a \in Seq(T) /\ b \in Seq(T)
  BY <1>3, SeqMonotonic DEF IsPath
<1>5. PICK base : base = g[Len(root)]
  OBVIOUS
<1>6. base \in Seq(S) /\ \E x \in Seq(S) : Clean(a) = RelRooted(x) /\ Join(root, a) = AbsRooted(base \o x)
  <2>1. /\ g[Len(root)] \in Seq(S)
        /\ \E x \in Seq(S) : Clean(a) = RelRooted(x) /\ Join(root, a) = AbsRooted(g[Len(root)] \o x)
    BY <1>1, <1>13, <1>4, JoinIsBelow
  <2> QED
    BY <1>5, <2>1
<1>7. base \in Seq(S) /\ \E y \in Seq(S) : Clean(b) = RelRooted(y) /\ Join(root, b) = AbsRooted(base \o y)
  <2>1. /\ g[Len(root)] \in Seq(S)
        /\ \E y \in Seq(S) : Clean(b) = RelRooted(y) /\ Join(root, b) = AbsRooted(g[Len(root)] \o y)
    BY <1>1, <1>13, <1>4, JoinIsBelow
  <2> QED
    BY <1>5, <2>1
<1>8. PICK x \in Seq(S) : Clean(a) = RelRooted(x) /\ Join(root, a) = AbsRooted(base \o x)
  BY <1>6
<1>9. PICK y \in Seq(S) : Clean(b) = RelRooted(y) /\ Join(root, b) = AbsRooted(base \o y)
  BY <1>7
<1>10. base \o x \in Seq(S) /\ base \o y \in Seq(S)
  BY <1>6, ConcatProperties
<1>11. base \o x = base \o y
  BY <1>13, <1>8, <1>9, <1>10, RootedInjective
<1>12. x = y
  BY <1>6, <1>11, ConcatSimplifications
<1> QED
  BY <1>8, <1>9, <1>12

-----------------------------------------------------------------------------
(***************************************************************************)
(* The tool.  What it resolves is in the store, so that it can be fetched; *)
(* what is fetched is laid in the payload, record by record, and no two of *)
(* them meet, as the paths they are joined to differ.                      *)
(***************************************************************************)
Fields == {"pc", "resolves", "version", "todo", "asset", "made", "payload", "failure"}

\* What the records of a lock may be relied on for.
Sound(r) ==
    /\ r.package \in Range(Packages) /\ r.url \in URLs
    /\ \A f \in r.files : IsPath(f.destination)

OnePerPackage(records) == \A r, s \in records : r.package = s.package => r = s

\* The records that were resolved, from bytes the store still has, and the packages
\* that are left.
Making ==
    /\ IsFiniteSet(job.made) /\ OnePerPackage(job.made)
    /\ \A r \in job.made : Sound(r) /\ r.checksum \in seen[r.url] /\ FetchResource(r, r.checksum).ok
    /\ job.pc \in {"resolve", "resolving"} =>
          /\ job.version \in RuntimeVersions
          /\ job.todo \subseteq Offering(job.version)
          /\ \A r \in job.made, i \in job.todo : r.package # Packages[i]
    /\ job.pc = "resolving" =>
          job.todo # {} /\ job.asset.url \in URLs /\ AssetAllowed(job.asset.size)

\* The lock is what was resolved, in this operation or in an earlier one.
Locking ==
    /\ IsFiniteSet(lock) /\ OnePerPackage(lock)
    /\ \A r \in lock : Sound(r) /\ Valid(r)
    /\ job.resolves /\ job.pc \in {"restore", "fetch", "fetching"} => lock = job.made

\* A record is laid in the payload.
Laid(r, payload) ==
    \A f \in r.files : f.destination \in DOMAIN payload /\ payload[f.destination] = f.checksum

\* A destination is one of a record of the lock.
Meant(d) == \E r \in lock : \E f \in r.files : f.destination = d

Fetching ==
    /\ job.pc \in {"resolve", "resolving", "restore"} => DOMAIN job.payload = {}
    /\ job.pc \in {"fetch", "fetching"} =>
          /\ DestinationsDiffer(lock)
          /\ job.todo \subseteq DOMAIN Packages
          /\ \A i \in job.todo : \E r \in lock : r.package = Packages[i]
          /\ \A r \in lock : Laid(r, job.payload) \/ \E i \in job.todo : r.package = Packages[i]
          /\ \A d \in DOMAIN job.payload : Meant(d)
          /\ job.pc = "fetching" => job.todo # {}

\* The tool waits for a download, or has what readers of the URL are given.
Waits(u) ==
    /\ call[Tool].url = u
    /\ call[Tool].pc \notin {"closeLock", "closing"}
    /\ call[Tool].pc = "idle" => call[Tool].bytes = None \/ call[Tool].bytes \in seen[u]

Asked ==
    /\ job.pc = "resolving" => Waits(job.asset.url)
    /\ job.pc = "fetching" => Waits(RecordOf(First(job.todo)).url)

\* Every file of a record is in the project.
Placed(r) ==
    \A f \in r.files : LET path == Join(Project, f.destination)
                       IN path \in DOMAIN tree /\ tree[path] = f.checksum

Outcome ==
    /\ job.pc \notin {"close", "closing", "idle"} => job.failure = ""
    /\ job.pc \in {"close", "closing", "idle"} /\ job.failure = "" => \A r \in lock : Placed(r)
    /\ ResolvedRestores

JobInv ==
    /\ DOMAIN job = Fields /\ offers \in DOMAIN Offers
    /\ Making /\ Locking /\ Fetching /\ Asked /\ Outcome

ToolInv == StoreInv /\ JobInv

-----------------------------------------------------------------------------
\* One segment, and three, are a path.
LEMMA FewArePath ==
    ASSUME NEW x, NEW y, NEW z
    PROVE  IsPath(<<x>>) /\ IsPath(<<x, y, z>>)
<1>1. <<x>> \in Seq({x}) /\ <<x, y, z>> \in Seq({x, y, z})
  OBVIOUS
<1> QED
  BY <1>1, SeqOfRange DEF IsPath

\* So is what is joined of paths.
LEMMA JoinIsPath ==
    ASSUME NEW a, NEW b, IsPath(a), IsPath(b)
    PROVE  IsPath(Join(a, b))
<1>1. PICK T : T = Range(a) \union Range(b)
  OBVIOUS
<1>2. Range(a) \subseteq T /\ Range(b) \subseteq T
  BY <1>1
<1>3. a \in Seq(T) /\ b \in Seq(T)
  BY <1>2, SeqMonotonic DEF IsPath
<1>4. a \o b \in Seq(T)
  BY <1>3, ConcatProperties
<1>5. IsPath(a \o b)
  BY <1>4, SeqOfRange DEF IsPath
<1> QED
  BY <1>5, CleanIsPath DEF Join

\* A destination in the manifest gives paths.
Placing(resource) ==
    /\ DOMAIN resource.files \subseteq Nat
    /\ \A j \in DOMAIN resource.files : IsPath(resource.files[j][2])

\* So is where a file goes.
LEMMA DestinationIsPath ==
    ASSUME NEW package, NEW resource, Placing(resource), NEW source,
           NEW d \in ResourceFileDestination(package, resource, source)
    PROVE  IsPath(d) /\ \A e \in ResourceFileDestination(package, resource, source) : e = d
<1> DEFINE name == <<Last(source)>>
           plugin == Join(ResourceBinaryDirectory(package.kind), name)
           header == Join(ResourceIncludeDirectory(package, resource.name), name)
           matching == {i \in DOMAIN resource.files : source \in resource.files[i][1].hits}
           first == CHOOSE i \in matching : \A j \in matching : i <= j
           mapped == MappedTo(resource.files[first][2], source)
<1>1. IsPath(name) /\ IsPath(plugin) /\ IsPath(header)
  <2>1. IsPath(name)
    BY FewArePath
  <2>2. IsPath(ResourceBinaryDirectory(package.kind))
    BY FewArePath DEF ResourceBinaryDirectory
  <2>3. IsPath(ResourceIncludeDirectory(package, resource.name))
    BY FewArePath DEF ResourceIncludeDirectory
  <2> HIDE DEF name
  <2> QED
    BY <2>1, <2>2, <2>3, JoinIsPath
<1>2. ASSUME matching # {}
      PROVE  IsPath(mapped)
  <2>1. matching \in SUBSET Nat
    BY DEF Placing
  <2>2. first \in matching
    BY <1>2, <2>1, LeastExists
  <2>3. IsPath(resource.files[first][2])
    BY <2>2 DEF Placing
  <2> QED
    BY <1>1, <2>3, JoinIsPath DEF MappedTo
<1>3. d = plugin \/ d = header \/ (matching # {} /\ d = mapped)
  BY DEF ResourceFileDestination
<1>4. \A e \in ResourceFileDestination(package, resource, source) : e = d
  BY DEF ResourceFileDestination
<1> QED
  BY <1>1, <1>2, <1>3, <1>4

\* A mapped file is what a file is mapped to, and nothing else is.
MappedFrom(m, f) == m.source = f.name /\ m.size = Signed(f.size) /\ m.checksum = f.content
OnlyFrom(m, f, all) == MappedFrom(m, f) /\ \A n \in all : MappedFrom(n, f) => n = m

\* What is mapped comes from the files, and one file from one.
LEMMA MappedFiles ==
    ASSUME NEW package, NEW resource, Placing(resource), NEW among,
           NEW mapped, mapped = MapResourceFiles(package, resource, among)
    PROVE  /\ mapped.ok => mapped.files # {}
           /\ \A m \in mapped.files :
                 /\ IsPath(m.destination)
                 /\ \E f \in among : OnlyFrom(m, f, mapped.files)
<1> DEFINE r == ApplyPluginBasenameFallback(resource, {f.name : f \in among})
           Chosen(f) == ResourceFileDestination(package, r, f.name)
           All == UNION {{[source |-> f.name, destination |-> d, size |-> Signed(f.size), checksum |-> f.content] :
                             d \in Chosen(f)} : f \in among}
<1>1. Placing(r)
  <2>1. r.files = resource.files
    BY DEF ApplyPluginBasenameFallback
  <2> HIDE DEF r
  <2> QED
    BY <2>1 DEF Placing
<1>2. mapped.files = All /\ (mapped.ok => All # {})
  BY DEF MapResourceFiles
<1> HIDE DEF r
<1>3. \A m \in All : \E f \in among : \E d \in Chosen(f) :
          m = [source |-> f.name, destination |-> d, size |-> Signed(f.size), checksum |-> f.content]
  OBVIOUS
<1> HIDE DEF All
<1>4. ASSUME NEW m \in All
      PROVE  /\ IsPath(m.destination)
             /\ \E f \in among : OnlyFrom(m, f, All)
  <2>1. PICK f \in among : \E d \in Chosen(f) :
            m = [source |-> f.name, destination |-> d, size |-> Signed(f.size), checksum |-> f.content]
    BY <1>3
  <2>4. PICK d \in Chosen(f) : m = [source |-> f.name, destination |-> d, size |-> Signed(f.size), checksum |-> f.content]
    BY <2>1
  <2>2. IsPath(d) /\ \A e \in Chosen(f) : e = d
    BY <1>1, DestinationIsPath
  <2>3. ASSUME NEW n \in All, n.source = f.name, n.size = Signed(f.size), n.checksum = f.content
        PROVE  n = m
    <3>0. PICK g \in among : \E e \in Chosen(g) :
              n = [source |-> g.name, destination |-> e, size |-> Signed(g.size), checksum |-> g.content]
      BY <1>3
    <3>1. PICK e \in Chosen(g) : n = [source |-> g.name, destination |-> e, size |-> Signed(g.size), checksum |-> g.content]
      BY <3>0
    <3>2. g.name = f.name /\ Signed(g.size) = Signed(f.size) /\ g.content = f.content
      BY <2>3, <3>1
    <3>3. e \in Chosen(f)
      BY <3>1, <3>2
    <3>4. e = d
      BY <2>2, <3>3
    <3> QED
      BY <2>4, <3>1, <3>2, <3>4
  <2> QED
    BY <2>2, <2>3, <2>4 DEF OnlyFrom, MappedFrom
<1> QED
  BY <1>2, <1>4

\* The entries of an archive that is read have different names, in whatever letters.
LEMMA NamedOnce ==
    ASSUME NEW bytes \in DOMAIN Data, Listable(Data[bytes].entries),
           NEW i \in DOMAIN Data[bytes].entries, NEW j \in DOMAIN Data[bytes].entries,
           Lower(Data[bytes].entries[i].name) = Lower(Data[bytes].entries[j].name)
    PROVE  i = j
<1>1. PICK entries, n : entries = Data[bytes].entries /\ n = Len(entries)
  OBVIOUS
<1>2. n \in Nat /\ DOMAIN entries = 1 .. n
  BY <1>1, RecordAssumption, LenProperties
<1>3. \A k \in 1 .. n : \A l \in 1 .. (k - 1) : Lower(entries[k].name) # Lower(entries[l].name)
  BY <1>1, <1>2 DEF Listable
<1>4. i \in 1 .. n /\ j \in 1 .. n /\ Lower(entries[i].name) = Lower(entries[j].name)
  BY <1>1, <1>2
<1>5. ~ (j \in 1 .. (i - 1)) /\ ~ (i \in 1 .. (j - 1))
  BY <1>3, <1>4
<1> QED
  BY <1>2, <1>4, <1>5

\* What ResolveResourceRecord accepts FetchResource accepts of the same bytes.
LEMMA ResolvedFetches ==
    ASSUME NEW package \in Range(Packages), NEW resource, Placing(resource), NEW asset, asset.url \in URLs, AssetAllowed(asset.size),
           NEW bytes \in DOMAIN Data,
           NEW resolved, resolved = ResolveResourceRecord(package, resource, asset, bytes), resolved.ok
    PROVE  /\ Sound(resolved.record) /\ FetchResource(resolved.record, bytes).ok
           /\ resolved.record.package = package
           /\ resolved.record.url = asset.url /\ resolved.record.checksum = bytes
<1>1. PICK entries, format : /\ entries = Data[bytes].entries
                             /\ format = IF resource.archive THEN ArchiveFormat(asset.suffix, Data[bytes].form) ELSE "file"
  OBVIOUS
<1>2. PICK whole : whole = [name |-> <<asset.name>>, size |-> Data[bytes].size, content |-> bytes]
  OBVIOUS
<1>3. PICK among : among = IF resource.archive THEN FilesAmong(entries) ELSE {whole}
  OBVIOUS
<1>4. PICK mapped : mapped = MapResourceFiles(package, resource, among)
  OBVIOUS
<1>5. /\ Data[bytes].size = asset.size /\ (resource.archive => Inspect(format, bytes)) /\ mapped.ok
      /\ resolved.record = [package |-> package, resource |-> resource.name, url |-> asset.url,
                            size |-> Data[bytes].size, checksum |-> bytes, archive |-> format,
                            files |-> mapped.files]
  BY <1>1, <1>2, <1>3, <1>4 DEF ResolveResourceRecord
<1>6. PICK r : r = resolved.record
  OBVIOUS
<1>7. /\ r.package = package /\ r.url = asset.url /\ r.checksum = bytes
      /\ r.size = Data[bytes].size /\ r.archive = format /\ r.files = mapped.files
  BY <1>5, <1>6
<1>8. /\ r.files # {}
      /\ \A m \in r.files :
            /\ IsPath(m.destination)
            /\ \E f \in among : OnlyFrom(m, f, r.files)
  <2>1. mapped.ok => mapped.files # {}
    BY <1>4, MappedFiles
  <2>2. \A m \in mapped.files :
            /\ IsPath(m.destination)
            /\ \E f \in among : OnlyFrom(m, f, mapped.files)
    BY <1>4, MappedFiles
  <2>3. r.files = mapped.files /\ mapped.ok
    BY <1>5, <1>7
  <2> QED
    BY <2>1, <2>2, <2>3
<1>9. Sound(r)
  BY <1>7, <1>8 DEF Sound
<1>10. CASE ~resource.archive
  <2>1. among = {whole} /\ format = "file"
    BY <1>1, <1>3, <1>10
  <2>2. Signed(Data[bytes].size) = Data[bytes].size
    <3>1. PICK size, half : size = asset.size /\ half = Wrap \div 2
      OBVIOUS
    <3>2. size \in 1 .. MaxBytes /\ MaxBytes \in Nat /\ MaxBytes < half /\ half \in Int
      BY <3>1, RecordAssumption DEF AssetAllowed
    <3>3. ~ (size >= half)
      BY <3>2
    <3> QED
      BY <1>5, <3>1, <3>3 DEF Signed
  <2>3. \A m \in r.files : /\ m.size = Data[bytes].size /\ m.checksum = bytes
                           /\ \A n \in r.files : n = m
    <3>1. whole.name = <<asset.name>> /\ whole.size = Data[bytes].size /\ whole.content = bytes
      BY <1>2
    <3>2. \A m \in r.files : /\ m.source = whole.name /\ m.size = Signed(whole.size) /\ m.checksum = whole.content
                             /\ \A n \in r.files : n.source = whole.name /\ n.size = Signed(whole.size) /\ n.checksum = whole.content => n = m
      BY <1>8, <2>1 DEF OnlyFrom, MappedFrom
    <3>3. \A m \in r.files : m.size = Data[bytes].size /\ m.checksum = bytes
      BY <2>2, <3>1, <3>2
    <3>4. \A m, n \in r.files : n = m
      BY <3>2
    <3> QED
      BY <3>3, <3>4
  <2>4. PICK m \in r.files : TRUE
    BY <1>8
  <2>5. r.files = {m}
    BY <2>3, <2>4
  <2>6. Cardinality(r.files) = 1
    BY <2>5, FS_Singleton
  <2>7. ReadFile(bytes, r)
    BY <2>3, <2>6 DEF ReadFile, VerifyResourceFile
  <2> QED
    BY <1>6, <1>7, <1>9, <2>1, <2>7 DEF FetchResource
<1>11. CASE resource.archive
  <2>1. among = FilesAmong(entries) /\ Inspect(format, bytes)
    BY <1>1, <1>3, <1>5, <1>11
  <2>2. /\ Listable(entries)
        /\ \/ format = "zip" /\ Data[bytes].form = "zip" /\ ZipTotal(entries) # TooLarge
           \/ format = "tar.gz" /\ Data[bytes].form = "tar.gz" /\ TarTotal(entries) # TooLarge
        /\ \A i \in DOMAIN entries : entries[i].kind = "file" => ReadExact(entries[i], Signed(entries[i].size))
    BY <1>1, <2>1 DEF Inspect, InspectZIP, InspectTar
  <2>3. \A m \in r.files : \E i \in DOMAIN entries :
            entries[i].kind = "file" /\ OnlyFrom(m, entries[i], r.files)
    <3>1. \A f \in among : \E i \in DOMAIN entries : entries[i].kind = "file" /\ f = entries[i]
      BY <2>1 DEF FilesAmong
    <3> QED
      BY <1>8, <3>1
  <2>4. Readable(bytes, r)
    <3> SUFFICES ASSUME NEW m \in r.files
                 PROVE  \E i \in Named(entries, m.source) :
                            /\ ReadExact(entries[i], m.size)
                            /\ VerifyResourceFile(m, m.size, entries[i].content)
      BY <1>1 DEF Readable
    <3>1. PICK i \in DOMAIN entries : /\ entries[i].kind = "file" /\ m.source = entries[i].name
                                      /\ m.size = Signed(entries[i].size) /\ m.checksum = entries[i].content
      BY <2>3 DEF OnlyFrom, MappedFrom
    <3>2. i \in Named(entries, m.source)
      BY <3>1 DEF Named
    <3>3. ReadExact(entries[i], m.size)
      BY <2>2, <3>1
    <3> QED
      BY <3>1, <3>2, <3>3 DEF VerifyResourceFile
  <2>5. \A m, n \in r.files : Lower(m.source) = Lower(n.source) => m = n
    <3> SUFFICES ASSUME NEW m \in r.files, NEW n \in r.files, Lower(m.source) = Lower(n.source)
                 PROVE  m = n
      OBVIOUS
    <3>1. PICK i \in DOMAIN entries : OnlyFrom(m, entries[i], r.files)
      BY <2>3
    <3>2. PICK j \in DOMAIN entries : OnlyFrom(n, entries[j], r.files)
      BY <2>3
    <3>3. i = j
      <4>1. m.source = entries[i].name /\ n.source = entries[j].name
        BY <3>1, <3>2 DEF OnlyFrom, MappedFrom
      <4> QED
        BY <1>1, <2>2, <4>1, NamedOnce
    <3> QED
      BY <3>1, <3>2, <3>3 DEF OnlyFrom
  <2>6. \/ format = "zip" /\ ReadZip(bytes, r)
        \/ format = "tar.gz" /\ ReadTar(bytes, r)
    BY <1>1, <2>2, <2>4, <2>5 DEF ReadZip, ReadTar
  <2> QED
    BY <1>6, <1>7, <1>9, <2>6 DEF FetchResource
<1> QED
  BY <1>10, <1>11

\* What FetchResource takes out of the bytes it accepts is what the record says.
LEMMA FetchedIsLaid ==
    ASSUME NEW r, NEW bytes \in DOMAIN Data, FetchResource(r, bytes).ok,
           \A f, g \in r.files : f.destination = g.destination => f = g
    PROVE  /\ Laid(r, FetchResource(r, bytes).payload)
           /\ \A d \in DOMAIN FetchResource(r, bytes).payload : \E f \in r.files : f.destination = d
<1>1. PICK payload, entries : payload = FetchResource(r, bytes).payload /\ entries = Data[bytes].entries
  OBVIOUS
<1>2. payload = [d \in {f.destination : f \in r.files} |->
                    ContentOf(bytes, r, CHOOSE f \in r.files : f.destination = d)]
  BY <1>1 DEF FetchResource, PayloadOf
<1>3. DOMAIN payload = {f.destination : f \in r.files}
  BY <1>2
<1>4. ASSUME NEW f \in r.files
      PROVE  f.destination \in DOMAIN payload /\ payload[f.destination] = f.checksum
  <2>1. (CHOOSE g \in r.files : g.destination = f.destination) = f
    OBVIOUS
  <2>2. f.destination \in DOMAIN payload /\ payload[f.destination] = ContentOf(bytes, r, f)
    BY <1>2, <2>1
  <2>3. CASE r.archive = "file"
    <3>1. ReadFile(bytes, r)
      BY <2>3 DEF FetchResource
    <3>2. bytes = f.checksum
      BY <3>1 DEF ReadFile, VerifyResourceFile
    <3>3. ContentOf(bytes, r, f) = bytes
      BY <2>3 DEF ContentOf
    <3> QED
      BY <2>2, <3>2, <3>3
  <2>4. CASE r.archive # "file"
    <3>1. Listable(entries) /\ Readable(bytes, r)
      BY <1>1, <2>4 DEF FetchResource, ReadZip, ReadTar
    <3>2. PICK i \in Named(entries, f.source) : f.checksum = entries[i].content
      BY <1>1, <3>1 DEF Readable, VerifyResourceFile
    <3>3. PICK named, j : named = Named(entries, f.source) /\ j = CHOOSE k \in named : TRUE
      OBVIOUS
    <3>4. named # {} /\ j \in named
      BY <3>2, <3>3
    <3>5. /\ i \in DOMAIN entries /\ j \in DOMAIN entries
          /\ Lower(entries[i].name) = Lower(entries[j].name)
      BY <3>2, <3>3, <3>4 DEF Named
    <3>6. i = j
      BY <1>1, <3>1, <3>5, NamedOnce
    <3>7. ContentOf(bytes, r, f) = entries[j].content
      BY <1>1, <2>4, <3>3, <3>4 DEF ContentOf
    <3> QED
      BY <2>2, <3>2, <3>6, <3>7
  <2> QED
    BY <2>3, <2>4
<1>5. Laid(r, payload)
  BY <1>4 DEF Laid
<1> QED
  BY <1>1, <1>3, <1>5

\* A record that is valid has one file for a destination.
LEMMA ValidDiffer ==
    ASSUME NEW r, Valid(r)
    PROVE  \A f, g \in r.files : f.destination = g.destination => f = g
BY DEF Valid

\* The files of two records that both lead to one path are one file.
LEMMA PathsDiffer ==
    ASSUME ToolAssumption, NEW records, DestinationsDiffer(records),
           \A r \in records : Sound(r) /\ Valid(r),
           NEW r \in records, NEW f \in r.files, NEW s \in records, NEW g \in s.files,
           Join(Project, f.destination) = Join(Project, g.destination)
    PROVE  r = s /\ f = g
<1>1. PICK a, b : a = f.destination /\ b = g.destination
  OBVIOUS
<1>2. IsPath(a) /\ IsPath(b)
  BY <1>1 DEF Sound
<1>3. Safe(a) /\ Safe(b)
  BY <1>1 DEF Valid, UnsafeResourcePath
<1>4. IsPath(Project) /\ IsAbs(Project)
  BY DEF ToolAssumption
<1>5. Join(Project, a) = Join(Project, b)
  BY <1>1
<1>6. Clean(a) = Clean(b)
  BY <1>2, <1>3, <1>4, <1>5, JoinInjective
<1> QED
  BY <1>1, <1>6 DEF DestinationsDiffer

\* The first of the packages that are left is one of them.
LEMMA FirstIsLeft ==
    ASSUME ToolAssumption, NEW todo, todo \subseteq DOMAIN Packages, todo # {}
    PROVE  First(todo) \in todo
<1>1. todo \in SUBSET Nat
  BY DEF ToolAssumption
<1> QED
  BY <1>1, LeastExists DEF First

\* What Install writes of a payload.
Written(payload) ==
    [path \in {Join(Project, d) : d \in DOMAIN payload} |->
        payload[CHOOSE d \in DOMAIN payload : Join(Project, d) = path]]

\* So what is written of the payload of a lock is every file of it.
LEMMA WrittenIsPlaced ==
    ASSUME ToolAssumption, DestinationsDiffer(lock), \A r \in lock : Sound(r) /\ Valid(r),
           NEW payload, \A r \in lock : Laid(r, payload), \A d \in DOMAIN payload : Meant(d),
           NEW r \in lock, NEW f \in r.files, NEW path, path = Join(Project, f.destination)
    PROVE  /\ path \in DOMAIN Over(Written(payload), tree)
           /\ Over(Written(payload), tree)[path] = f.checksum
<1>1. f.destination \in DOMAIN payload /\ payload[f.destination] = f.checksum
  BY DEF Laid
<1>2. ASSUME NEW d \in DOMAIN payload, Join(Project, d) = path
      PROVE  d = f.destination
  <2>1. PICK s \in lock : \E g \in s.files : g.destination = d
    BY <1>2 DEF Meant
  <2>2. PICK g \in s.files : g.destination = d
    BY <2>1
  <2>3. Join(Project, f.destination) = Join(Project, g.destination)
    BY <1>2, <2>2
  <2>4. r = s /\ f = g
    BY <2>3, PathsDiffer
  <2> QED
    BY <2>2, <2>4
<1>3. (CHOOSE d \in DOMAIN payload : Join(Project, d) = path) = f.destination
  BY <1>1, <1>2
<1>4. path \in {Join(Project, d) : d \in DOMAIN payload}
  BY <1>1
<1>5. path \in DOMAIN Written(payload) /\ Written(payload)[path] = f.checksum
  BY <1>1, <1>3, <1>4 DEF Written
<1> QED
  BY <1>5 DEF Over

-----------------------------------------------------------------------------
\* A step of a goroutine leaves the calls of the others alone, readers are given
\* nothing back, and a download ends with nothing or with what readers are given.
LEMMA StepAnswers ==
    ASSUME StoreInv, NEW t \in Threads, StoreStep(t)
    PROVE  /\ \A u \in URLs : seen[u] \subseteq seen'[u]
           /\ \A o \in Threads \ {t} : call'[o] = call[o]
           /\ \A u \in URLs : (call[t].url = u /\ call[t].pc \notin {"closeLock", "closing"}) =>
                 /\ call'[t].url = u
                 /\ call'[t].pc \notin {"closeLock", "closing"}
                 /\ call'[t].pc = "idle" => call'[t].bytes = None \/ call'[t].bytes \in seen'[u]
<1> USE StoreAssumption
<1>0. StoreTypeOK /\ Exclusion /\ Calling /\ Kept BY DEF StoreInv
<1> DEFINE Goal == /\ \A u \in URLs : seen[u] \subseteq seen'[u]
                   /\ \A o \in Threads \ {t} : call'[o] = call[o]
                   /\ \A u \in URLs : (call[t].url = u /\ call[t].pc \notin {"closeLock", "closing"}) =>
                         /\ call'[t].url = u
                         /\ call'[t].pc \notin {"closeLock", "closing"}
                         /\ call'[t].pc = "idle" => call'[t].bytes = None \/ call'[t].bytes \in seen'[u]
<1>1. ASSUME NEW bytes \in Bytes \union {None}, Return(t, bytes)
      PROVE  Goal
  <2>1. Moved(t, "idle", bytes)
    BY <1>0, <1>1, ReturnMoves
  <2>2. seen' = IF bytes = None THEN seen ELSE [seen EXCEPT ![call[t].url] = @ \union {bytes}]
    BY <1>1 DEF Return
  <2>3. \A u \in URLs : seen[u] \subseteq seen'[u]
    BY <1>0, <2>2 DEF StoreTypeOK
  <2>4. \A u \in URLs : call[t].url = u => bytes = None \/ bytes \in seen'[u]
    BY <1>0, <2>2 DEF StoreTypeOK
  <2> QED
    BY <2>1, <2>3, <2>4 DEF Moved
<1>2. ASSUME NEW step \in {"locked", "created", "copied"}, At(t, step), UNCHANGED seen
      PROVE  Goal
  <2>1. Moved(t, step, call[t].bytes)
    BY <1>0, <1>2, AtMoves DEF Steps
  <2> QED
    BY <1>2, <2>1 DEF Moved
<1>3. ASSUME NEW step \in {"closing", "idle"}, At(t, step), UNCHANGED seen, call[t].pc \in {"closeLock", "closing"}
      PROVE  Goal
  <2>1. Moved(t, step, call[t].bytes)
    BY <1>0, <1>3, AtMoves DEF Steps
  <2> QED
    BY <1>3, <2>1 DEF Moved
<1>4. ASSUME NEW b, call' = [call EXCEPT ![t].pc = "opened", ![t].bytes = b], UNCHANGED seen
      PROVE  Goal
  <2>1. call \in [Threads -> [pc : Steps, url : URLs \union {None}, bytes : Bytes \union {None}]]
    BY <1>0 DEF StoreTypeOK
  <2>2. /\ call'[t].pc = "opened" /\ call'[t].url = call[t].url
        /\ \A o \in Threads \ {t} : call'[o] = call[o]
    BY <1>4, <2>1
  <2> QED
    BY <1>4, <2>2
<1> SUFFICES Goal
  OBVIOUS
<1> HIDE DEF Goal
<1>5. CASE Lock(t)
  BY <1>2, <1>3, <1>5 DEF Lock
<1>6. CASE Refuse(t)
  BY <1>1, <1>6 DEF Refuse
<1>7. CASE Replay(t)
  <2>1. call[t].url \in URLs /\ files[call[t].url] \in Bytes
    BY <1>0, <1>7 DEF Replay, StoreTypeOK, Calling
  <2> QED
    BY <1>1, <1>7, <2>1 DEF Replay
<1>8. CASE Request(t)
  <2>1. CASE Return(t, None)
    BY <1>1, <2>1
  <2>2. CASE call' = [call EXCEPT ![t].pc = "opened", ![t].bytes = server[call[t].url]] /\ UNCHANGED <<mu, seen>>
    <3>1. UNCHANGED seen
      BY <2>2
    <3>2. PICK b : b = server[call[t].url]
      OBVIOUS
    <3>3. call' = [call EXCEPT ![t].pc = "opened", ![t].bytes = b]
      BY <2>2, <3>2
    <3> QED
      BY <1>4, <3>1, <3>3
  <2> QED
    BY <1>8, <2>1, <2>2 DEF Request
<1>9. CASE CreateTemp(t)
  BY <1>1, <1>2, <1>9 DEF CreateTemp
<1>10. CASE Copy(t)
  BY <1>1, <1>2, <1>10 DEF Copy, Discard
<1>11. CASE Keep(t)
  <2>1. call[t].bytes \in Bytes
    BY <1>0, <1>11 DEF Keep, Calling, Writing
  <2> QED
    BY <1>1, <1>11, <2>1 DEF Keep, Discard
<1>12. CASE RemoveStore(t)
  BY <1>3, <1>12 DEF RemoveStore
<1> QED
  BY <1>5, <1>6, <1>7, <1>8, <1>9, <1>10, <1>11, <1>12 DEF StoreStep

-----------------------------------------------------------------------------
\* The record that is fetched next is in the lock.
LEMMA NextRecord ==
    ASSUME ToolAssumption, Locking, Fetching, job.pc \in {"fetch", "fetching"}, job.todo # {}
    PROVE  /\ First(job.todo) \in job.todo
           /\ RecordOf(First(job.todo)) \in lock
           /\ RecordOf(First(job.todo)).package = Packages[First(job.todo)]
           /\ RecordOf(First(job.todo)).url \in URLs
<1>1. PICK i : i = First(job.todo)
  OBVIOUS
<1>2. job.todo \subseteq DOMAIN Packages /\ \A k \in job.todo : \E r \in lock : r.package = Packages[k]
  BY DEF Fetching
<1>3. i \in job.todo
  BY <1>1, <1>2, FirstIsLeft
<1>4. \E r \in lock : r.package = Packages[i]
  BY <1>2, <1>3
<1>5. RecordOf(i) \in lock /\ RecordOf(i).package = Packages[i]
  BY <1>4 DEF RecordOf
<1>6. RecordOf(i).url \in URLs
  BY <1>5 DEF Locking, Sound
<1> QED
  BY <1>1, <1>3, <1>5, <1>6

\* What the store and the server do keeps what the tool has.
LEMMA StoreOnly ==
    ASSUME ToolAssumption, ToolInv, UNCHANGED <<offers, lock, tree, job>>,
           \A u \in URLs : seen[u] \subseteq seen'[u],
           \A u \in URLs : Waits(u) => Waits(u)'
    PROVE  JobInv'
<1>1. offers' = offers /\ lock' = lock /\ tree' = tree /\ job' = job
  OBVIOUS
<1>2. Making /\ Locking /\ Fetching /\ Asked /\ Outcome /\ DOMAIN job = Fields /\ offers \in DOMAIN Offers
  BY DEF ToolInv, JobInv
<1>3. Making'
  <2>1. \A r \in job.made : r.checksum \in seen'[r.url]
    BY <1>2 DEF Making, Sound
  <2> QED
    BY <1>1, <1>2, <2>1 DEF Making, Offering
<1>4. Locking'
  BY <1>1, <1>2 DEF Locking
<1>5. Fetching'
  BY <1>1, <1>2 DEF Fetching, Meant
<1>6. Asked'
  <2>1. ASSUME job.pc = "resolving"
        PROVE  Waits(job.asset.url)'
    <3>1. PICK u \in URLs : u = job.asset.url
      BY <1>2, <2>1 DEF Making
    <3>2. Waits(u)
      BY <1>2, <2>1, <3>1 DEF Asked
    <3>3. Waits(u)'
      BY <3>2
    <3> QED
      BY <1>1, <3>1, <3>3 DEF Waits
  <2>2. ASSUME job.pc = "fetching"
        PROVE  Waits(RecordOf(First(job.todo)).url)'
    <3>1. PICK u \in URLs : u = RecordOf(First(job.todo)).url
      BY <1>2, <2>2, NextRecord DEF Fetching
    <3>2. Waits(u)
      BY <1>2, <2>2, <3>1 DEF Asked
    <3>3. Waits(u)'
      BY <3>2
    <3>4. u = RecordOf(First(job.todo)).url'
      BY <1>1, <3>1 DEF RecordOf
    <3> QED
      BY <3>3, <3>4 DEF Waits
  <2> QED
    BY <1>1, <2>1, <2>2 DEF Asked
<1>7. Outcome'
  BY <1>1, <1>2 DEF Outcome, Placed, ResolvedRestores
<1> QED
  BY <1>1, <1>2, <1>3, <1>4, <1>5, <1>6, <1>7 DEF JobInv

-----------------------------------------------------------------------------
\* What a step of the tool keeps that leaves the lock alone and loses nothing that
\* readers of the store are given.
LEMMA LockKept ==
    ASSUME ToolInv, UNCHANGED <<lock, offers>>, DOMAIN job' = Fields,
           job'.resolves /\ job'.pc \in {"restore", "fetch", "fetching"} =>
               job.resolves /\ job.pc \in {"restore", "fetch", "fetching"} /\ job'.made = job.made
    PROVE  DOMAIN job' = Fields /\ offers' \in DOMAIN Offers /\ Locking'
<1>1. Locking /\ offers \in DOMAIN Offers
  BY DEF ToolInv, JobInv
<1> QED
  BY <1>1 DEF Locking

\* The same for what was resolved, once the resolution is over.
LEMMA MadeKept ==
    ASSUME ToolInv, job'.made = job.made, UNCHANGED seen,
           job'.pc \notin {"resolve", "resolving"}
    PROVE  Making'
<1>1. Making
  BY DEF ToolInv, JobInv
<1> QED
  BY <1>1 DEF Making

\* An operation begins with nothing.
LEMMA BeginInv ==
    ASSUME ToolAssumption, ToolInv, NEW version \in RuntimeVersions, NEW resolves \in BOOLEAN, Begin(version, resolves)
    PROVE  JobInv'
<1>1. /\ DOMAIN job' = Fields
      /\ job'.pc = IF resolves THEN "resolve" ELSE "restore"
      /\ job'.resolves = resolves /\ job'.version = version
      /\ job'.todo = IF resolves THEN Offering(version) ELSE {}
      /\ job'.made = {} /\ job'.failure = "" /\ DOMAIN job'.payload = {}
  BY DEF Begin, NoJob, Fields
<1>2. UNCHANGED <<offers, lock, tree>>
  BY DEF Begin
<1>3. Locking'
  <2>1. Locking
    BY DEF ToolInv, JobInv
  <2> QED
    BY <1>1, <1>2, <2>1 DEF Locking
<1>4. Making'
  <2>1. IsFiniteSet({})
    BY FS_EmptySet
  <2> QED
    BY <1>1, <1>2, <2>1 DEF Making, OnePerPackage, Offering
<1>5. Fetching' /\ Asked' /\ Outcome'
  BY <1>1 DEF Fetching, Asked, Outcome, ResolvedRestores
<1>6. offers' \in DOMAIN Offers
  BY <1>2 DEF ToolInv, JobInv
<1> QED
  BY <1>1, <1>3, <1>4, <1>5, <1>6 DEF JobInv

\* An operation ends, with everything in its place or with an error.
LEMMA EndInv ==
    ASSUME ToolAssumption, ToolInv, NEW failure, End(failure), UNCHANGED store,
           failure = "" => \A r \in lock : Placed(r)',
           job.resolves => failure # "checksum" /\ (failure = "shared" => Cardinality(lock) > 1)
    PROVE  JobInv'
<1>1. /\ DOMAIN job' = Fields /\ job'.pc = "close" /\ job'.failure = failure
      /\ job'.resolves = job.resolves /\ job'.made = job.made
  BY DEF End, ToolInv, JobInv, Fields
<1>2. UNCHANGED <<offers, lock, seen>>
  BY DEF End, store
<1>3. DOMAIN job' = Fields /\ offers' \in DOMAIN Offers /\ Locking'
  BY <1>1, <1>2, LockKept
<1>4. Making'
  BY <1>1, <1>2, MadeKept
<1>5. Fetching' /\ Asked'
  BY <1>1 DEF Fetching, Asked
<1>6. Outcome'
  BY <1>1, <1>2 DEF Outcome, ResolvedRestores
<1> QED
  BY <1>3, <1>4, <1>5, <1>6 DEF JobInv

\* An error of any kind but these two needs no reason.
LEMMA FailInv ==
    ASSUME ToolAssumption, ToolInv, NEW failure, Fail(failure), failure # "",
           job.resolves => failure # "checksum" /\ (failure = "shared" => Cardinality(lock) > 1)
    PROVE  JobInv'
BY EndInv DEF Fail

\* An asset is requested for a package that offers a resource.
LEMMA SelectInv ==
    ASSUME ToolAssumption, ToolInv, Select
    PROVE  JobInv'
<1> USE DEF ToolInv, JobInv
<1>1. job.pc = "resolve" /\ job.todo # {}
  BY DEF Select
<1>2. job.todo \subseteq Offering(job.version) /\ Offering(job.version) \subseteq DOMAIN Packages
  BY <1>1 DEF Making, Offering
<1>3. PICK i : i = First(job.todo)
  OBVIOUS
<1>4. i \in job.todo /\ i \in DOMAIN Packages
  BY <1>1, <1>2, <1>3, FirstIsLeft
<1>5. ASSUME NEW a \in SelectReleaseAsset(Offered(i), Assets[i]), AssetAllowed(a.size),
             job' = [job EXCEPT !.pc = "resolving", !.asset = a],
             Download(Tool, a.url), UNCHANGED <<offers, lock, tree, view>>
      PROVE  JobInv'
  <2>1. a.url \in URLs
    <3>0. PICK resource, assets : resource = Offered(i) /\ assets = Assets[i]
      OBVIOUS
    <3>2. a \in SelectReleaseAsset(resource, assets)
      BY <1>5, <3>0
    <3>3. \E j \in DOMAIN assets : a = [name |-> assets[j].name, suffix |-> assets[j].suffix,
                                       url |-> assets[j].url, size |-> Data[server[assets[j].url]].size]
      BY <3>2 DEF SelectReleaseAsset
    <3>1. PICK j \in DOMAIN Assets[i] : a.url = Assets[i][j].url
      BY <3>0, <3>3
    <3> QED
      BY <1>4, <3>1 DEF ToolAssumption
  <2>2. /\ DOMAIN job' = Fields /\ job'.pc = "resolving" /\ job'.asset = a
        /\ job'.todo = job.todo /\ job'.made = job.made /\ job'.version = job.version
        /\ job'.failure = job.failure /\ job'.payload = job.payload
    BY <1>5 DEF Fields
  <2>3. UNCHANGED seen
    BY <1>5 DEF Download
  <2>4. Making'
    BY <1>1, <1>5, <2>1, <2>2, <2>3 DEF Making, Offering
  <2>5. Waits(a.url)'
    <3>1. Tool \in Threads /\ StoreTypeOK
      BY DEF ToolAssumption, StoreInv
    <3>2. call'[Tool] = [pc |-> "lock", url |-> a.url, bytes |-> None]
      BY <1>5, <3>1 DEF Download, StoreTypeOK
    <3> QED
      BY <3>2, <1>5 DEF Waits
  <2>6. Asked'
    BY <2>2, <2>5 DEF Asked, Waits
  <2>7. Fetching' /\ Outcome'
    BY <1>1, <2>2 DEF Fetching, Outcome, ResolvedRestores
  <2>8. Locking' /\ offers' \in DOMAIN Offers
    BY <1>5, <2>2 DEF Locking
  <2> QED
    BY <2>2, <2>4, <2>6, <2>7, <2>8
<1>6. \/ \E a \in SelectReleaseAsset(Offered(i), Assets[i]) :
            /\ AssetAllowed(a.size)
            /\ job' = [job EXCEPT !.pc = "resolving", !.asset = a]
            /\ Download(Tool, a.url) /\ UNCHANGED <<offers, lock, tree, view>>
      \/ Fail("asset") \/ Fail("io")
  BY <1>3 DEF Select
<1> HIDE DEF ToolInv, JobInv
<1>7. CASE Fail("asset") \/ Fail("io")
  BY <1>7, FailInv
<1> QED
  BY <1>5, <1>6, <1>7

\* What the resolution of a package adds can be fetched and is of no other package.
LEMMA ResolveRecordInv ==
    ASSUME ToolAssumption, ToolInv, ResolveRecord
    PROVE  JobInv'
<1>0. /\ DOMAIN job = Fields /\ offers \in DOMAIN Offers
      /\ Making /\ Locking /\ Fetching /\ Asked /\ Outcome /\ StoreInv
  BY DEF ToolInv, JobInv
<1>1. /\ job.pc = "resolving" /\ Answered /\ job.todo # {} /\ job.version \in RuntimeVersions
      /\ job.asset.url \in URLs /\ AssetAllowed(job.asset.size)
      /\ job.todo \subseteq Offering(job.version) /\ Offering(job.version) \subseteq DOMAIN Packages
  BY <1>0 DEF ResolveRecord, Making, Offering
<1>2. PICK i, bytes : i = First(job.todo) /\ bytes = call[Tool].bytes
  OBVIOUS
<1>3. i \in job.todo /\ i \in DOMAIN Packages
  BY <1>1, <1>2, FirstIsLeft
<1>4. PICK resolved : resolved = ResolveResourceRecord(Packages[i], Offered(i), job.asset, bytes)
  OBVIOUS
<1>5. \/ /\ bytes # None /\ resolved.ok
         /\ job' = [job EXCEPT !.pc = "resolve", !.todo = @ \ {i}, !.asset = Unset,
                               !.made = @ \union {resolved.record}]
         /\ UNCHANGED <<store, offers, lock, tree, view>>
      \/ Fail("asset") \/ Fail("io")
  BY <1>2, <1>4 DEF ResolveRecord
<1>6. ASSUME bytes # None, resolved.ok,
             job' = [job EXCEPT !.pc = "resolve", !.todo = @ \ {i}, !.asset = Unset,
                                !.made = @ \union {resolved.record}],
             UNCHANGED <<store, offers, lock, tree, view>>
      PROVE  JobInv'
  <2>1. Placing(Offered(i))
    <3>1. Offers[offers][job.version][i] # Unset
      BY <1>1, <1>3 DEF Offering
    <3> QED
      BY <1>0, <1>1, <1>3, <3>1 DEF Placing, Offered, ToolAssumption
  <2>2. bytes \in seen[job.asset.url]
    BY <1>0, <1>1, <1>2, <1>6 DEF Asked, Waits, Answered
  <2>3. bytes \in DOMAIN Data
    BY <1>0, <1>1, <2>2 DEF StoreInv, StoreTypeOK, ToolAssumption
  <2>4. PICK record : record = resolved.record
    OBVIOUS
  <2>5. /\ Sound(record) /\ FetchResource(record, bytes).ok /\ record.package = Packages[i]
        /\ record.url = job.asset.url /\ record.checksum = bytes
    <3>1. Packages[i] \in Range(Packages)
      BY <1>3 DEF Range
    <3>2. /\ Sound(resolved.record) /\ FetchResource(resolved.record, bytes).ok
          /\ resolved.record.package = Packages[i]
          /\ resolved.record.url = job.asset.url /\ resolved.record.checksum = bytes
      BY <1>1, <1>4, <1>6, <2>1, <2>3, <3>1, ResolvedFetches
    <3> QED
      BY <2>4, <3>2
  <2>6. /\ DOMAIN job' = Fields /\ job'.pc = "resolve" /\ job'.todo = job.todo \ {i}
        /\ job'.made = job.made \union {record} /\ job'.version = job.version
        /\ job'.failure = job.failure /\ job'.resolves = job.resolves /\ job'.payload = job.payload
    BY <1>0, <1>6, <2>4 DEF Fields
  <2>7. UNCHANGED <<seen, offers, lock, tree>>
    BY <1>6 DEF store
  <2>8. IsFiniteSet(job'.made)
    <3>1. IsFiniteSet(job.made)
      BY <1>0 DEF Making
    <3>2. IsFiniteSet(job.made \union {record})
      BY <3>1, FS_AddElement
    <3> QED
      BY <2>6, <3>2
  <2>9. \A r \in job.made : r.package # record.package
    BY <1>0, <1>1, <1>3, <2>5 DEF Making
  <2>10. OnePerPackage(job'.made)
    BY <1>0, <2>6, <2>9 DEF Making, OnePerPackage
  <2>11. \A r \in job'.made : Sound(r) /\ r.checksum \in seen'[r.url] /\ FetchResource(r, r.checksum).ok
    <3> SUFFICES ASSUME NEW r \in job'.made
                 PROVE  Sound(r) /\ r.checksum \in seen'[r.url] /\ FetchResource(r, r.checksum).ok
      OBVIOUS
    <3>1. CASE r = record
      BY <2>2, <2>5, <2>7, <3>1
    <3>2. CASE r \in job.made
      BY <1>0, <2>7, <3>2 DEF Making
    <3> QED
      BY <2>6, <3>1, <3>2
  <2>12. \A r \in job'.made, k \in job'.todo : r.package # Packages[k]
    <3> SUFFICES ASSUME NEW r \in job'.made, NEW k \in job'.todo
                 PROVE  r.package # Packages[k]
      OBVIOUS
    <3>1. k \in job.todo /\ k # i /\ k \in DOMAIN Packages
      BY <1>1, <2>6
    <3>2. CASE r = record
      <4>1. Packages[k] # Packages[i]
        BY <1>3, <3>1 DEF ToolAssumption
      <4> QED
        BY <2>5, <3>2, <4>1
    <3>3. CASE r \in job.made
      BY <1>0, <1>1, <3>1, <3>3 DEF Making
    <3> QED
      BY <2>6, <3>2, <3>3
  <2>13. Making'
    <3>1. job'.version \in RuntimeVersions /\ job'.todo \subseteq Offering(job.version)'
      BY <1>1, <2>6, <2>7 DEF Offering
    <3> QED
      BY <2>6, <2>8, <2>10, <2>11, <2>12, <3>1 DEF Making
  <2>14. Locking' /\ offers' \in DOMAIN Offers
    BY <1>0, <2>6, <2>7 DEF Locking
  <2>15. Fetching' /\ Asked'
    BY <1>0, <1>1, <2>6 DEF Fetching, Asked
  <2>16. Outcome'
    BY <1>0, <1>1, <2>6 DEF Outcome, ResolvedRestores
  <2> QED
    BY <2>6, <2>13, <2>14, <2>15, <2>16 DEF JobInv
<1>7. CASE Fail("asset") \/ Fail("io")
  BY <1>7, FailInv
<1> QED
  BY <1>5, <1>6, <1>7

\* What is written is valid, and what was resolved.
LEMMA WriteInv ==
    ASSUME ToolAssumption, ToolInv, Write
    PROVE  JobInv'
<1>0. /\ DOMAIN job = Fields /\ offers \in DOMAIN Offers
      /\ Making /\ Locking /\ Fetching /\ Asked /\ Outcome
  BY DEF ToolInv, JobInv
<1>1. CASE Fail("lock")
  BY <1>1, FailInv
<1>2. CASE /\ job.pc = "resolve" /\ \A r \in job.made : Valid(r)
           /\ lock' = job.made /\ job' = [job EXCEPT !.pc = "restore"]
           /\ UNCHANGED <<store, offers, tree, view>>
  <2>1. /\ DOMAIN job' = Fields /\ job'.pc = "restore" /\ job'.made = job.made
        /\ job'.failure = job.failure /\ job'.resolves = job.resolves /\ job'.payload = job.payload
    BY <1>0, <1>2 DEF Fields
  <2>2. seen' = seen /\ offers' = offers /\ lock' = job.made
    BY <1>2 DEF store
  <2>3. Making'
    BY <2>1, <2>2, MadeKept
  <2>4. Locking'
    BY <1>0, <1>2, <2>1, <2>2 DEF Locking, Making
  <2>5. Fetching' /\ Asked'
    BY <1>0, <1>2, <2>1 DEF Fetching, Asked
  <2>6. Outcome'
    BY <1>0, <1>2, <2>1 DEF Outcome, ResolvedRestores
  <2> QED
    BY <1>0, <2>1, <2>2, <2>3, <2>4, <2>5, <2>6 DEF JobInv
<1> QED
  BY <1>1, <1>2 DEF Write, Accepted

\* Records of one valid lock meet only when there are two of them.
LEMMA SharedIsTwo ==
    ASSUME NEW records, IsFiniteSet(records), \A r \in records : Valid(r), ~DestinationsDiffer(records)
    PROVE  Cardinality(records) > 1
<1>1. PICK r \in records, s \in records : r # s
  BY DEF DestinationsDiffer, Valid
<1>2. {r, s} \subseteq records
  OBVIOUS
<1>3. Cardinality({r, s}) = 2
  <2>1. IsFiniteSet({r}) /\ Cardinality({r}) = 1 /\ s \notin {r}
    BY <1>1, FS_Singleton
  <2>2. Cardinality({r} \union {s}) = Cardinality({r}) + 1
    BY <2>1, FS_AddElement
  <2>3. {r} \union {s} = {r, s}
    OBVIOUS
  <2> QED
    BY <2>1, <2>2, <2>3
<1>4. Cardinality({r, s}) <= Cardinality(records) /\ Cardinality(records) \in Nat
  BY <1>2, FS_Subset, FS_CardinalityType
<1> QED
  BY <1>3, <1>4

\* A restore begins with every record left and nothing laid.
LEMMA BeginRestoreInv ==
    ASSUME ToolAssumption, ToolInv, BeginRestore
    PROVE  JobInv'
<1>0. /\ DOMAIN job = Fields /\ offers \in DOMAIN Offers
      /\ Making /\ Locking /\ Fetching /\ Asked /\ Outcome
  BY DEF ToolInv, JobInv
<1>1. CASE ~DestinationsDiffer(lock) /\ Fail("shared")
  <2>1. Cardinality(lock) > 1
    BY <1>0, <1>1, SharedIsTwo DEF Locking
  <2> QED
    BY <1>1, <2>1, FailInv
<1>2. CASE DestinationsDiffer(lock) /\ lock = {} /\ Fail("")
  <2>1. End("") /\ UNCHANGED store
    BY <1>2 DEF Fail
  <2> QED
    BY <1>2, <2>1, EndInv
<1>3. CASE /\ DestinationsDiffer(lock) /\ job.pc = "restore"
           /\ job' = [job EXCEPT !.pc = "fetch",
                                 !.todo = {i \in DOMAIN Packages : \E r \in lock : r.package = Packages[i]}]
           /\ UNCHANGED <<store, offers, lock, tree, view>>
  <2> DEFINE todo == {i \in DOMAIN Packages : \E r \in lock : r.package = Packages[i]}
  <2>1. /\ DOMAIN job' = Fields /\ job'.pc = "fetch" /\ job'.made = job.made /\ job'.todo = todo
        /\ job'.failure = job.failure /\ job'.resolves = job.resolves /\ job'.payload = job.payload
    BY <1>0, <1>3 DEF Fields
  <2>2. UNCHANGED <<seen, offers, lock>>
    BY <1>3 DEF store
  <2>3. Making'
    BY <2>1, <2>2, MadeKept
  <2>4. Locking'
    BY <1>0, <1>3, <2>1, <2>2 DEF Locking
  <2>5. \A r \in lock : \E i \in todo : r.package = Packages[i]
    <3>1. \A r \in lock : \E i \in DOMAIN Packages : r.package = Packages[i]
      BY <1>0 DEF Locking, Sound, Range
    <3> QED
      BY <3>1
  <2>6. Fetching'
    <3>1. DOMAIN job.payload = {}
      BY <1>0, <1>3 DEF Fetching
    <3> QED
      BY <1>3, <2>1, <2>2, <2>5, <3>1 DEF Fetching
  <2>7. Asked'
    BY <2>1 DEF Asked
  <2>8. Outcome'
    BY <1>0, <1>3, <2>1 DEF Outcome, ResolvedRestores
  <2> QED
    BY <1>0, <2>1, <2>2, <2>3, <2>4, <2>6, <2>7, <2>8 DEF JobInv
<1> QED
  BY <1>1, <1>2, <1>3 DEF BeginRestore

\* The next record of the lock is requested.
LEMMA FetchInv ==
    ASSUME ToolAssumption, ToolInv, Fetch
    PROVE  JobInv'
<1>0. /\ DOMAIN job = Fields /\ offers \in DOMAIN Offers
      /\ Making /\ Locking /\ Fetching /\ Asked /\ Outcome /\ StoreInv
  BY DEF ToolInv, JobInv
<1>1. /\ job.pc = "fetch" /\ job.todo # {} /\ job' = [job EXCEPT !.pc = "fetching"]
      /\ Download(Tool, RecordOf(First(job.todo)).url) /\ UNCHANGED <<offers, lock, tree, view>>
  BY DEF Fetch
<1>2. PICK u : u = RecordOf(First(job.todo)).url
  OBVIOUS
<1>3. /\ DOMAIN job' = Fields /\ job'.pc = "fetching" /\ job'.made = job.made /\ job'.todo = job.todo
      /\ job'.failure = job.failure /\ job'.resolves = job.resolves /\ job'.payload = job.payload
  BY <1>0, <1>1 DEF Fields
<1>4. UNCHANGED <<seen, offers, lock>>
  BY <1>1 DEF Download
<1>5. Making'
  BY <1>3, <1>4, MadeKept
<1>6. Locking'
  BY <1>0, <1>1, <1>3, <1>4 DEF Locking
<1>7. Fetching'
  BY <1>0, <1>1, <1>3, <1>4 DEF Fetching, Meant
<1>8. Waits(u)'
  <2>1. Tool \in Threads /\ StoreTypeOK
    BY <1>0 DEF ToolAssumption, StoreInv
  <2>2. call'[Tool] = [pc |-> "lock", url |-> u, bytes |-> None]
    BY <1>1, <1>2, <2>1 DEF Download, StoreTypeOK
  <2> QED
    BY <2>2 DEF Waits
<1>9. Asked'
  <2>1. u = RecordOf(First(job.todo)).url'
    BY <1>2, <1>3, <1>4 DEF RecordOf
  <2> QED
    BY <1>3, <1>8, <2>1 DEF Asked, Waits
<1>10. Outcome'
  BY <1>0, <1>1, <1>3, <1>4 DEF Outcome, ResolvedRestores
<1> QED
  BY <1>0, <1>3, <1>4, <1>5, <1>6, <1>7, <1>9, <1>10 DEF JobInv

\* What is laid stays laid when a record that shares no destination comes over it.
LEMMA LaidStays ==
    ASSUME NEW r, NEW payload, Laid(r, payload), NEW over,
           \A f \in r.files : f.destination \notin DOMAIN over
    PROVE  Laid(r, Over(over, payload))
<1> SUFFICES ASSUME NEW f \in r.files
             PROVE  /\ f.destination \in DOMAIN Over(over, payload)
                    /\ Over(over, payload)[f.destination] = f.checksum
  BY DEF Laid
<1>1. f.destination \in DOMAIN payload /\ payload[f.destination] = f.checksum
  BY DEF Laid
<1> QED
  BY <1>1 DEF Over

\* What comes over a payload is laid in it.
LEMMA LaidOver ==
    ASSUME NEW r, NEW payload, NEW over, Laid(r, over)
    PROVE  Laid(r, Over(over, payload))
BY DEF Laid, Over

\* A record is laid in the payload, and those that were stay in it.
LEMMA FetchedInv ==
    ASSUME ToolAssumption, ToolInv, Fetched
    PROVE  JobInv'
<1>0. /\ DOMAIN job = Fields /\ offers \in DOMAIN Offers
      /\ Making /\ Locking /\ Fetching /\ Asked /\ Outcome /\ StoreInv
  BY DEF ToolInv, JobInv
<1>1. PICK i, bytes, record : i = First(job.todo) /\ bytes = call[Tool].bytes /\ record = RecordOf(i)
  OBVIOUS
<1>2. PICK result : result = FetchResource(record, bytes)
  OBVIOUS
<1>3. job.pc = "fetching" /\ Answered /\ job.todo # {}
  BY <1>0 DEF Fetched, Fetching
<1>4. /\ i \in job.todo /\ record \in lock /\ record.package = Packages[i] /\ record.url \in URLs
  BY <1>0, <1>1, <1>3, NextRecord
<1>5. \/ /\ bytes # None /\ result.ok
         /\ job' = [job EXCEPT !.pc = "fetch", !.todo = @ \ {i}, !.payload = Over(result.payload, @)]
         /\ UNCHANGED <<store, offers, lock, tree, view>>
      \/ bytes # None /\ ~result.ok /\ Fail("checksum")
      \/ Fail("io")
  BY <1>1, <1>2 DEF Fetched
<1>6. bytes # None => bytes \in seen[record.url]
  BY <1>0, <1>1, <1>3 DEF Asked, Waits, Answered
<1>7. ASSUME bytes # None, result.ok,
             job' = [job EXCEPT !.pc = "fetch", !.todo = @ \ {i}, !.payload = Over(result.payload, @)],
             UNCHANGED <<store, offers, lock, tree, view>>
      PROVE  JobInv'
  <2>1. PICK payload : payload = Over(result.payload, job.payload)
    OBVIOUS
  <2>2. /\ DOMAIN job' = Fields /\ job'.pc = "fetch" /\ job'.made = job.made /\ job'.todo = job.todo \ {i}
        /\ job'.failure = job.failure /\ job'.resolves = job.resolves /\ job'.payload = payload
    BY <1>0, <1>7, <2>1 DEF Fields
  <2>3. UNCHANGED <<seen, offers, lock, tree>>
    BY <1>7 DEF store
  <2>4. /\ DestinationsDiffer(lock) /\ OnePerPackage(lock) /\ \A r \in lock : Sound(r) /\ Valid(r)
        /\ job.todo \subseteq DOMAIN Packages
        /\ \A k \in job.todo : \E r \in lock : r.package = Packages[k]
        /\ \A r \in lock : Laid(r, job.payload) \/ \E k \in job.todo : r.package = Packages[k]
        /\ \A d \in DOMAIN job.payload : Meant(d)
    BY <1>0, <1>3 DEF Fetching, Locking
  <2>5. bytes \in DOMAIN Data
    BY <1>0, <1>4, <1>6, <1>7 DEF StoreInv, StoreTypeOK, ToolAssumption
  <2>6. /\ Laid(record, result.payload)
        /\ \A d \in DOMAIN result.payload : \E f \in record.files : f.destination = d
    <3>1. \A f, g \in record.files : f.destination = g.destination => f = g
      BY <1>4, <2>4, ValidDiffer
    <3>2. FetchResource(record, bytes).ok
      BY <1>2, <1>7
    <3>3. Laid(record, FetchResource(record, bytes).payload)
      BY <2>5, <3>1, <3>2, FetchedIsLaid
    <3>4. \A d \in DOMAIN FetchResource(record, bytes).payload : \E f \in record.files : f.destination = d
      BY <2>5, <3>1, <3>2, FetchedIsLaid
    <3> QED
      BY <1>2, <3>3, <3>4
  <2>7. ASSUME NEW r \in lock
        PROVE  Laid(r, payload) \/ \E k \in job.todo \ {i} : r.package = Packages[k]
    <3>1. CASE r = record
      BY <2>1, <2>6, <3>1, LaidOver
    <3>2. CASE r # record /\ Laid(r, job.payload)
      <4>1. ASSUME NEW f \in r.files, f.destination \in DOMAIN result.payload
            PROVE  FALSE
        <5>1. PICK g \in record.files : g.destination = f.destination
          BY <2>6, <4>1
        <5> QED
          BY <1>4, <2>4, <3>2, <5>1 DEF DestinationsDiffer
      <4>2. Laid(r, Over(result.payload, job.payload))
        BY <3>2, <4>1, LaidStays
      <4> QED
        BY <2>1, <4>2
    <3>3. CASE r # record /\ \E k \in job.todo : r.package = Packages[k]
      <4>1. PICK k \in job.todo : r.package = Packages[k]
        BY <3>3
      <4>2. r.package # record.package
        BY <1>4, <2>4, <3>3 DEF OnePerPackage
      <4>3. k # i
        BY <1>4, <4>1, <4>2
      <4> QED
        BY <4>1, <4>3
    <3> QED
      BY <2>4, <3>1, <3>2, <3>3
  <2>8. ASSUME NEW d \in DOMAIN payload
        PROVE  Meant(d)
    <3>1. d \in DOMAIN result.payload \/ d \in DOMAIN job.payload
      BY <2>1, <2>8 DEF Over
    <3>2. CASE d \in DOMAIN result.payload
      BY <1>4, <2>6, <3>2 DEF Meant
    <3> QED
      BY <2>4, <3>1, <3>2
  <2>9. Making'
    BY <2>2, <2>3, MadeKept
  <2>10. Locking'
    BY <1>0, <1>3, <2>2, <2>3 DEF Locking
  <2>11. Fetching'
    <3>1. \A d \in DOMAIN payload : Meant(d)'
      BY <2>3, <2>8 DEF Meant
    <3>2. job'.todo \subseteq DOMAIN Packages /\ \A k \in job'.todo : \E r \in lock : r.package = Packages[k]
      BY <2>2, <2>4
    <3>3. \A r \in lock : Laid(r, payload) \/ \E k \in job'.todo : r.package = Packages[k]
      BY <2>2, <2>7
    <3> QED
      BY <2>2, <2>3, <2>4, <3>1, <3>2, <3>3 DEF Fetching
  <2>12. Asked'
    BY <2>2 DEF Asked
  <2>13. Outcome'
    BY <1>0, <1>3, <2>2, <2>3 DEF Outcome, ResolvedRestores
  <2> QED
    BY <1>0, <2>2, <2>3, <2>9, <2>10, <2>11, <2>12, <2>13 DEF JobInv
<1>8. CASE bytes # None /\ ~result.ok /\ Fail("checksum")
  <2>1. ASSUME job.resolves
        PROVE  FALSE
    <3>1. record \in job.made
      BY <1>0, <1>3, <1>4, <2>1 DEF Locking
    <3>2. record.checksum \in seen[record.url] /\ FetchResource(record, record.checksum).ok
      BY <1>0, <3>1 DEF Making
    <3>3. seen[record.url] \subseteq {files[record.url]} \/ seen[record.url] = {}
      BY <1>0, <1>4 DEF StoreInv, Kept
    <3>4. bytes = record.checksum
      BY <1>6, <1>8, <3>2, <3>3
    <3> QED
      BY <1>2, <1>8, <3>2, <3>4
  <2> QED
    BY <1>8, <2>1, FailInv
<1>9. CASE Fail("io")
  BY <1>9, FailInv
<1> QED
  BY <1>5, <1>7, <1>8, <1>9

\* What is installed is every file of the lock, or the operation fails.
LEMMA InstallInv ==
    ASSUME ToolAssumption, ToolInv, Install
    PROVE  JobInv'
<1>0. Locking /\ Fetching
  BY DEF ToolInv, JobInv
<1>1. CASE Fail("io")
  BY <1>1, FailInv
<1>2. CASE /\ job.pc = "fetch" /\ job.todo = {} /\ End("") /\ UNCHANGED store
           /\ tree' = Over(Written(job.payload), tree)
  <2>1. /\ DestinationsDiffer(lock) /\ \A r \in lock : Sound(r) /\ Valid(r)
        /\ \A r \in lock : Laid(r, job.payload)
        /\ \A d \in DOMAIN job.payload : Meant(d)
    BY <1>0, <1>2 DEF Fetching, Locking
  <2>2. ASSUME NEW r \in lock, NEW f \in r.files, NEW path, path = Join(Project, f.destination)
        PROVE  path \in DOMAIN tree' /\ tree'[path] = f.checksum
    <3>1. /\ path \in DOMAIN Over(Written(job.payload), tree)
          /\ Over(Written(job.payload), tree)[path] = f.checksum
      BY <2>1, <2>2, WrittenIsPlaced
    <3> QED
      BY <1>2, <3>1
  <2>3. \A r \in lock : Placed(r)'
    BY <2>2 DEF Placed
  <2> QED
    BY <1>2, <2>3, EndInv
<1> QED
  BY <1>1, <1>2 DEF Install, Written

\* What is in place stays there while the store is closed and the call returns.
LEMMA LastInv ==
    ASSUME ToolInv, UNCHANGED <<seen, offers, lock, tree>>,
           job.pc \in {"close", "closing"}, job'.pc \in {"closing", "idle"}, DOMAIN job' = Fields,
           job'.made = job.made, job'.failure = job.failure, job'.resolves = job.resolves
    PROVE  JobInv'
<1>0. /\ offers \in DOMAIN Offers
      /\ Making /\ Locking /\ Outcome
  BY DEF ToolInv, JobInv
<1>1. Making'
  BY MadeKept
<1>2. Locking'
  BY <1>0 DEF Locking
<1>3. Fetching' /\ Asked'
  BY DEF Fetching, Asked
<1>4. Outcome'
  BY <1>0 DEF Outcome, Placed, ResolvedRestores
<1> QED
  BY <1>0, <1>1, <1>2, <1>3, <1>4 DEF JobInv

\* So closing and returning preserve the invariant.
LEMMA CloseStoreInv ==
    ASSUME ToolInv, CloseStore \/ Finish
    PROVE  JobInv'
<1>0. DOMAIN job = Fields
  BY DEF ToolInv, JobInv
<1>1. CASE CloseStore
  <2>1. /\ job.pc = "close" /\ job' = [job EXCEPT !.pc = "closing"]
        /\ UNCHANGED <<seen, offers, lock, tree>>
    BY <1>1 DEF CloseStore, Close
  <2>2. /\ DOMAIN job' = Fields /\ job'.pc = "closing" /\ job'.made = job.made
        /\ job'.failure = job.failure /\ job'.resolves = job.resolves
    BY <1>0, <2>1 DEF Fields
  <2> QED
    BY <2>1, <2>2, LastInv
<1>2. CASE Finish
  <2>1. /\ job.pc = "closing" /\ job' = [job EXCEPT !.pc = "idle", !.asset = Unset, !.payload = <<>>]
        /\ UNCHANGED <<seen, offers, lock, tree>>
    BY <1>2 DEF Finish, store
  <2>2. /\ DOMAIN job' = Fields /\ job'.pc = "idle" /\ job'.made = job.made
        /\ job'.failure = job.failure /\ job'.resolves = job.resolves
    BY <1>0, <2>1 DEF Fields
  <2> QED
    BY <2>1, <2>2, LastInv
<1> QED
  BY <1>1, <1>2

\* The other goroutines and the server keep what the tool has.
LEMMA OthersInv ==
    ASSUME ToolAssumption, ToolInv, UNCHANGED <<offers, lock, tree, job>>,
           \/ \E t \in Threads : StoreStep(t)
           \/ \E t \in Threads \ {Tool} : Close(t) \/ \E u \in URLs : Download(t, u)
           \/ \E u \in URLs, b \in Bytes : Publish(u, b)
           \/ UNCHANGED <<call, seen>>
    PROVE  JobInv'
<1>0. Tool \in Threads /\ StoreInv /\ StoreTypeOK
  BY DEF ToolAssumption, ToolInv, StoreInv
<1>1. ASSUME NEW t \in Threads, StoreStep(t)
      PROVE  JobInv'
  <2>1. \A u \in URLs : seen[u] \subseteq seen'[u]
    BY <1>0, <1>1, StepAnswers
  <2>2. ASSUME NEW u \in URLs, Waits(u)
        PROVE  Waits(u)'
    <3>1. CASE t = Tool
      <4>1. call[t].url = u /\ call[t].pc \notin {"closeLock", "closing"}
        BY <2>2, <3>1 DEF Waits
      <4>2. /\ call'[t].url = u
            /\ call'[t].pc \notin {"closeLock", "closing"}
            /\ call'[t].pc = "idle" => call'[t].bytes = None \/ call'[t].bytes \in seen'[u]
        BY <1>0, <1>1, <4>1, StepAnswers
      <4> QED
        BY <3>1, <4>2 DEF Waits
    <3>2. CASE t # Tool
      <4>1. call'[Tool] = call[Tool]
        BY <1>0, <1>1, <3>2, StepAnswers
      <4> QED
        BY <2>1, <2>2, <4>1 DEF Waits
    <3> QED
      BY <3>1, <3>2
  <2> QED
    BY <2>1, <2>2, StoreOnly
<1>2. ASSUME call'[Tool] = call[Tool], seen' = seen
      PROVE  JobInv'
  <2>1. \A u \in URLs : seen[u] \subseteq seen'[u]
    BY <1>2
  <2>2. \A u \in URLs : Waits(u) => Waits(u)'
    BY <1>2 DEF Waits
  <2> QED
    BY <2>1, <2>2, StoreOnly
<1>3. ASSUME NEW t \in Threads \ {Tool}, Close(t) \/ \E u \in URLs : Download(t, u)
      PROVE  JobInv'
  <2>1. seen' = seen /\ call'[Tool] = call[Tool]
    BY <1>0, <1>3 DEF Close, Download, StoreTypeOK
  <2> QED
    BY <1>2, <2>1
<1>4. ASSUME NEW u \in URLs, NEW b \in Bytes, Publish(u, b)
      PROVE  JobInv'
  BY <1>2, <1>4 DEF Publish
<1>5. CASE UNCHANGED <<call, seen>>
  BY <1>2, <1>5
<1> QED
  BY <1>1, <1>3, <1>4, <1>5

\* A step of the tool is one of the store, or leaves it alone.
LEMMA StepsTheStore ==
    ASSUME ToolAssumption, ToolInv, [Next]_vars
    PROVE  [StoreNext]_store
<1>0. Tool \in Threads /\ Making /\ Locking /\ Fetching
  BY DEF ToolAssumption, ToolInv, JobInv
<1>1. ASSUME NEW version \in RuntimeVersions, NEW resolves \in BOOLEAN, Begin(version, resolves)
      PROVE  StoreNext
  BY <1>1 DEF Begin, StoreNext
<1>2. CASE Select
  <2>1. ASSUME NEW a, a \in SelectReleaseAsset(Offered(First(job.todo)), Assets[First(job.todo)]), Download(Tool, a.url)
        PROVE  StoreNext
    <3>1. PICK i, resource, assets : i = First(job.todo) /\ resource = Offered(i) /\ assets = Assets[i]
      OBVIOUS
    <3>2. a \in SelectReleaseAsset(resource, assets)
      BY <2>1, <3>1
    <3>3. \E j \in DOMAIN assets : a = [name |-> assets[j].name, suffix |-> assets[j].suffix,
                                        url |-> assets[j].url, size |-> Data[server[assets[j].url]].size]
      BY <3>2 DEF SelectReleaseAsset
    <3>4. PICK j \in DOMAIN Assets[i] : a.url = Assets[i][j].url
      BY <3>1, <3>3
    <3>5. job.pc = "resolve" /\ job.todo # {}
      BY <1>2 DEF Select
    <3>6. job.todo \subseteq DOMAIN Packages
      BY <1>0, <3>5 DEF Making, Offering
    <3>7. i \in DOMAIN Packages
      BY <3>1, <3>5, <3>6, FirstIsLeft
    <3>8. a.url \in URLs
      BY <3>4, <3>7 DEF ToolAssumption
    <3> QED
      BY <1>0, <2>1, <3>8 DEF StoreNext
  <2>2. \/ \E a : /\ a \in SelectReleaseAsset(Offered(First(job.todo)), Assets[First(job.todo)])
                  /\ Download(Tool, a.url)
        \/ UNCHANGED store
    BY <1>2 DEF Select, Fail
  <2> QED
    BY <2>1, <2>2
<1>3. CASE Fetch
  <2>1. RecordOf(First(job.todo)).url \in URLs
    BY <1>0, <1>3, NextRecord DEF Fetch
  <2> QED
    BY <1>0, <1>3, <2>1 DEF Fetch, StoreNext
<1>4. CASE ResolveRecord \/ Write \/ BeginRestore \/ Fetched \/ Install \/ Finish
  BY <1>4 DEF ResolveRecord, Write, BeginRestore, Fetched, Install, Finish, Fail
<1>5. CASE CloseStore
  BY <1>0, <1>5 DEF CloseStore, StoreNext
<1>6. ASSUME NEW t \in Threads, Serve(t) \/ Share(t)
      PROVE  StoreNext
  BY <1>6 DEF Serve, Share, StoreNext
<1>7. ASSUME NEW u \in URLs, NEW b \in Bytes, Republish(u, b)
      PROVE  StoreNext
  BY <1>7 DEF Republish, StoreNext
<1>8. ASSUME NEW start \in Starts, NEW m \in Manifests, NEW options \in LoadOptions, LoadProject(start, m, options)
      PROVE  UNCHANGED store
  BY <1>8 DEF LoadProject
<1>9. CASE UNCHANGED vars
  BY <1>9 DEF vars
<1> QED
  BY <1>1, <1>2, <1>3, <1>4, <1>5, <1>6, <1>7, <1>8, <1>9 DEF Next, Step

\* Every step preserves the invariant.
LEMMA ToolStepInv ==
    ASSUME ToolAssumption, ToolInv, [Next]_vars
    PROVE  ToolInv'
<1>1. StoreInv'
  BY StepsTheStore, StoreStepInv DEF ToolInv
<1>2. ASSUME NEW version \in RuntimeVersions, NEW resolves \in BOOLEAN, Begin(version, resolves)
      PROVE  JobInv'
  BY <1>2, BeginInv
<1>3. ASSUME Step PROVE JobInv'
  <2>1. /\ Select => JobInv'
        /\ ResolveRecord => JobInv'
        /\ Write => JobInv'
        /\ BeginRestore => JobInv'
    BY SelectInv, ResolveRecordInv, WriteInv, BeginRestoreInv
  <2>2. /\ Fetch => JobInv'
        /\ Fetched => JobInv'
        /\ Install => JobInv'
        /\ CloseStore \/ Finish => JobInv'
    BY FetchInv, FetchedInv, InstallInv, CloseStoreInv
  <2> QED
    BY <1>3, <2>1, <2>2 DEF Step
<1>4. ASSUME NEW t \in Threads, Serve(t) \/ Share(t)
      PROVE  JobInv'
  BY <1>4, OthersInv DEF Serve, Share, tool
<1>5. ASSUME NEW u \in URLs, NEW b \in Bytes, Republish(u, b)
      PROVE  JobInv'
  BY <1>5, OthersInv DEF Republish, tool
<1>6. ASSUME NEW start \in Starts, NEW m \in Manifests, NEW options \in LoadOptions, LoadProject(start, m, options)
      PROVE  JobInv'
  BY <1>6, OthersInv DEF LoadProject, store
<1>7. ASSUME UNCHANGED vars PROVE JobInv'
  <2>1. UNCHANGED <<offers, lock, tree, job>> /\ UNCHANGED <<call, seen>>
    BY <1>7 DEF vars, tool, store
  <2> QED
    BY <2>1, OthersInv
<1>8. JobInv'
  <2>1. ASSUME Next PROVE JobInv'
    BY <1>2, <1>3, <1>4, <1>5, <1>6, <2>1 DEF Next
  <2> QED
    BY <1>7, <2>1
<1> QED
  BY <1>1, <1>8 DEF ToolInv

\* At first nothing is locked and nothing is wanted.
LEMMA ToolInitInv ==
    ASSUME ToolAssumption, Init
    PROVE  ToolInv
<1>1. StoreInv
  BY StoreInitInv DEF Init, StoreInit
<1>2. /\ DOMAIN job = Fields /\ job.pc = "idle" /\ job.made = {} /\ job.failure = "nothing ran"
      /\ job.resolves = FALSE /\ lock = {} /\ offers \in DOMAIN Offers
  BY DEF Init, NoJob, Fields
<1>3. IsFiniteSet({})
  BY FS_EmptySet
<1>4. Making /\ Locking
  BY <1>2, <1>3 DEF Making, Locking, OnePerPackage
<1>5. Fetching /\ Asked /\ Outcome
  BY <1>2 DEF Fetching, Asked, Outcome, ResolvedRestores
<1> QED
  BY <1>1, <1>2, <1>4, <1>5 DEF ToolInv, JobInv

\* The inductive invariant: what is resolved is in the store, what is fetched is laid,
\* and the lock is what was resolved.
THEOREM ToolInvariant == Spec => []ToolInv
BY ToolAssumption, ToolInitInv, ToolStepInv, PTL DEF Spec

\* A restore right after a resolve gets the bytes that were resolved and accepts them,
\* whatever the server publishes between and whoever else uses the store
\* (resource_replay.go:38, ResolveResourceRecord and FetchResource).
THEOREM ResolvedCanBeRestored == Spec => []ResolvedRestores
<1>1. ToolInv => ResolvedRestores
  BY DEF ToolInv, JobInv, Outcome
<1> QED
  BY <1>1, ToolInvariant, PTL

\* After a restore that succeeded every file of every record is in the project with
\* its content, none overwritten by another (resource_restore.go), for any records,
\* archives and destinations.
THEOREM LockedIsInstalled == Spec => []InstalledIsLocked
<1>1. ToolInv => InstalledIsLocked
  BY DEF ToolInv, JobInv, Outcome, InstalledIsLocked, Restored, Placed
<1> QED
  BY <1>1, ToolInvariant, PTL

\* What the tool, the goroutines it shares its store with and the server do together
\* is what the store allows: the project implements the specification of the downloader.
THEOREM ToolUsesStore == Spec => StoreSpec
<1>1. Init => StoreInit
  BY DEF Init, StoreInit
<1>2. ToolInv /\ [Next]_vars => [StoreNext]_store
  BY ToolAssumption, StepsTheStore
<1> QED
  BY <1>1, <1>2, ToolInvariant, PTL DEF Spec, StoreSpec

\* So a URL is downloaded once, whoever the readers are.
THEOREM ToolDownloadsOnce == Spec => []DownloadedOnce
BY ToolUsesStore, StoreDownloadsOnce, PTL

\* And its directory is not removed from under a download.
THEOREM ToolCloseWaits == Spec => []CloseWaits
BY ToolUsesStore, StoreCloseWaits, PTL

-----------------------------------------------------------------------------
(***************************************************************************)
(* The view.  Picking, joining and concatenating lists of paths only       *)
(* ever gives paths that were there, so that it is enough to follow each   *)
(* path to the outermost project or to a root that a tool adds.            *)
(***************************************************************************)
\* A list, whatever it lists.
IsList(items) == items \in Seq(Range(items))

Picking(f, n, items, places) ==
    f = [i \in 0 .. n |-> IF i = 0 THEN <<>>
                          ELSE IF i \in places THEN Append(f[i - 1], items[i]) ELSE f[i - 1]]

\* Picked goes through a list by a recursive function, which exists for any length.
LEMMA PickingExists ==
    ASSUME NEW items, NEW places, NEW n \in Nat
    PROVE  \E f : Picking(f, n, items, places)
<1> DEFINE bad == {m \in Nat : ~ \E f : Picking(f, m, items, places)}
           Next1(s, i) == IF i \in places THEN Append(s, items[i]) ELSE s
<1>1. ASSUME bad # {}
      PROVE  FALSE
  <2>1. PICK m \in bad : \A x \in bad : m <= x
    BY <1>1, LeastExists
  <2>2. CASE m = 0
    <3>1. Picking([i \in 0 .. 0 |-> <<>>], 0, items, places)
      BY DEF Picking
    <3> QED
      BY <2>2, <3>1
  <2>3. CASE m # 0
    <3>1. m - 1 \in Nat /\ m - 1 \notin bad
      BY <2>1, <2>3
    <3>2. PICK f : Picking(f, m - 1, items, places)
      BY <3>1
    <3>5. \A i \in 0 .. m - 1 : f[i] = IF i = 0 THEN <<>> ELSE Next1(f[i - 1], i)
      BY <3>1, <3>2 DEF Picking
    <3> HIDE DEF Next1
    <3> DEFINE g == [i \in 0 .. m |-> IF i = m THEN Next1(f[m - 1], m) ELSE f[i]]
    <3>3. \A i \in 0 .. m : g[i] = IF i = 0 THEN <<>> ELSE Next1(g[i - 1], i)
      <4> SUFFICES ASSUME NEW i \in 0 .. m
                   PROVE  g[i] = IF i = 0 THEN <<>> ELSE Next1(g[i - 1], i)
        OBVIOUS
      <4>1. CASE i = m
        BY <2>3, <4>1
      <4>2. CASE i # m
        <5>1. i \in 0 .. m - 1 /\ f[i] = IF i = 0 THEN <<>> ELSE Next1(f[i - 1], i)
          BY <3>1, <3>5, <4>2
        <5>2. i # 0 => i - 1 \in 0 .. m /\ i - 1 # m
          BY <4>2
        <5> QED
          BY <5>1, <5>2, <4>2
      <4> QED
        BY <4>1, <4>2
    <3>4. Picking(g, m, items, places)
      BY <3>3 DEF Picking, Next1
    <3> QED
      BY <2>1, <3>4
  <2> QED
    BY <2>2, <2>3
<1> QED
  BY <1>1

\* What is picked of a list is a list of the items at the places, and of all of them.
LEMMA PickedList ==
    ASSUME NEW items, IsList(items), NEW places
    PROVE  /\ IsList(Picked(items, places))
           /\ Range(Picked(items, places)) = {items[i] : i \in places \cap DOMAIN items}
<1> DEFINE n == Len(items)
           f == CHOOSE kept : Picking(kept, n, items, places)
           T == Range(items)
           Upto(k) == {items[i] : i \in places \cap 1 .. k}
           Good(k) == f[k] \in Seq(T) /\ Range(f[k]) = Upto(k)
<1>1. n \in Nat /\ DOMAIN items = 1 .. n /\ \A i \in 1 .. n : items[i] \in T
  BY LenProperties, ElementOfSeq DEF IsList
<1>2. Picking(f, n, items, places)
  BY <1>1, PickingExists
<1>3. Picked(items, places) = f[n]
  BY DEF Picked, Picking
<1> HIDE DEF f, n
<1>4. f[0] = <<>>
  BY <1>1, <1>2 DEF Picking
<1>5. \A i \in 1 .. n : f[i] = IF i \in places THEN Append(f[i - 1], items[i]) ELSE f[i - 1]
  <2> SUFFICES ASSUME NEW i \in 1 .. n
               PROVE  f[i] = IF i \in places THEN Append(f[i - 1], items[i]) ELSE f[i - 1]
    OBVIOUS
  <2>1. i \in 0 .. n /\ i # 0
    BY <1>1
  <2> QED
    BY <2>1, <1>2 DEF Picking
<1>6. Good(0)
  <2>1. <<>> \in Seq(T) /\ Range(<<>>) = {}
    BY EmptySeq DEF Range
  <2>2. Upto(0) = {}
    OBVIOUS
  <2> QED
    BY <1>4, <2>1, <2>2
<1>7. ASSUME NEW k \in 1 .. n, Good(k - 1)
      PROVE  Good(k)
  <2>1. items[k] \in T
    BY <1>1
  <2>2. \A i \in 1 .. k : i \in 1 .. (k - 1) \/ i = k
    BY <1>1
  <2>3. k \in 1 .. k /\ 1 .. (k - 1) \subseteq 1 .. k
    BY <1>1
  <2>4. CASE k \in places
    <3>1. f[k] = Append(f[k - 1], items[k])
      BY <1>5, <2>4
    <3>2. f[k] \in Seq(T) /\ Range(f[k]) = Range(f[k - 1]) \union {items[k]}
      BY <1>7, <2>1, <3>1, AppendProperties, RangeOfAppend
    <3>3. Upto(k) = Upto(k - 1) \union {items[k]}
      BY <2>2, <2>3, <2>4
    <3> QED
      BY <1>7, <3>2, <3>3
  <2>5. CASE k \notin places
    <3>1. f[k] = f[k - 1]
      BY <1>5, <2>5
    <3>2. Upto(k) = Upto(k - 1)
      BY <2>2, <2>3, <2>5
    <3> QED
      BY <1>7, <3>1, <3>2
  <2> QED
    BY <2>4, <2>5
<1>8. Good(n)
  <2> HIDE DEF Good
  <2> DEFINE bad == {k \in 0 .. n : ~Good(k)}
  <2>1. ASSUME bad # {}
        PROVE  FALSE
    <3>0. bad \in SUBSET Nat
      BY <1>1
    <3>1. PICK k \in bad : \A x \in bad : k <= x
      BY <2>1, <3>0, LeastExists
    <3>2. k # 0
      BY <1>6, <3>1
    <3>6. k \in 0 .. n /\ k - 1 \in 0 .. n /\ k \in 1 .. n /\ ~ (k <= k - 1)
      BY <1>1, <3>1, <3>2
    <3>3. k - 1 \notin bad
      BY <3>1, <3>6
    <3>4. Good(k - 1)
      BY <3>3, <3>6
    <3>5. Good(k)
      BY <1>7, <3>4, <3>6
    <3> QED
      BY <3>1, <3>5
  <2>2. n \in 0 .. n
    BY <1>1
  <2> QED
    BY <2>1, <2>2
<1> QED
  BY <1>1, <1>3, <1>8, SeqOfRange DEF IsList

\* So is what is among the allowed ones.
LEMMA AmongList ==
    ASSUME NEW items, IsList(items), NEW allowed
    PROVE  IsList(Among(items, allowed)) /\ Range(Among(items, allowed)) = Range(items) \cap allowed
<1> DEFINE places == {i \in DOMAIN items : items[i] \in allowed}
<1>1. {items[i] : i \in places \cap DOMAIN items} = Range(items) \cap allowed
  BY DEF Range
<1> QED
  BY <1>1, PickedList DEF Among

\* And what is left of a list when each stays where it is first.
LEMMA UniquelyList ==
    ASSUME NEW items, IsList(items)
    PROVE  IsList(Uniquely(items)) /\ Range(Uniquely(items)) \subseteq Range(items)
<1> DEFINE places == {i \in DOMAIN items : \A j \in 1 .. (i - 1) : items[j] # items[i]}
<1>1. {items[i] : i \in places \cap DOMAIN items} \subseteq Range(items)
  BY DEF Range
<1> QED
  BY <1>1, PickedList DEF Uniquely

\* Two lists, one after the other.
LEMMA ConcatList ==
    ASSUME NEW a, IsList(a), NEW b, IsList(b)
    PROVE  IsList(a \o b) /\ Range(a \o b) = Range(a) \union Range(b)
<1>1. PICK T : T = Range(a) \union Range(b)
  OBVIOUS
<1>2. Range(a) \subseteq T /\ Range(b) \subseteq T
  BY <1>1
<1>3. a \in Seq(T) /\ b \in Seq(T)
  BY <1>2, SeqMonotonic DEF IsList
<1>4. a \o b \in Seq(T) /\ Range(a \o b) = Range(a) \union Range(b)
  BY <1>3, ConcatProperties, RangeConcatenation
<1> QED
  BY <1>4, SeqOfRange DEF IsList

\* A list of as many items.
LEMMA EachList ==
    ASSUME NEW items, IsList(items), NEW each, each = [i \in DOMAIN items |-> each[i]]
    PROVE  IsList(each) /\ Len(each) = Len(items)
<1>1. Len(items) \in Nat /\ DOMAIN items = 1 .. Len(items)
  BY LenProperties DEF IsList
<1>2. PICK n : n = Len(items)
  OBVIOUS
<1>3. DOMAIN each = 1 .. n /\ \A i \in 1 .. n : each[i] \in Range(each)
  BY <1>1, <1>2 DEF Range
<1>4. each \in [1 .. n -> Range(each)]
  BY <1>1, <1>2, <1>3
<1>5. each \in Seq(Range(each)) /\ Len(each) = n
  BY <1>1, <1>2, <1>3, <1>4, SeqDef
<1> QED
  BY <1>2, <1>5 DEF IsList

\* What is joined of a list of paths is one of joined paths.
LEMMA JoinEachList ==
    ASSUME NEW root, NEW paths, IsList(paths)
    PROVE  IsList(JoinEach(root, paths)) /\ Range(JoinEach(root, paths)) = {Join(root, path) : path \in Range(paths)}
<1>1. IsList(JoinEach(root, paths))
  <2>1. PICK each : each = JoinEach(root, paths)
    OBVIOUS
  <2>2. each = [i \in DOMAIN paths |-> each[i]]
    BY <2>1 DEF JoinEach
  <2> QED
    BY <2>1, <2>2, EachList
<1>2. Range(JoinEach(root, paths)) = {Join(root, path) : path \in Range(paths)}
  BY DEF JoinEach, Range
<1> QED
  BY <1>1, <1>2

Flattening(f, n, lists) ==
    f = [i \in 1 .. n |-> IF i = 1 THEN lists[i] ELSE f[i - 1] \o lists[i]]

\* FlattenSeq goes through the lists in a list by a recursive function.
LEMMA FlatteningExists ==
    ASSUME NEW lists, NEW n \in Nat
    PROVE  \E f : Flattening(f, n, lists)
<1> DEFINE bad == {m \in Nat : ~ \E f : Flattening(f, m, lists)}
<1>1. ASSUME bad # {}
      PROVE  FALSE
  <2>1. PICK m \in bad : \A x \in bad : m <= x
    BY <1>1, LeastExists
  <2>2. CASE m = 0
    <3>1. Flattening([i \in 1 .. 0 |-> <<>>], 0, lists)
      BY DEF Flattening
    <3> QED
      BY <2>2, <3>1
  <2>3. CASE m # 0
    <3>1. m - 1 \in Nat /\ m - 1 \notin bad
      BY <2>1, <2>3
    <3>2. PICK f : Flattening(f, m - 1, lists)
      BY <3>1
    <3>5. \A i \in 1 .. m - 1 : f[i] = IF i = 1 THEN lists[i] ELSE f[i - 1] \o lists[i]
      BY <3>1, <3>2 DEF Flattening
    <3> DEFINE last == IF m = 1 THEN lists[m] ELSE f[m - 1] \o lists[m]
               g == [i \in 1 .. m |-> IF i = m THEN last ELSE f[i]]
    <3>3. \A i \in 1 .. m : g[i] = IF i = 1 THEN lists[i] ELSE g[i - 1] \o lists[i]
      <4> SUFFICES ASSUME NEW i \in 1 .. m
                   PROVE  g[i] = IF i = 1 THEN lists[i] ELSE g[i - 1] \o lists[i]
        OBVIOUS
      <4>1. CASE i = m
        <5>1. g[i] = last
          BY <4>1
        <5>2. i # 1 => i - 1 \in 1 .. m /\ i - 1 # m
          BY <2>3, <4>1
        <5>3. i # 1 => g[i - 1] = f[m - 1]
          BY <4>1, <5>2
        <5> QED
          BY <4>1, <5>1, <5>3
      <4>2. CASE i # m
        <5>1. i \in 1 .. m - 1 /\ f[i] = IF i = 1 THEN lists[i] ELSE f[i - 1] \o lists[i]
          BY <3>1, <3>5, <4>2
        <5>2. i # 1 => i - 1 \in 1 .. m /\ i - 1 # m
          BY <4>2
        <5>3. g[i] = f[i] /\ (i # 1 => g[i - 1] = f[i - 1])
          BY <4>2, <5>2
        <5> QED
          BY <5>1, <5>3
      <4> QED
        BY <4>1, <4>2
    <3>4. Flattening(g, m, lists)
      BY <3>3 DEF Flattening
    <3> QED
      BY <2>1, <3>4
  <2> QED
    BY <2>2, <2>3
<1> QED
  BY <1>1

\* What is in the lists of a list is what is in one of them.
LEMMA FlattenList ==
    ASSUME NEW lists, IsList(lists), NEW T, \A i \in DOMAIN lists : lists[i] \in Seq(T)
    PROVE  FlattenSeq(lists) \in Seq(T)
<1> DEFINE n == Len(lists)
           f == CHOOSE flatten : Flattening(flatten, n, lists)
<1>1. n \in Nat /\ DOMAIN lists = 1 .. n
  BY LenProperties DEF IsList
<1>2. CASE n = 0
  <2>1. lists = <<>>
    BY <1>1, <1>2, EmptySeq DEF IsList
  <2> QED
    BY <1>2, <2>1, EmptySeq DEF FlattenSeq
<1>3. CASE n # 0
  <2>1. Flattening(f, n, lists)
    BY <1>1, FlatteningExists
  <2>2. FlattenSeq(lists) = f[n]
    BY <1>3 DEF FlattenSeq, Flattening
  <2> HIDE DEF f, n
  <2>3. \A i \in 1 .. n : f[i] = IF i = 1 THEN lists[i] ELSE f[i - 1] \o lists[i]
    BY <1>1, <2>1 DEF Flattening
  <2> DEFINE bad == {k \in 1 .. n : f[k] \notin Seq(T)}
  <2>4. ASSUME bad # {}
        PROVE  FALSE
    <3>0. bad \in SUBSET Nat
      BY <1>1
    <3>1. PICK k \in bad : \A x \in bad : k <= x
      BY <2>4, <3>0, LeastExists
    <3>2. k \in 1 .. n /\ lists[k] \in Seq(T) /\ f[k] \notin Seq(T)
      BY <1>1, <3>1
    <3>3. k # 1
      BY <2>3, <3>2
    <3>4. k - 1 \in 1 .. n /\ ~ (k <= k - 1)
      BY <1>1, <3>2, <3>3
    <3>5. f[k - 1] \in Seq(T)
      BY <3>1, <3>4
    <3>6. f[k] = f[k - 1] \o lists[k]
      BY <2>3, <3>2, <3>3
    <3> QED
      BY <3>2, <3>5, <3>6, ConcatProperties
  <2>5. n \in 1 .. n
    BY <1>1, <1>3
  <2> QED
    BY <2>2, <2>4, <2>5
<1> QED
  BY <1>2, <1>3

-----------------------------------------------------------------------------
\* An absolute path that is clean, other than "/".
Special == {"", ".", ".."}

Proper(path) ==
    /\ IsPath(path) /\ Len(path) > 1 /\ path[1] = ""
    /\ \A i \in 2 .. Len(path) : path[i] \notin Special

Plain(segments) == segments \ Special

\* On an absolute path only plain segments are kept.
LEMMA PlainPush ==
    ASSUME NEW T, NEW P, P = Plain(T), NEW out \in Seq(P), NEW segment \in T
    PROVE  AbsPush(out, segment) \in Seq(P)
<1>1. segment \notin Special => Append(out, segment) \in Seq(P)
  BY AppendProperties DEF Plain
<1>2. ASSUME out # <<>>
      PROVE  Front(out) \in Seq(P) /\ Last(out) # ".."
  <2>1. PICK s \in Seq(P), x \in P : out = Append(s, x)
    BY <1>2, SequenceEmptyOrAppend
  <2>2. x # ".."
    BY DEF Plain, Special
  <2> QED
    BY <2>1, <2>2, FrontOfAppend
<1>3. CASE segment \in {"", "."}
  BY <1>3 DEF AbsPush, Push
<1>4. CASE segment = ".." /\ out = <<>>
  BY <1>4 DEF AbsPush, Push
<1>5. CASE segment = ".." /\ out # <<>>
  BY <1>2, <1>5 DEF AbsPush, Push
<1>6. CASE segment \notin Special
  BY <1>1, <1>6 DEF AbsPush, Push, Special
<1> QED
  BY <1>3, <1>4, <1>5, <1>6 DEF Special

\* Plain segments below "/" are a clean path.
LEMMA PlainIsProper ==
    ASSUME NEW T, NEW P, P = Plain(T), NEW out \in Seq(P), out # <<>>
    PROVE  Proper(<<"">> \o out)
<1>12. PICK empty : empty = ""
  OBVIOUS
<1>1. PICK W, e, path : W = T \union {empty} /\ e = <<empty>> /\ path = e \o out
  OBVIOUS
<1>2. e \in Seq(W) /\ Len(e) = 1 /\ e[1] = empty
  BY <1>1
<1>3. P \subseteq W
  BY <1>1 DEF Plain
<1>4. out \in Seq(W)
  BY <1>3, SeqMonotonic
<1>5. PICK n : n = Len(out)
  OBVIOUS
<1>6. n \in Nat /\ n # 0 /\ \A i \in 1 .. n : out[i] \in P
  BY <1>5, EmptySeq, LenProperties, ElementOfSeq
<1>7. /\ path \in Seq(W) /\ Len(path) = 1 + n
      /\ \A i \in 1 .. 1 + n : path[i] = IF i <= 1 THEN e[i] ELSE out[i - 1]
  BY <1>1, <1>2, <1>4, <1>5, ConcatProperties
<1>13. Len(path) > 1 /\ 1 \in 1 .. 1 + n /\ 1 <= 1
  BY <1>6, <1>7
<1>8. Len(path) > 1 /\ path[1] = ""
  BY <1>2, <1>7, <1>12, <1>13
<1>9. ASSUME NEW i \in 2 .. Len(path)
      PROVE  path[i] \notin Special
  <2>1. i \in 1 .. 1 + n /\ ~ (i <= 1) /\ i - 1 \in 1 .. n
    BY <1>6, <1>7, <1>9
  <2>2. path[i] = out[i - 1] /\ out[i - 1] \in P
    BY <1>6, <1>7, <2>1
  <2> QED
    BY <2>2 DEF Plain
<1>10. IsPath(path)
  BY <1>7, SeqOfRange DEF IsPath
<1>11. Proper(path)
  BY <1>8, <1>9, <1>10 DEF Proper
<1> QED
  BY <1>1, <1>11, <1>12

\* So a clean absolute path is "/" or proper.
LEMMA CleanIsProper ==
    ASSUME NEW path, IsPath(path), IsAbs(path)
    PROVE  Clean(path) = <<"", "">> \/ Proper(Clean(path))
<1>1. PICK T, P, n : T = Range(path) /\ P = Plain(T) /\ n = Len(path)
  OBVIOUS
<1>2. n \in Nat /\ \A i \in 1 .. n : path[i] \in T
  BY <1>1, LenProperties, ElementOfSeq DEF IsPath
<1>3. PICK f : PushedOn(f, <<>>, path) /\ Clean(path) = AbsRooted(f[n])
  BY <1>1, AbsKeeps
<1>4. f[0] = <<>> /\ \A i \in 1 .. n : f[i] = AbsPush(f[i - 1], path[i])
  BY <1>1, <1>3 DEF PushedOn
<1> DEFINE bad == {i \in 0 .. n : f[i] \notin Seq(P)}
<1>5. ASSUME bad # {}
      PROVE  FALSE
  <2>1. bad \in SUBSET Nat
    BY <1>2
  <2>2. PICK i \in bad : \A x \in bad : i <= x
    BY <1>5, <2>1, LeastExists
  <2>3. i # 0
    BY <1>4, <2>2, EmptySeq
  <2>4. i \in 1 .. n /\ i - 1 \in 0 .. n /\ ~ (i <= i - 1)
    BY <1>2, <2>2, <2>3
  <2>5. f[i - 1] \in Seq(P) /\ path[i] \in T
    BY <1>2, <2>2, <2>4
  <2>6. AbsPush(f[i - 1], path[i]) \in Seq(P)
    BY <1>1, <2>5, PlainPush
  <2> QED
    BY <1>4, <2>2, <2>4, <2>6
<1>6. PICK out : out = f[n]
  OBVIOUS
<1>7. out \in Seq(P)
  <2>1. n \in 0 .. n
    BY <1>2
  <2> QED
    BY <1>5, <1>6, <2>1
<1>8. out # <<>> => Proper(<<"">> \o out)
  BY <1>1, <1>7, PlainIsProper
<1>9. Clean(path) = AbsRooted(out)
  BY <1>3, <1>6
<1>10. AbsRooted(out) = IF out = <<>> THEN <<"", "">> ELSE <<"">> \o out
  BY DEF AbsRooted, Rooted
<1> QED
  BY <1>8, <1>9, <1>10

\* Nothing is cleaned away of a proper path.
LEMMA ProperKeeps ==
    ASSUME NEW path, Proper(path), NEW g, PushedOn(g, <<>>, path)
    PROVE  g[Len(path)] # <<>> /\ path = <<"">> \o g[Len(path)]
<1>1. PICK T, n : T = Range(path) /\ n = Len(path)
  OBVIOUS
<1>2. path \in Seq(T) /\ n \in Nat /\ n > 1
  BY <1>1, LenProperties DEF Proper, IsPath
<1>11. \A i \in 1 .. n : path[i] \in T
  BY <1>1, <1>2, ElementOfSeq
<1>12. path[1] = "" /\ \A i \in 2 .. n : path[i] \notin Special
  BY <1>1 DEF Proper
<1>3. g[0] = <<>> /\ \A i \in 1 .. n : g[i] = AbsPush(g[i - 1], path[i])
  BY <1>1 DEF PushedOn
<1>4. \A s : \A x : x \notin Special => AbsPush(s, x) = Append(s, x)
  BY DEF AbsPush, Push, Special
<1> DEFINE Rest(i) == SubSeq(path, 2, i)
           bad == {i \in 1 .. n : g[i] # Rest(i)}
<1>5. g[1] = Rest(1)
  <2>4. 1 \in 1 .. n /\ 1 - 1 = 0
    BY <1>2
  <2>1. g[1] = AbsPush(<<>>, "")
    BY <1>3, <1>12, <2>4
  <2>2. AbsPush(<<>>, "") = <<>>
    BY DEF AbsPush, Push
  <2>3. Rest(1) = <<>>
    BY SubSeqEmpty
  <2> QED
    BY <2>1, <2>2, <2>3
<1>6. ASSUME NEW i \in 2 .. n
      PROVE  Rest(i) = Append(Rest(i - 1), path[i])
  <2>1. SubSeq(path, 2, i) = SubSeq(path, 2, i - 1) \o <<path[i]>>
    <3>1. 2 \in 1 .. Len(path) /\ i \in 2 .. Len(path)
      BY <1>1, <1>2
    <3> QED
      BY <1>2, <3>1, SubSeqRecursiveSecond
  <2>2. SubSeq(path, 2, i - 1) \in Seq(T) /\ path[i] \in T
    <3>1. \A k \in 2 .. (i - 1) : path[k] \in T
      BY <1>2, <1>11
    <3>2. i - 1 \in Int /\ i \in 1 .. n
      BY <1>2
    <3> QED
      BY <1>11, <3>1, <3>2, SubSeqProperties
  <2> QED
    BY <2>1, <2>2, AppendIsConcat
<1> HIDE DEF Rest
<1>7. ASSUME bad # {}
      PROVE  FALSE
  <2>1. bad \in SUBSET Nat
    BY <1>2
  <2>2. PICK i \in bad : \A x \in bad : i <= x
    BY <1>7, <2>1, LeastExists
  <2>3. i # 1
    BY <1>5, <2>2
  <2>4. i \in 2 .. n /\ i \in 1 .. n /\ i - 1 \in 1 .. n /\ ~ (i <= i - 1)
    BY <1>2, <2>2, <2>3
  <2>5. g[i - 1] = Rest(i - 1)
    BY <2>2, <2>4
  <2>6. g[i] = Append(Rest(i - 1), path[i])
    BY <1>12, <1>3, <1>4, <2>4, <2>5
  <2> QED
    BY <1>6, <2>2, <2>4, <2>6
<1>8. g[n] = Rest(n)
  <2>1. n \in 1 .. n
    BY <1>2
  <2> QED
    BY <1>7, <2>1
<1>9. path = <<"">> \o Rest(n)
  <2>1. SubSeq(path, 1, n) = path
    BY <1>1, <1>2, SubSeqFull
  <2>3. 1 + 1 = 2
    OBVIOUS
  <2>2. SubSeq(path, 1, n) = <<path[1]>> \o SubSeq(path, 1 + 1, n)
    <3>1. 1 \in 1 .. Len(path) /\ n \in 1 .. Len(path)
      BY <1>1, <1>2
    <3> QED
      BY <1>2, <3>1, SubSeqRecursiveFirst
  <2> QED
    BY Zenon, <1>12, <2>1, <2>2, <2>3 DEF Rest
<1>10. Rest(n) # <<>>
  <2>1. \A k \in 2 .. n : path[k] \in T
    BY <1>2, <1>11
  <2>2. n \in Int /\ Len(SubSeq(path, 2, n)) = n - 2 + 1
    BY <1>2, <2>1, SubSeqProperties
  <2>3. n - 2 + 1 # 0
    BY <1>2
  <2>4. Len(<<>>) = 0
    OBVIOUS
  <2> QED
    BY <2>2, <2>3, <2>4 DEF Rest
<1> QED
  BY <1>1, <1>8, <1>9, <1>10

-----------------------------------------------------------------------------
\* One path begins as another one does.
Begins(a, b) == Len(a) <= Len(b) /\ \A i \in 1 .. Len(a) : a[i] = b[i]

LEMMA PrefixBegins ==
    ASSUME NEW a, IsPath(a), NEW b, IsPath(b)
    PROVE  IsPrefix(a, b) <=> Begins(a, b)
<1>1. PICK m, n : m = Len(a) /\ n = Len(b)
  OBVIOUS
<1>2. m \in Nat /\ n \in Nat
  BY <1>1, LenProperties DEF IsPath
<1>3. \A i \in 1 .. m : a[i] \in Range(a)
  BY <1>1, ElementOfSeq DEF IsPath
<1>4. \A i \in 1 .. n : b[i] \in Range(b)
  BY <1>1, ElementOfSeq DEF IsPath
<1>5. CASE m <= n
  <2>1. SubSeq(a, 1, m) = a
    BY <1>1, SubSeqFull DEF IsPath
  <2>2. /\ SubSeq(b, 1, m) \in Seq(Range(b)) /\ Len(SubSeq(b, 1, m)) = m
        /\ \A i \in 1 .. m : SubSeq(b, 1, m)[i] = b[i]
    <3>1. \A i \in 1 .. m : b[i] \in Range(b)
      BY <1>2, <1>4, <1>5
    <3>2. /\ SubSeq(b, 1, m) \in Seq(Range(b))
          /\ Len(SubSeq(b, 1, m)) = IF 1 <= m THEN m - 1 + 1 ELSE 0
          /\ \A i \in 1 .. m - 1 + 1 : SubSeq(b, 1, m)[i] = b[1 + i - 1]
      BY <1>2, <3>1, SubSeqProperties
    <3>3. (IF 1 <= m THEN m - 1 + 1 ELSE 0) = m /\ m - 1 + 1 = m /\ \A i \in 1 .. m : 1 + i - 1 = i
      BY <1>2
    <3> QED
      BY <3>2, <3>3
  <2>3. PICK c : c = SubSeq(b, 1, m)
    OBVIOUS
  <2>4. a = c <=> \A i \in 1 .. m : a[i] = c[i]
    <3>1. a \in Seq(Range(a) \union Range(b)) /\ c \in Seq(Range(a) \union Range(b))
      BY <2>2, <2>3, SeqMonotonic DEF IsPath
    <3>2. Len(a) = Len(c)
      BY <1>1, <2>2, <2>3
    <3>3. (\A i \in 1 .. Len(a) : a[i] = c[i]) => a = c
      BY <3>1, <3>2, SeqEqual
    <3> QED
      BY <1>1, <3>3
  <2>5. \A i \in 1 .. m : c[i] = b[i]
    BY <2>2, <2>3
  <2> QED
    BY <1>1, <1>5, <2>1, <2>3, <2>4, <2>5 DEF IsPrefix, Begins
<1>6. CASE ~ (m <= n)
  BY <1>1, <1>6 DEF IsPrefix, Begins
<1> QED
  BY <1>5, <1>6

\* The lower-case form of a path has its length, and the same empty segments.
LEMMA LowerPath ==
    ASSUME NEW path, IsPath(path)
    PROVE  /\ IsPath(Lower(path)) /\ Len(Lower(path)) = Len(path)
           /\ \A i \in 1 .. Len(path) : Lower(path)[i] = "" <=> path[i] = ""
<1>1. PICK each : each = Lower(path)
  OBVIOUS
<1>2. each = [i \in DOMAIN path |-> each[i]]
  BY <1>1 DEF Lower
<1>3. IsList(path)
  BY DEF IsPath, IsList
<1>4. IsList(each) /\ Len(each) = Len(path)
  BY <1>2, <1>3, EachList
<1>5. DOMAIN path = 1 .. Len(path)
  BY LenProperties DEF IsPath
<1>6. \A i \in 1 .. Len(path) : Lower(path)[i] = "" <=> path[i] = ""
  BY <1>5, FoldedAssumption DEF Lower
<1> QED
  BY <1>1, <1>4, <1>6 DEF IsPath, IsList

\* What begins as a path does it in lower case.
LEMMA LowerBegins ==
    ASSUME NEW a, IsPath(a), NEW b, IsPath(b), Begins(a, b)
    PROVE  Begins(Lower(a), Lower(b))
<1>1. Len(Lower(a)) = Len(a) /\ Len(Lower(b)) = Len(b)
  BY LowerPath
<1>2. Len(a) \in Nat /\ Len(b) \in Nat /\ DOMAIN a = 1 .. Len(a) /\ DOMAIN b = 1 .. Len(b)
  BY LenProperties DEF IsPath
<1>3. Len(a) <= Len(b) /\ \A i \in 1 .. Len(a) : a[i] = b[i]
  BY DEF Begins
<1>4. ASSUME NEW i \in 1 .. Len(a)
      PROVE  Lower(a)[i] = Lower(b)[i]
  <2>1. i \in DOMAIN a /\ i \in DOMAIN b /\ a[i] = b[i]
    BY <1>2, <1>3
  <2> QED
    BY <2>1 DEF Lower
<1> QED
  BY <1>1, <1>3, <1>4 DEF Begins

\* A path is within each directory that it begins as.
LEMMA BelowIsWithin ==
    ASSUME NEW a, IsPath(a), NEW b, IsPath(b), IsPrefix(a, b)
    PROVE  Within(b, a)
<1>1. Begins(Lower(a), Lower(b))
  BY PrefixBegins, LowerBegins
<1>2. IsPath(Lower(a)) /\ IsPath(Lower(b))
  BY LowerPath
<1> QED
  BY <1>1, <1>2, PrefixBegins DEF Within

\* What is within a directory within another one is within that one.
LEMMA BeginsTransitive ==
    ASSUME NEW a, IsPath(a), NEW b, IsPath(b), NEW c, IsPath(c), Begins(a, b), Begins(b, c)
    PROVE  Begins(a, c)
<1>1. PICK l, m, n : l = Len(a) /\ m = Len(b) /\ n = Len(c)
  OBVIOUS
<1>2. l \in Nat /\ m \in Nat /\ n \in Nat
  BY <1>1, LenProperties DEF IsPath
<1>3. l <= m /\ m <= n /\ (\A i \in 1 .. l : a[i] = b[i]) /\ (\A i \in 1 .. m : b[i] = c[i])
  BY <1>1 DEF Begins
<1>4. l <= n /\ \A i \in 1 .. l : i \in 1 .. m
  BY <1>2, <1>3
<1>5. \A i \in 1 .. l : a[i] = c[i]
  BY <1>3, <1>4
<1> QED
  BY <1>1, <1>4, <1>5 DEF Begins

LEMMA WithinTransitive ==
    ASSUME NEW a, IsPath(a), NEW b, IsPath(b), NEW c, IsPath(c), Within(b, a), Within(c, b)
    PROVE  Within(c, a)
<1>1. IsPath(Lower(a)) /\ IsPath(Lower(b)) /\ IsPath(Lower(c))
  BY LowerPath
<1>2. Begins(Lower(a), Lower(b)) /\ Begins(Lower(b), Lower(c))
  BY <1>1, PrefixBegins DEF Within
<1>3. Begins(Lower(a), Lower(c))
  BY <1>1, <1>2, BeginsTransitive
<1> QED
  BY <1>1, <1>3, PrefixBegins DEF Within

-----------------------------------------------------------------------------
\* A path after a directory that is not empty begins as the directory.
LEMMA AfterBegins ==
    ASSUME NEW T, NEW a \in Seq(T), NEW b \in Seq(T)
    PROVE  Begins(a, a \o b)
<1>1. PICK m, n : m = Len(a) /\ n = Len(b)
  OBVIOUS
<1>2. m \in Nat /\ n \in Nat
  BY <1>1, LenProperties
<1>3. Len(a \o b) = m + n /\ \A i \in 1 .. m + n : (a \o b)[i] = IF i <= m THEN a[i] ELSE b[i - m]
  BY <1>1, ConcatProperties
<1>4. m <= m + n /\ \A i \in 1 .. m : i \in 1 .. m + n /\ i <= m
  BY <1>2
<1> QED
  BY <1>1, <1>3, <1>4 DEF Begins

\* The second segment of a proper path.
LEMMA SecondOfProper ==
    ASSUME NEW path, Proper(path)
    PROVE  2 \in 1 .. Len(path) /\ path[2] \notin Special /\ IsAbs(path)
<1>1. Len(path) \in Nat /\ Len(path) > 1
  BY LenProperties DEF Proper, IsPath
<1>2. 2 \in 1 .. Len(path) /\ 2 \in 2 .. Len(path)
  BY <1>1
<1> QED
  BY <1>1, <1>2 DEF Proper, IsAbs

\* What is joined to an absolute directory is clean.
LEMMA JoinedIsClean ==
    ASSUME NEW root, IsPath(root), IsAbs(root), NEW rel, IsPath(rel)
    PROVE  Join(root, rel) = <<"", "">> \/ Proper(Join(root, rel))
<1>1. PICK path : path = root \o rel
  OBVIOUS
<1>2. IsPath(root) /\ Len(root) > 1 /\ root[1] = ""
  BY DEF IsAbs
<1>3. PICK T : T = Range(root) \union Range(rel)
  OBVIOUS
<1>4. Range(root) \subseteq T /\ Range(rel) \subseteq T
  BY <1>3
<1>5. root \in Seq(T) /\ rel \in Seq(T)
  BY <1>2, <1>4, SeqMonotonic DEF IsPath
<1>6. path \in Seq(T) /\ Begins(root, path)
  BY <1>1, <1>5, ConcatProperties, AfterBegins
<1>7. IsPath(path)
  BY <1>6, SeqOfRange DEF IsPath
<1>8. Len(path) \in Nat /\ Len(root) \in Nat
  BY <1>5, <1>6, LenProperties
<1>9. Len(path) > 1 /\ 1 \in 1 .. Len(root)
  <2>1. Len(root) <= Len(path) /\ Len(root) > 1
    BY <1>2, <1>6 DEF Begins
  <2> QED
    BY <1>8, <2>1
<1>10. path[1] = ""
  BY <1>2, <1>6, <1>9 DEF Begins
<1> QED
  BY <1>1, <1>7, <1>9, <1>10, CleanIsProper DEF IsAbs, Join

LEMMA JoinIsClean ==
    ASSUME NEW root, Proper(root), NEW rel, IsPath(rel)
    PROVE  Join(root, rel) = <<"", "">> \/ Proper(Join(root, rel))
<1>1. IsPath(root) /\ IsAbs(root)
  BY SecondOfProper DEF Proper
<1> QED
  BY <1>1, JoinedIsClean

\* A safe path is below the directory that it is joined to.
LEMMA JoinIsInside ==
    ASSUME NEW root, Proper(root), NEW rel, IsPath(rel), Safe(rel)
    PROVE  Proper(Join(root, rel)) /\ IsPrefix(root, Join(root, rel))
<1>1. IsPath(root) /\ IsAbs(root)
  BY SecondOfProper DEF Proper
<1>2. PICK g : PushedOn(g, <<>>, root)
  BY <1>1, AbsKeeps
<1>12. PICK empty : empty = ""
  OBVIOUS
<1>3. PICK T, S, W, e, base :
        T = Range(root) \union Range(rel) /\ S = Solid(T) /\ W = T \union {empty} /\ e = <<empty>> /\ base = g[Len(root)]
  OBVIOUS
<1>4. Range(root) \subseteq T /\ Range(rel) \subseteq T /\ S \subseteq W
  BY <1>3 DEF Solid
<1>5. root \in Seq(T) /\ rel \in Seq(T)
  BY <1>1, <1>4, SeqMonotonic DEF IsPath
<1>6. base \in Seq(S) /\ \E out \in Seq(S) : Join(root, rel) = AbsRooted(base \o out)
  <2>1. /\ g[Len(root)] \in Seq(S)
        /\ \E out \in Seq(S) : Clean(rel) = RelRooted(out) /\ Join(root, rel) = AbsRooted(g[Len(root)] \o out)
    <3>1. S = Solid(T) /\ IsAbs(root) /\ Safe(rel)
      BY <1>1, <1>3
    <3> QED
      BY <1>2, <1>5, <3>1, JoinIsBelow
  <2> QED
    BY <1>3, <2>1
<1>7. PICK out \in Seq(S) : Join(root, rel) = AbsRooted(base \o out)
  BY <1>6
<1>8. base # <<>> /\ root = e \o base
  BY <1>2, <1>3, <1>12, ProperKeeps
<1>9. base \o out \in Seq(S) /\ base \o out # <<>>
  BY <1>6, <1>8, ConcatProperties, ConcatEqualIffEmpty
<1>10. Join(root, rel) = e \o (base \o out)
  BY <1>3, <1>7, <1>9, <1>12 DEF AbsRooted, Rooted
<1>11. e \in Seq(W) /\ base \in Seq(W) /\ out \in Seq(W)
  <2>1. e \in Seq(W)
    BY <1>3
  <2> QED
    BY <1>4, <1>6, <2>1, SeqMonotonic
<1>13. e \o (base \o out) = (e \o base) \o out
  BY <1>11, ConcatAssociative
<1>14. Join(root, rel) = root \o out
  BY <1>8, <1>10, <1>13
<1>15. root \in Seq(W)
  BY <1>8, <1>11, ConcatProperties
<1>16. Begins(root, Join(root, rel)) /\ IsPath(Join(root, rel))
  BY <1>1, <1>11, <1>14, <1>15, AfterBegins, JoinIsPath
<1>17. Join(root, rel) # <<"", "">>
  <2>1. 2 \in 1 .. Len(root) /\ root[2] # ""
    BY SecondOfProper DEF Special
  <2>2. Join(root, rel)[2] = root[2]
    BY <1>16, <2>1 DEF Begins
  <2>3. <<"", "">>[2] = ""
    OBVIOUS
  <2> QED
    BY <2>1, <2>2, <2>3
<1>18. Proper(Join(root, rel))
  BY <1>17, JoinIsClean
<1> QED
  BY <1>1, <1>16, <1>18, PrefixBegins

\* What a proper path begins as is proper, if it is not "".
LEMMA BeginningIsProper ==
    ASSUME NEW path, Proper(path), NEW a, IsPath(a), Begins(a, path), Len(a) > 1
    PROVE  Proper(a)
<1>1. PICK m, n : m = Len(a) /\ n = Len(path)
  OBVIOUS
<1>2. m \in Nat /\ n \in Nat
  BY <1>1, LenProperties DEF Proper, IsPath
<1>3. m > 1 /\ m <= n
  BY <1>1 DEF Begins
<1>4. 1 \in 1 .. m /\ \A i \in 2 .. m : i \in 1 .. m /\ i \in 2 .. n
  BY <1>2, <1>3
<1>5. \A i \in 1 .. m : a[i] = path[i]
  BY <1>1 DEF Begins
<1>6. path[1] = "" /\ \A i \in 2 .. n : path[i] \notin Special
  BY <1>1 DEF Proper
<1>7. a[1] = "" /\ \A i \in 2 .. m : a[i] \notin Special
  BY <1>4, <1>5, <1>6
<1> QED
  BY <1>1, <1>7 DEF Proper

\* Two segments.
LEMMA TwoArePath ==
    ASSUME NEW x, NEW y
    PROVE  IsPath(<<x, y>>) /\ 2 \in 1 .. Len(<<x, y>>) /\ <<x, y>>[2] = y
<1>1. <<x, y>> \in Seq({x, y})
  OBVIOUS
<1>2. PICK path : path = <<x, y>>
  OBVIOUS
<1>3. Len(path) = 2 /\ path[2] = y
  BY <1>2
<1>4. IsPath(path)
  BY <1>1, <1>2, SeqOfRange DEF IsPath
<1>5. 2 \in 1 .. Len(path)
  BY <1>3
<1> QED
  BY <1>2, <1>3, <1>4, <1>5

\* What is clean and within a proper directory is proper.
LEMMA WithinIsProper ==
    ASSUME NEW top, Proper(top), NEW path, path = <<"", "">> \/ Proper(path), Within(path, top)
    PROVE  Proper(path)
<1>1. SUFFICES ASSUME path = <<"", "">> PROVE FALSE
  OBVIOUS
<1>2. IsPath(path) /\ 2 \in 1 .. Len(path) /\ path[2] = ""
  BY <1>1, TwoArePath
<1>3. IsPath(top) /\ 2 \in 1 .. Len(top) /\ top[2] # ""
  BY SecondOfProper DEF Proper, Special
<1>4. Begins(Lower(top), Lower(path))
  BY <1>2, <1>3, LowerPath, PrefixBegins DEF Within
<1>5. Lower(top)[2] = Lower(path)[2]
  BY <1>3, <1>4, LowerPath DEF Begins
<1> QED
  BY <1>2, <1>3, <1>5, LowerPath

-----------------------------------------------------------------------------
\* What is clean and absolute.
Cleaned(path) == path = <<"", "">> \/ Proper(path)

\* A list of a set's items.
LEMMA FirstOfList ==
    ASSUME NEW items, IsList(items), items # <<>>
    PROVE  /\ 1 \in DOMAIN items /\ items[1] \in Range(items)
           /\ Len(items) \in DOMAIN items /\ Last(items) \in Range(items)
<1>1. Len(items) \in Nat \ {0} /\ DOMAIN items = 1 .. Len(items)
  BY EmptySeq, LenProperties DEF IsList
<1>2. 1 \in 1 .. Len(items) /\ Len(items) \in 1 .. Len(items)
  BY <1>1
<1> QED
  BY <1>1, <1>2 DEF Last, Range

LEMMA OneList ==
    ASSUME NEW x
    PROVE  IsList(<<x>>) /\ Range(<<x>>) = {x}
<1>1. PICK one : one = <<x>>
  OBVIOUS
<1>2. one \in Seq({x}) /\ Len(one) = 1 /\ one[1] = x
  BY <1>1
<1>3. DOMAIN one = {1}
  BY <1>1
<1>4. Range(one) = {x}
  BY <1>2, <1>3 DEF Range
<1> QED
  BY <1>1, <1>2, <1>4 DEF IsList

\* A list with items has some in its range.
LEMMA ListWithItems ==
    ASSUME NEW items, IsList(items), NEW x \in Range(items)
    PROVE  items # <<>>
BY DEF Range

\* A directory and a name in it.
LEMMA AppendIsPath ==
    ASSUME NEW path, IsPath(path), NEW name
    PROVE  /\ IsPath(Append(path, name)) /\ Begins(path, Append(path, name))
           /\ Len(Append(path, name)) = Len(path) + 1 /\ Append(path, name)[Len(path) + 1] = name
<1>1. PICK T : T = Range(path) \union {name}
  OBVIOUS
<1>2. Range(path) \subseteq T /\ name \in T
  BY <1>1
<1>3. path \in Seq(T)
  BY <1>2, SeqMonotonic DEF IsPath
<1>4. /\ Append(path, name) \in Seq(T) /\ Len(Append(path, name)) = Len(path) + 1
      /\ \A i \in 1 .. Len(path) : Append(path, name)[i] = path[i]
      /\ Append(path, name)[Len(path) + 1] = name
  BY <1>2, <1>3, AppendProperties
<1>5. Len(path) \in Nat
  BY <1>3, LenProperties
<1>6. Len(path) <= Len(path) + 1
  BY <1>5
<1>7. IsPath(Append(path, name))
  BY <1>4, SeqOfRange DEF IsPath
<1> QED
  BY <1>4, <1>6, <1>7 DEF Begins

\* Two segments begin as two segments only.
LEMMA TwoBegin ==
    ASSUME NEW e, NEW path, IsPath(path), Len(path) > 1, Begins(path, <<e, e>>)
    PROVE  path = <<e, e>>
<1>1. PICK f : f = <<e, e>>
  OBVIOUS
<1>2. Len(f) = 2
  BY <1>1
<1>3. Len(path) \in Nat /\ Len(path) <= 2 /\ \A i \in 1 .. Len(path) : path[i] = f[i]
  BY <1>1, <1>2, LenProperties DEF Begins, IsPath
<1>4. Len(path) = 2
  <2>1. PICK n : n = Len(path)
    OBVIOUS
  <2>2. n \in Nat /\ n <= 2 /\ n > 1
    BY <1>3, <2>1
  <2>3. \A k \in Nat : k <= 2 /\ k > 1 => k = 2
    OBVIOUS
  <2> QED
    BY <2>1, <2>2, <2>3
<1>5. PICK T : T = Range(path) \union {e}
  OBVIOUS
<1>6. path \in Seq(T)
  BY <1>5, SeqMonotonic DEF IsPath
<1>7. f \in Seq(T)
  BY <1>1, <1>5
<1>8. path = f
  BY <1>2, <1>3, <1>4, <1>6, <1>7, SeqEqual
<1> QED
  BY <1>1, <1>8

\* A directory on a disk of clean paths is proper.
Filed(disk) == \A path \in disk : Cleaned(path)

LEMMA DirIsProper ==
    ASSUME NEW disk, Filed(disk), NEW path, IsPath(path), Len(path) > 1, IsDir(disk, path)
    PROVE  Proper(path)
<1>1. PICK f \in disk : IsPrefix(path, f) /\ path # f
  BY DEF IsDir, IsStrictPrefix
<1>2. CASE Proper(f)
  <2>1. Begins(path, f)
    BY <1>1, <1>2, PrefixBegins DEF Proper
  <2> QED
    BY <1>2, <2>1, BeginningIsProper
<1>3. CASE f = <<"", "">>
  <2>1. PICK e : e = ""
    OBVIOUS
  <2>2. f = <<e, e>>
    BY <1>3, <2>1
  <2>3. IsPath(f)
    BY <2>2, TwoArePath
  <2>4. Begins(path, f)
    BY <1>1, <2>3, PrefixBegins
  <2>9. path = f
    BY <2>2, <2>4, TwoBegin
  <2> QED
    BY <1>1, <2>9
<1> QED
  BY <1>1, <1>2, <1>3 DEF Filed, Cleaned

\* The parent of a clean path is clean, and what is above it is above its parent too.
LEMMA FrontIsPath ==
    ASSUME NEW path, IsPath(path), Len(path) > 1
    PROVE  IsPath(Front(path)) /\ Begins(Front(path), path) /\ Len(Front(path)) = Len(path) - 1
<1>1. PICK n : n = Len(path)
  OBVIOUS
<1>2. n \in Nat /\ n > 1 /\ \A i \in 1 .. n : path[i] \in Range(path)
  BY <1>1, LenProperties, ElementOfSeq DEF IsPath
<1>3. /\ SubSeq(path, 1, n - 1) \in Seq(Range(path))
      /\ Len(SubSeq(path, 1, n - 1)) = IF 1 <= n - 1 THEN n - 1 - 1 + 1 ELSE 0
      /\ \A i \in 1 .. n - 1 - 1 + 1 : SubSeq(path, 1, n - 1)[i] = path[1 + i - 1]
  <2>1. n - 1 \in Int /\ \A i \in 1 .. n - 1 : path[i] \in Range(path)
    BY <1>2
  <2> QED
    BY <2>1, SubSeqProperties
<1>4. (IF 1 <= n - 1 THEN n - 1 - 1 + 1 ELSE 0) = n - 1 /\ n - 1 - 1 + 1 = n - 1
  BY <1>2
<1>5. PICK front : front = SubSeq(path, 1, n - 1)
  OBVIOUS
<1>6. front \in Seq(Range(path)) /\ Len(front) = n - 1
  BY <1>3, <1>4, <1>5
<1>7. \A i \in 1 .. n - 1 : front[i] = path[i]
  <2>1. \A i \in 1 .. n - 1 : 1 + i - 1 = i
    BY <1>2
  <2> QED
    BY <1>3, <1>4, <1>5, <2>1
<1>8. n - 1 <= n
  BY <1>2
<1>9. IsPath(front)
  BY <1>6, SeqOfRange DEF IsPath
<1>10. Front(path) = front
  BY <1>1, <1>5 DEF Front
<1> QED
  BY <1>1, <1>6, <1>7, <1>8, <1>9, <1>10 DEF Begins

-----------------------------------------------------------------------------
\* The parent of a clean path is clean.
LEMMA ParentIsClean ==
    ASSUME NEW path, Cleaned(path)
    PROVE  Cleaned(Parent(path))
<1>1. CASE Proper(path)
  <2>1. IsPath(path) /\ Len(path) > 1 /\ IsAbs(path)
    BY <1>1, SecondOfProper DEF Proper
  <2>2. CASE Len(path) = 2
    <3>1. Len(path) # 1
      BY <2>2
    <3> QED
      BY <2>1, <2>2, <3>1 DEF Parent, Cleaned
  <2>3. CASE Len(path) # 2
    <3>1. Len(path) \in Nat
      BY <2>1, LenProperties DEF IsPath
    <3>4. \A n \in Nat : n > 1 /\ n # 2 => n # 1 /\ n - 1 > 1
      OBVIOUS
    <3>2. Len(path) # 1 /\ Len(path) - 1 > 1
      BY <2>1, <2>3, <3>1, <3>4
    <3>3. Proper(Front(path))
      BY <1>1, <2>1, <3>2, FrontIsPath, BeginningIsProper
    <3> QED
      BY <2>3, <3>2, <3>3 DEF Parent, Cleaned
  <2> QED
    BY <2>2, <2>3
<1>2. CASE path = <<"", "">>
  <2>1. PICK e : e = ""
    OBVIOUS
  <2>2. path = <<e, e>>
    BY <1>2, <2>1
  <2>3. Len(path) = 2 /\ Len(path) # 1
    BY <2>2
  <2>4. path[1] = e /\ Len(path) > 1
    BY <2>2
  <2>5. IsAbs(path)
    BY <2>1, <2>4 DEF IsAbs
  <2> QED
    BY <2>3, <2>5 DEF Parent, Cleaned
<1> QED
  BY <1>1, <1>2 DEF Cleaned

\* Nothing changes in a path that is clean already.
LEMMA ProperIsClean ==
    ASSUME NEW path, Proper(path)
    PROVE  Clean(path) = path
<1>1. IsPath(path) /\ IsAbs(path)
  BY SecondOfProper DEF Proper
<1>2. PICK g : PushedOn(g, <<>>, path) /\ Clean(path) = AbsRooted(g[Len(path)])
  BY <1>1, AbsKeeps
<1>3. g[Len(path)] # <<>> /\ path = <<"">> \o g[Len(path)]
  BY <1>2, ProperKeeps
<1> QED
  BY <1>2, <1>3 DEF AbsRooted, Rooted

-----------------------------------------------------------------------------
\* A directory with a manifest has a file in it.
LEMMA ManifestIsFile ==
    ASSUME NEW disk, NEW directory, ManifestsIn(disk, directory) # <<>>
    PROVE  \E name : Append(directory, name) \in disk
<1>1. PICK candidates : candidates = [i \in DOMAIN ManifestNames |-> Append(directory, ManifestNames[i])]
  OBVIOUS
<1>2. IsList(ManifestNames)
  <2>1. ManifestNames \in Seq({"pawn.json", "pawn.yaml"})
    BY DEF ManifestNames
  <2> QED
    BY <2>1, SeqOfRange DEF IsList
<1>3. IsList(candidates)
  BY <1>1, <1>2, EachList
<1>4. IsList(ManifestsIn(disk, directory)) /\ Range(ManifestsIn(disk, directory)) = Range(candidates) \cap disk
  BY <1>1, <1>3, AmongList DEF ManifestsIn
<1>5. ManifestsIn(disk, directory)[1] \in Range(candidates) \cap disk
  BY <1>4, FirstOfList
<1> QED
  BY <1>1, <1>5 DEF Range

\* Projects above a path are directories that it begins as, each with a manifest; one
\* is the path itself when it has a manifest.
LEMMA ProjectsAreAbove ==
    ASSUME NEW disk, NEW path, IsPath(path), Len(path) > 1
    PROVE  /\ IsList(ProjectsAbove(disk, path))
           /\ \A d \in Range(ProjectsAbove(disk, path)) :
                 IsPath(d) /\ Begins(d, path) /\ Len(d) > 1 /\ ManifestsIn(disk, d) # <<>>
           /\ ManifestsIn(disk, path) # <<>> => ProjectsAbove(disk, path) # <<>>
<1>1. PICK n : n = Len(path)
  OBVIOUS
<1>2. n \in Nat /\ n > 1 /\ \A i \in 1 .. n : path[i] \in Range(path)
  BY <1>1, LenProperties, ElementOfSeq DEF IsPath
<1>3. PICK above : above = [i \in 1 .. (n - 1) |-> SubSeq(path, 1, n + 1 - i)]
  OBVIOUS
<1>4. ASSUME NEW i \in 1 .. (n - 1)
      PROVE  IsPath(above[i]) /\ Begins(above[i], path) /\ Len(above[i]) > 1
  <2>1. PICK k : k = n + 1 - i
    OBVIOUS
  <2>2. k \in Nat /\ 2 <= k /\ k <= n
    BY <1>2, <2>1
  <2>3. \A j \in 1 .. k : path[j] \in Range(path)
    BY <1>2, <2>2
  <2>4. /\ SubSeq(path, 1, k) \in Seq(Range(path))
        /\ Len(SubSeq(path, 1, k)) = IF 1 <= k THEN k - 1 + 1 ELSE 0
        /\ \A j \in 1 .. k - 1 + 1 : SubSeq(path, 1, k)[j] = path[1 + j - 1]
    BY <2>2, <2>3, SubSeqProperties
  <2>5. (IF 1 <= k THEN k - 1 + 1 ELSE 0) = k /\ k - 1 + 1 = k /\ \A j \in 1 .. k : 1 + j - 1 = j
    BY <2>2
  <2>6. PICK s : s = SubSeq(path, 1, k)
    OBVIOUS
  <2>7. s \in Seq(Range(path)) /\ Len(s) = k /\ \A j \in 1 .. k : s[j] = path[j]
    BY <2>4, <2>5, <2>6
  <2>8. k > 1
    BY <2>2
  <2>9. IsPath(s)
    BY <2>7, SeqOfRange DEF IsPath
  <2>10. above[i] = s
    BY <1>3, <2>1, <2>6
  <2> QED
    BY <1>1, <2>2, <2>7, <2>8, <2>9, <2>10 DEF Begins
<1>5. IsList(above) /\ DOMAIN above = 1 .. (n - 1)
  <2>1. n - 1 \in Nat
    BY <1>2
  <2>2. DOMAIN above = 1 .. (n - 1) /\ \A i \in 1 .. (n - 1) : above[i] \in Range(above)
    BY <1>3 DEF Range
  <2>3. above \in [1 .. (n - 1) -> Range(above)]
    BY <1>3, <2>2
  <2> QED
    BY <2>1, <2>2, <2>3, SeqDef DEF IsList
<1> DEFINE places == {i \in DOMAIN above : ManifestsIn(disk, above[i]) # <<>>}
<1>6. ProjectsAbove(disk, path) = Picked(above, places)
  BY <1>1, <1>3 DEF ProjectsAbove
<1>7. IsList(Picked(above, places)) /\ Range(Picked(above, places)) = {above[i] : i \in places \cap DOMAIN above}
  BY <1>5, PickedList
<1>8. \A d \in Range(ProjectsAbove(disk, path)) :
         IsPath(d) /\ Begins(d, path) /\ Len(d) > 1 /\ ManifestsIn(disk, d) # <<>>
  BY <1>4, <1>5, <1>6, <1>7
<1>9. ASSUME ManifestsIn(disk, path) # <<>>
      PROVE  ProjectsAbove(disk, path) # <<>>
  <2>1. SubSeq(path, 1, n) = path
    BY <1>1, SubSeqFull DEF IsPath
  <2>2. 1 \in 1 .. (n - 1) /\ n + 1 - 1 = n
    BY <1>2
  <2>3. above[1] = path
    BY <1>3, <2>1, <2>2
  <2>4. path \in Range(Picked(above, places))
    BY <1>5, <1>7, <1>9, <2>2, <2>3
  <2> QED
    BY <1>6, <1>7, <2>4, ListWithItems
<1> QED
  BY <1>6, <1>7, <1>8, <1>9

\* Nothing is in a directory with two names that are empty.
LEMMA RootIsProper ==
    ASSUME NEW disk, Filed(disk), NEW path, Cleaned(path), NEW root, IsPath(root), Len(root) > 1,
           Begins(root, path), ManifestsIn(disk, root) # <<>>
    PROVE  Proper(root)
<1>1. CASE Proper(path)
  BY <1>1, BeginningIsProper
<1>2. CASE path = <<"", "">>
  <2>1. PICK e : e = ""
    OBVIOUS
  <2>2. root = <<e, e>>
    BY <1>2, <2>1, TwoBegin
  <2>3. PICK name : Append(root, name) \in disk
    BY ManifestIsFile
  <2>4. PICK file : file = Append(root, name)
    OBVIOUS
  <2>5. Len(root) = 2 /\ root[2] = e /\ 2 \in 1 .. Len(root)
    BY <2>2, TwoArePath
  <2>11. Begins(root, file) /\ Len(file) = Len(root) + 1
    BY <2>4, AppendIsPath
  <2>6. Len(file) = 3 /\ file[2] = e
    BY <2>5, <2>11 DEF Begins
  <2>7. Len(<<e, e>>) = 2
    OBVIOUS
  <2>8. file # <<e, e>>
    BY <2>6, <2>7
  <2>9. Proper(file)
    BY <2>1, <2>3, <2>4, <2>8 DEF Filed, Cleaned
  <2>10. file[2] \notin Special
    BY <2>9, SecondOfProper
  <2> QED
    BY <2>1, <2>6, <2>10 DEF Special
<1> QED
  BY <1>1, <1>2 DEF Cleaned

\* A clean path is a path of two segments at least.
LEMMA CleanedIsPath ==
    ASSUME NEW path, Cleaned(path)
    PROVE  IsPath(path) /\ Len(path) > 1
<1>1. CASE Proper(path)
  BY <1>1 DEF Proper
<1>2. CASE path = <<"", "">>
  <2>1. PICK e : e = ""
    OBVIOUS
  <2>2. path = <<e, e>>
    BY <1>2, <2>1
  <2>3. Len(path) > 1
    BY <2>2
  <2> QED
    BY <2>2, <2>3, TwoArePath
<1> QED
  BY <1>1, <1>2 DEF Cleaned

\* The root that is found is a proper directory with a manifest.
LEMMA FoundRoot ==
    ASSUME NEW disk, Filed(disk), NEW start, IsPath(start), IsAbs(start), FindRoot(disk, start) # Unset
    PROVE  Proper(FindRoot(disk, start)) /\ ManifestsIn(disk, FindRoot(disk, start)) # <<>>
<1>1. PICK path : path = IF IsFile(disk, start) THEN Dir(start) ELSE Clean(start)
  OBVIOUS
<1>2. Cleaned(Clean(start))
  BY CleanIsProper DEF Cleaned
<1>3. Cleaned(path)
  BY <1>1, <1>2, ParentIsClean DEF Dir
<1>4. IsPath(path) /\ Len(path) > 1
  BY <1>3, CleanedIsPath
<1>5. PICK projects : projects = ProjectsAbove(disk, path)
  OBVIOUS
<1>6. FindRoot(disk, start) = NearestOf(projects)
  BY <1>1, <1>5 DEF FindRoot
<1>7. projects # <<>> /\ FindRoot(disk, start) = projects[1]
  BY <1>6 DEF NearestOf
<1>8. /\ IsList(projects)
      /\ \A d \in Range(projects) : IsPath(d) /\ Begins(d, path) /\ Len(d) > 1 /\ ManifestsIn(disk, d) # <<>>
  BY <1>4, <1>5, ProjectsAreAbove
<1>9. PICK root : root = projects[1]
  OBVIOUS
<1>10. root \in Range(projects)
  BY <1>7, <1>8, <1>9, FirstOfList
<1>11. IsPath(root) /\ Begins(root, path) /\ Len(root) > 1 /\ ManifestsIn(disk, root) # <<>>
  BY <1>8, <1>10
<1>12. Proper(root)
  BY <1>3, <1>11, RootIsProper
<1> QED
  BY <1>7, <1>9, <1>11, <1>12

\* The outermost project is a proper directory that the root begins as.
LEMMA FoundBoundary ==
    ASSUME NEW disk, NEW root, Proper(root), ManifestsIn(disk, root) # <<>>
    PROVE  Proper(Boundary(disk, root)) /\ IsPrefix(Boundary(disk, root), root)
<1>1. IsPath(root) /\ Len(root) > 1
  BY DEF Proper
<1>2. PICK projects : projects = ProjectsAbove(disk, root)
  OBVIOUS
<1>3. /\ IsList(projects) /\ projects # <<>>
      /\ \A d \in Range(projects) : IsPath(d) /\ Begins(d, root) /\ Len(d) > 1
  BY <1>1, <1>2, ProjectsAreAbove
<1>4. PICK boundary : boundary = Last(projects)
  OBVIOUS
<1>5. boundary \in Range(projects)
  BY <1>3, <1>4, FirstOfList
<1>6. IsPath(boundary) /\ Begins(boundary, root) /\ Len(boundary) > 1
  BY <1>3, <1>5
<1>7. Proper(boundary) /\ IsPrefix(boundary, root)
  BY <1>1, <1>6, BeginningIsProper, PrefixBegins
<1> QED
  BY <1>2, <1>4, <1>7 DEF Boundary

-----------------------------------------------------------------------------
\* The includes of the build that is selected are paths.
LEMMA SelectedIncludes ==
    ASSUME NEW m, IsManifest(m), NEW name
    PROVE  ArePaths(IncludesOf(SelectBuild(m, name).build))
<1>1. ArePaths(IncludesOf(Unset))
  <2>1. <<>> \in Seq(Range(<<>>)) /\ Range(<<>>) = {}
    BY EmptySeq DEF Range
  <2> QED
    BY <2>1 DEF IncludesOf, ArePaths
<1>2. \A b \in Range(m.builds) \union ({m.build} \ {Unset}) :
         DOMAIN b = {"name", "includes"} /\ ArePaths(b.includes)
  BY DEF IsManifest
<1>3. CASE name = "" /\ m.build # Unset
  <2>1. SelectBuild(m, name).build = m.build
    BY <1>3 DEF SelectBuild
  <2>2. m.build \in {m.build} \ {Unset}
    BY <1>3
  <2> QED
    BY <1>2, <1>3, <2>1, <2>2 DEF IncludesOf
<1>4. CASE ~ (name = "" /\ m.build # Unset)
  <2>1. PICK places : places = {i \in DOMAIN m.builds : name \in {"", m.builds[i].name}}
    OBVIOUS
  <2>2. PICK candidates : candidates = Picked(m.builds, places)
    OBVIOUS
  <2>3. SelectBuild(m, name) =
            IF candidates = <<>> THEN [ok |-> name = "", build |-> Unset]
            ELSE [ok |-> TRUE, build |-> MergeBuild(candidates[1], m.build)]
    BY <1>4, <2>1, <2>2 DEF SelectBuild, Selected
  <2>4. IsList(m.builds)
    BY DEF IsManifest, IsList
  <2>5. IsList(candidates) /\ Range(candidates) = {m.builds[i] : i \in places \cap DOMAIN m.builds}
    BY <2>2, <2>4, PickedList
  <2>6. Range(candidates) \subseteq Range(m.builds)
    BY <2>5 DEF Range
  <2>7. CASE candidates = <<>>
    <3>1. \E lack : SelectBuild(m, name) = [ok |-> lack, build |-> Unset]
      BY Zenon, <2>3, <2>7
    <3>2. SelectBuild(m, name).build = Unset
      BY <3>1
    <3> QED
      BY <1>1, <3>2
  <2>8. CASE candidates # <<>>
    <3>1. PICK b : b = candidates[1]
      OBVIOUS
    <3>2. b \in Range(m.builds)
      BY <2>5, <2>6, <2>8, <3>1, FirstOfList
    <3>3. DOMAIN b = {"name", "includes"} /\ ArePaths(b.includes)
      BY <1>2, <3>2
    <3>4. SelectBuild(m, name).build = MergeBuild(b, m.build)
      BY <2>3, <2>8, <3>1
    <3>5. CASE m.build # Unset /\ b.includes = <<>>
      <4>1. PICK merged : merged = [b EXCEPT !.includes = m.build.includes]
        OBVIOUS
      <4>2. merged.includes = m.build.includes
        BY <3>3, <4>1
      <4>3. MergeBuild(b, m.build) = merged
        BY <3>5, <4>1 DEF MergeBuild
      <4>4. ArePaths(m.build.includes)
        BY <1>2, <3>5
      <4> QED
        BY <1>1, <3>4, <4>2, <4>3, <4>4 DEF IncludesOf
    <3>6. CASE ~ (m.build # Unset /\ b.includes = <<>>)
      <4>1. MergeBuild(b, m.build) = b
        BY <3>6 DEF MergeBuild
      <4> QED
        BY <1>1, <3>3, <3>4, <4>1 DEF IncludesOf
    <3> QED
      BY <3>5, <3>6
  <2> QED
    BY <2>7, <2>8
<1> QED
  BY <1>3, <1>4

\* A list of proper directories at or below one.
AllBelow(items, root) == IsList(items) /\ \A r \in Range(items) : Proper(r) /\ Begins(root, r)

\* A directory is at or below itself.
LEMMA BelowItself ==
    ASSUME NEW root, Proper(root)
    PROVE  Begins(root, root) /\ AllBelow(<<root>>, root)
<1>1. Begins(root, root)
  <2>1. Len(root) \in Nat
    BY LenProperties DEF Proper, IsPath
  <2> QED
    BY <2>1 DEF Begins
<1> QED
  BY <1>1, OneList DEF AllBelow

\* What is at or below a directory that is below another one is below that.
LEMMA AllBelowUp ==
    ASSUME NEW root, IsPath(root), NEW directory, IsPath(directory), Begins(root, directory),
           NEW items, AllBelow(items, directory)
    PROVE  AllBelow(items, root)
<1>1. ASSUME NEW r \in Range(items)
      PROVE  Proper(r) /\ Begins(root, r)
  <2>1. Proper(r) /\ Begins(directory, r) /\ IsPath(r)
    BY DEF AllBelow, Proper
  <2> QED
    BY <2>1, BeginsTransitive
<1> QED
  BY <1>1 DEF AllBelow

\* Safe paths joined to a directory are below it.
LEMMA SafeBelow ==
    ASSUME NEW root, Proper(root), NEW paths, ArePaths(paths)
    PROVE  /\ AllBelow(JoinEach(root, SafeOnes(paths)), root)
           /\ (\A rel \in Range(paths) : Safe(rel)) => AllBelow(JoinEach(root, paths), root)
<1>1. IsList(paths) /\ \A path \in Range(paths) : IsPath(path)
  BY DEF ArePaths, IsList
<1>2. PICK safe : safe = SafeOnes(paths)
  OBVIOUS
<1>3. IsList(safe) /\ \A path \in Range(safe) : IsPath(path) /\ Safe(path)
  <2>1. PICK places : places = {i \in DOMAIN paths : Safe(paths[i])}
    OBVIOUS
  <2>2. safe = Picked(paths, places)
    BY <1>2, <2>1 DEF SafeOnes
  <2>3. IsList(safe) /\ Range(safe) = {paths[i] : i \in places \cap DOMAIN paths}
    BY <1>1, <2>2, PickedList
  <2>4. \A path \in Range(safe) : path \in Range(paths) /\ Safe(path)
    BY <2>1, <2>3 DEF Range
  <2> QED
    BY <1>1, <2>3, <2>4
<1>4. ASSUME NEW list, IsList(list), \A path \in Range(list) : IsPath(path) /\ Safe(path)
      PROVE  AllBelow(JoinEach(root, list), root)
  <2>1. IsList(JoinEach(root, list)) /\ Range(JoinEach(root, list)) = {Join(root, path) : path \in Range(list)}
    BY <1>4, JoinEachList
  <2>2. ASSUME NEW path \in Range(list)
        PROVE  Proper(Join(root, path)) /\ Begins(root, Join(root, path))
    <3>1. IsPath(path) /\ Safe(path)
      BY <1>4
    <3>2. Proper(Join(root, path)) /\ IsPrefix(root, Join(root, path))
      BY <3>1, JoinIsInside
    <3> QED
      BY <3>2, PrefixBegins DEF Proper
  <2> QED
    BY <2>1, <2>2 DEF AllBelow
<1> QED
  BY <1>1, <1>2, <1>3, <1>4

\* What is left of a list, each once, is below a directory when the list is.
LEMMA UniquelyBelow ==
    ASSUME NEW root, NEW items, AllBelow(items, root)
    PROVE  AllBelow(Uniquely(items), root)
BY UniquelyList DEF AllBelow

\* The roots of an installed package are below its directory.
LEMMA DeclaredBelow ==
    ASSUME NEW disk, Filed(disk), NEW root, Proper(root), NEW declared, ArePaths(declared)
    PROVE  AllBelow(DeclaredRoots(disk, root, declared), root)
<1>1. CASE declared # <<>>
  BY <1>1, SafeBelow, UniquelyBelow DEF DeclaredRoots
<1>2. CASE declared = <<>> /\ ~IsDir(disk, Append(root, "include"))
  BY <1>2, BelowItself DEF DeclaredRoots, DependencyFallbackRoots
<1>3. CASE declared = <<>> /\ IsDir(disk, Append(root, "include"))
  <2>1. PICK directory : directory = Append(root, "include")
    OBVIOUS
  <2>2. IsPath(root) /\ Len(root) > 1 /\ Len(root) \in Nat
    BY LenProperties DEF Proper, IsPath
  <2>3. IsPath(directory) /\ Begins(root, directory) /\ Len(directory) = Len(root) + 1
    BY <2>1, <2>2, AppendIsPath
  <2>4. Len(directory) > 1
    BY <2>2, <2>3
  <2>5. Proper(directory)
    BY <1>3, <2>1, <2>3, <2>4, DirIsProper
  <2>6. AllBelow(<<directory>>, root)
    BY <2>3, <2>5, OneList DEF AllBelow
  <2> QED
    BY <1>3, <2>1, <2>6 DEF DeclaredRoots, DependencyFallbackRoots
<1> QED
  BY <1>1, <1>2, <1>3

-----------------------------------------------------------------------------
\* The directories that are listed exist.
LEMMA DirectoriesExist ==
    ASSUME NEW disk, NEW path
    PROVE  /\ IsList(Directories(disk, path))
           /\ \A name \in Range(Directories(disk, path)) : IsDir(disk, Append(path, name))
<1>1. IsList(NameOrder)
  BY ViewAssumption DEF IsList
<1>2. PICK places : places = {i \in DOMAIN NameOrder : IsDir(disk, Append(path, NameOrder[i]))}
  OBVIOUS
<1>3. Directories(disk, path) = Picked(NameOrder, places)
  BY <1>2 DEF Directories
<1>4. /\ IsList(Picked(NameOrder, places))
      /\ Range(Picked(NameOrder, places)) = {NameOrder[i] : i \in places \cap DOMAIN NameOrder}
  BY <1>1, PickedList
<1> QED
  BY <1>2, <1>3, <1>4

\* So do the directories of extracted includes.
LEMMA ExtractionsExist ==
    ASSUME NEW disk, NEW directory
    PROVE  /\ IsList(Extractions(disk, directory))
           /\ \A name \in Range(Extractions(disk, directory)) :
                 name \in DOMAIN ExtractedPackage /\ IsDir(disk, Append(Append(directory, ".resources"), name))
<1>1. PICK below : below = Append(directory, ".resources")
  OBVIOUS
<1>2. PICK names : names = Directories(disk, below)
  OBVIOUS
<1>3. IsList(names) /\ \A name \in Range(names) : IsDir(disk, Append(below, name))
  BY <1>2, DirectoriesExist
<1>4. Extractions(disk, directory) = Among(names, DOMAIN ExtractedPackage)
  BY <1>1, <1>2 DEF Extractions
<1>5. IsList(Among(names, DOMAIN ExtractedPackage))
      /\ Range(Among(names, DOMAIN ExtractedPackage)) = Range(names) \cap DOMAIN ExtractedPackage
  BY <1>3, AmongList
<1> QED
  BY <1>1, <1>3, <1>4, <1>5

\* Those of one package are those that are named after it.
LEMMA ExtractionsOfPackage ==
    ASSUME NEW disk, NEW directory, NEW package
    PROVE  /\ IsList(ExtractionsOf(disk, directory, package))
           /\ Range(ExtractionsOf(disk, directory, package)) =
                 {name \in Range(Extractions(disk, directory)) : ExtractedPackage[name] = package}
<1>1. PICK names : names = Extractions(disk, directory)
  OBVIOUS
<1>2. IsList(names) /\ Range(names) \subseteq DOMAIN ExtractedPackage
  BY <1>1, ExtractionsExist
<1>3. PICK allowed : allowed = {name \in DOMAIN ExtractedPackage : ExtractedPackage[name] = package}
  OBVIOUS
<1>4. ExtractionsOf(disk, directory, package) = Among(names, allowed)
  BY <1>1, <1>3 DEF ExtractionsOf
<1>5. IsList(Among(names, allowed)) /\ Range(Among(names, allowed)) = Range(names) \cap allowed
  BY <1>2, AmongList
<1> QED
  BY <1>1, <1>2, <1>3, <1>4, <1>5

\* Two names after a path, one by one.
LEMMA TwoAfter ==
    ASSUME NEW path, IsPath(path), NEW x, NEW y
    PROVE  path \o <<x, y>> = Append(Append(path, x), y)
<1>1. PICK T : T = Range(path) \union {x, y}
  OBVIOUS
<1>2. path \in Seq(T) /\ x \in T /\ y \in T
  BY <1>1, SeqMonotonic DEF IsPath
<1>3. Append(path, x) \in Seq(T)
  BY <1>2, AppendProperties
<1>4. /\ Append(path, x) = path \o <<x>> /\ Append(Append(path, x), y) = Append(path, x) \o <<y>>
  BY <1>2, <1>3, AppendIsConcat
<1>5. <<x>> \in Seq(T) /\ <<y>> \in Seq(T) /\ <<x>> \o <<y>> = <<x, y>>
  <2>1. <<x>> \in Seq(T) /\ <<y>> \in Seq(T)
    BY <1>2
  <2>2. <<x>> \o <<y>> = Append(<<x>>, y)
    BY <1>2, <2>1, AppendIsConcat
  <2>3. Append(<<x>>, y) = <<x, y>>
    <3>1. PICK one : one = <<x>>
      OBVIOUS
    <3>2. one \in Seq(T) /\ Len(one) = 1 /\ one[1] = x
      BY <2>1, <3>1
    <3>3. PICK both : both = <<x, y>>
      OBVIOUS
    <3>4. both \in Seq(T) /\ Len(both) = 2 /\ both[1] = x /\ both[2] = y
      BY <1>2, <3>3
    <3>5. /\ Append(one, y) \in Seq(T) /\ Len(Append(one, y)) = Len(one) + 1
          /\ \A i \in 1 .. Len(one) : Append(one, y)[i] = one[i]
          /\ Append(one, y)[Len(one) + 1] = y
      <4>1. one \in Seq(T) /\ y \in T
        BY <1>2, <3>2
      <4> QED
        BY <4>1, AppendProperties
    <3>6. PICK end : end = Append(one, y)
      OBVIOUS
    <3>7. end \in Seq(T) /\ Len(end) = 2 /\ end[1] = x /\ end[2] = y
      BY <3>2, <3>5, <3>6
    <3>8. \A i \in 1 .. Len(end) : end[i] = both[i]
      BY <3>4, <3>7
    <3>9. end = both
      BY <3>4, <3>7, <3>8, SeqEqual
    <3> QED
      BY <3>1, <3>3, <3>6, <3>9
  <2> QED
    BY <2>1, <2>2, <2>3
<1>6. (path \o <<x>>) \o <<y>> = path \o (<<x>> \o <<y>>)
  BY <1>2, <1>5, ConcatAssociative
<1> QED
  BY <1>4, <1>5, <1>6

\* A name in a directory that exists.
LEMMA NamedIsBelow ==
    ASSUME NEW disk, Filed(disk), NEW root, Proper(root), NEW directory, IsPath(directory),
           Begins(root, directory), NEW name, IsDir(disk, Append(directory, name))
    PROVE  /\ Proper(Append(directory, name)) /\ Begins(root, Append(directory, name))
<1>1. IsPath(root) /\ Len(root) \in Nat /\ Len(directory) \in Nat /\ Len(root) > 1
  BY LenProperties DEF Proper, IsPath
<1>2. PICK path : path = Append(directory, name)
  OBVIOUS
<1>3. IsPath(path) /\ Begins(directory, path) /\ Len(path) = Len(directory) + 1
  BY <1>2, AppendIsPath
<1>4. Len(root) <= Len(directory)
  BY DEF Begins
<1>5. Len(path) > 1
  BY <1>1, <1>3, <1>4
<1>6. Begins(root, path)
  BY <1>1, <1>3, BeginsTransitive
<1>7. Proper(path)
  BY <1>2, <1>3, <1>5, DirIsProper
<1> QED
  BY <1>2, <1>6, <1>7

\* An installed package is read below its directory.
LEMMA PackageBelow ==
    ASSUME NEW disk, Filed(disk), NEW root, Proper(root)
    PROVE  AllBelow(DependencyPackageRoots(disk, root), root)
<1>1. ArePaths(<<>>)
  <2>1. <<>> \in Seq(Range(<<>>)) /\ Range(<<>>) = {}
    BY EmptySeq DEF Range
  <2> QED
    BY <2>1 DEF ArePaths
<1>2. PICK found : found = ManifestsIn(disk, root)
  OBVIOUS
<1>3. PICK m : m = ManifestAt[found[1]]
  OBVIOUS
<1>4. CASE found = <<>> \/ found[1] \notin DOMAIN ManifestAt
  <2>1. DependencyPackageRoots(disk, root) = DeclaredRoots(disk, root, <<>>)
    BY <1>2, <1>4 DEF DependencyPackageRoots
  <2> QED
    BY <1>1, <2>1, DeclaredBelow
<1>5. CASE ~ (found = <<>> \/ found[1] \notin DOMAIN ManifestAt)
  <2>1. IsManifest(m)
    BY <1>3, <1>5, ViewAssumption
  <2>2. PICK none : none = ""
    OBVIOUS
  <2>3. PICK built : built = IncludesOf(SelectBuild(m, none).build)
    OBVIOUS
  <2>4. ArePaths(built) /\ ArePaths(m.includes)
    BY <2>1, <2>3, SelectedIncludes DEF IsManifest
  <2>5. IsList(built) /\ IsList(m.includes)
    BY <2>4 DEF ArePaths, IsList
  <2>6. IsList(built \o m.includes) /\ Range(built \o m.includes) = Range(built) \union Range(m.includes)
    BY <2>5, ConcatList
  <2>7. ArePaths(built \o m.includes)
    BY <2>4, <2>6 DEF ArePaths, IsList
  <2>8. DependencyPackageRoots(disk, root) = DeclaredRoots(disk, root, built \o m.includes)
    BY <1>2, <1>3, <1>5, <2>2, <2>3 DEF DependencyPackageRoots
  <2> QED
    BY <2>7, <2>8, DeclaredBelow
<1> QED
  BY <1>4, <1>5

\* So is one whose includes are extracted.
LEMMA RootsOfBelow ==
    ASSUME NEW disk, Filed(disk), NEW root, Proper(root), NEW directory, IsPath(directory),
           Begins(root, directory), NEW package,
           IsDir(disk, Append(directory, package)) \/ ExtractionsOf(disk, directory, package) # <<>>
    PROVE  AllBelow(RootsOf(disk, directory, package), root)
<1>1. IsPath(root)
  BY DEF Proper
<1>2. PICK extractions : extractions = ExtractionsOf(disk, directory, package)
  OBVIOUS
<1>3. CASE extractions # <<>>
  <2>1. PICK name : name = Last(extractions)
    OBVIOUS
  <2>2. name \in Range(extractions)
    BY <1>2, <1>3, <2>1, ExtractionsOfPackage, FirstOfList
  <2>3. name \in Range(Extractions(disk, directory))
    BY <1>2, <2>2, ExtractionsOfPackage
  <2>4. PICK hidden : hidden = ".resources"
    OBVIOUS
  <2>5. PICK below : below = Append(directory, hidden)
    OBVIOUS
  <2>6. IsPath(below) /\ Begins(directory, below) /\ Len(below) = Len(directory) + 1
    BY <2>5, AppendIsPath
  <2>7. Begins(root, below)
    BY <1>1, <2>6, BeginsTransitive
  <2>8. IsDir(disk, Append(below, name))
    BY <2>3, <2>4, <2>5, ExtractionsExist
  <2>9. PICK path : path = Append(below, name)
    OBVIOUS
  <2>10. Proper(path) /\ Begins(root, path)
    BY <2>6, <2>7, <2>8, <2>9, NamedIsBelow
  <2>11. RootsOf(disk, directory, package) = <<path>>
    <3>1. directory \o <<hidden, name>> = path
      BY <2>5, <2>9, TwoAfter
    <3> QED
      BY <1>2, <1>3, <2>1, <2>4, <3>1 DEF RootsOf
  <2>12. AllBelow(<<path>>, root)
    BY <2>10, OneList DEF AllBelow
  <2> QED
    BY <2>11, <2>12
<1>4. CASE extractions = <<>>
  <2>1. PICK path : path = Append(directory, package)
    OBVIOUS
  <2>2. IsDir(disk, path)
    BY <1>2, <1>4, <2>1
  <2>3. Proper(path) /\ Begins(root, path) /\ IsPath(path)
    BY <2>1, <2>2, NamedIsBelow DEF Proper
  <2>4. RootsOf(disk, directory, package) = DependencyPackageRoots(disk, path)
    BY <1>2, <1>4, <2>1 DEF RootsOf
  <2>5. AllBelow(DependencyPackageRoots(disk, path), path)
    BY <2>3, PackageBelow
  <2>6. AllBelow(DependencyPackageRoots(disk, path), root)
    BY <1>1, <2>3, <2>5, AllBelowUp
  <2> QED
    BY <2>4, <2>6
<1> QED
  BY <1>3, <1>4

\* Every list of packages that are checked out or extracted is read below the project.
LEMMA PackagesBelow ==
    ASSUME NEW disk, NEW root, NEW directory, NEW packages, IsList(packages),
           \A package \in Range(packages) : AllBelow(RootsOf(disk, directory, package), root)
    PROVE  AllBelow(PackageRoots(disk, directory, packages), root)
<1>1. PICK lists : lists = [i \in DOMAIN packages |-> RootsOf(disk, directory, packages[i])]
  OBVIOUS
<1>2. DOMAIN lists = DOMAIN packages /\ \A i \in DOMAIN packages : lists[i] = RootsOf(disk, directory, packages[i])
  BY <1>1
<1>3. lists = [i \in DOMAIN packages |-> lists[i]]
  BY <1>1, <1>2
<1>4. IsList(lists)
  BY <1>3, EachList
<1>5. PICK T : T = UNION {Range(lists[i]) : i \in DOMAIN lists}
  OBVIOUS
<1>6. ASSUME NEW i \in DOMAIN lists
      PROVE  AllBelow(lists[i], root)
  BY <1>2 DEF Range
<1>7. ASSUME NEW i \in DOMAIN lists
      PROVE  lists[i] \in Seq(T)
  <2>1. lists[i] \in Seq(Range(lists[i]))
    BY <1>6 DEF AllBelow, IsList
  <2>2. Range(lists[i]) \subseteq T
    BY <1>5
  <2> QED
    BY <2>1, <2>2, SeqMonotonic
<1>8. FlattenSeq(lists) \in Seq(T)
  BY <1>4, <1>7, FlattenList
<1>9. \A r \in T : Proper(r) /\ Begins(root, r)
  <2>1. ASSUME NEW r \in T
        PROVE  Proper(r) /\ Begins(root, r)
    <3>1. PICK i \in DOMAIN lists : r \in Range(lists[i])
      BY <1>5
    <3> QED
      BY <1>6, <3>1 DEF AllBelow
  <2> QED
    BY <2>1
<1>10. IsList(FlattenSeq(lists)) /\ Range(FlattenSeq(lists)) \subseteq T
  BY <1>8, SeqOfRange, RangeOfSeq DEF IsList
<1>11. AllBelow(FlattenSeq(lists), root)
  BY <1>9, <1>10 DEF AllBelow
<1>12. AllBelow(Uniquely(FlattenSeq(lists)), root)
  BY <1>11, UniquelyBelow
<1> QED
  BY <1>1, <1>12 DEF PackageRoots

\* The installed dependencies are read below the project.
LEMMA InstalledBelow ==
    ASSUME NEW disk, Filed(disk), NEW root, Proper(root), NEW directory, IsPath(directory),
           Begins(root, directory), NEW repos, IsList(repos)
    PROVE  AllBelow(InstalledDependencyRoots(disk, directory, repos), root)
<1>1. PICK names : names = Directories(disk, directory)
  OBVIOUS
<1>2. IsList(names) /\ \A name \in Range(names) : IsDir(disk, Append(directory, name))
  BY <1>1, DirectoriesExist
<1>3. PICK visible : visible = ToSet(NameOrder) \ {".resources"}
  OBVIOUS
<1>4. PICK packages : packages = CheckedOut(disk, directory)
  OBVIOUS
<1>5. packages = Among(names, visible)
  BY <1>1, <1>3, <1>4 DEF CheckedOut
<1>6. IsList(packages) /\ Range(packages) = Range(names) \cap visible
  BY <1>2, <1>5, AmongList
<1>7. PICK direct : direct = Among(repos, ToSet(packages))
  OBVIOUS
<1>8. IsList(direct) /\ Range(direct) = Range(repos) \cap ToSet(packages)
  BY <1>7, AmongList
<1>9. ToSet(packages) = Range(packages)
  BY DEF ToSet, Range
<1>10. PICK extractions : extractions = Extractions(disk, directory)
  OBVIOUS
<1>11. IsList(extractions)
  BY <1>10, ExtractionsExist
<1>12. PICK extracted : extracted = [i \in DOMAIN extractions |-> ExtractedPackage[extractions[i]]]
  OBVIOUS
<1>13. IsList(extracted) /\ Range(extracted) = {ExtractedPackage[name] : name \in Range(extractions)}
  <2>1. DOMAIN extracted = DOMAIN extractions
        /\ \A i \in DOMAIN extractions : extracted[i] = ExtractedPackage[extractions[i]]
    BY <1>12
  <2>2. extracted = [i \in DOMAIN extractions |-> extracted[i]]
    BY <1>12, <2>1
  <2>3. IsList(extracted)
    BY <1>11, <2>2, EachList
  <2> QED
    BY <2>1, <2>3 DEF Range
<1>14. IsList(direct \o packages) /\ Range(direct \o packages) = Range(direct) \union Range(packages)
  BY <1>6, <1>8, ConcatList
<1>15. PICK checkedOut : checkedOut = direct \o packages
  OBVIOUS
<1>16. /\ IsList(checkedOut \o extracted)
       /\ Range(checkedOut \o extracted) = Range(checkedOut) \union Range(extracted)
  BY <1>13, <1>14, <1>15, ConcatList
<1>17. PICK all : all = checkedOut \o extracted
  OBVIOUS
<1>18. IsList(Uniquely(all)) /\ Range(Uniquely(all)) \subseteq Range(all)
  BY <1>16, <1>17, UniquelyList
<1>19. ASSUME NEW package \in Range(Uniquely(all))
       PROVE  AllBelow(RootsOf(disk, directory, package), root)
  <2>1. package \in Range(packages) \/ package \in Range(extracted)
    BY <1>6, <1>8, <1>9, <1>14, <1>15, <1>16, <1>17, <1>18
  <2>2. CASE package \in Range(packages)
    <3>1. IsDir(disk, Append(directory, package))
      BY <1>2, <1>6, <2>2
    <3> QED
      BY <3>1, RootsOfBelow
  <2>3. CASE package \in Range(extracted)
    <3>1. PICK name \in Range(extractions) : package = ExtractedPackage[name]
      BY <1>13, <2>3
    <3>2. name \in Range(ExtractionsOf(disk, directory, package))
      BY <1>10, <3>1, ExtractionsOfPackage
    <3>3. ExtractionsOf(disk, directory, package) # <<>>
      BY <3>2, ExtractionsOfPackage, ListWithItems
    <3> QED
      BY <3>3, RootsOfBelow
  <2> QED
    BY <2>1, <2>2, <2>3
<1>20. AllBelow(PackageRoots(disk, directory, Uniquely(all)), root)
  BY <1>18, <1>19, PackagesBelow
<1>21. InstalledDependencyRoots(disk, directory, repos) = PackageRoots(disk, directory, Uniquely(all))
  BY <1>4, <1>7, <1>10, <1>12, <1>15, <1>17 DEF InstalledDependencyRoots
<1> QED
  BY <1>20, <1>21

-----------------------------------------------------------------------------
(***************************************************************************)
(* The tops are the outermost project and the roots a tool adds.  A        *)
(* directory is good when it is clean and one of them holds it.            *)
(***************************************************************************)
Held(path, tops) == \E top \in tops : top = <<"", "">> \/ Within(path, top)

Good(directory, tops) == Cleaned(directory) /\ Held(directory, tops)

AllGood(items, tops) == IsList(items) /\ \A r \in Range(items) : Good(r, tops)

\* Lists of good directories, one after the other, and what is left of them.
LEMMA ConcatGood ==
    ASSUME NEW tops, NEW a, AllGood(a, tops), NEW b, AllGood(b, tops)
    PROVE  AllGood(a \o b, tops)
BY ConcatList DEF AllGood

LEMMA UniquelyGood ==
    ASSUME NEW tops, NEW items, AllGood(items, tops)
    PROVE  AllGood(Uniquely(items), tops)
BY UniquelyList DEF AllGood

LEMMA FewAreGood ==
    ASSUME NEW tops
    PROVE  AllGood(<<>>, tops) /\ \A r : Good(r, tops) => AllGood(<<r>>, tops)
<1>1. <<>> \in Seq(Range(<<>>)) /\ Range(<<>>) = {}
  BY EmptySeq DEF Range
<1>2. ASSUME NEW r, Good(r, tops)
      PROVE  AllGood(<<r>>, tops)
  <2>1. IsList(<<r>>) /\ Range(<<r>>) = {r}
    BY OneList
  <2> QED
    BY <1>2, <2>1 DEF AllGood
<1> QED
  BY <1>1, <1>2 DEF AllGood, IsList

\* What is below a project that a top holds is good.
LEMMA BelowIsGood ==
    ASSUME NEW root, IsPath(root), NEW tops, NEW top \in tops, IsPath(top), Within(root, top),
           NEW items, AllBelow(items, root)
    PROVE  AllGood(items, tops)
<1>1. ASSUME NEW r \in Range(items)
      PROVE  Good(r, tops)
  <2>1. Proper(r) /\ IsPath(r) /\ Begins(root, r)
    BY DEF AllBelow, Proper
  <2>2. IsPrefix(root, r)
    BY <2>1, PrefixBegins
  <2>3. Within(r, root)
    BY <2>1, <2>2, BelowIsWithin
  <2>4. Within(r, top)
    BY <2>1, <2>3, WithinTransitive
  <2> QED
    BY <2>1, <2>4 DEF Good, Held, Cleaned
<1> QED
  BY <1>1 DEF AllGood, AllBelow

\* So is what does not escape the outermost project.
LEMMA BuildIsGood ==
    ASSUME NEW root, Proper(root), NEW boundary, Proper(boundary), NEW tops, boundary \in tops,
           NEW paths, ArePaths(paths), \A rel \in Range(paths) : ~Escapes(root, boundary, rel)
    PROVE  AllGood(JoinEach(root, paths), tops)
<1>1. IsList(paths) /\ \A path \in Range(paths) : IsPath(path)
  BY DEF ArePaths, IsList
<1>2. /\ IsList(JoinEach(root, paths))
      /\ Range(JoinEach(root, paths)) = {Join(root, path) : path \in Range(paths)}
  BY <1>1, JoinEachList
<1>3. ASSUME NEW path \in Range(paths)
      PROVE  Good(Join(root, path), tops)
  <2>1. IsPath(path) /\ Within(Join(root, path), boundary)
    BY <1>1 DEF Escapes
  <2>2. Cleaned(Join(root, path))
    BY <2>1, JoinIsClean DEF Cleaned
  <2> QED
    BY <2>1, <2>2 DEF Good, Held
<1> QED
  BY <1>2, <1>3 DEF AllGood

\* What is in the outermost project and is not that directory has a parent there.
LEMMA ParentIsGood ==
    ASSUME NEW path, Proper(path), NEW boundary, Proper(boundary), Within(path, boundary),
           Lower(path) # Lower(boundary)
    PROVE  Proper(Parent(path)) /\ Within(Parent(path), boundary)
<1>1. IsPath(path) /\ IsPath(boundary) /\ Len(path) > 1 /\ Len(boundary) > 1
  BY DEF Proper
<1>2. /\ IsPath(Lower(path)) /\ IsPath(Lower(boundary))
      /\ Len(Lower(path)) = Len(path) /\ Len(Lower(boundary)) = Len(boundary)
  BY <1>1, LowerPath
<1>3. Begins(Lower(boundary), Lower(path))
  BY <1>2, PrefixBegins DEF Within
<1>4. PICK m, n : m = Len(boundary) /\ n = Len(path)
  OBVIOUS
<1>5. m \in Nat /\ n \in Nat /\ m > 1 /\ m <= n
  BY <1>1, <1>2, <1>3, <1>4, LenProperties DEF Begins, IsPath
<1>6. m # n
  <2>1. SUFFICES ASSUME m = n
                 PROVE  FALSE
    OBVIOUS
  <2>2. PICK T : T = Range(Lower(path)) \union Range(Lower(boundary))
    OBVIOUS
  <2>3. Lower(path) \in Seq(T) /\ Lower(boundary) \in Seq(T)
    BY <1>2, <2>2, SeqMonotonic DEF IsPath
  <2>4. \A i \in 1 .. Len(Lower(boundary)) : Lower(boundary)[i] = Lower(path)[i]
    BY <1>3 DEF Begins
  <2>5. Len(Lower(boundary)) = Len(Lower(path))
    BY <1>2, <1>4, <2>1
  <2>6. Lower(boundary) = Lower(path)
    BY <2>3, <2>4, <2>5, SeqEqual
  <2> QED
    BY <2>6
<1>7. n > 2 /\ m <= n - 1
  BY <1>5, <1>6
<1>8. /\ IsPath(Front(path)) /\ Begins(Front(path), path) /\ Len(Front(path)) = n - 1
  BY <1>1, <1>4, FrontIsPath
<1>9. Parent(path) = Front(path)
  <2>1. Len(path) # 1 /\ Len(path) # 2
    BY <1>4, <1>7
  <2> QED
    BY <2>1 DEF Parent
<1>10. Len(Front(path)) > 1
  BY <1>5, <1>7, <1>8
<1>11. Proper(Front(path))
  BY <1>8, <1>10, BeginningIsProper
<1>12. Begins(Lower(Front(path)), Lower(path))
  BY <1>1, <1>8, LowerBegins
<1>13. IsPath(Lower(Front(path))) /\ Len(Lower(Front(path))) = n - 1
  BY <1>8, LowerPath
<1>14. Begins(Lower(boundary), Lower(Front(path)))
  <2>1. \A i \in 1 .. n - 1 : Lower(Front(path))[i] = Lower(path)[i]
    BY <1>12, <1>13 DEF Begins
  <2>2. \A i \in 1 .. m : Lower(boundary)[i] = Lower(path)[i]
    BY <1>2, <1>3, <1>4 DEF Begins
  <2>3. \A i \in 1 .. m : i \in 1 .. n - 1
    BY <1>5, <1>7
  <2>4. \A i \in 1 .. m : Lower(boundary)[i] = Lower(Front(path))[i]
    BY <2>1, <2>2, <2>3
  <2> QED
    BY <1>2, <1>4, <1>7, <1>13, <2>4 DEF Begins
<1>15. Within(Front(path), boundary)
  BY <1>2, <1>13, <1>14, PrefixBegins DEF Within
<1> QED
  BY <1>9, <1>11, <1>15

\* The directory of an entry in the outermost project, which that directory is not.
LEMMA EntryIsGood ==
    ASSUME NEW root, Proper(root), NEW boundary, Proper(boundary), NEW tops, boundary \in tops,
           NEW entry, IsPath(entry), entry # <<"">> => ~Escapes(root, boundary, entry),
           Lower(EntryPath(root, entry)) # Lower(boundary)
    PROVE  AllGood(EntryRoots(root, entry), tops)
<1>1. CASE entry = <<"">>
  <2>1. EntryRoots(root, entry) = <<>>
    BY <1>1 DEF EntryRoots
  <2> QED
    BY <2>1, FewAreGood
<1>2. CASE entry # <<"">>
  <2>1. PICK path : path = Join(root, entry)
    OBVIOUS
  <2>2. EntryPath(root, entry) = path
    BY <1>2, <2>1 DEF EntryPath
  <2>3. Within(path, boundary)
    BY <1>2, <2>1 DEF Escapes
  <2>4. path = <<"", "">> \/ Proper(path)
    BY <2>1, JoinIsClean
  <2>5. Proper(path)
    BY <2>3, <2>4, WithinIsProper
  <2>6. Proper(Parent(path)) /\ Within(Parent(path), boundary)
    BY <2>2, <2>3, <2>5, ParentIsGood
  <2>7. Clean(path) = path
    BY <2>5, ProperIsClean
  <2>8. EntryRoots(root, entry) = <<Parent(path)>>
    BY <1>2, <2>2, <2>7 DEF EntryRoots, Dir
  <2>9. Good(Parent(path), tops)
    BY <2>6 DEF Good, Held, Cleaned
  <2>10. AllGood(<<Parent(path)>>, tops)
    BY <2>9, FewAreGood
  <2> QED
    BY <2>8, <2>10
<1> QED
  BY <1>1, <1>2

\* Every path is within itself.
LEMMA WithinItself ==
    ASSUME NEW path, IsPath(path)
    PROVE  Within(path, path)
<1>1. Len(path) \in Nat
  BY LenProperties DEF IsPath
<1>2. Begins(path, path)
  BY <1>1 DEF Begins
<1> QED
  BY <1>2, PrefixBegins, BelowIsWithin

\* The roots a tool adds hold themselves.
LEMMA ManagedIsGood ==
    ASSUME NEW managed, ArePaths(managed), \A path \in Range(managed) : IsAbs(path),
           NEW tops, \A path \in Range(managed) : Clean(path) \in tops
    PROVE  AllGood([i \in DOMAIN managed |-> Clean(managed[i])], tops)
<1>1. PICK roots : roots = [i \in DOMAIN managed |-> Clean(managed[i])]
  OBVIOUS
<1>2. IsList(managed) /\ \A path \in Range(managed) : IsPath(path)
  BY DEF ArePaths, IsList
<1>3. DOMAIN roots = DOMAIN managed /\ \A i \in DOMAIN managed : roots[i] = Clean(managed[i])
  BY <1>1
<1>4. roots = [i \in DOMAIN managed |-> roots[i]]
  BY <1>1, <1>3
<1>5. IsList(roots)
  BY <1>2, <1>4, EachList
<1>6. ASSUME NEW r \in Range(roots)
      PROVE  Good(r, tops)
  <2>1. PICK path \in Range(managed) : r = Clean(path)
    BY <1>3 DEF Range
  <2>2. Cleaned(r)
    BY <1>2, <2>1, CleanIsProper DEF Cleaned
  <2>3. Within(r, r)
    BY <2>2, CleanedIsPath, WithinItself
  <2>4. r \in tops
    BY <2>1
  <2> QED
    BY <2>2, <2>3, <2>4 DEF Good, Held
<1> QED
  BY <1>1, <1>5, <1>6 DEF AllGood

\* All include roots of a project are good.
LEMMA RootsAreGood ==
    ASSUME NEW disk, Filed(disk), NEW root, Proper(root), NEW boundary, Proper(boundary),
           IsPrefix(boundary, root), NEW m, IsManifest(m), IsList(m.repos),
           NEW build, ArePaths(IncludesOf(build)), NEW managed, ArePaths(managed),
           Acceptable(root, boundary, m, build, managed),
           Lower(EntryPath(root, m.entry)) # Lower(boundary),
           NEW tops, boundary \in tops, \A path \in Range(managed) : Clean(path) \in tops
    PROVE  /\ AllGood(ProjectIncludeRoots(disk, root, m, build, managed), tops)
           /\ AllGood(EntryRoots(root, m.entry), tops)
<1>1. IsPath(root) /\ IsPath(boundary) /\ IsPath(m.entry) /\ ArePaths(m.includes)
  BY DEF Proper, IsManifest
<1>2. Within(root, boundary)
  BY <1>1, BelowIsWithin
<1>3. \A paths : ToSet(paths) = Range(paths)
  BY DEF ToSet, Range
<1>4. /\ m.entry # <<"">> => ~Escapes(root, boundary, m.entry)
      /\ \A rel \in Range(m.includes) : Safe(rel)
      /\ \A rel \in Range(IncludesOf(build)) : ~Escapes(root, boundary, rel)
      /\ \A path \in Range(managed) : IsAbs(path)
  BY <1>3 DEF Acceptable
<1>5. PICK built : built = JoinEach(root, IncludesOf(build))
  OBVIOUS
<1>6. AllGood(built, tops)
  BY <1>4, <1>5, BuildIsGood
<1>7. PICK quoted : quoted = EntryRoots(root, m.entry)
  OBVIOUS
<1>8. AllGood(quoted, tops)
  BY <1>1, <1>4, <1>7, EntryIsGood
<1>9. AllGood(<<root>>, tops)
  BY <1>1, <1>2, BelowItself, BelowIsGood
<1>10. PICK declared : declared = JoinEach(root, m.includes)
  OBVIOUS
<1>11. AllGood(declared, tops)
  BY <1>1, <1>2, <1>4, <1>10, SafeBelow, BelowIsGood
<1>12. PICK directory : directory = Append(root, "dependencies")
  OBVIOUS
<1>13. IsPath(directory) /\ Begins(root, directory)
  BY <1>1, <1>12, AppendIsPath
<1>14. PICK installed : installed = InstalledDependencyRoots(disk, directory, m.repos)
  OBVIOUS
<1>15. AllGood(installed, tops)
  BY <1>1, <1>2, <1>13, <1>14, InstalledBelow, BelowIsGood
<1>16. PICK added : added = [i \in DOMAIN managed |-> Clean(managed[i])]
  OBVIOUS
<1>17. AllGood(added, tops)
  BY <1>4, <1>16, ManagedIsGood
<1>18. ProjectIncludeRoots(disk, root, m, build, managed) =
           Uniquely(built \o quoted \o <<root>> \o declared \o installed \o added)
  BY <1>5, <1>7, <1>10, <1>12, <1>14, <1>16 DEF ProjectIncludeRoots
<1>19. PICK alone : alone = <<root>>
  OBVIOUS
<1>20. AllGood(alone, tops)
  BY <1>9, <1>19
<1>21. AllGood(built \o quoted, tops)
  BY <1>6, <1>8, ConcatGood
<1>22. AllGood(built \o quoted \o alone, tops)
  BY <1>20, <1>21, ConcatGood
<1>23. AllGood(built \o quoted \o alone \o declared, tops)
  BY <1>11, <1>22, ConcatGood
<1>24. AllGood(built \o quoted \o alone \o declared \o installed, tops)
  BY <1>15, <1>23, ConcatGood
<1>25. AllGood(built \o quoted \o alone \o declared \o installed \o added, tops)
  BY <1>17, <1>24, ConcatGood
<1>26. AllGood(Uniquely(built \o quoted \o alone \o declared \o installed \o added), tops)
  BY <1>25, UniquelyGood
<1> QED
  BY <1>7, <1>8, <1>18, <1>19, <1>26

-----------------------------------------------------------------------------
\* A list of paths that a top holds.
AllHeld(items, tops) == IsList(items) /\ \A path \in Range(items) : Held(path, tops)

\* What is within a good directory is held.
LEMMA WithinIsHeld ==
    ASSUME NEW tops, \A top \in tops : Cleaned(top), NEW directory, Good(directory, tops),
           NEW path, IsPath(path), Within(path, directory)
    PROVE  Held(path, tops)
<1>1. PICK top \in tops : top = <<"", "">> \/ Within(directory, top)
  BY DEF Good, Held
<1>2. IsPath(top) /\ IsPath(directory)
  BY CleanedIsPath DEF Good
<1>3. CASE top = <<"", "">>
  BY <1>3 DEF Held
<1>4. CASE Within(directory, top)
  <2>1. Within(path, top)
    BY <1>2, <1>4, WithinTransitive
  <2> QED
    BY <2>1 DEF Held
<1> QED
  BY <1>1, <1>3, <1>4

\* A safe path in a good directory is held.
LEMMA FileIsHeld ==
    ASSUME NEW tops, \A top \in tops : Cleaned(top), NEW directory, Good(directory, tops),
           NEW rel, IsPath(rel), Safe(rel)
    PROVE  Held(Join(directory, rel), tops)
<1>1. CASE Proper(directory)
  <2>1. Proper(Join(directory, rel)) /\ IsPrefix(directory, Join(directory, rel))
    BY <1>1, JoinIsInside
  <2>2. IsPath(directory) /\ IsPath(Join(directory, rel))
    BY <1>1, <2>1 DEF Proper
  <2>3. Within(Join(directory, rel), directory)
    BY <2>1, <2>2, BelowIsWithin
  <2> QED
    BY <2>2, <2>3, WithinIsHeld
<1>2. CASE directory = <<"", "">>
  <2>1. PICK e : e = ""
    OBVIOUS
  <2>2. ~Proper(directory)
    <3>1. directory = <<e, e>>
      BY <1>2, <2>1
    <3>2. directory[2] = e /\ 2 \in 1 .. Len(directory)
      BY <3>1, TwoArePath
    <3>3. e \in Special
      BY <2>1 DEF Special
    <3> QED
      BY <3>2, <3>3, SecondOfProper
  <2>3. PICK top \in tops : top = <<"", "">> \/ Within(directory, top)
    BY DEF Good, Held
  <2>4. ASSUME Within(directory, top), Proper(top)
        PROVE  FALSE
    BY <1>2, <2>2, <2>4, WithinIsProper
  <2>5. top = <<"", "">>
    BY <2>3, <2>4 DEF Cleaned
  <2> QED
    BY <2>5 DEF Held
<1> QED
  BY <1>1, <1>2 DEF Good, Cleaned

\* What is left of a path without its last segment is one, and with another last one.
LEMMA OtherLast ==
    ASSUME NEW path, IsPath(path), path # <<>>, NEW name
    PROVE  IsPath(Append(Front(path), name))
<1>1. PICK T : T = Range(path)
  OBVIOUS
<1>2. path \in Seq(T)
  BY <1>1 DEF IsPath
<1>3. PICK most \in Seq(T), x \in T : path = Append(most, x)
  BY <1>2, SequenceEmptyOrAppend
<1>4. Front(path) = most
  BY <1>2, <1>3, FrontOfAppend
<1>5. IsPath(most)
  BY <1>3, SeqOfRange DEF IsPath
<1> QED
  BY <1>4, <1>5, AppendIsPath

\* Two items.
LEMMA TwoList ==
    ASSUME NEW x, NEW y
    PROVE  IsList(<<x, y>>) /\ Range(<<x, y>>) = {x, y}
<1>1. PICK both : both = <<x, y>>
  OBVIOUS
<1>2. DOMAIN both = {1, 2} /\ both[1] = x /\ both[2] = y
  BY <1>1
<1>3. Range(both) = {x, y}
  BY <1>2 DEF Range
<1>4. both \in Seq({x, y})
  BY <1>1
<1> QED
  BY <1>1, <1>3, <1>4 DEF IsList

\* The names an include directive may mean are paths.
LEMMA CandidatesArePaths ==
    ASSUME NEW spec, IsPath(spec), spec # <<>>
    PROVE  ArePaths(SearchCandidates(spec))
<1>1. CASE Last(spec) \in DOMAIN WithInc
  <2>1. PICK other : other = Append(Front(spec), WithInc[Last(spec)])
    OBVIOUS
  <2>2. IsPath(other)
    BY <2>1, OtherLast
  <2>3. SearchCandidates(spec) = <<spec, other>>
    BY <1>1, <2>1 DEF SearchCandidates
  <2>4. IsList(<<spec, other>>) /\ Range(<<spec, other>>) = {spec, other}
    BY TwoList
  <2> QED
    BY <2>2, <2>3, <2>4 DEF ArePaths, IsList
<1>2. CASE Last(spec) \notin DOMAIN WithInc
  <2>1. SearchCandidates(spec) = <<spec>>
    BY <1>2 DEF SearchCandidates
  <2>2. IsList(<<spec>>) /\ Range(<<spec>>) = {spec}
    BY OneList
  <2> QED
    BY <2>1, <2>2 DEF ArePaths, IsList
<1> QED
  BY <1>1, <1>2

\* What of the candidates is in a good directory.
LEMMA MatchesAreHeld ==
    ASSUME NEW disk, NEW tops, \A top \in tops : Cleaned(top), NEW directory, Good(directory, tops),
           NEW candidates, ArePaths(candidates)
    PROVE  AllHeld(DirMatches(disk, directory, candidates), tops)
<1>1. IsList(candidates) /\ \A path \in Range(candidates) : IsPath(path)
  BY DEF ArePaths, IsList
<1>2. PICK places : places = {i \in DOMAIN candidates : Safe(candidates[i])}
  OBVIOUS
<1>3. PICK safe : safe = SafeOnes(candidates)
  OBVIOUS
<1>4. safe = Picked(candidates, places)
  BY <1>2, <1>3 DEF SafeOnes
<1>5. IsList(safe) /\ Range(safe) = {candidates[i] : i \in places \cap DOMAIN candidates}
  BY <1>1, <1>4, PickedList
<1>6. \A path \in Range(safe) : IsPath(path) /\ Safe(path)
  BY <1>1, <1>2, <1>5 DEF Range
<1>7. PICK joined : joined = JoinEach(directory, safe)
  OBVIOUS
<1>8. IsList(joined) /\ Range(joined) = {Join(directory, path) : path \in Range(safe)}
  BY <1>5, <1>7, JoinEachList
<1>9. \A path \in Range(safe) : Held(Join(directory, path), tops)
  BY <1>6, FileIsHeld
<1>10. IsList(Among(joined, disk)) /\ Range(Among(joined, disk)) = Range(joined) \cap disk
  BY <1>8, AmongList
<1>11. DirMatches(disk, directory, candidates) = Among(joined, disk)
  BY <1>3, <1>7 DEF DirMatches
<1> QED
  BY <1>8, <1>9, <1>10, <1>11 DEF AllHeld

\* What of the candidates is relative to the including file and within a root.
LEMMA RelativesAreHeld ==
    ASSUME NEW disk, Filed(disk), NEW tops, \A top \in tops : Cleaned(top), NEW loaded,
           AllGood(loaded.roots, tops), AllGood(loaded.quoted, tops),
           NEW directory, NEW candidates, ArePaths(candidates)
    PROVE  AllHeld(RelativeMatches(disk, loaded, directory, candidates), tops)
<1>1. IsList(candidates)
  BY DEF ArePaths, IsList
<1>2. PICK roots : roots = ToSet(loaded.roots) \union ToSet(loaded.quoted)
  OBVIOUS
<1>3. \A r \in roots : Good(r, tops)
  BY <1>2 DEF AllGood, ToSet, Range
<1>4. PICK allowed : allowed = {path \in disk : \E r \in roots : Within(path, r)}
  OBVIOUS
<1>5. ASSUME NEW path \in allowed
      PROVE  Held(path, tops)
  <2>1. path \in disk
    BY <1>4
  <2>2. IsPath(path)
    BY <2>1, CleanedIsPath DEF Filed
  <2>3. PICK r \in roots : Within(path, r)
    BY <1>4
  <2>4. Good(r, tops)
    BY <1>3
  <2> QED
    BY <2>2, <2>3, <2>4, WithinIsHeld
<1>6. PICK joined : joined = JoinEach(directory, candidates)
  OBVIOUS
<1>7. IsList(joined)
  BY <1>1, <1>6, JoinEachList
<1>8. IsList(Among(joined, allowed)) /\ Range(Among(joined, allowed)) = Range(joined) \cap allowed
  BY <1>7, AmongList
<1>9. RelativeMatches(disk, loaded, directory, candidates) = Among(joined, allowed)
  BY <1>2, <1>4, <1>6 DEF RelativeMatches
<1> QED
  BY <1>5, <1>8, <1>9 DEF AllHeld

\* What is left of a list, each once, is held when the list is.
LEMMA UniquelyHeld ==
    ASSUME NEW tops, NEW items, AllHeld(items, tops)
    PROVE  AllHeld(Uniquely(items), tops)
BY UniquelyList DEF AllHeld

\* The directories that are searched are good.
LEMMA SearchedAreGood ==
    ASSUME NEW tops, NEW loaded, AllGood(loaded.roots, tops), AllGood(loaded.quoted, tops),
           NEW from, Good(Dir(from), tops), NEW quoted \in BOOLEAN
    PROVE  AllGood(SearchDirectories(loaded, from, quoted), tops)
<1>1. PICK directory : directory = Dir(from)
  OBVIOUS
<1>2. PICK list : list = loaded.quoted
  OBVIOUS
<1>3. AllGood(list, tops) /\ Good(directory, tops)
  BY <1>1, <1>2
<1>4. AllGood(<<directory>>, tops)
  BY <1>3, FewAreGood
<1>5. AllGood(list \o <<directory>>, tops)
  BY <1>3, <1>4, ConcatGood
<1>6. Append(list, directory) = list \o <<directory>>
  <2>1. PICK T : T = Range(list) \union {directory}
    OBVIOUS
  <2>2. list \in Seq(T) /\ directory \in T
    BY <1>3, <2>1, SeqMonotonic DEF AllGood, IsList
  <2> QED
    BY <2>2, AppendIsConcat
<1>7. CASE quoted
  <2>1. SearchDirectories(loaded, from, quoted) = Append(list, directory) \o loaded.roots
    BY <1>1, <1>2, <1>7 DEF SearchDirectories
  <2> QED
    BY <1>5, <1>6, <2>1, ConcatGood
<1>8. CASE ~quoted
  <2>1. SearchDirectories(loaded, from, quoted) = <<>> \o loaded.roots
    BY <1>8 DEF SearchDirectories
  <2>2. AllGood(<<>>, tops)
    BY FewAreGood
  <2> QED
    BY <2>1, <2>2, ConcatGood
<1> QED
  BY <1>7, <1>8

\* So is every file that is found in them.
LEMMA SearchedAreHeld ==
    ASSUME NEW disk, NEW tops, \A top \in tops : Cleaned(top), NEW directories, AllGood(directories, tops),
           NEW candidates, ArePaths(candidates)
    PROVE  AllHeld(FlattenSeq([i \in DOMAIN directories |-> DirMatches(disk, directories[i], candidates)]), tops)
<1>1. PICK lists : lists = [i \in DOMAIN directories |-> DirMatches(disk, directories[i], candidates)]
  OBVIOUS
<1>2. DOMAIN lists = DOMAIN directories
      /\ \A i \in DOMAIN directories : lists[i] = DirMatches(disk, directories[i], candidates)
  BY <1>1
<1>3. lists = [i \in DOMAIN directories |-> lists[i]]
  BY <1>1, <1>2
<1>4. IsList(lists)
  BY <1>3, EachList DEF AllGood
<1>5. PICK T : T = UNION {Range(lists[i]) : i \in DOMAIN lists}
  OBVIOUS
<1>6. ASSUME NEW i \in DOMAIN lists
      PROVE  AllHeld(lists[i], tops)
  <2>1. Good(directories[i], tops)
    BY <1>2 DEF AllGood, Range
  <2> QED
    BY <1>2, <2>1, MatchesAreHeld
<1>7. ASSUME NEW i \in DOMAIN lists
      PROVE  lists[i] \in Seq(T)
  <2>1. lists[i] \in Seq(Range(lists[i]))
    BY <1>6 DEF AllHeld, IsList
  <2>2. Range(lists[i]) \subseteq T
    BY <1>5
  <2> QED
    BY <2>1, <2>2, SeqMonotonic
<1>8. FlattenSeq(lists) \in Seq(T)
  BY <1>4, <1>7, FlattenList
<1>9. ASSUME NEW path \in T
      PROVE  Held(path, tops)
  <2>1. PICK i \in DOMAIN lists : path \in Range(lists[i])
    BY <1>5
  <2> QED
    BY <1>6, <2>1 DEF AllHeld
<1>10. IsList(FlattenSeq(lists)) /\ Range(FlattenSeq(lists)) \subseteq T
  BY <1>8, SeqOfRange, RangeOfSeq DEF IsList
<1> QED
  BY <1>1, <1>9, <1>10 DEF AllHeld

\* Every file that an include directive may mean is held.
LEMMA ResolvedAreHeld ==
    ASSUME NEW disk, Filed(disk), NEW tops, \A top \in tops : Cleaned(top), NEW loaded,
           AllGood(loaded.roots, tops), AllGood(loaded.quoted, tops),
           NEW from, Good(Dir(from), tops), NEW spec, IsPath(spec), spec # <<>>, NEW quoted \in BOOLEAN
    PROVE  AllHeld(ResolveAll(disk, loaded, from, spec, quoted), tops)
<1>1. PICK candidates : candidates = SearchCandidates(spec)
  OBVIOUS
<1>2. ArePaths(candidates)
  BY <1>1, CandidatesArePaths
<1>3. PICK directories : directories = SearchDirectories(loaded, from, quoted)
  OBVIOUS
<1>4. AllGood(directories, tops)
  BY <1>3, SearchedAreGood
<1>5. CASE spec[1] \in {".", ".."} /\ Len(spec) > 1
  <2>1. ResolveAll(disk, loaded, from, spec, quoted) = Uniquely(RelativeMatches(disk, loaded, Dir(from), candidates))
    BY <1>1, <1>5 DEF ResolveAll
  <2>2. AllHeld(RelativeMatches(disk, loaded, Dir(from), candidates), tops)
    BY <1>2, RelativesAreHeld
  <2> QED
    BY <2>1, <2>2, UniquelyHeld
<1>6. CASE ~ (spec[1] \in {".", ".."} /\ Len(spec) > 1)
  <2>1. ResolveAll(disk, loaded, from, spec, quoted) =
            Uniquely(FlattenSeq([i \in DOMAIN directories |-> DirMatches(disk, directories[i], candidates)]))
    BY <1>1, <1>3, <1>6 DEF ResolveAll
  <2>2. AllHeld(FlattenSeq([i \in DOMAIN directories |-> DirMatches(disk, directories[i], candidates)]), tops)
    BY <1>2, <1>4, SearchedAreHeld
  <2> QED
    BY <2>1, <2>2, UniquelyHeld
<1> QED
  BY <1>5, <1>6

-----------------------------------------------------------------------------
(***************************************************************************)
(* A view that is loaded has its project in the outermost one and only     *)
(* good roots, and only clean paths are ever on the disk.                  *)
(***************************************************************************)
Tops(loaded) == {loaded.boundary} \union {Clean(r) : r \in ToSet(loaded.managed)}

Viewed(loaded) ==
    /\ Proper(loaded.root) /\ Proper(loaded.boundary) /\ IsPrefix(loaded.boundary, loaded.root)
    /\ ArePaths(loaded.managed) /\ \A r \in ToSet(loaded.managed) : IsAbs(r)
    /\ Lower(loaded.entry) # Lower(loaded.boundary) =>
          AllGood(loaded.roots, Tops(loaded)) /\ AllGood(loaded.quoted, Tops(loaded))

ViewInv == Filed(DOMAIN tree) /\ (view = Unset \/ Viewed(view))

\* The tops are clean.
LEMMA TopsAreClean ==
    ASSUME NEW loaded, Viewed(loaded)
    PROVE  \A top \in Tops(loaded) : Cleaned(top)
<1>1. ASSUME NEW r \in ToSet(loaded.managed)
      PROVE  Cleaned(Clean(r))
  <2>1. r \in Range(loaded.managed)
    BY DEF ToSet, Range
  <2>2. IsPath(r) /\ IsAbs(r)
    BY <2>1 DEF Viewed, ArePaths
  <2> QED
    BY <2>2, CleanIsProper DEF Cleaned
<1>2. Cleaned(loaded.boundary)
  BY DEF Viewed, Cleaned
<1> QED
  BY <1>1, <1>2 DEF Tops

\* A project that loads is in the outermost one, and so are its roots.
LEMMA LoadedIsViewed ==
    ASSUME ToolAssumption, NEW disk, Filed(disk), NEW start \in Starts, NEW m \in Manifests,
           NEW options \in LoadOptions, Load(disk, start, m, options) # Unset
    PROVE  Viewed(Load(disk, start, m, options))
<1>1. IsPath(start) /\ IsAbs(start)
  BY DEF ToolAssumption
<1>2. IsManifest(m) /\ IsList(m.repos)
  BY DEF ToolAssumption, IsList
<1>3. ArePaths(options.managed)
  BY DEF ToolAssumption
<1>4. PICK root : root = FindRoot(disk, start)
  OBVIOUS
<1>5. root # Unset
  BY <1>4 DEF Load, LoadBelow
<1>6. Proper(root) /\ ManifestsIn(disk, root) # <<>>
  BY <1>1, <1>4, <1>5, FoundRoot
<1>7. PICK boundary : boundary = Boundary(disk, root)
  OBVIOUS
<1>8. Proper(boundary) /\ IsPrefix(boundary, root)
  BY <1>6, <1>7, FoundBoundary
<1>9. PICK selected : selected = SelectBuild(m, options.build)
  OBVIOUS
<1>10. ArePaths(IncludesOf(selected.build))
  BY <1>2, <1>9, SelectedIncludes
<1>11. PICK loaded : loaded = Load(disk, start, m, options)
  OBVIOUS
<1>12. loaded = LoadAt(disk, root, boundary, m, selected, options)
  BY <1>4, <1>5, <1>7, <1>9, <1>11 DEF Load, LoadBelow
<1>13. /\ Acceptable(root, boundary, m, selected.build, options.managed)
       /\ loaded.root = root /\ loaded.boundary = boundary /\ loaded.entry = EntryPath(root, m.entry)
       /\ loaded.managed = options.managed /\ loaded.quoted = EntryRoots(root, m.entry)
       /\ loaded.roots = ProjectIncludeRoots(disk, root, m, selected.build, options.managed)
  BY <1>11, <1>12 DEF LoadAt
<1>14. \A r \in ToSet(loaded.managed) : IsAbs(r)
  BY <1>13 DEF Acceptable
<1>15. ASSUME Lower(loaded.entry) # Lower(loaded.boundary)
       PROVE  AllGood(loaded.roots, Tops(loaded)) /\ AllGood(loaded.quoted, Tops(loaded))
  <2>1. PICK tops : tops = Tops(loaded)
    OBVIOUS
  <2>2. boundary \in tops
    BY <1>13, <2>1 DEF Tops
  <2>3. \A path \in Range(options.managed) : Clean(path) \in tops
    BY <1>13, <2>1 DEF Tops, ToSet, Range
  <2>4. PICK build, managed : build = selected.build /\ managed = options.managed
    OBVIOUS
  <2>5. /\ Acceptable(root, boundary, m, build, managed) /\ ArePaths(IncludesOf(build)) /\ ArePaths(managed)
        /\ Lower(EntryPath(root, m.entry)) # Lower(boundary)
        /\ \A path \in Range(managed) : Clean(path) \in tops
    BY <1>3, <1>10, <1>13, <1>15, <2>3, <2>4
  <2>6. /\ AllGood(ProjectIncludeRoots(disk, root, m, build, managed), tops)
        /\ AllGood(EntryRoots(root, m.entry), tops)
    BY <1>2, <1>6, <1>8, <2>2, <2>5, RootsAreGood
  <2> QED
    BY <1>13, <2>1, <2>4, <2>6
<1> QED
  BY <1>3, <1>6, <1>8, <1>11, <1>13, <1>14, <1>15 DEF Viewed

\* An installation only adds clean paths.
LEMMA InstalledIsFiled ==
    ASSUME ToolAssumption, ToolInv, Filed(DOMAIN tree), Install
    PROVE  Filed(DOMAIN tree') /\ view' = view
<1>1. CASE Fail("io")
  BY <1>1 DEF Fail, End
<1>2. CASE /\ job.pc = "fetch" /\ End("") /\ tree' = Over(Written(job.payload), tree)
  <2>1. DOMAIN tree' = {Join(Project, d) : d \in DOMAIN job.payload} \union DOMAIN tree
    BY <1>2 DEF Over, Written
  <2>2. ASSUME NEW d \in DOMAIN job.payload
        PROVE  Cleaned(Join(Project, d))
    <3>1. Meant(d)
      BY <1>2 DEF ToolInv, JobInv, Fetching
    <3>2. \A r \in lock : \A f \in r.files : IsPath(f.destination)
      BY DEF ToolInv, JobInv, Locking, Sound
    <3>3. IsPath(d)
      BY <3>1, <3>2 DEF Meant
    <3>4. IsPath(Project) /\ IsAbs(Project)
      BY DEF ToolAssumption
    <3> QED
      BY <3>3, <3>4, JoinedIsClean DEF Cleaned
  <2>3. view' = view
    BY <1>2 DEF End
  <2> QED
    BY <2>1, <2>2, <2>3 DEF Filed
<1> QED
  BY <1>1, <1>2 DEF Install, Written

\* The other steps leave the files, and only the load of a project sets the view.
LEMMA OnlyInstallAndLoad ==
    ASSUME Next
    PROVE  \/ Install
           \/ tree' = tree /\ view' \in {view, Unset}
           \/ /\ tree' = tree
              /\ \E start \in Starts, m \in Manifests, options \in LoadOptions :
                    view' = Load(DOMAIN tree, start, m, options)
<1>1. ASSUME NEW version \in RuntimeVersions, NEW resolves \in BOOLEAN, Begin(version, resolves)
      PROVE  tree' = tree /\ view' = Unset
  BY <1>1 DEF Begin
<1>2. CASE Select
  BY <1>2 DEF Select, Fail, End
<1>3. CASE ResolveRecord \/ Write \/ BeginRestore
  BY <1>3 DEF ResolveRecord, Write, BeginRestore, Fail, End
<1>4. CASE Fetch \/ Fetched
  BY <1>4 DEF Fetch, Fetched, Fail, End
<1>5. CASE CloseStore \/ Finish
  BY <1>5 DEF CloseStore, Finish
<1>6. ASSUME NEW t \in Threads, Serve(t) \/ Share(t)
      PROVE  tree' = tree /\ view' = view
  BY <1>6 DEF Serve, Share, tool
<1>7. ASSUME NEW u \in URLs, NEW b \in Bytes, Republish(u, b)
      PROVE  tree' = tree /\ view' = view
  BY <1>7 DEF Republish, tool
<1>8. ASSUME NEW start \in Starts, NEW m \in Manifests, NEW options \in LoadOptions, LoadProject(start, m, options)
      PROVE  tree' = tree /\ view' = Load(DOMAIN tree, start, m, options)
  BY <1>8 DEF LoadProject
<1> QED
  BY <1>1, <1>2, <1>3, <1>4, <1>5, <1>6, <1>7, <1>8 DEF Next, Step

\* Every step preserves what is known of the view.
LEMMA ViewStepInv ==
    ASSUME ToolAssumption, ToolInv, ViewInv, [Next]_vars
    PROVE  ViewInv'
<1>1. CASE UNCHANGED vars
  BY <1>1 DEF vars, tool, ViewInv
<1>2. CASE Install
  <2>1. Filed(DOMAIN tree') /\ view' = view
    BY <1>2, InstalledIsFiled DEF ViewInv
  <2> QED
    BY <2>1 DEF ViewInv
<1>3. CASE tree' = tree /\ view' \in {view, Unset}
  BY <1>3 DEF ViewInv
<1>4. ASSUME tree' = tree, NEW start \in Starts, NEW m \in Manifests, NEW options \in LoadOptions,
             view' = Load(DOMAIN tree, start, m, options)
      PROVE  ViewInv'
  <2>1. PICK disk : disk = DOMAIN tree
    OBVIOUS
  <2>2. Filed(disk)
    BY <2>1 DEF ViewInv
  <2>3. view' = Load(disk, start, m, options)
    BY <1>4, <2>1
  <2>4. view' = Unset \/ Viewed(view')
    BY <2>2, <2>3, LoadedIsViewed
  <2>5. Filed(DOMAIN tree')
    BY <1>4, <2>1, <2>2
  <2> QED
    BY <2>4, <2>5 DEF ViewInv
<1>5. CASE Next
  BY <1>2, <1>3, <1>4, <1>5, OnlyInstallAndLoad
<1> QED
  BY <1>1, <1>5

\* At first nothing is loaded, from a disk of clean paths.
LEMMA ViewInitInv ==
    ASSUME ToolAssumption, Init
    PROVE  ViewInv
<1>1. tree \in Disks /\ view = Unset
  BY DEF Init
<1>2. ASSUME NEW path \in DOMAIN tree
      PROVE  Cleaned(path)
  <2>1. IsPath(path) /\ IsAbs(path) /\ Clean(path) = path
    BY <1>1 DEF ToolAssumption
  <2> QED
    BY <2>1, CleanIsProper DEF Cleaned
<1> QED
  BY <1>1, <1>2 DEF ViewInv, Filed

\* In a view that is loaded nothing is found outside.
LEMMA ViewedIsInside ==
    ASSUME ToolAssumption, ViewInv
    PROVE  NothingOutside
<1>1. CASE view # Unset /\ Lower(view.entry) # Lower(view.boundary)
  <2>1. Viewed(view) /\ Filed(DOMAIN tree)
    BY <1>1 DEF ViewInv
  <2>2. PICK tops : tops = Tops(view)
    OBVIOUS
  <2>3. AllGood(view.roots, tops) /\ AllGood(view.quoted, tops) /\ \A top \in tops : Cleaned(top)
    BY <1>1, <2>1, <2>2, TopsAreClean DEF Viewed
  <2>4. \A r \in ToSet(view.roots) : Held(r, tops)
    BY <2>3 DEF AllGood, Good, ToSet, Range
  <2>5. ASSUME NEW from \in {path \in Starts : Below(Dir(path), view.root)}, NEW spec \in Specs,
               NEW quoted \in BOOLEAN, NEW path \in ToSet(ResolveAll(DOMAIN tree, view, from, spec, quoted))
        PROVE  Held(path, tops)
    <3>1. IsPath(from) /\ IsAbs(from) /\ IsPath(spec) /\ spec # <<>>
      BY DEF ToolAssumption
    <3>2. Cleaned(Dir(from))
      BY <3>1, CleanIsProper, ParentIsClean DEF Dir, Cleaned
    <3>3. IsPrefix(view.root, Dir(from))
      BY DEF Below
    <3>4. IsPath(view.root) /\ IsPath(view.boundary) /\ IsPath(Dir(from)) /\ IsPrefix(view.boundary, view.root)
      BY <2>1, <3>2, CleanedIsPath DEF Viewed, Proper
    <3>5. Within(Dir(from), view.root) /\ Within(view.root, view.boundary)
      BY <3>3, <3>4, BelowIsWithin
    <3>6. Within(Dir(from), view.boundary)
      BY <3>4, <3>5, WithinTransitive
    <3>7. Good(Dir(from), tops)
      BY <2>2, <3>2, <3>6 DEF Good, Held, Tops
    <3>8. PICK disk : disk = DOMAIN tree
      OBVIOUS
    <3>9. AllHeld(ResolveAll(disk, view, from, spec, quoted), tops)
      BY <2>1, <2>3, <3>1, <3>7, <3>8, ResolvedAreHeld
    <3>10. path \in Range(ResolveAll(disk, view, from, spec, quoted))
      BY <3>8 DEF ToSet, Range
    <3> QED
      BY <3>9, <3>10 DEF AllHeld
  <2> QED
    BY <2>2, <2>4, <2>5 DEF NothingOutside, Tops, Held
<1>2. CASE ~ (view # Unset /\ Lower(view.entry) # Lower(view.boundary))
  BY <1>2 DEF NothingOutside
<1> QED
  BY <1>1, <1>2

\* Whatever the manifests, the files and the include directives, no include root and no
\* file that an include finds is outside of the outermost project, but for the roots a
\* tool adds (paths.go JoinWithin, include.go), before and after any restore.
THEOREM NothingIsOutside == Spec => []NothingOutside
<1>1. Init => ViewInv
  BY ToolAssumption, ViewInitInv
<1>2. ToolInv /\ ViewInv /\ [Next]_vars => ViewInv'
  BY ToolAssumption, ViewStepInv
<1>3. ViewInv => NothingOutside
  BY ToolAssumption, ViewedIsInside
<1> QED
  BY <1>1, <1>2, <1>3, ToolInvariant, PTL DEF Spec

-----------------------------------------------------------------------------
(***************************************************************************)
(* The order.  Whatever the lists, the first of some items is before all   *)
(* that may not be before it, and stays so when lists are put together,    *)
(* flattened and left without repetitions.  What an include finds below    *)
(* dependencies/ is of one package, and so are the roots it is found in.   *)
(***************************************************************************)
\* The items at those of the first places that are picked.
SoFar(items, places, k) == {items[i] : i \in places \cap 1 .. k}

\* At every place of a list, what has been picked is what is at the places so far.
LEMMA PickingGoes ==
    ASSUME NEW items, IsList(items), NEW places, NEW n \in Nat, n = Len(items),
           NEW f, Picking(f, n, items, places)
    PROVE  \A k \in 0 .. n : f[k] \in Seq(Range(items)) /\ Range(f[k]) = SoFar(items, places, k)
<1> DEFINE T == Range(items)
           Upto(k) == {items[i] : i \in places \cap 1 .. k}
           Holds(k) == f[k] \in Seq(T) /\ Range(f[k]) = Upto(k)
<1>1. DOMAIN items = 1 .. n /\ \A i \in 1 .. n : items[i] \in T
  BY LenProperties, ElementOfSeq DEF IsList
<1>4. f[0] = <<>>
  BY DEF Picking
<1>5. \A i \in 1 .. n : f[i] = IF i \in places THEN Append(f[i - 1], items[i]) ELSE f[i - 1]
  <2> SUFFICES ASSUME NEW i \in 1 .. n
               PROVE  f[i] = IF i \in places THEN Append(f[i - 1], items[i]) ELSE f[i - 1]
    OBVIOUS
  <2>1. i \in 0 .. n /\ i # 0
    OBVIOUS
  <2> QED
    BY <2>1 DEF Picking
<1>6. Holds(0)
  <2>1. <<>> \in Seq(T) /\ Range(<<>>) = {}
    BY EmptySeq DEF Range
  <2>2. Upto(0) = {}
    OBVIOUS
  <2> QED
    BY <1>4, <2>1, <2>2
<1>7. ASSUME NEW k \in 1 .. n, Holds(k - 1)
      PROVE  Holds(k)
  <2>1. items[k] \in T
    BY <1>1
  <2>2. \A i \in 1 .. k : i \in 1 .. (k - 1) \/ i = k
    OBVIOUS
  <2>3. k \in 1 .. k /\ 1 .. (k - 1) \subseteq 1 .. k
    OBVIOUS
  <2>4. CASE k \in places
    <3>1. f[k] = Append(f[k - 1], items[k])
      BY <1>5, <2>4
    <3>2. f[k] \in Seq(T) /\ Range(f[k]) = Range(f[k - 1]) \union {items[k]}
      BY <1>7, <2>1, <3>1, AppendProperties, RangeOfAppend
    <3>3. Upto(k) = Upto(k - 1) \union {items[k]}
      BY <2>2, <2>3, <2>4
    <3> QED
      BY <1>7, <3>2, <3>3
  <2>5. CASE k \notin places
    <3>1. f[k] = f[k - 1]
      BY <1>5, <2>5
    <3>2. Upto(k) = Upto(k - 1)
      BY <2>2, <2>3, <2>5
    <3> QED
      BY <1>7, <3>1, <3>2
  <2> QED
    BY <2>4, <2>5
<1>8. \A k \in 0 .. n : Holds(k)
  <2> HIDE DEF Holds
  <2> DEFINE bad == {k \in 0 .. n : ~Holds(k)}
  <2>1. ASSUME bad # {}
        PROVE  FALSE
    <3>0. bad \in SUBSET Nat
      OBVIOUS
    <3>1. PICK k \in bad : \A x \in bad : k <= x
      BY <2>1, <3>0, LeastExists
    <3>2. k # 0
      BY <1>6, <3>1
    <3>6. k \in 0 .. n /\ k - 1 \in 0 .. n /\ k \in 1 .. n /\ ~ (k <= k - 1)
      BY <3>1, <3>2
    <3>3. k - 1 \notin bad
      BY <3>1, <3>6
    <3>4. Holds(k - 1)
      BY <3>3, <3>6
    <3>5. Holds(k)
      BY <1>7, <3>4, <3>6
    <3> QED
      BY <3>1, <3>5
  <2> QED
    BY <2>1
<1> QED
  BY <1>8 DEF SoFar

\* What is picked keeps the order of the list: before it is what was picked before it.
Ordered(kept, items, places) ==
    \A k \in DOMAIN kept : \E i \in places \cap DOMAIN items :
        /\ kept[k] = items[i]
        /\ \A j \in places \cap 1 .. (i - 1) : \E l \in 1 .. (k - 1) : kept[l] = items[j]

LEMMA PickedInOrder ==
    ASSUME NEW items, IsList(items), NEW places
    PROVE  Ordered(Picked(items, places), items, places)
<1> DEFINE n == Len(items)
           f == CHOOSE kept : Picking(kept, n, items, places)
<1>1. n \in Nat /\ DOMAIN items = 1 .. n
  BY LenProperties DEF IsList
<1>2. Picking(f, n, items, places)
  BY <1>1, PickingExists
<1>3. Picked(items, places) = f[n]
  BY DEF Picked, Picking
<1> HIDE DEF f
<1>4. PICK m \in Nat : m = Len(items)
  BY <1>1
<1>5. PICK steps : steps = f
  OBVIOUS
<1>10. Picking(steps, m, items, places) /\ Picked(items, places) = steps[m]
  BY <1>2, <1>3, <1>4, <1>5
<1> HIDE DEF n
<1>6. /\ steps[0] = <<>>
      /\ \A i \in 1 .. m : steps[i] = IF i \in places THEN Append(steps[i - 1], items[i]) ELSE steps[i - 1]
      /\ \A k \in 0 .. m : steps[k] \in Seq(Range(items)) /\ Range(steps[k]) = SoFar(items, places, k)
  <2>1. steps[0] = <<>> /\ \A i \in 1 .. m : steps[i] = IF i \in places THEN Append(steps[i - 1], items[i]) ELSE steps[i - 1]
    <3>1. steps[0] = <<>>
      BY <1>10 DEF Picking
    <3>2. ASSUME NEW i \in 1 .. m
          PROVE  steps[i] = IF i \in places THEN Append(steps[i - 1], items[i]) ELSE steps[i - 1]
      <4>1. i \in 0 .. m /\ i # 0
        OBVIOUS
      <4> QED
        BY <1>10, <4>1 DEF Picking
    <3> QED
      BY <3>1, <3>2
  <2>2. \A k \in 0 .. m : steps[k] \in Seq(Range(items)) /\ Range(steps[k]) = SoFar(items, places, k)
    BY <1>4, <1>10, PickingGoes
  <2> QED
    BY <2>1, <2>2
<1> DEFINE Fine(g, k) ==
             \E i \in places \cap DOMAIN items :
                /\ g[k] = items[i]
                /\ \A j \in places \cap 1 .. (i - 1) : \E l \in 1 .. (k - 1) : g[l] = items[j]
           Holds(x) == \A k \in DOMAIN steps[x] : Fine(steps[x], k)
<1>7. Holds(0)
  BY <1>6
<1>8. ASSUME NEW x \in 1 .. m, Holds(x - 1)
      PROVE  Holds(x)
  <2>1. x - 1 \in 0 .. m /\ x \in DOMAIN items
    BY <1>1, <1>4
  <2>2. PICK g : g = steps[x - 1]
    OBVIOUS
  <2>3. g \in Seq(Range(items)) /\ Range(g) = {items[i] : i \in places \cap 1 .. (x - 1)}
    BY <1>6, <2>1, <2>2 DEF SoFar
  <2>4. Len(g) \in Nat /\ DOMAIN g = 1 .. Len(g)
    BY <2>3, LenProperties
  <2>5. CASE x \notin places
    <3>1. steps[x] = g
      BY <1>6, <2>2, <2>5
    <3> QED
      BY <1>8, <2>2, <3>1
  <2>6. CASE x \in places
    <3>1. PICK h : h = steps[x]
      OBVIOUS
    <3>2. h = Append(g, items[x])
      BY <1>6, <2>2, <2>6, <3>1
    <3>3. items[x] \in Range(items)
      BY <2>1 DEF Range
    <3>4. /\ h \in Seq(Range(items)) /\ Len(h) = Len(g) + 1
          /\ \A i \in 1 .. Len(g) : h[i] = g[i]
          /\ h[Len(g) + 1] = items[x]
      BY <2>3, <3>2, <3>3, AppendProperties
    <3>5. DOMAIN h = 1 .. (Len(g) + 1)
      BY <3>4, LenProperties
    <3>6. ASSUME NEW k \in DOMAIN h
          PROVE  Fine(h, k)
      <4>1. CASE k = Len(g) + 1
        <5>1. ASSUME NEW j \in places \cap 1 .. (x - 1)
              PROVE  \E l \in 1 .. (k - 1) : h[l] = items[j]
          <6>1. items[j] \in Range(g)
            BY <2>3
          <6>2. PICK l \in 1 .. Len(g) : g[l] = items[j]
            BY <2>4, <6>1 DEF Range
          <6> QED
            BY <2>4, <3>4, <4>1, <6>2
        <5> QED
          BY <2>1, <2>6, <3>4, <4>1, <5>1
      <4>2. CASE k # Len(g) + 1
        <5>1. k \in 1 .. Len(g) /\ \A l \in 1 .. (k - 1) : l \in 1 .. Len(g)
          BY <2>4, <3>5, <4>2
        <5>2. Fine(g, k)
          BY <1>8, <2>2, <2>4, <5>1
        <5>3. PICK i \in places \cap DOMAIN items :
                 /\ g[k] = items[i]
                 /\ \A j \in places \cap 1 .. (i - 1) : \E l \in 1 .. (k - 1) : g[l] = items[j]
          BY <5>2
        <5>4. h[k] = items[i] /\ \A l \in 1 .. (k - 1) : h[l] = g[l]
          BY <3>4, <5>1, <5>3
        <5> QED
          BY <5>3, <5>4
      <4> QED
        BY <4>1, <4>2
    <3> QED
      BY <3>1, <3>6
  <2> QED
    BY <2>5, <2>6
<1>9. Holds(m)
  <2> HIDE DEF Holds
  <2> DEFINE bad == {k \in 0 .. m : ~Holds(k)}
  <2>1. ASSUME bad # {}
        PROVE  FALSE
    <3>0. bad \in SUBSET Nat
      OBVIOUS
    <3>1. PICK k \in bad : \A x \in bad : k <= x
      BY <2>1, <3>0, LeastExists
    <3>2. k # 0
      BY <1>7, <3>1
    <3>6. k \in 0 .. m /\ k - 1 \in 0 .. m /\ k \in 1 .. m /\ ~ (k <= k - 1)
      BY <3>1, <3>2
    <3>3. k - 1 \notin bad
      BY <3>1, <3>6
    <3>4. Holds(k - 1)
      BY <3>3, <3>6
    <3>5. Holds(k)
      BY <1>8, <3>4, <3>6
    <3> QED
      BY <3>1, <3>5
  <2>2. m \in 0 .. m
    OBVIOUS
  <2> QED
    BY <2>1, <2>2
<1> QED
  BY <1>9, <1>10 DEF Ordered

\* In a list every one of the first comes before any of the second.
Leads(items, first, second) ==
    /\ IsList(items)
    /\ \A a \in Range(items) \cap first, n \in DOMAIN items :
          items[n] \in second => \E l \in 1 .. (n - 1) : items[l] = a

\* Where each item of a list is first.
Firsts(items) == {i \in DOMAIN items : \A j \in 1 .. (i - 1) : items[j] # items[i]}

\* Every item is first somewhere, at or before each place it is at.
LEMMA FirstPlace ==
    ASSUME NEW items, IsList(items), NEW n \in DOMAIN items
    PROVE  \E i \in Firsts(items) : i <= n /\ items[i] = items[n]
<1>1. Len(items) \in Nat /\ DOMAIN items = 1 .. Len(items)
  BY LenProperties DEF IsList
<1> DEFINE same == {i \in DOMAIN items : items[i] = items[n]}
<1>2. same \in SUBSET Nat /\ n \in same
  BY <1>1
<1>3. PICK i \in same : \A x \in same : i <= x
  BY <1>2, LeastExists
<1>4. \A j \in 1 .. (i - 1) : j \in DOMAIN items /\ ~ (i <= j)
  BY <1>1, <1>3
<1>5. i \in Firsts(items)
  BY <1>3, <1>4 DEF Firsts
<1> QED
  BY <1>2, <1>3, <1>5

\* What is left of a list has all of its items.
LEMMA UniquelyRange ==
    ASSUME NEW items, IsList(items)
    PROVE  IsList(Uniquely(items)) /\ Range(Uniquely(items)) = Range(items)
<1>1. Uniquely(items) = Picked(items, Firsts(items))
  BY DEF Uniquely, Firsts
<1>2. PICK places : places = Firsts(items)
  OBVIOUS
<1>3. IsList(Picked(items, places)) /\ Range(Picked(items, places)) = {items[i] : i \in places \cap DOMAIN items}
  BY PickedList
<1>4. ASSUME NEW x \in Range(items)
      PROVE  \E i \in places \cap DOMAIN items : x = items[i]
  <2>1. PICK n \in DOMAIN items : x = items[n]
    BY DEF Range
  <2>2. PICK i \in Firsts(items) : i <= n /\ items[i] = items[n]
    BY FirstPlace
  <2> QED
    BY <1>2, <2>1, <2>2 DEF Firsts
<1>5. Range(Picked(items, places)) \subseteq Range(items)
  BY <1>3 DEF Range
<1> QED
  BY <1>1, <1>2, <1>3, <1>4, <1>5

\* And in the order they are first.
LEMMA UniquelyLeads ==
    ASSUME NEW items, NEW first, NEW second, Leads(items, first, second)
    PROVE  Leads(Uniquely(items), first, second)
<1>1. Uniquely(items) = Picked(items, Firsts(items)) /\ IsList(items)
  BY DEF Uniquely, Firsts, Leads
<1>2. PICK places : places = Firsts(items)
  OBVIOUS
<1>3. PICK kept : kept = Picked(items, places)
  OBVIOUS
<1>4. Ordered(kept, items, places)
  BY <1>1, <1>3, PickedInOrder
<1>5. kept = Uniquely(items)
  BY <1>1, <1>2, <1>3
<1>6. IsList(kept) /\ Range(kept) = Range(items)
  BY <1>1, <1>5, UniquelyRange
<1>7. ASSUME NEW a \in Range(kept) \cap first, NEW n \in DOMAIN kept, kept[n] \in second
      PROVE  \E l \in 1 .. (n - 1) : kept[l] = a
  <2>1. PICK i \in places \cap DOMAIN items :
           /\ kept[n] = items[i]
           /\ \A j \in places \cap 1 .. (i - 1) : \E l \in 1 .. (n - 1) : kept[l] = items[j]
    BY <1>4 DEF Ordered
  <2>2. PICK j \in 1 .. (i - 1) : items[j] = a
    BY <1>6, <1>7, <2>1 DEF Leads
  <2>3. Len(items) \in Nat /\ DOMAIN items = 1 .. Len(items)
    BY <1>1, LenProperties DEF IsList
  <2>4. j \in DOMAIN items
    BY <2>1, <2>2, <2>3
  <2>5. PICK o \in Firsts(items) : o <= j /\ items[o] = items[j]
    BY <1>1, <2>4, FirstPlace
  <2>6. o \in places \cap 1 .. (i - 1)
    BY <1>2, <2>1, <2>2, <2>3, <2>5 DEF Firsts
  <2> QED
    BY <2>1, <2>2, <2>5, <2>6
<1> QED
  BY <1>5, <1>6, <1>7 DEF Leads

\* A list that has none of the first or none of the second.
LEMMA NoneLeads ==
    ASSUME NEW items, IsList(items), NEW first, NEW second,
           Range(items) \cap first = {} \/ Range(items) \cap second = {}
    PROVE  Leads(items, first, second)
BY DEF Leads, Range

\* Two lists, one after the other: the order holds in the one that has any of the two
\* sets, and nothing of the first set is only in the second list.
LEMMA ConcatLeads ==
    ASSUME NEW first, NEW second, NEW a, NEW b, IsList(a), IsList(b),
           \/ Leads(a, first, second) /\ Range(b) \cap first \subseteq Range(a)
           \/ Range(a) \cap (first \union second) = {} /\ Leads(b, first, second)
    PROVE  Leads(a \o b, first, second)
<1>1. IsList(a \o b) /\ Range(a \o b) = Range(a) \union Range(b)
  BY ConcatList
<1>2. PICK T : T = Range(a) \union Range(b)
  OBVIOUS
<1>3. a \in Seq(T) /\ b \in Seq(T)
  <2>1. Range(a) \subseteq T /\ Range(b) \subseteq T
    BY <1>2
  <2> QED
    BY <2>1, SeqMonotonic DEF IsList
<1>4. Len(a) \in Nat /\ DOMAIN a = 1 .. Len(a) /\ Len(b) \in Nat /\ DOMAIN b = 1 .. Len(b)
  BY LenProperties DEF IsList
<1>5. PICK all : all = a \o b
  OBVIOUS
<1>6. /\ Len(all) = Len(a) + Len(b) /\ DOMAIN all = 1 .. (Len(a) + Len(b))
      /\ \A i \in 1 .. Len(a) : all[i] = a[i]
      /\ \A i \in 1 .. Len(b) : all[Len(a) + i] = b[i]
  <2>1. /\ all \in Seq(T) /\ Len(all) = Len(a) + Len(b)
        /\ \A i \in 1 .. Len(a) + Len(b) : all[i] = IF i <= Len(a) THEN a[i] ELSE b[i - Len(a)]
    BY <1>3, <1>5, ConcatProperties
  <2>2. DOMAIN all = 1 .. (Len(a) + Len(b))
    BY <2>1, LenProperties
  <2>3. ASSUME NEW i \in 1 .. Len(a)
        PROVE  all[i] = a[i]
    BY <1>4, <2>1
  <2>4. ASSUME NEW i \in 1 .. Len(b)
        PROVE  all[Len(a) + i] = b[i]
    <3>1. Len(a) + i \in 1 .. Len(a) + Len(b) /\ ~ (Len(a) + i <= Len(a)) /\ (Len(a) + i) - Len(a) = i
      BY <1>4
    <3> QED
      BY <2>1, <3>1
  <2> QED
    BY <2>1, <2>2, <2>3, <2>4
<1>7. ASSUME NEW x \in Range(all) \cap first, NEW n \in DOMAIN all, all[n] \in second
      PROVE  \E l \in 1 .. (n - 1) : all[l] = x
  <2>1. n \in 1 .. Len(a) \/ n - Len(a) \in 1 .. Len(b)
    BY <1>4, <1>6
  <2>2. x \in Range(a) \/ x \in Range(b)
    BY <1>1, <1>5, <1>7
  <2>3. n \in 1 .. Len(a) => all[n] = a[n] /\ a[n] \in Range(a)
    BY <1>4, <1>6 DEF Range
  <2>4. n - Len(a) \in 1 .. Len(b) => all[n] = b[n - Len(a)] /\ b[n - Len(a)] \in Range(b)
    <3>1. n \in Nat /\ Len(a) + (n - Len(a)) = n
      BY <1>4, <1>6
    <3> QED
      BY <1>4, <1>6, <3>1 DEF Range
  <2>5. CASE Leads(a, first, second) /\ Range(b) \cap first \subseteq Range(a)
    <3>1. x \in Range(a) \cap first
      BY <1>7, <2>2, <2>5
    <3>2. CASE n \in 1 .. Len(a)
      <4>1. a[n] \in second
        BY <1>7, <2>3, <3>2
      <4>2. PICK l \in 1 .. (n - 1) : a[l] = x
        BY <1>4, <2>5, <3>1, <3>2, <4>1 DEF Leads
      <4>3. l \in 1 .. Len(a)
        BY <1>4, <3>2
      <4> QED
        BY <1>6, <4>2, <4>3
    <3>3. CASE n - Len(a) \in 1 .. Len(b)
      <4>1. PICK l \in 1 .. Len(a) : a[l] = x
        BY <1>4, <3>1 DEF Range
      <4>2. l \in 1 .. (n - 1)
        BY <1>4, <1>6, <3>3
      <4> QED
        BY <1>6, <4>1, <4>2
    <3> QED
      BY <2>1, <3>2, <3>3
  <2>6. CASE Range(a) \cap (first \union second) = {} /\ Leads(b, first, second)
    <3>1. n - Len(a) \in 1 .. Len(b) /\ b[n - Len(a)] \in second /\ x \in Range(b) \cap first
      BY <1>7, <2>1, <2>2, <2>3, <2>4, <2>6
    <3>2. PICK l \in 1 .. ((n - Len(a)) - 1) : b[l] = x
      BY <1>4, <2>6, <3>1 DEF Leads
    <3>3. l \in 1 .. Len(b) /\ Len(a) + l \in 1 .. (n - 1)
      BY <1>4, <1>6, <3>1
    <3> QED
      BY <1>6, <3>2, <3>3
  <2> QED
    BY <2>5, <2>6
<1> QED
  BY <1>1, <1>5, <1>7 DEF Leads

\* What is in the first lists of a list.
Gathered(lists, k) == UNION {Range(lists[i]) : i \in 1 .. k}

\* FlattenSeq keeps the order of the lists: before what is in one of them is all that is
\* in the ones before it.
InOrder(flat, lists, m) ==
    /\ IsList(flat) /\ Range(flat) = Gathered(lists, m)
    /\ \A k \in DOMAIN flat : \E i \in 1 .. m :
          /\ flat[k] \in Range(lists[i])
          /\ \A x \in Gathered(lists, i - 1) : \E l \in 1 .. (k - 1) : flat[l] = x

\* One more list after them.
LEMMA OneMoreList ==
    ASSUME NEW lists, NEW m \in Nat, NEW flat, InOrder(flat, lists, m), IsList(lists[m + 1])
    PROVE  InOrder(flat \o lists[m + 1], lists, m + 1)
<1>1. PICK b : b = lists[m + 1]
  OBVIOUS
<1>2. IsList(b) /\ IsList(flat) /\ Range(flat) = Gathered(lists, m)
  BY <1>1 DEF InOrder
<1>3. PICK all : all = flat \o b
  OBVIOUS
<1>4. IsList(all) /\ Range(all) = Range(flat) \union Range(b)
  BY <1>2, <1>3, ConcatList
<1>5. PICK T : T = Range(flat) \union Range(b)
  OBVIOUS
<1>6. flat \in Seq(T) /\ b \in Seq(T)
  <2>1. Range(flat) \subseteq T /\ Range(b) \subseteq T
    BY <1>5
  <2> QED
    BY <1>2, <2>1, SeqMonotonic DEF IsList
<1>7. Len(flat) \in Nat /\ DOMAIN flat = 1 .. Len(flat) /\ Len(b) \in Nat /\ DOMAIN b = 1 .. Len(b)
  BY <1>2, LenProperties DEF IsList
<1>8. /\ all \in Seq(T) /\ Len(all) = Len(flat) + Len(b)
      /\ \A i \in 1 .. Len(flat) + Len(b) : all[i] = IF i <= Len(flat) THEN flat[i] ELSE b[i - Len(flat)]
  BY <1>3, <1>6, ConcatProperties
<1>9. DOMAIN all = 1 .. (Len(flat) + Len(b))
  BY <1>8, LenProperties
<1>10. \A i \in 1 .. Len(flat) : all[i] = flat[i]
  BY <1>7, <1>8
<1>11. Gathered(lists, m + 1) = Gathered(lists, m) \union Range(b)
  <2>1. \A i \in 1 .. (m + 1) : i \in 1 .. m \/ i = m + 1
    OBVIOUS
  <2>2. 1 .. m \subseteq 1 .. (m + 1) /\ m + 1 \in 1 .. (m + 1)
    OBVIOUS
  <2> QED
    BY <1>1, <2>1, <2>2 DEF Gathered
<1>12. ASSUME NEW k \in DOMAIN all
       PROVE  \E i \in 1 .. (m + 1) :
                 /\ all[k] \in Range(lists[i])
                 /\ \A x \in Gathered(lists, i - 1) : \E l \in 1 .. (k - 1) : all[l] = x
  <2>1. CASE k \in 1 .. Len(flat)
    <3>1. PICK i \in 1 .. m :
             /\ flat[k] \in Range(lists[i])
             /\ \A x \in Gathered(lists, i - 1) : \E l \in 1 .. (k - 1) : flat[l] = x
      BY <1>7, <2>1 DEF InOrder
    <3>2. all[k] = flat[k] /\ \A l \in 1 .. (k - 1) : l \in 1 .. Len(flat)
      BY <1>7, <1>10, <2>1
    <3>3. i \in 1 .. (m + 1)
      OBVIOUS
    <3>4. \A x \in Gathered(lists, i - 1) : \E l \in 1 .. (k - 1) : all[l] = x
      BY <1>10, <3>1, <3>2
    <3> QED
      BY <3>1, <3>2, <3>3, <3>4
  <2>2. CASE k \notin 1 .. Len(flat)
    <3>1. k \in 1 .. Len(flat) + Len(b) /\ ~ (k <= Len(flat)) /\ k - Len(flat) \in 1 .. Len(b)
      BY <1>7, <1>9, <2>2
    <3>2. all[k] = b[k - Len(flat)] /\ b[k - Len(flat)] \in Range(b)
      BY <1>7, <1>8, <3>1 DEF Range
    <3>3. m + 1 \in 1 .. (m + 1) /\ (m + 1) - 1 = m
      OBVIOUS
    <3>4. ASSUME NEW x \in Gathered(lists, m)
          PROVE  \E l \in 1 .. (k - 1) : all[l] = x
      <4>1. PICK l \in 1 .. Len(flat) : flat[l] = x
        BY <1>2, <1>7 DEF Range
      <4>2. l \in 1 .. (k - 1)
        BY <1>7, <3>1
      <4> QED
        BY <1>10, <4>1, <4>2
    <3> QED
      BY <1>1, <3>2, <3>3, <3>4
  <2> QED
    BY <2>1, <2>2
<1>13. InOrder(all, lists, m + 1)
  BY <1>2, <1>4, <1>11, <1>12 DEF InOrder
<1> QED
  BY <1>1, <1>3, <1>13

\* One list.
LEMMA FirstListInOrder ==
    ASSUME NEW lists, IsList(lists[1])
    PROVE  InOrder(lists[1], lists, 1)
<1>1. PICK b : b = lists[1]
  OBVIOUS
<1>2. PICK one \in Nat : one = 1
  OBVIOUS
<1>3. Gathered(lists, 1) = Range(b) /\ Gathered(lists, 1 - 1) = {}
  <2>1. 1 .. 1 = {1} /\ 1 .. (1 - 1) = {}
    OBVIOUS
  <2> QED
    BY <1>1, <2>1 DEF Gathered
<1>4. \A k \in DOMAIN b : b[k] \in Range(b)
  BY DEF Range
<1>5. 1 \in 1 .. 1
  OBVIOUS
<1> QED
  BY <1>1, <1>3, <1>4, <1>5 DEF InOrder

LEMMA FlattenInOrder ==
    ASSUME NEW lists, IsList(lists), \A i \in DOMAIN lists : IsList(lists[i])
    PROVE  InOrder(FlattenSeq(lists), lists, Len(lists))
<1> DEFINE n == Len(lists)
           f == CHOOSE flatten : Flattening(flatten, n, lists)
<1>1. n \in Nat /\ DOMAIN lists = 1 .. n
  BY LenProperties DEF IsList
<1>2. CASE n = 0
  <2>1. lists = <<>>
    BY <1>1, <1>2, EmptySeq DEF IsList
  <2>2. FlattenSeq(lists) = <<>>
    BY <1>2, <2>1 DEF FlattenSeq
  <2>3. <<>> \in Seq(Range(<<>>)) /\ Range(<<>>) = {} /\ DOMAIN <<>> = {}
    BY EmptySeq DEF Range
  <2>4. Gathered(lists, 0) = {}
    BY DEF Gathered
  <2>5. InOrder(<<>>, lists, 0)
    BY <2>3, <2>4 DEF InOrder, IsList
  <2> QED
    BY <1>2, <2>2, <2>5
<1>3. CASE n # 0
  <2>1. Flattening(f, n, lists)
    BY <1>1, FlatteningExists
  <2>2. FlattenSeq(lists) = f[n]
    BY <1>3 DEF FlattenSeq, Flattening
  <2> HIDE DEF f, n
  <2>3. \A i \in 1 .. n : f[i] = IF i = 1 THEN lists[i] ELSE f[i - 1] \o lists[i]
    BY <1>1, <2>1 DEF Flattening
  <2> DEFINE bad == {k \in 1 .. n : ~InOrder(f[k], lists, k)}
  <2>4. ASSUME bad # {}
        PROVE  FALSE
    <3>0. bad \in SUBSET Nat
      BY <1>1
    <3>1. PICK k \in bad : \A x \in bad : k <= x
      BY <2>4, <3>0, LeastExists
    <3>2. k \in 1 .. n /\ IsList(lists[k]) /\ ~InOrder(f[k], lists, k)
      BY <1>1, <3>1
    <3>3. k # 1
      <4>1. k = 1 => f[k] = lists[1] /\ IsList(lists[1])
        BY <2>3, <3>2
      <4> QED
        BY <3>2, <4>1, FirstListInOrder
    <3>4. k - 1 \in 1 .. n /\ ~ (k <= k - 1) /\ k - 1 \in Nat /\ (k - 1) + 1 = k
      BY <1>1, <3>2, <3>3
    <3>5. InOrder(f[k - 1], lists, k - 1)
      BY <3>1, <3>4
    <3>6. f[k] = f[k - 1] \o lists[k]
      BY <2>3, <3>2, <3>3
    <3>7. PICK m \in Nat : m = k - 1
      BY <3>4
    <3>8. PICK flat : flat = f[k - 1]
      OBVIOUS
    <3>9. InOrder(flat, lists, m) /\ IsList(lists[m + 1])
      BY <3>2, <3>4, <3>5, <3>7, <3>8
    <3>10. InOrder(flat \o lists[m + 1], lists, m + 1)
      BY <3>9, OneMoreList
    <3>11. m + 1 = k
      BY <3>4, <3>7
    <3> QED
      BY <3>2, <3>6, <3>8, <3>10, <3>11
  <2>5. n \in 1 .. n
    BY <1>1, <1>3
  <2>6. InOrder(f[n], lists, n)
    BY <2>4, <2>5
  <2> QED
    BY <2>2, <2>6 DEF n
<1> QED
  BY <1>2, <1>3

\* When each list belongs to a key, the order of the keys is that of the items.
LEMMA FlattenLeads ==
    ASSUME NEW keys, NEW k1, NEW k2, Leads(keys, k1, k2),
           NEW lists, lists = [i \in DOMAIN keys |-> lists[i]],
           \A i \in DOMAIN keys : IsList(lists[i]),
           \A i, j \in DOMAIN keys : keys[i] = keys[j] => lists[i] = lists[j],
           NEW first, NEW second,
           \A i \in DOMAIN keys : Range(lists[i]) \cap first # {} => keys[i] \in k1,
           \A i \in DOMAIN keys : Range(lists[i]) \cap second # {} => keys[i] \in k2
    PROVE  Leads(FlattenSeq(lists), first, second)
<1>1. IsList(keys)
  BY DEF Leads
<1>2. IsList(lists) /\ Len(lists) = Len(keys)
  BY <1>1, EachList
<1>3. PICK n : n = Len(keys)
  OBVIOUS
<1>4. n \in Nat /\ DOMAIN keys = 1 .. n /\ DOMAIN lists = 1 .. n
  BY <1>1, <1>2, <1>3, LenProperties DEF IsList
<1>5. PICK flat : flat = FlattenSeq(lists)
  OBVIOUS
<1>6. \A i \in DOMAIN lists : IsList(lists[i])
  BY <1>4
<1>7. InOrder(flat, lists, n)
  BY <1>2, <1>3, <1>5, <1>6, FlattenInOrder
<1>8. ASSUME NEW a \in Range(flat) \cap first, NEW k \in DOMAIN flat, flat[k] \in second
      PROVE  \E l \in 1 .. (k - 1) : flat[l] = a
  <2>1. PICK i \in 1 .. n :
           /\ flat[k] \in Range(lists[i])
           /\ \A x \in Gathered(lists, i - 1) : \E l \in 1 .. (k - 1) : flat[l] = x
    BY <1>7 DEF InOrder
  <2>2. keys[i] \in k2
    BY <1>4, <1>8, <2>1
  <2>3. PICK j \in 1 .. n : a \in Range(lists[j])
    BY <1>7 DEF InOrder, Gathered
  <2>4. keys[j] \in k1 /\ keys[j] \in Range(keys)
    BY <1>4, <1>8, <2>3 DEF Range
  <2>5. PICK o \in 1 .. (i - 1) : keys[o] = keys[j]
    BY <1>4, <2>2, <2>4 DEF Leads
  <2>6. o \in 1 .. n
    BY <1>4
  <2>7. a \in Range(lists[o])
    BY <1>4, <2>3, <2>5, <2>6
  <2>8. a \in Gathered(lists, i - 1)
    BY <2>7 DEF Gathered
  <2> QED
    BY <2>1, <2>8
<1>9. IsList(flat)
  BY <1>7 DEF InOrder
<1> QED
  BY <1>5, <1>8, <1>9 DEF Leads

\* The packages that are installed: checked out, the direct ones first, or extracted.
InstalledPackages(disk, directory, repos) ==
    LET packages == CheckedOut(disk, directory)
        extractions == Extractions(disk, directory)
    IN Uniquely(Among(repos, ToSet(packages))
                \o packages
                \o [i \in DOMAIN extractions |-> ExtractedPackage[extractions[i]]])

\* The direct ones that are checked out come before those that are not direct.
LEMMA PackagesLead ==
    ASSUME NEW disk, NEW directory, NEW repos, IsList(repos),
           NEW others, others \cap Range(repos) = {}
    PROVE  /\ Leads(InstalledPackages(disk, directory, repos),
                    Range(repos) \cap Range(CheckedOut(disk, directory)), others)
           /\ \A package \in Range(InstalledPackages(disk, directory, repos)) :
                 \/ package # ".resources" /\ IsDir(disk, Append(directory, package))
                 \/ ExtractionsOf(disk, directory, package) # <<>>
           /\ \A name \in Range(Extractions(disk, directory)) :
                 ExtractedPackage[name] \in Range(InstalledPackages(disk, directory, repos))
<1>1. PICK names : names = Directories(disk, directory)
  OBVIOUS
<1>2. IsList(names) /\ \A name \in Range(names) : IsDir(disk, Append(directory, name))
  BY <1>1, DirectoriesExist
<1>3. PICK visible : visible = ToSet(NameOrder) \ {".resources"}
  OBVIOUS
<1>4. PICK packages : packages = CheckedOut(disk, directory)
  OBVIOUS
<1>5. packages = Among(names, visible)
  BY <1>1, <1>3, <1>4 DEF CheckedOut
<1>6. IsList(packages) /\ Range(packages) = Range(names) \cap visible
  BY <1>2, <1>5, AmongList
<1>7. PICK direct : direct = Among(repos, ToSet(packages))
  OBVIOUS
<1>8. IsList(direct) /\ Range(direct) = Range(repos) \cap ToSet(packages)
  BY <1>7, AmongList
<1>9. ToSet(packages) = Range(packages)
  BY DEF ToSet, Range
<1>10. PICK extractions : extractions = Extractions(disk, directory)
  OBVIOUS
<1>11. IsList(extractions)
  BY <1>10, ExtractionsExist
<1>12. PICK extracted : extracted = [i \in DOMAIN extractions |-> ExtractedPackage[extractions[i]]]
  OBVIOUS
<1>13. IsList(extracted) /\ Range(extracted) = {ExtractedPackage[name] : name \in Range(extractions)}
  <2>1. DOMAIN extracted = DOMAIN extractions
        /\ \A i \in DOMAIN extractions : extracted[i] = ExtractedPackage[extractions[i]]
    BY <1>12
  <2>2. extracted = [i \in DOMAIN extractions |-> extracted[i]]
    BY <1>12, <2>1
  <2>3. IsList(extracted)
    BY <1>11, <2>2, EachList
  <2> QED
    BY <2>1, <2>3 DEF Range
<1>14. PICK checkedOut : checkedOut = direct \o packages
  OBVIOUS
<1>15. IsList(checkedOut) /\ Range(checkedOut) = Range(direct) \union Range(packages)
  BY <1>6, <1>8, <1>14, ConcatList
<1>16. PICK all : all = checkedOut \o extracted
  OBVIOUS
<1>17. IsList(all) /\ Range(all) = Range(checkedOut) \union Range(extracted)
  BY <1>13, <1>15, <1>16, ConcatList
<1>18. InstalledPackages(disk, directory, repos) = Uniquely(all)
  BY <1>4, <1>7, <1>10, <1>12, <1>14, <1>16 DEF InstalledPackages
<1>19. IsList(Uniquely(all)) /\ Range(Uniquely(all)) = Range(all)
  BY <1>17, UniquelyRange
<1>20. PICK first : first = Range(repos) \cap Range(packages)
  OBVIOUS
<1>21. Leads(Uniquely(all), first, others)
  <2>1. Leads(direct, first, others)
    BY <1>8, NoneLeads
  <2>2. Range(direct) = first
    BY <1>8, <1>9, <1>20
  <2>3. Leads(checkedOut, first, others)
    BY <1>6, <1>8, <1>14, <2>1, <2>2, ConcatLeads
  <2>4. Leads(all, first, others)
    BY <1>13, <1>15, <1>16, <2>2, <2>3, ConcatLeads
  <2> QED
    BY <2>4, UniquelyLeads
<1>22. ASSUME NEW package \in Range(Uniquely(all))
       PROVE  \/ package # ".resources" /\ IsDir(disk, Append(directory, package))
              \/ ExtractionsOf(disk, directory, package) # <<>>
  <2>1. package \in Range(packages) \/ package \in Range(extracted)
    BY <1>8, <1>9, <1>15, <1>17, <1>19
  <2>2. CASE package \in Range(packages)
    <3>1. IsDir(disk, Append(directory, package))
      BY <1>2, <1>6, <2>2
    <3>2. package # ".resources"
      BY <1>3, <1>6, <2>2
    <3> QED
      BY <3>1, <3>2
  <2>3. CASE package \in Range(extracted)
    <3>1. PICK name \in Range(extractions) : package = ExtractedPackage[name]
      BY <1>13, <2>3
    <3>2. name \in Range(ExtractionsOf(disk, directory, package))
      BY <1>10, <3>1, ExtractionsOfPackage
    <3> QED
      BY <3>2, ExtractionsOfPackage, ListWithItems
  <2> QED
    BY <2>1, <2>2, <2>3
<1>23. \A name \in Range(extractions) : ExtractedPackage[name] \in Range(Uniquely(all))
  BY <1>13, <1>17, <1>19
<1> QED
  BY <1>4, <1>10, <1>18, <1>20, <1>21, <1>22, <1>23

\* A path in the checkout of a package or in a directory of its extracted includes.
Owned(path, directory, package) ==
    /\ IsPath(path) /\ Begins(directory, path)
    /\ \/ /\ Len(path) > Len(directory) /\ path[Len(directory) + 1] # ".resources"
          /\ path[Len(directory) + 1] = package
       \/ /\ Len(path) > Len(directory) + 1 /\ path[Len(directory) + 1] = ".resources"
          /\ ExtractedPackage[path[Len(directory) + 2]] = package

\* It is of this package, and of no other.
LEMMA OwnedIsOf ==
    ASSUME NEW path, NEW directory, NEW package, Owned(path, directory, package)
    PROVE  PackageOf(directory, path) = package
BY DEF Owned, PackageOf

\* What is below it is of the package as well.
LEMMA OwnedBelow ==
    ASSUME NEW directory, IsPath(directory), NEW package, NEW root, Owned(root, directory, package),
           NEW path, IsPath(path), Begins(root, path)
    PROVE  Owned(path, directory, package)
<1>1. IsPath(root) /\ Begins(directory, root)
  BY DEF Owned
<1>2. Begins(directory, path)
  BY <1>1, BeginsTransitive
<1>3. PICK d : d = Len(directory)
  OBVIOUS
<1>4. d \in Nat /\ Len(root) \in Nat /\ Len(path) \in Nat
  BY <1>1, <1>3, LenProperties DEF IsPath
<1>5. Len(root) <= Len(path) /\ \A i \in 1 .. Len(root) : root[i] = path[i]
  BY DEF Begins
<1>6. Len(root) > d => Len(path) > d /\ root[d + 1] = path[d + 1]
  BY <1>4, <1>5
<1>7. Len(root) > d + 1 => Len(path) > d + 1 /\ root[d + 1] = path[d + 1] /\ root[d + 2] = path[d + 2]
  BY <1>4, <1>5
<1> QED
  BY <1>2, <1>3, <1>6, <1>7 DEF Owned

\* The directory of a package that is checked out.
LEMMA CheckoutIsOwned ==
    ASSUME NEW directory, IsPath(directory), NEW package, package # ".resources"
    PROVE  Owned(Append(directory, package), directory, package)
<1>1. PICK path : path = Append(directory, package)
  OBVIOUS
<1>2. /\ IsPath(path) /\ Begins(directory, path)
      /\ Len(path) = Len(directory) + 1 /\ path[Len(directory) + 1] = package
  BY <1>1, AppendIsPath
<1>3. Len(directory) \in Nat
  BY LenProperties DEF IsPath
<1>4. Len(path) > Len(directory)
  BY <1>2, <1>3
<1> QED
  BY <1>1, <1>2, <1>4 DEF Owned

\* A directory of extracted includes.
LEMMA ExtractionIsOwned ==
    ASSUME NEW directory, IsPath(directory), NEW hidden, hidden = ".resources", NEW name
    PROVE  Owned(Append(Append(directory, hidden), name), directory, ExtractedPackage[name])
<1>1. PICK below : below = Append(directory, hidden)
  OBVIOUS
<1>2. PICK path : path = Append(below, name)
  OBVIOUS
<1>3. PICK d : d = Len(directory)
  OBVIOUS
<1>4. d \in Nat
  BY <1>3, LenProperties DEF IsPath
<1>5. IsPath(below) /\ Begins(directory, below) /\ Len(below) = d + 1 /\ below[d + 1] = hidden
  BY <1>1, <1>3, AppendIsPath
<1>6. IsPath(path) /\ Begins(below, path) /\ Len(path) = (d + 1) + 1 /\ path[(d + 1) + 1] = name
  BY <1>2, <1>5, AppendIsPath
<1>7. Begins(directory, path)
  BY <1>5, <1>6, BeginsTransitive
<1>8. Len(path) > d + 1 /\ path[d + 1] = hidden /\ path[d + 2] = name
  <2>1. d + 1 \in 1 .. Len(below) /\ (d + 1) + 1 = d + 2
    BY <1>4, <1>5
  <2>2. path[d + 1] = below[d + 1]
    BY <1>6, <2>1 DEF Begins
  <2> QED
    BY <1>4, <1>5, <1>6, <2>1, <2>2
<1> QED
  BY <1>1, <1>2, <1>3, <1>6, <1>7, <1>8 DEF Owned

\* All items of a list are of a package.
AllOwned(items, directory, package) ==
    IsList(items) /\ \A r \in Range(items) : Proper(r) /\ Owned(r, directory, package)

\* What a package is searched in is of that package.
LEMMA RootsOfOwned ==
    ASSUME NEW disk, Filed(disk), NEW directory, Proper(directory), NEW package,
           \/ package # ".resources" /\ IsDir(disk, Append(directory, package))
           \/ ExtractionsOf(disk, directory, package) # <<>>
    PROVE  AllOwned(RootsOf(disk, directory, package), directory, package)
<1>1. IsPath(directory) /\ Begins(directory, directory)
  BY BelowItself DEF Proper
<1>2. PICK extractions : extractions = ExtractionsOf(disk, directory, package)
  OBVIOUS
<1>3. CASE extractions # <<>>
  <2>1. PICK name : name = Last(extractions)
    OBVIOUS
  <2>2. name \in Range(extractions)
    BY <1>2, <1>3, <2>1, ExtractionsOfPackage, FirstOfList
  <2>3. name \in Range(Extractions(disk, directory)) /\ ExtractedPackage[name] = package
    BY <1>2, <2>2, ExtractionsOfPackage
  <2>4. PICK hidden : hidden = ".resources"
    OBVIOUS
  <2>5. PICK below : below = Append(directory, hidden)
    OBVIOUS
  <2>6. IsPath(below) /\ Begins(directory, below)
    BY <1>1, <2>5, AppendIsPath
  <2>7. IsDir(disk, Append(below, name))
    BY <2>3, <2>4, <2>5, ExtractionsExist
  <2>8. PICK path : path = Append(below, name)
    OBVIOUS
  <2>9. Proper(path)
    BY <2>6, <2>7, <2>8, NamedIsBelow
  <2>10. Owned(path, directory, package)
    BY <1>1, <2>3, <2>4, <2>5, <2>8, ExtractionIsOwned
  <2>11. RootsOf(disk, directory, package) = <<path>>
    <3>1. directory \o <<hidden, name>> = path
      BY <1>1, <2>5, <2>8, TwoAfter
    <3> QED
      BY <1>2, <1>3, <2>1, <2>4, <3>1 DEF RootsOf
  <2>12. AllOwned(<<path>>, directory, package)
    BY <2>9, <2>10, OneList DEF AllOwned
  <2> QED
    BY <2>11, <2>12
<1>4. CASE extractions = <<>>
  <2>1. PICK path : path = Append(directory, package)
    OBVIOUS
  <2>2. package # ".resources" /\ IsDir(disk, path)
    BY <1>2, <1>4, <2>1
  <2>3. Proper(path)
    BY <1>1, <2>1, <2>2, NamedIsBelow
  <2>4. Owned(path, directory, package)
    BY <1>1, <2>1, <2>2, CheckoutIsOwned
  <2>5. RootsOf(disk, directory, package) = DependencyPackageRoots(disk, path)
    BY <1>2, <1>4, <2>1 DEF RootsOf
  <2>6. AllBelow(DependencyPackageRoots(disk, path), path)
    BY <2>3, PackageBelow
  <2>7. ASSUME NEW r, Proper(r), Begins(path, r)
        PROVE  Owned(r, directory, package)
    BY <1>1, <2>4, <2>7, OwnedBelow DEF Proper
  <2>8. AllOwned(DependencyPackageRoots(disk, path), directory, package)
    BY <2>6, <2>7 DEF AllBelow, AllOwned
  <2> QED
    BY <2>5, <2>8
<1> QED
  BY <1>3, <1>4

\* The roots that are of some packages.
RootsOfThose(roots, directory, packages) == {r \in Range(roots) : PackageOf(directory, r) \in packages}

\* Of a package these are searched, and no others.
SearchedInThose(roots, disk, directory, package) ==
    /\ Range(RootsOf(disk, directory, package)) \subseteq Range(roots)
    /\ \A r \in Range(roots) : PackageOf(directory, r) = package => r \in Range(RootsOf(disk, directory, package))

\* The roots of the direct dependencies that are checked out come before those of
\* packages that are not direct, and each is of a package; the directory of a package's
\* only extracted includes is one of them.
LEMMA DependenciesLead ==
    ASSUME NEW disk, Filed(disk), NEW directory, Proper(directory), NEW repos, IsList(repos),
           NEW others, others \cap Range(repos) = {},
           NEW roots, roots = InstalledDependencyRoots(disk, directory, repos),
           NEW direct, direct = Range(repos) \cap Range(CheckedOut(disk, directory))
    PROVE  /\ Leads(roots, RootsOfThose(roots, directory, direct), RootsOfThose(roots, directory, others))
           /\ \A r \in Range(roots) : Proper(r) /\ Owned(r, directory, PackageOf(directory, r))
           /\ \A package : ExtractionsOf(disk, directory, package) # <<>> =>
                 SearchedInThose(roots, disk, directory, package)
<1>1. PICK packages : packages = InstalledPackages(disk, directory, repos)
  OBVIOUS
<1>2. /\ Leads(packages, direct, others)
      /\ \A package \in Range(packages) :
            \/ package # ".resources" /\ IsDir(disk, Append(directory, package))
            \/ ExtractionsOf(disk, directory, package) # <<>>
      /\ \A name \in Range(Extractions(disk, directory)) : ExtractedPackage[name] \in Range(packages)
  BY <1>1, PackagesLead
<1>3. IsList(packages)
  BY <1>2 DEF Leads
<1>4. PICK lists : lists = [i \in DOMAIN packages |-> RootsOf(disk, directory, packages[i])]
  OBVIOUS
<1>5. DOMAIN lists = DOMAIN packages /\ \A i \in DOMAIN packages : lists[i] = RootsOf(disk, directory, packages[i])
  BY <1>4
<1>6. lists = [i \in DOMAIN packages |-> lists[i]]
  BY <1>4, <1>5
<1>7. PICK flat : flat = FlattenSeq(lists)
  OBVIOUS
<1>8. roots = Uniquely(flat)
  BY <1>1, <1>4, <1>7 DEF InstalledDependencyRoots, InstalledPackages, PackageRoots
<1>9. ASSUME NEW i \in DOMAIN packages
      PROVE  AllOwned(lists[i], directory, packages[i])
  <2>1. PICK package : package = packages[i]
    OBVIOUS
  <2>2. package \in Range(packages)
    BY <2>1 DEF Range
  <2>3. AllOwned(RootsOf(disk, directory, package), directory, package)
    BY <1>2, <2>2, RootsOfOwned
  <2> QED
    BY <1>5, <2>1, <2>3
<1>10. \A i \in DOMAIN packages : IsList(lists[i])
  BY <1>9 DEF AllOwned
<1>11. \A i, j \in DOMAIN packages : packages[i] = packages[j] => lists[i] = lists[j]
  BY <1>5
<1>12. ASSUME NEW i \in DOMAIN packages, NEW r \in Range(lists[i])
       PROVE  Proper(r) /\ PackageOf(directory, r) = packages[i] /\ Owned(r, directory, packages[i])
  <2>1. Proper(r) /\ Owned(r, directory, packages[i])
    BY <1>9, <1>12 DEF AllOwned
  <2> QED
    BY <2>1, OwnedIsOf
<1>13. PICK k1 : k1 = RootsOfThose(roots, directory, direct)
  OBVIOUS
<1>14. PICK k2 : k2 = RootsOfThose(roots, directory, others)
  OBVIOUS
<1>15. \A i \in DOMAIN packages : Range(lists[i]) \cap k1 # {} => packages[i] \in direct
  BY <1>12, <1>13 DEF RootsOfThose
<1>16. \A i \in DOMAIN packages : Range(lists[i]) \cap k2 # {} => packages[i] \in others
  BY <1>12, <1>14 DEF RootsOfThose
<1>17. Leads(flat, k1, k2)
  BY <1>2, <1>6, <1>7, <1>10, <1>11, <1>15, <1>16, FlattenLeads
<1>18. Leads(roots, k1, k2)
  BY <1>8, <1>17, UniquelyLeads
<1>19. IsList(flat) /\ Range(roots) = Range(flat)
  BY <1>8, <1>17, UniquelyRange DEF Leads
<1>20. PICK n : n = Len(lists)
  OBVIOUS
<1>21. n = Len(packages) /\ n \in Nat /\ DOMAIN packages = 1 .. n /\ IsList(lists)
  BY <1>3, <1>6, <1>20, EachList, LenProperties DEF IsList
<1>22. Range(flat) = Gathered(lists, n)
  <2>1. \A i \in DOMAIN lists : IsList(lists[i])
    BY <1>5, <1>10
  <2> QED
    BY <1>7, <1>20, <1>21, <2>1, FlattenInOrder DEF InOrder
<1>23. \A r : r \in Range(roots) <=> \E i \in DOMAIN packages : r \in Range(lists[i])
  BY <1>19, <1>21, <1>22 DEF Gathered
<1>24. ASSUME NEW r \in Range(roots)
       PROVE  Proper(r) /\ Owned(r, directory, PackageOf(directory, r))
  BY <1>12, <1>23
<1>25. ASSUME NEW package, ExtractionsOf(disk, directory, package) # <<>>
       PROVE  SearchedInThose(roots, disk, directory, package)
  <2>1. PICK name \in Range(ExtractionsOf(disk, directory, package)) : TRUE
    BY <1>25, ExtractionsOfPackage, FirstOfList
  <2>2. package \in Range(packages)
    BY <1>2, <2>1, ExtractionsOfPackage
  <2>3. PICK i \in DOMAIN packages : packages[i] = package
    BY <2>2 DEF Range
  <2>4. lists[i] = RootsOf(disk, directory, package)
    BY <1>5, <2>3
  <2>5. ASSUME NEW r \in Range(roots), PackageOf(directory, r) = package
        PROVE  r \in Range(RootsOf(disk, directory, package))
    <3>1. PICK j \in DOMAIN packages : r \in Range(lists[j])
      BY <1>23
    <3>2. packages[j] = package
      BY <1>12, <2>5, <3>1
    <3> QED
      BY <1>5, <3>1, <3>2
  <2> QED
    BY <1>23, <2>3, <2>4, <2>5 DEF SearchedInThose
<1> QED
  BY <1>13, <1>14, <1>18, <1>24, <1>25

\* A name that is not special below a proper directory.
LEMMA AppendIsProper ==
    ASSUME NEW root, Proper(root), NEW name, name \notin Special
    PROVE  Proper(Append(root, name))
<1>1. PICK path : path = Append(root, name)
  OBVIOUS
<1>2. IsPath(root) /\ Len(root) \in Nat /\ Len(root) > 1
  BY LenProperties DEF Proper, IsPath
<1>3. /\ IsPath(path) /\ Begins(root, path)
      /\ Len(path) = Len(root) + 1 /\ path[Len(root) + 1] = name
  BY <1>1, <1>2, AppendIsPath
<1>4. \A i \in 1 .. Len(root) : path[i] = root[i]
  BY <1>3 DEF Begins
<1>5. path[1] = root[1] /\ Len(path) > 1
  BY <1>2, <1>3, <1>4
<1>6. ASSUME NEW i \in 2 .. Len(path)
      PROVE  path[i] \notin Special
  <2>1. CASE i = Len(root) + 1
    BY <1>3, <2>1
  <2>2. CASE i # Len(root) + 1
    <3>1. i \in 2 .. Len(root) /\ i \in 1 .. Len(root)
      BY <1>2, <1>3, <2>2
    <3> QED
      BY <1>4, <3>1 DEF Proper
  <2> QED
    BY <2>1, <2>2
<1> QED
  BY <1>1, <1>3, <1>5, <1>6 DEF Proper

\* A clean path is absolute.
LEMMA CleanedIsAbs ==
    ASSUME NEW path, Cleaned(path)
    PROVE  IsPath(path) /\ IsAbs(path)
<1>1. IsPath(path) /\ Len(path) > 1
  BY CleanedIsPath
<1>2. ASSUME path = <<"", "">>
      PROVE  path[1] = ""
  BY <1>2
<1>3. path[1] = ""
  BY <1>2 DEF Cleaned, Proper
<1> QED
  BY <1>1, <1>3 DEF IsAbs

\* The project's own roots, and those a tool adds.
OwnRoots(root, m, build, managed) ==
    Range(JoinEach(root, IncludesOf(build) \o m.includes)) \union Range(EntryRoots(root, m.entry))
    \union {Clean(r) : r \in Range(managed)}

\* What a view needs to know of its roots: those of dependencies are in their order, all
\* are there, and the others are not in the directory of the dependencies.
SearchedInOrder(roots, directory, installed, first, second) ==
    /\ Leads(roots, first, second)
    /\ Range(installed) \subseteq Range(roots)
    /\ \A r \in Range(roots) : Cleaned(r)
    /\ \A r \in Range(roots) : Begins(directory, r) => r \in Range(installed)

\* The roots of a project whose dependencies are searched in some.
RootsWith(root, m, build, managed, installed) ==
    Uniquely(JoinEach(root, IncludesOf(build)) \o EntryRoots(root, m.entry) \o <<root>>
             \o JoinEach(root, m.includes) \o installed \o [i \in DOMAIN managed |-> Clean(managed[i])])

LEMMA RootsLead ==
    ASSUME NEW root, Proper(root), NEW m, IsManifest(m),
           NEW build, ArePaths(IncludesOf(build)), NEW managed, ArePaths(managed),
           \A r \in Range(managed) : IsAbs(r),
           NEW directory, Proper(directory), Begins(root, directory), Len(root) < Len(directory),
           \A r \in OwnRoots(root, m, build, managed) : ~Begins(directory, r),
           NEW installed, IsList(installed), \A r \in Range(installed) : Proper(r) /\ Begins(directory, r),
           NEW first \in SUBSET Range(installed), NEW second \in SUBSET Range(installed),
           Leads(installed, first, second)
    PROVE  SearchedInOrder(RootsWith(root, m, build, managed, installed), directory, installed, first, second)
<1>1. PICK built : built = JoinEach(root, IncludesOf(build))
  OBVIOUS
<1>2. PICK quoted : quoted = EntryRoots(root, m.entry)
  OBVIOUS
<1>3. PICK alone : alone = <<root>>
  OBVIOUS
<1>4. PICK declared : declared = JoinEach(root, m.includes)
  OBVIOUS
<1>5. PICK added : added = [i \in DOMAIN managed |-> Clean(managed[i])]
  OBVIOUS
<1>6. PICK own : own = OwnRoots(root, m, build, managed)
  OBVIOUS
<1>7. /\ IsList(IncludesOf(build)) /\ \A rel \in Range(IncludesOf(build)) : IsPath(rel)
      /\ IsList(m.includes) /\ \A rel \in Range(m.includes) : IsPath(rel)
      /\ IsList(managed) /\ \A r \in Range(managed) : IsPath(r)
  BY DEF ArePaths, IsManifest, IsList
<1>8. PICK both : both = IncludesOf(build) \o m.includes
  OBVIOUS
<1>9. IsList(both) /\ Range(both) = Range(IncludesOf(build)) \union Range(m.includes)
  BY <1>7, <1>8, ConcatList
<1>10. Range(JoinEach(root, both)) = {Join(root, path) : path \in Range(both)}
  BY <1>9, JoinEachList
<1>11. IsList(built) /\ Range(built) = {Join(root, path) : path \in Range(IncludesOf(build))}
  BY <1>1, <1>7, JoinEachList
<1>12. IsList(declared) /\ Range(declared) = {Join(root, path) : path \in Range(m.includes)}
  BY <1>4, <1>7, JoinEachList
<1>13. Range(built) \subseteq own /\ Range(declared) \subseteq own
  BY <1>6, <1>8, <1>9, <1>10, <1>11, <1>12 DEF OwnRoots
<1>14. IsList(added) /\ Range(added) = {Clean(r) : r \in Range(managed)}
  <2>1. DOMAIN added = DOMAIN managed /\ \A i \in DOMAIN managed : added[i] = Clean(managed[i])
    BY <1>5
  <2>2. added = [i \in DOMAIN managed |-> added[i]]
    BY <1>5, <2>1
  <2>3. IsList(added)
    BY <1>7, <2>2, EachList
  <2> QED
    BY <2>1, <2>3 DEF Range
<1>15. Range(added) \subseteq own /\ Range(quoted) \subseteq own
  BY <1>2, <1>6, <1>14 DEF OwnRoots
<1>16. /\ IsList(quoted) /\ \A r \in Range(quoted) : Cleaned(r)
  <2>1. CASE m.entry = <<"">>
    <3>1. quoted = <<>>
      BY <1>2, <2>1 DEF EntryRoots
    <3>2. <<>> \in Seq(Range(<<>>)) /\ Range(<<>>) = {}
      BY EmptySeq DEF Range
    <3> QED
      BY <3>1, <3>2 DEF IsList
  <2>2. CASE m.entry # <<"">>
    <3>1. PICK path : path = Join(root, m.entry)
      OBVIOUS
    <3>2. quoted = <<Parent(Clean(path))>>
      BY <1>2, <2>2, <3>1 DEF EntryRoots, EntryPath, Dir
    <3>3. IsPath(m.entry)
      BY DEF IsManifest
    <3>4. path = <<"", "">> \/ Proper(path)
      BY <3>1, <3>3, JoinIsClean
    <3>5. IsPath(path) /\ IsAbs(path)
      BY <3>4, CleanedIsAbs DEF Cleaned
    <3>6. Cleaned(Parent(Clean(path)))
      BY <3>5, CleanIsProper, ParentIsClean DEF Cleaned
    <3>7. PICK r : r = Parent(Clean(path))
      OBVIOUS
    <3>8. quoted = <<r>> /\ Cleaned(r)
      BY <3>2, <3>6, <3>7
    <3> QED
      BY <3>8, OneList
  <2> QED
    BY <2>1, <2>2
<1>17. IsList(alone) /\ Range(alone) = {root}
  BY <1>3, OneList
<1>18. ~Begins(directory, root)
  <2>1. Len(root) \in Nat /\ Len(directory) \in Nat
    BY LenProperties DEF Proper, IsPath
  <2> QED
    BY <2>1 DEF Begins
<1>19. \A r \in Range(built) \union Range(quoted) \union Range(alone) \union Range(declared) \union Range(added) :
          ~Begins(directory, r)
  BY <1>6, <1>13, <1>15, <1>17, <1>18
<1>20. \A r \in first \union second : Begins(directory, r)
  OBVIOUS
<1>21. PICK l2 : l2 = built \o quoted
  OBVIOUS
<1>22. IsList(l2) /\ Range(l2) = Range(built) \union Range(quoted)
  BY <1>11, <1>16, <1>21, ConcatList
<1>23. PICK l3 : l3 = l2 \o alone
  OBVIOUS
<1>24. IsList(l3) /\ Range(l3) = Range(l2) \union Range(alone)
  BY <1>17, <1>22, <1>23, ConcatList
<1>25. PICK l4 : l4 = l3 \o declared
  OBVIOUS
<1>26. IsList(l4) /\ Range(l4) = Range(l3) \union Range(declared)
  BY <1>12, <1>24, <1>25, ConcatList
<1>27. Range(l4) \cap (first \union second) = {}
  BY <1>19, <1>20, <1>22, <1>24, <1>26
<1>28. PICK l5 : l5 = l4 \o installed
  OBVIOUS
<1>29. IsList(l5) /\ Range(l5) = Range(l4) \union Range(installed)
  BY <1>26, <1>28, ConcatList
<1>30. Leads(l5, first, second)
  BY <1>26, <1>27, <1>28, ConcatLeads
<1>31. PICK l6 : l6 = l5 \o added
  OBVIOUS
<1>32. IsList(l6) /\ Range(l6) = Range(l5) \union Range(added)
  BY <1>14, <1>29, <1>31, ConcatList
<1>33. Range(added) \cap first \subseteq Range(l5)
  BY <1>19, <1>20
<1>34. Leads(l6, first, second)
  BY <1>14, <1>29, <1>30, <1>31, <1>33, ConcatLeads
<1>35. PICK roots : roots = Uniquely(l6)
  OBVIOUS
<1>36. Leads(roots, first, second) /\ Range(roots) = Range(l6)
  BY <1>32, <1>34, <1>35, UniquelyLeads, UniquelyRange
<1>37. Range(roots) = Range(built) \union Range(quoted) \union Range(alone) \union Range(declared)
                      \union Range(installed) \union Range(added)
  BY <1>22, <1>24, <1>26, <1>29, <1>32, <1>36
<1>38. \A r \in Range(roots) : Begins(directory, r) => r \in Range(installed)
  BY <1>19, <1>37
<1>39. ASSUME NEW r \in Range(roots)
       PROVE  Cleaned(r)
  <2>1. CASE r \in Range(built) \union Range(declared)
    <3>1. PICK rel : IsPath(rel) /\ r = Join(root, rel)
      BY <1>7, <1>11, <1>12, <2>1
    <3> QED
      BY <3>1, JoinIsClean DEF Cleaned
  <2>2. CASE r \in Range(quoted)
    BY <1>16, <2>2
  <2>3. CASE r \in Range(alone) \union Range(installed)
    BY <1>17, <2>3 DEF Cleaned
  <2>4. CASE r \in Range(added)
    <3>1. PICK path \in Range(managed) : r = Clean(path)
      BY <1>14, <2>4
    <3>2. IsPath(path) /\ IsAbs(path)
      BY <1>7
    <3> QED
      BY <3>1, <3>2, CleanIsProper DEF Cleaned
  <2> QED
    BY <1>37, <2>1, <2>2, <2>3, <2>4
<1>40. SearchedInOrder(roots, directory, installed, first, second)
  BY <1>36, <1>37, <1>38, <1>39 DEF SearchedInOrder
<1> QED
  BY <1>1, <1>2, <1>3, <1>4, <1>5, <1>21, <1>23, <1>25, <1>28, <1>31, <1>35, <1>40 DEF RootsWith

\* One segment pushed on nothing.
LEMMA PushFirst ==
    ASSUME NEW segment
    PROVE  /\ AbsPush(<<>>, segment) = IF segment \in Special THEN <<>> ELSE <<segment>>
           /\ RelPush(<<>>, segment) = IF segment \in {"", "."} THEN <<>> ELSE <<segment>>
<1>1. Append(<<>>, segment) = <<segment>>
  OBVIOUS
<1>2. AbsPush(<<>>, segment) = IF segment \in Special THEN <<>> ELSE Append(<<>>, segment)
  BY DEF AbsPush, Push, Special
<1>3. RelPush(<<>>, segment) = IF segment \in {"", "."} THEN <<>> ELSE Append(<<>>, segment)
  BY DEF RelPush, Push
<1> QED
  BY <1>1, <1>2, <1>3

\* A path of one segment.
LEMMA OneIsPath ==
    ASSUME NEW segment
    PROVE  /\ IsPath(<<segment>>) /\ ~IsAbs(<<segment>>) /\ Len(<<segment>>) = 1 /\ <<segment>>[1] = segment
           /\ <<segment>> # <<>>
<1>1. IsList(<<segment>>) /\ Range(<<segment>>) = {segment}
  BY OneList
<1>2. Len(<<segment>>) = 1 /\ <<segment>>[1] = segment
  OBVIOUS
<1>3. <<segment>> # <<>>
  OBVIOUS
<1> QED
  BY <1>1, <1>2, <1>3 DEF IsList, IsPath, IsAbs

\* Only ".." escapes, of the paths of one segment.
LEMMA SafeOne ==
    ASSUME NEW segment
    PROVE  Safe(<<segment>>) <=> segment # ".."
<1>1. PICK path : path = <<segment>>
  OBVIOUS
<1>2. IsPath(path) /\ ~IsAbs(path) /\ Len(path) = 1 /\ path[1] = segment
  BY <1>1, OneIsPath
<1>3. PICK k : PushedAlone(k, path) /\ Clean(path) = RelRooted(k[Len(path)])
  BY <1>2, RelKeeps
<1>4. k[0] = <<>> /\ k[1] = RelPush(k[0], path[1])
  <2>1. 1 \in 1 .. Len(path) /\ 1 - 1 = 0
    BY <1>2
  <2> QED
    BY <1>3, <2>1 DEF PushedAlone
<1>5. k[1] = IF segment \in {"", "."} THEN <<>> ELSE <<segment>>
  BY <1>2, <1>4, PushFirst
<1>6. Clean(path) = RelRooted(k[1])
  BY <1>2, <1>3
<1>7. CASE segment \in {"", "."}
  <2>1. Clean(path) = <<".">>
    BY <1>5, <1>6, <1>7 DEF RelRooted, Rooted
  <2>2. Clean(path)[1] = "."
    BY <2>1
  <2> QED
    BY <1>1, <1>2, <1>7, <2>2 DEF Safe, HasTraversal
<1>8. CASE segment \notin {"", "."}
  <2>1. k[1] = path /\ path # <<>>
    BY <1>1, <1>5, <1>8, OneIsPath
  <2>2. Clean(path) = path
    BY <1>6, <2>1 DEF RelRooted, Rooted
  <2> QED
    BY <1>1, <1>2, <2>2 DEF Safe, HasTraversal
<1> QED
  BY <1>7, <1>8

\* A name that is joined to a proper directory is in it, or leads to itself.
LEMMA JoinOne ==
    ASSUME NEW root, Proper(root), NEW name, name # ".."
    PROVE  Join(root, <<name>>) = IF name \in Special THEN root ELSE Append(root, name)
<1>1. IsPath(root) /\ IsAbs(root)
  BY SecondOfProper DEF Proper
<1>2. PICK path : path = Append(root, name)
  OBVIOUS
<1>3. /\ IsPath(path) /\ Begins(root, path)
      /\ Len(path) = Len(root) + 1 /\ path[Len(root) + 1] = name
  BY <1>1, <1>2, AppendIsPath
<1>4. Join(root, <<name>>) = Clean(path)
  <2>1. PICK T : T = Range(root) \union {name}
    OBVIOUS
  <2>2. root \in Seq(T) /\ name \in T
    BY <1>1, <2>1, SeqMonotonic DEF IsPath
  <2>3. Append(root, name) = root \o <<name>>
    BY <2>2, AppendIsConcat
  <2> QED
    BY <1>2, <2>3 DEF Join
<1>5. PICK n \in Nat : n = Len(root) /\ n > 1
  BY <1>1, LenProperties DEF IsPath, Proper
<1>6. CASE name \notin Special
  <2>1. Proper(path)
    BY <1>2, <1>6, AppendIsProper
  <2> QED
    BY <1>2, <1>4, <1>6, <2>1, ProperIsClean
<1>7. CASE name \in Special
  <2>1. IsAbs(path)
    <3>1. Len(path) > 1 /\ path[1] = root[1]
      BY <1>3, <1>5 DEF Begins
    <3> QED
      BY <1>1, <3>1 DEF IsAbs
  <2>2. PICK g : PushedOn(g, <<>>, path) /\ Clean(path) = AbsRooted(g[Len(path)])
    BY <1>3, <2>1, AbsKeeps
  <2>3. PushedOn(g, <<>>, root)
    <3>1. \A i \in 1 .. n : i \in 1 .. Len(path) /\ path[i] = root[i]
      BY <1>3, <1>5 DEF Begins
    <3>2. g[0] = <<>> /\ \A i \in 1 .. Len(path) : g[i] = AbsPush(g[i - 1], path[i])
      BY <2>2 DEF PushedOn
    <3>3. \A i \in 1 .. n : g[i] = AbsPush(g[i - 1], root[i])
      BY <3>1, <3>2
    <3> QED
      BY <1>5, <3>2, <3>3 DEF PushedOn
  <2>4. g[n] # <<>> /\ root = <<"">> \o g[n]
    BY <1>5, <2>3, ProperKeeps
  <2>5. g[n + 1] = AbsPush(g[n], name)
    <3>1. n + 1 \in 1 .. Len(path) /\ (n + 1) - 1 = n /\ path[n + 1] = name
      BY <1>3, <1>5
    <3> QED
      BY <2>2, <3>1 DEF PushedOn
  <2>6. AbsPush(g[n], name) = g[n]
    <3>1. name \in {"", "."}
      BY <1>7 DEF Special
    <3> QED
      BY <3>1 DEF AbsPush, Push
  <2>7. Clean(path) = AbsRooted(g[n])
    BY <1>3, <1>5, <2>2, <2>5, <2>6
  <2>8. Clean(path) = root
    BY <2>4, <2>7 DEF AbsRooted, Rooted
  <2> QED
    BY <1>4, <1>7, <2>8
<1> QED
  BY <1>6, <1>7

\* One that is joined to "/" is no longer than "/".
LEMMA JoinTop ==
    ASSUME NEW name
    PROVE  Len(Join(<<"", "">>, <<name>>)) = 2
<1>1. PICK e : e = ""
  OBVIOUS
<1>2. PICK root : root = <<e, e>>
  OBVIOUS
<1>3. IsPath(root) /\ Len(root) = 2 /\ root[1] = e /\ root[2] = e
  <2>1. IsPath(<<e, e>>)
    BY TwoArePath
  <2>2. Len(<<e, e>>) = 2 /\ <<e, e>>[1] = e /\ <<e, e>>[2] = e
    OBVIOUS
  <2> QED
    BY <1>2, <2>1, <2>2
<1>4. PICK path : path = Append(root, name)
  OBVIOUS
<1>5. /\ IsPath(path) /\ Begins(root, path) /\ Len(path) = Len(root) + 1 /\ path[Len(root) + 1] = name
  BY <1>3, <1>4, AppendIsPath
<1>6. Len(path) = 3 /\ path[1] = e /\ path[2] = e /\ path[3] = name
  <2>1. 1 \in 1 .. Len(root) /\ 2 \in 1 .. Len(root) /\ Len(root) + 1 = 3
    BY <1>3
  <2> QED
    BY <1>3, <1>5, <2>1 DEF Begins
<1>7. Join(<<"", "">>, <<name>>) = Clean(path)
  <2>1. PICK T : T = Range(root) \union {name}
    OBVIOUS
  <2>2. root \in Seq(T) /\ name \in T
    BY <1>3, <2>1, SeqMonotonic DEF IsPath
  <2>3. Append(root, name) = root \o <<name>>
    BY <2>2, AppendIsConcat
  <2> QED
    BY <1>1, <1>2, <1>4, <2>3 DEF Join
<1>8. IsAbs(path)
  <2>1. Len(path) > 1
    BY <1>6
  <2>2. path[1] = ""
    BY <1>1, <1>6
  <2> QED
    BY <2>1, <2>2 DEF IsAbs
<1>9. PICK g : PushedOn(g, <<>>, path) /\ Clean(path) = AbsRooted(g[Len(path)])
  BY <1>5, <1>8, AbsKeeps
<1>10. g[0] = <<>> /\ g[1] = AbsPush(g[0], e) /\ g[2] = AbsPush(g[1], e) /\ g[3] = AbsPush(g[2], name)
  <2>1. 1 \in 1 .. Len(path) /\ 2 \in 1 .. Len(path) /\ 3 \in 1 .. Len(path) /\ 1 - 1 = 0 /\ 2 - 1 = 1 /\ 3 - 1 = 2
    BY <1>6
  <2> QED
    BY <1>6, <1>9, <2>1 DEF PushedOn
<1>11. e \in Special
  BY <1>1 DEF Special
<1>12. g[3] \in {<<>>, <<name>>}
  BY <1>10, <1>11, PushFirst
<1>13. Clean(path) = AbsRooted(g[3])
  BY <1>6, <1>9
<1>14. Len(AbsRooted(<<>>)) = 2
  BY DEF AbsRooted, Rooted
<1>15. Len(AbsRooted(<<name>>)) = 2
  <2>1. <<name>> # <<>>
    BY OneIsPath
  <2>2. AbsRooted(<<name>>) = <<"">> \o <<name>>
    BY <2>1 DEF AbsRooted, Rooted
  <2>3. PICK a, b : a = <<e>> /\ b = <<name>>
    OBVIOUS
  <2>4. PICK T : T = {e, name}
    OBVIOUS
  <2>5. a \in Seq(T) /\ b \in Seq(T) /\ Len(a) = 1 /\ Len(b) = 1
    <3>1. Range(a) \subseteq T /\ Range(b) \subseteq T /\ IsList(a) /\ IsList(b)
      BY <2>3, <2>4, OneList
    <3>2. Len(a) = 1 /\ Len(b) = 1
      BY <2>3, OneIsPath
    <3> QED
      BY <3>1, <3>2, SeqMonotonic DEF IsList
  <2>6. Len(a \o b) = Len(a) + Len(b)
    <3>1. a \in Seq(T) /\ b \in Seq(T)
      BY <2>5
    <3> QED
      BY <3>1, ConcatProperties
  <2>7. Len(a \o b) = 2
    BY <2>5, <2>6
  <2> QED
    BY <1>1, <2>2, <2>3, <2>7
<1> QED
  BY <1>7, <1>12, <1>13, <1>14, <1>15

\* Names in a directory.
AreNames(candidates) == ArePaths(candidates) /\ \A c \in Range(candidates) : \E name : c = <<name>>

\* A name in an include directive may mean names only, itself among them.
LEMMA CandidatesOfName ==
    ASSUME NEW name
    PROVE  /\ AreNames(SearchCandidates(<<name>>)) /\ <<name>> \in Range(SearchCandidates(<<name>>))
<1>1. PICK spec : spec = <<name>>
  OBVIOUS
<1>2. IsPath(spec) /\ spec # <<>>
  BY <1>1, OneIsPath
<1>3. ArePaths(SearchCandidates(spec))
  BY <1>2, CandidatesArePaths
<1>4. CASE Last(spec) \in DOMAIN WithInc
  <2>1. PICK long : long = WithInc[Last(spec)]
    OBVIOUS
  <2>2. Front(spec) = <<>>
    <3>1. Append(<<>>, name) = <<name>>
      OBVIOUS
    <3>2. PICK S, none : S = {name} /\ none = <<>>
      OBVIOUS
    <3>3. none \in Seq(S) /\ name \in S
      BY <3>2, EmptySeq
    <3>4. Front(Append(none, name)) = none
      BY <3>3, FrontOfAppend
    <3> QED
      BY <1>1, <3>1, <3>2, <3>4
  <2>3. Append(Front(spec), long) = <<long>>
    <3>1. Append(<<>>, long) = <<long>>
      OBVIOUS
    <3> QED
      BY <2>2, <3>1
  <2>4. PICK other : other = <<long>>
    OBVIOUS
  <2>5. SearchCandidates(spec) = <<spec, other>>
    BY <1>4, <2>1, <2>3, <2>4 DEF SearchCandidates
  <2>6. Range(<<spec, other>>) = {spec, other}
    BY TwoList
  <2> QED
    BY <1>1, <1>3, <2>4, <2>5, <2>6 DEF AreNames
<1>5. CASE Last(spec) \notin DOMAIN WithInc
  <2>1. SearchCandidates(spec) = <<spec>>
    BY <1>5 DEF SearchCandidates
  <2>2. Range(<<spec>>) = {spec}
    BY OneList
  <2> QED
    BY <1>1, <1>3, <2>1, <2>2 DEF AreNames
<1> QED
  BY <1>4, <1>5

\* What is matched in a directory.
LEMMA MatchesOf ==
    ASSUME NEW disk, NEW directory, NEW candidates, ArePaths(candidates)
    PROVE  /\ IsList(DirMatches(disk, directory, candidates))
           /\ Range(DirMatches(disk, directory, candidates)) =
                 {Join(directory, c) : c \in {c \in Range(candidates) : Safe(c)}} \cap disk
<1>1. IsList(candidates)
  BY DEF ArePaths, IsList
<1>2. PICK places : places = {i \in DOMAIN candidates : Safe(candidates[i])}
  OBVIOUS
<1>3. PICK safe : safe = SafeOnes(candidates)
  OBVIOUS
<1>4. safe = Picked(candidates, places)
  BY <1>2, <1>3 DEF SafeOnes
<1>5. IsList(safe) /\ Range(safe) = {candidates[i] : i \in places \cap DOMAIN candidates}
  BY <1>1, <1>4, PickedList
<1>6. Range(safe) = {c \in Range(candidates) : Safe(c)}
  BY <1>2, <1>5 DEF Range
<1>7. PICK joined : joined = JoinEach(directory, safe)
  OBVIOUS
<1>8. IsList(joined) /\ Range(joined) = {Join(directory, path) : path \in Range(safe)}
  BY <1>5, <1>7, JoinEachList
<1>9. IsList(Among(joined, disk)) /\ Range(Among(joined, disk)) = Range(joined) \cap disk
  BY <1>8, AmongList
<1>10. DirMatches(disk, directory, candidates) = Among(joined, disk)
  BY <1>3, <1>7 DEF DirMatches
<1> QED
  BY <1>6, <1>8, <1>9, <1>10

\* A file that is found by its name further down than a directory is found in a root at or
\* below that directory.
LEMMA MatchIsBelow ==
    ASSUME NEW directory, IsPath(directory), Len(directory) > 2, NEW root, Cleaned(root),
           NEW candidates, AreNames(candidates), NEW disk,
           NEW path \in Range(DirMatches(disk, root, candidates)),
           Begins(directory, path), Len(path) > Len(directory)
    PROVE  Begins(directory, root) /\ Begins(root, path)
<1>1. PICK c \in Range(candidates) : Safe(c) /\ path = Join(root, c)
  BY MatchesOf DEF AreNames
<1>2. PICK name : c = <<name>>
  BY DEF AreNames
<1>3. name # ".."
  BY <1>1, <1>2, SafeOne
<1>4. PICK d \in Nat : d = Len(directory) /\ d > 2
  BY LenProperties DEF IsPath
<1>12. Len(path) > d
  BY <1>4
<1>5. root # <<"", "">>
  <2>1. ASSUME root = <<"", "">>
        PROVE  Len(path) = 2
    BY <1>1, <1>2, <2>1, JoinTop
  <2>2. Len(path) # 2
    BY <1>4, <1>12
  <2> QED
    BY <2>1, <2>2
<1>6. Proper(root) /\ IsPath(root)
  BY <1>5 DEF Cleaned, Proper
<1>7. PICK n \in Nat : n = Len(root) /\ n > 1
  BY <1>6, LenProperties DEF Proper, IsPath
<1>8. path = IF name \in Special THEN root ELSE Append(root, name)
  BY <1>1, <1>2, <1>3, <1>6, JoinOne
<1>9. Begins(root, path) /\ Len(path) <= n + 1 /\ Len(path) \in Nat
  <2>1. CASE name \in Special
    <3>1. path = root
      BY <1>8, <2>1
    <3>2. Begins(root, root)
      BY <1>6, BelowItself
    <3>3. Len(path) = n
      BY <1>7, <3>1
    <3>4. n <= n + 1
      OBVIOUS
    <3> QED
      BY <3>1, <3>2, <3>3, <3>4
  <2>2. CASE name \notin Special
    <3>1. path = Append(root, name)
      BY <1>8, <2>2
    <3>2. IsPath(path) /\ Begins(root, path) /\ Len(path) = Len(root) + 1
      BY <1>6, <3>1, AppendIsPath
    <3> QED
      BY <1>7, <3>2
  <2> QED
    BY <2>1, <2>2
<1>10. d <= n
  BY <1>4, <1>9
<1>11. \A i \in 1 .. d : directory[i] = root[i]
  <2>1. \A i \in 1 .. d : directory[i] = path[i]
    BY <1>4 DEF Begins
  <2>2. \A i \in 1 .. n : root[i] = path[i]
    BY <1>7, <1>9 DEF Begins
  <2>3. \A i \in 1 .. d : i \in 1 .. n
    BY <1>10
  <2> QED
    BY <2>1, <2>2, <2>3
<1> QED
  BY <1>4, <1>7, <1>9, <1>10, <1>11 DEF Begins

\* The paths below a directory that are of some packages.
FilesOfThose(disk, directory, packages) ==
    {path \in disk : /\ Begins(directory, path) /\ Len(path) > Len(directory)
                     /\ PackageOf(directory, path) \in packages}

\* What a search of some directories finds.
FoundIn(disk, roots, candidates) ==
    Uniquely(FlattenSeq([i \in DOMAIN roots |-> DirMatches(disk, roots[i], candidates)]))

\* Files are found in the order of the roots.
LEMMA FoundLeads ==
    ASSUME NEW disk, Filed(disk), NEW directory, Proper(directory), Len(directory) > 2,
           NEW installed, \A r \in Range(installed) : Proper(r) /\ Owned(r, directory, PackageOf(directory, r)),
           NEW direct, NEW others, NEW roots,
           SearchedInOrder(roots, directory, installed, RootsOfThose(installed, directory, direct),
                           RootsOfThose(installed, directory, others)),
           NEW candidates, AreNames(candidates),
           NEW found,
           found = FoundIn(disk, roots, candidates)
    PROVE  /\ Leads(found, FilesOfThose(disk, directory, direct), FilesOfThose(disk, directory, others))
           /\ \A path \in Range(found) : Begins(directory, path) /\ Len(path) > Len(directory) =>
                 \E r \in Range(installed) : /\ Begins(r, path)
                                             /\ PackageOf(directory, r) = PackageOf(directory, path)
           /\ \A r \in Range(roots), c \in Range(candidates) :
                 Safe(c) /\ Join(r, c) \in disk => Join(r, c) \in Range(found)
           /\ Range(found) \subseteq disk
<1>1. PICK lists : lists = [i \in DOMAIN roots |-> DirMatches(disk, roots[i], candidates)]
  OBVIOUS
<1>2. DOMAIN lists = DOMAIN roots /\ \A i \in DOMAIN roots : lists[i] = DirMatches(disk, roots[i], candidates)
  BY <1>1
<1>3. lists = [i \in DOMAIN roots |-> lists[i]]
  BY <1>1, <1>2
<1>4. PICK k1 : k1 = RootsOfThose(installed, directory, direct)
  OBVIOUS
<1>5. PICK k2 : k2 = RootsOfThose(installed, directory, others)
  OBVIOUS
<1>6. /\ Leads(roots, k1, k2) /\ IsList(roots)
      /\ \A r \in Range(roots) : Cleaned(r)
      /\ \A r \in Range(roots) : Begins(directory, r) => r \in Range(installed)
  BY <1>4, <1>5 DEF SearchedInOrder, Leads
<1>7. ArePaths(candidates) /\ IsPath(directory)
  BY DEF AreNames, Proper
<1>8. ASSUME NEW i \in DOMAIN roots
      PROVE  /\ IsList(lists[i])
             /\ Range(lists[i]) = {Join(roots[i], c) : c \in {c \in Range(candidates) : Safe(c)}} \cap disk
  BY <1>2, <1>7, MatchesOf
<1>9. \A i \in DOMAIN roots : IsList(lists[i])
  BY <1>8
<1>10. \A i, j \in DOMAIN roots : roots[i] = roots[j] => lists[i] = lists[j]
  BY <1>2
<1>11. ASSUME NEW i \in DOMAIN roots, NEW path \in Range(lists[i]), Begins(directory, path), Len(path) > Len(directory)
       PROVE  /\ roots[i] \in Range(installed) /\ Begins(roots[i], path)
              /\ PackageOf(directory, roots[i]) = PackageOf(directory, path)
  <2>1. PICK r : r = roots[i]
    OBVIOUS
  <2>2. r \in Range(roots) /\ Cleaned(r)
    BY <1>6, <2>1 DEF Range
  <2>3. path \in Range(DirMatches(disk, r, candidates))
    BY <1>2, <1>11, <2>1
  <2>4. Begins(directory, r) /\ Begins(r, path)
    BY <1>7, <1>11, <2>2, <2>3, MatchIsBelow
  <2>5. r \in Range(installed)
    BY <1>6, <2>2, <2>4
  <2>6. Owned(r, directory, PackageOf(directory, r))
    BY <2>5
  <2>7. IsPath(path)
    <3>1. path \in disk
      BY <1>8, <1>11
    <3> QED
      BY <3>1, CleanedIsPath DEF Filed
  <2>8. Owned(path, directory, PackageOf(directory, r))
    BY <1>7, <2>4, <2>6, <2>7, OwnedBelow
  <2> QED
    BY <2>1, <2>4, <2>5, <2>8, OwnedIsOf
<1>12. PICK first : first = FilesOfThose(disk, directory, direct)
  OBVIOUS
<1>13. PICK second : second = FilesOfThose(disk, directory, others)
  OBVIOUS
<1>14. \A i \in DOMAIN roots : Range(lists[i]) \cap first # {} => roots[i] \in k1
  <2>1. ASSUME NEW i \in DOMAIN roots, NEW path \in Range(lists[i]) \cap first
        PROVE  roots[i] \in k1
    <3>1. Begins(directory, path) /\ Len(path) > Len(directory) /\ PackageOf(directory, path) \in direct
      BY <1>12, <2>1 DEF FilesOfThose
    <3>2. roots[i] \in Range(installed) /\ PackageOf(directory, roots[i]) = PackageOf(directory, path)
      BY <1>11, <2>1, <3>1
    <3> QED
      BY <1>4, <3>1, <3>2 DEF RootsOfThose
  <2> QED
    BY <2>1
<1>15. \A i \in DOMAIN roots : Range(lists[i]) \cap second # {} => roots[i] \in k2
  <2>1. ASSUME NEW i \in DOMAIN roots, NEW path \in Range(lists[i]) \cap second
        PROVE  roots[i] \in k2
    <3>1. Begins(directory, path) /\ Len(path) > Len(directory) /\ PackageOf(directory, path) \in others
      BY <1>13, <2>1 DEF FilesOfThose
    <3>2. roots[i] \in Range(installed) /\ PackageOf(directory, roots[i]) = PackageOf(directory, path)
      BY <1>11, <2>1, <3>1
    <3> QED
      BY <1>5, <3>1, <3>2 DEF RootsOfThose
  <2> QED
    BY <2>1
<1>16. PICK flat : flat = FlattenSeq(lists)
  OBVIOUS
<1>17. Leads(flat, first, second)
  BY <1>3, <1>6, <1>9, <1>10, <1>14, <1>15, <1>16, FlattenLeads
<1>18. found = Uniquely(flat)
  BY <1>1, <1>16 DEF FoundIn
<1>19. Leads(found, first, second) /\ Range(found) = Range(flat)
  <2>1. IsList(flat)
    BY <1>17 DEF Leads
  <2>2. Range(found) = Range(flat)
    BY <1>18, <2>1, UniquelyRange
  <2> QED
    BY <1>17, <1>18, <2>2, UniquelyLeads
<1>20. PICK n : n = Len(lists)
  OBVIOUS
<1>21. n \in Nat /\ DOMAIN roots = 1 .. n /\ IsList(lists)
  BY <1>3, <1>6, <1>20, EachList, LenProperties DEF IsList
<1>22. Range(flat) = Gathered(lists, n)
  <2>1. \A i \in DOMAIN lists : IsList(lists[i])
    BY <1>2, <1>9
  <2> QED
    BY <1>16, <1>20, <1>21, <2>1, FlattenInOrder DEF InOrder
<1>23. \A path : path \in Range(found) <=> \E i \in DOMAIN roots : path \in Range(lists[i])
  BY <1>19, <1>21, <1>22 DEF Gathered
<1>24. ASSUME NEW path \in Range(found), Begins(directory, path), Len(path) > Len(directory)
       PROVE  \E r \in Range(installed) : Begins(r, path) /\ PackageOf(directory, r) = PackageOf(directory, path)
  BY <1>11, <1>23, <1>24
<1>25. ASSUME NEW r \in Range(roots), NEW c \in Range(candidates), Safe(c), Join(r, c) \in disk
       PROVE  Join(r, c) \in Range(found)
  <2>1. PICK i \in DOMAIN roots : r = roots[i]
    BY DEF Range
  <2>2. Join(r, c) \in Range(lists[i])
    BY <1>8, <1>25, <2>1
  <2> QED
    BY <1>23, <2>2
<1>26. Range(found) \subseteq disk
  BY <1>8, <1>23
<1> QED
  BY <1>12, <1>13, <1>19, <1>24, <1>25, <1>26

\* A view is what the files give that are there, as no operation runs meanwhile.
LoadedInv ==
    view # Unset =>
        /\ job.pc = "idle"
        /\ \E start \in Starts, m \in Manifests, options \in LoadOptions :
              view = Load(DOMAIN tree, start, m, options)

\* Every step preserves that.
LEMMA LoadedStepInv ==
    ASSUME ToolInv, LoadedInv, [Next]_vars
    PROVE  LoadedInv'
<1>0. DOMAIN job = Fields
  BY DEF ToolInv, JobInv
<1>1. CASE UNCHANGED vars
  BY <1>1 DEF vars, tool, LoadedInv
<1>2. ASSUME NEW version \in RuntimeVersions, NEW resolves \in BOOLEAN, Begin(version, resolves)
      PROVE  view' = Unset
  BY <1>2 DEF Begin
<1>3. ASSUME Step
      PROVE  job.pc # "idle" /\ view' = view
  <2>1. CASE Select
    BY <2>1 DEF Select, Fail, End
  <2>2. CASE ResolveRecord \/ Write \/ BeginRestore
    BY <2>2 DEF ResolveRecord, Write, BeginRestore, Fail, End
  <2>3. CASE Fetch \/ Fetched
    BY <2>3 DEF Fetch, Fetched, Fail, End
  <2>4. CASE Install \/ CloseStore \/ Finish
    BY <2>4 DEF Install, CloseStore, Finish, Fail, End
  <2> QED
    BY <1>3, <2>1, <2>2, <2>3, <2>4 DEF Step
<1>4. ASSUME NEW t \in Threads, Serve(t) \/ Share(t)
      PROVE  UNCHANGED <<view, job, tree>>
  BY <1>4 DEF Serve, Share, tool
<1>5. ASSUME NEW u \in URLs, NEW b \in Bytes, Republish(u, b)
      PROVE  UNCHANGED <<view, job, tree>>
  BY <1>5 DEF Republish, tool
<1>6. ASSUME NEW start \in Starts, NEW m \in Manifests, NEW options \in LoadOptions, LoadProject(start, m, options)
      PROVE  job.pc = "idle" /\ UNCHANGED <<job, tree>> /\ view' = Load(DOMAIN tree, start, m, options)
  BY <1>6 DEF LoadProject
<1>8. CASE view' = Unset
  BY <1>8 DEF LoadedInv
<1>9. CASE Step
  BY <1>3, <1>9 DEF LoadedInv
<1>10. CASE UNCHANGED <<view, job, tree>>
  BY <1>10 DEF LoadedInv
<1>11. ASSUME NEW start \in Starts, NEW m \in Manifests, NEW options \in LoadOptions, LoadProject(start, m, options)
       PROVE  LoadedInv'
  BY <1>6, <1>11 DEF LoadedInv
<1> QED
  BY <1>1, <1>2, <1>4, <1>5, <1>8, <1>9, <1>10, <1>11 DEF Next, vars, tool

\* No view is loaded at first.
LEMMA LoadedInitInv == Init => LoadedInv
BY DEF Init, LoadedInv

\* A view whose own roots are not in dependencies/ is searched in order.
LEMMA ViewIsSearched ==
    ASSUME ToolAssumption, ViewInv, LoadedInv, view # Unset, RootsApart,
           NEW disk, disk = DOMAIN tree, NEW directory, directory = Dependencies,
           NEW installed, installed = InstalledDependencyRoots(disk, directory, view.repos),
           NEW direct, direct = Range(view.repos) \cap Range(CheckedOut(disk, directory)),
           NEW others, others \cap Range(view.repos) = {}
    PROVE  /\ Filed(disk) /\ Proper(view.root) /\ Proper(directory) /\ Len(directory) > 2 /\ IsList(view.repos)
           /\ IsList(view.roots)
           /\ SearchedInOrder(view.roots, directory, installed, RootsOfThose(installed, directory, direct),
                              RootsOfThose(installed, directory, others))
<1>1. Filed(disk) /\ Viewed(view)
  BY DEF ViewInv
<1>2. PICK root : root = view.root
  OBVIOUS
<1>3. Proper(root)
  BY <1>1, <1>2 DEF Viewed
<1>4. PICK name : name = "dependencies"
  OBVIOUS
<1>5. name \notin Special
  BY <1>4 DEF Special
<1>6. directory = Append(root, name)
  BY <1>2, <1>4 DEF Dependencies
<1>7. Proper(directory)
  BY <1>3, <1>5, <1>6, AppendIsProper
<1>8. IsPath(root) /\ Len(root) \in Nat /\ Len(root) > 1
  BY <1>3, LenProperties DEF Proper, IsPath
<1>9. Begins(root, directory) /\ Len(directory) = Len(root) + 1
  BY <1>6, <1>8, AppendIsPath
<1>10. Len(directory) > 2 /\ Len(root) < Len(directory)
  BY <1>8, <1>9
<1>11. PICK start \in Starts, m \in Manifests, options \in LoadOptions : view = Load(disk, start, m, options)
  BY DEF LoadedInv
<1>12. IsManifest(m) /\ IsList(m.repos) /\ ArePaths(options.managed)
  BY DEF ToolAssumption, IsList
<1>13. PICK selected : selected = SelectBuild(m, options.build)
  OBVIOUS
<1>14. PICK found : found = FindRoot(disk, start)
  OBVIOUS
<1>15. view = LoadAt(disk, found, Boundary(disk, found), m, selected, options)
  BY <1>11, <1>13, <1>14 DEF Load, LoadBelow
<1>16. PICK build, managed : build = selected.build /\ managed = options.managed
  OBVIOUS
<1>17. /\ view.root = found /\ view.repos = m.repos /\ view.managed = managed
       /\ view.declared = JoinEach(found, IncludesOf(build) \o m.includes)
       /\ view.quoted = EntryRoots(found, m.entry)
       /\ view.roots = ProjectIncludeRoots(disk, found, m, build, managed)
  BY <1>15, <1>16 DEF LoadAt
<1>18. ArePaths(IncludesOf(build))
  BY <1>12, <1>13, <1>16, SelectedIncludes
<1>19. \A list : ToSet(list) = Range(list)
  BY DEF ToSet, Range
<1>20. ArePaths(managed) /\ \A r \in Range(managed) : IsAbs(r)
  BY <1>1, <1>12, <1>16, <1>17, <1>19 DEF Viewed
<1>21. PICK own : own = OwnRoots(root, m, build, managed)
  OBVIOUS
<1>22. own = Range(view.declared) \union Range(view.quoted) \union {Clean(r) : r \in Range(view.managed)}
  BY <1>2, <1>17, <1>21 DEF OwnRoots
<1>23. \A r \in own : ~IsPrefix(directory, r)
  BY <1>19, <1>22 DEF RootsApart, Below
<1>24. ASSUME NEW r \in own
       PROVE  IsPath(r)
  <2>1. CASE r \in Range(view.declared)
    <3>1. PICK both : both = IncludesOf(build) \o m.includes
      OBVIOUS
    <3>2. /\ IsList(IncludesOf(build)) /\ \A rel \in Range(IncludesOf(build)) : IsPath(rel)
          /\ IsList(m.includes) /\ \A rel \in Range(m.includes) : IsPath(rel)
      BY <1>12, <1>18 DEF ArePaths, IsManifest, IsList
    <3>3. IsList(both) /\ Range(both) = Range(IncludesOf(build)) \union Range(m.includes)
      BY <3>1, <3>2, ConcatList
    <3>4. Range(JoinEach(root, both)) = {Join(root, path) : path \in Range(both)}
      BY <3>3, JoinEachList
    <3>5. PICK rel : IsPath(rel) /\ r = Join(root, rel)
      BY <1>2, <1>17, <2>1, <3>1, <3>2, <3>3, <3>4
    <3>6. Cleaned(r)
      BY <1>3, <3>5, JoinIsClean DEF Cleaned
    <3> QED
      BY <3>6, CleanedIsPath
  <2>2. CASE r \in Range(view.quoted)
    <3>1. CASE m.entry = <<"">>
      <4>1. view.quoted = <<>>
        BY <1>17, <3>1 DEF EntryRoots
      <4>2. Range(<<>>) = {}
        BY DEF Range
      <4> QED
        BY <2>2, <4>1, <4>2
    <3>2. CASE m.entry # <<"">>
      <4>1. PICK path : path = Join(root, m.entry)
        OBVIOUS
      <4>2. PICK clean : clean = Clean(path)
        OBVIOUS
      <4>3. view.quoted = <<Parent(clean)>>
        BY <1>2, <1>17, <3>2, <4>1, <4>2 DEF EntryRoots, EntryPath, Dir
      <4>4. IsPath(m.entry)
        BY <1>12 DEF IsManifest
      <4>5. Cleaned(path)
        BY <1>3, <4>1, <4>4, JoinIsClean DEF Cleaned
      <4>6. IsPath(path) /\ IsAbs(path)
        BY <4>5, CleanedIsAbs
      <4>7. Cleaned(clean)
        BY <4>2, <4>6, CleanIsProper DEF Cleaned
      <4>8. PICK dir : dir = Parent(clean)
        OBVIOUS
      <4>9. Cleaned(dir) /\ view.quoted = <<dir>>
        BY <4>3, <4>7, <4>8, ParentIsClean
      <4>10. r = dir
        BY <2>2, <4>9, OneList
      <4> QED
        BY <4>9, <4>10, CleanedIsPath
    <3> QED
      BY <3>1, <3>2
  <2>3. CASE r \in {Clean(path) : path \in Range(view.managed)}
    <3>1. PICK path \in Range(managed) : r = Clean(path)
      BY <1>17, <2>3
    <3>2. IsPath(path) /\ IsAbs(path)
      BY <1>20 DEF ArePaths
    <3>3. Cleaned(r)
      BY <3>1, <3>2, CleanIsProper DEF Cleaned
    <3> QED
      BY <3>3, CleanedIsPath
  <2> QED
    BY <1>22, <2>1, <2>2, <2>3
<1>25. \A r \in own : ~Begins(directory, r)
  <2>1. IsPath(directory)
    BY <1>7 DEF Proper
  <2> QED
    BY <1>23, <1>24, <2>1, PrefixBegins
<1>26. PICK repos : repos = view.repos
  OBVIOUS
<1>27. IsList(repos) /\ m.repos = repos
  BY <1>12, <1>17, <1>26
<1>28. PICK first : first = RootsOfThose(installed, directory, direct)
  OBVIOUS
<1>29. PICK second : second = RootsOfThose(installed, directory, others)
  OBVIOUS
<1>30. /\ Leads(installed, first, second)
       /\ \A r \in Range(installed) : Proper(r) /\ Owned(r, directory, PackageOf(directory, r))
  <2>1. /\ installed = InstalledDependencyRoots(disk, directory, repos)
        /\ direct = Range(repos) \cap Range(CheckedOut(disk, directory))
        /\ others \cap Range(repos) = {}
    BY <1>26
  <2> QED
    BY <1>1, <1>7, <1>27, <1>28, <1>29, <2>1, DependenciesLead
<1>31. IsList(installed) /\ \A r \in Range(installed) : Proper(r) /\ Begins(directory, r)
  BY <1>30 DEF Leads, Owned
<1>32. first \in SUBSET Range(installed) /\ second \in SUBSET Range(installed)
  BY <1>28, <1>29 DEF RootsOfThose
<1>33. view.roots = RootsWith(root, m, build, managed, installed)
  BY <1>2, <1>4, <1>6, <1>17, <1>26, <1>27 DEF ProjectIncludeRoots, RootsWith
<1>34. PICK roots : roots = RootsWith(root, m, build, managed, installed)
  OBVIOUS
<1>35. SearchedInOrder(roots, directory, installed, first, second)
  <2>1. \A r \in OwnRoots(root, m, build, managed) : ~Begins(directory, r)
    BY <1>21, <1>25
  <2> QED
    BY <1>3, <1>7, <1>9, <1>10, <1>12, <1>18, <1>20, <1>30, <1>31, <1>32, <1>34, <2>1, RootsLead
<1>36. view.roots = roots
  BY <1>33, <1>34
<1>37. IsList(roots)
  BY <1>35 DEF SearchedInOrder, Leads
<1> QED
  BY <1>1, <1>2, <1>3, <1>7, <1>10, <1>26, <1>27, <1>28, <1>29, <1>35, <1>36, <1>37

\* What an angle include of a name finds.
Angle(disk, loaded, from, name) == ResolveAll(disk, loaded, from, <<name>>, FALSE)

\* It searches the roots of the view, in their order.
LEMMA NameIsSearched ==
    ASSUME NEW disk, NEW loaded, NEW from, NEW name, NEW roots, roots = loaded.roots, IsList(roots)
    PROVE  Angle(disk, loaded, from, name) = FoundIn(disk, roots, SearchCandidates(<<name>>))
<1>1. PICK spec : spec = <<name>>
  OBVIOUS
<1>2. ~ (Len(spec) > 1)
  BY <1>1, OneIsPath
<1>3. PICK no : no = FALSE
  OBVIOUS
<1>4. SearchDirectories(loaded, from, no) = roots
  <2>1. SearchDirectories(loaded, from, no) = <<>> \o roots
    BY <1>3 DEF SearchDirectories
  <2>2. PICK T : T = Range(roots)
    OBVIOUS
  <2>3. roots \in Seq(T)
    BY <2>2 DEF IsList
  <2>4. <<>> \o roots = roots
    BY <2>3, ConcatEmptySeq
  <2> QED
    BY <2>1, <2>4
<1>5. ResolveAll(disk, loaded, from, spec, no) = FoundIn(disk, roots, SearchCandidates(spec))
  BY <1>1, <1>2, <1>4 DEF ResolveAll, FoundIn
<1> QED
  BY <1>1, <1>3, <1>5 DEF Angle

\* What is below a directory and not that directory is longer.
LEMMA BelowIsLonger ==
    ASSUME NEW directory, IsPath(directory), NEW path, IsPath(path), Below(path, directory), path # directory
    PROVE  Begins(directory, path) /\ Len(path) > Len(directory)
<1>1. Begins(directory, path)
  BY PrefixBegins DEF Below
<1>2. PICK n \in Nat, k \in Nat : n = Len(directory) /\ k = Len(path)
  BY LenProperties DEF IsPath
<1>3. ASSUME n = k
      PROVE  FALSE
  <2>1. PICK T : T = Range(directory) \union Range(path)
    OBVIOUS
  <2>2. directory \in Seq(T) /\ path \in Seq(T)
    <3>1. Range(directory) \subseteq T /\ Range(path) \subseteq T
      BY <2>1
    <3> QED
      BY <3>1, SeqMonotonic DEF IsPath
  <2>3. Len(directory) = Len(path) /\ \A i \in 1 .. Len(directory) : directory[i] = path[i]
    BY <1>1, <1>2, <1>3 DEF Begins
  <2> QED
    BY <2>2, <2>3, SeqEqual
<1>4. n <= k
  BY <1>1, <1>2 DEF Begins
<1>5. k > n
  BY <1>3, <1>4
<1> QED
  BY <1>1, <1>2, <1>5

\* What is found of the packages that are installed.
FoundOfPackages(found, disk, directory, installed, direct, others) ==
    /\ Leads(found, FilesOfThose(disk, directory, direct), FilesOfThose(disk, directory, others))
    /\ Range(found) \subseteq disk
    /\ \A path \in Range(found) : Begins(directory, path) /\ Len(path) > Len(directory) =>
          \E r \in Range(installed) : /\ Begins(r, path)
                                      /\ PackageOf(directory, r) = PackageOf(directory, path)

\* A name that is in a searched directory is found.
FoundWhereSearched(found, disk, roots, name) ==
    \A r \in Range(roots) : name \notin Special /\ Join(r, <<name>>) \in disk => Join(r, <<name>>) \in Range(found)

\* What an angle include finds in a view that is loaded.
LEMMA FoundInView ==
    ASSUME ToolAssumption, ViewInv, LoadedInv, view # Unset, RootsApart,
           NEW disk, disk = DOMAIN tree, NEW directory, directory = Dependencies,
           NEW installed, installed = InstalledDependencyRoots(disk, directory, view.repos),
           NEW direct, direct = Range(view.repos) \cap Range(CheckedOut(disk, directory)),
           NEW others, others \cap Range(view.repos) = {},
           NEW from, NEW name, NEW found, found = Angle(disk, view, from, name)
    PROVE  /\ FoundOfPackages(found, disk, directory, installed, direct, others)
           /\ FoundWhereSearched(found, disk, view.roots, name)
           /\ Range(installed) \subseteq Range(view.roots)
<1>1. /\ Filed(disk) /\ Proper(directory) /\ Len(directory) > 2 /\ IsList(view.repos) /\ IsList(view.roots)
      /\ SearchedInOrder(view.roots, directory, installed, RootsOfThose(installed, directory, direct),
                         RootsOfThose(installed, directory, others))
  BY ViewIsSearched
<1>2. PICK roots : roots = view.roots
  OBVIOUS
<1>3. PICK repos : repos = view.repos
  OBVIOUS
<1>4. /\ IsList(repos) /\ installed = InstalledDependencyRoots(disk, directory, repos)
      /\ direct = Range(repos) \cap Range(CheckedOut(disk, directory)) /\ others \cap Range(repos) = {}
  BY <1>1, <1>3
<1>5. \A r \in Range(installed) : Proper(r) /\ Owned(r, directory, PackageOf(directory, r))
  BY <1>1, <1>4, DependenciesLead
<1>6. PICK candidates : candidates = SearchCandidates(<<name>>)
  OBVIOUS
<1>7. AreNames(candidates) /\ <<name>> \in Range(candidates)
  BY <1>6, CandidatesOfName
<1>8. found = FoundIn(disk, roots, candidates)
  <2>1. IsList(roots)
    BY <1>1, <1>2
  <2>2. Angle(disk, view, from, name) = FoundIn(disk, roots, SearchCandidates(<<name>>))
    BY <1>2, <2>1, NameIsSearched
  <2> QED
    BY <1>6, <2>2
<1>9. SearchedInOrder(roots, directory, installed, RootsOfThose(installed, directory, direct),
                      RootsOfThose(installed, directory, others))
  BY <1>1, <1>2
<1>10. /\ Leads(found, FilesOfThose(disk, directory, direct), FilesOfThose(disk, directory, others))
       /\ \A path \in Range(found) : Begins(directory, path) /\ Len(path) > Len(directory) =>
             \E r \in Range(installed) : /\ Begins(r, path)
                                         /\ PackageOf(directory, r) = PackageOf(directory, path)
       /\ \A r \in Range(roots), c \in Range(candidates) :
             Safe(c) /\ Join(r, c) \in disk => Join(r, c) \in Range(found)
       /\ Range(found) \subseteq disk
  <2>1. Filed(disk) /\ Proper(directory) /\ Len(directory) > 2 /\ AreNames(candidates)
    BY <1>1, <1>7
  <2> QED
    BY <1>5, <1>8, <1>9, <2>1, FoundLeads
<1>11. name \notin Special => Safe(<<name>>)
  BY SafeOne DEF Special
<1>12. Range(installed) \subseteq Range(roots)
  BY <1>9 DEF SearchedInOrder
<1> QED
  BY <1>2, <1>7, <1>10, <1>11, <1>12 DEF FoundOfPackages, FoundWhereSearched

\* A direct dependency comes first.
LEMMA DirectIsFirst ==
    ASSUME ToolAssumption, ViewInv, LoadedInv
    PROVE  DirectFirst
<1>1. ASSUME view # Unset, RootsApart, NEW name
      PROVE  LET found == ResolveAll(DOMAIN tree, view, view.root, <<name>>, FALSE)
                 installed == {i \in DOMAIN found : Below(found[i], Dependencies) /\ found[i] # Dependencies}
                 direct == {i \in installed : PackageOf(Dependencies, found[i]) \in ToSet(view.repos)}
             IN (\E i \in direct : PackageOf(Dependencies, found[i]) \in ToSet(CheckedOut(DOMAIN tree, Dependencies)))
                    => \A i \in installed : \E j \in direct : j <= i
  <2>1. PICK disk, directory, found, repos, packages :
           /\ disk = DOMAIN tree /\ directory = Dependencies /\ repos = view.repos
           /\ found = ResolveAll(disk, view, view.root, <<name>>, FALSE)
           /\ packages = CheckedOut(disk, directory)
    OBVIOUS
  <2>2. PICK installed : installed = {i \in DOMAIN found : Below(found[i], directory) /\ found[i] # directory}
    OBVIOUS
  <2>3. PICK direct : direct = {i \in installed : PackageOf(directory, found[i]) \in Range(repos)}
    OBVIOUS
  <2>4. PICK both : both = Range(repos) \cap Range(packages)
    OBVIOUS
  <2>5. PICK others : others = {PackageOf(directory, path) : path \in disk} \ Range(repos)
    OBVIOUS
  <2>6. /\ Leads(found, FilesOfThose(disk, directory, both), FilesOfThose(disk, directory, others))
        /\ Range(found) \subseteq disk
    <3>1. both = Range(view.repos) \cap Range(CheckedOut(disk, directory)) /\ others \cap Range(view.repos) = {}
      BY <2>1, <2>4, <2>5
    <3>2. PICK roots : roots = InstalledDependencyRoots(disk, directory, view.repos)
      OBVIOUS
    <3>3. PICK from : from = view.root
      OBVIOUS
    <3>4. found = Angle(disk, view, from, name)
      BY <2>1, <3>3 DEF Angle
    <3>5. view # Unset /\ RootsApart /\ disk = DOMAIN tree /\ directory = Dependencies
      BY <1>1, <2>1
    <3>6. FoundOfPackages(found, disk, directory, roots, both, others)
      BY <3>1, <3>2, <3>4, <3>5, FoundInView
    <3> QED
      BY <3>6 DEF FoundOfPackages
  <2>7. Filed(disk) /\ IsPath(directory)
    <3>1. PICK roots : roots = InstalledDependencyRoots(disk, directory, view.repos)
      OBVIOUS
    <3>2. both = Range(view.repos) \cap Range(CheckedOut(disk, directory)) /\ others \cap Range(view.repos) = {}
      BY <2>1, <2>4, <2>5
    <3>5. view # Unset /\ RootsApart /\ disk = DOMAIN tree /\ directory = Dependencies
      BY <1>1, <2>1
    <3>6. Filed(disk) /\ Proper(directory)
      BY <3>1, <3>2, <3>5, ViewIsSearched
    <3> QED
      BY <3>6 DEF Proper
  <2>8. IsList(found) /\ Len(found) \in Nat /\ DOMAIN found = 1 .. Len(found)
    BY <2>6, LenProperties DEF Leads, IsList
  <2>9. ASSUME NEW i \in installed
        PROVE  /\ found[i] \in disk /\ Begins(directory, found[i]) /\ Len(found[i]) > Len(directory)
               /\ i \in DOMAIN found
    <3>1. i \in DOMAIN found /\ Below(found[i], directory) /\ found[i] # directory
      BY <2>2
    <3>2. found[i] \in disk
      BY <2>6, <3>1 DEF Range
    <3>3. IsPath(found[i])
      BY <2>7, <3>2, CleanedIsPath DEF Filed
    <3> QED
      BY <2>7, <3>1, <3>2, <3>3, BelowIsLonger
  <2>10. ASSUME NEW o \in direct, PackageOf(directory, found[o]) \in Range(packages), NEW i \in installed
         PROVE  \E j \in direct : j <= i
    <3>1. CASE i \in direct
      BY <2>8, <2>9, <3>1
    <3>2. CASE i \notin direct
      <4>1. found[i] \in FilesOfThose(disk, directory, others)
        BY <2>3, <2>5, <2>9, <3>2 DEF FilesOfThose
      <4>2. o \in installed /\ PackageOf(directory, found[o]) \in both
        BY <2>3, <2>4, <2>10
      <4>3. found[o] \in FilesOfThose(disk, directory, both) /\ found[o] \in Range(found)
        BY <2>9, <4>2 DEF FilesOfThose, Range
      <4>4. PICK l \in 1 .. (i - 1) : found[l] = found[o]
        BY <2>6, <2>9, <4>1, <4>3 DEF Leads
      <4>5. l \in DOMAIN found /\ l <= i
        BY <2>8, <2>9
      <4>6. l \in direct
        BY <2>2, <2>3, <4>2, <4>4, <4>5, <2>10
      <4> QED
        BY <4>5, <4>6
    <3> QED
      BY <3>1, <3>2
  <2>11. ToSet(repos) = Range(repos) /\ ToSet(packages) = Range(packages)
    BY DEF ToSet, Range
  <2> QED
    BY <2>1, <2>2, <2>3, <2>10, <2>11
<1> QED
  BY <1>1 DEF DirectFirst

\* What is after a path is what makes it longer.
LEMMA LongerPath ==
    ASSUME NEW root, IsPath(root), NEW d, IsPath(d), NEW below, IsPath(below), Begins(root, below),
           Len(below) = Len(root) + Len(d), \A i \in 1 .. Len(d) : below[Len(root) + i] = d[i]
    PROVE  root \o d = below
<1>1. PICK T : T = Range(root) \union Range(d) \union Range(below)
  OBVIOUS
<1>2. Range(root) \subseteq T /\ Range(d) \subseteq T /\ Range(below) \subseteq T
  BY <1>1
<1>3. root \in Seq(T) /\ d \in Seq(T) /\ below \in Seq(T)
  BY <1>2, SeqMonotonic DEF IsPath
<1>4. PICK path : path = root \o d
  OBVIOUS
<1>5. PICK n \in Nat, m \in Nat : n = Len(root) /\ m = Len(d)
  BY <1>3, LenProperties
<1>6. /\ path \in Seq(T) /\ Len(path) = n + m
      /\ \A i \in 1 .. (n + m) : path[i] = IF i <= n THEN root[i] ELSE d[i - n]
  BY <1>3, <1>4, <1>5, ConcatProperties
<1>7. ASSUME NEW i \in 1 .. Len(path)
      PROVE  path[i] = below[i]
  <2>1. CASE i <= n
    <3>1. i \in 1 .. (n + m) /\ i \in 1 .. n
      BY <1>5, <1>6, <2>1
    <3> QED
      BY <1>5, <1>6, <2>1, <3>1 DEF Begins
  <2>2. CASE ~ (i <= n)
    <3>1. i \in 1 .. (n + m) /\ i - n \in 1 .. m /\ n + (i - n) = i
      BY <1>5, <1>6, <2>2
    <3>2. below[n + (i - n)] = d[i - n]
      BY <1>5, <3>1
    <3> QED
      BY <1>6, <2>2, <3>1, <3>2
  <2> QED
    BY <2>1, <2>2
<1>8. Len(path) = Len(below)
  BY <1>5, <1>6
<1>9. path = below
  BY <1>3, <1>6, <1>7, <1>8, SeqEqual
<1> QED
  BY <1>4, <1>9

\* Four segments after a path, and three.
LEMMA FourAfter ==
    ASSUME NEW root, IsPath(root), NEW d, IsPath(d), Len(d) = 4
    PROVE  /\ root \o d = Append(Append(Append(Append(root, d[1]), d[2]), d[3]), d[4])
           /\ IsPath(Append(Append(Append(root, d[1]), d[2]), d[3]))
           /\ Last(d) = d[4]
<1>1. PICK p1 : p1 = Append(root, d[1])
  OBVIOUS
<1>2. PICK p2 : p2 = Append(p1, d[2])
  OBVIOUS
<1>3. PICK p3 : p3 = Append(p2, d[3])
  OBVIOUS
<1>4. PICK p4 : p4 = Append(p3, d[4])
  OBVIOUS
<1>5. PICK n \in Nat : n = Len(root)
  BY LenProperties DEF IsPath
<1>6. IsPath(p1) /\ Begins(root, p1) /\ Len(p1) = n + 1 /\ p1[n + 1] = d[1]
  BY <1>1, <1>5, AppendIsPath
<1>7. IsPath(p2) /\ Begins(p1, p2) /\ Len(p2) = n + 1 + 1 /\ p2[n + 1 + 1] = d[2]
  BY <1>2, <1>6, AppendIsPath
<1>8. IsPath(p3) /\ Begins(p2, p3) /\ Len(p3) = n + 1 + 1 + 1 /\ p3[n + 1 + 1 + 1] = d[3]
  BY <1>3, <1>7, AppendIsPath
<1>9. IsPath(p4) /\ Begins(p3, p4) /\ Len(p4) = n + 1 + 1 + 1 + 1 /\ p4[n + 1 + 1 + 1 + 1] = d[4]
  BY <1>4, <1>8, AppendIsPath
<1>10. Begins(root, p4)
  BY <1>6, <1>7, <1>8, <1>9, BeginsTransitive
<1>11. /\ n + 1 \in 1 .. Len(p1) /\ n + 1 \in 1 .. Len(p2) /\ n + 2 \in 1 .. Len(p2)
       /\ n + 1 \in 1 .. Len(p3) /\ n + 2 \in 1 .. Len(p3) /\ n + 3 \in 1 .. Len(p3)
       /\ n + 1 + 1 = n + 2 /\ n + 1 + 1 + 1 = n + 3 /\ n + 1 + 1 + 1 + 1 = n + 4
  BY <1>5, <1>6, <1>7, <1>8, <1>9
<1>12. p4[n + 1] = d[1] /\ p4[n + 2] = d[2] /\ p4[n + 3] = d[3] /\ p4[n + 4] = d[4] /\ Len(p4) = n + 4
  BY <1>6, <1>7, <1>8, <1>9, <1>11 DEF Begins
<1>13. ASSUME NEW i \in 1 .. Len(d)
       PROVE  p4[n + i] = d[i]
  <2>1. i = 1 \/ i = 2 \/ i = 3 \/ i = 4
    OBVIOUS
  <2> QED
    BY <1>12, <2>1
<1>14. Len(p4) = Len(root) + Len(d) /\ \A i \in 1 .. Len(d) : p4[Len(root) + i] = d[i]
  BY <1>5, <1>12, <1>13
<1>15. root \o d = p4
  BY <1>9, <1>10, <1>14, LongerPath
<1> QED
  BY <1>1, <1>2, <1>3, <1>4, <1>8, <1>15 DEF Last

\* As FourAfter, of three segments.
LEMMA ThreeAfter ==
    ASSUME NEW root, IsPath(root), NEW x, NEW y, NEW z
    PROVE  root \o <<x, y, z>> = Append(Append(Append(root, x), y), z)
<1>1. PICK d : d = <<x, y, z>>
  OBVIOUS
<1>2. IsPath(d) /\ Len(d) = 3 /\ d[1] = x /\ d[2] = y /\ d[3] = z
  BY <1>1, FewArePath
<1>3. PICK p1 : p1 = Append(root, x)
  OBVIOUS
<1>4. PICK p2 : p2 = Append(p1, y)
  OBVIOUS
<1>5. PICK p3 : p3 = Append(p2, z)
  OBVIOUS
<1>6. PICK n \in Nat : n = Len(root)
  BY LenProperties DEF IsPath
<1>7. IsPath(p1) /\ Begins(root, p1) /\ Len(p1) = n + 1 /\ p1[n + 1] = x
  BY <1>3, <1>6, AppendIsPath
<1>8. IsPath(p2) /\ Begins(p1, p2) /\ Len(p2) = n + 1 + 1 /\ p2[n + 1 + 1] = y
  BY <1>4, <1>7, AppendIsPath
<1>9. IsPath(p3) /\ Begins(p2, p3) /\ Len(p3) = n + 1 + 1 + 1 /\ p3[n + 1 + 1 + 1] = z
  BY <1>5, <1>8, AppendIsPath
<1>10. Begins(root, p3)
  BY <1>7, <1>8, <1>9, BeginsTransitive
<1>11. /\ n + 1 \in 1 .. Len(p1) /\ n + 1 \in 1 .. Len(p2) /\ n + 2 \in 1 .. Len(p2)
       /\ n + 1 + 1 = n + 2 /\ n + 1 + 1 + 1 = n + 3
  BY <1>6, <1>7, <1>8, <1>9
<1>12. p3[n + 1] = x /\ p3[n + 2] = y /\ p3[n + 3] = z /\ Len(p3) = n + 3
  BY <1>7, <1>8, <1>9, <1>11 DEF Begins
<1>13. ASSUME NEW i \in 1 .. Len(d)
       PROVE  p3[n + i] = d[i]
  <2>1. i = 1 \/ i = 2 \/ i = 3
    BY <1>2
  <2> QED
    BY <1>2, <1>12, <2>1
<1>14. Len(p3) = Len(root) + Len(d) /\ \A i \in 1 .. Len(d) : p3[Len(root) + i] = d[i]
  BY <1>2, <1>6, <1>12, <1>13
<1>15. root \o d = p3
  BY <1>2, <1>9, <1>10, <1>14, LongerPath
<1> QED
  BY <1>1, <1>3, <1>4, <1>5, <1>15

\* A directory of extracted includes is one of its package.
LEMMA ExtractionIsFound ==
    ASSUME NEW disk, NEW directory, NEW name \in DOMAIN ExtractedPackage,
           IsDir(disk, Append(Append(directory, ".resources"), name))
    PROVE  name \in Range(ExtractionsOf(disk, directory, ExtractedPackage[name]))
<1>1. PICK below : below = Append(directory, ".resources")
  OBVIOUS
<1>2. IsList(NameOrder)
  BY ViewAssumption DEF IsList
<1>3. PICK places : places = {i \in DOMAIN NameOrder : IsDir(disk, Append(below, NameOrder[i]))}
  OBVIOUS
<1>4. PICK i \in DOMAIN NameOrder : NameOrder[i] = name
  BY ViewAssumption DEF Range
<1>5. i \in places \cap DOMAIN NameOrder
  BY <1>1, <1>3, <1>4
<1>6. /\ IsList(Picked(NameOrder, places))
      /\ Range(Picked(NameOrder, places)) = {NameOrder[j] : j \in places \cap DOMAIN NameOrder}
  BY <1>2, PickedList
<1>7. Directories(disk, below) = Picked(NameOrder, places)
  BY <1>3 DEF Directories
<1>8. IsList(Directories(disk, below)) /\ name \in Range(Directories(disk, below))
  BY <1>4, <1>5, <1>6, <1>7
<1>9. name \in Range(Among(Directories(disk, below), DOMAIN ExtractedPackage))
  BY <1>8, AmongList
<1>10. name \in Range(Extractions(disk, directory))
  BY <1>1, <1>9 DEF Extractions
<1> QED
  BY <1>10, ExtractionsOfPackage

\* When it is the only one, the package is searched in it.
LEMMA OnlyExtractionRoots ==
    ASSUME NEW disk, NEW directory, IsPath(directory), NEW name \in DOMAIN ExtractedPackage,
           IsDir(disk, Append(Append(directory, ".resources"), name)),
           \A other \in DOMAIN ExtractedPackage :
               ExtractedPackage[other] = ExtractedPackage[name]
               /\ IsDir(disk, Append(Append(directory, ".resources"), other)) => other = name
    PROVE  /\ ExtractionsOf(disk, directory, ExtractedPackage[name]) # <<>>
           /\ Range(RootsOf(disk, directory, ExtractedPackage[name])) = {Append(Append(directory, ".resources"), name)}
<1>1. PICK package : package = ExtractedPackage[name]
  OBVIOUS
<1>2. PICK hidden : hidden = ".resources"
  OBVIOUS
<1>3. PICK extractions : extractions = ExtractionsOf(disk, directory, package)
  OBVIOUS
<1>4. name \in Range(extractions)
  BY <1>1, <1>3, ExtractionIsFound
<1>5. extractions # <<>>
  BY <1>4 DEF Range
<1>6. IsList(extractions) /\ Range(extractions) = {other \in Range(Extractions(disk, directory)) : ExtractedPackage[other] = package}
  BY <1>3, ExtractionsOfPackage
<1>7. Last(extractions) \in Range(extractions)
  BY <1>5, <1>6, FirstOfList
<1>8. PICK other : other = Last(extractions)
  OBVIOUS
<1>9. other \in Range(Extractions(disk, directory)) /\ ExtractedPackage[other] = package
  BY <1>6, <1>7, <1>8
<1>10. other \in DOMAIN ExtractedPackage /\ IsDir(disk, Append(Append(directory, ".resources"), other))
  BY <1>9, ExtractionsExist
<1>11. other = name
  BY <1>1, <1>9, <1>10
<1>12. directory \o <<hidden, name>> = Append(Append(directory, hidden), name)
  BY TwoAfter
<1>13. RootsOf(disk, directory, package) = <<Append(Append(directory, hidden), name)>>
  BY <1>2, <1>3, <1>5, <1>8, <1>11, <1>12 DEF RootsOf
<1>14. PICK r : r = Append(Append(directory, hidden), name)
  OBVIOUS
<1>15. Range(<<r>>) = {r}
  BY OneList
<1> QED
  BY <1>1, <1>2, <1>3, <1>5, <1>13, <1>14, <1>15

\* A file in a directory of extracted includes.
LEMMA ExtractedPath ==
    ASSUME NEW disk, Filed(disk), NEW directory, IsPath(directory), NEW name, NEW base,
           NEW root, root = Append(Append(directory, ".resources"), name),
           Append(root, base) \in disk
    PROVE  IsDir(disk, root) /\ Proper(root) /\ base \notin Special
<1>1. PICK hidden : hidden = ".resources"
  OBVIOUS
<1>2. PICK below : below = Append(directory, hidden)
  OBVIOUS
<1>3. PICK path : path = Append(root, base)
  OBVIOUS
<1>4. PICK n \in Nat : n = Len(directory)
  BY LenProperties DEF IsPath
<1>5. IsPath(below) /\ Len(below) = n + 1
  BY <1>2, <1>4, AppendIsPath
<1>6. root = Append(below, name)
  BY <1>1, <1>2
<1>7. IsPath(root) /\ Len(root) = n + 1 + 1
  BY <1>5, <1>6, AppendIsPath
<1>8. IsPath(path) /\ Begins(root, path) /\ Len(path) = n + 1 + 1 + 1 /\ path[n + 1 + 1 + 1] = base
  BY <1>3, <1>7, AppendIsPath
<1>9. root # path /\ Len(root) > 1 /\ Len(path) # 2 /\ n + 1 + 1 + 1 \in 2 .. Len(path)
  BY <1>4, <1>7, <1>8
<1>10. IsPrefix(root, path)
  BY <1>7, <1>8, PrefixBegins
<1>11. IsDir(disk, root)
  BY <1>3, <1>9, <1>10 DEF IsDir, IsStrictPrefix
<1>12. Proper(root)
  BY <1>7, <1>9, <1>11, DirIsProper
<1>13. path # <<"", "">>
  <2>1. ASSUME path = <<"", "">>
        PROVE  Len(path) = 2
    BY <2>1
  <2> QED
    BY <1>9, <2>1
<1>14. Proper(path)
  BY <1>3, <1>13 DEF Filed, Cleaned
<1>15. base \notin Special
  BY <1>8, <1>9, <1>14 DEF Proper
<1> QED
  BY <1>11, <1>12, <1>15

\* What is below a checkout is not below extracted includes.
LEMMA CheckoutIsApart ==
    ASSUME NEW directory, IsPath(directory), NEW repo, repo # ".resources", NEW name,
           NEW path, IsPath(path), Begins(Append(directory, repo), path)
    PROVE  /\ Begins(directory, path) /\ Len(path) > Len(directory) /\ PackageOf(directory, path) = repo
           /\ ~Begins(Append(Append(directory, ".resources"), name), path)
<1>1. PICK checkout : checkout = Append(directory, repo)
  OBVIOUS
<1>2. PICK hidden : hidden = ".resources"
  OBVIOUS
<1>3. PICK below : below = Append(directory, hidden)
  OBVIOUS
<1>4. PICK root : root = Append(below, name)
  OBVIOUS
<1>5. PICK n \in Nat : n = Len(directory)
  BY LenProperties DEF IsPath
<1>6. IsPath(checkout) /\ Begins(directory, checkout) /\ Len(checkout) = n + 1 /\ checkout[n + 1] = repo
  BY <1>1, <1>5, AppendIsPath
<1>7. IsPath(below) /\ Len(below) = n + 1 /\ below[n + 1] = hidden
  BY <1>3, <1>5, AppendIsPath
<1>8. IsPath(root) /\ Begins(below, root) /\ Len(root) = n + 1 + 1
  BY <1>4, <1>7, AppendIsPath
<1>9. n + 1 \in 1 .. Len(checkout) /\ n + 1 \in 1 .. Len(below) /\ n + 1 \in 1 .. Len(root)
  BY <1>5, <1>6, <1>7, <1>8
<1>10. path[n + 1] = repo /\ Begins(directory, path)
  BY <1>1, <1>6, <1>9, BeginsTransitive DEF Begins
<1>11. Len(path) > n
  <2>1. Len(checkout) <= Len(path)
    BY <1>1 DEF Begins
  <2>2. Len(path) \in Nat
    BY LenProperties DEF IsPath
  <2> QED
    BY <1>5, <1>6, <2>1, <2>2
<1>12. ASSUME Begins(root, path)
       PROVE  FALSE
  BY <1>2, <1>7, <1>8, <1>9, <1>10, <1>12 DEF Begins
<1>13. PackageOf(directory, path) = repo
  BY <1>5, <1>10 DEF PackageOf
<1> QED
  BY <1>2, <1>3, <1>4, <1>5, <1>10, <1>11, <1>12, <1>13

\* An include that is the only extraction of its package is found, and no file of the
\* package's checkout is.
LEMMA ExtractionIsMeant ==
    ASSUME ToolAssumption, ToolInv, ViewInv, LoadedInv
    PROVE  ExtractedFound
<1>1. ASSUME view # Unset, view.root = Project, RootsApart, Restored, NEW r \in lock, NEW f \in r.files,
             Extracted(f.destination, r.package.repo), OnlyExtraction(f.destination[3])
      PROVE  LET found == ResolveAll(DOMAIN tree, view, Project, <<Last(f.destination)>>, FALSE)
             IN /\ Project \o f.destination \in ToSet(found)
                /\ r.package.repo \in ToSet(CheckedOut(DOMAIN tree, Dependencies)) =>
                       \A path \in ToSet(found) : ~Below(path, Append(Dependencies, r.package.repo))
  <2>1. PICK disk, directory, d, repo : /\ disk = DOMAIN tree /\ directory = Dependencies
                                        /\ d = f.destination /\ repo = r.package.repo
    OBVIOUS
  <2>2. PICK hidden : hidden = ".resources"
    OBVIOUS
  <2>3. PICK project : project = Project
    OBVIOUS
  <2>4. IsPath(d) /\ IsPath(project)
    BY <1>1, <2>1, <2>3 DEF ToolInv, JobInv, Locking, Sound, ToolAssumption
  <2>5. project \o d \in disk
    <3>1. Placed(r)
      BY <1>1 DEF ToolInv, JobInv, Outcome, Restored
    <3> QED
      BY <1>1, <2>1, <2>3, <3>1 DEF Placed, Extracted
  <2>6. directory = Append(project, d[1]) /\ Len(d) = 4 /\ d[2] = hidden
    BY <1>1, <2>1, <2>2, <2>3 DEF Extracted, Dependencies
  <2>7. d[3] \in DOMAIN ExtractedPackage /\ ExtractedPackage[d[3]] = repo
    BY <1>1, <2>1 DEF Extracted
  <2>8. PICK name, base : name = d[3] /\ base = d[4]
    OBVIOUS
  <2>9. PICK root : root = Append(Append(directory, hidden), name)
    OBVIOUS
  <2>10. project \o d = Append(root, base) /\ Last(d) = base
    BY <2>4, <2>6, <2>8, <2>9, FourAfter
  <2>11. IsPath(directory)
    BY <2>4, <2>6, AppendIsPath
  <2>12. Filed(disk)
    BY <2>1 DEF ViewInv
  <2>13. IsDir(disk, root) /\ Proper(root) /\ base \notin Special
    <3>1. root = Append(Append(directory, ".resources"), name)
      BY <2>2, <2>9
    <3>2. Append(root, base) \in disk
      BY <2>5, <2>10
    <3> QED
      BY <2>11, <2>12, <3>1, <3>2, ExtractedPath
  <2>14. ASSUME NEW other \in DOMAIN ExtractedPackage, ExtractedPackage[other] = ExtractedPackage[name],
                IsDir(disk, Append(Append(directory, hidden), other))
         PROVE  other = name
    <3>1. project \o <<d[1], hidden, other>> = Append(Append(directory, hidden), other)
      BY <2>4, <2>6, ThreeAfter
    <3>2. IsDir(disk, project \o <<"dependencies", ".resources", other>>)
      BY <1>1, <2>1, <2>2, <2>14, <3>1 DEF Extracted
    <3> QED
      BY <1>1, <2>1, <2>3, <2>8, <2>14, <3>2 DEF OnlyExtraction
  <2>15. ExtractionsOf(disk, directory, repo) # <<>> /\ Range(RootsOf(disk, directory, repo)) = {root}
    <3>1. /\ ExtractionsOf(disk, directory, ExtractedPackage[name]) # <<>>
          /\ Range(RootsOf(disk, directory, ExtractedPackage[name])) = {Append(Append(directory, ".resources"), name)}
      <4>1. name \in DOMAIN ExtractedPackage
        BY <2>7, <2>8
      <4>2. IsDir(disk, Append(Append(directory, ".resources"), name))
        BY <2>2, <2>9, <2>13
      <4>3. \A other \in DOMAIN ExtractedPackage :
               ExtractedPackage[other] = ExtractedPackage[name]
               /\ IsDir(disk, Append(Append(directory, ".resources"), other)) => other = name
        BY <2>2, <2>14
      <4> QED
        BY <2>11, <4>1, <4>2, <4>3, OnlyExtractionRoots
    <3> QED
      BY <2>2, <2>7, <2>8, <2>9, <3>1
  <2>16. PICK repos : repos = view.repos
    OBVIOUS
  <2>17. PICK installed : installed = InstalledDependencyRoots(disk, directory, repos)
    OBVIOUS
  <2>18. PICK direct : direct = Range(repos) \cap Range(CheckedOut(disk, directory))
    OBVIOUS
  <2>19. PICK found : found = Angle(disk, view, project, base)
    OBVIOUS
  <2>20. PICK others : others = {}
    OBVIOUS
  <2>21. /\ view # Unset /\ RootsApart /\ disk = DOMAIN tree /\ directory = Dependencies
         /\ installed = InstalledDependencyRoots(disk, directory, view.repos)
         /\ direct = Range(view.repos) \cap Range(CheckedOut(disk, directory))
         /\ others \cap Range(view.repos) = {}
    BY <1>1, <2>1, <2>16, <2>17, <2>18, <2>20
  <2>22. /\ FoundOfPackages(found, disk, directory, installed, direct, others)
         /\ FoundWhereSearched(found, disk, view.roots, base)
         /\ Range(installed) \subseteq Range(view.roots)
    BY <2>19, <2>21, FoundInView
  <2>23. Proper(directory) /\ IsList(repos)
    BY <2>16, <2>21, ViewIsSearched
  <2>24. others \cap Range(repos) = {}
    BY <2>20
  <2>25. /\ Range(RootsOf(disk, directory, repo)) \subseteq Range(installed)
         /\ \A q \in Range(installed) : PackageOf(directory, q) = repo => q \in Range(RootsOf(disk, directory, repo))
    <3>1. \A package : ExtractionsOf(disk, directory, package) # <<>> =>
             SearchedInThose(installed, disk, directory, package)
      BY <2>12, <2>17, <2>18, <2>23, <2>24, DependenciesLead
    <3> QED
      BY <2>15, <3>1 DEF SearchedInThose
  <2>26. project \o d \in Range(found)
    <3>1. Join(root, <<base>>) = project \o d
      <4>1. base # ".."
        BY <2>13 DEF Special
      <4> QED
        BY <2>10, <2>13, <4>1, JoinOne
    <3>2. root \in Range(view.roots)
      BY <2>15, <2>22, <2>25
    <3> QED
      BY <2>5, <2>13, <2>22, <3>1, <3>2 DEF FoundWhereSearched
  <2>27. ASSUME repo \in Range(CheckedOut(disk, directory)), NEW path \in Range(found),
                Below(path, Append(directory, repo))
         PROVE  FALSE
    <3>1. repo # hidden
      <4>1. IsList(Directories(disk, directory))
        BY DirectoriesExist
      <4>2. PICK visible : visible = ToSet(NameOrder) \ {".resources"}
        OBVIOUS
      <4>3. repo \in visible
        BY <2>27, <4>1, <4>2, AmongList DEF CheckedOut
      <4> QED
        BY <2>2, <4>2, <4>3
    <3>2. IsPath(path)
      BY <2>12, <2>22, CleanedIsPath DEF FoundOfPackages, Filed
    <3>3. IsPath(Append(directory, repo))
      BY <2>11, AppendIsPath
    <3>4. Begins(Append(directory, repo), path)
      BY <2>27, <3>2, <3>3, PrefixBegins DEF Below
    <3>5. /\ Begins(directory, path) /\ Len(path) > Len(directory) /\ PackageOf(directory, path) = repo
          /\ ~Begins(root, path)
      BY <2>2, <2>9, <2>11, <3>1, <3>2, <3>4, CheckoutIsApart
    <3>6. PICK q \in Range(installed) : Begins(q, path) /\ PackageOf(directory, q) = PackageOf(directory, path)
      BY <2>22, <3>5 DEF FoundOfPackages
    <3>7. q = root
      BY <2>15, <2>25, <3>5, <3>6
    <3> QED
      BY <3>5, <3>6, <3>7
  <2>28. \A list : ToSet(list) = Range(list)
    BY DEF ToSet, Range
  <2>29. found = ResolveAll(DOMAIN tree, view, Project, <<Last(f.destination)>>, FALSE)
    BY <2>1, <2>3, <2>10, <2>19 DEF Angle
  <2>30. /\ Project \o f.destination \in Range(found)
         /\ r.package.repo \in Range(CheckedOut(DOMAIN tree, Dependencies)) =>
                \A path \in Range(found) : ~Below(path, Append(Dependencies, r.package.repo))
    BY <2>1, <2>3, <2>26, <2>27
  <2> QED
    BY <2>28, <2>29, <2>30
<1> QED
  BY <1>1 DEF ExtractedFound

\* Of the packages that have an include a direct dependency that is checked out comes
\* first, whatever the files, the manifest and the order of the directories, unless the
\* project has a root of its own in dependencies/ (CHANGELOG 0.3.3; project.go,
\* installedDependencyRoots).
THEOREM DirectComesFirst == Spec => []DirectFirst
<1>1. Init => ViewInv /\ LoadedInv
  BY ToolAssumption, ViewInitInv, LoadedInitInv
<1>2. ToolInv /\ ViewInv /\ LoadedInv /\ [Next]_vars => ViewInv' /\ LoadedInv'
  BY ToolAssumption, ViewStepInv, LoadedStepInv
<1>3. ViewInv /\ LoadedInv => DirectFirst
  BY ToolAssumption, DirectIsFirst
<1> QED
  BY <1>1, <1>2, <1>3, ToolInvariant, PTL DEF Spec

\* An include that the last restore extracted is found when its directory is the only one
\* of its package, and no file of the checkout of the package is (CHANGELOG 0.3.3;
\* project.go, installedDependencyRoots; resource_restore.go).
THEOREM ExtractedIsFound == Spec => []ExtractedFound
<1>1. Init => ViewInv /\ LoadedInv
  BY ToolAssumption, ViewInitInv, LoadedInitInv
<1>2. ToolInv /\ ViewInv /\ LoadedInv /\ [Next]_vars => ViewInv' /\ LoadedInv'
  BY ToolAssumption, ViewStepInv, LoadedStepInv
<1>3. ToolInv /\ ViewInv /\ LoadedInv => ExtractedFound
  BY ToolAssumption, ExtractionIsMeant
<1> QED
  BY <1>1, <1>2, <1>3, ToolInvariant, PTL DEF Spec

-----------------------------------------------------------------------------
(***************************************************************************)
(* Sizes.  What an inspection adds up in the order of the entries, with    *)
(* the width of the readers, is the sum of the sizes as long as it is      *)
(* accepted, and so bounds the sum of the files that are mapped, whatever  *)
(* the order the validator adds them up in.                                *)
(***************************************************************************)
Counting(f, n, start, step) == f[0] = start /\ \A i \in 1 .. n : f[i] = step[<<i, f[i - 1]>>]

\* Anything can be counted along a list.
LEMMA CountExists ==
    ASSUME NEW n \in Nat, NEW T, NEW start \in T, NEW step \in [(1 .. n) \X T -> T]
    PROVE  \E f \in [0 .. n -> T] : Counting(f, n, start, step)
<1> DEFINE Has(k) == \E f \in [0 .. k -> T] : Counting(f, k, start, step)
           bad == {k \in 0 .. n : ~Has(k)}
<1>1. ASSUME bad # {}
      PROVE  FALSE
  <2>1. bad \in SUBSET Nat
    OBVIOUS
  <2>2. PICK k \in bad : \A j \in bad : k <= j
    BY <1>1, <2>1, LeastExists
  <2>3. k \in 0 .. n /\ ~Has(k)
    OBVIOUS
  <2>4. Has(0)
    <3>1. [i \in 0 .. 0 |-> start] \in [0 .. 0 -> T] /\ [i \in 0 .. 0 |-> start][0] = start
      OBVIOUS
    <3>2. Counting([i \in 0 .. 0 |-> start], 0, start, step)
      BY <3>1 DEF Counting
    <3> QED
      BY <3>1, <3>2
  <2>5. k # 0 /\ k - 1 \in 0 .. n
    <3>1. ASSUME k = 0
          PROVE  FALSE
      BY <2>3, <2>4, <3>1, Zenon
    <3> HIDE DEF Has
    <3> QED
      BY <2>3, <3>1
  <2>6. Has(k - 1)
    <3>1. k - 1 \notin bad
      BY <2>2, <2>3, <2>5
    <3> QED
      BY <2>5, <3>1
  <2>7. PICK f \in [0 .. k - 1 -> T] : Counting(f, k - 1, start, step)
    BY <2>6
  <2>8. k - 1 \in 0 .. k - 1 /\ k \in 1 .. n
    BY <2>3, <2>5
  <2>9. PICK last : last = step[<<k, f[k - 1]>>]
    OBVIOUS
  <2>10. last \in T
    BY <2>7, <2>8, <2>9
  <2>11. PICK g : g = [i \in 0 .. k |-> IF i = k THEN last ELSE f[i]]
    OBVIOUS
  <2>12. g \in [0 .. k -> T] /\ g[k] = last /\ \A i \in 0 .. k - 1 : g[i] = f[i]
    BY <2>3, <2>7, <2>10, <2>11
  <2>13. ASSUME NEW i \in 1 .. k
         PROVE  g[i] = step[<<i, g[i - 1]>>]
    <3>1. CASE i = k
      BY <2>8, <2>9, <2>12, <3>1
    <3>2. CASE i # k
      <4>1. i \in 1 .. k - 1 /\ i \in 0 .. k - 1 /\ i - 1 \in 0 .. k - 1
        BY <2>3, <2>13, <3>2
      <4> QED
        BY <2>7, <2>12, <4>1 DEF Counting
    <3> QED
      BY <3>1, <3>2
  <2>14. g[0] = start
    <3>1. 0 \in 0 .. k - 1
      BY <2>3, <2>5
    <3> QED
      BY <2>7, <2>12, <3>1 DEF Counting
  <2>15. Has(k)
    BY <2>12, <2>13, <2>14 DEF Counting
  <2> QED
    BY <2>3, <2>15
<1>2. Has(n)
  <2>1. n \in 0 .. n
    OBVIOUS
  <2> QED
    BY <1>1, <2>1
<1> QED
  BY <1>2

\* What an entry adds to the total.
Counted(e) == IF e.kind = "file" THEN Signed(e.size) ELSE 0

\* The totals of a list of entries that is accepted.
Adding(total, n, entries) ==
    /\ total \in [0 .. n -> Nat] /\ total[0] = 0 /\ total[n] <= MaxBytes
    /\ \A i \in 1 .. n : total[i] = total[i - 1] + Counted(entries[i]) /\ Counted(entries[i]) \in Nat

\* As long as it is not too large, a ZIP has the sum of the sizes as its total.
LEMMA ZipAdds ==
    ASSUME NEW total \in Nat, total <= MaxBytes, NEW size \in Nat, size <= MaxBytes,
           ZipAdd(total, size) # TooLarge
    PROVE  /\ ZipAdd(total, size) = total + Signed(size) /\ Signed(size) \in Nat
           /\ total + Signed(size) <= MaxBytes
<1>1. MaxBytes \in Nat /\ Wrap \in Nat /\ MaxBytes < Wrap \div 2
  BY RecordAssumption
<1>2. 2 * (Wrap \div 2) <= Wrap
  BY <1>1
<1>3. total + size \in Nat /\ total + size < Wrap
  BY <1>1, <1>2
<1>4. (total + size) % Wrap = total + size
  BY <1>1, <1>3
<1>5. Signed(size) = size
  BY <1>1 DEF Signed
<1> QED
  BY <1>1, <1>3, <1>4, <1>5 DEF ZipAdd, TooLarge

\* So has a tar.
LEMMA TarAdds ==
    ASSUME NEW total \in Nat, total <= MaxBytes, NEW size \in Nat, size < Wrap,
           TarAdd(total, Signed(size)) # TooLarge
    PROVE  /\ TarAdd(total, Signed(size)) = total + Signed(size) /\ Signed(size) \in Nat
           /\ total + Signed(size) <= MaxBytes
<1>1. MaxBytes \in Nat /\ Wrap \in Nat
  BY RecordAssumption
<1>2. Signed(size) \in Int
  BY <1>1 DEF Signed
<1>3. ~ (Signed(size) < 0) /\ ~ (Signed(size) > MaxBytes - total)
  BY DEF TarAdd
<1> QED
  BY <1>1, <1>2, <1>3 DEF TarAdd, TooLarge

\* What is too large stays it, and what is not is the sum so far.
Summing(total, n, entries) ==
    \A i \in 1 .. n :
        /\ total[i - 1] = TooLarge => total[i] = TooLarge
        /\ total[i - 1] \in Nat /\ total[i - 1] <= MaxBytes /\ total[i] # TooLarge =>
              /\ total[i] = total[i - 1] + Counted(entries[i])
              /\ Counted(entries[i]) \in Nat /\ total[i] <= MaxBytes

\* A total that is accepted in the end is one all the way.
LEMMA AcceptedAdds ==
    ASSUME NEW n \in Nat, NEW entries, NEW total, total = [i \in 0 .. n |-> total[i]],
           total[0] = 0, total[n] # TooLarge, Summing(total, n, entries)
    PROVE  Adding(total, n, entries)
<1> DEFINE large == {k \in 0 .. n : total[n - k] = TooLarge}
           bad == {k \in 0 .. n : ~(total[k] \in Nat /\ total[k] <= MaxBytes)}
<1>1. ASSUME large # {}
      PROVE  FALSE
  <2>1. large \in SUBSET Nat
    OBVIOUS
  <2>2. PICK k \in large : \A j \in large : k <= j
    BY <1>1, <2>1, LeastExists
  <2>3. k \in 0 .. n /\ total[n - k] = TooLarge
    OBVIOUS
  <2>4. k # 0
    BY <2>3
  <2>5. k - 1 \in 0 .. n /\ n - (k - 1) \in 1 .. n /\ (n - (k - 1)) - 1 = n - k
    BY <2>3, <2>4
  <2>6. total[n - (k - 1)] = TooLarge
    BY <2>3, <2>5 DEF Summing
  <2>7. k - 1 \in large
    BY <2>5, <2>6
  <2> HIDE DEF large
  <2>8. k <= k - 1 /\ k \in Int
    BY <2>2, <2>3, <2>7
  <2> QED
    BY <2>8
<1>2. \A k \in 0 .. n : total[k] # TooLarge
  <2> SUFFICES ASSUME NEW k \in 0 .. n
               PROVE  total[k] # TooLarge
    OBVIOUS
  <2>1. n - k \in 0 .. n /\ n - (n - k) = k
    OBVIOUS
  <2> QED
    BY <1>1, <2>1
<1>3. ASSUME bad # {}
      PROVE  FALSE
  <2>1. bad \in SUBSET Nat
    OBVIOUS
  <2>2. PICK k \in bad : \A j \in bad : k <= j
    BY <1>3, <2>1, LeastExists
  <2>3. k \in 0 .. n /\ ~(total[k] \in Nat /\ total[k] <= MaxBytes)
    OBVIOUS
  <2>4. k # 0
    BY <2>3, RecordAssumption
  <2>5. k - 1 \in 0 .. n /\ k \in 1 .. n
    BY <2>3, <2>4
  <2>6. k - 1 \notin bad
    BY <2>2, <2>3
  <2>7. total[k - 1] \in Nat /\ total[k - 1] <= MaxBytes
    BY <2>5, <2>6
  <2>8. total[k] = total[k - 1] + Counted(entries[k]) /\ Counted(entries[k]) \in Nat /\ total[k] <= MaxBytes
    BY <1>2, <2>3, <2>5, <2>7 DEF Summing
  <2> QED
    BY <2>3, <2>7, <2>8
<1>4. \A k \in 0 .. n : total[k] \in Nat /\ total[k] <= MaxBytes
  BY <1>3
<1> HIDE DEF large, bad
<1>5. total \in [0 .. n -> Nat] /\ total[n] <= MaxBytes
  BY <1>4
<1>6. ASSUME NEW i \in 1 .. n
      PROVE  total[i] = total[i - 1] + Counted(entries[i]) /\ Counted(entries[i]) \in Nat
  <2>1. i - 1 \in 0 .. n /\ i \in 0 .. n
    OBVIOUS
  <2> QED
    BY <1>2, <1>4, <2>1 DEF Summing
<1> QED
  BY <1>5, <1>6 DEF Adding

\* The sizes an archive declares.
Sized(entries) ==
    /\ entries \in Seq(Range(entries))
    /\ \A i \in DOMAIN entries : entries[i].size \in 0 .. (Wrap - 1)

\* The total of a ZIP that is accepted.
LEMMA ZipTotals ==
    ASSUME NEW entries, Sized(entries), ZipTotal(entries) # TooLarge,
           \A i \in DOMAIN entries : entries[i].kind = "file" => entries[i].size <= MaxBytes
    PROVE  \E total : Adding(total, Len(entries), entries)
<1>1. PICK n : n = Len(entries)
  OBVIOUS
<1>2. n \in Nat /\ DOMAIN entries = 1 .. n
  BY <1>1, LenProperties DEF Sized
<1> DEFINE After(i, last) == IF entries[i].kind = "file" THEN ZipAdd(last, entries[i].size) ELSE last
           step == [p \in (1 .. n) \X Int |-> After(p[1], p[2])]
           Total(f) == f = [i \in 0 .. n |-> IF i = 0 THEN 0
                                             ELSE IF entries[i].kind = "file" THEN ZipAdd(f[i - 1], entries[i].size)
                                             ELSE f[i - 1]]
<1>3. \A i \in 1 .. n, last \in Int : After(i, last) \in Int
  <2> SUFFICES ASSUME NEW i \in 1 .. n, NEW last \in Int
               PROVE  After(i, last) \in Int
    OBVIOUS
  <2>1. entries[i].size \in Nat
    BY <1>2, RecordAssumption DEF Sized
  <2>2. PICK size \in Nat : size = entries[i].size
    BY <2>1
  <2>3. ZipAdd(last, size) \in Int
    BY RecordAssumption DEF ZipAdd, TooLarge
  <2> QED
    BY <2>2, <2>3, Zenon
<1>4. step \in [(1 .. n) \X Int -> Int] /\ \A i \in 1 .. n, last \in Int : step[<<i, last>>] = After(i, last)
  <2> HIDE DEF After
  <2> QED
    BY <1>3
<1>5. \E f : Total(f)
  <2> HIDE DEF step
  <2>1. PICK f \in [0 .. n -> Int] : Counting(f, n, 0, step)
    <3>1. 0 \in Int /\ step \in [(1 .. n) \X Int -> Int]
      BY <1>4
    <3> QED
      BY <1>2, <3>1, CountExists, Zenon
  <2>2. f[0] = 0 /\ \A i \in 1 .. n : f[i] = After(i, f[i - 1])
    <3>1. f[0] = 0 /\ \A i \in 1 .. n : f[i] = step[<<i, f[i - 1]>>]
      BY <2>1 DEF Counting
    <3>2. \A i \in 1 .. n : f[i - 1] \in Int
      BY <1>2, <2>1
    <3> HIDE DEF After
    <3> QED
      BY <1>4, <3>1, <3>2
  <2>3. f = [i \in 0 .. n |-> IF i = 0 THEN 0 ELSE After(i, f[i - 1])]
    <3> HIDE DEF After
    <3>1. \A i \in 0 .. n : f[i] = IF i = 0 THEN 0 ELSE After(i, f[i - 1])
      BY <1>2, <2>2
    <3> QED
      BY <2>1, <3>1
  <2> QED
    BY <2>3, Zenon
<1>6. PICK total : total = CHOOSE f : Total(f)
  OBVIOUS
<1>7. Total(total) /\ ZipTotal(entries) = total[n]
  BY <1>1, <1>5, <1>6 DEF ZipTotal
<1>8. total = [i \in 0 .. n |-> IF i = 0 THEN 0 ELSE After(i, total[i - 1])]
  BY <1>7
<1>9. total[0] = 0 /\ \A i \in 1 .. n : total[i] = After(i, total[i - 1])
  <2> HIDE DEF After
  <2>1. 0 \in 0 .. n /\ \A i \in 1 .. n : i \in 0 .. n /\ i # 0
    BY <1>2
  <2> QED
    BY <1>8, <2>1
<1>10. Summing(total, n, entries)
  <2> SUFFICES ASSUME NEW i \in 1 .. n
               PROVE  /\ total[i - 1] = TooLarge => total[i] = TooLarge
                      /\ total[i - 1] \in Nat /\ total[i - 1] <= MaxBytes /\ total[i] # TooLarge =>
                            /\ total[i] = total[i - 1] + Counted(entries[i])
                            /\ Counted(entries[i]) \in Nat /\ total[i] <= MaxBytes
    BY DEF Summing
  <2>1. PICK last, next, size : last = total[i - 1] /\ next = total[i] /\ size = entries[i].size
    OBVIOUS
  <2>2. size \in Nat
    BY <1>2, <2>1, RecordAssumption DEF Sized
  <2>3. ASSUME entries[i].kind = "file"
        PROVE  next = ZipAdd(last, size) /\ size <= MaxBytes /\ Counted(entries[i]) = Signed(size)
    BY <1>2, <1>9, <2>1, <2>3 DEF Counted
  <2>4. ASSUME entries[i].kind # "file"
        PROVE  next = last /\ Counted(entries[i]) = 0
    BY <1>9, <2>1, <2>4 DEF Counted
  <2>5. last = TooLarge => ZipAdd(last, size) = TooLarge
    BY DEF ZipAdd
  <2>6. last \in Nat /\ last <= MaxBytes /\ size <= MaxBytes /\ ZipAdd(last, size) # TooLarge =>
            /\ ZipAdd(last, size) = last + Signed(size) /\ Signed(size) \in Nat
            /\ last + Signed(size) <= MaxBytes
    BY <2>2, ZipAdds
  <2>7. PICK counted : counted = Counted(entries[i])
    OBVIOUS
  <2>8. \/ next = ZipAdd(last, size) /\ size <= MaxBytes /\ counted = Signed(size)
        \/ next = last /\ counted = 0
    BY <2>3, <2>4, <2>7
  <2>9. /\ last = TooLarge => next = TooLarge
        /\ last \in Nat /\ last <= MaxBytes /\ next # TooLarge =>
              next = last + counted /\ counted \in Nat /\ next <= MaxBytes
    <3>1. CASE next = ZipAdd(last, size) /\ size <= MaxBytes /\ counted = Signed(size)
      BY <2>5, <2>6, <3>1
    <3>2. CASE next = last /\ counted = 0
      BY <3>2
    <3> QED
      BY <2>8, <3>1, <3>2
  <2> QED
    BY <2>1, <2>7, <2>9
<1>11. total = [i \in 0 .. n |-> total[i]]
  BY <1>8
<1>12. total[n] # TooLarge
  BY <1>7
<1> QED
  <2> HIDE DEF After, step, Total
  <2> QED
    BY <1>1, <1>2, <1>9, <1>10, <1>11, <1>12, AcceptedAdds

\* The total of a tar that is accepted.
LEMMA TarTotals ==
    ASSUME NEW entries, Sized(entries), TarTotal(entries) # TooLarge
    PROVE  \E total : Adding(total, Len(entries), entries)
<1>1. PICK n : n = Len(entries)
  OBVIOUS
<1>2. n \in Nat /\ DOMAIN entries = 1 .. n
  BY <1>1, LenProperties DEF Sized
<1> DEFINE After(i, last) == IF entries[i].kind = "file" THEN TarAdd(last, Signed(entries[i].size)) ELSE last
           step == [p \in (1 .. n) \X Int |-> After(p[1], p[2])]
           Total(f) == f = [i \in 0 .. n |-> IF i = 0 THEN 0
                                             ELSE IF entries[i].kind = "file" THEN TarAdd(f[i - 1], Signed(entries[i].size))
                                             ELSE f[i - 1]]
<1>3. \A i \in 1 .. n, last \in Int : After(i, last) \in Int
  <2> SUFFICES ASSUME NEW i \in 1 .. n, NEW last \in Int
               PROVE  After(i, last) \in Int
    OBVIOUS
  <2>1. entries[i].size \in Nat
    BY <1>2, RecordAssumption DEF Sized
  <2>2. PICK size \in Nat : size = entries[i].size
    BY <2>1
  <2>3. TarAdd(last, Signed(size)) \in Int
    BY RecordAssumption DEF TarAdd, TooLarge, Signed
  <2> QED
    BY <2>2, <2>3, Zenon
<1>4. step \in [(1 .. n) \X Int -> Int] /\ \A i \in 1 .. n, last \in Int : step[<<i, last>>] = After(i, last)
  <2> HIDE DEF After
  <2> QED
    BY <1>3
<1>5. \E f : Total(f)
  <2> HIDE DEF step
  <2>1. PICK f \in [0 .. n -> Int] : Counting(f, n, 0, step)
    <3>1. 0 \in Int /\ step \in [(1 .. n) \X Int -> Int]
      BY <1>4
    <3> QED
      BY <1>2, <3>1, CountExists, Zenon
  <2>2. f[0] = 0 /\ \A i \in 1 .. n : f[i] = After(i, f[i - 1])
    <3>1. f[0] = 0 /\ \A i \in 1 .. n : f[i] = step[<<i, f[i - 1]>>]
      BY <2>1 DEF Counting
    <3>2. \A i \in 1 .. n : f[i - 1] \in Int
      BY <1>2, <2>1
    <3> HIDE DEF After
    <3> QED
      BY <1>4, <3>1, <3>2
  <2>3. f = [i \in 0 .. n |-> IF i = 0 THEN 0 ELSE After(i, f[i - 1])]
    <3> HIDE DEF After
    <3>1. \A i \in 0 .. n : f[i] = IF i = 0 THEN 0 ELSE After(i, f[i - 1])
      BY <1>2, <2>2
    <3> QED
      BY <2>1, <3>1
  <2> QED
    BY <2>3, Zenon
<1>6. PICK total : total = CHOOSE f : Total(f)
  OBVIOUS
<1>7. Total(total) /\ TarTotal(entries) = total[n]
  BY <1>1, <1>5, <1>6 DEF TarTotal
<1>8. total = [i \in 0 .. n |-> IF i = 0 THEN 0 ELSE After(i, total[i - 1])]
  BY <1>7
<1>9. total[0] = 0 /\ \A i \in 1 .. n : total[i] = After(i, total[i - 1])
  <2> HIDE DEF After
  <2>1. 0 \in 0 .. n /\ \A i \in 1 .. n : i \in 0 .. n /\ i # 0
    BY <1>2
  <2> QED
    BY <1>8, <2>1
<1>10. Summing(total, n, entries)
  <2> SUFFICES ASSUME NEW i \in 1 .. n
               PROVE  /\ total[i - 1] = TooLarge => total[i] = TooLarge
                      /\ total[i - 1] \in Nat /\ total[i - 1] <= MaxBytes /\ total[i] # TooLarge =>
                            /\ total[i] = total[i - 1] + Counted(entries[i])
                            /\ Counted(entries[i]) \in Nat /\ total[i] <= MaxBytes
    BY DEF Summing
  <2>1. PICK last, next, size : last = total[i - 1] /\ next = total[i] /\ size = entries[i].size
    OBVIOUS
  <2>2. size \in Nat /\ size < Wrap
    BY <1>2, <2>1, RecordAssumption DEF Sized
  <2>3. ASSUME entries[i].kind = "file"
        PROVE  next = TarAdd(last, Signed(size)) /\ Counted(entries[i]) = Signed(size)
    BY <1>2, <1>9, <2>1, <2>3 DEF Counted
  <2>4. ASSUME entries[i].kind # "file"
        PROVE  next = last /\ Counted(entries[i]) = 0
    BY <1>9, <2>1, <2>4 DEF Counted
  <2>5. last = TooLarge => TarAdd(last, Signed(size)) = TooLarge
    BY DEF TarAdd
  <2>6. last \in Nat /\ last <= MaxBytes /\ TarAdd(last, Signed(size)) # TooLarge =>
            /\ TarAdd(last, Signed(size)) = last + Signed(size) /\ Signed(size) \in Nat
            /\ last + Signed(size) <= MaxBytes
    BY <2>2, TarAdds
  <2>7. PICK counted : counted = Counted(entries[i])
    OBVIOUS
  <2>8. \/ next = TarAdd(last, Signed(size)) /\ counted = Signed(size)
        \/ next = last /\ counted = 0
    BY <2>3, <2>4, <2>7
  <2>9. /\ last = TooLarge => next = TooLarge
        /\ last \in Nat /\ last <= MaxBytes /\ next # TooLarge =>
              next = last + counted /\ counted \in Nat /\ next <= MaxBytes
    <3>1. CASE next = TarAdd(last, Signed(size)) /\ counted = Signed(size)
      BY <2>5, <2>6, <3>1
    <3>2. CASE next = last /\ counted = 0
      BY <3>2
    <3> QED
      BY <2>8, <3>1, <3>2
  <2> QED
    BY <2>1, <2>7, <2>9
<1>11. total = [i \in 0 .. n |-> total[i]]
  BY <1>8
<1>12. total[n] # TooLarge
  BY <1>7
<1> QED
  <2> HIDE DEF After, step, Total
  <2> QED
    BY <1>1, <1>2, <1>9, <1>10, <1>11, <1>12, AcceptedAdds

\* The file whose size is added first.
OneOf(some) == CHOOSE f \in some : TRUE

\* The sum of the sizes of each set of files.
Sums(sum, all) ==
    sum = [some \in SUBSET all |-> IF some = {} THEN 0
                                      ELSE OneOf(some).size + sum[some \ {OneOf(some)}]]

\* A part of a finite set is finite, and smaller without one of its elements.
LEMMA PartIsSmaller ==
    ASSUME NEW all, IsFiniteSet(all), NEW some \in SUBSET all
    PROVE  /\ IsFiniteSet(some) /\ Cardinality(some) \in Nat /\ Cardinality(some) <= Cardinality(all)
           /\ Cardinality(some) = 0 <=> some = {}
           /\ \A x \in some : some \ {x} \in SUBSET all /\ Cardinality(some \ {x}) = Cardinality(some) - 1
<1>1. IsFiniteSet(some) /\ Cardinality(some) <= Cardinality(all)
  BY FS_Subset
<1>2. Cardinality(some) \in Nat /\ (Cardinality(some) = 0 <=> some = {})
  BY <1>1, FS_CardinalityType, FS_EmptySet
<1>3. \A x \in some : some \ {x} \in SUBSET all /\ Cardinality(some \ {x}) = Cardinality(some) - 1
  <2> SUFFICES ASSUME NEW x \in some
               PROVE  some \ {x} \in SUBSET all /\ Cardinality(some \ {x}) = Cardinality(some) - 1
    OBVIOUS
  <2>1. Cardinality(some \ {x}) = Cardinality(some) - 1
    BY <1>1, FS_RemoveElement
  <2> QED
    BY <2>1
<1> QED
  BY <1>1, <1>2, <1>3

\* The sizes of a finite set can be added up.
LEMMA SumsExist ==
    ASSUME NEW all, IsFiniteSet(all)
    PROVE  \E sum : Sums(sum, all)
<1> DEFINE Body(g, s) == IF s = {} THEN 0 ELSE OneOf(s).size + g[s \ {OneOf(s)}]
           Summable(g, k) == \A s \in SUBSET all : Cardinality(s) <= k => g[s] = Body(g, s)
           bad == {k \in Nat : ~ \E g : Summable(g, k)}
<1>0. \A s \in SUBSET all : s # {} => OneOf(s) \in s
  BY DEF OneOf
<1>1. ASSUME bad # {}
      PROVE  FALSE
  <2>1. bad \in SUBSET Nat
    OBVIOUS
  <2>2. PICK k \in bad : \A j \in bad : k <= j
    BY <1>1, <2>1, LeastExists
  <2>3. k \in Nat /\ ~ \E g : Summable(g, k)
    OBVIOUS
  <2>4. ASSUME k = 0
        PROVE  FALSE
    <3>1. PICK g : g = [s \in SUBSET all |-> 0]
      OBVIOUS
    <3>2. ASSUME NEW s \in SUBSET all, Cardinality(s) <= 0
          PROVE  g[s] = Body(g, s)
      <4>1. s = {}
        BY <3>2, PartIsSmaller
      <4> QED
        BY <3>1, <4>1
    <3>3. Summable(g, 0)
      <4> HIDE DEF Body
      <4> QED
        BY <3>2
    <3> HIDE DEF Summable
    <3> QED
      BY <2>3, <2>4, <3>3
  <2>5. k - 1 \in Nat /\ k - 1 \notin bad
    <3> HIDE DEF bad
    <3> QED
      BY <2>2, <2>3, <2>4
  <2>6. PICK g : Summable(g, k - 1)
    BY <2>5
  <2>7. PICK h : h = [s \in SUBSET all |-> IF Cardinality(s) <= k - 1 THEN g[s] ELSE Body(g, s)]
    OBVIOUS
  <2>8. ASSUME NEW s \in SUBSET all, Cardinality(s) <= k
        PROVE  h[s] = Body(h, s)
    <3>1. Cardinality(s) \in Nat /\ (Cardinality(s) = 0 <=> s = {})
      BY PartIsSmaller
    <3>2. h[s] = Body(g, s)
      <4> HIDE DEF Body
      <4> QED
        BY <2>6, <2>7
    <3>3. CASE s = {}
      BY <3>2, <3>3
    <3>4. CASE s # {}
      <4>1. PICK x : x = OneOf(s)
        OBVIOUS
      <4>2. x \in s
        BY <1>0, <3>4, <4>1
      <4>3. s \ {x} \in SUBSET all /\ Cardinality(s \ {x}) = Cardinality(s) - 1
        BY <4>2, PartIsSmaller
      <4>4. Cardinality(s \ {x}) <= k - 1
        BY <2>3, <2>8, <3>1, <4>3
      <4>5. h[s \ {x}] = g[s \ {x}]
        BY <2>7, <4>3, <4>4
      <4> QED
        BY <3>2, <3>4, <4>1, <4>5
    <3> QED
      BY <3>3, <3>4
  <2>9. Summable(h, k)
    <3> HIDE DEF Body
    <3> QED
      BY <2>8
  <2> HIDE DEF Summable
  <2> QED
    BY <2>3, <2>9
<1>2. PICK n : n = Cardinality(all)
  OBVIOUS
<1>3. n \in Nat
  BY <1>2, FS_CardinalityType
<1>4. PICK g : Summable(g, n)
  BY <1>1, <1>3
<1>5. PICK sum : sum = [s \in SUBSET all |-> g[s]]
  OBVIOUS
<1>6. ASSUME NEW s \in SUBSET all
      PROVE  sum[s] = Body(sum, s)
  <2>1. sum[s] = Body(g, s)
    <3>1. Cardinality(s) <= n
      BY <1>2, PartIsSmaller
    <3> HIDE DEF Body
    <3> QED
      BY <1>4, <1>5, <3>1
  <2>2. CASE s = {}
    BY <2>1, <2>2
  <2>3. CASE s # {}
    <3>1. PICK x : x = OneOf(s)
      OBVIOUS
    <3>2. s \ {x} \in SUBSET all
      OBVIOUS
    <3>3. sum[s \ {x}] = g[s \ {x}]
      BY <1>5, <3>2
    <3> QED
      BY <2>1, <2>3, <3>1, <3>3
  <2> QED
    BY <2>2, <2>3
<1>7. sum = [s \in SUBSET all |-> Body(sum, s)]
  <2> HIDE DEF Body
  <2> QED
    BY <1>5, <1>6
<1>8. Sums(sum, all)
  BY <1>7 DEF Sums
<1> QED
  BY <1>8

\* The sum of the sizes of each part of the files, in whatever order.
AnyOrder(sum, all) ==
    /\ sum \in [SUBSET all -> Nat] /\ sum[{}] = 0
    /\ \A s \in SUBSET all : \A x \in s : sum[s] = x.size + sum[s \ {x}]

LEMMA SizesAdd ==
    ASSUME NEW all, IsFiniteSet(all), \A x \in all : x.size \in Nat
    PROVE  \E sum : AnyOrder(sum, all) /\ sum[all] = SizeOf(all)
<1>1. PICK sum : sum = CHOOSE f : Sums(f, all)
  OBVIOUS
<1>2. Sums(sum, all)
  BY <1>1, SumsExist
<1>3. SizeOf(all) = sum[all]
  BY <1>1 DEF SizeOf, Sums, OneOf
<1>4. \A s \in SUBSET all : s # {} => OneOf(s) \in s /\ sum[s] = OneOf(s).size + sum[s \ {OneOf(s)}]
  <2>1. \A s \in SUBSET all : s # {} => sum[s] = OneOf(s).size + sum[s \ {OneOf(s)}]
    BY <1>2 DEF Sums
  <2> QED
    BY <2>1 DEF OneOf
<1>5. sum[{}] = 0
  <2>1. {} \in SUBSET all
    OBVIOUS
  <2> QED
    BY <1>2, <2>1 DEF Sums
<1> DEFINE bad == {k \in Nat : \E s \in SUBSET all : Cardinality(s) = k /\ sum[s] \notin Nat}
           worse == {k \in Nat : \E s \in SUBSET all : Cardinality(s) = k /\ \E x \in s : sum[s] # x.size + sum[s \ {x}]}
<1>6. ASSUME bad # {}
      PROVE  FALSE
  <2>1. bad \in SUBSET Nat
    OBVIOUS
  <2>2. PICK k \in bad : \A j \in bad : k <= j
    BY <1>6, <2>1, LeastExists
  <2>3. k \in Nat
    OBVIOUS
  <2>4. PICK s \in SUBSET all : Cardinality(s) = k /\ sum[s] \notin Nat
    OBVIOUS
  <2>5. s # {}
    BY <1>5, <2>4
  <2>6. PICK x : x = OneOf(s)
    OBVIOUS
  <2>7. x \in s /\ sum[s] = x.size + sum[s \ {x}]
    BY <1>4, <2>5, <2>6
  <2>8. s \ {x} \in SUBSET all /\ Cardinality(s \ {x}) = k - 1 /\ k # 0
    BY <2>4, <2>5, <2>7, PartIsSmaller
  <2>9. k - 1 \in Nat
    BY <2>3, <2>8
  <2>10. k - 1 \notin bad
    <3> HIDE DEF bad
    <3> QED
      BY <2>2, <2>3
  <2>11. sum[s \ {x}] \in Nat
    BY <2>8, <2>9, <2>10
  <2> QED
    BY <2>4, <2>7, <2>11
<1>7. \A s \in SUBSET all : sum[s] \in Nat
  <2> SUFFICES ASSUME NEW s \in SUBSET all
               PROVE  sum[s] \in Nat
    OBVIOUS
  <2>1. Cardinality(s) \in Nat
    BY PartIsSmaller
  <2> QED
    BY <1>6, <2>1
<1> HIDE DEF bad
<1>8. ASSUME worse # {}
      PROVE  FALSE
  <2>1. worse \in SUBSET Nat
    OBVIOUS
  <2>2. PICK k \in worse : \A j \in worse : k <= j
    BY <1>8, <2>1, LeastExists
  <2>3. k \in Nat
    OBVIOUS
  <2>4. PICK s \in SUBSET all : Cardinality(s) = k /\ \E x \in s : sum[s] # x.size + sum[s \ {x}]
    OBVIOUS
  <2>5. PICK x \in s : sum[s] # x.size + sum[s \ {x}]
    BY <2>4
  <2>6. PICK y : y = OneOf(s)
    OBVIOUS
  <2>7. y \in s /\ sum[s] = y.size + sum[s \ {y}]
    BY <1>4, <2>6
  <2>8. x # y
    BY <2>5, <2>7
  <2>9. /\ s \ {x} \in SUBSET all /\ Cardinality(s \ {x}) = k - 1
        /\ s \ {y} \in SUBSET all /\ Cardinality(s \ {y}) = k - 1 /\ k # 0
    BY <2>4, <2>7, PartIsSmaller
  <2>10. k - 1 \in Nat
    BY <2>3, <2>9
  <2>11. k - 1 \notin worse
    <3> HIDE DEF worse
    <3> QED
      BY <2>2, <2>3
  <2>12. PICK s1, s2, s3 : s1 = s \ {x} /\ s2 = s \ {y} /\ s3 = (s \ {x}) \ {y}
    OBVIOUS
  <2>13. y \in s1 /\ x \in s2 /\ s1 \ {y} = s3 /\ s2 \ {x} = s3
    BY <2>5, <2>7, <2>8, <2>12
  <2>14. s1 \in SUBSET all /\ Cardinality(s1) = k - 1 /\ s2 \in SUBSET all /\ Cardinality(s2) = k - 1
    BY <2>9, <2>12
  <2>15. sum[s1] = y.size + sum[s1 \ {y}]
    BY <2>10, <2>11, <2>13, <2>14
  <2>16. sum[s2] = x.size + sum[s2 \ {x}]
    BY <2>10, <2>11, <2>13, <2>14
  <2>17. x.size \in Nat /\ y.size \in Nat /\ sum[s3] \in Nat
    BY <1>7, <2>7, <2>12
  <2>18. sum[s] = y.size + sum[s2] /\ sum[s] # x.size + sum[s1]
    BY <2>5, <2>7, <2>12
  <2>19. sum[s1] = y.size + sum[s3] /\ sum[s2] = x.size + sum[s3]
    BY <2>13, <2>15, <2>16
  <2> QED
    BY <2>17, <2>18, <2>19
<1>9. \A s \in SUBSET all : \A x \in s : sum[s] = x.size + sum[s \ {x}]
  <2> SUFFICES ASSUME NEW s \in SUBSET all, NEW x \in s
               PROVE  sum[s] = x.size + sum[s \ {x}]
    OBVIOUS
  <2>1. Cardinality(s) \in Nat
    BY PartIsSmaller
  <2> QED
    BY <1>8, <2>1
<1> HIDE DEF worse
<1>10. sum \in [SUBSET all -> Nat]
  BY <1>2, <1>7 DEF Sums
<1> QED
  BY <1>3, <1>5, <1>9, <1>10 DEF AnyOrder

\* Different files that are counted by different entries of a total that is
\* accepted: neither their number nor the sum of their sizes is too large.
LEMMA SizesBounded ==
    ASSUME NEW n \in Nat, NEW entries, NEW total, Adding(total, n, entries),
           NEW all, NEW idx \in [all -> 1 .. n], \A x, y \in all : idx[x] = idx[y] => x = y,
           \A x \in all : x.size = Counted(entries[idx[x]])
    PROVE  /\ IsFiniteSet(all) /\ Cardinality(all) <= n /\ SizeOf(all) <= MaxBytes
           /\ \A x \in all : x.size \in 0 .. MaxBytes
<1>1. IsFiniteSet(all) /\ Cardinality(all) <= n
  <2>1. idx \in Injection(all, 1 .. n)
    BY DEF Injection, IsInjective
  <2>2. IsFiniteSet(1 .. n) /\ Cardinality(1 .. n) = n
    BY FS_Interval
  <2> QED
    BY <2>1, <2>2, FS_Injection
<1>2. \A i \in 1 .. n : /\ Counted(entries[i]) \in Nat /\ total[i - 1] \in Nat /\ total[i] \in Nat
                        /\ total[i] = total[i - 1] + Counted(entries[i])
  <2> SUFFICES ASSUME NEW i \in 1 .. n
               PROVE  /\ Counted(entries[i]) \in Nat /\ total[i - 1] \in Nat /\ total[i] \in Nat
                      /\ total[i] = total[i - 1] + Counted(entries[i])
    OBVIOUS
  <2>1. i \in 0 .. n /\ i - 1 \in 0 .. n
    OBVIOUS
  <2> QED
    BY <2>1 DEF Adding
<1>3. \A x \in all : x.size \in Nat
  BY <1>2
<1>4. PICK sum : AnyOrder(sum, all) /\ sum[all] = SizeOf(all)
  BY <1>1, <1>3, SizesAdd
<1>5. /\ \A s \in SUBSET all : sum[s] \in Nat
      /\ \A s \in SUBSET all : \A x \in s : sum[s] = x.size + sum[s \ {x}]
      /\ sum[{}] = 0
  BY <1>4 DEF AnyOrder
<1> DEFINE Fits(k) == \A s \in SUBSET all : (\A x \in s : idx[x] <= k) => sum[s] <= total[k]
           bad == {k \in 0 .. n : ~Fits(k)}
<1>6. ASSUME bad # {}
      PROVE  FALSE
  <2>1. bad \in SUBSET Nat
    OBVIOUS
  <2>2. PICK k \in bad : \A j \in bad : k <= j
    BY <1>6, <2>1, LeastExists
  <2>3. k \in 0 .. n /\ ~Fits(k)
    OBVIOUS
  <2>4. PICK s \in SUBSET all : (\A x \in s : idx[x] <= k) /\ ~ (sum[s] <= total[k])
    BY <2>3
  <2>5. ASSUME k = 0
        PROVE  FALSE
    <3>1. s = {}
      <4>1. \A x \in s : idx[x] \in 1 .. n /\ idx[x] <= 0
        BY <2>4, <2>5
      <4> QED
        BY <4>1
    <3>2. total[0] = 0
      BY DEF Adding
    <3> QED
      BY <1>5, <2>4, <2>5, <3>1, <3>2
  <2>6. k \in 1 .. n /\ k - 1 \in 0 .. n
    <3> HIDE DEF Fits
    <3> QED
      BY <2>3, <2>5
  <2>7. Fits(k - 1)
    <3>1. k - 1 \notin bad
      <4> HIDE DEF bad
      <4> QED
        BY <2>2, <2>6
    <3> QED
      BY <2>6, <3>1
  <2>8. Counted(entries[k]) \in Nat /\ total[k - 1] \in Nat /\ total[k] = total[k - 1] + Counted(entries[k])
    BY <1>2, <2>6
  <2>9. PICK counted, before, after : counted = Counted(entries[k]) /\ before = total[k - 1] /\ after = total[k]
    OBVIOUS
  <2>10. CASE \E x \in s : idx[x] = k
    <3>1. PICK x \in s : idx[x] = k
      BY <2>10
    <3>2. PICK rest : rest = s \ {x}
      OBVIOUS
    <3>3. rest \in SUBSET all
      BY <3>2
    <3>4. \A y \in rest : idx[y] <= k - 1
      <4> SUFFICES ASSUME NEW y \in rest
                   PROVE  idx[y] <= k - 1
        OBVIOUS
      <4>1. y \in s /\ y # x
        BY <3>2
      <4>2. idx[y] \in 1 .. n /\ idx[y] <= k /\ idx[y] # k
        BY <2>4, <3>1, <4>1
      <4> QED
        BY <2>6, <4>2
    <3>5. sum[rest] <= before
      BY <2>7, <2>9, <3>3, <3>4
    <3>6. sum[s] = x.size + sum[rest] /\ x.size = counted /\ sum[rest] \in Nat
      BY <1>5, <2>9, <3>1, <3>2
    <3> QED
      BY <2>4, <2>8, <2>9, <3>5, <3>6
  <2>11. CASE ~ \E x \in s : idx[x] = k
    <3>1. \A y \in s : idx[y] <= k - 1
      <4> SUFFICES ASSUME NEW y \in s
                   PROVE  idx[y] <= k - 1
        OBVIOUS
      <4>1. idx[y] \in 1 .. n /\ idx[y] <= k /\ idx[y] # k
        BY <2>4, <2>11
      <4> QED
        BY <2>6, <4>1
    <3>2. sum[s] <= before
      BY <2>7, <2>9, <3>1
    <3>3. sum[s] \in Nat
      BY <1>5
    <3> QED
      BY <2>4, <2>8, <2>9, <3>2, <3>3
  <2> QED
    BY <2>10, <2>11
<1>7. Fits(n)
  <2>1. n \in 0 .. n
    OBVIOUS
  <2> QED
    BY <1>6, <2>1
<1>8. total[n] <= MaxBytes /\ total[n] \in Nat
  <2>1. n \in 0 .. n
    OBVIOUS
  <2> QED
    BY <2>1 DEF Adding
<1>9. sum[all] <= MaxBytes
  <2>1. \A x \in all : idx[x] <= n
    <3>1. \A x \in all : idx[x] \in 1 .. n
      OBVIOUS
    <3> QED
      BY <3>1
  <2>2. sum[all] <= total[n] /\ sum[all] \in Nat
    BY <1>5, <1>7, <2>1
  <2> QED
    BY <1>8, <2>2, RecordAssumption
<1>10. \A x \in all : x.size \in 0 .. MaxBytes
  <2> SUFFICES ASSUME NEW x \in all
               PROVE  x.size \in 0 .. MaxBytes
    OBVIOUS
  <2>1. sum[all] = x.size + sum[all \ {x}] /\ sum[all \ {x}] \in Nat /\ x.size \in Nat
    BY <1>3, <1>5
  <2> QED
    BY <1>9, <2>1, RecordAssumption
<1> QED
  BY <1>1, <1>4, <1>9, <1>10

\* What is mapped has its place, and no two files have one.
LEMMA MappedApart ==
    ASSUME NEW package, NEW resource, NEW among,
           NEW mapped, mapped = MapResourceFiles(package, resource, among), mapped.ok
    PROVE  /\ \A m \in mapped.files : ~UnsafeArchivePath(m.destination)
           /\ \A m, n \in mapped.files : Lower(m.destination) = Lower(n.destination) => m = n
BY DEF MapResourceFiles

\* What the lock requires of the files of a record, but for their number and sizes.
FilesAccepted(all) ==
    \A f \in all :
        /\ ~UnsafeResourcePath(f.source) /\ ~UnsafeResourcePath(f.destination)
        /\ \A g \in all : Lower(Clean(f.destination)) = Lower(Clean(g.destination)) => f = g

\* A record that ResolveResourceRecord could not be relied on for.
Odd(r) == SpelledTwice(r) \/ Nameless(r)

\* Files with sources and destinations of their own are accepted.
LEMMA ApartIsAccepted ==
    ASSUME NEW r, ~Odd(r),
           \A m \in r.files : ~UnsafeArchivePath(m.source) /\ ~UnsafeArchivePath(m.destination),
           \A m, n \in r.files : Lower(m.destination) = Lower(n.destination) => m = n
    PROVE  FilesAccepted(r.files)
<1>1. \A m \in r.files : m.source # <<".">> /\ m.destination # <<".">>
  BY DEF Odd, Nameless
<1>2. \A m \in r.files : ~UnsafeResourcePath(m.source) /\ ~UnsafeResourcePath(m.destination)
  BY <1>1 DEF UnsafeResourcePath, UnsafeArchivePath
<1>3. \A f, g \in r.files : Lower(Clean(f.destination)) = Lower(Clean(g.destination)) => f = g
  BY DEF Odd, SpelledTwice
<1> QED
  BY <1>2, <1>3 DEF FilesAccepted

\* An asset that was selected has a name, as a resource and a record of one.
HasName(asset) == asset.name # ""
Titled(record) == record.resource # ""

\* A name is a safe path unless it is empty or that of a directory.
LEMMA NamedIsSafe ==
    ASSUME NEW name, name \notin Special
    PROVE  ~UnsafeArchivePath(<<name>>)
<1>1. PICK path : path = <<name>>
  OBVIOUS
<1>2. IsPath(path) /\ Len(path) = 1 /\ path[1] = name
  <2>1. IsPath(<<name>>) /\ Len(<<name>>) = 1 /\ <<name>>[1] = name
    BY FewArePath
  <2> QED
    BY <1>1, <2>1, Zenon
<1>3. ~IsAbs(path)
  BY <1>2 DEF IsAbs
<1>4. PICK f : PushedAlone(f, path) /\ Clean(path) = RelRooted(f[Len(path)])
  BY <1>2, <1>3, RelKeeps
<1>5. f[0] = <<>> /\ f[1] = RelPush(f[0], name)
  BY <1>2, <1>4 DEF PushedAlone
<1>6. RelPush(<<>>, name) = Append(<<>>, name)
  <2>1. ~ (name \in {"", "."}) /\ ~ (name = "..")
    BY DEF Special
  <2> QED
    BY <2>1 DEF RelPush, Push
<1>7. PICK out : out = Append(<<>>, name)
  OBVIOUS
<1>8. out # <<>> /\ out[1] = name
  BY <1>7
<1>9. Clean(path) = out
  BY <1>2, <1>4, <1>5, <1>6, <1>7, <1>8 DEF RelRooted, Rooted
<1>10. path # <<"">> /\ name # ".."
  BY <1>1 DEF Special
<1>11. Clean(path)[1] = name
  BY <1>8, <1>9
<1>12. ~UnsafeArchivePath(path)
  BY <1>3, <1>10, <1>11 DEF UnsafeArchivePath, Safe, HasTraversal
<1> QED
  BY <1>1, <1>12

\* What ResolveResourceRecord accepts the lock accepts, but for odd records.
LEMMA ResolvedIsValid ==
    ASSUME NEW package \in Range(Packages), NEW resource, Placing(resource), NEW asset, asset.url \in URLs,
           AssetAllowed(asset.size), HasName(asset),
           NEW bytes \in DOMAIN Data,
           NEW resolved, resolved = ResolveResourceRecord(package, resource, asset, bytes), resolved.ok,
           NEW r, r = resolved.record, ~Odd(r), HasName(resource)
    PROVE  Valid(r)
<1>1. PICK entries, format : /\ entries = Data[bytes].entries
                             /\ format = IF resource.archive THEN ArchiveFormat(asset.suffix, Data[bytes].form) ELSE "file"
  OBVIOUS
<1>2. PICK whole : whole = [name |-> <<asset.name>>, size |-> Data[bytes].size, content |-> bytes]
  OBVIOUS
<1>3. PICK among : among = IF resource.archive THEN FilesAmong(entries) ELSE {whole}
  OBVIOUS
<1>4. PICK mapped : mapped = MapResourceFiles(package, resource, among)
  OBVIOUS
<1>5. /\ Data[bytes].size = asset.size /\ (resource.archive => Inspect(format, bytes)) /\ mapped.ok
      /\ resolved.record = [package |-> package, resource |-> resource.name, url |-> asset.url,
                            size |-> Data[bytes].size, checksum |-> bytes, archive |-> format,
                            files |-> mapped.files]
  BY <1>1, <1>2, <1>3, <1>4 DEF ResolveResourceRecord
<1>6. r.size = Data[bytes].size /\ r.archive = format /\ r.files = mapped.files
  BY <1>5
<1>titled. Titled(r)
  <2>1. PICK name : name = resource.name
    OBVIOUS
  <2>2. r.resource = name
    BY <1>5, <2>1
  <2>3. resource.name # ""
    BY DEF HasName
  <2> QED
    BY <2>1, <2>2, <2>3 DEF Titled
<1>7. /\ r.files # {}
      /\ \A m \in r.files : \E f \in among : OnlyFrom(m, f, r.files)
  <2>1. mapped.ok => mapped.files # {}
    BY <1>4, MappedFiles
  <2>2. \A m \in mapped.files : \E f \in among : OnlyFrom(m, f, mapped.files)
    BY <1>4, MappedFiles
  <2> QED
    BY <1>5, <1>6, <2>1, <2>2
<1>8. /\ \A m \in r.files : ~UnsafeArchivePath(m.destination)
      /\ \A m, n \in r.files : Lower(m.destination) = Lower(n.destination) => m = n
  <2>1. /\ \A m \in mapped.files : ~UnsafeArchivePath(m.destination)
        /\ \A m, n \in mapped.files : Lower(m.destination) = Lower(n.destination) => m = n
    BY <1>4, <1>5, MappedApart
  <2> QED
    BY <1>6, <2>1
<1>9. r.size \in 1 .. MaxBytes
  BY <1>5, <1>6 DEF AssetAllowed
<1>10. CASE resource.archive
  <2>1. PICK n : n = Len(entries)
    OBVIOUS
  <2>2. Sized(entries) /\ n \in Nat /\ DOMAIN entries = 1 .. n
    BY <1>1, <2>1, RecordAssumption, LenProperties DEF Sized
  <2>3. among = FilesAmong(entries) /\ Inspect(format, bytes)
    BY <1>1, <1>3, <1>5, <1>10
  <2>4. /\ Listable(entries) /\ format # "file"
        /\ \/ /\ ZipTotal(entries) # TooLarge
              /\ \A i \in DOMAIN entries : entries[i].kind = "file" => entries[i].size <= MaxBytes
           \/ TarTotal(entries) # TooLarge
    BY <1>1, <2>3 DEF Inspect, InspectZIP, InspectTar
  <2>5. PICK total : Adding(total, n, entries)
    BY <2>1, <2>2, <2>4, ZipTotals, TarTotals
  <2>6. PICK From : From = [m \in r.files |-> {i \in 1 .. n : entries[i].kind = "file" /\ OnlyFrom(m, entries[i], r.files)}]
    OBVIOUS
  <2>7. \A m \in r.files : From[m] # {}
    <3>1. \A f \in among : \E i \in 1 .. n : entries[i].kind = "file" /\ f = entries[i]
      BY <2>2, <2>3 DEF FilesAmong
    <3> SUFFICES ASSUME NEW m \in r.files
                 PROVE  \E i \in 1 .. n : entries[i].kind = "file" /\ OnlyFrom(m, entries[i], r.files)
      BY <2>6
    <3> QED
      BY <1>7, <3>1
  <2>8. PICK idx : idx = [m \in r.files |-> CHOOSE i \in From[m] : TRUE]
    OBVIOUS
  <2>9. \A m \in r.files : /\ idx[m] \in 1 .. n /\ entries[idx[m]].kind = "file"
                           /\ OnlyFrom(m, entries[idx[m]], r.files)
    <3>1. \A m \in r.files : idx[m] \in From[m]
      BY <2>7, <2>8
    <3> QED
      BY <2>6, <3>1
  <2>10. idx \in [r.files -> 1 .. n]
    BY <2>8, <2>9
  <2>11. \A x, y \in r.files : idx[x] = idx[y] => x = y
    BY <2>9 DEF OnlyFrom
  <2>12. \A m \in r.files : m.size = Counted(entries[idx[m]]) /\ m.source = entries[idx[m]].name
    BY <2>9 DEF OnlyFrom, MappedFrom, Counted
  <2>13. /\ IsFiniteSet(r.files) /\ Cardinality(r.files) <= n /\ SizeOf(r.files) <= MaxBytes
         /\ \A x \in r.files : x.size \in 0 .. MaxBytes
    BY <2>2, <2>5, <2>10, <2>11, <2>12, SizesBounded
  <2>14. Cardinality(r.files) \in 1 .. MaxFiles
    <3>1. Cardinality(r.files) \in Nat /\ Cardinality(r.files) # 0
      BY <1>7, <2>13, FS_CardinalityType, FS_EmptySet
    <3>2. n <= MaxFiles
      BY <2>1, <2>4 DEF Listable
    <3> QED
      BY <2>2, <2>13, <3>1, <3>2, RecordAssumption
  <2>15. \A m \in r.files : ~UnsafeArchivePath(m.source)
    <3>1. \A i \in 1 .. n : ~UnsafeArchivePath(entries[i].name)
      BY <2>2, <2>4 DEF Listable
    <3> QED
      BY <2>9, <2>12, <3>1
  <2>16. FilesAccepted(r.files)
    BY <1>8, <2>15, ApartIsAccepted
  <2> QED
    BY <1>6, <1>9, <1>titled, <2>4, <2>13, <2>14, <2>16 DEF Valid, Titled, FilesAccepted
<1>11. CASE ~resource.archive
  <2>1. among = {whole} /\ whole.name = <<asset.name>> /\ whole.size = Data[bytes].size
    BY <1>2, <1>3, <1>11
  <2>2. PICK m \in r.files : OnlyFrom(m, whole, r.files)
    BY <1>7, <2>1
  <2>3. r.files = {m}
    <3>1. \A x \in r.files : MappedFrom(x, whole)
      BY <1>7, <2>1 DEF OnlyFrom
    <3>2. \A x \in r.files : x = m
      BY <2>2, <3>1 DEF OnlyFrom
    <3> QED
      BY <3>2
  <2>4. m.source = <<asset.name>> /\ m.size \in 0 .. MaxBytes
    <3>1. PICK size : size = r.size
      OBVIOUS
    <3>2. m.source = whole.name /\ m.size = Signed(size)
      BY <1>6, <2>1, <2>2, <3>1 DEF OnlyFrom, MappedFrom
    <3>3. size \in 1 .. MaxBytes /\ ~ (size >= Wrap \div 2)
      BY <1>9, <3>1, RecordAssumption
    <3>4. Signed(size) = size
      BY <3>3 DEF Signed
    <3>5. size \in 0 .. MaxBytes
      BY <3>3, RecordAssumption
    <3> QED
      BY <2>1, <3>2, <3>4, <3>5
  <2>5. Cardinality(r.files) = 1 /\ IsFiniteSet(r.files)
    BY <2>3, FS_Singleton
  <2>6. SizeOf(r.files) <= MaxBytes
    <3>1. PICK all : all = r.files
      OBVIOUS
    <3>2. all = {m} /\ IsFiniteSet(all) /\ \A x \in all : x.size \in Nat
      BY <2>3, <2>4, <2>5, <3>1
    <3>3. PICK sum : AnyOrder(sum, all) /\ sum[all] = SizeOf(all)
      BY <3>2, SizesAdd
    <3>4. sum[all] = m.size + sum[all \ {m}] /\ all \ {m} = {} /\ sum[{}] = 0
      BY <3>2, <3>3 DEF AnyOrder
    <3>5. PICK size : size = m.size
      OBVIOUS
    <3>6. sum[all] = size
      <4>1. sum[all] = size + 0
        BY <3>4, <3>5, Zenon
      <4>2. size \in Nat
        BY <2>4, <3>5
      <4> QED
        BY <4>1, <4>2
    <3> QED
      BY <2>4, <3>1, <3>3, <3>5, <3>6, RecordAssumption
  <2>7. \A x \in r.files : x.size \in 0 .. MaxBytes /\ ~UnsafeArchivePath(x.source)
    <3>1. m.source \notin {<<".">>, <<"..">>}
      BY DEF Odd, Nameless
    <3>2. asset.name \notin Special
      BY <2>4, <3>1 DEF HasName, Special
    <3>3. ~UnsafeArchivePath(<<asset.name>>)
      BY <3>2, NamedIsSafe
    <3> QED
      BY <2>3, <2>4, <3>3
  <2>8. FilesAccepted(r.files)
    BY <1>8, <2>7, ApartIsAccepted
  <2>9. Cardinality(r.files) \in 1 .. MaxFiles
    BY <2>5, RecordAssumption
  <2> QED
    BY <1>titled, <1>9, <2>5, <2>6, <2>7, <2>8, <2>9 DEF Valid, Titled, FilesAccepted
<1> QED
  BY <1>10, <1>11

\* What was resolved is accepted by the lock or odd, and only that stops a resolution
\* from being written; an asset has a name.
LocksInv ==
    /\ \A r \in job.made : Valid(r) \/ Odd(r)
    /\ job.pc = "resolving" => HasName(job.asset)
    /\ job.failure = "lock" => Unrecorded \/ \E r \in job.made : Odd(r)

\* The manifests offer what they did.
LEMMA OffersStay ==
    ASSUME [Next]_vars
    PROVE  offers' = offers
<1>1. CASE \E version \in RuntimeVersions, resolves \in BOOLEAN : Begin(version, resolves)
  BY <1>1 DEF Begin
<1>2. CASE Step
  BY <1>2 DEF Step, Select, ResolveRecord, Write, BeginRestore, Fetch, Fetched, Install, CloseStore, Finish,
              Fail, End
<1>3. CASE UNCHANGED vars
  BY <1>3 DEF vars, tool
<1>4. CASE \E t \in Threads : Serve(t) \/ Share(t)
  BY <1>4 DEF Serve, Share, tool
<1>5. CASE \E u \in URLs, b \in Bytes : Republish(u, b)
  BY <1>5 DEF Republish, tool
<1>6. CASE \E start \in Starts, m \in Manifests, options \in LoadOptions : LoadProject(start, m, options)
  BY <1>6 DEF LoadProject
<1> QED
  BY <1>1, <1>2, <1>3, <1>4, <1>5, <1>6 DEF Next

\* A step that makes no record and does not fail to write the lock.
LEMMA LocksKept ==
    ASSUME LocksInv, offers' = offers, job'.made = job.made, job'.pc # "resolving",
           job'.failure = job.failure \/ job'.failure # "lock"
    PROVE  LocksInv'
BY DEF LocksInv, Unrecorded

\* An end with anything but an error of the lock.
LEMMA EndLocks ==
    ASSUME ToolInv, LocksInv, offers' = offers, NEW failure, End(failure), failure # "lock"
    PROVE  LocksInv'
<1>1. job'.pc = "close" /\ job'.failure = failure /\ job'.made = job.made
  BY DEF End, ToolInv, JobInv, Fields
<1> QED
  BY <1>1, LocksKept

\* An asset is selected only by its name.
LEMMA SelectLocks ==
    ASSUME ToolAssumption, ToolInv, LocksInv, offers' = offers, Select
    PROVE  LocksInv'
<1>1. DOMAIN job = Fields /\ Making /\ job.pc = "resolve" /\ job.todo # {}
  BY DEF ToolInv, JobInv, Select
<1>2. job.todo \subseteq Offering(job.version) /\ Offering(job.version) \subseteq DOMAIN Packages
  BY <1>1 DEF Making, Offering
<1>3. PICK i : i = First(job.todo)
  OBVIOUS
<1>4. i \in DOMAIN Packages
  BY <1>1, <1>2, <1>3, FirstIsLeft
<1>5. PICK resource, assets : resource = Offered(i) /\ assets = Assets[i]
  OBVIOUS
<1>6. \/ \E a \in SelectReleaseAsset(resource, assets) : job' = [job EXCEPT !.pc = "resolving", !.asset = a]
      \/ Fail("asset") \/ Fail("io")
  BY <1>3, <1>5 DEF Select
<1>7. ASSUME NEW a \in SelectReleaseAsset(resource, assets), job' = [job EXCEPT !.pc = "resolving", !.asset = a]
      PROVE  LocksInv'
  <2>1. job'.asset = a /\ job'.made = job.made /\ job'.failure = job.failure
    BY <1>1, <1>7 DEF Fields
  <2>2. \E j \in DOMAIN assets : /\ assets[j].name # ""
                                 /\ a = [name |-> assets[j].name, suffix |-> assets[j].suffix,
                                         url |-> assets[j].url, size |-> Data[server[assets[j].url]].size]
    BY <1>7 DEF SelectReleaseAsset
  <2>3. HasName(a)
    <3>1. PICK j \in DOMAIN assets :
              /\ assets[j].name # ""
              /\ a = [name |-> assets[j].name, suffix |-> assets[j].suffix,
                      url |-> assets[j].url, size |-> Data[server[assets[j].url]].size]
      BY <2>2
    <3>2. a.name = assets[j].name
      BY <3>1
    <3> QED
      BY <3>1, <3>2 DEF HasName
  <2> QED
    BY <2>1, <2>3 DEF LocksInv, Unrecorded
<1>8. CASE Fail("asset") \/ Fail("io")
  BY <1>8, EndLocks DEF Fail
<1> QED
  BY <1>6, <1>7, <1>8

\* A record is added.
LEMMA ResolveRecordLocks ==
    ASSUME ToolAssumption, ToolInv, LocksInv, offers' = offers, ResolveRecord
    PROVE  LocksInv'
<1>0. DOMAIN job = Fields /\ offers \in DOMAIN Offers /\ Making /\ Asked /\ StoreInv
  BY DEF ToolInv, JobInv
<1>1. /\ job.pc = "resolving" /\ Answered /\ job.todo # {} /\ job.version \in RuntimeVersions
      /\ job.asset.url \in URLs /\ AssetAllowed(job.asset.size)
      /\ job.todo \subseteq Offering(job.version) /\ Offering(job.version) \subseteq DOMAIN Packages
  BY <1>0 DEF ResolveRecord, Making, Offering
<1>2. PICK i, bytes : i = First(job.todo) /\ bytes = call[Tool].bytes
  OBVIOUS
<1>3. i \in job.todo /\ i \in DOMAIN Packages
  BY <1>1, <1>2, FirstIsLeft
<1>4. PICK resolved : resolved = ResolveResourceRecord(Packages[i], Offered(i), job.asset, bytes)
  OBVIOUS
<1>5. \/ /\ bytes # None /\ resolved.ok
         /\ job' = [job EXCEPT !.pc = "resolve", !.todo = @ \ {i}, !.asset = Unset,
                               !.made = @ \union {resolved.record}]
      \/ Fail("asset") \/ Fail("io")
  BY <1>2, <1>4 DEF ResolveRecord
<1>6. ASSUME bytes # None, resolved.ok,
             job' = [job EXCEPT !.pc = "resolve", !.todo = @ \ {i}, !.asset = Unset,
                                !.made = @ \union {resolved.record}]
      PROVE  LocksInv'
  <2>1. Placing(Offered(i)) /\ HasName(Offered(i))
    <3>1. Offers[offers][job.version][i] # Unset
      BY <1>1, <1>3 DEF Offering
    <3> QED
      BY <1>0, <1>1, <1>3, <3>1, OfferAssumption DEF Placing, Offered, HasName, ToolAssumption
  <2>2. bytes \in DOMAIN Data
    <3>1. bytes \in seen[job.asset.url]
      BY <1>0, <1>1, <1>2, <1>6 DEF Asked, Waits, Answered
    <3> QED
      BY <1>0, <1>1, <3>1 DEF StoreInv, StoreTypeOK, ToolAssumption
  <2>3. PICK record : record = resolved.record
    OBVIOUS
  <2>4. Packages[i] \in Range(Packages) /\ HasName(job.asset)
    BY <1>1, <1>3 DEF Range, LocksInv
  <2>5. ~Odd(record) => Valid(record)
    BY <1>1, <1>4, <1>6, <2>1, <2>2, <2>3, <2>4, ResolvedIsValid
  <2>6. job'.pc = "resolve" /\ job'.made = job.made \union {record} /\ job'.failure = job.failure
    BY <1>0, <1>6, <2>3 DEF Fields
  <2>7. job.failure # "lock"
    <3>1. job.pc = "resolving" /\ Outcome
      BY <1>1 DEF ToolInv, JobInv
    <3>2. job.failure = ""
      BY <3>1 DEF Outcome
    <3> QED
      BY <3>2
  <2> QED
    BY <2>5, <2>6, <2>7 DEF LocksInv
<1>7. CASE Fail("asset") \/ Fail("io")
  BY <1>7, EndLocks DEF Fail
<1> QED
  BY <1>5, <1>6, <1>7

\* A resolution is written, or has an odd record.
LEMMA WriteLocks ==
    ASSUME ToolAssumption, ToolInv, LocksInv, offers' = offers, Write
    PROVE  LocksInv'
<1>1. DOMAIN job = Fields
  BY DEF ToolInv, JobInv
<1>2. CASE ~Accepted(job.made, TargetOf[offers]) /\ Fail("lock")
  <2>1. job'.pc = "close" /\ job'.made = job.made
    BY <1>1, <1>2 DEF Fail, End, Fields
  <2>2. Unrecorded \/ \E r \in job.made : Odd(r)
    <3>1. MaxRecords \in Nat /\ Cardinality(job.made) \in Nat
      BY RecordsAssumption, FS_CardinalityType DEF ToolInv, JobInv, Making
    <3> QED
      BY <1>2, <3>1 DEF LocksInv, Accepted, Unrecorded
  <2> QED
    BY <2>1, <2>2 DEF LocksInv, Unrecorded
<1>3. CASE job' = [job EXCEPT !.pc = "restore"]
  <2>1. job'.pc = "restore" /\ job'.made = job.made /\ job'.failure = job.failure
    BY <1>1, <1>3 DEF Fields
  <2> QED
    BY <2>1, LocksKept
<1> QED
  BY <1>2, <1>3 DEF Write

\* Every other step of the operation keeps what was made.
LEMMA OtherLocks ==
    ASSUME ToolAssumption, ToolInv, LocksInv, offers' = offers,
           BeginRestore \/ Fetch \/ Fetched \/ Install \/ CloseStore \/ Finish
    PROVE  LocksInv'
<1>1. DOMAIN job = Fields
  BY DEF ToolInv, JobInv
<1>2. CASE BeginRestore
  <2>1. \/ Fail("shared") \/ Fail("")
        \/ job' = [job EXCEPT !.pc = "fetch",
                              !.todo = {i \in DOMAIN Packages : \E r \in lock : r.package = Packages[i]}]
    BY <1>2 DEF BeginRestore
  <2>2. CASE Fail("shared") \/ Fail("")
    BY <2>2, EndLocks DEF Fail
  <2>3. CASE job' = [job EXCEPT !.pc = "fetch",
                              !.todo = {i \in DOMAIN Packages : \E r \in lock : r.package = Packages[i]}]
    <3>1. job'.pc = "fetch" /\ job'.made = job.made /\ job'.failure = job.failure
      BY <1>1, <2>3 DEF Fields
    <3> QED
      BY <3>1, LocksKept
  <2> QED
    BY <2>1, <2>2, <2>3
<1>3. CASE Fetch
  <2>1. job'.pc = "fetching" /\ job'.made = job.made /\ job'.failure = job.failure
    BY <1>1, <1>3 DEF Fetch, Fields
  <2> QED
    BY <2>1, LocksKept
<1>4. CASE Fetched
  <2>1. PICK result, i : \/ job' = [job EXCEPT !.pc = "fetch", !.todo = @ \ {i}, !.payload = Over(result.payload, @)]
                         \/ Fail("checksum") \/ Fail("io")
    BY <1>4 DEF Fetched
  <2>2. CASE Fail("checksum") \/ Fail("io")
    BY <2>2, EndLocks DEF Fail
  <2>3. CASE job' = [job EXCEPT !.pc = "fetch", !.todo = @ \ {i}, !.payload = Over(result.payload, @)]
    <3>1. job'.pc = "fetch" /\ job'.made = job.made /\ job'.failure = job.failure
      BY <1>1, <2>3 DEF Fields
    <3> QED
      BY <3>1, LocksKept
  <2> QED
    BY <2>1, <2>2, <2>3
<1>5. CASE Install
  <2>1. End("") \/ End("io")
    BY <1>5 DEF Install, Fail
  <2> QED
    BY <2>1, EndLocks
<1>6. CASE CloseStore
  <2>1. job'.pc = "closing" /\ job'.made = job.made /\ job'.failure = job.failure
    BY <1>1, <1>6 DEF CloseStore, Fields
  <2> QED
    BY <2>1, LocksKept
<1>7. CASE Finish
  <2>1. job'.pc = "idle" /\ job'.made = job.made /\ job'.failure = job.failure
    BY <1>1, <1>7 DEF Finish, Fields
  <2> QED
    BY <2>1, LocksKept
<1> QED
  BY <1>2, <1>3, <1>4, <1>5, <1>6, <1>7

\* Every step of the system.
LEMMA StepLocks ==
    ASSUME ToolAssumption, ToolInv, LocksInv, [Next]_vars
    PROVE  LocksInv'
<1>1. DOMAIN job = Fields /\ offers' = offers
  BY OffersStay DEF ToolInv, JobInv
<1>2. CASE \E version \in RuntimeVersions, resolves \in BOOLEAN : Begin(version, resolves)
  <2>1. PICK version, resolves : Begin(version, resolves)
    BY <1>2
  <2>2. job'.made = {} /\ job'.failure = "" /\ job'.pc # "resolving"
    BY <2>1 DEF Begin, NoJob
  <2> QED
    BY <2>2 DEF LocksInv
<1>3. CASE Step
  BY <1>1, <1>3, SelectLocks, ResolveRecordLocks, WriteLocks, OtherLocks DEF Step
<1>4. CASE UNCHANGED job
  BY <1>1, <1>4 DEF LocksInv, Unrecorded
<1>5. \/ \E version \in RuntimeVersions, resolves \in BOOLEAN : Begin(version, resolves)
      \/ Step \/ UNCHANGED job
  BY DEF Next, vars, tool, Serve, Share, Republish, LoadProject
<1> QED
  BY <1>2, <1>3, <1>4, <1>5

\* What ResolveResourceRecord accepts MarshalSampctlResources writes: a resolution
\* fails to be written only with a destination in two spellings, a file with the name
\* of a directory, or too many records or a target that is not spelled as the lock
\* wants it.  Whatever the archive, its sizes and their sum keep the limits of the
\* lock (resource_record.go:113, validate.go:118).
THEOREM ResolvedIsLocked == Spec => []ResolvedLocks
<1>1. Init => LocksInv
  <2> SUFFICES ASSUME Init
               PROVE  LocksInv
    OBVIOUS
  <2>1. job.made = {} /\ job.pc = "idle" /\ job.failure = "nothing ran"
    BY DEF Init, NoJob
  <2> QED
    BY <2>1 DEF LocksInv
<1>2. ToolInv /\ LocksInv /\ [Next]_vars => LocksInv'
  BY StepLocks, ToolAssumption
<1>3. LocksInv => ResolvedLocks
  BY DEF LocksInv, ResolvedLocks, Odd
<1> QED
  BY <1>1, <1>2, <1>3, ToolInvariant, PTL DEF Spec
=============================================================================
