------------------------ MODULE ToolchainStoreProofs ------------------------
(***************************************************************************)
(* The toolchain store for any vendors, versions, indexes, options and     *)
(* bytes: nothing is extracted outside of an entry, what a call stored is  *)
(* what the next one finds, and other entries stay.                        *)
(***************************************************************************)
EXTENDS ToolchainStore, TLAPS, SequenceTheorems, WellFoundedInduction

-----------------------------------------------------------------------------
\* A set of numbers has a least one.
LEMMA LeastExists ==
    ASSUME NEW s \in SUBSET Nat, s # {}
    PROVE  \E x \in s : \A y \in s : x <= y
<1>1. PICK x \in s : \A y \in s : ~ (<<y, x>> \in OpToRel(<, Nat))
  BY NatLessThanWellFounded, WFMin
<1>2. OpToRel(<, Nat) = {ss \in Nat \X Nat : ss[1] < ss[2]}
  BY Zenon DEF OpToRel
<1>3. \A y \in s : ~ (y < x)
  BY <1>1, <1>2
<1> QED
  BY <1>3

-----------------------------------------------------------------------------
(***************************************************************************)
(* Clean goes through a path by a recursive function.                      *)
(***************************************************************************)
Kept(f, n, path) ==
    f = [i \in 0 .. n |-> IF i = 0 THEN <<>> ELSE Push(IsAbs(path), f[i - 1], path[i])]

\* There is such a function for any length.
LEMMA KeptExists ==
    ASSUME NEW path, NEW n \in Nat
    PROVE  \E f : Kept(f, n, path)
<1> DEFINE bad == {m \in Nat : ~ \E f : Kept(f, m, path)}
<1>1. ASSUME bad # {}
      PROVE  FALSE
  <2>1. PICK m \in bad : \A x \in bad : m <= x
    BY <1>1, LeastExists
  <2>2. CASE m = 0
    <3>1. Kept([i \in 0 .. 0 |-> <<>>], 0, path)
      BY DEF Kept
    <3> QED
      BY <2>2, <3>1
  <2>3. CASE m # 0
    <3>1. m - 1 \in Nat /\ m - 1 \notin bad
      BY <2>1, <2>3
    <3>2. PICK f : Kept(f, m - 1, path)
      BY <3>1
    <3> DEFINE g == [i \in 0 .. m |-> IF i = m THEN Push(IsAbs(path), f[m - 1], path[m]) ELSE f[i]]
    <3>3. \A i \in 0 .. m : g[i] = IF i = 0 THEN <<>> ELSE Push(IsAbs(path), g[i - 1], path[i])
      <4> SUFFICES ASSUME NEW i \in 0 .. m
                   PROVE  g[i] = IF i = 0 THEN <<>> ELSE Push(IsAbs(path), g[i - 1], path[i])
        OBVIOUS
      <4>1. CASE i = m
        BY <2>3, <4>1
      <4>2. CASE i # m
        <5>1. i \in 0 .. m - 1 /\ f[i] = IF i = 0 THEN <<>> ELSE Push(IsAbs(path), f[i - 1], path[i])
          BY <3>1, <3>2, <4>2 DEF Kept
        <5>2. i # 0 => i - 1 \in 0 .. m /\ i - 1 # m
          BY <4>2
        <5> QED
          BY <5>1, <5>2, <4>2
      <4> QED
        BY <4>1, <4>2
    <3>4. Kept(g, m, path)
      BY <3>3 DEF Kept
    <3> QED
      BY <2>1, <3>4
  <2> QED
    BY <2>2, <2>3
<1> QED
  BY <1>1

\* What Clean keeps of a path, segment by segment.
LEMMA CleanKeeps ==
    ASSUME NEW path, IsPath(path)
    PROVE  \E f : /\ f[0] = <<>>
                  /\ \A i \in 1 .. Len(path) : f[i] = Push(IsAbs(path), f[i - 1], path[i])
                  /\ Clean(path) = Rooted(IsAbs(path), f[Len(path)])
<1> DEFINE n == Len(path)
           f == CHOOSE kept : Kept(kept, n, path)
<1>1. n \in Nat
  BY LenProperties
<1>2. Kept(f, n, path)
  BY <1>1, KeptExists
<1>3. Clean(path) = Rooted(IsAbs(path), f[n])
  BY DEF Clean, Kept
<1> HIDE DEF f
<1>4. f[0] = <<>>
  BY <1>1, <1>2 DEF Kept
<1>5. \A i \in 1 .. n : f[i] = Push(IsAbs(path), f[i - 1], path[i])
  <2> SUFFICES ASSUME NEW i \in 1 .. n
               PROVE  f[i] = Push(IsAbs(path), f[i - 1], path[i])
    OBVIOUS
  <2>1. i \in 0 .. n /\ i # 0
    BY <1>1
  <2> QED
    BY <2>1, <1>2 DEF Kept
<1> QED
  BY <1>3, <1>4, <1>5

\* What is left without its last segment.
LEMMA FrontIs ==
    ASSUME NEW S, NEW s \in Seq(S), s # <<>>
    PROVE  /\ Front(s) \in Seq(S) /\ Len(Front(s)) = Len(s) - 1 /\ Len(s) \in Nat
           /\ \A i \in 1 .. Len(s) - 1 : Front(s)[i] = s[i]
<1>1. Len(s) \in Nat /\ Len(s) # 0
  BY LenProperties, EmptySeq
<1>2. 1 \in Int /\ Len(s) - 1 \in Int /\ \A i \in 1 .. Len(s) - 1 : s[i] \in S
  BY <1>1, ElementOfSeq
<1>3. /\ SubSeq(s, 1, Len(s) - 1) \in Seq(S)
      /\ Len(SubSeq(s, 1, Len(s) - 1)) = IF 1 <= Len(s) - 1 THEN Len(s) - 1 - 1 + 1 ELSE 0
      /\ \A i \in 1 .. Len(s) - 1 - 1 + 1 : SubSeq(s, 1, Len(s) - 1)[i] = s[1 + i - 1]
  BY <1>2, SubSeqProperties
<1>4. /\ Len(s) - 1 - 1 + 1 = Len(s) - 1 /\ (~ (1 <= Len(s) - 1) => Len(s) - 1 = 0)
      /\ \A i \in 1 .. Len(s) - 1 : 1 + i - 1 = i
  <2> DEFINE n == Len(s)
  <2>1. n \in Nat /\ n # 0
    BY <1>1
  <2> HIDE DEF n
  <2>2. /\ n - 1 - 1 + 1 = n - 1 /\ (~ (1 <= n - 1) => n - 1 = 0)
        /\ \A i \in 1 .. n - 1 : 1 + i - 1 = i
    BY <2>1
  <2> QED
    BY <2>2 DEF n
<1> QED
  BY <1>1, <1>3, <1>4 DEF Front

\* What is left and one segment more.
LEMMA AppendIs ==
    ASSUME NEW S, NEW out \in Seq(S), NEW segment \in S
    PROVE  /\ Append(out, segment) \in Seq(S) /\ Len(Append(out, segment)) = Len(out) + 1
           /\ \A i \in 1 .. Len(out) : Append(out, segment)[i] = out[i]
           /\ Append(out, segment)[Len(out) + 1] = segment /\ Len(out) \in Nat
           /\ DOMAIN out = 1 .. Len(out) /\ DOMAIN Append(out, segment) = 1 .. Len(out) + 1
BY AppendProperties, LenProperties

\* No segment is added that is not in the path, and none that is empty or ".".
LEMMA PushSegments ==
    ASSUME NEW S, NEW abs \in BOOLEAN, NEW out \in Seq(S), NEW segment \in S
    PROVE  /\ Push(abs, out, segment) \in Seq(S)
           /\ Range(Push(abs, out, segment)) \subseteq Range(out) \union ({segment} \ {"", "."})
<1>1. /\ Append(out, segment) \in Seq(S)
      /\ segment \notin {"", "."} =>
             Range(Append(out, segment)) \subseteq Range(out) \union ({segment} \ {"", "."})
  <2>1. \A i \in 1 .. Len(out) + 1 : i \in 1 .. Len(out) \/ i = Len(out) + 1
    BY AppendIs
  <2> DEFINE new == Append(out, segment)
  <2>2. /\ new \in Seq(S) /\ \A i \in 1 .. Len(out) : new[i] = out[i]
        /\ new[Len(out) + 1] = segment
        /\ DOMAIN out = 1 .. Len(out) /\ DOMAIN new = 1 .. Len(out) + 1
    BY AppendIs
  <2> HIDE DEF new
  <2>3. segment \notin {"", "."} => Range(new) \subseteq Range(out) \union ({segment} \ {"", "."})
    BY <2>1, <2>2 DEF Range
  <2> QED
    BY <2>2, <2>3 DEF new
<1>2. ASSUME out # <<>>
      PROVE  Front(out) \in Seq(S) /\ Range(Front(out)) \subseteq Range(out)
  <2>1. /\ Front(out) \in Seq(S) /\ Len(Front(out)) = Len(out) - 1 /\ Len(out) \in Nat
        /\ \A i \in 1 .. Len(out) - 1 : Front(out)[i] = out[i]
    BY <1>2, FrontIs
  <2>2. DOMAIN Front(out) = 1 .. Len(out) - 1 /\ DOMAIN out = 1 .. Len(out)
    BY <2>1, LenProperties
  <2> QED
    BY <2>1, <2>2 DEF Range
<1>3. CASE segment \in {"", "."}
  BY <1>3 DEF Push
<1>4. CASE segment = ".." /\ out # <<>> /\ Last(out) # ".."
  BY <1>2, <1>4 DEF Push
<1>5. CASE segment = ".." /\ out = <<>> /\ abs
  BY <1>5 DEF Push
<1>6. CASE /\ segment \notin {"", "."} /\ ~ (segment = ".." /\ out # <<>> /\ Last(out) # "..")
           /\ ~ (segment = ".." /\ out = <<>> /\ abs)
  <2>1. Push(abs, out, segment) = Append(out, segment)
    BY <1>6 DEF Push
  <2> QED
    BY <1>1, <1>6, <2>1
<1> QED
  BY <1>3, <1>4, <1>5, <1>6

\* In a relative path ".." is kept at the front only.
Leads(out) == ".." \in Range(out) => out # <<>> /\ out[1] = ".."

LEMMA PushLeads ==
    ASSUME NEW S, NEW out \in Seq(S), NEW segment \in S, Leads(out)
    PROVE  Leads(Push(FALSE, out, segment))
<1>1. Len(out) \in Nat /\ DOMAIN out = 1 .. Len(out) /\ (out # <<>> <=> Len(out) # 0)
  BY LenProperties, EmptySeq
<1>2. CASE segment \in {"", "."}
  BY <1>2 DEF Push
<1>3. CASE segment = ".." /\ out # <<>> /\ Last(out) # ".."
  <2>1. Push(FALSE, out, segment) = Front(out)
    BY <1>3 DEF Push
  <2>2. /\ Front(out) \in Seq(S) /\ Len(Front(out)) = Len(out) - 1
        /\ \A i \in 1 .. Len(out) - 1 : Front(out)[i] = out[i]
    BY <1>3, FrontIs
  <2>3. DOMAIN Front(out) = 1 .. Len(out) - 1
    BY <2>2, LenProperties
  <2>4. ASSUME NEW i \in 1 .. Len(out) - 1, Front(out)[i] = ".."
        PROVE  Front(out) # <<>> /\ Front(out)[1] = ".."
    <3>1. i \in 1 .. Len(out) /\ out[i] = ".."
      BY <2>2, <2>4, <1>1
    <3>2. out[1] = ".."
      BY <3>1, <1>1 DEF Leads, Range
    <3>3. 1 \in 1 .. Len(out) - 1
      BY <1>1
    <3> QED
      BY <2>2, <2>3, <3>2, <3>3, EmptySeq
  <2> QED
    BY <2>1, <2>3, <2>4 DEF Leads, Range
<1>4. CASE segment \notin {"", "."} /\ ~ (segment = ".." /\ out # <<>> /\ Last(out) # "..")
  <2>1. Push(FALSE, out, segment) = Append(out, segment)
    BY <1>4 DEF Push
  <2>2. /\ Append(out, segment) \in Seq(S) /\ Len(Append(out, segment)) = Len(out) + 1
        /\ \A i \in 1 .. Len(out) : Append(out, segment)[i] = out[i]
        /\ Append(out, segment)[Len(out) + 1] = segment
    BY AppendIs
  <2>3. DOMAIN Append(out, segment) = 1 .. Len(out) + 1
    BY AppendIs
  <2>4. ASSUME NEW i \in 1 .. Len(out) + 1, Append(out, segment)[i] = ".."
        PROVE  Append(out, segment)[1] = ".."
    <3>1. CASE Len(out) = 0
      BY <3>1, <2>2, <2>4
    <3>2. CASE Len(out) # 0 /\ i \in 1 .. Len(out)
      <4>1. out[i] = ".." /\ 1 \in 1 .. Len(out)
        BY <3>2, <2>2, <2>4, <1>1
      <4>2. out[1] = ".."
        BY <4>1, <3>2, <1>1 DEF Leads, Range
      <4> QED
        BY <4>1, <4>2, <2>2
    <3>3. CASE Len(out) # 0 /\ i = Len(out) + 1
      <4>1. Last(out) = ".." /\ out # <<>>
        BY <3>3, <2>2, <2>4, <1>1, <1>4
      <4>2. Len(out) \in DOMAIN out /\ out[Len(out)] = ".."
        BY <4>1, <3>3, <1>1 DEF Last
      <4>3. out[1] = ".." /\ 1 \in 1 .. Len(out)
        BY <4>2, <3>3, <1>1 DEF Leads, Range
      <4> QED
        BY <4>3, <2>2
    <3> QED
      BY <3>1, <3>2, <3>3, <1>1
  <2>5. Append(out, segment) # <<>>
    <3>1. Len(out) + 1 # 0
      BY <1>1
    <3> QED
      BY <2>2, <3>1, EmptySeq
  <2> QED
    BY <2>1, <2>3, <2>4, <2>5 DEF Leads, Range
<1> QED
  BY <1>2, <1>3, <1>4

\* A path of one segment.
LEMMA OneSegment ==
    ASSUME NEW x
    PROVE  IsPath(<<x>>) /\ Range(<<x>>) = {x} /\ ~IsAbs(<<x>>)
<1>1. <<x>> \in Seq({x}) /\ Len(<<x>>) = 1 /\ DOMAIN <<x>> = {1} /\ <<x>>[1] = x
  OBVIOUS
<1>2. Range(<<x>>) = {x}
  BY <1>1 DEF Range
<1> QED
  BY <1>1, <1>2 DEF IsAbs, IsPath

\* What Clean leaves of a path: some of its segments, and ".." at the front only.
Left(path, out) ==
    /\ out \in Seq(Range(path)) /\ Range(out) \subseteq Range(path) \ {"", "."}
    /\ ~IsAbs(path) => Leads(out)

LEMMA CleanIs ==
    ASSUME NEW path, IsPath(path)
    PROVE  \E out \in Seq(Range(path)) :
               /\ Clean(path) = Rooted(IsAbs(path), out)
               /\ Range(out) \subseteq Range(path) \ {"", "."}
               /\ ~IsAbs(path) => Leads(out)
<1> DEFINE n == Len(path)
<1>1. n \in Nat /\ DOMAIN path = 1 .. n /\ IsAbs(path) \in BOOLEAN
  BY LenProperties DEF IsAbs, IsPath
<1>2. PICK f : /\ f[0] = <<>>
               /\ \A i \in 1 .. n : f[i] = Push(IsAbs(path), f[i - 1], path[i])
               /\ Clean(path) = Rooted(IsAbs(path), f[n])
  BY CleanKeeps
<1> DEFINE bad == {i \in 0 .. n : ~Left(path, f[i])}
<1>3. ASSUME bad # {}
      PROVE  FALSE
  <2>1. bad \in SUBSET Nat
    BY <1>1
  <2>2. PICK i \in bad : \A x \in bad : i <= x
    BY <1>3, <2>1, LeastExists
  <2>3. Left(path, <<>>)
    <3>1. <<>> \in Seq(Range(path)) /\ Range(<<>>) = {}
      BY EmptySeq, LenProperties DEF Range
    <3> QED
      BY <3>1 DEF Left, Leads
  <2>4. i # 0
    BY <1>2, <2>2, <2>3
  <2>5. i - 1 \in 0 .. n /\ i \in 1 .. n /\ i - 1 \notin bad
    BY <1>1, <2>2, <2>4
  <2>6. Left(path, f[i - 1])
    BY <2>5
  <2> DEFINE out == f[i - 1]
  <2>7. path[i] \in Range(path)
    BY <1>1, <2>5, ElementOfSeq DEF Range
  <2>8. f[i] = Push(IsAbs(path), out, path[i])
    BY <1>2, <2>5
  <2> HIDE DEF out
  <2>9. /\ Push(IsAbs(path), out, path[i]) \in Seq(Range(path))
        /\ Range(Push(IsAbs(path), out, path[i])) \subseteq Range(out) \union ({path[i]} \ {"", "."})
    <3> DEFINE abs == IsAbs(path)
               S == Range(path)
    <3>1. out \in Seq(S)
      BY <2>6 DEF out, Left
    <3>2. abs \in BOOLEAN /\ path[i] \in S
      BY <2>7 DEF IsAbs
    <3> HIDE DEF abs, S
    <3>3. /\ Push(abs, out, path[i]) \in Seq(S)
          /\ Range(Push(abs, out, path[i])) \subseteq Range(out) \union ({path[i]} \ {"", "."})
      BY <3>1, <3>2, PushSegments
    <3> QED
      BY <3>3 DEF abs, S
  <2>10. ~IsAbs(path) => Leads(Push(IsAbs(path), out, path[i]))
    <3>1. ASSUME ~IsAbs(path)
          PROVE  Leads(Push(FALSE, out, path[i]))
      BY <3>1, <2>6, <2>7, PushLeads DEF out, Left
    <3>2. ~IsAbs(path) => IsAbs(path) = FALSE
      BY <1>1
    <3> QED
      BY <3>1, <3>2
  <2>11. Left(path, f[i])
    BY <2>6, <2>7, <2>8, <2>9, <2>10 DEF out, Left
  <2> QED
    BY <2>2, <2>11
<1>4. Left(path, f[n])
  <2>1. n \in 0 .. n
    BY <1>1
  <2> QED
    BY <1>3, <2>1
<1> QED
  BY <1>2, <1>4 DEF Left

\* A relative path with no ".." in it is safe.
LEMMA WithoutUpIsSafe ==
    ASSUME NEW path, IsPath(path), ~IsAbs(path), ".." \notin Range(path)
    PROVE  Safe(path)
<1>1. PICK out \in Seq(Range(path)) : /\ Clean(path) = Rooted(IsAbs(path), out)
                               /\ Range(out) \subseteq Range(path) \ {"", "."}
  BY CleanIs
<1>2. CASE out = <<>>
  <2>1. Clean(path) = <<".">>
    BY <1>1, <1>2 DEF Rooted
  <2> QED
    BY <2>1 DEF Safe, HasTraversal
<1>3. CASE out # <<>>
  <2>1. Clean(path) = out
    BY <1>1, <1>3 DEF Rooted
  <2>2. 1 \in DOMAIN out
    <3>1. Len(out) \in Nat /\ DOMAIN out = 1 .. Len(out) /\ Len(out) # 0
      BY <1>3, LenProperties, EmptySeq
    <3> QED
      BY <3>1
  <2>3. out[1] \in Range(out)
    BY <2>2 DEF Range
  <2> QED
    BY <1>1, <2>1, <2>3 DEF Safe, HasTraversal
<1> QED
  BY <1>2, <1>3

\* What a safe path cleans to is safe, although the archive is checked before it is
\* cleaned and the entry is written after (archive.go).
LEMMA CleanIsSafe ==
    ASSUME NEW path, IsPath(path), Safe(path)
    PROVE  Safe(Clean(path))
<1>1. ~IsAbs(path) /\ Clean(path)[1] # ".."
  BY DEF Safe, HasTraversal
<1>2. PICK out \in Seq(Range(path)) : /\ Clean(path) = Rooted(IsAbs(path), out)
                               /\ Range(out) \subseteq Range(path) \ {"", "."}
                               /\ Leads(out)
  BY <1>1, CleanIs
<1>3. CASE out = <<>>
  <2>1. Clean(path) = <<".">>
    BY <1>1, <1>2, <1>3 DEF Rooted
  <2>2. IsPath(<<".">>) /\ ~IsAbs(<<".">>) /\ ".." \notin Range(<<".">>)
    BY OneSegment
  <2> QED
    BY <2>1, <2>2, WithoutUpIsSafe
<1>4. CASE out # <<>>
  <2>1. Clean(path) = out
    BY <1>1, <1>2, <1>4 DEF Rooted
  <2>2. ".." \notin Range(out)
    BY <1>1, <1>2, <2>1 DEF Leads
  <2>3. 1 \in DOMAIN out
    <3>1. Len(out) \in Nat /\ DOMAIN out = 1 .. Len(out) /\ Len(out) # 0
      BY <1>4, LenProperties, EmptySeq
    <3> QED
      BY <3>1
  <2>4. out[1] # ""
    BY <1>2, <2>3 DEF Range
  <2>5. ~IsAbs(out)
    BY <2>4 DEF IsAbs
  <2>6. IsPath(out)
    BY SeqOfRange DEF IsPath
  <2> QED
    BY <2>1, <2>2, <2>5, <2>6, WithoutUpIsSafe
<1> QED
  BY <1>3, <1>4

-----------------------------------------------------------------------------
(***************************************************************************)
(* What is put into an entry.                                              *)
(***************************************************************************)
\* The paths a caller or an index gives are paths.
Asked(opts) == IsPath(opts.path)

\* The files that were unpacked, and the compiler among them.
Good(installed) ==
    /\ \A p \in DOMAIN installed.files : Safe(p)
    /\ \A b \in installed.compilers : Clean(b) \in DOMAIN installed.files

LEMMA MetadataIsSafe == Safe(MetadataFile)
<1>1. IsPath(MetadataFile) /\ ~IsAbs(MetadataFile) /\ ".." \notin Range(MetadataFile)
  BY OneSegment DEF MetadataFile
<1> QED
  BY <1>1, WithoutUpIsSafe

\* Names are checked before anything is written (extractZip, extractTarEntry), whatever
\* the archive says of their kind.
LEMMA UnpackedIsGood ==
    ASSUME NEW format, NEW bytes \in DOMAIN Data, NEW path, Unpacked(format, bytes, path).ok
    PROVE  Good(Unpacked(format, bytes, path))
<1> DEFINE entries == Data[bytes].entries
           names == {Clean(entries[i].name) : i \in Extracted(entries)}
<1>1. /\ Unpacked(format, bytes, path).files = Contents(entries)
      /\ Unpacked(format, bytes, path).compilers = Compilers(entries, path)
      /\ IF format = "zip" THEN ZipAccepts(entries) ELSE TarAccepts(entries)
  BY DEF Unpacked, Extract
<1>2. Extracted(entries) \subseteq DOMAIN entries
  BY DEF Extracted
<1>3. \A i \in Extracted(entries) : Safe(entries[i].name) /\ IsPath(entries[i].name)
  BY <1>1, <1>2, StoreAssumption DEF ZipAccepts, TarAccepts
<1>4. \A i \in Extracted(entries) : Safe(Clean(entries[i].name))
  BY <1>3, CleanIsSafe
<1>5. DOMAIN Contents(entries) = names
  BY DEF Contents
<1>6. \A b \in Compilers(entries, path) : \E i \in Extracted(entries) : b = entries[i].name
  BY DEF Compilers, First
<1> QED
  BY <1>1, <1>4, <1>5, <1>6 DEF Good

LEMMA InstalledIsGood ==
    ASSUME NEW bytes \in DOMAIN Data, NEW opts, Asked(opts),
           InstallDownloadedArtifact(bytes, opts).ok
    PROVE  Good(InstallDownloadedArtifact(bytes, opts))
<1> DEFINE format == Format(bytes, opts)
<1> HIDE DEF format
<1>1. CASE format = "raw"
  <2> DEFINE binary == IF opts.path = <<"">> THEN <<"pawncc">> ELSE opts.path
             raw == Raw(bytes, opts.path)
  <2>1. InstallDownloadedArtifact(bytes, opts) = raw
    BY <1>1 DEF InstallDownloadedArtifact, format
  <2>2. raw.ok => Safe(binary)
    BY DEF Raw
  <2>3. DOMAIN raw.files = {Clean(binary)} /\ raw.compilers = {binary}
    BY DEF Raw
  <2>4. IsPath(binary)
    BY OneSegment DEF Asked
  <2> HIDE DEF binary, raw
  <2> QED
    BY <2>1, <2>2, <2>3, <2>4, CleanIsSafe DEF Good
<1>2. CASE format \in {"zip", "tar.gz"}
  <2>1. InstallDownloadedArtifact(bytes, opts) = Unpacked(format, bytes, opts.path)
    BY <1>2 DEF InstallDownloadedArtifact, format
  <2> QED
    BY <2>1, UnpackedIsGood
<1>3. CASE format \notin {"raw", "zip", "tar.gz"}
  BY <1>3 DEF InstallDownloadedArtifact, format
<1> QED
  BY <1>1, <1>2, <1>3

\* The entry is the one of the call, and its compiler the one of its metadata.
Matches(entry, opts) ==
    /\ entry.meta.vendor = opts.vendor /\ entry.meta.version = opts.version
    /\ entry.meta.path \in DOMAIN entry.files
    /\ entry.meta.path # MetadataFile => entry.files[entry.meta.path] = entry.meta.checksum
    /\ opts.checksum \in {"", entry.meta.artifact, entry.meta.checksum}

\* The entry that is written, of bytes that were checked.
LEMMA EntriesAreGood ==
    ASSUME NEW bytes \in DOMAIN Data, NEW opts, Asked(opts), Downloaded(bytes, opts),
           NEW entry \in Entries(bytes, opts)
    PROVE  /\ Placeable(DOMAIN entry.files)
           /\ \A p \in DOMAIN entry.files : Safe(p)
           /\ Matches(entry, opts)
<1> DEFINE installed == InstallDownloadedArtifact(bytes, opts)
           files == installed.files
<1>1. installed.ok /\ Placeable({MetadataFile} \union DOMAIN files)
  BY DEF Entries
<1>2. PICK binary \in installed.compilers :
          entry = [files |-> Put(MetadataFile, "metadata", files),
                   meta |-> Metadata(opts, Clean(binary), files[Clean(binary)], bytes)]
  BY <1>1 DEF Entries
<1>3. Good(installed)
  BY <1>1, InstalledIsGood
<1> HIDE DEF installed
<1>4. /\ entry.files = Put(MetadataFile, "metadata", files)
      /\ entry.meta = Metadata(opts, Clean(binary), files[Clean(binary)], bytes)
  BY <1>2
<1>5. DOMAIN entry.files = {MetadataFile} \union DOMAIN files
  BY <1>4 DEF Put
<1>6. Clean(binary) \in DOMAIN files /\ \A p \in DOMAIN files : Safe(p)
  BY <1>3 DEF Good
<1>7. \A p \in DOMAIN entry.files : Safe(p)
  BY <1>5, <1>6, MetadataIsSafe
<1>8. /\ entry.meta.vendor = opts.vendor /\ entry.meta.version = opts.version
      /\ entry.meta.path = Clean(binary) /\ entry.meta.checksum = files[Clean(binary)]
      /\ entry.meta.artifact = bytes
  BY <1>4 DEF Metadata
<1>9. Clean(binary) # MetadataFile => entry.files[Clean(binary)] = files[Clean(binary)]
  BY <1>4, <1>6 DEF Put
<1>10. opts.checksum \in {"", bytes}
  BY DEF Downloaded
<1>11. Matches(entry, opts)
  BY <1>5, <1>6, <1>8, <1>9, <1>10 DEF Matches
<1> QED
  BY <1>1, <1>5, <1>7, <1>11

-----------------------------------------------------------------------------
(***************************************************************************)
(* The steps of a call, and what each leaves.                              *)
(***************************************************************************)
\* A call returns, with nothing that is in the cache.
Gone(c) ==
    /\ UNCHANGED cache
    /\ last'.status \notin {"stored", "cached"}
    /\ waiting' = Without(waiting, {c})

\* A call goes on to its download; it has seen no entry there.
Waits(c) == \E call, opts : Asked(opts) /\ Wait(c, call, opts, {})

Begins(c) == Gone(c) \/ Waits(c) \/ \E opts : Hit(c, opts)

\* A call stores what it was served.
Stores(c) ==
    /\ c \in DOMAIN waiting
    /\ \E bytes \in DOMAIN Data : StoreFromDownload(c, waiting[c].call, waiting[c].opts, bytes)

LEMMA FailIs ==
    ASSUME NEW c, NEW status, status \notin {"stored", "cached"}, Fail(c, status)
    PROVE  Gone(c)
<1>1. last'.status = status
  BY DEF Fail, Nothing
<1> QED
  BY <1>1 DEF Fail, Gone

LEMMA LocalIs ==
    ASSUME NEW c, NEW call, NEW opts, ResolveLocal(c, call, opts)
    PROVE  Gone(c)
<1>1. CASE Fail(c, "io")
  BY <1>1, FailIs
<1>2. CASE Fail(c, "mismatch")
  BY <1>2, FailIs
<1>3. CASE UNCHANGED cache /\ \E info : Return(c, call, opts, "local", info)
  <2>1. last'.status = "local" /\ waiting' = Without(waiting, {c})
    BY <1>3 DEF Return
  <2> QED
    BY <1>3, <2>1 DEF Gone
<1> QED
  BY <1>1, <1>2, <1>3 DEF ResolveLocal

LEMMA ResolveIs ==
    ASSUME NEW c, NEW opts, Asked(opts), Resolve(c, opts)
    PROVE  Begins(c)
<1>1. CASE ResolveLocal(c, "resolve", opts)
  BY <1>1, LocalIs DEF Begins
<1>2. CASE Fail(c, "invalid")
  BY <1>2, FailIs DEF Begins
<1>3. CASE Find(c, opts)
  <2>1. CASE Hit(c, opts)
    BY <2>1 DEF Begins
  <2>2. CASE Fail(c, "mismatch")
    BY <2>2, FailIs DEF Begins
  <2>3. CASE Fail(c, "offline")
    BY <2>3, FailIs DEF Begins
  <2>4. CASE ~Cached(opts) /\ Wait(c, "resolve", opts, Seen(opts))
    <3>1. Seen(opts) = {}
      BY <2>4 DEF Seen, Cached
    <3> QED
      BY <2>4, <3>1 DEF Begins, Waits
  <2> QED
    BY <1>3, <2>1, <2>2, <2>3, <2>4 DEF Find
<1> QED
  BY <1>1, <1>2, <1>3 DEF Resolve

LEMMA UpdateIs ==
    ASSUME NEW c, NEW opts, Asked(opts), Update(c, opts)
    PROVE  Begins(c)
<1>1. CASE ResolveLocal(c, "update", opts)
  BY <1>1, LocalIs DEF Begins
<1>2. CASE Fail(c, "invalid")
  BY <1>2, FailIs DEF Begins
<1>3. CASE Wait(c, "update", opts, {})
  BY <1>3 DEF Begins, Waits
<1> QED
  BY <1>1, <1>2, <1>3 DEF Update

\* What an index has is asked for with the paths of the index.
LEMMA ReviewedIsAsked ==
    ASSUME NEW index \in Indexes, NEW vendor, NEW version, NEW target,
           NEW a \in Selected(index, vendor, version, target), NEW offline
    PROVE  Asked(ResolveOptions(a, offline))
<1>1. PICK i \in DOMAIN index : a = index[i]
  BY DEF Selected
<1>2. ResolveOptions(a, offline).path = a.path
  BY DEF ResolveOptions
<1>3. IsPath(a.path)
  BY <1>1, StoreAssumption
<1> QED
  BY <1>2, <1>3 DEF Asked

LEMMA BeginIs ==
    ASSUME NEW c, Begin(c)
    PROVE  Begins(c)
<1>1. ASSUME NEW opts \in Options, Resolve(c, opts) \/ Update(c, opts)
      PROVE  Begins(c)
  <2>1. Asked(opts)
    BY StoreAssumption DEF Asked
  <2> QED
    BY <1>1, <2>1, ResolveIs, UpdateIs
<1>2. ASSUME NEW index \in Indexes, NEW vendor \in Vendors, NEW version \in Versions,
             NEW target \in Targets, NEW offline \in BOOLEAN,
             ResolveReviewed(c, index, vendor, version, target, offline)
      PROVE  Begins(c)
  <2>1. PICK a \in Selected(index, vendor, version, target) : Resolve(c, ResolveOptions(a, offline))
    BY <1>2 DEF ResolveReviewed
  <2> DEFINE opts == ResolveOptions(a, offline)
  <2>2. Asked(opts)
    BY ReviewedIsAsked
  <2> HIDE DEF opts
  <2> QED
    BY <2>1, <2>2, ResolveIs DEF opts
<1>3. ASSUME NEW index \in Indexes, NEW vendor \in Vendors, NEW version \in Versions,
             NEW target \in Targets, UpdateReviewed(c, index, vendor, version, target)
      PROVE  Begins(c)
  <2>1. PICK a \in Selected(index, vendor, version, target) : Update(c, ResolveOptions(a, FALSE))
    BY <1>3 DEF UpdateReviewed
  <2> DEFINE opts == ResolveOptions(a, FALSE)
  <2>2. Asked(opts)
    BY ReviewedIsAsked
  <2> HIDE DEF opts
  <2> QED
    BY <2>1, <2>2, UpdateIs DEF opts
<1> QED
  BY <1>1, <1>2, <1>3 DEF Begin

LEMMA DownloadIs ==
    ASSUME NEW c \in DOMAIN waiting, Download(c)
    PROVE  Gone(c) \/ Stores(c)
<1>1. CASE Fail(c, "no url")
  BY <1>1, FailIs
<1>2. CASE Fail(c, "io")
  BY <1>2, FailIs
<1>3. CASE \E bytes \in DOMAIN Data : StoreFromDownload(c, waiting[c].call, waiting[c].opts, bytes)
  BY <1>3 DEF Stores
<1> QED
  BY <1>1, <1>2, <1>3 DEF Download

\* A step begins a call or ends one.
LEMMA NextIs ==
    ASSUME Next
    PROVE  \E c : Begins(c) \/ Stores(c)
BY BeginIs, DownloadIs DEF Next, Begins

-----------------------------------------------------------------------------
(***************************************************************************)
(* The theorems.                                                           *)
(***************************************************************************)
\* A directory of the cache after a call is the entry that was stored or was there.
LEMMA DirsAre ==
    ASSUME NEW opts, NEW entry, NEW dirs,
           cache' = Put(EntryDir(opts), entry, Without(cache, dirs)),
           NEW d \in DOMAIN cache'
    PROVE  \/ d = EntryDir(opts) /\ cache'[d] = entry
           \/ d \in DOMAIN cache /\ cache'[d] = cache[d]
<1> DEFINE new == Put(EntryDir(opts), entry, Without(cache, dirs))
<1>1. DOMAIN new = (DOMAIN cache \ dirs) \union {EntryDir(opts)}
  BY DEF Put, Without
<1>2. new[d] = IF d = EntryDir(opts) THEN entry ELSE Without(cache, dirs)[d]
  BY <1>1 DEF Put
<1>3. \A x \in DOMAIN cache \ dirs : Without(cache, dirs)[x] = cache[x]
  BY DEF Without
<1> QED
  BY <1>1, <1>2, <1>3

\* The entry that is stored is what the next call finds.
LEMMA StoredIsFound ==
    ASSUME NEW opts, NEW entry, NEW dirs,
           cache' = Put(EntryDir(opts), entry, Without(cache, dirs))
    PROVE  EntryDir(opts) \in DOMAIN cache' /\ cache'[EntryDir(opts)] = entry
BY DEF Put, Without

\* Calls that wait have seen no entry, and what they ask for is well-formed.
WaitersSawNothing ==
    \A c \in DOMAIN waiting : Asked(waiting[c].opts) /\ waiting[c].seen = {}

LEMMA WaitersStep ==
    ASSUME WaitersSawNothing, NEW c, Begins(c) \/ Stores(c)
    PROVE  WaitersSawNothing'
<1>1. CASE waiting' = Without(waiting, {c})
  BY <1>1 DEF WaitersSawNothing, Without
<1>2. CASE Waits(c)
  <2>1. PICK call, opts : Asked(opts) /\ Wait(c, call, opts, {})
    BY <1>2 DEF Waits
  <2> DEFINE own == [call |-> call, opts |-> opts, seen |-> {}]
  <2>2. waiting' = Put(c, own, waiting)
    BY <2>1 DEF Wait
  <2>3. own.opts = opts /\ own.seen = {}
    OBVIOUS
  <2> HIDE DEF own
  <2> QED
    BY <2>1, <2>2, <2>3 DEF WaitersSawNothing, Put
<1>3. CASE (\E opts : Hit(c, opts)) \/ Gone(c) \/ Stores(c)
  <2>1. waiting' = Without(waiting, {c})
    BY <1>3 DEF Hit, Gone, Stores, StoreFromDownload, Fail, Return
  <2> QED
    BY <1>1, <2>1
<1> QED
  BY <1>2, <1>3 DEF Begins

EntriesInside(entries) ==
    \A d \in DOMAIN entries :
        /\ Placeable(DOMAIN entries[d].files)
        /\ \A p \in DOMAIN entries[d].files : Safe(p)

LEMMA InsideStep ==
    ASSUME EntriesInside(cache), WaitersSawNothing, NEW c, Begins(c) \/ Stores(c)
    PROVE  EntriesInside(cache')
<1>1. CASE UNCHANGED cache
  BY <1>1 DEF EntriesInside
<1>2. ASSUME NEW dirs, cache' = Without(cache, dirs)
      PROVE  EntriesInside(cache')
  BY <1>2 DEF EntriesInside, Without
<1>3. ASSUME NEW opts, Asked(opts), NEW bytes \in DOMAIN Data, Downloaded(bytes, opts),
             NEW entry \in Entries(bytes, opts),
             cache' = Put(EntryDir(opts), entry, Without(cache, {StagingDir(opts), BackupDir(opts)}))
      PROVE  EntriesInside(cache')
  <2>1. Placeable(DOMAIN entry.files) /\ \A p \in DOMAIN entry.files : Safe(p)
    BY <1>3, EntriesAreGood
  <2>2. \A d \in DOMAIN cache' : \/ cache'[d] = entry
                                 \/ d \in DOMAIN cache /\ cache'[d] = cache[d]
    BY <1>3, DirsAre
  <2> QED
    BY <2>1, <2>2 DEF EntriesInside
<1>4. CASE Begins(c)
  BY <1>1, <1>4 DEF Begins, Gone, Waits, Wait, Hit
<1>5. CASE Stores(c)
  <2>1. PICK bytes \in DOMAIN Data :
            StoreFromDownload(c, waiting[c].call, waiting[c].opts, bytes)
    BY <1>5 DEF Stores
  <2>2. Asked(waiting[c].opts)
    BY <1>5 DEF Stores, WaitersSawNothing
  <2> QED
    BY <1>1, <1>2, <1>3, <2>1, <2>2 DEF StoreFromDownload, Fail
<1> QED
  BY <1>4, <1>5

\* What was returned is in the cache as it is.
ReturnedIsThere(returned, entries) ==
    returned.status \in {"stored", "cached"} =>
        \A opts \in returned.opts :
            returned.info.path # MetadataFile =>
                /\ EntryDir(opts) \in DOMAIN entries
                /\ entries[EntryDir(opts)].meta = returned.info
                /\ LET entry == entries[EntryDir(opts)]
                   IN /\ entry.meta.vendor = opts.vendor /\ entry.meta.version = opts.version
                      /\ entry.meta.path \in DOMAIN entry.files
                      /\ entry.files[entry.meta.path] = entry.meta.checksum
                      /\ opts.checksum \in {"", entry.meta.artifact, entry.meta.checksum}

LEMMA ReturnedStep ==
    ASSUME ReturnedIsThere(last, cache), WaitersSawNothing, NEW c, Begins(c) \/ Stores(c)
    PROVE  ReturnedIsThere(last', cache')
<1>1. ASSUME last'.status \notin {"stored", "cached"}
      PROVE  ReturnedIsThere(last', cache')
  BY <1>1 DEF ReturnedIsThere
<1>2. ASSUME NEW opts, Hit(c, opts)
      PROVE  ReturnedIsThere(last', cache')
  <2>1. last'.opts = {opts} /\ last'.info = cache[EntryDir(opts)].meta /\ cache' = cache
    BY <1>2 DEF Hit, Return
  <2>2. EntryDir(opts) \in DOMAIN cache /\ Verified(opts)
    BY <1>2 DEF Hit, Cached
  <2> QED
    BY <2>1, <2>2 DEF ReturnedIsThere, Verified
<1>3. CASE Waits(c)
  <2>1. last' = last /\ cache' = cache
    BY <1>3 DEF Waits, Wait
  <2> QED
    BY <2>1
<1>4. CASE Begins(c)
  BY <1>1, <1>2, <1>3, <1>4 DEF Begins, Gone
<1>5. CASE Stores(c)
  <2>1. PICK bytes, opts, call :
            /\ bytes \in DOMAIN Data /\ Asked(opts)
            /\ StoreFromDownload(c, call, opts, bytes)
    BY <1>5 DEF Stores, WaitersSawNothing
  <2>2. CASE Fail(c, "mismatch")
    BY <1>1, <2>2, FailIs DEF Gone
  <2>3. CASE Return(c, call, opts, "rejected", NoInfo)
    <3>1. last'.status = "rejected"
      BY <2>3 DEF Return
    <3> QED
      BY <1>1, <3>1
  <2>4. ASSUME Downloaded(bytes, opts), NEW entry \in Entries(bytes, opts),
               cache' = Put(EntryDir(opts), entry, Without(cache, {StagingDir(opts), BackupDir(opts)})),
               Return(c, call, opts, "stored", entry.meta)
        PROVE  ReturnedIsThere(last', cache')
    <3>1. last'.opts = {opts} /\ last'.info = entry.meta
      BY <2>4 DEF Return
    <3>2. EntryDir(opts) \in DOMAIN cache' /\ cache'[EntryDir(opts)] = entry
      BY <2>4, StoredIsFound
    <3>3. Matches(entry, opts)
      BY <2>1, <2>4, EntriesAreGood
    <3> QED
      BY <3>1, <3>2, <3>3 DEF ReturnedIsThere, Matches
  <2> QED
    BY <2>1, <2>2, <2>3, <2>4 DEF StoreFromDownload
<1> QED
  BY <1>4, <1>5

StoreInv == EntriesInside(cache) /\ ReturnedIsThere(last, cache) /\ WaitersSawNothing

\* The invariant of the store: what is in the cache is inside its directory, what was
\* returned last is there, and a call that waits has not seen an entry of its own.
THEOREM StoreInvariant == Spec => []StoreInv
<1>1. Init => StoreInv
  BY DEF Init, Nothing, StoreInv, EntriesInside, ReturnedIsThere, WaitersSawNothing
<1>2. StoreInv /\ [Next]_vars => StoreInv'
  <2> SUFFICES ASSUME StoreInv, [Next]_vars
               PROVE  StoreInv'
    OBVIOUS
  <2>1. CASE Next
    <3>1. PICK c : Begins(c) \/ Stores(c)
      BY <2>1, NextIs
    <3>2. EntriesInside(cache') /\ ReturnedIsThere(last', cache') /\ WaitersSawNothing'
      BY <3>1, InsideStep, ReturnedStep, WaitersStep DEF StoreInv
    <3> QED
      BY <3>2 DEF StoreInv
  <2>2. CASE UNCHANGED vars
    BY <2>2 DEF vars, StoreInv, WaitersSawNothing
  <2> QED
    BY <2>1, <2>2
<1> QED
  BY <1>1, <1>2, PTL DEF Spec

\* Whatever the names in an archive, the path in an index or in a manifest: every file
\* of an entry is below its directory.
THEOREM ExtractedStaysInside == Spec => []ExtractedInside
<1>1. StoreInv => ExtractedInside
  BY DEF StoreInv, EntriesInside, ExtractedInside
<1> QED
  BY <1>1, StoreInvariant, PTL

\* Whatever was stored or found is found by the next call, and is as expected, although
\* other calls look up and store while one waits for its download.
THEOREM StoredAlwaysResolves == Spec => []StoredResolves
<1>1. StoreInv => StoredResolves
  BY DEF StoreInv, ReturnedIsThere, StoredResolves, Cached, Verified
<1> QED
  BY <1>1, StoreInvariant, PTL

\* However calls overlap, one replaces no entry of another coordinate, removes none, and
\* a Resolve replaces none that was there when it looked.
THEOREM OnlyOwnIsReplaced == Spec => OnlyOwnReplaced
<1> DEFINE Own ==
      \E c \in DOMAIN waiting \ DOMAIN waiting' :
         LET opts == waiting[c].opts
         IN \A d \in DOMAIN cache \ {StagingDir(opts), BackupDir(opts)} :
               Changed(d) => /\ d = EntryDir(opts) /\ d \in DOMAIN cache'
                             /\ d \notin waiting[c].seen
<1>1. ASSUME WaitersSawNothing, Next, cache' # cache
      PROVE  Own
  <2>1. PICK c : Stores(c)
    BY <1>1, NextIs DEF Begins, Gone, Waits, Wait, Hit
  <2>2. c \in DOMAIN waiting /\ waiting[c].seen = {}
    BY <1>1, <2>1 DEF Stores, WaitersSawNothing
  <2>3. waiting' = Without(waiting, {c})
    BY <2>1 DEF Stores, StoreFromDownload, Fail, Return
  <2>4. c \notin DOMAIN waiting'
    BY <2>3 DEF Without
  <2>5. PICK opts : opts = waiting[c].opts
    OBVIOUS
  <2>6. PICK call, bytes : StoreFromDownload(c, call, opts, bytes)
    BY <2>1, <2>5 DEF Stores
  <2>7. CASE cache' = Without(cache, {StagingDir(opts)})
    <3>1. \A d \in DOMAIN cache \ {StagingDir(opts), BackupDir(opts)} : ~Changed(d)
      BY <2>7 DEF Changed, Without
    <3> QED
      BY <2>2, <2>4, <2>5, <3>1
  <2>8. ASSUME NEW entry,
               cache' = Put(EntryDir(opts), entry, Without(cache, {StagingDir(opts), BackupDir(opts)}))
        PROVE  Own
    <3>1. EntryDir(opts) \in DOMAIN cache'
      BY <2>8, StoredIsFound
    <3>2. ASSUME NEW d \in DOMAIN cache \ {StagingDir(opts), BackupDir(opts)}, Changed(d)
          PROVE  d = EntryDir(opts)
      <4>1. d \in DOMAIN cache'
        BY <2>8 DEF Put, Without
      <4> QED
        BY <2>8, <3>2, <4>1, DirsAre DEF Changed
    <3> QED
      BY <2>2, <2>4, <2>5, <3>1, <3>2
  <2> QED
    BY <1>1, <2>6, <2>7, <2>8 DEF StoreFromDownload, Fail
<1>2. WaitersSawNothing /\ [Next]_vars => [cache' # cache => Own]_vars
  BY <1>1 DEF vars
<1>3. StoreInv => WaitersSawNothing
  BY DEF StoreInv
<1> QED
  BY <1>2, <1>3, StoreInvariant, PTL DEF Spec, OnlyOwnReplaced
=============================================================================
