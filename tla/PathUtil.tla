------------------------------ MODULE PathUtil ------------------------------
(***************************************************************************)
(* Paths (src/pathutil/pathutil.go).  A path is the sequence of what is    *)
(* between its slashes: "/a/b" is <<"", "a", "b">>, "a/" is <<"a", "">>,   *)
(* "/" is <<"", "">> and the empty path is <<"">>.  Backslashes have become *)
(* slashes, and drive letters are left out.                                *)
(***************************************************************************)
EXTENDS Naturals, Sequences, SequencesExt

CONSTANT Folded     \* the lower-case form of each segment that has upper case

ASSUME FoldedAssumption ==
    \A s \in DOMAIN Folded : s # "" /\ Folded[s] \notin DOMAIN Folded \union {""}

IsPath(path) == path \in Seq(Range(path))

Lower(path) == [i \in DOMAIN path |-> IF path[i] \in DOMAIN Folded THEN Folded[path[i]] ELSE path[i]]

IsAbs(path) == Len(path) > 1 /\ path[1] = ""

\* What is left of a path as an absolute or a relative one.
Rooted(abs, segments) ==
    CASE abs /\ segments = <<>>   -> <<"", "">>
      [] abs /\ segments # <<>>   -> <<"">> \o segments
      [] ~abs /\ segments = <<>>  -> <<".">>
      [] ~abs /\ segments # <<>>  -> segments

\* A wrong form: ".." takes the last segment away, whatever it is.
PushAlways(abs, out, segment) ==
    CASE segment \in {"", "."}         -> out
      [] segment = ".." /\ out = <<>>  -> out
      [] segment = ".." /\ out # <<>>  -> Front(out)
      [] OTHER                         -> Append(out, segment)

\* Empty and "." segments go, ".." takes the segment before it away; what leads
\* above an absolute root is dropped, above a relative one it stays.
Push(abs, out, segment) ==
    CASE segment \in {"", "."}                              -> out
      [] segment = ".." /\ out # <<>> /\ Last(out) # ".."   -> Front(out)
      [] segment = ".." /\ out = <<>> /\ abs                -> out
      [] OTHER                                              -> Append(out, segment)

Clean(path) ==
    LET kept[i \in 0 .. Len(path)] ==
            IF i = 0 THEN <<>> ELSE Push(IsAbs(path), kept[i - 1], path[i])
    IN Rooted(IsAbs(path), kept[Len(path)])

Join(a, b) == Clean(a \o b)

HasTraversal(path) == Clean(path)[1] = ".."

\* SafeJoin rejects a path that is absolute or escapes.
Safe(rel) == ~IsAbs(rel) /\ ~HasTraversal(rel)

\* The parent of a clean path; that of "/" is "/", that of a name is ".".
Parent(path) ==
    CASE Len(path) = 1                 -> <<".">>
      [] IsAbs(path) /\ Len(path) = 2  -> <<"", "">>
      [] OTHER                         -> Front(path)

Dir(path) == Parent(Clean(path))

Base(path) == Last(Clean(path))

\* A path is at or below a directory, without regard to case (JoinWithin of
\* paths.go, withinRoot of include.go).  Both append a slash to the directory, so
\* that nothing but itself is at or below "/", and here too: <<"", "">> is no
\* prefix of any other path.
Within(path, directory) == IsPrefix(Lower(directory), Lower(path))
=============================================================================
