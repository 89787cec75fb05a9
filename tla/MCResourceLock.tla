--------------------------- MODULE MCResourceLock ---------------------------
(* Two packages, one of a binary kind; two commits; a target on each of two
   platforms.  Resources are named alike on both platforms or apart. *)
EXTENDS ResourceLock

CONSTANTS a, b, c1, c2

MCPackages == {a, b}
MCBinaryKinds == {a}
MCCommits == {c1, c2}

Res(n, p, v) == [name |-> n, platform |-> p, version |-> v]

Alike == <<Res("x", "linux", ""), Res("x", "windows", "")>>
Apart == <<Res("x", "linux", ""), Res("y", "windows", "")>>
Versioned == <<Res("x", "linux", ""), Res("y", "linux", "1"), Res("x", "windows", "")>>
OnlyLinux == <<Res("x", "linux", "")>>

MCInit ==
    /\ \E da \in {Alike, Apart, Versioned} \X {Alike, OnlyLinux},
          db \in {Alike, Apart} \X {<<>>, Alike, Versioned} :
          declared = [p \in MCPackages |->
                        [c \in MCCommits |->
                            LET d == IF p = a THEN da ELSE db
                            IN IF c = c1 THEN d[1] ELSE d[2]]]
    /\ InitLock

MCSpec == MCInit /\ [][Next]_vars
=============================================================================
