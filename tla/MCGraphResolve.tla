--------------------------- MODULE MCGraphResolve ---------------------------
(* Four repositories, one of which may be an old name of another; roots of up
   to two dependencies and a family of manifests with chains, diamonds and
   cycles, which change at one repository when the remote moves. *)
EXTENDS GraphResolve

CONSTANTS a, b, c, d

MCIds == {a, b, c, d}

Dep(s, i, v) == [scheme |-> s, id |-> i, con |-> v]
Direct(dep, dev) == [dep |-> dep, dev |-> dev]

Roots == {<<Direct(Dep("", a, v), FALSE)>> : v \in Constraints}
         \union {<<Direct(Dep("", a, ""), FALSE), x>> :
                    x \in {Direct(Dep("", i, v), FALSE) : i \in {a, b, d}, v \in Constraints}
                          \union {Direct(Dep("", a, ""), TRUE),
                                  Direct(Dep("plugin", a, ""), FALSE)}}
         \union {<<Direct(Dep("", i, ":1"), FALSE), Direct(Dep("", b, ""), TRUE)>> : i \in {c, d}}

NeedsOfA == {<<Dep("", b, "")>>, <<Dep("", c, ""), Dep("", b, ":1")>>}
NeedsOfB == {<<Dep("", c, "")>>, <<Dep("", c, ":1")>>, <<Dep("", d, "")>>}
NeedsOfC == {<<>>, <<Dep("", a, "")>>, <<Dep("", b, "")>>, <<Dep("", c, "")>>}

Overrides == {EmptyFunction,
              [k \in {<<"", b>>, <<"", c>>} |-> Dep("", c, ":1")],
              [k \in {<<"", b>>, <<"", c>>} |->
                  IF k = <<"", b>> THEN Dep("", c, "") ELSE Dep("", b, "")]}

MCInit ==
    /\ root \in Roots
    /\ canon \in {[i \in Ids |-> i], [i \in Ids |-> IF i = d THEN a ELSE i]}
    /\ \E na \in NeedsOfA, nb \in NeedsOfB, nc \in NeedsOfC :
          manifests = [n \in Ids \X Commits |->
                          IF n[1] = a THEN na
                          ELSE IF n[1] = b THEN (IF n[2] = "new" THEN <<Dep("", d, "")>> ELSE nb)
                          ELSE IF n = <<c, "old">> THEN nc ELSE <<>>]
    /\ overrides \in Overrides
    /\ Init

MCSpec == MCInit /\ [][Next]_vars /\ WF_vars(Iterate)
=============================================================================
