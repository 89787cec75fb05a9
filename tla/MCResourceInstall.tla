------------------------- MODULE MCResourceInstall -------------------------
(* Two installers with disjoint payloads, one of two files, below a root with
   two parent directories. *)
EXTENDS ResourceInstall, TLC

CONSTANTS a, b, f1, f2, f3, d1, d2

MCInstallers == {a, b}
MCFiles == {f1, f2, f3}
MCDirs == {d1, d2}
MCParentOf == (f1 :> d1) @@ (f2 :> d2) @@ (f3 :> d2)
MCEntries == (a :> <<f1, f2>>) @@ (b :> <<f3>>)

ASSUME Isolated

\* Bounds: only one parent may be missing, or both be sound, or one be a link;
\* only a is cancelled or dies; b's destination holds a file or nothing.
MCInit ==
    /\ Init
    /\ dirs \in {[x \in Dirs |-> IF x = d1 THEN i ELSE "dir"] : i \in {"absent", "dir", "link"}}
    /\ meta \in {"absent", "link"}
    /\ disk[f3] \in {Old, Absent}

MCNext ==
    \/ \E p \in Installers : Step(p)
    \/ Cancel(a)
    \/ Crash(a)

MCSpec == MCInit /\ [][MCNext]_vars /\ \A p \in Installers : WF_vars(Step(p))
=============================================================================
