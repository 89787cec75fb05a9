-------------------------- MODULE MCToolchainCache --------------------------
(* Two threads of one process, then one thread of the process that is started
   after it has ended or died. *)
EXTENDS ToolchainCache, TLC

CONSTANTS p1, p2, t1, t2, t3, x, y

MCProcs == {p1, p2}
MCThreads == {t1, t2, t3}
MCProcOf == (t1 :> p1) @@ (t2 :> p1) @@ (t3 :> p2)
MCArtifacts == {x, y}

ASSUME OneAtATime

\* Bounds: the first process resolves and updates, the second does anything;
\* t1 alone expects a checksum, only t3 is ever offline, and
\* only the first process dies.
MCInit ==
    /\ Init
    /\ op[t1] = "resolve" /\ op[t2] \in {"resolve", "update"}
    /\ expected = (t1 :> x) @@ (t2 :> Unchecked) @@ (t3 :> Unchecked)
    /\ ~offline[t1] /\ ~offline[t2]
    /\ offline[t3] = (op[t3] = "resolve")

MCNext ==
    \/ \E t \in Threads : Step(t)
    \/ \E p \in Procs : Launch(p) \/ Exit(p)
    \/ Crash(p1)

MCSpec == MCInit /\ [][MCNext]_vars /\ \A t \in Threads : WF_vars(Step(t))
=============================================================================
