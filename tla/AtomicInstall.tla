--------------------------- MODULE AtomicInstall ---------------------------
(***************************************************************************)
(* What docs/architecture.md promises of a resource install: a payload is  *)
(* installed in one step or not at all.  `view` is the project as a reader *)
(* who undoes unfinished installs would see it.  A rollback that fails may *)
(* damage the installer's own files, and then the call says so.            *)
(***************************************************************************)
CONSTANTS Installers, Files, Owned, Absent, Initial

VARIABLES view, status

vars == <<view, status>>

Init ==
    /\ view \in [Files -> Initial]
    /\ status = [p \in Installers |-> "running"]

Finish(p, s) ==
    /\ status[p] = "running"
    /\ status' = [status EXCEPT ![p] = s]

Commit(p) ==
    /\ Finish(p, "committed")
    /\ view' = [f \in Files |-> IF f \in Owned[p] THEN p ELSE view[f]]

Abort(p) ==
    /\ Finish(p, "failed")
    /\ UNCHANGED view

Damage(p) ==
    /\ Finish(p, "damaged")
    /\ view' \in [Files -> Initial \union Installers]
    /\ \A f \in Files :
          \/ view'[f] = view[f]
          \/ f \in Owned[p] /\ view'[f] \in {Absent, p}

Next == \E p \in Installers : Commit(p) \/ Abort(p) \/ Damage(p)

Spec == Init /\ [][Next]_vars
=============================================================================
