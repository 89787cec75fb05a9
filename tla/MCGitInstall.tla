---------------------------- MODULE MCGitInstall ----------------------------
(* Two projects that share a cache, or of which only the second uses it.  The first
   may find any kind of checkout at its target, the second none or an outdated one. *)
EXTENDS GitInstall

CONSTANTS p1, p2

MCProcs == {p1, p2}

Old == [Locked EXCEPT !.commit = "old"]
Unsound == [Locked EXCEPT !.sound = FALSE]
Foreign == [Locked EXCEPT !.commit = "foreign"]

MCInit ==
    /\ remote \in {Locked, Unsound}
    /\ short \in BOOLEAN
    /\ sharing \in {MCProcs, {p2}}
    /\ cache \in {None, Locked, Unsound}
    /\ \E t \in {None, Old, Unsound, Foreign, Locked}, u \in {None, Old} :
          /\ target = [p \in MCProcs |-> IF p = p1 THEN t ELSE u]
          /\ (short => t = Unsound)   \* nothing else tells the two apart
    /\ (remote = Unsound => cache # Unsound)
    /\ InitGit

MCSpec == MCInit /\ [][Next]_vars
=============================================================================
