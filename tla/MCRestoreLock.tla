---------------------------- MODULE MCRestoreLock ----------------------------
(* Three keys, the last one a plugin.  Their names are distinct, or two hosts
   have the same one, or two users have repositories of the same name. *)
EXTENDS RestoreLock

VARIABLE round      \* resolutions so far, at most two

MCKeys == 1 .. 3
MCNames == 1 .. 4
MCSchemeOf == [k \in MCKeys |-> IF k = 3 THEN "plugin" ELSE ""]
MCRepoOf == [n \in MCNames |-> IF n = 4 THEN 1 ELSE n]

Ask(v, dev) == [con |-> v, dev |-> dev]

\* Bounds: key 2 alone may be a dev dependency, key 3 is asked for one way.  At
\* first key 1 is direct, and key 2 a dev dependency or transitive.
MCManifests ==
    {m \in Manifests :
        /\ 1 \in DOMAIN m => ~m[1].dev
        /\ 3 \in DOMAIN m => m[3] = Ask("", FALSE)}

MCInit ==
    /\ name \in {<<3, 2, 1>>, <<2, 2, 1>>, <<4, 1, 3>>}
    /\ direct \in {m \in MCManifests : 1 \in DOMAIN m /\ \A k \in DOMAIN m : m[k].con = ""
                                         /\ (2 \in DOMAIN m => m[2].dev)}
    /\ round = 0
    /\ InitRestore

\* Any graph without self-edges but one.
Edges == {e \in MCKeys \X MCKeys : e[1] # e[2] \/ e = <<1, 1>>}

\* A resolution with the packages ks and the edges e (parent, child).
Found(ks, e, commit) ==
    [k \in ks |->
        [con |-> IF k \in DOMAIN direct THEN direct[k].con ELSE "",
         commit |-> commit,
         kind |-> DirectKind(k),
         transitive |-> k \notin DOMAIN direct,
         requiredBy |-> {p \in ks : <<p, k>> \in e},
         dependencies |-> {name[c] : c \in {x \in ks : <<k, x>> \in e}}]]

\* The first resolution is any; the second finds the same graph at new commits.
WriteFirst ==
    /\ round = 0 /\ round' = 1
    /\ \E ks \in SUBSET MCKeys : \E e \in SUBSET (Edges \intersect (ks \X ks)) : Write(Found(ks, e, "old"))

WriteSecond ==
    /\ round = 1 /\ round' = 2 /\ lock # None /\ direct = from
    /\ Write([k \in DOMAIN resolved |-> [resolved[k] EXCEPT !.commit = "new"]])

\* An edit comes instead of the second resolution, and ends the run: only
\* LockNeedsResolution looks at the manifest.
EditOnce ==
    /\ round = 1 /\ lock # None /\ direct = from
    /\ checkout = [r \in Repos |-> None] /\ result = "none"
    /\ round' = 2
    /\ \E m \in MCManifests : m # direct /\ Edit(m)

MCNext ==
    \/ WriteFirst \/ WriteSecond \/ EditOnce
    \/ /\ direct = from
       /\ LoadLock \/ Begin \/ Step
       /\ UNCHANGED round

MCSpec == MCInit /\ [][MCNext]_<<vars, round>> /\ WF_<<vars, round>>(Step /\ UNCHANGED round)
=============================================================================
