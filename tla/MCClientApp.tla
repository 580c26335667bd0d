---------------------------- MODULE MCClientApp ----------------------------
(***************************************************************************)
(* The stream, the probe and the keys of the views share nothing but the   *)
(* loop, so a behaviour is about one of them and the others rest.          *)
(***************************************************************************)
EXTENDS ClientApp, TLC

VARIABLE scene

MCReplies ==
    {<<"200", "end", "begin", "close">>, <<"503", "end", "begin", "close">>,
     <<"200", "end", "begin", "x", "close">>}

MCInit ==
    /\ Init
    /\ scene \in {"stream", "probe", "keys"}
    /\ left = IF scene = "probe" THEN MaxProbes ELSE 0
    /\ scene # "stream" => ~options.once /\ ~options.replay
    /\ options.interactive = (scene = "keys") \/ scene = "stream"

\* What rests in each scene.
MCNext ==
    /\ Next
    /\ UNCHANGED scene
    /\ scene # "stream" => link' = None
    /\ scene = "stream" => view' \in [page : {1}, help : {FALSE}, sort : {"c"}, scroll : {0},
           filter : {0}, kept : {0}, editing : BOOLEAN, paused : BOOLEAN, connection : STRING]

Symmetry == Permutations(Instances)

MCSpec == MCInit /\ [][MCNext]_<<vars, scene>>
=============================================================================
