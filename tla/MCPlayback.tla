----------------------------- MODULE MCPlayback -----------------------------
(***************************************************************************)
(* Values of the constants of Playback for TLC.                            *)
(***************************************************************************)
EXTENDS Playback, TLC

MCOwners == <<1, 2, 1>>
MCLogged == <<5, 3>>

\* From the first graph to the second one node leaves and two come, and back
\* again; the third has nothing in common with them, the fourth does not parse.
MCDrawn == <<[nodes |-> <<1, 2>>,    edges |-> {<<1, 2>>},         parses |-> TRUE],
             [nodes |-> <<1, 3, 4>>, edges |-> {<<1, 3>>, <<3, 4>>}, parses |-> TRUE],
             [nodes |-> <<5>>,       edges |-> {},                 parses |-> TRUE],
             [nodes |-> <<1>>,       edges |-> {},                 parses |-> FALSE]>>
=============================================================================
