------------------------------ MODULE MCClient ------------------------------
(***************************************************************************)
(* Values of the constants of Client for TLC.                              *)
(***************************************************************************)
EXTENDS Client, TLC

CONSTANTS a1, a2, b1 \* two versions of a node, and another node

MCPackages == {a1, a2, b1}
MCNameOf == (a1 :> "a") @@ (a2 :> "a") @@ (b1 :> "b")
MCNewer == {<<a1, a2>>}
MCCreated == <<1, 2>>
MCFirst == <<a1, b1>>
=============================================================================
