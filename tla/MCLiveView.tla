------------------------------ MODULE MCLiveView ------------------------------
(* An execution that runs and one that has ended.                          *)
EXTENDS LiveView, TLC

Symmetry == Permutations(Slots)

=============================================================================
