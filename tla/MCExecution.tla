---------------------------- MODULE MCExecution ----------------------------
(***************************************************************************)
(* Instances of Execution for TLC: a graph of one node, and a chain of two.*)
(***************************************************************************)
EXTENDS Execution, TLC

CONSTANTS n1, n2

OneNode == [n \in {n1} |-> {}]
Chain   == [n \in {n1, n2} |-> IF n = n2 THEN {n1} ELSE {}]

\* Requests and executions are interchangeable.
Symmetry == Permutations(Clients) \cup Permutations(Execs)

=============================================================================
