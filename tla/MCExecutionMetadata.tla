------------------------- MODULE MCExecutionMetadata --------------------------
(* The bridge, the goroutine of a run and a cancellation on two            *)
(* executions.                                                             *)
EXTENDS ExecutionMetadata, TLC

CONSTANTS e1, e2, o1, o2, runner, handler

BridgeRunnerHandler == {"bridge", runner, handler}

\* Goroutine and handler make the same calls.
Symmetry == Permutations(Outputs) \cup Permutations(Execs) \cup Permutations({runner, handler})

=============================================================================
