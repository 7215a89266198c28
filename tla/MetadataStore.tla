---------------------------- MODULE MetadataStore -----------------------------
(***************************************************************************)
(* What setExecutionMetadata promises its callers, of which there may be   *)
(* several at a time: what a call is given is merged into the row of its   *)
(* execution in one step, on top of everything that was merged before; or, *)
(* if the server stops first, not at all.  ExecutionMetadata implements it *)
(* with a lock, a cache, and a removal from the cache outside the lock.    *)
(***************************************************************************)
CONSTANTS Execs, Outputs, Callers

Statuses == {"", "running", "failed"}
Updates  == [exec : Execs, status : Statuses, outputs : SUBSET Outputs]

VARIABLES
    row,  \* what is to be read of each execution
    asked \* the call of each caller, as a set of at most one

storeVars == <<row, asked>>

Init ==
    /\ row = [e \in Execs |-> [status |-> "", outputs |-> {}]]
    /\ asked = [c \in Callers |-> {}]

\* An empty status leaves the status alone; outputs are only added.
Into(old, update) ==
    [status  |-> IF update.status = "" THEN old.status ELSE update.status,
     outputs |-> old.outputs \cup update.outputs]

Ask(c) ==
    /\ asked[c] = {} /\ row' = row
    /\ \E update \in Updates : asked' = [asked EXCEPT ![c] = {update}]

Commit(c) ==
    \E update \in asked[c] :
        /\ row' = [row EXCEPT ![update.exec] = Into(@, update)]
        /\ asked' = [asked EXCEPT ![c] = {}]

Stop ==
    /\ row' = row
    /\ asked' = [c \in Callers |-> {}]

Next == \/ \E c \in Callers : Ask(c) \/ Commit(c)
        \/ Stop

Spec == Init /\ [][Next]_storeVars
===============================================================================
