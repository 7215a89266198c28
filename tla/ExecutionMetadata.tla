-------------------------- MODULE ExecutionMetadata ---------------------------
(***************************************************************************)
(* executions.metadata_json, the status and the node outputs that a page   *)
(* shows and a continue injects, and the cache in front of it.             *)
(*                                                                         *)
(* setExecutionMetadata runs under metaMu: it takes the cached object, or  *)
(* builds one from the database, merges what it was called with, and       *)
(* writes the object out.  It is called by the event bridge, by the        *)
(* goroutine of each run and by the HTTP handlers.  The bridge removes the *)
(* cache entry of a finished execution without taking metaMu.              *)
(*                                                                         *)
(* Simplifications: one status of a live and one of an ended execution     *)
(* stand for all; trigger, params and error are left out; SQL statements   *)
(* do not fail; the unlocked removal from the Go map is atomic (it races   *)
(* with the map accesses under the lock, and Go may stop the program:      *)
(* Crash is possible in every state).                                      *)
(***************************************************************************)
EXTENDS Naturals

CONSTANTS
    Execs,      \* execution ids
    Outputs,    \* <node>.<field> keys
    Callers,    \* concurrent callers: "bridge", and goroutines and handlers
    Nobody,     \* metaMu is free
    NoExec      \* a caller that is not calling

Statuses == {"", "running", "failed"}
Metadata == [status : Statuses, outputs : SUBSET Outputs]

ASSUME CallersAssumption ==
    "bridge" \in Callers /\ Nobody \notin Callers /\ NoExec \notin Execs

VARIABLES
    db,     \* executions.metadata_json
    cached, \* metaCache has an entry
    object, \* the object of the entry, or the one the holder of metaMu uses
    metaMu, \* who holds the lock
    call    \* what each caller is doing, for which execution, with what

metadataVars == <<db, cached, object, metaMu, call>>

CallSteps == {"idle", "lock", "merge", "write", "forget"}
Idle == [at |-> "idle", exec |-> NoExec, status |-> "", outputs |-> {}]
Call == [at : CallSteps, exec : Execs \cup {NoExec}, status : Statuses, outputs : SUBSET Outputs]

Empty == [status |-> "", outputs |-> {}]

MetadataTypeOK ==
    /\ db \in [Execs -> Metadata]
    /\ cached \in [Execs -> BOOLEAN]
    /\ object \in [Execs -> Metadata]
    /\ metaMu \in Callers \cup {Nobody}
    /\ call \in [Callers -> Call]
    /\ \A c \in Callers : /\ call[c].at # "idle" => call[c].exec \in Execs
                          /\ call[c].at \in {"merge", "write"} <=> metaMu = c

MetadataInit ==
    /\ db = [e \in Execs |-> Empty]
    /\ cached = [e \in Execs |-> FALSE]
    /\ object = [e \in Execs |-> Empty]
    /\ metaMu = Nobody
    /\ call = [c \in Callers |-> Idle]

-----------------------------------------------------------------------------
Goes(c, from, to) ==
    /\ call[c].at = from
    /\ call' = [call EXCEPT ![c] = IF to = "idle" THEN Idle ELSE [@ EXCEPT !.at = to]]

Calls(c, e, status, outputs) ==
    /\ call[c] = Idle
    /\ call' = [call EXCEPT ![c] = [at |-> "lock", exec |-> e, status |-> status,
                                    outputs |-> outputs]]
    /\ UNCHANGED <<db, cached, object, metaMu>>

\* execution_start, node_complete and execution_complete.
BridgeCalls(e) ==
    \/ Calls("bridge", e, "running", {})
    \/ \E o \in Outputs : Calls("bridge", e, "", {o})
    \/ \E outputs \in SUBSET Outputs : Calls("bridge", e, "failed", outputs)

\* The end of runWorkflow; Run, PauseExecution, ResumeExecution, CancelExecution.
OtherCalls(c, e) ==
    /\ c # "bridge"
    /\ \E status \in Statuses \ {""} : Calls(c, e, status, {})

\* Mutants: no lock is taken; an execution that is not cached starts empty.
FetchUnlocked(c) ==
    /\ Goes(c, "lock", "merge")
    /\ LET e == call[c].exec IN
         /\ object' = [object EXCEPT ![e] = IF cached[e] THEN @ ELSE db[e]]
         /\ cached' = [cached EXCEPT ![e] = TRUE]
    /\ UNCHANGED <<db, metaMu>>

FetchNothing(c) ==
    /\ metaMu = Nobody /\ metaMu' = c
    /\ Goes(c, "lock", "merge")
    /\ LET e == call[c].exec IN
         /\ object' = [object EXCEPT ![e] = IF cached[e] THEN @ ELSE Empty]
         /\ cached' = [cached EXCEPT ![e] = TRUE]
    /\ UNCHANGED db

\* Lock; the cached object, or what the database has.
Fetch(c) ==
    /\ metaMu = Nobody /\ metaMu' = c
    /\ Goes(c, "lock", "merge")
    /\ LET e == call[c].exec IN
         /\ object' = [object EXCEPT ![e] = IF cached[e] THEN @ ELSE db[e]]
         /\ cached' = [cached EXCEPT ![e] = TRUE]
    /\ UNCHANGED db

Merged(old, c) ==
    [status  |-> IF call[c].status = "" THEN old.status ELSE call[c].status,
     outputs |-> old.outputs \cup call[c].outputs]

Merge(c) ==
    /\ Goes(c, "merge", "write")
    /\ object' = [object EXCEPT ![call[c].exec] = Merged(@, c)]
    /\ UNCHANGED <<db, cached, metaMu>>

\* execution_complete is followed by the removal of the entry.
Completes(c) == c = "bridge" /\ call[c].status = "failed"

\* Mutant: outputs stay in the cache until the execution has a status.
WriteLazily(c) ==
    /\ Goes(c, "write", IF Completes(c) THEN "forget" ELSE "idle")
    /\ db' = [db EXCEPT ![call[c].exec] = IF call[c].status = "" THEN @ ELSE object[call[c].exec]]
    /\ metaMu' = Nobody
    /\ UNCHANGED <<cached, object>>

\* Write and unlock.
Write(c) ==
    /\ Goes(c, "write", IF Completes(c) THEN "forget" ELSE "idle")
    /\ db' = [db EXCEPT ![call[c].exec] = object[call[c].exec]]
    /\ metaMu' = Nobody
    /\ UNCHANGED <<cached, object>>

\* delete(s.metaCache, id), whoever holds metaMu.
Forget(c) ==
    /\ Goes(c, "forget", "idle")
    /\ cached' = [cached EXCEPT ![call[c].exec] = FALSE]
    /\ UNCHANGED <<db, object, metaMu>>

\* The server restarts: only the database remains.
Crash ==
    /\ cached' = [e \in Execs |-> FALSE]
    /\ metaMu' = Nobody
    /\ call' = [c \in Callers |-> Idle]
    /\ UNCHANGED <<db, object>>

MetadataNext ==
    \/ \E e \in Execs : BridgeCalls(e) \/ \E c \in Callers : OtherCalls(c, e)
    \/ \E c \in Callers : Fetch(c) \/ Merge(c) \/ Write(c) \/ Forget(c)
    \/ Crash

MetadataSpec == MetadataInit /\ [][MetadataNext]_metadataVars

-----------------------------------------------------------------------------
(* Properties                                                              *)

(* The outputs of a node, once in the database, stay there: neither a      *)
(* cache entry built after the bridge has removed the old one, nor the     *)
(* final write of the goroutine, nor a cancellation, nor a restart at any  *)
(* point loses them (a continue injects them into the nodes it skips).     *)
OutputsNeverLost ==
    [][\A e \in Execs : db[e].outputs \subseteq db'[e].outputs]_db

(* Outside the lock a cached object says what the database says, so it     *)
(* does not matter whether the next call finds it or the row.              *)
CacheIsDb ==
    \A e \in Execs : metaMu = Nobody /\ cached[e] => object[e] = db[e]

-----------------------------------------------------------------------------
(* Refinement                                                              *)

\* A call counts until it has written, whatever it has read and merged.
Asks(k) == IF k.at \in {"lock", "merge", "write"}
           THEN {[exec |-> k.exec, status |-> k.status, outputs |-> k.outputs]} ELSE {}
asking  == [c \in Callers |-> Asks(call[c])]

Store == INSTANCE MetadataStore WITH row <- db, asked <- asking

(* Every call takes effect in one step, on what the row has by then: no    *)
(* call overwrites what another one, or an earlier run of the server, has  *)
(* merged, although each reads an object, changes it and writes all of it. *)
CallsAreAtomic == Store!Spec

=============================================================================
