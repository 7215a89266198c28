------------------------------ MODULE Execution ------------------------------
(***************************************************************************)
(* The life of an execution in FlowX Studio: the `executions` and          *)
(* `execution_nodes` rows of the database, the FlowX engine that runs the  *)
(* graph, the event channel and the event bridge that carry the engine's   *)
(* progress back to the rows, the goroutine that waits for each run, and   *)
(* the HTTP handlers that run, cancel, pause, resume and continue it.      *)
(*                                                                         *)
(* Grain of atomicity.  The database pool holds one connection, so a SQL   *)
(* statement is one step, and two statements of one handler are two steps  *)
(* between which every other goroutine may run.  A call into the engine is *)
(* a step of its own.                                                      *)
(*                                                                         *)
(* Simplifications:                                                        *)
(*  - the engine is outside the repository; the Engine* definitions say    *)
(*    what adapter.go and the comments around its calls rely on;           *)
(*  - Rm of a live instance drops its run (the best case for the code);    *)
(*  - SQL statements, exports and loads of a snapshot do not fail;         *)
(*  - a snapshot is the set of nodes it records as SUCCESS;                *)
(*  - metadata_json, logs, audit records and published events are left out.*)
(***************************************************************************)
EXTENDS Naturals, Sequences, FiniteSets

CONSTANTS
    Execs,          \* execution ids
    Nodes,          \* nodes of the workflow graph
    Deps,           \* Deps[n]: the nodes that must succeed before n starts
    Clients,        \* concurrent HTTP requests
    Ops,            \* the operations clients call
    Faults,         \* "lag", "silent", "crash": what the environment may do
    QueueCap,       \* capacity of the adapter's event channel
    MaxConcurrent,  \* max_concurrent_executions
    MaxCalls,       \* bound: API calls that pass their first check
    MaxCrashes,     \* bound: server restarts
    NoExec,         \* a request that works on no execution yet
    NoNode          \* no node of the graph: marks a NULL runtime_yaml

AllOps == {"run", "cancel", "pause", "resume", "continue", "update"}

ASSUME ConstantsAssumption ==
    /\ Deps \in [Nodes -> SUBSET Nodes]
    /\ Ops \subseteq AllOps
    /\ Faults \subseteq {"lag", "silent", "crash"}
    /\ QueueCap \in Nat \ {0}
    /\ MaxConcurrent \in Nat \ {0}
    /\ MaxCalls \in Nat
    /\ MaxCrashes \in Nat
    /\ NoExec \notin Execs
    /\ NoNode \notin Nodes

VARIABLES
    \* the database, which survives a restart
    status,     \* executions.status, "none" when there is no row
    completed,  \* executions.completed_at is set
    snapshot,   \* executions.runtime_yaml
    nodeRow,    \* execution_nodes.status, "none" when there is no row
    \* the FlowX engine
    engine,     \* status of the instance exec-<id>, "absent" when not found
    engNode,    \* status of every node of the instance
    cancelling, \* the instance's context is cancelled
    reported,   \* WorkflowFinish has been delivered to the listener
    outcome,    \* history: how the latest engine run of the execution ended
    \* the goroutines of the server
    eventCh,    \* the adapter's buffered event channel
    bridge,     \* the execution_complete event the bridge is writing
    runner,     \* where runWorkflow stands
    final,      \* its finalStatus
    at, on, seen, \* request: where it stands, its execution, the row it read
    \* bounds
    calls, crashes

dbVars     == <<status, completed, snapshot, nodeRow>>
engineVars == <<engine, engNode, cancelling, reported, outcome>>
runnerVars == <<runner, final>>
reqVars    == <<at, on, seen>>
bounds     == <<calls, crashes>>
vars == <<dbVars, engineVars, eventCh, bridge, runnerVars, reqVars, bounds>>

-----------------------------------------------------------------------------
(* Types                                                                   *)

Terminal   == {"success", "failed", "cancelled"}
Status     == {"none", "running", "paused"} \cup Terminal
NodeStatus == {"none", "running", "success", "failed", "cancelled"}
NoSnapshot == {NoNode}
Snapshot   == (SUBSET Nodes) \cup {NoSnapshot}

EngineTerminal == {"SUCCESS", "FAILED", "CANCELLED"}
EngineStatus   == {"absent", "LOADED", "PENDING", "RUNNING", "PAUSED"}
                      \cup EngineTerminal

\* ToLower on the engine's status.
Lower(v) == CASE v = "SUCCESS" -> "success"
              [] v = "FAILED"  -> "failed"
              [] OTHER         -> "cancelled"

Event == [type : {"execution_start"}, exec : Execs]
    \cup [type : {"node_start"}, exec : Execs, node : Nodes]
    \cup [type : {"node_complete"}, exec : Execs, node : Nodes,
          status : {"success", "failed"}]
    \cup [type : {"execution_complete"}, exec : Execs, status : Terminal]

Idle == [exec |-> NoExec, status |-> "none"]

RunnerAt == {"off", "expand", "mark", "execute", "poll", "wait", "read", "write"}

ReqAt == {"idle", "run.insert",
          "cancel.engine", "cancel.row", "cancel.nodes",
          "pause.engine", "pause.export", "pause.row",
          "resume.engine", "resume.load", "resume.rerun", "resume.row",
          "continue.load", "continue.save", "continue.rerun",
          "update.load", "update.save"}

TypeOK ==
    /\ status \in [Execs -> Status]
    /\ completed \in [Execs -> BOOLEAN]
    /\ snapshot \in [Execs -> Snapshot]
    /\ nodeRow \in [Execs -> [Nodes -> NodeStatus]]
    /\ engine \in [Execs -> EngineStatus]
    /\ engNode \in [Execs -> [Nodes -> {"idle", "RUNNING", "SUCCESS", "FAILED"}]]
    /\ cancelling \in [Execs -> BOOLEAN]
    /\ reported \in [Execs -> BOOLEAN]
    /\ outcome \in [Execs -> {"none"} \cup Terminal]
    /\ eventCh \in Seq(Event) /\ Len(eventCh) <= QueueCap
    /\ bridge \in [exec : Execs \cup {NoExec}, status : {"none"} \cup Terminal]
    /\ runner \in [Execs -> RunnerAt]
    /\ final \in [Execs -> {"none"} \cup Terminal]
    /\ at \in [Clients -> ReqAt]
    /\ on \in [Clients -> Execs \cup {NoExec}]
    /\ seen \in [Clients -> Snapshot]
    /\ calls \in Nat
    /\ crashes \in Nat

Init ==
    /\ status = [e \in Execs |-> "none"]
    /\ completed = [e \in Execs |-> FALSE]
    /\ snapshot = [e \in Execs |-> NoSnapshot]
    /\ nodeRow = [e \in Execs |-> [n \in Nodes |-> "none"]]
    /\ engine = [e \in Execs |-> "absent"]
    /\ engNode = [e \in Execs |-> [n \in Nodes |-> "idle"]]
    /\ cancelling = [e \in Execs |-> FALSE]
    /\ reported = [e \in Execs |-> FALSE]
    /\ outcome = [e \in Execs |-> "none"]
    /\ eventCh = <<>>
    /\ bridge = Idle
    /\ runner = [e \in Execs |-> "off"]
    /\ final = [e \in Execs |-> "none"]
    /\ at = [c \in Clients |-> "idle"]
    /\ on = [c \in Clients |-> NoExec]
    /\ seen = [c \in Clients |-> NoSnapshot]
    /\ calls = 0
    /\ crashes = 0

-----------------------------------------------------------------------------
(* The adapter and the engine                                              *)

Done(e)    == {n \in Nodes : engNode[e][n] = "SUCCESS"}
Present(e) == engine[e] # "absent"

\* Mutant: the channel has no capacity.
PushEventUnbounded(evt) == eventCh' = Append(eventCh, evt)

\* Adapter.PushEvent never blocks: an event that meets a full channel is lost.
PushEvent(evt) ==
    eventCh' = IF Len(eventCh) < QueueCap THEN Append(eventCh, evt) ELSE eventCh

\* RunAsync and Rerun both hand the graph to a goroutine of the engine.
Launch(e) ==
    /\ engine' = [engine EXCEPT ![e] = "PENDING"]
    /\ outcome' = [outcome EXCEPT ![e] = "none"]

\* Adapter.ExecuteWorkflow: a fresh instance of the whole graph.
ExecuteWorkflow(e) ==
    /\ Launch(e)
    /\ engNode' = [engNode EXCEPT ![e] = [n \in Nodes |-> "idle"]]
    /\ cancelling' = [cancelling EXCEPT ![e] = FALSE]
    /\ reported' = [reported EXCEPT ![e] = FALSE]

\* Adapter.LoadExecution: drop the old instance, rebuild it from a snapshot.
LoadExecution(e, snap) ==
    /\ engine' = [engine EXCEPT ![e] = "LOADED"]
    /\ engNode' = [engNode EXCEPT ![e] =
                     [n \in Nodes |-> IF n \in snap THEN "SUCCESS" ELSE "idle"]]
    /\ cancelling' = [cancelling EXCEPT ![e] = FALSE]
    /\ reported' = [reported EXCEPT ![e] = FALSE]
    /\ UNCHANGED outcome

\* WorkflowStart.
EngineStart(e) ==
    /\ engine[e] = "PENDING"
    /\ engine' = [engine EXCEPT ![e] = "RUNNING"]
    /\ PushEvent([type |-> "execution_start", exec |-> e])
    /\ UNCHANGED <<dbVars, engNode, cancelling, reported, outcome>>

\* WorkflowNodeStart: a paused or cancelled instance starts no further node.
EngineNodeStart(e, n) ==
    /\ engine[e] = "RUNNING" /\ ~cancelling[e]
    /\ engNode[e][n] = "idle"
    /\ Deps[n] \subseteq Done(e)
    /\ \A m \in Nodes : engNode[e][m] # "FAILED"
    /\ engNode' = [engNode EXCEPT ![e][n] = "RUNNING"]
    /\ PushEvent([type |-> "node_start", exec |-> e, node |-> n])
    /\ UNCHANGED <<dbVars, engine, cancelling, reported, outcome>>

\* WorkflowNodeFinish and WorkflowNodeFailed.
EngineNodeEnd(e, n, result) ==
    /\ engNode[e][n] = "RUNNING"
    /\ engNode' = [engNode EXCEPT ![e][n] = result]
    /\ PushEvent([type |-> "node_complete", exec |-> e, node |-> n,
                  status |-> Lower(result)])
    /\ UNCHANGED <<dbVars, engine, cancelling, reported, outcome>>

\* A node whose executor cannot be prepared ends without an event of its own.
EngineNodeVanish(e, n) ==
    /\ "silent" \in Faults
    /\ engNode[e][n] = "RUNNING"
    /\ engNode' = [engNode EXCEPT ![e][n] = "FAILED"]
    /\ UNCHANGED <<dbVars, engine, cancelling, reported, outcome, eventCh>>

\* How a run that has nothing left to do may end.
Verdicts(e) ==
    IF Done(e) = Nodes THEN {"SUCCESS"}
    ELSE IF cancelling[e] THEN {"FAILED", "CANCELLED"}
    ELSE {"FAILED"}

\* The status becomes terminal, and Status() shows it, before WorkflowFinish.
EngineSettle(e) ==
    /\ engine[e] \in {"RUNNING", "PAUSED"}
    /\ \A n \in Nodes : engNode[e][n] # "RUNNING"
    /\ \/ Done(e) = Nodes
       \/ cancelling[e]
       \/ \E n \in Nodes : engNode[e][n] = "FAILED"
    /\ \E v \in Verdicts(e) :
         /\ engine' = [engine EXCEPT ![e] = v]
         /\ outcome' = [outcome EXCEPT ![e] = Lower(v)]
    /\ UNCHANGED <<dbVars, engNode, cancelling, reported, eventCh>>

\* WorkflowFinish: the listener saves the exported snapshot, then pushes.
EngineFinish(e) ==
    /\ engine[e] \in EngineTerminal /\ ~reported[e]
    /\ snapshot' = [snapshot EXCEPT ![e] = Done(e)]
    /\ PushEvent([type |-> "execution_complete", exec |-> e,
                  status |-> Lower(engine[e])])
    /\ reported' = [reported EXCEPT ![e] = TRUE]
    /\ UNCHANGED <<status, completed, nodeRow, engine, engNode, cancelling, outcome>>

\* The instance is deleted once its WorkflowFinish has been handled.
EngineRetire(e) ==
    /\ engine[e] \in EngineTerminal /\ reported[e]
    /\ engine' = [engine EXCEPT ![e] = "absent"]
    /\ engNode' = [engNode EXCEPT ![e] = [n \in Nodes |-> "idle"]]
    /\ cancelling' = [cancelling EXCEPT ![e] = FALSE]
    /\ reported' = [reported EXCEPT ![e] = FALSE]
    /\ UNCHANGED <<dbVars, outcome, eventCh>>

EngineNodeStep(e, n) ==
    \/ EngineNodeStart(e, n)
    \/ \E result \in {"SUCCESS", "FAILED"} : EngineNodeEnd(e, n, result)
    \/ EngineNodeVanish(e, n)

Engine(e) ==
    /\ \/ EngineStart(e)
       \/ \E n \in Nodes : EngineNodeStep(e, n)
       \/ EngineSettle(e)
       \/ EngineFinish(e)
       \/ EngineRetire(e)
    /\ UNCHANGED <<bridge, runnerVars, reqVars, bounds>>

-----------------------------------------------------------------------------
(* The event bridge                                                        *)

\* execution_start: back to running, the completion time is cleared.
PersistStart(evt) ==
    /\ status' = [status EXCEPT ![evt.exec] = "running"]
    /\ completed' = [completed EXCEPT ![evt.exec] = FALSE]
    /\ UNCHANGED <<snapshot, nodeRow, bridge>>

\* node_start: insert the row, or reopen it.
PersistNodeStart(evt) ==
    /\ nodeRow' = [nodeRow EXCEPT ![evt.exec][evt.node] = "running"]
    /\ UNCHANGED <<status, completed, snapshot, bridge>>

\* Mutants: every node_complete is written; none is after a cancellation.
PersistNodeCompleteAlways(evt) ==
    /\ nodeRow' = [nodeRow EXCEPT ![evt.exec][evt.node] = evt.status]
    /\ UNCHANGED <<status, completed, snapshot, bridge>>

PersistNodeCompleteUnlessCancelled(evt) ==
    /\ nodeRow' = [nodeRow EXCEPT ![evt.exec][evt.node] =
                     IF @ = "running" /\ status[evt.exec] # "cancelled"
                     THEN evt.status ELSE @]
    /\ UNCHANGED <<status, completed, snapshot, bridge>>

\* node_complete: only a row that is still running is closed.
PersistNodeComplete(evt) ==
    /\ nodeRow' = [nodeRow EXCEPT ![evt.exec][evt.node] =
                     IF @ = "running" THEN evt.status ELSE @]
    /\ UNCHANGED <<status, completed, snapshot, bridge>>

\* execution_complete reads the row before it writes: cancelled is kept.
PersistCompleteRead(evt) ==
    /\ bridge' = [exec |-> evt.exec,
                  status |-> IF status[evt.exec] = "cancelled" THEN "cancelled"
                             ELSE evt.status]
    /\ UNCHANGED dbVars

BridgeTake ==
    /\ bridge = Idle
    /\ eventCh # <<>>
    /\ eventCh' = Tail(eventCh)
    /\ LET evt == Head(eventCh) IN
         \/ evt.type = "execution_start" /\ PersistStart(evt)
         \/ evt.type = "node_start" /\ PersistNodeStart(evt)
         \/ evt.type = "node_complete" /\ PersistNodeComplete(evt)
         \/ evt.type = "execution_complete" /\ PersistCompleteRead(evt)

\* Mutant: the bridge leaves the status to the goroutine of the run.
BridgeCompleteStampOnly ==
    /\ bridge # Idle
    /\ completed' = [completed EXCEPT ![bridge.exec] = TRUE]
    /\ bridge' = Idle
    /\ UNCHANGED <<status, snapshot, nodeRow, eventCh>>

\* ... and then writes what it decided.
BridgeComplete ==
    /\ bridge # Idle
    /\ status' = [status EXCEPT ![bridge.exec] = bridge.status]
    /\ completed' = [completed EXCEPT ![bridge.exec] = TRUE]
    /\ bridge' = Idle
    /\ UNCHANGED <<snapshot, nodeRow, eventCh>>

Bridge ==
    /\ BridgeTake \/ BridgeComplete
    /\ UNCHANGED <<engineVars, runnerVars, reqVars, bounds>>

-----------------------------------------------------------------------------
(* runWorkflow: the goroutine of one run                                   *)

RunnerGoes(e, from, to) ==
    /\ runner[e] = from
    /\ runner' = [runner EXCEPT ![e] = to]

\* A run that cannot be expanded or started is recorded as failed.
WriteFailed(e) ==
    /\ status' = [status EXCEPT ![e] = "failed"]
    /\ completed' = [completed EXCEPT ![e] = TRUE]
    /\ UNCHANGED <<snapshot, nodeRow>>

\* Mutant: the error is logged and the row is left as it was.
RunnerExpandFailsSilently(e) ==
    /\ RunnerGoes(e, "expand", "off")
    /\ UNCHANGED <<dbVars, engineVars, final>>

RunnerExpandFails(e) ==
    /\ RunnerGoes(e, "expand", "off")
    /\ WriteFailed(e)
    /\ UNCHANGED <<engineVars, final>>

\* Mutant: the snapshot is left to the end of the run.
RunnerExpandNoSnapshot(e) ==
    /\ RunnerGoes(e, "expand", "mark")
    /\ UNCHANGED <<dbVars, engineVars, final>>

\* The initial snapshot is saved before anything runs.
RunnerExpand(e) ==
    /\ RunnerGoes(e, "expand", "mark")
    /\ snapshot' = [snapshot EXCEPT ![e] = {}]
    /\ UNCHANGED <<status, completed, nodeRow, engineVars, final>>

RunnerMark(e) ==
    /\ RunnerGoes(e, "mark", "execute")
    /\ status' = [status EXCEPT ![e] = "running"]
    /\ UNCHANGED <<completed, snapshot, nodeRow, engineVars, final>>

RunnerExecute(e) ==
    /\ RunnerGoes(e, "execute", "poll")
    /\ ExecuteWorkflow(e)
    /\ UNCHANGED <<dbVars, final>>

RunnerExecuteFails(e) ==
    /\ RunnerGoes(e, "execute", "off")
    /\ WriteFailed(e)
    /\ UNCHANGED <<engineVars, final>>

\* resolveFinalStatusFromNodes.
FinalFromNodes(e) ==
    LET rows == {nodeRow[e][n] : n \in Nodes} \ {"none"} IN
      IF rows = {} \/ rows \cap {"failed", "running"} # {} THEN "failed"
      ELSE IF "cancelled" \in rows THEN "cancelled"
      ELSE "success"

\* pollWorkflowTerminal returns the status its loop saw ...
RunnerPoll(e) ==
    /\ engine[e] \in EngineTerminal
    /\ RunnerGoes(e, "poll", "read")
    /\ final' = [final EXCEPT ![e] = Lower(engine[e])]
    /\ UNCHANGED <<dbVars, engineVars>>

\* Mutant: the node rows decide at once, without waiting for the bridge.
RunnerPollGoneGuess(e) ==
    /\ ~Present(e)
    /\ RunnerGoes(e, "poll", "read")
    /\ final' = [final EXCEPT ![e] = FinalFromNodes(e)]
    /\ UNCHANGED <<dbVars, engineVars>>

\* Mutant: an error of the poll is a failure of the run.
RunnerPollGoneFailed(e) ==
    /\ ~Present(e)
    /\ RunnerGoes(e, "poll", "read")
    /\ final' = [final EXCEPT ![e] = "failed"]
    /\ UNCHANGED <<dbVars, engineVars>>

\* ... or an error when the instance is gone.
RunnerPollGone(e) ==
    /\ ~Present(e)
    /\ RunnerGoes(e, "poll", "wait")
    /\ UNCHANGED <<dbVars, engineVars, final>>

\* waitEventBridgeTerminal: the bridge has written a terminal status.
RunnerWaitHit(e) ==
    /\ status[e] \in Terminal
    /\ RunnerGoes(e, "wait", "read")
    /\ final' = [final EXCEPT ![e] = status[e]]
    /\ UNCHANGED <<dbVars, engineVars>>

\* The bridge still has the end of this run to write.
BridgeOwes(e) ==
    \/ bridge.exec = e
    \/ \E i \in DOMAIN eventCh : eventCh[i].type = "execution_complete"
                                   /\ eventCh[i].exec = e

\* After 3 s the node rows decide.  Without "lag" a queued event takes less.
RunnerWaitTimeout(e) ==
    /\ status[e] \notin Terminal
    /\ "lag" \in Faults \/ ~BridgeOwes(e)
    /\ RunnerGoes(e, "wait", "read")
    /\ final' = [final EXCEPT ![e] = FinalFromNodes(e)]
    /\ UNCHANGED <<dbVars, engineVars>>

\* SELECT status: a cancelled row keeps its status.
RunnerRead(e) ==
    /\ RunnerGoes(e, "read", "write")
    /\ final' = [final EXCEPT ![e] = IF status[e] = "cancelled" THEN "cancelled" ELSE @]
    /\ UNCHANGED <<dbVars, engineVars>>

RunnerWrite(e) ==
    /\ RunnerGoes(e, "write", "off")
    /\ status' = [status EXCEPT ![e] = final[e]]
    /\ completed' = [completed EXCEPT ![e] = TRUE]
    /\ final' = [final EXCEPT ![e] = "none"]
    /\ UNCHANGED <<snapshot, nodeRow, engineVars>>

Runner(e) ==
    /\ \/ RunnerExpandFails(e) \/ RunnerExpand(e) \/ RunnerMark(e)
       \/ RunnerExecute(e) \/ RunnerExecuteFails(e)
       \/ RunnerPoll(e) \/ RunnerPollGone(e)
       \/ RunnerWaitHit(e) \/ RunnerWaitTimeout(e)
       \/ RunnerRead(e) \/ RunnerWrite(e)
    /\ UNCHANGED <<eventCh, bridge, reqVars, bounds>>

-----------------------------------------------------------------------------
(* The API handlers                                                        *)

Running == {e \in Execs : status[e] = "running"}

\* A request passes its first check, having read the row of e.
Enters(c, op, e, step) ==
    /\ op \in Ops
    /\ at[c] = "idle"
    /\ calls < MaxCalls
    /\ calls' = calls + 1
    /\ at' = [at EXCEPT ![c] = step]
    /\ on' = [on EXCEPT ![c] = e]
    /\ seen' = [seen EXCEPT ![c] = IF e \in Execs THEN snapshot[e] ELSE NoSnapshot]
    /\ UNCHANGED crashes

Moves(c, from, to) ==
    /\ at[c] = from
    /\ at' = [at EXCEPT ![c] = to]
    /\ UNCHANGED <<on, seen, bounds>>

\* The request returns, with success or with an error.
Returns(c, from) ==
    /\ at[c] = from
    /\ at' = [at EXCEPT ![c] = "idle"]
    /\ on' = [on EXCEPT ![c] = NoExec]
    /\ seen' = [seen EXCEPT ![c] = NoSnapshot]
    /\ UNCHANGED bounds

\* Run counts the running rows, then inserts one: two statements.
RunCheck(c) ==
    /\ Cardinality(Running) < MaxConcurrent
    /\ Enters(c, "run", NoExec, "run.insert")
    /\ UNCHANGED <<dbVars, engineVars, runnerVars>>

RunInsert(c, e) ==
    /\ status[e] = "none"
    /\ Returns(c, "run.insert")
    /\ status' = [status EXCEPT ![e] = "running"]
    /\ runner' = [runner EXCEPT ![e] = "expand"]
    /\ UNCHANGED <<completed, snapshot, nodeRow, engineVars, final>>

CancelCheck(c, e) ==
    /\ status[e] \in {"running", "paused"}
    /\ Enters(c, "cancel", e, "cancel.engine")
    /\ UNCHANGED <<dbVars, engineVars, runnerVars>>

\* An instance that is not found is no error.
CancelEngine(c) ==
    /\ Moves(c, "cancel.engine", "cancel.row")
    /\ cancelling' = [cancelling EXCEPT ![on[c]] = @ \/ Present(on[c])]
    /\ UNCHANGED <<dbVars, engine, engNode, reported, outcome, runnerVars>>

\* Mutant: the completion time is left to the engine's events.
CancelRowUnstamped(c) ==
    /\ Moves(c, "cancel.row", "cancel.nodes")
    /\ status' = [status EXCEPT ![on[c]] = "cancelled"]
    /\ UNCHANGED <<completed, snapshot, nodeRow, engineVars, runnerVars>>

CancelRow(c) ==
    /\ Moves(c, "cancel.row", "cancel.nodes")
    /\ status' = [status EXCEPT ![on[c]] = "cancelled"]
    /\ completed' = [completed EXCEPT ![on[c]] = TRUE]
    /\ UNCHANGED <<snapshot, nodeRow, engineVars, runnerVars>>

CancelNodes(c) ==
    /\ Returns(c, "cancel.nodes")
    /\ nodeRow' = [nodeRow EXCEPT ![on[c]] =
                     [n \in Nodes |-> IF @[n] = "running" THEN "cancelled" ELSE @[n]]]
    /\ UNCHANGED <<status, completed, snapshot, engineVars, runnerVars>>

PauseCheck(c, e) ==
    /\ status[e] = "running"
    /\ Enters(c, "pause", e, "pause.engine")
    /\ UNCHANGED <<dbVars, engineVars, runnerVars>>

PauseEngine(c) ==
    /\ Moves(c, "pause.engine", "pause.export")
    /\ engine[on[c]] = "RUNNING"
    /\ engine' = [engine EXCEPT ![on[c]] = "PAUSED"]
    /\ UNCHANGED <<dbVars, engNode, cancelling, reported, outcome, runnerVars>>

PauseRefused(c) ==
    /\ Returns(c, "pause.engine")
    /\ engine[on[c]] # "RUNNING"
    /\ UNCHANGED <<dbVars, engineVars, runnerVars>>

\* Save what the instance exports now; nodes may still be running.
PauseExport(c) ==
    /\ Moves(c, "pause.export", "pause.row")
    /\ snapshot' = [snapshot EXCEPT ![on[c]] = IF Present(on[c]) THEN Done(on[c]) ELSE @]
    /\ UNCHANGED <<status, completed, nodeRow, engineVars, runnerVars>>

PauseRow(c) ==
    /\ Returns(c, "pause.row")
    /\ status' = [status EXCEPT ![on[c]] = "paused"]
    /\ UNCHANGED <<completed, snapshot, nodeRow, engineVars, runnerVars>>

ResumeCheck(c, e) ==
    /\ status[e] = "paused"
    /\ Enters(c, "resume", e, "resume.engine")
    /\ UNCHANGED <<dbVars, engineVars, runnerVars>>

ResumeEngine(c) ==
    /\ Moves(c, "resume.engine", "resume.row")
    /\ engine[on[c]] = "PAUSED"
    /\ engine' = [engine EXCEPT ![on[c]] = "RUNNING"]
    /\ UNCHANGED <<dbVars, engNode, cancelling, reported, outcome, runnerVars>>

\* The instance is gone: rebuild it from the snapshot the request read.
ResumeGone(c) ==
    /\ Moves(c, "resume.engine", "resume.load")
    /\ ~Present(on[c])
    /\ seen[c] # NoSnapshot
    /\ UNCHANGED <<dbVars, engineVars, runnerVars>>

ResumeRefused(c) ==
    /\ Returns(c, "resume.engine")
    /\ \/ Present(on[c]) /\ engine[on[c]] # "PAUSED"
       \/ ~Present(on[c]) /\ seen[c] = NoSnapshot
    /\ UNCHANGED <<dbVars, engineVars, runnerVars>>

\* LoadExecution, common to resume, continue and update.
Load(c, from, to) ==
    /\ Moves(c, from, to)
    /\ LoadExecution(on[c], seen[c])
    /\ UNCHANGED <<dbVars, runnerVars>>

\* Rerun takes an instance that was loaded or has finished.
Rerunnable(e) ==
    \/ engine[e] = "LOADED"
    \/ engine[e] \in EngineTerminal /\ reported[e]

Rerun(e) ==
    /\ Rerunnable(e)
    /\ Launch(e)
    /\ engNode' = [engNode EXCEPT ![e] =
                     [n \in Nodes |-> IF @[n] = "SUCCESS" THEN @[n] ELSE "idle"]]
    /\ cancelling' = [cancelling EXCEPT ![e] = FALSE]
    /\ reported' = [reported EXCEPT ![e] = FALSE]

ResumeRerun(c) ==
    /\ Moves(c, "resume.rerun", "resume.row")
    /\ Rerun(on[c])
    /\ UNCHANGED <<dbVars, runnerVars>>

ResumeRow(c) ==
    /\ Returns(c, "resume.row")
    /\ status' = [status EXCEPT ![on[c]] = "running"]
    /\ UNCHANGED <<completed, snapshot, nodeRow, engineVars, runnerVars>>

\* updateExecutionGraph refuses live executions and rows without a snapshot.
GraphCheck(c, op, e, step) ==
    /\ status[e] \in Terminal
    /\ snapshot[e] # NoSnapshot
    /\ Enters(c, op, e, step)
    /\ UNCHANGED <<dbVars, engineVars, runnerVars>>

ContinueRerun(c) ==
    /\ Returns(c, "continue.rerun")
    /\ Rerun(on[c])
    /\ UNCHANGED <<dbVars, runnerVars>>

RerunRefused(c) ==
    /\ \E step \in {"resume.rerun", "continue.rerun"} : Returns(c, step)
    /\ ~Rerunnable(on[c])
    /\ UNCHANGED <<dbVars, engineVars, runnerVars>>

\* UpdateConfig has changed the instance: its export replaces the snapshot.
SaveGraph(c) ==
    /\ Rerunnable(on[c])
    /\ snapshot' = [snapshot EXCEPT ![on[c]] = Done(on[c])]
    /\ UNCHANGED <<status, completed, nodeRow, engineVars, runnerVars>>

ContinueSave(c) == Moves(c, "continue.save", "continue.rerun") /\ SaveGraph(c)

UpdateSave(c) == Returns(c, "update.save") /\ SaveGraph(c)

\* The new YAML does not expand, is invalid, or does not fit the instance,
\* which stays loaded.
GraphRefused(c) ==
    /\ \E step \in {"continue.save", "update.save"} : Returns(c, step)
    /\ UNCHANGED <<dbVars, engineVars, runnerVars>>

\* A client makes a call that is not refused at once.
NewCall(c) ==
    \/ RunCheck(c)
    \/ \E e \in Execs :
         \/ CancelCheck(c, e) \/ PauseCheck(c, e) \/ ResumeCheck(c, e)
         \/ GraphCheck(c, "continue", e, "continue.load")
         \/ GraphCheck(c, "update", e, "update.load")

\* A request in progress takes its next step.
Handler(c) ==
    \/ \E e \in Execs : RunInsert(c, e)
    \/ CancelEngine(c) \/ CancelRow(c) \/ CancelNodes(c)
    \/ PauseEngine(c) \/ PauseRefused(c) \/ PauseExport(c) \/ PauseRow(c)
    \/ ResumeEngine(c) \/ ResumeGone(c) \/ ResumeRefused(c)
    \/ ResumeRerun(c) \/ ResumeRow(c)
    \/ Load(c, "resume.load", "resume.rerun")
    \/ Load(c, "continue.load", "continue.save")
    \/ Load(c, "continue.load", "continue.rerun")
    \/ Load(c, "update.load", "update.save")
    \/ ContinueSave(c) \/ UpdateSave(c) \/ GraphRefused(c)
    \/ ContinueRerun(c) \/ RerunRefused(c)

Api(c) ==
    /\ NewCall(c) \/ Handler(c)
    /\ UNCHANGED <<eventCh, bridge>>

-----------------------------------------------------------------------------
(* A restart of the server loses everything but the database               *)

Crash ==
    /\ "crash" \in Faults
    /\ crashes < MaxCrashes
    /\ crashes' = crashes + 1
    /\ engine' = [e \in Execs |-> "absent"]
    /\ engNode' = [e \in Execs |-> [n \in Nodes |-> "idle"]]
    /\ cancelling' = [e \in Execs |-> FALSE]
    /\ reported' = [e \in Execs |-> FALSE]
    /\ eventCh' = <<>>
    /\ bridge' = Idle
    /\ runner' = [e \in Execs |-> "off"]
    /\ final' = [e \in Execs |-> "none"]
    /\ at' = [c \in Clients |-> "idle"]
    /\ on' = [c \in Clients |-> NoExec]
    /\ seen' = [c \in Clients |-> NoSnapshot]
    /\ UNCHANGED <<dbVars, outcome, calls>>

Next ==
    \/ \E e \in Execs : Engine(e) \/ Runner(e)
    \/ \E c \in Clients : Api(c)
    \/ Bridge
    \/ Crash

Spec == Init /\ [][Next]_vars

(***************************************************************************)
(* Goroutines are scheduled, started requests proceed, running nodes end;  *)
(* nobody is obliged to make a call, and nothing obliges a node to succeed.*)
(***************************************************************************)
Fairness ==
    /\ WF_vars(Bridge)
    /\ \A e \in Execs : WF_vars(Runner(e)) /\ WF_vars(Engine(e))
    /\ \A c \in Clients : WF_vars(Handler(c) /\ UNCHANGED <<eventCh, bridge>>)

FairSpec == Spec /\ Fairness

-----------------------------------------------------------------------------
(* Properties                                                              *)

(* Nothing runs that could not be rebuilt: an instance of the engine, a    *)
(* run about to start and a paused row all have a snapshot in the          *)
(* database, so a restart at any moment leaves a paused execution that     *)
(* resume can rebuild (runWorkflow saves runtime_yaml before it calls the  *)
(* engine; PauseExecution needs an instance).                              *)
RebuildableAlways ==
    \A e \in Execs :
        Present(e) \/ status[e] = "paused" => snapshot[e] # NoSnapshot

(* A terminal row has its completion time, whichever of the goroutine, the *)
(* bridge and the cancel handler wrote it last.                            *)
TerminalIsStamped ==
    \A e \in Execs : status[e] \in Terminal => completed[e]

(* No goroutine, request or queued event has anything left to write to e.  *)
AtRest(e) ==
    /\ runner[e] = "off"
    /\ engine[e] \in EngineTerminal => reported[e]
    /\ bridge.exec # e
    /\ \A i \in DOMAIN eventCh : eventCh[i].exec # e
    /\ \A c \in Clients : on[c] # e

(* Once everything that concerns e has come to rest, a row that says       *)
(* running belongs to an instance that runs.                               *)
NoZombie ==
    \A e \in Execs :
        AtRest(e) /\ status[e] = "running" => engine[e] \in {"PENDING", "RUNNING"}

(* ... and a row that says success or failed says what the engine said.    *)
RowTellsOutcome ==
    \A e \in Execs :
        AtRest(e) /\ status[e] \in {"success", "failed"} /\ outcome[e] # "none"
            => status[e] = outcome[e]

(* ... and no node row of a finished execution is left running.            *)
NoNodeLeftRunning ==
    \A e \in Execs :
        AtRest(e) /\ status[e] \in Terminal
            => \A n \in Nodes : nodeRow[e][n] # "running"

(* What a finished or failed execution leaves behind runs no more: neither *)
(* its row nor one of its nodes'.                                          *)
NothingLeftRunning == NoZombie /\ NoNodeLeftRunning

(* A closed node row is only ever reopened by the start of the node: a     *)
(* late or repeated node_complete cannot rewrite it (UPDATE ... WHERE      *)
(* status = 'running' in the bridge and in CancelExecution).               *)
NodeRowsCloseOnce ==
    [][\A e \in Execs, n \in Nodes :
         nodeRow[e][n] \in {"success", "failed", "cancelled"}
             => nodeRow'[e][n] \in {nodeRow[e][n], "running"}]_nodeRow

(* No run that the engine failed or cancelled is recorded as a success,    *)
(* although the instance may be gone when the poll asks for its status     *)
(* (the exec-550 incident), as long as the bridge keeps up with the events *)
(* (Faults without "lag").                                                 *)
NoFalseSuccess ==
    [][\A e \in Execs :
         status'[e] = "success" /\ status[e] # "success" => outcome[e] = "success"]_status

(* Every execution that is started comes to a terminal status and stays    *)
(* there.                                                                  *)
EverySettles ==
    \A e \in Execs : status[e] # "none" ~> [](status[e] \in Terminal)

-----------------------------------------------------------------------------
(* What comments and documents say and the code does not do                *)

(* A row that a cancellation made cancelled is not taken back to success   *)
(* or failed by the goroutine or the bridge.                               *)
CancelledIsRespected ==
    [][\A e \in Execs :
         status[e] = "cancelled" => status'[e] \notin {"success", "failed"}]_status

=============================================================================
