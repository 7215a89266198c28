------------------------------- MODULE LiveView --------------------------------
(***************************************************************************)
(* What a page shows of the executions of a workflow.  The page selects    *)
(* one execution and loads its row, its node rows and its log with         *)
(* requests whose answers come in any order; meanwhile the server-sent     *)
(* event stream tells it of every execution of the server.  Each           *)
(* subscriber of the event bus has a channel that drops what does not fit, *)
(* and what is published while the page is disconnected is lost.           *)
(*                                                                         *)
(* Other clients (other pages, the command line) run, cancel, pause,       *)
(* resume, continue and update executions as well.                         *)
(*                                                                         *)
(* Simplifications: an execution has one node; the rows of a run change in *)
(* the order of the script below (Execution has what can go wrong there),  *)
(* a row is written and its event published in one step, the log lines of  *)
(* a node come before its end, and runWorkflow publishes                   *)
(* execution.completed after the bridge is done, before anybody continues  *)
(* the execution; the tables that a load needs are read in one step; a log *)
(* fits in one page; requests do not fail.  The list of executions, older  *)
(* pages of a log, filters, previews and node outputs are left out.        *)
(***************************************************************************)
EXTENDS Naturals, Sequences, FiniteSets

CONSTANTS
    Execs,      \* executions
    Past,       \* those that have ended before the page is opened
    Slots,      \* bound: loads in flight
    MaxLines,   \* bound: log lines of an execution
    StreamCap,  \* capacity of a subscriber's channel
    MaxAsks,    \* bound: operations of the user and of other clients but the first run
    MaxLosses,  \* bound: disconnections, and events that a full channel drops
    Ops,        \* operations on executions that have begun
    Faults,     \* "full": a full channel drops; "break": the stream breaks
    NoExec

ASSUME LiveAssumption ==
    /\ NoExec \notin Execs /\ Past \subseteq Execs
    /\ MaxLines \in Nat \ {0} /\ StreamCap \in Nat \ {0}
    /\ MaxAsks \in Nat /\ MaxLosses \in Nat
    /\ Ops \subseteq {"continue", "pause", "resume", "cancel", "update"}
    /\ Faults \subseteq {"full", "break"}

VARIABLES
    \* the server
    phase,     \* how far the event bridge has come with the run
    owed,      \* runWorkflow has still to publish execution.completed
    status, nodeRow, lines, \* executions, execution_nodes, execution_logs
    stream, connected,      \* the page's channel
    \* the page
    selected,  \* selectedExecutionId
    shown,     \* selectedExecution
    nodes,     \* executionNodes
    canvas,    \* nodeStatuses
    log, buffer, \* executionLog, realtimeLogBuffer
    running,   \* runningExecutionId; isExecuting when there is one
    gap,       \* liveLogGapExecutionId
    posted,    \* the run or continue whose answer the page awaits
    load,      \* loads in flight
    \* history and bounds
    doubtful,  \* executions of which an event was lost, of which a load overlapped
               \* another one, or whose place as the running one a continue took,
               \* since the last full load
    reported,  \* the latest run ended with execution.completed
    asks, losses

rows    == <<phase, owed, status, nodeRow, lines, reported>>
channel == <<stream, connected, losses>>
view    == <<shown, nodes, canvas, log, buffer>>
focus   == <<selected, running, gap>>
vars == <<rows, channel, view, focus, posted, load, doubtful, asks>>

-----------------------------------------------------------------------------
(* Types                                                                   *)

Ended      == {"success", "cancelled"}
Status     == {"none", "running", "paused"} \cup Ended
NodeStatus == {"none", "running", "success", "failed", "cancelled"}
Phase      == {"absent", "begun", "started", "node", "noded", "ended"}
MaybeExec  == Execs \cup {NoExec}

EventType == {"execution_start", "execution_paused", "execution_resumed",
              "execution_cancelled", "node_start", "node_complete", "execution.log",
              "execution_complete", "execution.completed", "execution.updated"}

\* The named events that the page registers for.
KnownEvents == EventType \ {"execution_cancelled"}

\* status: of the execution or the node; line: its number in the log.
NodeEvents == {"node_start", "node_complete"}
Event ==
    [type : EventType \ NodeEvents, exec : Execs, status : Status, line : 0 .. MaxLines]
      \cup [type : NodeEvents, exec : Execs, status : NodeStatus, line : {0}]
Line  == [exec : Execs, line : 0 .. MaxLines]

Blank    == [exec |-> NoExec, status |-> "none"]
NodeView == [exec : MaybeExec, status : NodeStatus]

\* The row comes with every load, node rows and log have answers of their own.
\* select: issued by selectExecution; sync: the canvas is synchronised at the end.
Parts == {"nodes", "log"}
Load  == [exec : MaybeExec, select : BOOLEAN, sync : BOOLEAN,
          awaits : SUBSET Parts, read : BOOLEAN,
          row : Status, nodes : NodeStatus, lines : 0 .. MaxLines]
Request(e, parts, select, sync) ==
    [exec |-> e, select |-> select, sync |-> sync, awaits |-> parts,
     read |-> FALSE, row |-> "none", nodes |-> "none", lines |-> 0]
NoLoad == Request(NoExec, {}, FALSE, FALSE)

Nothing == [op |-> "none", exec |-> NoExec]

TypeOK ==
    /\ phase \in [Execs -> Phase] /\ owed \in [Execs -> BOOLEAN]
    /\ status \in [Execs -> Status] /\ nodeRow \in [Execs -> NodeStatus]
    /\ lines \in [Execs -> 0 .. MaxLines] /\ reported \in [Execs -> BOOLEAN]
    /\ stream \in Seq(Event) /\ Len(stream) <= StreamCap /\ connected \in BOOLEAN
    /\ selected \in MaybeExec /\ running \in MaybeExec /\ gap \in MaybeExec
    /\ shown \in [exec : MaybeExec, status : Status]
    /\ nodes \in NodeView /\ canvas \in NodeView
    /\ log \in Seq(Line) /\ buffer \in Seq(Line)
    /\ posted \in [op : {"none", "run", "continue"}, exec : MaybeExec]
    /\ posted.op = "none" <=> posted.exec = NoExec
    /\ load \in [Slots -> Load]
    /\ doubtful \subseteq Execs
    /\ asks \in 0 .. MaxAsks /\ losses \in 0 .. MaxLosses

Init ==
    /\ phase = [e \in Execs |-> IF e \in Past THEN "ended" ELSE "absent"]
    /\ owed = [e \in Execs |-> FALSE]
    /\ status = [e \in Execs |-> IF e \in Past THEN "success" ELSE "none"]
    /\ nodeRow = status
    /\ lines = [e \in Execs |-> IF e \in Past THEN 1 ELSE 0]
    /\ reported = [e \in Execs |-> e \in Past]
    /\ stream = <<>> /\ connected = TRUE
    /\ selected = NoExec /\ running = NoExec /\ gap = NoExec
    /\ shown = Blank /\ nodes = Blank /\ canvas = Blank
    /\ log = <<>> /\ buffer = <<>>
    /\ posted = Nothing
    /\ load = [s \in Slots |-> NoLoad]
    /\ doubtful = {} /\ asks = 0 /\ losses = 0

-----------------------------------------------------------------------------
(* The server and its other clients                                        *)

Incident(fault) == fault \in Faults /\ losses < MaxLosses /\ losses' = losses + 1

\* Mutant: the capacity is off by one.
PublishOneMore(type, e, st, line) ==
    /\ connected /\ Len(stream) <= StreamCap
    /\ stream' = Append(stream, [type |-> type, exec |-> e, status |-> st, line |-> line])
    /\ UNCHANGED <<doubtful, losses>>

\* Bus.Publish: a channel that is full loses the event.
Publish(type, e, st, line) ==
    \/ /\ connected /\ Len(stream) < StreamCap
       /\ stream' = Append(stream, [type |-> type, exec |-> e, status |-> st, line |-> line])
       /\ UNCHANGED <<doubtful, losses>>
    \/ /\ \/ ~connected /\ UNCHANGED losses
          \/ connected /\ Len(stream) = StreamCap /\ Incident("full")
       /\ stream' = stream
       /\ doubtful' = doubtful \cup {e}

Asked == asks < MaxAsks /\ asks' = asks + 1

Offered(op) == op \in Ops /\ Asked

\* RunWorkflow inserts the row before it answers.
Begin(e) ==
    /\ phase[e] = "absent"
    /\ phase' = [phase EXCEPT ![e] = "begun"]
    /\ owed' = [owed EXCEPT ![e] = TRUE]
    /\ status' = [status EXCEPT ![e] = "running"]
    /\ UNCHANGED <<nodeRow, lines, reported>>

\* The row stays as it is until the bridge has execution_start.
BeginAgain(e) ==
    /\ phase[e] = "ended" /\ ~owed[e]
    /\ phase' = [phase EXCEPT ![e] = "begun"]
    /\ reported' = [reported EXCEPT ![e] = FALSE]
    /\ UNCHANGED <<owed, status, nodeRow, lines>>

Others(e) ==
    /\ \/ Begin(e) /\ UNCHANGED asks
       \/ BeginAgain(e) /\ Offered("continue")
    /\ UNCHANGED <<stream, doubtful, losses>>

\* A handler writes the status and publishes.
SetStatus(op, e, from, to, type) ==
    /\ status[e] \in from
    /\ Offered(op)
    /\ status' = [status EXCEPT ![e] = to]
    /\ Publish(type, e, to, 0)
    /\ UNCHANGED <<phase, owed, lines, reported>>

Pause(e) ==
    /\ SetStatus("pause", e, {"running"}, "paused", "execution_paused")
    /\ UNCHANGED nodeRow

Resume(e) ==
    /\ SetStatus("resume", e, {"paused"}, "running", "execution_resumed")
    /\ UNCHANGED nodeRow

Cancel(e) ==
    /\ SetStatus("cancel", e, {"running", "paused"}, "cancelled", "execution_cancelled")
    /\ nodeRow' = [nodeRow EXCEPT ![e] = IF @ = "running" THEN "cancelled" ELSE @]

\* UpdateExecutionSnapshot.
UpdateGraph(e) ==
    /\ status[e] \in Ended
    /\ Offered("update")
    /\ Publish("execution.updated", e, "none", 0)
    /\ UNCHANGED rows

\* persistRuntimeEvent, one event of the engine after the other.
Advance(e, from, to) ==
    /\ phase[e] \in from
    /\ phase' = [phase EXCEPT ![e] = to]
    /\ UNCHANGED <<owed, lines, reported, asks>>

ExecutionStart(e) ==
    /\ Advance(e, {"begun"}, "started")
    /\ status' = [status EXCEPT ![e] = "running"]
    /\ Publish("execution_start", e, "running", 0)
    /\ UNCHANGED nodeRow

NodeStart(e) ==
    /\ status[e] = "running"
    /\ Advance(e, {"started"}, "node")
    /\ nodeRow' = [nodeRow EXCEPT ![e] = "running"]
    /\ Publish("node_start", e, "running", 0)
    /\ UNCHANGED status

\* The row of a node that a cancellation has closed stays as it is.
NodeComplete(e) ==
    /\ Advance(e, {"node"}, "noded")
    /\ LET st == IF status[e] = "cancelled" THEN "failed" ELSE "success" IN
         /\ nodeRow' = [nodeRow EXCEPT ![e] = IF @ = "running" THEN st ELSE @]
         /\ Publish("node_complete", e, st, 0)
    /\ UNCHANGED status

\* A cancelled run may end without the node having reported its end.
ExecutionComplete(e) ==
    /\ status[e] # "paused"
    /\ Advance(e, IF status[e] = "cancelled" THEN {"started", "node", "noded"}
                  ELSE {"noded"}, "ended")
    /\ LET st == IF status[e] = "cancelled" THEN "cancelled" ELSE "success" IN
         /\ status' = [status EXCEPT ![e] = st]
         /\ Publish("execution_complete", e, st, 0)
    /\ UNCHANGED nodeRow

\* The end of runWorkflow: only a run has one, a continue has not.
Completed(e) ==
    /\ owed[e] /\ phase[e] = "ended"
    /\ owed' = [owed EXCEPT ![e] = FALSE]
    /\ reported' = [reported EXCEPT ![e] = TRUE]
    /\ Publish("execution.completed", e, status[e], 0)
    /\ UNCHANGED <<phase, status, nodeRow, lines, asks>>

\* persistLog.
LogLine(e) ==
    /\ phase[e] = "node" /\ lines[e] < MaxLines
    /\ lines' = [lines EXCEPT ![e] = @ + 1]
    /\ Publish("execution.log", e, "none", lines[e] + 1)
    /\ UNCHANGED <<phase, owed, status, nodeRow, reported, asks>>

Server ==
    /\ \E e \in Execs :
         \/ Others(e) \/ Pause(e) \/ Resume(e) \/ Cancel(e) \/ UpdateGraph(e)
         \/ ExecutionStart(e) \/ NodeStart(e) \/ NodeComplete(e)
         \/ ExecutionComplete(e) \/ Completed(e) \/ LogLine(e)
    /\ UNCHANGED <<connected, view, focus, posted, load>>

-----------------------------------------------------------------------------
(* Loads                                                                   *)

InFlight(s) == load[s] # NoLoad

\* A load is issued; others that are in flight, and events in the channel,
\* may arrive after it.
Issue(e, parts, select, sync) ==
    /\ \E s \in Slots :
         /\ ~InFlight(s)
         /\ load' = [load EXCEPT ![s] = Request(e, parts, select, sync)]
    /\ LET others == {load[s].exec : s \in {t \in Slots : InFlight(t)}} IN
       doubtful' = CASE others # {} -> doubtful \cup others \cup {e}
                     [] others = {} /\ parts = Parts /\ \A i \in DOMAIN stream' : stream'[i].exec # e
                          -> doubtful \ {e}
                     [] OTHER -> doubtful

\* A live execution is sent its log line by line, unless lines were discarded.
Live(e) == running = e /\ gap # e

\* selectExecution: the buffer is flushed first; the row is blanked, the node
\* rows and the log stay until the answers are here.
SelectExecution(e, parts, sync) ==
    /\ log' = log \o buffer /\ buffer' = <<>>
    /\ shown' = Blank
    /\ selected' = e
    /\ Issue(e, parts, TRUE, sync)
    /\ UNCHANGED nodes

PartsOf(e) == IF Live(e) THEN {"nodes"} ELSE Parts

\* The server reads the tables.
Read(s) ==
    /\ InFlight(s) /\ ~load[s].read
    /\ LET e == load[s].exec IN
       load' = [load EXCEPT ![s] = [@ EXCEPT !.read = TRUE, !.row = status[e],
                                      !.nodes = nodeRow[e], !.lines = lines[e]]]
    /\ UNCHANGED <<view, focus>>

\* An answer for an execution that is no longer selected is dropped.
Current(s) == selected = load[s].exec

Answered(s, part) ==
    /\ load[s].read /\ part \in load[s].awaits
    /\ load' = [load EXCEPT ![s].awaits = @ \ {part}]
    /\ UNCHANGED <<shown, canvas, buffer, focus>>

\* Mutant: a late answer is taken for the selected execution's.
NodesAnswerUnguarded(s) ==
    /\ Answered(s, "nodes")
    /\ nodes' = [exec |-> load[s].exec, status |-> load[s].nodes]
    /\ UNCHANGED log

\* loadExecutionNodes.
NodesAnswer(s) ==
    /\ Answered(s, "nodes")
    /\ nodes' = IF Current(s) THEN [exec |-> load[s].exec, status |-> load[s].nodes] ELSE nodes
    /\ UNCHANGED log

LinesOf(e, n) == [i \in 1 .. n |-> [exec |-> e, line |-> i]]

\* Mutant: the lines are added to those that arrived live.
LogAnswerAppended(s) ==
    /\ Answered(s, "log")
    /\ log' = IF Current(s) THEN log \o LinesOf(load[s].exec, load[s].lines) ELSE log
    /\ UNCHANGED nodes

\* loadLatestLogs.
LogAnswer(s) ==
    /\ Answered(s, "log")
    /\ log' = IF Current(s) THEN LinesOf(load[s].exec, load[s].lines) ELSE log
    /\ UNCHANGED nodes

\* syncCanvasStatusesFromExecutionNodes.
Synced == IF selected = NoExec THEN Blank ELSE nodes

\* All answers are here: selectExecution and refreshExecutionContext go on.
LoadDone(s) ==
    /\ load[s].read /\ load[s].awaits = {}
    /\ load' = [load EXCEPT ![s] = NoLoad]
    /\ shown' = IF Current(s) THEN [exec |-> load[s].exec, status |-> load[s].row] ELSE shown
    /\ gap' = IF Current(s) /\ load[s].select /\ gap = load[s].exec THEN NoExec ELSE gap
    /\ canvas' = IF load[s].sync THEN Synced ELSE canvas
    /\ UNCHANGED <<nodes, log, buffer, selected, running>>

Loading ==
    /\ \E s \in Slots :
         Read(s) \/ NodesAnswer(s) \/ LogAnswer(s) \/ LoadDone(s)
    /\ UNCHANGED <<rows, channel, posted, doubtful, asks>>

-----------------------------------------------------------------------------
(* The event stream                                                        *)

AppliesToCanvas(e) == e = selected
AppliesToRun(e)    == e \in {running, selected}

\* updateExecutionStatus, for the selected execution.
WithStatus(e, st) == IF shown.exec = e THEN [shown EXCEPT !.status = st] ELSE shown

Ignore == UNCHANGED <<view, focus, load, doubtful>>

\* refreshExecutionContext, and the canvas after it.
Refresh(e) == Issue(e, {"nodes"}, FALSE, TRUE)

\* A continue that somebody else has started becomes this page's run.
OnExecutionStart(e) ==
    /\ IF AppliesToCanvas(e) /\ running = NoExec
       THEN running' = e /\ Refresh(e)
       ELSE UNCHANGED <<running, load, doubtful>>
    /\ UNCHANGED <<view, selected, gap>>

OnStatus(e, st) ==
    /\ shown' = IF AppliesToRun(e) THEN WithStatus(e, st) ELSE shown
    /\ UNCHANGED <<nodes, canvas, log, buffer, focus, load, doubtful>>

OnNode(e, st) ==
    /\ canvas' = IF AppliesToCanvas(e) THEN [exec |-> e, status |-> st] ELSE canvas
    /\ UNCHANGED <<shown, nodes, log, buffer, focus, load, doubtful>>

\* Lines of another execution are discarded, those of this page's run noted.
OnLog(e, line) ==
    /\ buffer' = IF AppliesToCanvas(e) THEN Append(buffer, [exec |-> e, line |-> line])
                 ELSE buffer
    /\ gap' = IF ~AppliesToCanvas(e) /\ e = running THEN e ELSE gap
    /\ UNCHANGED <<shown, nodes, canvas, log, selected, running, load, doubtful>>

\* stopExecution.
Stop(e) ==
    /\ running' = IF e = running THEN NoExec ELSE running
    /\ gap' = IF e = running THEN NoExec ELSE gap

OnExecutionComplete(e, st) ==
    /\ Stop(e)
    /\ shown' = IF AppliesToRun(e) THEN WithStatus(e, st) ELSE shown
    /\ UNCHANGED <<nodes, canvas, log, buffer, selected, load, doubtful>>

\* Mutant: the final reload trusts the log that arrived live.
OnCompletedNodesOnly(e) ==
    /\ Stop(e)
    /\ IF AppliesToCanvas(e)
       THEN SelectExecution(e, {"nodes"}, FALSE) /\ UNCHANGED canvas
       ELSE UNCHANGED <<view, selected, load, doubtful>>

\* The final reload, which is full: the execution is no longer live.
OnCompleted(e) ==
    /\ Stop(e)
    /\ IF AppliesToCanvas(e)
       THEN SelectExecution(e, Parts, FALSE) /\ UNCHANGED canvas
       ELSE UNCHANGED <<view, selected, load, doubtful>>

OnUpdated(e) ==
    /\ IF AppliesToCanvas(e) THEN Refresh(e) ELSE UNCHANGED <<load, doubtful>>
    /\ UNCHANGED <<view, focus>>

On(event) ==
    LET e == event.exec IN
    CASE event.type = "execution_start"      -> OnExecutionStart(e)
      [] event.type = "execution_paused"     -> OnStatus(e, "paused")
      [] event.type = "execution_resumed"    -> OnStatus(e, "running")
      [] event.type \in NodeEvents            -> OnNode(e, event.status)
      [] event.type = "execution.log"        -> OnLog(e, event.line)
      [] event.type = "execution_complete"   -> OnExecutionComplete(e, event.status)
      [] event.type = "execution.completed"  -> OnCompleted(e)
      [] event.type = "execution.updated"    -> OnUpdated(e)

\* EventSource hands over only the events that have a listener.
Deliver ==
    /\ stream # <<>>
    /\ stream' = Tail(stream)
    /\ IF Head(stream).type \in KnownEvents THEN On(Head(stream)) ELSE Ignore
    /\ UNCHANGED <<rows, connected, losses, posted, asks>>

\* The subscriber goes away with what its channel holds.
Disconnect ==
    /\ Incident("break")
    /\ connected /\ connected' = FALSE
    /\ stream' = <<>>
    /\ doubtful' = doubtful \cup {stream[i].exec : i \in DOMAIN stream}
    /\ UNCHANGED <<rows, view, focus, posted, load, asks>>

\* The page reads the workflow again, and nothing of the executions.
Reconnect ==
    /\ ~connected /\ connected' = TRUE
    /\ UNCHANGED <<rows, stream, losses, view, focus, posted, load, doubtful, asks>>

\* The timer of appendRealtimeLog.
FlushRealtimeLogs ==
    /\ buffer # <<>>
    /\ log' = log \o buffer /\ buffer' = <<>>
    /\ UNCHANGED <<rows, channel, shown, nodes, canvas, focus, posted, load, doubtful, asks>>

-----------------------------------------------------------------------------
(* The user                                                                *)

\* selectExecutionAndSync with an execution that the list shows.
Select(e) ==
    /\ Asked
    /\ status[e] # "none" /\ e # selected
    /\ UNCHANGED <<rows, channel, canvas, running, gap, posted>>
    /\ SelectExecution(e, PartsOf(e), TRUE)

Deselect ==
    /\ Asked
    /\ selected # NoExec /\ selected' = NoExec
    /\ shown' = Blank /\ nodes' = Blank /\ canvas' = Blank
    /\ log' = <<>> /\ buffer' = <<>>
    /\ UNCHANGED <<rows, channel, running, gap, posted, load, doubtful>>

Posts(op, e) ==
    /\ posted = Nothing /\ posted' = [op |-> op, exec |-> e]
    /\ UNCHANGED <<channel, view, focus, load, doubtful>>

\* handleRun without a selection, and with one that has ended.
PostRun(e) == selected = NoExec /\ Begin(e) /\ Posts("run", e) /\ UNCHANGED asks

PostContinue(e) ==
    /\ shown.exec = e /\ shown.status \in Ended
    /\ BeginAgain(e) /\ Offered("continue")
    /\ Posts("continue", e)

\* The answer to a run: startExecution, then the run is selected, as live.
RunAnswer ==
    /\ posted.op = "run" /\ posted' = Nothing
    /\ running' = posted.exec /\ selected' = posted.exec /\ gap' = NoExec
    /\ shown' = Blank /\ nodes' = Blank /\ canvas' = Blank
    /\ log' = <<>> /\ buffer' = <<>>
    /\ UNCHANGED <<rows, channel, asks>>
    /\ Issue(posted.exec, {"nodes"}, TRUE, TRUE)

\* beginContinue.
ContinueAnswer ==
    /\ posted.op = "continue" /\ posted' = Nothing
    /\ running' = posted.exec
    /\ doubtful' = doubtful \cup ({running} \ {posted.exec, NoExec})
    /\ UNCHANGED <<rows, channel, view, selected, gap, load, asks>>

User ==
    \/ \E e \in Execs : Select(e) \/ PostRun(e) \/ PostContinue(e)
    \/ Deselect \/ RunAnswer \/ ContinueAnswer

Next == Server \/ Loading \/ Deliver \/ Disconnect \/ Reconnect \/ FlushRealtimeLogs \/ User

Spec == Init /\ [][Next]_vars

-----------------------------------------------------------------------------
(* Properties                                                              *)

\* Nothing that concerns the page is under way.
Settled ==
    /\ stream = <<>> /\ buffer = <<>> /\ posted = Nothing
    /\ \A s \in Slots : ~InFlight(s)

(* Executions are strictly isolated.  The row shown is that of the         *)
(* selected execution at every moment; node rows and canvas of another one *)
(* are gone when the loads are done, in whatever order executions were     *)
(* selected and answers came; without a selection the canvas is clean      *)
(* (selectExecution, loadExecutionNodes, selectExecutionAndSync).          *)
ShownIsSelected ==
    /\ shown.exec \in {selected, NoExec}
    /\ selected = NoExec => nodes = Blank /\ canvas = Blank
    /\ (\A s \in Slots : ~InFlight(s)) => {nodes.exec, canvas.exec} \subseteq {selected, NoExec}

(* After the end of a run the page agrees with the database: status, node  *)
(* rows and log, each line once, although lines were appended live,        *)
(* reloaded, buffered and discarded before; provided that no event was     *)
(* lost, no load overlapped another one and no continue took the place of  *)
(* the execution as the running one since the last full load (the reload   *)
(* upon execution.completed).                                              *)
ViewCatchesUp ==
    Settled /\ selected \in Execs \ (doubtful \cup {running}) /\ reported[selected] =>
        /\ shown = [exec |-> selected, status |-> status[selected]]
        /\ nodes = [exec |-> selected, status |-> nodeRow[selected]]
        /\ log = LinesOf(selected, lines[selected])

=============================================================================
