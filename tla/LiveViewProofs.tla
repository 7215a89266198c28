---------------------------- MODULE LiveViewProofs ----------------------------
(***************************************************************************)
(* The isolation of executions on a page, and its agreement with the       *)
(* database after the end of a run, for any number of executions and of    *)
(* loads in flight, any capacity of the channel, any faults and any order  *)
(* of answers and events.                                                  *)
(***************************************************************************)
EXTENDS LiveView, SequenceTheorems, TLAPS

-----------------------------------------------------------------------------
(* Types                                                                   *)

\* TypeOK in parts, as the actions touch them.
RowsType ==
    /\ phase \in [Execs -> Phase] /\ owed \in [Execs -> BOOLEAN]
    /\ status \in [Execs -> Status] /\ nodeRow \in [Execs -> NodeStatus]
    /\ lines \in [Execs -> 0 .. MaxLines] /\ reported \in [Execs -> BOOLEAN]

ChannelType ==
    /\ stream \in Seq(Event) /\ Len(stream) <= StreamCap
    /\ losses \in 0 .. MaxLosses

ViewType ==
    /\ shown \in [exec : MaybeExec, status : Status]
    /\ nodes \in NodeView /\ canvas \in NodeView
    /\ log \in Seq(Line) /\ buffer \in Seq(Line)

FocusType == selected \in MaybeExec /\ running \in MaybeExec /\ gap \in MaybeExec

PostedType ==
    /\ posted \in [op : {"none", "run", "continue"}, exec : MaybeExec]
    /\ posted.op = "none" <=> posted.exec = NoExec

LoadsType == load \in [Slots -> Load] /\ doubtful \subseteq Execs

LEMMA TypeParts ==
    TypeOK <=> /\ RowsType /\ ChannelType /\ ViewType /\ FocusType
               /\ PostedType /\ LoadsType
               /\ connected \in BOOLEAN /\ asks \in 0 .. MaxAsks
BY DEF TypeOK, RowsType, ChannelType, ViewType, FocusType, PostedType, LoadsType

\* A slot in use is used for an execution.
Owned == \A s \in Slots : InFlight(s) => load[s].exec \in Execs

Typed ==
    /\ RowsType /\ ChannelType /\ ViewType /\ FocusType /\ PostedType /\ LoadsType
    /\ connected \in BOOLEAN /\ asks \in 0 .. MaxAsks
    /\ Owned

LEMMA BlankType == Blank \in NodeView /\ Blank \in [exec : MaybeExec, status : Status]
                   /\ Blank.exec = NoExec
BY DEF Blank, NodeView, MaybeExec, NodeStatus, Status

LEMMA PublishType ==
    ASSUME ChannelType, doubtful \subseteq Execs, NEW type \in EventType, NEW e \in Execs,
           NEW st, NEW line \in 0 .. MaxLines,
           IF type \in NodeEvents THEN st \in NodeStatus /\ line = 0 ELSE st \in Status,
           Publish(type, e, st, line)
    PROVE  ChannelType' /\ doubtful' \subseteq Execs
<1> DEFINE evt == [type |-> type, exec |-> e, status |-> st, line |-> line]
<1>1. evt \in Event
    BY DEF Event
<1>2. CASE connected /\ Len(stream) < StreamCap /\ stream' = Append(stream, evt)
             /\ UNCHANGED <<doubtful, losses>>
    <2>1. stream' \in Seq(Event) /\ Len(stream') = Len(stream) + 1
        BY <1>1, <1>2 DEF ChannelType
    <2> QED BY <1>2, <2>1, LiveAssumption DEF ChannelType, LiveAssumption
<1>3. CASE stream' = stream /\ doubtful' = doubtful \cup {e}
             /\ (UNCHANGED losses \/ Incident("full"))
    BY <1>3, LiveAssumption DEF ChannelType, Incident, LiveAssumption
<1> QED BY <1>2, <1>3 DEF Publish

LEMMA TakeType ==
    ASSUME ChannelType, stream # <<>>, stream' = Tail(stream), UNCHANGED losses
    PROVE  ChannelType' /\ Head(stream) \in Event
BY LiveAssumption DEF ChannelType, LiveAssumption

(* A load that is issued takes a free slot and changes no other.           *)
LEMMA IssueType ==
    ASSUME LoadsType, Owned, NEW e \in Execs, NEW parts \in SUBSET Parts,
           NEW select \in BOOLEAN, NEW sync \in BOOLEAN, Issue(e, parts, select, sync)
    PROVE  /\ LoadsType' /\ Owned'
           /\ \E s \in Slots : /\ ~InFlight(s)
                               /\ load'[s].exec = e /\ load'[s].sync = sync
                               /\ load'[s].awaits = parts
                               /\ \A t \in Slots \ {s} : load'[t] = load[t]
<1> DEFINE new == Request(e, parts, select, sync)
<1>1. PICK s \in Slots : ~InFlight(s) /\ load' = [load EXCEPT ![s] = new]
    BY DEF Issue
<1>2. new \in Load /\ new.exec = e /\ new.sync = sync /\ new.awaits = parts
    BY LiveAssumption DEF Request, Load, MaybeExec, Status, NodeStatus, LiveAssumption
<1>3. load' \in [Slots -> Load] /\ load'[s] = new /\ \A t \in Slots \ {s} : load'[t] = load[t]
    BY <1>1, <1>2 DEF LoadsType
<1>4. Owned'
    BY <1>2, <1>3 DEF Owned, InFlight
<1>5. doubtful' \subseteq Execs
    BY DEF Issue, LoadsType, Owned
<1> QED BY <1>1, <1>2, <1>3, <1>4, <1>5 DEF LoadsType

LEMMA InitTyped == Init => Typed
<1> SUFFICES ASSUME Init PROVE Typed
    OBVIOUS
<1>1. RowsType
    BY LiveAssumption DEF Init, RowsType, Phase, Status, NodeStatus, Ended, LiveAssumption
<1>2. ChannelType
    BY LiveAssumption DEF Init, ChannelType, LiveAssumption
<1>3. ViewType
    BY BlankType DEF Init, ViewType
<1>4. FocusType /\ PostedType /\ asks \in 0 .. MaxAsks /\ connected \in BOOLEAN
    BY LiveAssumption DEF Init, FocusType, PostedType, Nothing, MaybeExec, LiveAssumption
<1>5. NoLoad \in Load
    BY LiveAssumption DEF NoLoad, Request, Load, MaybeExec, Status, NodeStatus, LiveAssumption
<1>6. LoadsType /\ Owned
    BY <1>5 DEF Init, LoadsType, Owned, InFlight
<1> QED BY <1>1, <1>2, <1>3, <1>4, <1>6 DEF Typed

LEMMA AskedType ==
    ASSUME asks \in 0 .. MaxAsks, Asked \/ UNCHANGED asks
    PROVE  asks' \in 0 .. MaxAsks
BY LiveAssumption DEF Asked, LiveAssumption

(* What the server does keeps the types of rows and channel.               *)
LEMMA ServerTyped ==
    ASSUME Typed, NEW e \in Execs,
           \/ Others(e) \/ Pause(e) \/ Resume(e) \/ Cancel(e) \/ UpdateGraph(e)
           \/ ExecutionStart(e) \/ NodeStart(e) \/ NodeComplete(e)
           \/ ExecutionComplete(e) \/ Completed(e) \/ LogLine(e)
    PROVE  RowsType' /\ ChannelType' /\ doubtful' \subseteq Execs /\ asks' \in 0 .. MaxAsks
<1> USE DEF Typed, LoadsType
<1>a. /\ {"execution_start", "execution_paused", "execution_resumed", "execution_cancelled",
           "node_start", "node_complete", "execution.log", "execution_complete",
           "execution.completed", "execution.updated"} = EventType
      /\ {"none", "running", "paused", "success", "cancelled"} = Status
      /\ {"none", "running", "success", "failed", "cancelled"} = NodeStatus
      /\ {"absent", "begun", "started", "node", "noded", "ended"} = Phase
      /\ {"node_start", "node_complete"} = NodeEvents
      /\ 0 \in 0 .. MaxLines
    BY LiveAssumption DEF EventType, NodeEvents, Status, Ended, NodeStatus, Phase, LiveAssumption
<1>1. CASE Others(e)
    <2>1. asks' \in 0 .. MaxAsks
        BY <1>1, AskedType DEF Others, Offered
    <2> QED BY <1>1, <2>1, <1>a DEF Others, Begin, BeginAgain, RowsType, ChannelType
<1>2. ASSUME NEW op, NEW from, NEW to \in Status, NEW type \in EventType \ NodeEvents,
             SetStatus(op, e, from, to, type), nodeRow' \in [Execs -> NodeStatus]
      PROVE  RowsType' /\ ChannelType' /\ doubtful' \subseteq Execs /\ asks' \in 0 .. MaxAsks
    <2>1. ChannelType' /\ doubtful' \subseteq Execs
        BY <1>2, <1>a, PublishType DEF SetStatus
    <2>2. asks' \in 0 .. MaxAsks
        BY <1>2, AskedType DEF SetStatus, Offered
    <2> QED BY <1>2, <2>1, <2>2 DEF SetStatus, RowsType
<1>3. CASE Pause(e)
    <2>1. SetStatus("pause", e, {"running"}, "paused", "execution_paused")
          /\ nodeRow' \in [Execs -> NodeStatus]
        BY <1>3 DEF Pause, RowsType
    <2> QED BY <1>2, <2>1, <1>a
<1>4. CASE Resume(e)
    <2>1. SetStatus("resume", e, {"paused"}, "running", "execution_resumed")
          /\ nodeRow' \in [Execs -> NodeStatus]
        BY <1>4 DEF Resume, RowsType
    <2> QED BY <1>2, <2>1, <1>a
<1>5. CASE Cancel(e)
    <2>1. SetStatus("cancel", e, {"running", "paused"}, "cancelled", "execution_cancelled")
        BY <1>5 DEF Cancel
    <2>2. nodeRow' \in [Execs -> NodeStatus]
        BY <1>5, <1>a DEF Cancel, RowsType
    <2> QED BY <1>2, <2>1, <2>2, <1>a
<1>6. CASE UpdateGraph(e)
    <2>1. ChannelType' /\ doubtful' \subseteq Execs
        BY <1>6, <1>a, PublishType DEF UpdateGraph
    <2>2. asks' \in 0 .. MaxAsks
        BY <1>6, AskedType DEF UpdateGraph, Offered
    <2> QED BY <1>6, <2>1, <2>2 DEF UpdateGraph, rows, RowsType
<1>7. CASE ExecutionStart(e)
    <2>1. ChannelType' /\ doubtful' \subseteq Execs
        BY <1>7, <1>a, PublishType DEF ExecutionStart
    <2> QED BY <1>7, <2>1, <1>a DEF ExecutionStart, Advance, RowsType
<1>8. CASE NodeStart(e)
    <2>1. ChannelType' /\ doubtful' \subseteq Execs
        BY <1>8, <1>a, PublishType DEF NodeStart
    <2> QED BY <1>8, <2>1, <1>a DEF NodeStart, Advance, RowsType
<1>9. CASE NodeComplete(e)
    <2> DEFINE st == IF status[e] = "cancelled" THEN "failed" ELSE "success"
    <2>1. st \in NodeStatus
        BY <1>a
    <2>2. Publish("node_complete", e, st, 0)
          /\ nodeRow' = [nodeRow EXCEPT ![e] = IF @ = "running" THEN st ELSE @]
        BY <1>9 DEF NodeComplete
    <2> HIDE DEF st
    <2>3. ChannelType' /\ doubtful' \subseteq Execs
        BY <2>1, <2>2, <1>a, PublishType
    <2> QED BY <1>9, <2>1, <2>2, <2>3, <1>a DEF NodeComplete, Advance, RowsType
<1>10. CASE ExecutionComplete(e)
    <2> DEFINE st == IF status[e] = "cancelled" THEN "cancelled" ELSE "success"
    <2>1. st \in Status
        BY <1>a
    <2>2. Publish("execution_complete", e, st, 0) /\ status' = [status EXCEPT ![e] = st]
        BY <1>10 DEF ExecutionComplete
    <2> HIDE DEF st
    <2>3. ChannelType' /\ doubtful' \subseteq Execs
        BY <2>1, <2>2, <1>a, PublishType
    <2> QED BY <1>10, <2>1, <2>2, <2>3, <1>a DEF ExecutionComplete, Advance, RowsType
<1>11. CASE Completed(e)
    <2>1. status[e] \in Status
        BY DEF RowsType
    <2>2. ChannelType' /\ doubtful' \subseteq Execs
        BY <1>11, <2>1, <1>a, PublishType DEF Completed
    <2> QED BY <1>11, <2>2 DEF Completed, RowsType
<1>12. CASE LogLine(e)
    <2>1. lines[e] + 1 \in 0 .. MaxLines
        BY <1>12, LiveAssumption DEF LogLine, RowsType, LiveAssumption
    <2>2. ChannelType' /\ doubtful' \subseteq Execs
        BY <1>12, <2>1, <1>a, PublishType DEF LogLine
    <2> QED BY <1>12, <2>1, <2>2 DEF LogLine, RowsType
<1> QED BY <1>1, <1>3, <1>4, <1>5, <1>6, <1>7, <1>8, <1>9, <1>10, <1>11, <1>12

LEMMA LinesType ==
    ASSUME NEW e \in Execs, NEW n \in 0 .. MaxLines
    PROVE  LinesOf(e, n) \in Seq(Line)
<1>1. n \in Nat /\ \A i \in 1 .. n : [exec |-> e, line |-> i] \in Line
    BY LiveAssumption DEF Line, LiveAssumption
<1>2. LinesOf(e, n) \in [1 .. n -> Line]
    BY <1>1 DEF LinesOf
<1> QED BY <1>1, <1>2, SeqDef

(* A slot in use is used by a load, and an answer belongs to one.          *)
LEMMA UsedSlot ==
    ASSUME Typed, NEW s \in Slots, InFlight(s) \/ load[s].read \/ load[s].awaits # {}
    PROVE  InFlight(s) /\ load[s].exec \in Execs
<1>1. NoLoad.read = FALSE /\ NoLoad.awaits = {}
    BY DEF NoLoad, Request
<1> QED BY <1>1 DEF Typed, Owned, InFlight

LEMMA LoadingTyped ==
    ASSUME Typed, NEW s \in Slots,
           Read(s) \/ NodesAnswer(s) \/ LogAnswer(s) \/ LoadDone(s)
    PROVE  /\ ViewType' /\ FocusType' /\ load' \in [Slots -> Load] /\ Owned'
<1> USE DEF Typed
<1>0. /\ load[s] \in Load
      /\ InFlight(s) \/ load[s].read \/ load[s].awaits # {} => load[s].exec \in Execs
    BY UsedSlot DEF LoadsType
<1>1. CASE Read(s)
    <2> DEFINE e == load[s].exec
               r == [load[s] EXCEPT !.read = TRUE, !.row = status[e],
                                    !.nodes = nodeRow[e], !.lines = lines[e]]
    <2>1. e \in Execs /\ load' = [load EXCEPT ![s] = r]
        BY <1>0, <1>1 DEF Read
    <2>2. status[e] \in Status /\ nodeRow[e] \in NodeStatus /\ lines[e] \in 0 .. MaxLines
        BY <2>1 DEF RowsType
    <2>3. r \in Load /\ r.exec = e
        BY <1>0, <2>1, <2>2 DEF Load
    <2> HIDE DEF r
    <2>4. load' \in [Slots -> Load] /\ Owned'
        BY <2>1, <2>3 DEF LoadsType, Owned, InFlight
    <2> QED BY <1>1, <2>4 DEF Read, view, focus, ViewType, FocusType
<1>2. ASSUME NEW part \in Parts, Answered(s, part)
      PROVE  /\ load' \in [Slots -> Load] /\ Owned' /\ FocusType'
             /\ load[s].exec \in Execs
    <2>1. [load[s] EXCEPT !.awaits = @ \ {part}] \in Load
        BY <1>0 DEF Load
    <2>2. load[s].exec \in Execs
        BY <1>0, <1>2 DEF Answered
    <2>3. load' \in [Slots -> Load] /\ Owned'
        BY <1>2, <2>1, <2>2 DEF Answered, LoadsType, Owned, InFlight
    <2> QED BY <1>2, <2>2, <2>3 DEF Answered, focus, FocusType
<1>3. CASE NodesAnswer(s)
    <2>1. Answered(s, "nodes") /\ "nodes" \in Parts
        BY <1>3 DEF NodesAnswer, Parts
    <2>2. [exec |-> load[s].exec, status |-> load[s].nodes] \in NodeView
        BY <1>0 DEF Load, NodeView
    <2> QED BY <1>2, <1>3, <2>1, <2>2 DEF NodesAnswer, Answered, ViewType
<1>4. CASE LogAnswer(s)
    <2>1. Answered(s, "log") /\ "log" \in Parts
        BY <1>4 DEF LogAnswer, Parts
    <2>2. LinesOf(load[s].exec, load[s].lines) \in Seq(Line)
        BY <1>0, <1>2, <2>1, LinesType DEF Load
    <2> QED BY <1>2, <1>4, <2>1, <2>2 DEF LogAnswer, Answered, ViewType
<1>5. CASE LoadDone(s)
    <2>1. NoLoad \in Load
        BY LiveAssumption DEF NoLoad, Request, Load, MaybeExec, Status, NodeStatus, LiveAssumption
    <2>2. load' \in [Slots -> Load] /\ Owned'
        BY <1>5, <2>1 DEF LoadDone, LoadsType, Owned, InFlight
    <2>3. Synced \in NodeView
        BY BlankType DEF Synced, ViewType
    <2>4. [exec |-> load[s].exec, status |-> load[s].row] \in [exec : MaybeExec, status : Status]
        BY <1>0 DEF Load
    <2>5. ViewType'
        BY <1>5, <2>3, <2>4 DEF LoadDone, ViewType
    <2>6. FocusType'
        BY <1>5 DEF LoadDone, FocusType, MaybeExec
    <2> QED BY <2>2, <2>5, <2>6
<1> QED BY <1>1, <1>3, <1>4, <1>5

(* The handlers that an event may reach; without one that is registered    *)
(* there is none.                                                          *)
LEMMA OnCases ==
    ASSUME NEW event \in Event, event.type \in KnownEvents, On(event)
    PROVE  \/ OnExecutionStart(event.exec)
           \/ OnStatus(event.exec, "paused") \/ OnStatus(event.exec, "running")
           \/ event.type \in NodeEvents /\ OnNode(event.exec, event.status)
           \/ OnLog(event.exec, event.line)
           \/ event.type \notin NodeEvents /\ OnExecutionComplete(event.exec, event.status)
           \/ OnCompleted(event.exec) \/ OnUpdated(event.exec)
BY DEF On, KnownEvents, EventType, NodeEvents

(* A selection blanks the row and keeps the types.                         *)
LEMMA SelectType ==
    ASSUME Typed, NEW e \in Execs, NEW parts \in SUBSET Parts, NEW sync \in BOOLEAN,
           SelectExecution(e, parts, sync), canvas' \in NodeView
    PROVE  ViewType' /\ LoadsType' /\ Owned' /\ selected' \in MaybeExec
<1>1. LoadsType' /\ Owned'
    BY IssueType DEF SelectExecution, Typed
<1>2. log \o buffer \in Seq(Line) /\ <<>> \in Seq(Line)
    BY DEF Typed, ViewType
<1>3. ViewType'
    BY <1>2, BlankType DEF SelectExecution, Typed, ViewType
<1> QED BY <1>1, <1>3 DEF SelectExecution, MaybeExec

(* An event is handled for one execution; what it changes keeps its type.  *)
LEMMA OnTyped ==
    ASSUME Typed, NEW event \in Event, event.type \in KnownEvents, On(event)
    PROVE  ViewType' /\ FocusType' /\ LoadsType' /\ Owned'
<1> DEFINE e == event.exec
<1>1. /\ e \in Execs /\ event.line \in 0 .. MaxLines /\ event.type \in EventType
      /\ event.type \in NodeEvents => event.status \in NodeStatus
      /\ event.type \notin NodeEvents => event.status \in Status
    <2>1. CASE event \in [type : EventType \ NodeEvents, exec : Execs, status : Status,
                          line : 0 .. MaxLines]
        BY <2>1
    <2>2. CASE event \in [type : NodeEvents, exec : Execs, status : NodeStatus, line : {0}]
        BY <2>2, LiveAssumption DEF NodeEvents, EventType, LiveAssumption
    <2> QED BY <2>1, <2>2 DEF Event
<1> HIDE DEF e
<1> USE DEF Typed
<1>2. {"nodes"} \in SUBSET Parts /\ Parts \in SUBSET Parts /\ TRUE \in BOOLEAN /\ FALSE \in BOOLEAN
    BY DEF Parts
<1>3. ASSUME UNCHANGED <<load, doubtful>> PROVE LoadsType' /\ Owned'
    BY <1>3 DEF LoadsType, Owned, InFlight
<1>4. ASSUME Refresh(e) PROVE LoadsType' /\ Owned'
    BY <1>1, <1>2, <1>4, IssueType DEF Refresh
<1>5. ASSUME NEW st \in Status PROVE WithStatus(e, st) \in [exec : MaybeExec, status : Status]
    BY DEF WithStatus, ViewType
<1>6. ASSUME Stop(e) PROVE running' \in MaybeExec /\ gap' \in MaybeExec
    BY <1>6 DEF Stop, FocusType, MaybeExec
<1>7. CASE OnExecutionStart(e)
    <2>1. ViewType' /\ FocusType'
        BY <1>1, <1>7 DEF OnExecutionStart, view, ViewType, FocusType, MaybeExec
    <2> QED BY <1>3, <1>4, <1>7, <2>1 DEF OnExecutionStart
<1>8. ASSUME NEW st \in Status, OnStatus(e, st)
      PROVE  ViewType' /\ FocusType' /\ LoadsType' /\ Owned'
    <2>1. ViewType' /\ FocusType'
        BY <1>5, <1>8 DEF OnStatus, focus, ViewType, FocusType
    <2> QED BY <1>3, <1>8, <2>1 DEF OnStatus
<1>9. ASSUME event.status \in NodeStatus, OnNode(e, event.status)
      PROVE  ViewType' /\ FocusType' /\ LoadsType' /\ Owned'
    <2>1. ViewType' /\ FocusType'
        BY <1>1, <1>9 DEF OnNode, focus, ViewType, FocusType, NodeView, MaybeExec
    <2> QED BY <1>3, <1>9, <2>1 DEF OnNode
<1>10. CASE OnLog(e, event.line)
    <2>1. [exec |-> e, line |-> event.line] \in Line
        BY <1>1 DEF Line
    <2>2. buffer' \in Seq(Line)
        BY <1>10, <2>1 DEF OnLog, ViewType
    <2>3. ViewType' /\ FocusType'
        BY <1>1, <1>10, <2>2 DEF OnLog, ViewType, FocusType, MaybeExec
    <2> QED BY <1>3, <1>10, <2>3 DEF OnLog
<1>11. ASSUME event.status \in Status, OnExecutionComplete(e, event.status)
       PROVE  ViewType' /\ FocusType' /\ LoadsType' /\ Owned'
    <2>1. ViewType' /\ FocusType'
        BY <1>5, <1>6, <1>11 DEF OnExecutionComplete, ViewType, FocusType
    <2> QED BY <1>3, <1>11, <2>1 DEF OnExecutionComplete
<1>12. CASE OnCompleted(e)
    <2>1. CASE AppliesToCanvas(e)
        <3>1. SelectExecution(e, Parts, FALSE) /\ UNCHANGED canvas
            BY <1>12, <2>1 DEF OnCompleted
        <3>2. canvas' \in NodeView
            BY <3>1 DEF ViewType
        <3>3. ViewType' /\ LoadsType' /\ Owned' /\ selected' \in MaybeExec
            BY <1>1, <1>2, <3>1, <3>2, SelectType
        <3> QED BY <1>6, <1>12, <3>3 DEF OnCompleted, FocusType
    <2>2. CASE ~AppliesToCanvas(e)
        <3>1. ViewType' /\ FocusType'
            BY <1>6, <1>12, <2>2 DEF OnCompleted, view, ViewType, FocusType
        <3> QED BY <1>3, <1>12, <2>2, <3>1 DEF OnCompleted
    <2> QED BY <2>1, <2>2
<1>13. CASE OnUpdated(e)
    <2>1. ViewType' /\ FocusType'
        BY <1>13 DEF OnUpdated, view, focus, ViewType, FocusType
    <2> QED BY <1>3, <1>4, <1>13, <2>1 DEF OnUpdated
<1>14. "paused" \in Status /\ "running" \in Status
    BY DEF Status
<1> QED
    <2>1. \/ OnExecutionStart(e) \/ OnStatus(e, "paused") \/ OnStatus(e, "running")
          \/ event.type \in NodeEvents /\ OnNode(e, event.status)
          \/ OnLog(e, event.line)
          \/ event.type \notin NodeEvents /\ OnExecutionComplete(e, event.status)
          \/ OnCompleted(e) \/ OnUpdated(e)
        BY OnCases DEF e
    <2> QED BY <1>1, <1>7, <1>8, <1>9, <1>10, <1>11, <1>12, <1>13, <1>14, <2>1

LEMMA UserTyped ==
    ASSUME Typed, User
    PROVE  Typed'
<1> USE DEF Typed
<1>0. /\ {"nodes"} \in SUBSET Parts /\ Parts \in SUBSET Parts
      /\ TRUE \in BOOLEAN /\ FALSE \in BOOLEAN
    BY DEF Parts
<1>1. ASSUME UNCHANGED <<load, doubtful>> PROVE LoadsType' /\ Owned'
    BY <1>1 DEF LoadsType, Owned, InFlight
<1>2. CASE \E e \in Execs : Select(e)
    <2>1. PICK e \in Execs : Select(e)
        BY <1>2
    <2>2. SelectExecution(e, PartsOf(e), TRUE) /\ canvas' \in NodeView /\ PartsOf(e) \in SUBSET Parts
        BY <2>1, <1>0 DEF Select, ViewType, PartsOf
    <2>3. ViewType' /\ LoadsType' /\ Owned' /\ selected' \in MaybeExec
        BY <1>0, <2>2, SelectType
    <2>4. asks' \in 0 .. MaxAsks
        BY <2>1, AskedType DEF Select
    <2> QED BY <2>1, <2>3, <2>4 DEF Select, rows, channel, RowsType, ChannelType, FocusType,
               PostedType
<1>3. CASE Deselect
    <2>1. asks' \in 0 .. MaxAsks
        BY <1>3, AskedType DEF Deselect
    <2>2. ViewType' /\ FocusType'
        BY <1>3, BlankType DEF Deselect, ViewType, FocusType, MaybeExec
    <2> QED BY <1>1, <1>3, <2>1, <2>2 DEF Deselect, rows, channel, RowsType, ChannelType, PostedType
<1>4. ASSUME NEW op \in {"run", "continue"}, NEW e \in Execs, Posts(op, e),
             Begin(e) \/ BeginAgain(e), asks' \in 0 .. MaxAsks
      PROVE  Typed'
    <2>1. RowsType'
        BY <1>4 DEF Begin, BeginAgain, RowsType, Phase, Status
    <2>2. PostedType'
        BY <1>4, LiveAssumption DEF Posts, PostedType, MaybeExec, LiveAssumption
    <2>3. ViewType' /\ FocusType' /\ ChannelType' /\ connected' \in BOOLEAN
        BY <1>4 DEF Posts, view, focus, channel, ViewType, FocusType, ChannelType
    <2> QED BY <1>1, <1>4, <2>1, <2>2, <2>3 DEF Posts
<1>5. CASE \E e \in Execs : PostRun(e) \/ PostContinue(e)
    BY <1>4, <1>5, AskedType DEF PostRun, PostContinue, Offered
<1>6. CASE RunAnswer
    <2>1. posted.exec \in Execs
        BY <1>6 DEF RunAnswer, PostedType, MaybeExec
    <2>2. LoadsType' /\ Owned'
        BY <1>0, <1>6, <2>1, IssueType DEF RunAnswer
    <2>3. ViewType' /\ FocusType'
        BY <1>6, <2>1, BlankType DEF RunAnswer, ViewType, FocusType, MaybeExec
    <2>4. PostedType'
        BY <1>6 DEF RunAnswer, PostedType, Nothing, MaybeExec
    <2> QED BY <1>6, <2>2, <2>3, <2>4 DEF RunAnswer, rows, channel, RowsType, ChannelType
<1>7. CASE ContinueAnswer
    <2>1. posted.exec \in MaybeExec
        BY DEF PostedType
    <2>2. ViewType' /\ FocusType'
        BY <1>7, <2>1 DEF ContinueAnswer, view, ViewType, FocusType
    <2>3. PostedType'
        BY <1>7 DEF ContinueAnswer, PostedType, Nothing, MaybeExec
    <2>4. LoadsType' /\ Owned'
        BY <1>7 DEF ContinueAnswer, FocusType, MaybeExec, LoadsType, Owned, InFlight
    <2> QED BY <1>7, <2>2, <2>3, <2>4 DEF ContinueAnswer, rows, channel, RowsType, ChannelType
<1> QED BY <1>2, <1>3, <1>5, <1>6, <1>7 DEF User

LEMMA NextTyped == Typed /\ [Next]_vars => Typed'
<1> SUFFICES ASSUME Typed, [Next]_vars PROVE Typed'
    OBVIOUS
<1> USE DEF Typed
<1>1. CASE Server
    <2>1. PICK e \in Execs :
            \/ Others(e) \/ Pause(e) \/ Resume(e) \/ Cancel(e) \/ UpdateGraph(e)
            \/ ExecutionStart(e) \/ NodeStart(e) \/ NodeComplete(e)
            \/ ExecutionComplete(e) \/ Completed(e) \/ LogLine(e)
        BY <1>1 DEF Server
    <2>2. RowsType' /\ ChannelType' /\ doubtful' \subseteq Execs /\ asks' \in 0 .. MaxAsks
        BY <2>1, ServerTyped
    <2> QED BY <1>1, <2>2 DEF Server, view, focus, ViewType, FocusType, PostedType, LoadsType,
               Owned, InFlight
<1>2. CASE Loading
    <2>1. PICK s \in Slots : Read(s) \/ NodesAnswer(s) \/ LogAnswer(s) \/ LoadDone(s)
        BY <1>2 DEF Loading
    <2>2. ViewType' /\ FocusType' /\ load' \in [Slots -> Load] /\ Owned'
        BY <2>1, LoadingTyped
    <2> QED BY <1>2, <2>2 DEF Loading, rows, channel, RowsType, ChannelType, PostedType, LoadsType
<1>3. CASE Deliver
    <2>1. Head(stream) \in Event /\ ChannelType'
        BY <1>3, TakeType DEF Deliver
    <2>2. ViewType' /\ FocusType' /\ LoadsType' /\ Owned'
        <3>1. CASE Head(stream).type \in KnownEvents
            BY <1>3, <2>1, <3>1, OnTyped DEF Deliver
        <3>2. CASE Ignore
            BY <3>2 DEF Ignore, view, focus, ViewType, FocusType, LoadsType, Owned, InFlight
        <3> QED BY <1>3, <3>1, <3>2 DEF Deliver
    <2> QED BY <1>3, <2>1, <2>2 DEF Deliver, rows, RowsType, PostedType
<1>4. CASE Disconnect
    <2>1. \A i \in DOMAIN stream : stream[i] \in Event /\ stream[i].exec \in Execs
        BY DEF ChannelType, Event
    <2>2. LoadsType' /\ Owned'
        BY <1>4, <2>1 DEF Disconnect, LoadsType, Owned, InFlight
    <2>3. ChannelType'
        BY <1>4, LiveAssumption DEF Disconnect, Incident, ChannelType, LiveAssumption
    <2> QED BY <1>4, <2>2, <2>3 DEF Disconnect, rows, view, focus, RowsType, ViewType, FocusType,
               PostedType
<1>5. CASE Reconnect
    BY <1>5 DEF Reconnect, rows, view, focus, RowsType, ChannelType, ViewType, FocusType,
           PostedType, LoadsType, Owned, InFlight
<1>6. CASE FlushRealtimeLogs
    <2>1. log' \in Seq(Line) /\ buffer' \in Seq(Line)
        BY <1>6 DEF FlushRealtimeLogs, ViewType
    <2> QED BY <1>6, <2>1 DEF FlushRealtimeLogs, rows, channel, focus, RowsType, ChannelType,
               ViewType, FocusType, PostedType, LoadsType, Owned, InFlight
<1>7. CASE User
    BY <1>7, UserTyped
<1>8. CASE UNCHANGED vars
    BY <1>8 DEF vars, rows, channel, view, focus, RowsType, ChannelType, ViewType, FocusType,
           PostedType, LoadsType, Owned, InFlight
<1> QED BY <1>1, <1>2, <1>3, <1>4, <1>5, <1>6, <1>7, <1>8 DEF Next

(* The types of LiveView: rows, channel, view, focus, loads.               *)
THEOREM TypeCorrect == Spec => []TypeOK
<1>1. Init => Typed
    BY InitTyped
<1>2. Typed /\ [Next]_vars => Typed'
    BY NextTyped
<1>3. Typed => TypeOK
    BY TypeParts DEF Typed
<1> QED BY <1>1, <1>2, <1>3, PTL DEF Spec

-----------------------------------------------------------------------------
(* Isolation                                                               *)

\* A load of the selected execution will replace the node rows ...
NodesDue == \E s \in Slots : load[s].exec = selected /\ load[s].sync /\ "nodes" \in load[s].awaits

\* ... and one will synchronise the canvas.
CanvasDue == \E s \in Slots : InFlight(s) /\ load[s].exec = selected /\ load[s].sync

(* The row is blanked at once, and what is left of another execution is    *)
(* due to be replaced.                                                     *)
Isolated ==
    /\ shown.exec \in {selected, NoExec}
    /\ selected = NoExec => nodes = Blank /\ canvas = Blank
    /\ nodes.exec \in {selected, NoExec} \/ NodesDue
    /\ canvas.exec \in {selected, NoExec} \/ CanvasDue

LEMMA DueIsInFlight ==
    ASSUME Typed, NodesDue
    PROVE  CanvasDue
BY UsedSlot DEF NodesDue, CanvasDue

(* What is due stays due when loads are issued and none is answered.       *)
LEMMA DueStays ==
    ASSUME Typed, UNCHANGED selected,
           \/ UNCHANGED load
           \/ \E s \in Slots : ~InFlight(s) /\ \A t \in Slots \ {s} : load'[t] = load[t]
    PROVE  (NodesDue => NodesDue') /\ (CanvasDue => CanvasDue')
<1>1. CASE UNCHANGED load
    BY <1>1 DEF NodesDue, CanvasDue, InFlight
<1>2. ASSUME NEW s \in Slots, ~InFlight(s), \A t \in Slots \ {s} : load'[t] = load[t]
      PROVE  (NodesDue => NodesDue') /\ (CanvasDue => CanvasDue')
    <2>1. \A t \in Slots : InFlight(t) \/ load[t].awaits # {} => load'[t] = load[t]
        BY <1>2, UsedSlot
    <2>2. NodesDue => NodesDue'
        BY <2>1 DEF NodesDue
    <2>3. CanvasDue => CanvasDue'
        BY <2>1 DEF CanvasDue, InFlight
    <2> QED BY <2>2, <2>3
<1> QED BY <1>1, <1>2

(* A step that issues loads at most, and changes node rows and canvas to   *)
(* those of the selected execution at most, keeps the isolation.           *)
LEMMA QuietStep ==
    ASSUME Typed, Isolated, UNCHANGED selected,
           \/ UNCHANGED load
           \/ \E s \in Slots : ~InFlight(s) /\ \A t \in Slots \ {s} : load'[t] = load[t],
           shown'.exec \in {shown.exec, NoExec}, UNCHANGED nodes,
           UNCHANGED canvas \/ (selected # NoExec /\ canvas'.exec = selected)
    PROVE  Isolated'
BY DueStays DEF Isolated

(* A selection with nodes to load and a synchronisation to follow.         *)
LEMMA SelectStep ==
    ASSUME Typed, NEW e \in Execs, NEW parts \in SUBSET Parts, "nodes" \in parts,
           selected' = e, shown' = Blank, Issue(e, parts, TRUE, TRUE)
    PROVE  Isolated'
<1> DEFINE yes == TRUE
<1>0. LoadsType /\ Owned /\ yes \in BOOLEAN /\ Issue(e, parts, yes, yes)
    BY DEF Typed
<1> HIDE DEF yes
<1>1. PICK s \in Slots : load'[s].exec = e /\ load'[s].sync = yes /\ load'[s].awaits = parts
    BY <1>0, IssueType
<1>2. load'[s] # NoLoad
    BY <1>1 DEF NoLoad, Request
<1>3. NodesDue' /\ CanvasDue'
    BY <1>1, <1>2 DEF NodesDue, CanvasDue, InFlight, yes
<1>4. e # NoExec /\ Blank.exec = NoExec
    BY LiveAssumption DEF Blank, LiveAssumption
<1> QED BY <1>3, <1>4 DEF Isolated

LEMMA LoadingIsolated ==
    ASSUME Typed, Isolated, NEW s \in Slots,
           Read(s) \/ NodesAnswer(s) \/ LogAnswer(s) \/ LoadDone(s)
    PROVE  Isolated'
<1>0. /\ load[s] \in Load /\ load \in [Slots -> Load]
      /\ InFlight(s) \/ load[s].read \/ load[s].awaits # {}
           => InFlight(s) /\ load[s].exec \in Execs
    BY UsedSlot DEF Typed, LoadsType
<1>1. CASE Read(s)
    <2>1. \A t \in Slots : InFlight(t) => /\ load'[t].exec = load[t].exec
                                         /\ load'[t].sync = load[t].sync
                                         /\ load'[t].awaits = load[t].awaits
                                         /\ load'[t] # NoLoad
        <3> DEFINE e == load[s].exec
                   r == [load[s] EXCEPT !.read = TRUE, !.row = status[e],
                                        !.nodes = nodeRow[e], !.lines = lines[e]]
        <3>1. load' = [load EXCEPT ![s] = r]
            BY <1>1 DEF Read
        <3>2. r.exec = load[s].exec /\ r.sync = load[s].sync /\ r.awaits = load[s].awaits
              /\ r.read = TRUE
            BY <1>0 DEF Load
        <3>3. NoLoad.read = FALSE
            BY DEF NoLoad, Request
        <3> HIDE DEF r
        <3> QED BY <1>0, <3>1, <3>2, <3>3 DEF InFlight
    <2>2. NodesDue => NodesDue'
        BY <1>1, <2>1, UsedSlot DEF NodesDue, Read, focus
    <2>3. CanvasDue => CanvasDue'
        BY <1>1, <2>1 DEF CanvasDue, Read, focus, InFlight
    <2> QED BY <1>1, <2>2, <2>3 DEF Isolated, Read, view, focus
<1>2. ASSUME NEW part \in Parts, Answered(s, part)
      PROVE  /\ CanvasDue => CanvasDue'
             /\ part = "log" /\ NodesDue => NodesDue'
             /\ \A t \in Slots \ {s} : load'[t] = load[t]
             /\ load[s].exec \in Execs
    <2> DEFINE r == [load[s] EXCEPT !.awaits = @ \ {part}]
    <2>1. load' = [load EXCEPT ![s] = r] /\ load[s].read
        BY <1>2 DEF Answered
    <2>2. r.exec = load[s].exec /\ r.sync = load[s].sync /\ r.read = load[s].read
          /\ r.awaits = load[s].awaits \ {part}
        BY <1>0 DEF Load
    <2>3. NoLoad.read = FALSE
        BY DEF NoLoad, Request
    <2> HIDE DEF r
    <2>4. CanvasDue => CanvasDue'
        BY <1>0, <1>2, <2>1, <2>2, <2>3 DEF CanvasDue, InFlight, Answered, focus
    <2>5. part = "log" /\ NodesDue => NodesDue'
        BY <1>0, <1>2, <2>1, <2>2 DEF NodesDue, Answered, focus
    <2> QED BY <1>0, <2>1, <2>4, <2>5
<1>3. CASE NodesAnswer(s)
    <2>1. Answered(s, "nodes") /\ "nodes" \in Parts
        BY <1>3 DEF NodesAnswer, Parts
    <2>2. (CanvasDue => CanvasDue') /\ load[s].exec # NoExec
        BY <1>2, <2>1, LiveAssumption DEF LiveAssumption
    <2>3. nodes'.exec \in {selected', NoExec} \/ NodesDue'
        <3>1. CASE Current(s)
            BY <1>3, <2>1, <3>1 DEF NodesAnswer, Answered, focus, Current
        <3>2. CASE ~Current(s)
            BY <1>2, <1>3, <2>1, <3>2 DEF NodesAnswer, Answered, focus, Current, Isolated, NodesDue
        <3> QED BY <3>1, <3>2
    <2> QED BY <1>3, <2>1, <2>2, <2>3 DEF NodesAnswer, Answered, focus, Current, Isolated
<1>4. CASE LogAnswer(s)
    <2>1. Answered(s, "log") /\ "log" \in Parts
        BY <1>4 DEF LogAnswer, Parts
    <2>2. (CanvasDue => CanvasDue') /\ (NodesDue => NodesDue')
        BY <1>2, <2>1
    <2> QED BY <1>4, <2>1, <2>2 DEF LogAnswer, Answered, focus, Isolated
<1>5. CASE LoadDone(s)
    <2>1. UNCHANGED <<selected, nodes>> /\ \A t \in Slots \ {s} : load'[t] = load[t]
        BY <1>0, <1>5 DEF LoadDone
    <2>2. NodesDue => NodesDue'
        BY <1>5, <2>1 DEF NodesDue, LoadDone
    <2>3. ~load[s].sync => (CanvasDue => CanvasDue')
        BY <2>1 DEF CanvasDue, InFlight
    <2>4. shown'.exec \in {selected', NoExec}
        BY <1>5 DEF LoadDone, Isolated, Current
    <2>5. selected' = NoExec => nodes' = Blank /\ canvas' = Blank
        BY <1>5, <2>1 DEF LoadDone, Synced, Isolated
    <2>6. canvas'.exec \in {selected', NoExec} \/ CanvasDue'
        <3>1. CASE load[s].sync /\ selected = NoExec
            BY <1>5, <2>1, <2>5, <3>1, BlankType
        <3>2. CASE load[s].sync /\ selected # NoExec
            <4>1. canvas' = nodes
                BY <1>5, <3>2 DEF LoadDone, Synced
            <4>2. NodesDue => CanvasDue'
                BY <1>5, <2>1, UsedSlot DEF NodesDue, CanvasDue, InFlight, LoadDone
            <4> QED BY <2>1, <4>1, <4>2 DEF Isolated
        <3>3. CASE ~load[s].sync
            BY <1>5, <2>1, <2>3, <3>3 DEF LoadDone, Isolated
        <3> QED BY <3>1, <3>2, <3>3
    <2> QED BY <2>1, <2>2, <2>4, <2>5, <2>6 DEF Isolated
<1> QED BY <1>1, <1>3, <1>4, <1>5

(* A handler changes what belongs to the selected execution, or issues a   *)
(* load of it.                                                             *)
LEMMA OnIsolated ==
    ASSUME Typed, Isolated, NEW event \in Event, event.type \in KnownEvents, On(event)
    PROVE  Isolated'
<1> DEFINE e == event.exec
<1>0. /\ e \in Execs /\ e # NoExec /\ {"nodes"} \in SUBSET Parts /\ Parts \in SUBSET Parts
      /\ LoadsType /\ Owned /\ TRUE \in BOOLEAN /\ FALSE \in BOOLEAN
    BY LiveAssumption DEF Event, Parts, Typed, LiveAssumption
<1> HIDE DEF e
<1>1. ASSUME UNCHANGED load \/ \E parts \in SUBSET Parts, select, sync \in BOOLEAN :
                                   Issue(e, parts, select, sync)
      PROVE  \/ UNCHANGED load
             \/ \E s \in Slots : ~InFlight(s) /\ \A t \in Slots \ {s} : load'[t] = load[t]
    BY <1>0, <1>1, IssueType
<1>2. Refresh(e) => \E parts \in SUBSET Parts, select, sync \in BOOLEAN :
                        Issue(e, parts, select, sync)
    BY <1>0 DEF Refresh
<1>3. \A st : WithStatus(e, st).exec = shown.exec
    BY DEF WithStatus, Typed, ViewType
<1>4. CASE OnExecutionStart(e)
    BY <1>1, <1>2, <1>4, QuietStep DEF OnExecutionStart, view
<1>5. CASE OnUpdated(e)
    BY <1>1, <1>2, <1>5, QuietStep DEF OnUpdated, view, focus
<1>6. ASSUME NEW st, OnStatus(e, st) \/ OnExecutionComplete(e, st)
      PROVE  Isolated'
    BY <1>3, <1>6, QuietStep DEF OnStatus, OnExecutionComplete, focus
<1>7. ASSUME NEW st, OnNode(e, st) PROVE Isolated'
    BY <1>0, <1>7, QuietStep DEF OnNode, AppliesToCanvas, focus
<1>8. ASSUME NEW line, OnLog(e, line) PROVE Isolated'
    BY <1>8, QuietStep DEF OnLog
<1>9. CASE OnCompleted(e)
    <2>1. CASE AppliesToCanvas(e)
        <3>1. SelectExecution(e, Parts, FALSE) /\ UNCHANGED canvas
            BY <1>9, <2>1 DEF OnCompleted
        <3>2. UNCHANGED <<selected, nodes, canvas>> /\ shown'.exec = NoExec
            BY <2>1, <3>1, BlankType DEF SelectExecution, AppliesToCanvas
        <3>3. \E parts \in SUBSET Parts, select, sync \in BOOLEAN : Issue(e, parts, select, sync)
            BY <1>0, <3>1 DEF SelectExecution
        <3> QED BY <1>1, <3>2, <3>3, QuietStep
    <2>2. CASE ~AppliesToCanvas(e)
        BY <1>9, <2>2, QuietStep DEF OnCompleted, view
    <2> QED BY <2>1, <2>2
<1> QED BY <1>4, <1>5, <1>6, <1>7, <1>8, <1>9, OnCases DEF e

LEMMA UserIsolated ==
    ASSUME Typed, Isolated, User
    PROVE  Isolated'
<1>0. "nodes" \in {"nodes"} /\ {"nodes"} \in SUBSET Parts /\ Parts \in SUBSET Parts
      /\ "nodes" \in Parts
    BY DEF Parts
<1>1. ASSUME NEW e \in Execs, Select(e) PROVE Isolated'
    <2>1. SelectExecution(e, PartsOf(e), TRUE)
        BY <1>1 DEF Select
    <2>2. PartsOf(e) \in SUBSET Parts /\ "nodes" \in PartsOf(e)
        BY <1>0 DEF PartsOf
    <2> QED BY <2>1, <2>2, SelectStep DEF SelectExecution
<1>2. CASE Deselect
    BY <1>2, BlankType DEF Deselect, Isolated
<1>3. ASSUME UNCHANGED <<view, selected, load>> PROVE Isolated'
    BY <1>3, QuietStep DEF view
<1>4. ASSUME NEW e \in Execs, PostRun(e) \/ PostContinue(e) PROVE Isolated'
    BY <1>3, <1>4 DEF PostRun, PostContinue, Posts, focus
<1>5. CASE ContinueAnswer
    BY <1>3, <1>5 DEF ContinueAnswer
<1>6. CASE RunAnswer
    <2>1. posted.exec \in Execs
        BY <1>6 DEF RunAnswer, Typed, PostedType, MaybeExec
    <2> QED BY <1>0, <1>6, <2>1, SelectStep DEF RunAnswer
<1> QED BY <1>1, <1>2, <1>4, <1>5, <1>6 DEF User

LEMMA NextIsolated == Typed /\ Isolated /\ [Next]_vars => Isolated'
<1> SUFFICES ASSUME Typed, Isolated, [Next]_vars PROVE Isolated'
    OBVIOUS
<1>1. ASSUME UNCHANGED <<shown, nodes, canvas, selected, load>> PROVE Isolated'
    BY <1>1, QuietStep
<1>2. CASE Server \/ Disconnect \/ Reconnect \/ FlushRealtimeLogs \/ UNCHANGED vars
    BY <1>1, <1>2 DEF Server, Disconnect, Reconnect, FlushRealtimeLogs, vars, view, focus
<1>3. CASE Loading
    BY <1>3, LoadingIsolated DEF Loading
<1>4. CASE Deliver
    <2>1. Head(stream) \in Event
        BY <1>4, TakeType DEF Deliver, Typed
    <2>2. CASE Head(stream).type \in KnownEvents
        BY <1>4, <2>1, <2>2, OnIsolated DEF Deliver
    <2>3. CASE Ignore
        BY <1>1, <2>3 DEF Ignore, view, focus
    <2> QED BY <1>4, <2>2, <2>3 DEF Deliver
<1>5. CASE User
    BY <1>5, UserIsolated
<1> QED BY <1>2, <1>3, <1>4, <1>5 DEF Next

(* Executions are strictly isolated on the page, in whatever order answers *)
(* and events arrive (selectExecution, loadExecutionNodes and the handlers *)
(* of the event stream): the row shown is the selected execution's, and    *)
(* node rows or canvas of another one are there only until a load is done. *)
THEOREM ExecutionsAreIsolated == Spec => []ShownIsSelected
<1>1. Init => Typed /\ Isolated
    BY InitTyped, BlankType DEF Init, Isolated
<1>2. Typed /\ Isolated /\ [Next]_vars => (Typed /\ Isolated)'
    BY NextTyped, NextIsolated
<1>3. Typed /\ Isolated => ShownIsSelected
    BY DueIsInFlight DEF Isolated, ShownIsSelected, CanvasDue
<1> QED BY <1>1, <1>2, <1>3, PTL DEF Spec

-----------------------------------------------------------------------------
(* What the page is going to show                                          *)

\* A run that is over has a final status; one that was reported is over.
Rest ==
    \A e \in Execs : /\ phase[e] = "ended" => status[e] \in Ended
                     /\ reported[e] => phase[e] = "ended" /\ ~owed[e]

\* Loads that overlap are in doubt.
Alone ==
    \A s, t \in Slots : s # t /\ InFlight(s) /\ InFlight(t) => load[s].exec \in doubtful

\* The page is still to hear of the end of e.
Ending(i, e) == stream[i].exec = e /\ stream[i].type = "execution.completed"
Due(e) == \E i \in DOMAIN stream : Ending(i, e)

\* After the end nothing comes but changes of the graph.
TidyOf(e) ==
    \A i \in DOMAIN stream :
        stream[i].exec = e /\ stream[i].type # "execution.updated"
            => \E j \in DOMAIN stream : j >= i /\ Ending(j, e)
Tidy == \A e \in Execs \ doubtful : reported[e] => TidyOf(e)

LoadOf(s, e) == InFlight(s) /\ load[s].exec = e
Awaiting(part, e) == \E s \in Slots : LoadOf(s, e) /\ part \in load[s].awaits

ReadsTrue(e) ==
    \A s \in Slots : LoadOf(s, e) /\ load[s].read =>
        load[s].row = status[e] /\ load[s].nodes = nodeRow[e] /\ load[s].lines = lines[e]
ShownComes(e) ==
    shown = [exec |-> e, status |-> status[e]] \/ \E s \in Slots : LoadOf(s, e)
NodesCome(e) == nodes = [exec |-> e, status |-> nodeRow[e]] \/ Awaiting("nodes", e)
LogComes(e) == buffer = <<>> /\ (log = LinesOf(e, lines[e]) \/ Awaiting("log", e))

\* What is not there yet is read by a load in flight.
Comes(e) ==
    ReadsTrue(e) /\ ShownComes(e) /\ NodesCome(e) /\ (running # e => LogComes(e))

\* The end of the selected execution has been reported and heard of.
Heard(e) == e \notin doubtful /\ selected = e /\ reported[e] /\ ~Due(e)
Caught == \A e \in Execs : Heard(e) => Comes(e)

CatchInv == Rest /\ Alone /\ Tidy /\ Caught

-----------------------------------------------------------------------------
(* Rows that rest                                                          *)

\* The rows of e stay as they are.
Kept(e) ==
    /\ reported[e]
    /\ status'[e] = status[e] /\ nodeRow'[e] = nodeRow[e] /\ lines'[e] = lines[e]

LEMMA ServerRest ==
    ASSUME Typed, Rest, NEW x \in Execs,
           \/ Others(x) \/ Pause(x) \/ Resume(x) \/ Cancel(x) \/ UpdateGraph(x)
           \/ ExecutionStart(x) \/ NodeStart(x) \/ NodeComplete(x)
           \/ ExecutionComplete(x) \/ Completed(x) \/ LogLine(x)
    PROVE  Rest'
<1> USE DEF Rest, Typed, RowsType, Ended
<1>1. CASE Others(x)
    BY <1>1 DEF Others, Begin, BeginAgain
<1>2. CASE Pause(x) \/ Resume(x) \/ Cancel(x)
    BY <1>2 DEF Pause, Resume, Cancel, SetStatus
<1>3. CASE UpdateGraph(x)
    BY <1>3 DEF UpdateGraph, rows
<1>4. CASE ExecutionStart(x) \/ NodeStart(x) \/ NodeComplete(x)
    BY <1>4 DEF ExecutionStart, NodeStart, NodeComplete, Advance
<1>5. CASE ExecutionComplete(x)
    BY <1>5 DEF ExecutionComplete, Advance
<1>6. CASE Completed(x) \/ LogLine(x)
    BY <1>6 DEF Completed, LogLine
<1> QED BY <1>1, <1>2, <1>3, <1>4, <1>5, <1>6

(* An event is in the channel, or its execution is in doubt.               *)
LEMMA Published ==
    ASSUME Typed, NEW type \in EventType, NEW x \in Execs, NEW st, NEW line,
           Publish(type, x, st, line)
    PROVE  /\ doubtful \subseteq doubtful'
           /\ \/ stream' = stream /\ x \in doubtful'
              \/ \E evt : evt.type = type /\ evt.exec = x /\ stream' = Append(stream, evt)
BY DEF Publish

\* An event that says nothing of the end of e, or changes its graph only.
Aside(evt, e) == evt.exec # e \/ evt.type = "execution.updated"

\* What a step of the server leaves of an execution that was reported.
Quiet(e) ==
    Kept(e) /\ (stream' = stream \/ \E evt : stream' = Append(stream, evt) /\ Aside(evt, e))
Reports(e) ==
    \E evt : stream' = Append(stream, evt) /\ evt.exec = e /\ evt.type = "execution.completed"

LEMMA ServerKeeps ==
    ASSUME Typed, Rest, NEW e \in Execs, NEW x \in Execs,
           \/ Others(x) \/ Pause(x) \/ Resume(x) \/ Cancel(x) \/ UpdateGraph(x)
           \/ ExecutionStart(x) \/ NodeStart(x) \/ NodeComplete(x)
           \/ ExecutionComplete(x) \/ Completed(x) \/ LogLine(x)
    PROVE  /\ doubtful \subseteq doubtful'
           /\ e \notin doubtful' /\ reported'[e] => Quiet(e) \/ Reports(e)
<1> USE DEF Typed
<1>0. {"execution_start", "execution_paused", "execution_resumed", "execution_cancelled",
       "node_start", "node_complete", "execution.log", "execution_complete",
       "execution.completed", "execution.updated"} = EventType
    BY DEF EventType
<1>1. ASSUME NEW type \in EventType, NEW st, NEW line, Publish(type, x, st, line)
      PROVE  /\ doubtful \subseteq doubtful'
             /\ \/ x \in doubtful' /\ stream' = stream
                \/ \E evt : evt.type = type /\ evt.exec = x /\ stream' = Append(stream, evt)
    BY <1>1, Published
<1>2. ASSUME NEW type \in EventType, NEW st, NEW line, Publish(type, x, st, line),
             reported'[e] => Kept(e) /\ (x # e \/ type = "execution.updated")
      PROVE  /\ doubtful \subseteq doubtful'
             /\ e \notin doubtful' /\ reported'[e] => Quiet(e) \/ Reports(e)
    BY <1>1, <1>2 DEF Quiet, Aside
<1>3. CASE Others(x)
    BY <1>3 DEF Others, Begin, BeginAgain, Rest, RowsType, Quiet, Kept
<1>4. CASE Pause(x)
    <2>1. reported'[e] => Kept(e) /\ x # e
        BY <1>4 DEF Pause, SetStatus, Rest, RowsType, Kept, Ended
    <2>2. Publish("execution_paused", x, "paused", 0)
        BY <1>4 DEF Pause, SetStatus
    <2> QED BY <1>0, <1>2, <2>1, <2>2
<1>5. CASE Resume(x)
    <2>1. reported'[e] => Kept(e) /\ x # e
        BY <1>5 DEF Resume, SetStatus, Rest, RowsType, Kept, Ended
    <2>2. Publish("execution_resumed", x, "running", 0)
        BY <1>5 DEF Resume, SetStatus
    <2> QED BY <1>0, <1>2, <2>1, <2>2
<1>6. CASE Cancel(x)
    <2>1. reported'[e] => Kept(e) /\ x # e
        BY <1>6 DEF Cancel, SetStatus, Rest, RowsType, Kept, Ended
    <2>2. Publish("execution_cancelled", x, "cancelled", 0)
        BY <1>6 DEF Cancel, SetStatus
    <2> QED BY <1>0, <1>2, <2>1, <2>2
<1>7. CASE UpdateGraph(x)
    <2>1. reported'[e] => Kept(e)
        BY <1>7 DEF UpdateGraph, rows, Kept
    <2>2. Publish("execution.updated", x, "none", 0)
        BY <1>7 DEF UpdateGraph
    <2> QED BY <1>0, <1>2, <2>1, <2>2
<1>8. CASE ExecutionStart(x)
    <2>1. reported'[e] => Kept(e) /\ x # e
        BY <1>8 DEF ExecutionStart, Advance, Rest, RowsType, Kept
    <2>2. Publish("execution_start", x, "running", 0)
        BY <1>8 DEF ExecutionStart
    <2> QED BY <1>0, <1>2, <2>1, <2>2
<1>9. CASE NodeStart(x)
    <2>1. reported'[e] => Kept(e) /\ x # e
        BY <1>9 DEF NodeStart, Advance, Rest, RowsType, Kept
    <2>2. Publish("node_start", x, "running", 0)
        BY <1>9 DEF NodeStart
    <2> QED BY <1>0, <1>2, <2>1, <2>2
<1>10. CASE NodeComplete(x)
    <2>1. reported'[e] => Kept(e) /\ x # e
        BY <1>10 DEF NodeComplete, Advance, Rest, RowsType, Kept
    <2>2. \E st : Publish("node_complete", x, st, 0)
        BY <1>10 DEF NodeComplete
    <2> QED BY <1>0, <1>2, <2>1, <2>2
<1>11. CASE ExecutionComplete(x)
    <2>1. reported'[e] => Kept(e) /\ x # e
        BY <1>11 DEF ExecutionComplete, Advance, Rest, RowsType, Kept
    <2>2. \E st : Publish("execution_complete", x, st, 0)
        BY <1>11 DEF ExecutionComplete
    <2> QED BY <1>0, <1>2, <2>1, <2>2
<1>12. CASE Completed(x)
    <2>1. Publish("execution.completed", x, status[x], 0)
        BY <1>12 DEF Completed
    <2>2. CASE x # e
        <3>1. reported'[e] => Kept(e)
            BY <1>12, <2>2 DEF Completed, RowsType, Kept
        <3> QED BY <1>0, <1>2, <2>1, <2>2, <3>1
    <2>3. CASE x = e
        BY <1>0, <1>1, <2>1, <2>3 DEF Reports
    <2> QED BY <2>2, <2>3
<1>13. CASE LogLine(x)
    <2>1. reported'[e] => Kept(e) /\ x # e
        BY <1>13 DEF LogLine, Rest, RowsType, Kept
    <2>2. Publish("execution.log", x, "none", lines[x] + 1)
        BY <1>13 DEF LogLine
    <2> QED BY <1>0, <1>2, <2>1, <2>2
<1> QED BY <1>3, <1>4, <1>5, <1>6, <1>7, <1>8, <1>9, <1>10, <1>11, <1>12, <1>13

(* The user touches the rows of executions that were not reported, or      *)
(* begins them again.                                                      *)
LEMMA UserKeeps ==
    ASSUME Typed, Rest, User
    PROVE  Rest' /\ \A e \in Execs : reported'[e] => Kept(e)
<1> USE DEF Typed
<1>1. ASSUME UNCHANGED rows
      PROVE  Rest' /\ \A e \in Execs : reported'[e] => Kept(e)
    BY <1>1 DEF rows, Rest, Kept
<1>2. ASSUME NEW x \in Execs, Begin(x) \/ BeginAgain(x)
      PROVE  Rest' /\ \A e \in Execs : reported'[e] => Kept(e)
    BY <1>2 DEF Begin, BeginAgain, Rest, RowsType, Kept
<1>3. CASE \E x \in Execs : PostRun(x) \/ PostContinue(x)
    BY <1>2, <1>3 DEF PostRun, PostContinue
<1> QED BY <1>1, <1>3 DEF User, Select, Deselect, RunAnswer, ContinueAnswer

-----------------------------------------------------------------------------
(* The channel                                                             *)

LEMMA AppendAside ==
    ASSUME stream \in Seq(Event), NEW e, NEW evt, Aside(evt, e), stream' = Append(stream, evt),
           TidyOf(e)
    PROVE  TidyOf(e)' /\ (Due(e) => Due(e)')
<1>1. /\ DOMAIN stream = 1 .. Len(stream) /\ DOMAIN stream' = 1 .. (Len(stream) + 1)
      /\ Len(stream) \in Nat
      /\ \A i \in DOMAIN stream : stream'[i] = stream[i]
      /\ stream'[Len(stream) + 1] = evt
    OBVIOUS
<1>2. \A i \in DOMAIN stream : Ending(i, e) => i \in DOMAIN stream' /\ Ending(i, e)'
    BY <1>1 DEF Ending
<1>3. ASSUME NEW i \in DOMAIN stream', stream'[i].exec = e, stream'[i].type # "execution.updated"
      PROVE  \E j \in DOMAIN stream' : j >= i /\ Ending(j, e)'
    <2>1. i \in DOMAIN stream /\ stream'[i] = stream[i]
        BY <1>1, <1>3 DEF Aside
    <2>2. PICK j \in DOMAIN stream : j >= i /\ Ending(j, e)
        BY <1>3, <2>1 DEF TidyOf
    <2> QED BY <1>2, <2>2
<1> QED BY <1>2, <1>3 DEF TidyOf, Due

LEMMA AppendEnding ==
    ASSUME stream \in Seq(Event), NEW e, Reports(e)
    PROVE  TidyOf(e)' /\ Due(e)'
<1>1. PICK evt : /\ stream' = Append(stream, evt)
                 /\ evt.exec = e /\ evt.type = "execution.completed"
    BY DEF Reports
<1>2. /\ DOMAIN stream' = 1 .. (Len(stream) + 1) /\ Len(stream) \in Nat
      /\ stream'[Len(stream) + 1] = evt
    BY <1>1
<1> PICK last : last = Len(stream) + 1
    OBVIOUS
<1>3. last \in DOMAIN stream' /\ Ending(last, e)' /\ \A i \in DOMAIN stream' : last >= i
    BY <1>1, <1>2 DEF Ending
<1> QED BY <1>3 DEF TidyOf, Due

(* What is still to be heard of after an event has been taken.             *)
LEMMA TakeTidy ==
    ASSUME stream \in Seq(Event), stream # <<>>, stream' = Tail(stream), NEW e
    PROVE  /\ TidyOf(e) => TidyOf(e)'
           /\ Due(e) /\ ~Due(e)' => /\ Head(stream).exec = e
                                   /\ Head(stream).type = "execution.completed"
           /\ TidyOf(e) /\ ~Due(e)' /\ Head(stream).exec = e
                => Head(stream).type \in {"execution.completed", "execution.updated"}
<1>1. /\ DOMAIN stream = 1 .. Len(stream) /\ DOMAIN stream' = 1 .. (Len(stream) - 1)
      /\ Len(stream) \in Nat \ {0} /\ Head(stream) = stream[1]
      /\ \A i \in DOMAIN stream' : i + 1 \in DOMAIN stream /\ stream'[i] = stream[i + 1]
    BY HeadTailProperties
<1>2. \A j \in DOMAIN stream : j # 1 => j - 1 \in DOMAIN stream' /\ stream'[j - 1] = stream[j]
    BY <1>1
<1>3. \A j \in DOMAIN stream : j # 1 /\ Ending(j, e) => j - 1 \in DOMAIN stream' /\ Ending(j - 1, e)'
    BY <1>2 DEF Ending
<1>4. Due(e) /\ ~Due(e)' => Ending(1, e)
    BY <1>3 DEF Due
<1>5. ASSUME TidyOf(e) PROVE TidyOf(e)'
    <2> SUFFICES ASSUME NEW i \in DOMAIN stream', stream'[i].exec = e,
                        stream'[i].type # "execution.updated"
                 PROVE  \E j \in DOMAIN stream' : j >= i /\ Ending(j, e)'
        BY DEF TidyOf
    <2>1. i + 1 \in DOMAIN stream /\ stream[i + 1] = stream'[i]
        BY <1>1
    <2>2. PICK j \in DOMAIN stream : j >= i + 1 /\ Ending(j, e)
        BY <1>5, <2>1 DEF TidyOf
    <2>3. j # 1 /\ j - 1 >= i
        BY <1>1, <2>2
    <2> QED BY <1>3, <2>2, <2>3
<1>6. ASSUME TidyOf(e), ~Due(e)', Head(stream).exec = e
      PROVE  Head(stream).type \in {"execution.completed", "execution.updated"}
    <2>1. CASE Due(e)
        BY <1>1, <1>4, <1>6, <2>1 DEF Ending
    <2>2. CASE ~Due(e)
        BY <1>1, <1>6, <2>2 DEF TidyOf, Due
    <2> QED BY <2>1, <2>2
<1> QED BY <1>1, <1>4, <1>5, <1>6 DEF Ending

-----------------------------------------------------------------------------
(* Loads                                                                   *)

\* Who was in doubt is so no longer only if the channel has no event of it.
DoubtGoes ==
    \A e \in Execs \ doubtful' : e \in doubtful => \A i \in DOMAIN stream' : stream'[i].exec # e

\* The only load is one of e, and it has not been answered.
Only(s, e, parts) ==
    /\ load[s].exec = e /\ load[s].awaits = parts /\ ~load[s].read
    /\ \A t \in Slots \ {s} : load[t] = NoLoad

(* A load that is issued for e; what it leaves without doubt is not being  *)
(* loaded, and nothing at all is if that is e.                             *)
LEMMA IssueCatch ==
    ASSUME Typed, Alone, NEW x \in Execs, NEW parts \in SUBSET Parts,
           NEW select \in BOOLEAN, NEW sync \in BOOLEAN, Issue(x, parts, select, sync)
    PROVE  /\ Alone' /\ DoubtGoes
           /\ x \in doubtful /\ x \notin doubtful' => parts = Parts
           /\ \A e \in Execs \ doubtful' : e # x =>
                  e \notin doubtful /\ \A t \in Slots : (LoadOf(t, e) \/ LoadOf(t, e)') => FALSE
           /\ x \notin doubtful' =>
                  /\ \A t \in Slots : ~InFlight(t)
                  /\ \E s \in Slots : Only(s, x, parts)'
<1> DEFINE new == Request(x, parts, select, sync)
           others == {load[s].exec : s \in {t \in Slots : InFlight(t)}}
<1>1. PICK s \in Slots : ~InFlight(s) /\ load' = [load EXCEPT ![s] = new]
    BY DEF Issue
<1>2. load \in [Slots -> Load] /\ new.exec = x
    BY DEF Typed, LoadsType, Request
<1>3. load'[s] = new /\ \A t \in Slots \ {s} : load'[t] = load[t]
    BY <1>1, <1>2
<1>4. doubtful' = CASE others # {} -> doubtful \cup others \cup {x}
                    [] others = {} /\ parts = Parts /\ \A i \in DOMAIN stream' : stream'[i].exec # x
                         -> doubtful \ {x}
                    [] OTHER -> doubtful
    BY DEF Issue
<1>5. \A t \in Slots : InFlight(t) => load[t].exec \in others
    OBVIOUS
<1>6. others = {} => \A t \in Slots : ~InFlight(t)
    BY <1>5
<1> HIDE DEF new, others
<1>7. DoubtGoes
    BY <1>4 DEF DoubtGoes
<1>8. x \in doubtful /\ x \notin doubtful' => parts = Parts
    BY <1>4
<1>9. x \notin doubtful' => others = {}
    BY <1>4
<1>10. Alone'
    <2>1. CASE others = {}
        BY <1>3, <1>6, <2>1 DEF Alone, InFlight
    <2>2. CASE others # {}
        <3>1. doubtful' = doubtful \cup others \cup {x}
            BY <1>4, <2>2
        <3> QED BY <1>2, <1>3, <1>5, <3>1 DEF Alone, InFlight
    <2> QED BY <2>1, <2>2
<1>11. ASSUME NEW e \in Execs \ doubtful', e # x
       PROVE  e \notin doubtful /\ \A t \in Slots : (LoadOf(t, e) \/ LoadOf(t, e)') => FALSE
    <2>1. e \notin doubtful /\ e \notin others
        BY <1>4, <1>11
    <2>2. \A t \in Slots : ~LoadOf(t, e)
        BY <1>5, <2>1 DEF LoadOf
    <2>3. \A t \in Slots : ~LoadOf(t, e)'
        BY <1>2, <1>3, <1>11, <2>2 DEF LoadOf, InFlight
    <2> QED BY <2>1, <2>2, <2>3
<1>12. ASSUME x \notin doubtful'
       PROVE  (\A t \in Slots : ~InFlight(t)) /\ Only(s, x, parts)'
    <2>1. \A t \in Slots : ~InFlight(t)
        BY <1>6, <1>9, <1>12
    <2>2. new.exec = x /\ new.awaits = parts /\ new.read = FALSE
        BY DEF new, Request
    <2>3. Only(s, x, parts)'
        BY <1>3, <2>1, <2>2 DEF Only, InFlight
    <2> QED BY <2>1, <2>3
<1> QED BY <1>7, <1>8, <1>10, <1>11, <1>12

(* A fresh load brings everything that it asks for.                        *)
LEMMA FreshLoad ==
    ASSUME NEW e \in Execs, NEW parts, "nodes" \in parts, NEW s \in Slots, Only(s, e, parts)',
           running' # e => buffer' = <<>> /\ ("log" \in parts \/ log' = LinesOf(e, lines'[e]))
    PROVE  Comes(e)'
<1>1. /\ load'[s].exec = e /\ load'[s].awaits = parts /\ ~load'[s].read
      /\ e # NoExec /\ NoLoad.exec = NoExec
      /\ \A t \in Slots \ {s} : load'[t] = NoLoad
    BY LiveAssumption DEF Only, Request, NoLoad, LiveAssumption
<1>2. LoadOf(s, e)' /\ \A t \in Slots : LoadOf(t, e)' => t = s
    BY <1>1 DEF LoadOf, InFlight
<1>3. ReadsTrue(e)' /\ ShownComes(e)' /\ NodesCome(e)'
    BY <1>1, <1>2 DEF ReadsTrue, ShownComes, NodesCome, Awaiting
<1>4. running' # e => LogComes(e)'
    BY <1>1, <1>2 DEF LogComes, Awaiting
<1> QED BY <1>3, <1>4 DEF Comes

LEMMA FreshIssue ==
    ASSUME Typed, Alone, NEW e \in Execs, NEW parts \in SUBSET Parts, "nodes" \in parts,
           NEW select \in BOOLEAN, NEW sync \in BOOLEAN, Issue(e, parts, select, sync),
           e \notin doubtful'
    PROVE  /\ \A t \in Slots : ~InFlight(t)
           /\ (running' # e => buffer' = <<>> /\ ("log" \in parts \/ log' = LinesOf(e, lines'[e])))
                => Comes(e)'
<1>1. (\A t \in Slots : ~InFlight(t)) /\ \E s \in Slots : Only(s, e, parts)'
    BY IssueCatch
<1> QED BY <1>1, FreshLoad

-----------------------------------------------------------------------------
(* Answers                                                                 *)

(* What an answer brings is there, or still to come.                       *)
LEMMA LoadingCatches ==
    ASSUME Typed, Alone, NEW e \in Execs, selected = e, Comes(e), NEW s \in Slots,
           Read(s) \/ NodesAnswer(s) \/ LogAnswer(s) \/ LoadDone(s),
           UNCHANGED <<rows, channel, posted, doubtful, asks>>
    PROVE  Comes(e)'
<1>0. /\ load[s] \in Load /\ load \in [Slots -> Load]
      /\ InFlight(s) \/ load[s].read \/ load[s].awaits # {} => InFlight(s)
      /\ NoLoad.read = FALSE
      /\ UNCHANGED <<status, nodeRow, lines>>
    BY UsedSlot DEF Typed, LoadsType, NoLoad, Request, rows
<1>1. CASE Read(s)
    <2> DEFINE x == load[s].exec
               r == [load[s] EXCEPT !.read = TRUE, !.row = status[x],
                                    !.nodes = nodeRow[x], !.lines = lines[x]]
    <2>1. load' = [load EXCEPT ![s] = r]
        BY <1>1 DEF Read
    <2>2. r.exec = x /\ r.awaits = load[s].awaits /\ r.read = TRUE /\ r.row = status[x]
          /\ r.nodes = nodeRow[x] /\ r.lines = lines[x]
        BY <1>0 DEF Load
    <2> HIDE DEF r
    <2>3. load'[s] = r /\ \A t \in Slots \ {s} : load'[t] = load[t]
        BY <1>0, <2>1
    <2>4. \A t \in Slots : LoadOf(t, e)' <=> LoadOf(t, e)
        BY <1>0, <1>1, <2>2, <2>3 DEF LoadOf, InFlight, Read
    <2>5. \A t \in Slots : load'[t].awaits = load[t].awaits
        BY <2>2, <2>3
    <2>6. ReadsTrue(e)'
        <3> SUFFICES ASSUME NEW t \in Slots, LoadOf(t, e)', load'[t].read
                     PROVE  load'[t].row = status[e] /\ load'[t].nodes = nodeRow[e]
                            /\ load'[t].lines = lines[e]
            BY <1>0 DEF ReadsTrue
        <3>1. CASE t = s
            BY <2>2, <2>3, <2>4, <3>1 DEF LoadOf
        <3>2. CASE t # s
            BY <2>3, <2>4, <3>2 DEF Comes, ReadsTrue
        <3> QED BY <3>1, <3>2
    <2>7. UNCHANGED <<shown, nodes, log, buffer, running>>
        BY <1>1 DEF Read, view, focus
    <2> QED BY <1>0, <2>4, <2>5, <2>6, <2>7
            DEF Comes, ShownComes, NodesCome, LogComes, Awaiting
<1>2. ASSUME NEW part, Answered(s, part)
      PROVE  /\ InFlight(s) /\ load[s].read
             /\ \A t \in Slots : LoadOf(t, e)' <=> LoadOf(t, e)
             /\ ReadsTrue(e)'
             /\ \A other : other # part \/ load[s].exec # e =>
                    (Awaiting(other, e) => Awaiting(other, e)')
    <2> DEFINE r == [load[s] EXCEPT !.awaits = @ \ {part}]
    <2>1. load' = [load EXCEPT ![s] = r] /\ load[s].read
        BY <1>2 DEF Answered
    <2>2. /\ r.exec = load[s].exec /\ r.read = load[s].read /\ r.row = load[s].row
          /\ r.nodes = load[s].nodes /\ r.lines = load[s].lines
          /\ r.awaits = load[s].awaits \ {part}
        BY <1>0 DEF Load
    <2> HIDE DEF r
    <2>3. load'[s] = r /\ \A t \in Slots \ {s} : load'[t] = load[t]
        BY <1>0, <2>1
    <2>4. InFlight(s) /\ r # NoLoad
        BY <1>0, <2>1, <2>2
    <2>5. \A t \in Slots : LoadOf(t, e)' <=> LoadOf(t, e)
        BY <2>2, <2>3, <2>4 DEF LoadOf, InFlight
    <2>6. \A t \in Slots : load'[t].read = load[t].read /\ load'[t].row = load[t].row
                           /\ load'[t].nodes = load[t].nodes /\ load'[t].lines = load[t].lines
        BY <2>2, <2>3
    <2>7. ReadsTrue(e)'
        BY <1>0, <2>5, <2>6 DEF Comes, ReadsTrue
    <2>8. ASSUME NEW other, other # part \/ load[s].exec # e, Awaiting(other, e)
          PROVE  Awaiting(other, e)'
        <3>1. PICK t \in Slots : LoadOf(t, e) /\ other \in load[t].awaits
            BY <2>8 DEF Awaiting
        <3>2. other \in load'[t].awaits
            BY <2>2, <2>3, <2>8, <3>1 DEF LoadOf
        <3> QED BY <2>5, <3>1, <3>2 DEF Awaiting
    <2> QED BY <2>1, <2>4, <2>5, <2>7, <2>8
<1>3. ASSUME NEW part, Answered(s, part)
      PROVE  /\ UNCHANGED <<shown, buffer, running, selected>>
             /\ ShownComes(e)'
    <2>1. UNCHANGED <<shown, buffer, running, selected>>
        BY <1>3 DEF Answered, focus
    <2> QED BY <1>0, <1>2, <1>3, <2>1 DEF Comes, ShownComes
<1>4. CASE NodesAnswer(s)
    <2>1. Answered(s, "nodes") /\ log' = log
        BY <1>4 DEF NodesAnswer
    <2>2. NodesCome(e)'
        <3>1. CASE load[s].exec = e
            <4>1. nodes' = [exec |-> e, status |-> load[s].nodes]
                BY <1>4, <3>1 DEF NodesAnswer, Current
            <4>2. load[s].nodes = nodeRow[e]
                BY <1>2, <2>1, <3>1 DEF Comes, ReadsTrue, LoadOf
            <4> QED BY <1>0, <4>1, <4>2 DEF NodesCome
        <3>2. CASE load[s].exec # e
            <4>1. nodes' = nodes
                BY <1>4, <3>2 DEF NodesAnswer, Current
            <4>2. Awaiting("nodes", e) => Awaiting("nodes", e)'
                BY <1>2, <2>1, <3>2
            <4> QED BY <1>0, <4>1, <4>2 DEF Comes, NodesCome
        <3> QED BY <3>1, <3>2
    <2>3. Awaiting("log", e) => Awaiting("log", e)'
        BY <1>2, <2>1
    <2>4. LogComes(e) => LogComes(e)'
        BY <1>0, <1>3, <2>1, <2>3 DEF LogComes
    <2> QED BY <1>2, <1>3, <2>1, <2>2, <2>4 DEF Comes
<1>5. CASE LogAnswer(s)
    <2>1. Answered(s, "log") /\ nodes' = nodes
        BY <1>5 DEF LogAnswer
    <2>2. Awaiting("nodes", e) => Awaiting("nodes", e)'
        BY <1>2, <2>1
    <2>3. NodesCome(e)'
        BY <1>0, <2>1, <2>2 DEF Comes, NodesCome
    <2>4. ASSUME LogComes(e) PROVE LogComes(e)'
        <3>1. CASE load[s].exec = e
            <4>1. log' = LinesOf(e, load[s].lines)
                BY <1>5, <3>1 DEF LogAnswer, Current
            <4>2. load[s].lines = lines[e]
                BY <1>2, <2>1, <3>1 DEF Comes, ReadsTrue, LoadOf
            <4>3. log' = LinesOf(e, lines'[e])
                BY <1>0, <4>1, <4>2
            <4>4. buffer' = <<>>
                BY <1>3, <2>1, <2>4 DEF LogComes
            <4> QED BY <4>3, <4>4 DEF LogComes, LinesOf
        <3>2. CASE load[s].exec # e
            <4>1. log' = log
                BY <1>5, <3>2 DEF LogAnswer, Current
            <4>2. Awaiting("log", e) => Awaiting("log", e)'
                BY <1>2, <2>1, <3>2
            <4> QED BY <1>0, <1>3, <2>1, <2>4, <4>1, <4>2 DEF LogComes, LinesOf
        <3> QED BY <3>1, <3>2
    <2> QED BY <1>2, <1>3, <2>1, <2>3, <2>4 DEF Comes
<1>6. CASE LoadDone(s)
    <2>1. /\ load[s].read /\ load[s].awaits = {} /\ load' = [load EXCEPT ![s] = NoLoad]
          /\ shown' = IF Current(s) THEN [exec |-> load[s].exec, status |-> load[s].row] ELSE shown
          /\ UNCHANGED <<nodes, log, buffer, selected, running>>
        BY <1>6 DEF LoadDone
    <2>2. load'[s] = NoLoad /\ \A t \in Slots \ {s} : load'[t] = load[t]
        BY <1>0, <2>1
    <2>3. \A t \in Slots : LoadOf(t, e)' <=> LoadOf(t, e) /\ t # s
        BY <2>2 DEF LoadOf, InFlight
    <2>4. \A part : Awaiting(part, e) => Awaiting(part, e)'
        BY <2>1, <2>2, <2>3 DEF Awaiting
    <2>5. ReadsTrue(e)'
        BY <1>0, <2>2, <2>3 DEF Comes, ReadsTrue
    <2>6. ShownComes(e)'
        <3>1. CASE load[s].exec = e
            <4>1. shown' = [exec |-> e, status |-> load[s].row]
                BY <2>1, <3>1 DEF Current
            <4>2. load[s].row = status[e]
                BY <1>0, <2>1, <3>1 DEF Comes, ReadsTrue, LoadOf
            <4> QED BY <1>0, <4>1, <4>2 DEF ShownComes
        <3>2. CASE load[s].exec # e
            <4>1. shown' = shown /\ \A t \in Slots : LoadOf(t, e) => LoadOf(t, e)'
                BY <2>1, <2>3, <3>2 DEF Current, LoadOf
            <4> QED BY <1>0, <4>1 DEF Comes, ShownComes
        <3> QED BY <3>1, <3>2
    <2>7. NodesCome(e)'
        BY <1>0, <2>1, <2>4 DEF Comes, NodesCome
    <2>8. LogComes(e) => LogComes(e)'
        BY <1>0, <2>1, <2>4 DEF LogComes, LinesOf
    <2> QED BY <2>1, <2>5, <2>6, <2>7, <2>8 DEF Comes
<1> QED BY <1>1, <1>4, <1>5, <1>6

-----------------------------------------------------------------------------
(* Events                                                                  *)

\* The page of e stays as it is; e is not taken from its place as the running one.
SamePage(e) ==
    /\ UNCHANGED <<load, shown, nodes, log, buffer>>
    /\ status'[e] = status[e] /\ nodeRow'[e] = nodeRow[e] /\ lines'[e] = lines[e]
    /\ running' # e => running # e

LEMMA SamePageComes ==
    ASSUME NEW e, SamePage(e), Comes(e)
    PROVE  Comes(e)'
<1>1. \A s \in Slots : LoadOf(s, e)' <=> LoadOf(s, e)
    BY DEF SamePage, LoadOf, InFlight
<1>2. ReadsTrue(e)' /\ ShownComes(e)' /\ NodesCome(e)'
    BY <1>1 DEF SamePage, Comes, ReadsTrue, ShownComes, NodesCome, Awaiting
<1>3. LogComes(e) => LogComes(e)'
    BY <1>1 DEF SamePage, LogComes, Awaiting, LinesOf
<1> QED BY <1>2, <1>3 DEF SamePage, Comes

LEMMA SameLoads ==
    ASSUME Alone, UNCHANGED load, doubtful \subseteq doubtful'
    PROVE  Alone' /\ DoubtGoes
BY DEF Alone, DoubtGoes, InFlight

(* A handler issues one load at most, for the execution of the event.      *)
LEMMA OnIssues ==
    ASSUME Typed, Alone, NEW event \in Event, event.type \in KnownEvents, On(event)
    PROVE  Alone' /\ DoubtGoes
<1> DEFINE x == event.exec
<1>1. x \in Execs /\ {"nodes"} \in SUBSET Parts /\ Parts \in SUBSET Parts
      /\ TRUE \in BOOLEAN /\ FALSE \in BOOLEAN
    BY DEF Event, Parts
<1> HIDE DEF x
<1>2. Issue(x, {"nodes"}, FALSE, TRUE) => Alone' /\ DoubtGoes
    BY <1>1, IssueCatch
<1>3. ASSUME NEW select \in BOOLEAN, NEW sync \in BOOLEAN, Issue(x, Parts, select, sync)
      PROVE  Alone' /\ DoubtGoes
    BY <1>1, <1>3, IssueCatch
<1>4. \/ UNCHANGED <<load, doubtful>>
      \/ Issue(x, {"nodes"}, FALSE, TRUE)
      \/ Issue(x, Parts, TRUE, FALSE)
    BY OnCases DEF x, OnExecutionStart, OnStatus, OnNode, OnLog, OnExecutionComplete,
       OnCompleted, OnUpdated, Refresh, SelectExecution
<1> QED BY <1>1, <1>2, <1>3, <1>4, SameLoads

(* An event of another execution than the selected one changes nothing on  *)
(* the page, but may end the run of that one.                              *)
LEMMA ForeignEvent ==
    ASSUME Typed, Isolated, NEW event \in Event, event.type \in KnownEvents, On(event),
           event.exec # selected
    PROVE  /\ UNCHANGED <<load, doubtful, selected, shown, nodes, log, buffer>>
           /\ \A e : e # event.exec /\ running' # e => running # e
<1> DEFINE x == event.exec
<1>1. x \in Execs /\ x # NoExec
    BY LiveAssumption DEF Event, LiveAssumption
<1>2. x # selected
    OBVIOUS
<1> HIDE DEF x
<1>3. shown.exec # x
    BY <1>1, <1>2 DEF Isolated
<1>4. ASSUME Stop(x) PROVE \A e : e # x /\ running' # e => running # e
    BY <1>4 DEF Stop
<1>5. \/ OnExecutionStart(x) \/ OnUpdated(x)
      \/ \E st : OnStatus(x, st) \/ OnNode(x, st) \/ OnExecutionComplete(x, st)
      \/ \E line : OnLog(x, line)
      \/ OnCompleted(x)
    BY OnCases DEF x
<1>6. /\ UNCHANGED <<load, doubtful, selected, shown, nodes, log, buffer>>
      /\ running' = running \/ Stop(x)
    BY <1>2, <1>3, <1>5 DEF OnExecutionStart, OnUpdated, OnStatus, OnNode, OnExecutionComplete,
       OnLog, OnCompleted, AppliesToCanvas, WithStatus, view, focus
<1> QED BY <1>4, <1>6 DEF x

(* The end of the selected execution reloads everything; a change of its   *)
(* graph reloads the nodes.                                                *)
LEMMA OwnEvent ==
    ASSUME Typed, Alone, NEW event \in Event, On(event), NEW e \in Execs,
           event.exec = e, selected = e, e \notin doubtful',
           UNCHANGED <<status, nodeRow, lines>>,
           \/ event.type = "execution.completed"
           \/ event.type = "execution.updated" /\ Comes(e)
    PROVE  Comes(e)'
<1>1. {"nodes"} \in SUBSET Parts /\ Parts \in SUBSET Parts /\ "nodes" \in Parts /\ "log" \in Parts
      /\ TRUE \in BOOLEAN /\ FALSE \in BOOLEAN
    BY DEF Parts
<1>2. CASE event.type = "execution.completed"
    <2>1. OnCompleted(e)
        BY <1>2 DEF On, NodeEvents
    <2>2. SelectExecution(e, Parts, FALSE)
        BY <2>1 DEF OnCompleted, AppliesToCanvas
    <2>3. Issue(e, Parts, TRUE, FALSE) /\ buffer' = <<>>
        BY <2>2 DEF SelectExecution
    <2> QED BY <1>1, <2>3, FreshIssue
<1>3. CASE event.type = "execution.updated" /\ Comes(e)
    <2>1. OnUpdated(e)
        BY <1>3 DEF On, NodeEvents
    <2>2. Issue(e, {"nodes"}, FALSE, TRUE) /\ UNCHANGED <<log, buffer, running>>
        BY <2>1 DEF OnUpdated, AppliesToCanvas, Refresh, view, focus
    <2>3. \A t \in Slots : ~InFlight(t)
        BY <1>1, <2>2, FreshIssue
    <2>4. running # e => buffer = <<>> /\ log = LinesOf(e, lines[e])
        BY <1>3, <2>3 DEF Comes, LogComes, Awaiting, LoadOf
    <2>5. running' # e => buffer' = <<>> /\ log' = LinesOf(e, lines'[e])
        BY <2>2, <2>4
    <2> QED BY <1>1, <2>2, <2>5, FreshIssue
<1> QED BY <1>2, <1>3

(* No event changes the selection, and only the reload at the end of a run *)
(* takes the selected execution out of doubt.                              *)
LEMMA OwnStays ==
    ASSUME NEW event \in Event, event.type \in KnownEvents, On(event), event.exec = selected
    PROVE  UNCHANGED selected
BY OnCases DEF OnExecutionStart, OnUpdated, OnStatus, OnNode, OnExecutionComplete,
   OnLog, OnCompleted, AppliesToCanvas, SelectExecution, focus

LEMMA OwnDoubt ==
    ASSUME Typed, Alone, NEW event \in Event, event.type \in KnownEvents, On(event),
           event.exec \in doubtful, event.type # "execution.completed"
    PROVE  event.exec \in doubtful'
<1>1. event.exec \in Execs /\ {"nodes"} \in SUBSET Parts /\ {"nodes"} # Parts
      /\ TRUE \in BOOLEAN /\ FALSE \in BOOLEAN
    BY DEF Event, Parts
<1>2. UNCHANGED doubtful \/ Issue(event.exec, {"nodes"}, FALSE, TRUE)
    BY DEF On, KnownEvents, EventType, NodeEvents, OnExecutionStart, OnUpdated, OnStatus, OnNode,
       OnExecutionComplete, OnLog, Refresh
<1> QED BY <1>1, <1>2, IssueCatch

LEMMA DeliverCatches ==
    ASSUME Typed, Isolated, CatchInv, Deliver
    PROVE  CatchInv'
<1>1. /\ stream \in Seq(Event) /\ stream # <<>> /\ stream' = Tail(stream)
      /\ Head(stream) \in Event
      /\ UNCHANGED rows /\ UNCHANGED <<status, nodeRow, lines, reported>>
    BY TakeType DEF Deliver, Typed, ChannelType, rows
<1>2. Rest'
    BY <1>1 DEF CatchInv, Rest, rows
<1>3. Alone' /\ DoubtGoes
    <2>1. CASE Head(stream).type \in KnownEvents
        BY <1>1, <2>1, OnIssues DEF Deliver, CatchInv
    <2>2. CASE Ignore
        BY <2>2, SameLoads DEF Ignore, CatchInv
    <2> QED BY <2>1, <2>2 DEF Deliver
<1>4. ASSUME NEW e \in Execs \ doubtful', reported[e], e \notin doubtful
      PROVE  TidyOf(e)
    BY <1>4 DEF CatchInv, Tidy
<1>5. Tidy'
    <2> SUFFICES ASSUME NEW e \in Execs \ doubtful', reported'[e] PROVE TidyOf(e)'
        BY DEF Tidy
    <2>1. CASE e \in doubtful
        BY <1>3, <2>1 DEF DoubtGoes, TidyOf
    <2>2. CASE e \notin doubtful
        BY <1>1, <1>4, <2>2, TakeTidy
    <2> QED BY <2>1, <2>2
<1>6. ASSUME NEW e \in Execs, Heard(e)'
      PROVE  Comes(e)'
    <2>1. e \notin doubtful' /\ selected' = e /\ reported[e] /\ ~Due(e)'
        BY <1>1, <1>6 DEF Heard
    <2>2. ASSUME e \notin doubtful, selected = e,
                 ~(Head(stream).exec = e /\ Head(stream).type = "execution.completed")
          PROVE  Comes(e)
        <3>1. ~Due(e)
            BY <1>1, <2>1, <2>2, TakeTidy
        <3> QED BY <2>1, <2>2, <3>1 DEF CatchInv, Caught, Heard
    <2>3. CASE Head(stream).type \notin KnownEvents
        <3>1. UNCHANGED <<load, shown, nodes, log, buffer, running, selected, doubtful>>
            BY <2>3 DEF Deliver, Ignore, view, focus
        <3>2. Comes(e)
            BY <2>1, <2>2, <2>3, <3>1 DEF KnownEvents, EventType
        <3> QED BY <1>1, <3>1, <3>2, SamePageComes DEF SamePage
    <2>4. CASE Head(stream).type \in KnownEvents /\ Head(stream).exec # selected
        <3>1. /\ UNCHANGED <<load, doubtful, selected, shown, nodes, log, buffer>>
              /\ e # Head(stream).exec /\ running' # e => running # e
            BY <1>1, <2>4, ForeignEvent DEF Deliver
        <3>2. e # Head(stream).exec
            BY <2>1, <2>4, <3>1
        <3>3. Comes(e)
            BY <2>1, <2>2, <3>1, <3>2
        <3> QED BY <1>1, <3>1, <3>2, <3>3, SamePageComes DEF SamePage
    <2>5. CASE Head(stream).type \in KnownEvents /\ Head(stream).exec = selected
        <3>1. On(Head(stream))
            BY <2>5 DEF Deliver
        <3>2. selected' = selected
            BY <1>1, <2>5, <3>1, OwnStays
        <3>3. selected = e /\ Head(stream).exec = e
            BY <2>1, <2>5, <3>2
        <3>4. CASE Head(stream).type = "execution.completed"
            BY <1>1, <2>1, <3>1, <3>3, <3>4, OwnEvent DEF CatchInv
        <3>5. CASE Head(stream).type # "execution.completed"
            <4>1. e \notin doubtful
                BY <1>1, <2>1, <2>5, <3>1, <3>3, <3>5, OwnDoubt DEF CatchInv
            <4>2. Head(stream).type = "execution.updated"
                BY <1>1, <1>4, <2>1, <3>3, <3>5, <4>1, TakeTidy
            <4>3. Comes(e)
                BY <2>2, <3>3, <3>5, <4>1
            <4> QED BY <1>1, <2>1, <3>1, <3>3, <4>2, <4>3, OwnEvent DEF CatchInv
        <3> QED BY <3>4, <3>5
    <2> QED BY <2>3, <2>4, <2>5
<1> QED BY <1>2, <1>3, <1>5, <1>6 DEF CatchInv, Caught

-----------------------------------------------------------------------------
(* The other steps                                                         *)

(* Rows that are kept and a channel that stays the same.                   *)
LEMMA TidyStays ==
    ASSUME Tidy, DoubtGoes, UNCHANGED stream, \A e \in Execs : reported'[e] => reported[e]
    PROVE  Tidy'
<1> SUFFICES ASSUME NEW e \in Execs \ doubtful', reported'[e] PROVE TidyOf(e)'
    BY DEF Tidy
<1>1. CASE e \in doubtful
    BY <1>1 DEF DoubtGoes, TidyOf
<1>2. CASE e \notin doubtful
    <2>1. TidyOf(e)
        BY <1>2 DEF Tidy
    <2> QED BY <2>1 DEF TidyOf, Ending
<1> QED BY <1>1, <1>2

(* The page of an execution that was in no doubt before.                   *)
LEMMA CaughtStays ==
    ASSUME CatchInv, NEW e \in Execs, Heard(e)', SamePage(e), reported[e], UNCHANGED selected,
           e \notin doubtful, Due(e) => Due(e)'
    PROVE  Comes(e)'
<1>1. Heard(e)
    BY DEF Heard
<1>2. Comes(e)
    BY <1>1 DEF CatchInv, Caught
<1> QED BY <1>2, SamePageComes

LEMMA ServerCatches ==
    ASSUME Typed, CatchInv, Server
    PROVE  CatchInv'
<1>1. PICK x \in Execs :
        \/ Others(x) \/ Pause(x) \/ Resume(x) \/ Cancel(x) \/ UpdateGraph(x)
        \/ ExecutionStart(x) \/ NodeStart(x) \/ NodeComplete(x)
        \/ ExecutionComplete(x) \/ Completed(x) \/ LogLine(x)
    BY DEF Server
<1>2. UNCHANGED <<shown, nodes, log, buffer, selected, running, load>>
    BY DEF Server, view, focus
<1>3. Rest'
    BY <1>1, ServerRest DEF CatchInv
<1>4. ASSUME NEW e \in Execs
      PROVE  /\ doubtful \subseteq doubtful'
             /\ e \notin doubtful' /\ reported'[e] => Quiet(e) \/ Reports(e)
    BY <1>1, <1>4, ServerKeeps DEF CatchInv
<1>5. doubtful \subseteq doubtful'
    BY <1>1, <1>4
<1>6. Alone'
    BY <1>2, <1>5, SameLoads DEF CatchInv
<1>7. stream \in Seq(Event)
    BY DEF Typed, ChannelType
<1>8. ASSUME NEW e \in Execs, e \notin doubtful', reported'[e]
      PROVE  /\ TidyOf(e)'
             /\ ~Due(e)' => Kept(e) /\ ~Due(e)
    <2>1. CASE Reports(e)
        BY <1>7, <2>1, AppendEnding
    <2>2. CASE Quiet(e)
        <3>1. TidyOf(e)
            BY <1>5, <1>8, <2>2 DEF Quiet, Kept, CatchInv, Tidy
        <3>2. CASE stream' = stream
            BY <2>2, <3>1, <3>2 DEF Quiet, TidyOf, Due, Ending
        <3>3. CASE \E evt : stream' = Append(stream, evt) /\ Aside(evt, e)
            <4>1. TidyOf(e)' /\ (Due(e) => Due(e)')
                BY <1>7, <3>1, <3>3, AppendAside
            <4> QED BY <2>2, <4>1 DEF Quiet
        <3> QED BY <2>2, <3>2, <3>3 DEF Quiet
    <2> QED BY <1>4, <1>8, <2>1, <2>2
<1>9. Tidy'
    BY <1>8 DEF Tidy
<1>10. ASSUME NEW e \in Execs, Heard(e)'
       PROVE  Comes(e)'
    <2>1. e \notin doubtful' /\ reported'[e] /\ ~Due(e)' /\ selected' = selected
        BY <1>2, <1>10 DEF Heard
    <2>2. Kept(e) /\ ~Due(e)
        BY <1>8, <2>1
    <2>3. SamePage(e)
        BY <1>2, <2>2 DEF SamePage, Kept
    <2> QED BY <1>5, <1>10, <2>1, <2>2, <2>3, CaughtStays DEF Kept
<1> QED BY <1>3, <1>6, <1>9, <1>10 DEF CatchInv, Caught

(* A selection loads all of the execution, or all but the log of the one   *)
(* that runs.                                                              *)
LEMMA UserCatches ==
    ASSUME Typed, CatchInv, User
    PROVE  CatchInv'
<1>1. Rest' /\ \A e \in Execs : reported'[e] => Kept(e)
    BY UserKeeps DEF CatchInv
<1>2. \A e \in Execs : reported'[e] => reported[e]
    BY <1>1 DEF Kept
<1>3. /\ {"nodes"} \in SUBSET Parts /\ Parts \in SUBSET Parts /\ "nodes" \in Parts
      /\ "nodes" \in {"nodes"} /\ "log" \in Parts /\ TRUE \in BOOLEAN
    BY DEF Parts
<1>4. UNCHANGED stream
    BY DEF User, Select, PostRun, PostContinue, Posts, Deselect, RunAnswer, ContinueAnswer, channel
<1>5. \A e : Due(e) => Due(e)'
    BY <1>4 DEF Due, Ending
<1>6. ASSUME Alone', DoubtGoes, \A e \in Execs : Heard(e)' => Comes(e)'
      PROVE  CatchInv'
    BY <1>1, <1>2, <1>4, <1>6, TidyStays DEF CatchInv, Caught
<1>7. ASSUME NEW x \in Execs, NEW parts \in SUBSET Parts, "nodes" \in parts,
             Issue(x, parts, TRUE, TRUE), selected' = x, buffer' = <<>>,
             running' = x \/ "log" \in parts
      PROVE  CatchInv'
    <2>1. Alone' /\ DoubtGoes
        BY <1>3, <1>7, IssueCatch DEF CatchInv
    <2>2. x \notin doubtful' => Comes(x)'
        BY <1>3, <1>7, FreshIssue DEF CatchInv
    <2>3. \A e \in Execs : Heard(e)' => Comes(e)'
        BY <1>7, <2>2 DEF Heard
    <2> QED BY <1>6, <2>1, <2>3
<1>8. ASSUME UNCHANGED load, doubtful \subseteq doubtful',
             \A e \in Execs : Heard(e)' => SamePage(e) /\ selected' = selected
      PROVE  CatchInv'
    <2>1. Alone' /\ DoubtGoes
        BY <1>8, SameLoads DEF CatchInv
    <2>2. \A e \in Execs : Heard(e)' => Comes(e)'
        BY <1>2, <1>5, <1>8, CaughtStays DEF Heard
    <2> QED BY <1>6, <2>1, <2>2
<1>9. ASSUME NEW x \in Execs, Select(x) PROVE CatchInv'
    <2>1. SelectExecution(x, PartsOf(x), TRUE) /\ UNCHANGED running
        BY <1>9 DEF Select
    <2>2. /\ PartsOf(x) \in SUBSET Parts /\ "nodes" \in PartsOf(x)
          /\ running = x \/ "log" \in PartsOf(x)
        BY <1>3 DEF PartsOf, Live
    <2> QED BY <1>7, <2>1, <2>2 DEF SelectExecution
<1>10. CASE RunAnswer
    <2>1. posted.exec \in Execs
        BY <1>10 DEF RunAnswer, Typed, PostedType, MaybeExec
    <2> QED BY <1>3, <1>7, <1>10, <2>1 DEF RunAnswer
<1>11. CASE Deselect
    <2>1. selected' = NoExec /\ UNCHANGED <<load, doubtful>>
        BY <1>11 DEF Deselect
    <2>2. \A e \in Execs : ~Heard(e)'
        BY <2>1, LiveAssumption DEF Heard, LiveAssumption
    <2> QED BY <1>8, <2>1, <2>2
<1>12. ASSUME NEW x \in Execs, PostRun(x) \/ PostContinue(x) PROVE CatchInv'
    <2>1. UNCHANGED <<shown, nodes, log, buffer, selected, running, load, doubtful>>
        BY <1>12 DEF PostRun, PostContinue, Posts, view, focus
    <2>2. \A e \in Execs : Heard(e)' => SamePage(e)
        BY <1>1, <2>1 DEF Heard, SamePage, Kept
    <2> QED BY <1>8, <2>1, <2>2
<1>13. CASE ContinueAnswer
    <2>1. /\ UNCHANGED <<shown, nodes, log, buffer, selected, load>>
          /\ doubtful' = doubtful \cup ({running} \ {posted.exec, NoExec})
          /\ running' = posted.exec
        BY <1>13 DEF ContinueAnswer, view
    <2>2. ASSUME NEW e \in Execs, Heard(e)' PROVE SamePage(e)
        <3>1. e \notin doubtful' /\ e # NoExec
            BY <2>2, LiveAssumption DEF Heard, LiveAssumption
        <3>2. running' # e => running # e
            BY <2>1, <3>1
        <3> QED BY <1>1, <2>1, <2>2, <3>2 DEF Heard, SamePage, Kept
    <2> QED BY <1>8, <2>1, <2>2
<1> QED BY <1>9, <1>10, <1>11, <1>12, <1>13 DEF User

(* Answers leave the slots to whom they belong.                            *)
LEMMA LoadingOwns ==
    ASSUME Typed, NEW s \in Slots, Read(s) \/ NodesAnswer(s) \/ LogAnswer(s) \/ LoadDone(s)
    PROVE  \A t \in Slots : InFlight(t)' => InFlight(t) /\ load'[t].exec = load[t].exec
<1>1. /\ load[s] \in Load /\ load \in [Slots -> Load]
      /\ InFlight(s) \/ load[s].read \/ load[s].awaits # {} => InFlight(s)
    BY UsedSlot DEF Typed, LoadsType
<1>2. InFlight(s)
    BY <1>1 DEF Read, NodesAnswer, LogAnswer, Answered, LoadDone
<1>3. \E r : load' = [load EXCEPT ![s] = r] /\ (r.exec = load[s].exec \/ r = NoLoad)
    BY <1>1 DEF Read, NodesAnswer, LogAnswer, Answered, LoadDone, Load
<1> QED BY <1>1, <1>2, <1>3 DEF InFlight

LEMMA NextCatches == Typed /\ Isolated /\ CatchInv /\ [Next]_vars => CatchInv'
<1> SUFFICES ASSUME Typed, Isolated, CatchInv, [Next]_vars PROVE CatchInv'
    OBVIOUS
<1>1. ASSUME UNCHANGED rows, UNCHANGED stream, Alone', DoubtGoes,
             \A e \in Execs : Heard(e)' => Comes(e)'
      PROVE  CatchInv'
    <2>1. Rest'
        BY <1>1 DEF CatchInv, Rest, rows
    <2>2. Tidy'
        BY <1>1, TidyStays DEF CatchInv, rows
    <2> QED BY <1>1, <2>1, <2>2 DEF CatchInv, Caught
<1>2. ASSUME UNCHANGED <<rows, stream, doubtful, selected>>
      PROVE  DoubtGoes /\ \A e \in Execs : Heard(e)' => Heard(e)
    BY <1>2 DEF DoubtGoes, Heard, Due, Ending, rows
<1>3. ASSUME UNCHANGED <<rows, stream, doubtful, selected, load>>,
             \A e \in Execs : Heard(e) /\ Comes(e) => SamePage(e)
      PROVE  CatchInv'
    <2>1. Alone' /\ DoubtGoes
        BY <1>3, SameLoads DEF CatchInv
    <2>2. \A e \in Execs : Heard(e)' => Comes(e)'
        BY <1>2, <1>3, SamePageComes DEF CatchInv, Caught
    <2> QED BY <1>1, <1>3, <2>1, <2>2
<1>4. CASE Loading
    <2>1. PICK s \in Slots : Read(s) \/ NodesAnswer(s) \/ LogAnswer(s) \/ LoadDone(s)
        BY <1>4 DEF Loading
    <2>2. UNCHANGED <<rows, channel, posted, doubtful, asks>> /\ UNCHANGED stream
        BY <1>4 DEF Loading, channel
    <2>3. UNCHANGED selected
        BY <2>1 DEF Read, NodesAnswer, LogAnswer, Answered, LoadDone, focus
    <2>4. \A e \in Execs : Heard(e)' => Comes(e)'
        <3> SUFFICES ASSUME NEW e \in Execs, Heard(e)' PROVE Comes(e)'
            OBVIOUS
        <3>1. Heard(e)
            BY <1>2, <2>2, <2>3
        <3>2. selected = e /\ Comes(e) /\ Alone
            BY <3>1 DEF Heard, CatchInv, Caught
        <3> QED BY <2>1, <2>2, <3>2, LoadingCatches
    <2>5. \A t \in Slots : InFlight(t)' => InFlight(t) /\ load'[t].exec = load[t].exec
        BY <2>1, LoadingOwns
    <2>6. Alone'
        BY <2>2, <2>5 DEF CatchInv, Alone
    <2> QED BY <1>1, <1>2, <2>2, <2>3, <2>4, <2>6
<1>5. CASE Disconnect
    <2>1. stream' = <<>> /\ doubtful' = doubtful \cup {stream[i].exec : i \in DOMAIN stream}
          /\ UNCHANGED <<load, shown, nodes, log, buffer, running, selected>> /\ UNCHANGED rows
        BY <1>5 DEF Disconnect, view, focus
    <2>2. Alone' /\ DoubtGoes
        BY <2>1, SameLoads DEF CatchInv
    <2>3. Tidy'
        BY <2>1 DEF Tidy, TidyOf
    <2>4. ASSUME NEW e \in Execs, Heard(e)' PROVE Comes(e)'
        <3>1. e \notin doubtful' /\ reported[e]
            BY <2>1, <2>4 DEF Heard, rows
        <3>2. ~Due(e)
            BY <2>1, <3>1 DEF Due, Ending
        <3>3. SamePage(e)
            BY <2>1 DEF SamePage, rows
        <3> QED BY <2>1, <2>4, <3>1, <3>2, <3>3, CaughtStays
    <2>5. Rest'
        BY <2>1 DEF CatchInv, Rest, rows
    <2> QED BY <2>2, <2>3, <2>4, <2>5 DEF CatchInv, Caught
<1>6. CASE FlushRealtimeLogs
    <2>1. /\ buffer # <<>>
          /\ UNCHANGED <<rows, stream, doubtful, selected, load, shown, nodes, running>>
        BY <1>6 DEF FlushRealtimeLogs, channel, focus
    <2>2. ASSUME NEW e \in Execs, Heard(e)' PROVE Comes(e)'
        <3>1. Comes(e)
            BY <1>2, <2>1, <2>2 DEF CatchInv, Caught
        <3>2. running = e
            BY <2>1, <3>1 DEF Comes, LogComes
        <3>3. \A s \in Slots : LoadOf(s, e)' <=> LoadOf(s, e)
            BY <2>1 DEF LoadOf, InFlight
        <3> QED BY <2>1, <3>1, <3>2, <3>3
                DEF Comes, ReadsTrue, ShownComes, NodesCome, Awaiting, rows
    <2>3. Alone' /\ DoubtGoes
        BY <2>1, SameLoads DEF CatchInv
    <2> QED BY <1>1, <2>1, <2>2, <2>3
<1>7. CASE Reconnect \/ UNCHANGED vars
    <2>1. UNCHANGED <<rows, stream, doubtful, selected, load, shown, nodes, log, buffer, running>>
        BY <1>7 DEF Reconnect, vars, channel, view, focus
    <2> QED BY <1>3, <2>1 DEF SamePage, rows
<1> QED BY <1>4, <1>5, <1>6, <1>7, ServerCatches, DeliverCatches, UserCatches DEF Next

(* After the end of a run the page agrees with the database, whatever was  *)
(* appended live, reloaded, buffered and discarded before (selectExecution *)
(* upon execution.completed), in whatever order answers and events come    *)
(* and others write; but for the executions in doubt.                      *)
THEOREM PageCatchesUp == Spec => []ViewCatchesUp
<1>1. Init => Typed /\ Isolated /\ CatchInv
    <2> SUFFICES ASSUME Init PROVE Typed /\ Isolated /\ CatchInv
        OBVIOUS
    <2>1. Rest
        BY DEF Init, Rest, Ended
    <2>2. Alone /\ Tidy /\ selected = NoExec
        BY DEF Init, Alone, InFlight, Tidy, TidyOf
    <2>3. Caught
        BY <2>2, LiveAssumption DEF Caught, Heard, LiveAssumption
    <2> QED BY <2>1, <2>2, <2>3, InitTyped, BlankType DEF Init, Isolated, CatchInv
<1>2. Typed /\ Isolated /\ CatchInv /\ [Next]_vars => (Typed /\ Isolated /\ CatchInv)'
    BY NextTyped, NextIsolated, NextCatches
<1>3. CatchInv => ViewCatchesUp
    <2> SUFFICES ASSUME CatchInv, Settled, selected \in Execs \ (doubtful \cup {running}),
                        reported[selected]
                 PROVE  /\ shown = [exec |-> selected, status |-> status[selected]]
                        /\ nodes = [exec |-> selected, status |-> nodeRow[selected]]
                        /\ log = LinesOf(selected, lines[selected])
        BY DEF ViewCatchesUp
    <2>1. ~Due(selected)
        BY DEF Due, Settled
    <2>2. Comes(selected) /\ running # selected
        BY <2>1 DEF CatchInv, Caught, Heard
    <2>3. \A s \in Slots : ~LoadOf(s, selected)
        BY DEF Settled, LoadOf
    <2> QED BY <2>2, <2>3 DEF Comes, ShownComes, NodesCome, LogComes, Awaiting
<1> QED BY <1>1, <1>2, <1>3, PTL DEF Spec

=============================================================================
