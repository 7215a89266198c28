--------------------------- MODULE ExecutionProofs ---------------------------
(***************************************************************************)
(* Safety of Execution for every graph, every set of executions and        *)
(* clients, every capacity of the channel and every number of calls and    *)
(* restarts. What the rows tell about the outcome of a run comes last,     *)
(* for the requests and faults that its theorems name.                     *)
(***************************************************************************)
EXTENDS Execution, TLAPS

-----------------------------------------------------------------------------
(* Operators                                                               *)

(* What ToLower makes of a final status of the engine is a final status of *)
(* a row.                                                                  *)
LEMMA LowerTerminal ==
    ASSUME NEW v \in EngineTerminal
    PROVE  Lower(v) \in Terminal
BY DEF EngineTerminal, Terminal, Lower

(* A push keeps the channel within its capacity.                           *)
LEMMA PushType ==
    ASSUME eventCh \in Seq(Event), Len(eventCh) <= QueueCap,
           NEW evt \in Event, PushEvent(evt)
    PROVE  eventCh' \in Seq(Event) /\ Len(eventCh') <= QueueCap
BY ConstantsAssumption DEF PushEvent, ConstantsAssumption

(* Taking an event does too, and the event is one that was pushed.         *)
LEMMA TakeType ==
    ASSUME eventCh \in Seq(Event), Len(eventCh) <= QueueCap,
           eventCh # <<>>, eventCh' = Tail(eventCh)
    PROVE  /\ eventCh' \in Seq(Event) /\ Len(eventCh') <= QueueCap
           /\ Head(eventCh) \in Event
BY ConstantsAssumption DEF ConstantsAssumption

(* A set of completed nodes is a snapshot, and never the missing one.      *)
LEMMA DoneIsSnapshot ==
    ASSUME NEW S, S \subseteq Nodes
    PROVE  S \in Snapshot /\ S # NoSnapshot
BY ConstantsAssumption DEF Snapshot, NoSnapshot, ConstantsAssumption

-----------------------------------------------------------------------------
(* Type correctness                                                        *)

LEMMA InitType == Init => TypeOK
<1> SUFFICES ASSUME Init PROVE TypeOK
    OBVIOUS
<1>1. /\ eventCh \in Seq(Event)
      /\ Len(eventCh) <= QueueCap
    BY ConstantsAssumption DEF Init, ConstantsAssumption
<1>2. /\ status \in [Execs -> Status]
      /\ completed \in [Execs -> BOOLEAN]
      /\ snapshot \in [Execs -> Snapshot]
      /\ nodeRow \in [Execs -> [Nodes -> NodeStatus]]
    BY DEF Init, Status, NodeStatus, Snapshot
<1>3. /\ engine \in [Execs -> EngineStatus]
      /\ engNode \in [Execs -> [Nodes -> {"idle", "RUNNING", "SUCCESS", "FAILED"}]]
      /\ cancelling \in [Execs -> BOOLEAN]
      /\ reported \in [Execs -> BOOLEAN]
      /\ outcome \in [Execs -> {"none"} \cup Terminal]
    BY DEF Init, EngineStatus
<1>4. /\ bridge \in [exec : Execs \cup {NoExec}, status : {"none"} \cup Terminal]
      /\ runner \in [Execs -> RunnerAt]
      /\ final \in [Execs -> {"none"} \cup Terminal]
    BY DEF Init, Idle, RunnerAt
<1>5. /\ at \in [Clients -> ReqAt]
      /\ on \in [Clients -> Execs \cup {NoExec}]
      /\ seen \in [Clients -> Snapshot]
      /\ calls \in Nat /\ crashes \in Nat
    BY DEF Init, ReqAt, Snapshot
<1> QED BY <1>1, <1>2, <1>3, <1>4, <1>5 DEF TypeOK

LEMMA EngineType ==
    ASSUME TypeOK, NEW e \in Execs, Engine(e)
    PROVE  TypeOK'
<1> USE DEF TypeOK
<1> /\ UNCHANGED <<bridge, runner, final, at, on, seen, calls, crashes>>
    BY DEF Engine, runnerVars, reqVars, bounds
<1>1. CASE EngineStart(e)
    <2>1. [type |-> "execution_start", exec |-> e] \in Event
        BY DEF Event
    <2>2. eventCh' \in Seq(Event) /\ Len(eventCh') <= QueueCap
        BY <1>1, <2>1, PushType DEF EngineStart
    <2> QED BY <1>1, <2>2 DEF EngineStart, dbVars, EngineStatus
<1>2. CASE \E n \in Nodes : EngineNodeStep(e, n)
    <2> PICK n \in Nodes : EngineNodeStep(e, n)
        BY <1>2
    <2>1. CASE EngineNodeStart(e, n)
        <3>1. [type |-> "node_start", exec |-> e, node |-> n] \in Event
            BY DEF Event
        <3>2. eventCh' \in Seq(Event) /\ Len(eventCh') <= QueueCap
            BY <2>1, <3>1, PushType DEF EngineNodeStart
        <3> QED BY <2>1, <3>2 DEF EngineNodeStart, dbVars
    <2>2. CASE \E result \in {"SUCCESS", "FAILED"} : EngineNodeEnd(e, n, result)
        <3> PICK result \in {"SUCCESS", "FAILED"} : EngineNodeEnd(e, n, result)
            BY <2>2
        <3>1. [type |-> "node_complete", exec |-> e, node |-> n,
               status |-> Lower(result)] \in Event
            BY DEF Event, Lower
        <3>2. eventCh' \in Seq(Event) /\ Len(eventCh') <= QueueCap
            BY <3>1, PushType DEF EngineNodeEnd
        <3> QED BY <3>2 DEF EngineNodeEnd, dbVars
    <2>3. CASE EngineNodeVanish(e, n)
        BY <2>3 DEF EngineNodeVanish, dbVars
    <2> QED BY <2>1, <2>2, <2>3 DEF EngineNodeStep
<1>3. CASE EngineSettle(e)
    <2>1. Verdicts(e) \subseteq EngineTerminal
        BY DEF Verdicts, EngineTerminal
    <2>2. PICK v \in Verdicts(e) :
            /\ engine' = [engine EXCEPT ![e] = v]
            /\ outcome' = [outcome EXCEPT ![e] = Lower(v)]
        BY <1>3 DEF EngineSettle
    <2>3. v \in EngineStatus /\ Lower(v) \in Terminal
        BY <2>1, LowerTerminal DEF EngineStatus
    <2> QED BY <1>3, <2>2, <2>3 DEF EngineSettle, dbVars
<1>4. CASE EngineFinish(e)
    <2>1. Lower(engine[e]) \in Terminal
        BY <1>4, LowerTerminal DEF EngineFinish
    <2>2. [type |-> "execution_complete", exec |-> e,
           status |-> Lower(engine[e])] \in Event
        BY <2>1 DEF Event
    <2>3. eventCh' \in Seq(Event) /\ Len(eventCh') <= QueueCap
        BY <1>4, <2>2, PushType DEF EngineFinish
    <2>4. Done(e) \in Snapshot
        BY DoneIsSnapshot DEF Done
    <2> QED BY <1>4, <2>3, <2>4 DEF EngineFinish
<1>5. CASE EngineRetire(e)
    BY <1>5 DEF EngineRetire, dbVars, EngineStatus
<1> QED BY <1>1, <1>2, <1>3, <1>4, <1>5 DEF Engine

LEMMA BridgeType ==
    ASSUME TypeOK, Bridge
    PROVE  TypeOK'
<1> USE DEF TypeOK
<1> /\ UNCHANGED <<engine, engNode, cancelling, reported, outcome>>
    /\ UNCHANGED <<runner, final, at, on, seen, calls, crashes>>
    BY DEF Bridge, engineVars, runnerVars, reqVars, bounds
<1>1. CASE BridgeTake
    <2> DEFINE evt == Head(eventCh)
    <2>1. /\ eventCh' \in Seq(Event) /\ Len(eventCh') <= QueueCap
          /\ evt \in Event
        BY <1>1, TakeType DEF BridgeTake
    <2>2. evt.exec \in Execs
        BY <2>1 DEF Event
    <2> HIDE DEF evt
    <2>3. CASE evt.type = "execution_start" /\ PersistStart(evt)
        BY <2>1, <2>2, <2>3 DEF PersistStart, Status
    <2>4. CASE evt.type = "node_start" /\ PersistNodeStart(evt)
        BY <2>1, <2>2, <2>4 DEF PersistNodeStart, NodeStatus
    <2>5. CASE evt.type = "node_complete" /\ PersistNodeComplete(evt)
        <3>1. evt.status \in NodeStatus
            BY <2>1, <2>5 DEF Event, NodeStatus
        <3> DEFINE row == [nodeRow[evt.exec] EXCEPT ![evt.node] = IF @ = "running" THEN evt.status ELSE @]
        <3>2. /\ nodeRow' = [nodeRow EXCEPT ![evt.exec] = row]
              /\ UNCHANGED <<status, completed, snapshot, bridge>>
            BY <2>5 DEF PersistNodeComplete
        <3>3. row \in [Nodes -> NodeStatus]
            <4>1. PICK old \in [Nodes -> NodeStatus] : old = nodeRow[evt.exec]
                BY <2>2
            <4>2. PICK s \in NodeStatus : s = evt.status
                BY <3>1
            <4>3. row = [n \in Nodes |-> IF n = evt.node /\ old[n] = "running" THEN s ELSE old[n]]
                BY <4>1, <4>2
            <4>4. [n \in Nodes |-> IF n = evt.node /\ old[n] = "running" THEN s ELSE old[n]] \in [Nodes -> NodeStatus]
                <5> HIDE DEF TypeOK
                <5> QED OBVIOUS
            <4> QED BY <4>3, <4>4
        <3> HIDE DEF row
        <3>4. nodeRow' \in [Execs -> [Nodes -> NodeStatus]]
            BY <2>2, <3>2, <3>3
        <3> QED BY <2>1, <3>2, <3>4
    <2>6. CASE evt.type = "execution_complete" /\ PersistCompleteRead(evt)
        <3>1. evt.status \in Terminal
            BY <2>1, <2>6 DEF Event
        <3> QED BY <2>1, <2>2, <2>6, <3>1 DEF PersistCompleteRead, dbVars, Terminal
    <2> QED BY <1>1, <2>3, <2>4, <2>5, <2>6 DEF BridgeTake, evt
<1>2. CASE BridgeComplete
    <2>1. bridge'\in [exec : Execs \cup {NoExec}, status : {"none"} \cup Terminal]
        BY <1>2 DEF BridgeComplete, Idle
    <2>2. bridge.status \in Status
        BY DEF Status
    <2> QED BY <1>2, <2>1, <2>2 DEF BridgeComplete
<1> QED BY <1>1, <1>2 DEF Bridge

LEMMA RunnerType ==
    ASSUME TypeOK, NEW e \in Execs, Runner(e)
    PROVE  TypeOK'
<1> USE DEF TypeOK
<1> UNCHANGED <<eventCh, bridge, at, on, seen, calls, crashes>>
    BY DEF Runner, reqVars, bounds
<1>1. CASE RunnerExpandFails(e)
    BY <1>1 DEF RunnerExpandFails, RunnerGoes, WriteFailed, engineVars,
                RunnerAt, Status, Terminal
<1>2. CASE RunnerExpand(e)
    <2>1. {} \in Snapshot
        BY DEF Snapshot
    <2> QED BY <1>2, <2>1 DEF RunnerExpand, RunnerGoes, engineVars, RunnerAt
<1>3. CASE RunnerMark(e)
    BY <1>3 DEF RunnerMark, RunnerGoes, engineVars, RunnerAt, Status
<1>4. CASE RunnerExecute(e)
    BY <1>4 DEF RunnerExecute, RunnerGoes, ExecuteWorkflow, Launch, dbVars,
                RunnerAt, EngineStatus
<1>5. CASE RunnerExecuteFails(e)
    BY <1>5 DEF RunnerExecuteFails, RunnerGoes, WriteFailed, engineVars,
                RunnerAt, Status, Terminal
<1>6. CASE RunnerPoll(e)
    <2>1. Lower(engine[e]) \in Terminal
        BY <1>6, LowerTerminal DEF RunnerPoll
    <2> QED BY <1>6, <2>1 DEF RunnerPoll, RunnerGoes, dbVars, engineVars, RunnerAt
<1>7. CASE RunnerPollGone(e)
    BY <1>7 DEF RunnerPollGone, RunnerGoes, dbVars, engineVars, RunnerAt
<1>8. CASE RunnerWaitHit(e)
    BY <1>8 DEF RunnerWaitHit, RunnerGoes, dbVars, engineVars, RunnerAt
<1>9. CASE RunnerWaitTimeout(e)
    <2>1. FinalFromNodes(e) \in Terminal
        BY DEF FinalFromNodes, Terminal
    <2> QED BY <1>9, <2>1 DEF RunnerWaitTimeout, RunnerGoes, dbVars, engineVars,
                              RunnerAt
<1>10. CASE RunnerRead(e)
    BY <1>10 DEF RunnerRead, RunnerGoes, dbVars, engineVars, RunnerAt, Terminal
<1>11. CASE RunnerWrite(e)
    BY <1>11 DEF RunnerWrite, RunnerGoes, engineVars, RunnerAt, Status, Terminal
<1> QED BY <1>1, <1>2, <1>3, <1>4, <1>5, <1>6, <1>7, <1>8, <1>9, <1>10, <1>11
        DEF Runner

(* What the steps of a request do to its own state.                        *)
ReqOK ==
    /\ at \in [Clients -> ReqAt]
    /\ on \in [Clients -> Execs \cup {NoExec}]
    /\ seen \in [Clients -> Snapshot]
    /\ calls \in Nat
    /\ crashes \in Nat

LEMMA EntersType ==
    ASSUME TypeOK, NEW c \in Clients, NEW op, NEW e \in Execs \cup {NoExec},
           NEW step \in ReqAt, Enters(c, op, e, step)
    PROVE  ReqOK'
BY DoneIsSnapshot DEF TypeOK, ReqOK, Enters, Snapshot

LEMMA MovesType ==
    ASSUME TypeOK, NEW c \in Clients, NEW from, NEW to \in ReqAt,
           Moves(c, from, to)
    PROVE  ReqOK'
BY DEF TypeOK, ReqOK, Moves, bounds

LEMMA ReturnsType ==
    ASSUME TypeOK, NEW c \in Clients, NEW from, Returns(c, from)
    PROVE  ReqOK'
BY DEF TypeOK, ReqOK, Returns, bounds, ReqAt, Snapshot

LEMMA NewCallType ==
    ASSUME TypeOK, NEW c \in Clients, NewCall(c), UNCHANGED <<eventCh, bridge>>
    PROVE  TypeOK'
<1>1. ReqOK' /\ UNCHANGED <<dbVars, engineVars, runnerVars>>
    <2> \A step \in {"run.insert", "cancel.engine", "pause.engine",
                     "resume.engine", "continue.load", "update.load"} : step \in ReqAt
        BY DEF ReqAt
    <2>1. CASE RunCheck(c)
        BY <2>1, EntersType DEF RunCheck
    <2>2. ASSUME NEW e \in Execs,
                 \/ CancelCheck(c, e) \/ PauseCheck(c, e) \/ ResumeCheck(c, e)
                 \/ GraphCheck(c, "continue", e, "continue.load")
                 \/ GraphCheck(c, "update", e, "update.load")
          PROVE  ReqOK' /\ UNCHANGED <<dbVars, engineVars, runnerVars>>
        BY <2>2, EntersType DEF CancelCheck, PauseCheck, ResumeCheck, GraphCheck
    <2> QED BY <2>1, <2>2 DEF NewCall
<1> QED BY <1>1 DEF TypeOK, ReqOK, dbVars, engineVars, runnerVars

LEMMA HandlerType ==
    ASSUME TypeOK, NEW c \in Clients, Handler(c), UNCHANGED <<eventCh, bridge>>
    PROVE  TypeOK'
<1> USE DEF TypeOK
<1>0. ReqOK'
    <2> \A step \in {"cancel.row", "cancel.nodes", "pause.export", "pause.row",
                     "resume.load", "resume.rerun", "resume.row",
                     "continue.save", "continue.rerun", "update.save"} : step \in ReqAt
        BY DEF ReqAt
    <2> QED BY MovesType, ReturnsType
            DEF Handler, RunInsert, CancelEngine, CancelRow, CancelNodes,
                PauseEngine, PauseRefused, PauseExport, PauseRow, ResumeEngine,
                ResumeGone, ResumeRefused, ResumeRerun, ResumeRow, Load,
                ContinueSave, UpdateSave, GraphRefused, ContinueRerun, RerunRefused
<1>1. ASSUME NEW e \in Execs, RunInsert(c, e) PROVE TypeOK'
    BY <1>0, <1>1 DEF ReqOK, RunInsert, engineVars, Status, RunnerAt
<1>2. CASE CancelEngine(c)
    BY <1>0, <1>2 DEF ReqOK, CancelEngine, dbVars, runnerVars
<1>3. CASE CancelRow(c)
    BY <1>0, <1>3 DEF ReqOK, CancelRow, engineVars, runnerVars, Status, Terminal
<1>4. CASE CancelNodes(c)
    BY <1>0, <1>4 DEF ReqOK, CancelNodes, engineVars, runnerVars, NodeStatus
<1>5. CASE PauseEngine(c)
    BY <1>0, <1>5 DEF ReqOK, PauseEngine, dbVars, runnerVars, EngineStatus
<1>6. CASE \/ PauseRefused(c) \/ ResumeGone(c) \/ ResumeRefused(c)
           \/ RerunRefused(c) \/ GraphRefused(c)
    BY <1>0, <1>6 DEF ReqOK, PauseRefused, ResumeGone, ResumeRefused,
                      RerunRefused, GraphRefused, dbVars, engineVars, runnerVars
<1>7. CASE PauseExport(c)
    <2>1. Done(on[c]) \in Snapshot
        BY DoneIsSnapshot DEF Done
    <2> QED BY <1>0, <1>7, <2>1 DEF ReqOK, PauseExport, engineVars, runnerVars
<1>8. CASE PauseRow(c) \/ ResumeRow(c)
    BY <1>0, <1>8 DEF ReqOK, PauseRow, ResumeRow, engineVars, runnerVars, Status
<1>9. CASE ResumeEngine(c)
    BY <1>0, <1>9 DEF ReqOK, ResumeEngine, dbVars, runnerVars, EngineStatus
<1>10. ASSUME NEW from, NEW to, Load(c, from, to) PROVE TypeOK'
    BY <1>0, <1>10 DEF ReqOK, Load, LoadExecution, dbVars, runnerVars, EngineStatus
<1>11. CASE ResumeRerun(c) \/ ContinueRerun(c)
    <2>1. Rerun(on[c]) /\ UNCHANGED <<dbVars, runnerVars>>
        BY <1>11 DEF ResumeRerun, ContinueRerun
    <2>2. engNode' \in [Execs -> [Nodes -> {"idle", "RUNNING", "SUCCESS", "FAILED"}]]
        <3>1. CASE on[c] \in Execs
            BY <2>1, <3>1 DEF Rerun
        <3>2. CASE on[c] \notin Execs
            BY <2>1, <3>2 DEF Rerun
        <3> QED BY <3>1, <3>2
    <2> QED BY <1>0, <2>1, <2>2 DEF ReqOK, Rerun, Launch, dbVars, runnerVars,
                                    EngineStatus
<1>12. CASE ContinueSave(c) \/ UpdateSave(c)
    <2>1. Done(on[c]) \in Snapshot
        BY DoneIsSnapshot DEF Done
    <2> QED BY <1>0, <1>12, <2>1 DEF ReqOK, ContinueSave, UpdateSave, SaveGraph,
                                     engineVars, runnerVars
<1> QED BY <1>1, <1>2, <1>3, <1>4, <1>5, <1>6, <1>7, <1>8, <1>9, <1>10, <1>11,
           <1>12 DEF Handler

LEMMA CrashType ==
    ASSUME TypeOK, Crash
    PROVE  TypeOK'
<1>1. <<>> \in Seq(Event) /\ Len(<<>>) <= QueueCap
    BY ConstantsAssumption DEF ConstantsAssumption
<1> QED BY <1>1 DEF TypeOK, Crash, dbVars, Idle, EngineStatus, RunnerAt, ReqAt,
                    Snapshot

(* Every variable keeps its type: in particular the event channel never    *)
(* holds more than its capacity (PushEvent), and every status written is   *)
(* one of the statuses that the model package lists.                       *)
THEOREM TypeCorrect == Spec => []TypeOK
<1>1. TypeOK /\ [Next]_vars => TypeOK'
    <2> SUFFICES ASSUME TypeOK, [Next]_vars PROVE TypeOK'
        OBVIOUS
    <2>1. CASE Next
        BY <2>1, EngineType, RunnerType, NewCallType, HandlerType, BridgeType,
           CrashType DEF Next, Api
    <2>2. CASE UNCHANGED vars
        BY <2>2 DEF TypeOK, vars, dbVars, engineVars, runnerVars, reqVars, bounds
    <2> QED BY <2>1, <2>2
<1> QED BY <1>1, InitType, PTL DEF Spec

-----------------------------------------------------------------------------
(* Whatever runs can be rebuilt                                            *)

\* The steps at which a request may yet make an instance or a paused row.
Rebuilding == {"pause.export", "pause.row",
               "resume.engine", "resume.load", "resume.rerun", "resume.row",
               "continue.load", "continue.save", "continue.rerun",
               "update.load", "update.save"}

(***************************************************************************)
(* RebuildableAlways is not inductive: the goroutine that is about to call *)
(* the engine, and the request that is about to load or to pause an        *)
(* instance, must already be past the write of the snapshot.               *)
(***************************************************************************)
Saved(e) == snapshot[e] # NoSnapshot

Unused(e) ==
    /\ ~Present(e)
    /\ status[e] # "paused"
    /\ runner[e] \notin {"mark", "execute"}
    /\ \A c \in Clients : ~(at[c] \in Rebuilding /\ on[c] = e)

RebuildInv == \A e \in Execs : Saved(e) \/ Unused(e)

(* Once a snapshot is written there is always one: no step sets            *)
(* runtime_yaml back to NULL.                                              *)
LEMMA SnapshotStays ==
    ASSUME TypeOK, [Next]_vars, NEW e \in Execs, Saved(e)
    PROVE  Saved(e)'
<1>0. \A f : Done(f) # NoSnapshot
    BY DoneIsSnapshot DEF Done
<1>1. {} # NoSnapshot
    BY DEF NoSnapshot
<1> USE <1>0, <1>1 DEF TypeOK, Saved
<1>2. CASE UNCHANGED snapshot
    BY <1>2
<1>3. ASSUME NEW f \in Execs, Engine(f) PROVE Saved(e)'
    <2>1. CASE EngineFinish(f)
        BY <2>1 DEF EngineFinish
    <2>2. CASE ~EngineFinish(f)
        <3>1. UNCHANGED snapshot
            BY <1>3, <2>2 DEF Engine, EngineStart, EngineNodeStep, EngineNodeStart,
                              EngineNodeEnd, EngineNodeVanish, EngineSettle,
                              EngineRetire, dbVars
        <3> QED BY <3>1
    <2> QED BY <2>1, <2>2
<1>4. ASSUME NEW f \in Execs, Runner(f) PROVE Saved(e)'
    BY <1>4 DEF Runner, RunnerExpandFails, RunnerExpand, RunnerMark, RunnerExecute,
                RunnerExecuteFails, RunnerPoll, RunnerPollGone, RunnerWaitHit,
                RunnerWaitTimeout, RunnerRead, RunnerWrite, WriteFailed, dbVars
<1>5. CASE Bridge
    BY <1>5 DEF Bridge, BridgeTake, BridgeComplete, PersistStart, PersistNodeStart,
                PersistNodeComplete, PersistCompleteRead, dbVars
<1>6. ASSUME NEW c \in Clients, NewCall(c) PROVE Saved(e)'
    BY <1>6 DEF NewCall, RunCheck, CancelCheck, PauseCheck, ResumeCheck, GraphCheck,
                dbVars
<1>7. ASSUME NEW c \in Clients, Handler(c) PROVE Saved(e)'
    <2>1. CASE PauseExport(c)
        BY <2>1 DEF PauseExport
    <2>2. CASE ContinueSave(c) \/ UpdateSave(c)
        BY <2>2 DEF ContinueSave, UpdateSave, SaveGraph
    <2> QED BY <1>7, <2>1, <2>2
            DEF Handler, RunInsert, CancelEngine, CancelRow, CancelNodes,
                PauseEngine, PauseRefused, PauseRow, ResumeEngine, ResumeGone,
                ResumeRefused, ResumeRerun, ResumeRow, Load, GraphRefused,
                ContinueRerun, RerunRefused, dbVars
<1>8. CASE Crash
    BY <1>8 DEF Crash, dbVars
<1> QED BY <1>2, <1>3, <1>4, <1>5, <1>6, <1>7, <1>8 DEF Next, Api, vars, dbVars

LEMMA RebuildStep ==
    ASSUME TypeOK, RebuildInv, [Next]_vars
    PROVE  RebuildInv'
<1> SUFFICES ASSUME NEW e \in Execs, ~Saved(e)'
             PROVE  Unused(e)'
    BY DEF RebuildInv
<1>0. ~Saved(e) /\ Unused(e)
    BY SnapshotStays DEF RebuildInv
<1>1. \A f : Done(f) # NoSnapshot
    BY DoneIsSnapshot DEF Done
<1> USE <1>0 DEF TypeOK, Unused, Present, Saved
<1>2. CASE UNCHANGED vars
    BY <1>2 DEF vars, dbVars, engineVars, runnerVars, reqVars
<1>3. ASSUME NEW f \in Execs, Engine(f) PROVE Unused(e)'
    <2>1. UNCHANGED <<status, runner, at, on>>
        BY <1>3 DEF Engine, EngineStart, EngineNodeStep, EngineNodeStart,
                    EngineNodeEnd, EngineNodeVanish, EngineSettle, EngineFinish,
                    EngineRetire, dbVars, runnerVars, reqVars
    <2>2. engine'[e] = "absent"
        <3>1. CASE EngineStart(f) \/ EngineSettle(f)
            BY <3>1 DEF EngineStart, EngineSettle
        <3>2. CASE EngineFinish(f) \/ EngineRetire(f)
            BY <3>2 DEF EngineFinish, EngineRetire
        <3>3. CASE \E n \in Nodes : EngineNodeStep(f, n)
            BY <3>3 DEF EngineNodeStep, EngineNodeStart, EngineNodeEnd,
                        EngineNodeVanish
        <3> QED BY <1>3, <3>1, <3>2, <3>3 DEF Engine
    <2> QED BY <2>1, <2>2
<1>4. ASSUME NEW f \in Execs, Runner(f) PROVE Unused(e)'
    <2>1. UNCHANGED <<at, on>>
        BY <1>4 DEF Runner, reqVars
    <2>2. CASE RunnerExpand(f)
        <3>1. f # e
            BY <2>2, <1>1 DEF RunnerExpand, NoSnapshot
        <3> QED BY <2>1, <2>2, <3>1 DEF RunnerExpand, RunnerGoes, engineVars
    <2>3. CASE RunnerMark(f) \/ RunnerExecute(f)
        BY <2>1, <2>3 DEF RunnerMark, RunnerExecute, RunnerGoes, ExecuteWorkflow,
                          Launch, dbVars, engineVars
    <2>4. CASE RunnerExpandFails(f) \/ RunnerExecuteFails(f)
        BY <2>1, <2>4 DEF RunnerExpandFails, RunnerExecuteFails, RunnerGoes,
                          WriteFailed, engineVars
    <2>5. CASE \/ RunnerPoll(f) \/ RunnerPollGone(f) \/ RunnerWaitHit(f)
               \/ RunnerWaitTimeout(f) \/ RunnerRead(f)
        BY <2>1, <2>5 DEF RunnerPoll, RunnerPollGone, RunnerWaitHit,
                          RunnerWaitTimeout, RunnerRead, RunnerGoes, dbVars,
                          engineVars
    <2>6. CASE RunnerWrite(f)
        BY <2>1, <2>6 DEF RunnerWrite, RunnerGoes, engineVars, Terminal
    <2> QED BY <1>4, <2>2, <2>3, <2>4, <2>5, <2>6 DEF Runner
<1>5. CASE Bridge
    <2>1. UNCHANGED <<engine, runner, at, on>>
        BY <1>5 DEF Bridge, engineVars, runnerVars, reqVars
    <2>2. status'[e] # "paused"
        BY <1>5 DEF Bridge, BridgeTake, BridgeComplete, PersistStart,
                    PersistNodeStart, PersistNodeComplete, PersistCompleteRead,
                    dbVars, Terminal
    <2> QED BY <2>1, <2>2
<1>6. ASSUME NEW c \in Clients, NewCall(c) PROVE Unused(e)'
    <2>1. UNCHANGED <<engine, status, runner>>
        BY <1>6 DEF NewCall, RunCheck, CancelCheck, PauseCheck, ResumeCheck,
                    GraphCheck, dbVars, engineVars, runnerVars
    <2>2. ~(at'[c] \in Rebuilding /\ on'[c] = e)
        BY <1>6 DEF NewCall, RunCheck, CancelCheck, PauseCheck, ResumeCheck,
                    GraphCheck, Enters, Rebuilding, Terminal
    <2>3. \A d \in Clients \ {c} : at'[d] = at[d] /\ on'[d] = on[d]
        BY <1>6 DEF NewCall, RunCheck, CancelCheck, PauseCheck, ResumeCheck,
                    GraphCheck, Enters
    <2> QED BY <2>1, <2>2, <2>3
<1>7. ASSUME NEW c \in Clients, Handler(c) PROVE Unused(e)'
    <2>1. ASSUME NEW f \in Execs, RunInsert(c, f) PROVE Unused(e)'
        BY <2>1 DEF RunInsert, Returns, Rebuilding, engineVars
    <2>2. CASE CancelEngine(c) \/ CancelRow(c) \/ CancelNodes(c)
        BY <2>2 DEF CancelEngine, CancelRow, CancelNodes, Moves, Returns,
                    Rebuilding, dbVars, engineVars, runnerVars
    <2>3. CASE PauseEngine(c)
        <3>1. on[c] # e
            BY <2>3 DEF PauseEngine
        <3> QED BY <2>3, <3>1 DEF PauseEngine, Moves, dbVars, runnerVars
    <2>4. CASE \/ PauseRefused(c) \/ ResumeRefused(c) \/ RerunRefused(c)
               \/ GraphRefused(c)
        <3>1. UNCHANGED <<engine, status, runner>> /\ \E from : Returns(c, from)
            BY <2>4 DEF PauseRefused, ResumeRefused, RerunRefused, GraphRefused,
                        dbVars, engineVars, runnerVars
        <3>2. \A d \in Clients : at'[d] \in Rebuilding /\ on'[d] = e
                  => at[d] \in Rebuilding /\ on[d] = e
            BY <3>1 DEF Returns, Rebuilding
        <3> QED BY <3>1, <3>2
    <2>5. CASE PauseExport(c) \/ PauseRow(c) \/ ResumeRow(c)
        <3>1. at[c] \in Rebuilding
            BY <2>5 DEF PauseExport, PauseRow, ResumeRow, Moves, Returns, Rebuilding
        <3> QED BY <2>5, <3>1 DEF PauseExport, PauseRow, ResumeRow, Moves, Returns,
                                  engineVars, runnerVars, Rebuilding
    <2>6. CASE ResumeEngine(c) \/ ResumeGone(c)
        <3>1. at[c] \in Rebuilding
            BY <2>6 DEF ResumeEngine, ResumeGone, Moves, Rebuilding
        <3>2. on[c] # e /\ UNCHANGED <<status, runner, on>>
            BY <2>6, <3>1 DEF ResumeEngine, ResumeGone, Moves, dbVars, runnerVars
        <3>3. engine'[e] = engine[e]
            BY <2>6, <3>2 DEF ResumeEngine, ResumeGone, engineVars
        <3>4. \A d \in Clients : at'[d] \in Rebuilding => at[d] \in Rebuilding
            BY <2>6, <3>1 DEF ResumeEngine, ResumeGone, Moves
        <3> QED BY <3>2, <3>3, <3>4
    <2>7. CASE \/ Load(c, "resume.load", "resume.rerun")
               \/ Load(c, "continue.load", "continue.save")
               \/ Load(c, "continue.load", "continue.rerun")
               \/ Load(c, "update.load", "update.save")
        <3>1. at[c] \in Rebuilding
            BY <2>7 DEF Load, Moves, Rebuilding
        <3>2. /\ on[c] # e
              /\ UNCHANGED <<status, runner, on>> /\ LoadExecution(on[c], seen[c])
            BY <2>7, <3>1 DEF Load, Moves, dbVars, runnerVars
        <3>3. engine'[e] = engine[e]
            BY <3>2 DEF LoadExecution
        <3>4. \A d \in Clients : at'[d] \in Rebuilding => at[d] \in Rebuilding
            BY <2>7, <3>1 DEF Load, Moves
        <3> QED BY <3>2, <3>3, <3>4
    <2>8. CASE ResumeRerun(c) \/ ContinueRerun(c)
        <3>1. at[c] \in Rebuilding
            BY <2>8 DEF ResumeRerun, ContinueRerun, Moves, Returns, Rebuilding
        <3>2. /\ on[c] # e
              /\ UNCHANGED <<status, runner>> /\ Rerun(on[c])
            BY <2>8, <3>1 DEF ResumeRerun, ContinueRerun, dbVars, runnerVars
        <3>3. engine'[e] = engine[e]
            BY <3>2 DEF Rerun, Launch
        <3>4. \A d \in Clients : at'[d] \in Rebuilding /\ on'[d] = e
                  => at[d] \in Rebuilding /\ on[d] = e
            BY <2>8, <3>1 DEF ResumeRerun, ContinueRerun, Moves, Returns, Rebuilding
        <3> QED BY <3>2, <3>3, <3>4
    <2>9. CASE ContinueSave(c) \/ UpdateSave(c)
        <3>1. at[c] \in Rebuilding
            BY <2>9 DEF ContinueSave, UpdateSave, Moves, Returns, Rebuilding
        <3> QED BY <2>9, <3>1 DEF ContinueSave, UpdateSave, SaveGraph, Moves, Returns,
                                  Rebuilding, engineVars, runnerVars
    <2> QED BY <1>7, <2>1, <2>2, <2>3, <2>4, <2>5, <2>6, <2>7, <2>8, <2>9
            DEF Handler
<1>8. CASE Crash
    BY <1>8 DEF Crash, dbVars, Rebuilding
<1> QED BY <1>2, <1>3, <1>4, <1>5, <1>6, <1>7, <1>8 DEF Next, Api

(* Nothing runs, and nothing is paused, without a snapshot to rebuild it   *)
(* from: at whatever point the server stops, an execution that resume      *)
(* finds paused in the database can be resumed (runWorkflow saves          *)
(* runtime_yaml before it calls the engine).                               *)
THEOREM AlwaysRebuildable == Spec => []RebuildableAlways
<1>1. Init => RebuildInv
    BY DEF Init, RebuildInv, Unused, Present, Rebuilding
<1>2. TypeOK /\ RebuildInv /\ [Next]_vars => RebuildInv'
    BY RebuildStep
<1>3. RebuildInv => RebuildableAlways
    BY DEF RebuildInv, Unused, Saved, RebuildableAlways
<1> QED BY <1>1, <1>2, <1>3, TypeCorrect, PTL DEF Spec

-----------------------------------------------------------------------------
(* Completion times and node rows                                          *)

(* Every writer of a terminal status leaves completed_at set, and the only *)
(* writer that clears it makes the row running.                            *)
LEMMA StampStep ==
    ASSUME TypeOK, TerminalIsStamped, [Next]_vars
    PROVE  TerminalIsStamped'
<1> USE DEF TypeOK, TerminalIsStamped
<1>1. CASE UNCHANGED <<status, completed>>
    BY <1>1
<1>2. ASSUME NEW e \in Execs, Engine(e) PROVE TerminalIsStamped'
    <2>1. UNCHANGED <<status, completed>>
        BY <1>2 DEF Engine, EngineStart, EngineNodeStep, EngineNodeStart,
                    EngineNodeEnd, EngineNodeVanish, EngineSettle, EngineFinish,
                    EngineRetire, dbVars
    <2> QED BY <2>1
<1>3. ASSUME NEW e \in Execs, Runner(e) PROVE TerminalIsStamped'
    <2>1. CASE RunnerExpandFails(e) \/ RunnerExecuteFails(e)
        BY <2>1 DEF RunnerExpandFails, RunnerExecuteFails, WriteFailed
    <2>2. CASE RunnerMark(e)
        BY <2>2 DEF RunnerMark, Terminal
    <2>3. CASE RunnerWrite(e)
        BY <2>3 DEF RunnerWrite
    <2>4. CASE \/ RunnerExpand(e) \/ RunnerExecute(e) \/ RunnerPoll(e)
               \/ RunnerPollGone(e) \/ RunnerWaitHit(e) \/ RunnerWaitTimeout(e)
               \/ RunnerRead(e)
        BY <2>4, <1>1 DEF RunnerExpand, RunnerExecute, RunnerPoll, RunnerPollGone,
                          RunnerWaitHit, RunnerWaitTimeout, RunnerRead, dbVars
    <2> QED BY <1>3, <2>1, <2>2, <2>3, <2>4 DEF Runner
<1>4. CASE Bridge
    <2>1. CASE BridgeComplete
        BY <2>1 DEF BridgeComplete
    <2>2. CASE BridgeTake /\ PersistStart(Head(eventCh))
        BY <2>2 DEF PersistStart, Terminal
    <2>3. CASE BridgeTake /\ ~PersistStart(Head(eventCh))
        BY <2>3, <1>1 DEF BridgeTake, PersistNodeStart, PersistNodeComplete,
                          PersistCompleteRead, dbVars
    <2> QED BY <1>4, <2>1, <2>2, <2>3 DEF Bridge
<1>5. ASSUME NEW c \in Clients, NewCall(c) PROVE TerminalIsStamped'
    BY <1>1, <1>5 DEF NewCall, RunCheck, CancelCheck, PauseCheck, ResumeCheck,
                      GraphCheck, dbVars
<1>6. ASSUME NEW c \in Clients, Handler(c) PROVE TerminalIsStamped'
    <2>1. ASSUME NEW e \in Execs, RunInsert(c, e) PROVE TerminalIsStamped'
        BY <2>1 DEF RunInsert, Terminal
    <2>2. CASE CancelRow(c)
        BY <2>2 DEF CancelRow
    <2>3. CASE PauseRow(c) \/ ResumeRow(c)
        BY <2>3 DEF PauseRow, ResumeRow, Terminal
    <2>4. CASE UNCHANGED <<status, completed>>
        BY <2>4
    <2> QED BY <1>6, <2>1, <2>2, <2>3, <2>4
            DEF Handler, CancelEngine, CancelNodes, PauseEngine, PauseRefused,
                PauseExport, ResumeEngine, ResumeGone, ResumeRefused, ResumeRerun,
                Load, ContinueSave, UpdateSave, SaveGraph, GraphRefused,
                ContinueRerun, RerunRefused, dbVars
<1>7. CASE Crash
    BY <1>1, <1>7 DEF Crash, dbVars
<1> QED BY <1>1, <1>2, <1>3, <1>4, <1>5, <1>6, <1>7 DEF Next, Api, vars, dbVars

(* A terminal row has its completion time, in whatever order the goroutine *)
(* of the run, the event bridge and the handlers write it.                 *)
THEOREM AlwaysStamped == Spec => []TerminalIsStamped
<1>1. Init => TerminalIsStamped
    BY DEF Init, TerminalIsStamped, Terminal
<1> QED BY <1>1, StampStep, TypeCorrect, PTL DEF Spec

\* What a step may do to the node rows.
ClosedStays ==
    \A e \in Execs, n \in Nodes :
        nodeRow[e][n] \in {"success", "failed", "cancelled"}
            => nodeRow'[e][n] \in {nodeRow[e][n], "running"}

LEMMA ClosedStep ==
    ASSUME TypeOK, [Next]_vars
    PROVE  ClosedStays
<1> USE DEF TypeOK, ClosedStays
<1>1. CASE UNCHANGED nodeRow
    BY <1>1
<1>2. ASSUME NEW e \in Execs, Engine(e) PROVE ClosedStays
    <2>1. UNCHANGED nodeRow
        BY <1>2 DEF Engine, EngineStart, EngineNodeStep, EngineNodeStart,
                    EngineNodeEnd, EngineNodeVanish, EngineSettle, EngineFinish,
                    EngineRetire, dbVars
    <2> QED BY <2>1
<1>3. ASSUME NEW e \in Execs, Runner(e) PROVE ClosedStays
    BY <1>1, <1>3 DEF Runner, RunnerExpandFails, RunnerExpand, RunnerMark,
                      RunnerExecute, RunnerExecuteFails, RunnerPoll, RunnerPollGone,
                      RunnerWaitHit, RunnerWaitTimeout, RunnerRead, RunnerWrite,
                      WriteFailed, dbVars
<1>4. CASE Bridge
    <2>1. CASE PersistNodeStart(Head(eventCh))
        BY <2>1 DEF PersistNodeStart
    <2>2. CASE PersistNodeComplete(Head(eventCh))
        BY <2>2 DEF PersistNodeComplete
    <2>3. CASE UNCHANGED nodeRow
        BY <2>3
    <2> QED BY <1>4, <2>1, <2>2, <2>3 DEF Bridge, BridgeTake, BridgeComplete,
                                         PersistStart, PersistCompleteRead, dbVars
<1>5. ASSUME NEW c \in Clients, NewCall(c) PROVE ClosedStays
    BY <1>1, <1>5 DEF NewCall, RunCheck, CancelCheck, PauseCheck, ResumeCheck,
                      GraphCheck, dbVars
<1>6. ASSUME NEW c \in Clients, Handler(c) PROVE ClosedStays
    <2>1. CASE CancelNodes(c)
        BY <2>1 DEF CancelNodes
    <2>2. CASE UNCHANGED nodeRow
        BY <2>2
    <2> QED BY <1>6, <2>1, <2>2
            DEF Handler, RunInsert, CancelEngine, CancelRow, PauseEngine,
                PauseRefused, PauseExport, PauseRow, ResumeEngine, ResumeGone,
                ResumeRefused, ResumeRerun, ResumeRow, Load, ContinueSave,
                UpdateSave, SaveGraph, GraphRefused, ContinueRerun, RerunRefused,
                dbVars
<1>7. CASE Crash
    BY <1>1, <1>7 DEF Crash, dbVars
<1> QED BY <1>1, <1>2, <1>3, <1>4, <1>5, <1>6, <1>7 DEF Next, Api, vars, dbVars

(* No step of any component rewrites the verdict on a node: a repeated or  *)
(* late node_complete and a cancellation that comes after the node has     *)
(* ended leave its row as it was (WHERE status = 'running').               *)
THEOREM NodeRowsStayClosed == Spec => NodeRowsCloseOnce
<1>1. TypeOK /\ [Next]_vars => [ClosedStays]_nodeRow
    BY ClosedStep
<1> QED BY <1>1, TypeCorrect, PTL DEF Spec, NodeRowsCloseOnce, ClosedStays

-----------------------------------------------------------------------------
(* Events in the channel                                                   *)

\* The queue q holds an event of S; behind every event of S stands one of T.
In(q, S) == \E i \in DOMAIN q : q[i] \in S
After(q, S, T) ==
    \A i \in DOMAIN q : q[i] \in S => \E j \in DOMAIN q : i < j /\ q[j] \in T

(* What appending an event v to the queue, and taking its head, does to    *)
(* the two.                                                                *)
LEMMA AppendedEvents ==
    ASSUME NEW q \in Seq(Event), NEW v \in Event, NEW S, NEW T
    PROVE  /\ In(Append(q, v), S) <=> In(q, S) \/ v \in S
           /\ v \notin S /\ After(q, S, T) => After(Append(q, v), S, T)
           /\ v \notin S /\ v \in T => After(Append(q, v), S, T)
           /\ v \notin T /\ After(Append(q, v), S, T) => After(q, S, T)
<1> DEFINE r == Append(q, v)
<1>1. /\ DOMAIN q = 1 .. Len(q) /\ DOMAIN r = 1 .. Len(q) + 1 /\ Len(q) \in Nat
      /\ r[Len(q) + 1] = v /\ \A i \in DOMAIN q : r[i] = q[i]
  OBVIOUS
<1>2. DOMAIN r = DOMAIN q \cup {Len(q) + 1} /\ \A i \in DOMAIN q : i < Len(q) + 1
  BY <1>1
<1> HIDE DEF r
<1>3. In(r, S) <=> In(q, S) \/ v \in S
  BY <1>1, <1>2 DEF In
<1>4. v \notin S /\ After(q, S, T) => After(r, S, T)
  BY <1>1, <1>2 DEF After
<1>5. v \notin S /\ v \in T => After(r, S, T)
  BY <1>1, <1>2 DEF After
<1>6. v \notin T /\ After(r, S, T) => After(q, S, T)
  BY <1>1, <1>2 DEF After
<1> QED BY <1>3, <1>4, <1>5, <1>6 DEF r

LEMMA TakenEvents ==
    ASSUME NEW q \in Seq(Event), q # <<>>, NEW S, NEW T
    PROVE  /\ In(q, S) <=> Head(q) \in S \/ In(Tail(q), S)
           /\ After(q, S, T) => After(Tail(q), S, T)
           /\ After(q, S, T) /\ Head(q) \in S => In(Tail(q), T)
           /\ Head(q) \notin S /\ After(Tail(q), S, T) => After(q, S, T)
<1> DEFINE r == Tail(q)
           n == Len(r)
<1>1. /\ n \in Nat /\ DOMAIN q = 1 .. n + 1 /\ DOMAIN r = 1 .. n
      /\ q[1] = Head(q) /\ \A i \in 1 .. n : r[i] = q[i + 1]
  OBVIOUS
<1> HIDE DEF r, n
<1>2. \A i \in DOMAIN q : i = 1 \/ (i - 1 \in DOMAIN r /\ r[i - 1] = q[i])
  <2> SUFFICES ASSUME NEW i \in 1 .. n + 1, i # 1
               PROVE  i - 1 \in 1 .. n /\ r[i - 1] = q[i]
    BY <1>1
  <2>1. i - 1 \in 1 .. n /\ (i - 1) + 1 = i
    BY <1>1
  <2>2. r[i - 1] = q[(i - 1) + 1]
    BY <1>1, <2>1
  <2> QED BY <2>1, <2>2
<1>3. \A i \in DOMAIN r : i + 1 \in DOMAIN q /\ q[i + 1] = r[i]
  BY <1>1
<1>4. \A i \in DOMAIN q : i \in Nat
  BY <1>1
<1>5. \A i \in DOMAIN r : i \in Nat /\ i > 0
  BY <1>1
<1>6. 1 \in DOMAIN q /\ q[1] = Head(q) /\ \A i \in DOMAIN q : i >= 1
  BY <1>1
<1>7. In(q, S) <=> Head(q) \in S \/ In(r, S)
  BY <1>2, <1>3, <1>6 DEF In
<1>8. ASSUME After(q, S, T) PROVE After(r, S, T)
  <2> SUFFICES ASSUME NEW i \in DOMAIN r, r[i] \in S
               PROVE  \E j \in DOMAIN r : i < j /\ r[j] \in T
    BY DEF After
  <2>1. PICK j \in DOMAIN q : i + 1 < j /\ q[j] \in T
    BY <1>3, <1>8 DEF After
  <2>2. j - 1 \in DOMAIN r /\ r[j - 1] = q[j] /\ i < j - 1
    BY <1>2, <1>4, <1>5, <2>1
  <2> QED BY <2>1, <2>2
<1>9. ASSUME After(q, S, T), Head(q) \in S PROVE In(r, T)
  <2>1. PICK j \in DOMAIN q : 1 < j /\ q[j] \in T
    BY <1>6, <1>9 DEF After
  <2> QED BY <1>2, <2>1 DEF In
<1>10. ASSUME Head(q) \notin S, After(r, S, T) PROVE After(q, S, T)
  <2> SUFFICES ASSUME NEW i \in DOMAIN q, q[i] \in S
               PROVE  \E j \in DOMAIN q : i < j /\ q[j] \in T
    BY DEF After
  <2>1. i - 1 \in DOMAIN r /\ r[i - 1] \in S
    BY <1>2, <1>6, <1>10
  <2>2. PICK j \in DOMAIN r : i - 1 < j /\ r[j] \in T
    BY <1>10, <2>1 DEF After
  <2>3. j + 1 \in DOMAIN q /\ q[j + 1] = r[j] /\ i < j + 1
    BY <1>3, <1>4, <1>5, <2>2
  <2> QED BY <2>2, <2>3
<1> QED BY <1>7, <1>8, <1>9, <1>10 DEF r

-----------------------------------------------------------------------------
(* What the invariants say of one execution                                *)

\* The events of e, and of a node of e, by kind.
About(e)         == {v \in Event : v.exec = e}
Starts(e)        == {v \in About(e) : v.type = "execution_start"}
Ends(e)          == {v \in About(e) : v.type = "execution_complete"}
EndsNot(e, s)    == {v \in Ends(e) : v.status # s}
NodeStarts(e, n) == {v \in About(e) : v.type = "node_start" /\ v.node = n}
NodeEnds(e, n)   == {v \in About(e) : v.type = "node_complete" /\ v.node = n}

Underway(e)   == engine[e] \in {"RUNNING", "PAUSED"}
Unreported(e) == engine[e] \in EngineTerminal /\ ~reported[e]
Owed(e)       == bridge.exec = e \/ In(eventCh, Ends(e))
Fresh(e)      == engine[e] = "absent" /\ outcome[e] = "none" /\ ~In(eventCh, About(e))

\* How the goroutine, the engine, the channel and the bridge stand together:
\* an instance that lives has its goroutine polling, an end in the channel or
\* in the bridge says what the engine said, and no start of a run is the last
\* event of it once the engine has reported.
RunSound(e) ==
    /\ engine[e] # "LOADED"
    /\ status[e] = "none" => runner[e] = "off" /\ Fresh(e)
    /\ runner[e] \in {"expand", "mark", "execute"} => Fresh(e)
    /\ runner[e] \in {"read", "write"} => final[e] # "none"
    /\ engine[e] = "PENDING" \/ Underway(e) => runner[e] = "poll" /\ outcome[e] = "none"
    /\ engine[e] = "PENDING" => ~In(eventCh, About(e))
    /\ engine[e] \in EngineTerminal => outcome[e] = Lower(engine[e])
    /\ reported[e] => engine[e] \in EngineTerminal
    /\ \A n \in Nodes : engNode[e][n] = "RUNNING" => Underway(e)
    /\ ~In(eventCh, EndsNot(e, outcome[e]))
    /\ bridge.exec = e =>
          outcome[e] # "none" /\ bridge.status \in {outcome[e], "cancelled"}
    /\ Underway(e) \/ Unreported(e) \/ After(eventCh, Starts(e), Ends(e))

\* What the row says, or will say, is what the engine said; a goroutine that
\* finds the instance gone finds a terminal row, or one the bridge will write.
RowSound(e) ==
    /\ status[e] = "success" => outcome[e] = "success"
    /\ status[e] = "failed" =>
          \/ outcome[e] = "failed"
          \/ outcome[e] = "none" /\ runner[e] = "off" /\ engine[e] = "absent"
    /\ runner[e] \in {"read", "write"} =>
          outcome[e] # "none" /\ final[e] \in {outcome[e], "cancelled"}
    /\ runner[e] = "wait" => engine[e] = "absent"
    /\ runner[e] \in {"poll", "wait"} =>
          \/ engine[e] = "PENDING" \/ Underway(e)
          \/ outcome[e] # "none" /\ (status[e] \in Terminal \/ Owed(e) \/ Unreported(e))

\* Whoever leaves a row running leaves somebody who will write it.
NoneLeft(e) ==
    /\ status[e] = "running" /\ runner[e] = "off" => Owed(e) \/ Unreported(e)
    /\ \A n \in Nodes :
         /\ nodeRow[e][n] = "running" =>
               engNode[e][n] = "RUNNING" \/ In(eventCh, NodeEnds(e, n))
         /\ \/ engNode[e][n] = "RUNNING"
            \/ After(eventCh, NodeStarts(e, n), NodeEnds(e, n))

-----------------------------------------------------------------------------
(* Steps that concern another execution                                    *)

\* The channel r holds of e what the channel q does.
SameOf(e, q, r) ==
    \A S, T \in SUBSET About(e) :
        (In(q, S) <=> In(r, S)) /\ (After(q, S, T) => After(r, S, T))

Untouched(e) ==
    /\ status'[e] = status[e] /\ nodeRow'[e] = nodeRow[e]
    /\ engine'[e] = engine[e] /\ engNode'[e] = engNode[e]
    /\ reported'[e] = reported[e] /\ outcome'[e] = outcome[e]
    /\ runner'[e] = runner[e] /\ final'[e] = final[e]
    /\ bridge'.exec = e <=> bridge.exec = e
    /\ bridge.exec = e => bridge'.status = bridge.status
    /\ SameOf(e, eventCh, eventCh')

LEMMA AppendedOther ==
    ASSUME NEW q \in Seq(Event), NEW v \in Event, NEW e, v.exec # e
    PROVE  SameOf(e, q, Append(q, v))
<1> SUFFICES ASSUME NEW S \in SUBSET About(e), NEW T \in SUBSET About(e)
             PROVE  /\ In(q, S) <=> In(Append(q, v), S)
                    /\ After(q, S, T) => After(Append(q, v), S, T)
    BY DEF SameOf
<1>1. v \notin S
    BY DEF About
<1> QED BY <1>1, AppendedEvents

LEMMA TakenOther ==
    ASSUME NEW q \in Seq(Event), q # <<>>, NEW e, Head(q).exec # e
    PROVE  SameOf(e, q, Tail(q))
<1> SUFFICES ASSUME NEW S \in SUBSET About(e), NEW T \in SUBSET About(e)
             PROVE  /\ In(q, S) <=> In(Tail(q), S)
                    /\ After(q, S, T) => After(Tail(q), S, T)
    BY DEF SameOf
<1>1. Head(q) \notin S
    BY DEF About
<1> QED BY <1>1, TakenEvents

LEMMA SameChannel == \A e, q : SameOf(e, q, q)
BY DEF SameOf

LEMMA OwnSets ==
    ASSUME NEW e
    PROVE  /\ About(e) \in SUBSET About(e)
           /\ Starts(e) \in SUBSET About(e) /\ Ends(e) \in SUBSET About(e)
           /\ \A s : EndsNot(e, s) \in SUBSET About(e)
           /\ \A n : /\ NodeStarts(e, n) \in SUBSET About(e)
                     /\ NodeEnds(e, n) \in SUBSET About(e)
BY DEF Starts, Ends, EndsNot, NodeStarts, NodeEnds

(* Such a step keeps whatever the invariants say of e.                     *)
LEMMA OthersKeep ==
    ASSUME NEW e \in Execs, Untouched(e)
    PROVE  /\ RunSound(e) => RunSound(e)'
           /\ RowSound(e) => RowSound(e)'
           /\ NoneLeft(e) => NoneLeft(e)'
<1>1. /\ In(eventCh', About(e)) <=> In(eventCh, About(e))
      /\ In(eventCh', Ends(e)) <=> In(eventCh, Ends(e))
      /\ In(eventCh', EndsNot(e, outcome[e])) <=> In(eventCh, EndsNot(e, outcome[e]))
      /\ After(eventCh, Starts(e), Ends(e)) => After(eventCh', Starts(e), Ends(e))
    BY OwnSets DEF Untouched, SameOf
<1>2. \A n : /\ In(eventCh', NodeEnds(e, n)) <=> In(eventCh, NodeEnds(e, n))
             /\ After(eventCh, NodeStarts(e, n), NodeEnds(e, n))
                   => After(eventCh', NodeStarts(e, n), NodeEnds(e, n))
    BY OwnSets DEF Untouched, SameOf
<1>3. RunSound(e) => RunSound(e)'
    BY <1>1 DEF Untouched, RunSound, Underway, Unreported, Fresh
<1>4. RowSound(e) => RowSound(e)'
    BY <1>1 DEF Untouched, RowSound, Underway, Unreported, Owed
<1>5. NoneLeft(e) => NoneLeft(e)'
    <2>1. Owed(e) \/ Unreported(e) => (Owed(e) \/ Unreported(e))'
        BY <1>1 DEF Untouched, Unreported, Owed
    <2>2. /\ status'[e] = status[e] /\ nodeRow'[e] = nodeRow[e]
          /\ engNode'[e] = engNode[e] /\ runner'[e] = runner[e]
        BY DEF Untouched
    <2> QED BY <1>2, <2>1, <2>2 DEF NoneLeft
<1> QED BY <1>3, <1>4, <1>5

LEMMA PushOther ==
    ASSUME TypeOK, NEW e \in Execs, NEW v \in Event, v.exec # e, PushEvent(v)
    PROVE  SameOf(e, eventCh, eventCh')
BY AppendedOther, SameChannel DEF PushEvent, TypeOK

LEMMA EngineOther ==
    ASSUME TypeOK, NEW e \in Execs, NEW f \in Execs, f # e, Engine(f)
    PROVE  Untouched(e)
<1> USE DEF Untouched
<1>0. UNCHANGED <<bridge, runner, final>>
    BY DEF Engine, runnerVars
<1>1. CASE EngineStart(f)
    <2>1. SameOf(e, eventCh, eventCh')
        <3>1. [type |-> "execution_start", exec |-> f] \in Event
            BY DEF Event
        <3> QED BY <1>1, <3>1, PushOther DEF EngineStart
    <2> QED BY <1>0, <1>1, <2>1 DEF EngineStart, dbVars, TypeOK
<1>2. ASSUME NEW n \in Nodes, EngineNodeStart(f, n) PROVE Untouched(e)
    <2>1. SameOf(e, eventCh, eventCh')
        <3>1. [type |-> "node_start", exec |-> f, node |-> n] \in Event
            BY DEF Event
        <3> QED BY <1>2, <3>1, PushOther DEF EngineNodeStart
    <2> QED BY <1>0, <1>2, <2>1 DEF EngineNodeStart, dbVars, TypeOK
<1>3. ASSUME NEW n \in Nodes, NEW result \in {"SUCCESS", "FAILED"},
             EngineNodeEnd(f, n, result)
      PROVE  Untouched(e)
    <2>1. SameOf(e, eventCh, eventCh')
        <3>1. [type |-> "node_complete", exec |-> f, node |-> n,
               status |-> Lower(result)] \in Event
            BY DEF Event, Lower
        <3> QED BY <1>3, <3>1, PushOther DEF EngineNodeEnd
    <2> QED BY <1>0, <1>3, <2>1 DEF EngineNodeEnd, dbVars, TypeOK
<1>4. ASSUME NEW n \in Nodes, EngineNodeVanish(f, n) PROVE Untouched(e)
    BY <1>0, <1>4, SameChannel DEF EngineNodeVanish, dbVars, TypeOK
<1>5. CASE EngineSettle(f)
    BY <1>0, <1>5, SameChannel DEF EngineSettle, dbVars, TypeOK
<1>6. CASE EngineFinish(f)
    <2>1. SameOf(e, eventCh, eventCh')
        <3>1. [type |-> "execution_complete", exec |-> f,
               status |-> Lower(engine[f])] \in Event
            BY <1>6, LowerTerminal DEF Event, EngineFinish
        <3> QED BY <1>6, <3>1, PushOther DEF EngineFinish
    <2> QED BY <1>0, <1>6, <2>1 DEF EngineFinish, TypeOK
<1>7. CASE EngineRetire(f)
    BY <1>0, <1>7, SameChannel DEF EngineRetire, dbVars, TypeOK
<1> QED BY <1>1, <1>2, <1>3, <1>4, <1>5, <1>6, <1>7 DEF Engine, EngineNodeStep

LEMMA RunnerOther ==
    ASSUME TypeOK, NEW e \in Execs, NEW f \in Execs, f # e, Runner(f)
    PROVE  Untouched(e)
BY SameChannel
   DEF Untouched, TypeOK, Runner, RunnerExpandFails, RunnerExpand, RunnerMark,
       RunnerExecute, RunnerExecuteFails, RunnerPoll, RunnerPollGone, RunnerWaitHit,
       RunnerWaitTimeout, RunnerRead, RunnerWrite, RunnerGoes, WriteFailed,
       ExecuteWorkflow, Launch, dbVars, engineVars

LEMMA BridgeOther ==
    ASSUME TypeOK, NEW e \in Execs, Bridge,
           bridge # Idle => bridge.exec # e, bridge = Idle => Head(eventCh).exec # e
    PROVE  Untouched(e)
<1> USE DEF Untouched
<1>0. UNCHANGED <<engine, engNode, reported, outcome, runner, final>>
    BY DEF Bridge, engineVars, runnerVars
<1>1. CASE BridgeTake
    <2>1. Head(eventCh).exec # e /\ bridge.exec # e
        BY <1>1, ConstantsAssumption DEF BridgeTake, Idle, ConstantsAssumption
    <2>2. SameOf(e, eventCh, eventCh')
        BY <1>1, <2>1, TakenOther DEF BridgeTake, TypeOK
    <2>3. Head(eventCh) \in Event
        BY <1>1, TakeType DEF BridgeTake, TypeOK
    <2>4. status'[e] = status[e] /\ nodeRow'[e] = nodeRow[e] /\ bridge'.exec # e
        <3> DEFINE evt == Head(eventCh)
        <3>1. evt.exec \in Execs /\ evt.exec # e
            BY <2>1, <2>3 DEF Event
        <3> HIDE DEF evt
        <3>2. CASE PersistStart(evt)
            BY <2>1, <3>1, <3>2 DEF PersistStart, TypeOK
        <3>3. CASE PersistNodeStart(evt)
            BY <2>1, <3>1, <3>3 DEF PersistNodeStart, TypeOK
        <3>4. CASE PersistNodeComplete(evt)
            BY <2>1, <3>1, <3>4 DEF PersistNodeComplete, TypeOK
        <3>5. CASE PersistCompleteRead(evt)
            BY <2>1, <3>1, <3>5 DEF PersistCompleteRead, dbVars
        <3> QED BY <1>1, <3>2, <3>3, <3>4, <3>5 DEF BridgeTake, evt
    <2> QED BY <1>0, <2>1, <2>2, <2>4
<1>2. CASE BridgeComplete
    <2>1. bridge.exec # e /\ bridge' = Idle
        BY <1>2 DEF BridgeComplete
    <2>2. bridge'.exec # e
        BY <2>1, ConstantsAssumption DEF Idle, ConstantsAssumption
    <2> QED BY <1>0, <1>2, <2>1, <2>2, SameChannel DEF BridgeComplete, TypeOK
<1> QED BY <1>1, <1>2 DEF Bridge

\* The requests are those of the operations run, cancel and pause.
RunSteps    == {"idle", "run.insert"}
CancelSteps == {"cancel.engine", "cancel.row", "cancel.nodes"}
PauseSteps  == {"pause.engine", "pause.export", "pause.row"}
CallsWithin ==
    \A c \in Clients :
        \/ at[c] \in RunSteps \cup CancelSteps
        \/ at[c] \in PauseSteps /\ "pause" \in Ops

\* The steps of a request that matter to the invariants.
CallOf(c, e) ==
    /\ \/ RunInsert(c, e)
       \/ on[c] = e /\ (CancelRow(c) \/ CancelNodes(c) \/ PauseEngine(c) \/ PauseRow(c))
    /\ UNCHANGED <<eventCh, bridge>>

HandlersOfCalls(c) ==
    \/ \E e \in Execs : RunInsert(c, e)
    \/ CancelEngine(c) \/ CancelRow(c) \/ CancelNodes(c)
    \/ PauseEngine(c) \/ PauseRefused(c) \/ PauseExport(c) \/ PauseRow(c)

(* Without resume, continue and update no other handler runs.              *)
LEMMA OnlyThese ==
    ASSUME CallsWithin, NEW c \in Clients, Handler(c)
    PROVE  HandlersOfCalls(c)
<1>1. at[c] \in RunSteps \cup CancelSteps \cup PauseSteps
    BY DEF CallsWithin
<1>2. \A from, to : Moves(c, from, to) \/ Returns(c, from) => at[c] = from
    BY DEF Moves, Returns
<1>3. /\ ~ResumeEngine(c) /\ ~ResumeGone(c) /\ ~ResumeRefused(c) /\ ~ResumeRerun(c)
      /\ ~ResumeRow(c) /\ ~Load(c, "resume.load", "resume.rerun")
    BY <1>1, <1>2 DEF ResumeEngine, ResumeGone, ResumeRefused, ResumeRerun, ResumeRow,
                      Load, RunSteps, CancelSteps, PauseSteps
<1>4. /\ ~Load(c, "continue.load", "continue.save")
      /\ ~Load(c, "continue.load", "continue.rerun")
      /\ ~Load(c, "update.load", "update.save")
    BY <1>1, <1>2 DEF Load, RunSteps, CancelSteps, PauseSteps
<1>5. /\ ~ContinueSave(c) /\ ~UpdateSave(c) /\ ~GraphRefused(c) /\ ~ContinueRerun(c)
      /\ ~RerunRefused(c)
    BY <1>1, <1>2 DEF ContinueSave, UpdateSave, GraphRefused, ContinueRerun,
                      RerunRefused, RunSteps, CancelSteps, PauseSteps
<1> QED BY <1>3, <1>4, <1>5 DEF Handler, HandlersOfCalls

LEMMA CallsStep ==
    ASSUME TypeOK, CallsWithin, Ops \subseteq {"run", "cancel", "pause"}, [Next]_vars
    PROVE  CallsWithin'
<1> SUFFICES ASSUME NEW c \in Clients
             PROVE  \/ at'[c] \in RunSteps \cup CancelSteps
                    \/ at'[c] \in PauseSteps /\ "pause" \in Ops
    BY DEF CallsWithin
<1> USE DEF RunSteps, CancelSteps, PauseSteps
<1>0. at \in [Clients -> ReqAt]
    BY DEF TypeOK
<1>1. CASE at'[c] = at[c]
    BY <1>1 DEF CallsWithin
<1>2. CASE \E d \in Clients : NewCall(d)
    BY <1>0, <1>1, <1>2 DEF NewCall, RunCheck, CancelCheck, PauseCheck, ResumeCheck,
                            GraphCheck, Enters
<1>3. CASE \E d \in Clients : Handler(d)
    <2> PICK d \in Clients : Handler(d)
        BY <1>3
    <2>1. HandlersOfCalls(d)
        BY OnlyThese
    <2>2. CASE c # d
        BY <2>1, <2>2, <1>0, <1>1
           DEF HandlersOfCalls, RunInsert, CancelEngine, CancelRow, CancelNodes,
               PauseEngine, PauseRefused, PauseExport, PauseRow, Moves, Returns
    <2>3. CASE c = d
        BY <2>1, <2>3, <1>0
           DEF CallsWithin, HandlersOfCalls, RunInsert, CancelEngine, CancelRow,
               CancelNodes, PauseEngine, PauseRefused, PauseExport, PauseRow, Moves,
               Returns
    <2> QED BY <2>2, <2>3
<1>4. CASE UNCHANGED at
    BY <1>1, <1>4
<1>5. CASE Crash
    BY <1>5 DEF Crash
<1> QED BY <1>2, <1>3, <1>4, <1>5
        DEF Next, Api, Engine, Runner, Bridge, vars, reqVars

LEMMA ApiOther ==
    ASSUME TypeOK, CallsWithin, NEW e \in Execs, NEW c \in Clients, Api(c),
           ~CallOf(c, e)
    PROVE  Untouched(e)
<1> USE DEF Untouched
<1>0. UNCHANGED <<eventCh, bridge>> /\ SameOf(e, eventCh, eventCh')
    BY SameChannel DEF Api
<1>1. CASE NewCall(c)
    BY <1>0, <1>1 DEF NewCall, RunCheck, CancelCheck, PauseCheck, ResumeCheck,
                      GraphCheck, dbVars, engineVars, runnerVars
<1>2. CASE Handler(c)
    <2>0. HandlersOfCalls(c)
        BY <1>2, OnlyThese
    <2>1. ASSUME NEW f \in Execs, RunInsert(c, f) PROVE Untouched(e)
        <3>1. f # e
            BY <2>1, <1>0 DEF CallOf
        <3> QED BY <1>0, <2>1, <3>1 DEF RunInsert, engineVars, TypeOK
    <2>2. CASE CancelRow(c) \/ CancelNodes(c) \/ PauseEngine(c) \/ PauseRow(c)
        <3>1. on[c] # e
            BY <1>0, <2>2 DEF CallOf
        <3> QED BY <1>0, <2>2, <3>1 DEF CancelRow, CancelNodes, PauseEngine, PauseRow,
                                        dbVars, engineVars, runnerVars, TypeOK
    <2>3. CASE CancelEngine(c) \/ PauseRefused(c) \/ PauseExport(c)
        BY <1>0, <2>3 DEF CancelEngine, PauseRefused, PauseExport, dbVars, engineVars,
                          runnerVars
    <2> QED BY <2>0, <2>1, <2>2, <2>3 DEF HandlersOfCalls
<1> QED BY <1>1, <1>2 DEF Api

\* Every step is one of e's own or leaves e untouched.
Own(e) ==
    \/ Engine(e)
    \/ Runner(e)
    \/ Bridge /\ bridge # Idle /\ bridge.exec = e
    \/ Bridge /\ bridge = Idle /\ Head(eventCh).exec = e
    \/ \E c \in Clients : CallOf(c, e)
    \/ Crash

LEMMA OwnOrOther ==
    ASSUME TypeOK, CallsWithin, NEW e \in Execs, [Next]_vars
    PROVE  Own(e) \/ Untouched(e)
<1>1. CASE UNCHANGED vars
    BY <1>1, SameChannel DEF Untouched, vars, dbVars, engineVars, runnerVars
<1>2. CASE Next
    BY <1>2, EngineOther, RunnerOther, BridgeOther, ApiOther DEF Next, Own
<1> QED BY <1>1, <1>2

-----------------------------------------------------------------------------
(* The goroutine, the engine and the channel                               *)

(* A push that may fail adds no event of another kind.                     *)
LEMMA Pushed ==
    ASSUME eventCh \in Seq(Event), NEW v \in Event, PushEvent(v), NEW S, v \notin S
    PROVE  In(eventCh', S) <=> In(eventCh, S)
<1>1. CASE eventCh' = eventCh
    BY <1>1
<1>2. CASE eventCh' = Append(eventCh, v)
    BY <1>2, AppendedEvents
<1> QED BY <1>1, <1>2 DEF PushEvent

LEMMA EngineSound ==
    ASSUME TypeOK, NEW e \in Execs, RunSound(e), Engine(e),
           EngineFinish(e) => Len(eventCh) < QueueCap
    PROVE  RunSound(e)'
<1>0. /\ UNCHANGED <<bridge, runner, final>>
      /\ engine \in [Execs -> EngineStatus]
      /\ outcome \in [Execs -> {"none"} \cup Terminal]
      /\ engNode \in [Execs -> [Nodes -> {"idle", "RUNNING", "SUCCESS", "FAILED"}]]
      /\ reported \in [Execs -> BOOLEAN] /\ eventCh \in Seq(Event)
    BY DEF Engine, runnerVars, TypeOK
<1>9. ~In(eventCh, EndsNot(e, outcome[e]))
    BY DEF RunSound
<1>1. CASE EngineStart(e)
    <2> DEFINE v == [type |-> "execution_start", exec |-> e]
    <2>1. /\ v \in Event /\ \A s : v \notin EndsNot(e, s)
        BY DEF Event, EndsNot, Ends
    <2>2. PushEvent(v)
        BY <1>1 DEF EngineStart
    <2>3. ~In(eventCh', EndsNot(e, outcome[e]))
        BY <1>0, <1>9, <2>1, <2>2, Pushed
    <2>4. /\ engine[e] = "PENDING" /\ engine'[e] = "RUNNING"
          /\ UNCHANGED <<status, engNode, reported, outcome>>
        BY <1>0, <1>1 DEF EngineStart, dbVars
    <2> QED BY <1>0, <2>3, <2>4
            DEF RunSound, Underway, Unreported, Fresh, EngineTerminal
<1>2. ASSUME NEW n \in Nodes, EngineNodeStart(e, n) PROVE RunSound(e)'
    <2> DEFINE v == [type |-> "node_start", exec |-> e, node |-> n]
    <2>1. /\ v \in Event /\ \A s : v \notin EndsNot(e, s)
        BY DEF Event, EndsNot, Ends
    <2>2. PushEvent(v)
        BY <1>2 DEF EngineNodeStart
    <2>3. ~In(eventCh', EndsNot(e, outcome[e]))
        BY <1>0, <1>9, <2>1, <2>2, Pushed
    <2>4. Underway(e) /\ UNCHANGED <<status, engine, reported, outcome>>
        BY <1>2 DEF EngineNodeStart, dbVars, Underway
    <2> QED BY <1>0, <2>3, <2>4
            DEF RunSound, Underway, Unreported, Fresh, EngineTerminal
<1>3. ASSUME NEW n \in Nodes, NEW result \in {"SUCCESS", "FAILED"},
             EngineNodeEnd(e, n, result)
      PROVE  RunSound(e)'
    <2> DEFINE v == [type |-> "node_complete", exec |-> e, node |-> n,
                     status |-> Lower(result)]
    <2>1. /\ v \in Event /\ \A s : v \notin EndsNot(e, s)
        BY DEF Event, EndsNot, Ends, Lower
    <2>2. PushEvent(v)
        BY <1>3 DEF EngineNodeEnd
    <2>3. ~In(eventCh', EndsNot(e, outcome[e]))
        BY <1>0, <1>9, <2>1, <2>2, Pushed
    <2>4. Underway(e) /\ UNCHANGED <<status, engine, reported, outcome>>
        BY <1>3 DEF EngineNodeEnd, dbVars, RunSound
    <2> QED BY <1>0, <2>3, <2>4
            DEF RunSound, Underway, Unreported, Fresh, EngineTerminal
<1>4. ASSUME NEW n \in Nodes, EngineNodeVanish(e, n) PROVE RunSound(e)'
    BY <1>0, <1>4 DEF EngineNodeVanish, dbVars, RunSound, Underway, Unreported, Fresh
<1>5. CASE EngineSettle(e)
    <2>1. PICK w \in Verdicts(e) : /\ engine' = [engine EXCEPT ![e] = w]
                                  /\ outcome' = [outcome EXCEPT ![e] = Lower(w)]
        BY <1>5 DEF EngineSettle
    <2>2. w \in EngineTerminal /\ engine'[e] = w /\ outcome'[e] = Lower(w)
        BY <1>0, <2>1 DEF Verdicts, EngineTerminal
    <2>3. /\ UNCHANGED <<status, engNode, reported, eventCh>>
          /\ Underway(e) /\ runner[e] = "poll" /\ outcome[e] = "none"
          /\ \A n \in Nodes : engNode[e][n] # "RUNNING"
        BY <1>5 DEF EngineSettle, dbVars, RunSound, Underway
    <2>4. \A s : EndsNot(e, s) \subseteq EndsNot(e, "none")
        BY DEF EndsNot, Ends, About, Event, Terminal
    <2>5. ~In(eventCh', EndsNot(e, outcome'[e]))
        BY <1>9, <2>3, <2>4 DEF In
    <2> QED BY <1>0, <2>2, <2>3, <2>5, LowerTerminal
            DEF RunSound, Underway, Unreported, Fresh, EngineTerminal, Terminal
<1>6. CASE EngineFinish(e)
    <2> DEFINE v == [type |-> "execution_complete", exec |-> e,
                     status |-> Lower(engine[e])]
    <2>1. /\ v \in Event /\ v \in Ends(e) /\ v \notin Starts(e)
          /\ v \notin EndsNot(e, outcome[e])
        BY <1>6, LowerTerminal
           DEF EngineFinish, Event, EndsNot, Ends, Starts, About, RunSound
    <2>2. eventCh' = Append(eventCh, v)
        BY <1>6 DEF EngineFinish, PushEvent
    <2> HIDE DEF v
    <2>3. /\ ~In(eventCh', EndsNot(e, outcome[e]))
          /\ After(eventCh', Starts(e), Ends(e))
        BY <1>0, <1>9, <2>1, <2>2, AppendedEvents
    <2>4. /\ engine[e] \in EngineTerminal /\ reported'[e]
          /\ UNCHANGED <<status, engine, engNode, outcome>>
        BY <1>0, <1>6 DEF EngineFinish
    <2> QED BY <1>0, <2>3, <2>4
            DEF RunSound, Underway, Unreported, Fresh, EngineTerminal
<1>7. CASE EngineRetire(e)
    BY <1>0, <1>7 DEF EngineRetire, dbVars, EngineTerminal, RunSound, Underway,
                      Unreported, Fresh
<1> QED BY <1>1, <1>2, <1>3, <1>4, <1>5, <1>6, <1>7 DEF Engine, EngineNodeStep

\* What the bridge does to the row of a node.
Opens(e, n)  == nodeRow'[e] = [nodeRow[e] EXCEPT ![n] = "running"]
Closes(e, n) ==
    \E s \in {"success", "failed"} :
        nodeRow'[e] = [nodeRow[e] EXCEPT ![n] = IF @ = "running" THEN s ELSE @]

(* What the bridge does when it takes an event of e.                       *)
LEMMA TakeOwn ==
    ASSUME TypeOK, NEW e \in Execs, Bridge, bridge = Idle, Head(eventCh).exec = e
    PROVE  /\ eventCh \in Seq(Event) /\ eventCh # <<>> /\ eventCh' = Tail(eventCh)
           /\ Head(eventCh) \in About(e)
           /\ bridge.exec # e
           /\ UNCHANGED <<engine, engNode, reported, outcome, runner, final>>
           /\ LET evt == Head(eventCh) IN
                \/ /\ evt \in Starts(e) /\ status'[e] = "running"
                   /\ nodeRow' = nodeRow /\ bridge' = bridge
                \/ \E n \in Nodes :
                     /\ evt \in NodeStarts(e, n) /\ Opens(e, n)
                     /\ status' = status /\ bridge' = bridge
                \/ \E n \in Nodes :
                     /\ evt \in NodeEnds(e, n) /\ Closes(e, n)
                     /\ status' = status /\ bridge' = bridge
                \/ /\ evt \in Ends(e) /\ UNCHANGED <<status, nodeRow>>
                   /\ bridge'.exec = e
                   /\ bridge'.status \in {evt.status, "cancelled"}
<1>1. BridgeTake
    BY DEF Bridge, BridgeComplete
<1>2. /\ eventCh \in Seq(Event) /\ eventCh # <<>> /\ eventCh' = Tail(eventCh)
      /\ Head(eventCh) \in Event
    BY <1>1, TakeType DEF BridgeTake, TypeOK
<1>3. Head(eventCh) \in About(e)
    BY <1>2 DEF About
<1>4. bridge.exec # e
    BY ConstantsAssumption DEF Idle, ConstantsAssumption
<1>5. UNCHANGED <<engine, engNode, reported, outcome, runner, final>>
    BY DEF Bridge, engineVars, runnerVars
<1> DEFINE evt == Head(eventCh)
<1>6. /\ \/ evt.type = "execution_start" /\ PersistStart(evt)
         \/ evt.type = "node_start" /\ PersistNodeStart(evt)
         \/ evt.type = "node_complete" /\ PersistNodeComplete(evt)
         \/ evt.type = "execution_complete" /\ PersistCompleteRead(evt)
      /\ evt \in About(e) /\ evt \in Event /\ evt.exec = e
    BY <1>1, <1>2, <1>3 DEF BridgeTake
<1>7. /\ status \in [Execs -> Status]
      /\ nodeRow \in [Execs -> [Nodes -> NodeStatus]]
    BY DEF TypeOK
<1> HIDE DEF evt
<1>8. CASE evt.type = "execution_start" /\ PersistStart(evt)
    <2>1. /\ evt \in Starts(e) /\ status'[e] = "running"
          /\ nodeRow' = nodeRow /\ bridge' = bridge
        BY <1>6, <1>7, <1>8 DEF PersistStart, Starts
    <2> QED BY <1>2, <1>3, <1>4, <1>5, <2>1 DEF evt
<1>9. CASE evt.type = "node_start" /\ PersistNodeStart(evt)
    <2>1. evt.node \in Nodes
        BY <1>6, <1>9 DEF Event
    <2>2. /\ evt \in NodeStarts(e, evt.node) /\ Opens(e, evt.node)
          /\ status' = status /\ bridge' = bridge
        BY <1>6, <1>7, <1>9 DEF PersistNodeStart, NodeStarts, Opens
    <2> QED BY <1>2, <1>3, <1>4, <1>5, <2>1, <2>2 DEF evt
<1>10. CASE evt.type = "node_complete" /\ PersistNodeComplete(evt)
    <2>1. evt.node \in Nodes /\ evt.status \in {"success", "failed"}
        BY <1>6, <1>10 DEF Event
    <2>2. nodeRow'[e] = [nodeRow[e] EXCEPT ![evt.node] =
                             IF @ = "running" THEN evt.status ELSE @]
        BY <1>6, <1>7, <1>10 DEF PersistNodeComplete
    <2>3. /\ evt \in NodeEnds(e, evt.node) /\ Closes(e, evt.node)
          /\ status' = status /\ bridge' = bridge
        BY <1>6, <1>10, <2>1, <2>2 DEF PersistNodeComplete, NodeEnds, Closes
    <2> QED BY <1>2, <1>3, <1>4, <1>5, <2>1, <2>3 DEF evt
<1>11. CASE evt.type = "execution_complete" /\ PersistCompleteRead(evt)
    <2>1. /\ evt \in Ends(e) /\ UNCHANGED <<status, nodeRow>>
          /\ bridge'.exec = e
          /\ bridge'.status \in {evt.status, "cancelled"}
        BY <1>6, <1>11 DEF PersistCompleteRead, Ends, dbVars
    <2> QED BY <1>2, <1>3, <1>4, <1>5, <2>1 DEF evt
<1> QED BY <1>6, <1>8, <1>9, <1>10, <1>11

LEMMA BridgeSound ==
    ASSUME TypeOK, NEW e \in Execs, RunSound(e), Bridge,
           \/ bridge # Idle /\ bridge.exec = e
           \/ bridge = Idle /\ Head(eventCh).exec = e
    PROVE  RunSound(e)'
<1>1. CASE bridge = Idle
    <2> DEFINE evt == Head(eventCh)
    <2>0. evt.exec = e
        BY <1>1
    <2>1. /\ eventCh \in Seq(Event) /\ eventCh # <<>> /\ eventCh' = Tail(eventCh)
          /\ evt \in About(e)
          /\ UNCHANGED <<engine, engNode, reported, outcome, runner, final>>
        BY <1>1, <2>0, TakeOwn
    <2>2. In(eventCh, About(e))
        BY <2>1, TakenEvents
    <2>3. /\ ~In(eventCh', EndsNot(e, outcome[e]))
          /\ After(eventCh, Starts(e), Ends(e)) => After(eventCh', Starts(e), Ends(e))
        BY <2>1, TakenEvents DEF RunSound
    <2>4. evt \in Ends(e) => evt.status = outcome[e] /\ outcome[e] # "none"
        <3>1. evt \notin EndsNot(e, outcome[e])
            BY <2>1, TakenEvents DEF RunSound
        <3> QED BY <3>1 DEF EndsNot, Ends, About, Event, Terminal
    <2>5. /\ status'[e] = status[e] \/ status'[e] = "running"
          /\ bridge'.exec = e =>
                outcome[e] # "none" /\ bridge'.status \in {outcome[e], "cancelled"}
        BY <1>1, <2>0, <2>4, TakeOwn
    <2> QED BY <2>1, <2>2, <2>3, <2>5 DEF RunSound, Underway, Unreported, Fresh
<1>2. CASE bridge # Idle /\ bridge.exec = e
    <2>1. /\ UNCHANGED <<engine, engNode, reported, outcome, runner, final, eventCh>>
          /\ status'[e] = bridge.status /\ bridge' = Idle
        BY <1>2 DEF Bridge, BridgeTake, BridgeComplete, engineVars, runnerVars, TypeOK
    <2>2. status'[e] # "none" /\ bridge'.exec # e
        BY <1>2, <2>1, ConstantsAssumption DEF RunSound, Idle, ConstantsAssumption
    <2> QED BY <2>1, <2>2 DEF RunSound, Underway, Unreported, Fresh
<1> QED BY <1>1, <1>2

LEMMA RunnerSound ==
    ASSUME TypeOK, NEW e \in Execs, RunSound(e), Runner(e)
    PROVE  RunSound(e)'
<1>0. /\ UNCHANGED <<bridge, eventCh>>
      /\ status \in [Execs -> Status] /\ runner \in [Execs -> RunnerAt]
      /\ final \in [Execs -> {"none"} \cup Terminal]
    BY DEF Runner, TypeOK
<1> USE DEF RunSound, Underway, Unreported, Fresh
<1>1. CASE RunnerExpandFails(e) \/ RunnerExecuteFails(e)
    BY <1>0, <1>1 DEF RunnerExpandFails, RunnerExecuteFails, RunnerGoes, WriteFailed,
                      engineVars
<1>2. CASE RunnerExpand(e) \/ RunnerMark(e)
    BY <1>0, <1>2 DEF RunnerExpand, RunnerMark, RunnerGoes, engineVars
<1>3. CASE RunnerExecute(e)
    <2>1. /\ Fresh(e) /\ bridge.exec # e /\ status[e] # "none"
          /\ After(eventCh, Starts(e), Ends(e))
        BY <1>3 DEF RunnerExecute, RunnerGoes, EngineTerminal
    <2>2. /\ engine'[e] = "PENDING" /\ outcome'[e] = "none" /\ ~reported'[e]
          /\ \A n \in Nodes : engNode'[e][n] = "idle"
          /\ runner'[e] = "poll" /\ UNCHANGED <<status, final>>
        BY <1>0, <1>3 DEF RunnerExecute, RunnerGoes, ExecuteWorkflow, Launch, dbVars,
                          TypeOK
    <2> QED BY <1>0, <2>1, <2>2 DEF EngineTerminal
<1>4. CASE RunnerPoll(e)
    BY <1>0, <1>4, LowerTerminal
       DEF RunnerPoll, RunnerGoes, dbVars, engineVars, EngineTerminal, Terminal
<1>5. CASE RunnerPollGone(e)
    BY <1>0, <1>5 DEF RunnerPollGone, RunnerGoes, dbVars, engineVars, Present
<1>6. CASE RunnerWaitHit(e)
    BY <1>0, <1>6 DEF RunnerWaitHit, RunnerGoes, dbVars, engineVars, Terminal
<1>7. CASE RunnerWaitTimeout(e)
    <2>1. FinalFromNodes(e) # "none"
        BY DEF FinalFromNodes
    <2> QED BY <1>0, <1>7, <2>1 DEF RunnerWaitTimeout, RunnerGoes, dbVars, engineVars
<1>8. CASE RunnerRead(e)
    BY <1>0, <1>8 DEF RunnerRead, RunnerGoes, dbVars, engineVars
<1>9. CASE RunnerWrite(e)
    BY <1>0, <1>9 DEF RunnerWrite, RunnerGoes, engineVars
<1> QED BY <1>1, <1>2, <1>3, <1>4, <1>5, <1>6, <1>7, <1>8, <1>9 DEF Runner

LEMMA CallSound ==
    ASSUME TypeOK, NEW e \in Execs, RunSound(e), NEW c \in Clients, CallOf(c, e)
    PROVE  RunSound(e)'
<1>0. /\ UNCHANGED <<bridge, eventCh>>
      /\ status \in [Execs -> Status] /\ runner \in [Execs -> RunnerAt]
      /\ engine \in [Execs -> EngineStatus]
    BY DEF CallOf, TypeOK
<1> USE DEF RunSound, Underway, Unreported, Fresh
<1>1. CASE RunInsert(c, e)
    BY <1>0, <1>1 DEF RunInsert, engineVars
<1>2. CASE on[c] = e /\ CancelRow(c)
    BY <1>0, <1>2 DEF CancelRow, engineVars, runnerVars
<1>3. CASE on[c] = e /\ CancelNodes(c)
    BY <1>0, <1>3 DEF CancelNodes, engineVars, runnerVars
<1>4. CASE on[c] = e /\ PauseEngine(c)
    BY <1>0, <1>4 DEF PauseEngine, dbVars, runnerVars, EngineTerminal
<1>5. CASE on[c] = e /\ PauseRow(c)
    BY <1>0, <1>5 DEF PauseRow, engineVars, runnerVars
<1> QED BY <1>1, <1>2, <1>3, <1>4, <1>5 DEF CallOf

LEMMA CrashSound ==
    ASSUME TypeOK, NEW e \in Execs, RunSound(e), Crash
    PROVE  RunSound(e)'
<1>1. /\ ~In(eventCh', About(e)) /\ ~In(eventCh', EndsNot(e, outcome[e]))
      /\ After(eventCh', Starts(e), Ends(e))
    BY DEF Crash, In, After
<1>2. bridge'.exec # e
    BY ConstantsAssumption DEF Crash, Idle, ConstantsAssumption
<1>3. /\ engine'[e] = "absent" /\ ~reported'[e] /\ runner'[e] = "off"
      /\ \A n \in Nodes : engNode'[e][n] = "idle"
      /\ UNCHANGED <<status, outcome>>
    BY DEF Crash, dbVars
<1> QED BY <1>1, <1>2, <1>3 DEF RunSound, Underway, Unreported, Fresh, EngineTerminal

-----------------------------------------------------------------------------
(* The row and the verdict of the engine                                   *)

LEMMA EngineRow ==
    ASSUME TypeOK, NEW e \in Execs, RunSound(e), RowSound(e), Engine(e),
           EngineFinish(e) => Len(eventCh) < QueueCap
    PROVE  RowSound(e)'
<1>0. /\ UNCHANGED <<status, bridge, runner, final>>
      /\ engine \in [Execs -> EngineStatus]
      /\ outcome \in [Execs -> {"none"} \cup Terminal]
      /\ reported \in [Execs -> BOOLEAN] /\ eventCh \in Seq(Event)
    BY DEF Engine, runnerVars, TypeOK, EngineStart, EngineNodeStep, EngineNodeStart,
           EngineNodeEnd, EngineNodeVanish, EngineSettle, EngineFinish, EngineRetire,
           dbVars
<1>1. CASE EngineStart(e)
    BY <1>0, <1>1 DEF EngineStart, RunSound, RowSound, Underway
<1>2. ASSUME NEW n \in Nodes, EngineNodeStep(e, n) PROVE RowSound(e)'
    <2>1. Underway(e) /\ UNCHANGED <<engine, outcome>>
        BY <1>2 DEF EngineNodeStep, EngineNodeStart, EngineNodeEnd, EngineNodeVanish,
                    RunSound, Underway
    <2> QED BY <1>0, <2>1 DEF RowSound, Underway
<1>3. CASE EngineSettle(e)
    <2>1. /\ Underway(e) /\ engine'[e] \in EngineTerminal /\ outcome'[e] # "none"
          /\ UNCHANGED reported
        BY <1>0, <1>3, LowerTerminal
           DEF EngineSettle, Verdicts, EngineTerminal, Terminal, Underway
    <2>2. runner[e] = "poll" /\ outcome[e] = "none" /\ ~reported[e]
        BY <2>1 DEF RunSound, Underway, EngineTerminal
    <2> QED BY <1>0, <2>1, <2>2 DEF RowSound, Underway, Unreported, EngineTerminal
<1>4. CASE EngineFinish(e)
    <2> DEFINE v == [type |-> "execution_complete", exec |-> e,
                     status |-> Lower(engine[e])]
    <2>1. v \in Event /\ v \in Ends(e)
        BY <1>4, LowerTerminal DEF EngineFinish, Event, Ends, About
    <2>2. eventCh' = Append(eventCh, v)
        BY <1>4 DEF EngineFinish, PushEvent
    <2> HIDE DEF v
    <2>3. In(eventCh', Ends(e))
        BY <1>0, <2>1, <2>2, AppendedEvents
    <2>4. engine[e] \in EngineTerminal /\ UNCHANGED <<engine, outcome>>
        BY <1>4 DEF EngineFinish
    <2> QED BY <1>0, <2>3, <2>4 DEF RowSound, Underway, Unreported, Owed, EngineTerminal
<1>5. CASE EngineRetire(e)
    <2>1. /\ engine[e] \in EngineTerminal /\ reported[e] /\ engine'[e] = "absent"
          /\ UNCHANGED <<outcome, eventCh>>
        BY <1>0, <1>5 DEF EngineRetire
    <2> QED BY <1>0, <2>1 DEF RowSound, Underway, Unreported, Owed, EngineTerminal
<1> QED BY <1>1, <1>2, <1>3, <1>4, <1>5 DEF Engine

LEMMA BridgeRow ==
    ASSUME TypeOK, NEW e \in Execs, RunSound(e), RowSound(e), Bridge,
           \/ bridge # Idle /\ bridge.exec = e
           \/ bridge = Idle /\ Head(eventCh).exec = e
    PROVE  RowSound(e)'
<1>1. CASE bridge = Idle
    <2> DEFINE evt == Head(eventCh)
    <2>0. evt.exec = e
        BY <1>1
    <2>1. /\ eventCh \in Seq(Event) /\ eventCh # <<>> /\ eventCh' = Tail(eventCh)
          /\ bridge.exec # e
          /\ UNCHANGED <<engine, engNode, reported, outcome, runner, final>>
        BY <1>1, <2>0, TakeOwn
    <2>2. /\ In(eventCh, Ends(e)) => evt \in Ends(e) \/ In(eventCh', Ends(e))
          /\ evt \in Starts(e) /\ After(eventCh, Starts(e), Ends(e))
                => In(eventCh', Ends(e))
        BY <2>1, TakenEvents
    <2>3. \/ evt \in Starts(e) /\ status'[e] = "running"
          \/ evt \notin Ends(e) /\ status'[e] = status[e]
          \/ status'[e] = status[e] /\ bridge'.exec = e
        <3>1. \A n : /\ evt \in NodeStarts(e, n) => evt \notin Ends(e)
                     /\ evt \in NodeEnds(e, n) => evt \notin Ends(e)
            BY DEF NodeStarts, NodeEnds, Ends
        <3> QED BY <1>1, <2>0, <3>1, TakeOwn
    <2>4. CASE evt \in Starts(e) /\ status'[e] = "running"
        <3>1. Underway(e) \/ Unreported(e) \/ In(eventCh', Ends(e))
            BY <2>2, <2>4 DEF RunSound
        <3> QED BY <2>1, <2>4, <3>1 DEF RowSound, Underway, Unreported, Owed
    <2>5. CASE /\ status'[e] = status[e]
               /\ evt \notin Ends(e) \/ bridge'.exec = e
        BY <2>1, <2>2, <2>5 DEF RowSound, Underway, Unreported, Owed
    <2> QED BY <2>3, <2>4, <2>5
<1>2. CASE bridge # Idle /\ bridge.exec = e
    <2>1. /\ UNCHANGED <<engine, engNode, reported, outcome, runner, final, eventCh>>
          /\ status'[e] = bridge.status
        BY <1>2 DEF Bridge, BridgeTake, BridgeComplete, engineVars, runnerVars, TypeOK
    <2>2. status'[e] \in {outcome[e], "cancelled"} /\ outcome[e] \in Terminal
        BY <1>2, <2>1 DEF RunSound, TypeOK
    <2> QED BY <2>1, <2>2 DEF RowSound, Underway, Unreported, Terminal
<1> QED BY <1>1, <1>2

LEMMA RunnerRow ==
    ASSUME TypeOK, "lag" \notin Faults, NEW e \in Execs, RunSound(e), RowSound(e),
           Runner(e)
    PROVE  RowSound(e)'
<1>0. /\ UNCHANGED <<bridge, eventCh>>
      /\ status \in [Execs -> Status] /\ runner \in [Execs -> RunnerAt]
      /\ final \in [Execs -> {"none"} \cup Terminal]
      /\ outcome \in [Execs -> {"none"} \cup Terminal]
    BY DEF Runner, TypeOK
<1> USE DEF RowSound, Underway, Unreported, Owed
<1>1. CASE RunnerExpandFails(e) \/ RunnerExecuteFails(e)
    <2>1. Fresh(e)
        BY <1>1 DEF RunnerExpandFails, RunnerExecuteFails, RunnerGoes, RunSound
    <2> QED BY <1>0, <1>1, <2>1 DEF RunnerExpandFails, RunnerExecuteFails, RunnerGoes,
                                    WriteFailed, engineVars, Fresh
<1>2. CASE RunnerExpand(e) \/ RunnerMark(e)
    BY <1>0, <1>2 DEF RunnerExpand, RunnerMark, RunnerGoes, engineVars
<1>3. CASE RunnerExecute(e)
    <2>1. Fresh(e) /\ runner[e] = "execute"
        BY <1>3 DEF RunnerExecute, RunnerGoes, RunSound
    <2>2. status[e] # "success" /\ status[e] # "failed"
        BY <2>1 DEF Fresh
    <2>3. /\ engine'[e] = "PENDING" /\ runner'[e] = "poll"
          /\ UNCHANGED <<status, final>>
        BY <1>0, <1>3 DEF RunnerExecute, RunnerGoes, ExecuteWorkflow, Launch, dbVars,
                          TypeOK
    <2> QED BY <2>2, <2>3
<1>4. CASE RunnerPoll(e)
    BY <1>0, <1>4, LowerTerminal
       DEF RunnerPoll, RunnerGoes, dbVars, engineVars, EngineTerminal, Terminal,
           RunSound
<1>5. CASE RunnerPollGone(e)
    BY <1>0, <1>5 DEF RunnerPollGone, RunnerGoes, dbVars, engineVars, Present
<1>6. CASE RunnerWaitHit(e)
    BY <1>0, <1>6 DEF RunnerWaitHit, RunnerGoes, dbVars, engineVars, Terminal
<1>7. CASE RunnerWaitTimeout(e)
    <2>1. BridgeOwes(e) <=> Owed(e)
        BY DEF BridgeOwes, In, Ends, About, TypeOK
    <2>2. status[e] \notin Terminal /\ ~Owed(e) /\ runner[e] = "wait"
        BY <1>7, <2>1 DEF RunnerWaitTimeout, RunnerGoes
    <2> QED BY <2>2 DEF EngineTerminal
<1>8. CASE RunnerRead(e)
    BY <1>0, <1>8 DEF RunnerRead, RunnerGoes, dbVars, engineVars
<1>9. CASE RunnerWrite(e)
    BY <1>0, <1>9 DEF RunnerWrite, RunnerGoes, engineVars
<1> QED BY <1>1, <1>2, <1>3, <1>4, <1>5, <1>6, <1>7, <1>8, <1>9 DEF Runner

LEMMA CallRow ==
    ASSUME TypeOK, CallsWithin, "pause" \notin Ops, NEW e \in Execs, RunSound(e),
           RowSound(e), NEW c \in Clients, CallOf(c, e)
    PROVE  RowSound(e)'
<1>0. /\ UNCHANGED <<bridge, eventCh>>
      /\ status \in [Execs -> Status] /\ runner \in [Execs -> RunnerAt]
      /\ at[c] \notin PauseSteps
    BY DEF CallOf, TypeOK, CallsWithin, RunSteps, CancelSteps, PauseSteps
<1> USE DEF RowSound, Underway, Unreported, Owed
<1>1. CASE RunInsert(c, e)
    BY <1>0, <1>1 DEF RunInsert, engineVars
<1>2. CASE on[c] = e /\ CancelRow(c)
    BY <1>0, <1>2 DEF CancelRow, engineVars, runnerVars, Terminal
<1>3. CASE on[c] = e /\ CancelNodes(c)
    BY <1>0, <1>3 DEF CancelNodes, engineVars, runnerVars
<1>4. CASE PauseEngine(c) \/ PauseRow(c)
    BY <1>0, <1>4 DEF PauseEngine, PauseRow, Moves, Returns, PauseSteps
<1> QED BY <1>1, <1>2, <1>3, <1>4 DEF CallOf

LEMMA CrashRow ==
    ASSUME TypeOK, NEW e \in Execs, RowSound(e), Crash
    PROVE  RowSound(e)'
<1>1. engine'[e] = "absent" /\ runner'[e] = "off" /\ UNCHANGED <<status, outcome>>
    BY DEF Crash, dbVars
<1>2. outcome[e] # "none" /\ status[e] = "failed" => outcome[e] = "failed"
    BY DEF RowSound
<1> QED BY <1>1, <1>2 DEF RowSound

-----------------------------------------------------------------------------
(* What is left running                                                    *)

\* The part about the row, and the part about a node's row.
RowLeft(e) == status[e] = "running" /\ runner[e] = "off" => Owed(e) \/ Unreported(e)
NodeLeft(e, n) ==
    /\ nodeRow[e][n] = "running" =>
          engNode[e][n] = "RUNNING" \/ In(eventCh, NodeEnds(e, n))
    /\ engNode[e][n] = "RUNNING" \/ After(eventCh, NodeStarts(e, n), NodeEnds(e, n))

LEMMA LeftParts ==
    \A e : NoneLeft(e) <=> RowLeft(e) /\ \A n \in Nodes : NodeLeft(e, n)
BY DEF NoneLeft, RowLeft, NodeLeft

\* Events of other kinds do not matter to a node.
LEMMA PushedBeside ==
    ASSUME eventCh \in Seq(Event), NEW v \in Event, PushEvent(v),
           NEW e, NEW n, v \notin NodeStarts(e, n), v \notin NodeEnds(e, n)
    PROVE  /\ In(eventCh', NodeEnds(e, n)) <=> In(eventCh, NodeEnds(e, n))
           /\ After(eventCh, NodeStarts(e, n), NodeEnds(e, n))
                => After(eventCh', NodeStarts(e, n), NodeEnds(e, n))
<1>1. CASE eventCh' = eventCh
    BY <1>1
<1>2. CASE eventCh' = Append(eventCh, v)
    BY <1>2, AppendedEvents
<1> QED BY <1>1, <1>2 DEF PushEvent

LEMMA EngineNodes ==
    ASSUME TypeOK, NEW e \in Execs, RunSound(e), NEW m \in Nodes, NodeLeft(e, m),
           Engine(e), "silent" \notin Faults,
           \A n \in Nodes : \A result \in {"SUCCESS", "FAILED"} :
               EngineNodeEnd(e, n, result) => Len(eventCh) < QueueCap
    PROVE  NodeLeft(e, m)'
<1>0. /\ nodeRow' = nodeRow /\ eventCh \in Seq(Event)
      /\ engNode \in [Execs -> [Nodes -> {"idle", "RUNNING", "SUCCESS", "FAILED"}]]
    BY DEF Engine, TypeOK, EngineStart, EngineNodeStep, EngineNodeStart,
           EngineNodeEnd, EngineNodeVanish, EngineSettle, EngineFinish, EngineRetire,
           dbVars
<1>1. CASE EngineStart(e)
    <2> DEFINE v == [type |-> "execution_start", exec |-> e]
    <2>1. v \in Event /\ v \notin NodeStarts(e, m) /\ v \notin NodeEnds(e, m)
        BY DEF Event, NodeStarts, NodeEnds
    <2>2. PushEvent(v) /\ UNCHANGED engNode
        BY <1>1 DEF EngineStart
    <2> HIDE DEF v
    <2> QED BY <1>0, <2>1, <2>2, PushedBeside DEF NodeLeft
<1>2. ASSUME NEW n \in Nodes, EngineNodeStart(e, n) PROVE NodeLeft(e, m)'
    <2> DEFINE v == [type |-> "node_start", exec |-> e, node |-> n]
    <2>1. v \in Event /\ (n # m => v \notin NodeStarts(e, m)) /\ v \notin NodeEnds(e, m)
        BY DEF Event, NodeStarts, NodeEnds
    <2>2. /\ PushEvent(v) /\ engNode'[e][n] = "RUNNING"
          /\ n # m => engNode'[e][m] = engNode[e][m]
        BY <1>0, <1>2 DEF EngineNodeStart
    <2> HIDE DEF v
    <2>3. CASE n # m
        BY <1>0, <2>1, <2>2, <2>3, PushedBeside DEF NodeLeft
    <2> QED BY <2>2, <2>3 DEF NodeLeft
<1>3. ASSUME NEW n \in Nodes, NEW result \in {"SUCCESS", "FAILED"},
             EngineNodeEnd(e, n, result)
      PROVE  NodeLeft(e, m)'
    <2> DEFINE v == [type |-> "node_complete", exec |-> e, node |-> n,
                     status |-> Lower(result)]
    <2>1. /\ v \in Event /\ v \notin NodeStarts(e, m)
          /\ v \in NodeEnds(e, m) <=> n = m
        BY DEF Event, NodeStarts, NodeEnds, About, Lower
    <2>2. /\ PushEvent(v) /\ eventCh' = Append(eventCh, v)
          /\ n # m => engNode'[e][m] = engNode[e][m]
        BY <1>0, <1>3 DEF EngineNodeEnd, PushEvent
    <2> HIDE DEF v
    <2>3. CASE n # m
        BY <1>0, <2>1, <2>2, <2>3, PushedBeside DEF NodeLeft
    <2>4. CASE n = m
        <3>1. v \notin NodeStarts(e, m) /\ v \in NodeEnds(e, m)
            BY <2>1, <2>4
        <3>2. /\ In(eventCh', NodeEnds(e, m))
              /\ After(eventCh', NodeStarts(e, m), NodeEnds(e, m))
            BY <1>0, <2>1, <2>2, <3>1, AppendedEvents
        <3> QED BY <3>2 DEF NodeLeft
    <2> QED BY <2>3, <2>4
<1>4. ASSUME NEW n \in Nodes, EngineNodeVanish(e, n) PROVE NodeLeft(e, m)'
    BY <1>4 DEF EngineNodeVanish
<1>5. CASE EngineSettle(e)
    BY <1>0, <1>5 DEF EngineSettle, NodeLeft
<1>6. CASE EngineFinish(e)
    <2> DEFINE v == [type |-> "execution_complete", exec |-> e,
                     status |-> Lower(engine[e])]
    <2>1. v \in Event /\ v \notin NodeStarts(e, m) /\ v \notin NodeEnds(e, m)
        BY <1>6, LowerTerminal DEF EngineFinish, Event, NodeStarts, NodeEnds
    <2>2. PushEvent(v) /\ UNCHANGED engNode
        BY <1>6 DEF EngineFinish
    <2> HIDE DEF v
    <2> QED BY <1>0, <2>1, <2>2, PushedBeside DEF NodeLeft
<1>7. CASE EngineRetire(e)
    <2>1. engNode[e][m] # "RUNNING" /\ UNCHANGED eventCh
        BY <1>7 DEF EngineRetire, RunSound, Underway, EngineTerminal
    <2> QED BY <1>0, <2>1 DEF NodeLeft
<1> QED BY <1>1, <1>2, <1>3, <1>4, <1>5, <1>6, <1>7 DEF Engine, EngineNodeStep

LEMMA EngineLeft ==
    ASSUME TypeOK, NEW e \in Execs, RunSound(e), RowLeft(e), Engine(e),
           EngineFinish(e) => Len(eventCh) < QueueCap
    PROVE  RowLeft(e)'
<1>0. /\ UNCHANGED <<status, bridge, runner>> /\ eventCh \in Seq(Event)
      /\ engine \in [Execs -> EngineStatus] /\ reported \in [Execs -> BOOLEAN]
    BY DEF Engine, runnerVars, TypeOK, EngineStart, EngineNodeStep, EngineNodeStart,
           EngineNodeEnd, EngineNodeVanish, EngineSettle, EngineFinish, EngineRetire,
           dbVars
<1>1. CASE Underway(e) \/ engine[e] = "PENDING"
    BY <1>0, <1>1 DEF RunSound, RowLeft
<1>2. ASSUME NEW n \in Nodes, EngineNodeStep(e, n) PROVE Underway(e)
    BY <1>2 DEF EngineNodeStep, EngineNodeStart, EngineNodeEnd, EngineNodeVanish,
                RunSound, Underway
<1>3. CASE EngineFinish(e)
    <2> DEFINE v == [type |-> "execution_complete", exec |-> e,
                     status |-> Lower(engine[e])]
    <2>1. v \in Event /\ v \in Ends(e)
        BY <1>3, LowerTerminal DEF EngineFinish, Event, Ends, About
    <2>2. eventCh' = Append(eventCh, v)
        BY <1>3 DEF EngineFinish, PushEvent
    <2> HIDE DEF v
    <2>3. In(eventCh', Ends(e))
        BY <1>0, <2>1, <2>2, AppendedEvents
    <2> QED BY <2>3 DEF RowLeft, Owed
<1>4. CASE EngineRetire(e)
    BY <1>0, <1>4 DEF EngineRetire, RowLeft, Owed, Unreported
<1> QED BY <1>1, <1>2, <1>3, <1>4 DEF Engine, EngineStart, EngineSettle, Underway

LEMMA BridgeLeft ==
    ASSUME TypeOK, NEW e \in Execs, RunSound(e), NoneLeft(e), Bridge,
           \/ bridge # Idle /\ bridge.exec = e
           \/ bridge = Idle /\ Head(eventCh).exec = e
    PROVE  NoneLeft(e)'
<1>1. CASE bridge = Idle
    <2> DEFINE evt == Head(eventCh)
    <2>0. evt.exec = e
        BY <1>1
    <2>1. /\ eventCh \in Seq(Event) /\ eventCh # <<>> /\ eventCh' = Tail(eventCh)
          /\ bridge.exec # e
          /\ UNCHANGED <<engine, engNode, reported, outcome, runner, final>>
        BY <1>1, <2>0, TakeOwn
    <2>2. /\ In(eventCh, Ends(e)) => evt \in Ends(e) \/ In(eventCh', Ends(e))
          /\ evt \in Starts(e) /\ After(eventCh, Starts(e), Ends(e))
                => In(eventCh', Ends(e))
        BY <2>1, TakenEvents
    <2>3. \/ evt \in Starts(e) /\ status'[e] = "running"
          \/ evt \notin Ends(e) /\ status'[e] = status[e]
          \/ status'[e] = status[e] /\ bridge'.exec = e
        <3>1. \A n : /\ evt \in NodeStarts(e, n) => evt \notin Ends(e)
                     /\ evt \in NodeEnds(e, n) => evt \notin Ends(e)
            BY DEF NodeStarts, NodeEnds, Ends
        <3> QED BY <1>1, <2>0, <3>1, TakeOwn
    <2>4. RowLeft(e)'
        <3>1. CASE evt \in Starts(e) /\ status'[e] = "running"
            BY <2>1, <2>2, <3>1 DEF RunSound, RowLeft, Underway, Unreported, Owed
        <3>2. CASE /\ status'[e] = status[e]
                   /\ evt \notin Ends(e) \/ bridge'.exec = e
            BY <2>1, <2>2, <3>2, LeftParts DEF RowLeft, Unreported, Owed
        <3> QED BY <2>3, <3>1, <3>2
    <2>5. ASSUME NEW m \in Nodes PROVE NodeLeft(e, m)'
        <3>1. /\ In(eventCh, NodeEnds(e, m))
                    => evt \in NodeEnds(e, m) \/ In(eventCh', NodeEnds(e, m))
              /\ After(eventCh, NodeStarts(e, m), NodeEnds(e, m))
                    => After(eventCh', NodeStarts(e, m), NodeEnds(e, m))
              /\ After(eventCh, NodeStarts(e, m), NodeEnds(e, m))
                    => (evt \in NodeStarts(e, m) => In(eventCh', NodeEnds(e, m)))
            BY <2>1, TakenEvents
        <3>2. NodeLeft(e, m)
            BY LeftParts
        <3>3. \/ evt \notin NodeEnds(e, m) /\ nodeRow'[e][m] = nodeRow[e][m]
              \/ evt \in NodeStarts(e, m) /\ nodeRow'[e][m] = "running"
              \/ nodeRow'[e][m] # "running"
            <4>1. nodeRow[e] \in [Nodes -> NodeStatus]
                BY DEF TypeOK
            <4>2. /\ evt \in Starts(e) \cup Ends(e) => evt \notin NodeEnds(e, m)
                  /\ \A n : evt \in NodeStarts(e, n) => evt \notin NodeEnds(e, m)
                  /\ \A n : evt \in NodeEnds(e, n) /\ n # m
                              => evt \notin NodeEnds(e, m)
                BY DEF NodeStarts, NodeEnds, Starts, Ends
            <4>3. CASE UNCHANGED nodeRow /\ evt \in Starts(e) \cup Ends(e)
                BY <4>2, <4>3
            <4>4. ASSUME NEW n \in Nodes, evt \in NodeStarts(e, n), Opens(e, n)
                  PROVE  \/ evt \notin NodeEnds(e, m) /\ nodeRow'[e][m] = nodeRow[e][m]
                         \/ evt \in NodeStarts(e, m) /\ nodeRow'[e][m] = "running"
                BY <4>1, <4>2, <4>4 DEF Opens
            <4>5. ASSUME NEW n \in Nodes, evt \in NodeEnds(e, n), Closes(e, n)
                  PROVE  \/ evt \notin NodeEnds(e, m) /\ nodeRow'[e][m] = nodeRow[e][m]
                         \/ nodeRow'[e][m] # "running"
                BY <4>1, <4>2, <4>5 DEF Closes
            <4> QED BY <1>1, <2>0, <4>3, <4>4, <4>5, TakeOwn
        <3> QED BY <2>1, <3>1, <3>2, <3>3 DEF NodeLeft
    <2> QED BY <2>4, <2>5, LeftParts DEF NoneLeft, RowLeft, NodeLeft
<1>2. CASE bridge # Idle /\ bridge.exec = e
    <2>1. /\ UNCHANGED <<engNode, nodeRow, eventCh>> /\ status'[e] = bridge.status
        BY <1>2 DEF Bridge, BridgeTake, BridgeComplete, engineVars, runnerVars, TypeOK
    <2>2. status'[e] # "running"
        BY <2>1 DEF TypeOK, Terminal
    <2> QED BY <2>1, <2>2 DEF NoneLeft
<1> QED BY <1>1, <1>2

LEMMA RunnerLeft ==
    ASSUME TypeOK, NEW e \in Execs, RunSound(e), NoneLeft(e), Runner(e)
    PROVE  NoneLeft(e)'
<1>0. /\ UNCHANGED <<bridge, eventCh>> /\ nodeRow' = nodeRow
      /\ status \in [Execs -> Status] /\ runner \in [Execs -> RunnerAt]
      /\ final \in [Execs -> {"none"} \cup Terminal]
    BY DEF Runner, TypeOK, RunnerExpandFails, RunnerExpand, RunnerMark, RunnerExecute,
           RunnerExecuteFails, RunnerPoll, RunnerPollGone, RunnerWaitHit,
           RunnerWaitTimeout, RunnerRead, RunnerWrite, WriteFailed, dbVars
<1>1. CASE RunnerExecute(e)
    <2>1. \A n \in Nodes : engNode[e][n] # "RUNNING"
        BY <1>1 DEF RunnerExecute, RunnerGoes, RunSound, Fresh, Underway
    <2>2. runner'[e] # "off"
        BY <1>0, <1>1 DEF RunnerExecute, RunnerGoes
    <2> QED BY <1>0, <2>1, <2>2 DEF NoneLeft
<1>2. CASE ~RunnerExecute(e)
    <2>1. UNCHANGED engNode
        BY <1>2 DEF Runner, RunnerExpandFails, RunnerExpand, RunnerMark,
                    RunnerExecuteFails, RunnerPoll, RunnerPollGone, RunnerWaitHit,
                    RunnerWaitTimeout, RunnerRead, RunnerWrite, engineVars
    <2>2. \/ runner'[e] # "off"
          \/ status'[e] # "running"
        BY <1>0, <1>2 DEF Runner, RunnerExpandFails, RunnerExpand, RunnerMark,
                          RunnerExecuteFails, RunnerPoll, RunnerPollGone, RunnerWaitHit,
                          RunnerWaitTimeout, RunnerRead, RunnerWrite, RunnerGoes,
                          WriteFailed, Terminal
    <2> QED BY <1>0, <2>1, <2>2 DEF NoneLeft
<1> QED BY <1>1, <1>2

LEMMA CallLeft ==
    ASSUME TypeOK, NEW e \in Execs, RunSound(e), NoneLeft(e), NEW c \in Clients,
           CallOf(c, e)
    PROVE  NoneLeft(e)'
<1>0. /\ UNCHANGED <<bridge, eventCh>>
      /\ status \in [Execs -> Status] /\ runner \in [Execs -> RunnerAt]
      /\ engine \in [Execs -> EngineStatus]
      /\ nodeRow \in [Execs -> [Nodes -> NodeStatus]]
    BY DEF CallOf, TypeOK
<1>1. CASE RunInsert(c, e)
    BY <1>0, <1>1 DEF RunInsert, engineVars, NoneLeft
<1>2. CASE on[c] = e /\ CancelRow(c)
    BY <1>0, <1>2 DEF CancelRow, engineVars, runnerVars, NoneLeft
<1>3. CASE on[c] = e /\ CancelNodes(c)
    <2>1. UNCHANGED <<status, runner, engine, engNode, reported>>
        BY <1>3 DEF CancelNodes, engineVars, runnerVars
    <2>2. \A n \in Nodes : nodeRow'[e][n] # "running"
        BY <1>0, <1>3 DEF CancelNodes
    <2> QED BY <1>0, <2>1, <2>2 DEF NoneLeft, Owed, Unreported
<1>4. CASE on[c] = e /\ PauseEngine(c)
    <2>1. runner[e] = "poll"
        BY <1>4 DEF PauseEngine, RunSound, Underway
    <2> QED BY <1>0, <1>4, <2>1 DEF PauseEngine, dbVars, runnerVars, NoneLeft
<1>5. CASE on[c] = e /\ PauseRow(c)
    BY <1>0, <1>5 DEF PauseRow, engineVars, runnerVars, NoneLeft
<1> QED BY <1>1, <1>2, <1>3, <1>4, <1>5 DEF CallOf

-----------------------------------------------------------------------------
(* The theorems                                                            *)

\* No event that ends a run, or a node, meets a full channel.
EndsFit == \A e \in Execs : EngineFinish(e) => Len(eventCh) < QueueCap
NodeEndsFit ==
    \A e \in Execs, n \in Nodes, result \in {"SUCCESS", "FAILED"} :
        EngineNodeEnd(e, n, result) => Len(eventCh) < QueueCap

Sound == \A e \in Execs : RunSound(e)
Rows  == \A e \in Execs : RowSound(e)
Left  == \A e \in Execs : NoneLeft(e)

LEMMA InitSound ==
    ASSUME Init
    PROVE  CallsWithin /\ Sound /\ Rows /\ Left
<1>1. CallsWithin
    BY DEF Init, CallsWithin, RunSteps
<1>2. ASSUME NEW e \in Execs PROVE RunSound(e) /\ RowSound(e) /\ NoneLeft(e)
    <2>1. /\ \A S : ~In(eventCh, S) /\ \A T : After(eventCh, S, T)
          /\ bridge.exec # e
        BY ConstantsAssumption DEF Init, In, After, Idle, ConstantsAssumption
    <2>2. /\ status[e] = "none" /\ engine[e] = "absent" /\ outcome[e] = "none"
          /\ runner[e] = "off" /\ ~reported[e]
          /\ \A n \in Nodes : engNode[e][n] = "idle" /\ nodeRow[e][n] = "none"
        BY DEF Init
    <2>3. RunSound(e)
        BY <2>1, <2>2 DEF RunSound, Fresh, Underway, EngineTerminal
    <2> QED BY <2>1, <2>2, <2>3 DEF RowSound, NoneLeft
<1> QED BY <1>1, <1>2 DEF Sound, Rows, Left

LEMMA SoundStep ==
    ASSUME TypeOK, CallsWithin, Sound, [Next]_vars, [EndsFit]_vars
    PROVE  Sound'
<1> SUFFICES ASSUME NEW e \in Execs PROVE RunSound(e)'
    BY DEF Sound
<1>0. RunSound(e)
    BY DEF Sound
<1>1. CASE Untouched(e)
    BY <1>0, <1>1, OthersKeep
<1>2. CASE Engine(e)
    <2>1. CASE UNCHANGED vars
        <3>1. Untouched(e)
            BY <2>1, SameChannel DEF Untouched, vars, dbVars, engineVars, runnerVars
        <3> QED BY <1>1, <3>1
    <2>2. CASE EndsFit
        BY <1>0, <1>2, <2>2, EngineSound DEF EndsFit
    <2> QED BY <2>1, <2>2
<1> QED BY <1>0, <1>1, <1>2, OwnOrOther, RunnerSound, BridgeSound, CallSound, CrashSound
        DEF Own

LEMMA RowsStep ==
    ASSUME TypeOK, CallsWithin, Sound, Rows, [Next]_vars, [EndsFit]_vars,
           "lag" \notin Faults, "pause" \notin Ops
    PROVE  Rows'
<1> SUFFICES ASSUME NEW e \in Execs PROVE RowSound(e)'
    BY DEF Rows
<1>0. RunSound(e) /\ RowSound(e)
    BY DEF Sound, Rows
<1>1. CASE Untouched(e)
    BY <1>0, <1>1, OthersKeep
<1>2. CASE Engine(e)
    <2>1. CASE UNCHANGED vars
        <3>1. Untouched(e)
            BY <2>1, SameChannel DEF Untouched, vars, dbVars, engineVars, runnerVars
        <3> QED BY <1>1, <3>1
    <2>2. CASE EndsFit
        BY <1>0, <1>2, <2>2, EngineRow DEF EndsFit
    <2> QED BY <2>1, <2>2
<1> QED BY <1>0, <1>1, <1>2, OwnOrOther, RunnerRow, BridgeRow, CallRow, CrashRow
        DEF Own

LEMMA LeftStep ==
    ASSUME TypeOK, CallsWithin, Sound, Left, [Next]_vars, [EndsFit /\ NodeEndsFit]_vars,
           Faults \subseteq {"lag"}
    PROVE  Left'
<1> SUFFICES ASSUME NEW e \in Execs PROVE NoneLeft(e)'
    BY DEF Left
<1>0. RunSound(e) /\ NoneLeft(e)
    BY DEF Sound, Left
<1>1. CASE Untouched(e)
    BY <1>0, <1>1, OthersKeep
<1>2. CASE Engine(e)
    <2>1. CASE UNCHANGED vars
        <3>1. Untouched(e)
            BY <2>1, SameChannel DEF Untouched, vars, dbVars, engineVars, runnerVars
        <3> QED BY <1>1, <3>1
    <2>2. CASE EndsFit /\ NodeEndsFit
        <3>1. RowLeft(e)'
            BY <1>0, <1>2, <2>2, EngineLeft, LeftParts DEF EndsFit
        <3>2. \A n \in Nodes : NodeLeft(e, n)'
            BY <1>0, <1>2, <2>2, EngineNodes, LeftParts DEF NodeEndsFit
        <3> QED BY <3>1, <3>2 DEF NoneLeft, RowLeft, NodeLeft
    <2> QED BY <2>1, <2>2
<1>3. ~Crash
    BY DEF Crash
<1> QED BY <1>0, <1>1, <1>2, <1>3, OwnOrOther, RunnerLeft, BridgeLeft, CallLeft DEF Own

(* The row of an execution that has come to rest says what the engine said *)
(* of its run, as long as requests run and cancel, the bridge keeps up     *)
(* (neither the 3 s timeout nor a full channel comes before it has the     *)
(* end of the run): whoever wrote the row last, the goroutine or the       *)
(* bridge, whether the poll found the instance or not, and whatever        *)
(* cancellations, silent failures of nodes and restarts came between.      *)
THEOREM RowsTellOutcome ==
    ASSUME Ops \subseteq {"run", "cancel"}, "lag" \notin Faults
    PROVE  Spec /\ [][EndsFit]_vars => []RowTellsOutcome
<1>1. TypeOK /\ CallsWithin /\ [Next]_vars => CallsWithin'
    BY CallsStep
<1>2. TypeOK /\ CallsWithin /\ Sound /\ [Next]_vars /\ [EndsFit]_vars => Sound'
    BY SoundStep
<1>3. TypeOK /\ CallsWithin /\ Sound /\ Rows /\ [Next]_vars /\ [EndsFit]_vars => Rows'
    BY RowsStep
<1>4. Rows => RowTellsOutcome
    BY DEF Rows, RowSound, RowTellsOutcome
<1> QED BY <1>1, <1>2, <1>3, <1>4, InitSound, TypeCorrect, PTL DEF Spec

LEMMA VerdictStays ==
    ASSUME TypeOK, CallsWithin, NEW e \in Execs, [Next]_vars, status'[e] # status[e]
    PROVE  outcome'[e] = outcome[e]
<1>1. CASE Untouched(e)
    BY <1>1 DEF Untouched
<1>2. CASE Engine(e)
    BY <1>2 DEF Engine, EngineStart, EngineNodeStep, EngineNodeStart, EngineNodeEnd,
                EngineNodeVanish, EngineSettle, EngineFinish, EngineRetire, dbVars
<1>3. CASE Runner(e)
    BY <1>3 DEF Runner, RunnerExpandFails, RunnerExpand, RunnerMark, RunnerExecute,
                RunnerExecuteFails, RunnerPoll, RunnerPollGone, RunnerWaitHit,
                RunnerWaitTimeout, RunnerRead, RunnerWrite, dbVars, engineVars
<1>4. CASE Bridge
    BY <1>4 DEF Bridge, engineVars
<1>5. ASSUME NEW c \in Clients, CallOf(c, e) PROVE outcome' = outcome
    BY <1>5 DEF CallOf, RunInsert, CancelRow, CancelNodes, PauseEngine, PauseRow,
                engineVars
<1>6. CASE Crash
    BY <1>6 DEF Crash
<1> QED BY <1>1, <1>2, <1>3, <1>4, <1>5, <1>6, OwnOrOther DEF Own

(* Under the same conditions nobody ever records a success of a run that   *)
(* the engine did not finish with success, not even for a moment: the      *)
(* answer "not found" of the poll never makes one (the exec-550 incident). *)
THEOREM SuccessIsTrue ==
    ASSUME Ops \subseteq {"run", "cancel"}, "lag" \notin Faults
    PROVE  Spec /\ [][EndsFit]_vars => NoFalseSuccess
<1>1. TypeOK /\ CallsWithin /\ [Next]_vars => CallsWithin'
    BY CallsStep
<1>2. TypeOK /\ CallsWithin /\ Sound /\ [Next]_vars /\ [EndsFit]_vars => Sound'
    BY SoundStep
<1>3. TypeOK /\ CallsWithin /\ Sound /\ Rows /\ [Next]_vars /\ [EndsFit]_vars => Rows'
    BY RowsStep
<1> DEFINE TrueNow ==
             \A e \in Execs :
                 status'[e] = "success" /\ status[e] # "success"
                     => outcome[e] = "success"
<1>4. TypeOK /\ CallsWithin /\ Rows' /\ [Next]_vars => [TrueNow]_status
    BY VerdictStays DEF Rows, RowSound
<1> QED BY <1>1, <1>2, <1>3, <1>4, InitSound, TypeCorrect, PTL DEF Spec, NoFalseSuccess

(* What has come to rest leaves nothing running, neither the row of the    *)
(* execution nor that of a node, when requests run, cancel and pause and   *)
(* no end of a node or of a run is lost: whatever the bridge is late with, *)
(* it still closes what it reopens, since the start of a node or a run is  *)
(* never the last event of it in the channel.                              *)
THEOREM NothingStaysRunning ==
    ASSUME Ops \subseteq {"run", "cancel", "pause"}, Faults \subseteq {"lag"}
    PROVE  Spec /\ [][EndsFit /\ NodeEndsFit]_vars => []NothingLeftRunning
<1>1. TypeOK /\ CallsWithin /\ [Next]_vars => CallsWithin'
    BY CallsStep
<1>2. TypeOK /\ CallsWithin /\ Sound /\ [Next]_vars /\ [EndsFit /\ NodeEndsFit]_vars
        => Sound'
    BY SoundStep
<1>3. TypeOK /\ CallsWithin /\ Sound /\ Left /\ [Next]_vars
        /\ [EndsFit /\ NodeEndsFit]_vars => Left'
    BY LeftStep
<1>4. Sound /\ Left => NothingLeftRunning
    <2> SUFFICES ASSUME Sound, Left, NEW e \in Execs, AtRest(e)
                 PROVE  /\ status[e] # "running"
                        /\ \A n \in Nodes : nodeRow[e][n] # "running"
        BY DEF NothingLeftRunning, NoZombie, NoNodeLeftRunning
    <2>1. /\ runner[e] = "off" /\ ~Unreported(e) /\ bridge.exec # e
          /\ ~In(eventCh, Ends(e)) /\ \A n : ~In(eventCh, NodeEnds(e, n))
        BY DEF AtRest, Unreported, In, Ends, NodeEnds, About
    <2>2. \A n \in Nodes : engNode[e][n] # "RUNNING"
        BY <2>1 DEF Sound, RunSound
    <2> QED BY <2>1, <2>2 DEF Left, NoneLeft, Owed
<1> QED BY <1>1, <1>2, <1>3, <1>4, InitSound, TypeCorrect, PTL DEF Spec

=============================================================================
