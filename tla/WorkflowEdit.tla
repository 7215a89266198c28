---------------------------- MODULE WorkflowEdit ----------------------------
(***************************************************************************)
(* Editing a workflow: the page's copy of it (workflowStore.ts), the       *)
(* parameter panel (WorkflowConfigPanel.tsx), the debounced saves of the   *)
(* node widgets and the refresh after foreign changes (WorkflowCanvas.tsx),*)
(* the run button (WorkflowCanvasPage.tsx) and the server's update with    *)
(* its optimistic lock (service/workflow.go).  One workflow, one page; the *)
(* other clients (command line, other tabs) write it through the same      *)
(* interface.                                                              *)
(*                                                                         *)
(*   - A workflow's content is what its revision hashes; here it is the    *)
(*     value of one workflow parameter and of one parameter of one node,   *)
(*     and the revision is the content itself (no two contents share one). *)
(*   - A request is a task: the browser sends it, the server checks and    *)
(*     writes in two statements, the answer comes back later; any of the   *)
(*     three may be overtaken by another task.  A failing request is lost  *)
(*     before the server acts or on the way back.                          *)
(*   - Bounds: Tasks requests at a time, MaxEdits acts of the user,        *)
(*     MaxForeign foreign writes, MaxFaults failures and disconnections.   *)
(***************************************************************************)
EXTENDS Naturals, FiniteSets

CONSTANTS
    Values,      \* the values of a parameter
    Tasks,       \* the slots for requests under way
    NoItem,      \* the list has not been loaded
    MaxEdits, MaxForeign, MaxFaults

ASSUME BoundsAssumption == MaxEdits \in Nat /\ MaxForeign \in Nat /\ MaxFaults \in Nat
ASSUME NoItemAssumption == NoItem \notin [param : Values, node : Values]

VARIABLES
    stored,      \* the workflow on the server
    doc,         \* currentWorkflow: content, and the revision it was read with
    typed,       \* the panel's input for the parameter (editingValues)
    timer,       \* persistTimerRef is armed and pendingParamsFlush registered
    refresh,     \* refreshTimerRef is armed
    task,        \* the requests under way
    link,        \* the event stream of the page is connected
    event,       \* a workflow.updated is on its way to the page
    page, item,  \* the page on screen; the workflow as the list has loaded it
    told,        \* the page shows what is not stored, and an error toast said so
    missed,      \* the page has missed a change, for a reason it cannot see
    unsent,      \* an edit of a widget no request has carried yet
    edits, foreign, faults

serverVars == <<stored, foreign>>
userVars   == <<typed, edits>>
timerVars  == <<timer, refresh, unsent>>
linkVars   == <<link, event>>
pageVars   == <<page, item>>
truthVars  == <<told, missed>>
vars == <<serverVars, doc, userVars, timerVars, task, linkVars, pageVars, truthVars, faults>>

Content == [param : Values, node : Values]

(***************************************************************************)
(* A task: step is what happens to it next; then, what follows its PUT     *)
(* (nothing, the GET of a refresh, the start of a run, the end of a save); *)
(* body and base, what it carries.  The rest is history: over, the user    *)
(* has edited since it began; late, a newer answer was applied since its   *)
(* own was read; raced, somebody wrote since its check; sure, it is a run  *)
(* asked for on a quiet page that nothing has disturbed.                   *)
(***************************************************************************)
Steps == {"idle", "check", "write", "ok", "refused", "reread", "reanswer", "get", "answer", "start"}
Task == [step : Steps, then : {"done", "get", "start", "save"},
         body : Content \cup {NoItem}, base : Content \cup {NoItem},
         over : BOOLEAN, late : BOOLEAN, raced : BOOLEAN, sure : BOOLEAN]

At(step, body) == [step |-> step, then |-> "done", body |-> body, base |-> NoItem,
                   over |-> FALSE, late |-> FALSE, raced |-> FALSE, sure |-> FALSE]
Blank == At("idle", NoItem)
Put(d, then) == [At("check", d.content) EXCEPT !.base = d.base, !.then = then]
\* What a task goes on with once its PUT is over, however it ended.
Follow(k) == IF k.then \in {"get", "start"} THEN [k EXCEPT !.step = k.then, !.base = NoItem] ELSE Blank

\* The answers that are now older than something else that was read.
Overtaken(tasks) == [t \in Tasks |-> [tasks[t] EXCEPT !.late = @ \/ tasks[t].step \in {"answer", "reanswer"}]]

Free == {t \in Tasks : task[t].step = "idle"}
Saving == \E t \in Tasks : task[t].then = "save"
Starting == \E t \in Tasks : "start" \in {task[t].step, task[t].then}
Dirty == typed # doc.content.param
\* Nothing is under way, except perhaps the debounce of a widget's edit.
Calm == /\ Free = Tasks /\ ~refresh /\ link /\ ~event /\ ~Dirty

Init ==
    /\ stored \in Content
    /\ doc = [content |-> stored, base |-> stored]
    /\ typed = stored.param
    /\ timer = FALSE /\ refresh = FALSE /\ unsent = FALSE
    /\ task = [t \in Tasks |-> Blank]
    /\ link = TRUE /\ event = FALSE
    /\ page = "canvas" /\ item = NoItem
    /\ told = FALSE /\ missed = FALSE
    /\ edits = 0 /\ foreign = 0 /\ faults = 0

Act == page = "canvas" /\ edits < MaxEdits /\ edits' = edits + 1

----------------------------------------------------------------------------
(* The user, on the canvas.                                                *)

\* ParamField, handleValueChange.
Type(v) ==
    /\ Act
    /\ v # typed
    /\ typed' = v
    /\ UNCHANGED <<serverVars, doc, timerVars, task, linkVars, pageVars, truthVars, faults>>

\* handleReset: back to originalValue, which every sync of the panel sets to
\* the parameter of the document.
ResetTyped ==
    /\ page = "canvas" /\ Dirty
    /\ typed' = doc.content.param
    /\ UNCHANGED <<serverVars, doc, edits, timerVars, task, linkVars, pageVars, truthVars, faults>>

\* handleSave, by the button or by the auto-save timer: the typed value goes
\* into the document, and the whole document into a PUT.
Store(t) ==
    /\ page = "canvas" /\ Dirty /\ t \in Free
    /\ doc' = [doc EXCEPT !.content.param = typed]
    /\ task' = [k \in Tasks |-> IF k = t THEN Put(doc', "save") ELSE [task[k] EXCEPT !.over = task[k].step # "idle"]]
    /\ unsent' = FALSE
    /\ UNCHANGED <<serverVars, userVars, timer, refresh, linkVars, pageVars, truthVars, faults>>
Save(t) == ~Saving /\ Store(t)
AutoSave(t) == Store(t)

\* handleNodeParamsChange and updateNodeParams: the document changes at once,
\* the timer is armed again.  The panel reads the new text and drops what was
\* typed into it.
EditNode(v) ==
    /\ Act
    /\ v # doc.content.node
    /\ doc' = [doc EXCEPT !.content.node = v]
    /\ typed' = doc.content.param
    /\ timer' = TRUE /\ unsent' = TRUE
    /\ task' = [k \in Tasks |-> [task[k] EXCEPT !.over = task[k].step # "idle"]]
    /\ UNCHANGED <<serverVars, refresh, linkVars, pageVars, truthVars, faults>>

\* Mutant: persistNow whether or not the timer is armed.
FlushAlways(t, k) ==
    /\ t \in Free
    /\ task' = [task EXCEPT ![t] = [Put(doc, k.step) EXCEPT !.sure = k.sure]]
    /\ timer' = FALSE /\ unsent' = FALSE

\* flushNodeParamsPersist, and what the caller goes on with after it.
FlushThen(t, k) ==
    /\ t \in Free
    /\ IF timer
       THEN /\ task' = [task EXCEPT ![t] = [Put(doc, k.step) EXCEPT !.sure = k.sure]]
            /\ timer' = FALSE /\ unsent' = FALSE
       ELSE /\ task' = [task EXCEPT ![t] = k]
            /\ UNCHANGED <<timer, unsent>>

\* Mutant: the run does not wait for the flush.
RunAtOnce(t) ==
    /\ Act /\ ~Starting /\ t \in Free
    /\ task' = [task EXCEPT ![t] = [At("start", doc.content) EXCEPT !.sure = Calm /\ ~told /\ ~missed]]
    /\ UNCHANGED <<serverVars, doc, typed, timerVars, linkVars, pageVars, truthVars, faults>>

\* handleRun: flush, then ask the server to run what it has stored.
Run(t) ==
    /\ Act /\ ~Starting
    /\ FlushThen(t, [At("start", doc.content) EXCEPT !.sure = Calm /\ ~told /\ ~missed])
    /\ UNCHANGED <<serverVars, doc, typed, refresh, linkVars, pageVars, truthVars, faults>>

\* Mutant: the timers are cleared, nothing is flushed.
LeaveDropping ==
    /\ Act
    /\ timer' = FALSE /\ refresh' = FALSE /\ link' = TRUE /\ event' = FALSE
    /\ page' = "list" /\ item' = NoItem
    /\ typed' = doc.content.param
    /\ UNCHANGED <<serverVars, doc, unsent, task, truthVars, faults>>

\* Leaving the canvas: a pending edit is flushed without waiting for it, the
\* other timer is cleared and the event stream closed.
Leave ==
    /\ Act
    /\ IF timer THEN \E t \in Free : task' = [task EXCEPT ![t] = Put(doc, "done")] ELSE task' = task
    /\ timer' = FALSE /\ unsent' = FALSE /\ refresh' = FALSE
    /\ link' = TRUE /\ event' = FALSE
    /\ page' = "list" /\ item' = NoItem
    /\ typed' = doc.content.param
    /\ UNCHANGED <<serverVars, doc, truthVars, faults>>

\* The list reads the workflows; a click hands its copy to the canvas.
LoadList ==
    /\ page = "list" /\ item # stored
    /\ item' = stored
    /\ task' = Overtaken(task)
    /\ UNCHANGED <<serverVars, doc, userVars, timerVars, linkVars, page, truthVars, faults>>
\* Mutant: the canvas opens before the list has been read.
OpenUnread ==
    /\ page = "list"
    /\ doc' = [content |-> item, base |-> item]
    /\ page' = "canvas" /\ item' = NoItem
    /\ told' = FALSE /\ missed' = (item # stored)
    /\ UNCHANGED <<serverVars, userVars, timerVars, task, linkVars, faults>>
Open ==
    /\ page = "list" /\ item # NoItem
    /\ doc' = [content |-> item, base |-> item]
    /\ typed' = item.param
    /\ page' = "canvas" /\ item' = NoItem
    /\ told' = FALSE /\ missed' = (item # stored)
    /\ UNCHANGED <<serverVars, edits, timerVars, task, linkVars, faults>>

----------------------------------------------------------------------------
(* The browser's timers and its event stream.                              *)

\* The 800 ms after the last edit of a widget are over: persistNow.
Persist(t) ==
    /\ timer /\ t \in Free
    /\ task' = [task EXCEPT ![t] = Put(doc, "done")]
    /\ timer' = FALSE /\ unsent' = FALSE
    /\ UNCHANGED <<serverVars, doc, userVars, refresh, linkVars, pageVars, truthVars, faults>>

\* workflow.updated: another 250 ms until the refresh.
Notice ==
    /\ event
    /\ event' = FALSE /\ refresh' = TRUE
    /\ UNCHANGED <<serverVars, doc, userVars, timer, unsent, task, link, pageVars, truthVars, faults>>

\* Mutant: the refresh does not flush, or the reconnection does not refresh.
RefreshUnflushed(t) ==
    /\ refresh /\ t \in Free
    /\ refresh' = FALSE
    /\ task' = [task EXCEPT ![t] = At("get", NoItem)]
    /\ UNCHANGED <<serverVars, doc, userVars, timer, unsent, linkVars, pageVars, truthVars, faults>>
ReconnectOnly(t) ==
    /\ ~link /\ t \in Free
    /\ link' = TRUE
    /\ UNCHANGED <<serverVars, doc, userVars, timerVars, task, event, pageVars, truthVars, faults>>

\* refreshCurrentWorkflow, by the timer or by a reconnection of the stream.
Refresh(t) ==
    /\ refresh
    /\ refresh' = FALSE
    /\ FlushThen(t, At("get", NoItem))
    /\ UNCHANGED <<serverVars, doc, userVars, linkVars, pageVars, truthVars, faults>>
Reconnect(t) ==
    /\ ~link
    /\ link' = TRUE
    /\ FlushThen(t, At("get", NoItem))
    /\ UNCHANGED <<serverVars, doc, userVars, refresh, event, pageVars, truthVars, faults>>
Disconnect ==
    /\ page = "canvas" /\ link /\ faults < MaxFaults
    /\ link' = FALSE /\ event' = FALSE /\ faults' = faults + 1
    /\ UNCHANGED <<serverVars, doc, userVars, timerVars, task, pageVars, truthVars>>

----------------------------------------------------------------------------
(* The server: WorkflowService.Update in two statements, Get, and the      *)
(* updates of the other clients.                                           *)

\* Mutant: the revision is not compared.
CheckNothing(t) ==
    /\ task[t].step = "check"
    /\ task' = [task EXCEPT ![t].step = "write"]
    /\ UNCHANGED <<serverVars, doc, userVars, timerVars, linkVars, pageVars, truthVars, faults>>
Check(t) ==
    /\ task[t].step = "check"
    /\ task' = [task EXCEPT ![t].step = IF stored = task[t].base THEN "write" ELSE "refused"]
    /\ UNCHANGED <<serverVars, doc, userVars, timerVars, linkVars, pageVars, truthVars, faults>>

\* c is written: an event for the canvas, if it listens; none for the list.
Written(c, tasks) ==
    /\ stored' = c
    /\ task' = IF page = "list" THEN Overtaken(tasks) ELSE tasks
    /\ event' = (event \/ (link /\ page = "canvas"))
Disturbed(k) == [k EXCEPT !.raced = k.step = "write", !.sure = FALSE]
Write(t) ==
    /\ task[t].step = "write"
    /\ Written(task[t].body, [k \in Tasks |-> IF k = t THEN [task[t] EXCEPT !.step = "ok", !.raced = FALSE]
                                                       ELSE Disturbed(task[k])])
    /\ UNCHANGED <<foreign, doc, userVars, timerVars, link, pageVars, truthVars, faults>>
ForeignUpdate(c) ==
    /\ foreign < MaxForeign /\ c # stored
    /\ Written(c, [k \in Tasks |-> Disturbed(task[k])])
    /\ foreign' = foreign + 1
    /\ UNCHANGED <<doc, userVars, timerVars, link, pageVars, truthVars, faults>>

Read(t) ==
    /\ task[t].step \in {"reread", "get"}
    /\ task' = [task EXCEPT ![t].step = IF @ = "get" THEN "answer" ELSE "reanswer", ![t].body = stored]
    /\ UNCHANGED <<serverVars, doc, userVars, timerVars, linkVars, pageVars, truthVars, faults>>

\* POST run: the server runs what it has stored.
Start(t) ==
    /\ task[t].step = "start"
    /\ task' = [task EXCEPT ![t] = Blank]
    /\ UNCHANGED <<serverVars, doc, userVars, timerVars, linkVars, pageVars, truthVars, faults>>

----------------------------------------------------------------------------
(* The answers.                                                            *)

Accepted(t) ==
    /\ task[t].step = "ok"
    /\ task' = [task EXCEPT ![t] = Follow(task[t])]
    /\ UNCHANGED <<serverVars, doc, userVars, timerVars, linkVars, pageVars, truthVars, faults>>

\* 409: handleSave says so and leaves the document alone, persistNow reads the
\* stored workflow first.
Refused(t) ==
    /\ task[t].step = "refused"
    /\ IF task[t].then = "save"
       THEN told' = TRUE /\ task' = [task EXCEPT ![t] = Blank]
       ELSE told' = told /\ task' = [task EXCEPT ![t].step = "reread"]
    /\ UNCHANGED <<serverVars, doc, userVars, timerVars, linkVars, pageVars, missed, faults>>

\* setCurrentWorkflow with an answer; what was typed goes when the text changes.
Show(t) ==
    /\ doc' = [content |-> task[t].body, base |-> task[t].body]
    /\ typed' = IF task[t].body = doc.content THEN typed ELSE task[t].body.param
    /\ unsent' = FALSE
    /\ told' = FALSE /\ missed' = task[t].late
Ends(t, k) == task' = [Overtaken(task) EXCEPT ![t] = k]
RereadAnswer(t) ==
    /\ task[t].step = "reanswer"
    /\ Show(t)
    /\ Ends(t, [Follow(task[t]) EXCEPT !.late = FALSE, !.sure = FALSE])
    /\ UNCHANGED <<serverVars, edits, timer, refresh, linkVars, pageVars, faults>>
\* The revision tells whether anything has changed since the document was read.
RefreshAnswer(t) ==
    /\ task[t].step = "answer"
    /\ IF task[t].body = doc.base
       THEN UNCHANGED <<doc, typed, unsent, told>> /\ missed' = (missed \/ task[t].late \/ doc.content # doc.base)
       ELSE Show(t)
    /\ Ends(t, Blank)
    /\ UNCHANGED <<serverVars, edits, timer, refresh, linkVars, pageVars, faults>>

\* A request fails: a PUT and the reading after a refusal end in a toast, and
\* the run goes on; a refresh fails silently.
Fail(t) ==
    /\ task[t].step \notin {"idle", "write"} /\ faults < MaxFaults
    /\ faults' = faults + 1
    /\ Ends(t, IF task[t].step \in {"get", "answer", "start"} THEN Blank
                ELSE [Follow(task[t]) EXCEPT !.late = FALSE, !.sure = FALSE])
    /\ told' = (told \/ task[t].step \notin {"get", "answer", "start"})
    /\ missed' = (missed \/ task[t].step \in {"get", "answer"})
    /\ UNCHANGED <<serverVars, doc, userVars, timerVars, linkVars, pageVars>>

User == \/ \E v \in Values : Type(v) \/ EditNode(v)
        \/ ResetTyped \/ Leave \/ LoadList \/ Open
        \/ \E t \in Tasks : Save(t) \/ Run(t)
System == \/ Notice
          \/ \E t \in Tasks : \/ AutoSave(t) \/ Persist(t) \/ Refresh(t) \/ Reconnect(t)
                              \/ Check(t) \/ Write(t) \/ Read(t) \/ Start(t)
                              \/ Accepted(t) \/ Refused(t) \/ RereadAnswer(t) \/ RefreshAnswer(t)
World == \/ \E c \in Content : ForeignUpdate(c)
         \/ Disconnect
         \/ \E t \in Tasks : Fail(t)

Next == User \/ System \/ World

\* Timers fire, the server answers and the browser reconnects; nobody else is
\* obliged to do anything.
Fairness == WF_vars(System)
Spec == Init /\ [][Next]_vars /\ Fairness

----------------------------------------------------------------------------
TypeOK ==
    /\ stored \in Content
    /\ doc \in [content : Content, base : Content]
    /\ typed \in Values
    /\ timer \in BOOLEAN /\ refresh \in BOOLEAN /\ unsent \in BOOLEAN
    /\ task \in [Tasks -> Task]
    /\ link \in BOOLEAN /\ event \in BOOLEAN
    /\ page \in {"canvas", "list"} /\ item \in Content \cup {NoItem}
    /\ told \in BOOLEAN /\ missed \in BOOLEAN
    /\ edits \in 0 .. MaxEdits /\ foreign \in 0 .. MaxForeign /\ faults \in 0 .. MaxFaults

\* When nothing is under way on a canvas, it shows what is stored and holds
\* its revision, so that the next save is not refused; unless an error toast
\* said otherwise, or the page missed a change: a refresh failed, its answer
\* was overtaken by a newer one, the list handed over an old copy, or the
\* workflow was set back to the text that the page had read before its own
\* save, whose revision the page still holds.
\* And an edit of a widget that no request has carried yet has its timer,
\* whatever was saved, refreshed or run meanwhile; leaving the page does not
\* drop it.
QuietPageIsTrue ==
    /\ unsent => timer
    /\ page = "canvas" /\ Calm /\ ~timer /\ ~told /\ ~missed
        => doc = [content |-> stored, base |-> stored]

\* A run asked for on a quiet page, with or without an edit still in its
\* debounce, is started on what the page showed, unless somebody writes or a
\* request fails in between.
RunUsesWhatIsShown ==
    \A t \in Tasks : task[t].step = "start" /\ task[t].sure => stored = task[t].body

\* The page overwrites only the content it had read, except for a write that
\* fell between the two statements of its own update.
OverwritesOnlyWhatItRead ==
    [][\A t \in Tasks : task[t].step = "write" /\ task'[t].step = "ok"
                          => stored = task[t].base \/ task[t].raced]_vars

\* The answer to a refresh takes away an edit that is still unsent only when
\* the edit was made after the refresh had begun: what was pending then had
\* been flushed.
OnlyLaterEditsGiveWay ==
    [][\A t \in Tasks : task[t].step = "answer" /\ unsent /\ ~unsent' /\ task'[t].step = "idle"
                          => task[t].over]_vars

\* What is written or shown gives way only to what its writer could not know.
OnlyTheUnknownGivesWay == OverwritesOnlyWhatItRead /\ OnlyLaterEditsGiveWay

\* The page's own saves, the events they cause and the refreshes these start
\* come to an end once nobody edits any more.
SettlesDown == <>[](Calm /\ ~timer)
=============================================================================
