----------------------------- MODULE CanvasPage -----------------------------
(***************************************************************************)
(* The page of one workflow (WorkflowCanvasPage.tsx) around the canvas: it *)
(* keeps the URL, the workflow in the store and the selected execution in  *)
(* step with one another by effects, which run after a render and see its  *)
(* values; it starts runs, pauses and cancels executions, and lists them   *)
(* (ExecutionContextBar, executionStore.ts).                               *)
(*                                                                         *)
(* The text of the workflow is WorkflowEdit's, what an execution shows     *)
(* (nodes, log, events) is LiveView's: here an execution is its number.    *)
(***************************************************************************)
EXTENDS Browser, FiniteSets, Sequences, SequencesExt

CONSTANTS
    Pipelines,   \* the workflows
    Owners,      \* of the executions there are at first, by number
    MaxRuns,     \* the number of the last execution there can be
    Home,        \* the workflow that the page is opened on
    Linked,      \* the executions that a link to it may name
    HistoryPage  \* EXECUTION_PAGE_SIZE

Execs == 1 .. MaxRuns
\* What a render sees.
Scenes == [route : Pipelines, url : Execs \cup {None}, workflow : Pipelines \cup {None}, selected : Execs \cup {None},
           row : Execs \cup {None}]

ASSUME CanvasAssumption ==
    /\ MaxRuns \in Nat /\ HistoryPage \in Nat \ {0} /\ None \notin Pipelines \cup Nat \cup Scenes
    /\ Owners \in Seq(Pipelines) /\ Len(Owners) <= MaxRuns
    /\ Home \in Pipelines /\ Linked \subseteq DOMAIN Owners

VARIABLES
    owner,               \* the rows of executions: number -> workflow
    routeWorkflowId, searchParams, \* the URL: /canvas/:id?execution=
    replacing,           \* what setSearchParams has put there, and no render has seen
    behind,              \* the entry of the browser's history next to it
    currentWorkflow, restoring,
    selectedExecutionId, selectedExecution, \* executionStore; the row by its number
    picks,               \* the executions that selectExecution is loading
    rendered,            \* the values of the last render, None before the first
    starting,            \* handleRun
    asking,              \* the execution that the dialog of handleCancel is about
    commands,            \* the requests of handlePauseResume and handleCancel
    tab,
    executions,          \* the list of them: rows, workflow, page, total
    loadingHistory, historyLoads, loadingMore,
    \* History: a load failed; the browser's history led to the workflow of the
    \* selected execution, but to an entry without it, or the URL lost it after
    \* it had been selected again; the list has reason to be different (executions
    \* came, loads overlapped); a run outlived its mode.
    failed, astray, grown, tangled, outlived

canvasHistory == <<failed, astray, grown, tangled, outlived>>
urlVars  == <<routeWorkflowId, searchParams, replacing, behind>>
pickVars == <<selectedExecutionId, selectedExecution, picks>>
listing  == <<executions, loadingHistory, historyLoads, loadingMore>>
workflowVars == <<currentWorkflow, restoring>>
controlVars == <<starting, asking, commands>>
canvasVars == <<owner, urlVars, workflowVars, pickVars, rendered, controlVars, tab, listing, canvasHistory>>

OwnedBy(w) == {e \in Execs : owner[e] = w}
History(w) == Filtered([i \in Execs |-> MaxRuns + 1 - i], OwnedBy(w))
Total(w) == Cardinality(OwnedBy(w))
PageOf(w, page) == LET end == page * HistoryPage
                   IN SubSeq(History(w), end - HistoryPage + 1, IF end < Total(w) THEN end ELSE Total(w))

NoList == [rows |-> <<>>, of |-> None, page |-> 0, total |-> 0]
NotStarting == [step |-> "idle", kind |-> "run", of |-> None, exec |-> None, here |-> TRUE]

EditingTabs  == {"params", "yaml"}
PlaybackTabs == {"logs", "yaml", "nodes"}
Tabs == IF selectedExecutionId = None THEN EditingTabs ELSE PlaybackTabs

\* The page is opened from a link or a reload, with empty stores, or comes
\* back to a workflow after another one has been open.
CanvasInit ==
    /\ owner = [e \in Execs |-> IF e \in DOMAIN Owners THEN Owners[e] ELSE None]
    /\ routeWorkflowId = Home /\ replacing = {}
    /\ IF route = "canvas"
       THEN /\ searchParams \in Linked \cup {None}
            /\ \E w \in Pipelines \ {Home} : \E e \in OwnedBy(w) \cup {None} : behind = [route |-> w, url |-> e]
            \* No link within the client names an execution: with one of its own the page was loaded again.
            /\ currentWorkflow \in IF searchParams \in OwnedBy(Home) THEN {None} ELSE Pipelines \cup {None}
            /\ selectedExecutionId \in IF currentWorkflow = None THEN {None} ELSE OwnedBy(currentWorkflow) \cup {None}
       ELSE /\ searchParams = None /\ behind = [route |-> Home, url |-> None]
            /\ currentWorkflow = None /\ selectedExecutionId = None
    /\ selectedExecution = selectedExecutionId
    /\ executions = IF currentWorkflow = None THEN NoList
                    ELSE [rows |-> PageOf(currentWorkflow, 1), of |-> currentWorkflow, page |-> 1,
                          total |-> Total(currentWorkflow)]
    /\ restoring = None /\ picks = {} /\ rendered = None
    /\ starting = NotStarting /\ asking = None /\ commands = {}
    /\ tab = "params"
    /\ loadingHistory = FALSE /\ historyLoads = {} /\ loadingMore = {}
    /\ failed = FALSE /\ astray = FALSE /\ grown = FALSE /\ tangled = FALSE /\ outlived = FALSE

----------------------------------------------------------------------------
(* A render and its effects, those of the bar first.                       *)

Scene == [route |-> routeWorkflowId, url |-> searchParams, workflow |-> currentWorkflow,
          selected |-> selectedExecutionId, row |-> selectedExecution]
Differs(key) == rendered = None \/ rendered[key] # Scene[key]
OwnerOf(e) == IF e = None THEN None ELSE owner[e]
\* What the stores change is rendered, and its effects run, before anything
\* else happens on the page; a navigation may be rendered after an answer, but
\* before the user can click again.
Steady == rendered # None /\ \A key \in {"workflow", "selected", "row"} : ~Differs(key)
AtPage   == User("canvas") /\ rendered = Scene /\ replacing = {}
AtCanvas == AtPage /\ asking = None
Answered == UNCHANGED bounds /\ (Steady \/ rendered = None)
Failing  == Upset("canvas") /\ (Steady \/ rendered = None)

Bar(shown) == IF shown.workflow = None THEN shown.route ELSE shown.workflow

LoadExecutions(w) ==
    /\ historyLoads' = historyLoads \cup {w} /\ loadingHistory' = TRUE
    /\ tangled' = (historyLoads \ {w} # {} \/ loadingMore # {})
    /\ UNCHANGED <<executions, loadingMore>>
SameList == UNCHANGED <<listing, tangled>>

RestoreWorkflow ==
    restoring' = IF ~Differs("route") /\ ~Differs("workflow") THEN restoring
                 ELSE IF currentWorkflow = routeWorkflowId THEN None ELSE routeWorkflowId

\* What the effect of the URL selects, and what the effect of the workflow
\* takes back, which judges by the row of the render.
\* Mutant: the effect is run again when the selection has changed.
FromUrlAlways == searchParams \notin {None, selectedExecutionId}
FromUrl == Differs("url") /\ searchParams \notin {None, selectedExecutionId}
\* Mutant: the selection is kept whatever its workflow.
ForeignNever == FALSE
Foreign == /\ Differs("route") \/ rendered.row = None \/ OwnerOf(rendered.row) # OwnerOf(selectedExecution)
           /\ selectedExecution # None /\ owner[selectedExecution] # routeWorkflowId
SelectByUrl ==
    /\ selectedExecutionId' = IF Foreign THEN None ELSE IF FromUrl THEN searchParams ELSE selectedExecutionId
    /\ selectedExecution' = IF Foreign \/ FromUrl THEN None ELSE selectedExecution
    /\ picks' = IF FromUrl THEN picks \cup {searchParams} ELSE picks
\* Mutant: the effect takes the selection of its render.
WriteUrlOfTheRender ==
    replacing' = IF Differs("selected") /\ selectedExecutionId # searchParams THEN {selectedExecutionId} ELSE replacing
\* Mutant: leaving playback is not written.
WriteUrlOfPlayback ==
    LET selected == IF FromUrl THEN searchParams ELSE selectedExecutionId
    IN replacing' = IF Differs("selected") /\ selected \notin {searchParams, None} THEN {selected} ELSE replacing
WriteUrl ==
    LET selected == IF FromUrl THEN searchParams ELSE selectedExecutionId
    IN replacing' = IF Differs("selected") /\ selected # searchParams THEN {selected} ELSE replacing
\* The execution of the URL is selected again when the URL is about to lose it:
\* the effect finds nothing to write.
Overtaken == Differs("selected") /\ selectedExecutionId = searchParams /\ None \in replacing
\* Mutant: the tab stays as it is.
FollowNothing == tab' = tab
\* The tab changes with the mode, unless both modes have it.
FollowMode ==
    LET playback == selectedExecutionId # None
    IN tab' = IF rendered # None /\ (rendered.selected # None) = playback THEN tab
              ELSE IF playback /\ tab = "params" THEN "logs"
              ELSE IF ~playback /\ tab \in {"logs", "nodes"} THEN "params" ELSE tab

Render ==
    /\ Request("canvas")
    /\ rendered # Scene
    /\ rendered' = Scene
    /\ IF (rendered = None \/ Bar(rendered) # Bar(Scene)) THEN LoadExecutions(Bar(Scene)) ELSE SameList
    /\ RestoreWorkflow /\ SelectByUrl /\ WriteUrl /\ FollowMode
    /\ outlived' = (outlived /\ tab' = tab) /\ astray' = (astray \/ Overtaken)
    /\ UNCHANGED <<owner, routeWorkflowId, searchParams, behind, currentWorkflow, controlVars, failed, grown>>
Replace ==
    /\ Request("canvas")
    /\ replacing # {}
    /\ searchParams' \in replacing /\ replacing' = {}
    /\ UNCHANGED <<owner, routeWorkflowId, behind, workflowVars, pickVars, rendered, controlVars, tab, listing, canvasHistory>>

RestoreAnswer ==
    /\ Answered
    /\ restoring # None
    /\ currentWorkflow' = restoring /\ restoring' = None
    /\ UNCHANGED <<owner, urlVars, pickVars, rendered, controlVars, tab, listing, canvasHistory>>
RestoreFails ==
    /\ Failing
    /\ restoring # None
    /\ restoring' = None /\ failed' = TRUE
    /\ UNCHANGED <<owner, urlVars, currentWorkflow, pickVars, rendered, controlVars, tab, listing, astray, grown, tangled, outlived>>

----------------------------------------------------------------------------
(* selectExecution.                                                        *)

Select(e) ==
    /\ selectedExecutionId' = e /\ selectedExecution' = None
    /\ picks' = IF e = None THEN picks ELSE picks \cup {e}
\* Mutant: the answer is taken for whatever is selected.
PickAnswerUnguarded(e) ==
    /\ Answered
    /\ e \in picks
    /\ picks' = picks \ {e}
    /\ selectedExecution' = e
    /\ UNCHANGED <<owner, urlVars, workflowVars, selectedExecutionId, rendered, controlVars, tab, listing, canvasHistory>>
\* What the answer of a load is for, if it is still selected.
PickAnswer(e) ==
    /\ Answered
    /\ e \in picks
    /\ picks' = picks \ {e}
    /\ selectedExecution' = IF selectedExecutionId = e THEN e ELSE selectedExecution
    /\ UNCHANGED <<owner, urlVars, workflowVars, selectedExecutionId, rendered, controlVars, tab, listing, canvasHistory>>
PickFails(e) ==
    /\ Failing
    /\ e \in picks
    /\ picks' = picks \ {e} /\ failed' = TRUE
    /\ UNCHANGED <<owner, urlVars, workflowVars, selectedExecutionId, selectedExecution, rendered, controlVars, tab,
                   listing, astray, grown, tangled, outlived>>

HandleSelect(e) ==
    /\ AtCanvas
    /\ e \in ToSet(executions.rows) \ {selectedExecutionId}
    /\ Select(e)
    /\ UNCHANGED <<owner, urlVars, workflowVars, rendered, controlVars, tab, listing, canvasHistory>>
\* The button is disabled while the execution is loading.
HandleExit ==
    /\ AtCanvas
    /\ selectedExecutionId \notin picks \cup {None}
    /\ Select(None)
    /\ UNCHANGED <<owner, urlVars, workflowVars, rendered, controlVars, tab, listing, canvasHistory>>

----------------------------------------------------------------------------
(* The list of executions.                                                 *)

HistoryAnswer(w) ==
    /\ Answered
    /\ w \in historyLoads
    /\ executions' = [rows |-> PageOf(w, 1), of |-> w, page |-> 1, total |-> Total(w)]
    /\ selectedExecution' = IF selectedExecutionId \in ToSet(PageOf(w, 1)) THEN selectedExecutionId ELSE selectedExecution
    /\ historyLoads' = historyLoads \ {w} /\ loadingHistory' = FALSE
    /\ grown' = FALSE
    /\ UNCHANGED <<owner, urlVars, workflowVars, selectedExecutionId, picks, rendered, controlVars, tab, loadingMore,
                   failed, astray, tangled, outlived>>
HistoryFails(w) ==
    /\ Failing
    /\ w \in historyLoads
    /\ historyLoads' = historyLoads \ {w} /\ loadingHistory' = FALSE
    /\ failed' = TRUE
    /\ UNCHANGED <<owner, urlVars, workflowVars, pickVars, rendered, controlVars, tab, executions, loadingMore, astray, grown, tangled, outlived>>

LoadMoreExecutions ==
    /\ AtCanvas
    /\ executions.of # None /\ ~loadingHistory /\ loadingMore = {}
    /\ Len(executions.rows) < executions.total
    /\ loadingMore' = {[of |-> executions.of, page |-> executions.page + 1]}
    /\ tangled' = (tangled \/ historyLoads # {})
    /\ UNCHANGED <<owner, urlVars, workflowVars, pickVars, rendered, controlVars, tab, executions, loadingHistory,
                   historyLoads, failed, astray, grown, outlived>>
\* Mutant: what the list has is listed again.
MoreAnswerDoubling ==
    /\ Answered
    /\ \E more \in loadingMore :
           executions' = [executions EXCEPT !.rows = @ \o PageOf(more.of, more.page), !.page = more.page, !.total = Total(more.of)]
    /\ loadingMore' = {}
    /\ UNCHANGED <<owner, urlVars, workflowVars, pickVars, rendered, controlVars, tab, loadingHistory, historyLoads, canvasHistory>>
MoreAnswer ==
    /\ Answered
    /\ \E more \in loadingMore :
           LET new == Execs \ ToSet(executions.rows)
           IN executions' = [executions EXCEPT !.rows = @ \o Filtered(PageOf(more.of, more.page), new), !.page = more.page,
                                               !.total = Total(more.of)]
    /\ loadingMore' = {}
    /\ UNCHANGED <<owner, urlVars, workflowVars, pickVars, rendered, controlVars, tab, loadingHistory, historyLoads, canvasHistory>>
MoreFails ==
    /\ Failing
    /\ loadingMore # {}
    /\ loadingMore' = {}
    /\ UNCHANGED <<owner, urlVars, workflowVars, pickVars, rendered, controlVars, tab, executions, loadingHistory,
                   historyLoads, canvasHistory>>

----------------------------------------------------------------------------
(* handleRun.  In playback it goes on with the selected execution, if the  *)
(* graph has nodes that it has not run.                                    *)

NextRun == Cardinality({e \in Execs : owner[e] # None}) + 1
Running == IF starting.step = "sent" /\ starting.kind = "run" THEN 1 ELSE 0
Room == NextRun + Running <= MaxRuns
Insert(w) == owner' = [owner EXCEPT ![NextRun] = w] /\ grown' = TRUE

\* The selected execution may have ended, with nodes that it has not run.
ContinueMode == selectedExecution # None
RunEnabled == /\ currentWorkflow # None /\ starting.step = "idle"
              /\ selectedExecutionId # None => ContinueMode

HandleRun ==
    /\ AtCanvas
    /\ selectedExecutionId = None => Room
    /\ RunEnabled
    /\ starting' = [step |-> "sent", kind |-> IF selectedExecutionId = None THEN "run" ELSE "continue", of |-> currentWorkflow,
                    exec |-> selectedExecutionId, here |-> TRUE]
    /\ UNCHANGED <<owner, urlVars, workflowVars, pickVars, rendered, asking, commands, tab, listing, canvasHistory>>

RunOnServer ==
    /\ Answered
    /\ starting.step = "sent"
    /\ \/ /\ starting.kind = "run"
          /\ Insert(starting.of)
          /\ starting' = [starting EXCEPT !.step = "done", !.exec = NextRun]
       \/ /\ starting.kind = "continue"
          /\ starting' = [starting EXCEPT !.step = "done"]
          /\ UNCHANGED <<owner, grown>>
    /\ UNCHANGED <<urlVars, workflowVars, pickVars, rendered, asking, commands, tab, listing, failed, astray, tangled, outlived>>
\* The run is selected, whatever is on screen by now.
RunAnswer ==
    /\ Answered
    /\ starting.step = "done"
    /\ \/ /\ starting.kind = "run"
          /\ Select(starting.exec)
       \/ /\ starting.kind = "continue"
          /\ UNCHANGED pickVars
    /\ starting' = [starting EXCEPT !.step = "answered"]
    /\ UNCHANGED <<owner, urlVars, workflowVars, rendered, asking, commands, tab, listing, canvasHistory>>
\* Mutant: what it waits for is the execution on screen.
ShowLogsOnceShown ==
    /\ UNCHANGED bounds
    /\ starting.step = "answered" /\ starting.exec = selectedExecution
    /\ IF starting.here THEN tab' = "logs" /\ outlived' = (rendered # Scene) ELSE UNCHANGED <<tab, outlived>>
    /\ starting' = NotStarting
    /\ UNCHANGED <<owner, urlVars, workflowVars, pickVars, rendered, asking, commands, listing, failed, astray, grown, tangled>>
\* ... and when it is loaded, the log comes to the front.
ShowLogs ==
    /\ UNCHANGED bounds
    /\ starting.step = "answered" /\ starting.exec \notin picks
    /\ IF starting.here THEN tab' = "logs" /\ outlived' = (selectedExecutionId = None \/ rendered # Scene) ELSE UNCHANGED <<tab, outlived>>
    /\ starting' = NotStarting
    /\ UNCHANGED <<owner, urlVars, workflowVars, pickVars, rendered, asking, commands, listing, failed, astray, grown, tangled>>
RunFails ==
    /\ Failing
    /\ starting.step \in {"sent", "done"}
    /\ starting' = NotStarting
    /\ UNCHANGED <<owner, urlVars, workflowVars, pickVars, rendered, asking, commands, tab, listing, canvasHistory>>

(* Pause, resume and cancel, of the selected execution if it is under way; *)
(* what they do to it is told by Execution and LiveView.                   *)

Pending(kind) == \E c \in commands : c.kind = kind /\ c.here
Command(kind, e, shown) == [kind |-> kind, exec |-> e, here |-> TRUE, shown |-> shown]

HandlePauseResume ==
    /\ AtCanvas
    /\ selectedExecution # None /\ ~Pending("pause")
    /\ commands' = commands \cup {Command("pause", selectedExecutionId, selectedExecutionId)}
    /\ UNCHANGED <<owner, urlVars, workflowVars, pickVars, rendered, starting, asking, tab, listing, canvasHistory>>
HandleCancel ==
    /\ AtCanvas
    /\ selectedExecution # None /\ ~Pending("cancel")
    /\ asking' = selectedExecutionId
    /\ UNCHANGED <<owner, urlVars, workflowVars, pickVars, rendered, starting, commands, tab, listing, canvasHistory>>
\* The dialog stays while the browser's history changes the page below it.
\* Mutant: what is cancelled is what is selected by then.
CancelTheSelected ==
    /\ Request("canvas") /\ rendered = Scene /\ replacing = {}
    /\ asking # None
    /\ commands' \in {commands, commands \cup {Command("cancel", selectedExecutionId, asking)}}
    /\ asking' = None
    /\ UNCHANGED <<owner, urlVars, workflowVars, pickVars, rendered, starting, tab, listing, canvasHistory>>
AnswerDialog ==
    /\ Request("canvas") /\ rendered = Scene /\ replacing = {}
    /\ asking # None
    /\ commands' \in {commands, commands \cup {Command("cancel", asking, asking)}}
    /\ asking' = None
    /\ UNCHANGED <<owner, urlVars, workflowVars, pickVars, rendered, starting, tab, listing, canvasHistory>>
CommandAnswer(c) ==
    /\ UNCHANGED bounds
    /\ commands' = commands \ {c}
    /\ UNCHANGED <<owner, urlVars, workflowVars, pickVars, rendered, starting, asking, tab, listing, canvasHistory>>

----------------------------------------------------------------------------
(* Layout and navigation; the runs of others.                              *)

OthersRun ==
    /\ Upset("canvas")
    /\ Room /\ Insert(routeWorkflowId)
    /\ UNCHANGED <<urlVars, workflowVars, pickVars, rendered, controlVars, tab, listing, failed, astray, tangled, outlived>>

SetTab(key) ==
    /\ AtCanvas
    /\ key \in Tabs \ {tab}
    /\ tab' = key /\ outlived' = FALSE
    /\ UNCHANGED <<owner, urlVars, workflowVars, pickVars, rendered, controlVars, listing, failed, astray, grown, tangled>>
\* The browser's own history leads to another workflow, on the same page.
GoBack ==
    /\ AtPage
    /\ routeWorkflowId' = behind.route /\ searchParams' = behind.url
    /\ behind' = [route |-> routeWorkflowId, url |-> searchParams]
    /\ astray' = (behind.url = None /\ selectedExecutionId # None /\ OwnerOf(selectedExecutionId) = behind.route)
    /\ UNCHANGED <<owner, replacing, workflowVars, pickVars, rendered, controlVars, tab, listing, failed, grown, tangled, outlived>>

CanvasLeave ==
    /\ searchParams' \in IF replacing = {} THEN {searchParams} ELSE replacing
    /\ replacing' = {} /\ restoring' = None /\ rendered' = None
    /\ starting' = [starting EXCEPT !.here = FALSE]
    /\ asking' = None /\ commands' = {[c EXCEPT !.here = FALSE] : c \in commands}
    /\ tab' = "params" /\ outlived' = FALSE
    /\ UNCHANGED <<owner, routeWorkflowId, behind, currentWorkflow, pickVars, listing, failed, astray, grown, tangled>>
CanvasMount == UNCHANGED canvasVars

CanvasUser == \/ \E e \in Execs : HandleSelect(e)
              \/ HandleExit \/ LoadMoreExecutions
              \/ HandleRun \/ HandlePauseResume \/ HandleCancel \/ AnswerDialog
              \/ \E key \in EditingTabs \cup PlaybackTabs : SetTab(key)
              \/ GoBack
CanvasSystem == \/ Render \/ Replace \/ RestoreAnswer
                \/ \E e \in Execs : PickAnswer(e)
                \/ \E w \in Pipelines : HistoryAnswer(w)
                \/ MoreAnswer \/ RunOnServer \/ RunAnswer \/ ShowLogs
                \/ \E c \in commands : CommandAnswer(c)
CanvasUpsets == \/ RestoreFails \/ MoreFails \/ RunFails
                \/ \E e \in Execs : PickFails(e)
                \/ \E w \in Pipelines : HistoryFails(w)
                \/ OthersRun
CanvasNext == CanvasUser \/ CanvasSystem \/ CanvasUpsets

----------------------------------------------------------------------------
CanvasTypeOK ==
    /\ owner \in [Execs -> Pipelines \cup {None}]
    /\ searchParams \in Execs \cup {None} /\ replacing \subseteq Execs \cup {None}
    /\ selectedExecution \in {None, selectedExecutionId}
    /\ picks \subseteq Execs /\ tab \in EditingTabs \cup PlaybackTabs
    /\ loadingHistory => historyLoads # {}

CanvasAtRest ==
    /\ route = "canvas" /\ rendered = Scene /\ replacing = {}
    /\ restoring = None /\ picks = {} /\ starting.step = "idle"
ListAtRest == historyLoads = {} /\ loadingMore = {}

\* A page at rest shows the workflow of its URL, and of its executions the one
\* that the URL names, if any; never one of another workflow.  However
\* navigation, selections, answers and effects followed on one another.
UrlTellsThePage ==
    CanvasAtRest /\ ~failed /\ ~astray =>
        /\ currentWorkflow = routeWorkflowId
        /\ searchParams = selectedExecutionId /\ selectedExecution = selectedExecutionId
        /\ selectedExecutionId # None => owner[selectedExecutionId] = routeWorkflowId

\* The tab in front is one of the mode's, unless a run or the continuation of
\* an execution was answered when the page had left playback.
TabIsOfTheMode == CanvasAtRest /\ ~outlived => tab \in Tabs

\* The list is the beginning of the history of the workflow on screen, no
\* execution twice; unless loads of two workflows overlapped, or a load failed
\* or an execution has begun since the first page was loaded.
HistoryIsAPrefix ==
    /\ IsInjective(executions.rows)
    /\ CanvasAtRest /\ ListAtRest /\ ~failed /\ ~grown /\ ~tangled =>
           /\ executions.of = routeWorkflowId
           /\ IsPrefix(executions.rows, History(routeWorkflowId)) /\ executions.total = Total(routeWorkflowId)
           /\ Len(executions.rows) = IF executions.page * HistoryPage < executions.total THEN executions.page * HistoryPage
                                     ELSE executions.total

\* A pause, resume or cancel is for the execution that was on screen when its
\* button was clicked, whatever the dialog has been left open over.
CommandsAreMeant == \A c \in commands : c.exec = c.shown

CanvasAgrees == CommandsAreMeant /\ UrlTellsThePage /\ TabIsOfTheMode /\ HistoryIsAPrefix
=============================================================================
