---------------------------- MODULE ExecutorPages ----------------------------
(***************************************************************************)
(* The executors' page (ExecutorConfigPage.tsx, ExecutorForm.tsx) and its  *)
(* store (executorStore.ts): the list is loaded on every visit, after every*)
(* operation and upon every event of an executor; loads overtake each      *)
(* other.  The form is filled again whenever the executor that it shows is *)
(* another object.                                                         *)
(*                                                                         *)
(* The service's operations are atomic here; ExecutorRegistry splits them. *)
(* A configuration is one value; executor 1 is the local one.              *)
(***************************************************************************)
EXTENDS Browser, Sequences, SequencesExt, FiniteSets

CONSTANTS
    MaxExecutors,  \* the ids ever given
    Configs,       \* the configurations
    Plain,         \* the configuration of those that are there already
    Reloads        \* the loads of the list under way at a time, the first on opening the page is 1

ASSUME ConfigAssumption ==
    /\ MaxExecutors \in Nat \ {0, 1} /\ Plain \in Configs /\ 1 \in Reloads
    /\ None \notin [config : Configs, disabled : BOOLEAN] \cup 1 .. MaxExecutors

VARIABLES
    registry, fallback,      \* the rows of executors; the default one
    executorEvent,           \* an event executor.* is on its way to the page
    executors,               \* the store's list
    reload,                  \* its loads
    selectedId, creating, form,
    operation,               \* under way, and whether the page that asked for it is still here
    testing, testResult,
    question,                \* the dialog: disable or delete, and whom
    stale,                   \* history: the list may be older than the registry
    nextExecutor

Executors == 1 .. MaxExecutors
Row == [config : Configs, disabled : BOOLEAN]
Shown == [id : Executors, config : Configs, disabled : BOOLEAN, isDefault : BOOLEAN]
serverSide == <<registry, fallback, executorEvent, nextExecutor>>
formVars   == <<selectedId, creating, form>>
testingVars == <<testing, testResult>>
executorVars == <<serverSide, executors, reload, formVars, operation, testingVars, question, stale>>

NoReload == [step |-> "idle", rows |-> <<>>, mine |-> FALSE, old |-> FALSE]
NoOp == [step |-> "idle", kind |-> "none", id |-> 0, config |-> Plain, raced |-> FALSE, here |-> TRUE]

\* List: the default first, then the local one, then by name.
Listed(rows, default) ==
    LET there == {i \in Executors : rows[i] # None}
        byName == [i \in Executors |-> i]
        order == Filtered(byName, there \cap {default}) \o Filtered(byName, there \ {default})
    IN [k \in DOMAIN order |-> [id |-> order[k], config |-> rows[order[k]].config,
                                disabled |-> rows[order[k]].disabled, isDefault |-> order[k] = default]]
ListExecutors == Listed(registry, fallback)

\* The executor that page and form show: the selected one, or else the first.
Selected(rows, id, new) ==
    IF new \/ rows = <<>> THEN None
    ELSE IF \E k \in DOMAIN rows : rows[k].id = id THEN (CHOOSE r \in ToSet(rows) : r.id = id)
    ELSE rows[1]
Current == Selected(executors, selectedId, creating)
ToFormState(executor) == IF executor = None THEN [of |-> 0, config |-> Plain]
                                            ELSE [of |-> executor.id, config |-> executor.config]
\* Mutant: the form is filled when another executor is selected.
FillUponSelection(rows, id, new) ==
    form' = IF id # selectedId \/ new # creating THEN ToFormState(Selected(rows, id, new)) ELSE form
\* The effect of ExecutorForm: a list that was loaded again has other objects;
\* the form of a new executor stays.
Fill(rows, id, new) ==
    form' = IF new /\ creating THEN form ELSE ToFormState(Selected(rows, id, new))

ExecutorInit ==
    /\ registry = [i \in Executors |-> IF i <= 2 THEN [config |-> Plain, disabled |-> FALSE] ELSE None]
    /\ fallback = 1 /\ nextExecutor = 3 /\ executorEvent = FALSE
    /\ executors = <<>>
    /\ reload = [l \in Reloads |-> IF l = 1 /\ route = "executors" THEN [NoReload EXCEPT !.step = "sent"] ELSE NoReload]
    /\ selectedId = 0 /\ creating = FALSE /\ form = [of |-> 0, config |-> Plain]
    /\ operation = NoOp /\ testing = 0 /\ testResult = None /\ question = None
    /\ stale = (route # "executors")

AtPage == User("executors") /\ question = None
Answering == UNCHANGED bounds
OnScreen  == Request("executors")
Saving == operation.step # "idle" /\ operation.here

----------------------------------------------------------------------------
(* Loads of the list.                                                      *)

\* What the loads bring whose answer is on its way is old by now.
Outdated == [k \in Reloads |-> [reload[k] EXCEPT !.old = reload[k].step = "answer"]]
LoadExecutors(own) ==
    /\ Free(reload)
    /\ reload' = [reload EXCEPT ![Slot(reload)] = [NoReload EXCEPT !.step = "sent", !.mine = own]]

ReadRegistry(l) ==
    /\ Answering
    /\ reload[l].step = "sent"
    /\ reload' = [reload EXCEPT ![l].step = "answer", ![l].rows = ListExecutors, ![l].old = FALSE]
    /\ UNCHANGED <<serverSide, executors, formVars, operation, testingVars, question, stale>>

\* What runOp does once the operation and its load are over, for its own page.
Finish(rows, id, new) ==
    /\ operation' = NoOp
    /\ IF operation.here THEN creating' = FALSE /\ testResult' = None /\ Fill(rows, id, FALSE)
       ELSE Fill(rows, id, new) /\ UNCHANGED <<creating, testResult>>
ReloadAnswer(l) ==
    /\ Answering
    /\ reload[l].step = "answer"
    /\ executors' = reload[l].rows
    /\ reload' = [Outdated EXCEPT ![l] = NoReload]
    \* old: another answer has come since it was read, or was to come and failed.
    /\ stale' = reload[l].old
    /\ IF reload[l].mine THEN Finish(executors', selectedId, creating)
       ELSE /\ Fill(executors', selectedId, creating)
            /\ UNCHANGED <<operation, creating, testResult>>
    /\ UNCHANGED <<serverSide, selectedId, testing, question>>
\* Mutant: runOp waits for a list.
ReloadFailsQuietly(l) ==
    /\ Upset("executors")
    /\ reload[l].step # "idle"
    /\ reload' = [Outdated EXCEPT ![l] = NoReload]
    /\ stale' = TRUE
    /\ UNCHANGED <<serverSide, executors, formVars, operation, testingVars, question>>
ReloadFails(l) ==
    /\ Upset("executors")
    /\ reload[l].step # "idle"
    /\ reload' = [Outdated EXCEPT ![l] = NoReload]
    /\ stale' = TRUE
    /\ IF reload[l].mine THEN Finish(executors, selectedId, creating) ELSE UNCHANGED <<operation, creating, testResult, form>>
    /\ UNCHANGED <<serverSide, executors, selectedId, testing, question>>

\* Mutant: not while something is being saved.
NoticeUnlessSaving ==
    /\ OnScreen
    /\ executorEvent
    /\ executorEvent' = FALSE
    /\ IF Saving THEN UNCHANGED reload ELSE LoadExecutors(FALSE)
    /\ UNCHANGED <<registry, fallback, nextExecutor, executors, formVars, operation, testingVars, question, stale>>
NoticeExecutors ==
    /\ OnScreen
    /\ executorEvent
    /\ executorEvent' = FALSE
    /\ LoadExecutors(FALSE)
    /\ UNCHANGED <<registry, fallback, nextExecutor, executors, formVars, operation, testingVars, question, stale>>
\* The stream breaks; the page loads nothing when it is back.
EventLost ==
    /\ Upset("executors")
    /\ executorEvent
    /\ executorEvent' = FALSE /\ stale' = TRUE /\ reload' = Outdated
    /\ UNCHANGED <<registry, fallback, nextExecutor, executors, formVars, operation, testingVars, question>>

----------------------------------------------------------------------------
(* The list and the form.                                                  *)

SelectExecutor(i) ==
    /\ AtPage
    /\ \E k \in DOMAIN executors : executors[k].id = i
    /\ selectedId' = i /\ creating' = FALSE /\ testResult' = None
    /\ Fill(executors, i, FALSE)
    /\ UNCHANGED <<serverSide, executors, reload, operation, testing, question, stale>>
SetCreating(new) ==
    /\ AtPage
    /\ new # creating
    /\ creating' = new
    /\ Fill(executors, selectedId, new)
    /\ UNCHANGED <<serverSide, executors, reload, selectedId, operation, testingVars, question, stale>>
EditForm(c) ==
    /\ AtPage
    /\ c # form.config /\ (creating \/ Current # None)
    /\ form' = [form EXCEPT !.config = c]
    /\ UNCHANGED <<serverSide, executors, reload, selectedId, creating, operation, testingVars, question, stale>>

----------------------------------------------------------------------------
(* Operations: runOp.  One at a time; a page that was left with one under  *)
(* way, and visited again, waits for it here before it asks for the next.  *)

RunOp(kind, id, c) == operation' = [NoOp EXCEPT !.step = "sent", !.kind = kind, !.id = id, !.config = c]
HandleSubmit ==
    /\ AtPage
    /\ operation.step = "idle"
    /\ IF creating THEN RunOp("create", 0, form.config)
       ELSE Current # None /\ RunOp("update", Current.id, form.config)
    /\ UNCHANGED <<serverSide, executors, reload, formVars, testingVars, question, stale>>
SetDefault ==
    /\ AtPage
    /\ operation.step = "idle" /\ Current # None /\ ~Current.isDefault
    /\ RunOp("default", Current.id, Plain)
    /\ UNCHANGED <<serverSide, executors, reload, formVars, testingVars, question, stale>>
Enable ==
    /\ AtPage
    /\ operation.step = "idle" /\ Current # None /\ Current.id # 1 /\ ~Current.isDefault /\ Current.disabled
    /\ RunOp("enable", Current.id, Plain)
    /\ UNCHANGED <<serverSide, executors, reload, formVars, testingVars, question, stale>>
AskFirst(kind) ==
    /\ AtPage
    /\ operation.step = "idle" /\ Current # None /\ Current.id # 1 /\ ~Current.isDefault /\ (kind = "disable" => ~Current.disabled)
    /\ IF NeedsDialog(TRUE) THEN question' = [kind |-> kind, id |-> Current.id] /\ UNCHANGED operation
                            ELSE RunOp(kind, Current.id, Plain) /\ UNCHANGED question
    /\ UNCHANGED <<serverSide, executors, reload, formVars, testingVars, stale>>
AnswerQuestion(ok) ==
    /\ OnScreen
    /\ question # None /\ operation.step = "idle"
    /\ question' = None
    /\ IF ok THEN RunOp(question.kind, question.id, Plain) ELSE UNCHANGED operation
    /\ UNCHANGED <<serverSide, executors, reload, formVars, testingVars, stale>>

\* The service: None when it refuses.
Changed(kind, i, c) ==
    IF kind = "create"
    THEN IF nextExecutor <= MaxExecutors
         THEN [rows |-> [registry EXCEPT ![nextExecutor] = [config |-> c, disabled |-> FALSE]], default |-> fallback]
         ELSE None
    ELSE IF registry[i] = None THEN None
    ELSE CASE kind = "update"  -> [rows |-> [registry EXCEPT ![i].config = c], default |-> fallback]
           [] kind = "default" -> IF registry[i].disabled THEN None ELSE [rows |-> registry, default |-> i]
           [] kind = "enable"  -> [rows |-> [registry EXCEPT ![i].disabled = FALSE], default |-> fallback]
           [] kind = "disable" -> IF i = fallback THEN None ELSE [rows |-> [registry EXCEPT ![i].disabled = TRUE], default |-> fallback]
           [] kind = "remove"  -> IF i = fallback THEN None ELSE [rows |-> [registry EXCEPT ![i] = None], default |-> fallback]
Change(kind, i, c) ==
    LET after == Changed(kind, i, c)
    IN /\ after # None
       /\ registry' = after.rows /\ fallback' = after.default
       /\ nextExecutor' = IF kind = "create" THEN nextExecutor + 1 ELSE nextExecutor
       /\ executorEvent' = (route = "executors")
\* Mutant: the load does not wait for the operation.
OpSentWithReload ==
    /\ Answering
    /\ operation.step = "sent"
    /\ LoadExecutors(TRUE)
    /\ operation' = [operation EXCEPT !.step = "reloading"]
    /\ \/ Change(operation.kind, operation.id, operation.config)
       \/ UNCHANGED serverSide
    /\ UNCHANGED <<executors, formVars, testingVars, question, stale>>
OpOnServer ==
    /\ Answering
    /\ operation.step = "sent"
    /\ \/ /\ Change(operation.kind, operation.id, operation.config)
          /\ operation' = [operation EXCEPT !.step = "done", !.raced = FALSE, !.id = IF operation.kind = "create" THEN nextExecutor ELSE operation.id]
       \/ /\ Changed(operation.kind, operation.id, operation.config) = None
          /\ operation' = [operation EXCEPT !.step = "refused"]
          /\ UNCHANGED serverSide
    /\ UNCHANGED <<executors, reload, formVars, testingVars, question, stale>>
\* Mutant: a refusal is not taken for an end.
OpAnswerIfDone ==
    /\ Answering
    /\ operation.step = "done"
    /\ LoadExecutors(TRUE)
    /\ operation' = [operation EXCEPT !.step = "reloading"]
    /\ UNCHANGED <<serverSide, executors, formVars, testingVars, question, stale>>
OpAnswer ==
    /\ Answering
    /\ \/ /\ operation.step = "done"
          /\ LoadExecutors(TRUE)
          /\ operation' = [operation EXCEPT !.step = "reloading"]
       \/ /\ operation.step = "refused"
          /\ operation' = NoOp /\ UNCHANGED reload
    /\ UNCHANGED <<serverSide, executors, formVars, testingVars, question, stale>>
OpFails ==
    /\ Upset("executors")
    /\ operation.step \in {"sent", "done"}
    /\ operation' = NoOp
    /\ UNCHANGED <<serverSide, executors, reload, formVars, testingVars, question, stale>>

RunTest ==
    /\ AtPage
    /\ Current # None /\ Current.id # 1 /\ ~Saving /\ testing = 0
    /\ testing' = Current.id /\ testResult' = None
    /\ UNCHANGED <<serverSide, executors, reload, formVars, operation, question, stale>>
TestDone ==
    /\ OnScreen
    /\ testing # 0
    /\ testResult' = testing /\ testing' = 0
    /\ UNCHANGED <<serverSide, executors, reload, formVars, operation, question, stale>>

OthersChange(kind, i, c) ==
    /\ Upset("executors")
    /\ Change(kind, i, c) /\ registry' # registry
    /\ operation' = IF operation.step = "idle" THEN operation ELSE [operation EXCEPT !.raced = TRUE]
    /\ UNCHANGED <<executors, reload, formVars, testingVars, question, stale>>

\* The list and its loads are the store's, and runOp goes on; the rest goes
\* with the page.
ExecutorsLeave ==
    /\ selectedId' = 0 /\ creating' = FALSE
    /\ form' = ToFormState(Selected(executors, 0, FALSE))
    /\ operation' = IF operation.step = "idle" THEN operation ELSE [operation EXCEPT !.here = FALSE]
    /\ testing' = 0 /\ testResult' = None /\ question' = None
    /\ executorEvent' = FALSE
    /\ UNCHANGED <<registry, fallback, nextExecutor, executors, reload, stale>>
ExecutorsMount ==
    /\ LoadExecutors(FALSE)
    /\ UNCHANGED <<serverSide, executors, formVars, operation, testingVars, question, stale>>

ExecutorUser == \/ \E i \in Executors : SelectExecutor(i)
                \/ \E new \in BOOLEAN : SetCreating(new) \/ AnswerQuestion(new)
                \/ \E c \in Configs : EditForm(c)
                \/ HandleSubmit \/ SetDefault \/ Enable \/ RunTest
                \/ \E kind \in {"disable", "remove"} : AskFirst(kind)
ExecutorSystem == \/ \E l \in Reloads : ReadRegistry(l) \/ ReloadAnswer(l)
                  \/ NoticeExecutors \/ OpOnServer \/ OpAnswer \/ TestDone
ExecutorUpsets == \/ \E l \in Reloads : ReloadFails(l)
                  \/ EventLost \/ OpFails
                  \/ \E i \in Executors, c \in Configs : OthersChange("update", i, c)
                  \/ \E i \in Executors, kind \in {"disable", "remove"} : OthersChange(kind, i, Plain)
ExecutorNext == ExecutorUser \/ ExecutorSystem \/ ExecutorUpsets

----------------------------------------------------------------------------
ExecutorTypeOK ==
    /\ registry \in [Executors -> Row \cup {None}] /\ registry[fallback] # None
    /\ ToSet(executors) \subseteq Shown
    /\ operation.step \in {"idle", "sent", "done", "refused", "reloading"}
    /\ selectedId \in 0 .. MaxExecutors /\ testResult \in Executors \cup {None}
    /\ (operation.step = "reloading") = (\E l \in Reloads : reload[l].mine)

\* Once events, loads and operations are over, the page lists the registry;
\* unless its last load was overtaken by a later one or failed, or the event
\* of a change was lost.
PageListsTheRegistry ==
    route = "executors" /\ ~executorEvent /\ ~Saving /\ ~stale /\ (\A l \in Reloads : reload[l].step = "idle")
        => executors = ListExecutors

\* The form is always that of the executor on show: a save never writes what
\* was typed for one executor into another, although the list, its order and
\* with it the executor on show change under the user's hands.
FormIsOfTheShown == form.of = (IF Current = None THEN 0 ELSE Current.id)

\* The list is the registry, and the form is that of the executor on show.
RegistryAgrees == PageListsTheRegistry /\ FormIsOfTheShown

\* When an operation is over and its load has come back, the list has it, in
\* whatever order the other loads came back; unless somebody changed the
\* registry after it.
OwnWriteIsSeen ==
    [][operation.step = "reloading" /\ operation'.step = "idle" /\ executors' # executors /\ ~operation.raced =>
         LET now == Selected(executors', operation.id, FALSE)
         IN CASE operation.kind = "remove" -> \A k \in DOMAIN executors' : executors'[k].id # operation.id
              [] operation.kind \in {"create", "update"} -> now.id = operation.id /\ now.config = operation.config
              [] operation.kind = "default" -> now.id = operation.id /\ now.isDefault
              [] operation.kind \in {"enable", "disable"} -> now.id = operation.id /\ now.disabled = (operation.kind = "disable")
      ]_executorVars
=============================================================================
