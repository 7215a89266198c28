---------------------------- MODULE WorkflowList ----------------------------
(***************************************************************************)
(* The list of workflows (WorkflowListPage.tsx): pages loaded by scrolling,*)
(* filters, deletion, and the numbers on the cards, which follow the event *)
(* stream between loads.  The server counts, then selects (WorkflowService.*)
(* List), and its executions change their rows before they say so.         *)
(*                                                                         *)
(* Searching stands for every filter on what a workflow is (text, status,  *)
(* node), never for the one on what it has done (exec_status).             *)
(***************************************************************************)
EXTENDS Browser, Sequences, SequencesExt, FiniteSets

CONSTANTS
    Workflows,   \* their ids
    Created,     \* those that are there already, the oldest first
    Sought,      \* the workflows that the text, status and node filters select
    Runs,        \* the executions there may ever be
    Removals,    \* the deletions under way at a time
    PageSize

ASSUME WorkflowsAssumption ==
    /\ Workflows \subseteq Nat /\ None \notin Workflows \cup [search : BOOLEAN, never : BOOLEAN] /\ PageSize \in Nat \ {0} /\ IsFiniteSet(Runs)
    /\ Created \in Seq(Workflows) /\ \A i, j \in DOMAIN Created : i < j => Created[i] < Created[j]

VARIABLES
    stored,      \* the rows of workflows, the newest first
    newest,      \* the last one that was created; ids are never used again
    run,         \* the executions: whose, row, and how far it is with its events
    stream,      \* events on their way to the page
    searchInput, filters, workflows, total, hasMore, page,
    load,        \* loadingRef and the request it stands for
    asked,       \* the workflow that the open dialog names
    removal,     \* the DELETE requests
    \* History: the filters of the list on screen, None of a mixture; the collection has changed
    \* since the first page was counted; the page has deleted a card of it;
    \* the cards whose numbers are of two times; the numbers that the answer
    \* under way carries of two times.
    listed, shifted, cut, unsure, doubt

collection == <<stored, newest>>
rowVars  == <<collection, run>>
cardVars == <<searchInput, filters, workflows, total, hasMore, page, asked, listed>>
doubtVars == <<shifted, cut, unsure, doubt>>
listVars == <<rowVars, stream, cardVars, load, removal, doubtVars>>

Stats == [total : Nat, running : Nat, success : Nat, failed : Nat]
Filters == [search : BOOLEAN, never : BOOLEAN]

Having(w, rows) == Cardinality({r \in Runs : run[r].of = w /\ run[r].row \in rows})
ExecutionStats(w) == [total |-> Having(w, {"running", "success", "failed"}), running |-> Having(w, {"running"}),
                      success |-> Having(w, {"success"}), failed |-> Having(w, {"failed"})]
Selects(f, w) == (f.search => w \in Sought) /\ (f.never => ExecutionStats(w).total = 0)
Matching(f) == Filtered(stored, {w \in Workflows : Selects(f, w)})
Card(w) == [id |-> w, stats |-> ExecutionStats(w)]
Ids(cards) == [i \in DOMAIN cards |-> cards[i].id]
But(cards, ids) == Filtered(cards, {c \in ToSet(cards) : c.id \notin ids})

\* What the page has not been told yet of the executions of w.
Untold(w) == \/ \E r \in Runs : run[r].of = w /\ run[r].stage \notin {"new", "started", "over"}
             \/ \E i \in DOMAIN stream : stream[i].of = w

NoLoad == [step |-> "idle", page |-> 1, append |-> FALSE, filters |-> [search |-> FALSE, never |-> FALSE],
           total |-> 0, items |-> <<>>]
LoadOf(n, append, f) == [NoLoad EXCEPT !.step = "count", !.page = n, !.append = append, !.filters = f]

NoFilter == [search |-> FALSE, never |-> FALSE]
ListInit ==
    /\ stored = Reverse(Created) /\ newest = IF Created = <<>> THEN 0 ELSE Last(Created)
    /\ run = [r \in Runs |-> [of |-> None, row |-> "none", stage |-> "new"]]
    /\ stream = <<>>
    /\ removal = [k \in Removals |-> [step |-> "idle", of |-> None]]
    /\ searchInput = FALSE /\ filters = NoFilter /\ workflows = <<>> /\ total = 0 /\ hasMore = TRUE /\ page = 0
    /\ load = IF route = "workflows" THEN LoadOf(1, FALSE, NoFilter) ELSE NoLoad
    /\ asked = None /\ listed = NoFilter
    /\ shifted = FALSE /\ cut = FALSE /\ unsure = {} /\ doubt = {}

Click == User("workflows") /\ asked = None
ListRequests == Request("workflows")

----------------------------------------------------------------------------
(* Loads.                                                                  *)

LoadPage(n, append, f) == load' = IF load.step = "idle" THEN LoadOf(n, append, f) ELSE load

\* The select boxes change the filters at once, the text 300 ms later.
ApplyFilters(f) ==
    /\ filters' = f
    /\ LoadPage(1, FALSE, f)
    /\ UNCHANGED <<rowVars, stream, workflows, total, hasMore, page, asked, listed, removal, doubtVars>>
SelectFilter ==
    /\ Click
    /\ ApplyFilters([filters EXCEPT !.never = ~@])
    /\ UNCHANGED searchInput
Search ==
    /\ Click
    /\ searchInput' = ~searchInput
    /\ UNCHANGED <<rowVars, stream, filters, workflows, total, hasMore, page, asked, listed, load, removal, doubtVars>>
SearchTimer ==
    /\ ListRequests
    /\ searchInput # filters.search
    /\ ApplyFilters([filters EXCEPT !.search = searchInput])
    /\ UNCHANGED searchInput

HandleScroll ==
    /\ Click
    /\ hasMore /\ load.step = "idle"
    /\ LoadPage(page + 1, TRUE, filters)
    /\ UNCHANGED <<rowVars, stream, cardVars, removal, doubtVars>>

CountRows ==
    /\ ListRequests
    /\ load.step = "count"
    /\ load' = [load EXCEPT !.step = "select", !.total = Len(Matching(load.filters))]
    /\ IF load.append THEN UNCHANGED <<shifted, cut>>
       ELSE shifted' = (\E k \in Removals : removal[k].step = "done") /\ cut' = FALSE
    /\ UNCHANGED <<rowVars, stream, cardVars, removal, unsure, doubt>>
SelectRows ==
    /\ ListRequests
    /\ load.step = "select"
    /\ LET rows == Matching(load.filters)
           last == IF load.page * PageSize < Len(rows) THEN load.page * PageSize ELSE Len(rows)
           part == SubSeq(rows, (load.page - 1) * PageSize + 1, last)
       IN /\ load' = [load EXCEPT !.step = "answer", !.items = [i \in DOMAIN part |-> Card(part[i])]]
          /\ doubt' = {w \in ToSet(part) : Untold(w)}
    /\ shifted' = (shifted \/ (load.append /\ cut))
    /\ UNCHANGED <<rowVars, stream, cardVars, removal, cut, unsure>>

\* Mutants: the pages are put together without a look at what is there; the
\* last page is not known for the last one.
ListAnswerDoubling ==
    /\ ListRequests
    /\ load.step = "answer"
    /\ page' = load.page /\ total' = load.total /\ hasMore' = (load.page * PageSize < load.total)
    /\ workflows' = IF load.append THEN workflows \o load.items ELSE load.items
    /\ unsure' = (IF load.append THEN unsure ELSE {}) \cup doubt
    /\ listed' = load.filters
    /\ load' = NoLoad /\ doubt' = {}
    /\ UNCHANGED <<rowVars, stream, searchInput, filters, asked, removal, shifted, cut>>
ListAnswerOneMore ==
    /\ ListRequests
    /\ load.step = "answer"
    /\ page' = load.page /\ total' = load.total /\ hasMore' = (load.page * PageSize <= load.total)
    /\ workflows' = IF load.append THEN workflows \o load.items ELSE load.items
    /\ unsure' = (IF load.append THEN unsure ELSE {}) \cup doubt
    /\ listed' = load.filters
    /\ load' = NoLoad /\ doubt' = {}
    /\ UNCHANGED <<rowVars, stream, searchInput, filters, asked, removal, shifted, cut>>
ListAnswer ==
    /\ ListRequests
    /\ load.step = "answer"
    /\ page' = load.page /\ total' = load.total /\ hasMore' = (load.page * PageSize < load.total)
    /\ LET there == ToSet(Ids(workflows))
       IN IF load.append
          THEN /\ workflows' = workflows \o But(load.items, there)
               /\ unsure' = unsure \cup (doubt \ there)
               /\ listed' = IF load.filters = listed THEN listed ELSE None
          ELSE /\ workflows' = load.items
               /\ unsure' = doubt
               /\ listed' = load.filters
    /\ load' = NoLoad /\ doubt' = {}
    /\ UNCHANGED <<rowVars, stream, searchInput, filters, asked, removal, shifted, cut>>

ListLoadFails ==
    /\ Upset("workflows")
    /\ load.step \in {"count", "select", "answer"}
    /\ load' = NoLoad /\ doubt' = {}
    /\ shifted' = (shifted \/ ~load.append)
    /\ UNCHANGED <<rowVars, stream, cardVars, removal, cut, unsure>>

----------------------------------------------------------------------------
(* Deletion.                                                               *)

AskToDelete(w) ==
    /\ Click
    /\ w \in ToSet(Ids(workflows)) /\ NeedsDialog(TRUE)
    /\ asked' = w
    /\ UNCHANGED <<rowVars, stream, searchInput, filters, workflows, total, hasMore, page, listed, load, removal, doubtVars>>
SendDelete(w) ==
    /\ Free(removal)
    /\ removal' = [removal EXCEPT ![Slot(removal)] = [step |-> "sent", of |-> w]]
    /\ asked' = None
    /\ UNCHANGED <<rowVars, stream, searchInput, filters, workflows, total, hasMore, page, listed, load, doubtVars>>
\* Mutant: the card goes before the server has answered.
DeleteAtOnce(w) ==
    /\ Click
    /\ w \in ToSet(Ids(workflows)) /\ ~NeedsDialog(TRUE)
    /\ Free(removal)
    /\ removal' = [removal EXCEPT ![Slot(removal)] = [step |-> "sent", of |-> w]]
    /\ workflows' = But(workflows, {w})
    /\ UNCHANGED <<rowVars, stream, searchInput, filters, total, hasMore, page, asked, listed, load, doubtVars>>
DeleteUnasked(w) == /\ Click
                    /\ w \in ToSet(Ids(workflows)) /\ ~NeedsDialog(TRUE)
                    /\ SendDelete(w)
AnswerDialog(ok) ==
    /\ ListRequests
    /\ asked # None
    /\ IF ok THEN SendDelete(asked)
       ELSE /\ asked' = None
            /\ UNCHANGED <<rowVars, stream, searchInput, filters, workflows, total, hasMore, page, listed, load, removal, doubtVars>>

\* The server deletes, and deletes again what is gone.
DeleteRow(k) ==
    /\ ListRequests
    /\ removal[k].step = "sent"
    /\ stored' = Filtered(stored, Workflows \ {removal[k].of})
    /\ removal' = [removal EXCEPT ![k].step = "done"]
    /\ shifted' = (shifted \/ load.step # "idle") /\ cut' = TRUE
    /\ UNCHANGED <<newest, run, stream, cardVars, load, unsure, doubt>>
\* Mutant: the total goes below zero.
DeleteAnswerUnclamped(k) ==
    /\ ListRequests
    /\ removal[k].step = "done"
    /\ workflows' = But(workflows, {removal[k].of})
    /\ total' = total - 1
    /\ removal' = [removal EXCEPT ![k] = [step |-> "idle", of |-> None]]
    /\ UNCHANGED <<rowVars, stream, searchInput, filters, hasMore, page, asked, listed, load, shifted, cut, unsure, doubt>>
DeleteAnswer(k) ==
    /\ ListRequests
    /\ removal[k].step = "done"
    /\ shifted' = (shifted \/ removal[k].of \notin ToSet(Ids(workflows)))
    /\ workflows' = But(workflows, {removal[k].of})
    /\ total' = IF total > 0 THEN total - 1 ELSE 0
    /\ removal' = [removal EXCEPT ![k] = [step |-> "idle", of |-> None]]
    /\ UNCHANGED <<rowVars, stream, searchInput, filters, hasMore, page, asked, listed, load, cut, unsure, doubt>>
DeleteFails(k) ==
    /\ Upset("workflows")
    /\ removal[k].step \in {"sent", "done"}
    /\ shifted' = (shifted \/ removal[k].step = "done")
    /\ removal' = [removal EXCEPT ![k] = [step |-> "idle", of |-> None]]
    /\ UNCHANGED <<rowVars, stream, cardVars, load, cut, unsure, doubt>>

----------------------------------------------------------------------------
(* The executions and their events.                                        *)

\* w has changed and will not say so, or not in a way the page understands.
Silently(w) ==
    /\ unsure' = unsure \cup {w}
    /\ doubt' = IF load.step = "answer" THEN doubt \cup {w} ELSE doubt
Quietly == UNCHANGED <<unsure, doubt>>
Say(w, type, status) == stream' = Append(stream, [of |-> w, type |-> type, status |-> status])

RunStarts(r, w) ==
    /\ Upset("workflows")
    /\ run[r].stage = "new" /\ w \in ToSet(stored)
    /\ run' = [run EXCEPT ![r] = [of |-> w, row |-> "running", stage |-> "created"]]
    /\ shifted' = (shifted \/ (listed # None /\ listed.never) \/ load.filters.never)
    /\ Quietly
    /\ UNCHANGED <<collection, stream, cardVars, load, removal, cut>>
\* The workflow could not be expanded: an end without a beginning.
ExpansionFails(r) ==
    /\ ListRequests
    /\ run[r].stage = "created"
    /\ run' = [run EXCEPT ![r].row = "failed", ![r].stage = "over"]
    /\ Say(run[r].of, "completed", "failed")
    /\ Silently(run[r].of)
    /\ UNCHANGED <<collection, cardVars, load, removal, shifted, cut>>
SayStarted(r) ==
    /\ ListRequests
    /\ run[r].stage = "created"
    /\ run' = [run EXCEPT ![r].stage = "started"]
    /\ Say(run[r].of, "started", "running")
    /\ Quietly
    /\ UNCHANGED <<collection, cardVars, load, removal, shifted, cut>>
RunEnds(r, row) ==
    /\ ListRequests
    /\ run[r].stage = "started"
    /\ run' = [run EXCEPT ![r].row = row, ![r].stage = "ended"]
    /\ Quietly
    /\ UNCHANGED <<collection, stream, cardVars, load, removal, shifted, cut>>
SayCompleted(r) ==
    /\ ListRequests
    /\ run[r].stage = "ended"
    /\ run' = [run EXCEPT ![r].stage = "over"]
    /\ Say(run[r].of, "completed", run[r].row)
    /\ Quietly
    /\ UNCHANGED <<collection, cardVars, load, removal, shifted, cut>>
\* A continued execution runs without these events.
RunAgain(r, row) ==
    /\ Upset("workflows")
    /\ run[r].stage = "over" /\ row # run[r].row
    /\ run' = [run EXCEPT ![r].row = row]
    /\ Silently(run[r].of)
    /\ UNCHANGED <<collection, stream, cardVars, load, removal, shifted, cut>>

\* Mutant: the end of a run does not end it.
ApplyCompletedOnly(s, e) ==
    IF e.type = "started" THEN [s EXCEPT !.total = @ + 1, !.running = @ + 1]
    ELSE [s EXCEPT ![e.status] = @ + 1]
ApplyExecutionEvent(s, e) ==
    IF e.type = "started" THEN [s EXCEPT !.total = @ + 1, !.running = @ + 1]
    ELSE [s EXCEPT !.running = IF @ > 0 THEN @ - 1 ELSE 0, ![e.status] = @ + 1]
OnExecutionEvent ==
    /\ ListRequests
    /\ stream # <<>>
    /\ LET e == Head(stream)
       IN /\ workflows' = [i \in DOMAIN workflows |->
                IF workflows[i].id = e.of THEN [workflows[i] EXCEPT !.stats = ApplyExecutionEvent(@, e)]
                ELSE workflows[i]]
          /\ doubt' = IF load.step = "answer" THEN doubt \cup {e.of} ELSE doubt
    /\ stream' = Tail(stream)
    /\ UNCHANGED <<rowVars, searchInput, filters, total, hasMore, page, asked, listed, load, removal, shifted, cut, unsure>>
\* The stream breaks: what was on its way is lost, and nothing is loaded again.
StreamBreaks ==
    /\ Upset("workflows")
    /\ stream # <<>>
    /\ unsure' = unsure \cup {stream[i].of : i \in DOMAIN stream} /\ stream' = <<>>
    /\ doubt' = IF load.step = "answer" THEN Workflows ELSE doubt
    /\ UNCHANGED <<rowVars, cardVars, load, removal, shifted, cut>>

----------------------------------------------------------------------------
(* The other clients, and the way to other pages.                          *)

OthersCreate(w) ==
    /\ Upset("workflows")
    /\ w > newest
    /\ stored' = <<w>> \o stored /\ newest' = w
    /\ shifted' = TRUE
    /\ UNCHANGED <<run, stream, cardVars, load, removal, cut, unsure, doubt>>
OthersDelete(w) ==
    /\ Upset("workflows")
    /\ w \in ToSet(stored)
    /\ stored' = Filtered(stored, Workflows \ {w})
    /\ shifted' = TRUE
    /\ UNCHANGED <<newest, run, stream, cardVars, load, removal, cut, unsure, doubt>>

\* What the page keeps is lost with it; a deletion that was sent may arrive.
ListLeave ==
    /\ \E late \in SUBSET {k \in Removals : removal[k].step = "sent"} :
          stored' = Filtered(stored, Workflows \ {removal[k].of : k \in late})
    /\ removal' = [k \in Removals |-> [step |-> "idle", of |-> None]]
    /\ stream' = <<>>
    /\ searchInput' = FALSE /\ filters' = NoFilter /\ workflows' = <<>> /\ total' = 0 /\ hasMore' = TRUE /\ page' = 0
    /\ load' = NoLoad
    /\ asked' = None /\ listed' = NoFilter
    /\ shifted' = FALSE /\ cut' = FALSE /\ unsure' = {} /\ doubt' = {}
    /\ UNCHANGED <<newest, run>>
ListMount == /\ load' = LoadOf(1, FALSE, NoFilter)
             /\ UNCHANGED <<rowVars, stream, cardVars, removal, doubtVars>>

ListUser == \/ SelectFilter \/ Search \/ HandleScroll
            \/ \E w \in Workflows : AskToDelete(w) \/ DeleteUnasked(w)
ListSystem == \/ SearchTimer \/ CountRows \/ SelectRows \/ ListAnswer
              \/ \E ok \in BOOLEAN : AnswerDialog(ok)
              \/ \E k \in Removals : DeleteRow(k) \/ DeleteAnswer(k)
              \/ \E r \in Runs : ExpansionFails(r) \/ SayStarted(r) \/ SayCompleted(r)
              \/ \E r \in Runs, row \in {"success", "failed"} : RunEnds(r, row)
              \/ OnExecutionEvent
ListOthers == \/ \E w \in Workflows : OthersCreate(w) \/ OthersDelete(w)
              \/ \E r \in Runs, w \in Workflows : RunStarts(r, w)
              \/ \E r \in Runs, row \in {"running", "success", "failed"} : RunAgain(r, row)
ListFaults == ListLoadFails \/ StreamBreaks \/ \E k \in Removals : DeleteFails(k)
ListNext == ListUser \/ ListSystem \/ ListOthers \/ ListFaults

----------------------------------------------------------------------------
ListTypeOK ==
    /\ stored \in Seq(Workflows) /\ IsInjective(stored)
    /\ filters \in Filters /\ listed \in Filters \cup {None}
    /\ \A i \in DOMAIN workflows : workflows[i].id \in Workflows /\ workflows[i].stats \in Stats
    /\ total \in Nat /\ page \in Nat /\ load.step \in {"idle", "count", "select", "answer"}
    /\ asked \in Workflows \cup {None}

ListQuiet == load.step = "idle" /\ \A k \in Removals : removal[k].step = "idle"

\* However pages, deletions and creations overlap, no workflow has two cards.
NoCardTwice == IsInjective(Ids(workflows))

\* A list at rest is the beginning of what its filters select, as far as the
\* pages go, and knows whether there is more; unless the collection has
\* changed since the first page was counted (a deletion on this page counts
\* only when another page was loaded after it), a load of a first page has
\* failed, or the filters were changed while a load was under way, which the
\* page ignores.
ListIsAPrefix ==
    ListQuiet /\ ~shifted /\ listed = filters /\ page > 0 =>
        LET rows == Matching(filters)
        IN /\ IsPrefix(Ids(workflows), rows)
           /\ total = Len(rows)
           /\ ~cut => /\ hasMore = (Len(workflows) < Len(rows))
                      /\ hasMore => Len(workflows) = page * PageSize

\* Once every event has been told, the numbers on a card are those of the
\* rows, unless a load read them between a change and its event, or the
\* change has no event that says so.
CardsTellTheRows ==
    \A i \in DOMAIN workflows :
        LET w == workflows[i].id
        IN w \in ToSet(stored) \ unsure /\ ~Untold(w) => workflows[i].stats = ExecutionStats(w)

\* What the page shows is what the filters select of the collection.
ListAgrees == NoCardTwice /\ ListIsAPrefix /\ CardsTellTheRows

\* A card that goes from the page without a new list goes because its workflow
\* is gone.
OnlyTheDeletedGo ==
    [][\A i \in DOMAIN workflows :
         route' = route /\ load.step # "answer" /\ workflows[i].id \notin ToSet(Ids(workflows'))
             => workflows[i].id \notin ToSet(stored')]_listVars
=============================================================================
