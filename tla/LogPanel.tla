------------------------------ MODULE LogPanel ------------------------------
(***************************************************************************)
(* The log of the selected execution, page by page (LogViewer.tsx,         *)
(* ExecutionNodesPanel.tsx, and executionStore.ts: loadLatestLogs,         *)
(* loadOlderLogs, setLogFilter): the newest lines first, older ones above  *)
(* them as the user scrolls up, filtered by the server, with the offset    *)
(* counted from the lines on screen.                                       *)
(*                                                                         *)
(* A line is its number in the log of its execution, the filter a node: it *)
(* selects every other line.  A line that came as an event has no number   *)
(* that the page could know it by.  Whether live lines get lost is         *)
(* LiveView's question.                                                    *)
(***************************************************************************)
EXTENDS Browser, Sequences, SequencesExt

CONSTANTS
    Logged,   \* the number of lines at first, by execution
    LogPage,  \* LOG_PAGE_SIZE
    Latests,  \* the loads of last lines under way at a time
    MaxLooks  \* what the user does with the log, instead of MaxActs

ASSUME LogAssumption ==
    /\ Logged \in Seq(Nat) /\ Logged # <<>> /\ LogPage \in Nat \ {0}
    /\ None \notin DOMAIN Logged /\ MaxLooks \in Nat

VARIABLES
    logRows,      \* execution_logs: execution -> number of lines
    logExecution, \* selectedExecutionId
    executionLog, logsTotal,
    logFilter, filterDebounceTimer,
    loadingLogs, latest,
    older,        \* loadOlderLogs
    gap           \* history: the lines on screen have reason to be others

logVars == <<logRows, logExecution, executionLog, logsTotal, logFilter, filterDebounceTimer, loadingLogs, latest, older, gap>>

LogFilters == {"all", "node"}
NoLatest == [step |-> "idle", exec |-> None, filter |-> "all", items |-> <<>>, total |-> 0]
NoOlder == [step |-> "idle", exec |-> None, filter |-> "all", offset |-> 0, known |-> {}, items |-> <<>>, total |-> 0]

OnLogs == route = "logs" /\ acts < MaxLooks /\ acts' = acts + 1 /\ UNCHANGED upsets
LogAnswered == Request("logs")

\* GetExecutionLogs: the lines of an execution under a filter; what a page of
\* them is, counted from the newest, in the order of the log.
Passes(filter, n) == filter = "all" \/ n % 2 = 1
LinesOf(e, filter) == Filtered([n \in 1 .. logRows[e] |-> n], {n \in 1 .. logRows[e] : Passes(filter, n)})
Less(n, k) == IF n < k THEN 0 ELSE n - k
LogPageOf(e, filter, offset) ==
    LET all == LinesOf(e, filter)
    IN SubSeq(all, Less(Len(all), offset + LogPage) + 1, Less(Len(all), offset))
Stored(numbers) == [i \in DOMAIN numbers |-> [line |-> numbers[i], live |-> FALSE]]

\* An execution has been selected, and its last lines are loaded.
LogInit ==
    /\ logRows = Logged
    /\ logExecution = 1 /\ executionLog = Stored(LogPageOf(1, "all", 0)) /\ logsTotal = Logged[1]
    /\ logFilter = "all" /\ filterDebounceTimer = None
    /\ loadingLogs = FALSE /\ latest = [l \in Latests |-> NoLatest] /\ older = NoOlder
    /\ gap = FALSE

----------------------------------------------------------------------------
(* loadLatestLogs.                                                         *)

LoadLatestLogs(e) ==
    /\ Free(latest)
    /\ latest' = [latest EXCEPT ![Slot(latest)] = [NoLatest EXCEPT !.step = "sent", !.exec = e, !.filter = logFilter]]
    /\ loadingLogs' = TRUE
ReadLatest(l) ==
    /\ LogAnswered
    /\ latest[l].step = "sent"
    /\ latest' = [latest EXCEPT ![l].step = "answer", ![l].items = Stored(LogPageOf(latest[l].exec, latest[l].filter, 0)),
                                ![l].total = Len(LinesOf(latest[l].exec, latest[l].filter))]
    /\ UNCHANGED <<logRows, logExecution, executionLog, logsTotal, logFilter, filterDebounceTimer, loadingLogs, older, gap>>
\* Mutant: the answer is taken for whatever is selected.
LatestAnswerUnguarded(l) ==
    /\ LogAnswered
    /\ latest[l].step = "answer"
    /\ executionLog' = latest[l].items /\ logsTotal' = latest[l].total
    /\ latest' = [latest EXCEPT ![l] = NoLatest] /\ loadingLogs' = FALSE
    /\ UNCHANGED <<logRows, logExecution, logFilter, filterDebounceTimer, older, gap>>
LatestAnswer(l) ==
    /\ LogAnswered
    /\ latest[l].step = "answer"
    /\ IF latest[l].exec = logExecution
       THEN executionLog' = latest[l].items /\ logsTotal' = latest[l].total
       ELSE UNCHANGED <<executionLog, logsTotal>>
    /\ latest' = [latest EXCEPT ![l] = NoLatest] /\ loadingLogs' = FALSE
    /\ UNCHANGED <<logRows, logExecution, logFilter, filterDebounceTimer, older, gap>>
LatestFails(l) ==
    /\ Upset("logs")
    /\ latest[l].step = "sent"
    /\ latest' = [latest EXCEPT ![l] = NoLatest] /\ loadingLogs' = FALSE
    /\ gap' = TRUE
    /\ UNCHANGED <<logRows, logExecution, executionLog, logsTotal, logFilter, filterDebounceTimer, older>>

\* What a new load of last lines may meet: another one with its own filter, or
\* a page of older lines that will be put above them.
Meets == older.step # "idle" \/ \E l \in Latests : latest[l].step # "idle" /\ (gap \/ latest[l].filter # logFilter)

----------------------------------------------------------------------------
(* Selection and filter.                                                   *)

SelectLog(e) ==
    /\ OnLogs
    /\ e # logExecution
    /\ logExecution' = e
    /\ LoadLatestLogs(e)
    /\ gap' = Meets
    /\ UNCHANGED <<logRows, executionLog, logsTotal, logFilter, filterDebounceTimer, older>>
ExitLog ==
    /\ OnLogs
    /\ logExecution # None
    /\ logExecution' = None /\ executionLog' = <<>>
    /\ logFilter' = "all"
    /\ UNCHANGED <<logRows, logsTotal, filterDebounceTimer, loadingLogs, latest, older, gap>>

SetLogFilter(filter) ==
    /\ OnLogs
    /\ logExecution # None /\ filter # logFilter
    /\ logFilter' = filter /\ filterDebounceTimer' = logExecution
    /\ UNCHANGED <<logRows, logExecution, executionLog, logsTotal, loadingLogs, latest, older, gap>>
\* A click on a node filters the log by it, another one takes the filter back.
HandleNodeClick == SetLogFilter(IF logFilter = "node" THEN "all" ELSE "node")
\* The timer has kept the execution of its day.
FilterTimer ==
    /\ LogAnswered
    /\ filterDebounceTimer # None
    /\ LoadLatestLogs(filterDebounceTimer)
    /\ filterDebounceTimer' = None
    /\ gap' = (Meets \/ (gap /\ filterDebounceTimer # logExecution))
    /\ UNCHANGED <<logRows, logExecution, executionLog, logsTotal, logFilter, older>>

----------------------------------------------------------------------------
(* loadOlderLogs.                                                          *)

LoadOlderLogs ==
    /\ OnLogs
    /\ logExecution # None /\ older.step = "idle" /\ ~loadingLogs
    /\ Len(executionLog) < logsTotal
    /\ older' = [NoOlder EXCEPT !.step = "sent", !.exec = logExecution, !.filter = logFilter, !.offset = Len(executionLog),
                                !.known = ToSet(executionLog)]
    /\ gap' = (gap \/ filterDebounceTimer # None \/ \E l \in Latests : latest[l].step # "idle")
    /\ UNCHANGED <<logRows, logExecution, executionLog, logsTotal, logFilter, filterDebounceTimer, loadingLogs, latest>>
ReadOlder ==
    /\ LogAnswered
    /\ older.step = "sent"
    /\ older' = [older EXCEPT !.step = "answer", !.items = Stored(LogPageOf(older.exec, older.filter, older.offset)),
                              !.total = Len(LinesOf(older.exec, older.filter))]
    /\ UNCHANGED <<logRows, logExecution, executionLog, logsTotal, logFilter, filterDebounceTimer, loadingLogs, latest, gap>>
OlderAnswer ==
    /\ LogAnswered
    /\ older.step = "answer"
    /\ IF older.exec = logExecution
       THEN executionLog' = Filtered(older.items, ToSet(older.items) \ older.known) \o executionLog /\ logsTotal' = older.total
       ELSE UNCHANGED <<executionLog, logsTotal>>
    /\ older' = NoOlder
    /\ UNCHANGED <<logRows, logExecution, logFilter, filterDebounceTimer, loadingLogs, latest, gap>>
OlderFails ==
    /\ Upset("logs")
    /\ older.step = "sent"
    /\ older' = NoOlder
    /\ UNCHANGED <<logRows, logExecution, executionLog, logsTotal, logFilter, filterDebounceTimer, loadingLogs, latest, gap>>

\* A line of the execution on show: it is stored and comes as an event, which
\* no filter stops.
LineArrives ==
    /\ Upset("logs")
    /\ logExecution # None
    /\ logRows' = [logRows EXCEPT ![logExecution] = @ + 1]
    /\ executionLog' = Append(executionLog, [line |-> logRows'[logExecution], live |-> TRUE]) /\ logsTotal' = logsTotal + 1
    /\ gap' = (gap \/ ~Passes(logFilter, logRows'[logExecution]) \/ filterDebounceTimer # None
                   \/ older.step # "idle" \/ \E l \in Latests : latest[l].step # "idle")
    /\ UNCHANGED <<logExecution, logFilter, filterDebounceTimer, loadingLogs, latest, older>>

LogUser == \/ \E e \in DOMAIN Logged : SelectLog(e)
           \/ ExitLog \/ LoadOlderLogs
           \/ HandleNodeClick \/ \E filter \in LogFilters : SetLogFilter(filter)
LogSystem == \/ \E l \in Latests : ReadLatest(l) \/ LatestAnswer(l)
             \/ FilterTimer \/ ReadOlder \/ OlderAnswer
LogUpsets == \/ \E l \in Latests : LatestFails(l)
             \/ OlderFails \/ LineArrives
LogNext == LogUser \/ LogSystem \/ LogUpsets

----------------------------------------------------------------------------
LogTypeOK ==
    /\ logExecution \in DOMAIN Logged \cup {None} /\ filterDebounceTimer \in DOMAIN Logged \cup {None}
    /\ logsTotal \in Nat /\ logFilter \in LogFilters
    /\ loadingLogs => \E l \in Latests : latest[l].step # "idle"

LogAtRest == filterDebounceTimer = None /\ older.step = "idle" /\ \A l \in Latests : latest[l].step = "idle"

\* The lines on screen are the last ones of the selected execution under the
\* filter, each once and in order, with the total beside them, however pages,
\* filters, selections and live lines followed on one another; unless a load
\* failed, loads of two filters or of last and older lines overlapped, or a
\* live line met a load or a filter that does not let it through.
LogIsASuffix ==
    LogAtRest /\ logExecution # None /\ ~gap =>
        LET all == LinesOf(logExecution, logFilter)
            shown == [i \in DOMAIN executionLog |-> executionLog[i].line]
        IN /\ IsSuffix(shown, all)
           /\ logsTotal = Len(all)
           /\ Len(shown) < LogPage => shown = all
=============================================================================
