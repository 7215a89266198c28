---------------------------- MODULE PlaybackProofs ----------------------------
(***************************************************************************)
(* The page of a workflow, its log and its drawing tell the truth, for any *)
(* number of workflows, executions, lines and nodes, and whatever the user *)
(* does: the invariant of each of the three is inductive by itself, since  *)
(* none of them sees the others.                                           *)
(***************************************************************************)
EXTENDS Playback, BrowserProofs

----------------------------------------------------------------------------
(* The executions of a workflow, the newest first, and pages of them.      *)

LEMMA HistoryIs ==
    ASSUME NEW w
    PROVE  /\ History(w) \in Seq(Execs) /\ IsInjective(History(w)) /\ ToSet(History(w)) = OwnedBy(w)
           /\ Total(w) = Len(History(w)) /\ Total(w) \in Nat
<1> DEFINE all == [i \in Execs |-> MaxRuns + 1 - i]
<1> USE CanvasAssumption
<1>1. \A i \in Execs : MaxRuns + 1 - i \in Execs
  BY DEF Execs
<1>2. all \in Seq(Execs) /\ Len(all) = MaxRuns /\ DOMAIN all = Execs
  BY <1>1 DEF Execs
<1>3. IsInjective(all)
  BY <1>1, <1>2 DEF IsInjective, Execs
<1>4. ToSet(all) = Execs
  <2>1. ASSUME NEW e \in Execs PROVE \E i \in Execs : all[i] = e
    <3>1. MaxRuns + 1 - e \in Execs /\ all[MaxRuns + 1 - e] = e
      BY <1>1 DEF Execs
    <3> QED BY <3>1
  <2>2. \A i \in Execs : all[i] \in Execs
    BY <1>1
  <2> HIDE DEF all
  <2> QED BY <1>2, <2>1, <2>2 DEF ToSet
<1> HIDE DEF all
<1>5. History(w) \in Seq(Execs) /\ IsInjective(History(w)) /\ ToSet(History(w)) = ToSet(all) \cap OwnedBy(w)
  BY <1>2, <1>3, FilteredKeeps, FilteredElements DEF History, all
<1>6. ToSet(History(w)) = OwnedBy(w)
  BY <1>4, <1>5 DEF OwnedBy
<1>7. Total(w) = Len(History(w))
  <2> DEFINE h == History(w)
  <2>1. h \in [1 .. Len(h) -> OwnedBy(w)] /\ Len(h) \in Nat /\ DOMAIN h = 1 .. Len(h)
    BY <1>5, <1>6 DEF ToSet
  <2> HIDE DEF h
  <2>2. h \in Bijection(1 .. Len(h), OwnedBy(w))
    <3>1. \A e \in OwnedBy(w) : \E i \in 1 .. Len(h) : h[i] = e
      <4>1. OwnedBy(w) = {h[i] : i \in DOMAIN h}
        BY <1>6 DEF h, ToSet
      <4> QED BY <2>1, <4>1
    <3>2. IsInjective(h)
      BY <1>5 DEF h
    <3> QED BY <2>1, <3>1, <3>2 DEF Bijection, Injection, Surjection
  <2>3. IsFiniteSet(1 .. Len(h)) /\ Cardinality(1 .. Len(h)) = Len(h)
    <3>1. Len(h) \in Nat /\ 1 \in Int /\ Len(h) \in Int
      BY <2>1
    <3>2. IsFiniteSet(1 .. Len(h)) /\ Cardinality(1 .. Len(h)) = IF 1 > Len(h) THEN 0 ELSE Len(h) - 1 + 1
      BY <3>1, FS_Interval, Zenon
    <3> QED BY <3>1, <3>2
  <2>4. ExistsBijection(1 .. Len(h), OwnedBy(w))
    BY <2>2 DEF ExistsBijection
  <2>5. Cardinality(OwnedBy(w)) = Len(h)
    BY <2>3, <2>4, FS_Bijection
  <2> QED BY <2>5 DEF h, Total
<1> QED BY <1>5, <1>6, <1>7

\* The rows of the list when it has come to a page.
Upto(w, page) == SubSeq(History(w), 1, IF page * HistoryPage < Total(w) THEN page * HistoryPage ELSE Total(w))

LEMMA PagesAre ==
    ASSUME NEW w, NEW page \in Nat \ {0}
    PROVE  /\ PageOf(w, page) \in Seq(Execs) /\ ToSet(PageOf(w, page)) \subseteq OwnedBy(w)
           /\ IsInjective(PageOf(w, page))
           /\ PageOf(w, 1) = Upto(w, 1)
<1> DEFINE h == History(w)
           end == page * HistoryPage
           last == IF end < Total(w) THEN end ELSE Total(w)
           first == end - HistoryPage + 1
<1>1. h \in Seq(Execs) /\ IsInjective(h) /\ ToSet(h) = OwnedBy(w) /\ Total(w) = Len(h) /\ Len(h) \in Nat
  BY HistoryIs
<1>2. HistoryPage \in Nat \ {0} /\ end \in Nat /\ first >= 1 /\ first \in Nat /\ last \in Nat /\ last <= Len(h)
  <2>1. HistoryPage \in Nat \ {0}
    BY CanvasAssumption
  <2>2. page - 1 \in Nat /\ (page - 1) * HistoryPage \in Nat /\ (page - 1) * HistoryPage = end - HistoryPage
    BY <2>1
  <2>3. end \in Nat
    BY <2>1
  <2> HIDE DEF end
  <2> QED BY <1>1, <2>1, <2>2, <2>3
<1>3. PageOf(w, page) = SubSeq(h, first, last)
  BY DEF PageOf
<1> HIDE DEF h, first, last
<1>4. DOMAIN h = 1 .. Len(h) /\ \A i \in first .. last : i \in 1 .. Len(h) /\ h[i] \in OwnedBy(w) /\ h[i] \in Execs
  BY <1>1, <1>2 DEF ToSet
<1> DEFINE p == SubSeq(h, first, last)
<1>5. /\ p \in Seq(Execs) /\ Len(p) = IF first <= last THEN last - first + 1 ELSE 0
      /\ \A i \in 1 .. last - first + 1 : p[i] = h[first + i - 1]
  BY <1>2, <1>4, SubSeqProperties
<1>6. DOMAIN p = 1 .. Len(p) /\ \A i \in 1 .. Len(p) : p[i] = h[first + i - 1] /\ first + i - 1 \in first .. last
  BY <1>2, <1>5
<1> HIDE DEF p
<1>7. ToSet(p) \subseteq OwnedBy(w)
  BY <1>4, <1>6 DEF ToSet
<1>8. IsInjective(p)
  <2> SUFFICES ASSUME NEW i \in 1 .. Len(p), NEW j \in 1 .. Len(p), p[i] = p[j] PROVE i = j
    BY <1>6 DEF IsInjective
  <2>1. first + i - 1 = first + j - 1
    BY <1>1, <1>4, <1>6 DEF IsInjective
  <2> QED BY <2>1, <1>2
<1>9. PageOf(w, 1) = Upto(w, 1)
  <2>1. HistoryPage \in Nat /\ 1 * HistoryPage - HistoryPage + 1 = 1
    BY <1>2
  <2> QED BY <2>1 DEF PageOf, Upto
<1> QED BY <1>3, <1>5, <1>7, <1>8, <1>9 DEF p

----------------------------------------------------------------------------
(* The page.                                                               *)

Starts == [step : {"idle", "sent", "done", "answered"}, kind : {"run", "continue"}, of : Pipelines \cup {None},
           exec : Execs \cup {None}, here : BOOLEAN]
Commands == [kind : {"pause", "cancel"}, exec : Execs \cup {None}, here : BOOLEAN, shown : Execs \cup {None}]
Lists == [rows : Seq(Execs), of : Pipelines \cup {None}, page : Nat, total : Nat]

CanvasTyped ==
    /\ owner \in [Execs -> Pipelines \cup {None}]
    /\ routeWorkflowId \in Pipelines /\ searchParams \in Execs \cup {None} /\ replacing \subseteq Execs \cup {None}
    /\ behind \in [route : Pipelines, url : Execs \cup {None}]
    /\ currentWorkflow \in Pipelines \cup {None} /\ restoring \in Pipelines \cup {None}
    /\ selectedExecutionId \in Execs \cup {None} /\ selectedExecution \in {None, selectedExecutionId}
    /\ picks \subseteq Execs
    /\ rendered \in Scenes \cup {None}
    /\ starting \in Starts /\ asking \in Execs \cup {None} /\ commands \subseteq Commands
    /\ tab \in EditingTabs \cup PlaybackTabs
    /\ executions \in Lists /\ loadingMore \subseteq [of : Pipelines, page : Nat \ {0}]
    /\ loadingHistory \in BOOLEAN /\ historyLoads \subseteq Pipelines
    /\ loadingHistory => historyLoads # {}
    /\ failed \in BOOLEAN /\ astray \in BOOLEAN /\ grown \in BOOLEAN /\ tangled \in BOOLEAN /\ outlived \in BOOLEAN

\* The rows of executions have the numbers from 1 on, without a hole; a run
\* that has been sent has a number to come.
Numbered == \E k \in 0 .. MaxRuns : \A e \in Execs : owner[e] # None <=> e <= k
HasRoom == starting.step = "sent" /\ starting.kind = "run" => NextRun <= MaxRuns /\ starting.of # None

\* What is named anywhere on the page has a row.
Exists(e) == e # None => owner[e] # None
NamesExist ==
    /\ Exists(searchParams) /\ Exists(selectedExecutionId) /\ Exists(behind.url)
    /\ \A e \in replacing \cup picks \cup ToSet(executions.rows) : Exists(e)
    /\ Exists(starting.exec)

\* The workflow of the last render is there, or on its way.
Restores ==
    rendered # None =>
        /\ restoring \in {None, rendered.route}
        /\ restoring = None /\ ~failed /\ rendered.workflow = currentWorkflow => currentWorkflow = rendered.route

\* So is the row of the selected execution, and if the last render has seen
\* one, then of its own workflow.
Loads == selectedExecutionId # None /\ selectedExecution = None /\ ~failed => selectedExecutionId \in picks
OwnRow == rendered # None /\ rendered.row # None /\ selectedExecution # None => owner[rendered.row] = rendered.route

\* What the URL is to become is another one than the last render has seen.
ReplacesOne ==
    /\ replacing # {} => rendered # None /\ rendered.url = searchParams
    /\ searchParams \notin replacing
    /\ \A x, y \in replacing : x = y

\* When a render has seen the selection, the URL is or becomes the same; or an
\* effect is to come that selects what it names; or the selection is to be given
\* up, for an entry of the browser's history without one.
Aims == IF replacing = {} THEN {searchParams} ELSE replacing
Lost == /\ owner[selectedExecutionId] # routeWorkflowId
        /\ rendered.route # routeWorkflowId \/ rendered.row = None
UrlFollows ==
    rendered # None /\ rendered.selected = selectedExecutionId =>
        \A x \in Aims \ {selectedExecutionId} :
            \/ x # None /\ (replacing # {} \/ rendered.url # searchParams)
            \/ x = None /\ (astray \/ Lost)

TabFollows ==
    rendered # None /\ ~outlived /\ ((rendered.selected # None) = (selectedExecutionId # None)) => tab \in Tabs

\* The list is the first pages of a workflow.
ListIsPages ==
    /\ executions.total = Total(executions.of) /\ executions.page # 0
    /\ executions.rows = Upto(executions.of, executions.page)

\* Loads that do not overlap leave the pages of one workflow, one after another.
ListFollows ==
    /\ IsInjective(executions.rows)
    /\ ~tangled =>
         /\ loadingMore # {} => /\ historyLoads = {} /\ executions.of # None
                                /\ loadingMore = {[of |-> executions.of, page |-> executions.page + 1]}
         /\ \A v, w \in historyLoads : v = w
         /\ rendered # None => \A w \in historyLoads : w = Bar(rendered)
         /\ ~failed /\ historyLoads = {} /\ rendered # None => executions.of = Bar(rendered)
         /\ ~failed /\ ~grown /\ historyLoads = {} /\ executions.of # None => ListIsPages

CanvasInv ==
    /\ CanvasTyped /\ Numbered /\ HasRoom /\ NamesExist /\ Restores /\ Loads /\ OwnRow /\ ReplacesOne /\ UrlFollows
    /\ TabFollows /\ ListFollows /\ CommandsAreMeant

CanvasStep == CanvasNext \/ CanvasLeave \/ UNCHANGED canvasVars

LEMMA GoodListKept ==
    ASSUME UNCHANGED <<owner, executions>>
    PROVE  ListIsPages' <=> ListIsPages
BY DEF ListIsPages, Total, Upto, History, OwnedBy

(* Runs are numbered as they come.                                         *)
LEMMA NextRunIs ==
    ASSUME CanvasTyped, Numbered
    PROVE  \E k \in 0 .. MaxRuns : NextRun = k + 1 /\ \A e \in Execs : owner[e] # None <=> e <= k
<1> USE CanvasAssumption DEF Execs
<1>1. PICK k \in 0 .. MaxRuns : \A e \in Execs : owner[e] # None <=> e <= k
  BY DEF Numbered
<1> DEFINE there == {e \in Execs : owner[e] # None}
<1>2. there = 1 .. k
  BY <1>1
<1>3. k \in Nat /\ 1 \in Int /\ k \in Int
  BY <1>1
<1>4. Cardinality(1 .. k) = IF 1 > k THEN 0 ELSE k - 1 + 1
  BY <1>3, FS_Interval, Zenon
<1>5. NextRun = Cardinality(there) + 1
  BY DEF NextRun
<1> HIDE DEF there
<1> QED BY <1>1, <1>2, <1>3, <1>4, <1>5

LEMMA InsertIs ==
    ASSUME CanvasTyped, Numbered, NextRun <= MaxRuns, NEW w \in Pipelines, Insert(w)
    PROVE  /\ NextRun \in Execs /\ owner[NextRun] = None
           /\ owner' \in [Execs -> Pipelines \cup {None}] /\ owner'[NextRun] = w
           /\ \A e \in Execs : owner[e] # None => owner'[e] = owner[e]
           /\ Numbered' /\ NextRun' = NextRun + 1
           /\ grown' = TRUE
<1> USE CanvasAssumption
<1>1. PICK k \in 0 .. MaxRuns : NextRun = k + 1 /\ \A e \in Execs : owner[e] # None <=> e <= k
  BY NextRunIs
<1>2. NextRun \in Execs /\ owner[NextRun] = None
  BY <1>1 DEF Execs, CanvasTyped
<1>3. /\ owner' \in [Execs -> Pipelines \cup {None}] /\ owner'[NextRun] = w /\ grown' = TRUE
      /\ \A e \in Execs \ {NextRun} : owner'[e] = owner[e]
  BY <1>2 DEF Insert, CanvasTyped
<1>4. k + 1 \in 0 .. MaxRuns /\ \A e \in Execs : owner'[e] # None <=> e <= k + 1
  <2>1. k + 1 \in 0 .. MaxRuns
    BY <1>1
  <2>2. ASSUME NEW e \in Execs PROVE owner'[e] # None <=> e <= k + 1
    BY <1>1, <1>3 DEF Execs
  <2> QED BY <2>1, <2>2
<1>5. Numbered'
  BY <1>4 DEF Numbered
<1> DEFINE there == {e \in Execs : owner'[e] # None}
<1>6. there = 1 .. (k + 1)
  BY <1>4 DEF Execs
<1>7. k + 1 \in Nat /\ 1 \in Int /\ k + 1 \in Int
  BY <1>1
<1>8. Cardinality(1 .. (k + 1)) = IF 1 > k + 1 THEN 0 ELSE (k + 1) - 1 + 1
  BY <1>7, FS_Interval, Zenon
<1>9. NextRun' = Cardinality(there) + 1
  BY DEF NextRun
<1> HIDE DEF there
<1>10. NextRun' = NextRun + 1
  BY <1>1, <1>6, <1>7, <1>8, <1>9
<1> QED BY <1>1, <1>2, <1>3, <1>5, <1>10

LEMMA RowsAre == CanvasTyped => ToSet(executions.rows) \subseteq Execs
BY DEF CanvasTyped, Lists, ToSet

(* The next page adds what the list does not have.                         *)
LEMMA MoreIs ==
    ASSUME CanvasTyped, IsInjective(executions.rows), MoreAnswer
    PROVE  /\ executions' \in Lists /\ executions'.of = executions.of
           /\ IsInjective(executions'.rows)
           /\ \A e \in ToSet(executions'.rows) : e \in ToSet(executions.rows) \/ owner[e] # None
           /\ \E more \in loadingMore :
                executions'.page = more.page /\ executions'.total = Total(more.of)
                /\ executions'.rows = executions.rows \o Filtered(PageOf(more.of, more.page), Execs \ ToSet(executions.rows))
<1> DEFINE rows == executions.rows
<1>1. PICK more \in loadingMore :
        executions' = [executions EXCEPT !.rows = rows \o Filtered(PageOf(more.of, more.page), Execs \ ToSet(rows)),
                                         !.page = more.page, !.total = Total(more.of)]
  BY DEF MoreAnswer
<1>2. more.of \in Pipelines /\ more.page \in Nat \ {0} /\ rows \in Seq(Execs) /\ executions \in Lists
  BY DEF CanvasTyped, Lists
<1> DEFINE p == PageOf(more.of, more.page)
           added == Filtered(p, Execs \ ToSet(rows))
           all == rows \o added
<1>3. p \in Seq(Execs) /\ IsInjective(p) /\ ToSet(p) \subseteq OwnedBy(more.of) /\ Total(more.of) \in Nat
  BY <1>2, PagesAre, HistoryIs
<1>4. /\ added \in Seq(Execs) /\ IsInjective(added)
      /\ ToSet(added) = ToSet(p) \cap (Execs \ ToSet(rows))
  <2> HIDE DEF p, rows
  <2> QED BY <1>3, FilteredKeeps, FilteredElements
<1>5. executions' = [rows |-> all, of |-> executions.of, page |-> more.page, total |-> Total(more.of)]
  BY <1>1, <1>2 DEF Lists
<1> HIDE DEF rows, p, added
<1>6. /\ all \in Seq(Execs) /\ Len(all) = Len(rows) + Len(added)
      /\ \A i \in 1 .. Len(rows) + Len(added) : all[i] = IF i <= Len(rows) THEN rows[i] ELSE added[i - Len(rows)]
  BY <1>2, <1>4, ConcatProperties
<1> HIDE DEF all
<1>7. /\ Len(rows) \in Nat /\ Len(added) \in Nat /\ DOMAIN all = 1 .. Len(all)
      /\ DOMAIN rows = 1 .. Len(rows) /\ DOMAIN added = 1 .. Len(added)
  BY <1>2, <1>4, <1>6
<1>8. \A i \in 1 .. Len(all) : \/ i \in 1 .. Len(rows) /\ all[i] = rows[i] /\ rows[i] \in ToSet(rows)
                               \/ /\ i - Len(rows) \in 1 .. Len(added) /\ all[i] = added[i - Len(rows)]
                                  /\ all[i] \in ToSet(added)
  <2>1. /\ \A i \in 1 .. Len(rows) : rows[i] \in ToSet(rows)
        /\ \A i \in 1 .. Len(added) : added[i] \in ToSet(added)
    BY <1>7 DEF ToSet
  <2> QED BY <2>1, <1>6, <1>7
<1>9. IsInjective(rows)
  BY DEF rows
<1>10. IsInjective(all)
  <2> SUFFICES ASSUME NEW i \in 1 .. Len(all), NEW j \in 1 .. Len(all), all[i] = all[j] PROVE i = j
    BY <1>7 DEF IsInjective
  <2>1. CASE i \in 1 .. Len(rows) /\ j \in 1 .. Len(rows)
    BY <2>1, <1>6, <1>7, <1>9 DEF IsInjective
  <2>2. CASE i - Len(rows) \in 1 .. Len(added) /\ j - Len(rows) \in 1 .. Len(added)
    <3>1. all[i] = added[i - Len(rows)] /\ all[j] = added[j - Len(rows)]
      BY <2>2, <1>6, <1>7
    <3>2. i - Len(rows) = j - Len(rows)
      BY <3>1, <2>2, <1>4, <1>7 DEF IsInjective
    <3> QED BY <3>2, <1>7
  <2>3. ToSet(rows) \cap ToSet(added) = {}
    BY <1>4
  <2> QED BY <2>1, <2>2, <2>3, <1>8
<1>11. ASSUME NEW e \in ToSet(all) PROVE e \in ToSet(rows) \/ owner[e] # None
  <2>1. PICK i \in 1 .. Len(all) : e = all[i]
    BY <1>7 DEF ToSet
  <2>2. e \in ToSet(rows) \/ e \in ToSet(added)
    BY <2>1, <1>8
  <2>3. None \notin Pipelines
    BY CanvasAssumption
  <2> QED BY <2>2, <2>3, <1>3, <1>4, <1>2 DEF OwnedBy
<1>12. executions' \in Lists
  BY <1>5, <1>6, <1>2, <1>3 DEF Lists
<1> QED BY <1>5, <1>10, <1>11, <1>12 DEF rows, added, p, all

(* ... which makes of the first pages one more.                            *)
LEMMA NextPage ==
    ASSUME NEW w, NEW page \in Nat \ {0}
    PROVE  Upto(w, page) \o Filtered(PageOf(w, page + 1), Execs \ ToSet(Upto(w, page))) = Upto(w, page + 1)
<1> DEFINE h == History(w)
           total == Len(h)
           before == page * HistoryPage
           end == (page + 1) * HistoryPage
           m == IF before < total THEN before ELSE total
           n == IF end < total THEN end ELSE total
<1>1. h \in Seq(Execs) /\ IsInjective(h) /\ Total(w) = total /\ total \in Nat /\ DOMAIN h = 1 .. total
  BY HistoryIs
<1>2. before \in Nat /\ end \in Nat /\ HistoryPage \in Nat \ {0} /\ end = before + HistoryPage
  BY CanvasAssumption
<1>3. Upto(w, page) = SubSeq(h, 1, m) /\ Upto(w, page + 1) = SubSeq(h, 1, n)
  BY <1>1 DEF Upto
<1>4. PageOf(w, page + 1) = SubSeq(h, before + 1, n)
  <2>1. end - HistoryPage + 1 = before + 1
    BY <1>2
  <2> QED BY <1>1, <2>1 DEF PageOf
<1> HIDE DEF h, before, end
<1>5. m \in Nat /\ n \in Nat /\ m <= n /\ n <= total /\ (before > total => m = n)
  BY <1>1, <1>2
<1>6. SubSeq(h, before + 1, n) = SubSeq(h, m + 1, n)
  <2>1. CASE before < total
    BY <2>1
  <2>2. CASE ~ before < total
    <3>1. n < before + 1 /\ n < m + 1 /\ before + 1 \in Int /\ m + 1 \in Int /\ n \in Int
      BY <2>2, <1>1, <1>2
    <3> QED BY <3>1, SubSeqEmpty
  <2> QED BY <2>1, <2>2
<1> HIDE DEF m, n
<1> DEFINE p == SubSeq(h, m + 1, n)
           q == SubSeq(h, 1, m)
<1>7. /\ p \in Seq(Execs) /\ Len(p) = n - m
      /\ \A i \in 1 .. n - m : p[i] = h[m + i]
  <2>1. \A i \in m + 1 .. n : h[i] \in Execs
    BY <1>1, <1>5
  <2>2. /\ p \in Seq(Execs) /\ Len(p) = IF m + 1 <= n THEN n - (m + 1) + 1 ELSE 0
        /\ \A i \in 1 .. n - (m + 1) + 1 : p[i] = h[m + 1 + i - 1]
    BY <2>1, <1>5, SubSeqProperties
  <2> QED BY <2>2, <1>5
<1>8. q \in Seq(Execs) /\ Len(q) = m /\ \A i \in 1 .. m : q[i] = h[i]
  <2>1. \A i \in 1 .. m : h[i] \in Execs
    BY <1>1, <1>5
  <2>2. /\ q \in Seq(Execs) /\ Len(q) = IF 1 <= m THEN m - 1 + 1 ELSE 0
        /\ \A i \in 1 .. m - 1 + 1 : q[i] = h[1 + i - 1]
    BY <2>1, <1>5, SubSeqProperties
  <2> QED BY <2>2, <1>5
<1> HIDE DEF p, q
<1>9. \A j \in 1 .. Len(p) : p[j] \in Execs \ ToSet(q)
  <2> SUFFICES ASSUME NEW j \in 1 .. Len(p), p[j] \in ToSet(q) PROVE FALSE
    BY <1>7
  <2>1. PICK i \in 1 .. m : p[j] = h[i]
    BY <1>8 DEF ToSet
  <2>2. j \in 1 .. n - m /\ m + j \in 1 .. total /\ i \in 1 .. total /\ h[m + j] = h[i]
    BY <2>1, <1>5, <1>7, <1>1
  <2>3. m + j = i
    BY <2>2, <1>1 DEF IsInjective
  <2> QED BY <2>3, <1>5
<1>10. Filtered(p, Execs \ ToSet(q)) = p
  BY <1>7, <1>9, AllKept
<1>11. q \o p = SubSeq(h, 1, n)
  <2>1. 1 \in 1 .. Len(h) + 1 /\ m \in 1 - 1 .. Len(h) /\ n \in m .. Len(h)
    BY <1>1, <1>5
  <2> QED BY <2>1, <1>1, ConcatAdjacentSubSeq DEF p, q
<1> QED BY <1>3, <1>4, <1>6, <1>10, <1>11 DEF p, q

(* A run gets a number, and what is named keeps its row.                   *)
LEMMA RunOnServerInserts ==
    ASSUME CanvasTyped, Numbered, HasRoom, NamesExist, RunOnServer
    PROVE  /\ owner' \in [Execs -> Pipelines \cup {None}] /\ starting' \in Starts
           /\ \A e \in Execs : owner[e] # None => owner'[e] = owner[e]
           /\ Numbered' /\ HasRoom' /\ Exists(starting.exec)'
           /\ grown' = TRUE \/ UNCHANGED <<owner, grown>>
<1> USE CanvasAssumption DEF CanvasTyped
<1>0. starting.of \in Pipelines \cup {None} /\ starting.exec \in Execs \cup {None} /\ starting.step = "sent"
  BY DEF Starts, RunOnServer
<1>1. CASE starting.kind = "run" /\ Insert(starting.of) /\ starting' = [starting EXCEPT !.step = "done", !.exec = NextRun]
  <2>1. starting.of \in Pipelines /\ NextRun <= MaxRuns
    BY <1>0, <1>1 DEF HasRoom
  <2>2. /\ NextRun \in Execs
        /\ owner' \in [Execs -> Pipelines \cup {None}] /\ owner'[NextRun] = starting.of
        /\ \A e \in Execs : owner[e] # None => owner'[e] = owner[e]
        /\ Numbered' /\ grown' = TRUE
    BY <1>1, <2>1, InsertIs
  <2>3. starting' \in Starts /\ starting'.exec = NextRun /\ starting'.step = "done"
    BY <1>0, <1>1, <2>2 DEF Starts
  <2>4. HasRoom' /\ Exists(starting.exec)'
    BY <2>1, <2>2, <2>3 DEF HasRoom, Exists
  <2> QED BY <2>2, <2>3, <2>4
<1>2. CASE starting.kind = "continue" /\ starting' = [starting EXCEPT !.step = "done"] /\ UNCHANGED <<owner, grown>>
  <2>1. starting' \in Starts /\ starting'.exec = starting.exec /\ starting'.step = "done"
    BY <1>0, <1>2 DEF Starts
  <2>2. HasRoom' /\ Exists(starting.exec)' /\ Numbered'
    BY <1>2, <2>1 DEF HasRoom, Exists, NamesExist, Numbered
  <2> QED BY <1>2, <2>1, <2>2
<1> QED BY <1>1, <1>2 DEF RunOnServer

LEMMA OthersRunInserts ==
    ASSUME CanvasTyped, Numbered, HasRoom, NamesExist, OthersRun
    PROVE  /\ owner' \in [Execs -> Pipelines \cup {None}] /\ starting' \in Starts
           /\ \A e \in Execs : owner[e] # None => owner'[e] = owner[e]
           /\ Numbered' /\ HasRoom' /\ grown' = TRUE
<1> USE CanvasAssumption DEF CanvasTyped
<1>1. NextRun \in Nat
  BY NextRunIs
<1>2. NextRun + Running <= MaxRuns /\ Insert(routeWorkflowId) /\ starting' = starting
  BY DEF OthersRun, Room, controlVars
<1>3. NextRun <= MaxRuns
  BY <1>1, <1>2 DEF Running
<1>4. /\ owner' \in [Execs -> Pipelines \cup {None}]
      /\ \A e \in Execs : owner[e] # None => owner'[e] = owner[e]
      /\ Numbered' /\ NextRun' = NextRun + 1 /\ grown' = TRUE
  BY <1>2, <1>3, InsertIs
<1>5. HasRoom'
  BY <1>1, <1>2, <1>4 DEF HasRoom, Running
<1> QED BY <1>2, <1>4, <1>5

LEMMA HandleSelectKeeps ==
    ASSUME CanvasInv, NEW e \in Execs, HandleSelect(e)
    PROVE  CanvasInv'
<1> USE CanvasAssumption DEF CanvasInv, Execs, urlVars, pickVars, workflowVars, controlVars, listing, canvasHistory
<1>1. CanvasTyped'
  BY DEF HandleSelect, AtCanvas, AtPage, Scene, Select, CanvasTyped, Starts, Commands, Lists, Scenes
<1>2. (Numbered /\ HasRoom /\ NamesExist)'
  BY DEF HandleSelect, AtCanvas, AtPage, Scene, Select, CanvasTyped, Starts, Lists, Numbered, HasRoom, NamesExist, Exists, NextRun
<1>3. (Restores /\ Loads /\ OwnRow /\ ReplacesOne)'
  BY DEF HandleSelect, AtCanvas, AtPage, Scene, Select, CanvasTyped, Scenes, Restores, Loads, OwnRow, ReplacesOne
<1>4. (UrlFollows /\ TabFollows)'
  BY DEF HandleSelect, AtCanvas, AtPage, Scene, Select, CanvasTyped, Scenes, UrlFollows, Aims, Lost, TabFollows, Tabs, ReplacesOne
<1>5. (ListFollows /\ CommandsAreMeant)'
  BY GoodListKept DEF HandleSelect, AtCanvas, AtPage, Scene, Select, CanvasTyped, Lists, ListFollows, Bar, CommandsAreMeant
<1> QED BY <1>1, <1>2, <1>3, <1>4, <1>5

LEMMA HandleExitKeeps ==
    ASSUME CanvasInv, HandleExit
    PROVE  CanvasInv'
<1> USE CanvasAssumption DEF CanvasInv, Execs, urlVars, pickVars, workflowVars, controlVars, listing, canvasHistory
<1>1. CanvasTyped'
  BY DEF HandleExit, AtCanvas, AtPage, Scene, Select, CanvasTyped, Starts, Commands, Lists, Scenes
<1>2. (Numbered /\ HasRoom /\ NamesExist)'
  BY DEF HandleExit, AtCanvas, AtPage, Scene, Select, CanvasTyped, Starts, Lists, Numbered, HasRoom, NamesExist, Exists, NextRun
<1>3. (Restores /\ Loads /\ OwnRow /\ ReplacesOne)'
  BY DEF HandleExit, AtCanvas, AtPage, Scene, Select, CanvasTyped, Scenes, Restores, Loads, OwnRow, ReplacesOne
<1>4. (UrlFollows /\ TabFollows)'
  BY DEF HandleExit, AtCanvas, AtPage, Scene, Select, CanvasTyped, Scenes, UrlFollows, Aims, Lost, TabFollows, Tabs, ReplacesOne
<1>5. (ListFollows /\ CommandsAreMeant)'
  BY GoodListKept DEF HandleExit, AtCanvas, AtPage, Scene, Select, CanvasTyped, Lists, ListFollows, Bar, CommandsAreMeant
<1> QED BY <1>1, <1>2, <1>3, <1>4, <1>5

LEMMA LoadMoreExecutionsKeeps ==
    ASSUME CanvasInv, LoadMoreExecutions
    PROVE  CanvasInv'
<1> USE CanvasAssumption DEF CanvasInv, Execs, urlVars, pickVars, workflowVars, controlVars, listing, canvasHistory
<1>1. CanvasTyped'
  BY DEF LoadMoreExecutions, AtCanvas, AtPage, Scene, CanvasTyped, Starts, Commands, Lists, Scenes
<1>2. (Numbered /\ HasRoom /\ NamesExist)'
  BY DEF LoadMoreExecutions, AtCanvas, AtPage, Scene, CanvasTyped, Starts, Lists, Numbered, HasRoom, NamesExist, Exists, NextRun
<1>3. (Restores /\ Loads /\ OwnRow /\ ReplacesOne)'
  BY DEF LoadMoreExecutions, AtCanvas, AtPage, Scene, CanvasTyped, Scenes, Restores, Loads, OwnRow, ReplacesOne
<1>4. (UrlFollows /\ TabFollows)'
  BY DEF LoadMoreExecutions, AtCanvas, AtPage, Scene, CanvasTyped, Scenes, UrlFollows, Aims, Lost, TabFollows, Tabs, ReplacesOne
<1>5. (ListFollows /\ CommandsAreMeant)'
  BY GoodListKept DEF LoadMoreExecutions, AtCanvas, AtPage, Scene, CanvasTyped, Lists, ListFollows, Bar, CommandsAreMeant
<1> QED BY <1>1, <1>2, <1>3, <1>4, <1>5

LEMMA HandleRunKeeps ==
    ASSUME CanvasInv, HandleRun
    PROVE  CanvasInv'
<1> USE CanvasAssumption DEF CanvasInv, Execs, urlVars, pickVars, workflowVars, controlVars, listing, canvasHistory
<1>1. CanvasTyped'
  BY DEF HandleRun, AtCanvas, AtPage, Scene, RunEnabled, Room, ContinueMode, CanvasTyped, Starts, Commands, Lists, Scenes
<1>2. (Numbered /\ HasRoom /\ NamesExist)'
  <2>1. NextRun \in Nat /\ NextRun' = NextRun
    BY NextRunIs DEF HandleRun, NextRun
  <2>2. HasRoom'
    BY <2>1 DEF HandleRun, CanvasTyped, Starts, RunEnabled, Room, Running, HasRoom
  <2> QED BY <2>2 DEF HandleRun, CanvasTyped, Starts, Numbered, NamesExist, Exists
<1>3. (Restores /\ Loads /\ OwnRow /\ ReplacesOne)'
  BY DEF HandleRun, AtCanvas, AtPage, Scene, RunEnabled, Room, ContinueMode, CanvasTyped, Scenes, Restores, Loads, OwnRow, ReplacesOne
<1>4. (UrlFollows /\ TabFollows)'
  BY DEF HandleRun, AtCanvas, AtPage, Scene, RunEnabled, Room, ContinueMode, CanvasTyped, Scenes, UrlFollows, Aims, Lost, TabFollows, Tabs, ReplacesOne
<1>5. (ListFollows /\ CommandsAreMeant)'
  BY GoodListKept DEF HandleRun, AtCanvas, AtPage, Scene, RunEnabled, Room, ContinueMode, CanvasTyped, Lists, ListFollows, Bar, CommandsAreMeant
<1> QED BY <1>1, <1>2, <1>3, <1>4, <1>5

LEMMA HandlePauseResumeKeeps ==
    ASSUME CanvasInv, HandlePauseResume
    PROVE  CanvasInv'
<1> USE CanvasAssumption DEF CanvasInv, Execs, urlVars, pickVars, workflowVars, controlVars, listing, canvasHistory
<1>1. CanvasTyped'
  <2>1. Command("pause", selectedExecutionId, selectedExecutionId) \in Commands
    BY DEF CanvasTyped, Command, Commands
  <2> QED BY <2>1 DEF HandlePauseResume, CanvasTyped
<1>2. (Numbered /\ HasRoom /\ NamesExist)'
  BY DEF HandlePauseResume, AtCanvas, AtPage, Scene, Command, Pending, CanvasTyped, Starts, Lists, Numbered, HasRoom, NamesExist, Exists, NextRun
<1>3. (Restores /\ Loads /\ OwnRow /\ ReplacesOne)'
  BY DEF HandlePauseResume, AtCanvas, AtPage, Scene, Command, Pending, CanvasTyped, Scenes, Restores, Loads, OwnRow, ReplacesOne
<1>4. (UrlFollows /\ TabFollows)'
  BY DEF HandlePauseResume, AtCanvas, AtPage, Scene, Command, Pending, CanvasTyped, Scenes, UrlFollows, Aims, Lost, TabFollows, Tabs, ReplacesOne
<1>5. (ListFollows /\ CommandsAreMeant)'
  BY GoodListKept DEF HandlePauseResume, AtCanvas, AtPage, Scene, Command, Pending, CanvasTyped, Lists, ListFollows, Bar, CommandsAreMeant
<1> QED BY <1>1, <1>2, <1>3, <1>4, <1>5

LEMMA HandleCancelKeeps ==
    ASSUME CanvasInv, HandleCancel
    PROVE  CanvasInv'
<1> USE CanvasAssumption DEF CanvasInv, Execs, urlVars, pickVars, workflowVars, controlVars, listing, canvasHistory
<1>1. CanvasTyped'
  BY DEF HandleCancel, AtCanvas, AtPage, Scene, Pending, CanvasTyped, Starts, Commands, Lists, Scenes
<1>2. (Numbered /\ HasRoom /\ NamesExist)'
  BY DEF HandleCancel, AtCanvas, AtPage, Scene, Pending, CanvasTyped, Starts, Lists, Numbered, HasRoom, NamesExist, Exists, NextRun
<1>3. (Restores /\ Loads /\ OwnRow /\ ReplacesOne)'
  BY DEF HandleCancel, AtCanvas, AtPage, Scene, Pending, CanvasTyped, Scenes, Restores, Loads, OwnRow, ReplacesOne
<1>4. (UrlFollows /\ TabFollows)'
  BY DEF HandleCancel, AtCanvas, AtPage, Scene, Pending, CanvasTyped, Scenes, UrlFollows, Aims, Lost, TabFollows, Tabs, ReplacesOne
<1>5. (ListFollows /\ CommandsAreMeant)'
  BY GoodListKept DEF HandleCancel, AtCanvas, AtPage, Scene, Pending, CanvasTyped, Lists, ListFollows, Bar, CommandsAreMeant
<1> QED BY <1>1, <1>2, <1>3, <1>4, <1>5

LEMMA AnswerDialogKeeps ==
    ASSUME CanvasInv, AnswerDialog
    PROVE  CanvasInv'
<1> USE CanvasAssumption DEF CanvasInv, Execs, urlVars, pickVars, workflowVars, controlVars, listing, canvasHistory
<1>1. CanvasTyped'
  <2>1. Command("cancel", asking, asking) \in Commands
    BY DEF CanvasTyped, Command, Commands
  <2> QED BY <2>1 DEF AnswerDialog, CanvasTyped
<1>2. (Numbered /\ HasRoom /\ NamesExist)'
  BY DEF AnswerDialog, Scene, Command, CanvasTyped, Starts, Lists, Numbered, HasRoom, NamesExist, Exists, NextRun
<1>3. (Restores /\ Loads /\ OwnRow /\ ReplacesOne)'
  BY DEF AnswerDialog, Scene, Command, CanvasTyped, Scenes, Restores, Loads, OwnRow, ReplacesOne
<1>4. (UrlFollows /\ TabFollows)'
  BY DEF AnswerDialog, Scene, Command, CanvasTyped, Scenes, UrlFollows, Aims, Lost, TabFollows, Tabs, ReplacesOne
<1>5. (ListFollows /\ CommandsAreMeant)'
  BY GoodListKept DEF AnswerDialog, Scene, Command, CanvasTyped, Lists, ListFollows, Bar, CommandsAreMeant
<1> QED BY <1>1, <1>2, <1>3, <1>4, <1>5

LEMMA SetTabKeeps ==
    ASSUME CanvasInv, NEW key \in EditingTabs \cup PlaybackTabs, SetTab(key)
    PROVE  CanvasInv'
<1> USE CanvasAssumption DEF CanvasInv, Execs, urlVars, pickVars, workflowVars, controlVars, listing, canvasHistory
<1>1. CanvasTyped'
  <2>1. outlived' \in BOOLEAN
    BY DEF SetTab
  <2> QED BY <2>1 DEF SetTab, CanvasTyped
<1>2. (Numbered /\ HasRoom /\ NamesExist)'
  BY DEF SetTab, AtCanvas, AtPage, Scene, CanvasTyped, Starts, Lists, Numbered, HasRoom, NamesExist, Exists, NextRun
<1>3. (Restores /\ Loads /\ OwnRow /\ ReplacesOne)'
  BY DEF SetTab, AtCanvas, AtPage, Scene, CanvasTyped, Scenes, Restores, Loads, OwnRow, ReplacesOne
<1>4. (UrlFollows /\ TabFollows)'
  BY DEF SetTab, AtCanvas, AtPage, Scene, CanvasTyped, Scenes, UrlFollows, Aims, Lost, TabFollows, Tabs, ReplacesOne
<1>5. (ListFollows /\ CommandsAreMeant)'
  BY GoodListKept DEF SetTab, AtCanvas, AtPage, Scene, CanvasTyped, Lists, ListFollows, Bar, CommandsAreMeant
<1> QED BY <1>1, <1>2, <1>3, <1>4, <1>5

LEMMA GoBackKeeps ==
    ASSUME CanvasInv, GoBack
    PROVE  CanvasInv'
<1> USE CanvasAssumption DEF CanvasInv, Execs, urlVars, pickVars, workflowVars, controlVars, listing, canvasHistory
<1>1. CanvasTyped'
  BY DEF GoBack, AtPage, Scene, OwnerOf, CanvasTyped, Starts, Commands, Lists, Scenes
<1>2. (Numbered /\ HasRoom /\ NamesExist)'
  BY DEF GoBack, AtPage, Scene, OwnerOf, CanvasTyped, Starts, Lists, Numbered, HasRoom, NamesExist, Exists, NextRun
<1>3. (Restores /\ Loads /\ OwnRow /\ ReplacesOne)'
  BY DEF GoBack, AtPage, Scene, OwnerOf, CanvasTyped, Scenes, Restores, Loads, OwnRow, ReplacesOne
<1>4. (UrlFollows /\ TabFollows)'
  <2>1. TabFollows'
    BY DEF GoBack, TabFollows, Tabs
  <2>2. UrlFollows'
    BY DEF GoBack, AtPage, Scene, OwnerOf, CanvasTyped, UrlFollows, Aims, Lost, OwnRow
  <2> QED BY <2>1, <2>2
<1>5. (ListFollows /\ CommandsAreMeant)'
  BY GoodListKept DEF GoBack, AtPage, Scene, OwnerOf, CanvasTyped, Lists, ListFollows, Bar, CommandsAreMeant
<1> QED BY <1>1, <1>2, <1>3, <1>4, <1>5

LEMMA RenderKeeps ==
    ASSUME CanvasInv, Render
    PROVE  CanvasInv'
<1> USE CanvasAssumption DEF CanvasInv, Execs, urlVars, pickVars, workflowVars, controlVars, listing, canvasHistory
<1>1. CanvasTyped'
  <2>1. rendered' \in Scenes
    BY DEF Render, Scene, Scenes, CanvasTyped
  <2>2. historyLoads' \subseteq Pipelines /\ loadingHistory' \in BOOLEAN /\ (loadingHistory' => historyLoads' # {})
    <3>1. PICK b : b = Bar(Scene)
      OBVIOUS
    <3>2. b \in Pipelines
      BY <3>1 DEF Bar, Scene, CanvasTyped
    <3>3. LoadExecutions(b) \/ SameList
      BY <3>1, Zenon DEF Render
    <3>4. CASE LoadExecutions(b)
      BY <3>2, <3>4 DEF LoadExecutions, CanvasTyped
    <3>5. CASE SameList
      BY <3>5 DEF SameList, CanvasTyped
    <3> QED BY <3>3, <3>4, <3>5
  <2>3. tangled' \in BOOLEAN /\ outlived' \in BOOLEAN /\ astray' \in BOOLEAN
    BY DEF Render, LoadExecutions, SameList, CanvasTyped
  <2>4. /\ selectedExecutionId' \in Execs \cup {None} /\ selectedExecution' \in {None, selectedExecutionId'}
        /\ picks' \subseteq Execs
    BY DEF Render, SelectByUrl, FromUrl, CanvasTyped
  <2>5. replacing' \subseteq Execs \cup {None} /\ restoring' \in Pipelines \cup {None}
    BY DEF Render, WriteUrl, FromUrl, RestoreWorkflow, CanvasTyped
  <2>6. tab' \in EditingTabs \cup PlaybackTabs
    BY DEF Render, FollowMode, CanvasTyped, EditingTabs, PlaybackTabs
  <2>7. executions' = executions /\ loadingMore' = loadingMore
    BY DEF Render, LoadExecutions, SameList
  <2> QED BY <2>1, <2>2, <2>3, <2>4, <2>5, <2>6, <2>7 DEF Render, CanvasTyped
<1>2. (Numbered /\ HasRoom /\ NamesExist)'
  BY DEF Render, Scene, Differs, SelectByUrl, FromUrl, Foreign, WriteUrl, FollowMode, RestoreWorkflow, LoadExecutions, SameList, Overtaken, OwnerOf, Bar, CanvasTyped, Starts, Lists, Numbered, HasRoom, NamesExist, Exists, NextRun
<1>3. (Restores /\ Loads /\ OwnRow /\ ReplacesOne)'
  BY DEF Render, Scene, Differs, SelectByUrl, FromUrl, Foreign, WriteUrl, FollowMode, RestoreWorkflow, LoadExecutions, SameList, Overtaken, OwnerOf, Bar, CanvasTyped, Scenes, Restores, Loads, OwnRow, ReplacesOne
<1>4. (UrlFollows /\ TabFollows)'
  <2>1. TabFollows'
    <3>1. (outlived' <=> (outlived /\ tab' = tab)) /\ rendered'.selected = selectedExecutionId
      BY DEF Render, Scene
    <3>2. SUFFICES ASSUME ~outlived', (selectedExecutionId # None) = (selectedExecutionId' # None) PROVE tab' \in Tabs'
      BY <3>1 DEF TabFollows
    <3>3. Tabs' = Tabs
      BY <3>2 DEF Tabs
    <3>4. CASE rendered # None /\ (rendered.selected # None) = (selectedExecutionId # None)
      <4>1. tab' = tab
        BY <3>4 DEF Render, FollowMode
      <4> QED BY <4>1, <3>1, <3>2, <3>3, <3>4 DEF TabFollows
    <3>5. CASE ~ (rendered # None /\ (rendered.selected # None) = (selectedExecutionId # None))
      BY <3>3, <3>5 DEF Render, FollowMode, Tabs, EditingTabs, PlaybackTabs, CanvasTyped
    <3> QED BY <3>4, <3>5
  <2>2. UrlFollows'
    <3>1. /\ rendered' = Scene /\ (astray' <=> (astray \/ Overtaken))
          /\ UNCHANGED <<owner, routeWorkflowId, searchParams>>
      BY DEF Render
    <3>2. SUFFICES ASSUME selectedExecutionId' = selectedExecutionId,
                          NEW x \in Aims' \ {selectedExecutionId}
                   PROVE  \/ x # None /\ (replacing' # {} \/ rendered'.url # searchParams)
                          \/ x = None /\ (astray' \/ Lost')
      BY <3>1 DEF UrlFollows, Scene
    <3>3. ~Foreign /\ ~FromUrl /\ selectedExecution' = selectedExecution
      BY <3>2 DEF Render, SelectByUrl, FromUrl, Foreign, CanvasTyped
    <3>4. CASE Differs("selected") /\ selectedExecutionId # searchParams
      BY <3>2, <3>3, <3>4 DEF Render, WriteUrl, Aims
    <3>5. CASE Differs("selected") /\ selectedExecutionId = searchParams
      <4>1. replacing' = replacing
        BY <3>3, <3>5 DEF Render, WriteUrl
      <4>2. x \in replacing
        BY <4>1, <3>1, <3>2, <3>5 DEF Aims
      <4> QED BY <4>1, <4>2, <3>1, <3>5 DEF Overtaken
    <3>6. CASE ~Differs("selected")
      <4>1. replacing' = replacing /\ Aims' = Aims
        BY <3>1, <3>3, <3>6 DEF Render, WriteUrl, Aims
      <4>2. rendered # None /\ rendered.selected = selectedExecutionId
        BY <3>6 DEF Differs, Scene
      <4>3. \/ x # None /\ (replacing # {} \/ rendered.url # searchParams)
            \/ x = None /\ (astray \/ Lost)
        BY <4>1, <4>2, <3>2 DEF UrlFollows
      <4>4. CASE x # None
        <5>1. replacing = {} => x = searchParams /\ Differs("url")
          BY <4>1, <4>3, <4>4, <3>2 DEF Aims, Differs, Scene
        <5> QED BY <5>1, <4>1, <4>4, <3>2, <3>3 DEF FromUrl
      <4>5. CASE x = None /\ Lost
        <5>1. selectedExecution = None
          BY <4>5, <3>2, <3>3, <4>2 DEF Foreign, Lost, CanvasTyped, Differs, Scene
        <5>2. rendered'.row = None
          BY <5>1, <3>1 DEF Scene
        <5> QED BY <5>2, <4>5, <3>1, <3>2 DEF Lost
      <4> QED BY <4>3, <4>4, <4>5, <3>1
    <3> QED BY <3>4, <3>5, <3>6
  <2> QED BY <2>1, <2>2
<1>5. (ListFollows /\ CommandsAreMeant)'
  <2>1. rendered' = Scene /\ Scene # None /\ Bar(rendered)' = Bar(Scene) /\ UNCHANGED <<owner, executions, loadingMore, commands>>
    BY DEF Render, Scene, Scenes, CanvasTyped, Bar, LoadExecutions, SameList
  <2>2. CASE rendered = None \/ Bar(rendered) # Bar(Scene)
    <3>1. /\ historyLoads' = historyLoads \cup {Bar(Scene)}
          /\ tangled' <=> (historyLoads \ {Bar(Scene)} # {} \/ loadingMore # {})
      BY <2>2 DEF Render, LoadExecutions
    <3> QED BY <3>1, <2>1 DEF ListFollows, CommandsAreMeant
  <2>3. CASE rendered # None /\ Bar(rendered) = Bar(Scene)
    <3>1. UNCHANGED <<historyLoads, tangled, failed, grown>>
      BY <2>3 DEF Render, SameList
    <3> QED BY <3>1, <2>1, <2>3, GoodListKept DEF ListFollows, CommandsAreMeant
  <2> QED BY <2>2, <2>3
<1> QED BY <1>1, <1>2, <1>3, <1>4, <1>5

LEMMA ReplaceKeeps ==
    ASSUME CanvasInv, Replace
    PROVE  CanvasInv'
<1> USE CanvasAssumption DEF CanvasInv, Execs, urlVars, pickVars, workflowVars, controlVars, listing, canvasHistory
<1>1. CanvasTyped'
  BY DEF Replace, CanvasTyped, Starts, Commands, Lists, Scenes
<1>2. (Numbered /\ HasRoom /\ NamesExist)'
  BY DEF Replace, CanvasTyped, Starts, Lists, Numbered, HasRoom, NamesExist, Exists, NextRun
<1>3. (Restores /\ Loads /\ OwnRow /\ ReplacesOne)'
  BY DEF Replace, CanvasTyped, Scenes, Restores, Loads, OwnRow, ReplacesOne
<1>4. (UrlFollows /\ TabFollows)'
  BY DEF Replace, CanvasTyped, Scenes, UrlFollows, Aims, Lost, TabFollows, Tabs, ReplacesOne
<1>5. (ListFollows /\ CommandsAreMeant)'
  BY GoodListKept DEF Replace, CanvasTyped, Lists, ListFollows, Bar, CommandsAreMeant
<1> QED BY <1>1, <1>2, <1>3, <1>4, <1>5

LEMMA RestoreAnswerKeeps ==
    ASSUME CanvasInv, RestoreAnswer
    PROVE  CanvasInv'
<1> USE CanvasAssumption DEF CanvasInv, Execs, urlVars, pickVars, workflowVars, controlVars, listing, canvasHistory
<1>1. CanvasTyped'
  BY DEF RestoreAnswer, Answered, Steady, Differs, Scene, CanvasTyped, Starts, Commands, Lists, Scenes
<1>2. (Numbered /\ HasRoom /\ NamesExist)'
  BY DEF RestoreAnswer, Answered, Steady, Differs, Scene, CanvasTyped, Starts, Lists, Numbered, HasRoom, NamesExist, Exists, NextRun
<1>3. (Restores /\ Loads /\ OwnRow /\ ReplacesOne)'
  BY DEF RestoreAnswer, Answered, Steady, Differs, Scene, CanvasTyped, Scenes, Restores, Loads, OwnRow, ReplacesOne
<1>4. (UrlFollows /\ TabFollows)'
  BY DEF RestoreAnswer, Answered, Steady, Differs, Scene, CanvasTyped, Scenes, UrlFollows, Aims, Lost, TabFollows, Tabs, ReplacesOne
<1>5. (ListFollows /\ CommandsAreMeant)'
  BY GoodListKept DEF RestoreAnswer, Answered, Steady, Differs, Scene, CanvasTyped, Lists, ListFollows, Bar, CommandsAreMeant
<1> QED BY <1>1, <1>2, <1>3, <1>4, <1>5

LEMMA PickAnswerKeeps ==
    ASSUME CanvasInv, NEW e \in Execs, PickAnswer(e)
    PROVE  CanvasInv'
<1> USE CanvasAssumption DEF CanvasInv, Execs, urlVars, pickVars, workflowVars, controlVars, listing, canvasHistory
<1>1. CanvasTyped'
  BY DEF PickAnswer, Answered, Steady, Differs, Scene, CanvasTyped, Starts, Commands, Lists, Scenes
<1>2. (Numbered /\ HasRoom /\ NamesExist)'
  BY DEF PickAnswer, Answered, Steady, Differs, Scene, CanvasTyped, Starts, Lists, Numbered, HasRoom, NamesExist, Exists, NextRun
<1>3. (Restores /\ Loads /\ OwnRow /\ ReplacesOne)'
  BY DEF PickAnswer, Answered, Steady, Differs, Scene, CanvasTyped, Scenes, Restores, Loads, OwnRow, ReplacesOne
<1>4. (UrlFollows /\ TabFollows)'
  BY DEF PickAnswer, Answered, Steady, Differs, Scene, CanvasTyped, Scenes, UrlFollows, Aims, Lost, TabFollows, Tabs, ReplacesOne
<1>5. (ListFollows /\ CommandsAreMeant)'
  BY GoodListKept DEF PickAnswer, Answered, Steady, Differs, Scene, CanvasTyped, Lists, ListFollows, Bar, CommandsAreMeant
<1> QED BY <1>1, <1>2, <1>3, <1>4, <1>5

LEMMA HistoryAnswerKeeps ==
    ASSUME CanvasInv, NEW w \in Pipelines, HistoryAnswer(w)
    PROVE  CanvasInv'
<1> USE CanvasAssumption DEF CanvasInv, Execs, urlVars, pickVars, workflowVars, controlVars, listing, canvasHistory
<1>1. CanvasTyped'
  <2>1. PageOf(w, 1) \in Seq(Execs) /\ Total(w) \in Nat
    BY PagesAre, HistoryIs
  <2>2. executions' \in Lists
    BY <2>1 DEF HistoryAnswer, Lists
  <2>3. loadingHistory' \in BOOLEAN /\ (loadingHistory' => historyLoads' # {}) /\ grown' \in BOOLEAN
    BY DEF HistoryAnswer
  <2> QED BY <2>2, <2>3 DEF HistoryAnswer, CanvasTyped
<1>2. (Numbered /\ HasRoom /\ NamesExist)'
  <2>1. ToSet(PageOf(w, 1)) \subseteq OwnedBy(w)
    BY PagesAre
  <2>2. \A e \in ToSet(executions'.rows) : owner[e] # None
    BY <2>1 DEF HistoryAnswer, OwnedBy
  <2>3. NextRun' = NextRun
    BY DEF HistoryAnswer, NextRun
  <2> QED BY <2>2, <2>3 DEF HistoryAnswer, CanvasTyped, Numbered, HasRoom, NamesExist, Exists
<1>3. (Restores /\ Loads /\ OwnRow /\ ReplacesOne)'
  BY DEF HistoryAnswer, Answered, Steady, Differs, Scene, CanvasTyped, Scenes, Restores, Loads, OwnRow, ReplacesOne
<1>4. (UrlFollows /\ TabFollows)'
  BY DEF HistoryAnswer, Answered, Steady, Differs, Scene, CanvasTyped, Scenes, UrlFollows, Aims, Lost, TabFollows, Tabs, ReplacesOne
<1>5. (ListFollows /\ CommandsAreMeant)'
  <2>1. /\ executions'.rows = PageOf(w, 1) /\ executions'.of = w /\ executions'.page = 1 /\ executions'.total = Total(w)
        /\ historyLoads' = historyLoads \ {w}
        /\ UNCHANGED <<owner, commands, rendered, loadingMore, tangled, failed>>
    BY DEF HistoryAnswer
  <2>2. IsInjective(PageOf(w, 1)) /\ PageOf(w, 1) = Upto(w, 1)
    BY PagesAre
  <2>3. Total(w)' = Total(w) /\ Upto(w, 1)' = Upto(w, 1) /\ (rendered # None => Bar(rendered)' = Bar(rendered))
    BY <2>1 DEF Total, Upto, History, OwnedBy, Bar
  <2>4. ListIsPages'
    BY <2>1, <2>2, <2>3 DEF ListIsPages
  <2> QED BY <2>1, <2>2, <2>3, <2>4 DEF HistoryAnswer, ListFollows, CommandsAreMeant
<1> QED BY <1>1, <1>2, <1>3, <1>4, <1>5

LEMMA MoreAnswerKeeps ==
    ASSUME CanvasInv, MoreAnswer
    PROVE  CanvasInv'
<1> USE CanvasAssumption DEF CanvasInv, Execs, urlVars, pickVars, workflowVars, controlVars, listing, canvasHistory
<1>1. CanvasTyped'
  <2>1. executions' \in Lists
    BY MoreIs DEF ListFollows
  <2> QED BY <2>1 DEF MoreAnswer, CanvasTyped
<1>2. (Numbered /\ HasRoom /\ NamesExist)'
  <2>1. \A e \in ToSet(executions'.rows) : owner[e] # None
    <3>1. \A e \in ToSet(executions'.rows) : e \in ToSet(executions.rows) \/ owner[e] # None
      BY MoreIs DEF ListFollows
    <3>2. \A e \in ToSet(executions.rows) : owner[e] # None
      BY RowsAre DEF NamesExist, Exists
    <3> QED BY <3>1, <3>2
  <2>2. NextRun' = NextRun
    BY DEF MoreAnswer, NextRun
  <2> QED BY <2>1, <2>2 DEF MoreAnswer, CanvasTyped, Numbered, HasRoom, NamesExist, Exists
<1>3. (Restores /\ Loads /\ OwnRow /\ ReplacesOne)'
  BY DEF MoreAnswer, Answered, Steady, Differs, Scene, CanvasTyped, Scenes, Restores, Loads, OwnRow, ReplacesOne
<1>4. (UrlFollows /\ TabFollows)'
  BY DEF MoreAnswer, Answered, Steady, Differs, Scene, CanvasTyped, Scenes, UrlFollows, Aims, Lost, TabFollows, Tabs, ReplacesOne
<1>5. (ListFollows /\ CommandsAreMeant)'
  <2>1. /\ executions'.of = executions.of /\ IsInjective(executions'.rows) /\ loadingMore' = {}
        /\ UNCHANGED <<owner, commands, rendered, historyLoads, tangled, failed, grown>>
    BY MoreIs DEF MoreAnswer, ListFollows
  <2>2. ASSUME ~tangled, ~failed, ~grown, executions.of # None PROVE ListIsPages'
    <3>1. PICK more \in loadingMore :
            executions'.page = more.page /\ executions'.total = Total(more.of)
            /\ executions'.rows = executions.rows \o Filtered(PageOf(more.of, more.page), Execs \ ToSet(executions.rows))
      BY MoreIs DEF ListFollows
    <3>2. more.of = executions.of /\ more.page = executions.page + 1 /\ ListIsPages
      BY <2>2 DEF ListFollows
    <3>3. executions.page \in Nat \ {0} /\ executions.rows = Upto(executions.of, executions.page)
      BY <3>2 DEF ListIsPages, CanvasTyped, Lists
    <3> DEFINE of == executions.of
               page == executions.page
    <3>4. executions'.rows = Upto(of, page + 1) /\ executions'.page # 0
      <4>1. executions'.rows = Upto(of, page) \o Filtered(PageOf(of, page + 1), Execs \ ToSet(Upto(of, page)))
        BY <3>1, <3>2, <3>3
      <4>2. page \in Nat \ {0} /\ executions'.page = page + 1
        BY <3>1, <3>2, <3>3
      <4> HIDE DEF page
      <4>3. Upto(of, page) \o Filtered(PageOf(of, page + 1), Execs \ ToSet(Upto(of, page))) = Upto(of, page + 1)
        BY <4>2, NextPage
      <4>4. executions'.rows = Upto(of, page + 1)
        BY <4>1, <4>3, Zenon
      <4> QED BY <4>2, <4>4
    <3>5. ASSUME NEW w, NEW k PROVE Total(w)' = Total(w) /\ Upto(w, k)' = Upto(w, k)
      BY <2>1 DEF Total, Upto, History, OwnedBy
    <3>6. PICK w, k : w = executions'.of /\ k = executions'.page
      OBVIOUS
    <3>7. executions'.total = Total(w) /\ k # 0
      BY <2>1, <3>1, <3>2, <3>4, <3>6
    <3>8. executions'.rows = Upto(w, k)
      <4>1. w = of /\ k = page + 1
        BY <2>1, <3>1, <3>2, <3>6
      <4> QED BY <3>4, <4>1
    <3>9. Total(w)' = Total(w) /\ Upto(w, k)' = Upto(w, k)
      BY <3>5
    <3> QED BY <3>6, <3>7, <3>8, <3>9 DEF ListIsPages
  <2>3. rendered # None => Bar(rendered)' = Bar(rendered)
    BY <2>1 DEF Bar
  <2> QED BY <2>1, <2>2, <2>3 DEF ListFollows, CommandsAreMeant
<1> QED BY <1>1, <1>2, <1>3, <1>4, <1>5

LEMMA RunOnServerKeeps ==
    ASSUME CanvasInv, RunOnServer
    PROVE  CanvasInv'
<1> USE CanvasAssumption DEF CanvasInv, Execs, urlVars, pickVars, workflowVars, controlVars, listing, canvasHistory
<1>1. CanvasTyped'
  <2>1. owner' \in [Execs -> Pipelines \cup {None}] /\ starting' \in Starts /\ grown' \in BOOLEAN
    BY RunOnServerInserts DEF CanvasTyped
  <2> QED BY <2>1 DEF RunOnServer, CanvasTyped
<1>2. (Numbered /\ HasRoom /\ NamesExist)'
  BY RunOnServerInserts, RowsAre DEF RunOnServer, CanvasTyped, NamesExist, Exists
<1>3. (Restores /\ Loads /\ OwnRow /\ ReplacesOne)'
  BY RunOnServerInserts DEF RunOnServer, CanvasTyped, Scenes, Restores, Loads, OwnRow, ReplacesOne, NamesExist, Exists
<1>4. (UrlFollows /\ TabFollows)'
  <2>1. TabFollows'
    BY DEF RunOnServer, TabFollows, Tabs
  <2>2. selectedExecutionId # None => owner'[selectedExecutionId] = owner[selectedExecutionId]
    BY RunOnServerInserts DEF NamesExist, Exists, CanvasTyped
  <2>3. UrlFollows'
    BY <2>2 DEF RunOnServer, UrlFollows, Aims, Lost
  <2> QED BY <2>1, <2>3
<1>5. (ListFollows /\ CommandsAreMeant)'
  <2>1. UNCHANGED <<executions, loadingMore, historyLoads, tangled, failed, commands, rendered>>
    BY DEF RunOnServer
  <2>2. CASE grown' = TRUE
    BY <2>1, <2>2 DEF ListFollows, CommandsAreMeant, Bar
  <2>3. CASE UNCHANGED <<owner, grown>>
    BY <2>1, <2>3, GoodListKept DEF ListFollows, CommandsAreMeant, Bar
  <2> QED BY <2>2, <2>3, RunOnServerInserts
<1> QED BY <1>1, <1>2, <1>3, <1>4, <1>5

LEMMA RunAnswerKeeps ==
    ASSUME CanvasInv, RunAnswer
    PROVE  CanvasInv'
<1> USE CanvasAssumption DEF CanvasInv, Execs, urlVars, pickVars, workflowVars, controlVars, listing, canvasHistory
<1>1. CanvasTyped'
  <2>1. starting' \in Starts
    BY DEF RunAnswer, CanvasTyped, Starts
  <2>2. starting.exec \in Execs \cup {None}
    BY DEF CanvasTyped, Starts
  <2> QED BY <2>1, <2>2 DEF RunAnswer, Select, CanvasTyped
<1>2. (Numbered /\ HasRoom /\ NamesExist)'
  BY DEF RunAnswer, Answered, Steady, Differs, Scene, Select, CanvasTyped, Starts, Lists, Numbered, HasRoom, NamesExist, Exists, NextRun
<1>3. (Restores /\ Loads /\ OwnRow /\ ReplacesOne)'
  BY DEF RunAnswer, Answered, Steady, Differs, Scene, Select, CanvasTyped, Scenes, Restores, Loads, OwnRow, ReplacesOne
<1>4. (UrlFollows /\ TabFollows)'
  BY DEF RunAnswer, Answered, Steady, Differs, Scene, Select, CanvasTyped, Scenes, UrlFollows, Aims, Lost, TabFollows, Tabs, ReplacesOne
<1>5. (ListFollows /\ CommandsAreMeant)'
  BY GoodListKept DEF RunAnswer, Answered, Steady, Differs, Scene, Select, CanvasTyped, Lists, ListFollows, Bar, CommandsAreMeant
<1> QED BY <1>1, <1>2, <1>3, <1>4, <1>5

LEMMA ShowLogsKeeps ==
    ASSUME CanvasInv, ShowLogs
    PROVE  CanvasInv'
<1> USE CanvasAssumption DEF CanvasInv, Execs, urlVars, pickVars, workflowVars, controlVars, listing, canvasHistory
<1>1. CanvasTyped'
  <2>1. starting' \in Starts
    BY DEF ShowLogs, NotStarting, Starts
  <2>2. tab' \in EditingTabs \cup PlaybackTabs /\ outlived' \in BOOLEAN
    BY DEF ShowLogs, CanvasTyped, EditingTabs, PlaybackTabs
  <2> QED BY <2>1, <2>2 DEF ShowLogs, CanvasTyped
<1>2. (Numbered /\ HasRoom /\ NamesExist)'
  BY DEF ShowLogs, Scene, NotStarting, CanvasTyped, Starts, Lists, Numbered, HasRoom, NamesExist, Exists, NextRun
<1>3. (Restores /\ Loads /\ OwnRow /\ ReplacesOne)'
  BY DEF ShowLogs, Scene, NotStarting, CanvasTyped, Scenes, Restores, Loads, OwnRow, ReplacesOne
<1>4. (UrlFollows /\ TabFollows)'
  <2>1. UrlFollows'
    BY DEF ShowLogs, UrlFollows, Aims, Lost
  <2>2. UNCHANGED <<rendered, selectedExecutionId>> /\ Tabs' = Tabs
    BY DEF ShowLogs, Tabs
  <2>3. CASE starting.here
    <3>1. tab' = "logs" /\ (~outlived' => selectedExecutionId # None)
      BY <2>3 DEF ShowLogs
    <3>2. ~outlived' => tab' \in Tabs'
      BY <3>1, <2>2 DEF Tabs, PlaybackTabs
    <3> QED BY <2>1, <3>2 DEF TabFollows
  <2>4. CASE ~starting.here
    <3>1. UNCHANGED <<tab, outlived>>
      BY <2>4 DEF ShowLogs
    <3> QED BY <2>1, <3>1, <2>2 DEF TabFollows
  <2> QED BY <2>1, <2>3, <2>4
<1>5. (ListFollows /\ CommandsAreMeant)'
  BY GoodListKept DEF ShowLogs, Scene, NotStarting, CanvasTyped, Lists, ListFollows, Bar, CommandsAreMeant
<1> QED BY <1>1, <1>2, <1>3, <1>4, <1>5

LEMMA CommandAnswerKeeps ==
    ASSUME CanvasInv, NEW c \in commands, CommandAnswer(c)
    PROVE  CanvasInv'
<1> USE CanvasAssumption DEF CanvasInv, Execs, urlVars, pickVars, workflowVars, controlVars, listing, canvasHistory
<1>1. CanvasTyped'
  BY DEF CommandAnswer, CanvasTyped, Starts, Commands, Lists, Scenes
<1>2. (Numbered /\ HasRoom /\ NamesExist)'
  BY DEF CommandAnswer, CanvasTyped, Starts, Lists, Numbered, HasRoom, NamesExist, Exists, NextRun
<1>3. (Restores /\ Loads /\ OwnRow /\ ReplacesOne)'
  BY DEF CommandAnswer, CanvasTyped, Scenes, Restores, Loads, OwnRow, ReplacesOne
<1>4. (UrlFollows /\ TabFollows)'
  BY DEF CommandAnswer, CanvasTyped, Scenes, UrlFollows, Aims, Lost, TabFollows, Tabs, ReplacesOne
<1>5. (ListFollows /\ CommandsAreMeant)'
  BY GoodListKept DEF CommandAnswer, CanvasTyped, Lists, ListFollows, Bar, CommandsAreMeant
<1> QED BY <1>1, <1>2, <1>3, <1>4, <1>5

LEMMA RestoreFailsKeeps ==
    ASSUME CanvasInv, RestoreFails
    PROVE  CanvasInv'
<1> USE CanvasAssumption DEF CanvasInv, Execs, urlVars, pickVars, workflowVars, controlVars, listing, canvasHistory
<1>1. CanvasTyped'
  BY DEF RestoreFails, Failing, Steady, Differs, Scene, CanvasTyped, Starts, Commands, Lists, Scenes
<1>2. (Numbered /\ HasRoom /\ NamesExist)'
  BY DEF RestoreFails, Failing, Steady, Differs, Scene, CanvasTyped, Starts, Lists, Numbered, HasRoom, NamesExist, Exists, NextRun
<1>3. (Restores /\ Loads /\ OwnRow /\ ReplacesOne)'
  BY DEF RestoreFails, Failing, Steady, Differs, Scene, CanvasTyped, Scenes, Restores, Loads, OwnRow, ReplacesOne
<1>4. (UrlFollows /\ TabFollows)'
  BY DEF RestoreFails, Failing, Steady, Differs, Scene, CanvasTyped, Scenes, UrlFollows, Aims, Lost, TabFollows, Tabs, ReplacesOne
<1>5. (ListFollows /\ CommandsAreMeant)'
  BY GoodListKept DEF RestoreFails, Failing, Steady, Differs, Scene, CanvasTyped, Lists, ListFollows, Bar, CommandsAreMeant
<1> QED BY <1>1, <1>2, <1>3, <1>4, <1>5

LEMMA MoreFailsKeeps ==
    ASSUME CanvasInv, MoreFails
    PROVE  CanvasInv'
<1> USE CanvasAssumption DEF CanvasInv, Execs, urlVars, pickVars, workflowVars, controlVars, listing, canvasHistory
<1>1. CanvasTyped'
  BY DEF MoreFails, Failing, Steady, Differs, Scene, CanvasTyped, Starts, Commands, Lists, Scenes
<1>2. (Numbered /\ HasRoom /\ NamesExist)'
  BY DEF MoreFails, Failing, Steady, Differs, Scene, CanvasTyped, Starts, Lists, Numbered, HasRoom, NamesExist, Exists, NextRun
<1>3. (Restores /\ Loads /\ OwnRow /\ ReplacesOne)'
  BY DEF MoreFails, Failing, Steady, Differs, Scene, CanvasTyped, Scenes, Restores, Loads, OwnRow, ReplacesOne
<1>4. (UrlFollows /\ TabFollows)'
  BY DEF MoreFails, Failing, Steady, Differs, Scene, CanvasTyped, Scenes, UrlFollows, Aims, Lost, TabFollows, Tabs, ReplacesOne
<1>5. (ListFollows /\ CommandsAreMeant)'
  BY GoodListKept DEF MoreFails, Failing, Steady, Differs, Scene, CanvasTyped, Lists, ListFollows, Bar, CommandsAreMeant
<1> QED BY <1>1, <1>2, <1>3, <1>4, <1>5

LEMMA RunFailsKeeps ==
    ASSUME CanvasInv, RunFails
    PROVE  CanvasInv'
<1> USE CanvasAssumption DEF CanvasInv, Execs, urlVars, pickVars, workflowVars, controlVars, listing, canvasHistory
<1>1. CanvasTyped'
  BY DEF RunFails, Failing, Steady, Differs, Scene, NotStarting, CanvasTyped, Starts, Commands, Lists, Scenes
<1>2. (Numbered /\ HasRoom /\ NamesExist)'
  BY DEF RunFails, Failing, Steady, Differs, Scene, NotStarting, CanvasTyped, Starts, Lists, Numbered, HasRoom, NamesExist, Exists, NextRun
<1>3. (Restores /\ Loads /\ OwnRow /\ ReplacesOne)'
  BY DEF RunFails, Failing, Steady, Differs, Scene, NotStarting, CanvasTyped, Scenes, Restores, Loads, OwnRow, ReplacesOne
<1>4. (UrlFollows /\ TabFollows)'
  BY DEF RunFails, Failing, Steady, Differs, Scene, NotStarting, CanvasTyped, Scenes, UrlFollows, Aims, Lost, TabFollows, Tabs, ReplacesOne
<1>5. (ListFollows /\ CommandsAreMeant)'
  BY GoodListKept DEF RunFails, Failing, Steady, Differs, Scene, NotStarting, CanvasTyped, Lists, ListFollows, Bar, CommandsAreMeant
<1> QED BY <1>1, <1>2, <1>3, <1>4, <1>5

LEMMA PickFailsKeeps ==
    ASSUME CanvasInv, NEW e \in Execs, PickFails(e)
    PROVE  CanvasInv'
<1> USE CanvasAssumption DEF CanvasInv, Execs, urlVars, pickVars, workflowVars, controlVars, listing, canvasHistory
<1>1. CanvasTyped'
  BY DEF PickFails, Failing, Steady, Differs, Scene, CanvasTyped, Starts, Commands, Lists, Scenes
<1>2. (Numbered /\ HasRoom /\ NamesExist)'
  BY DEF PickFails, Failing, Steady, Differs, Scene, CanvasTyped, Starts, Lists, Numbered, HasRoom, NamesExist, Exists, NextRun
<1>3. (Restores /\ Loads /\ OwnRow /\ ReplacesOne)'
  BY DEF PickFails, Failing, Steady, Differs, Scene, CanvasTyped, Scenes, Restores, Loads, OwnRow, ReplacesOne
<1>4. (UrlFollows /\ TabFollows)'
  BY DEF PickFails, Failing, Steady, Differs, Scene, CanvasTyped, Scenes, UrlFollows, Aims, Lost, TabFollows, Tabs, ReplacesOne
<1>5. (ListFollows /\ CommandsAreMeant)'
  BY GoodListKept DEF PickFails, Failing, Steady, Differs, Scene, CanvasTyped, Lists, ListFollows, Bar, CommandsAreMeant
<1> QED BY <1>1, <1>2, <1>3, <1>4, <1>5

LEMMA HistoryFailsKeeps ==
    ASSUME CanvasInv, NEW w \in Pipelines, HistoryFails(w)
    PROVE  CanvasInv'
<1> USE CanvasAssumption DEF CanvasInv, Execs, urlVars, pickVars, workflowVars, controlVars, listing, canvasHistory
<1>1. CanvasTyped'
  <2>1. loadingHistory' \in BOOLEAN /\ (loadingHistory' => historyLoads' # {}) /\ failed' \in BOOLEAN
    BY DEF HistoryFails
  <2> QED BY <2>1 DEF HistoryFails, CanvasTyped
<1>2. (Numbered /\ HasRoom /\ NamesExist)'
  BY DEF HistoryFails, Failing, Steady, Differs, Scene, CanvasTyped, Starts, Lists, Numbered, HasRoom, NamesExist, Exists, NextRun
<1>3. (Restores /\ Loads /\ OwnRow /\ ReplacesOne)'
  BY DEF HistoryFails, Failing, Steady, Differs, Scene, CanvasTyped, Scenes, Restores, Loads, OwnRow, ReplacesOne
<1>4. (UrlFollows /\ TabFollows)'
  BY DEF HistoryFails, Failing, Steady, Differs, Scene, CanvasTyped, Scenes, UrlFollows, Aims, Lost, TabFollows, Tabs, ReplacesOne
<1>5. (ListFollows /\ CommandsAreMeant)'
  BY GoodListKept DEF HistoryFails, Failing, Steady, Differs, Scene, CanvasTyped, Lists, ListFollows, Bar, CommandsAreMeant
<1> QED BY <1>1, <1>2, <1>3, <1>4, <1>5

LEMMA OthersRunKeeps ==
    ASSUME CanvasInv, OthersRun
    PROVE  CanvasInv'
<1> USE CanvasAssumption DEF CanvasInv, Execs, urlVars, pickVars, workflowVars, controlVars, listing, canvasHistory
<1>1. CanvasTyped'
  <2>1. owner' \in [Execs -> Pipelines \cup {None}] /\ starting' \in Starts /\ grown' \in BOOLEAN
    BY OthersRunInserts DEF CanvasTyped
  <2> QED BY <2>1 DEF OthersRun, CanvasTyped
<1>2. (Numbered /\ HasRoom /\ NamesExist)'
  BY OthersRunInserts, RowsAre DEF OthersRun, CanvasTyped, NamesExist, Exists, Starts
<1>3. (Restores /\ Loads /\ OwnRow /\ ReplacesOne)'
  BY OthersRunInserts DEF OthersRun, CanvasTyped, Scenes, Restores, Loads, OwnRow, ReplacesOne, NamesExist, Exists
<1>4. (UrlFollows /\ TabFollows)'
  <2>1. TabFollows'
    BY DEF OthersRun, TabFollows, Tabs
  <2>2. selectedExecutionId # None => owner'[selectedExecutionId] = owner[selectedExecutionId]
    BY OthersRunInserts DEF NamesExist, Exists, CanvasTyped
  <2>3. UrlFollows'
    BY <2>2 DEF OthersRun, UrlFollows, Aims, Lost
  <2> QED BY <2>1, <2>3
<1>5. (ListFollows /\ CommandsAreMeant)'
  <2>1. UNCHANGED <<executions, loadingMore, historyLoads, tangled, failed, commands, rendered>>
    BY DEF OthersRun
  <2>2. CASE grown' = TRUE
    BY <2>1, <2>2 DEF ListFollows, CommandsAreMeant, Bar
  <2>3. CASE UNCHANGED <<owner, grown>>
    BY <2>1, <2>3, GoodListKept DEF ListFollows, CommandsAreMeant, Bar
  <2> QED BY <2>2, <2>3, OthersRunInserts
<1> QED BY <1>1, <1>2, <1>3, <1>4, <1>5

LEMMA CommandIs ==
    ASSUME NEW c \in Commands
    PROVE  [c EXCEPT !.here = FALSE] \in Commands
BY DEF Commands

LEMMA CanvasLeaveKeeps ==
    ASSUME CanvasInv, CanvasLeave
    PROVE  CanvasInv'
<1> USE CanvasAssumption DEF CanvasInv, Execs, urlVars, pickVars, workflowVars, controlVars, listing, canvasHistory
<1>1. CanvasTyped'
  <2>1. starting' \in Starts
    BY DEF CanvasLeave, CanvasTyped, Starts
  <2>2. commands' \subseteq Commands
    <3>1. ASSUME NEW c \in Commands PROVE [c EXCEPT !.here = FALSE] \in Commands
      BY CommandIs
    <3>2. commands \subseteq Commands /\ commands' = {[c EXCEPT !.here = FALSE] : c \in commands}
      BY DEF CanvasTyped, CanvasLeave
    <3> QED BY <3>1, <3>2
  <2>3. tab' \in EditingTabs \cup PlaybackTabs
    BY DEF CanvasLeave, EditingTabs
  <2> QED BY <2>1, <2>2, <2>3 DEF CanvasLeave, CanvasTyped
<1>2. (Numbered /\ HasRoom /\ NamesExist)'
  BY DEF CanvasLeave, CanvasTyped, Starts, Lists, Numbered, HasRoom, NamesExist, Exists, NextRun
<1>3. (Restores /\ Loads /\ OwnRow /\ ReplacesOne)'
  BY DEF CanvasLeave, CanvasTyped, Scenes, Restores, Loads, OwnRow, ReplacesOne
<1>4. (UrlFollows /\ TabFollows)'
  BY DEF CanvasLeave, CanvasTyped, Scenes, UrlFollows, Aims, Lost, TabFollows, Tabs, ReplacesOne
<1>5. (ListFollows /\ CommandsAreMeant)'
  <2>1. CommandsAreMeant'
    BY DEF CanvasLeave, CommandsAreMeant, CanvasTyped, Commands
  <2> QED BY <2>1, GoodListKept DEF CanvasLeave, ListFollows
<1> QED BY <1>1, <1>2, <1>3, <1>4, <1>5

LEMMA CanvasInvKept ==
    ASSUME CanvasInv, CanvasStep
    PROVE  CanvasInv'
<1>1. CASE CanvasUser
  BY <1>1, HandleSelectKeeps, HandleExitKeeps, LoadMoreExecutionsKeeps, HandleRunKeeps, HandlePauseResumeKeeps, HandleCancelKeeps,
     AnswerDialogKeeps, SetTabKeeps, GoBackKeeps DEF CanvasUser
<1>2. CASE CanvasSystem
  BY <1>2, RenderKeeps, ReplaceKeeps, RestoreAnswerKeeps, PickAnswerKeeps, HistoryAnswerKeeps, MoreAnswerKeeps,
     RunOnServerKeeps, RunAnswerKeeps, ShowLogsKeeps, CommandAnswerKeeps DEF CanvasSystem
<1>3. CASE CanvasUpsets
  BY <1>3, RestoreFailsKeeps, MoreFailsKeeps, RunFailsKeeps, PickFailsKeeps, HistoryFailsKeeps, OthersRunKeeps DEF CanvasUpsets
<1>4. CASE UNCHANGED canvasVars
  <2> USE <1>4 DEF canvasVars, urlVars, pickVars, workflowVars, controlVars, listing, canvasHistory, CanvasInv
  <2>1. CanvasTyped'
    BY DEF CanvasTyped
  <2>2. (Numbered /\ HasRoom /\ NamesExist)'
    BY DEF Numbered, HasRoom, NextRun, NamesExist, Exists
  <2>3. (Restores /\ Loads /\ OwnRow /\ ReplacesOne)'
    BY DEF Restores, Loads, OwnRow, ReplacesOne
  <2>4. (UrlFollows /\ TabFollows)'
    BY DEF UrlFollows, Aims, Lost, TabFollows, Tabs
  <2>5. (ListFollows /\ CommandsAreMeant)'
    BY GoodListKept DEF ListFollows, Bar, CommandsAreMeant
  <2> QED BY <2>1, <2>2, <2>3, <2>4, <2>5
<1> QED BY <1>1, <1>2, <1>3, <1>4, CanvasLeaveKeeps DEF CanvasStep, CanvasNext

LEMMA LinkedAre == \A e \in Linked : e \in Execs /\ e <= Len(Owners)
<1>1. Len(Owners) \in Nat /\ DOMAIN Owners = 1 .. Len(Owners) /\ Len(Owners) <= MaxRuns /\ MaxRuns \in Nat
  BY CanvasAssumption
<1> QED BY <1>1, CanvasAssumption DEF Execs

LEMMA CanvasBegins ==
    ASSUME CanvasInit
    PROVE  CanvasInv
<1> USE CanvasAssumption DEF CanvasInit
<1>1. /\ owner \in [Execs -> Pipelines \cup {None}]
      /\ \A e \in Execs : owner[e] # None <=> e <= Len(Owners)
      /\ Len(Owners) \in 0 .. MaxRuns /\ DOMAIN Owners = 1 .. Len(Owners) /\ DOMAIN Owners \subseteq Execs
      /\ \A w \in Pipelines : \A e \in OwnedBy(w) : e \in Execs /\ owner[e] = w /\ owner[e] # None
  <2>1. owner = [e \in Execs |-> IF e \in DOMAIN Owners THEN Owners[e] ELSE None]
    OBVIOUS
  <2>2. DOMAIN Owners = 1 .. Len(Owners) /\ Len(Owners) \in 0 .. MaxRuns /\ DOMAIN Owners \subseteq Execs
    BY DEF Execs
  <2>3. \A e \in DOMAIN Owners : Owners[e] \in Pipelines
    BY <2>2
  <2>4. None \notin Pipelines /\ \A e \in Execs : owner[e] = IF e \in DOMAIN Owners THEN Owners[e] ELSE None
    BY <2>1
  <2>5. \A e \in Execs : owner[e] # None <=> e <= Len(Owners)
    BY <2>2, <2>3, <2>4 DEF Execs
  <2>6. owner \in [Execs -> Pipelines \cup {None}]
    BY <2>1, <2>3
  <2>7. \A w \in Pipelines : \A e \in OwnedBy(w) : e \in Execs /\ owner[e] = w /\ owner[e] # None
    BY <2>4 DEF OwnedBy
  <2> QED BY <2>2, <2>5, <2>6, <2>7
<1>2. /\ searchParams \in Execs \cup {None} /\ Exists(searchParams)
      /\ behind \in [route : Pipelines, url : Execs \cup {None}] /\ Exists(behind.url)
  <2>1. ASSUME NEW e \in Linked PROVE e \in Execs /\ owner[e] # None
    BY <1>1, LinkedAre, Zenon
  <2>2. CASE route = "canvas"
    <3>1. searchParams \in Linked \cup {None}
      BY <2>2
    <3>2. PICK w \in Pipelines : \E e \in OwnedBy(w) \cup {None} : behind = [route |-> w, url |-> e]
      BY <2>2
    <3>3. PICK e \in OwnedBy(w) \cup {None} : behind = [route |-> w, url |-> e]
      BY <3>2
    <3>4. e \in Execs \cup {None} /\ Exists(e)
      BY <1>1 DEF Exists
    <3>5. searchParams \in Execs \cup {None} /\ Exists(searchParams)
      BY <2>1, <3>1 DEF Exists
    <3> QED BY <3>3, <3>4, <3>5
  <2>3. CASE route # "canvas"
    BY <2>3 DEF Exists
  <2> QED BY <2>2, <2>3
<1>3. /\ currentWorkflow \in Pipelines \cup {None}
      /\ selectedExecutionId \in Execs \cup {None} /\ Exists(selectedExecutionId)
  BY <1>1 DEF Exists
<1>4. /\ executions \in Lists /\ IsInjective(executions.rows)
      /\ \A e \in ToSet(executions.rows) : Exists(e)
      /\ executions.of # None => ListIsPages
  <2>1. CASE currentWorkflow = None
    <3>1. executions = NoList /\ <<>> \in Seq(Execs) /\ DOMAIN <<>> = {}
      BY <2>1
    <3> QED BY <3>1 DEF NoList, Lists, IsInjective, ToSet
  <2>2. CASE currentWorkflow # None
    <3>1. executions = [rows |-> PageOf(currentWorkflow, 1), of |-> currentWorkflow, page |-> 1, total |-> Total(currentWorkflow)]
      BY <2>2
    <3>2. /\ PageOf(currentWorkflow, 1) \in Seq(Execs) /\ ToSet(PageOf(currentWorkflow, 1)) \subseteq OwnedBy(currentWorkflow)
          /\ IsInjective(PageOf(currentWorkflow, 1)) /\ PageOf(currentWorkflow, 1) = Upto(currentWorkflow, 1)
          /\ Total(currentWorkflow) \in Nat
      BY PagesAre, HistoryIs
    <3>3. executions \in Lists /\ ListIsPages
      BY <3>1, <3>2, <1>3 DEF Lists, ListIsPages
    <3>4. \A e \in ToSet(executions.rows) : owner[e] # None
      <4>1. currentWorkflow \in Pipelines /\ executions.rows = PageOf(currentWorkflow, 1)
        BY <3>1, <2>2, <1>3
      <4> QED BY <4>1, <3>2, <1>1
    <3>5. IsInjective(executions.rows)
      BY <3>1, <3>2
    <3> QED BY <3>3, <3>4, <3>5 DEF Exists
  <2> QED BY <2>1, <2>2
<1>5. CanvasTyped
  <2>1. starting \in Starts /\ commands \subseteq Commands /\ tab \in EditingTabs \cup PlaybackTabs
    BY DEF NotStarting, Starts, EditingTabs
  <2> QED BY <2>1, <1>1, <1>2, <1>3, <1>4 DEF CanvasTyped
<1>6. Numbered /\ HasRoom /\ NamesExist
  BY <1>1, <1>2, <1>3, <1>4 DEF Numbered, HasRoom, NamesExist, NotStarting, Exists
<1>7. Restores /\ Loads /\ OwnRow /\ ReplacesOne /\ UrlFollows /\ TabFollows /\ CommandsAreMeant
  BY DEF Restores, Loads, OwnRow, ReplacesOne, UrlFollows, TabFollows, CommandsAreMeant
<1>8. ListFollows
  BY <1>4 DEF ListFollows
<1> QED BY <1>5, <1>6, <1>7, <1>8 DEF CanvasInv

LEMMA CanvasInvAgrees == CanvasInv => CanvasTypeOK /\ CanvasAgrees
<1> SUFFICES ASSUME CanvasInv PROVE CanvasTypeOK /\ CanvasAgrees
  OBVIOUS
<1> USE DEF CanvasInv
<1>1. CanvasTypeOK
  BY DEF CanvasTyped, CanvasTypeOK
<1>2. UrlTellsThePage
  <2> SUFFICES ASSUME CanvasAtRest, ~failed, ~astray
               PROVE  /\ currentWorkflow = routeWorkflowId
                      /\ searchParams = selectedExecutionId /\ selectedExecution = selectedExecutionId
                      /\ selectedExecutionId # None => owner[selectedExecutionId] = routeWorkflowId
    BY DEF UrlTellsThePage
  <2>1. /\ rendered # None /\ rendered.route = routeWorkflowId /\ rendered.url = searchParams
        /\ rendered.workflow = currentWorkflow /\ rendered.selected = selectedExecutionId /\ rendered.row = selectedExecution
        /\ replacing = {} /\ restoring = None /\ picks = {}
    <3>1. rendered = Scene /\ Scene \in Scenes
      BY DEF CanvasAtRest, Scene, Scenes, CanvasTyped
    <3> QED BY <3>1, CanvasAssumption DEF CanvasAtRest, Scene
  <2>2. currentWorkflow = routeWorkflowId
    BY <2>1 DEF Restores
  <2>3. selectedExecution = selectedExecutionId
    BY <2>1 DEF Loads, CanvasTyped
  <2>4. selectedExecutionId # None => owner[selectedExecutionId] = routeWorkflowId
    BY <2>1, <2>3 DEF OwnRow
  <2>5. searchParams = selectedExecutionId
    BY <2>1, <2>3, <2>4 DEF UrlFollows, Aims, Lost
  <2> QED BY <2>2, <2>3, <2>4, <2>5
<1>3. TabIsOfTheMode
  <2>1. CanvasAtRest => rendered # None /\ rendered.selected = selectedExecutionId
    BY CanvasAssumption DEF CanvasAtRest, Scene, Scenes, CanvasTyped
  <2> QED BY <2>1 DEF TabFollows, TabIsOfTheMode
<1>4. HistoryIsAPrefix
  <2> SUFFICES ASSUME CanvasAtRest, ListAtRest, ~failed, ~grown, ~tangled
               PROVE  /\ executions.of = routeWorkflowId
                      /\ IsPrefix(executions.rows, History(routeWorkflowId)) /\ executions.total = Total(routeWorkflowId)
                      /\ Len(executions.rows) = IF executions.page * HistoryPage < executions.total
                                                THEN executions.page * HistoryPage ELSE executions.total
    BY DEF HistoryIsAPrefix, ListFollows
  <2>1. rendered # None /\ Bar(rendered) = routeWorkflowId
    <3>1. rendered = Scene /\ Scene \in Scenes /\ restoring = None
      BY DEF CanvasAtRest, Scene, Scenes, CanvasTyped
    <3>2. rendered # None /\ rendered.workflow = currentWorkflow /\ rendered.route = routeWorkflowId
      BY <3>1, CanvasAssumption DEF Scene
    <3> QED BY <3>1, <3>2 DEF Bar, Restores
  <2> DEFINE of == executions.of
             h == History(of)
             end == executions.page * HistoryPage
             n == IF end < Total(of) THEN end ELSE Total(of)
  <2>2. of = routeWorkflowId /\ of # None /\ ListIsPages
    BY <2>1, CanvasAssumption DEF ListFollows, ListAtRest, CanvasTyped
  <2>3. h \in Seq(Execs) /\ Len(h) = Total(of) /\ Total(of) \in Nat
    BY HistoryIs
  <2>4. end \in Nat
    BY CanvasAssumption DEF CanvasTyped, Lists
  <2>5. executions.total = Total(of) /\ executions.rows = SubSeq(h, 1, n)
    BY <2>2 DEF ListIsPages, Upto
  <2> HIDE DEF h, end, of
  <2>6. n \in Nat /\ n <= Len(h)
    BY <2>3, <2>4
  <2> HIDE DEF n
  <2> DEFINE q == SubSeq(h, 1, n)
  <2>7. q \in Seq(Execs) /\ Len(q) = n
    <3>1. \A i \in 1 .. n : h[i] \in Execs
      BY <2>3, <2>6
    <3>2. q \in Seq(Execs) /\ Len(q) = IF 1 <= n THEN n - 1 + 1 ELSE 0
      BY <3>1, <2>6, SubSeqProperties
    <3> QED BY <3>2, <2>6
  <2>8. SubSeq(q, 1, Len(q)) = q
    BY <2>7, SubSeqFull
  <2>9. IsPrefix(q, h)
    BY <2>6, <2>7, <2>8 DEF IsPrefix
  <2> QED BY <2>2, <2>5, <2>7, <2>9 DEF of, h, n, end
<1> QED BY <1>1, <1>2, <1>3, <1>4 DEF CanvasAgrees

----------------------------------------------------------------------------
(* The log.  Pages of the lines of an execution, and what the panel shows  *)
(* of them.                                                                *)

Entries == [line : Nat, live : BOOLEAN]

\* The last lines, at least a page of them or all there are, with their number.
ShowsEnd(log, total, all) ==
    /\ Len(log) <= Len(all) /\ total = Len(all)
    /\ Len(log) >= LogPage \/ Len(log) = Len(all)
    /\ \A i \in 1 .. Len(log) : log[i].line = all[Len(all) - Len(log) + i]

LEMMA StoredIs ==
    ASSUME NEW p \in Seq(Nat)
    PROVE  /\ Stored(p) \in Seq(Entries) /\ Len(Stored(p)) = Len(p)
           /\ \A i \in 1 .. Len(p) : Stored(p)[i] = [line |-> p[i], live |-> FALSE] /\ Stored(p)[i].line = p[i]
<1>1. DOMAIN p = 1 .. Len(p) /\ Len(p) \in Nat /\ \A i \in 1 .. Len(p) : p[i] \in Nat
  OBVIOUS
<1>2. Stored(p) = [i \in 1 .. Len(p) |-> [line |-> p[i], live |-> FALSE]]
  BY <1>1 DEF Stored
<1>3. \A i \in 1 .. Len(p) : [line |-> p[i], live |-> FALSE] \in Entries
  BY <1>1 DEF Entries
<1> QED BY <1>1, <1>2, <1>3

LEMMA LinesAre ==
    ASSUME NEW e, NEW filter, logRows[e] \in Nat
    PROVE  LinesOf(e, filter) \in Seq(Nat) /\ IsInjective(LinesOf(e, filter)) /\ Len(LinesOf(e, filter)) \in Nat
<1> DEFINE rows == [n \in 1 .. logRows[e] |-> n]
<1>1. rows \in Seq(Nat) /\ IsInjective(rows)
  BY DEF IsInjective
<1> HIDE DEF rows
<1>2. ASSUME NEW kept PROVE Filtered(rows, kept) \in Seq(Nat) /\ IsInjective(Filtered(rows, kept))
  BY <1>1, FilteredKeeps, FilteredElements
<1>3. LinesOf(e, filter) \in Seq(Nat) /\ IsInjective(LinesOf(e, filter))
  BY <1>2 DEF LinesOf, rows
<1> QED BY <1>3

(* A line more that passes the filter is the last one.                     *)
LEMMA LinesGrow ==
    ASSUME NEW e, NEW filter, logRows[e] \in Nat, logRows'[e] = logRows[e] + 1, Passes(filter, logRows[e] + 1)
    PROVE  LinesOf(e, filter)' = Append(LinesOf(e, filter), logRows[e] + 1)
<1> DEFINE m == logRows[e]
           list == [n \in 1 .. m |-> n]
           longer == [n \in 1 .. (m + 1) |-> n]
           kept == {n \in 1 .. m : Passes(filter, n)}
           keeps == {n \in 1 .. (m + 1) : Passes(filter, n)}
<1>1. LinesOf(e, filter) = Filtered(list, kept)
  BY DEF LinesOf
<1>2. LinesOf(e, filter)' = Filtered(longer, keeps)
  BY DEF LinesOf
<1> HIDE DEF m
<1>3. m \in Nat /\ Passes(filter, m + 1)
  BY DEF m
<1>4. /\ list \in Seq(Nat) /\ longer \in Seq(Nat) /\ Len(list) = m /\ Len(longer) = m + 1
      /\ longer[m + 1] = m + 1 /\ m + 1 \in keeps
      /\ \A j \in 1 .. m : longer[j] = list[j] /\ (list[j] \in kept <=> list[j] \in keeps)
  BY <1>3
<1> HIDE DEF list, longer, kept, keeps
<1>5. Filtered(longer, keeps) = IF longer[Len(longer)] \in keeps
                                THEN Append(Filtered(list, kept), longer[Len(longer)]) ELSE Filtered(list, kept)
  <2>1. Len(longer) = Len(list) + 1
    BY <1>4
  <2>2. \A j \in 1 .. Len(list) : longer[j] = list[j] /\ (list[j] \in kept <=> list[j] \in keeps)
    BY <1>4
  <2> QED BY <1>3, <1>4, <2>1, <2>2, FilteredAppend
<1> QED BY <1>1, <1>2, <1>4, <1>5 DEF m

LEMMA SameLines ==
    ASSUME logRows' = logRows
    PROVE  \A e, filter : LinesOf(e, filter)' = LinesOf(e, filter)
BY DEF LinesOf

(* A page, counted from the end.                                           *)
PageFrom(all, offset) == SubSeq(all, Less(Len(all), offset + LogPage) + 1, Less(Len(all), offset))

LEMMA PageIs == \A e, filter, offset : LogPageOf(e, filter, offset) = PageFrom(LinesOf(e, filter), offset)
BY DEF LogPageOf, PageFrom

LEMMA PageFromIs ==
    ASSUME NEW all \in Seq(Nat), NEW offset \in Nat
    PROVE  LET m == Less(Len(all), offset + LogPage)
               n == Less(Len(all), offset)
           IN  /\ m \in Nat /\ n \in Nat /\ m <= n /\ n <= Len(all)
               /\ PageFrom(all, offset) \in Seq(Nat) /\ Len(PageFrom(all, offset)) = n - m
               /\ \A i \in 1 .. n - m : PageFrom(all, offset)[i] = all[m + i]
<1> DEFINE m == Less(Len(all), offset + LogPage)
           n == Less(Len(all), offset)
           p == SubSeq(all, m + 1, n)
<1>1. LogPage \in Nat /\ Len(all) \in Nat
  BY LogAssumption
<1>2. m \in Nat /\ n \in Nat /\ m <= n /\ n <= Len(all)
  BY <1>1 DEF Less
<1>3. PageFrom(all, offset) = p
  BY DEF PageFrom
<1> HIDE DEF m, n
<1>4. \A i \in m + 1 .. n : all[i] \in Nat
  BY <1>2
<1>5. /\ p \in Seq(Nat) /\ Len(p) = IF m + 1 <= n THEN n - (m + 1) + 1 ELSE 0
      /\ \A i \in 1 .. n - (m + 1) + 1 : p[i] = all[m + 1 + i - 1]
  BY <1>2, <1>4, SubSeqProperties
<1> HIDE DEF p
<1>6. Len(p) = n - m /\ \A i \in 1 .. n - m : p[i] = all[m + i]
  <2>1. n - (m + 1) + 1 = n - m /\ (m + 1 <= n \/ n - m = 0)
    BY <1>2
  <2>2. Len(p) = n - m
    BY <1>5, <2>1
  <2>3. ASSUME NEW i \in 1 .. n - m PROVE p[i] = all[m + i]
    <3>1. m + 1 + i - 1 = m + i /\ i \in 1 .. n - (m + 1) + 1
      BY <1>2, <2>1
    <3> QED BY <1>5, <3>1
  <2> QED BY <2>2, <2>3
<1> QED BY <1>2, <1>3, <1>5, <1>6 DEF m, n

LEMMA LastPageShows ==
    ASSUME NEW all \in Seq(Nat)
    PROVE  Stored(PageFrom(all, 0)) \in Seq(Entries) /\ ShowsEnd(Stored(PageFrom(all, 0)), Len(all), all)
<1> DEFINE p == PageFrom(all, 0)
           m == Less(Len(all), LogPage)
<1>1. LogPage \in Nat \ {0} /\ Len(all) \in Nat
  BY LogAssumption
<1>2. Less(Len(all), 0) = Len(all) /\ 0 + LogPage = LogPage
  BY <1>1 DEF Less
<1>3. p \in Seq(Nat) /\ Len(p) = Len(all) - m /\ m \in Nat /\ m <= Len(all) /\ \A i \in 1 .. Len(all) - m : p[i] = all[m + i]
  <2>1. LET k == Less(Len(all), 0 + LogPage)
            n == Less(Len(all), 0)
        IN  /\ k \in Nat /\ n \in Nat /\ k <= n /\ n <= Len(all)
            /\ PageFrom(all, 0) \in Seq(Nat) /\ Len(PageFrom(all, 0)) = n - k
            /\ \A i \in 1 .. n - k : PageFrom(all, 0)[i] = all[k + i]
    BY 0 \in Nat, PageFromIs
  <2> QED BY <1>2, <2>1
<1>4. Len(p) >= LogPage \/ m = 0
  BY <1>1, <1>3 DEF Less
<1> HIDE DEF p, m
<1>5. /\ Stored(p) \in Seq(Entries) /\ Len(Stored(p)) = Len(p)
      /\ \A i \in 1 .. Len(p) : Stored(p)[i].line = p[i]
  BY <1>3, StoredIs
<1>6. m = Len(all) - Len(p) /\ Len(p) <= Len(all)
  BY <1>1, <1>3
<1>7. ASSUME NEW i \in 1 .. Len(Stored(p)) PROVE Stored(p)[i].line = all[Len(all) - Len(Stored(p)) + i]
  <2>1. i \in 1 .. Len(p) /\ i \in 1 .. Len(all) - m /\ Len(all) - Len(Stored(p)) + i = m + i
    BY <1>1, <1>3, <1>5, <1>6
  <2> QED BY <2>1, <1>3, <1>5
<1>8. Len(Stored(p)) <= Len(all) /\ (Len(Stored(p)) >= LogPage \/ Len(Stored(p)) = Len(all))
  BY <1>1, <1>4, <1>5, <1>6
<1>9. ShowsEnd(Stored(p), Len(all), all)
  BY <1>7, <1>8 DEF ShowsEnd
<1> QED BY <1>5, <1>9 DEF p

(* A page of older lines goes above those on screen, whole.                *)
LEMMA OlderPageShows ==
    ASSUME NEW all \in Seq(Nat), IsInjective(all), NEW log \in Seq(Entries), NEW total, ShowsEnd(log, total, all)
    PROVE  LET items == Stored(PageFrom(all, Len(log)))
               new == Filtered(items, ToSet(items) \ ToSet(log))
           IN  new \o log \in Seq(Entries) /\ ShowsEnd(new \o log, Len(all), all)
<1> DEFINE p == PageFrom(all, Len(log))
           items == Stored(p)
           new == Filtered(items, ToSet(items) \ ToSet(log))
           m == Less(Len(all), Len(log) + LogPage)
           n == Len(all) - Len(log)
<1>1. LogPage \in Nat \ {0} /\ Len(all) \in Nat /\ Len(log) \in Nat /\ n \in Nat /\ DOMAIN all = 1 .. Len(all)
  BY LogAssumption DEF ShowsEnd
<1>2. Less(Len(all), Len(log)) = n
  BY <1>1 DEF Less
<1>3. /\ p \in Seq(Nat) /\ Len(p) = n - m /\ m \in Nat /\ m <= n
      /\ \A i \in 1 .. n - m : p[i] = all[m + i]
  <2>1. PICK k \in Nat : k = Len(log)
    BY <1>1
  <2>2. /\ Less(Len(all), k + LogPage) \in Nat
        /\ Less(Len(all), k + LogPage) <= Less(Len(all), k)
        /\ PageFrom(all, k) \in Seq(Nat)
        /\ Len(PageFrom(all, k)) = Less(Len(all), k) - Less(Len(all), k + LogPage)
        /\ \A i \in 1 .. Less(Len(all), k) - Less(Len(all), k + LogPage) :
              PageFrom(all, k)[i] = all[Less(Len(all), k + LogPage) + i]
    <3> HIDE DEF p, m, n
    <3> QED BY PageFromIs
  <2>3. p = PageFrom(all, k) /\ m = Less(Len(all), k + LogPage) /\ n = Less(Len(all), k)
    BY <2>1, <1>2
  <2> HIDE DEF p, m, n
  <2> QED BY <2>2, <2>3
<1> HIDE DEF p
<1>17. m = 0 \/ m = n - LogPage
  BY <1>1 DEF Less
<1> HIDE DEF m
<1>4. Len(p) + Len(log) >= LogPage \/ m = 0
  <2> HIDE DEF n
  <2>1. Len(p) = n - m /\ n \in Nat /\ m \in Nat /\ LogPage \in Nat /\ Len(log) \in Nat
    BY <1>1, <1>3
  <2> QED BY <2>1, <1>17
<1>5. /\ items \in Seq(Entries) /\ Len(items) = Len(p)
      /\ \A i \in 1 .. Len(p) : items[i].line = p[i]
  BY <1>3, StoredIs
<1> HIDE DEF items
<1>6. \A i \in 1 .. Len(log) : log[i].line = all[n + i]
  BY DEF ShowsEnd
<1>16. Len(all) = n + Len(log)
  BY <1>1
<1> HIDE DEF n
<1>7. \A j \in 1 .. Len(items) : items[j] \in ToSet(items) \ ToSet(log)
  <2> SUFFICES ASSUME NEW j \in 1 .. Len(items), items[j] \in ToSet(log) PROVE FALSE
    BY <1>5 DEF ToSet
  <2>1. PICK i \in 1 .. Len(log) : items[j] = log[i]
    BY DEF ToSet
  <2>5. j \in 1 .. n - m /\ j \in 1 .. Len(p) /\ i \in 1 .. Len(log)
    BY <1>3, <1>5
  <2>6. m + j \in 1 .. Len(all)
    BY <2>5, <1>1, <1>3, <1>16
  <2>7. n + i \in 1 .. Len(all)
    BY <2>5, <1>1, <1>16
  <2>2. j \in 1 .. n - m /\ j \in 1 .. Len(p) /\ m + j \in 1 .. Len(all) /\ n + i \in 1 .. Len(all)
    BY <2>5, <2>6, <2>7
  <2>4. all[m + j] = all[n + i]
    BY <2>1, <2>2, <1>3, <1>5, <1>6
  <2>3. m + j = n + i
    BY <2>2, <2>4, <1>1 DEF IsInjective
  <2> QED BY <2>2, <2>3, <2>5, <1>1, <1>3
<1>8. new = items
  BY <1>5, <1>7, AllKept
<1>9. /\ items \o log \in Seq(Entries) /\ Len(items \o log) = Len(items) + Len(log)
      /\ \A i \in 1 .. Len(items) + Len(log) : (items \o log)[i] = IF i <= Len(items) THEN items[i] ELSE log[i - Len(items)]
  BY <1>5, ConcatProperties
<1> DEFINE both == items \o log
<1>13. \A i \in 1 .. Len(items) + Len(log) : both[i] = IF i <= Len(items) THEN items[i] ELSE log[i - Len(items)]
  BY <1>9
<1>14. Len(both) = Len(items) + Len(log)
  BY <1>9
<1> HIDE DEF both
<1>15. Len(items) = n - m /\ Len(both) \in Nat /\ Len(all) - Len(both) = m
  <2>1. Len(items) = n - m
    BY <1>3, <1>5
  <2> QED BY <2>1, <1>1, <1>3, <1>14, <1>16
<1>10. ASSUME NEW i \in 1 .. Len(both) PROVE both[i].line = all[Len(all) - Len(both) + i]
  <2>1. Len(all) - Len(both) = m
    BY <1>15
  <2>2. CASE i <= Len(items)
    <3>1. i \in 1 .. n - m /\ i \in 1 .. Len(p) /\ both[i] = items[i]
      BY <2>2, <1>1, <1>3, <1>5, <1>13, <1>14, <1>15
    <3> QED BY <3>1, <2>1, <1>3, <1>5
  <2>3. CASE ~ i <= Len(items)
    <3>1. i - Len(items) \in 1 .. Len(log) /\ both[i] = log[i - Len(items)]
      BY <2>3, <1>1, <1>3, <1>13, <1>14, <1>15
    <3>2. n + (i - Len(items)) = m + i
      BY <1>1, <1>3, <1>15
    <3> QED BY <3>1, <3>2, <2>1, <1>6
  <2> QED BY <2>2, <2>3
<1> HIDE DEF new
<1>11. Len(both) <= Len(all) /\ (Len(both) >= LogPage \/ Len(both) = Len(all))
  <2>1. Len(both) = Len(p) + Len(log)
    BY <1>5, <1>14
  <2> QED BY <2>1, <1>1, <1>3, <1>4, <1>15
<1>12. ShowsEnd(both, Len(all), all)
  BY <1>10, <1>11 DEF ShowsEnd
<1> QED BY <1>8, <1>9, <1>12 DEF both, new, items, p

(* A line that arrives goes below them.                                    *)
LEMMA NewLineShows ==
    ASSUME NEW all \in Seq(Nat), NEW log \in Seq(Entries), NEW total, ShowsEnd(log, total, all), NEW x \in Entries
    PROVE  /\ Append(log, x) \in Seq(Entries)
           /\ ShowsEnd(Append(log, x), total + 1, Append(all, x.line))
<1>1. Len(all) \in Nat /\ Len(log) \in Nat /\ x.line \in Nat /\ LogPage \in Nat
  BY LogAssumption DEF Entries
<1>2. /\ Append(log, x) \in Seq(Entries) /\ Len(Append(log, x)) = Len(log) + 1
      /\ \A i \in 1 .. Len(log) : Append(log, x)[i] = log[i]
      /\ Append(log, x)[Len(log) + 1] = x
  BY AppendProperties
<1>3. /\ Len(Append(all, x.line)) = Len(all) + 1
      /\ \A i \in 1 .. Len(all) : Append(all, x.line)[i] = all[i]
      /\ Append(all, x.line)[Len(all) + 1] = x.line
  BY <1>1, AppendProperties
<1> DEFINE more == Append(log, x)
           longer == Append(all, x.line)
<1>4. ASSUME NEW i \in 1 .. Len(more) PROVE more[i].line = longer[Len(longer) - Len(more) + i]
  <2>1. Len(longer) - Len(more) = Len(all) - Len(log) /\ Len(log) <= Len(all)
    BY <1>1, <1>2, <1>3 DEF ShowsEnd
  <2>2. CASE i \in 1 .. Len(log)
    <3>1. Len(all) - Len(log) + i \in 1 .. Len(all)
      BY <2>1, <2>2, <1>1
    <3> QED BY <3>1, <2>1, <2>2, <1>2, <1>3 DEF ShowsEnd
  <2>3. CASE i = Len(log) + 1
    <3>1. Len(all) - Len(log) + i = Len(all) + 1
      BY <2>3, <1>1
    <3> QED BY <3>1, <2>1, <2>3, <1>2, <1>3
  <2>4. i \in 1 .. Len(log) \/ i = Len(log) + 1
    BY <1>1, <1>2
  <2> QED BY <2>2, <2>3, <2>4
<1>5. /\ Len(more) <= Len(longer) /\ total + 1 = Len(longer)
      /\ Len(more) >= LogPage \/ Len(more) = Len(longer)
  BY <1>1, <1>2, <1>3 DEF ShowsEnd
<1> HIDE DEF more, longer
<1>6. ShowsEnd(more, total + 1, longer)
  BY <1>4, <1>5 DEF ShowsEnd
<1> QED BY <1>2, <1>6 DEF more, longer

LEMMA ShownIsSuffix ==
    ASSUME NEW all \in Seq(Nat), NEW log \in Seq(Entries), NEW total, ShowsEnd(log, total, all)
    PROVE  LET shown == [i \in DOMAIN log |-> log[i].line]
           IN  IsSuffix(shown, all) /\ (Len(shown) < LogPage => shown = all)
<1> DEFINE shown == [i \in DOMAIN log |-> log[i].line]
<1>1. Len(all) \in Nat /\ Len(log) \in Nat /\ DOMAIN log = 1 .. Len(log) /\ LogPage \in Nat /\ Len(log) <= Len(all)
  BY LogAssumption DEF ShowsEnd
<1>2. \A i \in 1 .. Len(log) : log[i].line \in Nat
  <2>1. \A i \in 1 .. Len(log) : log[i] \in Entries
    BY <1>1
  <2> QED BY <2>1 DEF Entries
<1>3. shown \in Seq(Nat) /\ Len(shown) = Len(log) /\ \A i \in 1 .. Len(log) : shown[i] = log[i].line
  BY <1>1, <1>2
<1> HIDE DEF shown
<1>4. \A i \in 1 .. Len(shown) : shown[i] = all[Len(all) - Len(shown) + i]
  BY <1>3 DEF ShowsEnd
<1> DEFINE back == Reverse(shown)
           allback == Reverse(all)
<1>5. /\ back \in Seq(Nat) /\ Len(back) = Len(shown) /\ allback \in Seq(Nat) /\ Len(allback) = Len(all)
      /\ \A i \in 1 .. Len(shown) : back[i] = shown[Len(shown) - i + 1]
      /\ \A i \in 1 .. Len(all) : allback[i] = all[Len(all) - i + 1]
  BY <1>1, <1>3 DEF Reverse
<1> HIDE DEF back, allback
<1>6. \A i \in 1 .. Len(back) : back[i] = allback[i]
  <2> SUFFICES ASSUME NEW i \in 1 .. Len(back) PROVE back[i] = allback[i]
    OBVIOUS
  <2>1. Len(shown) - i + 1 \in 1 .. Len(shown) /\ i \in 1 .. Len(all)
    BY <1>1, <1>3, <1>5
  <2>2. Len(all) - Len(shown) + (Len(shown) - i + 1) = Len(all) - i + 1
    BY <1>1, <1>3
  <2> QED BY <2>1, <2>2, <1>4, <1>5
<1> DEFINE s == SubSeq(allback, 1, Len(back))
<1>7. s \in Seq(Nat) /\ Len(s) = Len(back) /\ \A i \in 1 .. Len(back) : s[i] = allback[i]
  <2>1. Len(back) \in Nat /\ \A i \in 1 .. Len(back) : allback[i] \in Nat
    <3>1. Len(back) \in Nat /\ \A i \in 1 .. Len(back) : i \in 1 .. Len(allback)
      BY <1>1, <1>3, <1>5
    <3>2. \A i \in 1 .. Len(allback) : allback[i] \in Nat
      <4>1. allback \in Seq(Nat)
        BY <1>5
      <4> QED BY <4>1, MembersAre
    <3> QED BY <3>1, <3>2
  <2>2. /\ s \in Seq(Nat) /\ Len(s) = IF 1 <= Len(back) THEN Len(back) - 1 + 1 ELSE 0
        /\ \A i \in 1 .. Len(back) - 1 + 1 : s[i] = allback[1 + i - 1]
    BY <2>1, SubSeqProperties
  <2> QED BY <2>1, <2>2
<1> HIDE DEF s
<1>8. s = back /\ SubSeq(back, 1, Len(back)) = back
  BY <1>5, <1>6, <1>7, SeqEqual, SubSeqFull
<1>9. IsSuffix(shown, all)
  BY <1>1, <1>3, <1>5, <1>8 DEF IsSuffix, IsPrefix, back, allback, s
<1>10. Len(shown) < LogPage => shown = all
  <2> SUFFICES ASSUME Len(shown) < LogPage PROVE shown = all
    OBVIOUS
  <2>1. Len(shown) = Len(all)
    BY <1>1, <1>3 DEF ShowsEnd
  <2>2. \A i \in 1 .. Len(shown) : shown[i] = all[i]
    BY <2>1, <1>1, <1>4
  <2> QED BY <2>1, <2>2, <1>3, SeqEqual
<1> QED BY <1>9, <1>10 DEF shown

----------------------------------------------------------------------------
(* The log panel.  Its inductive invariant.                                *)

LogSteps == {"idle", "sent", "answer"}
LatestLoads == [step : LogSteps, exec : DOMAIN Logged \cup {None}, filter : LogFilters, items : Seq(Entries), total : Nat]
OlderLoads == [step : LogSteps, exec : DOMAIN Logged \cup {None}, filter : LogFilters, offset : Nat,
               known : SUBSET Entries, items : Seq(Entries), total : Nat]
Awaits(l) == latest[l].step # "idle"

LogTyped ==
    /\ logRows \in [DOMAIN Logged -> Nat]
    /\ logExecution \in DOMAIN Logged \cup {None} /\ filterDebounceTimer \in DOMAIN Logged \cup {None}
    /\ executionLog \in Seq(Entries) /\ logsTotal \in Nat /\ logFilter \in LogFilters
    /\ loadingLogs \in BOOLEAN /\ gap \in BOOLEAN
    /\ latest \in [Latests -> LatestLoads] /\ older \in OlderLoads
\* A load has an execution, and the spinner has a load.
LoadsAreFor ==
    /\ \A l \in Latests : Awaits(l) => latest[l].exec \in DOMAIN Logged
    /\ older.step # "idle" => older.exec \in DOMAIN Logged
    /\ loadingLogs => \E l \in Latests : Awaits(l)
\* An answer on its way is what the server still has.
LatestTell ==
    ~gap => \A l \in Latests : latest[l].step = "answer" =>
        LET all == LinesOf(latest[l].exec, latest[l].filter)
        IN  latest[l].items = Stored(PageFrom(all, 0)) /\ latest[l].total = Len(all)
\* The end of the log is on screen, or a load under the filter will bring it.
LogFollows ==
    logExecution # None /\ ~gap /\ filterDebounceTimer # logExecution =>
        /\ \A l \in Latests : Awaits(l) /\ latest[l].exec = logExecution => latest[l].filter = logFilter
        /\ (\A l \in Latests : Awaits(l) => latest[l].exec # logExecution) =>
              ShowsEnd(executionLog, logsTotal, LinesOf(logExecution, logFilter))
\* The log stands still under a load of older lines, which fit on top of it.
OlderFollows ==
    logExecution # None /\ ~gap /\ older.step # "idle" =>
        /\ \A l \in Latests : ~Awaits(l)
        /\ older.exec = logExecution
        /\ older.offset = Len(executionLog) /\ older.known = ToSet(executionLog)
        /\ ShowsEnd(executionLog, logsTotal, LinesOf(logExecution, older.filter))
        /\ older.step = "answer" =>
              LET all == LinesOf(logExecution, older.filter)
              IN  older.items = Stored(PageFrom(all, older.offset)) /\ older.total = Len(all)
        /\ filterDebounceTimer # logExecution => older.filter = logFilter

LogInv == LogTyped /\ LoadsAreFor /\ LatestTell /\ LogFollows /\ OlderFollows

LEMMA NoLatestIs == NoLatest \in LatestLoads /\ NoLatest.step = "idle" /\ NoOlder \in OlderLoads /\ NoOlder.step = "idle"
<1>1. <<>> \in Seq(Entries) /\ {} \in SUBSET Entries /\ 0 \in Nat /\ "all" \in LogFilters
  BY DEF LogFilters
<1> QED BY <1>1 DEF NoLatest, NoOlder, LatestLoads, OlderLoads, LogSteps

(* What a load of last lines does to the loads under way.                  *)
LEMMA LoadIs ==
    ASSUME LogTyped, LoadsAreFor, NEW e \in DOMAIN Logged, LoadLatestLogs(e)
    PROVE  /\ latest' \in [Latests -> LatestLoads] /\ loadingLogs' = TRUE
           /\ \E s \in Latests :
                 /\ latest[s].step = "idle"
                 /\ latest'[s].step = "sent" /\ latest'[s].exec = e /\ latest'[s].filter = logFilter
                 /\ \A l \in Latests \ {s} : latest'[l] = latest[l]
<1> DEFINE s == Slot(latest)
           load == [NoLatest EXCEPT !.step = "sent", !.exec = e, !.filter = logFilter]
<1>1. s \in Latests /\ latest[s].step = "idle"
  BY DEF LoadLatestLogs, Free, Slot, LogTyped
<1>2. load \in LatestLoads /\ load.step = "sent" /\ load.exec = e /\ load.filter = logFilter
  <2>1. NoLatest \in LatestLoads /\ logFilter \in LogFilters
    BY NoLatestIs DEF LogTyped
  <2> QED BY <2>1 DEF LatestLoads, LogSteps
<1> HIDE DEF s, load
<1>3. latest' = [latest EXCEPT ![s] = load] /\ loadingLogs' = TRUE
  BY DEF LoadLatestLogs, s, load
<1>4. latest \in [Latests -> LatestLoads]
  BY DEF LogTyped
<1> QED BY <1>1, <1>2, <1>3, <1>4

(* The lines of an execution that is there, and pages of them.             *)
LEMMA LinesTyped ==
    ASSUME LogTyped, NEW e \in DOMAIN Logged, NEW filter
    PROVE  LinesOf(e, filter) \in Seq(Nat) /\ IsInjective(LinesOf(e, filter)) /\ Len(LinesOf(e, filter)) \in Nat
BY LinesAre DEF LogTyped

LEMMA PageTyped ==
    ASSUME LogTyped, NEW e \in DOMAIN Logged, NEW filter, NEW offset \in Nat
    PROVE  Stored(LogPageOf(e, filter, offset)) \in Seq(Entries)
<1>1. LinesOf(e, filter) \in Seq(Nat)
  BY LinesTyped
<1>2. PageFrom(LinesOf(e, filter), offset) \in Seq(Nat)
  BY <1>1, PageFromIs
<1> QED BY <1>2, PageIs, StoredIs

LEMMA SelectLogKeeps ==
    ASSUME LogInv, NEW e \in DOMAIN Logged, SelectLog(e)
    PROVE  LogInv'
<1>1. /\ e # logExecution /\ logExecution' = e /\ LoadLatestLogs(e) /\ gap' = Meets
      /\ logRows' = logRows /\ executionLog' = executionLog /\ logsTotal' = logsTotal /\ logFilter' = logFilter
      /\ filterDebounceTimer' = filterDebounceTimer /\ older' = older
  BY DEF SelectLog
<1>2. PICK s \in Latests :
         /\ latest[s].step = "idle"
         /\ latest'[s].step = "sent" /\ latest'[s].exec = e /\ latest'[s].filter = logFilter
         /\ \A l \in Latests \ {s} : latest'[l] = latest[l]
  BY <1>1, LoadIs DEF LogInv
<1>3. latest' \in [Latests -> LatestLoads] /\ loadingLogs' = TRUE
  BY <1>1, LoadIs DEF LogInv
<1>4. LogTyped'
  <2>1. gap' \in BOOLEAN /\ loadingLogs' \in BOOLEAN
    BY <1>1, <1>3 DEF Meets
  <2> QED BY <1>1, <1>3, <2>1 DEF LogInv, LogTyped
<1>5. LoadsAreFor'
  BY <1>1, <1>2 DEF LogInv, LoadsAreFor, Awaits
<1>6. ASSUME ~gap' PROVE older.step = "idle" /\ \A l \in Latests : Awaits(l) => ~gap /\ latest[l].filter = logFilter
  BY <1>6, <1>1 DEF Meets, Awaits
<1>7. LatestTell'
  BY <1>1, <1>2, <1>6, SameLines DEF LogInv, LatestTell, Awaits
<1>8. LogFollows'
  BY <1>1, <1>2, <1>6 DEF LogFollows, Awaits
<1>9. OlderFollows'
  BY <1>1, <1>6 DEF OlderFollows
<1> QED BY <1>4, <1>5, <1>7, <1>8, <1>9 DEF LogInv

LEMMA ExitLogKeeps ==
    ASSUME LogInv, ExitLog
    PROVE  LogInv'
<1>1. /\ logExecution' = None /\ executionLog' = <<>> /\ logFilter' = "all"
      /\ UNCHANGED <<logRows, logsTotal, filterDebounceTimer, loadingLogs, latest, older, gap>>
  BY DEF ExitLog
<1>2. LogTyped'
  <2>1. executionLog' \in Seq(Entries) /\ logFilter' \in LogFilters
    BY <1>1 DEF LogFilters
  <2> QED BY <1>1, <2>1 DEF LogInv, LogTyped
<1>3. LoadsAreFor'
  BY <1>1 DEF LogInv, LoadsAreFor, Awaits
<1>4. LatestTell'
  BY <1>1, SameLines DEF LogInv, LatestTell
<1>5. LogFollows' /\ OlderFollows'
  BY <1>1 DEF LogFollows, OlderFollows
<1> QED BY <1>2, <1>3, <1>4, <1>5 DEF LogInv

LEMMA SetLogFilterKeeps ==
    ASSUME LogInv, NEW filter \in LogFilters, SetLogFilter(filter)
    PROVE  LogInv'
<1>1. /\ logFilter' = filter /\ filterDebounceTimer' = logExecution
      /\ UNCHANGED <<logRows, logExecution, executionLog, logsTotal, loadingLogs, latest, older, gap>>
  BY DEF SetLogFilter
<1>2. LogTyped'
  BY <1>1 DEF LogInv, LogTyped
<1>3. LoadsAreFor'
  BY <1>1 DEF LogInv, LoadsAreFor, Awaits
<1>4. LatestTell'
  BY <1>1, SameLines DEF LogInv, LatestTell
<1>5. LogFollows'
  BY <1>1 DEF LogFollows
<1>6. OlderFollows'
  BY <1>1, SameLines DEF LogInv, OlderFollows, Awaits, ShowsEnd
<1> QED BY <1>2, <1>3, <1>4, <1>5, <1>6 DEF LogInv

LEMMA FilterTimerKeeps ==
    ASSUME LogInv, FilterTimer
    PROVE  LogInv'
<1> DEFINE e == filterDebounceTimer
<1>1. /\ e # None /\ LoadLatestLogs(e) /\ filterDebounceTimer' = None
      /\ gap' = (Meets \/ (gap /\ e # logExecution))
      /\ UNCHANGED <<logRows, logExecution, executionLog, logsTotal, logFilter, older>>
  BY DEF FilterTimer
<1>2. e \in DOMAIN Logged
  BY <1>1 DEF LogInv, LogTyped
<1>3. PICK s \in Latests :
         /\ latest[s].step = "idle"
         /\ latest'[s].step = "sent" /\ latest'[s].exec = e /\ latest'[s].filter = logFilter
         /\ \A l \in Latests \ {s} : latest'[l] = latest[l]
  BY <1>1, <1>2, LoadIs DEF LogInv
<1>4. latest' \in [Latests -> LatestLoads] /\ loadingLogs' = TRUE
  BY <1>1, <1>2, LoadIs DEF LogInv
<1>5. LogTyped'
  <2>1. gap' \in BOOLEAN /\ loadingLogs' \in BOOLEAN
    BY <1>1, <1>4
  <2> QED BY <1>1, <1>4, <2>1 DEF LogInv, LogTyped
<1>6. LoadsAreFor'
  BY <1>1, <1>2, <1>3 DEF LogInv, LoadsAreFor, Awaits
<1>7. ASSUME ~gap'
      PROVE  /\ older.step = "idle" /\ (gap => e = logExecution)
             /\ \A l \in Latests : Awaits(l) => ~gap /\ latest[l].filter = logFilter
  BY <1>7, <1>1 DEF Meets, Awaits
<1>8. LatestTell'
  BY <1>1, <1>3, <1>7, SameLines DEF LogInv, LatestTell, Awaits
<1>9. LogFollows'
  <2> SUFFICES ASSUME logExecution # None, ~gap'
               PROVE  /\ \A l \in Latests : Awaits(l)' /\ latest'[l].exec = logExecution => latest'[l].filter = logFilter
                      /\ (\A l \in Latests : Awaits(l)' => latest'[l].exec # logExecution) =>
                             ShowsEnd(executionLog, logsTotal, LinesOf(logExecution, logFilter))
    BY <1>1, SameLines DEF LogFollows, ShowsEnd
  <2>1. \A l \in Latests : Awaits(l)' => latest'[l].filter = logFilter
    BY <1>3, <1>7 DEF Awaits
  <2>2. CASE e = logExecution
    <3>1. Awaits(s)' /\ latest'[s].exec = logExecution
      BY <2>2, <1>3 DEF Awaits
    <3> QED BY <2>1, <3>1
  <2>3. CASE e # logExecution
    <3>1. ~gap
      BY <2>3, <1>7
    <3>2. ASSUME \A l \in Latests : Awaits(l)' => latest'[l].exec # logExecution
          PROVE  \A l \in Latests : Awaits(l) => latest[l].exec # logExecution
      BY <3>2, <1>3 DEF Awaits
    <3> QED BY <2>1, <2>3, <3>1, <3>2 DEF LogInv, LogFollows
  <2> QED BY <2>2, <2>3
<1>10. OlderFollows'
  BY <1>1, <1>7 DEF OlderFollows
<1> QED BY <1>5, <1>6, <1>8, <1>9, <1>10 DEF LogInv

LEMMA ReadLatestKeeps ==
    ASSUME LogInv, NEW k \in Latests, ReadLatest(k)
    PROVE  LogInv'
<1> DEFINE all == LinesOf(latest[k].exec, latest[k].filter)
           items == Stored(LogPageOf(latest[k].exec, latest[k].filter, 0))
<1>1. /\ latest[k].step = "sent"
      /\ latest' = [latest EXCEPT ![k].step = "answer", ![k].items = items, ![k].total = Len(all)]
      /\ UNCHANGED <<logRows, logExecution, executionLog, logsTotal, logFilter, filterDebounceTimer, loadingLogs, older, gap>>
  BY DEF ReadLatest
<1>2. latest[k].exec \in DOMAIN Logged
  BY <1>1 DEF LogInv, LoadsAreFor, Awaits
<1>3. items \in Seq(Entries) /\ Len(all) \in Nat
  BY <1>2, 0 \in Nat, LinesTyped, PageTyped DEF LogInv
<1>4. items = Stored(PageFrom(all, 0))
  BY PageIs
<1> HIDE DEF items, all
<1>5. latest \in [Latests -> LatestLoads]
  BY DEF LogInv, LogTyped
<1>6. /\ latest' \in [Latests -> LatestLoads]
      /\ latest'[k].step = "answer" /\ latest'[k].exec = latest[k].exec /\ latest'[k].filter = latest[k].filter
      /\ latest'[k].items = items /\ latest'[k].total = Len(all)
      /\ \A l \in Latests \ {k} : latest'[l] = latest[l]
  <2>1. latest[k] \in LatestLoads
    BY <1>5
  <2>2. [latest[k] EXCEPT !.step = "answer", !.items = items, !.total = Len(all)] \in LatestLoads
    BY <2>1, <1>3 DEF LatestLoads, LogSteps
  <2> QED BY <1>1, <1>5, <2>1, <2>2 DEF LatestLoads
<1>7. LogTyped'
  BY <1>1, <1>6 DEF LogInv, LogTyped
<1>8. \A l \in Latests : (Awaits(l)' <=> Awaits(l)) /\ latest'[l].exec = latest[l].exec /\ latest'[l].filter = latest[l].filter
  BY <1>1, <1>6 DEF Awaits
<1>9. LoadsAreFor'
  BY <1>1, <1>8 DEF LogInv, LoadsAreFor
<1>10. LatestTell'
  BY <1>1, <1>4, <1>6, SameLines DEF LogInv, LatestTell, all
<1>13. UNCHANGED <<logRows, logExecution, executionLog, logsTotal, logFilter, filterDebounceTimer, gap>>
  BY <1>1
<1>11. LogFollows'
  <2> SUFFICES ASSUME logExecution # None, ~gap, filterDebounceTimer # logExecution
               PROVE  /\ \A l \in Latests : Awaits(l)' /\ latest'[l].exec = logExecution => latest'[l].filter = logFilter
                      /\ (\A l \in Latests : Awaits(l)' => latest'[l].exec # logExecution) =>
                             ShowsEnd(executionLog', logsTotal', LinesOf(logExecution, logFilter))
    BY <1>13, SameLines DEF LogFollows, ShowsEnd
  <2>1. /\ \A l \in Latests : Awaits(l) /\ latest[l].exec = logExecution => latest[l].filter = logFilter
        /\ (\A l \in Latests : Awaits(l) => latest[l].exec # logExecution) =>
              ShowsEnd(executionLog, logsTotal, LinesOf(logExecution, logFilter))
    BY DEF LogInv, LogFollows
  <2> QED BY <2>1, <1>8, <1>13
<1>12. OlderFollows'
  BY <1>1, <1>8, SameLines DEF LogInv, OlderFollows, ShowsEnd
<1> QED BY <1>7, <1>9, <1>10, <1>11, <1>12 DEF LogInv

LEMMA LatestAnswerKeeps ==
    ASSUME LogInv, NEW k \in Latests, LatestAnswer(k)
    PROVE  LogInv'
<1>1. /\ latest[k].step = "answer"
      /\ latest' = [latest EXCEPT ![k] = NoLatest] /\ loadingLogs' = FALSE
      /\ UNCHANGED <<logRows, logExecution, logFilter, filterDebounceTimer, older, gap>>
  BY DEF LatestAnswer
<1>2. /\ latest[k].exec = logExecution => executionLog' = latest[k].items /\ logsTotal' = latest[k].total
      /\ latest[k].exec # logExecution => executionLog' = executionLog /\ logsTotal' = logsTotal
  BY DEF LatestAnswer
<1>3. latest \in [Latests -> LatestLoads]
  BY DEF LogInv, LogTyped
<1>4. /\ latest' \in [Latests -> LatestLoads] /\ latest'[k].step = "idle"
      /\ \A l \in Latests \ {k} : latest'[l] = latest[l]
  BY <1>1, <1>3, NoLatestIs
<1>5. LogTyped'
  <2>1. latest[k].items \in Seq(Entries) /\ latest[k].total \in Nat
    BY <1>3 DEF LatestLoads
  <2>2. executionLog' \in Seq(Entries) /\ logsTotal' \in Nat
    BY <1>2, <2>1 DEF LogInv, LogTyped
  <2>3. loadingLogs' \in BOOLEAN
    BY <1>1
  <2> QED BY <1>1, <1>4, <2>2, <2>3 DEF LogInv, LogTyped
<1>6. LoadsAreFor'
  BY <1>1, <1>4 DEF LogInv, LoadsAreFor, Awaits
<1>7. LatestTell'
  BY <1>1, <1>4, SameLines DEF LogInv, LatestTell
<1>8. LogFollows'
  <2> SUFFICES ASSUME logExecution # None, ~gap, filterDebounceTimer # logExecution
               PROVE  /\ \A l \in Latests : Awaits(l)' /\ latest'[l].exec = logExecution => latest'[l].filter = logFilter
                      /\ (\A l \in Latests : Awaits(l)' => latest'[l].exec # logExecution) =>
                             ShowsEnd(executionLog', logsTotal', LinesOf(logExecution, logFilter))
    BY <1>1, SameLines DEF LogFollows, ShowsEnd
  <2>1. /\ \A l \in Latests : Awaits(l) /\ latest[l].exec = logExecution => latest[l].filter = logFilter
        /\ (\A l \in Latests : Awaits(l) => latest[l].exec # logExecution) =>
              ShowsEnd(executionLog, logsTotal, LinesOf(logExecution, logFilter))
    BY DEF LogInv, LogFollows
  <2>2. \A l \in Latests : Awaits(l)' => Awaits(l) /\ latest'[l] = latest[l]
    BY <1>4 DEF Awaits
  <2>3. CASE latest[k].exec = logExecution
    <3>1. Awaits(k) /\ latest[k].filter = logFilter /\ logExecution \in DOMAIN Logged
      BY <1>1, <2>1, <2>3 DEF Awaits, LogInv, LogTyped
    <3>2. /\ executionLog' = Stored(PageFrom(LinesOf(logExecution, logFilter), 0))
          /\ logsTotal' = Len(LinesOf(logExecution, logFilter))
      BY <1>1, <1>2, <2>3, <3>1 DEF LogInv, LatestTell
    <3>3. ShowsEnd(executionLog', logsTotal', LinesOf(logExecution, logFilter))
      BY <3>1, <3>2, LinesTyped, LastPageShows DEF LogInv
    <3> QED BY <2>1, <2>2, <3>3
  <2>4. CASE latest[k].exec # logExecution
    <3>1. ASSUME \A l \in Latests : Awaits(l)' => latest'[l].exec # logExecution
          PROVE  \A l \in Latests : Awaits(l) => latest[l].exec # logExecution
      BY <3>1, <2>4, <1>4 DEF Awaits
    <3> QED BY <1>2, <2>1, <2>2, <2>4, <3>1
  <2> QED BY <2>3, <2>4
<1>9. OlderFollows'
  <2>1. ~(logExecution # None /\ ~gap /\ older.step # "idle")
    BY <1>1 DEF LogInv, OlderFollows, Awaits
  <2> QED BY <1>1, <2>1 DEF OlderFollows
<1> QED BY <1>5, <1>6, <1>7, <1>8, <1>9 DEF LogInv

LEMMA LatestFailsKeeps ==
    ASSUME LogInv, NEW k \in Latests, LatestFails(k)
    PROVE  LogInv'
<1>1. /\ latest' = [latest EXCEPT ![k] = NoLatest] /\ loadingLogs' = FALSE /\ gap' = TRUE
      /\ UNCHANGED <<logRows, logExecution, executionLog, logsTotal, logFilter, filterDebounceTimer, older>>
  BY DEF LatestFails
<1>2. latest \in [Latests -> LatestLoads]
  BY DEF LogInv, LogTyped
<1>3. /\ latest' \in [Latests -> LatestLoads] /\ latest'[k].step = "idle"
      /\ \A l \in Latests \ {k} : latest'[l] = latest[l]
  BY <1>1, <1>2, NoLatestIs
<1>4. LogTyped'
  <2>1. loadingLogs' \in BOOLEAN /\ gap' \in BOOLEAN
    BY <1>1
  <2> QED BY <1>1, <1>3, <2>1 DEF LogInv, LogTyped
<1>5. LoadsAreFor'
  BY <1>1, <1>3 DEF LogInv, LoadsAreFor, Awaits
<1>6. LatestTell' /\ LogFollows' /\ OlderFollows'
  BY <1>1 DEF LatestTell, LogFollows, OlderFollows
<1> QED BY <1>4, <1>5, <1>6 DEF LogInv

LEMMA LoadOlderLogsKeeps ==
    ASSUME LogInv, LoadOlderLogs
    PROVE  LogInv'
<1>1. /\ logExecution # None /\ older.step = "idle"
      /\ older' = [NoOlder EXCEPT !.step = "sent", !.exec = logExecution, !.filter = logFilter,
                                  !.offset = Len(executionLog), !.known = ToSet(executionLog)]
      /\ gap' = (gap \/ filterDebounceTimer # None \/ \E l \in Latests : latest[l].step # "idle")
      /\ UNCHANGED <<logRows, logExecution, executionLog, logsTotal, logFilter, filterDebounceTimer, loadingLogs, latest>>
  BY DEF LoadOlderLogs
<1>2. older' = [step |-> "sent", exec |-> logExecution, filter |-> logFilter, offset |-> Len(executionLog),
                known |-> ToSet(executionLog), items |-> <<>>, total |-> 0]
  BY <1>1 DEF NoOlder
<1>3. LogTyped'
  <2>1. Len(executionLog) \in Nat /\ ToSet(executionLog) \in SUBSET Entries /\ <<>> \in Seq(Entries) /\ 0 \in Nat
    BY DEF LogInv, LogTyped, ToSet
  <2>2. older' \in OlderLoads
    BY <1>2, <2>1 DEF OlderLoads, LogSteps, LogInv, LogTyped
  <2>3. gap' \in BOOLEAN
    BY <1>1
  <2> QED BY <1>1, <2>2, <2>3 DEF LogInv, LogTyped
<1>4. LoadsAreFor'
  BY <1>1, <1>2 DEF LogInv, LogTyped, LoadsAreFor, Awaits
<1>5. ASSUME ~gap' PROVE ~gap /\ filterDebounceTimer = None /\ \A l \in Latests : ~Awaits(l)
  BY <1>1, <1>5 DEF Awaits
<1>6. LatestTell'
  BY <1>1, <1>5, SameLines DEF LogInv, LatestTell
<1>7. LogFollows'
  BY <1>1, <1>5, SameLines DEF LogInv, LogFollows, Awaits, ShowsEnd
<1>8. OlderFollows'
  <2> SUFFICES ASSUME ~gap' PROVE OlderFollows'
    BY DEF OlderFollows
  <2>1. ShowsEnd(executionLog, logsTotal, LinesOf(logExecution, logFilter))
    BY <1>1, <1>5 DEF LogInv, LogFollows
  <2>2. ShowsEnd(executionLog, logsTotal, LinesOf(logExecution, older.filter))'
    BY <1>1, <1>2, <2>1, SameLines DEF ShowsEnd
  <2>3. /\ older'.exec = logExecution' /\ older'.offset = Len(executionLog') /\ older'.known = ToSet(executionLog')
        /\ older'.step = "sent" /\ older'.filter = logFilter'
    BY <1>1, <1>2
  <2>4. \A l \in Latests : ~Awaits(l)'
    BY <1>1, <1>5 DEF Awaits
  <2> QED BY <2>2, <2>3, <2>4 DEF OlderFollows
<1> QED BY <1>3, <1>4, <1>6, <1>7, <1>8 DEF LogInv

LEMMA ReadOlderKeeps ==
    ASSUME LogInv, ReadOlder
    PROVE  LogInv'
<1> DEFINE all == LinesOf(older.exec, older.filter)
           items == Stored(LogPageOf(older.exec, older.filter, older.offset))
<1>1. /\ older.step = "sent"
      /\ older' = [older EXCEPT !.step = "answer", !.items = items, !.total = Len(all)]
      /\ UNCHANGED <<logRows, logExecution, executionLog, logsTotal, logFilter, filterDebounceTimer, loadingLogs, latest, gap>>
  BY DEF ReadOlder
<1>2. older \in OlderLoads
  BY DEF LogInv, LogTyped
<1>3. older.exec \in DOMAIN Logged /\ older.offset \in Nat
  BY <1>1, <1>2 DEF LogInv, LoadsAreFor, OlderLoads
<1>4. items \in Seq(Entries) /\ Len(all) \in Nat
  BY <1>3, LinesTyped, PageTyped DEF LogInv
<1>5. items = Stored(PageFrom(all, older.offset))
  BY PageIs
<1> HIDE DEF items, all
<1>6. /\ older' \in OlderLoads /\ older'.step = "answer" /\ older'.items = items /\ older'.total = Len(all)
      /\ older'.exec = older.exec /\ older'.filter = older.filter /\ older'.offset = older.offset /\ older'.known = older.known
  BY <1>1, <1>2, <1>4 DEF OlderLoads, LogSteps
<1>7. LogTyped'
  BY <1>1, <1>6 DEF LogInv, LogTyped
<1>8. LoadsAreFor'
  BY <1>1, <1>3, <1>6 DEF LogInv, LoadsAreFor, Awaits
<1>9. LatestTell' /\ LogFollows'
  BY <1>1, SameLines DEF LogInv, LatestTell, LogFollows, Awaits, ShowsEnd
<1>10. OlderFollows'
  BY <1>1, <1>5, <1>6, SameLines DEF LogInv, OlderFollows, Awaits, ShowsEnd, all
<1> QED BY <1>7, <1>8, <1>9, <1>10 DEF LogInv

LEMMA OlderAnswerKeeps ==
    ASSUME LogInv, OlderAnswer
    PROVE  LogInv'
<1> DEFINE new == Filtered(older.items, ToSet(older.items) \ older.known)
<1>1. /\ older.step = "answer" /\ older' = NoOlder
      /\ UNCHANGED <<logRows, logExecution, logFilter, filterDebounceTimer, loadingLogs, latest, gap>>
  BY DEF OlderAnswer
<1>2. /\ older.exec = logExecution => executionLog' = new \o executionLog /\ logsTotal' = older.total
      /\ older.exec # logExecution => executionLog' = executionLog /\ logsTotal' = logsTotal
  BY DEF OlderAnswer
<1>3. older \in OlderLoads /\ executionLog \in Seq(Entries) /\ logsTotal \in Nat
  BY DEF LogInv, LogTyped
<1>4. new \in Seq(Entries)
  <2>1. older.items \in Seq(Entries)
    BY <1>3 DEF OlderLoads
  <2> QED BY <2>1, FilteredKeeps
<1>5. LogTyped'
  <2>1. older.total \in Nat
    BY <1>3 DEF OlderLoads
  <2> HIDE DEF new
  <2>2. executionLog' \in Seq(Entries) /\ logsTotal' \in Nat
    BY <1>2, <1>3, <1>4, <2>1, ConcatProperties
  <2>3. older' \in OlderLoads
    BY <1>1, NoLatestIs
  <2> QED BY <1>1, <2>2, <2>3 DEF LogInv, LogTyped
<1>6. older'.step = "idle"
  BY <1>1, NoLatestIs
<1>7. LoadsAreFor'
  BY <1>1, <1>6 DEF LogInv, LoadsAreFor, Awaits
<1>8. LatestTell'
  BY <1>1, SameLines DEF LogInv, LatestTell
<1>9. LogFollows'
  <2> SUFFICES ASSUME logExecution # None, ~gap, filterDebounceTimer # logExecution
               PROVE  /\ \A l \in Latests : Awaits(l)' /\ latest'[l].exec = logExecution => latest'[l].filter = logFilter
                      /\ ShowsEnd(executionLog', logsTotal', LinesOf(logExecution, logFilter))
    BY <1>1, SameLines DEF LogFollows, ShowsEnd
  <2>1. \A l \in Latests : ~Awaits(l)'
    BY <1>1 DEF LogInv, OlderFollows, Awaits
  <2> DEFINE all == LinesOf(logExecution, logFilter)
  <2>2. /\ older.exec = logExecution /\ older.offset = Len(executionLog) /\ older.known = ToSet(executionLog)
        /\ ShowsEnd(executionLog, logsTotal, all)
        /\ older.items = Stored(PageFrom(all, older.offset)) /\ older.total = Len(all)
    BY <1>1 DEF LogInv, OlderFollows
  <2>3. all \in Seq(Nat) /\ IsInjective(all)
    BY LinesTyped DEF LogInv, LogTyped
  <2> HIDE DEF all
  <2>4. ShowsEnd(new \o executionLog, Len(all), all)
    BY <1>3, <2>2, <2>3, OlderPageShows
  <2> QED BY <1>2, <2>1, <2>2, <2>4 DEF all
<1>10. OlderFollows'
  BY <1>6 DEF OlderFollows
<1> QED BY <1>5, <1>7, <1>8, <1>9, <1>10 DEF LogInv

LEMMA OlderFailsKeeps ==
    ASSUME LogInv, OlderFails
    PROVE  LogInv'
<1>1. /\ older' = NoOlder
      /\ UNCHANGED <<logRows, logExecution, executionLog, logsTotal, logFilter, filterDebounceTimer, loadingLogs, latest, gap>>
  BY DEF OlderFails
<1>2. older' \in OlderLoads /\ older'.step = "idle"
  BY <1>1, NoLatestIs
<1>3. LogTyped' /\ LoadsAreFor'
  BY <1>1, <1>2 DEF LogInv, LogTyped, LoadsAreFor, Awaits
<1>4. LatestTell' /\ LogFollows'
  BY <1>1, SameLines DEF LogInv, LatestTell, LogFollows, Awaits, ShowsEnd
<1>5. OlderFollows'
  BY <1>2 DEF OlderFollows
<1> QED BY <1>3, <1>4, <1>5 DEF LogInv

LEMMA LineArrivesKeeps ==
    ASSUME LogInv, LineArrives
    PROVE  LogInv'
<1> DEFINE n == logRows[logExecution] + 1
           x == [line |-> n, live |-> TRUE]
<1>1. logExecution \in DOMAIN Logged /\ logRows \in [DOMAIN Logged -> Nat]
  BY DEF LogInv, LogTyped, LineArrives
<1>2. logRows' = [logRows EXCEPT ![logExecution] = logRows[logExecution] + 1]
  BY DEF LineArrives
<1>3. logRows' \in [DOMAIN Logged -> Nat] /\ logRows'[logExecution] = n /\ n \in Nat
  BY <1>1, <1>2
<1>4. /\ logExecution # None
      /\ executionLog' = Append(executionLog, x) /\ logsTotal' = logsTotal + 1
      /\ gap' = (gap \/ ~Passes(logFilter, n) \/ filterDebounceTimer # None
                     \/ older.step # "idle" \/ \E l \in Latests : latest[l].step # "idle")
      /\ UNCHANGED <<logExecution, logFilter, filterDebounceTimer, loadingLogs, latest, older>>
  BY <1>3 DEF LineArrives
<1>5. x \in Entries /\ x.line = n
  BY <1>3 DEF Entries
<1> HIDE DEF x
<1>6. LogTyped'
  <2>1. executionLog' \in Seq(Entries) /\ logsTotal' \in Nat
    BY <1>4, <1>5, AppendProperties DEF LogInv, LogTyped
  <2>2. gap' \in BOOLEAN
    BY <1>4
  <2> QED BY <1>3, <1>4, <2>1, <2>2 DEF LogInv, LogTyped
<1>7. LoadsAreFor'
  BY <1>4 DEF LogInv, LoadsAreFor, Awaits
<1>8. ASSUME ~gap'
      PROVE  /\ ~gap /\ Passes(logFilter, n) /\ filterDebounceTimer = None /\ older.step = "idle"
             /\ \A l \in Latests : ~Awaits(l)
  BY <1>4, <1>8 DEF Awaits
<1>9. LatestTell' /\ OlderFollows'
  BY <1>4, <1>8 DEF LatestTell, OlderFollows, Awaits
<1>10. LogFollows'
  <2> SUFFICES ASSUME ~gap' PROVE LogFollows'
    BY DEF LogFollows
  <2> DEFINE all == LinesOf(logExecution, logFilter)
  <2>1. ShowsEnd(executionLog, logsTotal, all)
    BY <1>4, <1>8 DEF LogInv, LogFollows
  <2>2. all \in Seq(Nat) /\ executionLog \in Seq(Entries)
    BY <1>1, LinesTyped DEF LogInv, LogTyped
  <2>3. LinesOf(logExecution, logFilter)' = Append(all, n)
    BY <1>1, <1>3, <1>4, <1>8, LinesGrow
  <2> HIDE DEF all
  <2>4. ShowsEnd(executionLog', logsTotal', Append(all, n))
    BY <1>4, <1>5, <2>1, <2>2, NewLineShows
  <2>5. \A l \in Latests : ~Awaits(l)'
    BY <1>4, <1>8 DEF Awaits
  <2> QED BY <2>3, <2>4, <2>5 DEF LogFollows
<1> QED BY <1>6, <1>7, <1>9, <1>10 DEF LogInv

LEMMA LogBegins ==
    ASSUME LogInit
    PROVE  LogInv
<1>1. 1 \in DOMAIN Logged /\ Logged \in [DOMAIN Logged -> Nat] /\ Logged[1] \in Nat
  BY LogAssumption
<1>2. /\ logRows = Logged /\ logExecution = 1 /\ logsTotal = Logged[1] /\ logFilter = "all" /\ filterDebounceTimer = None
      /\ executionLog = Stored(LogPageOf(1, "all", 0)) /\ loadingLogs = FALSE /\ gap = FALSE
      /\ latest = [l \in Latests |-> NoLatest] /\ older = NoOlder
  BY DEF LogInit
<1>3. Len(LinesOf(1, "all")) = Logged[1]
  <2> DEFINE rows == [n \in 1 .. logRows[1] |-> n]
             kept == {n \in 1 .. logRows[1] : Passes("all", n)}
  <2>1. rows \in Seq(Nat) /\ Len(rows) = Logged[1] /\ \A j \in 1 .. Len(rows) : rows[j] \in kept
    BY <1>1, <1>2 DEF Passes
  <2>2. LinesOf(1, "all") = Filtered(rows, kept)
    BY DEF LinesOf
  <2> HIDE DEF rows, kept
  <2> QED BY <2>1, <2>2, AllKept
<1>4. LinesOf(1, "all") \in Seq(Nat)
  BY <1>1, <1>2, LinesAre
<1>5. executionLog \in Seq(Entries) /\ ShowsEnd(executionLog, logsTotal, LinesOf(1, "all"))
  BY <1>2, <1>3, <1>4, PageIs, LastPageShows
<1>6. LogTyped
  <2>1. latest \in [Latests -> LatestLoads] /\ older \in OlderLoads /\ loadingLogs \in BOOLEAN /\ gap \in BOOLEAN
    BY <1>2, NoLatestIs
  <2> QED BY <1>1, <1>2, <1>5, <2>1 DEF LogTyped, LogFilters
<1>7. older.step = "idle" /\ \A l \in Latests : latest[l].step = "idle"
  BY <1>2, NoLatestIs
<1>8. LoadsAreFor /\ LatestTell /\ OlderFollows
  BY <1>2, <1>7 DEF LoadsAreFor, LatestTell, OlderFollows, Awaits
<1>9. LogFollows
  BY <1>2, <1>5, <1>7 DEF LogFollows, Awaits
<1> QED BY <1>6, <1>8, <1>9 DEF LogInv

LEMMA LogInvKept ==
    ASSUME LogInv, LogNext \/ UNCHANGED logVars
    PROVE  LogInv'
<1>1. CASE LogUser
  <2>1. "node" \in LogFilters /\ "all" \in LogFilters
    BY DEF LogFilters
  <2> QED BY <1>1, <2>1, SelectLogKeeps, ExitLogKeeps, LoadOlderLogsKeeps, SetLogFilterKeeps DEF LogUser, HandleNodeClick
<1>2. CASE LogSystem
  BY <1>2, ReadLatestKeeps, LatestAnswerKeeps, FilterTimerKeeps, ReadOlderKeeps, OlderAnswerKeeps DEF LogSystem
<1>3. CASE LogUpsets
  BY <1>3, LatestFailsKeeps, OlderFailsKeeps, LineArrivesKeeps DEF LogUpsets
<1>4. CASE UNCHANGED logVars
  <2>1. UNCHANGED <<logRows, logExecution, executionLog, logsTotal, logFilter, filterDebounceTimer, loadingLogs, latest, older, gap>>
    BY <1>4 DEF logVars
  <2>2. LogTyped' /\ LoadsAreFor'
    BY <2>1 DEF LogInv, LogTyped, LoadsAreFor, Awaits
  <2>3. LatestTell' /\ LogFollows'
    BY <2>1, SameLines DEF LogInv, LatestTell, LogFollows, Awaits, ShowsEnd
  <2>4. OlderFollows'
    BY <2>1, SameLines DEF LogInv, OlderFollows, Awaits, ShowsEnd
  <2> QED BY <2>2, <2>3, <2>4 DEF LogInv
<1> QED BY <1>1, <1>2, <1>3, <1>4 DEF LogNext

LEMMA LogInvAgrees ==
    ASSUME LogInv
    PROVE  LogTypeOK /\ LogIsASuffix
<1>1. LogTypeOK
  BY DEF LogInv, LogTyped, LoadsAreFor, LogTypeOK, Awaits
<1>2. ASSUME LogAtRest, logExecution # None, ~gap
      PROVE  LET all == LinesOf(logExecution, logFilter)
                 shown == [i \in DOMAIN executionLog |-> executionLog[i].line]
             IN  IsSuffix(shown, all) /\ logsTotal = Len(all) /\ (Len(shown) < LogPage => shown = all)
  <2> DEFINE all == LinesOf(logExecution, logFilter)
  <2>1. ShowsEnd(executionLog, logsTotal, all)
    BY <1>2 DEF LogInv, LogFollows, LogAtRest, Awaits
  <2>2. all \in Seq(Nat) /\ executionLog \in Seq(Entries)
    BY <1>2, LinesTyped DEF LogInv, LogTyped
  <2>3. logsTotal = Len(all)
    BY <2>1 DEF ShowsEnd
  <2> HIDE DEF all
  <2>4. LET shown == [i \in DOMAIN executionLog |-> executionLog[i].line]
        IN  IsSuffix(shown, all) /\ (Len(shown) < LogPage => shown = all)
    BY <2>1, <2>2, ShownIsSuffix
  <2> QED BY <2>3, <2>4 DEF all
<1> QED BY <1>1, <1>2 DEF LogIsASuffix

----------------------------------------------------------------------------
(* The drawing.  Its inductive invariant.                                  *)

DrawingSteps == {"idle", "parse", "layout", "stagger"}
Values == [nodeStatuses : 1 .. 2, executorInfo : {None} \cup [of : DOMAIN Drawn \cup {None}, library : 1 .. 2],
           nodeRuntimeData : 1 .. 2]
NodeStates == [def : {None} \cup 1 .. 2, shows : Values, measured : Sizes, leaving : BOOLEAN]
EdgeStates == [source : AllIds, target : AllIds, leaving : BOOLEAN]
TimerStates == [at : Nat, does : {"leave", "remove", "mount", "end"}, node : AllIds \cup {None}]

SourceTyped ==
    /\ sourceYaml \in DOMAIN Drawn \cup {None} /\ library \in 1 .. 2 /\ direction \in {"TB", "LR"}
    /\ resolving \in BOOLEAN /\ askingExecutors \in BOOLEAN /\ collapsed \in BOOLEAN
    /\ store \in Values /\ \A n \in DOMAIN resolvedNodeDefs : resolvedNodeDefs[n] \in 1 .. 2
NodesTyped ==
    /\ DOMAIN nodes \subseteq AllIds /\ IsFiniteSet(DOMAIN nodes) /\ nodes \in [DOMAIN nodes -> NodeStates]
    /\ edges \subseteq EdgeStates
RebuildTyped ==
    /\ rebuild \in [step : DrawingSteps, taken : {None} \cup Values]
    /\ rebuild.step \in {"layout", "stagger"} => rebuild.taken \in Values
    /\ staggerTimers \subseteq TimerStates
RelayoutTyped == relayout \in [step : {"idle", "timer", "layout"}, key : Keys \cup {None}]

\* Without a source there is nothing; what is being laid out has been parsed.
Sourced ==
    /\ sourceYaml = None => /\ DOMAIN nodes = {} /\ edges = {} /\ rebuild.step = "idle"
                            /\ store["executorInfo"] = None /\ ~resolving /\ ~askingExecutors
    /\ rebuild.step \in {"layout", "stagger"} => Drawn[sourceYaml].parses /\ "graph" \notin late

\* What the timers still have to do, and the nodes of the graph that are there.
Waiting(kind) == {t.node : t \in {timer \in staggerTimers : timer.does = kind}}
There == Ids(sourceYaml) \ Waiting("mount")

\* While nodes come and go, the timers know each change that is to come, once
\* and in its order, and the canvas differs from the graph by these changes.
TimersFit ==
    /\ rebuild.step # "stagger" => staggerTimers = {}
    /\ rebuild.step = "stagger" =>
       /\ \A t, o \in staggerTimers : t.does = o.does /\ t.node = o.node => t = o
       /\ \E t \in staggerTimers : t.does = "end" /\ \A o \in staggerTimers \ {t} : o.does # "end" /\ o.at < t.at
       /\ \A t \in staggerTimers : t.does = "leave" =>
             \E o \in staggerTimers : o.does = "remove" /\ o.node = t.node /\ t.at < o.at
       /\ Waiting("mount") \subseteq Ids(sourceYaml) /\ Waiting("remove") \cap Ids(sourceYaml) = {}
       /\ DOMAIN nodes = There \cup Waiting("remove")
       /\ available = There \cup Waiting("leave")
EdgesFit ==
    /\ \A edge \in edges : {edge.source, edge.target} \subseteq DOMAIN nodes
    /\ rebuild.step = "stagger" =>
       /\ {edge \in edges : ~edge.leaving} = EdgesWithin(sourceYaml, There)
       /\ \A edge \in edges : edge.leaving =>
             Touches(edge, Waiting("leave")) /\ {edge.source, edge.target} \subseteq There \cup Waiting("leave")
       /\ \A n \in There : ~nodes[n].leaving
IdleShows ==
    sourceYaml # None /\ rebuild.step = "idle" =>
       IF ~Drawn[sourceYaml].parses \/ "graph" \in late
       THEN DOMAIN nodes = {} /\ edges = {}
       ELSE /\ DOMAIN nodes = Ids(sourceYaml) /\ edges = EdgesWithin(sourceYaml, Ids(sourceYaml))
            /\ \A n \in DOMAIN nodes : ~nodes[n].leaving

\* The nodes that are there to stay have the definitions of the last answer.
DefOf(n) == IF n \in DOMAIN resolvedNodeDefs THEN resolvedNodeDefs[n] ELSE None
DefsFollow ==
    sourceYaml # None =>
    /\ rebuild.step = "idle" => \A n \in DOMAIN nodes : nodes[n].def = DefOf(n)
    /\ rebuild.step = "stagger" => \A n \in There : nodes[n].def = DefOf(n)
    /\ ~resolving /\ "def" \notin late => resolvedNodeDefs = [n \in Ids(sourceYaml) |-> library]

\* What the nodes show is what the store has, on the canvas and on its way.
ShowsFollow ==
    /\ \A n \in DOMAIN nodes : nodes[n].shows["nodeRuntimeData"] = store["nodeRuntimeData"]
    /\ \A kind \in Shown \ late :
         /\ rebuild.step = "idle" => \A n \in DOMAIN nodes : nodes[n].shows[kind] = store[kind]
         /\ rebuild.step = "stagger" => \A n \in There : nodes[n].shows[kind] = store[kind]
         /\ rebuild.step \in {"layout", "stagger"} => rebuild.taken[kind] = store[kind]
    /\ ~askingExecutors => store["executorInfo"] \in {None, ExecutorsNow}

\* A layout is by the sizes of now; the key is that of the layout on screen,
\* and one that has no layout is about to get one.
RelayoutFits == relayout.step # "idle" => rebuild.step # "stagger" /\ relayout.key = KeyOf(direction, nodes)
KeysFit ==
    "layout" \notin late =>
      /\ rebuild.step \in {"layout", "stagger"} => layoutKey = None
      /\ rebuild.step \in {"idle", "parse"} /\ layoutKey # None => placed = layoutKey
PlacedFits ==
    "layout" \notin late /\ rebuild.step = "idle" /\ relayout.step = "idle" /\ Measured(nodes) =>
        placed = KeyOf(direction, nodes)

DrawingTyped == SourceTyped /\ NodesTyped /\ RebuildTyped /\ RelayoutTyped
GraphFits == TimersFit /\ EdgesFit /\ IdleShows
LayoutFits == RelayoutFits /\ KeysFit /\ PlacedFits
DrawingInv == DrawingTyped /\ Sourced /\ GraphFits /\ DefsFollow /\ ShowsFollow /\ LayoutFits

(* The graphs.                                                             *)
LEMMA GraphIs ==
    ASSUME NEW y \in DOMAIN Drawn
    PROVE  /\ Ids(y) \subseteq AllIds /\ Ids(y) \subseteq Nat /\ IsFiniteSet(Ids(y)) /\ Ids(y) # {}
           /\ Drawn[y].nodes \in Seq(Ids(y)) /\ IsInjective(Drawn[y].nodes)
           /\ Drawn[y].edges \subseteq Ids(y) \X Ids(y)
<1>1. /\ Drawn[y].nodes \in Seq(Nat) /\ Drawn[y].nodes # <<>> /\ IsInjective(Drawn[y].nodes)
      /\ Drawn[y].edges \subseteq Ids(y) \X Ids(y)
  BY DrawnAssumption DEF Ids
<1> DEFINE list == Drawn[y].nodes
<1>2. Ids(y) = {list[i] : i \in 1 .. Len(list)} /\ Len(list) \in Nat
  BY <1>1 DEF Ids, ToSet
<1>3. Ids(y) \subseteq AllIds
  BY DEF Ids, AllIds
<1>4. Ids(y) \subseteq Nat /\ list \in Seq(Ids(y))
  <2>1. \A i \in 1 .. Len(list) : list[i] \in Nat /\ list[i] \in Ids(y)
    BY <1>1, <1>2
  <2>2. list \in [1 .. Len(list) -> Ids(y)]
    BY <1>1, <2>1
  <2>3. list \in Seq(Ids(y))
    BY <1>2, <2>2, IsASeq
  <2> QED BY <1>2, <2>1, <2>3
<1>5. IsFiniteSet(Ids(y))
  <2>1. IsFiniteSet(1 .. Len(list))
    <3>1. PICK k \in Int : k = Len(list)
      BY <1>2
    <3>2. IsFiniteSet(1 .. k)
      BY FS_Interval
    <3> QED BY <3>1, <3>2
  <2>2. list \in [1 .. Len(list) -> Ids(y)] /\ \A n \in Ids(y) : \E i \in 1 .. Len(list) : list[i] = n
    BY <1>2, <1>4
  <2>3. list \in Surjection(1 .. Len(list), Ids(y))
    BY <2>2 DEF Surjection
  <2> QED BY <2>1, <2>3, FS_Surjection
<1>6. Ids(y) # {}
  <2>1. 1 \in 1 .. Len(list)
    BY <1>1
  <2> QED BY <1>2, <2>1
<1> QED BY <1>1, <1>3, <1>4, <1>5, <1>6

LEMMA EdgesAre ==
    ASSUME NEW y \in DOMAIN Drawn, NEW ids
    PROVE  /\ EdgesWithin(y, ids) \subseteq EdgeStates
           /\ \A edge \in EdgesWithin(y, ids) : ~edge.leaving /\ {edge.source, edge.target} \subseteq ids \cap Ids(y)
           /\ \A more : more \cap Ids(y) = ids \cap Ids(y) => EdgesWithin(y, more) = EdgesWithin(y, ids)
           /\ \A more : ids \subseteq more => EdgesWithin(y, ids) \subseteq EdgesWithin(y, more)
<1>1. Drawn[y].edges \subseteq Ids(y) \X Ids(y) /\ Ids(y) \subseteq AllIds
  BY GraphIs
<1>2. ASSUME NEW pair \in Drawn[y].edges
      PROVE  /\ pair[1] \in Ids(y) /\ pair[2] \in Ids(y) /\ Edge(pair, FALSE) \in EdgeStates
             /\ Edge(pair, FALSE).source = pair[1] /\ Edge(pair, FALSE).target = pair[2] /\ ~Edge(pair, FALSE).leaving
  <2>1. pair[1] \in Ids(y) /\ pair[2] \in Ids(y)
    BY <1>1
  <2>2. pair[1] \in AllIds /\ pair[2] \in AllIds
    BY <1>1, <2>1
  <2> QED BY <2>1, <2>2 DEF Edge, EdgeStates
<1>3. EdgesWithin(y, ids) \subseteq EdgeStates
  BY <1>2 DEF EdgesWithin
<1>4. ASSUME NEW edge \in EdgesWithin(y, ids) PROVE ~edge.leaving /\ {edge.source, edge.target} \subseteq ids \cap Ids(y)
  <2>1. PICK pair \in Drawn[y].edges : {pair[1], pair[2]} \subseteq ids /\ edge = Edge(pair, FALSE)
    BY DEF EdgesWithin
  <2> QED BY <2>1, <1>2
<1>5. ASSUME NEW more, more \cap Ids(y) = ids \cap Ids(y) PROVE EdgesWithin(y, more) = EdgesWithin(y, ids)
  <2>1. \A pair \in Drawn[y].edges : {pair[1], pair[2]} \subseteq more <=> {pair[1], pair[2]} \subseteq ids
    BY <1>2, <1>5
  <2> QED BY <2>1 DEF EdgesWithin
<1>6. ASSUME NEW more, ids \subseteq more PROVE EdgesWithin(y, ids) \subseteq EdgesWithin(y, more)
  BY <1>6 DEF EdgesWithin
<1> QED BY <1>3, <1>4, <1>5, <1>6

LEMMA EmptyIs ==
    /\ DOMAIN <<>> = {}
    /\ \A f, S : f \in [DOMAIN f -> S] /\ DOMAIN f = {} => f = <<>>
<1>1. DOMAIN <<>> = {}
  OBVIOUS
<1>2. ASSUME NEW f, NEW S, f \in [DOMAIN f -> S], DOMAIN f = {} PROVE f = <<>>
  <2>1. f \in [1 .. 0 -> S]
    BY <1>2
  <2>2. f \in Seq(S) /\ Len(f) = 0
    BY <2>1, IsASeq
  <2> QED BY <2>2, EmptySeq
<1> QED BY <1>1, <1>2

(* Nodes as they are made, and as the runtime data change on them.         *)
LEMMA RawNodeIs ==
    ASSUME DrawingTyped, rebuild.taken \in Values, NEW n
    PROVE  /\ RawNode(n) \in NodeStates /\ RawNode(n).def = DefOf(n) /\ RawNode(n).shows = rebuild.taken
           /\ ~RawNode(n).leaving
<1>1. DefOf(n) \in {None} \cup 1 .. 2
  BY DEF DefOf, DrawingTyped, SourceTyped
<1>2. RawNode(n) = [def |-> DefOf(n), shows |-> rebuild.taken, measured |-> "none", leaving |-> FALSE]
  BY DEF RawNode, DefOf
<1> QED BY <1>1, <1>2 DEF NodeStates, Sizes

Put(node, kind, value) == [node EXCEPT !.shows[kind] = value]

LEMMA PutOnNode ==
    ASSUME NEW node \in NodeStates, NEW kind \in Shown, NEW value,
           kind # "executorInfo" => value \in 1 .. 2,
           kind = "executorInfo" => value \in {None} \cup [of : DOMAIN Drawn \cup {None}, library : 1 .. 2]
    PROVE  /\ Put(node, kind, value) \in NodeStates /\ Put(node, kind, value).def = node.def
           /\ Put(node, kind, value).measured = node.measured /\ Put(node, kind, value).leaving = node.leaving
           /\ \A other \in Shown :
                 Put(node, kind, value).shows[other] = IF other = kind THEN value ELSE node.shows[other]
<1> DEFINE shows == [node.shows EXCEPT ![kind] = value]
           put == [node EXCEPT !.shows = shows]
<1>1. node.shows \in Values
  BY DEF NodeStates
<1>2. shows \in Values /\ \A other \in Shown : shows[other] = IF other = kind THEN value ELSE node.shows[other]
  BY <1>1 DEF Values, Shown
<1>3. put = Put(node, kind, value)
  BY Zenon DEF Put
<1> HIDE DEF shows
<1>4. /\ put \in NodeStates /\ put.def = node.def /\ put.measured = node.measured /\ put.leaving = node.leaving
      /\ put.shows = shows
  BY <1>2 DEF NodeStates
<1> HIDE DEF put
<1> QED BY <1>2, <1>3, <1>4

LEMMA WithRuntimeIs ==
    ASSUME store \in Values, NEW D, NEW drawn \in [D -> NodeStates]
    PROVE  /\ WithRuntime(drawn) \in [D -> NodeStates]
           /\ \A n \in D : LET node == WithRuntime(drawn)[n]
                           IN  /\ node.def = drawn[n].def /\ node.measured = drawn[n].measured
                               /\ node.leaving = drawn[n].leaving
                               /\ node.shows["nodeRuntimeData"] = store["nodeRuntimeData"]
                               /\ \A kind \in Shown \ {"nodeRuntimeData"} : node.shows[kind] = drawn[n].shows[kind]
<1>1. store.nodeRuntimeData \in 1 .. 2 /\ store["nodeRuntimeData"] = store.nodeRuntimeData
  BY DEF Values
<1> DEFINE put(n) == Put(drawn[n], "nodeRuntimeData", store.nodeRuntimeData)
<1>2. ASSUME NEW n \in D
      PROVE  /\ put(n) \in NodeStates /\ put(n).def = drawn[n].def /\ put(n).measured = drawn[n].measured
             /\ put(n).leaving = drawn[n].leaving
             /\ \A other \in Shown : put(n).shows[other] = IF other = "nodeRuntimeData" THEN store.nodeRuntimeData
                                                                                       ELSE drawn[n].shows[other]
  <2>1. drawn[n] \in NodeStates /\ "nodeRuntimeData" \in Shown
    BY DEF Shown
  <2> QED BY <1>1, <2>1, PutOnNode
<1>3. WithRuntime(drawn) = [n \in D |-> put(n)]
  BY Zenon DEF WithRuntime, Put
<1> HIDE DEF put
<1>4. "nodeRuntimeData" \in Shown
  BY DEF Shown
<1> QED BY <1>1, <1>2, <1>3, <1>4

(* The effect of the measured sizes has run.                               *)
LEMMA KeyIs ==
    ASSUME NEW way \in {"TB", "LR"}, NEW drawn, drawn \in [DOMAIN drawn -> NodeStates], DOMAIN drawn \subseteq AllIds
    PROVE  KeyOf(way, drawn) \in Keys /\ KeyOf(way, drawn) # None
<1>1. [n \in DOMAIN drawn |-> drawn[n].measured] \in [DOMAIN drawn -> Sizes]
  BY DEF NodeStates
<1>2. KeyOf(way, drawn) \in Keys
  BY <1>1 DEF KeyOf, Keys
<1> QED BY <1>2, DrawnAssumption

LEMMA RedrawnIs ==
    ASSUME Redrawn, direction' \in {"TB", "LR"}, nodes' \in [DOMAIN nodes' -> NodeStates], DOMAIN nodes' \subseteq AllIds,
           KeysFit'
    PROVE  RelayoutTyped' /\ RelayoutFits' /\ PlacedFits' /\ LayoutFits'
<1> DEFINE key == KeyOf(direction', nodes')
<1>1. key \in Keys /\ key # None
  BY KeyIs
<1>2. relayout' = IF rebuild'.step # "stagger" /\ Measured(nodes') /\ key # layoutKey'
                  THEN [step |-> "timer", key |-> key] ELSE [step |-> "idle", key |-> None]
  BY DEF Redrawn, RelayoutFor, NoRelayout
<1> HIDE DEF key
<1>3. RelayoutTyped'
  BY <1>1, <1>2 DEF RelayoutTyped
<1>4. relayout'.step # "idle" => rebuild'.step # "stagger" /\ relayout'.key = key
  BY <1>2
<1>5. RelayoutFits'
  BY <1>4 DEF RelayoutFits, key
<1>6. ASSUME "layout" \notin late', rebuild'.step = "idle", relayout'.step = "idle", Measured(nodes')
      PROVE  placed' = key
  <2>1. layoutKey' = key
    BY <1>2, <1>6
  <2> QED BY <1>1, <1>6, <2>1 DEF KeysFit
<1>7. PlacedFits'
  BY <1>6 DEF PlacedFits, key
<1> QED BY <1>3, <1>5, <1>7 DEF LayoutFits

(* What a step that leaves something alone leaves of the invariant.        *)
LEMMA WaitingStays ==
    ASSUME UNCHANGED <<sourceYaml, staggerTimers>>
    PROVE  There' = There /\ \A kind : Waiting(kind)' = Waiting(kind)
BY DEF There, Waiting

LEMMA GraphStays ==
    ASSUME DrawingInv, UNCHANGED <<sourceYaml, staggerTimers, available, edges>>, rebuild'.step = rebuild.step,
           DOMAIN nodes' = DOMAIN nodes, \A n \in DOMAIN nodes : nodes'[n].leaving = nodes[n].leaving,
           "graph" \in late' <=> "graph" \in late
    PROVE  GraphFits'
<1>1. There' = There /\ \A kind : Waiting(kind)' = Waiting(kind)
  BY WaitingStays
<1>2. TimersFit /\ EdgesFit /\ IdleShows
  BY DEF DrawingInv, GraphFits
<1>3. TimersFit'
  BY <1>1, <1>2 DEF TimersFit
<1>4. EdgesFit'
  <2>1. rebuild.step = "stagger" => There \subseteq DOMAIN nodes
    BY <1>2 DEF TimersFit
  <2> QED BY <1>1, <1>2, <2>1 DEF EdgesFit
<1>5. IdleShows'
  BY <1>2 DEF IdleShows
<1> QED BY <1>3, <1>4, <1>5 DEF GraphFits

LEMMA DefsStay ==
    ASSUME DrawingInv, UNCHANGED <<sourceYaml, resolvedNodeDefs, staggerTimers>>, rebuild'.step = rebuild.step,
           DOMAIN nodes' = DOMAIN nodes, \A n \in DOMAIN nodes : nodes'[n].def = nodes[n].def,
           sourceYaml # None /\ ~resolving' /\ "def" \notin late' => ~resolving /\ "def" \notin late /\ library' = library
    PROVE  DefsFollow'
<1>1. There' = There
  BY WaitingStays
<1>2. \A n : DefOf(n)' = DefOf(n)
  BY DEF DefOf
<1>3. rebuild.step = "stagger" => There \subseteq DOMAIN nodes
  BY DEF DrawingInv, GraphFits, TimersFit
<1> QED BY <1>1, <1>2, <1>3 DEF DrawingInv, DefsFollow

LEMMA ShowsStay ==
    ASSUME DrawingInv, UNCHANGED <<sourceYaml, staggerTimers, store, rebuild>>,
           DOMAIN nodes' = DOMAIN nodes, \A n \in DOMAIN nodes : nodes'[n].shows = nodes[n].shows,
           \A kind \in Shown : kind \in late' <=> kind \in late,
           ~askingExecutors' => store["executorInfo"] \in {None, [of |-> sourceYaml, library |-> library']}
    PROVE  ShowsFollow'
<1>1. There' = There
  BY WaitingStays
<1>2. rebuild.step = "stagger" => There \subseteq DOMAIN nodes
  BY DEF DrawingInv, GraphFits, TimersFit
<1>3. ExecutorsNow' = [of |-> sourceYaml, library |-> library']
  BY DEF ExecutorsNow
<1>4. \A n \in DOMAIN nodes' : nodes'[n].shows["nodeRuntimeData"] = store'["nodeRuntimeData"]
  BY DEF DrawingInv, ShowsFollow
<1>5. ASSUME NEW kind \in Shown \ late'
      PROVE  /\ rebuild'.step = "idle" => \A n \in DOMAIN nodes' : nodes'[n].shows[kind] = store'[kind]
             /\ rebuild'.step = "stagger" => \A n \in There' : nodes'[n].shows[kind] = store'[kind]
             /\ rebuild'.step \in {"layout", "stagger"} => rebuild'.taken[kind] = store'[kind]
  BY <1>1, <1>2, <1>5 DEF DrawingInv, ShowsFollow
<1> QED BY <1>3, <1>4, <1>5 DEF ShowsFollow

LEMMA KeysStay ==
    ASSUME DrawingInv, UNCHANGED <<placed, layoutKey>>, "layout" \in late' <=> "layout" \in late,
           rebuild'.step = rebuild.step \/ rebuild'.step \in {"idle", "parse"}
    PROVE  KeysFit'
<1>1. rebuild.step \in DrawingSteps
  BY DEF DrawingInv, DrawingTyped, RebuildTyped
<1> QED BY <1>1 DEF DrawingInv, LayoutFits, KeysFit, DrawingSteps

LEMMA LayoutStays ==
    ASSUME DrawingInv, UNCHANGED <<placed, layoutKey, relayout, direction, nodes>>, "layout" \in late' <=> "layout" \in late,
           rebuild'.step = rebuild.step \/ rebuild'.step = "parse"
    PROVE  LayoutFits'
<1>1. KeysFit'
  BY KeysStay
<1>2. RelayoutFits'
  BY DEF DrawingInv, LayoutFits, RelayoutFits
<1>3. PlacedFits'
  BY DEF DrawingInv, LayoutFits, PlacedFits
<1> QED BY <1>1, <1>2, <1>3 DEF LayoutFits

(* The parse effect runs again.                                            *)
LEMMA Restarts ==
    ASSUME DrawingInv, NEW y \in DOMAIN Drawn \cup {None}, sourceYaml' = y, RestartRebuild(y),
           \A edge \in edges' : {edge.source, edge.target} \subseteq DOMAIN nodes'
    PROVE  RebuildTyped' /\ GraphFits' /\ rebuild'.step = IF y = None THEN "idle" ELSE "parse"
<1>1. rebuild' = [step |-> IF y = None THEN "idle" ELSE "parse", taken |-> None]
  BY DEF RestartRebuild, NoRebuild
<1>2. staggerTimers' = {} /\ available' = {}
  BY DEF RestartRebuild
<1>3. RebuildTyped'
  BY <1>1, <1>2 DEF RebuildTyped, DrawingSteps
<1>4. rebuild'.step # "stagger" /\ (sourceYaml' # None => rebuild'.step # "idle")
  BY <1>1
<1>5. GraphFits'
  BY <1>2, <1>4 DEF GraphFits, TimersFit, EdgesFit, IdleShows
<1> QED BY <1>1, <1>3, <1>5

LEMMA NothingDrawn ==
    ASSUME nodes' = <<>>, edges' = {}
    PROVE  NodesTyped' /\ DOMAIN nodes' = {} /\ ~Measured(nodes')
<1>1. DOMAIN nodes' = {}
  BY EmptyIs
<1>2. nodes' \in [DOMAIN nodes' -> NodeStates]
  <2>1. <<>> \in Seq(NodeStates)
    OBVIOUS
  <2>2. <<>> \in [1 .. 0 -> NodeStates]
    OBVIOUS
  <2> QED BY <1>1, <2>2, 1 .. 0 = {}
<1>3. IsFiniteSet({})
  BY FS_EmptySet
<1> QED BY <1>1, <1>2, <1>3 DEF NodesTyped, Measured

LEMMA OpenSourceDraws ==
    ASSUME DrawingInv, NEW y \in DOMAIN Drawn \cup {None}, OpenSource(y)
    PROVE  DrawingInv'
<1>1. /\ y # sourceYaml /\ sourceYaml' = y /\ RestartRebuild(y)
      /\ resolving' = (y # None) /\ askingExecutors' = (y # None)
      /\ UNCHANGED <<library, collapsed, direction, placed, layoutKey, late>>
  BY DEF OpenSource
<1>2. resolving' \in BOOLEAN /\ askingExecutors' \in BOOLEAN
  BY <1>1
<1>3. CASE y = None
  <2>1. /\ nodes' = <<>> /\ edges' = {} /\ relayout' = NoRelayout
        /\ resolvedNodeDefs' = <<>> /\ store' = [store EXCEPT !["executorInfo"] = None]
    BY <1>3 DEF OpenSource
  <2>2. NodesTyped' /\ DOMAIN nodes' = {} /\ ~Measured(nodes')
    BY <2>1, NothingDrawn
  <2>3. RebuildTyped' /\ GraphFits' /\ rebuild'.step = "idle"
    BY <1>1, <1>3, <2>1, Restarts
  <2>4. store' \in Values /\ store'["executorInfo"] = None
    BY <2>1 DEF DrawingInv, DrawingTyped, SourceTyped, Values
  <2>5. SourceTyped'
    BY <1>1, <1>2, <2>1, <2>4, EmptyIs DEF DrawingInv, DrawingTyped, SourceTyped
  <2>6. RelayoutTyped' /\ relayout'.step = "idle"
    BY <2>1 DEF RelayoutTyped, NoRelayout
  <2>7. Sourced'
    BY <1>1, <1>3, <2>1, <2>2, <2>3, <2>4 DEF Sourced
  <2>8. DefsFollow' /\ ShowsFollow'
    BY <1>1, <1>3, <2>2, <2>3, <2>4 DEF DefsFollow, ShowsFollow
  <2>9. KeysFit'
    BY <1>1, <2>3, KeysStay
  <2>10. LayoutFits'
    BY <2>2, <2>6, <2>9 DEF LayoutFits, RelayoutFits, PlacedFits
  <2> QED BY <2>2, <2>3, <2>5, <2>6, <2>7, <2>8, <2>10 DEF DrawingInv, DrawingTyped
<1>4. CASE y # None
  <2>1. UNCHANGED <<nodes, edges, relayout, resolvedNodeDefs, store>>
    BY <1>4 DEF OpenSource
  <2>2. \A edge \in edges' : {edge.source, edge.target} \subseteq DOMAIN nodes'
    BY <2>1 DEF DrawingInv, GraphFits, EdgesFit
  <2>3. RebuildTyped' /\ GraphFits' /\ rebuild'.step = "parse"
    BY <1>1, <1>4, <2>2, Restarts
  <2>4. SourceTyped' /\ NodesTyped' /\ RelayoutTyped'
    BY <1>1, <1>2, <2>1 DEF DrawingInv, DrawingTyped, SourceTyped, NodesTyped, RelayoutTyped
  <2>5. Sourced'
    BY <1>1, <1>4, <2>3 DEF Sourced
  <2>6. DefsFollow'
    BY <1>1, <1>4, <2>3 DEF DefsFollow
  <2>7. ShowsFollow'
    BY <1>1, <1>4, <2>1, <2>3 DEF DrawingInv, ShowsFollow
  <2>8. LayoutFits'
    BY <1>1, <2>1, <2>3, LayoutStays
  <2> QED BY <2>3, <2>4, <2>5, <2>6, <2>7, <2>8 DEF DrawingInv, DrawingTyped
<1> QED BY <1>3, <1>4

LEMMA PackageChangesDraws ==
    ASSUME DrawingInv, PackageChanges
    PROVE  DrawingInv'
<1>1. /\ library' = 3 - library
      /\ resolving' = (sourceYaml # None) /\ askingExecutors' = (sourceYaml # None)
      /\ UNCHANGED <<sourceYaml, resolvedNodeDefs, store, collapsed, direction, rebuild, orphans, staggerTimers, available,
                     nodes, edges, placed, layoutKey, relayout, late>>
  BY DEF PackageChanges
<1>2. resolving' \in BOOLEAN /\ askingExecutors' \in BOOLEAN
  BY <1>1
<1>3. library' \in 1 .. 2
  BY <1>1 DEF DrawingInv, DrawingTyped, SourceTyped
<1>4. DrawingTyped'
  BY <1>1, <1>2, <1>3 DEF DrawingInv, DrawingTyped, SourceTyped, NodesTyped, RebuildTyped, RelayoutTyped
<1>5. Sourced'
  BY <1>1 DEF DrawingInv, Sourced
<1>6. GraphFits'
  BY <1>1, GraphStays
<1>7. DefsFollow'
  BY <1>1, DefsStay
<1>8. ~askingExecutors' => store["executorInfo"] = None
  BY <1>1 DEF DrawingInv, Sourced
<1>9. ShowsFollow'
  BY <1>1, <1>8, ShowsStay
<1>10. LayoutFits'
  BY <1>1, LayoutStays
<1> QED BY <1>4, <1>5, <1>6, <1>7, <1>9, <1>10 DEF DrawingInv

(* A value changes, and an effect puts it on the nodes.                    *)
LEMMA ShowDraws ==
    ASSUME DrawingInv, NEW kind \in Shown, NEW value, Show(kind, value), Redrawn,
           kind # "executorInfo" => value \in 1 .. 2,
           kind = "executorInfo" => value \in {None} \cup [of : DOMAIN Drawn \cup {None}, library : 1 .. 2],
           UNCHANGED <<sourceYaml, library, resolving, resolvedNodeDefs, collapsed, direction, rebuild, orphans,
                       staggerTimers, available, edges, placed, layoutKey>>,
           askingExecutors' \in BOOLEAN, askingExecutors' => askingExecutors,
           sourceYaml = None => kind # "executorInfo",
           ~askingExecutors' => (kind # "executorInfo" /\ ~askingExecutors) \/ (kind = "executorInfo" /\ value \in {None, ExecutorsNow})
    PROVE  DrawingInv'
<1>1. /\ store' = [store EXCEPT ![kind] = value]
      /\ nodes' = [n \in DOMAIN nodes |-> [nodes[n] EXCEPT !.shows[kind] = value]]
      /\ late' = IF rebuild.step \in {"layout", "stagger"} THEN late \cup {kind} ELSE late \ {kind}
  BY DEF Show
<1>2. /\ store' \in Values /\ \A other \in Shown : store'[other] = IF other = kind THEN value ELSE store[other]
  BY <1>1 DEF DrawingInv, DrawingTyped, SourceTyped, Values, Shown
<1>3. nodes \in [DOMAIN nodes -> NodeStates] /\ DOMAIN nodes \subseteq AllIds /\ IsFiniteSet(DOMAIN nodes)
  BY DEF DrawingInv, DrawingTyped, NodesTyped
<1> DEFINE put(n) == Put(nodes[n], kind, value)
<1>4. ASSUME NEW n \in DOMAIN nodes
      PROVE  /\ put(n) \in NodeStates /\ put(n).def = nodes[n].def /\ put(n).leaving = nodes[n].leaving
             /\ \A other \in Shown : put(n).shows[other] = IF other = kind THEN value ELSE nodes[n].shows[other]
  <2>1. nodes[n] \in NodeStates
    BY <1>3
  <2> QED BY <2>1, PutOnNode
<1>5. nodes' = [n \in DOMAIN nodes |-> put(n)]
  BY <1>1, Zenon DEF Put
<1> HIDE DEF put
<1>6. /\ DOMAIN nodes' = DOMAIN nodes /\ nodes' \in [DOMAIN nodes' -> NodeStates]
      /\ \A n \in DOMAIN nodes :
            /\ nodes'[n].def = nodes[n].def /\ nodes'[n].leaving = nodes[n].leaving
            /\ \A other \in Shown : nodes'[n].shows[other] = IF other = kind THEN value ELSE nodes[n].shows[other]
  BY <1>4, <1>5
<1>7. "graph" \notin Shown /\ "layout" \notin Shown /\ "def" \notin Shown
  BY DEF Shown
<1>8. /\ "graph" \in late' <=> "graph" \in late
      /\ "layout" \in late' <=> "layout" \in late
      /\ "def" \in late' <=> "def" \in late
      /\ \A other \in Shown \ late' : other # kind => other \notin late
      /\ rebuild.step \in {"layout", "stagger"} => kind \in late'
  BY <1>1, <1>7
<1>9. KeysFit'
  BY <1>8, KeysStay
<1>10. RelayoutTyped' /\ LayoutFits'
  BY <1>3, <1>6, <1>9, RedrawnIs DEF DrawingInv, DrawingTyped, SourceTyped
<1>11. DrawingTyped'
  <2>1. SourceTyped'
    BY <1>2 DEF DrawingInv, DrawingTyped, SourceTyped
  <2>2. NodesTyped'
    BY <1>3, <1>6 DEF DrawingInv, DrawingTyped, NodesTyped
  <2>3. RebuildTyped'
    BY DEF DrawingInv, DrawingTyped, RebuildTyped
  <2> QED BY <1>10, <2>1, <2>2, <2>3 DEF DrawingTyped
<1>12. Sourced'
  BY <1>2, <1>6, <1>8 DEF DrawingInv, Sourced, Shown
<1>13. GraphFits'
  BY <1>6, <1>8, GraphStays
<1>14. DefsFollow'
  BY <1>6, <1>8, DefsStay
<1>15. ShowsFollow'
  <2>1. There' = There
    BY WaitingStays
  <2>2. rebuild.step = "stagger" => There \subseteq DOMAIN nodes
    BY DEF DrawingInv, GraphFits, TimersFit
  <2>3. \A n \in DOMAIN nodes' : nodes'[n].shows["nodeRuntimeData"] = store'["nodeRuntimeData"]
    BY <1>2, <1>6 DEF DrawingInv, ShowsFollow, Shown
  <2>4. ASSUME NEW other \in Shown \ late'
        PROVE  /\ rebuild'.step = "idle" => \A n \in DOMAIN nodes' : nodes'[n].shows[other] = store'[other]
               /\ rebuild'.step = "stagger" => \A n \in There' : nodes'[n].shows[other] = store'[other]
               /\ rebuild'.step \in {"layout", "stagger"} => rebuild'.taken[other] = store'[other]
    <3>1. CASE other = kind
      BY <3>1, <1>2, <1>6, <1>8, <2>4
    <3>2. CASE other # kind
      BY <3>2, <1>2, <1>6, <1>8, <2>1, <2>2, <2>4 DEF DrawingInv, ShowsFollow
    <3> QED BY <3>1, <3>2
  <2>5. ~askingExecutors' => store'["executorInfo"] \in {None, ExecutorsNow'}
    <3>1. ExecutorsNow' = ExecutorsNow /\ "executorInfo" \in Shown
      BY DEF ExecutorsNow, Shown
    <3> QED BY <3>1, <1>2 DEF DrawingInv, ShowsFollow
  <2> QED BY <2>3, <2>4, <2>5 DEF ShowsFollow
<1> QED BY <1>10, <1>11, <1>12, <1>13, <1>14, <1>15 DEF DrawingInv

LEMMA ChangeDraws ==
    ASSUME DrawingInv, NEW kind \in Shown, Change(kind)
    PROVE  DrawingInv'
<1>1. /\ kind # "executorInfo" /\ Show(kind, 3 - store[kind]) /\ Redrawn
      /\ UNCHANGED <<sourceYaml, library, resolving, resolvedNodeDefs, askingExecutors, collapsed, direction, rebuild, orphans,
                     staggerTimers, available, edges, placed, layoutKey>>
  BY DEF Change
<1> DEFINE value == 3 - store[kind]
<1>2. value \in 1 .. 2
  BY <1>1 DEF DrawingInv, DrawingTyped, SourceTyped, Values, Shown
<1>3. askingExecutors' \in BOOLEAN /\ askingExecutors' = askingExecutors
  BY <1>1 DEF DrawingInv, DrawingTyped, SourceTyped
<1>4. Show(kind, value)
  BY <1>1
<1>5. ~askingExecutors' => kind # "executorInfo" /\ ~askingExecutors
  BY <1>1
<1>6. /\ Redrawn /\ kind # "executorInfo"
      /\ UNCHANGED <<sourceYaml, library, resolving, resolvedNodeDefs, collapsed, direction, rebuild, orphans,
                     staggerTimers, available, edges, placed, layoutKey>>
  BY <1>1
<1> HIDE DEF value
<1>7. /\ kind # "executorInfo" => value \in 1 .. 2
      /\ kind = "executorInfo" => value \in {None} \cup [of : DOMAIN Drawn \cup {None}, library : 1 .. 2]
      /\ sourceYaml = None => kind # "executorInfo"
  BY <1>2, <1>6
<1>8. askingExecutors' => askingExecutors
  BY <1>3, Zenon
<1>9. ~askingExecutors' => (kind # "executorInfo" /\ ~askingExecutors) \/ (kind = "executorInfo" /\ value \in {None, ExecutorsNow})
  BY <1>5, Zenon
<1> QED BY <1>3, <1>4, <1>6, <1>7, <1>8, <1>9, ShowDraws, Zenon

LEMMA BadgesDraw ==
    ASSUME DrawingInv, ExecutorsAnswer \/ ExecutorsFail
    PROVE  DrawingInv'
<1>1. /\ askingExecutors /\ askingExecutors' = FALSE /\ Redrawn
      /\ UNCHANGED <<sourceYaml, library, resolving, resolvedNodeDefs, collapsed, direction, rebuild, orphans, staggerTimers,
                     available, edges, placed, layoutKey>>
  BY DEF ExecutorsAnswer, ExecutorsFail
<1>2. PICK info \in {None, ExecutorsNow} : Show("executorInfo", info)
  BY DEF ExecutorsAnswer, ExecutorsFail, Badges
<1>3. info \in {None} \cup [of : DOMAIN Drawn \cup {None}, library : 1 .. 2]
  BY DEF ExecutorsNow, DrawingInv, DrawingTyped, SourceTyped
<1>4. askingExecutors' \in BOOLEAN
  BY <1>1
<1>5. sourceYaml # None
  BY <1>1 DEF DrawingInv, Sourced
<1>6. "executorInfo" \in Shown
  BY DEF Shown
<1> QED BY <1>1, <1>2, <1>3, <1>4, <1>5, <1>6, ShowDraws

LEMMA ToggleDirectionDraws ==
    ASSUME DrawingInv, ToggleDirection
    PROVE  DrawingInv'
<1>1. /\ direction' = (IF direction = "TB" THEN "LR" ELSE "TB") /\ RestartRebuild(sourceYaml) /\ Redrawn
      /\ UNCHANGED <<sourceYaml, library, resolving, resolvedNodeDefs, askingExecutors, store, collapsed, nodes, edges, placed,
                     layoutKey, late>>
  BY DEF ToggleDirection
<1>2. sourceYaml \in DOMAIN Drawn \cup {None} /\ \A edge \in edges' : {edge.source, edge.target} \subseteq DOMAIN nodes'
  BY <1>1 DEF DrawingInv, DrawingTyped, SourceTyped, GraphFits, EdgesFit
<1>3. RebuildTyped' /\ GraphFits' /\ rebuild'.step = IF sourceYaml = None THEN "idle" ELSE "parse"
  BY <1>1, <1>2, Restarts
<1>4. SourceTyped' /\ NodesTyped'
  BY <1>1 DEF DrawingInv, DrawingTyped, SourceTyped, NodesTyped
<1>5. KeysFit'
  BY <1>1, <1>3, KeysStay
<1>6. RelayoutTyped' /\ LayoutFits'
  BY <1>1, <1>4, <1>5, RedrawnIs DEF SourceTyped, NodesTyped
<1>7. Sourced'
  BY <1>1, <1>3 DEF DrawingInv, Sourced
<1>8. DefsFollow'
  BY <1>1, <1>3 DEF DrawingInv, DefsFollow
<1>9. ShowsFollow'
  <2>1. sourceYaml = None => DOMAIN nodes = {}
    BY DEF DrawingInv, Sourced
  <2>2. ExecutorsNow' = ExecutorsNow
    BY <1>1 DEF ExecutorsNow
  <2> QED BY <1>1, <1>3, <2>1, <2>2 DEF DrawingInv, ShowsFollow
<1> QED BY <1>3, <1>4, <1>6, <1>7, <1>8, <1>9 DEF DrawingInv, DrawingTyped

LEMMA ToggleCollapsedDraws ==
    ASSUME DrawingInv, ToggleCollapsed
    PROVE  DrawingInv'
<1>1. /\ collapsed' = ~collapsed
      /\ UNCHANGED <<sourceYaml, library, resolving, resolvedNodeDefs, askingExecutors, store, direction, rebuild, orphans,
                     staggerTimers, available, nodes, edges, placed, layoutKey, relayout, late>>
  BY DEF ToggleCollapsed
<1>2. collapsed' \in BOOLEAN
  BY <1>1
<1>3. DrawingTyped'
  BY <1>1, <1>2 DEF DrawingInv, DrawingTyped, SourceTyped, NodesTyped, RebuildTyped, RelayoutTyped
<1>4. Sourced'
  BY <1>1 DEF DrawingInv, Sourced
<1>5. ~askingExecutors' => store["executorInfo"] \in {None, [of |-> sourceYaml, library |-> library']}
  BY <1>1 DEF DrawingInv, ShowsFollow, ExecutorsNow
<1>6. GraphFits' /\ DefsFollow' /\ ShowsFollow' /\ LayoutFits'
  BY <1>1, <1>5, GraphStays, DefsStay, ShowsStay, LayoutStays
<1> QED BY <1>3, <1>4, <1>6 DEF DrawingInv

LEMMA OnNodesChangeDraws ==
    ASSUME DrawingInv, OnNodesChange
    PROVE  DrawingInv'
<1>1. /\ nodes' = [n \in DOMAIN nodes |-> [nodes[n] EXCEPT !.measured = Size]] /\ Redrawn
      /\ UNCHANGED <<sourceYaml, library, resolving, resolvedNodeDefs, askingExecutors, store, collapsed, direction, rebuild,
                     orphans, staggerTimers, available, edges, placed, layoutKey, late>>
  BY DEF OnNodesChange
<1>2. nodes \in [DOMAIN nodes -> NodeStates] /\ DOMAIN nodes \subseteq AllIds /\ Size \in Sizes
  BY DEF DrawingInv, DrawingTyped, NodesTyped, Size, Sizes
<1>3. ASSUME NEW n \in DOMAIN nodes
      PROVE  LET measured == [nodes[n] EXCEPT !.measured = Size]
             IN  /\ measured \in NodeStates /\ measured.def = nodes[n].def /\ measured.shows = nodes[n].shows
                 /\ measured.leaving = nodes[n].leaving
  <2>1. nodes[n] \in NodeStates
    BY <1>2
  <2> QED BY <1>2, <2>1 DEF NodeStates
<1>4. /\ DOMAIN nodes' = DOMAIN nodes /\ nodes' \in [DOMAIN nodes' -> NodeStates]
      /\ \A n \in DOMAIN nodes :
            nodes'[n].def = nodes[n].def /\ nodes'[n].shows = nodes[n].shows /\ nodes'[n].leaving = nodes[n].leaving
  BY <1>1, <1>3
<1>5. KeysFit'
  BY <1>1, KeysStay
<1>6. RelayoutTyped' /\ LayoutFits'
  BY <1>1, <1>2, <1>4, <1>5, RedrawnIs DEF DrawingInv, DrawingTyped, SourceTyped
<1>7. DrawingTyped'
  BY <1>1, <1>2, <1>4, <1>6 DEF DrawingInv, DrawingTyped, SourceTyped, NodesTyped, RebuildTyped
<1>8. Sourced'
  BY <1>1, <1>4 DEF DrawingInv, Sourced
<1>9. ~askingExecutors' => store["executorInfo"] \in {None, [of |-> sourceYaml, library |-> library']}
  BY <1>1 DEF DrawingInv, ShowsFollow, ExecutorsNow
<1>10. UNCHANGED <<sourceYaml, staggerTimers, available, edges, rebuild, resolvedNodeDefs, store, late, resolving, library>>
  BY <1>1
<1>11. GraphFits' /\ DefsFollow' /\ ShowsFollow'
  BY <1>4, <1>9, <1>10, GraphStays, DefsStay, ShowsStay
<1> QED BY <1>6, <1>7, <1>8, <1>11 DEF DrawingInv

LEMMA ResolveAnswerDraws ==
    ASSUME DrawingInv, ResolveAnswer
    PROVE  DrawingInv'
<1>1. /\ resolving /\ resolving' = FALSE /\ resolvedNodeDefs' = [n \in Ids(sourceYaml) |-> library]
      /\ RestartRebuild(sourceYaml) /\ late' = late \ {"def"}
      /\ UNCHANGED <<sourceYaml, library, askingExecutors, store, collapsed, direction, nodes, edges, placed, layoutKey, relayout>>
  BY DEF ResolveAnswer
<1>2. sourceYaml # None /\ sourceYaml \in DOMAIN Drawn \cup {None}
  BY <1>1 DEF DrawingInv, Sourced, DrawingTyped, SourceTyped
<1>3. \A edge \in edges' : {edge.source, edge.target} \subseteq DOMAIN nodes'
  BY <1>1 DEF DrawingInv, GraphFits, EdgesFit
<1>4. RebuildTyped' /\ GraphFits' /\ rebuild'.step = "parse"
  BY <1>1, <1>2, <1>3, Restarts
<1>5. resolving' \in BOOLEAN
  BY <1>1
<1>6. SourceTyped' /\ NodesTyped' /\ RelayoutTyped'
  BY <1>1, <1>5 DEF DrawingInv, DrawingTyped, SourceTyped, NodesTyped, RelayoutTyped
<1>7. Sourced'
  BY <1>1, <1>2, <1>4 DEF Sourced
<1>8. DefsFollow'
  BY <1>1, <1>4 DEF DefsFollow
<1>9. ShowsFollow'
  <2>1. ExecutorsNow' = ExecutorsNow
    BY <1>1 DEF ExecutorsNow
  <2> QED BY <1>1, <1>4, <2>1 DEF DrawingInv, ShowsFollow
<1>10. LayoutFits'
  <2>1. "layout" \in late' <=> "layout" \in late
    BY <1>1
  <2> QED BY <1>1, <1>4, <2>1, LayoutStays
<1> QED BY <1>4, <1>6, <1>7, <1>8, <1>9, <1>10 DEF DrawingInv, DrawingTyped

LEMMA ResolveFailsDraws ==
    ASSUME DrawingInv, ResolveFails
    PROVE  DrawingInv'
<1>1. /\ resolving /\ resolving' = FALSE /\ late' = late \cup {"def"}
      /\ UNCHANGED <<sourceYaml, library, resolvedNodeDefs, askingExecutors, store, collapsed, direction, rebuild, orphans,
                     staggerTimers, available, nodes, edges, placed, layoutKey, relayout>>
  BY DEF ResolveFails
<1>2. resolving' \in BOOLEAN
  BY <1>1
<1>3. DrawingTyped'
  BY <1>1, <1>2 DEF DrawingInv, DrawingTyped, SourceTyped, NodesTyped, RebuildTyped, RelayoutTyped
<1>4. /\ "graph" \in late' <=> "graph" \in late
      /\ "layout" \in late' <=> "layout" \in late
      /\ "def" \in late'
      /\ \A kind \in Shown : kind \in late' <=> kind \in late
  BY <1>1 DEF Shown
<1>5. Sourced'
  BY <1>1, <1>4 DEF DrawingInv, Sourced
<1>6. ~askingExecutors' => store["executorInfo"] \in {None, [of |-> sourceYaml, library |-> library']}
  BY <1>1 DEF DrawingInv, ShowsFollow, ExecutorsNow
<1>7. GraphFits' /\ DefsFollow' /\ ShowsFollow' /\ LayoutFits'
  BY <1>1, <1>4, <1>6, GraphStays, DefsStay, ShowsStay, LayoutStays
<1> QED BY <1>3, <1>5, <1>7 DEF DrawingInv

LEMMA ParseDoneDraws ==
    ASSUME DrawingInv, ParseDone
    PROVE  DrawingInv'
<1>1. /\ rebuild.step = "parse" /\ Drawn[sourceYaml].parses
      /\ rebuild' = [step |-> "layout", taken |-> store] /\ layoutKey' = None
      /\ late' = late \ (Shown \cup {"graph", "layout"})
      /\ UNCHANGED <<sourceYaml, library, resolving, resolvedNodeDefs, askingExecutors, store, collapsed, direction, orphans,
                     staggerTimers, available, nodes, edges, placed, relayout>>
  BY DEF ParseDone
<1>2. rebuild'.step = "layout" /\ rebuild'.taken = store /\ store \in Values /\ staggerTimers = {}
  BY <1>1 DEF DrawingInv, DrawingTyped, SourceTyped, GraphFits, TimersFit
<1>3. sourceYaml # None
  BY <1>1 DEF DrawingInv, Sourced
<1>4. DrawingTyped'
  BY <1>1, <1>2 DEF DrawingInv, DrawingTyped, SourceTyped, NodesTyped, RebuildTyped, RelayoutTyped, DrawingSteps
<1>5. Sourced'
  BY <1>1, <1>3 DEF Sourced
<1>6. GraphFits'
  BY <1>1, <1>2 DEF DrawingInv, GraphFits, TimersFit, EdgesFit, IdleShows
<1>7. DefsFollow'
  <2>1. "def" \in late' <=> "def" \in late
    BY <1>1 DEF Shown
  <2> QED BY <1>1, <1>2, <1>3, <2>1 DEF DrawingInv, DefsFollow
<1>8. ShowsFollow'
  <2>1. ExecutorsNow' = ExecutorsNow
    BY <1>1 DEF ExecutorsNow
  <2>2. \A n \in DOMAIN nodes' : nodes'[n].shows["nodeRuntimeData"] = store'["nodeRuntimeData"]
    BY <1>1 DEF DrawingInv, ShowsFollow
  <2> QED BY <1>1, <1>2, <2>1, <2>2 DEF DrawingInv, ShowsFollow
<1>9. LayoutFits'
  <2>1. RelayoutFits'
    BY <1>1, <1>2 DEF DrawingInv, LayoutFits, RelayoutFits
  <2> QED BY <1>1, <1>2, <2>1 DEF LayoutFits, KeysFit, PlacedFits
<1> QED BY <1>4, <1>5, <1>6, <1>7, <1>8, <1>9 DEF DrawingInv

LEMMA ClearDraws ==
    ASSUME DrawingInv, ParseFails \/ RebuildFails
    PROVE  DrawingInv'
<1>1. /\ rebuild.step \in {"parse", "layout"}
      /\ nodes' = <<>> /\ edges' = {} /\ rebuild' = NoRebuild /\ relayout' = NoRelayout
      /\ UNCHANGED <<sourceYaml, library, resolving, resolvedNodeDefs, askingExecutors, store, collapsed, direction, orphans,
                     staggerTimers, available, placed, layoutKey>>
      /\ late' \in {late, late \cup {"graph"}}
      /\ ~Drawn[sourceYaml].parses \/ "graph" \in late'
  BY DEF ParseFails, RebuildFails, Clear
<1>2. NodesTyped' /\ DOMAIN nodes' = {} /\ ~Measured(nodes')
  BY <1>1, NothingDrawn
<1>3. rebuild'.step = "idle" /\ relayout'.step = "idle" /\ staggerTimers = {}
  BY <1>1 DEF NoRebuild, NoRelayout, DrawingInv, GraphFits, TimersFit
<1>4. sourceYaml # None
  BY <1>1 DEF DrawingInv, Sourced
<1>5. SourceTyped'
  BY <1>1 DEF DrawingInv, DrawingTyped, SourceTyped
<1>6. RebuildTyped' /\ RelayoutTyped'
  BY <1>1, <1>3 DEF RebuildTyped, RelayoutTyped, NoRebuild, NoRelayout, DrawingSteps
<1>7. Sourced'
  BY <1>1, <1>3, <1>4 DEF Sourced
<1>8. GraphFits'
  BY <1>1, <1>2, <1>3 DEF GraphFits, TimersFit, EdgesFit, IdleShows
<1>9. /\ "layout" \in late' <=> "layout" \in late
      /\ "def" \in late' <=> "def" \in late
  BY <1>1
<1>10. DefsFollow'
  BY <1>1, <1>2, <1>3, <1>9 DEF DrawingInv, DefsFollow
<1>11. ShowsFollow'
  <2>1. ExecutorsNow' = ExecutorsNow
    BY <1>1 DEF ExecutorsNow
  <2> QED BY <1>1, <1>2, <1>3, <2>1 DEF DrawingInv, ShowsFollow
<1>12. LayoutFits'
  <2>1. KeysFit'
    BY <1>1, <1>3, <1>9, KeysStay
  <2> QED BY <1>2, <1>3, <2>1 DEF LayoutFits, RelayoutFits, PlacedFits
<1> QED BY <1>2, <1>5, <1>6, <1>7, <1>8, <1>10, <1>11, <1>12 DEF DrawingInv, DrawingTyped

LEMMA OrphanParsedDraws ==
    ASSUME DrawingInv, OrphanParsed
    PROVE  DrawingInv'
<1>1. /\ layoutKey' = None
      /\ UNCHANGED <<sourceYaml, library, resolving, resolvedNodeDefs, askingExecutors, store, collapsed, direction, rebuild,
                     staggerTimers, available, nodes, edges, placed, relayout, late>>
  BY DEF OrphanParsed
<1>2. DrawingTyped'
  BY <1>1 DEF DrawingInv, DrawingTyped, SourceTyped, NodesTyped, RebuildTyped, RelayoutTyped
<1>3. Sourced'
  BY <1>1 DEF DrawingInv, Sourced
<1>4. ~askingExecutors' => store["executorInfo"] \in {None, [of |-> sourceYaml, library |-> library']}
  BY <1>1 DEF DrawingInv, ShowsFollow, ExecutorsNow
<1>5. GraphFits' /\ DefsFollow' /\ ShowsFollow'
  BY <1>1, <1>4, GraphStays, DefsStay, ShowsStay
<1>6. LayoutFits'
  BY <1>1 DEF DrawingInv, LayoutFits, RelayoutFits, KeysFit, PlacedFits
<1> QED BY <1>2, <1>3, <1>5, <1>6 DEF DrawingInv

LEMMA RelayoutTimerDraws ==
    ASSUME DrawingInv, RelayoutTimer
    PROVE  DrawingInv'
<1>1. /\ relayout.step = "timer" /\ relayout' = [relayout EXCEPT !.step = "layout"]
      /\ UNCHANGED <<sourceYaml, library, resolving, resolvedNodeDefs, askingExecutors, store, collapsed, direction, rebuild,
                     orphans, staggerTimers, available, nodes, edges, placed, layoutKey, late>>
  BY DEF RelayoutTimer
<1>2. relayout'.step = "layout" /\ relayout'.key = relayout.key /\ RelayoutTyped'
  BY <1>1 DEF DrawingInv, DrawingTyped, RelayoutTyped
<1>3. DrawingTyped'
  BY <1>1, <1>2 DEF DrawingInv, DrawingTyped, SourceTyped, NodesTyped, RebuildTyped
<1>4. Sourced'
  BY <1>1 DEF DrawingInv, Sourced
<1>5. ~askingExecutors' => store["executorInfo"] \in {None, [of |-> sourceYaml, library |-> library']}
  BY <1>1 DEF DrawingInv, ShowsFollow, ExecutorsNow
<1>6. GraphFits' /\ DefsFollow' /\ ShowsFollow'
  BY <1>1, <1>5, GraphStays, DefsStay, ShowsStay
<1>7. KeysFit'
  BY <1>1, KeysStay
<1>8. LayoutFits'
  BY <1>1, <1>2, <1>7 DEF DrawingInv, LayoutFits, RelayoutFits, PlacedFits
<1> QED BY <1>3, <1>4, <1>6, <1>8 DEF DrawingInv

LEMMA RelayoutLandsDraws ==
    ASSUME DrawingInv, RelayoutLands
    PROVE  DrawingInv'
<1>1. /\ relayout.step = "layout" /\ layoutKey' = relayout.key /\ placed' = relayout.key
      /\ late' = (IF rebuild.step = "layout" THEN late \cup {"layout"} ELSE late \ {"layout"}) /\ Redrawn
      /\ UNCHANGED <<sourceYaml, library, resolving, resolvedNodeDefs, askingExecutors, store, collapsed, direction, rebuild,
                     orphans, staggerTimers, available, nodes, edges>>
  BY DEF RelayoutLands, Bypassed
<1>2. /\ "graph" \in late' <=> "graph" \in late
      /\ "def" \in late' <=> "def" \in late
      /\ \A kind \in Shown : kind \in late' <=> kind \in late
  BY <1>1 DEF Shown
<1>3. rebuild.step # "stagger"
  BY <1>1 DEF DrawingInv, LayoutFits, RelayoutFits
<1>4. KeysFit'
  BY <1>1, <1>3 DEF KeysFit
<1>5. direction \in {"TB", "LR"} /\ nodes \in [DOMAIN nodes -> NodeStates] /\ DOMAIN nodes \subseteq AllIds
  BY DEF DrawingInv, DrawingTyped, SourceTyped, NodesTyped
<1>6. RelayoutTyped' /\ LayoutFits'
  BY <1>1, <1>4, <1>5, RedrawnIs
<1>7. DrawingTyped'
  BY <1>1, <1>6 DEF DrawingInv, DrawingTyped, SourceTyped, NodesTyped, RebuildTyped
<1>8. Sourced'
  BY <1>1, <1>2 DEF DrawingInv, Sourced
<1>9. ~askingExecutors' => store["executorInfo"] \in {None, [of |-> sourceYaml, library |-> library']}
  BY <1>1 DEF DrawingInv, ShowsFollow, ExecutorsNow
<1>10. GraphFits' /\ DefsFollow' /\ ShowsFollow'
  BY <1>1, <1>2, <1>9, GraphStays, DefsStay, ShowsStay
<1> QED BY <1>6, <1>7, <1>8, <1>10 DEF DrawingInv

LEMMA RelayoutFailsDraws ==
    ASSUME DrawingInv, RelayoutFails
    PROVE  DrawingInv'
<1>1. /\ relayout' = NoRelayout /\ late' = late \cup {"layout"}
      /\ UNCHANGED <<sourceYaml, library, resolving, resolvedNodeDefs, askingExecutors, store, collapsed, direction, rebuild,
                     orphans, staggerTimers, available, nodes, edges, placed, layoutKey>>
  BY DEF RelayoutFails
<1>2. /\ "graph" \in late' <=> "graph" \in late
      /\ "def" \in late' <=> "def" \in late
      /\ \A kind \in Shown : kind \in late' <=> kind \in late
  BY <1>1 DEF Shown
<1>3. RelayoutTyped' /\ relayout'.step = "idle"
  BY <1>1 DEF RelayoutTyped, NoRelayout
<1>4. DrawingTyped'
  BY <1>1, <1>3 DEF DrawingInv, DrawingTyped, SourceTyped, NodesTyped, RebuildTyped
<1>5. Sourced'
  BY <1>1, <1>2 DEF DrawingInv, Sourced
<1>6. ~askingExecutors' => store["executorInfo"] \in {None, [of |-> sourceYaml, library |-> library']}
  BY <1>1 DEF DrawingInv, ShowsFollow, ExecutorsNow
<1>7. GraphFits' /\ DefsFollow' /\ ShowsFollow'
  BY <1>1, <1>2, <1>6, GraphStays, DefsStay, ShowsStay
<1>8. LayoutFits'
  BY <1>1, <1>3 DEF LayoutFits, RelayoutFits, KeysFit, PlacedFits
<1> QED BY <1>4, <1>5, <1>7, <1>8 DEF DrawingInv

LEMMA LandWholeDraws ==
    ASSUME DrawingInv, LandWhole
    PROVE  DrawingInv'
<1> DEFINE ids == Ids(sourceYaml)
           raw == [n \in ids |-> RawNode(n)]
<1>1. /\ rebuild.step = "layout" /\ rebuild' = NoRebuild
      /\ nodes' = WithRuntime(raw) /\ edges' = EdgesWithin(sourceYaml, ids)
      /\ placed' = None /\ Redrawn
      /\ UNCHANGED <<sourceYaml, library, resolving, resolvedNodeDefs, askingExecutors, store, collapsed, direction, orphans,
                     staggerTimers, available, layoutKey, late>>
  BY DEF LandWhole
<1>2. sourceYaml \in DOMAIN Drawn /\ sourceYaml # None /\ rebuild.taken \in Values /\ store \in Values
  BY <1>1 DEF DrawingInv, Sourced, DrawingTyped, SourceTyped, RebuildTyped
<1>3. ids \subseteq AllIds /\ IsFiniteSet(ids)
  BY <1>2, GraphIs
<1>4. /\ raw \in [ids -> NodeStates]
      /\ \A n \in ids : raw[n].def = DefOf(n) /\ raw[n].shows = rebuild.taken /\ ~raw[n].leaving
  BY <1>2, RawNodeIs DEF DrawingInv
<1> HIDE DEF raw
<1>5. /\ nodes' \in [ids -> NodeStates]
      /\ \A n \in ids : /\ nodes'[n].def = raw[n].def /\ nodes'[n].leaving = raw[n].leaving
                        /\ nodes'[n].shows["nodeRuntimeData"] = store["nodeRuntimeData"]
                        /\ \A kind \in Shown \ {"nodeRuntimeData"} : nodes'[n].shows[kind] = raw[n].shows[kind]
  BY <1>1, <1>2, <1>4, WithRuntimeIs
<1>6. /\ edges' \subseteq EdgeStates
      /\ \A edge \in edges' : {edge.source, edge.target} \subseteq ids
  BY <1>1, <1>2, EdgesAre
<1> HIDE DEF ids
<1>7. rebuild'.step = "idle" /\ staggerTimers = {} /\ DOMAIN nodes' = ids
  BY <1>1, <1>5 DEF NoRebuild, DrawingInv, GraphFits, TimersFit
<1>8. KeysFit'
  BY <1>1, <1>7 DEF DrawingInv, LayoutFits, KeysFit
<1>9. RelayoutTyped' /\ LayoutFits'
  BY <1>1, <1>3, <1>5, <1>7, <1>8, RedrawnIs DEF DrawingInv, DrawingTyped, SourceTyped
<1>10. SourceTyped' /\ NodesTyped' /\ RebuildTyped'
  <2>1. SourceTyped'
    BY <1>1 DEF DrawingInv, DrawingTyped, SourceTyped
  <2>2. NodesTyped'
    BY <1>3, <1>5, <1>6, <1>7 DEF NodesTyped
  <2>3. RebuildTyped'
    BY <1>1, <1>7 DEF RebuildTyped, NoRebuild, DrawingSteps
  <2> QED BY <2>1, <2>2, <2>3
<1>11. Sourced'
  BY <1>1, <1>2, <1>7 DEF Sourced
<1>12. GraphFits'
  <2>1. Drawn[sourceYaml].parses /\ "graph" \notin late
    BY <1>1 DEF DrawingInv, Sourced
  <2>2. \A n \in ids : ~nodes'[n].leaving
    BY <1>4, <1>5
  <2> QED BY <1>1, <1>6, <1>7, <2>1, <2>2 DEF GraphFits, TimersFit, EdgesFit, IdleShows, ids
<1>13. DefsFollow'
  <2>1. \A n : DefOf(n)' = DefOf(n)
    BY <1>1 DEF DefOf
  <2>2. \A n \in DOMAIN nodes' : nodes'[n].def = DefOf(n)
    BY <1>4, <1>5, <1>7
  <2>3. ~resolving' /\ "def" \notin late' => resolvedNodeDefs' = [n \in Ids(sourceYaml') |-> library']
    BY <1>1, <1>2 DEF DrawingInv, DefsFollow
  <2> QED BY <1>7, <2>1, <2>2, <2>3 DEF DefsFollow
<1>14. ShowsFollow'
  <2>1. ExecutorsNow' = ExecutorsNow
    BY <1>1 DEF ExecutorsNow
  <2>2. ASSUME NEW kind \in Shown \ late', NEW n \in DOMAIN nodes' PROVE nodes'[n].shows[kind] = store'[kind]
    <3>1. rebuild.taken[kind] = store[kind]
      BY <1>1, <2>2 DEF DrawingInv, ShowsFollow
    <3> QED BY <3>1, <1>1, <1>4, <1>5, <1>7
  <2>3. \A n \in DOMAIN nodes' : nodes'[n].shows["nodeRuntimeData"] = store'["nodeRuntimeData"]
    BY <1>1, <1>5, <1>7
  <2>4. ~askingExecutors' => store'["executorInfo"] \in {None, ExecutorsNow'}
    BY <1>1, <2>1 DEF DrawingInv, ShowsFollow
  <2> QED BY <1>7, <2>2, <2>3, <2>4 DEF ShowsFollow
<1> QED BY <1>9, <1>10, <1>11, <1>12, <1>13, <1>14 DEF DrawingInv, DrawingTyped

(* The timers that a layout of another graph sets.                         *)
LEMMA TimersAre ==
    ASSUME NodesTyped, sourceYaml \in DOMAIN Drawn
    PROVE  /\ Timers \subseteq TimerStates
           /\ \A t, o \in Timers : t.does = o.does /\ t.node = o.node => t = o
           /\ \E t \in Timers : t.does = "end" /\ \A o \in Timers \ {t} : o.does # "end" /\ o.at < t.at
           /\ \A t \in Timers : t.does = "leave" => \E o \in Timers : o.does = "remove" /\ o.node = t.node /\ t.at < o.at
           /\ {t.node : t \in {timer \in Timers : timer.does = "leave"}} = Removed
           /\ {t.node : t \in {timer \in Timers : timer.does = "remove"}} = Removed
           /\ {t.node : t \in {timer \in Timers : timer.does = "mount"}} = Ids(sourceYaml) \ DOMAIN nodes
<1> DEFINE ids == Ids(sourceYaml)
           size == Cardinality(Removed)
<1>1. Removed \subseteq AllIds /\ Removed \subseteq Nat /\ IsFiniteSet(Removed) /\ size \in Nat
  <2>1. AllIds \subseteq Nat
    <3>1. ASSUME NEW y \in DOMAIN Drawn PROVE ToSet(Drawn[y].nodes) \subseteq Nat
      BY GraphIs DEF Ids
    <3> QED BY <3>1 DEF AllIds
  <2>2. Removed \subseteq DOMAIN nodes /\ IsFiniteSet(DOMAIN nodes) /\ DOMAIN nodes \subseteq AllIds
    BY DEF Removed, NodesTyped
  <2>3. IsFiniteSet(Removed)
    BY <2>2, FS_Subset
  <2> QED BY <2>1, <2>2, <2>3, FS_CardinalityType
<1>2. ASSUME NEW n \in Removed PROVE LeavesAfter(n) \in Nat /\ LeavesAfter(n) + 1 <= size
  <2> DEFINE after == {other \in Removed : other > n}
  <2>1. n \in Nat /\ after \subseteq Removed \ {n}
    BY <1>1
  <2>2. IsFiniteSet(Removed \ {n}) /\ Cardinality(Removed \ {n}) = size - 1
    BY <1>1, FS_RemoveElement
  <2>3. IsFiniteSet(after) /\ Cardinality(after) <= Cardinality(Removed \ {n})
    BY <2>1, <2>2, FS_Subset
  <2>4. Cardinality(after) \in Nat
    BY <2>3, FS_CardinalityType
  <2> QED BY <2>2, <2>3, <2>4, <1>1 DEF LeavesAfter
<1>3. Added \in Seq(ids) /\ ToSet(Added) = ids \ DOMAIN nodes /\ IsInjective(Added) /\ Len(Added) \in Nat
  <2>1. Drawn[sourceYaml].nodes \in Seq(ids) /\ IsInjective(Drawn[sourceYaml].nodes) /\ ToSet(Drawn[sourceYaml].nodes) = ids
    BY GraphIs DEF Ids
  <2>2. Added \in Seq(ids)
    BY <2>1, FilteredKeeps DEF Added
  <2>3. ToSet(Added) = ids \cap (ids \ DOMAIN nodes) /\ IsInjective(Added)
    BY <2>1, FilteredElements DEF Added
  <2> QED BY <2>2, <2>3
<1>4. /\ DOMAIN Added = 1 .. Len(Added)
      /\ \A i \in 1 .. Len(Added) : Added[i] \in ids \ DOMAIN nodes
      /\ \A n \in ids \ DOMAIN nodes : \E i \in 1 .. Len(Added) : Added[i] = n
  BY <1>3 DEF ToSet
<1>5. ASSUME NEW i \in 1 .. Len(Added) PROVE Mounts(i) \in Nat /\ Mounts(i) <= LastAddDelay
  <2>1. Added # <<>>
    BY <1>3
  <2>2. Mounts(i) \in Nat /\ Mounts(Len(Added)) \in Nat /\ Mounts(i) <= Mounts(Len(Added))
    BY <1>3 DEF Mounts
  <2> QED BY <2>1, <2>2 DEF LastAddDelay
<1>6. LastAddDelay \in Nat
  <2>1. CASE Added = <<>>
    BY <2>1 DEF LastAddDelay
  <2>2. CASE Added # <<>>
    <3>1. Len(Added) \in 1 .. Len(Added)
      BY <2>2, <1>3
    <3>2. LastAddDelay = Mounts(Len(Added))
      BY <2>2 DEF LastAddDelay
    <3> QED BY <3>1, <3>2, <1>5
  <2> QED BY <2>1, <2>2
<1>7. /\ StaggerEnd \in Nat /\ StaggerEnd >= LastAddDelay + 500
      /\ \A n \in Removed : StaggerEnd >= 400 * (size - 1) + 720
  <2>1. CASE Removed = {}
    BY <2>1, <1>6 DEF StaggerEnd
  <2>2. CASE Removed # {}
    <3>1. size - 1 \in Nat
      <4>1. PICK n \in Removed : TRUE
        BY <2>2
      <4>2. LeavesAfter(n) \in Nat /\ LeavesAfter(n) + 1 <= size
        BY <1>2
      <4> QED BY <4>2, <1>1
    <3>2. LastRemoveDone = 400 * (size - 1) + 320
      BY <2>2 DEF LastRemoveDone
    <3>3. StaggerEnd = IF LastAddDelay + 500 > LastRemoveDone + 400 THEN LastAddDelay + 500 ELSE LastRemoveDone + 400
      BY <2>2 DEF StaggerEnd
    <3> HIDE DEF size
    <3> QED BY <3>1, <3>2, <3>3, <1>6
  <2> QED BY <2>1, <2>2
<1> DEFINE leaves(n) == Timer(400 * LeavesAfter(n), "leave", n)
           removes(n) == Timer(400 * LeavesAfter(n) + 320, "remove", n)
           mounts(i) == Timer(Mounts(i), "mount", Added[i])
           ends == Timer(StaggerEnd, "end", None)
<1>8. /\ \A n \in Removed : leaves(n) \in Timers /\ removes(n) \in Timers
      /\ \A i \in 1 .. Len(Added) : mounts(i) \in Timers
      /\ ends \in Timers
  BY <1>4 DEF Timers
<1>9. ASSUME NEW t \in Timers
      PROVE  \/ \E n \in Removed : t = leaves(n)
             \/ \E n \in Removed : t = removes(n)
             \/ \E i \in 1 .. Len(Added) : t = mounts(i)
             \/ t = ends
  BY <1>4 DEF Timers
<1>10. /\ \A n \in Removed : /\ leaves(n) \in TimerStates /\ leaves(n).does = "leave" /\ leaves(n).node = n
                             /\ leaves(n).at = 400 * LeavesAfter(n)
       /\ \A n \in Removed : /\ removes(n) \in TimerStates /\ removes(n).does = "remove" /\ removes(n).node = n
                             /\ removes(n).at = 400 * LeavesAfter(n) + 320
       /\ \A i \in 1 .. Len(Added) : /\ mounts(i) \in TimerStates /\ mounts(i).does = "mount" /\ mounts(i).node = Added[i]
                                     /\ mounts(i).at = Mounts(i)
       /\ ends \in TimerStates /\ ends.does = "end" /\ ends.at = StaggerEnd
  <2>1. ids \subseteq AllIds
    BY GraphIs
  <2>2. ASSUME NEW at \in Nat, NEW does \in {"leave", "remove", "mount", "end"}, NEW node \in AllIds \cup {None}
        PROVE  /\ Timer(at, does, node) \in TimerStates /\ Timer(at, does, node).does = does
               /\ Timer(at, does, node).node = node /\ Timer(at, does, node).at = at
    BY DEF Timer, TimerStates
  <2>3. \A n \in Removed : 400 * LeavesAfter(n) \in Nat /\ 400 * LeavesAfter(n) + 320 \in Nat /\ n \in AllIds
    BY <1>1, <1>2
  <2>4. \A i \in 1 .. Len(Added) : Mounts(i) \in Nat /\ Added[i] \in AllIds
    BY <1>4, <1>5, <2>1
  <2> QED BY <1>7, <2>2, <2>3, <2>4
<1> HIDE DEF leaves, removes, mounts, ends, ids, size
<1>11. Timers \subseteq TimerStates
  BY <1>9, <1>10
<1>12. ASSUME NEW t \in Timers, NEW o \in Timers, t.does = o.does, t.node = o.node PROVE t = o
  <2>1. CASE t.does = "leave"
    BY <2>1, <1>9, <1>10, <1>12
  <2>2. CASE t.does = "remove"
    BY <2>2, <1>9, <1>10, <1>12
  <2>3. CASE t.does = "mount"
    <3>1. PICK i \in 1 .. Len(Added) : t = mounts(i)
      BY <2>3, <1>9, <1>10
    <3>2. PICK j \in 1 .. Len(Added) : o = mounts(j)
      BY <2>3, <1>9, <1>10, <1>12
    <3>3. Added[i] = Added[j]
      BY <3>1, <3>2, <1>10, <1>12
    <3>4. i = j
      BY <3>3, <1>3, <1>4 DEF IsInjective
    <3> QED BY <3>1, <3>2, <3>4
  <2>4. CASE t.does = "end"
    BY <2>4, <1>9, <1>10, <1>12
  <2> QED BY <2>1, <2>2, <2>3, <2>4, <1>9, <1>10
<1>13. ASSUME NEW o \in Timers \ {ends} PROVE o.does # "end" /\ o.at < ends.at
  <2>1. CASE \E n \in Removed : o = leaves(n) \/ o = removes(n)
    <3>1. PICK n \in Removed : o = leaves(n) \/ o = removes(n)
      BY <2>1
    <3>2. o.does # "end" /\ o.at <= 400 * LeavesAfter(n) + 320
      BY <3>1, <1>2, <1>10
    <3>3. LeavesAfter(n) \in Nat /\ LeavesAfter(n) + 1 <= size /\ size \in Nat /\ StaggerEnd >= 400 * (size - 1) + 720
      BY <1>1, <1>2, <1>7
    <3>4. o.at \in Nat /\ ends.at = StaggerEnd /\ StaggerEnd \in Nat
      BY <1>7, <1>10, <1>11 DEF TimerStates
    <3> QED BY <3>2, <3>3, <3>4
  <2>2. CASE \E i \in 1 .. Len(Added) : o = mounts(i)
    BY <2>2, <1>5, <1>6, <1>7, <1>10
  <2> QED BY <2>1, <2>2, <1>9
<1>14. ASSUME NEW t \in Timers, t.does = "leave" PROVE \E o \in Timers : o.does = "remove" /\ o.node = t.node /\ t.at < o.at
  <2>1. PICK n \in Removed : t = leaves(n)
    BY <1>9, <1>10, <1>14
  <2>2. LeavesAfter(n) \in Nat
    BY <1>2
  <2> QED BY <2>1, <2>2, <1>8, <1>10
<1>15. {t.node : t \in {timer \in Timers : timer.does = "leave"}} = Removed
  BY <1>8, <1>9, <1>10
<1>16. {t.node : t \in {timer \in Timers : timer.does = "remove"}} = Removed
  BY <1>8, <1>9, <1>10
<1>17. {t.node : t \in {timer \in Timers : timer.does = "mount"}} = ids \ DOMAIN nodes
  <2>1. ASSUME NEW t \in Timers, t.does = "mount" PROVE t.node \in ids \ DOMAIN nodes
    BY <2>1, <1>4, <1>9, <1>10
  <2>2. ASSUME NEW n \in ids \ DOMAIN nodes PROVE \E t \in Timers : t.does = "mount" /\ t.node = n
    BY <1>4, <1>8, <1>10
  <2> QED BY <2>1, <2>2
<1>18. \E t \in Timers : t.does = "end" /\ \A o \in Timers \ {t} : o.does # "end" /\ o.at < t.at
  BY <1>8, <1>10, <1>13
<1> QED BY <1>11, <1>12, <1>14, <1>15, <1>16, <1>17, <1>18 DEF ids

(* Nodes that are there follow, while others come and go.                  *)
LEMMA NodesFollow ==
    ASSUME DrawingInv, rebuild.step \in {"layout", "stagger"}, rebuild'.step = "stagger", rebuild'.taken = rebuild.taken,
           UNCHANGED <<sourceYaml, library, resolving, resolvedNodeDefs, store, askingExecutors, late>>,
           \A n \in There' : nodes'[n].def = DefOf(n) /\ \A kind \in Shown \ late : nodes'[n].shows[kind] = store[kind],
           \A n \in DOMAIN nodes' : nodes'[n].shows["nodeRuntimeData"] = store["nodeRuntimeData"]
    PROVE  DefsFollow' /\ ShowsFollow'
<1>1. \A n : DefOf(n)' = DefOf(n)
  BY DEF DefOf
<1>2. ExecutorsNow' = ExecutorsNow
  BY DEF ExecutorsNow
<1>3. DefsFollow'
  BY <1>1 DEF DrawingInv, DefsFollow
<1>4. ShowsFollow'
  <2>1. \A kind \in Shown \ late : rebuild'.taken[kind] = store[kind]
    BY DEF DrawingInv, ShowsFollow
  <2>2. ~askingExecutors' => store'["executorInfo"] \in {None, ExecutorsNow'}
    BY <1>2 DEF DrawingInv, ShowsFollow
  <2> QED BY <2>1, <2>2 DEF ShowsFollow
<1> QED BY <1>3, <1>4

LEMMA LandStepwiseDraws ==
    ASSUME DrawingInv, LandStepwise
    PROVE  DrawingInv'
<1> DEFINE ids == Ids(sourceYaml)
           D == DOMAIN nodes
           raw == [n \in Kept \cup Removed |-> IF n \in Kept THEN RawNode(n) ELSE nodes[n]]
           going == {[edge EXCEPT !.leaving = TRUE] : edge \in {e \in edges : Touches(e, Removed)}}
<1>1. /\ rebuild.step = "layout" /\ rebuild' = [rebuild EXCEPT !.step = "stagger"]
      /\ staggerTimers' = Timers /\ available' = D
      /\ nodes' = WithRuntime(raw) /\ edges' = EdgesWithin(sourceYaml, Kept) \cup going
      /\ placed' = None /\ Redrawn
      /\ UNCHANGED <<sourceYaml, library, resolving, resolvedNodeDefs, askingExecutors, store, collapsed, direction, orphans,
                     layoutKey, late>>
  BY DEF LandStepwise
<1>2. sourceYaml \in DOMAIN Drawn /\ sourceYaml # None /\ rebuild.taken \in Values /\ store \in Values
  BY <1>1 DEF DrawingInv, Sourced, DrawingTyped, SourceTyped, RebuildTyped
<1>3. Kept = ids \cap D /\ Removed = D \ ids
  BY DEF Kept, Removed
<1>4. D \subseteq AllIds /\ IsFiniteSet(D) /\ nodes \in [D -> NodeStates] /\ edges \subseteq EdgeStates
  BY DEF DrawingInv, DrawingTyped, NodesTyped
<1>5. /\ raw \in [D -> NodeStates]
      /\ \A n \in Kept : raw[n].def = DefOf(n) /\ raw[n].shows = rebuild.taken /\ ~raw[n].leaving
  <2>1. \A n : RawNode(n) \in NodeStates /\ RawNode(n).def = DefOf(n) /\ RawNode(n).shows = rebuild.taken /\ ~RawNode(n).leaving
    BY <1>2, RawNodeIs DEF DrawingInv
  <2>2. Kept \cup Removed = D
    BY <1>3
  <2> QED BY <2>1, <2>2, <1>4
<1> HIDE DEF raw
<1>6. /\ nodes' \in [D -> NodeStates] /\ DOMAIN nodes' = D
      /\ \A n \in D : /\ nodes'[n].def = raw[n].def /\ nodes'[n].leaving = raw[n].leaving
                      /\ nodes'[n].shows["nodeRuntimeData"] = store["nodeRuntimeData"]
                      /\ \A kind \in Shown \ {"nodeRuntimeData"} : nodes'[n].shows[kind] = raw[n].shows[kind]
  BY <1>1, <1>2, <1>5, WithRuntimeIs
<1>7. rebuild'.step = "stagger" /\ rebuild'.taken = rebuild.taken /\ rebuild' \in [step : DrawingSteps, taken : {None} \cup Values]
  BY <1>1 DEF DrawingInv, DrawingTyped, RebuildTyped, DrawingSteps
<1>8. /\ Timers \subseteq TimerStates
      /\ \A t, o \in Timers : t.does = o.does /\ t.node = o.node => t = o
      /\ \E t \in Timers : t.does = "end" /\ \A o \in Timers \ {t} : o.does # "end" /\ o.at < t.at
      /\ \A t \in Timers : t.does = "leave" => \E o \in Timers : o.does = "remove" /\ o.node = t.node /\ t.at < o.at
  BY <1>2, TimersAre DEF DrawingInv, DrawingTyped
<1>9. Waiting("leave")' = Removed /\ Waiting("remove")' = Removed /\ Waiting("mount")' = ids \ D
  <2>1. \A kind : Waiting(kind)' = {t.node : t \in {timer \in Timers : timer.does = kind}}
    BY <1>1 DEF Waiting
  <2> QED BY <1>2, <2>1, TimersAre DEF DrawingInv, DrawingTyped
<1>10. There' = Kept
  BY <1>1, <1>3, <1>9 DEF There
<1>11. /\ EdgesWithin(sourceYaml, Kept) \subseteq EdgeStates
       /\ \A edge \in EdgesWithin(sourceYaml, Kept) : ~edge.leaving /\ {edge.source, edge.target} \subseteq Kept
  BY <1>2, EdgesAre
<1>12. ASSUME NEW edge \in going
       PROVE  /\ edge \in EdgeStates /\ edge.leaving /\ Touches(edge, Removed) /\ {edge.source, edge.target} \subseteq D
  <2>1. PICK e \in edges : Touches(e, Removed) /\ edge = [e EXCEPT !.leaving = TRUE]
    OBVIOUS
  <2>2. edge \in EdgeStates /\ edge.leaving = TRUE /\ edge.source = e.source /\ edge.target = e.target
    BY <2>1, <1>4 DEF EdgeStates
  <2>3. {e.source, e.target} \subseteq D
    BY DEF DrawingInv, GraphFits, EdgesFit
  <2> QED BY <2>1, <2>2, <2>3 DEF Touches
<1> HIDE DEF going
<1>13. KeysFit'
  BY <1>1, <1>7 DEF DrawingInv, LayoutFits, KeysFit
<1>14. RelayoutTyped' /\ LayoutFits'
  BY <1>1, <1>4, <1>6, <1>13, RedrawnIs DEF DrawingInv, DrawingTyped, SourceTyped
<1>15. SourceTyped' /\ NodesTyped' /\ RebuildTyped'
  <2>1. SourceTyped'
    BY <1>1 DEF DrawingInv, DrawingTyped, SourceTyped
  <2>2. NodesTyped'
    BY <1>1, <1>4, <1>6, <1>11, <1>12 DEF NodesTyped
  <2>3. RebuildTyped'
    BY <1>1, <1>2, <1>7, <1>8 DEF RebuildTyped
  <2> QED BY <2>1, <2>2, <2>3
<1>16. Sourced'
  BY <1>1, <1>2, <1>7 DEF DrawingInv, Sourced
<1>17. TimersFit'
  <2>1. /\ Waiting("mount")' \subseteq Ids(sourceYaml') /\ Waiting("remove")' \cap Ids(sourceYaml') = {}
        /\ DOMAIN nodes' = There' \cup Waiting("remove")' /\ available' = There' \cup Waiting("leave")'
    BY <1>1, <1>3, <1>6, <1>9, <1>10
  <2> QED BY <1>1, <1>7, <1>8, <2>1 DEF TimersFit
<1>18. EdgesFit'
  <2>1. ASSUME NEW edge \in edges' PROVE {edge.source, edge.target} \subseteq D
    <3>1. Kept \subseteq D
      BY <1>3
    <3>2. edge \in EdgesWithin(sourceYaml, Kept) \/ edge \in going
      BY <1>1
    <3> HIDE DEF D
    <3> QED BY <3>1, <3>2, <1>11, <1>12
  <2>2. {edge \in edges' : ~edge.leaving} = EdgesWithin(sourceYaml', There')
    BY <1>1, <1>10, <1>11, <1>12
  <2>3. \A edge \in edges' : edge.leaving =>
           Touches(edge, Waiting("leave")') /\ {edge.source, edge.target} \subseteq There' \cup Waiting("leave")'
    BY <1>1, <1>3, <1>9, <1>10, <1>11, <1>12
  <2>4. \A n \in There' : ~nodes'[n].leaving
    BY <1>3, <1>5, <1>6, <1>10
  <2> QED BY <2>1, <2>2, <2>3, <2>4, <1>6 DEF EdgesFit
<1>19. IdleShows'
  BY <1>7 DEF IdleShows
<1>20. DefsFollow' /\ ShowsFollow'
  <2>1. ASSUME NEW n \in There'
        PROVE  nodes'[n].def = DefOf(n) /\ \A kind \in Shown \ late : nodes'[n].shows[kind] = store[kind]
    <3>1. n \in Kept /\ n \in D
      BY <1>3, <1>10
    <3>2. \A kind \in Shown \ late : rebuild.taken[kind] = store[kind]
      BY <1>1 DEF DrawingInv, ShowsFollow
    <3> QED BY <3>1, <3>2, <1>5, <1>6
  <2>2. \A n \in DOMAIN nodes' : nodes'[n].shows["nodeRuntimeData"] = store["nodeRuntimeData"]
    BY <1>6
  <2> QED BY <2>1, <2>2, <1>1, <1>7, NodesFollow
<1> QED BY <1>14, <1>15, <1>16, <1>17, <1>18, <1>19, <1>20 DEF DrawingInv, DrawingTyped, GraphFits

(* A timer has expired.                                                    *)
LEMMA TimerGoes ==
    ASSUME DrawingInv, NEW t, Expires(t), t.does # "end", UNCHANGED sourceYaml
    PROVE  /\ rebuild.step = "stagger" /\ t.node \in Waiting(t.does) /\ t.does \in {"leave", "remove", "mount"}
           /\ \A kind : Waiting(kind)' = IF kind = t.does THEN Waiting(kind) \ {t.node} ELSE Waiting(kind)
           /\ There' = IF t.does = "mount" THEN There \cup {t.node} ELSE There
           /\ Waiting("leave") \subseteq Waiting("remove")
           /\ t.does = "remove" => t.node \notin Waiting("leave")
           /\ \A u, o \in staggerTimers' : u.does = o.does /\ u.node = o.node => u = o
           /\ \E u \in staggerTimers' : u.does = "end" /\ \A o \in staggerTimers' \ {u} : o.does # "end" /\ o.at < u.at
           /\ \A u \in staggerTimers' : u.does = "leave" =>
                 \E o \in staggerTimers' : o.does = "remove" /\ o.node = u.node /\ u.at < o.at
<1>1. t \in staggerTimers /\ staggerTimers' = staggerTimers \ {t} /\ \A o \in staggerTimers : t.at <= o.at
  BY DEF Expires, Due
<1>2. rebuild.step = "stagger" /\ staggerTimers \subseteq TimerStates
  BY <1>1 DEF DrawingInv, DrawingTyped, RebuildTyped, GraphFits, TimersFit
<1>3. /\ \A u, o \in staggerTimers : u.does = o.does /\ u.node = o.node => u = o
      /\ \E u \in staggerTimers : u.does = "end" /\ \A o \in staggerTimers \ {u} : o.does # "end" /\ o.at < u.at
      /\ \A u \in staggerTimers : u.does = "leave" =>
            \E o \in staggerTimers : o.does = "remove" /\ o.node = u.node /\ u.at < o.at
      /\ Waiting("mount") \subseteq Ids(sourceYaml)
  BY <1>2 DEF DrawingInv, GraphFits, TimersFit
<1>4. \A o \in staggerTimers : o.at \in Nat
  BY <1>2 DEF TimerStates
<1>5. t.node \in Waiting(t.does) /\ t.does \in {"leave", "remove", "mount"}
  BY <1>1, <1>2 DEF Waiting, TimerStates
<1>6. ASSUME NEW kind
      PROVE  Waiting(kind)' = IF kind = t.does THEN Waiting(kind) \ {t.node} ELSE Waiting(kind)
  <2>1. Waiting(kind)' = {u.node : u \in {timer \in staggerTimers \ {t} : timer.does = kind}}
    BY <1>1 DEF Waiting
  <2>2. CASE kind = t.does
    <3>1. \A u \in staggerTimers \ {t} : u.does = kind => u.node # t.node
      BY <1>1, <1>3, <2>2
    <3> QED BY <2>1, <2>2, <3>1 DEF Waiting
  <2>3. CASE kind # t.does
    BY <2>1, <2>3 DEF Waiting
  <2> QED BY <2>2, <2>3
<1>7. There' = IF t.does = "mount" THEN There \cup {t.node} ELSE There
  BY <1>3, <1>5, <1>6 DEF There
<1>8. ASSUME NEW u \in staggerTimers, u.does = "leave"
      PROVE  \E o \in staggerTimers \ {t} : o.does = "remove" /\ o.node = u.node /\ u.at < o.at
  <2>1. PICK o \in staggerTimers : o.does = "remove" /\ o.node = u.node /\ u.at < o.at
    BY <1>3, <1>8
  <2>2. o # t
    BY <1>1, <1>4, <2>1
  <2> QED BY <2>1, <2>2
<1>9. Waiting("leave") \subseteq Waiting("remove")
  BY <1>8 DEF Waiting
<1>10. t.does = "remove" => t.node \notin Waiting("leave")
  <2> SUFFICES ASSUME t.does = "remove", t.node \in Waiting("leave") PROVE FALSE
    OBVIOUS
  <2>1. PICK u \in staggerTimers : u.does = "leave" /\ u.node = t.node
    BY DEF Waiting
  <2>2. PICK o \in staggerTimers \ {t} : o.does = "remove" /\ o.node = u.node
    BY <1>8, <2>1
  <2> QED BY <1>1, <1>3, <2>1, <2>2
<1>11. \E u \in staggerTimers' : u.does = "end" /\ \A o \in staggerTimers' \ {u} : o.does # "end" /\ o.at < u.at
  <2>1. PICK u \in staggerTimers : u.does = "end" /\ \A o \in staggerTimers \ {u} : o.does # "end" /\ o.at < u.at
    BY <1>3
  <2> QED BY <2>1, <1>1
<1> QED BY <1>1, <1>2, <1>3, <1>5, <1>6, <1>7, <1>8, <1>9, <1>10, <1>11

LEMMA TimerDraws ==
    ASSUME DrawingInv, NEW t, Expires(t), t.does # "end",
           UNCHANGED <<sourceYaml, library, resolving, resolvedNodeDefs, askingExecutors, store, collapsed, direction, rebuild,
                       orphans, placed, layoutKey, late>>,
           Redrawn, nodes' \in [DOMAIN nodes' -> NodeStates], edges' \subseteq EdgeStates, EdgesFit',
           DOMAIN nodes' = There' \cup Waiting("remove")', available' = There' \cup Waiting("leave")',
           \A n \in There' : nodes'[n].def = DefOf(n) /\ \A kind \in Shown \ late : nodes'[n].shows[kind] = store[kind],
           \A n \in DOMAIN nodes' : nodes'[n].shows["nodeRuntimeData"] = store["nodeRuntimeData"]
    PROVE  DrawingInv'
<1>1. /\ rebuild.step = "stagger" /\ staggerTimers' \subseteq staggerTimers
      /\ Waiting("mount")' \subseteq Waiting("mount") /\ Waiting("remove")' \subseteq Waiting("remove")
  BY TimerGoes DEF Expires
<1>2. rebuild'.step = "stagger" /\ sourceYaml \in DOMAIN Drawn
  BY <1>1 DEF DrawingInv, DrawingTyped, SourceTyped, Sourced
<1>3. /\ Waiting("mount") \subseteq Ids(sourceYaml) /\ Waiting("remove") \cap Ids(sourceYaml) = {}
      /\ DOMAIN nodes = There \cup Waiting("remove")
  BY <1>1 DEF DrawingInv, GraphFits, TimersFit
<1>4. DOMAIN nodes' \subseteq AllIds /\ IsFiniteSet(DOMAIN nodes')
  <2>1. IsFiniteSet(Ids(sourceYaml)) /\ Ids(sourceYaml) \subseteq AllIds
    BY <1>2, GraphIs
  <2>2. IsFiniteSet(DOMAIN nodes) /\ DOMAIN nodes \subseteq AllIds
    BY DEF DrawingInv, DrawingTyped, NodesTyped
  <2>3. There' \subseteq Ids(sourceYaml)
    BY DEF There
  <2>4. DOMAIN nodes' \subseteq DOMAIN nodes \cup Ids(sourceYaml)
    BY <1>1, <1>3, <2>3
  <2>5. IsFiniteSet(DOMAIN nodes \cup Ids(sourceYaml))
    BY <2>1, <2>2, FS_Union
  <2>6. IsFiniteSet(DOMAIN nodes')
    BY <2>4, <2>5, FS_Subset
  <2> QED BY <2>1, <2>2, <2>4, <2>6
<1>5. SourceTyped' /\ NodesTyped' /\ RebuildTyped'
  <2>1. SourceTyped'
    BY DEF DrawingInv, DrawingTyped, SourceTyped
  <2>2. RebuildTyped'
    BY <1>1 DEF DrawingInv, DrawingTyped, RebuildTyped
  <2> QED BY <2>1, <2>2, <1>4 DEF NodesTyped
<1>6. RelayoutTyped' /\ LayoutFits'
  <2>1. KeysFit'
    BY KeysStay
  <2>2. direction' \in {"TB", "LR"}
    BY <1>5 DEF SourceTyped
  <2> QED BY <1>4, <2>1, <2>2, RedrawnIs
<1>7. Sourced'
  BY <1>2, DrawnAssumption DEF DrawingInv, Sourced
<1>8. TimersFit'
  <2>1. /\ \A u, o \in staggerTimers' : u.does = o.does /\ u.node = o.node => u = o
        /\ \E u \in staggerTimers' : u.does = "end" /\ \A o \in staggerTimers' \ {u} : o.does # "end" /\ o.at < u.at
        /\ \A u \in staggerTimers' : u.does = "leave" =>
              \E o \in staggerTimers' : o.does = "remove" /\ o.node = u.node /\ u.at < o.at
    BY TimerGoes
  <2>2. Waiting("mount")' \subseteq Ids(sourceYaml') /\ Waiting("remove")' \cap Ids(sourceYaml') = {}
    BY <1>1, <1>3
  <2> QED BY <1>2, <2>1, <2>2 DEF TimersFit
<1>9. IdleShows'
  BY <1>2 DEF IdleShows
<1>10. DefsFollow' /\ ShowsFollow'
  BY <1>1, <1>2, NodesFollow
<1> QED BY <1>5, <1>6, <1>7, <1>8, <1>9, <1>10 DEF DrawingInv, DrawingTyped, GraphFits

(* What is known while the timers run.                                     *)
LEMMA WhileStaggering ==
    ASSUME DrawingInv, rebuild.step = "stagger"
    PROVE  /\ sourceYaml \in DOMAIN Drawn /\ rebuild.taken \in Values /\ store \in Values
           /\ nodes \in [DOMAIN nodes -> NodeStates] /\ edges \subseteq EdgeStates
           /\ Waiting("remove") \cap Ids(sourceYaml) = {} /\ Waiting("mount") \cap There = {} /\ There \subseteq Ids(sourceYaml)
           /\ Waiting("mount") \subseteq Ids(sourceYaml)
           /\ DOMAIN nodes = There \cup Waiting("remove") /\ available = There \cup Waiting("leave")
           /\ {edge \in edges : ~edge.leaving} = EdgesWithin(sourceYaml, There)
           /\ \A edge \in edges : edge.leaving =>
                 Touches(edge, Waiting("leave")) /\ {edge.source, edge.target} \subseteq There \cup Waiting("leave")
           /\ \A n \in There : /\ ~nodes[n].leaving /\ nodes[n].def = DefOf(n)
                               /\ \A kind \in Shown \ late : nodes[n].shows[kind] = store[kind]
           /\ \A n \in DOMAIN nodes : nodes[n].shows["nodeRuntimeData"] = store["nodeRuntimeData"]
           /\ \A kind \in Shown \ late : rebuild.taken[kind] = store[kind]
<1>1. sourceYaml \in DOMAIN Drawn /\ sourceYaml # None /\ rebuild.taken \in Values /\ store \in Values
  BY DEF DrawingInv, Sourced, DrawingTyped, SourceTyped, RebuildTyped
<1>2. nodes \in [DOMAIN nodes -> NodeStates] /\ edges \subseteq EdgeStates
  BY DEF DrawingInv, DrawingTyped, NodesTyped
<1>3. There \subseteq Ids(sourceYaml) /\ Waiting("mount") \cap There = {}
  BY DEF There
<1>4. /\ Waiting("remove") \cap Ids(sourceYaml) = {} /\ Waiting("mount") \subseteq Ids(sourceYaml)
      /\ DOMAIN nodes = There \cup Waiting("remove") /\ available = There \cup Waiting("leave")
  BY DEF DrawingInv, GraphFits, TimersFit
<1>5. /\ {edge \in edges : ~edge.leaving} = EdgesWithin(sourceYaml, There)
      /\ \A edge \in edges : edge.leaving =>
            Touches(edge, Waiting("leave")) /\ {edge.source, edge.target} \subseteq There \cup Waiting("leave")
      /\ \A n \in There : ~nodes[n].leaving
  BY DEF DrawingInv, GraphFits, EdgesFit
<1>6. \A n \in There : nodes[n].def = DefOf(n)
  BY <1>1 DEF DrawingInv, DefsFollow
<1>7. /\ \A kind \in Shown \ late : /\ rebuild.taken[kind] = store[kind]
                                    /\ \A n \in There : nodes[n].shows[kind] = store[kind]
      /\ \A n \in DOMAIN nodes : nodes[n].shows["nodeRuntimeData"] = store["nodeRuntimeData"]
  BY DEF DrawingInv, ShowsFollow
<1> QED BY <1>1, <1>2, <1>3, <1>4, <1>5, <1>6, <1>7

LEMMA LeaveTimerDraws ==
    ASSUME DrawingInv, NEW t, LeaveTimer(t)
    PROVE  DrawingInv'
<1> DEFINE gone == [nodes[t.node] EXCEPT !.leaving = TRUE]
<1>1. /\ Expires(t) /\ t.does = "leave" /\ available' = available \ {t.node}
      /\ edges' = {edge \in edges : ~edge.leaving \/ ~Touches(edge, {t.node})}
      /\ UNCHANGED <<sourceYaml, library, resolving, resolvedNodeDefs, askingExecutors, store, collapsed, direction, rebuild,
                     orphans, placed, layoutKey, late>>
      /\ Redrawn
  BY DEF LeaveTimer
<1>2. nodes' = [nodes EXCEPT ![t.node] = gone]
  BY Zenon DEF LeaveTimer
<1>3. /\ rebuild.step = "stagger" /\ t.node \in Waiting("leave") /\ There' = There
      /\ Waiting("leave")' = Waiting("leave") \ {t.node} /\ Waiting("remove")' = Waiting("remove")
      /\ Waiting("leave") \subseteq Waiting("remove")
  BY <1>1, TimerGoes
<1>4. /\ nodes \in [DOMAIN nodes -> NodeStates] /\ edges \subseteq EdgeStates /\ t.node \in DOMAIN nodes /\ t.node \notin There
      /\ DOMAIN nodes = There \cup Waiting("remove") /\ available = There \cup Waiting("leave")
  BY <1>3, WhileStaggering
<1>5. gone \in NodeStates /\ gone.shows = nodes[t.node].shows
  <2>1. nodes[t.node] \in NodeStates
    BY <1>4
  <2> QED BY <2>1 DEF NodeStates
<1> HIDE DEF gone
<1>6. /\ nodes' \in [DOMAIN nodes -> NodeStates] /\ DOMAIN nodes' = DOMAIN nodes
      /\ \A n \in There : nodes'[n] = nodes[n]
      /\ \A n \in DOMAIN nodes : nodes'[n].shows = nodes[n].shows
  BY <1>2, <1>4, <1>5
<1>7. EdgesFit'
  <2>1. {edge \in edges' : ~edge.leaving} = EdgesWithin(sourceYaml', There')
    <3>1. {edge \in edges : ~edge.leaving} = EdgesWithin(sourceYaml, There)
      BY <1>3, WhileStaggering
    <3> QED BY <3>1, <1>1, <1>3
  <2>2. ASSUME NEW edge \in edges', edge.leaving
        PROVE  Touches(edge, Waiting("leave")') /\ {edge.source, edge.target} \subseteq There' \cup Waiting("leave")'
    <3>1. edge \in edges /\ ~Touches(edge, {t.node})
      BY <1>1, <2>2
    <3>2. Touches(edge, Waiting("leave")) /\ {edge.source, edge.target} \subseteq There \cup Waiting("leave")
      BY <2>2, <3>1, <1>3, WhileStaggering
    <3> QED BY <3>1, <3>2, <1>3 DEF Touches
  <2>3. \A n \in There' : ~nodes'[n].leaving
    BY <1>3, <1>6, WhileStaggering
  <2>4. \A edge \in edges' : {edge.source, edge.target} \subseteq DOMAIN nodes'
    BY <1>1, <1>6 DEF DrawingInv, GraphFits, EdgesFit
  <2> QED BY <2>1, <2>2, <2>3, <2>4 DEF EdgesFit
<1>8. DOMAIN nodes' = There' \cup Waiting("remove")' /\ available' = There' \cup Waiting("leave")'
  BY <1>1, <1>3, <1>4, <1>6
<1>9. \A n \in There' : nodes'[n].def = DefOf(n) /\ \A kind \in Shown \ late : nodes'[n].shows[kind] = store[kind]
  BY <1>3, <1>6, WhileStaggering
<1>10. \A n \in DOMAIN nodes' : nodes'[n].shows["nodeRuntimeData"] = store["nodeRuntimeData"]
  BY <1>3, <1>6, WhileStaggering
<1>11. edges' \subseteq EdgeStates /\ nodes' \in [DOMAIN nodes' -> NodeStates] /\ t.does # "end"
  BY <1>1, <1>4, <1>6
<1> QED BY <1>1, <1>7, <1>8, <1>9, <1>10, <1>11, TimerDraws

LEMMA RemoveTimerDraws ==
    ASSUME DrawingInv, NEW t, RemoveTimer(t)
    PROVE  DrawingInv'
<1>1. /\ Expires(t) /\ t.does = "remove" /\ nodes' = [n \in DOMAIN nodes \ {t.node} |-> nodes[n]]
      /\ UNCHANGED <<sourceYaml, library, resolving, resolvedNodeDefs, askingExecutors, store, collapsed, direction, rebuild,
                     orphans, available, edges, placed, layoutKey, late>>
      /\ Redrawn
  BY DEF RemoveTimer
<1>2. /\ rebuild.step = "stagger" /\ t.node \in Waiting("remove") /\ There' = There /\ t.node \notin Waiting("leave")
      /\ Waiting("leave")' = Waiting("leave") /\ Waiting("remove")' = Waiting("remove") \ {t.node}
      /\ Waiting("leave") \subseteq Waiting("remove")
  BY <1>1, TimerGoes
<1>3. /\ nodes \in [DOMAIN nodes -> NodeStates] /\ edges \subseteq EdgeStates /\ t.node \notin There
      /\ sourceYaml \in DOMAIN Drawn
      /\ DOMAIN nodes = There \cup Waiting("remove") /\ available = There \cup Waiting("leave")
      /\ {edge \in edges : ~edge.leaving} = EdgesWithin(sourceYaml, There)
      /\ \A edge \in edges : edge.leaving =>
            Touches(edge, Waiting("leave")) /\ {edge.source, edge.target} \subseteq There \cup Waiting("leave")
  BY <1>2, WhileStaggering
<1>4. /\ nodes' \in [DOMAIN nodes' -> NodeStates] /\ DOMAIN nodes' = DOMAIN nodes \ {t.node}
      /\ \A n \in DOMAIN nodes' : nodes'[n] = nodes[n]
  BY <1>1, <1>3
<1>5. DOMAIN nodes' = There' \cup Waiting("remove")' /\ available' = There' \cup Waiting("leave")'
  BY <1>1, <1>2, <1>3, <1>4
<1>6. EdgesFit'
  <2>1. There \cup Waiting("leave") \subseteq DOMAIN nodes'
    BY <1>2, <1>3, <1>4
  <2>2. ASSUME NEW edge \in edges' PROVE {edge.source, edge.target} \subseteq There \cup Waiting("leave")
    <3>1. CASE edge.leaving
      BY <3>1, <1>1, <1>3
    <3>2. CASE ~edge.leaving
      <4>1. edge \in EdgesWithin(sourceYaml, There)
        BY <3>2, <1>1, <1>3
      <4> QED BY <4>1, <1>3, EdgesAre
    <3> QED BY <3>1, <3>2
  <2>3. \A n \in There' : ~nodes'[n].leaving
    BY <1>2, <1>4, <2>1, WhileStaggering
  <2> QED BY <1>1, <1>2, <1>3, <2>1, <2>2, <2>3 DEF EdgesFit
<1>7. \A n \in There' : nodes'[n].def = DefOf(n) /\ \A kind \in Shown \ late : nodes'[n].shows[kind] = store[kind]
  BY <1>2, <1>4, <1>5, WhileStaggering
<1>8. \A n \in DOMAIN nodes' : nodes'[n].shows["nodeRuntimeData"] = store["nodeRuntimeData"]
  BY <1>2, <1>4, WhileStaggering
<1>9. edges' \subseteq EdgeStates /\ t.does # "end"
  BY <1>1, <1>3
<1> QED BY <1>1, <1>4, <1>5, <1>6, <1>7, <1>8, <1>9, TimerDraws

LEMMA MountTimerDraws ==
    ASSUME DrawingInv, NEW t, MountTimer(t)
    PROVE  DrawingInv'
<1> DEFINE D == DOMAIN nodes \cup {t.node}
           raw == [n \in D |-> IF n \in DOMAIN nodes THEN nodes[n] ELSE RawNode(n)]
<1>1. /\ Expires(t) /\ t.does = "mount" /\ available' = available \cup {t.node}
      /\ nodes' = WithRuntime(raw) /\ edges' = edges \cup EdgesWithin(sourceYaml, available')
      /\ UNCHANGED <<sourceYaml, library, resolving, resolvedNodeDefs, askingExecutors, store, collapsed, direction, rebuild,
                     orphans, placed, layoutKey, late>>
      /\ Redrawn
  BY DEF MountTimer
<1>2. /\ rebuild.step = "stagger" /\ t.node \in Waiting("mount") /\ There' = There \cup {t.node}
      /\ Waiting("leave")' = Waiting("leave") /\ Waiting("remove")' = Waiting("remove")
      /\ Waiting("leave") \subseteq Waiting("remove")
  BY <1>1, TimerGoes
<1>3. /\ sourceYaml \in DOMAIN Drawn /\ rebuild.taken \in Values /\ store \in Values
      /\ nodes \in [DOMAIN nodes -> NodeStates] /\ edges \subseteq EdgeStates /\ t.node \in Ids(sourceYaml)
      /\ t.node \notin There /\ Waiting("remove") \cap Ids(sourceYaml) = {} /\ There \subseteq Ids(sourceYaml)
      /\ DOMAIN nodes = There \cup Waiting("remove") /\ available = There \cup Waiting("leave")
      /\ {edge \in edges : ~edge.leaving} = EdgesWithin(sourceYaml, There)
      /\ \A edge \in edges : edge.leaving =>
            Touches(edge, Waiting("leave")) /\ {edge.source, edge.target} \subseteq There \cup Waiting("leave")
  BY <1>2, WhileStaggering
<1>4. /\ raw \in [D -> NodeStates]
      /\ \A n \in DOMAIN nodes : raw[n] = nodes[n]
      /\ raw[t.node].def = DefOf(t.node) /\ raw[t.node].shows = rebuild.taken /\ ~raw[t.node].leaving
  <2>1. \A n : RawNode(n) \in NodeStates /\ RawNode(n).def = DefOf(n) /\ RawNode(n).shows = rebuild.taken /\ ~RawNode(n).leaving
    BY <1>3, RawNodeIs DEF DrawingInv
  <2>2. t.node \notin DOMAIN nodes
    BY <1>3
  <2> QED BY <2>1, <2>2, <1>3
<1> HIDE DEF raw
<1>5. /\ nodes' \in [D -> NodeStates] /\ DOMAIN nodes' = D
      /\ \A n \in D : /\ nodes'[n].def = raw[n].def /\ nodes'[n].leaving = raw[n].leaving
                      /\ nodes'[n].shows["nodeRuntimeData"] = store["nodeRuntimeData"]
                      /\ \A kind \in Shown \ {"nodeRuntimeData"} : nodes'[n].shows[kind] = raw[n].shows[kind]
  BY <1>1, <1>3, <1>4, WithRuntimeIs
<1>6. DOMAIN nodes' = There' \cup Waiting("remove")' /\ available' = There' \cup Waiting("leave")'
  BY <1>1, <1>2, <1>3, <1>5
<1>7. /\ EdgesWithin(sourceYaml, available') = EdgesWithin(sourceYaml, There')
      /\ EdgesWithin(sourceYaml, There) \subseteq EdgesWithin(sourceYaml, There')
      /\ EdgesWithin(sourceYaml, There') \subseteq EdgeStates
      /\ \A edge \in EdgesWithin(sourceYaml, There') : ~edge.leaving /\ {edge.source, edge.target} \subseteq There'
  <2>1. available' \cap Ids(sourceYaml) = There' \cap Ids(sourceYaml) /\ There \subseteq There'
    BY <1>2, <1>3, <1>6
  <2> QED BY <2>1, <1>3, EdgesAre
<1>8. EdgesFit'
  <2>1. {edge \in edges' : ~edge.leaving} = EdgesWithin(sourceYaml', There')
    BY <1>1, <1>3, <1>7
  <2>2. ASSUME NEW edge \in edges', edge.leaving
        PROVE  Touches(edge, Waiting("leave")') /\ {edge.source, edge.target} \subseteq There' \cup Waiting("leave")'
    <3>1. edge \in edges
      BY <1>1, <1>7, <2>2
    <3> QED BY <3>1, <2>2, <1>2, <1>3
  <2>3. ASSUME NEW n \in There' PROVE ~nodes'[n].leaving
    <3>1. CASE n \in There
      <4>1. ~nodes[n].leaving /\ n \in DOMAIN nodes
        BY <3>1, <1>2, <1>3, WhileStaggering
      <4> QED BY <4>1, <1>4, <1>5
    <3>2. CASE n = t.node
      BY <3>2, <1>4, <1>5
    <3> QED BY <3>1, <3>2, <1>2
  <2>4. ASSUME NEW edge \in edges' PROVE {edge.source, edge.target} \subseteq DOMAIN nodes'
    <3>1. DOMAIN nodes \subseteq DOMAIN nodes' /\ There' \subseteq DOMAIN nodes'
      BY <1>5, <1>6
    <3>2. CASE edge \in edges
      <4>1. {edge.source, edge.target} \subseteq DOMAIN nodes
        BY <3>2 DEF DrawingInv, GraphFits, EdgesFit
      <4> QED BY <4>1, <3>1
    <3>3. CASE edge \in EdgesWithin(sourceYaml, There')
      BY <3>1, <3>3, <1>7
    <3> QED BY <3>2, <3>3, <1>1, <1>7
  <2> QED BY <2>1, <2>2, <2>3, <2>4 DEF EdgesFit
<1>9. ASSUME NEW n \in There'
      PROVE  nodes'[n].def = DefOf(n) /\ \A kind \in Shown \ late : nodes'[n].shows[kind] = store[kind]
  <2>1. CASE n \in There
    <3>1. /\ n \in DOMAIN nodes /\ nodes[n].def = DefOf(n)
          /\ \A kind \in Shown \ late : nodes[n].shows[kind] = store[kind]
      BY <2>1, <1>2, <1>3, WhileStaggering
    <3> QED BY <3>1, <1>4, <1>5
  <2>2. CASE n = t.node
    <3>1. \A kind \in Shown \ late : rebuild.taken[kind] = store[kind]
      BY <1>2, WhileStaggering
    <3> QED BY <2>2, <3>1, <1>4, <1>5
  <2> QED BY <2>1, <2>2, <1>2
<1>10. \A n \in DOMAIN nodes' : nodes'[n].shows["nodeRuntimeData"] = store["nodeRuntimeData"]
  BY <1>5
<1>11. edges' \subseteq EdgeStates /\ nodes' \in [DOMAIN nodes' -> NodeStates] /\ t.does # "end"
  BY <1>1, <1>3, <1>5, <1>7
<1> QED BY <1>1, <1>6, <1>8, <1>9, <1>10, <1>11, TimerDraws

LEMMA EndTimerDraws ==
    ASSUME DrawingInv, NEW t, EndTimer(t)
    PROVE  DrawingInv'
<1>1. /\ t \in staggerTimers /\ t.does = "end" /\ \A o \in staggerTimers : t.at <= o.at
      /\ staggerTimers' = staggerTimers \ {t} /\ rebuild' = NoRebuild /\ available' = {} /\ layoutKey' = None
      /\ late' = late \ {"layout"}
      /\ UNCHANGED <<sourceYaml, library, resolving, resolvedNodeDefs, askingExecutors, store, collapsed, direction, orphans,
                     nodes, edges, placed>>
      /\ Redrawn
  BY DEF EndTimer, Expires, Due
<1>2. rebuild.step = "stagger" /\ staggerTimers \subseteq TimerStates
  BY <1>1 DEF DrawingInv, DrawingTyped, RebuildTyped, GraphFits, TimersFit
<1>3. staggerTimers = {t}
  <2>1. PICK u \in staggerTimers : u.does = "end" /\ \A o \in staggerTimers \ {u} : o.does # "end" /\ o.at < u.at
    BY <1>2 DEF DrawingInv, GraphFits, TimersFit
  <2>2. u = t
    BY <1>1, <2>1
  <2>3. ASSUME NEW o \in staggerTimers PROVE o = t
    <3>1. o.at \in Nat /\ t.at \in Nat /\ t.at <= o.at
      BY <1>1, <1>2 DEF TimerStates
    <3> QED BY <2>1, <2>2, <3>1
  <2> QED BY <1>1, <2>3
<1>4. Waiting("leave") = {} /\ Waiting("remove") = {} /\ Waiting("mount") = {} /\ There = Ids(sourceYaml)
  BY <1>1, <1>3 DEF Waiting, There
<1>5. /\ DOMAIN nodes = Ids(sourceYaml) /\ edges = EdgesWithin(sourceYaml, Ids(sourceYaml))
      /\ \A n \in DOMAIN nodes : /\ ~nodes[n].leaving /\ nodes[n].def = DefOf(n)
                                 /\ \A kind \in Shown \ late : nodes[n].shows[kind] = store[kind]
  <2>1. \A edge \in edges : ~edge.leaving
    BY <1>2, <1>4, WhileStaggering DEF Touches
  <2> QED BY <1>2, <1>4, <2>1, WhileStaggering
<1>6. rebuild' = [step |-> "idle", taken |-> None] /\ rebuild'.step = "idle" /\ staggerTimers' = {}
  BY <1>1, <1>3 DEF NoRebuild
<1>7. SourceTyped' /\ NodesTyped' /\ RebuildTyped'
  <2>1. SourceTyped'
    BY <1>1 DEF DrawingInv, DrawingTyped, SourceTyped
  <2>2. NodesTyped'
    BY <1>1 DEF DrawingInv, DrawingTyped, NodesTyped
  <2>3. RebuildTyped'
    BY <1>6 DEF RebuildTyped, DrawingSteps
  <2> QED BY <2>1, <2>2, <2>3
<1>8. KeysFit'
  BY <1>1, <1>6 DEF KeysFit
<1>9. RelayoutTyped' /\ LayoutFits'
  <2>1. nodes' \in [DOMAIN nodes' -> NodeStates] /\ DOMAIN nodes' \subseteq AllIds /\ direction' \in {"TB", "LR"}
    BY <1>7 DEF NodesTyped, SourceTyped
  <2> QED BY <1>1, <1>8, <2>1, RedrawnIs
<1>10. sourceYaml # None /\ Drawn[sourceYaml].parses /\ "graph" \notin late
  BY <1>2 DEF DrawingInv, Sourced
<1>11. Sourced'
  BY <1>1, <1>6, <1>10 DEF Sourced
<1>12. GraphFits'
  <2>1. TimersFit'
    BY <1>6 DEF TimersFit
  <2>2. EdgesFit'
    BY <1>1, <1>6 DEF DrawingInv, GraphFits, EdgesFit
  <2>3. IdleShows'
    BY <1>1, <1>5, <1>10 DEF IdleShows
  <2> QED BY <2>1, <2>2, <2>3 DEF GraphFits
<1>13. DefsFollow'
  <2>1. \A n : DefOf(n)' = DefOf(n)
    BY <1>1 DEF DefOf
  <2> QED BY <2>1, <1>1, <1>5, <1>6 DEF DrawingInv, DefsFollow
<1>14. ShowsFollow'
  <2>1. ExecutorsNow' = ExecutorsNow
    BY <1>1 DEF ExecutorsNow
  <2>2. \A kind \in Shown : kind \in late' <=> kind \in late
    BY <1>1 DEF Shown
  <2> QED BY <2>1, <2>2, <1>1, <1>5, <1>6 DEF DrawingInv, ShowsFollow
<1> QED BY <1>7, <1>9, <1>11, <1>12, <1>13, <1>14 DEF DrawingInv, DrawingTyped

LEMMA DrawingBegins ==
    ASSUME DrawingInit
    PROVE  DrawingInv
<1> DEFINE ids == IF sourceYaml = None THEN {} ELSE Ids(sourceYaml)
           node == [def |-> library, shows |-> store, measured |-> "large", leaving |-> FALSE]
<1>1. /\ sourceYaml \in {None, 1} /\ library = 1 /\ collapsed = FALSE /\ direction = "TB"
      /\ resolving = FALSE /\ askingExecutors = FALSE /\ rebuild = NoRebuild /\ staggerTimers = {} /\ late = {}
      /\ relayout = NoRelayout /\ resolvedNodeDefs = [n \in ids |-> library]
      /\ store = [kind \in Shown |-> IF kind # "executorInfo" THEN 1 ELSE IF sourceYaml = None THEN None ELSE ExecutorsNow]
      /\ nodes = [n \in ids |-> node]
      /\ edges = IF sourceYaml = None THEN {} ELSE EdgesWithin(sourceYaml, ids)
      /\ layoutKey = (IF nodes = <<>> THEN None ELSE KeyOf(direction, nodes)) /\ placed = layoutKey
  BY DEF DrawingInit
<1>2. 1 \in DOMAIN Drawn /\ Drawn[1].parses /\ None \notin DOMAIN Drawn
  BY DrawnAssumption
<1>3. sourceYaml \in DOMAIN Drawn \cup {None} /\ (sourceYaml # None => sourceYaml = 1 /\ sourceYaml \in DOMAIN Drawn)
  BY <1>1, <1>2
<1>4. /\ store \in Values /\ store["executorInfo"] = (IF sourceYaml = None THEN None ELSE ExecutorsNow)
  <2>1. ExecutorsNow \in [of : DOMAIN Drawn \cup {None}, library : 1 .. 2]
    BY <1>1, <1>3 DEF ExecutorsNow
  <2>2. DOMAIN store = Shown /\ store["nodeStatuses"] = 1 /\ store["nodeRuntimeData"] = 1
        /\ store["executorInfo"] = (IF sourceYaml = None THEN None ELSE ExecutorsNow)
    BY <1>1 DEF Shown
  <2>3. store = [nodeStatuses |-> 1, executorInfo |-> (IF sourceYaml = None THEN None ELSE ExecutorsNow), nodeRuntimeData |-> 1]
    BY <1>1 DEF Shown
  <2> QED BY <2>1, <2>2, <2>3 DEF Values
<1>5. ids \subseteq AllIds /\ IsFiniteSet(ids)
  <2>1. CASE sourceYaml = None
    BY <2>1, FS_EmptySet
  <2>2. CASE sourceYaml # None
    BY <2>2, <1>3, GraphIs
  <2> QED BY <2>1, <2>2
<1>6. node \in NodeStates /\ node.def = library /\ node.shows = store /\ ~node.leaving
  BY <1>1, <1>4 DEF NodeStates, Sizes
<1> HIDE DEF node
<1>7. /\ DOMAIN nodes = ids /\ nodes \in [ids -> NodeStates] /\ \A n \in ids : nodes[n] = node
      /\ DOMAIN resolvedNodeDefs = ids /\ \A n \in ids : resolvedNodeDefs[n] = library
  BY <1>1, <1>6
<1>8. edges \subseteq EdgeStates /\ \A edge \in edges : {edge.source, edge.target} \subseteq ids
  <2>1. CASE sourceYaml = None
    BY <2>1, <1>1
  <2>2. CASE sourceYaml # None
    <3>1. edges = EdgesWithin(sourceYaml, ids)
      BY <2>2, <1>1
    <3> QED BY <2>2, <3>1, <1>3, EdgesAre
  <2> QED BY <2>1, <2>2
<1>9. rebuild.step = "idle" /\ relayout.step = "idle"
  BY <1>1 DEF NoRebuild, NoRelayout
<1>10. DrawingTyped
  <2>1. SourceTyped
    <3>1. resolving \in BOOLEAN /\ askingExecutors \in BOOLEAN /\ collapsed \in BOOLEAN
      BY <1>1
    <3> QED BY <3>1, <1>1, <1>3, <1>4, <1>7 DEF SourceTyped
  <2>2. NodesTyped
    BY <1>5, <1>7, <1>8 DEF NodesTyped
  <2>3. RebuildTyped /\ RelayoutTyped
    BY <1>1, <1>9 DEF RebuildTyped, RelayoutTyped, NoRebuild, NoRelayout, DrawingSteps
  <2> QED BY <2>1, <2>2, <2>3 DEF DrawingTyped
<1>11. Sourced
  BY <1>1, <1>4, <1>7, <1>9 DEF Sourced
<1>12. GraphFits
  <2>1. TimersFit /\ EdgesFit
    BY <1>1, <1>7, <1>8, <1>9 DEF TimersFit, EdgesFit
  <2>2. IdleShows
    BY <1>1, <1>2, <1>3, <1>6, <1>7 DEF IdleShows
  <2> QED BY <2>1, <2>2 DEF GraphFits
<1>13. DefsFollow
  BY <1>1, <1>6, <1>7, <1>9 DEF DefsFollow, DefOf
<1>14. ShowsFollow
  BY <1>4, <1>6, <1>7, <1>9 DEF ShowsFollow
<1>15. LayoutFits
  <2>1. Measured(nodes) => layoutKey = KeyOf(direction, nodes)
    BY <1>1 DEF Measured
  <2> QED BY <2>1, <1>1, <1>9 DEF LayoutFits, RelayoutFits, KeysFit, PlacedFits
<1> QED BY <1>10, <1>11, <1>12, <1>13, <1>14, <1>15 DEF DrawingInv

LEMMA DrawingInvKept ==
    ASSUME DrawingInv, DrawingNext \/ UNCHANGED drawingVars
    PROVE  DrawingInv'
<1>1. CASE DrawingUser
  BY <1>1, OpenSourceDraws, PackageChangesDraws, ChangeDraws, ToggleDirectionDraws, ToggleCollapsedDraws DEF DrawingUser
<1>2. CASE DrawingSystem
  <2>1. CASE OnNodesChange \/ ResolveAnswer \/ ExecutorsAnswer \/ ParseDone \/ ParseFails \/ OrphanParsed
    BY <2>1, OnNodesChangeDraws, ResolveAnswerDraws, BadgesDraw, ParseDoneDraws, ClearDraws, OrphanParsedDraws
  <2>2. CASE LandWhole \/ LandStepwise \/ RelayoutTimer \/ RelayoutLands
    BY <2>2, LandWholeDraws, LandStepwiseDraws, RelayoutTimerDraws, RelayoutLandsDraws
  <2>3. CASE \E t \in staggerTimers : LeaveTimer(t) \/ RemoveTimer(t) \/ MountTimer(t) \/ EndTimer(t)
    BY <2>3, LeaveTimerDraws, RemoveTimerDraws, MountTimerDraws, EndTimerDraws
  <2> QED BY <1>2, <2>1, <2>2, <2>3 DEF DrawingSystem
<1>3. CASE DrawingUpsets
  BY <1>3, ResolveFailsDraws, BadgesDraw, ClearDraws, RelayoutFailsDraws DEF DrawingUpsets
<1>4. CASE UNCHANGED drawingVars
  <2>1. UNCHANGED <<sourceYaml, library, resolving, resolvedNodeDefs, askingExecutors, store, collapsed, direction, rebuild,
                    staggerTimers, available, nodes, edges, placed, layoutKey, relayout, late>>
    BY <1>4 DEF drawingVars
  <2>2. DrawingTyped'
    BY <2>1 DEF DrawingInv, DrawingTyped, SourceTyped, NodesTyped, RebuildTyped, RelayoutTyped
  <2>3. Sourced'
    BY <2>1 DEF DrawingInv, Sourced
  <2>4. GraphFits'
    BY <2>1, GraphStays
  <2>5. DefsFollow'
    BY <2>1, DefsStay
  <2>6. ShowsFollow'
    <3>1. ~askingExecutors' => store["executorInfo"] \in {None, [of |-> sourceYaml, library |-> library']}
      BY <2>1 DEF DrawingInv, ShowsFollow, ExecutorsNow
    <3> QED BY <2>1, <3>1, ShowsStay
  <2>7. LayoutFits'
    BY <2>1, LayoutStays
  <2> QED BY <2>2, <2>3, <2>4, <2>5, <2>6, <2>7 DEF DrawingInv
<1> QED BY <1>1, <1>2, <1>3, <1>4 DEF DrawingNext

LEMMA DrawingInvAgrees ==
    ASSUME DrawingInv
    PROVE  DrawingTypeOK /\ DrawingIsTheGraph
<1>1. nodes \in [DOMAIN nodes -> NodeStates] /\ store \in Values
  BY DEF DrawingInv, DrawingTyped, NodesTyped, SourceTyped
<1>2. \A n \in DOMAIN nodes : nodes[n].shows \in Values /\ nodes[n].measured \in Sizes
  BY <1>1 DEF NodeStates
<1>3. DrawingTypeOK
  <2>1. (staggerTimers # {}) = (rebuild.step = "stagger")
    BY DEF DrawingInv, GraphFits, TimersFit
  <2>2. rebuild.step \in {"idle", "parse", "layout", "stagger"} /\ relayout.step \in {"idle", "timer", "layout"}
    BY DEF DrawingInv, DrawingTyped, RebuildTyped, RelayoutTyped, DrawingSteps
  <2>3. relayout.step # "idle" => rebuild.step # "stagger" /\ relayout.key = KeyOf(direction, nodes)
    BY DEF DrawingInv, LayoutFits, RelayoutFits
  <2>4. sourceYaml \in DOMAIN Drawn \cup {None} /\ library \in 1 .. 2 /\ direction \in {"TB", "LR"}
    BY DEF DrawingInv, DrawingTyped, SourceTyped
  <2> QED BY <2>1, <2>2, <2>3, <2>4, <1>2 DEF DrawingTypeOK
<1>4. \A edge \in edges : {edge.source, edge.target} \subseteq DOMAIN nodes
  BY DEF DrawingInv, GraphFits, EdgesFit
<1>5. \A n \in DOMAIN nodes : nodes[n].shows.nodeRuntimeData = store.nodeRuntimeData
  <2>1. \A values \in Values : values.nodeRuntimeData = values["nodeRuntimeData"]
    BY DEF Values
  <2> QED BY <2>1, <1>1, <1>2 DEF DrawingInv, ShowsFollow
<1>6. ASSUME DrawingAtRest, sourceYaml = None \/ ~Drawn[sourceYaml].parses \/ "graph" \in late
      PROVE  nodes = <<>> /\ edges = {}
  <2>1. DOMAIN nodes = {} /\ edges = {}
    <3>1. CASE sourceYaml = None
      BY <3>1 DEF DrawingInv, Sourced
    <3>2. CASE sourceYaml # None
      BY <3>2, <1>6 DEF DrawingInv, GraphFits, IdleShows, DrawingAtRest
    <3> QED BY <3>1, <3>2
  <2> QED BY <1>1, <2>1, EmptyIs
<1>7. ASSUME DrawingAtRest, ~(sourceYaml = None \/ ~Drawn[sourceYaml].parses \/ "graph" \in late)
      PROVE  /\ DOMAIN nodes = Ids(sourceYaml) /\ edges = EdgesWithin(sourceYaml, Ids(sourceYaml))
             /\ "layout" \notin late => placed = KeyOf(direction, nodes)
             /\ \A n \in DOMAIN nodes :
                  /\ ~nodes[n].leaving
                  /\ "def" \notin late => nodes[n].def = library
                  /\ \A kind \in Shown \ late : nodes[n].shows[kind] = store[kind]
                  /\ "executorInfo" \notin late => nodes[n].shows.executorInfo \in {None, ExecutorsNow}
  <2>1. /\ sourceYaml # None /\ sourceYaml \in DOMAIN Drawn /\ ~resolving /\ ~askingExecutors
        /\ rebuild.step = "idle" /\ relayout.step = "idle" /\ Unmeasured = {}
    BY <1>7 DEF DrawingAtRest, DrawingInv, DrawingTyped, SourceTyped
  <2>2. /\ DOMAIN nodes = Ids(sourceYaml) /\ edges = EdgesWithin(sourceYaml, Ids(sourceYaml))
        /\ \A n \in DOMAIN nodes : ~nodes[n].leaving
    BY <1>7, <2>1 DEF DrawingInv, GraphFits, IdleShows
  <2>3. Measured(nodes)
    <3>1. nodes # <<>>
      BY <2>1, <2>2, GraphIs, EmptyIs
    <3>2. \A n \in DOMAIN nodes : nodes[n].measured = Size
      BY <2>1 DEF Unmeasured
    <3>3. Size # "none"
      BY DEF Size
    <3> QED BY <3>1, <3>2, <3>3 DEF Measured
  <2>4. "layout" \notin late => placed = KeyOf(direction, nodes)
    BY <2>1, <2>3 DEF DrawingInv, LayoutFits, PlacedFits
  <2>5. "def" \notin late => \A n \in DOMAIN nodes : nodes[n].def = library
    <3>1. \A n \in DOMAIN nodes : nodes[n].def = DefOf(n)
      BY <2>1 DEF DrawingInv, DefsFollow
    <3>2. "def" \notin late => resolvedNodeDefs = [n \in Ids(sourceYaml) |-> library]
      BY <2>1 DEF DrawingInv, DefsFollow
    <3> QED BY <2>2, <3>1, <3>2 DEF DefOf
  <2>6. \A kind \in Shown \ late : \A n \in DOMAIN nodes : nodes[n].shows[kind] = store[kind]
    BY <2>1 DEF DrawingInv, ShowsFollow
  <2>7. "executorInfo" \notin late => \A n \in DOMAIN nodes : nodes[n].shows.executorInfo \in {None, ExecutorsNow}
    <3>1. \A values \in Values : values.executorInfo = values["executorInfo"]
      BY DEF Values
    <3>2. store["executorInfo"] \in {None, ExecutorsNow}
      BY <2>1 DEF DrawingInv, ShowsFollow
    <3>3. "executorInfo" \in Shown
      BY DEF Shown
    <3> QED BY <2>6, <3>1, <3>2, <3>3, <1>2
  <2> QED BY <2>2, <2>4, <2>5, <2>6, <2>7
<1> QED BY <1>3, <1>4, <1>5, <1>6, <1>7 DEF DrawingIsTheGraph

----------------------------------------------------------------------------
(* The three together.                                                     *)

PlaybackInv == CanvasInv /\ LogInv /\ DrawingInv

LEMMA PlaybackBegins ==
    ASSUME PlaybackInit
    PROVE  PlaybackInv
BY CanvasBegins, LogBegins, DrawingBegins DEF PlaybackInit, PlaybackInv

LEMMA PlaybackInvKept ==
    ASSUME PlaybackInv, [PlaybackNext]_playbackVars
    PROVE  PlaybackInv'
<1>1. CASE OnCanvas /\ CanvasNext
  <2>1. CanvasStep /\ UNCHANGED logVars /\ UNCHANGED drawingVars
    BY <1>1 DEF OnCanvas, CanvasStep
  <2> QED BY <2>1, CanvasInvKept, LogInvKept, DrawingInvKept DEF PlaybackInv
<1>2. CASE OnLog /\ LogNext
  <2>1. CanvasStep /\ LogNext /\ UNCHANGED drawingVars
    BY <1>2 DEF OnLog, CanvasStep
  <2> QED BY <2>1, CanvasInvKept, LogInvKept, DrawingInvKept DEF PlaybackInv
<1>3. CASE OnGraph /\ DrawingNext
  <2>1. CanvasStep /\ UNCHANGED logVars /\ DrawingNext
    BY <1>3 DEF OnGraph, CanvasStep
  <2> QED BY <2>1, CanvasInvKept, LogInvKept, DrawingInvKept DEF PlaybackInv
<1>4. CASE LeavePage \/ ComeBack \/ UNCHANGED playbackVars
  <2>1. CanvasStep /\ UNCHANGED logVars /\ UNCHANGED drawingVars
    BY <1>4 DEF LeavePage, ComeBack, CanvasMount, CanvasStep, playbackVars
  <2> QED BY <2>1, CanvasInvKept, LogInvKept, DrawingInvKept DEF PlaybackInv
<1> QED BY <1>1, <1>2, <1>3, <1>4 DEF PlaybackNext

(* The page of a workflow, its log panel and its canvas never hold a value *)
(* that their stores and components have no place for (executionStore,     *)
(* workflowStore, WorkflowCanvasPage, LogPanel, WorkflowCanvas).           *)
THEOREM PlaybackTyped == PlaybackSpec => []PlaybackTypeOK
<1>1. PlaybackInit => PlaybackInv
  BY PlaybackBegins
<1>2. PlaybackInv /\ [PlaybackNext]_playbackVars => PlaybackInv'
  BY PlaybackInvKept
<1>3. PlaybackInv => PlaybackTypeOK
  BY CanvasInvAgrees, LogInvAgrees, DrawingInvAgrees DEF PlaybackInv, PlaybackTypeOK
<1> QED BY <1>1, <1>2, <1>3, PTL DEF PlaybackSpec

(* URL, selection and page agree once the effects have settled and the     *)
(* list of executions is a prefix of the history; the log shows the end of *)
(* the log, without a gap; the canvas shows the graph of its source, by    *)
(* the definitions, values and sizes of now (WorkflowCanvasPage, its       *)
(* stores, and WorkflowCanvas).                                            *)
THEOREM PlaybackTellsTheTruth == PlaybackSpec => []PlaybackAgrees
<1>1. PlaybackInit => PlaybackInv
  BY PlaybackBegins
<1>2. PlaybackInv /\ [PlaybackNext]_playbackVars => PlaybackInv'
  BY PlaybackInvKept
<1>3. PlaybackInv => PlaybackAgrees
  BY CanvasInvAgrees, LogInvAgrees, DrawingInvAgrees DEF PlaybackInv, PlaybackAgrees
<1> QED BY <1>1, <1>2, <1>3, PTL DEF PlaybackSpec
=============================================================================
