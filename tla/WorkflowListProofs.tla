-------------------------- MODULE WorkflowListProofs --------------------------
(***************************************************************************)
(* The list of workflows, whatever the other pages do: what always holds,  *)
(* that the steps of its page, its mounting and its leaving keep it, and   *)
(* what it says of the cards.                                              *)
(***************************************************************************)
EXTENDS WorkflowList, BrowserProofs

-----------------------------------------------------------------------------
(* The list of workflows: types.                                           *)

Cards == [id : Workflows, stats : Stats]
LoadSteps == {"idle", "count", "select", "answer"}
PageLoad == [step : LoadSteps, page : Nat \ {0}, append : BOOLEAN, filters : Filters, total : Nat, items : Seq(Cards)]
EndRows == {"success", "failed"}
Events == [of : Workflows, type : {"started"}, status : {"running"}]
          \cup [of : Workflows, type : {"completed"}, status : EndRows]
RunStates == [of : {None}, row : {"none"}, stage : {"new"}]
             \cup [of : Workflows, row : {"running"}, stage : {"created", "started"}]
             \cup [of : Workflows, row : EndRows, stage : {"ended"}]
             \cup [of : Workflows, row : {"running"} \cup EndRows, stage : {"over"}]
NoRemoval == [step |-> "idle", of |-> None]
DeleteRequests == {NoRemoval} \cup [step : {"sent", "done"}, of : Workflows]

CardsTyped ==
    /\ searchInput \in BOOLEAN /\ filters \in Filters /\ workflows \in Seq(Cards) /\ total \in Nat
    /\ hasMore \in BOOLEAN /\ page \in Nat /\ asked \in Workflows \cup {None} /\ listed \in Filters \cup {None}
ListTyped ==
    /\ stored \in Seq(Workflows) /\ newest \in Nat /\ run \in [Runs -> RunStates] /\ stream \in Seq(Events)
    /\ CardsTyped /\ load \in PageLoad /\ removal \in [Removals -> DeleteRequests]
    /\ shifted \in BOOLEAN /\ cut \in BOOLEAN

LEMMA CountsAreNumbers ==
    ASSUME NEW P
    PROVE  IsFiniteSet({r \in Runs : r \in P}) /\ Cardinality({r \in Runs : r \in P}) \in Nat
<1>1. IsFiniteSet(Runs) /\ {r \in Runs : r \in P} \subseteq Runs
  BY WorkflowsAssumption
<1> QED BY <1>1, FS_Subset, FS_CardinalityType

LEMMA HavingIsNumber ==
    ASSUME NEW w, NEW rows
    PROVE  Having(w, rows) \in Nat
<1> DEFINE P == {r \in Runs : run[r].of = w /\ run[r].row \in rows}
<1>1. P = {r \in Runs : r \in P}
  OBVIOUS
<1> HIDE DEF P
<1>2. Cardinality(P) \in Nat
  BY <1>1, CountsAreNumbers
<1> QED BY <1>2 DEF P, Having

LEMMA CardIsCard ==
    ASSUME NEW w \in Workflows
    PROVE  ExecutionStats(w) \in Stats /\ Card(w) \in Cards
BY HavingIsNumber DEF ExecutionStats, Card, Cards, Stats

LEMMA MatchingIs ==
    ASSUME stored \in Seq(Workflows), NEW f
    PROVE  /\ Matching(f) \in Seq(Workflows) /\ Len(Matching(f)) \in Nat
           /\ ToSet(Matching(f)) \subseteq ToSet(stored)
           /\ IsInjective(stored) => IsInjective(Matching(f))
<1>1. /\ Matching(f) \in Seq(Workflows) /\ ToSet(Matching(f)) \subseteq ToSet(stored)
      /\ IsInjective(stored) => IsInjective(Matching(f))
  BY FilteredKeeps, FilteredElements DEF Matching
<1> QED BY <1>1, MembersAre

LEMMA IdsAre ==
    ASSUME NEW cards \in Seq(Cards)
    PROVE  /\ Ids(cards) \in Seq(Workflows) /\ Len(Ids(cards)) = Len(cards)
           /\ DOMAIN cards = 1 .. Len(cards) /\ DOMAIN Ids(cards) = 1 .. Len(cards)
           /\ \A i \in 1 .. Len(cards) : Ids(cards)[i] = cards[i].id /\ cards[i].id \in Workflows
<1>1. DOMAIN cards = 1 .. Len(cards) /\ Len(cards) \in Nat /\ \A i \in 1 .. Len(cards) : cards[i] \in Cards
  BY MembersAre
<1>2. \A i \in 1 .. Len(cards) : cards[i].id \in Workflows
  BY <1>1 DEF Cards
<1> QED BY <1>1, <1>2 DEF Ids

\* What goes of the cards goes of their ids.
LEMMA ButIs ==
    ASSUME NEW cards \in Seq(Cards), NEW gone
    PROVE  /\ But(cards, gone) \in Seq(Cards) /\ ToSet(But(cards, gone)) \subseteq ToSet(cards)
           /\ Ids(But(cards, gone)) = Filtered(Ids(cards), Workflows \ gone)
<1> DEFINE A == {c \in ToSet(cards) : c.id \notin gone}
           s == Filtered(cards, A)
           t == Filtered(Ids(cards), Workflows \ gone)
<1>1. s \in Seq(Cards) /\ ToSet(s) \subseteq ToSet(cards)
  BY FilteredKeeps, FilteredElements
<1>2. /\ Ids(cards) \in Seq(Workflows) /\ Len(Ids(cards)) = Len(cards)
      /\ \A i \in 1 .. Len(cards) : Ids(cards)[i] = cards[i].id /\ cards[i].id \in Workflows
  BY IdsAre
<1>3. t \in Seq(Workflows)
  BY <1>2, FilteredKeeps
<1>4. \A i \in 1 .. Len(cards) : cards[i] \in ToSet(cards) /\ cards[i] \in Cards
  BY MembersAre
<1>5. PICK g : g = [c \in Cards |-> c.id]
  OBVIOUS
<1>6. g \in [Cards -> Workflows] /\ \A c \in Cards : g[c] = c.id
  BY <1>5 DEF Cards
<1>7. \A i \in 1 .. Len(cards) : Ids(cards)[i] = g[cards[i]] /\ (cards[i] \in A <=> Ids(cards)[i] \in Workflows \ gone)
  BY <1>2, <1>4, <1>6
<1> HIDE DEF A
<1>8. Len(t) = Len(s) /\ \A i \in 1 .. Len(s) : t[i] = g[s[i]]
  <2>1. PICK ids, B : ids = Ids(cards) /\ B = Workflows \ gone
    OBVIOUS
  <2>2. /\ ids \in Seq(Workflows) /\ Len(ids) = Len(cards)
        /\ \A i \in 1 .. Len(cards) : ids[i] = g[cards[i]] /\ (cards[i] \in A <=> ids[i] \in B)
    BY <2>1, <1>2, <1>7
  <2>3. /\ Len(Filtered(ids, B)) = Len(Filtered(cards, A))
        /\ \A i \in 1 .. Len(Filtered(cards, A)) : Filtered(ids, B)[i] = g[Filtered(cards, A)[i]]
    BY <2>2, <1>6, FilteredMapped
  <2> QED BY <2>1, <2>3
<1> HIDE DEF s, t
<1>9. /\ Ids(s) \in Seq(Workflows) /\ Len(Ids(s)) = Len(s)
      /\ \A i \in 1 .. Len(s) : Ids(s)[i] = s[i].id /\ s[i] \in Cards
  BY <1>1, IdsAre
<1>10. Ids(s) = t
  BY <1>3, <1>6, <1>8, <1>9, SeqEqual
<1> QED BY <1>1, <1>10 DEF But, s, t, A

LEMMA IdsConcat ==
    ASSUME NEW a \in Seq(Cards), NEW b \in Seq(Cards)
    PROVE  Ids(a \o b) = Ids(a) \o Ids(b)
<1> DEFINE c == a \o b
           d == Ids(a) \o Ids(b)
<1>1. c \in Seq(Cards)
  OBVIOUS
<1>2. /\ Ids(a) \in Seq(Workflows) /\ Len(Ids(a)) = Len(a) /\ Ids(b) \in Seq(Workflows) /\ Len(Ids(b)) = Len(b)
      /\ \A i \in 1 .. Len(a) : Ids(a)[i] = a[i].id
      /\ \A i \in 1 .. Len(b) : Ids(b)[i] = b[i].id
  BY IdsAre
<1>3. Len(c) = Len(a) + Len(b) /\ \A i \in 1 .. Len(a) + Len(b) : c[i] = IF i <= Len(a) THEN a[i] ELSE b[i - Len(a)]
  BY ConcatProperties
<1>4. /\ d \in Seq(Workflows) /\ Len(d) = Len(a) + Len(b)
      /\ \A i \in 1 .. Len(a) + Len(b) : d[i] = IF i <= Len(a) THEN Ids(a)[i] ELSE Ids(b)[i - Len(a)]
  <2>1. PICK x, y : x = Ids(a) /\ y = Ids(b)
    OBVIOUS
  <2>2. x \in Seq(Workflows) /\ y \in Seq(Workflows) /\ Len(x) = Len(a) /\ Len(y) = Len(b)
    BY <2>1, <1>2
  <2>3. /\ x \o y \in Seq(Workflows) /\ Len(x \o y) = Len(x) + Len(y)
        /\ \A i \in 1 .. Len(x) + Len(y) : (x \o y)[i] = IF i <= Len(x) THEN x[i] ELSE y[i - Len(x)]
    BY <2>2, ConcatProperties
  <2> QED BY <2>1, <2>2, <2>3
<1> HIDE DEF c, d
<1>5. /\ Ids(c) \in Seq(Workflows) /\ Len(Ids(c)) = Len(c)
      /\ \A i \in 1 .. Len(c) : Ids(c)[i] = c[i].id
  BY <1>1, IdsAre
<1>6. Len(a) \in Nat /\ Len(b) \in Nat
  OBVIOUS
<1>7. ASSUME NEW i \in 1 .. Len(c) PROVE Ids(c)[i] = d[i]
  <2>1. CASE i <= Len(a)
    BY <2>1, <1>2, <1>3, <1>4, <1>5, <1>6
  <2>2. CASE ~(i <= Len(a))
    <3>1. i - Len(a) \in 1 .. Len(b)
      BY <2>2, <1>3, <1>6
    <3> QED BY <2>2, <3>1, <1>2, <1>3, <1>4, <1>5
  <2> QED BY <2>1, <2>2
<1>8. Ids(c) = d
  BY <1>3, <1>4, <1>5, <1>7, SeqEqual
<1> QED BY <1>8 DEF c, d

\* The cards of a part of what the filters select.
LEMMA CardsOf ==
    ASSUME NEW s \in Seq(Workflows), NEW cards, cards = [i \in DOMAIN s |-> Card(s[i])]
    PROVE  /\ cards \in Seq(Cards) /\ Ids(cards) = s /\ Len(cards) = Len(s)
           /\ \A i \in 1 .. Len(s) : cards[i] = Card(s[i]) /\ s[i] \in Workflows
<1>1. DOMAIN s = 1 .. Len(s) /\ Len(s) \in Nat /\ \A i \in 1 .. Len(s) : s[i] \in Workflows
  BY MembersAre
<1>2. \A i \in 1 .. Len(s) : Card(s[i]) \in Cards /\ Card(s[i]).id = s[i]
  BY <1>1, CardIsCard DEF Card
<1>3. cards \in Seq(Cards) /\ Len(cards) = Len(s) /\ \A i \in 1 .. Len(s) : cards[i] = Card(s[i])
  BY <1>1, <1>2
<1>4. Ids(cards) = s
  <2>1. /\ Ids(cards) \in Seq(Workflows) /\ Len(Ids(cards)) = Len(cards)
        /\ \A i \in 1 .. Len(cards) : Ids(cards)[i] = cards[i].id
    BY <1>3, IdsAre
  <2>2. PICK ids : ids = Ids(cards)
    OBVIOUS
  <2>3. ids \in Seq(Workflows) /\ Len(ids) = Len(s)
    BY <1>3, <2>1, <2>2
  <2>4. ASSUME NEW i \in 1 .. Len(ids) PROVE ids[i] = s[i]
    <3>1. i \in 1 .. Len(s) /\ ids[i] = cards[i].id
      BY <1>3, <2>1, <2>2, <2>3
    <3> QED BY <1>2, <1>3, <3>1
  <2>5. ids = s
    BY <2>3, <2>4, SeqEqual
  <2> QED BY <2>2, <2>5
<1> QED BY <1>1, <1>3, <1>4

LEMMA ListBlanks ==
    /\ NoFilter \in Filters /\ NoLoad \in PageLoad /\ NoRemoval \in DeleteRequests
    /\ NoLoad.step = "idle" /\ NoLoad.page = 1 /\ NoLoad.append = FALSE /\ NoLoad.items = <<>> /\ NoLoad.filters = NoFilter
    /\ \A n \in Nat \ {0}, f \in Filters :
          /\ LoadOf(n, TRUE, f) \in PageLoad /\ LoadOf(n, FALSE, f) \in PageLoad
          /\ LoadOf(n, TRUE, f) = [step |-> "count", page |-> n, append |-> TRUE, filters |-> f, total |-> 0, items |-> <<>>]
          /\ LoadOf(n, FALSE, f) = [step |-> "count", page |-> n, append |-> FALSE, filters |-> f, total |-> 0, items |-> <<>>]
<1>1. NoFilter \in Filters /\ NoRemoval \in DeleteRequests
  BY DEF NoFilter, Filters, NoRemoval, DeleteRequests
<1>2. PICK e : e = <<>>
  OBVIOUS
<1>3. e \in Seq(Cards)
  BY <1>2
<1>4. NoLoad = [step |-> "idle", page |-> 1, append |-> FALSE, filters |-> NoFilter, total |-> 0, items |-> e]
  BY <1>2 DEF NoLoad, NoFilter
<1>5. NoLoad \in PageLoad
  BY <1>1, <1>3, <1>4 DEF PageLoad, LoadSteps
<1>6. ASSUME NEW n \in Nat \ {0}, NEW append \in BOOLEAN, NEW f \in Filters
      PROVE  /\ LoadOf(n, append, f) \in PageLoad
             /\ LoadOf(n, append, f) = [step |-> "count", page |-> n, append |-> append, filters |-> f, total |-> 0, items |-> e]
  <2>1. LoadOf(n, append, f) = [step |-> "count", page |-> n, append |-> append, filters |-> f, total |-> 0, items |-> e]
    <3>1. PICK blank : blank = NoLoad
      OBVIOUS
    <3>2. LoadOf(n, append, f) = [blank EXCEPT !.step = "count", !.page = n, !.append = append, !.filters = f]
      BY <3>1 DEF LoadOf
    <3>3. blank = [step |-> "idle", page |-> 1, append |-> FALSE, filters |-> NoFilter, total |-> 0, items |-> e]
      BY <3>1, <1>4
    <3> QED BY <3>2, <3>3
  <2> QED BY <2>1, <1>3 DEF PageLoad, LoadSteps
<1>7. ASSUME NEW n \in Nat \ {0}, NEW f \in Filters
      PROVE  /\ LoadOf(n, TRUE, f) \in PageLoad /\ LoadOf(n, FALSE, f) \in PageLoad
             /\ LoadOf(n, TRUE, f) = [step |-> "count", page |-> n, append |-> TRUE, filters |-> f, total |-> 0, items |-> e]
             /\ LoadOf(n, FALSE, f) = [step |-> "count", page |-> n, append |-> FALSE, filters |-> f, total |-> 0, items |-> e]
  <2>1. TRUE \in BOOLEAN /\ FALSE \in BOOLEAN
    OBVIOUS
  <2> QED BY <1>6, <2>1, Zenon
<1> QED BY <1>1, <1>2, <1>4, <1>5, <1>7

LEMMA NothingLoaded == \A n, append, f : LoadOf(n, append, f).items = <<>>
<1>1. NoLoad \in PageLoad /\ NoLoad.items = <<>>
  BY ListBlanks
<1>2. PICK blank : blank = NoLoad
  OBVIOUS
<1>3. \A n, append, f : LoadOf(n, append, f) = [blank EXCEPT !.step = "count", !.page = n, !.append = append, !.filters = f]
  BY <1>2 DEF LoadOf
<1> QED BY <1>1, <1>2, <1>3 DEF PageLoad

\* What the types say of the parts.
LEMMA ListParts ==
    ASSUME ListTyped
    PROVE  /\ load.step \in LoadSteps /\ load.page \in Nat \ {0} /\ load.append \in BOOLEAN /\ load.filters \in Filters
           /\ load.total \in Nat /\ load.items \in Seq(Cards)
           /\ load = [step |-> load.step, page |-> load.page, append |-> load.append, filters |-> load.filters,
                      total |-> load.total, items |-> load.items]
           /\ \A k \in Removals : removal[k] = NoRemoval \/ removal[k] \in [step : {"sent", "done"}, of : Workflows]
           /\ None \notin Workflows /\ None \notin Filters /\ Workflows \subseteq Nat
           /\ PageSize \in Nat \ {0}
<1>1. load \in PageLoad /\ removal \in [Removals -> DeleteRequests]
  BY DEF ListTyped
<1>2. /\ load.step \in LoadSteps /\ load.page \in Nat \ {0} /\ load.append \in BOOLEAN /\ load.filters \in Filters
      /\ load.total \in Nat /\ load.items \in Seq(Cards)
  BY <1>1 DEF PageLoad
<1>3. load = [step |-> load.step, page |-> load.page, append |-> load.append, filters |-> load.filters,
              total |-> load.total, items |-> load.items]
  BY <1>1 DEF PageLoad
<1>4. \A k \in Removals : removal[k] \in DeleteRequests
  BY <1>1
<1>5. \A k \in Removals : removal[k] = NoRemoval \/ removal[k] \in [step : {"sent", "done"}, of : Workflows]
  BY <1>4 DEF DeleteRequests
<1>6. None \notin Workflows /\ None \notin Filters /\ Workflows \subseteq Nat /\ PageSize \in Nat \ {0}
  BY WorkflowsAssumption DEF Filters
<1> QED BY <1>2, <1>3, <1>5, <1>6

LEMMA RunIs ==
    ASSUME ListTyped, NEW r \in Runs
    PROVE  /\ \E of, row, stage : run[r] = [of |-> of, row |-> row, stage |-> stage]
           /\ run[r].stage = "new" => run[r].of = None /\ run[r].row = "none"
           /\ run[r].stage \in {"created", "started"} => run[r].row = "running"
           /\ run[r].stage = "ended" => run[r].row \in EndRows
           /\ run[r].stage = "over" => run[r].row \in {"running"} \cup EndRows
           /\ run[r].stage # "new" => run[r].of \in Workflows
           /\ run[r].stage \in {"new", "created", "started", "ended", "over"}
BY DEF ListTyped, RunStates

LEMMA EventIs ==
    ASSUME NEW e \in Events
    PROVE  /\ e.of \in Workflows
           /\ \/ e.type = "started" /\ e.status = "running"
              \/ e.type = "completed" /\ e.status \in EndRows
BY DEF Events

\* An event leaves numbers.
LEMMA AppliedIs ==
    ASSUME NEW s \in Stats, NEW e \in Events
    PROVE  /\ ApplyExecutionEvent(s, e) \in Stats
           /\ e.type = "started" =>
                 ApplyExecutionEvent(s, e) = [total |-> s.total + 1, running |-> s.running + 1,
                                              success |-> s.success, failed |-> s.failed]
           /\ e.type # "started" =>
                 ApplyExecutionEvent(s, e) = [total |-> s.total, running |-> IF s.running > 0 THEN s.running - 1 ELSE 0,
                                              success |-> s.success + (IF e.status = "success" THEN 1 ELSE 0),
                                              failed |-> s.failed + (IF e.status = "failed" THEN 1 ELSE 0)]
<1>1. PICK a \in Nat, b \in Nat, c \in Nat, d \in Nat : s = [total |-> a, running |-> b, success |-> c, failed |-> d]
  BY DEF Stats
<1>2. /\ s.total = a /\ s.running = b /\ s.success = c /\ s.failed = d
  BY <1>1
<1>3. CASE e.type = "started"
  <2>1. ApplyExecutionEvent(s, e) = [total |-> a + 1, running |-> b + 1, success |-> c, failed |-> d]
    BY <1>1, <1>3 DEF ApplyExecutionEvent
  <2> QED BY <1>2, <1>3, <2>1 DEF Stats
<1>4. CASE e.type # "started"
  <2>1. e.status \in {"success", "failed"}
    BY <1>4, EventIs DEF EndRows
  <2>2. PICK n \in Nat : n = IF b > 0 THEN b - 1 ELSE 0
    OBVIOUS
  <2>3. CASE e.status = "success"
    <3>1. ApplyExecutionEvent(s, e) = [total |-> a, running |-> n, success |-> c + 1, failed |-> d]
      <4>1. ApplyExecutionEvent(s, e) = [s EXCEPT !.running = n, !["success"] = @ + 1]
        BY <1>2, <1>4, <2>2, <2>3 DEF ApplyExecutionEvent
      <4> QED BY <4>1, <1>1
    <3> QED BY <1>2, <1>4, <2>2, <2>3, <3>1 DEF Stats
  <2>4. CASE e.status = "failed"
    <3>1. ApplyExecutionEvent(s, e) = [total |-> a, running |-> n, success |-> c, failed |-> d + 1]
      <4>1. ApplyExecutionEvent(s, e) = [s EXCEPT !.running = n, !["failed"] = @ + 1]
        BY <1>2, <1>4, <2>2, <2>4 DEF ApplyExecutionEvent
      <4> QED BY <4>1, <1>1
    <3> QED BY <1>2, <1>4, <2>2, <2>4, <3>1 DEF Stats
  <2> QED BY <2>1, <2>3, <2>4
<1> QED BY <1>3, <1>4

RowSet(f, r, row) == [f EXCEPT ![r].row = row]
StageSet(f, r, stage) == [f EXCEPT ![r].stage = stage]
BothSet(f, r, row, stage) == [f EXCEPT ![r].row = row, ![r].stage = stage]
LEMMA RowIsSet ==
    ASSUME NEW f \in [Runs -> RunStates], NEW r \in Runs, NEW w, NEW before, NEW at,
           f[r] = [of |-> w, row |-> before, stage |-> at], NEW row
    PROVE  RowSet(f, r, row) = [f EXCEPT ![r] = [of |-> w, row |-> row, stage |-> at]]
<1>1. PICK a : a = [of |-> w, row |-> row, stage |-> at]
  OBVIOUS
<1>2. [f[r] EXCEPT !.row = row] = a
  BY <1>1
<1>3. [f EXCEPT ![r].row = row] = [f EXCEPT ![r] = a]
  BY <1>2, Zenon
<1> QED BY <1>1, <1>3 DEF RowSet

LEMMA StageIsSet ==
    ASSUME NEW f \in [Runs -> RunStates], NEW r \in Runs, NEW w, NEW before, NEW at,
           f[r] = [of |-> w, row |-> before, stage |-> at], NEW stage
    PROVE  StageSet(f, r, stage) = [f EXCEPT ![r] = [of |-> w, row |-> before, stage |-> stage]]
<1>1. PICK a : a = [of |-> w, row |-> before, stage |-> stage]
  OBVIOUS
<1>2. [f[r] EXCEPT !.stage = stage] = a
  BY <1>1
<1>3. [f EXCEPT ![r].stage = stage] = [f EXCEPT ![r] = a]
  BY <1>2, Zenon
<1> QED BY <1>1, <1>3 DEF StageSet

LEMMA BothIsSet ==
    ASSUME NEW f \in [Runs -> RunStates], NEW r \in Runs, NEW w, NEW before, NEW at,
           f[r] = [of |-> w, row |-> before, stage |-> at], NEW row, NEW stage
    PROVE  BothSet(f, r, row, stage) = [f EXCEPT ![r] = [of |-> w, row |-> row, stage |-> stage]]
<1>1. PICK g, a, b : /\ g = RowSet(f, r, row) /\ a = [of |-> w, row |-> row, stage |-> at]
                     /\ b = [of |-> w, row |-> row, stage |-> stage]
  OBVIOUS
<1>2. g = [f EXCEPT ![r] = a]
  BY <1>1, RowIsSet
<1>3. g[r] = a
  BY <1>2
<1>4. [g[r] EXCEPT !.stage = stage] = b
  <2>1. [a EXCEPT !.stage = stage] = b
    BY <1>1
  <2> QED BY <1>3, <2>1
<1>5. BothSet(f, r, row, stage) = [g EXCEPT ![r] = b]
  BY <1>1, <1>4 DEF BothSet, RowSet
<1>6. [g EXCEPT ![r] = b] = [f EXCEPT ![r] = b]
  BY <1>2
<1> QED BY <1>1, <1>5, <1>6

LEMMA TypedLoads ==
    ASSUME ListTyped, \/ \E f \in Filters : ApplyFilters(f) /\ searchInput' \in BOOLEAN
                      \/ Search \/ HandleScroll \/ CountRows \/ SelectRows \/ ListAnswer \/ ListLoadFails
    PROVE  ListTyped'
<1>0. /\ load.step \in LoadSteps /\ load.page \in Nat \ {0} /\ load.append \in BOOLEAN /\ load.filters \in Filters
      /\ load.total \in Nat /\ load.items \in Seq(Cards) /\ PageSize \in Nat \ {0}
  BY ListParts
<1>1. ASSUME NEW f \in Filters, ApplyFilters(f), searchInput' \in BOOLEAN PROVE ListTyped'
  <2>1. /\ filters' = f /\ load' = IF load.step = "idle" THEN LoadOf(1, FALSE, f) ELSE load
        /\ UNCHANGED <<stored, newest, run, stream, workflows, total, hasMore, page, asked, listed, removal, shifted, cut>>
    BY <1>1 DEF ApplyFilters, LoadPage, rowVars, collection, doubtVars
  <2>2. LoadOf(1, FALSE, f) \in PageLoad
    <3>1. PICK one \in Nat \ {0} : one = 1
      OBVIOUS
    <3>2. LoadOf(one, FALSE, f) \in PageLoad
      BY ListBlanks
    <3> QED BY <3>1, <3>2
  <2>3. load' \in PageLoad
    BY <2>1, <2>2 DEF ListTyped
  <2> QED BY <1>1, <2>1, <2>3 DEF ListTyped, CardsTyped
<1>2. CASE Search
  <2>1. /\ searchInput' = ~searchInput
        /\ UNCHANGED <<stored, newest, run, stream, filters, workflows, total, hasMore, page, asked, listed, load, removal, shifted, cut>>
    BY <1>2 DEF Search, rowVars, collection, doubtVars
  <2>2. searchInput' \in BOOLEAN
    BY <2>1
  <2> QED BY <2>1, <2>2 DEF ListTyped, CardsTyped
<1>3. CASE HandleScroll
  <2>1. /\ load' = LoadOf(page + 1, TRUE, filters)
        /\ UNCHANGED <<stored, newest, run, stream, searchInput, filters, workflows, total, hasMore, page, asked, listed, removal, shifted, cut>>
    BY <1>3 DEF HandleScroll, LoadPage, rowVars, collection, cardVars, doubtVars
  <2>2. LoadOf(page + 1, TRUE, filters) \in PageLoad
    <3>1. PICK next \in Nat \ {0}, f \in Filters : next = page + 1 /\ f = filters
      BY DEF ListTyped, CardsTyped
    <3>2. LoadOf(next, TRUE, f) \in PageLoad
      BY ListBlanks
    <3> QED BY <3>1, <3>2
  <2> QED BY <2>1, <2>2 DEF ListTyped, CardsTyped
<1>4. CASE CountRows
  <2>1. /\ load' = [load EXCEPT !.step = "select", !.total = Len(Matching(load.filters))]
        /\ UNCHANGED <<stored, newest, run, stream, searchInput, filters, workflows, total, hasMore, page, asked, listed, removal>>
        /\ \/ shifted' = shifted /\ cut' = cut
           \/ shifted' = (\E k \in Removals : removal[k].step = "done") /\ cut' = FALSE
    BY <1>4 DEF CountRows, rowVars, collection, cardVars
  <2>2. Len(Matching(load.filters)) \in Nat
    BY MatchingIs DEF ListTyped
  <2>3. load' \in PageLoad
    BY <2>1, <2>2 DEF ListTyped, PageLoad, LoadSteps
  <2>4. shifted' \in BOOLEAN
    BY <2>1 DEF ListTyped
  <2>5. cut' \in BOOLEAN
    BY <2>1 DEF ListTyped
  <2> QED BY <2>1, <2>3, <2>4, <2>5 DEF ListTyped, CardsTyped
<1>5. CASE SelectRows
  <2>1. PICK part : /\ part = SubSeq(Matching(load.filters), (load.page - 1) * PageSize + 1,
                                     IF load.page * PageSize < Len(Matching(load.filters)) THEN load.page * PageSize
                                     ELSE Len(Matching(load.filters)))
                    /\ load' = [load EXCEPT !.step = "answer", !.items = [i \in DOMAIN part |-> Card(part[i])]]
    BY <1>5 DEF SelectRows
  <2>2. /\ UNCHANGED <<stored, newest, run, stream, searchInput, filters, workflows, total, hasMore, page, asked, listed, removal, cut>>
        /\ shifted' = (shifted \/ (load.append /\ cut))
    BY <1>5 DEF SelectRows, rowVars, collection, cardVars
  <2>3. PICK rows : rows = Matching(load.filters)
    OBVIOUS
  <2>4. rows \in Seq(Workflows) /\ Len(rows) \in Nat
    BY <2>3, MatchingIs DEF ListTyped
  <2>5. PICK m, n : /\ m = (load.page - 1) * PageSize + 1
                    /\ n = IF load.page * PageSize < Len(rows) THEN load.page * PageSize ELSE Len(rows)
    OBVIOUS
  <2>6. m \in Nat \ {0} /\ n \in Nat /\ n <= Len(rows)
    <3>1. load.page - 1 \in Nat
      BY <1>0
    <3>2. (load.page - 1) * PageSize \in Nat /\ load.page * PageSize \in Nat
      BY <1>0, <3>1
    <3> QED BY <2>4, <2>5, <3>2
  <2>7. part \in Seq(Workflows)
    BY <2>1, <2>3, <2>4, <2>5, <2>6, PartMembers
  <2>8. [i \in DOMAIN part |-> Card(part[i])] \in Seq(Cards)
    BY <2>7, CardsOf
  <2>9. load' \in PageLoad
    BY <2>1, <2>8 DEF ListTyped, PageLoad, LoadSteps
  <2>10. shifted' \in BOOLEAN
    BY <2>2 DEF ListTyped
  <2> QED BY <2>2, <2>9, <2>10 DEF ListTyped, CardsTyped
<1>6. CASE ListAnswer
  <2>1. /\ page' = load.page /\ total' = load.total /\ hasMore' = (load.page * PageSize < load.total)
        /\ \/ workflows' = workflows \o But(load.items, ToSet(Ids(workflows))) /\ (listed' = listed \/ listed' = None)
           \/ workflows' = load.items /\ listed' = load.filters
        /\ load' = NoLoad
        /\ UNCHANGED <<stored, newest, run, stream, searchInput, filters, asked, removal, shifted, cut>>
    BY <1>6 DEF ListAnswer, rowVars, collection
  <2>2. But(load.items, ToSet(Ids(workflows))) \in Seq(Cards)
    BY <1>0, ButIs
  <2>3. workflows' \in Seq(Cards)
    <3>1. PICK a, b : a = workflows /\ b = But(load.items, ToSet(Ids(workflows)))
      OBVIOUS
    <3>2. a \in Seq(Cards) /\ b \in Seq(Cards)
      BY <2>2, <3>1 DEF ListTyped, CardsTyped
    <3>3. a \o b \in Seq(Cards)
      BY <3>2
    <3> QED BY <1>0, <2>1, <3>1, <3>3
  <2>4. hasMore' \in BOOLEAN
    BY <2>1
  <2>5. listed' \in Filters \cup {None}
    BY <1>0, <2>1 DEF ListTyped, CardsTyped
  <2> QED BY <1>0, <2>1, <2>3, <2>4, <2>5, ListBlanks DEF ListTyped, CardsTyped
<1>7. CASE ListLoadFails
  <2>1. /\ load' = NoLoad /\ shifted' = (shifted \/ ~load.append)
        /\ UNCHANGED <<stored, newest, run, stream, searchInput, filters, workflows, total, hasMore, page, asked, listed, removal, cut>>
    BY <1>7 DEF ListLoadFails, rowVars, collection, cardVars
  <2>2. shifted' \in BOOLEAN
    BY <2>1
  <2> QED BY <2>1, <2>2, ListBlanks DEF ListTyped, CardsTyped
<1> QED BY <1>1, <1>2, <1>3, <1>4, <1>5, <1>6, <1>7

LEMMA TypedDeletions ==
    ASSUME ListTyped, \/ \E w \in Workflows : AskToDelete(w) \/ DeleteUnasked(w)
                      \/ \E ok \in BOOLEAN : AnswerDialog(ok)
                      \/ \E k \in Removals : DeleteRow(k) \/ DeleteAnswer(k) \/ DeleteFails(k)
    PROVE  ListTyped'
<1>0. /\ \A k \in Removals : removal[k] = NoRemoval \/ removal[k] \in [step : {"sent", "done"}, of : Workflows]
      /\ removal \in [Removals -> DeleteRequests] /\ None \notin Workflows
  BY ListParts DEF ListTyped
<1>9. NoRemoval = [step |-> "idle", of |-> None] /\ NoRemoval \in DeleteRequests
  BY ListBlanks DEF NoRemoval
<1>1. ASSUME NEW w \in Workflows, AskToDelete(w) PROVE ListTyped'
  <2>1. /\ asked' = w
        /\ UNCHANGED <<stored, newest, run, stream, searchInput, filters, workflows, total, hasMore, page, listed, load, removal, shifted, cut>>
    BY <1>1 DEF AskToDelete, rowVars, collection, doubtVars
  <2> QED BY <2>1 DEF ListTyped, CardsTyped
<1>2. ASSUME NEW w \in Workflows, SendDelete(w) PROVE ListTyped'
  <2>1. /\ Free(removal) /\ asked' = None
        /\ removal' = [removal EXCEPT ![Slot(removal)] = [step |-> "sent", of |-> w]]
        /\ UNCHANGED <<stored, newest, run, stream, searchInput, filters, workflows, total, hasMore, page, listed, load, shifted, cut>>
    BY <1>2 DEF SendDelete, rowVars, collection, doubtVars
  <2>2. [step |-> "sent", of |-> w] \in DeleteRequests
    BY DEF DeleteRequests
  <2>3. removal' \in [Removals -> DeleteRequests]
    BY <1>0, <2>1, <2>2
  <2> QED BY <2>1, <2>3 DEF ListTyped, CardsTyped
<1>3. ASSUME NEW w \in Workflows, DeleteUnasked(w) PROVE ListTyped'
  BY <1>2, <1>3 DEF DeleteUnasked
<1>4. ASSUME NEW ok \in BOOLEAN, AnswerDialog(ok) PROVE ListTyped'
  <2>1. asked \in Workflows
    BY <1>4 DEF AnswerDialog, ListTyped, CardsTyped
  <2>2. CASE ok
    BY <1>2, <1>4, <2>1, <2>2 DEF AnswerDialog
  <2>3. CASE ~ok
    <3>1. /\ asked' = None
          /\ UNCHANGED <<stored, newest, run, stream, searchInput, filters, workflows, total, hasMore, page, listed, load, removal, shifted, cut>>
      BY <1>4, <2>3 DEF AnswerDialog, rowVars, collection, doubtVars
    <3> QED BY <3>1 DEF ListTyped, CardsTyped
  <2> QED BY <2>2, <2>3
<1>5. ASSUME NEW k \in Removals, DeleteRow(k) PROVE ListTyped'
  <2>1. /\ stored' = Filtered(stored, Workflows \ {removal[k].of})
        /\ removal[k].step = "sent" /\ removal' = [removal EXCEPT ![k].step = "done"]
        /\ shifted' = (shifted \/ load.step # "idle") /\ cut' = TRUE
        /\ UNCHANGED <<newest, run, stream, searchInput, filters, workflows, total, hasMore, page, asked, listed, load>>
    BY <1>5 DEF DeleteRow, cardVars
  <2>2. stored' \in Seq(Workflows)
    BY <2>1, FilteredKeeps DEF ListTyped
  <2>3. removal[k] \in [step : {"sent", "done"}, of : Workflows]
    BY <1>0, <1>9, <2>1
  <2>4. [removal[k] EXCEPT !.step = "done"] \in DeleteRequests
    BY <2>3 DEF DeleteRequests
  <2>5. removal' \in [Removals -> DeleteRequests]
    BY <1>0, <2>1, <2>4
  <2>6. shifted' \in BOOLEAN
    BY <2>1
  <2>7. cut' \in BOOLEAN
    BY <2>1
  <2> QED BY <2>1, <2>2, <2>5, <2>6, <2>7 DEF ListTyped, CardsTyped
<1>6. ASSUME NEW k \in Removals, DeleteAnswer(k) PROVE ListTyped'
  <2>1. /\ workflows' = But(workflows, {removal[k].of}) /\ total' = IF total > 0 THEN total - 1 ELSE 0
        /\ removal' = [removal EXCEPT ![k] = NoRemoval]
        /\ shifted' = (shifted \/ removal[k].of \notin ToSet(Ids(workflows)))
        /\ UNCHANGED <<stored, newest, run, stream, searchInput, filters, hasMore, page, asked, listed, load, cut>>
    BY <1>6, <1>9 DEF DeleteAnswer, rowVars, collection
  <2>2. workflows' \in Seq(Cards)
    BY <2>1, ButIs DEF ListTyped, CardsTyped
  <2>3. removal' \in [Removals -> DeleteRequests]
    BY <1>0, <1>9, <2>1
  <2>4. total' \in Nat
    BY <2>1 DEF ListTyped, CardsTyped
  <2>5. shifted' \in BOOLEAN
    BY <2>1
  <2> QED BY <2>1, <2>2, <2>3, <2>4, <2>5 DEF ListTyped, CardsTyped
<1>7. ASSUME NEW k \in Removals, DeleteFails(k) PROVE ListTyped'
  <2>1. /\ removal' = [removal EXCEPT ![k] = NoRemoval]
        /\ shifted' = (shifted \/ removal[k].step = "done")
        /\ UNCHANGED <<stored, newest, run, stream, searchInput, filters, workflows, total, hasMore, page, asked, listed, load, cut>>
    BY <1>7, <1>9 DEF DeleteFails, rowVars, collection, cardVars
  <2>2. removal' \in [Removals -> DeleteRequests]
    BY <1>0, <1>9, <2>1
  <2>3. shifted' \in BOOLEAN
    BY <2>1
  <2> QED BY <2>1, <2>2, <2>3 DEF ListTyped, CardsTyped
<1> QED BY <1>1, <1>3, <1>4, <1>5, <1>6, <1>7

LEMMA TypedRuns ==
    ASSUME ListTyped, \/ \E r \in Runs, w \in Workflows : RunStarts(r, w)
                      \/ \E r \in Runs : ExpansionFails(r) \/ SayStarted(r) \/ SayCompleted(r)
                      \/ \E r \in Runs, row \in EndRows : RunEnds(r, row)
                      \/ \E r \in Runs, row \in {"running"} \cup EndRows : RunAgain(r, row)
    PROVE  ListTyped'
<1> DEFINE others == <<stored, newest, searchInput, filters, workflows, total, hasMore, page, asked, listed, load, removal, cut>>
<1>0. run \in [Runs -> RunStates] /\ stream \in Seq(Events)
  BY DEF ListTyped
<1>1. ASSUME NEW r \in Runs, NEW state \in RunStates, run' = [run EXCEPT ![r] = state], UNCHANGED others,
             stream' \in Seq(Events), shifted' \in BOOLEAN
      PROVE  ListTyped'
  <2>1. run' \in [Runs -> RunStates]
    BY <1>0, <1>1
  <2> QED BY <1>1, <2>1 DEF ListTyped, CardsTyped
<1>2. ASSUME NEW w \in Workflows, NEW status \in EndRows
      PROVE  /\ Append(stream, [of |-> w, type |-> "started", status |-> "running"]) \in Seq(Events)
             /\ Append(stream, [of |-> w, type |-> "completed", status |-> status]) \in Seq(Events)
  <2>1. PICK a, b : a = [of |-> w, type |-> "started", status |-> "running"] /\ b = [of |-> w, type |-> "completed", status |-> status]
    OBVIOUS
  <2>2. a \in Events /\ b \in Events
    BY <2>1 DEF Events
  <2> QED BY <1>0, <2>1, <2>2
<1> HIDE DEF others
<1>3. shifted \in BOOLEAN
  BY DEF ListTyped
<1>4. ASSUME NEW r \in Runs, NEW w \in Workflows, RunStarts(r, w) PROVE ListTyped'
  <2>1. /\ run' = [run EXCEPT ![r] = [of |-> w, row |-> "running", stage |-> "created"]]
        /\ UNCHANGED others /\ stream' = stream
        /\ shifted' = (shifted \/ (listed # None /\ listed.never) \/ load.filters.never)
    BY <1>4 DEF RunStarts, collection, cardVars, others
  <2>2. shifted' \in BOOLEAN
    BY <2>1
  <2>3. [of |-> w, row |-> "running", stage |-> "created"] \in RunStates
    BY DEF RunStates
  <2> QED BY <1>0, <1>1, <2>1, <2>2, <2>3
<1>5. ASSUME NEW r \in Runs, run[r].stage # "new", NEW row, NEW stage, run' = [run EXCEPT ![r].row = row, ![r].stage = stage],
             UNCHANGED others, shifted' = shifted, stream' \in Seq(Events),
             \/ row = "running" /\ stage \in {"created", "started"}
             \/ row \in EndRows /\ stage = "ended"
             \/ row \in {"running"} \cup EndRows /\ stage = "over"
      PROVE  ListTyped'
  <2>1. PICK w, before, at : run[r] = [of |-> w, row |-> before, stage |-> at] /\ w \in Workflows
    BY <1>5, RunIs
  <2>2. run' = [run EXCEPT ![r] = [of |-> w, row |-> row, stage |-> stage]]
    <3>1. run' = BothSet(run, r, row, stage)
      BY <1>5 DEF BothSet
    <3> QED BY <1>0, <2>1, <3>1, BothIsSet
  <2>3. [of |-> w, row |-> row, stage |-> stage] \in RunStates
    BY <1>5, <2>1 DEF RunStates
  <2> QED BY <1>1, <1>3, <1>5, <2>2, <2>3
<1>6. ASSUME NEW r \in Runs, ExpansionFails(r) PROVE ListTyped'
  <2>1. /\ run[r].stage = "created" /\ run' = [run EXCEPT ![r].row = "failed", ![r].stage = "over"]
        /\ UNCHANGED others /\ shifted' = shifted
        /\ stream' = Append(stream, [of |-> run[r].of, type |-> "completed", status |-> "failed"])
    BY <1>6 DEF ExpansionFails, Say, collection, cardVars, others
  <2>2. stream' \in Seq(Events)
    BY <1>2, <2>1, RunIs DEF EndRows
  <2> QED BY <1>5, <2>1, <2>2 DEF EndRows
<1>7. ASSUME NEW r \in Runs, SayStarted(r) PROVE ListTyped'
  <2>1. /\ run[r].stage = "created" /\ run' = [run EXCEPT ![r].stage = "started"]
        /\ UNCHANGED others /\ shifted' = shifted
        /\ stream' = Append(stream, [of |-> run[r].of, type |-> "started", status |-> "running"])
    BY <1>7 DEF SayStarted, Say, collection, cardVars, others
  <2>2. stream' \in Seq(Events)
    <3>1. "success" \in EndRows /\ run[r].of \in Workflows
      BY <2>1, RunIs DEF EndRows
    <3> QED BY <1>2, <2>1, <3>1
  <2>3. PICK w, at : run[r] = [of |-> w, row |-> "running", stage |-> at] /\ w \in Workflows
    BY <2>1, RunIs
  <2>4. run' = [run EXCEPT ![r] = [of |-> w, row |-> "running", stage |-> "started"]]
    <3>1. run' = StageSet(run, r, "started")
      BY <2>1 DEF StageSet
    <3> QED BY <1>0, <2>3, <3>1, StageIsSet
  <2>5. [of |-> w, row |-> "running", stage |-> "started"] \in RunStates
    BY <2>3 DEF RunStates
  <2> QED BY <1>1, <1>3, <2>1, <2>2, <2>4, <2>5
<1>8. ASSUME NEW r \in Runs, SayCompleted(r) PROVE ListTyped'
  <2>1. /\ run[r].stage = "ended" /\ run' = [run EXCEPT ![r].stage = "over"]
        /\ UNCHANGED others /\ shifted' = shifted
        /\ stream' = Append(stream, [of |-> run[r].of, type |-> "completed", status |-> run[r].row])
    BY <1>8 DEF SayCompleted, Say, collection, cardVars, others
  <2>2. PICK w, row, at : run[r] = [of |-> w, row |-> row, stage |-> at] /\ row \in EndRows /\ w \in Workflows
    BY <2>1, RunIs
  <2>3. stream' \in Seq(Events)
    <3>1. run[r].row = row /\ run[r].of = w
      BY <2>2
    <3> QED BY <1>2, <2>1, <2>2, <3>1
  <2>4. run' = [run EXCEPT ![r] = [of |-> w, row |-> row, stage |-> "over"]]
    <3>1. run' = StageSet(run, r, "over")
      BY <2>1 DEF StageSet
    <3> QED BY <1>0, <2>2, <3>1, StageIsSet
  <2>5. [of |-> w, row |-> row, stage |-> "over"] \in RunStates
    BY <2>2 DEF RunStates
  <2> QED BY <1>1, <1>3, <2>1, <2>3, <2>4, <2>5
<1>9. ASSUME NEW r \in Runs, NEW row \in EndRows, RunEnds(r, row) PROVE ListTyped'
  <2>1. /\ run[r].stage = "started" /\ run' = [run EXCEPT ![r].row = row, ![r].stage = "ended"]
        /\ UNCHANGED others /\ shifted' = shifted /\ stream' = stream
    BY <1>9 DEF RunEnds, collection, cardVars, others
  <2> QED BY <1>0, <1>5, <2>1
<1>10. ASSUME NEW r \in Runs, NEW row \in {"running"} \cup EndRows, RunAgain(r, row) PROVE ListTyped'
  <2>1. /\ run[r].stage = "over" /\ run' = [run EXCEPT ![r].row = row]
        /\ UNCHANGED others /\ shifted' = shifted /\ stream' = stream
    BY <1>10 DEF RunAgain, collection, cardVars, others
  <2>2. PICK w, before, at : run[r] = [of |-> w, row |-> before, stage |-> at] /\ at = "over" /\ w \in Workflows
    BY <2>1, RunIs
  <2>4. run' = [run EXCEPT ![r] = [of |-> w, row |-> row, stage |-> "over"]]
    <3>1. run' = RowSet(run, r, row)
      BY <2>1 DEF RowSet
    <3> QED BY <1>0, <2>2, <3>1, RowIsSet
  <2>5. [of |-> w, row |-> row, stage |-> "over"] \in RunStates
    BY <2>2 DEF RunStates
  <2> QED BY <1>0, <1>1, <1>3, <2>1, <2>4, <2>5
<1> QED BY <1>4, <1>6, <1>7, <1>8, <1>9, <1>10

LEMMA TypedEvents ==
    ASSUME ListTyped, OnExecutionEvent \/ StreamBreaks
    PROVE  ListTyped'
<1>0. stream \in Seq(Events) /\ workflows \in Seq(Cards)
  BY DEF ListTyped, CardsTyped
<1>1. CASE OnExecutionEvent
  <2>1. PICK e : /\ e = Head(stream) /\ stream # <<>> /\ stream' = Tail(stream)
                 /\ workflows' = [i \in DOMAIN workflows |->
                       IF workflows[i].id = e.of THEN [workflows[i] EXCEPT !.stats = ApplyExecutionEvent(@, e)]
                       ELSE workflows[i]]
    BY <1>1 DEF OnExecutionEvent
  <2>2. UNCHANGED <<stored, newest, run, searchInput, filters, total, hasMore, page, asked, listed, load, removal, shifted, cut>>
    BY <1>1 DEF OnExecutionEvent, rowVars, collection
  <2>3. e \in Events /\ stream' \in Seq(Events)
    BY <1>0, <2>1
  <2>4. DOMAIN workflows = 1 .. Len(workflows) /\ Len(workflows) \in Nat /\ \A i \in DOMAIN workflows : workflows[i] \in Cards
    BY <1>0, MembersAre
  <2>5. ASSUME NEW i \in DOMAIN workflows PROVE [workflows[i] EXCEPT !.stats = ApplyExecutionEvent(@, e)] \in Cards
    <3>1. PICK c \in Cards : c = workflows[i]
      BY <2>4
    <3>2. c.stats \in Stats
      BY DEF Cards
    <3>3. ApplyExecutionEvent(c.stats, e) \in Stats
      BY <2>3, <3>2, AppliedIs
    <3>4. PICK s \in Stats : s = ApplyExecutionEvent(c.stats, e)
      BY <3>3
    <3>5. [c EXCEPT !.stats = s] \in Cards
      BY DEF Cards
    <3> QED BY <3>1, <3>4, <3>5
  <2>6. workflows' \in Seq(Cards)
    BY <2>1, <2>4, <2>5
  <2> QED BY <2>2, <2>3, <2>6 DEF ListTyped, CardsTyped
<1>2. CASE StreamBreaks
  <2>1. /\ stream' = <<>>
        /\ UNCHANGED <<stored, newest, run, searchInput, filters, workflows, total, hasMore, page, asked, listed, load, removal, shifted, cut>>
    BY <1>2 DEF StreamBreaks, rowVars, collection, cardVars
  <2>2. stream' \in Seq(Events)
    BY <2>1
  <2> QED BY <2>1, <2>2 DEF ListTyped, CardsTyped
<1> QED BY <1>1, <1>2

LEMMA TypedOthers ==
    ASSUME ListTyped, \E w \in Workflows : OthersCreate(w) \/ OthersDelete(w)
    PROVE  ListTyped'
<1>1. PICK w \in Workflows : OthersCreate(w) \/ OthersDelete(w)
  OBVIOUS
<1>2. /\ \/ stored' = <<w>> \o stored /\ newest' = w
         \/ stored' = Filtered(stored, Workflows \ {w}) /\ newest' = newest
      /\ shifted' = TRUE
      /\ UNCHANGED <<run, stream, searchInput, filters, workflows, total, hasMore, page, asked, listed, load, removal, cut>>
  BY <1>1 DEF OthersCreate, OthersDelete, cardVars
<1>3. w \in Nat
  BY WorkflowsAssumption
<1>4. stored' \in Seq(Workflows)
  <2>1. <<w>> \o stored \in Seq(Workflows)
    BY OneMember, ConcatMembers DEF ListTyped
  <2>2. Filtered(stored, Workflows \ {w}) \in Seq(Workflows)
    BY FilteredKeeps DEF ListTyped
  <2> QED BY <1>2, <2>1, <2>2
<1>5. shifted' \in BOOLEAN
  BY <1>2
<1> QED BY <1>2, <1>3, <1>4, <1>5 DEF ListTyped, CardsTyped

LEMMA ListTypedStep ==
    ASSUME ListTyped, ListNext
    PROVE  ListTyped'
<1>1. ASSUME SelectFilter \/ SearchTimer PROVE \E f \in Filters : ApplyFilters(f) /\ searchInput' \in BOOLEAN
  <2>1. filters \in Filters /\ searchInput \in BOOLEAN
    BY DEF ListTyped, CardsTyped
  <2>2. [filters EXCEPT !.never = ~@] \in Filters
    BY <2>1 DEF Filters
  <2>3. [filters EXCEPT !.search = searchInput] \in Filters
    BY <2>1 DEF Filters
  <2> QED BY <1>1, <2>1, <2>2, <2>3, Zenon DEF SelectFilter, SearchTimer
<1>2. CASE ListUser
  BY <1>1, <1>2, TypedLoads, TypedDeletions DEF ListUser
<1>3. CASE ListSystem
  BY <1>1, <1>3, TypedLoads, TypedDeletions, TypedRuns, TypedEvents DEF ListSystem, EndRows
<1>4. CASE ListOthers
  <2>1. {"running", "success", "failed"} = {"running"} \cup EndRows
    BY DEF EndRows
  <2> QED BY <1>4, <2>1, TypedOthers, TypedRuns DEF ListOthers
<1>5. CASE ListFaults
  BY <1>5, TypedLoads, TypedEvents, TypedDeletions DEF ListFaults
<1> QED BY <1>2, <1>3, <1>4, <1>5 DEF ListNext

LEMMA ListFresh == ListTyped /\ (ListMount \/ ListLeave) => ListTyped'
<1>1. ASSUME ListTyped, ListMount PROVE ListTyped'
  <2>1. /\ load' = LoadOf(1, FALSE, NoFilter)
        /\ UNCHANGED <<stored, newest, run, stream, searchInput, filters, workflows, total, hasMore, page, asked, listed, removal, shifted, cut>>
    BY <1>1 DEF ListMount, rowVars, collection, cardVars, doubtVars
  <2>2. load' \in PageLoad
    <3>1. PICK one \in Nat \ {0}, f \in Filters : one = 1 /\ f = NoFilter
      BY ListBlanks
    <3>2. LoadOf(one, FALSE, f) \in PageLoad
      BY ListBlanks
    <3> QED BY <2>1, <3>1, <3>2
  <2> QED BY <1>1, <2>1, <2>2 DEF ListTyped, CardsTyped
<1>2. ASSUME ListTyped, ListLeave PROVE ListTyped'
  <2>1. PICK late \in SUBSET {k \in Removals : removal[k].step = "sent"} :
           stored' = Filtered(stored, Workflows \ {removal[k].of : k \in late})
    BY <1>2 DEF ListLeave
  <2>2. /\ removal' = [k \in Removals |-> NoRemoval] /\ stream' = <<>>
        /\ searchInput' = FALSE /\ filters' = NoFilter /\ workflows' = <<>> /\ total' = 0 /\ hasMore' = TRUE /\ page' = 0
        /\ load' = NoLoad /\ asked' = None /\ listed' = NoFilter /\ shifted' = FALSE /\ cut' = FALSE
        /\ UNCHANGED <<newest, run>>
    BY <1>2 DEF ListLeave, NoRemoval
  <2>3. stored' \in Seq(Workflows)
    BY <1>2, <2>1, FilteredKeeps DEF ListTyped
  <2>4. removal' \in [Removals -> DeleteRequests]
    BY <2>2, ListBlanks
  <2>5. stream' \in Seq(Events) /\ workflows' \in Seq(Cards)
    BY <2>2
  <2>6. searchInput' \in BOOLEAN
    BY <2>2
  <2>7. hasMore' \in BOOLEAN
    BY <2>2
  <2>8. shifted' \in BOOLEAN
    BY <2>2
  <2>9. cut' \in BOOLEAN
    BY <2>2
  <2> QED BY <1>2, <2>2, <2>3, <2>4, <2>5, <2>6, <2>7, <2>8, <2>9, ListBlanks DEF ListTyped, CardsTyped
<1> QED BY <1>1, <1>2

-----------------------------------------------------------------------------
(* The list of workflows: each once, and none again.  What is created is   *)
(* newer than whatever the page knows of, and what a deletion has taken    *)
(* away stays away.                                                        *)

ListKnown ==
    /\ IsInjective(stored) /\ IsInjective(Ids(workflows)) /\ IsInjective(Ids(load.items))
    /\ \A w \in ToSet(stored) \cup ToSet(Ids(workflows)) \cup ToSet(Ids(load.items)) : w <= newest
    /\ asked # None => asked <= newest
    /\ \A k \in Removals : removal[k].step # "idle" => removal[k].of <= newest
    /\ \A k \in Removals : removal[k].step = "done" => removal[k].of \notin ToSet(stored)

\* A deletion begins with a card or the dialog, goes on at the server, and is over.
GoesOn(k) == \/ removal'[k] = removal[k] \/ removal'[k] = NoRemoval
             \/ removal'[k].step = "sent" /\ (removal'[k].of \in ToSet(Ids(workflows)) \/ (asked # None /\ removal'[k].of = asked))
             \/ removal[k].step = "sent" /\ removal'[k].of = removal[k].of /\ removal'[k].of \notin ToSet(stored')

LEMMA KnownKept ==
    ASSUME ListKnown, newest' = newest, IsInjective(stored'), ToSet(stored') \subseteq ToSet(stored),
           IsInjective(Ids(workflows')), ToSet(Ids(workflows')) \subseteq ToSet(Ids(workflows)) \cup ToSet(Ids(load.items)),
           IsInjective(Ids(load'.items)), ToSet(Ids(load'.items)) \subseteq ToSet(stored) \cup ToSet(Ids(load.items)),
           asked' = asked \/ asked' = None \/ asked' \in ToSet(Ids(workflows)),
           \A k \in Removals : GoesOn(k)
    PROVE  ListKnown'
<1>1. NoRemoval.step = "idle"
  BY DEF NoRemoval
<1>2. \A w \in ToSet(stored') \cup ToSet(Ids(workflows')) \cup ToSet(Ids(load'.items)) : w <= newest'
  BY DEF ListKnown
<1>3. asked' # None => asked' <= newest'
  BY DEF ListKnown
<1>4. \A k \in Removals : removal'[k].step # "idle" => removal'[k].of <= newest'
  BY <1>1 DEF ListKnown, GoesOn
<1>5. \A k \in Removals : removal'[k].step = "done" => removal'[k].of \notin ToSet(stored')
  BY <1>1 DEF ListKnown, GoesOn
<1> QED BY <1>2, <1>3, <1>4, <1>5 DEF ListKnown

knownVars == <<stored, newest, workflows, load, asked, removal>>

LEMMA KnownStays ==
    ASSUME ListKnown, UNCHANGED knownVars
    PROVE  ListKnown'
BY DEF ListKnown, knownVars

LEMMA NoCards == /\ IsInjective(Ids(<<>>)) /\ ToSet(Ids(<<>>)) = {}
BY DEF Ids, ToSet, IsInjective

LEMMA KnownLoads ==
    ASSUME ListTyped, ListKnown, \/ \E f \in Filters : ApplyFilters(f)
                                 \/ HandleScroll \/ CountRows \/ SelectRows \/ ListAnswer \/ ListLoadFails
    PROVE  ListKnown'
<1>0. /\ load.step \in LoadSteps /\ load.page \in Nat \ {0} /\ load.append \in BOOLEAN /\ load.filters \in Filters
      /\ load.total \in Nat /\ load.items \in Seq(Cards) /\ PageSize \in Nat \ {0}
  BY ListParts
<1>9. /\ IsInjective(stored) /\ IsInjective(Ids(workflows)) /\ IsInjective(Ids(load.items))
  BY DEF ListKnown
<1>10. removal' = removal => \A k \in Removals : GoesOn(k)
  BY DEF GoesOn
<1>11. ASSUME UNCHANGED <<stored, newest, workflows, asked, removal>>,
              load'.items = load.items \/ load'.items = <<>>
       PROVE  ListKnown'
  BY <1>9, <1>10, <1>11, NoCards, KnownKept
<1>12. /\ NoLoad.items = <<>>
       /\ \A n, append, f : LoadOf(n, append, f).items = <<>>
  BY ListBlanks, NothingLoaded
<1>1. ASSUME NEW f \in Filters, ApplyFilters(f) PROVE ListKnown'
  <2>1. /\ load' = IF load.step = "idle" THEN LoadOf(1, FALSE, f) ELSE load
        /\ UNCHANGED <<stored, newest, workflows, asked, removal>>
    BY <1>1 DEF ApplyFilters, LoadPage, rowVars, collection
  <2>2. LoadOf(1, FALSE, f).items = <<>>
    <3>1. PICK one \in Nat \ {0} : one = 1
      OBVIOUS
    <3> QED BY <1>12, <3>1
  <2> QED BY <1>11, <2>1, <2>2
<1>2. CASE HandleScroll
  <2>1. /\ load' = LoadOf(page + 1, TRUE, filters)
        /\ UNCHANGED <<stored, newest, workflows, asked, removal>>
    BY <1>2 DEF HandleScroll, LoadPage, rowVars, collection, cardVars
  <2>2. page + 1 \in Nat \ {0} /\ filters \in Filters
    BY DEF ListTyped, CardsTyped
  <2> QED BY <1>11, <1>12, <2>1, <2>2
<1>3. CASE CountRows
  <2>1. /\ load' = [load EXCEPT !.step = "select", !.total = Len(Matching(load.filters))]
        /\ UNCHANGED <<stored, newest, workflows, asked, removal>>
    BY <1>3 DEF CountRows, rowVars, collection, cardVars
  <2>2. load'.items = load.items
    BY <2>1 DEF ListTyped, PageLoad
  <2> QED BY <1>11, <2>1, <2>2
<1>4. CASE SelectRows
  <2>1. PICK part : /\ part = SubSeq(Matching(load.filters), (load.page - 1) * PageSize + 1,
                                     IF load.page * PageSize < Len(Matching(load.filters)) THEN load.page * PageSize
                                     ELSE Len(Matching(load.filters)))
                    /\ load' = [load EXCEPT !.step = "answer", !.items = [i \in DOMAIN part |-> Card(part[i])]]
    BY <1>4 DEF SelectRows
  <2>2. UNCHANGED <<stored, newest, workflows, asked, removal>>
    BY <1>4 DEF SelectRows, rowVars, collection, cardVars
  <2>3. PICK rows : rows = Matching(load.filters)
    OBVIOUS
  <2>4. rows \in Seq(Workflows) /\ Len(rows) \in Nat /\ ToSet(rows) \subseteq ToSet(stored) /\ IsInjective(rows)
    BY <1>9, <2>3, MatchingIs DEF ListTyped
  <2>5. PICK m, n : /\ m = (load.page - 1) * PageSize + 1
                    /\ n = IF load.page * PageSize < Len(rows) THEN load.page * PageSize ELSE Len(rows)
    OBVIOUS
  <2>6. m \in Nat \ {0} /\ n \in Nat /\ n <= Len(rows)
    <3>1. load.page - 1 \in Nat
      BY <1>0
    <3>2. (load.page - 1) * PageSize \in Nat /\ load.page * PageSize \in Nat
      BY <1>0, <3>1
    <3> QED BY <2>4, <2>5, <3>2
  <2>7. part \in Seq(Workflows) /\ ToSet(part) \subseteq ToSet(rows) /\ IsInjective(part)
    BY <2>1, <2>3, <2>4, <2>5, <2>6, PartMembers
  <2>8. PICK cards : cards = [i \in DOMAIN part |-> Card(part[i])]
    OBVIOUS
  <2>9. Ids(cards) = part
    BY <2>7, <2>8, CardsOf
  <2>10. load'.items = cards
    BY <2>1, <2>8 DEF ListTyped, PageLoad
  <2> QED BY <1>9, <1>10, <2>2, <2>4, <2>7, <2>9, <2>10, KnownKept
<1>5. CASE ListAnswer
  <2>1. /\ \/ workflows' = workflows \o But(load.items, ToSet(Ids(workflows)))
           \/ workflows' = load.items
        /\ load' = NoLoad
        /\ UNCHANGED <<stored, newest, asked, removal>>
    BY <1>5 DEF ListAnswer, rowVars, collection
  <2>2. PICK old, more, gone : /\ old = Ids(workflows) /\ more = Ids(load.items) /\ gone = ToSet(Ids(workflows))
    OBVIOUS
  <2>3. old \in Seq(Workflows) /\ more \in Seq(Workflows)
    BY <1>0, <2>2, IdsAre DEF ListTyped, CardsTyped
  <2>4. PICK kept, added : kept = Workflows \ gone /\ added = Filtered(more, kept)
    OBVIOUS
  <2>5. /\ added \in Seq(Workflows) /\ ToSet(added) = ToSet(more) \cap kept
        /\ IsInjective(more) => IsInjective(added)
    BY <2>3, <2>4, FilteredKeeps, FilteredElements
  <2>6. ToSet(old) \cap ToSet(added) = {}
    BY <2>2, <2>4, <2>5
  <2>7. ToSet(old \o added) = ToSet(old) \cup ToSet(added) /\ IsInjective(old \o added)
    BY <1>9, <2>2, <2>3, <2>5, <2>6, ConcatMembers
  <2>8. PICK a, b : a = workflows /\ b = But(load.items, gone)
    OBVIOUS
  <2>9. a \in Seq(Cards) /\ b \in Seq(Cards) /\ Ids(b) = added
    BY <1>0, <2>2, <2>4, <2>8, ButIs DEF ListTyped, CardsTyped
  <2>10. Ids(a \o b) = old \o added
    BY <2>2, <2>8, <2>9, IdsConcat
  <2>11. /\ IsInjective(Ids(workflows'))
         /\ ToSet(Ids(workflows')) \subseteq ToSet(Ids(workflows)) \cup ToSet(Ids(load.items))
    BY <1>9, <2>1, <2>2, <2>5, <2>7, <2>8, <2>10
  <2> QED BY <1>9, <1>10, <1>12, <2>1, <2>11, NoCards, KnownKept
<1>6. CASE ListLoadFails
  <2>1. load' = NoLoad /\ UNCHANGED <<stored, newest, workflows, asked, removal>>
    BY <1>6 DEF ListLoadFails, rowVars, collection, cardVars
  <2> QED BY <1>11, <1>12, <2>1
<1> QED BY <1>1, <1>2, <1>3, <1>4, <1>5, <1>6

LEMMA KnownDeletions ==
    ASSUME ListTyped, ListKnown, \/ \E w \in Workflows : AskToDelete(w) \/ DeleteUnasked(w)
                                 \/ \E ok \in BOOLEAN : AnswerDialog(ok)
                                 \/ \E k \in Removals : DeleteRow(k) \/ DeleteAnswer(k) \/ DeleteFails(k)
    PROVE  ListKnown'
<1>0. /\ \A k \in Removals : removal[k] = NoRemoval \/ removal[k] \in [step : {"sent", "done"}, of : Workflows]
      /\ removal \in [Removals -> DeleteRequests] /\ None \notin Workflows
  BY ListParts DEF ListTyped
<1>9. /\ IsInjective(stored) /\ IsInjective(Ids(workflows)) /\ IsInjective(Ids(load.items))
  BY DEF ListKnown
<1>10. NoRemoval = [step |-> "idle", of |-> None]
  BY DEF NoRemoval
<1>1. ASSUME NEW w \in Workflows, AskToDelete(w) PROVE ListKnown'
  <2>1. asked' = w /\ w \in ToSet(Ids(workflows)) /\ UNCHANGED <<stored, newest, workflows, load, removal>>
    BY <1>1 DEF AskToDelete, rowVars, collection
  <2>2. \A k \in Removals : GoesOn(k)
    BY <2>1 DEF GoesOn
  <2> QED BY <1>9, <2>1, <2>2, KnownKept
<1>2. ASSUME NEW w \in Workflows, SendDelete(w), w \in ToSet(Ids(workflows)) \/ (asked # None /\ w = asked) PROVE ListKnown'
  <2>1. /\ Free(removal) /\ asked' = None
        /\ removal' = [removal EXCEPT ![Slot(removal)] = [step |-> "sent", of |-> w]]
        /\ UNCHANGED <<stored, newest, workflows, load>>
    BY <1>2 DEF SendDelete, rowVars, collection
  <2>2. \A k \in Removals : removal'[k] = removal[k] \/ removal'[k] = [step |-> "sent", of |-> w]
    BY <1>0, <2>1
  <2>3. \A k \in Removals : GoesOn(k)
    BY <1>2, <2>2 DEF GoesOn
  <2> QED BY <1>9, <2>1, <2>3, KnownKept
<1>3. ASSUME NEW w \in Workflows, DeleteUnasked(w) PROVE ListKnown'
  <2>1. SendDelete(w) /\ w \in ToSet(Ids(workflows))
    BY <1>3, Zenon DEF DeleteUnasked
  <2> QED BY <1>2, <2>1
<1>4. ASSUME NEW ok \in BOOLEAN, AnswerDialog(ok) PROVE ListKnown'
  <2>1. asked \in Workflows /\ asked # None
    BY <1>4 DEF AnswerDialog, ListTyped, CardsTyped
  <2>2. CASE ok
    BY <1>2, <1>4, <2>1, <2>2 DEF AnswerDialog
  <2>3. CASE ~ok
    <3>1. asked' = None /\ UNCHANGED <<stored, newest, workflows, load, removal>>
      BY <1>4, <2>3 DEF AnswerDialog, rowVars, collection
    <3>2. \A k \in Removals : GoesOn(k)
      BY <3>1 DEF GoesOn
    <3> QED BY <1>9, <3>1, <3>2, KnownKept
  <2> QED BY <2>2, <2>3
<1>5. ASSUME NEW k \in Removals, DeleteRow(k) PROVE ListKnown'
  <2>1. /\ stored' = Filtered(stored, Workflows \ {removal[k].of})
        /\ removal[k].step = "sent" /\ removal' = [removal EXCEPT ![k].step = "done"]
        /\ UNCHANGED <<newest, workflows, asked, load>>
    BY <1>5 DEF DeleteRow, cardVars
  <2>2. PICK kept : kept = Workflows \ {removal[k].of}
    OBVIOUS
  <2>3. /\ ToSet(Filtered(stored, kept)) = ToSet(stored) \cap kept
        /\ IsInjective(Filtered(stored, kept))
    BY <1>9, FilteredElements DEF ListTyped
  <2>4. removal'[k].of = removal[k].of /\ \A j \in Removals \ {k} : removal'[j] = removal[j]
    BY <1>0, <1>10, <2>1
  <2>5. \A j \in Removals : GoesOn(j)
    BY <2>1, <2>2, <2>3, <2>4 DEF GoesOn
  <2> QED BY <1>9, <2>1, <2>2, <2>3, <2>5, KnownKept
<1>6. ASSUME NEW k \in Removals, DeleteAnswer(k) \/ DeleteFails(k) PROVE ListKnown'
  <2>1. /\ workflows' = But(workflows, {removal[k].of}) \/ workflows' = workflows
        /\ removal' = [removal EXCEPT ![k] = NoRemoval]
        /\ UNCHANGED <<stored, newest, asked, load>>
    BY <1>6, <1>10 DEF DeleteAnswer, DeleteFails, rowVars, collection, cardVars
  <2>2. PICK ids, gone, kept : ids = Ids(workflows) /\ gone = {removal[k].of} /\ kept = Workflows \ gone
    OBVIOUS
  <2>3. ids \in Seq(Workflows) /\ workflows \in Seq(Cards)
    BY <2>2, IdsAre DEF ListTyped, CardsTyped
  <2>4. Ids(But(workflows, gone)) = Filtered(ids, kept)
    BY <2>2, <2>3, ButIs
  <2>5. ToSet(Filtered(ids, kept)) \subseteq ToSet(ids) /\ IsInjective(Filtered(ids, kept))
    BY <1>9, <2>2, <2>3, FilteredElements
  <2>6. \A j \in Removals : GoesOn(j)
    BY <1>0, <2>1 DEF GoesOn
  <2>7. IsInjective(Ids(workflows')) /\ ToSet(Ids(workflows')) \subseteq ToSet(Ids(workflows))
    BY <1>9, <2>1, <2>2, <2>4, <2>5
  <2> QED BY <1>9, <2>1, <2>6, <2>7, KnownKept
<1> QED BY <1>1, <1>3, <1>4, <1>5, <1>6

\* An event changes no id.
LEMMA EventKeepsIds ==
    ASSUME ListTyped, OnExecutionEvent
    PROVE  Ids(workflows') = Ids(workflows)
<1>1. PICK e : workflows' = [i \in DOMAIN workflows |->
                       IF workflows[i].id = e.of THEN [workflows[i] EXCEPT !.stats = ApplyExecutionEvent(@, e)]
                       ELSE workflows[i]]
  BY DEF OnExecutionEvent
<1>2. DOMAIN workflows = 1 .. Len(workflows) /\ \A i \in DOMAIN workflows : workflows[i] \in Cards
  BY MembersAre DEF ListTyped, CardsTyped
<1>3. ASSUME NEW i \in DOMAIN workflows PROVE workflows'[i].id = workflows[i].id
  <2>1. PICK c \in Cards : c = workflows[i]
    BY <1>2
  <2>2. PICK s : s = ApplyExecutionEvent(c.stats, e)
    OBVIOUS
  <2>3. [c EXCEPT !.stats = s].id = c.id
    BY DEF Cards
  <2> QED BY <1>1, <2>1, <2>2, <2>3
<1>4. DOMAIN workflows' = DOMAIN workflows
  BY <1>1
<1> QED BY <1>3, <1>4 DEF Ids

LEMMA KnownOthers ==
    ASSUME ListTyped, ListKnown, \E w \in Workflows : OthersCreate(w) \/ OthersDelete(w)
    PROVE  ListKnown'
<1>0. /\ IsInjective(stored) /\ IsInjective(Ids(workflows)) /\ IsInjective(Ids(load.items)) /\ newest \in Nat
      /\ stored \in Seq(Workflows) /\ Workflows \subseteq Nat
  BY WorkflowsAssumption DEF ListKnown, ListTyped
<1>1. ASSUME NEW w \in Workflows, OthersDelete(w) PROVE ListKnown'
  <2>1. stored' = Filtered(stored, Workflows \ {w}) /\ UNCHANGED <<newest, workflows, load, asked, removal>>
    BY <1>1 DEF OthersDelete, cardVars
  <2>2. PICK kept : kept = Workflows \ {w}
    OBVIOUS
  <2>3. ToSet(Filtered(stored, kept)) \subseteq ToSet(stored) /\ IsInjective(Filtered(stored, kept))
    BY <1>0, FilteredElements
  <2>4. \A k \in Removals : GoesOn(k)
    BY <2>1 DEF GoesOn
  <2> QED BY <1>0, <2>1, <2>2, <2>3, <2>4, KnownKept
<1>2. ASSUME NEW w \in Workflows, OthersCreate(w) PROVE ListKnown'
  <2>1. w > newest /\ stored' = <<w>> \o stored /\ newest' = w /\ UNCHANGED <<workflows, load, asked, removal>>
    BY <1>2 DEF OthersCreate, cardVars
  <2>2. PICK one : one = <<w>>
    OBVIOUS
  <2>3. one \in Seq(Workflows) /\ ToSet(one) = {w} /\ IsInjective(one)
    BY <2>2, OneMember
  <2>4. w \in Nat /\ \A v \in Nat : v <= newest => v <= w /\ v # w
    BY <1>0, <2>1
  <2>5. ToSet(stored) \subseteq Nat /\ ToSet(Ids(workflows)) \subseteq Nat /\ ToSet(Ids(load.items)) \subseteq Nat
    <3>1. Ids(workflows) \in Seq(Workflows) /\ Ids(load.items) \in Seq(Workflows)
      BY IdsAre, ListParts DEF ListTyped, CardsTyped
    <3> QED BY <1>0, <3>1, MembersAre
  <2>6. ToSet(one) \cap ToSet(stored) = {}
    BY <2>3, <2>4, <2>5 DEF ListKnown
  <2>7. ToSet(stored') = {w} \cup ToSet(stored) /\ IsInjective(stored')
    <3>1. ToSet(one \o stored) = ToSet(one) \cup ToSet(stored) /\ IsInjective(one \o stored)
      BY <1>0, <2>3, <2>6, ConcatMembers
    <3> QED BY <2>1, <2>2, <2>3, <3>1
  <2>8. \A v \in ToSet(stored') \cup ToSet(Ids(workflows)) \cup ToSet(Ids(load.items)) : v <= newest'
    <3>1. \A v \in ToSet(stored) \cup ToSet(Ids(workflows)) \cup ToSet(Ids(load.items)) : v \in Nat /\ v <= newest
      BY <2>5 DEF ListKnown
    <3>2. \A v \in ToSet(stored) \cup ToSet(Ids(workflows)) \cup ToSet(Ids(load.items)) : v <= w
      BY <2>4, <3>1
    <3> QED BY <2>1, <2>4, <2>7, <3>2
  <2>9. asked # None => asked <= newest'
    BY <1>0, <2>1, <2>4 DEF ListKnown, ListTyped, CardsTyped
  <2>10. ASSUME NEW k \in Removals, removal[k].step # "idle"
         PROVE  removal[k].of <= newest' /\ removal[k].of # w
    <3>1. removal[k] \in [step : {"sent", "done"}, of : Workflows]
      BY <2>10, ListParts DEF NoRemoval
    <3>2. removal[k].of \in Nat /\ removal[k].of <= newest
      BY <1>0, <2>10, <3>1 DEF ListKnown
    <3> QED BY <2>1, <2>4, <3>2
  <2>11. \A k \in Removals : removal[k].step = "done" => removal[k].of \notin ToSet(stored')
    BY <2>7, <2>10 DEF ListKnown
  <2> QED BY <1>0, <2>1, <2>7, <2>8, <2>9, <2>10, <2>11 DEF ListKnown
<1> QED BY <1>1, <1>2

LEMMA KnownStep ==
    ASSUME ListTyped, ListKnown, ListNext
    PROVE  ListKnown'
<1>1. ASSUME SelectFilter \/ SearchTimer PROVE \E f \in Filters : ApplyFilters(f)
  <2>1. filters \in Filters /\ searchInput \in BOOLEAN
    BY DEF ListTyped, CardsTyped
  <2>2. [filters EXCEPT !.never = ~@] \in Filters
    BY <2>1 DEF Filters
  <2>3. [filters EXCEPT !.search = searchInput] \in Filters
    BY <2>1 DEF Filters
  <2> QED BY <1>1, <2>1, <2>2, <2>3, Zenon DEF SelectFilter, SearchTimer
<1>2. ASSUME \/ Search \/ StreamBreaks
             \/ \E r \in Runs : ExpansionFails(r) \/ SayStarted(r) \/ SayCompleted(r)
             \/ \E r \in Runs, row \in {"success", "failed"} : RunEnds(r, row)
             \/ \E r \in Runs, w \in Workflows : RunStarts(r, w)
             \/ \E r \in Runs, row \in {"running", "success", "failed"} : RunAgain(r, row)
      PROVE  ListKnown'
  <2>1. UNCHANGED knownVars
    BY <1>2, Zenon DEF Search, StreamBreaks, ExpansionFails, SayStarted, SayCompleted, RunEnds, RunStarts, RunAgain,
                       rowVars, collection, cardVars, knownVars
  <2> QED BY <2>1, KnownStays
<1>3. ASSUME OnExecutionEvent PROVE ListKnown'
  <2>1. UNCHANGED <<stored, newest, load, asked, removal>>
    BY <1>3 DEF OnExecutionEvent, rowVars, collection
  <2>2. \A k \in Removals : GoesOn(k)
    BY <2>1 DEF GoesOn
  <2>3. Ids(workflows') = Ids(workflows)
    BY <1>3, EventKeepsIds
  <2> QED BY <2>1, <2>2, <2>3, KnownKept DEF ListKnown
<1>4. CASE ListUser
  BY <1>1, <1>2, <1>4, KnownLoads, KnownDeletions DEF ListUser
<1>5. CASE ListSystem
  BY <1>1, <1>2, <1>3, <1>5, KnownLoads, KnownDeletions DEF ListSystem
<1>6. CASE ListOthers
  BY <1>2, <1>6, KnownOthers DEF ListOthers
<1>7. CASE ListFaults
  BY <1>2, <1>7, KnownLoads, KnownDeletions DEF ListFaults
<1> QED BY <1>4, <1>5, <1>6, <1>7 DEF ListNext

LEMMA KnownFresh ==
    ASSUME ListTyped, ListKnown, ListMount \/ ListLeave
    PROVE  ListKnown'
<1>0. /\ IsInjective(stored) /\ IsInjective(Ids(workflows)) /\ IsInjective(Ids(load.items))
  BY DEF ListKnown
<1>1. CASE ListMount
  <2>1. load' = LoadOf(1, FALSE, NoFilter) /\ UNCHANGED <<stored, newest, workflows, asked, removal>>
    BY <1>1 DEF ListMount, rowVars, collection, cardVars
  <2>2. load'.items = <<>>
    <3>1. PICK one \in Nat \ {0}, f \in Filters : one = 1 /\ f = NoFilter
      BY ListBlanks
    <3> QED BY <2>1, <3>1, NothingLoaded
  <2>3. \A k \in Removals : GoesOn(k)
    BY <2>1 DEF GoesOn
  <2> QED BY <1>0, <2>1, <2>2, <2>3, NoCards, KnownKept
<1>2. CASE ListLeave
  <2>1. PICK late \in SUBSET {k \in Removals : removal[k].step = "sent"} :
           stored' = Filtered(stored, Workflows \ {removal[k].of : k \in late})
    BY <1>2 DEF ListLeave
  <2>2. /\ removal' = [k \in Removals |-> NoRemoval] /\ workflows' = <<>> /\ load' = NoLoad /\ asked' = None
        /\ newest' = newest
    BY <1>2 DEF ListLeave, NoRemoval
  <2>3. PICK kept : kept = Workflows \ {removal[k].of : k \in late}
    OBVIOUS
  <2>4. ToSet(Filtered(stored, kept)) \subseteq ToSet(stored) /\ IsInjective(Filtered(stored, kept))
    BY <1>0, FilteredElements DEF ListTyped
  <2>5. \A k \in Removals : GoesOn(k)
    BY <2>2 DEF GoesOn
  <2> QED BY <1>0, <2>1, <2>2, <2>3, <2>4, <2>5, ListBlanks, NoCards, KnownKept
<1> QED BY <1>1, <1>2

-----------------------------------------------------------------------------
(* The list of workflows: pages.                                           *)

Deleted == {removal[k].of : k \in {j \in Removals : removal[j].step = "done"}}
PageEnd(n, rows) == IF n * PageSize < Len(rows) THEN n * PageSize ELSE Len(rows)
PageOf(n, rows) == SubSeq(rows, (n - 1) * PageSize + 1, PageEnd(n, rows))
Idle == load.step = "idle"

\* The ids are the first n pages of the rows, but for deletions that the server
\* has carried out and the page has still to be told of; with a page loaded
\* after a deletion (~whole) the pages have gaps.
Shows(ids, gone, whole, n, more, count, rows) ==
    /\ gone \subseteq ToSet(ids) => /\ IsPrefix(Filtered(ids, Workflows \ gone), rows)
                                    /\ count = Len(rows) + Cardinality(gone)
    /\ whole => /\ ids = SubSeq(rows, 1, PageEnd(n, rows))
                /\ more = (n * PageSize < Len(rows))
                /\ count = Len(rows)

\* A load asks for the page after those on screen, or for the first.
LoadAsks ==
    /\ route # "workflows" => page = 0 /\ load = NoLoad
    /\ ~Idle => IF load.append THEN load.page = page + 1 /\ hasMore ELSE load.page = 1

\* What a load has seen of what its filters select.
LoadSaw(rows) ==
    /\ load.step \in {"select", "answer"} => load.total = Len(rows) /\ (~load.append => ~cut)
    /\ load.step = "answer" => ~cut /\ Ids(load.items) = PageOf(load.page, rows)

FirstPageComes == route = "workflows" /\ (Idle \/ load.append) => page > 0
ListShown == (Idle \/ load.append) /\ page > 0 /\ listed # None =>
                 Shows(Ids(workflows), Deleted, ~cut, page, hasMore, total, Matching(listed))
Paged == FirstPageComes /\ (Deleted # {} => cut) /\ ListShown /\ LoadSaw(Matching(load.filters))

ListPaging == LoadAsks /\ (~shifted => Paged)

LEMMA PageEndIs ==
    ASSUME NEW n \in Nat, NEW rows \in Seq(Workflows)
    PROVE  /\ n * PageSize \in Nat /\ PageEnd(n, rows) \in Nat /\ PageEnd(n, rows) <= Len(rows)
           /\ Len(rows) \in Nat /\ PageSize \in Nat \ {0}
           /\ (n + 1) * PageSize \in Nat /\ (n + 1) * PageSize = n * PageSize + PageSize
           /\ 1 * PageSize = PageSize /\ (1 - 1) * PageSize + 1 = 1
<1>1. PageSize \in Nat \ {0}
  BY WorkflowsAssumption
<1>2. n * PageSize \in Nat /\ (n + 1) * PageSize \in Nat /\ (n + 1) * PageSize = n * PageSize + PageSize
  BY <1>1
<1>3. Len(rows) \in Nat
  BY MembersAre
<1> QED BY <1>1, <1>2, <1>3 DEF PageEnd

LEMMA FreshShows ==
    ASSUME NEW rows \in Seq(Workflows), NEW n \in Nat, NEW ids, ids = SubSeq(rows, 1, PageEnd(n, rows)),
           NEW more, more = (n * PageSize < Len(rows)), NEW count, count = Len(rows), NEW whole
    PROVE  Shows(ids, {}, whole, n, more, count, rows)
<1>1. PageEnd(n, rows) \in Nat /\ PageEnd(n, rows) <= Len(rows) /\ Len(rows) \in Nat
  BY PageEndIs
<1>2. /\ ids \in Seq(Workflows) /\ Len(ids) = PageEnd(n, rows)
      /\ \A i \in 1 .. Len(ids) : ids[i] = rows[i]
  BY <1>1
<1>3. Filtered(ids, Workflows \ {}) = ids
  <2>1. PICK all : all = Workflows \ {}
    OBVIOUS
  <2>2. \A i \in 1 .. Len(ids) : ids[i] \in all
    BY <1>2, <2>1
  <2> QED BY <1>2, <2>1, <2>2, AllKept
<1>4. IsPrefix(ids, rows)
  BY <1>1, <1>2, PrefixIs
<1>5. count = Len(rows) + Cardinality({})
  BY <1>1, FS_EmptySet
<1> QED BY <1>3, <1>4, <1>5 DEF Shows

\* The next page goes behind those that are there.
LEMMA GrownPages ==
    ASSUME NEW rows \in Seq(Workflows), IsInjective(rows), NEW n \in Nat, n * PageSize < Len(rows),
           NEW ids, ids = SubSeq(rows, 1, PageEnd(n, rows)), NEW added, added = PageOf(n + 1, rows)
    PROVE  ids \o Filtered(added, Workflows \ ToSet(ids)) = SubSeq(rows, 1, PageEnd(n + 1, rows))
<1>1. PICK k, m : k = PageEnd(n, rows) /\ m = PageEnd(n + 1, rows)
  OBVIOUS
<1>2. /\ k = n * PageSize /\ k \in Nat /\ m \in Nat /\ k <= m /\ m <= Len(rows) /\ Len(rows) \in Nat
      /\ k + 1 <= m /\ (n + 1) - 1 = n
  <2>1. PICK a, b : a = n * PageSize /\ b = (n + 1) * PageSize
    OBVIOUS
  <2>2. a \in Nat /\ b = a + PageSize /\ PageSize \in Nat \ {0} /\ Len(rows) \in Nat /\ a < Len(rows)
    BY <2>1, PageEndIs
  <2>3. k = IF a < Len(rows) THEN a ELSE Len(rows)
    BY <1>1, <2>1 DEF PageEnd
  <2>4. m = IF b < Len(rows) THEN b ELSE Len(rows)
    BY <1>1, <2>1 DEF PageEnd
  <2> QED BY <2>1, <2>2, <2>3, <2>4
<1>3. added = SubSeq(rows, k + 1, m)
  BY <1>1, <1>2 DEF PageOf
<1>4. /\ ids \in Seq(Workflows) /\ Len(ids) = k
      /\ \A i \in 1 .. Len(ids) : ids[i] = rows[i]
  BY <1>1, <1>2
<1>5. /\ added \in Seq(Workflows) /\ Len(added) = m - k
      /\ \A i \in 1 .. Len(added) : added[i] = rows[k + i]
  <2>0. k \in Nat /\ m \in Nat /\ m <= Len(rows) /\ k + 1 <= m /\ Len(rows) \in Nat
    BY <1>2
  <2>1. PICK j : j = k + 1
    OBVIOUS
  <2>2. j \in Nat \ {0} /\ j <= m /\ m - j + 1 = m - k /\ \A i \in Nat : j + i - 1 = k + i
    BY <2>0, <2>1
  <2>3. \A i \in j .. m : rows[i] \in Workflows
    BY <2>0, <2>2, MembersAre
  <2>4. /\ SubSeq(rows, j, m) \in Seq(Workflows) /\ Len(SubSeq(rows, j, m)) = m - j + 1
        /\ \A i \in 1 .. m - j + 1 : SubSeq(rows, j, m)[i] = rows[j + i - 1]
    BY <2>0, <2>2, <2>3, SubSeqProperties
  <2>5. added = SubSeq(rows, j, m)
    BY <1>3, <2>1
  <2>6. Len(added) = m - k
    BY <2>2, <2>4, <2>5
  <2>7. ASSUME NEW i \in 1 .. Len(added) PROVE added[i] = rows[k + i]
    <3>1. i \in 1 .. m - j + 1 /\ i \in Nat
      BY <2>0, <2>2, <2>6
    <3>2. SubSeq(rows, j, m)[i] = rows[j + i - 1] /\ j + i - 1 = k + i
      BY <2>2, <2>4, <3>1
    <3> QED BY <2>5, <3>2
  <2> QED BY <2>4, <2>5, <2>6, <2>7
<1>6. ASSUME NEW i \in 1 .. Len(added) PROVE added[i] \in Workflows \ ToSet(ids)
  <2>1. k + i \in DOMAIN rows /\ added[i] = rows[k + i]
    BY <1>2, <1>5
  <2>2. ASSUME added[i] \in ToSet(ids) PROVE FALSE
    <3>1. PICK j \in 1 .. Len(ids) : added[i] = ids[j]
      <4>1. ToSet(ids) = {ids[j] : j \in 1 .. Len(ids)}
        BY <1>4, MembersAre DEF ToSet
      <4> QED BY <2>2, <4>1
    <3>2. j \in DOMAIN rows /\ rows[j] = rows[k + i]
      BY <1>2, <1>4, <2>1, <3>1
    <3>3. j = k + i
      BY <2>1, <3>2 DEF IsInjective
    <3> QED BY <1>2, <1>4, <3>3
  <2> QED BY <2>1, <2>2, <1>5
<1>7. PICK kept : kept = Workflows \ ToSet(ids)
  OBVIOUS
<1>8. Filtered(added, kept) = added
  BY <1>5, <1>6, <1>7, AllKept
<1>9. SubSeq(rows, 1, k) \o SubSeq(rows, k + 1, m) = SubSeq(rows, 1, m)
  BY <1>2, PagesGrow
<1> QED BY <1>1, <1>3, <1>7, <1>8, <1>9

\* The server deletes what is on screen, or it is not.
LEMMA RowGone ==
    ASSUME NEW rows \in Seq(Workflows), IsInjective(rows), NEW ids \in Seq(Workflows), NEW gone, NEW whole, NEW n,
           NEW more, NEW count, Shows(ids, gone, whole, n, more, count, rows), IsFiniteSet(gone) \/ ~(gone \subseteq ToSet(ids)),
           NEW w \in Workflows, w \in gone => w \notin ToSet(rows)
    PROVE  Shows(ids, gone \cup {w}, FALSE, n, more, count, Filtered(rows, Workflows \ {w}))
<1> DEFINE less == Filtered(rows, Workflows \ {w})
<1> SUFFICES ASSUME gone \cup {w} \subseteq ToSet(ids)
             PROVE  /\ IsPrefix(Filtered(ids, Workflows \ (gone \cup {w})), less)
                    /\ count = Len(less) + Cardinality(gone \cup {w})
  BY DEF Shows
<1>1. PICK a, b, c : a = Workflows \ gone /\ b = Workflows \ {w} /\ c = Workflows \ (gone \cup {w})
  OBVIOUS
<1>2. c = a \cap b
  BY <1>1
<1>3. Filtered(Filtered(ids, a), b) = Filtered(ids, c)
  BY <1>2, FilteredTwice
<1>4. /\ IsPrefix(Filtered(ids, a), rows) /\ count = Len(rows) + Cardinality(gone)
      /\ IsFiniteSet(gone)
  BY <1>1 DEF Shows
<1>5. Filtered(ids, a) \in Seq(Workflows) /\ ToSet(Filtered(ids, a)) = ToSet(ids) \cap a
  BY FilteredKeeps, FilteredElements
<1>6. IsPrefix(Filtered(Filtered(ids, a), b), Filtered(rows, b))
  BY <1>4, <1>5, PrefixFiltered
<1>7. IsPrefix(Filtered(ids, c), less)
  BY <1>1, <1>3, <1>6
<1>8. Cardinality(gone) \in Nat /\ Cardinality(gone \cup {w}) = IF w \in gone THEN Cardinality(gone) ELSE Cardinality(gone) + 1
  BY <1>4, FS_AddElement, FS_CardinalityType
<1>9. Len(rows) \in Nat
  BY MembersAre
<1>10. CASE w \in gone
  <2>1. \A i \in 1 .. Len(rows) : rows[i] \in b
    BY <1>1, <1>10, MembersAre
  <2>2. Filtered(rows, b) = rows
    BY <2>1, AllKept
  <2> QED BY <1>1, <1>4, <1>7, <1>8, <1>9, <1>10, <2>2
<1>11. CASE w \notin gone
  <2>1. w \in ToSet(Filtered(ids, a))
    BY <1>1, <1>5, <1>11
  <2>2. w \in ToSet(rows)
    BY <1>4, <1>5, <2>1, PrefixIs
  <2>3. Len(less) = Len(rows) - 1
    BY <2>2, FilteredOnce
  <2> HIDE DEF less
  <2> QED BY <1>1, <1>4, <1>7, <1>8, <1>9, <1>11, <2>3
<1> QED BY <1>10, <1>11

\* The page is told of a deletion.
LEMMA CardGone ==
    ASSUME NEW rows \in Seq(Workflows), NEW ids \in Seq(Workflows), NEW gone, NEW whole, NEW n, NEW more, NEW count,
           Shows(ids, gone, whole, n, more, count, rows),
           NEW w \in gone, w \in ToSet(ids), NEW left, left = gone \/ left = gone \ {w}
    PROVE  Shows(Filtered(ids, Workflows \ {w}), left, FALSE, n, more, IF count > 0 THEN count - 1 ELSE 0, rows)
<1>1. PICK a, b : a = Workflows \ {w} /\ b = Filtered(ids, a)
  OBVIOUS
<1>2. b \in Seq(Workflows) /\ ToSet(b) = ToSet(ids) \cap a
  BY <1>1, FilteredKeeps, FilteredElements
<1> SUFFICES ASSUME left \subseteq ToSet(b)
             PROVE  /\ IsPrefix(Filtered(b, Workflows \ left), rows)
                    /\ (IF count > 0 THEN count - 1 ELSE 0) = Len(rows) + Cardinality(left)
  BY <1>1 DEF Shows
<1>3. w \notin left /\ left = gone \ {w} /\ gone \subseteq ToSet(ids)
  BY <1>1, <1>2
<1>4. IsPrefix(Filtered(ids, Workflows \ gone), rows) /\ count = Len(rows) + Cardinality(gone)
  BY <1>3 DEF Shows
<1>5. PICK c, d : c = Workflows \ gone /\ d = Workflows \ left
  OBVIOUS
<1>6. a \cap d = c
  BY <1>1, <1>3, <1>5
<1>7. Filtered(b, d) = Filtered(ids, c)
  BY <1>1, <1>6, FilteredTwice
<1>8. IsFiniteSet(ToSet(ids))
  BY InjectiveLength
<1>9. IsFiniteSet(gone) /\ Cardinality(gone) \in Nat
  BY <1>3, <1>8, FS_Subset, FS_CardinalityType
<1>10. Cardinality(left) = Cardinality(gone) - 1 /\ Cardinality(left) \in Nat
  BY <1>3, <1>9, FS_RemoveElement, FS_CardinalityType
<1>11. Len(rows) \in Nat
  BY MembersAre
<1>12. (IF count > 0 THEN count - 1 ELSE 0) = Len(rows) + Cardinality(left)
  BY <1>4, <1>9, <1>10, <1>11
<1> QED BY <1>4, <1>5, <1>7, <1>12

LEMMA SameMatching ==
    ASSUME NEW f, stored' = stored, f.never => \A w \in Workflows : ExecutionStats(w)'.total = ExecutionStats(w).total
    PROVE  Matching(f)' = Matching(f)
<1>1. \A w \in Workflows : Selects(f, w)' = Selects(f, w)
  BY DEF Selects
<1>2. {w \in Workflows : Selects(f, w)'} = {w \in Workflows : Selects(f, w)}
  BY <1>1
<1>3. Matching(f)' = Filtered(stored', {w \in Workflows : Selects(f, w)'})
  BY DEF Matching
<1> QED BY <1>2, <1>3 DEF Matching

LEMMA SameDeleted ==
    ASSUME \A k \in Removals : removal'[k].step = "done" \/ removal[k].step = "done" => removal'[k] = removal[k]
    PROVE  Deleted' = Deleted
<1>1. \A k \in Removals : (removal'[k].step = "done" <=> removal[k].step = "done")
  OBVIOUS
<1>2. \A w : w \in Deleted' <=> \E k \in Removals : removal'[k].step = "done" /\ w = removal'[k].of
  BY DEF Deleted
<1>3. \A w : w \in Deleted <=> \E k \in Removals : removal[k].step = "done" /\ w = removal[k].of
  BY DEF Deleted
<1> QED BY <1>1, <1>2, <1>3

pagingVars == <<route, total, hasMore, page, listed, load, cut>>
SameRows(f) == Matching(f)' = Matching(f)

LEMMA PagingKept ==
    ASSUME ListTyped, ListPaging, UNCHANGED pagingVars, Ids(workflows') = Ids(workflows), Deleted' = Deleted,
           ~shifted' => ~shifted /\ \A f \in Filters : f = listed \/ f = load.filters => SameRows(f)
    PROVE  ListPaging'
<1>1. LoadAsks'
  BY DEF ListPaging, LoadAsks, Idle, pagingVars
<1>2. ASSUME ~shifted' PROVE Paged'
  <2>1. Paged /\ \A f \in Filters : f = listed \/ f = load.filters => Matching(f)' = Matching(f)
    BY <1>2 DEF ListPaging, SameRows
  <2>2. FirstPageComes' /\ (Deleted' # {} => cut')
    BY <2>1 DEF Paged, FirstPageComes, Idle, pagingVars
  <2>3. ListShown'
    <3>1. CASE listed = None
      BY <3>1 DEF ListShown, pagingVars
    <3>2. CASE listed # None
      <4>1. PICK f \in Filters : f = listed
        BY <3>2 DEF ListTyped, CardsTyped
      <4>2. Matching(f)' = Matching(f) /\ listed' = f
        BY <2>1, <4>1 DEF pagingVars
      <4>3. PICK ids, gone, rows : ids = Ids(workflows) /\ gone = Deleted /\ rows = Matching(f)
        OBVIOUS
      <4>4. Idle \/ load.append => (page > 0 => Shows(ids, gone, ~cut, page, hasMore, total, rows))
        BY <2>1, <4>1, <4>3, <3>2 DEF Paged, ListShown
      <4>5. Idle' \/ load'.append => (page' > 0 => Shows(ids, gone, ~cut', page', hasMore', total', rows))
        BY <4>4 DEF pagingVars, Idle
      <4> QED BY <4>2, <4>3, <4>5 DEF ListShown
    <3> QED BY <3>1, <3>2
  <2>4. LoadSaw(Matching(load.filters))'
    <3>1. PICK f \in Filters : f = load.filters
      BY ListParts
    <3>2. Matching(f)' = Matching(f) /\ load'.filters = f
      BY <2>1, <3>1 DEF pagingVars
    <3>3. LoadSaw(Matching(f))
      BY <2>1, <3>1 DEF Paged
    <3> QED BY <3>2, <3>3 DEF LoadSaw, pagingVars
  <2> QED BY <2>1, <2>2, <2>3, <2>4 DEF Paged
<1> QED BY <1>1, <1>2 DEF ListPaging

\* The list that a load finds on screen stays there.
LEMMA ShownKept ==
    ASSUME ListTyped, ListShown, Idle \/ load.append,
           UNCHANGED <<total, hasMore, page, listed, stored, run, workflows, removal, cut>>
    PROVE  ListShown'
<1>1. CASE listed = None
  BY <1>1 DEF ListShown
<1>2. CASE listed # None
  <2>1. PICK f \in Filters : f = listed
    BY <1>2 DEF ListTyped, CardsTyped
  <2>2. Matching(f)' = Matching(f) /\ listed' = f
    BY <2>1, SameMatching DEF ExecutionStats, Having
  <2>3. PICK ids, gone, rows : ids = Ids(workflows) /\ gone = Deleted /\ rows = Matching(f)
    OBVIOUS
  <2>4. page > 0 => Shows(ids, gone, ~cut, page, hasMore, total, rows)
    BY <1>2, <2>1, <2>3 DEF ListShown
  <2>5. page' > 0 => Shows(ids, gone, ~cut', page', hasMore', total', rows)
    BY <2>4
  <2>6. Ids(workflows)' = ids /\ Deleted' = gone
    BY <2>3 DEF Deleted
  <2> QED BY <2>2, <2>3, <2>5, <2>6 DEF ListShown
<1> QED BY <1>1, <1>2

LEMMA PagingLoads ==
    ASSUME ListTyped, ListKnown, ListPaging, route = "workflows", route' = route,
           \/ \E f \in Filters : ApplyFilters(f)
           \/ HandleScroll \/ CountRows \/ SelectRows \/ ListLoadFails
    PROVE  ListPaging'
<1>0. /\ load.step \in LoadSteps /\ load.page \in Nat \ {0} /\ load.append \in BOOLEAN /\ load.filters \in Filters
      /\ load.total \in Nat /\ load.items \in Seq(Cards) /\ page \in Nat
      /\ load = [step |-> load.step, page |-> load.page, append |-> load.append, filters |-> load.filters,
                 total |-> load.total, items |-> load.items]
  BY ListParts DEF ListTyped, CardsTyped
<1>9. LoadAsks /\ (~shifted => Paged)
  BY DEF ListPaging
<1>10. ASSUME UNCHANGED <<run, stored>>, NEW f PROVE Matching(f)' = Matching(f)
  BY <1>10, SameMatching DEF ExecutionStats, Having
<1>11. removal' = removal => Deleted' = Deleted
  BY DEF Deleted
<1>1. ASSUME NEW f \in Filters, ApplyFilters(f) PROVE ListPaging'
  <2>1. /\ load' = IF Idle THEN LoadOf(1, FALSE, f) ELSE load
        /\ UNCHANGED <<stored, run, workflows, removal, total, hasMore, page, listed, shifted, cut>>
    BY <1>1 DEF ApplyFilters, LoadPage, Idle, rowVars, collection, doubtVars
  <2>2. CASE Idle
    <3>1. PICK one \in Nat \ {0} : one = 1
      OBVIOUS
    <3>2. load' = [step |-> "count", page |-> 1, append |-> FALSE, filters |-> f, total |-> 0, items |-> <<>>]
      BY <2>1, <2>2, <3>1, ListBlanks
    <3>3. load'.step = "count" /\ load'.page = 1 /\ load'.append = FALSE
      BY <3>2
    <3>4. LoadAsks'
      BY <3>3 DEF LoadAsks, Idle
    <3>5. ASSUME ~shifted' PROVE Paged'
      <4>1. Deleted' # {} => cut'
        BY <1>9, <1>11, <2>1, <3>5 DEF Paged
      <4> QED BY <3>3, <4>1 DEF Paged, FirstPageComes, ListShown, LoadSaw, Idle
    <3> QED BY <3>4, <3>5 DEF ListPaging
  <2>3. CASE ~Idle
    <3>1. UNCHANGED pagingVars
      BY <2>1, <2>3 DEF pagingVars
    <3>2. \A g \in Filters : SameRows(g)
      BY <1>10, <2>1 DEF SameRows
    <3> QED BY <1>11, <2>1, <3>1, <3>2, PagingKept
  <2> QED BY <2>2, <2>3
<1>2. CASE HandleScroll
  <2>1. /\ Idle /\ hasMore /\ load' = LoadOf(page + 1, TRUE, filters)
        /\ UNCHANGED <<stored, run, workflows, removal, total, hasMore, page, listed, shifted, cut>>
    BY <1>2 DEF HandleScroll, LoadPage, Idle, rowVars, collection, cardVars, doubtVars
  <2>2. page + 1 \in Nat \ {0} /\ filters \in Filters
    BY DEF ListTyped, CardsTyped
  <2>3. load' = [step |-> "count", page |-> page + 1, append |-> TRUE, filters |-> filters, total |-> 0, items |-> <<>>]
    BY <2>1, <2>2, ListBlanks
  <2>4. load'.step = "count" /\ load'.page = page + 1 /\ load'.append = TRUE
    BY <2>3
  <2>5. LoadAsks'
    BY <2>1, <2>4 DEF LoadAsks, Idle
  <2>6. ASSUME ~shifted' PROVE Paged'
    <3>1. Paged
      BY <1>9, <2>1, <2>6
    <3>2. Deleted' # {} => cut'
      BY <1>11, <2>1, <3>1 DEF Paged
    <3>3. FirstPageComes'
      BY <2>1, <3>1 DEF Paged, FirstPageComes
    <3>4. ListShown'
      BY <2>1, <3>1, ShownKept DEF Paged
    <3> QED BY <2>4, <3>2, <3>3, <3>4 DEF Paged, LoadSaw
  <2> QED BY <2>5, <2>6 DEF ListPaging
<1>3. CASE CountRows
  <2>1. /\ load.step = "count" /\ load' = [load EXCEPT !.step = "select", !.total = Len(Matching(load.filters))]
        /\ IF load.append THEN UNCHANGED <<shifted, cut>>
           ELSE shifted' = (\E k \in Removals : removal[k].step = "done") /\ cut' = FALSE
        /\ UNCHANGED <<stored, run, workflows, removal, total, hasMore, page, listed>>
    BY <1>3 DEF CountRows, rowVars, collection, cardVars
  <2>2. PICK f : f = load.filters
    OBVIOUS
  <2>3. PICK n : n = Len(Matching(f))
    OBVIOUS
  <2>4. /\ load'.step = "select" /\ load'.page = load.page /\ load'.append = load.append /\ load'.filters = f
        /\ load'.total = n
    BY <1>0, <2>1, <2>2, <2>3
  <2>5. LoadAsks'
    BY <1>9, <2>1, <2>4 DEF LoadAsks, Idle
  <2>6. Matching(load.filters)' = Matching(f)
    BY <1>10, <2>1, <2>4
  <2>7. ASSUME ~shifted' PROVE Paged'
    <3>1. CASE load.append
      <4>1. Paged
        BY <1>9, <2>1, <2>7, <3>1
      <4>2. Deleted' # {} => cut'
        BY <1>11, <2>1, <3>1, <4>1 DEF Paged
      <4>3. FirstPageComes'
        BY <2>1, <3>1, <4>1 DEF Paged, FirstPageComes
      <4>4. ListShown'
        BY <2>1, <3>1, <4>1, ShownKept DEF Paged
      <4>5. LoadSaw(Matching(load.filters))'
        BY <2>3, <2>4, <2>6, <3>1 DEF LoadSaw
      <4> QED BY <4>2, <4>3, <4>4, <4>5 DEF Paged
    <3>2. CASE ~load.append
      <4>1. Deleted = {} /\ cut' = FALSE
        BY <2>1, <2>7, <3>2 DEF Deleted
      <4>2. Deleted' = {} /\ ~Idle' /\ ~load'.append
        BY <1>11, <2>1, <2>4, <3>2, <4>1 DEF Idle
      <4>3. LoadSaw(Matching(load.filters))'
        BY <2>3, <2>4, <2>6, <4>1 DEF LoadSaw
      <4> QED BY <4>2, <4>3 DEF Paged, FirstPageComes, ListShown
    <3> QED BY <3>1, <3>2
  <2> QED BY <2>5, <2>7 DEF ListPaging
<1>4. CASE SelectRows
  <2>1. PICK part : /\ part = SubSeq(Matching(load.filters), (load.page - 1) * PageSize + 1,
                                     IF load.page * PageSize < Len(Matching(load.filters)) THEN load.page * PageSize
                                     ELSE Len(Matching(load.filters)))
                    /\ load' = [load EXCEPT !.step = "answer", !.items = [i \in DOMAIN part |-> Card(part[i])]]
    BY <1>4 DEF SelectRows
  <2>2. /\ load.step = "select" /\ shifted' = (shifted \/ (load.append /\ cut))
        /\ UNCHANGED <<stored, run, workflows, removal, total, hasMore, page, listed, cut>>
    BY <1>4 DEF SelectRows, rowVars, collection, cardVars
  <2>3. PICK f : f = load.filters
    OBVIOUS
  <2>4. PICK rows, m : rows = Matching(f) /\ m = load.page
    OBVIOUS
  <2>5. rows \in Seq(Workflows) /\ Len(rows) \in Nat /\ m \in Nat \ {0}
    BY <1>0, <2>4, MatchingIs DEF ListTyped
  <2>6. part = PageOf(m, rows)
    BY <2>1, <2>3, <2>4 DEF PageOf, PageEnd
  <2>7. part \in Seq(Workflows)
    <3>1. PICK a, b : a = (m - 1) * PageSize + 1 /\ b = PageEnd(m, rows)
      OBVIOUS
    <3>2. m - 1 \in Nat /\ b \in Nat /\ b <= Len(rows)
      BY <2>5, <3>1, PageEndIs
    <3>3. a \in Nat \ {0}
      <4>1. PICK j \in Nat : j = m - 1
        BY <3>2
      <4>2. j * PageSize \in Nat
        BY PageEndIs, <2>5
      <4> QED BY <3>1, <4>1, <4>2
    <3>4. part = SubSeq(rows, a, b)
      BY <2>6, <3>1 DEF PageOf
    <3> QED BY <2>5, <3>2, <3>3, <3>4, PartMembers
  <2>8. PICK cards : cards = [i \in DOMAIN part |-> Card(part[i])]
    OBVIOUS
  <2>9. Ids(cards) = part
    BY <2>7, <2>8, CardsOf
  <2>10. /\ load'.step = "answer" /\ load'.page = m /\ load'.append = load.append /\ load'.filters = f
         /\ load'.total = load.total /\ load'.items = cards
    BY <1>0, <2>1, <2>3, <2>4, <2>8
  <2>11. LoadAsks'
    BY <1>9, <2>2, <2>4, <2>10 DEF LoadAsks, Idle
  <2>12. Matching(load.filters)' = rows
    BY <1>10, <2>2, <2>4, <2>10
  <2>13. ASSUME ~shifted' PROVE Paged'
    <3>1. Paged /\ ~(load.append /\ cut)
      BY <1>9, <2>2, <2>13
    <3>2. Deleted' # {} => cut'
      BY <1>11, <2>2, <3>1 DEF Paged
    <3>3. FirstPageComes'
      BY <2>2, <2>10, <3>1 DEF Paged, FirstPageComes, Idle
    <3>4. ListShown'
      <4>1. CASE load.append
        BY <2>2, <3>1, <4>1, ShownKept DEF Paged
      <4>2. CASE ~load.append
        BY <2>10, <4>2 DEF ListShown, Idle
      <4> QED BY <4>1, <4>2
    <3>5. LoadSaw(rows)
      BY <2>3, <2>4, <3>1 DEF Paged
    <3>6. load.total = Len(rows) /\ ~cut
      BY <2>2, <3>1, <3>5 DEF LoadSaw
    <3>7. Ids(load.items)' = PageOf(m, rows)
      BY <2>6, <2>9, <2>10
    <3>8. LoadSaw(Matching(load.filters))'
      BY <2>2, <2>10, <2>12, <3>6, <3>7 DEF LoadSaw
    <3> QED BY <3>2, <3>3, <3>4, <3>8 DEF Paged
  <2> QED BY <2>11, <2>13 DEF ListPaging
<1>5. CASE ListLoadFails
  <2>1. /\ ~Idle /\ load' = NoLoad /\ shifted' = (shifted \/ ~load.append)
        /\ UNCHANGED <<stored, run, workflows, removal, total, hasMore, page, listed, cut>>
    BY <1>5 DEF ListLoadFails, Idle, rowVars, collection, cardVars
  <2>2. load'.step = "idle"
    BY <2>1, ListBlanks
  <2>3. LoadAsks'
    BY <2>1, <2>2 DEF LoadAsks, Idle
  <2>4. ASSUME ~shifted' PROVE Paged'
    <3>1. Paged /\ load.append
      BY <1>9, <2>1, <2>4
    <3>2. Deleted' # {} => cut'
      BY <1>11, <2>1, <3>1 DEF Paged
    <3>3. FirstPageComes'
      BY <2>1, <3>1 DEF Paged, FirstPageComes
    <3>4. ListShown'
      BY <2>1, <3>1, ShownKept DEF Paged
    <3> QED BY <2>2, <3>2, <3>3, <3>4 DEF Paged, LoadSaw
  <2> QED BY <2>3, <2>4 DEF ListPaging
<1> QED BY <1>1, <1>2, <1>3, <1>4, <1>5

LEMMA PagingAnswer ==
    ASSUME ListTyped, ListKnown, ListPaging, route = "workflows", route' = route, ListAnswer
    PROVE  ListPaging'
<1>0. /\ load.page \in Nat \ {0} /\ load.append \in BOOLEAN /\ load.filters \in Filters
      /\ load.items \in Seq(Cards) /\ page \in Nat /\ workflows \in Seq(Cards) /\ None \notin Filters
  BY ListParts DEF ListTyped, CardsTyped
<1>1. /\ load.step = "answer"
      /\ page' = load.page /\ total' = load.total /\ hasMore' = (load.page * PageSize < load.total)
      /\ load' = NoLoad
      /\ IF load.append
         THEN /\ workflows' = workflows \o But(load.items, ToSet(Ids(workflows)))
              /\ listed' = IF load.filters = listed THEN listed ELSE None
         ELSE workflows' = load.items /\ listed' = load.filters
      /\ UNCHANGED <<stored, run, removal, shifted, cut>>
  BY DEF ListAnswer, rowVars, collection
<1>2. load'.step = "idle"
  BY <1>1, ListBlanks
<1>3. LoadAsks'
  BY <1>2 DEF LoadAsks, Idle
<1>4. ASSUME ~shifted' PROVE Paged'
  <2>1. Paged /\ LoadAsks
    BY <1>1, <1>4 DEF ListPaging
  <2>2. PICK f, rows, m : f = load.filters /\ rows = Matching(f) /\ m = load.page
    OBVIOUS
  <2>3. rows \in Seq(Workflows) /\ IsInjective(rows) /\ m \in Nat \ {0} /\ f \in Filters
    BY <1>0, <2>2, MatchingIs DEF ListTyped, ListKnown
  <2>4. load.total = Len(rows) /\ ~cut /\ Ids(load.items) = PageOf(m, rows)
    BY <1>1, <2>1, <2>2 DEF Paged, LoadSaw
  <2>5. Deleted = {} /\ Deleted' = {}
    BY <1>1, <2>1, <2>4 DEF Paged, Deleted
  <2>6. Matching(f)' = rows
    BY <1>1, <2>2, SameMatching DEF ExecutionStats, Having
  <2>7. /\ page' = m /\ total' = Len(rows) /\ hasMore' = (m * PageSize < Len(rows)) /\ ~cut'
    BY <1>1, <2>2, <2>4
  <2>8. listed' # None => listed' = f /\ Ids(workflows') = SubSeq(rows, 1, PageEnd(m, rows))
    <3>1. CASE load.append
      <4>1. SUFFICES ASSUME listed' # None PROVE listed' = f /\ Ids(workflows') = SubSeq(rows, 1, PageEnd(m, rows))
        OBVIOUS
      <4>2. listed = f /\ listed # None /\ listed' = f
        BY <1>0, <1>1, <2>2, <3>1, <4>1
      <4>3. page > 0 /\ m = page + 1 /\ hasMore
        BY <1>1, <2>1, <2>2, <3>1 DEF Paged, FirstPageComes, LoadAsks, Idle
      <4>4. PICK n, ids : n = page /\ n \in Nat /\ ids = Ids(workflows)
        BY <1>0
      <4>5. Shows(ids, {}, ~cut, n, hasMore, total, rows)
        BY <2>1, <2>2, <2>5, <3>1, <4>2, <4>3, <4>4 DEF Paged, ListShown
      <4>6. ids = SubSeq(rows, 1, PageEnd(n, rows)) /\ n * PageSize < Len(rows)
        BY <2>4, <4>3, <4>5 DEF Shows
      <4>7. PICK added, there : added = Ids(load.items) /\ there = ToSet(ids)
        OBVIOUS
      <4>8. added = PageOf(n + 1, rows)
        BY <2>4, <4>3, <4>4, <4>7
      <4>9. ids \o Filtered(added, Workflows \ ToSet(ids)) = SubSeq(rows, 1, PageEnd(n + 1, rows))
        BY <2>3, <4>4, <4>6, <4>8, GrownPages
      <4>10. PICK a, b : a = workflows /\ b = But(load.items, there)
        OBVIOUS
      <4>11. a \in Seq(Cards) /\ b \in Seq(Cards) /\ Ids(b) = Filtered(added, Workflows \ there)
        BY <1>0, <4>7, <4>10, ButIs
      <4>12. Ids(a \o b) = Ids(a) \o Ids(b)
        BY <4>11, IdsConcat
      <4>13. workflows' = a \o b
        BY <1>1, <3>1, <4>4, <4>7, <4>10
      <4>14. Ids(workflows') = ids \o Filtered(added, Workflows \ ToSet(ids))
        BY <4>4, <4>7, <4>10, <4>11, <4>12, <4>13
      <4> QED BY <4>2, <4>3, <4>4, <4>9, <4>14
    <3>2. CASE ~load.append
      <4>1. listed' = f /\ workflows' = load.items /\ m = 1
        BY <1>1, <2>1, <2>2, <3>2 DEF LoadAsks, Idle
      <4>2. (1 - 1) * PageSize + 1 = 1
        BY <2>3, PageEndIs
      <4>3. PageOf(1, rows) = SubSeq(rows, 1, PageEnd(1, rows))
        BY <4>2 DEF PageOf
      <4> QED BY <2>4, <4>1, <4>3
    <3> QED BY <3>1, <3>2
  <2>9. ListShown'
    <3>1. SUFFICES ASSUME listed' # None PROVE ListShown'
      BY DEF ListShown
    <3>2. PICK ids, more, count : ids = Ids(workflows') /\ more = hasMore' /\ count = total'
      OBVIOUS
    <3>3. ids = SubSeq(rows, 1, PageEnd(m, rows)) /\ more = (m * PageSize < Len(rows)) /\ count = Len(rows) /\ listed' = f
      BY <2>7, <2>8, <3>1, <3>2
    <3>4. m \in Nat
      BY <2>3
    <3>5. \A whole : Shows(ids, {}, whole, m, more, count, rows)
      BY <2>3, <3>3, <3>4, FreshShows
    <3> QED BY <2>5, <2>6, <2>7, <3>2, <3>3, <3>5 DEF ListShown
  <2>10. FirstPageComes'
    BY <2>3, <2>7 DEF FirstPageComes
  <2> QED BY <1>2, <2>5, <2>9, <2>10 DEF Paged, LoadSaw
<1> QED BY <1>3, <1>4 DEF ListPaging

LEMMA PagingDeletes ==
    ASSUME ListTyped, ListKnown, ListPaging, route = "workflows", route' = route, NEW k \in Removals,
           DeleteRow(k) \/ DeleteAnswer(k)
    PROVE  ListPaging'
<1>0. /\ \A j \in Removals : removal[j] = NoRemoval \/ removal[j] \in [step : {"sent", "done"}, of : Workflows]
      /\ removal \in [Removals -> DeleteRequests] /\ None \notin Workflows /\ workflows \in Seq(Cards)
      /\ stored \in Seq(Workflows)
  BY ListParts DEF ListTyped, CardsTyped
<1>9. NoRemoval = [step |-> "idle", of |-> None]
  BY DEF NoRemoval
<1>10. LoadAsks /\ (~shifted => Paged)
  BY DEF ListPaging
<1>11. PICK ids : ids = Ids(workflows)
  OBVIOUS
<1>12. ids \in Seq(Workflows)
  BY <1>0, <1>11, IdsAre
<1>1. CASE DeleteRow(k)
  <2>1. PICK w : w = removal[k].of
    OBVIOUS
  <2>2. /\ removal[k].step = "sent" /\ stored' = Filtered(stored, Workflows \ {w})
        /\ removal' = [removal EXCEPT ![k].step = "done"]
        /\ shifted' = (shifted \/ load.step # "idle") /\ cut' = TRUE
        /\ UNCHANGED <<run, workflows, total, hasMore, page, listed, load>>
    BY <1>1, <2>1 DEF DeleteRow, cardVars
  <2>3. w \in Workflows /\ removal'[k].step = "done" /\ removal'[k].of = w /\ \A j \in Removals \ {k} : removal'[j] = removal[j]
    BY <1>0, <1>9, <2>1, <2>2
  <2>4. Deleted' = Deleted \cup {w}
    <3>1. \A v : v \in Deleted' <=> \E j \in Removals : removal'[j].step = "done" /\ v = removal'[j].of
      BY DEF Deleted
    <3>2. \A v : v \in Deleted <=> \E j \in Removals : removal[j].step = "done" /\ v = removal[j].of
      BY DEF Deleted
    <3> QED BY <2>2, <2>3, <3>1, <3>2
  <2>5. LoadAsks'
    BY <1>10, <2>2 DEF LoadAsks, Idle
  <2>6. ASSUME ~shifted' PROVE Paged'
    <3>1. Paged /\ Idle /\ Idle'
      BY <1>10, <2>2, <2>6 DEF Idle
    <3>2. FirstPageComes'
      BY <2>2, <3>1 DEF Paged, FirstPageComes
    <3>3. SUFFICES ASSUME page > 0, listed # None PROVE ListShown'
      BY <2>2, <3>1, <3>2 DEF Paged, ListShown, LoadSaw, Idle
    <3>4. PICK f \in Filters : f = listed
      BY <3>3 DEF ListTyped, CardsTyped
    <3>5. PICK rows, gone, kept : rows = Matching(f) /\ gone = Deleted /\ kept = Workflows \ {w}
      OBVIOUS
    <3>6. rows \in Seq(Workflows) /\ IsInjective(rows) /\ ToSet(rows) \subseteq ToSet(stored)
      BY <1>0, <3>5, MatchingIs DEF ListKnown
    <3>7. Shows(ids, gone, ~cut, page, hasMore, total, rows)
      BY <1>11, <3>1, <3>3, <3>4, <3>5 DEF Paged, ListShown
    <3>8. IsFiniteSet(gone) \/ ~(gone \subseteq ToSet(ids))
      BY <1>12, InjectiveLength, FS_Subset
    <3>9. w \in gone => w \notin ToSet(rows)
      BY <3>5, <3>6 DEF ListKnown, Deleted
    <3>10. Shows(ids, gone \cup {w}, FALSE, page, hasMore, total, Filtered(rows, Workflows \ {w}))
      <4>1. PICK n, more, count, whole : n = page /\ more = hasMore /\ count = total /\ whole = ~cut
        OBVIOUS
      <4>2. Shows(ids, gone, whole, n, more, count, rows)
        BY <3>7, <4>1
      <4> QED BY <1>12, <2>3, <3>6, <3>8, <3>9, <4>1, <4>2, RowGone
    <3>11. Matching(f)' = Filtered(rows, kept)
      <4>1. PICK sel : sel = {v \in Workflows : Selects(f, v)}
        OBVIOUS
      <4>2. {v \in Workflows : Selects(f, v)'} = sel
        BY <2>2, <4>1 DEF Selects, ExecutionStats, Having
      <4>3. PICK old, both : old = stored /\ both = kept \cap sel
        OBVIOUS
      <4>4. Matching(f)' = Filtered(Filtered(old, kept), sel) /\ rows = Filtered(old, sel)
        BY <2>2, <3>5, <4>1, <4>2, <4>3 DEF Matching
      <4>5. Filtered(Filtered(old, kept), sel) = Filtered(old, kept \cap sel)
        BY <1>0, <4>3, FilteredTwice
      <4>6. Filtered(Filtered(old, sel), kept) = Filtered(old, sel \cap kept)
        BY <1>0, <4>3, FilteredTwice
      <4>7. sel \cap kept = kept \cap sel
        OBVIOUS
      <4> QED BY <4>4, <4>5, <4>6, <4>7
    <3>12. PICK less : less = Filtered(rows, kept)
      OBVIOUS
    <3>13. Shows(ids, gone \cup {w}, FALSE, page, hasMore, total, less)
      BY <3>5, <3>10, <3>12
    <3>14. Matching(listed)' = less /\ Deleted' = gone \cup {w} /\ Ids(workflows)' = ids /\ cut' = TRUE
      BY <1>11, <2>2, <2>4, <3>4, <3>5, <3>11, <3>12
    <3>15. (~cut') = FALSE
      BY <3>14
    <3> QED BY <2>2, <3>13, <3>14, <3>15 DEF ListShown
  <2> QED BY <2>5, <2>6 DEF ListPaging
<1>2. CASE DeleteAnswer(k)
  <2>1. PICK w : w = removal[k].of
    OBVIOUS
  <2>2. /\ removal[k].step = "done" /\ shifted' = (shifted \/ w \notin ToSet(Ids(workflows)))
        /\ workflows' = But(workflows, {w}) /\ total' = IF total > 0 THEN total - 1 ELSE 0
        /\ removal' = [removal EXCEPT ![k] = [step |-> "idle", of |-> None]]
        /\ UNCHANGED <<stored, run, hasMore, page, listed, load, cut>>
    BY <1>2, <2>1 DEF DeleteAnswer, rowVars, collection
  <2>3. w \in Deleted
    BY <2>1, <2>2 DEF Deleted
  <2>4. Deleted' = Deleted \/ Deleted' = Deleted \ {w}
    <3>1. \A v : v \in Deleted' <=> \E j \in Removals : removal'[j].step = "done" /\ v = removal'[j].of
      BY DEF Deleted
    <3>2. \A v : v \in Deleted <=> \E j \in Removals : removal[j].step = "done" /\ v = removal[j].of
      BY DEF Deleted
    <3>3. /\ removal'[k].step = "idle" /\ \A j \in Removals \ {k} : removal'[j] = removal[j]
      BY <1>0, <2>2
    <3>4. \A v : v # w => (v \in Deleted' <=> v \in Deleted)
      BY <2>1, <3>1, <3>2, <3>3
    <3>5. w \in Deleted' \/ w \notin Deleted'
      OBVIOUS
    <3> QED BY <2>3, <3>4, <3>5
  <2>5. LoadAsks'
    BY <1>10, <2>2 DEF LoadAsks, Idle
  <2>6. ASSUME ~shifted' PROVE Paged'
    <3>1. Paged /\ w \in ToSet(ids) /\ cut
      BY <1>10, <1>11, <2>2, <2>3, <2>6 DEF Paged
    <3>2. FirstPageComes'
      BY <2>2, <3>1 DEF Paged, FirstPageComes, Idle
    <3>3. LoadSaw(Matching(load.filters))'
      <4>1. PICK f \in Filters : f = load.filters
        BY ListParts
      <4>2. Matching(f)' = Matching(f)
        BY <2>2, SameMatching DEF ExecutionStats, Having
      <4>3. LoadSaw(Matching(f))
        BY <3>1, <4>1 DEF Paged
      <4> QED BY <2>2, <4>1, <4>2, <4>3 DEF LoadSaw
    <3>4. SUFFICES ASSUME Idle \/ load.append, page > 0, listed # None PROVE ListShown'
      BY <2>2, <3>1, <3>2, <3>3 DEF Paged, ListShown, Idle
    <3>5. PICK f \in Filters : f = listed
      BY <3>4 DEF ListTyped, CardsTyped
    <3>6. PICK rows, gone, left, n, more, count, whole :
             /\ rows = Matching(f) /\ gone = Deleted /\ left = Deleted' /\ n = page /\ more = hasMore /\ count = total
             /\ whole = ~cut
      OBVIOUS
    <3>7. rows \in Seq(Workflows)
      BY <1>0, <3>6, MatchingIs
    <3>8. Shows(ids, gone, whole, n, more, count, rows)
      BY <1>11, <3>1, <3>4, <3>5, <3>6 DEF Paged, ListShown
    <3>9. Shows(Filtered(ids, Workflows \ {w}), left, FALSE, n, more, IF count > 0 THEN count - 1 ELSE 0, rows)
      BY <1>12, <2>3, <2>4, <3>1, <3>6, <3>7, <3>8, CardGone
    <3>10. Matching(f)' = rows
      BY <2>2, <3>6, SameMatching DEF ExecutionStats, Having
    <3>11. PICK kept, fewer : kept = Filtered(ids, Workflows \ {w}) /\ fewer = IF count > 0 THEN count - 1 ELSE 0
      OBVIOUS
    <3>12. Shows(kept, left, FALSE, n, more, fewer, rows)
      BY <3>9, <3>11
    <3>13. Ids(workflows)' = kept
      BY <1>0, <1>11, <2>2, <3>11, ButIs
    <3>14. total' = fewer /\ page' = n /\ hasMore' = more /\ listed' = f /\ Deleted' = left
      BY <2>2, <3>5, <3>6, <3>11
    <3>15. (~cut') = FALSE
      <4>1. cut \in BOOLEAN
        BY DEF ListTyped
      <4>2. cut = TRUE
        BY <3>1, <4>1
      <4>3. cut' = TRUE
        BY <2>2, <4>2
      <4> QED BY <4>3
    <3>16. Matching(listed)' = rows
      BY <3>10, <3>14
    <3> QED BY <3>12, <3>13, <3>14, <3>15, <3>16 DEF ListShown
  <2> QED BY <2>5, <2>6 DEF ListPaging
<1> QED BY <1>1, <1>2

\* How the executions go on.
Becomes(r, w, row, stage) == run' = [run EXCEPT ![r] = [of |-> w, row |-> row, stage |-> stage]]
Was(r, w, row, stage) == run[r] = [of |-> w, row |-> row, stage |-> stage]
Said(w, type, status) == stream' = Append(stream, [of |-> w, type |-> type, status |-> status])

LEMMA RunParts ==
    ASSUME ListTyped, NEW r \in Runs
    PROVE  \E w, row, stage : /\ run[r] = [of |-> w, row |-> row, stage |-> stage]
                              /\ w = run[r].of /\ row = run[r].row /\ stage = run[r].stage
                              /\ stage = "new" => w = None /\ row = "none"
                              /\ stage \in {"created", "started"} => row = "running"
                              /\ stage = "ended" => row \in EndRows
                              /\ stage = "over" => row \in {"running"} \cup EndRows
                              /\ stage # "new" => w \in Workflows
<1>1. PICK w, row, stage : run[r] = [of |-> w, row |-> row, stage |-> stage]
  BY RunIs
<1>2. w = run[r].of /\ row = run[r].row /\ stage = run[r].stage
  BY <1>1
<1>3. /\ stage = "new" => w = None /\ row = "none"
      /\ stage \in {"created", "started"} => row = "running"
      /\ stage = "ended" => row \in EndRows
      /\ stage = "over" => row \in {"running"} \cup EndRows
      /\ stage # "new" => w \in Workflows
  BY <1>2, RunIs
<1> QED BY <1>1, <1>2, <1>3

LEMMA RunsGo ==
    ASSUME ListTyped, NEW r \in Runs
    PROVE  /\ \A w \in Workflows : RunStarts(r, w) =>
                 Was(r, None, "none", "new") /\ Becomes(r, w, "running", "created") /\ stream' = stream
           /\ ExpansionFails(r) => \E w \in Workflows :
                 Was(r, w, "running", "created") /\ Becomes(r, w, "failed", "over") /\ Said(w, "completed", "failed")
                 /\ Silently(w)
           /\ SayStarted(r) => \E w \in Workflows :
                 Was(r, w, "running", "created") /\ Becomes(r, w, "running", "started") /\ Said(w, "started", "running")
           /\ \A row \in EndRows : RunEnds(r, row) => \E w \in Workflows :
                 Was(r, w, "running", "started") /\ Becomes(r, w, row, "ended") /\ stream' = stream
           /\ SayCompleted(r) => \E w \in Workflows, row \in EndRows :
                 Was(r, w, row, "ended") /\ Becomes(r, w, row, "over") /\ Said(w, "completed", row)
           /\ \A row \in {"running"} \cup EndRows : RunAgain(r, row) => \E w \in Workflows, before \in {"running"} \cup EndRows :
                 Was(r, w, before, "over") /\ Becomes(r, w, row, "over") /\ stream' = stream /\ Silently(w)
<1>0. run \in [Runs -> RunStates]
  BY DEF ListTyped
<1>1. ASSUME NEW w \in Workflows, RunStarts(r, w)
      PROVE  Was(r, None, "none", "new") /\ Becomes(r, w, "running", "created") /\ stream' = stream
  <2>1. run[r].stage = "new"
    BY <1>1 DEF RunStarts
  <2>2. run[r] = [of |-> None, row |-> "none", stage |-> "new"]
    BY <2>1, RunParts
  <2> QED BY <1>1, <2>2 DEF RunStarts, Was, Becomes
<1>2. ASSUME ExpansionFails(r)
      PROVE  \E w \in Workflows :
                 Was(r, w, "running", "created") /\ Becomes(r, w, "failed", "over") /\ Said(w, "completed", "failed")
                 /\ Silently(w)
  <2>1. /\ run[r].stage = "created" /\ run' = BothSet(run, r, "failed", "over")
        /\ Said(run[r].of, "completed", "failed") /\ Silently(run[r].of)
    BY <1>2 DEF ExpansionFails, Say, BothSet, Said
  <2>2. PICK w : run[r] = [of |-> w, row |-> "running", stage |-> "created"] /\ w \in Workflows /\ w = run[r].of
    BY <2>1, RunParts
  <2>3. Becomes(r, w, "failed", "over")
    BY <1>0, <2>1, <2>2, BothIsSet DEF Becomes
  <2> QED BY <2>1, <2>2, <2>3 DEF Was
<1>3. ASSUME SayStarted(r)
      PROVE  \E w \in Workflows :
                 Was(r, w, "running", "created") /\ Becomes(r, w, "running", "started") /\ Said(w, "started", "running")
  <2>1. run[r].stage = "created" /\ run' = StageSet(run, r, "started") /\ Said(run[r].of, "started", "running")
    BY <1>3 DEF SayStarted, Say, StageSet, Said
  <2>2. PICK w : run[r] = [of |-> w, row |-> "running", stage |-> "created"] /\ w \in Workflows /\ w = run[r].of
    BY <2>1, RunParts
  <2>3. Becomes(r, w, "running", "started")
    BY <1>0, <2>1, <2>2, StageIsSet DEF Becomes
  <2> QED BY <2>1, <2>2, <2>3 DEF Was
<1>4. ASSUME NEW row \in EndRows, RunEnds(r, row)
      PROVE  \E w \in Workflows : Was(r, w, "running", "started") /\ Becomes(r, w, row, "ended") /\ stream' = stream
  <2>1. run[r].stage = "started" /\ run' = BothSet(run, r, row, "ended") /\ stream' = stream
    BY <1>4 DEF RunEnds, BothSet
  <2>2. PICK w : run[r] = [of |-> w, row |-> "running", stage |-> "started"] /\ w \in Workflows
    BY <2>1, RunParts
  <2>3. Becomes(r, w, row, "ended")
    BY <1>0, <2>1, <2>2, BothIsSet DEF Becomes
  <2> QED BY <2>1, <2>2, <2>3 DEF Was
<1>5. ASSUME SayCompleted(r)
      PROVE  \E w \in Workflows, row \in EndRows :
                 Was(r, w, row, "ended") /\ Becomes(r, w, row, "over") /\ Said(w, "completed", row)
  <2>1. run[r].stage = "ended" /\ run' = StageSet(run, r, "over") /\ Said(run[r].of, "completed", run[r].row)
    BY <1>5 DEF SayCompleted, Say, StageSet, Said
  <2>2. PICK w, row : run[r] = [of |-> w, row |-> row, stage |-> "ended"] /\ w \in Workflows /\ row \in EndRows
                      /\ w = run[r].of /\ row = run[r].row
    BY <2>1, RunParts
  <2>3. Becomes(r, w, row, "over")
    BY <1>0, <2>1, <2>2, StageIsSet DEF Becomes
  <2>4. Said(w, "completed", row)
    BY <2>1, <2>2
  <2>5. Was(r, w, row, "ended") /\ w \in Workflows /\ row \in EndRows
    BY <2>2 DEF Was
  <2> QED BY <2>3, <2>4, <2>5
<1>6. ASSUME NEW row \in {"running"} \cup EndRows, RunAgain(r, row)
      PROVE  \E w \in Workflows, before \in {"running"} \cup EndRows :
                 Was(r, w, before, "over") /\ Becomes(r, w, row, "over") /\ stream' = stream /\ Silently(w)
  <2>1. run[r].stage = "over" /\ run' = RowSet(run, r, row) /\ stream' = stream /\ Silently(run[r].of)
    BY <1>6 DEF RunAgain, RowSet
  <2>2. PICK w, before : run[r] = [of |-> w, row |-> before, stage |-> "over"] /\ w \in Workflows
                         /\ before \in {"running"} \cup EndRows /\ w = run[r].of
    BY <2>1, RunParts
  <2>3. Becomes(r, w, row, "over")
    BY <1>0, <2>1, <2>2, RowIsSet DEF Becomes
  <2>4. Was(r, w, before, "over") /\ w \in Workflows /\ before \in {"running"} \cup EndRows /\ Silently(w)
    BY <2>1, <2>2 DEF Was
  <2> QED BY <2>1, <2>3, <2>4
<1> QED BY <1>1, <1>2, <1>3, <1>4, <1>5, <1>6

RunRows == {"running", "success", "failed"}

\* An execution that has begun goes on counting.
LEMMA SameTotals ==
    ASSUME ListTyped, NEW r \in Runs, NEW w, NEW before \in RunRows, NEW at, NEW after \in RunRows, NEW stage,
           Was(r, w, before, at), Becomes(r, w, after, stage)
    PROVE  \A v : ExecutionStats(v)'.total = ExecutionStats(v).total
<1>1. run'[r].of = w /\ run'[r].row = after /\ \A q \in Runs \ {r} : run'[q] = run[q]
  BY DEF ListTyped, Becomes
<1>2. run[r].of = w /\ run[r].row = before
  BY DEF Was
<1>3. ASSUME NEW v PROVE Having(v, RunRows)' = Having(v, RunRows)
  <2>1. \A q \in Runs : (run'[q].of = v /\ run'[q].row \in RunRows) <=> (run[q].of = v /\ run[q].row \in RunRows)
    BY <1>1, <1>2
  <2>2. {q \in Runs : run'[q].of = v /\ run'[q].row \in RunRows} = {q \in Runs : run[q].of = v /\ run[q].row \in RunRows}
    BY <2>1
  <2> QED BY <2>2 DEF Having
<1> QED BY <1>3 DEF ExecutionStats, RunRows

LEMMA PagingRuns ==
    ASSUME ListTyped, ListPaging, route' = route,
           \/ \E r \in Runs, w \in Workflows : RunStarts(r, w)
           \/ \E r \in Runs : ExpansionFails(r) \/ SayStarted(r) \/ SayCompleted(r)
           \/ \E r \in Runs, row \in EndRows : RunEnds(r, row)
           \/ \E r \in Runs, row \in {"running"} \cup EndRows : RunAgain(r, row)
    PROVE  ListPaging'
<1>1. ASSUME NEW r \in Runs, NEW w \in Workflows, RunStarts(r, w) PROVE ListPaging'
  <2>1. /\ shifted' = (shifted \/ (listed # None /\ listed.never) \/ load.filters.never)
        /\ UNCHANGED pagingVars /\ UNCHANGED <<stored, workflows, removal>>
    BY <1>1 DEF RunStarts, collection, cardVars, pagingVars
  <2>2. ASSUME ~shifted', NEW f \in Filters, f = listed \/ f = load.filters PROVE SameRows(f)
    <3>1. ~f.never
      BY <2>1, <2>2, ListParts
    <3> QED BY <2>1, <3>1, SameMatching DEF SameRows
  <2>3. Deleted' = Deleted
    BY <2>1 DEF Deleted
  <2> QED BY <2>1, <2>2, <2>3, PagingKept
<1>2. ASSUME NEW r \in Runs, NEW w, NEW before \in RunRows, NEW at, NEW after \in RunRows, NEW stage,
             Was(r, w, before, at), Becomes(r, w, after, stage),
             UNCHANGED pagingVars, UNCHANGED <<stored, workflows, removal, shifted>>
      PROVE  ListPaging'
  <2>1. \A v : ExecutionStats(v)'.total = ExecutionStats(v).total
    BY <1>2, SameTotals
  <2>2. \A f : SameRows(f)
    BY <1>2, <2>1, SameMatching DEF SameRows
  <2>3. Deleted' = Deleted
    BY <1>2 DEF Deleted
  <2> QED BY <1>2, <2>2, <2>3, PagingKept
<1>3. "running" \in RunRows /\ "failed" \in RunRows /\ \A row \in EndRows : row \in RunRows
  BY DEF RunRows, EndRows
<1>4. ASSUME NEW r \in Runs, ExpansionFails(r) \/ SayStarted(r) \/ SayCompleted(r) PROVE ListPaging'
  <2>1. UNCHANGED pagingVars /\ UNCHANGED <<stored, workflows, removal, shifted>>
    BY <1>4 DEF ExpansionFails, SayStarted, SayCompleted, collection, cardVars, pagingVars
  <2> QED BY <1>2, <1>3, <1>4, <2>1, RunsGo
<1>5. ASSUME NEW r \in Runs, NEW row \in EndRows, RunEnds(r, row) PROVE ListPaging'
  <2>1. UNCHANGED pagingVars /\ UNCHANGED <<stored, workflows, removal, shifted>>
    BY <1>5 DEF RunEnds, collection, cardVars, pagingVars
  <2> QED BY <1>2, <1>3, <1>5, <2>1, RunsGo
<1>6. ASSUME NEW r \in Runs, NEW row \in {"running"} \cup EndRows, RunAgain(r, row) PROVE ListPaging'
  <2>1. UNCHANGED pagingVars /\ UNCHANGED <<stored, workflows, removal, shifted>>
    BY <1>6 DEF RunAgain, collection, cardVars, pagingVars
  <2>2. row \in RunRows /\ {"running"} \cup EndRows = RunRows
    BY DEF RunRows, EndRows
  <2> QED BY <1>2, <1>6, <2>1, <2>2, RunsGo
<1> QED BY <1>1, <1>4, <1>5, <1>6

\* Everything of the page happens while it is on screen.
LEMMA ListIsOnScreen == ListNext => route = "workflows"
<1>1. ListUser => route = "workflows"
  BY Zenon DEF ListUser, SelectFilter, Search, HandleScroll, AskToDelete, DeleteUnasked, Click, User
<1>2. ListSystem => route = "workflows"
  BY Zenon DEF ListSystem, SearchTimer, CountRows, SelectRows, ListAnswer, AnswerDialog, DeleteRow, DeleteAnswer,
               ExpansionFails, SayStarted, SayCompleted, RunEnds, OnExecutionEvent, ListRequests, Request
<1>3. ListOthers => route = "workflows"
  BY Zenon DEF ListOthers, OthersCreate, OthersDelete, RunStarts, RunAgain, Upset
<1>4. ListFaults => route = "workflows"
  BY Zenon DEF ListFaults, ListLoadFails, StreamBreaks, DeleteFails, Upset
<1> QED BY <1>1, <1>2, <1>3, <1>4 DEF ListNext

LEMMA PagingStep ==
    ASSUME ListTyped, ListKnown, ListPaging, ListNext, route' = route
    PROVE  ListPaging'
<1>0. /\ route = "workflows"
      /\ \A k \in Removals : removal[k] = NoRemoval \/ removal[k] \in [step : {"sent", "done"}, of : Workflows]
      /\ removal \in [Removals -> DeleteRequests] /\ NoRemoval.step = "idle"
  BY ListIsOnScreen, ListParts DEF ListTyped, NoRemoval
<1>1. ASSUME SelectFilter \/ SearchTimer PROVE \E f \in Filters : ApplyFilters(f)
  <2>1. filters \in Filters /\ searchInput \in BOOLEAN
    BY DEF ListTyped, CardsTyped
  <2>2. [filters EXCEPT !.never = ~@] \in Filters
    BY <2>1 DEF Filters
  <2>3. [filters EXCEPT !.search = searchInput] \in Filters
    BY <2>1 DEF Filters
  <2> QED BY <1>1, <2>1, <2>2, <2>3, Zenon DEF SelectFilter, SearchTimer
<1>2. ASSUME UNCHANGED pagingVars, UNCHANGED <<stored, run>>, Ids(workflows') = Ids(workflows), Deleted' = Deleted,
             ~shifted' => ~shifted
      PROVE  ListPaging'
  <2>1. \A f : SameRows(f)
    BY <1>2, SameMatching DEF SameRows, ExecutionStats, Having
  <2> QED BY <1>2, <2>1, PagingKept
<1>3. ASSUME Search \/ StreamBreaks PROVE ListPaging'
  <2>1. UNCHANGED pagingVars /\ UNCHANGED <<stored, run, workflows, removal, shifted>>
    BY <1>3, Zenon DEF Search, StreamBreaks, rowVars, collection, cardVars, doubtVars, pagingVars
  <2> QED BY <1>2, <2>1 DEF Deleted
<1>4. ASSUME OnExecutionEvent PROVE ListPaging'
  <2>1. UNCHANGED pagingVars /\ UNCHANGED <<stored, run, removal, shifted>>
    BY <1>4 DEF OnExecutionEvent, rowVars, collection, pagingVars
  <2> QED BY <1>2, <1>4, <2>1, EventKeepsIds DEF Deleted
<1>5. ASSUME NEW w \in Workflows, AskToDelete(w) PROVE ListPaging'
  <2>1. UNCHANGED pagingVars /\ UNCHANGED <<stored, run, workflows, removal, shifted>>
    BY <1>5, Zenon DEF AskToDelete, rowVars, collection, doubtVars, pagingVars
  <2> QED BY <1>2, <2>1 DEF Deleted
<1>6. ASSUME NEW w, SendDelete(w) PROVE ListPaging'
  <2>1. UNCHANGED pagingVars /\ UNCHANGED <<stored, run, workflows, shifted>>
    BY <1>6, Zenon DEF SendDelete, rowVars, collection, doubtVars, pagingVars
  <2>2. Free(removal) /\ removal' = [removal EXCEPT ![Slot(removal)] = [step |-> "sent", of |-> w]]
    BY <1>6 DEF SendDelete
  <2>3. removal[Slot(removal)].step = "idle" /\ Slot(removal) \in Removals
    BY <1>0, <2>2, SlotIsFree
  <2>4. Deleted' = Deleted
    <3>1. PICK k : k = Slot(removal)
      OBVIOUS
    <3>2. removal'[k].step = "sent" /\ \A j \in Removals \ {k} : removal'[j] = removal[j]
      BY <1>0, <2>2, <2>3, <3>1
    <3> QED BY <2>3, <3>1, <3>2, SameDeleted
  <2> QED BY <1>2, <2>1, <2>4
<1>7. ASSUME NEW w \in Workflows, DeleteUnasked(w) PROVE ListPaging'
  BY <1>6, <1>7, Zenon DEF DeleteUnasked
<1>8. ASSUME NEW ok \in BOOLEAN, AnswerDialog(ok) PROVE ListPaging'
  <2>1. CASE ok
    BY <1>6, <1>8, <2>1, Zenon DEF AnswerDialog
  <2>2. CASE ~ok
    <3>1. UNCHANGED pagingVars /\ UNCHANGED <<stored, run, workflows, removal, shifted>>
      BY <1>8, <2>2, Zenon DEF AnswerDialog, rowVars, collection, doubtVars, pagingVars
    <3> QED BY <1>2, <3>1 DEF Deleted
  <2> QED BY <2>1, <2>2
<1>9. ASSUME NEW k \in Removals, DeleteFails(k) PROVE ListPaging'
  <2>1. /\ UNCHANGED pagingVars /\ UNCHANGED <<stored, run, workflows>> /\ removal[k].step \in {"sent", "done"}
        /\ shifted' = (shifted \/ removal[k].step = "done")
        /\ removal' = [removal EXCEPT ![k] = [step |-> "idle", of |-> None]]
    BY <1>9 DEF DeleteFails, rowVars, collection, cardVars, pagingVars
  <2>2. removal'[k].step = "idle" /\ \A j \in Removals \ {k} : removal'[j] = removal[j]
    BY <1>0, <2>1
  <2>3. CASE removal[k].step = "done"
    <3>1. shifted' = TRUE /\ LoadAsks'
      BY <2>1, <2>3 DEF ListPaging, LoadAsks, Idle, pagingVars
    <3> QED BY <3>1 DEF ListPaging
  <2>4. CASE removal[k].step # "done"
    <3>1. Deleted' = Deleted
      BY <2>2, <2>4, SameDeleted
    <3> QED BY <1>2, <2>1, <3>1
  <2> QED BY <2>3, <2>4
<1>10. ASSUME NEW w \in Workflows, OthersCreate(w) \/ OthersDelete(w) PROVE ListPaging'
  <2>1. shifted' = TRUE /\ UNCHANGED <<route, load, page, hasMore>>
    BY <1>10 DEF OthersCreate, OthersDelete, cardVars
  <2> QED BY <2>1 DEF ListPaging, LoadAsks, Idle
<1>11. CASE ListUser
  BY <1>0, <1>1, <1>3, <1>5, <1>7, <1>11, PagingLoads DEF ListUser
<1>12. CASE ListSystem
  BY <1>0, <1>1, <1>4, <1>8, <1>12, PagingLoads, PagingAnswer, PagingDeletes, PagingRuns DEF ListSystem, EndRows
<1>13. CASE ListOthers
  <2>1. {"running", "success", "failed"} = {"running"} \cup EndRows
    BY DEF EndRows
  <2> QED BY <1>10, <1>13, <2>1, PagingRuns DEF ListOthers
<1>14. CASE ListFaults
  BY <1>0, <1>3, <1>9, <1>14, PagingLoads DEF ListFaults
<1> QED BY <1>11, <1>12, <1>13, <1>14 DEF ListNext

LEMMA PagingFresh ==
    ASSUME ListTyped, ListPaging,
           (ListMount /\ route # "workflows" /\ route' = "workflows") \/ (ListLeave /\ route' # "workflows")
    PROVE  ListPaging'
<1>1. CASE ListMount /\ route # "workflows" /\ route' = "workflows"
  <2>1. /\ load' = LoadOf(1, FALSE, NoFilter) /\ UNCHANGED <<page, hasMore, cut, shifted, removal>>
    BY <1>1 DEF ListMount, cardVars, doubtVars
  <2>2. load'.step = "count" /\ load'.page = 1 /\ load'.append = FALSE
    <3>1. PICK one \in Nat \ {0}, f \in Filters : one = 1 /\ f = NoFilter
      BY ListBlanks
    <3>2. load' = [step |-> "count", page |-> one, append |-> FALSE, filters |-> f, total |-> 0, items |-> <<>>]
      BY <2>1, <3>1, ListBlanks
    <3> QED BY <3>1, <3>2
  <2>3. LoadAsks'
    BY <1>1, <2>2 DEF LoadAsks, Idle
  <2>4. ASSUME ~shifted' PROVE Paged'
    <3>1. Deleted' # {} => cut'
      BY <2>1, <2>4 DEF ListPaging, Paged, Deleted
    <3> QED BY <2>2, <3>1 DEF Paged, FirstPageComes, ListShown, LoadSaw, Idle
  <2> QED BY <2>3, <2>4 DEF ListPaging
<1>2. CASE ListLeave /\ route' # "workflows"
  <2>1. /\ removal' = [k \in Removals |-> [step |-> "idle", of |-> None]] /\ page' = 0 /\ load' = NoLoad /\ cut' = FALSE
    BY <1>2 DEF ListLeave
  <2>2. load'.step = "idle" /\ Deleted' = {}
    BY <2>1, ListBlanks DEF Deleted
  <2>3. LoadAsks'
    BY <2>1, <2>2 DEF LoadAsks, Idle
  <2>4. Paged'
    BY <1>2, <2>1, <2>2 DEF Paged, FirstPageComes, ListShown, LoadSaw
  <2> QED BY <2>3, <2>4 DEF ListPaging
<1> QED BY <1>1, <1>2

LEMMA PagingIsPrefix ==
    ASSUME ListTyped, ListKnown, ListPaging
    PROVE  ListIsAPrefix
<1> SUFFICES ASSUME ListQuiet, ~shifted, listed = filters, page > 0
             PROVE  /\ IsPrefix(Ids(workflows), Matching(filters))
                    /\ total = Len(Matching(filters))
                    /\ ~cut => /\ hasMore = (Len(workflows) < Len(Matching(filters)))
                               /\ hasMore => Len(workflows) = page * PageSize
  BY DEF ListIsAPrefix
<1>1. Idle /\ Deleted = {} /\ Paged
  BY DEF ListQuiet, Idle, Deleted, ListPaging
<1>2. filters \in Filters /\ listed # None /\ page \in Nat /\ workflows \in Seq(Cards) /\ stored \in Seq(Workflows)
  BY ListParts DEF ListTyped, CardsTyped
<1>3. PICK rows, ids, n : rows = Matching(filters) /\ ids = Ids(workflows) /\ n = page
  OBVIOUS
<1>4. Shows(ids, {}, ~cut, n, hasMore, total, rows)
  BY <1>1, <1>2, <1>3 DEF Paged, ListShown
<1>5. rows \in Seq(Workflows) /\ Len(rows) \in Nat /\ ids \in Seq(Workflows) /\ Len(ids) = Len(workflows) /\ n \in Nat
  BY <1>2, <1>3, MatchingIs, IdsAre
<1>6. Filtered(ids, Workflows \ {}) = ids
  <2>1. PICK all : all = Workflows \ {}
    OBVIOUS
  <2>2. \A i \in 1 .. Len(ids) : ids[i] \in all
    BY <1>5, <2>1, MembersAre
  <2> QED BY <1>5, <2>1, <2>2, AllKept
<1>7. IsPrefix(ids, rows) /\ total = Len(rows)
  <2>1. {} \subseteq ToSet(ids)
    OBVIOUS
  <2>2. IsPrefix(ids, rows) /\ total = Len(rows) + Cardinality({})
    BY <1>4, <1>6, <2>1 DEF Shows
  <2> QED BY <1>5, <2>2, FS_EmptySet
<1>8. ASSUME ~cut PROVE hasMore = (Len(ids) < Len(rows)) /\ (hasMore => Len(ids) = n * PageSize)
  <2>1. ids = SubSeq(rows, 1, PageEnd(n, rows)) /\ hasMore = (n * PageSize < Len(rows))
    BY <1>4, <1>8 DEF Shows
  <2>2. PICK m, p : m = PageEnd(n, rows) /\ p = n * PageSize
    OBVIOUS
  <2>3. p \in Nat /\ m = IF p < Len(rows) THEN p ELSE Len(rows)
    BY <1>5, <2>2, PageEndIs DEF PageEnd
  <2>4. Len(ids) = m
    BY <1>5, <2>1, <2>2, <2>3
  <2>5. hasMore = (p < Len(rows))
    BY <2>1, <2>2
  <2>6. (p < Len(rows)) <=> (Len(ids) < Len(rows))
    BY <1>5, <2>3, <2>4
  <2>7. p < Len(rows) => Len(ids) = p
    BY <2>3, <2>4
  <2>8. CASE p < Len(rows)
    <3>1. hasMore = TRUE /\ (Len(ids) < Len(rows)) = TRUE
      BY <2>5, <2>6, <2>8
    <3> QED BY <2>2, <2>7, <2>8, <3>1
  <2>9. CASE ~(p < Len(rows))
    <3>1. hasMore = FALSE
      <4>1. hasMore \in BOOLEAN
        BY DEF ListTyped, CardsTyped
      <4>2. ~hasMore
        BY <2>5, <2>9
      <4> QED BY <4>1, <4>2
    <3>2. (Len(ids) < Len(rows)) = FALSE
      BY <2>6, <2>9
    <3> QED BY <3>1, <3>2
  <2> QED BY <2>8, <2>9
<1> QED BY <1>3, <1>5, <1>7, <1>8

-----------------------------------------------------------------------------
(* The list of workflows: numbers.  What a card says, and what has happened *)
(* without the page having been told, make up what the rows say.            *)

\* Executions of w, by what the engine has done and by their rows.
At(w, stages, rows) == Cardinality({r \in Runs : run[r].of = w /\ run[r].stage \in stages /\ run[r].row \in rows})

\* Events of w on their way.
Mentions(events, w, statuses) == Len(Filtered(events, {e \in Events : e.of = w /\ e.status \in statuses}))
Told(w, statuses) == Mentions(stream, w, statuses)
Later(j, w, statuses) == Mentions(SubSeq(stream, j, Len(stream)), w, statuses)

Accounts(s, w) ==
    /\ s.total + At(w, {"created"}, {"running"}) + Told(w, {"running"}) = Having(w, RunRows)
    /\ s.running + At(w, {"created"}, {"running"}) + Told(w, {"running"})
          = Having(w, {"running"}) + At(w, {"ended"}, EndRows) + Told(w, EndRows)
    /\ s.success + At(w, {"ended"}, {"success"}) + Told(w, {"success"}) = Having(w, {"success"})
    /\ s.failed + At(w, {"ended"}, {"failed"}) + Told(w, {"failed"}) = Having(w, {"failed"})

\* A beginning that is still to be told is of an execution that goes on, or
\* whose end is told after it.
InOrder == \A w \in Workflows, j \in 1 .. Len(stream) + 1 :
               Later(j, w, {"running"}) <= At(w, {"started"}, {"running"}) + At(w, {"ended"}, EndRows) + Later(j, w, EndRows)

CardsAccount == \A c \in ToSet(workflows) : c.id \notin unsure => Accounts(c.stats, c.id)
ItemsAccount == load.step = "answer" => \A c \in ToSet(load.items) : c.id \notin doubt => Accounts(c.stats, c.id)
ListNumbers == CardsAccount /\ ItemsAccount /\ InOrder

Bit(b) == IF b THEN 1 ELSE 0

LEMMA CountMoves ==
    ASSUME NEW A, NEW B, A \subseteq Runs, B \subseteq Runs, NEW r \in Runs, \A q \in Runs \ {r} : q \in A <=> q \in B
    PROVE  /\ Cardinality(A) \in Nat /\ Cardinality(B) \in Nat
           /\ Cardinality(B) + Bit(r \in A) = Cardinality(A) + Bit(r \in B)
<1>1. PICK D : D = A \ {r}
  OBVIOUS
<1>2. D = B \ {r} /\ D \subseteq Runs
  BY <1>1
<1>3. IsFiniteSet(A) /\ IsFiniteSet(B) /\ IsFiniteSet(D)
  BY <1>2, WorkflowsAssumption, FS_Subset
<1>4. Cardinality(A) \in Nat /\ Cardinality(B) \in Nat /\ Cardinality(D) \in Nat
  BY <1>3, FS_CardinalityType
<1>5. Cardinality(D) = IF r \in A THEN Cardinality(A) - 1 ELSE Cardinality(A)
  BY <1>1, <1>3, FS_RemoveElement
<1>6. Cardinality(D) = IF r \in B THEN Cardinality(B) - 1 ELSE Cardinality(B)
  BY <1>2, <1>3, FS_RemoveElement
<1> QED BY <1>4, <1>5, <1>6 DEF Bit

\* One execution moves.
LEMMA AtMoves ==
    ASSUME ListTyped, NEW r \in Runs, NEW u, NEW before, NEW at, NEW w, NEW after, NEW stage,
           Was(r, u, before, at), Becomes(r, w, after, stage), NEW v, NEW stages, NEW rows
    PROVE  /\ At(v, stages, rows) \in Nat /\ At(v, stages, rows)' \in Nat
           /\ At(v, stages, rows)' + Bit(u = v /\ at \in stages /\ before \in rows)
                 = At(v, stages, rows) + Bit(w = v /\ stage \in stages /\ after \in rows)
<1>1. PICK A, B : /\ A = {q \in Runs : run[q].of = v /\ run[q].stage \in stages /\ run[q].row \in rows}
                  /\ B = {q \in Runs : run'[q].of = v /\ run'[q].stage \in stages /\ run'[q].row \in rows}
  OBVIOUS
<1>2. /\ run'[r] = [of |-> w, row |-> after, stage |-> stage] /\ \A q \in Runs \ {r} : run'[q] = run[q]
      /\ run[r] = [of |-> u, row |-> before, stage |-> at]
  BY DEF ListTyped, Was, Becomes
<1>3. /\ r \in A <=> (u = v /\ at \in stages /\ before \in rows)
      /\ r \in B <=> (w = v /\ stage \in stages /\ after \in rows)
  BY <1>1, <1>2
<1>4. A \subseteq Runs /\ B \subseteq Runs /\ \A q \in Runs \ {r} : q \in A <=> q \in B
  BY <1>1, <1>2
<1>5. /\ Cardinality(A) \in Nat /\ Cardinality(B) \in Nat
      /\ Cardinality(B) + Bit(r \in A) = Cardinality(A) + Bit(r \in B)
  BY <1>4, CountMoves
<1>6. At(v, stages, rows) = Cardinality(A) /\ At(v, stages, rows)' = Cardinality(B)
  BY <1>1 DEF At
<1>7. /\ Bit(r \in A) = Bit(u = v /\ at \in stages /\ before \in rows)
      /\ Bit(r \in B) = Bit(w = v /\ stage \in stages /\ after \in rows)
  BY <1>3 DEF Bit
<1> QED BY <1>5, <1>6, <1>7

LEMMA HavingMoves ==
    ASSUME ListTyped, NEW r \in Runs, NEW u, NEW before, NEW at, NEW w, NEW after, NEW stage,
           Was(r, u, before, at), Becomes(r, w, after, stage), NEW v, NEW rows
    PROVE  /\ Having(v, rows) \in Nat /\ Having(v, rows)' \in Nat
           /\ Having(v, rows)' + Bit(u = v /\ before \in rows) = Having(v, rows) + Bit(w = v /\ after \in rows)
<1>1. PICK A, B : /\ A = {q \in Runs : run[q].of = v /\ run[q].row \in rows}
                  /\ B = {q \in Runs : run'[q].of = v /\ run'[q].row \in rows}
  OBVIOUS
<1>2. /\ run'[r] = [of |-> w, row |-> after, stage |-> stage] /\ \A q \in Runs \ {r} : run'[q] = run[q]
      /\ run[r] = [of |-> u, row |-> before, stage |-> at]
  BY DEF ListTyped, Was, Becomes
<1>3. /\ r \in A <=> (u = v /\ before \in rows)
      /\ r \in B <=> (w = v /\ after \in rows)
  BY <1>1, <1>2
<1>4. A \subseteq Runs /\ B \subseteq Runs /\ \A q \in Runs \ {r} : q \in A <=> q \in B
  BY <1>1, <1>2
<1>5. /\ Cardinality(A) \in Nat /\ Cardinality(B) \in Nat
      /\ Cardinality(B) + Bit(r \in A) = Cardinality(A) + Bit(r \in B)
  BY <1>4, CountMoves
<1>6. Having(v, rows) = Cardinality(A) /\ Having(v, rows)' = Cardinality(B)
  BY <1>1 DEF Having
<1>7. /\ Bit(r \in A) = Bit(u = v /\ before \in rows)
      /\ Bit(r \in B) = Bit(w = v /\ after \in rows)
  BY <1>3 DEF Bit
<1> QED BY <1>5, <1>6, <1>7

LEMMA AtIsNumber ==
    ASSUME NEW w, NEW stages, NEW rows
    PROVE  At(w, stages, rows) \in Nat
<1>1. PICK A : A = {r \in Runs : run[r].of = w /\ run[r].stage \in stages /\ run[r].row \in rows}
  OBVIOUS
<1>2. IsFiniteSet(A)
  BY <1>1, WorkflowsAssumption, FS_Subset
<1> QED BY <1>1, <1>2, FS_CardinalityType DEF At

\* Those that run are begun or to begin.
LEMMA RunningAre ==
    ASSUME ListTyped, NEW w
    PROVE  At(w, {"created"}, {"running"}) + At(w, {"started"}, {"running"}) <= Having(w, {"running"})
<1>1. PICK A, B, C : /\ A = {r \in Runs : run[r].of = w /\ run[r].stage \in {"created"} /\ run[r].row \in {"running"}}
                     /\ B = {r \in Runs : run[r].of = w /\ run[r].stage \in {"started"} /\ run[r].row \in {"running"}}
                     /\ C = {r \in Runs : run[r].of = w /\ run[r].row \in {"running"}}
  OBVIOUS
<1>2. IsFiniteSet(A) /\ IsFiniteSet(B) /\ IsFiniteSet(C) /\ A \cup B \subseteq C /\ A \cap B = {}
  BY <1>1, WorkflowsAssumption, FS_Subset
<1>3. Cardinality(A \cup B) = Cardinality(A) + Cardinality(B) - Cardinality(A \cap B)
  BY <1>2, FS_Union
<1>4. Cardinality(A \cap B) = 0
  BY <1>2, FS_EmptySet
<1>5. Cardinality(A) \in Nat /\ Cardinality(B) \in Nat /\ Cardinality(C) \in Nat
  BY <1>2, FS_CardinalityType
<1>6. Cardinality(A \cup B) <= Cardinality(C)
  BY <1>2, FS_Subset
<1>7. /\ At(w, {"created"}, {"running"}) = Cardinality(A) /\ At(w, {"started"}, {"running"}) = Cardinality(B)
      /\ Having(w, {"running"}) = Cardinality(C)
  BY <1>1 DEF At, Having
<1> QED BY <1>3, <1>4, <1>5, <1>6, <1>7

LEMMA MentionsAre ==
    ASSUME NEW events \in Seq(Events), NEW w, NEW statuses
    PROVE  /\ Mentions(events, w, statuses) \in Nat
           /\ (\A i \in 1 .. Len(events) : events[i].of # w) => Mentions(events, w, statuses) = 0
<1>1. PICK K, f : K = {e \in Events : e.of = w /\ e.status \in statuses} /\ f = Filtered(events, K)
  OBVIOUS
<1>2. f \in Seq(Events) /\ ToSet(f) = ToSet(events) \cap K /\ Mentions(events, w, statuses) = Len(f)
  BY <1>1, FilteredKeeps, FilteredElements DEF Mentions
<1>3. Len(f) \in Nat
  BY <1>2, MembersAre
<1>4. ASSUME \A i \in 1 .. Len(events) : events[i].of # w PROVE Len(f) = 0
  <2>1. ToSet(f) = {}
    BY <1>1, <1>2, <1>4, MembersAre
  <2>2. \A i \in 1 .. Len(f) : FALSE
    BY <1>2, <2>1, MembersAre
  <2> QED BY <1>3, <2>2
<1> QED BY <1>2, <1>3, <1>4

LEMMA MentionsOne ==
    ASSUME NEW e \in Events, NEW w, NEW statuses
    PROVE  <<e>> \in Seq(Events) /\ Mentions(<<e>>, w, statuses) = Bit(e.of = w /\ e.status \in statuses)
<1>1. PICK K, one : K = {d \in Events : d.of = w /\ d.status \in statuses} /\ one = <<e>>
  OBVIOUS
<1>2. one \in Seq(Events) /\ Len(one) = 1 /\ one[1] = e /\ ToSet(one) = {e}
  BY <1>1, OneMember
<1>3. CASE e \in K
  <2>1. Filtered(one, K) = one
    BY <1>2, <1>3, AllKept
  <2> QED BY <1>1, <1>2, <1>3, <2>1 DEF Mentions, Bit
<1>4. CASE e \notin K
  <2>1. PICK f : f = Filtered(one, K)
    OBVIOUS
  <2>2. f \in Seq(Events) /\ ToSet(f) = {}
    BY <1>2, <1>4, <2>1, FilteredKeeps, FilteredElements
  <2>3. \A i \in 1 .. Len(f) : FALSE
    BY <2>2, MembersAre
  <2>4. Len(f) = 0
    BY <2>2, <2>3, MembersAre
  <2> QED BY <1>1, <1>2, <1>4, <2>1, <2>4 DEF Mentions, Bit
<1> QED BY <1>3, <1>4

LEMMA MentionsAdd ==
    ASSUME NEW a \in Seq(Events), NEW b \in Seq(Events), NEW w, NEW statuses
    PROVE  Mentions(a \o b, w, statuses) = Mentions(a, w, statuses) + Mentions(b, w, statuses)
<1>1. PICK K : K = {e \in Events : e.of = w /\ e.status \in statuses}
  OBVIOUS
<1>2. Filtered(a \o b, K) = Filtered(a, K) \o Filtered(b, K)
  BY FilteredConcat
<1>3. PICK f, g : f = Filtered(a, K) /\ g = Filtered(b, K)
  OBVIOUS
<1>4. f \in Seq(Events) /\ g \in Seq(Events)
  BY <1>3, FilteredKeeps
<1>5. Len(f \o g) = Len(f) + Len(g)
  BY <1>4
<1> QED BY <1>1, <1>2, <1>3, <1>5 DEF Mentions

LEMMA ToldAre ==
    ASSUME stream \in Seq(Events), NEW w, NEW statuses
    PROVE  /\ Told(w, statuses) \in Nat
           /\ \A j \in 1 .. Len(stream) + 1 : Later(j, w, statuses) \in Nat
<1>1. ASSUME NEW j \in 1 .. Len(stream) + 1 PROVE Later(j, w, statuses) \in Nat
  <2>1. PICK rest, n : rest = SubSeq(stream, j, n) /\ n = Len(stream)
    OBVIOUS
  <2>2. j \in Nat \ {0} /\ n \in Nat /\ n <= Len(stream)
    BY <2>1, MembersAre
  <2>3. rest \in Seq(Events)
    BY <2>1, <2>2, PartMembers
  <2> QED BY <2>1, <2>3, MentionsAre DEF Later
<1> QED BY <1>1, MentionsAre DEF Told

\* One more event is to be told.
LEMMA ToldMore ==
    ASSUME stream \in Seq(Events), NEW e \in Events, stream' = Append(stream, e), NEW w, NEW statuses
    PROVE  /\ Told(w, statuses)' = Told(w, statuses) + Bit(e.of = w /\ e.status \in statuses)
           /\ Len(stream') = Len(stream) + 1 /\ Len(stream) \in Nat
           /\ \A j \in 1 .. Len(stream) + 1 :
                 Later(j, w, statuses)' = Later(j, w, statuses) + Bit(e.of = w /\ e.status \in statuses)
           /\ \A j : j = Len(stream) + 2 => Later(j, w, statuses)' = 0
<1>1. PICK old, new, n, one : old = stream /\ new = stream' /\ n = Len(stream) /\ one = <<e>>
  OBVIOUS
<1>2. /\ old \in Seq(Events) /\ new = old \o one /\ n \in Nat /\ n = Len(old) /\ new \in Seq(Events) /\ Len(new) = n + 1
      /\ \A i \in 1 .. n : new[i] = old[i]
      /\ new[n + 1] = e
  BY <1>1, AppendIsConcat
<1>3. one \in Seq(Events) /\ Mentions(one, w, statuses) = Bit(e.of = w /\ e.status \in statuses) /\ Len(one) = 1 /\ one[1] = e
  BY <1>1, MentionsOne
<1>4. Told(w, statuses)' = Told(w, statuses) + Bit(e.of = w /\ e.status \in statuses)
  <2>1. Mentions(old \o one, w, statuses) = Mentions(old, w, statuses) + Mentions(one, w, statuses)
    BY <1>2, <1>3, MentionsAdd
  <2> QED BY <1>1, <1>2, <1>3, <2>1 DEF Told
<1>5. ASSUME NEW j \in 1 .. n + 1
      PROVE  Later(j, w, statuses)' = Later(j, w, statuses) + Bit(e.of = w /\ e.status \in statuses)
  <2>1. PICK a, b, c : a = SubSeq(old, j, n) /\ b = SubSeq(new, j, n + 1) /\ c = a \o one
    OBVIOUS
  <2>2. /\ a \in Seq(Events) /\ Len(a) = n - j + 1 /\ \A i \in 1 .. n - j + 1 : a[i] = old[j + i - 1]
    <3>1. \A i \in j .. n : old[i] \in Events
      BY <1>2, MembersAre
    <3>2. j \in Int /\ n \in Int /\ (j <= n \/ n - j + 1 = 0)
      BY <1>2
    <3> QED BY <2>1, <3>1, <3>2, SubSeqProperties
  <2>3. /\ b \in Seq(Events) /\ Len(b) = n - j + 2 /\ \A i \in 1 .. n - j + 2 : b[i] = new[j + i - 1]
    <3>1. \A i \in j .. n + 1 : new[i] \in Events
      BY <1>2, MembersAre
    <3>2. PICK p \in Int : p = n + 1
      BY <1>2
    <3>3. j \in Int /\ j <= p /\ p - j + 1 = n - j + 2
      BY <1>2, <3>2
    <3>4. /\ SubSeq(new, j, p) \in Seq(Events) /\ Len(SubSeq(new, j, p)) = p - j + 1
          /\ \A i \in 1 .. p - j + 1 : SubSeq(new, j, p)[i] = new[j + i - 1]
      BY <3>1, <3>2, <3>3, SubSeqProperties
    <3> QED BY <2>1, <3>2, <3>3, <3>4
  <2>4. /\ c \in Seq(Events) /\ Len(c) = n - j + 2
        /\ \A i \in 1 .. n - j + 1 : c[i] = a[i]
        /\ c[n - j + 2] = e
    <3>1. PICK m : m = n - j + 1
      OBVIOUS
    <3>2. m \in Nat /\ m = Len(a) /\ n - j + 2 = m + 1
      BY <1>2, <2>2, <3>1
    <3>3. /\ c \in Seq(Events) /\ Len(c) = m + 1
          /\ \A i \in 1 .. m + 1 : c[i] = IF i <= m THEN a[i] ELSE one[i - m]
      <4>1. /\ a \o one \in Seq(Events) /\ Len(a \o one) = Len(a) + Len(one)
            /\ \A i \in 1 .. Len(a) + Len(one) : (a \o one)[i] = IF i <= Len(a) THEN a[i] ELSE one[i - Len(a)]
        BY <1>3, <2>2, ConcatProperties
      <4>2. Len(a) = m /\ Len(one) = 1
        BY <1>3, <3>2
      <4> QED BY <2>1, <4>1, <4>2
    <3>4. \A i \in 1 .. m : c[i] = a[i]
      BY <3>2, <3>3
    <3>5. c[m + 1] = e
      <4>1. m + 1 \in 1 .. m + 1 /\ ~(m + 1 <= m) /\ (m + 1) - m = 1
        BY <3>2
      <4> QED BY <1>3, <3>3, <4>1
    <3> QED BY <3>1, <3>2, <3>3, <3>4, <3>5
  <2>5. ASSUME NEW i \in 1 .. n - j + 2 PROVE b[i] = c[i]
    <3>1. CASE i \in 1 .. n - j + 1
      <4>1. j + i - 1 \in 1 .. n
        BY <1>2, <3>1
      <4> QED BY <1>2, <2>2, <2>3, <2>4, <2>5, <3>1, <4>1
    <3>2. CASE i = n - j + 2
      <4>1. j + i - 1 = n + 1
        BY <1>2, <3>2
      <4> QED BY <1>2, <2>3, <2>4, <2>5, <3>2, <4>1
    <3> QED BY <1>2, <3>1, <3>2
  <2>6. b = c
    BY <2>3, <2>4, <2>5, SeqEqual
  <2>7. Mentions(a \o one, w, statuses) = Mentions(a, w, statuses) + Mentions(one, w, statuses)
    BY <1>3, <2>2, MentionsAdd
  <2>8. Later(j, w, statuses) = Mentions(a, w, statuses) /\ Later(j, w, statuses)' = Mentions(b, w, statuses)
    BY <1>1, <1>2, <2>1 DEF Later
  <2> QED BY <1>3, <2>1, <2>6, <2>7, <2>8
<1>6. Later(n + 2, w, statuses)' = 0
  <2>1. PICK b, j : b = SubSeq(new, j, n + 1) /\ j = n + 2
    OBVIOUS
  <2>2. b \in Seq(Events) /\ Len(b) = 0
    <3>1. j \in Nat \ {0} /\ n + 1 \in Nat /\ n + 1 <= Len(new) /\ ~(j <= n + 1)
      BY <1>2, <2>1
    <3> QED BY <1>2, <2>1, <3>1, PartMembers
  <2>3. \A i \in 1 .. Len(b) : b[i].of # w
    BY <2>2
  <2>4. Mentions(b, w, statuses) = 0
    BY <2>2, <2>3, MentionsAre
  <2>5. Later(j, w, statuses)' = Mentions(b, w, statuses)
    BY <1>1, <1>2, <2>1 DEF Later
  <2> QED BY <2>1, <2>4, <2>5
<1> QED BY <1>1, <1>2, <1>4, <1>5, <1>6

\* The first event is told.
LEMMA ToldLess ==
    ASSUME stream \in Seq(Events), stream # <<>>, stream' = Tail(stream), NEW e, e = Head(stream), NEW w, NEW statuses
    PROVE  /\ Told(w, statuses) = Bit(e.of = w /\ e.status \in statuses) + Told(w, statuses)'
           /\ e \in Events /\ stream' \in Seq(Events) /\ Len(stream') = Len(stream) - 1 /\ Len(stream) \in Nat \ {0}
           /\ \A j \in 1 .. Len(stream) : Later(j, w, statuses)' = Later(j + 1, w, statuses)
           /\ Later(2, w, statuses) = Told(w, statuses)'
<1>1. PICK old, new, n, one : old = stream /\ new = stream' /\ n = Len(stream) /\ one = <<e>>
  OBVIOUS
<1>2. /\ old \in Seq(Events) /\ new \in Seq(Events) /\ e \in Events /\ n \in Nat \ {0} /\ n = Len(old) /\ Len(new) = n - 1
      /\ \A i \in 1 .. n - 1 : new[i] = old[i + 1]
      /\ e = old[1]
  BY <1>1, HeadTailProperties
<1>3. one \in Seq(Events) /\ Mentions(one, w, statuses) = Bit(e.of = w /\ e.status \in statuses) /\ Len(one) = 1 /\ one[1] = e
  BY <1>1, <1>2, MentionsOne
<1>4. old = one \o new
  <2>1. PICK c : c = one \o new
    OBVIOUS
  <2>2. /\ c \in Seq(Events) /\ Len(c) = n /\ c[1] = e /\ \A i \in 2 .. n : c[i] = new[i - 1]
    <3>1. PICK m : m = n - 1
      OBVIOUS
    <3>2. m \in Nat /\ Len(new) = m /\ 1 + m = n
      BY <1>2, <3>1
    <3>3. /\ c \in Seq(Events) /\ Len(c) = 1 + m
          /\ \A i \in 1 .. 1 + m : c[i] = IF i <= 1 THEN one[i] ELSE new[i - 1]
      <4>1. /\ one \o new \in Seq(Events) /\ Len(one \o new) = Len(one) + Len(new)
            /\ \A i \in 1 .. Len(one) + Len(new) : (one \o new)[i] = IF i <= Len(one) THEN one[i] ELSE new[i - Len(one)]
        <5>1. one \in Seq(Events) /\ new \in Seq(Events)
          BY <1>2, <1>3
        <5> QED BY <5>1, ConcatProperties
      <4>2. Len(new) = m /\ Len(one) = 1
        BY <1>3, <3>2
      <4> QED BY <2>1, <4>1, <4>2
    <3>4. c[1] = e /\ \A i \in 2 .. 1 + m : c[i] = new[i - 1]
      <4>1. 1 \in 1 .. 1 + m
        BY <3>2
      <4>2. c[1] = one[1]
        BY <3>3, <4>1
      <4>3. ASSUME NEW i \in 2 .. 1 + m PROVE c[i] = new[i - 1]
        <5>1. i \in 1 .. 1 + m /\ ~(i <= 1)
          BY <3>2
        <5> QED BY <3>3, <5>1
      <4> QED BY <1>3, <4>2, <4>3
    <3> QED BY <3>2, <3>3, <3>4
  <2>3. ASSUME NEW i \in 1 .. n PROVE old[i] = c[i]
    <3>1. CASE i = 1
      BY <1>2, <2>2, <3>1
    <3>2. CASE i # 1
      <4>1. i \in 2 .. n /\ i - 1 \in 1 .. n - 1 /\ (i - 1) + 1 = i
        BY <1>2, <3>2
      <4> QED BY <1>2, <2>2, <4>1
    <3> QED BY <3>1, <3>2
  <2> QED BY <1>2, <2>1, <2>2, <2>3, SeqEqual
<1>5. Told(w, statuses) = Bit(e.of = w /\ e.status \in statuses) + Told(w, statuses)'
  <2>1. Mentions(one \o new, w, statuses) = Mentions(one, w, statuses) + Mentions(new, w, statuses)
    BY <1>2, <1>3, MentionsAdd
  <2> QED BY <1>1, <1>3, <1>4, <2>1 DEF Told
<1>6. ASSUME NEW j \in 1 .. n PROVE SubSeq(new, j, n - 1) = SubSeq(old, j + 1, n)
  <2>1. PICK a, b, k : a = SubSeq(new, j, n - 1) /\ b = SubSeq(old, k, n) /\ k = j + 1
    OBVIOUS
  <2>2. /\ a \in Seq(Events) /\ Len(a) = n - j /\ \A i \in 1 .. n - j : a[i] = new[j + i - 1]
    <3>1. \A i \in j .. n - 1 : new[i] \in Events
      BY <1>2, MembersAre
    <3>2. j \in Int /\ n - 1 \in Int /\ (n - 1) - j + 1 = n - j /\ (j <= n - 1 \/ n - j = 0)
      BY <1>2
    <3> QED BY <2>1, <3>1, <3>2, SubSeqProperties
  <2>3. /\ b \in Seq(Events) /\ Len(b) = n - j /\ \A i \in 1 .. n - j : b[i] = old[k + i - 1]
    <3>1. \A i \in k .. n : old[i] \in Events
      BY <1>2, <2>1, MembersAre
    <3>2. k \in Int /\ n \in Int /\ n - k + 1 = n - j /\ (k <= n \/ n - j = 0)
      BY <1>2, <2>1
    <3> QED BY <2>1, <3>1, <3>2, SubSeqProperties
  <2>4. ASSUME NEW i \in 1 .. n - j PROVE a[i] = b[i]
    <3>1. j + i - 1 \in 1 .. n - 1 /\ k + i - 1 = (j + i - 1) + 1
      BY <1>2, <2>1
    <3> QED BY <1>2, <2>2, <2>3, <3>1
  <2>5. a = b
    BY <2>2, <2>3, <2>4, SeqEqual
  <2> QED BY <2>1, <2>5
<1>7. \A j \in 1 .. n : Later(j, w, statuses)' = Later(j + 1, w, statuses)
  BY <1>1, <1>2, <1>6 DEF Later
<1>8. Later(2, w, statuses) = Told(w, statuses)'
  <2>1. new = SubSeq(old, 2, n)
    BY <1>1, <1>2, TailIsSubSeq
  <2> QED BY <1>1, <2>1 DEF Later, Told
<1> QED BY <1>1, <1>2, <1>5, <1>7, <1>8

\* What is right on a card stays right.
Carries(v) == \A s \in Stats : Accounts(s, v) => Accounts(s, v)'

LEMMA NumbersCarried ==
    ASSUME ListTyped, ListNumbers, UNCHANGED <<workflows, load>>, unsure \subseteq unsure',
           load.step = "answer" => doubt \subseteq doubt',
           \A v \in Workflows : v \notin unsure' \/ (load.step = "answer" /\ v \notin doubt') => Carries(v),
           InOrder'
    PROVE  ListNumbers'
<1>0. \A c \in ToSet(workflows) \cup ToSet(load.items) : c.id \in Workflows /\ c.stats \in Stats
  <2>1. ToSet(workflows) \subseteq Cards /\ ToSet(load.items) \subseteq Cards
    BY ListParts, MembersAre DEF ListTyped, CardsTyped
  <2> QED BY <2>1 DEF Cards
<1>1. CardsAccount'
  <2>1. SUFFICES ASSUME NEW c \in ToSet(workflows), c.id \notin unsure' PROVE Accounts(c.stats, c.id)'
    BY DEF CardsAccount
  <2>2. PICK s \in Stats, v \in Workflows : s = c.stats /\ v = c.id
    BY <1>0
  <2>3. Accounts(s, v) /\ Carries(v)
    BY <2>1, <2>2 DEF ListNumbers, CardsAccount
  <2>4. Accounts(s, v)'
    BY <2>3 DEF Carries
  <2> QED BY <2>2, <2>4
<1>2. ItemsAccount'
  <2>1. SUFFICES ASSUME load.step = "answer", NEW c \in ToSet(load.items), c.id \notin doubt' PROVE Accounts(c.stats, c.id)'
    BY DEF ItemsAccount
  <2>2. PICK s \in Stats, v \in Workflows : s = c.stats /\ v = c.id
    BY <1>0
  <2>3. Accounts(s, v) /\ Carries(v)
    BY <2>1, <2>2 DEF ListNumbers, ItemsAccount
  <2>4. Accounts(s, v)'
    BY <2>3 DEF Carries
  <2> QED BY <2>2, <2>4
<1> QED BY <1>1, <1>2 DEF ListNumbers

\* All the numbers of v, when an execution moves.
Moves(u, before, at, w, after, stage, v) ==
    /\ At(v, {"created"}, {"running"}) \in Nat /\ At(v, {"created"}, {"running"})' \in Nat
    /\ At(v, {"started"}, {"running"}) \in Nat /\ At(v, {"started"}, {"running"})' \in Nat
    /\ At(v, {"ended"}, EndRows) \in Nat /\ At(v, {"ended"}, EndRows)' \in Nat
    /\ At(v, {"ended"}, {"success"}) \in Nat /\ At(v, {"ended"}, {"success"})' \in Nat
    /\ At(v, {"ended"}, {"failed"}) \in Nat /\ At(v, {"ended"}, {"failed"})' \in Nat
    /\ Having(v, RunRows) \in Nat /\ Having(v, RunRows)' \in Nat
    /\ Having(v, {"running"}) \in Nat /\ Having(v, {"running"})' \in Nat
    /\ Having(v, {"success"}) \in Nat /\ Having(v, {"success"})' \in Nat
    /\ Having(v, {"failed"}) \in Nat /\ Having(v, {"failed"})' \in Nat
    /\ At(v, {"created"}, {"running"})' + Bit(u = v /\ at = "created" /\ before = "running")
          = At(v, {"created"}, {"running"}) + Bit(w = v /\ stage = "created" /\ after = "running")
    /\ At(v, {"started"}, {"running"})' + Bit(u = v /\ at = "started" /\ before = "running")
          = At(v, {"started"}, {"running"}) + Bit(w = v /\ stage = "started" /\ after = "running")
    /\ At(v, {"ended"}, EndRows)' + Bit(u = v /\ at = "ended" /\ before \in EndRows)
          = At(v, {"ended"}, EndRows) + Bit(w = v /\ stage = "ended" /\ after \in EndRows)
    /\ At(v, {"ended"}, {"success"})' + Bit(u = v /\ at = "ended" /\ before = "success")
          = At(v, {"ended"}, {"success"}) + Bit(w = v /\ stage = "ended" /\ after = "success")
    /\ At(v, {"ended"}, {"failed"})' + Bit(u = v /\ at = "ended" /\ before = "failed")
          = At(v, {"ended"}, {"failed"}) + Bit(w = v /\ stage = "ended" /\ after = "failed")
    /\ Having(v, RunRows)' + Bit(u = v /\ before \in RunRows) = Having(v, RunRows) + Bit(w = v /\ after \in RunRows)
    /\ Having(v, {"running"})' + Bit(u = v /\ before = "running") = Having(v, {"running"}) + Bit(w = v /\ after = "running")
    /\ Having(v, {"success"})' + Bit(u = v /\ before = "success") = Having(v, {"success"}) + Bit(w = v /\ after = "success")
    /\ Having(v, {"failed"})' + Bit(u = v /\ before = "failed") = Having(v, {"failed"}) + Bit(w = v /\ after = "failed")

LEMMA AllMove ==
    ASSUME ListTyped, NEW r \in Runs, NEW u, NEW before, NEW at, NEW w, NEW after, NEW stage,
           Was(r, u, before, at), Becomes(r, w, after, stage), NEW v
    PROVE  Moves(u, before, at, w, after, stage, v)
<1>1. \A x, y : x \in {y} <=> x = y
  OBVIOUS
<1>2. \A stages, rows :
         /\ At(v, stages, rows) \in Nat /\ At(v, stages, rows)' \in Nat
         /\ At(v, stages, rows)' + Bit(u = v /\ at \in stages /\ before \in rows)
               = At(v, stages, rows) + Bit(w = v /\ stage \in stages /\ after \in rows)
  BY AtMoves
<1>3. \A rows :
         /\ Having(v, rows) \in Nat /\ Having(v, rows)' \in Nat
         /\ Having(v, rows)' + Bit(u = v /\ before \in rows) = Having(v, rows) + Bit(w = v /\ after \in rows)
  BY HavingMoves
<1>4. ASSUME NEW a, NEW rows
      PROVE  /\ At(v, {a}, rows) \in Nat /\ At(v, {a}, rows)' \in Nat
             /\ At(v, {a}, rows)' + Bit(u = v /\ at = a /\ before \in rows)
                   = At(v, {a}, rows) + Bit(w = v /\ stage = a /\ after \in rows)
  <2>1. (at \in {a} <=> at = a) /\ (stage \in {a} <=> stage = a)
    BY <1>1
  <2>2. /\ Bit(u = v /\ at \in {a} /\ before \in rows) = Bit(u = v /\ at = a /\ before \in rows)
        /\ Bit(w = v /\ stage \in {a} /\ after \in rows) = Bit(w = v /\ stage = a /\ after \in rows)
    BY <2>1 DEF Bit
  <2> QED BY <1>2, <2>2
<1>5. ASSUME NEW a, NEW b
      PROVE  /\ At(v, {a}, {b}) \in Nat /\ At(v, {a}, {b})' \in Nat
             /\ At(v, {a}, {b})' + Bit(u = v /\ at = a /\ before = b)
                   = At(v, {a}, {b}) + Bit(w = v /\ stage = a /\ after = b)
  <2>1. (before \in {b} <=> before = b) /\ (after \in {b} <=> after = b)
    BY <1>1
  <2>2. /\ Bit(u = v /\ at = a /\ before \in {b}) = Bit(u = v /\ at = a /\ before = b)
        /\ Bit(w = v /\ stage = a /\ after \in {b}) = Bit(w = v /\ stage = a /\ after = b)
    BY <2>1 DEF Bit
  <2> QED BY <1>4, <2>2
<1>6. ASSUME NEW b
      PROVE  /\ Having(v, {b}) \in Nat /\ Having(v, {b})' \in Nat
             /\ Having(v, {b})' + Bit(u = v /\ before = b) = Having(v, {b}) + Bit(w = v /\ after = b)
  <2>1. (before \in {b} <=> before = b) /\ (after \in {b} <=> after = b)
    BY <1>1
  <2>2. /\ Bit(u = v /\ before \in {b}) = Bit(u = v /\ before = b)
        /\ Bit(w = v /\ after \in {b}) = Bit(w = v /\ after = b)
    BY <2>1 DEF Bit
  <2> QED BY <1>3, <2>2
<1>7. /\ At(v, {"created"}, {"running"}) \in Nat /\ At(v, {"created"}, {"running"})' \in Nat
      /\ At(v, {"created"}, {"running"})' + Bit(u = v /\ at = "created" /\ before = "running")
            = At(v, {"created"}, {"running"}) + Bit(w = v /\ stage = "created" /\ after = "running")
  BY <1>5
<1>8. /\ At(v, {"started"}, {"running"}) \in Nat /\ At(v, {"started"}, {"running"})' \in Nat
      /\ At(v, {"started"}, {"running"})' + Bit(u = v /\ at = "started" /\ before = "running")
            = At(v, {"started"}, {"running"}) + Bit(w = v /\ stage = "started" /\ after = "running")
  BY <1>5
<1>9. /\ At(v, {"ended"}, EndRows) \in Nat /\ At(v, {"ended"}, EndRows)' \in Nat
      /\ At(v, {"ended"}, EndRows)' + Bit(u = v /\ at = "ended" /\ before \in EndRows)
            = At(v, {"ended"}, EndRows) + Bit(w = v /\ stage = "ended" /\ after \in EndRows)
  BY <1>4
<1>10. /\ At(v, {"ended"}, {"success"}) \in Nat /\ At(v, {"ended"}, {"success"})' \in Nat
      /\ At(v, {"ended"}, {"success"})' + Bit(u = v /\ at = "ended" /\ before = "success")
            = At(v, {"ended"}, {"success"}) + Bit(w = v /\ stage = "ended" /\ after = "success")
  BY <1>5
<1>11. /\ At(v, {"ended"}, {"failed"}) \in Nat /\ At(v, {"ended"}, {"failed"})' \in Nat
      /\ At(v, {"ended"}, {"failed"})' + Bit(u = v /\ at = "ended" /\ before = "failed")
            = At(v, {"ended"}, {"failed"}) + Bit(w = v /\ stage = "ended" /\ after = "failed")
  BY <1>5
<1>12. /\ Having(v, RunRows) \in Nat /\ Having(v, RunRows)' \in Nat
      /\ Having(v, RunRows)' + Bit(u = v /\ before \in RunRows) = Having(v, RunRows) + Bit(w = v /\ after \in RunRows)
  BY <1>3
<1>13. /\ Having(v, {"running"}) \in Nat /\ Having(v, {"running"})' \in Nat
      /\ Having(v, {"running"})' + Bit(u = v /\ before = "running") = Having(v, {"running"}) + Bit(w = v /\ after = "running")
  BY <1>6
<1>14. /\ Having(v, {"success"}) \in Nat /\ Having(v, {"success"})' \in Nat
      /\ Having(v, {"success"})' + Bit(u = v /\ before = "success") = Having(v, {"success"}) + Bit(w = v /\ after = "success")
  BY <1>6
<1>15. /\ Having(v, {"failed"}) \in Nat /\ Having(v, {"failed"})' \in Nat
      /\ Having(v, {"failed"})' + Bit(u = v /\ before = "failed") = Having(v, {"failed"}) + Bit(w = v /\ after = "failed")
  BY <1>6
<1> QED BY <1>7, <1>8, <1>9, <1>10, <1>11, <1>12, <1>13, <1>14, <1>15 DEF Moves

\* What the stream tells after a step.
Announces(w, status, v) ==
    /\ Told(v, {"running"})' = Told(v, {"running"}) + Bit(w = v /\ status = "running")
    /\ Told(v, EndRows)' = Told(v, EndRows) + Bit(w = v /\ status \in EndRows)
    /\ Told(v, {"success"})' = Told(v, {"success"}) + Bit(w = v /\ status = "success")
    /\ Told(v, {"failed"})' = Told(v, {"failed"}) + Bit(w = v /\ status = "failed")
    /\ Len(stream') = Len(stream) + 1 /\ Len(stream) \in Nat
    /\ \A j \in 1 .. Len(stream) + 1 :
          /\ Later(j, v, {"running"})' = Later(j, v, {"running"}) + Bit(w = v /\ status = "running")
          /\ Later(j, v, EndRows)' = Later(j, v, EndRows) + Bit(w = v /\ status \in EndRows)
    /\ \A j : j = Len(stream) + 2 => Later(j, v, {"running"})' = 0 /\ Later(j, v, EndRows)' = 0

LEMMA AllTold ==
    ASSUME ListTyped, NEW w \in Workflows, NEW type, NEW status, Said(w, type, status),
           (type = "started" /\ status = "running") \/ (type = "completed" /\ status \in EndRows), NEW v
    PROVE  Announces(w, status, v)
<1>1. PICK e : e = [of |-> w, type |-> type, status |-> status]
  OBVIOUS
<1>2. e \in Events /\ e.of = w /\ e.status = status /\ stream' = Append(stream, e) /\ stream \in Seq(Events)
  BY <1>1 DEF Events, Said, ListTyped
<1>3. ASSUME NEW statuses
      PROVE  /\ Told(v, statuses)' = Told(v, statuses) + Bit(w = v /\ status \in statuses)
             /\ Len(stream') = Len(stream) + 1 /\ Len(stream) \in Nat
             /\ \A j \in 1 .. Len(stream) + 1 : Later(j, v, statuses)' = Later(j, v, statuses) + Bit(w = v /\ status \in statuses)
             /\ \A j : j = Len(stream) + 2 => Later(j, v, statuses)' = 0
  BY <1>2, ToldMore
<1>4. ASSUME NEW a PROVE Bit(w = v /\ status \in {a}) = Bit(w = v /\ status = a)
  BY DEF Bit
<1> QED BY <1>3, <1>4 DEF Announces

\* What moves of another workflow changes nothing.
LEMMA OthersCarry ==
    ASSUME ListTyped, NEW r \in Runs, NEW u, NEW before, NEW at, NEW w \in Workflows, NEW after, NEW stage,
           Was(r, u, before, at), Becomes(r, w, after, stage), NEW v \in Workflows, v # u, v # w,
           \/ stream' = stream
           \/ \E type, status : /\ Said(w, type, status)
                                /\ (type = "started" /\ status = "running") \/ (type = "completed" /\ status \in EndRows)
    PROVE  Carries(v)
<1>1. /\ At(v, {"created"}, {"running"})' = At(v, {"created"}, {"running"})
      /\ At(v, {"ended"}, EndRows)' = At(v, {"ended"}, EndRows)
      /\ At(v, {"ended"}, {"success"})' = At(v, {"ended"}, {"success"})
      /\ At(v, {"ended"}, {"failed"})' = At(v, {"ended"}, {"failed"})
      /\ Having(v, RunRows)' = Having(v, RunRows)
      /\ Having(v, {"running"})' = Having(v, {"running"})
      /\ Having(v, {"success"})' = Having(v, {"success"})
      /\ Having(v, {"failed"})' = Having(v, {"failed"})
  <2>1. /\ \A stages, rows : At(v, stages, rows)' = At(v, stages, rows)
        /\ \A rows : Having(v, rows)' = Having(v, rows)
    <3>1. ASSUME NEW stages, NEW rows PROVE At(v, stages, rows)' = At(v, stages, rows)
      BY AtMoves DEF Bit
    <3>2. ASSUME NEW rows PROVE Having(v, rows)' = Having(v, rows)
      BY HavingMoves DEF Bit
    <3> QED BY <3>1, <3>2
  <2> QED BY <2>1
<1>2. /\ Told(v, {"running"})' = Told(v, {"running"}) /\ Told(v, EndRows)' = Told(v, EndRows)
      /\ Told(v, {"success"})' = Told(v, {"success"}) /\ Told(v, {"failed"})' = Told(v, {"failed"})
  <2>1. CASE stream' = stream
    BY <2>1 DEF Told
  <2>2. CASE stream' # stream
    <3>1. PICK type, status : /\ Said(w, type, status)
                              /\ (type = "started" /\ status = "running") \/ (type = "completed" /\ status \in EndRows)
      BY <2>2
    <3>2. /\ Told(v, {"running"})' = Told(v, {"running"}) + Bit(w = v /\ status = "running")
          /\ Told(v, EndRows)' = Told(v, EndRows) + Bit(w = v /\ status \in EndRows)
          /\ Told(v, {"success"})' = Told(v, {"success"}) + Bit(w = v /\ status = "success")
          /\ Told(v, {"failed"})' = Told(v, {"failed"}) + Bit(w = v /\ status = "failed")
      <4>1. Announces(w, status, v)
        BY <3>1, AllTold
      <4> QED BY <4>1 DEF Announces
    <3>3. /\ Told(v, {"running"}) \in Nat /\ Told(v, EndRows) \in Nat
          /\ Told(v, {"success"}) \in Nat /\ Told(v, {"failed"}) \in Nat
      BY ToldAre DEF ListTyped
    <3> QED BY <3>2, <3>3 DEF Bit
  <2> QED BY <2>1, <2>2
<1> QED BY <1>1, <1>2 DEF Carries, Accounts

\* What moves of the workflow is told, or has still to be.
LEMMA OwnCarry ==
    ASSUME ListTyped, NEW r \in Runs, NEW w \in Workflows,
           \/ RunStarts(r, w)
           \/ SayStarted(r) /\ Was(r, w, "running", "created")
           \/ \E row \in EndRows : RunEnds(r, row) /\ Was(r, w, "running", "started")
           \/ \E row \in EndRows : SayCompleted(r) /\ Was(r, w, row, "ended")
    PROVE  Carries(w)
<1> SUFFICES ASSUME NEW s \in Stats, Accounts(s, w) PROVE Accounts(s, w)'
  BY DEF Carries
<1>0. /\ Told(w, {"running"}) \in Nat /\ Told(w, EndRows) \in Nat
      /\ Told(w, {"success"}) \in Nat /\ Told(w, {"failed"}) \in Nat
      /\ None # w
  BY ToldAre, ListParts DEF ListTyped
<1>1. PICK a \in Nat, b \in Nat, c \in Nat, d \in Nat : s.total = a /\ s.running = b /\ s.success = c /\ s.failed = d
  BY DEF Stats
<1>2. /\ a + At(w, {"created"}, {"running"}) + Told(w, {"running"}) = Having(w, RunRows)
      /\ b + At(w, {"created"}, {"running"}) + Told(w, {"running"})
            = Having(w, {"running"}) + At(w, {"ended"}, EndRows) + Told(w, EndRows)
      /\ c + At(w, {"ended"}, {"success"}) + Told(w, {"success"}) = Having(w, {"success"})
      /\ d + At(w, {"ended"}, {"failed"}) + Told(w, {"failed"}) = Having(w, {"failed"})
  BY <1>1 DEF Accounts
<1>3. ASSUME /\ a + At(w, {"created"}, {"running"})' + Told(w, {"running"})' = Having(w, RunRows)'
             /\ b + At(w, {"created"}, {"running"})' + Told(w, {"running"})'
                   = Having(w, {"running"})' + At(w, {"ended"}, EndRows)' + Told(w, EndRows)'
             /\ c + At(w, {"ended"}, {"success"})' + Told(w, {"success"})' = Having(w, {"success"})'
             /\ d + At(w, {"ended"}, {"failed"})' + Told(w, {"failed"})' = Having(w, {"failed"})'
      PROVE  Accounts(s, w)'
  BY <1>1, <1>3 DEF Accounts
<1>4. stream' = stream => /\ Told(w, {"running"})' = Told(w, {"running"}) /\ Told(w, EndRows)' = Told(w, EndRows)
                          /\ Told(w, {"success"})' = Told(w, {"success"}) /\ Told(w, {"failed"})' = Told(w, {"failed"})
  BY DEF Told
<1>5. "running" \in RunRows /\ \A row \in EndRows : row \in RunRows /\ row # "running"
  BY DEF RunRows, EndRows
<1>9. "running" \notin EndRows /\ "none" \notin RunRows
  BY DEF RunRows, EndRows
<1>6. CASE RunStarts(r, w)
  <2>1. Was(r, None, "none", "new") /\ Becomes(r, w, "running", "created") /\ stream' = stream
    BY <1>6, RunsGo
  <2>2. Moves(None, "none", "new", w, "running", "created", w)
    BY <2>1, AllMove
  <2>3. /\ At(w, {"created"}, {"running"})' = At(w, {"created"}, {"running"}) + 1
        /\ At(w, {"ended"}, EndRows)' = At(w, {"ended"}, EndRows)
        /\ At(w, {"ended"}, {"success"})' = At(w, {"ended"}, {"success"})
        /\ At(w, {"ended"}, {"failed"})' = At(w, {"ended"}, {"failed"})
        /\ Having(w, RunRows)' = Having(w, RunRows) + 1
        /\ Having(w, {"running"})' = Having(w, {"running"}) + 1
        /\ Having(w, {"success"})' = Having(w, {"success"})
        /\ Having(w, {"failed"})' = Having(w, {"failed"})
        /\ At(w, {"created"}, {"running"}) \in Nat
        /\ At(w, {"ended"}, EndRows) \in Nat
        /\ At(w, {"ended"}, {"success"}) \in Nat
        /\ At(w, {"ended"}, {"failed"}) \in Nat
        /\ Having(w, RunRows) \in Nat
        /\ Having(w, {"running"}) \in Nat
        /\ Having(w, {"success"}) \in Nat
        /\ Having(w, {"failed"}) \in Nat
    BY <1>0, <1>5, <1>9, <2>1, <2>2 DEF Moves, Bit
  <2>5. /\ Told(w, {"running"})' = Told(w, {"running"})
        /\ Told(w, EndRows)' = Told(w, EndRows)
        /\ Told(w, {"success"})' = Told(w, {"success"})
        /\ Told(w, {"failed"})' = Told(w, {"failed"})
    BY <1>4, <2>1
  <2> QED BY <1>0, <1>2, <1>3, <2>3, <2>5
<1>7. CASE SayStarted(r) /\ Was(r, w, "running", "created")
  <2>1. Was(r, w, "running", "created") /\ Becomes(r, w, "running", "started") /\ Said(w, "started", "running")
    <3>1. PICK v \in Workflows : Was(r, v, "running", "created") /\ Becomes(r, v, "running", "started") /\ Said(v, "started", "running")
      BY <1>7, RunsGo
    <3>2. v = w
      BY <1>7, <3>1 DEF Was
    <3> QED BY <3>1, <3>2
  <2>2. Moves(w, "running", "created", w, "running", "started", w)
    BY <2>1, AllMove
  <2>3. /\ At(w, {"created"}, {"running"})' = At(w, {"created"}, {"running"}) - 1
        /\ At(w, {"ended"}, EndRows)' = At(w, {"ended"}, EndRows)
        /\ At(w, {"ended"}, {"success"})' = At(w, {"ended"}, {"success"})
        /\ At(w, {"ended"}, {"failed"})' = At(w, {"ended"}, {"failed"})
        /\ Having(w, RunRows)' = Having(w, RunRows)
        /\ Having(w, {"running"})' = Having(w, {"running"})
        /\ Having(w, {"success"})' = Having(w, {"success"})
        /\ Having(w, {"failed"})' = Having(w, {"failed"})
        /\ At(w, {"created"}, {"running"}) \in Nat
        /\ At(w, {"ended"}, EndRows) \in Nat
        /\ At(w, {"ended"}, {"success"}) \in Nat
        /\ At(w, {"ended"}, {"failed"}) \in Nat
        /\ Having(w, RunRows) \in Nat
        /\ Having(w, {"running"}) \in Nat
        /\ Having(w, {"success"}) \in Nat
        /\ Having(w, {"failed"}) \in Nat
    BY <1>0, <1>5, <1>9, <2>1, <2>2 DEF Moves, Bit
  <2>4. Announces(w, "running", w)
    BY <2>1, AllTold DEF EndRows
  <2>5. /\ Told(w, {"running"})' = Told(w, {"running"}) + 1
        /\ Told(w, EndRows)' = Told(w, EndRows)
        /\ Told(w, {"success"})' = Told(w, {"success"})
        /\ Told(w, {"failed"})' = Told(w, {"failed"})
    BY <1>0, <1>5, <1>9, <2>1, <2>4 DEF Announces, Bit
  <2>6. a + At(w, {"created"}, {"running"})' + Told(w, {"running"})' = Having(w, RunRows)'
    BY <1>0, <1>2, <2>3, <2>5
  <2>7. b + At(w, {"created"}, {"running"})' + Told(w, {"running"})'
           = Having(w, {"running"})' + At(w, {"ended"}, EndRows)' + Told(w, EndRows)'
    BY <1>0, <1>2, <2>3, <2>5
  <2>8. c + At(w, {"ended"}, {"success"})' + Told(w, {"success"})' = Having(w, {"success"})'
    BY <1>0, <1>2, <2>3, <2>5
  <2>9. d + At(w, {"ended"}, {"failed"})' + Told(w, {"failed"})' = Having(w, {"failed"})'
    BY <1>0, <1>2, <2>3, <2>5
  <2> QED BY <1>3, <2>6, <2>7, <2>8, <2>9
<1>8. ASSUME NEW row \in EndRows, RunEnds(r, row), Was(r, w, "running", "started")
      PROVE  Accounts(s, w)'
  <2>1. Becomes(r, w, row, "ended") /\ stream' = stream
    <3>1. PICK v \in Workflows : Was(r, v, "running", "started") /\ Becomes(r, v, row, "ended") /\ stream' = stream
      BY <1>8, RunsGo
    <3>2. v = w
      BY <1>8, <3>1 DEF Was
    <3> QED BY <3>1, <3>2
  <2>2. Moves(w, "running", "started", w, row, "ended", w)
    BY <1>8, <2>1, AllMove
  <2>3. /\ At(w, {"created"}, {"running"})' = At(w, {"created"}, {"running"})
        /\ At(w, {"ended"}, EndRows)' = At(w, {"ended"}, EndRows) + 1
        /\ At(w, {"ended"}, {"success"})' = At(w, {"ended"}, {"success"}) + (IF row = "success" THEN 1 ELSE 0)
        /\ At(w, {"ended"}, {"failed"})' = At(w, {"ended"}, {"failed"}) + (IF row = "failed" THEN 1 ELSE 0)
        /\ Having(w, RunRows)' = Having(w, RunRows)
        /\ Having(w, {"running"})' = Having(w, {"running"}) - 1
        /\ Having(w, {"success"})' = Having(w, {"success"}) + (IF row = "success" THEN 1 ELSE 0)
        /\ Having(w, {"failed"})' = Having(w, {"failed"}) + (IF row = "failed" THEN 1 ELSE 0)
        /\ At(w, {"created"}, {"running"}) \in Nat
        /\ At(w, {"ended"}, EndRows) \in Nat
        /\ At(w, {"ended"}, {"success"}) \in Nat
        /\ At(w, {"ended"}, {"failed"}) \in Nat
        /\ Having(w, RunRows) \in Nat
        /\ Having(w, {"running"}) \in Nat
        /\ Having(w, {"success"}) \in Nat
        /\ Having(w, {"failed"}) \in Nat
    BY <1>0, <1>5, <1>9, <1>8, <2>1, <2>2 DEF Moves, Bit
  <2>5. /\ Told(w, {"running"})' = Told(w, {"running"})
        /\ Told(w, EndRows)' = Told(w, EndRows)
        /\ Told(w, {"success"})' = Told(w, {"success"})
        /\ Told(w, {"failed"})' = Told(w, {"failed"})
    BY <1>4, <2>1
  <2> QED BY <1>0, <1>2, <1>3, <2>3, <2>5
<1>10. ASSUME NEW row \in EndRows, SayCompleted(r), Was(r, w, row, "ended")
       PROVE  Accounts(s, w)'
  <2>1. Becomes(r, w, row, "over") /\ Said(w, "completed", row)
    <3>1. PICK v \in Workflows, status \in EndRows :
             Was(r, v, status, "ended") /\ Becomes(r, v, status, "over") /\ Said(v, "completed", status)
      BY <1>10, RunsGo
    <3>2. v = w /\ status = row
      BY <1>10, <3>1 DEF Was
    <3> QED BY <3>1, <3>2
  <2>2. Moves(w, row, "ended", w, row, "over", w)
    BY <1>10, <2>1, AllMove
  <2>3. /\ At(w, {"created"}, {"running"})' = At(w, {"created"}, {"running"})
        /\ At(w, {"ended"}, EndRows)' = At(w, {"ended"}, EndRows) - 1
        /\ At(w, {"ended"}, {"success"})' + (IF row = "success" THEN 1 ELSE 0) = At(w, {"ended"}, {"success"})
        /\ At(w, {"ended"}, {"failed"})' + (IF row = "failed" THEN 1 ELSE 0) = At(w, {"ended"}, {"failed"})
        /\ Having(w, RunRows)' = Having(w, RunRows)
        /\ Having(w, {"running"})' = Having(w, {"running"})
        /\ Having(w, {"success"})' = Having(w, {"success"})
        /\ Having(w, {"failed"})' = Having(w, {"failed"})
        /\ At(w, {"created"}, {"running"}) \in Nat
        /\ At(w, {"ended"}, EndRows) \in Nat
        /\ At(w, {"ended"}, {"success"}) \in Nat /\ At(w, {"ended"}, {"success"})' \in Nat
        /\ At(w, {"ended"}, {"failed"}) \in Nat /\ At(w, {"ended"}, {"failed"})' \in Nat
        /\ Having(w, RunRows) \in Nat
        /\ Having(w, {"running"}) \in Nat
        /\ Having(w, {"success"}) \in Nat
        /\ Having(w, {"failed"}) \in Nat
    BY <1>0, <1>5, <1>9, <1>10, <2>1, <2>2 DEF Moves, Bit
  <2>4. Announces(w, row, w)
    BY <1>10, <2>1, AllTold DEF EndRows
  <2>5. /\ Told(w, {"running"})' = Told(w, {"running"})
        /\ Told(w, EndRows)' = Told(w, EndRows) + 1
        /\ Told(w, {"success"})' = Told(w, {"success"}) + (IF row = "success" THEN 1 ELSE 0)
        /\ Told(w, {"failed"})' = Told(w, {"failed"}) + (IF row = "failed" THEN 1 ELSE 0)
    BY <1>0, <1>5, <1>9, <1>10, <2>1, <2>4 DEF Announces, Bit
  <2>6. a + At(w, {"created"}, {"running"})' + Told(w, {"running"})' = Having(w, RunRows)'
    BY <1>0, <1>2, <2>3, <2>5
  <2>7. b + At(w, {"created"}, {"running"})' + Told(w, {"running"})'
           = Having(w, {"running"})' + At(w, {"ended"}, EndRows)' + Told(w, EndRows)'
    BY <1>0, <1>2, <2>3, <2>5
  <2>8. c + At(w, {"ended"}, {"success"})' + Told(w, {"success"})' = Having(w, {"success"})'
    BY <1>0, <1>2, <2>3, <2>5
  <2>9. d + At(w, {"ended"}, {"failed"})' + Told(w, {"failed"})' = Having(w, {"failed"})'
    BY <1>0, <1>2, <2>3, <2>5
  <2> QED BY <1>3, <2>6, <2>7, <2>8, <2>9
<1> QED BY <1>6, <1>7, <1>8, <1>10

\* Those that have begun and of whose end nothing has been said.
Going(v) == At(v, {"started"}, {"running"}) + At(v, {"ended"}, EndRows)

LEMMA OrderQuiet ==
    ASSUME InOrder, ListTyped, stream' = stream, \A v \in Workflows : Going(v)' \in Nat /\ Going(v)' >= Going(v)
    PROVE  InOrder'
<1> SUFFICES ASSUME NEW v \in Workflows, NEW j \in 1 .. Len(stream) + 1
             PROVE  Later(j, v, {"running"})' <= Going(v)' + Later(j, v, EndRows)'
  BY DEF InOrder, Going
<1>1. Later(j, v, {"running"}) <= Going(v) + Later(j, v, EndRows)
  BY DEF InOrder, Going
<1>2. Later(j, v, {"running"})' = Later(j, v, {"running"}) /\ Later(j, v, EndRows)' = Later(j, v, EndRows)
  BY DEF Later
<1>3. Later(j, v, {"running"}) \in Nat /\ Later(j, v, EndRows) \in Nat
  BY ToldAre DEF ListTyped
<1>4. Going(v) \in Nat
  <2>1. At(v, {"started"}, {"running"}) \in Nat /\ At(v, {"ended"}, EndRows) \in Nat
    BY AtIsNumber
  <2> QED BY <2>1 DEF Going
<1>5. Going(v)' \in Nat /\ Going(v)' >= Going(v)
  OBVIOUS
<1> QED BY <1>1, <1>2, <1>3, <1>4, <1>5

LEMMA OrderSaid ==
    ASSUME InOrder, ListTyped, NEW w \in Workflows, NEW status, \A v \in Workflows : Announces(w, status, v),
           \A v \in Workflows : /\ Going(v)' \in Nat
                                /\ Going(v)' + Bit(w = v /\ status \in EndRows) >= Going(v) + Bit(w = v /\ status = "running")
    PROVE  InOrder'
<1>1. SUFFICES ASSUME NEW v \in Workflows, NEW j \in 1 .. Len(stream') + 1
               PROVE  Later(j, v, {"running"})' <= Going(v)' + Later(j, v, EndRows)'
  BY DEF InOrder, Going
<1>2. Announces(w, status, v)
  OBVIOUS
<1>3. Len(stream') = Len(stream) + 1 /\ Len(stream) \in Nat
  BY <1>2 DEF Announces
<1>4. Going(v) \in Nat /\ Going(v)' \in Nat
  BY AtIsNumber DEF Going
<1>5. CASE j \in 1 .. Len(stream) + 1
  <2>1. Later(j, v, {"running"}) <= Going(v) + Later(j, v, EndRows)
    BY <1>5 DEF InOrder, Going
  <2>2. Later(j, v, {"running"}) \in Nat /\ Later(j, v, EndRows) \in Nat
    BY <1>5, ToldAre DEF ListTyped
  <2>3. /\ Later(j, v, {"running"})' = Later(j, v, {"running"}) + Bit(w = v /\ status = "running")
        /\ Later(j, v, EndRows)' = Later(j, v, EndRows) + Bit(w = v /\ status \in EndRows)
    BY <1>2, <1>5 DEF Announces
  <2>4. Going(v)' + Bit(w = v /\ status \in EndRows) >= Going(v) + Bit(w = v /\ status = "running")
    OBVIOUS
  <2> QED BY <1>4, <2>1, <2>2, <2>3, <2>4 DEF Bit
<1>6. CASE j \notin 1 .. Len(stream) + 1
  <2>1. j = Len(stream) + 2
    BY <1>3, <1>6
  <2>2. Later(j, v, {"running"})' = 0 /\ Later(j, v, EndRows)' = 0
    BY <1>2, <2>1 DEF Announces
  <2> QED BY <1>4, <2>2
<1> QED BY <1>5, <1>6

LEMMA GoingMoves ==
    ASSUME ListTyped, NEW r \in Runs, NEW u, NEW before, NEW at, NEW w, NEW after, NEW stage,
           Was(r, u, before, at), Becomes(r, w, after, stage), NEW v
    PROVE  /\ Going(v) \in Nat /\ Going(v)' \in Nat
           /\ Going(v)' + Bit(u = v /\ at = "started" /\ before = "running") + Bit(u = v /\ at = "ended" /\ before \in EndRows)
                 = Going(v) + Bit(w = v /\ stage = "started" /\ after = "running") + Bit(w = v /\ stage = "ended" /\ after \in EndRows)
<1>1. Moves(u, before, at, w, after, stage, v)
  BY AllMove
<1>2. /\ At(v, {"started"}, {"running"}) \in Nat /\ At(v, {"started"}, {"running"})' \in Nat
      /\ At(v, {"ended"}, EndRows) \in Nat /\ At(v, {"ended"}, EndRows)' \in Nat
      /\ At(v, {"started"}, {"running"})' + Bit(u = v /\ at = "started" /\ before = "running")
            = At(v, {"started"}, {"running"}) + Bit(w = v /\ stage = "started" /\ after = "running")
      /\ At(v, {"ended"}, EndRows)' + Bit(u = v /\ at = "ended" /\ before \in EndRows)
            = At(v, {"ended"}, EndRows) + Bit(w = v /\ stage = "ended" /\ after \in EndRows)
  BY <1>1 DEF Moves
<1>3. \A b : Bit(b) \in Nat
  BY DEF Bit
<1>4. PICK k, l, m, n : /\ k = Bit(u = v /\ at = "started" /\ before = "running")
                        /\ l = Bit(u = v /\ at = "ended" /\ before \in EndRows)
                        /\ m = Bit(w = v /\ stage = "started" /\ after = "running")
                        /\ n = Bit(w = v /\ stage = "ended" /\ after \in EndRows)
  OBVIOUS
<1>5. k \in Nat /\ l \in Nat /\ m \in Nat /\ n \in Nat
  BY <1>4 DEF Bit
<1>6. Going(v)' + k + l = Going(v) + m + n
  BY <1>2, <1>4, <1>5 DEF Going
<1> QED BY <1>2, <1>4, <1>6 DEF Going

LEMMA OrderRuns ==
    ASSUME ListTyped, InOrder, NEW r \in Runs,
           \/ \E w \in Workflows : RunStarts(r, w)
           \/ ExpansionFails(r) \/ SayStarted(r) \/ SayCompleted(r)
           \/ \E row \in EndRows : RunEnds(r, row)
           \/ \E row \in {"running"} \cup EndRows : RunAgain(r, row)
    PROVE  InOrder'
<1>0. "running" \notin EndRows /\ \A v \in Workflows : None # v
  BY ListParts DEF EndRows
<1>1. ASSUME NEW w \in Workflows, RunStarts(r, w) PROVE InOrder'
  <2>1. Was(r, None, "none", "new") /\ Becomes(r, w, "running", "created") /\ stream' = stream
    BY <1>1, RunsGo
  <2>2. ASSUME NEW v \in Workflows PROVE Going(v)' \in Nat /\ Going(v)' >= Going(v)
    BY <2>1, GoingMoves DEF Bit
  <2> QED BY <2>1, <2>2, OrderQuiet
<1>2. ASSUME ExpansionFails(r) PROVE InOrder'
  <2>1. PICK w \in Workflows :
           Was(r, w, "running", "created") /\ Becomes(r, w, "failed", "over") /\ Said(w, "completed", "failed")
    BY <1>2, RunsGo
  <2>2. ASSUME NEW v \in Workflows
        PROVE  Going(v)' \in Nat /\ Going(v)' + Bit(w = v /\ "failed" \in EndRows) >= Going(v) + Bit(w = v /\ "failed" = "running")
    BY <2>1, GoingMoves DEF Bit, EndRows
  <2>3. \A v \in Workflows : Announces(w, "failed", v)
    BY <2>1, AllTold DEF EndRows
  <2> QED BY <2>2, <2>3, OrderSaid
<1>3. ASSUME SayStarted(r) PROVE InOrder'
  <2>1. PICK w \in Workflows :
           Was(r, w, "running", "created") /\ Becomes(r, w, "running", "started") /\ Said(w, "started", "running")
    BY <1>3, RunsGo
  <2>2. ASSUME NEW v \in Workflows
        PROVE  Going(v)' \in Nat /\ Going(v)' + Bit(w = v /\ "running" \in EndRows) >= Going(v) + Bit(w = v /\ "running" = "running")
    BY <1>0, <2>1, GoingMoves DEF Bit
  <2>3. \A v \in Workflows : Announces(w, "running", v)
    BY <2>1, AllTold
  <2> QED BY <2>2, <2>3, OrderSaid
<1>4. ASSUME SayCompleted(r) PROVE InOrder'
  <2>1. PICK w \in Workflows, row \in EndRows :
           Was(r, w, row, "ended") /\ Becomes(r, w, row, "over") /\ Said(w, "completed", row)
    BY <1>4, RunsGo
  <2>2. ASSUME NEW v \in Workflows
        PROVE  Going(v)' \in Nat /\ Going(v)' + Bit(w = v /\ row \in EndRows) >= Going(v) + Bit(w = v /\ row = "running")
    BY <1>0, <2>1, GoingMoves DEF Bit
  <2>3. \A v \in Workflows : Announces(w, row, v)
    BY <2>1, AllTold
  <2> QED BY <2>2, <2>3, OrderSaid
<1>5. ASSUME NEW row \in EndRows, RunEnds(r, row) PROVE InOrder'
  <2>1. PICK w \in Workflows : Was(r, w, "running", "started") /\ Becomes(r, w, row, "ended") /\ stream' = stream
    BY <1>5, RunsGo
  <2>2. ASSUME NEW v \in Workflows PROVE Going(v)' \in Nat /\ Going(v)' >= Going(v)
    BY <1>0, <2>1, GoingMoves DEF Bit
  <2> QED BY <2>1, <2>2, OrderQuiet
<1>6. ASSUME NEW row \in {"running"} \cup EndRows, RunAgain(r, row) PROVE InOrder'
  <2>1. PICK w \in Workflows, before \in {"running"} \cup EndRows :
           Was(r, w, before, "over") /\ Becomes(r, w, row, "over") /\ stream' = stream
    BY <1>6, RunsGo
  <2>2. ASSUME NEW v \in Workflows PROVE Going(v)' \in Nat /\ Going(v)' >= Going(v)
    BY <2>1, GoingMoves DEF Bit
  <2> QED BY <2>1, <2>2, OrderQuiet
<1> QED BY <1>1, <1>2, <1>3, <1>4, <1>5, <1>6

LEMMA NumbersRuns ==
    ASSUME ListTyped, ListNumbers, NEW r \in Runs,
           \/ \E w \in Workflows : RunStarts(r, w)
           \/ ExpansionFails(r) \/ SayStarted(r) \/ SayCompleted(r)
           \/ \E row \in EndRows : RunEnds(r, row)
           \/ \E row \in {"running"} \cup EndRows : RunAgain(r, row)
    PROVE  ListNumbers'
<1>0. /\ None \notin Workflows /\ InOrder /\ "failed" \in EndRows
      /\ InOrder'
  <2>1. InOrder
    BY DEF ListNumbers
  <2> QED BY <2>1, ListParts, OrderRuns DEF EndRows
<1>1. UNCHANGED <<workflows, load>>
  BY Zenon DEF RunStarts, ExpansionFails, SayStarted, SayCompleted, RunEnds, RunAgain, cardVars
<1>2. ASSUME Quietly, \A v \in Workflows : Carries(v) PROVE ListNumbers'
  <2>1. unsure' = unsure /\ doubt' = doubt
    BY <1>2 DEF Quietly
  <2> QED BY <1>0, <1>1, <1>2, <2>1, NumbersCarried
<1>3. ASSUME NEW w \in Workflows, Silently(w), \A v \in Workflows \ {w} : Carries(v) PROVE ListNumbers'
  <2>1. /\ unsure \subseteq unsure' /\ w \in unsure'
        /\ load.step = "answer" => doubt \subseteq doubt' /\ w \in doubt'
    BY <1>3 DEF Silently
  <2>2. ASSUME NEW v \in Workflows, v \notin unsure' \/ (load.step = "answer" /\ v \notin doubt') PROVE Carries(v)
    BY <1>3, <2>1, <2>2
  <2> QED BY <1>0, <1>1, <2>1, <2>2, NumbersCarried
<1>4. ASSUME NEW w \in Workflows, RunStarts(r, w) PROVE ListNumbers'
  <2>1. Was(r, None, "none", "new") /\ Becomes(r, w, "running", "created") /\ stream' = stream
    BY <1>4, RunsGo
  <2>2. \A v \in Workflows : v # w => Carries(v)
    BY <1>0, <2>1, OthersCarry
  <2>3. Carries(w) /\ Quietly
    BY <1>4, OwnCarry DEF RunStarts
  <2> QED BY <1>2, <2>2, <2>3
<1>5. ASSUME ExpansionFails(r) PROVE ListNumbers'
  <2>1. PICK w \in Workflows :
           /\ Was(r, w, "running", "created") /\ Becomes(r, w, "failed", "over") /\ Said(w, "completed", "failed")
           /\ Silently(w)
    BY <1>5, RunsGo
  <2>2. \A v \in Workflows \ {w} : Carries(v)
    BY <1>0, <2>1, OthersCarry
  <2> QED BY <1>3, <2>1, <2>2
<1>6. ASSUME SayStarted(r) PROVE ListNumbers'
  <2>1. PICK w \in Workflows :
           Was(r, w, "running", "created") /\ Becomes(r, w, "running", "started") /\ Said(w, "started", "running")
    BY <1>6, RunsGo
  <2>2. \A v \in Workflows : v # w => Carries(v)
    BY <2>1, OthersCarry
  <2>3. Carries(w) /\ Quietly
    BY <1>6, <2>1, OwnCarry DEF SayStarted
  <2> QED BY <1>2, <2>2, <2>3
<1>7. ASSUME SayCompleted(r) PROVE ListNumbers'
  <2>1. PICK w \in Workflows, row \in EndRows :
           Was(r, w, row, "ended") /\ Becomes(r, w, row, "over") /\ Said(w, "completed", row)
    BY <1>7, RunsGo
  <2>2. \A v \in Workflows : v # w => Carries(v)
    BY <2>1, OthersCarry
  <2>3. Carries(w) /\ Quietly
    BY <1>7, <2>1, OwnCarry DEF SayCompleted
  <2> QED BY <1>2, <2>2, <2>3
<1>8. ASSUME NEW row \in EndRows, RunEnds(r, row) PROVE ListNumbers'
  <2>1. PICK w \in Workflows : Was(r, w, "running", "started") /\ Becomes(r, w, row, "ended") /\ stream' = stream
    BY <1>8, RunsGo
  <2>2. \A v \in Workflows : v # w => Carries(v)
    BY <2>1, OthersCarry
  <2>3. Carries(w) /\ Quietly
    BY <1>8, <2>1, OwnCarry DEF RunEnds
  <2> QED BY <1>2, <2>2, <2>3
<1>9. ASSUME NEW row \in {"running"} \cup EndRows, RunAgain(r, row) PROVE ListNumbers'
  <2>1. PICK w \in Workflows, before \in {"running"} \cup EndRows :
           Was(r, w, before, "over") /\ Becomes(r, w, row, "over") /\ stream' = stream /\ Silently(w)
    BY <1>9, RunsGo
  <2>2. \A v \in Workflows \ {w} : Carries(v)
    BY <2>1, OthersCarry
  <2> QED BY <1>3, <2>1, <2>2
<1> QED BY <1>4, <1>5, <1>6, <1>7, <1>8, <1>9

\* Without anything untold, the numbers that account for the rows are theirs.
LEMMA NothingUntold ==
    ASSUME ListTyped, NEW w, ~Untold(w)
    PROVE  /\ \A rows : At(w, {"created"}, rows) = 0 /\ At(w, {"ended"}, rows) = 0
           /\ \A statuses : Told(w, statuses) = 0
<1>1. ASSUME NEW r \in Runs, run[r].of = w PROVE run[r].stage # "created" /\ run[r].stage # "ended"
  BY <1>1 DEF Untold
<1>2. ASSUME NEW rows, NEW stage \in {"created", "ended"} PROVE At(w, {stage}, rows) = 0
  <2>1. {r \in Runs : run[r].of = w /\ run[r].stage \in {stage} /\ run[r].row \in rows} = {}
    BY <1>1, <1>2
  <2> QED BY <2>1, FS_EmptySet DEF At
<1>3. ASSUME NEW statuses PROVE Told(w, statuses) = 0
  <2>1. \A i \in 1 .. Len(stream) : stream[i].of # w
    <3>1. DOMAIN stream = 1 .. Len(stream)
      BY MembersAre DEF ListTyped
    <3> QED BY <3>1 DEF Untold
  <2> QED BY <2>1, MentionsAre DEF Told, ListTyped
<1> QED BY <1>2, <1>3

LEMMA StatsAccount ==
    ASSUME ListTyped, NEW w, ~Untold(w), NEW s \in Stats
    PROVE  Accounts(s, w) <=> s = ExecutionStats(w)
<1>1. PICK a \in Nat, b \in Nat, c \in Nat, d \in Nat : s = [total |-> a, running |-> b, success |-> c, failed |-> d]
  BY DEF Stats
<1>2. PICK k \in Nat, l \in Nat, m \in Nat, n \in Nat :
         k = Having(w, RunRows) /\ l = Having(w, {"running"}) /\ m = Having(w, {"success"}) /\ n = Having(w, {"failed"})
  BY HavingIsNumber
<1>3. Accounts(s, w) <=> a = k /\ b = l /\ c = m /\ d = n
  <2>1. /\ At(w, {"created"}, {"running"}) = 0 /\ At(w, {"ended"}, EndRows) = 0
        /\ At(w, {"ended"}, {"success"}) = 0 /\ At(w, {"ended"}, {"failed"}) = 0
        /\ Told(w, {"running"}) = 0 /\ Told(w, EndRows) = 0 /\ Told(w, {"success"}) = 0 /\ Told(w, {"failed"}) = 0
    BY NothingUntold
  <2> QED BY <1>1, <1>2, <2>1 DEF Accounts
<1>4. ExecutionStats(w) = [total |-> k, running |-> l, success |-> m, failed |-> n]
  BY <1>2 DEF ExecutionStats, RunRows
<1> QED BY <1>1, <1>3, <1>4

\* Without a change of the rows and of the stream, cards and items stay right.
LEMMA NumbersKept ==
    ASSUME ListTyped, ListNumbers, UNCHANGED <<run, stream>>,
           \A c \in ToSet(workflows') : c.id \notin unsure' =>
              \/ c \in ToSet(workflows) /\ c.id \notin unsure
              \/ load.step = "answer" /\ c \in ToSet(load.items) /\ c.id \notin doubt,
           load'.step = "answer" => \A c \in ToSet(load'.items) : c.id \notin doubt' =>
              \/ load.step = "answer" /\ c \in ToSet(load.items) /\ c.id \notin doubt
              \/ Accounts(c.stats, c.id)
    PROVE  ListNumbers'
<1>1. \A s, v : Accounts(s, v)' <=> Accounts(s, v)
  BY DEF Accounts, At, Told, Having
<1>2. CardsAccount'
  <2>1. SUFFICES ASSUME NEW c \in ToSet(workflows'), c.id \notin unsure' PROVE Accounts(c.stats, c.id)'
    BY DEF CardsAccount
  <2>2. Accounts(c.stats, c.id)
    BY <2>1 DEF ListNumbers, CardsAccount, ItemsAccount
  <2> QED BY <1>1, <2>2
<1>3. ItemsAccount'
  <2>1. SUFFICES ASSUME load'.step = "answer", NEW c \in ToSet(load'.items), c.id \notin doubt' PROVE Accounts(c.stats, c.id)'
    BY DEF ItemsAccount
  <2>2. Accounts(c.stats, c.id)
    BY <2>1 DEF ListNumbers, ItemsAccount
  <2> QED BY <1>1, <2>2
<1>4. InOrder'
  BY DEF ListNumbers, InOrder, At, Later
<1> QED BY <1>2, <1>3, <1>4 DEF ListNumbers

LEMMA NumbersLoads ==
    ASSUME ListTyped, ListNumbers, \/ \E f \in Filters : ApplyFilters(f)
                                   \/ Search \/ HandleScroll \/ CountRows \/ SelectRows \/ ListAnswer \/ ListLoadFails
    PROVE  ListNumbers'
<1>1. CASE (\E f \in Filters : ApplyFilters(f)) \/ Search \/ HandleScroll
  <2>1. /\ UNCHANGED <<run, stream, workflows, unsure, doubt>>
        /\ load' = load \/ load'.step = "count"
    BY <1>1, Zenon DEF ApplyFilters, Search, HandleScroll, LoadPage, LoadOf, NoLoad, rowVars, cardVars, doubtVars
  <2> QED BY <2>1, NumbersKept
<1>2. CASE CountRows \/ ListLoadFails
  <2>1. UNCHANGED <<run, stream, workflows, unsure>> /\ load'.step # "answer"
    BY <1>2, ListBlanks DEF CountRows, ListLoadFails, rowVars, cardVars, ListTyped, PageLoad
  <2> QED BY <2>1, NumbersKept
<1>3. CASE SelectRows
  <2>1. PICK rows, last, part : /\ rows = Matching(load.filters)
                                /\ last = (IF load.page * PageSize < Len(rows) THEN load.page * PageSize ELSE Len(rows))
                                /\ part = SubSeq(rows, (load.page - 1) * PageSize + 1, last)
                                /\ load' = [load EXCEPT !.step = "answer", !.items = [i \in DOMAIN part |-> Card(part[i])]]
                                /\ doubt' = {w \in ToSet(part) : Untold(w)}
    BY <1>3 DEF SelectRows
  <2>2. UNCHANGED <<run, stream, workflows, unsure>>
    BY <1>3 DEF SelectRows, rowVars, cardVars
  <2>3. part \in Seq(Workflows)
    <3>1. rows \in Seq(Workflows)
      BY <2>1, MatchingIs DEF ListTyped
    <3>2. last \in Nat /\ last <= Len(rows) /\ (load.page - 1) * PageSize + 1 \in Nat \ {0}
      <4>1. PICK n \in Nat : n = load.page - 1
        BY ListParts
      <4>2. n * PageSize \in Nat /\ load.page * PageSize \in Nat
        BY ListParts
      <4>3. Len(rows) \in Nat
        BY <3>1, MembersAre
      <4> QED BY <2>1, <4>1, <4>2, <4>3
    <3> QED BY <2>1, <3>1, <3>2, PartMembers
  <2>4. PICK items : items = [i \in DOMAIN part |-> Card(part[i])]
    OBVIOUS
  <2>5. items \in Seq(Cards) /\ Len(items) = Len(part) /\ \A i \in 1 .. Len(part) : items[i] = Card(part[i]) /\ part[i] \in Workflows
    BY <2>3, <2>4, CardsOf
  <2>6. load'.items = items
    BY <2>1, <2>4 DEF ListTyped, PageLoad
  <2>7. ASSUME NEW c \in ToSet(items), c.id \notin doubt' PROVE Accounts(c.stats, c.id)
    <3>1. PICK i \in 1 .. Len(part) : c = Card(part[i])
      BY <2>5, <2>7, MembersAre
    <3>2. c.id = part[i] /\ c.stats = ExecutionStats(part[i]) /\ part[i] \in Workflows
      BY <2>5, <3>1 DEF Card
    <3>3. ~Untold(part[i])
      <4>1. part[i] \in ToSet(part)
        BY <2>3, MembersAre
      <4>2. part[i] \notin {w \in ToSet(part) : Untold(w)}
        BY <2>1, <2>7, <3>2
      <4> QED BY <4>1, <4>2
    <3> QED BY <3>2, <3>3, CardIsCard, StatsAccount
  <2> QED BY <2>2, <2>6, <2>7, NumbersKept
<1>4. CASE ListAnswer
  <2>1. UNCHANGED <<run, stream>> /\ load.step = "answer" /\ load'.step # "answer"
    BY <1>4, ListBlanks DEF ListAnswer, rowVars
  <2>2. CASE load.append
    <3>1. PICK there, kept : there = ToSet(Ids(workflows)) /\ kept = But(load.items, there)
      OBVIOUS
    <3>2. workflows' = workflows \o kept /\ unsure' = unsure \cup (doubt \ there)
      BY <1>4, <2>2, <3>1 DEF ListAnswer
    <3>3. workflows \in Seq(Cards) /\ load.items \in Seq(Cards)
      BY ListParts DEF ListTyped, CardsTyped
    <3>4. /\ kept \in Seq(Cards) /\ ToSet(kept) \subseteq ToSet(load.items)
          /\ \A c \in ToSet(kept) : c.id \notin there
      <4>1. kept \in Seq(Cards) /\ ToSet(kept) = ToSet(load.items) \cap {c \in ToSet(load.items) : c.id \notin there}
        BY <3>1, <3>3, FilteredKeeps, FilteredElements DEF But
      <4> QED BY <4>1
    <3>5. ToSet(workflows') = ToSet(workflows) \cup ToSet(kept)
      BY <3>2, <3>3, <3>4, ConcatMembers
    <3> QED BY <2>1, <3>2, <3>4, <3>5, NumbersKept
  <2>3. CASE ~load.append
    <3>1. workflows' = load.items /\ unsure' = doubt
      BY <1>4, <2>3 DEF ListAnswer
    <3> QED BY <2>1, <3>1, NumbersKept
  <2> QED BY <2>2, <2>3, ListParts
<1> QED BY <1>1, <1>2, <1>3, <1>4

LEMMA NumbersDeletions ==
    ASSUME ListTyped, ListNumbers, \/ \E w \in Workflows : AskToDelete(w) \/ DeleteUnasked(w) \/ OthersCreate(w) \/ OthersDelete(w)
                                   \/ \E ok \in BOOLEAN : AnswerDialog(ok)
                                   \/ \E k \in Removals : DeleteRow(k) \/ DeleteAnswer(k) \/ DeleteFails(k)
    PROVE  ListNumbers'
<1>1. UNCHANGED <<run, stream, load, unsure, doubt>>
  BY Zenon DEF AskToDelete, DeleteUnasked, SendDelete, OthersCreate, OthersDelete, AnswerDialog, DeleteRow, DeleteAnswer,
     DeleteFails, rowVars, cardVars, doubtVars
<1>2. workflows' = workflows \/ \E k \in Removals : workflows' = But(workflows, {removal[k].of})
  BY Zenon DEF AskToDelete, DeleteUnasked, SendDelete, OthersCreate, OthersDelete, AnswerDialog, DeleteRow, DeleteAnswer,
     DeleteFails, rowVars, cardVars, doubtVars
<1>3. ToSet(workflows') \subseteq ToSet(workflows)
  BY <1>2, ButIs DEF ListTyped, CardsTyped
<1> QED BY <1>1, <1>3, NumbersKept

\* What an event tells is what the card lacked.
LEMMA EventAccounts ==
    ASSUME ListTyped, InOrder, stream # <<>>, stream' = Tail(stream), run' = run, NEW e, e = Head(stream),
           NEW w \in Workflows, NEW s \in Stats, Accounts(s, w), NEW t, t = IF e.of = w THEN ApplyExecutionEvent(s, e) ELSE s
    PROVE  t \in Stats /\ Accounts(t, w)'
<1>0. stream \in Seq(Events)
  BY DEF ListTyped
<1>1. /\ Told(w, {"running"}) = Bit(e.of = w /\ e.status \in {"running"}) + Told(w, {"running"})'
      /\ Told(w, EndRows) = Bit(e.of = w /\ e.status \in EndRows) + Told(w, EndRows)'
      /\ Told(w, {"success"}) = Bit(e.of = w /\ e.status \in {"success"}) + Told(w, {"success"})'
      /\ Told(w, {"failed"}) = Bit(e.of = w /\ e.status \in {"failed"}) + Told(w, {"failed"})'
      /\ e \in Events /\ Len(stream) \in Nat \ {0} /\ stream' \in Seq(Events)
      /\ Later(2, w, {"running"}) = Told(w, {"running"})' /\ Later(2, w, EndRows) = Told(w, EndRows)'
  BY <1>0, ToldLess
<1>2. \/ e.type = "started" /\ e.status = "running"
      \/ e.type = "completed" /\ e.status \in EndRows
  BY <1>1, EventIs
<1>3. /\ Told(w, {"running"})' \in Nat /\ Told(w, EndRows)' \in Nat
      /\ Told(w, {"success"})' \in Nat /\ Told(w, {"failed"})' \in Nat
  BY <1>1, MentionsAre DEF Told
<1>4. PICK a \in Nat, b \in Nat, c \in Nat, d \in Nat : s = [total |-> a, running |-> b, success |-> c, failed |-> d]
  BY DEF Stats
<1>5. PICK created \in Nat, begun \in Nat, ended \in Nat, good \in Nat, bad \in Nat :
         /\ created = At(w, {"created"}, {"running"}) /\ begun = At(w, {"started"}, {"running"})
         /\ ended = At(w, {"ended"}, EndRows) /\ good = At(w, {"ended"}, {"success"}) /\ bad = At(w, {"ended"}, {"failed"})
  BY AtIsNumber
<1>6. PICK k \in Nat, l \in Nat, m \in Nat, n \in Nat :
         k = Having(w, RunRows) /\ l = Having(w, {"running"}) /\ m = Having(w, {"success"}) /\ n = Having(w, {"failed"})
  BY HavingIsNumber
<1>7. /\ a + created + Told(w, {"running"}) = k
      /\ b + created + Told(w, {"running"}) = l + ended + Told(w, EndRows)
      /\ c + good + Told(w, {"success"}) = m
      /\ d + bad + Told(w, {"failed"}) = n
  BY <1>4, <1>5, <1>6 DEF Accounts
<1>8. /\ created = At(w, {"created"}, {"running"})' /\ ended = At(w, {"ended"}, EndRows)'
      /\ good = At(w, {"ended"}, {"success"})' /\ bad = At(w, {"ended"}, {"failed"})'
      /\ k = Having(w, RunRows)' /\ l = Having(w, {"running"})' /\ m = Having(w, {"success"})' /\ n = Having(w, {"failed"})'
  BY <1>5, <1>6 DEF At, Having
<1>9. ASSUME NEW a1 \in Nat, NEW b1 \in Nat, NEW c1 \in Nat, NEW d1 \in Nat,
             t = [total |-> a1, running |-> b1, success |-> c1, failed |-> d1],
             a1 + created + Told(w, {"running"})' = k,
             b1 + created + Told(w, {"running"})' = l + ended + Told(w, EndRows)',
             c1 + good + Told(w, {"success"})' = m,
             d1 + bad + Told(w, {"failed"})' = n
      PROVE  t \in Stats /\ Accounts(t, w)'
  <2>1. t \in Stats /\ t.total = a1 /\ t.running = b1 /\ t.success = c1 /\ t.failed = d1
    <3>1. PICK u : u = [total |-> a1, running |-> b1, success |-> c1, failed |-> d1]
      OBVIOUS
    <3>2. u \in Stats /\ u.total = a1 /\ u.running = b1 /\ u.success = c1 /\ u.failed = d1
      BY <3>1 DEF Stats
    <3>3. u = t
      BY <1>9, <3>1, Zenon
    <3> QED BY <3>2, <3>3
  <2> QED BY <1>8, <1>9, <2>1 DEF Accounts
<1>10. CASE e.of # w
  <2>1. t = s
    BY <1>10
  <2>2. /\ Told(w, {"running"}) = Told(w, {"running"})' /\ Told(w, EndRows) = Told(w, EndRows)'
        /\ Told(w, {"success"}) = Told(w, {"success"})' /\ Told(w, {"failed"}) = Told(w, {"failed"})'
    BY <1>1, <1>3, <1>10 DEF Bit
  <2> QED BY <1>4, <1>7, <1>9, <2>1, <2>2
<1>11. CASE e.of = w /\ e.type = "started"
  <2>1. e.status = "running" /\ "running" \notin EndRows
    BY <1>2, <1>11 DEF EndRows
  <2>2. /\ Told(w, {"running"}) = 1 + Told(w, {"running"})' /\ Told(w, EndRows) = Told(w, EndRows)'
        /\ Told(w, {"success"}) = Told(w, {"success"})' /\ Told(w, {"failed"}) = Told(w, {"failed"})'
    BY <1>1, <1>3, <1>11, <2>1 DEF Bit
  <2>3. t = [total |-> a + 1, running |-> b + 1, success |-> c, failed |-> d]
    BY <1>1, <1>4, <1>11, AppliedIs
  <2>4. a + 1 + created + Told(w, {"running"})' = k
    BY <1>3, <1>7, <2>2
  <2>5. b + 1 + created + Told(w, {"running"})' = l + ended + Told(w, EndRows)'
    BY <1>3, <1>7, <2>2
  <2>6. c + good + Told(w, {"success"})' = m /\ d + bad + Told(w, {"failed"})' = n
    BY <1>7, <2>2
  <2>7. a + 1 \in Nat /\ b + 1 \in Nat
    OBVIOUS
  <2> QED BY <1>9, <2>3, <2>4, <2>5, <2>6, <2>7
<1>12. CASE e.of = w /\ e.type # "started"
  <2>1. e.status \in EndRows /\ e.status # "running"
    BY <1>2, <1>12 DEF EndRows
  <2>2. PICK x \in Nat, y \in Nat : x = (IF e.status = "success" THEN 1 ELSE 0) /\ y = (IF e.status = "failed" THEN 1 ELSE 0)
    OBVIOUS
  <2>3. /\ Told(w, {"running"}) = Told(w, {"running"})' /\ Told(w, EndRows) = 1 + Told(w, EndRows)'
        /\ Told(w, {"success"}) = x + Told(w, {"success"})' /\ Told(w, {"failed"}) = y + Told(w, {"failed"})'
    BY <1>1, <1>3, <1>12, <2>1, <2>2 DEF Bit
  <2>4. Told(w, {"running"})' <= begun + ended + Told(w, EndRows)'
    <3>1. 2 \in 1 .. Len(stream) + 1
      BY <1>1
    <3>2. Later(2, w, {"running"}) <= At(w, {"started"}, {"running"}) + At(w, {"ended"}, EndRows) + Later(2, w, EndRows)
      BY <3>1 DEF InOrder
    <3> QED BY <1>1, <1>5, <3>2
  <2>5. created + begun <= l
    BY <1>5, <1>6, RunningAre
  <2>12. PICK p \in Nat, q \in Nat : p = Told(w, {"running"})' /\ q = Told(w, EndRows)'
    BY <1>3
  <2>13. b + created + p = l + ended + (1 + q) /\ p <= begun + ended + q
    BY <1>7, <2>3, <2>4, <2>12
  <2>6. b > 0 /\ b - 1 \in Nat
    BY <2>5, <2>13
  <2>7. t = [total |-> a, running |-> b - 1, success |-> c + x, failed |-> d + y]
    BY <1>1, <1>4, <1>12, <2>2, <2>6, AppliedIs
  <2>8. b - 1 + created + Told(w, {"running"})' = l + ended + Told(w, EndRows)'
    <3>1. b - 1 + created + p = l + ended + q
      BY <2>13
    <3> QED BY <2>12, <3>1
  <2>9. a + created + Told(w, {"running"})' = k
    BY <1>7, <2>3
  <2>10. c + x + good + Told(w, {"success"})' = m /\ c + x \in Nat
    BY <1>3, <1>7, <2>3
  <2>11. d + y + bad + Told(w, {"failed"})' = n /\ d + y \in Nat
    BY <1>3, <1>7, <2>3
  <2> QED BY <1>9, <2>6, <2>7, <2>8, <2>9, <2>10, <2>11
<1> QED BY <1>10, <1>11, <1>12

LEMMA NumbersTold ==
    ASSUME ListTyped, ListNumbers, OnExecutionEvent
    PROVE  ListNumbers'
<1>1. PICK e : /\ e = Head(stream)
               /\ workflows' = [i \in DOMAIN workflows |->
                      IF workflows[i].id = e.of THEN [workflows[i] EXCEPT !.stats = ApplyExecutionEvent(@, e)] ELSE workflows[i]]
               /\ doubt' = IF load.step = "answer" THEN doubt \cup {e.of} ELSE doubt
  BY DEF OnExecutionEvent
<1>2. stream # <<>> /\ stream' = Tail(stream) /\ run' = run /\ load' = load /\ unsure' = unsure
  BY DEF OnExecutionEvent, rowVars
<1>3. InOrder
  BY DEF ListNumbers
<1>4. workflows \in Seq(Cards) /\ stream \in Seq(Events)
  BY DEF ListTyped, CardsTyped
<1>5. \A w \in Workflows, s \in Stats : Accounts(s, w) =>
         \A t : t = (IF e.of = w THEN ApplyExecutionEvent(s, e) ELSE s) => Accounts(t, w)'
  BY <1>1, <1>2, <1>3, EventAccounts
<1>6. CardsAccount'
  <2>1. SUFFICES ASSUME NEW c \in ToSet(workflows'), c.id \notin unsure PROVE Accounts(c.stats, c.id)'
    BY <1>2 DEF CardsAccount
  <2>2. PICK i \in 1 .. Len(workflows) :
           c = IF workflows[i].id = e.of THEN [workflows[i] EXCEPT !.stats = ApplyExecutionEvent(@, e)] ELSE workflows[i]
    <3>1. DOMAIN workflows = 1 .. Len(workflows)
      BY <1>4, MembersAre
    <3> QED BY <1>1, <2>1, <3>1 DEF ToSet
  <2>3. PICK old : old = workflows[i] /\ old \in ToSet(workflows) /\ old \in Cards
    BY <1>4, MembersAre
  <2>4. PICK w \in Workflows, s \in Stats : old = [id |-> w, stats |-> s]
    BY <2>3 DEF Cards
  <2>5. c.id = w /\ c.stats = (IF e.of = w THEN ApplyExecutionEvent(s, e) ELSE s)
    BY <2>2, <2>3, <2>4
  <2>6. Accounts(s, w)
    BY <2>1, <2>3, <2>4, <2>5 DEF ListNumbers, CardsAccount
  <2>7. PICK t : t = IF e.of = w THEN ApplyExecutionEvent(s, e) ELSE s
    OBVIOUS
  <2>8. Accounts(t, w)'
    BY <1>5, <2>6, <2>7
  <2> QED BY <2>5, <2>7, <2>8
<1>7. ItemsAccount'
  <2>1. SUFFICES ASSUME load.step = "answer", NEW c \in ToSet(load.items), c.id \notin doubt' PROVE Accounts(c.stats, c.id)'
    BY <1>2 DEF ItemsAccount
  <2>2. c.id # e.of /\ c.id \notin doubt
    BY <1>1, <2>1
  <2>3. c \in Cards
    BY <2>1, ListParts, MembersAre
  <2>4. PICK w \in Workflows, s \in Stats : w = c.id /\ s = c.stats
    BY <2>3 DEF Cards
  <2>5. Accounts(s, w)
    BY <2>1, <2>2, <2>4 DEF ListNumbers, ItemsAccount
  <2>6. Accounts(s, w)'
    BY <1>5, <2>2, <2>4, <2>5
  <2> QED BY <2>4, <2>6
<1>8. InOrder'
  <2>1. PICK n : n = Len(stream)
    OBVIOUS
  <2>2. n \in Nat \ {0} /\ Len(stream') = n - 1
    BY <1>2, <1>4, <2>1, ToldLess
  <2>3. SUFFICES ASSUME NEW v \in Workflows, NEW j \in 1 .. n
                 PROVE  Later(j, v, {"running"})' <= At(v, {"started"}, {"running"})' + At(v, {"ended"}, EndRows)' + Later(j, v, EndRows)'
    BY <2>2 DEF InOrder
  <2>4. \A statuses : Later(j, v, statuses)' = Later(j + 1, v, statuses)
    <3>1. ASSUME NEW statuses PROVE Later(j, v, statuses)' = Later(j + 1, v, statuses)
      <4>1. stream \in Seq(Events) /\ stream # <<>> /\ stream' = Tail(stream) /\ e = Head(stream)
        BY <1>1, <1>2, <1>4
      <4>2. \A i \in 1 .. Len(stream) : Later(i, v, statuses)' = Later(i + 1, v, statuses)
        BY <4>1, ToldLess
      <4> QED BY <2>1, <4>2
    <3> QED BY <3>1
  <2>5. j + 1 \in 1 .. Len(stream) + 1
    BY <2>1, <2>2
  <2>6. Later(j + 1, v, {"running"}) <= At(v, {"started"}, {"running"}) + At(v, {"ended"}, EndRows) + Later(j + 1, v, EndRows)
    BY <1>3, <2>5 DEF InOrder
  <2>7. At(v, {"started"}, {"running"})' = At(v, {"started"}, {"running"}) /\ At(v, {"ended"}, EndRows)' = At(v, {"ended"}, EndRows)
    BY <1>2 DEF At
  <2> QED BY <2>4, <2>6, <2>7
<1> QED BY <1>6, <1>7, <1>8 DEF ListNumbers

\* Nothing is on its way.
LEMMA EmptyStream ==
    stream = <<>> => InOrder /\ \A w, statuses : Told(w, statuses) = 0
<1> SUFFICES ASSUME stream = <<>> PROVE InOrder /\ \A w, statuses : Told(w, statuses) = 0
  OBVIOUS
<1>1. <<>> \in Seq(Events) /\ Len(<<>>) = 0
  OBVIOUS
<1>2. ASSUME NEW w, NEW statuses PROVE Mentions(<<>>, w, statuses) = 0
  <2>1. PICK none : none = <<>>
    OBVIOUS
  <2>2. none \in Seq(Events) /\ \A i \in 1 .. Len(none) : none[i].of # w
    BY <1>1, <2>1
  <2>3. Mentions(none, w, statuses) = 0
    BY <2>2, MentionsAre
  <2> QED BY <2>1, <2>3
<1>3. \A j \in 1 .. 1 : SubSeq(<<>>, j, 0) = <<>>
  BY <1>1
<1>4. InOrder
  <2>1. SUFFICES ASSUME NEW w \in Workflows, NEW j \in 1 .. 1
                 PROVE  Later(j, w, {"running"}) <= At(w, {"started"}, {"running"}) + At(w, {"ended"}, EndRows) + Later(j, w, EndRows)
    BY DEF InOrder
  <2>2. Later(j, w, {"running"}) = 0 /\ Later(j, w, EndRows) = 0
    BY <1>1, <1>2, <1>3 DEF Later
  <2> QED BY <2>2, AtIsNumber
<1> QED BY <1>2, <1>4 DEF Told

LEMMA NumbersLost ==
    ASSUME ListTyped, ListNumbers, StreamBreaks
    PROVE  ListNumbers'
<1>1. /\ stream' = <<>> /\ UNCHANGED <<run, workflows, load>>
      /\ unsure' = unsure \cup {stream[i].of : i \in DOMAIN stream}
      /\ load.step = "answer" => doubt' = Workflows
  BY DEF StreamBreaks, rowVars, cardVars
<1>2. InOrder' /\ \A w, statuses : Told(w, statuses)' = 0
  <2>1. (stream = <<>>)'
    BY <1>1
  <2>2. (InOrder /\ \A w, statuses : Told(w, statuses) = 0)'
    BY <2>1, EmptyStream, PTL
  <2> QED BY <2>2
<1>3. ASSUME NEW s, NEW w, w \notin unsure', Accounts(s, w) PROVE Accounts(s, w)'
  <2>1. stream \in Seq(Events)
    BY DEF ListTyped
  <2>2. \A i \in 1 .. Len(stream) : stream[i].of # w
    <3>1. DOMAIN stream = 1 .. Len(stream)
      BY <2>1, MembersAre
    <3> QED BY <1>1, <1>3, <3>1
  <2>3. \A statuses : Told(w, statuses) = 0
    BY <2>1, <2>2, MentionsAre DEF Told
  <2>4. /\ \A stages, rows : At(w, stages, rows)' = At(w, stages, rows)
        /\ \A rows : Having(w, rows)' = Having(w, rows)
    BY <1>1 DEF At, Having
  <2> QED BY <1>2, <1>3, <2>3, <2>4 DEF Accounts
<1>4. CardsAccount'
  BY <1>1, <1>3 DEF CardsAccount, ListNumbers
<1>5. ItemsAccount'
  <2>1. \A c \in ToSet(load.items) : c.id \in Workflows
    <3>1. ToSet(load.items) \subseteq Cards
      BY ListParts, MembersAre
    <3> QED BY <3>1 DEF Cards
  <2> QED BY <1>1, <2>1 DEF ItemsAccount
<1> QED BY <1>2, <1>4, <1>5 DEF ListNumbers

LEMMA NumbersStep ==
    ASSUME ListTyped, ListNumbers, ListNext
    PROVE  ListNumbers'
<1>1. CASE ListUser
  <2>1. ASSUME SelectFilter PROVE \E f \in Filters : ApplyFilters(f)
    <3>1. [filters EXCEPT !.never = ~@] \in Filters
      BY DEF ListTyped, CardsTyped, Filters
    <3> QED BY <2>1, <3>1 DEF SelectFilter
  <2> QED BY <1>1, <2>1, NumbersLoads, NumbersDeletions DEF ListUser
<1>2. CASE ListSystem
  <2>1. ASSUME SearchTimer PROVE \E f \in Filters : ApplyFilters(f)
    <3>1. [filters EXCEPT !.search = searchInput] \in Filters
      BY DEF ListTyped, CardsTyped, Filters
    <3> QED BY <2>1, <3>1 DEF SearchTimer
  <2>2. ASSUME NEW r \in Runs, NEW row \in {"success", "failed"}, RunEnds(r, row) PROVE ListNumbers'
    BY <2>2, NumbersRuns DEF EndRows
  <2>3. ASSUME NEW r \in Runs, ExpansionFails(r) \/ SayStarted(r) \/ SayCompleted(r) PROVE ListNumbers'
    BY <2>3, NumbersRuns
  <2> QED BY <1>2, <2>1, <2>2, <2>3, NumbersLoads, NumbersDeletions, NumbersTold DEF ListSystem
<1>3. CASE ListOthers
  <2>1. ASSUME NEW r \in Runs, NEW w \in Workflows, RunStarts(r, w) PROVE ListNumbers'
    BY <2>1, NumbersRuns
  <2>2. ASSUME NEW r \in Runs, NEW row \in {"running", "success", "failed"}, RunAgain(r, row) PROVE ListNumbers'
    BY <2>2, NumbersRuns DEF EndRows
  <2> QED BY <1>3, <2>1, <2>2, NumbersDeletions DEF ListOthers
<1>4. CASE ListFaults
  BY <1>4, NumbersLoads, NumbersLost, NumbersDeletions DEF ListFaults
<1> QED BY <1>1, <1>2, <1>3, <1>4 DEF ListNext

LEMMA NumbersFresh ==
    ASSUME ListTyped, ListNumbers, ListMount \/ ListLeave
    PROVE  ListNumbers'
<1>1. CASE ListMount
  <2>1. UNCHANGED <<run, stream, workflows, unsure, doubt>> /\ load' = LoadOf(1, FALSE, NoFilter)
    BY <1>1 DEF ListMount, rowVars, cardVars, doubtVars
  <2>2. load'.items = <<>>
    BY <2>1, NothingLoaded
  <2>3. ToSet(load'.items) = {}
    BY <2>2 DEF ToSet
  <2> QED BY <2>1, <2>3, NumbersKept
<1>2. CASE ListLeave
  <2>1. workflows' = <<>> /\ stream' = <<>> /\ load'.step = "idle"
    BY <1>2, ListBlanks DEF ListLeave
  <2>2. (stream = <<>>)'
    BY <2>1
  <2>3. InOrder'
    BY <2>2, EmptyStream, PTL
  <2>4. CardsAccount'
    BY <2>1 DEF CardsAccount, ToSet
  <2>5. ItemsAccount'
    BY <2>1 DEF ItemsAccount
  <2> QED BY <2>3, <2>4, <2>5 DEF ListNumbers
<1> QED BY <1>1, <1>2

-----------------------------------------------------------------------------
(* The list of workflows: what always holds.                               *)

ListFits == ListTyped /\ ListKnown /\ ListPaging /\ ListNumbers

LEMMA CreatedAre ==
    ASSUME stored = Reverse(Created), newest = IF Created = <<>> THEN 0 ELSE Last(Created)
    PROVE  /\ stored \in Seq(Workflows) /\ newest \in Nat /\ IsInjective(stored)
           /\ \A w \in ToSet(stored) : w <= newest
<1>1. /\ Created \in Seq(Workflows) /\ DOMAIN Created = 1 .. Len(Created) /\ Len(Created) \in Nat
      /\ \A i \in 1 .. Len(Created) : Created[i] \in Workflows /\ Created[i] \in Nat
      /\ \A i, j \in 1 .. Len(Created) : i < j => Created[i] < Created[j]
  <2>1. Created \in Seq(Workflows) /\ Workflows \subseteq Nat
    BY WorkflowsAssumption
  <2>2. DOMAIN Created = 1 .. Len(Created) /\ Len(Created) \in Nat /\ \A i \in 1 .. Len(Created) : Created[i] \in Workflows
    BY <2>1, MembersAre
  <2>3. \A i, j \in DOMAIN Created : i < j => Created[i] < Created[j]
    BY WorkflowsAssumption
  <2> QED BY <2>1, <2>2, <2>3
<1>2. /\ stored \in Seq(Workflows) /\ Len(stored) = Len(Created) /\ DOMAIN stored = 1 .. Len(Created)
      /\ \A i \in 1 .. Len(Created) : stored[i] = Created[Len(Created) - i + 1] /\ Len(Created) - i + 1 \in 1 .. Len(Created)
  BY <1>1, ReverseIs, MembersAre
<1>3. IsInjective(stored)
  <2>1. SUFFICES ASSUME NEW i \in 1 .. Len(Created), NEW j \in 1 .. Len(Created), i < j PROVE stored[i] # stored[j]
    BY <1>1, <1>2 DEF IsInjective
  <2>2. PICK k \in 1 .. Len(Created), l \in 1 .. Len(Created) : k = Len(Created) - i + 1 /\ l = Len(Created) - j + 1
    BY <1>2
  <2>3. l < k /\ stored[i] = Created[k] /\ stored[j] = Created[l]
    BY <1>1, <1>2, <2>1, <2>2
  <2>4. Created[l] < Created[k] /\ Created[l] \in Nat /\ Created[k] \in Nat
    BY <1>1, <2>3
  <2> QED BY <2>3, <2>4
<1>4. newest \in Nat /\ \A i \in 1 .. Len(Created) : Created[i] <= newest
  <2>1. CASE Created = <<>>
    BY <1>1, <2>1
  <2>2. CASE Created # <<>>
    <3>1. PICK n \in Nat : n = Len(Created)
      BY <1>1
    <3>2. n \in 1 .. n
      BY <2>2, <3>1
    <3>3. newest = Created[n] /\ Created[n] \in Nat
      BY <1>1, <2>2, <3>1, <3>2 DEF Last
    <3>4. ASSUME NEW i \in 1 .. n PROVE Created[i] <= newest
      <4>1. i = n \/ i < n
        OBVIOUS
      <4>2. Created[i] \in Nat
        BY <1>1, <3>1
      <4>3. i < n => Created[i] < Created[n]
        BY <1>1, <3>1, <3>2
      <4> QED BY <3>3, <4>1, <4>2, <4>3
    <3> QED BY <3>1, <3>3, <3>4
  <2> QED BY <2>1, <2>2
<1>5. ASSUME NEW w \in ToSet(stored) PROVE w <= newest
  <2>1. PICK i \in 1 .. Len(Created) : w = stored[i]
    BY <1>2 DEF ToSet
  <2> QED BY <1>2, <1>4, <2>1
<1> QED BY <1>2, <1>3, <1>4, <1>5

LEMMA ListBegins == ListInit => ListFits
<1> SUFFICES ASSUME ListInit PROVE ListFits
  OBVIOUS
<1>2. /\ run = [r \in Runs |-> [of |-> None, row |-> "none", stage |-> "new"]]
      /\ stream = <<>> /\ removal = [k \in Removals |-> NoRemoval]
      /\ searchInput = FALSE /\ filters = NoFilter /\ workflows = <<>> /\ total = 0 /\ hasMore = TRUE /\ page = 0
      /\ load = (IF route = "workflows" THEN LoadOf(1, FALSE, NoFilter) ELSE NoLoad)
      /\ asked = None /\ listed = NoFilter /\ shifted = FALSE /\ cut = FALSE
  BY DEF ListInit, NoRemoval
<1>3. /\ stored \in Seq(Workflows) /\ newest \in Nat /\ IsInjective(stored)
      /\ \A w \in ToSet(stored) : w <= newest
  <2>1. stored = Reverse(Created) /\ newest = IF Created = <<>> THEN 0 ELSE Last(Created)
    BY DEF ListInit
  <2> QED BY <2>1, CreatedAre
<1>4. /\ load \in PageLoad /\ load.step \in {"idle", "count"} /\ load.items = <<>>
      /\ load.page = 1 /\ load.append = FALSE /\ (load.step = "count" <=> route = "workflows")
      /\ (route # "workflows" => load = NoLoad)
  <2>1. PICK one \in Nat \ {0}, f \in Filters : one = 1 /\ f = NoFilter
    BY ListBlanks
  <2>2. /\ LoadOf(one, FALSE, f) \in PageLoad
        /\ LoadOf(one, FALSE, f) = [step |-> "count", page |-> one, append |-> FALSE, filters |-> f, total |-> 0, items |-> <<>>]
    BY ListBlanks
  <2>3. /\ NoLoad \in PageLoad /\ NoLoad.step = "idle" /\ NoLoad.items = <<>> /\ NoLoad.page = 1 /\ NoLoad.append = FALSE
    BY ListBlanks
  <2>4. CASE route = "workflows"
    <3>1. load = LoadOf(one, FALSE, f)
      BY <1>2, <2>1, <2>4
    <3>2. load = [step |-> "count", page |-> one, append |-> FALSE, filters |-> f, total |-> 0, items |-> <<>>]
      BY <2>2, <3>1
    <3>3. load.step = "count" /\ load.items = <<>> /\ load.page = 1
      BY <2>1, <3>2
    <3>4. load.append = FALSE
      BY <3>2
    <3> QED BY <2>2, <2>4, <3>1, <3>3, <3>4
  <2>5. CASE route # "workflows"
    <3>1. load = NoLoad
      BY <1>2, <2>5
    <3> QED BY <2>3, <2>5, <3>1
  <2> QED BY <2>4, <2>5
<1>5. ListTyped
  <2>1. run \in [Runs -> RunStates]
    BY <1>2 DEF RunStates
  <2>2. removal \in [Removals -> DeleteRequests]
    BY <1>2, ListBlanks
  <2>3. stream \in Seq(Events) /\ workflows \in Seq(Cards)
    BY <1>2
  <2>4. searchInput \in BOOLEAN
    BY <1>2
  <2>5. hasMore \in BOOLEAN
    BY <1>2
  <2>6. shifted \in BOOLEAN
    BY <1>2
  <2>7. cut \in BOOLEAN
    BY <1>2
  <2>8. CardsTyped
    BY <1>2, <2>3, <2>4, <2>5, ListBlanks DEF CardsTyped
  <2> QED BY <1>3, <1>4, <2>1, <2>2, <2>3, <2>6, <2>7, <2>8 DEF ListTyped
<1>6. ListKnown
  <2>1. \A k \in Removals : removal[k].step = "idle"
    BY <1>2 DEF NoRemoval
  <2> QED BY <1>2, <1>3, <1>4, <2>1, NoCards DEF ListKnown
<1>7. ListPaging
  <2>1. Deleted = {}
    BY <1>2 DEF Deleted, NoRemoval
  <2>2. LoadAsks
    BY <1>2, <1>4 DEF LoadAsks, Idle
  <2>3. FirstPageComes
    BY <1>4 DEF FirstPageComes, Idle
  <2>4. ListShown
    <3>1. ~(page > 0)
      BY <1>2
    <3> QED BY <3>1 DEF ListShown
  <2>5. LoadSaw(Matching(load.filters))
    BY <1>4 DEF LoadSaw
  <2> QED BY <2>1, <2>2, <2>3, <2>4, <2>5 DEF ListPaging, Paged
<1>8. ListNumbers
  <2>1. CardsAccount
    BY <1>2 DEF CardsAccount, ToSet
  <2>2. ItemsAccount
    BY <1>4 DEF ItemsAccount
  <2>3. InOrder
    BY <1>2, EmptyStream
  <2> QED BY <2>1, <2>2, <2>3 DEF ListNumbers
<1> QED BY <1>5, <1>6, <1>7, <1>8 DEF ListFits

LEMMA ListStep ==
    ASSUME ListFits, ListNext, route' = route
    PROVE  ListFits'
<1>1. ListTyped /\ ListKnown /\ ListPaging /\ ListNumbers
  BY DEF ListFits
<1>2. ListTyped'
  BY <1>1, ListTypedStep
<1>3. ListKnown'
  BY <1>1, KnownStep
<1>4. ListPaging'
  BY <1>1, PagingStep
<1>5. ListNumbers'
  BY <1>1, NumbersStep
<1> QED BY <1>2, <1>3, <1>4, <1>5 DEF ListFits

LEMMA ListOpens ==
    ASSUME ListFits, \/ ListMount /\ route # "workflows" /\ route' = "workflows"
                     \/ ListLeave /\ route = "workflows" /\ route' # "workflows"
    PROVE  ListFits'
<1>1. ListTyped /\ ListKnown /\ ListPaging /\ ListNumbers
  BY DEF ListFits
<1>2. CASE ListMount /\ route # "workflows" /\ route' = "workflows"
  BY <1>1, <1>2, ListFresh, KnownFresh, PagingFresh, NumbersFresh DEF ListFits
<1>3. CASE ListLeave /\ route = "workflows" /\ route' # "workflows"
  BY <1>1, <1>3, ListFresh, KnownFresh, PagingFresh, NumbersFresh DEF ListFits
<1> QED BY <1>2, <1>3

LEMMA ListStays ==
    ASSUME ListFits, UNCHANGED listVars, route' = route \/ (route # "workflows" /\ route' # "workflows")
    PROVE  ListFits'
<1>1. /\ UNCHANGED <<stored, newest, run, stream, searchInput, filters, workflows, total, hasMore, page, load, asked, removal>>
      /\ UNCHANGED <<listed, shifted, cut, unsure, doubt>>
  BY DEF listVars, rowVars, collection, cardVars, doubtVars
<1>2. ListTyped'
  BY <1>1 DEF ListFits, ListTyped, CardsTyped
<1>3. ListKnown'
  BY <1>1 DEF ListFits, ListKnown
<1>4. ListNumbers'
  BY <1>1, NumbersKept DEF ListFits, ListNumbers, ItemsAccount
<1>5. ListPaging'
  <2>1. LoadAsks'
    BY <1>1 DEF ListFits, ListPaging, LoadAsks, Idle
  <2>2. ASSUME ~shifted PROVE Paged'
    <3>1. Paged
      BY <2>2 DEF ListFits, ListPaging
    <3>2. Deleted' = Deleted /\ \A f : Matching(f)' = Matching(f)
      BY <1>1 DEF Deleted, Matching, Selects, ExecutionStats, Having
    <3>3. FirstPageComes'
      BY <1>1, <3>1 DEF Paged, FirstPageComes, Idle
    <3>4. ListShown'
      BY <1>1, <3>1, <3>2 DEF Paged, ListShown, Idle
    <3>5. LoadSaw(Matching(load.filters))'
      BY <1>1, <3>1, <3>2 DEF Paged, LoadSaw, PageOf, PageEnd
    <3> QED BY <1>1, <3>1, <3>2, <3>3, <3>4, <3>5 DEF Paged
  <2> QED BY <1>1, <2>1, <2>2 DEF ListPaging
<1> QED BY <1>2, <1>3, <1>4, <1>5 DEF ListFits

LEMMA CardsTell ==
    ASSUME ListTyped, ListNumbers
    PROVE  CardsTellTheRows
<1>1. workflows \in Seq(Cards)
  BY DEF ListTyped, CardsTyped
<1>2. SUFFICES ASSUME NEW i \in 1 .. Len(workflows), NEW w, w = workflows[i].id, w \notin unsure, ~Untold(w)
               PROVE  workflows[i].stats = ExecutionStats(w)
  <2>1. DOMAIN workflows = 1 .. Len(workflows)
    BY <1>1, MembersAre
  <2> QED BY <1>2, <2>1 DEF CardsTellTheRows
<1>3. PICK c : c = workflows[i] /\ c \in ToSet(workflows) /\ c \in Cards
  BY <1>1, MembersAre
<1>4. PICK s \in Stats : s = c.stats
  BY <1>3 DEF Cards
<1>5. Accounts(s, w)
  BY <1>2, <1>3, <1>4 DEF ListNumbers, CardsAccount
<1>6. s = ExecutionStats(w)
  BY <1>2, <1>5, StatsAccount
<1> QED BY <1>3, <1>4, <1>6

LEMMA ListFitsAgrees == ListFits => ListAgrees
<1> SUFFICES ASSUME ListFits PROVE ListAgrees
  OBVIOUS
<1>1. ListTyped /\ ListKnown /\ ListPaging /\ ListNumbers
  BY DEF ListFits
<1>2. NoCardTwice
  BY <1>1 DEF ListKnown, NoCardTwice
<1>3. ListIsAPrefix
  BY <1>1, PagingIsPrefix
<1>4. CardsTellTheRows
  BY <1>1, CardsTell
<1> QED BY <1>2, <1>3, <1>4 DEF ListAgrees

LEMMA ListFitsTyped == ListFits => ListTypeOK
<1> SUFFICES ASSUME ListFits PROVE ListTypeOK
  OBVIOUS
<1>1. ListTyped /\ IsInjective(stored)
  BY DEF ListFits, ListKnown
<1>2. \A i \in DOMAIN workflows : workflows[i].id \in Workflows /\ workflows[i].stats \in Stats
  <2>1. DOMAIN workflows = 1 .. Len(workflows) /\ \A i \in 1 .. Len(workflows) : workflows[i] \in Cards
    BY <1>1, MembersAre DEF ListTyped, CardsTyped
  <2> QED BY <2>1 DEF Cards
<1>3. load.step \in {"idle", "count", "select", "answer"}
  BY <1>1, ListParts DEF LoadSteps
<1> QED BY <1>1, <1>2, <1>3 DEF ListTyped, CardsTyped, ListTypeOK

\* What leaves the list by itself has left the collection before.
OnlyDeletedGo == \A i \in DOMAIN workflows :
                     route' = route /\ load.step # "answer" /\ workflows[i].id \notin ToSet(Ids(workflows'))
                         => workflows[i].id \notin ToSet(stored')

LEMMA OnlyAnswersChangeIds ==
    ASSUME ListTyped, ListNext, load.step # "answer"
    PROVE  Ids(workflows') = Ids(workflows) \/ \E k \in Removals : DeleteAnswer(k)
<1>1. CASE ListUser
  <2>1. UNCHANGED workflows
    BY <1>1, Zenon DEF ListUser, SelectFilter, ApplyFilters, Search, HandleScroll, AskToDelete, DeleteUnasked, SendDelete, cardVars
  <2> QED BY <2>1
<1>2. CASE ListSystem
  <2>1. ~ListAnswer
    BY DEF ListAnswer
  <2>2. ASSUME \/ SearchTimer \/ CountRows \/ SelectRows
               \/ \E ok \in BOOLEAN : AnswerDialog(ok)
               \/ \E k \in Removals : DeleteRow(k)
               \/ \E r \in Runs : ExpansionFails(r) \/ SayStarted(r) \/ SayCompleted(r)
               \/ \E r \in Runs, row \in {"success", "failed"} : RunEnds(r, row)
        PROVE  UNCHANGED workflows
    BY <2>2, Zenon DEF SearchTimer, ApplyFilters, CountRows, SelectRows, AnswerDialog, SendDelete, DeleteRow,
       ExpansionFails, SayStarted, SayCompleted, RunEnds, cardVars
  <2> QED BY <1>2, <2>1, <2>2, EventKeepsIds DEF ListSystem
<1>3. CASE ListOthers
  <2>1. UNCHANGED workflows
    BY <1>3, Zenon DEF ListOthers, OthersCreate, OthersDelete, RunStarts, RunAgain, cardVars
  <2> QED BY <2>1
<1>4. CASE ListFaults
  <2>1. UNCHANGED workflows
    BY <1>4, Zenon DEF ListFaults, ListLoadFails, StreamBreaks, DeleteFails, cardVars
  <2> QED BY <2>1
<1> QED BY <1>1, <1>2, <1>3, <1>4 DEF ListNext

LEMMA DeletedGo ==
    ASSUME ListFits, ListNext \/ UNCHANGED workflows
    PROVE  OnlyDeletedGo
<1>0. ListTyped /\ ListKnown
  BY DEF ListFits
<1>1. /\ workflows \in Seq(Cards) /\ Ids(workflows) \in Seq(Workflows)
      /\ \A i \in DOMAIN workflows : workflows[i].id \in ToSet(Ids(workflows))
  <2>1. workflows \in Seq(Cards)
    BY <1>0 DEF ListTyped, CardsTyped
  <2>2. /\ Ids(workflows) \in Seq(Workflows) /\ Len(Ids(workflows)) = Len(workflows) /\ DOMAIN workflows = 1 .. Len(workflows)
        /\ \A i \in 1 .. Len(workflows) : Ids(workflows)[i] = workflows[i].id
    BY <2>1, IdsAre
  <2>3. \A i \in 1 .. Len(workflows) : Ids(workflows)[i] \in ToSet(Ids(workflows))
    BY <2>2, MembersAre
  <2> QED BY <2>1, <2>2, <2>3
<1>2. ASSUME Ids(workflows') = Ids(workflows) PROVE OnlyDeletedGo
  BY <1>1, <1>2 DEF OnlyDeletedGo
<1>3. ASSUME NEW k \in Removals, DeleteAnswer(k) PROVE OnlyDeletedGo
  <2>1. PICK w : w = removal[k].of
    OBVIOUS
  <2>2. workflows' = But(workflows, {w}) /\ stored' = stored /\ w \notin ToSet(stored)
    BY <1>0, <1>3, <2>1 DEF DeleteAnswer, rowVars, collection, ListKnown
  <2>3. Ids(workflows') = Filtered(Ids(workflows), Workflows \ {w})
    BY <1>1, <2>2, ButIs
  <2>4. ToSet(Ids(workflows')) = ToSet(Ids(workflows)) \cap (Workflows \ {w})
    BY <1>1, <2>3, FilteredElements
  <2>5. ToSet(Ids(workflows)) \subseteq Workflows
    BY <1>1, MembersAre
  <2> QED BY <1>1, <2>2, <2>4, <2>5 DEF OnlyDeletedGo
<1>4. CASE ListNext
  <2>1. CASE load.step = "answer"
    BY <2>1 DEF OnlyDeletedGo
  <2>2. CASE load.step # "answer"
    BY <1>0, <1>2, <1>3, <1>4, <2>2, OnlyAnswersChangeIds
  <2> QED BY <2>1, <2>2
<1>5. CASE UNCHANGED workflows
  BY <1>2, <1>5
<1> QED BY <1>4, <1>5
=============================================================================
