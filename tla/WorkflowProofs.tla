---------------------------- MODULE WorkflowProofs ----------------------------
(***************************************************************************)
(* What the editing of a workflow guarantees, and what its expansion into  *)
(* the configuration of a run does.                                        *)
(***************************************************************************)
EXTENDS WorkflowEdit, NodeExpansion, WellFoundedInduction, TLAPS

(***************************************************************************)
(* Editing.                                                                *)
(*                                                                         *)
(* What the saves, refreshes and runs of an open workflow guarantee, for   *)
(* any set of values, any number of requests under way, any number of      *)
(* edits and foreign writes and any faults.                                *)
(***************************************************************************)

-----------------------------------------------------------------------------
(* Types                                                                   *)

\* A request that carries a content carries one of the workflow.
Carries(k) == k.step \in {"check", "write", "answer", "reanswer"} => k.body \in Content
Carried == \A t \in Tasks : Carries(task[t])

TasksType == task \in [Tasks -> Task] /\ Carried

ServerType == stored \in Content /\ foreign \in 0 .. MaxForeign

PageType ==
    /\ doc \in [content : Content, base : Content]
    /\ typed \in Values
    /\ timer \in BOOLEAN /\ refresh \in BOOLEAN /\ unsent \in BOOLEAN
    /\ link \in BOOLEAN /\ event \in BOOLEAN
    /\ page \in {"canvas", "list"} /\ item \in Content \cup {NoItem}
    /\ told \in BOOLEAN /\ missed \in BOOLEAN

CountersType == edits \in 0 .. MaxEdits /\ faults \in 0 .. MaxFaults

Typed == TasksType /\ ServerType /\ PageType /\ CountersType

LEMMA TypedIsTypeOK == Typed => TypeOK
BY DEF Typed, TasksType, ServerType, PageType, CountersType, TypeOK

(* The requests that a step makes of another.                              *)
LEMMA BlankType == Blank \in Task /\ Carries(Blank) /\ Blank.step = "idle"
                   /\ ~Blank.sure /\ ~Blank.over
BY DEF Blank, At, Task, Steps, Carries

LEMMA AtType ==
    ASSUME NEW s \in Steps, NEW c \in Content \cup {NoItem},
           s \in {"check", "write", "answer", "reanswer"} => c \in Content
    PROVE  At(s, c) \in Task /\ Carries(At(s, c)) /\ At(s, c).step = s /\ At(s, c).body = c
           /\ At(s, c).then = "done" /\ At(s, c).base = NoItem
           /\ ~At(s, c).sure /\ ~At(s, c).over /\ ~At(s, c).late /\ ~At(s, c).raced
BY DEF At, Task, Steps, Carries

LEMMA PutType ==
    ASSUME NEW d \in [content : Content, base : Content], NEW then \in {"done", "get", "start", "save"}
    PROVE  /\ Put(d, then) \in Task /\ Carries(Put(d, then))
           /\ Put(d, then).step = "check" /\ Put(d, then).then = then
           /\ Put(d, then).body = d.content /\ Put(d, then).base = d.base
           /\ ~Put(d, then).sure /\ ~Put(d, then).over /\ ~Put(d, then).late /\ ~Put(d, then).raced
BY DEF Put, At, Task, Steps, Carries

\* What is left of a request whose flags alone have changed.
SameRequest(k, m) == k.step = m.step /\ k.then = m.then /\ k.body = m.body /\ k.base = m.base

LEMMA FlagsType ==
    ASSUME NEW k \in Task, NEW b \in BOOLEAN
    PROVE  /\ [k EXCEPT !.over = b] \in Task /\ SameRequest([k EXCEPT !.over = b], k)
           /\ [k EXCEPT !.late = b] \in Task /\ SameRequest([k EXCEPT !.late = b], k)
           /\ [k EXCEPT !.sure = b] \in Task /\ SameRequest([k EXCEPT !.sure = b], k)
           /\ [k EXCEPT !.raced = b] \in Task /\ SameRequest([k EXCEPT !.raced = b], k)
BY DEF Task, SameRequest

LEMMA FollowType ==
    ASSUME NEW k \in Task
    PROVE  Follow(k) \in Task /\ Carries(Follow(k))
           /\ IF k.then \in {"get", "start"}
              THEN /\ Follow(k).step = k.then /\ Follow(k).body = k.body /\ Follow(k).then = k.then
                   /\ Follow(k).over = k.over /\ Follow(k).sure = k.sure
              ELSE Follow(k) = Blank
BY BlankType DEF Follow, Task, Steps, Carries

LEMMA OvertakenType ==
    ASSUME NEW tasks \in [Tasks -> Task]
    PROVE  /\ Overtaken(tasks) \in [Tasks -> Task]
           /\ \A t \in Tasks : /\ SameRequest(Overtaken(tasks)[t], tasks[t])
                               /\ Overtaken(tasks)[t].over = tasks[t].over
                               /\ Overtaken(tasks)[t].raced = tasks[t].raced
                               /\ Overtaken(tasks)[t].sure = tasks[t].sure
                               /\ Overtaken(tasks)[t].late = (tasks[t].late \/ tasks[t].step \in {"answer", "reanswer"})
BY DEF Overtaken, Task, SameRequest

LEMMA DisturbedType ==
    ASSUME NEW k \in Task
    PROVE  /\ Disturbed(k) \in Task /\ SameRequest(Disturbed(k), k)
           /\ Disturbed(k).over = k.over /\ Disturbed(k).late = k.late
           /\ Disturbed(k).raced = (k.step = "write") /\ ~Disturbed(k).sure
BY DEF Disturbed, Task, SameRequest

LEMMA OneType ==
    ASSUME TasksType, NEW t \in Tasks, NEW k \in Task, Carries(k), task' = [task EXCEPT ![t] = k]
    PROVE  TasksType'
BY DEF TasksType, Carried

LEMMA SteppedType ==
    ASSUME TasksType, NEW t \in Tasks, NEW s \in Steps, NEW c \in Content \cup {NoItem},
           s \in {"check", "write", "answer", "reanswer"} => c \in Content,
           task' = [task EXCEPT ![t].step = s, ![t].body = c]
    PROVE  TasksType'
<1>1. task[t] \in Task
    BY DEF TasksType
<1>2. task' = [task EXCEPT ![t] = [task[t] EXCEPT !.step = s, !.body = c]]
    BY DEF TasksType
<1>3. [task[t] EXCEPT !.step = s, !.body = c] \in Task /\ Carries([task[t] EXCEPT !.step = s, !.body = c])
    BY <1>1 DEF Task, Carries
<1> QED BY <1>2, <1>3, OneType

\* A step of a request that keeps its body.
LEMMA MovedType ==
    ASSUME TasksType, NEW t \in Tasks, NEW s \in Steps,
           s \in {"check", "write", "answer", "reanswer"} => task[t].body \in Content,
           task' = [task EXCEPT ![t].step = s]
    PROVE  TasksType'
<1>1. task[t] \in Task
    BY DEF TasksType
<1>2. task' = [task EXCEPT ![t] = [task[t] EXCEPT !.step = s]]
    BY DEF TasksType
<1>3. [task[t] EXCEPT !.step = s] \in Task /\ Carries([task[t] EXCEPT !.step = s])
    BY <1>1 DEF Task, Carries
<1> QED BY <1>2, <1>3, OneType

\* The flags of every request change, and nothing else of it.
LEMMA AllFlagsType ==
    ASSUME TasksType, task' \in [Tasks -> Task], \A t \in Tasks : SameRequest(task'[t], task[t])
    PROVE  TasksType'
BY DEF TasksType, Carried, Carries, SameRequest

LEMMA FlushType ==
    ASSUME TasksType, PageType, NEW t \in Tasks, NEW k \in Task, Carries(k),
           k.step \in {"get", "start"}, FlushThen(t, k)
    PROVE  TasksType' /\ timer' \in BOOLEAN /\ unsent' \in BOOLEAN
<1>1. CASE timer
    <2> DEFINE m == [Put(doc, k.step) EXCEPT !.sure = k.sure]
    <2>1. k.sure \in BOOLEAN /\ Put(doc, k.step) \in Task /\ Carries(Put(doc, k.step))
        BY PutType DEF Task, PageType
    <2>2. m \in Task /\ Carries(m)
        BY <2>1, FlagsType DEF SameRequest, Carries
    <2>3. task' = [task EXCEPT ![t] = m] /\ timer' = FALSE /\ unsent' = FALSE
        BY <1>1 DEF FlushThen
    <2> HIDE DEF m
    <2> QED BY <2>2, <2>3, OneType
<1>2. CASE ~timer
    BY <1>2, OneType DEF FlushThen, PageType
<1> QED BY <1>1, <1>2

LEMMA EndsType ==
    ASSUME TasksType, NEW t \in Tasks, NEW k \in Task, Carries(k), Ends(t, k)
    PROVE  TasksType'
<1>1. Overtaken(task) \in [Tasks -> Task]
      /\ \A u \in Tasks : SameRequest(Overtaken(task)[u], task[u])
    BY OvertakenType DEF TasksType
<1> QED BY <1>1 DEF Ends, TasksType, Carried, Carries, SameRequest

LEMMA ContentType == \A c \in Content : c.param \in Values /\ c.node \in Values
BY DEF Content

LEMMA TypedInit == Init => Typed
<1> SUFFICES ASSUME Init PROVE Typed
    OBVIOUS
<1>1. TasksType
    BY BlankType DEF Init, TasksType, Carried
<1>2. stored \in Content /\ doc \in [content : Content, base : Content] /\ typed \in Values
    BY ContentType DEF Init
<1>3. foreign \in 0 .. MaxForeign /\ CountersType
    BY BoundsAssumption DEF BoundsAssumption, Init, CountersType
<1>4. PageType
    BY <1>2 DEF Init, PageType
<1> QED BY <1>1, <1>2, <1>3, <1>4 DEF Typed, ServerType

LEMMA StoreTyped ==
    ASSUME Typed, NEW t \in Tasks, Store(t)
    PROVE  Typed'
<1> USE DEF Typed, serverVars, userVars, timerVars, linkVars, pageVars, truthVars
<1>1. doc' \in [content : Content, base : Content]
    BY DEF Store, PageType, Content
<1>2. Put(doc', "save") \in Task /\ Carries(Put(doc', "save"))
    BY <1>1, PutType
<1>3. TasksType'
    <2>1. task' = [k \in Tasks |-> IF k = t THEN Put(doc', "save")
                                   ELSE [task[k] EXCEPT !.over = task[k].step # "idle"]]
        BY DEF Store
    <2>2. ASSUME NEW k \in Tasks PROVE task'[k] \in Task /\ Carries(task'[k])
        <3>1. task[k] \in Task /\ Carries(task[k])
            BY DEF TasksType, Carried
        <3>2. [task[k] EXCEPT !.over = task[k].step # "idle"] \in Task
              /\ SameRequest([task[k] EXCEPT !.over = task[k].step # "idle"], task[k])
            BY <3>1, FlagsType
        <3> QED BY <1>2, <2>1, <3>1, <3>2 DEF Carries, SameRequest
    <2> QED BY <2>1, <2>2 DEF TasksType, Carried
<1> QED BY <1>1, <1>3 DEF Store, ServerType, PageType, CountersType

LEMMA WrittenTyped ==
    ASSUME Typed, NEW c \in Content, NEW m, \A k \in Tasks : m[k] \in Task /\ Carries(m[k]),
           m = [k \in Tasks |-> m[k]], Written(c, m), foreign' \in 0 .. MaxForeign,
           UNCHANGED <<doc, userVars, timerVars, link, pageVars, truthVars, faults>>
    PROVE  Typed'
<1>1. TasksType'
    <2>1. m \in [Tasks -> Task] /\ Overtaken(m) \in [Tasks -> Task]
          /\ \A t \in Tasks : SameRequest(Overtaken(m)[t], m[t])
        BY OvertakenType
    <2> QED BY <2>1 DEF Written, TasksType, Carried, Carries, SameRequest
<1>2. event' \in BOOLEAN
    BY DEF Written, Typed, PageType
<1> QED BY <1>1, <1>2 DEF Written, Typed, ServerType, PageType, CountersType,
                          userVars, timerVars, pageVars, truthVars

LEMMA ResumeType ==
    ASSUME NEW k \in Task
    PROVE  LET m == [Follow(k) EXCEPT !.late = FALSE, !.sure = FALSE]
           IN  m \in Task /\ Carries(m) /\ SameRequest(m, Follow(k))
               /\ m.over = Follow(k).over /\ ~m.sure
BY FollowType DEF Task, Carries, SameRequest

LEMMA ShowTyped ==
    ASSUME Typed, NEW t \in Tasks, task[t].step \in {"answer", "reanswer"}, Show(t),
           UNCHANGED <<timer, refresh, linkVars, pageVars>>
    PROVE  PageType'
<1>1. task[t].body \in Content /\ task[t].late \in BOOLEAN
    BY DEF Typed, TasksType, Carried, Carries, Task
<1>2. typed' \in Values
    BY <1>1, ContentType DEF Show, Typed, PageType
<1> QED BY <1>1, <1>2 DEF Show, Typed, PageType, linkVars, pageVars

LEMMA UserTyped == Typed /\ User => Typed'
<1> SUFFICES ASSUME Typed, User PROVE Typed'
    OBVIOUS
<1> USE DEF Typed, serverVars, userVars, timerVars, linkVars, pageVars, truthVars
<1>1. ASSUME NEW v \in Values, Type(v) PROVE Typed'
    BY <1>1, BoundsAssumption DEF BoundsAssumption, Type, Act, TasksType, Carried, ServerType, PageType, CountersType
<1>2. ASSUME NEW v \in Values, EditNode(v) PROVE Typed'
    <2>1. TasksType'
        <3>1. task' \in [Tasks -> Task] /\ \A t \in Tasks : SameRequest(task'[t], task[t])
            BY <1>2, FlagsType DEF EditNode, TasksType
        <3> QED BY <3>1, AllFlagsType
    <2>2. doc' \in [content : Content, base : Content] /\ typed' \in Values
        BY <1>2, ContentType DEF EditNode, PageType, Content
    <2> QED BY <1>2, <2>1, <2>2, BoundsAssumption DEF BoundsAssumption, EditNode, Act, ServerType, PageType, CountersType
<1>3. CASE ResetTyped
    BY <1>3, ContentType DEF ResetTyped, TasksType, Carried, ServerType, PageType, CountersType
<1>4. CASE Leave
    <2>1. TasksType'
        <3>1. CASE timer
            <4>1. PICK t \in Free : task' = [task EXCEPT ![t] = Put(doc, "done")]
                BY <1>4, <3>1 DEF Leave
            <4> QED BY <4>1, PutType, OneType DEF PageType, Free
        <3>2. CASE ~timer
            BY <1>4, <3>2 DEF Leave, TasksType, Carried
        <3> QED BY <3>1, <3>2
    <2>2. typed' \in Values
        BY <1>4, ContentType DEF Leave, PageType
    <2>3. PageType'
        BY <1>4, <2>2 DEF Leave, PageType
    <2>4. ServerType' /\ CountersType'
        BY <1>4, BoundsAssumption DEF BoundsAssumption, Leave, Act, ServerType, CountersType
    <2> QED BY <2>1, <2>3, <2>4
<1>5. CASE LoadList
    <2>1. TasksType'
        BY <1>5, OvertakenType, AllFlagsType DEF LoadList, TasksType
    <2> QED BY <1>5, <2>1 DEF LoadList, ServerType, PageType, CountersType
<1>6. CASE Open
    <2>1. item \in Content
        BY <1>6 DEF Open, PageType
    <2> QED BY <1>6, <2>1, ContentType DEF Open, TasksType, Carried, ServerType, PageType, CountersType
<1>7. ASSUME NEW t \in Tasks, Store(t) PROVE Typed'
    BY <1>7, StoreTyped
<1>8. ASSUME NEW t \in Tasks, Run(t) PROVE Typed'
    <2> DEFINE b == Calm /\ ~told /\ ~missed
               k == [At("start", doc.content) EXCEPT !.sure = b]
    <2>1. At("start", doc.content) \in Task /\ Carries(At("start", doc.content)) /\ At("start", doc.content).step = "start"
        BY AtType DEF PageType, Steps
    <2>2. k \in Task /\ Carries(k) /\ k.step = "start"
        <3>1. b \in BOOLEAN
            BY DEF Calm, PageType
        <3> HIDE DEF b
        <3> QED BY <2>1, <3>1, FlagsType DEF SameRequest, Carries
    <2>3. FlushThen(t, k)
        BY <1>8 DEF Run
    <2> HIDE DEF k
    <2>4. TasksType' /\ timer' \in BOOLEAN /\ unsent' \in BOOLEAN
        BY <2>2, <2>3, FlushType
    <2> QED BY <1>8, <2>4, BoundsAssumption DEF BoundsAssumption, Run, Act, ServerType, PageType, CountersType
<1> QED BY <1>1, <1>2, <1>3, <1>4, <1>5, <1>6, <1>7, <1>8 DEF User, Save

LEMMA SystemTyped == Typed /\ System => Typed'
<1> SUFFICES ASSUME Typed, System PROVE Typed'
    OBVIOUS
<1> USE DEF Typed, serverVars, userVars, timerVars, linkVars, pageVars, truthVars
<1>1. CASE Notice
    BY <1>1 DEF Notice, TasksType, Carried, ServerType, PageType, CountersType
<1>2. ASSUME NEW t \in Tasks, Store(t) PROVE Typed'
    BY <1>2, StoreTyped DEF Store
<1>3. ASSUME NEW t \in Tasks, Persist(t) PROVE Typed'
    <2>1. TasksType'
        BY <1>3, PutType, OneType DEF Persist, PageType
    <2> QED BY <1>3, <2>1 DEF Persist, ServerType, PageType, CountersType
<1>4. ASSUME NEW t \in Tasks, Refresh(t) \/ Reconnect(t) PROVE Typed'
    <2>1. At("get", NoItem) \in Task /\ Carries(At("get", NoItem)) /\ At("get", NoItem).step = "get"
        BY AtType DEF Steps
    <2>2. TasksType' /\ timer' \in BOOLEAN /\ unsent' \in BOOLEAN
        BY <1>4, <2>1, FlushType DEF Refresh, Reconnect
    <2> QED BY <1>4, <2>2 DEF Refresh, Reconnect, ServerType, PageType, CountersType
<1>5. ASSUME NEW t \in Tasks, Check(t) PROVE Typed'
    <2>1. TasksType'
        BY <1>5, MovedType DEF Check, Steps, TasksType, Carried, Carries
    <2> QED BY <1>5, <2>1 DEF Check, ServerType, PageType, CountersType
<1>6. ASSUME NEW t \in Tasks, Write(t) PROVE Typed'
    <2> DEFINE m == [k \in Tasks |-> IF k = t THEN [task[t] EXCEPT !.step = "ok", !.raced = FALSE]
                                            ELSE Disturbed(task[k])]
    <2>1. task[t].body \in Content
        BY <1>6 DEF Write, TasksType, Carried, Carries
    <2>2. ASSUME NEW k \in Tasks PROVE m[k] \in Task /\ Carries(m[k])
        <3>1. task[k] \in Task /\ Carries(task[k])
            BY DEF TasksType, Carried
        <3>2. CASE k = t
            BY <3>1, <3>2 DEF Task, Steps, Carries
        <3>3. CASE k # t
            BY <3>1, <3>3, DisturbedType DEF Carries, SameRequest
        <3> QED BY <3>2, <3>3
    <2>3. Written(task[t].body, m) /\ m = [k \in Tasks |-> m[k]]
        BY <1>6 DEF Write
    <2>4. foreign' \in 0 .. MaxForeign
        BY <1>6 DEF Write, ServerType
    <2>5. UNCHANGED <<doc, userVars, timerVars, link, pageVars, truthVars, faults>>
        BY <1>6 DEF Write
    <2> HIDE DEF m
    <2> QED BY ONLY Typed, <2>1, <2>2, <2>3, <2>4, <2>5, WrittenTyped
<1>7. ASSUME NEW t \in Tasks, Read(t) PROVE Typed'
    <2>1. TasksType'
        <3> DEFINE s == IF task[t].step = "get" THEN "answer" ELSE "reanswer"
        <3>1. task' = [task EXCEPT ![t].step = s, ![t].body = stored]
            BY <1>7 DEF Read
        <3>2. s \in Steps /\ s \in {"answer", "reanswer"}
            BY DEF Steps
        <3> HIDE DEF s
        <3> QED BY <3>1, <3>2, SteppedType DEF ServerType
    <2> QED BY <1>7, <2>1 DEF Read, ServerType, PageType, CountersType
<1>8. ASSUME NEW t \in Tasks, Start(t) PROVE Typed'
    <2>1. TasksType'
        BY <1>8, BlankType, OneType DEF Start
    <2> QED BY <1>8, <2>1 DEF Start, ServerType, PageType, CountersType
<1>9. ASSUME NEW t \in Tasks, Accepted(t) PROVE Typed'
    <2>1. TasksType'
        BY <1>9, FollowType, OneType DEF Accepted, TasksType
    <2> QED BY <1>9, <2>1 DEF Accepted, ServerType, PageType, CountersType
<1>10. ASSUME NEW t \in Tasks, Refused(t) PROVE Typed'
    <2>1. TasksType'
        BY <1>10, BlankType, OneType, MovedType DEF Refused, Steps
    <2> QED BY <1>10, <2>1 DEF Refused, ServerType, PageType, CountersType
<1>11. ASSUME NEW t \in Tasks, RereadAnswer(t) PROVE Typed'
    <2>1. TasksType'
        BY <1>11, ResumeType, EndsType DEF RereadAnswer, TasksType
    <2> QED BY <1>11, <2>1, ShowTyped DEF RereadAnswer, ServerType, CountersType
<1>12. ASSUME NEW t \in Tasks, RefreshAnswer(t) PROVE Typed'
    <2>1. TasksType'
        BY <1>12, BlankType, EndsType DEF RefreshAnswer
    <2>2. CASE task[t].body = doc.base
        BY <1>12, <2>1, <2>2 DEF RefreshAnswer, ServerType, PageType, CountersType, TasksType, Task
    <2>3. CASE task[t].body # doc.base
        BY <1>12, <2>1, <2>3, ShowTyped DEF RefreshAnswer, ServerType, CountersType
    <2> QED BY <2>2, <2>3
<1> QED BY <1>1, <1>2, <1>3, <1>4, <1>5, <1>6, <1>7, <1>8, <1>9, <1>10, <1>11, <1>12
        DEF System, AutoSave

LEMMA WorldTyped == Typed /\ World => Typed'
<1> SUFFICES ASSUME Typed, World PROVE Typed'
    OBVIOUS
<1> USE DEF Typed, serverVars, userVars, timerVars, linkVars, pageVars, truthVars
<1>1. ASSUME NEW c \in Content, ForeignUpdate(c) PROVE Typed'
    <2> DEFINE m == [k \in Tasks |-> Disturbed(task[k])]
    <2>1. ASSUME NEW k \in Tasks PROVE m[k] \in Task /\ Carries(m[k])
        BY DisturbedType DEF TasksType, Carried, Carries, SameRequest
    <2>2. Written(c, m) /\ foreign' \in 0 .. MaxForeign
        BY <1>1, BoundsAssumption DEF BoundsAssumption, ForeignUpdate, ServerType
    <2> QED BY <1>1, <2>1, <2>2, WrittenTyped DEF ForeignUpdate
<1>2. CASE Disconnect
    <2>1. CountersType'
        BY <1>2, BoundsAssumption DEF BoundsAssumption, Disconnect, CountersType
    <2> QED BY <1>2, <2>1 DEF Disconnect, TasksType, Carried, ServerType, PageType
<1>3. ASSUME NEW t \in Tasks, Fail(t) PROVE Typed'
    <2>1. TasksType'
        BY <1>3, BlankType, ResumeType, EndsType DEF Fail, TasksType
    <2>2. told' \in BOOLEAN /\ missed' \in BOOLEAN
        BY <1>3 DEF Fail, PageType
    <2> QED BY <1>3, <2>1, <2>2, BoundsAssumption DEF BoundsAssumption, Fail, ServerType, PageType, CountersType
<1> QED BY <1>1, <1>2, <1>3 DEF World

\* Every variable keeps its type: the tasks, the page, what the server has.
THEOREM TypeCorrect == Spec => []TypeOK
<1>1. Typed /\ [Next]_vars => Typed'
    <2>1. Typed /\ UNCHANGED vars => Typed'
        BY DEF vars, serverVars, userVars, timerVars, linkVars, pageVars, truthVars,
               Typed, TasksType, Carried, ServerType, PageType, CountersType
    <2> QED BY <2>1, UserTyped, SystemTyped, WorldTyped DEF Next
<1> QED BY <1>1, TypedInit, TypedIsTypeOK, PTL DEF Spec

-----------------------------------------------------------------------------
(* Edits that no request has carried                                       *)

\* Such an edit has its timer, and it is younger than every request under way.
UnsentIsYoung ==
    unsent => timer /\ \A t \in Tasks : task[t].step # "idle" => task[t].over

\* No request begins; those that go on remember what they are younger than.
Advances ==
    \A u \in Tasks : task'[u].step # "idle" => task[u].step # "idle" /\ task'[u].over = task[u].over

LEMMA AdvancesKeeps ==
    ASSUME UnsentIsYoung, Advances, UNCHANGED <<timer, unsent>>
    PROVE  UnsentIsYoung'
BY DEF UnsentIsYoung, Advances

LEMMA EndsAdvances ==
    ASSUME Typed, NEW t \in Tasks, NEW k \in Task, Ends(t, k),
           k.step # "idle" => task[t].step # "idle" /\ k.over = task[t].over
    PROVE  Advances
<1>1. task' = [Overtaken(task) EXCEPT ![t] = k]
    BY DEF Ends
<1>2. Overtaken(task) \in [Tasks -> Task]
      /\ \A u \in Tasks : SameRequest(Overtaken(task)[u], task[u]) /\ Overtaken(task)[u].over = task[u].over
    BY OvertakenType DEF Typed, TasksType
<1> QED BY <1>1, <1>2 DEF Advances, SameRequest

LEMMA WrittenAdvances ==
    ASSUME Typed, NEW m \in [Tasks -> Task], NEW c, Written(c, m),
           \A u \in Tasks : m[u].step # "idle" => task[u].step # "idle" /\ m[u].over = task[u].over
    PROVE  Advances
<1>1. \A u \in Tasks : SameRequest(Overtaken(m)[u], m[u]) /\ Overtaken(m)[u].over = m[u].over
    BY OvertakenType
<1> QED BY <1>1 DEF Written, Advances, SameRequest

\* What the server and the answers do to the requests.
LEMMA ServerAdvances ==
    ASSUME Typed, NEW t \in Tasks,
           \/ Check(t) \/ Write(t) \/ Read(t) \/ Start(t) \/ Accepted(t) \/ Refused(t)
           \/ RereadAnswer(t) \/ RefreshAnswer(t) \/ Fail(t)
    PROVE  Advances
<1>1. task[t] \in Task /\ task \in [Tasks -> Task]
    BY DEF Typed, TasksType
<1>2. CASE Check(t)
    BY <1>1, <1>2 DEF Check, Advances, Task
<1>3. CASE Write(t)
    <2> DEFINE m == [k \in Tasks |-> IF k = t THEN [task[t] EXCEPT !.step = "ok", !.raced = FALSE]
                                            ELSE Disturbed(task[k])]
    <2>1. ASSUME NEW u \in Tasks
          PROVE  m[u] \in Task /\ (m[u].step # "idle" => task[u].step # "idle" /\ m[u].over = task[u].over)
        <3>1. CASE u = t
            BY <1>1, <1>3, <3>1 DEF Write, Task, Steps
        <3>2. CASE u # t
            BY <1>1, <3>2, DisturbedType DEF SameRequest
        <3> QED BY <3>1, <3>2
    <2>2. m \in [Tasks -> Task] /\ Written(task[t].body, m)
        BY <1>3, <2>1 DEF Write
    <2> HIDE DEF m
    <2> QED BY <2>1, <2>2, WrittenAdvances
<1>4. CASE Read(t)
    BY <1>1, <1>4 DEF Read, Advances, Task
<1>5. CASE Start(t)
    BY <1>1, <1>5, BlankType DEF Start, Advances
<1>6. CASE Accepted(t)
    BY <1>1, <1>6, FollowType, BlankType DEF Accepted, Advances
<1>7. CASE Refused(t)
    <2>1. CASE task[t].then = "save"
        BY <1>1, <1>7, <2>1, BlankType DEF Refused, Advances
    <2>2. CASE task[t].then # "save"
        BY <1>1, <1>7, <2>2 DEF Refused, Advances, Task
    <2> QED BY <2>1, <2>2
<1>8. CASE RereadAnswer(t)
    <2>1. (LET k == [Follow(task[t]) EXCEPT !.late = FALSE, !.sure = FALSE]
           IN  k \in Task /\ (k.step # "idle" => k.over = task[t].over))
        BY <1>1, ResumeType, FollowType, BlankType DEF SameRequest
    <2> QED BY <1>8, <2>1, EndsAdvances DEF RereadAnswer
<1>9. CASE RefreshAnswer(t)
    BY <1>9, BlankType, EndsAdvances DEF RefreshAnswer
<1>10. CASE Fail(t)
    <2>1. (LET k == [Follow(task[t]) EXCEPT !.late = FALSE, !.sure = FALSE]
           IN  k \in Task /\ (k.step # "idle" => k.over = task[t].over))
        BY <1>1, ResumeType, FollowType, BlankType DEF SameRequest
    <2>2. CASE task[t].step \in {"get", "answer", "start"}
        BY <1>10, <2>2, BlankType, EndsAdvances DEF Fail
    <2>3. CASE task[t].step \notin {"get", "answer", "start"}
        BY <1>10, <2>1, <2>3, EndsAdvances DEF Fail
    <2> QED BY <2>2, <2>3
<1> QED BY <1>2, <1>3, <1>4, <1>5, <1>6, <1>7, <1>8, <1>9, <1>10

LEMMA YoungStep == Typed /\ UnsentIsYoung /\ [Next]_vars => UnsentIsYoung'
<1> SUFFICES ASSUME Typed, UnsentIsYoung, [Next]_vars PROVE UnsentIsYoung'
    OBVIOUS
<1> USE DEF serverVars, userVars, timerVars, linkVars, pageVars, truthVars
<1>0. task \in [Tasks -> Task]
    BY DEF Typed, TasksType
<1>1. ASSUME NEW v \in Values, EditNode(v) PROVE UnsentIsYoung'
    <2>1. timer' = TRUE /\ task' = [k \in Tasks |-> [task[k] EXCEPT !.over = task[k].step # "idle"]]
        BY <1>1 DEF EditNode
    <2>2. ASSUME NEW t \in Tasks PROVE task'[t].step # "idle" => task'[t].over
        <3>1. PICK k \in Task : k = task[t]
            BY <1>0
        <3>2. task'[t] = [k EXCEPT !.over = k.step # "idle"]
            BY <2>1, <3>1
        <3> QED BY <3>2 DEF Task
    <2> QED BY <2>1, <2>2 DEF UnsentIsYoung
<1>2. ASSUME ~unsent' PROVE UnsentIsYoung'
    BY <1>2 DEF UnsentIsYoung
<1>3. ASSUME NEW t \in Tasks, NEW k, FlushThen(t, k) PROVE UnsentIsYoung'
    BY <1>2, <1>3 DEF FlushThen, UnsentIsYoung
<1>4. ASSUME UNCHANGED <<task, timer, unsent>> PROVE UnsentIsYoung'
    BY <1>4 DEF UnsentIsYoung
<1>5. CASE User
    <2>1. CASE LoadList
        <3>1. Advances
            BY <2>1, OvertakenType DEF LoadList, Typed, TasksType, Advances, SameRequest
        <3> QED BY <2>1, <3>1, AdvancesKeeps DEF LoadList
    <2>2. ASSUME NEW t \in Tasks, Run(t) PROVE UnsentIsYoung'
        BY <2>2, <1>3 DEF Run
    <2>3. ASSUME NEW v \in Values, Type(v) PROVE UnsentIsYoung'
        BY <2>3, <1>4 DEF Type
    <2>4. CASE ResetTyped \/ Open
        BY <2>4, <1>4 DEF ResetTyped, Open
    <2>5. ASSUME NEW t \in Tasks, Save(t) PROVE UnsentIsYoung'
        BY <2>5, <1>2 DEF Save, Store
    <2>6. CASE Leave
        BY <2>6, <1>2 DEF Leave
    <2> QED BY <1>1, <1>5, <2>1, <2>2, <2>3, <2>4, <2>5, <2>6 DEF User
<1>6. CASE System
    <2>1. CASE Notice
        BY <2>1, <1>4 DEF Notice
    <2>2. ASSUME NEW t \in Tasks, AutoSave(t) \/ Persist(t) PROVE UnsentIsYoung'
        BY <2>2, <1>2 DEF AutoSave, Store, Persist
    <2>3. ASSUME NEW t \in Tasks, Refresh(t) \/ Reconnect(t) PROVE UnsentIsYoung'
        BY <2>3, <1>3 DEF Refresh, Reconnect
    <2>4. ASSUME NEW t \in Tasks,
                 Check(t) \/ Write(t) \/ Read(t) \/ Start(t) \/ Accepted(t) \/ Refused(t)
          PROVE  UnsentIsYoung'
        <3>1. UNCHANGED <<timer, unsent>>
            BY <2>4 DEF Check, Write, Read, Start, Accepted, Refused
        <3> QED BY <2>4, <3>1, ServerAdvances, AdvancesKeeps
    <2>5. ASSUME NEW t \in Tasks, RereadAnswer(t) PROVE UnsentIsYoung'
        BY <2>5, <1>2 DEF RereadAnswer, Show
    <2>6. ASSUME NEW t \in Tasks, RefreshAnswer(t) PROVE UnsentIsYoung'
        <3>1. ~unsent' \/ UNCHANGED <<timer, unsent>>
            BY <2>6 DEF RefreshAnswer, Show
        <3> QED BY <1>2, <2>6, <3>1, ServerAdvances, AdvancesKeeps
    <2> QED BY <1>6, <2>1, <2>2, <2>3, <2>4, <2>5, <2>6 DEF System
<1>7. CASE World
    <2>1. ASSUME NEW c \in Content, ForeignUpdate(c) PROVE UnsentIsYoung'
        <3> DEFINE m == [k \in Tasks |-> Disturbed(task[k])]
        <3>1. \A u \in Tasks : m[u] \in Task /\ m[u].step = task[u].step /\ m[u].over = task[u].over
            BY <1>0, DisturbedType DEF SameRequest
        <3>2. m \in [Tasks -> Task] /\ Written(c, m)
            BY <2>1, <3>1 DEF ForeignUpdate
        <3> HIDE DEF m
        <3>3. Advances
            BY <3>1, <3>2, WrittenAdvances
        <3> QED BY <2>1, <3>3, AdvancesKeeps DEF ForeignUpdate
    <2>2. CASE Disconnect
        BY <2>2, <1>4 DEF Disconnect
    <2>3. ASSUME NEW t \in Tasks, Fail(t) PROVE UnsentIsYoung'
        BY <2>3, ServerAdvances, AdvancesKeeps DEF Fail
    <2> QED BY <1>7, <2>1, <2>2, <2>3 DEF World
<1>8. CASE UNCHANGED vars
    BY <1>8, <1>4 DEF vars
<1> QED BY <1>5, <1>6, <1>7, <1>8 DEF Next

-----------------------------------------------------------------------------
(* Updates and runs at the server                                          *)

\* An update that has passed its check still overwrites what it has read,
\* unless somebody has written since.
ChecksOut(k, c) == k.step = "write" => c = k.base \/ k.raced

\* A run asked for on a quiet page: its update, if it has one, replaces what
\* is stored, cannot be refused, and stores what the run is started on.
StartsTrue(k, c) ==
    IF k.step = "start" THEN c = k.body
    ELSE /\ k.then = "start"
         /\ \/ k.step \in {"check", "write"} /\ c = k.base
            \/ k.step = "ok" /\ c = k.body

Served(k, c) == ChecksOut(k, c) /\ (k.sure => StartsTrue(k, c))
AllServed == \A t \in Tasks : Served(task[t], stored)

\* A request as it was, but for flags that promise nothing.
Alike(k, m) == SameRequest(k, m) /\ k.raced = m.raced /\ (k.sure => m.sure)

LEMMA AlikeServed ==
    ASSUME NEW c, NEW k, NEW m, Alike(k, m), Served(m, c)
    PROVE  Served(k, c)
BY DEF Alike, SameRequest, Served, ChecksOut, StartsTrue

\* One request moves, nothing is written.
LEMMA OneServed ==
    ASSUME AllServed, stored' = stored, NEW t \in Tasks, Served(task'[t], stored),
           \A u \in Tasks \ {t} : Alike(task'[u], task[u])
    PROVE  AllServed'
<1>1. \A u \in Tasks : Served(task'[u], stored)
    BY AlikeServed DEF AllServed
<1> QED BY <1>1 DEF AllServed, Served, ChecksOut, StartsTrue

LEMMA SameServed ==
    ASSUME AllServed, stored' = stored, \A u \in Tasks : Alike(task'[u], task[u])
    PROVE  AllServed'
<1>1. \A u \in Tasks : Served(task'[u], stored)
    BY AlikeServed DEF AllServed
<1> QED BY <1>1 DEF AllServed, Served, ChecksOut, StartsTrue

LEMMA EndsServed ==
    ASSUME Typed, AllServed, stored' = stored, NEW t \in Tasks, NEW k, Served(k, stored), Ends(t, k)
    PROVE  AllServed'
<1>1. /\ Overtaken(task) \in [Tasks -> Task]
      /\ \A u \in Tasks : Alike(Overtaken(task)[u], task[u])
    BY OvertakenType DEF Typed, TasksType, Alike
<1>2. task' = [Overtaken(task) EXCEPT ![t] = k]
    BY DEF Ends
<1> QED BY <1>1, <1>2, OneServed

LEMMA PlainServed == \A k, c : ~k.sure /\ k.step # "write" => Served(k, c)
BY DEF Served, ChecksOut

LEMMA ResumedServed ==
    ASSUME NEW k \in Task
    PROVE  Served([Follow(k) EXCEPT !.late = FALSE, !.sure = FALSE], stored)
<1> DEFINE m == [Follow(k) EXCEPT !.late = FALSE, !.sure = FALSE]
<1>1. ~m.sure /\ m.step = Follow(k).step
    BY ResumeType DEF SameRequest
<1>2. m.step # "write"
    BY <1>1, FollowType, BlankType
<1> QED BY <1>1, <1>2, PlainServed

\* A request that starts, on a document whose revision is stored.
LEMMA FlushServed ==
    ASSUME Typed, AllServed, stored' = stored, NEW t \in Tasks, NEW k \in Task, FlushThen(t, k),
           k.step \in {"get", "start"},
           k.sure => k.step = "start" /\ (IF timer THEN doc.base = stored ELSE k.body = stored)
    PROVE  AllServed'
<1>1. CASE timer
    <2> DEFINE m == [Put(doc, k.step) EXCEPT !.sure = k.sure]
    <2>1. Put(doc, k.step) \in Task /\ k.sure \in BOOLEAN
        BY PutType DEF Task, Typed, PageType
    <2>2. SameRequest(m, Put(doc, k.step)) /\ m.sure = k.sure
        BY <2>1, FlagsType DEF Task
    <2>3. m.step = "check" /\ m.then = k.step /\ m.base = doc.base
        BY <2>2, PutType DEF SameRequest, Typed, PageType
    <2>4. task' = [task EXCEPT ![t] = m]
        BY <1>1 DEF FlushThen
    <2> HIDE DEF m
    <2>5. Served(m, stored)
        BY <1>1, <2>2, <2>3 DEF Served, ChecksOut, StartsTrue
    <2> QED BY <2>4, <2>5, OneServed DEF Typed, TasksType, Alike, SameRequest
<1>2. CASE ~timer
    <2>1. Served(k, stored)
        BY <1>2 DEF Served, ChecksOut, StartsTrue
    <2> QED BY <1>2, <2>1, OneServed DEF FlushThen, Typed, TasksType, Alike, SameRequest
<1> QED BY <1>1, <1>2

\* Somebody writes: nothing is sure any more, and every update on its way
\* knows that it has been overtaken.
LEMMA DisturbedServed == \A k \in Task : Served(Disturbed(k), stored')
BY DisturbedType DEF Served, ChecksOut, SameRequest

LEMMA WrittenServed ==
    ASSUME NEW m \in [Tasks -> Task], NEW c, Written(c, m),
           \A u \in Tasks : Served(m[u], stored')
    PROVE  AllServed'
<1>1. ASSUME NEW u \in Tasks PROVE Alike(Overtaken(m)[u], m[u])
    BY OvertakenType DEF Alike
<1> QED BY <1>1 DEF Written, AllServed, Alike, SameRequest, Served, ChecksOut, StartsTrue

\* A quiet page holds the revision that is stored, and shows its content
\* unless an edit is still in its debounce.
QuietIsStored ==
    page = "canvas" /\ Calm /\ ~told /\ ~missed
        => doc.base = stored /\ (~timer => doc.content = stored)

LEMMA ServedStep == Typed /\ QuietIsStored /\ AllServed /\ [Next]_vars => AllServed'
<1> SUFFICES ASSUME Typed, QuietIsStored, AllServed, [Next]_vars PROVE AllServed'
    OBVIOUS
<1> USE DEF serverVars, userVars, timerVars, linkVars, pageVars, truthVars
<1>0. task \in [Tasks -> Task] /\ \A u \in Tasks : Served(task[u], stored)
    BY DEF Typed, TasksType, AllServed
<1>1. ASSUME UNCHANGED <<stored, task>> PROVE AllServed'
    BY <1>1, SameServed DEF Alike, SameRequest
<1>2. ASSUME NEW t \in Tasks, Store(t) PROVE AllServed'
    <2>1. doc' \in [content : Content, base : Content]
        BY <1>2, StoreTyped DEF Typed, PageType
    <2>2. Served(Put(doc', "save"), stored)
        BY <2>1, PutType, PlainServed
    <2>3. ASSUME NEW u \in Tasks PROVE Alike([task[u] EXCEPT !.over = task[u].step # "idle"], task[u])
        BY <1>0 DEF Alike, SameRequest, Task
    <2> QED BY <1>2, <2>2, <2>3, OneServed DEF Store
<1>3. CASE User
    <2>1. ASSUME NEW v \in Values, EditNode(v) PROVE AllServed'
        <3>1. ASSUME NEW u \in Tasks PROVE Alike(task'[u], task[u])
            BY <1>0, <2>1 DEF EditNode, Alike, SameRequest, Task
        <3> QED BY <2>1, <3>1, SameServed DEF EditNode
    <2>2. CASE LoadList
        <3>1. ASSUME NEW u \in Tasks PROVE Alike(task'[u], task[u])
            BY <1>0, <2>2, OvertakenType DEF LoadList, Alike
        <3> QED BY <2>2, <3>1, SameServed DEF LoadList
    <2>3. ASSUME NEW t \in Tasks, Run(t) PROVE AllServed'
        <3> DEFINE b == Calm /\ ~told /\ ~missed
                   k == [At("start", doc.content) EXCEPT !.sure = b]
        <3>1. At("start", doc.content) \in Task /\ At("start", doc.content).step = "start"
              /\ At("start", doc.content).body = doc.content
            BY AtType DEF Typed, PageType, Steps
        <3>2. b \in BOOLEAN
            BY DEF Calm, Typed, PageType
        <3>3. k \in Task /\ k.step = "start" /\ k.body = doc.content /\ k.sure = b
            <4> HIDE DEF b
            <4> QED BY <3>1, <3>2 DEF Task
        <3>4. b => IF timer THEN doc.base = stored ELSE doc.content = stored
            BY <2>3 DEF Run, Act, QuietIsStored
        <3>5. FlushThen(t, k) /\ stored' = stored
            BY <2>3 DEF Run
        <3> HIDE DEF b, k
        <3> QED BY <3>3, <3>4, <3>5, FlushServed
    <2>4. CASE Leave
        <3>1. CASE timer
            <4>1. PICK t \in Free : task' = [task EXCEPT ![t] = Put(doc, "done")]
                BY <2>4, <3>1 DEF Leave
            <4>2. Served(Put(doc, "done"), stored)
                BY PutType, PlainServed DEF Typed, PageType
            <4> QED BY <1>0, <2>4, <4>1, <4>2, OneServed DEF Leave, Free, Alike, SameRequest
        <3>2. CASE ~timer
            BY <1>1, <2>4, <3>2 DEF Leave
        <3> QED BY <3>1, <3>2
    <2>5. ASSUME NEW v \in Values, Type(v) PROVE AllServed'
        BY <1>1, <2>5 DEF Type
    <2>6. CASE ResetTyped \/ Open
        BY <1>1, <2>6 DEF ResetTyped, Open
    <2> QED BY <1>2, <1>3, <2>1, <2>2, <2>3, <2>4, <2>5, <2>6 DEF User, Save
<1>4. CASE System
    <2>1. CASE Notice
        BY <1>1, <2>1 DEF Notice
    <2>2. ASSUME NEW t \in Tasks, Persist(t) PROVE AllServed'
        <3>1. Served(Put(doc, "done"), stored)
            BY PutType, PlainServed DEF Typed, PageType
        <3> QED BY <1>0, <2>2, <3>1, OneServed DEF Persist, Alike, SameRequest
    <2>3. ASSUME NEW t \in Tasks, Refresh(t) \/ Reconnect(t) PROVE AllServed'
        <3>1. At("get", NoItem) \in Task /\ At("get", NoItem).step = "get" /\ ~At("get", NoItem).sure
            BY AtType DEF Steps
        <3>2. FlushThen(t, At("get", NoItem)) /\ stored' = stored
            BY <2>3 DEF Refresh, Reconnect
        <3> QED BY <3>1, <3>2, FlushServed
    <2>4. ASSUME NEW t \in Tasks, Check(t) PROVE AllServed'
        <3>1. Served(task'[t], stored)
            BY <1>0, <2>4 DEF Check, Served, ChecksOut, StartsTrue, Task
        <3> QED BY <1>0, <2>4, <3>1, OneServed DEF Check, Alike, SameRequest
    <2>5. ASSUME NEW t \in Tasks, Write(t) PROVE AllServed'
        <3> DEFINE m == [k \in Tasks |-> IF k = t THEN [task[t] EXCEPT !.step = "ok", !.raced = FALSE]
                                                ELSE Disturbed(task[k])]
        <3>1. stored' = task[t].body /\ Written(task[t].body, m)
            BY <2>5 DEF Write, Written
        <3>2. ASSUME NEW u \in Tasks PROVE m[u] \in Task /\ Served(m[u], stored')
            <4>1. task[u] \in Task /\ Served(task[t], stored)
                BY <1>0
            <4>2. CASE u = t
                <5> DEFINE k == [task[t] EXCEPT !.step = "ok", !.raced = FALSE]
                <5>1. k \in Task /\ k.step = "ok" /\ k.then = task[t].then
                      /\ k.body = task[t].body /\ k.sure = task[t].sure
                    BY <4>1, <4>2 DEF Task, Steps
                <5>2. task[t].sure => task[t].then = "start"
                    BY <2>5, <4>1 DEF Write, Served, StartsTrue
                <5>3. m[u] = k
                    BY <4>2
                <5> HIDE DEF k
                <5>4. Served(k, stored')
                    BY <3>1, <5>1, <5>2 DEF Served, ChecksOut, StartsTrue
                <5> QED BY <5>1, <5>3, <5>4 DEF Served, ChecksOut, StartsTrue
            <4>3. CASE u # t
                BY <4>1, <4>3, DisturbedType, DisturbedServed DEF Served, ChecksOut, StartsTrue
            <4> QED BY <4>2, <4>3
        <3>3. m \in [Tasks -> Task]
            BY <3>2
        <3> HIDE DEF m
        <3> QED BY <3>1, <3>2, <3>3, WrittenServed
    <2>6. ASSUME NEW t \in Tasks, Read(t) PROVE AllServed'
        <3>1. Served(task'[t], stored)
            BY <1>0, <2>6 DEF Read, Served, ChecksOut, StartsTrue, Task
        <3> QED BY <1>0, <2>6, <3>1, OneServed DEF Read, Alike, SameRequest
    <2>7. ASSUME NEW t \in Tasks, Start(t) PROVE AllServed'
        BY <1>0, <2>7, BlankType, PlainServed, OneServed DEF Start, Alike, SameRequest
    <2>8. ASSUME NEW t \in Tasks, Accepted(t) PROVE AllServed'
        <3>1. Served(Follow(task[t]), stored)
            BY <1>0, <2>8, FollowType, BlankType DEF Accepted, Served, ChecksOut, StartsTrue
        <3> QED BY <1>0, <2>8, <3>1, OneServed DEF Accepted, Alike, SameRequest
    <2>9. ASSUME NEW t \in Tasks, Refused(t) PROVE AllServed'
        <3>1. Served(task'[t], stored)
            BY <1>0, <2>9, BlankType DEF Refused, Served, ChecksOut, StartsTrue, Task
        <3> QED BY <1>0, <2>9, <3>1, OneServed DEF Refused, Alike, SameRequest
    <2>10. ASSUME NEW t \in Tasks, RereadAnswer(t) PROVE AllServed'
        <3>1. Served([Follow(task[t]) EXCEPT !.late = FALSE, !.sure = FALSE], stored)
            BY <1>0, ResumedServed
        <3> QED BY <2>10, <3>1, EndsServed DEF RereadAnswer
    <2>11. ASSUME NEW t \in Tasks, RefreshAnswer(t) PROVE AllServed'
        BY <2>11, BlankType, PlainServed, EndsServed DEF RefreshAnswer
    <2> QED BY <1>2, <1>4, <2>1, <2>2, <2>3, <2>4, <2>5, <2>6, <2>7, <2>8, <2>9, <2>10, <2>11
            DEF System, AutoSave
<1>5. CASE World
    <2>1. ASSUME NEW c \in Content, ForeignUpdate(c) PROVE AllServed'
        <3> DEFINE m == [k \in Tasks |-> Disturbed(task[k])]
        <3>1. m \in [Tasks -> Task] /\ Written(c, m)
            BY <1>0, <2>1, DisturbedType DEF ForeignUpdate
        <3>2. \A u \in Tasks : Served(m[u], stored')
            BY <1>0, DisturbedServed DEF Served, ChecksOut, StartsTrue
        <3> HIDE DEF m
        <3> QED BY <3>1, <3>2, WrittenServed
    <2>2. CASE Disconnect
        BY <1>1, <2>2 DEF Disconnect
    <2>3. ASSUME NEW t \in Tasks, Fail(t) PROVE AllServed'
        <3>1. Served([Follow(task[t]) EXCEPT !.late = FALSE, !.sure = FALSE], stored)
            BY <1>0, ResumedServed
        <3>2. Served(Blank, stored)
            BY BlankType, PlainServed
        <3> QED BY <2>3, <3>1, <3>2, EndsServed DEF Fail
    <2> QED BY <1>5, <2>1, <2>2, <2>3 DEF World
<1>6. CASE UNCHANGED vars
    BY <1>1, <1>6 DEF vars
<1> QED BY <1>3, <1>4, <1>5, <1>6 DEF Next

-----------------------------------------------------------------------------
(* What the page shows and what is stored                                  *)

Answering(k) == k.step \in {"answer", "reanswer"}
\* The request is going to read the workflow; it is still to end, unless it
\* has been accepted; its answer is what is stored.
WillRead(k) == \/ k.step \in {"get", "reread"}
               \/ k.then = "get" /\ k.step \in {"check", "write", "ok", "refused", "reanswer"}
Ending(k) == k.step \in {"check", "write", "refused", "answer", "reanswer"}
Current(k, c) == Answering(k) /\ k.body = c
Fresh(k) == Answering(k) /\ ~k.late

Signal == event \/ refresh \/ ~link
Renewal == Signal \/ \E t \in Tasks : WillRead(task[t])
Flagged == told \/ missed

\* A canvas whose revision is not the stored one is going to read it, or has
\* said that something is amiss.
BaseComes ==
    page = "canvas" =>
        doc.base = stored \/ Flagged \/ Renewal \/ \E t \in Tasks : Current(task[t], stored)

\* The same of its text, which moreover may be on its way to the server.
TextComes ==
    page = "canvas" =>
        doc.content = doc.base \/ timer \/ Flagged \/ Renewal \/ \E t \in Tasks : Ending(task[t])

\* An answer that is older than what is stored is known to be so, or a newer
\* one is going to follow it.
AnswersAreFollowed ==
    page = "canvas" =>
        \A t \in Tasks : Fresh(task[t]) /\ task[t].body # stored
            => Renewal \/ \E u \in Tasks : Current(task[u], stored)

\* The list has been read after every answer that is still to come, but for
\* those that agree with it.
ListIsNew ==
    page = "list" /\ item # NoItem => \A t \in Tasks : Fresh(task[t]) => task[t].body = stored

Renewed == BaseComes /\ TextComes /\ AnswersAreFollowed /\ ListIsNew

LEMMA RenewedIsQuiet == Typed /\ Renewed => QuietIsStored
<1> SUFFICES ASSUME Typed, Renewed, page = "canvas", Calm, ~told, ~missed
             PROVE  doc.base = stored /\ (~timer => doc.content = stored)
    BY DEF QuietIsStored
<1>1. \A t \in Tasks : task[t].step = "idle"
    BY DEF Calm, Free
<1>2. ~Signal /\ ~Flagged
    BY DEF Calm, Signal, Flagged
<1>3. \A t \in Tasks : ~WillRead(task[t]) /\ ~Ending(task[t]) /\ ~Answering(task[t])
    BY <1>1 DEF WillRead, Ending, Answering
<1> QED BY <1>2, <1>3 DEF Renewed, BaseComes, TextComes, Renewal, Current

(***************************************************************************)
(* What a step owes about a request: a reading that was to come still      *)
(* comes or has come, a request that ends without it leaves a flag, and an *)
(* answer is not older than what is stored unless it was before.           *)
(***************************************************************************)
AllLate == \A u \in Tasks : Answering(task[u]) => task[u].late
Goes(u) ==
    /\ WillRead(task[u]) => WillRead(task'[u]) \/ Current(task'[u], stored') \/ (Flagged' /\ AllLate')
    /\ Current(task[u], stored) => Current(task'[u], stored') \/ (Flagged' /\ AllLate')
    /\ Ending(task[u]) => Ending(task'[u]) \/ WillRead(task'[u]) \/ Flagged'
    /\ Fresh(task'[u]) => task'[u].body = stored' \/ (Fresh(task[u]) /\ task'[u].body = task[u].body)

\* The page stays, nothing is written, and the document keeps its revision.
LEMMA GoingOn ==
    ASSUME Renewed, \A u \in Tasks : Goes(u),
           UNCHANGED <<stored, page, item>>, doc'.base = doc.base, Flagged => Flagged',
           Signal => Signal' \/ \E u \in Tasks : WillRead(task'[u]),
           timer => timer' \/ \E u \in Tasks : Ending(task'[u]),
           doc' = doc \/ timer' \/ \E u \in Tasks : Ending(task'[u])
    PROVE  Renewed'
<1>1. Renewal => Renewal' \/ (\E u \in Tasks : Current(task'[u], stored')) \/ (Flagged' /\ AllLate')
    BY DEF Goes, Renewal
<1>2. (\E u \in Tasks : Current(task[u], stored))
        => (\E u \in Tasks : Current(task'[u], stored')) \/ (Flagged' /\ AllLate')
    BY DEF Goes
<1>3. BaseComes'
    BY <1>1, <1>2 DEF Renewed, BaseComes
<1>4. TextComes'
    <2>1. \A u \in Tasks : Current(task'[u], stored') => Ending(task'[u])
        BY DEF Current, Answering, Ending
    <2>2. (\E u \in Tasks : Ending(task[u])) => (\E u \in Tasks : Ending(task'[u])) \/ Renewal' \/ Flagged'
        BY DEF Goes, Renewal
    <2> QED BY <1>1, <2>1, <2>2 DEF Renewed, TextComes
<1>5. AnswersAreFollowed'
    <2> SUFFICES ASSUME page' = "canvas", NEW t \in Tasks, Fresh(task'[t]), task'[t].body # stored'
                 PROVE  Renewal' \/ \E u \in Tasks : Current(task'[u], stored')
        BY DEF AnswersAreFollowed
    <2>1. Fresh(task[t]) /\ task[t].body # stored
        BY DEF Goes
    <2>2. ~AllLate'
        BY DEF AllLate, Fresh
    <2> QED BY <1>1, <1>2, <2>1, <2>2 DEF Renewed, AnswersAreFollowed
<1>6. ListIsNew'
    BY DEF Renewed, ListIsNew, Goes
<1> QED BY <1>3, <1>4, <1>5, <1>6 DEF Renewed

LEMMA AlikeGoes ==
    ASSUME NEW u \in Tasks, SameRequest(task'[u], task[u]), task[u].late => task'[u].late,
           stored' = stored
    PROVE  Goes(u)
BY DEF Goes, SameRequest, WillRead, Current, Ending, Fresh, Answering

\* One request moves, the others stay as they are.
LEMMA OneGoes ==
    ASSUME NEW t \in Tasks, \A u \in Tasks \ {t} : task'[u] = task[u], stored' = stored, Goes(t)
    PROVE  \A u \in Tasks : Goes(u)
BY AlikeGoes DEF SameRequest

\* An answer arrives or a request fails: the answers that are still to come
\* are older than something that has been read.
LEMMA EndsGoes ==
    ASSUME Typed, NEW t \in Tasks, NEW k \in Task, ~Answering(k), Ends(t, k)
    PROVE  /\ AllLate'
           /\ task'[t] = k
           /\ \A u \in Tasks \ {t} : SameRequest(task'[u], task[u]) /\ (task[u].late => task'[u].late)
<1>1. task' = [Overtaken(task) EXCEPT ![t] = k]
    BY DEF Ends
<1>2. Overtaken(task) \in [Tasks -> Task]
      /\ \A u \in Tasks : /\ SameRequest(Overtaken(task)[u], task[u])
                          /\ Overtaken(task)[u].late = (task[u].late \/ task[u].step \in {"answer", "reanswer"})
    BY OvertakenType DEF Typed, TasksType
<1> QED BY <1>1, <1>2 DEF AllLate, Answering, SameRequest

\* A request that begins: nobody waits for what was in its slot.
LEMMA BeginsGoes ==
    ASSUME Typed, NEW t \in Free, NEW k, task' = [task EXCEPT ![t] = k], stored' = stored, ~Answering(k)
    PROVE  \A u \in Tasks : Goes(u)
<1>1. task[t].step = "idle" /\ task'[t] = k /\ \A u \in Tasks \ {t} : task'[u] = task[u]
    BY DEF Free, Typed, TasksType
<1>2. Goes(t)
    BY <1>1 DEF Goes, WillRead, Current, Ending, Fresh, Answering
<1> QED BY <1>1, <1>2, OneGoes DEF Free

LEMMA FlushRenewed ==
    ASSUME Typed, NEW t \in Free, NEW k \in Task, k.step \in {"get", "start"}, FlushThen(t, k),
           stored' = stored
    PROVE  /\ \A u \in Tasks : Goes(u)
           /\ k.step = "get" => WillRead(task'[t])
           /\ timer => Ending(task'[t])
<1>1. CASE timer
    <2> DEFINE m == [Put(doc, k.step) EXCEPT !.sure = k.sure]
    <2>1. Put(doc, k.step) \in Task /\ k.sure \in BOOLEAN
        BY PutType DEF Task, Typed, PageType
    <2>2. SameRequest(m, Put(doc, k.step))
        BY <2>1, FlagsType
    <2>3. m.step = "check" /\ m.then = k.step
        BY <2>2, PutType DEF SameRequest, Typed, PageType
    <2>4. task' = [task EXCEPT ![t] = m]
        BY <1>1 DEF FlushThen
    <2> HIDE DEF m
    <2> QED BY <2>3, <2>4, BeginsGoes DEF Free, Typed, TasksType, Answering, Ending, WillRead
<1>2. CASE ~timer
    BY <1>2, BeginsGoes DEF FlushThen, Free, Typed, TasksType, Answering, WillRead
<1> QED BY <1>1, <1>2

\* Something is written: a canvas hears of it or has lost its stream, and
\* for the list every answer on its way is old.
LEMMA WrittenRenewed ==
    ASSUME Typed, NEW m \in [Tasks -> Task], NEW c, Written(c, m),
           UNCHANGED <<doc, timerVars, link, pageVars>>
    PROVE  Renewed'
<1> USE DEF timerVars, pageVars
<1>1. CASE page = "canvas"
    <2>1. Renewal'
        BY <1>1 DEF Written, Renewal, Signal, Typed, PageType
    <2> QED BY <1>1, <2>1 DEF Renewed, BaseComes, TextComes, AnswersAreFollowed, ListIsNew
<1>2. CASE page = "list"
    <2>1. \A u \in Tasks : ~Fresh(Overtaken(m)[u])
        BY OvertakenType DEF Fresh, Answering, SameRequest
    <2>2. \A u \in Tasks : ~Fresh(task'[u])
        BY <1>2, <2>1 DEF Written
    <2> QED BY <1>2, <2>2 DEF Renewed, BaseComes, TextComes, AnswersAreFollowed, ListIsNew
<1> QED BY <1>1, <1>2 DEF Typed, PageType

\* The answer of a reading is shown.
LEMMA ShowRenewed ==
    ASSUME Typed, Renewed, NEW t \in Tasks, Answering(task[t]), Show(t), NEW k \in Task, Ends(t, k),
           ~Answering(k), WillRead(task[t]) => WillRead(k),
           UNCHANGED <<stored, timer, refresh, linkVars, pageVars>>
    PROVE  Renewed'
<1> USE DEF linkVars, pageVars
<1>1. /\ AllLate' /\ task'[t] = k
      /\ \A u \in Tasks \ {t} : SameRequest(task'[u], task[u])
    BY EndsGoes
<1>2. doc'.base = task[t].body /\ doc'.content = task[t].body /\ missed' = task[t].late
    BY DEF Show
<1>3. \A u \in Tasks : WillRead(task[u]) => WillRead(task'[u])
    BY <1>1 DEF WillRead, SameRequest
<1>4. BaseComes'
    <2> SUFFICES ASSUME page = "canvas", task[t].body # stored, ~task[t].late
                 PROVE  Renewal' \/ \E u \in Tasks : Current(task'[u], stored')
        BY <1>2 DEF BaseComes, Flagged
    <2>1. Renewal \/ \E u \in Tasks : Current(task[u], stored)
        BY DEF Renewed, AnswersAreFollowed, Fresh
    <2>2. \A u \in Tasks : Current(task[u], stored) => Current(task'[u], stored')
        BY <1>1 DEF Current, Answering, SameRequest
    <2> QED BY <1>3, <2>1, <2>2 DEF Renewal, Signal
<1>5. \A u \in Tasks : ~Fresh(task'[u])
    BY <1>1 DEF AllLate, Fresh
<1> QED BY <1>2, <1>4, <1>5 DEF Renewed, TextComes, AnswersAreFollowed, ListIsNew

\* The answer of a refresh finds the document as it was read.
LEMMA UnchangedRenewed ==
    ASSUME Typed, Renewed, NEW t \in Tasks, RefreshAnswer(t), task[t].body = doc.base
    PROVE  Renewed'
<1> USE DEF serverVars, linkVars, pageVars
<1>1. /\ task[t].step = "answer" /\ Ends(t, Blank)
      /\ UNCHANGED <<stored, doc, told, timer, refresh, link, event, page, item>>
      /\ missed' = (missed \/ task[t].late \/ doc.content # doc.base)
    BY DEF RefreshAnswer
<1>2. /\ AllLate' /\ task'[t] = Blank
      /\ \A u \in Tasks \ {t} : SameRequest(task'[u], task[u])
    BY <1>1, BlankType, EndsGoes DEF Answering
<1>3. ~WillRead(task[t])
    BY <1>1 DEF WillRead
<1>4. BaseComes'
    <2> SUFFICES ASSUME page = "canvas", doc.base # stored
                 PROVE  Flagged' \/ Renewal' \/ \E u \in Tasks : Current(task'[u], stored')
        BY <1>1 DEF BaseComes
    <2>1. Flagged \/ Renewal \/ \E u \in Tasks : Current(task[u], stored)
        BY DEF Renewed, BaseComes
    <2>2. ~Current(task[t], stored)
        BY DEF Current
    <2>3. \A u \in Tasks \ {t} : /\ Current(task[u], stored) => Current(task'[u], stored')
                                 /\ WillRead(task[u]) => WillRead(task'[u])
        BY <1>1, <1>2 DEF Current, Answering, WillRead, SameRequest
    <2> QED BY <1>1, <1>3, <2>1, <2>2, <2>3 DEF Flagged, Renewal, Signal
<1>5. TextComes'
    BY <1>1 DEF TextComes, Flagged
<1>6. \A u \in Tasks : ~Fresh(task'[u])
    BY <1>2 DEF AllLate, Fresh
<1> QED BY <1>4, <1>5, <1>6 DEF Renewed, AnswersAreFollowed, ListIsNew

\* A save begins; the other requests are only marked.
LEMMA StoreRenewed ==
    ASSUME Typed, Renewed, NEW t \in Tasks, Store(t)
    PROVE  Renewed'
<1> USE DEF serverVars, userVars, linkVars, pageVars, truthVars
<1>1. doc' \in [content : Content, base : Content] /\ doc'.base = doc.base
    BY StoreTyped DEF Store, Typed, PageType
<1>2. Put(doc', "save").step = "check"
    BY <1>1, PutType
<1>3. task[t].step = "idle" /\ task'[t].step = "check"
    BY <1>2 DEF Store, Free
<1>4. Goes(t)
    BY <1>3 DEF Goes, WillRead, Current, Ending, Fresh, Answering
<1>5. ASSUME NEW u \in Tasks, u # t PROVE Goes(u)
    <2>1. task[u] \in Task /\ task'[u] = [task[u] EXCEPT !.over = task[u].step # "idle"]
        BY <1>5 DEF Store, Typed, TasksType
    <2>2. SameRequest(task'[u], task[u]) /\ task'[u].late = task[u].late
        BY <2>1 DEF Task, SameRequest
    <2> QED BY <2>2, AlikeGoes DEF Store
<1>6. Ending(task'[t])
    BY <1>3 DEF Ending
<1> QED BY <1>1, <1>4, <1>5, <1>6, GoingOn DEF Store, Signal, Flagged

\* What the server and the first answers do to a request.
LEMMA AnswersGo ==
    ASSUME Typed, NEW t \in Tasks,
           Check(t) \/ Read(t) \/ Start(t) \/ Accepted(t) \/ Refused(t)
    PROVE  Goes(t) /\ \A u \in Tasks \ {t} : task'[u] = task[u]
<1>0. task[t] \in Task /\ task \in [Tasks -> Task]
    BY DEF Typed, TasksType
<1> USE <1>0 DEF serverVars, Goes, WillRead, Current, Ending, Fresh, Answering
<1>1. CASE Check(t)
    <2>1. task'[t].step \in {"write", "refused"} /\ task'[t].then = task[t].then
        BY <1>1 DEF Check, Task
    <2> QED BY <1>1, <2>1 DEF Check
<1>2. CASE Read(t)
    <2>1. task'[t].step \in {"answer", "reanswer"} /\ task'[t].body = stored /\ stored' = stored
        BY <1>2 DEF Read, Task
    <2>2. task[t].step \in {"reread", "get"}
        BY <1>2 DEF Read
    <2>3. Goes(t)
        BY <2>1, <2>2
    <2> QED BY <1>2, <2>3 DEF Read
<1>3. CASE Start(t)
    BY <1>3, BlankType DEF Start
<1>4. CASE Accepted(t)
    <2>1. task'[t] = Follow(task[t])
        BY <1>4 DEF Accepted
    <2> QED BY <1>4, <2>1, FollowType, BlankType DEF Accepted
<1>5. CASE Refused(t)
    <2>1. CASE task[t].then = "save"
        <3>1. task'[t] = Blank /\ told'
            BY <1>5, <2>1 DEF Refused
        <3> QED BY <1>5, <2>1, <3>1, BlankType DEF Refused, Flagged
    <2>2. CASE task[t].then # "save"
        <3>1. task'[t].step = "reread"
            BY <1>5, <2>2 DEF Refused, Task
        <3> QED BY <1>5, <2>2, <3>1 DEF Refused
    <2> QED BY <2>1, <2>2
<1> QED BY <1>1, <1>2, <1>3, <1>4, <1>5

LEMMA UserRenewed == Typed /\ Renewed /\ User => Renewed'
<1> SUFFICES ASSUME Typed, Renewed, User PROVE Renewed'
    OBVIOUS
<1> USE DEF serverVars, userVars, timerVars, linkVars, pageVars, truthVars
<1>0. task \in [Tasks -> Task]
    BY DEF Typed, TasksType
<1>1. ASSUME NEW v \in Values, Type(v) PROVE Renewed'
    BY <1>1, AlikeGoes, GoingOn DEF Type, SameRequest, Flagged, Signal
<1>2. ASSUME NEW v \in Values, EditNode(v) PROVE Renewed'
    <2>1. \A u \in Tasks : Goes(u)
        BY <1>0, <1>2, AlikeGoes DEF EditNode, Task, SameRequest
    <2> QED BY <1>2, <2>1, GoingOn DEF EditNode, Flagged, Signal, Typed, PageType
<1>3. CASE ResetTyped
    BY <1>3, AlikeGoes, GoingOn DEF ResetTyped, SameRequest, Flagged, Signal
<1>4. CASE Leave
    BY <1>4 DEF Leave, Renewed, BaseComes, TextComes, AnswersAreFollowed, ListIsNew
<1>5. CASE LoadList
    <2>1. \A u \in Tasks : ~Fresh(task'[u])
        BY <1>0, <1>5, OvertakenType DEF LoadList, Fresh, Answering, SameRequest
    <2> QED BY <1>5, <2>1 DEF LoadList, Renewed, BaseComes, TextComes, AnswersAreFollowed, ListIsNew
<1>6. CASE Open
    <2>1. doc'.base = item /\ doc'.content = item /\ missed' = (item # stored)
          /\ page = "list" /\ item # NoItem /\ page' = "canvas" /\ UNCHANGED <<stored, task>>
        BY <1>6 DEF Open
    <2>2. BaseComes' /\ TextComes'
        BY <2>1 DEF BaseComes, TextComes, Flagged
    <2>3. AnswersAreFollowed' /\ ListIsNew'
        BY <2>1 DEF Renewed, AnswersAreFollowed, ListIsNew
    <2> QED BY <2>2, <2>3 DEF Renewed
<1>7. ASSUME NEW t \in Tasks, Save(t) PROVE Renewed'
    BY <1>7, StoreRenewed DEF Save
<1>8. ASSUME NEW t \in Tasks, Run(t) PROVE Renewed'
    <2> DEFINE b == Calm /\ ~told /\ ~missed
               k == [At("start", doc.content) EXCEPT !.sure = b]
    <2>1. b \in BOOLEAN
        BY DEF Calm, Typed, PageType
    <2>2. At("start", doc.content) \in Task /\ At("start", doc.content).step = "start"
        BY AtType DEF Typed, PageType, Steps
    <2>3. FlushThen(t, k) /\ t \in Free
        BY <1>8 DEF Run, FlushThen
    <2> HIDE DEF b
    <2>4. k \in Task /\ k.step = "start"
        BY <2>1, <2>2 DEF Task
    <2> HIDE DEF k
    <2>5. UNCHANGED <<stored, doc, refresh, link, event, page, item, told, missed>>
        BY <1>8 DEF Run
    <2>6. (\A u \in Tasks : Goes(u)) /\ (timer => Ending(task'[t]))
        BY <2>3, <2>4, <2>5, FlushRenewed
    <2> QED BY <2>5, <2>6, GoingOn DEF Flagged, Signal
<1> QED BY <1>1, <1>2, <1>3, <1>4, <1>5, <1>6, <1>7, <1>8 DEF User

LEMMA SystemRenewed == Typed /\ Renewed /\ System => Renewed'
<1> SUFFICES ASSUME Typed, Renewed, System PROVE Renewed'
    OBVIOUS
<1> USE DEF serverVars, userVars, timerVars, linkVars, pageVars, truthVars
<1>0. task \in [Tasks -> Task]
    BY DEF Typed, TasksType
<1>1. CASE Notice
    BY <1>1, AlikeGoes, GoingOn DEF Notice, SameRequest, Flagged, Signal
<1>2. ASSUME NEW t \in Tasks, AutoSave(t) PROVE Renewed'
    BY <1>2, StoreRenewed DEF AutoSave
<1>3. ASSUME NEW t \in Tasks, Persist(t) PROVE Renewed'
    <2>1. Put(doc, "done") \in Task /\ Put(doc, "done").step = "check"
        BY PutType DEF Typed, PageType
    <2>2. t \in Free /\ task' = [task EXCEPT ![t] = Put(doc, "done")]
          /\ UNCHANGED <<stored, doc, refresh, link, event, page, item, told, missed>>
        BY <1>3 DEF Persist
    <2>3. (\A u \in Tasks : Goes(u)) /\ Ending(task'[t])
        BY <1>0, <2>1, <2>2, BeginsGoes DEF Answering, Ending
    <2> QED BY <2>2, <2>3, GoingOn DEF Flagged, Signal
<1>4. ASSUME NEW t \in Tasks, Refresh(t) \/ Reconnect(t) PROVE Renewed'
    <2>1. At("get", NoItem) \in Task /\ At("get", NoItem).step = "get"
        BY AtType DEF Steps
    <2>2. t \in Free /\ FlushThen(t, At("get", NoItem))
          /\ UNCHANGED <<stored, doc, page, item, told, missed>>
        BY <1>4 DEF Refresh, Reconnect, FlushThen
    <2>3. (\A u \in Tasks : Goes(u)) /\ WillRead(task'[t]) /\ (timer => Ending(task'[t]))
        BY <2>1, <2>2, FlushRenewed
    <2> QED BY <2>2, <2>3, GoingOn DEF Flagged
<1>5. ASSUME NEW t \in Tasks, Write(t) PROVE Renewed'
    <2> DEFINE m == [k \in Tasks |-> IF k = t THEN [task[t] EXCEPT !.step = "ok", !.raced = FALSE]
                                            ELSE Disturbed(task[k])]
    <2>1. ASSUME NEW u \in Tasks PROVE m[u] \in Task
        <3>1. task[u] \in Task
            BY <1>0
        <3>2. CASE u = t
            BY <3>1, <3>2 DEF Task, Steps
        <3> QED BY <3>1, <3>2, DisturbedType
    <2>2. m \in [Tasks -> Task] /\ Written(task[t].body, m)
        BY <1>5, <2>1 DEF Write
    <2>3. UNCHANGED <<doc, timerVars, link, pageVars>>
        BY <1>5 DEF Write
    <2> HIDE DEF m
    <2> QED BY <2>2, <2>3, WrittenRenewed
<1>6. ASSUME NEW t \in Tasks,
             Check(t) \/ Read(t) \/ Start(t) \/ Accepted(t) \/ Refused(t)
      PROVE  Renewed'
    <2>1. UNCHANGED <<stored, doc, timer, refresh, link, event, page, item>> /\ (Flagged => Flagged')
        BY <1>6 DEF Check, Read, Start, Accepted, Refused, Flagged, Typed, PageType
    <2>2. Goes(t) /\ \A u \in Tasks \ {t} : task'[u] = task[u]
        BY <1>6, AnswersGo
    <2>3. \A u \in Tasks : Goes(u)
        BY <2>1, <2>2, OneGoes
    <2> QED BY <2>1, <2>3, GoingOn DEF Signal
<1>7. ASSUME NEW t \in Tasks, RereadAnswer(t) PROVE Renewed'
    <2> DEFINE k == [Follow(task[t]) EXCEPT !.late = FALSE, !.sure = FALSE]
    <2>1. k \in Task /\ SameRequest(k, Follow(task[t]))
        BY <1>0, ResumeType
    <2>2. task[t].step = "reanswer" /\ Show(t) /\ Ends(t, k)
          /\ UNCHANGED <<stored, timer, refresh, linkVars, pageVars>>
        BY <1>7 DEF RereadAnswer
    <2> HIDE DEF k
    <2>3. ~Answering(k) /\ (WillRead(task[t]) => WillRead(k))
        BY <1>0, <2>1, <2>2, FollowType, BlankType DEF SameRequest, Answering, WillRead
    <2> QED BY <2>1, <2>2, <2>3, ShowRenewed DEF Answering
<1>8. ASSUME NEW t \in Tasks, RefreshAnswer(t) PROVE Renewed'
    <2>1. CASE task[t].body = doc.base
        BY <1>8, <2>1, UnchangedRenewed
    <2>2. CASE task[t].body # doc.base
        <3>1. task[t].step = "answer" /\ Show(t) /\ Ends(t, Blank)
              /\ UNCHANGED <<stored, timer, refresh, linkVars, pageVars>>
            BY <1>8, <2>2 DEF RefreshAnswer
        <3>2. ~WillRead(task[t]) /\ Answering(task[t]) /\ ~Answering(Blank)
            BY <3>1, BlankType DEF WillRead, Answering
        <3> QED BY <3>1, <3>2, BlankType, ShowRenewed
    <2> QED BY <2>1, <2>2
<1> QED BY <1>1, <1>2, <1>3, <1>4, <1>5, <1>6, <1>7, <1>8 DEF System

LEMMA WorldRenewed == Typed /\ Renewed /\ World => Renewed'
<1> SUFFICES ASSUME Typed, Renewed, World PROVE Renewed'
    OBVIOUS
<1> USE DEF serverVars, userVars, timerVars, linkVars, pageVars, truthVars
<1>0. task \in [Tasks -> Task]
    BY DEF Typed, TasksType
<1>1. ASSUME NEW c \in Content, ForeignUpdate(c) PROVE Renewed'
    <2> DEFINE m == [k \in Tasks |-> Disturbed(task[k])]
    <2>1. m \in [Tasks -> Task] /\ Written(c, m)
        BY <1>0, <1>1, DisturbedType DEF ForeignUpdate
    <2>2. UNCHANGED <<doc, timerVars, link, pageVars>>
        BY <1>1 DEF ForeignUpdate
    <2> HIDE DEF m
    <2> QED BY <2>1, <2>2, WrittenRenewed
<1>2. CASE Disconnect
    BY <1>2, AlikeGoes, GoingOn DEF Disconnect, SameRequest, Flagged, Signal
<1>3. ASSUME NEW t \in Tasks, Fail(t) PROVE Renewed'
    <2> DEFINE r == [Follow(task[t]) EXCEPT !.late = FALSE, !.sure = FALSE]
               quiet == task[t].step \in {"get", "answer", "start"}
               k == IF quiet THEN Blank ELSE r
    <2>1. r \in Task /\ SameRequest(r, Follow(task[t]))
        BY <1>0, ResumeType
    <2>2. ~Answering(r)
        BY <1>0, <2>1, FollowType, BlankType DEF SameRequest, Answering
    <2> HIDE DEF r
    <2>3. k \in Task /\ ~Answering(k)
        BY <2>1, <2>2, BlankType DEF Answering
    <2>4. Ends(t, k)
        BY <1>3 DEF Fail, r
    <2>5. UNCHANGED <<stored, doc, timer, refresh, link, event, page, item>>
          /\ told' = (told \/ ~quiet) /\ missed' = (missed \/ task[t].step \in {"get", "answer"})
        BY <1>3 DEF Fail
    <2> HIDE DEF k
    <2>6. /\ AllLate' /\ task'[t] = k
          /\ \A u \in Tasks \ {t} : SameRequest(task'[u], task[u]) /\ (task[u].late => task'[u].late)
        BY <2>3, <2>4, EndsGoes
    <2>7. task[t].step = "start" \/ Flagged'
        BY <2>5 DEF Flagged
    <2>8. Goes(t)
        BY <2>3, <2>6, <2>7 DEF Goes, WillRead, Current, Ending, Fresh, Answering
    <2>9. \A u \in Tasks : Goes(u)
        BY <2>5, <2>6, <2>8, AlikeGoes
    <2> QED BY <2>5, <2>9, GoingOn DEF Signal, Flagged
<1> QED BY <1>1, <1>2, <1>3 DEF World

-----------------------------------------------------------------------------
(* The theorems                                                            *)

EditInv == Typed /\ UnsentIsYoung /\ AllServed /\ Renewed

LEMMA EditInit == Init => EditInv
<1> SUFFICES ASSUME Init PROVE EditInv
    OBVIOUS
<1>1. \A t \in Tasks : task[t] = Blank
    BY DEF Init
<1>2. AllServed
    BY <1>1, BlankType, PlainServed DEF AllServed
<1>3. UnsentIsYoung
    BY DEF Init, UnsentIsYoung
<1>4. Renewed
    <2>1. doc.base = stored /\ doc.content = stored
        BY DEF Init
    <2>2. \A t \in Tasks : ~Fresh(task[t])
        BY <1>1, BlankType DEF Fresh, Answering
    <2> QED BY <2>1, <2>2 DEF Renewed, BaseComes, TextComes, AnswersAreFollowed, ListIsNew
<1> QED BY <1>2, <1>3, <1>4, TypedInit DEF EditInv

LEMMA EditStep == EditInv /\ [Next]_vars => EditInv'
<1> SUFFICES ASSUME EditInv, [Next]_vars PROVE EditInv'
    OBVIOUS
<1>1. CASE UNCHANGED vars
    BY <1>1 DEF EditInv, Typed, TasksType, Carried, ServerType, PageType, CountersType,
               UnsentIsYoung, AllServed, Renewed, BaseComes, TextComes, AnswersAreFollowed, ListIsNew,
               Renewal, Signal, Flagged,
               vars, serverVars, userVars, timerVars, linkVars, pageVars, truthVars
<1>2. CASE Next
    BY <1>2, UserTyped, SystemTyped, WorldTyped, YoungStep, RenewedIsQuiet, ServedStep,
       UserRenewed, SystemRenewed, WorldRenewed DEF EditInv, Next
<1> QED BY <1>1, <1>2

LEMMA EditAlways == Spec => []EditInv
BY EditInit, EditStep, PTL DEF Spec

\* Whatever is edited, saved, refreshed, refused, lost or written by others:
\* a canvas on which nothing is under way shows what is stored and holds its
\* revision, unless it has said otherwise or missed a change it could not see;
\* and a widget's edit that no request has carried yet has its timer.
THEOREM QuietPagesAreTrue == Spec => []QuietPageIsTrue
<1>1. EditInv => QuietPageIsTrue
    <2> SUFFICES ASSUME EditInv PROVE QuietPageIsTrue
        OBVIOUS
    <2>1. unsent => timer
        BY DEF EditInv, UnsentIsYoung
    <2>2. ASSUME page = "canvas", Calm, ~timer, ~told, ~missed
          PROVE  doc = [content |-> stored, base |-> stored]
        <3>1. doc.base = stored /\ doc.content = stored
            BY <2>2, RenewedIsQuiet DEF EditInv, QuietIsStored
        <3> QED BY <3>1 DEF EditInv, Typed, PageType
    <2> QED BY <2>1, <2>2 DEF QuietPageIsTrue
<1> QED BY <1>1, EditAlways, PTL

\* A run asked for on a quiet page is started on what the page showed, even
\* when an edit was still in its debounce, unless somebody wrote or a request
\* failed in between.
THEOREM RunsAreTrue == Spec => []RunUsesWhatIsShown
<1>1. EditInv => RunUsesWhatIsShown
    BY DEF EditInv, AllServed, Served, StartsTrue, RunUsesWhatIsShown
<1> QED BY <1>1, EditAlways, PTL

\* The page never overwrites what it has not read, but for a write between
\* the two statements of its own update; and the answer of a refresh takes
\* away no edit older than the refresh.
THEOREM NothingKnownIsLost == Spec => OnlyTheUnknownGivesWay
<1>1. EditInv /\ [Next]_vars =>
        [\A t \in Tasks : task[t].step = "write" /\ task'[t].step = "ok"
                            => stored = task[t].base \/ task[t].raced]_vars
    BY DEF EditInv, AllServed, Served, ChecksOut
<1>2. EditInv /\ [Next]_vars =>
        [\A t \in Tasks : task[t].step = "answer" /\ unsent /\ ~unsent' /\ task'[t].step = "idle"
                            => task[t].over]_vars
    BY DEF EditInv, UnsentIsYoung
<1>3. Spec => OverwritesOnlyWhatItRead
    BY <1>1, EditAlways, PTL DEF Spec, OverwritesOnlyWhatItRead
<1>4. Spec => OnlyLaterEditsGiveWay
    BY <1>2, EditAlways, PTL DEF Spec, OnlyLaterEditsGiveWay
<1> QED BY <1>3, <1>4 DEF OnlyTheUnknownGivesWay


(***************************************************************************)
(* Expansion.                                                              *)
(*                                                                         *)
(* The expansion runs beside the registry without disturbing it, puts no   *)
(* portable package on a type that it does not support, gives no node the  *)
(* image of another package, and leaves the shared entries of a placement  *)
(* as they are, for any number of nodes, packages, executors and requests. *)
(***************************************************************************)

(***************************************************************************)
(* The registry by itself, for any number of names, rows and concurrent    *)
(* requests.  With one request at a time its default executor is never     *)
(* lost.                                                                   *)
(***************************************************************************)
USE RegistryAssumption, GoneAssumption

(***************************************************************************)
(* A row that was never inserted is Gone, so an INSERT overwrites none; a  *)
(* request that is about to write saw a row that passed its check.         *)
(***************************************************************************)
FreshIds == \A i \in Ids : i > lastId => rows[i] = Gone
Checked  == \A r \in Requests : req[r].op # "none" =>
                /\ req[r].seen \in Executor
                /\ Passes(req[r].op, req[r].seen)

RInv == RegistryTypeOK /\ FreshIds /\ Checked

-----------------------------------------------------------------------------
LEMMA OneIsAnId == 1 \in Ids
BY DEF Ids

LEMMA IdleIsNone == Idle.op = "none" /\ Idle.id \in Ids /\ Idle.seen = Gone /\ Idle.config = Keep
BY OneIsAnId DEF Idle

LEMMA SeedIsExecutor ==
    [name |-> SeedName, type |-> "local", config |-> SeedConfig,
     isDefault |-> TRUE, disabled |-> FALSE] \in Executor
BY DEF Executor, Types

(* A row with a column changed to a value of its type.                     *)
LEMMA ConfigChanged ==
    ASSUME NEW e \in Executor, NEW c \in Configs
    PROVE  /\ [e EXCEPT !.config = c] \in Executor
           /\ [e EXCEPT !.config = c].isDefault = e.isDefault
           /\ [e EXCEPT !.config = c].disabled = e.disabled
BY DEF Executor

LEMMA DisabledChanged ==
    ASSUME NEW e \in Executor, NEW b \in BOOLEAN
    PROVE  /\ [e EXCEPT !.disabled = b] \in Executor
           /\ [e EXCEPT !.disabled = b].isDefault = e.isDefault
           /\ [e EXCEPT !.disabled = b].disabled = b
BY DEF Executor

LEMMA DefaultChanged ==
    ASSUME NEW e \in Executor, NEW b \in BOOLEAN
    PROVE  /\ [e EXCEPT !.isDefault = b] \in Executor
           /\ [e EXCEPT !.isDefault = b].isDefault = b
           /\ [e EXCEPT !.isDefault = b].disabled = e.disabled
BY DEF Executor

LEMMA InitRInv == RegistryInit => RInv
<1> SUFFICES ASSUME RegistryInit PROVE RInv
  OBVIOUS
<1>1. \A i \in Ids : rows[i] \in Executor \cup {Gone} /\ (i > 1 => rows[i] = Gone)
  BY SeedIsExecutor DEF RegistryInit, Ids
<1>2. rows \in [Ids -> Executor \cup {Gone}]
  BY <1>1, SeedIsExecutor DEF RegistryInit
<1>3. req \in [Requests -> [op : Ops \cup {"none"}, id : Ids, seen : Executor \cup {Gone},
                            config : Configs \cup {Keep}]]
  BY OneIsAnId DEF RegistryInit, Idle
<1>4. RegistryTypeOK
  BY <1>2, <1>3, OneIsAnId DEF RegistryInit, RegistryTypeOK
<1>5. FreshIds
  BY <1>1 DEF RegistryInit, FreshIds
<1>6. Checked
  BY IdleIsNone DEF RegistryInit, Checked
<1> QED BY <1>4, <1>5, <1>6 DEF RInv

-----------------------------------------------------------------------------
(* Each action preserves the invariant, and keeps the default unless it    *)
(* writes over a row that is not the one it saw.                           *)
Stale(r) == req[r] # Idle /\ req'[r] = Idle /\ req[r].seen # rows[req[r].id]
Keeps == OneDefault => OneDefault' \/ \E r \in Requests : Stale(r)

(* The rows decide whether there is one default, by two of their columns.  *)
LEMMA SameDefault ==
    ASSUME RegistryTypeOK, RegistryTypeOK', OneDefault,
           \A i \in Ids : rows[i] # Gone /\ rows[i].isDefault =>
                /\ rows'[i] # Gone /\ rows'[i].isDefault
                /\ rows'[i].disabled = rows[i].disabled,
           \A i \in Ids : rows'[i] # Gone /\ rows'[i].isDefault =>
                rows[i] # Gone /\ rows[i].isDefault
    PROVE  OneDefault'
<1>1. Defaults' = Defaults
  BY DEF Defaults, Present
<1> QED BY <1>1 DEF OneDefault, Defaults, Present

LEMMA CreateStep ==
    ASSUME RInv, NEW name \in Names, NEW type \in Types, NEW config \in Configs,
           Create(name, type, config)
    PROVE  RInv' /\ Keeps
<1> DEFINE new == [name |-> name, type |-> type, config |-> config,
                   isDefault |-> FALSE, disabled |-> FALSE]
<1>1. new \in Executor /\ ~new.isDefault
  BY DEF Executor
<1>2. rows' = [rows EXCEPT ![lastId + 1] = new]
  BY DEF Create
<1> HIDE DEF new
<1>3. lastId + 1 \in Ids /\ rows[lastId + 1] = Gone
  BY DEF RInv, RegistryTypeOK, FreshIds, Create, Ids
<1>4. rows' \in [Ids -> Executor \cup {Gone}]
  BY <1>1, <1>2 DEF RInv, RegistryTypeOK
<1>5. RegistryTypeOK'
  BY <1>3, <1>4 DEF RInv, RegistryTypeOK, Create
<1>6. FreshIds'
  BY <1>2, <1>3 DEF RInv, RegistryTypeOK, FreshIds, Create, Ids
<1>7. Checked'
  BY DEF RInv, Checked, Create
<1>8. ASSUME OneDefault PROVE OneDefault'
  <2>1. rows'[lastId + 1] = new /\ \A i \in Ids : i # lastId + 1 => rows'[i] = rows[i]
    BY <1>2, <1>3 DEF RInv, RegistryTypeOK
  <2> QED BY <1>1, <1>3, <1>5, <1>8, <2>1, SameDefault DEF RInv
<1> QED BY <1>5, <1>6, <1>7, <1>8 DEF RInv, Keeps

LEMMA ReadStep ==
    ASSUME RInv, NEW r \in Requests, NEW op \in Ops, NEW i \in Ids,
           NEW config \in Configs \cup {Keep}, ReadRow(r, op, i, config)
    PROVE  RInv' /\ Keeps
<1> DEFINE new == [op |-> op, id |-> i, seen |-> rows[i], config |-> config]
<1>1. rows[i] \in Executor /\ Passes(op, rows[i])
  BY DEF RInv, RegistryTypeOK, ReadRow, Present
<1>2. new \in [op : Ops \cup {"none"}, id : Ids, seen : Executor \cup {Gone},
               config : Configs \cup {Keep}]
  BY <1>1
<1>3. new.op = op /\ new.seen = rows[i] /\ req' = [req EXCEPT ![r] = new]
  BY DEF ReadRow
<1> HIDE DEF new
<1>4. RegistryTypeOK'
  BY <1>2, <1>3 DEF RInv, RegistryTypeOK, ReadRow
<1>5. Checked'
  BY <1>1, <1>3 DEF RInv, RegistryTypeOK, Checked
<1>6. FreshIds' /\ Keeps
  BY DEF RInv, FreshIds, ReadRow, Keeps, OneDefault, Defaults, Present
<1> QED BY <1>4, <1>5, <1>6 DEF RInv

(* What the end of a request leaves to show.                               *)
LEMMA WritesStep ==
    ASSUME RInv, NEW r \in Requests, NEW op \in Ops, Writes(r, op),
           \A i \in Ids : rows'[i] \in Executor \cup {Gone},
           \A i \in Ids : rows[i] = Gone => rows'[i] = Gone,
           rows' \in [Ids -> Executor \cup {Gone}]
    PROVE  /\ RInv'
           /\ req[r].id \in Ids /\ req[r].seen \in Executor /\ Passes(op, req[r].seen)
           /\ req[r].seen = rows[req[r].id] \/ Stale(r)
<1>1. req[r].op = op /\ op # "none" /\ req' = [req EXCEPT ![r] = Idle]
  BY DEF Writes, Ops
<1>2. req[r].seen \in Executor /\ Passes(op, req[r].seen) /\ req[r].id \in Ids
  BY <1>1 DEF RInv, RegistryTypeOK, Checked
<1>3. Idle \in [op : Ops \cup {"none"}, id : Ids, seen : Executor \cup {Gone},
                config : Configs \cup {Keep}]
  BY OneIsAnId DEF Idle
<1>4. RegistryTypeOK'
  BY <1>1, <1>3 DEF RInv, RegistryTypeOK, Writes
<1>5. Checked'
  BY <1>1, IdleIsNone DEF RInv, RegistryTypeOK, Checked
<1>6. FreshIds'
  BY DEF RInv, FreshIds, Writes
<1>7. req[r] # Idle /\ req'[r] = Idle
  BY <1>1, IdleIsNone DEF RInv, RegistryTypeOK
<1> QED BY <1>2, <1>4, <1>5, <1>6, <1>7 DEF RInv, Stale

LEMMA UpdateStep ==
    ASSUME RInv, NEW r \in Requests, Update(r)
    PROVE  RInv' /\ Keeps
<1> DEFINE config == IF req[r].config = Keep THEN req[r].seen.config ELSE req[r].config
<1>1. req[r].id \in Ids /\ config \in Configs
  BY DEF RInv, RegistryTypeOK, Checked, Update, Writes, Executor
<1>2. rows' = [rows EXCEPT ![req[r].id] = IF @ = Gone THEN Gone ELSE [@ EXCEPT !.config = config]]
  BY DEF Update
<1> HIDE DEF config
<1>3. \A i \in Ids : rows'[i] = rows[i] \/ (rows[i] \in Executor /\ rows'[i] = [rows[i] EXCEPT !.config = config])
  BY <1>1, <1>2 DEF RInv, RegistryTypeOK
<1>4. ASSUME NEW i \in Ids PROVE rows'[i] \in Executor \cup {Gone}
  <2>1. CASE rows'[i] = rows[i]
    BY <2>1 DEF RInv, RegistryTypeOK
  <2>2. CASE rows[i] \in Executor /\ rows'[i] = [rows[i] EXCEPT !.config = config]
    BY <1>1, <2>2, ConfigChanged, Zenon
  <2> QED BY <1>3, <2>1, <2>2
<1>5. rows' \in [Ids -> Executor \cup {Gone}]
  BY <1>2, <1>4 DEF RInv, RegistryTypeOK
<1>6. RInv'
  BY <1>3, <1>4, <1>5, WritesStep DEF Update, Ops
<1>7. ASSUME NEW i \in Ids, rows[i] \in Executor
      PROVE  /\ rows'[i] \in Executor
             /\ rows'[i].isDefault = rows[i].isDefault /\ rows'[i].disabled = rows[i].disabled
  <2>1. CASE rows'[i] = rows[i]
    BY <1>7, <2>1
  <2>2. CASE rows'[i] = [rows[i] EXCEPT !.config = config]
    <3>1. /\ [rows[i] EXCEPT !.config = config] \in Executor
          /\ [rows[i] EXCEPT !.config = config].isDefault = rows[i].isDefault
          /\ [rows[i] EXCEPT !.config = config].disabled = rows[i].disabled
      BY <1>1, <1>7, ConfigChanged, Zenon
    <3> QED BY <2>2, <3>1, Zenon
  <2> QED BY <1>3, <2>1, <2>2
<1>8. ASSUME OneDefault PROVE OneDefault'
  BY <1>3, <1>6, <1>7, <1>8, SameDefault DEF RInv, RegistryTypeOK
<1> QED BY <1>6, <1>8 DEF Keeps

LEMMA DeleteStep ==
    ASSUME RInv, NEW r \in Requests, Delete(r)
    PROVE  RInv' /\ Keeps
<1>1. rows' = [rows EXCEPT ![req[r].id] = Gone] /\ req[r].id \in Ids
  BY DEF RInv, RegistryTypeOK, Delete
<1>2. /\ rows'[req[r].id] = Gone
      /\ \A i \in Ids : i # req[r].id => rows'[i] = rows[i]
      /\ rows' \in [Ids -> Executor \cup {Gone}]
  BY <1>1 DEF RInv, RegistryTypeOK
<1>3. RInv' /\ Passes("delete", req[r].seen) /\ (req[r].seen = rows[req[r].id] \/ Stale(r))
  BY <1>2, WritesStep DEF Delete, Ops
<1>4. ASSUME OneDefault, req[r].seen = rows[req[r].id] PROVE OneDefault'
  BY <1>2, <1>3, <1>4, SameDefault DEF RInv, Passes
<1> QED BY <1>3, <1>4 DEF Keeps

LEMMA SetDisabledStep ==
    ASSUME RInv, NEW r \in Requests, NEW op \in Ops, SetDisabled(r, op)
    PROVE  RInv' /\ Keeps
<1> DEFINE value == op = "disable"
<1>1. /\ rows' = [rows EXCEPT ![req[r].id] = IF @ = Gone THEN Gone ELSE [@ EXCEPT !.disabled = value]]
      /\ req[r].id \in Ids /\ value \in BOOLEAN /\ op \in {"disable", "enable"}
  BY DEF RInv, RegistryTypeOK, SetDisabled
<1> HIDE DEF value
<1>2. /\ \A i \in Ids : i # req[r].id => rows'[i] = rows[i]
      /\ rows[req[r].id] = Gone => rows'[req[r].id] = Gone
      /\ rows[req[r].id] \in Executor => rows'[req[r].id] = [rows[req[r].id] EXCEPT !.disabled = value]
  BY <1>1 DEF RInv, RegistryTypeOK
<1>3. \A i \in Ids : rows'[i] \in Executor \cup {Gone}
  BY <1>1, <1>2, DisabledChanged DEF RInv, RegistryTypeOK
<1>4. rows' \in [Ids -> Executor \cup {Gone}]
  BY <1>1, <1>3 DEF RInv, RegistryTypeOK
<1>5. RInv' /\ Passes(op, req[r].seen) /\ (req[r].seen = rows[req[r].id] \/ Stale(r))
  BY <1>2, <1>3, <1>4, WritesStep DEF SetDisabled
<1>6. ASSUME OneDefault, req[r].seen = rows[req[r].id] PROVE OneDefault'
  <2>1. CASE op = "disable"
    <3>1. ~rows[req[r].id].isDefault
      BY <1>5, <1>6, <2>1 DEF Passes
    <3>2. rows'[req[r].id] # Gone => ~rows'[req[r].id].isDefault
      BY <1>1, <1>2, <3>1, DisabledChanged DEF RInv, RegistryTypeOK, Executor
    <3> QED BY <1>2, <1>5, <1>6, <3>1, <3>2, SameDefault DEF RInv
  <2>2. CASE op = "enable"
    <3>1. Defaults' = Defaults
      BY <1>1, <1>2 DEF RInv, RegistryTypeOK, Defaults, Present, Executor
    <3>2. \A i \in Defaults : ~rows[i].disabled => ~rows'[i].disabled
      BY <1>1, <1>2, <2>2 DEF RInv, RegistryTypeOK, Defaults, Present, Executor, value
    <3> QED BY <1>6, <3>1, <3>2 DEF OneDefault
  <2> QED BY <1>1, <2>1, <2>2
<1> QED BY <1>5, <1>6 DEF Keeps

LEMMA SetDefaultStep ==
    ASSUME RInv, NEW r \in Requests, SetDefault(r)
    PROVE  RInv' /\ Keeps
<1>1. /\ \A i \in Ids : rows[i] = Gone => rows'[i] = Gone
      /\ \A i \in Ids : rows[i] # Gone => rows'[i] = [rows[i] EXCEPT !.isDefault = (i = req[r].id)]
  BY DEF SetDefault
<1>2. ASSUME NEW i \in Ids PROVE rows'[i] \in Executor \cup {Gone}
  <2>1. CASE rows[i] = Gone
    BY <1>1, <2>1
  <2>2. CASE rows[i] # Gone
    <3>1. rows[i] \in Executor /\ (i = req[r].id) \in BOOLEAN
      BY <2>2 DEF RInv, RegistryTypeOK
    <3>2. [rows[i] EXCEPT !.isDefault = (i = req[r].id)] \in Executor
      BY <3>1, DefaultChanged, Zenon
    <3>3. rows'[i] = [rows[i] EXCEPT !.isDefault = (i = req[r].id)]
      BY <1>1, <2>2, Zenon
    <3> QED BY <3>2, <3>3, Zenon
  <2> QED BY <2>1, <2>2
<1>3. rows' \in [Ids -> Executor \cup {Gone}]
  BY <1>2 DEF SetDefault
<1>4. RInv' /\ req[r].id \in Ids /\ req[r].seen \in Executor /\ Passes("default", req[r].seen)
      /\ (req[r].seen = rows[req[r].id] \/ Stale(r))
  BY <1>1, <1>2, <1>3, WritesStep DEF SetDefault, Ops
<1>5. ASSUME NEW i \in Ids, rows[i] \in Executor
      PROVE  /\ rows'[i] \in Executor
             /\ rows'[i].isDefault <=> i = req[r].id
             /\ rows'[i].disabled = rows[i].disabled
  <2>1. (i = req[r].id) \in BOOLEAN /\ rows'[i] = [rows[i] EXCEPT !.isDefault = (i = req[r].id)]
    BY <1>1, <1>5
  <2> QED BY <1>5, <2>1, DefaultChanged, Zenon
<1>6. ASSUME req[r].seen = rows[req[r].id] PROVE OneDefault'
  <2>1. rows[req[r].id] \in Executor /\ ~rows[req[r].id].disabled
    BY <1>4, <1>6 DEF Passes
  <2>2. rows'[req[r].id] # Gone /\ rows'[req[r].id].isDefault /\ ~rows'[req[r].id].disabled
    BY <1>4, <1>5, <2>1
  <2>3. \A i \in Ids : rows'[i] # Gone /\ rows'[i].isDefault => i = req[r].id
    BY <1>1, <1>5 DEF RInv, RegistryTypeOK
  <2> QED BY <1>4, <2>2, <2>3 DEF OneDefault, Defaults, Present
<1> QED BY <1>4, <1>6 DEF Keeps

LEMMA StepKeeps ==
    ASSUME RInv, [RegistryNext]_registryVars
    PROVE  RInv' /\ Keeps
<1>1. CASE \E name \in Names, type \in Types, config \in Configs : Create(name, type, config)
  BY <1>1, CreateStep
<1>2. ASSUME NEW r \in Requests, Request(r) PROVE RInv' /\ Keeps
  <2>1. CASE \E op \in Ops \ {"update"}, i \in Ids : ReadRow(r, op, i, Keep)
    BY <2>1, ReadStep
  <2>2. CASE \E i \in Ids, config \in Configs \cup {Keep} : ReadRow(r, "update", i, config)
    BY <2>2, ReadStep DEF Ops
  <2>3. CASE Update(r)
    BY <2>3, UpdateStep
  <2>4. CASE Delete(r)
    BY <2>4, DeleteStep
  <2>5. CASE SetDefault(r)
    BY <2>5, SetDefaultStep
  <2>6. CASE \E op \in Ops : SetDisabled(r, op)
    BY <2>6, SetDisabledStep
  <2> QED BY <1>2, <2>1, <2>2, <2>3, <2>4, <2>5, <2>6 DEF Request
<1>3. CASE UNCHANGED registryVars
  BY <1>3 DEF RInv, RegistryTypeOK, FreshIds, Checked, Keeps, OneDefault, Defaults, Present,
              registryVars
<1> QED BY <1>1, <1>2, <1>3 DEF RegistryNext

-----------------------------------------------------------------------------
(* The invariant of the registry.                                          *)
THEOREM RegistryInvariance == RegistrySpec => []RInv
<1>1. RInv /\ [RegistryNext]_registryVars => RInv'
  BY StepKeeps
<1> QED BY <1>1, InitRInv, PTL DEF RegistrySpec

(* Delete, SetDisabled and SetDefault lose the default only when the row   *)
(* has changed since they checked it.                                      *)
THEOREM StaleReadsOnly == RegistrySpec => OnlyStaleReadsLoseDefault
<1>1. RInv /\ [RegistryNext]_registryVars =>
        [OneDefault => \/ OneDefault'
                       \/ \E r \in Requests :
                            /\ req[r] # Idle /\ req'[r] = Idle
                            /\ req[r].seen # rows[req[r].id]]_registryVars
  BY StepKeeps DEF Keeps, Stale
<1> QED BY <1>1, RegistryInvariance, PTL DEF RegistrySpec, OnlyStaleReadsLoseDefault

-----------------------------------------------------------------------------
(* One request at a time: what it saw is what it writes over.              *)
Serial     == \E r \in Requests : Requests = {r}
NotStale   == \A r \in Requests : req[r].op # "none" => req[r].seen = rows[req[r].id]
SerialInv  == RInv /\ NotStale /\ OneDefault

LEMMA InitSerialInv == RegistryInit => SerialInv
<1> SUFFICES ASSUME RegistryInit PROVE SerialInv
  OBVIOUS
<1>1. NotStale
  BY IdleIsNone DEF RegistryInit, NotStale
<1>2. \A i \in Ids : rows[i] # Gone <=> i = 1
  BY SeedIsExecutor DEF RegistryInit
<1>3. rows[1].isDefault /\ ~rows[1].disabled
  BY OneIsAnId DEF RegistryInit
<1>4. OneDefault
  BY <1>2, <1>3, OneIsAnId DEF OneDefault, Defaults, Present
<1> QED BY <1>1, <1>4, InitRInv DEF SerialInv

LEMMA SerialStep ==
    ASSUME Serial, SerialInv, [RegistryNext]_registryVars
    PROVE  SerialInv'
<1>1. RInv' /\ Keeps
  BY StepKeeps DEF SerialInv
<1>2. \A r \in Requests : ~Stale(r)
  <2> SUFFICES ASSUME NEW r \in Requests, Stale(r) PROVE FALSE
    OBVIOUS
  <2>1. req[r].op = "none"
    BY DEF Stale, SerialInv, NotStale
  <2>2. req[r] # Idle /\ req'[r] # req[r]
    BY DEF Stale
  <2>3. ASSUME NEW q \in Requests, Request(q) PROVE FALSE
    <3>1. q = r
      BY DEF Serial
    <3>2. ASSUME NEW op, NEW i, NEW config, ReadRow(q, op, i, config) PROVE FALSE
      BY <2>2, <3>1, <3>2 DEF ReadRow
    <3>3. ASSUME NEW op \in Ops, Writes(q, op) PROVE FALSE
      BY <2>1, <3>1, <3>3 DEF Writes, Ops
    <3> QED
      BY <2>3, <3>2, <3>3 DEF Request, Update, Delete, SetDisabled, SetDefault, Ops
  <2>4. UNCHANGED req
    BY <2>3 DEF RegistryNext, Create, registryVars
  <2> QED BY <2>2, <2>4
<1>3. OneDefault'
  BY <1>1, <1>2 DEF SerialInv, Keeps
<1>4. NotStale'
  <2> USE DEF NotStale
  <2>1. CASE \E name \in Names, type \in Types, config \in Configs : Create(name, type, config)
    <3>1. \A i \in Ids : rows[i] # Gone => rows'[i] = rows[i]
      BY <2>1 DEF SerialInv, RInv, RegistryTypeOK, FreshIds, Create, Ids
    <3>2. \A q \in Requests : req[q].op # "none" => req[q].id \in Ids /\ rows[req[q].id] # Gone
      BY DEF SerialInv, RInv, RegistryTypeOK, Checked
    <3>3. UNCHANGED req
      BY <2>1 DEF Create
    <3>4. ASSUME NEW q \in Requests, req[q].op # "none" PROVE req[q].seen = rows'[req[q].id]
      <4>1. req[q].seen = rows[req[q].id]
        BY <3>4 DEF SerialInv
      <4> QED BY <3>1, <3>2, <3>4, <4>1
    <3> QED BY <3>3, <3>4
  <2>2. ASSUME NEW q \in Requests, Request(q) PROVE NotStale'
    <3>1. Requests = {q}
      BY DEF Serial
    <3>2. CASE \E op \in Ops, i \in Ids, config \in Configs \cup {Keep} : ReadRow(q, op, i, config)
      BY <3>1, <3>2 DEF SerialInv, RInv, RegistryTypeOK, ReadRow
    <3>3. CASE req' = [req EXCEPT ![q] = Idle]
      BY <3>1, <3>3, IdleIsNone DEF SerialInv, RInv, RegistryTypeOK
    <3> QED
      BY <2>2, <3>2, <3>3 DEF Request, Update, Delete, SetDisabled, SetDefault, Writes, Ops
  <2>3. CASE UNCHANGED registryVars
    BY <2>3 DEF SerialInv, registryVars
  <2> QED BY <2>1, <2>2, <2>3 DEF RegistryNext
<1> QED BY <1>1, <1>3, <1>4 DEF SerialInv

(* With one request at a time there is always one enabled default.         *)
THEOREM SerialKeepsDefault == ASSUME Serial PROVE RegistrySpec => []OneDefault
<1>1. SerialInv /\ [RegistryNext]_registryVars => SerialInv'
  BY SerialStep
<1>2. SerialInv => OneDefault
  BY DEF SerialInv
<1> QED BY <1>1, <1>2, InitSerialInv, PTL DEF RegistrySpec

-----------------------------------------------------------------------------
(* What the registry promises holds beside the expansion: a step of the    *)
(* expansion stutters on the registry.                                     *)
THEOREM ImplementsRegistry == ExpansionSpec => RegistrySpec
<1>1. ExpansionInit => RegistryInit
  BY DEF ExpansionInit
<1>2. [ExpansionNext]_allVars => [RegistryNext]_registryVars
  BY DEF ExpansionNext, Expansion, Begin, Expand, Refuse, allVars
<1> QED BY <1>1, <1>2, PTL DEF ExpansionSpec, RegistrySpec

(* The default executor is lost by stale writes only (Delete, SetDisabled  *)
(* and SetDefault check the row in one statement and write in another).    *)
THEOREM DefaultKept == ExpansionSpec => OnlyStaleReadsLoseDefault
BY ImplementsRegistry, StaleReadsOnly, PTL

-----------------------------------------------------------------------------
(* A continue starts from the saved placement, and a refused expansion     *)
(* goes back to it, so it has to be right as well.                         *)
Supported(p) ==
    \A n \in Nodes : p[n] # Unplaced /\ declared[n].kind = "portable"
                        => p[n].type \in Range(declared[n].of)

PlacedInv ==
    /\ declared \in Workflows
    /\ DOMAIN placed = Nodes
    /\ Supported(placed)
    /\ DOMAIN saved.placed = Nodes
    /\ Supported(saved.placed)

(* A set of positions of a list that is not empty has a first one.         *)
LEMMA HasFirst ==
    ASSUME NEW S, S \subseteq Nat, S # {}
    PROVE  \E k \in S : \A j \in S : k <= j
<1>1. PICK k \in S : \A j \in S : ~ <<j, k>> \in OpToRel(<, Nat)
  BY NatLessThanWellFounded, WFMin
<1>2. ASSUME NEW j \in S PROVE k <= j
  <2>1. j \in Nat /\ k \in Nat
    OBVIOUS
  <2>2. <<j, k>> \in Nat \X Nat
    BY <2>1
  <2>3. ~ (j < k)
    BY <1>1, <2>1, <2>2 DEF OpToRel
  <2> QED BY <2>1, <2>3
<1> QED BY <1>2

(* The candidates that Portable tries are the types of the package.        *)
LEMMA PortableSupported ==
    ASSUME NEW d, d.of \in Seq(Types), d.of # <<>>, NEW choice \in Portable(d)
    PROVE  choice.type \in Range(d.of)
<1> DEFINE able  == {k \in DOMAIN d.of : ByType(d.of[k]) # {}}
           first == CHOOSE k \in able : \A j \in able : k <= j
<1>1. CASE able = {}
  <2>1. choice \in MadeUp(d.of[1])
    BY <1>1 DEF Portable
  <2>2. choice.type = d.of[1]
    BY <2>1 DEF MadeUp
  <2>3. 1 \in DOMAIN d.of
    OBVIOUS
  <2> QED BY <2>2, <2>3 DEF Range
<1>2. CASE able # {}
  <2>1. first \in able
    <3>1. able \subseteq Nat
      OBVIOUS
    <3>2. \E k \in able : \A j \in able : k <= j
      BY <1>2, <3>1, HasFirst, Zenon
    <3> HIDE DEF able
    <3> QED BY <3>2
  <2>2. choice \in FromRegistry(ByType(d.of[first]))
    <3>1. Portable(d) = FromRegistry(ByType(d.of[first]))
      BY <1>2, Zenon DEF Portable
    <3> QED BY <3>1
  <2> HIDE DEF first
  <2>3. PICK i \in ByType(d.of[first]) : choice.type = rows[i].type
    BY <2>2 DEF FromRegistry
  <2>4. rows[i].type = d.of[first]
    BY <2>3 DEF ByType
  <2> QED BY <2>1, <2>3, <2>4 DEF Range
<1> QED BY <1>1, <1>2

(* However the executor of a portable package is chosen, its type is one   *)
(* that the package supports.                                              *)
LEMMA ResolutionSupported ==
    ASSUME NEW d, Declared(d), d.kind = "portable", NEW choice \in Resolutions(d)
    PROVE  choice.type \in Range(d.of)
<1>1. d.of \in Seq(Types) /\ d.of # <<>>
  BY DEF Declared
<1>2. CASE d.selectRef # None
  <2>1. choice \in SelectedRef(d)
    BY <1>2 DEF Resolutions
  <2>2. PICK i \in ByName(d.selectRef) : Allows(d, rows[i].type) /\ choice.type = rows[i].type
    BY <2>1 DEF SelectedRef, FromRegistry
  <2> QED BY <2>2 DEF Allows
<1>3. CASE d.selectRef = None /\ d.selectType # None
  <2>1. choice \in SelectedType(d)
    BY <1>3 DEF Resolutions
  <2>2. Allows(d, d.selectType) /\ choice \in Either(ByType(d.selectType), d.selectType)
    BY <2>1 DEF SelectedType
  <2>3. choice.type = d.selectType
    BY <2>2 DEF Either, FromRegistry, MadeUp, ByType
  <2> QED BY <2>2, <2>3 DEF Allows
<1>4. CASE d.selectRef = None /\ d.selectType = None
  BY <1>1, <1>4, PortableSupported DEF Resolutions
<1> QED BY <1>2, <1>3, <1>4

LEMMA ExpandSupported ==
    ASSUME PlacedInv, NEW n \in Nodes, Expand(n)
    PROVE  PlacedInv'
<1>1. PICK choice \in Resolutions(declared[n]) : \E add \in Adds(n, choice) :
         placed' = [placed EXCEPT ![n] = [name |-> add.name, type |-> choice.type,
                                          registered |-> choice.row # Gone]]
  BY DEF Expand
<1>2. PICK name, registered :
         placed' = [placed EXCEPT ![n] = [name |-> name, type |-> choice.type,
                                          registered |-> registered]]
  BY <1>1
<1>3. Declared(declared[n]) /\ declared' = declared
  BY WorkflowsAssumption DEF PlacedInv, Expand
<1>4. placed'[n].type = choice.type /\ DOMAIN placed' = Nodes
      /\ \A m \in Nodes : m # n => placed'[m] = placed[m]
  BY <1>2 DEF PlacedInv
<1>5. Supported(placed)'
  BY <1>3, <1>4, ResolutionSupported DEF PlacedInv, Supported
<1>6. DOMAIN saved'.placed = Nodes /\ Supported(saved'.placed)
  <2>1. saved' = saved \/ saved'.placed = placed'
    BY DEF Expand
  <2> QED BY <1>3, <1>4, <1>5, <2>1 DEF PlacedInv, Supported
<1> QED BY <1>3, <1>4, <1>5, <1>6 DEF PlacedInv, Supported

(* A portable package runs on a type that it supports, whatever the        *)
(* workflow selects and whatever the registry offers (resolveNodeExecutor, *)
(* ensureExecutorTypeAllowed).                                             *)
THEOREM TypesSupported == ExpansionSpec => []SupportedTypeOnly
<1>1. ExpansionInit => PlacedInv
  BY DEF ExpansionInit, PlacedInv, Supported
<1>2. PlacedInv /\ [ExpansionNext]_allVars => PlacedInv'
  <2> SUFFICES ASSUME PlacedInv, [ExpansionNext]_allVars PROVE PlacedInv'
    OBVIOUS
  <2>1. CASE \E n \in Nodes : Expand(n)
    BY <2>1, ExpandSupported
  <2>2. CASE \E n \in Nodes : Refuse(n)
    BY <2>2 DEF PlacedInv, Supported, Refuse
  <2>3. CASE \E nodes \in SUBSET Nodes : Begin(nodes)
    BY <2>3 DEF PlacedInv, Supported, Begin
  <2>4. CASE UNCHANGED expansionVars
    BY <2>4 DEF PlacedInv, Supported, expansionVars
  <2> QED BY <2>1, <2>2, <2>3, <2>4 DEF ExpansionNext, Expansion, allVars
<1>3. PlacedInv => SupportedTypeOnly
  BY DEF PlacedInv, Supported, SupportedTypeOnly
<1> QED BY <1>1, <1>2, <1>3, PTL DEF ExpansionSpec

-----------------------------------------------------------------------------
(***************************************************************************)
(* What an Executors map and a placement of the nodes have to do with each *)
(* other.  It holds of those under way and of those in the snapshot, which *)
(* a continue starts from and a refused expansion goes back to.            *)
(***************************************************************************)

(* An entry under the plain name of an instance has no image; one under a  *)
(* hashed name is the entry that was hashed, so that a name which is taken *)
(* for another entry is never written again.                               *)
Shape(E) ==
    \A x \in DOMAIN E :
        /\ E[x] \in Entry
        /\ \A name \in Names : x = Plain(name) => E[x].image = None
        /\ \A name \in Names, e \in Entry :
              e.type = "docker" /\ e.image # None /\ x = Hashed(name, e) => E[x] = e

WasMade(P, n) == P[n] # Unplaced /\ ~P[n].registered
MadeTwice(P, x) ==
    \E m, n \in Nodes :
        /\ WasMade(P, m) /\ WasMade(P, n) /\ P[m].name = x /\ P[n].name = x
        /\ MadeEntry(declared[m], P[m].type) # MadeEntry(declared[n], P[n].type)

(* An entry under another name is the one that some node wrote last.       *)
HasMaker(E, P) ==
    \A x \in DOMAIN E : x[1] \notin Names =>
        \E n \in Nodes : /\ WasMade(P, n) /\ P[n].name = x
                         /\ E[x] = MadeEntry(declared[n], P[n].type)

OwnImage(E, P) ==
    \A n \in Nodes :
        P[n] # Unplaced /\ ~MadeTwice(P, P[n].name) =>
            LET entry == E[P[n].name]
            IN  /\ entry.image # None => entry.image = declared[n].image /\ entry.type = P[n].type
                /\ WasMade(P, n) => entry = MadeEntry(declared[n], P[n].type)

Fits(E, P) ==
    /\ DOMAIN P = Nodes
    /\ \A n \in Nodes : P[n] # Unplaced => P[n].name \in DOMAIN E
    /\ Shape(E)
    /\ HasMaker(E, P)
    /\ OwnImage(E, P)

(* The entries of instances in the snapshot are still there.               *)
Extends ==
    \A x \in DOMAIN saved.entries :
        x[1] \in Names => x \in DOMAIN entries /\ entries[x] = saved.entries[x]

ExpansionInv ==
    /\ declared \in Workflows
    /\ todo \subseteq Nodes
    /\ \A n \in todo : placed[n] = Unplaced
    /\ Fits(entries, placed)
    /\ saved = [entries |-> saved.entries, placed |-> saved.placed]
    /\ Fits(saved.entries, saved.placed)
    /\ Extends
    /\ todo = {} => saved = [entries |-> entries, placed |-> placed]

-----------------------------------------------------------------------------
(* However an executor is chosen, it has a type, and its row, if it has    *)
(* one, is of that type.                                                   *)
Chosen(choice) ==
    /\ choice.type \in Types
    /\ choice.row # Gone => choice.row \in Executor /\ choice.row.type = choice.type

LEMMA FromRegistryChosen ==
    ASSUME RegistryTypeOK, NEW ids, ids \subseteq Present, NEW choice \in FromRegistry(ids)
    PROVE  Chosen(choice)
<1>1. PICK i \in ids : choice = [type |-> rows[i].type, row |-> rows[i]]
  BY DEF FromRegistry
<1>2. rows[i] \in Executor
  BY DEF Present, RegistryTypeOK
<1> QED BY <1>1, <1>2 DEF Chosen, Executor

LEMMA MadeUpChosen ==
    ASSUME NEW type \in Types, NEW choice \in MadeUp(type)
    PROVE  Chosen(choice)
BY DEF MadeUp, Chosen

LEMMA ResolversPresent ==
    /\ Defaults \subseteq Present /\ DockerDefault \subseteq Present
    /\ \A name : ByName(name) \subseteq Present
    /\ \A type : ByType(type) \subseteq Present
BY DEF Defaults, DockerDefault, ByName, ByType

LEMMA EitherChosen ==
    ASSUME RegistryTypeOK, NEW ids, ids \subseteq Present, NEW type \in Types,
           NEW choice \in Either(ids, type)
    PROVE  Chosen(choice)
BY FromRegistryChosen, MadeUpChosen DEF Either

LEMMA PortableChosen ==
    ASSUME RegistryTypeOK, NEW d, d.of \in Seq(Types), d.of # <<>>, NEW choice \in Portable(d)
    PROVE  Chosen(choice)
<1> DEFINE able == {k \in DOMAIN d.of : ByType(d.of[k]) # {}}
           ids  == ByType(d.of[CHOOSE k \in able : \A j \in able : k <= j])
<1>1. CASE able = {}
  <2>1. choice \in MadeUp(d.of[1])
    BY <1>1 DEF Portable
  <2>2. d.of[1] \in Types
    OBVIOUS
  <2> QED BY <2>1, <2>2, MadeUpChosen
<1>2. CASE able # {}
  <2>1. Portable(d) = FromRegistry(ids)
    BY <1>2, Zenon DEF Portable
  <2>2. ids \subseteq Present
    BY ResolversPresent
  <2> HIDE DEF ids
  <2> QED BY <2>1, <2>2, FromRegistryChosen
<1> QED BY <1>1, <1>2

LEMMA ResolutionChosen ==
    ASSUME RegistryTypeOK, NEW d, Declared(d), NEW choice \in Resolutions(d)
    PROVE  Chosen(choice)
<1>1. CASE d.selectRef # None
  <2>1. choice \in SelectedRef(d)
    BY <1>1 DEF Resolutions
  <2>2. PICK ids \in SUBSET Present : choice \in FromRegistry(ids)
    BY <2>1, ResolversPresent DEF SelectedRef
  <2> QED BY <2>2, FromRegistryChosen
<1>2. CASE d.selectRef = None /\ d.selectType # None
  <2>1. choice \in Either(ByType(d.selectType), d.selectType)
    BY <1>2 DEF Resolutions, SelectedType
  <2>2. d.selectType \in Types
    BY <1>2 DEF Declared
  <2> QED BY <2>1, <2>2, ResolversPresent, EitherChosen
<1>3. CASE d.selectRef = None /\ d.selectType = None
  <2>1. CASE d.kind = "ref"
    <3>1. choice \in FromRegistry(ByName(d.of))
      BY <1>3, <2>1 DEF Resolutions
    <3> QED BY <3>1, ResolversPresent, FromRegistryChosen
  <2>2. CASE d.kind = "inline"
    <3>1. choice \in MadeUp(d.of) /\ d.of \in Types
      BY <1>3, <2>2 DEF Resolutions, Declared
    <3> QED BY <3>1, MadeUpChosen
  <2>3. CASE d.kind = "portable"
    <3>1. choice \in Portable(d) /\ d.of \in Seq(Types) /\ d.of # <<>>
      BY <1>3, <2>3 DEF Resolutions, Declared
    <3> QED BY <3>1, PortableChosen
  <2>4. CASE d.kind = "plain" /\ d.image # None
    <3>1. choice \in Either(DockerDefault, "docker") /\ "docker" \in Types
      BY <1>3, <2>4 DEF Resolutions, Types
    <3> QED BY <3>1, ResolversPresent, EitherChosen
  <2>5. CASE d.kind = "plain" /\ d.image = None
    <3>1. choice \in FromRegistry(Defaults)
      BY <1>3, <2>5 DEF Resolutions
    <3> QED BY <3>1, ResolversPresent, FromRegistryChosen
  <2> QED BY <2>1, <2>2, <2>3, <2>4, <2>5 DEF Declared
<1> QED BY <1>1, <1>2, <1>3

-----------------------------------------------------------------------------
(* The names of entries are told apart by their parts.                     *)
LEMMA NamesApart ==
    ASSUME NEW name \in Names, NEW other \in Names, NEW image \in Images,
           NEW e \in Entry, e.image # None
    PROVE  /\ Plain(name) # Tagged(other, image)
           /\ Plain(name) # Hashed(other, e)
           /\ Tagged(name, image) # Hashed(other, e)
BY NoneAssumption DEF NoneAssumption, Plain, Tagged, Hashed, Entry

LEMMA HashedApart ==
    ASSUME NEW name, NEW other, NEW e \in Entry, NEW f \in Entry,
           e.type = f.type, Hashed(name, e) = Hashed(other, f)
    PROVE  e = f
BY DEF Hashed, Entry

LEMMA PutIs ==
    ASSUME NEW name, NEW entry
    PROVE  /\ DOMAIN PutEntry(name, entry) = DOMAIN entries \cup {name}
           /\ PutEntry(name, entry)[name] = entry
           /\ \A x \in DOMAIN entries : x # name => PutEntry(name, entry)[x] = entries[x]
BY DEF PutEntry

(* What a node that runs on an instance adds: an entry that was not there, *)
(* or nothing, and the one it gets has its own image or none.              *)
Added(add, image) ==
    /\ Shape(add.entries)
    /\ add.name \in DOMAIN add.entries
    /\ DOMAIN entries \subseteq DOMAIN add.entries
    /\ \A x \in DOMAIN entries : add.entries[x] = entries[x]
    /\ \A x \in DOMAIN add.entries \ DOMAIN entries : x[1] \in Names
    /\ LET entry == add.entries[add.name]
       IN  entry.image # None => entry.image = image

LEMMA PutShape ==
    ASSUME Shape(entries), NEW name, name \notin DOMAIN entries, name[1] \in Names,
           NEW entry \in Entry,
           \A other \in Names : name = Plain(other) => entry.image = None,
           \A other \in Names, e \in Entry :
              e.type = "docker" /\ e.image # None /\ name = Hashed(other, e) => entry = e
    PROVE  /\ Shape(PutEntry(name, entry))
           /\ DOMAIN entries \subseteq DOMAIN PutEntry(name, entry)
           /\ \A x \in DOMAIN entries : PutEntry(name, entry)[x] = entries[x]
           /\ \A x \in DOMAIN PutEntry(name, entry) \ DOMAIN entries : x[1] \in Names
<1>1. /\ DOMAIN PutEntry(name, entry) = DOMAIN entries \cup {name}
      /\ PutEntry(name, entry)[name] = entry
      /\ \A x \in DOMAIN entries : PutEntry(name, entry)[x] = entries[x]
  BY DEF PutEntry
<1>2. Shape(PutEntry(name, entry))
  <2> SUFFICES ASSUME NEW x \in DOMAIN entries \cup {name}
               PROVE  /\ PutEntry(name, entry)[x] \in Entry
                      /\ \A other \in Names : x = Plain(other) => PutEntry(name, entry)[x].image = None
                      /\ \A other \in Names, e \in Entry :
                            e.type = "docker" /\ e.image # None /\ x = Hashed(other, e)
                              => PutEntry(name, entry)[x] = e
    BY <1>1 DEF Shape
  <2>1. CASE x = name
    BY <1>1, <2>1
  <2>2. CASE x \in DOMAIN entries
    BY <1>1, <2>2 DEF Shape
  <2> QED BY <2>1, <2>2
<1> QED BY <1>1, <1>2

LEMMA AddPlainAdds ==
    ASSUME Shape(entries), NEW row \in Executor, NEW image, NEW add \in AddPlain(row)
    PROVE  Added(add, image)
<1> DEFINE name  == Plain(row.name)
           entry == [type |-> row.type, config |-> row.config, image |-> None]
<1>1. row.name \in Names /\ entry \in Entry /\ name[1] \in Names /\ entry.image = None
  BY DEF Executor, Entry, Plain
<1>2. add = [name |-> name, entries |-> IF name \in DOMAIN entries THEN entries
                                         ELSE PutEntry(name, entry)]
  BY DEF AddPlain
<1>3. \A other \in Names, e \in Entry : e.image # None => name # Hashed(other, e)
  BY NoneAssumption DEF NoneAssumption, Plain, Hashed, Entry
<1>4. name \in DOMAIN entries => entries[name].image = None
  BY <1>1 DEF Shape
<1> HIDE DEF name, entry
<1>5. CASE name \in DOMAIN entries
  BY <1>2, <1>4, <1>5 DEF Added
<1>6. CASE name \notin DOMAIN entries
  <2>1. add = [name |-> name, entries |-> PutEntry(name, entry)]
    BY <1>2, <1>6
  <2>2. name \in DOMAIN PutEntry(name, entry) /\ PutEntry(name, entry)[name] = entry
    BY DEF PutEntry
  <2>3. \A other \in Names : name = Plain(other) => entry.image = None
    BY <1>1
  <2>4. \A other \in Names, e \in Entry :
           e.type = "docker" /\ e.image # None /\ name = Hashed(other, e) => entry = e
    BY <1>3
  <2>5. /\ Shape(PutEntry(name, entry))
        /\ DOMAIN entries \subseteq DOMAIN PutEntry(name, entry)
        /\ \A x \in DOMAIN entries : PutEntry(name, entry)[x] = entries[x]
        /\ \A x \in DOMAIN PutEntry(name, entry) \ DOMAIN entries : x[1] \in Names
    BY <1>1, <1>6, <2>3, <2>4, PutShape, Zenon
  <2> QED BY <1>1, <2>1, <2>2, <2>5 DEF Added
<1> QED BY <1>5, <1>6

LEMMA AddTaggedAdds ==
    ASSUME Shape(entries), NEW row \in Executor, row.type = "docker", NEW image \in Images,
           NEW add \in AddTagged(row, image)
    PROVE  Added(add, image) /\ add.entries[add.name].type = "docker"
<1> DEFINE entry == [type |-> row.type, config |-> row.config, image |-> image]
           equal == {x \in DOMAIN entries : entries[x] = entry}
           name  == IF Tagged(row.name, image) \in DOMAIN entries
                    THEN Hashed(row.name, entry) ELSE Tagged(row.name, image)
<1>1. row.name \in Names /\ entry \in Entry /\ name[1] \in Names
      /\ entry.image = image /\ entry.image # None /\ entry.type = "docker"
  BY NoneAssumption DEF NoneAssumption, Executor, Entry, Tagged, Hashed
<1>2. add \in (IF equal # {} THEN {[name |-> x, entries |-> entries] : x \in equal}
               ELSE {[name |-> name, entries |-> PutEntry(name, entry)]})
  BY DEF AddTagged
<1>3. name = Hashed(row.name, entry)
        \/ (name = Tagged(row.name, image) /\ name \notin DOMAIN entries)
  OBVIOUS
<1>4. equal # {} \/ \A x \in DOMAIN entries : entries[x] # entry
  OBVIOUS
<1>5. \A x \in equal : x \in DOMAIN entries /\ entries[x] = entry
  OBVIOUS
<1> HIDE DEF entry, equal, name
<1>6. CASE equal # {}
  <2>1. PICK x \in equal : add = [name |-> x, entries |-> entries]
    BY <1>2, <1>6
  <2> QED BY <1>1, <1>5, <2>1 DEF Added
<1>7. CASE equal = {}
  <2>1. add = [name |-> name, entries |-> PutEntry(name, entry)]
    BY <1>2, <1>7
  <2>2. name \notin DOMAIN entries
    <3> SUFFICES ASSUME name \in DOMAIN entries PROVE FALSE
      OBVIOUS
    <3>1. name = Hashed(row.name, entry)
      BY <1>3
    <3>2. entries[name] # entry
      BY <1>4, <1>7
    <3> QED BY <1>1, <3>1, <3>2 DEF Shape
  <2>3. \A other \in Names : name # Plain(other)
    BY <1>1, <1>3, NamesApart
  <2>4. ASSUME NEW other \in Names, NEW e \in Entry, e.type = "docker", e.image # None,
               name = Hashed(other, e)
        PROVE  entry = e
    <3>1. name # Tagged(row.name, image)
      BY <1>1, <2>4, NamesApart
    <3> QED BY <1>1, <1>3, <2>4, <3>1, HashedApart
  <2>5. /\ Shape(PutEntry(name, entry))
        /\ DOMAIN entries \subseteq DOMAIN PutEntry(name, entry)
        /\ \A x \in DOMAIN entries : PutEntry(name, entry)[x] = entries[x]
        /\ \A x \in DOMAIN PutEntry(name, entry) \ DOMAIN entries : x[1] \in Names
    BY <1>1, <2>2, <2>3, <2>4, PutShape
  <2>6. name \in DOMAIN PutEntry(name, entry) /\ PutEntry(name, entry)[name] = entry
    BY DEF PutEntry
  <2> QED BY <1>1, <2>1, <2>5, <2>6 DEF Added
<1> QED BY <1>6, <1>7

LEMMA AddRegisteredAdds ==
    ASSUME Shape(entries), NEW row \in Executor, NEW image \in Images \cup {None},
           NEW add \in AddRegistered(row, image)
    PROVE  /\ Added(add, image)
           /\ LET entry == add.entries[add.name]
              IN  entry.image # None => entry.type = row.type
<1>1. CASE add \in AddTagged(row, image) /\ row.type = "docker" /\ image # None
  BY <1>1, AddTaggedAdds
<1>2. CASE add \in AddPlain(row)
  <2>1. Added(add, None)
    BY <1>2, AddPlainAdds
  <2> QED BY <1>2, <2>1, AddPlainAdds DEF Added
<1> QED BY <1>1, <1>2 DEF AddRegistered

-----------------------------------------------------------------------------
(* A node that was made an entry makes its own again, and the name of that *)
(* entry is no instance.                                                   *)
LEMMA AddAnonymousAdds ==
    ASSUME Shape(entries), NEW n \in Nodes, Declared(declared[n]), NEW type \in Types,
           NEW add \in AddAnonymous(n, type)
    PROVE  /\ Shape(add.entries)
           /\ add.name[1] \notin Names
           /\ DOMAIN add.entries = DOMAIN entries \cup {add.name}
           /\ add.entries[add.name] = MadeEntry(declared[n], type)
           /\ \A x \in DOMAIN entries : x # add.name => add.entries[x] = entries[x]
<1> DEFINE name  == Anonymous(declared[n].package)
           entry == MadeEntry(declared[n], type)
<1>1. add.name = name /\ add.entries = PutEntry(name, entry)
  BY DEF AddAnonymous
<1>2. entry \in Entry
  BY RegistryAssumption DEF RegistryAssumption, MadeEntry, Entry, Declared
<1>3. name[1] \notin Names
  BY DEF Anonymous, Declared
<1>4. \A other \in Names : name # Plain(other) /\ \A e \in Entry : name # Hashed(other, e)
  BY <1>3 DEF Plain, Hashed
<1> HIDE DEF name, entry
<1>5. /\ DOMAIN PutEntry(name, entry) = DOMAIN entries \cup {name}
      /\ PutEntry(name, entry)[name] = entry
      /\ \A x \in DOMAIN entries : x # name => PutEntry(name, entry)[x] = entries[x]
  BY DEF PutEntry
<1>6. Shape(PutEntry(name, entry))
  BY <1>2, <1>4, <1>5 DEF Shape
<1> QED BY <1>1, <1>3, <1>5, <1>6 DEF name, entry

(* The step of one node: it gets an entry under a name, and either no      *)
(* entry that was there changes, or only the one that was made for it.     *)
Placing(n, choice, name) ==
    /\ Chosen(choice)
    /\ placed' = [placed EXCEPT ![n] = [name |-> name, type |-> choice.type,
                                        registered |-> choice.row # Gone]]
    /\ Shape(entries')
    /\ DOMAIN entries \subseteq DOMAIN entries'
    /\ name \in DOMAIN entries'
    /\ choice.row # Gone =>
         /\ \A x \in DOMAIN entries : entries'[x] = entries[x]
         /\ \A x \in DOMAIN entries' \ DOMAIN entries : x[1] \in Names
         /\ LET entry == entries'[name]
            IN  entry.image # None => entry.image = declared[n].image /\ entry.type = choice.type
    /\ choice.row = Gone =>
         /\ name[1] \notin Names
         /\ DOMAIN entries' = DOMAIN entries \cup {name}
         /\ entries'[name] = MadeEntry(declared[n], choice.type)
         /\ \A x \in DOMAIN entries : x # name => entries'[x] = entries[x]

LEMMA ExpandStep ==
    ASSUME ExpansionInv, RegistryTypeOK, NEW n \in Nodes, Expand(n)
    PROVE  \E choice, name : Placing(n, choice, name)
<1>1. Declared(declared[n]) /\ Shape(entries)
  BY WorkflowsAssumption DEF WorkflowsAssumption, ExpansionInv, Fits
<1>2. PICK choice \in Resolutions(declared[n]) : \E add \in Adds(n, choice) :
         /\ entries' = add.entries
         /\ placed' = [placed EXCEPT ![n] = [name |-> add.name, type |-> choice.type,
                                             registered |-> choice.row # Gone]]
  BY DEF Expand
<1>3. PICK add \in Adds(n, choice) :
         /\ entries' = add.entries
         /\ placed' = [placed EXCEPT ![n] = [name |-> add.name, type |-> choice.type,
                                             registered |-> choice.row # Gone]]
  BY <1>2
<1>4. Chosen(choice)
  BY <1>1, ResolutionChosen
<1>5. Shape(add.entries) => Shape(entries')
  BY <1>3
<1>6. CASE choice.row # Gone
  <2>1. choice.row \in Executor /\ choice.row.type = choice.type
    BY <1>4, <1>6 DEF Chosen
  <2>2. add \in AddRegistered(choice.row, declared[n].image)
    BY <1>6 DEF Adds
  <2>3. declared[n].image \in Images \cup {None}
    BY <1>1 DEF Declared
  <2>4. /\ Added(add, declared[n].image)
        /\ add.entries[add.name].image # None => add.entries[add.name].type = choice.row.type
    BY <1>1, <2>1, <2>2, <2>3, AddRegisteredAdds
  <2>5. Placing(n, choice, add.name)
    BY <1>3, <1>4, <1>5, <1>6, <2>1, <2>4 DEF Added, Placing
  <2> QED BY <2>5
<1>7. CASE choice.row = Gone
  <2>1. add \in AddAnonymous(n, choice.type) /\ choice.type \in Types
    BY <1>4, <1>7 DEF Adds, Chosen
  <2>2. /\ Shape(add.entries)
        /\ add.name[1] \notin Names
        /\ DOMAIN add.entries = DOMAIN entries \cup {add.name}
        /\ add.entries[add.name] = MadeEntry(declared[n], choice.type)
        /\ \A x \in DOMAIN entries : x # add.name => add.entries[x] = entries[x]
    BY <1>1, <2>1, AddAnonymousAdds
  <2>3. Placing(n, choice, add.name)
    BY <1>3, <1>4, <1>5, <1>7, <2>2 DEF Placing
  <2> QED BY <2>3
<1> QED BY <1>6, <1>7

(* The new placement, node by node.                                        *)
LEMMA PlacedThen ==
    ASSUME ExpansionInv, NEW n \in Nodes, NEW choice, NEW name, Placing(n, choice, name)
    PROVE  /\ DOMAIN placed' = Nodes
           /\ \A m \in Nodes \ {n} : placed'[m] = placed[m]
           /\ placed'[n] # Unplaced
           /\ placed'[n].name = name /\ placed'[n].type = choice.type
           /\ placed'[n].registered = (choice.row # Gone)
<1>1. placed' = [placed EXCEPT ![n] = [name |-> name, type |-> choice.type,
                                       registered |-> choice.row # Gone]]
      /\ choice.type # None /\ DOMAIN placed = Nodes
  BY NoneAssumption DEF NoneAssumption, Placing, Chosen, ExpansionInv, Fits
<1>2. placed'[n] = [name |-> name, type |-> choice.type, registered |-> choice.row # Gone]
      /\ DOMAIN placed' = Nodes /\ \A m \in Nodes \ {n} : placed'[m] = placed[m]
  BY <1>1
<1>3. placed'[n] # Unplaced
  BY <1>1, <1>2 DEF Unplaced
<1> QED BY <1>2, <1>3

(* What was made stays made, so what was made twice stays so.              *)
LEMMA MadeStays ==
    ASSUME ExpansionInv, NEW n \in Nodes, placed[n] = Unplaced, declared' = declared,
           NEW choice, NEW name, Placing(n, choice, name)
    PROVE  /\ \A m \in Nodes : WasMade(placed, m) => m # n /\ WasMade(placed, m)'
           /\ \A x : MadeTwice(placed, x) => MadeTwice(placed, x)'
<1>1. \A m \in Nodes \ {n} : placed'[m] = placed[m]
  BY PlacedThen
<1>2. \A m \in Nodes : WasMade(placed, m) => m # n /\ placed'[m] = placed[m] /\ WasMade(placed, m)'
  BY <1>1 DEF WasMade
<1>3. ASSUME NEW x, MadeTwice(placed, x) PROVE MadeTwice(placed, x)'
  <2>1. PICK k \in Nodes, m \in Nodes :
          /\ WasMade(placed, k) /\ WasMade(placed, m)
          /\ placed[k].name = x /\ placed[m].name = x
          /\ MadeEntry(declared[k], placed[k].type) # MadeEntry(declared[m], placed[m].type)
    BY <1>3 DEF MadeTwice
  <2>2. /\ WasMade(placed, k)' /\ WasMade(placed, m)'
        /\ placed'[k] = placed[k] /\ placed'[m] = placed[m]
    BY <1>2, <2>1
  <2>3. MadeEntry(declared'[k], placed'[k].type) # MadeEntry(declared'[m], placed'[m].type)
    BY <2>1, <2>2
  <2> QED BY <2>1, <2>2, <2>3 DEF MadeTwice
<1> QED BY <1>2, <1>3

LEMMA PlacingMakers ==
    ASSUME ExpansionInv, NEW n \in Nodes, placed[n] = Unplaced, declared' = declared,
           NEW choice, NEW name, Placing(n, choice, name)
    PROVE  HasMaker(entries, placed)'
<1>1. /\ placed'[n] # Unplaced /\ placed'[n].name = name /\ placed'[n].type = choice.type
      /\ placed'[n].registered = (choice.row # Gone)
      /\ \A m \in Nodes \ {n} : placed'[m] = placed[m]
  BY PlacedThen
<1>2. ASSUME NEW x \in DOMAIN entries', x[1] \notin Names
      PROVE  \E m \in Nodes : /\ WasMade(placed, m)' /\ placed'[m].name = x
                              /\ entries'[x] = MadeEntry(declared'[m], placed'[m].type)
  <2>1. CASE x \in DOMAIN entries /\ entries'[x] = entries[x]
    <3>1. PICK m \in Nodes : /\ WasMade(placed, m) /\ placed[m].name = x
                             /\ entries[x] = MadeEntry(declared[m], placed[m].type)
      BY <1>2, <2>1 DEF ExpansionInv, Fits, HasMaker
    <3>2. WasMade(placed, m)' /\ placed'[m] = placed[m]
      BY <1>1, <3>1, MadeStays
    <3> QED BY <2>1, <3>1, <3>2
  <2>2. CASE choice.row = Gone /\ x = name
    <3>1. WasMade(placed, n)'
      BY <1>1, <2>2 DEF WasMade
    <3>2. entries'[x] = MadeEntry(declared'[n], placed'[n].type)
      BY <1>1, <2>2 DEF Placing
    <3> QED BY <1>1, <2>2, <3>1, <3>2
  <2>3. \/ x \in DOMAIN entries /\ entries'[x] = entries[x]
        \/ choice.row = Gone /\ x = name
    BY <1>2 DEF Placing
  <2> QED BY <2>1, <2>2, <2>3
<1> QED BY <1>2 DEF HasMaker

(* An entry changes only when another node writes a different one under    *)
(* its name, and then both were made.                                      *)
LEMMA PlacingImages ==
    ASSUME ExpansionInv, NEW n \in Nodes, placed[n] = Unplaced, declared' = declared,
           NEW choice, NEW name, Placing(n, choice, name)
    PROVE  OwnImage(entries, placed)'
<1>1. /\ placed'[n] # Unplaced /\ placed'[n].name = name /\ placed'[n].type = choice.type
      /\ placed'[n].registered = (choice.row # Gone)
      /\ \A m \in Nodes \ {n} : placed'[m] = placed[m]
  BY PlacedThen
<1>2. ASSUME NEW x \in DOMAIN entries, entries'[x] # entries[x]
      PROVE  MadeTwice(placed, x)'
  <2>1. choice.row = Gone /\ x = name /\ x[1] \notin Names
        /\ entries'[x] = MadeEntry(declared[n], choice.type)
    BY <1>2 DEF Placing
  <2>2. PICK k \in Nodes : /\ WasMade(placed, k) /\ placed[k].name = x
                           /\ entries[x] = MadeEntry(declared[k], placed[k].type)
    BY <2>1 DEF ExpansionInv, Fits, HasMaker
  <2>3. WasMade(placed, k)' /\ WasMade(placed, n)' /\ placed'[k] = placed[k]
    BY <1>1, <2>1, <2>2, MadeStays DEF WasMade
  <2>4. MadeEntry(declared'[k], placed'[k].type) # MadeEntry(declared'[n], placed'[n].type)
    BY <1>1, <1>2, <2>1, <2>2, <2>3
  <2> QED BY <1>1, <2>1, <2>2, <2>3, <2>4 DEF MadeTwice
<1>3. ASSUME NEW m \in Nodes, placed'[m] # Unplaced,
             NEW x, x = placed'[m].name, ~MadeTwice(placed, x)'
      PROVE  LET entry == entries'[placed'[m].name]
             IN  /\ entry.image # None => entry.image = declared'[m].image
                                          /\ entry.type = placed'[m].type
                 /\ WasMade(placed, m)' => entry = MadeEntry(declared'[m], placed'[m].type)
  <2>1. CASE m = n
    <3>1. CASE choice.row = Gone
      <4>1. entries'[name] = MadeEntry(declared[n], choice.type)
        BY <3>1 DEF Placing
      <4>2. entries'[name].image # None => entries'[name].image = declared[n].image
                                           /\ entries'[name].type = choice.type
        BY <4>1 DEF MadeEntry
      <4> QED BY <1>1, <2>1, <4>1, <4>2
    <3>2. CASE choice.row # Gone
      BY <1>1, <2>1, <3>2 DEF Placing, WasMade
    <3> QED BY <3>1, <3>2
  <2>2. CASE m # n
    <3>1. placed'[m] = placed[m] /\ placed[m] # Unplaced /\ placed[m].name \in DOMAIN entries
      BY <1>1, <1>3, <2>2 DEF ExpansionInv, Fits
    <3>2. x = placed[m].name /\ ~MadeTwice(placed, x) /\ entries'[x] = entries[x]
      BY <1>2, <1>3, <3>1, MadeStays
    <3>3. WasMade(placed, m)' <=> WasMade(placed, m)
      BY <3>1 DEF WasMade
    <3> QED BY <3>1, <3>2, <3>3 DEF ExpansionInv, Fits, OwnImage
  <2> QED BY <2>1, <2>2
<1> QED BY <1>3 DEF OwnImage, WasMade, MadeTwice

LEMMA PlacingFits ==
    ASSUME ExpansionInv, NEW n \in Nodes, placed[n] = Unplaced, declared' = declared,
           NEW choice, NEW name, Placing(n, choice, name)
    PROVE  Fits(entries, placed)'
<1>1. /\ DOMAIN placed' = Nodes
      /\ placed'[n].name = name
      /\ \A m \in Nodes \ {n} : placed'[m] = placed[m]
  BY PlacedThen
<1>2. \A m \in Nodes : placed'[m] # Unplaced => placed'[m].name \in DOMAIN entries'
  BY <1>1 DEF ExpansionInv, Fits, Placing
<1>3. Shape(entries)'
  BY DEF Placing, Shape
<1> QED BY <1>1, <1>2, <1>3, PlacingMakers, PlacingImages DEF Fits

(* Entries of instances are not written again.                             *)
LEMMA PlacingExtends ==
    ASSUME NEW n \in Nodes, NEW choice, NEW name, Placing(n, choice, name)
    PROVE  \A x \in DOMAIN entries :
              x[1] \in Names => x \in DOMAIN entries' /\ entries'[x] = entries[x]
BY DEF Placing

LEMMA InitExpansionInv == ExpansionInit => ExpansionInv
<1> SUFFICES ASSUME ExpansionInit PROVE ExpansionInv
  OBVIOUS
<1>1. DOMAIN entries = {} /\ DOMAIN placed = Nodes /\ \A n \in Nodes : placed[n] = Unplaced
  BY DEF ExpansionInit, NoEntries
<1>2. Fits(entries, placed)
  BY <1>1 DEF Fits, Shape, HasMaker, OwnImage
<1>3. saved = [entries |-> entries, placed |-> placed] /\ declared \in Workflows /\ todo = {}
  BY DEF ExpansionInit
<1>4. Fits(saved.entries, saved.placed) /\ Extends
  BY <1>2, <1>3 DEF Extends
<1> QED BY <1>2, <1>3, <1>4 DEF ExpansionInv

(* What a node expands to, and what a snapshot is taken of.                *)
LEMMA ExpandKeeps ==
    ASSUME ExpansionInv, RegistryTypeOK, NEW n \in Nodes, Expand(n)
    PROVE  /\ ExpansionInv'
           /\ \A x \in DOMAIN saved.entries :
                x[1] \in Names => x \in DOMAIN saved'.entries /\ saved'.entries[x] = saved.entries[x]
<1>1. placed[n] = Unplaced /\ declared' = declared /\ todo' = todo \ {n}
  BY DEF Expand, ExpansionInv
<1>2. PICK choice, name : Placing(n, choice, name)
  BY ExpandStep
<1>3. Fits(entries, placed)'
  BY <1>1, <1>2, PlacingFits
<1>4. todo' \subseteq Nodes /\ \A m \in todo' : placed'[m] = Unplaced
  BY <1>1, <1>2, PlacedThen DEF ExpansionInv
<1>5. \A x \in DOMAIN saved.entries :
         x[1] \in Names => x \in DOMAIN entries' /\ entries'[x] = saved.entries[x]
  BY <1>2, PlacingExtends DEF ExpansionInv, Extends
<1>6. CASE todo' = {}
  <2>1. saved' = [entries |-> entries', placed |-> placed']
    BY <1>6 DEF Expand
  <2>2. Fits(saved.entries, saved.placed)' /\ Extends'
    BY <1>3, <2>1 DEF Extends
  <2> QED BY <1>1, <1>3, <1>4, <1>5, <2>1, <2>2 DEF ExpansionInv
<1>7. CASE todo' # {}
  <2>1. saved' = saved
    BY <1>7 DEF Expand
  <2>2. Fits(saved.entries, saved.placed)'
    BY <1>1, <2>1 DEF ExpansionInv, Fits, Shape, HasMaker, OwnImage, WasMade, MadeTwice
  <2>3. Extends'
    BY <1>5, <2>1 DEF Extends
  <2> QED BY <1>1, <1>3, <1>4, <1>7, <2>1, <2>2, <2>3 DEF ExpansionInv
<1> QED BY <1>6, <1>7

LEMMA NextKeeps ==
    ASSUME ExpansionInv, RegistryTypeOK, [ExpansionNext]_allVars
    PROVE  /\ ExpansionInv'
           /\ \A x \in DOMAIN saved.entries :
                x[1] \in Names => x \in DOMAIN saved'.entries /\ saved'.entries[x] = saved.entries[x]
<1> USE DEF ExpansionInv, Fits, Shape, HasMaker, OwnImage, WasMade, MadeTwice, Extends
<1>1. CASE \E n \in Nodes : Expand(n)
  BY ONLY ExpansionInv, RegistryTypeOK, <1>1, ExpandKeeps
<1>2. CASE \E n \in Nodes : Refuse(n)
  BY <1>2 DEF Refuse
<1>3. CASE \E nodes \in SUBSET Nodes : Begin(nodes)
  BY <1>3 DEF Begin
<1>4. CASE UNCHANGED expansionVars
  BY <1>4 DEF expansionVars
<1> QED BY <1>1, <1>2, <1>3, <1>4 DEF ExpansionNext, Expansion, allVars

LEMMA ExpansionInvariance == ExpansionSpec => [](RegistryTypeOK /\ ExpansionInv)
<1>1. ExpansionSpec => []RegistryTypeOK
  <2>1. RInv => RegistryTypeOK
    BY DEF RInv
  <2> QED BY <2>1, ImplementsRegistry, RegistryInvariance, PTL
<1>2. RegistryTypeOK /\ ExpansionInv /\ [ExpansionNext]_allVars => ExpansionInv'
  BY NextKeeps
<1> QED BY <1>1, <1>2, InitExpansionInv, PTL DEF ExpansionSpec

(* The types, and that every node that is expanded has an entry; between   *)
(* two expansions the snapshot is what the last one left.                  *)
THEOREM ExpansionTyped == ExpansionSpec => []ExpansionTypeOK
<1>1. RegistryTypeOK /\ ExpansionInv => ExpansionTypeOK
  BY DEF ExpansionInv, Fits, Shape, ExpansionTypeOK
<1> QED BY <1>1, ExpansionInvariance, PTL

(* A node never runs in the image of another one, unless two nodes of one  *)
(* package write its anonymous entry differently (synthesizedExecutorName, *)
(* addRegisteredExecutor, addAnonymousExecutor).                           *)
THEOREM ImagesAreOwn == ExpansionSpec => []NoForeignImage
<1>1. ExpansionInv => NoForeignImage
  BY DEF ExpansionInv, Fits, OwnImage, WasMade, MadeTwice, NoForeignImage, Made, Rewritten
<1> QED BY <1>1, ExpansionInvariance, PTL

(* A continue leaves the entries of instances in the snapshot as they were *)
(* when the execution started, whatever became of the registry.            *)
THEOREM SnapshotsGrow == ExpansionSpec => SharedEntriesAreAdditive
<1>1. RegistryTypeOK /\ ExpansionInv /\ [ExpansionNext]_allVars =>
        [\A x \in DOMAIN saved.entries :
           x[1] \in Names => x \in DOMAIN saved'.entries /\ saved'.entries[x] = saved.entries[x]]_saved
  BY NextKeeps
<1> QED BY <1>1, ExpansionInvariance, PTL DEF ExpansionSpec, SharedEntriesAreAdditive
=============================================================================
