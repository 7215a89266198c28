---------------------------- MODULE ClientProofs ----------------------------
(***************************************************************************)
(* What the pages of settings, workflows, nodes and executors guarantee,   *)
(* for any numbers of requests and loads under way, executors,             *)
(* configurations, nodes, workflows, executions, acts of the user and      *)
(* upsets, and any size of a page.                                         *)
(***************************************************************************)
EXTENDS Client, WorkflowListProofs

-----------------------------------------------------------------------------
(* The settings: types.                                                    *)

Keys == {"theme", "confirmBeforeDelete", "maxConcurrentExecutions"}
Number == "maxConcurrentExecutions"
Patches == SystemSettings \cup [{"theme"} -> Themes]

UpdateRequest == [step : {"idle", "sent", "writing", "done", "refused"}, patch : Patches, left : SUBSET Keys,
           kind : {"save", "apply"}, prev : SystemSettings,
           here : BOOLEAN, raced : BOOLEAN, beside : BOOLEAN]
SettingsLoad == [step : {"idle", "sent", "answer"}, rows : SystemSettings, raced : BOOLEAN]

Typed ==
    /\ systemSettings \in SystemSettings /\ configRows \in SystemSettings /\ formData \in SystemSettings
    /\ cached \in Numbers \cup {None}
    /\ reader \in [step : {"idle", "read"}, value : Numbers \cup {0}, old : BOOLEAN]
    /\ reader.step = "read" => reader.value \in Numbers
    /\ configLoad \in [ConfigLoads -> SettingsLoad]
    /\ update \in [Updates -> UpdateRequest]
    /\ saving \in BOOLEAN /\ mixed \in BOOLEAN /\ crossed \in BOOLEAN /\ dirty \in BOOLEAN

-----------------------------------------------------------------------------
(* The settings: the rows and the cache of the server.                     *)

LoadUnderway(l) == configLoad[l].step # "idle"
Gone(u) == DOMAIN update[u].patch \ update[u].left

\* What is written has been validated, and all of it has been written in the end.
Written(u) ==
    /\ update[u].step \in {"writing", "done"} => Accepts(update[u].patch)
    /\ update[u].step = "writing" => update[u].left \subseteq DOMAIN update[u].patch
    /\ update[u].step = "done" => update[u].left = {}

\* Two updates that are written at a time know of each other.
Beside == \A u, v \in Updates : u # v /\ Writing(u) /\ Writing(v) => update[u].beside

\* The row of the number is what the one that writes alone has put there.
OwnRow(u) == Writing(u) /\ Number \in Gone(u) /\ ~update[u].beside
                 => configRows[Number] = update[u].patch[Number]

FreshRead == reader.step = "read" /\ ~reader.old => reader.value = configRows[Number]

\* The cache is that of the row, or a writer is about to fill it.
CacheComing == \/ cached = None \/ cached = configRows[Number]
               \/ \E u \in Updates : Writing(u) /\ Number \in DOMAIN update[u].patch
CacheInv == crossed \/ CacheComing

ServerInv == RowsAreValid /\ (\A u \in Updates : Written(u)) /\ Beside /\ (\A u \in Updates : OwnRow(u))
          /\ FreshRead /\ CacheInv

-----------------------------------------------------------------------------
(* The settings: the store.                                                *)

\* Of two updates under way, each knows of the other.
Raced == \A u, v \in Updates : u # v /\ Underway(u) /\ Underway(v) => update[u].raced

\* A load that nothing has overlapped brings the rows of now.
LoneLoad(l) == LoadUnderway(l) /\ ~configLoad[l].raced
                   => /\ \A u \in Updates : ~Underway(u)
                      /\ configLoad[l].step = "answer" => configLoad[l].rows = configRows

\* The rows are those of the store, and what an update has written so far.
Partly(u) == \A k \in Keys : configRows[k] = IF k \in Gone(u) THEN update[u].patch[k] ELSE systemSettings[k]
LoneUpdate(u) == Underway(u) /\ ~update[u].raced
                     => IF update[u].step \in {"writing", "done"} THEN Partly(u) ELSE systemSettings = configRows

SomeWrites == \E u \in Updates : update[u].step \in {"writing", "done"}

StoreInv ==
    /\ Raced
    /\ \A l \in ConfigLoads : LoneLoad(l)
    /\ \/ mixed \/ systemSettings = configRows
       \/ SomeWrites
    /\ mixed \/ \A u \in Updates : LoneUpdate(u)

-----------------------------------------------------------------------------
(* The settings: the form.                                                 *)

Mine(u) == Underway(u) /\ update[u].here

\* What an update would go back to is what the store has.
LonePrev(u) == Mine(u) /\ ~update[u].raced
                   => update[u].prev = systemSettings /\ \A l \in ConfigLoads : ~LoadUnderway(l)

FormInv ==
    /\ route # "settings" => \A u \in Updates : ~Mine(u)
    /\ \A u \in Updates : LonePrev(u)
    /\ \/ dirty \/ formData = systemSettings
       \/ \E u \in Updates : Mine(u) /\ update[u].kind = "apply"

SettingsInv == Typed /\ ServerInv /\ StoreInv /\ FormInv

-----------------------------------------------------------------------------
(* The executors.                                                          *)

Shape(k) == /\ k = [step |-> k.step, rows |-> k.rows, mine |-> k.mine, old |-> k.old]
            /\ k.step \in {"idle", "sent", "answer"}
            /\ k.old \in BOOLEAN

LoadsType == /\ DOMAIN reload = Reloads /\ \A l \in Reloads : Shape(reload[l])
             /\ stale \in BOOLEAN /\ executorEvent \in BOOLEAN /\ creating \in BOOLEAN

FormType == form = [of |-> form.of, config |-> form.config]

\* A load that does not leave the page with an old list for good: it is still
\* to be read, has the rows of now, or is known to be old.
Catches(l) == \/ reload[l].step = "sent"
              \/ reload[l].step = "answer" /\ (reload[l].rows = ListExecutors \/ reload[l].old)
Coming == \E l \in Reloads : Catches(l)
Behind == executors # ListExecutors /\ ~stale
InFlight == \E l \in Reloads : reload[l].step # "idle"
ListInv == route = "executors" /\ ~executorEvent => (Behind \/ InFlight => Coming)

RegistryInv == LoadsType /\ FormType /\ ListInv /\ FormIsOfTheShown

Inv == SettingsInv /\ RegistryInv

-----------------------------------------------------------------------------
(* Settings and patches.                                                   *)

LEMMA SettingsAre ==
    ASSUME NEW s \in SystemSettings
    PROVE  /\ DOMAIN s = Keys
           /\ s["theme"] \in Themes /\ s["confirmBeforeDelete"] \in BOOLEAN /\ s[Number] \in Numbers
           /\ s.maxConcurrentExecutions = s[Number]
BY DEF SystemSettings, Keys, Number

LEMMA SameSettings ==
    ASSUME NEW s \in SystemSettings, NEW t \in SystemSettings, \A k \in Keys : s[k] = t[k]
    PROVE  s = t
BY DEF SystemSettings, Keys

LEMMA PatchesAre ==
    ASSUME NEW p \in Patches
    PROVE  /\ DOMAIN p \subseteq Keys
           /\ "theme" \in DOMAIN p => p["theme"] \in Themes
           /\ "confirmBeforeDelete" \in DOMAIN p => p["confirmBeforeDelete"] \in BOOLEAN
           /\ Number \in DOMAIN p => p[Number] \in Numbers
<1>1. CASE p \in SystemSettings
    BY <1>1, SettingsAre
<1>2. CASE p \in [{"theme"} -> Themes]
    BY <1>2 DEF Keys, Number
<1> QED BY <1>1, <1>2 DEF Patches

LEMMA PutKey ==
    ASSUME NEW s \in SystemSettings, NEW k \in Keys, NEW x,
           k = "theme" => x \in Themes, k = "confirmBeforeDelete" => x \in BOOLEAN, k = Number => x \in Numbers
    PROVE  /\ [s EXCEPT ![k] = x] \in SystemSettings
           /\ [s EXCEPT ![k] = x][k] = x
           /\ \A j \in Keys \ {k} : [s EXCEPT ![k] = x][j] = s[j]
BY DEF SystemSettings, Keys, Number

LEMMA OverrideIs ==
    ASSUME NEW s \in SystemSettings, NEW p \in Patches
    PROVE  /\ Override(s, p) \in SystemSettings
           /\ \A k \in Keys : Override(s, p)[k] = IF k \in DOMAIN p THEN p[k] ELSE s[k]
<1>1. /\ DOMAIN s = Keys
      /\ s["theme"] \in Themes /\ s["confirmBeforeDelete"] \in BOOLEAN /\ s[Number] \in Numbers
    BY SettingsAre
<1>2. \A k \in Keys : Override(s, p)[k] = IF k \in DOMAIN p THEN p[k] ELSE s[k]
    BY <1>1 DEF Override
<1>3. PICK o : o = Override(s, p) /\ o = [k \in Keys |-> IF k \in DOMAIN p THEN p[k] ELSE s[k]]
    BY <1>1 DEF Override
<1>4. o = [theme |-> o["theme"], confirmBeforeDelete |-> o["confirmBeforeDelete"],
           maxConcurrentExecutions |-> o["maxConcurrentExecutions"]]
    BY <1>3 DEF Keys
<1>5. o["theme"] \in Themes /\ o["confirmBeforeDelete"] \in BOOLEAN /\ o["maxConcurrentExecutions"] \in Numbers
    BY <1>1, <1>3, PatchesAre DEF Keys, Number
<1> QED BY <1>2, <1>3, <1>4, <1>5 DEF SystemSettings

LEMMA DefaultsType == DefaultSettings \in SystemSettings /\ SystemSettings \subseteq Patches
BY DEF DefaultSettings, SystemSettings, Themes, Numbers, Patches

(* The requests that a step makes of another.                              *)
LEMMA BlanksType == NoUpdate \in UpdateRequest /\ NoConfigLoad \in SettingsLoad
                    /\ NoReader \in [step : {"idle", "read"}, value : Numbers \cup {0}, old : BOOLEAN]
BY DefaultsType DEF NoUpdate, UpdateRequest, NoConfigLoad, SettingsLoad, NoReader

LEMMA RaceAllType ==
    ASSUME Typed, RaceAll
    PROVE  /\ update' \in [Updates -> UpdateRequest] /\ configLoad' \in [ConfigLoads -> SettingsLoad]
           /\ \A u \in Updates :
                /\ update'[u].step = update[u].step /\ update'[u].patch = update[u].patch
                /\ update'[u].left = update[u].left /\ update'[u].kind = update[u].kind
                /\ update'[u].prev = update[u].prev /\ update'[u].here = update[u].here
                /\ Underway(u) => update'[u].raced
                /\ Writing(u) => update'[u].beside
           /\ \A l \in ConfigLoads : /\ configLoad'[l].step = configLoad[l].step
                                     /\ LoadUnderway(l) => configLoad'[l].raced
<1> USE DEF Typed
<1>1. ASSUME NEW u \in Updates
      PROVE  /\ update[u] \in UpdateRequest
             /\ update'[u] = IF Underway(u) THEN [update[u] EXCEPT !.raced = TRUE, !.beside = @ \/ Writing(u)]
                                            ELSE update[u]
    BY DEF RaceAll
<1>2. ASSUME NEW u \in Updates, NEW k \in UpdateRequest, NEW b \in BOOLEAN, k = update[u], b <=> (k.beside \/ Writing(u)),
             Underway(u), update'[u] = [k EXCEPT !.raced = TRUE, !.beside = b]
      PROVE  /\ update'[u] \in UpdateRequest
             /\ update'[u].step = k.step /\ update'[u].patch = k.patch
             /\ update'[u].left = k.left /\ update'[u].kind = k.kind
             /\ update'[u].prev = k.prev /\ update'[u].here = k.here
             /\ update'[u].raced
             /\ Writing(u) => update'[u].beside
    BY <1>2 DEF UpdateRequest
<1>3. ASSUME NEW u \in Updates
      PROVE  /\ update'[u] \in UpdateRequest
             /\ update'[u].step = update[u].step /\ update'[u].patch = update[u].patch
             /\ update'[u].left = update[u].left /\ update'[u].kind = update[u].kind
             /\ update'[u].prev = update[u].prev /\ update'[u].here = update[u].here
             /\ Underway(u) => update'[u].raced
             /\ Writing(u) => update'[u].beside
    <2>1. PICK k \in UpdateRequest : k = update[u]
        BY <1>1
    <2>2. PICK b \in BOOLEAN : b = (k.beside \/ Writing(u))
        OBVIOUS
    <2>3. CASE Underway(u)
        BY <1>1, <1>2, <2>1, <2>2, <2>3
    <2>4. CASE ~Underway(u)
        BY <1>1, <2>4 DEF Underway, Writing
    <2> QED BY <2>3, <2>4
<1>4. update' \in [Updates -> UpdateRequest]
    BY <1>3 DEF RaceAll
<1>5. /\ configLoad' \in [ConfigLoads -> SettingsLoad]
      /\ \A l \in ConfigLoads : /\ configLoad'[l].step = configLoad[l].step
                                /\ LoadUnderway(l) => configLoad'[l].raced
    BY DEF RaceAll, LoadUnderway, SettingsLoad
<1> QED BY <1>3, <1>4, <1>5


\* What a new update finds and what it makes of the others.
Opened(u, kind, patch) ==
    /\ update[u].step = "idle" /\ update'[u].step = "sent"
    /\ update'[u].patch = patch /\ update'[u].left = {} /\ update'[u].kind = kind
    /\ update'[u].prev = systemSettings /\ update'[u].here /\ update'[u].raced = Busy
    /\ \A v \in Updates \ {u} :
         /\ update'[v].step = update[v].step /\ update'[v].patch = update[v].patch
         /\ update'[v].left = update[v].left /\ update'[v].kind = update[v].kind
         /\ update'[v].prev = update[v].prev /\ update'[v].here = update[v].here
         /\ update'[v].beside = update[v].beside
         /\ Underway(v) => update'[v].raced

LEMMA UpdateSettingsType ==
    ASSUME Typed, NEW kind \in {"save", "apply"}, NEW patch \in Patches, UpdateSettings(kind, patch)
    PROVE  /\ update' \in [Updates -> UpdateRequest] /\ configLoad' \in [ConfigLoads -> SettingsLoad]
           /\ \E u \in Updates : Opened(u, kind, patch)
           /\ \A l \in ConfigLoads : /\ configLoad'[l].step = configLoad[l].step
                                     /\ LoadUnderway(l) => configLoad'[l].raced
<1> USE DEF Typed
<1>1. PICK u \in Updates : u = Slot(update) /\ update[u].step = "idle"
    BY SlotIsFree DEF UpdateSettings
<1>2. PICK b \in BOOLEAN : b = Busy
    BY DEF Busy
<1>3. PICK new : new = [NoUpdate EXCEPT !.step = "sent", !.patch = patch, !.kind = kind, !.prev = systemSettings,
                                        !.here = TRUE, !.raced = b]
    OBVIOUS
<1>4. new = [step |-> "sent", patch |-> patch, left |-> {}, kind |-> kind, prev |-> systemSettings,
             here |-> TRUE, raced |-> b, beside |-> FALSE]
    BY <1>3 DEF NoUpdate
<1>5. new \in UpdateRequest /\ new.step = "sent" /\ new.patch = patch /\ new.left = {} /\ new.kind = kind
      /\ new.prev = systemSettings /\ new.here /\ new.raced = b
    BY <1>4 DEF UpdateRequest
<1>6. update' = [v \in Updates |-> IF v = u THEN new
                                   ELSE IF Underway(v) THEN [update[v] EXCEPT !.raced = TRUE] ELSE update[v]]
    BY <1>1, <1>2, <1>3 DEF UpdateSettings
<1>7. update' \in [Updates -> UpdateRequest]
    <2>1. ASSUME NEW v \in Updates
          PROVE  update'[v] \in UpdateRequest
        <3>1. PICK k \in UpdateRequest : k = update[v]
            OBVIOUS
        <3>2. [k EXCEPT !.raced = TRUE] \in UpdateRequest
            BY DEF UpdateRequest
        <3>3. update'[v] = IF v = u THEN new ELSE IF Underway(v) THEN [k EXCEPT !.raced = TRUE] ELSE k
            BY <1>6, <3>1
        <3> QED BY <1>5, <3>2, <3>3
    <2> QED BY <1>6, <2>1
<1>8. \A v \in Updates \ {u} :
         /\ update'[v].step = update[v].step /\ update'[v].patch = update[v].patch
         /\ update'[v].left = update[v].left /\ update'[v].kind = update[v].kind
         /\ update'[v].prev = update[v].prev /\ update'[v].here = update[v].here
         /\ update'[v].beside = update[v].beside
         /\ Underway(v) => update'[v].raced
    BY <1>6 DEF UpdateRequest
<1>9. update'[u] = new
    BY <1>6
<1>10. Opened(u, kind, patch)
    BY <1>1, <1>2, <1>5, <1>8, <1>9 DEF Opened
<1>11. /\ configLoad' \in [ConfigLoads -> SettingsLoad]
       /\ \A l \in ConfigLoads : /\ configLoad'[l].step = configLoad[l].step
                                 /\ LoadUnderway(l) => configLoad'[l].raced
    BY DEF UpdateSettings, LoadUnderway, SettingsLoad
<1> HIDE DEF Typed
<1> QED BY <1>7, <1>10, <1>11

\* What the validation of an update makes of it and of those being written.
Validated(u) ==
    /\ update[u].step = "sent"
    /\ update'[u].patch = update[u].patch /\ update'[u].kind = update[u].kind /\ update'[u].prev = update[u].prev
    /\ update'[u].here = update[u].here /\ update'[u].raced = update[u].raced
    /\ \/ /\ Accepts(update[u].patch) /\ update'[u].step = "writing" /\ update'[u].left = DOMAIN update[u].patch
          /\ (\E v \in Updates \ {u} : Writing(v)) => update'[u].beside
       \/ update'[u].step = "refused"
    /\ \A v \in Updates \ {u} :
         /\ update'[v].step = update[v].step /\ update'[v].patch = update[v].patch
         /\ update'[v].left = update[v].left /\ update'[v].kind = update[v].kind
         /\ update'[v].prev = update[v].prev /\ update'[v].here = update[v].here
         /\ update'[v].raced = update[v].raced
         /\ update[v].beside => update'[v].beside
         /\ Writing(v) /\ update'[u].step = "writing" => update'[v].beside

LEMMA ValidateType ==
    ASSUME Typed, NEW u \in Updates, Validate(u)
    PROVE  update' \in [Updates -> UpdateRequest] /\ Validated(u)
<1> USE DEF Typed
<1>1. PICK b \in BOOLEAN : b = \E v \in Updates \ {u} : Writing(v)
    OBVIOUS
<1>2. PICK k \in UpdateRequest : k = update[u]
    OBVIOUS
<1>3. k.step = "sent" /\ DOMAIN k.patch \in SUBSET Keys
    BY <1>2, PatchesAre DEF Validate, UpdateRequest
<1>4. \A v \in Updates :
          update'[v] = IF v = u /\ Accepts(k.patch)
                       THEN [k EXCEPT !.step = "writing", !.left = DOMAIN k.patch, !.beside = b]
                       ELSE IF v = u THEN [k EXCEPT !.step = "refused"]
                       ELSE IF Writing(v) THEN [update[v] EXCEPT !.beside = TRUE] ELSE update[v]
    BY <1>1, <1>2 DEF Validate
<1>5. ASSUME NEW v \in Updates \ {u}
      PROVE  /\ update'[v] \in UpdateRequest
             /\ update'[v].step = update[v].step /\ update'[v].patch = update[v].patch
             /\ update'[v].left = update[v].left /\ update'[v].kind = update[v].kind
             /\ update'[v].prev = update[v].prev /\ update'[v].here = update[v].here
             /\ update'[v].raced = update[v].raced
             /\ update[v].beside => update'[v].beside
             /\ Writing(v) => update'[v].beside
    <2>1. CASE Writing(v)
        <3>1. PICK m \in UpdateRequest : m = update[v]
            OBVIOUS
        <3>2. update'[v] = [m EXCEPT !.beside = TRUE]
            BY <1>4, <2>1, <3>1
        <3> QED BY <3>1, <3>2 DEF UpdateRequest
    <2>2. CASE ~Writing(v)
        <3>1. update'[v] = update[v] /\ update[v] \in UpdateRequest
            BY <1>4, <2>2
        <3> QED BY <2>2, <3>1
    <2> QED BY <2>1, <2>2
<1>6. CASE Accepts(k.patch)
    <2>1. /\ update'[u] \in UpdateRequest /\ update'[u].step = "writing" /\ update'[u].left = DOMAIN k.patch
          /\ update'[u].patch = k.patch /\ update'[u].kind = k.kind /\ update'[u].prev = k.prev
          /\ update'[u].here = k.here /\ update'[u].raced = k.raced /\ update'[u].beside = b
        <3>1. PICK new : new = update'[u]
            OBVIOUS
        <3>2. new = [k EXCEPT !.step = "writing", !.left = DOMAIN k.patch, !.beside = b]
            BY <1>4, <1>6, <3>1
        <3>3. new = [step |-> "writing", patch |-> k.patch, left |-> DOMAIN k.patch, kind |-> k.kind, prev |-> k.prev,
                     here |-> k.here, raced |-> k.raced, beside |-> b]
            BY <3>2 DEF UpdateRequest
        <3>4. new \in UpdateRequest
            BY <1>3, <3>3 DEF UpdateRequest
        <3> QED BY <3>1, <3>3, <3>4
    <2>2. update' \in [Updates -> UpdateRequest]
        BY <1>5, <2>1 DEF Validate
    <2> QED BY <1>1, <1>2, <1>3, <1>6, <1>5, <2>1, <2>2 DEF Validated
<1>7. CASE ~Accepts(k.patch)
    <2>1. /\ update'[u] \in UpdateRequest /\ update'[u].step = "refused"
          /\ update'[u].patch = k.patch /\ update'[u].kind = k.kind /\ update'[u].prev = k.prev
          /\ update'[u].here = k.here /\ update'[u].raced = k.raced
        <3>1. PICK new : new = update'[u]
            OBVIOUS
        <3>2. new = [k EXCEPT !.step = "refused"]
            BY <1>4, <1>7, <3>1
        <3>3. new = [step |-> "refused", patch |-> k.patch, left |-> k.left, kind |-> k.kind, prev |-> k.prev,
                     here |-> k.here, raced |-> k.raced, beside |-> k.beside]
            BY <3>2 DEF UpdateRequest
        <3>4. new \in UpdateRequest
            BY <3>3 DEF UpdateRequest
        <3> QED BY <3>1, <3>3, <3>4
    <2>2. update' \in [Updates -> UpdateRequest]
        BY <1>5, <2>1 DEF Validate
    <2> QED BY <1>2, <1>3, <1>5, <2>1, <2>2 DEF Validated
<1> QED BY <1>6, <1>7

-----------------------------------------------------------------------------
(* Types.                                                                  *)

\* What an answer, a refusal or a failure makes of the updates.
LEMMA OverType ==
    ASSUME Typed, NEW u \in Updates, Over(u)
    PROVE  /\ update' \in [Updates -> UpdateRequest] /\ saving' \in BOOLEAN
           /\ update'[u].step = "idle"
           /\ \A v \in Updates \ {u} : update'[v] = update[v]
BY BlanksType DEF Typed, Over, NoUpdate

LEMMA RollBackType ==
    ASSUME Typed, NEW u \in Updates, RollBack(u)
    PROVE  formData' \in SystemSettings /\ dirty' \in BOOLEAN
BY DEF Typed, RollBack, UpdateRequest

LEMMA TypedStep ==
    ASSUME Typed, \A u \in Updates : Written(u), SettingsNext
    PROVE  Typed'
<1> USE DEF Typed
<1>1. ASSUME NEW l \in ConfigLoads, ReadSettings(l) PROVE Typed'
    BY <1>1 DEF ReadSettings, settingsHistory, SettingsLoad
<1>2. ASSUME NEW l \in ConfigLoads, SettingsAnswer(l) PROVE Typed'
    BY <1>2, BlanksType DEF SettingsAnswer, SettingsLoad
<1>3. ASSUME NEW l \in ConfigLoads, SettingsFail(l) PROVE Typed'
    BY <1>3, BlanksType DEF SettingsFail, settingsHistory
<1>4. ASSUME NEW ask \in BOOLEAN, ChangeField("confirmBeforeDelete", ask) PROVE Typed'
    <2>1. [formData EXCEPT !["confirmBeforeDelete"] = ask] \in SystemSettings
        BY PutKey DEF Keys, Number
    <2> QED BY <1>4, <2>1 DEF ChangeField
<1>5. ASSUME NEW n \in {1, 51}, ChangeField(Number, n) PROVE Typed'
    <2>1. [formData EXCEPT ![Number] = n] \in SystemSettings
        BY PutKey DEF Keys, Number, Numbers
    <2> QED BY <1>5, <2>1 DEF ChangeField
<1>6. ASSUME HandleReset PROVE Typed'
    BY <1>6, DefaultsType DEF HandleReset
<1>7. ASSUME HandleSave PROVE Typed'
    <2>1. UpdateSettings("save", formData) /\ formData \in Patches
        BY <1>7, DefaultsType DEF HandleSave
    <2> QED BY <1>7, <2>1, UpdateSettingsType DEF HandleSave, settingsHistory
<1>8. ASSUME NEW theme \in Themes, ApplyImmediate(theme) PROVE Typed'
    <2>1. UpdateSettings("apply", [k \in {"theme"} |-> theme]) /\ [k \in {"theme"} |-> theme] \in Patches
        BY <1>8 DEF ApplyImmediate, Patches
    <2>2. [formData EXCEPT !["theme"] = theme] \in SystemSettings
        BY PutKey DEF Keys, Number
    <2> QED BY <1>8, <2>1, <2>2, UpdateSettingsType DEF ApplyImmediate, settingsHistory
<1>9. ASSUME NEW u \in Updates, Validate(u) PROVE Typed'
    BY <1>9, ValidateType DEF Validate, settingsHistory
<1>10. ASSUME NEW u \in Updates, NEW key \in DOMAIN DefaultSettings, WriteRow(u, key)
       PROVE  Typed'
    <2>1. key \in Keys /\ key \in DOMAIN update[u].patch /\ update[u].patch \in Patches
        BY <1>10 DEF WriteRow, Written, Writing, UpdateRequest, DefaultSettings, Keys
    <2>2. configRows' \in SystemSettings
        <3>1. PICK p \in Patches : p = update[u].patch
            BY <2>1
        <3>2. /\ key = "theme" => p[key] \in Themes
              /\ key = "confirmBeforeDelete" => p[key] \in BOOLEAN
              /\ key = Number => p[key] \in Numbers
            BY <2>1, <3>1, PatchesAre
        <3>3. [configRows EXCEPT ![key] = p[key]] \in SystemSettings
            BY <2>1, <3>2, PutKey
        <3> QED BY <1>10, <3>1, <3>3 DEF WriteRow
    <2>3. update' \in [Updates -> UpdateRequest]
        BY <1>10 DEF WriteRow, UpdateRequest
    <2>4. reader' \in [step : {"idle", "read"}, value : Numbers \cup {0}, old : BOOLEAN]
          /\ reader'.step = reader.step /\ reader'.value = reader.value
        BY <1>10 DEF WriteRow
    <2> QED BY <1>10, <2>2, <2>3, <2>4 DEF WriteRow, settingsHistory
<1>11. ASSUME NEW u \in Updates, CacheRows(u) PROVE Typed'
    <2>1. update' \in [Updates -> UpdateRequest]
        BY <1>11 DEF CacheRows, UpdateRequest
    <2>2. cached' \in Numbers \cup {None} /\ crossed' \in BOOLEAN
        BY <1>11, PatchesAre DEF CacheRows, UpdateRequest, Number
    <2> QED BY <1>11, <2>1, <2>2 DEF CacheRows
<1>12. ASSUME GetInt PROVE Typed'
    BY <1>12, SettingsAre DEF GetInt, settingsHistory, NoReader
<1>13. ASSUME FillCache PROVE Typed'
    BY <1>13, BlanksType DEF FillCache, NoReader
<1>14. ASSUME NEW u \in Updates, UpdateAnswer(u) PROVE Typed'
    <2>1. Over(u) /\ UNCHANGED <<configRows, cached, reader, configLoad, crossed>>
        BY <1>14 DEF UpdateAnswer
    <2>2. /\ systemSettings' \in SystemSettings /\ formData' \in SystemSettings
          /\ mixed' \in BOOLEAN /\ dirty' \in BOOLEAN
        <3>1. CASE systemSettings' = Override(systemSettings, update[u].patch) /\ formData' = systemSettings'
                   /\ mixed' = (mixed \/ update[u].raced) /\ dirty' = FALSE
            BY <3>1, OverrideIs DEF UpdateRequest
        <3>2. CASE RollBack(u) /\ UNCHANGED <<systemSettings, mixed>>
            BY <3>2, RollBackType
        <3> QED BY <1>14, <3>1, <3>2 DEF UpdateAnswer
    <2> QED BY <2>1, <2>2, OverType
<1>15. ASSUME NEW u \in Updates, UpdateFails(u) PROVE Typed'
    BY <1>15, OverType, RollBackType DEF UpdateFails
<1>16. ASSUME NEW key \in Keys, NEW value, <<key, value>> \in {<<Number, 1>>, <<"theme", "light">>},
              OthersUpdate(key, value)
       PROVE  Typed'
    <2>1. configRows' \in SystemSettings
        BY <1>16, PutKey DEF OthersUpdate, Keys, Number, Numbers, Themes
    <2>2. /\ cached' \in Numbers \cup {None} /\ crossed' \in BOOLEAN
          /\ reader' \in [step : {"idle", "read"}, value : Numbers \cup {0}, old : BOOLEAN]
          /\ reader'.step = reader.step /\ reader'.value = reader.value
        <3>1. CASE key = Number
            <4>1. /\ value = 1 /\ cached' = value /\ reader' = [reader EXCEPT !.old = reader.step = "read"]
                  /\ crossed' = \E u \in Updates : Writing(u)
                BY <1>16, <3>1 DEF OthersUpdate, Number
            <4>2. cached' \in Numbers /\ crossed' \in BOOLEAN
                BY <4>1 DEF Numbers
            <4>3. PICK b \in BOOLEAN : b = (reader.step = "read")
                OBVIOUS
            <4>4. reader' = [step |-> reader.step, value |-> reader.value, old |-> b]
                BY <4>1, <4>3
            <4> QED BY <4>2, <4>3, <4>4
        <3>2. CASE key # Number
            <4>1. UNCHANGED <<cached, reader, crossed>>
                BY <1>16, <3>2 DEF OthersUpdate, Number
            <4> QED BY <4>1
        <3> QED BY <3>1, <3>2
    <2>3. RaceAll /\ mixed' = TRUE /\ UNCHANGED <<systemSettings, formData, saving, dirty>>
        BY <1>16, Zenon DEF OthersUpdate
    <2>4. update' \in [Updates -> UpdateRequest] /\ configLoad' \in [ConfigLoads -> SettingsLoad]
        BY <2>3, RaceAllType
    <2>5. mixed' \in BOOLEAN
        BY <2>3
    <2>6. systemSettings' \in SystemSettings /\ formData' \in SystemSettings /\ saving' \in BOOLEAN /\ dirty' \in BOOLEAN
        BY <2>3
    <2>7. reader'.step = "read" => reader'.value \in Numbers
        BY <2>2
    <2> QED BY <2>1, <2>2, <2>4, <2>5, <2>6, <2>7
<1>17. CASE SettingsUser
    BY <1>4, <1>5, <1>6, <1>7, <1>8, <1>17 DEF SettingsUser, Number
<1>18. CASE SettingsSystem
    <2> HIDE DEF Typed
    <2> QED BY <1>1, <1>2, <1>9, <1>10, <1>11, <1>13, <1>14, <1>18 DEF SettingsSystem
<1>19. CASE SettingsUpsets
    <2> HIDE DEF Typed
    <2> QED BY <1>3, <1>12, <1>15, <1>16, <1>19 DEF SettingsUpsets, Number, Keys
<1> QED BY <1>17, <1>18, <1>19 DEF SettingsNext

-----------------------------------------------------------------------------
(* What the server's steps make of an update, its rows and its cache.      *)

\* All but step, left and flags.
SameOrder(u) == /\ update'[u].patch = update[u].patch /\ update'[u].kind = update[u].kind
                /\ update'[u].prev = update[u].prev /\ update'[u].here = update[u].here
                /\ update'[u].raced = update[u].raced

Wrote(u, key) ==
    /\ key \in Keys /\ key \in DOMAIN update[u].patch /\ key \in update[u].left
    /\ update[u].step = "writing" /\ update'[u].step = "writing"
    /\ SameOrder(u) /\ update'[u].beside = update[u].beside
    /\ update'[u].left = update[u].left \ {key}
    /\ \A v \in Updates \ {u} : update'[v] = update[v]
    /\ configRows'[key] = update[u].patch[key]
    /\ \A j \in Keys \ {key} : configRows'[j] = configRows[j]
    /\ reader'.step = reader.step /\ reader'.value = reader.value
    /\ reader'.old <=> (reader.old \/ (reader.step = "read" /\ key = Number))

LEMMA WriteRowType ==
    ASSUME Typed, NEW u \in Updates, Written(u), NEW key \in DOMAIN DefaultSettings, WriteRow(u, key)
    PROVE  Wrote(u, key)
<1> USE DEF Typed
<1>1. PICK k \in UpdateRequest : k = update[u]
    OBVIOUS
<1>2. key \in Keys /\ key \in DOMAIN k.patch /\ key \in k.left /\ k.step = "writing" /\ k.patch \in Patches
    BY <1>1 DEF WriteRow, Written, Writing, UpdateRequest, DefaultSettings, Keys
<1>3. update'[u] = [k EXCEPT !.left = @ \ {key}] /\ \A v \in Updates \ {u} : update'[v] = update[v]
    BY <1>1 DEF WriteRow
<1>4. /\ update'[u].step = "writing" /\ update'[u].left = k.left \ {key} /\ update'[u].beside = k.beside
      /\ update'[u].patch = k.patch /\ update'[u].kind = k.kind /\ update'[u].prev = k.prev
      /\ update'[u].here = k.here /\ update'[u].raced = k.raced
    BY <1>2, <1>3 DEF UpdateRequest
<1>5. PICK p \in Patches : p = k.patch
    BY <1>2
<1>6. /\ key = "theme" => p[key] \in Themes
      /\ key = "confirmBeforeDelete" => p[key] \in BOOLEAN
      /\ key = Number => p[key] \in Numbers
    BY <1>2, <1>5, PatchesAre
<1>7. configRows' = [configRows EXCEPT ![key] = p[key]]
    BY <1>1, <1>5 DEF WriteRow
<1>8. configRows'[key] = p[key] /\ \A j \in Keys \ {key} : configRows'[j] = configRows[j]
    BY <1>2, <1>6, <1>7, PutKey
<1>9. /\ reader'.step = reader.step /\ reader'.value = reader.value
      /\ reader'.old <=> (reader.old \/ (reader.step = "read" /\ key = Number))
    BY DEF WriteRow, Number
<1> QED BY <1>1, <1>2, <1>3, <1>4, <1>5, <1>8, <1>9 DEF Wrote, SameOrder

CachedRows(u) ==
    /\ update[u].step = "writing" /\ update[u].left = {}
    /\ update'[u].step = "done" /\ update'[u].left = {}
    /\ SameOrder(u)
    /\ \A v \in Updates \ {u} : update'[v] = update[v]
    /\ IF Number \in DOMAIN update[u].patch
       THEN cached' = update[u].patch[Number] /\ (crossed' <=> update[u].beside)
       ELSE UNCHANGED <<cached, crossed>>

LEMMA CacheRowsType ==
    ASSUME Typed, NEW u \in Updates, CacheRows(u)
    PROVE  CachedRows(u)
<1> USE DEF Typed
<1>1. PICK k \in UpdateRequest : k = update[u]
    OBVIOUS
<1>2. k.step = "writing" /\ k.left = {}
    BY <1>1 DEF CacheRows, Writing
<1>3. update'[u] = [k EXCEPT !.step = "done"] /\ \A v \in Updates \ {u} : update'[v] = update[v]
    BY <1>1 DEF CacheRows
<1>4. /\ update'[u].step = "done" /\ update'[u].left = {}
      /\ update'[u].patch = k.patch /\ update'[u].kind = k.kind /\ update'[u].prev = k.prev
      /\ update'[u].here = k.here /\ update'[u].raced = k.raced
    BY <1>2, <1>3 DEF UpdateRequest
<1>5. IF Number \in DOMAIN update[u].patch
      THEN cached' = update[u].patch[Number] /\ (crossed' <=> update[u].beside)
      ELSE UNCHANGED <<cached, crossed>>
    BY DEF CacheRows, Number
<1> QED BY <1>1, <1>2, <1>3, <1>4, <1>5 DEF CachedRows, SameOrder

-----------------------------------------------------------------------------
(* The server.                                                             *)

\* What an update that is written has to do with the rows stays.
SameWriting(u) == \/ /\ update'[u].step = update[u].step /\ update'[u].patch = update[u].patch
                     /\ update'[u].left = update[u].left
                     /\ update[u].beside => update'[u].beside
                  \/ update[u].step # "writing" /\ update'[u].step \notin {"writing", "done"}

LEMMA ServerKept ==
    ASSUME Typed, Typed', ServerInv, \A u \in Updates : SameWriting(u),
           UNCHANGED <<configRows, cached, reader, crossed>>
    PROVE  ServerInv'
<1>1. \A u \in Updates : Writing(u)' <=> Writing(u)
    BY DEF SameWriting, Writing
<1>2. \A u \in Updates : Writing(u) => update'[u].patch = update[u].patch /\ update'[u].left = update[u].left
                                       /\ (update[u].beside => update'[u].beside)
    BY DEF SameWriting, Writing
<1>3. RowsAreValid' /\ FreshRead'
    BY DEF ServerInv, RowsAreValid, FreshRead
<1>4. \A u \in Updates : Written(u)'
    BY DEF ServerInv, SameWriting, Written, Accepts
<1>5. Beside'
    BY <1>1, <1>2 DEF ServerInv, Beside
<1>6. \A u \in Updates : OwnRow(u)'
    BY <1>1, <1>2 DEF ServerInv, OwnRow, Gone
<1>7. CacheInv'
    BY <1>1, <1>2 DEF ServerInv, CacheInv, CacheComing
<1> QED BY <1>3, <1>4, <1>5, <1>6, <1>7 DEF ServerInv

LEMMA ServerWrites ==
    ASSUME Typed, Typed', ServerInv, NEW u \in Updates, NEW key, Wrote(u, key), UNCHANGED <<cached, crossed>>
    PROVE  ServerInv'
<1> USE DEF Wrote, SameOrder
<1>1. DOMAIN configRows = Keys /\ DOMAIN configRows' = Keys
    BY SettingsAre DEF Typed
<1>2. RowsAreValid'
    BY <1>1 DEF ServerInv, RowsAreValid, Written, Accepts, Valid
<1>3. \A v \in Updates : Written(v)'
    BY DEF ServerInv, Written, Accepts
<1>4. Beside'
    BY DEF ServerInv, Beside, Writing
<1>5. ASSUME NEW v \in Updates PROVE OwnRow(v)'
    <2>1. CASE v = u
        BY <2>1 DEF ServerInv, OwnRow, Gone, Writing, Keys, Number
    <2>2. CASE v # u
        BY <2>2 DEF ServerInv, OwnRow, Beside, Gone, Writing, Keys, Number
    <2> QED BY <2>1, <2>2
<1>6. FreshRead'
    BY DEF ServerInv, FreshRead, Keys, Number
<1>7. CacheInv'
    <2>1. Writing(u)' /\ update'[u].patch = update[u].patch
        BY DEF Writing
    <2>2. CASE key = Number
        BY <2>1, <2>2 DEF CacheInv, CacheComing
    <2>3. CASE key # Number
        <3>1. configRows'[Number] = configRows[Number]
            BY <2>3 DEF Keys, Number
        <3> QED BY <3>1 DEF ServerInv, CacheInv, CacheComing, Writing
    <2> QED BY <2>2, <2>3
<1> QED BY <1>2, <1>3, <1>4, <1>5, <1>6, <1>7 DEF ServerInv

LEMMA ServerCaches ==
    ASSUME Typed, Typed', ServerInv, NEW u \in Updates, CachedRows(u), UNCHANGED <<configRows, reader>>
    PROVE  ServerInv'
<1> USE DEF CachedRows, SameOrder
<1>1. RowsAreValid' /\ FreshRead'
    BY DEF ServerInv, RowsAreValid, FreshRead
<1>2. \A v \in Updates : Written(v)'
    BY DEF ServerInv, Written, Accepts
<1>3. Beside'
    BY DEF ServerInv, Beside, Writing
<1>4. \A v \in Updates : OwnRow(v)'
    BY DEF ServerInv, OwnRow, Gone, Writing
<1>5. CacheInv'
    <2>1. CASE Number \in DOMAIN update[u].patch
        <3>1. update[u].beside \/ configRows[Number] = update[u].patch[Number]
            BY <2>1 DEF ServerInv, OwnRow, Gone, Writing
        <3> QED BY <2>1, <3>1 DEF CacheInv, CacheComing
    <2>2. CASE Number \notin DOMAIN update[u].patch
        BY <2>2 DEF ServerInv, CacheInv, CacheComing, Writing
    <2> QED BY <2>1, <2>2
<1> QED BY <1>1, <1>2, <1>3, <1>4, <1>5 DEF ServerInv

LEMMA ServerValidates ==
    ASSUME Typed, Typed', ServerInv, NEW u \in Updates, Validated(u), UNCHANGED <<configRows, cached, reader, crossed>>
    PROVE  ServerInv'
<1> USE DEF Validated
<1>1. RowsAreValid' /\ FreshRead'
    BY DEF ServerInv, RowsAreValid, FreshRead
<1>2. \A v \in Updates : Written(v)'
    BY DEF ServerInv, Written, Accepts
<1>3. Beside'
    <2>1. ASSUME NEW v \in Updates, NEW w \in Updates, v # w, Writing(v)', Writing(w)'
          PROVE  update'[v].beside
        <3>1. CASE v = u
            BY <2>1, <3>1 DEF Writing
        <3>2. CASE w = u
            BY <2>1, <3>2 DEF Writing
        <3>3. CASE v # u /\ w # u
            BY <2>1, <3>3 DEF Writing, ServerInv, Beside
        <3> QED BY <3>1, <3>2, <3>3
    <2> QED BY <2>1 DEF Beside
<1>4. ASSUME NEW v \in Updates PROVE OwnRow(v)'
    <2>1. CASE v = u
        BY <2>1 DEF OwnRow, Gone, Writing
    <2>2. CASE v # u
        BY <2>2 DEF ServerInv, OwnRow, Gone, Writing
    <2> QED BY <2>1, <2>2
<1>5. CacheInv'
    BY DEF ServerInv, CacheInv, CacheComing, Writing
<1> QED BY <1>1, <1>2, <1>3, <1>4, <1>5 DEF ServerInv

\* The updates of a step are those before it, but for one that ends or begins.
LEMMA SameWritings ==
    ASSUME Typed, NEW u \in Updates, update[u].step # "writing", update'[u].step \notin {"writing", "done"},
           \A v \in Updates \ {u} : /\ update'[v].step = update[v].step /\ update'[v].patch = update[v].patch
                                    /\ update'[v].left = update[v].left /\ update'[v].beside = update[v].beside
    PROVE  \A v \in Updates : SameWriting(v)
BY DEF SameWriting

LEMMA ServerStep ==
    ASSUME Typed, Typed', ServerInv, SettingsNext
    PROVE  ServerInv'
<1>0. \A u \in Updates : Written(u)
    BY DEF ServerInv
<1>1. ASSUME UNCHANGED <<configRows, cached, reader, crossed, update>> PROVE ServerInv'
    BY <1>1, ServerKept DEF SameWriting
<1>2. ASSUME NEW kind \in {"save", "apply"}, NEW patch \in Patches, UpdateSettings(kind, patch),
             UNCHANGED <<configRows, cached, reader, crossed>>
      PROVE  ServerInv'
    <2>1. PICK u \in Updates : Opened(u, kind, patch)
        BY <1>2, UpdateSettingsType
    <2> QED BY <1>2, <2>1, SameWritings, ServerKept DEF Opened
<1>3. ASSUME NEW u \in Updates, Over(u), update[u].step # "writing", UNCHANGED <<configRows, cached, reader, crossed>>
      PROVE  ServerInv'
    BY <1>3, OverType, SameWritings, ServerKept
<1>4. CASE SettingsUser
    <2>1. ASSUME HandleSave PROVE ServerInv'
        BY <2>1, <1>2, DefaultsType DEF Typed, HandleSave, settingsHistory
    <2>2. ASSUME NEW theme \in Themes, ApplyImmediate(theme) PROVE ServerInv'
        <3>1. [k \in {"theme"} |-> theme] \in Patches
            BY DEF Patches
        <3> QED BY <2>2, <3>1, <1>2 DEF ApplyImmediate, settingsHistory
    <2>3. ASSUME NEW key, NEW value, ChangeField(key, value) PROVE ServerInv'
        BY <2>3, <1>1 DEF ChangeField
    <2>4. ASSUME HandleReset PROVE ServerInv'
        BY <2>4, <1>1 DEF HandleReset
    <2> QED BY <1>4, <2>1, <2>2, <2>3, <2>4 DEF SettingsUser
<1>5. CASE SettingsSystem
    <2>1. ASSUME NEW l \in ConfigLoads, ReadSettings(l) \/ SettingsAnswer(l) PROVE ServerInv'
        BY <2>1, <1>1 DEF ReadSettings, SettingsAnswer, settingsHistory
    <2>2. ASSUME NEW u \in Updates, Validate(u) PROVE ServerInv'
        BY <2>2, ValidateType, ServerValidates DEF Validate, settingsHistory
    <2>3. ASSUME NEW u \in Updates, CacheRows(u) PROVE ServerInv'
        BY <2>3, CacheRowsType, ServerCaches DEF CacheRows
    <2>4. ASSUME NEW u \in Updates, UpdateAnswer(u) PROVE ServerInv'
        BY <2>4, <1>3 DEF UpdateAnswer
    <2>5. ASSUME NEW u \in Updates, NEW key \in DOMAIN DefaultSettings, WriteRow(u, key) PROVE ServerInv'
        BY <2>5, <1>0, WriteRowType, ServerWrites DEF WriteRow, settingsHistory
    <2>6. ASSUME FillCache PROVE ServerInv'
        <3>1. /\ reader.step = "read" /\ cached' = reader.value /\ (crossed' <=> (crossed \/ reader.old))
              /\ reader'.step = "idle"
              /\ UNCHANGED <<configRows, update>>
            BY <2>6 DEF FillCache, NoReader, Typed
        <3>2. FreshRead'
            BY <3>1 DEF FreshRead
        <3>3. CacheInv'
            BY <3>1 DEF ServerInv, FreshRead, CacheInv, CacheComing
        <3> QED BY <3>1, <3>2, <3>3 DEF ServerInv, RowsAreValid, Beside, OwnRow, Written, Gone, Writing, Accepts
    <2> QED BY <1>5, <2>1, <2>2, <2>3, <2>4, <2>5, <2>6 DEF SettingsSystem
<1>6. CASE SettingsUpsets
    <2>1. ASSUME NEW l \in ConfigLoads, SettingsFail(l) PROVE ServerInv'
        BY <2>1, <1>1 DEF SettingsFail, settingsHistory
    <2>2. ASSUME NEW u \in Updates, UpdateFails(u) PROVE ServerInv'
        BY <2>2, <1>3 DEF UpdateFails
    <2>3. ASSUME GetInt PROVE ServerInv'
        <3>1. /\ reader'.value = configRows[Number]
              /\ UNCHANGED <<configRows, update, cached, crossed>>
            BY <2>3, SettingsAre DEF GetInt, NoReader, Typed, settingsHistory
        <3>2. FreshRead'
            BY <3>1 DEF FreshRead
        <3> QED BY <3>1, <3>2 DEF ServerInv, RowsAreValid, Beside, OwnRow, Written, Gone, Writing, Accepts, CacheInv, CacheComing
    <2>4. ASSUME NEW key \in Keys, NEW value, <<key, value>> \in {<<Number, 1>>, <<"theme", "light">>},
                 OthersUpdate(key, value)
          PROVE  ServerInv'
        <3>1. /\ configRows'[key] = value /\ \A j \in Keys \ {key} : configRows'[j] = configRows[j]
              /\ DOMAIN configRows = Keys /\ DOMAIN configRows' = Keys
            BY <2>4, SettingsAre DEF OthersUpdate, Typed
        <3>2. RowsAreValid'
            BY <2>4, <3>1 DEF ServerInv, RowsAreValid, OthersUpdate, Valid
        <3>3. \A u \in Updates :
                /\ update'[u].step = update[u].step /\ update'[u].patch = update[u].patch
                /\ update'[u].left = update[u].left
                /\ Writing(u) => update'[u].beside
            BY <2>4, RaceAllType DEF OthersUpdate
        <3>4. \A u \in Updates : Written(u)'
            BY <3>3, <1>0 DEF Written, Accepts
        <3>5. Beside' /\ \A u \in Updates : OwnRow(u)'
            BY <3>3 DEF Beside, OwnRow, Writing
        <3>6. CASE key = Number
            <4>1. cached' = configRows'[Number] /\ (reader'.step = "read" => reader'.old)
                BY <2>4, <3>1, <3>6 DEF OthersUpdate, Typed, Number
            <4>2. FreshRead' /\ CacheInv'
                BY <4>1 DEF FreshRead, CacheInv, CacheComing
            <4> QED BY <3>2, <3>4, <3>5, <4>2 DEF ServerInv
        <3>7. CASE key # Number
            <4>1. configRows'[Number] = configRows[Number] /\ UNCHANGED <<cached, reader, crossed>>
                BY <2>4, <3>1, <3>7 DEF OthersUpdate, Keys, Number
            <4>2. FreshRead' /\ CacheInv'
                BY <4>1, <3>3 DEF ServerInv, FreshRead, CacheInv, CacheComing, Writing
            <4> QED BY <3>2, <3>4, <3>5, <4>2 DEF ServerInv
        <3> QED BY <3>6, <3>7
    <2> QED BY <1>6, <2>1, <2>2, <2>3, <2>4 DEF SettingsUpsets, Number, Keys
<1> QED BY <1>4, <1>5, <1>6 DEF SettingsNext

-----------------------------------------------------------------------------
(* The store.                                                              *)

SameRequest(u) == /\ update'[u].step = update[u].step /\ update'[u].patch = update[u].patch
                  /\ update'[u].left = update[u].left /\ update'[u].raced = update[u].raced

LEMMA StoreKept ==
    ASSUME StoreInv, \A u \in Updates : SameRequest(u),
           UNCHANGED <<systemSettings, configRows, configLoad, mixed>>
    PROVE  StoreInv'
<1>1. Raced' /\ (SomeWrites' <=> SomeWrites)
    BY DEF StoreInv, Raced, SomeWrites, SameRequest, Underway
<1>2. \A l \in ConfigLoads : LoneLoad(l)'
    BY DEF StoreInv, LoneLoad, SameRequest, Underway, LoadUnderway
<1>3. mixed' \/ \A u \in Updates : LoneUpdate(u)'
    BY DEF StoreInv, LoneUpdate, SameRequest, Partly, Gone, Underway
<1> QED BY <1>1, <1>2, <1>3 DEF StoreInv

\* A load is read, or ends: the updates stay.
LEMMA StoreLoads ==
    ASSUME Typed, Typed', StoreInv, NEW l \in ConfigLoads, ReadSettings(l) \/ SettingsAnswer(l) \/ SettingsFail(l)
    PROVE  StoreInv'
<1>0. UNCHANGED <<configRows, update>> /\ \A m \in ConfigLoads \ {l} : configLoad'[m] = configLoad[m]
    BY DEF Typed, ReadSettings, SettingsAnswer, SettingsFail
<1>1. Raced' /\ (SomeWrites' <=> SomeWrites)
    BY <1>0 DEF StoreInv, Raced, SomeWrites, Underway
<1>2. CASE ReadSettings(l)
    <2>1. PICK k \in SettingsLoad : k = configLoad[l]
        BY DEF Typed
    <2>2. k.step = "sent" /\ configLoad'[l] = [k EXCEPT !.step = "answer", !.rows = configRows]
        BY <1>2, <2>1 DEF ReadSettings, Typed
    <2>3. configLoad'[l].step = "answer" /\ configLoad'[l].rows = configRows /\ configLoad'[l].raced = k.raced
        BY <2>2 DEF SettingsLoad
    <2>4. \A m \in ConfigLoads : LoneLoad(m)'
        <3>1. LoneLoad(l)'
            <4>1. k.raced \/ \A u \in Updates : ~Underway(u)
                BY <2>1, <2>2 DEF StoreInv, LoneLoad, LoadUnderway
            <4>2. \A u \in Updates : Underway(u)' <=> Underway(u)
                BY <1>0 DEF Underway
            <4> QED BY <1>0, <2>3, <4>1, <4>2 DEF LoneLoad
        <3>2. \A m \in ConfigLoads \ {l} : LoneLoad(m)'
            BY <1>0 DEF StoreInv, LoneLoad, Underway, LoadUnderway
        <3> QED BY <3>1, <3>2
    <2>5. UNCHANGED <<systemSettings, mixed>>
        BY <1>2 DEF ReadSettings, settingsHistory
    <2> QED BY <1>0, <1>1, <2>4, <2>5 DEF StoreInv, LoneUpdate, Partly, Gone, Underway
<1>3. CASE SettingsAnswer(l) \/ SettingsFail(l)
    <2>1. configLoad'[l].step = "idle"
        BY <1>3 DEF SettingsAnswer, SettingsFail, NoConfigLoad, Typed
    <2>2. \A m \in ConfigLoads : LoneLoad(m)'
        BY <1>0, <2>1 DEF StoreInv, LoneLoad, Underway, LoadUnderway
    <2>3. CASE SettingsFail(l)
        <3>1. UNCHANGED <<systemSettings, mixed>>
            BY <2>3 DEF SettingsFail, settingsHistory
        <3> QED BY <1>0, <1>1, <2>2, <3>1 DEF StoreInv, LoneUpdate, Partly, Gone, Underway
    <2>4. CASE SettingsAnswer(l)
        <3>1. mixed' \/ (systemSettings' = configRows' /\ \A u \in Updates : ~Underway(u)')
            BY <1>0, <2>4 DEF StoreInv, LoneLoad, SettingsAnswer, Underway, LoadUnderway, Typed
        <3> QED BY <1>1, <2>2, <3>1 DEF StoreInv, LoneUpdate
    <2> QED BY <1>3, <2>3, <2>4
<1> QED BY <1>2, <1>3

LEMMA StoreOpens ==
    ASSUME Typed, Typed', StoreInv, NEW kind \in {"save", "apply"}, NEW patch \in Patches, UpdateSettings(kind, patch),
           UNCHANGED <<systemSettings, configRows, mixed>>
    PROVE  StoreInv'
<1>1. PICK u \in Updates : Opened(u, kind, patch)
    BY UpdateSettingsType
<1>2. \A l \in ConfigLoads : /\ configLoad'[l].step = configLoad[l].step
                             /\ LoadUnderway(l) => configLoad'[l].raced
    BY UpdateSettingsType
<1>3. ~update'[u].raced => (\A v \in Updates : ~Underway(v)) /\ \A l \in ConfigLoads : ~LoadUnderway(l)
    BY <1>1 DEF Opened, Busy, LoadUnderway
<1>4. Raced'
    <2>1. ASSUME NEW v \in Updates, NEW w \in Updates, v # w, Underway(v)', Underway(w)'
          PROVE  update'[v].raced
        <3>1. CASE v = u
            BY <1>1, <1>3, <2>1, <3>1 DEF Opened, Underway
        <3>2. CASE v # u
            BY <1>1, <2>1, <3>2 DEF Opened, Underway
        <3> QED BY <3>1, <3>2
    <2> QED BY <2>1 DEF Raced
<1>5. \A l \in ConfigLoads : LoneLoad(l)'
    BY <1>2 DEF LoneLoad, LoadUnderway
<1>6. SomeWrites => SomeWrites'
    BY <1>1 DEF SomeWrites, Opened
<1>7. ASSUME ~mixed, NEW v \in Updates PROVE LoneUpdate(v)'
    <2>1. CASE v = u
        <3>1. ~update'[u].raced => systemSettings = configRows
            BY <1>3, <1>7 DEF StoreInv, SomeWrites, Underway
        <3> QED BY <1>1, <2>1, <3>1 DEF LoneUpdate, Opened
    <2>2. CASE v # u
        BY <1>1, <2>2 DEF LoneUpdate, Opened, Underway
    <2> QED BY <2>1, <2>2
<1> QED BY <1>4, <1>5, <1>6, <1>7 DEF StoreInv

LEMMA StoreValidates ==
    ASSUME Typed, Typed', StoreInv, NEW u \in Updates, Validated(u),
           UNCHANGED <<systemSettings, configRows, configLoad, mixed>>
    PROVE  StoreInv'
<1> USE DEF Validated
<1>1. \A v \in Updates : (Underway(v)' <=> Underway(v)) /\ update'[v].raced = update[v].raced
    BY DEF Underway
<1>2. Raced' /\ \A l \in ConfigLoads : LoneLoad(l)'
    BY <1>1 DEF StoreInv, Raced, LoneLoad, LoadUnderway
<1>3. SomeWrites => SomeWrites'
    BY DEF SomeWrites
<1>4. ASSUME ~mixed, NEW v \in Updates PROVE LoneUpdate(v)'
    <2>1. CASE v = u
        <3>1. Underway(u) /\ (~update'[u].raced => systemSettings = configRows)
            BY <1>1, <1>4 DEF StoreInv, LoneUpdate, Underway
        <3>2. update'[u].step = "writing" => Gone(u)' = {}
            BY DEF Gone
        <3> QED BY <2>1, <3>1, <3>2 DEF LoneUpdate, Partly
    <2>2. CASE v # u
        BY <1>4, <2>2 DEF StoreInv, LoneUpdate, Partly, Gone, Underway
    <2> QED BY <2>1, <2>2
<1> QED BY <1>2, <1>3, <1>4 DEF StoreInv

LEMMA StoreWrites ==
    ASSUME Typed, Typed', StoreInv, NEW u \in Updates, NEW key, Wrote(u, key),
           UNCHANGED <<systemSettings, configLoad, mixed>>
    PROVE  StoreInv'
<1> USE DEF Wrote, SameOrder
<1>1. Raced' /\ SomeWrites'
    BY DEF StoreInv, Raced, SomeWrites, Underway
<1>2. \A l \in ConfigLoads : LoneLoad(l)'
    BY DEF StoreInv, LoneLoad, LoadUnderway, Underway
<1>3. ASSUME ~mixed, NEW v \in Updates PROVE LoneUpdate(v)'
    <2>1. CASE v = u
        <3>1. Gone(u)' = Gone(u) \cup {key}
            BY DEF Gone
        <3> QED BY <1>3, <2>1, <3>1 DEF StoreInv, LoneUpdate, Partly, Underway
    <2>2. CASE v # u
        BY <2>2 DEF StoreInv, LoneUpdate, Raced, Underway
    <2> QED BY <2>1, <2>2
<1> QED BY <1>1, <1>2, <1>3 DEF StoreInv

LEMMA StoreCaches ==
    ASSUME Typed, Typed', StoreInv, NEW u \in Updates, CachedRows(u),
           UNCHANGED <<systemSettings, configRows, configLoad, mixed>>
    PROVE  StoreInv'
<1> USE DEF CachedRows, SameOrder
<1>1. Raced' /\ SomeWrites'
    BY DEF StoreInv, Raced, SomeWrites, Underway
<1>2. \A l \in ConfigLoads : LoneLoad(l)'
    BY DEF StoreInv, LoneLoad, LoadUnderway, Underway
<1>3. \A v \in Updates : LoneUpdate(v) => LoneUpdate(v)'
    BY DEF LoneUpdate, Partly, Gone, Underway
<1> QED BY <1>1, <1>2, <1>3 DEF StoreInv

\* An update ends: the store has what it has written, or is known to differ.
LEMMA StoreCloses ==
    ASSUME Typed, Typed', ServerInv, StoreInv, NEW u \in Updates, Over(u),
           UNCHANGED <<configRows, configLoad>>,
           \/ /\ update[u].step = "done" /\ systemSettings' = Override(systemSettings, update[u].patch)
              /\ mixed' = (mixed \/ update[u].raced)
           \/ update[u].step = "refused" /\ UNCHANGED <<systemSettings, mixed>>
           \/ /\ update[u].step \in {"sent", "done"}
              /\ UNCHANGED systemSettings /\ mixed' = (mixed \/ update[u].step = "done")
    PROVE  StoreInv'
<1>1. update'[u].step = "idle" /\ \A v \in Updates \ {u} : update'[v] = update[v]
    BY OverType
<1>2. Raced' /\ \A l \in ConfigLoads : LoneLoad(l)'
    BY <1>1 DEF StoreInv, Raced, LoneLoad, Underway, LoadUnderway
<1>3. mixed => mixed'
    OBVIOUS
<1>4. ASSUME ~mixed', NEW v \in Updates PROVE LoneUpdate(v)'
    BY <1>1, <1>4 DEF StoreInv, LoneUpdate, Raced, Underway, Partly, Gone
<1>5. mixed' \/ systemSettings' = configRows' \/ SomeWrites'
    <2>1. CASE update[u].step = "done" /\ systemSettings' = Override(systemSettings, update[u].patch)
               /\ mixed' = (mixed \/ update[u].raced)
        <3> SUFFICES ASSUME ~mixed' PROVE systemSettings' = configRows
            OBVIOUS
        <3>1. Partly(u) /\ update[u].left = {}
            BY <2>1 DEF StoreInv, ServerInv, LoneUpdate, Written, Underway
        <3>2. PICK p \in Patches : p = update[u].patch
            BY DEF Typed, UpdateRequest
        <3>3. \A k \in Keys : systemSettings'[k] = IF k \in DOMAIN p THEN p[k] ELSE systemSettings[k]
            BY <2>1, <3>2, OverrideIs DEF Typed
        <3>4. \A k \in Keys : systemSettings'[k] = configRows[k]
            BY <3>1, <3>2, <3>3 DEF Partly, Gone
        <3> QED BY <3>4, SameSettings DEF Typed
    <2>2. CASE update[u].step \notin {"writing", "done"} /\ UNCHANGED systemSettings
        BY <1>1, <1>3, <2>2 DEF StoreInv, SomeWrites
    <2> QED BY <2>1, <2>2
<1> QED BY <1>2, <1>4, <1>5 DEF StoreInv

LEMMA StoreStep ==
    ASSUME Typed, Typed', ServerInv, StoreInv, SettingsNext
    PROVE  StoreInv'
<1>0. \A u \in Updates : Written(u)
    BY DEF ServerInv
<1>1. ASSUME UNCHANGED <<systemSettings, configRows, configLoad, mixed, update>> PROVE StoreInv'
    BY <1>1, StoreKept DEF SameRequest
<1>2. CASE SettingsUser
    <2>1. ASSUME HandleSave PROVE StoreInv'
        BY <2>1, StoreOpens, DefaultsType DEF Typed, HandleSave, settingsHistory
    <2>2. ASSUME NEW theme \in Themes, ApplyImmediate(theme) PROVE StoreInv'
        <3>1. [k \in {"theme"} |-> theme] \in Patches
            BY DEF Patches
        <3> QED BY <2>2, <3>1, StoreOpens DEF ApplyImmediate, settingsHistory
    <2>3. ASSUME NEW key, NEW value, ChangeField(key, value) PROVE StoreInv'
        BY <2>3, <1>1 DEF ChangeField
    <2>4. ASSUME HandleReset PROVE StoreInv'
        BY <2>4, <1>1 DEF HandleReset
    <2> QED BY <1>2, <2>1, <2>2, <2>3, <2>4 DEF SettingsUser
<1>3. CASE SettingsSystem
    <2>1. ASSUME NEW l \in ConfigLoads, ReadSettings(l) \/ SettingsAnswer(l) PROVE StoreInv'
        BY <2>1, StoreLoads
    <2>2. ASSUME NEW u \in Updates, Validate(u) PROVE StoreInv'
        BY <2>2, ValidateType, StoreValidates DEF Validate, settingsHistory
    <2>3. ASSUME NEW u \in Updates, CacheRows(u) PROVE StoreInv'
        BY <2>3, CacheRowsType, StoreCaches DEF CacheRows
    <2>4. ASSUME NEW u \in Updates, UpdateAnswer(u) PROVE StoreInv'
        BY <2>4, StoreCloses DEF UpdateAnswer
    <2>5. ASSUME NEW u \in Updates, NEW key \in DOMAIN DefaultSettings, WriteRow(u, key) PROVE StoreInv'
        BY <2>5, <1>0, WriteRowType, StoreWrites DEF WriteRow, settingsHistory
    <2>6. ASSUME FillCache PROVE StoreInv'
        BY <2>6, <1>1 DEF FillCache
    <2> QED BY <1>3, <2>1, <2>2, <2>3, <2>4, <2>5, <2>6 DEF SettingsSystem
<1>4. CASE SettingsUpsets
    <2>1. ASSUME NEW l \in ConfigLoads, SettingsFail(l) PROVE StoreInv'
        BY <2>1, StoreLoads
    <2>2. ASSUME NEW u \in Updates, UpdateFails(u) PROVE StoreInv'
        BY <2>2, StoreCloses DEF UpdateFails
    <2>3. ASSUME GetInt PROVE StoreInv'
        BY <2>3, <1>1 DEF GetInt, settingsHistory
    <2>4. ASSUME NEW key, NEW value, OthersUpdate(key, value) PROVE StoreInv'
        <3>1. RaceAll /\ mixed'
            BY <2>4 DEF OthersUpdate
        <3>2. /\ \A u \in Updates : update'[u].step = update[u].step /\ (Underway(u) => update'[u].raced)
              /\ \A l \in ConfigLoads : configLoad'[l].step = configLoad[l].step
                                        /\ (LoadUnderway(l) => configLoad'[l].raced)
            BY <3>1, RaceAllType
        <3>3. Raced' /\ \A l \in ConfigLoads : LoneLoad(l)'
            BY <3>2 DEF Raced, LoneLoad, Underway, LoadUnderway
        <3> QED BY <3>1, <3>3 DEF StoreInv
    <2> QED BY <1>4, <2>1, <2>2, <2>3, <2>4 DEF SettingsUpsets
<1> QED BY <1>2, <1>3, <1>4 DEF SettingsNext

-----------------------------------------------------------------------------
(* The form.                                                               *)

\* An update ends, and the form goes back or takes over.
LEMMA FormCloses ==
    ASSUME Typed, Typed', StoreInv, FormInv, NEW u \in Updates, Over(u), UNCHANGED <<route, configLoad>>,
           \/ update[u].step = "done" /\ formData' = systemSettings' /\ dirty' = FALSE
           \/ RollBack(u) /\ UNCHANGED systemSettings,
           update[u].step # "idle"
    PROVE  FormInv'
<1>1. update'[u].step = "idle" /\ \A v \in Updates \ {u} : update'[v] = update[v]
    BY OverType
<1>2. route' # "settings" => \A v \in Updates : ~Mine(v)'
    BY <1>1 DEF FormInv, Mine, Underway
<1>3. \A v \in Updates : LonePrev(v)'
    BY <1>1 DEF StoreInv, Raced, FormInv, LonePrev, Mine, Underway, LoadUnderway
<1>4. \/ dirty' \/ formData' = systemSettings'
      \/ \E v \in Updates : Mine(v)' /\ update'[v].kind = "apply"
    <2>1. CASE update[u].step = "done" /\ formData' = systemSettings' /\ dirty' = FALSE
        BY <2>1
    <2>2. CASE RollBack(u) /\ UNCHANGED systemSettings
        <3>1. CASE update[u].kind = "apply" /\ update[u].here
            <4>1. formData' = update[u].prev /\ (dirty' <=> update[u].raced)
                BY <2>2, <3>1 DEF RollBack
            <4>2. update[u].raced \/ update[u].prev = systemSettings
                BY <3>1 DEF FormInv, LonePrev, Mine, Underway
            <4> QED BY <2>2, <4>1, <4>2
        <3>2. CASE ~(update[u].kind = "apply" /\ update[u].here)
            <4>1. UNCHANGED <<formData, dirty>>
                BY <2>2, <3>2 DEF RollBack
            <4> QED BY <1>1, <2>2, <3>2, <4>1 DEF FormInv, Mine, Underway
        <3> QED BY <3>1, <3>2
    <2> QED BY <2>1, <2>2
<1> QED BY <1>2, <1>3, <1>4 DEF FormInv

\* Neither settings, form nor loads change, and updates at most know of more.
LEMMA FormKept ==
    ASSUME FormInv, UNCHANGED <<route, systemSettings, formData, dirty>>,
           \A u \in Updates : /\ Underway(u)' <=> Underway(u)
                              /\ update'[u].prev = update[u].prev /\ update'[u].here = update[u].here
                              /\ update'[u].kind = update[u].kind
                              /\ update[u].raced => update'[u].raced,
           \A l \in ConfigLoads : LoadUnderway(l)' => LoadUnderway(l)
    PROVE  FormInv'
<1>1. \A u \in Updates : Mine(u)' <=> Mine(u)
    BY DEF Mine
<1>2. \A u \in Updates : LonePrev(u)'
    BY <1>1 DEF FormInv, LonePrev
<1> QED BY <1>1, <1>2 DEF FormInv

LEMMA FormOpens ==
    ASSUME Typed, Typed', FormInv, NEW kind \in {"save", "apply"}, NEW patch \in Patches, UpdateSettings(kind, patch),
           route = "settings", UNCHANGED <<route, systemSettings, dirty>>,
           kind = "save" => UNCHANGED formData
    PROVE  FormInv'
<1>1. PICK u \in Updates : Opened(u, kind, patch)
    BY UpdateSettingsType
<1>2. \A l \in ConfigLoads : configLoad'[l].step = configLoad[l].step
    BY UpdateSettingsType
<1>3. ASSUME NEW v \in Updates PROVE LonePrev(v)'
    <2>1. CASE v = u
        <3>1. update'[u].raced \/ ~Busy
            BY <1>1 DEF Opened
        <3>2. update'[u].raced \/ \A l \in ConfigLoads : ~LoadUnderway(l)'
            BY <1>2, <3>1 DEF Busy, LoadUnderway
        <3>3. update'[u].prev = systemSettings'
            BY <1>1 DEF Opened
        <3> QED BY <2>1, <3>2, <3>3 DEF LonePrev
    <2>2. CASE v # u
        BY <1>1, <2>2 DEF LonePrev, Opened, Mine, Underway
    <2> QED BY <2>1, <2>2
<1>4. \/ dirty' \/ formData' = systemSettings'
      \/ \E v \in Updates : Mine(v)' /\ update'[v].kind = "apply"
    <2>1. CASE kind = "save"
        BY <1>1, <2>1 DEF FormInv, Opened, Mine, Underway
    <2>2. CASE kind = "apply"
        BY <1>1, <2>2 DEF Opened, Mine, Underway
    <2> QED BY <2>1, <2>2
<1> QED BY <1>3, <1>4 DEF FormInv

LEMMA FormStep ==
    ASSUME Typed, Typed', ServerInv, StoreInv, FormInv, SettingsNext, UNCHANGED route
    PROVE  FormInv'
<1>0. \A u \in Updates : Written(u)
    BY DEF ServerInv
<1>1. CASE SettingsUser
    <2>1. ASSUME HandleSave PROVE FormInv'
        BY <2>1, FormOpens, DefaultsType DEF Typed, HandleSave, settingsHistory, Edit, User
    <2>2. ASSUME NEW theme \in Themes, ApplyImmediate(theme) PROVE FormInv'
        <3>1. [k \in {"theme"} |-> theme] \in Patches
            BY DEF Patches
        <3> QED BY <2>2, <3>1, FormOpens DEF ApplyImmediate, settingsHistory, Edit, User
    <2>3. ASSUME NEW key, NEW value, ChangeField(key, value) \/ HandleReset PROVE FormInv'
        <3>1. dirty' /\ UNCHANGED <<systemSettings, update, configLoad>>
            BY <2>3 DEF ChangeField, HandleReset
        <3> QED BY <3>1 DEF FormInv, LonePrev, Mine, Underway, LoadUnderway
    <2> QED BY <1>1, <2>1, <2>2, <2>3 DEF SettingsUser
<1>2. CASE SettingsSystem
    <2>1. ASSUME NEW l \in ConfigLoads, ReadSettings(l) PROVE FormInv'
        <3>1. \A m \in ConfigLoads : LoadUnderway(m)' => LoadUnderway(m)
            BY <2>1 DEF ReadSettings, LoadUnderway, Typed, SettingsLoad
        <3> QED BY <2>1, <3>1, FormKept DEF ReadSettings, settingsHistory, Underway
    <2>2. ASSUME NEW l \in ConfigLoads, SettingsAnswer(l) PROVE FormInv'
        <3>1. LoadUnderway(l) /\ formData' = systemSettings' /\ UNCHANGED update
            BY <2>2 DEF SettingsAnswer, LoadUnderway
        <3> QED BY <3>1 DEF FormInv, LonePrev, Mine, Underway
    <2>3. ASSUME NEW u \in Updates, Validate(u) PROVE FormInv'
        <3>1. Validated(u)
            BY <2>3, ValidateType
        <3>2. UNCHANGED <<systemSettings, formData, dirty, configLoad>>
            BY <2>3, Zenon DEF Validate, settingsHistory
        <3>3. ASSUME NEW v \in Updates
              PROVE  /\ (Underway(v)' <=> Underway(v)) /\ (update[v].raced => update'[v].raced)
                     /\ update'[v].prev = update[v].prev /\ update'[v].here = update[v].here
                     /\ update'[v].kind = update[v].kind
            <4>1. CASE v = u
                BY <3>1, <4>1 DEF Validated, Underway
            <4>2. CASE v # u
                BY <3>1, <4>2 DEF Validated, Underway
            <4> QED BY <4>1, <4>2
        <3> QED BY <3>2, <3>3, FormKept DEF LoadUnderway
    <2>4. ASSUME NEW u \in Updates, CacheRows(u) PROVE FormInv'
        <3>1. CachedRows(u)
            BY <2>4, CacheRowsType
        <3> QED BY <2>4, <3>1, FormKept DEF CachedRows, SameOrder, CacheRows, Underway, LoadUnderway
    <2>5. ASSUME NEW u \in Updates, UpdateAnswer(u) PROVE FormInv'
        BY <2>5, FormCloses DEF UpdateAnswer
    <2>6. ASSUME NEW u \in Updates, NEW key \in DOMAIN DefaultSettings, WriteRow(u, key) PROVE FormInv'
        <3>1. Wrote(u, key)
            BY <2>6, <1>0, WriteRowType
        <3> QED BY <2>6, <3>1, FormKept DEF Wrote, SameOrder, WriteRow, settingsHistory, Underway, LoadUnderway
    <2>7. ASSUME FillCache PROVE FormInv'
        BY <2>7, FormKept DEF FillCache, Underway, LoadUnderway
    <2> QED BY <1>2, <2>1, <2>2, <2>3, <2>4, <2>5, <2>6, <2>7 DEF SettingsSystem
<1>3. CASE SettingsUpsets
    <2>1. ASSUME NEW l \in ConfigLoads, SettingsFail(l) PROVE FormInv'
        <3>1. \A m \in ConfigLoads : LoadUnderway(m)' => LoadUnderway(m)
            BY <2>1 DEF SettingsFail, LoadUnderway, Typed, NoConfigLoad
        <3> QED BY <2>1, <3>1, FormKept DEF SettingsFail, settingsHistory, Underway
    <2>2. ASSUME NEW u \in Updates, UpdateFails(u) PROVE FormInv'
        BY <2>2, FormCloses DEF UpdateFails
    <2>3. ASSUME GetInt PROVE FormInv'
        BY <2>3, FormKept DEF GetInt, settingsHistory, Underway, LoadUnderway
    <2>4. ASSUME NEW key, NEW value, OthersUpdate(key, value) PROVE FormInv'
        <3>1. RaceAll /\ UNCHANGED <<systemSettings, formData, dirty>>
            BY <2>4 DEF OthersUpdate
        <3>2. \A u \in Updates : /\ update'[u].step = update[u].step /\ update'[u].kind = update[u].kind
                                 /\ update'[u].here = update[u].here
                                 /\ Underway(u) => update'[u].raced
            BY <3>1, RaceAllType
        <3>3. \A u \in Updates : (Mine(u)' <=> Mine(u)) /\ LonePrev(u)'
            BY <3>2 DEF Mine, Underway, LonePrev
        <3> QED BY <3>1, <3>2, <3>3 DEF FormInv
    <2> QED BY <1>3, <2>1, <2>2, <2>3, <2>4 DEF SettingsUpsets
<1> QED BY <1>1, <1>2, <1>3 DEF SettingsNext

-----------------------------------------------------------------------------
(* The settings: beginning, visits, and what they agree on.                *)

LEMMA SettingsBegin == ClientInit => SettingsInv
<1> SUFFICES ASSUME ClientInit PROVE SettingsInv
    OBVIOUS
<1> USE DEF ClientInit, SettingsInit
<1>1. configRows \in SystemSettings /\ RowsAreValid
    <2>1. PICK ask \in BOOLEAN : configRows = [DefaultSettings EXCEPT !.confirmBeforeDelete = ask]
        OBVIOUS
    <2>2. configRows = [theme |-> "dark", confirmBeforeDelete |-> ask, maxConcurrentExecutions |-> 5]
        BY <2>1 DEF DefaultSettings
    <2> QED BY <2>2 DEF SystemSettings, Themes, Numbers, RowsAreValid, Valid
<1>2. /\ configLoad \in [ConfigLoads -> SettingsLoad]
      /\ \A l \in ConfigLoads : configLoad[l].step # "answer"
    <2>1. /\ NoConfigLoad.step = "idle"
          /\ [NoConfigLoad EXCEPT !.step = "sent"] \in SettingsLoad
          /\ [NoConfigLoad EXCEPT !.step = "sent"].step = "sent"
        BY DefaultsType DEF NoConfigLoad, SettingsLoad
    <2> QED BY <2>1, BlanksType
<1>3. update \in [Updates -> UpdateRequest] /\ \A u \in Updates : update[u].step = "idle"
    BY BlanksType DEF NoUpdate
<1>4. reader \in [step : {"idle", "read"}, value : Numbers \cup {0}, old : BOOLEAN] /\ reader.step = "idle"
    BY BlanksType DEF NoReader
<1>5. Typed
    BY <1>1, <1>2, <1>3, <1>4 DEF Typed
<1>6. ServerInv
    BY <1>1, <1>3, <1>4 DEF ServerInv, Written, Beside, Writing, OwnRow, FreshRead, CacheInv, CacheComing
<1>7. StoreInv
    BY <1>2, <1>3 DEF StoreInv, Raced, LoneLoad, Underway, LoneUpdate
<1>8. FormInv
    BY <1>3 DEF FormInv, Mine, LonePrev, Underway
<1> QED BY <1>5, <1>6, <1>7, <1>8 DEF SettingsInv

LEMMA SettingsVisited ==
    ASSUME SettingsInv, route # "settings", SettingsMount
    PROVE  SettingsInv'
<1> USE DEF SettingsInv
<1>0. UNCHANGED <<systemSettings, configRows, cached, reader, update, formData, saving, mixed, crossed, dirty>>
    BY DEF SettingsMount, settingsHistory
<1>1. PICK l \in ConfigLoads : l = Slot(configLoad) /\ configLoad[l].step = "idle"
    BY SlotIsFree DEF SettingsMount, Typed
<1>2. PICK b \in BOOLEAN : b = Busy
    BY DEF Busy
<1>3. PICK new : new = [NoConfigLoad EXCEPT !.step = "sent", !.raced = b]
    OBVIOUS
<1>4. new \in SettingsLoad /\ new.step = "sent" /\ new.raced = b
    BY <1>3, DefaultsType DEF NoConfigLoad, SettingsLoad
<1>5. configLoad' = [configLoad EXCEPT ![l] = new]
    BY <1>1, <1>2, <1>3 DEF SettingsMount
<1>6. Typed'
    BY <1>0, <1>4, <1>5 DEF Typed
<1>7. ServerInv'
    BY <1>0, <1>6, ServerKept DEF SameWriting
<1>8. configLoad'[l] = new /\ \A m \in ConfigLoads \ {l} : configLoad'[m] = configLoad[m]
    BY <1>5 DEF Typed
<1>9. StoreInv'
    <2>1. ASSUME NEW m \in ConfigLoads PROVE LoneLoad(m)'
        <3>1. CASE m = l
            <4>1. b \/ \A u \in Updates : ~Underway(u)'
                BY <1>0, <1>2 DEF Busy, Underway
            <4> QED BY <1>4, <1>8, <3>1, <4>1 DEF LoneLoad
        <3>2. CASE m # l
            BY <1>0, <1>8, <3>2 DEF StoreInv, LoneLoad, LoadUnderway, Underway
        <3> QED BY <3>1, <3>2
    <2> QED BY <1>0, <2>1 DEF StoreInv, Raced, SomeWrites, LoneUpdate, Partly, Gone, Underway
<1>10. FormInv'
    BY <1>0 DEF FormInv, LonePrev, Mine, Underway
<1> QED BY <1>6, <1>7, <1>9, <1>10

LEMMA SettingsLeft ==
    ASSUME SettingsInv, SettingsLeave
    PROVE  SettingsInv'
<1> USE DEF SettingsInv
<1>0. /\ UNCHANGED <<systemSettings, configRows, cached, reader, configLoad, mixed, crossed>>
      /\ formData' = systemSettings /\ saving' = FALSE /\ dirty' = FALSE
      /\ update' = [u \in Updates |-> [update[u] EXCEPT !.here = FALSE]]
    BY DEF SettingsLeave
<1>1. ASSUME NEW u \in Updates
      PROVE  /\ update'[u] \in UpdateRequest /\ update'[u].step = update[u].step
             /\ update'[u].patch = update[u].patch /\ update'[u].left = update[u].left
             /\ update'[u].raced = update[u].raced /\ update'[u].beside = update[u].beside
             /\ update'[u].here = FALSE
    <2>1. PICK k \in UpdateRequest : k = update[u]
        BY DEF Typed
    <2>2. update'[u] = [k EXCEPT !.here = FALSE]
        BY <1>0, <2>1
    <2> QED BY <2>1, <2>2 DEF UpdateRequest
<1>2. update' \in [Updates -> UpdateRequest]
    BY <1>0, <1>1
<1>3. Typed'
    BY <1>0, <1>2 DEF Typed
<1>4. ServerInv'
    BY <1>0, <1>1, <1>3, ServerKept DEF SameWriting
<1>5. StoreInv'
    BY <1>0, <1>1, StoreKept DEF SameRequest
<1>6. FormInv'
    BY <1>0, <1>1 DEF FormInv, LonePrev, Mine
<1> QED BY <1>3, <1>4, <1>5, <1>6

\* Another page's step, or none.
LEMMA SettingsAside ==
    ASSUME SettingsInv, UNCHANGED settingsVars, route' = route \/ "settings" \notin {route, route'}
    PROVE  SettingsInv'
<1> USE DEF SettingsInv, settingsVars, settingsHistory
<1>1. Typed'
    BY DEF Typed
<1>2. ServerInv'
    BY <1>1, ServerKept DEF SameWriting
<1>3. StoreInv'
    BY StoreKept DEF SameRequest
<1>4. FormInv'
    BY DEF FormInv, LonePrev, Mine, Underway, LoadUnderway
<1> QED BY <1>1, <1>2, <1>3, <1>4

LEMMA SettingsKept ==
    ASSUME SettingsInv, [ClientNext]_clientVars
    PROVE  SettingsInv'
<1>1. CASE SettingsNext /\ OnSettings
    <2>1. UNCHANGED route
        BY <1>1 DEF OnSettings
    <2>2. Typed'
        BY <1>1, TypedStep DEF SettingsInv, ServerInv
    <2> QED BY <1>1, <2>1, <2>2, ServerStep, StoreStep, FormStep DEF SettingsInv
<1>2. CASE OnWorkflows \/ OnNodes \/ OnExecutors \/ UNCHANGED clientVars
    BY <1>2, SettingsAside DEF OnWorkflows, OnNodes, OnExecutors, clientVars
<1>3. ASSUME NEW name \in Pages, Visit(name) PROVE SettingsInv'
    <2>1. CASE name = "settings"
        BY <1>3, <2>1, SettingsVisited DEF Visit
    <2>2. CASE name # "settings"
        BY <1>3, <2>2, SettingsLeft DEF Visit
    <2> QED BY <2>1, <2>2
<1> QED BY <1>1, <1>2, <1>3 DEF ClientNext

LEMMA SettingsInvAgrees == SettingsInv => SettingsAgree
<1> SUFFICES ASSUME SettingsInv PROVE SettingsAgree
    OBVIOUS
<1>1. RowsAreValid
    BY DEF SettingsInv, ServerInv
<1>2. CacheTellsTheRow
    BY SettingsAre DEF CacheTellsTheRow, SettingsInv, ServerInv, CacheInv, CacheComing, Typed
<1>3. StoreTellsTheRows
    BY DEF StoreTellsTheRows, SettingsInv, StoreInv, SomeWrites, Busy, Underway
<1>4. FormShowsTheStore
    BY DEF FormShowsTheStore, SettingsInv, FormInv, Mine
<1> QED BY <1>1, <1>2, <1>3, <1>4 DEF SettingsAgree

-----------------------------------------------------------------------------
(* The executors: the list and its loads.                                  *)

\* What the server lists depends on the rows and on the default one only.
LEMMA SameRegistry ==
    ASSUME UNCHANGED <<registry, fallback>>
    PROVE  ListExecutors' = ListExecutors
BY DEF ListExecutors

(* The loads that a step makes of another.                                 *)
LEMMA NoReloadShape ==
    /\ Shape(NoReload) /\ NoReload.step = "idle"
    /\ \A own, new : new = [NoReload EXCEPT !.step = "sent", !.mine = own] => Shape(new) /\ new.step = "sent"
<1>1. PICK no \in BOOLEAN : no = FALSE
    OBVIOUS
<1>2. NoReload = [step |-> "idle", rows |-> <<>>, mine |-> no, old |-> no]
    BY <1>1 DEF NoReload
<1>3. ASSUME NEW own, NEW new, new = [NoReload EXCEPT !.step = "sent", !.mine = own]
      PROVE  Shape(new) /\ new.step = "sent"
    <2>1. new = [step |-> "sent", rows |-> <<>>, mine |-> own, old |-> no]
        BY <1>2, <1>3
    <2> QED BY <2>1 DEF Shape
<1> QED BY <1>2, <1>3 DEF Shape

LEMMA LoadExecutorsType ==
    ASSUME DOMAIN reload = Reloads, NEW own, LoadExecutors(own)
    PROVE  /\ DOMAIN reload' = Reloads
           /\ \E l \in Reloads : /\ Shape(reload'[l]) /\ reload'[l].step = "sent"
                                 /\ \A m \in Reloads \ {l} : reload'[m] = reload[m]
<1>1. PICK l \in Reloads : l = Slot(reload)
    BY SlotIsFree DEF LoadExecutors
<1>2. PICK new : new = [NoReload EXCEPT !.step = "sent", !.mine = own]
    OBVIOUS
<1>3. Shape(new) /\ new.step = "sent"
    BY <1>2, NoReloadShape
<1>4. reload' = [reload EXCEPT ![l] = new]
    BY <1>1, <1>2 DEF LoadExecutors
<1> QED BY <1>3, <1>4

LEMMA ReadShape ==
    ASSUME NEW k, Shape(k), NEW list, NEW no
    PROVE  [k EXCEPT !.step = "answer", !.rows = list, !.old = no]
               = [step |-> "answer", rows |-> list, mine |-> k.mine, old |-> no]
<1>1. PICK s, r, m, o : s = k.step /\ r = k.rows /\ m = k.mine /\ o = k.old
    OBVIOUS
<1>2. k = [step |-> s, rows |-> r, mine |-> m, old |-> o]
    BY <1>1 DEF Shape
<1>3. PICK a : a = [k EXCEPT !.step = "answer", !.rows = list, !.old = no]
    OBVIOUS
<1>4. a = [f \in {"step", "rows", "mine", "old"} |->
              IF f = "step" THEN "answer" ELSE IF f = "rows" THEN list ELSE IF f = "old" THEN no ELSE k[f]]
    BY <1>2, <1>3
<1>5. a = [step |-> "answer", rows |-> list, mine |-> m, old |-> no]
    BY <1>1, <1>4
<1> QED BY <1>1, <1>3, <1>5

LEMMA OutdatedType ==
    ASSUME DOMAIN reload = Reloads, \A l \in Reloads : Shape(reload[l])
    PROVE  /\ DOMAIN Outdated = Reloads
           /\ \A l \in Reloads : /\ Shape(Outdated[l]) /\ Outdated[l].step = reload[l].step
                                 /\ Outdated[l].step = "answer" => Outdated[l].old
<1>1. ASSUME NEW l \in Reloads
      PROVE  /\ Shape(Outdated[l]) /\ Outdated[l].step = reload[l].step
             /\ Outdated[l].step = "answer" => Outdated[l].old
    <2>1. PICK k : k = reload[l] /\ Shape(k)
        OBVIOUS
    <2>2. PICK b \in BOOLEAN : b = (k.step = "answer")
        OBVIOUS
    <2>3. Outdated[l] = [k EXCEPT !.old = b]
        BY <2>1, <2>2 DEF Outdated
    <2>4. PICK m : m = [step |-> k.step, rows |-> k.rows, mine |-> k.mine, old |-> b]
        OBVIOUS
    <2>5. Outdated[l] = m
        BY <2>1, <2>3, <2>4 DEF Shape
    <2>6. m.step = k.step /\ m.rows = k.rows /\ m.mine = k.mine /\ m.old = b
        BY <2>4
    <2> QED BY <2>1, <2>2, <2>4, <2>5, <2>6 DEF Shape
<1> QED BY <1>1 DEF Outdated

\* A new load brings what there is.
LEMMA LoadBegins ==
    ASSUME LoadsType, NEW own, LoadExecutors(own), stale' \in BOOLEAN, executorEvent' \in BOOLEAN, creating' \in BOOLEAN
    PROVE  LoadsType' /\ ListInv'
<1>1. DOMAIN reload' = Reloads
      /\ \E l \in Reloads : /\ Shape(reload'[l]) /\ reload'[l].step = "sent"
                            /\ \A m \in Reloads \ {l} : reload'[m] = reload[m]
    BY LoadExecutorsType DEF LoadsType
<1>2. LoadsType'
    BY <1>1 DEF LoadsType
<1>3. Coming'
    BY <1>1 DEF Coming, Catches
<1> QED BY <1>2, <1>3 DEF ListInv

\* Nothing of the list and its loads changes, or a change is announced.
LEMMA ListKept ==
    ASSUME LoadsType, ListInv, UNCHANGED <<executors, reload, stale>>, executorEvent' \in BOOLEAN, creating' \in BOOLEAN,
           \/ UNCHANGED <<registry, fallback, route, executorEvent>>
           \/ executorEvent' = (route = "executors") /\ UNCHANGED route
           \/ route' # "executors"
    PROVE  LoadsType' /\ ListInv'
<1>1. LoadsType'
    BY DEF LoadsType
<1>2. CASE UNCHANGED <<registry, fallback, route, executorEvent>>
    <2>1. Coming' <=> Coming
        BY <1>2, SameRegistry DEF Coming, Catches
    <2>2. Behind' <=> Behind
        BY <1>2, SameRegistry DEF Behind
    <2>3. InFlight' <=> InFlight
        BY <1>2 DEF InFlight
    <2> QED BY <1>1, <1>2, <2>1, <2>2, <2>3 DEF ListInv
<1>3. CASE ~UNCHANGED <<registry, fallback, route, executorEvent>>
    BY <1>1, <1>3 DEF ListInv
<1> QED BY <1>2, <1>3

LEMMA ListReads ==
    ASSUME LoadsType, ListInv, NEW l \in Reloads, ReadRegistry(l), UNCHANGED route
    PROVE  LoadsType' /\ ListInv'
<1>0. UNCHANGED <<registry, fallback, executorEvent, executors, stale, creating>>
    BY DEF ReadRegistry, serverSide, formVars
<1>1. PICK k : k = reload[l] /\ Shape(k)
    BY DEF LoadsType
<1>2. PICK no \in BOOLEAN : no = FALSE
    OBVIOUS
<1>3. reload' = [reload EXCEPT ![l] = [k EXCEPT !.step = "answer", !.rows = ListExecutors, !.old = no]]
    BY <1>1, <1>2 DEF ReadRegistry
<1>4. PICK m : m = [step |-> "answer", rows |-> ListExecutors, mine |-> k.mine, old |-> no]
    OBVIOUS
<1>5. [k EXCEPT !.step = "answer", !.rows = ListExecutors, !.old = no] = m
    BY <1>1, <1>4, ReadShape
<1>6. reload' = [reload EXCEPT ![l] = m]
    BY <1>3, <1>5
<1>7. Shape(m) /\ m.step = "answer" /\ m.rows = ListExecutors
    BY <1>4 DEF Shape
<1>8. DOMAIN reload' = Reloads /\ reload'[l] = m /\ \A n \in Reloads \ {l} : reload'[n] = reload[n]
    BY <1>6 DEF LoadsType
<1>9. LoadsType'
    BY <1>0, <1>7, <1>8 DEF LoadsType
<1>10. Catches(l)'
    BY <1>0, <1>7, <1>8, SameRegistry DEF Catches
<1> QED BY <1>9, <1>10 DEF ListInv, Coming

\* A load that ends makes those old that have been read; the one which
\* brings an old list was old itself, or another is still to be read.
LEMMA ListEnds ==
    ASSUME LoadsType, ListInv, NEW l \in Reloads, reload' = [Outdated EXCEPT ![l] = NoReload],
           UNCHANGED <<registry, fallback, route, executorEvent>>, creating' \in BOOLEAN,
           \/ reload[l].step = "answer" /\ executors' = reload[l].rows /\ stale' = reload[l].old
           \/ reload[l].step # "idle" /\ stale' = TRUE
    PROVE  LoadsType' /\ ListInv'
<1>1. /\ DOMAIN Outdated = Reloads
      /\ \A m \in Reloads : /\ Shape(Outdated[m]) /\ Outdated[m].step = reload[m].step
                            /\ Outdated[m].step = "answer" => Outdated[m].old
    BY OutdatedType DEF LoadsType
<1>2. DOMAIN reload' = Reloads /\ reload'[l] = NoReload /\ \A m \in Reloads \ {l} : reload'[m] = Outdated[m]
    BY <1>1
<1>3. LoadsType'
    BY <1>1, <1>2, NoReloadShape DEF LoadsType, Shape
<1>4. InFlight' => Coming'
    <2>1. ASSUME NEW m \in Reloads, reload'[m].step # "idle" PROVE Catches(m)'
        <3>1. m # l
            BY <1>2, <2>1, NoReloadShape
        <3>2. reload'[m].step \in {"sent", "answer"} /\ (reload'[m].step = "answer" => reload'[m].old)
            BY <1>1, <1>2, <2>1, <3>1 DEF Shape
        <3> QED BY <3>2 DEF Catches
    <2> QED BY <2>1 DEF InFlight, Coming
<1>5. ASSUME route = "executors", ~executorEvent, executors' # ListExecutors', ~stale' PROVE Coming'
    <2>1. reload[l].step = "answer" /\ executors' = reload[l].rows /\ ~reload[l].old
        BY <1>5 DEF LoadsType, Shape
    <2>2. ListExecutors' = ListExecutors
        BY SameRegistry
    <2>3. ~Catches(l) /\ InFlight
        BY <1>5, <2>1, <2>2 DEF Catches, InFlight
    <2>4. PICK m \in Reloads : Catches(m)
        BY <1>5, <2>3 DEF ListInv, Coming
    <2>5. m # l /\ reload[m].step # "idle"
        BY <2>3, <2>4 DEF Catches
    <2>6. reload'[m].step # "idle"
        BY <1>1, <1>2, <2>5
    <2> QED BY <1>4, <2>6 DEF InFlight
<1> QED BY <1>3, <1>4, <1>5 DEF ListInv, Behind

LEMMA ListMisses ==
    ASSUME LoadsType, ListInv, EventLost
    PROVE  LoadsType' /\ ListInv'
<1>0. reload' = Outdated /\ stale' = TRUE /\ executorEvent' = FALSE /\ UNCHANGED creating
    BY DEF EventLost, formVars
<1>1. DOMAIN reload' = Reloads
    BY <1>0, OutdatedType DEF LoadsType
<1>2. \A m \in Reloads : reload'[m].step = "answer" => reload'[m].old
    BY <1>0, OutdatedType DEF LoadsType
<1>3. \A m \in Reloads : Shape(reload'[m])
    BY <1>0, OutdatedType DEF LoadsType
<1>4. LoadsType'
    BY <1>0, <1>1, <1>3 DEF LoadsType
<1>5. InFlight' => Coming'
    BY <1>2, <1>3 DEF InFlight, Coming, Catches, Shape
<1> QED BY <1>0, <1>4, <1>5 DEF ListInv, Behind

-----------------------------------------------------------------------------
(* The executors: the form.                                                *)

LEMMA FormFills ==
    ASSUME FormType, FormIsOfTheShown, Fill(executors', selectedId', creating')
    PROVE  FormType' /\ FormIsOfTheShown'
<1>1. CASE creating' /\ creating
    <2>1. form' = form /\ Current = None /\ Current' = None
        BY <1>1 DEF Fill, Current, Selected
    <2> QED BY <2>1 DEF FormType, FormIsOfTheShown
<1>2. CASE ~(creating' /\ creating)
    <2>1. form' = ToFormState(Current')
        BY <1>2 DEF Fill, Current
    <2> QED BY <2>1 DEF FormType, FormIsOfTheShown, ToFormState
<1> QED BY <1>1, <1>2

LEMMA FormStays ==
    ASSUME FormType, FormIsOfTheShown, UNCHANGED <<executors, selectedId, creating, form>>
    PROVE  FormType' /\ FormIsOfTheShown'
BY DEF FormType, FormIsOfTheShown, Current

-----------------------------------------------------------------------------
(* The executors: the steps.                                               *)

LEMMA ChangeIsAnnounced ==
    ASSUME NEW kind, NEW i, NEW c, Change(kind, i, c)
    PROVE  executorEvent' = (route = "executors")
BY DEF Change

LEMMA ExecutorsUse ==
    ASSUME RegistryInv, ExecutorUser, UNCHANGED route
    PROVE  RegistryInv'
<1> USE DEF RegistryInv
<1>1. ASSUME UNCHANGED <<registry, fallback, executorEvent, executors, reload, stale>>, creating' \in BOOLEAN
      PROVE  LoadsType' /\ ListInv'
    BY <1>1, ListKept DEF LoadsType
<1>2. ASSUME NEW i \in Executors, SelectExecutor(i) PROVE RegistryInv'
    <2>1. UNCHANGED <<registry, fallback, executorEvent, executors, reload, stale>> /\ creating' = FALSE
        BY <1>2 DEF SelectExecutor, serverSide
    <2>2. Fill(executors', selectedId', creating')
        BY <1>2, <2>1 DEF SelectExecutor, Fill
    <2> QED BY <1>1, <2>1, <2>2, FormFills
<1>3. ASSUME NEW new \in BOOLEAN, SetCreating(new) PROVE RegistryInv'
    <2>1. UNCHANGED <<registry, fallback, executorEvent, executors, reload, stale>> /\ creating' = new
        BY <1>3 DEF SetCreating, serverSide
    <2>2. Fill(executors', selectedId', creating')
        BY <1>3, <2>1 DEF SetCreating, Fill
    <2> QED BY <1>1, <2>1, <2>2, FormFills
<1>4. ASSUME NEW c \in Configs, EditForm(c) PROVE RegistryInv'
    <2>1. UNCHANGED <<registry, fallback, executorEvent, executors, reload, stale, selectedId, creating>>
        BY <1>4 DEF EditForm, serverSide
    <2>2. form' = [of |-> form.of, config |-> c]
        BY <1>4 DEF EditForm, FormType
    <2>3. FormType' /\ FormIsOfTheShown'
        BY <2>1, <2>2 DEF FormType, FormIsOfTheShown, Current
    <2> QED BY <1>1, <2>1, <2>3 DEF LoadsType
<1>5. ASSUME UNCHANGED <<serverSide, executors, reload, formVars, stale>> PROVE RegistryInv'
    BY <1>1, <1>5, FormStays DEF serverSide, formVars, LoadsType
<1> QED BY <1>2, <1>3, <1>4, <1>5
        DEF ExecutorUser, AnswerQuestion, HandleSubmit, SetDefault, Enable, RunTest, AskFirst

LEMMA ExecutorsEnd ==
    ASSUME RegistryInv, NEW l \in Reloads, ReloadAnswer(l) \/ ReloadFails(l), UNCHANGED route
    PROVE  RegistryInv'
<1> USE DEF RegistryInv
<1>1. /\ UNCHANGED <<registry, fallback, executorEvent, selectedId>>
      /\ reload' = [Outdated EXCEPT ![l] = NoReload]
      /\ \/ reload[l].step = "answer" /\ executors' = reload[l].rows /\ stale' = reload[l].old
         \/ reload[l].step # "idle" /\ stale' = TRUE /\ UNCHANGED executors
    BY DEF ReloadAnswer, ReloadFails, serverSide
<1>2. \/ Fill(executors', selectedId', creating')
      \/ UNCHANGED <<executors, form, creating>>
    <2>1. ASSUME Finish(executors', selectedId', creating) PROVE Fill(executors', selectedId', creating')
        BY <2>1 DEF Finish
    <2>2. ASSUME ReloadAnswer(l) PROVE Fill(executors', selectedId', creating')
        BY <1>1, <2>1, <2>2 DEF ReloadAnswer
    <2>3. ASSUME ReloadFails(l), reload[l].mine PROVE Fill(executors', selectedId', creating')
        BY <1>1, <2>1, <2>3 DEF ReloadFails
    <2>4. ASSUME ReloadFails(l), ~reload[l].mine PROVE UNCHANGED <<executors, form, creating>>
        BY <2>4 DEF ReloadFails
    <2> QED BY <2>2, <2>3, <2>4
<1>3. creating' \in BOOLEAN
    BY DEF LoadsType, ReloadAnswer, ReloadFails, Finish
<1>4. LoadsType' /\ ListInv'
    BY <1>1, <1>3, ListEnds
<1>5. FormType' /\ FormIsOfTheShown'
    BY <1>1, <1>2, FormFills, FormStays
<1> QED BY <1>4, <1>5

LEMMA ExecutorsStep ==
    ASSUME RegistryInv, ExecutorNext, UNCHANGED route
    PROVE  RegistryInv'
<1> USE DEF RegistryInv
<1>1. ASSUME NEW l \in Reloads, ReadRegistry(l) PROVE RegistryInv'
    BY <1>1, ListReads, FormStays DEF ReadRegistry, formVars
<1>2. ASSUME NoticeExecutors PROVE RegistryInv'
    <2>1. LoadExecutors(FALSE) /\ executorEvent' = FALSE /\ UNCHANGED <<executors, formVars, stale>>
        BY <1>2 DEF NoticeExecutors
    <2> QED BY <2>1, LoadBegins, FormStays DEF formVars, LoadsType
<1>3. ASSUME OpOnServer PROVE RegistryInv'
    <2>1. UNCHANGED <<executors, reload, formVars, stale>>
        BY <1>3 DEF OpOnServer
    <2>2. executorEvent' = (route = "executors") \/ UNCHANGED serverSide
        BY <1>3, ChangeIsAnnounced DEF OpOnServer
    <2> QED BY <2>1, <2>2, ListKept, FormStays DEF serverSide, formVars, LoadsType
<1>4. ASSUME OpAnswer PROVE RegistryInv'
    <2>1. UNCHANGED <<serverSide, executors, formVars, stale>> /\ (LoadExecutors(TRUE) \/ UNCHANGED reload)
        BY <1>4 DEF OpAnswer
    <2>2. LoadsType' /\ ListInv'
        BY <2>1, LoadBegins, ListKept DEF serverSide, formVars, LoadsType
    <2> QED BY <2>1, <2>2, FormStays DEF formVars
<1>5. ASSUME EventLost PROVE RegistryInv'
    BY <1>5, ListMisses, FormStays DEF EventLost, formVars
<1>6. ASSUME NEW kind, NEW i, NEW c, OthersChange(kind, i, c) PROVE RegistryInv'
    <2>1. executorEvent' = (route = "executors") /\ UNCHANGED <<executors, reload, formVars, stale>>
        BY <1>6, ChangeIsAnnounced DEF OthersChange
    <2> QED BY <2>1, ListKept, FormStays DEF formVars, LoadsType
<1>7. ASSUME UNCHANGED <<serverSide, executors, reload, formVars, stale>> PROVE RegistryInv'
    BY <1>7, ListKept, FormStays DEF serverSide, formVars, LoadsType
<1>8. CASE ExecutorSystem
    BY <1>1, <1>2, <1>3, <1>4, <1>7, <1>8, ExecutorsEnd DEF ExecutorSystem, TestDone
<1>9. CASE ExecutorUpsets
    BY <1>5, <1>6, <1>7, <1>9, ExecutorsEnd DEF ExecutorUpsets, OpFails
<1> QED BY <1>8, <1>9, ExecutorsUse DEF ExecutorNext

LEMMA ExecutorsBegin == ClientInit => RegistryInv
<1> SUFFICES ASSUME ClientInit PROVE RegistryInv
    OBVIOUS
<1> USE DEF ClientInit, ExecutorInit
<1>1. PICK new : new = [NoReload EXCEPT !.step = "sent"]
    OBVIOUS
<1>2. PICK no \in BOOLEAN : no = FALSE
    OBVIOUS
<1>3. Shape(new) /\ new.step = "sent"
    <2>1. NoReload = [step |-> "idle", rows |-> <<>>, mine |-> no, old |-> no]
        BY <1>2 DEF NoReload
    <2>2. new = [step |-> "sent", rows |-> <<>>, mine |-> no, old |-> no]
        BY <1>1, <2>1
    <2> QED BY <2>2 DEF Shape
<1>4. reload = [l \in Reloads |-> IF l = 1 /\ route = "executors" THEN new ELSE NoReload]
    BY <1>1
<1>5. LoadsType
    BY <1>3, <1>4, NoReloadShape DEF LoadsType
<1>6. FormType /\ FormIsOfTheShown
    BY DEF FormType, FormIsOfTheShown, Current, Selected
<1>7. ListInv
    <2>1. route = "executors" => reload[1] = new
        BY <1>4, ConfigAssumption DEF ConfigAssumption
    <2> QED BY <1>3, <2>1, ConfigAssumption DEF ConfigAssumption, ListInv, Coming, Catches
<1> QED BY <1>5, <1>6, <1>7 DEF RegistryInv

LEMMA RegistryKept ==
    ASSUME RegistryInv, [ClientNext]_clientVars
    PROVE  RegistryInv'
<1> USE DEF RegistryInv
<1>1. CASE ExecutorNext /\ OnExecutors
    BY <1>1, ExecutorsStep DEF OnExecutors
<1>2. CASE OnSettings \/ OnWorkflows \/ OnNodes \/ UNCHANGED clientVars
    <2>1. UNCHANGED <<route, registry, fallback, executorEvent, executors, reload, stale, selectedId, creating, form>>
        BY <1>2 DEF OnSettings, OnWorkflows, OnNodes, clientVars, executorVars, serverSide, formVars
    <2> QED BY <2>1, ListKept, FormStays DEF LoadsType
<1>3. ASSUME NEW name \in Pages, Visit(name) PROVE RegistryInv'
    <2>0. route' = name /\ name # route
        BY <1>3 DEF Visit
    <2>1. CASE name = "executors"
        <3>1. LoadExecutors(FALSE) /\ UNCHANGED <<serverSide, executors, formVars, stale>>
            BY <1>3, <2>1 DEF Visit, ExecutorsMount
        <3> QED BY <3>1, LoadBegins, FormStays DEF serverSide, formVars, LoadsType
    <2>2. CASE route = "executors"
        <3>1. ExecutorsLeave
            BY <1>3, <2>0, <2>2 DEF Visit
        <3>2. /\ UNCHANGED <<registry, fallback, executors, reload, stale>>
              /\ executorEvent' = FALSE /\ creating' = FALSE /\ selectedId' = 0
              /\ form' = ToFormState(Selected(executors, 0, FALSE))
            BY <3>1 DEF ExecutorsLeave
        <3>3. LoadsType' /\ ListInv'
            BY <2>0, <2>2, <3>2, ListKept
        <3>4. FormType' /\ FormIsOfTheShown'
            BY <3>2 DEF FormType, FormIsOfTheShown, ToFormState, Current
        <3> QED BY <3>3, <3>4
    <2>3. CASE name # "executors" /\ route # "executors"
        <3>1. UNCHANGED executorVars
            BY <1>3, <2>3 DEF Visit
        <3> QED BY <2>0, <2>3, <3>1, ListKept, FormStays DEF executorVars, serverSide, formVars, LoadsType
    <2> QED BY <2>1, <2>2, <2>3
<1> QED BY <1>1, <1>2, <1>3 DEF ClientNext

LEMMA RegistryInvAgrees == RegistryInv => RegistryAgrees
BY DEF RegistryInv, LoadsType, Shape, ListInv, Behind, Coming, Catches, RegistryAgrees, PageListsTheRegistry

-----------------------------------------------------------------------------
(* Whatever the user does on the four pages, whatever requests overlap,    *)
(* outlive their page, are refused or lost, and whatever other clients     *)
(* write: the rows of the preferences are valid, and the cache that the    *)
(* engine reads, the store and the form tell what the rows tell; the list  *)
(* of executors is that of the registry, and the form that of the executor *)
(* on show - each unless what excuses it has happened                      *)
(* (service/config.go, settingsStore.ts, SystemSettingsTab.tsx,            *)
(* executorStore.ts, ExecutorConfigPage.tsx, ExecutorForm.tsx).            *)
THEOREM PagesAgree == ClientSpec => []SettingsPagesAgree
<1>1. ClientInit => Inv
    BY SettingsBegin, ExecutorsBegin DEF Inv
<1>2. Inv /\ [ClientNext]_clientVars => Inv'
    BY SettingsKept, RegistryKept DEF Inv
<1>3. Inv => SettingsPagesAgree
    BY SettingsInvAgrees, RegistryInvAgrees DEF Inv, SettingsPagesAgree
<1> QED BY <1>1, <1>2, <1>3, PTL DEF ClientSpec

-----------------------------------------------------------------------------
(* The details of a node.                                                  *)

\* What the request clicked last will bring is the node clicked last, and the
\* other user of selectedNode is closed.
DetailInv ==
    /\ DOMAIN detail = 1 .. MaxActs
    /\ showDetailModal => /\ ~showTestPanel /\ selectedNode = viewed
                          /\ detailRequestId \in DOMAIN detail => detail[detailRequestId] \in {None, viewed}

LEMMA DetailKept ==
    ASSUME DetailInv, UNCHANGED <<selectedNode, viewed, showDetailModal, showTestPanel, detailVars>>
    PROVE  DetailInv'
BY DEF DetailInv, detailVars

LEMMA DetailStep ==
    ASSUME DetailInv, ManagerNext
    PROVE  DetailInv'
<1> USE DEF DetailInv
<1>1. ASSUME NEW n \in Rows, HandleViewNode(n) PROVE DetailInv'
    BY <1>1 DEF HandleViewNode, OnPage, Overlay
<1>2. ASSUME NEW i \in 1 .. MaxActs, NEW found \in BOOLEAN, DetailAnswer(i, found) PROVE DetailInv'
    <2>1. UNCHANGED <<showDetailModal, showTestPanel, viewed, detailRequestId>>
          /\ detail[i] # None /\ detail' = [detail EXCEPT ![i] = None]
        BY <1>2 DEF DetailAnswer
    <2>2. showDetailModal => selectedNode' = viewed
        BY <1>2 DEF DetailAnswer
    <2> QED BY <2>1, <2>2
<1>3. ASSUME NEW n \in Rows, HandleTestNode(n) PROVE DetailInv'
    BY <1>3 DEF HandleTestNode, OnPage, Overlay, detailVars
<1>4. ASSUME CloseDetail \/ CloseTest PROVE DetailInv'
    BY <1>4 DEF CloseDetail, CloseTest, detailVars
<1>5. CASE ManagerUser
    <2>1. ASSUME \/ OpenImport \/ CloseImport \/ ToggleTag \/ HandleRunTest
                 \/ \E p \in Packages : HandleAddNode(p)
                 \/ \E n \in Rows : ChooseVersion(n) \/ HandleDeleteNode(n)
                 \/ \E ok \in BOOLEAN : AnswerDeleteDialog(ok)
          PROVE  DetailInv'
        BY <2>1, DetailKept DEF OpenImport, CloseImport, ToggleTag, HandleRunTest, HandleAddNode, ChooseVersion,
                                HandleDeleteNode, AnswerDeleteDialog, modalVars
    <2> HIDE DEF DetailInv
    <2> QED BY <1>1, <1>3, <1>4, <1>5, <2>1 DEF ManagerUser
<1>6. CASE ManagerSystem
    <2>1. ASSUME \/ \E f \in Fetches : ListNodes(f) \/ NodesAnswer(f)
                 \/ ImportOnServer \/ ImportAnswer
                 \/ \E id \in 1 .. MaxNodes : DeleteOnServer(id) \/ DeletionAnswer(id)
                 \/ TestAnswer
          PROVE  DetailInv'
        BY <2>1, DetailKept DEF ListNodes, NodesAnswer, ImportOnServer, ImportAnswer, DeleteOnServer, DeletionAnswer,
                                TestAnswer, modalVars
    <2> HIDE DEF DetailInv
    <2> QED BY <1>2, <1>6, <2>1 DEF ManagerSystem
<1>7. CASE ManagerUpsets
    BY <1>7, DetailKept DEF ManagerUpsets, NodesFail, ImportFails, DeletionFails, OthersImport, OthersErase, modalVars
<1> HIDE DEF DetailInv
<1> QED BY <1>5, <1>6, <1>7 DEF ManagerNext

\* The details on show are those of the node that was clicked last: an answer
\* for a node whose details were closed in the meantime, and answers in
\* another order than the clicks, do not get through (NodeManagerPage.tsx,
\* handleViewNode).
THEOREM DetailsAreAsked == ClientSpec => []DetailsAreOfTheClicked
<1>1. ClientInit => DetailInv
    BY DEF ClientInit, ManagerInit, DetailInv
<1>2. ASSUME DetailInv, [ClientNext]_clientVars PROVE DetailInv'
    <2>1. CASE ManagerNext /\ OnNodes
        BY <1>2, <2>1, DetailStep
    <2>2. CASE OnSettings \/ OnWorkflows \/ OnExecutors \/ UNCHANGED clientVars
        BY <1>2, <2>2, DetailKept DEF OnSettings, OnWorkflows, OnExecutors, clientVars, managerVars, modalVars
    <2>3. ASSUME NEW name \in Pages, Visit(name) PROVE DetailInv'
        <3>1. CASE ManagerMount \/ UNCHANGED managerVars
            BY <1>2, <3>1, DetailKept DEF ManagerMount, managerVars, modalVars
        <3>2. CASE ManagerLeave
            BY <3>2 DEF ManagerLeave, DetailInv
        <3> QED BY <2>3, <3>1, <3>2 DEF Visit
    <2> QED BY <1>2, <2>1, <2>2, <2>3 DEF ClientNext
<1>3. DetailInv => DetailsAreOfTheClicked
    BY DEF DetailInv, DetailsAreOfTheClicked
<1> QED BY <1>1, <1>2, <1>3, PTL DEF ClientSpec
----------------------------------------------------------------------------
(* The node manager.                                                       *)

Fetch  == [step : {"idle", "sent", "more", "last"}, page : Nat \ {0}, all : Seq(Rows), total : Nat]
Import == [step : {"idle", "sent", "done", "refused"}, pkg : Packages \cup {None}, row : Rows \cup {None},
           here : BOOLEAN]
ManagerTyped ==
    /\ library \in Seq(Rows) /\ nodes \in Seq(Rows) /\ nextNode \in 1 .. MaxNodes + 1
    /\ fetch \in [Fetches -> Fetch] /\ \A f \in Fetches : fetch[f].step = "idle" => fetch[f] = NoFetch
    /\ adding \in Import /\ (adding.step = "sent" => adding.pkg \in Packages) /\ (adding.step = "done" => adding.row \in Rows)
    /\ isAdding = (adding.step # "idle")
    /\ erasure \in [1 .. MaxNodes -> {"idle", "sent", "done", "refused"}]
    /\ toDelete \in 1 .. MaxNodes \cup {None} /\ (toDelete # None => erasure[toDelete] = "idle")

(* An id is given once: whatever knows of a node knows of an older one than *)
(* the next, and a node that is gone stays away.                           *)
Known(n) == n.id < nextNode
Numbered ==
    /\ \A n \in ToSet(library) \cup ToSet(nodes) : Known(n)
    /\ \A f \in Fetches : \A n \in ToSet(fetch[f].all) : Known(n)
    /\ adding.step = "done" => Known(adding.row)
    /\ toDelete # None => toDelete < nextNode
    /\ \A id \in 1 .. MaxNodes : erasure[id] # "idle" => id < nextNode
    /\ \A i, j \in DOMAIN library : library[i].id = library[j].id => i = j
    /\ \A id \in 1 .. MaxNodes : erasure[id] = "done" => \A n \in ToSet(library) : n.id # id

(* How much of the library a load has seen.                                *)
Upto(f) == IF fetch[f].step = "sent" THEN (fetch[f].page - 1) * NodePage
           ELSE IF fetch[f].step = "more" THEN fetch[f].page * NodePage ELSE Len(library)
Fetching(f) == fetch[f].step # "idle"
Fetched(f) == /\ Upto(f) <= Len(library)
              /\ fetch[f].all = SubSeq(library, 1, Upto(f))

(* Unless the library has shifted, there is one load at most, which nothing *)
(* has overtaken; the node of an import that is about to be answered is    *)
(* nowhere else; and without a load the list lacks nothing but that node,  *)
(* and what has been deleted.                                              *)
LoadIsAlone ==
    /\ \A f, g \in Fetches : Fetching(f) /\ Fetching(g) => f = g
    /\ \A f \in Fetches : Fetching(f) => /\ Fetched(f) /\ adding.step # "done"
                                         /\ \A id \in 1 .. MaxNodes : erasure[id] # "done"
ImportIsNew ==
    adding.step = "done" => /\ \A n \in ToSet(nodes) : n.id # adding.row.id
                            /\ erasure[adding.row.id] = "idle" /\ toDelete # adding.row.id
ListLacks ==
    ~Loading => /\ IsInjective(nodes)
                /\ \A n \in Rows : n \in ToSet(library) <=>
                       \/ n \in ToSet(nodes) /\ erasure[n.id] # "done"
                       \/ adding.step = "done" /\ n = adding.row
ManagerInv == ManagerTyped /\ Numbered /\ (~nodesShifted => LoadIsAlone /\ ImportIsNew /\ ListLacks)

managerCore == <<library, nextNode, nodes, adding, isAdding, fetch, nodesShifted, erasure, toDelete>>

LEMMA ManagerKept ==
    ASSUME ManagerInv, UNCHANGED managerCore
    PROVE  ManagerInv'
BY DEF ManagerInv, managerCore, ManagerTyped, Numbered, LoadIsAlone, ImportIsNew, ListLacks, Known, Upto, Fetching,
       Fetched, Loading

(* A page that is left takes the import with it only from the page.        *)
LEMMA BlanksAre ==
    /\ NoFetch \in Fetch /\ NoFetch.step = "idle" /\ NoFetch.all = <<>> /\ NoFetch.page = 1
    /\ NoImport \in Import /\ NoImport.step = "idle"
BY DEF NoFetch, NoImport, Fetch, Import

LEMMA ManagerLeaves ==
    ASSUME ManagerInv, ManagerLeave
    PROVE  ManagerInv'
<1>1. /\ UNCHANGED <<library, nextNode, nodes, isAdding, fetch, nodesShifted, erasure>> /\ toDelete' = None
      /\ adding' = IF adding.step = "idle" THEN adding ELSE [adding EXCEPT !.here = FALSE]
  BY DEF ManagerLeave, loadVars
<1>2. /\ adding' \in Import /\ adding'.step = adding.step /\ adding'.pkg = adding.pkg /\ adding'.row = adding.row
  BY <1>1 DEF ManagerInv, ManagerTyped, Import
<1>3. ManagerTyped'
  BY <1>1, <1>2 DEF ManagerInv, ManagerTyped
<1>4. Numbered'
  BY <1>1, <1>2 DEF ManagerInv, Numbered, Known
<1>5. LoadIsAlone => LoadIsAlone'
  BY <1>1, <1>2 DEF LoadIsAlone, Fetching, Fetched, Upto
<1>6. ImportIsNew => ImportIsNew'
  <2>1. adding.step = "done" => adding.row.id \in 1 .. MaxNodes
    BY DEF ManagerInv, ManagerTyped, Rows
  <2> QED BY <1>1, <1>2, <2>1, NodePageAssumption DEF ImportIsNew
<1>7. ListLacks => ListLacks'
  BY <1>1, <1>2 DEF ListLacks, Loading
<1> QED BY <1>1, <1>3, <1>4, <1>5, <1>6, <1>7 DEF ManagerInv

LEMMA Times == \A p \in Nat \ {0} : /\ p * NodePage \in Nat /\ (p - 1) * NodePage \in Nat
                                    /\ p * NodePage = (p - 1) * NodePage + NodePage
BY NodePageAssumption

LEMMA ListNodesKeeps ==
    ASSUME ManagerInv, NEW f \in Fetches, ListNodes(f)
    PROVE  ManagerInv'
<1> DEFINE begin == (fetch[f].page - 1) * NodePage
           end == fetch[f].page * NodePage
           last == IF end < Len(library) THEN end ELSE Len(library)
           part == SubSeq(library, begin + 1, last)
           all == fetch[f].all \o part
           next == [fetch[f] EXCEPT !.all = all, !.total = Len(library),
                        !.step = IF Len(all) >= Len(library) \/ part = <<>> THEN "last" ELSE "more"]
<1>1. /\ fetch[f].step = "sent" /\ fetch' = [fetch EXCEPT ![f] = next]
      /\ UNCHANGED <<library, nextNode, nodes, adding, isAdding, nodesShifted, erasure, toDelete>>
  BY DEF ListNodes, modalVars, Serving
<1>2. /\ library \in Seq(Rows) /\ Len(library) \in Nat /\ fetch[f] \in Fetch /\ fetch[f].page \in Nat \ {0}
      /\ fetch[f].all \in Seq(Rows) /\ fetch \in [Fetches -> Fetch]
  BY DEF ManagerInv, ManagerTyped, Fetch
<1>13. last = IF end < Len(library) THEN end ELSE Len(library)
  OBVIOUS
<1>3. begin \in Nat /\ end \in Nat /\ end = begin + NodePage /\ NodePage \in Nat \ {0}
  BY <1>2, Times, NodePageAssumption
<1> HIDE DEF begin, end
<1>4. last \in Nat /\ last <= Len(library)
  BY <1>2, <1>3, <1>13
<1>5. part \in Seq(Rows) /\ ToSet(part) \subseteq ToSet(library) /\ Len(part) = IF begin + 1 <= last THEN last - begin ELSE 0
  <2>1. begin + 1 \in Nat \ {0}
    BY <1>3
  <2>2. /\ part \in Seq(Rows) /\ ToSet(part) \subseteq ToSet(library)
        /\ Len(part) = IF begin + 1 <= last THEN last - (begin + 1) + 1 ELSE 0
    BY <1>2, <1>4, <2>1, PartMembers
  <2> QED BY <2>2, <1>3, <1>4
<1> HIDE DEF part, last
<1>6. all \in Seq(Rows) /\ ToSet(all) = ToSet(fetch[f].all) \cup ToSet(part)
  BY <1>2, <1>5, ConcatMembers
<1>7. next \in Fetch /\ next.step \in {"more", "last"} /\ next.all = all /\ next.page = fetch[f].page
      /\ (next.step = "last" <=> Len(all) >= Len(library) \/ part = <<>>)
  BY <1>2, <1>6 DEF Fetch
<1> HIDE DEF next
<1>8. fetch' \in [Fetches -> Fetch] /\ fetch'[f] = next /\ \A g \in Fetches \ {f} : fetch'[g] = fetch[g]
  BY <1>1, <1>2, <1>7
<1>14. \A g \in Fetches : fetch'[g].step = "idle" => fetch'[g] = NoFetch
  BY <1>7, <1>8 DEF ManagerInv, ManagerTyped
<1>9. ManagerTyped'
  BY <1>1, <1>8, <1>14 DEF ManagerInv, ManagerTyped
<1>10. Numbered'
  <2>1. \A g \in Fetches : \A n \in ToSet(fetch'[g].all) : Known(n)
    <3>1. ASSUME NEW n \in ToSet(all) PROVE Known(n)
      BY <3>1, <1>6, <1>5 DEF ManagerInv, Numbered
    <3>2. ASSUME NEW g \in Fetches \ {f}, NEW n \in ToSet(fetch'[g].all) PROVE Known(n)
      BY <3>2, <1>8 DEF ManagerInv, Numbered
    <3> QED BY <3>1, <3>2, <1>7, <1>8
  <2> QED BY <2>1, <1>1 DEF ManagerInv, Numbered, Known
<1>11. LoadIsAlone => LoadIsAlone'
  <2>1. SUFFICES ASSUME LoadIsAlone PROVE LoadIsAlone'
    OBVIOUS
  <2>2. Fetching(f) /\ Upto(f) = begin /\ begin <= Len(library) /\ fetch[f].all = SubSeq(library, 1, begin)
    BY <2>1, <1>1 DEF LoadIsAlone, Fetching, Fetched, Upto, begin
  <2>3. begin <= last
    BY <2>2, <1>3, <1>4, <1>13, <1>2
  <2>4. all = SubSeq(library, 1, last)
    BY <2>2, <2>3, <1>2, <1>3, <1>4, PagesGrow DEF part
  <2>5. Len(all) = last
    <3>1. Len(SubSeq(library, 1, last)) = IF 1 <= last THEN last - 1 + 1 ELSE 0
      BY <1>2, <1>4, PartMembers
    <3> QED BY <2>4, <3>1, <1>4
  <2>6. Upto(f)' = last
    <3>1. CASE next.step = "last"
      <4>1. last = Len(library)
        <5>1. CASE Len(all) >= Len(library)
          BY <5>1, <2>5, <1>4, <1>2
        <5>2. CASE part = <<>>
          <6>1. Len(part) = 0
            BY <5>2
          <6> QED BY <6>1, <1>5, <1>3, <1>4, <1>13, <1>2, <2>3
        <5> QED BY <3>1, <1>7, <5>1, <5>2
      <4> QED BY <4>1, <3>1, <1>1, <1>8 DEF Upto
    <3>2. CASE next.step = "more"
      <4>1. last # Len(library)
        BY <3>2, <1>7, <2>5, <1>2
      <4>2. last = end
        BY <4>1, <1>13
      <4> QED BY <4>2, <3>2, <1>7, <1>8 DEF Upto, end
    <3> QED BY <1>7, <3>1, <3>2
  <2>7. Fetched(f)'
    <3>1. fetch'[f].all = all
      BY <1>7, <1>8
    <3> QED BY <3>1, <2>6, <2>4, <1>1, <1>4 DEF Fetched
  <2>8. \A g \in Fetches : Fetching(g)' => Fetching(g)
    BY <1>8, <2>2 DEF Fetching
  <2>9. \A g \in Fetches \ {f} : ~Fetching(g)'
    BY <2>1, <2>2, <2>8 DEF LoadIsAlone
  <2> QED BY <2>1, <2>2, <2>7, <2>8, <2>9, <1>1 DEF LoadIsAlone
<1>12. Loading /\ Loading'
  BY <1>1, <1>7, <1>8 DEF Loading
<1> QED BY <1>1, <1>9, <1>10, <1>11, <1>12 DEF ManagerInv, ImportIsNew, ListLacks

LEMMA NodesAnswerKeeps ==
    ASSUME ManagerInv, NEW f \in Fetches, NodesAnswer(f)
    PROVE  ManagerInv'
<1>1. UNCHANGED <<library, nextNode, adding, isAdding, nodesShifted, erasure, toDelete>>
  BY DEF NodesAnswer, modalVars, Serving
<1>2. /\ library \in Seq(Rows) /\ nodes \in Seq(Rows) /\ fetch[f] \in Fetch /\ fetch[f].page \in Nat \ {0}
      /\ fetch[f].all \in Seq(Rows) /\ fetch \in [Fetches -> Fetch]
  BY DEF ManagerInv, ManagerTyped, Fetch
<1>3. CASE fetch[f].step = "more"
  <2> DEFINE next == [fetch[f] EXCEPT !.page = fetch[f].page + 1, !.step = "sent"]
  <2>1. fetch' = [fetch EXCEPT ![f] = next] /\ nodes' = nodes
    BY <1>2, <1>3, Zenon DEF NodesAnswer
  <2>10. fetch[f].page + 1 \in Nat \ {0}
    BY <1>2
  <2>2. next \in Fetch /\ next.step = "sent" /\ next.page = fetch[f].page + 1 /\ next.all = fetch[f].all
    BY <1>2, <2>10, Zenon DEF Fetch
  <2> HIDE DEF next
  <2>3. fetch' \in [Fetches -> Fetch] /\ fetch'[f] = next /\ \A g \in Fetches \ {f} : fetch'[g] = fetch[g]
    BY <2>1, <2>2, <1>2
  <2>11. \A g \in Fetches : fetch'[g].step = "idle" => fetch'[g] = NoFetch
    BY <2>2, <2>3 DEF ManagerInv, ManagerTyped
  <2>4. ManagerTyped'
    BY <1>1, <2>1, <2>3, <2>11 DEF ManagerInv, ManagerTyped
  <2>5. Numbered'
    BY <1>1, <2>1, <2>2, <2>3 DEF ManagerInv, Numbered, Known
  <2>6. \A g \in Fetches : Fetching(g)' = Fetching(g)
    BY <1>3, <2>2, <2>3 DEF Fetching
  <2>7. \A g \in Fetches : Upto(g)' = Upto(g) /\ fetch'[g].all = fetch[g].all
    <3>1. Upto(f)' = Upto(f)
      <4>1. fetch'[f].step = "sent" /\ fetch'[f].page - 1 = fetch[f].page
        BY <2>2, <2>3, <1>2
      <4>2. Upto(f)' = fetch[f].page * NodePage
        BY <4>1 DEF Upto
      <4>3. Upto(f) = fetch[f].page * NodePage
        BY <1>3 DEF Upto
      <4> QED BY <4>2, <4>3
    <3>2. \A g \in Fetches \ {f} : Upto(g)' = Upto(g)
      BY <2>3, <1>1 DEF Upto
    <3> QED BY <3>1, <3>2, <2>2, <2>3
  <2>8. LoadIsAlone => LoadIsAlone'
    BY <1>1, <2>6, <2>7 DEF LoadIsAlone, Fetched
  <2>9. Loading' = Loading
    BY <2>6 DEF Fetching, Loading
  <2> QED BY <1>1, <2>1, <2>4, <2>5, <2>8, <2>9 DEF ManagerInv, ImportIsNew, ListLacks
<1>4. CASE fetch[f].step = "last"
  <2>1. fetch' = [fetch EXCEPT ![f] = NoFetch] /\ nodes' = fetch[f].all
    BY <1>4 DEF NodesAnswer
  <2>2. fetch' \in [Fetches -> Fetch] /\ fetch'[f] = NoFetch /\ \A g \in Fetches \ {f} : fetch'[g] = fetch[g]
    BY <2>1, <1>2, BlanksAre
  <2>3. ManagerTyped'
    BY <1>1, <1>2, <2>1, <2>2 DEF ManagerInv, ManagerTyped
  <2>4. Numbered'
    <3>1. ToSet(<<>>) = {}
      BY DEF ToSet
    <3>2. \A g \in Fetches : \A n \in ToSet(fetch'[g].all) : Known(n)
      BY <3>1, <2>2, BlanksAre DEF ManagerInv, Numbered
    <3> QED BY <1>1, <2>1, <3>2 DEF ManagerInv, Numbered, Known
  <2>5. ASSUME ~nodesShifted, LoadIsAlone PROVE LoadIsAlone' /\ ImportIsNew' /\ ListLacks'
    <3>1. Fetching(f) /\ Fetched(f) /\ adding.step # "done" /\ \A id \in 1 .. MaxNodes : erasure[id] # "done"
      BY <1>4, <2>5 DEF LoadIsAlone, Fetching
    <3>2. nodes' = library
      <4>1. nodes' = SubSeq(library, 1, Len(library))
        BY <3>1, <1>4, <2>1 DEF Fetched, Upto
      <4> QED BY <4>1, <1>2, SubSeqFull
    <3>3. \A g \in Fetches : ~Fetching(g)'
      BY <2>2, <2>5, <3>1, BlanksAre DEF LoadIsAlone, Fetching
    <3>4. IsInjective(library)
      BY DEF ManagerInv, Numbered, IsInjective
    <3>5. \A n \in Rows : n.id \in 1 .. MaxNodes
      BY DEF Rows
    <3>6. ListLacks'
      BY <1>1, <3>1, <3>2, <3>4, <3>5 DEF ListLacks
    <3>7. LoadIsAlone'
      BY <3>3 DEF LoadIsAlone
    <3> QED BY <1>1, <3>1, <3>6, <3>7 DEF ImportIsNew
  <2> QED BY <1>1, <2>3, <2>4, <2>5 DEF ManagerInv
<1> QED BY <1>3, <1>4 DEF NodesAnswer

LEMMA NodesFailKeeps ==
    ASSUME ManagerInv, NEW f \in Fetches, NodesFail(f)
    PROVE  ManagerInv'
<1>1. /\ UNCHANGED <<library, nextNode, nodes, adding, isAdding, erasure, toDelete>>
      /\ fetch' = [fetch EXCEPT ![f] = NoFetch] /\ nodesShifted'
  BY DEF NodesFail, modalVars
<1>2. fetch' \in [Fetches -> Fetch] /\ fetch'[f] = NoFetch /\ \A g \in Fetches \ {f} : fetch'[g] = fetch[g]
  BY <1>1, BlanksAre DEF ManagerInv, ManagerTyped
<1>3. ManagerTyped'
  BY <1>1, <1>2 DEF ManagerInv, ManagerTyped
<1>4. ToSet(<<>>) = {}
  BY DEF ToSet
<1>5. \A g \in Fetches : \A n \in ToSet(fetch'[g].all) : Known(n)
  BY <1>4, <1>2, BlanksAre DEF ManagerInv, Numbered
<1>6. Numbered'
  BY <1>1, <1>5 DEF ManagerInv, Numbered, Known
<1> QED BY <1>1, <1>3, <1>6 DEF ManagerInv

LEMMA ManagerMounts ==
    ASSUME ManagerInv, ManagerMount
    PROVE  ManagerInv'
<1>0. PICK f : f = Slot(fetch)
  OBVIOUS
<1> DEFINE next == [fetch[f] EXCEPT !.step = "sent"]
<1>1. /\ UNCHANGED <<library, nextNode, nodes, adding, isAdding, erasure, toDelete>>
      /\ fetch' = [fetch EXCEPT ![f] = next] /\ Free(fetch)
      /\ nodesShifted' = (Loading \/ adding.step # "idle" \/ \E n \in 1 .. MaxNodes : erasure[n] # "idle")
  BY <1>0, Zenon DEF ManagerMount, modalVars
<1>2. fetch \in [Fetches -> Fetch] /\ f \in Fetches /\ fetch[f].step = "idle"
  BY <1>0, <1>1 DEF Free, Slot, ManagerInv, ManagerTyped
<1>3. next \in Fetch /\ next.step = "sent" /\ next.all = fetch[f].all /\ next.page = fetch[f].page
  BY <1>2 DEF Fetch
<1> HIDE DEF next
<1>4. fetch' \in [Fetches -> Fetch] /\ fetch'[f] = next /\ \A g \in Fetches \ {f} : fetch'[g] = fetch[g]
  BY <1>1, <1>2, <1>3
<1>8. \A g \in Fetches : fetch'[g].step = "idle" => fetch'[g] = NoFetch
  BY <1>3, <1>4 DEF ManagerInv, ManagerTyped
<1>5. ManagerTyped'
  BY <1>1, <1>4, <1>8 DEF ManagerInv, ManagerTyped
<1>6. Numbered'
  BY <1>1, <1>3, <1>4 DEF ManagerInv, Numbered, Known
<1>7. ASSUME ~nodesShifted' PROVE LoadIsAlone' /\ ImportIsNew' /\ ListLacks'
  <2>1. /\ \A g \in Fetches : fetch[g].step = "idle"
        /\ adding'.step # "done" /\ \A id \in 1 .. MaxNodes : erasure'[id] # "done"
    BY <1>1, <1>7 DEF Loading
  <2>2. Fetched(f)'
    <3>1. fetch'[f].step = "sent" /\ fetch'[f].page = 1 /\ fetch'[f].all = <<>>
      BY <1>2, <1>3, <1>4, BlanksAre DEF ManagerInv, ManagerTyped
    <3>2. Upto(f)' = 0
      <4>1. (1 - 1) * NodePage = 0
        BY NodePageAssumption
      <4>2. Upto(f)' = (fetch'[f].page - 1) * NodePage
        BY <3>1 DEF Upto
      <4> QED BY <3>1, <4>1, <4>2, Zenon
    <3>3. library' \in Seq(Rows)
      BY <1>5 DEF ManagerTyped
    <3>4. SubSeq(library', 1, 0) = <<>> /\ Len(library') \in Nat
      BY <3>3, SubSeqEmpty
    <3> QED BY <3>1, <3>2, <3>4 DEF Fetched
  <2> QED BY <2>1, <2>2, <1>2, <1>3, <1>4 DEF LoadIsAlone, ImportIsNew, ListLacks, Fetching, Loading
<1> QED BY <1>5, <1>6, <1>7 DEF ManagerInv

LEMMA RowsAre == \A n \in Rows : n.id \in 1 .. MaxNodes /\ n.id \in Nat
BY NodePageAssumption DEF Rows

(* A node more in the library, and some less.                              *)
LEMMA Prepended ==
    ASSUME ManagerInv, NEW row \in Rows, row.id = nextNode, library' = <<row>> \o library, nextNode' = nextNode + 1
    PROVE  /\ library' \in Seq(Rows) /\ ToSet(library') = ToSet(library) \cup {row}
           /\ nextNode' \in 1 .. MaxNodes + 1
           /\ \A i, j \in DOMAIN library' : library'[i].id = library'[j].id => i = j
<1>1. library \in Seq(Rows) /\ Len(library) \in Nat /\ nextNode \in Nat /\ nextNode <= MaxNodes /\ MaxNodes \in Nat
  BY NodePageAssumption DEF ManagerInv, ManagerTyped, Rows
<1>2. <<row>> \in Seq(Rows) /\ Len(<<row>>) = 1 /\ <<row>>[1] = row /\ ToSet(<<row>>) = {row}
  BY OneMember
<1>3. library' \in Seq(Rows) /\ ToSet(library') = ToSet(library) \cup {row}
  <2>1. PICK t \in Seq(Rows) : t = <<row>>
    BY <1>2
  <2>2. t \o library \in Seq(Rows) /\ ToSet(t \o library) = ToSet(t) \cup ToSet(library)
    BY <1>1, ConcatMembers
  <2> QED BY <2>1, <2>2, <1>2
<1>4. PICK s \in Seq(Rows) : s = <<row>> \o library
  BY <1>3
<1>5. Len(s) = Len(library) + 1 /\ s[1] = row /\ \A i \in 1 .. Len(library) : s[1 + i] = library[i]
  <2>1. /\ Len(<<row>> \o library) = Len(<<row>>) + Len(library)
        /\ \A i \in 1 .. Len(<<row>>) : (<<row>> \o library)[i] = <<row>>[i]
        /\ \A i \in 1 .. Len(library) : (<<row>> \o library)[Len(<<row>>) + i] = library[i]
    BY <1>1, <1>2, ConcatProperties
  <2> QED BY <1>1, <1>2, <1>4, <2>1
<1>6. \A i \in 1 .. Len(library) : library[i] \in Rows /\ library[i].id < nextNode /\ library[i].id \in Nat
  BY <1>1, MembersAre, RowsAre DEF ManagerInv, Numbered, Known
<1>7. \A i, j \in 1 .. Len(library) : library[i].id = library[j].id => i = j
  BY <1>1, MembersAre DEF ManagerInv, Numbered
<1>8. ASSUME NEW i \in 1 .. Len(s), i # 1
      PROVE  i - 1 \in 1 .. Len(library) /\ s[i] = library[i - 1] /\ s[i].id < nextNode /\ s[i].id \in Nat
  <2>1. i - 1 \in 1 .. Len(library) /\ 1 + (i - 1) = i
    BY <1>1, <1>5, <1>8
  <2>2. s[1 + (i - 1)] = library[i - 1]
    BY <2>1, <1>5
  <2> QED BY <2>1, <2>2, <1>6
<1>9. ASSUME NEW i \in 1 .. Len(s), NEW j \in 1 .. Len(s), s[i].id = s[j].id
      PROVE  i = j
  <2>1. CASE i = 1 /\ j # 1
    BY <2>1, <1>1, <1>5, <1>8, <1>9
  <2>2. CASE i # 1 /\ j = 1
    BY <2>2, <1>1, <1>5, <1>8, <1>9
  <2>3. CASE i # 1 /\ j # 1
    <3>1. PICK k \in 1 .. Len(library) : k = i - 1 /\ s[i] = library[k]
      BY <2>3, <1>8
    <3>2. PICK l \in 1 .. Len(library) : l = j - 1 /\ s[j] = library[l]
      BY <2>3, <1>8
    <3>3. k = l
      BY <3>1, <3>2, <1>7, <1>9
    <3> QED BY <3>1, <3>2, <3>3, <1>1, <1>5
  <2> QED BY <2>1, <2>2, <2>3
<1>10. DOMAIN s = 1 .. Len(s) /\ library' = s
  BY <1>4, MembersAre
<1> QED BY <1>1, <1>3, <1>9, <1>10

LEMMA Thinned ==
    ASSUME ManagerInv, NEW kept, library' = Filtered(library, kept)
    PROVE  /\ library' \in Seq(Rows) /\ ToSet(library') = ToSet(library) \cap kept
           /\ \A i, j \in DOMAIN library' : library'[i].id = library'[j].id => i = j
<1>1. library \in Seq(Rows) /\ DOMAIN library = 1 .. Len(library)
  BY MembersAre DEF ManagerInv, ManagerTyped
<1>2. \A i, j \in 1 .. Len(library) : library[i].id = library[j].id => i = j
  BY <1>1 DEF ManagerInv, Numbered
<1>3. IsInjective(library)
  BY <1>1, <1>2 DEF IsInjective
<1>4. PICK s : s = Filtered(library, kept)
  OBVIOUS
<1>5. s \in Seq(Rows) /\ ToSet(s) = ToSet(library) \cap kept /\ IsInjective(s)
  BY <1>1, <1>3, <1>4, FilteredElements, FilteredKeeps
<1>6. ASSUME NEW i \in DOMAIN s, NEW j \in DOMAIN s, s[i].id = s[j].id
      PROVE  i = j
  <2>1. s[i] \in ToSet(library) /\ s[j] \in ToSet(library)
    BY <1>5, MembersAre
  <2>2. s[i] = s[j]
    BY <2>1, <1>1, <1>2, <1>6, MembersAre
  <2> QED BY <2>2, <1>5 DEF IsInjective
<1> QED BY <1>4, <1>5, <1>6

(* Two rows of the library with the same id are the same.                  *)
LEMMA IdsIdentify ==
    ASSUME ManagerInv
    PROVE  /\ \A m, n \in ToSet(library) : m.id = n.id => m = n
           /\ ToSet(library) \subseteq Rows /\ ToSet(nodes) \subseteq Rows
BY MembersAre DEF ManagerInv, ManagerTyped, Numbered

LEMMA HandleAddNodeKeeps ==
    ASSUME ManagerInv, NEW p \in Packages, HandleAddNode(p)
    PROVE  ManagerInv'
<1>1. /\ UNCHANGED <<library, nextNode, nodes, fetch, nodesShifted, erasure, toDelete>>
      /\ ~isAdding /\ isAdding' = TRUE /\ adding' = [NoImport EXCEPT !.step = "sent", !.pkg = p]
  BY DEF HandleAddNode, loadVars, modalVars
<1>2. adding' = [step |-> "sent", pkg |-> p, row |-> None, here |-> TRUE]
  BY <1>1 DEF NoImport
<1>9. adding.step = "idle"
  BY <1>1, Zenon DEF ManagerInv, ManagerTyped
<1>3. adding' \in Import /\ adding'.step = "sent" /\ adding'.pkg = p /\ adding.step = "idle"
  BY <1>2, <1>9 DEF Import
<1>4. ManagerTyped'
  BY <1>1, <1>3 DEF ManagerInv, ManagerTyped
<1>5. Numbered'
  BY <1>1, <1>3 DEF ManagerInv, Numbered, Known
<1>6. LoadIsAlone => LoadIsAlone'
  BY <1>1, <1>3 DEF LoadIsAlone, Fetching, Fetched, Upto
<1>7. ImportIsNew'
  BY <1>3 DEF ImportIsNew
<1>8. ListLacks => ListLacks'
  BY <1>1, <1>3 DEF ListLacks, Loading
<1> QED BY <1>1, <1>4, <1>5, <1>6, <1>7, <1>8 DEF ManagerInv

LEMMA ImportOnServerKeeps ==
    ASSUME ManagerInv, ImportOnServer
    PROVE  ManagerInv'
<1>1. /\ UNCHANGED <<nodes, isAdding, fetch, erasure, toDelete>> /\ adding.step = "sent" /\ nextNode <= MaxNodes
      /\ adding \in Import /\ adding.pkg \in Packages
  BY DEF ImportOnServer, modalVars, ManagerInv, ManagerTyped
<1>2. CASE \E i \in DOMAIN library : library[i].pkg = adding.pkg
  <2>1. adding' = [adding EXCEPT !.step = "refused"] /\ UNCHANGED <<library, nextNode, nodesShifted>>
    BY <1>2 DEF ImportOnServer
  <2>2. adding' \in Import /\ adding'.step = "refused"
    BY <1>1, <2>1 DEF Import
  <2>3. ManagerTyped'
    BY <1>1, <2>1, <2>2 DEF ManagerInv, ManagerTyped
  <2>4. Numbered'
    BY <1>1, <2>1, <2>2 DEF ManagerInv, Numbered, Known
  <2>5. LoadIsAlone => LoadIsAlone'
    BY <1>1, <2>1, <2>2 DEF LoadIsAlone, Fetching, Fetched, Upto
  <2>6. ImportIsNew'
    BY <2>2 DEF ImportIsNew
  <2>7. ListLacks => ListLacks'
    BY <1>1, <2>1, <2>2 DEF ListLacks, Loading
  <2> QED BY <2>1, <2>3, <2>4, <2>5, <2>6, <2>7 DEF ManagerInv
<1>3. CASE ~ \E i \in DOMAIN library : library[i].pkg = adding.pkg
  <2> DEFINE row == [id |-> nextNode, pkg |-> adding.pkg]
             next == [adding EXCEPT !.step = "done", !.row = row]
  <2>1. /\ adding' = next /\ library' = <<row>> \o library /\ nextNode' = nextNode + 1
        /\ nodesShifted' = (nodesShifted \/ Loading)
    BY <1>3, Zenon DEF ImportOnServer
  <2>2. row \in Rows /\ row.id = nextNode
    BY <1>1 DEF Rows, ManagerInv, ManagerTyped
  <2> HIDE DEF row
  <2>3. adding' \in Import /\ adding'.step = "done" /\ adding'.row = row
    BY <1>1, <2>1, <2>2 DEF Import
  <2> HIDE DEF next
  <2>4. /\ library' \in Seq(Rows) /\ ToSet(library') = ToSet(library) \cup {row}
        /\ nextNode' \in 1 .. MaxNodes + 1
        /\ \A i, j \in DOMAIN library' : library'[i].id = library'[j].id => i = j
    BY <2>1, <2>2, Prepended
  <2>5. ManagerTyped'
    BY <1>1, <2>2, <2>3, <2>4 DEF ManagerInv, ManagerTyped
  <2>6. nextNode \in Nat /\ \A n \in ToSet(library) \cup ToSet(nodes) : n \in Rows /\ n.id \in Nat /\ n.id < nextNode
    <3>1. nextNode \in Nat /\ ToSet(library) \subseteq Rows /\ ToSet(nodes) \subseteq Rows
      BY MembersAre DEF ManagerInv, ManagerTyped
    <3> QED BY <3>1, RowsAre DEF ManagerInv, Numbered, Known
  <2>7. \A id \in 1 .. MaxNodes : erasure[id] # "idle" => id < nextNode
    BY DEF ManagerInv, Numbered
  <2>8. Numbered'
    <3>1. \A n \in ToSet(library') \cup ToSet(nodes') : n.id < nextNode'
      BY <1>1, <2>1, <2>2, <2>4, <2>6
    <3>2. ASSUME NEW f \in Fetches, NEW n \in ToSet(fetch'[f].all) PROVE n.id < nextNode'
      <4>1. fetch[f] \in Fetch /\ fetch[f].all \in Seq(Rows)
        BY DEF ManagerInv, ManagerTyped, Fetch
      <4>2. n \in ToSet(fetch[f].all) /\ n.id < nextNode
        BY <3>2, <1>1 DEF ManagerInv, Numbered, Known
      <4>3. n \in Rows /\ n.id \in Nat
        BY <4>1, <4>2, MembersAre, RowsAre
      <4> QED BY <4>2, <4>3, <2>1, <2>6
    <3>3. adding'.row.id < nextNode'
      BY <2>1, <2>2, <2>3, <2>6
    <3>4. toDelete' # None => toDelete' < nextNode'
      <4>1. toDelete # None => toDelete \in Nat /\ toDelete < nextNode
        BY DEF ManagerInv, ManagerTyped, Numbered
      <4> QED BY <4>1, <1>1, <2>1, <2>6
    <3>5. \A id \in 1 .. MaxNodes : erasure'[id] # "idle" => id < nextNode'
      BY <1>1, <2>1, <2>6, <2>7
    <3>6. \A id \in 1 .. MaxNodes : erasure'[id] = "done" => \A n \in ToSet(library') : n.id # id
      BY <1>1, <2>2, <2>4, <2>6, <2>7 DEF ManagerInv, Numbered
    <3> QED BY <3>1, <3>2, <3>3, <3>4, <3>5, <3>6, <2>4 DEF Numbered, Known
  <2>9. ASSUME ~nodesShifted' PROVE LoadIsAlone' /\ ImportIsNew' /\ ListLacks'
    <3>1. ~nodesShifted /\ ~Loading /\ ListLacks /\ ~Loading'
      BY <2>1, <2>9, <1>1 DEF ManagerInv, Loading
    <3>2. LoadIsAlone'
      BY <3>1 DEF LoadIsAlone, Loading, Fetching
    <3>3. ImportIsNew'
      <4>1. \A n \in ToSet(nodes) : n.id # row.id
        BY <2>2, <2>6
      <4>2. row.id \in 1 .. MaxNodes /\ erasure[row.id] = "idle"
        BY <2>2, <2>6, <2>7 DEF Rows
      <4>3. toDelete # row.id
        <5>1. toDelete # None => toDelete \in Nat /\ toDelete < nextNode
          BY DEF ManagerInv, ManagerTyped, Numbered
        <5> QED BY <5>1, <4>2, <2>2, <2>6, NodePageAssumption
      <4> QED BY <4>1, <4>2, <4>3, <1>1, <2>3 DEF ImportIsNew
    <3>4. ListLacks'
      <4>1. IsInjective(nodes') /\ row.id \in 1 .. MaxNodes
        BY <3>1, <1>1, <2>2 DEF ListLacks, Rows
      <4>2. \A n \in Rows : n \in ToSet(library) <=> n \in ToSet(nodes) /\ erasure[n.id] # "done"
        BY <3>1, <1>1 DEF ListLacks
      <4>3. \A n \in Rows : n \in ToSet(library') <=>
                \/ n \in ToSet(nodes') /\ erasure'[n.id] # "done"
                \/ adding'.step = "done" /\ n = adding'.row
        BY <4>2, <1>1, <2>3, <2>4
      <4> QED BY <4>1, <4>3 DEF ListLacks
    <3> QED BY <3>2, <3>3, <3>4
  <2> QED BY <2>5, <2>8, <2>9 DEF ManagerInv
<1> QED BY <1>2, <1>3

LEMMA ImportAnswerKeeps ==
    ASSUME ManagerInv, ImportAnswer
    PROVE  ManagerInv'
<1>1. /\ UNCHANGED <<library, nextNode, fetch, erasure, toDelete>>
      /\ isAdding' = FALSE /\ adding' = NoImport
      /\ nodes' = IF adding.step = "done" THEN Append(nodes, adding.row) ELSE nodes
      /\ nodesShifted' = (nodesShifted \/ (adding.step = "done" /\ (Loading \/ adding.row \in ToSet(nodes))))
  BY DEF ImportAnswer, Serving
<1>2. /\ adding' \in Import /\ adding'.step = "idle" /\ nodes \in Seq(Rows)
      /\ adding.step = "done" => adding.row \in Rows /\ Known(adding.row)
  BY <1>1, BlanksAre DEF ManagerInv, ManagerTyped, Numbered
<1>3. /\ nodes' \in Seq(Rows)
      /\ ToSet(nodes') = IF adding.step = "done" THEN ToSet(nodes) \cup {adding.row} ELSE ToSet(nodes)
      /\ adding.step = "done" /\ IsInjective(nodes) /\ adding.row \notin ToSet(nodes) => IsInjective(nodes')
  <2>1. CASE adding.step = "done"
    <3>1. PICK e \in Rows : e = adding.row
      BY <1>2, <2>1
    <3>2. /\ Append(nodes, e) \in Seq(Rows) /\ ToSet(Append(nodes, e)) = ToSet(nodes) \cup {e}
          /\ IsInjective(nodes) /\ e \notin ToSet(nodes) => IsInjective(Append(nodes, e))
      BY <1>2, AppendMembers
    <3> QED BY <1>1, <2>1, <3>1, <3>2
  <2>2. CASE adding.step # "done"
    BY <1>1, <1>2, <2>2
  <2> QED BY <2>1, <2>2
<1>4. ManagerTyped'
  BY <1>1, <1>2, <1>3 DEF ManagerInv, ManagerTyped
<1>5. Numbered'
  BY <1>1, <1>2, <1>3 DEF ManagerInv, Numbered, Known
<1>6. LoadIsAlone => LoadIsAlone'
  BY <1>1, <1>2 DEF LoadIsAlone, Fetching, Fetched, Upto
<1>7. ImportIsNew'
  BY <1>2 DEF ImportIsNew
<1>8. ASSUME ~nodesShifted', ~nodesShifted, ListLacks, ImportIsNew PROVE ListLacks'
  <2>1. CASE adding.step = "done"
    <3>1. ~Loading /\ adding.row \notin ToSet(nodes) /\ erasure[adding.row.id] = "idle"
      BY <1>1, <1>8, <2>1 DEF ImportIsNew
    <3>2. \A n \in Rows : n \in ToSet(library') <=> n \in ToSet(nodes') /\ erasure'[n.id] # "done"
      BY <1>1, <1>3, <1>8, <2>1, <3>1 DEF ListLacks
    <3> QED BY <1>2, <1>3, <1>8, <2>1, <3>1, <3>2 DEF ListLacks
  <2>2. CASE adding.step # "done"
    BY <1>1, <1>2, <1>8, <2>2 DEF ListLacks, Loading
  <2> QED BY <2>1, <2>2
<1>9. nodesShifted => nodesShifted'
  BY <1>1
<1> QED BY <1>4, <1>5, <1>6, <1>7, <1>8, <1>9 DEF ManagerInv

LEMMA ImportFailsKeeps ==
    ASSUME ManagerInv, ImportFails
    PROVE  ManagerInv'
<1>1. /\ UNCHANGED <<library, nextNode, nodes, fetch, erasure, toDelete>>
      /\ isAdding' = FALSE /\ adding' = NoImport
      /\ nodesShifted' = (nodesShifted \/ adding.step = "done")
  BY DEF ImportFails, modalVars
<1>2. adding' \in Import /\ adding'.step = "idle"
  BY <1>1, BlanksAre
<1>3. ManagerTyped'
  BY <1>1, <1>2 DEF ManagerInv, ManagerTyped
<1>4. Numbered'
  BY <1>1, <1>2 DEF ManagerInv, Numbered, Known
<1>5. LoadIsAlone => LoadIsAlone'
  BY <1>1, <1>2 DEF LoadIsAlone, Fetching, Fetched, Upto
<1>6. ImportIsNew'
  BY <1>2 DEF ImportIsNew
<1>7. ListLacks /\ adding.step # "done" => ListLacks'
  BY <1>1, <1>2 DEF ListLacks, Loading
<1> QED BY <1>1, <1>3, <1>4, <1>5, <1>6, <1>7 DEF ManagerInv

LEMMA CardsAreListed ==
    ASSUME ManagerInv, NEW name, NEW n \in Rows, OnCard(name, n)
    PROVE  n \in ToSet(nodes)
<1>1. nodes \in Seq(Rows)
  BY DEF ManagerInv, ManagerTyped
<1>2. n \in ToSet(GetFilteredNodes)
  BY DEF OnCard, NodeGroup
<1>3. PICK kept : GetFilteredNodes = Filtered(nodes, kept)
  BY DEF GetFilteredNodes
<1>4. ToSet(Filtered(nodes, kept)) = ToSet(nodes) \cap kept
  BY <1>1, FilteredElements
<1> QED BY <1>2, <1>3, <1>4

LEMMA HandleDeleteNodeKeeps ==
    ASSUME ManagerInv, NEW n \in Rows, HandleDeleteNode(n)
    PROVE  ManagerInv'
<1>1. /\ UNCHANGED <<library, nextNode, nodes, adding, isAdding, fetch, nodesShifted>>
      /\ toDelete = None /\ erasure[n.id] = "idle" /\ n \in ToSet(nodes)
      /\ \/ toDelete' = n.id /\ erasure' = erasure
         \/ toDelete' = toDelete /\ erasure' = [erasure EXCEPT ![n.id] = "sent"]
  BY CardsAreListed DEF HandleDeleteNode, SendErasure, OnPage, Overlay, loadVars
<1>2. n.id \in 1 .. MaxNodes /\ n.id < nextNode /\ n.id # None
  BY <1>1, RowsAre, NodePageAssumption DEF ManagerInv, Numbered, Known
<1>3. /\ erasure' \in [1 .. MaxNodes -> {"idle", "sent", "done", "refused"}]
      /\ erasure'[n.id] \in {"idle", "sent"} /\ \A id \in 1 .. MaxNodes \ {n.id} : erasure'[id] = erasure[id]
      /\ toDelete' = None \/ (toDelete' = n.id /\ erasure'[n.id] = "idle")
  BY <1>1, <1>2 DEF ManagerInv, ManagerTyped
<1>4. ManagerTyped'
  BY <1>1, <1>2, <1>3 DEF ManagerInv, ManagerTyped
<1>5. Numbered'
  <2>1. \A id \in 1 .. MaxNodes : erasure'[id] # "idle" => id < nextNode
    BY <1>2, <1>3 DEF ManagerInv, Numbered
  <2>2. \A id \in 1 .. MaxNodes : erasure'[id] = "done" => erasure[id] = "done"
    BY <1>3
  <2>3. toDelete' # None => toDelete' < nextNode
    BY <1>2, <1>3
  <2> QED BY <1>1, <2>1, <2>2, <2>3 DEF ManagerInv, Numbered, Known
<1>6. LoadIsAlone => LoadIsAlone'
  BY <1>1, <1>3 DEF LoadIsAlone, Fetching, Fetched, Upto
<1>7. ImportIsNew => ImportIsNew'
  <2>1. ASSUME ImportIsNew, adding.step = "done" PROVE n.id # adding.row.id
    BY <2>1, <1>1 DEF ImportIsNew
  <2>2. adding.step = "done" => adding.row.id \in 1 .. MaxNodes
    BY RowsAre DEF ManagerInv, ManagerTyped
  <2> QED BY <1>1, <1>2, <1>3, <2>1, <2>2, NodePageAssumption DEF ImportIsNew
<1>8. ListLacks => ListLacks'
  <2>1. \A m \in Rows : erasure'[m.id] = "done" <=> erasure[m.id] = "done"
    BY <1>1, <1>3, RowsAre
  <2> QED BY <1>1, <2>1 DEF ListLacks, Loading
<1> QED BY <1>1, <1>4, <1>5, <1>6, <1>7, <1>8 DEF ManagerInv

LEMMA AnswerDeleteDialogKeeps ==
    ASSUME ManagerInv, NEW ok \in BOOLEAN, AnswerDeleteDialog(ok)
    PROVE  ManagerInv'
<1>1. /\ UNCHANGED <<library, nextNode, nodes, adding, isAdding, fetch, nodesShifted>>
      /\ toDelete # None /\ toDelete' = None
      /\ erasure' = erasure \/ erasure' = [erasure EXCEPT ![toDelete] = "sent"]
  BY DEF AnswerDeleteDialog, SendErasure, loadVars
<1>2. toDelete \in 1 .. MaxNodes /\ toDelete < nextNode /\ erasure[toDelete] = "idle"
  BY <1>1 DEF ManagerInv, ManagerTyped, Numbered
<1>3. /\ erasure' \in [1 .. MaxNodes -> {"idle", "sent", "done", "refused"}]
      /\ erasure'[toDelete] \in {"idle", "sent"} /\ \A id \in 1 .. MaxNodes \ {toDelete} : erasure'[id] = erasure[id]
  BY <1>1, <1>2 DEF ManagerInv, ManagerTyped
<1>4. ManagerTyped'
  BY <1>1, <1>3 DEF ManagerInv, ManagerTyped
<1>5. Numbered'
  <2>1. \A id \in 1 .. MaxNodes : erasure'[id] # "idle" => id < nextNode
    BY <1>2, <1>3 DEF ManagerInv, Numbered
  <2>2. \A id \in 1 .. MaxNodes : erasure'[id] = "done" => erasure[id] = "done"
    BY <1>3
  <2> QED BY <1>1, <2>1, <2>2 DEF ManagerInv, Numbered, Known
<1>6. LoadIsAlone => LoadIsAlone'
  BY <1>1, <1>3 DEF LoadIsAlone, Fetching, Fetched, Upto
<1>7. ImportIsNew => ImportIsNew'
  <2>1. adding.step = "done" => adding.row.id \in 1 .. MaxNodes
    BY RowsAre DEF ManagerInv, ManagerTyped
  <2> QED BY <1>1, <1>3, <2>1, NodePageAssumption DEF ImportIsNew
<1>8. ListLacks => ListLacks'
  <2>1. \A m \in Rows : erasure'[m.id] = "done" <=> erasure[m.id] = "done"
    BY <1>2, <1>3, RowsAre
  <2> QED BY <1>1, <2>1 DEF ListLacks, Loading
<1> QED BY <1>1, <1>4, <1>5, <1>6, <1>7, <1>8 DEF ManagerInv

LEMMA DeleteOnServerKeeps ==
    ASSUME ManagerInv, NEW id \in 1 .. MaxNodes, DeleteOnServer(id)
    PROVE  ManagerInv'
<1> DEFINE kept == {n \in Rows : n.id # id \/ n.pkg \in InUse}
           end == IF \E i \in DOMAIN library' : library'[i].id = id THEN "refused" ELSE "done"
<1>1. /\ UNCHANGED <<nextNode, nodes, adding, isAdding, fetch, toDelete>>
      /\ erasure[id] = "sent" /\ library' = Filtered(library, kept) /\ erasure' = [erasure EXCEPT ![id] = end]
      /\ nodesShifted' = (nodesShifted \/ Loading)
  BY DEF DeleteOnServer, modalVars
<1>2. /\ library' \in Seq(Rows) /\ ToSet(library') = ToSet(library) \cap kept
      /\ \A i, j \in DOMAIN library' : library'[i].id = library'[j].id => i = j
  BY <1>1, Thinned
<1>3. /\ erasure' \in [1 .. MaxNodes -> {"idle", "sent", "done", "refused"}]
      /\ erasure'[id] = end /\ \A k \in 1 .. MaxNodes \ {id} : erasure'[k] = erasure[k]
  BY <1>1 DEF ManagerInv, ManagerTyped
<1>4. /\ end = "refused" => \E n \in ToSet(library') : n.id = id
      /\ end # "refused" => end = "done" /\ \A n \in ToSet(library') : n.id # id
  BY <1>2, MembersAre
<1> HIDE DEF end
<1>5. toDelete # id /\ id < nextNode /\ (adding.step = "done" => adding.row \in Rows)
  BY <1>1, NodePageAssumption DEF ManagerInv, ManagerTyped, Numbered
<1>6. ManagerTyped'
  BY <1>1, <1>2, <1>3, <1>5 DEF ManagerInv, ManagerTyped
<1>7. Numbered'
  <2>1. \A k \in 1 .. MaxNodes : erasure'[k] # "idle" => k < nextNode
    BY <1>3, <1>5 DEF ManagerInv, Numbered
  <2>2. \A k \in 1 .. MaxNodes : erasure'[k] = "done" => \A n \in ToSet(library') : n.id # k
    BY <1>2, <1>3, <1>4 DEF ManagerInv, Numbered
  <2> QED BY <1>1, <1>2, <2>1, <2>2 DEF ManagerInv, Numbered, Known
<1>8. ASSUME ~nodesShifted' PROVE LoadIsAlone' /\ ImportIsNew' /\ ListLacks'
  <2>1. ~Loading /\ ImportIsNew /\ ListLacks /\ ~Loading'
    BY <1>1, <1>8 DEF ManagerInv, Loading
  <2>2. LoadIsAlone'
    BY <2>1 DEF LoadIsAlone, Loading, Fetching
  <2>3. adding.step = "done" => adding.row.id \in 1 .. MaxNodes /\ adding.row.id # id /\ erasure[adding.row.id] = "idle"
    BY <1>1, <1>5, <2>1, RowsAre DEF ImportIsNew
  <2>4. ImportIsNew'
    BY <1>1, <1>3, <2>1, <2>3 DEF ImportIsNew
  <2>5. \A n \in Rows : n \in ToSet(library) <=>
            \/ n \in ToSet(nodes) /\ erasure[n.id] # "done"
            \/ adding.step = "done" /\ n = adding.row
    BY <2>1 DEF ListLacks
  <2>6. ASSUME NEW n \in Rows
        PROVE  n \in ToSet(library') <=>
            \/ n \in ToSet(nodes') /\ erasure'[n.id] # "done"
            \/ adding'.step = "done" /\ n = adding'.row
    <3>1. n.id \in 1 .. MaxNodes
      BY RowsAre
    <3>2. CASE n.id # id
      <4>1. n \in ToSet(library') <=> n \in ToSet(library)
        BY <1>2, <3>2
      <4>2. erasure'[n.id] = erasure[n.id]
        BY <1>3, <3>1, <3>2
      <4> QED BY <1>1, <2>5, <4>1, <4>2
    <3>3. CASE n.id = id
      <4>1. n \in ToSet(library) <=> n \in ToSet(nodes)
        BY <1>1, <2>3, <2>5, <3>3
      <4>2. ~(adding'.step = "done" /\ n = adding'.row)
        BY <1>1, <2>3, <3>3
      <4>3. CASE end = "refused"
        <5>1. PICK m \in ToSet(library') : m.id = id
          BY <1>4, <4>3
        <5>2. n \in ToSet(library) => n = m
          BY <1>2, <3>3, <5>1, IdsIdentify
        <5>3. n \in ToSet(library) <=> n \in ToSet(library')
          BY <1>2, <5>1, <5>2
        <5> QED BY <1>1, <1>3, <3>3, <4>1, <4>2, <4>3, <5>3
      <4>4. CASE end # "refused"
        <5>1. n \notin ToSet(library') /\ erasure'[n.id] = "done"
          BY <1>3, <1>4, <3>3, <4>4
        <5> QED BY <4>2, <5>1
      <4> QED BY <4>3, <4>4
    <3> QED BY <3>2, <3>3
  <2>7. ListLacks'
    BY <1>1, <2>1, <2>6 DEF ListLacks
  <2> QED BY <2>2, <2>4, <2>7
<1> QED BY <1>6, <1>7, <1>8 DEF ManagerInv

LEMMA DeletionAnswerKeeps ==
    ASSUME ManagerInv, NEW id \in 1 .. MaxNodes, DeletionAnswer(id)
    PROVE  ManagerInv'
<1> DEFINE kept == {n \in Rows : n.id # id}
<1>1. /\ UNCHANGED <<library, nextNode, adding, isAdding, fetch, toDelete>>
      /\ erasure[id] \in {"done", "refused"} /\ erasure' = [erasure EXCEPT ![id] = "idle"]
      /\ nodes' = IF erasure[id] = "done" THEN Filtered(nodes, kept) ELSE nodes
      /\ nodesShifted' = (nodesShifted \/ Loading)
  BY DEF DeletionAnswer, modalVars, Serving
<1>2. /\ nodes' \in Seq(Rows) /\ (IsInjective(nodes) => IsInjective(nodes'))
      /\ ToSet(nodes') = IF erasure[id] = "done" THEN ToSet(nodes) \cap kept ELSE ToSet(nodes)
  BY <1>1, FilteredElements, FilteredKeeps DEF ManagerInv, ManagerTyped
<1>3. /\ erasure' \in [1 .. MaxNodes -> {"idle", "sent", "done", "refused"}]
      /\ erasure'[id] = "idle" /\ \A k \in 1 .. MaxNodes \ {id} : erasure'[k] = erasure[k]
  BY <1>1 DEF ManagerInv, ManagerTyped
<1>4. ManagerTyped'
  BY <1>1, <1>2, <1>3 DEF ManagerInv, ManagerTyped
<1>5. Numbered'
  <2>1. \A k \in 1 .. MaxNodes : erasure'[k] # "idle" => erasure'[k] = erasure[k]
    BY <1>3
  <2>2. ToSet(nodes') \subseteq ToSet(nodes)
    BY <1>2
  <2> QED BY <1>1, <2>1, <2>2 DEF ManagerInv, Numbered, Known
<1>6. ASSUME ~nodesShifted' PROVE LoadIsAlone' /\ ImportIsNew' /\ ListLacks'
  <2>1. ~Loading /\ ImportIsNew /\ ListLacks /\ ~Loading'
    BY <1>1, <1>6 DEF ManagerInv, Loading
  <2>2. LoadIsAlone'
    BY <2>1 DEF LoadIsAlone, Loading, Fetching
  <2>3. adding.step = "done" => adding.row.id \in 1 .. MaxNodes /\ adding.row.id # id /\ erasure[adding.row.id] = "idle"
    BY <1>1, <2>1, RowsAre DEF ImportIsNew, ManagerInv, ManagerTyped
  <2>4. ImportIsNew'
    BY <1>1, <1>2, <1>3, <2>1, <2>3 DEF ImportIsNew
  <2>5. \A n \in Rows : n \in ToSet(library) <=>
            \/ n \in ToSet(nodes) /\ erasure[n.id] # "done"
            \/ adding.step = "done" /\ n = adding.row
    BY <2>1 DEF ListLacks
  <2>6. ASSUME NEW n \in Rows
        PROVE  n \in ToSet(library') <=>
            \/ n \in ToSet(nodes') /\ erasure'[n.id] # "done"
            \/ adding'.step = "done" /\ n = adding'.row
    <3>1. n.id \in 1 .. MaxNodes
      BY RowsAre
    <3>2. CASE n.id # id
      <4>1. n \in ToSet(nodes') <=> n \in ToSet(nodes)
        BY <1>2, <3>2
      <4>2. erasure'[n.id] = erasure[n.id]
        BY <1>3, <3>1, <3>2
      <4> QED BY <1>1, <2>5, <4>1, <4>2
    <3>3. CASE n.id = id /\ erasure[id] = "done"
      <4>1. n \notin ToSet(nodes') /\ n \notin ToSet(library')
        BY <1>1, <1>2, <3>3 DEF ManagerInv, Numbered
      <4> QED BY <1>1, <2>3, <3>3, <4>1
    <3>4. CASE n.id = id /\ erasure[id] = "refused"
      BY <1>1, <1>2, <1>3, <2>5, <3>4
    <3> QED BY <1>1, <3>2, <3>3, <3>4
  <2>7. ListLacks'
    BY <1>1, <1>2, <2>1, <2>6 DEF ListLacks
  <2> QED BY <2>2, <2>4, <2>7
<1> QED BY <1>4, <1>5, <1>6 DEF ManagerInv

LEMMA DeletionFailsKeeps ==
    ASSUME ManagerInv, NEW id \in 1 .. MaxNodes, DeletionFails(id)
    PROVE  ManagerInv'
<1>1. /\ UNCHANGED <<library, nextNode, nodes, adding, isAdding, fetch, toDelete>>
      /\ erasure[id] # "idle" /\ erasure' = [erasure EXCEPT ![id] = "idle"]
      /\ nodesShifted' = (nodesShifted \/ erasure[id] = "done")
  BY DEF DeletionFails, modalVars
<1>2. /\ erasure' \in [1 .. MaxNodes -> {"idle", "sent", "done", "refused"}]
      /\ erasure'[id] = "idle" /\ \A k \in 1 .. MaxNodes \ {id} : erasure'[k] = erasure[k]
  BY <1>1 DEF ManagerInv, ManagerTyped
<1>3. ManagerTyped'
  BY <1>1, <1>2 DEF ManagerInv, ManagerTyped
<1>4. \A k \in 1 .. MaxNodes : erasure'[k] # "idle" => erasure'[k] = erasure[k]
  BY <1>2
<1>5. Numbered'
  BY <1>1, <1>4 DEF ManagerInv, Numbered, Known
<1>6. LoadIsAlone => LoadIsAlone'
  BY <1>1, <1>4 DEF LoadIsAlone, Fetching, Fetched, Upto
<1>7. ImportIsNew => ImportIsNew'
  <2>1. adding.step = "done" => adding.row.id \in 1 .. MaxNodes
    BY RowsAre DEF ManagerInv, ManagerTyped
  <2> QED BY <1>1, <1>2, <2>1 DEF ImportIsNew
<1>8. ListLacks /\ erasure[id] # "done" => ListLacks'
  <2>1. erasure[id] # "done" => \A n \in Rows : erasure'[n.id] = "done" <=> erasure[n.id] = "done"
    BY <1>2, RowsAre
  <2> QED BY <1>1, <2>1 DEF ListLacks, Loading
<1> QED BY <1>1, <1>3, <1>5, <1>6, <1>7, <1>8 DEF ManagerInv

LEMMA OthersImportKeeps ==
    ASSUME ManagerInv, NEW p \in Packages, OthersImport(p)
    PROVE  ManagerInv'
<1> DEFINE row == [id |-> nextNode, pkg |-> p]
<1>1. /\ UNCHANGED <<nodes, adding, isAdding, fetch, erasure, toDelete>> /\ nextNode <= MaxNodes
      /\ library' = <<row>> \o library /\ nextNode' = nextNode + 1 /\ nodesShifted'
  BY DEF OthersImport, modalVars
<1>2. nextNode \in 1 .. MaxNodes /\ row \in Rows /\ row.id = nextNode
  BY <1>1, NodePageAssumption DEF Rows, ManagerInv, ManagerTyped
<1> HIDE DEF row
<1>3. /\ library' \in Seq(Rows) /\ ToSet(library') = ToSet(library) \cup {row}
      /\ nextNode' \in 1 .. MaxNodes + 1
      /\ \A i, j \in DOMAIN library' : library'[i].id = library'[j].id => i = j
  BY <1>1, <1>2, Prepended
<1>4. ManagerTyped'
  BY <1>1, <1>3 DEF ManagerInv, ManagerTyped
<1>5. nextNode \in Nat /\ \A k \in Nat : k < nextNode => k < nextNode'
  BY <1>1, <1>2
<1>6. \A n \in Rows : n.id \in Nat
  BY RowsAre
<1>7. Numbered'
  <2>1. \A n \in ToSet(library') \cup ToSet(nodes') : n.id < nextNode'
    BY <1>1, <1>2, <1>3, <1>5, <1>6, IdsIdentify DEF ManagerInv, Numbered, Known
  <2>2. ASSUME NEW f \in Fetches, NEW n \in ToSet(fetch'[f].all) PROVE n.id < nextNode'
    <3>1. fetch[f] \in Fetch /\ fetch[f].all \in Seq(Rows)
      BY DEF ManagerInv, ManagerTyped, Fetch
    <3>2. n \in ToSet(fetch[f].all) /\ n.id < nextNode
      BY <2>2, <1>1 DEF ManagerInv, Numbered, Known
    <3> QED BY <3>1, <3>2, <1>5, <1>6, MembersAre
  <2>3. adding'.step = "done" => adding'.row.id < nextNode'
    BY <1>1, <1>5, <1>6 DEF ManagerInv, ManagerTyped, Numbered, Known
  <2>4. toDelete' # None => toDelete' < nextNode'
    <3>1. toDelete # None => toDelete \in Nat /\ toDelete < nextNode
      BY DEF ManagerInv, ManagerTyped, Numbered
    <3> QED BY <3>1, <1>1, <1>5
  <2>5. \A id \in 1 .. MaxNodes : erasure'[id] # "idle" => id < nextNode /\ id < nextNode'
    BY <1>1, <1>5 DEF ManagerInv, Numbered
  <2>6. \A id \in 1 .. MaxNodes : erasure'[id] = "done" => \A n \in ToSet(library') : n.id # id
    BY <1>1, <1>2, <1>3, <2>5 DEF ManagerInv, Numbered
  <2> QED BY <2>1, <2>2, <2>3, <2>4, <2>5, <2>6, <1>3 DEF Numbered, Known
<1> QED BY <1>1, <1>4, <1>7 DEF ManagerInv

LEMMA OthersEraseKeeps ==
    ASSUME ManagerInv, NEW n \in Rows, OthersErase(n)
    PROVE  ManagerInv'
<1>1. PICK kept : library' = Filtered(library, kept)
  BY DEF OthersErase
<1>2. UNCHANGED <<nextNode, nodes, adding, isAdding, fetch, erasure, toDelete>> /\ nodesShifted'
  BY DEF OthersErase, modalVars
<1>3. /\ library' \in Seq(Rows) /\ ToSet(library') \subseteq ToSet(library)
      /\ \A i, j \in DOMAIN library' : library'[i].id = library'[j].id => i = j
  BY <1>1, Thinned
<1>4. ManagerTyped'
  BY <1>2, <1>3 DEF ManagerInv, ManagerTyped
<1>5. Numbered'
  BY <1>2, <1>3 DEF ManagerInv, Numbered, Known
<1> QED BY <1>2, <1>4, <1>5 DEF ManagerInv

LEMMA ManagerBegins == ClientInit => ManagerInv
<1> SUFFICES ASSUME ClientInit PROVE ManagerInv
  OBVIOUS
<1>1. PICK s : s = [i \in DOMAIN First |-> [id |-> i, pkg |-> First[i]]]
  OBVIOUS
<1>2. First \in Seq(Packages) /\ Len(First) \in Nat /\ Len(First) <= MaxNodes /\ DOMAIN First = 1 .. Len(First)
  BY NodePageAssumption
<1>3. s \in Seq(Rows) /\ Len(s) = Len(First) /\ \A i \in 1 .. Len(First) : s[i].id = i
  <2>1. \A i \in 1 .. Len(First) : [id |-> i, pkg |-> First[i]] \in Rows
    BY <1>2, NodePageAssumption DEF Rows
  <2>2. s \in [1 .. Len(First) -> Rows]
    BY <1>1, <1>2, <2>1
  <2> QED BY <1>1, <1>2, <2>2
<1>4. /\ library = Reverse(s) /\ nextNode = Len(First) + 1 /\ nodes = <<>>
      /\ isAdding = FALSE /\ adding = NoImport /\ toDelete = None /\ erasure = [n \in 1 .. MaxNodes |-> "idle"]
      /\ fetch = [f \in Fetches |-> IF f = 1 /\ route = "nodes" THEN [NoFetch EXCEPT !.step = "sent"] ELSE NoFetch]
      /\ nodesShifted = (route # "nodes")
  BY <1>1 DEF ClientInit, ManagerInit
<1>5. library \in Seq(Rows) /\ Len(library) = Len(First) /\ DOMAIN library = 1 .. Len(First)
      /\ \A i \in 1 .. Len(First) : library[i].id = Len(First) - i + 1
  <2>1. /\ Reverse(s) \in Seq(Rows) /\ Len(Reverse(s)) = Len(s)
        /\ \A i \in 1 .. Len(s) : Reverse(s)[i] = s[Len(s) - i + 1] /\ Len(s) - i + 1 \in 1 .. Len(s)
    BY <1>3, ReverseIs
  <2>2. DOMAIN library = 1 .. Len(library)
    BY <2>1, <1>4, MembersAre
  <2> QED BY <2>1, <2>2, <1>3, <1>4
<1>6. PICK next : next = [NoFetch EXCEPT !.step = "sent"]
  OBVIOUS
<1>7. next \in Fetch /\ next.step = "sent" /\ next.page = 1 /\ next.all = <<>>
  <2>1. next = [step |-> "sent", page |-> 1, all |-> <<>>, total |-> 0]
    BY <1>6 DEF NoFetch
  <2> QED BY <2>1 DEF Fetch
<1>8. /\ fetch \in [Fetches -> Fetch]
      /\ \A f \in Fetches : fetch[f] = NoFetch \/ (f = 1 /\ fetch[f] = next /\ route = "nodes")
      /\ route = "nodes" => fetch[1] = next /\ 1 \in Fetches
  BY <1>4, <1>6, <1>7, BlanksAre, NodePageAssumption
<1>9. ManagerTyped
  <2>1. nodes \in Seq(Rows) /\ nextNode \in 1 .. MaxNodes + 1
    BY <1>2, <1>4, NodePageAssumption
  <2>2. \A f \in Fetches : fetch[f].step = "idle" => fetch[f] = NoFetch
    BY <1>7, <1>8
  <2>3. adding \in Import /\ adding.step = "idle" /\ isAdding = (adding.step # "idle")
    BY <1>4, BlanksAre
  <2> QED BY <1>4, <1>5, <1>8, <2>1, <2>2, <2>3 DEF ManagerTyped
<1>10. ToSet(<<>>) = {}
  BY DEF ToSet
<1>11. Numbered
  <2>1. ASSUME NEW n \in ToSet(library) PROVE n.id < nextNode
    <3>1. PICK i \in 1 .. Len(First) : n = library[i]
      BY <2>1, <1>5, MembersAre
    <3> QED BY <3>1, <1>2, <1>4, <1>5
  <2>2. \A f \in Fetches : fetch[f].all = <<>>
    BY <1>7, <1>8, BlanksAre
  <2>3. ASSUME NEW i \in DOMAIN library, NEW j \in DOMAIN library, library[i].id = library[j].id PROVE i = j
    BY <2>3, <1>2, <1>5
  <2> QED BY <1>4, <1>10, <2>1, <2>2, <2>3, BlanksAre DEF Numbered, Known
<1>12. ASSUME ~nodesShifted PROVE LoadIsAlone /\ ImportIsNew /\ ListLacks
  <2>1. route = "nodes" /\ fetch[1] = next /\ 1 \in Fetches /\ \A f \in Fetches \ {1} : fetch[f] = NoFetch
    BY <1>4, <1>8, <1>12
  <2>2. Fetched(1)
    <3>1. Upto(1) = 0
      BY <2>1, <1>7, NodePageAssumption DEF Upto
    <3>2. SubSeq(library, 1, 0) = <<>>
      BY <1>5, SubSeqEmpty
    <3> QED BY <3>1, <3>2, <2>1, <1>2, <1>5, <1>7 DEF Fetched
  <2>3. Loading
    BY <2>1, <1>7 DEF Loading
  <2> QED BY <1>4, <1>7, <2>1, <2>2, <2>3, BlanksAre DEF LoadIsAlone, ImportIsNew, ListLacks, Fetching
<1> QED BY <1>9, <1>11, <1>12 DEF ManagerInv

(* The steps.                                                              *)
LEMMA ManagerStep ==
    ASSUME ManagerInv, ManagerNext
    PROVE  ManagerInv'
<1>1. CASE ManagerUser
  <2>1. ASSUME \/ OpenImport \/ CloseImport \/ ToggleTag \/ CloseDetail \/ HandleRunTest \/ CloseTest
               \/ \E n \in Rows : ChooseVersion(n) \/ HandleViewNode(n) \/ HandleTestNode(n)
        PROVE  UNCHANGED managerCore
    BY <2>1, Zenon DEF OpenImport, CloseImport, ToggleTag, CloseDetail, HandleRunTest, CloseTest, ChooseVersion,
                       HandleViewNode, HandleTestNode, managerCore, loadVars, modalVars
  <2> QED BY <1>1, <2>1, ManagerKept, HandleAddNodeKeeps, HandleDeleteNodeKeeps, AnswerDeleteDialogKeeps DEF ManagerUser
<1>2. CASE ManagerSystem
  <2>1. ASSUME TestAnswer \/ \E i \in 1 .. MaxActs, found \in BOOLEAN : DetailAnswer(i, found)
        PROVE  UNCHANGED managerCore
    BY <2>1, Zenon DEF TestAnswer, DetailAnswer, managerCore, loadVars, modalVars
  <2> QED BY <1>2, <2>1, ManagerKept, ListNodesKeeps, NodesAnswerKeeps, ImportOnServerKeeps, ImportAnswerKeeps,
             DeleteOnServerKeeps, DeletionAnswerKeeps DEF ManagerSystem
<1>3. CASE ManagerUpsets
  BY <1>3, NodesFailKeeps, ImportFailsKeeps, DeletionFailsKeeps, OthersImportKeeps, OthersEraseKeeps DEF ManagerUpsets
<1> QED BY <1>1, <1>2, <1>3 DEF ManagerNext

LEMMA ManagerVisited ==
    ASSUME NEW name \in Pages, Visit(name)
    PROVE  ManagerMount \/ ManagerLeave \/ UNCHANGED managerVars
BY DEF Visit

LEMMA ManagerHolds ==
    ASSUME ManagerInv, [ClientNext]_clientVars
    PROVE  ManagerInv'
<1>1. CASE ManagerNext /\ OnNodes
  BY <1>1, ManagerStep
<1>2. ASSUME UNCHANGED managerVars PROVE ManagerInv'
  BY <1>2, ManagerKept DEF managerVars, managerCore, loadVars, modalVars
<1>3. CASE OnSettings \/ OnWorkflows \/ OnExecutors \/ UNCHANGED clientVars
  BY <1>2, <1>3 DEF OnSettings, OnWorkflows, OnExecutors, clientVars
<1>4. ASSUME NEW name \in Pages, Visit(name) PROVE ManagerInv'
  BY <1>2, <1>4, ManagerVisited, ManagerMounts, ManagerLeaves
<1> QED BY <1>1, <1>3, <1>4 DEF ClientNext

(* What the page shows of them.                                            *)
LEMMA ManagerAgrees == ManagerInv => StoreListsTheLibrary
<1> SUFFICES ASSUME ManagerInv, ~Loading, adding.step = "idle", ~nodesShifted, \A id \in 1 .. MaxNodes : erasure[id] = "idle"
             PROVE  ToSet(nodes) = ToSet(library) /\ IsInjective(nodes)
  BY DEF StoreListsTheLibrary
<1>1. /\ IsInjective(nodes)
      /\ \A n \in Rows : n \in ToSet(library) <=> n \in ToSet(nodes) /\ erasure[n.id] # "done"
  BY DEF ManagerInv, ListLacks
<1>2. \A n \in Rows : erasure[n.id] = "idle"
  BY RowsAre
<1>3. \A n \in Rows : n \in ToSet(library) <=> n \in ToSet(nodes)
  BY <1>1, <1>2
<1> QED BY <1>1, <1>3, IdsIdentify

\* What leaves the list by itself has left the library before.
OnlyErasedGo == \A i \in DOMAIN nodes : fetch' = fetch /\ nodes[i] \notin ToSet(nodes') => nodes[i] \notin ToSet(library')
LEMMA ErasedGo ==
    ASSUME ManagerInv, [ClientNext]_clientVars
    PROVE  OnlyErasedGo
<1>1. nodes \in Seq(Rows) /\ \A i \in DOMAIN nodes : nodes[i] \in ToSet(nodes) /\ nodes[i] \in Rows
  BY MembersAre DEF ManagerInv, ManagerTyped
<1>2. ASSUME nodes' = nodes PROVE OnlyErasedGo
  BY <1>1, <1>2 DEF OnlyErasedGo
<1>3. ASSUME NEW f \in Fetches, NodesAnswer(f) PROVE OnlyErasedGo
  <2>1. CASE fetch[f].step = "more"
    BY <1>2, <1>3, <2>1 DEF NodesAnswer
  <2>2. CASE fetch[f].step = "last"
    <3>1. fetch' = [fetch EXCEPT ![f] = NoFetch]
      BY <1>3, <2>2 DEF NodesAnswer
    <3>2. fetch'[f].step = "idle"
      BY <3>1, BlanksAre DEF ManagerInv, ManagerTyped
    <3>3. fetch' # fetch
      BY <2>2, <3>2
    <3> QED BY <3>3 DEF OnlyErasedGo
  <2> QED BY <1>3, <2>1, <2>2 DEF NodesAnswer
<1>4. ASSUME ImportAnswer PROVE OnlyErasedGo
  <2>1. CASE adding.step # "done"
    BY <1>2, <1>4, <2>1 DEF ImportAnswer
  <2>2. CASE adding.step = "done"
    <3>1. PICK e \in Rows : e = adding.row
      BY <2>2 DEF ManagerInv, ManagerTyped
    <3>2. nodes' = Append(nodes, e)
      BY <1>4, <2>2, <3>1 DEF ImportAnswer
    <3>3. ToSet(Append(nodes, e)) = ToSet(nodes) \cup {e}
      BY <1>1, AppendMembers
    <3> QED BY <1>1, <3>2, <3>3 DEF OnlyErasedGo
  <2> QED BY <2>1, <2>2
<1>5. ASSUME NEW id \in 1 .. MaxNodes, DeletionAnswer(id) PROVE OnlyErasedGo
  <2>1. CASE erasure[id] # "done"
    BY <1>2, <1>5, <2>1 DEF DeletionAnswer
  <2>2. CASE erasure[id] = "done"
    <3>1. nodes' = Filtered(nodes, {n \in Rows : n.id # id}) /\ library' = library
      BY <1>5, <2>2 DEF DeletionAnswer
    <3>2. ToSet(nodes') = ToSet(nodes) \cap {n \in Rows : n.id # id}
      BY <1>1, <3>1, FilteredElements
    <3>3. \A n \in ToSet(library) : n.id # id
      BY <2>2 DEF ManagerInv, Numbered
    <3> QED BY <1>1, <3>1, <3>2, <3>3 DEF OnlyErasedGo
  <2> QED BY <2>1, <2>2
<1>6. CASE ManagerNext
  <2>1. CASE ManagerUser
    BY <1>2, <2>1, Zenon DEF ManagerUser, OpenImport, CloseImport, ToggleTag, CloseDetail, HandleRunTest, CloseTest,
       ChooseVersion, HandleViewNode, HandleTestNode, HandleAddNode, HandleDeleteNode, AnswerDeleteDialog
  <2>2. CASE ManagerSystem
    <3>1. ASSUME TestAnswer \/ (\E i \in 1 .. MaxActs, found \in BOOLEAN : DetailAnswer(i, found))
                 \/ (\E f \in Fetches : ListNodes(f)) \/ ImportOnServer \/ (\E id \in 1 .. MaxNodes : DeleteOnServer(id))
          PROVE  nodes' = nodes
      BY <3>1, Zenon DEF TestAnswer, DetailAnswer, ListNodes, ImportOnServer, DeleteOnServer
    <3> QED BY <1>2, <1>3, <1>4, <1>5, <2>2, <3>1 DEF ManagerSystem
  <2>3. CASE ManagerUpsets
    BY <1>2, <2>3, Zenon DEF ManagerUpsets, NodesFail, ImportFails, DeletionFails, OthersImport, OthersErase
  <2> QED BY <1>6, <2>1, <2>2, <2>3 DEF ManagerNext
<1>7. CASE OnSettings \/ OnWorkflows \/ OnExecutors \/ UNCHANGED clientVars
  BY <1>2, <1>7 DEF OnSettings, OnWorkflows, OnExecutors, clientVars, managerVars
<1>8. ASSUME NEW name \in Pages, Visit(name) PROVE OnlyErasedGo
  BY <1>2, <1>8, ManagerVisited DEF ManagerMount, ManagerLeave, managerVars
<1> QED BY <1>6, <1>7, <1>8 DEF ClientNext

\* When the page of nodes waits for nothing, the store lists the library, each
\* node once, however many pages were put together, unless the library changed
\* under a load or behind the page; and the details are of the node that was
\* clicked last (nodeStore.ts, NodeManagerPage.tsx, service/node.go).
THEOREM LibraryIsListed == ClientSpec => []StoreListsTheLibrary
<1> QED BY ManagerBegins, ManagerHolds, ManagerAgrees, PTL DEF ClientSpec

\* A refused or failed deletion takes no node off the list: what leaves it
\* without a load has left the library before (nodeStore.ts, removeNode).
THEOREM ErasedOnly == ClientSpec => OnlyTheErasedGo
<1>1. ManagerInv /\ [ClientNext]_clientVars => [OnlyErasedGo]_managerVars
  BY ErasedGo
<1>2. OnlyTheErasedGo <=> [][OnlyErasedGo]_managerVars
  BY DEF OnlyTheErasedGo, OnlyErasedGo
<1> QED BY <1>1, <1>2, ManagerBegins, ManagerHolds, PTL DEF ClientSpec

-----------------------------------------------------------------------------
(* The executors: types, and the operation under way.                      *)

Kinds     == {"create", "update", "default", "enable", "disable", "remove"}
Reload    == [step : {"idle", "sent", "answer"}, rows : Seq(Shown), mine : BOOLEAN, old : BOOLEAN]
Operation == [step : {"idle", "sent", "done", "refused", "reloading"}, kind : Kinds \cup {"none"},
              id : 0 .. MaxExecutors, config : Configs, raced : BOOLEAN, here : BOOLEAN]
Question  == [kind : {"disable", "remove"}, id : Executors]

RowsTyped == /\ registry \in [Executors -> Row \cup {None}] /\ fallback \in Executors /\ registry[fallback] # None
             /\ nextExecutor \in Nat \ {0}
PageTyped == /\ executors \in Seq(Shown) /\ reload \in [Reloads -> Reload]
             /\ selectedId \in 0 .. MaxExecutors /\ creating \in BOOLEAN
             /\ form \in [of : 0 .. MaxExecutors, config : Configs]
             /\ testing \in 0 .. MaxExecutors /\ testResult \in Executors \cup {None}
             /\ question = None \/ question \in Question
OpTyped == /\ operation \in Operation
           /\ operation.step # "idle" => /\ operation.kind \in Kinds
                                         /\ operation.kind # "create" => operation.id \in Executors
           /\ operation.step \in {"done", "reloading"} => operation.id \in Executors

(* What an operation that succeeded has made of the registry.              *)
Effect(kind, i, c) ==
    IF kind = "remove" THEN registry[i] = None
    ELSE IF kind = "default" THEN fallback = i
    ELSE registry[i] # None /\ IF kind \in {"create", "update"} THEN registry[i].config = c
                               ELSE registry[i].disabled = (kind = "disable")

(* The load of an operation is its own, and there is one; while nobody     *)
(* else has changed the registry, the effect is in the registry, and in    *)
(* what the load brings.                                                   *)
OwnLoad == /\ \A l \in Reloads : reload[l].mine => reload[l].step # "idle" /\ operation.step = "reloading"
           /\ \A l, m \in Reloads : reload[l].mine /\ reload[m].mine => l = m
           /\ operation.step = "reloading" => \E l \in Reloads : reload[l].mine
OwnEffect == operation.step \in {"done", "reloading"} /\ ~operation.raced =>
                 /\ Effect(operation.kind, operation.id, operation.config)
                 /\ \A l \in Reloads : reload[l].mine /\ reload[l].step = "answer" => reload[l].rows = ListExecutors
OperationInv == RowsTyped /\ PageTyped /\ OpTyped /\ OwnLoad /\ OwnEffect

(* What the server lists.                                                  *)
LEMMA ListedIs ==
    ASSUME NEW rows \in [Executors -> Row \cup {None}], NEW default \in Executors
    PROVE  /\ Listed(rows, default) \in Seq(Shown)
           /\ \A r \in ToSet(Listed(rows, default)) :
                /\ r.id \in Executors /\ rows[r.id] # None /\ r.config = rows[r.id].config
                /\ r.disabled = rows[r.id].disabled /\ r.isDefault = (r.id = default)
           /\ \A i \in Executors : rows[i] # None => \E r \in ToSet(Listed(rows, default)) : r.id = i
<1> DEFINE there == {i \in Executors : rows[i] # None}
           byName == [i \in Executors |-> i]
           first == Filtered(byName, there \cap {default})
           others == Filtered(byName, there \ {default})
           order == first \o others
           Of(i) == [id |-> i, config |-> rows[i].config, disabled |-> rows[i].disabled, isDefault |-> i = default]
           list == [k \in DOMAIN order |-> Of(order[k])]
<1>1. list = Listed(rows, default)
  BY DEF Listed
<1>2. byName \in Seq(Executors) /\ ToSet(byName) = Executors
  <2>1. byName \in Seq(Executors) /\ DOMAIN byName = Executors
    BY ConfigAssumption DEF Executors
  <2> QED BY <2>1 DEF ToSet
<1> HIDE DEF byName
<1>3. /\ first \in Seq(Executors) /\ ToSet(first) = there \cap {default}
      /\ others \in Seq(Executors) /\ ToSet(others) = there \ {default}
  <2>1. ToSet(first) = ToSet(byName) \cap (there \cap {default})
    BY <1>2, FilteredElements
  <2>2. ToSet(others) = ToSet(byName) \cap (there \ {default})
    BY <1>2, FilteredElements
  <2> QED BY <2>1, <2>2, <1>2, FilteredKeeps
<1> HIDE DEF first, others
<1>4. order \in Seq(Executors) /\ ToSet(order) = there
  BY <1>3, ConcatMembers
<1> HIDE DEF order
<1>5. /\ DOMAIN order = 1 .. Len(order) /\ Len(order) \in Nat
      /\ \A k \in 1 .. Len(order) : order[k] \in there
      /\ \A i \in there : \E k \in 1 .. Len(order) : order[k] = i
  BY <1>4, MembersAre
<1>6. \A i \in there : Of(i) \in Shown
  <2>1. ASSUME NEW i \in there PROVE rows[i] \in Row
    BY ConfigAssumption
  <2> QED BY <2>1 DEF Row, Shown
<1>7. \A i \in there : /\ Of(i).id = i /\ Of(i).config = rows[i].config /\ Of(i).disabled = rows[i].disabled
                       /\ Of(i).isDefault = (i = default)
  OBVIOUS
<1> HIDE DEF Of
<1>8. list \in Seq(Shown) /\ DOMAIN list = 1 .. Len(order) /\ \A k \in 1 .. Len(order) : list[k] = Of(order[k])
  BY <1>5, <1>6
<1> HIDE DEF list
<1>9. ASSUME NEW r \in ToSet(list)
      PROVE  \E i \in there : r = Of(i)
  BY <1>5, <1>8 DEF ToSet
<1>10. ASSUME NEW i \in there
       PROVE  Of(i) \in ToSet(list)
  BY <1>5, <1>8 DEF ToSet
<1> QED BY <1>1, <1>7, <1>8, <1>9, <1>10

LEMMA RegistryListed ==
    ASSUME RowsTyped
    PROVE  /\ ListExecutors \in Seq(Shown)
           /\ \A r \in ToSet(ListExecutors) :
                /\ r.id \in Executors /\ registry[r.id] # None /\ r.config = registry[r.id].config
                /\ r.disabled = registry[r.id].disabled /\ r.isDefault = (r.id = fallback)
           /\ \A i \in Executors : registry[i] # None => \E r \in ToSet(ListExecutors) : r.id = i
BY ListedIs DEF RowsTyped, ListExecutors

(* The executor on show.                                                   *)
LEMMA SelectedIs ==
    ASSUME NEW rows \in Seq(Shown), NEW id, NEW new, Selected(rows, id, new) # None
    PROVE  /\ Selected(rows, id, new) \in ToSet(rows) /\ Selected(rows, id, new) \in Shown
           /\ (\E r \in ToSet(rows) : r.id = id) => Selected(rows, id, new).id = id
<1>1. ~new /\ rows # <<>>
  BY DEF Selected
<1>2. ToSet(rows) \subseteq Shown /\ \A k \in DOMAIN rows : rows[k] \in ToSet(rows)
  BY MembersAre
<1>3. CASE \E k \in DOMAIN rows : rows[k].id = id
  <2>1. \E r \in ToSet(rows) : r.id = id
    BY <1>2, <1>3
  <2>2. Selected(rows, id, new) = CHOOSE r \in ToSet(rows) : r.id = id
    BY <1>1, <1>3 DEF Selected
  <2> QED BY <1>2, <2>1, <2>2
<1>4. CASE ~ \E k \in DOMAIN rows : rows[k].id = id
  <2>1. ~ \E r \in ToSet(rows) : r.id = id
    BY <1>4, MembersAre
  <2>2. rows[1] \in ToSet(rows)
    BY <1>1, MembersAre
  <2>3. Selected(rows, id, new) = rows[1]
    BY <1>1, <1>4 DEF Selected
  <2> QED BY <1>2, <2>1, <2>2, <2>3
<1> QED BY <1>3, <1>4

LEMMA FormTyped ==
    ASSUME NEW rows \in Seq(Shown), NEW id, NEW new
    PROVE  ToFormState(Selected(rows, id, new)) \in [of : 0 .. MaxExecutors, config : Configs]
<1>1. 0 \in 0 .. MaxExecutors /\ Executors \subseteq 0 .. MaxExecutors /\ Plain \in Configs
  BY ConfigAssumption DEF Executors
<1>2. CASE Selected(rows, id, new) = None
  BY <1>1, <1>2 DEF ToFormState
<1>3. CASE Selected(rows, id, new) # None
  <2>1. Selected(rows, id, new) \in Shown
    BY <1>3, SelectedIs
  <2> QED BY <1>1, <1>3, <2>1 DEF ToFormState, Shown
<1> QED BY <1>2, <1>3

(* What the service makes of the registry.                                 *)
LEMMA ChangeTakesEffect ==
    ASSUME RowsTyped, NEW kind \in Kinds, NEW i, NEW c \in Configs, kind # "create" => i \in Executors,
           Change(kind, i, c)
    PROVE  RowsTyped' /\ \E n \in Executors : n = (IF kind = "create" THEN nextExecutor ELSE i) /\ Effect(kind, n, c)'
<1> DEFINE after == Changed(kind, i, c)
<1>1. /\ after # None /\ registry' = after.rows /\ fallback' = after.default
      /\ nextExecutor' = IF kind = "create" THEN nextExecutor + 1 ELSE nextExecutor
  BY DEF Change
<1>2. /\ registry \in [Executors -> Row \cup {None}] /\ fallback \in Executors /\ registry[fallback] # None
      /\ nextExecutor \in Nat \ {0} /\ nextExecutor' \in Nat \ {0} /\ None \notin Row
  BY <1>1, ConfigAssumption DEF RowsTyped, Row
<1>3. CASE kind = "create"
  <2> DEFINE row == [config |-> c, disabled |-> FALSE]
  <2>1. nextExecutor <= MaxExecutors /\ registry' = [registry EXCEPT ![nextExecutor] = row] /\ fallback' = fallback
    BY <1>1, <1>3 DEF Changed
  <2>2. nextExecutor \in Executors
    BY <2>1, <1>2, ConfigAssumption DEF Executors
  <2>3. row \in Row /\ row # None /\ row.config = c
    <3>1. FALSE \in BOOLEAN /\ row.config = c
      OBVIOUS
    <3>2. row \in Row
      BY <3>1 DEF Row
    <3> QED BY <1>2, <3>1, <3>2
  <2> HIDE DEF row
  <2>4. registry' \in [Executors -> Row \cup {None}] /\ registry'[fallback] # None /\ registry'[nextExecutor] = row
    BY <1>2, <2>1, <2>2, <2>3
  <2>5. RowsTyped'
    BY <1>2, <2>1, <2>4 DEF RowsTyped
  <2>6. PICK n \in Executors : n = nextExecutor
    BY <2>2
  <2>7. Effect(kind, n, c)'
    BY <1>3, <2>3, <2>4, <2>6 DEF Effect
  <2> QED BY <1>3, <2>5, <2>6, <2>7
<1>4. CASE kind # "create"
  <2>1. i \in Executors /\ registry[i] # None /\ registry[i] \in Row /\ nextExecutor' = nextExecutor
    BY <1>1, <1>2, <1>4 DEF Changed
  <2>2. CASE kind = "update"
    <3> DEFINE row == [registry[i] EXCEPT !.config = c]
    <3>1. registry' = [registry EXCEPT ![i] = row] /\ fallback' = fallback
      BY <1>1, <2>1, <2>2 DEF Changed
    <3>2. row \in Row /\ row # None /\ row.config = c
      BY <1>2, <2>1 DEF Row
    <3> HIDE DEF row
    <3> QED BY <1>2, <2>1, <2>2, <3>1, <3>2 DEF RowsTyped, Effect
  <2>3. CASE kind = "default"
    <3>1. registry' = registry /\ fallback' = i
      BY <1>1, <2>1, <2>3 DEF Changed
    <3> QED BY <1>2, <2>1, <2>3, <3>1 DEF RowsTyped, Effect
  <2>4. CASE kind = "enable"
    <3> DEFINE row == [registry[i] EXCEPT !.disabled = FALSE]
    <3>1. registry' = [registry EXCEPT ![i] = row] /\ fallback' = fallback
      BY <1>1, <2>1, <2>4 DEF Changed
    <3>2. row \in Row /\ row # None /\ row.disabled = FALSE
      BY <1>2, <2>1 DEF Row
    <3> HIDE DEF row
    <3> QED BY <1>2, <2>1, <2>4, <3>1, <3>2 DEF RowsTyped, Effect
  <2>5. CASE kind = "disable"
    <3> DEFINE row == [registry[i] EXCEPT !.disabled = TRUE]
    <3>1. registry' = [registry EXCEPT ![i] = row] /\ fallback' = fallback
      BY <1>1, <2>1, <2>5 DEF Changed
    <3>2. row \in Row /\ row # None /\ row.disabled = TRUE
      BY <1>2, <2>1 DEF Row
    <3> HIDE DEF row
    <3> QED BY <1>2, <2>1, <2>5, <3>1, <3>2 DEF RowsTyped, Effect
  <2>6. CASE kind = "remove"
    <3>1. registry' = [registry EXCEPT ![i] = None] /\ fallback' = fallback /\ i # fallback
      BY <1>1, <2>1, <2>6 DEF Changed
    <3> QED BY <1>2, <2>1, <2>6, <3>1 DEF RowsTyped, Effect
  <2> QED BY <1>4, <2>2, <2>3, <2>4, <2>5, <2>6 DEF Kinds
<1> QED BY <1>3, <1>4

OpInv == OpTyped /\ OwnLoad /\ OwnEffect

(* What the steps of the page leave as it is.                              *)
LEMMA RowsKept ==
    ASSUME RowsTyped, UNCHANGED <<registry, fallback, nextExecutor>>
    PROVE  RowsTyped'
BY DEF RowsTyped

LEMMA OpKept ==
    ASSUME OpInv, UNCHANGED <<registry, fallback, reload, operation>>
    PROVE  OpInv'
<1>1. ListExecutors' = ListExecutors
  BY SameRegistry
<1>2. OwnEffect'
  BY <1>1 DEF OpInv, OwnEffect, Effect
<1> QED BY <1>2 DEF OpInv, OpTyped, OwnLoad

LEMMA PageKept ==
    ASSUME PageTyped, UNCHANGED <<executors, reload, selectedId, creating, form, testing, testResult, question>>
    PROVE  PageTyped'
BY DEF PageTyped

LEMMA FillTyped ==
    ASSUME PageTyped, executors' \in Seq(Shown), NEW id, NEW new, Fill(executors', id, new)
    PROVE  form' \in [of : 0 .. MaxExecutors, config : Configs]
BY FormTyped DEF PageTyped, Fill

LEMMA CurrentTyped ==
    ASSUME PageTyped, Current # None
    PROVE  Current.id \in Executors /\ Executors \subseteq 0 .. MaxExecutors
<1>1. Current \in Shown
  BY SelectedIs DEF PageTyped, Current
<1> QED BY <1>1, ConfigAssumption DEF Shown, Executors

(* The operation that is asked for, and the end of one.                    *)
LEMMA NoOpTyped == NoOp \in Operation /\ NoOp.step = "idle"
<1>1. 0 \in 0 .. MaxExecutors /\ Plain \in Configs /\ FALSE \in BOOLEAN /\ TRUE \in BOOLEAN
  BY ConfigAssumption
<1> QED BY <1>1 DEF NoOp, Operation

LEMMA RunOpTyped ==
    ASSUME NEW kind \in Kinds, NEW id \in 0 .. MaxExecutors, NEW c \in Configs, RunOp(kind, id, c)
    PROVE  operation' \in Operation /\ operation'.step = "sent" /\ operation'.kind = kind /\ operation'.id = id
<1>1. operation' = [step |-> "sent", kind |-> kind, id |-> id, config |-> c, raced |-> FALSE, here |-> TRUE]
  BY DEF RunOp, NoOp
<1>2. FALSE \in BOOLEAN /\ TRUE \in BOOLEAN /\ kind \in Kinds \cup {"none"}
  OBVIOUS
<1> QED BY <1>1, <1>2 DEF Operation

LEMMA OpStarts ==
    ASSUME OpInv, operation.step = "idle", NEW kind \in Kinds, NEW id \in 0 .. MaxExecutors, NEW c \in Configs,
           kind # "create" => id \in Executors, RunOp(kind, id, c), UNCHANGED reload
    PROVE  OpInv'
<1>1. operation' \in Operation /\ operation'.step = "sent" /\ operation'.kind = kind /\ operation'.id = id
  BY RunOpTyped
<1>2. \A l \in Reloads : ~reload[l].mine
  BY DEF OpInv, OwnLoad
<1> QED BY <1>1, <1>2 DEF OpInv, OpTyped, OwnLoad, OwnEffect

LEMMA OpEnds ==
    ASSUME OpInv, operation' = NoOp, \A l \in Reloads : ~reload'[l].mine
    PROVE  OpInv'
BY NoOpTyped DEF OpInv, OpTyped, OwnLoad, OwnEffect

(* The loads.                                                              *)
LEMMA NoReloadTyped ==
    /\ NoReload \in Reload /\ NoReload.step = "idle" /\ NoReload.mine = FALSE
    /\ \A own \in BOOLEAN : LET new == [NoReload EXCEPT !.step = "sent", !.mine = own]
                            IN  new \in Reload /\ new.step = "sent" /\ new.mine = own
<1>1. FALSE \in BOOLEAN /\ <<>> \in Seq(Shown)
  OBVIOUS
<1>2. NoReload \in Reload
  BY <1>1 DEF NoReload, Reload
<1>3. ASSUME NEW own \in BOOLEAN, NEW new, new = [NoReload EXCEPT !.step = "sent", !.mine = own]
      PROVE  new \in Reload /\ new.step = "sent" /\ new.mine = own
  BY <1>2, <1>3 DEF Reload
<1>4. NoReload.step = "idle" /\ NoReload.mine = FALSE
  BY DEF NoReload
<1> QED BY <1>2, <1>3, <1>4

LEMMA LoadTyped ==
    ASSUME PageTyped, NEW own \in BOOLEAN, LoadExecutors(own)
    PROVE  /\ reload' \in [Reloads -> Reload]
           /\ \E l \in Reloads : /\ reload[l].step = "idle" /\ reload'[l].step = "sent" /\ reload'[l].mine = own
                                 /\ \A m \in Reloads \ {l} : reload'[m] = reload[m]
<1>1. reload \in [Reloads -> Reload]
  BY DEF PageTyped
<1>2. PICK l \in Reloads : l = Slot(reload) /\ reload[l].step = "idle"
  BY <1>1, SlotIsFree DEF LoadExecutors
<1>3. PICK new : new = [NoReload EXCEPT !.step = "sent", !.mine = own]
  OBVIOUS
<1>4. new \in Reload /\ new.step = "sent" /\ new.mine = own
  BY <1>3, NoReloadTyped
<1>5. reload' = [reload EXCEPT ![l] = new]
  BY <1>2, <1>3, Zenon DEF LoadExecutors
<1> QED BY <1>1, <1>2, <1>4, <1>5

LEMMA OutdatedTyped ==
    ASSUME PageTyped
    PROVE  /\ Outdated \in [Reloads -> Reload]
           /\ \A l \in Reloads : /\ Outdated[l].step = reload[l].step /\ Outdated[l].rows = reload[l].rows
                                 /\ Outdated[l].mine = reload[l].mine
<1>1. ASSUME NEW l \in Reloads
      PROVE  /\ Outdated[l] \in Reload
             /\ Outdated[l].step = reload[l].step /\ Outdated[l].rows = reload[l].rows /\ Outdated[l].mine = reload[l].mine
  <2>1. PICK k \in Reload : k = reload[l]
    BY DEF PageTyped
  <2>2. PICK b \in BOOLEAN : b = (k.step = "answer")
    OBVIOUS
  <2>3. Outdated[l] = [k EXCEPT !.old = b]
    BY <2>1, <2>2 DEF Outdated
  <2> QED BY <2>1, <2>3 DEF Reload
<1> QED BY <1>1 DEF Outdated

LEMMA ReadTyped ==
    ASSUME OperationInv, NEW l \in Reloads, ReadRegistry(l)
    PROVE  OperationInv'
<1>1. /\ UNCHANGED <<registry, fallback, nextExecutor, executors, selectedId, creating, form, operation, testing, testResult, question>>
      /\ reload[l].step = "sent"
  BY DEF ReadRegistry, serverSide, formVars, testingVars
<1>2. PICK k \in Reload : k = reload[l]
  BY DEF OperationInv, PageTyped
<1>3. PICK new : new = [k EXCEPT !.step = "answer", !.rows = ListExecutors, !.old = FALSE]
  OBVIOUS
<1>4. new \in Reload /\ new.step = "answer" /\ new.rows = ListExecutors /\ new.mine = k.mine
  BY <1>3, RegistryListed DEF Reload, OperationInv
<1>5. reload' = [reload EXCEPT ![l] = new]
  BY <1>2, <1>3, Zenon DEF ReadRegistry
<1>6. reload' \in [Reloads -> Reload] /\ reload'[l] = new /\ \A m \in Reloads \ {l} : reload'[m] = reload[m]
  BY <1>4, <1>5 DEF OperationInv, PageTyped
<1>7. RowsTyped' /\ PageTyped' /\ OpTyped'
  BY <1>1, <1>6 DEF OperationInv, RowsTyped, PageTyped, OpTyped
<1>8. \A m \in Reloads : reload'[m].mine = reload[m].mine /\ (reload'[m].step = "idle" <=> reload[m].step = "idle")
  BY <1>1, <1>2, <1>4, <1>6
<1>9. OwnLoad'
  BY <1>1, <1>8 DEF OperationInv, OwnLoad
<1>10. OwnEffect'
  <2>1. ListExecutors' = ListExecutors
    BY <1>1, SameRegistry
  <2> QED BY <1>1, <1>4, <1>6, <2>1 DEF OperationInv, OwnEffect, Effect
<1> QED BY <1>7, <1>9, <1>10 DEF OperationInv

(* An answer or a failure ends the load, and the operation with its own.   *)
LEMMA ReloadEnds ==
    ASSUME OperationInv, NEW l \in Reloads, ReloadAnswer(l) \/ ReloadFails(l)
    PROVE  OperationInv'
<1>1. /\ UNCHANGED <<registry, fallback, nextExecutor, selectedId, testing, question>>
      /\ reload' = [Outdated EXCEPT ![l] = NoReload]
      /\ executors' = reload[l].rows \/ executors' = executors
  BY DEF ReloadAnswer, ReloadFails, serverSide
<1>2. /\ reload' \in [Reloads -> Reload] /\ reload'[l].mine = FALSE
      /\ \A m \in Reloads \ {l} : /\ reload'[m].step = reload[m].step /\ reload'[m].rows = reload[m].rows
                                  /\ reload'[m].mine = reload[m].mine
  BY <1>1, OutdatedTyped, NoReloadTyped DEF OperationInv
<1>3. executors' \in Seq(Shown)
  BY <1>1 DEF OperationInv, PageTyped, Reload
<1>4. /\ reload[l].mine => Finish(executors', selectedId, creating)
      /\ ~reload[l].mine => operation' = operation /\ creating' = creating /\ testResult' = testResult
                            /\ (form' = form \/ Fill(executors', selectedId, creating))
  BY DEF ReloadAnswer, ReloadFails
<1>5. /\ creating' \in BOOLEAN /\ testResult' \in Executors \cup {None}
      /\ form' \in [of : 0 .. MaxExecutors, config : Configs]
  <2>1. CASE reload[l].mine
    BY <1>3, <1>4, <2>1, FillTyped DEF Finish, OperationInv, PageTyped
  <2>2. CASE ~reload[l].mine
    BY <1>3, <1>4, <2>2, FillTyped DEF OperationInv, PageTyped
  <2> QED BY <2>1, <2>2
<1>6. RowsTyped' /\ PageTyped'
  BY <1>1, <1>2, <1>3, <1>5 DEF OperationInv, RowsTyped, PageTyped
<1>7. OpInv'
  <2>1. CASE reload[l].mine
    <3>1. \A m \in Reloads : ~reload'[m].mine
      BY <1>2, <2>1 DEF OperationInv, OwnLoad
    <3> QED BY <1>4, <2>1, <3>1, OpEnds DEF Finish, OperationInv, OpInv
  <2>2. CASE ~reload[l].mine
    <3>1. operation' = operation /\ ListExecutors' = ListExecutors
      BY <1>1, <1>4, <2>2, SameRegistry
    <3>2. OwnLoad'
      BY <1>2, <2>2, <3>1 DEF OperationInv, OwnLoad
    <3>3. OwnEffect'
      BY <1>1, <1>2, <2>2, <3>1 DEF OperationInv, OwnEffect, Effect
    <3> QED BY <3>1, <3>2, <3>3 DEF OperationInv, OpInv, OpTyped
  <2> QED BY <2>1, <2>2
<1> QED BY <1>6, <1>7 DEF OperationInv, OpInv

LEMMA OwnLoadBegins ==
    ASSUME OperationInv, NEW own \in BOOLEAN, LoadExecutors(own),
           UNCHANGED <<registry, fallback, nextExecutor, executors, selectedId, creating, form, testing, testResult, question>>,
           \/ ~own /\ UNCHANGED operation
           \/ own /\ operation.step = "done" /\ operation' = [operation EXCEPT !.step = "reloading"]
    PROVE  OperationInv'
<1>1. PICK l \in Reloads :
         /\ reload[l].step = "idle" /\ reload'[l].step = "sent" /\ reload'[l].mine = own
         /\ \A m \in Reloads \ {l} : reload'[m] = reload[m]
  BY LoadTyped DEF OperationInv
<1>2. reload' \in [Reloads -> Reload]
  BY LoadTyped DEF OperationInv
<1>3. RowsTyped' /\ PageTyped'
  BY <1>2 DEF OperationInv, RowsTyped, PageTyped
<1>4. ListExecutors' = ListExecutors /\ ~reload[l].mine
  BY <1>1, SameRegistry DEF OperationInv, OwnLoad
<1>5. CASE ~own /\ UNCHANGED operation
  <2>1. OpTyped'
    BY <1>5 DEF OperationInv, OpTyped
  <2>2. OwnLoad'
    BY <1>1, <1>4, <1>5 DEF OperationInv, OwnLoad
  <2>3. OwnEffect'
    BY <1>1, <1>4, <1>5 DEF OperationInv, OwnLoad, OwnEffect, Effect
  <2> QED BY <1>3, <2>1, <2>2, <2>3 DEF OperationInv
<1>6. CASE own /\ operation.step = "done" /\ operation' = [operation EXCEPT !.step = "reloading"]
  <2>1. /\ operation' \in Operation /\ operation'.step = "reloading" /\ operation'.kind = operation.kind
        /\ operation'.id = operation.id /\ operation'.config = operation.config /\ operation'.raced = operation.raced
    BY <1>6 DEF OperationInv, OpTyped, Operation
  <2>2. OpTyped'
    BY <1>6, <2>1 DEF OperationInv, OpTyped
  <2>3. \A m \in Reloads : ~reload[m].mine
    BY <1>6 DEF OperationInv, OwnLoad
  <2>4. OwnLoad'
    <3>1. reload'[l].mine /\ reload'[l].step = "sent"
      BY <1>1, <1>6
    <3>2. \A m \in Reloads \ {l} : ~reload'[m].mine
      BY <1>1, <2>3
    <3> QED BY <2>1, <3>1, <3>2 DEF OwnLoad
  <2>5. OwnEffect'
    BY <1>1, <1>6, <2>1, <2>3 DEF OperationInv, OwnEffect, Effect
  <2> QED BY <1>3, <2>2, <2>4, <2>5 DEF OperationInv
<1> QED BY <1>5, <1>6

(* What the user does.                                                     *)
LEMMA OperationUse ==
    ASSUME OperationInv, ExecutorUser
    PROVE  OperationInv'
<1>0. OperationInv <=> RowsTyped /\ PageTyped /\ OpInv
  BY DEF OperationInv, OpInv
<1>1. RowsTyped /\ PageTyped /\ OpInv
  BY <1>0
<1>2. ASSUME RowsTyped', PageTyped', OpInv' PROVE OperationInv'
  BY <1>2 DEF OperationInv, OpInv
<1>3. ASSUME NEW i \in Executors, SelectExecutor(i) PROVE OperationInv'
  <2>1. /\ UNCHANGED <<registry, fallback, nextExecutor, executors, reload, operation, testing, question>>
        /\ selectedId' = i /\ creating' = FALSE /\ testResult' = None /\ Fill(executors', i, FALSE)
    BY <1>3 DEF SelectExecutor, serverSide, Fill
  <2>2. form' \in [of : 0 .. MaxExecutors, config : Configs]
    BY <1>1, <2>1, FillTyped DEF PageTyped
  <2>3. i \in 0 .. MaxExecutors
    BY ConfigAssumption DEF Executors
  <2>4. PageTyped'
    BY <1>1, <2>1, <2>2, <2>3 DEF PageTyped
  <2> QED BY <1>1, <1>2, <2>1, <2>4, RowsKept, OpKept
<1>4. ASSUME NEW new \in BOOLEAN, SetCreating(new) PROVE OperationInv'
  <2>1. /\ UNCHANGED <<registry, fallback, nextExecutor, executors, reload, operation, selectedId, testing, testResult, question>>
        /\ creating' = new /\ Fill(executors', selectedId, new)
    BY <1>4 DEF SetCreating, serverSide, testingVars, Fill
  <2>2. form' \in [of : 0 .. MaxExecutors, config : Configs]
    BY <1>1, <2>1, FillTyped DEF PageTyped
  <2>3. PageTyped'
    BY <1>1, <2>1, <2>2 DEF PageTyped
  <2> QED BY <1>1, <1>2, <2>1, <2>3, RowsKept, OpKept
<1>5. ASSUME NEW c \in Configs, EditForm(c) PROVE OperationInv'
  <2>1. /\ UNCHANGED <<registry, fallback, nextExecutor, executors, reload, operation, selectedId, creating, testing, testResult, question>>
        /\ form' = [form EXCEPT !.config = c]
    BY <1>5 DEF EditForm, serverSide, testingVars
  <2>2. form' \in [of : 0 .. MaxExecutors, config : Configs]
    BY <1>1, <2>1 DEF PageTyped
  <2>3. PageTyped'
    BY <1>1, <2>1, <2>2 DEF PageTyped
  <2> QED BY <1>1, <1>2, <2>1, <2>3, RowsKept, OpKept
<1>6. ASSUME NEW kind \in Kinds, NEW id \in 0 .. MaxExecutors, NEW c \in Configs, kind # "create" => id \in Executors,
             operation.step = "idle", RunOp(kind, id, c),
             UNCHANGED <<registry, fallback, nextExecutor, executors, reload, selectedId, creating, form, testing, testResult>>,
             question' = question \/ question' = None
      PROVE  OperationInv'
  <2>1. PageTyped'
    BY <1>1, <1>6 DEF PageTyped
  <2> QED BY <1>1, <1>2, <1>6, <2>1, RowsKept, OpStarts
<1>7. Plain \in Configs /\ 0 \in 0 .. MaxExecutors /\ Executors \subseteq 0 .. MaxExecutors
      /\ {"create", "update", "default", "enable", "disable", "remove"} = Kinds
  BY ConfigAssumption DEF Executors, Kinds
<1>8. ASSUME HandleSubmit PROVE OperationInv'
  <2>1. /\ UNCHANGED <<registry, fallback, nextExecutor, executors, reload, selectedId, creating, form, testing, testResult, question>>
        /\ operation.step = "idle" /\ form.config \in Configs
    BY <1>1, <1>8 DEF HandleSubmit, serverSide, formVars, testingVars, PageTyped
  <2>2. CASE creating
    <3>1. RunOp("create", 0, form.config)
      BY <1>8, <2>2 DEF HandleSubmit
    <3> QED BY <1>6, <1>7, <2>1, <3>1
  <2>3. CASE ~creating
    <3>1. RunOp("update", Current.id, form.config) /\ Current # None
      BY <1>8, <2>3 DEF HandleSubmit
    <3> QED BY <1>1, <1>6, <1>7, <2>1, <3>1, CurrentTyped
  <2> QED BY <2>2, <2>3
<1>9. ASSUME SetDefault \/ Enable PROVE OperationInv'
  <2>1. /\ UNCHANGED <<registry, fallback, nextExecutor, executors, reload, selectedId, creating, form, testing, testResult, question>>
        /\ operation.step = "idle" /\ Current # None
        /\ RunOp("default", Current.id, Plain) \/ RunOp("enable", Current.id, Plain)
    BY <1>9 DEF SetDefault, Enable, serverSide, formVars, testingVars
  <2> QED BY <1>1, <1>6, <1>7, <2>1, CurrentTyped
<1>10. ASSUME NEW kind \in {"disable", "remove"}, AskFirst(kind) PROVE OperationInv'
  <2>1. /\ UNCHANGED <<registry, fallback, nextExecutor, executors, reload, selectedId, creating, form, testing, testResult>>
        /\ operation.step = "idle" /\ Current # None
        /\ \/ question' = [kind |-> kind, id |-> Current.id] /\ operation' = operation
           \/ RunOp(kind, Current.id, Plain) /\ question' = question
    BY <1>10 DEF AskFirst, serverSide, formVars, testingVars
  <2>2. Current.id \in Executors
    BY <1>1, <2>1, CurrentTyped
  <2>3. CASE RunOp(kind, Current.id, Plain) /\ question' = question
    BY <1>6, <1>7, <2>1, <2>2, <2>3
  <2>4. CASE question' = [kind |-> kind, id |-> Current.id] /\ operation' = operation
    <3>1. question' \in Question
      BY <2>2, <2>4 DEF Question
    <3>2. PageTyped'
      BY <1>1, <2>1, <3>1 DEF PageTyped
    <3> QED BY <1>1, <1>2, <2>1, <2>4, <3>2, RowsKept, OpKept
  <2> QED BY <2>1, <2>3, <2>4
<1>11. ASSUME NEW ok \in BOOLEAN, AnswerQuestion(ok) PROVE OperationInv'
  <2>1. /\ UNCHANGED <<registry, fallback, nextExecutor, executors, reload, selectedId, creating, form, testing, testResult>>
        /\ operation.step = "idle" /\ question' = None /\ question \in Question
        /\ RunOp(question.kind, question.id, Plain) \/ operation' = operation
    BY <1>1, <1>11 DEF AnswerQuestion, serverSide, formVars, testingVars, PageTyped
  <2>2. question.kind \in {"disable", "remove"} /\ question.id \in Executors
    BY <2>1 DEF Question
  <2>3. CASE RunOp(question.kind, question.id, Plain)
    BY <1>6, <1>7, <2>1, <2>2, <2>3
  <2>4. CASE operation' = operation
    <3>1. PageTyped'
      BY <1>1, <2>1 DEF PageTyped
    <3> QED BY <1>1, <1>2, <2>1, <2>4, <3>1, RowsKept, OpKept
  <2> QED BY <2>1, <2>3, <2>4
<1>12. ASSUME RunTest PROVE OperationInv'
  <2>1. /\ UNCHANGED <<registry, fallback, nextExecutor, executors, reload, selectedId, creating, form, operation, question>>
        /\ Current # None /\ testing' = Current.id /\ testResult' = None
    BY <1>12 DEF RunTest, serverSide, formVars
  <2>2. PageTyped'
    BY <1>1, <1>7, <2>1, CurrentTyped DEF PageTyped
  <2> QED BY <1>1, <1>2, <2>1, <2>2, RowsKept, OpKept
<1> QED BY <1>3, <1>4, <1>5, <1>8, <1>9, <1>10, <1>11, <1>12 DEF ExecutorUser

(* What the server does, and what comes over the user.                     *)
LEMMA OperationServed ==
    ASSUME OperationInv, OpOnServer
    PROVE  OperationInv'
<1>1. /\ UNCHANGED <<executors, reload, selectedId, creating, form, testing, testResult, question>>
      /\ operation.step = "sent"
  BY DEF OpOnServer, formVars, testingVars
<1>2. PICK k \in Operation : k = operation
  BY DEF OperationInv, OpTyped
<1>3. k.kind \in Kinds /\ (k.kind # "create" => k.id \in Executors) /\ k.config \in Configs
  BY <1>1, <1>2 DEF OperationInv, OpTyped, Operation
<1>4. \A l \in Reloads : ~reload[l].mine
  BY <1>1 DEF OperationInv, OwnLoad
<1>5. PageTyped'
  BY <1>1, PageKept DEF OperationInv
<1>6. CASE /\ Change(k.kind, k.id, k.config)
           /\ operation' = [k EXCEPT !.step = "done", !.raced = FALSE, !.id = IF k.kind = "create" THEN nextExecutor ELSE k.id]
  <2>1. PICK n \in Executors : n = (IF k.kind = "create" THEN nextExecutor ELSE k.id)
    BY <1>3, <1>6, ChangeTakesEffect DEF OperationInv
  <2>2. RowsTyped' /\ Effect(k.kind, n, k.config)'
    BY <1>3, <1>6, <2>1, ChangeTakesEffect DEF OperationInv
  <2>3. operation' = [k EXCEPT !.step = "done", !.raced = FALSE, !.id = n]
    BY <1>6, <2>1, Zenon
  <2>4. n \in 0 .. MaxExecutors
    BY ConfigAssumption DEF Executors
  <2>5. /\ operation' \in Operation /\ operation'.step = "done" /\ operation'.kind = k.kind /\ operation'.id = n
        /\ operation'.config = k.config
    BY <2>3, <2>4 DEF Operation
  <2>6. OpTyped'
    BY <1>3, <2>5 DEF OpTyped
  <2>7. OwnLoad'
    BY <1>1, <1>4, <2>5 DEF OwnLoad
  <2>8. OwnEffect'
    BY <1>1, <1>4, <2>2, <2>5 DEF OwnEffect
  <2> QED BY <1>5, <2>2, <2>6, <2>7, <2>8 DEF OperationInv
<1>7. CASE operation' = [k EXCEPT !.step = "refused"] /\ UNCHANGED serverSide
  <2>1. operation' \in Operation /\ operation'.step = "refused" /\ operation'.kind = k.kind /\ operation'.id = k.id
    BY <1>7 DEF Operation
  <2>2. RowsTyped'
    BY <1>7, RowsKept DEF OperationInv, serverSide
  <2> QED BY <1>1, <1>3, <1>4, <1>5, <2>1, <2>2 DEF OperationInv, OpTyped, OwnLoad, OwnEffect
<1> QED BY <1>2, <1>6, <1>7, Zenon DEF OpOnServer

LEMMA OperationOthers ==
    ASSUME OperationInv, NEW kind \in Kinds \ {"create"}, NEW i \in Executors, NEW c \in Configs, OthersChange(kind, i, c)
    PROVE  OperationInv'
<1>1. /\ UNCHANGED <<executors, reload, selectedId, creating, form, testing, testResult, question>>
      /\ Change(kind, i, c)
      /\ operation' = IF operation.step = "idle" THEN operation ELSE [operation EXCEPT !.raced = TRUE]
  BY DEF OthersChange, formVars, testingVars
<1>2. RowsTyped' /\ PageTyped'
  BY <1>1, ChangeTakesEffect, PageKept DEF OperationInv
<1>3. /\ operation' \in Operation /\ operation'.step = operation.step /\ operation'.kind = operation.kind
      /\ operation'.id = operation.id /\ (operation.step # "idle" => operation'.raced)
  BY <1>1 DEF OperationInv, OpTyped, Operation
<1> QED BY <1>1, <1>2, <1>3 DEF OperationInv, OpTyped, OwnLoad, OwnEffect

LEMMA OperationStep ==
    ASSUME OperationInv, ExecutorNext
    PROVE  OperationInv'
<1>1. ASSUME NoticeExecutors PROVE OperationInv'
  BY <1>1, OwnLoadBegins DEF NoticeExecutors, formVars, testingVars
<1>2. ASSUME OpAnswer PROVE OperationInv'
  <2>1. UNCHANGED <<registry, fallback, nextExecutor, executors, selectedId, creating, form, testing, testResult, question>>
    BY <1>2 DEF OpAnswer, serverSide, formVars, testingVars
  <2>2. CASE operation.step = "done"
    BY <1>2, <2>1, <2>2, OwnLoadBegins DEF OpAnswer
  <2>3. CASE operation.step = "refused"
    <3>1. operation' = NoOp /\ UNCHANGED reload /\ \A l \in Reloads : ~reload[l].mine
      BY <1>2, <2>3 DEF OpAnswer, OperationInv, OwnLoad
    <3> QED BY <2>1, <3>1, OpEnds, RowsKept, PageKept DEF OperationInv, OpInv
  <2> QED BY <1>2, <2>2, <2>3 DEF OpAnswer
<1>3. ASSUME OpFails PROVE OperationInv'
  <2>1. /\ UNCHANGED <<registry, fallback, nextExecutor, executors, reload, selectedId, creating, form, testing, testResult, question>>
        /\ operation' = NoOp /\ \A l \in Reloads : ~reload[l].mine
    BY <1>3 DEF OpFails, serverSide, formVars, testingVars, OperationInv, OwnLoad
  <2> QED BY <2>1, OpEnds, RowsKept, PageKept DEF OperationInv, OpInv
<1>4. ASSUME TestDone PROVE OperationInv'
  <2>1. /\ UNCHANGED <<registry, fallback, nextExecutor, executors, reload, selectedId, creating, form, operation, question>>
        /\ testing # 0 /\ testResult' = testing /\ testing' = 0
    BY <1>4 DEF TestDone, serverSide, formVars
  <2>2. testing \in Executors /\ 0 \in 0 .. MaxExecutors
    BY <2>1, ConfigAssumption DEF OperationInv, PageTyped, Executors
  <2>3. PageTyped'
    BY <2>1, <2>2 DEF OperationInv, PageTyped
  <2> QED BY <2>1, <2>3, RowsKept, OpKept DEF OperationInv, OpInv
<1>5. ASSUME EventLost PROVE OperationInv'
  <2>1. /\ UNCHANGED <<registry, fallback, nextExecutor, executors, selectedId, creating, form, operation, testing, testResult, question>>
        /\ reload' = Outdated
    BY <1>5 DEF EventLost, formVars, testingVars
  <2>2. /\ reload' \in [Reloads -> Reload]
        /\ \A l \in Reloads : /\ reload'[l].step = reload[l].step /\ reload'[l].rows = reload[l].rows
                              /\ reload'[l].mine = reload[l].mine
    BY <2>1, OutdatedTyped DEF OperationInv
  <2>3. RowsTyped' /\ PageTyped'
    BY <2>1, <2>2 DEF OperationInv, RowsTyped, PageTyped
  <2>4. ListExecutors' = ListExecutors
    BY <2>1, SameRegistry
  <2>5. OwnLoad'
    BY <2>1, <2>2 DEF OperationInv, OwnLoad
  <2>6. OwnEffect'
    BY <2>1, <2>2, <2>4 DEF OperationInv, OwnEffect, Effect
  <2> QED BY <2>1, <2>3, <2>5, <2>6 DEF OperationInv, OpTyped
<1>6. CASE ExecutorSystem
  BY <1>1, <1>2, <1>4, <1>6, ReadTyped, ReloadEnds, OperationServed DEF ExecutorSystem
<1>7. CASE ExecutorUpsets
  <2>1. {"update", "disable", "remove"} \subseteq Kinds \ {"create"} /\ Plain \in Configs
    BY ConfigAssumption DEF Kinds
  <2> QED BY <1>3, <1>5, <1>7, <2>1, ReloadEnds, OperationOthers DEF ExecutorUpsets
<1> QED BY <1>6, <1>7, OperationUse DEF ExecutorNext

LEMMA OperationBegins == ClientInit => OperationInv
<1> SUFFICES ASSUME ClientInit PROVE OperationInv
  OBVIOUS
<1>1. PICK new : new = [NoReload EXCEPT !.step = "sent"]
  OBVIOUS
<1>2. new \in Reload /\ new.mine = FALSE /\ new.step = "sent"
  BY <1>1, NoReloadTyped DEF Reload
<1>3. /\ registry = [i \in Executors |-> IF i <= 2 THEN [config |-> Plain, disabled |-> FALSE] ELSE None]
      /\ fallback = 1 /\ nextExecutor = 3 /\ executors = <<>>
      /\ reload = [l \in Reloads |-> IF l = 1 /\ route = "executors" THEN new ELSE NoReload]
      /\ selectedId = 0 /\ creating = FALSE /\ form = [of |-> 0, config |-> Plain]
      /\ operation = NoOp /\ testing = 0 /\ testResult = None /\ question = None
  BY <1>1 DEF ClientInit, ExecutorInit
<1>4. Plain \in Configs /\ 1 \in Executors /\ 0 \in 0 .. MaxExecutors /\ None \notin Row
  BY ConfigAssumption DEF Executors, Row
<1>5. RowsTyped
  <2>1. PICK row : row = [config |-> Plain, disabled |-> FALSE]
    OBVIOUS
  <2>2. row \in Row /\ row # None
    <3>1. row \in Row
      BY <1>4, <2>1 DEF Row
    <3> QED BY <1>4, <3>1
  <2>3. registry = [i \in Executors |-> IF i <= 2 THEN row ELSE None]
    BY <1>3, <2>1
  <2>4. registry \in [Executors -> Row \cup {None}] /\ registry[1] = row
    BY <1>4, <2>2, <2>3
  <2>6. fallback = 1 /\ nextExecutor = 3
    BY <1>3
  <2>7. registry[1] # None
    BY <2>2, <2>4
  <2>5. fallback \in Executors /\ registry[fallback] # None /\ nextExecutor \in Nat \ {0}
    BY <1>4, <2>6, <2>7
  <2> QED BY <2>4, <2>5 DEF RowsTyped
<1>6. reload \in [Reloads -> Reload] /\ \A l \in Reloads : reload[l].mine = FALSE
  BY <1>2, <1>3, NoReloadTyped
<1>7. PageTyped
  <2>1. form \in [of : 0 .. MaxExecutors, config : Configs]
    BY <1>3, <1>4
  <2>2. executors \in Seq(Shown)
    BY <1>3
  <2> QED BY <1>3, <1>4, <1>6, <2>1, <2>2 DEF PageTyped
<1> QED BY <1>3, <1>5, <1>6, <1>7, NoOpTyped DEF OperationInv, OpTyped, OwnLoad, OwnEffect

LEMMA OperationHolds ==
    ASSUME OperationInv, [ClientNext]_clientVars
    PROVE  OperationInv'
<1>1. CASE ExecutorNext /\ OnExecutors
  BY <1>1, OperationStep
<1>2. ASSUME UNCHANGED executorVars PROVE OperationInv'
  BY <1>2, RowsKept, PageKept, OpKept DEF executorVars, serverSide, formVars, testingVars, OperationInv, OpInv
<1>3. CASE OnSettings \/ OnWorkflows \/ OnNodes \/ UNCHANGED clientVars
  BY <1>2, <1>3 DEF OnSettings, OnWorkflows, OnNodes, clientVars
<1>4. ASSUME ExecutorsMount PROVE OperationInv'
  BY <1>4, OwnLoadBegins DEF ExecutorsMount, serverSide, formVars, testingVars
<1>5. ASSUME ExecutorsLeave PROVE OperationInv'
  <2>1. /\ UNCHANGED <<registry, fallback, nextExecutor, executors, reload>>
        /\ selectedId' = 0 /\ creating' = FALSE /\ testing' = 0 /\ testResult' = None /\ question' = None
        /\ form' = ToFormState(Selected(executors, 0, FALSE))
        /\ operation' = IF operation.step = "idle" THEN operation ELSE [operation EXCEPT !.here = FALSE]
    BY <1>5 DEF ExecutorsLeave
  <2>2. form' \in [of : 0 .. MaxExecutors, config : Configs] /\ 0 \in 0 .. MaxExecutors
    <3>1. executors \in Seq(Shown) /\ 0 \in 0 .. MaxExecutors
      BY ConfigAssumption DEF OperationInv, PageTyped
    <3>2. ToFormState(Selected(executors, 0, FALSE)) \in [of : 0 .. MaxExecutors, config : Configs]
      BY <3>1, FormTyped, Zenon
    <3> QED BY <2>1, <3>1, <3>2
  <2>3. PageTyped' /\ RowsTyped'
    BY <2>1, <2>2 DEF OperationInv, PageTyped, RowsTyped
  <2>4. /\ operation' \in Operation /\ operation'.step = operation.step /\ operation'.kind = operation.kind
        /\ operation'.id = operation.id /\ operation'.config = operation.config /\ operation'.raced = operation.raced
    BY <2>1 DEF OperationInv, OpTyped, Operation
  <2>5. ListExecutors' = ListExecutors
    BY <2>1, SameRegistry
  <2>6. OwnEffect'
    BY <2>1, <2>4, <2>5 DEF OperationInv, OwnEffect, Effect
  <2> QED BY <2>1, <2>3, <2>4, <2>6 DEF OperationInv, OpTyped, OwnLoad
<1>6. ASSUME NEW name \in Pages, Visit(name) PROVE OperationInv'
  <2>1. ExecutorsMount \/ ExecutorsLeave \/ UNCHANGED executorVars
    BY <1>6 DEF Visit
  <2> QED BY <1>2, <1>4, <1>5, <2>1
<1> QED BY <1>1, <1>3, <1>6 DEF ClientNext

(* What the user finds in the list when the operation is over.             *)
Tells(list, kind, id, c) ==
    LET now == Selected(list, id, FALSE)
    IN CASE kind = "remove" -> \A k \in DOMAIN list : list[k].id # id
         [] kind \in {"create", "update"} -> now.id = id /\ now.config = c
         [] kind = "default" -> now.id = id /\ now.isDefault
         [] kind \in {"enable", "disable"} -> now.id = id /\ now.disabled = (kind = "disable")
WriteIsSeen ==
    operation.step = "reloading" /\ operation'.step = "idle" /\ executors' # executors /\ ~operation.raced =>
        Tells(executors', operation.kind, operation.id, operation.config)

LEMMA EffectIsListed ==
    ASSUME RowsTyped, NEW kind \in Kinds, NEW id \in Executors, NEW c, Effect(kind, id, c), NEW list, list = ListExecutors
    PROVE  Tells(list, kind, id, c)
<1>1. /\ list \in Seq(Shown)
      /\ \A r \in ToSet(list) : /\ registry[r.id] # None /\ r.config = registry[r.id].config
                                /\ r.disabled = registry[r.id].disabled /\ r.isDefault = (r.id = fallback)
      /\ registry[id] # None => \E r \in ToSet(list) : r.id = id
  BY RegistryListed
<1>2. CASE kind = "remove"
  <2>1. \A k \in DOMAIN list : list[k] \in ToSet(list)
    BY <1>1, MembersAre
  <2> QED BY <1>1, <1>2, <2>1 DEF Effect, Tells
<1>3. CASE kind # "remove"
  <2>1. registry[id] # None
    BY <1>3 DEF Effect, RowsTyped
  <2>2. PICK now : now = Selected(list, id, FALSE)
    OBVIOUS
  <2>3. now \in ToSet(list) /\ now.id = id
    <3>1. PICK r \in ToSet(list) : r.id = id
      BY <1>1, <2>1
    <3>2. PICK j \in DOMAIN list : list[j] = r
      BY <1>1, MembersAre
    <3>3. now = CHOOSE s \in ToSet(list) : s.id = id
      BY <2>2, <3>1, <3>2 DEF Selected
    <3> QED BY <3>1, <3>3
  <2>4. /\ kind \in {"create", "update"} => now.config = c
        /\ kind = "default" => now.isDefault
        /\ kind \in {"enable", "disable"} => now.disabled = (kind = "disable")
    <3>1. now.config = registry[id].config /\ now.disabled = registry[id].disabled /\ now.isDefault = (id = fallback)
      BY <1>1, <2>3
    <3> QED BY <3>1 DEF Effect
  <2> QED BY <1>3, <2>2, <2>3, <2>4 DEF Kinds, Tells
<1> QED BY <1>2, <1>3

LEMMA OwnWrites ==
    ASSUME OperationInv, [ClientNext]_clientVars
    PROVE  WriteIsSeen
<1> SUFFICES ASSUME operation.step = "reloading", operation'.step = "idle", executors' # executors, ~operation.raced
             PROVE  WriteIsSeen
  BY DEF WriteIsSeen
<1>1. ASSUME NEW l \in Reloads, ReloadAnswer(l), operation' # operation
      PROVE  WriteIsSeen
  <2>1. reload[l].mine /\ reload[l].step = "answer" /\ executors' = reload[l].rows
    BY <1>1 DEF ReloadAnswer
  <2>2. executors' = ListExecutors /\ Effect(operation.kind, operation.id, operation.config)
    BY <2>1 DEF OperationInv, OwnEffect
  <2>3. operation.kind \in Kinds /\ operation.id \in Executors /\ RowsTyped
    BY DEF OperationInv, OpTyped
  <2> QED BY <2>2, <2>3, EffectIsListed, Zenon DEF WriteIsSeen
<1>2. ASSUME UNCHANGED operation PROVE FALSE
  BY <1>2
<1>3. ASSUME UNCHANGED executors PROVE FALSE
  BY <1>3
<1>4. CASE ExecutorNext
  <2>1. CASE ExecutorUser
    BY <1>3, <2>1, Zenon DEF ExecutorUser, SelectExecutor, SetCreating, AnswerQuestion, EditForm, HandleSubmit, SetDefault, Enable,
                      RunTest, AskFirst
  <2>2. CASE ExecutorSystem
    <3>1. ASSUME (\E l \in Reloads : ReadRegistry(l)) \/ NoticeExecutors \/ OpOnServer \/ OpAnswer \/ TestDone
          PROVE  FALSE
      BY <1>3, <3>1, Zenon DEF ReadRegistry, NoticeExecutors, OpOnServer, OpAnswer, TestDone
    <3> QED BY <1>1, <1>2, <2>2, <3>1 DEF ExecutorSystem
  <2>3. CASE ExecutorUpsets
    BY <1>3, <2>3, Zenon DEF ExecutorUpsets, ReloadFails, EventLost, OpFails, OthersChange
  <2> QED BY <1>4, <2>1, <2>2, <2>3 DEF ExecutorNext
<1>5. CASE OnSettings \/ OnWorkflows \/ OnNodes \/ UNCHANGED clientVars
  BY <1>2, <1>5 DEF OnSettings, OnWorkflows, OnNodes, clientVars, executorVars
<1>6. ASSUME NEW name \in Pages, Visit(name) PROVE FALSE
  BY <1>3, <1>6 DEF Visit, ExecutorsMount, ExecutorsLeave, executorVars
<1> QED BY <1>4, <1>5, <1>6 DEF ClientNext

\* What the user has done to an executor is in the list when the operation is
\* over and its load has come back, in whatever order the other loads came
\* back; unless somebody changed the registry after it (executorStore.ts,
\* runOp; service/executor.go).
THEOREM OwnWritesAreSeen == ClientSpec => OwnWriteIsSeen
<1>1. OperationInv /\ [ClientNext]_clientVars => [WriteIsSeen]_executorVars
  BY OwnWrites
<1>2. OwnWriteIsSeen <=> [][WriteIsSeen]_executorVars
  BY DEF OwnWriteIsSeen, WriteIsSeen, Tells
<1> QED BY <1>1, <1>2, OperationBegins, OperationHolds, PTL DEF ClientSpec

LEMMA OperationTyped == OperationInv => ExecutorTypeOK
<1> SUFFICES ASSUME OperationInv PROVE ExecutorTypeOK
  OBVIOUS
<1>1. ToSet(executors) \subseteq Shown
  BY MembersAre DEF OperationInv, PageTyped
<1>2. (operation.step = "reloading") <=> (\E l \in Reloads : reload[l].mine)
  BY DEF OperationInv, OwnLoad
<1> QED BY <1>1, <1>2 DEF OperationInv, RowsTyped, PageTyped, OpTyped, Operation, ExecutorTypeOK

-----------------------------------------------------------------------------
(* The list of workflows, among the other pages.                           *)

LEMMA ListBeginsHere == ClientInit => ListFits
BY ListBegins DEF ClientInit

LEMMA ListVisited ==
    ASSUME NEW name \in Pages, Visit(name)
    PROVE  \/ ListMount /\ route # "workflows" /\ route' = "workflows"
           \/ ListLeave /\ route = "workflows" /\ route' # "workflows"
           \/ route # "workflows" /\ route' # "workflows" /\ UNCHANGED listVars
BY DEF Visit

LEMMA ListHolds ==
    ASSUME ListFits, [ClientNext]_clientVars
    PROVE  ListFits'
<1>1. CASE ListNext /\ OnWorkflows
  BY <1>1, ListStep DEF OnWorkflows
<1>2. CASE OnSettings \/ OnNodes \/ OnExecutors \/ UNCHANGED clientVars
  <2>1. route' = route /\ UNCHANGED listVars
    BY <1>2 DEF OnSettings, OnNodes, OnExecutors, clientVars
  <2> QED BY <2>1, ListStays
<1>3. ASSUME NEW name \in Pages, Visit(name) PROVE ListFits'
  BY <1>3, ListVisited, ListOpens, ListStays
<1> QED BY <1>1, <1>2, <1>3 DEF ClientNext

LEMMA DeletedLeave ==
    ASSUME ListFits, [ClientNext]_clientVars
    PROVE  OnlyDeletedGo
<1>1. CASE ListNext
  BY <1>1, DeletedGo
<1>2. CASE OnSettings \/ OnNodes \/ OnExecutors \/ UNCHANGED clientVars
  <2>1. UNCHANGED workflows
    BY <1>2 DEF OnSettings, OnNodes, OnExecutors, clientVars, listVars, cardVars
  <2> QED BY <2>1, DeletedGo
<1>3. ASSUME NEW name \in Pages, Visit(name) PROVE OnlyDeletedGo
  <2>1. route' # route
    BY <1>3 DEF Visit
  <2> QED BY <2>1 DEF OnlyDeletedGo
<1> QED BY <1>1, <1>2, <1>3 DEF ClientNext

-----------------------------------------------------------------------------
(* What the page of workflows guarantees.                                  *)

\* However loads, pages, deletions, creations and executions overlap: no
\* workflow has two cards; a list at rest is the beginning of what its filters
\* select and knows whether there is more; and once every event has been told,
\* the numbers on a card are those of the rows - each unless what excuses it
\* has happened (WorkflowListPage.tsx, loadPage and its event handler;
\* service/workflow.go, List).
THEOREM CardsAreRight == ClientSpec => []ListAgrees
<1> QED BY ListBeginsHere, ListHolds, ListFitsAgrees, PTL DEF ClientSpec

\* A list without a load loses nothing but what its owner has deleted - a
\* workflow or a node whose deletion was refused or failed stays - and a load
\* that follows a change to an executor of the page's own does not miss it
\* (WorkflowListPage.tsx, nodeStore.ts, executorStore.ts).
THEOREM OwnersAreFollowed == ClientSpec => ListsFollowTheirOwner
<1>1. ListFits /\ [ClientNext]_clientVars => [OnlyDeletedGo]_listVars
  BY DeletedLeave
<1>2. OnlyTheDeletedGo <=> [][OnlyDeletedGo]_listVars
  BY DEF OnlyTheDeletedGo, OnlyDeletedGo
<1>3. ClientSpec => OnlyTheDeletedGo
  BY <1>1, <1>2, ListBeginsHere, ListHolds, PTL DEF ClientSpec
<1> QED BY <1>3, ErasedOnly, OwnWritesAreSeen DEF ListsFollowTheirOwner

-----------------------------------------------------------------------------
(* The types of the pages.                                                 *)

\* The form waits for one update at most, which the page that is on screen
\* has sent.
Saves(u) == Underway(u) /\ update[u].kind = "save" /\ update[u].here
SavingInv == /\ saving <=> \E u \in Updates : Saves(u)
             /\ \A u, v \in Updates : Saves(u) /\ Saves(v) => u = v

\* What keeps the updates that are waited for.
SameSaves(u) == Saves(u)' <=> Saves(u)

LEMMA SavingKept ==
    ASSUME SavingInv, saving' = saving, \A u \in Updates : SameSaves(u)
    PROVE  SavingInv'
BY DEF SavingInv, SameSaves

LEMMA SavingEnds ==
    ASSUME Typed, SavingInv, NEW u \in Updates, update[u].step \in {"sent", "writing", "done", "refused"}, Over(u)
    PROVE  SavingInv'
<1>1. update'[u].step = "idle" /\ \A v \in Updates \ {u} : update'[v] = update[v]
  BY OverType
<1>2. ~Saves(u)' /\ \A v \in Updates \ {u} : SameSaves(v)
  BY <1>1 DEF Saves, Underway, SameSaves
<1>3. CASE Saves(u)
  <2>1. ~saving'
    BY <1>3 DEF Over, Saves
  <2>2. \A v \in Updates : ~Saves(v)'
    BY <1>2, <1>3 DEF SavingInv, SameSaves
  <2>3. saving' <=> \E v \in Updates : Saves(v)'
    BY <2>1, <2>2
  <2> QED BY <2>2, <2>3 DEF SavingInv
<1>4. CASE ~Saves(u)
  <2>1. saving' = saving
    BY <1>4 DEF Over, Saves, Underway, Typed
  <2>2. SameSaves(u)
    BY <1>2, <1>4 DEF SameSaves
  <2> QED BY <1>2, <2>1, <2>2, SavingKept
<1> QED BY <1>3, <1>4

LEMMA SavingOpens ==
    ASSUME Typed, SavingInv, NEW kind \in {"save", "apply"}, NEW patch \in Patches, UpdateSettings(kind, patch),
           \/ kind = "save" /\ ~saving /\ saving' = TRUE
           \/ kind = "apply" /\ saving' = saving
    PROVE  SavingInv'
<1>1. PICK u \in Updates : Opened(u, kind, patch)
  BY UpdateSettingsType
<1>2. \A v \in Updates \ {u} : SameSaves(v)
  BY <1>1 DEF Opened, SameSaves, Saves, Underway
<1>3. ~Saves(u) /\ (Saves(u)' <=> kind = "save")
  BY <1>1 DEF Opened, Saves, Underway
<1>4. CASE kind = "save" /\ ~saving /\ saving' = TRUE
  <2>1. \A v \in Updates : ~Saves(v)
    BY <1>4 DEF SavingInv
  <2>2. \A v \in Updates : Saves(v)' <=> v = u
    BY <1>2, <1>3, <1>4, <2>1 DEF SameSaves
  <2>3. saving' <=> \E v \in Updates : Saves(v)'
    BY <1>4, <2>2
  <2> QED BY <2>2, <2>3 DEF SavingInv
<1>5. CASE kind = "apply" /\ saving' = saving
  <2>1. SameSaves(u)
    BY <1>3, <1>5 DEF SameSaves
  <2> QED BY <1>2, <1>5, <2>1, SavingKept
<1> QED BY <1>4, <1>5

LEMMA SavingStep ==
    ASSUME SettingsInv, SavingInv, SettingsNext
    PROVE  SavingInv'
<1>0. Typed /\ \A u \in Updates : Written(u)
  BY DEF SettingsInv, ServerInv
<1>1. ASSUME update' = update, saving' = saving PROVE SavingInv'
  BY <1>1, SavingKept DEF SameSaves, Saves, Underway
<1>2. CASE SettingsUser
  <2>1. ASSUME \/ HandleReset \/ \E ask \in BOOLEAN : ChangeField("confirmBeforeDelete", ask)
               \/ \E n \in {1, 51} : ChangeField("maxConcurrentExecutions", n)
        PROVE  SavingInv'
    BY <1>1, <2>1 DEF HandleReset, ChangeField
  <2>2. CASE HandleSave
    <3>1. formData \in Patches
      BY <1>0, DefaultsType DEF Typed
    <3> QED BY <1>0, <2>2, <3>1, SavingOpens DEF HandleSave
  <2>3. ASSUME NEW theme \in Themes, ApplyImmediate(theme) PROVE SavingInv'
    <3>1. [k \in {"theme"} |-> theme] \in Patches
      BY DEF Patches
    <3> QED BY <1>0, <2>3, <3>1, SavingOpens DEF ApplyImmediate
  <2> QED BY <1>2, <2>1, <2>2, <2>3 DEF SettingsUser
<1>3. ASSUME NEW u \in Updates, Validate(u) PROVE SavingInv'
  <2>1. Validated(u) /\ saving' = saving
    BY <1>0, <1>3, ValidateType DEF Validate
  <2>2. \A v \in Updates : SameSaves(v)
    BY <2>1 DEF Validated, SameSaves, Saves, Underway
  <2> QED BY <2>1, <2>2, SavingKept
<1>4. ASSUME NEW u \in Updates, CacheRows(u) PROVE SavingInv'
  <2>1. CachedRows(u) /\ saving' = saving
    BY <1>0, <1>4, CacheRowsType DEF CacheRows
  <2>2. \A v \in Updates : SameSaves(v)
    BY <2>1 DEF CachedRows, SameOrder, SameSaves, Saves, Underway
  <2> QED BY <2>1, <2>2, SavingKept
<1>5. ASSUME NEW u \in Updates, NEW k \in DOMAIN DefaultSettings, WriteRow(u, k) PROVE SavingInv'
  <2>1. Wrote(u, k) /\ saving' = saving
    BY <1>0, <1>5, WriteRowType DEF WriteRow
  <2>2. \A v \in Updates : SameSaves(v)
    BY <2>1 DEF Wrote, SameOrder, SameSaves, Saves, Underway
  <2> QED BY <2>1, <2>2, SavingKept
<1>6. ASSUME NEW u \in Updates, UpdateAnswer(u) \/ UpdateFails(u) PROVE SavingInv'
  BY <1>0, <1>6, SavingEnds DEF UpdateAnswer, UpdateFails
<1>7. CASE SettingsSystem
  <2>1. ASSUME FillCache \/ \E l \in ConfigLoads : ReadSettings(l) \/ SettingsAnswer(l)
        PROVE  SavingInv'
    BY <1>1, <2>1 DEF FillCache, ReadSettings, SettingsAnswer
  <2> QED BY <1>3, <1>4, <1>5, <1>6, <1>7, <2>1 DEF SettingsSystem
<1>8. ASSUME RaceAll, saving' = saving PROVE SavingInv'
  <2>1. \A u \in Updates : SameSaves(u)
    BY <1>0, <1>8, RaceAllType DEF SameSaves, Saves, Underway
  <2> QED BY <1>8, <2>1, SavingKept
<1>9. CASE SettingsUpsets
  <2>1. ASSUME GetInt \/ \E l \in ConfigLoads : SettingsFail(l) PROVE SavingInv'
    BY <1>1, <2>1 DEF GetInt, SettingsFail
  <2>2. ASSUME OthersUpdate("maxConcurrentExecutions", 1) \/ OthersUpdate("theme", "light") PROVE SavingInv'
    BY <1>8, <2>2 DEF OthersUpdate
  <2> QED BY <1>6, <1>9, <2>1, <2>2 DEF SettingsUpsets
<1> QED BY <1>2, <1>7, <1>9 DEF SettingsNext

LEMMA SavingHolds ==
    ASSUME SettingsInv, SavingInv, [ClientNext]_clientVars
    PROVE  SavingInv'
<1>1. ASSUME UNCHANGED <<update, saving>> PROVE SavingInv'
  BY <1>1, SavingKept DEF SameSaves, Saves, Underway
<1>2. CASE OnWorkflows \/ OnNodes \/ OnExecutors \/ UNCHANGED clientVars
  BY <1>1, <1>2 DEF OnWorkflows, OnNodes, OnExecutors, clientVars, settingsVars
<1>3. ASSUME NEW name \in Pages, Visit(name) PROVE SavingInv'
  <2>1. SettingsMount \/ SettingsLeave \/ UNCHANGED settingsVars
    BY <1>3 DEF Visit
  <2>2. CASE SettingsMount \/ UNCHANGED settingsVars
    BY <1>1, <2>2 DEF SettingsMount, settingsVars
  <2>3. CASE SettingsLeave
    <3>1. \A u \in Updates : update'[u].here = FALSE
      BY <2>3 DEF SettingsLeave, SettingsInv, Typed, UpdateRequest
    <3>2. (~saving') /\ \A u \in Updates : ~Saves(u)'
      BY <2>3, <3>1 DEF SettingsLeave, Saves
    <3> QED BY <3>2 DEF SavingInv
  <2> QED BY <2>1, <2>2, <2>3
<1> QED BY <1>2, <1>3, SavingStep DEF ClientNext

LEMMA SavingBegins == ClientInit => SavingInv
<1> SUFFICES ASSUME ClientInit PROVE SavingInv
  OBVIOUS
<1>1. saving = FALSE /\ \A u \in Updates : update[u].step = "idle"
  BY DEF ClientInit, SettingsInit, NoUpdate
<1> QED BY <1>1 DEF SavingInv, Saves, Underway

LEMMA SettingsTyped == SettingsInv /\ SavingInv => SettingsTypeOK
<1> SUFFICES ASSUME SettingsInv, SavingInv PROVE SettingsTypeOK
  OBVIOUS
<1>1. PICK b \in BOOLEAN : b = \E u \in Updates : Saves(u)
  OBVIOUS
<1>2. saving \in BOOLEAN /\ (saving <=> b)
  BY <1>1 DEF SettingsInv, Typed, SavingInv
<1>3. saving = b
  BY <1>2
<1>4. b = \E u \in Updates : Underway(u) /\ update[u].kind = "save" /\ update[u].here
  BY <1>1 DEF Saves
<1> QED BY <1>3, <1>4 DEF SettingsInv, Typed, SettingsTypeOK

\* The node that is on show, and those that are asked for, are ids of nodes.
SelectedTyped == /\ selectedNode \in 1 .. MaxNodes \cup {None}
                 /\ detail \in [1 .. MaxActs -> 1 .. MaxNodes \cup {None}]

LEMMA SelectedKept ==
    ASSUME SelectedTyped, UNCHANGED <<selectedNode, detail>>
    PROVE  SelectedTyped'
BY DEF SelectedTyped

LEMMA SelectedStep ==
    ASSUME SelectedTyped, ManagerNext
    PROVE  SelectedTyped'
<1>1. ASSUME NEW n \in Rows, HandleViewNode(n) PROVE SelectedTyped'
  <2>1. n.id \in 1 .. MaxNodes
    BY RowsAre
  <2> QED BY <1>1, <2>1 DEF HandleViewNode, SelectedTyped
<1>2. ASSUME NEW n \in Rows, HandleTestNode(n) PROVE SelectedTyped'
  <2>1. n.id \in 1 .. MaxNodes
    BY RowsAre
  <2> QED BY <1>2, <2>1 DEF HandleTestNode, SelectedTyped, detailVars
<1>3. ASSUME NEW i \in 1 .. MaxActs, NEW found \in BOOLEAN, DetailAnswer(i, found) PROVE SelectedTyped'
  BY <1>3 DEF DetailAnswer, SelectedTyped
<1>4. ASSUME CloseDetail \/ CloseTest PROVE SelectedTyped'
  BY <1>4 DEF CloseDetail, CloseTest, SelectedTyped, detailVars
<1>5. CASE ManagerUser
  <2>1. ASSUME \/ OpenImport \/ CloseImport \/ ToggleTag \/ HandleRunTest
               \/ \E p \in Packages : HandleAddNode(p)
               \/ \E n \in Rows : ChooseVersion(n) \/ HandleDeleteNode(n)
               \/ \E ok \in BOOLEAN : AnswerDeleteDialog(ok)
        PROVE  SelectedTyped'
    BY <2>1, SelectedKept, Zenon DEF OpenImport, CloseImport, ToggleTag, HandleRunTest, HandleAddNode, ChooseVersion,
                                     HandleDeleteNode, AnswerDeleteDialog, modalVars, detailVars
  <2> QED BY <1>1, <1>2, <1>4, <1>5, <2>1 DEF ManagerUser
<1>6. CASE ManagerSystem
  <2>1. ASSUME \/ \E f \in Fetches : ListNodes(f) \/ NodesAnswer(f)
               \/ ImportOnServer \/ ImportAnswer
               \/ \E id \in 1 .. MaxNodes : DeleteOnServer(id) \/ DeletionAnswer(id)
               \/ TestAnswer
        PROVE  SelectedTyped'
    BY <2>1, SelectedKept, Zenon DEF ListNodes, NodesAnswer, ImportOnServer, ImportAnswer, DeleteOnServer,
                                     DeletionAnswer, TestAnswer, modalVars, detailVars
  <2> QED BY <1>3, <1>6, <2>1 DEF ManagerSystem
<1>7. CASE ManagerUpsets
  BY <1>7, SelectedKept, Zenon DEF ManagerUpsets, NodesFail, ImportFails, DeletionFails, OthersImport, OthersErase,
                                   modalVars, detailVars
<1> QED BY <1>5, <1>6, <1>7 DEF ManagerNext

LEMMA SelectedHolds ==
    ASSUME SelectedTyped, [ClientNext]_clientVars
    PROVE  SelectedTyped'
<1>1. ASSUME UNCHANGED managerVars PROVE SelectedTyped'
  BY <1>1, SelectedKept DEF managerVars, modalVars, detailVars
<1>2. ASSUME NEW name \in Pages, Visit(name) PROVE SelectedTyped'
  <2>1. CASE ManagerMount
    BY <2>1, SelectedKept DEF ManagerMount, modalVars, detailVars
  <2>2. CASE ManagerLeave
    BY <2>2 DEF ManagerLeave, SelectedTyped
  <2> QED BY <1>1, <1>2, <2>1, <2>2, ManagerVisited
<1>3. CASE OnSettings \/ OnWorkflows \/ OnExecutors \/ UNCHANGED clientVars
  BY <1>1, <1>3 DEF OnSettings, OnWorkflows, OnExecutors, clientVars
<1> QED BY <1>2, <1>3, SelectedStep DEF ClientNext

LEMMA SelectedBegins == ClientInit => SelectedTyped
BY DEF ClientInit, ManagerInit, SelectedTyped

LEMMA ManagerIsTyped == ManagerInv /\ SelectedTyped => ManagerTypeOK
<1> SUFFICES ASSUME ManagerInv, SelectedTyped PROVE ManagerTypeOK
  OBVIOUS
<1>1. ToSet(library) \subseteq Rows /\ ToSet(nodes) \subseteq Rows
  BY MembersAre DEF ManagerInv, ManagerTyped
<1> QED BY <1>1 DEF ManagerInv, ManagerTyped, SelectedTyped, ManagerTypeOK

\* The pages keep what they should, and say that they save or import exactly
\* while a request of theirs is under way: the flag of the form goes with the
\* page that sets it, that of the imports stays with the store
\* (SystemSettingsTab.tsx, nodeStore.ts, WorkflowListPage.tsx,
\* ExecutorConfigPage.tsx).
THEOREM PagesAreTyped == ClientSpec => []ClientTypeOK
<1>1. ClientInit => SettingsInv /\ SavingInv /\ ManagerInv /\ SelectedTyped /\ OperationInv /\ ListFits
  BY SettingsBegin, SavingBegins, ManagerBegins, SelectedBegins, OperationBegins, ListBeginsHere
<1>2. SettingsInv /\ SavingInv /\ ManagerInv /\ SelectedTyped /\ OperationInv /\ ListFits /\ [ClientNext]_clientVars
      => SettingsInv' /\ SavingInv' /\ ManagerInv' /\ SelectedTyped' /\ OperationInv' /\ ListFits'
  BY SettingsKept, SavingHolds, ManagerHolds, SelectedHolds, OperationHolds, ListHolds
<1>3. SettingsInv /\ SavingInv /\ ManagerInv /\ SelectedTyped /\ OperationInv /\ ListFits => ClientTypeOK
  BY SettingsTyped, ManagerIsTyped, OperationTyped, ListFitsTyped DEF ClientTypeOK
<1> QED BY <1>1, <1>2, <1>3, PTL DEF ClientSpec

\* The page of workflows shows a prefix of what its filters select, each
\* workflow once and with the numbers of its rows; the page of nodes shows the
\* library, once it waits for nothing and nothing was changed under it, and
\* the details of the node that was clicked last (WorkflowListPage.tsx,
\* nodeStore.ts, NodeManagerPage.tsx, service/node.go).
THEOREM ListPagesAreTrue == ClientSpec => []ListPagesAgree
<1>1. ListAgrees /\ StoreListsTheLibrary /\ DetailsAreOfTheClicked => ListPagesAgree
  BY DEF LibraryAgrees, ListPagesAgree
<1> QED BY <1>1, CardsAreRight, LibraryIsListed, DetailsAreAsked, PTL
=============================================================================
