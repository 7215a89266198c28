------------------------------ MODULE Settings ------------------------------
(***************************************************************************)
(* The settings page (SystemSettingsTab.tsx), the store behind it          *)
(* (settingsStore.ts) and the service of the preferences                   *)
(* (SystemConfigService), which validates them together, writes them row by*)
(* row and keeps a cache that the engine reads through.                    *)
(*                                                                         *)
(* theme stands for what is applied when it is chosen (theme, language),   *)
(* confirmBeforeDelete and maxConcurrentExecutions for what is saved; 51   *)
(* for every number that the service refuses.  The cache is that of the    *)
(* number, the one key of the three that the server reads itself.          *)
(***************************************************************************)
EXTENDS Browser

CONSTANTS Updates, ConfigLoads \* the PUTs and GETs under way at a time

VARIABLES
    configRows,          \* the rows of system_configs
    cached, reader,      \* SystemConfigService.cache; the load that fills it
    configLoad, update,
    formData, saving,
    \* History: the store may differ from the rows, the cache from its row,
    \* the form from the store.
    mixed, crossed, dirty

settingsHistory == <<mixed, crossed, dirty>>
settingsVars == <<systemSettings, configRows, cached, reader, configLoad, update, formData, saving, settingsHistory>>

Valid(key, value) == key = "maxConcurrentExecutions" => value \in 1 .. 50
Override(settings, patch) == [k \in DOMAIN settings |-> IF k \in DOMAIN patch THEN patch[k] ELSE settings[k]]

NoConfigLoad == [step |-> "idle", rows |-> DefaultSettings, raced |-> FALSE]
NoUpdate == [step |-> "idle", patch |-> DefaultSettings, left |-> {}, kind |-> "save", prev |-> DefaultSettings,
             here |-> FALSE, raced |-> FALSE, beside |-> FALSE]
NoReader == [step |-> "idle", value |-> 0, old |-> FALSE]

SettingsInit ==
    /\ configRows \in {[DefaultSettings EXCEPT !.confirmBeforeDelete = ask] : ask \in BOOLEAN}
    /\ systemSettings = configRows \* what App.tsx has loaded
    /\ cached = None /\ reader = NoReader
    /\ configLoad = [l \in ConfigLoads |-> IF l = 1 /\ route = "settings" THEN [NoConfigLoad EXCEPT !.step = "sent"]
                                           ELSE NoConfigLoad]
    /\ update = [u \in Updates |-> NoUpdate]
    /\ formData = systemSettings /\ saving = FALSE
    /\ mixed = FALSE /\ crossed = FALSE /\ dirty = FALSE

Edit == User("settings")
Storing == UNCHANGED bounds

Underway(u) == update[u].step # "idle"
Writing(u) == update[u].step = "writing"
Busy == (\E u \in Updates : Underway(u)) \/ \E l \in ConfigLoads : configLoad[l].step # "idle"
RaceAll == /\ update' = [u \in Updates |-> IF Underway(u) THEN [update[u] EXCEPT !.raced = TRUE, !.beside = @ \/ Writing(u)]
                                           ELSE update[u]]
           /\ configLoad' = [l \in ConfigLoads |-> IF configLoad[l].step = "idle" THEN configLoad[l]
                                                   ELSE [configLoad[l] EXCEPT !.raced = TRUE]]

----------------------------------------------------------------------------
(* loadSystemSettings.                                                     *)

ReadSettings(l) ==
    /\ Storing
    /\ configLoad[l].step = "sent"
    /\ configLoad' = [configLoad EXCEPT ![l].step = "answer", ![l].rows = configRows]
    /\ UNCHANGED <<systemSettings, configRows, cached, reader, update, formData, saving, settingsHistory>>
SettingsAnswer(l) ==
    /\ Storing
    /\ configLoad[l].step = "answer"
    /\ systemSettings' = configLoad[l].rows /\ formData' = systemSettings'
    /\ configLoad' = [configLoad EXCEPT ![l] = NoConfigLoad]
    /\ mixed' = configLoad[l].raced /\ dirty' = FALSE
    /\ UNCHANGED <<configRows, cached, reader, update, saving, crossed>>
SettingsFail(l) ==
    /\ Upset("settings")
    /\ configLoad[l].step # "idle"
    /\ configLoad' = [configLoad EXCEPT ![l] = NoConfigLoad]
    /\ UNCHANGED <<systemSettings, configRows, cached, reader, update, formData, saving, settingsHistory>>

----------------------------------------------------------------------------
(* The form.                                                               *)

ChangeField(key, value) ==
    /\ Edit
    /\ formData[key] # value
    /\ formData' = [formData EXCEPT ![key] = value] /\ dirty' = TRUE
    /\ UNCHANGED <<systemSettings, configRows, cached, reader, configLoad, update, saving, mixed, crossed>>
HandleReset ==
    /\ Edit
    /\ formData' = DefaultSettings /\ dirty' = TRUE
    /\ UNCHANGED <<systemSettings, configRows, cached, reader, configLoad, update, saving, mixed, crossed>>

UpdateSettings(kind, patch) ==
    /\ Free(update)
    /\ update' = [v \in Updates |->
           IF v = Slot(update) THEN [NoUpdate EXCEPT !.step = "sent", !.patch = patch, !.kind = kind, !.prev = systemSettings,
                                                     !.here = TRUE, !.raced = Busy]
           ELSE IF Underway(v) THEN [update[v] EXCEPT !.raced = TRUE] ELSE update[v]]
    /\ configLoad' = [l \in ConfigLoads |-> IF configLoad[l].step = "idle" THEN configLoad[l]
                                            ELSE [configLoad[l] EXCEPT !.raced = TRUE]]
\* Mutant: the button is not disabled.
HandleSaveAgain ==
    /\ Edit
    /\ UpdateSettings("save", formData)
    /\ saving' = TRUE
    /\ UNCHANGED <<systemSettings, configRows, cached, reader, formData, settingsHistory>>
HandleSave ==
    /\ Edit
    /\ ~saving
    /\ UpdateSettings("save", formData)
    /\ saving' = TRUE
    /\ UNCHANGED <<systemSettings, configRows, cached, reader, formData, settingsHistory>>
ApplyImmediate(theme) ==
    /\ Edit
    /\ UpdateSettings("apply", [k \in {"theme"} |-> theme])
    /\ formData' = [formData EXCEPT !.theme = theme]
    /\ UNCHANGED <<systemSettings, configRows, cached, reader, saving, settingsHistory>>

----------------------------------------------------------------------------
(* SystemConfigService.                                                    *)

\* Mutant: the first key that is right ends the validation.
AcceptsIfAny(patch) == \E k \in DOMAIN patch : Valid(k, patch[k])
Accepts(patch) == \A k \in DOMAIN patch : Valid(k, patch[k])
Validate(u) ==
    /\ Storing
    /\ update[u].step = "sent"
    /\ LET beside == \E v \in Updates \ {u} : Writing(v)
       IN update' = [v \in Updates |->
              IF v = u /\ Accepts(update[u].patch)
              THEN [update[u] EXCEPT !.step = "writing", !.left = DOMAIN update[u].patch, !.beside = beside]
              ELSE IF v = u THEN [update[u] EXCEPT !.step = "refused"]
              ELSE IF Writing(v) THEN [update[v] EXCEPT !.beside = TRUE] ELSE update[v]]
    /\ UNCHANGED <<systemSettings, configRows, cached, reader, configLoad, formData, saving, settingsHistory>>
WriteRow(u, key) ==
    /\ Storing
    /\ Writing(u) /\ key \in update[u].left
    /\ configRows' = [configRows EXCEPT ![key] = update[u].patch[key]]
    /\ update' = [update EXCEPT ![u].left = @ \ {key}]
    /\ reader' = [reader EXCEPT !.old = @ \/ (reader.step = "read" /\ key = "maxConcurrentExecutions")]
    /\ UNCHANGED <<systemSettings, cached, configLoad, formData, saving, settingsHistory>>
\* Mutant: the cache is left as it is.
CacheNothing(u) ==
    /\ Storing
    /\ Writing(u) /\ update[u].left = {}
    /\ update' = [update EXCEPT ![u].step = "done"]
    /\ UNCHANGED <<systemSettings, configRows, cached, reader, configLoad, formData, saving, settingsHistory>>
CacheRows(u) ==
    /\ Storing
    /\ Writing(u) /\ update[u].left = {}
    /\ IF "maxConcurrentExecutions" \in DOMAIN update[u].patch
       THEN cached' = update[u].patch["maxConcurrentExecutions"] /\ crossed' = update[u].beside
       ELSE UNCHANGED <<cached, crossed>>
    /\ update' = [update EXCEPT ![u].step = "done"]
    /\ UNCHANGED <<systemSettings, configRows, reader, configLoad, formData, saving, mixed, dirty>>

\* load: the engine asks for the number, and finds no entry.
GetInt ==
    /\ Upset("settings")
    /\ cached = None /\ reader.step = "idle"
    /\ reader' = [NoReader EXCEPT !.step = "read", !.value = configRows.maxConcurrentExecutions]
    /\ UNCHANGED <<systemSettings, configRows, cached, configLoad, update, formData, saving, settingsHistory>>
FillCache ==
    /\ Storing
    /\ reader.step = "read"
    /\ cached' = reader.value /\ crossed' = (crossed \/ reader.old)
    /\ reader' = NoReader
    /\ UNCHANGED <<systemSettings, configRows, configLoad, update, formData, saving, mixed, dirty>>

----------------------------------------------------------------------------
(* The answers.                                                            *)

Over(u) == /\ update' = [update EXCEPT ![u] = NoUpdate]
           /\ saving' = (saving /\ ~(update[u].kind = "save" /\ update[u].here))
\* A change that failed at once is taken back: the form is what the store had
\* when the change was asked for.
RollBack(u) ==
    IF update[u].kind = "apply" /\ update[u].here
    THEN formData' = update[u].prev /\ dirty' = update[u].raced
    ELSE UNCHANGED <<formData, dirty>>
\* Mutant: the store does not hear of the answer.
UpdateAnswerUnshared(u) ==
    /\ Storing
    /\ update[u].step \in {"done", "refused"}
    /\ UNCHANGED systemSettings
    /\ RollBack(u) /\ mixed' = (mixed \/ update[u].raced)
    /\ Over(u)
    /\ UNCHANGED <<configRows, cached, reader, configLoad, crossed>>
UpdateAnswer(u) ==
    /\ Storing
    /\ \/ /\ update[u].step = "done"
          /\ systemSettings' = Override(systemSettings, update[u].patch) /\ formData' = systemSettings'
          /\ mixed' = (mixed \/ update[u].raced) /\ dirty' = FALSE
       \/ /\ update[u].step = "refused"
          /\ RollBack(u)
          /\ UNCHANGED <<systemSettings, mixed>>
    /\ Over(u)
    /\ UNCHANGED <<configRows, cached, reader, configLoad, crossed>>
\* Mutant: the form keeps the change.
UpdateFailsKept(u) ==
    /\ Upset("settings")
    /\ update[u].step \in {"sent", "done"}
    /\ mixed' = (mixed \/ update[u].step = "done")
    /\ Over(u)
    /\ UNCHANGED <<systemSettings, configRows, cached, reader, configLoad, formData, crossed, dirty>>
UpdateFails(u) ==
    /\ Upset("settings")
    /\ update[u].step \in {"sent", "done"}
    /\ mixed' = (mixed \/ update[u].step = "done")
    /\ RollBack(u) /\ Over(u)
    /\ UNCHANGED <<systemSettings, configRows, cached, reader, configLoad, crossed>>

OthersUpdate(key, value) ==
    /\ Upset("settings")
    /\ Valid(key, value) /\ configRows[key] # value
    /\ configRows' = [configRows EXCEPT ![key] = value]
    /\ IF key = "maxConcurrentExecutions"
       THEN cached' = value /\ reader' = [reader EXCEPT !.old = reader.step = "read"]
            /\ crossed' = \E u \in Updates : Writing(u)
       ELSE UNCHANGED <<cached, reader, crossed>>
    /\ RaceAll /\ mixed' = TRUE
    /\ UNCHANGED <<systemSettings, formData, saving, dirty>>

\* The store's requests go on without the page, whose form and flag are lost.
SettingsLeave ==
    /\ update' = [u \in Updates |-> [update[u] EXCEPT !.here = FALSE]]
    /\ formData' = systemSettings /\ saving' = FALSE /\ dirty' = FALSE
    /\ UNCHANGED <<systemSettings, configRows, cached, reader, configLoad, mixed, crossed>>
SettingsMount ==
    /\ Free(configLoad)
    /\ configLoad' = [configLoad EXCEPT ![Slot(configLoad)] = [NoConfigLoad EXCEPT !.step = "sent", !.raced = Busy]]
    /\ UNCHANGED <<systemSettings, configRows, cached, reader, update, formData, saving, settingsHistory>>

SettingsUser == \/ \E ask \in BOOLEAN : ChangeField("confirmBeforeDelete", ask)
                \/ \E n \in {1, 51} : ChangeField("maxConcurrentExecutions", n)
                \/ HandleReset \/ HandleSave
                \/ \E theme \in Themes : ApplyImmediate(theme)
SettingsSystem == \/ \E l \in ConfigLoads : ReadSettings(l) \/ SettingsAnswer(l)
                  \/ \E u \in Updates : Validate(u) \/ CacheRows(u) \/ UpdateAnswer(u)
                  \/ \E u \in Updates, k \in DOMAIN DefaultSettings : WriteRow(u, k)
                  \/ FillCache
SettingsUpsets == \/ \E l \in ConfigLoads : SettingsFail(l)
                  \/ \E u \in Updates : UpdateFails(u)
                  \/ GetInt
                  \/ OthersUpdate("maxConcurrentExecutions", 1) \/ OthersUpdate("theme", "light")
SettingsNext == SettingsUser \/ SettingsSystem \/ SettingsUpsets

----------------------------------------------------------------------------
SettingsTypeOK ==
    /\ systemSettings \in SystemSettings /\ formData \in SystemSettings
    /\ cached \in Numbers \cup {None}
    /\ saving = (\E u \in Updates : Underway(u) /\ update[u].kind = "save" /\ update[u].here)

\* Nothing that the service refuses gets into the rows: one wrong value keeps
\* all the settings of its request out.
RowsAreValid == \A k \in DOMAIN configRows : Valid(k, configRows[k])

\* Between requests the store has the preferences of the rows, unless requests
\* overlapped, an answer was lost or another client wrote.
StoreTellsTheRows == ~Busy /\ ~mixed => systemSettings = configRows

\* The number that the engine reads is that of the row, unless two writes
\* overlapped, or a write overtook the read that filled the cache.
CacheTellsTheRow ==
    (\A u \in Updates : ~Writing(u)) /\ reader.step = "idle" /\ ~crossed
        => cached \in {None, configRows.maxConcurrentExecutions}

\* A form that the user has not changed shows the store's settings, after
\* answers, refusals and failures, unless what failed was overlapped by
\* another request.
FormShowsTheStore ==
    ~dirty /\ (\A u \in Updates : ~(Underway(u) /\ update[u].kind = "apply")) => formData = systemSettings

\* Rows, cache, store and form agree, each with the next one's exceptions.
SettingsAgree == RowsAreValid /\ CacheTellsTheRow /\ StoreTellsTheRows /\ FormShowsTheStore
=============================================================================
