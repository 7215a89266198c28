------------------------------- MODULE Client -------------------------------
(***************************************************************************)
(* The web client as its user meets it: one page at a time, the stores     *)
(* behind all of them.  A visit mounts a page afresh while the requests of *)
(* the page before go on, and finds what the stores have kept.             *)
(***************************************************************************)
EXTENDS Settings, WorkflowList, NodeManager, ExecutorPages, PipelineGraph

Pages == {"workflows", "nodes", "executors", "settings"}
clientVars == <<route, bounds, settingsVars, listVars, managerVars, executorVars>>

ClientInit ==
    /\ route \in Pages
    /\ acts = 0 /\ upsets = 0
    /\ SettingsInit /\ ListInit /\ ManagerInit /\ ExecutorInit

\* What only one of the pages and its store change.
OnSettings  == UNCHANGED <<route, listVars, managerVars, executorVars>>
OnWorkflows == UNCHANGED <<route, settingsVars, managerVars, executorVars>>
OnNodes     == UNCHANGED <<route, settingsVars, listVars, executorVars>>
OnExecutors == UNCHANGED <<route, settingsVars, listVars, managerVars>>

\* The settings are all that one page has of another: from page to page the
\* way leads through theirs.
Visit(name) ==
    /\ User(route)
    /\ name # route /\ "settings" \in {route, name}
    /\ route' = name
    /\ CASE name = "settings"  -> SettingsMount
         [] route = "settings"  -> SettingsLeave
         [] OTHER -> UNCHANGED settingsVars
    /\ CASE name = "workflows" -> ListMount
         [] route = "workflows" -> ListLeave
         [] OTHER -> UNCHANGED listVars
    /\ CASE name = "nodes"     -> ManagerMount
         [] route = "nodes"     -> ManagerLeave
         [] OTHER -> UNCHANGED managerVars
    /\ CASE name = "executors" -> ExecutorsMount
         [] route = "executors" -> ExecutorsLeave
         [] OTHER -> UNCHANGED executorVars

ClientNext == \/ SettingsNext /\ OnSettings
              \/ ListNext /\ OnWorkflows
              \/ ManagerNext /\ OnNodes
              \/ ExecutorNext /\ OnExecutors
              \/ \E name \in Pages : Visit(name)

\* Servers answer, timers fire, events are delivered, dialogs are answered;
\* the user and the faults owe nothing.
ClientSystem == \/ SettingsSystem /\ OnSettings
                \/ ListSystem /\ OnWorkflows
                \/ ManagerSystem /\ OnNodes
                \/ ExecutorSystem /\ OnExecutors
ClientSpec == ClientInit /\ [][ClientNext]_clientVars

----------------------------------------------------------------------------
ClientTypeOK == SettingsTypeOK /\ ListTypeOK /\ ManagerTypeOK /\ ExecutorTypeOK

Waiting == \/ saving
           \/ route = "workflows" /\ load.step # "idle"
           \/ isAdding
           \/ operation.step # "idle"

\* Nothing waits for what never comes: while settings are saved, a page of
\* workflows is loaded, a node is imported or an executor changed, something
\* is still under way that brings the success, the refusal or the failure,
\* even if the user has been on another page in the meantime.
NothingIsStuck == Waiting => ENABLED ClientSystem

\* The pages of settings and of executors, both of what a server keeps for
\* all: valid rows, caches, stores and forms tell the same once nothing is
\* under way.
SettingsPagesAgree == SettingsAgree /\ RegistryAgrees

\* The pages of workflows and of nodes, both of a list put together of pages:
\* what is on screen is what the server has, once nothing is under way that
\* the user would see coming.
ListPagesAgree == ListAgrees /\ LibraryAgrees

\* A card on screen carries the picture of the graph that the canvas shows
\* when the card is opened, whatever graph its workflow has.
CardsShowTheGraph == workflows # <<>> => PicturesAgree

\* A list without a load loses nothing but what its owner has deleted, and a
\* load that follows a change of the page's own does not miss it.
ListsFollowTheirOwner == OnlyTheDeletedGo /\ OnlyTheErasedGo /\ OwnWriteIsSeen
=============================================================================
