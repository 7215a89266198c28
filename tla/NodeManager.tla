----------------------------- MODULE NodeManager -----------------------------
(***************************************************************************)
(* The node manager (NodeManagerPage.tsx) and the store behind it          *)
(* (nodeStore.ts): the library loaded page by page, imports, deletions,    *)
(* the cards that gather the versions of a name, the details and the mock  *)
(* test.  The store outlives the page; what the page itself keeps does not.*)
(***************************************************************************)
EXTENDS Browser, Sequences, SequencesExt, FiniteSets

CONSTANTS
    Packages,      \* name and version of what can be imported
    NameOf, Newer, \* the name of a package; pairs of a version and a newer one
    InUse,         \* the packages that a workflow refers to
    First,         \* the packages that are there already, the oldest first
    MaxNodes,      \* the ids ever given
    Fetches,       \* the loads of the library under way at a time
    NodePage       \* the size of a page of the list

ASSUME NodePageAssumption ==
    /\ NodePage \in Nat \ {0} /\ MaxNodes \in Nat /\ 1 \in Fetches
    /\ First \in Seq(Packages) /\ Len(First) <= MaxNodes /\ None \notin 1 .. MaxNodes

VARIABLES
    library, nextNode, \* the rows of nodes, the newest first; the next id
    nodes,             \* the store's list
    selectedTags,      \* whether the filters hide what is in use
    isAdding, adding,  \* the import: the store's flag, and the request
    fetch,             \* the loads
    erasure,           \* the DELETE requests
    selectedNode, showDetailModal, showTestPanel, showImportModal,
    detailRequestId, detail,   \* the GETs of details
    chosen,            \* the version that a card shows, if one was chosen
    test, result,      \* the mock test; its last result
    toDelete,          \* the node that the open dialog is about
    \* History: the library has changed under a load or behind the page; the
    \* node last clicked for its details.
    nodesShifted, viewed

Rows == [id : 1 .. MaxNodes, pkg : Packages]
loadVars   == <<fetch, nodesShifted>>
modalVars  == <<selectedNode, showDetailModal, showTestPanel, showImportModal, toDelete, viewed>>
detailVars == <<detailRequestId, detail>>
testVars   == <<test, result>>
managerVars == <<library, nextNode, nodes, selectedTags, isAdding, adding, loadVars, erasure, modalVars,
                 detailVars, chosen, testVars>>

NoFetch == [step |-> "idle", page |-> 1, all |-> <<>>, total |-> 0]
NoTest  == [step |-> "idle", of |-> 0]
NoImport == [step |-> "idle", pkg |-> None, row |-> None, here |-> TRUE]
Names == {NameOf[p] : p \in Packages}

GetFilteredNodes == Filtered(nodes, {n \in Rows : selectedTags => n.pkg \notin InUse})
NodeGroup(name) == {n \in ToSet(GetFilteredNodes) : NameOf[n.pkg] = name}
Latest(rows) == {n \in rows : \A o \in rows : <<n.pkg, o.pkg>> \notin Newer}
\* The version a card shows: the one chosen, or the latest if that is gone.
OnCard(name, n) ==
    /\ n \in NodeGroup(name)
    /\ IF \E o \in NodeGroup(name) : o.id = chosen[name] THEN n.id = chosen[name] ELSE n \in Latest(NodeGroup(name))

ManagerInit ==
    /\ library = Reverse([i \in DOMAIN First |-> [id |-> i, pkg |-> First[i]]]) /\ nextNode = Len(First) + 1
    /\ nodes = <<>> /\ selectedTags = FALSE
    /\ isAdding = FALSE /\ adding = NoImport
    /\ fetch = [f \in Fetches |-> IF f = 1 /\ route = "nodes" THEN [NoFetch EXCEPT !.step = "sent"] ELSE NoFetch]
    /\ nodesShifted = (route # "nodes")
    /\ erasure = [n \in 1 .. MaxNodes |-> "idle"]
    /\ selectedNode = None /\ showDetailModal = FALSE /\ showTestPanel = FALSE /\ showImportModal = FALSE
    /\ toDelete = None /\ viewed = None
    /\ detailRequestId = 0 /\ detail = [i \in 1 .. MaxActs |-> None]
    /\ chosen = [m \in Names |-> None]
    /\ test = NoTest /\ result = None

Overlay == showDetailModal \/ showTestPanel \/ showImportModal \/ toDelete # None
OnPage == User("nodes") /\ ~Overlay
InModal == Request("nodes")
Serving == UNCHANGED bounds \* the store and the server, whatever page is on screen
Loading == \E f \in Fetches : fetch[f].step # "idle"

----------------------------------------------------------------------------
(* loadNodes, once for every visit.                                        *)

ListNodes(f) ==
    /\ Serving
    /\ fetch[f].step = "sent"
    /\ LET last == IF fetch[f].page * NodePage < Len(library) THEN fetch[f].page * NodePage ELSE Len(library)
           part == SubSeq(library, (fetch[f].page - 1) * NodePage + 1, last)
           all  == fetch[f].all \o part
       IN fetch' = [fetch EXCEPT ![f] = [@ EXCEPT !.all = all, !.total = Len(library),
                        !.step = IF Len(all) >= Len(library) \/ part = <<>> THEN "last" ELSE "more"]]
    /\ UNCHANGED <<library, nextNode, nodes, selectedTags, isAdding, adding, nodesShifted, erasure, modalVars, detailVars, chosen, testVars>>
\* Mutant: the first page is taken for the library.
NodesAnswerFirst(f) ==
    /\ Serving
    /\ fetch[f].step \in {"more", "last"}
    /\ nodes' = fetch[f].all
    /\ fetch' = [fetch EXCEPT ![f] = NoFetch]
    /\ UNCHANGED <<library, nextNode, selectedTags, isAdding, adding, nodesShifted, erasure, modalVars, detailVars, chosen, testVars>>
NodesAnswer(f) ==
    /\ Serving
    /\ fetch[f].step \in {"more", "last"}
    /\ IF fetch[f].step = "more"
       THEN /\ fetch' = [fetch EXCEPT ![f].page = @ + 1, ![f].step = "sent"]
            /\ UNCHANGED nodes
       ELSE /\ nodes' = fetch[f].all
            /\ fetch' = [fetch EXCEPT ![f] = NoFetch]
    /\ UNCHANGED <<library, nextNode, selectedTags, isAdding, adding, nodesShifted, erasure, modalVars, detailVars, chosen, testVars>>
NodesFail(f) ==
    /\ Upset("nodes")
    /\ fetch[f].step # "idle"
    /\ fetch' = [fetch EXCEPT ![f] = NoFetch]
    /\ nodesShifted' = TRUE
    /\ UNCHANGED <<library, nextNode, nodes, selectedTags, isAdding, adding, erasure, modalVars, detailVars, chosen, testVars>>

----------------------------------------------------------------------------
(* Import.                                                                 *)

OpenImport ==
    /\ OnPage
    /\ showImportModal' = TRUE
    /\ UNCHANGED <<library, nextNode, nodes, selectedTags, isAdding, adding, loadVars, erasure, selectedNode, showDetailModal, showTestPanel, toDelete, viewed, detailVars, chosen, testVars>>
CloseImport ==
    /\ InModal
    /\ showImportModal
    /\ showImportModal' = FALSE
    /\ UNCHANGED <<library, nextNode, nodes, selectedTags, isAdding, adding, loadVars, erasure, selectedNode, showDetailModal, showTestPanel, toDelete, viewed, detailVars, chosen, testVars>>
HandleAddNode(p) ==
    /\ InModal
    /\ showImportModal /\ ~isAdding
    /\ isAdding' = TRUE /\ adding' = [NoImport EXCEPT !.step = "sent", !.pkg = p]
    /\ UNCHANGED <<library, nextNode, nodes, selectedTags, loadVars, erasure, modalVars, detailVars, chosen, testVars>>
\* The server refuses a version that exists.
ImportOnServer ==
    /\ Serving
    /\ adding.step = "sent" /\ nextNode <= MaxNodes
    /\ IF \E i \in DOMAIN library : library[i].pkg = adding.pkg
       THEN /\ adding' = [adding EXCEPT !.step = "refused"]
            /\ UNCHANGED <<library, nextNode, nodesShifted>>
       ELSE /\ adding' = [adding EXCEPT !.step = "done", !.row = [id |-> nextNode, pkg |-> adding.pkg]]
            /\ library' = <<[id |-> nextNode, pkg |-> adding.pkg]>> \o library /\ nextNode' = nextNode + 1
            /\ nodesShifted' = (nodesShifted \/ Loading)
    /\ UNCHANGED <<nodes, selectedTags, isAdding, fetch, erasure, modalVars, detailVars, chosen, testVars>>
ImportAnswer ==
    /\ Serving
    /\ adding.step \in {"done", "refused"}
    /\ IF adding.step = "done"
       THEN nodes' = Append(nodes, adding.row) /\ showImportModal' = (showImportModal /\ ~adding.here)
       ELSE UNCHANGED <<nodes, showImportModal>>
    /\ isAdding' = FALSE /\ adding' = NoImport
    \* A load that was issued in between has it already.
    /\ nodesShifted' = (nodesShifted \/ (adding.step = "done" /\ (Loading \/ adding.row \in ToSet(nodes))))
    /\ UNCHANGED <<library, nextNode, selectedTags, fetch, erasure, selectedNode, showDetailModal, showTestPanel, toDelete, viewed, detailVars, chosen, testVars>>
\* Mutant: the flag is reset by an answer only.
ImportFailsAdding ==
    /\ Upset("nodes")
    /\ adding.step # "idle"
    /\ adding' = NoImport
    /\ UNCHANGED <<library, nextNode, nodes, selectedTags, isAdding, loadVars, erasure, modalVars, detailVars, chosen, testVars>>
ImportFails ==
    /\ Upset("nodes")
    /\ adding.step # "idle"
    /\ isAdding' = FALSE /\ adding' = NoImport
    /\ nodesShifted' = (nodesShifted \/ adding.step = "done")
    /\ UNCHANGED <<library, nextNode, nodes, selectedTags, fetch, erasure, modalVars, detailVars, chosen, testVars>>

----------------------------------------------------------------------------
(* The cards, and deletion.                                                *)

ToggleTag ==
    /\ OnPage
    /\ selectedTags' = ~selectedTags
    /\ UNCHANGED <<library, nextNode, nodes, isAdding, adding, loadVars, erasure, modalVars, detailVars, chosen, testVars>>
ChooseVersion(n) ==
    /\ OnPage
    /\ n \in NodeGroup(NameOf[n.pkg]) /\ ~OnCard(NameOf[n.pkg], n)
    /\ chosen' = [chosen EXCEPT ![NameOf[n.pkg]] = n.id]
    /\ UNCHANGED <<library, nextNode, nodes, selectedTags, isAdding, adding, loadVars, erasure, modalVars, detailVars, testVars>>

SendErasure(id) == erasure' = [erasure EXCEPT ![id] = "sent"]
HandleDeleteNode(n) ==
    /\ OnPage
    /\ OnCard(NameOf[n.pkg], n) /\ erasure[n.id] = "idle"
    /\ IF NeedsDialog(TRUE) THEN toDelete' = n.id /\ UNCHANGED erasure
                            ELSE SendErasure(n.id) /\ UNCHANGED toDelete
    /\ UNCHANGED <<library, nextNode, nodes, selectedTags, isAdding, adding, loadVars, selectedNode, showDetailModal, showTestPanel, showImportModal, viewed, detailVars, chosen, testVars>>
AnswerDeleteDialog(ok) ==
    /\ InModal
    /\ toDelete # None
    /\ toDelete' = None
    /\ IF ok THEN SendErasure(toDelete) ELSE UNCHANGED erasure
    /\ UNCHANGED <<library, nextNode, nodes, selectedTags, isAdding, adding, loadVars, selectedNode, showDetailModal, showTestPanel, showImportModal, viewed, detailVars, chosen, testVars>>
\* The server refuses while a workflow refers to the node.
DeleteOnServer(id) ==
    /\ Serving
    /\ erasure[id] = "sent"
    /\ LET kept == Filtered(library, {n \in Rows : n.id # id \/ n.pkg \in InUse})
       IN /\ library' = kept
          /\ erasure' = [erasure EXCEPT ![id] = IF \E i \in DOMAIN kept : kept[i].id = id THEN "refused" ELSE "done"]
    /\ nodesShifted' = (nodesShifted \/ Loading)
    /\ UNCHANGED <<nextNode, nodes, selectedTags, isAdding, adding, fetch, modalVars, detailVars, chosen, testVars>>
\* Mutant: the store removes the node whatever the answer is.
DeletionAnswerAlways(id) ==
    /\ Serving
    /\ erasure[id] \in {"done", "refused"}
    /\ nodes' = Filtered(nodes, {n \in Rows : n.id # id})
    /\ erasure' = [erasure EXCEPT ![id] = "idle"]
    /\ UNCHANGED <<library, nextNode, selectedTags, isAdding, adding, loadVars, modalVars, detailVars, chosen, testVars>>
DeletionAnswer(id) ==
    /\ Serving
    /\ erasure[id] \in {"done", "refused"}
    /\ nodes' = IF erasure[id] = "done" THEN Filtered(nodes, {n \in Rows : n.id # id}) ELSE nodes
    /\ erasure' = [erasure EXCEPT ![id] = "idle"]
    /\ nodesShifted' = (nodesShifted \/ Loading)
    /\ UNCHANGED <<library, nextNode, selectedTags, isAdding, adding, fetch, modalVars, detailVars, chosen, testVars>>
DeletionFails(id) ==
    /\ Upset("nodes")
    /\ erasure[id] # "idle"
    /\ erasure' = [erasure EXCEPT ![id] = "idle"]
    /\ nodesShifted' = (nodesShifted \/ erasure[id] = "done")
    /\ UNCHANGED <<library, nextNode, nodes, selectedTags, isAdding, adding, fetch, modalVars, detailVars, chosen, testVars>>

----------------------------------------------------------------------------
(* Details and the mock test, which share selectedNode.                    *)

HandleViewNode(n) ==
    /\ OnPage
    /\ OnCard(NameOf[n.pkg], n)
    /\ selectedNode' = n.id /\ viewed' = n.id /\ showDetailModal' = TRUE
    /\ detailRequestId' = detailRequestId + 1
    /\ detail' = [detail EXCEPT ![detailRequestId + 1] = n.id]
    /\ UNCHANGED <<library, nextNode, nodes, selectedTags, isAdding, adding, loadVars, erasure, showTestPanel, showImportModal, toDelete, chosen, testVars>>
\* Mutant: an answer is an answer.
DetailAnswerUnguarded(i, found) ==
    /\ InModal
    /\ detail[i] # None
    /\ selectedNode' = IF found THEN detail[i] ELSE selectedNode
    /\ detail' = [detail EXCEPT ![i] = None]
    /\ UNCHANGED <<library, nextNode, nodes, selectedTags, isAdding, adding, loadVars, erasure, showDetailModal, showTestPanel, showImportModal, toDelete, viewed, detailRequestId, chosen, testVars>>
DetailAnswer(i, found) ==
    /\ InModal
    /\ detail[i] # None
    /\ selectedNode' = IF found /\ i = detailRequestId THEN detail[i] ELSE selectedNode
    /\ detail' = [detail EXCEPT ![i] = None]
    /\ UNCHANGED <<library, nextNode, nodes, selectedTags, isAdding, adding, loadVars, erasure, showDetailModal, showTestPanel, showImportModal, toDelete, viewed, detailRequestId, chosen, testVars>>
CloseDetail ==
    /\ InModal
    /\ showDetailModal
    /\ showDetailModal' = FALSE /\ selectedNode' = None
    /\ UNCHANGED <<library, nextNode, nodes, selectedTags, isAdding, adding, loadVars, erasure, showTestPanel, showImportModal, toDelete, viewed, detailVars, chosen, testVars>>

HandleTestNode(n) ==
    /\ OnPage
    /\ OnCard(NameOf[n.pkg], n)
    /\ selectedNode' = n.id /\ showTestPanel' = TRUE
    /\ UNCHANGED <<library, nextNode, nodes, selectedTags, isAdding, adding, loadVars, erasure, showDetailModal, showImportModal, toDelete, viewed, detailVars, chosen, testVars>>
\* The panel stays mounted: parameters and result are those of the last test.
HandleRunTest ==
    /\ User("nodes")
    /\ showTestPanel /\ test.step = "idle" /\ selectedNode # None
    /\ test' = [step |-> "sent", of |-> selectedNode] /\ result' = None
    /\ UNCHANGED <<library, nextNode, nodes, selectedTags, isAdding, adding, loadVars, erasure, modalVars, detailVars, chosen>>
TestAnswer ==
    /\ InModal
    /\ test.step = "sent"
    /\ result' = test.of /\ test' = NoTest
    /\ UNCHANGED <<library, nextNode, nodes, selectedTags, isAdding, adding, loadVars, erasure, modalVars, detailVars, chosen>>
CloseTest ==
    /\ InModal
    /\ showTestPanel
    /\ showTestPanel' = FALSE /\ selectedNode' = None
    /\ UNCHANGED <<library, nextNode, nodes, selectedTags, isAdding, adding, loadVars, erasure, showDetailModal, showImportModal, toDelete, viewed, detailVars, chosen, testVars>>

----------------------------------------------------------------------------
(* The other clients, and the way to other pages.                          *)

OthersImport(p) ==
    /\ Upset("nodes")
    /\ nextNode <= MaxNodes /\ \A i \in DOMAIN library : library[i].pkg # p
    /\ library' = <<[id |-> nextNode, pkg |-> p]>> \o library /\ nextNode' = nextNode + 1
    /\ nodesShifted' = TRUE
    /\ UNCHANGED <<nodes, selectedTags, isAdding, adding, fetch, erasure, modalVars, detailVars, chosen, testVars>>
OthersErase(n) ==
    /\ Upset("nodes")
    /\ n \in ToSet(library) /\ n.pkg \notin InUse
    /\ library' = Filtered(library, {o \in Rows : o.id # n.id})
    /\ nodesShifted' = TRUE
    /\ UNCHANGED <<nextNode, nodes, selectedTags, isAdding, adding, fetch, erasure, modalVars, detailVars, chosen, testVars>>

\* The modals go with the page.  The store keeps its list, its flag and what
\* follows the answers to its requests; every visit asks for a further load.
ManagerLeave ==
    /\ selectedNode' = None /\ showDetailModal' = FALSE /\ showTestPanel' = FALSE /\ showImportModal' = FALSE
    /\ toDelete' = None /\ viewed' = None
    /\ detailRequestId' = 0 /\ detail' = [i \in 1 .. MaxActs |-> None]
    /\ chosen' = [m \in Names |-> None]
    /\ test' = NoTest /\ result' = None
    /\ adding' = IF adding.step = "idle" THEN adding ELSE [adding EXCEPT !.here = FALSE]
    /\ UNCHANGED <<library, nextNode, nodes, selectedTags, isAdding, loadVars, erasure>>
ManagerMount ==
    /\ Free(fetch)
    /\ fetch' = [fetch EXCEPT ![Slot(fetch)].step = "sent"]
    /\ nodesShifted' = (Loading \/ adding.step # "idle" \/ \E n \in 1 .. MaxNodes : erasure[n] # "idle")
    /\ UNCHANGED <<library, nextNode, nodes, selectedTags, isAdding, adding, erasure, modalVars, detailVars, chosen, testVars>>

ManagerUser == \/ OpenImport \/ CloseImport \/ ToggleTag \/ CloseDetail \/ HandleRunTest \/ CloseTest
               \/ \E p \in Packages : HandleAddNode(p)
               \/ \E n \in Rows : \/ ChooseVersion(n) \/ HandleDeleteNode(n)
                                  \/ HandleViewNode(n) \/ HandleTestNode(n)
               \/ \E ok \in BOOLEAN : AnswerDeleteDialog(ok)
ManagerSystem == \/ \E f \in Fetches : ListNodes(f) \/ NodesAnswer(f)
                 \/ ImportOnServer \/ ImportAnswer
                 \/ \E id \in 1 .. MaxNodes : DeleteOnServer(id) \/ DeletionAnswer(id)
                 \/ \E i \in 1 .. MaxActs, found \in BOOLEAN : DetailAnswer(i, found)
                 \/ TestAnswer
ManagerUpsets == \/ \E f \in Fetches : NodesFail(f)
                 \/ ImportFails
                 \/ \E id \in 1 .. MaxNodes : DeletionFails(id)
                 \/ \E p \in Packages : OthersImport(p)
                 \/ \E n \in Rows : OthersErase(n)
ManagerNext == ManagerUser \/ ManagerSystem \/ ManagerUpsets

----------------------------------------------------------------------------
ManagerTypeOK ==
    /\ ToSet(library) \subseteq Rows /\ ToSet(nodes) \subseteq Rows
    /\ selectedNode \in 1 .. MaxNodes \cup {None} /\ toDelete \in 1 .. MaxNodes \cup {None}
    /\ (isAdding = (adding.step # "idle"))
    /\ erasure \in [1 .. MaxNodes -> {"idle", "sent", "done", "refused"}]

\* When the page waits for nothing, the store lists the library, each node
\* once, however many pages were put together; unless the library changed
\* under a load or behind the page, or a load or a request failed.
StoreListsTheLibrary ==
    /\ ~Loading /\ adding.step = "idle" /\ ~nodesShifted
    /\ \A id \in 1 .. MaxNodes : erasure[id] = "idle"
    => ToSet(nodes) = ToSet(library) /\ IsInjective(nodes)

\* The details are those of the node that was clicked last: the answer for a
\* node whose details were closed in the meantime does not get through.
DetailsAreOfTheClicked == showDetailModal => selectedNode = viewed

\* The store's list is the library, the details are those asked for.
LibraryAgrees == StoreListsTheLibrary /\ DetailsAreOfTheClicked

\* A refused or failed deletion takes no node off the list, whatever the page
\* says about it.
OnlyTheErasedGo ==
    [][\A i \in DOMAIN nodes :
         fetch' = fetch /\ nodes[i] \notin ToSet(nodes') => nodes[i] \notin ToSet(library')]_managerVars
=============================================================================
