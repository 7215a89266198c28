---------------------------- MODULE GraphDrawing ----------------------------
(***************************************************************************)
(* How a graph gets onto the canvas and stays true there                   *)
(* (WorkflowCanvas.tsx): the source is parsed and laid out in two          *)
(* asynchronous steps, and a new source, new definitions or a new          *)
(* direction cancel them; nodes that come or go do so one by one, by       *)
(* timers; what React Flow measures leads to a second layout; and what a   *)
(* node shows besides its definition is kept current by effects of its own.*)
(*                                                                         *)
(* A value that a node shows is a token, the definition of a node the      *)
(* state of the library it was resolved against; positions are only known  *)
(* by the sizes they were computed from.  Effects run as soon as what they *)
(* depend on has changed.  The terminal nodes, which every graph has, are  *)
(* left out, and so is the colour of edges.                                *)
(***************************************************************************)
EXTENDS Browser, FiniteSets, Sequences, SequencesExt

CONSTANTS
    Drawn,     \* the graphs: nodes, edges, and whether the text parses
    MaxRedraws \* what happens to a drawing, failures too, instead of MaxActs and MaxUpsets

\* What React Flow has measured, and what a layout by it depends on.
Sizes == {"none", "small", "large"}
AllIds == UNION {ToSet(Drawn[y].nodes) : y \in DOMAIN Drawn}
Keys == [direction : {"TB", "LR"}, sizes : UNION {[ids -> Sizes] : ids \in SUBSET AllIds}]

\* The parser keys the nodes by their names, and a graph has some.
ASSUME DrawnAssumption ==
    /\ None \notin Nat \cup DOMAIN Drawn \cup Keys /\ MaxRedraws \in Nat
    /\ 1 \in DOMAIN Drawn /\ Drawn[1].parses
    /\ \A y \in DOMAIN Drawn :
         /\ Drawn[y].nodes \in Seq(Nat) /\ Drawn[y].nodes # <<>> /\ IsInjective(Drawn[y].nodes)
         /\ Drawn[y].edges \subseteq ToSet(Drawn[y].nodes) \X ToSet(Drawn[y].nodes)
         /\ Drawn[y].parses \in BOOLEAN

VARIABLES
    sourceYaml, library,             \* the graph's number; what its node packages are
    resolving, resolvedNodeDefs,
    askingExecutors,                 \* getWorkflowExecutors
    store,                           \* what the nodes show, at its source
    collapsed, direction,
    rebuild,                         \* the run of the parse effect, with what it has read
    orphans,                         \* cancelled runs that are still parsing
    staggerTimers, available,
    nodes, edges,                    \* what is on the canvas
    placed, layoutKey, relayout,     \* layoutKeyRef; the effect of the measured sizes
    late                             \* history: what has reason to be out of date

drawingVars == <<sourceYaml, library, resolving, resolvedNodeDefs, askingExecutors, store, collapsed, direction, rebuild,
                 orphans, staggerTimers, available, nodes, edges, placed, layoutKey, relayout, late>>

OnDrawing == route = "drawing" /\ acts < MaxRedraws /\ acts' = acts + 1 /\ UNCHANGED upsets
Drawing == Request("drawing")

\* The mode, which decides whether a node is interactive, goes the way of the
\* statuses, the mark of incomplete outputs that of the executors.
Shown == {"nodeStatuses", "executorInfo", "nodeRuntimeData"}
NoRebuild == [step |-> "idle", taken |-> None]
NoRelayout == [step |-> "idle", key |-> None]
Size == IF collapsed THEN "small" ELSE "large"

\* parseWorkflowGraph, and the edges of it; the edges to a removed node are
\* kept under another id until it leaves.
Ids(y) == ToSet(Drawn[y].nodes)
Edge(e, leaving) == [source |-> e[1], target |-> e[2], leaving |-> leaving]
EdgesWithin(y, ids) == {Edge(e, FALSE) : e \in {pair \in Drawn[y].edges : {pair[1], pair[2]} \subseteq ids}}
Touches(edge, ids) == {edge.source, edge.target} \cap ids # {}

\* A node as the parse effect makes it: with what the effect has read when the
\* parser was done, and unmeasured.
RawNode(n) ==
    [def |-> IF n \in DOMAIN resolvedNodeDefs THEN resolvedNodeDefs[n] ELSE None,
     shows |-> rebuild.taken, measured |-> "none", leaving |-> FALSE]

\* Mutant: the effect runs when the runtime data change, and not when nodes do.
RuntimeOnlyOnChange(drawn) == drawn
\* The effect of the runtime data depends on the nodes too.
WithRuntime(drawn) == [n \in DOMAIN drawn |-> [drawn[n] EXCEPT !.shows["nodeRuntimeData"] = store.nodeRuntimeData]]

\* The effect of the measured sizes.  Its key is the direction and the sizes
\* by node; a layout that is under way for other nodes or edges is cancelled.
KeyOf(way, drawn) == [direction |-> way, sizes |-> [n \in DOMAIN drawn |-> drawn[n].measured]]
Measured(drawn) == drawn # <<>> /\ \A n \in DOMAIN drawn : drawn[n].measured # "none"
RelayoutFor(staggering, way, drawn, key) ==
    IF ~staggering /\ Measured(drawn) /\ KeyOf(way, drawn) # key
    THEN [step |-> "timer", key |-> KeyOf(way, drawn)] ELSE NoRelayout
Redrawn == relayout' = RelayoutFor(rebuild'.step = "stagger", direction', nodes', layoutKey')

\* The parse effect is cleaned up and run again.
Orphaned == IF rebuild.step = "parse" /\ Drawn[sourceYaml].parses THEN 1 ELSE 0
\* Mutant: the timers of the run before go on.
RestartKeepingTimers(y) ==
    /\ rebuild' = IF y = None THEN NoRebuild ELSE [NoRebuild EXCEPT !.step = "parse"]
    /\ orphans' = orphans + Orphaned
    /\ UNCHANGED <<staggerTimers, available>>
RestartRebuild(y) ==
    /\ rebuild' = IF y = None THEN NoRebuild ELSE [NoRebuild EXCEPT !.step = "parse"]
    /\ orphans' = orphans + Orphaned
    /\ staggerTimers' = {} /\ available' = {}

\* The executors of the graph on show, which replay and editing ask for alike.
ExecutorsNow == [of |-> sourceYaml, library |-> library]

\* The canvas is empty, or the first graph has been on it for a while.
DrawingInit ==
    /\ sourceYaml \in IF route = "drawing" THEN {None, 1} ELSE {None}
    /\ library = 1 /\ collapsed = FALSE /\ direction = "TB"
    /\ resolving = FALSE /\ askingExecutors = FALSE
    /\ rebuild = NoRebuild /\ orphans = 0 /\ staggerTimers = {} /\ available = {}
    /\ relayout = NoRelayout /\ late = {}
    /\ store = [kind \in Shown |-> IF kind # "executorInfo" THEN 1 ELSE IF sourceYaml = None THEN None ELSE ExecutorsNow]
    /\ LET ids == IF sourceYaml = None THEN {} ELSE Ids(sourceYaml)
       IN /\ resolvedNodeDefs = [n \in ids |-> library]
          /\ nodes = [n \in ids |-> [def |-> library, shows |-> store, measured |-> "large", leaving |-> FALSE]]
          /\ edges = IF sourceYaml = None THEN {} ELSE EdgesWithin(sourceYaml, ids)
    /\ layoutKey = IF nodes = <<>> THEN None ELSE KeyOf(direction, nodes)
    /\ placed = layoutKey

----------------------------------------------------------------------------
(* What the drawing follows.                                               *)

\* A value that the nodes show changes, and an effect puts it on the nodes
\* that are on the canvas.  Those that are being laid out, or wait for their
\* timer, were made with the value of before.
Show(kind, value) ==
    /\ store' = [store EXCEPT ![kind] = value]
    /\ nodes' = [n \in DOMAIN nodes |-> [nodes[n] EXCEPT !.shows[kind] = value]]
    /\ late' = IF rebuild.step \in {"layout", "stagger"} THEN late \cup {kind} ELSE late \ {kind}

\* Another workflow or execution, or an edit of the one on show.
OpenSource(y) ==
    /\ OnDrawing
    /\ y # sourceYaml
    /\ sourceYaml' = y
    /\ resolving' = (y # None) /\ askingExecutors' = (y # None)
    /\ RestartRebuild(y)
    /\ IF y = None
       THEN /\ nodes' = <<>> /\ edges' = {} /\ relayout' = NoRelayout
            /\ resolvedNodeDefs' = <<>> /\ store' = [store EXCEPT !["executorInfo"] = None]
       ELSE UNCHANGED <<nodes, edges, relayout, resolvedNodeDefs, store>>
    /\ UNCHANGED <<library, collapsed, direction, placed, layoutKey, late>>

\* The event of a node package that was changed.
PackageChanges ==
    /\ OnDrawing
    /\ library' = 3 - library
    /\ resolving' = (sourceYaml # None) /\ askingExecutors' = (sourceYaml # None)
    /\ UNCHANGED <<sourceYaml, resolvedNodeDefs, store, collapsed, direction, rebuild, orphans, staggerTimers, available,
                   nodes, edges, placed, layoutKey, relayout, late>>

Change(kind) ==
    /\ OnDrawing
    /\ kind # "executorInfo"
    /\ Show(kind, 3 - store[kind])
    /\ UNCHANGED <<sourceYaml, library, resolving, resolvedNodeDefs, askingExecutors, collapsed, direction, rebuild, orphans,
                   staggerTimers, available, edges, placed, layoutKey>>
    /\ Redrawn

ToggleDirection ==
    /\ OnDrawing
    /\ direction' = IF direction = "TB" THEN "LR" ELSE "TB"
    /\ RestartRebuild(sourceYaml)
    /\ UNCHANGED <<sourceYaml, library, resolving, resolvedNodeDefs, askingExecutors, store, collapsed, nodes, edges, placed,
                   layoutKey, late>>
    /\ Redrawn

\* The nodes grow or shrink, and React Flow will measure them.
ToggleCollapsed ==
    /\ OnDrawing
    /\ collapsed' = ~collapsed
    /\ UNCHANGED <<sourceYaml, library, resolving, resolvedNodeDefs, askingExecutors, store, direction, rebuild, orphans,
                   staggerTimers, available, nodes, edges, placed, layoutKey, relayout, late>>
Unmeasured == {n \in DOMAIN nodes : nodes[n].measured # Size}
OnNodesChange ==
    /\ Drawing
    /\ Unmeasured # {}
    /\ nodes' = [n \in DOMAIN nodes |-> [nodes[n] EXCEPT !.measured = Size]]
    /\ UNCHANGED <<sourceYaml, library, resolving, resolvedNodeDefs, askingExecutors, store, collapsed, direction, rebuild,
                   orphans, staggerTimers, available, edges, placed, layoutKey, late>>
    /\ Redrawn

ResolveAnswer ==
    /\ Drawing
    /\ resolving
    /\ resolving' = FALSE /\ resolvedNodeDefs' = [n \in Ids(sourceYaml) |-> library]
    /\ RestartRebuild(sourceYaml)
    /\ late' = late \ {"def"}
    /\ UNCHANGED <<sourceYaml, library, askingExecutors, store, collapsed, direction, nodes, edges, placed, layoutKey, relayout>>
ResolveFails ==
    /\ OnDrawing
    /\ resolving
    /\ resolving' = FALSE
    /\ late' = late \cup {"def"}
    /\ UNCHANGED <<sourceYaml, library, resolvedNodeDefs, askingExecutors, store, collapsed, direction, rebuild, orphans,
                   staggerTimers, available, nodes, edges, placed, layoutKey, relayout>>

Badges(info) == Show("executorInfo", info)
ExecutorsAnswer ==
    /\ Drawing
    /\ askingExecutors
    /\ askingExecutors' = FALSE
    /\ Badges(ExecutorsNow)
    /\ UNCHANGED <<sourceYaml, library, resolving, resolvedNodeDefs, collapsed, direction, rebuild, orphans, staggerTimers,
                   available, edges, placed, layoutKey>>
    /\ Redrawn
ExecutorsFail ==
    /\ OnDrawing
    /\ askingExecutors
    /\ askingExecutors' = FALSE
    /\ Badges(None)
    /\ UNCHANGED <<sourceYaml, library, resolving, resolvedNodeDefs, collapsed, direction, rebuild, orphans, staggerTimers,
                   available, edges, placed, layoutKey>>
    /\ Redrawn

----------------------------------------------------------------------------
(* The parse effect.                                                       *)

Clear == nodes' = <<>> /\ edges' = {} /\ rebuild' = NoRebuild /\ relayout' = NoRelayout

ParseDone ==
    /\ Drawing
    /\ rebuild.step = "parse" /\ Drawn[sourceYaml].parses
    /\ rebuild' = [step |-> "layout", taken |-> store]
    /\ layoutKey' = None
    /\ late' = late \ (Shown \cup {"graph", "layout"})
    /\ UNCHANGED <<sourceYaml, library, resolving, resolvedNodeDefs, askingExecutors, store, collapsed, direction, orphans,
                   staggerTimers, available, nodes, edges, placed, relayout>>
ParseFails ==
    /\ Drawing
    /\ rebuild.step = "parse" /\ ~Drawn[sourceYaml].parses
    /\ Clear
    /\ UNCHANGED <<sourceYaml, library, resolving, resolvedNodeDefs, askingExecutors, store, collapsed, direction, orphans,
                   staggerTimers, available, placed, layoutKey, late>>
\* The parser or ELK could not be loaded.
RebuildFails ==
    /\ OnDrawing
    /\ rebuild.step \in {"parse", "layout"}
    /\ Clear
    /\ late' = late \cup {"graph"}
    /\ UNCHANGED <<sourceYaml, library, resolving, resolvedNodeDefs, askingExecutors, store, collapsed, direction, orphans,
                   staggerTimers, available, placed, layoutKey>>
\* A cancelled run goes on until its layout is there, and clears the key.
OrphanParsed ==
    /\ Drawing
    /\ orphans > 0
    /\ orphans' = orphans - 1 /\ layoutKey' = None
    /\ UNCHANGED <<sourceYaml, library, resolving, resolvedNodeDefs, askingExecutors, store, collapsed, direction, rebuild,
                   staggerTimers, available, nodes, edges, placed, relayout, late>>

Kept    == Ids(sourceYaml) \cap DOMAIN nodes
Added   == Filtered(Drawn[sourceYaml].nodes, Ids(sourceYaml) \ DOMAIN nodes)
Removed == DOMAIN nodes \ Ids(sourceYaml)
\* Nothing was there, or nothing of this graph, or just this graph.
Replaces == Kept = {} \/ (Added = <<>> /\ Removed = {})

\* The timers: 400 ms for each node that leaves, the last one first, 320 for it
\* to fade; meanwhile the new nodes, those after the tenth all at once.
\* The place of a node in leavingQueue.
LeavesAfter(n) == Cardinality({other \in Removed : other > n})
Mounts(i) == 150 + 400 * (IF i > 10 THEN 9 ELSE i - 1)
LastAddDelay == IF Added = <<>> THEN 0 ELSE Mounts(Len(Added))
LastRemoveDone == IF Removed = {} THEN 0 ELSE 400 * (Cardinality(Removed) - 1) + 320
StaggerEnd == LET add == LastAddDelay + 500
                  remove == IF Removed = {} THEN 0 ELSE LastRemoveDone + 400
              IN IF add > remove THEN add ELSE remove
Timer(at, does, node) == [at |-> at, does |-> does, node |-> node]
Timers == {Timer(400 * LeavesAfter(n), "leave", n) : n \in Removed}
     \cup {Timer(400 * LeavesAfter(n) + 320, "remove", n) : n \in Removed}
     \cup {Timer(Mounts(i), "mount", Added[i]) : i \in DOMAIN Added}
     \cup {Timer(StaggerEnd, "end", None)}

\* The layout of the parse effect has come, by estimated sizes.
LandWhole ==
    /\ Drawing
    /\ rebuild.step = "layout" /\ Replaces
    /\ rebuild' = NoRebuild
    /\ nodes' = WithRuntime([n \in Ids(sourceYaml) |-> RawNode(n)])
    /\ edges' = EdgesWithin(sourceYaml, Ids(sourceYaml))
    /\ placed' = None
    /\ UNCHANGED <<sourceYaml, library, resolving, resolvedNodeDefs, askingExecutors, store, collapsed, direction, orphans,
                   staggerTimers, available, layoutKey, late>>
    /\ Redrawn
LandStepwise ==
    /\ Drawing
    /\ rebuild.step = "layout" /\ ~Replaces
    /\ rebuild' = [rebuild EXCEPT !.step = "stagger"]
    /\ staggerTimers' = Timers /\ available' = DOMAIN nodes
    /\ nodes' = WithRuntime([n \in Kept \cup Removed |-> IF n \in Kept THEN RawNode(n) ELSE nodes[n]])
    /\ edges' = EdgesWithin(sourceYaml, Kept)
                \cup {[edge EXCEPT !.leaving = TRUE] : edge \in {e \in edges : Touches(e, Removed)}}
    /\ placed' = None
    /\ UNCHANGED <<sourceYaml, library, resolving, resolvedNodeDefs, askingExecutors, store, collapsed, direction, orphans,
                   layoutKey, late>>
    /\ Redrawn

----------------------------------------------------------------------------
(* The timers, in the order of their times.                                *)

Due(timer) == Drawing /\ timer \in staggerTimers /\ \A other \in staggerTimers : timer.at <= other.at
Expires(timer) == Due(timer) /\ staggerTimers' = staggerTimers \ {timer}

LeaveTimer(timer) ==
    /\ Expires(timer) /\ timer.does = "leave"
    /\ available' = available \ {timer.node}
    /\ nodes' = [nodes EXCEPT ![timer.node].leaving = TRUE]
    /\ edges' = {edge \in edges : ~edge.leaving \/ ~Touches(edge, {timer.node})}
    /\ UNCHANGED <<sourceYaml, library, resolving, resolvedNodeDefs, askingExecutors, store, collapsed, direction, rebuild,
                   orphans, placed, layoutKey, late>>
    /\ Redrawn
RemoveTimer(timer) ==
    /\ Expires(timer) /\ timer.does = "remove"
    /\ nodes' = [n \in DOMAIN nodes \ {timer.node} |-> nodes[n]]
    /\ UNCHANGED <<sourceYaml, library, resolving, resolvedNodeDefs, askingExecutors, store, collapsed, direction, rebuild,
                   orphans, available, edges, placed, layoutKey, late>>
    /\ Redrawn
\* Mutant: all its edges come with it.
MountWithAllEdges(timer) ==
    /\ Expires(timer) /\ timer.does = "mount"
    /\ available' = available \cup {timer.node}
    /\ nodes' = WithRuntime([n \in DOMAIN nodes \cup {timer.node} |-> IF n \in DOMAIN nodes THEN nodes[n] ELSE RawNode(n)])
    /\ edges' = edges \cup {e \in EdgesWithin(sourceYaml, Ids(sourceYaml)) : Touches(e, {timer.node})}
    /\ UNCHANGED <<sourceYaml, library, resolving, resolvedNodeDefs, askingExecutors, store, collapsed, direction, rebuild,
                   orphans, placed, layoutKey, late>>
    /\ Redrawn
\* The edges of a new node come with it, as far as their other ends are there.
MountTimer(timer) ==
    /\ Expires(timer) /\ timer.does = "mount"
    /\ available' = available \cup {timer.node}
    /\ nodes' = WithRuntime([n \in DOMAIN nodes \cup {timer.node} |-> IF n \in DOMAIN nodes THEN nodes[n] ELSE RawNode(n)])
    /\ edges' = edges \cup EdgesWithin(sourceYaml, available')
    /\ UNCHANGED <<sourceYaml, library, resolving, resolvedNodeDefs, askingExecutors, store, collapsed, direction, rebuild,
                   orphans, placed, layoutKey, late>>
    /\ Redrawn
EndTimer(timer) ==
    /\ Expires(timer) /\ timer.does = "end"
    /\ rebuild' = NoRebuild /\ available' = {}
    /\ layoutKey' = None
    /\ late' = late \ {"layout"}
    /\ UNCHANGED <<sourceYaml, library, resolving, resolvedNodeDefs, askingExecutors, store, collapsed, direction, orphans,
                   nodes, edges, placed>>
    /\ Redrawn
----------------------------------------------------------------------------
(* The layout by measured sizes.                                           *)

RelayoutTimer ==
    /\ Drawing
    /\ relayout.step = "timer"
    /\ relayout' = [relayout EXCEPT !.step = "layout"]
    /\ UNCHANGED <<sourceYaml, library, resolving, resolvedNodeDefs, askingExecutors, store, collapsed, direction, rebuild,
                   orphans, staggerTimers, available, nodes, edges, placed, layoutKey, late>>
\* Between the parser and the layout of the parse effect, the key it has
\* cleared comes back, and the sizes of the next nodes may pass for known.
Bypassed == IF rebuild.step = "layout" THEN late \cup {"layout"} ELSE late \ {"layout"}
\* Mutant: the key of what has landed is not kept.
RelayoutForgets ==
    /\ Drawing
    /\ relayout.step = "layout"
    /\ placed' = relayout.key
    /\ late' = Bypassed
    /\ UNCHANGED <<sourceYaml, library, resolving, resolvedNodeDefs, askingExecutors, store, collapsed, direction, rebuild,
                   orphans, staggerTimers, available, nodes, edges, layoutKey>>
    /\ Redrawn
RelayoutLands ==
    /\ Drawing
    /\ relayout.step = "layout"
    /\ layoutKey' = relayout.key /\ placed' = relayout.key
    /\ late' = Bypassed
    /\ UNCHANGED <<sourceYaml, library, resolving, resolvedNodeDefs, askingExecutors, store, collapsed, direction, rebuild,
                   orphans, staggerTimers, available, nodes, edges>>
    /\ Redrawn
RelayoutFails ==
    /\ OnDrawing
    /\ relayout.step = "layout"
    /\ relayout' = NoRelayout /\ late' = late \cup {"layout"}
    /\ UNCHANGED <<sourceYaml, library, resolving, resolvedNodeDefs, askingExecutors, store, collapsed, direction, rebuild,
                   orphans, staggerTimers, available, nodes, edges, placed, layoutKey>>

DrawingUser == \/ \E y \in DOMAIN Drawn \cup {None} : OpenSource(y)
               \/ PackageChanges \/ \E kind \in Shown : Change(kind)
               \/ ToggleDirection \/ ToggleCollapsed
DrawingSystem == \/ OnNodesChange \/ ResolveAnswer \/ ExecutorsAnswer
                 \/ ParseDone \/ ParseFails \/ OrphanParsed \/ LandWhole \/ LandStepwise
                 \/ \E t \in staggerTimers : LeaveTimer(t) \/ RemoveTimer(t) \/ MountTimer(t) \/ EndTimer(t)
                 \/ RelayoutTimer \/ RelayoutLands
DrawingUpsets == ResolveFails \/ ExecutorsFail \/ RebuildFails \/ RelayoutFails
DrawingNext == DrawingUser \/ DrawingSystem \/ DrawingUpsets

----------------------------------------------------------------------------
DrawingTypeOK ==
    /\ sourceYaml \in DOMAIN Drawn \cup {None} /\ library \in 1 .. 2 /\ direction \in {"TB", "LR"}
    /\ rebuild.step \in {"idle", "parse", "layout", "stagger"} /\ relayout.step \in {"idle", "timer", "layout"}
    /\ (staggerTimers # {}) = (rebuild.step = "stagger")
    /\ \A n \in DOMAIN nodes : nodes[n].measured \in Sizes
    /\ relayout.step # "idle" => rebuild.step # "stagger" /\ relayout.key = KeyOf(direction, nodes)

DrawingAtRest ==
    /\ ~resolving /\ ~askingExecutors /\ rebuild.step = "idle" /\ relayout.step = "idle" /\ orphans = 0
    /\ Unmeasured = {}

\* However sources, definitions, directions, answers and timers cross, an edge
\* on the canvas has its ends there, and no node shows the runtime data of
\* before.  A canvas at rest shows the graph of its source, all of it and no
\* node that has left, by the definitions and with the values of now, placed by
\* the sizes that were measured; unless a request, the parser or a layout
\* failed, a value changed while nodes were under way with that of before, or a
\* layout of the old nodes landed after the parser.
DrawingIsTheGraph ==
    /\ \A edge \in edges : {edge.source, edge.target} \subseteq DOMAIN nodes
    /\ \A n \in DOMAIN nodes : nodes[n].shows.nodeRuntimeData = store.nodeRuntimeData
    /\ DrawingAtRest =>
        IF sourceYaml = None \/ ~Drawn[sourceYaml].parses \/ "graph" \in late
        THEN nodes = <<>> /\ edges = {}
        ELSE /\ DOMAIN nodes = Ids(sourceYaml) /\ edges = EdgesWithin(sourceYaml, Ids(sourceYaml))
             /\ "layout" \notin late => placed = KeyOf(direction, nodes)
             /\ \A n \in DOMAIN nodes :
                  /\ ~nodes[n].leaving
                  /\ "def" \notin late => nodes[n].def = library
                  /\ \A kind \in Shown \ late : nodes[n].shows[kind] = store[kind]
                  /\ "executorInfo" \notin late => nodes[n].shows.executorInfo \in {None, ExecutorsNow}
=============================================================================

