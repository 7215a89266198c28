------------------------------ MODULE Playback ------------------------------
(***************************************************************************)
(* The page of a workflow, the log panel on it and the drawing of its      *)
(* graph, as the user of one or another meets them: with their selections, *)
(* answers, effects, timers and visits of other pages, while executions    *)
(* begin and requests fail.  The log panel shows the executions of one     *)
(* workflow; neither it nor the drawing sees the page around it change     *)
(* otherwise than by what it is given to show.                             *)
(***************************************************************************)
EXTENDS CanvasPage, LogPanel, GraphDrawing

playbackVars == <<route, bounds, systemSettings, canvasVars, logVars, drawingVars>>

PlaybackInit ==
    /\ route \in {"canvas", "logs", "drawing"}
    /\ acts = 0 /\ upsets = 0 /\ systemSettings = DefaultSettings
    /\ CanvasInit /\ LogInit /\ DrawingInit

OnCanvas == route \in {"canvas", "elsewhere"} /\ UNCHANGED <<route, systemSettings, logVars, drawingVars>>
OnLog    == route = "logs" /\ UNCHANGED <<route, systemSettings, canvasVars, drawingVars>>
OnGraph  == route = "drawing" /\ UNCHANGED <<route, systemSettings, canvasVars, logVars>>

LeavePage ==
    /\ AtCanvas
    /\ route' = "elsewhere" /\ CanvasLeave
    /\ UNCHANGED <<systemSettings, logVars, drawingVars>>
ComeBack ==
    /\ User("elsewhere")
    /\ route' = "canvas" /\ CanvasMount
    /\ UNCHANGED <<systemSettings, logVars, drawingVars>>

PlaybackSystem == (OnCanvas /\ CanvasSystem) \/ (OnLog /\ LogSystem) \/ (OnGraph /\ DrawingSystem)
PlaybackNext == \/ OnCanvas /\ CanvasNext
                \/ OnLog /\ LogNext
                \/ OnGraph /\ DrawingNext
                \/ LeavePage \/ ComeBack

\* Renders and effects run by themselves, timers fire, and servers answer what
\* does not fail; the user, other clients and the faults owe nothing.
PlaybackSpec == PlaybackInit /\ [][PlaybackNext]_playbackVars /\ WF_playbackVars(PlaybackSystem)

----------------------------------------------------------------------------
PlaybackTypeOK == CanvasTypeOK /\ LogTypeOK /\ DrawingTypeOK

PlaybackAgrees == CanvasAgrees /\ LogIsASuffix /\ DrawingIsTheGraph

\* Effects that write the URL, the selection and the workflow, and are run
\* again by what they write, do not chase one another for ever: a page that is
\* left alone comes to rest, with no request, timer or effect to come.
ComesToRest ==
    <>[]/\ route = "canvas" => CanvasAtRest /\ ListAtRest
        /\ commands = {} /\ LogAtRest /\ DrawingAtRest
=============================================================================
