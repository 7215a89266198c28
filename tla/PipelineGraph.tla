---------------------------- MODULE PipelineGraph ----------------------------
(***************************************************************************)
(* The two readers of the graph of a workflow: the picture of it on the    *)
(* card of the list (utils/pipelineThumbnail.ts), which reads the text by  *)
(* itself and lays it out in columns, and the canvas                       *)
(* (utils/mermaidParser.ts), which has it parsed by mermaid and laid out   *)
(* by ELK.                                                                 *)
(*                                                                         *)
(* The text is a sequence of arrows; labels and descriptions are left out, *)
(* and so is the YAML around it, of which only the keys of Nodes matter.   *)
(***************************************************************************)
EXTENDS Integers, Sequences, SequencesExt, FiniteSets, FiniteSetsExt, Functions, TLC

CONSTANTS StateIds, MaxArrows

Pseudo == "[*]"
Arrows == [from : StateIds \cup {Pseudo}, to : StateIds \cup {Pseudo}]
Texts  == BoundedSeq(Arrows, MaxArrows)
Arrow(from, to) == [from |-> from, to |-> to]

----------------------------------------------------------------------------
(* The thumbnail.                                                          *)

\* From one pseudo-state to the other leads nothing.
ParsedArrows(text) == SelectSeq(text, LAMBDA a : a # Arrow(Pseudo, Pseudo))
\* Those that both ends are drawn of.
DrawnArrows(text) == SelectSeq(ParsedArrows(text), LAMBDA a : Pseudo \notin {a.from, a.to})

Push(ids, id) == IF id = Pseudo \/ id \in ToSet(ids) THEN ids ELSE Append(ids, id)
Ends(arrows) == FlattenSeq([i \in DOMAIN arrows |-> <<arrows[i].from, arrows[i].to>>])
DrawnIds(text, keys) == FoldLeft(Push, <<>>, Ends(ParsedArrows(text)) \o keys)

\* assignLevels: depth first towards the parents, every result kept; a node
\* that is being visited counts as one of the first column.
Parents(id, arrows) == LET into == SelectSeq(arrows, LAMBDA a : a.to = id) IN [i \in DOMAIN into |-> into[i].from]
Larger(m, n) == IF m > n THEN m ELSE n
\* Mutant: the last parent decides.
ResolveLast(ids, arrows) ==
    LET Levels == -1 .. Cardinality(ids)
        found[n \in [id : ids, visiting : SUBSET ids, levels : [ids -> Levels]]] ==
            IF n.levels[n.id] >= 0 THEN [level |-> n.levels[n.id], levels |-> n.levels]
            ELSE IF n.id \in n.visiting THEN [level |-> 0, levels |-> n.levels]
            ELSE LET After(sofar, parent) ==
                         LET above == found[[id |-> parent, visiting |-> n.visiting \cup {n.id}, levels |-> sofar.levels]]
                         IN [above EXCEPT !.level = @ + 1]
                     all == FoldLeft(After, [level |-> 0, levels |-> n.levels], Parents(n.id, arrows))
                 IN [all EXCEPT !.levels[n.id] = all.level]
    IN found
Resolve(ids, arrows) ==
    LET Levels == -1 .. Cardinality(ids)
        found[n \in [id : ids, visiting : SUBSET ids, levels : [ids -> Levels]]] ==
            IF n.levels[n.id] >= 0 THEN [level |-> n.levels[n.id], levels |-> n.levels]
            ELSE IF n.id \in n.visiting THEN [level |-> 0, levels |-> n.levels]
            ELSE LET After(sofar, parent) ==
                         LET above == found[[id |-> parent, visiting |-> n.visiting \cup {n.id}, levels |-> sofar.levels]]
                         IN [above EXCEPT !.level = Larger(@ + 1, sofar.level)]
                     all == FoldLeft(After, [level |-> 0, levels |-> n.levels], Parents(n.id, arrows))
                 IN [all EXCEPT !.levels[n.id] = all.level]
    IN found
AssignLevels(ids, arrows) ==
    LET resolve == Resolve(ToSet(ids), arrows)
        Settle(levels, id) == resolve[[id |-> id, visiting |-> {}, levels |-> levels]].levels
    IN FoldLeft(Settle, [id \in ToSet(ids) |-> -1], ids)

\* Column by column, in half steps of a row: short columns are centred.
Column(ids, levels, x) == SelectSeq(ids, LAMBDA id : levels[id] = x)
RowOf(id, column, longest) == longest - Len(column) + 2 * ((CHOOSE i \in DOMAIN column : column[i] = id) - 1)
Placed(ids, levels, arrows) ==
    LET longest == Max({Len(Column(ids, levels, x)) : x \in Range(levels)})
    IN [x |-> levels,
        y |-> [id \in ToSet(ids) |-> RowOf(id, Column(ids, levels, levels[id]), longest)],
        arrows |-> arrows,
        dashed |-> {a \in ToSet(arrows) : levels[a.to] <= levels[a.from]}]
LaidOut(ids, arrows) == Placed(ids, AssignLevels(ids, arrows), arrows)
Thumbnail(text, keys) == LaidOut(DrawnIds(text, keys), DrawnArrows(text))

----------------------------------------------------------------------------
(* The canvas.  What mermaid returns has one state for all [*] that arrows *)
(* start from, and one for those that they lead to.                        *)

States(text) == FoldLeft(Push, <<>>, Ends(text))
End(id, name) == IF id = Pseudo THEN name ELSE id
\* Mutant: an arrow to [*] is taken for one of a node.
CanvasArrowsStartOnly(text) == [i \in DOMAIN text |-> Arrow(End(text[i].from, "__start__"), text[i].to)]
CanvasArrows(text) ==
    LET kept == ParsedArrows(text)
    IN [i \in DOMAIN kept |-> Arrow(End(kept[i].from, "__start__"), End(kept[i].to, "__end__"))]
EndIn(arrows, id) == IF id \in ToSet(Ends(arrows)) THEN <<id>> ELSE <<>>
CanvasNodes(text) == EndIn(CanvasArrows(text), "__start__") \o States(text) \o EndIn(CanvasArrows(text), "__end__")

----------------------------------------------------------------------------
Paths(ids, arrows) ==
    {p \in UNION {[1 .. n -> ids] : n \in 1 .. Cardinality(ids)} :
        /\ IsInjective(p)
        /\ \A i \in 1 .. Len(p) - 1 : Arrow(p[i], p[i + 1]) \in arrows}
OnCycle(a, paths) == \E p \in paths : p[1] = a.to /\ Last(p) = a.from

\* The picture and the canvas show one graph: the same arrows in the same
\* order, between nodes that both have, although one is read by mermaid and
\* the other line by line.
SameGraph(picture, drawn, arrows, keys) ==
    /\ picture.arrows = SelectSeq(arrows, LAMBDA a : a.from # "__start__" /\ a.to # "__end__")
    /\ DOMAIN picture.x = ToSet(keys) \cup (ToSet(drawn) \ {"__start__", "__end__"})
    /\ ToSet(Ends(arrows)) \subseteq ToSet(drawn)

\* A node of a graph without cycles stands as far to the right as the longest
\* path that leads to it; arrows that are drawn as going back (dashed) are on
\* a cycle, whatever order the arrows are in; no node covers another one, and
\* no column is beyond the number of nodes.
LaidOutWell(picture, ids, paths) ==
    /\ (\A a \in ToSet(picture.arrows) : ~OnCycle(a, paths)) =>
           \A id \in ids : picture.x[id] = Max({Len(p) - 1 : p \in {q \in paths : Last(q) = id}})
    /\ \A a \in picture.dashed : OnCycle(a, paths)
    /\ \A id, other \in ids : id # other => picture.x[id] # picture.x[other] \/ picture.y[id] # picture.y[other]
    /\ \A id \in ids : picture.x[id] <= Cardinality(ids)

\* For every text, with all or none of the ids among the keys of Nodes.
PicturesAgree ==
    \A text \in Texts : \A keys \in {<<>>, SetToSeq(StateIds)} : text \o keys # <<>> =>
        \A picture \in {Thumbnail(text, keys)} :
            /\ SameGraph(picture, CanvasNodes(text), CanvasArrows(text), keys)
            /\ LaidOutWell(picture, DOMAIN picture.x, Paths(DOMAIN picture.x, ToSet(picture.arrows)))
=============================================================================
