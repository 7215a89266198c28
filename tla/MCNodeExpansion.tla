--------------------------- MODULE MCNodeExpansion ----------------------------
(* A registry of up to three executors, and a workflow of two nodes that    *)
(* combine every way of choosing an executor.                              *)
EXTENDS NodeExpansion, TLC

CONSTANTS a, b, pa, pb, i1, i2, t, r1, r2, k1, k2

SameTag     == (i1 :> t) @@ (i2 :> t)

D(ref, type, kind, of, image) ==
    [package |-> pa, selectRef |-> ref, selectType |-> type, kind |-> kind, of |-> of, image |-> image]

\* Two nodes of two packages, or of one in two versions.
W(da, db)    == (a :> da) @@ (b :> [db EXCEPT !.package = pb])
Same(da, db) == (a :> da) @@ (b :> db)

\* 2 is the instance that the workflow or the package names.
Undeclared == D(None, None, "plain", None, None)
PlainI1   == D(None, None, "plain", None, i1)
Ref       == D(None, None, "ref", 2, None)
RefI1     == D(None, None, "ref", 2, i1)
RefI2     == D(None, None, "ref", 2, i2)
Inline    == D(None, None, "inline", "docker", i1)
InlineI2  == D(None, None, "inline", "docker", i2)
Prefers   == D(None, None, "portable", <<"docker", "local">>, i2)
PicksRef  == D(2, None, "portable", <<"local">>, None)
PicksType == D(None, "docker", "portable", <<"docker", "local">>, i1)
PicksBoth == D(2, "docker", "plain", None, None)

EveryWay == { W(Undeclared, PlainI1), W(RefI1, RefI2), W(Prefers, Inline),
              W(PicksRef, PlainI1), W(PicksType, PicksBoth), W(Ref, PicksRef),
              W(Inline, RefI1), Same(Inline, InlineI2) }

Symmetry == Permutations(Requests)

=============================================================================
