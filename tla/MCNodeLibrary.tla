---------------------------- MODULE MCNodeLibrary -----------------------------
(* One node in two versions, 1.9 and 1.10, the newer of which has two      *)
(* packages; a workflow that names it with and without a version.          *)
EXTENDS NodeLibrary, TLC

CONSTANTS n, p, q, o, f1, f2, c1, c2, w

V(base, pre) == [base |-> base, pre |-> pre]
v9   == V(<< <<1>>, <<9>> >>, <<>>)
v10  == V(<< <<1>>, <<1, 0>> >>, <<>>)
v10b == V(<< <<1>>, <<1, 0>> >>, << <<11, 14, 29, 10>> >>)    \* 1.10-beta

TwoVersions   == {v9, v10}
ThreeVersions == {v9, v10b, v10}
Order         == <<v9, v10b, v10>>

R(v) == [name |-> n, version |-> v]
Declared    == (p :> R(v10)) @@ (q :> R(v10)) @@ (o :> R(v9))
DeclaredOne == (p :> R(v10)) @@ (q :> R(v10))

SomeSaves == {{}, {[name |-> n, version |-> Bare]}, {R(v10)}}

Rank(v) == CHOOSE k \in DOMAIN Order : Order[k] = v

(* A bare reference resolves to the newest version of the node: numbers    *)
(* are compared as numbers, and a release is newer than its pre-releases   *)
(* (GetByRef, CompareNodeVersions).                                        *)
LatestIsNewest ==
    \A i \in Present :
      /\ Latest(row[i].ref.name) \in Present
      /\ Rank(row[i].ref.version) <= Rank(row[Latest(row[i].ref.name)].ref.version)

Symmetry == Permutations(Clients) \cup Permutations(Files)

=============================================================================
