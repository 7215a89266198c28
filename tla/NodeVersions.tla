----------------------------- MODULE NodeVersions -----------------------------
(***************************************************************************)
(* Version numbers of nodes, and which of two is the newer one.            *)
(*                                                                         *)
(* A version is its base and its pre-release, each cut at the dots into    *)
(* segments; a segment is the sequence of the codes of its characters, the *)
(* digits 0 .. 9 first, the letters after them, as in ASCII.  A version    *)
(* without a "-" has the empty pre-release <<>>.  Left out: segments that  *)
(* Atoi reads but that are not all digits ("-5"), and those too long for   *)
(* an int.                                                                 *)
(***************************************************************************)
EXTENDS Naturals, Sequences, SequencesExt

IsVersion(v) ==
    /\ DOMAIN v = {"base", "pre"}
    /\ \A part \in {"base", "pre"} : v[part] \in Seq(Seq(Nat))
    /\ v.base # <<>>

-----------------------------------------------------------------------------

\* The places that both sequences have, and the first of some places.
Common(s, t) == {i \in 1 .. Len(s) : i <= Len(t)}
First(places) == IF places = {} THEN 0 ELSE Min(places)

Sign(less, greater) == IF less THEN "older" ELSE IF greater THEN "newer" ELSE "same"

\* The < of Go strings.
TextLess(s, t) ==
    LET i == First({k \in Common(s, t) : s[k] # t[k]})
    IN  IF i = 0 THEN Len(s) < Len(t) ELSE s[i] < t[i]

IsNumber(segment) == segment # <<>> /\ \A i \in 1 .. Len(segment) : segment[i] <= 9

Value(segment) == FoldLeft(LAMBDA v, d : 10 * v + d, 0, segment)

SegmentLess(s, t) ==
    IF IsNumber(s) /\ IsNumber(t) THEN Value(s) < Value(t) ELSE TextLess(s, t)

\* Two segments, both numbers of one value, are passed over.
CompareSegments(as, bs) ==
    LET differ(k) == SegmentLess(as[k], bs[k]) \/ SegmentLess(bs[k], as[k])
        i == First({k \in Common(as, bs) : differ(k)})
    IN  IF i = 0 THEN Sign(Len(as) < Len(bs), Len(as) > Len(bs))
        ELSE Sign(SegmentLess(as[i], bs[i]), TRUE)

\* Mutant: every segment is compared as text.
CompareAsText(a, b) == Sign(\/ TextLess(a.base[Len(a.base)], b.base[Len(b.base)])
                            \/ a.base = b.base /\ a.pre # <<>> /\ b.pre = <<>>, a # b)

\* A release is newer than its pre-releases.
CompareNodeVersions(a, b) ==
    LET base == CompareSegments(a.base, b.base)
    IN  IF base # "same" THEN base
        ELSE IF (a.pre = <<>>) # (b.pre = <<>>) THEN Sign(b.pre = <<>>, TRUE)
        ELSE CompareSegments(a.pre, b.pre)

=============================================================================
