--------------------------- MODULE BrowserProofs ----------------------------
(***************************************************************************)
(* What the proofs about the pages need of the lists that they keep.       *)
(***************************************************************************)
EXTENDS Browser, SequencesExt, FiniteSetTheorems, SequenceTheorems, TLAPS

(***************************************************************************)
(* Lists.  Filtered is a recursive function; that there is one, and what   *)
(* it gives, is shown by induction on the length of the list, from the     *)
(* least element of a set of natural numbers.                              *)
(***************************************************************************)
LEMMA LeastElement ==
    ASSUME NEW S, S \subseteq Nat, S # {}
    PROVE  \E k \in S : \A j \in S : k <= j
<1>1. PICK k \in S : \A j \in S : ~ <<j, k>> \in OpToRel(<, Nat)
  BY NatLessThanWellFounded, WFMin
<1>2. ASSUME NEW j \in S PROVE k <= j
  <2>1. j \in Nat /\ k \in Nat
    OBVIOUS
  <2>2. <<j, k>> \in Nat \X Nat
    BY <2>1
  <2>3. ~ (j < k)
    BY <1>1, <2>1, <2>2 DEF OpToRel
  <2> QED BY <2>1, <2>3
<1> QED BY <1>2

(* Induction, over the members of a set instead of an operator.            *)
LEMMA InductionOnSet ==
    ASSUME NEW S, 0 \in S, \A k \in S : k \in Nat => k + 1 \in S
    PROVE  Nat \subseteq S
<1> SUFFICES ASSUME Nat \ S # {} PROVE FALSE
  OBVIOUS
<1>1. PICK k \in Nat \ S : \A j \in Nat \ S : k <= j
  BY LeastElement, Nat \ S \subseteq Nat, Zenon
<1>2. k # 0 /\ k - 1 \in Nat /\ k - 1 \in S
  BY <1>1
<1>3. k \in S
  BY <1>2, <1>1
<1> QED BY <1>1, <1>3

(* The first n elements of the list are sifted.                            *)
Sifts(f, list, kept, n) ==
    f = [k \in 0 .. n |-> IF k = 0 THEN <<>>
                          ELSE IF list[k] \in kept THEN Append(f[k - 1], list[k]) ELSE f[k - 1]]

LEMMA SiftExists ==
    ASSUME NEW list, NEW kept
    PROVE  \A n \in Nat : \E f : Sifts(f, list, kept, n)
<1> DEFINE S == {n \in Nat : \E f : Sifts(f, list, kept, n)}
<1>1. 0 \in S
  <2>1. Sifts([k \in 0 .. 0 |-> <<>>], list, kept, 0)
    BY DEF Sifts
  <2> QED BY <2>1
<1>2. ASSUME NEW n \in S PROVE n + 1 \in S
  <2>1. PICK f : Sifts(f, list, kept, n)
    OBVIOUS
  <2> DEFINE last == IF list[n + 1] \in kept THEN Append(f[n], list[n + 1]) ELSE f[n]
             g == [k \in 0 .. n + 1 |-> IF k = n + 1 THEN last ELSE f[k]]
  <2>2. \A k \in 0 .. n : g[k] = f[k]
    OBVIOUS
  <2>3. \A k \in 0 .. n : f[k] = IF k = 0 THEN <<>>
            ELSE IF list[k] \in kept THEN Append(f[k - 1], list[k]) ELSE f[k - 1]
    BY <2>1 DEF Sifts
  <2>4. ASSUME NEW k \in 0 .. n + 1
        PROVE  g[k] = IF k = 0 THEN <<>>
                      ELSE IF list[k] \in kept THEN Append(g[k - 1], list[k]) ELSE g[k - 1]
    <3>1. CASE k = n + 1
      <4>1. k # 0 /\ k - 1 = n /\ g[k - 1] = f[n]
        BY <3>1
      <4> QED BY <4>1, <3>1
    <3>2. CASE k # n + 1
      <4>1. k \in 0 .. n /\ g[k] = f[k] /\ (k # 0 => k - 1 \in 0 .. n /\ g[k - 1] = f[k - 1])
        BY <3>2, <2>2
      <4> QED BY <4>1, <2>3
    <3> QED BY <3>1, <3>2
  <2>5. Sifts(g, list, kept, n + 1)
    BY <2>4 DEF Sifts
  <2> QED BY <2>5
<1> HIDE DEF S
<1>3. Nat \subseteq S
  BY <1>1, <1>2, InductionOnSet
<1> QED BY <1>3 DEF S

LEMMA FilteredIs ==
    ASSUME NEW list, NEW kept, Len(list) \in Nat
    PROVE  \E f : Sifts(f, list, kept, Len(list)) /\ Filtered(list, kept) = f[Len(list)]
<1> DEFINE f == CHOOSE f : Sifts(f, list, kept, Len(list))
<1>1. Sifts(f, list, kept, Len(list))
  BY SiftExists, Zenon
<1>2. Filtered(list, kept) = f[Len(list)]
  BY DEF Filtered, Sifts
<1> QED BY <1>1, <1>2

LEMMA SiftSteps ==
    ASSUME NEW f, NEW list, NEW kept, NEW n \in Nat, Sifts(f, list, kept, n)
    PROVE  /\ f[0] = <<>>
           /\ \A k \in 1 .. n : f[k] = IF list[k] \in kept THEN Append(f[k - 1], list[k]) ELSE f[k - 1]
<1>1. \A k \in 0 .. n : f[k] = IF k = 0 THEN <<>>
            ELSE IF list[k] \in kept THEN Append(f[k - 1], list[k]) ELSE f[k - 1]
  BY DEF Sifts
<1>2. \A k \in 1 .. n : k \in 0 .. n /\ k # 0
  OBVIOUS
<1> QED BY <1>1, <1>2

(* What is kept is a list, has what it is to have, and each of it once if  *)
(* the list did.                                                           *)
SiftedFrom(g, list, kept, n) ==
    /\ Len(g) <= n
    /\ \A i \in 1 .. Len(g) : g[i] \in kept /\ \E j \in 1 .. n : g[i] = list[j]
    /\ \A j \in 1 .. n : list[j] \in kept => \E i \in 1 .. Len(g) : g[i] = list[j]
    /\ IsInjective(list) => \A i, j \in 1 .. Len(g) : g[i] = g[j] => i = j

LEMMA SiftedFromGrows ==
    ASSUME NEW S, NEW list \in Seq(S), NEW kept, NEW n \in Nat, n + 1 <= Len(list),
           NEW g \in Seq(S), SiftedFrom(g, list, kept, n)
    PROVE  LET h == IF list[n + 1] \in kept THEN Append(g, list[n + 1]) ELSE g
           IN  h \in Seq(S) /\ SiftedFrom(h, list, kept, n + 1)
<1> DEFINE x == list[n + 1]
           h == IF x \in kept THEN Append(g, x) ELSE g
<1>1. x \in S /\ n + 1 \in 1 .. Len(list) /\ \A j \in 1 .. n + 1 : j \in 1 .. n \/ j = n + 1
  OBVIOUS
<1>2. CASE x \notin kept
  <2>1. h = g
    BY <1>2
  <2>2. \A i \in 1 .. Len(g) : \E j \in 1 .. n + 1 : g[i] = list[j]
    BY DEF SiftedFrom
  <2>3. \A j \in 1 .. n + 1 : list[j] \in kept => \E i \in 1 .. Len(g) : g[i] = list[j]
    BY <1>1, <1>2 DEF SiftedFrom
  <2>4. Len(g) <= n + 1
    BY DEF SiftedFrom
  <2> QED BY <2>1, <2>2, <2>3, <2>4 DEF SiftedFrom
<1>3. CASE x \in kept
  <2>1. /\ h = Append(g, x) /\ h \in Seq(S) /\ Len(h) = Len(g) + 1 /\ h[Len(g) + 1] = x
        /\ \A i \in 1 .. Len(g) : h[i] = g[i]
    BY <1>1, <1>3, AppendProperties
  <2> HIDE DEF h
  <2>2. Len(g) \in Nat /\ \A i \in 1 .. Len(h) : i \in 1 .. Len(g) \/ i = Len(g) + 1
    BY <2>1
  <2>3. Len(h) <= n + 1
    BY <2>1 DEF SiftedFrom
  <2>4. ASSUME NEW i \in 1 .. Len(h) PROVE h[i] \in kept /\ \E j \in 1 .. n + 1 : h[i] = list[j]
    <3>1. CASE i \in 1 .. Len(g)
      <4>1. h[i] = g[i] /\ g[i] \in kept
        BY <2>1, <3>1 DEF SiftedFrom
      <4>2. PICK j \in 1 .. n : g[i] = list[j]
        BY <3>1 DEF SiftedFrom
      <4> QED BY <4>1, <4>2
    <3>2. CASE i = Len(g) + 1
      BY <2>1, <3>2, <1>3
    <3> QED BY <2>2, <3>1, <3>2
  <2>5. ASSUME NEW j \in 1 .. n + 1, list[j] \in kept PROVE \E i \in 1 .. Len(h) : h[i] = list[j]
    <3>1. CASE j \in 1 .. n
      <4>1. PICK i \in 1 .. Len(g) : g[i] = list[j]
        BY <2>5, <3>1 DEF SiftedFrom
      <4>2. i \in 1 .. Len(h) /\ h[i] = list[j]
        BY <4>1, <2>1
      <4> QED BY <4>2
    <3>2. CASE j = n + 1
      <4>1. Len(g) + 1 \in 1 .. Len(h) /\ h[Len(g) + 1] = list[j]
        BY <2>1, <3>2
      <4> QED BY <4>1
    <3> QED BY <1>1, <3>1, <3>2
  <2>6. ASSUME IsInjective(list), NEW i \in 1 .. Len(h), NEW j \in 1 .. Len(h), h[i] = h[j]
        PROVE  i = j
    <3>1. \A k \in 1 .. Len(g) : g[k] # x
      <4>1. \A k \in 1 .. Len(g) : \E m \in 1 .. n : g[k] = list[m]
        BY DEF SiftedFrom
      <4>2. \A m \in 1 .. n : list[m] # x
        BY <2>6 DEF IsInjective
      <4> QED BY <4>1, <4>2
    <3>2. CASE i \in 1 .. Len(g) /\ j \in 1 .. Len(g)
      BY <2>1, <2>6, <3>2 DEF SiftedFrom
    <3>3. CASE i = Len(g) + 1 /\ j \in 1 .. Len(g)
      BY <2>1, <2>6, <3>1, <3>3
    <3>4. CASE j = Len(g) + 1 /\ i \in 1 .. Len(g)
      BY <2>1, <2>6, <3>1, <3>4
    <3> QED BY <2>2, <3>2, <3>3, <3>4
  <2> QED BY <2>1, <2>3, <2>4, <2>5, <2>6 DEF SiftedFrom, h
<1> QED BY <1>2, <1>3

LEMMA FilteredKeeps ==
    ASSUME NEW S, NEW list \in Seq(S), NEW kept
    PROVE  /\ Filtered(list, kept) \in Seq(S)
           /\ SiftedFrom(Filtered(list, kept), list, kept, Len(list))
<1>1. PICK f : Sifts(f, list, kept, Len(list)) /\ Filtered(list, kept) = f[Len(list)]
  BY FilteredIs
<1>2. /\ f[0] = <<>>
      /\ \A k \in 1 .. Len(list) : f[k] = IF list[k] \in kept THEN Append(f[k - 1], list[k]) ELSE f[k - 1]
  BY <1>1, SiftSteps
<1> DEFINE T == {n \in Nat : n <= Len(list) => f[n] \in Seq(S) /\ SiftedFrom(f[n], list, kept, n)}
<1>3. 0 \in T
  <2>1. f[0] \in Seq(S) /\ Len(f[0]) = 0
    BY <1>2
  <2> QED BY <2>1 DEF SiftedFrom
<1>4. ASSUME NEW n \in T PROVE n + 1 \in T
  <2>1. SUFFICES ASSUME n + 1 <= Len(list)
                 PROVE  f[n + 1] \in Seq(S) /\ SiftedFrom(f[n + 1], list, kept, n + 1)
    OBVIOUS
  <2>2. f[n] \in Seq(S) /\ SiftedFrom(f[n], list, kept, n)
    BY <2>1
  <2>3. f[n + 1] = IF list[n + 1] \in kept THEN Append(f[n], list[n + 1]) ELSE f[n]
    <3>1. n + 1 \in 1 .. Len(list) /\ (n + 1) - 1 = n
      BY <2>1
    <3> QED BY <1>2, <3>1
  <2> HIDE DEF T
  <2>4. n \in Nat
    BY DEF T
  <2> QED BY <2>1, <2>2, <2>3, <2>4, SiftedFromGrows
<1> HIDE DEF T
<1>5. Nat \subseteq T
  BY <1>3, <1>4, InductionOnSet
<1>6. Len(list) \in T
  BY <1>5
<1> QED BY <1>1, <1>6 DEF T

LEMMA FilteredElements ==
    ASSUME NEW S, NEW list \in Seq(S), NEW kept
    PROVE  /\ ToSet(Filtered(list, kept)) = ToSet(list) \cap kept
           /\ Len(Filtered(list, kept)) <= Len(list)
           /\ IsInjective(list) => IsInjective(Filtered(list, kept))
<1> DEFINE g == Filtered(list, kept)
<1>1. g \in Seq(S) /\ SiftedFrom(g, list, kept, Len(list))
  BY FilteredKeeps
<1> HIDE DEF g
<1>2. DOMAIN g = 1 .. Len(g) /\ DOMAIN list = 1 .. Len(list)
  BY <1>1
<1>3. ToSet(g) = ToSet(list) \cap kept
  <2>1. ASSUME NEW x \in ToSet(g) PROVE x \in ToSet(list) \cap kept
    <3>1. PICK i \in 1 .. Len(g) : x = g[i]
      BY <1>2 DEF ToSet
    <3>2. PICK j \in 1 .. Len(list) : g[i] = list[j]
      BY <1>1 DEF SiftedFrom
    <3>3. x \in kept
      BY <1>1, <3>1 DEF SiftedFrom
    <3> QED BY <3>1, <3>2, <3>3, <1>2 DEF ToSet
  <2>2. ASSUME NEW x \in ToSet(list) \cap kept PROVE x \in ToSet(g)
    <3>1. PICK j \in 1 .. Len(list) : x = list[j]
      BY <1>2 DEF ToSet
    <3>2. PICK i \in 1 .. Len(g) : g[i] = list[j]
      BY <1>1, <3>1 DEF SiftedFrom
    <3> QED BY <3>1, <3>2, <1>2 DEF ToSet
  <2> QED BY <2>1, <2>2
<1>4. IsInjective(list) => IsInjective(g)
  BY <1>1, <1>2 DEF SiftedFrom, IsInjective
<1> QED BY <1>1, <1>3, <1>4 DEF g, SiftedFrom

(* A list all of which is kept stays what it is.                           *)
LEMMA AllKept ==
    ASSUME NEW S, NEW list \in Seq(S), NEW kept, \A j \in 1 .. Len(list) : list[j] \in kept
    PROVE  Filtered(list, kept) = list
<1>1. PICK f : Sifts(f, list, kept, Len(list)) /\ Filtered(list, kept) = f[Len(list)]
  BY FilteredIs
<1>2. /\ f[0] = <<>>
      /\ \A k \in 1 .. Len(list) : f[k] = IF list[k] \in kept THEN Append(f[k - 1], list[k]) ELSE f[k - 1]
  BY <1>1, SiftSteps
<1> DEFINE T == {n \in Nat : n <= Len(list) => f[n] \in Seq(S) /\ Len(f[n]) = n /\ \A i \in 1 .. n : f[n][i] = list[i]}
<1>3. 0 \in T
  <2>1. f[0] \in Seq(S) /\ Len(f[0]) = 0
    BY <1>2
  <2> QED BY <2>1
<1>4. ASSUME NEW n \in T PROVE n + 1 \in T
  <2>1. SUFFICES ASSUME n + 1 <= Len(list)
                 PROVE  f[n + 1] \in Seq(S) /\ Len(f[n + 1]) = n + 1 /\ \A i \in 1 .. n + 1 : f[n + 1][i] = list[i]
    OBVIOUS
  <2>2. n \in Nat /\ f[n] \in Seq(S) /\ Len(f[n]) = n /\ \A i \in 1 .. n : f[n][i] = list[i]
    BY <2>1
  <2>3. n + 1 \in 1 .. Len(list) /\ (n + 1) - 1 = n /\ list[n + 1] \in S
    BY <2>1
  <2>4. f[n + 1] = Append(f[n], list[n + 1])
    BY <1>2, <2>3
  <2> QED BY <2>2, <2>3, <2>4
<1> HIDE DEF T
<1>5. Nat \subseteq T
  BY <1>3, <1>4, InductionOnSet
<1>6. f[Len(list)] \in Seq(S) /\ Len(f[Len(list)]) = Len(list) /\ \A i \in 1 .. Len(list) : f[Len(list)][i] = list[i]
  BY <1>5 DEF T
<1>7. f[Len(list)] = list
  BY <1>6, SeqEqual
<1> QED BY <1>1, <1>7

(* An element more, which is kept or not, and the others as before.        *)
LEMMA FilteredAppend ==
    ASSUME NEW list, NEW longer, NEW kept, NEW keeps,
           Len(list) \in Nat, Len(longer) = Len(list) + 1,
           \A j \in 1 .. Len(list) : longer[j] = list[j] /\ (list[j] \in kept <=> list[j] \in keeps)
    PROVE  Filtered(longer, keeps) = IF longer[Len(longer)] \in keeps
                                     THEN Append(Filtered(list, kept), longer[Len(longer)])
                                     ELSE Filtered(list, kept)
<1>1. PICK f : Sifts(f, list, kept, Len(list)) /\ Filtered(list, kept) = f[Len(list)]
  BY FilteredIs
<1>2. PICK g : Sifts(g, longer, keeps, Len(longer)) /\ Filtered(longer, keeps) = g[Len(longer)]
  BY FilteredIs
<1>3. /\ f[0] = <<>>
      /\ \A k \in 1 .. Len(list) : f[k] = IF list[k] \in kept THEN Append(f[k - 1], list[k]) ELSE f[k - 1]
  BY <1>1, SiftSteps
<1>4. /\ g[0] = <<>>
      /\ \A k \in 1 .. Len(longer) : g[k] = IF longer[k] \in keeps THEN Append(g[k - 1], longer[k]) ELSE g[k - 1]
  BY <1>2, SiftSteps
<1> DEFINE T == {n \in Nat : n <= Len(list) => g[n] = f[n]}
<1>5. 0 \in T
  BY <1>3, <1>4
<1>6. ASSUME NEW n \in T PROVE n + 1 \in T
  <2>1. SUFFICES ASSUME n + 1 <= Len(list) PROVE g[n + 1] = f[n + 1]
    OBVIOUS
  <2>2. n + 1 \in 1 .. Len(list) /\ n + 1 \in 1 .. Len(longer) /\ (n + 1) - 1 = n /\ g[n] = f[n]
    BY <2>1
  <2> QED BY <1>3, <1>4, <2>2
<1> HIDE DEF T
<1>7. Nat \subseteq T
  BY <1>5, <1>6, InductionOnSet
<1>8. g[Len(list)] = f[Len(list)]
  BY <1>7 DEF T
<1>9. Len(longer) \in 1 .. Len(longer) /\ Len(longer) - 1 = Len(list)
  OBVIOUS
<1> QED BY <1>1, <1>2, <1>4, <1>8, <1>9

(* What is in a list, and how it changes with the list.                    *)
LEMMA MembersAre ==
    ASSUME NEW S, NEW s \in Seq(S)
    PROVE  /\ DOMAIN s = 1 .. Len(s) /\ Len(s) \in Nat /\ ToSet(s) \subseteq S
           /\ \A x : x \in ToSet(s) <=> \E i \in 1 .. Len(s) : x = s[i]
           /\ \A i \in 1 .. Len(s) : s[i] \in ToSet(s)
BY DEF ToSet

LEMMA ConcatMembers ==
    ASSUME NEW S, NEW s \in Seq(S), NEW t \in Seq(S)
    PROVE  /\ s \o t \in Seq(S) /\ ToSet(s \o t) = ToSet(s) \cup ToSet(t)
           /\ IsInjective(s) /\ IsInjective(t) /\ ToSet(s) \cap ToSet(t) = {} => IsInjective(s \o t)
<1> DEFINE u == s \o t
<1>1. /\ u \in Seq(S) /\ Len(u) = Len(s) + Len(t) /\ Len(s) \in Nat /\ Len(t) \in Nat
      /\ \A i \in 1 .. Len(s) : u[i] = s[i]
      /\ \A i \in 1 .. Len(t) : u[Len(s) + i] = t[i]
  BY ConcatProperties
<1> HIDE DEF u
<1>2. \A i \in 1 .. Len(u) : i \in 1 .. Len(s) \/ (i - Len(s) \in 1 .. Len(t) /\ i = Len(s) + (i - Len(s)))
  BY <1>1
<1>3. \A i \in 1 .. Len(u) : IF i \in 1 .. Len(s) THEN u[i] = s[i] /\ s[i] \in ToSet(s)
                             ELSE u[i] = t[i - Len(s)] /\ t[i - Len(s)] \in ToSet(t) /\ i - Len(s) \in 1 .. Len(t)
  BY <1>1, <1>2, MembersAre
<1>4. ToSet(u) = ToSet(s) \cup ToSet(t)
  <2>1. ASSUME NEW x \in ToSet(u) PROVE x \in ToSet(s) \cup ToSet(t)
    BY <2>1, <1>1, <1>3, MembersAre
  <2>2. ASSUME NEW x \in ToSet(s) PROVE x \in ToSet(u)
    <3>1. PICK i \in 1 .. Len(s) : x = s[i]
      BY <2>2, MembersAre
    <3>2. i \in 1 .. Len(u) /\ x = u[i]
      BY <3>1, <1>1
    <3> QED BY <3>2, <1>1, MembersAre
  <2>3. ASSUME NEW x \in ToSet(t) PROVE x \in ToSet(u)
    <3>1. PICK i \in 1 .. Len(t) : x = t[i]
      BY <2>3, MembersAre
    <3>2. Len(s) + i \in 1 .. Len(u) /\ x = u[Len(s) + i]
      BY <3>1, <1>1
    <3> QED BY <3>2, <1>1, MembersAre
  <2> QED BY <2>1, <2>2, <2>3
<1>5. ASSUME IsInjective(s), IsInjective(t), ToSet(s) \cap ToSet(t) = {}, NEW i \in 1 .. Len(u), NEW j \in 1 .. Len(u), u[i] = u[j]
      PROVE  i = j
  <2>1. \A a, b \in 1 .. Len(s) : s[a] = s[b] => a = b
    BY <1>5, MembersAre DEF IsInjective
  <2>2. \A a, b \in 1 .. Len(t) : t[a] = t[b] => a = b
    BY <1>5, MembersAre DEF IsInjective
  <2>3. CASE i \in 1 .. Len(s) /\ j \in 1 .. Len(s)
    BY <2>1, <2>3, <1>3, <1>5
  <2>4. CASE i \notin 1 .. Len(s) /\ j \notin 1 .. Len(s)
    <3>1. i - Len(s) = j - Len(s)
      BY <2>2, <2>4, <1>3, <1>5
    <3> QED BY <3>1, <1>1
  <2>5. CASE (i \in 1 .. Len(s)) # (j \in 1 .. Len(s))
    BY <2>5, <1>3, <1>5
  <2> QED BY <2>3, <2>4, <2>5
<1>6. DOMAIN u = 1 .. Len(u)
  BY <1>1
<1> QED BY <1>1, <1>4, <1>5, <1>6 DEF u, IsInjective

LEMMA OneMember ==
    ASSUME NEW S, NEW e \in S
    PROVE  /\ <<e>> \in Seq(S) /\ Len(<<e>>) = 1 /\ <<e>>[1] = e
           /\ ToSet(<<e>>) = {e} /\ IsInjective(<<e>>)
BY DEF ToSet, IsInjective

LEMMA AppendMembers ==
    ASSUME NEW S, NEW s \in Seq(S), NEW e \in S
    PROVE  /\ Append(s, e) \in Seq(S) /\ ToSet(Append(s, e)) = ToSet(s) \cup {e}
           /\ IsInjective(s) /\ e \notin ToSet(s) => IsInjective(Append(s, e))
<1> DEFINE one == <<e>>
<1>1. Append(s, e) = s \o one
  BY AppendIsConcat
<1>2. one \in Seq(S) /\ ToSet(one) = {e} /\ IsInjective(one)
  BY OneMember
<1> HIDE DEF one
<1> QED BY <1>1, <1>2, ConcatMembers

LEMMA PartMembers ==
    ASSUME NEW S, NEW s \in Seq(S), NEW m \in Nat \ {0}, NEW n \in Nat, n <= Len(s)
    PROVE  /\ SubSeq(s, m, n) \in Seq(S) /\ ToSet(SubSeq(s, m, n)) \subseteq ToSet(s)
           /\ Len(SubSeq(s, m, n)) = IF m <= n THEN n - m + 1 ELSE 0
           /\ IsInjective(s) => IsInjective(SubSeq(s, m, n))
<1> DEFINE p == SubSeq(s, m, n)
<1>1. Len(s) \in Nat /\ \A i \in m .. n : i \in 1 .. Len(s) /\ s[i] \in S
  BY MembersAre
<1>2. /\ p \in Seq(S) /\ Len(p) = IF m <= n THEN n - m + 1 ELSE 0
      /\ \A i \in 1 .. n - m + 1 : p[i] = s[m + i - 1]
  BY <1>1, SubSeqProperties
<1> HIDE DEF p
<1>3. \A i \in 1 .. Len(p) : i \in 1 .. n - m + 1 /\ m + i - 1 \in 1 .. Len(s) /\ p[i] = s[m + i - 1]
  BY <1>1, <1>2
<1>4. ASSUME NEW x \in ToSet(p) PROVE x \in ToSet(s)
  <2>1. PICK i \in 1 .. Len(p) : x = p[i]
    BY <1>2, MembersAre
  <2> QED BY <2>1, <1>3, MembersAre
<1>5. ASSUME IsInjective(s), NEW i \in 1 .. Len(p), NEW j \in 1 .. Len(p), p[i] = p[j] PROVE i = j
  <2>1. \A a, b \in 1 .. Len(s) : s[a] = s[b] => a = b
    BY <1>5, MembersAre DEF IsInjective
  <2>2. m + i - 1 = m + j - 1
    BY <2>1, <1>3, <1>5
  <2> QED BY <2>2, <1>2
<1>6. DOMAIN p = 1 .. Len(p)
  BY <1>2
<1> QED BY <1>2, <1>4, <1>5, <1>6 DEF p, IsInjective

LEMMA ReverseIs ==
    ASSUME NEW S, NEW s \in Seq(S)
    PROVE  /\ Reverse(s) \in Seq(S) /\ Len(Reverse(s)) = Len(s)
           /\ \A i \in 1 .. Len(s) : Reverse(s)[i] = s[Len(s) - i + 1] /\ Len(s) - i + 1 \in 1 .. Len(s)
<1>1. Len(s) \in Nat /\ \A i \in 1 .. Len(s) : Len(s) - i + 1 \in 1 .. Len(s) /\ s[Len(s) - i + 1] \in S
  <2>1. \A i \in 1 .. Len(s) : Len(s) - i + 1 \in 1 .. Len(s)
    OBVIOUS
  <2> QED BY <2>1
<1>2. Reverse(s) = [i \in 1 .. Len(s) |-> s[Len(s) - i + 1]]
  BY DEF Reverse
<1> QED BY <1>1, <1>2

(* Filtering goes along with concatenation, with filtering once more and   *)
(* with a function of the elements.                                        *)
SiftedBy(f, list, kept, S) ==
    /\ Filtered(list, kept) = f[Len(list)] /\ f[0] = <<>>
    /\ \A n \in 0 .. Len(list) : f[n] \in Seq(S)
    /\ \A n \in Nat : n + 1 <= Len(list) =>
          f[n + 1] = IF list[n + 1] \in kept THEN Append(f[n], list[n + 1]) ELSE f[n]

LEMMA SiftedList ==
    ASSUME NEW S, NEW list \in Seq(S), NEW kept
    PROVE  \E f : SiftedBy(f, list, kept, S)
<1>1. PICK f : Sifts(f, list, kept, Len(list)) /\ Filtered(list, kept) = f[Len(list)]
  BY FilteredIs
<1>2. /\ f[0] = <<>>
      /\ \A k \in 1 .. Len(list) : f[k] = IF list[k] \in kept THEN Append(f[k - 1], list[k]) ELSE f[k - 1]
  BY <1>1, SiftSteps
<1>3. ASSUME NEW n \in Nat, n + 1 <= Len(list)
      PROVE  f[n + 1] = IF list[n + 1] \in kept THEN Append(f[n], list[n + 1]) ELSE f[n]
  <2>1. n + 1 \in 1 .. Len(list) /\ (n + 1) - 1 = n
    BY <1>3
  <2> QED BY <1>2, <2>1
<1> DEFINE T == {n \in Nat : n <= Len(list) => f[n] \in Seq(S)}
<1>4. 0 \in T
  <2>1. f[0] \in Seq(S)
    BY <1>2
  <2> QED BY <2>1
<1>5. ASSUME NEW n \in T PROVE n + 1 \in T
  <2>1. SUFFICES ASSUME n + 1 <= Len(list) PROVE f[n + 1] \in Seq(S)
    OBVIOUS
  <2>2. f[n] \in Seq(S) /\ list[n + 1] \in S /\ n \in Nat
    BY <2>1
  <2>3. Append(f[n], list[n + 1]) \in Seq(S)
    BY <2>2
  <2> HIDE DEF T
  <2> QED BY <1>3, <2>1, <2>2, <2>3
<1> HIDE DEF T
<1>6. Nat \subseteq T
  BY <1>4, <1>5, InductionOnSet
<1>7. \A n \in 0 .. Len(list) : f[n] \in Seq(S)
  BY <1>6 DEF T
<1> QED BY <1>1, <1>2, <1>3, <1>7 DEF SiftedBy

AppendsLast(a, b, e) == Append(a \o b, e) = a \o Append(b, e)
LEMMA AppendLast ==
    ASSUME NEW S, NEW a \in Seq(S), NEW b \in Seq(S), NEW e \in S
    PROVE  AppendsLast(a, b, e)
BY DEF AppendsLast

LEMMA FilteredConcat ==
    ASSUME NEW S, NEW s \in Seq(S), NEW t \in Seq(S), NEW kept
    PROVE  Filtered(s \o t, kept) = Filtered(s, kept) \o Filtered(t, kept)
<1> DEFINE u == s \o t
<1>1. /\ u \in Seq(S) /\ Len(u) = Len(s) + Len(t)
      /\ \A i \in 1 .. Len(s) : u[i] = s[i]
      /\ \A i \in 1 .. Len(t) : u[Len(s) + i] = t[i]
  BY ConcatProperties
<1> HIDE DEF u
<1>2. PICK f : SiftedBy(f, s, kept, S)
  BY SiftedList, Zenon
<1>3. PICK g : SiftedBy(g, t, kept, S)
  BY SiftedList, Zenon
<1>4. PICK h : SiftedBy(h, u, kept, S)
  BY <1>1, SiftedList, Zenon
<1>5. Len(s) \in Nat /\ Len(t) \in Nat
  OBVIOUS
<1> DEFINE T == {n \in Nat : n <= Len(s) => h[n] = f[n]}
<1>6. 0 \in T
  BY <1>2, <1>4 DEF SiftedBy
<1>7. ASSUME NEW n \in T PROVE n + 1 \in T
  <2>1. SUFFICES ASSUME n + 1 <= Len(s) PROVE h[n + 1] = f[n + 1]
    OBVIOUS
  <2>2. h[n] = f[n] /\ n + 1 \in 1 .. Len(s) /\ n + 1 <= Len(u) /\ n \in Nat
    BY <2>1, <1>1, <1>5
  <2> HIDE DEF T
  <2> QED BY <2>1, <2>2, <1>1, <1>2, <1>4 DEF SiftedBy
<1> HIDE DEF T
<1>8. h[Len(s)] = f[Len(s)]
  <2>1. Nat \subseteq T
    BY <1>6, <1>7, InductionOnSet
  <2> QED BY <2>1, <1>5 DEF T
<1>12. f[Len(s)] \in Seq(S) /\ f[Len(s)] \o <<>> = f[Len(s)]
  BY <1>2, <1>5 DEF SiftedBy
<1> DEFINE V == {n \in Nat : n <= Len(t) => h[Len(s) + n] = f[Len(s)] \o g[n]}
<1>9. 0 \in V
  <2>1. Len(s) + 0 = Len(s) /\ g[0] = <<>>
    BY <1>3, <1>5 DEF SiftedBy
  <2>2. h[Len(s) + 0] = f[Len(s)] \o g[0]
    BY <2>1, <1>8, <1>12
  <2> QED BY <2>2
<1>10. ASSUME NEW n \in V PROVE n + 1 \in V
  <2>1. n \in Nat /\ (n <= Len(t) => h[Len(s) + n] = f[Len(s)] \o g[n])
    OBVIOUS
  <2> HIDE DEF V
  <2>2. ASSUME n + 1 <= Len(t) PROVE h[Len(s) + (n + 1)] = f[Len(s)] \o g[n + 1]
    <3>1. /\ n + 1 \in 1 .. Len(t) /\ n <= Len(t) /\ n \in 0 .. Len(t)
          /\ Len(s) + n \in Nat /\ (Len(s) + n) + 1 <= Len(u) /\ (Len(s) + n) + 1 = Len(s) + (n + 1)
      BY <2>1, <2>2, <1>1, <1>5
    <3>2. g[n] \in Seq(S) /\ t[n + 1] \in S /\ u[Len(s) + (n + 1)] = t[n + 1]
      BY <3>1, <1>1, <1>3 DEF SiftedBy
    <3>3. h[(Len(s) + n) + 1] = IF u[(Len(s) + n) + 1] \in kept THEN Append(h[Len(s) + n], u[(Len(s) + n) + 1])
                                ELSE h[Len(s) + n]
      BY <3>1, <1>4 DEF SiftedBy
    <3>4. g[n + 1] = IF t[n + 1] \in kept THEN Append(g[n], t[n + 1]) ELSE g[n]
      BY <2>1, <2>2, <1>3 DEF SiftedBy
    <3>5. PICK a, b, e : a = f[Len(s)] /\ b = g[n] /\ e = t[n + 1]
      OBVIOUS
    <3>6. a \in Seq(S) /\ b \in Seq(S) /\ e \in S
      BY <3>2, <3>5, <1>12
    <3>7. Append(a \o b, e) = a \o Append(b, e)
      <4>1. AppendsLast(a, b, e)
        BY <3>6, AppendLast
      <4> QED BY <4>1 DEF AppendsLast
    <3>8. h[Len(s) + n] = a \o b
      BY <2>1, <3>1, <3>5
    <3> QED BY <3>1, <3>2, <3>3, <3>4, <3>5, <3>7, <3>8
  <2>3. n + 1 \in Nat
    BY <2>1
  <2> QED BY <2>2, <2>3 DEF V
<1> HIDE DEF V
<1>11. h[Len(s) + Len(t)] = f[Len(s)] \o g[Len(t)]
  <2>1. Nat \subseteq V
    BY <1>9, <1>10, InductionOnSet
  <2>2. Len(t) \in V /\ Len(t) <= Len(t)
    BY <2>1, <1>5
  <2> QED BY <2>2 DEF V
<1> QED BY <1>1, <1>2, <1>3, <1>4, <1>11 DEF u, SiftedBy

LEMMA FilteredTwice ==
    ASSUME NEW S, NEW s \in Seq(S), NEW A, NEW B
    PROVE  Filtered(Filtered(s, A), B) = Filtered(s, A \cap B)
<1>1. PICK f : SiftedBy(f, s, A, S)
  BY SiftedList, Zenon
<1>2. PICK h : SiftedBy(h, s, A \cap B, S)
  BY SiftedList, Zenon
<1> DEFINE T == {n \in Nat : n <= Len(s) => Filtered(f[n], B) = h[n]}
<1>3. 0 \in T
  <2>1. Filtered(<<>>, B) = <<>>
    <3>1. <<>> \in Seq({}) /\ \A j \in 1 .. Len(<<>>) : <<>>[j] \in B
      OBVIOUS
    <3>2. PICK e : e = <<>>
      OBVIOUS
    <3>3. Filtered(e, B) = e
      BY <3>1, <3>2, AllKept
    <3> QED BY <3>2, <3>3
  <2> QED BY <1>1, <1>2, <2>1 DEF SiftedBy
<1>4. ASSUME NEW n \in T PROVE n + 1 \in T
  <2>1. SUFFICES ASSUME n + 1 <= Len(s) PROVE Filtered(f[n + 1], B) = h[n + 1]
    OBVIOUS
  <2>2. /\ Filtered(f[n], B) = h[n] /\ n \in Nat /\ f[n] \in Seq(S) /\ s[n + 1] \in S
        /\ f[n + 1] = IF s[n + 1] \in A THEN Append(f[n], s[n + 1]) ELSE f[n]
        /\ h[n + 1] = IF s[n + 1] \in A \cap B THEN Append(h[n], s[n + 1]) ELSE h[n]
    BY <2>1, <1>1, <1>2 DEF SiftedBy
  <2>3. CASE s[n + 1] \notin A
    BY <2>2, <2>3
  <2>4. CASE s[n + 1] \in A
    <3> DEFINE longer == Append(f[n], s[n + 1])
    <3>1. /\ Len(f[n]) \in Nat /\ Len(longer) = Len(f[n]) + 1 /\ longer[Len(longer)] = s[n + 1]
          /\ \A j \in 1 .. Len(f[n]) : longer[j] = f[n][j] /\ (f[n][j] \in B <=> f[n][j] \in B)
      BY <2>2, AppendProperties
    <3> HIDE DEF longer
    <3>4. PICK list : list = f[n]
      OBVIOUS
    <3>5. /\ Len(list) \in Nat /\ Len(longer) = Len(list) + 1
          /\ \A j \in 1 .. Len(list) : longer[j] = list[j] /\ (list[j] \in B <=> list[j] \in B)
      BY <3>1, <3>4
    <3>2. Filtered(longer, B) = IF longer[Len(longer)] \in B THEN Append(Filtered(list, B), longer[Len(longer)])
                                ELSE Filtered(list, B)
      BY <3>5, FilteredAppend
    <3>3. f[n + 1] = longer
      BY <2>2, <2>4 DEF longer
    <3> QED BY <2>2, <2>4, <3>1, <3>2, <3>3, <3>4
  <2> QED BY <2>3, <2>4
<1> HIDE DEF T
<1>5. Nat \subseteq T
  BY <1>3, <1>4, InductionOnSet
<1>6. Len(s) \in T /\ Len(s) <= Len(s)
  BY <1>5
<1> QED BY <1>1, <1>2, <1>6 DEF T, SiftedBy

LEMMA FilteredMapped ==
    ASSUME NEW S, NEW R, NEW s \in Seq(S), NEW t \in Seq(R), NEW A, NEW B, NEW g \in [S -> R], Len(t) = Len(s),
           \A i \in 1 .. Len(s) : t[i] = g[s[i]] /\ (s[i] \in A <=> t[i] \in B)
    PROVE  /\ Len(Filtered(t, B)) = Len(Filtered(s, A))
           /\ \A i \in 1 .. Len(Filtered(s, A)) : Filtered(t, B)[i] = g[Filtered(s, A)[i]]
<1>1. PICK f : SiftedBy(f, s, A, S)
  BY SiftedList, Zenon
<1>2. PICK h : SiftedBy(h, t, B, R)
  BY SiftedList, Zenon
<1> DEFINE Same(x, y) == Len(y) = Len(x) /\ \A i \in 1 .. Len(x) : y[i] = g[x[i]]
           T == {n \in Nat : n <= Len(s) => Same(f[n], h[n])}
<1>3. 0 \in T
  BY <1>1, <1>2 DEF SiftedBy
<1>4. ASSUME NEW n \in T PROVE n + 1 \in T
  <2>1. SUFFICES ASSUME n + 1 <= Len(s) PROVE Same(f[n + 1], h[n + 1])
    OBVIOUS
  <2>5. Same(f[n], h[n]) /\ n \in Nat
    BY <2>1
  <2> HIDE DEF Same, T
  <2>2. /\ Same(f[n], h[n]) /\ n \in Nat /\ f[n] \in Seq(S) /\ h[n] \in Seq(R) /\ s[n + 1] \in S
        /\ t[n + 1] \in R /\ t[n + 1] = g[s[n + 1]] /\ (s[n + 1] \in A <=> t[n + 1] \in B)
    BY <2>1, <2>5, <1>1, <1>2 DEF SiftedBy
  <2>6. /\ f[n + 1] = IF s[n + 1] \in A THEN Append(f[n], s[n + 1]) ELSE f[n]
        /\ h[n + 1] = IF t[n + 1] \in B THEN Append(h[n], t[n + 1]) ELSE h[n]
    BY <2>1, <2>5, <1>1, <1>2 DEF SiftedBy
  <2>3. CASE s[n + 1] \notin A
    BY <2>2, <2>3, <2>6
  <2>4. CASE s[n + 1] \in A
    <3> DEFINE x == Append(f[n], s[n + 1])
               y == Append(h[n], t[n + 1])
    <3>1. /\ Len(x) = Len(f[n]) + 1 /\ x[Len(f[n]) + 1] = s[n + 1] /\ Len(f[n]) \in Nat
          /\ \A i \in 1 .. Len(f[n]) : x[i] = f[n][i]
      BY <2>2, AppendProperties
    <3>3. /\ Len(y) = Len(h[n]) + 1 /\ y[Len(h[n]) + 1] = t[n + 1]
          /\ \A i \in 1 .. Len(h[n]) : y[i] = h[n][i]
      BY <2>2, AppendProperties
    <3>2. f[n + 1] = x /\ h[n + 1] = y
      BY <2>2, <2>4, <2>6
    <3> HIDE DEF x, y
    <3>4. Len(h[n]) = Len(f[n]) /\ \A i \in 1 .. Len(f[n]) : h[n][i] = g[f[n][i]]
      BY <2>2 DEF Same
    <3>5. Len(y) = Len(x) /\ \A i \in 1 .. Len(x) : i \in 1 .. Len(f[n]) \/ i = Len(f[n]) + 1
      BY <3>1, <3>3, <3>4
    <3>6. \A i \in 1 .. Len(x) : y[i] = g[x[i]]
      BY <2>2, <3>1, <3>3, <3>4, <3>5
    <3> QED BY <3>2, <3>5, <3>6 DEF Same
  <2> QED BY <2>3, <2>4
<1> HIDE DEF T
<1>5. Nat \subseteq T
  BY <1>3, <1>4, InductionOnSet
<1>6. Len(s) \in T /\ Len(s) <= Len(s)
  BY <1>5
<1> QED BY <1>1, <1>2, <1>6 DEF T, SiftedBy

(* A list without repetition is as long as the set of its elements.        *)
LEMMA InjectiveLength ==
    ASSUME NEW S, NEW s \in Seq(S)
    PROVE  /\ IsFiniteSet(ToSet(s))
           /\ IsInjective(s) => Cardinality(ToSet(s)) = Len(s)
<1>1. /\ DOMAIN s = 1 .. Len(s) /\ Len(s) \in Nat
      /\ \A x : x \in ToSet(s) <=> \E i \in 1 .. Len(s) : x = s[i]
  BY MembersAre
<1>2. s \in [1 .. Len(s) -> ToSet(s)] /\ \A x \in ToSet(s) : \E i \in 1 .. Len(s) : s[i] = x
  BY <1>1
<1>3. s \in Surjection(1 .. Len(s), ToSet(s))
  BY <1>2 DEF Surjection
<1>4. IsFiniteSet(1 .. Len(s))
  BY <1>1, FS_Interval
<1>5. IsFiniteSet(ToSet(s))
  BY <1>3, <1>4, FS_Surjection DEF ExistsSurjection
<1>6. ASSUME IsInjective(s) PROVE Cardinality(ToSet(s)) = Len(s)
  <2>1. s \in Bijection(1 .. Len(s), ToSet(s))
    BY <1>1, <1>3, <1>6 DEF Bijection, Injection, Surjection, IsInjective
  <2> QED BY <1>1, <2>1, FS_CountingElements DEF ExistsBijection
<1> QED BY <1>5, <1>6

(* One element less.                                                       *)
LEMMA FilteredOnce ==
    ASSUME NEW S, NEW s \in Seq(S), IsInjective(s), NEW w \in ToSet(s)
    PROVE  Len(Filtered(s, S \ {w})) = Len(s) - 1
<1> DEFINE t == Filtered(s, S \ {w})
<1>1. t \in Seq(S) /\ ToSet(t) = ToSet(s) \cap (S \ {w}) /\ IsInjective(t)
  BY FilteredElements, FilteredKeeps
<1> HIDE DEF t
<1>2. ToSet(s) \subseteq S
  BY MembersAre
<1>3. ToSet(t) = ToSet(s) \ {w}
  BY <1>1, <1>2
<1>4. /\ IsFiniteSet(ToSet(s)) /\ Cardinality(ToSet(s)) = Len(s) /\ Cardinality(ToSet(t)) = Len(t)
  BY <1>1, InjectiveLength
<1>5. Cardinality(ToSet(s) \ {w}) = Cardinality(ToSet(s)) - 1
  BY <1>4, FS_RemoveElement
<1> QED BY <1>3, <1>4, <1>5 DEF t

(* The beginning of a list, element by element.                            *)
LEMMA PrefixIs ==
    ASSUME NEW S, NEW s \in Seq(S), NEW t \in Seq(S)
    PROVE  /\ IsPrefix(s, t) <=> Len(s) <= Len(t) /\ \A i \in 1 .. Len(s) : s[i] = t[i]
           /\ IsPrefix(s, t) => /\ s = SubSeq(t, 1, Len(s)) /\ ToSet(s) \subseteq ToSet(t)
                                /\ \E u \in Seq(S) : t = s \o u
<1>1. Len(s) \in Nat /\ Len(t) \in Nat /\ SubSeq(s, 1, Len(s)) = s
  BY MembersAre
<1>2. ASSUME Len(s) <= Len(t)
      PROVE  /\ SubSeq(t, 1, Len(s)) \in Seq(S) /\ Len(SubSeq(t, 1, Len(s))) = Len(s)
             /\ \A i \in 1 .. Len(s) : SubSeq(t, 1, Len(s))[i] = t[i]
  BY <1>1, <1>2
<1>3. ASSUME IsPrefix(s, t) PROVE Len(s) <= Len(t) /\ s = SubSeq(t, 1, Len(s)) /\ \A i \in 1 .. Len(s) : s[i] = t[i]
  BY <1>1, <1>2, <1>3 DEF IsPrefix
<1>4. ASSUME Len(s) <= Len(t), \A i \in 1 .. Len(s) : s[i] = t[i] PROVE IsPrefix(s, t)
  <2>1. s = SubSeq(t, 1, Len(s))
    BY <1>2, <1>4, SeqEqual
  <2> QED BY <1>1, <1>4, <2>1 DEF IsPrefix
<1>5. ASSUME IsPrefix(s, t) PROVE ToSet(s) \subseteq ToSet(t) /\ \E u \in Seq(S) : t = s \o u
  <2>1. ToSet(s) \subseteq ToSet(t)
    BY <1>1, <1>3, <1>5, MembersAre
  <2> DEFINE u == SubSeq(t, Len(s) + 1, Len(t))
  <2>2. u \in Seq(S)
    BY <1>1, <1>3, <1>5
  <2>3. SubSeq(t, 1, Len(s)) \o u = SubSeq(t, 1, Len(t))
    <3>1. 1 \in 1 .. Len(t) + 1 /\ Len(s) \in 1 - 1 .. Len(t) /\ Len(t) \in Len(s) .. Len(t)
      BY <1>1, <1>3, <1>5
    <3> QED BY <3>1, ConcatAdjacentSubSeq
  <2>4. SubSeq(t, 1, Len(t)) = t
    BY <1>1
  <2>5. t = s \o u
    BY <1>3, <1>5, <2>3, <2>4
  <2> QED BY <2>1, <2>2, <2>5
<1> QED BY <1>3, <1>4, <1>5

LEMMA PrefixFiltered ==
    ASSUME NEW S, NEW s \in Seq(S), NEW t \in Seq(S), NEW kept, IsPrefix(s, t)
    PROVE  IsPrefix(Filtered(s, kept), Filtered(t, kept))
<1>1. PICK u \in Seq(S) : t = s \o u
  BY PrefixIs
<1>2. Filtered(t, kept) = Filtered(s, kept) \o Filtered(u, kept)
  BY <1>1, FilteredConcat
<1>3. Filtered(s, kept) \in Seq(S) /\ Filtered(u, kept) \in Seq(S) /\ Filtered(t, kept) \in Seq(S)
  BY FilteredKeeps
<1>4. PICK a, b : a = Filtered(s, kept) /\ b = Filtered(u, kept)
  OBVIOUS
<1>5. a \in Seq(S) /\ b \in Seq(S) /\ a \o b \in Seq(S)
  BY <1>3, <1>4
<1>6. Len(a) <= Len(a \o b) /\ \A i \in 1 .. Len(a) : a[i] = (a \o b)[i]
  BY <1>5, ConcatProperties
<1>7. IsPrefix(a, a \o b)
  BY <1>5, <1>6, PrefixIs
<1> QED BY <1>2, <1>4, <1>7

(* The parts of a list, one after the other.                               *)
LEMMA PagesGrow ==
    ASSUME NEW S, NEW s \in Seq(S), NEW k \in Nat, NEW n \in Nat, k <= n, n <= Len(s)
    PROVE  SubSeq(s, 1, k) \o SubSeq(s, k + 1, n) = SubSeq(s, 1, n)
<1>1. Len(s) \in Nat /\ 1 \in 1 .. Len(s) + 1 /\ k \in 1 - 1 .. Len(s) /\ n \in k .. Len(s)
  BY MembersAre
<1> QED BY <1>1, ConcatAdjacentSubSeq

-----------------------------------------------------------------------------
(* Requests.                                                               *)

LEMMA SlotIsFree ==
    ASSUME NEW requests, Free(requests)
    PROVE  Slot(requests) \in DOMAIN requests /\ requests[Slot(requests)].step = "idle"
BY DEF Free, Slot
=============================================================================
