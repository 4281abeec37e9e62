----------------------------- MODULE FoldFacts -----------------------------
(***************************************************************************)
(* Induction on naturals in a form without operator parameters, and what   *)
(* the folds of SequencesExt compute.  A fold unfolds to a function on the *)
(* sets of indices, chosen by its recursion equation; FoldTable shows that *)
(* such a function exists.  Each fold of a module then has a lemma of its  *)
(* own that says what one more element adds.                               *)
(***************************************************************************)
EXTENDS SequencesExt, WellFoundedInduction, TLAPS

\* Every set of naturals has a least element.
LEMMA LeastNatural ==
    ASSUME NEW T \in SUBSET Nat, T # {}
    PROVE  \E n \in T : \A m \in T : n <= m
<1>1. IsWellFoundedOn(OpToRel(<, Nat), Nat)
  BY NatLessThanWellFounded
<1>2. PICK n \in T : \A m \in T : ~ (<<m, n>> \in OpToRel(<, Nat))
  BY <1>1, WFMin
<1>3. \A m \in T : ~(m < n)
  BY <1>2 DEF OpToRel
<1> QED  BY <1>3

\* What holds of 0, and of each number up to n when of the one before, holds of
\* all of them: T is the set of those it holds of.
LEMMA IntervalInduction ==
    ASSUME NEW n \in Nat, NEW T, 0 \in T,
           \A i \in 1 .. n : i - 1 \in T => i \in T
    PROVE  0 .. n \subseteq T
<1> DEFINE others == {i \in 0 .. n : i \notin T}
<1> SUFFICES ASSUME others # {} PROVE FALSE
  OBVIOUS
<1>1. PICK least \in others : \A m \in others : least <= m
  <2>1. others \in SUBSET Nat
    OBVIOUS
  <2> HIDE DEF others
  <2> QED  BY <2>1, LeastNatural
<1>2. least \in 1 .. n /\ least \notin T
  OBVIOUS
<1>3. least - 1 \in T
  BY <1>1, <1>2
<1> QED  BY <1>2, <1>3

\* Max of a set of indices is one of them, and none is greater.
LEMMA MaxOfIndices ==
    ASSUME NEW n \in Nat, NEW S \in SUBSET (1 .. n), S # {}
    PROVE  Max(S) \in S /\ \A i \in S : i <= Max(S)
<1> DEFINE gaps == {n - i : i \in S}
<1>1. gaps \in SUBSET Nat /\ gaps # {}
  OBVIOUS
<1>2. PICK gap \in gaps : \A other \in gaps : gap <= other
  <2> HIDE DEF gaps
  <2> QED  BY <1>1, LeastNatural
<1>3. PICK top \in S : gap = n - top
  OBVIOUS
<1>4. \A i \in S : top >= i
  <2> SUFFICES ASSUME NEW i \in S PROVE top >= i
    OBVIOUS
  <2>1. n - i \in gaps
    OBVIOUS
  <2>2. n - top <= n - i
    BY <1>2, <1>3, <2>1
  <2> QED  BY <2>2
<1> QED  BY <1>4 DEF Max

\* An initial segment of the indices, and the one before.
LEMMA InitialSegment ==
    ASSUME NEW n \in Nat, NEW i \in 1 .. n
    PROVE  /\ 1 .. i \in SUBSET (1 .. n) /\ 1 .. i # {}
           /\ Max(1 .. i) = i
           /\ (1 .. i) \ {Max(1 .. i)} = 1 .. (i - 1)
<1>1. 1 .. i \in SUBSET (1 .. n) /\ i \in 1 .. i
  OBVIOUS
<1>2. Max(1 .. i) \in 1 .. i /\ \A j \in 1 .. i : j <= Max(1 .. i)
  BY <1>1, MaxOfIndices
<1>3. Max(1 .. i) = i
  BY <1>1, <1>2
<1>4. (1 .. i) \ {i} = 1 .. (i - 1)
  OBVIOUS
<1> QED  BY <1>1, <1>3, <1>4
-----------------------------------------------------------------------------
\* The recursion equation of a fold whose step on index i is f[<<a, i>>].
IsTable(g, n, base, f) ==
    \A S \in SUBSET (1 .. n) :
        g[S] = IF S = {} THEN base ELSE f[<<g[S \ {Max(S)}], Max(S)>>]

\* The step of a table to one more index.
LEMMA TableGrows ==
    ASSUME NEW n \in Nat, NEW A, NEW base \in A, NEW f,
           NEW k \in 1 .. n, \A a \in A : f[<<a, k>>] \in A,
           NEW g \in [SUBSET (1 .. (k - 1)) -> A], IsTable(g, k - 1, base, f)
    PROVE  \E h \in [SUBSET (1 .. k) -> A] : IsTable(h, k, base, f)
<1> DEFINE h == [S \in SUBSET (1 .. k) |-> IF k \in S THEN f[<<g[S \ {k}], k>>] ELSE g[S]]
<1>1. \A S \in SUBSET (1 .. k) : S \ {k} \in SUBSET (1 .. (k - 1))
  OBVIOUS
<1>2. h \in [SUBSET (1 .. k) -> A]
  <2> SUFFICES ASSUME NEW S \in SUBSET (1 .. k) PROVE h[S] \in A
    OBVIOUS
  <2>1. CASE k \in S
    BY <1>1, <2>1
  <2>2. CASE k \notin S
    <3>1. S \in SUBSET (1 .. (k - 1))
      BY <1>1, <2>2
    <3> QED  BY <2>2, <3>1
  <2> QED  BY <2>1, <2>2
<1>3. ASSUME NEW S \in SUBSET (1 .. k)
      PROVE  h[S] = IF S = {} THEN base ELSE f[<<h[S \ {Max(S)}], Max(S)>>]
  <2>1. CASE k \in S
    <3>1. S # {} /\ Max(S) = k
      <4>1. Max(S) \in S /\ k <= Max(S)
        <5> HIDE DEF h
        <5>1. k \in Nat /\ S # {}
          BY <2>1
        <5> QED  BY <2>1, <5>1, MaxOfIndices
      <4> QED  BY <2>1, <4>1
    <3>2. S \ {k} \in SUBSET (1 .. k) /\ k \notin S \ {k}
      OBVIOUS
    <3>3. h[S \ {k}] = g[S \ {k}]
      BY <3>2
    <3> QED  BY <2>1, <3>1, <3>3
  <2>2. CASE k \notin S
    <3>1. S \in SUBSET (1 .. (k - 1)) /\ S \ {Max(S)} \in SUBSET (1 .. k) /\ k \notin S \ {Max(S)}
      BY <1>1, <2>2
    <3>2. h[S] = g[S] /\ h[S \ {Max(S)}] = g[S \ {Max(S)}]
      BY <2>2, <3>1
    <3>3. g[S] = IF S = {} THEN base ELSE f[<<g[S \ {Max(S)}], Max(S)>>]
      BY <3>1 DEF IsTable
    <3> QED  BY <3>2, <3>3
  <2> QED  BY <2>1, <2>2
<1> HIDE DEF h
<1>4. IsTable(h, k, base, f)
  BY <1>3 DEF IsTable
<1> QED  BY <1>2, <1>4

\* The table of a fold exists, whatever the step, when steps stay in A.
LEMMA FoldTable ==
    ASSUME NEW n \in Nat, NEW A, NEW base \in A, NEW f,
           \A a \in A, i \in 1 .. n : f[<<a, i>>] \in A
    PROVE  \E g \in [SUBSET (1 .. n) -> A] : IsTable(g, n, base, f)
<1> DEFINE T == {k \in 0 .. n : \E g \in [SUBSET (1 .. k) -> A] : IsTable(g, k, base, f)}
<1>1. 0 \in T
  <2> DEFINE g == [S \in SUBSET (1 .. 0) |-> base]
  <2>1. \A S \in SUBSET (1 .. 0) : S = {} /\ g[S] = base
    OBVIOUS
  <2>2. g \in [SUBSET (1 .. 0) -> A]
    OBVIOUS
  <2> HIDE DEF g
  <2>3. IsTable(g, 0, base, f)
    BY <2>1 DEF IsTable
  <2>4. \E table \in [SUBSET (1 .. 0) -> A] : IsTable(table, 0, base, f)
    BY <2>2, <2>3
  <2>5. 0 \in 0 .. n
    OBVIOUS
  <2> QED  BY <2>4, <2>5, Zenon
<1>2. ASSUME NEW k \in 1 .. n, k - 1 \in T PROVE k \in T
  <2>1. PICK g \in [SUBSET (1 .. (k - 1)) -> A] : IsTable(g, k - 1, base, f)
    BY <1>2
  <2>2. \E h \in [SUBSET (1 .. k) -> A] : IsTable(h, k, base, f)
    BY <2>1, TableGrows
  <2> QED  BY <2>2
<1> HIDE DEF T
<1>3. 0 .. n \subseteq T
  BY <1>1, <1>2, IntervalInduction
<1>4. n \in T
  BY <1>3
<1> QED  BY <1>4 DEF T

\* What holds of a fold's value over no index, and of its value over the first k
\* when of that over the first k - 1, holds of all of them.
LEMMA ChainHolds ==
    ASSUME NEW n \in Nat, NEW A, NEW iter, iter[1 .. 0] \in A,
           \A k \in 1 .. n : iter[1 .. (k - 1)] \in A => iter[1 .. k] \in A
    PROVE  \A k \in 0 .. n : iter[1 .. k] \in A
<1> DEFINE T == {k \in 0 .. n : iter[1 .. k] \in A}
<1>1. 0 \in T
  OBVIOUS
<1>2. \A k \in 1 .. n : k - 1 \in T => k \in T
  OBVIOUS
<1> HIDE DEF T
<1>3. 0 .. n \subseteq T
  BY <1>1, <1>2, IntervalInduction
<1> QED  BY <1>3 DEF T

\* So it holds of its result.
LEMMA ChainStays ==
    ASSUME NEW n \in Nat, NEW A, NEW iter, iter[1 .. 0] \in A,
           \A k \in 1 .. n : iter[1 .. (k - 1)] \in A => iter[1 .. k] \in A
    PROVE  iter[1 .. n] \in A
<1>1. \A k \in 0 .. n : iter[1 .. k] \in A
  BY ChainHolds
<1>2. n \in 0 .. n
  OBVIOUS
<1> QED  BY <1>1, <1>2

\* The concatenation of sequences over R is one.
LEMMA FlattenedIsSeq ==
    ASSUME NEW R, NEW seqs \in Seq(Seq(R))
    PROVE  FlattenSeq(seqs) \in Seq(R)
<1> DEFINE n == Len(seqs)
           f == [pair \in Seq(R) \X (1 .. n) |-> pair[1] \o seqs[pair[2]]]
           Computes(flatten) == flatten = [i \in 1 .. n |->
               IF i = 1 THEN seqs[i] ELSE flatten[i - 1] \o seqs[i]]
           flat == CHOOSE flatten : Computes(flatten)
<1>1. n \in Nat /\ DOMAIN seqs = 1 .. n /\ \A k \in 1 .. n : seqs[k] \in Seq(R)
  OBVIOUS
<1>2. CASE n = 0
  <2>1. FlattenSeq(seqs) = seqs
    BY <1>2 DEF FlattenSeq
  <2> QED  BY <1>2, <2>1
<1>3. CASE n # 0
  <2>1. FlattenSeq(seqs) = flat[n]
    BY <1>3, Zenon DEF FlattenSeq
  <2> HIDE DEF n
  <2>2. PICK table \in [SUBSET (1 .. n) -> Seq(R)] : IsTable(table, n, <<>>, f)
    <3>1. \A a \in Seq(R), k \in 1 .. n : f[<<a, k>>] \in Seq(R)
      BY <1>1
    <3>2. <<>> \in Seq(R)
      OBVIOUS
    <3> HIDE DEF f
    <3> QED  BY <1>1, <3>1, <3>2, FoldTable
  <2> DEFINE upTo == [i \in 1 .. n |-> table[1 .. i]]
  <2>3. \A i \in 1 .. n : upTo[i] \in Seq(R)
    BY <1>1
  <2>4. Computes(upTo)
    <3> SUFFICES ASSUME NEW i \in 1 .. n
                 PROVE  upTo[i] = IF i = 1 THEN seqs[i] ELSE upTo[i - 1] \o seqs[i]
      OBVIOUS
    <3>1. /\ 1 .. i \in SUBSET (1 .. n) /\ 1 .. i # {}
          /\ Max(1 .. i) = i /\ (1 .. i) \ {Max(1 .. i)} = 1 .. (i - 1)
      BY <1>1, InitialSegment
    <3>2. table[1 .. i] = f[<<table[(1 .. i) \ {Max(1 .. i)}], Max(1 .. i)>>]
      BY <2>2, <3>1 DEF IsTable
    <3>3. table[1 .. i] = f[<<table[1 .. (i - 1)], i>>]
      BY <3>1, <3>2, Zenon
    <3>4. 1 .. (i - 1) \in SUBSET (1 .. n)
      BY <1>1
    <3>5. table[1 .. i] = table[1 .. (i - 1)] \o seqs[i]
      BY <3>3, <3>4
    <3>6. CASE i = 1
      <4>1. 1 .. (i - 1) = {} /\ {} \in SUBSET (1 .. n)
        BY <3>6
      <4>2. table[{}] = <<>>
        BY <2>2, <4>1 DEF IsTable
      <4>3. <<>> \o seqs[i] = seqs[i]
        BY <1>1
      <4> QED  BY <3>5, <3>6, <4>1, <4>2, <4>3
    <3>7. CASE i # 1
      <4>1. i - 1 \in 1 .. n
        BY <1>1, <3>7
      <4> QED  BY <3>5, <3>7, <4>1
    <3> QED  BY <3>6, <3>7
  <2> HIDE DEF upTo
  <2>5. Computes(flat)
    BY <2>4, Zenon
  <2> HIDE DEF flat
  <2> DEFINE T == {k \in 0 .. n : k = 0 \/ flat[k] \in Seq(R)}
  <2>6. \A k \in 1 .. n : k - 1 \in T => k \in T
    <3> SUFFICES ASSUME NEW k \in 1 .. n, k - 1 \in T PROVE flat[k] \in Seq(R)
      BY <1>1
    <3>1. flat[k] = IF k = 1 THEN seqs[k] ELSE flat[k - 1] \o seqs[k]
      BY <2>5
    <3>2. k # 1 => flat[k - 1] \in Seq(R)
      BY <1>1
    <3> QED  BY <1>1, <3>1, <3>2
  <2>7. 0 \in T
    BY <1>1
  <2> HIDE DEF T
  <2>8. 0 .. n \subseteq T
    BY <1>1, <2>6, <2>7, IntervalInduction
  <2>9. n \in T
    BY <1>1, <2>8
  <2> QED  BY <1>3, <2>1, <2>9 DEF T
<1> QED  BY <1>2, <1>3
=============================================================================
