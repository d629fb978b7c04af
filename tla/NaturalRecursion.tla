--------------------------- MODULE NaturalRecursion ---------------------------
(***************************************************************************)
(* Induction over the naturals, recursion on an interval or on a ranked    *)
(* set, and what FlattenSeq computes, stated for sets and functions rather *)
(* than for operators, so that a first-order prover can apply them.  They  *)
(* rest on the well-foundedness of <.                                      *)
(***************************************************************************)
EXTENDS Integers, Sequences, SequencesExt, WellFoundedInduction, TLAPS

\* A set of naturals that is not empty has a least element.
LEMMA LeastElement ==
  ASSUME NEW T \in SUBSET Nat, T # {}
  PROVE  \E x \in T : \A y \in T : x <= y
<1>1. PICK x \in T : \A y \in T : ~(<<y, x>> \in OpToRel(<, Nat))
  BY NatLessThanWellFounded, WFMin
<1>2. \A y \in T : ~(y < x)
  BY <1>1 DEF OpToRel
<1> QED BY <1>2

\* A bounded one has a greatest element.
LEMMA GreatestElement ==
  ASSUME NEW T \in SUBSET Nat, T # {}, NEW b \in Nat, \A y \in T : y <= b
  PROVE  \E x \in T : \A y \in T : y <= x
<1> DEFINE D == {b - y : y \in T}
<1>1. D \in SUBSET Nat /\ D # {}
  <2>1. \A y \in T : b - y \in Nat
    OBVIOUS
  <2>2. PICK y \in T : TRUE
    OBVIOUS
  <2>3. b - y \in D
    BY <2>2
  <2> QED BY <2>1, <2>3
<1>2. PICK d \in D : \A e \in D : d <= e
  BY <1>1, LeastElement
<1>3. PICK x \in T : d = b - x
  BY <1>2
<1>4. \A y \in T : b - x <= b - y
  BY <1>2, <1>3
<1> QED BY <1>3, <1>4

\* Course-of-values induction.
LEMMA StrongInduction ==
  ASSUME NEW S, \A n \in Nat : (\A k \in 0 .. n - 1 : k \in S) => n \in S
  PROVE  \A n \in Nat : n \in S
<1> SUFFICES ASSUME NEW m \in Nat, m \notin S PROVE FALSE
  OBVIOUS
<1> DEFINE T == {n \in Nat : n \notin S}
<1>1. PICK x \in T : \A y \in T : x <= y
  <2>1. T \in SUBSET Nat /\ T # {}
    OBVIOUS
  <2> QED BY <2>1, LeastElement
<1>2. \A k \in 0 .. x - 1 : k \in S
  BY <1>1
<1> QED BY <1>1, <1>2

\* Induction on 0 .. m.
LEMMA IntervalInduction ==
  ASSUME NEW m \in Nat, NEW S, 0 \in S, \A n \in 0 .. m - 1 : n \in S => n + 1 \in S
  PROVE  \A n \in 0 .. m : n \in S
<1> DEFINE T == {n \in Nat : n <= m => n \in S}
<1>1. ASSUME NEW n \in Nat, \A k \in 0 .. n - 1 : k \in T
      PROVE  n \in T
  <2>1. CASE n = 0
    BY <2>1
  <2>2. CASE n # 0
    <3>1. n - 1 \in 0 .. n - 1
      BY <2>2
    <3>2. n - 1 \in T
      BY <1>1, <3>1
    <3> QED BY <2>2, <3>2
  <2> QED BY <2>1, <2>2
<1> HIDE DEF T
<1>2. \A n \in Nat : n \in T
  BY <1>1, StrongInduction
<1> QED BY <1>2 DEF T

\* f solves, up to n, the recursion that starts with v0 and computes the value
\* at k from the value at pred[k].
Solves(f, n, pred, step, v0) ==
    f[0] = v0 /\ \A k \in 1 .. n : f[k] = step[<<k, f[pred[k]]>>]

\* Two solutions agree as far as both go.
LEMMA RecursionUnique ==
  ASSUME NEW v0, NEW step,
         NEW pred \in [Nat -> Nat], \A k \in Nat : k > 0 => pred[k] < k,
         NEW m \in Nat, NEW f, Solves(f, m, pred, step, v0),
         NEW n \in Nat, NEW g, Solves(g, n, pred, step, v0)
  PROVE  \A k \in Nat : k <= m /\ k <= n => f[k] = g[k]
<1> DEFINE T == {k \in Nat : k <= m /\ k <= n => f[k] = g[k]}
<1>1. ASSUME NEW k \in Nat, \A j \in 0 .. k - 1 : j \in T
      PROVE  k \in T
  <2>1. CASE k = 0
    BY <2>1 DEF Solves
  <2>2. CASE k > 0 /\ k <= m /\ k <= n
    <3>1. pred[k] \in 0 .. k - 1
      BY <2>2
    <3>2. f[pred[k]] = g[pred[k]]
      BY <1>1, <2>2, <3>1
    <3>3. k \in 1 .. m /\ k \in 1 .. n
      BY <2>2
    <3> QED BY <3>2, <3>3 DEF Solves
  <2> QED BY <2>1, <2>2
<1> HIDE DEF T
<1>2. \A k \in Nat : k \in T
  BY <1>1, StrongInduction
<1> QED BY <1>2 DEF T

\* There is a solution up to every n.
LEMMA RecursionUpTo ==
  ASSUME NEW V, NEW v0 \in V, NEW step \in [Nat \X V -> V],
         NEW pred \in [Nat -> Nat], \A k \in Nat : k > 0 => pred[k] < k,
         NEW m \in Nat
  PROVE  \E f \in [0 .. m -> V] : Solves(f, m, pred, step, v0)
<1> DEFINE T == {n \in 0 .. m : \E f \in [0 .. n -> V] : Solves(f, n, pred, step, v0)}
<1>1. 0 \in T
  <2> DEFINE g == [k \in 0 .. 0 |-> v0]
  <2>1. g \in [0 .. 0 -> V] /\ Solves(g, 0, pred, step, v0)
    BY DEF Solves
  <2>2. 0 \in 0 .. m
    OBVIOUS
  <2> HIDE DEF g
  <2> QED BY <2>1, <2>2
<1>2. ASSUME NEW n \in 0 .. m - 1, n \in T
      PROVE  n + 1 \in T
  <2>1. PICK f \in [0 .. n -> V] : Solves(f, n, pred, step, v0)
    BY <1>2
  <2> DEFINE v == step[<<n + 1, f[pred[n + 1]]>>]
             g == [k \in 0 .. n + 1 |-> IF k = n + 1 THEN v ELSE f[k]]
  <2>2. n + 1 \in Nat /\ pred[n + 1] \in 0 .. n /\ n + 1 \in 0 .. m
    OBVIOUS
  <2>3. v \in V
    BY <2>2
  <2>4. g \in [0 .. n + 1 -> V]
    <3> HIDE DEF v
    <3> QED BY <2>3
  <2>5. g[n + 1] = v /\ \A k \in 0 .. n : g[k] = f[k]
    BY <2>2
  <2> HIDE DEF g
  <2>6. ASSUME NEW k \in 1 .. n + 1
        PROVE  g[k] = step[<<k, g[pred[k]]>>]
    <3>1. CASE k = n + 1
      BY <2>2, <2>5, <3>1
    <3>2. CASE k # n + 1
      <4>1. k \in 1 .. n /\ k \in 0 .. n /\ pred[k] \in 0 .. n
        BY <3>2
      <4>2. f[k] = step[<<k, f[pred[k]]>>]
        BY <2>1, <4>1 DEF Solves
      <4> QED BY <2>5, <4>1, <4>2
    <3> QED BY <3>1, <3>2
  <2>7. Solves(g, n + 1, pred, step, v0)
    <3>1. 0 \in 0 .. n /\ f[0] = v0
      BY <2>1 DEF Solves
    <3>2. g[0] = v0
      BY <2>5, <3>1
    <3> QED BY <2>6, <3>2 DEF Solves
  <2> QED BY <2>2, <2>4, <2>7
<1>3. m \in T
  <2> HIDE DEF T
  <2>1. \A n \in 0 .. m : n \in T
    BY <1>1, <1>2, IntervalInduction
  <2> QED BY <2>1
<1> QED BY <1>3

\* The recursion has a solution on all naturals.
LEMMA RecursionExists ==
  ASSUME NEW V, NEW v0 \in V, NEW step \in [Nat \X V -> V],
         NEW pred \in [Nat -> Nat], \A k \in Nat : k > 0 => pred[k] < k
  PROVE  \E f \in [Nat -> V] : \A n \in Nat : Solves(f, n, pred, step, v0)
<1> DEFINE part == [n \in Nat |-> CHOOSE f \in [0 .. n -> V] : Solves(f, n, pred, step, v0)]
           f == [n \in Nat |-> part[n][n]]
<1>1. \A n \in Nat : part[n] \in [0 .. n -> V] /\ Solves(part[n], n, pred, step, v0)
  <2>1. \A n \in Nat : \E f1 \in [0 .. n -> V] : Solves(f1, n, pred, step, v0)
    BY RecursionUpTo
  <2> QED BY <2>1
<1> HIDE DEF part
<1>2. f \in [Nat -> V]
  BY <1>1
<1>3. f[0] = v0
  BY <1>1 DEF Solves
<1>4. ASSUME NEW k \in Nat, k > 0
      PROVE  f[k] = step[<<k, f[pred[k]]>>]
  <2>1. PICK j \in Nat : j = pred[k] /\ j < k
    BY <1>4
  <2>2. PICK g : g = part[k]
    OBVIOUS
  <2>3. PICK h : h = part[j]
    OBVIOUS
  <2>4. Solves(g, k, pred, step, v0) /\ Solves(h, j, pred, step, v0)
    BY <1>1, <2>2, <2>3
  <2>5. \A i \in Nat : i <= k /\ i <= j => g[i] = h[i]
    BY <2>4, RecursionUnique
  <2>6. g[j] = h[j]
    BY <2>1, <2>5
  <2>7. k \in 1 .. k
    BY <1>4
  <2>8. g[k] = step[<<k, g[j]>>]
    BY <2>1, <2>4, <2>7 DEF Solves
  <2> QED BY <2>1, <2>2, <2>3, <2>6, <2>8
<1> HIDE DEF f
<1>5. \A n \in Nat : Solves(f, n, pred, step, v0)
  BY <1>3, <1>4 DEF Solves
<1> QED BY <1>2, <1>5

\* A recursion from each number to the next, on 0 .. m.
Recurs(f, m, step, v0) ==
    f[0] = v0 /\ \A k \in 1 .. m : f[k] = step[<<k, f[k - 1]>>]

LEMMA IntervalRecursion ==
  ASSUME NEW m \in Nat, NEW V, NEW v0 \in V, NEW step \in [(1 .. m) \X V -> V]
  PROVE  \E f \in [0 .. m -> V] : Recurs(f, m, step, v0)
<1> DEFINE pred == [k \in Nat |-> IF k = 0 THEN 0 ELSE k - 1]
           next == [p \in Nat \X V |-> IF p[1] \in 1 .. m THEN step[p] ELSE v0]
<1>1. pred \in [Nat -> Nat] /\ \A k \in Nat : k > 0 => pred[k] < k
  OBVIOUS
<1>2. next \in [Nat \X V -> V]
  <2>1. ASSUME NEW p \in Nat \X V
        PROVE  (IF p[1] \in 1 .. m THEN step[p] ELSE v0) \in V
    OBVIOUS
  <2> QED BY <2>1
<1>3. \A k \in 1 .. m : pred[k] = k - 1 /\ \A v \in V : next[<<k, v>>] = step[<<k, v>>]
  OBVIOUS
<1> HIDE DEF pred, next
<1>4. PICK f \in [0 .. m -> V] : Solves(f, m, pred, next, v0)
  BY <1>1, <1>2, RecursionUpTo
<1>5. ASSUME NEW k \in 1 .. m
      PROVE  f[k] = step[<<k, f[k - 1]>>]
  <2>1. f[k - 1] \in V
    OBVIOUS
  <2>2. f[k] = next[<<k, f[pred[k]]>>]
    BY <1>4 DEF Solves
  <2>3. pred[k] = k - 1 /\ next[<<k, f[k - 1]>>] = step[<<k, f[k - 1]>>]
    BY <1>3, <2>1
  <2> QED BY <2>2, <2>3
<1> QED BY <1>4, <1>5 DEF Solves, Recurs

\* Every step from k to next[k], for k in more, goes down in rank.
Descends(D, more, next, rank) ==
    /\ more \in SUBSET D /\ next \in [more -> D] /\ rank \in [D -> Nat]
    /\ \A k \in more : rank[next[k]] < rank[k]

\* f is computed at k from its value at next[k] as long as k is in more, and
\* is base[k] elsewhere.
Unwinds(f, D, more, next, step, base) ==
    \A k \in D : f[k] = IF k \in more THEN step[<<k, f[next[k]]>>] ELSE base[k]

\* Such a recursion has a solution when the ranks are bounded.
LEMMA RankedRecursion ==
  ASSUME NEW D, NEW more, NEW next, NEW rank, Descends(D, more, next, rank),
         NEW top \in Nat, \A k \in D : rank[k] <= top,
         NEW V, NEW step \in [more \X V -> V], NEW base \in [D -> V]
  PROVE  \E f \in [D -> V] : Unwinds(f, D, more, next, step, base)
<1> DEFINE Body(f, k) == IF k \in more THEN step[<<k, f[next[k]]>>] ELSE base[k]
           T == {n \in 0 .. top + 1 : \E f \in [D -> V] : \A k \in D : rank[k] < n => f[k] = Body(f, k)}
<1>0. /\ more \in SUBSET D /\ next \in [more -> D] /\ rank \in [D -> Nat]
      /\ \A k \in more : rank[next[k]] < rank[k]
  BY DEF Descends
<1>1. 0 \in T
  <2>1. \A k \in D : rank[k] < 0 => base[k] = Body(base, k)
    BY <1>0
  <2> HIDE DEF Body
  <2> QED BY <2>1
<1>2. ASSUME NEW n \in 0 .. top, n \in T
      PROVE  n + 1 \in T
  <2>1. PICK f \in [D -> V] : \A k \in D : rank[k] < n => f[k] = Body(f, k)
    BY <1>2
  <2> DEFINE g == [k \in D |-> Body(f, k)]
  <2>2. \A k \in D : Body(f, k) \in V
    BY <1>0
  <2>3. g \in [D -> V]
    <3> HIDE DEF Body
    <3> QED BY <2>2
  <2>4. ASSUME NEW k \in D, rank[k] < n + 1
        PROVE  g[k] = Body(g, k)
    <3>1. CASE k \in more
      <4>1. next[k] \in D /\ rank[next[k]] < n
        BY <1>0, <2>4, <3>1
      <4>2. f[next[k]] = g[next[k]]
        BY <2>1, <4>1
      <4> QED BY <3>1, <4>2
    <3>2. CASE k \notin more
      BY <3>2
    <3> QED BY <3>1, <3>2
  <2> HIDE DEF Body, g
  <2> QED BY <2>3, <2>4
<1> HIDE DEF T
<1>3. \A n \in 0 .. top + 1 : n \in T
  <2>1. top + 1 \in Nat /\ 0 .. (top + 1) - 1 = 0 .. top
    OBVIOUS
  <2> QED BY <1>1, <1>2, <2>1, IntervalInduction
<1>4. top + 1 \in T
  BY <1>3
<1>5. PICK f \in [D -> V] : \A k \in D : rank[k] < top + 1 => f[k] = Body(f, k)
  BY <1>4 DEF T
<1>6. \A k \in D : rank[k] < top + 1
  BY <1>0
<1> QED BY <1>5, <1>6 DEF Unwinds

-----------------------------------------------------------------------------
\* Concatenation, element by element.
LEMMA ConcatFacts ==
  ASSUME NEW S, NEW a \in Seq(S), NEW b \in Seq(S)
  PROVE  /\ a \o b \in Seq(S)
         /\ Len(a \o b) = Len(a) + Len(b)
         /\ \A k \in 1 .. Len(a) : (a \o b)[k] = a[k]
         /\ \A k \in 1 .. Len(b) : (a \o b)[Len(a) + k] = b[k]
  OBVIOUS

\* Sequences of one length with the same elements are equal.
LEMMA SameElements ==
  ASSUME NEW S, NEW a \in Seq(S), NEW b \in Seq(S), Len(a) = Len(b),
         \A k \in 1 .. Len(a) : a[k] = b[k]
  PROVE  a = b
  OBVIOUS

\* There is one empty sequence.
LEMMA EmptySequence ==
  ASSUME NEW S, NEW a \in Seq(S), Len(a) = 0
  PROVE  a = <<>>
  OBVIOUS

\* Concatenation is associative.
Associates(a, b, c) == (a \o b) \o c = a \o (b \o c)

\* Whatever the elements are.
LEMMA ConcatAssoc ==
  ASSUME NEW S, NEW a \in Seq(S), NEW b \in Seq(S), NEW c \in Seq(S)
  PROVE  Associates(a, b, c)
  BY DEF Associates

\* The empty sequence adds nothing.
LEMMA ConcatEmpty ==
  ASSUME NEW S, NEW a \in Seq(S)
  PROVE  <<>> \o a = a /\ a \o <<>> = a
  OBVIOUS

\* F holds the concatenations of the first 0, 1, 2, ... of the sequences.
Concatenates(F, seqs) ==
    F[0] = <<>> /\ \A k \in 1 .. Len(seqs) : F[k] = F[k - 1] \o seqs[k]

\* FlattenSeq computes the last of them.
LEMMA FlattenIsLast ==
  ASSUME NEW S, NEW seqs \in Seq(Seq(S)), NEW F \in [0 .. Len(seqs) -> Seq(S)],
         Concatenates(F, seqs)
  PROVE  FlattenSeq(seqs) = F[Len(seqs)]
<1>0. PICK n \in Nat : n = Len(seqs)
  OBVIOUS
<1>3. \A k \in 1 .. n : seqs[k] \in Seq(S)
  BY <1>0
<1>4. F[0] = <<>> /\ \A k \in 1 .. n : F[k] = F[k - 1] \o seqs[k]
  BY <1>0 DEF Concatenates
<1>1. CASE n = 0
  <2>1. seqs = <<>>
    BY <1>0, <1>1, EmptySequence
  <2> QED BY <1>0, <1>1, <1>4, <2>1 DEF FlattenSeq
<1>2. CASE n # 0
  <2> DEFINE Body(f) == [i \in 1 .. n |-> IF i = 1 THEN seqs[i] ELSE f[i - 1] \o seqs[i]]
             flatten == CHOOSE f : f = Body(f)
             G == [i \in 1 .. n |-> F[i]]
  <2>1. ASSUME NEW i \in 1 .. n
        PROVE  F[i] = IF i = 1 THEN seqs[i] ELSE G[i - 1] \o seqs[i]
    <3>1. CASE i = 1
      <4>1. F[i] = F[i - 1] \o seqs[i]
        BY <1>4
      <4>2. i - 1 = 0
        BY <3>1
      <4>3. F[i] = <<>> \o seqs[i]
        BY <1>4, <4>1, <4>2
      <4>4. F[i] = seqs[i]
        BY <1>3, <4>3, ConcatEmpty
      <4> QED BY <3>1, <4>4
    <3>2. CASE i # 1
      <4>1. i - 1 \in 1 .. n
        BY <3>2
      <4>2. F[i] = F[i - 1] \o seqs[i]
        BY <1>4
      <4> QED BY <3>2, <4>1, <4>2
    <3> QED BY <3>1, <3>2
  <2>2. G = Body(G)
    BY <2>1
  <2>3. flatten = Body(flatten)
    BY <2>2
  <2>4. FlattenSeq(seqs) = flatten[n]
    BY <1>0, <1>2 DEF FlattenSeq
  <2> HIDE DEF flatten
  <2>5. \A i \in 1 .. n : flatten[i] = IF i = 1 THEN seqs[i] ELSE flatten[i - 1] \o seqs[i]
    BY <2>3
  <2> DEFINE T == {k \in Nat : k \in 1 .. n => flatten[k] = F[k]}
  <2>6. ASSUME NEW k \in Nat, \A j \in 0 .. k - 1 : j \in T
        PROVE  k \in T
    <3>1. CASE k \in 2 .. n
      <4>1. k - 1 \in 0 .. k - 1 /\ k - 1 \in 1 .. n /\ k \in 1 .. n /\ k # 1
        BY <3>1
      <4>2. flatten[k - 1] = F[k - 1]
        BY <2>6, <4>1
      <4>3. flatten[k] = flatten[k - 1] \o seqs[k]
        BY <2>5, <4>1
      <4>4. F[k] = F[k - 1] \o seqs[k]
        BY <1>4, <4>1
      <4> QED BY <4>2, <4>3, <4>4
    <3>2. CASE k = 1
      BY <2>1, <2>5, <3>2
    <3> QED BY <1>0, <3>1, <3>2
  <2> HIDE DEF T
  <2>7. \A k \in Nat : k \in T
    BY <2>6, StrongInduction
  <2>8. n \in 1 .. n
    BY <1>0, <1>2
  <2> QED BY <1>0, <2>4, <2>7, <2>8 DEF T
<1> QED BY <1>1, <1>2

\* a is the beginning of b.
Begins(a, b) == Len(a) <= Len(b) /\ \A k \in 1 .. Len(a) : a[k] = b[k]

\* A sequence begins what is concatenated to it.
LEMMA BeginsConcat ==
  ASSUME NEW S, NEW a \in Seq(S), NEW b \in Seq(S)
  PROVE  Begins(a, a \o b)
<1>1. Len(a) \in Nat /\ Len(b) \in Nat
  OBVIOUS
<1> QED BY <1>1, ConcatFacts DEF Begins

\* A beginning of a beginning is one.
LEMMA BeginsTransitive ==
  ASSUME NEW S, NEW a \in Seq(S), NEW b \in Seq(S), NEW c \in Seq(S),
         Begins(a, b), Begins(b, c)
  PROVE  Begins(a, c)
  BY DEF Begins

\* The concatenations of a flattened sequence, each the beginning of the whole.
LEMMA FlattenUnfold ==
  ASSUME NEW S, NEW seqs \in Seq(Seq(S))
  PROVE  \E F \in [0 .. Len(seqs) -> Seq(S)] :
            /\ Concatenates(F, seqs)
            /\ FlattenSeq(seqs) = F[Len(seqs)]
            /\ \A k \in 0 .. Len(seqs) : Begins(F[k], F[Len(seqs)])
<1>0. PICK n \in Nat : n = Len(seqs)
  OBVIOUS
<1>1. <<>> \in Seq(S) /\ \A k \in 1 .. n : seqs[k] \in Seq(S)
  BY <1>0
<1> DEFINE step == [p \in (1 .. n) \X Seq(S) |-> p[2] \o seqs[p[1]]]
<1>2. step \in [(1 .. n) \X Seq(S) -> Seq(S)]
  <2>1. ASSUME NEW p \in (1 .. n) \X Seq(S)
        PROVE  p[2] \o seqs[p[1]] \in Seq(S)
    <3>1. p[2] \in Seq(S) /\ seqs[p[1]] \in Seq(S)
      BY <1>1
    <3> QED BY <3>1, ConcatFacts
  <2> QED BY <2>1
<1>3. \A k \in 1 .. n, v \in Seq(S) : step[<<k, v>>] = v \o seqs[k]
  OBVIOUS
<1> HIDE DEF step
<1>4. PICK F \in [0 .. n -> Seq(S)] :
              F[0] = <<>> /\ \A k \in 1 .. n : F[k] = step[<<k, F[k - 1]>>]
  <2>1. PICK V, e : V = Seq(S) /\ e = <<>>
    OBVIOUS
  <2>2. e \in V /\ step \in [(1 .. n) \X V -> V]
    BY <1>1, <1>2, <2>1
  <2>3. \E F \in [0 .. n -> V] : Recurs(F, n, step, e)
    BY <2>2, IntervalRecursion
  <2> QED BY <2>1, <2>3 DEF Recurs
<1>5. \A k \in 1 .. n : F[k - 1] \in Seq(S) /\ F[k] \in Seq(S)
  OBVIOUS
<1>6. \A k \in 1 .. n : F[k] = F[k - 1] \o seqs[k]
  BY <1>3, <1>4, <1>5
<1> DEFINE T == {d \in 0 .. n : Begins(F[n - d], F[n])}
<1>7. 0 \in T
  <2>1. F[n] \in Seq(S) /\ n - 0 = n
    OBVIOUS
  <2>2. Begins(F[n], F[n])
    BY <2>1 DEF Begins
  <2> QED BY <2>1, <2>2
<1>8. ASSUME NEW d \in 0 .. n - 1, d \in T
      PROVE  d + 1 \in T
  <2>1. PICK k \in 1 .. n : k = n - d
    OBVIOUS
  <2>2. n - (d + 1) = k - 1 /\ d + 1 \in 0 .. n /\ n \in 1 .. n
    BY <2>1
  <2>3. /\ F[k] = F[k - 1] \o seqs[k] /\ seqs[k] \in Seq(S)
        /\ F[k - 1] \in Seq(S) /\ F[k] \in Seq(S) /\ F[n] \in Seq(S)
    BY <1>1, <1>5, <1>6, <2>2
  <2>4. Begins(F[k - 1], F[k])
    BY <2>3, BeginsConcat
  <2>5. Begins(F[k], F[n])
    BY <1>8, <2>1
  <2>6. Begins(F[k - 1], F[n])
    BY <2>3, <2>4, <2>5, BeginsTransitive
  <2> QED BY <2>2, <2>6
<1>9. \A d \in 0 .. n : d \in T
  <2> HIDE DEF T
  <2> QED BY <1>7, <1>8, IntervalInduction
<1>10. ASSUME NEW k \in 0 .. n PROVE Begins(F[k], F[n])
  <2>1. n - k \in 0 .. n /\ n - (n - k) = k
    OBVIOUS
  <2> QED BY <1>9, <2>1
<1>11. Concatenates(F, seqs)
  BY <1>0, <1>4, <1>6 DEF Concatenates
<1>12. FlattenSeq(seqs) = F[n]
  BY <1>0, <1>11, FlattenIsLast
<1> QED BY <1>0, <1>10, <1>11, <1>12
=============================================================================
