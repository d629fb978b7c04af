-------------------------- MODULE DeduplicateProofs --------------------------
(***************************************************************************)
(* Deduplicate keeps the first occurrences, for every list and every hash  *)
(* function.                                                               *)
(***************************************************************************)
EXTENDS Deduplicate, SequenceTheorems, TLAPS

\* The state on entry.
StartInv ==
    pc = "start" =>
        /\ l = orig /\ i = 1 /\ n = 0 /\ from = <<>>
        /\ \A h \in Hashes : seen[h] = 0 /\ collisions[h] = {}

\* seen and collisions together index every kept path under its hash, each
\* position once, so that a lookup by hash compares with all candidates.
IndexComplete ==
    pc = "loop" =>
        \A h \in Hashes :
            /\ collisions[h] \cup ({seen[h]} \ {0}) = {k \in 1 .. n : hashFn[l[k].Path] = h}
            /\ seen[h] = 0 => collisions[h] = {}
            /\ seen[h] \notin collisions[h]

\* uniq is the image of the first positions read so far.
KeptInv ==
    pc = "loop" =>
        /\ \A k \in 1 .. n : l[k] = orig[from[k]] /\ from[k] < i
        /\ \A j, k \in 1 .. n : j < k => from[j] < from[k]
        /\ {from[k] : k \in 1 .. n} = {p \in FirstPositions(orig) : p < i}

\* Every path read so far is among the kept ones.
CoveredInv ==
    pc = "loop" => \A m \in 1 .. i - 1 : \E k \in 1 .. n : l[k].Path = orig[m].Path

Inv ==
    /\ TypeOK /\ StartInv /\ UnreadIntact /\ IndexComplete /\ KeptInv /\ CoveredInv
    /\ KeepsFirstOccurrences /\ TailCleared

LEMMA InitInv == Init => Inv
<1> SUFFICES ASSUME Init PROVE Inv  OBVIOUS
<1>1. orig \in Seq(Node) /\ l = orig /\ Len(l) \in Nat  BY ListsAssumption DEF Init
<1>2. TypeOK
  BY <1>1 DEF Init, TypeOK
<1> QED  BY <1>2 DEF Init, Inv, StartInv, UnreadIntact, IndexComplete, KeptInv, CoveredInv,
                   KeepsFirstOccurrences, TailCleared

LEMMA EnterInv == Inv /\ Enter => Inv'
<1> SUFFICES ASSUME Inv, Enter PROVE Inv'  OBVIOUS
<1>1. /\ pc = "start" /\ pc' = "loop"
      /\ UNCHANGED <<orig, hashFn, l, i, n, seen, collisions, from>>
      /\ l = orig /\ i = 1 /\ n = 0 /\ from = <<>>
      /\ \A h \in Hashes : seen[h] = 0 /\ collisions[h] = {}
  BY DEF Inv, Enter, StartInv
<1>2. TypeOK'  BY <1>1 DEF Inv, TypeOK
<1>3. UnreadIntact'  BY <1>1 DEF UnreadIntact
<1>4. IndexComplete'  BY <1>1 DEF IndexComplete
<1>5. KeptInv'
  <2>1. {p \in FirstPositions(orig) : p < 1} = {}  BY DEF FirstPositions
  <2>2. {from[k] : k \in 1 .. 0} = {}  OBVIOUS
  <2> QED  BY <1>1, <2>1, <2>2 DEF KeptInv
<1>6. CoveredInv'  BY <1>1 DEF CoveredInv
<1> QED  BY <1>1, <1>2, <1>3, <1>4, <1>5, <1>6 DEF Inv, StartInv, KeepsFirstOccurrences, TailCleared

LEMMA ReturnShortInv == Inv /\ ReturnShort => Inv'
<1> SUFFICES ASSUME Inv, ReturnShort PROVE Inv'  OBVIOUS
<1>1. /\ l = orig /\ Len(l) <= 1 /\ n' = Len(l) /\ from' = [k \in 1 .. Len(l) |-> k]
      /\ pc' = "done" /\ UNCHANGED <<orig, hashFn, l, i, seen, collisions>>
      /\ i = 1 /\ n = 0 /\ l \in Seq(Node) /\ Len(l) \in Nat
      /\ \A h \in Hashes : seen[h] = 0 /\ collisions[h] = {}
      /\ seen \in [Hashes -> 0 .. n] /\ collisions \in [Hashes -> SUBSET (1 .. n)]
  BY DEF Inv, ReturnShort, StartInv, TypeOK
<1>2. from' \in Seq(1 .. Len(l)) /\ Len(from') = Len(l)
  BY <1>1
<1>3. TypeOK'
  <2>1. seen \in [Hashes -> 0 .. Len(l)] /\ collisions \in [Hashes -> SUBSET (1 .. Len(l))]
    BY <1>1
  <2> QED  BY <1>1, <1>2, <2>1 DEF Inv, TypeOK
<1>4. FirstPositions(orig) = 1 .. Len(l)
  BY <1>1 DEF FirstPositions
<1>5. KeepsFirstOccurrences'
  <2>1. {from'[k] : k \in 1 .. Len(l)} = 1 .. Len(l)  BY <1>1
  <2> QED  BY <1>1, <1>4, <2>1 DEF KeepsFirstOccurrences
<1> QED  BY <1>1, <1>3, <1>5 DEF Inv, StartInv, UnreadIntact, IndexComplete, KeptInv, CoveredInv, TailCleared

\* The lookup by hash finds a path if and only if it is among the kept ones.
LEMMA LookupExact ==
    ASSUME Inv, pc = "loop", i <= Len(l)
    PROVE  (\E k \in 1 .. n : l[k].Path = l[i].Path)
             <=> seen[HashOf(l[i])] # 0 /\ IsDuplicate(l[i])
<1> DEFINE h == HashOf(l[i])
<1>1. /\ l \in Seq(Node) /\ Len(l) \in Nat /\ i \in 1 .. Len(l) /\ n \in Nat /\ n <= Len(l)
      /\ seen \in [Hashes -> 0 .. n] /\ hashFn \in [Paths -> Hashes]
  BY DEF Inv, TypeOK
<1>2. l[i] \in Node /\ h \in Hashes /\ h = hashFn[l[i].Path] /\ seen[h] \in 0 .. n
  <2>1. l[i] \in Node  BY <1>1, ElementOfSeq
  <2>2. l[i].Path \in Paths  BY <2>1 DEF Node
  <2>3. h \in Hashes /\ h = hashFn[l[i].Path]  BY <1>1, <2>2 DEF HashOf
  <2> QED  BY <1>1, <2>1, <2>3
<1>3. collisions[h] \cup ({seen[h]} \ {0}) = {k \in 1 .. n : hashFn[l[k].Path] = h}
  BY <1>2 DEF Inv, IndexComplete
<1> HIDE DEF h
<1>4. ASSUME NEW k \in 1 .. n, l[k].Path = l[i].Path
      PROVE  seen[h] # 0 /\ IsDuplicate(l[i])
  <2>1. k \in collisions[h] \cup ({seen[h]} \ {0})  BY <1>2, <1>3, <1>4
  <2>2. CASE k = seen[h]  BY <1>1, <1>4, <2>2 DEF IsDuplicate, h
  <2>3. CASE k \in collisions[h]
    <3>1. seen[h] # 0
      BY <1>2, <2>3 DEF Inv, IndexComplete
    <3> QED  BY <1>4, <2>3, <3>1 DEF IsDuplicate, h
  <2> QED  BY <2>1, <2>2, <2>3
<1>5. ASSUME seen[h] # 0, IsDuplicate(l[i])
      PROVE  \E k \in 1 .. n : l[k].Path = l[i].Path
  <2>1. CASE l[i].Path = l[seen[h]].Path
    <3>1. seen[h] \in 1 .. n  BY <1>1, <1>2, <1>5
    <3> QED  BY <2>1, <3>1
  <2>2. ASSUME NEW idx \in collisions[h], l[i].Path = l[idx].Path
        PROVE  \E k \in 1 .. n : l[k].Path = l[i].Path
    <3>1. idx \in 1 .. n  BY <1>3
    <3> QED  BY <2>2, <3>1
  <2> QED  BY <1>5, <2>1, <2>2 DEF IsDuplicate, h
<1> QED  BY <1>4, <1>5 DEF h

\* A function on 1 .. m is a sequence of length m.
LEMMA FunctionIsSeq ==
    ASSUME NEW S, NEW m \in Nat, NEW f \in [1 .. m -> S]
    PROVE  f \in Seq(S) /\ Len(f) = m
  OBVIOUS

\* Keeping a new path: the parts of the invariant about l, n and from.
LEMMA AppendInv ==
    ASSUME Inv, pc = "loop", i <= Len(l), AppendUniq(l[i]), i' = i + 1,
           orig' = orig, pc' = pc,
           ~\E k \in 1 .. n : l[k].Path = l[i].Path
    PROVE  /\ l' \in Seq(Node) /\ Len(l') = Len(l)
           /\ n' \in 0 .. Len(l) /\ i' \in 1 .. Len(l) + 1
           /\ from' \in Seq(1 .. Len(l)) /\ Len(from') = n'
           /\ \A k \in 1 .. n : l'[k] = l[k]
           /\ l'[n + 1] = l[i]
           /\ UnreadIntact' /\ KeptInv' /\ CoveredInv'
<1>1. /\ l \in Seq(Node) /\ Len(l) \in Nat /\ i \in 1 .. Len(l) /\ n \in Nat /\ n < i
      /\ from \in Seq(1 .. Len(l)) /\ Len(from) = n
      /\ orig \in Seq(Node) /\ Len(l) = Len(orig)
      /\ \A k \in i .. Len(l) : l[k] = orig[k]
  BY ListsAssumption DEF Inv, TypeOK, UnreadIntact
<1>2. /\ l' = [l EXCEPT ![n + 1] = l[i]] /\ n' = n + 1 /\ from' = Append(from, i)
  BY DEF AppendUniq
<1>3. l[i] \in Node /\ n + 1 \in 1 .. Len(l) /\ l[i] = orig[i]  BY <1>1
<1>4. l' \in Seq(Node) /\ Len(l') = Len(l)
  <2>1. l \in [1 .. Len(l) -> Node]  BY <1>1
  <2>2. l' \in [1 .. Len(l) -> Node]  BY <1>2, <1>3, <2>1
  <2>3. Len(l) \in Nat  BY <1>1
  <2> QED  BY <2>2, <2>3, FunctionIsSeq
<1>5. /\ \A k \in 1 .. n : l'[k] = l[k]
      /\ l'[n + 1] = l[i]
      /\ \A k \in i + 1 .. Len(l) : l'[k] = l[k]
  BY <1>1, <1>2, <1>3
<1>6. /\ from' \in Seq(1 .. Len(l)) /\ Len(from') = n + 1
      /\ \A k \in 1 .. n : from'[k] = from[k]
      /\ from'[n + 1] = i
  BY <1>1, <1>2
<1>7. UnreadIntact'  BY <1>1, <1>2, <1>4, <1>5 DEF UnreadIntact
<1>8. \A k \in 1 .. n + 1 : k \in 1 .. n \/ k = n + 1  BY <1>1
<1>9. /\ \A k \in 1 .. n : l[k] = orig[from[k]] /\ from[k] < i
      /\ \A j, k \in 1 .. n : j < k => from[j] < from[k]
      /\ {from[k] : k \in 1 .. n} = {p \in FirstPositions(orig) : p < i}
      /\ \A m \in 1 .. i - 1 : \E k \in 1 .. n : l[k].Path = orig[m].Path
  BY DEF Inv, KeptInv, CoveredInv
<1>10. i \in FirstPositions(orig)
  BY <1>1, <1>3, <1>9 DEF FirstPositions
<1>11. KeptInv'
  <2>1. \A k \in 1 .. n + 1 : l'[k] = orig[from'[k]] /\ from'[k] < i + 1
    <3>1. \A k \in 1 .. n : from[k] \in Int  BY <1>1, ElementOfSeq
    <3>2. ASSUME NEW k \in 1 .. n
          PROVE  l'[k] = orig[from'[k]] /\ from'[k] < i + 1
      <4>1. l'[k] = l[k] /\ from'[k] = from[k]  BY <1>5, <1>6
      <4>2. l[k] = orig[from[k]] /\ from[k] < i  BY <1>9
      <4>3. from[k] \in Int /\ i \in Int  BY <1>1, <3>1
      <4>4. from[k] < i + 1  BY <4>2, <4>3
      <4> QED  BY <4>1, <4>2, <4>4
    <3>3. l'[n + 1] = orig[from'[n + 1]] /\ from'[n + 1] < i + 1
      BY <1>1, <1>3, <1>5, <1>6
    <3> QED  BY <1>8, <3>2, <3>3
  <2>2. \A j, k \in 1 .. n + 1 : j < k => from'[j] < from'[k]
    <3> SUFFICES ASSUME NEW j \in 1 .. n + 1, NEW k \in 1 .. n + 1, j < k
                 PROVE  from'[j] < from'[k]
      OBVIOUS
    <3>1. j \in 1 .. n  BY <1>1
    <3>2. CASE k \in 1 .. n  BY <1>6, <1>9, <3>1, <3>2
    <3>3. CASE k = n + 1  BY <1>6, <1>9, <3>1, <3>3
    <3> QED  BY <1>8, <3>2, <3>3
  <2>3. {from'[k] : k \in 1 .. n + 1} = {from[k] : k \in 1 .. n} \cup {i}
    <3>1. n \in Nat  BY <1>1
    <3>2. /\ \A k \in 1 .. n : from'[k] = from[k]
          /\ from'[n + 1] = i
      BY <1>6
    <3>3. ASSUME NEW y \in {from'[k] : k \in 1 .. n + 1}
          PROVE  y \in {from[k] : k \in 1 .. n} \cup {i}
      <4>1. PICK k \in 1 .. n + 1 : y = from'[k]  BY <3>3
      <4>2. CASE k \in 1 .. n
        <5>1. y = from[k]  BY <3>2, <4>1, <4>2
        <5> QED  BY <4>2, <5>1
      <4>3. CASE k = n + 1  BY <3>2, <4>1, <4>3
      <4> QED  BY <1>8, <4>2, <4>3
    <3>4. ASSUME NEW k \in 1 .. n
          PROVE  from[k] \in {from'[j] : j \in 1 .. n + 1}
      <4>1. k \in 1 .. n + 1 /\ from[k] = from'[k]  BY <3>1, <3>2
      <4> QED  BY <4>1
    <3>5. i \in {from'[j] : j \in 1 .. n + 1}
      <4>1. n + 1 \in 1 .. n + 1  BY <3>1
      <4> QED  BY <3>2, <4>1
    <3> QED  BY <3>3, <3>4, <3>5
  <2>4. {p \in FirstPositions(orig) : p < i + 1} = {p \in FirstPositions(orig) : p < i} \cup {i}
    <3>1. \A p \in FirstPositions(orig) : p \in Int  BY <1>1 DEF FirstPositions
    <3>2. \A p \in FirstPositions(orig) : p < i + 1 <=> p < i \/ p = i  BY <1>1, <3>1
    <3> QED  BY <1>10, <3>2
  <2> QED  BY <1>2, <1>9, <2>1, <2>2, <2>3, <2>4 DEF KeptInv
<1>12. CoveredInv'
  <2> SUFFICES ASSUME NEW m \in 1 .. i
               PROVE  \E k \in 1 .. n + 1 : l'[k].Path = orig[m].Path
    BY <1>1, <1>2 DEF CoveredInv
  <2>1. CASE m = i  BY <1>1, <1>3, <1>5, <2>1
  <2>2. CASE m \in 1 .. i - 1
    <3>1. PICK k \in 1 .. n : l[k].Path = orig[m].Path  BY <1>9, <2>2
    <3>2. k \in 1 .. n + 1 /\ l'[k].Path = orig[m].Path  BY <1>1, <1>5, <3>1
    <3> QED  BY <3>2
  <2> QED  BY <1>1, <2>1, <2>2
<1> QED  BY <1>1, <1>2, <1>4, <1>5, <1>6, <1>7, <1>11, <1>12

LEMMA KeepFirstInv == Inv /\ KeepFirst => Inv'
<1> SUFFICES ASSUME Inv, KeepFirst PROVE Inv'  OBVIOUS
<1> DEFINE h == HashOf(l[i])
<1>1. /\ pc = "loop" /\ i <= Len(l) /\ seen[h] = 0
      /\ seen' = [seen EXCEPT ![h] = n + 1]
      /\ AppendUniq(l[i]) /\ n' = n + 1 /\ i' = i + 1
      /\ UNCHANGED <<orig, hashFn, collisions, pc>>
  BY DEF KeepFirst, AppendUniq
<1>2. /\ l \in Seq(Node) /\ i \in 1 .. Len(l) /\ n \in Nat
      /\ seen \in [Hashes -> 0 .. n] /\ collisions \in [Hashes -> SUBSET (1 .. n)]
      /\ hashFn \in [Paths -> Hashes]
  BY <1>1 DEF Inv, TypeOK
<1>3. h \in Hashes /\ h = hashFn[l[i].Path]
  <2>1. l[i] \in Node  BY <1>2, ElementOfSeq
  <2>2. l[i].Path \in Paths  BY <2>1 DEF Node
  <2> QED  BY <1>2, <2>2 DEF HashOf
<1>4. ~\E k \in 1 .. n : l[k].Path = l[i].Path  BY <1>1, LookupExact
<1>5. /\ l' \in Seq(Node) /\ Len(l') = Len(l)
      /\ n' \in 0 .. Len(l) /\ i' \in 1 .. Len(l) + 1
      /\ from' \in Seq(1 .. Len(l)) /\ Len(from') = n'
      /\ \A k \in 1 .. n : l'[k] = l[k]
      /\ l'[n + 1] = l[i]
      /\ UnreadIntact' /\ KeptInv' /\ CoveredInv'
  BY <1>1, <1>4, AppendInv
<1> HIDE DEF h
<1>6. TypeOK'
  <2>1. seen' \in [Hashes -> 0 .. n + 1]  BY <1>1, <1>2, <1>3
  <2>2. collisions' \in [Hashes -> SUBSET (1 .. n + 1)]
    <3>1. 1 .. n \subseteq 1 .. n + 1  BY <1>2
    <3> QED  BY <1>1, <1>2, <3>1
  <2> QED  BY <1>1, <1>5, <2>1, <2>2 DEF Inv, TypeOK
<1>7. IndexComplete'
  <2> SUFFICES ASSUME NEW g \in Hashes
               PROVE  /\ collisions[g] \cup ({seen'[g]} \ {0}) = {k \in 1 .. n + 1 : hashFn[l'[k].Path] = g}
                      /\ seen'[g] = 0 => collisions[g] = {}
                      /\ seen'[g] \notin collisions[g]
    BY <1>1 DEF IndexComplete
  <2>1. /\ collisions[g] \cup ({seen[g]} \ {0}) = {k \in 1 .. n : hashFn[l[k].Path] = g}
        /\ seen[g] = 0 => collisions[g] = {}
        /\ seen[g] \notin collisions[g]
    BY <1>1 DEF Inv, IndexComplete
  <2>2. {k \in 1 .. n + 1 : hashFn[l'[k].Path] = g}
          = {k \in 1 .. n : hashFn[l[k].Path] = g} \cup (IF g = h THEN {n + 1} ELSE {})
    <3>1. 1 .. n + 1 = (1 .. n) \cup {n + 1}  BY <1>2
    <3> QED  BY <1>3, <1>5, <3>1
  <2>3. CASE g = h
    <3>1. seen'[g] = n + 1 /\ collisions[g] = {} /\ n + 1 # 0  BY <1>1, <1>2, <1>3, <2>1, <2>3
    <3> QED  BY <1>1, <2>1, <2>2, <2>3, <3>1
  <2>4. CASE g # h
    <3>1. seen'[g] = seen[g]  BY <1>1, <1>2, <2>4
    <3> QED  BY <2>1, <2>2, <2>4, <3>1
  <2> QED  BY <2>3, <2>4
<1> QED  BY <1>1, <1>5, <1>6, <1>7 DEF Inv, StartInv, KeepsFirstOccurrences, TailCleared

LEMMA KeepCollisionInv == Inv /\ KeepCollision => Inv'
<1> SUFFICES ASSUME Inv, KeepCollision PROVE Inv'  OBVIOUS
<1> DEFINE h == HashOf(l[i])
<1>1. /\ pc = "loop" /\ i <= Len(l) /\ seen[h] # 0 /\ ~IsDuplicate(l[i])
      /\ collisions' = [collisions EXCEPT ![h] = @ \cup {n + 1}]
      /\ AppendUniq(l[i]) /\ n' = n + 1 /\ i' = i + 1
      /\ UNCHANGED <<orig, hashFn, seen, pc>>
  BY DEF KeepCollision, AppendUniq
<1>2. /\ l \in Seq(Node) /\ i \in 1 .. Len(l) /\ n \in Nat
      /\ seen \in [Hashes -> 0 .. n] /\ collisions \in [Hashes -> SUBSET (1 .. n)]
      /\ hashFn \in [Paths -> Hashes]
  BY <1>1 DEF Inv, TypeOK
<1>3. h \in Hashes /\ h = hashFn[l[i].Path]
  <2>1. l[i] \in Node  BY <1>2, ElementOfSeq
  <2>2. l[i].Path \in Paths  BY <2>1 DEF Node
  <2> QED  BY <1>2, <2>2 DEF HashOf
<1>4. ~\E k \in 1 .. n : l[k].Path = l[i].Path  BY <1>1, LookupExact
<1>5. /\ l' \in Seq(Node) /\ Len(l') = Len(l)
      /\ n' \in 0 .. Len(l) /\ i' \in 1 .. Len(l) + 1
      /\ from' \in Seq(1 .. Len(l)) /\ Len(from') = n'
      /\ \A k \in 1 .. n : l'[k] = l[k]
      /\ l'[n + 1] = l[i]
      /\ UnreadIntact' /\ KeptInv' /\ CoveredInv'
  BY <1>1, <1>4, AppendInv
<1> HIDE DEF h
<1>6. TypeOK'
  <2>0. 1 .. n \subseteq 1 .. n + 1 /\ 0 .. n \subseteq 0 .. n + 1 /\ n + 1 \in 1 .. n + 1  BY <1>2
  <2>1. seen' \in [Hashes -> 0 .. n + 1]  BY <1>1, <1>2, <2>0
  <2>2. collisions' \in [Hashes -> SUBSET (1 .. n + 1)]  BY <1>1, <1>2, <1>3, <2>0
  <2> QED  BY <1>1, <1>5, <2>1, <2>2 DEF Inv, TypeOK
<1>7. IndexComplete'
  <2> SUFFICES ASSUME NEW g \in Hashes
               PROVE  /\ collisions'[g] \cup ({seen[g]} \ {0}) = {k \in 1 .. n + 1 : hashFn[l'[k].Path] = g}
                      /\ seen[g] = 0 => collisions'[g] = {}
                      /\ seen[g] \notin collisions'[g]
    BY <1>1 DEF IndexComplete
  <2>1. /\ collisions[g] \cup ({seen[g]} \ {0}) = {k \in 1 .. n : hashFn[l[k].Path] = g}
        /\ seen[g] = 0 => collisions[g] = {}
        /\ seen[g] \notin collisions[g]
    BY <1>1 DEF Inv, IndexComplete
  <2>2. {k \in 1 .. n + 1 : hashFn[l'[k].Path] = g}
          = {k \in 1 .. n : hashFn[l[k].Path] = g} \cup (IF g = h THEN {n + 1} ELSE {})
    <3>1. 1 .. n + 1 = (1 .. n) \cup {n + 1}  BY <1>2
    <3> QED  BY <1>3, <1>5, <3>1
  <2>3. CASE g = h
    <3>1. collisions'[g] = collisions[g] \cup {n + 1}  BY <1>1, <1>2, <1>3, <2>3
    <3>2. seen[g] # n + 1  BY <1>2
    <3> QED  BY <1>1, <2>1, <2>2, <2>3, <3>1, <3>2
  <2>4. CASE g # h
    <3>1. collisions'[g] = collisions[g]  BY <1>1, <1>2, <2>4
    <3> QED  BY <2>1, <2>2, <2>4, <3>1
  <2> QED  BY <2>3, <2>4
<1> QED  BY <1>1, <1>5, <1>6, <1>7 DEF Inv, StartInv, KeepsFirstOccurrences, TailCleared

LEMMA SkipInv == Inv /\ Skip => Inv'
<1> SUFFICES ASSUME Inv, Skip PROVE Inv'  OBVIOUS
<1>1. /\ pc = "loop" /\ i <= Len(l) /\ seen[HashOf(l[i])] # 0 /\ IsDuplicate(l[i])
      /\ i' = i + 1 /\ UNCHANGED <<orig, hashFn, l, n, seen, collisions, pc, from>>
  BY DEF Skip
<1>2. /\ l \in Seq(Node) /\ Len(l) \in Nat /\ i \in 1 .. Len(l) /\ n \in Nat /\ n < i
      /\ from \in Seq(1 .. Len(l)) /\ Len(from) = n
      /\ orig \in Seq(Node) /\ Len(l) = Len(orig)
      /\ \A k \in i .. Len(l) : l[k] = orig[k]
  BY <1>1, ListsAssumption DEF Inv, TypeOK, UnreadIntact
<1>3. PICK d \in 1 .. n : l[d].Path = l[i].Path  BY <1>1, LookupExact
<1>4. /\ \A k \in 1 .. n : l[k] = orig[from[k]] /\ from[k] < i
      /\ \A j, k \in 1 .. n : j < k => from[j] < from[k]
      /\ {from[k] : k \in 1 .. n} = {p \in FirstPositions(orig) : p < i}
      /\ \A m \in 1 .. i - 1 : \E k \in 1 .. n : l[k].Path = orig[m].Path
  BY <1>1 DEF Inv, KeptInv, CoveredInv
<1>5. from[d] \in 1 .. i - 1 /\ orig[from[d]].Path = orig[i].Path
  <2>1. from[d] \in 1 .. Len(l)  BY <1>2, <1>3, ElementOfSeq
  <2> QED  BY <1>2, <1>3, <1>4, <2>1
<1>6. i \notin FirstPositions(orig)  BY <1>5 DEF FirstPositions
<1>7. TypeOK'  BY <1>1, <1>2 DEF Inv, TypeOK
<1>8. UnreadIntact'  BY <1>1, <1>2 DEF UnreadIntact
<1>9. KeptInv'
  <2>1. {p \in FirstPositions(orig) : p < i + 1} = {p \in FirstPositions(orig) : p < i}
    <3>1. \A p \in FirstPositions(orig) : p \in Int  BY <1>2 DEF FirstPositions
    <3>2. \A p \in FirstPositions(orig) : p < i + 1 <=> p < i  BY <1>2, <1>6, <3>1
    <3> QED  BY <3>2
  <2>2. \A k \in 1 .. n : from[k] < i + 1
    <3>1. \A k \in 1 .. n : from[k] \in Int  BY <1>2, ElementOfSeq
    <3> QED  BY <1>2, <1>4, <3>1
  <2> QED  BY <1>1, <1>4, <2>1, <2>2 DEF KeptInv
<1>10. CoveredInv'
  <2> SUFFICES ASSUME NEW m \in 1 .. i PROVE \E k \in 1 .. n : l[k].Path = orig[m].Path
    BY <1>1, <1>2 DEF CoveredInv
  <2>1. CASE m = i  BY <1>2, <1>3, <2>1
  <2>2. CASE m \in 1 .. i - 1  BY <1>4, <2>2
  <2> QED  BY <1>2, <2>1, <2>2
<1>11. IndexComplete'  BY <1>1 DEF Inv, IndexComplete
<1> QED  BY <1>1, <1>7, <1>8, <1>9, <1>10, <1>11 DEF Inv, StartInv, KeepsFirstOccurrences, TailCleared

LEMMA FinishInv == Inv /\ Finish => Inv'
<1> SUFFICES ASSUME Inv, Finish PROVE Inv'  OBVIOUS
<1>1. /\ pc = "loop" /\ i > Len(l) /\ pc' = "done"
      /\ l' = [k \in 1 .. Len(l) |-> IF k <= n THEN l[k] ELSE Zero]
      /\ UNCHANGED <<orig, hashFn, i, n, seen, collisions, from>>
  BY DEF Finish
<1>2. /\ l \in Seq(Node) /\ Len(l) \in Nat /\ i = Len(l) + 1 /\ n \in Nat /\ n <= Len(l)
      /\ orig \in Seq(Node) /\ Len(l) = Len(orig)
  <2>1. /\ l \in Seq(Node) /\ Len(l) = Len(orig) /\ orig \in Seq(Node)
        /\ i \in 1 .. Len(l) + 1 /\ n \in 0 .. Len(l)
    BY ListsAssumption DEF Inv, TypeOK
  <2>2. Len(l) \in Nat  BY <2>1
  <2> QED  BY <1>1, <2>1, <2>2
<1>3. Zero \in Node  BY ListsAssumption DEF Zero, Node
<1>4. l' \in Seq(Node) /\ Len(l') = Len(l)
  <2>1. l \in [1 .. Len(l) -> Node]  BY <1>2
  <2>2. l' \in [1 .. Len(l) -> Node]  BY <1>1, <1>3, <2>1
  <2> QED  BY <1>2, <2>2
<1>5. TypeOK'  BY <1>1, <1>4 DEF Inv, TypeOK
<1>6. \A k \in 1 .. n : l'[k] = l[k]  BY <1>1, <1>2
<1>7. {p \in FirstPositions(orig) : p < i} = FirstPositions(orig)
  <2>1. \A p \in FirstPositions(orig) : p < i  BY <1>2 DEF FirstPositions
  <2> QED  BY <2>1
<1>8. KeepsFirstOccurrences'  BY <1>1, <1>6, <1>7 DEF Inv, KeptInv, KeepsFirstOccurrences
<1>9. TailCleared'
  <2>1. \A k \in n + 1 .. Len(l) : k \in 1 .. Len(l) /\ ~(k <= n)  BY <1>2
  <2> QED  BY <1>1, <1>4, <2>1 DEF TailCleared
<1> QED  BY <1>1, <1>5, <1>8, <1>9 DEF Inv, StartInv, UnreadIntact, IndexComplete, KeptInv, CoveredInv

\* The inductive invariant holds in every reachable state.
THEOREM InvHolds == Spec => []Inv
<1>1. Inv /\ [Next]_vars => Inv'
  <2> SUFFICES ASSUME Inv, [Next]_vars PROVE Inv'  OBVIOUS
  <2>1. CASE UNCHANGED vars
    BY <2>1 DEF vars, Inv, TypeOK, StartInv, UnreadIntact, IndexComplete, KeptInv, CoveredInv,
                KeepsFirstOccurrences, TailCleared
  <2> QED
    BY <2>1, ReturnShortInv, EnterInv, KeepFirstInv, SkipInv, KeepCollisionInv, FinishInv DEF Next
<1> QED  BY <1>1, InitInv, PTL DEF Spec

\* Every variable keeps its type: the loop indexes l and uniq in range.
THEOREM TypeCorrect == Spec => []TypeOK
<1>1. Inv => TypeOK  BY DEF Inv
<1> QED  BY <1>1, InvHolds, PTL

\* Deduplicate returns the first node of every path, in order, for every list
\* and however badly the hash function collides.
THEOREM DeduplicateCorrect == Spec => []KeepsFirstOccurrences
<1>1. Inv => KeepsFirstOccurrences  BY DEF Inv
<1> QED  BY <1>1, InvHolds, PTL

\* The in-place writes never reach an element the loop has still to read.
THEOREM CompactionBehindLoop == Spec => []UnreadIntact
<1>1. Inv => UnreadIntact  BY DEF Inv
<1> QED  BY <1>1, InvHolds, PTL

\* The slots behind the returned list are cleared, so that the array it shares
\* with its argument keeps no dropped node alive.
THEOREM TailIsCleared == Spec => []TailCleared
<1>1. Inv => TailCleared  BY DEF Inv
<1> QED  BY <1>1, InvHolds, PTL
=============================================================================
