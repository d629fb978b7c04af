--------------------------- MODULE SelectionProofs ---------------------------
(***************************************************************************)
(* The selection runtime, for every document and every query: array access *)
(* stays inside the array and selects what RFC 9535 selects, the stack of  *)
(* a descendant segment works in document order, and located selection     *)
(* carries paths that resolve, reserves enough and makes the same steps as *)
(* plain selection.                                                        *)
(***************************************************************************)
EXTENDS LocatedSelection, ArrayAccess, DescendantWalk,
        NaturalRecursion, FiniteSetTheorems, SequenceTheorems, TLAPS

-----------------------------------------------------------------------------
(* Integer division, from the two facts the SMT backend knows.             *)

\* Quotient and remainder of the division in SliceBounds.Count and of the
\* step test of RFCSlice.
LEMMA DivMod ==
    ASSUME NEW a \in Int, NEW s \in Nat, s > 0
    PROVE  /\ a \div s \in Int
           /\ a % s \in Int
           /\ 0 <= a % s
           /\ a % s < s
           /\ a % s = a - s * (a \div s)
<1>1. a % s = a - s * (a \div s)  BY Z3
<1>2. a \div s \in Int /\ a % s \in 0 .. (s - 1)  OBVIOUS
<1> QED  BY <1>1, <1>2

\* A division that rounds a positive number up is not zero.
LEMMA RoundUpPositive ==
    ASSUME NEW x \in Int, x > 0, NEW s \in Nat, s > 0
    PROVE  (x + s - 1) \div s # 0
<1> DEFINE a == x + s - 1
<1>1. a \in Int /\ a >= s  OBVIOUS
<1> HIDE DEF a
<1>2. a % s < s /\ a % s = a - s * (a \div s) /\ a \div s \in Int  BY <1>1, DivMod
<1>3. ASSUME a \div s = 0 PROVE FALSE
  <2>1. a % s = a - s * 0  BY <1>2, <1>3
  <2> QED  BY ONLY <1>1, <1>2, <2>1, s \in Nat
<1>4. a \div s # 0  BY <1>3
<1> QED  BY <1>4 DEF a

\* A multiple of s that is smaller than s in absolute value is zero.
LEMMA SmallMultiple ==
    ASSUME NEW q \in Int, NEW d \in Int, NEW s \in Nat, s > 0, d = s * q, -s < d, d < s
    PROVE  q = 0
OBVIOUS

\* The loop's i += step keeps i on the grid start, start + step, ...
LEMMA ModStep ==
    ASSUME NEW a \in Int, NEW s \in Nat, s > 0
    PROVE  (a + s) % s = a % s
<1>1. (a + s) \div s = a \div s + 1  OBVIOUS
<1>2. (a + s) % s = (a + s) - s * ((a + s) \div s)  BY DivMod
<1>3. a % s = a - s * (a \div s) /\ a \div s \in Int  BY DivMod
<1>4. s * (a \div s + 1) = s * (a \div s) + s  BY <1>3
<1> QED  BY <1>1, <1>2, <1>3, <1>4

\* No grid point lies strictly between two neighbours.
LEMMA ModGap ==
    ASSUME NEW a \in Int, NEW d \in Int, NEW s \in Nat, s > 0,
           a % s = 0, 0 < d, d < s
    PROVE  (a + d) % s # 0
<1> SUFFICES ASSUME (a + d) % s = 0 PROVE FALSE  OBVIOUS
<1> DEFINE q == (a + d) \div s - a \div s
<1>1. a \div s \in Int /\ a = s * (a \div s)  BY DivMod
<1>2. (a + d) \div s \in Int /\ a + d = s * ((a + d) \div s)  BY DivMod
<1>3. d = s * q  BY <1>1, <1>2
<1>4. q = 0  BY <1>1, <1>2, <1>3, SmallMultiple
<1> QED  BY <1>1, <1>2, <1>3, <1>4

\* ceil((x - s) / s) = ceil(x / s) - 1: one iteration lowers the count by one.
LEMMA CeilStep ==
    ASSUME NEW x \in Int, NEW s \in Nat, s > 0
    PROVE  x \div s = (x - s) \div s + 1
<1>1. (x - s) \in Int  OBVIOUS
<1>2. \A a \in Int : (a + s) \div s = a \div s + 1  OBVIOUS
<1>3. ((x - s) + s) \div s = (x - s) \div s + 1  BY <1>1, <1>2
<1> QED  BY <1>3

\* ceil of a positive number up to s is 1.
LEMMA CeilLast ==
    ASSUME NEW x \in Int, NEW s \in Nat, s > 0, 0 < x, x <= s
    PROVE  (x + s - 1) \div s = 1
<1> DEFINE q == (x + s - 1) \div s
           r == (x + s - 1) % s
<1>1. q \in Int /\ r \in Int /\ 0 <= r /\ r < s /\ r = (x + s - 1) - s * q  BY DivMod
<1>2. s * (q - 1) = s * q - s  BY <1>1
<1>3. q - 1 = 0  BY <1>1, <1>2, SmallMultiple
<1> QED  BY <1>1, <1>3

\* int64 arithmetic is exact on the values that fit.
LEMMA Int64Exact ==
    ASSUME NEW x \in Int64Range
    PROVE  Int64(x) = x
BY DEF Int64

-----------------------------------------------------------------------------
(* Array access: the bounds of a slice.                                    *)

\* What ResolveSliceBounds guarantees about its result.
BoundsOK(b, len) ==
    /\ b \in SliceBounds
    /\ b.Step \in JSONInteger \cup {1}
    /\ b.Step # 0
    /\ b.Step > 0 => /\ b.Start \in 0 .. (MaxLen + MaxJSONInteger)
                     /\ b.End \in (-MaxJSONInteger) .. len
    /\ b.Step < 0 => /\ b.Start \in (-MaxJSONInteger) .. (len - 1)
                     /\ b.End \in -1 .. len

\* The indexes of the array the loop has visited when it stands at k.
Visited(b, len, k) ==
    IF b.Step > 0
    THEN {j \in 0 .. len - 1 : b.Start <= j /\ j < b.End /\ j < k /\ (j - b.Start) % b.Step = 0}
    ELSE {j \in 0 .. len - 1 : b.End < j /\ j <= b.Start /\ k < j /\ (b.Start - j) % (-b.Step) = 0}

\* Nothing wraps while the bounds are computed.
LEMMA ResolveOK ==
    ASSUME NEW a \in SliceArgs, NEW len \in 0 .. MaxLen,
           ResolveSliceBounds(a, len).ok
    PROVE  /\ BoundsOK(ResolveSliceBounds(a, len).b, len)
           /\ len > 0
           /\ ResolveSliceBounds(a, len).b.Step = StepOf(a)
<1> DEFINE step  == StepOf(a)
           first == IF a.HasStart THEN a.Start ELSE DefaultStart(step, len)
           end   == IF a.HasEnd THEN a.End ELSE DefaultEnd(step, len)
           ns    == NormalizeSliceStart(first, step, len)
           ne    == NormalizeSliceEnd(end, step, len)
           b     == ResolveSliceBounds(a, len).b
<1>1. len # 0 /\ step # 0 /\ b = [Start |-> ns, End |-> ne, Step |-> step]
  BY DEF ResolveSliceBounds
<1>2. len \in Nat /\ len <= MaxLen /\ MaxLen \in Nat /\ MaxJSONInteger \in Nat /\ 1 <= MaxJSONInteger
  BY WidthAssumption
<1>3. step \in Int /\ -MaxJSONInteger <= step /\ step <= MaxJSONInteger
  BY <1>2 DEF StepOf, SliceArgs, JSONInteger
<1>4. /\ first \in Int /\ end \in Int
      /\ a.HasStart => -MaxJSONInteger <= first /\ first <= MaxJSONInteger
      /\ ~a.HasStart => first = DefaultStart(step, len)
      /\ a.HasEnd => -MaxJSONInteger <= end /\ end <= MaxJSONInteger
      /\ ~a.HasEnd => end = DefaultEnd(step, len)
  BY <1>2, <1>3 DEF SliceArgs, JSONInteger, DefaultStart, DefaultEnd
<1>5. /\ first < 0 => Int64(first + len) = first + len
      /\ end < 0 => Int64(end + len) = end + len
  BY <1>2, <1>3, <1>4, WidthAssumption, Int64Exact DEF Int64Range, DefaultStart, DefaultEnd
<1>6. /\ ns \in Int
      /\ step > 0 => ns \in 0 .. (MaxLen + MaxJSONInteger)
      /\ step < 0 => ns \in (-MaxJSONInteger) .. (len - 1)
  <2> HIDE DEF first, end, step
  <2> QED  BY <1>1, <1>2, <1>3, <1>4, <1>5 DEF NormalizeSliceStart, DefaultStart
<1>7. /\ ne \in Int
      /\ step > 0 => ne \in (-MaxJSONInteger) .. len
      /\ step < 0 => ne \in -1 .. len
  <2> HIDE DEF first, end, step
  <2> QED  BY <1>1, <1>2, <1>3, <1>4, <1>5 DEF NormalizeSliceEnd, DefaultEnd
<1> HIDE DEF ns, ne, step, first, end, b
<1>8. b.Start = ns /\ b.End = ne /\ b.Step = step /\ b \in SliceBounds
  BY <1>1, <1>3, <1>6, <1>7 DEF SliceBounds
<1>9. BoundsOK(b, len)
  BY <1>1, <1>2, <1>3, <1>6, <1>7, <1>8 DEF BoundsOK, JSONInteger
<1> QED  BY <1>1, <1>2, <1>8, <1>9 DEF b, step

\* When the loop has passed its end bound it has visited RFC 9535's slice,
\* although a start beyond the array is left unclamped.
LEMMA ResolveMatchesRFC ==
    ASSUME NEW a \in SliceArgs, NEW len \in 0 .. MaxLen, NEW k \in Int,
           ResolveSliceBounds(a, len).ok,
           ~InSlice(ResolveSliceBounds(a, len).b, k)
    PROVE  Visited(ResolveSliceBounds(a, len).b, len, k) = RFCSlice(a, len)
<1> DEFINE step  == StepOf(a)
           first == IF a.HasStart THEN a.Start ELSE DefaultStart(step, len)
           end   == IF a.HasEnd THEN a.End ELSE DefaultEnd(step, len)
           ns    == NormalizeSliceStart(first, step, len)
           ne    == NormalizeSliceEnd(end, step, len)
           rs    == RFCNormalize(first, len)
           re    == RFCNormalize(end, len)
           b     == ResolveSliceBounds(a, len).b
<1>1. len # 0 /\ step # 0 /\ b = [Start |-> ns, End |-> ne, Step |-> step]
  BY DEF ResolveSliceBounds
<1>2. len \in Nat /\ len <= MaxLen /\ MaxLen \in Nat /\ MaxJSONInteger \in Nat /\ 1 <= MaxJSONInteger
  BY WidthAssumption
<1>3. step \in Int /\ -MaxJSONInteger <= step /\ step <= MaxJSONInteger
  BY <1>2 DEF StepOf, SliceArgs, JSONInteger
<1>4. /\ first \in Int /\ end \in Int
      /\ -MaxJSONInteger - len - 1 <= first /\ first <= MaxJSONInteger + len
      /\ -MaxJSONInteger - len - 1 <= end /\ end <= MaxJSONInteger + len
  BY <1>2, <1>3 DEF SliceArgs, JSONInteger, DefaultStart, DefaultEnd
<1>5. /\ first < 0 => Int64(first + len) = first + len
      /\ end < 0 => Int64(end + len) = end + len
  BY <1>2, <1>3, <1>4, WidthAssumption, Int64Exact DEF Int64Range
<1>6. RFCSlice(a, len) =
        IF step > 0
        THEN {j \in 0 .. len - 1 : RFCClamp(0, len, rs) <= j /\ j < RFCClamp(0, len, re)
                                    /\ (j - RFCClamp(0, len, rs)) % step = 0}
        ELSE {j \in 0 .. len - 1 : RFCClamp(-1, len - 1, re) < j /\ j <= RFCClamp(-1, len - 1, rs)
                                    /\ (RFCClamp(-1, len - 1, rs) - j) % (-step) = 0}
  <2>1. RFCStart(a, len) = first /\ RFCEnd(a, len) = end
    BY <1>1, <1>3 DEF RFCStart, RFCEnd, DefaultStart, DefaultEnd
  <2> HIDE DEF first, end
  <2> QED  BY <1>1, <2>1 DEF RFCSlice
<1>7. b.Start = ns /\ b.End = ne /\ b.Step = step  BY <1>1
<1> HIDE DEF step, first, end, ns, ne, rs, re, b
<1>8. CASE step > 0
  <2>1. ns \in Int /\ ne \in Int  BY <1>2, <1>3, <1>4, <1>5 DEF ns, ne, NormalizeSliceStart, NormalizeSliceEnd
  <2>2. ns = RFCClamp(0, len, rs) \/ (ns >= len /\ RFCClamp(0, len, rs) = len)
    BY <1>2, <1>3, <1>4, <1>5, <1>8 DEF ns, rs, NormalizeSliceStart, RFCClamp, RFCNormalize
  <2>3. \A j \in 0 .. len - 1 : j < ne <=> j < RFCClamp(0, len, re)
    BY <1>2, <1>3, <1>4, <1>5, <1>8 DEF ne, re, NormalizeSliceEnd, RFCClamp, RFCNormalize
  <2>4. k >= ne  BY <1>7, <1>8, <2>1 DEF InSlice, b
  <2>5. Visited(b, len, k) =
          {j \in 0 .. len - 1 : ns <= j /\ j < ne /\ j < k /\ (j - ns) % step = 0}
    BY <1>7, <1>8 DEF Visited
  <2>6. CASE ns = RFCClamp(0, len, rs)
    <3>1. \A j \in 0 .. len - 1 : j < ne => j < k  BY <2>1, <2>4
    <3> QED  BY <1>6, <1>8, <2>3, <2>5, <2>6, <3>1 DEF b
  <2>7. CASE ns >= len /\ RFCClamp(0, len, rs) = len
    <3>1. \A j \in 0 .. len - 1 : ~(ns <= j) /\ ~(RFCClamp(0, len, rs) <= j)  BY <1>2, <2>1, <2>7
    <3> QED  BY <1>6, <1>8, <2>5, <3>1 DEF b
  <2> QED  BY <2>2, <2>6, <2>7
<1>9. CASE step < 0
  <2>1. ns \in Int /\ ne \in Int  BY <1>2, <1>3, <1>4, <1>5 DEF ns, ne, NormalizeSliceStart, NormalizeSliceEnd
  <2>2. ns = RFCClamp(-1, len - 1, rs) \/ (ns < 0 /\ RFCClamp(-1, len - 1, rs) = -1)
    BY <1>1, <1>2, <1>3, <1>4, <1>5, <1>9 DEF ns, rs, NormalizeSliceStart, RFCClamp, RFCNormalize
  <2>3. \A j \in 0 .. len - 1 : ne < j <=> RFCClamp(-1, len - 1, re) < j
    BY <1>1, <1>2, <1>3, <1>4, <1>5, <1>9 DEF ne, re, NormalizeSliceEnd, RFCClamp, RFCNormalize
  <2>4. k <= ne  BY <1>3, <1>7, <1>9, <2>1 DEF InSlice, b
  <2>5. Visited(b, len, k) =
          {j \in 0 .. len - 1 : ne < j /\ j <= ns /\ k < j /\ (ns - j) % (-step) = 0}
    BY <1>3, <1>7, <1>9 DEF Visited
  <2>6. CASE ns = RFCClamp(-1, len - 1, rs)
    <3>1. \A j \in 0 .. len - 1 : ne < j => k < j  BY <2>1, <2>4
    <3>2. ~(step > 0)  BY <1>3, <1>9
    <3> QED  BY <1>6, <3>2, <2>3, <2>5, <2>6, <3>1 DEF b
  <2>7. CASE ns < 0 /\ RFCClamp(-1, len - 1, rs) = -1
    <3>1. \A j \in 0 .. len - 1 : ~(j <= ns) /\ ~(j <= RFCClamp(-1, len - 1, rs))  BY <1>2, <2>1, <2>7
    <3>2. ~(step > 0)  BY <1>3, <1>9
    <3> QED  BY <1>6, <3>2, <2>5, <3>1 DEF b
  <2> QED  BY <2>2, <2>6, <2>7
<1> QED  BY <1>1, <1>3, <1>8, <1>9 DEF b

-----------------------------------------------------------------------------
(* Array access: one iteration of the slice loop.                          *)

\* k is on the grid of the slice, not before its start.
OnGrid(b, k) ==
    /\ k \in Int
    /\ b.Step > 0 => b.Start <= k /\ (k - b.Start) % b.Step = 0
    /\ b.Step < 0 => k <= b.Start /\ (b.Start - k) % (-b.Step) = 0

\* What Count would return for the iterations still to come.
CountFrom(b, k) == Count([b EXCEPT !.Start = k])

\* A loop at k inside the slice reads inside the array, and its step goes
\* from one grid point to the next without overflow.
LEMMA VisitStep ==
    ASSUME NEW len \in 1 .. MaxLen, NEW b, BoundsOK(b, len), NEW k,
           OnGrid(b, k), InSlice(b, k)
    PROVE  /\ k \in 0 .. len - 1
           /\ Int64(k + b.Step) = k + b.Step
           /\ OnGrid(b, k + b.Step)
           /\ Visited(b, len, k + b.Step) = Visited(b, len, k) \cup {k}
           /\ \A j \in Visited(b, len, k) : IF b.Step > 0 THEN j < k ELSE j > k
<1> DEFINE s == b.Step
           d == -b.Step
<1>1. /\ len \in Nat /\ 0 < len /\ len <= MaxLen /\ MaxLen \in Nat
      /\ MaxJSONInteger \in Nat /\ 1 <= MaxJSONInteger /\ MaxInt64 \in Nat
      /\ MaxLen + 2 * MaxJSONInteger < MaxInt64
  BY WidthAssumption
<1>2. /\ s \in Int /\ s # 0 /\ -MaxJSONInteger <= s /\ s <= MaxJSONInteger
      /\ b.Start \in Int /\ b.End \in Int /\ k \in Int
  BY <1>1 DEF BoundsOK, SliceBounds, JSONInteger, OnGrid
<1>3. k \in 0 .. len - 1
  BY <1>1, <1>2 DEF BoundsOK, OnGrid, InSlice
<1>4. Int64(k + s) = k + s
  <2>1. k + s \in Int64Range  BY <1>1, <1>2, <1>3 DEF Int64Range
  <2> QED  BY <2>1, Int64Exact
<1>5. CASE s > 0
  <2>1. s \in Nat /\ b.Start <= k /\ k < b.End /\ (k - b.Start) % s = 0
    BY <1>2, <1>5 DEF OnGrid, InSlice
  <2>2. ((k - b.Start) + s) % s = 0  BY <1>2, <2>1, <1>5, ModStep
  <2>3. (k + s) - b.Start = (k - b.Start) + s  BY <1>2
  <2>4. OnGrid(b, k + s)  BY <1>2, <1>5, <2>1, <2>2, <2>3 DEF OnGrid
  <2>5. ASSUME NEW j \in 0 .. len - 1, k < j, j < k + s
        PROVE  (j - b.Start) % s # 0
    <3>0. k - b.Start \in Int /\ j - k \in Int /\ 0 < j - k /\ j - k < s  BY <1>1, <1>2, <2>5
    <3>1. ((k - b.Start) + (j - k)) % s # 0  BY <2>1, <3>0, <1>5, ModGap
    <3>2. (k - b.Start) + (j - k) = j - b.Start  BY <1>2
    <3> QED  BY <3>1, <3>2
  <2> DEFINE P(j) == b.Start <= j /\ j < b.End /\ (j - b.Start) % s = 0
  <2>6. \A m : Visited(b, len, m) = {j \in 0 .. len - 1 : P(j) /\ j < m}
    BY <1>5 DEF Visited
  <2>7. P(k)  BY <2>1
  <2>8. \A j \in 0 .. len - 1 : P(j) /\ j < k + s => j < k \/ j = k
    BY <1>2, <2>5
  <2>9. \A j \in 0 .. len - 1 : j < k => j < k + s  BY <1>2, <1>5
  <2>10. k < k + s  BY <1>2, <1>5
  <2> HIDE DEF P
  <2>11. Visited(b, len, k + s) = Visited(b, len, k) \cup {k}
    BY <1>3, <2>6, <2>7, <2>8, <2>9, <2>10
  <2> QED  BY <1>3, <1>4, <1>5, <2>4, <2>6, <2>11
<1>6. CASE s < 0
  <2>1. d \in Nat /\ d > 0 /\ k <= b.Start /\ b.End < k /\ (b.Start - k) % d = 0
    BY <1>2, <1>6 DEF OnGrid, InSlice
  <2>2. ((b.Start - k) + d) % d = 0  BY <1>2, <2>1, ModStep
  <2>3. b.Start - (k + s) = (b.Start - k) + d  BY <1>2
  <2>4. OnGrid(b, k + s)  BY <1>2, <1>6, <2>1, <2>2, <2>3 DEF OnGrid
  <2>5. ASSUME NEW j \in 0 .. len - 1, j < k, k + s < j
        PROVE  (b.Start - j) % d # 0
    <3>0. b.Start - k \in Int /\ k - j \in Int /\ 0 < k - j /\ k - j < d  BY <1>1, <1>2, <2>5
    <3>1. ((b.Start - k) + (k - j)) % d # 0  BY <2>1, <3>0, ModGap
    <3>2. (b.Start - k) + (k - j) = b.Start - j  BY <1>2
    <3> QED  BY <3>1, <3>2
  <2> DEFINE P(j) == b.End < j /\ j <= b.Start /\ (b.Start - j) % d = 0
  <2>6. \A m : Visited(b, len, m) = {j \in 0 .. len - 1 : P(j) /\ m < j}
    BY <1>2, <1>6 DEF Visited
  <2>7. P(k)  BY <2>1
  <2>8. \A j \in 0 .. len - 1 : P(j) /\ k + s < j => k < j \/ j = k
    BY <1>2, <2>5
  <2>9. \A j \in 0 .. len - 1 : k < j => k + s < j  BY <1>2, <1>6
  <2>10. k + s < k  BY <1>2, <1>6
  <2> HIDE DEF P
  <2>11. Visited(b, len, k + s) = Visited(b, len, k) \cup {k}
    BY <1>3, <2>6, <2>7, <2>8, <2>9, <2>10
  <2>12. \A j \in Visited(b, len, k) : j > k  BY <1>2, <2>6
  <2>13. ~(b.Step > 0)  BY <1>2, <1>6
  <2> QED  BY <1>3, <1>4, <2>4, <2>11, <2>12, <2>13
<1> QED  BY <1>2, <1>5, <1>6

\* The count of the remaining iterations drops by one with each of them and is
\* zero when the loop condition fails.
LEMMA CountStep ==
    ASSUME NEW len \in 1 .. MaxLen, NEW b, BoundsOK(b, len), NEW k, OnGrid(b, k),
           -MaxJSONInteger - 1 <= k, k <= MaxLen + MaxJSONInteger
    PROVE  /\ ~InSlice(b, k) => CountFrom(b, k) = 0
           /\ InSlice(b, k) => CountFrom(b, k) = CountFrom(b, k + b.Step) + 1
<1>1. /\ len \in Nat /\ 0 < len /\ len <= MaxLen /\ MaxLen \in Nat
      /\ MaxJSONInteger \in Nat /\ 1 <= MaxJSONInteger /\ MaxInt64 \in Nat
      /\ MaxLen + 2 * MaxJSONInteger < MaxInt64
  BY WidthAssumption
<1>2. /\ b.Step \in Int /\ b.Step # 0 /\ -MaxJSONInteger <= b.Step /\ b.Step <= MaxJSONInteger
      /\ b.Start \in Int /\ b.End \in Int /\ k \in Int
  BY <1>1 DEF BoundsOK, SliceBounds, JSONInteger, OnGrid
<1>3. \A m : /\ [b EXCEPT !.Start = m].Start = m
              /\ [b EXCEPT !.Start = m].End = b.End
              /\ [b EXCEPT !.Start = m].Step = b.Step
  BY DEF BoundsOK, SliceBounds
<1>4. CASE b.Step > 0
  <2> DEFINE s == b.Step
  <2>0. s \in Nat /\ s > 0  BY <1>2, <1>4
  <2>1. \A m : CountFrom(b, m) = IF b.End <= m THEN 0
                                 ELSE Int64(b.End - m + s - 1) \div s
    BY <1>3, <1>4 DEF CountFrom, Count
  <2>2. CASE k < b.End
    <3>1. 0 <= k /\ b.End <= len  BY <1>1, <1>2, <1>4 DEF BoundsOK, OnGrid
    <3>2. b.End - k + s - 1 \in Int64Range /\ b.End - k - 1 \in Int64Range
      BY <1>1, <1>2, <2>2, <3>1, <1>4 DEF Int64Range
    <3>3. CountFrom(b, k) = (b.End - k + s - 1) \div s
      BY <1>2, <2>1, <2>2, <3>2, Int64Exact
    <3>4. CASE k + s < b.End
      <4>1. b.End - (k + s) + s - 1 = b.End - k - 1  BY <1>2
      <4>2. CountFrom(b, k + s) = (b.End - k - 1) \div s
        BY <1>2, <2>1, <3>2, <3>4, <4>1, Int64Exact
      <4>3. (b.End - k + s - 1) - s = b.End - k - 1 /\ b.End - k + s - 1 \in Int  BY <1>2
      <4> QED  BY <2>0, <2>2, <3>3, <4>2, <4>3, CeilStep DEF InSlice
    <3>5. CASE ~(k + s < b.End)
      <4>1. CountFrom(b, k + s) = 0  BY <1>2, <2>1, <3>5
      <4>2. b.End - k \in Int /\ 0 < b.End - k /\ b.End - k <= s  BY <1>2, <2>2, <3>5
      <4>3. ((b.End - k) + s - 1) \div s = 1  BY <2>0, <4>2, CeilLast
      <4> QED  BY <1>2, <1>4, <2>2, <3>3, <4>1, <4>3 DEF InSlice
    <3> QED  BY <3>4, <3>5
  <2>3. CASE ~(k < b.End)
    BY <1>2, <1>4, <2>1, <2>3 DEF InSlice
  <2> QED  BY <2>2, <2>3
<1>5. CASE b.Step < 0
  <2> DEFINE s == -b.Step
  <2>0. s \in Nat /\ s > 0 /\ k + b.Step = k - s /\ ~(b.Step > 0)  BY <1>2, <1>5
  <2>1. \A m : CountFrom(b, m) = IF m <= b.End THEN 0
                                 ELSE Int64(m - b.End - b.Step - 1) \div s
    BY <1>3, <2>0 DEF CountFrom, Count
  <2>2. CASE b.End < k
    <3>1. k <= len /\ -1 <= b.End  BY <1>1, <1>2, <1>5 DEF BoundsOK, OnGrid
    <3>2. k - b.End + s - 1 \in Int64Range /\ k - b.End - 1 \in Int64Range
      BY <1>1, <1>2, <2>2, <3>1, <1>5 DEF Int64Range
    <3>3. CountFrom(b, k) = (k - b.End + s - 1) \div s
      <4>1. k - b.End - b.Step - 1 = k - b.End + s - 1  BY <1>2
      <4> QED  BY <1>2, <2>1, <2>2, <3>2, <4>1, Int64Exact
    <3>4. CASE b.End < k - s
      <4>1. (k - s) - b.End - b.Step - 1 = k - b.End - 1  BY <1>2
      <4>2. CountFrom(b, k - s) = (k - b.End - 1) \div s
        BY <1>2, <2>0, <2>1, <3>2, <3>4, <4>1, Int64Exact
      <4>3. (k - b.End + s - 1) - s = k - b.End - 1 /\ k - b.End + s - 1 \in Int  BY <1>2
      <4>4. CountFrom(b, k) = CountFrom(b, k - s) + 1
        BY <2>0, <3>3, <4>2, <4>3, CeilStep
      <4> QED  BY <2>0, <2>2, <4>4 DEF InSlice
    <3>5. CASE ~(b.End < k - s)
      <4>1. CountFrom(b, k - s) = 0  BY <1>2, <2>0, <2>1, <3>5
      <4>2. k - b.End \in Int /\ 0 < k - b.End /\ k - b.End <= s  BY <1>2, <2>0, <2>2, <3>5
      <4>3. ((k - b.End) + s - 1) \div s = 1  BY <2>0, <4>2, CeilLast
      <4>4. CountFrom(b, k) = CountFrom(b, k - s) + 1  BY <3>3, <4>1, <4>3
      <4> QED  BY <1>2, <2>0, <2>2, <4>4 DEF InSlice
    <3> QED  BY <3>4, <3>5
  <2>3. CASE ~(b.End < k)
    BY <1>2, <2>0, <2>1, <2>3 DEF InSlice
  <2> QED  BY <2>2, <2>3
<1> QED  BY <1>2, <1>4, <1>5

-----------------------------------------------------------------------------
(* Array access: the inductive invariant.                                  *)

OutSet == {indexes[k] : k \in 1 .. Len(indexes)}

InOrder ==
    \A j, k \in 1 .. Len(indexes) :
        j < k => IF StepOf(args) > 0 THEN indexes[j] < indexes[k] ELSE indexes[j] > indexes[k]

\* While the loop runs, indexes is the part of the slice before i, in order, and
\* what is left to visit completes the count.
LoopInv ==
    phase = "loop" =>
        /\ kind = "slice"
        /\ ResolveSliceBounds(args, length).ok
        /\ bounds = ResolveSliceBounds(args, length).b
        /\ OnGrid(bounds, i)
        /\ -MaxJSONInteger - 1 <= i /\ i <= MaxLen + MaxJSONInteger
        /\ OutSet = Visited(bounds, length, i)
        /\ InOrder
        /\ Len(indexes) + CountFrom(bounds, i) = Count(bounds)

StartInv == phase = "start" => indexes = <<>>

AccessInv == AccessTypeOK /\ IndexInArray /\ StartInv /\ LoopInv /\ MatchesRFC /\ CountExact

\* Nothing has been visited at first.
LEMMA AccessInitInv == AccessInit => AccessInv
<1> SUFFICES ASSUME AccessInit PROVE AccessInv  OBVIOUS
<1>1. AccessTypeOK
  BY WidthAssumption DEF AccessInit, AccessTypeOK, WellFormedArgs, NoBounds, SliceBounds, Int64Range
<1> QED  BY <1>1 DEF AccessInit, AccessInv, IndexInArray, StartInv, LoopInv, MatchesRFC, CountExact

\* An index selector visits the index it normalizes to, or none.
LEMMA SelectIndexInv == AccessInv /\ SelectIndex => AccessInv'
<1> SUFFICES ASSUME AccessInv, SelectIndex PROVE AccessInv'  OBVIOUS
<1> DEFINE n == NormalizeIndex(args.Start, length)
<1>1. /\ args \in SliceArgs /\ length \in Nat /\ length <= MaxLen /\ args.Start \in Int
      /\ -MaxJSONInteger <= args.Start /\ args.Start <= MaxJSONInteger
  BY WidthAssumption DEF AccessInv, AccessTypeOK, SliceArgs, JSONInteger
<1>2. args.Start < 0 => Int64(args.Start + length) = args.Start + length
  BY <1>1, WidthAssumption, Int64Exact DEF Int64Range
<1>3. /\ n.ok => /\ n.idx \in Int /\ 0 <= n.idx /\ n.idx < length
                 /\ n.idx = RFCNormalize(args.Start, length)
      /\ ~n.ok => RFCIndex(args.Start, length) = {}
  BY <1>1, <1>2 DEF NormalizeIndex, RFCNormalize, RFCIndex
<1>4. n.ok => RFCIndex(args.Start, length) = {n.idx}
  BY <1>1, <1>3 DEF RFCIndex
<1> HIDE DEF n
<1>5. /\ indexes' = IF n.ok THEN <<n.idx>> ELSE <<>>
      /\ phase' = "done" /\ kind = "index" /\ kind' = kind /\ args' = args /\ length' = length
      /\ bounds' = bounds /\ i' = i
  BY DEF SelectIndex, n
<1>6. AccessTypeOK'  BY <1>3, <1>5 DEF AccessInv, AccessTypeOK
<1>7. IndexInArray'  BY <1>3, <1>5 DEF IndexInArray
<1>8. MatchesRFC'
  <2>1. CASE n.ok
    <3>1. indexes' = <<n.idx>> /\ Len(indexes') = 1 /\ indexes'[1] = n.idx  BY <1>5, <2>1
    <3>2. {indexes'[k] : k \in 1 .. Len(indexes')} = {n.idx}  BY <3>1
    <3> QED  BY <1>4, <1>5, <2>1, <3>1, <3>2 DEF MatchesRFC
  <2>2. CASE ~n.ok
    <3>1. indexes' = <<>> /\ {indexes'[k] : k \in 1 .. Len(indexes')} = {}  BY <1>5, <2>2
    <3> QED  BY <1>3, <1>5, <2>2, <3>1 DEF MatchesRFC
  <2> QED  BY <2>1, <2>2
<1> QED  BY <1>5, <1>6, <1>7, <1>8 DEF AccessInv, StartInv, LoopInv, CountExact

\* A slice starts at its first index, with the count of all of them.
LEMMA ResolveInv == AccessInv /\ Resolve => AccessInv'
<1> SUFFICES ASSUME AccessInv, Resolve PROVE AccessInv'  OBVIOUS
<1> DEFINE r == ResolveSliceBounds(args, length)
<1>1. args \in SliceArgs /\ length \in 0 .. MaxLen /\ length \in Nat
  BY WidthAssumption DEF AccessInv, AccessTypeOK
<1>2. /\ indexes = <<>> /\ indexes' = indexes /\ kind = "slice" /\ kind' = kind
      /\ args' = args /\ length' = length /\ Len(indexes) = 0
  BY DEF Resolve, AccessInv, StartInv
<1>3. r.ok => /\ BoundsOK(r.b, length) /\ length \in 1 .. MaxLen /\ r.b.Step = StepOf(args)
              /\ r.b \in SliceBounds /\ r.b.Start \in Int /\ r.b.Step \in Int /\ r.b.Step # 0
  BY <1>1, ResolveOK DEF BoundsOK, SliceBounds
<1>4. r.ok => /\ OnGrid(r.b, r.b.Start)
              /\ -MaxJSONInteger - 1 <= r.b.Start /\ r.b.Start <= MaxLen + MaxJSONInteger
              /\ r.b.Start \in Int64Range
  <2> SUFFICES ASSUME r.ok PROVE /\ OnGrid(r.b, r.b.Start)
              /\ -MaxJSONInteger - 1 <= r.b.Start /\ r.b.Start <= MaxLen + MaxJSONInteger
              /\ r.b.Start \in Int64Range
    OBVIOUS
  <2> HIDE DEF r
  <2>1. -MaxJSONInteger - 1 <= r.b.Start /\ r.b.Start <= MaxLen + MaxJSONInteger
    BY <1>1, <1>3, WidthAssumption DEF BoundsOK
  <2>2. r.b.Start \in Int64Range  BY <1>3, <2>1, WidthAssumption DEF Int64Range
  <2>3. r.b.Start - r.b.Start = 0  BY <1>3
  <2>4. r.b.Step > 0 => 0 % r.b.Step = 0
    <3> SUFFICES ASSUME r.b.Step > 0 PROVE 0 % r.b.Step = 0  OBVIOUS
    <3>1. r.b.Step \in Nat  BY <1>3
    <3> QED  BY <3>1
  <2>5. r.b.Step < 0 => 0 % (-r.b.Step) = 0
    <3> SUFFICES ASSUME r.b.Step < 0 PROVE 0 % (-r.b.Step) = 0  OBVIOUS
    <3>1. -r.b.Step \in Nat /\ -r.b.Step > 0  BY <1>3
    <3> QED  BY <3>1
  <2> QED  BY <1>3, <2>1, <2>2, <2>3, <2>4, <2>5 DEF OnGrid
<1>5. r.ok => [r.b EXCEPT !.Start = r.b.Start] = r.b
  BY <1>3 DEF SliceBounds
<1> HIDE DEF r
<1>6. CASE r.ok /\ Count(r.b) # 0
  <2>1. bounds' = r.b /\ i' = r.b.Start /\ phase' = "loop"  BY <1>6 DEF Resolve, r
  <2>2. AccessTypeOK'  BY <1>2, <1>3, <1>4, <1>6, <2>1 DEF AccessInv, AccessTypeOK
  <2>3. OutSet' = {}  BY <1>2 DEF OutSet
  <2>4. Visited(r.b, length, r.b.Start) = {}
    BY <1>1, <1>3, <1>6 DEF Visited
  <2>5. InOrder'  BY <1>2 DEF InOrder
  <2>6. Count(r.b) \in Int /\ CountFrom(r.b, r.b.Start) = Count(r.b)
    <3>1. CountFrom(r.b, r.b.Start) = Count(r.b)  BY <1>5, <1>6 DEF CountFrom
    <3>2. InSlice(r.b, r.b.Start)
      BY <1>3, <1>4, <1>6, <3>1, CountStep
    <3>3. CASE r.b.Step > 0
      <4> DEFINE x == r.b.End - r.b.Start + r.b.Step - 1
      <4>1. /\ x \in Int64Range /\ x \in Int /\ r.b.Step \in Nat
            /\ r.b.End \in Int /\ ~(r.b.End <= r.b.Start)
        BY <1>1, <1>3, <1>6, <3>2, <3>3, WidthAssumption DEF BoundsOK, InSlice, Int64Range, JSONInteger
      <4>2. Count(r.b) = x \div r.b.Step  BY <3>3, <4>1, Int64Exact DEF Count
      <4> HIDE DEF x
      <4> QED  BY <3>1, <3>3, <4>1, <4>2, DivMod
    <3>4. CASE r.b.Step < 0
      <4> DEFINE x == r.b.Start - r.b.End - r.b.Step - 1
                 s == -r.b.Step
      <4>1. /\ x \in Int64Range /\ x \in Int /\ s \in Nat /\ s > 0
            /\ r.b.End \in Int /\ ~(r.b.Start <= r.b.End) /\ ~(r.b.Step > 0)
        BY <1>1, <1>3, <1>6, <3>2, <3>4, WidthAssumption DEF BoundsOK, InSlice, Int64Range, JSONInteger
      <4>2. Count(r.b) = x \div s  BY <4>1, Int64Exact DEF Count
      <4> HIDE DEF x, s
      <4> QED  BY <3>1, <4>1, <4>2, DivMod
    <3> QED  BY <1>3, <1>6, <3>3, <3>4
  <2>7. LoopInv'
    BY <1>2, <1>3, <1>4, <1>6, <2>1, <2>3, <2>4, <2>5, <2>6 DEF LoopInv, r
  <2> QED  BY <1>2, <2>1, <2>2, <2>7 DEF AccessInv, IndexInArray, StartInv, MatchesRFC, CountExact
<1>7. CASE ~(r.ok /\ Count(r.b) # 0)
  <2>1. phase' = "done" /\ bounds' = bounds /\ i' = i  BY <1>7 DEF Resolve, r
  <2>2. AccessTypeOK'  BY <1>2, <2>1 DEF AccessInv, AccessTypeOK
  <2>3. {indexes'[k] : k \in 1 .. Len(indexes')} = {}  BY <1>2
  <2>4. RFCSlice(args, length) = {}
    <3>1. CASE ~r.ok
      <4>1. length = 0 \/ StepOf(args) = 0  BY <3>1 DEF r, ResolveSliceBounds
      <4> QED  BY <1>1, <4>1 DEF RFCSlice
    <3>2. CASE r.ok /\ Count(r.b) = 0
      <4>1. CountFrom(r.b, r.b.Start) = 0  BY <1>5, <3>2 DEF CountFrom
      <4>2. ~InSlice(r.b, r.b.Start)
        <5> SUFFICES ASSUME InSlice(r.b, r.b.Start) PROVE FALSE  OBVIOUS
        <5>1. CASE r.b.Step > 0
          <6> DEFINE x == r.b.End - r.b.Start
                     s == r.b.Step
          <6>1. /\ x \in Int /\ x > 0 /\ s \in Nat /\ s > 0 /\ x + s - 1 \in Int64Range
                /\ ~(r.b.End <= r.b.Start) /\ r.b.End - r.b.Start + r.b.Step - 1 = x + s - 1
            BY <1>1, <1>3, <3>2, <5>1, WidthAssumption DEF BoundsOK, InSlice, Int64Range, JSONInteger
          <6>2. (x + s - 1) \div s = 0  BY <3>2, <5>1, <6>1, Int64Exact DEF Count
          <6> HIDE DEF x, s
          <6> QED  BY <6>1, <6>2, RoundUpPositive
        <5>2. CASE r.b.Step < 0
          <6> DEFINE x == r.b.Start - r.b.End
                     s == -r.b.Step
          <6>1. /\ x \in Int /\ x > 0 /\ s \in Nat /\ s > 0 /\ x + s - 1 \in Int64Range
                /\ ~(r.b.Start <= r.b.End) /\ ~(r.b.Step > 0)
                /\ r.b.Start - r.b.End - r.b.Step - 1 = x + s - 1
            BY <1>1, <1>3, <3>2, <5>2, WidthAssumption DEF BoundsOK, InSlice, Int64Range, JSONInteger
          <6>2. (x + s - 1) \div s = 0  BY <3>2, <6>1, Int64Exact DEF Count
          <6> HIDE DEF x, s
          <6> QED  BY <6>1, <6>2, RoundUpPositive
        <5> QED  BY <1>3, <3>2, <5>1, <5>2
      <4>3. Visited(r.b, length, r.b.Start) = {}
        BY <1>1, <1>3, <3>2 DEF Visited
      <4> QED  BY <1>1, <1>3, <3>2, <4>2, <4>3, ResolveMatchesRFC DEF r
    <3> QED  BY <1>7, <3>1, <3>2
  <2>5. MatchesRFC'  BY <1>2, <2>3, <2>4 DEF MatchesRFC
  <2>6. CountExact'  BY <1>2, <1>7 DEF CountExact, r
  <2> QED  BY <1>2, <2>1, <2>2, <2>5, <2>6 DEF AccessInv, IndexInArray, StartInv, LoopInv
<1> QED  BY <1>6, <1>7

\* One turn of the loop visits one index of the slice.
LEMMA VisitInv == AccessInv /\ Visit => AccessInv'
<1> SUFFICES ASSUME AccessInv, Visit PROVE AccessInv'  OBVIOUS
<1>1. /\ args \in SliceArgs /\ length \in 0 .. MaxLen /\ length \in Nat /\ indexes \in Seq(Int)
      /\ ResolveSliceBounds(args, length).ok /\ bounds = ResolveSliceBounds(args, length).b
      /\ OnGrid(bounds, i) /\ InSlice(bounds, i) /\ i \in Int
      /\ -MaxJSONInteger - 1 <= i /\ i <= MaxLen + MaxJSONInteger
      /\ OutSet = Visited(bounds, length, i) /\ InOrder
      /\ Len(indexes) + CountFrom(bounds, i) = Count(bounds)
  BY WidthAssumption DEF Visit, AccessInv, AccessTypeOK, LoopInv, OnGrid
<1>2. /\ indexes' = Append(indexes, i) /\ i' = Int64(i + bounds.Step) /\ phase = "loop" /\ phase' = phase
      /\ kind' = kind /\ args' = args /\ length' = length /\ bounds' = bounds
  BY DEF Visit
<1>3. /\ BoundsOK(bounds, length) /\ length \in 1 .. MaxLen /\ bounds.Step = StepOf(args)
      /\ bounds.Step \in Int /\ bounds.Step # 0
  BY <1>1, ResolveOK DEF BoundsOK, SliceBounds
<1>4. /\ i \in 0 .. length - 1
      /\ i' = i + bounds.Step
      /\ OnGrid(bounds, i')
      /\ Visited(bounds, length, i') = Visited(bounds, length, i) \cup {i}
      /\ \A j \in Visited(bounds, length, i) : IF bounds.Step > 0 THEN j < i ELSE j > i
  <2>1. /\ i \in 0 .. length - 1
        /\ Int64(i + bounds.Step) = i + bounds.Step
        /\ OnGrid(bounds, i + bounds.Step)
        /\ Visited(bounds, length, i + bounds.Step) = Visited(bounds, length, i) \cup {i}
        /\ \A j \in Visited(bounds, length, i) : IF bounds.Step > 0 THEN j < i ELSE j > i
    <3>1. BoundsOK(bounds, length) /\ length \in 1 .. MaxLen /\ OnGrid(bounds, i) /\ InSlice(bounds, i)
      BY <1>1, <1>3
    <3> QED  BY ONLY <3>1, VisitStep
  <2> QED  BY <1>2, <2>1
<1>5. /\ -MaxJSONInteger - 1 <= i' /\ i' <= MaxLen + MaxJSONInteger /\ i' \in Int64Range
  <2>1. /\ -MaxJSONInteger <= bounds.Step /\ bounds.Step <= MaxJSONInteger
        /\ MaxJSONInteger \in Nat /\ MaxLen \in Nat /\ MaxInt64 \in Nat
        /\ MaxLen + 2 * MaxJSONInteger < MaxInt64
    BY <1>3, WidthAssumption DEF BoundsOK, JSONInteger
  <2>2. 0 <= i /\ i < MaxLen  BY <1>1, <1>4, <2>1
  <2>3. i' \in Int /\ -MaxJSONInteger <= i' /\ i' < MaxLen + MaxJSONInteger
    BY <1>1, <1>3, <1>4, <2>1, <2>2
  <2> QED  BY <2>1, <2>3 DEF Int64Range
<1>6. /\ indexes' \in Seq(Int) /\ Len(indexes') = Len(indexes) + 1 /\ Len(indexes) \in Nat
      /\ \A k \in 1 .. Len(indexes) : indexes'[k] = indexes[k]
      /\ indexes'[Len(indexes) + 1] = i
  <2>1. indexes \in Seq(Int) /\ i \in Int /\ indexes' = Append(indexes, i)  BY <1>1, <1>2
  <2> QED  BY <2>1
<1>7. AccessTypeOK'  BY <1>2, <1>5, <1>6 DEF AccessInv, AccessTypeOK
<1>8. IndexInArray'
  <2>1. \A k \in 1 .. Len(indexes') : k \in 1 .. Len(indexes) \/ k = Len(indexes) + 1  BY <1>6
  <2> QED  BY <1>1, <1>2, <1>4, <1>6, <2>1 DEF AccessInv, IndexInArray
<1>9. OutSet' = OutSet \cup {i}
  <2>1. 1 .. Len(indexes') = (1 .. Len(indexes)) \cup {Len(indexes) + 1}  BY <1>6
  <2> QED  BY <1>6, <2>1 DEF OutSet
<1>10. InOrder'
  <2> SUFFICES ASSUME NEW j \in 1 .. Len(indexes'), NEW k \in 1 .. Len(indexes'), j < k
               PROVE  IF StepOf(args) > 0 THEN indexes'[j] < indexes'[k] ELSE indexes'[j] > indexes'[k]
    BY <1>2 DEF InOrder
  <2>1. j \in 1 .. Len(indexes)  BY <1>6
  <2>2. CASE k \in 1 .. Len(indexes)  BY <1>1, <1>6, <2>1, <2>2 DEF InOrder
  <2>3. CASE k = Len(indexes) + 1
    <3>1. indexes[j] \in Visited(bounds, length, i)  BY <1>1, <2>1 DEF OutSet
    <3> QED  BY <1>3, <1>4, <1>6, <2>1, <2>3, <3>1
  <2> QED  BY <1>6, <2>2, <2>3
<1>11. Len(indexes') + CountFrom(bounds, i') = Count(bounds)
  <2>1. CountFrom(bounds, i) = CountFrom(bounds, i + bounds.Step) + 1
    BY <1>1, <1>3, CountStep
  <2>2. CountFrom(bounds, i') \in Int
    <3>1. CASE ~InSlice(bounds, i')  BY <1>3, <1>4, <1>5, <3>1, CountStep
    <3>2. CASE InSlice(bounds, i')
      <4>1. i' \in 0 .. length - 1  BY <1>3, <1>4, <3>2, VisitStep
      <4>2. [bounds EXCEPT !.Start = i'] = [Start |-> i', End |-> bounds.End, Step |-> bounds.Step]
        BY <1>3 DEF BoundsOK, SliceBounds
      <4>3. CASE bounds.Step > 0
        <5> DEFINE x == bounds.End - i' + bounds.Step - 1
        <5>0. /\ bounds.End \in Int /\ bounds.End <= length /\ length <= MaxLen
              /\ length \in Int /\ MaxLen \in Int /\ bounds.Step \in Nat /\ MaxJSONInteger \in Int
              /\ bounds.Step <= MaxJSONInteger /\ i' \in Int /\ 0 <= i' /\ i' < bounds.End
          BY <1>1, <1>3, <3>2, <4>1, <4>3, WidthAssumption DEF BoundsOK, InSlice, JSONInteger
        <5>1. /\ x \in Int64Range /\ x \in Int /\ bounds.Step \in Nat /\ ~(bounds.End <= i')
          <6>1. x \in Int /\ 0 <= x /\ x < MaxLen + MaxJSONInteger
            BY <4>3, <5>0
          <6>2. x \in Int64Range  BY <6>1, WidthAssumption DEF Int64Range
          <6> QED  BY <1>3, <4>3, <5>0, <6>1, <6>2
        <5>2. CountFrom(bounds, i') = x \div bounds.Step
          BY <4>2, <4>3, <5>1, Int64Exact DEF CountFrom, Count
        <5> HIDE DEF x
        <5> QED  BY <4>3, <5>1, <5>2, DivMod
      <4>4. CASE bounds.Step < 0
        <5> DEFINE x == i' - bounds.End - bounds.Step - 1
                   s == -bounds.Step
        <5>1. /\ x \in Int64Range /\ x \in Int /\ s \in Nat /\ s > 0
              /\ ~(i' <= bounds.End) /\ ~(bounds.Step > 0)
          <6>1. /\ bounds.End \in Int /\ -1 <= bounds.End /\ i' < length /\ length <= MaxLen
                /\ -MaxJSONInteger <= bounds.Step /\ i' \in Int /\ bounds.End < i'
                /\ bounds.Step \in Int /\ bounds.Step < 0 /\ length \in Int
            BY <1>1, <1>3, <3>2, <4>1, <4>4, WidthAssumption DEF BoundsOK, InSlice, JSONInteger
          <6>2. x \in Int /\ 0 <= x /\ x < MaxLen + MaxJSONInteger + 1
            BY ONLY <6>1, WidthAssumption
          <6>3. x \in Int64Range  BY <6>2, WidthAssumption DEF Int64Range
          <6> QED  BY <1>3, <4>4, <6>1, <6>2, <6>3
        <5>2. CountFrom(bounds, i') = x \div s
          BY <4>2, <5>1, Int64Exact DEF CountFrom, Count
        <5> HIDE DEF x, s
        <5> QED  BY <5>1, <5>2, DivMod
      <4> QED  BY <1>3, <4>3, <4>4
    <3> QED  BY <3>1, <3>2
  <2> QED  BY <1>1, <1>4, <1>6, <2>1, <2>2
<1>12. LoopInv'
  BY <1>1, <1>2, <1>4, <1>5, <1>9, <1>10, <1>11 DEF AccessInv, LoopInv
<1> QED  BY <1>2, <1>7, <1>8, <1>12 DEF AccessInv, StartInv, MatchesRFC, CountExact

\* The loop ends when no index of the slice is left.
LEMMA FinishInv == AccessInv /\ Finish => AccessInv'
<1> SUFFICES ASSUME AccessInv, Finish PROVE AccessInv'  OBVIOUS
<1>1. /\ args \in SliceArgs /\ length \in 0 .. MaxLen /\ indexes \in Seq(Int)
      /\ kind = "slice"
      /\ ResolveSliceBounds(args, length).ok /\ bounds = ResolveSliceBounds(args, length).b
      /\ OnGrid(bounds, i) /\ ~InSlice(bounds, i) /\ i \in Int
      /\ -MaxJSONInteger - 1 <= i /\ i <= MaxLen + MaxJSONInteger
      /\ OutSet = Visited(bounds, length, i) /\ InOrder
      /\ Len(indexes) + CountFrom(bounds, i) = Count(bounds)
  BY DEF Finish, AccessInv, AccessTypeOK, LoopInv, OnGrid
<1>2. phase' = "done" /\ UNCHANGED <<kind, args, length, bounds, i, indexes>>  BY DEF Finish
<1>3. Visited(bounds, length, i) = RFCSlice(args, length)  BY <1>1, ResolveMatchesRFC
<1>4. MatchesRFC'  BY <1>1, <1>2, <1>3 DEF MatchesRFC, OutSet, InOrder
<1>5. CountFrom(bounds, i) = 0
  <2>1. BoundsOK(bounds, length) /\ length \in 1 .. MaxLen  BY <1>1, ResolveOK
  <2> QED  BY <1>1, <2>1, CountStep
<1>6. CountExact'  BY <1>1, <1>2, <1>5 DEF CountExact
<1> QED  BY <1>2, <1>4, <1>6 DEF AccessInv, AccessTypeOK, IndexInArray, StartInv, LoopInv

\* The inductive invariant holds in every reachable state.
THEOREM AccessInvHolds == AccessSpec => []AccessInv
<1>1. AccessInit => AccessInv  BY AccessInitInv
<1>2. AccessInv /\ [AccessNext]_accessVars => AccessInv'
  <2> SUFFICES ASSUME AccessInv, [AccessNext]_accessVars PROVE AccessInv'  OBVIOUS
  <2>1. CASE SelectIndex  BY <2>1, SelectIndexInv
  <2>2. CASE Resolve  BY <2>2, ResolveInv
  <2>3. CASE Visit  BY <2>3, VisitInv
  <2>4. CASE Finish  BY <2>4, FinishInv
  <2>5. CASE UNCHANGED accessVars
    BY <2>5 DEF accessVars, AccessInv, AccessTypeOK, IndexInArray, StartInv, LoopInv, OutSet, InOrder,
       MatchesRFC, CountExact
  <2> QED  BY <2>1, <2>2, <2>3, <2>4, <2>5 DEF AccessNext
<1> QED  BY <1>1, <1>2, PTL DEF AccessSpec

\* Every variable keeps its type; in particular the loop variable of
\* ForEachSliceIndex stays an int64 that was never wrapped.
THEOREM AccessTypeCorrect == AccessSpec => []AccessTypeOK
<1>1. AccessInv => AccessTypeOK  BY DEF AccessInv
<1> QED  BY <1>1, AccessInvHolds, PTL

\* arr[index] is in range for every array and every index or slice selector
\* that the parser lets through.
THEOREM AccessInArray == AccessSpec => []IndexInArray
<1>1. AccessInv => IndexInArray  BY DEF AccessInv
<1> QED  BY <1>1, AccessInvHolds, PTL

\* ResolveSliceBounds with ForEachSliceIndex, and NormalizeIndex, select what
\* RFC 9535 selects, in its order, for every length, bound and step.
THEOREM SelectsRFCSlice == AccessSpec => []MatchesRFC
<1>1. AccessInv => MatchesRFC  BY DEF AccessInv
<1> QED  BY <1>1, AccessInvHolds, PTL

\* SliceBounds.Count is the number of iterations for every slice.
THEOREM CountIsExact == AccessSpec => []CountExact
<1>1. AccessInv => CountExact  BY DEF AccessInv
<1> QED  BY <1>1, AccessInvHolds, PTL

-----------------------------------------------------------------------------
(* The descendant walk.                                                    *)

\* The node the walk visits next.
NextNode == start + Len(visited)

\* The frames on the stack, read from the top, are the roots of adjacent
\* subtrees that together hold the nodes from NextNode to the end.
Chained(s) ==
    \A j \in 1 .. Len(s) - 1 : s[j] = tree.last[s[j + 1]] + 1

StackInv ==
    /\ Chained(pending)
    /\ pending # <<>> => /\ pending[Len(pending)] = NextNode
                       /\ tree.last[pending[1]] = tree.last[start]
    /\ pending = <<>> => NextNode = tree.last[start] + 1

WalkInv == WalkTypeOK /\ StackInv /\ \A k \in 1 .. Len(visited) : visited[k] = start + k - 1

\* The walk starts with its start node on the stack.
LEMMA WalkInitInv == WalkInit => WalkInv
<1> SUFFICES ASSUME WalkInit PROVE WalkInv  OBVIOUS
<1>1. tree \in Trees /\ start \in NodesOf(tree) /\ pending = <<start>> /\ visited = <<>>  BY DEF WalkInit
<1>2. start \in Int  BY <1>1, TreesAssumption DEF WellNumbered, NodesOf
<1>3. Len(pending) = 1 /\ pending[1] = start /\ pending # <<>> /\ Len(visited) = 0  BY <1>1
<1>4. NextNode = start  BY <1>2, <1>3 DEF NextNode
<1>5. StackInv  BY <1>3, <1>4 DEF StackInv, Chained
<1> QED  BY <1>1, <1>3, <1>5 DEF WalkInv, WalkTypeOK

\* A popped node leaves its children on the stack, in reverse.
LEMMA PopInv == WalkInv /\ Pop => WalkInv'
<1> SUFFICES ASSUME WalkInv, Pop PROVE WalkInv'  OBVIOUS
<1> DEFINE c == pending[Len(pending)]
           n == Len(pending)
           f == SubSeq(pending, 1, n - 1)
           k == tree.kids[c]
           m == Len(k)
           r == [j \in 1 .. m |-> k[(m - j) + 1]]
<1>1. /\ tree \in Trees /\ start \in NodesOf(tree)
      /\ pending \in Seq(NodesOf(tree)) /\ visited \in Seq(NodesOf(tree)) /\ pending # <<>>
  BY DEF WalkInv, WalkTypeOK, Pop
<1>2. WellNumbered(tree)  BY <1>1, TreesAssumption
<1>3. n \in Nat /\ n >= 1 /\ c \in NodesOf(tree) /\ Len(visited) \in Nat  BY <1>1
<1>4. k \in Seq(NodesOf(tree)) /\ m \in Nat  BY <1>2, <1>3 DEF WellNumbered
<1>5. /\ visited' = Append(visited, c) /\ pending' = f \o r
      /\ tree' = tree /\ start' = start
  BY DEF Pop, PushReverse, Last, Front, Reverse
<1>6. /\ f \in Seq(NodesOf(tree)) /\ Len(f) = n - 1 /\ \A j \in 1 .. n - 1 : f[j] = pending[j]
  <2>1. \A j \in 1 .. n - 1 : pending[j] \in NodesOf(tree)
    BY <1>1, <1>3, ElementOfSeq
  <2>2. /\ f \in Seq(NodesOf(tree))
        /\ Len(f) = IF 1 <= n - 1 THEN (n - 1) - 1 + 1 ELSE 0
        /\ \A j \in 1 .. (n - 1) - 1 + 1 : f[j] = pending[1 + j - 1]
    <3> HIDE DEF n
    <3> QED  BY <1>3, <2>1, SubSeqProperties
  <2>3. (n - 1) - 1 + 1 = n - 1 /\ \A j \in 1 .. n - 1 : 1 + j - 1 = j  BY <1>3
  <2> HIDE DEF n, f
  <2>4. Len(f) = n - 1  BY <1>3, <2>2
  <2> QED  BY <2>2, <2>3, <2>4
<1>7. /\ r \in Seq(NodesOf(tree)) /\ Len(r) = m /\ \A j \in 1 .. m : r[j] = k[(m - j) + 1]
  <2>1. \A j \in 1 .. m : (m - j) + 1 \in 1 .. m  BY <1>4
  <2>2. r \in [1 .. m -> NodesOf(tree)]  BY <1>4, <2>1
  <2> QED  BY <1>4, <2>2
<1>8. /\ start \in Int
      /\ \A x \in NodesOf(tree) : x \in Int /\ tree.last[x] \in Int /\ tree.last[x] \in NodesOf(tree)
  <2>1. /\ tree.size \in Nat /\ start \in NodesOf(tree)
        /\ tree.last \in [NodesOf(tree) -> NodesOf(tree)]
    BY <1>1, <1>2 DEF WellNumbered
  <2>2. \A x \in NodesOf(tree) : x \in Int  BY <2>1 DEF NodesOf
  <2> QED  BY <2>1, <2>2
<1>9. /\ c = start + Len(visited) /\ Chained(pending) /\ tree.last[pending[1]] = tree.last[start]
  BY <1>1 DEF WalkInv, StackInv, NextNode
<1>10. /\ visited' \in Seq(NodesOf(tree)) /\ Len(visited') = Len(visited) + 1
       /\ \A j \in 1 .. Len(visited) : visited'[j] = visited[j]
       /\ visited'[Len(visited) + 1] = c
  BY <1>1, <1>3, <1>5
<1> HIDE DEF c, n, f, k, m, r
<1>11. /\ pending' \in Seq(NodesOf(tree)) /\ Len(pending') = (n - 1) + m
       /\ \A j \in 1 .. n - 1 : pending'[j] = pending[j]
       /\ \A j \in 1 .. m : pending'[(n - 1) + j] = k[(m - j) + 1]
  <2>0. /\ f \o r \in Seq(NodesOf(tree)) /\ Len(f \o r) = Len(f) + Len(r)
        /\ \A j \in 1 .. Len(f) + Len(r) : (f \o r)[j] = IF j <= Len(f) THEN f[j] ELSE r[j - Len(f)]
    BY <1>6, <1>7, ConcatProperties
  <2>1. pending' \in Seq(NodesOf(tree)) /\ Len(pending') = (n - 1) + m  BY <1>5, <1>6, <1>7, <2>0
  <2>2. ASSUME NEW j \in 1 .. n - 1 PROVE pending'[j] = pending[j]
    <3>1. j \in 1 .. Len(f) + Len(r) /\ j <= Len(f)  BY <1>3, <1>4, <1>6, <1>7
    <3> QED  BY <1>5, <1>6, <2>0, <3>1
  <2>3. ASSUME NEW j \in 1 .. m PROVE pending'[(n - 1) + j] = k[(m - j) + 1]
    <3>1. (n - 1) + j \in 1 .. (Len(f) + Len(r)) /\ ~((n - 1) + j <= Len(f))  BY <1>3, <1>4, <1>6, <1>7
    <3>2. pending'[(n - 1) + j] = r[((n - 1) + j) - Len(f)]  BY <1>5, <2>0, <3>1
    <3>3. ((n - 1) + j) - Len(f) = j  BY <1>3, <1>6
    <3> QED  BY <1>7, <3>2, <3>3
  <2> QED  BY <2>1, <2>2, <2>3
<1>12. WalkTypeOK'  BY <1>1, <1>5, <1>10, <1>11 DEF WalkTypeOK
<1>13. NextNode' = c + 1  BY <1>3, <1>5, <1>8, <1>9, <1>10 DEF NextNode
<1>14. \A j \in 1 .. Len(visited') : visited'[j] = start' + j - 1
  <2>1. \A j \in 1 .. Len(visited') : j \in 1 .. Len(visited) \/ j = Len(visited) + 1  BY <1>3, <1>10
  <2>2. c = start + (Len(visited) + 1) - 1  BY <1>3, <1>8, <1>9
  <2> QED  BY <1>5, <1>10, <2>1, <2>2 DEF WalkInv
<1>15. \A j \in 1 .. n - 1 : pending[j] = tree.last[pending[j + 1]] + 1  BY <1>9 DEF Chained, n
<1>16. n > 1 => pending[n - 1] = tree.last[c] + 1
  <2> SUFFICES ASSUME n > 1 PROVE pending[n - 1] = tree.last[c] + 1  OBVIOUS
  <2>1. n - 1 \in 1 .. n - 1 /\ (n - 1) + 1 = n  BY <1>3
  <2> QED  BY <1>15, <2>1 DEF c, n
<1>17. CASE k = <<>>
  <2>1. m = 0 /\ tree.last[c] = c  BY <1>2, <1>3, <1>17 DEF WellNumbered, k, m
  <2>2. Len(pending') = n - 1  BY <1>3, <1>11, <2>1
  <2>3. Chained(pending)'
    <3>1. \A j \in 1 .. (n - 1) - 1 : j \in 1 .. n - 1 /\ j + 1 \in 1 .. n - 1  BY <1>3
    <3>2. \A j \in 1 .. (n - 1) - 1 : pending'[j] = tree.last[pending'[j + 1]] + 1
      BY <1>11, <1>15, <3>1
    <3> QED  BY <1>5, <2>2, <3>2 DEF Chained
  <2>4. CASE n = 1
    <3>1. pending' = <<>>  BY <1>11, <2>2, <2>4
    <3>2. tree.last[start] = c  BY <1>9, <2>1, <2>4 DEF c, n
    <3> QED  BY <1>5, <1>12, <1>13, <1>14, <2>3, <3>1, <3>2 DEF WalkInv, StackInv
  <2>5. CASE n > 1
    <3>1. pending' # <<>> /\ n - 1 \in 1 .. n - 1 /\ 1 \in 1 .. n - 1  BY <1>3, <1>11, <2>2, <2>5
    <3>2. pending'[Len(pending')] = c + 1  BY <1>11, <1>16, <2>1, <2>2, <2>5, <3>1
    <3>3. pending'[1] = pending[1]  BY <1>11, <3>1
    <3> QED  BY <1>5, <1>9, <1>12, <1>13, <1>14, <2>3, <3>1, <3>2, <3>3 DEF WalkInv, StackInv
  <2> QED  BY <1>3, <2>4, <2>5
<1>18. CASE k # <<>>
  <2>1. /\ k[1] = c + 1
        /\ \A j \in 1 .. m - 1 : k[j + 1] = tree.last[k[j]] + 1
        /\ tree.last[c] = tree.last[k[m]]
        /\ m >= 1
    BY <1>2, <1>3, <1>4, <1>18 DEF WellNumbered, k, m
  <2>2. pending' # <<>>  BY <1>3, <1>4, <1>11, <2>1
  <2>3. pending'[Len(pending')] = c + 1
    <3>1. m \in 1 .. m /\ (m - m) + 1 = 1  BY <1>4, <2>1
    <3>2. pending'[(n - 1) + m] = k[(m - m) + 1]  BY <1>11, <3>1
    <3> QED  BY <1>11, <2>1, <3>1, <3>2
  <2>4. tree.last[pending'[1]] = tree.last[start]
    <3>1. CASE n = 1
      <4>1. 1 \in 1 .. m /\ (n - 1) + 1 = 1 /\ (m - 1) + 1 = m  BY <1>4, <2>1, <3>1
      <4>2. pending'[(n - 1) + 1] = k[(m - 1) + 1]  BY <1>11, <4>1
      <4>3. pending'[1] = k[m]  BY <4>1, <4>2
      <4>4. pending[1] = c  BY <3>1 DEF c, n
      <4> QED  BY <1>9, <2>1, <4>3, <4>4
    <3>2. CASE n > 1
      <4>1. 1 \in 1 .. n - 1  BY <1>3, <3>2
      <4> QED  BY <1>9, <1>11, <4>1
    <3> QED  BY <1>3, <3>1, <3>2
  <2>5. ASSUME NEW j \in 1 .. ((n - 1) + m) - 1
        PROVE  pending'[j] = tree.last[pending'[j + 1]] + 1
    <3>1. CASE j + 1 <= n - 1
      <4>1. j \in 1 .. n - 1 /\ j + 1 \in 1 .. n - 1  BY <1>3, <1>4, <3>1
      <4> QED  BY <1>11, <1>15, <4>1
    <3>2. CASE j = n - 1
      <4>1. j \in 1 .. n - 1 /\ n > 1 /\ 1 \in 1 .. m /\ j + 1 = (n - 1) + 1 /\ (m - 1) + 1 = m
        BY <1>3, <1>4, <2>1, <3>2
      <4>2. pending'[(n - 1) + 1] = k[(m - 1) + 1]  BY <1>11, <4>1
      <4>3. pending'[j + 1] = k[m]  BY <4>1, <4>2
      <4>4. pending'[j] = pending[n - 1]  BY <1>11, <3>2, <4>1
      <4> QED  BY <1>16, <2>1, <4>1, <4>3, <4>4
    <3>3. CASE j >= n
      <4> DEFINE q == j - (n - 1)
      <4>1. /\ q \in 1 .. m - 1 /\ q \in 1 .. m /\ q + 1 \in 1 .. m
            /\ j = (n - 1) + q /\ j + 1 = (n - 1) + (q + 1)
            /\ (m - (q + 1)) + 1 = m - q /\ m - q \in 1 .. m - 1 /\ (m - q) + 1 \in 1 .. m
        BY <1>3, <1>4, <3>3
      <4> HIDE DEF q
      <4>2. pending'[(n - 1) + q] = k[(m - q) + 1]  BY <1>11, <4>1
      <4>3. pending'[(n - 1) + (q + 1)] = k[(m - (q + 1)) + 1]  BY <1>11, <4>1
      <4>4. k[(m - q) + 1] = tree.last[k[m - q]] + 1  BY <2>1, <4>1
      <4> QED  BY <4>1, <4>2, <4>3, <4>4
    <3> QED  BY <1>3, <1>4, <3>1, <3>2, <3>3
  <2>6. Chained(pending)'  BY <1>5, <1>11, <2>5 DEF Chained
  <2> QED  BY <1>5, <1>12, <1>13, <1>14, <2>2, <2>3, <2>4, <2>6 DEF WalkInv, StackInv
<1> QED  BY <1>17, <1>18

\* The inductive invariant holds in every reachable state.
THEOREM WalkInvHolds == WalkSpec => []WalkInv
<1>1. WalkInv /\ [WalkNext]_walkVars => WalkInv'
  <2>1. CASE UNCHANGED walkVars
    BY <2>1 DEF walkVars, WalkInv, WalkTypeOK, StackInv, Chained, NextNode
  <2> QED  BY <2>1, PopInv DEF WalkNext
<1> QED  BY <1>1, WalkInitInv, PTL DEF WalkSpec

\* Every variable keeps its type.
THEOREM WalkTypeCorrect == WalkSpec => []WalkTypeOK
<1>1. WalkInv => WalkTypeOK  BY DEF WalkInv
<1> QED  BY <1>1, WalkInvHolds, PTL

\* For every document, the stack of appendDescendant and of
\* appendDescendantLocated visits the subtree of the input node in document
\* order, each node once.
THEOREM VisitsInDocumentOrder == WalkSpec => []DocumentOrder
<1>1. WalkInv => DocumentOrder
  <2> SUFFICES ASSUME WalkInv, pending = <<>> PROVE Len(visited) = tree.last[start] - start + 1
    BY DEF WalkInv, DocumentOrder
  <2>1. start + Len(visited) = tree.last[start] + 1  BY DEF WalkInv, StackInv, NextNode
  <2>2. WellNumbered(tree) /\ start \in NodesOf(tree) /\ Len(visited) \in Nat
    BY TreesAssumption DEF WalkInv, WalkTypeOK
  <2>3. tree.size \in Nat /\ tree.last \in [NodesOf(tree) -> NodesOf(tree)]
    BY <2>2 DEF WellNumbered
  <2>4. tree.last[start] \in NodesOf(tree)  BY <2>2, <2>3
  <2>5. start \in Int /\ tree.last[start] \in Int  BY <2>2, <2>3, <2>4 DEF NodesOf
  <2> QED  BY <2>1, <2>2, <2>5
<1> QED  BY <1>1, WalkInvHolds, PTL

-----------------------------------------------------------------------------
(* Values and their children.                                              *)

\* A value is a scalar, an array or an object, and its parts are values.
LEMMA ValueShape ==
  ASSUME NEW v \in Values
  PROVE  /\ v.t = "arr" => v.e \in Seq(Values)
         /\ v.t = "obj" => /\ v.m \in [DOMAIN v.m -> Values]
                           /\ DOMAIN v.m \in SUBSET Nat
                           /\ IsFiniteSet(DOMAIN v.m)
<1>1. CASE v \in Scalars
  BY <1>1 DEF Scalars, Null, JSONNull, NotNumber
<1>2. CASE v \in [t : {"arr"}, e : Seq(Values)]
  BY <1>2
<1>3. CASE /\ v \in [t : {"obj"}, m : [DOMAIN v.m -> Values]]
           /\ DOMAIN v.m \subseteq Nat /\ IsFiniteSet(DOMAIN v.m)
  BY <1>3
<1> QED BY <1>1, <1>2, <1>3, ValuesAssumption

\* names is an increasing enumeration of S.
Enumerates(names, S) ==
    /\ names \in [1 .. Cardinality(S) -> S]
    /\ \A j, k \in DOMAIN names : j < k => names[j] < names[k]

\* Every finite set of naturals has one.
LEMMA EnumerationExists ==
  ASSUME NEW S \in SUBSET Nat, IsFiniteSet(S)
  PROVE  \E names : Enumerates(names, S)
<1> DEFINE T == {n \in Nat : \A R \in SUBSET Nat : IsFiniteSet(R) /\ Cardinality(R) = n
                                                     => \E names : Enumerates(names, R)}
<1>1. ASSUME NEW n \in Nat, \A k \in 0 .. n - 1 : k \in T
      PROVE  n \in T
  <2> SUFFICES ASSUME NEW R \in SUBSET Nat, IsFiniteSet(R), Cardinality(R) = n
               PROVE  \E names : Enumerates(names, R)
    OBVIOUS
  <2>1. CASE R = {}
    <3>1. Cardinality(R) = 0
      BY <2>1, FS_EmptySet
    <3> DEFINE none == [k \in 1 .. 0 |-> 0]
    <3>2. none \in [1 .. 0 -> R] /\ \A j, k \in DOMAIN none : j < k => none[j] < none[k]
      OBVIOUS
    <3> HIDE DEF none
    <3> QED BY <3>1, <3>2 DEF Enumerates
  <2>2. CASE R # {}
    <3>1. PICK x \in R : \A y \in R : x <= y
      BY <2>2, LeastElement
    <3> DEFINE Q == R \ {x}
    <3>2. IsFiniteSet(Q) /\ Cardinality(Q) = n - 1
      BY <3>1, FS_RemoveElement
    <3>3. Cardinality(Q) \in Nat
      BY <3>2, FS_CardinalityType
    <3>4. n - 1 \in 0 .. n - 1
      BY <3>2, <3>3
    <3>5. PICK names : Enumerates(names, Q)
      <4>1. n - 1 \in T /\ Q \in SUBSET Nat
        BY <1>1, <3>4
      <4> QED BY <3>2, <4>1
    <3>6. \A y \in Q : y \in R /\ y \in Nat /\ x < y
      BY <3>1
    <3>7. names \in [1 .. n - 1 -> Q] /\ \A j, k \in 1 .. n - 1 : j < k => names[j] < names[k]
      BY <3>2, <3>5 DEF Enumerates
    <3> HIDE DEF Q
    <3> DEFINE all == [k \in 1 .. n |-> IF k = 1 THEN x ELSE names[k - 1]]
    <3>8. \A k \in 1 .. n : k # 1 => k - 1 \in 1 .. n - 1 /\ names[k - 1] \in Q
      BY <3>7
    <3>9. all \in [1 .. n -> R]
      BY <3>1, <3>6, <3>8
    <3>10. ASSUME NEW j \in 1 .. n, NEW k \in 1 .. n, j < k
           PROVE  all[j] < all[k]
      <4>1. k # 1 /\ k - 1 \in 1 .. n - 1
        BY <3>10
      <4>2. CASE j = 1
        BY <3>6, <3>8, <4>1, <4>2
      <4>3. CASE j # 1
        BY <3>7, <3>8, <3>10, <4>1, <4>3
      <4> QED BY <4>2, <4>3
    <3> HIDE DEF all
    <3> QED BY <3>9, <3>10 DEF Enumerates
  <2> QED BY <2>1, <2>2
<1>2. \A n \in Nat : n \in T
  <2> HIDE DEF T
  <2> QED BY <1>1, StrongInduction
<1>3. Cardinality(S) \in Nat
  BY FS_CardinalityType
<1> QED BY <1>2, <1>3

\* sortedChildNames is one of the names of an object.
LEMMA SortedNames ==
  ASSUME NEW v \in Values, v.t = "obj"
  PROVE  Enumerates(sortedChildNames(v.m), DOMAIN v.m)
<1>1. PICK S : S = DOMAIN v.m
  OBVIOUS
<1>2. \E names : Enumerates(names, S)
  BY <1>1, ValueShape, EnumerationExists
<1>3. sortedChildNames(v.m) = CHOOSE names \in [1 .. Cardinality(S) -> S] :
                                  \A j, k \in DOMAIN names : j < k => names[j] < names[k]
  BY <1>1 DEF sortedChildNames
<1> QED BY <1>1, <1>2, <1>3 DEF Enumerates

\* The children of v.
ChildrenOf(v) == {c \in [step : Steps, value : Values] : ChildAt(v, c.step) = c.value}

\* ForEachChild yields children, and as many as ChildCount counts.
LEMMA EachChild ==
  ASSUME NEW v \in Values
  PROVE  /\ ForEachChild(v) \in Seq(ChildrenOf(v))
         /\ Len(ForEachChild(v)) = ChildCount(v)
         /\ ChildCount(v) \in Nat
<1>1. CASE v.t = "arr"
  <2> DEFINE c == [k \in 1 .. Len(v.e) |-> [step |-> IndexStep(k - 1), value |-> v.e[k]]]
  <2>1. ForEachChild(v) = c /\ ChildCount(v) = Len(v.e) /\ v.e \in Seq(Values) /\ Len(v.e) \in Nat
    BY <1>1, ValueShape DEF ForEachChild, ChildCount
  <2>2. ASSUME NEW k \in 1 .. Len(v.e)
        PROVE  [step |-> IndexStep(k - 1), value |-> v.e[k]] \in ChildrenOf(v)
    <3>1. k - 1 \in Nat /\ (k - 1) + 1 = k /\ v.e[k] \in Values
      BY <2>1
    <3>2. PICK st : st = IndexStep(k - 1)
      OBVIOUS
    <3>3. st = [index |-> k - 1] /\ st.index = k - 1 /\ "index" \in DOMAIN st
      BY <3>2 DEF IndexStep
    <3>4. st \in Steps /\ ChildAt(v, st) = v.e[k]
      BY <3>1, <3>3 DEF Steps, ChildAt
    <3> QED BY <3>1, <3>2, <3>4 DEF ChildrenOf
  <2>3. c \in Seq(ChildrenOf(v)) /\ Len(c) = Len(v.e)
    BY <2>1, <2>2
  <2> QED BY <2>1, <2>3
<1>2. CASE v.t = "obj"
  <2>1. PICK names, n : names = sortedChildNames(v.m) /\ n = Cardinality(DOMAIN v.m)
    OBVIOUS
  <2>2. n \in Nat /\ names \in [1 .. n -> DOMAIN v.m] /\ Len(names) = n
    BY <1>2, <2>1, SortedNames, ValueShape, FS_CardinalityType DEF Enumerates
  <2> DEFINE c == [k \in 1 .. n |-> [step |-> NameStep(names[k]), value |-> v.m[names[k]]]]
  <2>3. ForEachChild(v) = c /\ ChildCount(v) = n
    BY <1>2, <2>1, <2>2 DEF ForEachChild, ChildCount
  <2>4. ASSUME NEW k \in 1 .. n
        PROVE  [step |-> NameStep(names[k]), value |-> v.m[names[k]]] \in ChildrenOf(v)
    <3>1. names[k] \in Nat /\ v.m[names[k]] \in Values
      BY <1>2, <2>2, ValueShape
    <3>2. PICK st : st = NameStep(names[k])
      OBVIOUS
    <3>3. st = [name |-> names[k]] /\ st.name = names[k] /\ ~("index" \in DOMAIN st)
      BY <3>2 DEF NameStep
    <3>4. st \in Steps /\ ChildAt(v, st) = v.m[names[k]]
      BY <3>1, <3>3 DEF Steps, ChildAt
    <3> QED BY <3>1, <3>2, <3>4 DEF ChildrenOf
  <2>5. c \in Seq(ChildrenOf(v)) /\ Len(c) = n
    BY <2>2, <2>4
  <2> QED BY <2>2, <2>3, <2>5
<1>3. CASE v.t # "arr" /\ v.t # "obj"
  <2>1. ForEachChild(v) = <<>> /\ ChildCount(v) = 0
    BY <1>3 DEF ForEachChild, ChildCount
  <2> QED BY <2>1
<1> QED BY <1>1, <1>2, <1>3

\* Reversing a sequence of things of one kind gives another.
LEMMA ReverseOf ==
  ASSUME NEW S, NEW s \in Seq(S)
  PROVE  Reverse(s) \in Seq(S) /\ Len(Reverse(s)) = Len(s)
<1>1. \A k \in 1 .. Len(s) : s[(Len(s) - k) + 1] \in S
  OBVIOUS
<1> QED BY <1>1 DEF Reverse

-----------------------------------------------------------------------------
(* Filters.                                                                *)

\* A filter keeps some of the children, in their order.
LEMMA PassingOf ==
  ASSUME NEW S, NEW c \in Seq(S), NEW P
  PROVE  Passing(c, P) \in Seq(S) /\ Len(Passing(c, P)) <= Len(c)
<1>1. PICK n \in Nat : n = Len(c)
  OBVIOUS
<1> DEFINE One(k) == IF c[k].value \in P THEN <<c[k]>> ELSE <<>>
           Body(f) == [k \in 0 .. n |-> IF k = 0 THEN <<>> ELSE f[k - 1] \o One(k)]
           kept == CHOOSE f : f = Body(f)
<1>2. ASSUME NEW k \in 1 .. n PROVE One(k) \in Seq(S) /\ Len(One(k)) <= 1
  <2>1. c[k] \in S
    BY <1>1
  <2> QED BY <2>1
<1>3. \E f : f = Body(f)
  <2> DEFINE step == [p \in (1 .. n) \X Seq(S) |-> p[2] \o One(p[1])]
  <2>1. PICK V, e : V = Seq(S) /\ e = <<>>
    OBVIOUS
  <2>2. step \in [(1 .. n) \X V -> V] /\ e \in V
    <3>1. ASSUME NEW p \in (1 .. n) \X Seq(S) PROVE p[2] \o One(p[1]) \in Seq(S)
      <4>1. p[2] \in Seq(S) /\ One(p[1]) \in Seq(S)
        BY <1>2
      <4> HIDE DEF One
      <4> QED BY <4>1, ConcatFacts
    <3> HIDE DEF One
    <3> QED BY <2>1, <3>1
  <2>3. \A k \in 1 .. n, v \in V : step[<<k, v>>] = v \o One(k)
    BY <2>1
  <2> HIDE DEF step, One
  <2>4. PICK F \in [0 .. n -> V] : Recurs(F, n, step, e)
    BY <2>2, IntervalRecursion
  <2>5. F[0] = <<>> /\ \A k \in 1 .. n : F[k] = F[k - 1] \o One(k)
    <3>1. ASSUME NEW k \in 1 .. n PROVE F[k] = F[k - 1] \o One(k)
      <4>1. F[k - 1] \in V
        OBVIOUS
      <4> QED BY <2>3, <2>4, <4>1 DEF Recurs
    <3> QED BY <2>1, <2>4, <3>1 DEF Recurs
  <2>6. F = Body(F)
    <3>1. ASSUME NEW k \in 0 .. n
          PROVE  F[k] = IF k = 0 THEN <<>> ELSE F[k - 1] \o One(k)
      <4>1. CASE k = 0
        BY <2>5, <4>1
      <4>2. CASE k # 0
        <5>1. k \in 1 .. n
          BY <4>2
        <5> QED BY <2>5, <4>2, <5>1
      <4> QED BY <4>1, <4>2
    <3>2. F = [k \in 0 .. n |-> F[k]]
      BY <2>4
    <3> QED BY <3>1, <3>2
  <2> QED BY <2>6
<1>4. PICK g : g = Body(g) /\ Passing(c, P) = g[n]
  <2>1. kept = Body(kept)
    BY <1>3
  <2>2. Passing(c, P) = kept[n]
    BY <1>1 DEF Passing
  <2> HIDE DEF kept, Body
  <2> QED BY <2>1, <2>2
<1> HIDE DEF One, kept
<1>5. \A k \in 0 .. n : g[k] = IF k = 0 THEN <<>> ELSE g[k - 1] \o One(k)
  BY <1>4
<1>6. g[0] = <<>> /\ \A k \in 1 .. n : g[k] = g[k - 1] \o One(k)
  <2>1. 0 \in 0 .. n /\ \A k \in 1 .. n : k \in 0 .. n /\ k # 0
    OBVIOUS
  <2> QED BY <1>5, <2>1
<1> DEFINE T == {k \in 0 .. n : g[k] \in Seq(S) /\ Len(g[k]) <= k}
<1>7. 0 \in T
  <2>1. <<>> \in Seq(S) /\ Len(<<>>) = 0 /\ 0 \in 0 .. n
    OBVIOUS
  <2>2. g[0] \in Seq(S) /\ Len(g[0]) <= 0
    BY <1>6, <2>1
  <2> QED BY <2>1, <2>2
<1>8. ASSUME NEW k \in 0 .. n - 1, k \in T
      PROVE  k + 1 \in T
  <2>1. k + 1 \in 1 .. n /\ (k + 1) - 1 = k /\ g[k] \in Seq(S) /\ Len(g[k]) <= k
    BY <1>8
  <2>2. g[k + 1] = g[k] \o One(k + 1)
    BY <1>6, <2>1
  <2>3. PICK a, b : a = g[k] /\ b = One(k + 1)
    OBVIOUS
  <2>4. a \in Seq(S) /\ b \in Seq(S) /\ Len(a) <= k /\ Len(b) <= 1
    BY <1>2, <2>1, <2>3
  <2>5. g[k + 1] = a \o b
    BY <2>2, <2>3
  <2>6. a \o b \in Seq(S) /\ Len(a \o b) = Len(a) + Len(b) /\ Len(a) \in Nat /\ Len(b) \in Nat
    BY <2>4, ConcatFacts
  <2>7. Len(g[k + 1]) <= k + 1
    BY <2>4, <2>5, <2>6
  <2>8. g[k + 1] \in Seq(S) /\ k + 1 \in 0 .. n
    BY <2>1, <2>5, <2>6
  <2> QED BY <2>7, <2>8
<1> HIDE DEF T
<1>9. \A k \in 0 .. n : k \in T
  BY <1>7, <1>8, IntervalInduction
<1>10. n \in T
  BY <1>9
<1> QED BY <1>1, <1>4, <1>10 DEF T

-----------------------------------------------------------------------------
(* Slices, as the loop of ForEachSliceIndex runs over them.                *)

\* The start of a slice is on its grid, and is an int64.
LEMMA StartOnGrid ==
  ASSUME NEW a \in SliceArgs, NEW len \in 0 .. MaxLen, NEW b,
         ResolveSliceBounds(a, len).ok, b = ResolveSliceBounds(a, len).b
  PROVE  /\ BoundsOK(b, len) /\ len \in 1 .. MaxLen
         /\ OnGrid(b, b.Start)
         /\ -MaxJSONInteger - 1 <= b.Start /\ b.Start <= MaxLen + MaxJSONInteger
         /\ CountFrom(b, b.Start) = Count(b)
<1>1. /\ BoundsOK(b, len) /\ len \in 1 .. MaxLen /\ b.Step # 0
      /\ b \in SliceBounds /\ b.Start \in Int /\ b.Step \in Int
  BY ResolveOK, WidthAssumption DEF BoundsOK, SliceBounds
<1>2. -MaxJSONInteger - 1 <= b.Start /\ b.Start <= MaxLen + MaxJSONInteger
  BY <1>1, WidthAssumption DEF BoundsOK
<1>3. b.Start - b.Start = 0
  BY <1>1
<1>4. b.Step > 0 => 0 % b.Step = 0
  <2> SUFFICES ASSUME b.Step > 0 PROVE 0 % b.Step = 0  OBVIOUS
  <2>1. b.Step \in Nat  BY <1>1
  <2> QED BY <2>1
<1>5. b.Step < 0 => 0 % (-b.Step) = 0
  <2> SUFFICES ASSUME b.Step < 0 PROVE 0 % (-b.Step) = 0  OBVIOUS
  <2>1. -b.Step \in Nat /\ -b.Step > 0  BY <1>1
  <2> QED BY <2>1
<1>6. [b EXCEPT !.Start = b.Start] = b
  BY <1>1 DEF SliceBounds
<1>7. CountFrom(b, b.Start) = Count(b)
  BY <1>6 DEF CountFrom
<1> QED BY <1>1, <1>2, <1>3, <1>4, <1>5, <1>7 DEF OnGrid

\* One call of the recursion of SliceIndexes.
SliceBody(b, f) ==
    [k \in Int64Range |-> IF InSlice(b, k) THEN <<k>> \o f[Int64(k + b.Step)] ELSE <<>>]

\* The loop ends wherever it starts: its recursion has a solution.
LEMMA SliceLoop ==
  ASSUME NEW len \in 1 .. MaxLen, NEW b, BoundsOK(b, len)
  PROVE  \E f : f = SliceBody(b, f)
<1>1. /\ len \in Nat /\ 0 < len /\ len <= MaxLen /\ MaxLen \in Nat
      /\ MaxJSONInteger \in Nat /\ 1 <= MaxJSONInteger /\ MaxInt64 \in Nat
      /\ MaxLen + 2 * MaxJSONInteger < MaxInt64
  BY WidthAssumption
<1>2. /\ b.Step \in Int /\ b.Step # 0 /\ -MaxJSONInteger <= b.Step /\ b.Step <= MaxJSONInteger
      /\ b.End \in Int /\ -MaxJSONInteger <= b.End /\ b.End <= len
      /\ b.Step < 0 => -1 <= b.End
  BY <1>1 DEF BoundsOK, SliceBounds, JSONInteger
<1> DEFINE more == {k \in Int64Range : InSlice(b, k)}
           next == [k \in more |-> k + b.Step]
           rank == [k \in Int64Range |-> IF ~InSlice(b, k) THEN 0
                                         ELSE IF b.Step > 0 THEN b.End - k ELSE k - b.End]
           top  == 2 * MaxInt64 + 2
           step == [p \in more \X Seq(Int) |-> <<p[1]>> \o p[2]]
           base == [k \in Int64Range |-> <<>>]
<1>3. ASSUME NEW k \in more
      PROVE  k \in Int /\ k + b.Step \in Int64Range
  <2>1. k \in Int /\ -MaxInt64 - 1 <= k /\ k <= MaxInt64
    BY <1>1 DEF Int64Range
  <2>2. CASE b.Step > 0
    <3>1. k < b.End
      BY <2>2 DEF InSlice
    <3> QED BY <1>1, <1>2, <2>1, <2>2, <3>1 DEF Int64Range
  <2>3. CASE b.Step < 0
    <3>1. k > b.End
      BY <1>2, <2>3 DEF InSlice
    <3> QED BY <1>1, <1>2, <2>1, <2>3, <3>1 DEF Int64Range
  <2> QED BY <1>2, <2>2, <2>3
<1>4. next \in [more -> Int64Range] /\ more \in SUBSET Int64Range
  BY <1>3
<1>5. ASSUME NEW k \in Int64Range PROVE rank[k] \in Nat /\ rank[k] <= top
  BY <1>1, <1>2 DEF InSlice, Int64Range
<1>6. ASSUME NEW k \in more PROVE rank[k + b.Step] < rank[k]
  <2>1. k \in Int /\ k + b.Step \in Int64Range /\ k \in Int64Range /\ InSlice(b, k)
    BY <1>3
  <2>2. CASE b.Step > 0
    BY <1>2, <2>1, <2>2 DEF InSlice
  <2>3. CASE b.Step < 0
    BY <1>2, <2>1, <2>3 DEF InSlice
  <2> QED BY <1>2, <2>2, <2>3
<1>7. rank \in [Int64Range -> Nat] /\ top \in Nat /\ \A k \in Int64Range : rank[k] <= top
  <2>1. top \in Nat
    BY <1>1
  <2>2. rank = [k \in Int64Range |-> rank[k]]
    OBVIOUS
  <2> HIDE DEF rank, top
  <2> QED BY <1>5, <2>1, <2>2
<1>8. \A k \in more : rank[next[k]] < rank[k]
  <2> HIDE DEF rank, more
  <2> QED BY <1>6
<1>9. step \in [more \X Seq(Int) -> Seq(Int)] /\ base \in [Int64Range -> Seq(Int)]
  <2>1. ASSUME NEW p \in more \X Seq(Int) PROVE <<p[1]>> \o p[2] \in Seq(Int)
    BY <1>3
  <2> HIDE DEF more
  <2> QED BY <2>1
<1>10. \A k \in more, s \in Seq(Int) : step[<<k, s>>] = <<k>> \o s
  <2> HIDE DEF more
  <2> QED OBVIOUS
<1>11. \A k \in more : next[k] = k + b.Step /\ Int64(k + b.Step) = k + b.Step
  BY <1>3, Int64Exact
<1>12. \A k \in Int64Range : base[k] = <<>> /\ (k \in more <=> InSlice(b, k))
  OBVIOUS
<1> HIDE DEF more, next, rank, top, step, base
<1>13. PICK V, D : V = Seq(Int) /\ D = Int64Range
  OBVIOUS
<1>14. PICK f \in [D -> V] : \A k \in D : f[k] = IF k \in more THEN step[<<k, f[next[k]]>>] ELSE base[k]
  <2>1. Descends(D, more, next, rank)
    BY <1>4, <1>7, <1>8, <1>13 DEF Descends
  <2>2. step \in [more \X V -> V] /\ base \in [D -> V] /\ top \in Nat /\ \A k \in D : rank[k] <= top
    BY <1>7, <1>9, <1>13
  <2>3. \E f \in [D -> V] : Unwinds(f, D, more, next, step, base)
    BY <2>1, <2>2, RankedRecursion
  <2> QED BY <2>3 DEF Unwinds
<1>15. ASSUME NEW k \in D
       PROVE  f[k] = IF InSlice(b, k) THEN <<k>> \o f[Int64(k + b.Step)] ELSE <<>>
  <2>1. CASE k \in more
    <3>1. PICK j : j = next[k]
      OBVIOUS
    <3>2. j \in D /\ f[j] \in Seq(Int) /\ Int64(k + b.Step) = j
      BY <1>4, <1>11, <1>13, <2>1, <3>1
    <3>3. f[k] = step[<<k, f[j]>>] /\ InSlice(b, k)
      BY <1>12, <1>13, <1>14, <2>1, <3>1
    <3>4. step[<<k, f[j]>>] = <<k>> \o f[j]
      BY <1>10, <2>1, <3>2
    <3> QED BY <3>2, <3>3, <3>4
  <2>2. CASE k \notin more
    BY <1>12, <1>13, <1>14, <2>2
  <2> QED BY <2>1, <2>2
<1>16. f = SliceBody(b, f)
  BY <1>13, <1>14, <1>15 DEF SliceBody
<1> QED BY <1>16

\* The loop from a point of the grid reads inside the array, and as often as
\* CountFrom says.
LEMMA SliceRun ==
  ASSUME NEW len \in 1 .. MaxLen, NEW b, BoundsOK(b, len), NEW f, f = SliceBody(b, f)
  PROVE  \A k \in Int : /\ OnGrid(b, k) 
                        /\ -MaxJSONInteger - 1 <= k /\ k <= MaxLen + MaxJSONInteger
                        => f[k] \in Seq(0 .. len - 1) /\ Len(f[k]) = CountFrom(b, k)
<1>1. /\ len \in Nat /\ 0 < len /\ len <= MaxLen /\ MaxLen \in Nat
      /\ MaxJSONInteger \in Nat /\ 1 <= MaxJSONInteger /\ MaxInt64 \in Nat
      /\ MaxLen + 2 * MaxJSONInteger < MaxInt64
  BY WidthAssumption
<1>2. /\ b.Step \in Int /\ b.Step # 0 /\ -MaxJSONInteger <= b.Step /\ b.Step <= MaxJSONInteger
      /\ b.End \in Int
  BY <1>1 DEF BoundsOK, SliceBounds, JSONInteger
<1> DEFINE Left(k) == IF ~InSlice(b, k) THEN 0
                      ELSE IF b.Step > 0 THEN b.End - k ELSE k - b.End
           Near(k) == OnGrid(b, k) /\ -MaxJSONInteger - 1 <= k /\ k <= MaxLen + MaxJSONInteger
           Right(k) == f[k] \in Seq(0 .. len - 1) /\ Len(f[k]) = CountFrom(b, k)
           T == {n \in Nat : \A k \in Int : Near(k) /\ Left(k) = n => Right(k)}
<1>3. ASSUME NEW k \in Int PROVE Left(k) \in Nat
  BY <1>2 DEF InSlice
<1>4. ASSUME NEW n \in Nat, \A m \in 0 .. n - 1 : m \in T
      PROVE  n \in T
  <2> SUFFICES ASSUME NEW k \in Int, Near(k), Left(k) = n PROVE Right(k)
    OBVIOUS
  <2>1. k \in Int64Range
    BY <1>1 DEF Int64Range
  <2>2. f[k] = IF InSlice(b, k) THEN <<k>> \o f[Int64(k + b.Step)] ELSE <<>>
    BY <2>1 DEF SliceBody
  <2>3. CASE ~InSlice(b, k)
    <3>1. CountFrom(b, k) = 0
      BY <2>3, CountStep
    <3>2. f[k] = <<>>
      BY <2>2, <2>3
    <3> QED BY <3>1, <3>2
  <2>4. CASE InSlice(b, k)
    <3>1. /\ k \in 0 .. len - 1 /\ Int64(k + b.Step) = k + b.Step /\ OnGrid(b, k + b.Step)
      BY <2>4, VisitStep
    <3>2. CountFrom(b, k) = CountFrom(b, k + b.Step) + 1
      BY <2>4, CountStep
    <3>3. PICK j \in Int : j = k + b.Step
      BY <1>2
    <3>4. Near(j)
      BY <1>1, <1>2, <3>1, <3>3
    <3>5. Left(j) \in 0 .. n - 1
      <4>1. Left(j) < n
        BY <1>2, <2>4, <3>3 DEF InSlice
      <4> HIDE DEF Left
      <4> QED BY <1>3, <4>1
    <3>6. f[j] \in Seq(0 .. len - 1) /\ Len(f[j]) = CountFrom(b, j)
      <4>1. Left(j) \in T
        BY <1>4, <3>5
      <4> HIDE DEF Left, Near
      <4> QED BY <3>4, <4>1
    <3>7. f[k] = <<k>> \o f[j]
      BY <2>2, <2>4, <3>1, <3>3
    <3>8. PICK s : s = f[j]
      OBVIOUS
    <3>9. <<k>> \o s \in Seq(0 .. len - 1) /\ Len(<<k>> \o s) = Len(s) + 1 /\ Len(s) \in Nat
      BY <3>1, <3>6, <3>8
    <3> QED BY <3>2, <3>3, <3>6, <3>7, <3>8, <3>9
  <2> QED BY <2>3, <2>4
<1>5. \A n \in Nat : n \in T
  <2> HIDE DEF T
  <2> QED BY <1>4, StrongInduction
<1>6. ASSUME NEW k \in Int, Near(k) PROVE Right(k)
  <2>1. Left(k) \in T
    BY <1>3, <1>5
  <2> HIDE DEF Left, Near, Right
  <2> QED BY <1>6, <2>1
<1> QED BY <1>6

\* The slice loop reads inside the array, and as often as Count says; there
\* is no loop when ResolveSliceBounds finds no slice.
LEMMA SliceIndexesOf ==
  ASSUME NEW a \in WellFormedArgs, NEW len \in 0 .. MaxLen
  PROVE  /\ SliceIndexes(a, len) \in Seq(0 .. len - 1)
         /\ ResolveSliceBounds(a, len).ok =>
                Len(SliceIndexes(a, len)) = Count(ResolveSliceBounds(a, len).b)
         /\ ~ResolveSliceBounds(a, len).ok => SliceIndexes(a, len) = <<>>
<1>1. PICK r : r = ResolveSliceBounds(a, len)
  OBVIOUS
<1> DEFINE loop == CHOOSE f : f = SliceBody(r.b, f)
<1>2. SliceIndexes(a, len) = IF r.ok /\ Count(r.b) # 0 THEN loop[r.b.Start] ELSE <<>>
  BY <1>1 DEF SliceIndexes, SliceBody
<1>3. <<>> \in Seq(0 .. len - 1) /\ Len(<<>>) = 0
  OBVIOUS
<1>4. CASE ~r.ok
  BY <1>1, <1>2, <1>3, <1>4
<1>5. CASE r.ok /\ Count(r.b) = 0
  BY <1>1, <1>2, <1>3, <1>5
<1>6. CASE r.ok /\ Count(r.b) # 0
  <2>1. a \in SliceArgs
    BY DEF WellFormedArgs
  <2>2. PICK b : b = r.b
    OBVIOUS
  <2>3. /\ BoundsOK(b, len) /\ len \in 1 .. MaxLen /\ OnGrid(b, b.Start)
        /\ -MaxJSONInteger - 1 <= b.Start /\ b.Start <= MaxLen + MaxJSONInteger
        /\ CountFrom(b, b.Start) = Count(b)
    BY <1>1, <1>6, <2>1, <2>2, StartOnGrid
  <2>4. \E f : f = SliceBody(b, f)
    BY <2>3, SliceLoop
  <2>5. loop = SliceBody(b, loop)
    BY <2>2, <2>4
  <2>6. b.Start \in Int
    BY <2>3 DEF OnGrid
  <2> HIDE DEF loop
  <2>7. loop[b.Start] \in Seq(0 .. len - 1) /\ Len(loop[b.Start]) = CountFrom(b, b.Start)
    BY <2>3, <2>5, <2>6, SliceRun
  <2> QED BY <1>1, <1>2, <1>6, <2>2, <2>3, <2>7
<1> QED BY <1>4, <1>5, <1>6

\* NormalizeIndex gives an index of the array.
LEMMA IndexInside ==
  ASSUME NEW index \in JSONInteger, NEW len \in 0 .. MaxLen, NormalizeIndex(index, len).ok
  PROVE  NormalizeIndex(index, len).idx \in 0 .. len - 1
<1>1. /\ len \in Nat /\ len <= MaxLen /\ MaxLen \in Nat /\ MaxJSONInteger \in Nat /\ MaxInt64 \in Nat
      /\ index \in Int /\ MaxLen + 2 * MaxJSONInteger < MaxInt64
      /\ -MaxJSONInteger <= index /\ index <= MaxJSONInteger
  BY WidthAssumption DEF JSONInteger
<1>2. index < 0 => Int64(index + len) = index + len
  BY <1>1, Int64Exact DEF Int64Range
<1> QED BY <1>1, <1>2 DEF NormalizeIndex

-----------------------------------------------------------------------------
(* Paths.                                                                  *)

\* f holds the values that the first 0, 1, ... n steps of path lead to.
Leads(f, doc, path, n) ==
    f = [k \in 0 .. n |-> IF k = 0 THEN doc ELSE ChildAt(f[k - 1], path[k])]

\* Element by element.
LEMMA LeadsElements ==
  ASSUME NEW f, NEW doc, NEW path, NEW n \in Nat, Leads(f, doc, path, n)
  PROVE  f[0] = doc /\ \A k \in 1 .. n : f[k] = ChildAt(f[k - 1], path[k])
<1> DEFINE Body(k) == IF k = 0 THEN doc ELSE ChildAt(f[k - 1], path[k])
<1>1. PICK g : g = [k \in 0 .. n |-> Body(k)]
  OBVIOUS
<1>2. \A k \in 0 .. n : g[k] = Body(k)
  BY <1>1
<1>3. f = g
  BY <1>1 DEF Leads
<1>4. \A k \in 0 .. n : f[k] = Body(k)
  BY <1>2, <1>3
<1> QED BY <1>4

\* There are such values for every path.
LEMMA LeadsExists ==
  ASSUME NEW doc, NEW path, NEW m \in Nat
  PROVE  \E f : Leads(f, doc, path, m)
<1> DEFINE T == {n \in 0 .. m : \E f : Leads(f, doc, path, n)}
<1>1. 0 \in T
  <2> DEFINE f == [k \in 0 .. 0 |-> doc]
  <2>1. f = [k \in 0 .. 0 |-> IF k = 0 THEN doc ELSE ChildAt(f[k - 1], path[k])]
    OBVIOUS
  <2>2. Leads(f, doc, path, 0)
    BY <2>1 DEF Leads
  <2> HIDE DEF f
  <2> QED BY <2>2
<1>2. ASSUME NEW n \in 0 .. m - 1, n \in T
      PROVE  n + 1 \in T
  <2>1. PICK f : Leads(f, doc, path, n)
    BY <1>2
  <2>2. f[0] = doc /\ \A k \in 1 .. n : f[k] = ChildAt(f[k - 1], path[k])
    BY <2>1, LeadsElements
  <2> DEFINE V(k) == IF k = n + 1 THEN ChildAt(f[n], path[n + 1]) ELSE f[k]
             g == [k \in 0 .. n + 1 |-> V(k)]
  <2>3. \A k \in 0 .. n : g[k] = f[k]
    OBVIOUS
  <2>4. g[n + 1] = ChildAt(f[n], path[n + 1])
    OBVIOUS
  <2>5. g[0] = doc
    BY <2>2, <2>3
  <2>6. ASSUME NEW k \in 1 .. n + 1
        PROVE  g[k] = ChildAt(g[k - 1], path[k])
    <3>1. CASE k = n + 1
      <4>1. g[k - 1] = f[n] /\ g[k] = ChildAt(f[n], path[n + 1])
        BY <2>3, <2>4, <3>1
      <4> HIDE DEF g
      <4> QED BY <3>1, <4>1
    <3>2. CASE k # n + 1
      <4>1. k \in 1 .. n /\ g[k] = f[k] /\ g[k - 1] = f[k - 1]
        BY <2>3, <3>2
      <4> HIDE DEF g
      <4> QED BY <2>2, <4>1
    <3> QED BY <3>1, <3>2
  <2> DEFINE h == [k \in 0 .. n + 1 |-> IF k = 0 THEN doc ELSE ChildAt(g[k - 1], path[k])]
  <2>7. \A k \in 0 .. n + 1 : g[k] = h[k]
    <3> HIDE DEF g
    <3> QED BY <2>5, <2>6
  <2>8. g = h
    <3>1. DOMAIN g = 0 .. n + 1 /\ DOMAIN h = 0 .. n + 1
      OBVIOUS
    <3>2. g = [k \in DOMAIN g |-> g[k]] /\ h = [k \in DOMAIN h |-> h[k]]
      OBVIOUS
    <3> HIDE DEF g, h
    <3> QED BY <2>7, <3>1, <3>2
  <2>9. Leads(g, doc, path, n + 1)
    BY <2>8 DEF Leads
  <2> HIDE DEF g
  <2> QED BY <2>9
<1>3. \A n \in 0 .. m : n \in T
  <2> HIDE DEF T
  <2> QED BY <1>1, <1>2, IntervalInduction
<1>4. m \in T
  BY <1>3
<1> QED BY <1>4

\* A path leads to the last of them.
LEMMA AtIsLast ==
  ASSUME NEW doc, NEW path, NEW m \in Nat, m = Len(path)
  PROVE  \E f : Leads(f, doc, path, m) /\ At(doc, path) = f[m]
<1> DEFINE last == CHOOSE f : Leads(f, doc, path, m)
<1>1. Leads(last, doc, path, m)
  BY LeadsExists
<1>2. At(doc, path) = last[m]
  BY DEF At, Leads
<1> HIDE DEF last
<1> QED BY <1>1, <1>2

\* The empty path leads nowhere else.
LEMMA AtRoot ==
  ASSUME NEW doc
  PROVE  At(doc, <<>>) = doc
<1>1. PICK path : path = <<>>
  OBVIOUS
<1>2. Len(path) = 0
  BY <1>1
<1>3. PICK f : Leads(f, doc, path, 0) /\ At(doc, path) = f[0]
  BY <1>2, AtIsLast
<1> QED BY <1>1, <1>3, LeadsElements

\* The last step of a path leads to a child of the value the rest leads to.
LEMMA AtAppend ==
  ASSUME NEW doc, NEW S, NEW path \in Seq(S), NEW step \in S
  PROVE  At(doc, Append(path, step)) = ChildAt(At(doc, path), step)
<1>1. PICK m \in Nat : m = Len(path)
  OBVIOUS
<1>2. PICK longer : longer = Append(path, step)
  OBVIOUS
<1>3. /\ Len(longer) = m + 1 /\ longer[m + 1] = step
      /\ \A k \in 1 .. m : longer[k] = path[k]
  BY <1>1, <1>2
<1>4. PICK f : Leads(f, doc, path, m) /\ At(doc, path) = f[m]
  BY <1>1, AtIsLast
<1>5. PICK g : Leads(g, doc, longer, m + 1) /\ At(doc, longer) = g[m + 1]
  BY <1>3, AtIsLast
<1>6. f[0] = doc /\ \A k \in 1 .. m : f[k] = ChildAt(f[k - 1], path[k])
  BY <1>4, LeadsElements
<1>7. g[0] = doc /\ \A k \in 1 .. m + 1 : g[k] = ChildAt(g[k - 1], longer[k])
  BY <1>5, LeadsElements
<1> DEFINE T == {n \in 0 .. m : f[n] = g[n]}
<1>8. 0 \in T
  BY <1>6, <1>7
<1>9. ASSUME NEW n \in 0 .. m - 1, n \in T
      PROVE  n + 1 \in T
  <2>1. n + 1 \in 1 .. m /\ n + 1 \in 1 .. m + 1 /\ (n + 1) - 1 = n
    OBVIOUS
  <2>2. f[n + 1] = ChildAt(f[n], path[n + 1]) /\ g[n + 1] = ChildAt(g[n], longer[n + 1])
    BY <1>6, <1>7, <2>1
  <2>3. f[n] = g[n] /\ longer[n + 1] = path[n + 1]
    BY <1>3, <1>9, <2>1
  <2> QED BY <2>1, <2>2, <2>3
<1>10. \A n \in 0 .. m : n \in T
  <2> HIDE DEF T
  <2> QED BY <1>8, <1>9, IntervalInduction
<1>11. m \in T
  BY <1>10
<1>12. f[m] = g[m]
  BY <1>11
<1>13. m + 1 \in 1 .. m + 1 /\ (m + 1) - 1 = m
  OBVIOUS
<1>14. g[m + 1] = ChildAt(g[m], step)
  BY <1>3, <1>7, <1>13
<1> QED BY <1>2, <1>4, <1>5, <1>12, <1>14

-----------------------------------------------------------------------------
(* Located nodes, and what a selector appends for one.                     *)

\* The located nodes whose path leads to their value.
Resolved(doc) == {nd \in Located : At(doc, nd.path) = nd.value}

\* The document is one of them.
LEMMA RootResolved ==
  ASSUME NEW doc \in Values
  PROVE  [value |-> doc, path |-> <<>>] \in Resolved(doc)
<1>1. PICK empty : empty = <<>>
  OBVIOUS
<1>2. empty \in Seq(Steps)
  BY <1>1
<1>3. At(doc, empty) = doc
  BY <1>1, AtRoot
<1>4. [value |-> doc, path |-> empty] \in Located
  BY <1>2 DEF Located
<1>5. [value |-> doc, path |-> empty] \in Resolved(doc)
  BY <1>3, <1>4 DEF Resolved
<1> QED BY <1>1, <1>5

\* A child of a resolved node is resolved.
LEMMA ChildResolved ==
  ASSUME NEW doc, NEW node \in Resolved(doc), NEW c \in ChildrenOf(node.value)
  PROVE  ChildNode(node, c.value, c.step) \in Resolved(doc)
<1>1. node.value \in Values /\ node.path \in Seq(Steps) /\ At(doc, node.path) = node.value
  BY DEF Resolved, Located
<1>2. c.value \in Values /\ c.step \in Steps /\ ChildAt(node.value, c.step) = c.value
  BY DEF ChildrenOf
<1>3. PICK p : p = Append(node.path, c.step)
  OBVIOUS
<1>4. p \in Seq(Steps)
  BY <1>1, <1>2, <1>3
<1>5. At(doc, p) = c.value
  BY <1>1, <1>2, <1>3, AtAppend
<1>6. [value |-> c.value, path |-> p] \in Located
  BY <1>2, <1>4 DEF Located
<1>7. [value |-> c.value, path |-> p] \in Resolved(doc)
  BY <1>5, <1>6 DEF Resolved
<1> QED BY <1>3, <1>7 DEF ChildNode

\* ValuesOf works element by element.
LEMMA ValuesOfElements ==
  ASSUME NEW S, NEW V, \A x \in S : x.value \in V, NEW nodes \in Seq(S)
  PROVE  /\ ValuesOf(nodes) \in Seq(V)
         /\ Len(ValuesOf(nodes)) = Len(nodes)
         /\ \A k \in 1 .. Len(nodes) : ValuesOf(nodes)[k] = nodes[k].value
<1>1. PICK n \in Nat : n = Len(nodes)
  OBVIOUS
<1>2. DOMAIN nodes = 1 .. n /\ \A k \in 1 .. n : nodes[k] \in S
  BY <1>1
<1>3. PICK vals : vals = ValuesOf(nodes)
  OBVIOUS
<1>4. vals = [k \in 1 .. n |-> nodes[k].value]
  BY <1>2, <1>3 DEF ValuesOf
<1>5. vals \in Seq(V) /\ Len(vals) = n /\ \A k \in 1 .. n : vals[k] = nodes[k].value
  BY <1>2, <1>4
<1> QED BY <1>1, <1>3, <1>5

\* A sequence of children makes a sequence of child nodes with their values.
LEMMA ChildNodesResolved ==
  ASSUME NEW doc, NEW node \in Resolved(doc), NEW c \in Seq(ChildrenOf(node.value))
  PROVE  /\ ChildNodes(node, c) \in Seq(Resolved(doc))
         /\ Len(ChildNodes(node, c)) = Len(c)
         /\ ValuesOf(ChildNodes(node, c)) = ValuesOf(c)
<1>1. PICK n \in Nat : n = Len(c)
  OBVIOUS
<1>2. DOMAIN c = 1 .. n /\ \A k \in 1 .. n : c[k] \in ChildrenOf(node.value)
  BY <1>1
<1>3. PICK made : made = ChildNodes(node, c)
  OBVIOUS
<1>4. made = [k \in 1 .. n |-> ChildNode(node, c[k].value, c[k].step)]
  BY <1>2, <1>3 DEF ChildNodes
<1>5. \A k \in 1 .. n : ChildNode(node, c[k].value, c[k].step) \in Resolved(doc)
  BY <1>2, ChildResolved
<1>6. made \in Seq(Resolved(doc)) /\ Len(made) = n /\ DOMAIN made = 1 .. n
  BY <1>4, <1>5
<1>7. \A k \in 1 .. n : made[k].value = c[k].value
  <2> TAKE k \in 1 .. n
  <2>1. made[k] = ChildNode(node, c[k].value, c[k].step)
    BY <1>4
  <2> QED BY <2>1 DEF ChildNode
<1>8. ValuesOf(made) = ValuesOf(c)
  BY <1>2, <1>6, <1>7 DEF ValuesOf
<1> QED BY <1>1, <1>3, <1>6, <1>8

\* What a selector appends for a resolved node: resolved nodes, no more than
\* it estimates, with the values plain selection appends.
Appends(nodes, doc, bound, vals) ==
    /\ nodes \in Seq(Resolved(doc))
    /\ bound \in Nat /\ Len(nodes) <= bound
    /\ ValuesOf(nodes) = vals

\* One node, known by the step to it.
LEMMA AppendsOne ==
  ASSUME NEW doc, NEW node \in Resolved(doc), NEW st \in Steps, NEW v \in Values,
         ChildAt(node.value, st) = v
  PROVE  Appends(<<ChildNode(node, v, st)>>, doc, 1, <<v>>)
<1>1. PICK c : c = [step |-> st, value |-> v]
  OBVIOUS
<1>2. c \in ChildrenOf(node.value) /\ c.value = v /\ c.step = st
  BY <1>1 DEF ChildrenOf
<1>3. PICK nd : nd = ChildNode(node, v, st)
  OBVIOUS
<1>4. nd \in Resolved(doc)
  BY <1>2, <1>3, ChildResolved
<1>5. nd.value = v
  BY <1>3 DEF ChildNode
<1>6. <<nd>> \in Seq(Resolved(doc)) /\ Len(<<nd>>) = 1
  BY <1>4
<1>7. ValuesOf(<<nd>>) = <<v>>
  BY <1>5 DEF ValuesOf
<1> QED BY <1>3, <1>6, <1>7 DEF Appends

\* No node.
LEMMA AppendsNone ==
  ASSUME NEW doc, NEW bound \in Nat
  PROVE  Appends(<<>>, doc, bound, <<>>)
<1>1. ValuesOf(<<>>) = <<>>
  BY DEF ValuesOf
<1>2. <<>> \in Seq(Resolved(doc)) /\ Len(<<>>) <= bound
  OBVIOUS
<1> QED BY <1>1, <1>2 DEF Appends

\* Some of the children, in any order.
LEMMA AppendsChildren ==
  ASSUME NEW doc, NEW node \in Resolved(doc), NEW c \in Seq(ChildrenOf(node.value)),
         NEW bound \in Nat, Len(c) <= bound
  PROVE  Appends(ChildNodes(node, c), doc, bound, ValuesOf(c))
<1>1. PICK made : made = ChildNodes(node, c)
  OBVIOUS
<1>2. made \in Seq(Resolved(doc)) /\ Len(made) = Len(c) /\ ValuesOf(made) = ValuesOf(c)
  BY <1>1, ChildNodesResolved
<1> QED BY <1>1, <1>2 DEF Appends

\* Some of the elements of an array, by their indexes.
LEMMA AppendsElements ==
  ASSUME NEW doc, NEW node \in Resolved(doc), NEW v \in Values, v = node.value, v.t = "arr",
         NEW ix \in Seq(0 .. Len(v.e) - 1), NEW bound \in Nat, Len(ix) <= bound
  PROVE  Appends([k \in DOMAIN ix |-> ChildNode(node, v.e[ix[k] + 1], IndexStep(ix[k]))], doc, bound,
                 [k \in DOMAIN ix |-> v.e[ix[k] + 1]])
<1>1. PICK n \in Nat : n = Len(ix)
  OBVIOUS
<1>2. PICK e \in Seq(Values) : e = v.e
  BY ValueShape
<1>3. DOMAIN ix = 1 .. n /\ \A k \in 1 .. n : ix[k] \in 0 .. Len(e) - 1
  BY <1>1, <1>2
<1> DEFINE Made(k) == ChildNode(node, e[ix[k] + 1], IndexStep(ix[k]))
<1>4. ASSUME NEW k \in 1 .. n
      PROVE  Made(k) \in Resolved(doc) /\ Made(k).value = e[ix[k] + 1]
  <2>1. PICK i0 : i0 = ix[k]
    OBVIOUS
  <2>2. i0 \in 0 .. Len(e) - 1
    BY <1>3, <2>1
  <2>3. i0 \in Nat /\ i0 + 1 \in 1 .. Len(e)
    BY <2>2
  <2>4. PICK st : st = IndexStep(i0)
    OBVIOUS
  <2>5. st = [index |-> i0] /\ st.index = i0 /\ "index" \in DOMAIN st
    BY <2>4 DEF IndexStep
  <2>6. st \in Steps /\ ChildAt(v, st) = e[i0 + 1] /\ e[i0 + 1] \in Values
    BY <1>2, <2>3, <2>5 DEF Steps, ChildAt
  <2>7. PICK c : c = [step |-> st, value |-> e[i0 + 1]]
    OBVIOUS
  <2>8. c \in ChildrenOf(node.value) /\ c.value = e[i0 + 1] /\ c.step = st
    BY <2>6, <2>7 DEF ChildrenOf
  <2>9. ChildNode(node, c.value, c.step) \in Resolved(doc)
    BY <2>8, ChildResolved
  <2>10. ChildNode(node, c.value, c.step).value = c.value
    BY DEF ChildNode
  <2> QED BY <2>1, <2>4, <2>8, <2>9, <2>10
<1> DEFINE made == [k \in 1 .. n |-> Made(k)]
           vals == [k \in 1 .. n |-> e[ix[k] + 1]]
<1>5. made \in Seq(Resolved(doc)) /\ Len(made) = n /\ DOMAIN made = 1 .. n
  <2> HIDE DEF Made
  <2> QED BY <1>4
<1>6. \A k \in 1 .. n : made[k].value = e[ix[k] + 1]
  <2> TAKE k \in 1 .. n
  <2>1. made[k] = Made(k)
    OBVIOUS
  <2> HIDE DEF Made, made
  <2> QED BY <1>4, <2>1
<1>7. ValuesOf(made) = vals
  <2> HIDE DEF made
  <2> QED BY <1>5, <1>6 DEF ValuesOf
<1>8. Appends(made, doc, bound, vals)
  <2> HIDE DEF made, vals
  <2> QED BY <1>1, <1>5, <1>7 DEF Appends
<1>9. /\ [k \in DOMAIN ix |-> ChildNode(node, v.e[ix[k] + 1], IndexStep(ix[k]))] = made
      /\ [k \in DOMAIN ix |-> v.e[ix[k] + 1]] = vals
  BY <1>2, <1>3
<1> HIDE DEF made, vals
<1> QED BY <1>8, <1>9

\* One selector applied to one resolved node, each kind in turn.
LEMMA SelectorAppends ==
  ASSUME NEW doc, NEW node \in Resolved(doc), NEW sel, WellFormedSelector(sel)
  PROVE  Appends(appendSelectorLocated(sel, node), doc, OutputEstimate(sel, node.value),
                 Apply(sel, node.value, PassingValues(sel, node.value)))
<1>1. PICK v \in Values : v = node.value
  BY DEF Resolved, Located
<1> DEFINE made == appendSelectorLocated(sel, node)
           bound == OutputEstimate(sel, v)
           vals == Apply(sel, v, PassingValues(sel, v))
<1>2. /\ ForEachChild(v) \in Seq(ChildrenOf(node.value))
      /\ Len(ForEachChild(v)) = ChildCount(v) /\ ChildCount(v) \in Nat
  BY <1>1, EachChild
<1>3. SUFFICES Appends(made, doc, bound, vals)
  BY <1>1
<1>4. CASE sel.kind = "Name"
  <2>1. bound = 1 /\ sel.name \in Nat
    BY <1>4 DEF OutputEstimate, WellFormedSelector
  <2>2. CASE v.t = "obj" /\ sel.name \in DOMAIN v.m
    <3>1. made = <<ChildNode(node, v.m[sel.name], NameStep(sel.name))>> /\ vals = <<v.m[sel.name]>>
      BY <1>1, <1>4, <2>2 DEF appendSelectorLocated, Apply
    <3>2. v.m[sel.name] \in Values
      BY <2>2, ValueShape
    <3>3. PICK st : st = NameStep(sel.name)
      OBVIOUS
    <3>4. st = [name |-> sel.name] /\ st.name = sel.name /\ ~("index" \in DOMAIN st)
      BY <3>3 DEF NameStep
    <3>5. st \in Steps /\ ChildAt(node.value, st) = v.m[sel.name]
      BY <1>1, <2>1, <3>4 DEF Steps, ChildAt
    <3>6. Appends(<<ChildNode(node, v.m[sel.name], st)>>, doc, 1, <<v.m[sel.name]>>)
      BY <3>2, <3>5, AppendsOne
    <3> QED BY <2>1, <3>1, <3>3, <3>6
  <2>3. CASE ~(v.t = "obj" /\ sel.name \in DOMAIN v.m)
    <3>1. made = <<>> /\ vals = <<>>
      BY <1>1, <1>4, <2>3 DEF appendSelectorLocated, Apply
    <3> HIDE DEF made, vals, bound
    <3> QED BY <2>1, <3>1, AppendsNone
  <2> QED BY <2>2, <2>3
<1>5. CASE sel.kind = "Index"
  <2>1. bound = 1 /\ sel.index \in JSONInteger
    BY <1>5 DEF OutputEstimate, WellFormedSelector
  <2>2. CASE v.t = "arr" /\ NormalizeIndex(sel.index, Len(v.e)).ok
    <3>1. PICK e \in Seq(Values) : e = v.e
      BY <2>2, ValueShape
    <3>2. PICK i0 : i0 = NormalizeIndex(sel.index, Len(e)).idx
      OBVIOUS
    <3>3. Len(e) \in 0 .. MaxLen
      BY <2>2, <3>1, InputsAssumption, WidthAssumption
    <3>4. i0 \in 0 .. Len(e) - 1
      BY <2>1, <2>2, <3>1, <3>2, <3>3, IndexInside
    <3>5. i0 \in Nat /\ i0 + 1 \in 1 .. Len(e)
      BY <3>4
    <3>6. made = <<ChildNode(node, e[i0 + 1], IndexStep(i0))>> /\ vals = <<e[i0 + 1]>>
      <4>1. made = <<ChildNode(node, v.e[i0 + 1], IndexStep(i0))>>
        BY <1>1, <1>5, <2>2, <3>1, <3>2 DEF appendSelectorLocated
      <4>2. vals = <<v.e[i0 + 1]>>
        BY <1>5, <2>2, <3>1, <3>2 DEF Apply
      <4> QED BY <3>1, <4>1, <4>2
    <3>7. PICK st : st = IndexStep(i0)
      OBVIOUS
    <3>8. st = [index |-> i0] /\ st.index = i0 /\ "index" \in DOMAIN st
      BY <3>7 DEF IndexStep
    <3>9. st \in Steps /\ ChildAt(node.value, st) = e[i0 + 1] /\ e[i0 + 1] \in Values
      BY <1>1, <3>1, <3>5, <3>8 DEF Steps, ChildAt
    <3>10. Appends(<<ChildNode(node, e[i0 + 1], st)>>, doc, 1, <<e[i0 + 1]>>)
      BY <3>9, AppendsOne
    <3> QED BY <2>1, <3>6, <3>7, <3>10
  <2>3. CASE ~(v.t = "arr" /\ NormalizeIndex(sel.index, Len(v.e)).ok)
    <3>1. made = <<>> /\ vals = <<>>
      BY <1>1, <1>5, <2>3 DEF appendSelectorLocated, Apply
    <3> HIDE DEF made, vals, bound
    <3> QED BY <2>1, <3>1, AppendsNone
  <2> QED BY <2>2, <2>3
<1>6. CASE sel.kind = "Slice"
  <2>1. CASE v.t = "arr"
    <3>1. PICK n : n = Len(v.e)
      OBVIOUS
    <3>2. n \in 0 .. MaxLen
      BY <2>1, <3>1, ValueShape, InputsAssumption, WidthAssumption
    <3>3. sel.slice \in WellFormedArgs
      BY <1>6 DEF WellFormedSelector
    <3>4. PICK ix : ix = SliceIndexes(sel.slice, n)
      OBVIOUS
    <3>5. PICK r : r = ResolveSliceBounds(sel.slice, n)
      OBVIOUS
    <3>6. ix \in Seq(0 .. n - 1) /\ (r.ok => Len(ix) = Count(r.b)) /\ (~r.ok => ix = <<>>)
      BY <3>2, <3>3, <3>4, <3>5, SliceIndexesOf
    <3>7. bound = IF r.ok THEN Count(r.b) ELSE 0
      BY <1>6, <2>1, <3>1, <3>5 DEF OutputEstimate
    <3>8. Len(ix) \in Nat /\ bound = Len(ix)
      <4> HIDE DEF bound
      <4>1. CASE r.ok
        BY <3>6, <3>7, <4>1
      <4>2. CASE ~r.ok
        BY <3>6, <3>7, <4>2
      <4> QED BY <4>1, <4>2
    <3>9. made = [k \in DOMAIN ix |-> ChildNode(node, v.e[ix[k] + 1], IndexStep(ix[k]))]
      BY <1>1, <1>6, <2>1, <3>1, <3>4 DEF appendSelectorLocated
    <3>10. vals = [k \in DOMAIN ix |-> v.e[ix[k] + 1]]
      BY <1>6, <2>1, <3>1, <3>4 DEF Apply
    <3> HIDE DEF made, vals, bound
    <3>11. bound \in Nat /\ Len(ix) <= bound
      BY <3>8
    <3>12. ix \in Seq(0 .. Len(v.e) - 1)
      BY <3>1, <3>6
    <3>13. Appends([k \in DOMAIN ix |-> ChildNode(node, v.e[ix[k] + 1], IndexStep(ix[k]))], doc, bound,
                   [k \in DOMAIN ix |-> v.e[ix[k] + 1]])
      BY <1>1, <2>1, <3>11, <3>12, AppendsElements
    <3> QED BY <3>9, <3>10, <3>13
  <2>2. CASE v.t # "arr"
    <3>1. made = <<>> /\ vals = <<>> /\ bound = 0
      BY <1>1, <1>6, <2>2 DEF appendSelectorLocated, Apply, OutputEstimate
    <3> HIDE DEF made, vals, bound
    <3> QED BY <3>1, AppendsNone
  <2> QED BY <2>1, <2>2
<1>7. CASE sel.kind = "Wildcard"
  <2>1. PICK c : c = ForEachChild(v)
    OBVIOUS
  <2>2. made = ChildNodes(node, c) /\ vals = ValuesOf(c) /\ bound = ChildCount(v)
    BY <1>1, <1>7, <2>1 DEF appendSelectorLocated, Apply, OutputEstimate
  <2>3. c \in Seq(ChildrenOf(node.value)) /\ bound \in Nat /\ Len(c) <= bound
    BY <1>2, <2>1, <2>2
  <2> HIDE DEF made, vals, bound
  <2> QED BY <2>2, <2>3, AppendsChildren
<1>8. CASE sel.kind = "Filter"
  <2>1. PICK c, P : c = ForEachChild(v) /\ P = PassingValues(sel, v)
    OBVIOUS
  <2>2. PICK d : d = Passing(c, P)
    OBVIOUS
  <2>3. d \in Seq(ChildrenOf(node.value)) /\ Len(d) <= Len(c)
    BY <1>2, <2>1, <2>2, PassingOf
  <2>4. made = ChildNodes(node, d)
    BY <1>1, <1>8, <2>1, <2>2 DEF appendSelectorLocated
  <2>5. vals = ValuesOf(d)
    BY <1>8, <2>1, <2>2 DEF Apply
  <2>6. bound = ChildCount(v)
    BY <1>8 DEF OutputEstimate
  <2>7. bound \in Nat /\ Len(d) <= bound
    BY <1>2, <2>1, <2>3, <2>6
  <2> HIDE DEF made, vals, bound
  <2> QED BY <2>3, <2>4, <2>5, <2>7, AppendsChildren
<1> QED
  <2>1. sel.kind \in {"Name", "Index", "Slice", "Wildcard", "Filter"}
    BY DEF WellFormedSelector
  <2> HIDE DEF made, vals, bound
  <2> QED BY <1>4, <1>5, <1>6, <1>7, <1>8, <2>1

-----------------------------------------------------------------------------
(* What the selectors of a segment append together.                        *)

\* A resolved node's value is a value.
LEMMA ResolvedValues ==
  ASSUME NEW doc
  PROVE  \A nd \in Resolved(doc) : nd.value \in Values
BY DEF Resolved, Located

\* The values of a concatenation.
LEMMA ValuesOfConcat ==
  ASSUME NEW S, NEW V, \A x \in S : x.value \in V, NEW a \in Seq(S), NEW b \in Seq(S)
  PROVE  ValuesOf(a \o b) = ValuesOf(a) \o ValuesOf(b)
<1>1. PICK c, m, n : c = a \o b /\ m = Len(a) /\ n = Len(b)
  OBVIOUS
<1>2. m \in Nat /\ n \in Nat
  BY <1>1
<1>3. /\ c \in Seq(S) /\ Len(c) = m + n
      /\ \A k \in 1 .. m : c[k] = a[k]
      /\ \A k \in 1 .. n : c[m + k] = b[k]
  BY <1>1, ConcatFacts
<1>4. PICK va, vb, vc : va = ValuesOf(a) /\ vb = ValuesOf(b) /\ vc = ValuesOf(c)
  OBVIOUS
<1>5. va \in Seq(V) /\ Len(va) = m /\ \A k \in 1 .. m : va[k] = a[k].value
  BY <1>1, <1>4, ValuesOfElements
<1>6. vb \in Seq(V) /\ Len(vb) = n /\ \A k \in 1 .. n : vb[k] = b[k].value
  BY <1>1, <1>4, ValuesOfElements
<1>7. vc \in Seq(V) /\ Len(vc) = m + n /\ \A k \in 1 .. m + n : vc[k] = c[k].value
  BY <1>3, <1>4, ValuesOfElements
<1>8. PICK d : d = va \o vb
  OBVIOUS
<1>9. /\ d \in Seq(V) /\ Len(d) = m + n
      /\ \A k \in 1 .. m : d[k] = va[k]
      /\ \A k \in 1 .. n : d[m + k] = vb[k]
  <2>1. va \in Seq(V) /\ vb \in Seq(V)
    BY <1>5, <1>6
  <2>2. /\ va \o vb \in Seq(V)
        /\ Len(va \o vb) = Len(va) + Len(vb)
        /\ \A k \in 1 .. Len(va) : (va \o vb)[k] = va[k]
        /\ \A k \in 1 .. Len(vb) : (va \o vb)[Len(va) + k] = vb[k]
    BY <2>1, ConcatFacts
  <2>3. Len(va) = m /\ Len(vb) = n
    BY <1>5, <1>6
  <2> QED BY <1>8, <2>2, <2>3
<1>10. ASSUME NEW k \in 1 .. m + n
       PROVE  vc[k] = d[k]
  <2>1. CASE k \in 1 .. m
    <3>1. vc[k] = c[k].value
      BY <1>7
    <3>2. c[k] = a[k] /\ d[k] = va[k] /\ va[k] = a[k].value
      BY <1>3, <1>5, <1>9, <2>1
    <3> QED BY <3>1, <3>2
  <2>2. CASE k \notin 1 .. m
    <3>1. PICK j \in 1 .. n : k = m + j
      <4>1. k - m \in 1 .. n /\ k = m + (k - m)
        BY <1>2, <2>2
      <4> QED BY <4>1
    <3>2. vc[k] = c[m + j].value
      BY <1>7, <3>1
    <3>3. c[m + j] = b[j] /\ d[m + j] = vb[j] /\ vb[j] = b[j].value
      BY <1>3, <1>6, <1>9, <3>1
    <3> QED BY <3>1, <3>2, <3>3
  <2> QED BY <2>1, <2>2
<1>11. vc = d
  BY <1>7, <1>9, <1>10, SameElements
<1> QED BY <1>1, <1>4, <1>8, <1>11

\* What two selectors append together.
LEMMA AppendsConcat ==
  ASSUME NEW doc, NEW a, NEW m, NEW x, Appends(a, doc, m, x),
         NEW b, NEW n, NEW y, Appends(b, doc, n, y)
  PROVE  Appends(a \o b, doc, m + n, x \o y)
<1>1. /\ a \in Seq(Resolved(doc)) /\ m \in Nat /\ Len(a) <= m /\ ValuesOf(a) = x
      /\ b \in Seq(Resolved(doc)) /\ n \in Nat /\ Len(b) <= n /\ ValuesOf(b) = y
  BY DEF Appends
<1>2. PICK c : c = a \o b
  OBVIOUS
<1>3. c \in Seq(Resolved(doc)) /\ Len(c) = Len(a) + Len(b)
  BY <1>1, <1>2, ConcatFacts
<1>4. ValuesOf(c) = x \o y
  BY <1>1, <1>2, ResolvedValues, ValuesOfConcat
<1>5. Len(a) \in Nat /\ Len(b) \in Nat
  BY <1>1
<1>6. m + n \in Nat /\ Len(c) <= m + n
  BY <1>1, <1>3, <1>5
<1> QED BY <1>2, <1>3, <1>4, <1>6 DEF Appends

\* n holds the sums of the first 0, 1, 2, ... estimates.
Sums(n, selectors, v) ==
    /\ n[0] = 0
    /\ \A k \in 1 .. Len(selectors) : n[k] = n[k - 1] + OutputEstimate(selectors[k], v)

\* estimateSelectorsOutput computes the last of them.
LEMMA EstimateSums ==
  ASSUME NEW v, NEW S, NEW selectors \in Seq(S),
         \A k \in 1 .. Len(selectors) : OutputEstimate(selectors[k], v) \in Nat
  PROVE  \E n : Sums(n, selectors, v) /\ estimateSelectorsOutput(selectors, v) = n[Len(selectors)]
<1>1. PICK m \in Nat : m = Len(selectors)
  OBVIOUS
<1> DEFINE Body(f) == [k \in 0 .. m |-> IF k = 0 THEN 0 ELSE f[k - 1] + OutputEstimate(selectors[k], v)]
           n == CHOOSE f : f = Body(f)
           step == [p \in (1 .. m) \X Nat |-> p[2] + OutputEstimate(selectors[p[1]], v)]
<1>2. step \in [(1 .. m) \X Nat -> Nat]
  BY <1>1
<1>3. \A k \in 1 .. m, x \in Nat : step[<<k, x>>] = x + OutputEstimate(selectors[k], v)
  OBVIOUS
<1>4. PICK f \in [0 .. m -> Nat] : f[0] = 0 /\ \A k \in 1 .. m : f[k] = step[<<k, f[k - 1]>>]
  <2> HIDE DEF step
  <2>1. \E f \in [0 .. m -> Nat] : Recurs(f, m, step, 0)
    BY <1>2, IntervalRecursion
  <2> QED BY <2>1 DEF Recurs
<1>5. \A k \in 1 .. m : f[k] = f[k - 1] + OutputEstimate(selectors[k], v)
  <2> TAKE k \in 1 .. m
  <2>1. f[k - 1] \in Nat
    OBVIOUS
  <2> HIDE DEF step
  <2> QED BY <1>3, <1>4, <2>1
<1>6. f = Body(f)
  <2>1. \A k \in 0 .. m : f[k] = Body(f)[k]
    BY <1>4, <1>5
  <2>2. f = [k \in 0 .. m |-> f[k]] /\ Body(f) = [k \in 0 .. m |-> Body(f)[k]]
    OBVIOUS
  <2> HIDE DEF Body
  <2> QED BY <2>1, <2>2
<1>7. n = Body(n)
  <2> HIDE DEF Body
  <2> QED BY <1>6
<1>8. estimateSelectorsOutput(selectors, v) = n[m]
  BY <1>1 DEF estimateSelectorsOutput
<1> HIDE DEF n
<1>9. PICK g : g = n
  OBVIOUS
<1>10. \A k \in 0 .. m : Body(g)[k] = IF k = 0 THEN 0 ELSE g[k - 1] + OutputEstimate(selectors[k], v)
  OBVIOUS
<1>11. g = Body(g)
  BY <1>7, <1>9
<1> HIDE DEF Body
<1>12. g[0] = 0 /\ \A k \in 1 .. m : g[k] = g[k - 1] + OutputEstimate(selectors[k], v)
  <2>1. \A k \in 0 .. m : g[k] = IF k = 0 THEN 0 ELSE g[k - 1] + OutputEstimate(selectors[k], v)
    BY <1>10, <1>11
  <2> QED BY <2>1
<1> QED BY <1>1, <1>8, <1>9, <1>12 DEF Sums

\* The values that plain selection appends for one node.
PlainAppends(selectors, v) ==
    FlattenSeq([k \in DOMAIN selectors |-> Apply(selectors[k], v, PassingValues(selectors[k], v))])

\* All selectors of a segment applied to one resolved node.
LEMMA SelectorsAppend ==
  ASSUME NEW doc, NEW node \in Resolved(doc), NEW S, NEW selectors \in Seq(S),
         \A sel \in S : WellFormedSelector(sel)
  PROVE  Appends(appendSelectorsLocated(selectors, node), doc,
                 estimateSelectorsOutput(selectors, node.value), PlainAppends(selectors, node.value))
<1>1. PICK m \in Nat : m = Len(selectors)
  OBVIOUS
<1>2. PICK v \in Values : v = node.value
  BY ResolvedValues
<1>3. DOMAIN selectors = 1 .. m /\ \A k \in 1 .. m : WellFormedSelector(selectors[k])
  BY <1>1
<1> DEFINE One(k) == appendSelectorLocated(selectors[k], node)
           Est(k) == OutputEstimate(selectors[k], v)
           Val(k) == Apply(selectors[k], v, PassingValues(selectors[k], v))
           ones == [k \in 1 .. m |-> One(k)]
           vals == [k \in 1 .. m |-> Val(k)]
<1>4. \A k \in 1 .. m : Appends(One(k), doc, Est(k), Val(k))
  BY <1>2, <1>3, SelectorAppends
<1> HIDE DEF One, Est, Val
<1>5. \A k \in 1 .. m : One(k) \in Seq(Resolved(doc)) /\ Est(k) \in Nat /\ Val(k) \in Seq(Values)
  <2> TAKE k \in 1 .. m
  <2>1. One(k) \in Seq(Resolved(doc)) /\ Est(k) \in Nat /\ ValuesOf(One(k)) = Val(k)
    BY <1>4 DEF Appends
  <2>2. ValuesOf(One(k)) \in Seq(Values)
    BY <2>1, ResolvedValues, ValuesOfElements
  <2> QED BY <2>1, <2>2
<1>6. ones \in Seq(Seq(Resolved(doc))) /\ Len(ones) = m /\ vals \in Seq(Seq(Values)) /\ Len(vals) = m
  BY <1>5
<1>7. \A k \in 1 .. m : ones[k] = One(k) /\ vals[k] = Val(k)
  OBVIOUS
<1>8. /\ appendSelectorsLocated(selectors, node) = FlattenSeq(ones)
      /\ PlainAppends(selectors, v) = FlattenSeq(vals)
  BY <1>3 DEF appendSelectorsLocated, PlainAppends, One, Val
<1> HIDE DEF ones, vals
<1>9. PICK F : /\ F[0] = <<>> /\ \A k \in 1 .. m : F[k] = F[k - 1] \o One(k)
               /\ FlattenSeq(ones) = F[m]
  <2>1. PICK F \in [0 .. Len(ones) -> Seq(Resolved(doc))] :
            Concatenates(F, ones) /\ FlattenSeq(ones) = F[Len(ones)]
    BY <1>6, FlattenUnfold
  <2>2. F[0] = <<>> /\ \A k \in 1 .. m : F[k] = F[k - 1] \o One(k)
    BY <1>6, <1>7, <2>1 DEF Concatenates
  <2> QED BY <1>6, <2>1, <2>2
<1>10. PICK G : /\ G[0] = <<>> /\ \A k \in 1 .. m : G[k] = G[k - 1] \o Val(k)
                /\ FlattenSeq(vals) = G[m]
  <2>1. PICK G \in [0 .. Len(vals) -> Seq(Values)] :
            Concatenates(G, vals) /\ FlattenSeq(vals) = G[Len(vals)]
    BY <1>6, FlattenUnfold
  <2>2. G[0] = <<>> /\ \A k \in 1 .. m : G[k] = G[k - 1] \o Val(k)
    BY <1>6, <1>7, <2>1 DEF Concatenates
  <2> QED BY <1>6, <2>1, <2>2
<1>11. PICK n : /\ n[0] = 0 /\ \A k \in 1 .. m : n[k] = n[k - 1] + Est(k)
                /\ estimateSelectorsOutput(selectors, v) = n[m]
  <2>1. \A k \in 1 .. m : OutputEstimate(selectors[k], v) \in Nat
    BY <1>5 DEF Est
  <2>2. \E n : Sums(n, selectors, v) /\ estimateSelectorsOutput(selectors, v) = n[Len(selectors)]
    BY <1>1, <2>1, EstimateSums
  <2> QED BY <1>1, <2>2 DEF Sums, Est
<1> DEFINE T == {k \in 0 .. m : Appends(F[k], doc, n[k], G[k])}
<1>12. 0 \in T
  <2>1. Appends(<<>>, doc, 0, <<>>)
    BY AppendsNone
  <2> QED BY <1>9, <1>10, <1>11, <2>1
<1>13. ASSUME NEW k \in 0 .. m - 1, k \in T
       PROVE  k + 1 \in T
  <2>1. k + 1 \in 1 .. m /\ k + 1 \in 0 .. m /\ (k + 1) - 1 = k
    OBVIOUS
  <2>2. Appends(F[k], doc, n[k], G[k]) /\ Appends(One(k + 1), doc, Est(k + 1), Val(k + 1))
    BY <1>4, <1>13, <2>1
  <2>3. Appends(F[k] \o One(k + 1), doc, n[k] + Est(k + 1), G[k] \o Val(k + 1))
    BY <2>2, AppendsConcat
  <2>4. F[k + 1] = F[k] \o One(k + 1) /\ n[k + 1] = n[k] + Est(k + 1) /\ G[k + 1] = G[k] \o Val(k + 1)
    BY <1>9, <1>10, <1>11, <2>1
  <2>5. Appends(F[k + 1], doc, n[k + 1], G[k + 1])
    BY <2>3, <2>4
  <2> QED BY <2>1, <2>5
<1>14. \A k \in 0 .. m : k \in T
  <2> HIDE DEF T
  <2> QED BY <1>12, <1>13, IntervalInduction
<1>15. m \in T
  BY <1>14
<1>16. Appends(F[m], doc, n[m], G[m])
  BY <1>15
<1> QED BY <1>2, <1>8, <1>9, <1>10, <1>11, <1>16

\* A single name or index appends at most one node.
LEMMA SingleAppends ==
  ASSUME NEW doc, NEW node \in Resolved(doc), NEW S, NEW selectors \in Seq(S),
         \A sel \in S : WellFormedSelector(sel),
         Len(selectors) = 1, selectors[1].kind \in {"Name", "Index"}
  PROVE  Len(appendSelectorsLocated(selectors, node)) <= 1
<1>1. PICK v, made : v = node.value /\ made = appendSelectorsLocated(selectors, node)
  OBVIOUS
<1>2. OutputEstimate(selectors[1], v) = 1
  BY DEF OutputEstimate
<1>3. \A k \in 1 .. Len(selectors) : OutputEstimate(selectors[k], v) \in Nat
  BY <1>2
<1>4. PICK n : Sums(n, selectors, v) /\ estimateSelectorsOutput(selectors, v) = n[Len(selectors)]
  BY <1>3, EstimateSums
<1>5. n[0] = 0 /\ n[1] = n[0] + OutputEstimate(selectors[1], v)
  BY <1>4 DEF Sums
<1>6. estimateSelectorsOutput(selectors, v) = 1
  BY <1>2, <1>4, <1>5
<1>7. Appends(made, doc, 1, PlainAppends(selectors, v))
  BY <1>1, <1>6, SelectorsAppend
<1> QED BY <1>1, <1>7 DEF Appends

-----------------------------------------------------------------------------
(* Located selection, SelectLocated.                                       *)

\* Every located node, finished or not, resolves.
NodesResolve ==
    /\ res \in Seq(Resolved(input))
    /\ out \in Seq(Resolved(input))
    /\ stack \in Seq(Resolved(input))

\* Where the loops of the call are.
InLoops ==
    /\ pc # "done" => query # NoQuery /\ seg <= Len(Segments) + 1
    /\ pc \in {"child", "descendant", "stack"} =>
            /\ seg <= Len(Segments)
            /\ 1 <= todo /\ todo <= Len(res) + 1
            /\ Segment.descendant = (pc # "child")
    /\ pc = "stack" => todo <= Len(res)

\* A segment with one selector, a name or an index.
IsSingle(selectors) == Len(selectors) = 1 /\ selectors[1].kind \in {"Name", "Index"}

\* A child segment reserves a place for each node at the start; one that is a
\* single name or index takes at most one for each node it has processed.
Reservation ==
    pc = "child" =>
        /\ Len(res) <= reserved /\ Len(out) <= reserved
        /\ IsSingle(Segment.selectors) => Len(out) <= todo - 1

\* A singular query never descends and never has two nodes.
Singularity ==
    query # NoQuery /\ IsSingular(query) => Len(res) <= 1 /\ Len(out) <= 1

SelectionInv == TypeOK /\ NodesResolve /\ InLoops /\ Reservation /\ Singularity

\* The segments of a query.
LEMMA QuerySegments ==
  ASSUME NEW q \in Queries, q # NoQuery
  PROVE  /\ Len(q.segments) \in Nat /\ DOMAIN q.segments = 1 .. Len(q.segments)
         /\ \A k \in 1 .. Len(q.segments) :
                /\ q.segments[k].descendant \in BOOLEAN
                /\ q.segments[k].selectors \in Seq(ToSet(q.segments[k].selectors))
                /\ \A sel \in ToSet(q.segments[k].selectors) : WellFormedSelector(sel)
<1>1. PICK segs : segs = q.segments
  OBVIOUS
<1>2. /\ segs \in Seq(ToSet(segs))
      /\ \A s \in ToSet(segs) :
            /\ s.descendant \in BOOLEAN
            /\ s.selectors \in Seq(ToSet(s.selectors))
            /\ \A sel \in ToSet(s.selectors) : WellFormedSelector(sel)
  BY <1>1, QueriesAssumption
<1>3. Len(segs) \in Nat /\ DOMAIN segs = 1 .. Len(segs) /\ \A k \in 1 .. Len(segs) : segs[k] \in ToSet(segs)
  BY <1>2
<1> QED BY <1>1, <1>2, <1>3

\* The segment that the call is at.
LEMMA SegmentFacts ==
  ASSUME SelectionInv, pc # "done", seg <= Len(Segments)
  PROVE  /\ query # NoQuery /\ Len(Segments) \in Nat
         /\ seg \in 1 .. Len(Segments)
         /\ Segment.descendant \in BOOLEAN
         /\ Segment.selectors \in Seq(ToSet(Segment.selectors))
         /\ \A sel \in ToSet(Segment.selectors) : WellFormedSelector(sel)
         /\ IsSingular(query) => ~Segment.descendant /\ IsSingle(Segment.selectors)
<1>1. query \in Queries /\ query # NoQuery /\ seg \in Nat \ {0}
  BY DEF SelectionInv, TypeOK, InLoops
<1>2. PICK q, segs : q = query /\ segs = q.segments /\ segs = Segments
  BY DEF Segments
<1>3. Len(segs) \in Nat /\ DOMAIN segs = 1 .. Len(segs)
  BY <1>1, <1>2, QuerySegments
<1>4. seg \in 1 .. Len(segs)
  BY <1>1, <1>2, <1>3
<1>5. /\ segs[seg].descendant \in BOOLEAN
      /\ segs[seg].selectors \in Seq(ToSet(segs[seg].selectors))
      /\ \A sel \in ToSet(segs[seg].selectors) : WellFormedSelector(sel)
  BY <1>1, <1>2, <1>4, QuerySegments
<1>6. IsSingular(q) => ~segs[seg].descendant /\ SegmentIsSingular(segs[seg])
  BY <1>2, <1>3, <1>4 DEF IsSingular
<1>7. SegmentIsSingular(segs[seg]) => IsSingle(segs[seg].selectors)
  BY DEF SegmentIsSingular, SelectorIsSingular, IsSingle
<1> QED BY <1>1, <1>2, <1>3, <1>4, <1>5, <1>6, <1>7 DEF Segment, Segments

\* Resolved nodes are located nodes.
LEMMA ResolvedLocated ==
  ASSUME NEW doc, NEW nodes \in Seq(Resolved(doc))
  PROVE  nodes \in Seq(Located)
<1>1. \A nd \in Resolved(doc) : nd \in Located
  BY DEF Resolved
<1> QED BY <1>1

\* A call starts with the document, whose path is empty, or with nothing.
LEMMA SelectionInitInv == Init => SelectionInv
<1> SUFFICES ASSUME Init PROVE SelectionInv
  OBVIOUS
<1> USE DEF Init
<1>1. query \in Queries /\ input \in Inputs /\ input \in Values
  BY InputsAssumption
<1>2. PICK root : root = [value |-> input, path |-> <<>>]
  OBVIOUS
<1>3. root \in Resolved(input)
  BY <1>1, <1>2, RootResolved
<1>4. res \in Seq(Resolved(input)) /\ Len(res) <= 1
  BY <1>2, <1>3
<1>5. NodesResolve
  BY <1>4 DEF NodesResolve
<1>6. TypeOK
  <2>1. res \in Seq(Located) /\ out \in Seq(Located) /\ stack \in Seq(Located)
    BY <1>5, ResolvedLocated DEF NodesResolve
  <2> QED BY <1>1, <2>1 DEF TypeOK
<1>7. InLoops
  <2>1. query # NoQuery => Len(Segments) \in Nat
    BY <1>1, QuerySegments DEF Segments
  <2> QED BY <2>1 DEF InLoops
<1>8. Reservation
  BY DEF Reservation
<1>9. Singularity
  BY <1>4 DEF Singularity
<1> QED BY <1>5, <1>6, <1>7, <1>8, <1>9 DEF SelectionInv

\* The variables have their types once their nodes resolve.
LEMMA SelectionTypes ==
  ASSUME NodesResolve, query \in Queries, input \in Inputs,
         seg \in Nat \ {0}, todo \in Nat, reserved \in Nat,
         pc \in {"segment", "child", "descendant", "stack", "done"}
  PROVE  TypeOK
<1>1. res \in Seq(Located) /\ out \in Seq(Located) /\ stack \in Seq(Located)
  BY ResolvedLocated DEF NodesResolve
<1> QED BY <1>1 DEF TypeOK

\* The lengths of the sequences of nodes.
LEMMA NodeCounts ==
  ASSUME SelectionInv
  PROVE  /\ Len(res) \in Nat /\ Len(out) \in Nat /\ Len(stack) \in Nat
         /\ seg \in Nat \ {0} /\ todo \in Nat /\ reserved \in Nat
         /\ query \in Queries /\ input \in Inputs
BY DEF SelectionInv, TypeOK

\* The last node and those before it.
LEMMA FrontLast ==
  ASSUME NEW S, NEW nodes \in Seq(S), nodes # <<>>
  PROVE  /\ Len(nodes) \in Nat \ {0}
         /\ Last(nodes) = nodes[Len(nodes)] /\ Last(nodes) \in S
         /\ Front(nodes) = SubSeq(nodes, 1, Len(nodes) - 1) /\ Front(nodes) \in Seq(S)
<1>1. Len(nodes) \in Nat \ {0}
  BY EmptySequence
<1>2. Last(nodes) = nodes[Len(nodes)] /\ Last(nodes) \in S
  BY <1>1 DEF Last
<1>3. Front(nodes) = SubSeq(nodes, 1, Len(nodes) - 1) /\ Front(nodes) \in Seq(S)
  BY <1>1 DEF Front
<1> QED BY <1>1, <1>2, <1>3

\* An empty input is passed on.
LEMMA SkipSegmentInv == SelectionInv /\ SkipSegment => SelectionInv'
<1> SUFFICES ASSUME SelectionInv, SkipSegment PROVE SelectionInv'
  OBVIOUS
<1> USE DEF SkipSegment
<1>1. NodesResolve'
  BY DEF SelectionInv, NodesResolve
<1>2. TypeOK'
  BY DEF SelectionInv, TypeOK
<1>3. InLoops'
  <2>1. seg' \in Nat \ {0} /\ seg' <= Len(Segments) + 1 /\ query # NoQuery
    BY NodeCounts, SegmentFacts
  <2>2. Len(Segments)' = Len(Segments) /\ pc' = "segment"
    BY DEF Segments
  <2> QED BY <2>1, <2>2 DEF InLoops
<1>4. Reservation'
  BY DEF Reservation
<1>5. Singularity'
  BY DEF SelectionInv, Singularity
<1> QED BY <1>1, <1>2, <1>3, <1>4, <1>5 DEF SelectionInv

\* out starts empty, with a place for each input node.
LEMMA StartSegmentInv == SelectionInv /\ StartSegment => SelectionInv'
<1> SUFFICES ASSUME SelectionInv, StartSegment PROVE SelectionInv'
  OBVIOUS
<1> USE DEF StartSegment
<1>0. /\ Len(res) \in Nat /\ seg \in Nat \ {0} /\ query \in Queries /\ input \in Inputs
      /\ query # NoQuery /\ seg <= Len(Segments) /\ Segment.descendant \in BOOLEAN
  BY NodeCounts, SegmentFacts
<1>1. NodesResolve'
  BY DEF SelectionInv, NodesResolve
<1>2. TypeOK'
  <2>1. res' \in Seq(Located) /\ out' \in Seq(Located) /\ stack' \in Seq(Located)
    BY DEF SelectionInv, TypeOK
  <2>2. pc' \in {"segment", "child", "descendant", "stack", "done"}
    OBVIOUS
  <2> QED BY <1>0, <2>1, <2>2 DEF TypeOK
<1>3. InLoops'
  <2>1. Segments' = Segments /\ Segment' = Segment
    BY DEF Segments, Segment
  <2>2. Segment.descendant = (pc' # "child") /\ pc' # "done"
    BY <1>0
  <2>3. 1 <= todo' /\ todo' <= Len(res') + 1
    BY <1>0
  <2>4. seg' <= Len(Segments) /\ seg' <= Len(Segments) + 1
    BY <1>0, NodeCounts, SegmentFacts
  <2> QED BY <1>0, <2>1, <2>2, <2>3, <2>4 DEF InLoops
<1>4. Reservation'
  BY <1>0 DEF Reservation
<1>5. Singularity'
  BY DEF SelectionInv, Singularity
<1> QED BY <1>1, <1>2, <1>3, <1>4, <1>5 DEF SelectionInv

\* A node of a child segment adds no more than the growth asked for, and a
\* single name or index adds at most one of the places reserved at the start.
LEMMA ApplyChildInv == SelectionInv /\ ApplyChild => SelectionInv'
<1> SUFFICES ASSUME SelectionInv, ApplyChild PROVE SelectionInv'
  OBVIOUS
<1>0. /\ pc = "child" /\ pc' = "child" /\ todo <= Len(res) /\ todo' = todo + 1
      /\ query' = query /\ input' = input /\ seg' = seg /\ res' = res /\ stack' = stack
  BY DEF ApplyChild
<1>1. /\ Len(res) \in Nat /\ Len(out) \in Nat /\ seg \in Nat \ {0} /\ todo \in Nat
      /\ reserved \in Nat /\ query \in Queries /\ input \in Inputs
  BY NodeCounts
<1>2. /\ seg <= Len(Segments) /\ 1 <= todo /\ query # NoQuery /\ seg <= Len(Segments) + 1
      /\ Segment.descendant = FALSE
  BY <1>0 DEF SelectionInv, InLoops
<1>3. PICK node, sels : node = res[todo] /\ sels = Segment.selectors
  OBVIOUS
<1>4. node \in Resolved(input)
  <2>1. todo \in 1 .. Len(res) /\ res \in Seq(Resolved(input))
    BY <1>0, <1>1, <1>2 DEF SelectionInv, NodesResolve
  <2> QED BY <1>3, <2>1
<1>5. /\ sels \in Seq(ToSet(sels)) /\ \A sel \in ToSet(sels) : WellFormedSelector(sel)
      /\ IsSingular(query) => IsSingle(sels)
  BY <1>0, <1>2, <1>3, SegmentFacts
<1>6. PICK made, est : /\ made = appendSelectorsLocated(sels, node)
                       /\ est = estimateSelectorsOutput(sels, node.value)
  OBVIOUS
<1>7. made \in Seq(Resolved(input)) /\ est \in Nat /\ Len(made) <= est /\ Len(made) \in Nat
  <2>1. Appends(made, input, est, PlainAppends(sels, node.value))
    BY <1>4, <1>5, <1>6, SelectorsAppend
  <2> QED BY <2>1 DEF Appends
<1>8. IsSingle(sels) => Len(made) <= 1
  BY <1>4, <1>5, <1>6, SingleAppends DEF IsSingle
<1>9. out' = out \o made /\ out' \in Seq(Resolved(input)) /\ Len(out') = Len(out) + Len(made)
  <2>1. out \in Seq(Resolved(input))
    BY DEF SelectionInv, NodesResolve
  <2>2. out' = out \o made
    BY <1>3, <1>6 DEF ApplyChild
  <2> QED BY <1>7, <2>1, <2>2, ConcatFacts
<1>10. reserved' = Grow(reserved, Len(out), IF IsSingle(sels) THEN 0 ELSE est)
  BY <1>3, <1>6 DEF ApplyChild, Growth, IsSingle
<1>11. /\ reserved' \in Nat /\ reserved <= reserved'
       /\ ~IsSingle(sels) => Len(out) + est <= reserved'
  BY <1>1, <1>7, <1>10 DEF Grow
<1>12. Len(res) <= reserved /\ Len(out) <= reserved /\ (IsSingle(sels) => Len(out) <= todo - 1)
  BY <1>0, <1>3 DEF SelectionInv, Reservation
<1>13. Segments' = Segments /\ Segment' = Segment
  BY <1>0 DEF Segments, Segment
<1>14. NodesResolve'
  BY <1>0, <1>9 DEF SelectionInv, NodesResolve
<1>15. TypeOK'
  <2>1. out' \in Seq(Located) /\ res \in Seq(Located) /\ stack \in Seq(Located)
    BY <1>9, ResolvedLocated DEF SelectionInv, TypeOK
  <2>2. todo' \in Nat
    BY <1>0, <1>1
  <2> QED BY <1>0, <1>1, <1>11, <2>1, <2>2 DEF TypeOK
<1>16. InLoops'
  <2>1. 1 <= todo' /\ todo' <= Len(res) + 1
    BY <1>0, <1>1, <1>2
  <2> QED BY <1>0, <1>2, <1>13, <2>1 DEF InLoops
<1>17. IsSingle(sels) => Len(out') <= todo
  BY <1>1, <1>7, <1>8, <1>9, <1>12
<1>18. Len(res) <= reserved' /\ Len(out') <= reserved'
  <2>1. CASE IsSingle(sels)
    BY <1>0, <1>1, <1>9, <1>11, <1>12, <1>17, <1>7, <2>1
  <2>2. CASE ~IsSingle(sels)
    BY <1>1, <1>7, <1>9, <1>11, <1>12, <2>2
  <2> QED BY <2>1, <2>2
<1>19. Reservation'
  <2>1. IsSingle(sels) => Len(out') <= todo' - 1
    BY <1>0, <1>1, <1>17
  <2> QED BY <1>0, <1>3, <1>13, <1>18, <2>1 DEF Reservation
<1>20. Singularity'
  <2>1. query # NoQuery /\ IsSingular(query) => Len(res) <= 1 /\ Len(out') <= 1
    <3> SUFFICES ASSUME query # NoQuery, IsSingular(query) PROVE Len(res) <= 1 /\ Len(out') <= 1
      OBVIOUS
    <3>1. Len(res) <= 1
      BY DEF SelectionInv, Singularity
    <3>2. Len(out') <= todo /\ Len(out') \in Nat
      BY <1>1, <1>5, <1>7, <1>9, <1>17
    <3> QED BY <1>0, <1>1, <3>1, <3>2
  <2> QED BY <1>0, <2>1 DEF Singularity
<1> QED BY <1>14, <1>15, <1>16, <1>19, <1>20 DEF SelectionInv

\* A descent starts with the node alone.
LEMMA StartDescentInv == SelectionInv /\ StartDescent => SelectionInv'
<1> SUFFICES ASSUME SelectionInv, StartDescent PROVE SelectionInv'
  OBVIOUS
<1>0. /\ pc = "descendant" /\ pc' = "stack" /\ todo <= Len(res) /\ stack' = <<res[todo]>>
      /\ query' = query /\ input' = input /\ seg' = seg /\ res' = res /\ todo' = todo
      /\ out' = out /\ reserved' = reserved
  BY DEF StartDescent
<1>1. /\ Len(res) \in Nat /\ todo \in Nat /\ 1 <= todo
  BY <1>0, NodeCounts DEF SelectionInv, InLoops
<1>2. stack' \in Seq(Resolved(input))
  <2>1. todo \in 1 .. Len(res) /\ res \in Seq(Resolved(input))
    BY <1>0, <1>1 DEF SelectionInv, NodesResolve
  <2>2. res[todo] \in Resolved(input)
    BY <2>1
  <2> QED BY <1>0, <2>2
<1>3. NodesResolve'
  BY <1>0, <1>2 DEF SelectionInv, NodesResolve
<1>4. TypeOK'
  <2>1. stack' \in Seq(Located)
    BY <1>2, ResolvedLocated
  <2> QED BY <1>0, <2>1 DEF SelectionInv, TypeOK
<1>5. InLoops'
  <2>1. Segments' = Segments /\ Segment' = Segment
    BY <1>0 DEF Segments, Segment
  <2> QED BY <1>0, <2>1 DEF SelectionInv, InLoops
<1>6. Reservation'
  BY <1>0 DEF Reservation
<1>7. Singularity'
  BY <1>0 DEF SelectionInv, Singularity
<1> QED BY <1>3, <1>4, <1>5, <1>6, <1>7 DEF SelectionInv

\* A frame's children and what is selected from it resolve; no singular query
\* gets here.
LEMMA PopFrameInv == SelectionInv /\ PopFrame => SelectionInv'
<1> SUFFICES ASSUME SelectionInv, PopFrame PROVE SelectionInv'
  OBVIOUS
<1>0. /\ pc = "stack" /\ pc' = "stack" /\ stack # <<>>
      /\ query' = query /\ input' = input /\ seg' = seg /\ res' = res /\ todo' = todo
      /\ reserved' = reserved
  BY DEF PopFrame
<1>1. PICK frame, sels : frame = Last(stack) /\ sels = Segment.selectors
  OBVIOUS
<1>2. stack \in Seq(Resolved(input)) /\ out \in Seq(Resolved(input))
  BY DEF SelectionInv, NodesResolve
<1>3. frame \in Resolved(input) /\ Front(stack) \in Seq(Resolved(input))
  BY <1>0, <1>1, <1>2, FrontLast
<1>4. PICK made : made = appendSelectorsLocated(sels, frame)
  OBVIOUS
<1>5. seg <= Len(Segments) /\ Segment.descendant
  BY <1>0 DEF SelectionInv, InLoops
<1>6. made \in Seq(Resolved(input))
  <2>1. sels \in Seq(ToSet(sels)) /\ \A sel \in ToSet(sels) : WellFormedSelector(sel)
    BY <1>0, <1>1, <1>5, SegmentFacts
  <2>2. Appends(made, input, estimateSelectorsOutput(sels, frame.value), PlainAppends(sels, frame.value))
    BY <1>3, <1>4, <2>1, SelectorsAppend
  <2> QED BY <2>2 DEF Appends
<1>7. PICK c : c = ForEachChildReverse(frame.value)
  OBVIOUS
<1>8. ChildNodes(frame, c) \in Seq(Resolved(input))
  <2>1. frame.value \in Values
    BY <1>3, ResolvedValues
  <2>2. ForEachChild(frame.value) \in Seq(ChildrenOf(frame.value))
    BY <2>1, EachChild
  <2>3. c \in Seq(ChildrenOf(frame.value))
    BY <1>7, <2>2, ReverseOf DEF ForEachChildReverse
  <2> QED BY <1>3, <2>3, ChildNodesResolved
<1>9. out' = out \o made /\ stack' = Front(stack) \o ChildNodes(frame, c)
  BY <1>1, <1>4, <1>7 DEF PopFrame
<1>10. out' \in Seq(Resolved(input))
  BY <1>2, <1>6, <1>9, ConcatFacts
<1>11. stack' \in Seq(Resolved(input))
  BY <1>3, <1>8, <1>9, ConcatFacts
<1>12. NodesResolve'
  BY <1>0, <1>10, <1>11 DEF SelectionInv, NodesResolve
<1>13. TypeOK'
  <2>1. out' \in Seq(Located) /\ stack' \in Seq(Located)
    BY <1>10, <1>11, ResolvedLocated
  <2> QED BY <1>0, <2>1 DEF SelectionInv, TypeOK
<1>14. InLoops'
  <2>1. Segments' = Segments /\ Segment' = Segment
    BY <1>0 DEF Segments, Segment
  <2> QED BY <1>0, <2>1 DEF SelectionInv, InLoops
<1>15. Reservation'
  BY <1>0 DEF Reservation
<1>16. Singularity'
  <2>1. query # NoQuery /\ ~IsSingular(query)
    BY <1>0, <1>5, SegmentFacts
  <2> QED BY <1>0, <2>1 DEF Singularity
<1> QED BY <1>12, <1>13, <1>14, <1>15, <1>16 DEF SelectionInv

\* The descent of a node ends with an empty stack.
LEMMA EndDescentInv == SelectionInv /\ EndDescent => SelectionInv'
<1> SUFFICES ASSUME SelectionInv, EndDescent PROVE SelectionInv'
  OBVIOUS
<1> USE DEF EndDescent
<1>1. NodesResolve'
  BY DEF SelectionInv, NodesResolve
<1>2. TypeOK'
  BY DEF SelectionInv, TypeOK
<1>3. todo <= Len(res)
  BY DEF SelectionInv, InLoops
<1>4. InLoops'
  <2>1. Segments' = Segments /\ Segment' = Segment
    BY DEF Segments, Segment
  <2> QED BY <1>3, <2>1, NodeCounts DEF SelectionInv, InLoops
<1>5. Reservation'
  BY DEF Reservation
<1>6. Singularity'
  BY DEF SelectionInv, Singularity
<1> QED BY <1>1, <1>2, <1>4, <1>5, <1>6 DEF SelectionInv

\* The output of a segment is the input of the next.
LEMMA EndSegmentInv == SelectionInv /\ EndSegment => SelectionInv'
<1> SUFFICES ASSUME SelectionInv, EndSegment PROVE SelectionInv'
  OBVIOUS
<1> USE DEF EndSegment
<1>1. NodesResolve'
  BY DEF SelectionInv, NodesResolve
<1>2. TypeOK'
  BY DEF SelectionInv, TypeOK
<1>3. InLoops'
  <2>1. query # NoQuery /\ seg \in 1 .. Len(Segments) /\ Len(Segments) \in Nat
    BY SegmentFacts DEF SelectionInv, InLoops
  <2>2. Segments' = Segments /\ seg' = seg + 1 /\ seg' <= Len(Segments) + 1
    BY <2>1 DEF Segments
  <2> QED BY <2>1, <2>2 DEF InLoops
<1>4. Reservation'
  BY DEF Reservation
<1>5. Singularity'
  BY DEF SelectionInv, Singularity
<1> QED BY <1>1, <1>2, <1>3, <1>4, <1>5 DEF SelectionInv

\* Nothing changes at the end.
LEMMA ReturnInv == SelectionInv /\ Return => SelectionInv'
<1> SUFFICES ASSUME SelectionInv, Return PROVE SelectionInv'
  OBVIOUS
<1> USE DEF Return
<1>1. NodesResolve'
  BY DEF SelectionInv, NodesResolve
<1>2. TypeOK'
  BY DEF SelectionInv, TypeOK
<1>3. InLoops'
  BY DEF InLoops
<1>4. Reservation'
  BY DEF Reservation
<1>5. Singularity'
  BY DEF SelectionInv, Singularity
<1> QED BY <1>1, <1>2, <1>3, <1>4, <1>5 DEF SelectionInv

-----------------------------------------------------------------------------
(* Plain selection, Path.Select, under the mapping that drops the paths.   *)

\* PlainSelection brings its own copy of the modules of selectors and values:
\* each of its operators is the one of located selection.
LEMMA SameLibrary ==
  /\ \A nodes : Plain!FlattenSeq(nodes) = FlattenSeq(nodes)
  /\ \A nodes : Plain!Reverse(nodes) = Reverse(nodes)
  /\ \A nodes : Plain!Last(nodes) = Last(nodes) /\ Plain!Front(nodes) = Front(nodes)
  /\ \A nodes : Plain!Range(nodes) = Range(nodes)
<1>1. ASSUME NEW nodes PROVE Plain!FlattenSeq(nodes) = FlattenSeq(nodes)
  BY DEF Plain!FlattenSeq, FlattenSeq
<1>2. ASSUME NEW nodes PROVE Plain!Reverse(nodes) = Reverse(nodes)
  BY DEF Plain!Reverse, Reverse
<1>3. ASSUME NEW nodes PROVE Plain!Last(nodes) = Last(nodes) /\ Plain!Front(nodes) = Front(nodes)
  BY DEF Plain!Last, Last, Plain!Front, Front
<1>4. ASSUME NEW nodes PROVE Plain!Range(nodes) = Range(nodes)
  BY DEF Plain!Range, Range
<1> QED BY <1>1, <1>2, <1>3, <1>4

\* NormalizeIndex.
LEMMA SameIndexes ==
  ASSUME NEW a, NEW len
  PROVE  Plain!NormalizeIndex(a, len) = NormalizeIndex(a, len)
BY DEF Plain!NormalizeIndex, NormalizeIndex, Plain!Int64, Int64, Plain!Int64Range, Int64Range

\* SliceIndexes; its bounds are expanded because they occur under its recursion.
LEMMA SameSlices ==
  ASSUME NEW a, NEW len
  PROVE  Plain!SliceIndexes(a, len) = SliceIndexes(a, len)
BY DEF Plain!SliceIndexes, SliceIndexes, Plain!InSlice, InSlice, Plain!Count, Count,
   Plain!ResolveSliceBounds, ResolveSliceBounds, Plain!NormalizeSliceStart, NormalizeSliceStart,
   Plain!NormalizeSliceEnd, NormalizeSliceEnd, Plain!StepOf, StepOf, Plain!DefaultStart, DefaultStart,
   Plain!DefaultEnd, DefaultEnd, Plain!NoBounds, NoBounds, Plain!Int64, Int64, Plain!Int64Range, Int64Range

\* ForEachChild and ForEachChildReverse.
LEMMA SameChildren ==
  ASSUME NEW v
  PROVE  /\ Plain!ForEachChild(v) = ForEachChild(v)
         /\ Plain!ForEachChildReverse(v) = ForEachChildReverse(v)
<1>1. ASSUME NEW m PROVE Plain!sortedChildNames(m) = sortedChildNames(m)
  BY DEF Plain!sortedChildNames, sortedChildNames, Plain!Cardinality, Cardinality
<1>2. Plain!ForEachChild(v) = ForEachChild(v)
  BY <1>1 DEF Plain!ForEachChild, ForEachChild, Plain!IndexStep, IndexStep, Plain!NameStep, NameStep
<1>3. Plain!ForEachChildReverse(v) = Reverse(ForEachChild(v))
  BY <1>2, SameLibrary DEF Plain!ForEachChildReverse
<1> QED BY <1>2, <1>3 DEF ForEachChildReverse

\* ValuesOf.
LEMMA SameValues ==
  ASSUME NEW nodes
  PROVE  Plain!ValuesOf(nodes) = ValuesOf(nodes)
BY DEF Plain!ValuesOf, ValuesOf

\* Passing.
LEMMA SamePassing ==
  ASSUME NEW c, NEW P
  PROVE  Plain!Passing(c, P) = Passing(c, P)
BY DEF Plain!Passing, Passing

\* Apply, each kind of selector in turn.
LEMMA SameApply ==
  ASSUME NEW sel, NEW v, NEW P
  PROVE  Plain!Apply(sel, v, P) = Apply(sel, v, P)
<1>1. CASE sel.kind = "Name"
  BY <1>1 DEF Plain!Apply, Apply
<1>2. CASE sel.kind = "Index"
  BY <1>2, SameIndexes DEF Plain!Apply, Apply
<1>3. CASE sel.kind = "Slice"
  BY <1>3, SameSlices DEF Plain!Apply, Apply
<1>4. CASE sel.kind = "Wildcard"
  BY <1>4, SameChildren, SameValues DEF Plain!Apply, Apply
<1>5. CASE sel.kind = "Filter"
  BY <1>5, SameChildren, SameValues, SamePassing DEF Plain!Apply, Apply
<1> QED BY <1>1, <1>2, <1>3, <1>4, <1>5 DEF Plain!Apply, Apply

\* The values of the children that pass a filter.
LEMMA SamePassingValues ==
  ASSUME NEW sel, NEW v
  PROVE  Plain!PassingValues(sel, v) = PassingValues(sel, v)
<1>1. PICK S : S = Range(ValuesOf(ForEachChild(v)))
  OBVIOUS
<1>2. Plain!Range(Plain!ValuesOf(Plain!ForEachChild(v))) = S
  BY <1>1, SameChildren, SameValues, SameLibrary
<1> QED BY <1>1, <1>2 DEF Plain!PassingValues, PassingValues

\* What the selectors of a segment append for a value.
LEMMA SameSelectors ==
  ASSUME NEW selectors, NEW v
  PROVE  Plain!appendSelectors(selectors, v) = PlainAppends(selectors, v)
<1>1. \A k : Plain!Apply(selectors[k], v, Plain!PassingValues(selectors[k], v))
             = Apply(selectors[k], v, PassingValues(selectors[k], v))
  BY SameApply, SamePassingValues
<1> DEFINE X == [k \in DOMAIN selectors |->
                    Plain!Apply(selectors[k], v, Plain!PassingValues(selectors[k], v))]
           Y == [k \in DOMAIN selectors |->
                    Apply(selectors[k], v, PassingValues(selectors[k], v))]
<1>2. X = Y
  BY <1>1
<1>3. Plain!appendSelectors(selectors, v) = Plain!FlattenSeq(X) /\ PlainAppends(selectors, v) = FlattenSeq(Y)
  BY DEF Plain!appendSelectors, PlainAppends
<1> HIDE DEF X, Y
<1> QED BY <1>2, <1>3, SameLibrary

\* The values of a sequence of nodes, and of the parts a stack is taken into.
LEMMA ValuesOfNodes ==
  ASSUME NEW doc, NEW nodes \in Seq(Resolved(doc))
  PROVE  /\ ValuesOf(nodes) \in Seq(Values)
         /\ Len(ValuesOf(nodes)) = Len(nodes)
         /\ \A k \in 1 .. Len(nodes) : ValuesOf(nodes)[k] = nodes[k].value
         /\ nodes = <<>> <=> ValuesOf(nodes) = <<>>
<1>1. PICK vals : vals = ValuesOf(nodes)
  OBVIOUS
<1>2. /\ vals \in Seq(Values) /\ Len(vals) = Len(nodes)
      /\ \A k \in 1 .. Len(nodes) : vals[k] = nodes[k].value
  BY <1>1, ResolvedValues, ValuesOfElements
<1>3. (nodes = <<>> => Len(nodes) = 0) /\ (vals = <<>> => Len(vals) = 0)
  OBVIOUS
<1>4. (Len(nodes) = 0 => nodes = <<>>) /\ (Len(vals) = 0 => vals = <<>>)
  BY <1>2, EmptySequence
<1>5. nodes = <<>> <=> vals = <<>>
  BY <1>2, <1>3, <1>4
<1> QED BY <1>1, <1>2, <1>5

\* The value on top of a stack, and the values below it.
LEMMA ValuesOfStack ==
  ASSUME NEW doc, NEW nodes \in Seq(Resolved(doc)), nodes # <<>>
  PROVE  /\ Last(ValuesOf(nodes)) = Last(nodes).value
         /\ Front(ValuesOf(nodes)) = ValuesOf(Front(nodes))
<1>1. PICK vals, n : vals = ValuesOf(nodes) /\ n = Len(nodes)
  OBVIOUS
<1>2. /\ vals \in Seq(Values) /\ Len(vals) = n /\ vals # <<>>
      /\ \A k \in 1 .. n : vals[k] = nodes[k].value
  BY <1>1, ValuesOfNodes
<1>3. /\ n \in Nat \ {0} /\ Last(nodes) = nodes[n]
      /\ Front(nodes) = SubSeq(nodes, 1, n - 1) /\ Front(nodes) \in Seq(Resolved(doc))
  BY <1>1, FrontLast
<1>4. /\ Last(vals) = vals[n] /\ Front(vals) = SubSeq(vals, 1, n - 1) /\ Front(vals) \in Seq(Values)
  BY <1>2, FrontLast
<1>5. Last(vals) = Last(nodes).value
  BY <1>2, <1>3, <1>4
<1>6. PICK a, b, c : a = Front(vals) /\ b = Front(nodes) /\ c = ValuesOf(b)
  OBVIOUS
<1>7. Len(b) = n - 1 /\ \A k \in 1 .. n - 1 : b[k] = nodes[k]
  BY <1>1, <1>3, <1>6
<1>8. Len(a) = n - 1 /\ \A k \in 1 .. n - 1 : a[k] = vals[k]
  BY <1>2, <1>3, <1>4, <1>6
<1>9. c \in Seq(Values) /\ Len(c) = n - 1 /\ \A k \in 1 .. n - 1 : c[k] = b[k].value
  BY <1>3, <1>6, <1>7, ValuesOfNodes
<1>10. \A k \in 1 .. n - 1 : a[k] = c[k]
  BY <1>2, <1>3, <1>7, <1>8, <1>9
<1>11. a = c
  BY <1>4, <1>6, <1>8, <1>9, <1>10, SameElements
<1> QED BY <1>1, <1>5, <1>6, <1>11

\* What the two engines append for a resolved node has the same values.
LEMMA SameAppends ==
  ASSUME NEW doc, NEW node \in Resolved(doc), NEW S, NEW selectors \in Seq(S),
         \A sel \in S : WellFormedSelector(sel)
  PROVE  /\ appendSelectorsLocated(selectors, node) \in Seq(Resolved(doc))
         /\ ValuesOf(appendSelectorsLocated(selectors, node)) = Plain!appendSelectors(selectors, node.value)
<1>1. PICK made : made = appendSelectorsLocated(selectors, node)
  OBVIOUS
<1>2. Appends(made, doc, estimateSelectorsOutput(selectors, node.value), PlainAppends(selectors, node.value))
  BY <1>1, SelectorsAppend
<1>3. made \in Seq(Resolved(doc)) /\ ValuesOf(made) = PlainAppends(selectors, node.value)
  BY <1>2 DEF Appends
<1> QED BY <1>1, <1>3, SameSelectors

\* Concatenated outputs have the concatenated values.
LEMMA ValuesOfBoth ==
  ASSUME NEW doc, NEW a \in Seq(Resolved(doc)), NEW b \in Seq(Resolved(doc))
  PROVE  ValuesOf(a \o b) = ValuesOf(a) \o ValuesOf(b)
BY ResolvedValues, ValuesOfConcat

\* Without the paths, a call starts as plain selection does.
LEMMA InitRefines == Init => Plain!Init
<1> SUFFICES ASSUME Init PROVE Plain!Init
  OBVIOUS
<1>1. ValuesOf(<<>>) = <<>>
  BY DEF ValuesOf
<1>2. PICK root : root = [value |-> input, path |-> <<>>]
  OBVIOUS
<1>3. ValuesOf(<<root>>) = <<input>>
  <2>1. root.value = input
    BY <1>2
  <2> QED BY <2>1 DEF ValuesOf
<1>4. Plain!NoQuery = NoQuery
  BY DEF Plain!NoQuery, NoQuery
<1>5. ValuesOf(res) = IF query = NoQuery THEN <<>> ELSE <<input>>
  BY <1>1, <1>2, <1>3 DEF Init
<1>6. ValuesOf(out) = <<>> /\ ValuesOf(stack) = <<>>
  BY <1>1 DEF Init
<1> QED BY <1>4, <1>5, <1>6 DEF Init, Plain!Init

\* The two engines are at the same segment.
LEMMA SegmentRefines == Plain!Segments = Segments /\ Plain!Segment = Segment
BY DEF Plain!Segments, Segments, Plain!Segment, Segment

\* Each action of located selection is the action of plain selection that the
\* code of the two engines pairs with it: an empty input is passed on by both.
LEMMA SkipSegmentRefines == SelectionInv /\ SkipSegment => Plain!SkipSegment
<1> SUFFICES ASSUME SelectionInv, SkipSegment PROVE Plain!SkipSegment
  OBVIOUS
<1>1. ValuesOf(<<>>) = <<>>
  BY DEF ValuesOf
<1> QED BY <1>1, SegmentRefines DEF SkipSegment, Plain!SkipSegment

\* A segment is started by both.
LEMMA StartSegmentRefines == SelectionInv /\ StartSegment => Plain!StartSegment
<1> SUFFICES ASSUME SelectionInv, StartSegment PROVE Plain!StartSegment
  OBVIOUS
<1>1. ValuesOf(<<>>) = <<>>
  BY DEF ValuesOf
<1>2. ValuesOf(res) # <<>>
  BY ValuesOfNodes DEF StartSegment, SelectionInv, NodesResolve
<1> QED BY <1>1, <1>2, SegmentRefines DEF StartSegment, Plain!StartSegment

\* The selectors are applied to the same value, with the same values for result.
LEMMA ApplyChildRefines == SelectionInv /\ ApplyChild => Plain!ApplyChild
<1> SUFFICES ASSUME SelectionInv, ApplyChild PROVE Plain!ApplyChild
  OBVIOUS
<1>1. /\ pc = "child" /\ todo <= Len(res) /\ todo' = todo + 1
      /\ query' = query /\ input' = input /\ seg' = seg /\ res' = res /\ stack' = stack /\ pc' = pc
  BY DEF ApplyChild
<1>2. todo \in Nat /\ Len(res) \in Nat /\ 1 <= todo /\ seg <= Len(Segments)
  BY <1>1, NodeCounts DEF SelectionInv, InLoops
<1>3. res \in Seq(Resolved(input)) /\ out \in Seq(Resolved(input))
  BY DEF SelectionInv, NodesResolve
<1>4. PICK node, sels, made : /\ node = res[todo] /\ sels = Segment.selectors
                              /\ made = appendSelectorsLocated(sels, node)
  OBVIOUS
<1>5. todo \in 1 .. Len(res) /\ node \in Resolved(input)
  BY <1>1, <1>2, <1>3, <1>4
<1>6. sels \in Seq(ToSet(sels)) /\ \A sel \in ToSet(sels) : WellFormedSelector(sel)
  BY <1>1, <1>2, <1>4, SegmentFacts
<1>7. made \in Seq(Resolved(input)) /\ ValuesOf(made) = Plain!appendSelectors(sels, node.value)
  BY <1>4, <1>5, <1>6, SameAppends
<1>8. ValuesOf(res)[todo] = node.value /\ Len(ValuesOf(res)) = Len(res)
  BY <1>3, <1>4, <1>5, ValuesOfNodes
<1>9. out' = out \o made
  BY <1>4 DEF ApplyChild
<1>10. ValuesOf(out') = ValuesOf(out) \o ValuesOf(made)
  BY <1>3, <1>7, <1>9, ValuesOfBoth
<1>11. ValuesOf(out') = ValuesOf(out) \o Plain!appendSelectors(Plain!Segment.selectors, ValuesOf(res)[todo])
  BY <1>4, <1>7, <1>8, <1>10, SegmentRefines
<1> QED BY <1>1, <1>8, <1>11 DEF Plain!ApplyChild

\* The descent starts at the same value.
LEMMA StartDescentRefines == SelectionInv /\ StartDescent => Plain!StartDescent
<1> SUFFICES ASSUME SelectionInv, StartDescent PROVE Plain!StartDescent
  OBVIOUS
<1>1. /\ pc = "descendant" /\ todo <= Len(res) /\ stack' = <<res[todo]>> /\ pc' = "stack"
      /\ query' = query /\ input' = input /\ seg' = seg /\ res' = res /\ todo' = todo /\ out' = out
  BY DEF StartDescent
<1>2. todo \in Nat /\ Len(res) \in Nat /\ 1 <= todo /\ res \in Seq(Resolved(input))
  BY <1>1, NodeCounts DEF SelectionInv, InLoops, NodesResolve
<1>3. PICK node : node = res[todo]
  OBVIOUS
<1>4. ValuesOf(res)[todo] = node.value /\ Len(ValuesOf(res)) = Len(res)
  <2>1. todo \in 1 .. Len(res)
    BY <1>1, <1>2
  <2> QED BY <1>2, <1>3, <2>1, ValuesOfNodes
<1>5. ValuesOf(<<node>>) = <<node.value>>
  BY DEF ValuesOf
<1>6. ValuesOf(stack') = <<ValuesOf(res)[todo]>>
  BY <1>1, <1>3, <1>4, <1>5
<1> QED BY <1>1, <1>4, <1>6 DEF Plain!StartDescent

\* The frame's value is the node popped; the same values are appended and pushed.
LEMMA PopFrameRefines == SelectionInv /\ PopFrame => Plain!PopNode
<1> SUFFICES ASSUME SelectionInv, PopFrame PROVE Plain!PopNode
  OBVIOUS
<1>1. /\ pc = "stack" /\ stack # <<>> /\ pc' = pc
      /\ query' = query /\ input' = input /\ seg' = seg /\ res' = res /\ todo' = todo
  BY DEF PopFrame
<1>2. stack \in Seq(Resolved(input)) /\ out \in Seq(Resolved(input)) /\ seg <= Len(Segments)
  BY <1>1 DEF SelectionInv, NodesResolve, InLoops
<1>3. PICK frame, front, sels : frame = Last(stack) /\ front = Front(stack) /\ sels = Segment.selectors
  OBVIOUS
<1>4. frame \in Resolved(input) /\ front \in Seq(Resolved(input))
  BY <1>1, <1>2, <1>3, FrontLast
<1>5. PICK made, v : made = appendSelectorsLocated(sels, frame) /\ v = frame.value
  OBVIOUS
<1>6. made \in Seq(Resolved(input)) /\ ValuesOf(made) = Plain!appendSelectors(sels, v)
  <2>1. sels \in Seq(ToSet(sels)) /\ \A sel \in ToSet(sels) : WellFormedSelector(sel)
    BY <1>1, <1>2, <1>3, SegmentFacts
  <2> QED BY <1>4, <1>5, <2>1, SameAppends
<1>7. PICK c, kids : c = ForEachChildReverse(v) /\ kids = ChildNodes(frame, c)
  OBVIOUS
<1>8. kids \in Seq(Resolved(input)) /\ ValuesOf(kids) = ValuesOf(c)
  <2>1. v \in Values
    BY <1>4, <1>5, ResolvedValues
  <2>2. ForEachChild(v) \in Seq(ChildrenOf(v))
    BY <2>1, EachChild
  <2>3. c \in Seq(ChildrenOf(v))
    BY <1>7, <2>2, ReverseOf DEF ForEachChildReverse
  <2> QED BY <1>4, <1>5, <1>7, <2>3, ChildNodesResolved
<1>9. out' = out \o made /\ stack' = front \o kids
  BY <1>3, <1>5, <1>7 DEF PopFrame
<1>10. PICK vals : vals = ValuesOf(stack)
  OBVIOUS
<1>11. vals # <<>> /\ Last(vals) = v /\ Front(vals) = ValuesOf(front)
  BY <1>1, <1>2, <1>3, <1>5, <1>10, ValuesOfNodes, ValuesOfStack
<1>12. ValuesOf(out') = ValuesOf(out) \o Plain!appendSelectors(sels, v)
  BY <1>2, <1>6, <1>9, ValuesOfBoth
<1>13. ValuesOf(stack') = Front(vals) \o ValuesOf(c)
  <2>1. ValuesOf(front \o kids) = ValuesOf(front) \o ValuesOf(kids)
    BY <1>4, <1>8, ValuesOfBoth
  <2> QED BY <1>8, <1>9, <1>11, <2>1
<1>14. ValuesOf(c) = Plain!ValuesOf(Plain!ForEachChildReverse(v))
  BY <1>7, SameChildren, SameValues
<1>15. Plain!Last(vals) = v /\ Plain!Front(vals) = Front(vals)
  BY <1>11, SameLibrary
<1> QED BY <1>1, <1>3, <1>10, <1>11, <1>12, <1>13, <1>14, <1>15, SegmentRefines DEF Plain!PopNode

\* Both descents end together.
LEMMA EndDescentRefines == SelectionInv /\ EndDescent => Plain!EndDescent
<1> SUFFICES ASSUME SelectionInv, EndDescent PROVE Plain!EndDescent
  OBVIOUS
<1>1. ValuesOf(<<>>) = <<>>
  BY DEF ValuesOf
<1> QED BY <1>1 DEF EndDescent, Plain!EndDescent

\* Both segments end together.
LEMMA EndSegmentRefines == SelectionInv /\ EndSegment => Plain!EndSegment
<1> SUFFICES ASSUME SelectionInv, EndSegment PROVE Plain!EndSegment
  OBVIOUS
<1>1. Len(ValuesOf(res)) = Len(res)
  BY ValuesOfNodes DEF SelectionInv, NodesResolve
<1> QED BY <1>1 DEF EndSegment, Plain!EndSegment

\* Both calls return.
LEMMA ReturnRefines == SelectionInv /\ Return => Plain!Return
BY SegmentRefines DEF Return, Plain!Return

-----------------------------------------------------------------------------
(* The theorems about located selection.                                   *)

\* The inductive invariant of located selection holds for every document, every
\* query the parser can build and every meaning of its filters.
THEOREM SelectionInvHolds == Spec => []SelectionInv
<1>1. SelectionInv /\ [Next]_vars => SelectionInv'
  <2> SUFFICES ASSUME SelectionInv, [Next]_vars PROVE SelectionInv'
    OBVIOUS
  <2>1. CASE Next
    BY <2>1, SkipSegmentInv, StartSegmentInv, ApplyChildInv, StartDescentInv, PopFrameInv,
       EndDescentInv, EndSegmentInv, ReturnInv DEF Next
  <2>2. CASE UNCHANGED vars
    <3>1. TypeOK' /\ NodesResolve'
      BY <2>2 DEF vars, SelectionInv, TypeOK, NodesResolve
    <3>2. Segments' = Segments /\ Segment' = Segment
      BY <2>2 DEF vars, Segments, Segment
    <3>3. InLoops' /\ Reservation' /\ Singularity'
      BY <2>2, <3>2 DEF vars, SelectionInv, InLoops, Reservation, Singularity
    <3> QED BY <3>1, <3>3 DEF SelectionInv
  <2> QED BY <2>1, <2>2
<1> QED BY <1>1, SelectionInitInv, PTL DEF Spec

\* The variables of the loops of SelectLocated keep their types.
THEOREM SelectionTypeCorrect == Spec => []TypeOK
<1>1. SelectionInv => TypeOK
  BY DEF SelectionInv
<1> QED BY <1>1, SelectionInvHolds, PTL

\* Every located node, in a result or on the stack of a descent, carries the
\* path that leads from the document to its value.
THEOREM PathsAlwaysResolve == Spec => []PathsResolve
<1>1. SelectionInv => PathsResolve
  <2> SUFFICES ASSUME SelectionInv PROVE PathsResolve
    OBVIOUS
  <2>1. res \in Seq(Resolved(input)) /\ out \in Seq(Resolved(input)) /\ stack \in Seq(Resolved(input))
    BY DEF SelectionInv, NodesResolve
  <2>2. PICK both, all : both = res \o out /\ all = both \o stack
    OBVIOUS
  <2>3. both \in Seq(Resolved(input))
    BY <2>1, <2>2, ConcatFacts
  <2>4. all \in Seq(Resolved(input))
    BY <2>1, <2>2, <2>3, ConcatFacts
  <2>5. all = LocatedNodes
    BY <2>2 DEF LocatedNodes
  <2>6. \A k \in DOMAIN all : all[k] \in Resolved(input)
    BY <2>4
  <2>7. \A k \in DOMAIN all : At(input, all[k].path) = all[k].value
    BY <2>6 DEF Resolved
  <2> QED BY <2>5, <2>7 DEF PathsResolve
<1> QED BY <1>1, SelectionInvHolds, PTL

\* A query that IsSingular accepts never selects more than one node.
THEOREM SingularSelectsOne == Spec => []SingularAtMostOne
<1>1. SelectionInv => SingularAtMostOne
  BY DEF SelectionInv, Singularity, SingularAtMostOne
<1> QED BY <1>1, SelectionInvHolds, PTL

\* The output of a child segment never outgrows what make and slices.Grow have
\* reserved: OutputEstimate never undercounts.
THEOREM ReservationIsEnough == Spec => []ReservationSuffices
<1>1. SelectionInv => ReservationSuffices
  BY DEF SelectionInv, Reservation, ReservationSuffices
<1> QED BY <1>1, SelectionInvHolds, PTL

\* Located selection implements plain selection: SelectLocated takes the same
\* steps as Select, on the same values in the same order, and only adds paths.
THEOREM LocatedRefinesPlain == Spec => ImplementsPlain
<1>1. SelectionInv /\ [Next]_vars => [Plain!Next]_(Plain!vars)
  <2> SUFFICES ASSUME SelectionInv, [Next]_vars PROVE [Plain!Next]_(Plain!vars)
    OBVIOUS
  <2>1. CASE Next
    BY <2>1, SkipSegmentRefines, StartSegmentRefines, ApplyChildRefines, StartDescentRefines,
       PopFrameRefines, EndDescentRefines, EndSegmentRefines, ReturnRefines DEF Next, Plain!Next
  <2>2. CASE UNCHANGED vars
    BY <2>2 DEF vars, Plain!vars
  <2> QED BY <2>1, <2>2
<1> QED BY <1>1, InitRefines, SelectionInvHolds, PTL DEF Spec, ImplementsPlain, Plain!Spec
=============================================================================
