------------------------- MODULE NormalizedPathProofs -------------------------
(***************************************************************************)
(* Normalized paths, for every set of names and indexes and every number and *)
(* length of paths: they are immutable, Compare orders them, their strings *)
(* and pointers identify them, and the lengths computed for those strings and *)
(* pointers are exact.  Texts are encodings (Encode) of the sequences of their *)
(* parts by a code in which no code word begins with another (PrefixFree), or *)
(* that a stop character ends (Terminated).                                *)
(***************************************************************************)
EXTENDS NormalizedPath, NaturalRecursion, TLAPS

\* Steps as pathStepFromElement makes them from what it accepts.
GoodStep ==
    {namePathStep(n) : n \in ValidUTF8} \cup {indexPathStep(i) : i \in Indexes \cap Nat}

\* A path is the root or lies in one of the arrays.
InBounds(p) ==
    \/ p = RootPath
    \/ p.array \in DOMAIN arrays /\ p.len <= Len(arrays[p.array])

\* The inductive invariant: arrays are only ever added, they hold valid steps,
\* and each path still shows what its call owed.
Inv ==
    /\ arrays \in Seq(Seq(GoodStep))
    /\ paths \in Seq([array : Nat, len : Nat])
    /\ \A k \in DOMAIN paths : InBounds(paths[k])
    /\ given \in Seq(Seq(GoodStep)) /\ Len(given) = Len(paths)
    /\ err \in BOOLEAN
    /\ Immutable

\* Valid steps are steps.
LEMMA GoodStepIsStep == GoodStep \subseteq Step
  BY PathAssumption DEF GoodStep, Step, namePathStep, indexPathStep, pathStepName, pathStepIndex

\* An accepted element gives a valid step.
LEMMA AcceptedIsGood ==
  ASSUME NEW elem \in PathElements, Accepts(elem)
  PROVE  pathStepFromElement(elem) \in GoodStep
  BY PathAssumption
     DEF PathElements, NameElements, IndexElements, OtherElements, Accepts,
         pathStepFromElement, GoodStep

\* So does a child of a document.
LEMMA ChildIsGood ==
  ASSUME NEW array \in BOOLEAN, NEW index \in Indexes \cap Nat, NEW name \in ValidUTF8
  PROVE  childPathElement(array, index, name) \in GoodStep
  BY DEF childPathElement, GoodStep

\* What holds of elements and of Append, whatever the elements are.
LEMMA ElementOfSeq ==
  ASSUME NEW S, NEW s \in Seq(S), NEW k \in DOMAIN s
  PROVE  s[k] \in S
  OBVIOUS

\* Append keeps what was there.
LEMMA AppendFacts ==
  ASSUME NEW S, NEW s \in Seq(S), NEW e \in S
  PROVE  /\ Append(s, e) \in Seq(S)
         /\ Len(Append(s, e)) = Len(s) + 1
         /\ \A k \in DOMAIN s : Append(s, e)[k] = s[k]
         /\ Append(s, e)[Len(s) + 1] = e
  OBVIOUS

\* A path that was handed out has an array and a length.
LEMMA PathIsSlice ==
  ASSUME Inv, NEW k \in DOMAIN paths
  PROVE  paths[k].array \in Nat /\ paths[k].len \in Nat
<1>1. paths \in Seq([array : Nat, len : Nat])
  BY DEF Inv
<1>2. PICK S : S = [array : Nat, len : Nat]
  OBVIOUS
<1>3. paths \in Seq(S)
  BY <1>1, <1>2
<1>4. paths[k] \in S
  BY <1>3, ElementOfSeq
<1> QED BY <1>2, <1>4

\* What a path shows is a sequence of valid steps, of the path's length.
LEMMA StepsAreGood ==
  ASSUME Inv, NEW k \in DOMAIN paths
  PROVE  /\ StepsOf(paths[k]) \in Seq(GoodStep)
         /\ Len(StepsOf(paths[k])) = paths[k].len
<1>1. paths[k].array \in Nat /\ paths[k].len \in Nat
  BY PathIsSlice
<1>2. ASSUME NEW j \in 1 .. paths[k].len
      PROVE  arrays[paths[k].array][j] \in GoodStep
  <2>1. paths[k] # RootPath
    BY DEF RootPath
  <2>2. paths[k].array \in DOMAIN arrays /\ paths[k].len <= Len(arrays[paths[k].array])
    <3>1. InBounds(paths[k])
      BY DEF Inv
    <3> QED BY <2>1, <3>1 DEF InBounds
  <2>3. arrays[paths[k].array] \in Seq(GoodStep)
    <3>1. arrays \in Seq(Seq(GoodStep))
      BY DEF Inv
    <3> QED BY <2>2, <3>1
  <2> QED BY <1>1, <2>2, <2>3
<1> QED BY <1>1, <1>2 DEF StepsOf

\* Handing out a path on a fresh array keeps the invariant: the arrays of the
\* older paths are not touched.
LEMMA AllocatePreserves ==
  ASSUME Inv, NEW steps \in Seq(GoodStep), Allocate(steps), err' \in BOOLEAN
  PROVE  Inv'
<1>1. /\ arrays' \in Seq(Seq(GoodStep))
      /\ Len(arrays') = Len(arrays) + 1
      /\ \A a \in DOMAIN arrays : a \in DOMAIN arrays' /\ arrays'[a] = arrays[a]
      /\ Len(arrays) + 1 \in DOMAIN arrays' /\ arrays'[Len(arrays) + 1] = steps
  BY DEF Inv, Allocate
<1> DEFINE new == [array |-> Len(arrays) + 1, len |-> Len(steps)]
<1>2. /\ paths' \in Seq([array : Nat, len : Nat])
      /\ Len(paths') = Len(paths) + 1
      /\ \A k \in DOMAIN paths : paths'[k] = paths[k]
      /\ paths'[Len(paths) + 1] = new
  <2>1. new \in [array : Nat, len : Nat]
    BY DEF Inv
  <2> QED BY <2>1 DEF Inv, Allocate
<1>3. /\ given' \in Seq(Seq(GoodStep))
      /\ Len(given') = Len(paths')
      /\ \A k \in DOMAIN paths : given'[k] = given[k]
      /\ given'[Len(paths) + 1] = steps
  BY <1>2 DEF Inv, Allocate
<1>4. ASSUME NEW k \in DOMAIN paths'
      PROVE  InBounds(paths[k])' /\ StepsOf(paths[k])' = given'[k]
  <2>1. CASE k \in DOMAIN paths
    <3>1. paths'[k] = paths[k] /\ given'[k] = given[k]
      BY <2>1, <1>2, <1>3
    <3>2. InBounds(paths[k]) /\ StepsOf(paths[k]) = given[k]
      BY <2>1 DEF Inv, Immutable
    <3>3. paths[k].array \in Nat /\ paths[k].len \in Nat
      BY <2>1, PathIsSlice
    <3>4. CASE paths[k] = RootPath
      <4>1. 1 .. paths[k].len = {}
        BY <3>4 DEF RootPath
      <4>2. [j \in 1 .. paths[k].len |-> arrays'[paths[k].array][j]]
              = [j \in 1 .. paths[k].len |-> arrays[paths[k].array][j]]
        BY <4>1
      <4> QED BY <3>1, <3>2, <3>4, <4>2 DEF InBounds, StepsOf
    <3>5. CASE paths[k].array \in DOMAIN arrays /\ paths[k].len <= Len(arrays[paths[k].array])
      BY <3>1, <3>2, <3>3, <3>5, <1>1 DEF InBounds, StepsOf
    <3> QED BY <3>2, <3>4, <3>5 DEF InBounds
  <2>2. CASE k = Len(paths) + 1
    <3>1. paths'[k] = new /\ given'[k] = steps
      BY <2>2, <1>2, <1>3
    <3>2. steps = [j \in 1 .. Len(steps) |-> steps[j]]
      OBVIOUS
    <3> QED BY <3>1, <3>2, <1>1 DEF InBounds, StepsOf
  <2> QED BY <2>1, <2>2, <1>2 DEF Inv
<1> QED BY <1>1, <1>2, <1>3, <1>4 DEF Inv, Immutable

\* The initial state and every step of a caller or of selection.
LEMMA InitInv == Init => Inv
<1> SUFFICES ASSUME Init PROVE Inv
  OBVIOUS
<1>1. /\ DOMAIN paths = {1} /\ Len(paths) = 1 /\ Len(given) = 1
      /\ paths[1] = RootPath /\ given[1] = <<>>
  BY DEF Init
<1>2. RootPath \in [array : Nat, len : Nat] /\ <<>> \in Seq(GoodStep)
  BY DEF RootPath
<1>3. paths \in Seq([array : Nat, len : Nat]) /\ given \in Seq(Seq(GoodStep))
  BY <1>2 DEF Init
<1>4. StepsOf(RootPath) = <<>>
  BY DEF StepsOf, RootPath
<1>5. arrays \in Seq(Seq(GoodStep))
  BY DEF Init
<1>6. err \in BOOLEAN
  BY Zenon DEF Init
<1> QED BY <1>1, <1>3, <1>4, <1>5, <1>6 DEF Inv, Immutable, InBounds

\* Handing out the zero path keeps the invariant.
LEMMA RootPreserves ==
  ASSUME Inv, err' \in BOOLEAN, arrays' = arrays,
         paths' = Append(paths, RootPath), given' = Append(given, <<>>)
  PROVE  Inv'
<1>1. RootPath \in [array : Nat, len : Nat] /\ <<>> \in Seq(GoodStep)
  BY DEF RootPath
<1>2. /\ paths' \in Seq([array : Nat, len : Nat]) /\ Len(paths') = Len(paths) + 1
      /\ \A k \in DOMAIN paths : paths'[k] = paths[k]
      /\ paths'[Len(paths) + 1] = RootPath
  BY <1>1 DEF Inv
<1>3. /\ given' \in Seq(Seq(GoodStep)) /\ Len(given') = Len(paths')
      /\ \A k \in DOMAIN paths : given'[k] = given[k]
      /\ given'[Len(paths) + 1] = <<>>
  <2>1. given \in Seq(Seq(GoodStep)) /\ Len(given) = Len(paths)
    BY DEF Inv
  <2>2. DOMAIN given = DOMAIN paths
    BY <2>1 DEF Inv
  <2>3. /\ given' \in Seq(Seq(GoodStep)) /\ Len(given') = Len(given) + 1
        /\ \A k \in DOMAIN given : given'[k] = given[k]
        /\ given'[Len(given) + 1] = <<>>
    BY <2>1, <1>1, AppendFacts
  <2> QED BY <2>1, <2>2, <2>3, <1>2
<1>4. ASSUME NEW k \in DOMAIN paths'
      PROVE  InBounds(paths[k])' /\ StepsOf(paths[k])' = given'[k]
  <2>1. CASE k \in DOMAIN paths
    BY <2>1, <1>2, <1>3 DEF Inv, Immutable, InBounds, StepsOf
  <2>2. CASE k = Len(paths) + 1
    BY <2>2, <1>2, <1>3 DEF InBounds, RootPath, StepsOf
  <2> QED BY <2>1, <2>2, <1>2 DEF Inv
<1> QED BY <1>2, <1>3, <1>4 DEF Inv, Immutable

\* A failed call keeps it, whether or not the caller keeps the zero path.
LEMMA FailPreserves ==
  ASSUME Inv, Fail
  PROVE  Inv'
<1>1. err' \in BOOLEAN /\ arrays' = arrays
  BY Zenon DEF Fail
<1>2. CASE UNCHANGED <<paths, given>>
  BY <1>1, <1>2 DEF Inv, Immutable, InBounds, StepsOf
<1>3. CASE paths' = Append(paths, RootPath) /\ given' = Append(given, <<>>)
  BY <1>1, <1>3, RootPreserves
<1> QED BY <1>2, <1>3 DEF Fail

\* Each operation keeps the invariant: handing out a new path,
LEMMA NewPreserves ==
  ASSUME Inv, New
  PROVE  Inv'
<1>1. PICK n \in 0 .. MaxLen : \E elements \in [1 .. n -> PathElements] :
              NewNormalizedPath(elements)
  BY DEF New
<1>2. PICK elements \in [1 .. n -> PathElements] : NewNormalizedPath(elements)
  BY <1>1
<1>3. CASE elements = <<>>
  <2>1. /\ paths' = Append(paths, RootPath) /\ given' = Append(given, <<>>)
        /\ err' = FALSE /\ arrays' = arrays
    BY <1>2, <1>3 DEF NewNormalizedPath
  <2>2. err' \in BOOLEAN
    BY <2>1
  <2> QED BY <2>1, <2>2, RootPreserves
<1>4. CASE elements # <<>> /\ \A k \in DOMAIN elements : Accepts(elements[k])
  <2> DEFINE steps == [k \in DOMAIN elements |-> pathStepFromElement(elements[k])]
  <2>1. DOMAIN elements = 1 .. n /\ n \in Nat
    BY PathAssumption
  <2>2. \A k \in 1 .. n : pathStepFromElement(elements[k]) \in GoodStep
    BY <1>4, <2>1, AcceptedIsGood
  <2>3. steps \in Seq(GoodStep)
    BY <2>1, <2>2
  <2>4. Allocate(steps) /\ err' = FALSE
    BY <1>2, <1>4 DEF NewNormalizedPath
  <2> QED BY <2>3, <2>4, AllocatePreserves
<1>5. CASE elements # <<>> /\ ~ \A k \in DOMAIN elements : Accepts(elements[k])
  <2>1. Fail
    BY <1>2, <1>5 DEF NewNormalizedPath
  <2> QED BY <2>1, FailPreserves
<1> QED BY <1>3, <1>4, <1>5

\* appending one step to it,
LEMMA AppendStepPreserves ==
  ASSUME Inv, NEW k \in DOMAIN paths, NEW step \in GoodStep,
         appendStep(paths[k], step), err' \in BOOLEAN
  PROVE  Inv'
<1>1. Append(StepsOf(paths[k]), step) \in Seq(GoodStep)
  BY StepsAreGood
<1> QED BY <1>1, AllocatePreserves DEF appendStep

\* appending into a buffer,
LEMMA AppendToPreserves ==
  ASSUME Inv, AppendTo
  PROVE  Inv'
<1>1. PICK k \in DOMAIN paths, elem \in PathElements : AppendElement(paths[k], elem)
  BY DEF AppendTo
<1>2. CASE Accepts(elem)
  BY <1>1, <1>2, AcceptedIsGood, AppendStepPreserves DEF AppendElement
<1>3. CASE ~ Accepts(elem)
  BY <1>1, <1>3, FailPreserves DEF AppendElement
<1> QED BY <1>2, <1>3

\* and extending it.
LEMMA ExtendPreserves ==
  ASSUME Inv, Extend
  PROVE  Inv'
<1>1. PICK k \in DOMAIN paths, array \in BOOLEAN, index \in Indexes \cap Nat, name \in ValidUTF8 :
              extendPath(paths[k], childPathElement(array, index, name))
  BY DEF Extend
<1>2. err' \in BOOLEAN
  BY <1>1 DEF extendPath, Inv
<1> QED BY <1>1, <1>2, ChildIsGood, AppendStepPreserves DEF extendPath

\* Every reachable state satisfies the inductive invariant.
THEOREM InvHolds == Spec => []Inv
<1>1. Inv /\ [Next]_vars => Inv'
  <2> SUFFICES ASSUME Inv, [Next]_vars PROVE Inv'
    OBVIOUS
  <2>1. CASE UNCHANGED vars
    BY <2>1 DEF vars, Inv, Immutable, InBounds, StepsOf
  <2> QED BY <2>1, NewPreserves, AppendToPreserves, ExtendPreserves DEF Next
<1> QED BY <1>1, InitInv, PTL DEF Spec

\* Paths lie inside their arrays, so reading an element never fails.
THEOREM TypeCorrect == Spec => []TypeOK
<1>1. Inv => TypeOK
  <2> SUFFICES ASSUME Inv PROVE TypeOK
    OBVIOUS
  <2>1. \A s \in Seq(GoodStep) : s \in Seq(Step)
    BY GoodStepIsStep
  <2>2. arrays \in Seq(Seq(Step)) /\ given \in Seq(Seq(Step))
    BY <2>1 DEF Inv
  <2> QED BY <2>2 DEF Inv, InBounds, TypeOK
<1> QED BY <1>1, InvHolds, PTL

\* A NormalizedPath never changes once it is handed out.
THEOREM PathsAreImmutable == Spec => []Immutable
<1>1. Inv => Immutable
  BY DEF Inv
<1> QED BY <1>1, InvHolds, PTL

\* NewNormalizedPath accepts the Elements of every path and makes of them what
\* the call that made the path owed: nothing of the elements of a failed call.
THEOREM PathsAreRebuildable == Spec => []Rebuildable
<1>1. Inv => Rebuildable
  <2> SUFFICES ASSUME Inv, NEW k \in DOMAIN paths
               PROVE  Owed(Elements(paths[k])) = given[k]
    BY DEF Rebuildable
  <2>1. PICK n \in Nat, steps \in Seq(GoodStep) :
            n = paths[k].len /\ steps = StepsOf(paths[k]) /\ Len(steps) = n
    BY PathIsSlice, StepsAreGood
  <2>2. Elements(paths[k]) = [j \in 1 .. n |-> element(steps[j])]
    BY <2>1 DEF Elements
  <2>3. ASSUME NEW j \in 1 .. n
        PROVE  /\ Accepts(element(steps[j]))
               /\ pathStepFromElement(element(steps[j])) = steps[j]
    <3>1. steps[j] \in GoodStep
      BY <2>1
    <3> QED BY <3>1 DEF GoodStep, Accepts, element, pathStepFromElement, namePathStep,
                        indexPathStep, pathStepName, pathStepIndex
  <2>4. Owed(Elements(paths[k])) = [j \in 1 .. n |-> steps[j]]
    BY <2>2, <2>3 DEF Owed
  <2>5. steps = [j \in 1 .. n |-> steps[j]]
    BY <2>1
  <2>6. steps = given[k]
    BY <2>1 DEF Inv, Immutable
  <2> QED BY <2>4, <2>5, <2>6
<1> QED BY <1>1, InvHolds, PTL

-----------------------------------------------------------------------------
\* The order of paths.  A comparison is a function to -1, 0 and 1.

\* c compares the elements of S by a total order.
IsOrder(S, c) ==
    /\ c \in [S \X S -> {-1, 0, 1}]
    /\ \A x, y \in S : c[<<x, y>>] = 0 <=> x = y
    /\ \A x, y \in S : c[<<x, y>>] = -c[<<y, x>>]
    /\ \A x, y, z \in S : c[<<x, y>>] <= 0 /\ c[<<y, z>>] <= 0 => c[<<x, z>>] <= 0

\* Lexicographic, with the comparison as a function.
LexBy(c, s, t) ==
    LET differ == {k \in DOMAIN s \cap DOMAIN t : c[<<s[k], t[k]>>] # 0}
    IN  IF differ = {} THEN Cmp(Len(s), Len(t))
        ELSE LET k == CHOOSE k \in differ : \A j \in differ : k <= j
             IN  c[<<s[k], t[k]>>]

\* s and t differ in position k and agree before it.
SplitAt(s, t, k) ==
    /\ k \in DOMAIN s /\ k \in DOMAIN t
    /\ s[k] # t[k]
    /\ \A j \in 1 .. k - 1 : s[j] = t[j]

\* One of s and t begins with the other.
Agree(s, t) == \A k \in DOMAIN s \cap DOMAIN t : s[k] = t[k]

\* The order of the integers is one.
LEMMA CmpIsOrder ==
  ASSUME NEW a \in Int, NEW b \in Int
  PROVE  /\ Cmp(a, b) \in {-1, 0, 1}
         /\ Cmp(a, b) = 0 <=> a = b
         /\ Cmp(a, b) = -Cmp(b, a)
         /\ Cmp(a, b) <= 0 <=> a <= b
  BY DEF Cmp

\* Two sequences either agree or split at one position.
LEMMA AgreeOrSplit ==
  ASSUME NEW S, NEW s \in Seq(S), NEW t \in Seq(S)
  PROVE  Agree(s, t) \/ \E k \in Nat : SplitAt(s, t, k)
<1> SUFFICES ASSUME ~Agree(s, t) PROVE \E k \in Nat : SplitAt(s, t, k)
  OBVIOUS
<1> DEFINE D == {k \in DOMAIN s \cap DOMAIN t : s[k] # t[k]}
<1>1. D \in SUBSET Nat /\ D # {}
  BY DEF Agree
<1>2. PICK k \in D : \A j \in D : k <= j
  BY <1>1, LeastElement
<1>3. k \in Nat /\ k \in DOMAIN s /\ k \in DOMAIN t /\ s[k] # t[k]
  BY <1>2
<1>4. ASSUME NEW j \in 1 .. k - 1 PROVE s[j] = t[j]
  <2>1. j \in DOMAIN s \cap DOMAIN t
    BY <1>3
  <2>2. ~(k <= j)
    BY <1>3
  <2> QED BY <1>2, <2>1, <2>2
<1> QED BY <1>3, <1>4 DEF SplitAt

\* The comparison of sequences that split is that of the elements there.
LEMMA LexAtSplit ==
  ASSUME NEW S, NEW c, IsOrder(S, c), NEW s \in Seq(S), NEW t \in Seq(S),
         NEW k \in Nat, SplitAt(s, t, k)
  PROVE  LexBy(c, s, t) = c[<<s[k], t[k]>>]
<1> DEFINE D == {j \in DOMAIN s \cap DOMAIN t : c[<<s[j], t[j]>>] # 0}
<1>1. \A j \in DOMAIN s \cap DOMAIN t : s[j] \in S /\ t[j] \in S
  OBVIOUS
<1>2. k \in D
  BY <1>1 DEF SplitAt, IsOrder
<1>3. \A j \in D : k <= j
  <2> SUFFICES ASSUME NEW j \in D, j < k PROVE FALSE
    OBVIOUS
  <2>1. j \in 1 .. k - 1
    OBVIOUS
  <2>2. s[j] = t[j]
    BY <2>1 DEF SplitAt
  <2> QED BY <1>1, <2>2 DEF IsOrder
<1>4. ASSUME NEW m \in D, \A j \in D : m <= j
      PROVE  m = k
  <2>1. m \in Nat /\ m <= k /\ k <= m
    BY <1>2, <1>3, <1>4
  <2> QED BY <2>1
<1> HIDE DEF D
<1>5. (CHOOSE m \in D : \A j \in D : m <= j) = k
  BY <1>2, <1>3, <1>4
<1>6. D # {}
  BY <1>2
<1> QED BY <1>5, <1>6 DEF LexBy, D

\* The comparison of sequences that agree is that of their lengths.
LEMMA LexAgree ==
  ASSUME NEW S, NEW c, IsOrder(S, c), NEW s \in Seq(S), NEW t \in Seq(S), Agree(s, t)
  PROVE  LexBy(c, s, t) = Cmp(Len(s), Len(t))
<1> DEFINE D == {j \in DOMAIN s \cap DOMAIN t : c[<<s[j], t[j]>>] # 0}
<1>1. D = {}
  <2> SUFFICES ASSUME NEW j \in D PROVE FALSE
    OBVIOUS
  <2>1. s[j] \in S /\ s[j] = t[j]
    BY DEF Agree
  <2> QED BY <2>1 DEF IsOrder
<1> QED BY <1>1 DEF LexBy

\* Sequences that agree and have one length are equal.
LEMMA AgreeEqual ==
  ASSUME NEW S, NEW s \in Seq(S), NEW t \in Seq(S), Agree(s, t), Len(s) = Len(t)
  PROVE  s = t
  BY DEF Agree

\* The lexicographic order: zero on equal sequences only, and antisymmetric.
LEMMA LexBasics ==
  ASSUME NEW S, NEW c, IsOrder(S, c), NEW s \in Seq(S), NEW t \in Seq(S)
  PROVE  /\ LexBy(c, s, t) \in {-1, 0, 1}
         /\ LexBy(c, s, t) = 0 <=> s = t
         /\ LexBy(c, s, t) = -LexBy(c, t, s)
<1>1. CASE Agree(s, t)
  <2>1. Agree(t, s)
    BY <1>1 DEF Agree
  <2>2. LexBy(c, s, t) = Cmp(Len(s), Len(t)) /\ LexBy(c, t, s) = Cmp(Len(t), Len(s))
    BY <1>1, <2>1, LexAgree
  <2>3. Len(s) \in Int /\ Len(t) \in Int
    OBVIOUS
  <2>4. Len(s) = Len(t) => s = t
    BY <1>1, AgreeEqual
  <2> QED BY <2>2, <2>3, <2>4, CmpIsOrder
<1>2. ASSUME NEW k \in Nat, SplitAt(s, t, k)
      PROVE  /\ LexBy(c, s, t) \in {-1, 0, 1}
             /\ LexBy(c, s, t) = 0 <=> s = t
             /\ LexBy(c, s, t) = -LexBy(c, t, s)
  <2>1. SplitAt(t, s, k)
    BY <1>2 DEF SplitAt
  <2>2. LexBy(c, s, t) = c[<<s[k], t[k]>>] /\ LexBy(c, t, s) = c[<<t[k], s[k]>>]
    BY <1>2, <2>1, LexAtSplit
  <2>3. s[k] \in S /\ t[k] \in S /\ s[k] # t[k]
    BY <1>2 DEF SplitAt
  <2> QED BY <2>2, <2>3 DEF IsOrder
<1> QED BY <1>1, <1>2, AgreeOrSplit

\* It is transitive.
LEMMA LexTransitive ==
  ASSUME NEW S, NEW c, IsOrder(S, c), NEW s \in Seq(S), NEW t \in Seq(S), NEW r \in Seq(S),
         LexBy(c, s, t) <= 0, LexBy(c, t, r) <= 0
  PROVE  LexBy(c, s, r) <= 0
<1>0. Len(s) \in Nat /\ Len(t) \in Nat /\ Len(r) \in Nat
  OBVIOUS
<1>1. ASSUME NEW k \in Nat, SplitAt(s, t, k), NEW m \in Nat, SplitAt(t, r, m)
      PROVE  LexBy(c, s, r) <= 0
  <2>1. /\ k \in DOMAIN s /\ k \in DOMAIN t /\ m \in DOMAIN t /\ m \in DOMAIN r
        /\ s[k] \in S /\ t[k] \in S /\ t[m] \in S /\ r[m] \in S
    BY <1>1 DEF SplitAt
  <2>2. c[<<s[k], t[k]>>] <= 0 /\ c[<<t[m], r[m]>>] <= 0
    BY <1>1, LexAtSplit
  <2>3. CASE k < m
    <3>1. SplitAt(s, r, k) /\ r[k] = t[k]
      BY <1>1, <2>1, <2>3 DEF SplitAt
    <3>2. LexBy(c, s, r) = c[<<s[k], r[k]>>]
      BY <3>1, LexAtSplit
    <3> QED BY <2>2, <3>1, <3>2
  <2>4. CASE m < k
    <3>1. SplitAt(s, r, m) /\ s[m] = t[m]
      BY <1>1, <2>1, <2>4 DEF SplitAt
    <3>2. LexBy(c, s, r) = c[<<s[m], r[m]>>]
      BY <3>1, LexAtSplit
    <3> QED BY <2>2, <3>1, <3>2
  <2>5. CASE m = k
    <3>1. r[k] \in S /\ c[<<s[k], r[k]>>] <= 0
      BY <2>1, <2>2, <2>5 DEF IsOrder
    <3>2. s[k] # r[k]
      <4> SUFFICES ASSUME s[k] = r[k] PROVE FALSE
        OBVIOUS
      <4>1. c[<<s[k], t[k]>>] <= 0 /\ c[<<t[k], s[k]>>] <= 0
        BY <2>2, <2>5
      <4>2. c[<<s[k], t[k]>>] \in {-1, 0, 1} /\ c[<<t[k], s[k]>>] \in {-1, 0, 1}
        BY <2>1 DEF IsOrder
      <4>3. c[<<s[k], t[k]>>] = -c[<<t[k], s[k]>>]
        BY <2>1 DEF IsOrder
      <4>4. c[<<s[k], t[k]>>] = 0
        BY <4>1, <4>2, <4>3
      <4> QED BY <1>1, <2>1, <4>4 DEF IsOrder, SplitAt
    <3>3. SplitAt(s, r, k)
      BY <1>1, <2>1, <2>5, <3>2 DEF SplitAt
    <3>4. LexBy(c, s, r) = c[<<s[k], r[k]>>]
      BY <3>3, LexAtSplit
    <3> QED BY <3>1, <3>4
  <2> QED BY <2>3, <2>4, <2>5
<1>2. ASSUME NEW k \in Nat, SplitAt(s, t, k), Agree(t, r)
      PROVE  LexBy(c, s, r) <= 0
  <2>1. c[<<s[k], t[k]>>] <= 0
    BY <1>2, LexAtSplit
  <2>2. Len(t) <= Len(r)
    BY <1>0, <1>2, LexAgree, CmpIsOrder
  <2>3. SplitAt(s, r, k) /\ r[k] = t[k]
    BY <1>0, <1>2, <2>2 DEF SplitAt, Agree
  <2>4. LexBy(c, s, r) = c[<<s[k], r[k]>>]
    BY <2>3, LexAtSplit
  <2> QED BY <2>1, <2>3, <2>4
<1>3. ASSUME Agree(s, t), NEW m \in Nat, SplitAt(t, r, m)
      PROVE  LexBy(c, s, r) <= 0
  <2>1. c[<<t[m], r[m]>>] <= 0
    BY <1>3, LexAtSplit
  <2>2. Len(s) <= Len(t)
    BY <1>0, <1>3, LexAgree, CmpIsOrder
  <2>3. CASE m <= Len(s)
    <3>1. SplitAt(s, r, m) /\ s[m] = t[m]
      BY <1>0, <1>3, <2>2, <2>3 DEF SplitAt, Agree
    <3>2. LexBy(c, s, r) = c[<<s[m], r[m]>>]
      BY <3>1, LexAtSplit
    <3> QED BY <2>1, <3>1, <3>2
  <2>4. CASE Len(s) < m
    <3>1. Agree(s, r) /\ Len(s) <= Len(r)
      BY <1>0, <1>3, <2>2, <2>4 DEF SplitAt, Agree
    <3> QED BY <1>0, <3>1, LexAgree, CmpIsOrder
  <2>5. m \in Nat
    BY <1>3
  <2> QED BY <1>0, <2>3, <2>4, <2>5
<1>4. ASSUME Agree(s, t), Agree(t, r)
      PROVE  LexBy(c, s, r) <= 0
  <2>1. Len(s) <= Len(t) /\ Len(t) <= Len(r)
    BY <1>0, <1>4, LexAgree, CmpIsOrder
  <2>2. Agree(s, r)
    BY <1>0, <1>4, <2>1 DEF Agree
  <2> QED BY <1>0, <2>1, <2>2, LexAgree, CmpIsOrder
<1> QED BY <1>1, <1>2, <1>3, <1>4, AgreeOrSplit

\* Cmp on the characters of names and compareSteps on valid steps, as functions.

runeCmp == [p \in Nat \X Nat |-> Cmp(p[1], p[2])]
stepCmp == [p \in GoodStep \X GoodStep |-> compareSteps(p[1], p[2])]

\* Characters compare as their code points.
LEMMA RuneOrder == IsOrder(Nat, runeCmp)
<1>1. \A a, b \in Nat : runeCmp[<<a, b>>] = Cmp(a, b)
  BY DEF runeCmp
<1>2. \A a, b \in Nat : a \in Int /\ b \in Int
  OBVIOUS
<1>3. runeCmp \in [Nat \X Nat -> {-1, 0, 1}]
  BY <1>2, CmpIsOrder DEF runeCmp
<1>4. ASSUME NEW x \in Nat, NEW y \in Nat, NEW z \in Nat,
             runeCmp[<<x, y>>] <= 0, runeCmp[<<y, z>>] <= 0
      PROVE  runeCmp[<<x, z>>] <= 0
  <2>1. x <= y /\ y <= z
    BY <1>1, <1>2, <1>4, CmpIsOrder
  <2>2. x <= z
    BY <1>2, <2>1
  <2> QED BY <1>1, <1>2, <2>2, CmpIsOrder
<1> QED BY <1>1, <1>2, <1>3, <1>4, CmpIsOrder DEF IsOrder

\* Lexicographic is LexBy of the comparison it is given.
LEMMA CompareNames ==
  ASSUME NEW s \in Seq(Nat), NEW t \in Seq(Nat)
  PROVE  Lexicographic(s, t, Cmp) = LexBy(runeCmp, s, t)
<1>1. \A k \in DOMAIN s \cap DOMAIN t : Cmp(s[k], t[k]) = runeCmp[<<s[k], t[k]>>]
  BY DEF runeCmp
<1> DEFINE D == {k \in DOMAIN s \cap DOMAIN t : Cmp(s[k], t[k]) # 0}
           E == {k \in DOMAIN s \cap DOMAIN t : runeCmp[<<s[k], t[k]>>] # 0}
           k == CHOOSE k \in D : \A j \in D : k <= j
<1>2. D = E
  BY <1>1
<1>3. D # {} => k \in D
  <2>1. D \in SUBSET Nat
    OBVIOUS
  <2> HIDE DEF D
  <2>2. D # {} => \E x \in D : \A j \in D : x <= j
    BY <2>1, LeastElement
  <2> QED BY <2>2
<1>4. D # {} => Cmp(s[k], t[k]) = runeCmp[<<s[k], t[k]>>]
  BY <1>1, <1>3
<1>5. Lexicographic(s, t, Cmp) = IF D = {} THEN Cmp(Len(s), Len(t)) ELSE Cmp(s[k], t[k])
  BY DEF Lexicographic
<1>6. LexBy(runeCmp, s, t) = IF D = {} THEN Cmp(Len(s), Len(t)) ELSE runeCmp[<<s[k], t[k]>>]
  <2>1. LexBy(runeCmp, s, t)
          = IF E = {} THEN Cmp(Len(s), Len(t))
            ELSE runeCmp[<<s[CHOOSE m \in E : \A j \in E : m <= j],
                           t[CHOOSE m \in E : \A j \in E : m <= j]>>]
    BY DEF LexBy
  <2> HIDE DEF D, E
  <2> QED BY <1>2, <2>1
<1> HIDE DEF D, k
<1> QED BY <1>4, <1>5, <1>6

\* A valid step is a name and the index 0, or no name and an index.
LEMMA GoodStepCases ==
  ASSUME NEW x \in GoodStep
  PROVE  \/ x.kind = 1 /\ x.index = 0 /\ x.name \in ValidUTF8 /\ x = namePathStep(x.name)
         \/ x.kind = 0 /\ x.name = <<>> /\ x.index \in Indexes \cap Nat /\
           x = indexPathStep(x.index)
  BY DEF GoodStep, namePathStep, indexPathStep, pathStepName, pathStepIndex

\* compareSteps, case by case.
LEMMA CompareStepCases ==
  ASSUME NEW x \in GoodStep, NEW y \in GoodStep
  PROVE  compareSteps(x, y) = IF x.kind = 1 /\ y.kind = 1 THEN LexBy(runeCmp, x.name, y.name)
                              ELSE IF x.kind = y.kind THEN Cmp(x.index, y.index)
                              ELSE Cmp(x.kind, y.kind)
<1>1. x.kind = 1 /\ y.kind = 1 => x.name \in Seq(Nat) /\ y.name \in Seq(Nat)
  BY GoodStepCases, NameAssumption
<1> QED BY <1>1, CompareNames DEF compareSteps, pathStepName

\* Indexes come before names; two names compare as strings, two indexes as ints.
LEMMA StepOrder == IsOrder(GoodStep, stepCmp)
<1>1. \A x, y \in GoodStep : stepCmp[<<x, y>>] = compareSteps(x, y)
  BY DEF stepCmp
<1>2. \A x \in GoodStep : /\ x.kind \in {0, 1} /\ x.index \in Int
                          /\ x.kind = 1 => x.name \in Seq(Nat)
  BY GoodStepCases, NameAssumption
<1>3. ASSUME NEW x \in GoodStep, NEW y \in GoodStep
      PROVE  /\ compareSteps(x, y) \in {-1, 0, 1}
             /\ compareSteps(x, y) = 0 <=> x = y
             /\ compareSteps(x, y) = -compareSteps(y, x)
  <2>1. CASE x.kind = 1 /\ y.kind = 1
    <3>1. compareSteps(x, y) = LexBy(runeCmp, x.name, y.name)
      BY <2>1, CompareStepCases
    <3>2. compareSteps(y, x) = LexBy(runeCmp, y.name, x.name)
      BY <2>1, CompareStepCases
    <3>3. x.name = y.name <=> x = y
      BY <2>1, GoodStepCases
    <3> QED BY <1>2, <2>1, <3>1, <3>2, <3>3, RuneOrder, LexBasics
  <2>2. CASE x.kind = 0 /\ y.kind = 0
    <3>1. compareSteps(x, y) = Cmp(x.index, y.index) /\
            compareSteps(y, x) = Cmp(y.index, x.index)
      BY <2>2, CompareStepCases
    <3>2. x.index = y.index <=> x = y
      BY <2>2, GoodStepCases
    <3> QED BY <1>2, <3>1, <3>2, CmpIsOrder
  <2>3. CASE x.kind # y.kind
    <3>1. compareSteps(x, y) = Cmp(x.kind, y.kind) /\ compareSteps(y, x) = Cmp(y.kind, x.kind)
      BY <2>3, CompareStepCases
    <3> QED BY <1>2, <2>3, <3>1, CmpIsOrder
  <2> QED BY <1>2, <2>1, <2>2, <2>3
<1>4. ASSUME NEW x \in GoodStep, NEW y \in GoodStep, NEW z \in GoodStep,
             compareSteps(x, y) <= 0, compareSteps(y, z) <= 0
      PROVE  compareSteps(x, z) <= 0
  <2>1. ASSUME NEW u \in GoodStep, NEW v \in GoodStep, u.kind # v.kind
        PROVE  compareSteps(u, v) <= 0 <=> u.kind = 0
    <3>1. compareSteps(u, v) = Cmp(u.kind, v.kind)
      BY <2>1, CompareStepCases
    <3> QED BY <1>2, <2>1, <3>1, CmpIsOrder
  <2>2. CASE x.kind = 1 /\ y.kind = 1 /\ z.kind = 1
    BY <1>2, <1>4, <2>2, CompareStepCases, RuneOrder, LexTransitive
  <2>3. CASE x.kind = 0 /\ y.kind = 0 /\ z.kind = 0
    <3>1. x.index <= y.index /\ y.index <= z.index
      BY <1>2, <1>4, <2>3, CompareStepCases, CmpIsOrder
    <3>2. x.index <= z.index
      BY <1>2, <3>1
    <3> QED BY <1>2, <2>3, <3>2, CompareStepCases, CmpIsOrder
  <2>4. CASE x.kind = 0 /\ z.kind = 1
    BY <2>1, <2>4
  <2>5. x.kind <= y.kind /\ y.kind <= z.kind
    BY <1>2, <1>4, <2>1
  <2> QED BY <1>2, <2>2, <2>3, <2>4, <2>5
<1>5. stepCmp \in [GoodStep \X GoodStep -> {-1, 0, 1}]
  BY <1>3 DEF stepCmp
<1> QED BY <1>1, <1>3, <1>4, <1>5 DEF IsOrder

\* Compare is LexBy of compareSteps.
LEMMA ComparePaths ==
  ASSUME NEW s \in Seq(GoodStep), NEW t \in Seq(GoodStep)
  PROVE  Compare(s, t) = LexBy(stepCmp, s, t)
<1>1. \A k \in DOMAIN s \cap DOMAIN t : compareSteps(s[k], t[k]) = stepCmp[<<s[k], t[k]>>]
  BY DEF stepCmp
<1> DEFINE D == {k \in DOMAIN s \cap DOMAIN t : compareSteps(s[k], t[k]) # 0}
           E == {k \in DOMAIN s \cap DOMAIN t : stepCmp[<<s[k], t[k]>>] # 0}
           k == CHOOSE k \in D : \A j \in D : k <= j
<1>2. D = E
  BY <1>1
<1>3. D # {} => k \in D
  <2>1. D \in SUBSET Nat
    OBVIOUS
  <2> HIDE DEF D
  <2>2. D # {} => \E x \in D : \A j \in D : x <= j
    BY <2>1, LeastElement
  <2> QED BY <2>2
<1>4. D # {} => compareSteps(s[k], t[k]) = stepCmp[<<s[k], t[k]>>]
  BY <1>1, <1>3
<1>5. Compare(s, t) = IF D = {} THEN Cmp(Len(s), Len(t)) ELSE compareSteps(s[k], t[k])
  BY DEF Compare, Lexicographic
<1>6. LexBy(stepCmp, s, t) = IF D = {} THEN Cmp(Len(s), Len(t)) ELSE stepCmp[<<s[k], t[k]>>]
  <2>1. LexBy(stepCmp, s, t)
          = IF E = {} THEN Cmp(Len(s), Len(t))
            ELSE stepCmp[<<s[CHOOSE m \in E : \A j \in E : m <= j],
                           t[CHOOSE m \in E : \A j \in E : m <= j]>>]
    BY DEF LexBy
  <2> HIDE DEF D, E
  <2> QED BY <1>2, <2>1
<1> HIDE DEF D, k
<1> QED BY <1>4, <1>5, <1>6

\* What a path shows is a sequence of valid steps.
LEMMA ShownAreGood ==
  ASSUME Inv, NEW p \in Shown
  PROVE  p \in Seq(GoodStep)
  BY StepsAreGood DEF Shown

\* Compare is a total order of the paths that were handed out, and Equal is its
\* equality: what sorting and deduplicating located nodes by path rely on.
THEOREM PathsAreOrdered == Spec => []CompareIsOrder
<1>1. Inv => CompareIsOrder
  <2> SUFFICES ASSUME Inv, NEW p \in Shown, NEW q \in Shown
               PROVE  /\ Equal(p, q) <=> p = q
                      /\ Compare(p, q) = -Compare(q, p)
                      /\ Compare(p, q) <= 0 =>
                            \A r \in Shown : Compare(q, r) <= 0 => Compare(p, r) <= 0
    BY DEF CompareIsOrder
  <2>1. \A x \in Shown : x \in Seq(GoodStep)
    BY ShownAreGood
  <2>2. Compare(p, q) = 0 <=> p = q
    BY <2>1, ComparePaths, StepOrder, LexBasics
  <2>3. Compare(p, q) = -Compare(q, p)
    BY <2>1, ComparePaths, StepOrder, LexBasics
  <2>4. ASSUME NEW r \in Shown, Compare(p, q) <= 0, Compare(q, r) <= 0
        PROVE  Compare(p, r) <= 0
    BY <2>1, <2>4, ComparePaths, StepOrder, LexTransitive
  <2> QED BY <2>2, <2>3, <2>4 DEF Equal
<1> QED BY <1>1, InvHolds, PTL

-----------------------------------------------------------------------------
\* Codes.  No code of an element of A is empty or begins with another one.
PrefixFree(A, code) ==
    \A x, y \in A : code[x] # <<>> /\ (Agree(code[x], code[y]) => x = y)

Encode(code, s) == FlattenSeq([k \in DOMAIN s |-> code[s[k]]])

\* The codes of a sequence and what encoding concatenates.
LEMMA EncodeUnfold ==
  ASSUME NEW A, NEW code \in [A -> Seq(Nat)], NEW s \in Seq(A)
  PROVE  \E F \in [0 .. Len(s) -> Seq(Nat)] :
            /\ F[0] = <<>>
            /\ \A k \in 1 .. Len(s) : F[k] = F[k - 1] \o code[s[k]]
            /\ Encode(code, s) = F[Len(s)]
            /\ \A k \in 0 .. Len(s) : Begins(F[k], F[Len(s)])
<1> DEFINE seqs == [k \in DOMAIN s |-> code[s[k]]]
<1>0. PICK n \in Nat : n = Len(s)
  OBVIOUS
<1>1. DOMAIN s = 1 .. n /\ \A k \in 1 .. n : s[k] \in A
  BY <1>0
<1>2. \A k \in 1 .. n : seqs[k] = code[s[k]] /\ seqs[k] \in Seq(Nat)
  BY <1>1
<1>3. seqs \in Seq(Seq(Nat)) /\ Len(seqs) = n
  BY <1>1, <1>2
<1>4. Encode(code, s) = FlattenSeq(seqs)
  BY DEF Encode
<1> HIDE DEF seqs
<1>5. PICK F \in [0 .. Len(seqs) -> Seq(Nat)] :
            /\ Concatenates(F, seqs)
            /\ FlattenSeq(seqs) = F[Len(seqs)]
            /\ \A k \in 0 .. Len(seqs) : Begins(F[k], F[Len(seqs)])
  BY <1>3, FlattenUnfold
<1>6. F \in [0 .. n -> Seq(Nat)]
  BY <1>3
<1>7. F[0] = <<>> /\ \A k \in 1 .. n : F[k] = F[k - 1] \o code[s[k]]
  BY <1>2, <1>3, <1>5 DEF Concatenates
<1> QED BY <1>0, <1>3, <1>4, <1>5, <1>6, <1>7

\* Beginnings of sequences that agree agree.
LEMMA AgreeBegins ==
  ASSUME NEW S, NEW a \in Seq(S), NEW b \in Seq(S), NEW c \in Seq(S), NEW d \in Seq(S),
         Begins(a, c), Begins(b, d), Agree(c, d)
  PROVE  Agree(a, b)
<1> SUFFICES ASSUME NEW k \in DOMAIN a \cap DOMAIN b PROVE a[k] = b[k]
  BY DEF Agree
<1>1. k \in 1 .. Len(a) /\ k \in 1 .. Len(b) /\ k \in 1 .. Len(c) /\ k \in 1 .. Len(d)
  BY DEF Begins
<1>2. c[k] = d[k]
  BY <1>1 DEF Agree
<1> QED BY <1>1, <1>2 DEF Begins

\* So do sequences behind a common beginning.
LEMMA AgreeBehind ==
  ASSUME NEW S, NEW a \in Seq(S), NEW b \in Seq(S), NEW c \in Seq(S), Agree(a \o b, a \o c)
  PROVE  Agree(b, c)
<1> SUFFICES ASSUME NEW k \in DOMAIN b \cap DOMAIN c PROVE b[k] = c[k]
  BY DEF Agree
<1>0. Len(a) \in Nat /\ Len(b) \in Nat /\ Len(c) \in Nat /\ k \in 1 .. Len(b) /\
        k \in 1 .. Len(c)
  OBVIOUS
<1>1. (a \o b)[Len(a) + k] = b[k] /\ (a \o c)[Len(a) + k] = c[k]
  BY <1>0, ConcatFacts
<1>2. Len(a) + k \in DOMAIN (a \o b) /\ Len(a) + k \in DOMAIN (a \o c)
  BY <1>0, ConcatFacts
<1> QED BY <1>1, <1>2 DEF Agree

\* Nothing but the empty sequence can be added to a beginning of itself.
LEMMA BeginsNothing ==
  ASSUME NEW S, NEW a \in Seq(S), NEW b \in Seq(S), Begins(a \o b, a)
  PROVE  b = <<>>
<1>1. Len(a) \in Nat /\ Len(b) \in Nat /\ Len(a \o b) = Len(a) + Len(b)
  BY ConcatFacts
<1>2. Len(b) = 0
  BY <1>1 DEF Begins
<1> QED BY <1>2, EmptySequence

\* A text can be decoded from the left: encodings that agree are encodings of
\* sequences that agree, and equal encodings are encodings of equal sequences.
LEMMA PrefixDecode ==
  ASSUME NEW A, NEW code \in [A -> Seq(Nat)], PrefixFree(A, code),
         NEW s \in Seq(A), NEW t \in Seq(A), Agree(Encode(code, s), Encode(code, t))
  PROVE  /\ Agree(s, t)
         /\ Encode(code, s) = Encode(code, t) => s = t
<1>1. PICK m \in Nat, n \in Nat : m = Len(s) /\ n = Len(t)
  OBVIOUS
<1>2. PICK F \in [0 .. m -> Seq(Nat)] :
            /\ F[0] = <<>>
            /\ \A k \in 1 .. m : F[k] = F[k - 1] \o code[s[k]]
            /\ Encode(code, s) = F[m]
            /\ \A k \in 0 .. m : Begins(F[k], F[m])
  BY <1>1, EncodeUnfold
<1>3. PICK G \in [0 .. n -> Seq(Nat)] :
            /\ G[0] = <<>>
            /\ \A k \in 1 .. n : G[k] = G[k - 1] \o code[t[k]]
            /\ Encode(code, t) = G[n]
            /\ \A k \in 0 .. n : Begins(G[k], G[n])
  BY <1>1, EncodeUnfold
<1>4. /\ \A k \in 1 .. m : s[k] \in A /\ code[s[k]] \in Seq(Nat)
      /\ \A k \in 1 .. n : t[k] \in A /\ code[t[k]] \in Seq(Nat)
  BY <1>1
<1>5. F[m] \in Seq(Nat) /\ G[n] \in Seq(Nat) /\ Agree(F[m], G[n])
  BY <1>2, <1>3
<1>6. PICK b \in Nat : b <= m /\ b <= n /\ (b = m \/ b = n)
  <2>1. CASE m <= n
    <3>1. m \in Nat /\ m <= m /\ m <= n /\ (m = m \/ m = n)
      BY <2>1
    <3> QED BY <3>1
  <2>2. CASE n <= m
    <3>1. n \in Nat /\ n <= m /\ n <= n /\ (n = m \/ n = n)
      BY <2>2
    <3> QED BY <3>1
  <2> QED BY <2>1, <2>2
<1> DEFINE T == {k \in 0 .. b : F[k] = G[k] /\ \A j \in 1 .. k : s[j] = t[j]}
<1>7. 0 \in T
  BY <1>2, <1>3
<1>8. ASSUME NEW k \in 0 .. b - 1, k \in T
      PROVE  k + 1 \in T
  <2>1. PICK i \in 1 .. b : i = k + 1
    OBVIOUS
  <2>2. i \in 1 .. m /\ i \in 1 .. n /\ i \in 0 .. m /\ i \in 0 .. n /\ i - 1 = k /\
          k \in 0 .. m
    BY <1>6, <2>1
  <2>3. F[i] = F[k] \o code[s[i]] /\ Begins(F[i], F[m]) /\ F[i] \in Seq(Nat) /\
          F[k] \in Seq(Nat)
    BY <1>2, <2>2
  <2>4. G[i] = F[k] \o code[t[i]] /\ Begins(G[i], G[n]) /\ G[i] \in Seq(Nat)
    BY <1>3, <1>8, <2>2
  <2>5. Agree(F[i], G[i])
    BY <1>5, <2>3, <2>4, AgreeBegins
  <2>6. Agree(code[s[i]], code[t[i]])
    <3>1. PICK f \in Seq(Nat), x \in Seq(Nat), y \in Seq(Nat) :
              f = F[k] /\ x = code[s[i]] /\ y = code[t[i]]
      BY <1>4, <2>2, <2>3
    <3>2. Agree(f \o x, f \o y)
      BY <2>3, <2>4, <2>5, <3>1
    <3>3. Agree(x, y)
      BY <3>2, AgreeBehind
    <3> QED BY <3>1, <3>3
  <2>7. s[i] = t[i]
    BY <1>4, <2>2, <2>6 DEF PrefixFree
  <2>8. \A j \in 1 .. i : j \in 1 .. k \/ j = i
    BY <2>1
  <2>9. \A j \in 1 .. i : s[j] = t[j]
    BY <1>8, <2>7, <2>8
  <2>10. F[i] = G[i]
    BY <2>3, <2>4, <2>7
  <2>11. i \in T
    BY <2>9, <2>10
  <2> QED BY <2>1, <2>11
<1>9. b \in T
  <2> HIDE DEF T
  <2>1. \A k \in 0 .. b : k \in T
    BY <1>7, <1>8, IntervalInduction
  <2> QED BY <2>1
<1>10. Agree(s, t)
  <2> SUFFICES ASSUME NEW k \in DOMAIN s \cap DOMAIN t PROVE s[k] = t[k]
    BY DEF Agree
  <2>1. k \in 1 .. m /\ k \in 1 .. n
    BY <1>1
  <2>2. k \in 1 .. b
    BY <1>6, <2>1
  <2> QED BY <1>9, <2>2
<1>11. ASSUME Encode(code, s) = Encode(code, t)
       PROVE  m = n
  <2>1. F[m] = G[n] /\ F[b] = G[b]
    BY <1>2, <1>3, <1>9, <1>11
  <2>2. ASSUME b < m PROVE FALSE
    <3>1. PICK i \in 1 .. m : i = b + 1 /\ i - 1 = b /\ i \in 0 .. m /\ b \in 0 .. m
      BY <2>2
    <3>2. F[i] = F[b] \o code[s[i]] /\ Begins(F[i], F[m]) /\ F[b] \in Seq(Nat) /\
            F[i] \in Seq(Nat)
      BY <1>2, <3>1
    <3>3. code[s[i]] # <<>> /\ code[s[i]] \in Seq(Nat)
      BY <1>4 DEF PrefixFree
    <3>4. F[b] = F[m]
      BY <1>6, <2>1, <2>2
    <3>5. PICK f \in Seq(Nat), c \in Seq(Nat) : f = F[b] /\ c = code[s[i]]
      BY <3>2, <3>3
    <3>6. Begins(f \o c, f) /\ c # <<>>
      BY <3>2, <3>3, <3>4, <3>5
    <3> QED BY <3>6, BeginsNothing
  <2>3. ASSUME b < n PROVE FALSE
    <3>1. PICK i \in 1 .. n : i = b + 1 /\ i - 1 = b /\ i \in 0 .. n /\ b \in 0 .. n
      BY <2>3
    <3>2. G[i] = G[b] \o code[t[i]] /\ Begins(G[i], G[n]) /\ G[b] \in Seq(Nat) /\
            G[i] \in Seq(Nat)
      BY <1>3, <3>1
    <3>3. code[t[i]] # <<>> /\ code[t[i]] \in Seq(Nat)
      BY <1>4 DEF PrefixFree
    <3>4. G[b] = G[n]
      BY <1>6, <2>1, <2>3
    <3>5. PICK f \in Seq(Nat), c \in Seq(Nat) : f = G[b] /\ c = code[t[i]]
      BY <3>2, <3>3
    <3>6. Begins(f \o c, f) /\ c # <<>>
      BY <3>2, <3>3, <3>4, <3>5
    <3> QED BY <3>6, BeginsNothing
  <2> QED BY <1>6, <2>2, <2>3
<1>12. Encode(code, s) = Encode(code, t) => s = t
  BY <1>1, <1>10, <1>11, AgreeEqual
<1> QED BY <1>10, <1>12

\* Encoding one element more writes its code behind the others.
EncodesLast(code, s, x) == Encode(code, Append(s, x)) = Encode(code, s) \o code[x]

\* So it does for every code.
LEMMA EncodeAppend ==
  ASSUME NEW A, NEW code \in [A -> Seq(Nat)], NEW s \in Seq(A), NEW x \in A
  PROVE  EncodesLast(code, s, x)
<1>1. PICK n \in Nat : n = Len(s)
  OBVIOUS
<1>2. PICK u \in Seq(A) : u = Append(s, x)
  BY AppendFacts
<1>3. Len(u) = n + 1 /\ u[n + 1] = x /\ \A k \in 1 .. n : u[k] = s[k]
  BY <1>1, <1>2, AppendFacts
<1>12. PICK N \in Nat : N = Len(u)
  OBVIOUS
<1>13. N = n + 1
  BY <1>3, <1>12
<1>4. PICK F \in [0 .. N -> Seq(Nat)] :
            /\ F[0] = <<>>
            /\ \A k \in 1 .. N : F[k] = F[k - 1] \o code[u[k]]
            /\ Encode(code, u) = F[N]
            /\ \A k \in 0 .. N : Begins(F[k], F[N])
  BY <1>12, EncodeUnfold
<1>5. PICK G \in [0 .. n -> Seq(Nat)] :
            /\ G[0] = <<>>
            /\ \A k \in 1 .. n : G[k] = G[k - 1] \o code[s[k]]
            /\ Encode(code, s) = G[n]
            /\ \A k \in 0 .. n : Begins(G[k], G[n])
  BY <1>1, EncodeUnfold
<1> DEFINE T == {k \in 0 .. n : F[k] = G[k]}
<1>6. 0 \in T
  BY <1>4, <1>5
<1>7. ASSUME NEW k \in 0 .. n - 1, k \in T
      PROVE  k + 1 \in T
  <2>1. PICK i \in 1 .. n : i = k + 1
    OBVIOUS
  <2>6. i - 1 = k /\ i \in 1 .. N /\ i \in 0 .. n
    BY <1>13, <2>1
  <2>2. G[i] = G[k] \o code[s[i]]
    BY <1>5, <2>6
  <2>3. F[i] = F[k] \o code[u[i]]
    BY <1>4, <2>6
  <2>4. F[i] = G[i]
    BY <1>3, <1>7, <2>2, <2>3
  <2>5. i \in T
    BY <2>6, <2>4
  <2> QED BY <2>1, <2>5
<1>8. n \in T
  <2> HIDE DEF T
  <2>1. \A k \in 0 .. n : k \in T
    BY <1>6, <1>7, IntervalInduction
  <2> QED BY <2>1
<1>9. N \in 1 .. N /\ N - 1 = n
  BY <1>13
<1>10. F[N] = F[n] \o code[u[N]]
  BY <1>4, <1>9
<1>11. u[N] = x
  BY <1>3, <1>13
<1> QED BY <1>2, <1>4, <1>5, <1>8, <1>10, <1>11 DEF EncodesLast

\* The code with the terminator stop added.
Terminated(code, stop, end) ==
    [x \in DOMAIN code \cup {stop} |-> IF x = stop THEN end ELSE code[x]]

\* With a terminator that no code begins with, encodings of different sequences
\* do not agree.
LEMMA TerminatedDecode ==
  ASSUME NEW B, NEW stop, stop \notin B, NEW code \in [B -> Seq(Nat)], NEW end \in Seq(Nat),
         PrefixFree(B \cup {stop}, Terminated(code, stop, end)),
         NEW s \in Seq(B), NEW t \in Seq(B),
         Agree(Encode(code, s) \o end, Encode(code, t) \o end)
  PROVE  s = t
<1>0. PICK A, full : A = B \cup {stop} /\ full = Terminated(code, stop, end)
  OBVIOUS
<1>1. full \in [A -> Seq(Nat)] /\ full[stop] = end /\ \A x \in B : full[x] = code[x]
  BY <1>0 DEF Terminated
<1>2. PrefixFree(A, full) /\ stop \in A /\ B \subseteq A
  BY <1>0
<1>3. ASSUME NEW u \in Seq(B)
      PROVE  /\ u \in Seq(A) /\ Append(u, stop) \in Seq(A)
             /\ Encode(code, u) \o end = Encode(full, Append(u, stop))
  <2>1. u \in Seq(A)
    BY <1>2
  <2>2. Append(u, stop) \in Seq(A)
    BY <1>2, <2>1, AppendFacts
  <2>3. \A k \in DOMAIN u : code[u[k]] = full[u[k]]
    BY <1>1
  <2>4. [k \in DOMAIN u |-> code[u[k]]] = [k \in DOMAIN u |-> full[u[k]]]
    BY <2>3
  <2>5. Encode(code, u) = Encode(full, u)
    BY <2>4 DEF Encode
  <2>6. Encode(full, Append(u, stop)) = Encode(full, u) \o full[stop]
    <3>1. full \in [A -> Seq(Nat)] /\ stop \in A
      BY <1>1, <1>2
    <3>2. EncodesLast(full, u, stop)
      BY <2>1, <3>1, EncodeAppend
    <3> QED BY <3>2 DEF EncodesLast
  <2> QED BY <1>1, <2>1, <2>2, <2>5, <2>6
<1>4. PICK v, w : v = Append(s, stop) /\ w = Append(t, stop)
  OBVIOUS
<1>5. /\ v \in Seq(A) /\ w \in Seq(A)
      /\ Encode(code, s) \o end = Encode(full, v) /\ Encode(code, t) \o end = Encode(full, w)
  BY <1>3, <1>4
<1>6. Agree(v, w)
  <2>1. Agree(Encode(full, v), Encode(full, w))
    BY <1>5
  <2>2. full \in [A -> Seq(Nat)] /\ PrefixFree(A, full) /\ v \in Seq(A) /\ w \in Seq(A)
    BY <1>1, <1>2, <1>5
  <2> QED BY <2>1, <2>2, PrefixDecode
<1>7. PICK m \in Nat, n \in Nat : m = Len(s) /\ n = Len(t)
  OBVIOUS
<1>8. /\ DOMAIN v = 1 .. m + 1 /\ v[m + 1] = stop
      /\ \A k \in 1 .. m : v[k] = s[k] /\ s[k] \in B
  BY <1>4, <1>7, <1>2, AppendFacts
<1>9. /\ DOMAIN w = 1 .. n + 1 /\ w[n + 1] = stop
      /\ \A k \in 1 .. n : w[k] = t[k] /\ t[k] \in B
  BY <1>4, <1>7, <1>2, AppendFacts
<1>10. \A k \in 1 .. m + 1 : k \in 1 .. n + 1 => v[k] = w[k]
  BY <1>6, <1>8, <1>9 DEF Agree
<1>11. ~(m < n)
  <2> SUFFICES ASSUME m < n PROVE FALSE
    OBVIOUS
  <2>1. PICK k \in Nat : k = m + 1
    OBVIOUS
  <2>2. k \in 1 .. m + 1 /\ k \in 1 .. n + 1 /\ k \in 1 .. n
    BY <2>1
  <2>3. v[k] = stop /\ w[k] \in B /\ v[k] = w[k]
    BY <1>8, <1>9, <1>10, <2>1, <2>2
  <2> QED BY <2>3
<1>12. ~(n < m)
  <2> SUFFICES ASSUME n < m PROVE FALSE
    OBVIOUS
  <2>1. PICK k \in Nat : k = n + 1
    OBVIOUS
  <2>2. k \in 1 .. m + 1 /\ k \in 1 .. n + 1 /\ k \in 1 .. m
    BY <2>1
  <2>3. w[k] = stop /\ v[k] \in B /\ v[k] = w[k]
    BY <1>8, <1>9, <1>10, <2>1, <2>2
  <2> QED BY <2>3
<1>13. m = n
  BY <1>11, <1>12
<1>14. ASSUME NEW k \in 1 .. m PROVE s[k] = t[k]
  <2>1. k \in 1 .. m + 1 /\ k \in 1 .. n + 1 /\ k \in 1 .. n
    BY <1>13
  <2> QED BY <1>8, <1>9, <1>10, <2>1
<1> QED BY <1>7, <1>13, <1>14, SameElements

-----------------------------------------------------------------------------
\* The digits of Itoa.
Digit == 48 .. 57

\* The last decimal digit and the rest of a number.
LEMMA DivFacts ==
  ASSUME NEW v \in Nat
  PROVE  /\ v \div 10 \in Nat /\ v % 10 \in 0 .. 9
         /\ v = 10 * (v \div 10) + (v % 10)
         /\ v > 0 => v \div 10 < v
         /\ v >= 10 => v \div 10 > 0
  OBVIOUS

\* digitsOf satisfies its equation.
LEMMA DigitsEquation ==
  /\ digitsOf \in [Nat -> Seq(Digit)]
  /\ \A v \in Nat : v < 10 => digitsOf[v] = <<48 + v>>
  /\ \A v \in Nat : v >= 10 => digitsOf[v] = Append(digitsOf[v \div 10], 48 + (v % 10))
<1> DEFINE V == Seq(Digit)
           pred == [v \in Nat |-> v \div 10]
           step == [p \in Nat \X V |-> IF p[1] < 10 THEN <<48 + p[1]>>
                                       ELSE Append(p[2], 48 + (p[1] % 10))]
           Body(f) == [v \in Nat |-> IF v < 10 THEN <<48 + v>>
                                     ELSE Append(f[v \div 10], 48 + (v % 10))]
<1>1. pred \in [Nat -> Nat] /\ \A k \in Nat : k > 0 => pred[k] < k
  BY DivFacts
<1>2. step \in [Nat \X V -> V]
  <2>1. ASSUME NEW p \in Nat \X V
        PROVE  (IF p[1] < 10 THEN <<48 + p[1]>> ELSE Append(p[2], 48 + (p[1] % 10))) \in V
    <3>1. p[1] \in Nat /\ p[2] \in V
      OBVIOUS
    <3>2. CASE p[1] < 10
      <4>1. 48 + p[1] \in Digit
        BY <3>1, <3>2 DEF Digit
      <4> QED BY <3>2, <4>1
    <3>3. CASE ~(p[1] < 10)
      <4>1. 48 + (p[1] % 10) \in Digit
        BY <3>1, DivFacts DEF Digit
      <4>2. Append(p[2], 48 + (p[1] % 10)) \in V
        BY <3>1, <4>1, AppendFacts
      <4> QED BY <3>3, <4>2
    <3> QED BY <3>2, <3>3
  <2> QED BY <2>1
<1>3. <<48>> \in V
  BY DEF Digit
<1>4. PICK f \in [Nat -> V] : \A n \in Nat : Solves(f, n, pred, step, <<48>>)
  <2> HIDE DEF V, pred, step
  <2> QED BY <1>1, <1>2, <1>3, RecursionExists
<1> DEFINE Val(g, v) == IF v < 10 THEN <<48 + v>> ELSE Append(g[v \div 10], 48 + (v % 10))
<1>5. ASSUME NEW v \in Nat
      PROVE  f[v] = Val(f, v)
  <2>1. CASE v = 0
    <3>1. f[v] = <<48>>
      BY <1>4, <2>1 DEF Solves
    <3> QED BY <2>1, <3>1
  <2>2. CASE v > 0
    <3>1. v \in 1 .. v
      BY <2>2
    <3>2. f[v] = step[<<v, f[pred[v]]>>]
      BY <1>4, <3>1 DEF Solves
    <3>3. pred[v] = v \div 10 /\ f[pred[v]] \in V
      BY <1>1
    <3> QED BY <3>2, <3>3
  <2> QED BY <2>1, <2>2
<1>6. f = Body(f)
  BY <1>5
<1>7. digitsOf = CHOOSE g : g = Body(g)
  <2>1. Ch.zero = 48
    BY DEF Ch
  <2> QED BY <2>1 DEF digitsOf
<1>8. digitsOf = Body(digitsOf)
  BY <1>6, <1>7
<1> DEFINE T == {v \in Nat : digitsOf[v] = f[v]}
<1>9. ASSUME NEW v \in Nat, \A k \in 0 .. v - 1 : k \in T
      PROVE  v \in T
  <2>1. digitsOf[v] = Val(digitsOf, v)
    BY <1>8
  <2>2. CASE v < 10
    <3>1. Val(digitsOf, v) = Val(f, v)
      BY <2>2, Zenon
    <3> HIDE DEF Val
    <3> QED BY <1>5, <2>1, <3>1
  <2>3. CASE v >= 10
    <3>1. v \div 10 \in 0 .. v - 1
      BY <2>3, DivFacts
    <3>2. digitsOf[v \div 10] = f[v \div 10]
      BY <1>9, <3>1
    <3>3. Val(digitsOf, v) = Val(f, v)
      BY <3>2
    <3> HIDE DEF Val
    <3> QED BY <1>5, <2>1, <3>3
  <2> QED BY <2>2, <2>3
<1>10. \A v \in Nat : digitsOf[v] = f[v]
  <2>1. \A v \in Nat : v \in T
    <3> HIDE DEF T
    <3> QED BY <1>9, StrongInduction
  <2> QED BY <2>1
<1>11. digitsOf = f
  <2>1. DOMAIN digitsOf = Nat /\ digitsOf = [v \in Nat |-> digitsOf[v]]
    BY <1>8
  <2> QED BY <1>10, <2>1
<1>12. ASSUME NEW v \in Nat, v < 10 PROVE f[v] = <<48 + v>>
  <2>1. Val(f, v) = <<48 + v>>
    BY <1>12, Zenon
  <2> HIDE DEF Val
  <2> QED BY <1>5, <2>1
<1>13. ASSUME NEW v \in Nat, v >= 10 PROVE f[v] = Append(f[v \div 10], 48 + (v % 10))
  <2>0. ~(v < 10)
    BY <1>13
  <2>1. Val(f, v) = Append(f[v \div 10], 48 + (v % 10))
    BY <2>0, Zenon
  <2> HIDE DEF Val
  <2> QED BY <1>5, <2>1
<1> QED BY <1>11, <1>12, <1>13

\* A number has at least one digit.
LEMMA DigitsNotEmpty ==
  ASSUME NEW v \in Nat
  PROVE  digitsOf[v] \in Seq(Digit) /\ Len(digitsOf[v]) \in Nat /\ Len(digitsOf[v]) >= 1
<1>1. digitsOf[v] \in Seq(Digit)
  BY DigitsEquation
<1>2. CASE v < 10
  <2>1. digitsOf[v] = <<48 + v>>
    BY <1>2, DigitsEquation
  <2> QED BY <1>1, <2>1
<1>3. CASE v >= 10
  <2>0. v \div 10 \in Nat /\ 48 + (v % 10) \in Digit
    BY DivFacts DEF Digit
  <2>1. PICK d \in Seq(Digit), e \in Digit : d = digitsOf[v \div 10] /\ e = 48 + (v % 10)
    BY <2>0, DigitsEquation
  <2>2. digitsOf[v] = Append(d, e)
    BY <1>3, <2>1, DigitsEquation
  <2>3. Len(Append(d, e)) = Len(d) + 1 /\ Len(d) \in Nat
    BY AppendFacts
  <2> QED BY <1>1, <2>2, <2>3
<1> QED BY <1>2, <1>3

\* Different numbers have different digits.
LEMMA DigitsIdentify ==
  ASSUME NEW v \in Nat, NEW w \in Nat, digitsOf[v] = digitsOf[w]
  PROVE  v = w
<1> DEFINE T == {a \in Nat : \A b \in Nat : digitsOf[a] = digitsOf[b] => a = b}
<1>1. ASSUME NEW a \in Nat, \A k \in 0 .. a - 1 : k \in T
      PROVE  a \in T
  <2> SUFFICES ASSUME NEW b \in Nat, digitsOf[a] = digitsOf[b] PROVE a = b
    OBVIOUS
  <2> HIDE DEF T
  <2>0. ASSUME NEW x \in Nat, x < 10
        PROVE  Len(digitsOf[x]) = 1 /\ digitsOf[x][1] = 48 + x
    <3>1. digitsOf[x] = <<48 + x>>
      BY <2>0, DigitsEquation
    <3> QED BY <3>1
  <2>1. ASSUME NEW x \in Nat, x >= 10
        PROVE  Len(digitsOf[x]) # 1
    <3>1. x \div 10 \in Nat /\ 48 + (x % 10) \in Digit
      BY DivFacts DEF Digit
    <3>2. PICK d \in Seq(Digit), e \in Digit : d = digitsOf[x \div 10] /\ e = 48 + (x % 10)
      BY <3>1, DigitsEquation
    <3>3. digitsOf[x] = Append(d, e)
      BY <2>1, <3>2, DigitsEquation
    <3>4. Len(Append(d, e)) = Len(d) + 1 /\ Len(d) >= 1 /\ Len(d) \in Nat
      BY <3>1, <3>2, DigitsNotEmpty, AppendFacts
    <3> QED BY <3>3, <3>4
  <2>2. CASE a < 10 /\ b < 10
    BY <2>0, <2>2
  <2>3. CASE a < 10 /\ b >= 10
    BY <2>0, <2>1, <2>3
  <2>4. CASE a >= 10 /\ b < 10
    BY <2>0, <2>1, <2>4
  <2>5. CASE a >= 10 /\ b >= 10
    <3>1. /\ a \div 10 \in 0 .. a - 1 /\ b \div 10 \in Nat /\ a \div 10 \in Nat
          /\ 48 + (a % 10) \in Digit /\ 48 + (b % 10) \in Digit
      BY <2>5, DivFacts DEF Digit
    <3>2. PICK c \in Seq(Digit), x \in Digit : c = digitsOf[a \div 10] /\ x = 48 + (a % 10)
      BY <3>1, DigitsEquation
    <3>3. PICK d \in Seq(Digit), y \in Digit : d = digitsOf[b \div 10] /\ y = 48 + (b % 10)
      BY <3>1, DigitsEquation
    <3>4. Append(c, x) = Append(d, y)
      BY <2>5, <3>2, <3>3, DigitsEquation
    <3>5. c = d /\ x = y
      BY <3>4
    <3>6. a \div 10 = b \div 10
      BY <1>1, <3>1, <3>2, <3>3, <3>5 DEF T
    <3>7. a % 10 = b % 10
      BY <3>2, <3>3, <3>5, DivFacts
    <3> QED BY <3>6, <3>7, DivFacts
  <2> QED BY <2>2, <2>3, <2>4, <2>5
<1>2. \A a \in Nat : a \in T
  <2> HIDE DEF T
  <2> QED BY <1>1, StrongInduction
<1> QED BY <1>2

-----------------------------------------------------------------------------
\* The characters with an escape letter.
Lettered == {8, 9, 10, 12, 13, 39, 92}

\* The letters behind a backslash: different ones for different characters, and
\* never the u of a hexadecimal escape.
LEMMA LetterFacts ==
  /\ DOMAIN EscapeLetter = Lettered
  /\ \A r \in Lettered : EscapeLetter[r] \in Nat /\ EscapeLetter[r] < 128 /\
       EscapeLetter[r] # 117
  /\ \A r, q \in Lettered : EscapeLetter[r] = EscapeLetter[q] => r = q
  BY DEF EscapeLetter, Lettered, Ch

\* What one character of a name is written as, case by case.
LEMMA EscapeFacts ==
  ASSUME NEW r \in Nat
  PROVE  \/ r \in Lettered /\ escapeRune(r) = <<92, EscapeLetter[r]>>
         \/ /\ r \notin Lettered /\ r < 32
            /\ escapeRune(r) = <<92, 117, 48, 48, lowerHex(r \div 16), lowerHex(r % 16)>>
         \/ r \notin Lettered /\ ~(r < 32) /\ escapeRune(r) = <<r>>
<1>1. CASE r \in Lettered
  <2>1. escapeRune(r) = <<92, EscapeLetter[r]>>
    BY <1>1, LetterFacts DEF escapeRune, Ch
  <2> QED BY <1>1, <2>1
<1>2. CASE r \notin Lettered /\ r < 32
  <2>1. escapeRune(r) = <<92, 117, 48, 48, lowerHex(r \div 16), lowerHex(r % 16)>>
    BY <1>2, LetterFacts DEF escapeRune, Ch
  <2> QED BY <1>2, <2>1
<1>3. CASE r \notin Lettered /\ ~(r < 32)
  <2>1. escapeRune(r) = <<r>>
    BY <1>3, LetterFacts DEF escapeRune
  <2> QED BY <1>3, <2>1
<1> QED BY <1>1, <1>2, <1>3

\* The two hexadecimal digits of a control character identify it.
LEMMA HexFacts ==
  ASSUME NEW r \in Nat, r < 32
  PROVE  /\ lowerHex(r \div 16) \in Nat /\ lowerHex(r \div 16) < 128
         /\ lowerHex(r % 16) \in Nat /\ lowerHex(r % 16) < 128
         /\ \A q \in Nat : /\ q < 32
                           /\ lowerHex(q \div 16) = lowerHex(r \div 16)
                           /\ lowerHex(q % 16) = lowerHex(r % 16)
                           => q = r
<1>1. ASSUME NEW q \in Nat, q < 32
      PROVE  q \div 16 \in 0 .. 15 /\ q % 16 \in 0 .. 15 /\ q = 16 * (q \div 16) + (q % 16)
  BY <1>1
<1>2. \A h \in 0 .. 15 : lowerHex(h) \in Nat /\ lowerHex(h) < 128
  BY DEF lowerHex, Ch
<1>3. \A g, h \in 0 .. 15 : lowerHex(g) = lowerHex(h) => g = h
  BY DEF lowerHex, Ch
<1>4. ASSUME NEW q \in Nat, q < 32, lowerHex(q \div 16) = lowerHex(r \div 16),
             lowerHex(q % 16) = lowerHex(r % 16)
      PROVE  q = r
  <2>1. q \div 16 = r \div 16 /\ q % 16 = r % 16
    BY <1>1, <1>3, <1>4
  <2> QED BY <1>1, <1>4, <2>1
<1> QED BY <1>1, <1>2, <1>4

escapeCode == [r \in Nat |-> escapeRune(r)]

\* An escape is a text.
LEMMA EscapeType == escapeCode \in [Nat -> Seq(Nat)]
<1> SUFFICES ASSUME NEW r \in Nat PROVE escapeRune(r) \in Seq(Nat)
  BY DEF escapeCode
<1>1. CASE r \in Lettered
  <2>1. PICK l \in Nat : l = EscapeLetter[r]
    BY <1>1, LetterFacts
  <2>2. escapeRune(r) = <<92, l>>
    BY <1>1, <2>1, EscapeFacts
  <2>3. <<92, l>> \in Seq(Nat)
    OBVIOUS
  <2> QED BY <2>2, <2>3
<1>2. CASE r \notin Lettered /\ r < 32
  <2>1. PICK g \in Nat, h \in Nat : g = lowerHex(r \div 16) /\ h = lowerHex(r % 16)
    BY <1>2, HexFacts
  <2>2. escapeRune(r) = <<92, 117, 48, 48, g, h>>
    BY <1>2, <2>1, EscapeFacts
  <2>3. <<92, 117, 48, 48, g, h>> \in Seq(Nat)
    OBVIOUS
  <2> QED BY <2>2, <2>3
<1>3. CASE r \notin Lettered /\ ~(r < 32)
  <2>1. escapeRune(r) = <<r>>
    BY <1>3, EscapeFacts
  <2>2. <<r>> \in Seq(Nat)
    OBVIOUS
  <2> QED BY <2>1, <2>2
<1> QED BY <1>1, <1>2, <1>3

\* No escape begins with another, and none begins with the closing quote.
LEMMA EscapePrefixFree ==
  ASSUME NEW stop, stop \notin Nat
  PROVE  PrefixFree(Nat \cup {stop}, Terminated(escapeCode, stop, <<39, 93>>))
<1> DEFINE end == <<39, 93>>
           full == Terminated(escapeCode, stop, end)
<1>1. full[stop] = end /\ \A r \in Nat : full[r] = escapeRune(r)
  BY DEF Terminated, escapeCode
<1>2. ASSUME NEW r \in Nat
      PROVE  /\ 1 \in DOMAIN escapeRune(r) /\ escapeRune(r)[1] # 39
             /\ r \in Lettered => /\ 2 \in DOMAIN escapeRune(r)
                                  /\ escapeRune(r)[1] = 92
                                  /\ escapeRune(r)[2] = EscapeLetter[r]
             /\ r \notin Lettered /\ r < 32 =>
                    /\ DOMAIN escapeRune(r) = 1 .. 6
                    /\ escapeRune(r)[1] = 92
                    /\ escapeRune(r)[2] = 117
                    /\ escapeRune(r)[5] = lowerHex(r \div 16)
                    /\ escapeRune(r)[6] = lowerHex(r % 16)
             /\ r \notin Lettered /\ ~(r < 32) => escapeRune(r)[1] = r /\ r # 92
  <2>1. CASE r \in Lettered
    BY <2>1, EscapeFacts
  <2>2. CASE r \notin Lettered /\ r < 32
    BY <2>2, EscapeFacts
  <2>3. CASE r \notin Lettered /\ ~(r < 32)
    <3>1. r # 92 /\ r # 39
      BY <2>3 DEF Lettered
    <3> QED BY <2>3, <3>1, EscapeFacts
  <2> QED BY <2>1, <2>2, <2>3
<1>3. ASSUME NEW r \in Nat, NEW q \in Nat, Agree(escapeRune(r), escapeRune(q))
      PROVE  r = q
  <2> DEFINE a == escapeRune(r)
             b == escapeRune(q)
  <2>1. a[1] = b[1]
    BY <1>2, <1>3 DEF Agree
  <2>2. CASE r \in Lettered /\ q \in Lettered
    <3>1. a[2] = b[2]
      BY <1>2, <1>3, <2>2 DEF Agree
    <3> QED BY <1>2, <2>2, <3>1, LetterFacts
  <2>3. CASE r \in Lettered /\ q \notin Lettered /\ q < 32
    <3>1. a[2] = b[2]
      BY <1>2, <1>3, <2>3 DEF Agree
    <3> QED BY <1>2, <2>3, <3>1, LetterFacts
  <2>4. CASE q \in Lettered /\ r \notin Lettered /\ r < 32
    <3>1. a[2] = b[2]
      BY <1>2, <1>3, <2>4 DEF Agree
    <3> QED BY <1>2, <2>4, <3>1, LetterFacts
  <2>5. CASE r \notin Lettered /\ r < 32 /\ q \notin Lettered /\ q < 32
    <3>1. a[5] = b[5] /\ a[6] = b[6]
      BY <1>2, <1>3, <2>5 DEF Agree
    <3> QED BY <1>2, <2>5, <3>1, HexFacts
  <2>6. CASE r \notin Lettered /\ ~(r < 32)
    BY <1>2, <2>1, <2>6
  <2>7. CASE q \notin Lettered /\ ~(q < 32)
    BY <1>2, <2>1, <2>7
  <2> QED BY <2>2, <2>3, <2>4, <2>5, <2>6, <2>7
<1>4. ASSUME NEW r \in Nat
      PROVE  ~Agree(escapeRune(r), end) /\ ~Agree(end, escapeRune(r))
  <2>1. 1 \in DOMAIN end /\ end[1] = 39
    OBVIOUS
  <2> HIDE DEF end
  <2> QED BY <1>2, <2>1 DEF Agree
<1>5. ASSUME NEW r \in Nat PROVE escapeRune(r) # <<>>
  <2>1. 1 \notin DOMAIN <<>>
    OBVIOUS
  <2> QED BY <1>2, <2>1
<1>6. end # <<>>
  OBVIOUS
<1> HIDE DEF end, full
<1>7. PrefixFree(Nat \cup {stop}, full)
  BY <1>1, <1>3, <1>4, <1>5, <1>6 DEF PrefixFree
<1> QED BY <1>7 DEF full, end

\* Digits as a code: every digit stands for itself, and a bracket ends them.
selfCode == [d \in Digit |-> <<d>>]

\* A sequence of one element.
LEMMA Singleton ==
  ASSUME NEW S, NEW x \in S
  PROVE  <<x>> \in Seq(S) /\ Len(<<x>>) = 1 /\ <<x>>[1] = x
  OBVIOUS

\* Appending is concatenating one element.
LEMMA ConcatOne ==
  ASSUME NEW S, NEW f \in Seq(S), NEW x \in S
  PROVE  f \o <<x>> = Append(f, x)
  OBVIOUS

\* A sequence over a set is one over every larger set.
LEMMA SubsetSeq ==
  ASSUME NEW A, NEW B, A \subseteq B, NEW s \in Seq(A)
  PROVE  s \in Seq(B)
<1>1. PICK n \in Nat : n = Len(s)
  OBVIOUS
<1>2. \A k \in 1 .. n : s[k] \in B
  BY <1>1
<1>3. s = [k \in 1 .. n |-> s[k]]
  BY <1>1
<1> QED BY <1>2, <1>3

\* A code in which every element stands for itself changes nothing.
LEMMA EncodeSelf ==
  ASSUME NEW A, A \subseteq Nat, NEW code \in [A -> Seq(Nat)], NEW s \in Seq(A),
         \A k \in 1 .. Len(s) : code[s[k]] = <<s[k]>>
  PROVE  Encode(code, s) = s
<1>1. PICK n \in Nat : n = Len(s)
  OBVIOUS
<1>2. PICK F \in [0 .. n -> Seq(Nat)] :
            /\ F[0] = <<>>
            /\ \A k \in 1 .. n : F[k] = F[k - 1] \o code[s[k]]
            /\ Encode(code, s) = F[n]
            /\ \A k \in 0 .. n : Begins(F[k], F[n])
  BY <1>1, EncodeUnfold
<1>3. /\ \A k \in 1 .. n : s[k] \in Nat
      /\ \A k \in 1 .. n : code[s[k]] = <<s[k]>>
  <2>1. \A k \in 1 .. n : s[k] \in A
    BY <1>1
  <2> QED BY <1>1, <2>1
<1> DEFINE T == {k \in 0 .. n : Len(F[k]) = k /\ \A j \in 1 .. k : F[k][j] = s[j]}
<1>4. 0 \in T
  <2>1. Len(F[0]) = 0
    BY <1>2
  <2> QED BY <2>1
<1>5. ASSUME NEW k \in 0 .. n - 1, k \in T
      PROVE  k + 1 \in T
  <2>1. PICK i \in 1 .. n : i = k + 1
    OBVIOUS
  <2>2. i - 1 = k /\ i \in 0 .. n /\ k \in 0 .. n /\ k \in Nat
    BY <2>1
  <2>3. PICK f \in Seq(Nat), g \in Seq(Nat), x \in Nat : f = F[k] /\ g = F[i] /\ x = s[i]
    BY <1>3, <2>2
  <2>4. g = f \o <<x>>
    BY <1>2, <1>3, <2>2, <2>3
  <2>5. Len(f) = k /\ \A j \in 1 .. k : f[j] = s[j]
    BY <1>5, <2>3
  <2>6. Len(g) = i /\ g[i] = x /\ \A j \in 1 .. k : g[j] = f[j]
    <3>1. g = Append(f, x) /\ DOMAIN f = 1 .. k
      BY <2>4, <2>5, ConcatOne
    <3> QED BY <2>1, <2>5, <3>1, AppendFacts
  <2>7. \A j \in 1 .. i : j \in 1 .. k \/ j = i
    BY <2>1
  <2>8. \A j \in 1 .. i : g[j] = s[j]
    BY <2>3, <2>5, <2>6, <2>7
  <2>9. i \in T
    BY <2>2, <2>3, <2>6, <2>8
  <2> QED BY <2>1, <2>9
<1>6. n \in T
  <2> HIDE DEF T
  <2>1. \A k \in 0 .. n : k \in T
    BY <1>4, <1>5, IntervalInduction
  <2> QED BY <2>1
<1>7. s \in Seq(Nat)
  BY SubsetSeq
<1>8. F[n] \in Seq(Nat) /\ Len(F[n]) = n /\ \A j \in 1 .. n : F[n][j] = s[j]
  BY <1>6
<1> QED BY <1>1, <1>2, <1>7, <1>8, SameElements

\* Digits that agree up to a closing bracket are equal.
LEMMA DigitsDecode ==
  ASSUME NEW s \in Seq(Digit), NEW t \in Seq(Digit), Agree(s \o << 93 >>, t \o << 93 >>)
  PROVE  s = t
<1>1. PICK stop : stop \notin Digit
  BY 0 \notin Digit DEF Digit
<1>2. Digit \subseteq Nat /\ 93 \notin Digit
  BY DEF Digit
<1>3. selfCode \in [Digit -> Seq(Nat)] /\ \A d \in Digit : selfCode[d] = <<d>>
  BY <1>2 DEF selfCode
<1>4. PrefixFree(Digit \cup {stop}, Terminated(selfCode, stop, <<93>>))
  <2> DEFINE full == Terminated(selfCode, stop, <<93>>)
  <2>1. full[stop] = <<93>> /\ \A d \in Digit : full[d] = <<d>>
    BY <1>1, <1>3 DEF Terminated
  <2>2. \A a, b : Agree(<<a>>, <<b>>) => a = b
    <3> SUFFICES ASSUME NEW a, NEW b, Agree(<<a>>, <<b>>) PROVE a = b
      OBVIOUS
    <3>1. 1 \in DOMAIN <<a>> /\ 1 \in DOMAIN <<b>> /\ <<a>>[1] = a /\ <<b>>[1] = b
      OBVIOUS
    <3> QED BY <3>1 DEF Agree
  <2>3. \A a : <<a>> # <<>>
    OBVIOUS
  <2> HIDE DEF full
  <2>4. PrefixFree(Digit \cup {stop}, full)
    BY <1>2, <2>1, <2>2, <2>3 DEF PrefixFree
  <2> QED BY <2>4 DEF full
<1>5. ASSUME NEW u \in Seq(Digit) PROVE Encode(selfCode, u) = u
  <2>1. \A k \in 1 .. Len(u) : selfCode[u[k]] = <<u[k]>>
    BY <1>3
  <2> QED BY <1>2, <1>3, <2>1, EncodeSelf
<1>6. PICK end \in Seq(Nat) : end = <<93>>
  BY Singleton
<1>7. Agree(Encode(selfCode, s) \o end, Encode(selfCode, t) \o end)
  BY <1>5, <1>6
<1>8. PrefixFree(Digit \cup {stop}, Terminated(selfCode, stop, end))
  BY <1>4, <1>6
<1> QED BY <1>1, <1>3, <1>7, <1>8, TerminatedDecode

-----------------------------------------------------------------------------
\* More about texts.
LEMMA TwoChars == <<91, 39>> \in Seq(Nat) /\ <<39, 93>> \in Seq(Nat)
  OBVIOUS

\* An encoding is a text.
LEMMA EncodeType ==
  ASSUME NEW A, NEW code \in [A -> Seq(Nat)], NEW s \in Seq(A)
  PROVE  Encode(code, s) \in Seq(Nat)
<1>1. PICK n \in Nat : n = Len(s)
  OBVIOUS
<1>2. PICK F \in [0 .. n -> Seq(Nat)] :
            /\ F[0] = <<>>
            /\ \A k \in 1 .. n : F[k] = F[k - 1] \o code[s[k]]
            /\ Encode(code, s) = F[n]
            /\ \A k \in 0 .. n : Begins(F[k], F[n])
  BY <1>1, EncodeUnfold
<1> QED BY <1>2

\* A common beginning can be dropped.
LEMMA ConcatCancel ==
  ASSUME NEW S, NEW a \in Seq(S), NEW b \in Seq(S), NEW c \in Seq(S), a \o b = a \o c
  PROVE  b = c
<1>1. Agree(a \o b, a \o c)
  BY DEF Agree
<1>2. Agree(b, c)
  BY <1>1, AgreeBehind
<1>3. Len(a) + Len(b) = Len(a) + Len(c)
  BY ConcatFacts
<1>4. Len(a) \in Nat /\ Len(b) \in Nat /\ Len(c) \in Nat
  OBVIOUS
<1>5. Len(b) = Len(c)
  BY <1>3, <1>4
<1> QED BY <1>2, <1>5, AgreeEqual

\* So it can from texts that end alike.
LEMMA AgreeBetween ==
  ASSUME NEW S, NEW a \in Seq(S), NEW b \in Seq(S), NEW c \in Seq(S), NEW d \in Seq(S),
         Agree((a \o b) \o d, (a \o c) \o d)
  PROVE  Agree(b \o d, c \o d)
<1>1. PICK x \in Seq(S), y \in Seq(S) : x = b \o d /\ y = c \o d
  BY ConcatFacts
<1>2. Associates(a, b, d) /\ Associates(a, c, d)
  BY ConcatAssoc
<1>3. Agree(a \o x, a \o y)
  BY <1>1, <1>2 DEF Associates
<1> QED BY <1>1, <1>3, AgreeBehind

\* How a valid step is written.
stepCode == [x \in GoodStep |-> writeNormalizedTo(x)]

\* A name is written between a bracket and quote on either side.
LEMMA NameWritten ==
  ASSUME NEW x \in GoodStep, x.kind = 1
  PROVE  /\ x.name \in Seq(Nat)
         /\ Encode(escapeCode, x.name) \in Seq(Nat)
         /\ writeNormalizedTo(x) = (<<91, 39>> \o Encode(escapeCode, x.name)) \o <<39, 93>>
<1>1. x.name \in Seq(Nat)
  BY GoodStepCases, NameAssumption
<1>2. \A k \in DOMAIN x.name : escapeCode[x.name[k]] = escapeRune(x.name[k])
  BY <1>1 DEF escapeCode
<1>3. Encode(escapeCode, x.name) = FlattenSeq([k \in DOMAIN x.name |-> escapeRune(x.name[k])])
  <2>1. [k \in DOMAIN x.name |-> escapeCode[x.name[k]]]
          = [k \in DOMAIN x.name |-> escapeRune(x.name[k])]
    BY <1>2
  <2> QED BY <2>1 DEF Encode
<1>4. Encode(escapeCode, x.name) \in Seq(Nat)
  BY <1>1, EscapeType, EncodeType
<1> QED BY <1>1, <1>3, <1>4 DEF writeNormalizedTo, pathStepName, Ch

\* An index is written between brackets, in decimal.
LEMMA IndexWritten ==
  ASSUME NEW x \in GoodStep, x.kind = 0
  PROVE  /\ x.index \in Nat
         /\ digitsOf[x.index] \in Seq(Nat) /\ digitsOf[x.index] \in Seq(Digit)
         /\ writeNormalizedTo(x) = (<<91>> \o digitsOf[x.index]) \o <<93>>
<1>1. x.index \in Nat
  BY GoodStepCases
<1>2. digitsOf[x.index] \in Seq(Digit)
  BY <1>1, DigitsEquation
<1>3. digitsOf[x.index] \in Seq(Nat)
  <2>1. Digit \subseteq Nat
    BY DEF Digit
  <2> QED BY <1>2, <2>1, SubsetSeq
<1>4. Itoa(x.index) = digitsOf[x.index]
  BY <1>1 DEF Itoa
<1> QED BY <1>1, <1>2, <1>3, <1>4 DEF writeNormalizedTo, pathStepName, Ch

\* The first two characters of a step tell names from indexes.
LEMMA StepHeads ==
  ASSUME NEW x \in GoodStep
  PROVE  /\ writeNormalizedTo(x) \in Seq(Nat) /\ Len(writeNormalizedTo(x)) >= 2
         /\ x.kind = 1 => writeNormalizedTo(x)[2] = 39
         /\ x.kind = 0 => writeNormalizedTo(x)[2] # 39
<1>1. CASE x.kind = 1
  <2>1. PICK a \in Seq(Nat), b \in Seq(Nat), c \in Seq(Nat) :
            a = <<91, 39>> /\ b = Encode(escapeCode, x.name) /\ c = <<39, 93>>
    BY <1>1, NameWritten, TwoChars
  <2>2. Len(a) = 2 /\ a[2] = 39 /\ Len(b) \in Nat /\ Len(c) \in Nat
    BY <2>1
  <2>3. /\ a \o b \in Seq(Nat) /\ Len(a \o b) = Len(a) + Len(b) /\ (a \o b)[2] = 39
    <3>1. 2 \in 1 .. Len(a)
      BY <2>2
    <3>2. \A k \in 1 .. Len(a) : (a \o b)[k] = a[k]
      BY ConcatFacts
    <3>3. (a \o b)[2] = 39
      BY <2>2, <3>1, <3>2
    <3>4. a \o b \in Seq(Nat) /\ Len(a \o b) = Len(a) + Len(b)
      BY ConcatFacts
    <3> QED BY <3>3, <3>4
  <2>4. PICK ab \in Seq(Nat) : ab = a \o b
    BY <2>3
  <2>5. /\ ab \o c \in Seq(Nat) /\ Len(ab \o c) = Len(ab) + Len(c)
        /\ \A k \in 1 .. Len(ab) : (ab \o c)[k] = ab[k]
    BY ConcatFacts
  <2>6. Len(ab) \in Nat /\ Len(ab) >= 2 /\ ab[2] = 39 /\ 2 \in 1 .. Len(ab)
    BY <2>2, <2>3, <2>4
  <2>7. writeNormalizedTo(x) = ab \o c
    BY <1>1, <2>1, <2>4, NameWritten
  <2>8. Len(ab \o c) >= 2 /\ (ab \o c)[2] = 39
    BY <2>2, <2>5, <2>6
  <2> QED BY <1>1, <2>5, <2>7, <2>8
<1>2. CASE x.kind = 0
  <2>1. PICK a \in Seq(Nat), b \in Seq(Nat), c \in Seq(Nat) :
            a = <<91>> /\ b = digitsOf[x.index] /\ c = <<93>>
    <3>1. <<91>> \in Seq(Nat) /\ <<93>> \in Seq(Nat)
      BY Singleton
    <3>2. digitsOf[x.index] \in Seq(Nat)
      BY <1>2, IndexWritten
    <3> QED BY <3>1, <3>2
  <2>2. Len(a) = 1 /\ Len(b) \in Nat /\ Len(b) >= 1 /\ Len(c) = 1
    BY <1>2, <2>1, IndexWritten, DigitsNotEmpty
  <2>3. 1 \in 1 .. Len(b) /\ b[1] \in Digit
    BY <1>2, <2>1, <2>2, IndexWritten
  <2>4. b[1] # 39
    BY <2>3 DEF Digit
  <2>5. /\ a \o b \in Seq(Nat) /\ Len(a \o b) = Len(a) + Len(b)
        /\ (a \o b)[Len(a) + 1] = b[1]
    BY <2>3, ConcatFacts
  <2>6. PICK ab \in Seq(Nat) : ab = a \o b
    BY <2>5
  <2>7. /\ ab \o c \in Seq(Nat) /\ Len(ab \o c) = Len(ab) + Len(c)
        /\ \A k \in 1 .. Len(ab) : (ab \o c)[k] = ab[k]
    BY ConcatFacts
  <2>8. Len(ab) \in Nat /\ Len(ab) >= 2 /\ ab[2] # 39 /\ 2 \in 1 .. Len(ab)
    BY <2>2, <2>4, <2>5, <2>6
  <2>9. writeNormalizedTo(x) = ab \o c
    BY <1>2, <2>1, <2>6, IndexWritten
  <2>10. Len(ab \o c) >= 2 /\ (ab \o c)[2] # 39
    BY <2>2, <2>7, <2>8
  <2> QED BY <1>2, <2>7, <2>9, <2>10
<1> QED BY <1>1, <1>2, GoodStepCases

\* No written step begins with another one.
LEMMA StepPrefixFree == stepCode \in [GoodStep -> Seq(Nat)] /\ PrefixFree(GoodStep, stepCode)
<1>1. \A x \in GoodStep : stepCode[x] = writeNormalizedTo(x)
  BY DEF stepCode
<1>2. \A x \in GoodStep : writeNormalizedTo(x) \in Seq(Nat) /\ writeNormalizedTo(x) # <<>>
  <2> SUFFICES ASSUME NEW x \in GoodStep
               PROVE  writeNormalizedTo(x) \in Seq(Nat) /\ writeNormalizedTo(x) # <<>>
    OBVIOUS
  <2>1. Len(<<>>) = 0
    OBVIOUS
  <2> QED BY <2>1, StepHeads
<1>3. ASSUME NEW x \in GoodStep, NEW y \in GoodStep,
             Agree(writeNormalizedTo(x), writeNormalizedTo(y))
      PROVE  x = y
  <2>1. CASE x.kind = 1 /\ y.kind = 1
    <3>1. PICK a \in Seq(Nat), c \in Seq(Nat) : a = <<91, 39>> /\ c = <<39, 93>>
      BY TwoChars
    <3>2. PICK d \in Seq(Nat), e \in Seq(Nat) :
              d = Encode(escapeCode, x.name) /\ e = Encode(escapeCode, y.name)
      BY <2>1, NameWritten
    <3>3. Agree((a \o d) \o c, (a \o e) \o c)
      BY <1>3, <2>1, <3>1, <3>2, NameWritten
    <3>4. Agree(d \o c, e \o c)
      BY <3>3, AgreeBetween
    <3>5. PICK stop : stop \notin Nat
      BY -1 \notin Nat
    <3>6. PrefixFree(Nat \cup {stop}, Terminated(escapeCode, stop, c))
      BY <3>1, <3>5, EscapePrefixFree
    <3>7. PICK s \in Seq(Nat), t \in Seq(Nat) : s = x.name /\ t = y.name
      BY <2>1, NameWritten
    <3>8. Agree(Encode(escapeCode, s) \o c, Encode(escapeCode, t) \o c)
      BY <3>2, <3>4, <3>7
    <3>9. s = t
      BY <3>5, <3>6, <3>8, EscapeType, TerminatedDecode
    <3>10. x.name = y.name
      BY <3>7, <3>9
    <3>11. x = namePathStep(x.name) /\ y = namePathStep(y.name)
      BY <2>1, GoodStepCases
    <3> QED BY <3>10, <3>11
  <2>2. CASE x.kind = 0 /\ y.kind = 0
    <3>1. PICK a \in Seq(Nat), c \in Seq(Nat) : a = <<91>> /\ c = <<93>>
      BY Singleton
    <3>2. PICK d \in Seq(Nat), e \in Seq(Nat) :
              d = digitsOf[x.index] /\ e = digitsOf[y.index]
      BY <2>2, IndexWritten
    <3>3. Agree((a \o d) \o c, (a \o e) \o c)
      BY <1>3, <2>2, <3>1, <3>2, IndexWritten
    <3>4. Agree(d \o c, e \o c)
      BY <3>3, AgreeBetween
    <3>5. d \in Seq(Digit) /\ e \in Seq(Digit) /\ x.index \in Nat /\ y.index \in Nat
      BY <2>2, <3>2, IndexWritten
    <3>6. d = e
      BY <3>1, <3>4, <3>5, DigitsDecode
    <3>7. x.index = y.index
      BY <3>2, <3>5, <3>6, DigitsIdentify
    <3> QED BY <2>2, <3>7, GoodStepCases
  <2>3. CASE x.kind # y.kind
    <3>1. PICK u \in Seq(Nat), v \in Seq(Nat) : u = writeNormalizedTo(x) /\
            v = writeNormalizedTo(y)
      BY StepHeads
    <3>2. Len(u) \in Nat /\ Len(v) \in Nat /\ Len(u) >= 2 /\ Len(v) >= 2
      BY <3>1, StepHeads
    <3>3. 2 \in DOMAIN u /\ 2 \in DOMAIN v
      BY <3>2
    <3>4. u[2] = v[2]
      BY <1>3, <3>1, <3>3 DEF Agree
    <3>5. (u[2] = 39 <=> x.kind = 1) /\ (v[2] = 39 <=> y.kind = 1)
      BY <3>1, StepHeads, GoodStepCases
    <3> QED BY <2>3, <3>4, <3>5, GoodStepCases
  <2> QED BY <2>1, <2>2, <2>3, GoodStepCases
<1>4. stepCode \in [GoodStep -> Seq(Nat)]
  BY <1>2 DEF stepCode
<1> QED BY <1>1, <1>2, <1>3, <1>4 DEF PrefixFree

\* String writes a dollar and the steps.
LEMMA StringEncodes ==
  ASSUME NEW p \in Seq(GoodStep)
  PROVE  String(p) = <<36>> \o Encode(stepCode, p) /\ Encode(stepCode, p) \in Seq(Nat)
<1>1. \A k \in DOMAIN p : stepCode[p[k]] = writeNormalizedTo(p[k])
  BY DEF stepCode
<1>2. [k \in DOMAIN p |-> stepCode[p[k]]] = [k \in DOMAIN p |-> writeNormalizedTo(p[k])]
  BY <1>1
<1>3. Encode(stepCode, p) \in Seq(Nat)
  BY StepPrefixFree, EncodeType
<1> QED BY <1>2, <1>3 DEF String, Encode, Ch

\* Two paths that were handed out have the same normalized string only if they
\* are the same path, whatever quotes, backslashes, control characters and
\* brackets their names hold: no escape is ambiguous.
THEOREM StringsIdentify == Spec => []StringIdentifies
<1>1. Inv => StringIdentifies
  <2> SUFFICES ASSUME Inv, NEW p \in Shown, NEW q \in Shown, String(p) = String(q)
               PROVE  p = q
    BY DEF StringIdentifies
  <2>1. p \in Seq(GoodStep) /\ q \in Seq(GoodStep)
    BY ShownAreGood
  <2>2. PICK h \in Seq(Nat) : h = <<36>>
    BY Singleton
  <2>3. PICK a \in Seq(Nat), b \in Seq(Nat) : a = Encode(stepCode, p) /\ b = Encode(stepCode, q)
    BY <2>1, StringEncodes
  <2>4. h \o a = h \o b
    BY <2>1, <2>2, <2>3, StringEncodes
  <2>5. a = b
    BY <2>4, ConcatCancel
  <2>6. Agree(a, b)
    BY <2>5 DEF Agree
  <2>7. Encode(stepCode, p) = Encode(stepCode, q) /\
          Agree(Encode(stepCode, p), Encode(stepCode, q))
    BY <2>3, <2>5, <2>6
  <2> QED BY <2>1, <2>7, StepPrefixFree, PrefixDecode
<1> QED BY <1>1, InvHolds, PTL

-----------------------------------------------------------------------------
\* What one character of a reference token is written as.
pointerCode == [r \in Nat |-> pointerRune(r)]

\* What one character of a token is written as.
LEMMA PointerRuneFacts ==
  ASSUME NEW r \in Nat
  PROVE  \/ r = 126 /\ pointerRune(r) = <<126, 48>>
         \/ r = 47 /\ pointerRune(r) = <<126, 49>>
         \/ r # 126 /\ r # 47 /\ pointerRune(r) = <<r>>
<1>1. CASE r = 126
  <2>1. pointerRune(r) = <<126, 48>>
    BY <1>1 DEF pointerRune, Ch
  <2> QED BY <1>1, <2>1
<1>2. CASE r = 47
  <2>1. pointerRune(r) = <<126, 49>>
    BY <1>2 DEF pointerRune, Ch
  <2> QED BY <1>2, <2>1
<1>3. CASE r # 126 /\ r # 47
  <2>1. pointerRune(r) = <<r>>
    BY <1>3 DEF pointerRune, Ch
  <2> QED BY <1>3, <2>1
<1> QED BY <1>1, <1>2, <1>3

\* It is a text.
LEMMA PointerRuneType == pointerCode \in [Nat -> Seq(Nat)]
<1> SUFFICES ASSUME NEW r \in Nat PROVE pointerRune(r) \in Seq(Nat)
  BY DEF pointerCode
<1>1. <<126, 48>> \in Seq(Nat) /\ <<126, 49>> \in Seq(Nat)
  OBVIOUS
<1>2. <<r>> \in Seq(Nat)
  BY Singleton
<1> QED BY <1>1, <1>2, PointerRuneFacts

\* No character of a token is written as a beginning of another, or as a slash.
LEMMA PointerPrefixFree ==
  ASSUME NEW stop, stop \notin Nat
  PROVE  PrefixFree(Nat \cup {stop}, Terminated(pointerCode, stop, <<47>>))
<1> DEFINE full == Terminated(pointerCode, stop, <<47>>)
<1>1. full[stop] = <<47>> /\ \A r \in Nat : full[r] = pointerRune(r)
  BY DEF Terminated, pointerCode
<1>2. ASSUME NEW r \in Nat
      PROVE  /\ 1 \in DOMAIN pointerRune(r) /\ pointerRune(r)[1] # 47
             /\ r = 126 => 2 \in DOMAIN pointerRune(r) /\ pointerRune(r)[1] = 126 /\
                  pointerRune(r)[2] = 48
             /\ r = 47 => 2 \in DOMAIN pointerRune(r) /\ pointerRune(r)[1] = 126 /\
                  pointerRune(r)[2] = 49
             /\ r # 126 /\ r # 47 => pointerRune(r)[1] = r
  <2>1. CASE r = 126
    BY <2>1, PointerRuneFacts
  <2>2. CASE r = 47
    BY <2>2, PointerRuneFacts
  <2>3. CASE r # 126 /\ r # 47
    BY <2>3, PointerRuneFacts
  <2> QED BY <2>1, <2>2, <2>3
<1>3. ASSUME NEW r \in Nat, NEW q \in Nat, Agree(pointerRune(r), pointerRune(q))
      PROVE  r = q
  <2> DEFINE a == pointerRune(r)
             b == pointerRune(q)
  <2>1. a[1] = b[1]
    BY <1>2, <1>3 DEF Agree
  <2>2. CASE r \in {47, 126} /\ q \in {47, 126}
    <3>1. a[2] = b[2]
      BY <1>2, <1>3, <2>2 DEF Agree
    <3> QED BY <1>2, <2>2, <3>1
  <2>3. CASE r \notin {47, 126}
    BY <1>2, <2>1, <2>3
  <2>4. CASE q \notin {47, 126}
    BY <1>2, <2>1, <2>4
  <2> QED BY <2>2, <2>3, <2>4
<1>4. ASSUME NEW r \in Nat
      PROVE  ~Agree(pointerRune(r), <<47>>) /\ ~Agree(<<47>>, pointerRune(r))
  <2>1. PICK end : end = <<47>>
    OBVIOUS
  <2>2. 1 \in DOMAIN end /\ end[1] = 47
    BY <2>1
  <2>3. ~Agree(pointerRune(r), end) /\ ~Agree(end, pointerRune(r))
    BY <1>2, <2>2 DEF Agree
  <2> QED BY <2>1, <2>3
<1>5. ASSUME NEW r \in Nat PROVE pointerRune(r) # <<>>
  <2>1. 1 \notin DOMAIN <<>>
    OBVIOUS
  <2> QED BY <1>2, <2>1
<1>6. <<47>> # <<>>
  OBVIOUS
<1> HIDE DEF full
<1>7. PrefixFree(Nat \cup {stop}, full)
  BY <1>1, <1>3, <1>4, <1>5, <1>6 DEF PrefixFree
<1> QED BY <1>7 DEF full

\* The reference token of a step, and a token as it is written before a slash.
TokenOf(step) == IF step.kind = pathStepName THEN step.name ELSE Itoa(step.index)

tokenCode == [token \in Seq(Nat) |-> Encode(pointerCode, token) \o <<47>>]

\* writePointerTo escapes the token of a step.
LEMMA TokenWritten ==
  ASSUME NEW x \in GoodStep
  PROVE  /\ TokenOf(x) \in Seq(Nat)
         /\ writePointerTo(x) \in Seq(Nat)
         /\ writePointerTo(x) = Encode(pointerCode, TokenOf(x))
<1>1. CASE x.kind = 1
  <2>1. TokenOf(x) = x.name /\ x.name \in Seq(Nat)
    BY <1>1, NameWritten DEF TokenOf, pathStepName
  <2>2. \A k \in DOMAIN x.name : pointerCode[x.name[k]] = pointerRune(x.name[k])
    BY <2>1 DEF pointerCode
  <2>3. [k \in DOMAIN x.name |-> pointerCode[x.name[k]]]
          = [k \in DOMAIN x.name |-> pointerRune(x.name[k])]
    BY <2>2
  <2>4. writePointerTo(x) = Encode(pointerCode, x.name)
    BY <1>1, <2>3 DEF writePointerTo, Encode, pathStepName
  <2> QED BY <2>1, <2>4, PointerRuneType, EncodeType
<1>2. CASE x.kind = 0
  <2>1. PICK d \in Seq(Nat) : d = digitsOf[x.index] /\ d \in Seq(Digit)
    BY <1>2, IndexWritten
  <2>2. Itoa(x.index) = d
    BY <1>2, <2>1, IndexWritten DEF Itoa
  <2>3. TokenOf(x) = d /\ writePointerTo(x) = d
    BY <1>2, <2>2 DEF TokenOf, writePointerTo, pathStepName
  <2>4. ASSUME NEW k \in 1 .. Len(d) PROVE pointerCode[d[k]] = <<d[k]>>
    <3>1. PICK c \in Digit : c = d[k]
      BY <2>1
    <3>2. c \in Nat /\ c # 126 /\ c # 47
      BY DEF Digit
    <3>3. pointerRune(c) = <<c>>
      BY <3>2, PointerRuneFacts
    <3> QED BY <3>1, <3>2, <3>3 DEF pointerCode
  <2>5. Encode(pointerCode, d) = d
    BY <2>4, PointerRuneType, EncodeSelf
  <2> QED BY <2>3, <2>5
<1> QED BY <1>1, <1>2, GoodStepCases

\* No written token and slash begins with another one.
LEMMA TokenPrefixFree == tokenCode \in [Seq(Nat) -> Seq(Nat)] /\ PrefixFree(Seq(Nat), tokenCode)
<1>1. PICK c \in Seq(Nat) : c = <<47>>
  BY Singleton
<1>2. \A s \in Seq(Nat) : Encode(pointerCode, s) \in Seq(Nat)
  BY PointerRuneType, EncodeType
<1>3. \A s \in Seq(Nat) : tokenCode[s] = Encode(pointerCode, s) \o c
  BY <1>1 DEF tokenCode
<1>4. ASSUME NEW s \in Seq(Nat)
      PROVE  tokenCode[s] \in Seq(Nat) /\ tokenCode[s] # <<>>
  <2>1. PICK a \in Seq(Nat) : a = Encode(pointerCode, s)
    BY <1>2
  <2>2. a \o c \in Seq(Nat) /\ Len(a \o c) = Len(a) + Len(c)
    BY ConcatFacts
  <2>3. Len(a) \in Nat /\ Len(c) = 1 /\ Len(<<>>) = 0
    BY <1>1
  <2>4. a \o c # <<>>
    BY <2>2, <2>3
  <2> QED BY <1>3, <2>1, <2>2, <2>4
<1>5. ASSUME NEW s \in Seq(Nat), NEW t \in Seq(Nat), Agree(tokenCode[s], tokenCode[t])
      PROVE  s = t
  <2>1. PICK stop : stop \notin Nat
    BY -1 \notin Nat
  <2>2. PrefixFree(Nat \cup {stop}, Terminated(pointerCode, stop, c))
    BY <1>1, <2>1, PointerPrefixFree
  <2>3. Agree(Encode(pointerCode, s) \o c, Encode(pointerCode, t) \o c)
    BY <1>3, <1>5
  <2> QED BY <2>1, <2>2, <2>3, PointerRuneType, TerminatedDecode
<1>6. tokenCode \in [Seq(Nat) -> Seq(Nat)]
  BY <1>4 DEF tokenCode
<1> QED BY <1>4, <1>5, <1>6 DEF PrefixFree

\* g is f with the separator moved from its beginning to its end.
Shifted(f, g, sep) == f \o sep = sep \o g

\* Moving a separator from before the last part to behind it.
LEMMA ShiftStep ==
  ASSUME NEW S, NEW f \in Seq(S), NEW g \in Seq(S), NEW v \in Seq(S), NEW sep \in Seq(S),
         Shifted(f, g, sep)
  PROVE  Shifted(f \o (sep \o v), g \o (v \o sep), sep)
<1>1. Associates(f, sep, v)
  BY ConcatAssoc
<1>2. Associates(sep, g, v)
  BY ConcatAssoc
<1>3. PICK x \in Seq(S) : x = g \o v
  BY ConcatFacts
<1>4. Associates(sep, x, sep)
  BY ConcatAssoc
<1>5. Associates(g, v, sep)
  BY ConcatAssoc
<1>6. f \o (sep \o v) = sep \o x
  BY <1>1, <1>2, <1>3 DEF Shifted, Associates
<1>7. x \o sep = g \o (v \o sep)
  BY <1>3, <1>5 DEF Associates
<1> QED BY <1>4, <1>6, <1>7 DEF Shifted, Associates

\* A separator before every token is one after every token, but for the ends.
LEMMA ShiftSeparator ==
  ASSUME NEW sep \in Seq(Nat), NEW n \in Nat, NEW w \in [1 .. n -> Seq(Nat)],
         NEW before \in Seq(Seq(Nat)), Len(before) = n, \A k \in 1 .. n : before[k] = sep \o w[k],
         NEW after \in Seq(Seq(Nat)), Len(after) = n, \A k \in 1 .. n : after[k] = w[k] \o sep
  PROVE  FlattenSeq(before) \o sep = sep \o FlattenSeq(after)
<1>1. PICK F \in [0 .. n -> Seq(Nat)] :
            Concatenates(F, before) /\ FlattenSeq(before) = F[n]
            /\ \A k \in 0 .. n : Begins(F[k], F[n])
  BY FlattenUnfold
<1>2. PICK G \in [0 .. n -> Seq(Nat)] :
            Concatenates(G, after) /\ FlattenSeq(after) = G[n]
            /\ \A k \in 0 .. n : Begins(G[k], G[n])
  BY FlattenUnfold
<1> DEFINE T == {k \in 0 .. n : Shifted(F[k], G[k], sep)}
<1>3. 0 \in T
  <2>1. F[0] = <<>> /\ G[0] = <<>>
    BY <1>1, <1>2 DEF Concatenates
  <2>2. Shifted(<<>>, <<>>, sep)
    BY ConcatEmpty DEF Shifted
  <2> QED BY <2>1, <2>2
<1>4. ASSUME NEW k \in 0 .. n - 1, k \in T
      PROVE  k + 1 \in T
  <2>1. PICK i \in 1 .. n : i = k + 1
    OBVIOUS
  <2>2. i - 1 = k /\ i \in 0 .. n /\ k \in 0 .. n
    BY <2>1
  <2>3. PICK f \in Seq(Nat), g \in Seq(Nat), v \in Seq(Nat) : f = F[k] /\ g = G[k] /\ v = w[i]
    BY <2>2
  <2>4. F[i] = F[i - 1] \o before[i] /\ G[i] = G[i - 1] \o after[i]
    BY <1>1, <1>2 DEF Concatenates
  <2>5. F[i] = f \o (sep \o v) /\ G[i] = g \o (v \o sep)
    BY <2>2, <2>3, <2>4
  <2>6. Shifted(f, g, sep)
    BY <1>4, <2>3
  <2>7. Shifted(f \o (sep \o v), g \o (v \o sep), sep)
    BY <2>6, ShiftStep
  <2>8. Shifted(F[i], G[i], sep)
    BY <2>5, <2>7
  <2>9. i \in T
    BY <2>2, <2>8
  <2> QED BY <2>1, <2>9
<1>5. n \in T
  <2> HIDE DEF T
  <2>1. \A k \in 0 .. n : k \in T
    BY <1>3, <1>4, IntervalInduction
  <2> QED BY <2>1
<1> QED BY <1>1, <1>2, <1>5 DEF Shifted

\* A pointer and a slash: a slash and the tokens, each with a slash behind it.
LEMMA PointerEncodes ==
  ASSUME NEW p \in Seq(GoodStep)
  PROVE  LET tokens == [k \in DOMAIN p |-> TokenOf(p[k])]
         IN  /\ tokens \in Seq(Seq(Nat))
             /\ Encode(tokenCode, tokens) \in Seq(Nat)
             /\ Pointer(p) \o <<47>> = <<47>> \o Encode(tokenCode, tokens)
<1> DEFINE tokens == [k \in DOMAIN p |-> TokenOf(p[k])]
<1>1. PICK n \in Nat : n = Len(p) /\ DOMAIN p = 1 .. n
  OBVIOUS
<1>2. \A k \in 1 .. n : p[k] \in GoodStep
  BY <1>1
<1>3. \A k \in 1 .. n : TokenOf(p[k]) \in Seq(Nat) /\ writePointerTo(p[k]) \in Seq(Nat)
  BY <1>2, TokenWritten
<1>4. tokens \in Seq(Seq(Nat)) /\ DOMAIN tokens = 1 .. n
  BY <1>1, <1>3
<1>5. PICK sep \in Seq(Nat) : sep = <<47>>
  BY Singleton
<1> DEFINE w == [k \in 1 .. n |-> writePointerTo(p[k])]
           before == [k \in 1 .. n |-> sep \o writePointerTo(p[k])]
           after == [k \in 1 .. n |-> tokenCode[tokens[k]]]
<1>6. w \in [1 .. n -> Seq(Nat)]
  BY <1>3
<1>7. \A k \in 1 .. n : before[k] = sep \o w[k] /\ before[k] \in Seq(Nat)
  <2>1. \A k \in 1 .. n : sep \o writePointerTo(p[k]) \in Seq(Nat)
    BY <1>3, ConcatFacts
  <2> QED BY <2>1
<1>8. \A k \in 1 .. n : after[k] = w[k] \o sep /\ after[k] \in Seq(Nat)
  <2> SUFFICES ASSUME NEW k \in 1 .. n PROVE after[k] = w[k] \o sep /\ after[k] \in Seq(Nat)
    OBVIOUS
  <2>1. PICK t \in Seq(Nat) : t = TokenOf(p[k])
    BY <1>3
  <2>2. tokens[k] = t
    BY <1>1, <2>1
  <2>3. tokenCode[t] = Encode(pointerCode, t) \o sep
    BY <1>5 DEF tokenCode
  <2>4. writePointerTo(p[k]) = Encode(pointerCode, t)
    BY <1>2, <2>1, TokenWritten
  <2>5. tokenCode[t] \in Seq(Nat)
    BY TokenPrefixFree
  <2> QED BY <2>2, <2>3, <2>4, <2>5
<1>9. before \in Seq(Seq(Nat)) /\ Len(before) = n /\ after \in Seq(Seq(Nat)) /\ Len(after) = n
  <2>1. \A k \in 1 .. n : sep \o writePointerTo(p[k]) \in Seq(Nat)
    BY <1>3, ConcatFacts
  <2>2. \A k \in 1 .. n : tokenCode[tokens[k]] \in Seq(Nat)
    BY <1>8
  <2> HIDE DEF tokens
  <2> QED BY <2>1, <2>2
<1>10. Pointer(p) = FlattenSeq(before)
  BY <1>1, <1>5 DEF Pointer, Ch
<1>11. Encode(tokenCode, tokens) = FlattenSeq(after)
  BY <1>4 DEF Encode
<1>12. Encode(tokenCode, tokens) \in Seq(Nat)
  <2> HIDE DEF tokens
  <2> QED BY <1>4, TokenPrefixFree, EncodeType
<1> HIDE DEF w, before, after, tokens
<1>13. FlattenSeq(before) \o sep = sep \o FlattenSeq(after)
  <2>1. Len(before) = n /\ \A k \in 1 .. n : before[k] = sep \o w[k]
    BY <1>7, <1>9
  <2>2. Len(after) = n /\ \A k \in 1 .. n : after[k] = w[k] \o sep
    BY <1>8, <1>9
  <2> QED BY <1>6, <1>9, <2>1, <2>2, ShiftSeparator
<1>14. Pointer(p) \o <<47>> = <<47>> \o Encode(tokenCode, tokens)
  BY <1>5, <1>10, <1>11, <1>13
<1> QED BY <1>4, <1>12, <1>14 DEF tokens

\* Two paths that were handed out have the same JSON Pointer only if their tokens
\* are the same, one by one: no slash or tilde of a name is taken for another.
THEOREM PointersIdentify == Spec => []PointerIdentifies
<1>1. Inv => PointerIdentifies
  <2> SUFFICES ASSUME Inv, NEW p \in Shown, NEW q \in Shown, Pointer(p) = Pointer(q)
               PROVE  [k \in DOMAIN p |-> TokenOf(p[k])] = [k \in DOMAIN q |-> TokenOf(q[k])]
    BY DEF PointerIdentifies, TokenOf
  <2>1. p \in Seq(GoodStep) /\ q \in Seq(GoodStep)
    BY ShownAreGood
  <2>2. PICK sep \in Seq(Nat) : sep = <<47>>
    BY Singleton
  <2>3. PICK s \in Seq(Seq(Nat)), t \in Seq(Seq(Nat)) :
            s = [k \in DOMAIN p |-> TokenOf(p[k])] /\ t = [k \in DOMAIN q |-> TokenOf(q[k])]
    BY <2>1, PointerEncodes
  <2>4. PICK a \in Seq(Nat), b \in Seq(Nat) : a = Encode(tokenCode, s) /\
          b = Encode(tokenCode, t)
    BY <2>3, TokenPrefixFree, EncodeType
  <2>5. Pointer(p) \o sep = sep \o a /\ Pointer(q) \o sep = sep \o b
    BY <2>1, <2>2, <2>3, <2>4, PointerEncodes
  <2>6. sep \o a = sep \o b
    BY <2>5
  <2>7. a = b
    BY <2>6, ConcatCancel
  <2>8. Encode(tokenCode, s) = Encode(tokenCode, t) /\
          Agree(Encode(tokenCode, s), Encode(tokenCode, t))
    BY <2>4, <2>7 DEF Agree
  <2>9. s = t
    BY <2>8, TokenPrefixFree, PrefixDecode
  <2> QED BY <2>3, <2>9
<1> QED BY <1>1, InvHolds, PTL

-----------------------------------------------------------------------------
\* S holds the totals of the first 0, 1, 2, ... of the costs.
Totals(S, costs) == S[0] = 0 /\ \A k \in 1 .. Len(costs) : S[k] = S[k - 1] + costs[k]

\* Total computes the last of them.
LEMMA TotalIsLast ==
  ASSUME NEW costs \in Seq(Nat), NEW S \in [0 .. Len(costs) -> Nat], Totals(S, costs)
  PROVE  Total(costs) = S[Len(costs)]
<1>0. PICK n \in Nat : n = Len(costs)
  OBVIOUS
<1>1. S[0] = 0 /\ \A k \in 1 .. n : S[k] = S[k - 1] + costs[k]
  BY <1>0 DEF Totals
<1> DEFINE Body(f) == [k \in 0 .. n |-> IF k = 0 THEN 0 ELSE f[k - 1] + costs[k]]
           sum == CHOOSE f : f = Body(f)
<1>2. Total(costs) = sum[n]
  BY <1>0 DEF Total
<1>3. ASSUME NEW k \in 0 .. n PROVE S[k] = IF k = 0 THEN 0 ELSE S[k - 1] + costs[k]
  <2>1. CASE k = 0
    BY <1>1, <2>1
  <2>2. CASE k # 0
    <3>1. k \in 1 .. n
      BY <2>2
    <3> QED BY <1>1, <2>2, <3>1
  <2> QED BY <2>1, <2>2
<1>4. S = Body(S)
  BY <1>0, <1>3
<1>5. sum = Body(sum)
  BY <1>4
<1> HIDE DEF sum
<1>6. sum[0] = 0 /\ \A k \in 1 .. n : sum[k] = sum[k - 1] + costs[k]
  <2>1. \A k \in 0 .. n : sum[k] = IF k = 0 THEN 0 ELSE sum[k - 1] + costs[k]
    BY <1>5
  <2>2. 0 \in 0 .. n /\ \A k \in 1 .. n : k \in 0 .. n /\ k # 0
    OBVIOUS
  <2>3. sum[0] = 0
    BY <2>1, <2>2
  <2>4. ASSUME NEW k \in 1 .. n PROVE sum[k] = sum[k - 1] + costs[k]
    <3>1. k \in 0 .. n /\ k # 0
      OBVIOUS
    <3> QED BY <2>1, <3>1
  <2> QED BY <2>3, <2>4
<1> DEFINE T == {k \in 0 .. n : sum[k] = S[k]}
<1>7. 0 \in T
  BY <1>1, <1>6
<1>8. ASSUME NEW k \in 0 .. n - 1, k \in T
      PROVE  k + 1 \in T
  <2>1. PICK i \in 1 .. n : i = k + 1
    BY <1>0
  <2>2. i - 1 = k /\ i \in 0 .. n
    BY <2>1
  <2>3. sum[i] = S[i]
    BY <1>1, <1>6, <1>8, <2>2
  <2>4. i \in T
    BY <2>2, <2>3
  <2> QED BY <2>1, <2>4
<1>9. n \in T
  <2> HIDE DEF T
  <2>1. \A k \in 0 .. n : k \in T
    BY <1>0, <1>7, <1>8, IntervalInduction
  <2> QED BY <1>0, <2>1
<1> QED BY <1>0, <1>2, <1>9

\* Their last is the total.
LEMMA TotalUnfold ==
  ASSUME NEW costs \in Seq(Nat)
  PROVE  \E S \in [0 .. Len(costs) -> Nat] : Totals(S, costs) /\ Total(costs) = S[Len(costs)]
<1>0. PICK n \in Nat : n = Len(costs)
  OBVIOUS
<1>1. \A k \in 1 .. n : costs[k] \in Nat
  BY <1>0
<1> DEFINE step == [p \in (1 .. n) \X Nat |-> p[2] + costs[p[1]]]
<1>2. step \in [(1 .. n) \X Nat -> Nat]
  BY <1>1
<1>3. \A k \in 1 .. n, v \in Nat : step[<<k, v>>] = v + costs[k]
  OBVIOUS
<1> HIDE DEF step
<1>4. PICK S \in [0 .. n -> Nat] : Recurs(S, n, step, 0)
  <2>1. PICK V, z : V = Nat /\ z = 0
    OBVIOUS
  <2>2. z \in V /\ step \in [(1 .. n) \X V -> V]
    BY <1>2, <2>1
  <2>3. \E F \in [0 .. n -> V] : Recurs(F, n, step, z)
    BY <2>2, IntervalRecursion
  <2> QED BY <2>1, <2>3
<1>5. \A k \in 1 .. n : S[k - 1] \in Nat
  OBVIOUS
<1>6. Totals(S, costs)
  BY <1>0, <1>3, <1>4, <1>5 DEF Recurs, Totals
<1>7. Total(costs) = S[n]
  BY <1>0, <1>6, TotalIsLast
<1> QED BY <1>0, <1>6, <1>7

\* A total of natural numbers is one.
LEMMA TotalType ==
  ASSUME NEW costs \in Seq(Nat)
  PROVE  Total(costs) \in Nat
<1>1. PICK n \in Nat : n = Len(costs)
  OBVIOUS
<1>2. PICK S \in [0 .. n -> Nat] : Totals(S, costs) /\ Total(costs) = S[n]
  BY <1>1, TotalUnfold
<1> QED BY <1>2

\* The total of two lists one behind the other.
LEMMA TotalConcat ==
  ASSUME NEW a \in Seq(Nat), NEW b \in Seq(Nat)
  PROVE  Total(a \o b) = Total(a) + Total(b)
<1>1. PICK m \in Nat, n \in Nat : m = Len(a) /\ n = Len(b)
  OBVIOUS
<1>2. PICK c \in Seq(Nat) : c = a \o b
  BY ConcatFacts
<1>3. /\ Len(c) = m + n
      /\ \A k \in 1 .. m : c[k] = a[k]
      /\ \A k \in 1 .. n : c[m + k] = b[k]
  BY <1>1, <1>2, ConcatFacts
<1>4. PICK A \in [0 .. m -> Nat] : Totals(A, a) /\ Total(a) = A[m]
  BY <1>1, TotalUnfold
<1>5. PICK B \in [0 .. n -> Nat] : Totals(B, b) /\ Total(b) = B[n]
  BY <1>1, TotalUnfold
<1> DEFINE S == [k \in 0 .. m + n |-> IF k <= m THEN A[k] ELSE A[m] + B[k - m]]
<1>6. S \in [0 .. m + n -> Nat]
  <2>1. ASSUME NEW k \in 0 .. m + n
        PROVE  (IF k <= m THEN A[k] ELSE A[m] + B[k - m]) \in Nat
    <3>1. CASE k <= m
      BY <3>1
    <3>2. CASE ~(k <= m)
      <4>1. k - m \in 0 .. n
        BY <3>2
      <4> QED BY <3>2, <4>1
    <3> QED BY <3>1, <3>2
  <2> QED BY <2>1
<1>7. S[0] = 0
  BY <1>4 DEF Totals
<1>8. ASSUME NEW k \in 1 .. m + n PROVE S[k] = S[k - 1] + c[k]
  <2>1. CASE k <= m
    <3>1. k \in 1 .. m /\ k - 1 <= m /\ k - 1 \in 0 .. m + n /\ k \in 0 .. m + n
      BY <2>1
    <3>2. A[k] = A[k - 1] + a[k]
      BY <1>1, <1>4, <3>1 DEF Totals
    <3> QED BY <1>3, <2>1, <3>1, <3>2
  <2>2. CASE ~(k <= m)
    <3>1. PICK j \in 1 .. n : j = k - m
      BY <2>2
    <3>2. B[j] = B[j - 1] + b[j]
      BY <1>1, <1>5 DEF Totals
    <3>3. c[k] = b[j]
      <4>1. k = m + j
        BY <3>1
      <4> QED BY <1>3, <4>1
    <3>4. S[k] = A[m] + B[j]
      BY <2>2, <3>1
    <3>5. S[k - 1] = A[m] + B[j - 1]
      <4>1. k - 1 \in 0 .. m + n
        OBVIOUS
      <4>2. CASE k - 1 = m
        <5>1. S[k - 1] = A[m]
          BY <4>1, <4>2
        <5>2. j - 1 = 0
          BY <3>1, <4>2
        <5>3. B[j - 1] = 0
          BY <1>5, <5>2 DEF Totals
        <5>4. A[m] \in Nat
          OBVIOUS
        <5> QED BY <5>1, <5>3, <5>4
      <4>3. CASE k - 1 # m
        <5>1. ~(k - 1 <= m) /\ (k - 1) - m = j - 1
          BY <2>2, <3>1, <4>3
        <5> QED BY <4>1, <5>1
      <4> QED BY <4>2, <4>3
    <3> HIDE DEF S
    <3>6. A[m] \in Nat /\ B[j] \in Nat /\ B[j - 1] \in Nat /\ b[j] \in Nat
      <4>1. m \in 0 .. m /\ j \in 0 .. n /\ j - 1 \in 0 .. n
        OBVIOUS
      <4>2. b[j] \in Nat
        BY <1>1
      <4>3. A[m] \in Nat
        BY <4>1
      <4>4. B[j] \in Nat /\ B[j - 1] \in Nat
        BY <4>1
      <4> QED BY <4>2, <4>3, <4>4
    <3>7. A[m] + (B[j - 1] + b[j]) = (A[m] + B[j - 1]) + b[j]
      BY <3>6
    <3> QED BY <3>2, <3>3, <3>4, <3>5, <3>7
  <2> QED BY <2>1, <2>2
<1>9. S[m + n] = A[m] + B[n]
  <2>1. CASE n = 0
    <3>1. B[n] = 0 /\ m + n = m /\ A[m] \in Nat
      BY <1>5, <2>1 DEF Totals
    <3> QED BY <3>1
  <2>2. CASE n # 0
    <3>1. ~(m + n <= m) /\ (m + n) - m = n /\ m + n \in 0 .. m + n
      BY <2>2
    <3> QED BY <3>1
  <2> QED BY <2>1, <2>2
<1> HIDE DEF S
<1>10. PICK N \in Nat : N = m + n
  OBVIOUS
<1>11. N = Len(c) /\ S \in [0 .. N -> Nat]
  BY <1>3, <1>6, <1>10
<1>12. Totals(S, c)
  BY <1>7, <1>8, <1>10, <1>11 DEF Totals
<1>13. Total(c) = S[N]
  BY <1>11, <1>12, TotalIsLast
<1> QED BY <1>2, <1>4, <1>5, <1>9, <1>10, <1>13

\* The total of the costs of one element.
LEMMA TotalOne ==
  ASSUME NEW x \in Nat
  PROVE  Total(<<x>>) = x
<1>1. PICK c \in Seq(Nat) : c = <<x>> /\ Len(c) = 1 /\ c[1] = x
  BY Singleton
<1>2. PICK S \in [0 .. Len(c) -> Nat] : Totals(S, c) /\ Total(c) = S[Len(c)]
  BY TotalUnfold
<1>3. S[0] = 0 /\ S[1] = S[1 - 1] + c[1] /\ 1 - 1 = 0
  BY <1>1, <1>2 DEF Totals
<1> QED BY <1>1, <1>2, <1>3

\* Nothing adds up to zero.
LEMMA TotalEmpty == Total(<<>>) = 0
<1>0. <<>> \in Seq(Nat) /\ Len(<<>>) = 0
  OBVIOUS
<1>1. PICK c \in Seq(Nat) : c = <<>> /\ Len(c) = 0
  BY <1>0
<1>2. PICK S \in [0 .. Len(c) -> Nat] : Totals(S, c) /\ Total(c) = S[Len(c)]
  BY TotalUnfold
<1> QED BY <1>1, <1>2 DEF Totals

\* Ones add up to their number.
LEMMA TotalOnes ==
  ASSUME NEW c \in Seq(Nat), \A k \in 1 .. Len(c) : c[k] = 1
  PROVE  Total(c) = Len(c)
<1>1. PICK n \in Nat : n = Len(c)
  OBVIOUS
<1> DEFINE S == [k \in 0 .. n |-> k]
<1>2. S \in [0 .. n -> Nat]
  OBVIOUS
<1>3. S[0] = 0 /\ S[n] = n /\ \A k \in 1 .. n : S[k] = S[k - 1] + 1
  OBVIOUS
<1> HIDE DEF S
<1>4. Totals(S, c)
  BY <1>1, <1>3 DEF Totals
<1> QED BY <1>1, <1>2, <1>3, <1>4, TotalIsLast

-----------------------------------------------------------------------------
\* UTF-8 lengths.
LEMMA RuneLenFacts ==
  ASSUME NEW r \in Nat
  PROVE  RuneLen(r) \in Nat /\ (r < 128 => RuneLen(r) = 1)
  BY SMT DEF RuneLen

\* The byte lengths of the characters of a text.
runeLens(text) == [k \in DOMAIN text |-> RuneLen(text[k])]

\* ByteLen is the total of the lengths of the characters.
LEMMA RuneLensFacts ==
  ASSUME NEW s \in Seq(Nat)
  PROVE  /\ runeLens(s) \in Seq(Nat) /\ Len(runeLens(s)) = Len(s)
         /\ \A k \in 1 .. Len(s) : runeLens(s)[k] = RuneLen(s[k])
         /\ ByteLen(s) = Total(runeLens(s)) /\ ByteLen(s) \in Nat
<1>1. PICK n \in Nat : n = Len(s) /\ DOMAIN s = 1 .. n
  OBVIOUS
<1>2. \A k \in 1 .. n : RuneLen(s[k]) \in Nat
  <2>1. \A k \in 1 .. n : s[k] \in Nat
    BY <1>1
  <2> QED BY <2>1, RuneLenFacts
<1>3. runeLens(s) = [k \in 1 .. n |-> RuneLen(s[k])]
  BY <1>1 DEF runeLens
<1>4. runeLens(s) \in Seq(Nat) /\ Len(runeLens(s)) = n
  BY <1>2, <1>3
<1>5. \A k \in 1 .. n : runeLens(s)[k] = RuneLen(s[k])
  BY <1>3
<1>6. ByteLen(s) = Total(runeLens(s))
  BY DEF ByteLen, runeLens
<1>7. ByteLen(s) \in Nat
  BY <1>4, <1>6, TotalType
<1> QED BY <1>1, <1>4, <1>5, <1>6, <1>7

\* The bytes of two texts one behind the other.
LEMMA ByteLenConcat ==
  ASSUME NEW a \in Seq(Nat), NEW b \in Seq(Nat)
  PROVE  ByteLen(a \o b) = ByteLen(a) + ByteLen(b)
<1>1. PICK m \in Nat, n \in Nat : m = Len(a) /\ n = Len(b)
  OBVIOUS
<1>2. PICK c \in Seq(Nat) : c = a \o b
  BY ConcatFacts
<1>3. /\ Len(c) = m + n
      /\ \A k \in 1 .. m : c[k] = a[k]
      /\ \A k \in 1 .. n : c[m + k] = b[k]
  BY <1>1, <1>2, ConcatFacts
<1>4. PICK x \in Seq(Nat), y \in Seq(Nat), z \in Seq(Nat) :
          x = runeLens(a) /\ y = runeLens(b) /\ z = runeLens(c)
  BY RuneLensFacts
<1>5. /\ Len(x) = m /\ \A k \in 1 .. m : x[k] = RuneLen(a[k])
      /\ Len(y) = n /\ \A k \in 1 .. n : y[k] = RuneLen(b[k])
  BY <1>1, <1>4, RuneLensFacts
<1>6. Len(z) = m + n /\ \A k \in 1 .. m + n : z[k] = RuneLen(c[k])
  BY <1>3, <1>4, RuneLensFacts
<1>7. /\ x \o y \in Seq(Nat) /\ Len(x \o y) = m + n
      /\ \A k \in 1 .. m : (x \o y)[k] = x[k]
      /\ \A k \in 1 .. n : (x \o y)[m + k] = y[k]
  <2>1. Len(x) = m /\ Len(y) = n
    BY <1>5
  <2>2. x \o y \in Seq(Nat) /\ Len(x \o y) = Len(x) + Len(y)
    BY ConcatFacts
  <2>3. \A k \in 1 .. Len(x) : (x \o y)[k] = x[k]
    BY ConcatFacts
  <2>4. \A k \in 1 .. Len(y) : (x \o y)[Len(x) + k] = y[k]
    BY ConcatFacts
  <2> QED BY <2>1, <2>2, <2>3, <2>4
<1>8. PICK w \in Seq(Nat) : w = x \o y
  BY <1>7
<1>9. ASSUME NEW k \in 1 .. m + n PROVE w[k] = z[k]
  <2>1. CASE k <= m
    <3>1. k \in 1 .. m
      BY <2>1
    <3>2. w[k] = RuneLen(a[k]) /\ c[k] = a[k]
      BY <1>3, <1>5, <1>7, <1>8, <3>1
    <3> QED BY <1>6, <3>2
  <2>2. CASE ~(k <= m)
    <3>1. PICK j \in 1 .. n : k = m + j
      <4>1. k - m \in 1 .. n /\ k = m + (k - m)
        BY <2>2
      <4> QED BY <4>1
    <3>2. w[k] = RuneLen(b[j]) /\ c[k] = b[j]
      BY <1>3, <1>5, <1>7, <1>8, <3>1
    <3> QED BY <1>6, <3>2
  <2> QED BY <2>1, <2>2
<1>10. w = z
  <2>1. Len(w) = m + n /\ Len(z) = m + n
    BY <1>6, <1>7, <1>8
  <2> QED BY <1>9, <2>1, SameElements
<1>11. Total(w) = Total(x) + Total(y)
  BY <1>8, TotalConcat
<1>12. ByteLen(a) = Total(x) /\ ByteLen(b) = Total(y) /\ ByteLen(c) = Total(z)
  BY <1>4, RuneLensFacts
<1> QED BY <1>2, <1>10, <1>11, <1>12

\* An ASCII text has as many bytes as characters.
LEMMA ByteLenAscii ==
  ASSUME NEW s \in Seq(Nat), \A k \in 1 .. Len(s) : s[k] < 128
  PROVE  ByteLen(s) = Len(s)
<1>1. PICK n \in Nat : n = Len(s)
  OBVIOUS
<1>2. PICK x \in Seq(Nat) : x = runeLens(s)
  BY RuneLensFacts
<1>3. Len(x) = n /\ \A k \in 1 .. n : x[k] = RuneLen(s[k])
  BY <1>1, <1>2, RuneLensFacts
<1>4. \A k \in 1 .. n : s[k] \in Nat /\ s[k] < 128
  BY <1>1
<1>5. \A k \in 1 .. n : x[k] = 1
  BY <1>3, <1>4, RuneLenFacts
<1>6. Total(x) = n
  BY <1>3, <1>5, TotalOnes
<1> QED BY <1>1, <1>2, <1>6, RuneLensFacts

\* The bytes of one character.
LEMMA ByteLenOne ==
  ASSUME NEW r \in Nat
  PROVE  ByteLen(<<r>>) = RuneLen(r)
<1>1. PICK s \in Seq(Nat) : s = <<r>> /\ Len(s) = 1 /\ s[1] = r
  BY Singleton
<1>2. PICK c \in Nat : c = RuneLen(r)
  BY RuneLenFacts
<1>3. runeLens(s) = <<c>>
  <2>1. DOMAIN s = 1 .. 1 /\ \A k \in 1 .. 1 : k = 1
    BY <1>1
  <2>2. runeLens(s) = [k \in 1 .. 1 |-> c]
    BY <1>1, <1>2, <2>1 DEF runeLens
  <2>3. <<c>> = [k \in 1 .. 1 |-> c]
    OBVIOUS
  <2> QED BY <2>2, <2>3
<1>4. ByteLen(s) = Total(<<c>>)
  BY <1>3, RuneLensFacts
<1> QED BY <1>1, <1>2, <1>4, TotalOne

\* What each code of an encoded sequence costs.
Costs(costs, code, s) ==
    Len(costs) = Len(s) /\ \A k \in 1 .. Len(s) : costs[k] = ByteLen(code[s[k]])

\* The bytes of an encoded sequence are the total of the bytes of the codes.
LEMMA ByteLenEncode ==
  ASSUME NEW A, NEW code \in [A -> Seq(Nat)], NEW s \in Seq(A),
         NEW costs \in Seq(Nat), Costs(costs, code, s)
  PROVE  ByteLen(Encode(code, s)) = Total(costs)
<1>1. PICK n \in Nat : n = Len(s)
  OBVIOUS
<1>1a. Len(costs) = n /\ \A k \in 1 .. n : costs[k] = ByteLen(code[s[k]])
  BY <1>1 DEF Costs
<1>2. PICK F \in [0 .. n -> Seq(Nat)] :
            /\ F[0] = <<>>
            /\ \A k \in 1 .. n : F[k] = F[k - 1] \o code[s[k]]
            /\ Encode(code, s) = F[n]
            /\ \A k \in 0 .. n : Begins(F[k], F[n])
  BY <1>1, EncodeUnfold
<1>3. PICK S \in [0 .. n -> Nat] : Totals(S, costs) /\ Total(costs) = S[n]
  BY <1>1a, TotalUnfold
<1>4. S[0] = 0 /\ \A k \in 1 .. n : S[k] = S[k - 1] + costs[k]
  BY <1>1a, <1>3 DEF Totals
<1> DEFINE T == {k \in 0 .. n : ByteLen(F[k]) = S[k]}
<1>5. 0 \in T
  <2>1. <<>> \in Seq(Nat) /\ Len(<<>>) = 0
    OBVIOUS
  <2>2. \A k \in 1 .. Len(<<>>) : <<>>[k] < 128
    BY <2>1
  <2>3. ByteLen(<<>>) = Len(<<>>)
    BY <2>1, <2>2, ByteLenAscii
  <2> QED BY <1>2, <1>4, <2>1, <2>3
<1>6. ASSUME NEW k \in 0 .. n - 1, k \in T
      PROVE  k + 1 \in T
  <2>1. PICK i \in 1 .. n : i = k + 1
    OBVIOUS
  <2>2. i - 1 = k /\ i \in 0 .. n /\ k \in 0 .. n
    BY <2>1
  <2>3. PICK f \in Seq(Nat), c \in Seq(Nat) : f = F[k] /\ c = code[s[i]]
    <3>1. s[i] \in A
      BY <1>1
    <3> QED BY <2>2, <3>1
  <2>4. F[i] = f \o c
    BY <1>2, <2>2, <2>3
  <2>5. ByteLen(F[i]) = ByteLen(f) + ByteLen(c)
    BY <2>4, ByteLenConcat
  <2>6. S[i] = S[k] + ByteLen(c)
    BY <1>1a, <1>4, <2>2, <2>3
  <2>7. ByteLen(f) = S[k]
    BY <1>6, <2>3
  <2>8. ByteLen(F[i]) = S[i]
    BY <2>5, <2>6, <2>7
  <2>9. i \in T
    BY <2>2, <2>8
  <2> QED BY <2>1, <2>9
<1>7. n \in T
  <2> HIDE DEF T
  <2>1. \A k \in 0 .. n : k \in T
    BY <1>5, <1>6, IntervalInduction
  <2> QED BY <2>1
<1> QED BY <1>2, <1>3, <1>7

\* digitLoop satisfies its equation.
LEMMA DigitLoopEquation ==
  /\ digitLoop \in [Nat -> Nat] /\ digitLoop[0] = 0
  /\ \A v \in Nat : v > 0 => digitLoop[v] = 1 + digitLoop[v \div 10]
<1> DEFINE pred == [v \in Nat |-> v \div 10]
           step == [p \in Nat \X Nat |-> 1 + p[2]]
           Body(f) == [v \in Nat |-> IF v = 0 THEN 0 ELSE 1 + f[v \div 10]]
<1>1. pred \in [Nat -> Nat] /\ \A k \in Nat : k > 0 => pred[k] < k
  BY DivFacts
<1>2. step \in [Nat \X Nat -> Nat] /\ \A k, v \in Nat : step[<<k, v>>] = 1 + v
  OBVIOUS
<1>3. PICK f \in [Nat -> Nat] : \A n \in Nat : Solves(f, n, pred, step, 0)
  <2> HIDE DEF pred, step
  <2>1. PICK V, z : V = Nat /\ z = 0
    OBVIOUS
  <2>2. z \in V /\ step \in [Nat \X V -> V]
    BY <1>2, <2>1
  <2>3. \E g \in [Nat -> V] : \A n \in Nat : Solves(g, n, pred, step, z)
    BY <1>1, <2>2, RecursionExists
  <2> QED BY <2>1, <2>3
<1>4. f[0] = 0
  BY <1>3 DEF Solves
<1>5. ASSUME NEW v \in Nat, v > 0 PROVE f[v] = 1 + f[v \div 10]
  <2>1. v \in 1 .. v
    BY <1>5
  <2> HIDE DEF step
  <2>2. f[v] = step[<<v, f[pred[v]]>>]
    BY <1>3, <2>1 DEF Solves
  <2>3. pred[v] = v \div 10 /\ f[pred[v]] \in Nat
    BY <1>1
  <2> QED BY <1>2, <2>2, <2>3
<1>6. ASSUME NEW v \in Nat PROVE f[v] = IF v = 0 THEN 0 ELSE 1 + f[v \div 10]
  <2>1. CASE v = 0
    BY <1>4, <2>1
  <2>2. CASE v # 0
    BY <1>5, <2>2
  <2> QED BY <2>1, <2>2
<1>7. f = Body(f)
  BY <1>6
<1>8. digitLoop = CHOOSE g : g = Body(g)
  BY DEF digitLoop
<1>9. digitLoop = Body(digitLoop)
  BY <1>7, <1>8
<1> DEFINE T == {v \in Nat : digitLoop[v] = f[v]}
<1>10. ASSUME NEW v \in Nat, \A k \in 0 .. v - 1 : k \in T
       PROVE  v \in T
  <2>1. digitLoop[v] = IF v = 0 THEN 0 ELSE 1 + digitLoop[v \div 10]
    BY <1>9
  <2>2. CASE v = 0
    BY <1>4, <2>1, <2>2
  <2>3. CASE v # 0
    <3>1. v \div 10 \in 0 .. v - 1
      BY <2>3, DivFacts
    <3>2. digitLoop[v \div 10] = f[v \div 10]
      BY <1>10, <3>1
    <3>3. digitLoop[v] = f[v]
      BY <1>5, <2>1, <2>3, <3>2
    <3> QED BY <3>3
  <2> QED BY <2>2, <2>3
<1>11. \A v \in Nat : digitLoop[v] = f[v]
  <2>1. \A v \in Nat : v \in T
    <3> HIDE DEF T
    <3> QED BY <1>10, StrongInduction
  <2> QED BY <2>1
<1>12. digitLoop = f
  <2>1. digitLoop = [v \in Nat |-> digitLoop[v]]
    BY <1>9
  <2> QED BY <1>11, <2>1
<1> QED BY <1>4, <1>5, <1>12

\* digits10 counts the digits that Itoa writes.
LEMMA DigitsCounted ==
  ASSUME NEW v \in Nat
  PROVE  /\ digits10(v) \in Nat
         /\ ByteLen(digitsOf[v]) = digits10(v)
<1> DEFINE T == {a \in Nat : Len(digitsOf[a]) = IF a = 0 THEN 1 ELSE digitLoop[a]}
<1>1. ASSUME NEW a \in Nat, \A k \in 0 .. a - 1 : k \in T
      PROVE  a \in T
  <2>1. CASE a < 10
    <3>1. digitsOf[a] = <<48 + a>>
      BY <2>1, DigitsEquation
    <3>2. Len(digitsOf[a]) = 1
      BY <3>1
    <3>3. CASE a = 0
      BY <3>2, <3>3
    <3>4. CASE a # 0
      <4>1. a \div 10 = 0
        BY <2>1
      <4>2. digitLoop[a] = 1
        BY <3>4, <4>1, DigitLoopEquation
      <4> QED BY <3>2, <3>4, <4>2
    <3> QED BY <3>3, <3>4
  <2>2. CASE a >= 10
    <3>1. a \div 10 \in Nat /\ a \div 10 # 0 /\ a \div 10 \in 0 .. a - 1 /\
            48 + (a % 10) \in Digit
      BY <2>2, DivFacts DEF Digit
    <3>2. PICK d \in Seq(Digit), e \in Digit : d = digitsOf[a \div 10] /\ e = 48 + (a % 10)
      BY <3>1, DigitsEquation
    <3>3. digitsOf[a] = Append(d, e)
      BY <2>2, <3>2, DigitsEquation
    <3>4. Len(digitsOf[a]) = Len(d) + 1
      BY <3>3, AppendFacts
    <3>5. Len(d) = digitLoop[a \div 10]
      BY <1>1, <3>1, <3>2
    <3>6. digitLoop[a] = 1 + digitLoop[a \div 10] /\ digitLoop[a \div 10] \in Nat /\ a # 0
      BY <2>2, <3>1, DigitLoopEquation
    <3>7. Len(digitsOf[a]) = digitLoop[a]
      BY <3>4, <3>5, <3>6
    <3> QED BY <3>6, <3>7
  <2> QED BY <2>1, <2>2
<1>2. v \in T
  <2>1. \A a \in Nat : a \in T
    <3> HIDE DEF T
    <3> QED BY <1>1, StrongInduction
  <2> QED BY <2>1
<1>3. digits10(v) = IF v = 0 THEN 1 ELSE digitLoop[v]
  BY DEF digits10
<1>4. PICK d \in Seq(Digit) : d = digitsOf[v]
  BY DigitsEquation
<1>5. d \in Seq(Nat) /\ \A k \in 1 .. Len(d) : d[k] < 128
  <2>1. Digit \subseteq Nat /\ \A c \in Digit : c < 128
    BY DEF Digit
  <2>2. d \in Seq(Nat)
    BY <2>1, SubsetSeq
  <2>3. \A k \in 1 .. Len(d) : d[k] \in Digit
    OBVIOUS
  <2> QED BY <2>1, <2>2, <2>3
<1>6. ByteLen(d) = Len(d)
  BY <1>5, ByteLenAscii
<1>7. Len(d) = digits10(v)
  BY <1>2, <1>3, <1>4
<1>8. Len(d) \in Nat
  OBVIOUS
<1> QED BY <1>4, <1>6, <1>7, <1>8

-----------------------------------------------------------------------------
\* The walks that count the bytes of a name agree with those that write it.
LEMMA NormalizedRuneCounted ==
  ASSUME NEW r \in Nat
  PROVE  normalizedRuneLen(r) \in Nat /\ normalizedRuneLen(r) = ByteLen(escapeRune(r))
<1>1. CASE r \in Lettered
  <2>1. PICK l \in Nat : l = EscapeLetter[r] /\ l < 128
    BY <1>1, LetterFacts
  <2>2. escapeRune(r) = <<92, l>>
    BY <1>1, <2>1, EscapeFacts
  <2>3. <<92, l>> \in Seq(Nat) /\ Len(<<92, l>>) = 2 /\ \A k \in 1 .. 2 : <<92, l>>[k] < 128
    BY <2>1
  <2>4. ByteLen(<<92, l>>) = 2
    BY <2>3, ByteLenAscii
  <2>5. normalizedRuneLen(r) = 2
    BY <1>1, LetterFacts DEF normalizedRuneLen
  <2> QED BY <2>2, <2>4, <2>5
<1>2. CASE r \notin Lettered /\ r < 32
  <2>1. PICK g \in Nat, h \in Nat : g = lowerHex(r \div 16) /\ h = lowerHex(r % 16) /\
          g < 128 /\ h < 128
    BY <1>2, HexFacts
  <2>2. escapeRune(r) = <<92, 117, 48, 48, g, h>>
    BY <1>2, <2>1, EscapeFacts
  <2> DEFINE t == <<92, 117, 48, 48, g, h>>
  <2>3. t \in Seq(Nat) /\ Len(t) = 6
    OBVIOUS
  <2>4. t[1] < 128 /\ t[2] < 128 /\ t[3] < 128 /\ t[4] < 128 /\ t[5] < 128 /\ t[6] < 128
    BY <2>1
  <2>5. \A k \in 1 .. 6 : k \in {1, 2, 3, 4, 5, 6}
    OBVIOUS
  <2>6. normalizedRuneLen(r) = 6
    BY <1>2, LetterFacts, SMT DEF normalizedRuneLen
  <2>7. escapeRune(r) = t
    BY <2>2
  <2> HIDE DEF t
  <2>8. \A k \in 1 .. Len(t) : t[k] < 128
    BY <2>3, <2>4, <2>5
  <2>9. ByteLen(t) = 6
    BY <2>3, <2>8, ByteLenAscii
  <2> QED BY <2>6, <2>7, <2>9
<1>3. CASE r \notin Lettered /\ ~(r < 32)
  <2>1. escapeRune(r) = <<r>>
    BY <1>3, EscapeFacts
  <2>2. normalizedRuneLen(r) = RuneLen(r)
    BY <1>3, LetterFacts DEF normalizedRuneLen
  <2>3. ByteLen(<<r>>) = RuneLen(r)
    BY ByteLenOne
  <2> QED BY <2>1, <2>2, <2>3, RuneLenFacts
<1> QED BY <1>1, <1>2, <1>3

\* pointerRuneLen counts the bytes of what pointerRune writes.
LEMMA PointerRuneCounted ==
  ASSUME NEW r \in Nat
  PROVE  pointerRuneLen(r) \in Nat /\ pointerRuneLen(r) = ByteLen(pointerRune(r))
<1>1. CASE r \in {47, 126}
  <2>1. PICK l \in Nat : l < 128 /\ pointerRune(r) = <<126, l>>
    <3>1. CASE r = 126
      <4>1. pointerRune(r) = <<126, 48>>
        BY <3>1, PointerRuneFacts
      <4> QED BY <4>1
    <3>2. CASE r = 47
      <4>1. pointerRune(r) = <<126, 49>>
        BY <3>2, PointerRuneFacts
      <4> QED BY <4>1
    <3> QED BY <1>1, <3>1, <3>2
  <2>2. <<126, l>> \in Seq(Nat) /\ Len(<<126, l>>) = 2 /\ \A k \in 1 .. 2 : <<126, l>>[k] < 128
    BY <2>1
  <2>3. ByteLen(<<126, l>>) = 2
    BY <2>2, ByteLenAscii
  <2>4. pointerRuneLen(r) = 2
    BY <1>1 DEF pointerRuneLen, Ch
  <2> QED BY <2>1, <2>3, <2>4
<1>2. CASE r \notin {47, 126}
  <2>1. pointerRune(r) = <<r>>
    BY <1>2, PointerRuneFacts
  <2>2. pointerRuneLen(r) = RuneLen(r)
    BY <1>2 DEF pointerRuneLen, Ch
  <2> QED BY <2>1, <2>2, ByteLenOne, RuneLenFacts
<1> QED BY <1>1, <1>2

\* The bytes reserved for a step.
normalizedStepLen(step) ==
    IF step.kind = pathStepName
    THEN 4 + Total([k \in DOMAIN step.name |-> normalizedRuneLen(step.name[k])])
    ELSE 2 + digits10(step.index)

pointerStepLen(step) ==
    1 + IF step.kind = pathStepName
        THEN Total([k \in DOMAIN step.name |-> pointerRuneLen(step.name[k])])
        ELSE digits10(step.index)

\* normalizedLen counts the bytes of a step as writeNormalizedTo writes it.
LEMMA NormalizedStepCounted ==
  ASSUME NEW x \in GoodStep
  PROVE  normalizedStepLen(x) \in Nat /\ normalizedStepLen(x) = ByteLen(stepCode[x])
<1>0. stepCode[x] = writeNormalizedTo(x)
  BY DEF stepCode
<1>1. CASE x.kind = 1
  <2>1. PICK s \in Seq(Nat) : s = x.name
    BY <1>1, NameWritten
  <2> DEFINE costs == [k \in DOMAIN s |-> normalizedRuneLen(s[k])]
  <2>2. PICK n \in Nat : n = Len(s) /\ DOMAIN s = 1 .. n
    OBVIOUS
  <2>3. ASSUME NEW k \in 1 .. n
        PROVE  normalizedRuneLen(s[k]) \in Nat /\
          normalizedRuneLen(s[k]) = ByteLen(escapeCode[s[k]])
    <3>1. s[k] \in Nat
      BY <2>2
    <3> QED BY <3>1, NormalizedRuneCounted DEF escapeCode
  <2>4. /\ costs \in Seq(Nat) /\ Len(costs) = n
        /\ \A k \in 1 .. n : costs[k] = ByteLen(escapeCode[s[k]])
    BY <2>2, <2>3
  <2>5. normalizedStepLen(x) = 4 + Total(costs)
    BY <1>1, <2>1 DEF normalizedStepLen, pathStepName
  <2> HIDE DEF costs
  <2>6. ByteLen(Encode(escapeCode, s)) = Total(costs)
    <3>1. costs \in Seq(Nat) /\ Costs(costs, escapeCode, s)
      BY <2>2, <2>4 DEF Costs
    <3> QED BY <3>1, EscapeType, ByteLenEncode
  <2>7. PICK a \in Seq(Nat), b \in Seq(Nat), c \in Seq(Nat) :
            a = <<91, 39>> /\ b = Encode(escapeCode, s) /\ c = <<39, 93>>
    BY <1>1, <2>1, NameWritten, TwoChars
  <2>8. ByteLen(a) = 2 /\ ByteLen(c) = 2
    <3>1. Len(a) = 2 /\ Len(c) = 2 /\ \A k \in 1 .. 2 : a[k] < 128 /\ c[k] < 128
      BY <2>7
    <3> QED BY <3>1, ByteLenAscii
  <2>9. writeNormalizedTo(x) = (a \o b) \o c
    BY <1>1, <2>1, <2>7, NameWritten
  <2>10. ByteLen(a \o b) = 2 + Total(costs)
    <3>1. ByteLen(a \o b) = ByteLen(a) + ByteLen(b)
      BY ByteLenConcat
    <3>2. ByteLen(b) = Total(costs)
      BY <2>6, <2>7
    <3> QED BY <2>8, <3>1, <3>2
  <2>11. PICK ab \in Seq(Nat) : ab = a \o b
    BY ConcatFacts
  <2>12. ByteLen(ab \o c) = ByteLen(ab) + 2
    BY <2>8, ByteLenConcat
  <2>13. Total(costs) \in Nat
    BY <2>4, TotalType
  <2>14. ByteLen(writeNormalizedTo(x)) = (2 + Total(costs)) + 2
    BY <2>9, <2>10, <2>11, <2>12
  <2> QED BY <1>0, <2>5, <2>13, <2>14
<1>2. CASE x.kind = 0
  <2>1. PICK a \in Seq(Nat), b \in Seq(Nat), c \in Seq(Nat) :
            a = <<91>> /\ b = digitsOf[x.index] /\ c = <<93>>
    <3>1. <<91>> \in Seq(Nat) /\ <<93>> \in Seq(Nat)
      BY Singleton
    <3>2. digitsOf[x.index] \in Seq(Nat)
      BY <1>2, IndexWritten
    <3> QED BY <3>1, <3>2
  <2>2. ByteLen(a) = 1 /\ ByteLen(c) = 1
    <3>1. Len(a) = 1 /\ Len(c) = 1 /\ \A k \in 1 .. 1 : a[k] < 128 /\ c[k] < 128
      BY <2>1
    <3> QED BY <3>1, ByteLenAscii
  <2>3. PICK d \in Nat : d = digits10(x.index) /\ ByteLen(b) = d
    BY <1>2, <2>1, IndexWritten, DigitsCounted
  <2>4. ByteLen(a \o b) = 1 + d
    BY <2>2, <2>3, ByteLenConcat
  <2>5. PICK ab \in Seq(Nat) : ab = a \o b
    BY ConcatFacts
  <2>6. ByteLen(ab \o c) = ByteLen(ab) + 1
    BY <2>2, ByteLenConcat
  <2>7. writeNormalizedTo(x) = ab \o c
    BY <1>2, <2>1, <2>5, IndexWritten
  <2>8. ByteLen(writeNormalizedTo(x)) = (1 + d) + 1
    BY <2>4, <2>5, <2>6, <2>7
  <2>9. normalizedStepLen(x) = 2 + d
    BY <1>2, <2>3 DEF normalizedStepLen, pathStepName
  <2> QED BY <1>0, <2>8, <2>9
<1> QED BY <1>1, <1>2, GoodStepCases

\* A pointer as a code: the slash is written before the token.
pointerStepCode == [x \in GoodStep |-> <<47>> \o writePointerTo(x)]

\* pointerLen counts a slash and the bytes that writePointerTo writes.
LEMMA PointerStepCounted ==
  ASSUME NEW x \in GoodStep
  PROVE  /\ pointerStepCode[x] \in Seq(Nat)
         /\ pointerStepLen(x) \in Nat /\ pointerStepLen(x) = ByteLen(pointerStepCode[x])
<1>1. PICK a \in Seq(Nat), b \in Seq(Nat) : a = <<47>> /\ b = writePointerTo(x)
  BY TokenWritten, Singleton
<1>2. pointerStepCode[x] = a \o b /\ a \o b \in Seq(Nat)
  BY <1>1, ConcatFacts DEF pointerStepCode
<1>3. ByteLen(a) = 1
  <2>1. Len(a) = 1 /\ \A k \in 1 .. 1 : a[k] < 128
    BY <1>1
  <2> QED BY <2>1, ByteLenAscii
<1>4. ByteLen(a \o b) = 1 + ByteLen(b)
  BY <1>3, ByteLenConcat
<1>5. CASE x.kind = 1
  <2>1. PICK s \in Seq(Nat) : s = x.name
    BY <1>5, NameWritten
  <2> DEFINE costs == [k \in DOMAIN s |-> pointerRuneLen(s[k])]
  <2>2. PICK n \in Nat : n = Len(s) /\ DOMAIN s = 1 .. n
    OBVIOUS
  <2>3. ASSUME NEW k \in 1 .. n
        PROVE  pointerRuneLen(s[k]) \in Nat /\ pointerRuneLen(s[k]) = ByteLen(pointerCode[s[k]])
    <3>1. s[k] \in Nat
      BY <2>2
    <3> QED BY <3>1, PointerRuneCounted DEF pointerCode
  <2>4. /\ costs \in Seq(Nat) /\ Len(costs) = n
        /\ \A k \in 1 .. n : costs[k] = ByteLen(pointerCode[s[k]])
    BY <2>2, <2>3
  <2>5. pointerStepLen(x) = 1 + Total(costs)
    BY <1>5, <2>1 DEF pointerStepLen, pathStepName
  <2> HIDE DEF costs
  <2>6. ByteLen(Encode(pointerCode, s)) = Total(costs)
    <3>1. costs \in Seq(Nat) /\ Costs(costs, pointerCode, s)
      BY <2>2, <2>4 DEF Costs
    <3> QED BY <3>1, PointerRuneType, ByteLenEncode
  <2>7. b = Encode(pointerCode, s)
    BY <1>1, <1>5, <2>1, TokenWritten DEF TokenOf, pathStepName
  <2>8. Total(costs) \in Nat
    BY <2>4, TotalType
  <2> QED BY <1>2, <1>4, <2>5, <2>6, <2>7, <2>8
<1>6. CASE x.kind = 0
  <2>1. b = digitsOf[x.index] /\ x.index \in Nat
    BY <1>1, <1>6, IndexWritten DEF writePointerTo, Itoa, pathStepName
  <2>2. PICK d \in Nat : d = digits10(x.index) /\ ByteLen(b) = d
    BY <2>1, DigitsCounted
  <2>3. pointerStepLen(x) = 1 + d
    BY <1>6, <2>2 DEF pointerStepLen, pathStepName
  <2> QED BY <1>2, <1>4, <2>2, <2>3
<1> QED BY <1>5, <1>6, GoodStepCases

\* normalizedLen and pointerLen, which String and Pointer reserve their buffers
\* by, are the exact byte lengths of what the two then write, for every path that
\* was handed out.
THEOREM LengthsAreExact == Spec => []LengthsExact
<1>1. Inv => LengthsExact
  <2> SUFFICES ASSUME Inv, NEW p \in Shown
               PROVE  /\ normalizedLen(p) = ByteLen(String(p))
                      /\ pointerLen(p) = ByteLen(Pointer(p))
    BY DEF LengthsExact
  <2>1. PICK n \in Nat : p \in Seq(GoodStep) /\ n = Len(p) /\ DOMAIN p = 1 .. n
    <3>1. p \in Seq(GoodStep)
      BY ShownAreGood
    <3> QED BY <3>1
  <2>2. \A k \in 1 .. n : p[k] \in GoodStep
    BY <2>1
  <2>3. normalizedLen(p) = ByteLen(String(p))
    <3> DEFINE costs == [k \in DOMAIN p |-> normalizedStepLen(p[k])]
    <3>1. \A k \in 1 .. n : /\ normalizedStepLen(p[k]) \in Nat
                            /\ normalizedStepLen(p[k]) = ByteLen(stepCode[p[k]])
      BY <2>2, NormalizedStepCounted
    <3>2. /\ costs \in Seq(Nat) /\ Len(costs) = n
          /\ \A k \in 1 .. n : costs[k] = ByteLen(stepCode[p[k]])
      BY <2>1, <3>1
    <3>3. normalizedLen(p) = 1 + Total(costs)
      BY DEF normalizedLen, normalizedStepLen
    <3> HIDE DEF costs
    <3>4. ByteLen(Encode(stepCode, p)) = Total(costs)
      <4>1. costs \in Seq(Nat) /\ Costs(costs, stepCode, p)
        BY <2>1, <3>2 DEF Costs
      <4> QED BY <2>1, <4>1, StepPrefixFree, ByteLenEncode
    <3>5. PICK a \in Seq(Nat), b \in Seq(Nat) : a = <<36>> /\ b = Encode(stepCode, p)
      BY <2>1, StringEncodes, Singleton
    <3>6. ByteLen(a) = 1
      <4>1. Len(a) = 1 /\ \A k \in 1 .. 1 : a[k] < 128
        BY <3>5
      <4> QED BY <4>1, ByteLenAscii
    <3>7. ByteLen(a \o b) = 1 + Total(costs)
      BY <3>4, <3>5, <3>6, ByteLenConcat
    <3>8. String(p) = a \o b
      BY <2>1, <3>5, StringEncodes
    <3> QED BY <3>3, <3>7, <3>8
  <2>4. pointerLen(p) = ByteLen(Pointer(p))
    <3> DEFINE costs == [k \in DOMAIN p |-> pointerStepLen(p[k])]
    <3>1. \A k \in 1 .. n : /\ pointerStepLen(p[k]) \in Nat
                            /\ pointerStepLen(p[k]) = ByteLen(pointerStepCode[p[k]])
      BY <2>2, PointerStepCounted
    <3>2. /\ costs \in Seq(Nat) /\ Len(costs) = n
          /\ \A k \in 1 .. n : costs[k] = ByteLen(pointerStepCode[p[k]])
      BY <2>1, <3>1
    <3>3. pointerLen(p) = Total(costs)
      BY DEF pointerLen, pointerStepLen
    <3> HIDE DEF costs
    <3>4. pointerStepCode \in [GoodStep -> Seq(Nat)]
      <4>1. \A x \in GoodStep : pointerStepCode[x] \in Seq(Nat)
        BY PointerStepCounted
      <4> QED BY <4>1 DEF pointerStepCode
    <3>5. ByteLen(Encode(pointerStepCode, p)) = Total(costs)
      <4>1. costs \in Seq(Nat) /\ Costs(costs, pointerStepCode, p)
        BY <2>1, <3>2 DEF Costs
      <4> QED BY <2>1, <3>4, <4>1, ByteLenEncode
    <3>6. Pointer(p) = Encode(pointerStepCode, p)
      <4>1. \A k \in 1 .. n : pointerStepCode[p[k]] = <<47>> \o writePointerTo(p[k])
        BY <2>2 DEF pointerStepCode
      <4>2. [k \in DOMAIN p |-> pointerStepCode[p[k]]]
              = [k \in DOMAIN p |-> <<47>> \o writePointerTo(p[k])]
        BY <2>1, <4>1
      <4> QED BY <4>2 DEF Pointer, Encode, Ch
    <3> QED BY <3>3, <3>5, <3>6
  <2> QED BY <2>3, <2>4
<1> QED BY <1>1, InvHolds, PTL
===============================================================================
