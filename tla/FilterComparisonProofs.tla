------------------------ MODULE FilterComparisonProofs ------------------------
(***************************************************************************)
(* The laws of the comparisons of internal/ast/filter.go and of jsonEqual, *)
(* for every set of values.  jsonEqual is recursive over values: its laws  *)
(* are proved by induction on how deep arrays and objects nest.  The other *)
(* comparisons are then told by what kinds of operands they accept.        *)
(***************************************************************************)
EXTENDS FilterComparison, NaturalRecursion, TLAPS

-----------------------------------------------------------------------------
(* jsonEqual is defined by its recursion.                                  *)

\* What jsonEqual is called with.
Pairs == Values \X Values

\* The parts of two containers that jsonEqual goes on with are less deep.
LEMMA ElementsShallower ==
  ASSUME NEW v \in Values
  PROVE  /\ v.t = "arr" => /\ v.e \in Seq(Values)
                           /\ \A k \in 1 .. Len(v.e) : v.e[k] \in Values /\ Depth[v.e[k]] < Depth[v]
         /\ v.t = "obj" => \A k \in DOMAIN v.m : v.m[k] \in Values /\ Depth[v.m[k]] < Depth[v]
<1>1. CASE v \in Scalars
  BY <1>1 DEF Scalars, Null, JSONNull, NotNumber
<1>2. CASE v \in [t : {"arr"}, e : Seq(Values)] /\ \A k \in DOMAIN v.e : Depth[v.e[k]] < Depth[v]
  BY <1>2
<1>3. CASE v \in [t : {"obj"}, m : [DOMAIN v.m -> Values]] /\ \A k \in DOMAIN v.m : Depth[v.m[k]] < Depth[v]
  BY <1>3
<1> QED BY <1>1, <1>2, <1>3, ValuesAssumption

\* One call of jsonEqual, f being the calls it makes.
Step(f, p) ==
    LET a == normalizeJSONNull(p[1])
        b == normalizeJSONNull(p[2])
    IN  CASE isNumberType(a) \/ isNumberType(b) ->
                isNumeric(a) /\ isNumeric(b) /\ a.n = b.n
          [] a.t = "arr" /\ b.t = "arr" ->
                /\ Len(a.e) = Len(b.e)
                /\ \A k \in 1 .. Len(a.e) : f[<<a.e[k], b.e[k]>>]
          [] a.t = "obj" /\ b.t = "obj" ->
                /\ DOMAIN a.m = DOMAIN b.m
                /\ \A k \in DOMAIN a.m : f[<<a.m[k], b.m[k]>>]
          [] OTHER -> a = b

\* A call depends only on calls for less deep values.
LEMMA StepLocal ==
  ASSUME NEW x \in Values, NEW y \in Values, NEW f, NEW g,
         \A q \in Pairs : Depth[q[1]] < Depth[x] => f[q] = g[q]
  PROVE  Step(f, <<x, y>>) = Step(g, <<x, y>>)
<1>1. PICK a, b : a = normalizeJSONNull(x) /\ b = normalizeJSONNull(y)
  OBVIOUS
<1>2. a.t = "arr" \/ a.t = "obj" => a = x
  BY <1>1 DEF normalizeJSONNull, Null
<1>3. b.t = "arr" \/ b.t = "obj" => b = y
  BY <1>1 DEF normalizeJSONNull, Null
<1>4. CASE isNumberType(a) \/ isNumberType(b)
  BY <1>1, <1>4 DEF Step
<1>5. CASE ~(isNumberType(a) \/ isNumberType(b)) /\ a.t = "arr" /\ b.t = "arr"
  <2>1. ASSUME Len(a.e) = Len(b.e)
        PROVE  \A k \in 1 .. Len(a.e) : f[<<a.e[k], b.e[k]>>] = g[<<a.e[k], b.e[k]>>]
    BY <1>2, <1>3, <1>5, <2>1, ElementsShallower DEF Pairs
  <2>2. (Len(a.e) = Len(b.e) /\ \A k \in 1 .. Len(a.e) : f[<<a.e[k], b.e[k]>>])
        = (Len(a.e) = Len(b.e) /\ \A k \in 1 .. Len(a.e) : g[<<a.e[k], b.e[k]>>])
    BY <2>1
  <2> QED BY <1>1, <1>5, <2>2 DEF Step
<1>6. CASE ~(isNumberType(a) \/ isNumberType(b)) /\ a.t = "obj" /\ b.t = "obj"
  <2>1. ASSUME DOMAIN a.m = DOMAIN b.m
        PROVE  \A k \in DOMAIN a.m : f[<<a.m[k], b.m[k]>>] = g[<<a.m[k], b.m[k]>>]
    BY <1>2, <1>3, <1>6, <2>1, ElementsShallower DEF Pairs
  <2>2. (DOMAIN a.m = DOMAIN b.m /\ \A k \in DOMAIN a.m : f[<<a.m[k], b.m[k]>>])
        = (DOMAIN a.m = DOMAIN b.m /\ \A k \in DOMAIN a.m : g[<<a.m[k], b.m[k]>>])
    BY <2>1
  <2> QED BY <1>1, <1>6, <2>2 DEF Step
<1>7. CASE ~(isNumberType(a) \/ isNumberType(b)) /\ ~(a.t = "arr" /\ b.t = "arr")
           /\ ~(a.t = "obj" /\ b.t = "obj")
  BY <1>1, <1>7 DEF Step
<1> QED BY <1>4, <1>5, <1>6, <1>7

\* It returns a bool.
LEMMA StepBoolean ==
  ASSUME NEW p \in Pairs, NEW f
  PROVE  Step(f, p) \in BOOLEAN
BY DEF Step, isNumeric

\* f is right about values of depth up to n.
UpTo(f, n) == \A p \in Pairs : Depth[p[1]] <= n => f[p] = Step(f, p)

\* A pair of values, and its depth.
LEMMA DepthNat ==
  ASSUME NEW p \in Pairs
  PROVE  p[1] \in Values /\ p[2] \in Values /\ p = <<p[1], p[2]>> /\ Depth[p[1]] \in Nat
BY ValuesAssumption DEF Pairs

\* There is such a function for every depth.
LEMMA UpToExists ==
  ASSUME NEW n \in Nat
  PROVE  \E f : UpTo(f, n)
<1> DEFINE T == {m \in Nat : \E f : UpTo(f, m)}
<1>1. ASSUME NEW m \in Nat, \A k \in 0 .. m - 1 : k \in T
      PROVE  m \in T
  <2>1. PICK f : \A p \in Pairs : Depth[p[1]] <= m - 1 => f[p] = Step(f, p)
    <3>1. CASE m = 0
      <4>1. \A p \in Pairs : ~(Depth[p[1]] <= m - 1)
        BY <3>1, DepthNat
      <4> QED BY <4>1
    <3>2. CASE m # 0
      <4>1. m - 1 \in T
        BY <1>1, <3>2
      <4> QED BY <4>1 DEF UpTo
    <3> QED BY <3>1, <3>2
  <2> DEFINE g == [p \in Pairs |-> Step(f, p)]
  <2>2. ASSUME NEW p \in Pairs, Depth[p[1]] <= m
        PROVE  g[p] = Step(g, p)
    <3>1. \A q \in Pairs : Depth[q[1]] < Depth[p[1]] => f[q] = g[q]
      <4> SUFFICES ASSUME NEW q \in Pairs, Depth[q[1]] < Depth[p[1]] PROVE f[q] = g[q]
        OBVIOUS
      <4>1. Depth[q[1]] <= m - 1
        BY <2>2, DepthNat
      <4> QED BY <2>1, <4>1
    <3>2. g[p] = Step(f, p)
      OBVIOUS
    <3> HIDE DEF g
    <3>3. Step(f, <<p[1], p[2]>>) = Step(g, <<p[1], p[2]>>)
      BY <3>1, DepthNat, StepLocal
    <3> QED BY <3>2, <3>3, DepthNat
  <2> HIDE DEF g
  <2>3. UpTo(g, m)
    BY <2>2 DEF UpTo
  <2> QED BY <2>3
<1> HIDE DEF T
<1>2. \A m \in Nat : m \in T
  BY <1>1, StrongInduction
<1> QED BY <1>2 DEF T

\* Two of them agree as far as both are right.
LEMMA UpToUnique ==
  ASSUME NEW m \in Nat, NEW f, UpTo(f, m), NEW n \in Nat, NEW g, UpTo(g, n)
  PROVE  \A p \in Pairs : Depth[p[1]] <= m /\ Depth[p[1]] <= n => f[p] = g[p]
<1> DEFINE T == {d \in Nat : \A p \in Pairs : Depth[p[1]] = d /\ d <= m /\ d <= n => f[p] = g[p]}
<1>1. ASSUME NEW d \in Nat, \A k \in 0 .. d - 1 : k \in T
      PROVE  d \in T
  <2> SUFFICES ASSUME NEW p \in Pairs, Depth[p[1]] = d, d <= m, d <= n PROVE f[p] = g[p]
    OBVIOUS
  <2>1. \A q \in Pairs : Depth[q[1]] < Depth[p[1]] => f[q] = g[q]
    <3> SUFFICES ASSUME NEW q \in Pairs, Depth[q[1]] < Depth[p[1]] PROVE f[q] = g[q]
      OBVIOUS
    <3>1. PICK e \in Nat : e = Depth[q[1]]
      BY DepthNat
    <3>2. e \in 0 .. d - 1 /\ e <= m /\ e <= n
      BY <3>1
    <3>3. e \in T
      BY <1>1, <3>2
    <3> QED BY <3>1, <3>2, <3>3
  <2>2. Step(f, <<p[1], p[2]>>) = Step(g, <<p[1], p[2]>>)
    <3> HIDE DEF T
    <3>1. PICK x \in Values, y \in Values : p = <<x, y>>
      BY DEF Pairs
    <3> QED BY <2>1, <3>1, StepLocal
  <2>3. f[p] = Step(f, p) /\ g[p] = Step(g, p)
    BY DEF UpTo
  <2> QED BY <2>2, <2>3, DepthNat
<1> HIDE DEF T
<1>2. \A d \in Nat : d \in T
  BY <1>1, StrongInduction
<1>3. ASSUME NEW p \in Pairs, Depth[p[1]] <= m, Depth[p[1]] <= n PROVE f[p] = g[p]
  <2>1. PICK d \in Nat : d = Depth[p[1]]
    BY DepthNat
  <2>2. d \in T
    BY <1>2
  <2> QED BY <1>3, <2>1, <2>2 DEF T
<1> QED BY <1>3

\* jsonEqual is the function that its definition asks for.
LEMMA JSONEqualEquation ==
  ASSUME NEW p \in Pairs
  PROVE  jsonEqual[p] = Step(jsonEqual, p)
<1> DEFINE part == [n \in Nat |-> CHOOSE f : UpTo(f, n)]
           F == [q \in Pairs |-> part[Depth[q[1]]][q]]
<1>1. \A n \in Nat : UpTo(part[n], n)
  BY UpToExists
<1>2. ASSUME NEW q \in Pairs PROVE F[q] = Step(F, q)
  <2>1. PICK d \in Nat : d = Depth[q[1]]
    BY DepthNat
  <2>2. PICK f : f = part[d]
    OBVIOUS
  <2>3. UpTo(f, d)
    BY <1>1, <2>2
  <2>4. \A r \in Pairs : Depth[r[1]] < Depth[q[1]] => f[r] = F[r]
    <3> SUFFICES ASSUME NEW r \in Pairs, Depth[r[1]] < Depth[q[1]] PROVE f[r] = F[r]
      OBVIOUS
    <3>1. PICK e \in Nat : e = Depth[r[1]]
      BY DepthNat
    <3>2. PICK g : g = part[e]
      OBVIOUS
    <3>3. UpTo(g, e) /\ F[r] = g[r] /\ e <= d
      BY <1>1, <2>1, <3>1, <3>2
    <3>4. f[r] = g[r]
      BY <2>1, <2>3, <3>1, <3>3, UpToUnique
    <3> QED BY <3>3, <3>4
  <2>5. F[q] = f[q]
    BY <2>1, <2>2
  <2> HIDE DEF F
  <2>6. Step(f, <<q[1], q[2]>>) = Step(F, <<q[1], q[2]>>)
    BY <2>4, DepthNat, StepLocal
  <2>7. f[q] = Step(f, q)
    BY <2>1, <2>3 DEF UpTo
  <2> QED BY <2>5, <2>6, <2>7, DepthNat
<1>3. F = [q \in Pairs |-> Step(F, q)]
  BY <1>2
<1> HIDE DEF F
<1>4. jsonEqual = [q \in Pairs |-> Step(jsonEqual, q)]
  BY <1>3 DEF jsonEqual, Step, Pairs
<1> QED BY <1>4

-----------------------------------------------------------------------------
(* jsonEqual is symmetric and transitive.                                  *)

\* x and y are equal JSON values.
Equal(x, y) == jsonEqual[<<x, y>>]

\* normalizeJSONNull turns the sentinel into a plain null and nothing else.
LEMMA NormalizedCases ==
  ASSUME NEW v \in Values
  PROVE  /\ normalizeJSONNull(v).t # "jsonNull"
         /\ v.t # "jsonNull" => normalizeJSONNull(v) = v
         /\ normalizeJSONNull(v).t \in {"num", "nan", "arr", "obj"} => normalizeJSONNull(v) = v
BY DEF normalizeJSONNull, Null

\* What two equal values have in common.
LEMMA EqualUnfolds ==
  ASSUME NEW x \in Values, NEW y \in Values, NEW a, NEW b,
         a = normalizeJSONNull(x), b = normalizeJSONNull(y)
  PROVE  /\ Equal(x, y) \in BOOLEAN
         /\ a.t = "nan" \/ b.t = "nan" => ~Equal(x, y)
         /\ Equal(x, y) => a.t = b.t
         /\ a.t = "num" /\ b.t = "num" => (Equal(x, y) <=> a.n = b.n)
         /\ a.t = "arr" /\ b.t = "arr" =>
              (Equal(x, y) <=> Len(x.e) = Len(y.e) /\ \A k \in 1 .. Len(x.e) : Equal(x.e[k], y.e[k]))
         /\ a.t = "obj" /\ b.t = "obj" =>
              (Equal(x, y) <=> DOMAIN x.m = DOMAIN y.m /\ \A k \in DOMAIN x.m : Equal(x.m[k], y.m[k]))
         /\ a.t \notin {"num", "nan", "arr", "obj"} => (Equal(x, y) <=> a = b)
<1>1. Equal(x, y) = Step(jsonEqual, <<x, y>>)
  BY JSONEqualEquation DEF Equal, Pairs
<1>2. Equal(x, y) \in BOOLEAN
  BY <1>1, StepBoolean DEF Pairs
<1>3. a.t \in {"num", "nan", "arr", "obj"} => a = x
  BY NormalizedCases
<1>4. b.t \in {"num", "nan", "arr", "obj"} => b = y
  BY NormalizedCases
<1>5. CASE a.t \in {"num", "nan"} \/ b.t \in {"num", "nan"}
  <2>1. Step(jsonEqual, <<x, y>>) = (a.t = "num" /\ b.t = "num" /\ a.n = b.n)
    BY <1>5 DEF Step, isNumberType, isNumeric
  <2> QED BY <1>1, <1>2, <1>5, <2>1
<1>6. CASE ~(a.t \in {"num", "nan"} \/ b.t \in {"num", "nan"}) /\ a.t = "arr" /\ b.t = "arr"
  <2>1. Step(jsonEqual, <<x, y>>) =
          (Len(a.e) = Len(b.e) /\ \A k \in 1 .. Len(a.e) : jsonEqual[<<a.e[k], b.e[k]>>])
    BY <1>6 DEF Step, isNumberType, isNumeric
  <2> QED BY <1>1, <1>2, <1>3, <1>4, <1>6, <2>1 DEF Equal
<1>7. CASE ~(a.t \in {"num", "nan"} \/ b.t \in {"num", "nan"}) /\ a.t = "obj" /\ b.t = "obj"
  <2>1. Step(jsonEqual, <<x, y>>) =
          (DOMAIN a.m = DOMAIN b.m /\ \A k \in DOMAIN a.m : jsonEqual[<<a.m[k], b.m[k]>>])
    BY <1>7 DEF Step, isNumberType, isNumeric
  <2> QED BY <1>1, <1>2, <1>3, <1>4, <1>7, <2>1 DEF Equal
<1>8. CASE ~(a.t \in {"num", "nan"} \/ b.t \in {"num", "nan"}) /\ ~(a.t = "arr" /\ b.t = "arr")
           /\ ~(a.t = "obj" /\ b.t = "obj")
  <2>1. Step(jsonEqual, <<x, y>>) = (a = b)
    BY <1>8 DEF Step, isNumberType, isNumeric
  <2> QED BY <1>1, <1>2, <1>8, <2>1
<1> QED BY <1>5, <1>6, <1>7, <1>8

\* jsonEqual is symmetric.
LEMMA EqualSymmetric ==
  ASSUME NEW x \in Values, NEW y \in Values, Equal(x, y)
  PROVE  Equal(y, x)
<1> DEFINE T == {d \in Nat : \A v, w \in Values : Depth[v] = d /\ Equal(v, w) => Equal(w, v)}
<1>1. ASSUME NEW d \in Nat, \A k \in 0 .. d - 1 : k \in T
      PROVE  d \in T
  <2> SUFFICES ASSUME NEW v \in Values, NEW w \in Values, Depth[v] = d, Equal(v, w) PROVE Equal(w, v)
    OBVIOUS
  <2>1. ASSUME NEW c \in Values, NEW e \in Values, Depth[c] < Depth[v], Equal(c, e)
        PROVE  Equal(e, c)
    <3>1. Depth[c] \in 0 .. d - 1
      BY <2>1, ValuesAssumption
    <3> QED BY <1>1, <2>1, <3>1
  <2> HIDE DEF T
  <2>2. PICK a, b : a = normalizeJSONNull(v) /\ b = normalizeJSONNull(w)
    OBVIOUS
  <2>3. a.t = b.t /\ a.t # "nan"
    BY <2>2, EqualUnfolds
  <2>4. a.t \in {"arr", "obj"} => a = v /\ b = w
    BY <2>2, <2>3, NormalizedCases
  <2>5. CASE a.t = "arr"
    <3>1. Len(v.e) = Len(w.e) /\ \A k \in 1 .. Len(v.e) : Equal(v.e[k], w.e[k])
      BY <2>2, <2>3, <2>5, EqualUnfolds
    <3>2. \A k \in 1 .. Len(w.e) : Equal(w.e[k], v.e[k])
      BY <2>1, <2>3, <2>4, <2>5, <3>1, ElementsShallower
    <3> QED BY <2>2, <2>3, <2>5, <3>1, <3>2, EqualUnfolds
  <2>6. CASE a.t = "obj"
    <3>1. DOMAIN v.m = DOMAIN w.m /\ \A k \in DOMAIN v.m : Equal(v.m[k], w.m[k])
      BY <2>2, <2>3, <2>6, EqualUnfolds
    <3>2. \A k \in DOMAIN w.m : Equal(w.m[k], v.m[k])
      BY <2>1, <2>3, <2>4, <2>6, <3>1, ElementsShallower
    <3> QED BY <2>2, <2>3, <2>6, <3>1, <3>2, EqualUnfolds
  <2>7. CASE a.t = "num"
    BY <2>2, <2>3, <2>7, EqualUnfolds
  <2>8. CASE a.t \notin {"num", "nan", "arr", "obj"}
    BY <2>2, <2>3, <2>8, EqualUnfolds
  <2> QED BY <2>3, <2>5, <2>6, <2>7, <2>8
<1> HIDE DEF T
<1>2. \A d \in Nat : d \in T
  BY <1>1, StrongInduction
<1>3. Depth[x] \in T
  BY <1>2, ValuesAssumption
<1> QED BY <1>3 DEF T

\* What equal arrays and equal objects have in common.
LEMMA EqualParts ==
  ASSUME NEW x \in Values, NEW y \in Values, Equal(x, y)
  PROVE  /\ normalizeJSONNull(x).t = "arr" =>
              Len(x.e) = Len(y.e) /\ \A k \in 1 .. Len(x.e) : Equal(x.e[k], y.e[k])
         /\ normalizeJSONNull(x).t = "obj" =>
              DOMAIN x.m = DOMAIN y.m /\ \A k \in DOMAIN x.m : Equal(x.m[k], y.m[k])
<1>1. normalizeJSONNull(x).t = normalizeJSONNull(y).t
  BY EqualUnfolds
<1>2. CASE normalizeJSONNull(x).t = "arr"
  BY <1>1, <1>2, EqualUnfolds
<1>3. CASE normalizeJSONNull(x).t = "obj"
  BY <1>1, <1>3, EqualUnfolds
<1> QED BY <1>2, <1>3

\* jsonEqual is transitive.
LEMMA EqualTransitive ==
  ASSUME NEW x \in Values, NEW y \in Values, NEW z \in Values, Equal(x, y), Equal(y, z)
  PROVE  Equal(x, z)
<1> DEFINE T == {d \in Nat : \A u, v, w \in Values :
                                Depth[u] = d /\ Equal(u, v) /\ Equal(v, w) => Equal(u, w)}
<1>1. ASSUME NEW d \in Nat, \A k \in 0 .. d - 1 : k \in T
      PROVE  d \in T
  <2> SUFFICES ASSUME NEW u \in Values, NEW v \in Values, NEW w \in Values,
                      Depth[u] = d, Equal(u, v), Equal(v, w)
               PROVE  Equal(u, w)
    OBVIOUS
  <2>1. ASSUME NEW c \in Values, NEW e \in Values, NEW g \in Values,
               Depth[c] < Depth[u], Equal(c, e), Equal(e, g)
        PROVE  Equal(c, g)
    <3>1. Depth[c] \in 0 .. d - 1
      BY <2>1, ValuesAssumption
    <3> QED BY <1>1, <2>1, <3>1
  <2> HIDE DEF T
  <2>2. PICK a, b, c : /\ a = normalizeJSONNull(u) /\ b = normalizeJSONNull(v)
                       /\ c = normalizeJSONNull(w)
    OBVIOUS
  <2>3. a.t = b.t /\ b.t = c.t /\ a.t # "nan"
    BY <2>2, EqualUnfolds
  <2>4. a.t \in {"arr", "obj"} => a = u /\ b = v /\ c = w
    BY <2>2, <2>3, NormalizedCases
  <2>5. CASE a.t = "arr"
    <3>1. Len(u.e) = Len(v.e) /\ \A k \in 1 .. Len(u.e) : Equal(u.e[k], v.e[k])
      BY <2>2, <2>3, <2>5, EqualParts
    <3>2. Len(v.e) = Len(w.e) /\ \A k \in 1 .. Len(v.e) : Equal(v.e[k], w.e[k])
      BY <2>2, <2>3, <2>5, EqualParts
    <3>3. \A k \in 1 .. Len(u.e) : Equal(u.e[k], w.e[k])
      BY <2>1, <2>3, <2>4, <2>5, <3>1, <3>2, ElementsShallower
    <3> QED BY <2>2, <2>3, <2>5, <3>1, <3>2, <3>3, EqualUnfolds
  <2>6. CASE a.t = "obj"
    <3>1. DOMAIN u.m = DOMAIN v.m /\ \A k \in DOMAIN u.m : Equal(u.m[k], v.m[k])
      BY <2>2, <2>3, <2>6, EqualParts
    <3>2. DOMAIN v.m = DOMAIN w.m /\ \A k \in DOMAIN v.m : Equal(v.m[k], w.m[k])
      BY <2>2, <2>3, <2>6, EqualParts
    <3>3. \A k \in DOMAIN u.m : Equal(u.m[k], w.m[k])
      BY <2>1, <2>3, <2>4, <2>6, <3>1, <3>2, ElementsShallower
    <3> QED BY <2>2, <2>3, <2>6, <3>1, <3>2, <3>3, EqualUnfolds
  <2>7. CASE a.t = "num"
    BY <2>2, <2>3, <2>7, EqualUnfolds
  <2>8. CASE a.t \notin {"num", "nan", "arr", "obj"}
    BY <2>2, <2>3, <2>8, EqualUnfolds
  <2> QED BY <2>3, <2>5, <2>6, <2>7, <2>8
<1> HIDE DEF T
<1>2. \A d \in Nat : d \in T
  BY <1>1, StrongInduction
<1>3. Depth[x] \in T
  BY <1>2, ValuesAssumption
<1> QED BY <1>3 DEF T

-----------------------------------------------------------------------------
(* The operators on operands.                                              *)

\* What a tag says of a value.
LEMMA ValueTypes ==
  ASSUME NEW v \in Values
  PROVE  /\ v.t = "num" => v.n \in Int
         /\ v.t = "str" => v.s \in Int /\ v = Str(v.s)
         /\ v.t = "jsonNull" => v = JSONNull
<1>1. CASE v \in Scalars
  BY <1>1 DEF Scalars, Null, JSONNull, NotNumber, Str
<1>2. CASE v \in [t : {"arr"}, e : Seq(Values)]
  BY <1>2
<1>3. CASE v \in [t : {"obj"}, m : [DOMAIN v.m -> Values]]
  BY <1>3
<1> QED BY <1>1, <1>2, <1>3, ValuesAssumption

\* What an operand can be.
LEMMA OperandTypes ==
  ASSUME NEW a \in Operands
  PROVE  /\ a.kind \in {"Nothing", "Logical", "Nodes", "JSON"}
         /\ a.kind = "Nothing" => a = Nothing
         /\ a.kind = "JSON" => /\ a.value \in Values /\ a.value.t # "jsonNull"
                               /\ normalizeJSONNull(a.value) = a.value
<1>1. a.kind = "JSON" => a.value \in Values /\ a.value # JSONNull
  BY OperandsAssumption DEF Nothing
<1>2. a.kind = "JSON" => a.value.t # "jsonNull"
  BY <1>1, ValueTypes
<1>3. a.kind \in {"Nothing", "Logical", "Nodes", "JSON"} /\ (a.kind = "Nothing" => a = Nothing)
  BY OperandsAssumption DEF Nothing
<1> QED BY <1>1, <1>2, <1>3, NormalizedCases

\* equalTo compares JSON operands with jsonEqual, and Nothing equals Nothing.
LEMMA EqualToFacts ==
  ASSUME NEW a \in Operands, NEW b \in Operands
  PROVE  /\ equalTo(a, b) \in BOOLEAN
         /\ equalTo(a, b) <=> \/ a.kind = "Nothing" /\ b.kind = "Nothing"
                              \/ a.kind = "JSON" /\ b.kind = "JSON" /\ Equal(a.value, b.value)
BY OperandTypes, EqualUnfolds DEF equalTo, Equal

\* equalTo is symmetric.
LEMMA EqualToSymmetric ==
  ASSUME NEW a \in Operands, NEW b \in Operands
  PROVE  equalTo(a, b) = equalTo(b, a)
<1>1. equalTo(a, b) => equalTo(b, a)
  BY EqualToFacts, OperandTypes, EqualSymmetric
<1>2. equalTo(b, a) => equalTo(a, b)
  BY EqualToFacts, OperandTypes, EqualSymmetric
<1> QED BY <1>1, <1>2, EqualToFacts

\* equalTo is transitive.
LEMMA EqualToTransitive ==
  ASSUME NEW a \in Operands, NEW b \in Operands, NEW c \in Operands, equalTo(a, b), equalTo(b, c)
  PROVE  equalTo(a, c)
BY EqualToFacts, OperandTypes, EqualTransitive

\* What equal values agree in.
LEMMA EqualToAgrees ==
  ASSUME NEW a \in Operands, NEW b \in Operands, equalTo(a, b), a.kind = "JSON"
  PROVE  /\ b.kind = "JSON" /\ a.value.t = b.value.t
         /\ a.value.t = "num" => a.value.n = b.value.n
         /\ a.value.t = "str" => a.value.s = b.value.s
<1>1. b.kind = "JSON" /\ Equal(a.value, b.value)
  BY EqualToFacts
<1>2. PICK v \in Values, w \in Values : v = a.value /\ w = b.value
  BY <1>1, OperandTypes
<1>3. v = normalizeJSONNull(v) /\ w = normalizeJSONNull(w) /\ Equal(v, w)
  BY <1>1, <1>2, OperandTypes
<1>4. v.t = w.t /\ (v.t = "num" => v.n = w.n) /\ (v.t = "str" => v = w)
  BY <1>3, EqualUnfolds
<1> QED BY <1>1, <1>2, <1>4

\* No comparison tells equal operands apart.
LEMMA Congruence ==
  ASSUME NEW a \in Operands, NEW b \in Operands, NEW c \in Operands, equalTo(a, b)
  PROVE  /\ equalTo(a, c) = equalTo(b, c) /\ equalTo(c, a) = equalTo(c, b)
         /\ sameType(a, c) = sameType(b, c) /\ sameType(c, a) = sameType(c, b)
         /\ lessThan(a, c) = lessThan(b, c) /\ lessThan(c, a) = lessThan(c, b)
<1>1. CASE a.kind = "JSON"
  <2>1. equalTo(b, a)
    BY EqualToSymmetric
  <2>2. equalTo(a, c) = equalTo(b, c)
    BY <2>1, EqualToTransitive, EqualToFacts
  <2>3. equalTo(c, a) = equalTo(c, b)
    BY <2>2, EqualToSymmetric
  <2>4. sameType(a, c) = sameType(b, c) /\ sameType(c, a) = sameType(c, b)
    BY <1>1, EqualToAgrees DEF sameType, isNumeric
  <2>5. lessThan(a, c) = lessThan(b, c) /\ lessThan(c, a) = lessThan(c, b)
    BY <1>1, EqualToAgrees DEF lessThan, isNumeric
  <2> QED BY <2>2, <2>3, <2>4, <2>5
<1>2. CASE a.kind # "JSON"
  <2>1. a = Nothing /\ b = Nothing
    BY <1>2, EqualToFacts, OperandTypes
  <2> QED BY <2>1
<1> QED BY <1>1, <1>2

\* The six operators, from the three functions they call.
LEMMA CompareUnfolds ==
  ASSUME NEW a, NEW b
  PROVE  /\ Compare("==", a, b) = equalTo(a, b)
         /\ Compare("!=", a, b) = ~equalTo(a, b)
         /\ Compare("<", a, b) = (sameType(a, b) /\ lessThan(a, b))
         /\ Compare("<=", a, b) = (sameType(a, b) /\ (lessThan(a, b) \/ equalTo(a, b)))
         /\ Compare(">", a, b) = (sameType(a, b) /\ lessThan(b, a))
         /\ Compare(">=", a, b) = (sameType(a, b) /\ (lessThan(b, a) \/ equalTo(a, b)))
BY DEF Compare

\* No operator tells equal operands apart.
LEMMA CompareCongruence ==
  ASSUME NEW a \in Operands, NEW b \in Operands, NEW c \in Operands, equalTo(a, b), NEW op \in CompOps
  PROVE  Compare(op, a, c) = Compare(op, b, c) /\ Compare(op, c, a) = Compare(op, c, b)
BY Congruence, CompareUnfolds DEF CompOps

\* sameType is symmetric; lessThan excludes its converse and equality.
LEMMA OrderFacts ==
  ASSUME NEW a \in Operands, NEW b \in Operands
  PROVE  /\ sameType(a, b) = sameType(b, a)
         /\ lessThan(a, b) => ~lessThan(b, a) /\ ~equalTo(a, b)
<1>1. sameType(a, b) = sameType(b, a)
  BY DEF sameType, isNumeric
<1>2. lessThan(a, b) => ~lessThan(b, a)
  BY OperandTypes, ValueTypes DEF lessThan, isNumeric
<1>3. lessThan(a, b) => ~equalTo(a, b)
  BY OperandTypes, ValueTypes, EqualToAgrees DEF lessThan, isNumeric
<1> QED BY <1>1, <1>2, <1>3

\* lessThan is transitive.
LEMMA LessThanTransitive ==
  ASSUME NEW a \in Operands, NEW b \in Operands, NEW c \in Operands, lessThan(a, b), lessThan(b, c)
  PROVE  lessThan(a, c)
<1>1. a.kind = "JSON" /\ b.kind = "JSON" /\ c.kind = "JSON"
  BY DEF lessThan
<1>2. PICK u \in Values, v \in Values, w \in Values : u = a.value /\ v = b.value /\ w = c.value
  BY <1>1, OperandTypes
<1>3. CASE u.t = "num"
  <2>1. v.t = "num" /\ w.t = "num" /\ u.n < v.n /\ v.n < w.n
    BY <1>2, <1>3 DEF lessThan, isNumeric
  <2>2. u.n < w.n
    BY <1>3, <2>1, ValueTypes
  <2> QED BY <1>1, <1>2, <1>3, <2>1, <2>2 DEF lessThan, isNumeric
<1>4. CASE u.t = "str"
  <2>1. v.t = "str" /\ w.t = "str" /\ u.s < v.s /\ v.s < w.s
    BY <1>2, <1>4 DEF lessThan, isNumeric
  <2>2. u.s < w.s
    BY <1>4, <2>1, ValueTypes
  <2> QED BY <1>1, <1>2, <1>4, <2>1, <2>2 DEF lessThan, isNumeric
<1> QED BY <1>2, <1>3, <1>4 DEF lessThan, isNumeric

\* sameType is transitive.
LEMMA SameTypeTransitive ==
  ASSUME NEW a, NEW b, NEW c, sameType(a, b), sameType(b, c)
  PROVE  sameType(a, c)
BY DEF sameType, isNumeric

-----------------------------------------------------------------------------
(* The theorems.                                                           *)

\* The operands are operands, and a verdict is what Compare says of them.
TypeOK ==
    /\ left \in Operands /\ right \in Operands
    /\ verdict = <<>> \/ verdict = [op \in CompOps |-> Compare(op, left, right)]

\* TypeOK is inductive.
LEMMA TypeCorrect == Spec => []TypeOK
<1>1. Init => TypeOK
  BY DEF Init, TypeOK
<1>2. TypeOK /\ [Next]_vars => TypeOK'
  <2> SUFFICES ASSUME TypeOK, [Next]_vars PROVE TypeOK'
    OBVIOUS
  <2>1. CASE Eval
    BY <2>1 DEF Eval, TypeOK
  <2>2. CASE UNCHANGED vars
    BY <2>2 DEF vars, TypeOK
  <2> QED BY <2>1, <2>2 DEF Next
<1> QED BY <1>1, <1>2, PTL DEF Spec

\* A finished comparison is Compare of its operands.
LEMMA VerdictOf ==
  ASSUME TypeOK, Complete
  PROVE  /\ left \in Operands /\ right \in Operands
         /\ \A op \in CompOps : verdict[op] = Compare(op, left, right)
<1>1. DOMAIN <<>> # CompOps
  <2>1. "==" \in CompOps /\ "==" \notin DOMAIN <<>>
    BY DEF CompOps
  <2> QED BY <2>1
<1> QED BY <1>1 DEF TypeOK, Complete

\* Operands that == accepts cannot be told apart by any of the six operators.
THEOREM EqualIsCongruence == Spec => []EqualityIsCongruence
<1>1. TypeOK => EqualityIsCongruence
  <2> SUFFICES ASSUME TypeOK, Complete, verdict["=="], NEW c \in Operands, NEW op \in CompOps
               PROVE  /\ Compare(op, left, c) = Compare(op, right, c)
                      /\ Compare(op, c, left) = Compare(op, c, right)
    BY DEF EqualityIsCongruence
  <2>1. equalTo(left, right)
    BY VerdictOf, CompareUnfolds DEF CompOps
  <2> QED BY <2>1, VerdictOf, CompareCongruence
<1> QED BY <1>1, TypeCorrect, PTL

\* The orders are transitive, across the number representations too.
THEOREM OrdersAreTransitive == Spec => []OrderIsTransitive
<1>1. TypeOK => OrderIsTransitive
  <2> SUFFICES ASSUME TypeOK, Complete PROVE OrderIsTransitive
    BY DEF OrderIsTransitive
  <2>1. PICK a \in Operands, b \in Operands : a = left /\ b = right
    BY VerdictOf
  <2>2. \A op \in CompOps : verdict[op] = Compare(op, a, b)
    BY <2>1, VerdictOf
  <2>3. ASSUME NEW c \in Operands, Compare("<", a, b), Compare("<", b, c)
        PROVE  Compare("<", a, c)
    BY <2>3, CompareUnfolds, LessThanTransitive, SameTypeTransitive
  <2>4. ASSUME NEW c \in Operands, Compare("==", a, b), Compare("==", b, c)
        PROVE  Compare("==", a, c)
    BY <2>4, CompareUnfolds, EqualToTransitive
  <2>5. ASSUME NEW c \in Operands, Compare("<=", a, b), Compare("<=", b, c)
        PROVE  Compare("<=", a, c)
    <3>1. sameType(a, c)
      BY <2>5, CompareUnfolds, SameTypeTransitive
    <3>2. CASE equalTo(a, b)
      BY <2>5, <3>2, CompareCongruence DEF CompOps
    <3>3. CASE equalTo(b, c)
      <4>1. Compare("<=", a, b) = Compare("<=", a, c)
        BY <3>3, CompareCongruence DEF CompOps
      <4> QED BY <2>5, <4>1
    <3>4. CASE lessThan(a, b) /\ lessThan(b, c)
      BY <3>1, <3>4, LessThanTransitive, CompareUnfolds
    <3> QED BY <2>5, <3>2, <3>3, <3>4, CompareUnfolds
  <2>6. Compare(">", a, b) = Compare("<", b, a) /\ Compare(">=", a, b) = Compare("<=", b, a)
    BY CompareUnfolds, OrderFacts, EqualToSymmetric
  <2>7. \A op \in {"<", "<=", "=="}, c \in Operands :
           verdict[op] /\ Compare(op, right, c) => Compare(op, left, c)
    BY <2>1, <2>2, <2>3, <2>4, <2>5 DEF CompOps
  <2>8. verdict[">"] = Compare("<", right, left) /\ verdict[">="] = Compare("<=", right, left)
    BY <2>1, <2>2, <2>6 DEF CompOps
  <2> QED BY <2>7, <2>8 DEF OrderIsTransitive
<1> QED BY <1>1, TypeCorrect, PTL

\* Equality of numbers, of strings and of the other scalars.
LEMMA ScalarsEqual ==
  ASSUME NEW v \in Values, NEW w \in Values, v.t = w.t
  PROVE  /\ v.t = "num" => (Equal(v, w) <=> v.n = w.n)
         /\ v.t = "str" => (Equal(v, w) <=> v.s = w.s)
<1>1. CASE v.t = "num"
  <2>1. PICK a, b : a = normalizeJSONNull(v) /\ b = normalizeJSONNull(w)
    OBVIOUS
  <2>2. a = v /\ b = w
    BY <1>1, <2>1, NormalizedCases
  <2>3. a.t = "num" /\ b.t = "num"
    BY <1>1, <2>2
  <2>4. Equal(v, w) <=> a.n = b.n
    BY <2>1, <2>3, EqualUnfolds
  <2> QED BY <1>1, <2>2, <2>4
<1>2. CASE v.t = "str"
  <2>1. v = normalizeJSONNull(v) /\ w = normalizeJSONNull(w)
    BY <1>2, NormalizedCases
  <2>2. Equal(v, w) <=> v = w
    BY <1>2, <2>1, EqualUnfolds
  <2>3. v = Str(v.s) /\ w = Str(w.s)
    BY <1>2, ValueTypes
  <2> QED BY <1>2, <2>2, <2>3
<1> QED BY <1>1, <1>2

\* The three cases of OrderedTypesTotal for the operands a and b.
LEMMA Trichotomy ==
  ASSUME NEW a \in Operands, NEW b \in Operands, a.kind = "JSON", b.kind = "JSON",
         a.value.t = b.value.t, a.value.t \in {"num", "str"}
  PROVE  /\ sameType(a, b)
         /\ lessThan(a, b) \/ equalTo(a, b) \/ lessThan(b, a)
<1>1. sameType(a, b)
  BY DEF sameType, isNumeric
<1>2. PICK v \in Values, w \in Values : v = a.value /\ w = b.value
  BY OperandTypes
<1>3. equalTo(a, b) <=> Equal(v, w)
  BY <1>2, EqualToFacts
<1>4. CASE v.t = "num"
  <2>1. v.n < w.n \/ v.n = w.n \/ w.n < v.n
    <3>1. v.n \in Int /\ w.n \in Int
      BY <1>2, <1>4, ValueTypes
    <3> QED BY <3>1
  <2> QED BY <1>1, <1>2, <1>3, <1>4, <2>1, ScalarsEqual DEF lessThan, isNumeric
<1>5. CASE v.t = "str"
  <2>1. v.s < w.s \/ v.s = w.s \/ w.s < v.s
    <3>1. v.s \in Int /\ w.s \in Int
      BY <1>2, <1>5, ValueTypes
    <3> QED BY <3>1
  <2> QED BY <1>1, <1>2, <1>3, <1>5, <2>1, ScalarsEqual DEF lessThan, isNumeric
<1> QED BY <1>2, <1>4, <1>5

\* Which operands have an order, and which only an equality.
LEMMA Unordered ==
  ASSUME NEW a \in Operands, NEW b \in Operands
  PROVE  /\ sameType(a, b) => /\ a.kind = "JSON" /\ b.kind = "JSON"
                              /\ a.value.t = b.value.t
                              /\ a.value.t \in {"num", "str", "bool", "null"}
         /\ lessThan(a, b) => a.kind = "JSON" /\ a.value.t \in {"num", "str"}
         /\ (a.kind = "JSON" /\ b.kind = "JSON" /\ a.value.t = b.value.t
               /\ a.value.t \in {"bool", "null"}) => sameType(a, b)
BY DEF sameType, lessThan, isNumeric

\* Two numbers, or two strings, are in exactly one of <, == and >; operands of
\* other or of different types are in no order.
THEOREM OrdersAreTotal == Spec => []OrderedTypesTotal
<1>1. TypeOK => OrderedTypesTotal
  <2> SUFFICES ASSUME TypeOK, Complete PROVE OrderedTypesTotal
    BY DEF OrderedTypesTotal
  <2>1. PICK a \in Operands, b \in Operands : a = left /\ b = right
    BY VerdictOf
  <2>2. \A op \in CompOps : verdict[op] = Compare(op, a, b)
    BY <2>1, VerdictOf
  <2> DEFINE t1 == IF left.kind = "JSON" THEN left.value.t ELSE left.kind
             t2 == IF right.kind = "JSON" THEN right.value.t ELSE right.kind
  <2>3. PICK lt, eq, gt, le, ge :
          /\ lt = (sameType(a, b) /\ lessThan(a, b)) /\ gt = (sameType(a, b) /\ lessThan(b, a))
          /\ eq = equalTo(a, b)
          /\ le = (sameType(a, b) /\ (lessThan(a, b) \/ equalTo(a, b)))
          /\ ge = (sameType(a, b) /\ (lessThan(b, a) \/ equalTo(a, b)))
    OBVIOUS
  <2>4. /\ verdict["<"] = lt /\ verdict["=="] = eq /\ verdict[">"] = gt
        /\ verdict["<="] = le /\ verdict[">="] = ge
    BY <2>2, <2>3, CompareUnfolds DEF CompOps
  <2>5. ASSUME t1 = t2, t1 \in {"num", "str"}
        PROVE  /\ \E op \in {"<", "==", ">"} : {o \in {"<", "==", ">"} : verdict[o]} = {op}
               /\ verdict["<="] = ~verdict[">"] /\ verdict[">="] = ~verdict["<"]
    <3>1. a.kind = "JSON" /\ b.kind = "JSON" /\ a.value.t = b.value.t /\ a.value.t \in {"num", "str"}
      BY <2>1, <2>5, OperandTypes
    <3>2. sameType(a, b) /\ (lessThan(a, b) \/ equalTo(a, b) \/ lessThan(b, a))
      BY <3>1, Trichotomy
    <3>3. /\ ~(lessThan(a, b) /\ lessThan(b, a)) /\ ~(lessThan(a, b) /\ equalTo(a, b))
          /\ ~(lessThan(b, a) /\ equalTo(a, b))
      BY OrderFacts, EqualToSymmetric
    <3>4. le = ~gt /\ ge = ~lt
      BY <2>3, <3>2, <3>3
    <3>5. \/ lt /\ ~eq /\ ~gt
          \/ ~lt /\ eq /\ ~gt
          \/ ~lt /\ ~eq /\ gt
      BY <2>3, <3>2, <3>3
    <3>6. \E op \in {"<", "==", ">"} : {o \in {"<", "==", ">"} : verdict[o]} = {op}
      <4>1. CASE lt /\ ~eq /\ ~gt
        <5>1. {o \in {"<", "==", ">"} : verdict[o]} = {"<"}
          BY <2>4, <4>1
        <5> QED BY <5>1
      <4>2. CASE ~lt /\ eq /\ ~gt
        <5>1. {o \in {"<", "==", ">"} : verdict[o]} = {"=="}
          BY <2>4, <4>2
        <5> QED BY <5>1
      <4>3. CASE ~lt /\ ~eq /\ gt
        <5>1. {o \in {"<", "==", ">"} : verdict[o]} = {">"}
          BY <2>4, <4>3
        <5> QED BY <5>1
      <4> QED BY <3>5, <4>1, <4>2, <4>3
    <3> QED BY <2>4, <3>4, <3>6
  <2>6. ASSUME t1 = t2, t1 \in {"bool", "null"}
        PROVE  verdict["<="] = verdict["=="] /\ verdict[">="] = verdict["=="]
    <3>1. a.kind = "JSON" /\ b.kind = "JSON" /\ a.value.t = b.value.t /\ a.value.t \in {"bool", "null"}
      BY <2>1, <2>6, OperandTypes
    <3>2. sameType(a, b) /\ ~lessThan(a, b) /\ ~lessThan(b, a)
      BY <3>1, Unordered
    <3>3. le = eq /\ ge = eq
      BY <2>3, <3>2, EqualToFacts
    <3> QED BY <2>4, <3>3
  <2>7. ASSUME ~(t1 = t2 /\ t1 \in {"num", "str", "bool", "null"})
        PROVE  \A op \in {"<", "<=", ">", ">="} : ~verdict[op]
    <3>1. ~sameType(a, b)
      BY <2>1, <2>7, Unordered
    <3>2. ~lt /\ ~gt /\ ~le /\ ~ge
      BY <2>3, <3>1
    <3> QED BY <2>4, <3>2
  <2> HIDE DEF t1, t2
  <2> QED BY <2>5, <2>6, <2>7 DEF OrderedTypesTotal, t1, t2
<1> QED BY <1>1, TypeCorrect, PTL

=============================================================================
