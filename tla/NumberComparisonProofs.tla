------------------------ MODULE NumberComparisonProofs ------------------------
(***************************************************************************)
(* compareJSONNumbers compares exact values, for every word width, float   *)
(* precision and bound on the magnitudes, but for the floats that are      *)
(* formatted as the next power of ten.  A decimal lies in the decade that  *)
(* its Magnitude names (DecimalWithin), and a float in its own; numbers of *)
(* different decades compare as the decades do (DecadesOrder), and those   *)
(* of one decade are compared exactly.                                     *)
(***************************************************************************)
EXTENDS NumberComparison, NaturalRecursion, TLAPS
-----------------------------------------------------------------------------
\* Positive factors have a positive product.
LEMMA MulPositive ==
  ASSUME NEW a \in Nat, NEW b \in Nat, a > 0, b > 0
  PROVE  a * b \in Nat /\ a * b > 0
  OBVIOUS

\* A positive factor keeps a strict order.
LEMMA MulLess ==
  ASSUME NEW a \in Int, NEW b \in Int, NEW k \in Nat, k > 0, a < b
  PROVE  a * k < b * k
  OBVIOUS

\* Quotient and remainder.
LEMMA DivideExactly ==
  ASSUME NEW a \in Nat, NEW b \in Nat, b > 0
  PROVE  a \div b \in Nat /\ a % b \in Nat /\ a = b * (a \div b) + (a % b)
  OBVIOUS

\* Reduction changes no number below the modulus.
LEMMA ModuloSmall ==
  ASSUME NEW a \in Nat, NEW b \in Nat, a < b
  PROVE  a % b = a
  OBVIOUS

\* cmp.Compare answers -1, 0 or 1, by the order of the integers.
LEMMA CmpFacts ==
  ASSUME NEW a \in Int, NEW b \in Int
  PROVE  /\ Cmp(a, b) \in {-1, 0, 1}
         /\ Cmp(b, a) = -Cmp(a, b)
         /\ Cmp(-a, -b) = -Cmp(a, b)
         /\ (Cmp(a, b) <= 0 <=> a <= b) /\ (Cmp(a, b) < 0 <=> a < b)
         /\ (a < b => Cmp(a, b) = -1) /\ (a > b => Cmp(a, b) = 1) /\ (a = b => Cmp(a, b) = 0)
  BY DEF Cmp

\* A positive factor changes no comparison.
LEMMA CmpScale ==
  ASSUME NEW a \in Int, NEW b \in Int, NEW k \in Nat, k > 0
  PROVE  Cmp(a * k, b * k) = Cmp(a, b)
<1>1. CASE a < b
  <2>1. a * k < b * k
    BY <1>1, MulLess
  <2> QED BY <1>1, <2>1 DEF Cmp
<1>2. CASE b < a
  <2>1. b * k < a * k
    BY <1>2, MulLess
  <2> QED BY <1>2, <2>1 DEF Cmp
<1>3. CASE a = b
  BY <1>3 DEF Cmp
<1> QED BY <1>1, <1>2, <1>3

-----------------------------------------------------------------------------
\* Power satisfies its equations.
LEMMA PowerEquation ==
  ASSUME NEW base \in Nat
  PROVE  /\ Power(base, 0) = 1
         /\ \A n \in Nat : Power(base, n) \in Nat /\ Power(base, n + 1) = base * Power(base, n)
<1> DEFINE pred == [k \in Nat |-> IF k = 0 THEN 0 ELSE k - 1]
           step == [p \in Nat \X Nat |-> base * p[2]]
           Body(f) == [k \in Nat |-> IF k = 0 THEN 1 ELSE base * f[k - 1]]
           power == CHOOSE f : f = Body(f)
<1>1. pred \in [Nat -> Nat] /\ \A k \in Nat : k > 0 => pred[k] < k /\ pred[k] = k - 1
  OBVIOUS
<1>2. step \in [Nat \X Nat -> Nat] /\ \A k, v \in Nat : step[<<k, v>>] = base * v
  <2>1. \A v \in Nat : base * v \in Nat
    OBVIOUS
  <2> QED BY <2>1
<1>3. PICK f \in [Nat -> Nat] : \A n \in Nat : Solves(f, n, pred, step, 1)
  <2> HIDE DEF pred, step
  <2>1. PICK V, z : V = Nat /\ z = 1
    OBVIOUS
  <2>2. z \in V /\ step \in [Nat \X V -> V]
    BY <1>2, <2>1
  <2>3. \E g \in [Nat -> V] : \A n \in Nat : Solves(g, n, pred, step, z)
    BY <1>1, <2>2, RecursionExists
  <2> QED BY <2>1, <2>3
<1>4. f[0] = 1
  BY <1>3 DEF Solves
<1>5. ASSUME NEW k \in Nat, k > 0 PROVE f[k] = base * f[k - 1]
  <2>1. k \in 1 .. k
    BY <1>5
  <2> HIDE DEF step, pred
  <2>2. f[k] = step[<<k, f[pred[k]]>>]
    BY <1>3, <2>1 DEF Solves
  <2>3. pred[k] = k - 1 /\ f[pred[k]] \in Nat
    BY <1>1, <1>5
  <2> QED BY <1>2, <2>2, <2>3
<1>6. ASSUME NEW k \in Nat PROVE f[k] = IF k = 0 THEN 1 ELSE base * f[k - 1]
  <2>1. CASE k = 0
    BY <1>4, <2>1
  <2>2. CASE k # 0
    BY <1>5, <2>2
  <2> QED BY <2>1, <2>2
<1>7. f = Body(f)
  BY <1>6
<1>8. power = Body(power)
  BY <1>7
<1>9. \A n \in Nat : Power(base, n) = power[n]
  BY DEF Power
<1> HIDE DEF power
<1> DEFINE T == {k \in Nat : power[k] = f[k]}
<1>10. ASSUME NEW k \in Nat, \A j \in 0 .. k - 1 : j \in T
       PROVE  k \in T
  <2>1. power[k] = IF k = 0 THEN 1 ELSE base * power[k - 1]
    BY <1>8
  <2>2. CASE k = 0
    BY <1>4, <2>1, <2>2
  <2>3. CASE k # 0
    <3>1. k - 1 \in 0 .. k - 1
      BY <2>3
    <3>2. power[k - 1] = f[k - 1]
      BY <1>10, <3>1
    <3>3. power[k] = f[k]
      BY <1>5, <2>1, <2>3, <3>2
    <3> QED BY <3>3
  <2> QED BY <2>2, <2>3
<1>11. \A k \in Nat : power[k] = f[k]
  <2>1. \A k \in Nat : k \in T
    <3> HIDE DEF T
    <3> QED BY <1>10, StrongInduction
  <2> QED BY <2>1
<1>12. \A n \in Nat : Power(base, n) = f[n]
  BY <1>9, <1>11
<1>13. ASSUME NEW n \in Nat PROVE f[n + 1] = base * f[n]
  <2>1. PICK k \in Nat : k = n + 1
    OBVIOUS
  <2>2. k > 0 /\ k - 1 = n
    BY <2>1
  <2>3. f[k] = base * f[k - 1]
    BY <1>5, <2>2
  <2> QED BY <2>1, <2>2, <2>3
<1> QED BY <1>4, <1>12, <1>13

\* Powers of a positive base are positive.
LEMMA PowerPositive ==
  ASSUME NEW base \in Nat, base > 0, NEW n \in Nat
  PROVE  Power(base, n) \in Nat /\ Power(base, n) > 0
<1> DEFINE T == {k \in Nat : Power(base, k) > 0}
<1>1. ASSUME NEW k \in Nat, \A j \in 0 .. k - 1 : j \in T
      PROVE  k \in T
  <2>1. CASE k = 0
    BY <2>1, PowerEquation
  <2>2. CASE k # 0
    <3>1. PICK j \in Nat : k = j + 1 /\ j \in 0 .. k - 1
      <4>1. k - 1 \in Nat /\ k = (k - 1) + 1 /\ k - 1 \in 0 .. k - 1
        BY <2>2
      <4> QED BY <4>1
    <3>2. PICK p \in Nat : p = Power(base, j) /\ p > 0
      BY <1>1, <3>1, PowerEquation
    <3>3. Power(base, k) = base * p
      BY <3>1, <3>2, PowerEquation
    <3> QED BY <3>2, <3>3, MulPositive
  <2> QED BY <2>1, <2>2
<1>2. n \in T
  <2>1. \A k \in Nat : k \in T
    <3> HIDE DEF T
    <3> QED BY <1>1, StrongInduction
  <2> QED BY <2>1
<1> QED BY <1>2, PowerEquation

\* Exponents add up.
LEMMA PowerAdd ==
  ASSUME NEW base \in Nat, NEW m \in Nat, NEW n \in Nat
  PROVE  Power(base, m + n) = Power(base, m) * Power(base, n)
<1> DEFINE T == {k \in Nat : Power(base, m + k) = Power(base, m) * Power(base, k)}
<1>1. ASSUME NEW k \in Nat, \A j \in 0 .. k - 1 : j \in T
      PROVE  k \in T
  <2>0. PICK q \in Nat : q = Power(base, m)
    BY PowerEquation
  <2>1. CASE k = 0
    <3>1. m + k = m /\ Power(base, k) = 1 /\ q * 1 = q
      BY <2>1, PowerEquation
    <3> QED BY <2>0, <3>1
  <2>2. CASE k # 0
    <3>1. PICK j \in Nat : k = j + 1 /\ j \in 0 .. k - 1
      <4>1. k - 1 \in Nat /\ k = (k - 1) + 1 /\ k - 1 \in 0 .. k - 1
        BY <2>2
      <4> QED BY <4>1
    <3>2. PICK p \in Nat, i \in Nat : p = Power(base, j) /\ i = m + j
      BY PowerEquation
    <3>3. Power(base, i) = q * p
      BY <1>1, <2>0, <3>1, <3>2
    <3>4. m + k = i + 1
      BY <3>1, <3>2
    <3>5. Power(base, m + k) = base * (q * p)
      BY <3>3, <3>4, PowerEquation
    <3>6. Power(base, k) = base * p
      BY <3>1, <3>2, PowerEquation
    <3>7. base * (q * p) = q * (base * p)
      OBVIOUS
    <3>8. Power(base, m + k) = Power(base, m) * Power(base, k)
      BY <2>0, <3>5, <3>6, <3>7
    <3> QED BY <3>8
  <2> QED BY <2>1, <2>2
<1>2. n \in T
  <2>1. \A k \in Nat : k \in T
    <3> HIDE DEF T
    <3> QED BY <1>1, StrongInduction
  <2> QED BY <2>1
<1> QED BY <1>2

\* A larger exponent makes a larger power.
LEMMA PowerMonotone ==
  ASSUME NEW base \in Nat, base > 0, NEW m \in Nat, NEW n \in Nat, m <= n
  PROVE  Power(base, m) <= Power(base, n)
<1>1. PICK d \in Nat : n = m + d
  <2>1. n - m \in Nat /\ n = m + (n - m)
    OBVIOUS
  <2> QED BY <2>1
<1>2. PICK p \in Nat, q \in Nat : p = Power(base, m) /\ q = Power(base, d) /\ p > 0 /\ q > 0
  BY PowerPositive
<1>3. Power(base, n) = p * q
  BY <1>1, <1>2, PowerAdd
<1>4. p <= p * q
  BY <1>2
<1> QED BY <1>2, <1>3, <1>4

-----------------------------------------------------------------------------
\* Rational numbers.
IsRat(r) == r[1] \in Int /\ r[2] \in Nat /\ r[2] > 0

\* base^e is Over(base, e) / Under(base, e).
Over(base, e)  == IF e >= 0 THEN Power(base, e) ELSE 1
Under(base, e) == IF e >= 0 THEN 1 ELSE Power(base, -e)

\* Both are positive.
LEMMA OverUnder ==
  ASSUME NEW base \in Nat, base > 0, NEW e \in Int
  PROVE  /\ Over(base, e) \in Nat /\ Over(base, e) > 0
         /\ Under(base, e) \in Nat /\ Under(base, e) > 0
<1>1. CASE e >= 0
  BY <1>1, PowerPositive DEF Over, Under
<1>2. CASE ~(e >= 0)
  <2>1. -e \in Nat
    BY <1>2
  <2> QED BY <1>2, <2>1, PowerPositive DEF Over, Under
<1> QED BY <1>1, <1>2

\* Numerator and denominator of a scaled number.
LEMMA ScaledParts ==
  ASSUME NEW base \in Nat, base > 0, NEW e \in Int, NEW c \in Int
  PROVE  /\ Scaled(c, base, e) = <<c * Over(base, e), Under(base, e)>>
         /\ IsRat(Scaled(c, base, e))
         /\ Scaled(c, base, e)[1] = c * Over(base, e)
         /\ Scaled(c, base, e)[2] = Under(base, e)
<1>1. Scaled(c, base, e) = <<c * Over(base, e), Under(base, e)>>
  <2>1. CASE e >= 0
    BY <2>1 DEF Scaled, Over, Under
  <2>2. CASE ~(e >= 0)
    <3>1. c * 1 = c
      OBVIOUS
    <3> QED BY <2>2, <3>1 DEF Scaled, Over, Under
  <2> QED BY <2>1, <2>2
<1>2. PICK u \in Nat, w \in Nat : u = Over(base, e) /\ w = Under(base, e) /\ w > 0
  BY OverUnder
<1>3. Scaled(c, base, e) = <<c * u, w>> /\ c * u \in Int
  BY <1>1, <1>2
<1>4. Scaled(c, base, e)[1] = c * u /\ Scaled(c, base, e)[2] = w
  BY <1>3
<1> QED BY <1>1, <1>2, <1>3, <1>4 DEF IsRat

\* The quotient of two powers is a power.
LEMMA PowerQuotient ==
  ASSUME NEW base \in Nat, base > 0, NEW e \in Int, NEW m \in Int, m <= e
  PROVE  Power(base, e - m) * (Under(base, e) * Under(base, -m)) = Over(base, e) * Over(base, -m)
<1>0. PICK d \in Nat : d = e - m
  OBVIOUS
<1>1. CASE e >= 0 /\ m <= 0
  <2>1. PICK j \in Nat, k \in Nat : j = e /\ k = -m
    BY <1>1
  <2>2. d = j + k
    BY <1>0, <2>1
  <2>3. Power(base, d) = Power(base, j) * Power(base, k)
    BY <2>2, PowerAdd
  <2>4. Under(base, e) = 1 /\ Under(base, -m) = 1 /\ Over(base, e) = Power(base, j) /\
          Over(base, -m) = Power(base, k)
    BY <1>1, <2>1 DEF Over, Under
  <2>5. Power(base, d) \in Nat
    BY PowerPositive
  <2>6. Power(base, d) * (1 * 1) = Power(base, d)
    BY <2>5
  <2> QED BY <1>0, <2>3, <2>4, <2>6
<1>2. CASE e >= 0 /\ m > 0
  <2>1. PICK j \in Nat, k \in Nat : j = e /\ k = m
    BY <1>2
  <2>2. j = d + k /\ -(-m) = m /\ ~(-m >= 0)
    BY <1>0, <1>2, <2>1
  <2>3. Power(base, j) = Power(base, d) * Power(base, k)
    BY <2>2, PowerAdd
  <2>4. Under(base, e) = 1 /\ Under(base, -m) = Power(base, k) /\
          Over(base, e) = Power(base, j) /\ Over(base, -m) = 1
    BY <1>2, <2>1, <2>2 DEF Over, Under
  <2>5. PICK x \in Nat, y \in Nat, z \in Nat : x = Power(base, d) /\ y = Power(base, k) /\
          z = Power(base, j)
    BY PowerPositive
  <2>6. z = x * y
    BY <2>3, <2>5
  <2>7. x * (1 * y) = z * 1
    BY <2>6
  <2> QED BY <1>0, <2>4, <2>5, <2>7
<1>3. CASE e < 0
  <2>1. PICK j \in Nat, k \in Nat : j = -e /\ k = -m
    BY <1>3
  <2>2. k = d + j /\ ~(e >= 0) /\ -m >= 0
    BY <1>0, <1>3, <2>1
  <2>3. Power(base, k) = Power(base, d) * Power(base, j)
    BY <2>2, PowerAdd
  <2>4. Under(base, e) = Power(base, j) /\ Under(base, -m) = 1 /\ Over(base, e) = 1 /\
          Over(base, -m) = Power(base, k)
    BY <2>1, <2>2 DEF Over, Under
  <2>5. PICK x \in Nat, y \in Nat, z \in Nat : x = Power(base, d) /\ y = Power(base, j) /\
          z = Power(base, k)
    BY PowerPositive
  <2>6. z = x * y
    BY <2>3, <2>5
  <2>7. x * (y * 1) = 1 * z
    BY <2>6
  <2> QED BY <1>0, <2>4, <2>5, <2>7
<1> QED BY <1>1, <1>2, <1>3

\* Scaled numbers of one base compare as their coefficients at a common exponent.
Aligned(base, c, e, d, f, m) ==
    RatCmp(Scaled(c, base, e), Scaled(d, base, f))
        = Cmp(c * Power(base, e - m), d * Power(base, f - m))

\* The factor that aligns both changes no comparison.
LEMMA ScaledCmp ==
  ASSUME NEW base \in Nat, base > 0, NEW c \in Int, NEW e \in Int, NEW d \in Int, NEW f \in Int,
         NEW m \in Int, m <= e, m <= f
  PROVE  Aligned(base, c, e, d, f, m)
<1>0. -m \in Int
  OBVIOUS
<1>1a. PICK ue \in Nat, we \in Nat : ue = Over(base, e) /\ we = Under(base, e) /\ we > 0
  BY OverUnder
<1>1b. PICK uf \in Nat, wf \in Nat : uf = Over(base, f) /\ wf = Under(base, f) /\ wf > 0
  BY OverUnder
<1>1c. PICK um \in Nat, wm \in Nat :
          um = Over(base, -m) /\ wm = Under(base, -m) /\ um > 0 /\ wm > 0
  BY <1>0, OverUnder
<1>2. PICK p \in Nat, q \in Nat : p = Power(base, e - m) /\ q = Power(base, f - m)
  <2>1. e - m \in Nat /\ f - m \in Nat
    OBVIOUS
  <2> QED BY <2>1, PowerPositive
<1>3. p * (we * wm) = ue * um /\ q * (wf * wm) = uf * um
  <2>1. Power(base, e - m) * (Under(base, e) * Under(base, -m)) = Over(base, e) * Over(base, -m)
    BY PowerQuotient
  <2>2. Power(base, f - m) * (Under(base, f) * Under(base, -m)) = Over(base, f) * Over(base, -m)
    BY PowerQuotient
  <2> QED BY <1>1a, <1>1b, <1>1c, <1>2, <2>1, <2>2
<1>4. RatCmp(Scaled(c, base, e), Scaled(d, base, f)) = Cmp((c * ue) * wf, (d * uf) * we)
  <2>1. Scaled(c, base, e)[1] = c * ue /\ Scaled(c, base, e)[2] = we
    BY <1>1a, ScaledParts
  <2>2. Scaled(d, base, f)[1] = d * uf /\ Scaled(d, base, f)[2] = wf
    BY <1>1b, ScaledParts
  <2> QED BY <2>1, <2>2 DEF RatCmp
<1>5. Cmp((c * ue) * wf, (d * uf) * we) = Cmp(((c * ue) * wf) * um, ((d * uf) * we) * um)
  <2>1. (c * ue) * wf \in Int /\ (d * uf) * we \in Int
    OBVIOUS
  <2> QED BY <1>1a, <1>1b, <1>1c, <2>1, CmpScale
<1>6. ((c * ue) * wf) * um = (c * p) * ((we * wf) * wm)
  <2>1. ((c * ue) * wf) * um = (c * wf) * (ue * um)
    OBVIOUS
  <2>2. (c * wf) * (p * (we * wm)) = (c * p) * ((we * wf) * wm)
    OBVIOUS
  <2> QED BY <1>3, <2>1, <2>2
<1>7. ((d * uf) * we) * um = (d * q) * ((we * wf) * wm)
  <2>1. ((d * uf) * we) * um = (d * we) * (uf * um)
    OBVIOUS
  <2>2. (d * we) * (q * (wf * wm)) = (d * q) * ((we * wf) * wm)
    OBVIOUS
  <2> QED BY <1>3, <2>1, <2>2
<1>8. PICK k \in Nat : k = (we * wf) * wm /\ k > 0
  <2>1. we * wf \in Nat /\ we * wf > 0
    BY <1>1a, <1>1b, <1>1c, MulPositive
  <2>2. (we * wf) * wm \in Nat /\ (we * wf) * wm > 0
    BY <1>1a, <1>1b, <1>1c, <2>1, MulPositive
  <2> QED BY <2>2
<1>9. PICK x \in Int, y \in Int : x = c * p /\ y = d * q
  <2>1. c * p \in Int /\ d * q \in Int
    OBVIOUS
  <2> QED BY <2>1
<1>10. Cmp((c * p) * k, (d * q) * k) = Cmp(c * p, d * q)
  <2>1. k > 0
    BY <1>8
  <2>2. Cmp(x * k, y * k) = Cmp(x, y)
    BY <2>1, CmpScale
  <2> QED BY <1>9, <2>2
<1> QED BY <1>2, <1>4, <1>5, <1>6, <1>7, <1>8, <1>10 DEF Aligned

\* RatCmp orders rationals: it is antisymmetric, transitive and blind to the
\* representation.
LEMMA RatCmpFacts ==
  ASSUME NEW a, NEW b, IsRat(a), IsRat(b)
  PROVE  /\ RatCmp(a, b) \in {-1, 0, 1}
         /\ RatCmp(b, a) = -RatCmp(a, b)
<1>1. a[1] * b[2] \in Int /\ b[1] * a[2] \in Int
  BY DEF IsRat
<1> QED BY <1>1, CmpFacts DEF RatCmp

\* A strict step of a chain makes its ends differ.
LEMMA RatLessTransitive ==
  ASSUME NEW a, NEW b, NEW c, IsRat(a), IsRat(b), IsRat(c),
         \/ RatCmp(a, b) < 0 /\ RatCmp(b, c) <= 0
         \/ RatCmp(a, b) <= 0 /\ RatCmp(b, c) < 0
  PROVE  RatCmp(a, c) = -1
<1>1. PICK x \in Int, p \in Nat, y \in Int, q \in Nat, z \in Int, r \in Nat :
          /\ x = a[1] /\ p = a[2] /\ y = b[1] /\ q = b[2] /\ z = c[1] /\ r = c[2]
          /\ p > 0 /\ q > 0 /\ r > 0
  BY DEF IsRat
<1>2. x * q \in Int /\ y * p \in Int /\ y * r \in Int /\ z * q \in Int /\ x * r \in Int /\
        z * p \in Int
  OBVIOUS
<1>3. \/ x * q < y * p /\ y * r <= z * q
      \/ x * q <= y * p /\ y * r < z * q
  <2>1. RatCmp(a, b) = Cmp(x * q, y * p) /\ RatCmp(b, c) = Cmp(y * r, z * q)
    BY <1>1 DEF RatCmp
  <2> QED BY <1>2, <2>1, CmpFacts
<1>4. \/ (x * q) * r < (y * p) * r /\ (y * r) * p <= (z * q) * p
      \/ (x * q) * r <= (y * p) * r /\ (y * r) * p < (z * q) * p
  <2>1. CASE x * q < y * p /\ y * r <= z * q
    BY <1>1, <1>2, <2>1, MulLess
  <2>2. CASE x * q <= y * p /\ y * r < z * q
    BY <1>1, <1>2, <2>2, MulLess
  <2> QED BY <1>3, <2>1, <2>2
<1>5. (y * p) * r = (y * r) * p /\ (x * q) * r = (x * r) * q /\ (z * q) * p = (z * p) * q
  OBVIOUS
<1>6. (x * r) * q < (z * p) * q
  <2>1. (x * r) * q \in Int /\ (z * p) * q \in Int /\ (y * r) * p \in Int
    OBVIOUS
  <2> QED BY <1>4, <1>5, <2>1
<1>7. x * r < z * p
  <2> SUFFICES ASSUME z * p <= x * r PROVE FALSE
    BY <1>2
  <2>1. CASE z * p < x * r
    <3>1. (z * p) * q < (x * r) * q
      BY <1>1, <1>2, <2>1, MulLess
    <3> QED BY <1>2, <1>6, <3>1
  <2>2. CASE z * p = x * r
    BY <1>2, <1>6, <2>2
  <2> QED BY <1>2, <2>1, <2>2
<1>8. RatCmp(a, c) = Cmp(x * r, z * p)
  BY <1>1 DEF RatCmp
<1> QED BY <1>2, <1>7, <1>8, CmpFacts

\* Equal rationals compare alike.
LEMMA RatCmpEqual ==
  ASSUME NEW a, NEW b, NEW c, IsRat(a), IsRat(b), IsRat(c), RatCmp(a, b) = 0
  PROVE  RatCmp(a, c) = RatCmp(b, c) /\ RatCmp(c, a) = RatCmp(c, b)
<1>1. PICK x \in Int, p \in Nat, y \in Int, q \in Nat, z \in Int, r \in Nat :
          /\ x = a[1] /\ p = a[2] /\ y = b[1] /\ q = b[2] /\ z = c[1] /\ r = c[2]
          /\ p > 0 /\ q > 0 /\ r > 0
  BY DEF IsRat
<1>2. x * q = y * p
  <2>1. x * q \in Int /\ y * p \in Int /\ RatCmp(a, b) = Cmp(x * q, y * p)
    BY <1>1 DEF RatCmp
  <2> QED BY <2>1, CmpFacts
<1>3. x * r \in Int /\ z * p \in Int /\ y * r \in Int /\ z * q \in Int
  OBVIOUS
<1>4. Cmp((x * r) * q, (z * p) * q) = Cmp(x * r, z * p)
  BY <1>1, <1>3, CmpScale
<1>5. Cmp((y * r) * p, (z * q) * p) = Cmp(y * r, z * q)
  BY <1>1, <1>3, CmpScale
<1>6. (x * r) * q = (y * r) * p
  <2>1. (x * r) * q = (x * q) * r /\ (y * r) * p = (y * p) * r
    OBVIOUS
  <2> QED BY <1>2, <2>1
<1>7. (z * p) * q = (z * q) * p
  OBVIOUS
<1>8. RatCmp(a, c) = RatCmp(b, c)
  BY <1>1, <1>4, <1>5, <1>6, <1>7 DEF RatCmp
<1> QED BY <1>8, RatCmpFacts

-----------------------------------------------------------------------------
\* ScaledCmp for the base ten.
LEMMA TenCmp ==
  ASSUME NEW c \in Int, NEW e \in Int, NEW d \in Int, NEW f \in Int,
         NEW m \in Int, m <= e, m <= f
  PROVE  Aligned(10, c, e, d, f, m)
<1>1. PICK ten \in Nat : ten = 10 /\ ten > 0
  OBVIOUS
<1>2. Aligned(ten, c, e, d, f, m)
  BY <1>1, ScaledCmp
<1> QED BY <1>1, <1>2

\* Powers of ten are positive.
LEMMA TenPower ==
  ASSUME NEW n \in Nat
  PROVE  Power(10, n) \in Nat /\ Power(10, n) > 0
<1>1. PICK ten \in Nat : ten = 10 /\ ten > 0
  OBVIOUS
<1>2. Power(ten, n) \in Nat /\ Power(ten, n) > 0
  BY <1>1, PowerPositive
<1> QED BY <1>1, <1>2

\* r lies between the powers of ten k - 1 and k.
Within(r, k) == RatCmp(Scaled(1, 10, k - 1), r) <= 0 /\ RatCmp(r, Scaled(1, 10, k)) < 0

\* Numbers of different decades compare as the decades do.
LEMMA DecadesOrder ==
  ASSUME NEW a, NEW b, IsRat(a), IsRat(b), NEW i \in Int, NEW j \in Int, i < j,
         Within(a, i), Within(b, j)
  PROVE  RatCmp(a, b) = -1
<1>1. PICK p, q : p = Scaled(1, 10, i) /\ q = Scaled(1, 10, j - 1) /\ IsRat(p) /\ IsRat(q)
  <2>1. j - 1 \in Int
    OBVIOUS
  <2> QED BY <2>1, ScaledParts
<1>2. RatCmp(a, p) < 0 /\ RatCmp(q, b) <= 0
  BY <1>1 DEF Within
<1>3. RatCmp(p, q) <= 0
  <2>1. j - 1 \in Int /\ i <= j - 1 /\ i <= i /\ (j - 1) - i \in Nat /\ i - i = 0
    OBVIOUS
  <2>2. RatCmp(p, q) = Cmp(1 * Power(10, i - i), 1 * Power(10, (j - 1) - i))
    <3>1. PICK one \in Int, k \in Int : one = 1 /\ k = j - 1 /\ i <= k
      BY <2>1
    <3>2. Aligned(10, one, i, one, k, i)
      BY <2>1, <3>1, TenCmp
    <3> QED BY <1>1, <3>1, <3>2 DEF Aligned
  <2>3. PICK x \in Nat, y \in Nat : x = Power(10, i - i) /\ y = Power(10, (j - 1) - i)
    BY <2>1, PowerEquation
  <2>4. x <= y
    BY <2>1, <2>3, PowerMonotone
  <2>5. 1 * x = x /\ 1 * y = y
    OBVIOUS
  <2> QED BY <2>2, <2>3, <2>4, <2>5, CmpFacts
<1>4. RatCmp(a, q) = -1
  BY <1>1, <1>2, <1>3, RatLessTransitive
<1> QED BY <1>1, <1>2, <1>4, RatLessTransitive

\* The number of digits, for a number within the bound.
LEMMA DigitCountFacts ==
  ASSUME NEW n \in Nat, n > 0, n < Power(10, MaxMagnitude)
  PROVE  /\ DigitCount(n) \in Nat /\ DigitCount(n) >= 1
         /\ Power(10, DigitCount(n) - 1) <= n /\ n < Power(10, DigitCount(n))
<1>0. MaxMagnitude \in Nat
  BY NumberAssumption
<1> DEFINE T == {k \in Nat : n < Power(10, k)}
<1>1. T \in SUBSET Nat /\ MaxMagnitude \in T
  BY <1>0
<1>2. PICK k \in T : \A y \in T : k <= y
  <2> HIDE DEF T
  <2> QED BY <1>1, LeastElement
<1>3. k \in Nat /\ n < Power(10, k) /\ k <= MaxMagnitude
  BY <1>1, <1>2
<1>4. k # 0
  <2>1. Power(10, 0) = 1
    BY PowerEquation
  <2> QED BY <1>3, <2>1
<1>5. k - 1 \in Nat /\ k - 1 \notin T
  BY <1>2, <1>3, <1>4
<1>6. Power(10, k - 1) <= n
  <2>1. Power(10, k - 1) \in Nat
    BY <1>5, PowerEquation
  <2> QED BY <1>5, <2>1
<1>7. k \in 1 .. MaxMagnitude
  BY <1>0, <1>3, <1>4
<1>8. \E x \in 1 .. MaxMagnitude : Power(10, x - 1) <= n /\ n < Power(10, x)
  BY <1>3, <1>6, <1>7
<1>9. /\ DigitCount(n) \in 1 .. MaxMagnitude
      /\ Power(10, DigitCount(n) - 1) <= n /\ n < Power(10, DigitCount(n))
  BY <1>8 DEF DigitCount
<1> QED BY <1>0, <1>9

\* A decimal within the bound.
IsDecimal(d) ==
    /\ d.negative \in BOOLEAN /\ d.digits \in Nat /\ d.exponent \in Int
    /\ d.digits < Power(10, MaxMagnitude)

\* d is digits * 10^x with its trailing zeros in the exponent.
Normalized(d, neg, digits, x) ==
    /\ IsDecimal(d)
    /\ digits = 0 => d.digits = 0 /\ d.negative = FALSE /\ d.exponent = 0
    /\ digits # 0 => /\ d.negative = neg /\ d.digits > 0
                     /\ \E z \in Nat : d.exponent = x + z /\ digits = d.digits * Power(10, z)

\* normalizeDecimal moves the trailing zeros to the exponent and changes nothing else.
LEMMA NormalizeFacts ==
  ASSUME NEW neg \in BOOLEAN, NEW digits \in Nat, digits < Power(10, MaxMagnitude), NEW x \in Int
  PROVE  Normalized(normalizeDecimal(neg, digits, x), neg, digits, x)
<1>0. MaxMagnitude \in Nat
  BY NumberAssumption
<1> DEFINE d == normalizeDecimal(neg, digits, x)
<1>1. CASE digits = 0
  <2>1. d = [negative |-> FALSE, digits |-> 0, exponent |-> 0]
    BY <1>1 DEF normalizeDecimal
  <2>2. d.negative = FALSE /\ d.digits = 0 /\ d.exponent = 0
    BY <2>1
  <2> HIDE DEF d
  <2>3. IsDecimal(d)
    <3>1. Power(10, MaxMagnitude) \in Nat /\ Power(10, MaxMagnitude) > 0
      BY <1>0, TenPower
    <3>2. d.negative \in BOOLEAN
      BY <2>2
    <3>4. d.digits \in Nat /\ d.exponent \in Int
      BY <2>2
    <3>3. d.digits < Power(10, MaxMagnitude)
      BY <2>2, <3>1
    <3> QED BY <3>2, <3>3, <3>4 DEF IsDecimal
  <2> QED BY <1>1, <2>2, <2>3 DEF d, Normalized
<1>2. CASE digits # 0
  <2> DEFINE Z == {k \in 0 .. DigitCount(digits) - 1 : digits % Power(10, k) = 0}
             zeros == Max(Z)
  <2>1. PICK l \in Nat : l = DigitCount(digits) /\ l >= 1
    <3>1. digits > 0
      BY <1>2
    <3> QED BY <3>1, DigitCountFacts
  <2>2. Z = {k \in 0 .. l - 1 : digits % Power(10, k) = 0}
    BY <2>1
  <2>3. Z \in SUBSET Nat /\ 0 \in Z /\ \A y \in Z : y <= l
    <3>1. Power(10, 0) = 1 /\ digits % 1 = 0
      BY PowerEquation
    <3>2. 0 \in 0 .. l - 1
      BY <2>1
    <3>3. 0 \in Z
      BY <2>2, <3>1, <3>2
    <3> QED BY <2>2, <3>3
  <2>4. zeros \in Z
    <3> HIDE DEF Z
    <3>1. \E y \in Z : \A w \in Z : w <= y
      BY <2>3, GreatestElement
    <3>2. \E y \in Z : \A w \in Z : y >= w
      BY <2>3, <3>1
    <3> QED BY <3>2 DEF Max
  <2>5. PICK z \in Nat : z = zeros /\ digits % Power(10, z) = 0
    <3> HIDE DEF zeros
    <3>1. zeros \in 0 .. l - 1 /\ digits % Power(10, zeros) = 0
      BY <2>2, <2>4
    <3>2. zeros \in Nat
      BY <3>1
    <3> QED BY <3>1, <3>2
  <2>6. PICK p \in Nat, c \in Nat : p = Power(10, z) /\ p > 0 /\ c = digits \div p
    <3> HIDE DEF zeros, Z, d
    <3>1. Power(10, z) \in Nat /\ Power(10, z) > 0
      BY TenPower
    <3>2. digits \div Power(10, z) \in Nat
      BY <3>1, DivideExactly
    <3> QED BY <3>1, <3>2
  <2>7. digits = p * c
    <3>1. digits = p * (digits \div p) + (digits % p)
      <4> HIDE DEF zeros, Z, d
      <4>1. p > 0
        BY <2>6
      <4> QED BY <4>1, DivideExactly
    <3>2. digits % p = 0
      BY <2>5, <2>6
    <3>3. p * c \in Nat
      OBVIOUS
    <3> QED BY <2>6, <3>1, <3>2, <3>3
  <2>8. digits = c * p
    BY <2>7
  <2>9. c > 0
    <3> SUFFICES ASSUME c = 0 PROVE FALSE
      OBVIOUS
    <3> QED BY <1>2, <2>8
  <2>10. c <= digits
    BY <2>6, <2>8
  <2>11. d = [negative |-> neg, digits |-> c, exponent |-> x + z]
    BY <1>2, <2>5, <2>6 DEF normalizeDecimal
  <2>12. d.negative = neg /\ d.digits = c /\ d.exponent = x + z
    BY <2>11
  <2> HIDE DEF d
  <2>13. c < Power(10, MaxMagnitude)
    <3>1. Power(10, MaxMagnitude) \in Nat
      BY <1>0, PowerEquation
    <3> QED BY <2>10, <3>1
  <2>14. IsDecimal(d)
    BY <2>12, <2>13 DEF IsDecimal
  <2>15. d.exponent = x + z /\ digits = d.digits * Power(10, z) /\ d.digits > 0 /\
           d.negative = neg
    BY <2>6, <2>8, <2>9, <2>12
  <2> QED BY <1>2, <2>14, <2>15 DEF d, Normalized
<1> QED BY <1>1, <1>2

\* The decade of a decimal is its Magnitude.
LEMMA DecimalWithin ==
  ASSUME NEW d, IsDecimal(d), d.digits > 0
  PROVE  Magnitude(d) \in Int /\ IsRat(rat(d)) /\ Within(rat(d), Magnitude(d))
<1>1. PICK c \in Nat, e \in Int : c = d.digits /\ e = d.exponent /\ c > 0 /\
        c < Power(10, MaxMagnitude)
  BY DEF IsDecimal
<1>2. PICK l \in Nat : l = DigitCount(c) /\ l >= 1 /\ Power(10, l - 1) <= c /\ c < Power(10, l)
  BY <1>1, DigitCountFacts
<1>3. PICK M \in Int : M = e + l
  OBVIOUS
<1>4. Magnitude(d) = M /\ rat(d) = Scaled(c, 10, e)
  BY <1>1, <1>2, <1>3 DEF Magnitude, rat
<1>5. IsRat(Scaled(c, 10, e))
  BY ScaledParts
<1>6. M - 1 \in Int /\ e <= M - 1 /\ e <= e /\ e <= M /\ e - e = 0 /\ (M - 1) - e = l - 1 /\
        M - e = l /\ l - 1 \in Nat
  BY <1>2, <1>3
<1>7. PICK p \in Nat, q \in Nat : p = Power(10, l - 1) /\ q = Power(10, l) /\ Power(10, 0) = 1
  BY <1>6, PowerEquation
<1>8. RatCmp(Scaled(1, 10, M - 1), Scaled(c, 10, e)) <= 0
  <2>1. RatCmp(Scaled(1, 10, M - 1), Scaled(c, 10, e))
            = Cmp(1 * Power(10, (M - 1) - e), c * Power(10, e - e))
    <3>1. PICK one \in Int, k \in Int : one = 1 /\ k = M - 1 /\ e <= k
      BY <1>6
    <3>2. Aligned(10, one, k, c, e, e)
      BY <1>6, <3>1, TenCmp
    <3> QED BY <3>1, <3>2 DEF Aligned
  <2>2. 1 * p = p /\ c * 1 = c
    OBVIOUS
  <2>3. RatCmp(Scaled(1, 10, M - 1), Scaled(c, 10, e)) = Cmp(p, c)
    BY <1>6, <1>7, <2>1, <2>2
  <2> QED BY <1>2, <1>7, <2>3, CmpFacts
<1>9. RatCmp(Scaled(c, 10, e), Scaled(1, 10, M)) < 0
  <2>1. RatCmp(Scaled(c, 10, e), Scaled(1, 10, M)) = Cmp(c * Power(10, e - e), 1 * Power(10, M - e))
    <3>1. PICK one \in Int : one = 1
      OBVIOUS
    <3>2. Aligned(10, c, e, one, M, e)
      BY <1>6, TenCmp
    <3> QED BY <3>1, <3>2 DEF Aligned
  <2>2. 1 * q = q /\ c * 1 = c
    OBVIOUS
  <2>3. RatCmp(Scaled(c, 10, e), Scaled(1, 10, M)) = Cmp(c, q)
    BY <1>6, <1>7, <2>1, <2>2
  <2> QED BY <1>2, <1>7, <2>3, CmpFacts
<1> QED BY <1>4, <1>5, <1>8, <1>9 DEF Within

\* Comparing magnitudes digit by digit compares the numbers.
LEMMA MagnitudesCompare ==
  ASSUME NEW a, IsDecimal(a), a.digits > 0, NEW b, IsDecimal(b), b.digits > 0
  PROVE  compareDecimalMagnitudes(a, b) = RatCmp(rat(a), rat(b))
<1>1. PICK c \in Nat, e \in Int : c = a.digits /\ e = a.exponent /\ c > 0 /\
        c < Power(10, MaxMagnitude)
  BY DEF IsDecimal
<1>2. PICK d \in Nat, f \in Int : d = b.digits /\ f = b.exponent /\ d > 0 /\
        d < Power(10, MaxMagnitude)
  BY DEF IsDecimal
<1>3. PICK la \in Nat, lb \in Nat : la = DigitCount(c) /\ lb = DigitCount(d)
  BY <1>1, <1>2, DigitCountFacts
<1>4. PICK A \in Int, B \in Int : A = Magnitude(a) /\ B = Magnitude(b) /\ A = e + la /\
        B = f + lb
  <2>1. Magnitude(a) = e + la /\ Magnitude(b) = f + lb
    BY <1>1, <1>2, <1>3 DEF Magnitude
  <2>2. e + la \in Int /\ f + lb \in Int
    OBVIOUS
  <2> QED BY <2>1, <2>2
<1>5. CASE A # B
  <2>1. compareDecimalMagnitudes(a, b) = Cmp(A, B)
    BY <1>4, <1>5 DEF compareDecimalMagnitudes
  <2>2. IsRat(rat(a)) /\ IsRat(rat(b)) /\ Within(rat(a), A) /\ Within(rat(b), B)
    BY <1>4, DecimalWithin
  <2>3. CASE A < B
    <3>1. RatCmp(rat(a), rat(b)) = -1
      BY <2>2, <2>3, DecadesOrder
    <3> QED BY <2>1, <2>3, <3>1, CmpFacts
  <2>4. CASE B < A
    <3>1. RatCmp(rat(b), rat(a)) = -1
      BY <2>2, <2>4, DecadesOrder
    <3>2. RatCmp(rat(a), rat(b)) = 1
      BY <2>2, <3>1, RatCmpFacts
    <3> QED BY <2>1, <2>4, <3>2, CmpFacts
  <2> QED BY <1>5, <2>3, <2>4
<1>6. CASE A = B
  <2>1. PICK n \in Nat : n = IF la > lb THEN la ELSE lb
    OBVIOUS
  <2>2. compareDecimalMagnitudes(a, b) = Cmp(c * Power(10, n - la), d * Power(10, n - lb))
    BY <1>1, <1>2, <1>3, <1>4, <1>6, <2>1 DEF compareDecimalMagnitudes
  <2>3. PICK m \in Int : m = A - n
    OBVIOUS
  <2>4. m <= e /\ m <= f /\ e - m = n - la /\ f - m = n - lb
    BY <1>4, <1>6, <2>1, <2>3
  <2>5. RatCmp(Scaled(c, 10, e), Scaled(d, 10, f)) = Cmp(c * Power(10, e - m), d * Power(10, f - m))
    <3>1. Aligned(10, c, e, d, f, m)
      BY <2>4, TenCmp
    <3> QED BY <3>1 DEF Aligned
  <2>6. rat(a) = Scaled(c, 10, e) /\ rat(b) = Scaled(d, 10, f)
    BY <1>1, <1>2 DEF rat
  <2> QED BY <2>2, <2>4, <2>5, <2>6
<1> QED BY <1>5, <1>6

-----------------------------------------------------------------------------
\* A sign keeps a rational a rational.
LEMMA SignedIsRat ==
  ASSUME NEW r, IsRat(r), NEW s \in BOOLEAN
  PROVE  IsRat(SignedRat(r, s))
<1>1. CASE s = TRUE
  <2>1. SignedRat(r, s) = <<-r[1], r[2]>>
    BY <1>1 DEF SignedRat
  <2>2. SignedRat(r, s)[1] = -r[1] /\ SignedRat(r, s)[2] = r[2]
    BY <2>1
  <2> QED BY <2>2 DEF IsRat
<1>2. CASE s = FALSE
  BY <1>2 DEF SignedRat
<1> QED BY <1>1, <1>2

\* How signed rationals compare when their absolute values are a and b.
SignedOrder(a, s, b, t) ==
    LET ord == RatCmp(SignedRat(a, s), SignedRat(b, t))
    IN  /\ a[1] = 0 /\ b[1] = 0 => ord = 0
        /\ a[1] = 0 /\ b[1] # 0 => ord = IF t THEN 1 ELSE -1
        /\ a[1] # 0 /\ b[1] = 0 => ord = IF s THEN -1 ELSE 1
        /\ a[1] # 0 /\ b[1] # 0 =>
              ord = IF s # t THEN (IF s THEN -1 ELSE 1)
                    ELSE IF s THEN -RatCmp(a, b) ELSE RatCmp(a, b)

\* Signs decide before absolute values do, and zero has no sign.
LEMMA SignsCompare ==
  ASSUME NEW a, IsRat(a), a[1] >= 0, NEW b, IsRat(b), b[1] >= 0,
         NEW s \in BOOLEAN, NEW t \in BOOLEAN
  PROVE  SignedOrder(a, s, b, t)
<1>1. PICK x \in Nat, p \in Nat, y \in Nat, q \in Nat :
          x = a[1] /\ p = a[2] /\ y = b[1] /\ q = b[2] /\ p > 0 /\ q > 0
  BY DEF IsRat
<1>2. PICK g \in Nat, h \in Nat : g = x * q /\ h = y * p
  <2>1. x * q \in Nat /\ y * p \in Nat
    OBVIOUS
  <2> QED BY <2>1
<1>3. (x = 0 => g = 0) /\ (y = 0 => h = 0) /\ (x # 0 => g > 0) /\ (y # 0 => h > 0)
  BY <1>1, <1>2
<1>4. (-x) * q = -g /\ (-y) * p = -h
  BY <1>2
<1>5. RatCmp(a, b) = Cmp(g, h)
  BY <1>1, <1>2 DEF RatCmp
<1>6. CASE s = FALSE /\ t = FALSE
  <2>1. RatCmp(SignedRat(a, s), SignedRat(b, t)) = Cmp(g, h)
    BY <1>5, <1>6 DEF SignedRat
  <2> QED BY <1>1, <1>3, <1>5, <1>6, <2>1 DEF SignedOrder, Cmp
<1>7. CASE s = TRUE /\ t = TRUE
  <2>1. SignedRat(a, s) = <<-x, p>> /\ SignedRat(b, t) = <<-y, q>>
    BY <1>1, <1>7 DEF SignedRat
  <2>2. RatCmp(SignedRat(a, s), SignedRat(b, t)) = Cmp(-g, -h)
    BY <1>4, <2>1 DEF RatCmp
  <2> QED BY <1>1, <1>3, <1>5, <1>7, <2>2 DEF SignedOrder, Cmp
<1>8. CASE s = TRUE /\ t = FALSE
  <2>1. SignedRat(a, s) = <<-x, p>> /\ SignedRat(b, t) = b
    BY <1>1, <1>8 DEF SignedRat
  <2>2. RatCmp(SignedRat(a, s), SignedRat(b, t)) = Cmp(-g, h)
    BY <1>1, <1>2, <1>4, <2>1 DEF RatCmp
  <2>3. /\ a[1] = 0 /\ b[1] = 0 => Cmp(-g, h) = 0
        /\ a[1] # 0 \/ b[1] # 0 => Cmp(-g, h) = -1
    BY <1>1, <1>3 DEF Cmp
  <2>4. s # t
    BY <1>8
  <2> QED BY <1>8, <2>2, <2>3, <2>4 DEF SignedOrder
<1>9. CASE s = FALSE /\ t = TRUE
  <2>1. SignedRat(a, s) = a /\ SignedRat(b, t) = <<-y, q>>
    BY <1>1, <1>9 DEF SignedRat
  <2>2. RatCmp(SignedRat(a, s), SignedRat(b, t)) = Cmp(g, -h)
    BY <1>1, <1>2, <1>4, <2>1 DEF RatCmp
  <2>3. /\ a[1] = 0 /\ b[1] = 0 => Cmp(g, -h) = 0
        /\ a[1] # 0 \/ b[1] # 0 => Cmp(g, -h) = 1
    BY <1>1, <1>3 DEF Cmp
  <2>4. s # t
    BY <1>9
  <2> QED BY <1>9, <2>2, <2>3, <2>4 DEF SignedOrder
<1> QED BY <1>6, <1>7, <1>8, <1>9

\* A scaled natural number is zero only if its coefficient is.
LEMMA Numerator ==
  ASSUME NEW c \in Nat, NEW base \in Nat, base > 0, NEW e \in Int
  PROVE  /\ IsRat(Scaled(c, base, e)) /\ Scaled(c, base, e)[1] >= 0
         /\ Scaled(c, base, e)[1] = 0 <=> c = 0
<1>1. PICK u \in Nat : u = Over(base, e) /\ u > 0
  BY OverUnder
<1>2. Scaled(c, base, e)[1] = c * u /\ IsRat(Scaled(c, base, e))
  BY <1>1, ScaledParts
<1>3. c * u >= 0 /\ (c * u = 0 <=> c = 0)
  BY <1>1
<1> QED BY <1>2, <1>3

\* The same for a decimal and for a float.
LEMMA DecimalNumerator ==
  ASSUME NEW d, IsDecimal(d)
  PROVE  IsRat(rat(d)) /\ rat(d)[1] >= 0 /\ (rat(d)[1] = 0 <=> d.digits = 0)
<1>1. PICK c \in Nat, e \in Int, ten \in Nat : c = d.digits /\ e = d.exponent /\ ten = 10 /\
        ten > 0
  BY DEF IsDecimal
<1>2. rat(d) = Scaled(c, ten, e)
  BY <1>1 DEF rat
<1> QED BY <1>1, <1>2, Numerator

-----------------------------------------------------------------------------
\* The rational a decimal stands for.
value(d) == SignedRat(rat(d), d.negative)

\* compareDecimalNumbers orders decimals by the rationals they stand for.
LEMMA DecimalsCompare ==
  ASSUME NEW a, IsDecimal(a), NEW b, IsDecimal(b)
  PROVE  compareDecimalNumbers(a, b) = RatCmp(value(a), value(b))
<1>1. /\ a.negative \in BOOLEAN /\ b.negative \in BOOLEAN
      /\ a.digits \in Nat /\ b.digits \in Nat
  BY DEF IsDecimal
<1>2. SignedOrder(rat(a), a.negative, rat(b), b.negative)
  BY <1>1, DecimalNumerator, SignsCompare
<1>3. /\ rat(a)[1] = 0 <=> a.digits = 0
      /\ rat(b)[1] = 0 <=> b.digits = 0
  BY DecimalNumerator
<1>4. a.digits # 0 /\ b.digits # 0 => compareDecimalMagnitudes(a, b) = RatCmp(rat(a), rat(b))
  <2>1. a.digits # 0 /\ b.digits # 0 => a.digits > 0 /\ b.digits > 0
    BY <1>1
  <2> QED BY <2>1, MagnitudesCompare
<1>5. CASE a.digits = 0
  BY <1>2, <1>3, <1>5 DEF SignedOrder, compareDecimalNumbers, value
<1>6. CASE a.digits # 0 /\ b.digits = 0
  BY <1>2, <1>3, <1>6 DEF SignedOrder, compareDecimalNumbers, value
<1>7. CASE a.digits # 0 /\ b.digits # 0
  BY <1>2, <1>3, <1>4, <1>7 DEF SignedOrder, compareDecimalNumbers, value
<1> QED BY <1>5, <1>6, <1>7

\* compareDecimalToFloat does too, unless the float is formatted as the next
\* power of ten.
LEMMA DecimalToFloat ==
  ASSUME NEW d, IsDecimal(d), NEW f \in Numbers, f.kind = "float", ~RoundedUp(f)
  PROVE  /\ compareDecimalToFloat(d, f) = RatCmp(value(d), FloatRat(f))
         /\ IsRat(FloatRat(f))
<1>1. f.neg \in BOOLEAN /\ f.m \in Nat /\ f.e \in Int /\ d.negative \in BOOLEAN /\
        d.digits \in Nat
  BY NumberAssumption DEF IsDecimal
<1>2. IsRat(AbsFloat(f)) /\ AbsFloat(f)[1] >= 0 /\ (AbsFloat(f)[1] = 0 <=> f.m = 0)
  <2>1. PICK two \in Nat : two = 2 /\ two > 0
    OBVIOUS
  <2>2. AbsFloat(f) = Scaled(f.m, two, f.e)
    BY <2>1 DEF AbsFloat
  <2> QED BY <1>1, <2>1, <2>2, Numerator
<1>3. IsRat(FloatRat(f))
  BY <1>1, <1>2, SignedIsRat DEF FloatRat
<1>4. IsRat(rat(d)) /\ rat(d)[1] >= 0 /\ (rat(d)[1] = 0 <=> d.digits = 0)
  BY DecimalNumerator
<1>5. SignedOrder(rat(d), d.negative, AbsFloat(f), f.neg)
  BY <1>1, <1>2, <1>4, SignsCompare
<1> DEFINE ord == IF Magnitude(d) # floatDecimalMagnitude(f)
                  THEN Cmp(Magnitude(d), floatDecimalMagnitude(f))
                  ELSE RatCmp(rat(d), AbsFloat(f))
<1>6. ASSUME d.digits # 0, f.m # 0 PROVE ord = RatCmp(rat(d), AbsFloat(f))
  <2>1. MaxMagnitude \in Nat /\ \E k \in -MaxMagnitude .. MaxMagnitude : InDecade(f, k)
    BY <1>6, NumberAssumption
  <2>2. FloatMagnitude(f) \in -MaxMagnitude .. MaxMagnitude /\ InDecade(f, FloatMagnitude(f))
    BY <2>1 DEF FloatMagnitude
  <2>3. PICK K \in Int : K = FloatMagnitude(f)
    BY <2>1, <2>2
  <2>4. Within(AbsFloat(f), K)
    BY <2>2, <2>3 DEF InDecade, Within
  <2>5. floatDecimalMagnitude(f) = K
    <3>1. ~FormatsAsNextPower(f)
      BY <1>6 DEF RoundedUp
    <3>2. K + 0 = K
      OBVIOUS
    <3> QED BY <2>3, <3>1, <3>2 DEF floatDecimalMagnitude
  <2>6. d.digits > 0
    BY <1>1, <1>6
  <2>7. PICK M \in Int : M = Magnitude(d) /\ Within(rat(d), M)
    BY <2>6, DecimalWithin
  <2>8. CASE M < K
    <3>1. RatCmp(rat(d), AbsFloat(f)) = -1
      BY <1>2, <1>4, <2>4, <2>7, <2>8, DecadesOrder
    <3> QED BY <2>5, <2>7, <2>8, <3>1, CmpFacts
  <2>9. CASE K < M
    <3>1. RatCmp(AbsFloat(f), rat(d)) = -1
      BY <1>2, <1>4, <2>4, <2>7, <2>9, DecadesOrder
    <3>2. RatCmp(rat(d), AbsFloat(f)) = 1
      BY <1>2, <1>4, <3>1, RatCmpFacts
    <3> QED BY <2>5, <2>7, <2>9, <3>2, CmpFacts
  <2>10. CASE M = K
    BY <2>5, <2>7, <2>10
  <2> QED BY <2>8, <2>9, <2>10
<1> HIDE DEF ord
<1>7. CASE d.digits = 0
  BY <1>2, <1>3, <1>4, <1>5, <1>7 DEF SignedOrder, compareDecimalToFloat, value, FloatRat
<1>8. CASE d.digits # 0 /\ f.m = 0
  BY <1>2, <1>3, <1>4, <1>5, <1>8 DEF SignedOrder, compareDecimalToFloat, value, FloatRat
<1>9. CASE d.digits # 0 /\ f.m # 0
  <2>1. compareDecimalToFloat(d, f) =
            IF d.negative # f.neg THEN (IF d.negative THEN -1 ELSE 1)
            ELSE IF d.negative THEN -ord ELSE ord
    BY <1>9 DEF compareDecimalToFloat, ord
  <2>2. ord = RatCmp(rat(d), AbsFloat(f))
    BY <1>6, <1>9
  <2> QED BY <1>2, <1>3, <1>4, <1>5, <1>9, <2>1, <2>2 DEF SignedOrder, value, FloatRat
<1> QED BY <1>7, <1>8, <1>9

-----------------------------------------------------------------------------
\* A lexeme holds its number, unrounded.
LEMMA LexemeExact ==
  ASSUME NEW n \in Numbers, n.kind # "float"
  PROVE  /\ lexeme(n).negative \in BOOLEAN /\ lexeme(n).digits \in Nat
         /\ lexeme(n).exponent \in Int /\ lexeme(n).digits < Power(10, MaxMagnitude)
         /\ Exact(n) = SignedRat(Scaled(lexeme(n).digits, 10, lexeme(n).exponent),
                                 lexeme(n).negative)
<1>1. lexeme(n).digits < Power(10, MaxMagnitude)
  BY NumberAssumption
<1>2. CASE n.kind = "decimal"
  <2>1. n.neg \in BOOLEAN /\ n.digits \in Nat /\ n.frac \in Nat /\ n.exp \in Int
    BY <1>2, NumberAssumption
  <2>2. lexeme(n) = [negative |-> n.neg, digits |-> n.digits, exponent |-> n.exp - n.frac]
    BY <1>2 DEF lexeme
  <2>3. lexeme(n).negative = n.neg /\ lexeme(n).digits = n.digits /\
          lexeme(n).exponent = n.exp - n.frac
    BY <2>2
  <2>4. Exact(n) = SignedRat(Scaled(n.digits, 10, n.exp - n.frac), n.neg)
    BY <1>2 DEF Exact
  <2>5. n.exp - n.frac \in Int
    BY <2>1
  <2> QED BY <1>1, <2>1, <2>3, <2>4, <2>5
<1>3. CASE n.kind \in {"signed", "unsigned"}
  <2>1. PICK v \in Int : v = n.v
    <3>1. CASE n.kind = "signed"
      BY <3>1, NumberAssumption
    <3>2. CASE n.kind = "unsigned"
      BY <3>2, NumberAssumption
    <3> QED BY <1>3, <3>1, <3>2
  <2>2. lexeme(n) = [negative |-> v < 0, digits |-> IF v < 0 THEN -v ELSE v, exponent |-> 0]
    BY <1>3, <2>1 DEF lexeme
  <2>3. lexeme(n).negative = (v < 0)
    BY <2>2
  <2>4. lexeme(n).digits = (IF v < 0 THEN -v ELSE v) /\ lexeme(n).exponent = 0
    BY <2>2
  <2>5. Exact(n) = <<v, 1>>
    BY <1>3, <2>1 DEF Exact
  <2>6. PICK w \in Nat : w = lexeme(n).digits
    BY <2>4
  <2>7. Scaled(w, 10, 0) = <<w, 1>>
    <3>1. Power(10, 0) = 1 /\ w * 1 = w
      BY PowerEquation
    <3> QED BY <3>1 DEF Scaled
  <2>8. SignedRat(Scaled(w, 10, 0), lexeme(n).negative) = <<v, 1>>
    <3>1. CASE v < 0
      <4>1. -w = v
        BY <2>4, <2>6, <3>1
      <4>2. lexeme(n).negative
        BY <2>3, <3>1
      <4> QED BY <2>7, <4>1, <4>2 DEF SignedRat
    <3>2. CASE ~(v < 0)
      <4>1. w = v
        BY <2>4, <2>6, <3>2
      <4>2. ~lexeme(n).negative
        BY <2>3, <3>2
      <4> QED BY <2>7, <4>1, <4>2 DEF SignedRat
    <3> QED BY <3>1, <3>2
  <2>9. lexeme(n).negative \in BOOLEAN
    BY <2>3
  <2> QED BY <1>1, <2>4, <2>5, <2>6, <2>8, <2>9
<1>4. n.kind \in {"signed", "unsigned", "decimal"}
  BY NumberAssumption
<1> QED BY <1>2, <1>3, <1>4

\* decimalValue stands for the number it was made from.
LEMMA DecimalValueExact ==
  ASSUME NEW n \in Numbers, n.kind # "float"
  PROVE  /\ IsDecimal(decimalValue(n)) /\ IsRat(Exact(n)) /\ IsRat(value(decimalValue(n)))
         /\ RatCmp(value(decimalValue(n)), Exact(n)) = 0
<1>1. PICK s \in BOOLEAN, c \in Nat, x \in Int :
          /\ s = lexeme(n).negative /\ c = lexeme(n).digits /\ x = lexeme(n).exponent
          /\ c < Power(10, MaxMagnitude) /\ Exact(n) = SignedRat(Scaled(c, 10, x), s)
  BY LexemeExact
<1>2. PICK d : d = decimalValue(n) /\ d = normalizeDecimal(s, c, x)
  BY <1>1 DEF decimalValue
<1>3. Normalized(d, s, c, x)
  BY <1>1, <1>2, NormalizeFacts
<1>4. IsRat(rat(d)) /\ rat(d)[1] >= 0 /\ (rat(d)[1] = 0 <=> d.digits = 0)
      /\ d.negative \in BOOLEAN /\ d.digits \in Nat /\ d.exponent \in Int
  BY <1>3, DecimalNumerator DEF Normalized, IsDecimal
<1>5. PICK r : /\ r = Scaled(c, 10, x) /\ IsRat(r) /\ r[1] >= 0 /\ (r[1] = 0 <=> c = 0)
  <2>1. PICK ten \in Nat : ten = 10 /\ ten > 0
    OBVIOUS
  <2>2. IsRat(Scaled(c, ten, x)) /\ Scaled(c, ten, x)[1] >= 0 /\
          (Scaled(c, ten, x)[1] = 0 <=> c = 0)
    BY <2>1, Numerator
  <2> QED BY <2>1, <2>2
<1>6. IsRat(value(d)) /\ IsRat(SignedRat(r, s))
  BY <1>4, <1>5, SignedIsRat DEF value
<1>7. SignedOrder(rat(d), d.negative, r, s)
  BY <1>4, <1>5, SignsCompare
<1>8. RatCmp(value(d), SignedRat(r, s)) = 0
  <2>1. CASE c = 0
    BY <1>3, <1>4, <1>5, <1>7, <2>1 DEF Normalized, SignedOrder, value
  <2>2. CASE c # 0
    <3>1. PICK z \in Nat : d.exponent = x + z /\ c = d.digits * Power(10, z)
      BY <1>3, <2>2 DEF Normalized
    <3>2. PICK g \in Nat, y \in Int : g = d.digits /\ y = x + z
      BY <1>4
    <3>3. x <= y /\ x <= x /\ y - x = z /\ x - x = 0
      BY <3>2
    <3>4. Aligned(10, g, y, c, x, x)
      BY <3>3, TenCmp
    <3>5. RatCmp(rat(d), r) = Cmp(g * Power(10, z), c * Power(10, 0))
      BY <1>5, <3>1, <3>2, <3>3, <3>4 DEF Aligned, rat
    <3>6. c * Power(10, 0) = c
      <4>1. Power(10, 0) = 1 /\ c * 1 = c
        BY PowerEquation
      <4> QED BY <4>1
    <3>7. RatCmp(rat(d), r) = 0
      <4>1. RatCmp(rat(d), r) = Cmp(c, c)
        BY <3>1, <3>2, <3>5, <3>6
      <4> QED BY <4>1, CmpFacts
    <3>8. rat(d)[1] # 0 /\ r[1] # 0 /\ d.negative = s
      BY <1>3, <1>4, <1>5, <2>2 DEF Normalized
    <3>9. CASE s
      <4>1. RatCmp(value(d), SignedRat(r, s)) = -RatCmp(rat(d), r)
        BY <1>7, <3>8, <3>9 DEF SignedOrder, value
      <4>2. PICK o \in Int : o = RatCmp(rat(d), r) /\ o <= 0 /\ o >= 0
        BY <3>7
      <4>3. -o = 0
        BY <4>2
      <4> QED BY <4>1, <4>2, <4>3
    <3>10. CASE ~s
      <4>1. RatCmp(value(d), SignedRat(r, s)) = RatCmp(rat(d), r)
        BY <1>7, <3>8, <3>10 DEF SignedOrder, value
      <4> QED BY <3>7, <4>1
    <3> QED BY <3>9, <3>10
  <2> QED BY <2>1, <2>2
<1> QED BY <1>1, <1>2, <1>3, <1>5, <1>6, <1>8 DEF Normalized

\* compareSignedUnsigned compares an int64 with a uint64 as integers.
LEMMA SignedUnsigned ==
  ASSUME NEW s \in Int, s < Power(2, WordBits - 1), NEW u \in Nat
  PROVE  compareSignedUnsigned(s, u) = Cmp(s, u)
<1>1. CASE s < 0
  BY <1>1 DEF compareSignedUnsigned, Cmp
<1>2. CASE s >= 0
  <2>1. PICK i \in Nat, j \in Nat : i = WordBits - 1 /\ j = WordBits /\ i <= j
    BY NumberAssumption
  <2>2. PICK two \in Nat : two = 2 /\ two > 0
    OBVIOUS
  <2>3. PICK p \in Nat, q \in Nat : p = Power(two, i) /\ q = Power(two, j)
    BY <2>2, PowerEquation
  <2>4. p <= q
    BY <2>1, <2>2, <2>3, PowerMonotone
  <2>5. s < q /\ s \in Nat
    BY <1>2, <2>1, <2>2, <2>3, <2>4
  <2>6. Uint64(s) = s
    BY <2>1, <2>2, <2>3, <2>5, ModuloSmall DEF Uint64
  <2> QED BY <1>2, <2>6 DEF compareSignedUnsigned
<1> QED BY <1>1, <1>2

\* Integers compare as integers.
LEMMA IntegersCompare ==
  ASSUME NEW a \in Numbers, a.kind \in {"signed", "unsigned"},
         NEW b \in Numbers, b.kind \in {"signed", "unsigned"}
  PROVE  compareJSONNumbers(a, b) = RatCmp(Exact(a), Exact(b))
<1>1. PICK v \in Int : v = a.v
  <2>1. CASE a.kind = "signed"
    BY <2>1, NumberAssumption
  <2>2. CASE a.kind = "unsigned"
    BY <2>2, NumberAssumption
  <2> QED BY <2>1, <2>2
<1>2. PICK w \in Int : w = b.v
  <2>1. CASE b.kind = "signed"
    BY <2>1, NumberAssumption
  <2>2. CASE b.kind = "unsigned"
    BY <2>2, NumberAssumption
  <2> QED BY <2>1, <2>2
<1>3. RatCmp(Exact(a), Exact(b)) = Cmp(v, w)
  <2>1. Exact(a) = <<v, 1>> /\ Exact(b) = <<w, 1>>
    BY <1>1, <1>2 DEF Exact
  <2>2. v * 1 = v /\ w * 1 = w
    OBVIOUS
  <2> QED BY <2>1, <2>2 DEF RatCmp
<1>4. CASE a.kind = b.kind
  <2>1. compareJSONNumbers(a, b) = Cmp(v, w)
    BY <1>1, <1>2, <1>4 DEF compareJSONNumbers
  <2> QED BY <1>3, <2>1
<1>5. CASE a.kind = "signed" /\ b.kind = "unsigned"
  <2>1. v < Power(2, WordBits - 1) /\ w \in Nat
    <3>1. v \in -Power(2, WordBits - 1) .. Power(2, WordBits - 1) - 1
      BY <1>1, <1>5, NumberAssumption
    <3>2. Power(2, WordBits - 1) \in Nat
      BY NumberAssumption, PowerEquation
    <3>3. w \in 0 .. Power(2, WordBits) - 1
      BY <1>2, <1>5, NumberAssumption
    <3> QED BY <3>1, <3>2, <3>3
  <2>2. compareJSONNumbers(a, b) = compareSignedUnsigned(v, w)
    BY <1>1, <1>2, <1>5 DEF compareJSONNumbers
  <2> QED BY <1>3, <2>1, <2>2, SignedUnsigned
<1>6. CASE a.kind = "unsigned" /\ b.kind = "signed"
  <2>1. w < Power(2, WordBits - 1) /\ v \in Nat
    <3>1. w \in -Power(2, WordBits - 1) .. Power(2, WordBits - 1) - 1
      BY <1>2, <1>6, NumberAssumption
    <3>2. Power(2, WordBits - 1) \in Nat
      BY NumberAssumption, PowerEquation
    <3>3. v \in 0 .. Power(2, WordBits) - 1
      BY <1>1, <1>6, NumberAssumption
    <3> QED BY <3>1, <3>2, <3>3
  <2>2. compareJSONNumbers(a, b) = -compareSignedUnsigned(w, v)
    BY <1>1, <1>2, <1>6 DEF compareJSONNumbers
  <2>3. compareSignedUnsigned(w, v) = Cmp(w, v)
    BY <2>1, SignedUnsigned
  <2> QED BY <1>3, <2>2, <2>3, CmpFacts
<1> QED BY <1>4, <1>5, <1>6

-----------------------------------------------------------------------------
\* compareJSONNumbers orders the numbers by the rationals they stand for.
LEMMA NumbersCompare ==
  ASSUME NEW a \in Numbers, NEW b \in Numbers,
         RoundedUp(a) \/ RoundedUp(b) => a.kind = b.kind
  PROVE  compareJSONNumbers(a, b) = RatCmp(Exact(a), Exact(b))
<1>0. a.kind \in {"signed", "unsigned", "float", "decimal"} /\
        b.kind \in {"signed", "unsigned", "float", "decimal"}
  BY NumberAssumption
<1>1. CASE a.kind = "float" /\ b.kind = "float"
  BY <1>1 DEF compareJSONNumbers, Exact
<1>2. CASE a.kind = "float" /\ b.kind # "float"
  <2>1. PICK d : d = decimalValue(b)
    OBVIOUS
  <2>2. /\ IsDecimal(d) /\ IsRat(Exact(b)) /\ IsRat(value(d))
        /\ RatCmp(value(d), Exact(b)) = 0
    BY <1>2, <2>1, DecimalValueExact
  <2>3. ~RoundedUp(a)
    BY <1>2
  <2>4. compareDecimalToFloat(d, a) = RatCmp(value(d), FloatRat(a)) /\ IsRat(FloatRat(a))
    BY <1>2, <2>2, <2>3, DecimalToFloat
  <2>5. RatCmp(value(d), FloatRat(a)) = RatCmp(Exact(b), FloatRat(a))
    BY <2>2, <2>4, RatCmpEqual
  <2>6. Exact(a) = FloatRat(a)
    BY <1>2 DEF Exact
  <2>7. compareJSONNumbers(a, b) = -compareDecimalToFloat(d, a)
    BY <1>2, <2>1 DEF compareJSONNumbers
  <2>8. RatCmp(FloatRat(a), Exact(b)) = -RatCmp(Exact(b), FloatRat(a))
    BY <2>2, <2>4, RatCmpFacts
  <2> QED BY <2>4, <2>5, <2>6, <2>7, <2>8
<1>3. CASE a.kind # "float" /\ b.kind = "float"
  <2>1. PICK d : d = decimalValue(a)
    OBVIOUS
  <2>2. /\ IsDecimal(d) /\ IsRat(Exact(a)) /\ IsRat(value(d))
        /\ RatCmp(value(d), Exact(a)) = 0
    BY <1>3, <2>1, DecimalValueExact
  <2>3. ~RoundedUp(b)
    BY <1>3
  <2>4. compareDecimalToFloat(d, b) = RatCmp(value(d), FloatRat(b)) /\ IsRat(FloatRat(b))
    BY <1>3, <2>2, <2>3, DecimalToFloat
  <2>5. RatCmp(value(d), FloatRat(b)) = RatCmp(Exact(a), FloatRat(b))
    BY <2>2, <2>4, RatCmpEqual
  <2>6. Exact(b) = FloatRat(b)
    BY <1>3 DEF Exact
  <2>7. compareJSONNumbers(a, b) = compareDecimalToFloat(d, b)
    BY <1>3, <2>1 DEF compareJSONNumbers
  <2> QED BY <2>4, <2>5, <2>6, <2>7
<1>4. CASE a.kind \in {"signed", "unsigned"} /\ b.kind \in {"signed", "unsigned"}
  BY <1>4, IntegersCompare
<1>5. CASE /\ a.kind # "float" /\ b.kind # "float"
           /\ a.kind = "decimal" \/ b.kind = "decimal"
  <2>1. PICK c, d : c = decimalValue(a) /\ d = decimalValue(b)
    OBVIOUS
  <2>2. /\ IsDecimal(c) /\ IsRat(Exact(a)) /\ IsRat(value(c))
        /\ RatCmp(value(c), Exact(a)) = 0
    BY <1>5, <2>1, DecimalValueExact
  <2>3. /\ IsDecimal(d) /\ IsRat(Exact(b)) /\ IsRat(value(d))
        /\ RatCmp(value(d), Exact(b)) = 0
    BY <1>5, <2>1, DecimalValueExact
  <2>4. compareJSONNumbers(a, b) = compareDecimalNumbers(c, d)
    BY <1>5, <2>1 DEF compareJSONNumbers
  <2>5. compareDecimalNumbers(c, d) = RatCmp(value(c), value(d))
    BY <2>2, <2>3, DecimalsCompare
  <2>6. RatCmp(value(c), value(d)) = RatCmp(Exact(a), value(d))
    BY <2>2, <2>3, RatCmpEqual
  <2>7. RatCmp(Exact(a), value(d)) = RatCmp(Exact(a), Exact(b))
    BY <2>2, <2>3, RatCmpEqual
  <2> QED BY <2>4, <2>5, <2>6, <2>7
<1> QED BY <1>0, <1>1, <1>2, <1>3, <1>4, <1>5

\* What every state satisfies: the operands are numbers, and an answer is the
\* one compareJSONNumbers computes.
Answered ==
    /\ left \in Numbers /\ right \in Numbers
    /\ order \in {Unknown, compareJSONNumbers(left, right)}

\* README: comparison is by exact value.  compareJSONNumbers answers with the
\* order of the two rationals, for every pair of numbers and representations
\* but a float that FormatFloat writes as the next power of ten against an
\* integer or a lexeme.
THEOREM ComparisonIsExact == Spec => []ExactUnlessFormattedUp
<1>1. Init => Answered
  BY DEF Init, Answered
<1>2. Answered /\ [Next]_vars => Answered'
  BY DEF Answered, Next, Compare, vars
<1>3. Answered => ExactUnlessFormattedUp
  BY NumbersCompare DEF Answered, ExactUnlessFormattedUp
<1> QED BY <1>1, <1>2, <1>3, PTL DEF Spec
===============================================================================
