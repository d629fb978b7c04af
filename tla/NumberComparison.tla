--------------------------- MODULE NumberComparison ---------------------------
(***************************************************************************)
(* Numeric comparison, internal/ast/number.go.  A number is                *)
(*   [kind |-> "signed", v], [kind |-> "unsigned", v]   a Go integer       *)
(*   [kind |-> "float", neg, m, e]                      m * 2^e            *)
(*   [kind |-> "decimal", neg, digits, frac, exp]       a JSON lexeme      *)
(* where digits is the lexeme's coefficient without its point, as a        *)
(* natural, frac the number of digits after the point and exp the exponent.*)
(* compareJSONNumbers converts between these; the properties compare its   *)
(* answer with the order of the rational numbers they stand for.           *)
(***************************************************************************)
EXTENDS Integers, FiniteSets, FiniteSetsExt

CONSTANTS
    Numbers,      \* the numbers that are compared
    WordBits,     \* the width of int64 and uint64
    Precision,    \* the bits of a float's significand
    MaxMagnitude  \* no number has more digits before or zeros after the point

VARIABLES left, right, order

vars == <<left, right, order>>

-----------------------------------------------------------------------------
\* cmp.Compare
Cmp(a, b) == IF a < b THEN -1 ELSE IF a > b THEN 1 ELSE 0

\* base^n
Power(base, n) ==
    LET power[k \in Nat] == IF k = 0 THEN 1 ELSE base * power[k - 1] IN power[n]

\* Conversion of an int64 to uint64.
Uint64(x) == x % Power(2, WordBits)

\* len(digits) of the decimal digits of n # 0.
DigitCount(n) == CHOOSE k \in 1 .. MaxMagnitude : Power(10, k - 1) <= n /\ n < Power(10, k)

\* Mutant: trailing zeros are trimmed and the exponent is not raised.
normalizeDecimalNoRaise(neg, digits, exponent) ==
    IF digits = 0 THEN [negative |-> FALSE, digits |-> 0, exponent |-> 0]
    ELSE LET zeros == Max({k \in 0 .. DigitCount(digits) - 1 : digits % Power(10, k) = 0})
         IN  [negative |-> neg, digits |-> digits \div Power(10, zeros), exponent |-> exponent]

\* Leading zeros do not count, trailing zeros go to the exponent; zero has no
\* digits and no sign.
normalizeDecimal(neg, digits, exponent) ==
    IF digits = 0 THEN [negative |-> FALSE, digits |-> 0, exponent |-> 0]
    ELSE LET zeros == Max({k \in 0 .. DigitCount(digits) - 1 : digits % Power(10, k) = 0})
         IN  [negative |-> neg, digits |-> digits \div Power(10, zeros), exponent |-> exponent + zeros]

\* The parts of a lexeme, and of an integer as it is formatted.
lexeme(n) ==
    IF n.kind = "decimal"
    THEN [negative |-> n.neg, digits |-> n.digits, exponent |-> n.exp - n.frac]
    ELSE [negative |-> n.v < 0, digits |-> IF n.v < 0 THEN -n.v ELSE n.v, exponent |-> 0]

decimalValue(n) == normalizeDecimal(lexeme(n).negative, lexeme(n).digits, lexeme(n).exponent)

\* The position of the first digit: d is in [10^(Magnitude-1), 10^Magnitude).
Magnitude(d) == d.exponent + DigitCount(d.digits)

\* Digit by digit from the left, the shorter one padded with zeros.
compareDecimalMagnitudes(a, b) ==
    IF Magnitude(a) # Magnitude(b)
    THEN Cmp(Magnitude(a), Magnitude(b))
    ELSE LET la == DigitCount(a.digits)
             lb == DigitCount(b.digits)
             n  == IF la > lb THEN la ELSE lb
         IN  Cmp(a.digits * Power(10, n - la), b.digits * Power(10, n - lb))

\* compareDecimalNumbers; a zero has no digits and compares by the other sign.
compareDecimalNumbers(a, b) ==
    CASE a.digits = 0 /\ b.digits = 0 -> 0
      [] a.digits = 0 /\ b.digits # 0 -> IF b.negative THEN 1 ELSE -1
      [] a.digits # 0 /\ b.digits = 0 -> IF a.negative THEN -1 ELSE 1
      [] OTHER ->
            IF a.negative # b.negative THEN (IF a.negative THEN -1 ELSE 1)
            ELSE IF a.negative THEN -compareDecimalMagnitudes(a, b)
            ELSE compareDecimalMagnitudes(a, b)

-----------------------------------------------------------------------------
\* Rational numbers as <<numerator, denominator>>.
Scaled(c, base, e) == IF e >= 0 THEN <<c * Power(base, e), 1>> ELSE <<c, Power(base, -e)>>

RatCmp(a, b) == Cmp(a[1] * b[2], b[1] * a[2])

rat(d) == Scaled(d.digits, 10, d.exponent)

AbsFloat(f) == Scaled(f.m, 2, f.e)

\* 10^(k-1) <= |f| < 10^k
InDecade(f, k) ==
    /\ RatCmp(Scaled(1, 10, k - 1), AbsFloat(f)) <= 0
    /\ RatCmp(AbsFloat(f), Scaled(1, 10, k)) < 0

FloatMagnitude(f) == CHOOSE k \in -MaxMagnitude .. MaxMagnitude : InDecade(f, k)

\* r reads back as |f|: it is nearer to |f| than to the neighbouring floats, or
\* half way and |f| has the even significand.
ReadsBackAs(r, f) ==
    LET half  == Scaled(2 * f.m + 1, 2, f.e - 1)
        below == IF f.m = Power(2, Precision - 1)
                 THEN Scaled(4 * f.m - 1, 2, f.e - 2)
                 ELSE Scaled(2 * f.m - 1, 2, f.e - 1)
    IN  IF f.m % 2 = 0
        THEN RatCmp(below, r) <= 0 /\ RatCmp(r, half) <= 0
        ELSE RatCmp(below, r) < 0 /\ RatCmp(r, half) < 0

\* FormatFloat(|f|, 'e', -1, 64) writes the nearest of the shortest decimals
\* that read back as |f|.  It writes the next power of ten, a one-digit decimal,
\* when that reads back and 9 * 10^(k-1) does not or is not as near.
FormatsAsNextPower(f) ==
    LET k     == FloatMagnitude(f)
        power == Scaled(1, 10, k)
        nine  == Scaled(9, 10, k - 1)
        mid   == Scaled(95, 10, k - 2)
    IN  /\ ReadsBackAs(power, f)
        /\ ~ReadsBackAs(nine, f) \/ RatCmp(AbsFloat(f), mid) > 0

\* Mutant: the exponent of the formatted float is used as its digit count.
floatDecimalMagnitudeShort(f) == FloatMagnitude(f) - 1

\* The exponent of the formatted float, plus one.
floatDecimalMagnitude(f) == FloatMagnitude(f) + IF FormatsAsNextPower(f) THEN 1 ELSE 0

compareDecimalToFloat(d, f) ==
    CASE d.digits = 0 -> IF f.m = 0 THEN 0 ELSE IF f.neg THEN 1 ELSE -1
      [] d.digits # 0 /\ f.m = 0 -> IF d.negative THEN -1 ELSE 1
      [] d.digits # 0 /\ f.m # 0 ->
            IF d.negative # f.neg THEN (IF d.negative THEN -1 ELSE 1)
            ELSE LET ord == IF Magnitude(d) # floatDecimalMagnitude(f)
                            THEN Cmp(Magnitude(d), floatDecimalMagnitude(f))
                            ELSE RatCmp(rat(d), AbsFloat(f))
                 IN  IF d.negative THEN -ord ELSE ord

SignedRat(r, neg) == IF neg THEN <<-r[1], r[2]>> ELSE r

\* The order of two floats, which Go compares directly; -0 equals 0.
FloatRat(f) == SignedRat(AbsFloat(f), f.neg)

\* Mutant: a negative int64 is converted to uint64 before the comparison.
compareSignedUnsignedWrap(s, u) == Cmp(Uint64(s), u)

compareSignedUnsigned(s, u) == IF s < 0 THEN -1 ELSE Cmp(Uint64(s), u)

compareJSONNumbers(a, b) ==
    LET both(k1, k2) == a.kind = k1 /\ b.kind = k2
    IN  CASE both("signed", "signed") \/ both("unsigned", "unsigned") -> Cmp(a.v, b.v)
          [] both("float", "float") -> RatCmp(FloatRat(a), FloatRat(b))
          [] both("signed", "unsigned") -> compareSignedUnsigned(a.v, b.v)
          [] both("unsigned", "signed") -> -compareSignedUnsigned(b.v, a.v)
          [] a.kind = "float" /\ b.kind # "float" -> -compareDecimalToFloat(decimalValue(b), a)
          [] a.kind # "float" /\ b.kind = "float" -> compareDecimalToFloat(decimalValue(a), b)
          [] OTHER -> compareDecimalNumbers(decimalValue(a), decimalValue(b))

-----------------------------------------------------------------------------
\* Integers fit their word, floats are finite, and MaxMagnitude is a bound.
ASSUME NumberAssumption ==
    /\ WordBits \in Nat \ {0} /\ Precision \in Nat \ {0} /\ MaxMagnitude \in Nat
    /\ Numbers \subseteq
          [kind : {"signed"}, v : -Power(2, WordBits - 1) .. Power(2, WordBits - 1) - 1]
          \cup [kind : {"unsigned"}, v : 0 .. Power(2, WordBits) - 1]
          \cup [kind : {"float"}, neg : BOOLEAN, m : Nat, e : Int]
          \cup [kind : {"decimal"}, neg : BOOLEAN, digits : Nat, frac : Nat, exp : Int]
    /\ \A n \in Numbers :
          IF n.kind = "float"
          THEN n.m # 0 => \E k \in -MaxMagnitude .. MaxMagnitude : InDecade(n, k)
          ELSE lexeme(n).digits < Power(10, MaxMagnitude)

Unknown == 2

Init ==
    /\ left \in Numbers
    /\ right \in Numbers
    /\ order = Unknown

Compare ==
    /\ order = Unknown
    /\ order' = compareJSONNumbers(left, right)
    /\ UNCHANGED <<left, right>>

Next == Compare

Spec == Init /\ [][Next]_vars

-----------------------------------------------------------------------------
\* The rational number a number stands for.
Exact(n) ==
    CASE n.kind \in {"signed", "unsigned"} -> <<n.v, 1>>
      [] n.kind = "float" -> FloatRat(n)
      [] n.kind = "decimal" -> SignedRat(Scaled(n.digits, 10, n.exp - n.frac), n.neg)

\* README: integers compare by their exact magnitude, jsontext numbers by their
\* exact decimal value and floats by their exact binary value.
ExactOrder == order # Unknown => order = RatCmp(Exact(left), Exact(right))

RoundedUp(n) == n.kind = "float" /\ n.m # 0 /\ FormatsAsNextPower(n)

\* Comparison is exact, whatever the two representations are, unless one
\* operand is a float that FormatFloat writes as the next power of ten and the
\* other is not a float.
ExactUnlessFormattedUp ==
    (order # Unknown /\ (RoundedUp(left) \/ RoundedUp(right) => left.kind = right.kind)) =>
        order = RatCmp(Exact(left), Exact(right))
=============================================================================
