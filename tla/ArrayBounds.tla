----------------------------- MODULE ArrayBounds -----------------------------
(***************************************************************************)
(* Index and slice bounds, internal/ast/array.go: pure functions of a      *)
(* selector's arguments and the array length, in Go int64 arithmetic, and  *)
(* next to them the set RFC 9535 says a slice selects.                     *)
(***************************************************************************)
EXTENDS Integers, Sequences

CONSTANTS
    MaxInt64,         \* 2^63 - 1 in Go
    MaxJSONInteger,   \* 2^53 - 1: what parseJSONInteger lets through
    MaxLen            \* an upper bound on len(arr)

\* A Go slice of interfaces takes 16 bytes per element, so len(arr) is far
\* below 2^59, and 2^59 + 2 * 2^53 < 2^63.
ASSUME WidthAssumption ==
    /\ MaxLen \in Nat
    /\ MaxJSONInteger \in Nat \ {0}
    /\ MaxInt64 \in Nat
    /\ MaxLen + 2 * MaxJSONInteger < MaxInt64

-----------------------------------------------------------------------------
JSONInteger == -MaxJSONInteger .. MaxJSONInteger

\* Absent members keep Go's zero value.
SliceArgs ==
    [HasStart : BOOLEAN, Start : JSONInteger,
     HasEnd   : BOOLEAN, End   : JSONInteger,
     HasStep  : BOOLEAN, Step  : JSONInteger]

WellFormedArgs ==
    {a \in SliceArgs : /\ a.HasStart \/ a.Start = 0
                       /\ a.HasEnd \/ a.End = 0
                       /\ a.HasStep \/ a.Step = 0}

Int64Range == (-MaxInt64 - 1) .. MaxInt64

\* What an int64 variable holds after an assignment of x.
Int64(x) ==
    IF x \in Int64Range
    THEN x
    ELSE ((x + MaxInt64 + 1) % (2 * MaxInt64 + 2)) - (MaxInt64 + 1)

SliceBounds == [Start : Int, End : Int, Step : Int]

NoBounds == [Start |-> 0, End |-> 0, Step |-> 0]

\* Mutant: the negative index is not checked again after adding the length.
NormalizeIndexUnchecked(index, len) ==
    LET idx == IF index < 0 THEN Int64(index + len) ELSE index
    IN  IF idx >= len THEN [ok |-> FALSE, idx |-> 0] ELSE [ok |-> TRUE, idx |-> idx]

NormalizeIndex(index, len) ==
    LET idx == IF index < 0 THEN Int64(index + len) ELSE index
    IN  IF idx < 0 \/ idx >= len
        THEN [ok |-> FALSE, idx |-> 0]
        ELSE [ok |-> TRUE, idx |-> idx]

\* The two halves of normalizeSliceBounds.
NormalizeSliceStart(start, step, len) ==
    IF start < 0
    THEN LET s == Int64(start + len) IN IF s < 0 /\ step > 0 THEN 0 ELSE s
    ELSE IF start >= len /\ step < 0 THEN len - 1 ELSE start

\* Mutant: the end bound is not clamped to the array length.
NormalizeSliceEndUnclamped(end, step, len) ==
    IF end < 0
    THEN LET e == Int64(end + len) IN IF e < 0 /\ step < 0 THEN -1 ELSE e
    ELSE end

NormalizeSliceEnd(end, step, len) ==
    IF end < 0
    THEN LET e == Int64(end + len) IN IF e < 0 /\ step < 0 THEN -1 ELSE e
    ELSE IF end > len THEN len ELSE end

\* Mutant: the default end of a backward slice is 0, so the first element is
\* never reached.
DefaultEndZero(step, len) == IF step > 0 THEN len ELSE 0

\* The end bound of a slice without one: -len - 1 normalizes to -1, the
\* position before the first element.
DefaultEnd(step, len) == IF step > 0 THEN len ELSE -len - 1

DefaultStart(step, len) == IF step > 0 THEN 0 ELSE len - 1

\* The step, 1 when the selector has none.
StepOf(a) == IF a.HasStep THEN a.Step ELSE 1

ResolveSliceBounds(a, len) ==
    LET step  == StepOf(a)
        start == IF a.HasStart THEN a.Start ELSE DefaultStart(step, len)
        end   == IF a.HasEnd THEN a.End ELSE DefaultEnd(step, len)
    IN  IF len = 0 \/ step = 0
        THEN [ok |-> FALSE, b |-> NoBounds]
        ELSE [ok |-> TRUE,
              b  |-> [Start |-> NormalizeSliceStart(start, step, len),
                      End   |-> NormalizeSliceEnd(end, step, len),
                      Step  |-> step]]

\* Mutant: the division rounds down.
CountFloor(b) ==
    IF b.Step > 0
    THEN IF b.End <= b.Start THEN 0
         ELSE Int64(b.End - b.Start) \div b.Step
    ELSE IF b.Start <= b.End THEN 0
         ELSE Int64(b.Start - b.End) \div (-b.Step)

\* How many indexes the loop will visit: the capacity the caller reserves.
Count(b) ==
    IF b.Step > 0
    THEN IF b.End <= b.Start THEN 0
         ELSE Int64(b.End - b.Start + b.Step - 1) \div b.Step
    ELSE IF b.Start <= b.End THEN 0
         ELSE Int64(b.Start - b.End - b.Step - 1) \div (-b.Step)

\* The loop condition of ForEachSliceIndex.
InSlice(b, k) == IF b.Step > 0 THEN k < b.End ELSE k > b.End

-----------------------------------------------------------------------------
\* RFC 9535, 2.3.4.2.2, as a set: the indexes a slice selects.
RFCNormalize(k, len) == IF k >= 0 THEN k ELSE len + k

RFCClamp(lo, hi, k) == IF k < lo THEN lo ELSE IF k > hi THEN hi ELSE k

RFCStart(a, len) ==
    IF a.HasStart THEN a.Start ELSE IF StepOf(a) >= 0 THEN 0 ELSE len - 1

RFCEnd(a, len) ==
    IF a.HasEnd THEN a.End ELSE IF StepOf(a) >= 0 THEN len ELSE -len - 1

RFCSlice(a, len) ==
    LET step == StepOf(a)
        ns   == RFCNormalize(RFCStart(a, len), len)
        ne   == RFCNormalize(RFCEnd(a, len), len)
    IN  IF step = 0 THEN {}
        ELSE IF step > 0
        THEN LET lower == RFCClamp(0, len, ns)
                 upper == RFCClamp(0, len, ne)
             IN  {k \in 0 .. len - 1 : lower <= k /\ k < upper /\ (k - lower) % step = 0}
        ELSE LET upper == RFCClamp(-1, len - 1, ns)
                 lower == RFCClamp(-1, len - 1, ne)
             IN  {k \in 0 .. len - 1 : lower < k /\ k <= upper /\ (upper - k) % (-step) = 0}

RFCIndex(k, len) == {j \in 0 .. len - 1 : j = RFCNormalize(k, len)}
=============================================================================
