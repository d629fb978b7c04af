-------------------------- MODULE MCNumberComparison --------------------------
(***************************************************************************)
(* Four-bit integers, floats with a three-bit significand, and decimals    *)
(* around the powers of ten, several lexemes of each value among them.     *)
(***************************************************************************)
EXTENDS NumberComparison

Signed   == {[kind |-> "signed", v |-> k] : k \in {-8, -3, -1, 0, 1, 7}}
Unsigned == {[kind |-> "unsigned", v |-> k] : k \in {0, 1, 7, 13, 15}}

Floats ==
    {[kind |-> "float", neg |-> s, m |-> 0, e |-> 0] : s \in BOOLEAN}
    \cup [kind : {"float"}, neg : BOOLEAN, m : 2^(Precision - 1) .. 2^Precision - 1, e : -5 .. 4]

Decimals ==
    [kind : {"decimal"}, neg : BOOLEAN, digits : {0, 1, 7, 9, 10, 12, 70, 96, 99, 100}, frac : {0, 1},
     exp : {-1, 0, 1}]

MCNumbers == Signed \cup Unsigned \cup Floats \cup Decimals
=============================================================================
