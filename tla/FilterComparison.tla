--------------------------- MODULE FilterComparison ---------------------------
(***************************************************************************)
(* The laws of filter comparison.  A pair of operands of CompExpr.Eval is  *)
(* chosen and every operator is applied to it; verdict is what they said.  *)
(***************************************************************************)
EXTENDS RuntimeValues

CONSTANT Operands   \* runtime values

\* jsonRuntimeValue has replaced the sentinel of a null literal.
ASSUME OperandsAssumption ==
    \A a \in Operands :
        \/ a = Nothing
        \/ a \in [kind : {"Logical"}, logical : BOOLEAN]
        \/ a \in [kind : {"Nodes"}, nodes : Seq(Values)]
        \/ a \in [kind : {"JSON"}, value : Values \ {JSONNull}]

VARIABLES left, right, verdict

vars == <<left, right, verdict>>

Init ==
    /\ left \in Operands
    /\ right \in Operands
    /\ verdict = <<>>

\* CompExpr.Eval, once per operator, on the values of the two operands.
Eval ==
    /\ verdict = <<>>
    /\ verdict' = [op \in CompOps |-> Compare(op, left, right)]
    /\ UNCHANGED <<left, right>>

Next == Eval

Spec == Init /\ [][Next]_vars

-----------------------------------------------------------------------------
Complete == DOMAIN verdict = CompOps

\* Of two numbers or two strings exactly one of <, == and > holds, and <= and >=
\* are < or == and > or ==; two booleans or two nulls are <= and >= exactly
\* when they are ==; no ordering holds of anything else.
OrderedTypesTotal ==
    Complete =>
        LET t1 == IF left.kind = "JSON" THEN left.value.t ELSE left.kind
            t2 == IF right.kind = "JSON" THEN right.value.t ELSE right.kind
            both(types) == t1 = t2 /\ t1 \in types
        IN  /\ both({"num", "str"}) =>
                  /\ \E op \in {"<", "==", ">"} : {o \in {"<", "==", ">"} : verdict[o]} = {op}
                  /\ verdict["<="] = ~verdict[">"] /\ verdict[">="] = ~verdict["<"]
            /\ both({"bool", "null"}) =>
                  verdict["<="] = verdict["=="] /\ verdict[">="] = verdict["=="]
            /\ ~both({"num", "str", "bool", "null"}) =>
                  \A op \in {"<", "<=", ">", ">="} : ~verdict[op]

\* Equality is a congruence of every operator: when two operands are ==, no
\* comparison with a third value tells them apart.  Numbers of different Go
\* representation are such operands, and so are nil and the null literal.
EqualityIsCongruence ==
    (Complete /\ verdict["=="]) =>
        \A c \in Operands, op \in CompOps :
            /\ Compare(op, left, c) = Compare(op, right, c)
            /\ Compare(op, c, left) = Compare(op, c, right)

\* < and <= are transitive, and > is < with the operands exchanged.
OrderIsTransitive ==
    Complete =>
        /\ \A op \in {"<", "<=", "=="}, c \in Operands :
              verdict[op] /\ Compare(op, right, c) => Compare(op, left, c)
        /\ verdict[">"] = Compare("<", right, left)
        /\ verdict[">="] = Compare("<=", right, left)

\* RFC 9535, 2.3.5.2.2: a <= b holds if and only if a < b or a == b holds.
LessEqualFollowsRFC ==
    Complete => (verdict["<="] = (verdict["<"] \/ verdict["=="]))
=============================================================================
