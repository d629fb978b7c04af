----------------------------- MODULE RuntimeValues -----------------------------
(***************************************************************************)
(* The values a filter comparison works on, internal/ast/runtime_value.go, *)
(* and the comparison helpers of internal/ast/filter.go.  A runtime value  *)
(* is Nothing, a JSON value, a logical or a node list; the public typed    *)
(* values of function.go carry the same four cases, so the conversions     *)
(* between the two are the identity here.  compareJSONNumbers is taken as  *)
(* exact: it is the subject of NumberComparison.                           *)
(***************************************************************************)
EXTENDS JSONValues

Nothing    == [kind |-> "Nothing"]
Logical(b) == [kind |-> "Logical", logical |-> b]
Nodes(s)   == [kind |-> "Nodes", nodes |-> s]

\* jsonRuntimeValue turns the null literal's sentinel into nil.
JSON(v) == [kind |-> "JSON", value |-> IF v.t = "jsonNull" THEN Null ELSE v]

normalizeJSONNull(v) == IF v.t = "jsonNull" THEN Null ELSE v

\* parseJSONNumber succeeds, and v has a Go number type.
isNumeric(v) == v.t = "num"
isNumberType(v) == v.t \in {"num", "nan"}

\* Mutant: null is the only value without an order that compares with itself.
sameTypeNoBool(a, b) ==
    /\ a.kind = "JSON" /\ b.kind = "JSON"
    /\ \/ a.value.t = "null" /\ b.value.t = "null"
       \/ isNumeric(a.value) /\ isNumeric(b.value)
       \/ a.value.t = "str" /\ b.value.t = "str"

\* Mutant: numbers are ordered only when their Go types agree.
sameTypeByRep(a, b) ==
    /\ a.kind = "JSON" /\ b.kind = "JSON"
    /\ \/ a.value.t = "null" /\ b.value.t = "null"
       \/ isNumeric(a.value) /\ isNumeric(b.value) /\ a.value.rep = b.value.rep
       \/ a.value.t = b.value.t /\ a.value.t \in {"str", "bool"}

\* May the two be ordered?
sameType(a, b) ==
    /\ a.kind = "JSON" /\ b.kind = "JSON"
    /\ \/ a.value.t = "null" /\ b.value.t = "null"
       \/ isNumeric(a.value) /\ isNumeric(b.value)
       \/ a.value.t = b.value.t /\ a.value.t \in {"str", "bool"}

jsonEqual[p \in Values \X Values] ==
    LET a == normalizeJSONNull(p[1])
        b == normalizeJSONNull(p[2])
    IN  CASE isNumberType(a) \/ isNumberType(b) ->
                isNumeric(a) /\ isNumeric(b) /\ a.n = b.n
          [] a.t = "arr" /\ b.t = "arr" ->
                /\ Len(a.e) = Len(b.e)
                /\ \A k \in 1 .. Len(a.e) : jsonEqual[<<a.e[k], b.e[k]>>]
          [] a.t = "obj" /\ b.t = "obj" ->
                /\ DOMAIN a.m = DOMAIN b.m
                /\ \A k \in DOMAIN a.m : jsonEqual[<<a.m[k], b.m[k]>>]
          [] OTHER -> a = b

equalTo(a, b) ==
    IF a.kind = "Nothing" \/ b.kind = "Nothing"
    THEN a.kind = "Nothing" /\ b.kind = "Nothing"
    ELSE a.kind = "JSON" /\ b.kind = "JSON" /\ jsonEqual[<<a.value, b.value>>]

lessThan(a, b) ==
    /\ a.kind = "JSON" /\ b.kind = "JSON"
    /\ \/ isNumeric(a.value) /\ isNumeric(b.value) /\ a.value.n < b.value.n
       \/ a.value.t = "str" /\ b.value.t = "str" /\ a.value.s < b.value.s

CompOps == {"==", "!=", "<", "<=", ">", ">="}

\* Mutant: >= is computed as not <.
CompareNegated(op, left, right) ==
    CASE op = "==" -> equalTo(left, right)
      [] op = "!=" -> ~equalTo(left, right)
      [] op = "<"  -> sameType(left, right) /\ lessThan(left, right)
      [] op = "<=" -> sameType(left, right) /\ (lessThan(left, right) \/ equalTo(left, right))
      [] op = ">"  -> sameType(left, right) /\ lessThan(right, left)
      [] op = ">=" -> sameType(left, right) /\ ~lessThan(left, right)

\* The switch of CompExpr.Eval.
Compare(op, left, right) ==
    CASE op = "==" -> equalTo(left, right)
      [] op = "!=" -> ~equalTo(left, right)
      [] op = "<"  -> sameType(left, right) /\ lessThan(left, right)
      [] op = "<=" -> sameType(left, right) /\ (lessThan(left, right) \/ equalTo(left, right))
      [] op = ">"  -> sameType(left, right) /\ lessThan(right, left)
      [] op = ">=" -> sameType(left, right) /\ (lessThan(right, left) \/ equalTo(left, right))
=============================================================================
