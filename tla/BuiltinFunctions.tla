--------------------------- MODULE BuiltinFunctions ---------------------------
(***************************************************************************)
(* The function extensions of RFC 9535, internal/functions/builtins.go, on *)
(* evaluated arguments.  The parser has checked their number and kinds.    *)
(* Regular expressions are a relation: how a pattern is compiled and       *)
(* cached is the subject of RegexpCache.                                   *)
(***************************************************************************)
EXTENDS RuntimeValues

CONSTANTS
    RuneCount,   \* RuneCount[s]: the number of runes of the string s
    Matches      \* <<anchored, pattern, string>>: what the regexps accept

\* The built-in functions, on evaluated arguments, and nodes(), an extension
\* that returns its node list.
IsString(v) == v.kind = "JSON" /\ v.value.t = "str"

callRegexp(args, anchored) ==
    /\ IsString(args[1]) /\ IsString(args[2])
    /\ <<anchored, args[2].value.s, args[1].value.s>> \in Matches

LengthFunc(v) ==
    IF v.kind # "JSON" THEN Nothing
    ELSE CASE v.value.t = "str" -> JSON(Num(RuneCount[v.value.s], "signed"))
           [] v.value.t = "arr" -> JSON(Num(Len(v.value.e), "signed"))
           [] v.value.t = "obj" -> JSON(Num(Cardinality(DOMAIN v.value.m), "signed"))
           [] OTHER -> Nothing

CallFunction(name, args) ==
    CASE name = "length" -> LengthFunc(args[1])
      [] name = "count"  -> JSON(Num(Len(args[1].nodes), "signed"))
      [] name = "value"  -> IF Len(args[1].nodes) = 1 THEN JSON(args[1].nodes[1]) ELSE Nothing
      [] name = "match"  -> Logical(callRegexp(args, TRUE))
      [] name = "search" -> Logical(callRegexp(args, FALSE))
      [] name = "nodes"  -> args[1]

ResultType(name) ==
    CASE name \in {"length", "count", "value"} -> "Value"
      [] name \in {"match", "search"} -> "Logical"
      [] name = "nodes" -> "Nodes"
=============================================================================
