------------------------------ MODULE JSONValues ------------------------------
(***************************************************************************)
(* Decoded JSON values and their children, internal/ast/child.go.  A value *)
(* is a record tagged with the Go type a type switch would find.  Strings  *)
(* and member names are naturals whose order is Go's string order.  A      *)
(* number keeps the Go representation it came in (signed, unsigned, float  *)
(* or the decimal lexeme of jsontext.Value) beside its numeric value.      *)
(***************************************************************************)
EXTENDS Integers, Sequences, SequencesExt

CONSTANTS
    Values,   \* the values there are
    Depth     \* Depth[v]: how deep arrays and objects nest in v

Null      == [t |-> "null"]
JSONNull  == [t |-> "jsonNull"]   \* the sentinel of a null literal
NotNumber == [t |-> "nan"]        \* NaN, an infinity, invalid number text
Bool(b)     == [t |-> "bool", b |-> b]
Num(n, rep) == [t |-> "num", n |-> n, rep |-> rep]
Str(s)      == [t |-> "str", s |-> s]
Arr(e)      == [t |-> "arr", e |-> e]
Obj(m)      == [t |-> "obj", m |-> m]

Scalars ==
    {Null, JSONNull, NotNumber}
    \cup [t : {"bool"}, b : BOOLEAN]
    \cup [t : {"num"}, n : Int, rep : {"signed", "unsigned", "float", "decimal"}]
    \cup [t : {"str"}, s : Nat]

\* A decoded document is a finite tree: the elements of an array and the
\* members of an object are values and do not contain it.
ASSUME ValuesAssumption ==
    /\ Depth \in [Values -> Nat]
    /\ \A v \in Values :
        \/ v \in Scalars
        \/ /\ v \in [t : {"arr"}, e : Seq(Values)]
           /\ \A k \in DOMAIN v.e : Depth[v.e[k]] < Depth[v]
        \/ /\ v \in [t : {"obj"}, m : [DOMAIN v.m -> Values]]
           /\ DOMAIN v.m \subseteq Nat /\ IsFiniteSet(DOMAIN v.m)
           /\ \A k \in DOMAIN v.m : Depth[v.m[k]] < Depth[v]

IndexStep(i) == [index |-> i]
NameStep(n)  == [name |-> n]

\* Mutant: the names are sorted in descending order.
sortedChildNamesDescending(m) ==
    CHOOSE names \in [1 .. Cardinality(DOMAIN m) -> DOMAIN m] :
        \A j, k \in DOMAIN names : j < k => names[j] > names[k]

\* slices.Sorted(maps.Keys(node))
sortedChildNames(m) ==
    CHOOSE names \in [1 .. Cardinality(DOMAIN m) -> DOMAIN m] :
        \A j, k \in DOMAIN names : j < k => names[j] < names[k]

ChildCount(node) ==
    CASE node.t = "obj" -> Cardinality(DOMAIN node.m)
      [] node.t = "arr" -> Len(node.e)
      [] OTHER -> 0

\* The children ForEachChild yields, in its order; step is what
\* childPathElement makes of a ChildNode.
ForEachChild(node) ==
    CASE node.t = "obj" ->
            LET names == sortedChildNames(node.m)
            IN  [k \in 1 .. Len(names) |->
                    [step |-> NameStep(names[k]), value |-> node.m[names[k]]]]
      [] node.t = "arr" ->
            [k \in 1 .. Len(node.e) |-> [step |-> IndexStep(k - 1), value |-> node.e[k]]]
      [] OTHER -> <<>>

\* The order in which children are pushed on a stack.
ForEachChildReverse(node) == Reverse(ForEachChild(node))

\* The values of a sequence of children or located nodes.
ValuesOf(nodes) == [k \in DOMAIN nodes |-> nodes[k].value]

\* The child of v that a step leads to, and the value at the end of a path.
ChildAt(v, step) == IF "index" \in DOMAIN step THEN v.e[step.index + 1] ELSE v.m[step.name]

At(doc, path) ==
    LET at[k \in 0 .. Len(path)] == IF k = 0 THEN doc ELSE ChildAt(at[k - 1], path[k])
    IN  at[Len(path)]
=============================================================================
