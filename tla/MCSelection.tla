----------------------------- MODULE MCSelection -----------------------------
(***************************************************************************)
(* Documents with nested arrays and objects, null members and numbers of   *)
(* several representations; queries of up to two segments over every kind  *)
(* of selector and filters over every kind of expression.  Member names    *)
(* and strings are 1, 2 and 3.                                             *)
(***************************************************************************)
EXTENDS Selection

Leaf == Num(1, "decimal")

MCInputs ==
    {Null,
     Arr(<<>>),
     Arr(<<Num(1, "signed"), Arr(<<Num(2, "float"), Leaf>>), Obj(1 :> Leaf @@ 2 :> Null)>>),
     Obj(2 :> Arr(<<Leaf, Null, Str(1)>>) @@ 1 :> Obj(2 :> Num(2, "decimal") @@ 1 :> Str(2))),
     Obj(1 :> Arr(<<Obj(1 :> Num(1, "float")), Obj(2 :> Arr(<<Leaf>>)), Obj(1 :> Str(1) @@ 2 :> Str(1))>>)
         @@ 3 :> Arr(<<Leaf>>))}

RECURSIVE Nesting(_)
Nesting(v) == Max({0} \cup {Nesting(c) + 1 : c \in Range(ValuesOf(ForEachChild(v)))})

RECURSIVE Closed(_)
Closed(S) ==
    LET children == UNION {Range(ValuesOf(ForEachChild(v))) : v \in S}
    IN  IF children \subseteq S THEN S ELSE Closed(S \cup children)

MCRuneCount == 1 :> 1 @@ 2 :> 2 @@ 3 :> 0

\* Pattern 1 matches string 1 and is found in string 2; pattern 3 is invalid.
MCMatches == {<<TRUE, 1, 1>>, <<FALSE, 1, 1>>, <<FALSE, 1, 2>>}

\* The inputs with all they contain, the literals and the results of functions.
MCValues ==
    Closed(MCInputs \cup {Leaf, JSONNull, Num(3, "decimal"), Str(1), Str(3)}
                    \cup {Num(n, "signed") : n \in 0 .. MaxLen})

MCDepth == [v \in MCValues |-> Nesting(v)]

-----------------------------------------------------------------------------
Name(n)   == [kind |-> "Name", name |-> n]
Index(i)  == [kind |-> "Index", index |-> i]
Wildcard  == [kind |-> "Wildcard"]
Filter(f) == [kind |-> "Filter", filter |-> f]
Slice(hs, s, he, e, hp, p) ==
    [kind |-> "Slice",
     slice |-> [HasStart |-> hs, Start |-> s, HasEnd |-> he, End |-> e, HasStep |-> hp, Step |-> p]]

Child(sels)      == [descendant |-> FALSE, selectors |-> sels]
Descendant(sels) == [descendant |-> TRUE, selectors |-> sels]
Root(segs)       == [root |-> TRUE, segments |-> segs]

MCSelectors ==
    {Name(1), Name(2), Index(0), Index(-1), Index(2), Wildcard,
     Slice(FALSE, 0, FALSE, 0, FALSE, 0),   \* [:]
     Slice(TRUE, 1, FALSE, 0, FALSE, 0),    \* [1:]
     Slice(FALSE, 0, TRUE, -1, TRUE, 2),    \* [:-1:2]
     Slice(FALSE, 0, FALSE, 0, TRUE, -1),   \* [::-1]
     Slice(TRUE, 2, TRUE, -3, TRUE, -2),    \* [2:-3:-2]
     Slice(FALSE, 0, FALSE, 0, TRUE, 0)}    \* [::0]

\* First and later segments.
MCSegments ==
    {Child(<<s>>) : s \in MCSelectors}
    \cup {Descendant(<<s>>) : s \in {Name(2), Index(-1), Wildcard, Slice(FALSE, 0, FALSE, 0, TRUE, -1)}}
    \cup {Child(<<Index(-1), Wildcard>>), Child(<<Name(2), Name(1), Slice(TRUE, 1, FALSE, 0, FALSE, 0)>>),
          Descendant(<<Wildcard, Index(0)>>)}

Test(e)         == Filter(<<<<e>>>>)
Current(segs)   == [root |-> FALSE, segments |-> segs]
CurrentName(n)  == Current(<<Child(<<Name(n)>>)>>)
Lit(v)          == [kind |-> "literal", val |-> v]
Q(q)            == [kind |-> "query", query |-> q]
F(f)            == [kind |-> "func", func |-> f]
Cmp(l, op, r)   == [kind |-> "comp", left |-> l, op |-> op, right |-> r]
Exist(q)        == [kind |-> "exist", query |-> q]
Nodes1(n, q)    == [name |-> n, args |-> <<[kind |-> "Nodes", source |-> "query", query |-> q]>>]
Length(q)       == [name |-> "length", args |-> <<[kind |-> "Value", source |-> "query", query |-> q]>>]
Regexp(n, q, p) ==
    [name |-> n, args |-> <<[kind |-> "Value", source |-> "query", query |-> q],
                            [kind |-> "Value", source |-> "literal", literal |-> Str(p)]>>]

Kids1 == Current(<<Child(<<Wildcard>>)>>)

MCExprs ==
    {Exist(Current(<<>>)), Exist(CurrentName(1)),
     [kind |-> "nonexist", query |-> Current(<<Descendant(<<Name(2)>>)>>)],
     Exist(Current(<<Child(<<Test(Cmp(Q(Current(<<>>)), "==", Lit(Leaf)))>>)>>)),
     Cmp(Q(Current(<<>>)), ">=", Lit(Num(1, "decimal"))),
     Cmp(Q(CurrentName(1)), "==", Q(CurrentName(2))),
     Cmp(Q(CurrentName(2)), "==", Lit(JSONNull)),
     Cmp(Q(Current(<<>>)), "<=", Q(Root(<<Child(<<Index(-2)>>), Child(<<Index(0)>>)>>))),
     Cmp(Q(Current(<<>>)), "!=", Q(Root(<<Child(<<Name(3)>>)>>))),
     Cmp(F(Length(Current(<<>>))), ">", Lit(Leaf)),
     Cmp(F(Nodes1("count", Kids1)), "<", Lit(Num(3, "decimal"))),
     Cmp(F(Nodes1("value", Kids1)), "==", Lit(Leaf)),
     Cmp(F([name |-> "length",
            args |-> <<[kind |-> "Value", source |-> "function", function |-> Nodes1("value", Kids1)]>>]),
         "<=", Lit(Leaf)),
     [kind |-> "func", func |-> Nodes1("nodes", Kids1)],
     [kind |-> "func", func |-> Regexp("match", CurrentName(1), 1)],
     [kind |-> "negfunc", func |-> Regexp("search", Current(<<>>), 1)],
     [kind |-> "negfunc", func |-> Regexp("match", Current(<<>>), 3)],
     [kind |-> "notparen", expr |-> <<<<Exist(CurrentName(1))>>, <<Exist(CurrentName(2))>>>>],
     [kind |-> "paren", expr |-> <<<<Exist(CurrentName(1)), Exist(CurrentName(2))>>>>]}

\* The filters, values and documents for which Eval holds, enumerated once.
MCHolding ==
    UNION {{<<f, v, root>> : v \in {w \in MCValues : Eval(f, w, root)}} :
              f \in {<<<<e>>>> : e \in MCExprs}, root \in MCInputs}

MCFilterHolds(filter, value, root) == <<filter, value, root>> \in MCHolding

MCTestSegments ==
    {Child(<<Test(e)>>) : e \in MCExprs} \cup {Descendant(<<Test(e)>>) : e \in MCExprs}
    \cup {Child(<<Test(Exist(CurrentName(1))), Wildcard>>)}

MCQueries ==
    {NoQuery, Root(<<>>)}
    \cup {Root(<<s>>) : s \in MCSegments \cup MCTestSegments}
    \cup {Root(<<s1, s2>>) : s1 \in MCSegments, s2 \in MCSegments}
    \cup {Root(<<Child(<<Wildcard>>), s2>>) : s2 \in MCTestSegments}
=============================================================================
