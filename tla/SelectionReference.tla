-------------------------- MODULE SelectionReference --------------------------
(***************************************************************************)
(* What a query selects, stated the way RFC 9535 does: a query denotes a   *)
(* list of locations of one document.  There is no stack and no node is    *)
(* carried around; a location is a sequence of steps from the root and its *)
(* value is looked up when it is needed.                                   *)
(***************************************************************************)
EXTENDS BuiltinFunctions, ArrayBounds

\* The steps from a value to its children.
StepsOf(v) ==
    CASE v.t = "arr" -> [k \in 1 .. Len(v.e) |-> IndexStep(k - 1)]
      [] v.t = "obj" -> LET names == SetToSortSeq(DOMAIN v.m, LAMBDA a, b : a < b)
                        IN  [k \in DOMAIN names |-> NameStep(names[k])]
      [] OTHER -> <<>>

Kids(doc, p) ==
    LET steps == StepsOf(At(doc, p)) IN [k \in DOMAIN steps |-> Append(p, steps[k])]

RECURSIVE RefDescendants(_, _)
RefDescendants(doc, p) ==
    <<p>> \o FlattenSeq([k \in DOMAIN Kids(doc, p) |-> RefDescendants(doc, Kids(doc, p)[k])])

\* A value without the representation of its numbers.
RECURSIVE Canonical(_)
Canonical(v) ==
    CASE v.t = "num" -> [t |-> "num", n |-> v.n]
      [] v.t = "jsonNull" -> Null
      [] v.t = "arr" -> Arr([k \in DOMAIN v.e |-> Canonical(v.e[k])])
      [] v.t = "obj" -> Obj([k \in DOMAIN v.m |-> Canonical(v.m[k])])
      [] OTHER -> v

RefEqual(a, b) ==
    \/ a.kind = "Nothing" /\ b.kind = "Nothing"
    \/ a.kind = "JSON" /\ b.kind = "JSON" /\ Canonical(a.value) = Canonical(b.value)

\* Only numbers and strings have an order.
RefLess(a, b) ==
    /\ a.kind = "JSON" /\ b.kind = "JSON" /\ a.value.t = b.value.t
    /\ \/ a.value.t = "num" /\ a.value.n < b.value.n
       \/ a.value.t = "str" /\ a.value.s < b.value.s

\* Numbers, strings, booleans and nulls satisfy <= and >= through equality.
RefLessEqual(a, b) ==
    \/ RefLess(a, b)
    \/ RefEqual(a, b) /\ a.kind = "JSON" /\ a.value.t \in {"num", "str", "bool", "null"}

RefCompare(op, a, b) ==
    CASE op = "==" -> RefEqual(a, b)
      [] op = "!=" -> ~RefEqual(a, b)
      [] op = "<"  -> RefLess(a, b)
      [] op = ">"  -> RefLess(b, a)
      [] op = "<=" -> RefLessEqual(a, b)
      [] op = ">=" -> RefLessEqual(b, a)

-----------------------------------------------------------------------------
RECURSIVE RefQuery(_, _, _)
RECURSIVE RefTrue(_, _, _)
RECURSIVE RefCall(_, _, _)

\* The value of a query used as one: its only node, or Nothing.
RefSingle(q, doc, p) ==
    LET nodes == RefQuery(q, doc, p)
    IN  IF Len(nodes) = 1 THEN JSON(At(doc, nodes[1])) ELSE Nothing

RefArgument(arg, doc, p) ==
    CASE arg.source = "literal" -> JSON(arg.literal)
      [] arg.source = "function" -> RefCall(arg.function, doc, p)
      [] arg.source = "logical" -> Logical(RefTrue(arg.logical, doc, p))
      [] arg.source = "query" /\ arg.kind = "Value" -> RefSingle(arg.query, doc, p)
      [] arg.source = "query" /\ arg.kind = "Nodes" ->
            LET nodes == RefQuery(arg.query, doc, p)
            IN  Nodes([k \in DOMAIN nodes |-> At(doc, nodes[k])])

RefCall(f, doc, p) ==
    CallFunction(f.name, [k \in DOMAIN f.args |-> RefArgument(f.args[k], doc, p)])

RefOperand(cv, doc, p) ==
    CASE cv.kind = "literal" -> JSON(cv.val)
      [] cv.kind = "query" -> RefSingle(cv.query, doc, p)
      [] cv.kind = "func" -> RefCall(cv.func, doc, p)

RefFunctionTest(f, doc, p) ==
    LET r == RefCall(f, doc, p) IN IF r.kind = "Nodes" THEN r.nodes # <<>> ELSE r.logical

RefTest(e, doc, p) ==
    CASE e.kind = "exist"    -> RefQuery(e.query, doc, p) # <<>>
      [] e.kind = "nonexist" -> RefQuery(e.query, doc, p) = <<>>
      [] e.kind = "paren"    -> RefTrue(e.expr, doc, p)
      [] e.kind = "notparen" -> ~RefTrue(e.expr, doc, p)
      [] e.kind = "func"     -> RefFunctionTest(e.func, doc, p)
      [] e.kind = "negfunc"  -> ~RefFunctionTest(e.func, doc, p)
      [] e.kind = "comp"     -> RefCompare(e.op, RefOperand(e.left, doc, p), RefOperand(e.right, doc, p))

\* The filter holds for the node at p.
RefTrue(or, doc, p) ==
    \E i \in DOMAIN or : \A j \in DOMAIN or[i] : RefTest(or[i][j], doc, p)

\* The children of p that the selector selects, in its order.
RefSelector(sel, doc, p) ==
    LET kids    == Kids(doc, p)
        indexes == {c \in ToSet(kids) : "index" \in DOMAIN Last(c)}
        WithIndex(S)  == SelectSeq(kids, LAMBDA c : c \in indexes /\ Last(c).index \in S)
    IN  CASE sel.kind = "Name" -> SelectSeq(kids, LAMBDA c : Last(c) = NameStep(sel.name))
          [] sel.kind = "Index" -> WithIndex(RFCIndex(sel.index, Len(kids)))
          [] sel.kind = "Slice" ->
                LET chosen == WithIndex(RFCSlice(sel.slice, Len(kids)))
                IN  IF StepOf(sel.slice) < 0 THEN Reverse(chosen) ELSE chosen
          [] sel.kind = "Wildcard" -> kids
          [] sel.kind = "Filter" -> SelectSeq(kids, LAMBDA c : RefTrue(sel.filter, doc, c))

\* The locations a segment selects from the locations ps.
RefSegment(sg, doc, ps) ==
    LET starts == IF sg.descendant
                  THEN FlattenSeq([k \in DOMAIN ps |-> RefDescendants(doc, ps[k])])
                  ELSE ps
    IN  FlattenSeq([k \in DOMAIN starts |->
            FlattenSeq([j \in DOMAIN sg.selectors |-> RefSelector(sg.selectors[j], doc, starts[k])])])

\* The locations a query selects; p is the current node.
RefQuery(q, doc, p) ==
    FoldLeft(LAMBDA ps, sg : RefSegment(sg, doc, ps), <<IF q.root THEN <<>> ELSE p>>, q.segments)
=============================================================================
