--------------------------- MODULE FilterEvaluation ---------------------------
(***************************************************************************)
(* The evaluation of filter expressions, internal/ast/filter.go and        *)
(* function.go, with the selections their queries make.  These are         *)
(* sequential, side-effect free Go functions that call each other, so they *)
(* are operators here; a filter is a LogicalOr, a sequence of sequences of *)
(* basic expressions, and those are records shaped like the AST.           *)
(***************************************************************************)
EXTENDS BuiltinFunctions, Selectors

RECURSIVE Select(_, _, _)
RECURSIVE Eval(_, _, _)
RECURSIVE Call(_, _, _)
RECURSIVE Descend(_, _, _)

\* functionArgument.evaluate: arg is [kind, source, ...].
EvaluateArgument(arg, current, root) ==
    CASE arg.source = "literal" -> JSON(arg.literal)
      [] arg.source = "query" ->
            LET nodes == Select(arg.query, current, root)
            IN  IF arg.kind = "Nodes" THEN Nodes(nodes)
                ELSE IF Len(nodes) = 1 THEN JSON(nodes[1]) ELSE Nothing
      [] arg.source = "logical" -> Logical(Eval(arg.logical, current, root))
      [] arg.source = "function" -> Call(arg.function, current, root)

\* FuncExpr.Call
Call(f, current, root) ==
    CallFunction(f.name,
        [k \in DOMAIN f.args |-> EvaluateArgument(f.args[k], current, root)])

\* FuncExpr.Eval: a function as a test.
FuncEval(f, current, root) ==
    LET result == Call(f, current, root)
    IN  CASE ResultType(f.name) = "Logical" -> result.kind = "Logical" /\ result.logical
          [] ResultType(f.name) = "Nodes" -> result.kind = "Nodes" /\ Len(result.nodes) > 0
          [] OTHER -> FALSE

\* CompValue.Value: a literal, a singular query or a value function.
CompValue(cv, current, root) ==
    CASE cv.kind = "literal" -> JSON(cv.val)
      [] cv.kind = "query" ->
            LET nodes == Select(cv.query, current, root)
            IN  IF Len(nodes) # 1 THEN Nothing ELSE JSON(nodes[1])
      [] cv.kind = "func" -> Call(cv.func, current, root)

queryExists(q, current, root) ==
    \/ Len(q.segments) = 0
    \/ Len(Select(q, current, root)) > 0

\* BasicExpr.Eval of each kind of basic expression.
BasicEval(e, current, root) ==
    CASE e.kind = "exist"    -> queryExists(e.query, current, root)
      [] e.kind = "nonexist" -> ~queryExists(e.query, current, root)
      [] e.kind = "paren"    -> Eval(e.expr, current, root)
      [] e.kind = "notparen" -> ~Eval(e.expr, current, root)
      [] e.kind = "func"     -> FuncEval(e.func, current, root)
      [] e.kind = "negfunc"  -> ~FuncEval(e.func, current, root)
      [] e.kind = "comp"     -> Compare(e.op, CompValue(e.left, current, root),
                                              CompValue(e.right, current, root))

\* LogicalOr.Eval over LogicalAnd.Eval.
Eval(or, current, root) ==
    \E i \in DOMAIN or : \A j \in DOMAIN or[i] : BasicEval(or[i][j], current, root)

\* The values of a node's children for which the filter of a selector holds.
PassingAt(sel, node, root) ==
    {v \in Range(ValuesOf(ForEachChild(node))) : Eval(sel.filter, v, root)}

appendSelectors(selectors, node, root) ==
    FlattenSeq([k \in DOMAIN selectors |->
                    Apply(selectors[k], node, PassingAt(selectors[k], node, root))])

\* The loop of appendDescendant.
Descend(stack, selectors, root) ==
    IF stack = <<>> THEN <<>>
    ELSE LET current == Last(stack)
         IN  appendSelectors(selectors, current, root)
             \o Descend(Front(stack) \o ValuesOf(ForEachChildReverse(current)), selectors, root)

\* Segment.Apply
ApplySegment(seg, nodes, root) ==
    FlattenSeq([k \in DOMAIN nodes |->
        IF seg.descendant
        THEN Descend(<<nodes[k]>>, seg.selectors, root)
        ELSE appendSelectors(seg.selectors, nodes[k], root)])

\* PathQuery.Select
Select(q, current, root) ==
    FoldLeft(LAMBDA nodes, seg : ApplySegment(seg, nodes, root),
             <<IF q.root THEN root ELSE current>>, q.segments)
=============================================================================
