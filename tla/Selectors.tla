------------------------------- MODULE Selectors -------------------------------
(***************************************************************************)
(* The selectors, internal/ast/selector.go.  A query, a segment and a      *)
(* selector are records shaped like the AST.                               *)
(*   query     [root, segments]                                            *)
(*   segment   [descendant, selectors]                                     *)
(*   selector  [kind |-> "Name", name], [kind |-> "Index", index],         *)
(*             [kind |-> "Slice", slice], [kind |-> "Wildcard"],           *)
(*             [kind |-> "Filter", filter]                                 *)
(***************************************************************************)
EXTENDS JSONValues, ArrayBounds, Singular

NoQuery == [query |-> "nil"]   \* the zero Path

\* Mutant: the estimate of an index or a name is forgotten.
OutputEstimateNoSingular(sel, node) ==
    IF sel.kind \in {"Wildcard", "Filter"} THEN ChildCount(node) ELSE 0

\* The indexes that ForEachSliceIndex visits, in its order.
SliceIndexes(args, len) ==
    LET r == ResolveSliceBounds(args, len)
        from[k \in Int64Range] ==
            IF InSlice(r.b, k) THEN <<k>> \o from[Int64(k + r.b.Step)] ELSE <<>>
    IN  IF r.ok /\ Count(r.b) # 0 THEN from[r.b.Start] ELSE <<>>

OutputEstimate(sel, node) ==
    CASE sel.kind \in {"Name", "Index"} -> 1
      [] sel.kind \in {"Wildcard", "Filter"} -> ChildCount(node)
      [] sel.kind = "Slice" ->
            IF node.t # "arr" THEN 0
            ELSE LET r == ResolveSliceBounds(sel.slice, Len(node.e))
                 IN  IF r.ok THEN Count(r.b) ELSE 0

\* The children that a filter keeps: those whose values pass it.
Passing(children, passing) ==
    LET kept[k \in 0 .. Len(children)] ==
            IF k = 0 THEN <<>>
            ELSE kept[k - 1] \o (IF children[k].value \in passing THEN <<children[k]>> ELSE <<>>)
    IN  kept[Len(children)]

\* Selector.Apply: what it appends for one node; a filter is known by the
\* values of the node's children that pass it.
Apply(sel, node, passing) ==
    CASE sel.kind = "Name" ->
            IF node.t = "obj" /\ sel.name \in DOMAIN node.m THEN <<node.m[sel.name]>> ELSE <<>>
      [] sel.kind = "Index" ->
            IF node.t # "arr" THEN <<>>
            ELSE LET n == NormalizeIndex(sel.index, Len(node.e))
                 IN  IF n.ok THEN <<node.e[n.idx + 1]>> ELSE <<>>
      [] sel.kind = "Slice" ->
            IF node.t # "arr" THEN <<>>
            ELSE LET ix == SliceIndexes(sel.slice, Len(node.e))
                 IN  [k \in DOMAIN ix |-> node.e[ix[k] + 1]]
      [] sel.kind = "Wildcard" -> ValuesOf(ForEachChild(node))
      [] sel.kind = "Filter" -> ValuesOf(Passing(ForEachChild(node), passing))
=============================================================================
