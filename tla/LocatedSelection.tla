--------------------------- MODULE LocatedSelection ---------------------------
(***************************************************************************)
(* Located selection, Path.SelectLocated of jsonpath.go, as the machine    *)
(* its loops are: one step per segment, per input node and per frame of a  *)
(* descendant stack.  It is the second of the two selection engines; the   *)
(* first, Path.Select, is the machine of PlainSelection.  What a filter    *)
(* holds for is a parameter here; FilterEvaluation is its code.            *)
(***************************************************************************)
EXTENDS Selectors

CONSTANTS
    FilterHolds(_, _, _),   \* FilterExpr.Eval: filter, current node, root
    Queries,                \* the queries of compiled paths, and NoQuery
    Inputs                  \* decoded JSON documents

WellFormedSelector(sel) ==
    CASE sel.kind = "Name"  -> sel.name \in Nat
      [] sel.kind = "Index" -> sel.index \in JSONInteger
      [] sel.kind = "Slice" -> sel.slice \in WellFormedArgs
      [] OTHER -> sel.kind \in {"Wildcard", "Filter"}

\* What the parser makes of a query starts at the root; an index or a member
\* of a slice is in the range parseJSONInteger accepts.
ASSUME QueriesAssumption ==
    \A q \in Queries \ {NoQuery} :
        /\ q.root
        /\ q.segments \in Seq(ToSet(q.segments))
        /\ \A s \in ToSet(q.segments) :
            /\ s.descendant \in BOOLEAN
            /\ s.selectors \in Seq(ToSet(s.selectors))
            /\ \A sel \in ToSet(s.selectors) : WellFormedSelector(sel)

\* The documents are values, and no array is longer than MaxLen.
ASSUME InputsAssumption ==
    /\ Inputs \subseteq Values
    /\ \A v \in Values : v.t = "arr" => Len(v.e) <= MaxLen

VARIABLES
    query, input,
    seg,       \* the segment being applied, 1-based
    res,       \* its input: located nodes [value, path]
    todo,      \* the node to process next, 1-based
    out,       \* its output so far
    reserved,  \* what make and slices.Grow have reserved for out
    stack,     \* frames [value, path] of appendDescendantLocated
    pc

vars == <<query, input, seg, res, todo, out, reserved, stack, pc>>

-----------------------------------------------------------------------------
\* Mutant: the path of the parent is kept.
ChildNodeUnextended(node, value, step) == [value |-> value, path |-> node.path]

\* A child of a located node; extendPath appends its step to a copy of the path.
ChildNode(node, value, step) == [value |-> value, path |-> Append(node.path, step)]

ChildNodes(node, children) ==
    [k \in DOMAIN children |-> ChildNode(node, children[k].value, children[k].step)]

\* The values of a node's children for which the filter of a selector holds.
PassingValues(sel, value) ==
    {v \in Range(ValuesOf(ForEachChild(value))) : FilterHolds(sel.filter, v, input)}

\* appendSelectorLocated and appendSliceLocated: what one selector appends.
appendSelectorLocated(sel, node) ==
    LET v == node.value
    IN  CASE sel.kind = "Name" ->
                IF v.t = "obj" /\ sel.name \in DOMAIN v.m
                THEN <<ChildNode(node, v.m[sel.name], NameStep(sel.name))>>
                ELSE <<>>
          [] sel.kind = "Index" ->
                IF v.t # "arr" THEN <<>>
                ELSE LET n == NormalizeIndex(sel.index, Len(v.e))
                     IN  IF n.ok THEN <<ChildNode(node, v.e[n.idx + 1], IndexStep(n.idx))>> ELSE <<>>
          [] sel.kind = "Slice" ->
                IF v.t # "arr" THEN <<>>
                ELSE LET ix == SliceIndexes(sel.slice, Len(v.e))
                     IN  [k \in DOMAIN ix |-> ChildNode(node, v.e[ix[k] + 1], IndexStep(ix[k]))]
          [] sel.kind = "Wildcard" -> ChildNodes(node, ForEachChild(v))
          [] sel.kind = "Filter" -> ChildNodes(node, Passing(ForEachChild(v), PassingValues(sel, v)))

appendSelectorsLocated(selectors, node) ==
    FlattenSeq([k \in DOMAIN selectors |-> appendSelectorLocated(selectors[k], node)])

estimateSelectorsOutput(selectors, value) ==
    LET n[k \in 0 .. Len(selectors)] ==
            IF k = 0 THEN 0 ELSE n[k - 1] + OutputEstimate(selectors[k], value)
    IN  n[Len(selectors)]

\* The growth applySegmentLocated asks for before it applies the selectors of
\* a child segment to a node: none for a single name or index.
Growth(selectors, value) ==
    IF Len(selectors) = 1 /\ selectors[1].kind \in {"Name", "Index"}
    THEN 0
    ELSE estimateSelectorsOutput(selectors, value)

\* slices.Grow(out, n) on a slice of length len and capacity cap.
Grow(cap, len, n) == IF len + n > cap THEN len + n ELSE cap

-----------------------------------------------------------------------------
Segments == query.segments
Segment  == Segments[seg]

Init ==
    /\ query \in Queries
    /\ input \in Inputs
    /\ seg = 1
    /\ res = IF query = NoQuery THEN <<>> ELSE <<[value |-> input, path |-> <<>>]>>
    /\ todo = 0
    /\ out = <<>>
    /\ reserved = 0
    /\ stack = <<>>
    /\ pc = IF query = NoQuery THEN "done" ELSE "segment"

\* Mutant: an empty intermediate result does not advance the loop.
SkipSegmentStuck ==
    /\ pc = "segment" /\ seg <= Len(Segments) /\ res = <<>>
    /\ seg' = seg
    /\ UNCHANGED <<query, input, res, todo, out, reserved, stack, pc>>

\* applySegmentLocated returns an empty input as it is.
SkipSegment ==
    /\ pc = "segment" /\ seg <= Len(Segments) /\ res = <<>>
    /\ seg' = seg + 1
    /\ UNCHANGED <<query, input, res, todo, out, reserved, stack, pc>>

\* applySegmentLocated makes out with capacity len(nodes).
StartSegment ==
    /\ pc = "segment" /\ seg <= Len(Segments) /\ res # <<>>
    /\ out' = <<>>
    /\ reserved' = Len(res)
    /\ todo' = 1
    /\ pc' = IF Segment.descendant THEN "descendant" ELSE "child"
    /\ UNCHANGED <<query, input, seg, res, stack>>

\* The selectors of a child segment are applied to the next node.
ApplyChild ==
    /\ pc = "child" /\ todo <= Len(res)
    /\ LET node == res[todo]
       IN  /\ out' = out \o appendSelectorsLocated(Segment.selectors, node)
           /\ reserved' = Grow(reserved, Len(out), Growth(Segment.selectors, node.value))
    /\ todo' = todo + 1
    /\ UNCHANGED <<query, input, seg, res, stack, pc>>

\* Mutant: the value is stacked without its path.
StartDescentUnlocated ==
    /\ pc = "descendant" /\ todo <= Len(res)
    /\ stack' = <<res[todo].value>>
    /\ pc' = "stack"
    /\ UNCHANGED <<query, input, seg, res, todo, out, reserved>>

\* appendDescendantLocated is called for the next node.
StartDescent ==
    /\ pc = "descendant" /\ todo <= Len(res)
    /\ stack' = <<res[todo]>>
    /\ pc' = "stack"
    /\ UNCHANGED <<query, input, seg, res, todo, out, reserved>>

\* Mutant: the children are pushed first to last.
PopFrameForward ==
    /\ pc = "stack" /\ stack # <<>>
    /\ LET frame == Last(stack)
       IN  /\ out' = out \o appendSelectorsLocated(Segment.selectors, frame)
           /\ stack' = Front(stack) \o ChildNodes(frame, ForEachChild(frame.value))
    /\ UNCHANGED <<query, input, seg, res, todo, reserved, pc>>

\* One turn of its loop.
PopFrame ==
    /\ pc = "stack" /\ stack # <<>>
    /\ LET frame == Last(stack)
       IN  /\ out' = out \o appendSelectorsLocated(Segment.selectors, frame)
           /\ stack' = Front(stack) \o ChildNodes(frame, ForEachChildReverse(frame.value))
    /\ UNCHANGED <<query, input, seg, res, todo, reserved, pc>>

EndDescent ==
    /\ pc = "stack" /\ stack = <<>>
    /\ todo' = todo + 1
    /\ pc' = "descendant"
    /\ UNCHANGED <<query, input, seg, res, out, reserved, stack>>

\* applySegmentLocated returns out, which replaces res.
EndSegment ==
    /\ pc \in {"child", "descendant"} /\ todo > Len(res)
    /\ res' = out
    /\ seg' = seg + 1
    /\ pc' = "segment"
    /\ UNCHANGED <<query, input, todo, out, reserved, stack>>

Return ==
    /\ pc = "segment" /\ seg > Len(Segments)
    /\ pc' = "done"
    /\ UNCHANGED <<query, input, seg, res, todo, out, reserved, stack>>

Next ==
    \/ SkipSegment \/ StartSegment \/ ApplyChild
    \/ StartDescent \/ PopFrame \/ EndDescent
    \/ EndSegment \/ Return

\* One goroutine runs the call without blocking.
Spec == Init /\ [][Next]_vars /\ WF_vars(Next)

-----------------------------------------------------------------------------
Steps  == [index : Nat] \cup [name : Nat]
Located == [value : Values, path : Seq(Steps)]

\* Every variable has its type.
TypeOK ==
    /\ query \in Queries
    /\ input \in Inputs
    /\ seg \in Nat \ {0} /\ todo \in Nat /\ reserved \in Nat
    /\ res \in Seq(Located) /\ out \in Seq(Located) /\ stack \in Seq(Located)
    /\ pc \in {"segment", "child", "descendant", "stack", "done"}

LocatedNodes == res \o out \o stack

\* At every moment the path of a located node, finished or still on the stack,
\* leads from the document to the node's value.
PathsResolve ==
    \A k \in DOMAIN LocatedNodes : At(input, LocatedNodes[k].path) = LocatedNodes[k].value

\* A query that IsSingular accepts never selects more than one node, in any
\* segment: the parser lets exactly these stand as operands of comparisons.
SingularAtMostOne ==
    (query # NoQuery /\ IsSingular(query)) => Len(res) <= 1 /\ Len(out) <= 1

\* What a child segment reserves before it appends is enough: OutputEstimate
\* is an upper bound, and a single name or index needs nothing beyond the
\* capacity out was made with.
ReservationSuffices == pc = "child" => Len(out) <= reserved

Plain == INSTANCE PlainSelection
            WITH res <- ValuesOf(res), out <- ValuesOf(out), stack <- ValuesOf(stack)

\* The two engines go in lockstep: without the paths, every step of located
\* selection is the same step of plain selection, on the same values in the
\* same order.
ImplementsPlain == Plain!Spec

\* Selection terminates.
Terminates == <>(pc = "done")
=============================================================================
