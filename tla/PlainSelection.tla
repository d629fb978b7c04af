---------------------------- MODULE PlainSelection ----------------------------
(***************************************************************************)
(* Plain selection, Path.Select with PathQuery.Select, Segment.Apply and   *)
(* appendDescendant, as the machine its loops are.  It is what located     *)
(* selection has to agree with: the values, without their paths.           *)
(***************************************************************************)
EXTENDS Selectors

CONSTANTS
    FilterHolds(_, _, _),   \* FilterExpr.Eval: filter, current node, root
    Queries,                \* the queries of compiled paths, and NoQuery
    Inputs                  \* decoded JSON documents

VARIABLES
    query, input,
    seg,     \* the segment being applied, 1-based
    res,     \* its input nodes
    todo,    \* the node to process next, 1-based
    out,     \* its output so far
    stack,   \* the stack of appendDescendant
    pc

vars == <<query, input, seg, res, todo, out, stack, pc>>

-----------------------------------------------------------------------------
\* The values of a node's children for which the filter of a selector holds.
PassingValues(sel, node) ==
    {v \in Range(ValuesOf(ForEachChild(node))) : FilterHolds(sel.filter, v, input)}

appendSelectors(selectors, node) ==
    FlattenSeq([k \in DOMAIN selectors |-> Apply(selectors[k], node, PassingValues(selectors[k], node))])

Segments == query.segments
Segment  == Segments[seg]

Init ==
    /\ query \in Queries
    /\ input \in Inputs
    /\ seg = 1
    /\ res = IF query = NoQuery THEN <<>> ELSE <<input>>
    /\ todo = 0
    /\ out = <<>>
    /\ stack = <<>>
    /\ pc = IF query = NoQuery THEN "done" ELSE "segment"

\* Segment.Apply returns an empty input as it is.
SkipSegment ==
    /\ pc = "segment" /\ seg <= Len(Segments) /\ res = <<>>
    /\ seg' = seg + 1
    /\ UNCHANGED <<query, input, res, todo, out, stack, pc>>

StartSegment ==
    /\ pc = "segment" /\ seg <= Len(Segments) /\ res # <<>>
    /\ out' = <<>>
    /\ todo' = 1
    /\ pc' = IF Segment.descendant THEN "descendant" ELSE "child"
    /\ UNCHANGED <<query, input, seg, res, stack>>

\* The selectors of a child segment are applied to the next node.
ApplyChild ==
    /\ pc = "child" /\ todo <= Len(res)
    /\ out' = out \o appendSelectors(Segment.selectors, res[todo])
    /\ todo' = todo + 1
    /\ UNCHANGED <<query, input, seg, res, stack, pc>>

\* appendDescendant is called for the next node.
StartDescent ==
    /\ pc = "descendant" /\ todo <= Len(res)
    /\ stack' = <<res[todo]>>
    /\ pc' = "stack"
    /\ UNCHANGED <<query, input, seg, res, todo, out>>

\* One turn of its loop.
PopNode ==
    /\ pc = "stack" /\ stack # <<>>
    /\ LET current == Last(stack)
       IN  /\ out' = out \o appendSelectors(Segment.selectors, current)
           /\ stack' = Front(stack) \o ValuesOf(ForEachChildReverse(current))
    /\ UNCHANGED <<query, input, seg, res, todo, pc>>

EndDescent ==
    /\ pc = "stack" /\ stack = <<>>
    /\ todo' = todo + 1
    /\ pc' = "descendant"
    /\ UNCHANGED <<query, input, seg, res, out, stack>>

\* Segment.Apply returns its result, which replaces PathQuery.Select's.
EndSegment ==
    /\ pc \in {"child", "descendant"} /\ todo > Len(res)
    /\ res' = out
    /\ seg' = seg + 1
    /\ pc' = "segment"
    /\ UNCHANGED <<query, input, todo, out, stack>>

Return ==
    /\ pc = "segment" /\ seg > Len(Segments)
    /\ pc' = "done"
    /\ UNCHANGED <<query, input, seg, res, todo, out, stack>>

Next ==
    \/ SkipSegment \/ StartSegment \/ ApplyChild
    \/ StartDescent \/ PopNode \/ EndDescent
    \/ EndSegment \/ Return

Spec == Init /\ [][Next]_vars
=============================================================================
