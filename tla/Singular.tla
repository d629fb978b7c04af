------------------------------- MODULE Singular -------------------------------
(***************************************************************************)
(* IsSingular of a selector, a segment and a query: whether it selects at  *)
(* most one node by its form alone.  The parser admits a query to a        *)
(* comparison, and to an argument of type Value, because of it.            *)
(***************************************************************************)
EXTENDS Sequences

\* Mutant: a slice counts as singular.
SelectorIsSingularSlice(sel) == sel.kind \in {"Name", "Index", "Slice"}

SelectorIsSingular(sel) == sel.kind \in {"Name", "Index"}

SegmentIsSingular(seg) ==
    /\ ~seg.descendant
    /\ Len(seg.selectors) = 1
    /\ SelectorIsSingular(seg.selectors[1])

IsSingular(q) ==
    \A k \in DOMAIN q.segments :
        ~q.segments[k].descendant /\ SegmentIsSingular(q.segments[k])
=============================================================================
