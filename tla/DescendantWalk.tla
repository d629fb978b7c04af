---------------------------- MODULE DescendantWalk ----------------------------
(***************************************************************************)
(* The explicit stack of a descendant segment: appendDescendant in         *)
(* internal/ast/segment.go and appendDescendantLocated in jsonpath.go,     *)
(* which differ only in what a frame carries besides the node.  A decoded  *)
(* JSON value is a finite ordered tree; its nodes are numbered here in the *)
(* order RFC 9535 asks for: a node before its descendants, the subtree of  *)
(* an earlier child before that of a later one.                            *)
(***************************************************************************)
EXTENDS Integers, Sequences, SequencesExt

CONSTANT Trees   \* records [size, kids, last]; see WellNumbered

VARIABLES tree, start, pending, visited

walkVars == <<tree, start, pending, visited>>

-----------------------------------------------------------------------------
NodesOf(t) == 0 .. t.size - 1

\* kids[n] are the children of n in ForEachChild's order (array index, or
\* sorted member name), last[n] is the last node of n's subtree, and the
\* numbers are those of a depth-first, left-to-right traversal.
WellNumbered(t) ==
    /\ t.size \in Nat \ {0}
    /\ t.kids \in [NodesOf(t) -> Seq(NodesOf(t))]
    /\ t.last \in [NodesOf(t) -> NodesOf(t)]
    /\ \A n \in NodesOf(t) :
        LET k == t.kids[n]
        IN  IF k = <<>>
            THEN t.last[n] = n
            ELSE /\ k[1] = n + 1
                 /\ \A j \in 1 .. Len(k) - 1 : k[j + 1] = t.last[k[j]] + 1
                 /\ t.last[n] = t.last[k[Len(k)]]

ASSUME TreesAssumption == \A t \in Trees : WellNumbered(t)

\* Mutant: children are pushed in their own order, so the last one is popped
\* first.
PushInOrder(s, k) == s \o k

\* ForEachChildReverse appends the children to the stack last to first.
PushReverse(s, k) == s \o Reverse(k)

WalkInit ==
    /\ tree \in Trees
    /\ start \in NodesOf(tree)
    /\ pending = <<start>>
    /\ visited = <<>>

\* One turn of the loop: pop, apply the selectors, push the children.
Pop ==
    /\ pending # <<>>
    /\ LET current == Last(pending)
       IN  /\ visited' = Append(visited, current)
           /\ pending' = PushReverse(Front(pending), tree.kids[current])
    /\ UNCHANGED <<tree, start>>

WalkNext == Pop

WalkSpec == WalkInit /\ [][WalkNext]_walkVars

-----------------------------------------------------------------------------
\* Every variable has its type.
WalkTypeOK ==
    /\ tree \in Trees
    /\ start \in NodesOf(tree)
    /\ pending \in Seq(NodesOf(tree))
    /\ visited \in Seq(NodesOf(tree))

\* A descendant segment visits the subtree of its input node in document order
\* and every node of it once: at any moment what has been visited is a prefix
\* of that order, and when the stack is empty it is all of it.
DocumentOrder ==
    /\ \A k \in 1 .. Len(visited) : visited[k] = start + k - 1
    /\ pending = <<>> => Len(visited) = tree.last[start] - start + 1
=============================================================================
