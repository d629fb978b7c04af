-------------------------- MODULE MCDescendantWalk --------------------------
(* All ordered trees with at most MaxNodes nodes.                          *)
EXTENDS DescendantWalk

CONSTANT MaxNodes

\* Functions last that describe properly nested subtrees.
Nested(n) ==
    {last \in [0 .. n - 1 -> 0 .. n - 1] :
        /\ last[0] = n - 1
        /\ \A m \in 0 .. n - 1 : m <= last[m]
        /\ \A m, k \in 0 .. n - 1 : m < k /\ k <= last[m] => last[k] <= last[m]}

\* m is a child of n: inside n's subtree and inside no smaller one.
IsChild(last, n, m) ==
    /\ n < m /\ m <= last[n]
    /\ \A k \in n + 1 .. m - 1 : last[k] < m

TreeOf(n, last) ==
    [size |-> n,
     last |-> last,
     kids |-> [k \in 0 .. n - 1 |->
                 SetToSortSeq({m \in 0 .. n - 1 : IsChild(last, k, m)}, <)]]

MCTrees == UNION {{TreeOf(n, last) : last \in Nested(n)} : n \in 1 .. MaxNodes}
=============================================================================
