----------------------------- MODULE Deduplicate -----------------------------
(***************************************************************************)
(* LocatedNodeList.Deduplicate in result.go: duplicate paths are removed   *)
(* in place, in one pass over the list whose backing array it is           *)
(* compacting.  The hash function is any function: two paths may collide.  *)
(***************************************************************************)
EXTENDS Integers, Sequences

CONSTANTS
    Paths,      \* normalized paths
    RootPath,   \* the zero NormalizedPath, $
    Values,     \* node values
    NilValue,   \* nil
    Hashes,     \* hash values
    Lists       \* the lists Deduplicate is called on

Node == [Path : Paths, Value : Values]

Zero == [Path |-> RootPath, Value |-> NilValue]

ASSUME ListsAssumption ==
    /\ RootPath \in Paths /\ NilValue \in Values
    /\ Lists \subseteq Seq(Node)

VARIABLES
    orig,         \* the list as it was passed in
    hashFn,       \* the hash function
    l,            \* the backing array
    i,            \* the element the range loop reads next
    n,            \* len(uniq)
    seen,         \* hash -> index in uniq of its first path, 0 when absent
    collisions,   \* hash -> indexes in uniq of its other paths
    pc,
    from          \* history: where each element of uniq came from

vars == <<orig, hashFn, l, i, n, seen, collisions, pc, from>>

-----------------------------------------------------------------------------
Init ==
    /\ orig \in Lists
    /\ hashFn \in [Paths -> Hashes]
    /\ l = orig
    /\ i = 1
    /\ n = 0
    /\ seen = [h \in Hashes |-> 0]
    /\ collisions = [h \in Hashes |-> {}]
    /\ pc = "start"
    /\ from = <<>>

\* Mutant: a list of at most one node is taken for a list of one.
ReturnShortOne ==
    /\ pc = "start"
    /\ Len(l) <= 1
    /\ n' = 1
    /\ from' = <<1>>
    /\ pc' = "done"
    /\ UNCHANGED <<orig, hashFn, l, i, seen, collisions>>

\* A list of at most one node is returned as it is.
ReturnShort ==
    /\ pc = "start"
    /\ Len(l) <= 1
    /\ n' = Len(l)
    /\ from' = [k \in 1 .. Len(l) |-> k]
    /\ pc' = "done"
    /\ UNCHANGED <<orig, hashFn, l, i, seen, collisions>>

Enter ==
    /\ pc = "start"
    /\ Len(l) > 1
    /\ pc' = "loop"
    /\ UNCHANGED <<orig, hashFn, l, i, n, seen, collisions, from>>

HashOf(node) == hashFn[node.Path]

\* Mutant: the node is written one position too far.
AppendUniqAhead(node) ==
    /\ l' = [l EXCEPT ![n + 2] = node]
    /\ n' = n + 1
    /\ from' = Append(from, i)

\* uniq = append(uniq, node), which overwrites l
AppendUniq(node) ==
    /\ l' = [l EXCEPT ![n + 1] = node]
    /\ n' = n + 1
    /\ from' = Append(from, i)

\* The first path with this hash.
KeepFirst ==
    /\ pc = "loop" /\ i <= Len(l)
    /\ seen[HashOf(l[i])] = 0
    /\ seen' = [seen EXCEPT ![HashOf(l[i])] = n + 1]
    /\ AppendUniq(l[i])
    /\ i' = i + 1
    /\ UNCHANGED <<orig, hashFn, collisions, pc>>

\* Mutant: equal hashes are taken for equal paths.
IsDuplicateByHash(node) == seen[HashOf(node)] # 0

\* node's path is the first path with its hash or one of the others.
IsDuplicate(node) ==
    LET h == HashOf(node)
    IN  \/ node.Path = l[seen[h]].Path
        \/ \E idx \in collisions[h] : node.Path = l[idx].Path

Skip ==
    /\ pc = "loop" /\ i <= Len(l)
    /\ seen[HashOf(l[i])] # 0
    /\ IsDuplicate(l[i])
    /\ i' = i + 1
    /\ UNCHANGED <<orig, hashFn, l, n, seen, collisions, pc, from>>

\* A new path whose hash is taken.
KeepCollision ==
    /\ pc = "loop" /\ i <= Len(l)
    /\ seen[HashOf(l[i])] # 0
    /\ ~IsDuplicate(l[i])
    /\ collisions' = [collisions EXCEPT ![HashOf(l[i])] = @ \cup {n + 1}]
    /\ AppendUniq(l[i])
    /\ i' = i + 1
    /\ UNCHANGED <<orig, hashFn, seen, pc>>

\* Mutant: the tail keeps references to the removed nodes.
FinishWithoutClear ==
    /\ pc = "loop" /\ i > Len(l)
    /\ pc' = "done"
    /\ UNCHANGED <<orig, hashFn, l, i, n, seen, collisions, from>>

\* clear(l[len(uniq):])
Finish ==
    /\ pc = "loop" /\ i > Len(l)
    /\ l' = [k \in 1 .. Len(l) |-> IF k <= n THEN l[k] ELSE Zero]
    /\ pc' = "done"
    /\ UNCHANGED <<orig, hashFn, i, n, seen, collisions, from>>

Next == ReturnShort \/ Enter \/ KeepFirst \/ Skip \/ KeepCollision \/ Finish

Spec == Init /\ [][Next]_vars

-----------------------------------------------------------------------------
\* Every variable has its type, and indexes are indexes of l.
TypeOK ==
    /\ orig \in Lists
    /\ hashFn \in [Paths -> Hashes]
    /\ l \in Seq(Node) /\ Len(l) = Len(orig)
    /\ i \in 1 .. Len(l) + 1
    /\ n \in 0 .. Len(l)
    /\ seen \in [Hashes -> 0 .. n]
    /\ collisions \in [Hashes -> SUBSET (1 .. n)]
    /\ pc \in {"start", "loop", "done"}
    /\ from \in Seq(1 .. Len(l)) /\ Len(from) = n

\* The positions in a list where a path occurs for the first time.
FirstPositions(s) ==
    {k \in 1 .. Len(s) : \A m \in 1 .. k - 1 : s[m].Path # s[k].Path}

\* Deduplicate keeps, in order, exactly the first node of every path, for every
\* hash function, although it overwrites the list while reading it.
KeepsFirstOccurrences ==
    pc = "done" =>
        /\ \A k \in 1 .. n : l[k] = orig[from[k]]
        /\ \A j, k \in 1 .. n : j < k => from[j] < from[k]
        /\ {from[k] : k \in 1 .. n} = FirstPositions(orig)

\* What the shortened list no longer covers holds no reference to a node.
TailCleared == pc = "done" => \A k \in n + 1 .. Len(l) : l[k] = Zero

\* The elements still to be read are the ones that were passed in: compaction
\* never overtakes the loop.
UnreadIntact == pc = "loop" => n < i /\ \A k \in i .. Len(l) : l[k] = orig[k]
=============================================================================
