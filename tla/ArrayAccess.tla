----------------------------- MODULE ArrayAccess -----------------------------
(***************************************************************************)
(* Array access of the selection runtime: the index selector and the slice *)
(* loop of Selector.applySlice / appendSliceLocated.  A request is an      *)
(* index selector or a slice selector applied to an array of a given       *)
(* length; indexes collects those that are read from the array, in order.  *)
(***************************************************************************)
EXTENDS ArrayBounds

VARIABLES kind, args, length, bounds, i, indexes, phase

accessVars == <<kind, args, length, bounds, i, indexes, phase>>

-----------------------------------------------------------------------------
\* An index selector has only args.Start.
AccessInit ==
    /\ kind \in {"index", "slice"}
    /\ args \in WellFormedArgs
    /\ kind = "index" => args.HasStart /\ ~args.HasEnd /\ ~args.HasStep
    /\ length \in 0 .. MaxLen
    /\ bounds = NoBounds
    /\ i = 0
    /\ indexes = <<>>
    /\ phase = "start"

\* An index selector [args.Start] on an array.
SelectIndex ==
    /\ phase = "start" /\ kind = "index"
    /\ LET n == NormalizeIndex(args.Start, length)
       IN  indexes' = IF n.ok THEN <<n.idx>> ELSE <<>>
    /\ phase' = "done"
    /\ UNCHANGED <<kind, args, length, bounds, i>>

\* applySlice up to the loop: no bounds, or a zero count, selects nothing.
Resolve ==
    /\ phase = "start" /\ kind = "slice"
    /\ LET r == ResolveSliceBounds(args, length)
       IN  IF r.ok /\ Count(r.b) # 0
           THEN bounds' = r.b /\ i' = r.b.Start /\ phase' = "loop"
           ELSE phase' = "done" /\ UNCHANGED <<bounds, i>>
    /\ UNCHANGED <<kind, args, length, indexes>>

\* One iteration: arr[i] is read, then i advances.
Visit ==
    /\ phase = "loop"
    /\ InSlice(bounds, i)
    /\ indexes' = Append(indexes, i)
    /\ i' = Int64(i + bounds.Step)
    /\ UNCHANGED <<kind, args, length, bounds, phase>>

Finish ==
    /\ phase = "loop"
    /\ ~InSlice(bounds, i)
    /\ phase' = "done"
    /\ UNCHANGED <<kind, args, length, bounds, i, indexes>>

AccessNext == SelectIndex \/ Resolve \/ Visit \/ Finish

AccessSpec == AccessInit /\ [][AccessNext]_accessVars

-----------------------------------------------------------------------------
\* Every variable has its type; i is an int64.
AccessTypeOK ==
    /\ kind \in {"index", "slice"}
    /\ args \in SliceArgs
    /\ length \in 0 .. MaxLen
    /\ bounds \in SliceBounds
    /\ i \in Int64Range
    /\ indexes \in Seq(Int)
    /\ phase \in {"start", "loop", "done"}

\* arr[index] never panics: every index read by the slice loop or by an index
\* selector is inside the array, whatever the bounds and the step were.
IndexInArray == \A k \in 1 .. Len(indexes) : 0 <= indexes[k] /\ indexes[k] < length

\* NormalizeIndex and the slice loop select exactly the elements RFC 9535
\* selects, each once, forwards for a positive step and backwards otherwise.
MatchesRFC ==
    phase = "done" =>
        /\ {indexes[k] : k \in 1 .. Len(indexes)} =
              IF kind = "index" THEN RFCIndex(args.Start, length) ELSE RFCSlice(args, length)
        /\ \A j, k \in 1 .. Len(indexes) :
              j < k => IF StepOf(args) > 0 THEN indexes[j] < indexes[k] ELSE indexes[j] > indexes[k]

\* SliceBounds.Count is exact: the capacity reserved before the loop is what
\* the loop appends, and a zero count means there is nothing to append.
CountExact ==
    (phase = "done" /\ kind = "slice") =>
        LET r == ResolveSliceBounds(args, length)
        IN  Len(indexes) = IF r.ok THEN Count(r.b) ELSE 0

=============================================================================
