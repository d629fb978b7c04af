------------------------------- MODULE Selection -------------------------------
(***************************************************************************)
(* Located selection with the filters of FilterEvaluation, against the     *)
(* plain selection operator Select those filters use and against RFC 9535. *)
(***************************************************************************)
EXTENDS LocatedSelection, FilterEvaluation, SelectionReference

\* Path.SelectLocated(input).Values() is Path.Select(input), in the same order.
ParityWithSelect ==
    (pc = "done" /\ query # NoQuery) => ValuesOf(res) = Select(query, input, input)

\* SelectLocated returns the locations RFC 9535 defines, in its order.
MatchesReference ==
    (pc = "done" /\ query # NoQuery) =>
        [k \in DOMAIN res |-> res[k].path] = RefQuery(query, input, <<>>)
=============================================================================
