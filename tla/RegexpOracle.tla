----------------------------- MODULE RegexpOracle -----------------------------
(***************************************************************************)
(* What match() and search() need of compileIRegexpMode: a call made by a  *)
(* goroutine is answered with the regexp of its own pattern and mode, or   *)
(* with nil when the pattern is no I-Regexp, and every call is answered.   *)
(* There is no cache here.                                                 *)
(***************************************************************************)
CONSTANTS
    Goroutines,      \* callers
    Patterns,        \* pattern strings
    ValidPatterns,   \* the ones compileIRegexpUncached accepts
    Nil              \* Go's nil *regexp.Regexp

VARIABLES phase, req, ret

ovars == <<phase, req, ret>>

-----------------------------------------------------------------------------
\* A pattern and a mode: match() is anchored, search() is not.
Requests == [pattern : Patterns, anchored : BOOLEAN]

\* A compiled regexp is identified by what it was compiled from.
CompileUncached(q) == IF q.pattern \in ValidPatterns THEN q ELSE Nil

OInit ==
    /\ phase = [g \in Goroutines |-> "idle"]
    /\ req \in [Goroutines -> Requests]
    /\ ret = [g \in Goroutines |-> Nil]

Ask(g) ==
    /\ phase[g] = "idle"
    /\ \E q \in Requests : req' = [req EXCEPT ![g] = q]
    /\ phase' = [phase EXCEPT ![g] = "busy"]
    /\ ret' = [ret EXCEPT ![g] = Nil]

Answer(g) ==
    /\ phase[g] = "busy"
    /\ ret' = [ret EXCEPT ![g] = CompileUncached(req[g])]
    /\ phase' = [phase EXCEPT ![g] = "idle"]
    /\ UNCHANGED req

ONext == \E g \in Goroutines : Ask(g) \/ Answer(g)

OSpec == OInit /\ [][ONext]_ovars /\ \A g \in Goroutines : WF_ovars(Answer(g))
=============================================================================
