-------------------------------- MODULE Compile --------------------------------
(***************************************************************************)
(* Compiling a query and its way through text: Parse and Parser.Parse,     *)
(* which scan the whole source and then parse the tokens, Path.MarshalText *)
(* and Path.UnmarshalText; and the check of a text that match or search    *)
(* gets as a pattern.  The text is a well-formed query or pattern with up  *)
(* to MaxEdits characters inserted, deleted or replaced.                   *)
(***************************************************************************)
EXTENDS QueryGrammar

Regexp == INSTANCE IRegexp

CONSTANTS
    Sources,     \* the texts to begin with
    Alphabet,    \* the characters that are inserted
    MaxEdits,    \* bound: edits made to a source
    Builtins,    \* [name -> [params, result]] of the built-in functions
    Registered   \* ... of the functions a Parser was given besides

VARIABLES
    src, edits,
    funcs,     \* the registry of the parser in use
    tokens,    \* what the lexer returned
    result,    \* the answer of Parse or of checkIRegexp, or NoResult
    printed,   \* what MarshalText returned
    target,    \* the query of the Path that UnmarshalText is called on
    phase

vars == <<src, edits, funcs, tokens, result, printed, target, phase>>

NoResult == [ok |-> FALSE]

\* The Path $, which the receiver of UnmarshalText holds before the call.
OldQuery == [root |-> TRUE, segments |-> <<>>]

Init ==
    /\ src \in Sources
    /\ edits = 0
    /\ funcs = Builtins
    /\ tokens = <<>>
    /\ result = NoResult
    /\ printed = <<>>
    /\ target = OldQuery
    /\ phase = "source"

\* The caller's text.
Edit ==
    /\ phase = "source" /\ edits < MaxEdits
    /\ edits' = edits + 1
    /\ \E i \in 1 .. Len(src) + 1, c \in Alphabet :
          src' \in {InsertAt(src, i, c)}
                   \cup IF i > Len(src) THEN {} ELSE {RemoveAt(src, i), ReplaceAt(src, i, c)}
    /\ UNCHANGED <<funcs, tokens, result, printed, target, phase>>

\* What Parse returns: without the parser, but for the work it did.
Answer(r) == [f \in DOMAIN r \ {"p"} |-> r[f]] @@ [advances |-> r.p.advances]

\* parser.New: the last token decides whether there is a parser.
New ==
    /\ phase = "source"
    /\ funcs' \in {Builtins, Builtins @@ Registered}
    /\ tokens' = ScanAll(src, 1)
    /\ IF Last(tokens').kind = "Invalid"
       THEN /\ phase' = "done"
            /\ result' = Answer(Err(NewParser(src, tokens', funcs'), Last(tokens').start, "token"))
       ELSE phase' = "lexed" /\ UNCHANGED result
    /\ UNCHANGED <<src, edits, printed, target>>

ParseTokens ==
    /\ phase = "lexed"
    /\ result' = Answer(Parse(src, tokens, funcs))
    /\ phase' = IF result'.ok THEN "parsed" ELSE "done"
    /\ UNCHANGED <<src, edits, funcs, tokens, printed, target>>

\* MarshalText, which returns String.
MarshalText ==
    /\ phase = "parsed"
    /\ printed' = writeQuery(result.v)
    /\ phase' = "printed"
    /\ UNCHANGED <<src, edits, funcs, tokens, result, target>>

\* parse of options.go with a registry; toks is bound, so that TLC evaluates it
\* once.
compile(source, registry) ==
    CHOOSE r \in
        {IF Last(toks).kind = "Invalid"
         THEN Err(NewParser(source, toks, registry), Last(toks).start, "token")
         ELSE Parse(source, toks, registry) : toks \in {ScanAll(source, 1)}} : TRUE

\* UnmarshalText of that text into another Path: it is parsed with the built-in
\* functions, and the Path is left alone on an error.
UnmarshalText ==
    /\ phase = "printed"
    /\ LET r == compile(printed, Builtins)
       IN  target' = IF r.ok THEN r.v ELSE target
    /\ phase' = "done"
    /\ UNCHANGED <<src, edits, funcs, tokens, result, printed>>

\* The text as a pattern: what compileRegexp asks before it calls the engine.
CheckPattern ==
    /\ phase = "source"
    /\ result' = Regexp!checkIRegexp(src)
    /\ phase' = "checked"
    /\ UNCHANGED <<src, edits, funcs, tokens, printed, target>>

Next == Edit \/ New \/ ParseTokens \/ MarshalText \/ UnmarshalText \/ CheckPattern

Spec == Init /\ [][Next]_vars

-----------------------------------------------------------------------------
\* Parse has just returned.
Answered == phase = "parsed" \/ (phase = "done" /\ ~result.ok)

\* The lexer and the parser together accept exactly the well-typed queries of
\* RFC 9535 and return the one AST that the grammar gives each: whatever blank
\* space, escapes, numbers, nesting, precedence and function types a text has,
\* with the built-in functions and with others.
MatchesGrammar ==
    Answered => Derived(src, funcs) = IF result.ok THEN {result.v} ELSE {}

\* What String prints is parsed back to the same query, with the functions the
\* query was parsed with; UnmarshalText, which knows only the built-in ones,
\* also gets it back unless the query calls another, and then changes nothing.
RoundTrip ==
    (phase = "done" /\ result.ok) =>
        LET again == compile(printed, funcs)
        IN  /\ again.ok /\ again.v = result.v
            /\ target = IF Derived(printed, Builtins) = {} THEN OldQuery ELSE result.v

\* A comparison of a query that is not singular is refused at the character
\* that makes it so: the first "..", "*", "?", "," or ":" of the operand,
\* not one of a query nested in it and not the operator behind it.
CulpritReported ==
    (Answered /\ ~result.ok /\ result.why = "non-singular") =>
        LET culprits == {tokens[k].start :
                            k \in {k \in DOMAIN tokens :
                                      /\ tokens[k].kind \in {"DotDot", "Star", "Question", "Comma", "Colon"}
                                      /\ tokens[k].start > result.operand}}
        IN  result.at = Min(culprits)

\* Parsing an argument again as a logical expression never multiplies: however
\* calls are nested, no more than twice the tokens are read.
LinearWork == Answered => result.advances <= 2 * Len(tokens)

\* The one-pass checker, which keeps a stack of open groups and whether there is
\* something to repeat, accepts exactly the patterns of RFC 9485: quantifiers,
\* nesting, and the hyphens of classes included.
PatternMatchesGrammar == phase = "checked" => (result.ok <=> Regexp!InGrammar(src))
=============================================================================
