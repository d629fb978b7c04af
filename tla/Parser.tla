-------------------------------- MODULE Parser --------------------------------
(***************************************************************************)
(* The recursive descent parser, internal/parser/parse.go, and NewFuncExpr *)
(* of internal/ast/function.go, which checks the arguments of a call.      *)
(*                                                                         *)
(* A parser p is the Go struct: [src, tokens, pos, funcs, trackSingular,   *)
(* firstNonSingularOffset], an offset of 0 standing for none, and a        *)
(* history count of the tokens it has advanced over.  A parse method maps  *)
(* p to Ok(p, v), v being the piece of AST in the shape Selectors uses, or *)
(* to Err(p, at, why): the offset of the Error and what it is about.       *)
(***************************************************************************)
EXTENDS Lexer, Singular

CONSTANT maxJSONInteger   \* the largest integer in a selector

\* funcs maps the name of a function to [params, result].
NewParser(src, tokens, funcs) ==
    [src |-> src, tokens |-> tokens, pos |-> 1, funcs |-> funcs, trackSingular |-> FALSE,
     firstNonSingularOffset |-> 0, advances |-> 0]

Ok(p, v)         == [ok |-> TRUE, p |-> p, v |-> v]
Err(p, at, why)  == [ok |-> FALSE, p |-> p, at |-> at, why |-> why]

\* Go on with F unless r is an error; r is bound, so that TLC evaluates it once.
Then(r, F(_, _)) ==
    CHOOSE next \in {IF done.ok THEN F(done.p, done.v) ELSE done : done \in {r}} : TRUE

-----------------------------------------------------------------------------
\* The token at pos; the parser never moves past the EOF token.
peek(p)     == p.tokens[p.pos]
isAtEnd(p)  == peek(p).kind = "EOF"
previous(p) == p.tokens[p.pos - 1]

check(p, kind) == peek(p).kind = kind

advance(p) ==
    IF isAtEnd(p) THEN p ELSE [p EXCEPT !.pos = @ + 1, !.advances = @ + 1]

\* At the end of the input the EOF token starts where the source ends.
error(p) == Err(p, peek(p).start, "syntax")

rejectsWhitespaceAfterPrevious(p) == ~isAtEnd(p) /\ previous(p).end < peek(p).start

markNonSingular(p, offset) ==
    IF p.trackSingular /\ p.firstNonSingularOffset = 0
    THEN [p EXCEPT !.firstNonSingularOffset = offset]
    ELSE p

\* match of a token that makes a query non-singular, when it is there.
advanceMarked(p) == markNonSingular(advance(p), peek(p).start)

checkMemberName(p) == peek(p).kind \in {"Ident", "True", "False", "Null"}
checkLiteral(p)    == peek(p).kind \in {"String", "Int", "Number", "True", "False", "Null"}

CompOpOf == [Equal |-> "==", NotEqual |-> "!=", Less |-> "<", LessEqual |-> "<=",
             Greater |-> ">", GreaterEqual |-> ">="]

checkCompOp(p) == peek(p).kind \in DOMAIN CompOpOf

continuesLogicalExpression(p) == checkCompOp(p) \/ check(p, "And") \/ check(p, "Or")

startsExplicitLogicalFunctionArgument(p) ==
    \/ peek(p).kind \in {"Not", "LeftParen"}
    \/ checkLiteral(p) /\ p.tokens[p.pos + 1].kind \in DOMAIN CompOpOf

-----------------------------------------------------------------------------
NameSelector(name)   == [kind |-> "Name", name |-> name]
IndexSelector(n)     == [kind |-> "Index", index |-> n]
WildcardSelector     == [kind |-> "Wildcard"]
SliceSelector(args)  == [kind |-> "Slice", slice |-> args]
FilterSelector(expr) == [kind |-> "Filter", filter |-> expr]

Child(sels)      == [descendant |-> FALSE, selectors |-> sels]
Descendant(sels) == [descendant |-> TRUE, selectors |-> sels]

\* The digits of an integer from k on, read after the value n.
RECURSIVE digitsValue(_, _, _)
digitsValue(text, k, n) ==
    IF k > Len(text) THEN n ELSE digitsValue(text, k + 1, 10 * n + hexVal[text[k]])

\* The token at pos as an integer: -0 and what is out of range are refused.
parseJSONInteger(p) ==
    LET text     == Text(p.src, peek(p))
        negative == text[1] = "-"
        n        == digitsValue(text, IF negative THEN 2 ELSE 1, 0)
    IN  IF (negative /\ n = 0) \/ n > maxJSONInteger
        THEN Err(advance(p), peek(p).start, "integer")
        ELSE Ok(advance(p), IF negative THEN -n ELSE n)

NoSlice == [HasStart |-> FALSE, Start |-> 0, HasEnd |-> FALSE, End |-> 0,
            HasStep |-> FALSE, Step |-> 0]

sliceStep(p, args) ==
    IF ~check(p, "Colon") THEN Ok(p, SliceSelector(args))
    ELSE IF ~check(advance(p), "Int") THEN Ok(advance(p), SliceSelector(args))
    ELSE Then(parseJSONInteger(advance(p)), LAMBDA q, n :
              Ok(q, SliceSelector([args EXCEPT !.HasStep = TRUE, !.Step = n])))

\* After the first colon.
parseSlice(p, args) ==
    IF ~check(p, "Int") THEN sliceStep(p, args)
    ELSE Then(parseJSONInteger(p), LAMBDA q, n :
              sliceStep(q, [args EXCEPT !.HasEnd = TRUE, !.End = n]))

parseIndexOrSlice(p) ==
    Then(parseJSONInteger(p), LAMBDA q, n :
         IF check(q, "Colon")
         THEN parseSlice(advanceMarked(q), [NoSlice EXCEPT !.HasStart = TRUE, !.Start = n])
         ELSE Ok(q, IndexSelector(n)))

parseLiteralValue(p) ==
    CASE check(p, "String") -> Ok(advance(p), [t |-> "str", s |-> peek(p).value])
      [] peek(p).kind \in {"Int", "Number"} ->
            Ok(advance(p), [t |-> "num", text |-> Text(p.src, peek(p))])
      [] peek(p).kind \in {"True", "False"} ->
            Ok(advance(p), [t |-> "bool", b |-> check(p, "True")])
      [] check(p, "Null") -> Ok(advance(p), [t |-> "null"])
      [] OTHER -> error(p)

-----------------------------------------------------------------------------
\* newFunctionArgument: may an argument be passed to a parameter of the kind?
argumentFits(kind, arg) ==
    CASE arg.source = "query"    -> kind = "Nodes" \/ (kind = "Value" /\ IsSingular(arg.query))
      [] arg.source = "function" -> arg.function.resultType = kind
      [] arg.source = "logical"  -> kind = "Logical"
      [] arg.source = "literal"  -> kind = "Value"

NewFuncExpr(p, at, name, args) ==
    LET fn == p.funcs[name]
    IN  IF Len(args) # Len(fn.params) \/ \E k \in DOMAIN args : ~argumentFits(fn.params[k], args[k])
        THEN Err(p, at, "function")
        ELSE Ok(p, [name |-> name, resultType |-> fn.result,
                    args |-> [k \in DOMAIN args |-> [kind |-> fn.params[k]] @@ args[k]]])

-----------------------------------------------------------------------------
RECURSIVE parseSegments(_, _)
RECURSIVE parseBracketedSelection(_, _)
RECURSIVE parseLogicalOr(_, _)
RECURSIVE parseLogicalAnd(_, _)
RECURSIVE parseBasicExpr(_)
RECURSIVE parseFunctionExpr(_)
RECURSIVE parseFunctionArgs(_, _, _, _)
RECURSIVE parseCompValue(_)

parseDescendantSegment(p) ==
    IF rejectsWhitespaceAfterPrevious(p) THEN error(p)
    ELSE CASE check(p, "LeftBracket") ->
                Then(parseBracketedSelection(advance(p), <<>>), LAMBDA q, sels : Ok(q, Descendant(sels)))
           [] check(p, "Star") -> Ok(advance(p), Descendant(<<WildcardSelector>>))
           [] checkMemberName(p) -> Ok(advance(p), Descendant(<<NameSelector(Text(p.src, peek(p)))>>))
           [] OTHER -> error(p)

parseDotChild(p) ==
    IF rejectsWhitespaceAfterPrevious(p) THEN error(p)
    ELSE CASE check(p, "Star") -> Ok(advanceMarked(p), Child(<<WildcardSelector>>))
           [] checkMemberName(p) -> Ok(advance(p), Child(<<NameSelector(Text(p.src, peek(p)))>>))
           [] OTHER -> error(p)

parseSegments(p, segments) ==
    LET more(q, seg) == parseSegments(q, Append(segments, seg))
    IN  CASE check(p, "DotDot") -> Then(parseDescendantSegment(advanceMarked(p)), more)
          [] check(p, "LeftBracket") ->
                Then(parseBracketedSelection(advance(p), <<>>), LAMBDA q, sels : more(q, Child(sels)))
          [] check(p, "Dot") -> Then(parseDotChild(advance(p)), more)
          [] OTHER -> Ok(p, segments)

parseSelector(p) ==
    CASE check(p, "Star") -> Ok(advanceMarked(p), WildcardSelector)
      [] check(p, "Question") ->
            Then(parseLogicalOr(advanceMarked(p), <<>>), LAMBDA q, or : Ok(q, FilterSelector(or)))
      [] check(p, "String") -> Ok(advance(p), NameSelector(peek(p).value))
      [] check(p, "Int") -> parseIndexOrSlice(p)
      [] check(p, "Colon") -> parseSlice(advanceMarked(p), NoSlice)
      [] OTHER -> error(p)

parseBracketedSelection(p, selectors) ==
    Then(parseSelector(p), LAMBDA q, sel :
         CASE check(q, "Comma") -> parseBracketedSelection(advanceMarked(q), Append(selectors, sel))
           [] check(q, "RightBracket") -> Ok(advance(q), Append(selectors, sel))
           [] OTHER -> error(q))

parseFilterQuery(p) ==
    IF peek(p).kind \notin {"Dollar", "At"} THEN error(p)
    ELSE Then(parseSegments(advance(p), <<>>), LAMBDA q, segments :
              Ok(q, [root |-> check(p, "Dollar"), segments |-> segments]))

-----------------------------------------------------------------------------
\* Mutant: the outer query's record is not restored.
parseFilterQueryWithSingularOffsetKept(p) ==
    Then(parseFilterQuery([p EXCEPT !.trackSingular = TRUE, !.firstNonSingularOffset = 0]),
         LAMBDA q, query :
            Ok([q EXCEPT !.trackSingular = p.trackSingular],
               [query |-> query, firstNonSingular |-> q.firstNonSingularOffset]))

\* A query, and where it first became non-singular; an enclosing query's own
\* record is set aside meanwhile.
parseFilterQueryWithSingularOffset(p) ==
    Then(parseFilterQuery([p EXCEPT !.trackSingular = TRUE, !.firstNonSingularOffset = 0]),
         LAMBDA q, query :
            Ok([q EXCEPT !.trackSingular = p.trackSingular,
                         !.firstNonSingularOffset = p.firstNonSingularOffset],
               [query |-> query, firstNonSingular |-> q.firstNonSingularOffset]))

\* nonSingularComparisonErrorAt; where the operand starts is history.
NonSingular(p, at, operand) == Err(p, at, "non-singular") @@ [operand |-> operand]

\* The operand that starts at p was parsed and is compared at q.
singularOperand(p, q, operand) ==
    IF operand.firstNonSingular # 0
    THEN NonSingular(q, operand.firstNonSingular, peek(p).start)
    ELSE IF ~IsSingular(operand.query) THEN NonSingular(q, peek(q).start, peek(p).start)
    ELSE Ok(q, [kind |-> "query", query |-> operand.query])

\* The rest of a comparison, from its operator on.
comparison(p, left) ==
    Then(parseCompValue(advance(p)), LAMBDA q, right :
         Ok(q, [kind |-> "comp", left |-> left, op |-> CompOpOf[peek(p).kind], right |-> right]))

parseCompValue(p) ==
    CASE check(p, "Ident") ->
            Then(parseFunctionExpr(p), LAMBDA q, fe :
                 IF fe.resultType # "Value" THEN error(q) ELSE Ok(q, [kind |-> "func", func |-> fe]))
      [] peek(p).kind \in {"At", "Dollar"} ->
            Then(parseFilterQueryWithSingularOffset(p), LAMBDA q, operand : singularOperand(p, q, operand))
      [] OTHER -> Then(parseLiteralValue(p), LAMBDA q, val : Ok(q, [kind |-> "literal", val |-> val]))

parseTestOrComparison(p) ==
    Then(parseFilterQueryWithSingularOffset(p), LAMBDA q, operand :
         IF checkCompOp(q) THEN Then(singularOperand(p, q, operand), comparison)
         ELSE Ok(q, [kind |-> "exist", query |-> operand.query]))

parseComparisonFromLiteral(p) ==
    Then(parseLiteralValue(p), LAMBDA q, val :
         IF checkCompOp(q) THEN comparison(q, [kind |-> "literal", val |-> val]) ELSE error(q))

parseFunctionTest(p) ==
    Then(parseFunctionExpr(p), LAMBDA q, fe :
         IF checkCompOp(q)
         THEN IF fe.resultType = "Value" THEN comparison(q, [kind |-> "func", func |-> fe]) ELSE error(q)
         ELSE IF fe.resultType = "Value" THEN Err(q, peek(q).start, "function")
         ELSE Ok(q, [kind |-> "func", func |-> fe]))

\* After an opening parenthesis.
parseParen(p, kind) ==
    Then(parseLogicalOr(p, <<>>), LAMBDA q, or :
         IF check(q, "RightParen") THEN Ok(advance(q), [kind |-> kind, expr |-> or]) ELSE error(q))

\* After a '!'.
parseNegation(p) ==
    CASE check(p, "LeftParen") -> parseParen(advance(p), "notparen")
      [] check(p, "Ident") ->
            Then(parseFunctionExpr(p), LAMBDA q, fe :
                 IF fe.resultType = "Value" THEN error(q) ELSE Ok(q, [kind |-> "negfunc", func |-> fe]))
      [] OTHER -> Then(parseFilterQuery(p), LAMBDA q, query : Ok(q, [kind |-> "nonexist", query |-> query]))

parseBasicExpr(p) ==
    CASE check(p, "Not") -> parseNegation(advance(p))
      [] check(p, "LeftParen") -> parseParen(advance(p), "paren")
      [] check(p, "Ident") -> parseFunctionTest(p)
      [] peek(p).kind \in {"At", "Dollar"} -> parseTestOrComparison(p)
      [] checkLiteral(p) -> parseComparisonFromLiteral(p)
      [] OTHER -> error(p)

parseLogicalAnd(p, exprs) ==
    Then(parseBasicExpr(p), LAMBDA q, expr :
         IF check(q, "And") THEN parseLogicalAnd(advance(q), Append(exprs, expr))
         ELSE Ok(q, Append(exprs, expr)))

parseLogicalOr(p, ands) ==
    Then(parseLogicalAnd(p, <<>>), LAMBDA q, and :
         IF check(q, "Or") THEN parseLogicalOr(advance(q), Append(ands, and))
         ELSE Ok(q, Append(ands, and)))

-----------------------------------------------------------------------------
logicalArgument(p) ==
    Then(parseLogicalOr(p, <<>>), LAMBDA q, or : Ok(q, [source |-> "logical", logical |-> or]))

\* p.pos = start
rewind(q, p) == [q EXCEPT !.pos = p.pos]

\* Mutant: a logical argument is parsed like any other and then once more.
parseFunctionArgTwice(p, target) ==
    CASE startsExplicitLogicalFunctionArgument(p) -> logicalArgument(p)
      [] peek(p).kind \in {"At", "Dollar"} ->
            Then(parseFilterQuery(p), LAMBDA q, query :
                 IF target = "Logical" \/ continuesLogicalExpression(q) THEN logicalArgument(rewind(q, p))
                 ELSE Ok(q, [source |-> "query", query |-> query]))
      [] check(p, "Ident") ->
            Then(parseFunctionExpr(p), LAMBDA q, fe :
                 IF target = "Logical" \/ continuesLogicalExpression(q) THEN logicalArgument(rewind(q, p))
                 ELSE Ok(q, [source |-> "function", function |-> fe]))
      [] OTHER -> Then(parseLiteralValue(p), LAMBDA q, val : Ok(q, [source |-> "literal", literal |-> val]))

\* A query or a call that turns out to begin a logical expression is parsed
\* again as one.
parseFunctionArg(p, target) ==
    CASE \/ startsExplicitLogicalFunctionArgument(p)
         \/ target = "Logical" /\ peek(p).kind \in {"At", "Dollar", "Ident"} -> logicalArgument(p)
      [] target # "Logical" /\ peek(p).kind \in {"At", "Dollar"} ->
            Then(parseFilterQuery(p), LAMBDA q, query :
                 IF continuesLogicalExpression(q) THEN logicalArgument(rewind(q, p))
                 ELSE Ok(q, [source |-> "query", query |-> query]))
      [] target # "Logical" /\ check(p, "Ident") ->
            Then(parseFunctionExpr(p), LAMBDA q, fe :
                 IF continuesLogicalExpression(q) THEN logicalArgument(rewind(q, p))
                 ELSE Ok(q, [source |-> "function", function |-> fe]))
      [] OTHER -> Then(parseLiteralValue(p), LAMBDA q, val : Ok(q, [source |-> "literal", literal |-> val]))

closeCall(p, nameToken, args) ==
    IF check(p, "RightParen")
    THEN NewFuncExpr(advance(p), nameToken.start, Text(p.src, nameToken), args)
    ELSE error(p)

\* One more argument than the function has is refused before it is parsed.
parseFunctionArgs(p, nameToken, funcObj, args) ==
    IF Len(args) >= Len(funcObj.params) THEN Err(p, nameToken.start, "function")
    ELSE Then(parseFunctionArg(p, funcObj.params[Len(args) + 1]), LAMBDA q, arg :
              IF check(q, "Comma")
              THEN parseFunctionArgs(advance(q), nameToken, funcObj, Append(args, arg))
              ELSE closeCall(q, nameToken, Append(args, arg)))

parseFunctionExpr(p) ==
    LET q    == advance(p)
        name == Text(p.src, peek(p))
    IN  IF rejectsWhitespaceAfterPrevious(q) \/ ~check(q, "LeftParen") THEN error(q)
        ELSE IF name \notin DOMAIN p.funcs THEN Err(advance(q), peek(p).start, "function")
        ELSE IF check(advance(q), "RightParen") THEN closeCall(advance(q), peek(p), <<>>)
        ELSE parseFunctionArgs(advance(q), peek(p), p.funcs[name], <<>>)

-----------------------------------------------------------------------------
\* Parser.Parse
Parse(src, tokens, funcs) ==
    LET p == NewParser(src, tokens, funcs)
    IN  IF At(src, 1) \in isBlankSpace THEN Err(p, 1, "syntax")
        ELSE IF src # <<>> /\ src[Len(src)] \in isBlankSpace THEN Err(p, Len(src), "syntax")
        ELSE IF ~check(p, "Dollar") THEN error(p)
        ELSE Then(parseFilterQuery(p), LAMBDA q, query : IF isAtEnd(q) THEN Ok(q, query) ELSE error(q))
=============================================================================
