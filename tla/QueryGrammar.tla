------------------------------ MODULE QueryGrammar ------------------------------
(***************************************************************************)
(* The grammar of RFC 9535 on characters, with the well-typedness rules of *)
(* section 2.4.3: the reference the lexer and the parser are compared with.*)
(* A rule maps a text and a position to the set of its derivations there,  *)
(* [end, v]: where the derivation ends and what AST it stands for.  g is   *)
(* [src, funcs].  Alternatives are unions, so no rule depends on the order *)
(* in which they are tried or on how far a token reaches.                  *)
(***************************************************************************)
EXTENDS Printer

D(end, v)        == [end |-> end, v |-> v]
Bind(ds, F(_, _)) == UNION {F(d.end, d.v) : d \in ds}
Map(ds, F(_))    == {D(d.end, F(d.v)) : d \in ds}

\* The terminal w at i.
Sym(g, i, w) ==
    IF i + Len(w) <= Len(g.src) + 1 /\ \A k \in DOMAIN w : g.src[i + k - 1] = w[k]
    THEN {D(i + Len(w), w)} ELSE {}

\* S: what follows blank space never begins with one, so all of it is taken.
S(g, i) == SkipWhile(g.src, i, {" ", Rune(9), Rune(10), Rune(13)})

\* The parts of the source that begin at i and satisfy P.
Spans(g, i, P(_)) ==
    {D(j, SubSeq(g.src, i, j - 1)) :
        j \in {j \in i + 1 .. Len(g.src) + 1 : P(SubSeq(g.src, i, j - 1))}}

Alpha  == Runes(65, 90) \cup Runes(97, 122)
DIGIT  == Runes(48, 57)
IsName(w) ==
    /\ w[1] \in Alpha \cup {"_"} \cup Wide
    /\ \A k \in DOMAIN w : w[k] \in Alpha \cup {"_"} \cup Wide \cup DIGIT

IsDigits(w) == w # <<>> /\ \A k \in DOMAIN w : w[k] \in DIGIT
IsInt(w) ==
    LET u == IF w # <<>> /\ w[1] = "-" THEN Tail(w) ELSE w
    IN  w = <<"0">> \/ (IsDigits(u) /\ u[1] # "0")

\* number = (int / "-0") [ frac ] [ exp ]
IsNumber(w) ==
    /\ w[1] \in DIGIT \cup {"-"}
    /\ \E a \in 1 .. Len(w) : \E b \in a .. Len(w) :
          LET int  == SubSeq(w, 1, a)
              frac == SubSeq(w, a + 1, b)
              exp  == SubSeq(w, b + 1, Len(w))
          IN  /\ IsInt(int) \/ int = <<"-", "0">>
              /\ frac = <<>> \/ (frac[1] = "." /\ IsDigits(Tail(frac)))
              /\ exp = <<>> \/ (/\ exp[1] \in {"e", "E"}
                                /\ \/ IsDigits(Tail(exp))
                                   \/ Len(exp) > 2 /\ exp[2] \in {"+", "-"} /\ IsDigits(Tail(Tail(exp))))

\* The integers of a selector are those of the range of section 2.1.
Integer(g, i) ==
    LET value(w) == IF w[1] = "-" THEN -digitsValue(w, 2, 0) ELSE digitsValue(w, 1, 0)
    IN  {d \in Map(Spans(g, i, IsInt), value) : d.v \in -maxJSONInteger .. maxJSONInteger}

-----------------------------------------------------------------------------
HexDigits(w) == Len(w) = 4 /\ \A k \in 1 .. 4 : w[k] \in DOMAIN hexVal
D_ == {"d", "D"}
IsNonSurrogate(w) == HexDigits(w) /\ (w[1] \in D_ => w[2] \in Runes(48, 55))
IsHigh(w)         == HexDigits(w) /\ w[1] \in D_ /\ w[2] \in {"8", "9", "a", "b", "A", "B"}
IsLow(w)          == HexDigits(w) /\ w[1] \in D_ /\ w[2] \in {"c", "d", "e", "f", "C", "D", "E", "F"}
Unit(w)           == scanHex4(w, 1)

hexchar(g, i) ==
    Map(Spans(g, i, IsNonSurrogate), LAMBDA w : <<Rune(Unit(w))>>)
    \cup Bind(Spans(g, i, IsHigh), LAMBDA j, high :
            Bind(Sym(g, j, <<"\\", "u">>), LAMBDA k, _u :
                Map(Spans(g, k, IsLow), LAMBDA low :
                    <<Rune(65536 + ((Unit(high) % 1024) * 1024) + (Unit(low) % 1024))>>)))

\* One character of a string literal in the given quotes.
StringChar(g, i, quote) ==
    (IF i > Len(g.src) \/ g.src[i] \in Controls \cup {BadByte, "\\", quote} THEN {}
     ELSE {D(i + 1, <<g.src[i]>>)})
    \cup Map(Sym(g, i, <<"\\", quote>>), LAMBDA w : <<quote>>)
    \cup UNION {Map(Sym(g, i, <<"\\", c>>), LAMBDA w : <<Escapes[c]>>) : c \in DOMAIN Escapes}
    \cup Bind(Sym(g, i, <<"\\", "u">>), LAMBDA j, w : hexchar(g, j))

RECURSIVE StringChars(_, _, _)
StringChars(g, i, quote) ==
    {D(i, <<>>)}
    \cup Bind(StringChar(g, i, quote), LAMBDA j, c : Map(StringChars(g, j, quote), LAMBDA t : c \o t))

StringLiteral(g, i) ==
    UNION {Bind(Sym(g, i, <<quote>>), LAMBDA j, w :
               Bind(StringChars(g, j, quote), LAMBDA k, text :
                   Map(Sym(g, k, <<quote>>), LAMBDA c : text)))
           : quote \in {"'", "\""}}

Literal(g, i) ==
    Map(StringLiteral(g, i), LAMBDA w : [t |-> "str", s |-> w])
    \cup Map(Spans(g, i, IsNumber), LAMBDA w : [t |-> "num", text |-> w])
    \cup Map(Sym(g, i, <<"t", "r", "u", "e">>), LAMBDA w : [t |-> "bool", b |-> TRUE])
    \cup Map(Sym(g, i, <<"f", "a", "l", "s", "e">>), LAMBDA w : [t |-> "bool", b |-> FALSE])
    \cup Map(Sym(g, i, <<"n", "u", "l", "l">>), LAMBDA w : [t |-> "null"])

-----------------------------------------------------------------------------
\* [ start S ] ":" S [ end S ] [ ":" [ S step ] ]
SliceOf(g, i) ==
    LET Bound(j, has, field, args) ==   \* [ integer S ] after a part of the slice
            {D(j, args)} \cup {D(S(g, d.end), [args EXCEPT ![has] = TRUE, ![field] = d.v]) : d \in Integer(g, j)}
        Step(j, args) ==
            {D(j, args)} \cup Bind(Sym(g, j, <<":">>), LAMBDA k, w :
                {D(k, args)} \cup Map(Integer(g, S(g, k)), LAMBDA n :
                                      [args EXCEPT !.HasStep = TRUE, !.Step = n]))
    IN  Bind(Bound(i, "HasStart", "Start", NoSlice), LAMBDA j, args :
            Bind(Sym(g, j, <<":">>), LAMBDA k, w :
                Bind(Bound(S(g, k), "HasEnd", "End", args), Step)))

RECURSIVE LogicalExpr(_, _)
RECURSIVE LogicalAnds(_, _)
RECURSIVE FilterQuery(_, _)
RECURSIVE FunctionExpr(_, _)
RECURSIVE Selectors(_, _)
RECURSIVE Segments(_, _)
RECURSIVE Arguments(_, _, _)

Selector(g, i) ==
    Map(StringLiteral(g, i), NameSelector)
    \cup Map(Sym(g, i, <<"*">>), LAMBDA w : WildcardSelector)
    \cup Map(SliceOf(g, i), SliceSelector)
    \cup Map(Integer(g, i), IndexSelector)
    \cup Bind(Sym(g, i, <<"?">>), LAMBDA j, w : Map(LogicalExpr(g, S(g, j)), FilterSelector))

\* selector *(S "," S selector)
Selectors(g, i) ==
    Bind(Selector(g, i), LAMBDA j, sel :
        {D(j, <<sel>>)} \cup Bind(Sym(g, S(g, j), <<",">>), LAMBDA k, w :
                                  Map(Selectors(g, S(g, k)), LAMBDA more : <<sel>> \o more)))

Bracketed(g, i) ==
    Bind(Sym(g, i, <<"[">>), LAMBDA j, w :
        Bind(Selectors(g, S(g, j)), LAMBDA k, sels :
            Map(Sym(g, S(g, k), <<"]">>), LAMBDA c : sels)))

Shorthand(g, i) ==
    Map(Sym(g, i, <<"*">>), LAMBDA w : <<WildcardSelector>>)
    \cup Map(Spans(g, i, IsName), LAMBDA w : <<NameSelector(w)>>)

Segment(g, i) ==
    Map(Bracketed(g, i), Child)
    \cup Bind(Sym(g, i, <<".">>), LAMBDA j, w : Map(Shorthand(g, j), Child))
    \cup Bind(Sym(g, i, <<".", ".">>), LAMBDA j, w :
                  Map(Bracketed(g, j) \cup Shorthand(g, j), Descendant))

\* segments = *(S segment)
Segments(g, i) ==
    {D(i, <<>>)}
    \cup Bind(Segment(g, S(g, i)), LAMBDA j, seg : Map(Segments(g, j), LAMBDA more : <<seg>> \o more))

Query(g, i, identifier) ==
    Bind(Sym(g, i, <<identifier>>), LAMBDA j, w :
        Map(Segments(g, j), LAMBDA segs : [root |-> identifier = "$", segments |-> segs]))

FilterQuery(g, i) == Query(g, i, "$") \cup Query(g, i, "@")

\* Of some queries those with only segments of one name or one index.
Singulars(queries) ==
    {d \in queries :
        \A k \in DOMAIN d.v.segments :
            LET seg == d.v.segments[k]
            IN  ~seg.descendant /\ Len(seg.selectors) = 1 /\ seg.selectors[1].kind \in {"Name", "Index"}}

-----------------------------------------------------------------------------
\* The arguments a parameter of the type takes.
Argument(g, i, type) ==
    LET calls == Map({d \in FunctionExpr(g, i) : d.v.resultType = type},
                     LAMBDA f : [kind |-> type, source |-> "function", function |-> f])
        asQuery(q) == [kind |-> type, source |-> "query", query |-> q]
    IN  CASE type = "Logical" ->
                Map(LogicalExpr(g, i), LAMBDA or : [kind |-> type, source |-> "logical", logical |-> or])
          [] type = "Nodes" -> calls \cup Map(FilterQuery(g, i), asQuery)
          [] type = "Value" ->
                calls \cup Map(Singulars(FilterQuery(g, i)), asQuery)
                \cup Map(Literal(g, i), LAMBDA val : [kind |-> type, source |-> "literal", literal |-> val])

Arguments(g, i, types) ==
    Bind(Argument(g, i, Head(types)), LAMBDA j, arg :
        IF Len(types) = 1 THEN {D(j, <<arg>>)}
        ELSE Bind(Sym(g, S(g, j), <<",">>), LAMBDA k, w :
                 Map(Arguments(g, S(g, k), Tail(types)), LAMBDA more : <<arg>> \o more)))

\* function-name "(" S [arguments] S ")", as many arguments as parameters
FunctionExpr(g, i) ==
    UNION {Bind(Sym(g, i, name \o <<"(">>), LAMBDA j, w :
               LET fn   == g.funcs[name]
                   args == IF fn.params = <<>> THEN {D(S(g, j), <<>>)} ELSE Arguments(g, S(g, j), fn.params)
               IN  Bind(args, LAMBDA k, as :
                       Map(Sym(g, S(g, k), <<")">>), LAMBDA c :
                           [name |-> name, resultType |-> fn.result, args |-> as])))
           : name \in DOMAIN g.funcs}

\* What derives at i, each found once: the expressions below share it.
Operands(g, i) ==
    [literals |-> Literal(g, i), queries |-> FilterQuery(g, i), calls |-> FunctionExpr(g, i)]

Comparable(operands) ==
    Map(operands.literals, LAMBDA val : [kind |-> "literal", val |-> val])
    \cup Map(Singulars(operands.queries), LAMBDA q : [kind |-> "query", query |-> q])
    \cup Map({d \in operands.calls : d.v.resultType = "Value"}, LAMBDA f : [kind |-> "func", func |-> f])

ComparisonExpr(g, operands) ==
    Bind(Comparable(operands), LAMBDA j, left :
        UNION {Bind(Sym(g, S(g, j), CompOpText[op]), LAMBDA k, w :
                   Map(Comparable(Operands(g, S(g, k))), LAMBDA right :
                       [kind |-> "comp", left |-> left, op |-> op, right |-> right]))
               : op \in DOMAIN CompOpText})

ParenExpr(g, i, kind) ==
    Bind(Sym(g, i, <<"(">>), LAMBDA j, w :
        Bind(LogicalExpr(g, S(g, j)), LAMBDA k, or :
            Map(Sym(g, S(g, k), <<")">>), LAMBDA c : [kind |-> kind, expr |-> or])))

TestExpr(operands, exist, func) ==
    Map(operands.queries, LAMBDA q : [kind |-> exist, query |-> q])
    \cup Map({d \in operands.calls : d.v.resultType # "Value"}, LAMBDA f : [kind |-> func, func |-> f])

BasicExpr(g, i) ==
    LET operands == Operands(g, i)
    IN  ParenExpr(g, i, "paren") \cup TestExpr(operands, "exist", "func") \cup ComparisonExpr(g, operands)
        \cup Bind(Sym(g, i, <<"!">>), LAMBDA j, w :
                 ParenExpr(g, S(g, j), "notparen")
                 \cup TestExpr(Operands(g, S(g, j)), "nonexist", "negfunc"))

LogicalAnds(g, i) ==
    Bind(BasicExpr(g, i), LAMBDA j, e :
        {D(j, <<e>>)} \cup Bind(Sym(g, S(g, j), <<"&", "&">>), LAMBDA k, w :
                                Map(LogicalAnds(g, S(g, k)), LAMBDA more : <<e>> \o more)))

LogicalExpr(g, i) ==
    Bind(LogicalAnds(g, i), LAMBDA j, and :
        {D(j, <<and>>)} \cup Bind(Sym(g, S(g, j), <<"|", "|">>), LAMBDA k, w :
                                  Map(LogicalExpr(g, S(g, k)), LAMBDA more : <<and>> \o more)))

\* The ASTs of the derivations of the whole text as a jsonpath-query.
Derived(src, funcs) ==
    {d.v : d \in {d \in Query([src |-> src, funcs |-> funcs], 1, "$") : d.end = Len(src) + 1}}
=============================================================================
