-------------------------------- MODULE Printer --------------------------------
(***************************************************************************)
(* The canonical text of a query: the writeTo methods of internal/ast.  A  *)
(* text is a sequence of characters, as the lexer reads it.                *)
(***************************************************************************)
EXTENDS Parser, SequencesExt

\* The texts with a separator between them; ts is bound, so that TLC evaluates
\* each text once.
Separated(texts, separator) ==
    CHOOSE joined \in
        {FlattenSeq([k \in DOMAIN ts |-> IF k = 1 THEN ts[k] ELSE separator \o ts[k]]) :
            ts \in {texts \o <<>>}} : TRUE

\* strconv.FormatInt
RECURSIVE FormatInt(_)
FormatInt(n) ==
    IF n < 0 THEN <<"-">> \o FormatInt(-n)
    ELSE IF n < 10 THEN <<Rune(48 + n)>>
    ELSE Append(FormatInt(n \div 10), Rune(48 + (n % 10)))

\* The escapes that writeStringLiteral writes, of the characters in use.
EscapeOf == (Rune(8) :> <<"b">>) @@ (Rune(12) :> <<"f">>) @@ (Newline :> <<"n">>)
            @@ (Return :> <<"r">>) @@ (Tab :> <<"t">>) @@ ("\"" :> <<"\"">>)
            @@ ("\\" :> <<"\\">>) @@ (Rune(27) :> <<"u", "0", "0", "1", "b">>)

\* Mutant: a backslash is written as it is.
writeRuneKeepsBackslash(r) ==
    IF r \in DOMAIN EscapeOf \ {"\\"} THEN <<"\\">> \o EscapeOf[r] ELSE <<r>>

writeRune(r) == IF r \in DOMAIN EscapeOf THEN <<"\\">> \o EscapeOf[r] ELSE <<r>>

writeStringLiteral(s) ==
    <<"\"">> \o Separated([k \in DOMAIN s |-> writeRune(s[k])], <<>>) \o <<"\"">>

writeLiteral(val) ==
    CASE val.t = "str"  -> writeStringLiteral(val.s)
      [] val.t = "bool" -> CHOOSE w \in DOMAIN Keywords : Keywords[w] = (IF val.b THEN "True" ELSE "False")
      [] val.t = "null" -> CHOOSE w \in DOMAIN Keywords : Keywords[w] = "Null"
      [] val.t = "num"  -> val.text

\* SliceArgs.writeTo
writeSlice(a) ==
    LET bound(has, n) == IF has THEN FormatInt(n) ELSE <<>>
    IN  bound(a.HasStart, a.Start) \o <<":">> \o bound(a.HasEnd, a.End)
            \o (IF a.HasStep THEN <<":">> \o FormatInt(a.Step) ELSE <<>>)

-----------------------------------------------------------------------------
RECURSIVE writeQuery(_)
RECURSIVE writeFunc(_)
RECURSIVE writeLogicalOr(_)

\* functionArgument.writeTo
writeArgument(arg) ==
    CASE arg.source = "literal"  -> writeLiteral(arg.literal)
      [] arg.source = "query"    -> writeQuery(arg.query)
      [] arg.source = "logical"  -> writeLogicalOr(arg.logical)
      [] arg.source = "function" -> writeFunc(arg.function)

writeFunc(fe) ==
    fe.name \o <<"(">>
        \o Separated([k \in DOMAIN fe.args |-> writeArgument(fe.args[k])], <<",", " ">>) \o <<")">>

writeCompValue(cv) ==
    CASE cv.kind = "literal" -> writeLiteral(cv.val)
      [] cv.kind = "query"   -> writeQuery(cv.query)
      [] cv.kind = "func"    -> writeFunc(cv.func)

\* CompOp.String
CompOpText == ("==" :> <<"=", "=">>) @@ ("!=" :> <<"!", "=">>) @@ ("<" :> <<"<">>)
              @@ ("<=" :> <<"<", "=">>) @@ (">" :> <<">">>) @@ (">=" :> <<">", "=">>)

writeBasicExpr(e) ==
    CASE e.kind = "exist"    -> writeQuery(e.query)
      [] e.kind = "nonexist" -> <<"!">> \o writeQuery(e.query)
      [] e.kind = "paren"    -> <<"(">> \o writeLogicalOr(e.expr) \o <<")">>
      [] e.kind = "notparen" -> <<"!", "(">> \o writeLogicalOr(e.expr) \o <<")">>
      [] e.kind = "func"     -> writeFunc(e.func)
      [] e.kind = "negfunc"  -> <<"!">> \o writeFunc(e.func)
      [] e.kind = "comp"     -> writeCompValue(e.left) \o <<" ">> \o CompOpText[e.op] \o <<" ">>
                                    \o writeCompValue(e.right)

writeLogicalAnd(and) == Separated([k \in DOMAIN and |-> writeBasicExpr(and[k])], <<" ", "&", "&", " ">>)

writeLogicalOr(or) == Separated([k \in DOMAIN or |-> writeLogicalAnd(or[k])], <<" ", "|", "|", " ">>)

writeSelector(sel) ==
    CASE sel.kind = "Name"     -> writeStringLiteral(sel.name)
      [] sel.kind = "Index"    -> FormatInt(sel.index)
      [] sel.kind = "Slice"    -> writeSlice(sel.slice)
      [] sel.kind = "Wildcard" -> <<"*">>
      [] sel.kind = "Filter"   -> <<"?">> \o writeLogicalOr(sel.filter)

writeSegment(seg) ==
    (IF seg.descendant THEN <<".", ".">> ELSE <<>>) \o <<"[">>
        \o Separated([k \in DOMAIN seg.selectors |-> writeSelector(seg.selectors[k])], <<",">>) \o <<"]">>

writeQueryRoot(rooted) == IF rooted THEN <<"$">> ELSE <<"@">>

writeQuery(q) ==
    writeQueryRoot(q.root)
        \o Separated([k \in DOMAIN q.segments |-> writeSegment(q.segments[k])], <<>>)
=============================================================================
