------------------------------- MODULE MCCompile -------------------------------
(* Texts over every construct of the grammars, and what is inserted in them. *)
EXTENDS Compile

Chars(text) == [k \in 1 .. Len(text) |-> SubSeq(text, k, k)]

Fn(ps, r) == [params |-> ps, result |-> r]

MCBuiltins ==
    Chars("length") :> Fn(<<"Value">>, "Value") @@ Chars("count") :> Fn(<<"Nodes">>, "Value")
    @@ Chars("match") :> Fn(<<"Value", "Value">>, "Logical")

MCRegistered ==
    Chars("l") :> Fn(<<"Logical">>, "Logical") @@ Chars("n") :> Fn(<<"Nodes">>, "Nodes")
    @@ Chars("z") :> Fn(<<>>, "Logical")

Texts ==
    { "$.a[*]", "$.null.b0", "$..a[1,'b']", "$..*", "$[-1::2]", "$ [ 0 : 1 : -1 ]", "$[10,-12]", "$..[?@.a]",
      "$[\"\\u00e9\\n\"]", "$['\\uD83D\\uDE00']", "$['\\'\"']", "$['\\u001b\\t\\\\\\/']",
      "$[?@.a==1||!@.b&&@]", "$[?(@<=-1.5e+1)]", "$[?!(@>$[0])]", "$[?null!='a']", "$[?false==@['a'][0]]",
      "$[?@[?@.*]==1]", "$[?@[?@.a].b<2]", "$[?1==@..a]", "$[?@[0:1]>=@[1,2]]", "$[?@<@[?@.b[:1]==1]]",
      "$[?count(@.*)>0]", "$[?length(length(@.a))==1]", "$[?match(@,'a')]", "$[?length(@==1)]",
      "$[?1<count(@[?@.a==1])]", "$[?!match(\"a\", $.b)]", "$[?length(count(@)&&@)<1]",
      "$[?l(@.a&&@)]", "$[?!l(n(@))]", "$[?count(n(@..*))<1]", "$[?z()]", "$[?l(1==1)]", "$[?l(z()||!(@))]",
      "$[?l(l(l(@)&&@)&&@)]" }

Patterns ==
    { "a|b*", "((a)|){1,2}", "[^a-c-]", "\\p{Lu}[\\-n]", "[-a]+\\.", "()?.", "[\\P{C}b-\\]]{10}", "[a-b-c]", "(a{2,})(b" }

MCSources == {Chars(text) : text \in Texts \cup Patterns}

MCAlphabet ==
    ToSet(Chars("$@.*[]()?,:=!<>&|'\"\\-+/0129abelnuzCDLp{}^ _")) \cup {Rune(233), Tab, Rune(27), BadByte}

=============================================================================
