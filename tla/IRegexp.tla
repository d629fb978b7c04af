-------------------------------- MODULE IRegexp --------------------------------
(***************************************************************************)
(* The checker of I-Regexp patterns, internal/functions/iregexp.go, on the *)
(* characters of Lexer, and the grammar of RFC 9485 it is compared with.   *)
(* A check answers [ok, at]: the offset it has reached, or that of the     *)
(* error.                                                                  *)
(***************************************************************************)
EXTENDS Lexer, SequencesExt

Reached(i)    == [ok |-> TRUE, at |-> i]
Fails(i)      == [ok |-> FALSE, at |-> i]
GoOn(r, F(_)) == IF r.ok THEN F(r.at) ELSE r

isNormalIRegexpChar ==
    Controls \cup Wide \cup {",", "-"}
    \cup Runes(32, 39) \cup Runes(47, 62) \cup Runes(64, 90) \cup Runes(94, 122) \cup Runes(126, 126)

isIRegexpSingleCharEscape ==
    Runes(40, 43) \cup {"-", ".", "?"} \cup Runes(91, 94) \cup {"n", "r", "t"} \cup Runes(123, 125)

isIRegexpCharacterClassChar ==
    Controls \cup Wide \cup Runes(32, 44) \cup Runes(46, 90) \cup Runes(94, 126)

\* The categories: a letter, alone or with one of the letters it admits.
Subcategories ==
    [ L |-> {"l", "m", "o", "t", "u"}, M |-> {"c", "e", "n"}, N |-> {"d", "l", "o"},
      P |-> {"c", "d", "e", "f", "i", "o", "s"}, Z |-> {"l", "p", "s"},
      S |-> {"c", "k", "m", "o"}, C |-> {"c", "f", "n", "o"} ]

isIRegexpUnicodeProperty(property) ==
    /\ Len(property) \in {1, 2}
    /\ property[1] \in DOMAIN Subcategories
    /\ Len(property) = 2 => property[2] \in Subcategories[property[1]]

\* i is after \p; start is the backslash.
checkUnicodeProperty(s, i, start) ==
    LET close == SkipWhile(s, i + 1, ToSet(s) \ {"}"})
    IN  IF At(s, i) # "{" \/ close > Len(s) THEN Fails(start)
        ELSE IF isIRegexpUnicodeProperty(SubSeq(s, i + 1, close - 1)) THEN Reached(close + 1)
        ELSE Fails(i + 1)

checkEscape(s, i) ==
    CASE At(s, i + 1) \in isIRegexpSingleCharEscape -> Reached(i + 2)
      [] At(s, i + 1) \in {"p", "P"} -> checkUnicodeProperty(s, i + 2, i)
      [] OTHER -> Fails(i)

checkQuantifier(s, i, canQuantify) ==
    LET lower == SkipWhile(s, i + 1, isDigit)
        upper == IF At(s, lower) = "," THEN SkipWhile(s, lower + 1, isDigit) ELSE lower
    IN  IF ~canQuantify THEN Fails(i)
        ELSE IF s[i] # "{" THEN Reached(i + 1)
        ELSE IF lower = i + 1 \/ At(s, upper) # "}" THEN Fails(i)
        ELSE Reached(upper + 1)

checkCharacterClassChar(s, i) ==
    IF At(s, i) = "\\"
    THEN IF At(s, i + 1) \in isIRegexpSingleCharEscape THEN Reached(i + 2) ELSE Fails(i)
    ELSE IF At(s, i) \in isIRegexpCharacterClassChar THEN Reached(i + 1) ELSE Fails(i)

\* Mutant: a hyphen always makes a range.
checkCharacterClassElementRange(s, i) ==
    IF At(s, i) = "\\" /\ At(s, i + 1) \in {"p", "P"} THEN checkUnicodeProperty(s, i + 2, i)
    ELSE GoOn(checkCharacterClassChar(s, i), LAMBDA j :
              IF At(s, j) # "-" THEN Reached(j) ELSE checkCharacterClassChar(s, j + 1))

\* A category, or a character or range; a hyphen before the bracket is left.
checkCharacterClassElement(s, i) ==
    IF At(s, i) = "\\" /\ At(s, i + 1) \in {"p", "P"} THEN checkUnicodeProperty(s, i + 2, i)
    ELSE GoOn(checkCharacterClassChar(s, i), LAMBDA j :
              IF At(s, j) # "-" \/ At(s, j + 1) = "]" THEN Reached(j)
              ELSE checkCharacterClassChar(s, j + 1))

\* The loop over the elements after the first.
RECURSIVE classElements(_, _, _)
classElements(s, i, start) ==
    CASE At(s, i) = EOF -> Fails(start)
      [] At(s, i) = "]" -> Reached(i + 1)
      [] At(s, i) = "-" -> IF At(s, i + 1) = "]" THEN Reached(i + 2) ELSE Fails(i)
      [] OTHER -> GoOn(checkCharacterClassElement(s, i), LAMBDA j : classElements(s, j, start))

checkCharacterClass(s, start) ==
    LET i == IF At(s, start + 1) = "^" THEN start + 2 ELSE start + 1
    IN  IF At(s, i) \in {EOF, "]"} THEN Fails(start)
        ELSE GoOn(IF At(s, i) = "-" THEN Reached(i + 1) ELSE checkCharacterClassElement(s, i),
                  LAMBDA j : classElements(s, j, start))

\* The loop of check: the open groups and whether an atom ends at i.
RECURSIVE check(_, _, _, _)
check(s, i, openGroupOffsets, canQuantify) ==
    LET r == At(s, i)
        atom(j)       == check(s, j, openGroupOffsets, TRUE)
        quantified(j) == check(s, j, openGroupOffsets, FALSE)
    IN  CASE r = EOF ->
                IF openGroupOffsets = <<>> THEN Reached(i) ELSE Fails(Last(openGroupOffsets))
          [] r = "(" -> check(s, i + 1, Append(openGroupOffsets, i), FALSE)
          [] r = ")" -> IF openGroupOffsets = <<>> THEN Fails(i)
                        ELSE check(s, i + 1, Front(openGroupOffsets), TRUE)
          [] r = "|" -> check(s, i + 1, openGroupOffsets, FALSE)
          [] r = "[" -> GoOn(checkCharacterClass(s, i), atom)
          [] r = "\\" -> GoOn(checkEscape(s, i), atom)
          [] r = "." -> atom(i + 1)
          [] r \in {"*", "+", "?", "{"} -> GoOn(checkQuantifier(s, i, canQuantify), quantified)
          [] r \in isNormalIRegexpChar -> atom(i + 1)
          [] OTHER -> Fails(i)

checkIRegexp(pattern) ==
    IF BadByte \in ToSet(pattern) THEN Fails(0) ELSE check(pattern, 1, <<>>, FALSE)

-----------------------------------------------------------------------------
(* The grammar: a rule maps a position to the set of those where it may end. *)

Chars(s, i, class)   == IF At(s, i) \in class THEN {i + 1} ELSE {}
After(ends, Rule(_)) == UNION {Rule(j) : j \in ends}

SingleCharEsc(s, i) ==
    After(Chars(s, i, {"\\"}), LAMBDA j :
          Chars(s, j, ToSet(<<"(", ")", "*", "+", "-", ".", "?", "[", "\\", "]", "^", "n", "r", "t", "{", "|", "}">>)))

charProp(s, i) ==
    After(Chars(s, i, DOMAIN Subcategories), LAMBDA j : {j} \cup Chars(s, j, Subcategories[s[i]]))

charClassEsc(s, i) ==
    After(Chars(s, i, {"\\"}), LAMBDA j :
        After(Chars(s, j, {"p", "P"}), LAMBDA k :
            After(Chars(s, k, {"{"}), LAMBDA m :
                After(charProp(s, m), LAMBDA n : Chars(s, n, {"}"})))))

CCchar(s, i) ==
    SingleCharEsc(s, i)
    \cup Chars(s, i, (ToSet(s) \ {"-", "[", "\\", "]"}))

CCE1(s, i) ==
    charClassEsc(s, i) \cup CCchar(s, i)
    \cup After(CCchar(s, i), LAMBDA j : After(Chars(s, j, {"-"}), LAMBDA k : CCchar(s, k)))

RECURSIVE CCE1s(_, _)
CCE1s(s, i) == {i} \cup After(CCE1(s, i), LAMBDA j : CCE1s(s, j))

\* "[" ["^"] ("-" / CCE1) *CCE1 ["-"] "]", a leading "^" being the complement
\* sign, as in the XSD regular expressions that these are a subset of.
charClassExpr(s, i) ==
    After(Chars(s, i, {"["}), LAMBDA open :
        LET first == IF At(s, open) = "^" THEN open + 1 ELSE open
        IN  After(Chars(s, first, {"-"}) \cup CCE1(s, first), LAMBDA j :
                After(CCE1s(s, j), LAMBDA k :
                    After({k} \cup Chars(s, k, {"-"}), LAMBDA m : Chars(s, m, {"]"})))))

RECURSIVE Digits(_, _)
Digits(s, i) == After(Chars(s, i, isDigit), LAMBDA j : {j} \cup Digits(s, j))

Quantifier(s, i) ==
    Chars(s, i, {"*", "+", "?"})
    \cup After(Chars(s, i, {"{"}), LAMBDA j :
             After(Digits(s, j), LAMBDA k :
                 After({k} \cup After(Chars(s, k, {","}), LAMBDA m : {m} \cup Digits(s, m)), LAMBDA n :
                     Chars(s, n, {"}"}))))

RECURSIVE Branches(_, _)
RECURSIVE Branch(_, _)

Atom(s, i) ==
    Chars(s, i, ToSet(s) \ ToSet(<<"(", ")", "*", "+", ".", "?", "[", "\\", "]", "{", "|", "}">>))
    \cup Chars(s, i, {"."}) \cup SingleCharEsc(s, i) \cup charClassEsc(s, i) \cup charClassExpr(s, i)
    \cup After(Chars(s, i, {"("}), LAMBDA j : After(Branches(s, j), LAMBDA k : Chars(s, k, {")"})))

Branch(s, i) ==
    {i} \cup After(Atom(s, i), LAMBDA j :
                   After({j} \cup Quantifier(s, j), LAMBDA k : Branch(s, k)))

\* branch *("|" branch)
Branches(s, i) ==
    After(Branch(s, i), LAMBDA j :
          {j} \cup After(Chars(s, j, {"|"}), LAMBDA k : Branches(s, k)))

InGrammar(pattern) == BadByte \notin ToSet(pattern) /\ Len(pattern) + 1 \in Branches(pattern, 1)
=============================================================================
