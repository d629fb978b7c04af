--------------------------------- MODULE Lexer ---------------------------------
(***************************************************************************)
(* The lexer, internal/lexer/lex.go.  A source is a sequence of            *)
(* characters.  A printable ASCII character is the string of it; any other *)
(* is "U+" and its code point in decimal; BadByte is a byte that is not    *)
(* part of a UTF-8 sequence, and EOF what the lexer reads past the end.    *)
(* Offsets count characters from 1.  A token [kind, start, end, value]     *)
(* covers the characters from start up to, not including, end; value is    *)
(* the decoded content of a String.  No token depends on an earlier one,   *)
(* so Scan is an operator of the source and the lexer's position.          *)
(***************************************************************************)
EXTENDS Integers, Sequences, FiniteSets, FiniteSetsExt, TLC

BadByte == "bad byte"
EOF     == "EOF"

Tab     == "U+9"
Newline == "U+10"
Return  == "U+13"

isBlankSpace == {" ", Tab, Newline, Return}

\* The printable ASCII characters in the order of their codes; the backquote is
\* not a character SANY allows in a string.
ASCII ==
    << " ", "!", "\"", "#", "$", "%", "&", "'", "(", ")", "*", "+", ",", "-", ".", "/",
       "0", "1", "2", "3", "4", "5", "6", "7", "8", "9", ":", ";", "<", "=", ">", "?",
       "@", "A", "B", "C", "D", "E", "F", "G", "H", "I", "J", "K", "L", "M", "N", "O",
       "P", "Q", "R", "S", "T", "U", "V", "W", "X", "Y", "Z", "[", "\\", "]", "^", "_",
       "U+96", "a", "b", "c", "d", "e", "f", "g", "h", "i", "j", "k", "l", "m", "n", "o",
       "p", "q", "r", "s", "t", "u", "v", "w", "x", "y", "z", "{", "|", "}", "~" >>

\* The character with a code point.
Rune(n) == IF n \in 32 .. 126 THEN ASCII[n - 31] ELSE "U+" \o ToString(n)

Runes(first, last) == {Rune(n) : n \in first .. last}

isDigit == Runes(48, 57)
Lower   == Runes(97, 122)
Upper   == Runes(65, 90)

\* The characters above U+007F and the control characters that are in use.
Wide     == {Rune(233), Rune(128512)}
Controls == {Rune(8), Tab, Newline, Rune(12), Return, Rune(27)}

\* A stray byte decodes to U+FFFD, which is a name character.
isNameFirst == Lower \cup Upper \cup {"_"} \cup Wide \cup {BadByte}
isNameChar  == isNameFirst \cup isDigit

isUnescaped(r, quote) == r \notin Controls \cup {quote, "\\"}

-----------------------------------------------------------------------------
At(s, i) == IF i <= Len(s) THEN s[i] ELSE EOF

\* The first position from i on that is not in the class.
SkipWhile(s, i, class) == Min({j \in i .. Len(s) + 1 : At(s, j) \notin class})

Token(kind, i, j) == [kind |-> kind, start |-> i, end |-> j, value |-> <<>>]
Invalid(i)        == Token("Invalid", i, i)

\* A failure is reported at the start of the token, or at the character that
\* was read when that is a stray byte.
InvalidAt(s, start, i) == Invalid(IF At(s, i) = BadByte THEN i ELSE start)

Keywords == (<<"t", "r", "u", "e">> :> "True") @@ (<<"f", "a", "l", "s", "e">> :> "False")
            @@ (<<"n", "u", "l", "l">> :> "Null")

Text(s, tok) == SubSeq(s, tok.start, tok.end - 1)

scanIdent(s, i) ==
    LET end == SkipWhile(s, i, isNameChar)
        raw == SubSeq(s, i, end - 1)
        bad == {j \in i .. end - 1 : s[j] = BadByte}
    IN  IF bad # {} THEN Invalid(Min(bad))
        ELSE Token(IF raw \in DOMAIN Keywords THEN Keywords[raw] ELSE "Ident", i, end)

scanNumber(s, i) ==
    LET int     == IF s[i] = "-" THEN i + 1 ELSE i
        intEnd  == IF At(s, int) = "0" THEN int + 1 ELSE SkipWhile(s, int, isDigit)
        hasFrac == At(s, intEnd) = "."
        fracEnd == IF hasFrac THEN SkipWhile(s, intEnd + 1, isDigit) ELSE intEnd
        hasExp  == At(s, fracEnd) \in {"e", "E"}
        exp     == fracEnd + IF At(s, fracEnd + 1) \in {"+", "-"} THEN 2 ELSE 1
        expEnd  == IF hasExp THEN SkipWhile(s, exp, isDigit) ELSE fracEnd
    IN  IF At(s, int) \notin isDigit THEN InvalidAt(s, i, int)
        ELSE IF s[int] = "0" /\ At(s, intEnd) \in isDigit THEN Invalid(i)
        ELSE IF hasFrac /\ fracEnd = intEnd + 1 THEN InvalidAt(s, i, fracEnd)
        ELSE IF hasExp /\ expEnd = exp THEN InvalidAt(s, i, exp)
        ELSE Token(IF hasFrac \/ hasExp THEN "Number" ELSE "Int", i, expEnd)

-----------------------------------------------------------------------------
\* What an escape decodes to, and where the lexer then is; without a rune the
\* escape is invalid and next is where it stopped.
Decoded(r, next) == [rune |-> <<r>>, next |-> next]
NotDecoded(next) == [rune |-> <<>>, next |-> next]

hexVal == [c \in isDigit \cup Runes(97, 102) \cup Runes(65, 70) |->
              CHOOSE v \in 0 .. 15 :
                  c \in IF v < 10 THEN {Rune(48 + v)} ELSE {Rune(87 + v), Rune(55 + v)}]

\* scanHex4: where it stops, i + 4 when there are four digits, and their value.
hexEnd(s, i) == Min({i + 4} \cup {j \in i .. i + 3 : At(s, j) \notin DOMAIN hexVal})

scanHex4(s, i) ==
    4096 * hexVal[s[i]] + 256 * hexVal[s[i + 1]] + 16 * hexVal[s[i + 2]] + hexVal[s[i + 3]]

HighSurrogate == 55296 .. 56319   \* D800-DBFF
LowSurrogate  == 56320 .. 57343   \* DC00-DFFF

\* utf16.DecodeRune on a high and a low surrogate.
DecodeRune(high, low) == 65536 + 1024 * (high - 55296) + (low - 56320)

\* Mutant: a low surrogate on its own is an ordinary character.
scanUnicodeEscapeLoneLow(s, i) ==
    LET end  == hexEnd(s, i)
        low  == hexEnd(s, end + 2)
    IN  IF end < i + 4 THEN NotDecoded(end)
        ELSE IF scanHex4(s, i) \notin HighSurrogate THEN Decoded(Rune(scanHex4(s, i)), end)
        ELSE IF At(s, end) # "\\" THEN NotDecoded(end)
        ELSE IF At(s, end + 1) # "u" THEN NotDecoded(end + 1)
        ELSE IF low < end + 6 \/ scanHex4(s, end + 2) \notin LowSurrogate THEN NotDecoded(low)
        ELSE Decoded(Rune(DecodeRune(scanHex4(s, i), scanHex4(s, end + 2))), low)

\* i is after the 'u'.
scanUnicodeEscape(s, i) ==
    LET end  == hexEnd(s, i)
        low  == hexEnd(s, end + 2)
    IN  IF end < i + 4 THEN NotDecoded(end)
        ELSE IF scanHex4(s, i) \notin HighSurrogate \cup LowSurrogate
        THEN Decoded(Rune(scanHex4(s, i)), end)
        ELSE IF scanHex4(s, i) \in LowSurrogate \/ At(s, end) # "\\" THEN NotDecoded(end)
        ELSE IF At(s, end + 1) # "u" THEN NotDecoded(end + 1)
        ELSE IF low < end + 6 \/ scanHex4(s, end + 2) \notin LowSurrogate THEN NotDecoded(low)
        ELSE Decoded(Rune(DecodeRune(scanHex4(s, i), scanHex4(s, end + 2))), low)

Escapes == ("b" :> Rune(8)) @@ ("f" :> Rune(12)) @@ ("n" :> Newline) @@ ("r" :> Return)
           @@ ("t" :> Tab) @@ ("/" :> "/") @@ ("\\" :> "\\")

\* i is at the backslash.
scanEscape(s, i, quote) ==
    LET r == At(s, i + 1)
    IN  IF r = quote THEN Decoded(quote, i + 2)
        ELSE IF r \in DOMAIN Escapes THEN Decoded(Escapes[r], i + 2)
        ELSE IF r = "u" THEN scanUnicodeEscape(s, i + 2)
        ELSE NotDecoded(i + 1)

\* The loop of scanString at i, with what it has decoded.
RECURSIVE stringLoop(_, _, _, _)
stringLoop(s, start, i, buf) ==
    LET quote  == s[start]
        r      == At(s, i)
        escape == scanEscape(s, i, quote)
    IN  IF r = EOF THEN Invalid(start)
        ELSE IF r = BadByte THEN Invalid(i)
        ELSE IF r = quote THEN [Token("String", start, i + 1) EXCEPT !.value = buf]
        ELSE IF r = "\\"
        THEN IF escape.rune = <<>> THEN InvalidAt(s, start, escape.next)
             ELSE stringLoop(s, start, escape.next, buf \o escape.rune)
        ELSE IF isUnescaped(r, quote) THEN stringLoop(s, start, i + 1, Append(buf, r))
        ELSE Invalid(start)

scanString(s, start) == stringLoop(s, start, start + 1, <<>>)

-----------------------------------------------------------------------------
Single == ("$" :> "Dollar") @@ ("@" :> "At") @@ ("[" :> "LeftBracket") @@ ("]" :> "RightBracket")
          @@ ("(" :> "LeftParen") @@ (")" :> "RightParen") @@ ("*" :> "Star")
          @@ ("?" :> "Question") @@ ("," :> "Comma") @@ (":" :> "Colon") @@ ("." :> "Dot")
          @@ ("!" :> "Not") @@ ("<" :> "Less") @@ (">" :> "Greater")

Double == (<<".", ".">> :> "DotDot") @@ (<<"=", "=">> :> "Equal") @@ (<<"!", "=">> :> "NotEqual")
          @@ (<<"<", "=">> :> "LessEqual") @@ (<<">", "=">> :> "GreaterEqual")
          @@ (<<"&", "&">> :> "And") @@ (<<"|", "|">> :> "Or")

Scan(s, pos) ==
    LET i == SkipWhile(s, pos, isBlankSpace)
        r == At(s, i)
    IN  IF r = EOF THEN Token("EOF", i, i)
        ELSE IF r = BadByte THEN Invalid(i)
        ELSE IF <<r, At(s, i + 1)>> \in DOMAIN Double
        THEN Token(Double[<<r, At(s, i + 1)>>], i, i + 2)
        ELSE IF r \in DOMAIN Single THEN Token(Single[r], i, i + 1)
        ELSE IF r \in {"'", "\""} THEN scanString(s, i)
        ELSE IF r = "-" \/ r \in isDigit THEN scanNumber(s, i)
        ELSE IF r \in isNameFirst THEN scanIdent(s, i)
        ELSE Invalid(i)

\* The loop of parser.New: tokens up to the end or the first invalid one.
RECURSIVE ScanAll(_, _)
ScanAll(s, pos) ==
    LET tok == Scan(s, pos)
    IN  IF tok.kind \in {"EOF", "Invalid"} THEN <<tok>>
        ELSE <<tok>> \o ScanAll(s, tok.end)
=============================================================================
