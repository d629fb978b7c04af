---------------------------- MODULE NormalizedPath ----------------------------
(***************************************************************************)
(* What normalized.go computes from a NormalizedPath: its canonical string,*)
(* its JSON Pointer, the lengths it reserves for both, and the order that  *)
(* Sort and Deduplicate use.  A name is a sequence of code points, whose   *)
(* order is that of the UTF-8 bytes; so is a text that is written.         *)
(***************************************************************************)
EXTENDS PathValues, SequencesExt

\* A valid string is a sequence of code points.
ASSUME NameAssumption == ValidUTF8 \subseteq Seq(Nat)

Ch == [ b |-> 98, f |-> 102, n |-> 110, r |-> 114, t |-> 116, u |-> 117,
        zero |-> 48, one |-> 49, a |-> 97, quote |-> 39, backslash |-> 92,
        open |-> 91, close |-> 93, dollar |-> 36, slash |-> 47, tilde |-> 126,
        minus |-> 45 ]

\* The characters with a two-character escape, and the letter of each.
EscapeLetter == [r \in {8, 9, 10, 12, 13, Ch.quote, Ch.backslash} |->
                    CASE r = 8 -> Ch.b [] r = 9 -> Ch.t [] r = 10 -> Ch.n
                      [] r = 12 -> Ch.f [] r = 13 -> Ch.r [] OTHER -> r]

RuneLen(r) == IF r < 128 THEN 1 ELSE IF r < 2048 THEN 2 ELSE IF r < 65536 THEN 3 ELSE 4

\* The total a loop adds up.
Total(costs) ==
    LET sum[k \in 0 .. Len(costs)] == IF k = 0 THEN 0 ELSE sum[k - 1] + costs[k]
    IN  sum[Len(costs)]

ByteLen(text) == Total([k \in DOMAIN text |-> RuneLen(text[k])])

\* strconv.Itoa: the decimal digits, the first one first.
digitsOf[v \in Nat] ==
    IF v < 10 THEN <<Ch.zero + v>> ELSE Append(digitsOf[v \div 10], Ch.zero + (v % 10))

Itoa(v) == IF v < 0 THEN <<Ch.minus>> \o digitsOf[-v] ELSE digitsOf[v]

lowerHex(v) == IF v < 10 THEN Ch.zero + v ELSE Ch.a + (v - 10)

-----------------------------------------------------------------------------
\* Mutant: the quote is not escaped.
escapeRuneKeepsQuote(r) ==
    IF r \in DOMAIN EscapeLetter \ {Ch.quote} THEN <<Ch.backslash, EscapeLetter[r]>>
    ELSE <<r>>

\* One character of NameElement.writeNormalizedTo.
escapeRune(r) ==
    IF r \in DOMAIN EscapeLetter THEN <<Ch.backslash, EscapeLetter[r]>>
    ELSE IF r < 32
    THEN <<Ch.backslash, Ch.u, Ch.zero, Ch.zero, lowerHex(r \div 16), lowerHex(r % 16)>>
    ELSE <<r>>

writeNormalizedTo(step) ==
    IF step.kind = pathStepName
    THEN <<Ch.open, Ch.quote>>
            \o FlattenSeq([k \in DOMAIN step.name |-> escapeRune(step.name[k])])
            \o <<Ch.quote, Ch.close>>
    ELSE <<Ch.open>> \o Itoa(step.index) \o <<Ch.close>>

\* NormalizedPath.String, and MarshalText
String(p) == <<Ch.dollar>> \o FlattenSeq([k \in DOMAIN p |-> writeNormalizedTo(p[k])])

\* Mutant: the tilde is not escaped.
pointerRuneKeepsTilde(r) == IF r = Ch.slash THEN <<Ch.tilde, Ch.one>> ELSE <<r>>

\* One character of NameElement.writePointerTo.
pointerRune(r) ==
    CASE r = Ch.tilde -> <<Ch.tilde, Ch.zero>>
      [] r = Ch.slash -> <<Ch.tilde, Ch.one>>
      [] OTHER -> <<r>>

writePointerTo(step) ==
    IF step.kind = pathStepName
    THEN FlattenSeq([k \in DOMAIN step.name |-> pointerRune(step.name[k])])
    ELSE Itoa(step.index)

Pointer(p) == FlattenSeq([k \in DOMAIN p |-> <<Ch.slash>> \o writePointerTo(p[k])])

-----------------------------------------------------------------------------
\* The loop of digits10 on a value above zero.
digitLoop[v \in Nat] == IF v = 0 THEN 0 ELSE 1 + digitLoop[v \div 10]

digits10(v) == IF v = 0 THEN 1 ELSE IF v < 0 THEN 1 + digitLoop[-v] ELSE digitLoop[v]

\* Mutant: a control character is counted as one byte.
normalizedRuneLenPlain(r) == IF r \in DOMAIN EscapeLetter THEN 2 ELSE RuneLen(r)

normalizedRuneLen(r) ==
    IF r \in DOMAIN EscapeLetter THEN 2 ELSE IF r < 32 THEN 6 ELSE RuneLen(r)

normalizedLen(p) ==
    LET StepLen(step) ==
            IF step.kind = pathStepName
            THEN 4 + Total([k \in DOMAIN step.name |-> normalizedRuneLen(step.name[k])])
            ELSE 2 + digits10(step.index)
    IN  1 + Total([k \in DOMAIN p |-> StepLen(p[k])])

pointerRuneLen(r) == IF r \in {Ch.tilde, Ch.slash} THEN 2 ELSE RuneLen(r)

pointerLen(p) ==
    LET StepLen(step) ==
            1 + IF step.kind = pathStepName
                THEN Total([k \in DOMAIN step.name |-> pointerRuneLen(step.name[k])])
                ELSE digits10(step.index)
    IN  Total([k \in DOMAIN p |-> StepLen(p[k])])

-----------------------------------------------------------------------------
Cmp(a, b) == IF a < b THEN -1 ELSE IF a > b THEN 1 ELSE 0

\* The first elements that compare unequal decide, then the lengths.
Lexicographic(s, t, C(_, _)) ==
    LET differ == {k \in DOMAIN s \cap DOMAIN t : C(s[k], t[k]) # 0}
    IN  IF differ = {} THEN Cmp(Len(s), Len(t))
        ELSE LET k == CHOOSE k \in differ : \A j \in differ : k <= j
             IN  C(s[k], t[k])

\* Mutant: the kinds are not compared, so a name is taken for the index 0.
compareStepsByIndex(v1, v2) ==
    IF v1.kind = pathStepName /\ v2.kind = pathStepName
    THEN Lexicographic(v1.name, v2.name, Cmp)
    ELSE Cmp(v1.index, v2.index)

\* The body of the loop of Compare: not zero when it returns.
compareSteps(v1, v2) ==
    IF v1.kind = pathStepName /\ v2.kind = pathStepName
    THEN Lexicographic(v1.name, v2.name, Cmp)
    ELSE IF v1.kind # v2.kind
    THEN Cmp(v1.kind, v2.kind)
    ELSE Cmp(v1.index, v2.index)

Compare(p, q) == Lexicographic(p, q, compareSteps)

Equal(p, q) == Compare(p, q) = 0

-----------------------------------------------------------------------------
Shown == {StepsOf(paths[k]) : k \in DOMAIN paths}

\* A canonical string identifies its path: whatever quotes, backslashes,
\* brackets and control characters names contain, different paths have
\* different strings.
StringIdentifies ==
    \A p, q \in Shown : String(p) = String(q) => p = q

\* A JSON Pointer identifies its path up to what RFC 6901 leaves open, whether
\* a token of digits is an index or a name.
PointerIdentifies ==
    LET Token(step) == IF step.kind = pathStepName THEN step.name ELSE Itoa(step.index)
    IN  \A p, q \in Shown :
            Pointer(p) = Pointer(q) =>
                [k \in DOMAIN p |-> Token(p[k])] = [k \in DOMAIN q |-> Token(q[k])]

\* normalizedLen and pointerLen reserve exactly the bytes that are written:
\* the two walks over a name agree on every escape.
LengthsExact ==
    \A p \in Shown : /\ normalizedLen(p) = ByteLen(String(p))
                     /\ pointerLen(p) = ByteLen(Pointer(p))

\* Compare is a total order, as Sort needs for a result that does not depend
\* on the input's order.  It is zero on equal paths only, so Deduplicate
\* drops no node at another location and, as equal paths have equal hashes,
\* misses no duplicate.
CompareIsOrder ==
    \A p, q \in Shown :
        /\ Equal(p, q) <=> p = q
        /\ Compare(p, q) = -Compare(q, p)
        /\ Compare(p, q) <= 0 =>
               \A r \in Shown : Compare(q, r) <= 0 => Compare(p, r) <= 0
=============================================================================
