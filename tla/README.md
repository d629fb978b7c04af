# A TLA+ verification of go-jsonpath

This directory models go-jsonpath, an implementation of RFC 9535 JSONPath, in
TLA+, from the text of a query to the nodes it selects: what TLC checks on small
instances and what TLAPS proves for every instance. Paths below are relative to the repository.

## The system

| part | where | state | operations |
|---|---|---|---|
| Array access | `internal/ast/array.go` | none; loop variables | `NormalizeIndex`, `ResolveSliceBounds`, `Count`, `ForEachSliceIndex` |
| Children and descent | `internal/ast/child.go`, `segment.go` | an explicit stack | `ForEachChild`, `ForEachChildReverse`, `appendDescendant` |
| Plain selection | `internal/ast/query.go`, `segment.go`, `selector.go` | none between calls | `PathQuery.Select`, `Segment.Apply`, `Selector.Apply` |
| Located selection | `jsonpath.go` | node list, output, stack of frames | `Path.SelectLocated`, `applySegmentLocated`, `appendDescendantLocated` |
| Filters | `internal/ast/filter.go`, `function.go`, `runtime_value.go` | none | `Eval` of each expression, `CompExpr.Eval`, `FuncExpr.Call` |
| Numbers | `internal/ast/number.go` | none | `compareJSONNumbers` |
| Built-ins | `internal/functions/builtins.go` | none | `length`, `count`, `value`, `match`, `search` |
| Regexp cache | `internal/functions/builtins.go` | `reCache` (a `sync.Map`), `reCacheSize` (atomic), shared by the process | `compileIRegexpMode` |
| Located node lists | `result.go` | the caller's backing array | `Deduplicate`, `Sort` |
| Normalized paths | `normalized.go` | immutable step slices | `Append`, `Compare`, `String`, `Pointer`, `hash` |
| Lexer, parser | `internal/lexer`, `internal/parser`, `NewFuncExpr` of `internal/ast/function.go` | position in the tokens, record of the first non-singular selector, rewind | `Scan`, `Parse` |
| AST printing | `writeTo` methods of `internal/ast` | none | `PathQuery.String` |
| Options, registry | `options.go` | the shared table of built-ins, slices captured by options, the table of a `Parser` | `New…Function`, `WithFunctions`, `NewParser`, `registerFunctions` |
| JSON input | `json.go`, `parse.go` | none | `QueryJSON*`, `UnmarshalText` |
| I-Regexp checker | `internal/functions/iregexp.go` | position in a pattern, stack of open groups | `checkIRegexp` |

A path is parsed once and is immutable afterwards; any number of goroutines
evaluate it. Evaluation is sequential within a goroutine and calls downwards
only: selection applies segments, a segment applies selectors, a filter selector
evaluates an expression, which selects again for its queries and calls
functions. The one piece of mutable state that evaluations share is the regexp
cache; callers and parsers besides share slices and the table of built-ins. That
is where the interleavings are. Everything else that is hard here is hard for
another reason: two engines that must agree, results whose order is an accident
of a stack, int64 arithmetic on caller-supplied bounds, a list that is compacted
while it is read, numbers of five representations that compare as if they were
one, a parser that reads some tokens twice, and texts that must be read back as
they were written. `PROJECT.json` lists these hazards at their lines.

## Modules

| module | models | how |
|---|---|---|
| `ArrayBounds` | `array.go` | operators in int64 arithmetic; `RFCSlice` is the reference |
| `ArrayAccess` | `applySlice`, `appendSliceLocated`, the index case of `Apply` | machine: `SelectIndex`, or `Resolve`, `Visit`*, `Finish` |
| `DescendantWalk` | the loop of `appendDescendant(Located)` | machine over an ordered tree numbered in document order; one action, `Pop` |
| `RegexpCache` | `compileIRegexpMode` | one action per atomic call (`Load`, `Clear`, `Store(0)`, `LoadOrStore`, `Add`), any number of goroutines |
| `RegexpOracle` | what callers need of it | abstract: `Ask`, `Answer`; no cache |
| `Deduplicate` | `deduplicateWithHasher` | one action per branch of the loop; the hash function is arbitrary |
| `JSONValues` | decoded values, `child.go` | operators |
| `RuntimeValues` | `runtime_value.go`, comparison helpers of `filter.go` | operators; `jsonEqual` is a recursive function on pairs of values |
| `FilterComparison` | `CompExpr.Eval` | a pair of operands, all six operators |
| `NumberComparison` | `number.go` | a pair of numbers, `compareJSONNumbers` |
| `BuiltinFunctions` | `builtins.go` | operators; regular expressions are a relation |
| `Selectors` | `Selector.Apply`, `OutputEstimate` | operators, shared by both engines |
| `PlainSelection` | `Path.Select`, `Segment.Apply`, `appendDescendant` | machine: one action per segment, node and turn of the stack; what a filter holds for is a parameter |
| `LocatedSelection` | `SelectLocated` | the same of the located engine, whose nodes and frames carry paths; it implements `PlainSelection` |
| `FilterEvaluation` | `filter.go`, `function.go` and the selections they make | mutually recursive operators, as the Go functions are |
| `SelectionReference` | RFC 9535 | a query denotes a list of locations; no stack, no carried values |
| `Selection` | `SelectLocated` with the filters of `FilterEvaluation` | composition |
| `PathValues` | `NewNormalizedPath`, `Append`, `extendPath` | machine on backing arrays: `New`, `AppendTo`, `Extend` |
| `NormalizedPath` | `Compare`, `String`, `Pointer`, `normalizedLen`, `pointerLen` | operators on the steps of those paths, names as code points |
| `Singular` | `IsSingular` | operators, of the parser and of selection |
| `Lexer` | `lex.go` | operators of the source and a position, on characters |
| `Parser` | `parse.go`, `newFunctionArgument`, `NewFuncExpr` | one operator per parse method: the parser struct goes in, the struct and a piece of AST or an error come out |
| `Printer` | the `writeTo` methods | operators from AST to text |
| `QueryGrammar` | RFC 9535 | reference: the set of ASTs the grammar derives for a text, character by character, with no tokens, no lookahead and no state |
| `IRegexp` | `iregexp.go` | operators; its second half is the RFC 9485 grammar as a reference |
| `Compile` | `parse` of `options.go`, `parse.go`, the call of `checkIRegexp` | machine: a text is edited, scanned (`New`), parsed (`ParseTokens`), printed (`MarshalText`) and parsed back (`UnmarshalText`), or checked as a pattern |
| `FunctionRegistry` | `options.go` | machine on backing arrays and maps; `NewParser` is one step per option and function, so that callers and other goroutines come between |

`MC*` modules give the constants of a run; `*Proofs` modules hold theorems, and
`NaturalRecursion` the induction they use.
`ArrayAccess` extends `ArrayBounds`; `FilterComparison` and `BuiltinFunctions`
stand on `RuntimeValues`; `PlainSelection`, `LocatedSelection` and
`FilterEvaluation` share `Selectors`, and `Selection` composes the last two with
`SelectionReference`; `NormalizedPath` extends `PathValues`; `Compile` composes
`Lexer`, `Parser`, `Printer`, `QueryGrammar` and `IRegexp`. Operators named as
mutants in a comment are deliberately wrong variants of the definition after
them; no specification uses them, they show that a property notices the mistake.

`PathQuery.Select` is modelled twice, for two questions. As the machine
`PlainSelection` it is what the other engine implements, step by step; there and
in `LocatedSelection` `FilterExpr.Eval` is the constant operator `FilterHolds`,
of which nothing is assumed: the two engines call the same code. As the operator
`Select` of `FilterEvaluation` it is what a query inside a filter evaluates to.
The run `selection` gives `FilterHolds` what `Eval` computes, enumerated once in
`MCHolding`, and ties the two.

Abstractions. Strings and member names are naturals in Go's string order, except
in `NormalizedPath` and `Compile`, whose properties are about their characters.
In `Compile` offsets count characters, not bytes, an error is its offset and its
cause, and a byte outside UTF-8 is a character of its own; of a Path that calls
functions only their signatures matter. In `FunctionRegistry` a name is valid or
not (`ValidNames`), a callback is nil or not, and errors are the places of the
functions they are about. `hash` is an
arbitrary function of the path (its input is not delimited, so collisions need
no luck: the name `ai1` and the steps `a`, 1 feed it the same bytes); documents
are JSON, so the names in them are valid UTF-8. A
number carries its value and its Go representation; how two representations are
compared is abstracted in `RuntimeValues` (exact) and modelled in
`NumberComparison`. A compiled regexp is identified with what it was compiled
from. Capacity of a slice is modelled in `LocatedSelection` only as far as `make`
and `slices.Grow` reserve it. Numbers keep their width where it matters: `Int64`
wraps, `Uint64` is the wrapping conversion.

## Runs

| run | checks | bounds |
|---|---|---|
| `array_access` | `IndexInArray`, `MatchesRFC`, `CountExact` | lengths 0..5, all bounds and steps in -7..7, present or absent; past 2 lengths in either direction bounds behave alike |
| `descendant_walk` | `DocumentOrder` | all ordered trees of up to 6 nodes, every start node |
| `regexp_cache` | `CacheSound`, `CacheBounded`, `Transparent` (refinement of `RegexpOracle`, with its liveness) | 2 goroutines, 2 valid and 1 invalid pattern in both modes, cache size 1: overflow and clears happen and the bound, 3, is reached |
| `deduplicate` | `KeepsFirstOccurrences`, `TailCleared`, `UnreadIntact` | lists of up to 4 nodes, 3 paths, 2 hashes: three paths can collide |
| `filter_comparison` | `OrderedTypesTotal`, `EqualityIsCongruence`, `OrderIsTransitive` | 23 runtime values, every type, nested containers |
| `filter_comparison_rfc` | `LessEqualFollowsRFC` **violated** | the same |
| `number_comparison` | `ExactUnlessFormattedUp` | 4-bit words, 3-bit significands, decimals of up to 3 digits around powers of ten |
| `number_comparison_exact` | `ExactOrder` **violated** | the same |
| `selection` | `ParityWithSelect`, `MatchesReference`, `PathsResolve`, `SingularAtMostOne`, `ReservationSuffices`, `ImplementsPlain` (refinement of `PlainSelection`), `Terminates` | 5 documents, 460 queries of up to two segments over every selector and expression kind |
| `normalized_path` | `Immutable`, `Rebuildable`, `CompareIsOrder`, `StringIdentifies`, `PointerIdentifies`, `LengthsExact` | 4 paths of up to 2 steps over names chosen to be confused once escaped (`']['` and two empty names, `/` and `~1`, control and three-byte characters), an invalid name, indexes -1, 0 and 10: two siblings of one prefix exist, and any three paths are compared |
| `registry` | `ReportsEveryOffender`, `ParsersKnowTheirFunctions`, `BuiltinsKept` | 2 goroutines, a slice of 2 functions, up to 2 cloned parameter lists, 1 option given up to twice, 2 parsers: a parameter list is rewritten after it was passed, an option is shared between calls, given twice or nil, a name is a built-in's or used twice |
| `compile` | `MatchesGrammar`, `RoundTrip`, `CulpritReported`, `LinearWork`, `PatternMatchesGrammar` | 45 texts over every construct, and every text one insertion, deletion or replacement of a character away, each with the built-in functions and with three more; the largest JSON integer is 12 |

One edit is enough for the cases a parser gets wrong: a blank where none may be,
a token joined with or cut from its neighbour, a bracket too many, a digit that
makes a number too large, a query of which one selector is not singular, an
argument of another type. The seeds nest calls three deep, so that `LinearWork`
fails when an argument is parsed twice at every level.

In `normalized_path` a call that fails hands out the zero path with its error, and
the caller may keep and extend it. `given` records what each call owed: every step
asked for, or none. `Rebuildable` compares that with what the path's own elements
make, so a valid prefix that came out with an error is caught although it can be
rebuilt.

`Terminates` says only that the loops of located selection end; that none of them
ends too early is what `MatchesReference` shows.

Runs switch the deadlock check off where the modelled call returns; in
`RegexpCache` some goroutine can always call again and the check stays on.

Fairness. `RegexpCache` assumes weak fairness of each goroutine's steps inside
`compileIRegexpMode`: none of the calls blocks and the Go scheduler runs every
runnable goroutine. No fairness makes a goroutine call. `LocatedSelection`
assumes weak fairness of its single goroutine, which never blocks.

### What the violated runs show

* RFC 9535 defines `a <= b` as `a < b` or `a == b`. `CompExpr.Eval` first asks
  for `sameType`, so two absent values, two equal arrays or two equal objects
  are `==` and not `<=`.
* `floatDecimalMagnitude` counts the digits of a float's shortest decimal form.
  float64 1e23 is 99999999999999991611392 and formats as `1e+23`: one digit too
  many, so it is ordered above 99999999999999999999999. In the scaled run the
  float is 96, which a three-bit significand formats as `1e+02`.
  `ExactUnlessFormattedUp` shows that these floats are the only inexact case.

Two observations without a run of their own. The comment on `reCache`
(`builtins.go:20`) promises at most `reCacheMaxSize` entries; two goroutines can
pass the size check together, and one delayed between `Clear` and `Store(0)` lets
others fill the map again, so that the bound for N goroutines is the one of
`CacheBounded`, N * max + N(N-1)/2. And RFC 9485 read by its ABNF alone would let
`[^]` be a class of one caret; the checker takes a leading `^` for the
complement, as XSD does, and so does the reference.

## Proofs

Each proof module proves an inductive invariant and derives the properties from
it; assumptions are the named `ASSUME`s of the component modules.

* `SelectionProofs` is about the selection runtime, in four parts.
  - Array access, from `WidthAssumption` (the array length plus twice the largest
    JSON integer fits an int64): `AccessInv` says that inside the loop `i` is the
    start plus `Len(indexes)` steps, that `indexes` is that arithmetic
    progression, and that the bounds are the normalized ones; `IndexInArray`,
    `MatchesRFC` and `CountExact` follow by arithmetic on the progression, with a
    lemma on division with remainder. The invariant is needed because the
    properties speak of the finished list only.
  - The descendant walk, from `TreesAssumption`: the stack, read from the top, is
    a sequence of adjacent intervals of the document order that begins with the
    next unvisited node and ends with the last node of the subtree (`WalkInv`).
  - Located selection, from `ValuesAssumption` (arrays and objects hold values
    and nest finitely deep), `InputsAssumption` (the documents are values whose
    arrays have at most `MaxLen` elements) and `QueriesAssumption` (queries are
    what the parser makes: rooted, with indexes in the JSON range): for every set
    of documents and queries and any meaning of filters. `SelectionInv` has five
    parts. `NodesResolve`: every located node has a path that leads to its value,
    by steps that exist; `PathsResolve` alone says too little of a value to know
    that its children resolve. `InLoops`: where the loops are, so that the
    segment and the node they speak of exist. `Reservation`: a child segment
    reserves a place per node at its start, and a single name or index, for which
    nothing is reserved later, uses at most one for every node processed; without
    that count `ReservationSuffices` is not inductive. `Singularity`: a singular
    query never descends and has no two nodes, which needs the count as well. What
    selectors append is bounded by `OutputEstimate` (`SelectorAppends`,
    `SelectorsAppend`); for slices this is the arithmetic of `Count` again, on the
    recursive `SliceIndexes`.
  - `LocatedRefinesPlain`, from the same assumptions: with paths dropped, every
    step of `LocatedSelection` is the step of the same name of `PlainSelection`
    (`PopFrame` that of `PopNode`).
    For each kind of selector the values of what is appended are what
    `Selector.Apply` appends (`SameAppends`). The instance has its own copies of
    the operators of `Selectors`; the `Same...` lemmas say that they agree.
* `FilterComparisonProofs`, from `ValuesAssumption` and `OperandsAssumption` (an
  operand is Nothing, a logical, a list of values, or a value but the sentinel
  that `jsonRuntimeValue` replaces): the three laws of comparison for every set of
  values, however deep. `jsonEqual` equals one unfolding of itself
  (`JSONEqualEquation`); by induction on `Depth` it is symmetric and transitive.
  It is not reflexive, and no law here supposes it: NaN is unequal to itself. Then
  each operator is told by the kinds it accepts, and the laws of `<` are those of
  the integers.
* `RegexpCacheProofs`, from `CacheAssumption`: `SoundInv` (types, entries and
  what each goroutine carries) gives `CacheIsSound` and, step by step,
  `CacheIsTransparent`: every step is a step of the oracle or leaves it alone.
  `CacheIsBounded` needs a counting invariant: entries plus pending stores are
  bounded by a function of how many goroutines are about to reset the counter,
  and the counter plus pending additions bounds what was stored since.
* `DeduplicateProofs`, from `ListsAssumption`, proves all four invariants: uniq is
  the subsequence of first occurrences among the elements read, the unread rest is
  untouched, and `seen` with `collisions` indexes uniq completely. The hash
  function is universally quantified.
* `NormalizedPathProofs`, from `PathAssumption` and `NameAssumption` (a name is a
  sequence of code points), for any names, indexes, number and length of paths.
  Arrays are only added and hold valid steps, every path lies inside its array
  and shows what its call owed: that is `Inv`, and gives `Immutable` and, as valid
  steps convert to elements and back, `Rebuildable`. `Immutable` alone is not inductive: that a new array leaves older
  paths alone needs them to lie in older arrays. The other properties are about
  what paths of valid steps compare and print as.
  `CompareIsOrder`: the lexicographic extension of an order is an order
  (`LexBasics`, `LexTransitive`), applied to characters and again to steps.
  `StringIdentifies`: escapes and steps are codes of which none begins with
  another, and none begins with the character that closes the text
  (`EscapePrefixFree`, `StepPrefixFree`); sequences encoded by such a code can be
  read back (`PrefixDecode`). `PointerIdentifies`: the same, once the slash
  before every token is moved behind it (`ShiftSeparator`). `LengthsExact`: the
  byte length of an encoding is the total of the lengths of its code words
  (`ByteLenEncode`), and the walks that count have the same case distinctions as
  the walks that write, digit count included (`DigitsCounted`).
* `NumberComparisonProofs`, from `NumberAssumption` (integers fit their word,
  `MaxMagnitude` bounds the digits; any word width, precision and numbers):
  `ExactUnlessFormattedUp`. A lexeme holds its number and `normalizeDecimal`
  keeps it (`LexemeExact`, `NormalizeFacts`); a decimal or float lies in the
  decade that its magnitude names, numbers of different decades compare as the
  decades do and those of one decade digit by digit (`DecimalWithin`,
  `DecadesOrder`, `MagnitudesCompare`); signs decide first and zero has none
  (`SignsCompare`). The one float for which the magnitude is not the decade is the one
  the property excepts and `number_comparison_exact` exhibits.
* `NaturalRecursion` is what the inductions rest on. The library's induction
  theorems take an operator, which the installed provers cannot instantiate; that
  `<` is well-founded on the naturals gives a least element of every set of them,
  hence induction stated for a set, and the existence of recursive functions, on
  an interval or on a set with a rank, stated for the function that computes one
  value from earlier ones. A recursive definition is then shown to equal that
  function. `Power`, `Total`, `digitsOf`, `digitLoop`, `jsonEqual`, `At`,
  `Passing`, `SliceIndexes` and the library's `FlattenSeq` are reasoned about in
  this way.
* `FunctionRegistryProofs`, from `RegistryAssumption`, for any number of
  goroutines, options and functions. Memory comes first: a parameter slice other
  than the caller's own never changes, every function refers to a slice that
  holds what it was given (`ParamsInv`), and an option's array holds what it was
  made of (`OptionsInv`). Then the loop: `Progress` says that the errors and the
  map of a call are those of the functions visited so far, `Visited`, judged by
  what was given. `ParserInv` carries the finished map into the parser's own
  table. `ReportsEveryOffender` alone is not inductive: it is about finished calls,
  and that a registration reads what the caller wrote rests on the memory.

Only model-checked: the liveness half of `Transparent`, and `Terminates`
(fairness is outside the prover's reach); `ParityWithSelect` and
`MatchesReference`, and the properties of `Compile`, whose modules define
mutually recursive operators on trees and texts (`FilterEvaluation`, `Lexer`,
`Parser`, `Printer` and the two references). The provers do not accept operators
declared RECURSIVE, and as functions they would need a set of all queries or
texts to be defined on, which nest in each other. What of `ParityWithSelect` is
about the two engines is proved, as `LocatedRefinesPlain`.

## Not modelled, and what is left

That the parser reads what `String` of a normalized path writes as the singular
query of that path is not checked: both sides exist, on different alphabets.

Left out for good: JSON decoding (`encoding/json/v2`), RE2 compilation and
matching, error wording and snippets, iterators over finished lists, the
compliance harness.
