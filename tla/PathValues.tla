------------------------------ MODULE PathValues ------------------------------
(***************************************************************************)
(* How NormalizedPath values of normalized.go are made, down to their      *)
(* backing arrays.  A path is a slice: an array and a length.  Callers     *)
(* make paths with NewNormalizedPath and Append, located selection extends *)
(* the paths it already has, and all of them are kept and shared.          *)
(***************************************************************************)
EXTENDS Integers, Sequences

CONSTANTS
    Names,       \* Go strings used as names; the empty one is <<>>
    ValidUTF8,   \* those that utf8.ValidString accepts
    Indexes,     \* ints used as indexes
    MaxLen,      \* bound: elements of a path
    MaxPaths     \* bound: paths handed out

ASSUME PathAssumption ==
    /\ <<>> \in Names /\ ValidUTF8 \subseteq Names
    /\ Indexes \subseteq Int /\ 0 \in Indexes
    /\ MaxLen \in Nat /\ MaxPaths \in Nat

pathStepIndex == 0
pathStepName  == 1

Step == [kind : {pathStepIndex, pathStepName}, name : Names, index : Indexes]

namePathStep(name)   == [kind |-> pathStepName, name |-> name, index |-> 0]
indexPathStep(index) == [kind |-> pathStepIndex, name |-> <<>>, index |-> index]

\* What a caller can pass as a PathElement: one of the two element types or
\* a pointer to one, a nil interface or pointer, and a foreign type.
NameElements  == [type : {"NameElement"}, name : Names]
IndexElements == [type : {"IndexElement"}, index : Indexes]
OtherElements == [type : {"nil", "unsupported"}]
PathElements  == NameElements \cup IndexElements \cup OtherElements

VARIABLES
    arrays,   \* the backing arrays allocated so far
    paths,    \* the paths handed out: [array, len], array 0 for a nil slice
    err,      \* whether the last call returned ErrInvalidPath
    given     \* history: the steps each path is to show, none after a failure

vars == <<arrays, paths, err, given>>

RootPath == [array |-> 0, len |-> 0]

\* The steps a path shows now.
StepsOf(p) == [k \in 1 .. p.len |-> arrays[p.array][k]]

-----------------------------------------------------------------------------
\* pathStepFromElement: when it succeeds, and the step it then returns.
Accepts(elem) ==
    \/ elem.type = "NameElement" /\ elem.name \in ValidUTF8
    \/ elem.type = "IndexElement" /\ elem.index >= 0

pathStepFromElement(elem) ==
    IF elem.type = "NameElement"
    THEN namePathStep(elem.name)
    ELSE indexPathStep(elem.index)

\* pathStep.element
element(step) ==
    IF step.kind = pathStepName
    THEN [type |-> "NameElement", name |-> step.name]
    ELSE [type |-> "IndexElement", index |-> step.index]

Elements(p) == [k \in 1 .. p.len |-> element(StepsOf(p)[k])]

\* Mutant: the path is one step longer than what was copied.
AllocateLong(steps) ==
    /\ arrays' = Append(arrays, steps)
    /\ paths' = Append(paths, [array |-> Len(arrays) + 1, len |-> Len(steps) + 1])
    /\ given' = Append(given, steps)

\* A path on a fresh array that holds exactly its steps is handed out.
Allocate(steps) ==
    /\ arrays' = Append(arrays, steps)
    /\ paths' = Append(paths, [array |-> Len(arrays) + 1, len |-> Len(steps)])
    /\ given' = Append(given, steps)

\* Mutant: append(p.elements, step), which writes into spare capacity.
appendStepShared(p, step) ==
    IF p.array # 0 /\ p.len < Len(arrays[p.array])
    THEN /\ arrays' = [arrays EXCEPT ![p.array][p.len + 1] = step]
         /\ paths' = Append(paths, [array |-> p.array, len |-> p.len + 1])
         /\ given' = Append(given, Append(StepsOf(p), step))
    ELSE /\ arrays' = Append(arrays, Append(StepsOf(p), step)
                                         \o [k \in 1 .. p.len + 1 |-> indexPathStep(0)])
         /\ paths' = Append(paths, [array |-> Len(arrays) + 1, len |-> p.len + 1])
         /\ given' = Append(given, Append(StepsOf(p), step))

\* make, copy and the new last element
appendStep(p, step) == Allocate(Append(StepsOf(p), step))

-----------------------------------------------------------------------------
\* Selection starts from the zero path.
Init ==
    /\ arrays = <<>>
    /\ paths = <<RootPath>>
    /\ err = FALSE
    /\ given = << <<>> >>

Room == Len(paths) < MaxPaths

\* What a call given elements owes its caller: the steps of all of them, or
\* none at all.
Owed(elements) ==
    IF \A k \in DOMAIN elements : Accepts(elements[k])
    THEN [k \in DOMAIN elements |-> pathStepFromElement(elements[k])]
    ELSE <<>>

\* The zero path comes with the error; the caller may keep and use it.
Fail ==
    /\ err' = TRUE
    /\ \/ UNCHANGED <<paths, given>>
       \/ /\ Room
          /\ paths' = Append(paths, RootPath)
          /\ given' = Append(given, <<>>)
    /\ UNCHANGED arrays

\* Mutant: the steps before the first invalid element come with the error.
NewNormalizedPathPrefix(elements) ==
    LET valid == {n \in 0 .. Len(elements) : \A k \in 1 .. n : Accepts(elements[k])}
        made  == CHOOSE n \in valid : \A m \in valid : m <= n
    IN  /\ Room
        /\ arrays' = Append(arrays, [k \in 1 .. made |-> pathStepFromElement(elements[k])])
        /\ paths' = Append(paths, [array |-> Len(arrays) + 1, len |-> made])
        /\ given' = Append(given, Owed(elements))
        /\ err' = (made < Len(elements))

\* NewNormalizedPath fails on the first element that is not accepted.
NewNormalizedPath(elements) ==
    IF elements = <<>>
    THEN /\ Room
         /\ paths' = Append(paths, RootPath)
         /\ given' = Append(given, <<>>)
         /\ err' = FALSE
         /\ UNCHANGED arrays
    ELSE IF \A k \in DOMAIN elements : Accepts(elements[k])
    THEN /\ Room
         /\ Allocate([k \in DOMAIN elements |-> pathStepFromElement(elements[k])])
         /\ err' = FALSE
    ELSE Fail

\* NormalizedPath.Append
AppendElement(p, elem) ==
    IF Accepts(elem)
    THEN /\ p.len < MaxLen /\ Room
         /\ appendStep(p, pathStepFromElement(elem))
         /\ err' = FALSE
    ELSE Fail

\* The step of a child of a document, whose names are JSON strings.
childPathElement(array, index, name) ==
    IF array THEN indexPathStep(index) ELSE namePathStep(name)

extendPath(p, step) ==
    /\ p.len < MaxLen /\ Room
    /\ appendStep(p, step)
    /\ UNCHANGED err

New == \E n \in 0 .. MaxLen : \E elements \in [1 .. n -> PathElements] :
           NewNormalizedPath(elements)

AppendTo == \E k \in DOMAIN paths, elem \in PathElements : AppendElement(paths[k], elem)

Extend == \E k \in DOMAIN paths, array \in BOOLEAN,
             index \in Indexes \cap Nat, name \in ValidUTF8 :
              extendPath(paths[k], childPathElement(array, index, name))

Next == New \/ AppendTo \/ Extend

Spec == Init /\ [][Next]_vars

-----------------------------------------------------------------------------
\* Arrays hold steps and every path lies inside its array.
TypeOK ==
    /\ arrays \in Seq(Seq(Step))
    /\ paths \in Seq([array : Nat, len : Nat])
    /\ \A k \in DOMAIN paths :
          \/ paths[k] = RootPath
          \/ paths[k].array \in DOMAIN arrays /\ paths[k].len <= Len(arrays[paths[k].array])
    /\ given \in Seq(Seq(Step)) /\ Len(given) = Len(paths)
    /\ err \in BOOLEAN

\* "NormalizedPath is immutable" (README.md:144): a path shows for ever the
\* steps that its call owed, whatever is appended to it, to its prefixes or to
\* its siblings afterwards.
Immutable == \A k \in DOMAIN paths : StepsOf(paths[k]) = given[k]

\* Made again from its Elements, every path there is, one that selection made or
\* that came with an error included, is what the call that made it owed: all the
\* steps it was asked for, never those before an invalid one.
Rebuildable ==
    \A k \in DOMAIN paths : Owed(Elements(paths[k])) = given[k]
=============================================================================
