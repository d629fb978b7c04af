--------------------------- MODULE FunctionRegistry ---------------------------
(***************************************************************************)
(* Extension functions of options.go: how callers define them, capture     *)
(* them in options and make parsers of the options.  Slices and maps are   *)
(* references, so the memory is modelled: a caller goes on using the       *)
(* slices it passed, options are used again, goroutines call NewParser at  *)
(* the same time, and all parsers start from one table of built-ins.       *)
(* Fields named given are history: the values something was made from.     *)
(***************************************************************************)
EXTENDS Integers, Sequences

CONSTANTS
    Goroutines,   \* callers of NewParser
    EmptyName,    \* the empty string
    ValidNames,   \* names that validFunctionName accepts
    Absent,       \* no entry in a map
    Builtins,     \* the table functions.Builtins() fills: name -> adapter
    Definitions,  \* what callers pass to the New...Function constructors
    NilCall,      \* a nil callback
    ParamLists,   \* the values a caller's parameter slice takes
    SliceLen,     \* length of the caller's slice of functions
    MaxArrays,    \* bound: parameter slices allocated
    MaxOptions,   \* bound: options made
    MaxOpts,      \* bound: options of one NewParser call
    MaxParsers    \* bound: parsers handed out

FuncTypes == {"Logical", "Value", "Nodes"}

\* FuncType is a uint8: a caller can write other values.
AnyFuncType == FuncTypes \cup {"invalid"}

\* functionAdapter, and what a built-in says of itself.
Adapters == [name : STRING, params : Seq(AnyFuncType), resultType : FuncTypes, call : STRING]

\* map[string]ast.Function
FunctionMap == [ValidNames -> Adapters \cup {Absent}]

Known(map) == {name \in ValidNames : map[name] # Absent}

ASSUME RegistryAssumption ==
    /\ SliceLen \in Nat
    /\ ParamLists \subseteq Seq(AnyFuncType) /\ <<>> \in ParamLists
    /\ Definitions \subseteq [name : STRING, resultType : FuncTypes, call : STRING]
    /\ NilCall \in STRING /\ ValidNames \subseteq STRING
    /\ EmptyName \in STRING \ ValidNames
    /\ Absent \notin Adapters /\ Builtins \in FunctionMap

VARIABLES
    paramArrays,   \* backing arrays of parameter lists; the first is the caller's
    fnArrays,      \* backing arrays of functions; the first is the caller's
    options,       \* options made by WithFunctions
    tables,        \* maps from name to adapter; the first is builtinRegistry()
    parsers,       \* parsers handed out
    calls          \* the NewParser call each goroutine is in, or its last one

vars == <<paramArrays, fnArrays, options, tables, parsers, calls>>

NilOption == 0
NilMap    == 0
NilSlice  == 0
EmptyMap  == [name \in ValidNames |-> Absent]

\* The zero Function: no name, no parameters, no callback.
ZeroFunction == [name |-> EmptyName, params |-> NilSlice, resultType |-> "Logical",
                 call |-> NilCall, given |-> <<>>]

\* The zero value of a call's locals; no call has been made.
NoCall == [pc |-> "idle", opts |-> <<>>, given |-> <<>>, at |-> 1, k |-> 1,
           functions |-> EmptyMap, errs |-> {}]

Function == [name : STRING, params : Nat, resultType : FuncTypes,
             call : STRING, given : Seq(AnyFuncType)]

\* An Option is a closure over a slice of functions.
Option == [fns : Nat, given : Seq(Function)]

CallLocals ==
    [pc : {"idle", "options", "nil option", "error", "parser"}, opts : Seq(Nat),
     given : Seq(Seq(Function)), at : Nat, k : Nat,
     functions : FunctionMap, errs : SUBSET (Nat \X Nat)]

-----------------------------------------------------------------------------
\* mapFuncType: the public and the internal types correspond by name.
mapFuncType(ft) == ft \in FuncTypes

\* The parameters a function has now.
ParamsOf(fn) == IF fn.params = NilSlice THEN <<>> ELSE paramArrays[fn.params]

\* Mutant: a built-in may be registered again.
RegistrableOverride(fn) ==
    /\ fn.name \in ValidNames
    /\ mapFuncType(fn.resultType)
    /\ fn.call # NilCall
    /\ \A i \in DOMAIN ParamsOf(fn) : mapFuncType(ParamsOf(fn)[i])

\* The checks of registerFunctions on one function, but for duplicates.
Registrable(fn) ==
    /\ fn.name \in ValidNames
    /\ fn.name \notin Known(tables[1])
    /\ mapFuncType(fn.resultType)
    /\ fn.call # NilCall
    /\ \A i \in DOMAIN ParamsOf(fn) : mapFuncType(ParamsOf(fn)[i])

\* The functionAdapter of a function, with its own copy of the parameters.
Adapter(fn) == [name |-> fn.name, params |-> ParamsOf(fn),
                resultType |-> fn.resultType, call |-> fn.call]

\* maps.Copy(dst, src)
Copied(dst, src) ==
    [name \in ValidNames |-> IF src[name] # Absent THEN src[name] ELSE dst[name]]

-----------------------------------------------------------------------------
Init ==
    /\ paramArrays = << <<>> >>
    /\ fnArrays = << [s \in 1 .. SliceLen |-> ZeroFunction] >>
    /\ options = <<>>
    /\ tables = <<Builtins>>
    /\ parsers = <<>>
    /\ calls = [g \in Goroutines |-> NoCall]

\* The caller writes into its own parameter slice.
SetParams(list) ==
    /\ paramArrays' = [paramArrays EXCEPT ![1] = list]
    /\ UNCHANGED <<fnArrays, options, tables, parsers, calls>>

\* Mutant: the constructor keeps the caller's parameter slice.
NewFunctionShared(slot, d) ==
    /\ fnArrays' = [fnArrays EXCEPT ![1][slot] =
                      [name |-> d.name, params |-> 1, resultType |-> d.resultType,
                       call |-> d.call, given |-> paramArrays[1]]]
    /\ UNCHANGED <<paramArrays, options, tables, parsers, calls>>

\* Mutant: the clone is dropped.
NewFunctionDangling(slot, d) ==
    /\ fnArrays' = [fnArrays EXCEPT ![1][slot] =
                      [name |-> d.name, params |-> Len(paramArrays) + 1,
                       resultType |-> d.resultType, call |-> d.call,
                       given |-> paramArrays[1]]]
    /\ UNCHANGED <<paramArrays, options, tables, parsers, calls>>

\* NewValueFunction, NewLogicalFunction, NewNodesFunction: the parameters
\* are cloned; the caller stores the function in its slice.
NewFunction(slot, d) ==
    /\ Len(paramArrays) < MaxArrays
    /\ paramArrays' = Append(paramArrays, paramArrays[1])
    /\ fnArrays' = [fnArrays EXCEPT ![1][slot] =
                      [name |-> d.name, params |-> Len(paramArrays) + 1,
                       resultType |-> d.resultType, call |-> d.call,
                       given |-> paramArrays[1]]]
    /\ UNCHANGED <<options, tables, parsers, calls>>

\* WithFunctions(fns[:m]...): the closure keeps a clone.
WithFunctions(m) ==
    /\ Len(options) < MaxOptions
    /\ fnArrays' = Append(fnArrays, SubSeq(fnArrays[1], 1, m))
    /\ options' = Append(options, [fns |-> Len(fnArrays) + 1,
                                   given |-> SubSeq(fnArrays[1], 1, m)])
    /\ UNCHANGED <<paramArrays, tables, parsers, calls>>

-----------------------------------------------------------------------------
\* What the options of a call were made from; nothing for a nil option.
Given(opts) == [o \in 1 .. Len(opts) |->
                   IF opts[o] = NilOption THEN <<>> ELSE options[opts[o]].given]

Busy(g) == calls[g].pc = "options"

\* NewParser without options: a Parser with no table of its own.
NewParserDefault(g) ==
    /\ ~Busy(g) /\ Len(parsers) < MaxParsers
    /\ parsers' = Append(parsers, [registry |-> NilMap, given |-> <<>>])
    /\ UNCHANGED <<paramArrays, fnArrays, options, tables, calls>>

NewParser(g, opts) ==
    /\ ~Busy(g)
    /\ calls' = [calls EXCEPT ![g] = [NoCall EXCEPT !.pc = "options", !.opts = opts,
                                                    !.given = Given(opts)]]
    /\ UNCHANGED <<paramArrays, fnArrays, options, tables, parsers>>

\* The function array the current option of a call reads.
CurrentFns(c) == fnArrays[options[c.opts[c.at]].fns]

AtOption(g) == Busy(g) /\ calls[g].at <= Len(calls[g].opts)

\* A nil option ends the call at once.
RejectNilOption(g) ==
    /\ AtOption(g) /\ calls[g].opts[calls[g].at] = NilOption
    /\ calls' = [calls EXCEPT ![g].pc = "nil option"]
    /\ UNCHANGED <<paramArrays, fnArrays, options, tables, parsers>>

\* One turn of the loop of registerFunctions: an error is recorded and the
\* loop goes on, or the function enters the call's own map.
RegisterFunction(g) ==
    /\ AtOption(g) /\ calls[g].opts[calls[g].at] # NilOption
    /\ calls[g].k <= Len(CurrentFns(calls[g]))
    /\ LET c  == calls[g]
           fn == CurrentFns(c)[c.k]
       IN  calls' = [calls EXCEPT ![g] =
             IF Registrable(fn) /\ fn.name \notin Known(c.functions)
             THEN [c EXCEPT !.k = @ + 1, !.functions = [@ EXCEPT ![fn.name] = Adapter(fn)]]
             ELSE [c EXCEPT !.k = @ + 1, !.errs = @ \cup {<<c.at, c.k>>}]]
    /\ UNCHANGED <<paramArrays, fnArrays, options, tables, parsers>>

\* The option returns.
NextOption(g) ==
    /\ AtOption(g) /\ calls[g].opts[calls[g].at] # NilOption
    /\ calls[g].k > Len(CurrentFns(calls[g]))
    /\ calls' = [calls EXCEPT ![g].at = @ + 1, ![g].k = 1]
    /\ UNCHANGED <<paramArrays, fnArrays, options, tables, parsers>>

OptionsDone(g) == Busy(g) /\ calls[g].at > Len(calls[g].opts)

ReturnError(g) ==
    /\ OptionsDone(g) /\ calls[g].errs # {}
    /\ calls' = [calls EXCEPT ![g].pc = "error"]
    /\ UNCHANGED <<paramArrays, fnArrays, options, tables, parsers>>

\* Mutant: the table of built-ins is extended in place.
ReturnParserShared(g) ==
    /\ OptionsDone(g) /\ calls[g].errs = {} /\ Len(parsers) < MaxParsers
    /\ tables' = [tables EXCEPT ![1] = Copied(@, calls[g].functions)]
    /\ parsers' = Append(parsers, [registry |-> 1, given |-> calls[g].given])
    /\ calls' = [calls EXCEPT ![g].pc = "parser"]
    /\ UNCHANGED <<paramArrays, fnArrays, options>>

\* maps.Clone(builtinRegistry()), maps.Copy, and the parser is handed out.
ReturnParser(g) ==
    /\ OptionsDone(g) /\ calls[g].errs = {} /\ Len(parsers) < MaxParsers
    /\ tables' = Append(tables, Copied(tables[1], calls[g].functions))
    /\ parsers' = Append(parsers, [registry |-> Len(tables) + 1,
                                   given |-> calls[g].given])
    /\ calls' = [calls EXCEPT ![g].pc = "parser"]
    /\ UNCHANGED <<paramArrays, fnArrays, options>>

Next ==
    \/ \E list \in ParamLists : SetParams(list)
    \/ \E slot \in 1 .. SliceLen, d \in Definitions : NewFunction(slot, d)
    \/ \E m \in 0 .. SliceLen : WithFunctions(m)
    \/ \E g \in Goroutines :
          \/ NewParserDefault(g)
          \/ \E n \in 1 .. MaxOpts :
                \E opts \in [1 .. n -> 0 .. Len(options)] : NewParser(g, opts)
          \/ RejectNilOption(g) \/ RegisterFunction(g) \/ NextOption(g)
          \/ ReturnError(g) \/ ReturnParser(g)

Spec == Init /\ [][Next]_vars

-----------------------------------------------------------------------------
\* The places of the functions a call was given: option and position in it.
Places(given) == UNION {{a} \X (1 .. Len(given[a])) : a \in 1 .. Len(given)}

FnAt(given, p) == given[p[1]][p[2]]

Before(p, q) == p[1] < q[1] \/ (p[1] = q[1] /\ p[2] < q[2])

\* A function a parser may have, judged by what the caller wrote.
WellFormed(fn) ==
    /\ fn.name \in ValidNames \ Known(Builtins)
    /\ fn.resultType \in FuncTypes /\ fn.call # NilCall
    /\ \A i \in DOMAIN fn.given : fn.given[i] \in FuncTypes

Offends(given, p) ==
    \/ ~WellFormed(FnAt(given, p))
    \/ \E q \in Places(given) : /\ Before(q, p) /\ WellFormed(FnAt(given, q))
                                /\ FnAt(given, q).name = FnAt(given, p).name

GivenAdapter(fn) == [name |-> fn.name, params |-> fn.given,
                     resultType |-> fn.resultType, call |-> fn.call]

\* Parser.Parse: a Parser without a table uses the built-ins.
Table(parser) == IF parser.registry = NilMap THEN tables[1] ELSE tables[parser.registry]

\* Every reference points at memory that exists.
TypeOK ==
    /\ paramArrays \in Seq(Seq(AnyFuncType)) /\ paramArrays # <<>>
    /\ fnArrays \in Seq(Seq(Function)) /\ fnArrays # <<>> /\ Len(fnArrays[1]) = SliceLen
    /\ \A a \in DOMAIN fnArrays : \A s \in DOMAIN fnArrays[a] :
          fnArrays[a][s].params \in 0 .. Len(paramArrays)
    /\ options \in Seq(Option)
    /\ \A o \in DOMAIN options : options[o].fns \in 1 .. Len(fnArrays)
    /\ tables # <<>> /\ tables \in Seq(FunctionMap)
    /\ parsers \in Seq([registry : 0 .. Len(tables), given : Seq(Seq(Function))])
    /\ calls \in [Goroutines -> CallLocals]

\* NewParser reports exactly the functions that may not be registered, each
\* once, wherever in its options they are, and makes a parser if there are
\* none: what other goroutines and callers do meanwhile has no part in it.
ReportsEveryOffender ==
    \A g \in Goroutines :
        calls[g].pc \in {"error", "parser"} =>
            /\ calls[g].errs = {p \in Places(calls[g].given) : Offends(calls[g].given, p)}
            /\ calls[g].pc = "parser" <=> calls[g].errs = {}

\* A parser knows, for as long as it is used, the built-ins and the functions
\* of its own options as they were defined, whatever callers write into the
\* slices they passed and whichever parsers are made later.
ParsersKnowTheirFunctions ==
    \A r \in DOMAIN parsers :
        LET given == parsers[r].given
        IN  /\ Known(Table(parsers[r])) =
                 Known(Builtins) \cup {FnAt(given, p).name : p \in Places(given)}
            /\ \A p \in Places(given) :
                 Table(parsers[r])[FnAt(given, p).name] = GivenAdapter(FnAt(given, p))

\* The shared table of built-ins never changes, and no parser has another
\* definition of a built-in.
BuiltinsKept ==
    /\ tables[1] = Builtins
    /\ \A r \in DOMAIN parsers : \A name \in Known(Builtins) :
          Table(parsers[r])[name] = Builtins[name]

=============================================================================
