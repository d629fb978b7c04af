------------------------ MODULE FunctionRegistryProofs ------------------------
(***************************************************************************)
(* Parsers keep their functions and NewParser reports every offender, for  *)
(* any number of goroutines, options and functions.                        *)
(***************************************************************************)
EXTENDS FunctionRegistry, SequenceTheorems, TLAPS

\* Every function still has the parameters it was defined with, and none
\* refers to the caller's slice.
ParamsInv ==
    \A a \in DOMAIN fnArrays : \A s \in DOMAIN fnArrays[a] :
        /\ fnArrays[a][s].params # 1
        /\ ParamsOf(fnArrays[a][s]) = fnArrays[a][s].given

\* Every option still reads the functions it was made from.
OptionsInv ==
    \A o \in DOMAIN options :
        /\ options[o].fns # 1
        /\ fnArrays[options[o].fns] = options[o].given

\* A call's history is that of its options.
Linked(c) ==
    /\ Len(c.given) = Len(c.opts)
    /\ \A o \in 1 .. Len(c.opts) :
          /\ c.opts[o] \in 0 .. Len(options)
          /\ c.given[o] = IF c.opts[o] = NilOption THEN <<>> ELSE options[c.opts[o]].given

Visited(c) == {p \in Places(c.given) : p[1] < c.at \/ (p[1] = c.at /\ p[2] < c.k)}

\* What the loops have established about the functions visited.
Progress(c) ==
    /\ c.errs = {p \in Visited(c) : Offends(c.given, p)}
    /\ \A name \in ValidNames : name \in Known(c.functions) <=>
          \E p \in Visited(c) : WellFormed(FnAt(c.given, p)) /\ FnAt(c.given, p).name = name
    /\ \A p \in Visited(c) : ~Offends(c.given, p) =>
          c.functions[FnAt(c.given, p).name] = GivenAdapter(FnAt(c.given, p))

\* Where the loops are.
Position(c) ==
    /\ c.at \in 1 .. Len(c.given) + 1
    /\ c.at <= Len(c.given) => c.k \in 1 .. Len(c.given[c.at]) + 1

Reported(c) ==
    /\ c.errs = {p \in Places(c.given) : Offends(c.given, p)}
    /\ c.pc = "parser" <=> c.errs = {}

CallInv(c) ==
    /\ c.pc = "options" => Position(c) /\ Progress(c)
    /\ c.pc \in {"error", "parser"} => Reported(c)

ParserInv(parser) ==
    /\ parser.registry # 1
    /\ parser.registry = NilMap => parser.given = <<>>
    /\ Known(Table(parser)) =
          Known(Builtins) \cup {FnAt(parser.given, p).name : p \in Places(parser.given)}
    /\ \A p \in Places(parser.given) :
          Table(parser)[FnAt(parser.given, p).name] = GivenAdapter(FnAt(parser.given, p))
    /\ \A name \in Known(Builtins) : Table(parser)[name] = Builtins[name]

Inv ==
    /\ TypeOK /\ ParamsInv /\ OptionsInv
    /\ tables[1] = Builtins
    /\ \A g \in Goroutines : Linked(calls[g]) /\ CallInv(calls[g])
    /\ \A r \in DOMAIN parsers : ParserInv(parsers[r])

-----------------------------------------------------------------------------
\* Facts about sequences.

LEMMA Indexed ==
    ASSUME NEW S, NEW s \in Seq(S)
    PROVE  /\ Len(s) \in Nat /\ DOMAIN s = 1 .. Len(s)
           /\ \A i \in 1 .. Len(s) : s[i] \in S
  OBVIOUS

LEMMA Appended ==
    ASSUME NEW S, NEW s \in Seq(S), NEW e \in S
    PROVE  /\ Append(s, e) \in Seq(S)
           /\ Len(Append(s, e)) = Len(s) + 1
           /\ \A i \in 1 .. Len(s) : Append(s, e)[i] = s[i]
           /\ Append(s, e)[Len(s) + 1] = e
  OBVIOUS

LEMMA Updated ==
    ASSUME NEW S, NEW s \in Seq(S), NEW i \in 1 .. Len(s), NEW e \in S
    PROVE  /\ [s EXCEPT ![i] = e] \in Seq(S)
           /\ Len([s EXCEPT ![i] = e]) = Len(s)
           /\ [s EXCEPT ![i] = e][i] = e
           /\ \A j \in 1 .. Len(s) : j # i => [s EXCEPT ![i] = e][j] = s[j]
  OBVIOUS

LEMMA FunctionIsSeq ==
    ASSUME NEW S, NEW m \in Nat, NEW f \in [1 .. m -> S]
    PROVE  f \in Seq(S) /\ Len(f) = m
  OBVIOUS

LEMMA NotEmpty ==
    ASSUME NEW S, NEW s \in Seq(S), s # <<>>
    PROVE  1 \in 1 .. Len(s)
  OBVIOUS

\* What the three updates of a call's locals do.

LEMMA Locals ==
    ASSUME NEW c, DOMAIN c = {"pc", "opts", "given", "at", "k", "functions", "errs"},
           c = [x \in DOMAIN c |-> c[x]],
           c.pc \in {"idle", "options", "nil option", "error", "parser"},
           c.opts \in Seq(Nat), c.given \in Seq(Seq(Function)), c.at \in Nat, c.k \in Nat,
           c.functions \in FunctionMap, c.errs \in SUBSET (Nat \X Nat)
    PROVE  c \in CallLocals
  BY DEF CallLocals

LEMMA MoveOn ==
    ASSUME NEW c \in CallLocals
    PROVE  LET d == [c EXCEPT !.at = @ + 1, !.k = 1]
           IN  /\ d \in CallLocals /\ d.at = c.at + 1 /\ d.k = 1 /\ d.pc = c.pc
               /\ d.opts = c.opts /\ d.given = c.given
               /\ d.functions = c.functions /\ d.errs = c.errs
<1> DEFINE d == [c EXCEPT !.at = @ + 1, !.k = 1]
<1>1. /\ d.at = c.at + 1 /\ d.k = 1 /\ d.pc = c.pc /\ d.opts = c.opts /\ d.given = c.given
      /\ d.functions = c.functions /\ d.errs = c.errs
  BY DEF CallLocals
<1>2. /\ DOMAIN d = {"pc", "opts", "given", "at", "k", "functions", "errs"}
      /\ d = [x \in DOMAIN d |-> d[x]]
  BY DEF CallLocals
<1>3. /\ c.pc \in {"idle", "options", "nil option", "error", "parser"}
      /\ c.opts \in Seq(Nat) /\ c.given \in Seq(Seq(Function)) /\ c.at \in Nat /\ c.k \in Nat
      /\ c.functions \in FunctionMap /\ c.errs \in SUBSET (Nat \X Nat)
  BY DEF CallLocals
<1> HIDE DEF d
<1>4. d.at \in Nat /\ d.k \in Nat
  <2>1. c.at \in Nat /\ c.k \in Nat  BY <1>3
  <2> QED  BY <1>1, <2>1
<1>5. d \in CallLocals  BY <1>1, <1>2, <1>3, <1>4, Locals
<1> QED  BY <1>1, <1>5 DEF d

LEMMA Register ==
    ASSUME NEW c \in CallLocals, NEW m \in FunctionMap
    PROVE  LET d == [c EXCEPT !.k = @ + 1, !.functions = m]
           IN  /\ d \in CallLocals /\ d.at = c.at /\ d.k = c.k + 1 /\ d.pc = c.pc
               /\ d.opts = c.opts /\ d.given = c.given
               /\ d.functions = m /\ d.errs = c.errs
<1> DEFINE d == [c EXCEPT !.k = @ + 1, !.functions = m]
<1>1. /\ d.at = c.at /\ d.k = c.k + 1 /\ d.pc = c.pc /\ d.opts = c.opts /\ d.given = c.given
      /\ d.functions = m /\ d.errs = c.errs
  BY DEF CallLocals
<1>2. /\ DOMAIN d = {"pc", "opts", "given", "at", "k", "functions", "errs"}
      /\ d = [x \in DOMAIN d |-> d[x]]
  BY DEF CallLocals
<1>3. /\ c.pc \in {"idle", "options", "nil option", "error", "parser"}
      /\ c.opts \in Seq(Nat) /\ c.given \in Seq(Seq(Function)) /\ c.at \in Nat /\ c.k \in Nat
      /\ c.functions \in FunctionMap /\ c.errs \in SUBSET (Nat \X Nat)
  BY DEF CallLocals
<1> HIDE DEF d
<1>4. d.at \in Nat /\ d.k \in Nat
  <2>1. c.at \in Nat /\ c.k \in Nat  BY <1>3
  <2> QED  BY <1>1, <2>1
<1>5. d \in CallLocals  BY <1>1, <1>2, <1>3, <1>4, Locals
<1> QED  BY <1>1, <1>5 DEF d

LEMMA RecordError ==
    ASSUME NEW c \in CallLocals, NEW p, c.errs \cup {p} \in SUBSET (Nat \X Nat)
    PROVE  LET d == [c EXCEPT !.k = @ + 1, !.errs = @ \cup {p}]
           IN  /\ d \in CallLocals /\ d.at = c.at /\ d.k = c.k + 1 /\ d.pc = c.pc
               /\ d.opts = c.opts /\ d.given = c.given
               /\ d.functions = c.functions /\ d.errs = c.errs \cup {p}
<1> DEFINE d == [c EXCEPT !.k = @ + 1, !.errs = @ \cup {p}]
<1>1. /\ d.at = c.at /\ d.k = c.k + 1 /\ d.pc = c.pc /\ d.opts = c.opts /\ d.given = c.given
      /\ d.functions = c.functions /\ d.errs = c.errs \cup {p}
  BY DEF CallLocals
<1>2. /\ DOMAIN d = {"pc", "opts", "given", "at", "k", "functions", "errs"}
      /\ d = [x \in DOMAIN d |-> d[x]]
  BY DEF CallLocals
<1>3. /\ c.pc \in {"idle", "options", "nil option", "error", "parser"}
      /\ c.opts \in Seq(Nat) /\ c.given \in Seq(Seq(Function)) /\ c.at \in Nat /\ c.k \in Nat
      /\ c.functions \in FunctionMap /\ c.errs \in SUBSET (Nat \X Nat)
  BY DEF CallLocals
<1> HIDE DEF d
<1>4. d.at \in Nat /\ d.k \in Nat
  <2>1. c.at \in Nat /\ c.k \in Nat  BY <1>3
  <2> QED  BY <1>1, <2>1
<1>5. d \in CallLocals  BY <1>1, <1>2, <1>3, <1>4, Locals
<1> QED  BY <1>1, <1>5 DEF d

LEMMA InPlaces ==
    ASSUME NEW given, NEW p
    PROVE  p \in Places(given) <=>
             \E a \in 1 .. Len(given) : \E b \in 1 .. Len(given[a]) : p = <<a, b>>
<1>1. ASSUME p \in Places(given)
      PROVE  \E a \in 1 .. Len(given) : \E b \in 1 .. Len(given[a]) : p = <<a, b>>
  <2>1. PICK a \in 1 .. Len(given) : p \in {a} \X (1 .. Len(given[a]))
    BY <1>1 DEF Places
  <2> QED  BY <2>1
<1>2. ASSUME NEW a \in 1 .. Len(given), NEW b \in 1 .. Len(given[a]), p = <<a, b>>
      PROVE  p \in Places(given)
  <2>1. p \in {a} \X (1 .. Len(given[a]))  BY <1>2
  <2> QED  BY <2>1 DEF Places
<1> QED  BY <1>1, <1>2

-----------------------------------------------------------------------------
\* The initial state.

LEMMA InitInv == Init => Inv
<1> SUFFICES ASSUME Init PROVE Inv  OBVIOUS
<1>1. ZeroFunction \in Function
  <2>1. NilCall \in STRING /\ EmptyName \in STRING  BY RegistryAssumption
  <2>2. <<>> \in Seq(AnyFuncType) /\ "Logical" \in FuncTypes /\ NilSlice \in Nat
    BY DEF FuncTypes, NilSlice
  <2> QED  BY <2>1, <2>2 DEF ZeroFunction, Function
<1>2. NoCall \in CallLocals
  <2>1. EmptyMap \in FunctionMap  BY DEF EmptyMap, FunctionMap
  <2> QED  BY <2>1 DEF NoCall, CallLocals
<1>3. [s \in 1 .. SliceLen |-> ZeroFunction] \in Seq(Function)
  BY <1>1, RegistryAssumption
<1>4. /\ DOMAIN fnArrays = {1} /\ fnArrays \in Seq(Seq(Function)) /\ fnArrays # <<>>
      /\ \A s \in DOMAIN fnArrays[1] : fnArrays[1][s] = ZeroFunction
      /\ Len(fnArrays[1]) = SliceLen
  BY <1>3, RegistryAssumption DEF Init
<1>5. TypeOK
  <2>1. paramArrays \in Seq(Seq(AnyFuncType)) /\ paramArrays # <<>>  BY DEF Init
  <2>2. \A a \in DOMAIN fnArrays : \A s \in DOMAIN fnArrays[a] :
          fnArrays[a][s].params \in 0 .. Len(paramArrays)
    <3>1. ZeroFunction.params \in 0 .. Len(paramArrays)  BY DEF Init, ZeroFunction, NilSlice
    <3> QED  BY <1>4, <3>1
  <2>3. tables # <<>> /\ tables \in Seq(FunctionMap)  BY RegistryAssumption DEF Init
  <2>4. calls \in [Goroutines -> CallLocals]  BY <1>2 DEF Init
  <2>5. options \in Seq(Option) /\ DOMAIN options = {}  BY DEF Init
  <2>6. parsers \in Seq([registry : 0 .. Len(tables), given : Seq(Seq(Function))])  BY DEF Init
  <2> QED  BY <1>4, <2>1, <2>2, <2>3, <2>4, <2>5, <2>6 DEF TypeOK
<1>6. ParamsInv
  <2>1. ZeroFunction.params # 1 /\ ParamsOf(ZeroFunction) = ZeroFunction.given
    BY DEF ZeroFunction, ParamsOf, NilSlice
  <2> QED  BY <1>4, <2>1 DEF ParamsInv
<1>7. ASSUME NEW g \in Goroutines PROVE Linked(calls[g]) /\ CallInv(calls[g])
  <2>1. calls[g].pc = "idle" /\ calls[g].opts = <<>> /\ calls[g].given = <<>>
    BY DEF Init, NoCall
  <2> QED  BY <2>1 DEF Linked, CallInv
<1> QED  BY <1>5, <1>6, <1>7 DEF Inv, Init, OptionsInv

-----------------------------------------------------------------------------
\* What a step that leaves a part of the memory alone, or adds to it, keeps.

LEMMA KeepCalls ==
    ASSUME Inv, calls' = calls, options' \in Seq(Option), Len(options) <= Len(options'),
           \A o \in 1 .. Len(options) : options'[o] = options[o]
    PROVE  \A g \in Goroutines : Linked(calls[g])' /\ CallInv(calls[g])'
<1> SUFFICES ASSUME NEW g \in Goroutines
             PROVE  Linked(calls[g])' /\ CallInv(calls[g])'
  OBVIOUS
<1>1. Linked(calls[g]) /\ CallInv(calls[g])  BY DEF Inv
<1>2. Len(options) \in Nat /\ Len(options') \in Nat  BY Indexed DEF Inv, TypeOK
<1>3. ASSUME NEW o \in 1 .. Len(calls[g].opts)
      PROVE  /\ calls[g].opts[o] \in 0 .. Len(options')
             /\ calls[g].given[o] = IF calls[g].opts[o] = NilOption THEN <<>>
                                    ELSE options'[calls[g].opts[o]].given
  <2>1. /\ calls[g].opts[o] \in 0 .. Len(options)
        /\ calls[g].given[o] = IF calls[g].opts[o] = NilOption THEN <<>>
                               ELSE options[calls[g].opts[o]].given
    BY <1>1 DEF Linked
  <2>2. calls[g].opts[o] # NilOption =>
          options'[calls[g].opts[o]] = options[calls[g].opts[o]]
    BY <1>2, <2>1 DEF NilOption
  <2> QED  BY <1>2, <2>1, <2>2
<1>4. Linked(calls[g])'  BY <1>1, <1>3 DEF Linked
<1> QED  BY <1>1, <1>4

LEMMA KeepParsers ==
    ASSUME Inv, parsers' = parsers, tables' = tables
    PROVE  /\ \A r \in DOMAIN parsers' : ParserInv(parsers[r])'
           /\ tables'[1] = Builtins
<1>1. ASSUME NEW r \in DOMAIN parsers PROVE ParserInv(parsers[r])'
  <2>1. ParserInv(parsers[r])  BY DEF Inv
  <2>2. Table(parsers[r])' = Table(parsers[r])  BY DEF Table
  <2> QED  BY <2>1, <2>2 DEF ParserInv
<1> QED  BY <1>1 DEF Inv

LEMMA CallStep ==
    ASSUME Inv, NEW g \in Goroutines, NEW c \in CallLocals,
           calls' = [calls EXCEPT ![g] = c], Linked(c), CallInv(c),
           UNCHANGED <<paramArrays, fnArrays, options, tables, parsers>>
    PROVE  Inv'
<1>1. /\ calls' \in [Goroutines -> CallLocals] /\ calls'[g] = c
      /\ \A h \in Goroutines : h # g => calls'[h] = calls[h]
  BY DEF Inv, TypeOK
<1>2. TypeOK'  BY <1>1 DEF Inv, TypeOK
<1>3. ParamsInv' /\ OptionsInv'  BY DEF Inv, ParamsInv, OptionsInv, ParamsOf
<1>4. ASSUME NEW h \in Goroutines PROVE Linked(calls[h])' /\ CallInv(calls[h])'
  <2>1. Linked(calls'[h]) /\ CallInv(calls'[h])  BY <1>1 DEF Inv
  <2>2. Linked(calls[h])'  BY <2>1 DEF Linked
  <2> QED  BY <2>1, <2>2
<1>5. /\ \A r \in DOMAIN parsers' : ParserInv(parsers[r])'
      /\ tables'[1] = Builtins
  BY KeepParsers
<1> QED  BY <1>2, <1>3, <1>4, <1>5 DEF Inv

-----------------------------------------------------------------------------
\* The caller's steps.

LEMMA SetParamsInv ==
    ASSUME Inv, NEW list \in ParamLists, SetParams(list)
    PROVE  Inv'
<1>1. /\ paramArrays \in Seq(Seq(AnyFuncType)) /\ paramArrays # <<>>
      /\ list \in Seq(AnyFuncType)
      /\ paramArrays' = [paramArrays EXCEPT ![1] = list]
      /\ UNCHANGED <<fnArrays, options, tables, parsers, calls>>
  BY RegistryAssumption DEF Inv, TypeOK, SetParams
<1>2. 1 \in 1 .. Len(paramArrays)  BY <1>1, NotEmpty
<1>3. /\ paramArrays' \in Seq(Seq(AnyFuncType)) /\ Len(paramArrays') = Len(paramArrays)
      /\ \A j \in 1 .. Len(paramArrays) : j # 1 => paramArrays'[j] = paramArrays[j]
  BY <1>1, <1>2, Updated
<1>4. paramArrays' # <<>>  BY <1>2, <1>3
<1>5. TypeOK'  BY <1>1, <1>3, <1>4 DEF Inv, TypeOK
<1>6. ParamsInv'
  <2> SUFFICES ASSUME NEW a \in DOMAIN fnArrays, NEW s \in DOMAIN fnArrays[a]
               PROVE  /\ fnArrays[a][s].params # 1
                      /\ ParamsOf(fnArrays[a][s])' = fnArrays[a][s].given
    BY <1>1 DEF ParamsInv
  <2>1. /\ fnArrays[a][s].params # 1 /\ fnArrays[a][s].params \in 0 .. Len(paramArrays)
        /\ ParamsOf(fnArrays[a][s]) = fnArrays[a][s].given
    BY DEF Inv, TypeOK, ParamsInv
  <2>2. fnArrays[a][s].params # NilSlice => fnArrays[a][s].params \in 1 .. Len(paramArrays)
    BY <1>2, <2>1 DEF NilSlice
  <2> QED  BY <1>1, <1>3, <2>1, <2>2 DEF ParamsOf
<1>7. OptionsInv'  BY <1>1 DEF Inv, OptionsInv
<1>8. options' \in Seq(Option) /\ Len(options) <= Len(options')
  <2>1. options \in Seq(Option)  BY DEF Inv, TypeOK
  <2> QED  BY <1>1, <2>1
<1>9. \A g \in Goroutines : Linked(calls[g])' /\ CallInv(calls[g])'
  BY <1>1, <1>8, KeepCalls
<1>10. /\ \A r \in DOMAIN parsers' : ParserInv(parsers[r])'
       /\ tables'[1] = Builtins
  BY <1>1, KeepParsers
<1> QED  BY <1>5, <1>6, <1>7, <1>9, <1>10 DEF Inv

LEMMA NewFunctionInv ==
    ASSUME Inv, NEW slot \in 1 .. SliceLen, NEW d \in Definitions, NewFunction(slot, d)
    PROVE  Inv'
<1> DEFINE fn == [name |-> d.name, params |-> Len(paramArrays) + 1,
                  resultType |-> d.resultType, call |-> d.call, given |-> paramArrays[1]]
<1>1. /\ paramArrays \in Seq(Seq(AnyFuncType)) /\ paramArrays # <<>>
      /\ fnArrays \in Seq(Seq(Function)) /\ fnArrays # <<>>
      /\ paramArrays' = Append(paramArrays, paramArrays[1])
      /\ fnArrays' = [fnArrays EXCEPT ![1] = [fnArrays[1] EXCEPT ![slot] = fn]]
      /\ UNCHANGED <<options, tables, parsers, calls>>
  BY DEF Inv, TypeOK, NewFunction
<1>2. /\ Len(paramArrays) \in Nat /\ 1 \in 1 .. Len(paramArrays)
      /\ paramArrays[1] \in Seq(AnyFuncType)
      /\ Len(fnArrays) \in Nat /\ 1 \in 1 .. Len(fnArrays) /\ fnArrays[1] \in Seq(Function)
  BY <1>1, NotEmpty, Indexed
<1>3. /\ paramArrays' \in Seq(Seq(AnyFuncType)) /\ Len(paramArrays') = Len(paramArrays) + 1
      /\ \A j \in 1 .. Len(paramArrays) : paramArrays'[j] = paramArrays[j]
      /\ paramArrays'[Len(paramArrays) + 1] = paramArrays[1]
  BY <1>1, <1>2, Appended
<1>4. fn \in Function
  <2>1. d \in [name : STRING, resultType : FuncTypes, call : STRING]  BY RegistryAssumption
  <2> QED  BY <1>2, <2>1 DEF Function
<1>5. /\ fn.params = Len(paramArrays) + 1 /\ fn.given = paramArrays[1]
  OBVIOUS
<1> HIDE DEF fn
<1>6. DOMAIN fnArrays[1] = 1 .. Len(fnArrays[1])  BY <1>2
<1> DEFINE row == [fnArrays[1] EXCEPT ![slot] = fn]
<1>7. /\ row \in Seq(Function) /\ Len(row) = Len(fnArrays[1]) /\ DOMAIN row = DOMAIN fnArrays[1]
      /\ \A s \in DOMAIN row : row[s] = fn \/ row[s] = fnArrays[1][s]
  <2>1. DOMAIN row = DOMAIN fnArrays[1]  OBVIOUS
  <2>2. \A s \in DOMAIN row : row[s] = fn \/ row[s] = fnArrays[1][s]  OBVIOUS
  <2>3. /\ Len(fnArrays[1]) \in Nat
        /\ \A s \in 1 .. Len(fnArrays[1]) : fnArrays[1][s] \in Function
    BY <1>2, Indexed
  <2>4. row \in [1 .. Len(fnArrays[1]) -> Function]  BY <1>4, <1>6, <2>1, <2>2, <2>3
  <2>5. row \in Seq(Function) /\ Len(row) = Len(fnArrays[1])  BY <2>3, <2>4, FunctionIsSeq
  <2> QED  BY <2>1, <2>2, <2>5
<1> HIDE DEF row
<1>8. /\ fnArrays' \in Seq(Seq(Function)) /\ Len(fnArrays') = Len(fnArrays)
      /\ fnArrays'[1] = row
      /\ \A j \in 1 .. Len(fnArrays) : j # 1 => fnArrays'[j] = fnArrays[j]
  <2>1. fnArrays' = [fnArrays EXCEPT ![1] = row]  BY <1>1 DEF row
  <2>2. row \in Seq(Function)  BY <1>7
  <2>3. fnArrays \in Seq(Seq(Function)) /\ 1 \in 1 .. Len(fnArrays)  BY <1>1, <1>2
  <2> DEFINE new == [fnArrays EXCEPT ![1] = row]
  <2>4. /\ new \in Seq(Seq(Function)) /\ Len(new) = Len(fnArrays) /\ new[1] = row
        /\ \A j \in 1 .. Len(fnArrays) : j # 1 => new[j] = fnArrays[j]
    BY ONLY <2>2, <2>3, Updated
  <2> HIDE DEF new
  <2> QED  BY <2>1, <2>4 DEF new
<1>9. DOMAIN fnArrays' = 1 .. Len(fnArrays) /\ DOMAIN fnArrays = 1 .. Len(fnArrays)
  BY <1>1, <1>8, Indexed
<1>10. ASSUME NEW a \in DOMAIN fnArrays', NEW s \in DOMAIN fnArrays'[a]
       PROVE  /\ fnArrays'[a][s].params \in 0 .. Len(paramArrays')
              /\ fnArrays'[a][s].params # 1
              /\ ParamsOf(fnArrays[a][s])' = fnArrays'[a][s].given
  <2>1. CASE fnArrays'[a][s] = fn
    BY <1>2, <1>3, <1>5, <2>1 DEF ParamsOf, NilSlice
  <2>2. CASE s \in DOMAIN fnArrays[a] /\ fnArrays'[a][s] = fnArrays[a][s]
    <3>1. /\ fnArrays[a][s].params # 1 /\ fnArrays[a][s].params \in 0 .. Len(paramArrays)
          /\ ParamsOf(fnArrays[a][s]) = fnArrays[a][s].given
      BY <1>9, <2>2 DEF Inv, TypeOK, ParamsInv
    <3>2. fnArrays[a][s].params # NilSlice => fnArrays[a][s].params \in 1 .. Len(paramArrays)
      BY <1>2, <3>1 DEF NilSlice
    <3>3. ParamsOf(fnArrays[a][s])' = ParamsOf(fnArrays[a][s])
      BY <1>3, <2>2, <3>1, <3>2 DEF ParamsOf
    <3> QED  BY <1>2, <1>3, <2>2, <3>1, <3>3
  <2>3. a = 1 => fnArrays'[a][s] = fn \/ (s \in DOMAIN fnArrays[a] /\ fnArrays'[a][s] = fnArrays[a][s])
    BY <1>7, <1>8
  <2>4. a # 1 => s \in DOMAIN fnArrays[a] /\ fnArrays'[a][s] = fnArrays[a][s]
    BY <1>8, <1>9
  <2> QED  BY <2>1, <2>2, <2>3, <2>4
<1>11. ParamsInv'  BY <1>10 DEF ParamsInv
<1>12. OptionsInv'
  <2> SUFFICES ASSUME NEW o \in DOMAIN options
               PROVE  /\ options[o].fns # 1
                      /\ fnArrays'[options[o].fns] = options[o].given
    BY <1>1 DEF OptionsInv
  <2>1. /\ options[o].fns # 1 /\ fnArrays[options[o].fns] = options[o].given
        /\ options[o].fns \in 1 .. Len(fnArrays)
    BY DEF Inv, OptionsInv, TypeOK
  <2> QED  BY <1>8, <2>1
<1>13. options \in Seq(Option) /\ Len(options) <= Len(options)
  <2>1. options \in Seq(Option)  BY DEF Inv, TypeOK
  <2> QED  BY <2>1
<1>14. TypeOK'
  <2>1. paramArrays' # <<>> /\ fnArrays' # <<>>  BY <1>2, <1>3, <1>8
  <2>2. \A o \in DOMAIN options' : options'[o].fns \in 1 .. Len(fnArrays')
    BY <1>1, <1>8 DEF Inv, TypeOK
  <2>3. Len(fnArrays'[1]) = SliceLen  BY <1>7, <1>8 DEF Inv, TypeOK
  <2>4. /\ paramArrays' \in Seq(Seq(AnyFuncType)) /\ fnArrays' \in Seq(Seq(Function))
    BY <1>3, <1>8
  <2>5. \A a \in DOMAIN fnArrays' : \A s \in DOMAIN fnArrays'[a] :
          fnArrays'[a][s].params \in 0 .. Len(paramArrays')
    BY <1>10
  <2>6. /\ options' \in Seq(Option) /\ tables' # <<>> /\ tables' \in Seq(FunctionMap)
        /\ parsers' \in Seq([registry : 0 .. Len(tables'), given : Seq(Seq(Function))])
        /\ calls' \in [Goroutines -> CallLocals]
    BY <1>1 DEF Inv, TypeOK
  <2> QED  BY <2>1, <2>2, <2>3, <2>4, <2>5, <2>6 DEF TypeOK
<1>15. \A g \in Goroutines : Linked(calls[g])' /\ CallInv(calls[g])'
  BY <1>1, <1>13, KeepCalls
<1>16. /\ \A r \in DOMAIN parsers' : ParserInv(parsers[r])'
       /\ tables'[1] = Builtins
  BY <1>1, KeepParsers
<1> QED  BY <1>11, <1>12, <1>14, <1>15, <1>16 DEF Inv

LEMMA WithFunctionsInv ==
    ASSUME Inv, NEW m \in 0 .. SliceLen, WithFunctions(m)
    PROVE  Inv'
<1> DEFINE fns == SubSeq(fnArrays[1], 1, m)
           opt == [fns |-> Len(fnArrays) + 1, given |-> fns]
<1>1. /\ fnArrays \in Seq(Seq(Function)) /\ fnArrays # <<>> /\ options \in Seq(Option)
      /\ fnArrays' = Append(fnArrays, fns) /\ options' = Append(options, opt)
      /\ UNCHANGED <<paramArrays, tables, parsers, calls>>
  BY DEF Inv, TypeOK, WithFunctions
<1>2. /\ Len(fnArrays) \in Nat /\ 1 \in 1 .. Len(fnArrays) /\ fnArrays[1] \in Seq(Function)
      /\ DOMAIN fnArrays = 1 .. Len(fnArrays) /\ Len(options) \in Nat
      /\ DOMAIN options = 1 .. Len(options)
  BY <1>1, NotEmpty, Indexed
<1>3. /\ fns \in Seq(Function) /\ Len(fns) = m
      /\ \A s \in 1 .. m : fns[s] = fnArrays[1][s]
  <2>1. m \in 0 .. Len(fnArrays[1])  BY DEF Inv, TypeOK
  <2> QED  BY <1>2, <2>1
<1>4. opt \in Option /\ opt.fns = Len(fnArrays) + 1 /\ opt.given = fns
  BY <1>2, <1>3 DEF Option
<1> HIDE DEF fns, opt
<1>5. /\ fnArrays' \in Seq(Seq(Function)) /\ Len(fnArrays') = Len(fnArrays) + 1
      /\ \A a \in 1 .. Len(fnArrays) : fnArrays'[a] = fnArrays[a]
      /\ fnArrays'[Len(fnArrays) + 1] = fns
  <2>1. fns \in Seq(Function)  BY <1>3
  <2> QED  BY <1>1, <2>1, Appended
<1>6. /\ options' \in Seq(Option) /\ Len(options') = Len(options) + 1
      /\ \A o \in 1 .. Len(options) : options'[o] = options[o]
      /\ options'[Len(options) + 1] = opt
  <2>1. opt \in Option  BY <1>4
  <2> QED  BY <1>1, <2>1, Appended
<1>7. /\ DOMAIN fnArrays' = 1 .. Len(fnArrays) + 1
      /\ DOMAIN options' = 1 .. Len(options) + 1
  BY <1>5, <1>6, Indexed
<1>8. DOMAIN fns = 1 .. m /\ DOMAIN fnArrays[1] = 1 .. SliceLen /\ SliceLen \in Nat
  BY <1>2, <1>3, RegistryAssumption DEF Inv, TypeOK
<1>9. ASSUME NEW a \in DOMAIN fnArrays', NEW s \in DOMAIN fnArrays'[a]
      PROVE  /\ fnArrays'[a][s].params \in 0 .. Len(paramArrays)
             /\ fnArrays'[a][s].params # 1
             /\ ParamsOf(fnArrays[a][s])' = fnArrays'[a][s].given
  <2>1. \E b \in DOMAIN fnArrays : s \in DOMAIN fnArrays[b] /\ fnArrays'[a][s] = fnArrays[b][s]
    <3>1. CASE a \in 1 .. Len(fnArrays)  BY <1>2, <1>5, <3>1
    <3>2. CASE a = Len(fnArrays) + 1
      <4>1. s \in 1 .. m /\ fnArrays'[a][s] = fns[s]  BY <1>5, <1>8, <3>2
      <4>2. s \in DOMAIN fnArrays[1]  BY <1>8, <4>1
      <4> QED  BY <1>2, <1>3, <4>1, <4>2
    <3> QED  BY <1>2, <1>7, <3>1, <3>2
  <2>2. PICK b \in DOMAIN fnArrays : s \in DOMAIN fnArrays[b] /\ fnArrays'[a][s] = fnArrays[b][s]
    BY <2>1
  <2>3. /\ fnArrays[b][s].params # 1 /\ fnArrays[b][s].params \in 0 .. Len(paramArrays)
        /\ ParamsOf(fnArrays[b][s]) = fnArrays[b][s].given
    BY <2>2 DEF Inv, TypeOK, ParamsInv
  <2> QED  BY <1>1, <2>2, <2>3 DEF ParamsOf
<1>10. ParamsInv'  BY <1>9 DEF ParamsInv
<1>11. ASSUME NEW o \in DOMAIN options'
       PROVE  /\ options'[o].fns \in 1 .. Len(fnArrays') /\ options'[o].fns # 1
              /\ fnArrays'[options'[o].fns] = options'[o].given
  <2>1. CASE o \in 1 .. Len(options)
    <3>1. /\ options[o].fns \in 1 .. Len(fnArrays) /\ options[o].fns # 1
          /\ fnArrays[options[o].fns] = options[o].given
      BY <1>2, <2>1 DEF Inv, TypeOK, OptionsInv
    <3> QED  BY <1>2, <1>5, <1>6, <2>1, <3>1
  <2>2. CASE o = Len(options) + 1  BY <1>2, <1>4, <1>5, <1>6, <2>2
  <2> QED  BY <1>2, <1>7, <2>1, <2>2
<1>12. OptionsInv'  BY <1>11 DEF OptionsInv
<1>13. TypeOK'
  <2>1. fnArrays' # <<>> /\ Len(fnArrays'[1]) = SliceLen
    BY <1>2, <1>5 DEF Inv, TypeOK
  <2> QED  BY <1>1, <1>5, <1>6, <1>9, <1>11, <2>1 DEF Inv, TypeOK
<1>14. \A g \in Goroutines : Linked(calls[g])' /\ CallInv(calls[g])'
  BY <1>1, <1>2, <1>6, KeepCalls
<1>15. /\ \A r \in DOMAIN parsers' : ParserInv(parsers[r])'
       /\ tables'[1] = Builtins
  BY <1>1, KeepParsers
<1> QED  BY <1>10, <1>12, <1>13, <1>14, <1>15 DEF Inv

-----------------------------------------------------------------------------
\* The steps of NewParser.

LEMMA NewParserInv ==
    ASSUME Inv, NEW g \in Goroutines, NEW n \in 1 .. MaxOpts,
           NEW opts \in [1 .. n -> 0 .. Len(options)], NewParser(g, opts)
    PROVE  Inv'
<1> DEFINE c == [NoCall EXCEPT !.pc = "options", !.opts = opts, !.given = Given(opts)]
<1>1. /\ options \in Seq(Option) /\ Len(options) \in Nat
      /\ \A o \in 1 .. Len(options) : options[o] \in Option
  BY Indexed DEF Inv, TypeOK
<1>2. opts \in Seq(Nat) /\ Len(opts) = n
  BY <1>1
<1>3. ASSUME NEW o \in 1 .. n
      PROVE  /\ opts[o] \in 0 .. Len(options)
             /\ opts[o] # NilOption => options[opts[o]].given \in Seq(Function)
  BY <1>1 DEF NilOption, Option
<1>4. /\ Given(opts) \in Seq(Seq(Function)) /\ Len(Given(opts)) = n
      /\ \A o \in 1 .. n : Given(opts)[o] = IF opts[o] = NilOption THEN <<>>
                                            ELSE options[opts[o]].given
  <2>1. \A o \in 1 .. n : (IF opts[o] = NilOption THEN <<>> ELSE options[opts[o]].given)
                             \in Seq(Function)
    BY <1>3
  <2>2. Given(opts) \in [1 .. n -> Seq(Function)]  BY <1>2, <2>1 DEF Given
  <2>3. n \in Nat  OBVIOUS
  <2>4. Given(opts) \in Seq(Seq(Function)) /\ Len(Given(opts)) = n
    BY <2>2, <2>3, FunctionIsSeq
  <2> QED  BY <1>2, <2>4 DEF Given
<1>5. /\ c.pc = "options" /\ c.opts = opts /\ c.given = Given(opts) /\ c.at = 1 /\ c.k = 1
      /\ c.functions = EmptyMap /\ c.errs = {}
  BY DEF NoCall
<1>6. c \in CallLocals
  <2>1. EmptyMap \in FunctionMap  BY DEF EmptyMap, FunctionMap
  <2> QED  BY <1>2, <1>4, <2>1 DEF NoCall, CallLocals
<1>7. calls' = [calls EXCEPT ![g] = c]
      /\ UNCHANGED <<paramArrays, fnArrays, options, tables, parsers>>
  BY DEF NewParser
<1> HIDE DEF c
<1>8. Linked(c)  BY <1>2, <1>3, <1>4, <1>5 DEF Linked
<1>9. Visited(c) = {}
  <2> SUFFICES ASSUME NEW p \in Visited(c) PROVE FALSE  OBVIOUS
  <2>1. PICK a \in 1 .. Len(c.given) : \E b \in 1 .. Len(c.given[a]) : p = <<a, b>>
    <3>1. p \in Places(c.given)  BY DEF Visited
    <3> QED  BY <3>1, InPlaces
  <2>2. PICK b \in 1 .. Len(c.given[a]) : p = <<a, b>>  BY <2>1
  <2>3. a < 1 \/ (a = 1 /\ b < 1)  BY <1>5, <2>2 DEF Visited
  <2> QED  BY <2>3
<1>10. Known(EmptyMap) = {}  BY DEF Known, EmptyMap
<1>11. Progress(c)  BY <1>5, <1>9, <1>10 DEF Progress
<1>12. Position(c)
  <2>1. Given(opts)[1] \in Seq(Function)  BY <1>4
  <2>2. Len(Given(opts)[1]) \in Nat  BY <2>1
  <2> QED  BY <1>4, <1>5, <2>2 DEF Position
<1>13. CallInv(c)  BY <1>5, <1>11, <1>12 DEF CallInv
<1> QED  BY <1>6, <1>7, <1>8, <1>13, CallStep

LEMMA RejectNilOptionInv ==
    ASSUME Inv, NEW g \in Goroutines, RejectNilOption(g)
    PROVE  Inv'
<1> DEFINE c == [calls[g] EXCEPT !.pc = "nil option"]
<1>1. calls[g] \in CallLocals /\ Linked(calls[g])  BY DEF Inv, TypeOK
<1>2. /\ c \in CallLocals /\ c.pc = "nil option" /\ c.opts = calls[g].opts
      /\ c.given = calls[g].given
  BY <1>1 DEF CallLocals
<1>3. calls' = [calls EXCEPT ![g] = c]
      /\ UNCHANGED <<paramArrays, fnArrays, options, tables, parsers>>
  BY DEF RejectNilOption
<1> HIDE DEF c
<1>4. Linked(c) /\ CallInv(c)  BY <1>1, <1>2 DEF Linked, CallInv
<1> QED  BY <1>2, <1>3, <1>4, CallStep

\* The functions the loop reads are those its option was made from.
LEMMA CurrentGiven ==
    ASSUME Inv, NEW g \in Goroutines, AtOption(g), calls[g].opts[calls[g].at] # NilOption
    PROVE  /\ calls[g].at \in 1 .. Len(calls[g].given)
           /\ CurrentFns(calls[g]) = calls[g].given[calls[g].at]
           /\ \A s \in DOMAIN CurrentFns(calls[g]) :
                ParamsOf(CurrentFns(calls[g])[s]) = CurrentFns(calls[g])[s].given
<1> DEFINE c == calls[g]
<1>1. c \in CallLocals /\ Linked(c) /\ Position(c) /\ c.at <= Len(c.opts)
  BY DEF Inv, TypeOK, CallInv, AtOption, Busy
<1>2. Len(c.opts) \in Nat /\ Len(c.given) = Len(c.opts)  BY <1>1, Indexed DEF CallLocals, Linked
<1>3. c.at \in 1 .. Len(c.opts)  BY <1>1, <1>2 DEF Position
<1>4. c.opts[c.at] \in 0 .. Len(options) /\ c.given[c.at] = options[c.opts[c.at]].given
  BY <1>1, <1>3 DEF Linked
<1>5. Len(options) \in Nat /\ DOMAIN options = 1 .. Len(options)  BY Indexed DEF Inv, TypeOK
<1>6. c.opts[c.at] \in DOMAIN options  BY <1>4, <1>5 DEF NilOption
<1>7. /\ fnArrays[options[c.opts[c.at]].fns] = options[c.opts[c.at]].given
      /\ options[c.opts[c.at]].fns \in 1 .. Len(fnArrays)
  BY <1>6 DEF Inv, OptionsInv, TypeOK
<1>8. options[c.opts[c.at]].fns \in DOMAIN fnArrays
  BY <1>7, Indexed DEF Inv, TypeOK
<1>9. CurrentFns(c) = c.given[c.at]  BY <1>4, <1>7 DEF CurrentFns
<1>10. \A s \in DOMAIN CurrentFns(c) : ParamsOf(CurrentFns(c)[s]) = CurrentFns(c)[s].given
  BY <1>8 DEF CurrentFns, Inv, ParamsInv
<1> QED  BY <1>2, <1>3, <1>9, <1>10

LEMMA NextOptionInv ==
    ASSUME Inv, NEW g \in Goroutines, NextOption(g)
    PROVE  Inv'
<1> DEFINE c == calls[g]
           d == [c EXCEPT !.at = @ + 1, !.k = 1]
<1>1. c \in CallLocals /\ Linked(c) /\ Position(c) /\ Progress(c) /\ c.pc = "options"
  BY DEF Inv, TypeOK, CallInv, NextOption, AtOption, Busy
<1>2. c.at \in 1 .. Len(c.given) /\ CurrentFns(c) = c.given[c.at]
  BY CurrentGiven DEF NextOption
<1>3. c.k > Len(c.given[c.at])  BY <1>2 DEF NextOption
<1>4. /\ d \in CallLocals /\ d.at = c.at + 1 /\ d.k = 1 /\ d.pc = c.pc /\ d.opts = c.opts
      /\ d.given = c.given /\ d.functions = c.functions /\ d.errs = c.errs
  BY <1>1, MoveOn
<1>5. calls' = [calls EXCEPT ![g] = d]
      /\ UNCHANGED <<paramArrays, fnArrays, options, tables, parsers>>
  BY <1>1 DEF NextOption, CallLocals
<1>6. /\ c.given \in Seq(Seq(Function)) /\ Len(c.given) \in Nat
      /\ \A a \in 1 .. Len(c.given) : Len(c.given[a]) \in Nat
  BY <1>1, Indexed DEF CallLocals
<1>7. c.at \in Nat /\ c.k \in Nat  BY <1>1 DEF CallLocals
<1> HIDE DEF c, d
<1>8. ASSUME NEW p \in Places(c.given)
      PROVE  p[1] < d.at \/ (p[1] = d.at /\ p[2] < d.k)
               <=> p[1] < c.at \/ (p[1] = c.at /\ p[2] < c.k)
  <2>1. PICK a \in 1 .. Len(c.given) : \E b \in 1 .. Len(c.given[a]) : p = <<a, b>>
    BY InPlaces
  <2>2. PICK b \in 1 .. Len(c.given[a]) : p = <<a, b>>  BY <2>1
  <2>3. p[1] = a /\ p[2] = b /\ a \in Nat /\ b \in Nat /\ b >= 1  BY <1>6, <2>2
  <2>4. a = c.at => b < c.k  BY <1>3, <1>6, <1>7, <2>2, <2>3
  <2> QED  BY <1>4, <1>7, <2>3, <2>4
<1>9. Visited(d) = Visited(c)  BY <1>4, <1>8 DEF Visited
<1>10. Progress(d)  BY <1>1, <1>4, <1>9 DEF Progress
<1>11. Position(d)
  <2>1. d.at \in 1 .. Len(d.given) + 1  BY <1>2, <1>4, <1>6, <1>7
  <2>2. d.at <= Len(d.given) => d.k \in 1 .. Len(d.given[d.at]) + 1
    <3> SUFFICES ASSUME d.at <= Len(c.given) PROVE 1 \in 1 .. Len(c.given[d.at]) + 1
      BY <1>4
    <3>1. d.at \in 1 .. Len(c.given)  BY <1>4, <1>6, <2>1
    <3>2. Len(c.given[d.at]) \in Nat  BY <1>6, <3>1
    <3> QED  BY <3>2
  <2> QED  BY <2>1, <2>2 DEF Position
<1>12. Linked(d) /\ CallInv(d)  BY <1>1, <1>4, <1>10, <1>11 DEF Linked, CallInv
<1> QED  BY <1>4, <1>5, <1>12, CallStep

\* One turn of the loop visits one more place.
LEMMA VisitedNext ==
    ASSUME NEW c \in CallLocals, NEW d \in CallLocals, d.given = c.given, d.at = c.at,
           d.k = c.k + 1, c.at \in 1 .. Len(c.given), c.k \in 1 .. Len(c.given[c.at])
    PROVE  /\ <<c.at, c.k>> \in Places(c.given) /\ <<c.at, c.k>> \notin Visited(c)
           /\ Visited(d) = Visited(c) \cup {<<c.at, c.k>>}
           /\ \A q \in Places(c.given) : Before(q, <<c.at, c.k>>) <=> q \in Visited(c)
<1>1. c.at \in Nat /\ c.k \in Nat  BY DEF CallLocals
<1>2. <<c.at, c.k>> \in Places(c.given)  BY InPlaces
<1>3. <<c.at, c.k>>[1] = c.at /\ <<c.at, c.k>>[2] = c.k  OBVIOUS
<1>4. ASSUME NEW q \in Places(c.given)
      PROVE  /\ Before(q, <<c.at, c.k>>) <=> q \in Visited(c)
             /\ q \in Visited(d) <=> q \in Visited(c) \/ q = <<c.at, c.k>>
  <2>1. PICK a \in 1 .. Len(c.given) : \E b \in 1 .. Len(c.given[a]) : q = <<a, b>>
    BY InPlaces
  <2>2. PICK b \in 1 .. Len(c.given[a]) : q = <<a, b>>  BY <2>1
  <2>3. q[1] = a /\ q[2] = b  BY <2>2
  <2>4. a \in Int /\ b \in Int  OBVIOUS
  <2>5. b < c.k + 1 <=> b < c.k \/ b = c.k  BY <1>1, <2>4
  <2>6. q = <<c.at, c.k>> <=> a = c.at /\ b = c.k  BY <2>2
  <2> QED  BY <1>3, <2>3, <2>5, <2>6 DEF Before, Visited
<1>5. <<c.at, c.k>> \notin Visited(c)  BY <1>1, <1>3 DEF Visited
<1>6. Visited(d) = Visited(c) \cup {<<c.at, c.k>>}
  <2>1. Visited(d) \subseteq Places(c.given) /\ Visited(c) \subseteq Places(c.given)
    BY DEF Visited
  <2> QED  BY <1>2, <1>4, <2>1
<1> QED  BY <1>2, <1>4, <1>5, <1>6

LEMMA RegisterFunctionInv ==
    ASSUME Inv, NEW g \in Goroutines, RegisterFunction(g)
    PROVE  Inv'
<1> DEFINE c  == calls[g]
           p  == <<c.at, c.k>>
           fn == CurrentFns(c)[c.k]
           ok == Registrable(fn) /\ fn.name \notin Known(c.functions)
           d  == IF ok THEN [c EXCEPT !.k = @ + 1, !.functions = [@ EXCEPT ![fn.name] = Adapter(fn)]]
                 ELSE [c EXCEPT !.k = @ + 1, !.errs = @ \cup {p}]
<1>1. c \in CallLocals /\ Linked(c) /\ Position(c) /\ Progress(c) /\ c.pc = "options"
  BY DEF Inv, TypeOK, CallInv, RegisterFunction, AtOption, Busy
<1>2. /\ c.at \in 1 .. Len(c.given) /\ CurrentFns(c) = c.given[c.at]
      /\ \A s \in DOMAIN CurrentFns(c) : ParamsOf(CurrentFns(c)[s]) = CurrentFns(c)[s].given
  BY CurrentGiven DEF RegisterFunction
<1>3. /\ c.given[c.at] \in Seq(Function) /\ c.at \in Nat /\ c.k \in Nat
      /\ c.functions \in FunctionMap /\ c.errs \in SUBSET (Nat \X Nat)
  BY <1>1, <1>2, Indexed DEF CallLocals
<1>4. c.k \in 1 .. Len(c.given[c.at])
  <2>1. c.k <= Len(c.given[c.at])  BY <1>2 DEF RegisterFunction
  <2>2. c.k >= 1  BY <1>1, <1>2, <1>3 DEF Position
  <2>3. Len(c.given[c.at]) \in Nat  BY <1>3
  <2> QED  BY <1>3, <2>1, <2>2, <2>3
<1>5. fn = FnAt(c.given, p) /\ fn \in Function /\ ParamsOf(fn) = fn.given
  <2>1. c.k \in DOMAIN CurrentFns(c)  BY <1>2, <1>3, <1>4, Indexed
  <2>2. fn \in Function  BY <1>2, <1>3, <1>4, Indexed
  <2> QED  BY <1>2, <2>1, <2>2 DEF FnAt
<1>6. tables[1] = Builtins  BY DEF Inv
<1>7. Registrable(fn) <=> WellFormed(fn)
  BY <1>5, <1>6 DEF Registrable, WellFormed, mapFuncType
<1>8. Adapter(fn) = GivenAdapter(fn) /\ Adapter(fn) \in Adapters
  BY <1>5 DEF Adapter, GivenAdapter, Adapters, Function
<1>9. calls' = [calls EXCEPT ![g] = d]
      /\ UNCHANGED <<paramArrays, fnArrays, options, tables, parsers>>
  BY DEF RegisterFunction
<1>10. ok => fn.name \in ValidNames  BY DEF Registrable
<1>11. /\ d \in CallLocals /\ d.pc = c.pc /\ d.opts = c.opts /\ d.given = c.given /\ d.at = c.at
       /\ d.k = c.k + 1
       /\ d.functions = IF ok THEN [c.functions EXCEPT ![fn.name] = Adapter(fn)] ELSE c.functions
       /\ d.errs = IF ok THEN c.errs ELSE c.errs \cup {p}
  <2>1. CASE ok
    <3>1. d = [c EXCEPT !.k = @ + 1, !.functions = [@ EXCEPT ![fn.name] = Adapter(fn)]]  BY <2>1
    <3>2. [c.functions EXCEPT ![fn.name] = Adapter(fn)] \in FunctionMap
      BY <1>3, <1>8, <1>10, <2>1 DEF FunctionMap
    <3> HIDE DEF c, fn, p, ok, d
    <3> DEFINE m == [c.functions EXCEPT ![fn.name] = Adapter(fn)]
               e == [c EXCEPT !.k = @ + 1, !.functions = m]
    <3>3. m \in FunctionMap  BY <3>2
    <3>4. d = e  BY <3>1
    <3> HIDE DEF m
    <3>5. /\ e \in CallLocals /\ e.at = c.at /\ e.k = c.k + 1 /\ e.pc = c.pc
          /\ e.opts = c.opts /\ e.given = c.given /\ e.functions = m /\ e.errs = c.errs
      BY <1>1, <3>3, Register
    <3> HIDE DEF e
    <3> QED  BY <2>1, <3>4, <3>5 DEF m
  <2>2. CASE ~ok
    <3>1. d = [c EXCEPT !.k = @ + 1, !.errs = @ \cup {p}]  BY <2>2
    <3>2. c.errs \cup {p} \in SUBSET (Nat \X Nat)  BY <1>3
    <3> HIDE DEF c, fn, p, ok, d
    <3> DEFINE e == [c EXCEPT !.k = @ + 1, !.errs = @ \cup {p}]
    <3>3. /\ e \in CallLocals /\ e.at = c.at /\ e.k = c.k + 1 /\ e.pc = c.pc
          /\ e.opts = c.opts /\ e.given = c.given
          /\ e.functions = c.functions /\ e.errs = c.errs \cup {p}
      BY <1>1, <3>2, RecordError
    <3>4. d = e  BY <3>1
    <3> HIDE DEF e
    <3> QED  BY <2>2, <3>3, <3>4
  <2> QED  BY <2>1, <2>2
<1> HIDE DEF d
<1>12. /\ p \in Places(c.given) /\ p \notin Visited(c) /\ Visited(d) = Visited(c) \cup {p}
       /\ \A q \in Places(c.given) : Before(q, p) <=> q \in Visited(c)
  BY <1>1, <1>2, <1>4, <1>11, VisitedNext
<1>13. Visited(c) \subseteq Places(c.given)  BY DEF Visited
<1> HIDE DEF c, p
<1>14. fn.name \in ValidNames => (fn.name \in Known(c.functions) <=>
          \E q \in Visited(c) : WellFormed(FnAt(c.given, q)) /\ FnAt(c.given, q).name = fn.name)
  BY <1>1 DEF Progress
<1>15. Offends(c.given, p) <=> ~ok
  <2>1. WellFormed(fn) => fn.name \in ValidNames  BY DEF WellFormed
  <2>2. Offends(c.given, p) <=> ~WellFormed(fn) \/ \E q \in Visited(c) :
            WellFormed(FnAt(c.given, q)) /\ FnAt(c.given, q).name = fn.name
    BY <1>5, <1>12, <1>13 DEF Offends
  <2> QED  BY <1>7, <1>14, <2>1, <2>2
<1>16. Progress(d)
  <2>1. d.errs = {q \in Visited(d) : Offends(d.given, q)}
    BY <1>1, <1>11, <1>12, <1>15 DEF Progress
  <2>2. ASSUME NEW name \in ValidNames
        PROVE  name \in Known(d.functions) <=> \E q \in Visited(d) :
                 WellFormed(FnAt(d.given, q)) /\ FnAt(d.given, q).name = name
    <3>1. name \in Known(c.functions) <=> \E q \in Visited(c) :
                 WellFormed(FnAt(c.given, q)) /\ FnAt(c.given, q).name = name
      BY <1>1 DEF Progress
    <3>2. ok => (name \in Known(d.functions) <=> name \in Known(c.functions) \/ name = fn.name)
      <4>1. Adapter(fn) # Absent  BY <1>8, RegistryAssumption
      <4> QED  BY <1>3, <1>10, <1>11, <4>1 DEF Known, FunctionMap
    <3>3. ~ok => d.functions = c.functions  BY <1>11
    <3>4. ~ok /\ WellFormed(fn) => fn.name \in Known(c.functions)  BY <1>7
    <3>5. (\E q \in Visited(d) : WellFormed(FnAt(d.given, q)) /\ FnAt(d.given, q).name = name)
            <=> \/ \E q \in Visited(c) : WellFormed(FnAt(c.given, q)) /\ FnAt(c.given, q).name = name
                \/ WellFormed(fn) /\ fn.name = name
      BY <1>5, <1>11, <1>12
    <3>6. ok => WellFormed(fn)  BY <1>7
    <3> HIDE DEF ok, fn
    <3> QED  BY <3>1, <3>2, <3>3, <3>4, <3>5, <3>6
  <2>3. ASSUME NEW q \in Visited(d), ~Offends(d.given, q)
        PROVE  d.functions[FnAt(d.given, q).name] = GivenAdapter(FnAt(d.given, q))
    <3>1. CASE q = p
      <4>1. ok /\ fn.name \in ValidNames  BY <1>10, <1>11, <1>15, <2>3, <3>1
      <4>2. d.functions[fn.name] = Adapter(fn)  BY <1>3, <1>11, <4>1 DEF FunctionMap
      <4> QED  BY <1>5, <1>8, <1>11, <3>1, <4>2
    <3>2. CASE q \in Visited(c)
      <4> DEFINE f == FnAt(c.given, q)
      <4>1. c.functions[f.name] = GivenAdapter(f)  BY <1>1, <1>11, <2>3, <3>2 DEF Progress
      <4>2. WellFormed(f)  BY <1>11, <2>3 DEF Offends
      <4>3. f.name \in ValidNames /\ f.name \in Known(c.functions)
        BY <1>1, <3>2, <4>2 DEF Progress, WellFormed
      <4>4. ok => f.name # fn.name  BY <4>3
      <4>5. d.functions[f.name] = c.functions[f.name]
        BY <1>3, <1>11, <4>3, <4>4 DEF FunctionMap
      <4> QED  BY <1>11, <4>1, <4>5
    <3> QED  BY <1>12, <3>1, <3>2
  <2> QED  BY <2>1, <2>2, <2>3 DEF Progress
<1>17. Position(d)
  <2>1. Len(c.given[c.at]) \in Nat  BY <1>3
  <2> QED  BY <1>1, <1>3, <1>4, <1>11, <2>1 DEF Position
<1>18. Linked(d) /\ CallInv(d)  BY <1>1, <1>11, <1>16, <1>17 DEF Linked, CallInv
<1> QED  BY <1>9, <1>11, <1>18, CallStep

\* When the options are done every place has been visited.
LEMMA AllVisited ==
    ASSUME Inv, NEW g \in Goroutines, OptionsDone(g)
    PROVE  /\ calls[g] \in CallLocals /\ Linked(calls[g]) /\ Progress(calls[g])
           /\ Visited(calls[g]) = Places(calls[g].given)
<1> DEFINE c == calls[g]
<1>1. c \in CallLocals /\ Linked(c) /\ Progress(c) /\ c.at > Len(c.given) /\ c.at \in Nat
  BY DEF Inv, TypeOK, CallInv, OptionsDone, Busy, Linked, CallLocals
<1>2. Len(c.given) \in Nat  BY <1>1, Indexed DEF CallLocals
<1>3. ASSUME NEW p \in Places(c.given) PROVE p[1] < c.at
  <2>1. PICK a \in 1 .. Len(c.given) : \E b \in 1 .. Len(c.given[a]) : p = <<a, b>>
    BY InPlaces
  <2>2. p[1] = a  BY <2>1
  <2> QED  BY <1>1, <1>2, <2>2
<1> QED  BY <1>1, <1>3 DEF Visited

LEMMA ReturnErrorInv ==
    ASSUME Inv, NEW g \in Goroutines, ReturnError(g)
    PROVE  Inv'
<1> DEFINE c == [calls[g] EXCEPT !.pc = "error"]
<1>1. /\ calls[g] \in CallLocals /\ Linked(calls[g]) /\ Progress(calls[g])
      /\ Visited(calls[g]) = Places(calls[g].given) /\ calls[g].errs # {}
  BY AllVisited DEF ReturnError
<1>2. /\ c \in CallLocals /\ c.pc = "error" /\ c.opts = calls[g].opts
      /\ c.given = calls[g].given /\ c.errs = calls[g].errs
  BY <1>1 DEF CallLocals
<1>3. calls' = [calls EXCEPT ![g] = c]
      /\ UNCHANGED <<paramArrays, fnArrays, options, tables, parsers>>
  BY DEF ReturnError
<1> HIDE DEF c
<1>4. c.errs = {p \in Places(c.given) : Offends(c.given, p)}  BY <1>1, <1>2 DEF Progress
<1>5. c.pc # "parser" /\ c.errs # {}  BY <1>1, <1>2
<1>6. Reported(c)  BY <1>4, <1>5 DEF Reported
<1>7. Linked(c) /\ CallInv(c)  BY <1>1, <1>2, <1>6 DEF Linked, CallInv
<1> QED  BY <1>2, <1>3, <1>7, CallStep

\* A parser is added to those handed out.
LEMMA AddParser ==
    ASSUME Inv, NEW r, parsers' = Append(parsers, r),
           tables' \in Seq(FunctionMap), Len(tables) <= Len(tables'), tables' # <<>>,
           \A t \in 1 .. Len(tables) : tables'[t] = tables[t],
           r \in [registry : 0 .. Len(tables'), given : Seq(Seq(Function))],
           ParserInv(r)'
    PROVE  /\ parsers' \in Seq([registry : 0 .. Len(tables'), given : Seq(Seq(Function))])
           /\ \A q \in DOMAIN parsers' : ParserInv(parsers[q])'
           /\ tables'[1] = Builtins
<1>1. /\ tables \in Seq(FunctionMap) /\ tables # <<>> /\ Len(tables) \in Nat
      /\ 1 \in 1 .. Len(tables) /\ Len(tables') \in Nat
  BY Indexed, NotEmpty DEF Inv, TypeOK
<1> DEFINE R(n) == [registry : 0 .. n, given : Seq(Seq(Function))]
<1>2. parsers \in Seq(R(Len(tables)))  BY DEF Inv, TypeOK
<1>3. R(Len(tables)) \subseteq R(Len(tables'))  BY <1>1
<1>4. parsers \in Seq(R(Len(tables')))
  <2>1. /\ Len(parsers) \in Nat /\ DOMAIN parsers = 1 .. Len(parsers)
        /\ \A i \in 1 .. Len(parsers) : parsers[i] \in R(Len(tables))
    BY <1>2, Indexed
  <2> HIDE DEF R
  <2>2. parsers \in [1 .. Len(parsers) -> R(Len(tables'))]  BY <1>2, <1>3, <2>1
  <2> QED  BY <2>1, <2>2, FunctionIsSeq
<1>5. /\ parsers' \in Seq(R(Len(tables'))) /\ Len(parsers') = Len(parsers) + 1
      /\ \A i \in 1 .. Len(parsers) : parsers'[i] = parsers[i]
      /\ parsers'[Len(parsers) + 1] = r
  <2>1. r \in R(Len(tables'))  OBVIOUS
  <2> HIDE DEF R
  <2> QED  BY <1>4, <2>1, Appended
<1>6. DOMAIN parsers' = 1 .. Len(parsers) + 1 /\ Len(parsers) \in Nat
      /\ DOMAIN parsers = 1 .. Len(parsers)
  BY <1>2, <1>5, Indexed
<1>7. ASSUME NEW q \in 1 .. Len(parsers) PROVE ParserInv(parsers[q])'
  <2>1. ParserInv(parsers[q]) /\ parsers'[q] = parsers[q]  BY <1>5, <1>6 DEF Inv
  <2>2. parsers[q].registry \in 0 .. Len(tables)
    <3>1. parsers[q] \in R(Len(tables))  BY <1>2, Indexed
    <3> QED  BY <3>1
  <2>3. Table(parsers[q])' = Table(parsers[q])
    BY <1>1, <2>1, <2>2 DEF Table, NilMap
  <2> QED  BY <2>1, <2>3 DEF ParserInv
<1>8. ASSUME NEW q, q = Len(parsers) + 1 PROVE ParserInv(parsers[q])'
  <2>1. parsers'[q] = r  BY <1>5, <1>8
  <2> QED  BY <2>1 DEF ParserInv, Table
<1>9. \A q \in DOMAIN parsers' : ParserInv(parsers[q])'
  <2> SUFFICES ASSUME NEW q \in DOMAIN parsers' PROVE ParserInv(parsers[q])'  OBVIOUS
  <2>1. q \in 1 .. Len(parsers) \/ q = Len(parsers) + 1  BY <1>6
  <2> QED  BY <1>7, <1>8, <2>1
<1>10. tables'[1] = Builtins  BY <1>1 DEF Inv
<1> QED  BY <1>5, <1>9, <1>10

LEMMA NewParserDefaultInv ==
    ASSUME Inv, NEW g \in Goroutines, NewParserDefault(g)
    PROVE  Inv'
<1> DEFINE r == [registry |-> NilMap, given |-> <<>>]
<1>1. /\ parsers' = Append(parsers, r)
      /\ UNCHANGED <<paramArrays, fnArrays, options, tables, calls>>
  BY DEF NewParserDefault
<1>2. tables \in Seq(FunctionMap) /\ Len(tables) \in Nat /\ tables # <<>> /\ tables[1] = Builtins
  BY Indexed DEF Inv, TypeOK
<1>3. r \in [registry : 0 .. Len(tables'), given : Seq(Seq(Function))]
  BY <1>1, <1>2 DEF NilMap
<1>4. Places(<<>>) = {}
  <2> SUFFICES ASSUME NEW p \in Places(<<>>) PROVE FALSE  OBVIOUS
  <2>1. PICK a \in 1 .. Len(<<>>) : TRUE  BY InPlaces
  <2> QED  BY <2>1
<1>5. r.registry = NilMap /\ r.given = <<>> /\ Table(r)' = Builtins
  BY <1>1, <1>2 DEF Table
<1> HIDE DEF r
<1>6. ParserInv(r)'  BY <1>4, <1>5 DEF ParserInv, NilMap
<1>7. /\ parsers' \in Seq([registry : 0 .. Len(tables'), given : Seq(Seq(Function))])
      /\ \A q \in DOMAIN parsers' : ParserInv(parsers[q])'
      /\ tables'[1] = Builtins
  <2>1. /\ tables' \in Seq(FunctionMap) /\ Len(tables) <= Len(tables') /\ tables' # <<>>
        /\ \A t \in 1 .. Len(tables) : tables'[t] = tables[t]
    BY <1>1, <1>2
  <2> QED  BY <1>1, <1>3, <1>6, <2>1, AddParser
<1>8. TypeOK'  BY <1>1, <1>7 DEF Inv, TypeOK
<1>9. ParamsInv' /\ OptionsInv'  BY <1>1 DEF Inv, ParamsInv, OptionsInv, ParamsOf
<1>10. options' \in Seq(Option) /\ Len(options) <= Len(options')
  <2>1. options \in Seq(Option)  BY DEF Inv, TypeOK
  <2> QED  BY <1>1, <2>1
<1>11. \A h \in Goroutines : Linked(calls[h])' /\ CallInv(calls[h])'
  BY <1>1, <1>10, KeepCalls
<1> QED  BY <1>7, <1>8, <1>9, <1>11 DEF Inv

LEMMA ReturnParserInv ==
    ASSUME Inv, NEW g \in Goroutines, ReturnParser(g)
    PROVE  Inv'
<1> DEFINE c == calls[g]
           d == [c EXCEPT !.pc = "parser"]
           table == Copied(Builtins, c.functions)
<1>1. /\ c \in CallLocals /\ Linked(c) /\ Progress(c) /\ Visited(c) = Places(c.given)
      /\ c.errs = {}
  BY AllVisited DEF ReturnParser
<1>2. /\ tables \in Seq(FunctionMap) /\ Len(tables) \in Nat /\ tables # <<>>
      /\ 1 \in 1 .. Len(tables) /\ tables[1] = Builtins /\ c.functions \in FunctionMap
      /\ c.given \in Seq(Seq(Function)) /\ Builtins \in FunctionMap
  BY <1>1, Indexed, NotEmpty, RegistryAssumption DEF Inv, TypeOK, CallLocals
<1> PICK r : r = [registry |-> Len(tables) + 1, given |-> c.given]  OBVIOUS
<1>3. /\ tables' = Append(tables, table) /\ parsers' = Append(parsers, r)
      /\ calls' = [calls EXCEPT ![g] = d]
      /\ UNCHANGED <<paramArrays, fnArrays, options>>
  BY <1>2 DEF ReturnParser
<1>4. /\ table \in FunctionMap
      /\ \A name \in ValidNames :
           table[name] = IF c.functions[name] # Absent THEN c.functions[name] ELSE Builtins[name]
  BY <1>2 DEF Copied, FunctionMap
<1>5. /\ d \in CallLocals /\ d.pc = "parser" /\ d.opts = c.opts
      /\ d.given = c.given /\ d.errs = c.errs
  BY <1>1 DEF CallLocals
<1>6. r.registry = Len(tables) + 1 /\ r.given = c.given
  OBVIOUS
<1> HIDE DEF table, d
<1>7. /\ tables' \in Seq(FunctionMap) /\ Len(tables') = Len(tables) + 1
      /\ \A t \in 1 .. Len(tables) : tables'[t] = tables[t]
      /\ tables'[Len(tables) + 1] = table
  BY <1>2, <1>3, <1>4, Appended
<1>8. tables' # <<>> /\ Len(tables) <= Len(tables')  BY <1>2, <1>7
<1>9. r \in [registry : 0 .. Len(tables'), given : Seq(Seq(Function))]
  BY <1>2, <1>7
<1>10. \A p \in Places(c.given) :
         /\ WellFormed(FnAt(c.given, p)) /\ FnAt(c.given, p).name \in ValidNames
         /\ FnAt(c.given, p).name \notin Known(Builtins)
         /\ c.functions[FnAt(c.given, p).name] = GivenAdapter(FnAt(c.given, p))
  <2>1. \A p \in Places(c.given) : ~Offends(c.given, p)  BY <1>1 DEF Progress
  <2>2. \A p \in Places(c.given) : WellFormed(FnAt(c.given, p))  BY <2>1 DEF Offends
  <2> QED  BY <1>1, <2>1, <2>2 DEF Progress, WellFormed
<1>11. ASSUME NEW name \in ValidNames
       PROVE  name \in Known(c.functions) <=> \E p \in Places(c.given) : FnAt(c.given, p).name = name
  BY <1>1, <1>10 DEF Progress
<1>12. \A name \in ValidNames : name \in Known(c.functions) <=> c.functions[name] # Absent
  BY DEF Known
<1>13. Table(r)' = table  BY <1>2, <1>3, <1>6, <1>7 DEF Table, NilMap
<1> HIDE DEF c
<1>14. Known(table) = Known(Builtins) \cup {FnAt(c.given, p).name : p \in Places(c.given)}
  <2>1. ASSUME NEW name \in ValidNames
        PROVE  name \in Known(table) <=> name \in Known(c.functions) \/ name \in Known(Builtins)
    BY <1>4 DEF Known
  <2>2. Known(table) \subseteq ValidNames /\ Known(Builtins) \subseteq ValidNames
    BY DEF Known
  <2>3. \A p \in Places(c.given) : FnAt(c.given, p).name \in ValidNames  BY <1>10
  <2>4. \A name \in ValidNames : name \in Known(table) <=>
          name \in Known(Builtins) \cup {FnAt(c.given, p).name : p \in Places(c.given)}
    BY <1>11, <2>1
  <2>5. {FnAt(c.given, p).name : p \in Places(c.given)} \subseteq ValidNames  BY <2>3
  <2> QED  BY <2>2, <2>4, <2>5
<1>15. \A p \in Places(c.given) : table[FnAt(c.given, p).name] = GivenAdapter(FnAt(c.given, p))
  <2> SUFFICES ASSUME NEW p \in Places(c.given)
               PROVE  table[FnAt(c.given, p).name] = GivenAdapter(FnAt(c.given, p))
    OBVIOUS
  <2> DEFINE name == FnAt(c.given, p).name
  <2>1. name \in ValidNames /\ c.functions[name] = GivenAdapter(FnAt(c.given, p))  BY <1>10
  <2>2. c.functions[name] # Absent  BY <1>11, <1>12, <2>1
  <2> QED  BY <1>4, <2>1, <2>2
<1>16. \A name \in Known(Builtins) : table[name] = Builtins[name]
  <2> SUFFICES ASSUME NEW name \in Known(Builtins) PROVE table[name] = Builtins[name]
    OBVIOUS
  <2>1. name \in ValidNames  BY DEF Known
  <2>2. name \notin Known(c.functions)  BY <1>10, <1>11, <2>1
  <2> QED  BY <1>4, <1>12, <2>1, <2>2
<1>17. ParserInv(r)'
  <2>1. r.registry # 1 /\ r.registry # NilMap  BY <1>2, <1>6 DEF NilMap
  <2> QED  BY <1>6, <1>13, <1>14, <1>15, <1>16, <2>1 DEF ParserInv
<1>18. /\ parsers' \in Seq([registry : 0 .. Len(tables'), given : Seq(Seq(Function))])
       /\ \A q \in DOMAIN parsers' : ParserInv(parsers[q])'
       /\ tables'[1] = Builtins
  BY <1>3, <1>7, <1>8, <1>9, <1>17, AddParser
<1>19. /\ calls' \in [Goroutines -> CallLocals] /\ calls'[g] = d
       /\ \A h \in Goroutines : h # g => calls'[h] = calls[h]
  BY <1>3, <1>5 DEF Inv, TypeOK
<1>20. TypeOK'
  BY <1>3, <1>7, <1>8, <1>18, <1>19 DEF Inv, TypeOK
<1>21. ParamsInv' /\ OptionsInv'  BY <1>3 DEF Inv, ParamsInv, OptionsInv, ParamsOf
<1>22. Linked(d) /\ CallInv(d)
  <2>1. d.errs = {p \in Places(d.given) : Offends(d.given, p)}  BY <1>1, <1>5 DEF Progress
  <2>2. Reported(d)  BY <1>1, <1>5, <2>1 DEF Reported
  <2> QED  BY <1>1, <1>5, <2>2 DEF Linked, CallInv
<1>23. ASSUME NEW h \in Goroutines PROVE Linked(calls[h])' /\ CallInv(calls[h])'
  <2>1. Linked(calls'[h]) /\ CallInv(calls'[h])  BY <1>19, <1>22 DEF Inv
  <2>2. Linked(calls[h])'  BY <1>3, <2>1 DEF Linked
  <2> QED  BY <2>1, <2>2
<1> QED  BY <1>18, <1>20, <1>21, <1>23 DEF Inv

-----------------------------------------------------------------------------
LEMMA StutterInv == Inv /\ UNCHANGED vars => Inv'
<1> SUFFICES ASSUME Inv, UNCHANGED vars PROVE Inv'  OBVIOUS
<1>1. /\ paramArrays' = paramArrays /\ fnArrays' = fnArrays /\ options' = options
      /\ tables' = tables /\ parsers' = parsers /\ calls' = calls
  BY DEF vars
<1>2. TypeOK' /\ ParamsInv' /\ OptionsInv'
  BY <1>1 DEF Inv, TypeOK, ParamsInv, OptionsInv, ParamsOf
<1>3. options' \in Seq(Option) /\ Len(options) <= Len(options')
  <2>1. options \in Seq(Option)  BY DEF Inv, TypeOK
  <2> QED  BY <1>1, <2>1
<1>4. \A g \in Goroutines : Linked(calls[g])' /\ CallInv(calls[g])'
  BY <1>1, <1>3, KeepCalls
<1>5. /\ \A r \in DOMAIN parsers' : ParserInv(parsers[r])'
      /\ tables'[1] = Builtins
  BY <1>1, KeepParsers
<1> QED  BY <1>2, <1>4, <1>5 DEF Inv

LEMMA NextInv == Inv /\ [Next]_vars => Inv'
<1> SUFFICES ASSUME Inv, [Next]_vars PROVE Inv'  OBVIOUS
<1>1. ASSUME NEW list \in ParamLists, SetParams(list) PROVE Inv'
  BY <1>1, SetParamsInv
<1>2. ASSUME NEW slot \in 1 .. SliceLen, NEW d \in Definitions, NewFunction(slot, d) PROVE Inv'
  BY <1>2, NewFunctionInv
<1>3. ASSUME NEW m \in 0 .. SliceLen, WithFunctions(m) PROVE Inv'
  BY <1>3, WithFunctionsInv
<1>4. ASSUME NEW g \in Goroutines, NEW n \in 1 .. MaxOpts,
             NEW opts \in [1 .. n -> 0 .. Len(options)], NewParser(g, opts)
      PROVE  Inv'
  BY <1>4, NewParserInv
<1>5. ASSUME NEW g \in Goroutines,
             \/ NewParserDefault(g) \/ RejectNilOption(g) \/ RegisterFunction(g)
             \/ NextOption(g) \/ ReturnError(g) \/ ReturnParser(g)
      PROVE  Inv'
  BY <1>5, NewParserDefaultInv, RejectNilOptionInv, RegisterFunctionInv, NextOptionInv,
     ReturnErrorInv, ReturnParserInv
<1>6. CASE UNCHANGED vars  BY <1>6, StutterInv
<1> QED  BY <1>1, <1>2, <1>3, <1>4, <1>5, <1>6 DEF Next

LEMMA InvImplies == Inv => ReportsEveryOffender /\ ParsersKnowTheirFunctions /\ BuiltinsKept
<1> SUFFICES ASSUME Inv PROVE ReportsEveryOffender /\ ParsersKnowTheirFunctions /\ BuiltinsKept
  OBVIOUS
<1>1. ReportsEveryOffender  BY DEF Inv, CallInv, Reported, ReportsEveryOffender
<1>2. ParsersKnowTheirFunctions  BY DEF Inv, ParserInv, ParsersKnowTheirFunctions
<1>3. BuiltinsKept  BY DEF Inv, ParserInv, BuiltinsKept
<1> QED  BY <1>1, <1>2, <1>3

\* References made by options.go never dangle, whatever the callers do.
THEOREM RegistryTypeCorrect == Spec => []TypeOK
<1>1. Inv => TypeOK  BY DEF Inv
<1> QED  BY <1>1, InitInv, NextInv, PTL DEF Spec

\* NewParser reports exactly the functions that may not be registered, for any
\* options, while callers go on changing the slices the options were made from.
THEOREM OffendersReported == Spec => []ReportsEveryOffender
  BY InitInv, NextInv, InvImplies, PTL DEF Spec

\* Every parser knows the built-ins and the functions of its own options, as
\* they were defined, for as long as it lives.
THEOREM ParsersIsolated == Spec => []ParsersKnowTheirFunctions
  BY InitInv, NextInv, InvImplies, PTL DEF Spec

\* The shared table of built-ins is never written, and no parser overrides it.
THEOREM BuiltinsNeverChange == Spec => []BuiltinsKept
  BY InitInv, NextInv, InvImplies, PTL DEF Spec

=============================================================================
