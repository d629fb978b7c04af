----------------------------- MODULE RegexpCache -----------------------------
(***************************************************************************)
(* The process-wide cache of compiled I-Regexps, compileIRegexpMode in     *)
(* internal/functions/builtins.go.  reCache is a sync.Map and reCacheSize  *)
(* an atomic counter: each call on one of them is atomic, the sequence of  *)
(* calls is not.  Goroutines evaluate match() and search() concurrently.   *)
(***************************************************************************)
EXTENDS Integers, FiniteSets

CONSTANTS
    Goroutines,
    Patterns,
    ValidPatterns,
    Nil,
    reCacheMaxSize

ASSUME CacheAssumption ==
    /\ IsFiniteSet(Goroutines)
    /\ ValidPatterns \subseteq Patterns
    /\ reCacheMaxSize \in Nat \ {0}
    /\ Nil \notin [pattern : Patterns, anchored : BOOLEAN]

VARIABLES
    reCache,       \* cache key -> regexp, Nil when absent
    reCacheSize,   \* the counter
    pc,            \* where each goroutine is in compileIRegexpMode
    req,           \* its arguments: pattern and mode
    ret            \* what its last call returned, Nil while it runs

vars == <<reCache, reCacheSize, pc, req, ret>>

Oracle == INSTANCE RegexpOracle
    WITH phase <- [g \in Goroutines |-> IF pc[g] = "idle" THEN "idle" ELSE "busy"]

-----------------------------------------------------------------------------
Keys == [pattern : Patterns, anchored : BOOLEAN]

Regexps == Keys \cup {Nil}

Locations == {"idle", "load", "compile", "check", "clear", "reset", "store", "add"}

\* compileIRegexpUncached: nil when checkIRegexp or regexp.Compile fails.
Compile(q) == IF q.pattern \in ValidPatterns THEN q ELSE Nil

\* Mutant: the mode is not part of the cache key.
KeyWithoutMode(q) == [pattern |-> q.pattern, anchored |-> FALSE]

\* regexpCacheKey{pattern, anchored}
CacheKey(q) == [pattern |-> q.pattern, anchored |-> q.anchored]

EmptyCache == [k \in Keys |-> Nil]

Init ==
    /\ reCache = EmptyCache
    /\ reCacheSize = 0
    /\ pc = [g \in Goroutines |-> "idle"]
    /\ req \in [Goroutines -> Keys]
    /\ ret = [g \in Goroutines |-> Nil]

Goto(g, loc) == pc' = [pc EXCEPT ![g] = loc]

Return(g, r) == ret' = [ret EXCEPT ![g] = r] /\ Goto(g, "idle")

\* callRegexp: match() or search() reaches the compiler with a pattern.
Call(g) ==
    /\ pc[g] = "idle"
    /\ \E q \in Keys : req' = [req EXCEPT ![g] = q]
    /\ Goto(g, "load")
    /\ ret' = [ret EXCEPT ![g] = Nil]
    /\ UNCHANGED <<reCache, reCacheSize>>

\* reCache.Load(cacheKey)
Load(g) ==
    /\ pc[g] = "load"
    /\ LET v == reCache[CacheKey(req[g])]
       IN  IF v # Nil THEN Return(g, v) ELSE Goto(g, "compile") /\ UNCHANGED ret
    /\ UNCHANGED <<reCache, reCacheSize, req>>

\* Mutant: an invalid pattern is compiled again and again.
CompileMissRetries(g) ==
    /\ pc[g] = "compile"
    /\ Goto(g, IF Compile(req[g]) = Nil THEN "load" ELSE "check")
    /\ UNCHANGED <<reCache, reCacheSize, req, ret>>

\* compileIRegexpUncached; an invalid pattern is never cached.  The local re is
\* Compile(req[g]) from here on.
CompileMiss(g) ==
    /\ pc[g] = "compile"
    /\ IF Compile(req[g]) = Nil
       THEN Return(g, Nil)
       ELSE Goto(g, "check") /\ UNCHANGED ret
    /\ UNCHANGED <<reCache, reCacheSize, req>>

\* Mutant: the cache is cleared one entry too late.
CheckSizeOffByOne(g) ==
    /\ pc[g] = "check"
    /\ Goto(g, IF reCacheSize > reCacheMaxSize THEN "clear" ELSE "store")
    /\ UNCHANGED <<reCache, reCacheSize, req, ret>>

\* reCacheSize.Load() >= reCacheMaxSize
CheckSize(g) ==
    /\ pc[g] = "check"
    /\ Goto(g, IF reCacheSize >= reCacheMaxSize THEN "clear" ELSE "store")
    /\ UNCHANGED <<reCache, reCacheSize, req, ret>>

\* reCache.Clear()
Clear(g) ==
    /\ pc[g] = "clear"
    /\ reCache' = EmptyCache
    /\ Goto(g, "reset")
    /\ UNCHANGED <<reCacheSize, req, ret>>

\* Mutant: the entries that were cleared are subtracted, and two goroutines
\* may subtract the same ones.
ResetSizeSubtracts(g) ==
    /\ pc[g] = "reset"
    /\ reCacheSize' = reCacheSize - reCacheMaxSize
    /\ Goto(g, "store")
    /\ UNCHANGED <<reCache, req, ret>>

\* reCacheSize.Store(0)
ResetSize(g) ==
    /\ pc[g] = "reset"
    /\ reCacheSize' = 0
    /\ Goto(g, "store")
    /\ UNCHANGED <<reCache, req, ret>>

\* Mutant: losing the race to store is answered by starting over, and the
\* entry may be gone again when the goroutine looks.
StoreRetries(g) ==
    /\ pc[g] = "store"
    /\ LET key == CacheKey(req[g])
       IN  IF reCache[key] # Nil
           THEN Goto(g, "compile") /\ UNCHANGED reCache
           ELSE reCache' = [reCache EXCEPT ![key] = Compile(req[g])] /\ Goto(g, "add")
    /\ UNCHANGED <<reCacheSize, req, ret>>

\* reCache.LoadOrStore(cacheKey, re): another goroutine's entry wins.
LoadOrStore(g) ==
    /\ pc[g] = "store"
    /\ LET key == CacheKey(req[g])
       IN  IF reCache[key] # Nil
           THEN Return(g, reCache[key]) /\ UNCHANGED reCache
           ELSE /\ reCache' = [reCache EXCEPT ![key] = Compile(req[g])]
                /\ Goto(g, "add")
                /\ UNCHANGED ret
    /\ UNCHANGED <<reCacheSize, req>>

\* reCacheSize.Add(1)
AddSize(g) ==
    /\ pc[g] = "add"
    /\ reCacheSize' = reCacheSize + 1
    /\ Return(g, Compile(req[g]))
    /\ UNCHANGED <<reCache, req>>

Step(g) ==
    \/ Load(g) \/ CompileMiss(g) \/ CheckSize(g) \/ Clear(g)
    \/ ResetSize(g) \/ LoadOrStore(g) \/ AddSize(g)

Next == \E g \in Goroutines : Call(g) \/ Step(g)

\* The Go scheduler runs every runnable goroutine; nobody has to call.
Fairness == \A g \in Goroutines : WF_vars(Step(g))

Spec == Init /\ [][Next]_vars /\ Fairness

-----------------------------------------------------------------------------
N == Cardinality(Goroutines)

Cached == {k \in Keys : reCache[k] # Nil}

At(loc) == {g \in Goroutines : pc[g] = loc}

\* Every variable has its type.
TypeOK ==
    /\ reCache \in [Keys -> Regexps]
    /\ reCacheSize \in Nat
    /\ pc \in [Goroutines -> Locations]
    /\ req \in [Goroutines -> Keys]
    /\ ret \in [Goroutines -> Regexps]

\* An entry is the regexp of its own key: a match() pattern never answers a
\* search() with the same pattern string, whoever stored it and however the
\* clears interleave.
CacheSound == \A k \in Cached : reCache[k] = Compile(k)

\* Of the bound reCacheMaxSize that the comment on reCache states, concurrent
\* goroutines leave this: at most N caches' worth of entries plus N (N - 1) / 2,
\* because a goroutine that has cleared the map may reset the counter long after
\* others refilled it, and may do so only once per clear.  The map stays bounded
\* whatever patterns the documents supply.
CacheBounded == 2 * Cardinality(Cached) <= N * (2 * reCacheMaxSize + N - 1)

\* compileIRegexpMode is indistinguishable from compiling every time, and every
\* call returns.
Transparent == Oracle!OSpec
=============================================================================
