-------------------------- MODULE RegexpCacheProofs --------------------------
(***************************************************************************)
(* For every number of goroutines, every set of patterns (an infinite one  *)
(* too) and every reCacheMaxSize: the cache only ever holds the regexp of  *)
(* its key, calls are answered as if there were no cache, and the number   *)
(* of entries is bounded although clearing and counting are not atomic.    *)
(***************************************************************************)
EXTENDS RegexpCache, FiniteSetTheorems, TLAPS

-----------------------------------------------------------------------------
(* Types and soundness.                                                    *)

\* A goroutine past the compile step has a valid pattern.
PastCompile ==
    \A g \in Goroutines :
        pc[g] \in {"check", "clear", "reset", "store", "add"} => Compile(req[g]) # Nil

SoundInv == TypeOK /\ CacheSound /\ PastCompile

LEMMA KeyFacts ==
    ASSUME NEW q \in Keys
    PROVE  /\ CacheKey(q) = q
           /\ Compile(q) \in Regexps
           /\ Compile(q) # Nil => Compile(q) = q
<1>1. CacheKey(q) = q  BY DEF CacheKey, Keys
<1>2. q # Nil  BY CacheAssumption DEF Keys
<1> QED  BY <1>1, <1>2 DEF Compile, Regexps

LEMMA SoundInit == Init => SoundInv
BY DEF Init, SoundInv, TypeOK, CacheSound, Cached, PastCompile, EmptyCache, Regexps, Locations

LEMMA SoundNext == SoundInv /\ [Next]_vars => SoundInv'
<1> SUFFICES ASSUME SoundInv, [Next]_vars PROVE SoundInv'  OBVIOUS
<1> USE DEF SoundInv, TypeOK
<1>1. ASSUME NEW g \in Goroutines, Call(g) PROVE SoundInv'
  BY <1>1 DEF Call, Goto, CacheSound, Cached, PastCompile, Regexps, Locations
<1>2. ASSUME NEW g \in Goroutines, Load(g) PROVE SoundInv'
  <2>1. CacheKey(req[g]) \in Keys  BY KeyFacts
  <2> QED  BY <1>2, <2>1 DEF Load, Return, Goto, CacheSound, Cached, PastCompile, Locations
<1>3. ASSUME NEW g \in Goroutines, CompileMiss(g) PROVE SoundInv'
  BY <1>3 DEF CompileMiss, Return, Goto, CacheSound, Cached, PastCompile, Locations, Regexps
<1>4. ASSUME NEW g \in Goroutines, CheckSize(g) PROVE SoundInv'
  BY <1>4 DEF CheckSize, Goto, CacheSound, Cached, PastCompile, Locations
<1>5. ASSUME NEW g \in Goroutines, Clear(g) PROVE SoundInv'
  BY <1>5 DEF Clear, Goto, CacheSound, Cached, PastCompile, Locations, EmptyCache, Regexps
<1>6. ASSUME NEW g \in Goroutines, ResetSize(g) PROVE SoundInv'
  BY <1>6 DEF ResetSize, Goto, CacheSound, Cached, PastCompile, Locations
<1>7. ASSUME NEW g \in Goroutines, LoadOrStore(g) PROVE SoundInv'
  <2> DEFINE q == req[g]
  <2>1. q \in Keys /\ CacheKey(q) = q /\ Compile(q) \in Regexps  BY KeyFacts
  <2>2. CASE reCache[q] # Nil
    BY <1>7, <2>1, <2>2 DEF LoadOrStore, Return, Goto, CacheSound, Cached, PastCompile, Locations
  <2>3. CASE reCache[q] = Nil
    <3>1. /\ reCache' = [reCache EXCEPT ![q] = Compile(q)] /\ pc' = [pc EXCEPT ![g] = "add"]
          /\ ret' = ret /\ req' = req /\ reCacheSize' = reCacheSize /\ pc[g] = "store"
      BY <1>7, <2>1, <2>3 DEF LoadOrStore, Goto
    <3>2. TypeOK'  BY <2>1, <3>1 DEF Locations
    <3>3. CacheSound'  BY <2>1, <3>1 DEF CacheSound, Cached
    <3>4. PastCompile'  BY <3>1 DEF PastCompile
    <3> QED  BY <3>2, <3>3, <3>4
  <2> QED  BY <2>2, <2>3
<1>8. ASSUME NEW g \in Goroutines, AddSize(g) PROVE SoundInv'
  <2>1. Compile(req[g]) \in Regexps  BY KeyFacts
  <2> QED  BY <1>8, <2>1 DEF AddSize, Return, Goto, CacheSound, Cached, PastCompile, Locations
<1>9. CASE UNCHANGED vars
  BY <1>9 DEF vars, CacheSound, Cached, PastCompile
<1> QED  BY <1>1, <1>2, <1>3, <1>4, <1>5, <1>6, <1>7, <1>8, <1>9 DEF Next, Step

\* The invariant of the cache's contents holds in every reachable state.
THEOREM SoundHolds == Spec => []SoundInv
BY SoundInit, SoundNext, PTL DEF Spec

\* Every variable keeps its type.
THEOREM TypeCorrect == Spec => []TypeOK
<1>1. SoundInv => TypeOK  BY DEF SoundInv
<1> QED  BY <1>1, SoundHolds, PTL

\* No interleaving of Load, Clear and LoadOrStore puts a regexp under a key it
\* was not compiled for.
THEOREM CacheIsSound == Spec => []CacheSound
<1>1. SoundInv => CacheSound  BY DEF SoundInv
<1> QED  BY <1>1, SoundHolds, PTL

-----------------------------------------------------------------------------
(* Refinement: the safety part of Transparent.                             *)

\* Every step of compileIRegexpMode is a step of the cacheless specification
\* or changes nothing a caller sees.
LEMMA StepRefines == SoundInv /\ [Next]_vars => [Oracle!ONext]_(Oracle!ovars)
<1> SUFFICES ASSUME SoundInv, [Next]_vars PROVE [Oracle!ONext]_(Oracle!ovars)  OBVIOUS
<1> DEFINE ph == [g \in Goroutines |-> IF pc[g] = "idle" THEN "idle" ELSE "busy"]
<1>t. TypeOK /\ CacheSound /\ PastCompile  BY DEF SoundInv
\* A step that stays inside the call.
<1>s. ASSUME NEW g \in Goroutines, NEW loc \in Locations \ {"idle"}, pc[g] # "idle",
             pc' = [pc EXCEPT ![g] = loc], req' = req, ret' = ret
      PROVE  [Oracle!ONext]_(Oracle!ovars)
  <2>1. ph' = ph  BY <1>s, <1>t DEF TypeOK, Locations
  <2> QED  BY <1>s, <2>1 DEF Oracle!ovars
\* A step that returns the right answer.
<1>r. ASSUME NEW g \in Goroutines, pc[g] # "idle", Return(g, Compile(req[g])), req' = req
      PROVE  [Oracle!ONext]_(Oracle!ovars)
  <2>1. ph' = [ph EXCEPT ![g] = "idle"]  BY <1>r, <1>t DEF Return, Goto, TypeOK
  <2>2. ph[g] = "busy"  BY <1>r
  <2>3. Oracle!CompileUncached(req[g]) = Compile(req[g])  BY DEF Oracle!CompileUncached, Compile
  <2>4. Oracle!Answer(g)  BY <1>r, <2>1, <2>2, <2>3 DEF Oracle!Answer, Return
  <2> QED  BY <2>4 DEF Oracle!ONext
<1>k. \A g \in Goroutines : /\ req[g] \in Keys /\ CacheKey(req[g]) = req[g]
                            /\ reCache[req[g]] # Nil => reCache[req[g]] = Compile(req[g])
  BY <1>t, KeyFacts DEF TypeOK, CacheSound, Cached
<1>1. ASSUME NEW g \in Goroutines, Call(g) PROVE [Oracle!ONext]_(Oracle!ovars)
  <2>1. ph' = [ph EXCEPT ![g] = "busy"]  BY <1>1, <1>t DEF Call, Goto, TypeOK
  <2>2. ph[g] = "idle"  BY <1>1 DEF Call
  <2>3. Oracle!Ask(g)
    BY <1>1, <2>1, <2>2 DEF Call, Oracle!Ask, Oracle!Requests, Keys
  <2> QED  BY <2>3 DEF Oracle!ONext
<1>2. ASSUME NEW g \in Goroutines, Load(g) PROVE [Oracle!ONext]_(Oracle!ovars)
  <2>1. CASE reCache[req[g]] # Nil
    BY <1>2, <1>k, <1>r, <2>1 DEF Load
  <2>2. CASE reCache[req[g]] = Nil
    BY <1>2, <1>k, <1>s, <2>2 DEF Load, Goto, Locations
  <2> QED  BY <2>1, <2>2
<1>3. ASSUME NEW g \in Goroutines, CompileMiss(g) PROVE [Oracle!ONext]_(Oracle!ovars)
  <2>1. CASE Compile(req[g]) = Nil
    BY <1>3, <1>r, <2>1 DEF CompileMiss
  <2>2. CASE Compile(req[g]) # Nil
    BY <1>3, <1>s, <2>2 DEF CompileMiss, Goto, Locations
  <2> QED  BY <2>1, <2>2
<1>4. ASSUME NEW g \in Goroutines, CheckSize(g) PROVE [Oracle!ONext]_(Oracle!ovars)
  BY <1>4, <1>s DEF CheckSize, Goto, Locations
<1>5. ASSUME NEW g \in Goroutines, Clear(g) PROVE [Oracle!ONext]_(Oracle!ovars)
  BY <1>5, <1>s DEF Clear, Goto, Locations
<1>6. ASSUME NEW g \in Goroutines, ResetSize(g) PROVE [Oracle!ONext]_(Oracle!ovars)
  BY <1>6, <1>s DEF ResetSize, Goto, Locations
<1>7. ASSUME NEW g \in Goroutines, LoadOrStore(g) PROVE [Oracle!ONext]_(Oracle!ovars)
  <2>1. CASE reCache[req[g]] # Nil
    BY <1>7, <1>k, <1>r, <2>1 DEF LoadOrStore
  <2>2. CASE reCache[req[g]] = Nil
    BY <1>7, <1>k, <1>s, <2>2 DEF LoadOrStore, Goto, Locations
  <2> QED  BY <2>1, <2>2
<1>8. ASSUME NEW g \in Goroutines, AddSize(g) PROVE [Oracle!ONext]_(Oracle!ovars)
  BY <1>8, <1>r DEF AddSize
<1>9. CASE UNCHANGED vars
  BY <1>9 DEF vars, Oracle!ovars
<1> QED  BY <1>1, <1>2, <1>3, <1>4, <1>5, <1>6, <1>7, <1>8, <1>9 DEF Next, Step

\* compileIRegexpMode implements compiling every time: what a call returns never
\* depends on what other goroutines did to the cache.  (That every call returns
\* is left to the model checker.)
THEOREM CacheIsTransparent == Spec => Oracle!OInit /\ [][Oracle!ONext]_(Oracle!ovars)
<1>1. Init => Oracle!OInit
  BY DEF Init, Oracle!OInit, Oracle!Requests, Keys
<1> QED  BY <1>1, StepRefines, SoundHolds, PTL DEF Spec

-----------------------------------------------------------------------------
(* The bound on the number of entries.                                     *)

\* Twice the largest number of entries that m goroutines with no pending
\* Store(0) can build up: B(m) = m * reCacheMaxSize + m (m - 1) / 2.
TwoB(m) == m * (2 * reCacheMaxSize + m - 1)

nReset == Cardinality(At("reset"))
nStore == Cardinality(At("store"))
nAdd   == Cardinality(At("add"))
nCache == Cardinality(Cached)

\* Filled: entries and announced entries fit what the goroutines without a
\* pending reset can build up.  Hidden: of these, all but what one goroutine
\* fewer can build up are counted by reCacheSize or about to be.
BoundInv ==
    /\ IsFiniteSet(Cached)
    /\ 2 * (nCache + nStore) <= TwoB(N - nReset)
    /\ nReset < N => 2 * nCache <= TwoB(N - nReset - 1) + 2 * (reCacheSize + nAdd)

LEMMA TwoBStep ==
    ASSUME NEW m \in Nat
    PROVE  /\ TwoB(m) \in Nat
           /\ TwoB(m + 1) = TwoB(m) + 2 * reCacheMaxSize + 2 * m
           /\ 2 * m <= TwoB(m)
           /\ TwoB(0) = 0
<1> DEFINE M == reCacheMaxSize
<1>1. M \in Nat /\ M >= 1  BY CacheAssumption
<1> HIDE DEF M
<1>2. (m + 1) * (2 * M + (m + 1) - 1) = m * (2 * M + m - 1) + 2 * M + 2 * m  BY <1>1
<1>3. m * (2 * M + m - 1) \in Nat /\ 2 * m <= m * (2 * M + m - 1)
  <2>1. CASE m = 0  BY <1>1, <2>1
  <2>2. CASE m >= 1
    <3>1. 2 * M + m - 1 \in Nat /\ 2 <= 2 * M + m - 1  BY <1>1, <2>2
    <3>2. \A a, b, c \in Nat : a <= b => c * a <= c * b /\ c * b \in Nat  OBVIOUS
    <3>3. m * 2 <= m * (2 * M + m - 1) /\ m * (2 * M + m - 1) \in Nat  BY <3>1, <3>2
    <3> QED  BY <3>3
  <2> QED  BY <2>1, <2>2
<1>4. 0 * (2 * M + 0 - 1) = 0  BY <1>1
<1> QED  BY <1>2, <1>3, <1>4 DEF TwoB, M

\* Growing by one goroutine never shrinks the bound.
LEMMA TwoBMonotone ==
    ASSUME NEW m \in Nat, NEW n \in Nat, m <= n
    PROVE  TwoB(m) <= TwoB(n)
<1> DEFINE M == reCacheMaxSize
<1>1. M \in Nat /\ M >= 1  BY CacheAssumption
<1> HIDE DEF M
<1>2. CASE m = 0
  <2>1. TwoB(m) = 0 /\ TwoB(n) \in Nat  BY <1>2, TwoBStep
  <2> QED  BY <2>1
<1>3. CASE m >= 1
  <2>1. /\ 2 * M + m - 1 \in Nat /\ 2 * M + n - 1 \in Nat
        /\ 2 * M + m - 1 <= 2 * M + n - 1
    BY <1>1, <1>3
  <2>2. \A a, b, c \in Nat : a <= b => c * a <= c * b /\ c * a \in Nat /\ c * b \in Nat  OBVIOUS
  <2>3. \A a, b, c \in Nat : a <= b => a * c <= b * c /\ a * c \in Nat /\ b * c \in Nat  OBVIOUS
  <2>4. m * (2 * M + m - 1) <= m * (2 * M + n - 1)  BY <2>1, <2>2
  <2>5. m * (2 * M + n - 1) <= n * (2 * M + n - 1)  BY <2>1, <2>3
  <2>6. /\ m * (2 * M + m - 1) \in Nat /\ m * (2 * M + n - 1) \in Nat
        /\ n * (2 * M + n - 1) \in Nat
    BY <2>1, <2>2
  <2> QED  BY <2>4, <2>5, <2>6 DEF TwoB, M
<1> QED  BY <1>2, <1>3

\* How one goroutine's move changes the three counts.
LEMMA CountAt ==
    ASSUME TypeOK, NEW g \in Goroutines, NEW loc, NEW d, pc' = [pc EXCEPT ![g] = d]
    PROVE  /\ Cardinality(At(loc)) \in Nat
           /\ Cardinality(At(loc))' =
                Cardinality(At(loc)) - (IF pc[g] = loc THEN 1 ELSE 0) + (IF d = loc THEN 1 ELSE 0)
<1>1. IsFiniteSet(At(loc)) /\ Cardinality(At(loc)) \in Nat
  BY CacheAssumption, FS_Subset, FS_CardinalityType DEF At
<1>2. CASE d = loc
  <2>1. At(loc)' = At(loc) \cup {g}  BY <1>2 DEF At, TypeOK
  <2>2. g \in At(loc) <=> pc[g] = loc  BY DEF At
  <2>3. Cardinality(At(loc) \cup {g}) =
          IF g \in At(loc) THEN Cardinality(At(loc)) ELSE Cardinality(At(loc)) + 1
    BY <1>1, FS_AddElement
  <2>4. Cardinality(At(loc))' = Cardinality(At(loc) \cup {g})  BY <2>1
  <2> QED  BY <1>1, <1>2, <2>2, <2>3, <2>4
<1>3. CASE d # loc
  <2>1. At(loc)' = At(loc) \ {g}  BY <1>3 DEF At, TypeOK
  <2>2. g \in At(loc) <=> pc[g] = loc  BY DEF At
  <2>3. Cardinality(At(loc) \ {g}) =
          IF g \in At(loc) THEN Cardinality(At(loc)) - 1 ELSE Cardinality(At(loc))
    BY <1>1, FS_RemoveElement
  <2>4. Cardinality(At(loc))' = Cardinality(At(loc) \ {g})  BY <2>1
  <2> QED  BY <1>1, <1>3, <2>2, <2>3, <2>4
<1> QED  BY <1>2, <1>3

\* Goroutines at different locations are different goroutines.
LEMMA CountSum ==
    /\ N \in Nat /\ nReset \in Nat /\ nStore \in Nat /\ nAdd \in Nat
    /\ nReset + nStore + nAdd <= N
    /\ \A g \in Goroutines : pc[g] \notin {"reset", "store", "add"} => nReset + nStore + nAdd < N
<1> DEFINE R == At("reset")  S == At("store")  A == At("add")
<1>1. /\ R \subseteq Goroutines /\ S \subseteq Goroutines /\ A \subseteq Goroutines
      /\ R \cap S = {} /\ (R \cup S) \cap A = {}
  BY DEF At
<1>2. /\ IsFiniteSet(Goroutines) /\ IsFiniteSet(R) /\ IsFiniteSet(S) /\ IsFiniteSet(A)
      /\ N \in Nat /\ nReset \in Nat /\ nStore \in Nat /\ nAdd \in Nat
  BY <1>1, CacheAssumption, FS_Subset, FS_CardinalityType DEF N, nReset, nStore, nAdd
<1>3. IsFiniteSet(R \cup S) /\ Cardinality(R \cup S) = nReset + nStore
  <2>1. /\ IsFiniteSet(R \cup S)
        /\ Cardinality(R \cup S) = Cardinality(R) + Cardinality(S) - Cardinality(R \cap S)
    BY <1>2, FS_Union
  <2>2. Cardinality(R \cap S) = 0  BY <1>1, FS_EmptySet
  <2> HIDE DEF R, S
  <2>3. Cardinality(R) = nReset /\ Cardinality(S) = nStore  BY DEF R, S, nReset, nStore
  <2> QED  BY <1>2, <2>1, <2>2, <2>3
<1>4. IsFiniteSet((R \cup S) \cup A) /\ Cardinality((R \cup S) \cup A) = nReset + nStore + nAdd
  <2> DEFINE T == R \cup S
  <2>1. /\ IsFiniteSet(T \cup A)
        /\ Cardinality(T \cup A) = Cardinality(T) + Cardinality(A) - Cardinality(T \cap A)
    <3> HIDE DEF T
    <3> QED  BY <1>2, <1>3, FS_Union DEF T
  <2>2. Cardinality(T \cap A) = 0  BY <1>1, FS_EmptySet
  <2> HIDE DEF R, S, A
  <2>3. Cardinality(A) = nAdd  BY DEF A, nAdd
  <2> QED  BY <1>2, <1>3, <2>1, <2>2, <2>3
<1>5. (R \cup S) \cup A \subseteq Goroutines  BY <1>1
<1>6. nReset + nStore + nAdd <= N  BY <1>2, <1>4, <1>5, FS_Subset DEF N
<1>7. ASSUME NEW g \in Goroutines, pc[g] \notin {"reset", "store", "add"}
      PROVE  nReset + nStore + nAdd < N
  <2>1. g \notin (R \cup S) \cup A  BY <1>7 DEF At
  <2>2. (R \cup S) \cup A # Goroutines  BY <2>1
  <2>3. Cardinality((R \cup S) \cup A) # N  BY <1>2, <1>5, <2>2, FS_Subset DEF N
  <2> QED  BY <1>2, <1>4, <1>6, <2>3
<1> QED  BY <1>2, <1>6, <1>7

LEMMA BoundInit == Init => BoundInv
<1> SUFFICES ASSUME Init PROVE BoundInv  OBVIOUS
<1>1. Cached = {} /\ At("store") = {} /\ At("reset") = {}
  BY DEF Init, EmptyCache, Cached, At
<1>2. IsFiniteSet(Cached) /\ nCache = 0 /\ nStore = 0 /\ nReset = 0
  BY <1>1, FS_EmptySet DEF nCache, nStore, nReset
<1>3. N \in Nat /\ nAdd \in Nat /\ reCacheSize = 0  BY CountSum DEF Init
<1>4. TwoB(N) \in Nat  BY <1>3, TwoBStep
<1>5. 0 < N => TwoB(N - 1) \in Nat  BY <1>3, TwoBStep
<1>6. N - 0 = N /\ N - 0 - 1 = N - 1  BY <1>3
<1> QED  BY <1>2, <1>3, <1>4, <1>5, <1>6 DEF BoundInv

Moves(g, c, d) == pc[g] = c /\ pc' = [pc EXCEPT ![g] = d]

\* The counts after goroutine g moves from location c to location d.
LEMMA Counts ==
    ASSUME TypeOK, NEW g \in Goroutines, NEW c, NEW d, Moves(g, c, d)
    PROVE  /\ (c = "reset") = (d = "reset") => nReset' = nReset
           /\ c # "reset" /\ d = "reset" => nReset' = nReset + 1
           /\ c = "reset" /\ d # "reset" => nReset' = nReset - 1
           /\ (c = "store") = (d = "store") => nStore' = nStore
           /\ c # "store" /\ d = "store" => nStore' = nStore + 1
           /\ c = "store" /\ d # "store" => nStore' = nStore - 1
           /\ (c = "add") = (d = "add") => nAdd' = nAdd
           /\ c # "add" /\ d = "add" => nAdd' = nAdd + 1
           /\ c = "add" /\ d # "add" => nAdd' = nAdd - 1
<1>1. ASSUME NEW loc
      PROVE  /\ (c = loc) = (d = loc) => Cardinality(At(loc))' = Cardinality(At(loc))
             /\ c # loc /\ d = loc => Cardinality(At(loc))' = Cardinality(At(loc)) + 1
             /\ c = loc /\ d # loc => Cardinality(At(loc))' = Cardinality(At(loc)) - 1
  <2>1. /\ Cardinality(At(loc)) \in Nat
        /\ Cardinality(At(loc))' =
             Cardinality(At(loc)) - (IF pc[g] = loc THEN 1 ELSE 0) + (IF d = loc THEN 1 ELSE 0)
    BY CountAt DEF Moves
  <2>2. pc[g] = c  BY DEF Moves
  <2>3. CASE c = loc /\ d = loc  BY <2>1, <2>2, <2>3
  <2>4. CASE c = loc /\ d # loc  BY <2>1, <2>2, <2>4
  <2>5. CASE c # loc /\ d = loc  BY <2>1, <2>2, <2>5
  <2>6. CASE c # loc /\ d # loc  BY <2>1, <2>2, <2>6
  <2> QED  BY <2>3, <2>4, <2>5, <2>6
<1> QED  BY <1>1 DEF nReset, nStore, nAdd

LEMMA BoundNext == SoundInv /\ BoundInv /\ [Next]_vars => BoundInv'
<1> SUFFICES ASSUME SoundInv, BoundInv, [Next]_vars PROVE BoundInv'  OBVIOUS
<1>t. TypeOK  BY DEF SoundInv
<1>m. reCacheMaxSize \in Nat /\ reCacheMaxSize >= 1 /\ reCacheSize \in Nat
  BY <1>t, CacheAssumption DEF TypeOK
<1>n. /\ N \in Nat /\ nReset \in Nat /\ nStore \in Nat /\ nAdd \in Nat
      /\ nReset + nStore + nAdd <= N
  BY CountSum
<1>c. IsFiniteSet(Cached) /\ nCache \in Nat
  BY FS_CardinalityType DEF BoundInv, nCache
<1>i. /\ 2 * (nCache + nStore) <= TwoB(N - nReset)
      /\ nReset < N => 2 * nCache <= TwoB(N - nReset - 1) + 2 * (reCacheSize + nAdd)
  BY DEF BoundInv
<1>b. /\ TwoB(N - nReset) \in Nat
      /\ TwoB(N - nReset + 1) = TwoB(N - nReset) + 2 * reCacheMaxSize + 2 * (N - nReset)
      /\ 2 * (N - nReset) <= TwoB(N - nReset)
  <2>1. N - nReset \in Nat  BY <1>n
  <2> QED  BY <2>1, TwoBStep
<1>b1. nReset < N =>
         /\ TwoB(N - nReset - 1) \in Nat
         /\ TwoB(N - nReset) = TwoB(N - nReset - 1) + 2 * reCacheMaxSize + 2 * (N - nReset - 1)
         /\ 2 * (N - nReset - 1) <= TwoB(N - nReset - 1)
  <2> SUFFICES ASSUME nReset < N
               PROVE  /\ TwoB(N - nReset - 1) \in Nat
                      /\ TwoB(N - nReset) = TwoB(N - nReset - 1) + 2 * reCacheMaxSize + 2 * (N - nReset - 1)
                      /\ 2 * (N - nReset - 1) <= TwoB(N - nReset - 1)
    OBVIOUS
  <2>1. N - nReset - 1 \in Nat /\ (N - nReset - 1) + 1 = N - nReset  BY <1>n
  <2>2. TwoB((N - nReset - 1) + 1) = TwoB(N - nReset - 1) + 2 * reCacheMaxSize + 2 * (N - nReset - 1)
    BY <2>1, TwoBStep
  <2>3. TwoB(N - nReset - 1) \in Nat /\ 2 * (N - nReset - 1) <= TwoB(N - nReset - 1)  BY <2>1, TwoBStep
  <2> QED  BY <2>1, <2>2, <2>3
\* A move that touches neither the map, nor the counter, nor the three counts
\* upwards.
<1>q. ASSUME NEW g \in Goroutines, NEW d \in {"idle", "load", "compile", "check", "clear"},
             pc[g] \notin {"reset", "add"}, pc' = [pc EXCEPT ![g] = d],
             reCache' = reCache, reCacheSize' = reCacheSize
      PROVE  BoundInv'
  <2>1. nReset' = nReset /\ nAdd' = nAdd /\ (nStore' = nStore \/ nStore' = nStore - 1)
    <3>1. Moves(g, pc[g], d)  BY <1>q DEF Moves
    <3> QED  BY <1>q, <1>t, <3>1, Counts
  <2>2. Cached' = Cached /\ nCache' = nCache /\ N' = N  BY <1>q DEF Cached, nCache, N
  <2> QED  BY <1>q, <1>m, <1>n, <1>c, <1>i, <1>b, <2>1, <2>2 DEF BoundInv, TwoB
<1>1. ASSUME NEW g \in Goroutines, Call(g) PROVE BoundInv'
  BY <1>1, <1>q DEF Call, Goto
<1>2. ASSUME NEW g \in Goroutines, Load(g) PROVE BoundInv'
  BY <1>2, <1>q DEF Load, Return, Goto
<1>3. ASSUME NEW g \in Goroutines, CompileMiss(g) PROVE BoundInv'
  BY <1>3, <1>q DEF CompileMiss, Return, Goto
<1>4. ASSUME NEW g \in Goroutines, CheckSize(g) PROVE BoundInv'
  <2>1. CASE reCacheSize >= reCacheMaxSize
    BY <1>4, <1>q, <2>1 DEF CheckSize, Goto
  <2>2. CASE ~(reCacheSize >= reCacheMaxSize)
    <3>1. /\ pc[g] = "check" /\ pc' = [pc EXCEPT ![g] = "store"]
          /\ reCache' = reCache /\ reCacheSize' = reCacheSize
      BY <1>4, <2>2 DEF CheckSize, Goto
    <3>2. nReset' = nReset /\ nAdd' = nAdd /\ nStore' = nStore + 1
      <4>1. Moves(g, "check", "store")  BY <3>1 DEF Moves
      <4> QED  BY <1>t, <4>1, Counts
    <3>3. Cached' = Cached /\ nCache' = nCache /\ N' = N  BY <3>1 DEF Cached, nCache, N
    <3>4. nReset + nStore + nAdd < N  BY <3>1, CountSum
    <3>5. reCacheSize < reCacheMaxSize  BY <1>m, <2>2
    <3>6. 2 * (nCache + nStore + 1) <= TwoB(N - nReset)
      BY <1>m, <1>n, <1>c, <1>i, <1>b, <1>b1, <3>4, <3>5
    <3> QED  BY <1>n, <1>c, <1>i, <3>1, <3>2, <3>3, <3>6 DEF BoundInv, TwoB
  <2> QED  BY <2>1, <2>2
<1>5. ASSUME NEW g \in Goroutines, Clear(g) PROVE BoundInv'
  <2>1. /\ pc[g] = "clear" /\ pc' = [pc EXCEPT ![g] = "reset"]
        /\ reCache' = EmptyCache /\ reCacheSize' = reCacheSize
    BY <1>5 DEF Clear, Goto
  <2>2. nReset' = nReset + 1 /\ nAdd' = nAdd /\ nStore' = nStore
    <3>1. Moves(g, "clear", "reset")  BY <2>1 DEF Moves
    <3> QED  BY <1>t, <3>1, Counts
  <2>3. Cached' = {} /\ N' = N  BY <2>1 DEF Cached, EmptyCache, N
  <2>4. IsFiniteSet(Cached') /\ nCache' = 0  BY <2>3, FS_EmptySet DEF nCache
  <2>5. nReset + nStore + nAdd < N  BY <2>1, CountSum
  <2>6. N - nReset' = N - nReset - 1 /\ N - nReset - 1 \in Nat  BY <1>n, <2>2, <2>5
  <2>7. 2 * (0 + nStore) <= TwoB(N - nReset - 1)
    BY <1>n, <1>b1, <2>5
  <2>8. nReset' < N => TwoB(N - nReset' - 1) \in Nat
    <3> SUFFICES ASSUME nReset' < N PROVE TwoB(N - nReset' - 1) \in Nat  OBVIOUS
    <3>1. N - nReset' - 1 \in Nat  BY <1>n, <2>2
    <3> QED  BY <3>1, TwoBStep
  <2>9. 2 * (nCache' + nStore') <= TwoB(N - nReset')  BY <2>2, <2>4, <2>6, <2>7
  <2>10. nReset' < N => 2 * nCache' <= TwoB(N - nReset' - 1) + 2 * (reCacheSize' + nAdd')
    BY <1>m, <1>n, <2>1, <2>2, <2>4, <2>8
  <2> QED  BY <2>3, <2>4, <2>9, <2>10 DEF BoundInv, TwoB
<1>6. ASSUME NEW g \in Goroutines, ResetSize(g) PROVE BoundInv'
  <2>1. /\ pc[g] = "reset" /\ pc' = [pc EXCEPT ![g] = "store"]
        /\ reCache' = reCache /\ reCacheSize' = 0
    BY <1>6 DEF ResetSize, Goto
  <2>2. nReset' = nReset - 1 /\ nAdd' = nAdd /\ nStore' = nStore + 1
    <3>1. Moves(g, "reset", "store")  BY <2>1 DEF Moves
    <3> QED  BY <1>t, <3>1, Counts
  <2>3. Cached' = Cached /\ nCache' = nCache /\ N' = N  BY <2>1 DEF Cached, nCache, N
  <2>4. N - nReset' = N - nReset + 1 /\ N - nReset' - 1 = N - nReset  BY <1>n, <2>2
  <2>5. 2 * (nCache' + nStore') <= TwoB(N - nReset')
    <3>1. 2 * (nCache + nStore + 1) <= TwoB(N - nReset + 1)
      BY <1>m, <1>n, <1>c, <1>i, <1>b
    <3>2. nCache' + nStore' = nCache + nStore + 1  BY <1>n, <1>c, <2>2, <2>3
    <3> QED  BY <2>4, <3>1, <3>2
  <2>6. 2 * nCache' <= TwoB(N - nReset' - 1) + 2 * (reCacheSize' + nAdd')
    <3>1. 2 * nCache <= TwoB(N - nReset) + 2 * (0 + nAdd)
      BY <1>n, <1>c, <1>i, <1>b
    <3> QED  BY <2>1, <2>2, <2>3, <2>4, <3>1
  <2> QED  BY <1>c, <2>3, <2>5, <2>6 DEF BoundInv, TwoB
<1>7. ASSUME NEW g \in Goroutines, LoadOrStore(g) PROVE BoundInv'
  <2> DEFINE q == req[g]
  <2>k. q \in Keys /\ CacheKey(q) = q /\ pc[g] = "store"  BY <1>7, <1>t, KeyFacts DEF TypeOK, LoadOrStore
  <2>1. CASE reCache[q] # Nil
    BY <1>7, <1>q, <2>1, <2>k DEF LoadOrStore, Return, Goto
  <2>2. CASE reCache[q] = Nil
    <3>1. /\ pc' = [pc EXCEPT ![g] = "add"] /\ reCacheSize' = reCacheSize
          /\ reCache' = [reCache EXCEPT ![q] = Compile(q)]
      BY <1>7, <2>2, <2>k DEF LoadOrStore, Goto
    <3>2. nReset' = nReset /\ nAdd' = nAdd + 1 /\ nStore' = nStore - 1
      <4>1. Moves(g, "store", "add")  BY <3>1, <2>k DEF Moves
      <4> QED  BY <1>t, <4>1, Counts
    <3>3. Compile(q) # Nil  BY <2>k DEF SoundInv, PastCompile
    <3>4. Cached' = Cached \cup {q} /\ q \notin Cached
      BY <1>t, <2>2, <2>k, <3>1, <3>3 DEF Cached, TypeOK
    <3>5. IsFiniteSet(Cached') /\ nCache' = nCache + 1
      <4>1. IsFiniteSet(Cached \cup {q}) /\ Cardinality(Cached \cup {q}) = Cardinality(Cached) + 1
        BY <1>c, <3>4, FS_AddElement
      <4> QED  BY <3>4, <4>1 DEF nCache
    <3>6. N' = N  BY DEF N
    <3>7. 2 * ((nCache + 1) + (nStore - 1)) <= TwoB(N - nReset)  BY <1>n, <1>c, <1>i
    <3>8. nReset < N => 2 * (nCache + 1) <= TwoB(N - nReset - 1) + 2 * (reCacheSize + (nAdd + 1))
      BY <1>m, <1>n, <1>c, <1>i, <1>b1
    <3> QED  BY <3>1, <3>2, <3>5, <3>6, <3>7, <3>8 DEF BoundInv, TwoB
  <2> QED  BY <2>1, <2>2
<1>8. ASSUME NEW g \in Goroutines, AddSize(g) PROVE BoundInv'
  <2>1. /\ pc[g] = "add" /\ pc' = [pc EXCEPT ![g] = "idle"]
        /\ reCache' = reCache /\ reCacheSize' = reCacheSize + 1
    BY <1>8 DEF AddSize, Return, Goto
  <2>2. nReset' = nReset /\ nAdd' = nAdd - 1 /\ nStore' = nStore
    <3>1. Moves(g, "add", "idle")  BY <2>1 DEF Moves
    <3> QED  BY <1>t, <3>1, Counts
  <2>3. Cached' = Cached /\ nCache' = nCache /\ N' = N  BY <2>1 DEF Cached, nCache, N
  <2>4. nReset < N => 2 * nCache <= TwoB(N - nReset - 1) + 2 * ((reCacheSize + 1) + (nAdd - 1))
    BY <1>m, <1>n, <1>c, <1>i, <1>b1
  <2> QED  BY <1>c, <1>i, <2>1, <2>2, <2>3, <2>4 DEF BoundInv, TwoB
<1>9. CASE UNCHANGED vars
  BY <1>9 DEF vars, BoundInv, TwoB, nReset, nStore, nAdd, nCache, At, Cached, N
<1> QED  BY <1>1, <1>2, <1>3, <1>4, <1>5, <1>6, <1>7, <1>8, <1>9 DEF Next, Step

\* The regexp cache never holds more than N * reCacheMaxSize + N (N - 1) / 2
\* entries, for every number N of goroutines: the unsynchronised clear and
\* counter cannot make it grow with the number of patterns.
THEOREM CacheIsBounded == Spec => []CacheBounded
<1>1. SoundInv /\ BoundInv => CacheBounded
  <2> SUFFICES ASSUME SoundInv, BoundInv PROVE CacheBounded  OBVIOUS
  <2>1. N \in Nat /\ nReset \in Nat /\ nStore \in Nat /\ nReset <= N /\ N - nReset \in Nat
    BY CountSum
  <2>2. TwoB(N - nReset) <= TwoB(N) /\ TwoB(N) \in Nat /\ TwoB(N - nReset) \in Nat
    BY <2>1, TwoBMonotone, TwoBStep
  <2>3. nCache \in Nat /\ 2 * (nCache + nStore) <= TwoB(N - nReset)
    BY FS_CardinalityType DEF BoundInv, nCache
  <2>4. 2 * nCache <= TwoB(N)  BY <2>1, <2>2, <2>3
  <2> QED  BY <2>4 DEF CacheBounded, TwoB, nCache
<1> QED  BY <1>1, SoundHolds, BoundInit, BoundNext, PTL DEF Spec

=============================================================================
