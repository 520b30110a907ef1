-------------------------- MODULE ScriptCacheProofs --------------------------
(***************************************************************************)
(* Proofs about ScriptCache, for any threads, any set of scripts, any      *)
(* limit and any number of lookups: the inductive invariant, and the       *)
(* implementation of TypeOracle.                                           *)
(***************************************************************************)
EXTENDS ScriptCache, FiniteSetTheorems, TLAPS

Types == {TypeOf(s) : s \in Scripts}

\* The size of the cache is a number.
LEMMA SizeType ==
  ASSUME IInv
  PROVE  Cardinality(Cached) \in Nat
BY FS_CardinalityType DEF IInv, WithinLimit

\* A lookup asks for a script, and is answered a type.
LEMMA AskedType ==
  ASSUME IInv, NEW t \in Threads, pc[t] \in {"find", "found", "compute"}
  PROVE  /\ asked[t] \in Scripts /\ answer[t] = Absent
         /\ pc[t] = "found" => cache[asked[t]] = TypeOf(asked[t])
<1>1. LookUpInPlace(t) /\ asked \in [Threads -> Scripts \cup {Absent}]
  BY DEF IInv, TypeOK
<1>2. asked[t] \in Scripts /\ answer[t] = Absent
  BY <1>1 DEF LookUpInPlace
<1>3. pc[t] = "found" => cache[asked[t]] = TypeOf(asked[t])
  BY <1>1 DEF LookUpInPlace, IInv, CacheRight
<1> QED
  BY <1>2, <1>3

-----------------------------------------------------------------------------
(* Types and control                                                       *)

LEMMA TypeStep ==
  ASSUME IInv, [Next]_vars
  PROVE  TypeOK'
<1> USE DEF TypeOK
<1>0. CASE UNCHANGED vars
  BY <1>0 DEF IInv, vars, shared, local
<1> SUFFICES ASSUME NEW t \in Threads,
                    \/ LookUp(t) \/ AskClear(t) \/ AskStats(t)
                    \/ Enter(t) \/ Step(t)
             PROVE  TypeOK'
  BY <1>0 DEF Next
<1> USE DEF IInv, Goto, Lock, Unlock, Stages, Counters, shared
<1>1. CASE LookUp(t)
  BY <1>1 DEF LookUp
<1>2. CASE AskClear(t) \/ AskStats(t)
  BY <1>2 DEF AskClear, AskStats
<1>3. CASE EnterLookUp(t) \/ EnterClear(t) \/ EnterSize(t)
  BY <1>3 DEF EnterLookUp, EnterClear, EnterSize
<1>4. CASE Hit(t) \/ Miss(t)
  BY <1>4 DEF Hit, Miss, Find
<1>5. CASE ReturnFound(t)
  <2>1. cache[asked[t]] \in Types
    BY <1>5, AskedType DEF ReturnFound, Types
  <2> QED
    BY <1>5, <2>1 DEF ReturnFound, Types
<1>6. CASE Compute(t)
  <2>1. asked[t] \in Scripts /\ TypeOf(asked[t]) \in Types
    BY <1>6, AskedType DEF Compute, Types
  <2> QED
    BY <1>6, <2>1 DEF Compute, Types
<1>7. CASE Zero(t) \/ LeaveClear(t)
  BY <1>7 DEF Zero, LeaveClear
<1>8. CASE Read(t)
  <2>1. PICK k \in left[t] : report' = [report EXCEPT ![t][k] = count[k]]
    BY <1>8 DEF Read
  <2>2. k \in {"hits", "misses"} /\ count[k] \in Nat
    BY <2>1
  <2>3. report' \in [Threads -> [hits : Nat, misses : Nat, size : Nat]]
    BY <2>1, <2>2
  <2> QED
    BY <1>8, <2>3 DEF Read
<1>9. CASE ReadSize(t)
  BY <1>9, SizeType DEF ReadSize
<1>10. CASE Return(t)
  BY <1>10 DEF Return, NoReport
<1> QED
  BY <1>1, <1>2, <1>3, <1>4, <1>5, <1>6, <1>7, <1>8, <1>9, <1>10
     DEF Enter, Step

LEMMA LockStep ==
  ASSUME IInv, [Next]_vars
  PROVE  LockHeld'
<1>1. CASE UNCHANGED vars
  BY <1>1 DEF IInv, LockHeld, Inside, vars, shared, local
<1> SUFFICES ASSUME NEW t \in Threads,
                    \/ LookUp(t) \/ AskClear(t) \/ AskStats(t)
                    \/ Enter(t) \/ Step(t)
             PROVE  LockHeld'
  BY <1>1 DEF Next
<1>2. LockHeld /\ pc \in [Threads -> Stages] /\ mutex \in Threads \cup {Free}
  BY DEF IInv, TypeOK
<1> QED
  BY <1>2, FreeAssumption
     DEF LockHeld, Inside, Enter, Step, LookUp, AskClear, AskStats, EnterLookUp,
         EnterClear, EnterSize, Hit, Miss, Find, ReturnFound, Compute, Zero,
         LeaveClear, Read, ReadSize, Return, Goto, Lock, Unlock, shared

-----------------------------------------------------------------------------
(* The cache                                                               *)

\* A computed type makes the cache one entry larger, when there is room.
LEMMA Stored ==
  ASSUME IInv, NEW t \in Threads, Compute(t)
  PROVE  /\ IsFiniteSet(Cached')
         /\ Room => /\ Cached' = Cached \cup {asked[t]}
                    /\ cache'[asked[t]] = TypeOf(asked[t])
                    /\ Cardinality(Cached') = Cardinality(Cached) + 1
         /\ ~ Room => cache' = cache
         /\ \A s \in Scripts \ {asked[t]} : cache'[s] = cache[s]
<1>1. pc[t] = "compute" /\ asked[t] \in Scripts /\ asked[t] \notin Cached
  BY AskedType DEF Compute, Unlock, Goto, IInv, LookUpInPlace
<1>2. IsFiniteSet(Cached) /\ cache \in [Scripts -> Types \cup {Absent}]
  BY DEF IInv, WithinLimit, TypeOK, Types
<1>3. CASE Room
  <2>1. cache' = [cache EXCEPT ![asked[t]] = TypeOf(asked[t])]
    BY <1>3 DEF Compute
  <2>2. TypeOf(asked[t]) # Absent
    BY <1>1, AbsentAssumption
  <2>3. Cached' = Cached \cup {asked[t]}
    BY <1>1, <1>2, <2>1, <2>2 DEF Cached
  <2>4. /\ IsFiniteSet(Cached \cup {asked[t]})
        /\ Cardinality(Cached \cup {asked[t]}) = Cardinality(Cached) + 1
    BY <1>1, <1>2, FS_AddElement
  <2> QED
    BY <1>1, <1>2, <1>3, <2>1, <2>3, <2>4
<1>4. CASE ~ Room
  <2>1. cache' = cache
    BY <1>4 DEF Compute
  <2> QED
    BY <1>2, <1>4, <2>1 DEF Cached
<1> QED
  BY <1>3, <1>4

\* Nothing else writes the map, but clear.
LEMMA OtherStep ==
  ASSUME IInv, NEW t \in Threads,
         \/ LookUp(t) \/ AskClear(t) \/ AskStats(t)
         \/ Enter(t) \/ Step(t)
  PROVE  Compute(t) \/ EnterClear(t) \/ UNCHANGED cache
BY DEF Enter, Step, LookUp, AskClear, AskStats, EnterLookUp, EnterSize, Hit,
       Miss, Find, ReturnFound, Zero, LeaveClear, Read, ReadSize, Return, shared

LEMMA CacheStep ==
  ASSUME IInv, [Next]_vars
  PROVE  CacheRight' /\ WithinLimit'
<1>0. CacheRight /\ WithinLimit
  BY DEF IInv
<1>1. CASE UNCHANGED cache
  BY <1>0, <1>1 DEF CacheRight, WithinLimit, Cached
<1>2. CASE UNCHANGED vars
  BY <1>1, <1>2 DEF vars, shared
<1>3. ASSUME NEW t \in Threads, EnterClear(t)
      PROVE  Cached' = {} /\ CacheRight' /\ WithinLimit'
  <2>1. Cached' = {}
    BY <1>3 DEF EnterClear, Cached
  <2> QED
    BY <2>1, FS_EmptySet, LimitAssumption DEF CacheRight, WithinLimit
<1>4. ASSUME NEW t \in Threads, Compute(t)
      PROVE  CacheRight' /\ WithinLimit'
  <2>1. asked[t] \in Scripts /\ Cardinality(Cached) \in Nat
    BY <1>4, AskedType, SizeType DEF Compute, Unlock, Goto
  <2>2. CASE Room
    <3>1. CacheRight'
      BY <1>0, <1>4, <2>1, <2>2, Stored DEF CacheRight, Cached
    <3>2. WithinLimit'
      BY <1>4, <2>1, <2>2, Stored, LimitAssumption DEF WithinLimit, Room
    <3> QED
      BY <3>1, <3>2
  <2>3. CASE ~ Room
    BY <1>1, <1>4, <2>3, Stored
  <2> QED
    BY <2>2, <2>3
<1> QED
  BY <1>1, <1>2, <1>3, <1>4, OtherStep DEF Next

\* A thread that is inside a method is alone there.
LEMMA Alone ==
  ASSUME IInv, NEW t \in Threads, NEW u \in Threads, t # u, pc[t] \in Inside
  PROVE  pc[u] \notin Inside
BY DEF IInv, LockHeld

LEMMA LookUpStep ==
  ASSUME IInv, [Next]_vars, NEW u \in Threads
  PROVE  LookUpInPlace(u)'
<1>0. LookUpInPlace(u) /\ TypeOK
  BY DEF IInv
<1>1. CASE UNCHANGED vars
  BY <1>0, <1>1 DEF LookUpInPlace, Cached, vars, shared, local
<1> SUFFICES ASSUME NEW t \in Threads,
                    \/ LookUp(t) \/ AskClear(t) \/ AskStats(t)
                    \/ Enter(t) \/ Step(t)
             PROVE  LookUpInPlace(u)'
  BY <1>1 DEF Next
<1>2. CASE t # u
  <2>1. pc'[u] = pc[u] /\ asked'[u] = asked[u] /\ answer'[u] = answer[u]
    BY <1>0, <1>2
       DEF Enter, Step, LookUp, AskClear, AskStats, EnterLookUp, EnterClear,
           EnterSize, Hit, Miss, Find, ReturnFound, Compute, Zero, LeaveClear,
           Read, ReadSize, Return, Goto, Lock, Unlock, shared, TypeOK
  <2>2. CASE UNCHANGED cache
    BY <1>0, <2>1, <2>2 DEF LookUpInPlace, Cached
  <2>3. CASE ~ UNCHANGED cache
    <3>1. pc[u] \notin {"found", "compute"}
      <4>1. Compute(t) \/ EnterClear(t)
        BY <2>3, OtherStep
      <4>2. pc[t] \in Inside \/ mutex = Free
        BY <4>1 DEF Compute, EnterClear, Lock, Unlock, Goto, Inside
      <4> QED
        BY <1>2, <4>2, Alone, FreeAssumption DEF IInv, LockHeld, Inside
    <3> QED
      BY <1>0, <2>1, <3>1 DEF LookUpInPlace
  <2> QED
    BY <2>2, <2>3
<1>3. CASE t = u
  <2>1. CASE LookUp(t) \/ AskClear(t) \/ AskStats(t) \/ Enter(t)
    BY <1>0, <1>3, <2>1, AbsentAssumption
       DEF LookUp, AskClear, AskStats, Enter, EnterLookUp, EnterClear,
           EnterSize, Goto, Lock, shared, TypeOK, LookUpInPlace, Cached
  <2>2. CASE Hit(t) \/ Miss(t)
    BY <1>0, <1>3, <2>2 DEF Hit, Miss, Find, Goto, TypeOK, LookUpInPlace, Cached
  <2>3. CASE ReturnFound(t) \/ Compute(t)
    <3>1. /\ pc'[t] = "answered" /\ asked' = asked
          /\ answer'[t] = TypeOf(asked[t]) /\ asked[t] \in Scripts
      BY <1>0, <2>3, AskedType DEF ReturnFound, Compute, Unlock, Goto, TypeOK
    <3>2. answer'[t] # Absent /\ asked'[t] # Absent
      BY <3>1, AbsentAssumption
    <3> QED
      BY <1>3, <3>1, <3>2 DEF LookUpInPlace
  <2>4. CASE Zero(t) \/ LeaveClear(t) \/ Read(t) \/ ReadSize(t) \/ Return(t)
    BY <1>0, <1>3, <2>4
       DEF Zero, LeaveClear, Read, ReadSize, Return, Unlock, Goto, shared,
           TypeOK, LookUpInPlace, Cached
  <2> QED
    BY <2>1, <2>2, <2>3, <2>4 DEF Step
<1> QED
  BY <1>2, <1>3

-----------------------------------------------------------------------------
(* The statistics                                                          *)

\* The counters are the business of whoever is inside, and the lookup that
\* just counted has not stored yet.
LEMMA MissesStep ==
  ASSUME IInv, [Next]_vars
  PROVE  MissesAccounted'
<1> DEFINE misses == count["misses"]
<1>0. /\ MissesAccounted /\ LockHeld /\ TypeOK
      /\ misses \in Nat /\ Cardinality(Cached) \in Nat
  BY SizeType DEF IInv, TypeOK, Counters
<1>1. CASE UNCHANGED vars
  BY <1>0, <1>1
     DEF MissesAccounted, MissesMatchSize, Accounts, Room, Cached, vars, shared, local
<1> SUFFICES ASSUME NEW t \in Threads,
                    \/ LookUp(t) \/ AskClear(t) \/ AskStats(t)
                    \/ Enter(t) \/ Step(t)
             PROVE  MissesAccounted'
  BY <1>1 DEF Next
<1> USE DEF MissesAccounted, MissesMatchSize
<1>2. CASE LookUp(t) \/ AskClear(t) \/ AskStats(t) \/ Read(t) \/ Return(t)
  <2>1. cache' = cache /\ count' = count /\ mutex' = mutex
    BY <1>2 DEF LookUp, AskClear, AskStats, Read, Return, shared
  <2>2. \A u \in Threads : pc'[u] \in Inside => pc'[u] = pc[u] /\ left'[u] = left[u]
    BY <1>0, <1>2
       DEF LookUp, AskClear, AskStats, Read, Return, Goto, Inside, TypeOK
  <2> QED
    BY <1>0, <2>1, <2>2 DEF Accounts, Room, Cached, Inside
<1>3. CASE EnterLookUp(t) \/ EnterSize(t)
  <2>1. cache' = cache /\ count' = count /\ mutex = Free /\ mutex' = t
    BY <1>3 DEF EnterLookUp, EnterSize, Lock
  <2>2. /\ pc'[t] \in {"find", "size"}
        /\ \A u \in Threads \ {t} : pc'[u] = pc[u] /\ pc[u] \notin Inside
    BY <1>0, <1>3, <2>1, FreeAssumption
       DEF EnterLookUp, EnterSize, Lock, Goto, LockHeld, TypeOK
  <2>3. Accounts(misses)'
    BY <1>0, <2>1 DEF Accounts, Room, Cached
  <2> QED
    BY <2>1, <2>2, <2>3, FreeAssumption DEF Inside
<1>4. CASE EnterClear(t)
  <2>1. Cached' = {} /\ mutex = Free /\ mutex' = t /\ left'[t] = Counters
    BY <1>0, <1>4 DEF EnterClear, Lock, Cached, TypeOK
  <2>2. /\ pc'[t] = "zero"
        /\ \A u \in Threads \ {t} : pc'[u] = pc[u] /\ pc[u] \notin Inside
    BY <1>0, <1>4, <2>1, FreeAssumption DEF EnterClear, Lock, Goto, LockHeld, TypeOK
  <2> QED
    BY <2>1, <2>2, FreeAssumption DEF Inside, Counters
<1>5. CASE Hit(t) \/ Miss(t) \/ ReturnFound(t) \/ Compute(t) \/ Zero(t)
           \/ LeaveClear(t) \/ ReadSize(t)
  <2>1. pc[t] \in Inside /\ mutex = t /\ mutex' \in {t, Free}
    BY <1>0, <1>5
       DEF LockHeld, Hit, Miss, Find, ReturnFound, Compute, Zero, LeaveClear,
           ReadSize, Goto, Unlock, Inside
  <2>2. \A u \in Threads \ {t} : pc'[u] = pc[u] /\ pc[u] \notin Inside
    BY <1>0, <1>5, <2>1
       DEF LockHeld, Hit, Miss, Find, ReturnFound, Compute, Zero, LeaveClear,
           ReadSize, Goto, Unlock, TypeOK
  <2>3. CASE Hit(t)
    <3>1. misses' = misses /\ cache' = cache /\ pc'[t] = "found" /\ pc[t] = "find"
          /\ mutex' = mutex
      BY <1>0, <2>3 DEF Hit, Find, Goto, TypeOK, Counters
    <3> QED
      BY <1>0, <2>1, <2>2, <3>1, FreeAssumption DEF Accounts, Room, Cached, Inside
  <2>4. CASE Miss(t)
    <3>1. misses' = misses + 1 /\ cache' = cache /\ pc'[t] = "compute"
          /\ pc[t] = "find" /\ mutex' = mutex
      BY <1>0, <2>4 DEF Miss, Find, Goto, TypeOK, Counters
    <3>2. misses' - 1 = misses
      BY <1>0, <3>1
    <3>3. Accounts(misses)
      BY <1>0, <3>1
    <3>4. Accounts(misses - 1)'
      BY <3>1, <3>2, <3>3 DEF Accounts, Room, Cached
    <3> QED
      BY <2>1, <2>2, <3>1, <3>4, FreeAssumption DEF Inside
  <2>5. CASE ReturnFound(t) \/ ReadSize(t)
    <3>1. count' = count /\ cache' = cache /\ pc[t] \in {"found", "size"}
          /\ pc'[t] \in {"answered", "reported"}
      BY <1>0, <2>5 DEF ReturnFound, ReadSize, Unlock, Goto, TypeOK
    <3>2. Accounts(misses)'
      BY <1>0, <3>1 DEF Accounts, Room, Cached
    <3> QED
      BY <2>2, <3>1, <3>2 DEF Inside
  <2>6. CASE Compute(t)
    <3>1. misses' = misses /\ pc[t] = "compute" /\ pc'[t] = "answered"
      BY <1>0, <2>6 DEF Compute, Unlock, Goto, TypeOK
    <3>2. Accounts(misses - 1)
      BY <1>0, <3>1
    <3>3. CASE Room
      <4>1. Cardinality(Cached') = Cardinality(Cached) + 1
        BY <2>6, <3>3, Stored
      <4>2. misses - 1 = Cardinality(Cached)
        BY <3>2, <3>3 DEF Accounts
      <4> QED
        BY <1>0, <2>2, <3>1, <4>1, <4>2 DEF Accounts, Inside
    <3>4. CASE ~ Room
      <4>1. cache' = cache
        BY <2>6, <3>4, Stored
      <4>2. Cached' = Cached /\ ~ Room'
        BY <3>4, <4>1 DEF Cached, Room
      <4>3. misses >= Cardinality(Cached)
        BY <1>0, <3>2 DEF Accounts
      <4> QED
        BY <2>2, <3>1, <4>2, <4>3 DEF Accounts, Inside
    <3> QED
      BY <3>3, <3>4
  <2>7. CASE Zero(t)
    <3>1. PICK k \in left[t] : /\ left' = [left EXCEPT ![t] = @ \ {k}]
                               /\ count' = [count EXCEPT ![k] = 0]
      BY <2>7 DEF Zero
    <3>2. k \in Counters /\ pc' = pc /\ cache' = cache /\ pc[t] = "zero" /\ mutex' = mutex
      BY <1>0, <2>7, <3>1 DEF Zero, TypeOK
    <3>3. Cached' = {} /\ ("misses" \in left'[t] \/ misses' = 0)
      BY <1>0, <3>1, <3>2 DEF TypeOK, Cached, Counters
    <3> QED
      BY <2>1, <2>2, <3>2, <3>3, FreeAssumption DEF Inside
  <2>8. CASE LeaveClear(t)
    <3>1. /\ count' = count /\ Cached' = Cached /\ Cached = {} /\ misses = 0
          /\ pc'[t] = "idle"
      BY <1>0, <2>8 DEF LeaveClear, Unlock, Goto, TypeOK, Cached
    <3>2. Cardinality(Cached') = 0
      BY <3>1, FS_EmptySet
    <3> QED
      BY <2>2, <3>1, <3>2 DEF Accounts, Inside
  <2> QED
    BY <1>5, <2>3, <2>4, <2>5, <2>6, <2>7, <2>8
<1> QED
  BY <1>2, <1>3, <1>4, <1>5 DEF Enter, Step

\* Lookups only add up, and what a report has read was counted before.
LEMMA ReadsStep ==
  ASSUME IInv, [Next]_vars
  PROVE  ReadsAreLookups' /\ NeverOverreports'
<1> DEFINE h == count["hits"]
           m == count["misses"]
           H(u) == report[u].hits
           M(u) == report[u].misses
           Partly(u) ==
             pc[u] = "stats" =>
               /\ "hits" \in left[u] => H(u) = 0 /\ h + M(u) <= lookups
               /\ "misses" \in left[u] => M(u) = 0 /\ H(u) + m <= lookups
           Fresh(u) == pc[u] \notin {"stats", "size", "reported"} => report[u] = NoReport
<1>0. /\ TypeOK /\ h \in Nat /\ m \in Nat /\ lookups \in Nat
      /\ \A u \in Threads : H(u) \in Nat /\ M(u) \in Nat /\ H(u) + M(u) <= lookups
      /\ h + m <= lookups /\ \A u \in Threads : Partly(u) /\ Fresh(u)
  BY DEF IInv, TypeOK, Counters, ReadsAreLookups, NeverOverreports
<1>9. \A u \in Threads : Fresh(u)'
  <2>1. CASE UNCHANGED vars
    BY <1>0, <2>1 DEF vars, shared, local
  <2>2. ASSUME NEW t \in Threads,
               \/ LookUp(t) \/ AskClear(t) \/ AskStats(t)
               \/ Enter(t) \/ Step(t)
        PROVE  \A u \in Threads : Fresh(u)'
    BY <1>0, <2>2
       DEF Enter, Step, LookUp, AskClear, AskStats, EnterLookUp, EnterClear,
           EnterSize, Hit, Miss, Find, ReturnFound, Compute, Zero, LeaveClear,
           Read, ReadSize, Return, Goto, Lock, Unlock, shared, TypeOK
  <2> QED
    BY <2>1, <2>2 DEF Next
<1> SUFFICES (h + m)' <= lookups' /\ \A u \in Threads : Partly(u)' /\ (H(u) + M(u))' <= lookups'
  BY <1>9 DEF ReadsAreLookups, NeverOverreports
<1>1. CASE UNCHANGED vars
  BY <1>0, <1>1 DEF vars, shared, local
<1> SUFFICES ASSUME NEW t \in Threads,
                    \/ LookUp(t) \/ AskClear(t) \/ AskStats(t)
                    \/ Enter(t) \/ Step(t)
             PROVE  /\ (h + m)' <= lookups'
                    /\ \A u \in Threads : Partly(u)' /\ (H(u) + M(u))' <= lookups'
  BY <1>1 DEF Next
\* The steps after which every counter is at most what a lookup made of it.
<1>2. CASE /\ h' \in Nat /\ m' \in Nat /\ lookups' \in Nat
           /\ h' + m' <= lookups' /\ lookups <= lookups'
           /\ h' <= h + (lookups' - lookups) /\ m' <= m + (lookups' - lookups)
           /\ report' = report
           /\ \A u \in Threads :
                pc'[u] = "stats" => pc[u] = "stats" /\ left'[u] \subseteq left[u]
  <2> SUFFICES ASSUME NEW u \in Threads
               PROVE  Partly(u)' /\ (H(u) + M(u))' <= lookups'
    BY <1>2
  <2>1. H(u)' = H(u) /\ M(u)' = M(u) /\ H(u) \in Nat /\ M(u) \in Nat
    BY <1>0, <1>2
  <2>2. (H(u) + M(u))' <= lookups'
    BY <1>0, <1>2, <2>1
  <2>3. ASSUME pc'[u] = "stats", "hits" \in left'[u]
        PROVE  H(u)' = 0 /\ (h + M(u))' <= lookups'
    BY <1>0, <1>2, <2>1, <2>3
  <2>4. ASSUME pc'[u] = "stats", "misses" \in left'[u]
        PROVE  M(u)' = 0 /\ (H(u) + m)' <= lookups'
    BY <1>0, <1>2, <2>1, <2>4
  <2> QED
    BY <2>2, <2>3, <2>4
<1>3. CASE LookUp(t) \/ AskClear(t) \/ Enter(t) \/ ReturnFound(t) \/ Compute(t)
           \/ LeaveClear(t)
  <2>1. /\ count' = count /\ lookups' = lookups /\ report' = report
        /\ \A u \in Threads :
             pc'[u] = "stats" => pc[u] = "stats" /\ left'[u] = left[u]
    BY <1>0, <1>3
       DEF LookUp, AskClear, Enter, EnterLookUp, EnterClear, EnterSize,
           ReturnFound, Compute, LeaveClear, Goto, Lock, Unlock, shared, TypeOK
  <2> QED
    BY <1>0, <1>2, <2>1
<1>4. CASE Hit(t) \/ Miss(t)
  <2>1. PICK k \in Counters : /\ count' = [count EXCEPT ![k] = @ + 1]
                              /\ lookups' = lookups + 1
                              /\ report' = report /\ left' = left
                              /\ pc[t] = "find" /\ pc' \in {[pc EXCEPT ![t] = "found"],
                                                            [pc EXCEPT ![t] = "compute"]}
    BY <1>4 DEF Hit, Miss, Find, Goto, Counters
  <2>2. \A u \in Threads : pc'[u] = "stats" => pc[u] = "stats"
    BY <1>0, <2>1 DEF TypeOK
  <2>3. (h' = h + 1 /\ m' = m) \/ (h' = h /\ m' = m + 1)
    BY <1>0, <2>1 DEF Counters, TypeOK
  <2> QED
    BY <1>0, <1>2, <2>1, <2>2, <2>3
<1>5. CASE Zero(t)
  <2>1. PICK k \in left[t] : /\ left' = [left EXCEPT ![t] = @ \ {k}]
                             /\ count' = [count EXCEPT ![k] = 0]
    BY <1>5 DEF Zero
  <2>2. k \in Counters /\ pc' = pc /\ lookups' = lookups /\ report' = report
    BY <1>0, <1>5, <2>1 DEF Zero, TypeOK
  <2>3. h' \in {0, h} /\ m' \in {0, m}
    BY <1>0, <2>1, <2>2 DEF Counters, TypeOK
  <2>4. \A u \in Threads : left'[u] \subseteq left[u]
    BY <1>0, <2>1 DEF TypeOK
  <2> QED
    BY <1>0, <1>2, <2>2, <2>3, <2>4
<1>6. CASE AskStats(t)
  <2>1. H(t) = 0 /\ M(t) = 0
    BY <1>0, <1>6 DEF AskStats, Goto, NoReport
  <2> QED
    BY <1>0, <1>6, <2>1 DEF AskStats, Goto, shared, TypeOK
<1>7. CASE Read(t)
  <2>0. /\ count' = count /\ lookups' = lookups /\ pc' = pc /\ pc[t] = "stats"
        /\ left \in [Threads -> SUBSET Counters]
        /\ report \in [Threads -> [hits : Nat, misses : Nat, size : Nat]]
    BY <1>0, <1>7 DEF Read, shared, TypeOK
  <2>1. PICK k \in left[t] : /\ left' = [left EXCEPT ![t] = @ \ {k}]
                             /\ report' = [report EXCEPT ![t][k] = count[k]]
    BY <1>7 DEF Read
  <2>2. \A u \in Threads \ {t} : left'[u] = left[u] /\ report'[u] = report[u]
    BY <2>0, <2>1
  <2>3. left'[t] = left[t] \ {k} /\ report'[t] = [report[t] EXCEPT ![k] = count[k]]
    BY <2>0, <2>1
  <2>4. CASE k = "hits"
    <3>1. H(t)' = h /\ M(t)' = M(t) /\ h + M(t) <= lookups
      BY <1>0, <2>0, <2>1, <2>3, <2>4
    <3>2. "misses" \in left'[t] => M(t)' = 0 /\ (H(t) + m)' <= lookups'
      BY <1>0, <2>0, <2>3, <2>4, <3>1
    <3>3. "hits" \notin left'[t] /\ (H(t) + M(t))' <= lookups'
      BY <2>0, <2>3, <2>4, <3>1
    <3> QED
      BY <1>0, <2>0, <2>2, <3>2, <3>3
  <2>5. CASE k = "misses"
    <3>1. M(t)' = m /\ H(t)' = H(t) /\ H(t) + m <= lookups
      BY <1>0, <2>0, <2>1, <2>3, <2>5
    <3>2. "hits" \in left'[t] => H(t)' = 0 /\ (h + M(t))' <= lookups'
      BY <1>0, <2>0, <2>3, <2>5, <3>1
    <3>3. "misses" \notin left'[t] /\ (H(t) + M(t))' <= lookups'
      BY <2>0, <2>3, <2>5, <3>1
    <3> QED
      BY <1>0, <2>0, <2>2, <3>2, <3>3
  <2> QED
    BY <2>0, <2>1, <2>4, <2>5 DEF Counters
<1>8. CASE ReadSize(t) \/ Return(t)
  BY <1>0, <1>8 DEF ReadSize, Return, Goto, Unlock, shared, TypeOK, NoReport
<1> QED
  BY <1>3, <1>4, <1>5, <1>6, <1>7, <1>8 DEF Step

-----------------------------------------------------------------------------
(* The theorems                                                            *)

LEMMA InitInv == Init => IInv
<1> SUFFICES ASSUME Init PROVE IInv
  OBVIOUS
<1> USE DEF Init
<1>1. Cached = {} /\ IsFiniteSet(Cached) /\ Cardinality(Cached) = 0
  <2>1. Cached = {}
    BY DEF Cached
  <2> QED
    BY <2>1, FS_EmptySet
<1>2. TypeOK
  BY DEF TypeOK, Stages, Counters, NoReport
<1>3. LockHeld /\ CacheRight /\ WithinLimit
  BY <1>1, FreeAssumption, LimitAssumption DEF LockHeld, Inside, CacheRight, WithinLimit
<1>4. \A t \in Threads : LookUpInPlace(t)
  BY DEF LookUpInPlace
<1>5. MissesAccounted
  BY <1>1 DEF MissesAccounted, MissesMatchSize, Accounts, Counters
<1>6. ReadsAreLookups /\ NeverOverreports
  BY DEF ReadsAreLookups, NeverOverreports, Counters, NoReport
<1> QED
  BY <1>2, <1>3, <1>4, <1>5, <1>6 DEF IInv

\* Whatever the threads look up, clear and read, and however their steps
\* interleave: what a lookup finds is the type of its script, the cache is
\* within its limit, its misses account for it, and no report overcounts.
THEOREM InductiveInvariant == Spec => []IInv
<1>1. IInv /\ [Next]_vars => IInv'
  BY TypeStep, LockStep, CacheStep, LookUpStep, MissesStep, ReadsStep DEF IInv
<1> QED
  BY InitInv, <1>1, PTL DEF Spec

\* The statistics of a quiet cache tell its contents: no script was computed
\* and stored twice.
THEOREM MissesTellSize == Spec => []MissesMatchSize
<1>1. IInv => MissesMatchSize
  BY DEF IInv, MissesAccounted
<1> QED
  BY InductiveInvariant, <1>1, PTL

\* /cache-stats, which takes no lock for the counters, never reports more
\* lookups than were made, not even across a clear.
THEOREM ReportsBounded == Spec => []NeverOverreports
<1>1. IInv => NeverOverreports
  BY DEF IInv
<1> QED
  BY InductiveInvariant, <1>1, PTL

\* A step of the cache is a step of the oracle, or none.
LEMMA OracleStep ==
  ASSUME IInv, [Next]_vars
  PROVE  [Oracle!Next]_<<asked, answer>>
<1>0. TypeOK
  BY DEF IInv
<1>1. CASE UNCHANGED vars
  BY <1>1 DEF vars, local
<1> SUFFICES ASSUME NEW t \in Threads,
                    \/ LookUp(t) \/ AskClear(t) \/ AskStats(t)
                    \/ Enter(t) \/ Step(t)
             PROVE  [Oracle!Next]_<<asked, answer>>
  BY <1>1 DEF Next
<1>2. LookUpInPlace(t)
  BY DEF IInv
<1>3. CASE LookUp(t)
  <2>1. asked[t] = Absent
    BY <1>2, <1>3 DEF LookUp, Goto, LookUpInPlace
  <2>2. \E s \in Scripts : Oracle!Ask(t, s)
    BY <1>3, <2>1 DEF LookUp, Oracle!Ask
  <2> QED
    BY <2>2 DEF Oracle!Next
<1>4. CASE ReturnFound(t) \/ Compute(t)
  <2>1. /\ asked[t] \in Scripts /\ asked' = asked /\ answer[t] = Absent
        /\ answer' = [answer EXCEPT ![t] = TypeOf(asked[t])]
    BY <1>4, AskedType DEF ReturnFound, Compute, Unlock, Goto
  <2>2. asked[t] # Absent
    BY <2>1, AbsentAssumption
  <2>3. Oracle!Answer(t)
    BY <2>1, <2>2 DEF Oracle!Answer
  <2> QED
    BY <2>3 DEF Oracle!Next
<1>5. CASE Return(t)
  <2>1. CASE pc[t] = "answered"
    <3>1. Oracle!Take(t)
      BY <1>2, <1>5, <2>1 DEF Return, LookUpInPlace, Oracle!Take
    <3> QED
      BY <3>1 DEF Oracle!Next
  <2>2. CASE pc[t] = "reported"
    <3>1. asked[t] = Absent /\ answer[t] = Absent
      BY <1>2, <2>2 DEF LookUpInPlace
    <3>2. UNCHANGED <<asked, answer>>
      BY <1>0, <1>5, <3>1 DEF Return, TypeOK
    <3> QED
      BY <3>2
  <2> QED
    BY <1>5, <2>1, <2>2 DEF Return
<1>6. CASE \/ AskClear(t) \/ AskStats(t) \/ Enter(t) \/ Hit(t) \/ Miss(t)
           \/ Zero(t) \/ LeaveClear(t) \/ Read(t) \/ ReadSize(t)
  BY <1>6
     DEF AskClear, AskStats, Enter, EnterLookUp, EnterClear, EnterSize, Hit,
         Miss, Find, Zero, LeaveClear, Read, ReadSize
<1> QED
  BY <1>3, <1>4, <1>5, <1>6 DEF Step

\* The cache, its limit, its clearing and its statistics are invisible to the
\* threads that validate: they are answered as by the oracle.
THEOREM ImplementsOracle == Spec => OracleKept
<1>1. Init => Oracle!Init
  BY DEF Init, Oracle!Init
<1>2. IInv /\ [Next]_vars => [Oracle!Next]_<<asked, answer>>
  BY OracleStep
<1> QED
  BY InductiveInvariant, <1>1, <1>2, PTL DEF Spec, OracleKept, Oracle!Spec
=============================================================================
