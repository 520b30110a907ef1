----------------------------- MODULE ScriptCache -----------------------------
(***************************************************************************)
(* The script type cache (validation/script_cache.cpp) and the routes      *)
(* /cache-stats and /cache-clear: a map of bounded size and two counters   *)
(* under a mutex, beside a route that reads the counters without it.       *)
(*                                                                         *)
(* A thread serves one request at a time: the lookup of a script, for an   *)
(* input that validate_transaction collects; the statistics; or clear.     *)
(* The two counters are plain fields that unsynchronised code may read, so *)
(* the order in which the compiler has the route read them, or clear zero  *)
(* them, is left open.                                                     *)
(***************************************************************************)
EXTENDS ScriptType, FiniteSets

CONSTANTS Threads,        \* the threads of the server
          Scripts,        \* the scripts of the outputs that are spent
          MaxCacheSize,   \* MAX_CACHE_SIZE
          MaxLookups,     \* bound: lookups in a behaviour
          Absent, Free    \* no script or type; nobody holds the mutex

ASSUME ScriptsAssumption == Scripts \subseteq Script
ASSUME LimitAssumption == MaxCacheSize \in Nat /\ MaxLookups \in Nat
ASSUME AbsentAssumption ==
  Absent \notin Scripts /\ Absent \notin {TypeOf(s) : s \in Scripts}
ASSUME FreeAssumption == Free \notin Threads

VARIABLES cache,          \* cache_: of each script its type, or Absent
          count,          \* hits_ and misses_
          mutex,          \* mutex_: its holder, or Free
          pc,             \* where each thread stands
          asked,          \* the script it looks up
          answer,         \* the type it is answered
          left,           \* the counters it has still to read or to zero
          report,         \* what /cache-stats is going to answer
          lookups         \* history and bound: lookups counted so far

shared == <<cache, count, mutex, lookups>>
local == <<pc, asked, answer, left, report>>
vars == <<shared, local>>

Counters == {"hits", "misses"}
Cached == {s \in Scripts : cache[s] # Absent}
NoReport == [hits |-> 0, misses |-> 0, size |-> 0]

Init ==
  /\ cache = [s \in Scripts |-> Absent]
  /\ count = [k \in Counters |-> 0]
  /\ mutex = Free
  /\ pc = [t \in Threads |-> "idle"]
  /\ asked = [t \in Threads |-> Absent]
  /\ answer = [t \in Threads |-> Absent]
  /\ left = [t \in Threads |-> {}]
  /\ report = [t \in Threads |-> NoReport]
  /\ lookups = 0

Goto(t, from, to) == pc[t] = from /\ pc' = [pc EXCEPT ![t] = to]

\* Mutant: the constructor of the lock_guard is forgotten in one method.
LockUnguarded(t, from, to) ==
  /\ Goto(t, from, to)
  /\ mutex' = t

\* Each method begins with a lock_guard, which gives the mutex back at its end.
Lock(t, from, to) ==
  /\ Goto(t, from, to)
  /\ mutex = Free
  /\ mutex' = t

Unlock(t, from, to) == Goto(t, from, to) /\ mutex' = Free

-----------------------------------------------------------------------------
(* get_or_compute                                                          *)

\* Bound: lookups that may still be made.
MayLookUp ==
  lookups + Cardinality({t \in Threads : pc[t] \in {"lookup", "find"}}) < MaxLookups

LookUp(t) ==
  /\ MayLookUp
  /\ Goto(t, "idle", "lookup")
  /\ \E s \in Scripts : asked' = [asked EXCEPT ![t] = s]
  /\ UNCHANGED <<shared, answer, left, report>>

EnterLookUp(t) ==
  /\ Lock(t, "lookup", "find")
  /\ UNCHANGED <<cache, count, lookups, asked, answer, left, report>>

\* cache_.find, and the counter of what it finds.
Find(t, to, found, counter) ==
  /\ Goto(t, "find", to)
  /\ found <=> asked[t] \in Cached
  /\ count' = [count EXCEPT ![counter] = @ + 1]
  /\ lookups' = lookups + 1
  /\ UNCHANGED <<cache, mutex, asked, answer, left, report>>

Hit(t) == Find(t, "found", TRUE, "hits")

\* Mutant: what is stored is looked up again, and counted again.
MissThenHit(t) ==
  /\ Goto(t, "find", "compute")
  /\ asked[t] \notin Cached
  /\ count' = [k \in Counters |-> count[k] + 1]
  /\ lookups' = lookups + 1
  /\ UNCHANGED <<cache, mutex, asked, answer, left, report>>

Miss(t) == Find(t, "compute", FALSE, "misses")

\* The value the iterator points to.
ReturnFound(t) ==
  /\ Unlock(t, "found", "answered")
  /\ answer' = [answer EXCEPT ![t] = cache[asked[t]]]
  /\ UNCHANGED <<cache, count, lookups, asked, left, report>>

\* Mutant: the limit is off by one.
RoomAtLimit == Cardinality(Cached) <= MaxCacheSize

Room == Cardinality(Cached) < MaxCacheSize

\* The type is computed, stored if there is room, and returned.
Compute(t) ==
  /\ Unlock(t, "compute", "answered")
  /\ cache' = IF Room THEN [cache EXCEPT ![asked[t]] = TypeOf(asked[t])] ELSE cache
  /\ answer' = [answer EXCEPT ![t] = TypeOf(asked[t])]
  /\ UNCHANGED <<count, lookups, asked, left, report>>

-----------------------------------------------------------------------------
(* POST /cache-clear                                                       *)

AskClear(t) ==
  /\ Goto(t, "idle", "clear")
  /\ UNCHANGED <<shared, asked, answer, left, report>>

EnterClear(t) ==
  /\ Lock(t, "clear", "zero")
  /\ cache' = [s \in Scripts |-> Absent]
  /\ left' = [left EXCEPT ![t] = Counters]
  /\ UNCHANGED <<count, lookups, asked, answer, report>>

\* Mutant: the misses are forgotten.
ZeroHits(t) ==
  /\ pc[t] = "zero"
  /\ \E k \in left[t] :
       /\ left' = [left EXCEPT ![t] = @ \ {k}]
       /\ count' = [count EXCEPT !["hits"] = 0]
  /\ UNCHANGED <<cache, mutex, lookups, pc, asked, answer, report>>

Zero(t) ==
  /\ pc[t] = "zero"
  /\ \E k \in left[t] :
       /\ left' = [left EXCEPT ![t] = @ \ {k}]
       /\ count' = [count EXCEPT ![k] = 0]
  /\ UNCHANGED <<cache, mutex, lookups, pc, asked, answer, report>>

LeaveClear(t) ==
  /\ left[t] = {}
  /\ Unlock(t, "zero", "idle")
  /\ UNCHANGED <<cache, count, lookups, asked, answer, left, report>>

-----------------------------------------------------------------------------
(* GET /cache-stats                                                        *)

AskStats(t) ==
  /\ Goto(t, "idle", "stats")
  /\ left' = [left EXCEPT ![t] = Counters]
  /\ UNCHANGED <<shared, asked, answer, report>>

\* get_hits and get_misses, without the mutex.
Read(t) ==
  /\ pc[t] = "stats"
  /\ \E k \in left[t] :
       /\ left' = [left EXCEPT ![t] = @ \ {k}]
       /\ report' = [report EXCEPT ![t][k] = count[k]]
  /\ UNCHANGED <<shared, pc, asked, answer>>

\* get_size, with it.
EnterSize(t) ==
  /\ left[t] = {}
  /\ Lock(t, "stats", "size")
  /\ UNCHANGED <<cache, count, lookups, asked, answer, left, report>>

ReadSize(t) ==
  /\ Unlock(t, "size", "reported")
  /\ report' = [report EXCEPT ![t].size = Cardinality(Cached)]
  /\ UNCHANGED <<cache, count, lookups, asked, answer, left>>

\* The caller goes on with the answer, or the response leaves.
Return(t) ==
  /\ pc[t] \in {"answered", "reported"}
  /\ pc' = [pc EXCEPT ![t] = "idle"]
  /\ asked' = [asked EXCEPT ![t] = Absent]
  /\ answer' = [answer EXCEPT ![t] = Absent]
  /\ report' = [report EXCEPT ![t] = NoReport]
  /\ UNCHANGED <<shared, left>>

-----------------------------------------------------------------------------
Enter(t) == EnterLookUp(t) \/ EnterClear(t) \/ EnterSize(t)

Step(t) ==
  \/ Hit(t) \/ Miss(t) \/ ReturnFound(t) \/ Compute(t)
  \/ Zero(t) \/ LeaveClear(t)
  \/ Read(t) \/ ReadSize(t) \/ Return(t)

Next ==
  \E t \in Threads :
    LookUp(t) \/ AskClear(t) \/ AskStats(t) \/ Enter(t) \/ Step(t)

Spec == Init /\ [][Next]_vars
-----------------------------------------------------------------------------
(* Properties                                                              *)

Stages == {"idle", "lookup", "find", "found", "compute", "answered", "clear",
           "zero", "stats", "size", "reported"}

TypeOK ==
  /\ cache \in [Scripts -> {TypeOf(s) : s \in Scripts} \cup {Absent}]
  /\ count \in [Counters -> Nat]
  /\ mutex \in Threads \cup {Free}
  /\ pc \in [Threads -> Stages]
  /\ asked \in [Threads -> Scripts \cup {Absent}]
  /\ answer \in [Threads -> {TypeOf(s) : s \in Scripts} \cup {Absent}]
  /\ left \in [Threads -> SUBSET Counters]
  /\ report \in [Threads -> [hits : Nat, misses : Nat, size : Nat]]
  /\ lookups \in Nat

Inside == {"find", "found", "compute", "zero", "size"}

\* A thread is inside a method exactly when it holds the mutex.
LockHeld == \A t \in Threads : pc[t] \in Inside <=> mutex = t

\* Where a thread that looks up a script stands.
LookUpInPlace(t) ==
  /\ asked[t] # Absent <=> pc[t] \in {"lookup", "find", "found", "compute", "answered"}
  /\ answer[t] # Absent <=> pc[t] = "answered"
  /\ pc[t] = "found" => asked[t] \in Cached
  /\ pc[t] = "compute" => asked[t] \notin Cached

\* What is cached is the type of its script.
CacheRight == \A s \in Cached : cache[s] = TypeOf(s)

\* The cache never grows beyond its limit.
WithinLimit == IsFiniteSet(Cached) /\ Cardinality(Cached) <= MaxCacheSize

\* n misses account for what is cached: each entry comes from one, and while
\* there is room each one has left an entry.
Accounts(n) ==
  /\ n >= Cardinality(Cached)
  /\ Room => n = Cardinality(Cached)

\* While nobody is in a method, the statistics tell the cache: no two threads
\* miss on one script, unless it was cleared in between or found no room.
MissesMatchSize == mutex = Free => Accounts(count["misses"])

\* ... and while somebody is: the miss whose entry is computed comes on top,
\* and clear empties the map before it zeroes the counters.
MissesAccounted ==
  /\ MissesMatchSize
  /\ \A t \in Threads :
       /\ pc[t] \in {"find", "found", "size"} => Accounts(count["misses"])
       /\ pc[t] = "compute" => Accounts(count["misses"] - 1)
       /\ pc[t] = "zero" =>
            Cached = {} /\ ("misses" \in left[t] \/ count["misses"] = 0)

\* Although it reads the counters one at a time and without the mutex, a
\* report never counts more lookups than were made: none twice, as a hit and
\* as a miss.
NeverOverreports ==
  \A t \in Threads : report[t].hits + report[t].misses <= lookups

\* What a report has read, and what it has still to read, are lookups.
ReadsAreLookups ==
  /\ count["hits"] + count["misses"] <= lookups
  /\ \A t \in Threads :
       /\ pc[t] \notin {"stats", "size", "reported"} => report[t] = NoReport
       /\ pc[t] = "stats" =>
            /\ "hits" \in left[t] =>
                 report[t].hits = 0 /\ count["hits"] + report[t].misses <= lookups
            /\ "misses" \in left[t] =>
                 report[t].misses = 0 /\ report[t].hits + count["misses"] <= lookups

\* The inductive invariant.
IInv ==
  /\ TypeOK /\ LockHeld /\ CacheRight /\ WithinLimit
  /\ \A t \in Threads : LookUpInPlace(t)
  /\ MissesAccounted
  /\ ReadsAreLookups /\ NeverOverreports

\* The abstract specification: the threads that look up a script ask the
\* oracle, the others are idle for it.
Oracle == INSTANCE TypeOracle WITH Type <- [s \in Scripts |-> TypeOf(s)]

\* Every lookup answers the type of its script, whatever is cached, cleared,
\* full or counted meanwhile.
OracleKept == Oracle!Spec
=============================================================================
