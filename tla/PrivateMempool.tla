--------------------------- MODULE PrivateMempool ---------------------------
(***************************************************************************)
(* What the private mempool promises to the clients of its HTTP routes,    *)
(* without a lock and without an order of storage: a set of entries, one   *)
(* per txid; every request takes effect at one instant between its arrival *)
(* and its answer; the mempool_size of an answer is the size of the pool   *)
(* at a second instant, after the effect and before the answer.            *)
(***************************************************************************)
EXTENDS MempoolEntry, FiniteSets, SequencesExt

CONSTANTS Workers,      \* the threads of the HTTP server
          Entries       \* the entries clients may offer

VARIABLES pool,         \* the set of entries
          stage,        \* of each worker: idle, invoked, applied, answered
          req,          \* the request it serves
          reply         \* the answer it has prepared

vars == <<pool, stage, req, reply>>

NoRequest == [kind |-> "none"]
NoReply   == [status |-> "none"]

Requests == [kind : {"add"}, entry : Entries]
              \cup [kind : {"remove"}, txid : {e.txid : e \in Entries}]
              \cup [kind : {"list", "clear"}]

\* The answers to GET /mempool that a client may see when the pool is P.
Listings(P) ==
  {s \in SetToSeqs(P) :
     \A i, j \in DOMAIN s : i < j => FeeRate(s[i]) >= FeeRate(s[j])}

TypeOK ==
  /\ pool \subseteq Entries
  /\ stage \in [Workers -> {"idle", "invoked", "applied", "answered"}]

\* No two entries of the pool are the same transaction.
UniqueTxids == \A e, f \in pool : e.txid = f.txid => e = f

Init ==
  /\ pool = {}
  /\ stage = [w \in Workers |-> "idle"]
  /\ req = [w \in Workers |-> NoRequest]
  /\ reply = [w \in Workers |-> NoReply]

Invoke(w, r) ==
  /\ stage[w] = "idle"
  /\ stage' = [stage EXCEPT ![w] = "invoked"]
  /\ req' = [req EXCEPT ![w] = r]
  /\ UNCHANGED <<pool, reply>>

Answer(w, a) ==
  /\ stage' = [stage EXCEPT ![w] = "answered"]
  /\ reply' = [reply EXCEPT ![w] = a]
  /\ UNCHANGED req

Applied(w) ==
  /\ stage' = [stage EXCEPT ![w] = "applied"]
  /\ UNCHANGED <<req, reply>>

Serving(w, kind) == stage[w] = "invoked" /\ req[w].kind = kind

Invalid(w) ==
  /\ Serving(w, "add")
  /\ Answer(w, [status |-> "invalid"])
  /\ UNCHANGED pool

Duplicate(w) ==
  /\ Serving(w, "add")
  /\ \E e \in pool : e.txid = req[w].entry.txid
  /\ Answer(w, [status |-> "duplicate"])
  /\ UNCHANGED pool

Add(w) ==
  /\ Serving(w, "add")
  /\ \A e \in pool : e.txid # req[w].entry.txid
  /\ pool' = pool \cup {req[w].entry}
  /\ Applied(w)

RemoveFound(w) ==
  /\ Serving(w, "remove")
  /\ \E e \in pool : e.txid = req[w].txid
  /\ pool' = {e \in pool : e.txid # req[w].txid}
  /\ Applied(w)

Missing(w) ==
  /\ Serving(w, "remove")
  /\ \A e \in pool : e.txid # req[w].txid
  /\ Answer(w, [status |-> "absent"])
  /\ UNCHANGED pool

Clear(w) ==
  /\ Serving(w, "clear")
  /\ pool' = {}
  /\ Answer(w, [status |-> "ok", size |-> 0])

List(w) ==
  /\ Serving(w, "list")
  /\ \E s \in Listings(pool) : Answer(w, [status |-> "ok", listing |-> s])
  /\ UNCHANGED pool

Measure(w) ==
  /\ stage[w] = "applied"
  /\ Answer(w, [status |-> "ok", size |-> Cardinality(pool)])
  /\ UNCHANGED pool

Return(w) ==
  /\ stage[w] = "answered"
  /\ stage' = [stage EXCEPT ![w] = "idle"]
  /\ req' = [req EXCEPT ![w] = NoRequest]
  /\ reply' = [reply EXCEPT ![w] = NoReply]
  /\ UNCHANGED pool

Next ==
  \E w \in Workers :
    \/ \E r \in Requests : Invoke(w, r)
    \/ Invalid(w) \/ Duplicate(w) \/ Add(w)
    \/ RemoveFound(w) \/ Missing(w) \/ Clear(w) \/ List(w)
    \/ Measure(w) \/ Return(w)

Spec == Init /\ [][Next]_vars
=============================================================================
