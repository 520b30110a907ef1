------------------------------- MODULE Mempool -------------------------------
(***************************************************************************)
(* The private mempool (mempool/mempool.cpp) and the four routes that use  *)
(* it (register_mempool_routes in api/routes.cpp).                         *)
(*                                                                         *)
(* Crow serves requests on several threads.  A handler runs validation     *)
(* (module Validator; here it passes or throws), then calls one method of  *)
(* g_mempool, then for two of the routes a second one, size(), to fill the *)
(* mempool_size of its answer.  Every method holds the mutex for its whole *)
(* body; add() is two steps under it, the scan for the txid and the        *)
(* insertion.  The multiset is the sequence of its entries in iteration    *)
(* order.                                                                  *)
(***************************************************************************)
EXTENDS MempoolEntry, SequencesExt

CONSTANTS Workers,      \* the threads of the HTTP server
          Entries,      \* the entries clients may offer
          Free          \* the value of a mutex nobody holds

ASSUME EntriesAssumption == Entries \subseteq MempoolEntryType
ASSUME FreeAssumption == Free \notin Workers

VARIABLES entries,      \* Mempool::entries_, in iteration order
          mutex,        \* Mempool::mutex_: its holder, or Free
          pc,           \* where each worker's handler stands
          method,       \* the method of g_mempool it calls or runs
          req,          \* the request it serves
          reply         \* the answer it has prepared

vars == <<entries, mutex, pc, method, req, reply>>

NoRequest == [kind |-> "none"]
NoReply   == [status |-> "none"]

Requests == [kind : {"add"}, entry : Entries]
              \cup [kind : {"remove"}, txid : {e.txid : e \in Entries}]
              \cup [kind : {"list", "clear"}]

Replies == [status : {"none", "invalid", "duplicate", "absent"}]
             \cup [status : {"ok"}, size : Nat]
             \cup [status : {"ok"}, listing : Seq(Entries)]

Methods == {"none", "add", "remove", "get_all", "clear", "size"}
Stages  == {"idle", "validating", "calling", "locked", "inserting", "replying"}

Pool == ToSet(entries)

\* Membership by txid: the scans of add() and remove().
HasTxid(s, t) == \E i \in DOMAIN s : s[i].txid = t

Init ==
  /\ entries = <<>>
  /\ mutex = Free
  /\ pc = [w \in Workers |-> "idle"]
  /\ method = [w \in Workers |-> "none"]
  /\ req = [w \in Workers |-> NoRequest]
  /\ reply = [w \in Workers |-> NoReply]

-----------------------------------------------------------------------------
(* Steps of a handler outside the mempool                                  *)

Goto(w, stage, m) ==
  /\ pc' = [pc EXCEPT ![w] = stage]
  /\ method' = [method EXCEPT ![w] = m]

Answer(w, a) ==
  /\ Goto(w, "replying", "none")
  /\ reply' = [reply EXCEPT ![w] = a]
  /\ UNCHANGED req

\* A request arrives: an add is validated first, the others go straight to
\* their method.
Receive(w, r) ==
  /\ pc[w] = "idle"
  /\ req' = [req EXCEPT ![w] = r]
  /\ CASE r.kind = "add"    -> Goto(w, "validating", "add")
       [] r.kind = "remove" -> Goto(w, "calling", "remove")
       [] r.kind = "list"   -> Goto(w, "calling", "get_all")
       [] r.kind = "clear"  -> Goto(w, "calling", "clear")
  /\ UNCHANGED <<entries, mutex, reply>>

\* validate_transaction throws: 400, and the pool is not called.
Reject(w) ==
  /\ pc[w] = "validating"
  /\ Answer(w, [status |-> "invalid"])
  /\ UNCHANGED <<entries, mutex>>

\* validate_transaction returns: the handler calls add().
Validated(w) ==
  /\ pc[w] = "validating"
  /\ Goto(w, "calling", "add")
  /\ UNCHANGED <<entries, mutex, req, reply>>

\* The response is sent and the worker is free for another request.
Respond(w) ==
  /\ pc[w] = "replying"
  /\ Goto(w, "idle", "none")
  /\ req' = [req EXCEPT ![w] = NoRequest]
  /\ reply' = [reply EXCEPT ![w] = NoReply]
  /\ UNCHANGED <<entries, mutex>>

-----------------------------------------------------------------------------
(* The methods of Mempool                                                  *)

\* Mutant: a method does not wait for the mutex.
LockUnguarded(w) ==
  /\ pc[w] = "calling"
  /\ mutex' = w
  /\ pc' = [pc EXCEPT ![w] = "locked"]
  /\ UNCHANGED <<entries, method, req, reply>>

\* std::lock_guard at the head of every method.
Lock(w) ==
  /\ pc[w] = "calling"
  /\ mutex = Free
  /\ mutex' = w
  /\ pc' = [pc EXCEPT ![w] = "locked"]
  /\ UNCHANGED <<entries, method, req, reply>>

Running(w, m) == pc[w] = "locked" /\ method[w] = m

Unlock == mutex' = Free

\* Mutant: unlocking is an explicit call, which the exception skips.
AddDuplicateKeepsLock(w) ==
  /\ Running(w, "add")
  /\ HasTxid(entries, req[w].entry.txid)
  /\ Answer(w, [status |-> "duplicate"])
  /\ UNCHANGED <<entries, mutex>>

\* Mutant: the stored witness is replaced before the exception is thrown.
AddDuplicateReplaces(w) ==
  /\ Running(w, "add")
  /\ HasTxid(entries, req[w].entry.txid)
  /\ entries' = [i \in DOMAIN entries |->
                   IF entries[i].txid = req[w].entry.txid
                   THEN req[w].entry ELSE entries[i]]
  /\ Unlock
  /\ Answer(w, [status |-> "duplicate"])

\* add(): the txid is there; it throws, the guard unlocks, the route says 400.
AddDuplicate(w) ==
  /\ Running(w, "add")
  /\ HasTxid(entries, req[w].entry.txid)
  /\ Unlock
  /\ Answer(w, [status |-> "duplicate"])
  /\ UNCHANGED entries

\* Mutant: the scan and the insertion are two critical sections.
AddScanUnlocks(w) ==
  /\ Running(w, "add")
  /\ ~ HasTxid(entries, req[w].entry.txid)
  /\ pc' = [pc EXCEPT ![w] = "inserting"]
  /\ Unlock
  /\ UNCHANGED <<entries, method, req, reply>>

\* add(): the scan finds no such txid.
AddScan(w) ==
  /\ Running(w, "add")
  /\ ~ HasTxid(entries, req[w].entry.txid)
  /\ pc' = [pc EXCEPT ![w] = "inserting"]
  /\ UNCHANGED <<entries, mutex, method, req, reply>>

\* Where multiset::insert puts e: after everything not ordered after it.
UpperBound(s, e, p) ==
  /\ \A i \in 1 .. p - 1 : ~ Before(e, s[i])
  /\ \A i \in p .. Len(s) : Before(e, s[i])

\* add(): the insertion; the route goes on to ask for the size.
AddInsert(w) ==
  /\ pc[w] = "inserting"
  /\ \E p \in 1 .. Len(entries) + 1 :
       /\ UpperBound(entries, req[w].entry, p)
       /\ entries' = InsertAt(entries, p, req[w].entry)
  /\ Unlock
  /\ Goto(w, "calling", "size")
  /\ UNCHANGED <<req, reply>>

\* remove(): erases the first entry of the txid; the route asks for the size.
RemoveFound(w) ==
  /\ Running(w, "remove")
  /\ \E p \in DOMAIN entries :
       /\ entries[p].txid = req[w].txid
       /\ ~ HasTxid(SubSeq(entries, 1, p - 1), req[w].txid)
       /\ entries' = RemoveAt(entries, p)
  /\ Unlock
  /\ Goto(w, "calling", "size")
  /\ UNCHANGED <<req, reply>>

\* Mutant: unlocking is an explicit call, which this return skips.
RemoveAbsentKeepsLock(w) ==
  /\ Running(w, "remove")
  /\ ~ HasTxid(entries, req[w].txid)
  /\ Answer(w, [status |-> "absent"])
  /\ UNCHANGED <<entries, mutex>>

\* remove() returns false: 404.
RemoveAbsent(w) ==
  /\ Running(w, "remove")
  /\ ~ HasTxid(entries, req[w].txid)
  /\ Unlock
  /\ Answer(w, [status |-> "absent"])
  /\ UNCHANGED entries

\* clear(); the route answers a size of 0 without asking.
Clear(w) ==
  /\ Running(w, "clear")
  /\ entries' = <<>>
  /\ Unlock
  /\ Answer(w, [status |-> "ok", size |-> 0])

\* get_all(): a copy of the multiset.
GetAll(w) ==
  /\ Running(w, "get_all")
  /\ Unlock
  /\ Answer(w, [status |-> "ok", listing |-> entries])
  /\ UNCHANGED entries

\* size(), the second acquisition of the mutex by one handler.
Size(w) ==
  /\ Running(w, "size")
  /\ Unlock
  /\ Answer(w, [status |-> "ok", size |-> Len(entries)])
  /\ UNCHANGED entries

-----------------------------------------------------------------------------
Body(w) ==
  \/ AddDuplicate(w) \/ AddScan(w) \/ AddInsert(w)
  \/ RemoveFound(w) \/ RemoveAbsent(w) \/ Clear(w) \/ GetAll(w) \/ Size(w)

Arrive == \E w \in Workers, r \in Requests : Receive(w, r)

Next ==
  \/ Arrive
  \/ \E w \in Workers :
       Reject(w) \/ Validated(w) \/ Lock(w) \/ Body(w) \/ Respond(w)

Spec == Init /\ [][Next]_vars

\* A thread that can run runs: validation ends (its RPCs have a timeout), a
\* method ends, an answer is sent.  std::mutex is not fair to a given waiter;
\* it only promises that a free mutex somebody waits for is taken.
Fairness ==
  /\ \A w \in Workers :
       /\ WF_vars(Reject(w) \/ Validated(w))
       /\ WF_vars(Body(w))
       /\ WF_vars(Respond(w))
  /\ WF_vars(\E w \in Workers : Lock(w))

FairSpec == Spec /\ Fairness
-----------------------------------------------------------------------------
(* Properties                                                              *)

TypeOK ==
  /\ entries \in Seq(Entries)
  /\ mutex \in Workers \cup {Free}
  /\ pc \in [Workers -> Stages]
  /\ method \in [Workers -> Methods]
  /\ req \in [Workers -> Requests \cup {NoRequest}]
  /\ reply \in [Workers -> Replies]

\* No transaction is in the private mempool twice, whatever adds of the same
\* txid (with the same or another witness) run at the same time: add() checks
\* and inserts under one lock.
UniqueTxids ==
  \A i, j \in DOMAIN entries : entries[i].txid = entries[j].txid => i = j

\* Iterating the pool never meets a fee rate higher than an earlier one: the
\* order GET /mempool and the block builder rely on.
SortedByFeeRate ==
  \A i, j \in DOMAIN entries :
    i < j => FeeRate(entries[i]) >= FeeRate(entries[j])

\* Whoever runs the body of a method holds the mutex.
LockHeld ==
  \A w \in Workers : pc[w] \in {"locked", "inserting"} <=> mutex = w

\* The request, the method and the place of a handler agree.
MethodOfRequest ==
  \A w \in Workers :
    /\ method[w] = "add" => req[w] \in [kind : {"add"}, entry : Entries]
    /\ pc[w] \in {"validating", "inserting"} => method[w] = "add"

\* A worker about to insert knows that its txid is still absent.
ScanStillTrue ==
  \A w \in Workers :
    pc[w] = "inserting" => ~ HasTxid(entries, req[w].entry.txid)

\* The inductive invariant behind UniqueTxids and SortedByFeeRate.
IInv ==
  /\ TypeOK
  /\ LockHeld
  /\ MethodOfRequest
  /\ ScanStillTrue
  /\ UniqueTxids
  /\ SortedByFeeRate

\* How far a handler has got, for the client: on its way to size(), its request
\* has taken effect.
StageOf(stage, m) ==
  IF stage = "idle" THEN "idle"
  ELSE IF stage = "replying" THEN "answered"
  ELSE IF m = "size" THEN "applied" ELSE "invoked"

PromiseStage == [w \in Workers |-> StageOf(pc[w], method[w])]

\* The routes keep the promise of PrivateMempool: each request takes effect
\* at one instant, listings are snapshots, a refused add changes nothing and
\* an add is refused as a duplicate only if its txid is there.
Promise == INSTANCE PrivateMempool WITH pool <- Pool, stage <- PromiseStage

PromiseKept == Promise!Spec

\* Whoever takes the mutex gives it back, on the paths that throw too.
LockReleased == \A w \in Workers : mutex = w ~> mutex # w

\* If requests stop arriving, every one that arrived is answered: no handler
\* waits for ever for the mutex of another.
Drains ==
  []<><<Arrive>>_vars \/ <>[](\A w \in Workers : pc[w] = "idle")
=============================================================================
