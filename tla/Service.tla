------------------------------- MODULE Service -------------------------------
(***************************************************************************)
(* The server as its clients see it: validate_transaction (Validator) in   *)
(* the handlers of POST /verify and POST /mempool/add (api/routes.cpp),    *)
(* the latter of which makes of its result the entry that it adds to the   *)
(* private mempool (Mempool), beside the handlers of the other /mempool    *)
(* routes and of /parallel-config.                                         *)
(*                                                                         *)
(* Mempool models a validation by two steps, and lets an add bring its fee *)
(* along; here the validation is that of Validator, and the fee is what it *)
(* returns.                                                                *)
(***************************************************************************)
EXTENDS Validator

CONSTANTS Txid, TxSize,     \* of each transaction; two may be one transaction
                            \* with two witnesses
          RateScale, Free   \* of Mempool

ASSUME TxidAssumption == Txid \in [Txs -> Int] /\ TxSize \in [Txs -> Nat \ {0}]

VARIABLES entries, mutex,   \* g_mempool
          stage,            \* where the handler of each thread stands
          method,           \* the method of g_mempool it calls or runs
          req,              \* the request it serves
          reply             \* the answer it has prepared

poolVars == <<entries, mutex, stage, method, req, reply>>

EntryOf(t, fee) == [txid |-> Txid[t], fee |-> fee, size |-> TxSize[t]]

Offered == {EntryOf(t, Unspent(t)) : t \in Txs}

Pool == INSTANCE Mempool WITH Workers <- Callers, Entries <- Offered, pc <- stage

NoEntry == [txid |-> 0, fee |-> 0, size |-> 0]

ServiceInit == Init /\ Pool!Init

\* A request with a transaction arrives, and validation begins.
ReceiveTx(w, kind, at, m) ==
  /\ stage[w] = "idle"
  /\ Begin(w)
  /\ Pool!Goto(w, at, m)
  /\ req' = [req EXCEPT ![w] = [kind |-> kind, tx |-> tx'[w], entry |-> NoEntry]]
  /\ UNCHANGED <<entries, mutex, reply>>

ReceiveVerify(w) == ReceiveTx(w, "verify", "verifying", "none")
ReceiveAdd(w) == ReceiveTx(w, "add", "validating", "add")

\* POST /verify answers what validate_transaction returns or throws.
Answered(w) ==
  /\ stage[w] = "verifying"
  /\ Return(w)
  /\ Pool!Goto(w, "idle", "none")
  /\ req' = [req EXCEPT ![w] = Pool!NoRequest]
  /\ UNCHANGED <<entries, mutex, reply>>

\* Mutant: the exception is logged, and the entry made of an empty result.
RefusedLogged(w) ==
  /\ stage[w] = "validating"
  /\ outcome[w].kind \in {"failed", "error"}
  /\ Return(w)
  /\ req' = [req EXCEPT ![w].entry = EntryOf(req[w].tx, 0)]
  /\ Pool!Goto(w, "calling", "add")
  /\ UNCHANGED <<entries, mutex, reply>>

\* validate_transaction throws.
Refused(w) ==
  /\ stage[w] = "validating"
  /\ outcome[w].kind \in {"failed", "error"}
  /\ Return(w)
  /\ Pool!Goto(w, "replying", "none")
  /\ reply' = [reply EXCEPT ![w] = [status |-> "invalid"]]
  /\ UNCHANGED <<entries, mutex, req>>

\* Mutant: the entry is made of the amounts that went in.
AcceptedGross(w) ==
  /\ stage[w] = "validating"
  /\ outcome[w].kind = "fee"
  /\ Return(w)
  /\ req' = [req EXCEPT ![w].entry = EntryOf(req[w].tx, outcome[w].fee + req[w].tx.out)]
  /\ Pool!Goto(w, "calling", "add")
  /\ UNCHANGED <<entries, mutex, reply>>

\* It returns: the entry, and add().
Accepted(w) ==
  /\ stage[w] = "validating"
  /\ outcome[w].kind = "fee"
  /\ Return(w)
  /\ req' = [req EXCEPT ![w].entry = EntryOf(req[w].tx, outcome[w].fee)]
  /\ Pool!Goto(w, "calling", "add")
  /\ UNCHANGED <<entries, mutex, reply>>

Receive(w) == \E r \in Pool!Requests : r.kind # "add" /\ Pool!Receive(w, r)

\* validate_transaction up to its return.
Validating(w) == pc[w] # "done" /\ Step(w)

Returned(w) == Answered(w) \/ Refused(w) \/ Accepted(w)

ServiceNext ==
  \/ \E w \in Callers : ReceiveVerify(w) \/ ReceiveAdd(w) \/ Returned(w)
  \/ /\ \E w \in Callers : Validating(w) \/ Task(w)
     /\ UNCHANGED poolVars
  \/ /\ \E w \in Callers :
          Receive(w) \/ Pool!Lock(w) \/ Pool!Body(w) \/ Pool!Respond(w)
     /\ UNCHANGED vars
  \/ \E a \in Admins : AdminStep(a) /\ UNCHANGED <<callVars, poolVars>>

serviceVars == <<vars, poolVars>>
ServiceSpec == ServiceInit /\ [][ServiceNext]_serviceVars

\* The fairness of Validator and of Mempool, without the latter's assumption
\* that a validation ends.
FairServiceSpec ==
  /\ ServiceSpec
  /\ \A w \in Callers :
       /\ WF_serviceVars(Validating(w) /\ UNCHANGED poolVars)
       /\ WF_serviceVars(Task(w) /\ UNCHANGED poolVars)
       /\ WF_serviceVars(Returned(w))
       /\ WF_serviceVars(Pool!Body(w) /\ UNCHANGED vars)
       /\ WF_serviceVars(Pool!Respond(w) /\ UNCHANGED vars)
  /\ WF_serviceVars((\E w \in Callers : Pool!Lock(w)) /\ UNCHANGED vars)
-----------------------------------------------------------------------------
(* Properties                                                              *)

Passes(t) == \A i \in DOMAIN t.ins : t.ins[i].valid /\ t.ins[i].prevout # "unknown"

Passing == {t \in Txs : Passes(t)}
Vetted == {EntryOf(t, Unspent(t)) : t \in Passing}

\* The private mempool has only transactions, with their own witnesses, whose
\* inputs the node knew and the scripts passed, at the fee they pay: whichever
\* validations run beside one another and in whichever mode.
OnlyValidated == ToSet(entries) \subseteq Vetted

AddRequests ==
  {[kind |-> "add", tx |-> t, entry |-> EntryOf(t, Unspent(t))] : t \in Passing}

\* The request, the call and the method of a handler agree.
HandlerOfCall(w) ==
  /\ stage[w] = "idle" => method[w] = "none" /\ req[w] = Pool!NoRequest
  /\ stage[w] = "verifying" => method[w] = "none" /\ req[w].kind = "verify"
  /\ stage[w] = "validating" =>
       tx[w] \in Txs /\ req[w] = [kind |-> "add", tx |-> tx[w], entry |-> NoEntry]
  /\ stage[w] = "inserting" => method[w] = "add"
  /\ method[w] = "add" /\ stage[w] # "validating" => req[w] \in AddRequests
  /\ method[w] = "remove" => req[w].kind = "remove"

\* The invariant by which OnlyValidated and ServesMempool are proved
\* (ServiceProofs).
ServiceInv ==
  /\ IInv
  /\ entries \in Seq(Vetted)
  /\ stage = [w \in Callers |-> stage[w]]
  /\ method = [w \in Callers |-> method[w]]
  /\ req = [w \in Callers |-> req[w]]
  /\ \A w \in Callers : HandlerOfCall(w)

\* What a handler is to Mempool, which has no POST /verify: while a transaction
\* is only verified, nothing happens; an add brings the fee that it pays.
HandlerStage == [w \in Callers |-> IF stage[w] = "verifying" THEN "idle" ELSE stage[w]]

HandlerReq ==
  [w \in Callers |->
     CASE req[w].kind = "verify" -> Pool!NoRequest
       [] req[w].kind = "add" ->
            [kind |-> "add", entry |-> EntryOf(req[w].tx, Unspent(req[w].tx))]
       [] OTHER -> req[w]]

\* What is said of Mempool holds of the server: a validation and the making of
\* the entry are what its two steps stand for.
AsMempool ==
  INSTANCE Mempool WITH
    Workers <- Callers, Entries <- Offered, pc <- HandlerStage, req <- HandlerReq

ServesMempool == AsMempool!Spec

\* Every request with a transaction leaves its validation, which Mempool
\* assumes of it.
ValidationsEnd ==
  \A w \in Callers :
    stage[w] \in {"verifying", "validating"} ~> stage[w] \notin {"verifying", "validating"}
=============================================================================
