---------------------------- MODULE ServiceProofs ----------------------------
(***************************************************************************)
(* Proof that the private mempool has only what a validation passed, at    *)
(* the fee it pays, for any threads, administrators and transactions.      *)
(***************************************************************************)
EXTENDS Service, ValidatorProofs

-----------------------------------------------------------------------------
(* The call of validate_transaction                                        *)

\* A call that goes on does not change its transaction.
LEMMA TxKept ==
  ASSUME NEW c, Validating(c) \/ Task(c) PROVE tx' = tx
<1>1. CASE Task(c)
  BY <1>1 DEF Task, TaskEnds
<1>2. CASE Validating(c)
  <2>1. ~ Return(c)
    BY <1>2 DEF Validating, Return
  <2> QED
    BY <1>2, <2>1 DEF Validating, Step, TxoutFound, RawFound, Collected, TxoutNull,
       RpcFails, Decide, CountParallel, CountParallelInputs, CountSequential,
       CountSequentialInputs, Counting, VerifyNext, Launch, LaunchFails, Unwind,
       Get, Report, ComputeFee
<1> QED
  BY <1>1, <1>2

\* A fee is of a transaction that passes, and is what it does not spend.
LEMMA FeeOfPassed ==
  ASSUME IInv, NEW c \in Callers, outcome[c].kind = "fee"
  PROVE  Passes(tx[c]) /\ outcome[c].fee = Unspent(tx[c])
<1>1. AllValid(c) /\ FeeFromKnownInputs
  BY FeeOfInputs DEF IInv, VerdictIsFirstFailure
<1> QED
  BY <1>1 DEF FeeFromKnownInputs, Passes, AllValid, Ins

-----------------------------------------------------------------------------
(* The private mempool                                                     *)

\* An insertion and a removal add nothing but the entry.
LEMMA InsertKeeps ==
  ASSUME NEW S, NEW s \in Seq(S), NEW p \in 1 .. Len(s) + 1, NEW e \in S
  PROVE  Pool!InsertAt(s, p, e) \in Seq(S)
<1>0. Len(s) \in Nat
  BY LenProperties
<1>1. SubSeq(s, 1, p - 1) \in Seq(S) /\ SubSeq(s, p, Len(s)) \in Seq(S)
  BY <1>0
<1> QED
  BY <1>1 DEF Pool!InsertAt

LEMMA RemoveKeeps ==
  ASSUME NEW S, NEW s \in Seq(S), NEW p \in DOMAIN s
  PROVE  Pool!RemoveAt(s, p) \in Seq(S)
<1>0. Len(s) \in Nat /\ p \in 1 .. Len(s)
  BY LenProperties
<1>1. SubSeq(s, 1, p - 1) \in Seq(S) /\ SubSeq(s, p + 1, Len(s)) \in Seq(S)
  BY <1>0
<1> QED
  BY <1>1 DEF Pool!RemoveAt

\* The variables of the handlers.
HandlersTyped ==
  /\ entries \in Seq(Vetted)
  /\ stage = [w \in Callers |-> stage[w]]
  /\ method = [w \in Callers |-> method[w]]
  /\ req = [w \in Callers |-> req[w]]
  /\ \A w \in Callers : HandlerOfCall(w)

\* What a method of the private mempool does with what it has.
LEMMA BodyKeeps ==
  ASSUME HandlersTyped, NEW w \in Callers, Pool!Body(w), UNCHANGED vars
  PROVE  HandlersTyped'
<1> USE DEF HandlersTyped, HandlerOfCall, Pool!Goto, Pool!Answer, Pool!Running
<1>1. tx' = tx
  BY DEF vars, callVars
<1>2. CASE Pool!AddDuplicate(w)
  BY <1>1, <1>2 DEF Pool!AddDuplicate
<1>3. CASE Pool!AddScan(w)
  BY <1>1, <1>3 DEF Pool!AddScan
<1>4. CASE Pool!AddInsert(w)
  <2>1. req[w].entry \in Vetted
    BY <1>4 DEF Pool!AddInsert, AddRequests, Vetted
  <2>2. entries' \in Seq(Vetted)
    BY <1>4, <2>1, InsertKeeps DEF Pool!AddInsert
  <2> QED
    BY <1>1, <1>4, <2>2 DEF Pool!AddInsert
<1>5. CASE Pool!RemoveFound(w)
  <2>1. entries' \in Seq(Vetted)
    BY <1>5, RemoveKeeps DEF Pool!RemoveFound
  <2> QED
    BY <1>1, <1>5, <2>1 DEF Pool!RemoveFound
<1>6. CASE Pool!RemoveAbsent(w)
  BY <1>1, <1>6 DEF Pool!RemoveAbsent
<1>7. CASE Pool!Clear(w)
  <2>1. entries' \in Seq(Vetted)
    BY <1>7 DEF Pool!Clear
  <2> QED
    BY <1>1, <1>7, <2>1 DEF Pool!Clear
<1>8. CASE Pool!GetAll(w) \/ Pool!Size(w)
  BY <1>1, <1>8 DEF Pool!GetAll, Pool!Size
<1> QED
  BY <1>2, <1>3, <1>4, <1>5, <1>6, <1>7, <1>8 DEF Pool!Body

\* The steps of a handler that are neither of validation nor in the mempool.
LEMMA RouteKeeps ==
  ASSUME HandlersTyped, NEW w \in Callers, UNCHANGED vars,
         Receive(w) \/ Pool!Lock(w) \/ Pool!Respond(w)
  PROVE  HandlersTyped'
<1> USE DEF HandlersTyped, HandlerOfCall, Pool!Goto
<1>1. tx' = tx
  BY DEF vars, callVars
<1>2. CASE Receive(w)
  <2>1. PICK r \in Pool!Requests : r.kind # "add" /\ Pool!Receive(w, r)
    BY <1>2 DEF Receive
  <2>2. PICK m \in {"remove", "get_all", "clear"} :
          /\ stage' = [stage EXCEPT ![w] = "calling"]
          /\ method' = [method EXCEPT ![w] = m]
          /\ m = "remove" => r.kind = "remove"
    BY <2>1 DEF Pool!Receive, Pool!Requests
  <2>3. req' = [req EXCEPT ![w] = r] /\ entries' = entries
    BY <2>1 DEF Pool!Receive
  <2>4. HandlerOfCall(w)'
    BY <2>2, <2>3
  <2>5. \A v \in Callers : v # w => HandlerOfCall(v)'
    BY <1>1, <2>2, <2>3
  <2> QED
    BY <2>2, <2>3, <2>4, <2>5
<1>3. CASE Pool!Lock(w)
  BY <1>1, <1>3 DEF Pool!Lock
<1>4. CASE Pool!Respond(w)
  BY <1>1, <1>4 DEF Pool!Respond
<1> QED
  BY <1>2, <1>3, <1>4

\* Where a validation begins and where it returns to its handler.
LEMMA CallKeeps ==
  ASSUME HandlersTyped, IInv, NEW w \in Callers,
         ReceiveVerify(w) \/ ReceiveAdd(w) \/ Returned(w)
  PROVE  HandlersTyped'
<1> USE DEF HandlersTyped, HandlerOfCall, Pool!Goto
<1>0. tx = [c \in Callers |-> tx[c]]
  BY DEF IInv, TypeOK
<1>1. CASE ReceiveVerify(w) \/ ReceiveAdd(w)
  <2>1. PICK t \in Txs : tx' = [tx EXCEPT ![w] = t]
    BY <1>1 DEF ReceiveVerify, ReceiveAdd, ReceiveTx, Begin
  <2> QED
    BY <1>0, <1>1, <2>1 DEF ReceiveVerify, ReceiveAdd, ReceiveTx
<1>2. CASE Answered(w)
  BY <1>0, <1>2 DEF Answered, Return
<1>3. CASE Refused(w)
  BY <1>0, <1>3 DEF Refused, Return
<1>4. CASE Accepted(w)
  <2>1. Passes(tx[w]) /\ outcome[w].fee = Unspent(tx[w])
    BY <1>4, FeeOfPassed DEF Accepted
  <2>2. /\ tx[w] \in Txs
        /\ req[w] = [kind |-> "add", tx |-> tx[w], entry |-> NoEntry]
    BY <1>4 DEF Accepted
  <2>3. [kind |-> "add", tx |-> tx[w], entry |-> EntryOf(tx[w], outcome[w].fee)]
           \in AddRequests
    BY <2>1, <2>2 DEF AddRequests, Passing
  <2>4. req' = [req EXCEPT ![w].entry = EntryOf(req[w].tx, outcome[w].fee)]
    BY <1>4 DEF Accepted
  <2>5. req'[w] = [kind |-> "add", tx |-> tx[w],
                   entry |-> EntryOf(tx[w], outcome[w].fee)]
    BY <2>2, <2>4
  <2>6. HandlerOfCall(w)'
    BY <1>4, <2>3, <2>5 DEF Accepted
  <2>7. \A v \in Callers : v # w => HandlerOfCall(v)'
    BY <1>0, <1>4, <2>4 DEF Accepted, Return
  <2> QED
    BY <1>4, <2>4, <2>6, <2>7 DEF Accepted
<1> QED
  BY <1>1, <1>2, <1>3, <1>4 DEF Returned

\* A step of the service is one of the validations and the configuration, or
\* leaves them alone.
LEMMA StepOfValidator == [ServiceNext]_serviceVars => [Next]_vars
<1>1. ASSUME NEW w \in Callers, ReceiveVerify(w) \/ ReceiveAdd(w) \/ Returned(w)
      PROVE  Next
  <2>1. Begin(w) \/ Return(w)
    BY <1>1 DEF ReceiveVerify, ReceiveAdd, ReceiveTx, Returned, Answered, Refused,
       Accepted
  <2> QED
    BY <2>1 DEF Next, Step
<1> QED
  BY <1>1 DEF ServiceNext, serviceVars, Validating, Next

LEMMA ServiceInvInit == ServiceInit => ServiceInv
<1> SUFFICES ASSUME ServiceInit PROVE ServiceInv
  OBVIOUS
<1>1. IInv
  BY IInvInit DEF ServiceInit
<1>2. /\ entries = <<>>
      /\ stage = [w \in Callers |-> "idle"]
      /\ method = [w \in Callers |-> "none"]
      /\ req = [w \in Callers |-> Pool!NoRequest]
  BY DEF ServiceInit, Pool!Init
<1>4. \A w \in Callers : HandlerOfCall(w)
  BY <1>2 DEF HandlerOfCall
<1> QED
  BY <1>1, <1>2, <1>4 DEF ServiceInv

LEMMA ServiceStep == ServiceInv /\ [ServiceNext]_serviceVars => ServiceInv'
<1> SUFFICES ASSUME ServiceInv, [ServiceNext]_serviceVars PROVE ServiceInv'
  OBVIOUS
<1>1. IInv /\ HandlersTyped
  BY DEF ServiceInv, HandlersTyped
<1>2. IInv'
  BY <1>1, StepOfValidator, IInvStep
<1>3. HandlersTyped'
  <2>1. CASE UNCHANGED poolVars /\ tx' = tx
    BY <1>1, <2>1 DEF poolVars, HandlersTyped, HandlerOfCall
  <2>2. ASSUME NEW w \in Callers, ReceiveVerify(w) \/ ReceiveAdd(w) \/ Returned(w)
        PROVE  HandlersTyped'
    BY <1>1, <2>2, CallKeeps
  <2>3. ASSUME NEW w \in Callers, Validating(w) \/ Task(w), UNCHANGED poolVars
        PROVE  HandlersTyped'
    BY <2>1, <2>3, TxKept
  <2>4. ASSUME NEW w \in Callers, UNCHANGED vars,
               Receive(w) \/ Pool!Lock(w) \/ Pool!Body(w) \/ Pool!Respond(w)
        PROVE  HandlersTyped'
    BY <1>1, <2>4, BodyKeeps, RouteKeeps
  <2>5. CASE UNCHANGED <<callVars, poolVars>>
    BY <2>1, <2>5 DEF callVars
  <2> QED
    BY <2>2, <2>3, <2>4, <2>5 DEF ServiceNext, serviceVars, vars
<1> QED
  BY <1>2, <1>3 DEF ServiceInv, HandlersTyped
-----------------------------------------------------------------------------
(* The refinement of Mempool                                               *)

\* Operators of Mempool that do not speak of its pc and req.
LEMMA SameOperators ==
  /\ \A s, t : Pool!HasTxid(s, t) <=> AsMempool!HasTxid(s, t)
  /\ \A s, e, p : Pool!UpperBound(s, e, p) <=> AsMempool!UpperBound(s, e, p)
  /\ \A s, p, e : Pool!InsertAt(s, p, e) = AsMempool!InsertAt(s, p, e)
  /\ \A s, p : Pool!RemoveAt(s, p) = AsMempool!RemoveAt(s, p)
<1>1. \A a, b : Pool!Before(a, b) <=> AsMempool!Before(a, b)
  BY DEF Pool!Before, Pool!FeeRate, AsMempool!Before, AsMempool!FeeRate
<1>2. \A s, e, p : Pool!UpperBound(s, e, p) <=> AsMempool!UpperBound(s, e, p)
  BY <1>1 DEF Pool!UpperBound, AsMempool!UpperBound
<1> QED
  BY <1>2 DEF Pool!HasTxid, AsMempool!HasTxid, Pool!InsertAt, AsMempool!InsertAt,
     Pool!RemoveAt, AsMempool!RemoveAt

\* A handler that goes on in the service does so in Mempool.
LEMMA GotoMaps ==
  ASSUME HandlersTyped, NEW w \in Callers, NEW s, NEW m, s # "verifying",
         Pool!Goto(w, s, m)
  PROVE  AsMempool!Goto(w, s, m)
<1>1. HandlerStage' = [HandlerStage EXCEPT ![w] = s]
  BY DEF HandlersTyped, Pool!Goto, HandlerStage
<1> QED
  BY <1>1 DEF Pool!Goto, AsMempool!Goto

LEMMA AnswerMaps ==
  ASSUME HandlersTyped, NEW w \in Callers, NEW a, Pool!Answer(w, a)
  PROVE  AsMempool!Answer(w, a)
<1>1. AsMempool!Goto(w, "replying", "none")
  BY GotoMaps DEF Pool!Answer
<1>2. HandlerReq' = HandlerReq
  BY DEF Pool!Answer, HandlerReq
<1> QED
  BY <1>1, <1>2 DEF Pool!Answer, AsMempool!Answer

\* A method runs there as here, on the same entry or txid.
LEMMA RunningMaps ==
  ASSUME HandlersTyped, NEW w \in Callers
  PROVE  /\ \A m : Pool!Running(w, m) => AsMempool!Running(w, m)
         /\ Pool!Running(w, "add") \/ stage[w] = "inserting" =>
              HandlerReq[w].entry = req[w].entry
         /\ Pool!Running(w, "remove") => HandlerReq[w] = req[w]
<1>1. \A m : Pool!Running(w, m) => AsMempool!Running(w, m)
  BY DEF Pool!Running, AsMempool!Running, HandlerStage
<1>2. ASSUME Pool!Running(w, "add") \/ stage[w] = "inserting"
      PROVE  HandlerReq[w].entry = req[w].entry
  <2>1. req[w] \in AddRequests
    BY <1>2 DEF Pool!Running, HandlersTyped, HandlerOfCall
  <2> QED
    BY <2>1 DEF AddRequests, HandlerReq
<1>3. ASSUME Pool!Running(w, "remove") PROVE HandlerReq[w] = req[w]
  BY <1>3 DEF Pool!Running, HandlersTyped, HandlerOfCall, HandlerReq
<1> QED
  BY <1>1, <1>2, <1>3

LEMMA BodyMaps ==
  ASSUME HandlersTyped, NEW w \in Callers, Pool!Body(w)
  PROVE  AsMempool!Body(w)
<1>0. req' = req => HandlerReq' = HandlerReq
  BY DEF HandlerReq
<1>1. CASE Pool!AddDuplicate(w)
  <2>1. AsMempool!Answer(w, [status |-> "duplicate"])
    BY <1>1, AnswerMaps DEF Pool!AddDuplicate
  <2>2. AsMempool!AddDuplicate(w)
    BY <1>1, <2>1, RunningMaps, SameOperators
       DEF Pool!AddDuplicate, AsMempool!AddDuplicate, Pool!Unlock, AsMempool!Unlock
  <2> QED
    BY <2>2 DEF AsMempool!Body
<1>2. CASE Pool!AddScan(w)
  <2>1. HandlerStage' = [HandlerStage EXCEPT ![w] = "inserting"]
    BY <1>2 DEF Pool!AddScan, HandlerStage, HandlersTyped
  <2>2. AsMempool!AddScan(w)
    BY <1>0, <1>2, <2>1, RunningMaps, SameOperators
       DEF Pool!AddScan, AsMempool!AddScan
  <2> QED
    BY <2>2 DEF AsMempool!Body
<1>3. CASE Pool!AddInsert(w)
  <2>1. AsMempool!Goto(w, "calling", "size")
    BY <1>3, GotoMaps DEF Pool!AddInsert
  <2>2. HandlerStage[w] = "inserting" /\ HandlerReq[w].entry = req[w].entry
    BY <1>3, RunningMaps DEF Pool!AddInsert, HandlerStage
  <2>3. AsMempool!AddInsert(w)
    BY <1>0, <1>3, <2>1, <2>2, SameOperators
       DEF Pool!AddInsert, AsMempool!AddInsert, Pool!Unlock, AsMempool!Unlock
  <2> QED
    BY <2>3 DEF AsMempool!Body
<1>4. CASE Pool!RemoveFound(w)
  <2>1. AsMempool!Goto(w, "calling", "size")
    BY <1>4, GotoMaps DEF Pool!RemoveFound
  <2>2. AsMempool!RemoveFound(w)
    BY <1>0, <1>4, <2>1, RunningMaps, SameOperators
       DEF Pool!RemoveFound, AsMempool!RemoveFound, Pool!Unlock, AsMempool!Unlock
  <2> QED
    BY <2>2 DEF AsMempool!Body
<1>5. CASE Pool!RemoveAbsent(w)
  <2>1. AsMempool!Answer(w, [status |-> "absent"])
    BY <1>5, AnswerMaps DEF Pool!RemoveAbsent
  <2>2. AsMempool!RemoveAbsent(w)
    BY <1>5, <2>1, RunningMaps, SameOperators
       DEF Pool!RemoveAbsent, AsMempool!RemoveAbsent, Pool!Unlock, AsMempool!Unlock
  <2> QED
    BY <2>2 DEF AsMempool!Body
<1>6. CASE Pool!Clear(w) \/ Pool!GetAll(w) \/ Pool!Size(w)
  <2>1. \A a : Pool!Answer(w, a) => AsMempool!Answer(w, a)
    BY AnswerMaps
  <2>2. AsMempool!Clear(w) \/ AsMempool!GetAll(w) \/ AsMempool!Size(w)
    BY <1>6, <2>1, RunningMaps
       DEF Pool!Clear, AsMempool!Clear, Pool!GetAll, AsMempool!GetAll, Pool!Size,
           AsMempool!Size, Pool!Unlock, AsMempool!Unlock
  <2> QED
    BY <2>2 DEF AsMempool!Body
<1> QED
  BY <1>1, <1>2, <1>3, <1>4, <1>5, <1>6 DEF Pool!Body

\* The steps of a handler outside validation and the mempool.
LEMMA RouteMaps ==
  ASSUME HandlersTyped, NEW w \in Callers,
         Receive(w) \/ Pool!Lock(w) \/ Pool!Respond(w)
  PROVE  AsMempool!Next
<1>1. CASE Receive(w)
  <2>1. PICK r \in Pool!Requests : r.kind # "add" /\ Pool!Receive(w, r)
    BY <1>1 DEF Receive
  <2>2. HandlerStage[w] = "idle" /\ HandlerReq' = [HandlerReq EXCEPT ![w] = r]
    BY <2>1 DEF Pool!Receive, HandlerStage, HandlerReq, HandlersTyped, Pool!Requests
  <2>3. \A m : Pool!Goto(w, "calling", m) => AsMempool!Goto(w, "calling", m)
    BY GotoMaps
  <2>4. AsMempool!Receive(w, r) /\ r \in AsMempool!Requests
    BY <2>1, <2>2, <2>3 DEF Pool!Receive, AsMempool!Receive, Pool!Requests,
       AsMempool!Requests
  <2> QED
    BY <2>4 DEF AsMempool!Next, AsMempool!Arrive
<1>2. CASE Pool!Lock(w)
  <2>1. /\ HandlerStage[w] = "calling" /\ HandlerReq' = HandlerReq
        /\ HandlerStage' = [HandlerStage EXCEPT ![w] = "locked"]
    BY <1>2 DEF Pool!Lock, HandlerStage, HandlerReq, HandlersTyped
  <2> QED
    BY <1>2, <2>1 DEF Pool!Lock, AsMempool!Lock, AsMempool!Next
<1>3. CASE Pool!Respond(w)
  <2>1. AsMempool!Goto(w, "idle", "none") /\ HandlerStage[w] = "replying"
    BY <1>3, GotoMaps DEF Pool!Respond, HandlerStage
  <2>2. HandlerReq' = [HandlerReq EXCEPT ![w] = AsMempool!NoRequest]
    BY <1>3 DEF Pool!Respond, HandlerReq, HandlersTyped, Pool!NoRequest,
       AsMempool!NoRequest
  <2> QED
    BY <1>3, <2>1, <2>2 DEF Pool!Respond, AsMempool!Respond, AsMempool!Next,
       Pool!NoReply, AsMempool!NoReply
<1> QED
  BY <1>1, <1>2, <1>3

\* A call for /verify cannot be seen; one for /mempool/add is the arrival of
\* its request, and the two ends of a validation.
LEMMA CallMaps ==
  ASSUME HandlersTyped, IInv, NEW w \in Callers,
         ReceiveVerify(w) \/ ReceiveAdd(w) \/ Returned(w)
  PROVE  [AsMempool!Next]_(AsMempool!vars)
<1> USE DEF HandlersTyped
<1>1. CASE ReceiveVerify(w)
  <2>1. HandlerStage' = HandlerStage
    BY <1>1 DEF ReceiveVerify, ReceiveTx, HandlerStage, Pool!Goto
  <2>2. HandlerReq' = HandlerReq
    BY <1>1 DEF ReceiveVerify, ReceiveTx, HandlerReq, HandlerOfCall, Pool!NoRequest
  <2>3. method' = method
    BY <1>1 DEF ReceiveVerify, ReceiveTx, HandlerOfCall, Pool!Goto
  <2> QED
    BY <1>1, <2>1, <2>2, <2>3 DEF ReceiveVerify, ReceiveTx, AsMempool!vars
<1>2. CASE ReceiveAdd(w)
  <2>1. PICK t \in Txs : tx'[w] = t
    BY <1>2 DEF ReceiveAdd, ReceiveTx, Begin, IInv, TypeOK
  <2> DEFINE r == [kind |-> "add", entry |-> EntryOf(t, Unspent(t))]
  <2>2. HandlerReq' = [HandlerReq EXCEPT ![w] = r]
    BY <1>2, <2>1 DEF ReceiveAdd, ReceiveTx, HandlerReq
  <2>3. AsMempool!Goto(w, "validating", "add") /\ HandlerStage[w] = "idle"
    BY <1>2, GotoMaps DEF ReceiveAdd, ReceiveTx, HandlerStage
  <2>4. AsMempool!Receive(w, r)
    BY <1>2, <2>2, <2>3 DEF ReceiveAdd, ReceiveTx, AsMempool!Receive
  <2>5. r \in AsMempool!Requests
    BY DEF AsMempool!Requests, Offered
  <2> QED
    BY <2>4, <2>5 DEF AsMempool!Next, AsMempool!Arrive
<1>3. CASE Answered(w)
  <2>1. HandlerStage' = HandlerStage
    BY <1>3 DEF Answered, HandlerStage, Pool!Goto
  <2>2. HandlerReq' = HandlerReq
    BY <1>3 DEF Answered, HandlerReq, HandlerOfCall, Pool!NoRequest
  <2>3. method' = method
    BY <1>3 DEF Answered, HandlerOfCall, Pool!Goto
  <2> QED
    BY <1>3, <2>1, <2>2, <2>3 DEF Answered, AsMempool!vars
<1>4. CASE Refused(w)
  <2>1. AsMempool!Goto(w, "replying", "none") /\ HandlerStage[w] = "validating"
    BY <1>4, GotoMaps DEF Refused, HandlerStage
  <2>2. HandlerReq' = HandlerReq
    BY <1>4 DEF Refused, HandlerReq
  <2>3. AsMempool!Reject(w)
    BY <1>4, <2>1, <2>2 DEF Refused, AsMempool!Reject, AsMempool!Answer
  <2> QED
    BY <2>3 DEF AsMempool!Next
<1>5. CASE Accepted(w)
  <2>1. AsMempool!Goto(w, "calling", "add") /\ HandlerStage[w] = "validating"
    BY <1>5, GotoMaps DEF Accepted, HandlerStage
  <2>2. req[w] = [kind |-> "add", tx |-> tx[w], entry |-> NoEntry]
    BY <1>5 DEF Accepted, HandlerOfCall
  <2>3. req' = [req EXCEPT ![w].entry = EntryOf(req[w].tx, outcome[w].fee)]
    BY <1>5 DEF Accepted
  <2>4. req'[w].kind = "add" /\ req'[w].tx = req[w].tx /\ req[w].kind = "add"
    BY <2>2, <2>3
  <2>5. HandlerReq' = HandlerReq
    BY <2>3, <2>4 DEF HandlerReq
  <2>6. AsMempool!Validated(w)
    BY <1>5, <2>1, <2>5 DEF Accepted, AsMempool!Validated
  <2> QED
    BY <2>6 DEF AsMempool!Next
<1> QED
  BY <1>1, <1>2, <1>3, <1>4, <1>5 DEF Returned

LEMMA StepMaps ==
  ServiceInv /\ [ServiceNext]_serviceVars => [AsMempool!Next]_(AsMempool!vars)
<1> SUFFICES ASSUME ServiceInv, [ServiceNext]_serviceVars
             PROVE  [AsMempool!Next]_(AsMempool!vars)
  OBVIOUS
<1>1. IInv /\ HandlersTyped
  BY DEF ServiceInv, HandlersTyped
<1>2. CASE UNCHANGED poolVars
  BY <1>2 DEF poolVars, AsMempool!vars, HandlerStage, HandlerReq
<1>3. ASSUME NEW w \in Callers, ReceiveVerify(w) \/ ReceiveAdd(w) \/ Returned(w)
      PROVE  [AsMempool!Next]_(AsMempool!vars)
  BY <1>1, <1>3, CallMaps
<1>4. ASSUME NEW w \in Callers, Receive(w) \/ Pool!Lock(w) \/ Pool!Respond(w)
      PROVE  AsMempool!Next
  BY <1>1, <1>4, RouteMaps
<1>5. ASSUME NEW w \in Callers, Pool!Body(w) PROVE AsMempool!Next
  BY <1>1, <1>5, BodyMaps DEF AsMempool!Next
<1> QED
  BY <1>2, <1>3, <1>4, <1>5 DEF ServiceNext, serviceVars

LEMMA InitMaps == ServiceInit => AsMempool!Init
<1> SUFFICES ASSUME ServiceInit PROVE AsMempool!Init
  OBVIOUS
<1>1. /\ stage = [w \in Callers |-> "idle"]
      /\ req = [w \in Callers |-> Pool!NoRequest]
  BY DEF ServiceInit, Pool!Init
<1>2. /\ HandlerStage = [w \in Callers |-> "idle"]
      /\ HandlerReq = [w \in Callers |-> AsMempool!NoRequest]
  BY <1>1 DEF HandlerStage, HandlerReq, Pool!NoRequest, AsMempool!NoRequest
<1> QED
  BY <1>2 DEF ServiceInit, Pool!Init, AsMempool!Init, Pool!NoReply, AsMempool!NoReply

-----------------------------------------------------------------------------
(* The theorems                                                            *)

\* The invariant of the service: that of the validations, and what their
\* handlers carry from them to the private mempool.
THEOREM ServiceInvariant == ServiceSpec => []ServiceInv
<1> QED
  BY ServiceInvInit, ServiceStep, PTL DEF ServiceSpec

\* Whichever validations run beside one another, and in whichever mode: what
\* is in the private mempool passed its own, and has the fee it pays.
THEOREM OnlyValidatedKept == ServiceSpec => []OnlyValidated
<1>1. ServiceInv => OnlyValidated
  <2> SUFFICES ASSUME entries \in Seq(Vetted) PROVE ToSet(entries) \subseteq Vetted
    BY DEF ServiceInv, OnlyValidated
  <2> QED
    BY DEF ToSet
<1> QED
  BY <1>1, ServiceInvariant, PTL

\* The server, with validations as they are, implements Mempool: what is said
\* and proved of its steps holds of the server.
THEOREM ImplementsMempool == ServiceSpec => ServesMempool
<1> QED
  BY InitMaps, StepMaps, ServiceInvariant, PTL DEF ServiceSpec, ServesMempool,
     AsMempool!Spec
=============================================================================
