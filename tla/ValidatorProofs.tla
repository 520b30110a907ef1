--------------------------- MODULE ValidatorProofs ---------------------------
(***************************************************************************)
(* Proofs about Validator, for any callers, administrators, transactions,  *)
(* machines and limits: the type invariant, the verdict, the inputs of a   *)
(* fee, the lifetime of the tasks, the range of the thread count and, for  *)
(* a finite set of callers, the agreement of the statistics, although the  *)
(* two counters of a validation are bumped one after the other.            *)
(***************************************************************************)
EXTENDS Validator, SequenceTheorems, FiniteSetTheorems, TLAPS

-----------------------------------------------------------------------------
(* Facts about the constants and the pure operators                        *)

\* The conversion to int of an integer is an integer.
LEMMA NarrowType == ASSUME NEW n \in Int PROVE Narrow(n) \in Int
  BY IntModulusAssumption, ThreadLimitAssumption DEF Narrow

\* The transaction of a call has typed inputs, also when it has none.
LEMMA InsType ==
  ASSUME TypeOK, NEW c \in Callers
  PROVE  /\ Ins(c) \in Seq(InputType)
         /\ InputCount(c) \in Nat
         /\ DOMAIN Ins(c) = 1 .. InputCount(c)
         /\ \A i \in DOMAIN Ins(c) : /\ Ins(c)[i].amount \in Nat
                                     /\ Ins(c)[i].valid \in BOOLEAN
<1>1. tx[c] \in Txs \cup {NoTx}
  BY DEF TypeOK
<1>2. tx[c].ins \in Seq(InputType)
  <2>1. CASE tx[c] \in Txs
    BY <2>1, TxsAssumption
  <2>2. CASE tx[c] = NoTx
    BY <2>2 DEF NoTx
  <2> QED
    BY <1>1, <2>1, <2>2
<1>3. /\ Len(tx[c].ins) \in Nat
      /\ DOMAIN tx[c].ins = 1 .. Len(tx[c].ins)
      /\ \A i \in DOMAIN tx[c].ins : tx[c].ins[i] \in InputType
  BY <1>2
<1> QED
  BY <1>2, <1>3 DEF Ins, InputCount, InputType

-----------------------------------------------------------------------------
(* The initial states                                                      *)

\* Before any request, no number is configured and no answer is built.
LEMMA ConfigStarts == ConfigInit => ConfigInv
<1> SUFFICES ASSUME ConfigInit PROVE ConfigInv
  OBVIOUS
<1>1. maxThreads \in 0 .. ThreadLimit
  BY ThreadLimitAssumption DEF ConfigInit
<1>2. ConfigTypeOK
  BY DEF ConfigInit, ConfigTypeOK, ConfigRequests, ConfigReplies, NoConfigRequest,
     NoConfigReply, AdminStages
<1> QED
  BY <1>1, <1>2 DEF ConfigInit, ConfigInv, ThreadCountInRange, NoConfigReply

LEMMA TypeInit == Init => TypeOK
<1> SUFFICES ASSUME Init PROVE TypeOK
  OBVIOUS
<1>1. ConfigTypeOK
  BY ConfigStarts DEF Init, ConfigInv
<1> QED
  BY <1>1 DEF Init, TypeOK, Stages

LEMMA IInvInit == Init => IInv
<1> SUFFICES ASSUME Init PROVE IInv
  OBVIOUS
<1>1. TypeOK
  BY TypeInit
<1>2. ConfigInv
  BY ConfigStarts DEF Init
<1>3. ASSUME NEW c \in Callers PROVE CallInv(c) /\ OwnFee(c)
  <2>1. /\ pc[c] = "idle" /\ next[c] = 1 /\ outcome[c] = None
        /\ data[c] = <<>> /\ tasks[c] = <<>> /\ results[c] = <<>>
    BY DEF Init
  <2> QED
    BY <2>1 DEF CallInv, DataCollected, CursorInPlace, TasksOfInputs,
         ResultsOfTasks, Verified, Collecting, Deciding, WithTasks, None, OwnFee
<1>4. VerdictIsFirstFailure
  BY DEF Init, VerdictIsFirstFailure, None
<1> QED
  BY <1>1, <1>2, <1>3, <1>4 DEF IInv

-----------------------------------------------------------------------------
(* A step of one call leaves the others alone                              *)

SameCall(d) ==
  /\ pc'[d] = pc[d] /\ tx'[d] = tx[d] /\ data'[d] = data[d]
  /\ next'[d] = next[d] /\ tasks'[d] = tasks[d] /\ results'[d] = results[d]
  /\ outcome'[d] = outcome[d]

LEMMA OtherCall ==
  ASSUME TypeOK, NEW c \in Callers, NEW d \in Callers, c # d,
         Begin(c) \/ Step(c) \/ Task(c)
  PROVE  SameCall(d)
<1> USE DEF TypeOK, SameCall, Goto, At, End
<1>1. CASE Begin(c) \/ TxoutNull(c) \/ RpcFails(c) \/ Decide(c)
  <2>1. CASE Begin(c)
    BY <2>1 DEF Begin
  <2>2. CASE TxoutNull(c) \/ RpcFails(c) \/ Decide(c)
    BY <2>2 DEF TxoutNull, RpcFails, Decide
  <2> QED
    BY <1>1, <2>1, <2>2
<1>2. CASE TxoutFound(c) \/ RawFound(c)
  BY <1>2 DEF TxoutFound, RawFound, Collected
<1>3. CASE \/ CountParallel(c) \/ CountParallelInputs(c)
           \/ CountSequential(c) \/ CountSequentialInputs(c)
  BY <1>3 DEF CountParallel, CountParallelInputs, CountSequential,
       CountSequentialInputs, Counting
<1>4. CASE VerifyNext(c) \/ Launch(c) \/ LaunchFails(c) \/ Unwind(c)
  BY <1>4 DEF VerifyNext, Launch, LaunchFails, Unwind
<1>5. CASE Get(c) \/ Report(c) \/ ComputeFee(c) \/ Return(c)
  BY <1>5 DEF Get, Report, ComputeFee, Return
<1>6. CASE Task(c)
  BY <1>6 DEF Task, TaskEnds
<1> QED
  BY <1>1, <1>2, <1>3, <1>4, <1>5, <1>6 DEF Step

LEMMA SameCallInv ==
  ASSUME NEW d, SameCall(d), CallInv(d), OwnFee(d) PROVE CallInv(d)' /\ OwnFee(d)'
<1> USE DEF SameCall, CallInv, Ins, InputCount
<1>1. DataCollected(d)'
  BY DEF DataCollected
<1>2. CursorInPlace(d)'
  BY DEF CursorInPlace
<1>3. TasksOfInputs(d)'
  BY DEF TasksOfInputs
<1>4. ResultsOfTasks(d)'
  BY DEF ResultsOfTasks
<1>5. Verified(d)'
  BY DEF Verified, AllValid
<1>6. OwnFee(d)'
  BY DEF OwnFee, InputsMinusOutputs
<1> QED
  BY <1>1, <1>2, <1>3, <1>4, <1>5, <1>6
-----------------------------------------------------------------------------
(* A step of a call keeps its own invariant                                *)

LEMMA BeginKeeps ==
  ASSUME TypeOK, NEW c \in Callers, CallInv(c), Begin(c) PROVE CallInv(c)'
<1> USE DEF Begin, Goto, TypeOK, CallInv, Ins, InputCount, Collecting, Deciding,
      WithTasks
<1>1. PICK t \in Txs : /\ tx'[c] = t
                       /\ pc'[c] = IF t.ins = <<>> THEN "decide" ELSE "gettxout"
  OBVIOUS
<1>2. /\ pc[c] = "idle" /\ data'[c] = <<>> /\ tasks'[c] = <<>>
      /\ results'[c] = <<>> /\ next'[c] = 1 /\ outcome'[c] = None
  BY DEF DataCollected, TasksOfInputs, ResultsOfTasks, CursorInPlace, Verified
<1>3. t.ins \in Seq(InputType)
  BY TxsAssumption
<1>4. t.ins # <<>> => 1 \in DOMAIN t.ins
  BY <1>3
<1> HIDE DEF TypeOK, Begin
<1> QED
  BY <1>1, <1>2, <1>3, <1>4
     DEF DataCollected, CursorInPlace, TasksOfInputs, ResultsOfTasks, Verified, None

LEMMA CollectKeeps ==
  ASSUME TypeOK, NEW c \in Callers, CallInv(c), TxoutFound(c) \/ RawFound(c)
  PROVE  CallInv(c)'
<1> USE DEF Ins, InputCount, Collecting, Deciding, WithTasks
<1>1. /\ pc[c] \in Collecting /\ Current(c).prevout # "unknown" /\ Collected(c)
  BY DEF TxoutFound, RawFound
<1>2. /\ Len(tx[c].ins) \in Nat /\ DOMAIN tx[c].ins = 1 .. Len(tx[c].ins)
      /\ next[c] \in 1 .. Len(tx[c].ins) /\ Len(data[c]) = next[c] - 1
      /\ data[c] \in Seq(Nat) /\ Current(c).amount \in Nat
  BY <1>1, InsType DEF CallInv, CursorInPlace, DataCollected, TypeOK, Current
<1>3. /\ tx' = tx /\ tasks' = tasks /\ results' = results /\ outcome' = outcome
      /\ data'[c] = Append(data[c], Current(c).amount)
  BY <1>1 DEF Collected, TypeOK
<1>4. \/ /\ next[c] < Len(tx[c].ins) /\ pc'[c] = "gettxout" /\ next'[c] = next[c] + 1
      \/ /\ next[c] = Len(tx[c].ins) /\ pc'[c] = "decide" /\ next'[c] = 1
  BY <1>1, <1>2 DEF Collected, Goto, At, TypeOK
<1>5. /\ Len(data'[c]) = next[c] /\ DOMAIN data'[c] = 1 .. next[c]
      /\ DOMAIN data[c] = 1 .. next[c] - 1
  BY <1>2, <1>3
<1>6. DataCollected(c)'
  <2>1. DOMAIN data'[c] \subseteq DOMAIN tx'[c].ins
    BY <1>2, <1>3, <1>5
  <2>2. ASSUME NEW i \in DOMAIN data'[c] PROVE tx'[c].ins[i].prevout # "unknown"
    <3>1. i \in DOMAIN data[c] \/ i = next[c]
      BY <1>2, <1>5
    <3>2. i \in DOMAIN data[c] => tx[c].ins[i].prevout # "unknown"
      BY DEF CallInv, DataCollected
    <3> QED
      BY <1>1, <1>3, <3>1, <3>2 DEF Current
  <2>3. /\ pc'[c] = "gettxout" => Len(data'[c]) = next'[c] - 1
        /\ pc'[c] = "decide" => Len(data'[c]) = Len(tx'[c].ins)
        /\ pc'[c] \in {"gettxout", "decide"}
    BY <1>2, <1>3, <1>4, <1>5
  <2> QED
    BY <2>1, <2>2, <2>3 DEF DataCollected
<1>7. CursorInPlace(c)'
  <2>1. CASE pc'[c] = "gettxout" /\ next'[c] = next[c] + 1 /\ next[c] < Len(tx[c].ins)
    <3>1. tx'[c].ins = tx[c].ins
      BY <1>3
    <3>2. next'[c] \in DOMAIN tx'[c].ins
      BY <1>2, <2>1, <3>1
    <3> QED
      BY <2>1, <3>2 DEF CursorInPlace
  <2>2. CASE pc'[c] = "decide" /\ next'[c] = 1
    BY <2>2 DEF CursorInPlace
  <2> QED
   BY <1>4, <2>1, <2>2
<1>8. pc'[c] \in {"gettxout", "decide"}
  BY <1>4
<1>9. TasksOfInputs(c)'
  BY <1>1, <1>3, <1>8 DEF CallInv, TasksOfInputs
<1>10. ResultsOfTasks(c)'
  BY <1>1, <1>3, <1>8 DEF CallInv, ResultsOfTasks
<1>11. Verified(c)'
  BY <1>1, <1>3, <1>8 DEF CallInv, Verified, None
<1> QED
  BY <1>6, <1>7, <1>9, <1>10, <1>11 DEF CallInv

\* The steps that only move a call on, from one stage to another.
Move(c) ==
  /\ UNCHANGED <<tx, data, next, tasks, results, outcome>>
  /\ \/ pc[c] = "gettxout" /\ pc'[c] = "getrawtransaction"
     \/ pc[c] = "decide" /\ pc'[c] = "parallel" /\ Ins(c) # <<>>
     \/ pc[c] = "decide" /\ pc'[c] = "sequential"
     \/ pc[c] = "parallel" /\ pc'[c] = "parallel inputs"
     \/ pc[c] = "parallel inputs" /\ pc'[c] = "launch" /\ 1 \in DOMAIN Ins(c)
     \/ pc[c] = "sequential" /\ pc'[c] = "sequential inputs"
     \/ pc[c] = "sequential inputs" /\ pc'[c] = "loop" /\ 1 \in DOMAIN Ins(c)
     \/ pc[c] = "sequential inputs" /\ pc'[c] = "fee" /\ Ins(c) = <<>>
     \/ pc[c] = "launch" /\ pc'[c] = "unwind"

LEMMA MoveKeeps ==
  ASSUME NEW c, CallInv(c), Move(c) PROVE CallInv(c)'
<1> USE DEF Ins, InputCount, Collecting, Deciding, WithTasks
<1>1. /\ tx' = tx /\ data' = data /\ next' = next /\ tasks' = tasks
      /\ results' = results /\ outcome' = outcome
  BY DEF Move
<1>2. DataCollected(c)'
  BY DEF Move, CallInv, DataCollected
<1>3. CursorInPlace(c)'
  BY DEF Move, CallInv, CursorInPlace
<1>4. TasksOfInputs(c)'
  <2>1. pc'[c] = "launch" => tasks[c] = <<>> /\ next[c] = 1
    BY DEF Move, CallInv, TasksOfInputs, CursorInPlace
  <2>2. pc'[c] = "launch" => Len(tasks'[c]) = next'[c] - 1
    BY <1>1, <2>1
  <2> QED
    BY <1>1, <2>2 DEF Move, CallInv, TasksOfInputs
<1>5. ResultsOfTasks(c)'
  BY DEF Move, CallInv, ResultsOfTasks
<1>6. Verified(c)'
  <2>1. outcome'[c] = None
    BY <1>1 DEF Move, CallInv, Verified
  <2>2. pc'[c] = "loop" => next'[c] = 1
    BY <1>1 DEF Move, CallInv, CursorInPlace
  <2>3. pc'[c] = "loop" => 1 .. next'[c] - 1 = {}
    BY <2>2
  <2>4. pc'[c] = "fee" => tx'[c].ins = <<>>
    BY <1>1 DEF Move
  <2>5. pc'[c] = "fee" => DOMAIN tx'[c].ins = {}
    BY <2>4
  <2> QED
    BY <2>1, <2>3, <2>5 DEF Verified, AllValid, None
<1> QED
  BY <1>2, <1>3, <1>4, <1>5, <1>6 DEF CallInv

\* Those of them that are actions of the call.
LEMMA ControlKeeps ==
  ASSUME TypeOK, NEW c \in Callers, CallInv(c),
         \/ TxoutNull(c) \/ Decide(c) \/ LaunchFails(c)
         \/ CountParallel(c) \/ CountParallelInputs(c)
         \/ CountSequential(c) \/ CountSequentialInputs(c)
  PROVE  CallInv(c)'
<1> USE DEF Goto, TypeOK
<1>1. Ins(c) # <<>> => 1 \in DOMAIN Ins(c)
  BY InsType DEF InputCount
<1>2. CASE TxoutNull(c) \/ LaunchFails(c)
  BY <1>2, MoveKeeps DEF Move, TxoutNull, LaunchFails
<1>3. CASE Decide(c)
  <2>1. pc'[c] = "parallel" => Ins(c) # <<>>
    BY <1>3, MinInputsAssumption DEF Decide, UseParallel, InputCount
  <2> QED
    BY <1>3, <2>1, MoveKeeps DEF Move, Decide
<1>4. CASE CountParallel(c) \/ CountSequential(c)
  BY <1>4, MoveKeeps DEF Move, CountParallel, CountSequential, Counting
<1>5. CASE CountParallelInputs(c)
  <2>1. pc[c] = "parallel inputs" /\ Ins(c) # <<>>
    BY <1>5 DEF CountParallelInputs, Counting, CallInv, CursorInPlace
  <2> QED
    BY <1>1, <1>5, <2>1, MoveKeeps DEF Move, CountParallelInputs, Counting
<1>6. CASE CountSequentialInputs(c)
  BY <1>1, <1>6, MoveKeeps DEF Move, CountSequentialInputs, Counting
<1> QED
  BY <1>2, <1>3, <1>4, <1>5, <1>6

\* A call ends with an exception, its tasks joined or none started.
LEMMA ErrorKeeps ==
  ASSUME TypeOK, NEW c \in Callers, CallInv(c), RpcFails(c) \/ Unwind(c)
  PROVE  CallInv(c)'
<1> USE DEF CallInv, Ins, InputCount, Collecting, Deciding, WithTasks
<1>1. /\ tx' = tx /\ data' = data /\ next' = next /\ results' = results
      /\ pc'[c] = "done" /\ outcome'[c] = Error /\ tasks'[c] = <<>>
  BY DEF RpcFails, Unwind, End, Goto, TypeOK, TasksOfInputs
<1>2. DataCollected(c)' /\ CursorInPlace(c)'
  BY <1>1 DEF DataCollected, CursorInPlace
<1>3. TasksOfInputs(c)'
  BY <1>1 DEF TasksOfInputs
<1>4. ResultsOfTasks(c)'
  BY <1>1 DEF ResultsOfTasks
<1>5. Verified(c)'
  BY <1>1 DEF Verified, Error
<1> QED
  BY <1>2, <1>3, <1>4, <1>5
LEMMA VerifyNextKeeps ==
  ASSUME TypeOK, NEW c \in Callers, CallInv(c), VerifyNext(c)
  PROVE  CallInv(c)' /\ (outcome'[c].kind = "failed" =>
                           /\ outcome'[c].input = next[c]
                           /\ ~ Ins(c)[next[c]].valid
                           /\ \A i \in 1 .. next[c] - 1 : Ins(c)[i].valid)
<1> USE DEF Ins, InputCount, Collecting, Deciding, WithTasks
<1>1. /\ pc[c] = "loop" /\ tx' = tx /\ data' = data /\ tasks' = tasks
      /\ results' = results
  BY DEF VerifyNext
<1>2. /\ next[c] \in DOMAIN tx[c].ins /\ DOMAIN tx[c].ins = 1 .. Len(tx[c].ins)
      /\ Len(tx[c].ins) \in Nat /\ outcome[c] = None
      /\ \A i \in 1 .. next[c] - 1 : tx[c].ins[i].valid
  BY <1>1, InsType DEF CallInv, CursorInPlace, Verified
<1>3. \/ /\ ~ tx[c].ins[next[c]].valid /\ pc'[c] = "done" /\ next'[c] = next[c]
         /\ outcome'[c] = Failed(next[c])
      \/ /\ tx[c].ins[next[c]].valid /\ next[c] < Len(tx[c].ins) /\ pc'[c] = "loop"
         /\ next'[c] = next[c] + 1 /\ outcome'[c] = None
      \/ /\ tx[c].ins[next[c]].valid /\ ~ next[c] < Len(tx[c].ins)
         /\ pc'[c] = "fee" /\ next'[c] = next[c] /\ outcome'[c] = None
  BY <1>2 DEF VerifyNext, Current, Goto, At, End, TypeOK
<1>4. DataCollected(c)'
  BY <1>1, <1>3 DEF CallInv, DataCollected
<1>5. CursorInPlace(c)'
  <2>1. pc'[c] = "loop" => next'[c] \in DOMAIN tx[c].ins
    BY <1>2, <1>3
  <2> QED
    BY <1>1, <1>3, <2>1 DEF CursorInPlace
<1>6. TasksOfInputs(c)' /\ ResultsOfTasks(c)'
  <2>1. pc'[c] \in {"done", "loop", "fee"}
    BY <1>3
  <2>2. tasks[c] = <<>> /\ results[c] = <<>>
    BY <1>1 DEF CallInv, TasksOfInputs, ResultsOfTasks
  <2> QED
    BY <1>1, <2>1, <2>2 DEF TasksOfInputs, ResultsOfTasks
<1>7. Verified(c)'
  <2>1. pc'[c] = "loop" => \A i \in 1 .. next'[c] - 1 : tx[c].ins[i].valid
    <3> SUFFICES ASSUME pc'[c] = "loop", NEW i \in 1 .. next'[c] - 1
                 PROVE  tx[c].ins[i].valid
      OBVIOUS
    <3>1. next'[c] = next[c] + 1 /\ tx[c].ins[next[c]].valid
      BY <1>3
    <3>2. i \in 1 .. next[c] - 1 \/ i = next[c]
      BY <1>2, <3>1
    <3> QED
      BY <1>2, <3>1, <3>2
  <2>2. pc'[c] = "fee" => \A i \in DOMAIN tx[c].ins : tx[c].ins[i].valid
    <3> SUFFICES ASSUME pc'[c] = "fee", NEW i \in DOMAIN tx[c].ins
                 PROVE  tx[c].ins[i].valid
      OBVIOUS
    <3>1. ~ next[c] < Len(tx[c].ins) /\ tx[c].ins[next[c]].valid
      BY <1>3
    <3>2. i \in 1 .. next[c] - 1 \/ i = next[c]
      BY <1>2, <3>1
    <3> QED
      BY <1>2, <3>1, <3>2
  <2>3. \/ pc'[c] = "done" /\ outcome'[c] = Failed(next[c])
        \/ outcome'[c] = None
    BY <1>3
  <2> QED
    BY <1>1, <1>2, <2>1, <2>2, <2>3 DEF Verified, AllValid, Failed, None
<1>8. outcome'[c].kind = "failed" =>
        outcome'[c].input = next[c] /\ ~ tx[c].ins[next[c]].valid
  BY <1>3 DEF Failed, None
<1> QED
  BY <1>2, <1>4, <1>5, <1>6, <1>7, <1>8 DEF CallInv

LEMMA LaunchKeeps ==
  ASSUME TypeOK, NEW c \in Callers, CallInv(c), Launch(c) PROVE CallInv(c)'
<1> USE DEF Ins, InputCount, Collecting, Deciding, WithTasks
<1>1. /\ pc[c] = "launch" /\ tx' = tx /\ data' = data /\ results' = results
      /\ outcome' = outcome
  BY DEF Launch
<1>2. /\ next[c] \in DOMAIN tx[c].ins /\ DOMAIN tx[c].ins = 1 .. Len(tx[c].ins)
      /\ Len(tx[c].ins) \in Nat /\ Len(tasks[c]) = next[c] - 1
      /\ tasks[c] \in Seq({"running", "ok", "failed"})
  BY <1>1, InsType DEF CallInv, CursorInPlace, TasksOfInputs, TypeOK
<1>3. tasks'[c] = Append(tasks[c], "running")
  BY DEF Launch, TypeOK
<1>4. \/ /\ next[c] < Len(tx[c].ins) /\ pc'[c] = "launch"
         /\ next'[c] = next[c] + 1
      \/ /\ ~ next[c] < Len(tx[c].ins) /\ pc'[c] = "get" /\ next'[c] = 1
  BY DEF Launch, Goto, At, TypeOK
<1>5. pc'[c] \in {"launch", "get"} /\ results[c] = <<>>
  BY <1>1, <1>4 DEF CallInv, ResultsOfTasks
<1>6. DataCollected(c)'
  BY <1>1, <1>5 DEF CallInv, DataCollected
<1>7. CursorInPlace(c)'
  <2>1. next'[c] \in DOMAIN tx[c].ins
    BY <1>2, <1>4
  <2> QED
    BY <1>1, <1>5, <2>1 DEF CursorInPlace
<1>8. TasksOfInputs(c)'
  <2>1. Len(tasks'[c]) = next[c] /\ DOMAIN tasks'[c] = 1 .. next[c]
    BY <1>2, <1>3
  <2>2. /\ pc'[c] = "launch" => Len(tasks'[c]) = next'[c] - 1
        /\ pc'[c] = "get" => Len(tasks'[c]) = Len(tx[c].ins)
        /\ DOMAIN tasks'[c] \subseteq DOMAIN tx[c].ins
    BY <1>2, <1>4, <2>1
  <2>3. ASSUME NEW i \in DOMAIN tasks'[c]
        PROVE  \/ i \in DOMAIN tasks[c] /\ tasks'[c][i] = tasks[c][i]
               \/ tasks'[c][i] = "running"
    BY <1>2, <1>3, <2>1
  <2>4. ASSUME NEW i \in DOMAIN tasks'[c]
        PROVE  /\ tasks'[c][i] = "ok" => tx[c].ins[i].valid
               /\ tasks'[c][i] = "failed" => ~ tx[c].ins[i].valid
    BY <2>3 DEF CallInv, TasksOfInputs
  <2> QED
    BY <1>1, <1>5, <2>2, <2>4 DEF TasksOfInputs
<1>9. ResultsOfTasks(c)'
  <2>1. pc'[c] = "get" => Len(results'[c]) = next'[c] - 1
    BY <1>1, <1>4, <1>5
  <2> QED
    BY <1>1, <1>5, <2>1 DEF ResultsOfTasks
<1>10. Verified(c)'
  BY <1>1, <1>5 DEF CallInv, Verified, None
<1> QED
  BY <1>6, <1>7, <1>8, <1>9, <1>10 DEF CallInv

\* What the end of a task says of its input.
LEMMA TaskKeeps ==
  ASSUME TypeOK, NEW c \in Callers, CallInv(c), NEW k, TaskEnds(c, k)
  PROVE  CallInv(c)'
<1> USE DEF Ins, InputCount, Collecting, Deciding, WithTasks
<1>1. /\ pc' = pc /\ tx' = tx /\ data' = data /\ next' = next
      /\ results' = results /\ outcome' = outcome
      /\ k \in DOMAIN tasks[c] /\ tasks[c][k] = "running"
  BY DEF TaskEnds
<1>2. tasks[c] \in Seq({"running", "ok", "failed"})
  BY DEF TypeOK
<1>3. tasks'[c] = [tasks[c] EXCEPT ![k] = IF tx[c].ins[k].valid
                                           THEN "ok" ELSE "failed"]
  BY DEF TaskEnds, TypeOK
<1>4. /\ DOMAIN tasks'[c] = DOMAIN tasks[c] /\ Len(tasks'[c]) = Len(tasks[c])
      /\ \A i \in DOMAIN tasks[c] : i # k => tasks'[c][i] = tasks[c][i]
      /\ tasks'[c][k] = IF tx[c].ins[k].valid THEN "ok" ELSE "failed"
  BY <1>1, <1>2, <1>3
<1>5. DataCollected(c)' /\ CursorInPlace(c)'
  BY <1>1 DEF CallInv, DataCollected, CursorInPlace
<1>6. TasksOfInputs(c)'
  <2>1. tasks[c] # <<>>
    BY <1>1
  <2>2. ASSUME NEW i \in DOMAIN tasks[c]
        PROVE  /\ tasks'[c][i] = "ok" => tx[c].ins[i].valid
               /\ tasks'[c][i] = "failed" => ~ tx[c].ins[i].valid
    BY <1>4 DEF CallInv, TasksOfInputs
  <2> QED
    BY <1>1, <1>4, <2>1, <2>2 DEF CallInv, TasksOfInputs
<1>7. ResultsOfTasks(c)'
  <2>1. ASSUME NEW i \in DOMAIN results[c], pc[c] \in {"get", "report"}
        PROVE  tasks'[c][i] # "running"
    <3>1. tasks[c][i] # "running" /\ i \in DOMAIN tx[c].ins
      BY <2>1 DEF CallInv, ResultsOfTasks
    <3>2. DOMAIN tasks[c] = DOMAIN tx[c].ins
      BY <1>2, <2>1, InsType DEF CallInv, TasksOfInputs
    <3> QED
      BY <1>1, <1>4, <3>1, <3>2
  <2> QED
    BY <1>1, <2>1 DEF CallInv, ResultsOfTasks
<1>8. Verified(c)'
  BY <1>1 DEF CallInv, Verified, AllValid
<1> QED
  BY <1>5, <1>6, <1>7, <1>8 DEF CallInv
LEMMA GetKeeps ==
  ASSUME TypeOK, NEW c \in Callers, CallInv(c), Get(c) PROVE CallInv(c)'
<1> USE DEF Ins, InputCount, Collecting, Deciding, WithTasks
<1>1. /\ pc[c] = "get" /\ tx' = tx /\ data' = data /\ tasks' = tasks
      /\ outcome' = outcome /\ tasks[c][next[c]] # "running"
  BY DEF Get
<1>2. /\ next[c] \in DOMAIN tx[c].ins /\ DOMAIN tx[c].ins = 1 .. Len(tx[c].ins)
      /\ Len(tx[c].ins) \in Nat /\ Len(results[c]) = next[c] - 1
      /\ results[c] \in Seq({"ok", "failed"})
  BY <1>1, InsType DEF CallInv, CursorInPlace, ResultsOfTasks, TypeOK
<1>3. Len(tasks[c]) = Len(tx[c].ins) /\ next[c] \in DOMAIN tasks[c]
  <2>1. tasks[c] \in Seq({"running", "ok", "failed"})
    BY DEF TypeOK
  <2>2. Len(tasks[c]) = Len(tx[c].ins)
    BY <1>1 DEF CallInv, TasksOfInputs
  <2> QED
    BY <1>2, <2>1, <2>2
<1>4. results'[c] = Append(results[c], tasks[c][next[c]])
  BY DEF Get, TypeOK
<1>5. \/ /\ next[c] < Len(tx[c].ins) /\ pc'[c] = "get"
         /\ next'[c] = next[c] + 1
      \/ /\ ~ next[c] < Len(tx[c].ins) /\ pc'[c] = "report" /\ next'[c] = next[c]
  BY DEF Get, Goto, At, TypeOK
<1>6. pc'[c] \in {"get", "report"}
  BY <1>5
<1>7. DataCollected(c)'
  BY <1>1, <1>6 DEF CallInv, DataCollected
<1>8. CursorInPlace(c)'
  <2>1. next'[c] \in DOMAIN tx[c].ins
    BY <1>2, <1>5
  <2> QED
    BY <1>1, <1>6, <2>1 DEF CursorInPlace
<1>9. TasksOfInputs(c)'
  BY <1>1, <1>6 DEF CallInv, TasksOfInputs
<1>10. ResultsOfTasks(c)'
  <2>1. Len(results'[c]) = next[c] /\ DOMAIN results'[c] = 1 .. next[c]
    BY <1>2, <1>4
  <2>2. /\ pc'[c] = "get" => Len(results'[c]) = next'[c] - 1
        /\ pc'[c] = "report" => Len(results'[c]) = Len(tx[c].ins)
        /\ DOMAIN results'[c] \subseteq DOMAIN tx[c].ins
    BY <1>2, <1>5, <2>1
  <2>3. ASSUME NEW i \in DOMAIN results'[c]
        PROVE  \/ i \in DOMAIN results[c] /\ results'[c][i] = results[c][i]
               \/ i = next[c] /\ results'[c][i] = tasks[c][i]
    BY <1>2, <1>4, <2>1
  <2>4. ASSUME NEW i \in DOMAIN results'[c]
        PROVE  /\ results'[c][i] = "ok" => tx[c].ins[i].valid
               /\ results'[c][i] = "failed" => ~ tx[c].ins[i].valid
               /\ tasks[c][i] # "running"
    BY <1>1, <1>3, <2>3 DEF CallInv, ResultsOfTasks, TasksOfInputs
  <2> QED
    BY <1>1, <1>6, <2>2, <2>4 DEF ResultsOfTasks
<1>11. Verified(c)'
  BY <1>1, <1>6 DEF CallInv, Verified, None
<1> QED
  BY <1>7, <1>8, <1>9, <1>10, <1>11 DEF CallInv

\* The failure that is thrown is of the first input that fails.
LEMMA ReportKeeps ==
  ASSUME TypeOK, NEW c \in Callers, CallInv(c), Report(c)
  PROVE  CallInv(c)' /\ (outcome'[c].kind = "failed" =>
                           /\ ~ Ins(c)[outcome'[c].input].valid
                           /\ \A j \in 1 .. outcome'[c].input - 1 : Ins(c)[j].valid)
<1> USE DEF Ins, InputCount, Collecting, Deciding, WithTasks
<1>1. /\ pc[c] = "report" /\ tx' = tx /\ data' = data /\ next' = next
      /\ results' = results /\ tasks'[c] = <<>> /\ outcome[c] = None
  BY DEF Report, TypeOK, CallInv, Verified
<1>2. /\ DOMAIN results[c] = DOMAIN tx[c].ins
      /\ DOMAIN results[c] = 1 .. Len(results[c]) /\ Len(results[c]) \in Nat
      /\ \A i \in DOMAIN results[c] : results[c][i] = "ok" => tx[c].ins[i].valid
      /\ \A i \in DOMAIN results[c] :
           results[c][i] = "failed" => ~ tx[c].ins[i].valid
  <2>1. results[c] \in Seq({"ok", "failed"})
    BY DEF TypeOK
  <2>2. Len(results[c]) = Len(tx[c].ins)
    BY <1>1 DEF CallInv, ResultsOfTasks
  <2>3. DOMAIN results[c] = 1 .. Len(results[c]) /\ Len(results[c]) \in Nat
    BY <2>1
  <2> QED
    BY <2>2, <2>3, InsType DEF CallInv, ResultsOfTasks
<1>3. \/ /\ \A i \in DOMAIN results[c] : results[c][i] = "ok"
         /\ pc'[c] = "fee" /\ outcome'[c] = None
      \/ \E i \in DOMAIN results[c] :
           /\ results[c][i] = "failed" /\ pc'[c] = "done"
           /\ \A j \in 1 .. i - 1 : results[c][j] = "ok"
           /\ outcome'[c] = Failed(i)
  BY <1>1 DEF Report, End, Goto, TypeOK
<1>4. pc'[c] \in {"fee", "done"}
  BY <1>3
<1>5. DataCollected(c)' /\ CursorInPlace(c)'
  BY <1>1, <1>4 DEF CallInv, DataCollected, CursorInPlace
<1>6. TasksOfInputs(c)'
  BY <1>1, <1>4 DEF TasksOfInputs
<1>7. ResultsOfTasks(c)'
  BY <1>1, <1>4 DEF CallInv, ResultsOfTasks
<1>8. Verified(c)' /\ (outcome'[c].kind = "failed" =>
                         /\ ~ tx[c].ins[outcome'[c].input].valid
                         /\ \A j \in 1 .. outcome'[c].input - 1 : tx[c].ins[j].valid)
  <2>1. CASE /\ \A i \in DOMAIN results[c] : results[c][i] = "ok"
             /\ pc'[c] = "fee" /\ outcome'[c] = None
    BY <1>1, <1>2, <2>1 DEF Verified, AllValid, None
  <2>2. ASSUME NEW i \in DOMAIN results[c],
               results[c][i] = "failed", pc'[c] = "done",
               \A j \in 1 .. i - 1 : results[c][j] = "ok",
               outcome'[c] = Failed(i)
        PROVE  Verified(c)' /\ (outcome'[c].kind = "failed" =>
                 /\ ~ tx[c].ins[outcome'[c].input].valid
                 /\ \A j \in 1 .. outcome'[c].input - 1 : tx[c].ins[j].valid)
    <3>1. outcome'[c].kind = "failed" /\ outcome'[c].input = i
      BY <2>2 DEF Failed
    <3>2. \A j \in 1 .. i - 1 : j \in DOMAIN results[c]
      BY <1>2
    <3> QED
      BY <1>1, <1>2, <2>2, <3>1, <3>2 DEF Verified
  <2> QED
    BY <1>3, <2>1, <2>2
<1> QED
  BY <1>5, <1>6, <1>7, <1>8 DEF CallInv

LEMMA EndKeeps ==
  ASSUME TypeOK, NEW c \in Callers, CallInv(c), ComputeFee(c) \/ Return(c)
  PROVE  /\ CallInv(c)'
         /\ outcome'[c].kind # "failed"
         /\ outcome'[c].kind = "fee" => AllValid(c)'
<1> USE DEF Ins, InputCount, Collecting, Deciding, WithTasks
<1>1. CASE ComputeFee(c)
  <2>1. /\ pc[c] = "fee" /\ pc'[c] = "done" /\ tx' = tx /\ data' = data
        /\ next' = next /\ tasks' = tasks /\ results' = results
        /\ outcome'[c] = Fee(InputsMinusOutputs(c))
    BY <1>1 DEF ComputeFee, End, Goto, TypeOK
  <2>2. outcome'[c].kind = "fee"
    BY <2>1 DEF Fee
  <2>3. DataCollected(c)' /\ CursorInPlace(c)' /\ TasksOfInputs(c)'
        /\ ResultsOfTasks(c)'
    BY <2>1 DEF CallInv, DataCollected, CursorInPlace, TasksOfInputs, ResultsOfTasks
  <2>4. AllValid(c)' /\ Len(data'[c]) = Len(tx'[c].ins)
    BY <2>1 DEF CallInv, Verified, AllValid, DataCollected
  <2>5. Verified(c)'
    BY <2>1, <2>2, <2>4 DEF Verified
  <2> QED
    BY <2>2, <2>3, <2>4, <2>5 DEF CallInv
<1>2. CASE Return(c)
  <2>1. /\ pc'[c] = "idle" /\ tx'[c] = NoTx /\ data'[c] = <<>> /\ next'[c] = 1
        /\ results'[c] = <<>> /\ outcome'[c] = None /\ tasks'[c] = <<>>
    BY <1>2 DEF Return, Goto, At, TypeOK, CallInv, TasksOfInputs
  <2>2. DataCollected(c)' /\ CursorInPlace(c)' /\ TasksOfInputs(c)'
        /\ ResultsOfTasks(c)'
    BY <2>1 DEF DataCollected, CursorInPlace, TasksOfInputs, ResultsOfTasks
  <2>3. Verified(c)' /\ outcome'[c].kind \notin {"failed", "fee"}
    BY <2>1 DEF Verified, None
  <2> QED
    BY <2>1, <2>2, <2>3 DEF CallInv
<1> QED
  BY <1>1, <1>2
LEMMA StepKeeps ==
  ASSUME TypeOK, NEW c \in Callers, CallInv(c), Begin(c) \/ Step(c) \/ Task(c)
  PROVE  CallInv(c)'
<1>1. CASE Begin(c)
  BY <1>1, BeginKeeps
<1>2. CASE TxoutFound(c) \/ RawFound(c)
  BY <1>2, CollectKeeps
<1>3. CASE \/ TxoutNull(c) \/ Decide(c) \/ LaunchFails(c)
           \/ CountParallel(c) \/ CountParallelInputs(c)
           \/ CountSequential(c) \/ CountSequentialInputs(c)
  BY <1>3, ControlKeeps
<1>4. CASE RpcFails(c) \/ Unwind(c)
  BY <1>4, ErrorKeeps
<1>5. CASE VerifyNext(c)
  BY <1>5, VerifyNextKeeps
<1>6. CASE Launch(c)
  BY <1>6, LaunchKeeps
<1>7. CASE Task(c)
  BY <1>7, TaskKeeps DEF Task
<1>8. CASE Get(c)
  BY <1>8, GetKeeps
<1>9. CASE Report(c)
  BY <1>9, ReportKeeps
<1>10. CASE ComputeFee(c) \/ Return(c)
  BY <1>10, EndKeeps
<1> QED
  BY <1>1, <1>2, <1>3, <1>4, <1>5, <1>6, <1>7, <1>8, <1>9, <1>10 DEF Step

\* What the call that steps collects, and returns, is its own.
LEMMA OwnFeeKept ==
  ASSUME TypeOK, NEW c \in Callers, CallInv(c), OwnFee(c),
         Begin(c) \/ Step(c) \/ Task(c)
  PROVE  OwnFee(c)'
<1> USE DEF OwnFee, Ins
<1>1. CASE Begin(c)
  <2>1. data'[c] = <<>> /\ outcome'[c] = None
    BY <1>1 DEF Begin, CallInv, DataCollected, Verified
  <2> QED
    BY <2>1 DEF None
<1>2. CASE TxoutFound(c) \/ RawFound(c)
  <2>1. /\ tx' = tx /\ outcome'[c] = None
        /\ data'[c] = Append(data[c], tx[c].ins[next[c]].amount)
    BY <1>2 DEF TxoutFound, RawFound, Collected, Current, TypeOK, CallInv, Verified
  <2>2. data[c] \in Seq(Nat) /\ Len(data[c]) = next[c] - 1
    BY <1>2 DEF TxoutFound, RawFound, TypeOK, CallInv, DataCollected, Collecting
  <2>3. next[c] \in Nat
    BY DEF TypeOK
  <2>4. ASSUME NEW i \in DOMAIN data'[c] PROVE data'[c][i] = tx[c].ins[i].amount
    BY <2>1, <2>2, <2>3, <2>4
  <2> QED
    BY <2>1, <2>4 DEF None
<1>3. CASE ComputeFee(c)
  BY <1>3 DEF ComputeFee, End, TypeOK, Fee, InputsMinusOutputs
<1>4. CASE Return(c)
  <2>1. data'[c] = <<>> /\ outcome'[c] = None
    BY <1>4 DEF Return, TypeOK
  <2> QED
    BY <2>1 DEF None
<1>5. CASE RpcFails(c) \/ Unwind(c) \/ VerifyNext(c) \/ Report(c)
  <2>1. tx' = tx /\ data' = data
    BY <1>5 DEF RpcFails, Unwind, VerifyNext, Report
  <2>2. \/ outcome'[c] = outcome[c] \/ outcome'[c] = Error
        \/ \E i : outcome'[c] = Failed(i)
    BY <1>5 DEF RpcFails, Unwind, VerifyNext, Report, End, TypeOK
  <2>3. outcome'[c].kind = "fee" => outcome'[c] = outcome[c]
    <3>1. Error.kind # "fee" /\ \A i : Failed(i).kind # "fee"
      BY DEF Error, Failed
    <3> QED
      BY <2>2, <3>1
  <2> QED
    BY <2>1, <2>3 DEF InputsMinusOutputs
<1>6. CASE \/ TxoutNull(c) \/ Decide(c) \/ CountParallel(c) \/ CountParallelInputs(c)
           \/ CountSequential(c) \/ CountSequentialInputs(c) \/ Launch(c)
           \/ LaunchFails(c) \/ Get(c) \/ Task(c)
  <2>1. tx' = tx /\ data' = data /\ outcome' = outcome
    BY <1>6 DEF TxoutNull, Decide, CountParallel, CountParallelInputs,
       CountSequential, CountSequentialInputs, Counting, Launch, LaunchFails, Get,
       Task, TaskEnds
  <2> QED
    BY <2>1 DEF InputsMinusOutputs
<1> QED
  BY <1>1, <1>2, <1>3, <1>4, <1>5, <1>6 DEF Step

-----------------------------------------------------------------------------
(* The verdict                                                             *)

\* A step of a call leaves it without an outcome, or with one that says the
\* truth of its inputs.
LEMMA OwnVerdict ==
  ASSUME TypeOK, NEW c \in Callers, CallInv(c), Begin(c) \/ Step(c) \/ Task(c),
         outcome[c].kind = "failed" =>
           /\ ~ Ins(c)[outcome[c].input].valid
           /\ \A i \in 1 .. outcome[c].input - 1 : Ins(c)[i].valid,
         outcome[c].kind = "fee" => AllValid(c)
  PROVE  /\ outcome'[c].kind = "failed" =>
              /\ ~ Ins(c)'[outcome'[c].input].valid
              /\ \A i \in 1 .. outcome'[c].input - 1 : Ins(c)'[i].valid
         /\ outcome'[c].kind = "fee" => AllValid(c)'
<1>1. CASE Begin(c)
  <2>1. outcome'[c] = None
    BY <1>1 DEF Begin, CallInv, Verified
  <2> QED
    BY <2>1 DEF None
<1>2. CASE \/ TxoutFound(c) \/ RawFound(c) \/ TxoutNull(c) \/ Decide(c)
           \/ LaunchFails(c) \/ CountParallel(c) \/ CountParallelInputs(c)
           \/ CountSequential(c) \/ CountSequentialInputs(c)
           \/ Launch(c) \/ Get(c) \/ Task(c)
  <2>1. outcome' = outcome /\ tx' = tx
    BY <1>2 DEF TxoutFound, RawFound, Collected, TxoutNull, Decide, LaunchFails,
         CountParallel, CountParallelInputs, CountSequential,
         CountSequentialInputs, Counting, Launch, Get, Task, TaskEnds
  <2> QED
    BY <2>1 DEF Ins, AllValid
<1>3. CASE RpcFails(c) \/ Unwind(c)
  <2>1. outcome'[c] = Error
    BY <1>3 DEF RpcFails, Unwind, End, TypeOK
  <2> QED
    BY <2>1 DEF Error
<1>4. CASE VerifyNext(c)
  <2>1. /\ tx' = tx
        /\ \/ outcome' = outcome /\ outcome[c] = None
           \/ outcome'[c] = Failed(next[c])
    BY <1>4 DEF VerifyNext, End, TypeOK, CallInv, Verified
  <2>2. outcome'[c].kind # "fee"
    BY <2>1 DEF Failed, None
  <2> QED
    BY <1>4, <2>1, <2>2, VerifyNextKeeps DEF Ins
<1>5. CASE Report(c)
  <2>1. tx' = tx /\ outcome'[c].kind # "fee"
    <3>1. tx' = tx /\ (outcome' = outcome \/ \E i : outcome'[c] = Failed(i))
      BY <1>5 DEF Report, End, TypeOK
    <3>2. outcome[c] = None
      BY <1>5 DEF Report, CallInv, Verified
    <3>3. CASE outcome' = outcome
      BY <3>1, <3>2, <3>3 DEF None
    <3>4. CASE \E i : outcome'[c] = Failed(i)
      BY <3>1, <3>4 DEF Failed
    <3> QED
      BY <3>1, <3>3, <3>4
  <2> QED
    BY <1>5, <2>1, ReportKeeps DEF Ins
<1>6. CASE ComputeFee(c) \/ Return(c)
  BY <1>6, EndKeeps
<1> QED
  BY <1>1, <1>2, <1>3, <1>4, <1>5, <1>6 DEF Step

-----------------------------------------------------------------------------
(* Types, and the configuration                                            *)

\* What is left alone by those who only count keeps the configuration.
LEMMA SameAdmins ==
  ASSUME ConfigInv, UNCHANGED <<settings, adminVars>>,
         parallelValidations' \in Nat, totalInputsParallel' \in Nat,
         sequentialValidations' \in Nat, totalInputsSequential' \in Nat
  PROVE  ConfigInv'
<1>1. /\ enabled' = enabled /\ maxThreads' = maxThreads /\ adminPc' = adminPc
      /\ adminReq' = adminReq /\ adminReply' = adminReply /\ overtaken' = overtaken
  BY DEF settings, adminVars
<1>2. ConfigTypeOK'
  BY <1>1 DEF ConfigInv, ConfigTypeOK
<1> QED
  BY <1>1, <1>2 DEF ConfigInv, ThreadCountInRange

LEMMA SameConfig == ConfigInv /\ UNCHANGED configVars => ConfigInv'
  BY SameAdmins DEF configVars, counters, ConfigInv, ConfigTypeOK

\* A step of a call counts in the statistics or leaves the configuration
\* alone.
LEMMA ConfigOfCall ==
  ASSUME TypeOK, ConfigInv, NEW c \in Callers, Begin(c) \/ Step(c) \/ Task(c)
  PROVE  ConfigInv'
<1>1. ConfigTypeOK
  BY DEF TypeOK
<1>2. CASE UNCHANGED configVars
  BY <1>2, SameConfig
<1>3. CASE \/ CountParallel(c) \/ CountParallelInputs(c)
           \/ CountSequential(c) \/ CountSequentialInputs(c)
  <2>1. UNCHANGED <<settings, adminVars>>
    BY <1>3 DEF CountParallel, CountParallelInputs, CountSequential,
         CountSequentialInputs, Counting
  <2>2. InputCount(c) \in Nat
    BY InsType
  <2>3. /\ parallelValidations' \in Nat /\ totalInputsParallel' \in Nat
        /\ sequentialValidations' \in Nat /\ totalInputsSequential' \in Nat
    <3>1. /\ parallelValidations \in Nat /\ totalInputsParallel \in Nat
          /\ sequentialValidations \in Nat /\ totalInputsSequential \in Nat
      BY <1>1 DEF ConfigTypeOK
    <3>2. \/ RecordParallel \/ RecordParallelInputs(InputCount(c))
          \/ RecordSequential \/ RecordSequentialInputs(InputCount(c))
      BY <1>3 DEF CountParallel, CountParallelInputs, CountSequential,
           CountSequentialInputs
    <3> QED
      BY <2>2, <3>1, <3>2 DEF RecordParallel, RecordParallelInputs,
           RecordSequential, RecordSequentialInputs
  <2> QED
    BY <2>1, <2>3, SameAdmins
<1>4. CASE Begin(c) \/ TxoutFound(c) \/ TxoutNull(c) \/ RawFound(c) \/ RpcFails(c)
  BY <1>2, <1>4 DEF Begin, TxoutFound, TxoutNull, RawFound, Collected, RpcFails
<1>5. CASE \/ Decide(c) \/ VerifyNext(c) \/ Launch(c) \/ LaunchFails(c)
           \/ Unwind(c) \/ Get(c) \/ Report(c)
  BY <1>2, <1>5 DEF Decide, VerifyNext, Launch, LaunchFails, Unwind, Get, Report
<1>6. CASE ComputeFee(c) \/ Return(c) \/ Task(c)
  BY <1>2, <1>6 DEF ComputeFee, Return, Task, TaskEnds
<1> QED
  BY <1>3, <1>4, <1>5, <1>6 DEF Step

\* What is detected, on whatever machine, is within the limit.
LEMMA DetectedInRange ==
  ASSUME NEW hw \in HwThreads PROVE Detected(hw) \in 1 .. ThreadLimit
<1>1. hw \in Nat
  BY HwThreadsAssumption
<1> QED
  BY <1>1, ThreadLimitAssumption DEF Detected

\* An answer stays one when one of its fields is filled in.
LEMMA ReplyFilled ==
  ASSUME NEW r \in ConfigReplies
  PROVE  /\ [r EXCEPT !.status = 400] \in ConfigReplies
         /\ [r EXCEPT !.status = 400].detected = r.detected
         /\ \A e \in BOOLEAN : /\ [r EXCEPT !.enabled = e] \in ConfigReplies
                             /\ [r EXCEPT !.enabled = e].detected = r.detected
         /\ \A n \in Int : /\ [r EXCEPT !.maxThreads = n] \in ConfigReplies
                         /\ [r EXCEPT !.maxThreads = n].detected = r.detected
         /\ \A n \in Int :
              /\ [r EXCEPT !.status = 200, !.detected = n] \in ConfigReplies
              /\ [r EXCEPT !.status = 200, !.detected = n].detected = n
<1>1. /\ [r EXCEPT !.status = 400] \in ConfigReplies
      /\ [r EXCEPT !.status = 400].detected = r.detected
  BY DEF ConfigReplies
<1>2. ASSUME NEW e \in BOOLEAN
      PROVE  /\ [r EXCEPT !.enabled = e] \in ConfigReplies
             /\ [r EXCEPT !.enabled = e].detected = r.detected
  BY DEF ConfigReplies
<1>3. ASSUME NEW n \in Int
      PROVE  /\ [r EXCEPT !.maxThreads = n] \in ConfigReplies
             /\ [r EXCEPT !.maxThreads = n].detected = r.detected
  BY DEF ConfigReplies
<1>4. ASSUME NEW n \in Int
      PROVE  /\ [r EXCEPT !.status = 200, !.detected = n] \in ConfigReplies
             /\ [r EXCEPT !.status = 200, !.detected = n].detected = n
  BY DEF ConfigReplies
<1> QED
  BY <1>1, <1>2, <1>3, <1>4

\* An admin moves on, and changes its answer at most.
LEMMA ReplyKeeps ==
  ASSUME ConfigInv, NEW a \in Admins, NEW st \in AdminStages, NEW r \in ConfigReplies,
         adminPc' = [adminPc EXCEPT ![a] = st],
         adminReply' = [adminReply EXCEPT ![a] = r],
         st = "rereading threads" => maxThreads > 0,
         UNCHANGED <<settings, counters, adminReq, overtaken>>,
         \/ r.detected = adminReply[a].detected
         \/ /\ r.detected \in 0 .. ThreadLimit
            /\ r.detected = 0 => a \in overtaken
  PROVE  ConfigInv'
<1>1. ConfigTypeOK'
  BY DEF ConfigInv, ConfigTypeOK, settings, counters
<1>2. ThreadCountInRange'
  BY DEF ConfigInv, ConfigTypeOK, ThreadCountInRange
<1>3. \A b \in Admins :
        adminPc'[b] = "rereading threads" /\ b \notin overtaken' => maxThreads' > 0
  BY DEF ConfigInv, ConfigTypeOK, settings
<1> QED
  BY <1>1, <1>2, <1>3 DEF ConfigInv, settings

\* A configuration request stores only values it has tested, and overtakes
\* those that have read the value once.
LEMMA ThreadsKeeps ==
  ASSUME ConfigInv, NEW a \in Admins, ConfigThreads(a) PROVE ConfigInv'
<1>1. ConfigTypeOK
  BY DEF ConfigInv
<1>2. maxThreads' \in 0 .. ThreadLimit
  <2>1. CASE UNCHANGED maxThreads
    BY <2>1 DEF ConfigInv
  <2>2. CASE /\ adminReq[a].maxThreads # Absent
             /\ InRange(Narrow(adminReq[a].maxThreads))
             /\ maxThreads' = Narrow(adminReq[a].maxThreads)
    <3>1. adminReq[a].maxThreads \in ThreadArgs \cup {Absent}
      BY <1>1 DEF ConfigTypeOK, ConfigRequests
    <3>2. Narrow(adminReq[a].maxThreads) \in Int
      BY <2>2, <3>1, ThreadArgsAssumption, NarrowType
    <3> QED
      BY <2>2, <3>2, ThreadLimitAssumption DEF InRange
  <2> QED
    BY <2>1, <2>2 DEF ConfigThreads
<1>3. maxThreads' \in Int
  BY <1>2, ThreadLimitAssumption
<1>4. /\ UNCHANGED <<enabled, counters, adminReq, adminReply>>
      /\ adminPc' = [adminPc EXCEPT ![a] = "reading enabled"]
  BY DEF ConfigThreads, AdminGoto
<1>5. /\ overtaken \subseteq overtaken' /\ overtaken' \subseteq Admins
      /\ \A b \in Admins : adminPc[b] = "rereading threads" /\ b \notin overtaken'
           => maxThreads' = maxThreads /\ b \notin overtaken
  BY <1>1 DEF ConfigThreads, ConfigTypeOK
<1>6. ConfigTypeOK'
  BY <1>1, <1>3, <1>4, <1>5 DEF ConfigTypeOK, AdminStages, counters
<1>7. \A b \in Admins :
        adminPc'[b] = "rereading threads" /\ b \notin overtaken' => maxThreads' > 0
  BY <1>1, <1>4, <1>5 DEF ConfigTypeOK, ConfigInv
<1>8. ThreadCountInRange'
  BY <1>4, <1>5 DEF ThreadCountInRange, ConfigInv
<1> QED
  BY <1>2, <1>6, <1>7, <1>8 DEF ConfigInv

\* The handler is done with the request, and forgets what overtook it.
LEMMA RespondKeeps ==
  ASSUME ConfigInv, NEW a \in Admins, ConfigRespond(a) PROVE ConfigInv'
<1>1. /\ ConfigTypeOK /\ UNCHANGED <<settings, counters>>
      /\ adminPc' = [adminPc EXCEPT ![a] = "idle"]
      /\ adminReply' = [adminReply EXCEPT ![a] = NoConfigReply]
      /\ adminReq' = [adminReq EXCEPT ![a] = NoConfigRequest]
      /\ overtaken' = overtaken \ {a}
  BY DEF ConfigInv, ConfigRespond, AdminGoto
<1>2. /\ NoConfigReply \in ConfigReplies /\ NoConfigReply.detected = Absent
      /\ NoConfigRequest \in ConfigRequests /\ "idle" \in AdminStages
  BY DEF NoConfigReply, ConfigReplies, NoConfigRequest, ConfigRequests, AdminStages
<1>3. ConfigTypeOK'
  BY <1>1, <1>2 DEF ConfigTypeOK, settings, counters
<1>4. ThreadCountInRange'
  BY <1>1, <1>2 DEF ConfigTypeOK, ThreadCountInRange, ConfigInv
<1>5. \A b \in Admins :
        adminPc'[b] = "rereading threads" /\ b \notin overtaken' => maxThreads' > 0
  BY <1>1 DEF ConfigTypeOK, ConfigInv, settings
<1> QED
  BY <1>1, <1>3, <1>4, <1>5 DEF ConfigInv, settings

LEMMA AdminKeeps ==
  ASSUME ConfigInv, NEW a \in Admins, AdminStep(a) PROVE ConfigInv'
<1>0. /\ ConfigTypeOK /\ adminReply[a] \in ConfigReplies
      /\ adminReply = [adminReply EXCEPT ![a] = adminReply[a]]
      /\ enabled \in BOOLEAN /\ maxThreads \in Int
  BY DEF ConfigInv, ConfigTypeOK
<1> USE DEF AdminGoto
<1>1. CASE ConfigReceive(a)
  <2>1. PICK r \in ConfigRequests : adminReq' = [adminReq EXCEPT ![a] = r]
    BY <1>1 DEF ConfigReceive
  <2>2. /\ UNCHANGED <<settings, counters, adminReply, overtaken>>
        /\ adminPc' = [adminPc EXCEPT ![a] = "enabled"]
    BY <1>1 DEF ConfigReceive
  <2>3. ConfigTypeOK'
    BY <1>0, <2>1, <2>2 DEF ConfigTypeOK, AdminStages, settings, counters
  <2> QED
    BY <1>0, <2>2, <2>3 DEF ConfigInv, ConfigTypeOK, ThreadCountInRange, settings
<1>2. CASE ConfigEnabled(a)
  <2>1. adminReq[a].enabled \in BOOLEAN \cup {Absent}
    BY <1>0 DEF ConfigTypeOK, ConfigRequests
  <2>2. enabled' \in BOOLEAN
    BY <1>0, <1>2, <2>1 DEF ConfigEnabled
  <2>3. /\ UNCHANGED <<maxThreads, counters, adminReq, adminReply, overtaken>>
        /\ adminPc' = [adminPc EXCEPT ![a] = "threads"]
    BY <1>2 DEF ConfigEnabled
  <2>4. ConfigTypeOK'
    BY <1>0, <2>2, <2>3 DEF ConfigTypeOK, AdminStages, counters
  <2> QED
    BY <1>0, <2>3, <2>4 DEF ConfigInv, ConfigTypeOK, ThreadCountInRange
<1>3. CASE ConfigRefused(a)
  <2> DEFINE r == [adminReply[a] EXCEPT !.status = 400]
  <2>1. adminReply' = [adminReply EXCEPT ![a] = r]
    BY <1>0, <1>3 DEF ConfigRefused
  <2>2. r \in ConfigReplies /\ r.detected = adminReply[a].detected
    BY <1>0, ReplyFilled
  <2> HIDE DEF r
  <2> QED
    BY <1>3, <2>1, <2>2, ReplyKeeps DEF ConfigRefused, AdminStages
<1>4. CASE ConfigThreads(a)
  BY <1>4, ThreadsKeeps
<1>5. CASE ReportEnabled(a)
  <2> DEFINE r == [adminReply[a] EXCEPT !.enabled = enabled]
  <2>1. adminReply' = [adminReply EXCEPT ![a] = r]
    BY <1>0, <1>5 DEF ReportEnabled, ConfigTypeOK
  <2>2. r \in ConfigReplies /\ r.detected = adminReply[a].detected
    BY <1>0, ReplyFilled
  <2> HIDE DEF r
  <2> QED
    BY <1>5, <2>1, <2>2, ReplyKeeps DEF ReportEnabled, AdminStages
<1>6. CASE ReportThreads(a)
  <2> DEFINE r == [adminReply[a] EXCEPT !.maxThreads = maxThreads]
  <2>1. adminReply' = [adminReply EXCEPT ![a] = r]
    BY <1>0, <1>6 DEF ReportThreads
  <2>2. \A n \in Int :
          /\ [adminReply[a] EXCEPT !.maxThreads = n] \in ConfigReplies
          /\ [adminReply[a] EXCEPT !.maxThreads = n].detected = adminReply[a].detected
    BY <1>0, ReplyFilled
  <2>3. r \in ConfigReplies /\ r.detected = adminReply[a].detected
    BY <1>0, <2>2
  <2> HIDE DEF r
  <2> QED
    BY <1>6, <2>1, <2>3, ReplyKeeps DEF ReportThreads, AdminStages
<1>7. CASE ThreadsConfigured(a)
  BY <1>0, <1>7, ReplyKeeps DEF ThreadsConfigured, AdminStages
<1>8. CASE ReportConfigured(a)
  <2>1. maxThreads \in 0 .. ThreadLimit /\ (maxThreads = 0 => a \in overtaken)
    <3>1. adminPc[a] = "rereading threads"
      BY <1>8 DEF ReportConfigured
    <3>2. a \notin overtaken => maxThreads > 0
      BY <3>1 DEF ConfigInv
    <3>3. maxThreads \in 0 .. ThreadLimit
      BY DEF ConfigInv
    <3> QED
      BY <1>0, <3>2, <3>3, ThreadLimitAssumption
  <2> DEFINE r == [adminReply[a] EXCEPT !.status = 200, !.detected = maxThreads]
  <2>2. adminReply' = [adminReply EXCEPT ![a] = r]
    BY <1>0, <1>8 DEF ReportConfigured
  <2>3. \A n \in Int :
          /\ [adminReply[a] EXCEPT !.status = 200, !.detected = n] \in ConfigReplies
          /\ [adminReply[a] EXCEPT !.status = 200, !.detected = n].detected = n
    BY <1>0, ReplyFilled
  <2>4. r \in ConfigReplies /\ r.detected = maxThreads
    BY <1>0, <2>3
  <2> HIDE DEF r
  <2> QED
    BY <1>8, <2>1, <2>2, <2>4, ReplyKeeps DEF ReportConfigured, AdminStages
<1>9. CASE ReportDetected(a)
  <2>1. PICK hw \in HwThreads :
          adminReply' =
            [adminReply EXCEPT ![a].status = 200, ![a].detected = Detected(hw)]
    BY <1>9 DEF ReportDetected
  <2>2. PICK n \in 1 .. ThreadLimit : n = Detected(hw)
    BY DetectedInRange
  <2>3. n \in Int /\ n \in 0 .. ThreadLimit /\ n # 0
    BY ThreadLimitAssumption
  <2> DEFINE r == [adminReply[a] EXCEPT !.status = 200, !.detected = n]
  <2>4. adminReply' = [adminReply EXCEPT ![a] = r]
    BY <1>0, <2>1, <2>2
  <2>5. \A k \in Int :
          /\ [adminReply[a] EXCEPT !.status = 200, !.detected = k] \in ConfigReplies
          /\ [adminReply[a] EXCEPT !.status = 200, !.detected = k].detected = k
    BY <1>0, ReplyFilled
  <2>6. r \in ConfigReplies /\ r.detected = n
    BY <2>3, <2>5
  <2> HIDE DEF r
  <2> QED
    BY <1>9, <2>3, <2>4, <2>6, ReplyKeeps DEF ReportDetected, AdminStages
<1>10. CASE ConfigRespond(a)
  BY <1>10, RespondKeeps
<1> QED
  BY <1>1, <1>2, <1>3, <1>4, <1>5, <1>6, <1>7, <1>8, <1>9, <1>10 DEF AdminStep

\* What the variables of the calls hold, apart from the configuration.
CallTypes ==
  /\ pc \in [Callers -> Stages]
  /\ tx \in [Callers -> Txs \cup {NoTx}]
  /\ data \in [Callers -> Seq(Nat)]
  /\ next \in [Callers -> Nat \ {0}]
  /\ tasks \in [Callers -> Seq({"running", "ok", "failed"})]
  /\ results \in [Callers -> Seq({"ok", "failed"})]
  /\ outcome = [c \in Callers |-> outcome[c]]

LEMMA TypeParts == TypeOK <=> ConfigTypeOK /\ CallTypes
  BY DEF TypeOK, CallTypes

LEMMA CallTypesStep ==
  ASSUME TypeOK, NEW c \in Callers, CallInv(c), Begin(c) \/ Step(c) \/ Task(c)
  PROVE  CallTypes'
<1>1. CallTypes
  BY TypeParts
<1> USE DEF CallTypes, Goto, At, End
<1>2. ASSUME NEW s \in Stages, pc' = [pc EXCEPT ![c] = s]
      PROVE  pc' \in [Callers -> Stages]
  BY <1>1, <1>2
<1>3. /\ next \in [Callers -> Nat \ {0}]
       /\ next[c] \in Nat \ {0} /\ next[c] + 1 \in Nat \ {0}
  BY <1>1
<1>4. ASSUME \/ next' = next
              \/ next' = [next EXCEPT ![c] = next[c] + 1]
              \/ next' = [next EXCEPT ![c] = 1]
       PROVE  next' \in [Callers -> Nat \ {0}]
  BY <1>3, <1>4
<1>5. CASE Begin(c)
  BY <1>1, <1>5 DEF Begin, Stages
<1>6. CASE TxoutFound(c) \/ RawFound(c)
  <2>1. Collected(c) /\ next[c] \in DOMAIN Ins(c) /\ next[c] \in Nat \ {0}
    BY <1>1, <1>6 DEF TxoutFound, RawFound, CallInv, CursorInPlace, Collecting
  <2>2. Current(c).amount \in Nat
    BY <2>1, InsType DEF Current
  <2>3. data' \in [Callers -> Seq(Nat)]
    BY <1>1, <2>1, <2>2 DEF Collected
  <2>4. next' \in [Callers -> Nat \ {0}]
    <3>1. \/ next' = [next EXCEPT ![c] = next[c] + 1]
          \/ next' = [next EXCEPT ![c] = 1]
      BY <2>1 DEF Collected
    <3> QED
      BY <1>4, <3>1
  <2>5. pc' \in [Callers -> Stages]
    <3>1. \/ pc' = [pc EXCEPT ![c] = "gettxout"]
          \/ pc' = [pc EXCEPT ![c] = "decide"]
      BY <2>1 DEF Collected
    <3>2. CASE pc' = [pc EXCEPT ![c] = "gettxout"]
      BY <1>2, <3>2 DEF Stages
    <3>3. CASE pc' = [pc EXCEPT ![c] = "decide"]
      BY <1>2, <3>3 DEF Stages
    <3> QED
      BY <3>1, <3>2, <3>3
  <2>6. UNCHANGED <<tx, tasks, results, outcome>>
    BY <2>1 DEF Collected
  <2> QED
    BY <1>1, <2>3, <2>4, <2>5, <2>6
<1>7. CASE TxoutNull(c) \/ RpcFails(c) \/ Decide(c) \/ LaunchFails(c)
  BY <1>1, <1>7 DEF TxoutNull, RpcFails, Decide, LaunchFails, Stages
<1>8. CASE \/ CountParallel(c) \/ CountParallelInputs(c)
           \/ CountSequential(c) \/ CountSequentialInputs(c)
  BY <1>1, <1>8 DEF CountParallel, CountParallelInputs, CountSequential,
       CountSequentialInputs, Counting, Stages
<1>9. CASE VerifyNext(c)
  <2>1. next' \in [Callers -> Nat \ {0}]
    <3>1. \/ next' = next
          \/ next' = [next EXCEPT ![c] = next[c] + 1]
      BY <1>9 DEF VerifyNext
    <3> QED
      BY <1>4, <3>1
  <2>2. pc' \in [Callers -> Stages]
    <3>1. \/ pc' = [pc EXCEPT ![c] = "done"]
          \/ pc' = [pc EXCEPT ![c] = "loop"]
          \/ pc' = [pc EXCEPT ![c] = "fee"]
      BY <1>9 DEF VerifyNext
    <3>2. CASE pc' = [pc EXCEPT ![c] = "done"]
      BY <1>2, <3>2 DEF Stages
    <3>3. CASE pc' = [pc EXCEPT ![c] = "loop"]
      BY <1>2, <3>3 DEF Stages
    <3>4. CASE pc' = [pc EXCEPT ![c] = "fee"]
      BY <1>2, <3>4 DEF Stages
    <3> QED
      BY <3>1, <3>2, <3>3, <3>4
  <2>3. outcome' = [d \in Callers |-> outcome'[d]]
    BY <1>1, <1>9 DEF VerifyNext
  <2>4. UNCHANGED <<tx, data, tasks, results>>
    BY <1>9 DEF VerifyNext
  <2> QED
    BY <1>1, <2>1, <2>2, <2>3, <2>4
<1>10. CASE Launch(c)
  <2>1. next' \in [Callers -> Nat \ {0}]
    <3>1. \/ next' = [next EXCEPT ![c] = next[c] + 1]
          \/ next' = [next EXCEPT ![c] = 1]
      BY <1>10 DEF Launch
    <3> QED
      BY <1>4, <3>1
  <2>2. pc' \in [Callers -> Stages]
    <3>1. \/ pc' = [pc EXCEPT ![c] = "launch"]
          \/ pc' = [pc EXCEPT ![c] = "get"]
      BY <1>10 DEF Launch
    <3>2. CASE pc' = [pc EXCEPT ![c] = "launch"]
      BY <1>2, <3>2 DEF Stages
    <3>3. CASE pc' = [pc EXCEPT ![c] = "get"]
      BY <1>2, <3>3 DEF Stages
    <3> QED
      BY <3>1, <3>2, <3>3
  <2>3. tasks' \in [Callers -> Seq({"running", "ok", "failed"})]
    BY <1>1, <1>10 DEF Launch
  <2> QED
    BY <1>1, <1>10, <2>1, <2>2, <2>3 DEF Launch
<1>11. CASE Unwind(c)
  <2>1. pc' \in [Callers -> Stages]
    BY <1>2, <1>11 DEF Unwind, Stages
  <2>2. tasks' \in [Callers -> Seq({"running", "ok", "failed"})]
    BY <1>1, <1>11 DEF Unwind
  <2>3. outcome' = [d \in Callers |-> outcome'[d]]
    BY <1>1, <1>11 DEF Unwind
  <2>4. UNCHANGED <<tx, data, next, results>>
    BY <1>11 DEF Unwind
  <2> QED
    BY <1>1, <2>1, <2>2, <2>3, <2>4
<1>12. CASE Task(c)
  <2>1. PICK k \in DOMAIN tasks[c] : TaskEnds(c, k)
    BY <1>12 DEF Task
  <2>2. tasks[c] \in Seq({"running", "ok", "failed"})
    BY <1>1
  <2>3. [tasks[c] EXCEPT ![k] = IF Ins(c)[k].valid THEN "ok" ELSE "failed"]
          \in Seq({"running", "ok", "failed"})
    BY <2>1, <2>2
  <2>4. tasks' \in [Callers -> Seq({"running", "ok", "failed"})]
    BY <1>1, <2>1, <2>3 DEF TaskEnds
  <2> QED
    BY <1>1, <2>1, <2>4 DEF TaskEnds
<1>13. CASE Get(c)
  <2>1. next' \in [Callers -> Nat \ {0}]
    <3>1. \/ next' = next
          \/ next' = [next EXCEPT ![c] = next[c] + 1]
      BY <1>13 DEF Get
    <3> QED
      BY <1>4, <3>1
  <2>2. pc' \in [Callers -> Stages]
    <3>1. \/ pc' = [pc EXCEPT ![c] = "get"]
          \/ pc' = [pc EXCEPT ![c] = "report"]
      BY <1>13 DEF Get
    <3>2. CASE pc' = [pc EXCEPT ![c] = "get"]
      BY <1>2, <3>2 DEF Stages
    <3>3. CASE pc' = [pc EXCEPT ![c] = "report"]
      BY <1>2, <3>3 DEF Stages
    <3> QED
      BY <3>1, <3>2, <3>3
  <2>3. tasks[c][next[c]] \in {"ok", "failed"}
    <3>1. tasks[c] \in Seq({"running", "ok", "failed"})
      BY <1>1
    <3>2. next[c] \in DOMAIN tasks[c]
      <4>1. Len(tasks[c]) = InputCount(c) /\ next[c] \in DOMAIN Ins(c)
        BY <1>13 DEF Get, CallInv, TasksOfInputs, CursorInPlace
      <4>2. next[c] \in 1 .. Len(tasks[c])
        BY <4>1, InsType
      <4> QED
        BY <3>1, <4>2
    <3> QED
      BY <1>13, <3>1, <3>2 DEF Get
  <2>4. results' \in [Callers -> Seq({"ok", "failed"})]
    BY <1>1, <1>13, <2>3 DEF Get
  <2> QED
    BY <1>1, <1>13, <2>1, <2>2, <2>4 DEF Get
<1>14. CASE Report(c)
  <2>1. pc' \in [Callers -> Stages]
    <3>1. \/ pc' = [pc EXCEPT ![c] = "fee"]
          \/ pc' = [pc EXCEPT ![c] = "done"]
      BY <1>14 DEF Report
    <3>2. CASE pc' = [pc EXCEPT ![c] = "fee"]
      BY <1>2, <3>2 DEF Stages
    <3>3. CASE pc' = [pc EXCEPT ![c] = "done"]
      BY <1>2, <3>3 DEF Stages
    <3> QED
      BY <3>1, <3>2, <3>3
  <2>2. tasks' \in [Callers -> Seq({"running", "ok", "failed"})]
    BY <1>1, <1>14 DEF Report
  <2>3. outcome' = [d \in Callers |-> outcome'[d]]
    BY <1>1, <1>14 DEF Report
  <2>4. UNCHANGED <<tx, data, next, results>>
    BY <1>14 DEF Report
  <2> QED
    BY <1>1, <2>1, <2>2, <2>3, <2>4
<1>15. CASE ComputeFee(c)
  <2>1. pc' \in [Callers -> Stages]
    BY <1>2, <1>15 DEF ComputeFee, Stages
  <2>2. outcome' = [d \in Callers |-> outcome'[d]]
    BY <1>1, <1>15 DEF ComputeFee
  <2>3. UNCHANGED <<tx, data, next, tasks, results>>
    BY <1>15 DEF ComputeFee
  <2> QED
    BY <1>1, <2>1, <2>2, <2>3
<1>16. CASE Return(c)
  <2>1. pc' \in [Callers -> Stages]
    BY <1>2, <1>16 DEF Return, Stages
  <2>2. tx' \in [Callers -> Txs \cup {NoTx}] /\ next' \in [Callers -> Nat \ {0}]
    BY <1>1, <1>16 DEF Return
  <2>3. /\ data' \in [Callers -> Seq(Nat)]
        /\ results' \in [Callers -> Seq({"ok", "failed"})]
    BY <1>1, <1>16 DEF Return
  <2>4. outcome' = [d \in Callers |-> outcome'[d]] /\ tasks' = tasks
    BY <1>1, <1>16 DEF Return
  <2> QED
    BY <1>1, <2>1, <2>2, <2>3, <2>4
<1> QED
  BY <1>5, <1>6, <1>7, <1>8, <1>9, <1>10, <1>11, <1>12, <1>13, <1>14, <1>15, <1>16
     DEF Step

-----------------------------------------------------------------------------
(* The induction step                                                      *)

LEMMA IInvStep == IInv /\ [Next]_vars => IInv'
<1> SUFFICES ASSUME IInv, [Next]_vars PROVE IInv'
  OBVIOUS
<1>1. /\ TypeOK /\ ConfigInv
      /\ \A c \in Callers : CallInv(c) /\ OwnFee(c)
      /\ VerdictIsFirstFailure
  BY DEF IInv
<1>2. ASSUME NEW c \in Callers, Begin(c) \/ Step(c) \/ Task(c) PROVE IInv'
  <2>2. ConfigInv'
    BY <1>1, <1>2, ConfigOfCall
  <2>1. TypeOK'
    BY <1>1, <1>2, <2>2, CallTypesStep DEF TypeOK, CallTypes, ConfigInv
  <2>3. ASSUME NEW d \in Callers
        PROVE  CallInv(d)' /\ OwnFee(d)' /\ (d # c => SameCall(d))
    BY <1>1, <1>2, StepKeeps, OwnFeeKept, OtherCall, SameCallInv
  <2>4. ASSUME NEW d \in Callers
        PROVE  /\ outcome'[d].kind = "failed" =>
                    /\ ~ Ins(d)'[outcome'[d].input].valid
                    /\ \A i \in 1 .. outcome'[d].input - 1 : Ins(d)'[i].valid
               /\ outcome'[d].kind = "fee" => AllValid(d)'
    <3>1. /\ outcome[d].kind = "failed" =>
               /\ ~ Ins(d)[outcome[d].input].valid
               /\ \A i \in 1 .. outcome[d].input - 1 : Ins(d)[i].valid
          /\ outcome[d].kind = "fee" => AllValid(d)
      BY <1>1 DEF VerdictIsFirstFailure
    <3>2. CASE d = c
      BY <1>1, <1>2, <3>1, <3>2, OwnVerdict
    <3>3. CASE d # c
      BY <2>3, <3>1, <3>3 DEF SameCall, Ins, AllValid
    <3> QED
      BY <3>2, <3>3
  <2>5. VerdictIsFirstFailure'
    BY <2>4 DEF VerdictIsFirstFailure
  <2> QED
    BY <2>1, <2>2, <2>3, <2>5 DEF IInv
<1>3. ASSUME UNCHANGED callVars, ConfigInv' PROVE IInv'
  <2>1. /\ pc' = pc /\ tx' = tx /\ data' = data /\ next' = next
        /\ tasks' = tasks /\ results' = results /\ outcome' = outcome
    BY <1>3 DEF callVars
  <2>2. TypeOK'
    BY <1>1, <1>3, <2>1 DEF TypeOK, ConfigInv
  <2>3. ASSUME NEW c \in Callers PROVE CallInv(c)' /\ OwnFee(c)'
    BY <1>1, <2>1, SameCallInv DEF SameCall
  <2>4. VerdictIsFirstFailure'
    BY <1>1, <2>1 DEF VerdictIsFirstFailure, Ins, AllValid
  <2> QED
    BY <1>3, <2>2, <2>3, <2>4 DEF IInv
<1>4. ASSUME NEW a \in Admins, AdminStep(a), UNCHANGED callVars PROVE IInv'
  BY <1>1, <1>3, <1>4, AdminKeeps
<1>5. CASE UNCHANGED vars
  BY <1>1, <1>3, <1>5, SameConfig DEF vars
<1> QED
  BY <1>2, <1>4, <1>5 DEF Next

-----------------------------------------------------------------------------
(* The theorems                                                            *)

\* The inductive invariant of validate_transaction and of its configuration.
THEOREM InductiveInvariant == Spec => []IInv
<1>1. Init => IInv
  BY IInvInit
<1>2. IInv /\ [Next]_vars => IInv'
  BY IInvStep
<1> QED
  BY <1>1, <1>2, PTL DEF Spec

\* Each variable of the calls and of the configuration always has its type.
THEOREM TypeCorrect == Spec => []TypeOK
<1>1. IInv => TypeOK
  BY DEF IInv
<1> QED
  BY <1>1, InductiveInvariant, PTL

\* Sequential or parallel, whenever its tasks end and whoever toggles the
\* mode: a call names the first input that fails, or has verified them all.
THEOREM VerdictCorrect == Spec => []VerdictIsFirstFailure
<1>1. IInv => VerdictIsFirstFailure
  BY DEF IInv
<1> QED
  BY <1>1, InductiveInvariant, PTL

\* What a fee is computed from.
LEMMA FeeOfInputs == IInv => FeeFromKnownInputs
<1> SUFFICES ASSUME IInv, NEW c \in Callers, outcome[c].kind = "fee"
             PROVE  /\ data[c] = Amounts(tx[c])
                    /\ \A i \in DOMAIN Ins(c) : Ins(c)[i].prevout # "unknown"
                    /\ outcome[c].fee = Unspent(tx[c])
  BY DEF FeeFromKnownInputs
<1>1. CallInv(c) /\ OwnFee(c) /\ TypeOK
  BY DEF IInv
<1>2. Len(data[c]) = InputCount(c) /\ data[c] \in Seq(Nat)
  BY <1>1 DEF CallInv, Verified, TypeOK
<1>3. DOMAIN data[c] = DOMAIN Ins(c)
  BY <1>1, <1>2, InsType
<1>4. data[c] = Amounts(tx[c])
  BY <1>1, <1>2, <1>3 DEF OwnFee, Amounts, Ins
<1>5. \A i \in DOMAIN Ins(c) : Ins(c)[i].prevout # "unknown"
  BY <1>1, <1>3 DEF CallInv, DataCollected
<1> QED
  BY <1>1, <1>4, <1>5 DEF OwnFee, InputsMinusOutputs, Unspent

\* A fee is what the outputs leave of the amounts of all the inputs, each of
\* an output that the node knows, for any transactions and modes.
THEOREM FeeCorrect == Spec => []FeeFromKnownInputs
<1> QED
  BY FeeOfInputs, InductiveInvariant, PTL

\* No task runs after the call that started it has returned or thrown.
THEOREM NoTaskOutlivesItsCall == Spec => []TasksJoined
<1>1. IInv => TasksJoined
  <2> SUFFICES ASSUME IInv, NEW c \in Callers, "running" \in ToSet(tasks[c])
               PROVE  pc[c] \in {"launch", "get", "unwind"}
    BY DEF TasksJoined
  <2>1. CallInv(c) /\ TypeOK
    BY DEF IInv
  <2>2. PICK i \in DOMAIN tasks[c] : tasks[c][i] = "running"
    BY DEF ToSet
  <2>3. tasks[c] # <<>> /\ pc[c] \in WithTasks
    BY <2>1, <2>2 DEF CallInv, TasksOfInputs
  <2>4. pc[c] # "report"
    <3> SUFFICES ASSUME pc[c] = "report" PROVE FALSE
      OBVIOUS
    <3>1. /\ Len(tasks[c]) = InputCount(c) /\ Len(results[c]) = InputCount(c)
          /\ \A k \in DOMAIN results[c] : tasks[c][k] # "running"
      BY <2>1 DEF CallInv, TasksOfInputs, ResultsOfTasks
    <3>2. /\ tasks[c] \in Seq({"running", "ok", "failed"})
          /\ results[c] \in Seq({"ok", "failed"})
      BY <2>1 DEF TypeOK
    <3>3. DOMAIN tasks[c] = DOMAIN results[c]
      BY <3>1, <3>2
    <3> QED
      BY <2>2, <3>1, <3>3
  <2> QED
    BY <2>3, <2>4 DEF WithTasks
<1> QED
  BY <1>1, InductiveInvariant, PTL

\* Whatever clients send to /parallel-config, whatever the machine reports and
\* however the handlers interleave, between the two reads of max_threads too:
\* an answered thread count is in range, and 0 only in a call during which
\* max_threads was written.  For any width of an int.
THEOREM ThreadCountAlwaysInRange == ConfigSpec => []ThreadCountInRange
<1>1. ConfigInv /\ [\E a \in Admins : AdminStep(a)]_configVars => ConfigInv'
  BY AdminKeeps, SameConfig
<1>2. ConfigInv => ThreadCountInRange
  BY DEF ConfigInv
<1> QED
  BY <1>1, <1>2, ConfigStarts, PTL DEF ConfigSpec

-----------------------------------------------------------------------------
(* The calls between their two increments                                  *)

Counted == InputsOf("parallel inputs")

LEMMA CountedFinite ==
  /\ IsFiniteSet(Counted) /\ Cardinality(Counted) \in Nat
  /\ Counted = {} => Cardinality(Counted) = 0
<1>1. Counted \in SUBSET Callers
  BY DEF Counted, InputsOf
<1>2. IsFiniteSet(Counted)
  BY <1>1, CallersAssumption, FS_Subset
<1> QED
  BY <1>2, FS_CardinalityType, FS_EmptySet

\* One call goes in or comes out, whatever the others do.
LEMMA CountedStep ==
  ASSUME TypeOK, NEW c \in Callers,
         \A d \in Callers : d # c => pc'[d] = pc[d]
  PROVE  /\ (pc'[c] = "parallel inputs" <=> pc[c] = "parallel inputs")
               => Counted' = Counted
         /\ pc[c] # "parallel inputs" /\ pc'[c] = "parallel inputs"
               => Cardinality(Counted)' = Cardinality(Counted) + 1
         /\ pc[c] = "parallel inputs" /\ pc'[c] # "parallel inputs"
               => Cardinality(Counted)' = Cardinality(Counted) - 1
<1>0. \A d : /\ d \in Counted <=> d \in Callers /\ pc[d] = "parallel inputs"
             /\ d \in Counted' <=> d \in Callers /\ pc'[d] = "parallel inputs"
  BY DEF Counted, InputsOf
<1>1. ASSUME pc'[c] = "parallel inputs" <=> pc[c] = "parallel inputs"
      PROVE  Counted' = Counted
  <2>1. \A d : d \in Counted' <=> d \in Counted
    BY <1>0, <1>1
  <2> QED
    BY <2>1
<1>2. ASSUME pc[c] # "parallel inputs", pc'[c] = "parallel inputs"
      PROVE  Cardinality(Counted)' = Cardinality(Counted) + 1
  <2>1. \A d : d \in Counted' <=> d \in Counted \cup {c}
    BY <1>0, <1>2
  <2>2. Counted' = Counted \cup {c} /\ c \notin Counted
    BY <1>0, <1>2, <2>1
  <2> QED
    BY <2>2, CountedFinite, FS_AddElement
<1>3. ASSUME pc[c] = "parallel inputs", pc'[c] # "parallel inputs"
      PROVE  Cardinality(Counted)' = Cardinality(Counted) - 1
  <2>1. \A d : d \in Counted' <=> d \in Counted \ {c}
    BY <1>0, <1>3
  <2>2. Counted' = Counted \ {c} /\ c \in Counted
    BY <1>0, <1>3, <2>1
  <2> QED
    BY <2>2, CountedFinite, FS_RemoveElement
<1> QED
  BY <1>1, <1>2, <1>3

-----------------------------------------------------------------------------
(* The steps of a call                                                     *)

\* A step that is no increment.
Uncounted(c) ==
  /\ UNCHANGED counters
  /\ pc'[c] \in {"parallel inputs", "sequential inputs"} => pc'[c] = pc[c]
  /\ pc[c] = "parallel inputs" => pc'[c] = pc[c]
  /\ pc'[c] \in {"parallel", "parallel inputs"} => InputCount(c)' >= MinInputs

LEMMA UncountedSteps ==
  ASSUME TypeOK, NEW c \in Callers, StatsInv,
         Begin(c) \/ Step(c) \/ Task(c),
         ~ (\/ CountParallel(c) \/ CountParallelInputs(c)
            \/ CountSequential(c) \/ CountSequentialInputs(c))
  PROVE  Uncounted(c)
<1> USE DEF TypeOK, Uncounted, configVars, Goto, End
<1>1. CASE Begin(c) \/ TxoutNull(c) \/ RpcFails(c)
  BY <1>1 DEF Begin, TxoutNull, RpcFails
<1>2. CASE TxoutFound(c) \/ RawFound(c)
  BY <1>2 DEF TxoutFound, RawFound, Collected
<1>3. CASE Decide(c)
  <2>1. InputCount(c)' = InputCount(c)
    BY <1>3 DEF Decide, InputCount, Ins
  <2> QED
    BY <1>3, <2>1 DEF Decide, UseParallel
<1>4. CASE VerifyNext(c) \/ Launch(c) \/ LaunchFails(c) \/ Unwind(c)
  BY <1>4 DEF VerifyNext, Launch, LaunchFails, Unwind
<1>5. CASE Get(c) \/ Report(c) \/ ComputeFee(c) \/ Return(c)
  BY <1>5 DEF Get, Report, ComputeFee, Return
<1>6. CASE Task(c)
  <2>1. pc' = pc /\ UNCHANGED counters /\ InputCount(c)' = InputCount(c)
    BY <1>6 DEF Task, TaskEnds, InputCount, Ins
  <2> QED
    BY <2>1 DEF StatsInv
<1> QED
  BY <1>1, <1>2, <1>3, <1>4, <1>5, <1>6 DEF Step
\* The increments.
LEMMA CountedSteps ==
  ASSUME TypeOK, NEW c \in Callers, StatsInv,
         \/ CountParallel(c) \/ CountParallelInputs(c)
         \/ CountSequential(c) \/ CountSequentialInputs(c)
  PROVE  StatsInv'
<1> DEFINE n == Cardinality(Counted)
<1>0. /\ parallelValidations \in Nat /\ totalInputsParallel \in Nat
      /\ sequentialValidations \in Nat /\ totalInputsSequential \in Nat
      /\ MinInputs \in Nat
  BY MinInputsAssumption DEF TypeOK, ConfigTypeOK
<1> PICK k \in Nat : k = InputCount(c)
  BY InsType
<1>1. \A d \in Callers : d # c => pc'[d] = pc[d] /\ InputCount(d)' = InputCount(d)
  BY DEF CountParallel, CountParallelInputs, CountSequential,
         CountSequentialInputs, Counting, Goto, TypeOK, InputCount, Ins
<1>2. InputCount(c)' = InputCount(c)
  BY DEF CountParallel, CountParallelInputs, CountSequential,
         CountSequentialInputs, Counting, InputCount, Ins
<1>3. /\ n \in Nat /\ n' \in Nat
      /\ totalInputsParallel >= MinInputs * (parallelValidations - n)
      /\ parallelValidations = 0 => totalInputsParallel = 0
      /\ sequentialValidations = 0 => totalInputsSequential = 0
  <2>1. n' \in Nat
    <3>1. Counted' \in SUBSET Callers
      BY DEF Counted, InputsOf
    <3> QED
      BY <3>1, CallersAssumption, FS_Subset, FS_CardinalityType
  <2> QED
    BY <2>1, CountedFinite DEF StatsInv, StatsAgree, Counted
<1>4. /\ totalInputsParallel' >= MinInputs * (parallelValidations' - n')
      /\ parallelValidations' = 0 => totalInputsParallel' = 0
      /\ sequentialValidations' = 0 => totalInputsSequential' = 0
      => StatsAgree'
  BY DEF StatsAgree, Counted
<1>5. CASE CountParallel(c)
  <2>0. pc[c] = "parallel" /\ pc'[c] = "parallel inputs"
    BY <1>5 DEF CountParallel, Counting, Goto, RecordParallel, TypeOK
  <2>1. /\ parallelValidations' = parallelValidations + 1
        /\ totalInputsParallel' = totalInputsParallel
        /\ sequentialValidations' = sequentialValidations
        /\ totalInputsSequential' = totalInputsSequential
    BY <1>5 DEF CountParallel, Counting, Goto, RecordParallel, TypeOK
  <2>2. n' = n + 1
    BY <1>1, <2>0, CountedStep
  <2>3. parallelValidations' - n' = parallelValidations - n
    BY <1>3, <2>1, <2>2, <1>0
  <2>4. /\ totalInputsParallel' >= MinInputs * (parallelValidations' - n')
        /\ parallelValidations' > 0
    BY <1>3, <2>1, <2>3, <1>0
  <2>5. StatsAgree'
    BY <1>0, <1>3, <1>4, <2>1, <2>4
  <2> QED
    BY <1>1, <1>2, <2>0, <2>1, <2>4, <2>5 DEF StatsInv
<1>6. CASE CountParallelInputs(c)
  <2>0. pc[c] = "parallel inputs" /\ pc'[c] = "launch"
    BY <1>6 DEF CountParallelInputs, Counting, Goto, RecordParallelInputs, TypeOK
  <2>1. /\ parallelValidations' = parallelValidations
        /\ totalInputsParallel' = totalInputsParallel + k
        /\ sequentialValidations' = sequentialValidations
        /\ totalInputsSequential' = totalInputsSequential
    BY <1>6 DEF CountParallelInputs, Counting, Goto, RecordParallelInputs, TypeOK
  <2>2. n' = n - 1
    BY <1>1, <2>0, CountedStep
  <2>3. k >= MinInputs /\ parallelValidations > 0
    BY <2>0 DEF StatsInv
  <2>4. MinInputs * (parallelValidations' - n')
          = MinInputs * (parallelValidations - n) + MinInputs
    BY <1>3, <2>1, <2>2, <1>0
  <2>5. MinInputs * (parallelValidations - n) \in Int
    BY <1>3, <1>0
  <2>6. totalInputsParallel' >= MinInputs * (parallelValidations' - n')
    BY <1>3, <2>1, <2>3, <2>4, <2>5, <1>0
  <2>7. StatsAgree'
    BY <1>0, <1>3, <1>4, <2>1, <2>3, <2>6
  <2> QED
    BY <1>1, <1>2, <2>0, <2>1, <2>7 DEF StatsInv
<1>7. CASE CountSequential(c)
  <2>0. pc[c] = "sequential" /\ pc'[c] = "sequential inputs"
    BY <1>7 DEF CountSequential, Counting, Goto, RecordSequential, TypeOK
  <2>1. /\ parallelValidations' = parallelValidations
        /\ totalInputsParallel' = totalInputsParallel
        /\ sequentialValidations' = sequentialValidations + 1
        /\ totalInputsSequential' = totalInputsSequential
    BY <1>7 DEF CountSequential, Counting, Goto, RecordSequential, TypeOK
  <2>2. Counted' = Counted
    BY <1>1, <2>0, CountedStep
  <2>3. StatsAgree'
    BY <1>0, <1>3, <1>4, <2>1, <2>2
  <2>4. sequentialValidations' > 0
    BY <2>1, <1>0
  <2> QED
    BY <1>1, <1>2, <2>0, <2>1, <2>3, <2>4 DEF StatsInv
<1>8. CASE CountSequentialInputs(c)
  <2>0. pc[c] = "sequential inputs" /\ pc'[c] \in {"fee", "loop"}
    BY <1>8
       DEF CountSequentialInputs, Counting, Goto, RecordSequentialInputs, TypeOK
  <2>1. /\ parallelValidations' = parallelValidations
        /\ totalInputsParallel' = totalInputsParallel
        /\ sequentialValidations' = sequentialValidations
    BY <1>8
       DEF CountSequentialInputs, Counting, Goto, RecordSequentialInputs, TypeOK
  <2>2. Counted' = Counted
    BY <1>1, <2>0, CountedStep
  <2>3. sequentialValidations > 0
    BY <2>0 DEF StatsInv
  <2>4. StatsAgree'
    BY <1>0, <1>3, <1>4, <2>1, <2>2, <2>3
  <2> QED
    BY <1>1, <1>2, <2>0, <2>1, <2>4 DEF StatsInv
<1> QED
  BY <1>5, <1>6, <1>7, <1>8

LEMMA StatsStep == IInv /\ StatsInv /\ [Next]_vars => StatsInv'
<1> SUFFICES ASSUME IInv, StatsInv, [Next]_vars PROVE StatsInv'
  OBVIOUS
<1>0. TypeOK
  BY DEF IInv
<1>1. ASSUME UNCHANGED <<pc, tx, counters>> PROVE StatsInv'
  BY <1>1 DEF StatsInv, StatsAgree, InputsOf, InputCount, Ins, counters
<1>2. ASSUME NEW c \in Callers, Begin(c) \/ Step(c) \/ Task(c) PROVE StatsInv'
  <2>1. CASE \/ CountParallel(c) \/ CountParallelInputs(c)
             \/ CountSequential(c) \/ CountSequentialInputs(c)
    BY <1>0, <2>1, CountedSteps
  <2>2. CASE ~ (\/ CountParallel(c) \/ CountParallelInputs(c)
                \/ CountSequential(c) \/ CountSequentialInputs(c))
    <3>1. Uncounted(c)
      BY <1>0, <1>2, <2>2, UncountedSteps
    <3>2. \A d \in Callers : d # c => SameCall(d)
      BY <1>0, <1>2, OtherCall
    <3>3. Counted' = Counted
      BY <1>0, <3>1, <3>2, CountedStep DEF SameCall, Uncounted
    <3>4. StatsAgree'
      BY <3>1, <3>3 DEF Uncounted, counters, StatsInv, StatsAgree, Counted
    <3>5. ASSUME NEW d \in Callers
          PROVE  /\ pc'[d] \in {"parallel", "parallel inputs"} =>
                      InputCount(d)' >= MinInputs
                 /\ pc'[d] = "parallel inputs" => parallelValidations' > 0
                 /\ pc'[d] = "sequential inputs" => sequentialValidations' > 0
      <4>1. CASE d = c
        BY <3>1, <4>1 DEF Uncounted, counters, StatsInv
      <4>2. CASE d # c
        BY <3>1, <3>2, <4>2
           DEF Uncounted, counters, SameCall, StatsInv, InputCount, Ins
      <4> QED
        BY <4>1, <4>2
    <3> QED
      BY <3>4, <3>5 DEF StatsInv
  <2> QED
    BY <2>1, <2>2
<1>3. ASSUME NEW a \in Admins, AdminStep(a), UNCHANGED callVars PROVE StatsInv'
  <2>1. UNCHANGED counters
    BY <1>3 DEF AdminStep, ConfigReceive, ConfigEnabled, ConfigRefused,
         ConfigThreads, ReportEnabled, ReportThreads, ThreadsConfigured,
         ReportConfigured, ReportDetected, ConfigRespond, counters
  <2> QED
    BY <1>1, <1>3, <2>1 DEF callVars
<1>4. CASE UNCHANGED vars
  BY <1>1, <1>4 DEF vars, configVars, callVars
<1> QED
  BY <1>2, <1>3, <1>4 DEF Next

\* However many calls run, and whatever is written to enabled meanwhile: the
\* inputs counted as parallel are at least the threshold for each validation
\* counted, up to the calls between their two increments.
THEOREM StatisticsAgree == Spec => []StatsAgree
<1>1. Init => StatsInv
  <2> SUFFICES ASSUME Init PROVE StatsInv
    OBVIOUS
  <2>1. /\ \A c \in Callers : pc[c] = "idle"
        /\ parallelValidations = 0 /\ totalInputsParallel = 0
        /\ sequentialValidations = 0 /\ totalInputsSequential = 0
    BY DEF Init, ConfigInit
  <2>2. Cardinality(InputsOf("parallel inputs")) = 0
    <3>1. Counted = {}
      BY <2>1 DEF Counted, InputsOf
    <3> QED
      BY <3>1, CountedFinite DEF Counted
  <2>3. 0 >= MinInputs * (0 - 0)
    BY MinInputsAssumption
  <2>4. StatsAgree
    BY <2>1, <2>2, <2>3 DEF StatsAgree
  <2> QED
    BY <2>1, <2>4 DEF StatsInv
<1>2. StatsInv => StatsAgree
  BY DEF StatsInv
<1> QED
  BY InductiveInvariant, StatsStep, <1>1, <1>2, PTL DEF Spec
=============================================================================
