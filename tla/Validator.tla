------------------------------ MODULE Validator ------------------------------
(***************************************************************************)
(* validate_transaction (validation/validator.cpp), called by the handlers *)
(* of /verify and /mempool/add, together with ParallelConfig, whose fields *)
(* it reads and whose statistics it bumps.                                 *)
(*                                                                         *)
(* A call fetches the output each input spends, one or two RPCs to the     *)
(* node per input; decides between the sequential loop and one             *)
(* std::async task per input; verifies; and returns the fee, the first     *)
(* failing input (ValidationError) or another exception.                   *)
(*                                                                         *)
(* A transaction is a record [ins, out]: its inputs and the sum of its     *)
(* outputs.  An input is [amount, valid, prevout]: the value it spends,    *)
(* what script verification will say, and where the node knows the output: *)
(* unspent on the chain, spent on the chain (getrawtransaction still finds *)
(* it on a node with an index), in the node's mempool, or nowhere.         *)
(***************************************************************************)
EXTENDS ParallelConfig, SequencesExt

CONSTANTS Callers,        \* the threads that validate transactions
          Txs,            \* the transactions they are given
          MinInputs,      \* MIN_INPUTS_FOR_PARALLEL
          MaxValidations  \* bound: verifications started in a behaviour

Prevouts == {"unspent", "spent", "mempool", "unknown"}
InputType == [amount : Nat, valid : BOOLEAN, prevout : Prevouts]

ASSUME CallersAssumption == IsFiniteSet(Callers)
ASSUME TxsAssumption == Txs \subseteq [ins : Seq(InputType), out : Nat]
ASSUME MinInputsAssumption == MinInputs \in Nat \ {0}
ASSUME MaxValidationsAssumption == MaxValidations \in Nat

VARIABLES pc,             \* where each call stands
          tx,             \* its transaction
          data,           \* input_data: the amounts collected so far
          next,           \* the input the current loop is at
          tasks,          \* the futures: the state of the task of each input
          results,        \* the results taken from them
          outcome         \* what the call returns or throws

callVars == <<pc, tx, data, next, tasks, results, outcome>>
vars == <<configVars, callVars>>

Stages == {"idle", "gettxout", "getrawtransaction", "decide",
           "parallel", "parallel inputs", "sequential", "sequential inputs",
           "loop", "launch", "get", "unwind", "report", "fee", "done"}

NoTx == [ins |-> <<>>, out |-> 0]
None == [kind |-> "none"]

Ins(c) == tx[c].ins
InputCount(c) == Len(Ins(c))
Current(c) == Ins(c)[next[c]]

Init ==
  /\ ConfigInit
  /\ pc = [c \in Callers |-> "idle"]
  /\ tx = [c \in Callers |-> NoTx]
  /\ data = [c \in Callers |-> <<>>]
  /\ next = [c \in Callers |-> 1]
  /\ tasks = [c \in Callers |-> <<>>]
  /\ results = [c \in Callers |-> <<>>]
  /\ outcome = [c \in Callers |-> None]

Goto(c, stage) == pc' = [pc EXCEPT ![c] = stage]
At(c, i) == next' = [next EXCEPT ![c] = i]

\* The call ends, by return or by exception.
End(c, o) ==
  /\ Goto(c, "done")
  /\ outcome' = [outcome EXCEPT ![c] = o]

Error == [kind |-> "error"]                         \* std::runtime_error etc.
Failed(i) == [kind |-> "failed", input |-> i]       \* ValidationError
Fee(n) == [kind |-> "fee", fee |-> n]               \* ValidationResult

-----------------------------------------------------------------------------
(* collect_input_data                                                      *)

\* Bound: calls that may still be counted in the statistics.
MayStart ==
  parallelValidations + sequentialValidations
    + Cardinality({c \in Callers : pc[c] # "idle"}) < MaxValidations

\* A transaction without inputs deserializes too: nothing to collect.
Begin(c) ==
  /\ pc[c] = "idle"
  /\ MayStart
  /\ \E t \in Txs :
       /\ tx' = [tx EXCEPT ![c] = t]
       /\ Goto(c, IF t.ins = <<>> THEN "decide" ELSE "gettxout")
  /\ UNCHANGED <<configVars, data, next, tasks, results, outcome>>

\* Mutant: the verification loops start at 0.
CollectedZeroBased(c) ==
  /\ data' = [data EXCEPT ![c] = Append(@, Current(c).amount)]
  /\ IF next[c] < InputCount(c)
     THEN Goto(c, "gettxout") /\ At(c, next[c] + 1)
     ELSE Goto(c, "decide") /\ At(c, 0)
  /\ UNCHANGED <<configVars, tx, tasks, results, outcome>>

\* An input is done: the next one is asked for, or verification begins.
Collected(c) ==
  /\ data' = [data EXCEPT ![c] = Append(@, Current(c).amount)]
  /\ IF next[c] < InputCount(c)
     THEN Goto(c, "gettxout") /\ At(c, next[c] + 1)
     ELSE Goto(c, "decide") /\ At(c, 1)
  /\ UNCHANGED <<configVars, tx, tasks, results, outcome>>

\* gettxout finds the output (include_mempool is false).
TxoutFound(c) ==
  /\ pc[c] = "gettxout"
  /\ Current(c).prevout = "unspent"
  /\ Collected(c)

\* gettxout answers null.
TxoutNull(c) ==
  /\ pc[c] = "gettxout"
  /\ Current(c).prevout # "unspent"
  /\ Goto(c, "getrawtransaction")
  /\ UNCHANGED <<configVars, tx, data, next, tasks, results, outcome>>

\* Mutant: the value of the output is not taken from the answer.
RawFoundUnpriced(c) ==
  /\ pc[c] = "getrawtransaction"
  /\ Current(c).prevout \in {"spent", "mempool"}
  /\ data' = [data EXCEPT ![c] = Append(@, 0)]
  /\ IF next[c] < InputCount(c)
     THEN Goto(c, "gettxout") /\ At(c, next[c] + 1)
     ELSE Goto(c, "decide") /\ At(c, 1)
  /\ UNCHANGED <<configVars, tx, tasks, results, outcome>>

\* The fallback finds the transaction that created the output.
RawFound(c) ==
  /\ pc[c] = "getrawtransaction"
  /\ Current(c).prevout \in {"spent", "mempool"}
  /\ Collected(c)

\* Mutant: an RPC that failed is tried again, without a limit.
RpcFailsRetried(c) ==
  /\ pc[c] \in {"gettxout", "getrawtransaction"}
  /\ Goto(c, "gettxout")
  /\ UNCHANGED <<configVars, tx, data, next, tasks, results, outcome>>

\* An RPC fails: a timeout, an HTTP or an RPC error, a missing prevout.
RpcFails(c) ==
  /\ pc[c] \in {"gettxout", "getrawtransaction"}
  /\ End(c, Error)
  /\ UNCHANGED <<configVars, tx, data, next, tasks, results>>

-----------------------------------------------------------------------------
(* The decision and the statistics                                         *)

\* Mutant: the threshold is forgotten.
UseParallelAlways(c) == enabled

\* enabled is read once, without synchronisation.
UseParallel(c) == enabled /\ InputCount(c) >= MinInputs

Decide(c) ==
  /\ pc[c] = "decide"
  /\ Goto(c, IF UseParallel(c) THEN "parallel" ELSE "sequential")
  /\ UNCHANGED <<configVars, tx, data, next, tasks, results, outcome>>

Counting(c, from, to) ==
  /\ pc[c] = from
  /\ Goto(c, to)
  /\ UNCHANGED <<settings, adminVars, tx, data, next, tasks, results, outcome>>

CountParallel(c) ==
  Counting(c, "parallel", "parallel inputs") /\ RecordParallel

CountParallelInputs(c) ==
  /\ Counting(c, "parallel inputs", "launch")
  /\ RecordParallelInputs(InputCount(c))

CountSequential(c) ==
  Counting(c, "sequential", "sequential inputs") /\ RecordSequential

CountSequentialInputs(c) ==
  /\ Counting(c, "sequential inputs", IF Ins(c) = <<>> THEN "fee" ELSE "loop")
  /\ RecordSequentialInputs(InputCount(c))

-----------------------------------------------------------------------------
(* verify_inputs_sequential                                                *)

VerifyNext(c) ==
  /\ pc[c] = "loop"
  /\ IF ~ Current(c).valid
     THEN End(c, Failed(next[c])) /\ UNCHANGED next
     ELSE /\ UNCHANGED outcome
          /\ IF next[c] < InputCount(c)
             THEN Goto(c, "loop") /\ At(c, next[c] + 1)
             ELSE Goto(c, "fee") /\ UNCHANGED next
  /\ UNCHANGED <<configVars, tx, data, tasks, results>>

-----------------------------------------------------------------------------
(* verify_inputs_parallel                                                  *)

\* One std::async per input, in order; nothing limits their number.
Launch(c) ==
  /\ pc[c] = "launch"
  /\ tasks' = [tasks EXCEPT ![c] = Append(@, "running")]
  /\ IF next[c] < InputCount(c)
     THEN Goto(c, "launch") /\ At(c, next[c] + 1)
     ELSE Goto(c, "get") /\ At(c, 1)
  /\ UNCHANGED <<configVars, tx, data, results, outcome>>

\* The thread cannot be started: std::system_error leaves the loop.
LaunchFails(c) ==
  /\ pc[c] = "launch"
  /\ Goto(c, "unwind")
  /\ UNCHANGED <<configVars, tx, data, next, tasks, results, outcome>>

\* Mutant: the threads are detached, nothing joins them.
UnwindDetached(c) ==
  /\ pc[c] = "unwind"
  /\ End(c, Error)
  /\ UNCHANGED <<configVars, tx, data, next, tasks, results>>

\* Mutant: it waits for a result of every input, launched or not.
UnwindWaitsForAll(c) ==
  /\ pc[c] = "unwind"
  /\ Len(tasks[c]) = InputCount(c)
  /\ "running" \notin ToSet(tasks[c])
  /\ tasks' = [tasks EXCEPT ![c] = <<>>]
  /\ End(c, Error)
  /\ UNCHANGED <<configVars, tx, data, next, results>>

\* The vector of futures is destroyed: each destructor joins its task.
Unwind(c) ==
  /\ pc[c] = "unwind"
  /\ "running" \notin ToSet(tasks[c])
  /\ tasks' = [tasks EXCEPT ![c] = <<>>]
  /\ End(c, Error)
  /\ UNCHANGED <<configVars, tx, data, next, results>>

\* A task ends, whenever its thread gets to it.
TaskEnds(c, i) ==
  /\ i \in DOMAIN tasks[c]
  /\ tasks[c][i] = "running"
  /\ tasks' = [tasks EXCEPT ![c][i] = IF Ins(c)[i].valid THEN "ok" ELSE "failed"]
  /\ UNCHANGED <<configVars, pc, tx, data, next, results, outcome>>

\* future.get(), in the order of the inputs, each waiting for its task.
Get(c) ==
  /\ pc[c] = "get"
  /\ tasks[c][next[c]] # "running"
  /\ results' = [results EXCEPT ![c] = Append(@, tasks[c][next[c]])]
  /\ IF next[c] < InputCount(c)
     THEN Goto(c, "get") /\ At(c, next[c] + 1)
     ELSE Goto(c, "report") /\ UNCHANGED next
  /\ UNCHANGED <<configVars, tx, data, tasks, outcome>>

\* Mutant: any failure is thrown, as if results came in completion order.
ReportAny(c) ==
  /\ pc[c] = "report"
  /\ \/ /\ \A i \in DOMAIN results[c] : results[c][i] = "ok"
        /\ Goto(c, "fee")
        /\ UNCHANGED outcome
     \/ \E i \in DOMAIN results[c] :
          results[c][i] = "failed" /\ End(c, Failed(i))
  /\ tasks' = [tasks EXCEPT ![c] = <<>>]
  /\ UNCHANGED <<configVars, tx, data, next, results>>

\* The results in order; the first failure is thrown and the futures die.
Report(c) ==
  /\ pc[c] = "report"
  /\ \/ /\ \A i \in DOMAIN results[c] : results[c][i] = "ok"
        /\ Goto(c, "fee")
        /\ UNCHANGED outcome
     \/ \E i \in DOMAIN results[c] :
          /\ results[c][i] = "failed"
          /\ \A j \in 1 .. i - 1 : results[c][j] = "ok"
          /\ End(c, Failed(i))
  /\ tasks' = [tasks EXCEPT ![c] = <<>>]
  /\ UNCHANGED <<configVars, tx, data, next, results>>

-----------------------------------------------------------------------------
(* The fee, and the way back to the handler                                *)

\* total_input_amount of the amounts collected.
Total(amounts) == FoldSeq(+, 0, amounts)

\* Signed, and not tested.
InputsMinusOutputs(c) == Total(data[c]) - tx[c].out

ComputeFee(c) ==
  /\ pc[c] = "fee"
  /\ End(c, Fee(InputsMinusOutputs(c)))
  /\ UNCHANGED <<configVars, tx, data, next, tasks, results>>

Return(c) ==
  /\ pc[c] = "done"
  /\ Goto(c, "idle")
  /\ tx' = [tx EXCEPT ![c] = NoTx]
  /\ data' = [data EXCEPT ![c] = <<>>]
  /\ At(c, 1)
  /\ results' = [results EXCEPT ![c] = <<>>]
  /\ outcome' = [outcome EXCEPT ![c] = None]
  /\ UNCHANGED <<configVars, tasks>>

-----------------------------------------------------------------------------
Step(c) ==
  \/ TxoutFound(c) \/ TxoutNull(c) \/ RawFound(c) \/ RpcFails(c)
  \/ Decide(c)
  \/ CountParallel(c) \/ CountParallelInputs(c)
  \/ CountSequential(c) \/ CountSequentialInputs(c)
  \/ VerifyNext(c)
  \/ Launch(c) \/ LaunchFails(c) \/ Unwind(c) \/ Get(c) \/ Report(c)
  \/ ComputeFee(c) \/ Return(c)

Task(c) == \E i \in DOMAIN tasks[c] : TaskEnds(c, i)

Next ==
  \/ \E c \in Callers : Begin(c) \/ Step(c) \/ Task(c)
  \/ \E a \in Admins : AdminStep(a) /\ UNCHANGED callVars

Spec == Init /\ [][Next]_vars

\* A call that can go on does (an RPC answers or fails within its 3 s
\* timeout), and a thread that runs a task ends it.
Fairness == \A c \in Callers : WF_vars(Step(c)) /\ WF_vars(Task(c))

FairSpec == Spec /\ Fairness
-----------------------------------------------------------------------------
(* Properties                                                              *)

TypeOK ==
  /\ ConfigTypeOK
  /\ pc \in [Callers -> Stages]
  /\ tx \in [Callers -> Txs \cup {NoTx}]
  /\ data \in [Callers -> Seq(Nat)]
  /\ next \in [Callers -> Nat \ {0}]
  /\ tasks \in [Callers -> Seq({"running", "ok", "failed"})]
  /\ results \in [Callers -> Seq({"ok", "failed"})]
  /\ outcome = [c \in Callers |-> outcome[c]]

AllValid(c) == \A i \in DOMAIN Ins(c) : Ins(c)[i].valid

\* The verdict does not depend on the mode nor on the order in which the
\* tasks end: a ValidationError names the first input that fails, and a call
\* that returns a fee has verified every input.
VerdictIsFirstFailure ==
  \A c \in Callers :
    /\ outcome[c].kind = "failed" =>
         /\ ~ Ins(c)[outcome[c].input].valid
         /\ \A i \in 1 .. outcome[c].input - 1 : Ins(c)[i].valid
    /\ outcome[c].kind = "fee" => AllValid(c)

\* The value of the inputs of t that is not spent.
Amounts(t) == [i \in DOMAIN t.ins |-> t.ins[i].amount]
Unspent(t) == Total(Amounts(t)) - t.out

\* A fee is what the outputs leave of the amounts of all the inputs, in their
\* order, each of an output that the node knows: no amount is missed, counted
\* twice or taken for another, whichever RPC found it and in whichever mode
\* the inputs were verified meanwhile.  It is negative when the outputs are more:
\* nothing in the validation compares the two.
FeeFromKnownInputs ==
  \A c \in Callers :
    outcome[c].kind = "fee" =>
      /\ data[c] = Amounts(tx[c])
      /\ \A i \in DOMAIN Ins(c) : Ins(c)[i].prevout # "unknown"
      /\ outcome[c].fee = Unspent(tx[c])

\* No task outlives the call whose locals it captured by reference, whether
\* the call returns, throws a verdict or is unwound by a failed launch.
TasksJoined ==
  \A c \in Callers :
    "running" \in ToSet(tasks[c]) => pc[c] \in {"launch", "get", "unwind"}

InputsOf(stage) == {c \in Callers : pc[c] = stage}

\* The statistics agree up to the calls that are between their two
\* increments: only transactions of at least MinInputs inputs are counted as
\* parallel, whatever is written to enabled meanwhile.
StatsAgree ==
  /\ totalInputsParallel >=
       MinInputs * (parallelValidations
                      - Cardinality(InputsOf("parallel inputs")))
  /\ parallelValidations = 0 => totalInputsParallel = 0
  /\ sequentialValidations = 0 => totalInputsSequential = 0

Collecting == {"gettxout", "getrawtransaction"}
Deciding == {"decide", "parallel", "parallel inputs", "sequential",
             "sequential inputs"}
WithTasks == {"launch", "get", "unwind", "report"}

\* What is collected, when: the amounts of the inputs before the current
\* one, then of all; each is of an input the node knows.
DataCollected(c) ==
  /\ DOMAIN data[c] \subseteq DOMAIN Ins(c)
  /\ \A i \in DOMAIN data[c] : Ins(c)[i].prevout # "unknown"
  /\ pc[c] = "idle" => data[c] = <<>>
  /\ pc[c] \in Collecting => Len(data[c]) = next[c] - 1
  /\ pc[c] \in Deciding \cup WithTasks \cup {"loop", "fee"} =>
       Len(data[c]) = InputCount(c)

\* Where the loops stand.
CursorInPlace(c) ==
  /\ pc[c] \in Deciding \cup {"idle"} => next[c] = 1
  /\ pc[c] \in Collecting \cup {"loop", "launch", "get"} =>
       next[c] \in DOMAIN Ins(c)
  /\ pc[c] \in {"parallel", "parallel inputs"} => Ins(c) # <<>>

\* A task belongs to an input and says of it what verification says; none
\* exists outside verify_inputs_parallel.
TasksOfInputs(c) ==
  /\ DOMAIN tasks[c] \subseteq DOMAIN Ins(c)
  /\ \A i \in DOMAIN tasks[c] :
       /\ tasks[c][i] = "ok" => Ins(c)[i].valid
       /\ tasks[c][i] = "failed" => ~ Ins(c)[i].valid
  /\ pc[c] \notin WithTasks => tasks[c] = <<>>
  /\ pc[c] = "launch" => Len(tasks[c]) = next[c] - 1
  /\ pc[c] \in {"get", "report"} => Len(tasks[c]) = InputCount(c)

\* The results are those of the tasks that were waited for.
ResultsOfTasks(c) ==
  /\ DOMAIN results[c] \subseteq DOMAIN Ins(c)
  /\ \A i \in DOMAIN results[c] :
       /\ results[c][i] = "ok" => Ins(c)[i].valid
       /\ results[c][i] = "failed" => ~ Ins(c)[i].valid
       /\ pc[c] \in {"get", "report"} => tasks[c][i] # "running"
  /\ pc[c] \in Deciding \cup Collecting \cup {"idle", "loop", "launch"} =>
       results[c] = <<>>
  /\ pc[c] = "get" => Len(results[c]) = next[c] - 1
  /\ pc[c] = "report" => Len(results[c]) = InputCount(c)

\* What is verified so far, and what the outcome says of the inputs.
Verified(c) ==
  /\ pc[c] = "loop" => \A i \in 1 .. next[c] - 1 : Ins(c)[i].valid
  /\ pc[c] = "fee" => AllValid(c)
  /\ pc[c] # "done" => outcome[c] = None
  /\ outcome[c].kind = "failed" => outcome[c].input \in DOMAIN Ins(c)
  /\ outcome[c].kind = "fee" => Len(data[c]) = InputCount(c)

CallInv(c) ==
  /\ DataCollected(c) /\ CursorInPlace(c) /\ TasksOfInputs(c)
  /\ ResultsOfTasks(c) /\ Verified(c)

\* What a call has collected is its own, and so is its fee.
OwnFee(c) ==
  /\ \A i \in DOMAIN data[c] : data[c][i] = Ins(c)[i].amount
  /\ outcome[c].kind = "fee" => outcome[c].fee = InputsMinusOutputs(c)

\* The inductive invariant behind VerdictIsFirstFailure, FeeFromKnownInputs,
\* TasksJoined and ThreadCountInRange.
IInv ==
  /\ TypeOK
  /\ ConfigInv
  /\ \A c \in Callers : CallInv(c) /\ OwnFee(c)
  /\ VerdictIsFirstFailure

\* What StatsAgree rests on: a call that is to be counted as parallel has the
\* inputs for it, and one between its two increments is counted once.
StatsInv ==
  /\ \A c \in Callers :
       /\ pc[c] \in {"parallel", "parallel inputs"} => InputCount(c) >= MinInputs
       /\ pc[c] = "parallel inputs" => parallelValidations > 0
       /\ pc[c] = "sequential inputs" => sequentialValidations > 0
  /\ StatsAgree

\* Every call comes to an end: with a fee, a verdict or an exception.
CallsEnd == \A c \in Callers : pc[c] # "idle" ~> pc[c] = "idle"

\* parallel_config.h says of max_threads: "Maximum number of threads to use".
WithinThreadCount ==
  \A c \in Callers, hw \in HwThreads :
    Cardinality({i \in DOMAIN tasks[c] : tasks[c][i] = "running"})
      <= IF maxThreads > 0 THEN maxThreads ELSE Detected(hw)

\* /mempool/add reuses validate_transaction "to ensure transaction is valid":
\* one that spends an output a second time is not.  The outputs are asked of the
\* "UTXO set" (collect_input_data), which has only unspent ones.
SpendsOnlyUnspent ==
  \A c \in Callers :
    outcome[c].kind = "fee" => \A i \in DOMAIN Ins(c) : Ins(c)[i].prevout # "spent"
=============================================================================
