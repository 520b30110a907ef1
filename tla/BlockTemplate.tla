---------------------------- MODULE BlockTemplate ----------------------------
(***************************************************************************)
(* POST /getblocktemplate (api/routes.cpp): one run of the handler that    *)
(* builds a block out of the private mempool and of the node's template    *)
(* and proposes it to the node, while the node and the private mempool go  *)
(* on changing.                                                            *)
(*                                                                         *)
(* The handler copies the private mempool; walks the parents of each       *)
(* private transaction with one getrawtransaction per parent               *)
(* (check_if_unconfirmed_parent, whose recursion is the variable stack);   *)
(* asks for a template; drops from it what spends an outpoint of the       *)
(* collected chain, and the descendants of what it dropped; and proposes   *)
(* the chain followed by the rest.                                         *)
(*                                                                         *)
(* The node is external: a set of confirmed transactions, a mempool and a  *)
(* tip.  It keeps no transaction index, so that getrawtransaction finds    *)
(* what is in its mempool.  The private mempool is the pool of             *)
(* PrivateMempool; its listing is a permutation, since the sizes of the    *)
(* transactions, which with the fees order it, are not modelled here.      *)
(***************************************************************************)
EXTENDS Integers, FiniteSets, SequencesExt

CONSTANTS Tx,               \* the transactions
          Root,             \* the owner of the coins older than the model
          Ins,              \* of each, the outpoints <<tx, index>> it spends
          Fee,              \* of each, its fee: what it spends less what it pays
          FinalAt,          \* of each, the tip from which on its lock time has passed
          Resources,        \* what a block has a limit of: weight, sigops
          Cost,             \* for each resource, what a transaction takes of it
          BlockLimit,       \* of each, what a block holds beside the coinbase
          TemplateLimit,    \* of each, what the node's template is filled to
          MaxNodeEvents,    \* bound: changes of the node
          MaxPoolEvents,    \* bound: changes of the private mempool
          MaxRpcFailures    \* bound: RPCs that time out or fail

Outpoints(t) == ToSet(Ins[t])
Parents(t) == {o[1] : o \in Outpoints(t)} \ {Root}
SpentBy(S) == UNION {Outpoints(t) : t \in S}
Conflict(t, u) == t # u /\ Outpoints(t) \cap Outpoints(u) # {}

ASSUME TxAssumption == IsFiniteSet(Tx) /\ Root \notin Tx
ASSUME InsAssumption ==
  /\ Ins \in [Tx -> Seq((Tx \cup {Root}) \X Nat)]
  /\ \A t \in Tx : Ins[t] # <<>>
ASSUME FeeAssumption == Fee \in [Tx -> Int]
ASSUME FinalAssumption == FinalAt \in [Tx -> Nat]
ASSUME LimitAssumption ==
  /\ Cost \in [Resources -> [Tx -> Nat]]
  /\ BlockLimit \in [Resources -> Nat] /\ TemplateLimit \in [Resources -> Nat]
  /\ \A r \in Resources : TemplateLimit[r] <= BlockLimit[r]
ASSUME AcyclicAssumption ==
  \A S \in SUBSET Tx \ {{}} : \E t \in S : Parents(t) \cap S = {}
ASSUME BoundsAssumption ==
  /\ MaxNodeEvents \in Nat /\ MaxPoolEvents \in Nat /\ MaxRpcFailures \in Nat

VARIABLES
  confirmed, mempool, tip,  \* the node
  private,                  \* g_mempool
  pc,                       \* where the handler stands
  snapshot, cursor,         \* private_mempool_entries and the next of them
  stack,                    \* the private transaction and parents in progress
  txChain,                  \* tx_chain
  visited,                  \* parents_visited
  leftOut,                  \* history: of them, those the RPC did not find
  fees,                     \* collected_fees
  template,                 \* the template: its transactions and its tip
  kept, removed,            \* the filtered template; removed_transactions_ids
  reply,                    \* the answer
  quiet,                    \* history: nothing failed or changed since Start
  nodeEvents, poolEvents, rpcFailures   \* counters of the bounded actions

nodeVars == <<confirmed, mempool, tip, nodeEvents>>
walkVars == <<snapshot, cursor, stack, txChain, visited, leftOut>>
filterVars == <<template, kept, removed>>
poolVars == <<private, poolEvents>>
vars == <<nodeVars, poolVars, pc, walkVars, fees, filterVars, reply, quiet,
          rpcFailures>>

-----------------------------------------------------------------------------
(* The node                                                                *)

\* The transactions S can be in the block after the tip h.
Final(S, h) == \A t \in S : FinalAt[t] <= h

\* The transactions S leave a block within the limits.
Fits(S, limit) == \A r \in Resources : SumFunctionOnSet(Cost[r], S) <= limit[r]

\* A set S of transactions that can follow the confirmed ones C on the tip h: a
\* mempool, or the transactions of a block.  None pays more than it spends.
Coherent(C, h, S) ==
  /\ S \cap C = {}
  /\ \A t \in S : Parents(t) \subseteq C \cup S
  /\ SpentBy(S) \cap SpentBy(C) = {}
  /\ \A t, u \in S : ~ Conflict(t, u)
  /\ \A t \in S : Fee[t] >= 0
  /\ Final(S, h)

\* The node's test of the transactions of a block on its tip: every input
\* exists when it is spent, and is spent once, no more is paid than spent, and
\* every lock time has passed.
Connects(block) ==
  \A i \in DOMAIN block :
    /\ Parents(block[i]) \subseteq confirmed \cup ToSet(SubSeq(block, 1, i - 1))
    /\ Outpoints(block[i]) \cap SpentBy(confirmed) = {}
    /\ \A j \in 1 .. i - 1 : Outpoints(block[i]) \cap Outpoints(block[j]) = {}
    /\ Fee[block[i]] >= 0
    /\ FinalAt[block[i]] <= tip

FeesOf(S) == SumFunctionOnSet(Fee, S)

\* The node's test of a proposal on the tip h whose coinbase claims the fees f.
Accepts(block, h, f) ==
  /\ h = tip
  /\ Connects(block)
  /\ Fits(ToSet(block), BlockLimit)
  /\ f <= FeesOf(ToSet(block))

\* The orders in which a template lists a set of transactions.
TopologicalOrders(S) ==
  {s \in SetToSeqs(S) :
     \A i, j \in DOMAIN s : s[i] \in Parents(s[j]) => i < j}

\* getrawtransaction finds t.
Known(t) == t \in mempool

NodeEvent ==
  /\ nodeEvents < MaxNodeEvents
  /\ nodeEvents' = nodeEvents + 1
  /\ quiet' = FALSE
  /\ UNCHANGED <<poolVars, pc, walkVars, fees, filterVars, reply, rpcFailures>>

\* Transactions arrive at the node's mempool, are replaced or evicted.
MempoolChanges ==
  /\ NodeEvent
  /\ \E S \in SUBSET Tx : Coherent(confirmed, tip, S) /\ mempool' = S
  /\ UNCHANGED <<confirmed, tip>>

\* A block, of any miner, is connected; the mempool is what remains valid.
BlockArrives ==
  /\ NodeEvent
  /\ tip' = tip + 1
  /\ \E B \in SUBSET Tx :
       /\ Coherent(confirmed, tip, B) /\ Fits(B, BlockLimit)
       /\ confirmed' = confirmed \cup B
       /\ \E S \in SUBSET (mempool \ B) :
            Coherent(confirmed \cup B, tip + 1, S) /\ mempool' = S

-----------------------------------------------------------------------------
(* The private mempool                                                     *)

\* What validate_transaction asks of the inputs: gettxout finds the output
\* unspent on the chain, or getrawtransaction finds its transaction.
PrevoutsFound(t) ==
  \A o \in Outpoints(t) :
    \/ o[1] \in confirmed \cup {Root} /\ o \notin SpentBy(confirmed)
    \/ Known(o[1])

PoolEvent ==
  /\ poolEvents < MaxPoolEvents
  /\ poolEvents' = poolEvents + 1
  /\ UNCHANGED <<nodeVars, pc, walkVars, fees, filterVars, reply, quiet,
                 rpcFailures>>

AddPrivate(t) ==
  /\ PoolEvent
  /\ t \notin private
  /\ PrevoutsFound(t)
  /\ private' = private \cup {t}

\* DELETE /mempool/<txid>.  Nothing else removes a transaction, not even its
\* confirmation.
RemovePrivate(t) ==
  /\ PoolEvent
  /\ t \in private
  /\ private' = private \ {t}

-----------------------------------------------------------------------------
(* The handler: the walk                                                   *)

NoTemplate == [txs |-> <<>>, tip |-> 0]

Start ==
  /\ pc = "idle"
  /\ pc' = "walk"
  /\ snapshot' \in SetToSeqs(private)
  /\ quiet' = TRUE
  /\ UNCHANGED <<nodeVars, poolVars, cursor, stack, txChain, visited, leftOut,
                 fees, filterVars, reply, rpcFailures>>

\* The handler returns.
Answer(a) ==
  /\ pc' = "done"
  /\ reply' = a

\* The frame on the stack: a transaction and the input it is at.
Top == Last(stack)
NextParent == Ins[Top.tx][Top.input][1]

\* check_if_unconfirmed_parent returns to the frame below, or the loop over
\* the inputs goes on: the frame f is at its next input.
Advance(frames) == [frames EXCEPT ![Len(frames)].input = @ + 1]

WalkStep ==
  /\ pc = "walk"
  /\ UNCHANGED <<nodeVars, poolVars, filterVars, reply>>

\* The next private transaction of the copy.
NextPrivate ==
  /\ WalkStep
  /\ stack = <<>>
  /\ cursor <= Len(snapshot)
  /\ stack' = <<[tx |-> snapshot[cursor], input |-> 1]>>
  /\ UNCHANGED <<pc, snapshot, cursor, txChain, visited, leftOut, fees, quiet,
                 rpcFailures>>

AtInput == stack # <<>> /\ Top.input <= Len(Ins[Top.tx])

ParentVisited ==
  /\ WalkStep
  /\ AtInput
  /\ NextParent \in visited
  /\ stack' = Advance(stack)
  /\ UNCHANGED <<pc, snapshot, cursor, txChain, visited, leftOut, fees, quiet,
                 rpcFailures>>

Visit == AtInput /\ NextParent \notin visited /\ visited' = visited \cup {NextParent}

\* Mutant: the inputs of a parent are not followed.
ParentFoundShallow ==
  /\ WalkStep
  /\ Visit
  /\ Known(NextParent)
  /\ stack' = Append(stack, [tx |-> NextParent, input |-> Len(Ins[NextParent]) + 1])
  /\ UNCHANGED <<pc, snapshot, cursor, txChain, leftOut, fees, quiet, rpcFailures>>

\* The RPC finds the parent: recursion into its inputs.
ParentFound ==
  /\ WalkStep
  /\ Visit
  /\ Known(NextParent)
  /\ stack' = Append(stack, [tx |-> NextParent, input |-> 1])
  /\ UNCHANGED <<pc, snapshot, cursor, txChain, leftOut, fees, quiet, rpcFailures>>

\* Mutant: the RPC is retried until the node knows the parent.
ParentUnknownRetried ==
  /\ WalkStep
  /\ AtInput
  /\ NextParent \notin visited
  /\ ~ Known(NextParent)
  /\ UNCHANGED <<pc, walkVars, fees, quiet, rpcFailures>>

\* The parent is taken for confirmed.
LeaveOut ==
  /\ leftOut' = leftOut \cup {NextParent}
  /\ stack' = Advance(stack)
  /\ UNCHANGED <<pc, snapshot, cursor, txChain, fees>>

\* The node does not know the parent: the RPC throws, and the walk catches.
ParentUnknown ==
  /\ WalkStep
  /\ Visit
  /\ ~ Known(NextParent)
  /\ LeaveOut
  /\ UNCHANGED <<quiet, rpcFailures>>

RpcFails ==
  /\ rpcFailures < MaxRpcFailures
  /\ rpcFailures' = rpcFailures + 1
  /\ quiet' = FALSE

\* The RPC times out or fails: the same.
ParentRpcFails ==
  /\ WalkStep
  /\ Visit
  /\ RpcFails
  /\ LeaveOut

\* The body of the answer cannot be read: the exception of the JSON library is
\* not one the walk catches, at any depth, but one the handler does: 500.
WalkThrows ==
  /\ pc = "walk"
  /\ Visit
  /\ RpcFails
  /\ stack' = <<>>
  /\ Answer("error")
  /\ UNCHANGED <<nodeVars, poolVars, snapshot, cursor, txChain, leftOut, fees,
                 filterVars>>

\* The inputs of a parent are done: it goes to the front of the chain.
PrependParent ==
  /\ WalkStep
  /\ Len(stack) > 1
  /\ ~ AtInput
  /\ txChain' = Cons(Top.tx, txChain)
  /\ stack' = Advance(Front(stack))
  /\ UNCHANGED <<pc, snapshot, cursor, visited, leftOut, fees, quiet, rpcFailures>>

\* Mutant: a private transaction goes to the front as well.
PrependPrivate ==
  /\ WalkStep
  /\ Len(stack) = 1
  /\ ~ AtInput
  /\ txChain' = Cons(Top.tx, txChain)
  /\ fees' = fees + Fee[Top.tx]
  /\ stack' = <<>>
  /\ cursor' = cursor + 1
  /\ UNCHANGED <<pc, snapshot, visited, leftOut, quiet, rpcFailures>>

\* The inputs of a private transaction are done: it goes to the back.
AppendPrivate ==
  /\ WalkStep
  /\ Len(stack) = 1
  /\ ~ AtInput
  /\ txChain' = Append(txChain, Top.tx)
  /\ fees' = fees + Fee[Top.tx]
  /\ stack' = <<>>
  /\ cursor' = cursor + 1
  /\ UNCHANGED <<pc, snapshot, visited, leftOut, quiet, rpcFailures>>

WalkEnds ==
  /\ WalkStep
  /\ stack = <<>>
  /\ cursor > Len(snapshot)
  /\ pc' = "template"
  /\ UNCHANGED <<walkVars, fees, quiet, rpcFailures>>

-----------------------------------------------------------------------------
(* The handler: the template and the filter                                *)

\* getblocktemplate in template mode: what of the mempool fits a block.  The
\* handler asks for no room for the chain, which it puts on top.
GetTemplate ==
  /\ pc = "template"
  /\ pc' = "filter"
  /\ \E S \in SUBSET mempool :
       /\ Coherent(confirmed, tip, S) /\ Fits(S, TemplateLimit)
       /\ \E s \in TopologicalOrders(S) :
            template' = [txs |-> s, tip |-> tip]
  /\ UNCHANGED <<nodeVars, poolVars, walkVars, fees, kept, removed, reply, quiet,
                 rpcFailures>>

\* The transaction of the template the loop is at.
Candidate == Head(template.txs)

\* Mutant: the inputs of the collected parents are forgotten.
SpentByPrivate == SpentBy(ToSet(snapshot))

\* already_spent_outpoints: what the chain spends.
AlreadySpent == SpentBy(ToSet(txChain))

\* Mutant: the descendants of a removed transaction are not looked for.
SpendsAgain(t) == Outpoints(t) \cap AlreadySpent # {}

\* The two tests of the loop over the inputs of a candidate.
ShouldRemove(t) ==
  Parents(t) \cap removed # {} \/ Outpoints(t) \cap AlreadySpent # {}

FilterStep ==
  /\ pc = "filter"
  /\ template.txs # <<>>
  /\ template' = [template EXCEPT !.txs = Tail(@)]
  /\ UNCHANGED <<nodeVars, poolVars, pc, walkVars, reply, quiet, rpcFailures>>

\* Mutant: the fee is added before the candidate is tested.
RemoveCandidatePaid ==
  /\ FilterStep
  /\ ShouldRemove(Candidate)
  /\ removed' = removed \cup {Candidate}
  /\ fees' = fees + Fee[Candidate]
  /\ UNCHANGED kept

\* Mutant: the removed transaction is not remembered.
RemoveCandidateForgotten ==
  /\ FilterStep
  /\ ShouldRemove(Candidate)
  /\ UNCHANGED <<kept, removed, fees>>

RemoveCandidate ==
  /\ FilterStep
  /\ ShouldRemove(Candidate)
  /\ removed' = removed \cup {Candidate}
  /\ UNCHANGED <<kept, fees>>

KeepCandidate ==
  /\ FilterStep
  /\ ~ ShouldRemove(Candidate)
  /\ kept' = Append(kept, Candidate)
  /\ fees' = fees + Fee[Candidate]
  /\ UNCHANGED removed

\* The block is assembled: no state of anybody else's is read.
FilterEnds ==
  /\ pc = "filter"
  /\ template.txs = <<>>
  /\ pc' = "propose"
  /\ UNCHANGED <<nodeVars, poolVars, walkVars, fees, filterVars, reply, quiet,
                 rpcFailures>>

Block == txChain \o kept

-----------------------------------------------------------------------------
(* The handler: the proposal and the answer                                *)

\* getblocktemplate in proposal mode: null, or a reason.
Propose ==
  /\ pc = "propose"
  /\ Answer(IF Accepts(Block, template.tip, fees) THEN "valid" ELSE "rejected")
  /\ UNCHANGED <<nodeVars, poolVars, walkVars, fees, filterVars, quiet,
                 rpcFailures>>

\* Either call fails: 500.
TemplateRpcFails ==
  /\ pc \in {"template", "propose"}
  /\ RpcFails
  /\ Answer("error")
  /\ UNCHANGED <<nodeVars, poolVars, walkVars, fees, filterVars>>

\* Mutant: the next request starts before the first entry.
RespondZeroBased ==
  /\ pc = "done"
  /\ pc' = "idle"
  /\ snapshot' = <<>> /\ cursor' = 0 /\ stack' = <<>> /\ txChain' = <<>>
  /\ visited' = {} /\ leftOut' = {}
  /\ fees' = 0
  /\ template' = NoTemplate /\ kept' = <<>> /\ removed' = {}
  /\ reply' = "none"
  /\ quiet' = TRUE
  /\ UNCHANGED <<nodeVars, poolVars, rpcFailures>>

\* The response leaves and the locals of the handler die.
Respond ==
  /\ pc = "done"
  /\ pc' = "idle"
  /\ snapshot' = <<>> /\ cursor' = 1 /\ stack' = <<>> /\ txChain' = <<>>
  /\ visited' = {} /\ leftOut' = {}
  /\ fees' = 0
  /\ template' = NoTemplate /\ kept' = <<>> /\ removed' = {}
  /\ reply' = "none"
  /\ quiet' = TRUE
  /\ UNCHANGED <<nodeVars, poolVars, rpcFailures>>

-----------------------------------------------------------------------------
\* The server starts with an empty pool beside a node in any state.
Init ==
  /\ confirmed = {}
  /\ mempool \in {S \in SUBSET Tx : Coherent({}, 0, S)}
  /\ tip = 0
  /\ nodeEvents = 0
  /\ poolEvents = 0
  /\ rpcFailures = 0
  /\ private = {}
  /\ pc = "idle"
  /\ snapshot = <<>> /\ cursor = 1 /\ stack = <<>> /\ txChain = <<>>
  /\ visited = {} /\ leftOut = {}
  /\ fees = 0
  /\ template = NoTemplate /\ kept = <<>> /\ removed = {}
  /\ reply = "none"
  /\ quiet = TRUE

Handler ==
  \/ NextPrivate \/ ParentVisited \/ ParentFound \/ ParentUnknown
  \/ ParentRpcFails \/ WalkThrows \/ PrependParent \/ AppendPrivate \/ WalkEnds
  \/ GetTemplate \/ RemoveCandidate \/ KeepCandidate \/ FilterEnds
  \/ Propose \/ TemplateRpcFails \/ Respond

Next ==
  \/ Start \/ Handler
  \/ MempoolChanges \/ BlockArrives
  \/ \E t \in Tx : AddPrivate(t) \/ RemovePrivate(t)

Spec == Init /\ [][Next]_vars

\* A handler that runs goes on: each RPC answers or fails within 3 s.
FairSpec == Spec /\ WF_vars(Handler)
-----------------------------------------------------------------------------
(* Properties                                                              *)

Frame == [tx : Tx, input : Nat \ {0}]

TypeOK ==
  /\ confirmed \subseteq Tx /\ mempool \subseteq Tx /\ private \subseteq Tx /\ tip \in Nat
  /\ pc \in {"idle", "walk", "template", "filter", "propose", "done"}
  /\ snapshot \in Seq(Tx) /\ cursor \in Nat \ {0}
  /\ stack \in Seq(Frame) /\ txChain \in Seq(Tx)
  /\ visited \subseteq Tx \cup {Root} /\ leftOut \subseteq visited
  /\ fees \in Int
  /\ template \in [txs : Seq(Tx), tip : Nat]
  /\ kept \in Seq(Tx) /\ removed \subseteq Tx
  /\ reply \in {"none", "valid", "rejected", "error"}

\* No transaction kept from the template spends an outpoint that the private
\* chain, or another kept transaction, spends, even when the node's mempool
\* changed after the walk.
KeptDisjoint ==
  \A i \in DOMAIN kept :
    /\ Outpoints(kept[i]) \cap SpentBy(ToSet(txChain)) = {}
    /\ \A j \in DOMAIN kept : ~ Conflict(kept[i], kept[j])

\* No transaction is kept without the parents the template had for it: the
\* descendants of what was removed, at any depth, were removed too.
KeptClosed ==
  \A i \in DOMAIN kept :
    /\ Parents(kept[i]) \cap removed = {}
    /\ \A p \in Parents(kept[i]) : p \notin ToSet(template.txs)

\* The coinbase never claims more than the fees of the transactions of the
\* block: a transaction that is private and public is paid once.
NeverOverclaims ==
  pc \in {"filter", "propose"} => fees <= FeesOf(ToSet(Block))

\* Whatever fails or changes, the chain has every ancestor of every private
\* transaction but those whose own getrawtransaction did not find them, and
\* those reached only through one of these: the walk follows each input at each
\* depth, although it skips what it has visited.  When nothing failed and the
\* node stood still, no transaction of its mempool is left out.
AncestorsCollected ==
  pc \in {"template", "filter", "propose"} =>
    /\ \A i \in DOMAIN txChain :
         Parents(txChain[i]) \subseteq ToSet(txChain) \cup leftOut
    /\ quiet => leftOut \cap mempool = {}

\* The invariant by which the four above are proved (BlockTemplateProofs).
\* The walk: the stack is a path from a private transaction to an ancestor,
\* what it has passed is visited, and a visited parent that was not left out is
\* in the chain or on the path.
Passed(frames, V) ==
  \A k \in DOMAIN frames : \A i \in DOMAIN Ins[frames[k].tx] :
    i < frames[k].input \/ (i = frames[k].input /\ k < Len(frames))
    => Ins[frames[k].tx][i][1] \in V

WalkInv ==
  /\ pc = "walk" \/ stack = <<>>
  /\ \A t \in ToSet(txChain) : \A o \in Outpoints(t) : o[1] \in visited
  /\ Passed(stack, visited)
  /\ pc # "done" => \A p \in visited \ leftOut :
       p \in ToSet(txChain) \/ \E k \in DOMAIN stack : k > 1 /\ stack[k].tx = p
  /\ quiet => leftOut \cap mempool = {}

\* The filter: what is kept and what is left of the template spend different
\* outpoints; of the latter none is the parent of what precedes it.
FilterInv ==
  LET rest == template.txs
  IN  /\ pc \in {"idle", "walk", "template"} =>
           kept = <<>> /\ removed = {} /\ rest = <<>>
      /\ pc = "idle" => txChain = <<>> /\ visited = {} /\ snapshot = <<>>
      /\ \A t, u \in ToSet(kept) \cup ToSet(rest) : ~ Conflict(t, u)
      /\ \A i, j \in DOMAIN rest : rest[i] \in Parents(rest[j]) => i < j
      /\ \A t \in ToSet(kept) :
           /\ Outpoints(t) \cap AlreadySpent = {}
           /\ Parents(t) \cap (removed \cup ToSet(rest)) = {}

\* The fees: they are those of the private transactions that the walk has
\* done, all of them in the chain, and of the kept ones; none is twice in the
\* copy or in the template, and none kept is in both.
Paid == {snapshot[i] : i \in 1 .. cursor - 1} \cup ToSet(kept)

FeeInv ==
  /\ fees = FeesOf(Paid)
  /\ pc = "idle" => cursor = 1
  /\ cursor <= Len(snapshot) + 1
  /\ \A i, j \in DOMAIN snapshot : snapshot[i] = snapshot[j] => i = j
  /\ \A i \in 1 .. cursor - 1 : snapshot[i] \in ToSet(txChain)
  /\ stack # <<>> => cursor <= Len(snapshot) /\ stack[1].tx = snapshot[cursor]
  /\ \A i, j \in DOMAIN template.txs : template.txs[i] = template.txs[j] => i = j
  /\ ToSet(kept) \cap ToSet(template.txs) = {}

\* What is in the chain and not paid for, or on its way there, is a parent that
\* the node had, whose fee is not negative.
UnpaidInv ==
  /\ \A t \in ToSet(txChain) : t \in Paid \/ Fee[t] >= 0
  /\ \A k \in DOMAIN stack : k > 1 => Fee[stack[k].tx] >= 0

\* S and its ancestors at any depth.
Ancestors(S) ==
  LET up[n \in Nat] ==
        IF n = 0 THEN S ELSE up[n - 1] \cup UNION {Parents(t) : t \in up[n - 1]}
  IN  up[Cardinality(Tx)]

\* The private pool is one the handler can serve: its transactions and their
\* unconfirmed ancestors can be mined together, none is the parent of
\* another, and no unconfirmed parent has an unconfirmed parent.
Servable(S) ==
  LET up == Ancestors(S) \cap mempool
  IN  /\ Coherent(confirmed, tip, S \cup up)
      /\ \A t, u \in S : t \notin Parents(u)
      /\ \A t \in up \ S : Parents(t) \cap mempool = {}

\* When nothing failed and the node stood still, the proposal of a servable
\* pool is valid: order, double spends, removed descendants and the claim of
\* the coinbase included, as long as the block is within the limits, which the
\* handler does not test.
ServableProposalValid ==
  /\ quiet /\ pc = "done" /\ Servable(ToSet(snapshot))
  /\ Fits(ToSet(Block), BlockLimit)
  => reply = "valid"

\* Whatever failed or changed, three things and no other make the node reject
\* the proposal: its tip moved, the chain cannot connect by itself (a private
\* transaction is confirmed, conflicts with another or misses a parent), or
\* chain and template together are over a limit.  What the filter keeps of the
\* template never does, nor does the claim of the coinbase.
ChainDecides ==
  pc = "propose" =>
    (Accepts(Block, template.tip, fees) <=>
       /\ template.tip = tip
       /\ Connects(txChain)
       /\ Fits(ToSet(Block), BlockLimit))

\* The invariant by which it is proved.  The chain of a servable pool: parents
\* that the node has, each once, then the private transactions done so far;
\* the walk is never deeper than one such parent.
PublicParents ==
  {p \in mempool \ ToSet(snapshot) : \E t \in ToSet(snapshot) : p \in Parents(t)}

ChainInv ==
  LET n == Len(txChain) - (cursor - 1)
  IN  /\ n \in Nat
      /\ \A i \in 1 .. cursor - 1 : txChain[n + i] = snapshot[i]
      /\ \A i \in 1 .. n : txChain[i] \in PublicParents \cap visited
      /\ \A i, j \in 1 .. n : txChain[i] = txChain[j] => i = j
      /\ Len(stack) \in 0 .. 2
      /\ Len(stack) = 2 => stack[2].tx \in (PublicParents \cap visited) \ ToSet(txChain)

\* The filtered template: parents come before, and nothing is spent twice.
KeptInv ==
  LET rest == template.txs
  IN  /\ \A t \in ToSet(kept) \cup ToSet(rest) :
           Outpoints(t) \cap SpentBy(confirmed) = {} /\ Fee[t] >= 0
      /\ Final(ToSet(kept) \cup ToSet(rest), tip)
      /\ \A i \in DOMAIN kept :
           Parents(kept[i]) \subseteq confirmed \cup {kept[j] : j \in 1 .. i - 1}
      /\ \A i, j \in DOMAIN kept : kept[i] = kept[j] => i = j
      /\ \A t \in ToSet(rest) :
           Parents(t) \subseteq confirmed \cup ToSet(kept) \cup removed \cup ToSet(rest)

ProposalInv ==
  /\ Coherent(confirmed, tip, mempool)
  /\ quiet /\ Servable(ToSet(snapshot)) => ChainInv
  /\ template.tip <= tip
  /\ quiet /\ pc \in {"filter", "propose"} => template.tip = tip
  /\ pc \in {"filter", "propose"} /\ template.tip = tip => KeptInv
  /\ ServableProposalValid

IInv == TypeOK /\ WalkInv /\ FilterInv /\ FeeInv /\ UnpaidInv /\ ProposalInv

\* Every request is answered: the walk ends, through any shape of ancestors.
HandlerEnds == pc # "idle" ~> pc = "idle"

-----------------------------------------------------------------------------
(* What comments of the code say and the code does not do                  *)

\* block_assembly.h: the block is "ready for proposal mode", which lists
\* parents before children.
ParentsFirst ==
  pc = "propose" =>
    \A i, j \in DOMAIN txChain :
      txChain[i] \in Parents(txChain[j]) =>
        \E k \in 1 .. j - 1 : txChain[k] = txChain[i]

\* ... and which neither spends an outpoint twice, be it by one transaction that it
\* has twice or by two private ones (routes.cpp notes that the pool "has to
\* check" for these), nor one that was spent on the chain below it, as those of a
\* confirmed private transaction are.
SpendsOnce ==
  pc = "propose" /\ template.tip = tip =>
    \A i \in DOMAIN Block :
      /\ Outpoints(Block[i]) \cap SpentBy(confirmed) = {}
      /\ \A j \in 1 .. i - 1 : Outpoints(Block[i]) \cap Outpoints(Block[j]) = {}
=============================================================================
