# A TLA+ development of mevpool

mevpool (`src/`) is an HTTP server that keeps a *private mempool* of Bitcoin
transactions. A client submits a transaction, the server validates it with the
Bitcoin kernel library and with RPCs to a node, and keeps it; on request the
server builds a block that starts with the private transactions, goes on with
the node's own template, and proposes it to the node.

This directory models the server, checks the models with TLC and proves the
safety properties of its parts and of their composition with TLAPS. Paths such
as `mempool.cpp` are under `src/src/`.

## 1. Inventory

| Component | State | Operations | Interacts with |
|---|---|---|---|
| Private mempool, `mempool/mempool.{h,cpp}` and the `/mempool` routes of `api/routes.cpp` | `entries_`, a multiset ordered by fee rate; `mutex_` | `add`, `remove`, `get_all`, `clear`, `size`; four routes | called by the routes and by the block builder; `add` after validation |
| Transaction validation, `validation/validator.cpp` | the locals of a call: collected inputs, futures, results | `validate_transaction`: collect, decide, verify sequentially or in parallel, fee | RPCs; configuration; script type cache; called by `/verify` and `/mempool/add` |
| Parallel configuration, `validation/parallel_config.{h,cpp}` and two routes | `enabled`, `max_threads` (plain fields); four atomic counters | `get_thread_count`, `record_*`, POST `/parallel-config`, GET `/parallel-stats` | read by validation, written by the route, without a lock |
| Block template handler, POST `/getblocktemplate` in `api/routes.cpp` | locals of a request: chain, visited set, fees, removed set | copy the pool, walk parents, ask a template, filter it, assemble, propose | private mempool, RPCs, block assembly |
| Script type cache, `validation/script_cache.{h,cpp}` | a map with a size limit, hits and misses, a mutex | lookup, statistics, clear | validation, `/cache-stats`, `/cache-clear` |
| Block assembly, `blockassembly/` | the global `g_hash_needs_reverse` | subsidy, script numbers, coinbase, Merkle root, serialization | block template handler |
| Bitcoin RPC client, `utils/bitcoin_rpc.{h,cpp}` | none between calls | one blocking call with a 3 s timeout | node |
| Server lifecycle, `main.cpp` | none | start, serve, stop, print statistics | everything |
| Hex utilities, logging, system utilities, the `gettxout` route, `external/sha256mini`, the Python checks | none that matters to another part | conversions, output, pass-through, hashes, clients | |

The server is Crow's `multithreaded()` application: every handler may run
beside every other one, and every global above is shared. Nothing is persisted:
a restart begins with an empty pool.

What is hard:

- *Interleaving.* Two adds of one transaction; a removal between an add and the
  size its answer reports; a request that toggles `enabled` while calls
  validate; tasks that end in any order; a node and a private pool that change
  between two RPCs of one block request.
- *Partial failure.* An `add` that throws under the mutex; a `std::async` that
  throws after other tasks were started on the caller's locals; an RPC that
  times out in the middle of a walk, which the code takes for "confirmed".
- *Protocol sequences.* Private transactions that are parents of one another,
  that conflict, that were mined meanwhile; public transactions whose ancestor
  was dropped.
- *Arithmetic at the edges.* A rounded fee rate as the sort key; a 64-bit
  argument narrowed to an `int`; a fee that may be negative; a script number
  that grows by a sign digit; a shift that must not reach the width of its type;
  varints, pushes and offsets at each of their sizes.
- *Unsynchronised state.* Counters read without the mutex that guards them; a
  global byte-order flag that each block assembly writes and every hash reads.

What makes each part correct:

- the pool has a transaction once, in descending order of fee rate; each route
  takes effect at one instant; the mutex is always given back;
- a validation returns what the sequential loop would have returned, computes
  the fee from every input, leaves no task behind, and ends;
- a configured or detected thread count is in range, also while a request
  changes it, and limits the threads;
- what the pool holds passed its own validation, and has the fee that this one
  computed, whichever others ran beside it;
- a lookup answers the type of its script whatever is cached or cleared, and
  the statistics never report more than was done;
- a block has every unconfirmed ancestor of what it includes, before it and
  once; nothing in it is spent twice or confirmed already; it is within the limits
  of a block; the coinbase claims no more than the fees paid; and a request is
  answered whatever the node does;
- the bytes of a block are those a node reads back and accepts, its header and
  its coinbase
  commit to exactly what is in it, and its subsidy follows the schedule.

`PROJECT.json` lists each hazard at its line, with the properties that watch
it or the reason why none does.

## 2. Modules

    MempoolEntry -> PrivateMempool, Mempool     the promise; the locked multiset, its routes
    ParallelConfig -> Validator                 the configuration; a validation
    Validator, Mempool -> Service               a validation in front of the private mempool
    BlockTemplate                               the chain of a block, and the filter
    ScriptType -> TypeOracle, ScriptCache       the promise; the locked map
    Encoding -> TxBytes -> BlockBytes           numbers, transactions and blocks as bytes
    BlockAssembly                               hashes: byte order, Merkle roots, commitment

Each `MC` module gives the constants of a module their values for TLC, and each
`...Proofs` module EXTENDS the module it proves about. `Induction` has the lemmas
on which the proofs about data rest, and models nothing.

Operators named "Mutant" in a comment are plausible faults of the operator that
follows them: each property is known to fail when one of them stands in for the
code's own step. They are no part of a specification.

### MempoolEntry

`FeeRate` and `Before` are the constructor's rate and `operator<`. A txid is
its rank among the 64-character strings the code compares. A transaction is
represented by its size; two entries of one txid and different sizes are one
transaction with two witnesses. The code's rate is a `double`; the model's is
a fixed-point number with `RateScale` steps per sat, that is, a monotone
rounding under which different entries may tie. No result depends on the value
of `RateScale`.

### Mempool

| Model | Code |
|---|---|
| `entries` (a sequence) | `entries_` in iteration order |
| `mutex`, `Lock`, `Unlock` | `std::lock_guard` in each method |
| `Receive`, `Reject`, `Validated`, `Respond` | the handlers around the methods |
| `AddDuplicate`, `AddScan`, `AddInsert` | `Mempool::add`: the throw, the scan, the insertion at the upper bound |
| `RemoveFound`, `RemoveAbsent` | `Mempool::remove` |
| `Clear`, `GetAll`, `Size` | the other methods |

A handler of `/mempool/add` or of a deletion takes the mutex twice: `size()`
is a second critical section, between which others run. Validation is
abstracted to "throws or returns"; `Service` puts `Validator` in its place.

### PrivateMempool

The promise to clients, without lock or storage order: a set of entries, each
request applied at one instant between arrival and answer, a size measured at
a second instant. `Mempool!Promise` is the refinement mapping: `pool` is the
set of the entries, and a handler is *idle*, *invoked*, *applied* (it is on its
way to `size()`) or *answered*. `PromiseKept` is the abstract specification as
a property of the detailed one.

### ParallelConfig and Validator

`ParallelConfig` has the two plain fields, the counters, and one step for each
read and write of POST `/parallel-config`, in the order of the code: `enabled`
is assigned before `max_threads` is validated, and the answer reads the fields
back one at a time. Its last part is `get_thread_count()`, which reads
`max_threads` once for the test and once for the result (`ThreadsConfigured`, then
`ReportConfigured`; `ReportDetected` when the test finds 0). `overtaken` is a
history variable: the handlers between whose two reads the field was written.
The other callers of `get_thread_count()` take it for a log line or, in GET
`/parallel-stats`, for the same field of an answer. `Narrow` is the conversion of a 64-bit value to `int`, and
`IntModulus` stands for 2^32, which TLC's integers do not reach; the assumption
on it is that the range of an `int` exceeds the limit of 64.

`Validator` EXTENDS it with any number of calls of `validate_transaction`. An
input is a record of the amount it spends, of what script verification will
say, and of where the node knows its output; the script type, which only
reaches the log, is left to `ScriptCache`. Each RPC is a step that answers
(`TxoutFound`, `TxoutNull`, `RawFound`) or throws (`RpcFails`). `Decide` reads
`enabled` once. `Launch` starts one task per input, `LaunchFails` is
`std::async` throwing, `Unwind` is the destruction of the futures during that
exception, `TaskEnds` may happen at any time after its launch, and `Get` and
`Report` take results in the order of the inputs.

### Service

The handlers of `/verify` and `/mempool/add` around both: `ReceiveVerify` and
`ReceiveAdd` begin a call of `Validator`, `Answered`, `Refused` and `Accepted`
are its return, and `Accepted` makes the entry of the fee the call returns. The
other handlers are those of `Mempool` (`Pool`), and an administrator may change
the configuration. `AsMempool` is the refinement mapping to `Mempool`: a
request that is only verified is an idle handler (`HandlerStage`), and an add
brings the entry of its transaction from the start (`HandlerReq`). Hence
`ServesMempool`, with `PromiseKept`, says that clients of the server as a
whole see the atomic set of `PrivateMempool`.

### BlockTemplate

One request of POST `/getblocktemplate` after another, beside an external node
(`confirmed`, `mempool`, `tip`; `MempoolChanges`, `BlockArrives`) and a private
pool that clients change (`AddPrivate`, `RemovePrivate`).

| Model | Code |
|---|---|
| `snapshot`, `cursor`, `NextPrivate` | `private_mempool_entries` and the loop over it |
| `stack`, `ParentVisited`, `ParentFound`, `PrependParent` | `check_if_unconfirmed_parent` and its recursion |
| `ParentUnknown`, `ParentRpcFails` (`LeaveOut`) | `process_request` throws a `std::runtime_error` and the walk catches it: the parent is taken for confirmed |
| `WalkThrows` | the exception of the JSON library, which the walk does not catch: the handler answers 500 |
| `AppendPrivate` | `tx_chain.push_back` and the fee |
| `GetTemplate` | the RPC in template mode |
| `AlreadySpent`, `ShouldRemove`, `RemoveCandidate`, `KeepCandidate` | the loop over the template |
| `Propose`, `TemplateRpcFails`, `Respond` | the RPC in proposal mode, the catch, the answer |

A transaction is the sequence of the outpoints it spends and a fee, which is
negative when it pays more than it spends: the validation lets such a transaction
into the private pool, the node takes none. The coins
that are older than the model belong to `Root`, where a walk ends. The node has
no transaction index, so `getrawtransaction` finds what is in its mempool. The
copy of the private pool is in any order: the fee rates that determine it are
the subject of `Mempool`.

A block has limits of its weight and of its signature operations. `Resources`
is what is limited, `Cost` what each transaction takes of it, `BlockLimit` what
a block has room for beside its header and coinbase, and `TemplateLimit`, which
is no more than that, what the node fills a template to. `FinalAt` is the tip
from which on the lock time of a transaction has passed. A template is any coherent
part of the mempool within `TemplateLimit`, in any order that lists parents
first. The node accepts a proposal (`Accepts`) when the tip is still the
template's; the block connects to the confirmed transactions, none of its own
paying more than it spends and each lock time passed (`Connects`); it is within
the limits (`Fits`); and the coinbase claims no more than the fees.

Two history variables guard no step. `quiet`: nothing failed and the node did
not change since the request began. `leftOut`: the parents that the walk took for
confirmed.

### ScriptType, TypeOracle and ScriptCache

`TypeOf` is `compute_script_type` of what that function looks at: the size of a
script, its first two bytes and its last one. `ScriptCache` has the map, the
two counters and the mutex; a lookup is `LookUp`, `EnterLookUp`, then `Hit` and
`ReturnFound` or `Miss` and `Compute`. The route `/cache-stats` reads the
counters without the mutex (`Read`) and the size with it; `clear` empties the
map and zeroes the counters (`Zero`) inside. The order of the two plain fields
in `Read` and in `Zero` is left open, because nothing orders them for a thread
without the mutex. `TypeOracle` is the promise: an answer is the type of the
script asked for, with no cache in sight; `OracleKept` is the refinement.
`lookups`, the bound of the instance, is also the history that reports are
compared with.

### Encoding, TxBytes and BlockBytes

Pure operators on sequences of bytes. `Encoding` has the little-endian numbers,
`Varint`, `Push` and `ScriptNum`; `TxBytes` has `Tx::serialize` (`Serialize`),
`read_varint_adv` and `strip_witness` (`Strip`), whose `Fail` and `Thrown`
are the exceptions of the code at an offset past the end. `BlockBytes` builds
the coinbase and the block (`Coinbase`, `Block`) for a chain that grows:
`Mined` is a block more of the chain, ours or another of the same subsidy,
`Again` another proposal at the same height. Its node parses what was serialized by definitions of its own
(`TxsRead`, `Pushed`, `ScriptNumValue`), which follow the formats and not the
code. `HeightAccepted` is the test that a node makes of the coinbase since BIP34:
the script starts with the height as a script writes a number, which is an opcode
of its own for 1 to 16 (`SmallInts` of them from `OpOne` on) and for any other number
the shortest push of its shortest form.

A byte is a digit of base `ByteBase`. Every threshold of the code is one of the
base (a varint changes form at the base less 3, at its square and at its fourth
power; a script number needs a digit more at half the base and at half its
powers), so in base 6 every branch is taken with sequences that TLC can
enumerate. Pushes shorter than `DirectPush` have their length as opcode,
`HashLen` is the length of a hash; `HalvingInterval`, `InitialSubsidy` and `MaxHalvings`
stand for 210000, 50 coins and 64, the width of the type that is shifted.
`Power` is the weight of a digit and `Shifted` the subsidy after so many shifts;
both are recursive functions, and so are the loops of the parsers. `Fits` says
which transactions can be serialized at all: the lengths of their parts fit into
the largest varint (`ProposedAssumption`), as those of any transaction in memory
do. The offsets of `strip_witness` are numbers of 64 bits, eight digits of the base
in the model, and wrap as those do (`AfterEntry`); that the bytes are few enough to
be in memory (`Addressable`) is a condition of what is read back.

### BlockAssembly

The calls of `assemble_block_proposal` beside one another. `needsReverse` is the
global `g_hash_needs_reverse`, written by every `Begin` (`Calibration`) and read
by every hash (`HashLE`), one hash per step: `Wtxid`, `Pair` and `Commit` for
the witness root and the commitment, `CoinbaseTxid`, `Txid` and `Pair` for the
header. A digest is a sequence that begins and ends with marks which are no
bytes, so that different bytes have different digests and none is the reverse of
another: what SHA-256 gives with all but certainty. The txid that a caller
expects is that of any transaction, or none, since the handler takes it from
the copy of the pool or from the unfiltered template (`routes.cpp:494`).

`BlockBytes` and `BlockAssembly` meet in the sequence of transactions of a block
with the coinbase first: what is a run of bytes in one is a digest in the other.

## 3. Runs

| Run | Instance | Checks | Distinct states |
|---|---|---|---|
| `mempool` | 2 workers, 5 entries: two witnesses of one transaction that rank on either side of a second, a tie of rates, a negative fee | `IInv`, `UniqueTxids`, `SortedByFeeRate`, `PromiseKept`, `LockReleased`, `Drains` | 257 000 |
| `validator` | 2 callers, 2 validations, threshold 2, transactions of 0 to 2 inputs, one with a negative fee, an administrator who toggles `enabled` | `IInv`, `VerdictIsFirstFailure`, `FeeFromKnownInputs`, `TasksJoined`, `StatsAgree`, `CallsEnd` | 215 000 |
| `config` | 2 administrators; 64 and 65 threads, and with an `int` of 256 values also 256 and 448, which narrow to 0 and to -64; hardware of 0, 8 and 32 | `ThreadCountInRange` | 145 000 |
| `template` | three generations that fill a block, and two conflicts: one of a transaction with a negative fee, one that is not final before the second block and too heavy to be beside another; 2 node events, 2 pool events, 1 failure | `IInv`, `KeptDisjoint`, `NeverOverclaims`, `AncestorsCollected`, `KeptClosed`, `ServableProposalValid`, `ChainDecides`, `HandlerEnds` | 446 000 |
| `script_cache` | 2 threads, 3 scripts, room for 2, 4 lookups | `IInv`, `MissesMatchSize`, `NeverOverreports`, `OracleKept` | 25 000 |
| `block_bytes` | base 6; blocks of up to 4 transactions with scripts and items at every size of a varint; heights 0 to 110, past the last halving | `IInv`, `StripsExactly`, `BlockReadsBack`, `ScriptReadsBack`, `SupplyCapped` | 8 900 |
| `block_assembly` | 2 calls; blocks of 1 to 5 transactions, with and without witnesses; the expected txid is the first one's, another's or missing | `IInv`, `HeaderCommits`, `CoinbaseCommits`, `NeverReversed`, `TxidsOfBytes`, `AssemblyEnds` | 4 700 |
| `service` | 2 threads, 2 validations; a transaction with a good and a forged witness, a child, an orphan | `ServiceInv`, `OnlyValidated`, `ServesMempool`, `ValidationsEnd` | 55 000 |

These hold. The other four show a disagreement with the code, one property
each, and are violated: `template_order` (`ParentsFirst`), `double_spend`
(`SpendsOnce`), `thread_cap` (`WithinThreadCount`), `spent_prevout`
(`SpendsOnlyUnspent`).

`ServableProposalValid` and `ChainDecides` say together what a proposal depends
on. The first is about what a client can rely on: if nothing fails and the node
stands still, the block of a pool of one generation of unconfirmed parents is
accepted, unless it is over a limit. The second holds whatever fails and
whatever changes, and is exact: the node rejects the proposal if the tip moved, if
the block is over a limit (the handler puts the chain on top of a template that may
fill a block, and counts nothing: `routes.cpp:414`), or if the *chain* cannot
connect (a private transaction was confirmed, two conflict, a parent was left out
or is out of order), and for no other reason. What the filter keeps of the
template, and the claim of the coinbase, never spoil it. `template_order` and
`double_spend` are what can be wrong with the chain.

Three other properties are exact about what the code gets wrong. `AncestorsCollected`:
a parent is missing from the chain if the call that asked for it did not find it,
timeouts included (`routes.cpp:48`), or if it is reached through such a parent
only, and not otherwise. `ThreadCountInRange`: the count is 0, which
`parallel_config.h:12` has for "auto-detect", when a request sets `max_threads` to
0 between the two reads of `get_thread_count()` (`parallel_config.cpp:11`), and not
otherwise. `ScriptReadsBack`: the node rejects the coinbase at the heights 1 to
16, the first blocks of a test network, because `build_coinbase` pushes the byte
of the number (`block_assembly.cpp:220`) where BIP34 has `OP_1` to `OP_16`, and
accepts it at all others. And `FeeFromKnownInputs` has the fee negative when the
outputs are more than the inputs: nothing tests its sign (`validator.cpp:368`), so
that a transaction which creates money enters the pool.

**Why these bounds.** A violation of `UniqueTxids` takes two adds of one txid
that both scan before either inserts; one of `SortedByFeeRate` takes three
entries, two of which a wrong comparator would order otherwise. A wrong verdict
takes two failing inputs; a leaked task takes a launch that fails after a
successful one; disagreeing statistics take two calls and a toggle. In the
block handler, three generations are the least that tell "parent before
grandparent" from its opposite and a shallow walk from a deep one; a dropped
descendant takes a conflict, its child and a template that lists both; a stale
chain takes one change between the walk and the template, and a second change
lets the pool become stale before the request. The three generations fill a
block, so that a template leaves no room for a private transaction, and the least
final transaction waits for one block. A thread count out of range takes
the value next to the limit and values that narrow into the range and below it;
one of 0 takes two administrators. A full cache takes one script
more than fits, and a torn report takes a lookup or a clear between two reads.
Five transactions are the least whose Merkle tree has an odd level above its
leaves, after an odd level of leaves. `MaxHeight` is past
`HalvingInterval * MaxHalvings`, and past every change of length of a height;
one number has an opcode of its own, since the base has no more to spare.
The service has no administrator in its run, because toggling is what
`validator` checks (the proofs allow any).

`MaxValidations`, `MaxNodeEvents`, `MaxPoolEvents`, `MaxRpcFailures`,
`MaxLookups` and `MaxHeight` are the only bounds that are not in the code; each
is in the guard of the action it counts.

**Fairness.** `Mempool`: a thread that can run runs; a validation ends, since
its RPCs time out after 3 s; and, `std::mutex` being unfair to a given waiter,
only "a free mutex that somebody waits for is taken by someone". Under this
weak assumption a single request may starve while others keep arriving; what
holds is `Drains`: if requests stop arriving, all are answered. `Validator`: a
call that can step does, and a task that was started ends. `Service`: the two
together, without the assumption that a validation ends: `ValidationsEnd` shows
it of the validations as they are. `BlockTemplate` and `BlockAssembly`: a
handler that runs goes on. No fairness is given to clients, administrators,
the node or failures.

**Deadlock** is checked in every run.

### What the violated properties show

1. `ParentsFirst` (`routes.cpp:45`). A parent is inserted at the *front* of the
   chain after the recursion into its own parents. With private `a`, parent
   `p` and grandparent `g` in the node's mempool, the chain is `<p, g, a>`: `p`
   precedes the transaction it spends and the node rejects the block.
   `block_assembly.h:34` describes a block "ready for "proposal" mode".
2. `SpendsOnce` (`routes.cpp:380`). The shortest trace is a private transaction
   whose coin is spent on the chain after it was added, by itself or by another
   one: nothing takes it out of the pool, and the block spends the coin again. Without
   a change of the node the property is violated in two more ways. `Mempool::add`
   looks for the txid only (`mempool.cpp:27`) and the validation asks a node that
   does not know the private transactions, so that two of one coin are both
   kept: `routes.cpp:388` notes that the pool "HAS TO CHECK". And a private
   transaction that is also in the node's mempool and is the parent of another
   private one enters the chain twice, from the walk and from the loop
   (`routes.cpp:397`).
3. `WithinThreadCount` (`validator.cpp:227`). `get_thread_count()` only reaches
   a log line; `verify_inputs_parallel` starts one `std::async` task per input.
   `parallel_config.h` calls `max_threads` the "Maximum number of threads to
   use".
4. `SpendsOnlyUnspent` (`validator.cpp:99`). When `gettxout` answers null, the
   code falls back to `getrawtransaction`, which on a node with a transaction
   index also finds an output that is already spent; the transaction passes,
   although `validator.cpp:94` sets out to "Query UTXO set".

## 4. Proofs

Everything in this section holds for every value of the constants that the
named assumptions of the modules allow: any set of workers, callers, threads or
calls, any entries, transactions, scripts and nodes, any bound.

### MempoolProofs

`InductiveInvariant` (`Spec => []IInv`), and from it `TypeCorrect`,
`NoDuplicateTransaction` (`UniqueTxids`) and `AlwaysSorted` (`SortedByFeeRate`).

`UniqueTxids` is not inductive: before an insertion it says nothing of the
worker about to insert. `IInv` adds what the code relies on. `LockHeld`: a
worker is inside a method exactly when it holds the mutex, so that two workers
are never inside together. `MethodOfRequest`: a worker about to insert serves
an add, and its request has an entry. `ScanStillTrue`: while a worker stands
between its scan and its insertion, the txid is still absent; this is
preserved because only the holder of the mutex changes the pool
(`PoolChangedByHolder`).

`SortedByFeeRate` rests on the comparator. `BeforeByRate` relates `Before` to
the rates; `InsertSorted` shows that an insertion at an upper bound keeps the
order, and `InsertUnique` that one of an absent txid keeps txids unique, both
for arbitrary sequences; `RemoveKeeps` does the same for a removal. Their common
facts about `InsertAt` and `RemoveAt` of the community modules are the lemmas
`InsertAtProperties` and `RemoveAtProperties`. `TypeStep`, `ControlStep`,
`ScanStep` and `PoolStep` are the four parts of the induction step, each with a
step per action.

`ImplementsPromise`: the locked multiset implements `PrivateMempool`. Each step
is shown to be a step of the promise or a stutter: `OutsideSteps` for what
happens outside the mutex, `SilentSteps` for what only moves inside it, and
`AddSteps`, `RemoveSteps` and `OtherSteps` for the instant at which a method
takes effect. `InsertedSet` and `RemovedSet` say what an insertion and a removal
do to the set of the entries (a removal of one position removes the element
because txids are unique); `SequenceOfSet` makes of a set of distinct entries
the one listing that `get_all` returns. `KindOfMethod` is the part of the
invariant that only the mapping needs: the method a handler runs is the one of
its request.

### ValidatorProofs

`InductiveInvariant` and `TypeCorrect`; `VerdictCorrect`, `FeeCorrect`,
`NoTaskOutlivesItsCall` and `ThreadCountAlwaysInRange` for
`VerdictIsFirstFailure`, `FeeFromKnownInputs`, `TasksJoined` and
`ThreadCountInRange`. The last one is a theorem of `ConfigSpec`, by `ConfigInv`,
which is also a part of the invariant of the validations.

`VerdictIsFirstFailure` speaks of calls that have ended and cannot be inductive:
the verdict is made of what a call has gathered. `CallInv` says for each stage
what that is. `DataCollected`: the amounts of the inputs before the cursor, each
of an input the node knows, then of all. `CursorInPlace`: the cursor of a loop
is an input, so a transaction without inputs enters no loop. `TasksOfInputs`:
one task per input launched, and a task that has ended says of its own input
what verification says. `ResultsOfTasks`: the results waited for are those of
the tasks in input order, and none of these tasks runs; at "report" this covers
all, which is why no task outlives the call. `Verified`: the sequential loop
has passed every input before the cursor.

The lemmas `OtherCall` and `SameCallInv` show that a step of one call leaves the
others alone, and one lemma per group of actions (`BeginKeeps` to `EndKeeps`)
that a call keeps its own `CallInv`; `StepKeeps` gathers them. `OwnVerdict` is
the verdict at the step that decides it; `AdminKeeps` is the step of an
administrator, where `Narrow` followed by `InRange` keeps the stored value
between 0 and the limit, and where a handler between its two reads has seen a
number that is still there, or is `overtaken`; `CallTypesStep` is the type
invariant. `OwnFee` adds that what a call has collected are the amounts of its own
inputs, in their order, and that its fee is computed of them (`OwnFeeKept`), from
which `FeeOfInputs` has the fee of the whole transaction.

`StatisticsAgree` (`StatsAgree`) rests on `StatsInv`: a call about to be counted
as parallel has the inputs for it, whatever is written to `enabled` after its
decision, and a call between its two increments has made the first one. The
property itself counts the calls that stand there; `CountedStep` is how their
number changes when one call moves, `CountedSteps` are the four increments, and
`UncountedSteps` everything else. Callers are finitely many
(`CallersAssumption`), or there would be no such number.

### ServiceProofs

`ServiceInvariant` (`ServiceInv`), `OnlyValidatedKept` (`OnlyValidated`) and
`ImplementsMempool` (`ServesMempool`). Every step of the server is a step of
`Validator` or leaves its variables alone, so the invariant of the validations
is reused as it is, and `FeeOfPassed` makes the fee that of the transaction.
`HandlerOfCall` ties a handler to
its call: the transaction of the one is that of the other while it validates,
and an entry on its way to `add` is one of `AddRequests`, made of a transaction
that passes. Together they say that the pool is a sequence of `Vetted` entries.
For the refinement, the return of a validation is `Reject` or `Validated` of
`Mempool` under `HandlerStage` and `HandlerReq`, the steps before it stutter,
and all others are the same steps of `Mempool`.

### ScriptCacheProofs

`InductiveInvariant` (`IInv`), `MissesTellSize` (`MissesMatchSize`),
`ReportsBounded` (`NeverOverreports`), `ImplementsOracle` (`OracleKept`). The
mutex keeps what a lookup found true until it returns (`LookUpInPlace`).
`MissesAccounted` extends the equality of misses and entries to the stages inside
a method, where it is off by one during a computation and open during a clear.
`ReadsAreLookups` is why a report made of unlocked reads is bounded: a counter
that was read and one that is still to be read never add up to more than the
lookups made, since a lookup adds to one of them only and a clear lowers them.

### BlockTemplateProofs

`InductiveInvariant` (`IInv`), `TypeCorrect`, `KeptSpendsOnce` (`KeptDisjoint`),
`DescendantsRemoved` (`KeptClosed`), `WalkCollects` (`AncestorsCollected`),
`CoinbaseNeverOverclaims` (`NeverOverclaims`), `OnlyTheChainSpoils`
(`ChainDecides`), `ServablePoolAccepted` (`ServableProposalValid`).

`WalkInv`: every parent of what is in the chain was visited; the inputs before
the cursor of each frame of the stack have been (`Passed`, which `AdvancePassed`
and `PopPassed` keep); what was visited and not left out is in the chain or a
frame of the recursion; and while nothing failed or changed, nothing of the node's
mempool was left out. At the end of the walk the stack is empty, so all are in
the chain. `FilterInv`:
what is kept and what is left of the template spend different outpoints, the
rest still lists parents first (`TemplateOrdered`), and a parent of what is kept
is neither removed nor still to come, which is why one pass over the template
finds descendants at any depth.

`FeeInv`: the fees are those of the private transactions the walk has done and of
the kept ones (`Paid`), a sum over a set. `NeverOverclaims` compares the coinbase
with the block at the end and says nothing of the steps; `FeeInv` is kept by each,
because a transaction that is paid for now was not before (`PaidOnce`). For
that, a private transaction that the template also lists must be known to be
removed, not kept: it spends an outpoint that the chain spends (`SpendsSomething`,
`KeptDisjoint`). The block has all that is paid for, and what it has more are
parents from the node's mempool, whose fees are not negative (`UnpaidInv`,
`SumMonotonic`). The coinbase does not claim them, which is why this is a bound and
not an equation. The fee of a private transaction may be negative here, since
the validation lets it.

`ProposalInv` is for the last two, which speak of the proposal and of its answer.
`ChainInv`: while nothing fails, the chain of a servable pool is some parents
from the node's mempool, each once, then the private transactions in the order of
the copy; and the walk is at most one such parent deep. `KeptInv`, for as long as
the template is of the present tip and whatever failed: what is kept is final and
spends nothing that is spent, and every parent of it is confirmed or kept before
it. `BlockConnects`: a chain that connects and what is kept connect together;
`ClaimBounded` adds the claim of the coinbase, which is all that `ChainDecides`
takes (`DecidedByChain`), with `ChainOfBlock` for the converse. `ServableMeans` turns the ancestors of a pool, at any
depth, into what `ChainInv` needs, and `ChainConnects` is that its chain connects.
The limits stand in both theorems, because the code never looks at them.

### BlockAssemblyProofs

`InductiveInvariant` (`IInv`), `OrderNeverReversed` (`NeverReversed`),
`ReturnedTxids` (`TxidsOfBytes`), `HeaderIsRoot` (`HeaderCommits`),
`CoinbaseHasCommitment` (`CoinbaseCommits`). `ReverseNoDigest` and
`NeverCalibrated`: no digest is the reverse of a digest, so no input of any call
turns the shared flag. Given that, the txids a call has taken are a prefix of
those of its block whatever other calls do, and all of them once the tree is
built (`IdsInv`).

The reference of the two roots is the tree as a node has it: `Levels` from the
leaves up, position by position, and the first level with one hash.
The code takes pairs off the front of one list and appends to another. `HalfBuilt`
relates the two: some level of the reference has its first half paired in `above`
and its rest in `level`, and none below it has a single hash. `TreeBegins`,
`TreeGrows` and `TreeEnds` are a tree before its first pair, the step of any
pair, also that of an odd hash with itself and the change to the next level, and
a level with one hash, which is the reference's root (`RootIs`). `LevelsAre` says what the
recursive function `Levels` is, by induction over the levels.

### BlockBytesProofs

`InductiveInvariant` (`IInv`), `SupplyIsCapped` (`SupplyCapped`),
`TxidBytesAreExact` (`StripsExactly`), `BlocksAreReadBack` (`BlockReadsBack`),
`ScriptsAreReadBack` (`ScriptReadsBack`).

*The supply.* A bound on what has been issued is not inductive: it must leave room
for what will be. `SupplyInv` says that two intervals of the present subsidy, less
the blocks that this interval has had, still fit under the cap. Within an interval
a block moves one subsidy from what is left to what was issued; at the end
of one the subsidy is halved at least, and what is left is again two intervals
(`SubsidyStep`). When the subsidy has become none, a whole interval of the
least one is left, which makes the bound strict.

*The bytes.* The other three hold of every well typed state: they say what the
parsers do with what the serializers wrote. `At(b, q, s)` is "the bytes `s` are in
`b` at offset `q`"; `JoinedAt` splits it at a concatenation, `FlattenedAt` at a
list, and `CutAt` takes the bytes out again. The argument goes up from there:

1. `NumberIs` and `LittleEndianReadsBack`: the digits of a number, in any base,
   add up to the number, if it has no more digits than are written.
   `MemoryIs`: no offset into bytes that fit into memory wraps.
2. `VarintIs`: at an offset with a varint, the parser finds the size and the
   number, in each of the four forms. `PushIs`, `DigitsAre` and `ScriptNumIs` are
   the same for pushes and for script numbers, whose last digit must not look
   like a sign.
3. `EntryIs`: from an offset with an input, an output or a witness item the parser
   goes to the offset behind it. `CountedIs` and `WitnessesAre` are the loops:
   the offsets that the code computes one after the other, as a recursive function,
   are those at which the entries were written, by induction over the number
   of entries.
4. `TxAt`: the parts of a transaction, with the flag or without, are at the offsets
   where they are looked for (`SixAt`). The bytes by which the flag is recognised
   are never those of the counts of a transaction without witnesses, since it has
   an input.
5. `Stripped`: the parts that are copied are all but the flag and the items.
   `BlockReads`: the transactions of a block are found one behind the other, and
   nothing is left. `PushesRead` and `ScriptReads`: so are the pushes of the script.
   `HeightRead`: the first of them is in the form a node asks for, which takes that
   its header is the shortest (`HeaderLen`) and its last digit needed (`Minimal`);
   and no push begins with the opcode of a number.

### Induction

The proof system's induction theorems take an operator for the property to be
proved, which its provers cannot instantiate. `Induction` has them with a set for a
parameter: `NatInductionSet` is derived from the well-foundedness of the natural
numbers, `RemovalInduction` and `AdditionInduction` from it for finite sets.
`StepsExist` and `StepsAgree` give a recursive function its existence and
uniqueness up to a bound, `RecursionOfNat` on all numbers; each recursive function
of the models gets a lemma that says what it is (`PowerIs`, `ShiftedIs`,
`LevelsAre`, `CountedIs`). `SumsExist`, `SumsAgree` and `SumIs` do the same for
the sum over a finite set that the community modules define as a fold, from
which `SumOfMore` and `SumMonotonic` follow: a sum does not depend on the order in
which its elements are chosen.

### Only model-checked

Liveness: `LockReleased`, `Drains`, `CallsEnd`, `HandlerEnds`, `AssemblyEnds`,
`ValidationsEnd`. It rests on fairness and ENABLED, which are out of this prover's
reach. Every safety property and every refinement of a passing run is stated by
a theorem.

## 5. What is not modelled

- *Nodes with a transaction index in BlockTemplate*: `getrawtransaction` then
  succeeds for confirmed parents, and the walk goes back to a coinbase, whose
  input has no `txid` key to read. (`Validator` has such a node.)
- *Relative lock times, the maturity of coinbases, reorganizations*: a node also
  rejects a transaction whose inputs are too young, and may take blocks back. A tip
  here only grows, and `FinalAt` is all that time does to a transaction.
- *The limits of a coinbase script* (2 to 100 bytes), which no template with usual
  flags reaches, and *the room of the coinbase itself*: `BlockLimit` is what is left
  beside it.
- *The parsing of a template and the values of version, time, bits and previous
  block*, which the handler copies to the header. A header here is its size,
  its Merkle root and what follows it.
- *Hex utilities, JSON, the cookie file*: conversions between texts and values
  that the models have as values.
- *GET `/parallel-stats`*: it reads the counters and the two fields one by one and
  changes nothing. `StatsAgree` says what they are at each instant, and
  `ThreadCountInRange` what `get_thread_count()` returns.
- *Logging*: output only. The static buffer of `localtime` is listed as a hazard
  that no property covers.
- *SHA-256, the kernel library, the node*: external code, modelled from its use.
- *Shutdown*: `main` prints statistics after the last handler has ended.
- `/gettxout` passes one RPC through; `sys_utils` is in no build target; the
  Python checks are clients, whose assertions properties restate.

Four hazards of `PROJECT.json` have no property, each with its reason: a refused
configuration request that changed half of it (`routes.cpp:277`), the indexed
node above (`routes.cpp:35`), the static buffer (`logging.cpp:18`), and witness
versions 2 to 16, which the name of a script type leaves out
(`script_cache.cpp:71`).

## 6. Plan

What was planned is built: the private mempool, the validation, the block
handler, the script type cache, block assembly, and the service that composes
the first two. What would come next, in this order:

1. The listing of `Mempool` as the snapshot of `BlockTemplate`. `BlockTemplate`
   takes the copy of the pool in any order today, so that its results cover
   each order `Mempool` can produce; the composition would narrow them.
2. A node with a transaction index in `BlockTemplate`, once it is settled what
   the walk should do at a coinbase.
3. More than one request in `BlockTemplate` at a time. A handler has only locals,
   so that two of them meet in the node and in the pool, which change freely
   already; what is missing is their meeting in the byte order, which
   `BlockAssembly` has.
