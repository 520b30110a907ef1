------------------------------ MODULE BlockBytes -------------------------------
(***************************************************************************)
(* The bytes of the blocks that are proposed as a chain grows:             *)
(* GetBlockSubsidy, build_coinbase and Block::serialize                    *)
(* (blockassembly/block_assembly.cpp) on top of the serialization of       *)
(* transactions (TxBytes).  What the hashes in them are of is the subject  *)
(* of BlockAssembly; here a hash is HashLen bytes.                         *)
(***************************************************************************)
EXTENDS TxBytes

CONSTANTS HalvingInterval,  \* 210000
          InitialSubsidy,   \* 50 * COIN
          MaxHalvings,      \* 64, the width of the shifted number
          Payout,           \* the script that is paid
          FlagSizes,        \* the sizes of coinbaseaux.flags
          Proposed,         \* the transactions of each proposed block
          Fees,             \* what they may add up to
          OpOne,            \* 0x51: OP_1, the first opcode for a small number
          SmallInts,        \* 16: how many numbers have an opcode
          MaxHeight         \* bound: the height the chain reaches

ASSUME SubsidyAssumption ==
  /\ HalvingInterval \in Nat \ {0} /\ MaxHalvings \in Nat
  /\ InitialSubsidy \in Nat \ {0} /\ InitialSubsidy < 2 ^ MaxHalvings
ASSUME ProposedAssumption ==
  /\ Proposed \subseteq Seq(TxType)
  /\ \A txs_ \in Proposed :
       /\ Len(txs_) + 1 < Power[8]
       /\ \A n \in DOMAIN txs_ : Fits(txs_[n])
ASSUME PayoutAssumption ==
  /\ Payout \in Seq(Byte) /\ Len(Payout) < Power[8]
  /\ HashLen + 6 < Power[8]
ASSUME SmallIntsAssumption ==
  /\ SmallInts \in Nat \ {0}
  /\ OpOne \in Nat /\ OpOne > DirectPush + 2 /\ OpOne + SmallInts <= ByteBase
ASSUME BoundsAssumption ==
  /\ Fees \subseteq Nat
  /\ FlagSizes \subseteq 0 .. Power[4] - 1     \* what a push can hold
  /\ MaxHeight \in 0 .. Power[8] - 1

VARIABLES height,         \* of the next block
          segwit,         \* segwit_active
          flags,          \* coinbase_flags
          txs,            \* non_cb_tx_bytes
          fees,           \* coinbase_value, which has the fees only
          issued          \* what the coinbases of the blocks below add to the
                          \* supply

template == <<segwit, flags, txs, fees>>
vars == <<height, template, issued>>

\* The first subsidy, shifted to the right.
Shifted[halvings \in Nat] ==
  IF halvings = 0 THEN InitialSubsidy ELSE Shifted[halvings - 1] \div 2

\* Mutant: the shift is not guarded, and wraps.
SubsidyWraps(h) == Shifted[(h \div HalvingInterval) % MaxHalvings]

\* GetBlockSubsidy.
Subsidy(h) ==
  LET halvings == h \div HalvingInterval
  IN  IF halvings >= MaxHalvings THEN 0 ELSE Shifted[halvings]

ExtraNonce == Zeros(8)

\* scriptSig: the height, the flags if any, the extra nonce.
InputScript ==
  Push(ScriptNum(height))
    \o (IF flags # <<>> THEN Push(flags) ELSE <<>>)
    \o Push(ExtraNonce)

Hash == Zeros(HashLen)
AllOnes == Power[4] - 1

\* OP_RETURN, a push, four bytes of a tag, a hash.
CommitmentScript == Zeros(6) \o Hash

\* build_coinbase, with the commitment and the reserved value in place.
Coinbase ==
  [version |-> 1, lock |-> 0,
   ins |-> <<[prev |-> Hash, index |-> AllOnes, script |-> InputScript,
              sequence |-> AllOnes, witness |-> IF segwit THEN <<Hash>> ELSE <<>>]>>,
   outs |-> <<[value |-> Subsidy(height) + fees, script |-> Payout]>>
              \o (IF segwit THEN <<[value |-> 0, script |-> CommitmentScript]>> ELSE <<>>)]

\* The transactions of the block.
BlockTxs == <<Coinbase>> \o txs

\* Version, previous block and Merkle root, then time, bits and nonce.
HeaderSize == 4 + 2 * HashLen + 12

\* Mutant: the coinbase is not counted.
CountOthers == Len(txs)

TxCount == Len(BlockTxs)

\* Block::serialize.
Block ==
  Zeros(HeaderSize) \o Varint(TxCount)
    \o FlattenSeq([n \in DOMAIN BlockTxs |-> Serialize(BlockTxs[n], TRUE)])

\* A template of the node: any transactions, with fees, flags and rules.
Template ==
  /\ segwit' \in BOOLEAN
  /\ flags' \in {Zeros(n) : n \in FlagSizes}
  /\ txs' \in Proposed
  /\ fees' \in Fees

Init ==
  /\ height = 0
  /\ issued = 0
  /\ segwit \in BOOLEAN
  /\ flags \in {Zeros(n) : n \in FlagSizes}
  /\ txs \in Proposed
  /\ fees \in Fees

\* The chain has a block more, this one or another of its subsidy, and a
\* proposal for the next is asked for.
Mined ==
  /\ height < MaxHeight
  /\ issued' = issued + (Coinbase.outs[1].value - fees)
  /\ height' = height + 1
  /\ Template

\* Another proposal for the same height.
Again ==
  /\ Template
  /\ UNCHANGED <<height, issued>>

Next == Mined \/ Again

Spec == Init /\ [][Next]_vars
-----------------------------------------------------------------------------
(* How a node reads a script and a block                                   *)

\* A push at offset q: the offset of its data and the size of it.  The opcodes
\* above the pushes have no data in the script.
PushAt(s, q) ==
  LET op == s[q + 1]
  IN  CASE op < DirectPush -> [from |-> q + 1, size |-> op]
        [] op = DirectPush -> [from |-> q + 2, size |-> s[q + 2]]
        [] op = DirectPush + 1 ->
             [from |-> q + 3, size |-> Number(SubSeq(s, q + 2, q + 3))]
        [] op = DirectPush + 2 ->
             [from |-> q + 5, size |-> Number(SubSeq(s, q + 2, q + 5))]
        [] OTHER -> [from |-> q + 1, size |-> 0]

\* What the first pushes of a script push, and what is left after them.
Pushed(s, count) ==
  LET end[n \in 0 .. count] ==
        IF n = 0 THEN 0 ELSE PushAt(s, end[n - 1]).from + PushAt(s, end[n - 1]).size
  IN  Append([n \in 1 .. count |-> SubSeq(s, PushAt(s, end[n - 1]).from + 1, end[n])],
             SubSeq(s, end[count] + 1, Len(s)))

\* A script number: its last digit has the sign.
ScriptNumValue(d) ==
  IF d = <<>> THEN 0
  ELSE IF Last(d) < SignBit THEN Number(d)
  ELSE - Number([d EXCEPT ![Len(d)] = @ - SignBit])

Minimal(d) ==
  d # <<>> =>
    Last(d) % SignBit # 0 \/ (Len(d) > 1 /\ d[Len(d) - 1] >= SignBit)

\* The shortest header of a push of so many bytes.
HeaderLen(size) ==
  CASE size < DirectPush -> 1
    [] size \in DirectPush .. ByteBase - 1 -> 2
    [] size \in ByteBase .. Power[2] - 1 -> 3
    [] size >= Power[2] -> 5

\* What a node asks of the script of the first input of a block: that it starts
\* with the height as CScript() << height writes it.  A small number is an opcode;
\* any other is its script number in the fewest bytes, pushed by the shortest
\* header.
HeightAccepted(s, h) ==
  IF h \in 1 .. SmallInts THEN s[1] = OpOne + (h - 1)
  ELSE LET push == PushAt(s, 0)
           d == SubSeq(s, push.from + 1, push.from + push.size)
       IN  /\ push.from = HeaderLen(push.size)
           /\ ScriptNumValue(d) = h /\ Minimal(d)

\* The end of the transaction at offset q of a block.
AfterTx(b, q) ==
  LET start == IF b[q + 5] = 0 /\ b[q + 6] # 0 THEN q + 6 ELSE q + 4
      outs == AfterEntries(b, AfterEntries(b, start, HashLen + 4, 4), 8, 0)
  IN  4 + IF start = q + 4 THEN outs
          ELSE AfterWitnesses(b, outs, VarintValue(b, start))

\* The transactions of a block, and what is left after them.
TxsRead(b) ==
  LET count == VarintValue(b, HeaderSize)
      end[n \in 0 .. count] ==
        IF n = 0 THEN HeaderSize + VarintSize(b, HeaderSize) ELSE AfterTx(b, end[n - 1])
  IN  Append([n \in 1 .. count |-> SubSeq(b, end[n - 1] + 1, end[n])],
             SubSeq(b, end[count] + 1, Len(b)))
-----------------------------------------------------------------------------
(* Properties                                                              *)

\* The bytes from which a txid is computed are the serialization without
\* witnesses: the flag and the items are left out and nothing else, whatever
\* the lengths in it.
StripsExactly ==
  \A n \in DOMAIN BlockTxs :
    Addressable(Serialize(BlockTxs[n], TRUE)) =>
      Strip(Serialize(BlockTxs[n], TRUE)) = Serialize(BlockTxs[n], FALSE)

\* A node finds in the block the transactions that were put in it, each with
\* its witnesses, and no more.
BlockReadsBack ==
  Addressable(Block) =>
    TxsRead(Block) = Append([n \in DOMAIN BlockTxs |-> Serialize(BlockTxs[n], TRUE)], <<>>)

\* Whoever parses the script of the coinbase reads back what was put in it: the
\* height, the flags, the extra nonce and no more, at every size at which an
\* encoding grows.  The script starts as the node requires at all heights but
\* 1 to 16, the first of a chain, which have opcodes of their own: there
\* build_coinbase still pushes the number, and the block is rejected.
ScriptReadsBack ==
  LET d == Pushed(InputScript, IF flags # <<>> THEN 3 ELSE 2)
  IN  /\ ScriptNumValue(d[1]) = height
      /\ Tail(d) = (IF flags # <<>> THEN <<flags>> ELSE <<>>) \o <<ExtraNonce, <<>>>>
      /\ HeightAccepted(InputScript, height) <=> height \notin 1 .. SmallInts

\* The blocks never add to the supply twice what those of the first interval
\* do, and add nothing once every bit has been shifted out.
SupplyCapped ==
  /\ issued < 2 * HalvingInterval * InitialSubsidy
  /\ height >= HalvingInterval * MaxHalvings => Coinbase.outs[1].value = fees
-----------------------------------------------------------------------------
(* The invariant by which SupplyCapped is proved (BlockBytesProofs)        *)

Cap == 2 * HalvingInterval * InitialSubsidy

\* Two intervals of the present subsidy, less what has passed of the first,
\* would not exceed the cap; and when the subsidy is none, an interval of the
\* least subsidy still would not.
SupplyInv ==
  LET subsidy == Subsidy(height)
      left == 2 * HalvingInterval - (height % HalvingInterval)
  IN  /\ issued + left * subsidy <= Cap
      /\ subsidy = 0 => issued + HalvingInterval <= Cap

TypeOK ==
  /\ height \in 0 .. MaxHeight /\ issued \in Nat
  /\ segwit \in BOOLEAN /\ flags \in {Zeros(n) : n \in FlagSizes}
  /\ txs \in Proposed /\ fees \in Fees

IInv == TypeOK /\ SupplyInv
=============================================================================
