---------------------------- MODULE BlockAssembly ----------------------------
(***************************************************************************)
(* assemble_block_proposal (blockassembly/block_assembly.cpp), called by   *)
(* concurrent handlers of POST /getblocktemplate: the calibration of the   *)
(* byte order, a global flag that every call writes and every hash of      *)
(* every call reads; the Merkle root of the witness txids and the          *)
(* commitment to it in the coinbase; the txids and their Merkle root in    *)
(* the header.                                                             *)
(*                                                                         *)
(* Bytes are sequences of integers.  A transaction is its serialization    *)
(* without and with witnesses (see TxBytes); a digest begins with -1 and   *)
(* ends with -2, so that different bytes have different digests and that   *)
(* no digest is the reverse of another.                                    *)
(***************************************************************************)
EXTENDS Integers, SequencesExt

CONSTANTS Calls,          \* the handlers that assemble a block
          Inputs,         \* what they are given
          None            \* no expected txid; no block yet

Bytes == Seq(Int)
TxType == [base : Bytes, full : Bytes]

\* SHA-256, twice, in the order of bytes of the library.
Sha256d(bytes) == <<-1>> \o bytes \o <<-2>>

IsDigest(d) == d \in Bytes /\ Len(d) > 1 /\ Head(d) = -1 /\ Last(d) = -2

\* An input has the transactions; the first txid, which the caller expects to
\* be that of the first of them; whether to commit to the witnesses; and the
\* value of the coinbase.
ASSUME InputsAssumption ==
  \A in \in Inputs :
    /\ in.txs \in Seq(TxType)
    /\ in.first # None => IsDigest(in.first)
    /\ in.segwit \in BOOLEAN /\ in.value \in Nat

VARIABLES needsReverse,   \* g_hash_needs_reverse
          pc,             \* where each call stands
          input,          \* what it was given
          ids,            \* the wtxids, then the txids, taken so far
          level, above,   \* the level of the Merkle tree, and the next one
          commitment,     \* the hash in the second output of the coinbase
          block           \* what it returns

local == <<pc, input, ids, level, above, commitment, block>>
vars == <<needsReverse, local>>

NoInput == [txs |-> <<>>, first |-> None, segwit |-> FALSE, value |-> 0]

Init ==
  /\ needsReverse = FALSE
  /\ pc = [c \in Calls |-> "idle"]
  /\ input = [c \in Calls |-> NoInput]
  /\ ids = [c \in Calls |-> <<>>]
  /\ level = [c \in Calls |-> <<>>]
  /\ above = [c \in Calls |-> <<>>]
  /\ commitment = [c \in Calls |-> <<>>]
  /\ block = [c \in Calls |-> None]

Goto(c, stage) == pc' = [pc EXCEPT ![c] = stage]
TxCount(c) == Len(input[c].txs)

\* sha256d_LE: the digest, reversed if the flag says so at this moment.
HashLE(bytes) == IF needsReverse THEN Reverse(Sha256d(bytes)) ELSE Sha256d(bytes)

\* Mutant: the order is taken for reversed when the txid is not the expected.
MismatchReverses(in) ==
  in.txs # <<>> /\ in.first # None /\ Sha256d(in.txs[1].base) # in.first

\* The calibration: the order is reversed when the reverse of the digest of
\* the first transaction, and not the digest, is the expected txid.
Calibration(in) ==
  /\ in.txs # <<>> /\ in.first # None
  /\ Sha256d(in.txs[1].base) # in.first
  /\ Reverse(Sha256d(in.txs[1].base)) = in.first

\* The witness txid of a coinbase, and its reserved value.
ZeroHash == <<0>>
Reserved == <<0>>

Begin(c) ==
  /\ pc[c] = "idle"
  /\ \E in \in Inputs :
       /\ input' = [input EXCEPT ![c] = in]
       /\ needsReverse' = Calibration(in)
       /\ Goto(c, IF in.segwit THEN "wtxids" ELSE "coinbase")
  /\ ids' = [ids EXCEPT ![c] = <<ZeroHash>>]
  /\ UNCHANGED <<level, above, commitment, block>>

\* The hashes of the transactions, one after the other, then the Merkle tree.
TakeIds(c, from, to, Id(_)) ==
  /\ pc[c] = from
  /\ IF Len(ids[c]) <= TxCount(c)
     THEN /\ ids' = [ids EXCEPT ![c] = Append(@, Id(input[c].txs[Len(@)]))]
          /\ UNCHANGED <<pc, level>>
     ELSE Goto(c, to) /\ level' = [level EXCEPT ![c] = ids[c]] /\ UNCHANGED ids
  /\ UNCHANGED <<needsReverse, input, above, commitment, block>>

\* Mutant: the witnesses are stripped here too.
WtxidStripped(c) == TakeIds(c, "wtxids", "wroot", LAMBDA t : HashLE(t.base))

Wtxid(c) == TakeIds(c, "wtxids", "wroot", LAMBDA t : HashLE(t.full))

\* Mutant: the witnesses are not stripped.
TxidWhole(c) == TakeIds(c, "txids", "root", LAMBDA t : HashLE(t.full))

Txid(c) == TakeIds(c, "txids", "root", LAMBDA t : HashLE(t.base))

\* merkle_root: a pair of the level is hashed, the last one with itself when
\* it has no other; the hashes are the next level.
Rooted(c) == Len(level[c]) = 1 /\ above[c] = <<>>

\* Mutant: a hash without another is dropped.
PairOrDrop(c) ==
  /\ pc[c] \in {"wroot", "root"}
  /\ ~ Rooted(c)
  /\ LET pair == level[c][1] \o level[c][2]
         up == Append(above[c], HashLE(pair))
         last == Len(level[c]) <= 3
     IN  /\ level' = [level EXCEPT ![c] = IF last THEN up ELSE SubSeq(@, 3, Len(@))]
         /\ above' = [above EXCEPT ![c] = IF last THEN <<>> ELSE up]
  /\ UNCHANGED <<needsReverse, pc, input, ids, commitment, block>>

\* Mutant: the levels are not swapped.
PairAgain(c) ==
  /\ pc[c] \in {"wroot", "root"}
  /\ ~ Rooted(c)
  /\ LET pair == level[c][1] \o (IF Len(level[c]) > 1 THEN level[c][2] ELSE level[c][1])
         last == Len(level[c]) <= 2
     IN  /\ level' = [level EXCEPT ![c] = IF last THEN ids[c] ELSE SubSeq(@, 3, Len(@))]
         /\ above' = [above EXCEPT ![c] = IF last THEN <<>> ELSE Append(@, HashLE(pair))]
  /\ UNCHANGED <<needsReverse, pc, input, ids, commitment, block>>

Pair(c) ==
  /\ pc[c] \in {"wroot", "root"}
  /\ ~ Rooted(c)
  /\ LET pair == level[c][1] \o (IF Len(level[c]) > 1 THEN level[c][2] ELSE level[c][1])
         up == Append(above[c], HashLE(pair))
         last == Len(level[c]) <= 2
     IN  /\ level' = [level EXCEPT ![c] = IF last THEN up ELSE SubSeq(@, 3, Len(@))]
         /\ above' = [above EXCEPT ![c] = IF last THEN <<>> ELSE up]
  /\ UNCHANGED <<needsReverse, pc, input, ids, commitment, block>>

\* build_commitment_script: the witness root and the reserved value.
Commit(c) ==
  /\ pc[c] = "wroot"
  /\ Rooted(c)
  /\ commitment' = [commitment EXCEPT ![c] = HashLE(level[c][1] \o Reserved)]
  /\ Goto(c, "coinbase")
  /\ UNCHANGED <<needsReverse, input, ids, level, above, block>>

\* The coinbase without its witness: height and value, and the commitment.
CoinbaseBytes(value, hash) == <<0, value>> \o hash

CoinbaseTxid(c) ==
  /\ pc[c] = "coinbase"
  /\ ids' = [ids EXCEPT ![c] =
               <<HashLE(CoinbaseBytes(input[c].value, commitment[c]))>>]
  /\ Goto(c, "txids")
  /\ UNCHANGED <<needsReverse, input, level, above, commitment, block>>

\* The header, and the block.
Finish(c) ==
  /\ pc[c] = "root"
  /\ Rooted(c)
  /\ block' = [block EXCEPT ![c] = [merkle |-> level[c][1], txids |-> ids[c]]]
  /\ Goto(c, "done")
  /\ UNCHANGED <<needsReverse, input, ids, level, above, commitment>>

Return(c) ==
  /\ pc[c] = "done"
  /\ Goto(c, "idle")
  /\ input' = [input EXCEPT ![c] = NoInput]
  /\ ids' = [ids EXCEPT ![c] = <<>>]
  /\ level' = [level EXCEPT ![c] = <<>>]
  /\ commitment' = [commitment EXCEPT ![c] = <<>>]
  /\ block' = [block EXCEPT ![c] = None]
  /\ UNCHANGED <<needsReverse, above>>

Step(c) ==
  \/ Wtxid(c) \/ Txid(c) \/ Pair(c) \/ Commit(c) \/ CoinbaseTxid(c)
  \/ Finish(c) \/ Return(c)

Next == \E c \in Calls : Begin(c) \/ Step(c)

Spec == Init /\ [][Next]_vars

\* A call that runs goes on.
FairSpec == Spec /\ \A c \in Calls : WF_vars(Step(c))
-----------------------------------------------------------------------------
(* Properties                                                              *)

Stages == {"idle", "wtxids", "wroot", "coinbase", "txids", "root", "done"}

TypeOK ==
  /\ needsReverse \in BOOLEAN
  /\ pc \in [Calls -> Stages]
  /\ input \in [Calls -> Inputs \cup {NoInput}]
  /\ ids \in [Calls -> Seq(Bytes)]
  /\ level \in [Calls -> Seq(Bytes)] /\ above \in [Calls -> Seq(Bytes)]
  /\ commitment \in [Calls -> Bytes]
  /\ DOMAIN block = Calls

\* The tree as a node computes it: the hash at position i of a level is of
\* the two below it, or of the last one twice; the root is on the first level
\* with one hash.
Up(nodes) ==
  [i \in 1 .. (Len(nodes) + 1) \div 2 |->
     LET right == IF 2 * i <= Len(nodes) THEN 2 * i ELSE 2 * i - 1
     IN  Sha256d(nodes[2 * i - 1] \o nodes[right])]

Levels(leaves) ==
  LET nodes[n \in 0 .. Len(leaves)] == IF n = 0 THEN leaves ELSE Up(nodes[n - 1])
  IN  nodes

MerkleRef(leaves) ==
  LET height == CHOOSE n \in 0 .. Len(leaves) :
                  /\ Len(Levels(leaves)[n]) = 1
                  /\ \A k \in 0 .. n - 1 : Len(Levels(leaves)[k]) > 1
  IN  Levels(leaves)[height][1]

Done(c) == block[c] # None

\* The txids of the block, from its bytes.
BlockTxids(c) ==
  <<Sha256d(CoinbaseBytes(input[c].value, commitment[c]))>>
    \o [i \in 1 .. TxCount(c) |-> Sha256d(input[c].txs[i].base)]

\* The header commits to the transactions of the block as the node computes
\* it, whatever other calls do to the byte order meanwhile.
HeaderCommits == \A c \in Calls : Done(c) => block[c].merkle = MerkleRef(BlockTxids(c))

\* The witness txids, that of the coinbase is zero.
BlockWtxids(c) ==
  <<ZeroHash>> \o [i \in 1 .. TxCount(c) |-> Sha256d(input[c].txs[i].full)]

\* ... and the coinbase to their witnesses.
CoinbaseCommits ==
  \A c \in Calls :
    Done(c) /\ input[c].segwit =>
      commitment[c] = Sha256d(MerkleRef(BlockWtxids(c)) \o Reserved)

\* No calibration, with whichever txid of the block or of none, turns the
\* byte order of the library, which is the one of a txid.
NeverReversed == ~ needsReverse

\* What a call returns as the txids of its block are those of the bytes of the
\* block, in their order.
TxidsOfBytes == \A c \in Calls : Done(c) => block[c].txids = BlockTxids(c)

-----------------------------------------------------------------------------
(* The invariant by which the four above are proved (BlockAssemblyProofs)  *)

FirstOf(s, t) == Len(s) <= Len(t) /\ \A i \in DOMAIN s : s[i] = t[i]

\* The hashes taken so far are the first ones of the block, all of them once
\* the tree is computed.
IdsInv(c) ==
  /\ pc[c] \in {"wtxids", "txids", "root", "done"} => ids[c] # <<>>
  /\ pc[c] \in {"wtxids", "wroot"} => FirstOf(ids[c], BlockWtxids(c))
  /\ pc[c] = "wroot" => Len(ids[c]) = Len(BlockWtxids(c))
  /\ pc[c] \in {"txids", "root", "done"} => FirstOf(ids[c], BlockTxids(c))
  /\ pc[c] \in {"root", "done"} => Len(ids[c]) = Len(BlockTxids(c))

\* A tree that is being computed: low is the rest of a level of it, no higher
\* than the root, and high the first half of the level above.
HalfBuilt(leaves, low, high) ==
  \E n \in 0 .. Len(leaves) :
    LET nodes == Levels(leaves)[n]
    IN  /\ n + Len(nodes) <= Len(leaves)
        /\ \A k \in 0 .. n - 1 : Len(Levels(leaves)[k]) > 1
        /\ Len(nodes) = 2 * Len(high) + Len(low)
        /\ \A i \in DOMAIN low : low[i] = nodes[2 * Len(high) + i]
        /\ \A i \in DOMAIN high : high[i] = Up(nodes)[i]

TreeInv(c) ==
  IF pc[c] \in {"wroot", "root"}
  THEN level[c] # <<>> /\ HalfBuilt(ids[c], level[c], above[c])
  ELSE above[c] = <<>>

\* What has been computed of the tree of the witness txids and returned of
\* that of the txids.
ResultInv(c) ==
  /\ pc[c] \in {"coinbase", "txids", "root", "done"} /\ input[c].segwit =>
       commitment[c] = Sha256d(MerkleRef(BlockWtxids(c)) \o Reserved)
  /\ Done(c) => /\ pc[c] = "done"
                /\ block[c] = [merkle |-> MerkleRef(ids[c]), txids |-> ids[c]]

IInv ==
  /\ TypeOK
  /\ NeverReversed
  /\ \A c \in Calls : IdsInv(c) /\ TreeInv(c) /\ ResultInv(c)
-----------------------------------------------------------------------------
\* Every call returns a block.
AssemblyEnds == \A c \in Calls : pc[c] # "idle" ~> Done(c)
=============================================================================
