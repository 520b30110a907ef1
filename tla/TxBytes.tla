-------------------------------- MODULE TxBytes --------------------------------
(***************************************************************************)
(* Tx::serialize and strip_witness (blockassembly/block_assembly.cpp): the *)
(* serialization of a transaction with and without its witnesses, and the  *)
(* parser that turns the first into the second, from which the txids of a  *)
(* proposed block are computed.                                            *)
(***************************************************************************)
EXTENDS Encoding

CONSTANTS HashLen,        \* 32
          MinTxSize       \* 10

\* A version, a lock time and two counts are MinTxSize bytes at least.
ASSUME SizesAssumption == HashLen \in Nat /\ MinTxSize \in 0 .. 10

\* Each input has its outpoint, its script and its witness items.
TxType == [version : Int, lock : Nat,
           ins : Seq([prev : Seq(Byte), index : Nat, script : Seq(Byte),
                      sequence : Nat, witness : Seq(Seq(Byte))]),
           outs : Seq([value : Nat, script : Seq(Byte)])]

Sized(data) == Varint(Len(data)) \o data
Many(seq, Bytes(_)) ==
  Varint(Len(seq)) \o FlattenSeq([i \in DOMAIN seq |-> Bytes(seq[i])])

InBytes(in) ==
  in.prev \o LittleEndian(in.index, 4) \o Sized(in.script) \o LittleEndian(in.sequence, 4)
OutBytes(out) == LittleEndian(out.value, 8) \o Sized(out.script)

\* The hashes of a transaction have their length, and the lengths of its parts
\* fit into the largest varint, a uint64_t.
Fits(t) ==
  /\ t.ins # <<>> /\ Len(t.ins) < Power[8] /\ Len(t.outs) < Power[8]
  /\ \A i \in DOMAIN t.ins :
       /\ Len(t.ins[i].prev) = HashLen /\ Len(t.ins[i].script) < Power[8]
       /\ Len(t.ins[i].witness) < Power[8]
       /\ \A j \in DOMAIN t.ins[i].witness : Len(t.ins[i].witness[j]) < Power[8]
  /\ \A i \in DOMAIN t.outs : Len(t.outs[i].script) < Power[8]

HasWitness(t) == \E i \in DOMAIN t.ins : t.ins[i].witness # <<>>

Serialize(t, withWitness) ==
  LET ww == withWitness /\ HasWitness(t)
  IN  LittleEndian(t.version, 4)
        \o (IF ww THEN <<0, 1>> ELSE <<>>)
        \o Many(t.ins, InBytes) \o Many(t.outs, OutBytes)
        \o (IF ww THEN FlattenSeq([i \in DOMAIN t.ins |-> Many(t.ins[i].witness, Sized)])
            ELSE <<>>)
        \o LittleEndian(t.lock, 4)

-----------------------------------------------------------------------------
(* The parser: offsets into the bytes b, Fail where the code throws        *)

\* A vector has as many bytes as 8 bytes can count.
Addressable(b) == Len(b) < Power[8]

Fail == -1

\* read_varint_adv: the size of the number at offset q, by its first byte,
\* whether it is there, and the number.
VarintSize(b, q) ==
  CASE b[q + 1] < ByteBase - 3 -> 1
    [] b[q + 1] = ByteBase - 3 -> 3
    [] b[q + 1] = ByteBase - 2 -> 5
    [] OTHER -> 9

Readable(b, q) == q # Fail /\ q < Len(b) /\ q + VarintSize(b, q) <= Len(b)

VarintValue(b, q) ==
  IF VarintSize(b, q) = 1 THEN b[q + 1]
  ELSE Number(SubSeq(b, q + 2, q + VarintSize(b, q)))

\* An entry of a loop: some bytes, a script or an item with its length, some
\* bytes; all there.  The end is a sum of two numbers of 8 bytes, and wraps.  A
\* script, which has bytes before it, is copied, and append_bytes refuses an end
\* before the start; an item is only passed.
AfterEntry(b, q, before, after) ==
  LET n == q + before
      start == n + VarintSize(b, n)
      end == (start + VarintValue(b, n)) % Power[8]
  IN  IF q = Fail \/ ~ Readable(b, n) THEN Fail
      ELSE IF end + after > Len(b) \/ (before > 0 /\ end < start) THEN Fail
      ELSE end + after

\* A loop: a count, and as many entries.
AfterEntries(b, q, before, after) ==
  LET from == q + VarintSize(b, q)
      pass[k \in 0 .. VarintValue(b, q)] ==
        IF k = 0 THEN from ELSE AfterEntry(b, pass[k - 1], before, after)
  IN  IF Readable(b, q) THEN pass[VarintValue(b, q)] ELSE Fail

\* Mutant: the items of the first input are taken for all.
AfterFirstWitness(b, q, inputs) == AfterEntries(b, q, 0, 0)

\* The loop over the inputs that passes the items of each.
AfterWitnesses(b, q, inputs) ==
  LET pass[k \in 0 .. inputs] ==
        IF k = 0 THEN q ELSE AfterEntries(b, pass[k - 1], 0, 0)
  IN  pass[inputs]

\* After the version, a count of zero inputs, which no transaction has, and
\* not zero outputs.
HasFlag(b) == b[5] = 0 /\ b[6] # 0

Thrown == <<>>

\* strip_witness: the version, the inputs and outputs with their counts, and
\* the lock time, which must be the end.
Strip(b) ==
  IF Len(b) < MinTxSize THEN Thrown
  ELSE LET start == IF HasFlag(b) THEN 6 ELSE 4
           ins == AfterEntries(b, start, HashLen + 4, 4)
           outs == AfterEntries(b, ins, 8, 0)
           wits == IF HasFlag(b) /\ outs # Fail
                   THEN AfterWitnesses(b, outs, VarintValue(b, start)) ELSE outs
       IN  IF wits = Fail \/ wits + 4 # Len(b) THEN Thrown
           ELSE SubSeq(b, 1, 4) \o SubSeq(b, start + 1, outs)
                  \o SubSeq(b, wits + 1, wits + 4)
=============================================================================
