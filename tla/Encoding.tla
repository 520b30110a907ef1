------------------------------- MODULE Encoding -------------------------------
(***************************************************************************)
(* The number and push encodings of blockassembly/block_assembly.cpp, on   *)
(* sequences of bytes.  A byte is a digit in base ByteBase, 256 in the     *)
(* code; every threshold of the code is one of the base, so that a smaller *)
(* base reaches every branch with short sequences.                         *)
(***************************************************************************)
EXTENDS Integers, SequencesExt

CONSTANTS ByteBase,       \* 256
          DirectPush      \* 0x4c: OP_PUSHDATA1, and the lengths below it

ASSUME ByteBaseAssumption == ByteBase \in Nat /\ ByteBase > 3
ASSUME DirectPushAssumption == DirectPush \in 1 .. ByteBase - 3

Byte == 0 .. ByteBase - 1
Zeros(n) == [i \in 1 .. n |-> 0]

\* The weight of a digit, and the numbers that fit into so many digits.
Power[n \in Nat] == IF n = 0 THEN 1 ELSE ByteBase * Power[n - 1]

\* write_u32_le, write_u64_le and their like: the n low digits of v, which
\* for a negative v are those of its complement.
LittleEndian(v, n) == [i \in 1 .. n |-> (v \div Power[i - 1]) % ByteBase]

\* read_u32_le, read_u64_le: the number of a sequence of digits.
Number(s) ==
  LET value[i \in 0 .. Len(s)] ==
        IF i = 0 THEN 0 ELSE value[i - 1] + s[i] * Power[i - 1]
  IN  value[Len(s)]

\* write_varint.
Varint(v) ==
  CASE v < ByteBase - 3   -> <<v>>
    [] v \in ByteBase - 3 .. Power[2] - 1 -> <<ByteBase - 3>> \o LittleEndian(v, 2)
    [] v \in Power[2] .. Power[4] - 1 -> <<ByteBase - 2>> \o LittleEndian(v, 4)
    [] v >= Power[4]  -> <<ByteBase - 1>> \o LittleEndian(v, 8)

\* script_push_data.
Push(data) ==
  LET n == Len(data)
  IN  CASE n < DirectPush -> <<n>> \o data      \* OP_0 when there is none
        [] n \in DirectPush .. ByteBase - 1 -> <<DirectPush, n>> \o data
        [] n \in ByteBase .. Power[2] - 1 ->
             <<DirectPush + 1>> \o LittleEndian(n, 2) \o data
        [] n >= Power[2] ->
             <<DirectPush + 2>> \o LittleEndian(n, 4) \o data

SignBit == ByteBase \div 2

\* The digits of a natural number, without leading zeros.
Digits(v) ==
  LET size == CHOOSE n \in 0 .. 8 :
                /\ v < Power[n]
                /\ \A k \in 0 .. n - 1 : v >= Power[k]
  IN  LittleEndian(v, size)

\* Mutant: the digit that would carry the sign is not extended.
ScriptNumUnsigned(v) == Digits(v)

\* encode_scriptnum of a height: a digit more when the last one has the sign
\* bit.
ScriptNum(v) ==
  LET d == Digits(v)
  IN  IF d # <<>> /\ Last(d) >= SignBit THEN Append(d, 0) ELSE d
=============================================================================
