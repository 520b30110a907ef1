---------------------------- MODULE MempoolEntry ----------------------------
(***************************************************************************)
(* struct MempoolEntry (mempool/mempool.h) and its comparator.             *)
(*                                                                         *)
(* An entry is a record [txid, fee, size].  A txid is an integer: its rank *)
(* in the lexicographic order of the 64-character strings the code         *)
(* compares.  The raw transaction is represented by its size only; two     *)
(* entries of one txid and different sizes are the same transaction with   *)
(* different witnesses.                                                    *)
(*                                                                         *)
(* The code keeps the fee rate as a double.  Here it is a fixed-point      *)
(* number of RateScale steps per sat: a rounding that is monotone and not  *)
(* injective, so that, as with doubles, entries of different fees and      *)
(* sizes may have equal rates.                                             *)
(***************************************************************************)
EXTENDS Integers

CONSTANT RateScale

ASSUME RateScaleAssumption == RateScale \in Nat \ {0}

MempoolEntryType == [txid : Int, fee : Int, size : Nat]

\* fee_rate, set by the constructor; a zero size gives the rate zero.
FeeRate(e) == IF e.size > 0 THEN (e.fee * RateScale) \div e.size ELSE 0

\* Mutant: the comparator looks at the absolute fee.
BeforeByFee(e, f) == IF e.fee # f.fee THEN e.fee > f.fee ELSE e.txid < f.txid

\* operator<: a higher rate first, ties broken by txid.
Before(e, f) ==
  IF FeeRate(e) # FeeRate(f) THEN FeeRate(e) > FeeRate(f) ELSE e.txid < f.txid
=============================================================================
