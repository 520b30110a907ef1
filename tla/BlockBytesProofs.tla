--------------------------- MODULE BlockBytesProofs ---------------------------
(***************************************************************************)
(* Proofs about BlockBytes and the modules it is built on, for any base of *)
(* the digits, any sizes of hashes, any transactions, flags, fees, halving *)
(* interval, initial subsidy and number of blocks:                         *)
(*   - the subsidies of all blocks add up to less than twice those of the  *)
(*     first interval (SupplyInv is the invariant);                        *)
(*   - the bytes of a txid are those of the transaction without witnesses, *)
(*     a block is read back as the transactions that were put in it, and   *)
(*     the script of its coinbase as the height, the flags and the extra   *)
(*     nonce.  These three hold of every state that is well typed: the     *)
(*     work is in the lemmas about the encodings and their parser.         *)
(* The order is that of the modules: Encoding, TxBytes, BlockBytes.        *)
(***************************************************************************)
EXTENDS BlockBytes, SequenceTheorems, Induction, TLAPS

-----------------------------------------------------------------------------
(* Numbers                                                                 *)

LEMMA DivisionIsUnique ==
  ASSUME NEW d \in Nat \ {0}, NEW q \in Int, NEW r \in 0 .. d - 1
  PROVE  (d * q + r) \div d = q /\ (d * q + r) % d = r
OBVIOUS

\* Each digit weighs ByteBase times the one before it.
LEMMA PowerIs ==
  /\ Power \in [Nat -> Nat \ {0}] /\ Power[0] = 1
  /\ \A k \in Nat : Power[k + 1] = ByteBase * Power[k]
<1>. DEFINE F == [x \in Nat \X (Nat \ {0}) |-> ByteBase * x[2]]
            Is(f) == f = [k \in Nat |-> IF k = 0 THEN 1 ELSE ByteBase * f[k - 1]]
<1>1. /\ F \in [Nat \X (Nat \ {0}) -> Nat \ {0}]
      /\ \A k \in Nat, v \in Nat \ {0} : F[<<k, v>>] = ByteBase * v
  BY ByteBaseAssumption
<1>. HIDE DEF F
<1>2. PICK f \in [Nat -> Nat \ {0}] : Recursion(f, 1, F)
  <2>. DEFINE V == Nat \ {0}
  <2>1. 1 \in V /\ F \in [Nat \X V -> V]
    BY <1>1
  <2>. HIDE DEF V
  <2>2. \E f \in [Nat -> V] : Recursion(f, 1, F)
    BY <2>1, RecursionOfNat
  <2> QED
    BY <2>2 DEF V
<1>3. ASSUME NEW k \in Nat
      PROVE  (IF k = 0 THEN 1 ELSE F[<<k - 1, f[k - 1]>>])
               = (IF k = 0 THEN 1 ELSE ByteBase * f[k - 1])
  BY <1>1
<1>4. Is(f)
  BY <1>2, <1>3 DEF Recursion
<1>5. Power = CHOOSE g : Is(g)
  BY DEF Power
<1>6. Is(Power)
  BY <1>4, <1>5
<1>7. /\ DOMAIN Power = Nat /\ Power[0] = 1
      /\ \A k \in Nat : Power[k + 1] = ByteBase * Power[k]
  BY <1>6
<1>. DEFINE N == {k \in Nat : Power[k] \in Nat \ {0}}
<1>8. Nat \subseteq N
  <2>1. 0 \in N
    BY <1>7
  <2>2. ASSUME NEW k \in Nat, k \in N PROVE k + 1 \in N
    BY <1>7, <2>2, ByteBaseAssumption
  <2>. HIDE DEF N
  <2> QED
    BY <2>1, <2>2, NatInductionSet
<1>9. Power = [k \in Nat |-> Power[k]]
  BY <1>6
<1> QED
  BY <1>7, <1>8, <1>9

\* The widths that the encodings have.
LEMMA Widths ==
  /\ ByteBase \in Nat /\ ByteBase > 3
  /\ Power[1] = ByteBase /\ Power[2] \in Nat /\ Power[4] \in Nat /\ Power[8] \in Nat
  /\ ByteBase < Power[2] /\ Power[2] < Power[4] /\ 256 <= Power[4]
  /\ 256 * Power[4] <= Power[8]
<1>1. ByteBase \in Nat /\ ByteBase > 3
  BY ByteBaseAssumption
<1>2. \A k \in Nat : Power[k] \in Nat \ {0} /\ Power[k + 1] = ByteBase * Power[k]
  BY PowerIs
<1>3. ASSUME NEW k \in Nat PROVE 4 * Power[k] <= Power[k + 1]
  <2>. DEFINE p == Power[k]
  <2>1. p \in Nat /\ Power[k + 1] = ByteBase * p
    BY <1>2
  <2>. HIDE DEF p
  <2>2. 4 * p <= ByteBase * p
    BY <1>1, <2>1
  <2>3. 4 * p <= Power[k + 1]
    BY <2>1, <2>2
  <2> QED
    BY <2>3 DEF p
<1>4. Power[1] = ByteBase /\ Power[1] \in Nat
  BY <1>1, <1>2, PowerIs
<1>5. /\ 4 * Power[1] <= Power[2] /\ 4 * Power[2] <= Power[3] /\ 4 * Power[3] <= Power[4]
      /\ 4 * Power[4] <= Power[5] /\ 4 * Power[5] <= Power[6] /\ 4 * Power[6] <= Power[7]
      /\ 4 * Power[7] <= Power[8]
  <2>1. /\ 4 * Power[1] <= Power[1 + 1] /\ 4 * Power[2] <= Power[2 + 1]
        /\ 4 * Power[3] <= Power[3 + 1] /\ 4 * Power[4] <= Power[4 + 1]
        /\ 4 * Power[5] <= Power[5 + 1] /\ 4 * Power[6] <= Power[6 + 1]
        /\ 4 * Power[7] <= Power[7 + 1]
    BY <1>3
  <2> QED
    BY <2>1
<1>6. /\ Power[2] \in Nat /\ Power[3] \in Nat /\ Power[4] \in Nat /\ Power[5] \in Nat
      /\ Power[6] \in Nat /\ Power[7] \in Nat /\ Power[8] \in Nat
  BY <1>2
<1> QED
  BY <1>1, <1>4, <1>5, <1>6

LEMMA LittleEndianIs ==
  ASSUME NEW v \in Int, NEW n \in Nat
  PROVE  /\ LittleEndian(v, n) \in Seq(Byte) /\ Len(LittleEndian(v, n)) = n
         /\ \A i \in 1 .. n : LittleEndian(v, n)[i] = (v \div Power[i - 1]) % ByteBase
<1>1. ASSUME NEW i \in 1 .. n PROVE (v \div Power[i - 1]) % ByteBase \in Byte
  <2>1. Power[i - 1] \in Nat \ {0}
    BY PowerIs
  <2>2. v \div Power[i - 1] \in Int
    BY <2>1
  <2> QED
    BY <2>2, ByteBaseAssumption DEF Byte
<1>2. LittleEndian(v, n) \in [1 .. n -> Byte]
  BY <1>1 DEF LittleEndian
<1> QED
  BY <1>2 DEF LittleEndian

\* What Number computes, digit by digit.
LEMMA NumberIs ==
  ASSUME NEW s \in Seq(Byte)
  PROVE  \E g \in [0 .. Len(s) -> Nat] :
           /\ g[0] = 0 /\ Number(s) = g[Len(s)]
           /\ \A k \in 0 .. Len(s) - 1 : g[k + 1] = g[k] + s[k + 1] * Power[k]
<1>. DEFINE n == Len(s)
            Is(g) == g = [i \in 0 .. n |-> IF i = 0 THEN 0
                                           ELSE g[i - 1] + s[i] * Power[i - 1]]
            digit == [k \in Nat |-> IF k + 1 \in 1 .. n THEN s[k + 1] * Power[k] ELSE 0]
            F == [x \in Nat \X Nat |-> x[2] + digit[x[1]]]
<1>1. n \in Nat /\ \A i \in 1 .. n : s[i] \in Nat
  BY ByteBaseAssumption DEF Byte
<1>2. digit \in [Nat -> Nat]
  <2>1. ASSUME NEW k \in Nat, k + 1 \in 1 .. n PROVE s[k + 1] * Power[k] \in Nat
    <3>1. s[k + 1] \in Nat /\ Power[k] \in Nat
      BY <1>1, <2>1, PowerIs
    <3> QED
      BY <3>1
  <2> QED
    BY <2>1
<1>3. /\ F \in [Nat \X Nat -> Nat]
      /\ \A k \in 0 .. n - 1, v \in Nat : F[<<k, v>>] = v + s[k + 1] * Power[k]
  <2>1. \A k \in 0 .. n - 1 : digit[k] = s[k + 1] * Power[k]
    BY <1>1
  <2>2. \A k \in 0 .. n - 1 : k \in Nat
    BY <1>1
  <2>. HIDE DEF digit, n
  <2>3. F \in [Nat \X Nat -> Nat]
    <3>1. ASSUME NEW x \in Nat \X Nat PROVE x[2] + digit[x[1]] \in Nat
      <4>1. x[1] \in Nat /\ x[2] \in Nat
        OBVIOUS
      <4>2. digit[x[1]] \in Nat
        BY <1>2, <4>1
      <4> QED
        BY <4>1, <4>2
    <3> QED
      BY <3>1
  <2>4. \A k, v \in Nat : F[<<k, v>>] = v + digit[k]
    OBVIOUS
  <2> QED
    BY <2>1, <2>2, <2>3, <2>4
<1>. HIDE DEF F, n
<1>4. PICK g \in [0 .. n -> Nat] : Steps(g, n, 0, F)
  <2>. DEFINE V == Nat
  <2>1. 0 \in V /\ F \in [Nat \X V -> V]
    BY <1>3
  <2>. HIDE DEF V
  <2>2. \E g \in [0 .. n -> V] : Steps(g, n, 0, F)
    BY <1>1, <2>1, StepsExist
  <2> QED
    BY <2>2 DEF V
<1>5. g[0] = 0 /\ \A k \in 0 .. n - 1 : g[k + 1] = g[k] + s[k + 1] * Power[k]
  <2>1. ASSUME NEW k \in 0 .. n - 1 PROVE g[k + 1] = g[k] + s[k + 1] * Power[k]
    <3>1. g[k] \in Nat /\ g[k + 1] = F[<<k, g[k]>>]
      BY <1>1, <1>4 DEF Steps
    <3> QED
      BY <1>3, <3>1
  <2> QED
    BY <1>4, <2>1 DEF Steps
<1>6. Is(g)
  <2>1. ASSUME NEW i \in 0 .. n, i # 0 PROVE g[i] = g[i - 1] + s[i] * Power[i - 1]
    <3>1. i - 1 \in 0 .. n - 1 /\ (i - 1) + 1 = i
      BY <1>1, <2>1
    <3> QED
      BY <1>5, <3>1
  <2>2. g = [i \in 0 .. n |-> g[i]]
    BY <1>4
  <2> QED
    BY <1>5, <2>1, <2>2
<1>. DEFINE h == CHOOSE h : Is(h)
<1>7. Is(h)
  BY <1>6
<1>8. Number(s) = h[n]
  BY DEF Number, n
<1>. HIDE DEF h
<1>. DEFINE N == {k \in Nat : k <= n => h[k] = g[k]}
<1>9. Nat \subseteq N
  <2>1. 0 \in N
    BY <1>1, <1>5, <1>7
  <2>2. ASSUME NEW k \in Nat, k \in N PROVE k + 1 \in N
    <3> SUFFICES ASSUME k + 1 <= n PROVE h[k + 1] = g[k + 1]
      OBVIOUS
    <3>1. /\ k + 1 \in 0 .. n /\ k \in 0 .. n - 1 /\ (k + 1) - 1 = k /\ k + 1 # 0
          /\ k <= n
      BY <1>1
    <3>2. h[k + 1] = h[k] + s[k + 1] * Power[k]
      BY <1>7, <3>1
    <3>3. h[k] = g[k]
      BY <2>2, <3>1
    <3> QED
      BY <1>5, <3>1, <3>2, <3>3
  <2>. HIDE DEF N
  <2> QED
    BY <2>1, <2>2, NatInductionSet
<1>10. h[n] = g[n]
  BY <1>1, <1>9
<1> QED
  BY <1>4, <1>5, <1>8, <1>10 DEF n

\* The remainder with one more digit.
LEMMA OneMoreDigit ==
  ASSUME NEW v \in Nat, NEW p \in Nat \ {0}
  PROVE  v % (ByteBase * p) = (v % p) + ((v \div p) % ByteBase) * p
<1>. DEFINE q == v \div p
            r == v % p
            q2 == q \div ByteBase
            r2 == q % ByteBase
<1>1. q \in Nat /\ r \in 0 .. p - 1 /\ v = p * q + r
  OBVIOUS
<1>2. q2 \in Nat /\ r2 \in 0 .. ByteBase - 1 /\ q = ByteBase * q2 + r2
  BY <1>1, ByteBaseAssumption
<1>. HIDE DEF q, r, q2, r2
<1>3. v = (ByteBase * p) * q2 + (r + r2 * p)
  BY <1>1, <1>2, ByteBaseAssumption
<1>4. r2 * p <= (ByteBase - 1) * p /\ r2 * p \in Nat
  BY <1>2, ByteBaseAssumption
<1>5. r + r2 * p \in 0 .. (ByteBase * p) - 1 /\ ByteBase * p \in Nat \ {0}
  BY <1>1, <1>4, ByteBaseAssumption
<1>6. v % (ByteBase * p) = r + r2 * p
  <2>. DEFINE d == ByteBase * p
              e == r + r2 * p
  <2>. HIDE DEF d, e
  <2>1. v = d * q2 + e /\ e \in 0 .. d - 1 /\ d \in Nat \ {0}
    BY <1>3, <1>5 DEF d, e
  <2>2. v % d = e
    BY <1>2, <2>1, DivisionIsUnique
  <2> QED
    BY <2>2 DEF d, e
<1> QED
  BY <1>6 DEF r, r2, q

\* The low digits of a number that fits into them are the number.
LEMMA LittleEndianReadsBack ==
  ASSUME NEW n \in Nat, NEW v \in 0 .. Power[n] - 1
  PROVE  Number(LittleEndian(v, n)) = v
<1>. DEFINE s == LittleEndian(v, n)
<1>1. v \in Nat /\ Power[n] \in Nat \ {0} /\ v < Power[n]
  BY PowerIs
<1>2. s \in Seq(Byte) /\ Len(s) = n /\ \A i \in 1 .. n : s[i] = (v \div Power[i - 1]) % ByteBase
  BY <1>1, LittleEndianIs
<1>. HIDE DEF s
<1>3. PICK g \in [0 .. Len(s) -> Nat] :
        /\ g[0] = 0 /\ Number(s) = g[Len(s)]
        /\ \A k \in 0 .. Len(s) - 1 : g[k + 1] = g[k] + s[k + 1] * Power[k]
  BY <1>2, NumberIs
<1>. DEFINE N == {k \in Nat : k <= n => g[k] = v % Power[k]}
<1>4. 0 \in N
  <2>1. v % 1 = 0
    BY <1>1
  <2> QED
    BY <1>3, <2>1, PowerIs
<1>5. ASSUME NEW k \in Nat, k \in N PROVE k + 1 \in N
  <2> SUFFICES ASSUME k + 1 <= n PROVE g[k + 1] = v % Power[k + 1]
    OBVIOUS
  <2>1. k \in 0 .. n - 1 /\ k + 1 \in 1 .. n /\ (k + 1) - 1 = k
    OBVIOUS
  <2>2. s[k + 1] = (v \div Power[k]) % ByteBase
    BY <1>2, <2>1
  <2>3. g[k + 1] = g[k] + s[k + 1] * Power[k]
    BY <1>2, <1>3, <2>1
  <2>4. g[k] = v % Power[k]
    BY <1>5, <2>1
  <2>5. Power[k] \in Nat \ {0} /\ Power[k + 1] = ByteBase * Power[k]
    BY PowerIs
  <2>6. v % (ByteBase * Power[k]) = (v % Power[k]) + ((v \div Power[k]) % ByteBase) * Power[k]
    BY <1>1, <2>5, OneMoreDigit
  <2> QED
    BY <2>2, <2>3, <2>4, <2>5, <2>6
<1>6. Nat \subseteq N
  <2>. HIDE DEF N
  <2> QED
    BY <1>4, <1>5, NatInductionSet
<1>7. g[n] = v % Power[n]
  BY <1>6
<1>8. v % Power[n] = v
  BY <1>1
<1> QED
  BY <1>2, <1>3, <1>7, <1>8 DEF s

-----------------------------------------------------------------------------
(* Bytes at an offset                                                      *)

Bytes == Seq(Byte)

\* The bytes s are in b at offset q.
At(b, q, s) ==
  /\ q + Len(s) <= Len(b)
  /\ \A i \in 1 .. Len(s) : b[q + i] = s[i]

LEMMA BytesLen ==
  ASSUME NEW s \in Bytes
  PROVE  Len(s) \in Nat /\ DOMAIN s = 1 .. Len(s) /\ \A i \in 1 .. Len(s) : s[i] \in Byte
BY DEF Bytes

LEMMA Joined ==
  ASSUME NEW s \in Bytes, NEW t \in Bytes
  PROVE  /\ s \o t \in Bytes /\ Len(s \o t) = Len(s) + Len(t)
         /\ \A i \in 1 .. Len(s) : (s \o t)[i] = s[i]
         /\ \A i \in 1 .. Len(t) : (s \o t)[Len(s) + i] = t[i]
<1>1. Len(s) \in Nat /\ Len(t) \in Nat
  BY BytesLen
<1>2. /\ s \o t \in Bytes /\ Len(s \o t) = Len(s) + Len(t)
      /\ \A i \in 1 .. Len(s) + Len(t) :
           (s \o t)[i] = IF i <= Len(s) THEN s[i] ELSE t[i - Len(s)]
  BY ConcatProperties DEF Bytes
<1>. DEFINE n == Len(s)
            m == Len(t)
<1>3. ASSUME NEW i \in 1 .. n PROVE (s \o t)[i] = s[i]
  <2>1. i \in 1 .. n + m /\ i <= n
    BY <1>1
  <2> QED
    BY <1>2, <2>1
<1>4. ASSUME NEW i \in 1 .. m PROVE (s \o t)[n + i] = t[i]
  <2>. HIDE DEF n, m
  <2>1. n + i \in 1 .. n + m /\ ~ (n + i <= n) /\ (n + i) - n = i
    BY <1>1 DEF n, m
  <2>2. (s \o t)[n + i] = IF n + i <= n THEN s[n + i] ELSE t[(n + i) - n]
    BY <1>2, <2>1 DEF n, m
  <2> QED
    BY <2>1, <2>2
<1> QED
  BY <1>2, <1>3, <1>4

LEMMA Associative ==
  ASSUME NEW s \in Bytes, NEW t \in Bytes, NEW u \in Bytes
  PROVE  (s \o t) \o u = s \o (t \o u)
BY ConcatAssociative DEF Bytes

LEMMA Nothing ==
  /\ <<>> \in Bytes /\ Len(<<>>) = 0
  /\ \A s \in Bytes : s \o <<>> = s /\ <<>> \o s = s
BY ConcatEmptySeq, EmptySeq DEF Bytes

\* What is joined is there when its parts are, one behind the other.
LEMMA JoinedAt ==
  ASSUME NEW b \in Bytes, NEW q \in Nat, NEW s \in Bytes, NEW t \in Bytes
  PROVE  At(b, q, s \o t) <=> At(b, q, s) /\ At(b, q + Len(s), t)
<1>. DEFINE n == Len(s)
            m == Len(t)
<1>1. n \in Nat /\ m \in Nat /\ Len(b) \in Nat
  BY BytesLen
<1>2. Len(s \o t) = n + m
  BY Joined
<1>3. \A i \in 1 .. n : (s \o t)[i] = s[i]
  BY Joined
<1>4. \A i \in 1 .. m : (s \o t)[n + i] = t[i]
  BY Joined
<1>. HIDE DEF n, m
<1>5. ASSUME At(b, q, s \o t) PROVE At(b, q, s) /\ At(b, q + n, t)
  <2>1. q + (n + m) <= Len(b) /\ \A i \in 1 .. n + m : b[q + i] = (s \o t)[i]
    BY <1>2, <1>5 DEF At
  <2>2. ASSUME NEW i \in 1 .. n PROVE b[q + i] = s[i]
    <3>1. i \in 1 .. n + m
      BY <1>1
    <3> QED
      BY <1>3, <2>1, <3>1
  <2>3. ASSUME NEW i \in 1 .. m PROVE b[(q + n) + i] = t[i]
    <3>1. n + i \in 1 .. n + m /\ (q + n) + i = q + (n + i)
      BY <1>1
    <3> QED
      BY <1>4, <2>1, <3>1
  <2>4. q + n <= Len(b) /\ (q + n) + m <= Len(b)
    BY <1>1, <2>1
  <2> QED
    BY <2>2, <2>3, <2>4 DEF At, n, m
<1>6. ASSUME At(b, q, s), At(b, q + n, t) PROVE At(b, q, s \o t)
  <2>1. (q + n) + m <= Len(b)
    BY <1>6 DEF At, m
  <2>2. \A i \in 1 .. n : b[q + i] = s[i]
    BY <1>6 DEF At, n
  <2>3. \A i \in 1 .. m : b[(q + n) + i] = t[i]
    BY <1>6 DEF At, m
  <2>4. ASSUME NEW i \in 1 .. n + m PROVE b[q + i] = (s \o t)[i]
    <3>1. CASE i <= n
      <4>1. i \in 1 .. n
        BY <1>1, <3>1
      <4> QED
        BY <1>3, <2>2, <4>1
    <3>2. CASE i > n
      <4>1. i - n \in 1 .. m /\ n + (i - n) = i /\ (q + n) + (i - n) = q + i
        BY <1>1, <3>2
      <4>2. b[(q + n) + (i - n)] = t[i - n]
        BY <2>3, <4>1
      <4>3. (s \o t)[n + (i - n)] = t[i - n]
        BY <1>4, <4>1
      <4> QED
        BY <4>1, <4>2, <4>3
    <3>3. i <= n \/ i > n
      BY <1>1
    <3> QED
      BY <3>1, <3>2, <3>3
  <2>5. q + (n + m) <= Len(b)
    BY <1>1, <2>1
  <2> QED
    BY <1>2, <2>4, <2>5 DEF At
<1> QED
  BY <1>5, <1>6 DEF n

\* All of the bytes are at offset 0.
LEMMA WholeAt == ASSUME NEW b \in Bytes PROVE At(b, 0, b)
<1>1. Len(b) \in Nat
  BY BytesLen
<1> QED
  BY <1>1 DEF At

\* They are cut out by their offset.
LEMMA CutAt ==
  ASSUME NEW b \in Bytes, NEW q \in Nat, NEW s \in Bytes, At(b, q, s)
  PROVE  SubSeq(b, q + 1, q + Len(s)) = s
<1>. DEFINE n == Len(s)
            c == SubSeq(b, q + 1, q + n)
<1>1. n \in Nat /\ Len(b) \in Nat /\ s \in Seq(Byte) /\ b \in Seq(Byte)
  BY BytesLen DEF Bytes
<1>2. q + n <= Len(b) /\ \A i \in 1 .. n : b[q + i] = s[i]
  BY DEF At
<1>. HIDE DEF n
<1>3. q + 1 \in Int /\ q + n \in Int /\ ((q + n) - (q + 1)) + 1 = n
  BY <1>1
<1>4. \A i \in q + 1 .. q + n : b[i] \in Byte
  BY <1>1, <1>2
<1>5. /\ c \in Seq(Byte) /\ Len(c) = IF q + 1 <= q + n THEN ((q + n) - (q + 1)) + 1 ELSE 0
      /\ \A i \in 1 .. ((q + n) - (q + 1)) + 1 : c[i] = b[((q + 1) + i) - 1]
  BY <1>3, <1>4, SubSeqProperties
<1>6. Len(c) = n
  BY <1>1, <1>3, <1>5
<1>. HIDE DEF c
<1>7. ASSUME NEW i \in 1 .. n PROVE c[i] = s[i]
  <2>1. ((q + 1) + i) - 1 = q + i
    BY <1>1
  <2>2. c[i] = b[((q + 1) + i) - 1]
    BY <1>3, <1>5
  <2> QED
    BY <1>2, <2>1, <2>2
<1>8. c = s
  BY <1>1, <1>5, <1>6, <1>7, SeqEqual DEF n
<1> QED
  BY <1>8 DEF c, n

\* The parts of what is flattened are there one behind the other.
LEMMA FlattenedAt ==
  ASSUME NEW seqs \in Seq(Bytes)
  PROVE  /\ FlattenSeq(seqs) \in Bytes
         /\ \A b \in Bytes, q \in Nat :
              At(b, q, FlattenSeq(seqs)) =>
                \E e \in [0 .. Len(seqs) -> Nat] :
                  /\ e[0] = q /\ e[Len(seqs)] = q + Len(FlattenSeq(seqs))
                  /\ \A k \in 0 .. Len(seqs) - 1 : /\ At(b, e[k], seqs[k + 1])
                                                  /\ e[k + 1] = e[k] + Len(seqs[k + 1])
<1>. DEFINE n == Len(seqs)
            F == [x \in Nat \X Bytes |-> IF x[1] + 1 \in 1 .. n THEN x[2] \o seqs[x[1] + 1]
                                         ELSE x[2]]
<1>1. n \in Nat /\ (\A i \in 1 .. n : seqs[i] \in Bytes) /\ DOMAIN seqs = 1 .. n
  OBVIOUS
<1>2. F \in [Nat \X Bytes -> Bytes]
  <2>1. ASSUME NEW x \in Nat \X Bytes
        PROVE  (IF x[1] + 1 \in 1 .. n THEN x[2] \o seqs[x[1] + 1] ELSE x[2]) \in Bytes
    <3>1. x[2] \in Bytes
      OBVIOUS
    <3>2. x[1] + 1 \in 1 .. n => x[2] \o seqs[x[1] + 1] \in Bytes
      BY <1>1, <3>1, Joined
    <3> QED
      BY <3>1, <3>2
  <2> QED
    BY <2>1
<1>3. \A k \in 0 .. n - 1, v \in Bytes : F[<<k, v>>] = v \o seqs[k + 1]
  <2>1. \A k \in 0 .. n - 1 : k \in Nat /\ k + 1 \in 1 .. n
    BY <1>1
  <2>. HIDE DEF n
  <2> QED
    BY <2>1
<1>. HIDE DEF F
<1>4. PICK f \in [0 .. n -> Bytes] : Steps(f, n, <<>>, F)
  BY <1>1, <1>2, Nothing, StepsExist
<1>5. /\ f[0] = <<>>
      /\ \A k \in 0 .. n - 1 : f[k + 1] = f[k] \o seqs[k + 1] /\ f[k] \in Bytes
  <2>1. \A k \in 0 .. n - 1 : k \in 0 .. n
    BY <1>1
  <2>2. \A k \in 0 .. n - 1 : f[k] \in Bytes
    BY <1>4, <2>1
  <2> QED
    BY <1>3, <1>4, <2>2 DEF Steps
<1>6. FlattenSeq(seqs) = f[n]
  <2>1. CASE n = 0
    <3>1. seqs = <<>>
      BY <2>1
    <3> QED
      BY <1>5, <2>1, <3>1 DEF FlattenSeq
  <2>2. CASE n # 0
    <3>. DEFINE Is(g) == g = [i \in 1 .. n |-> IF i = 1 THEN seqs[i] ELSE g[i - 1] \o seqs[i]]
                c == [i \in 1 .. n |-> f[i]]
                h == CHOOSE h : Is(h)
    <3>1. FlattenSeq(seqs) = h[n]
      BY <2>2 DEF FlattenSeq
    <3>2. Is(c)
      <4>1. ASSUME NEW i \in 1 .. n
            PROVE  f[i] = IF i = 1 THEN seqs[i] ELSE c[i - 1] \o seqs[i]
        <5>1. i - 1 \in 0 .. n - 1 /\ (i - 1) + 1 = i
          BY <1>1
        <5>2. f[i] = f[i - 1] \o seqs[i]
          BY <1>5, <5>1
        <5>3. CASE i = 1
          <6>1. <<>> \o seqs[i] = seqs[i]
            BY <1>1, Nothing
          <6>2. i - 1 = 0
            BY <5>3
          <6>3. f[i] = seqs[i]
            BY <1>5, <5>2, <6>1, <6>2
          <6> QED
            BY <5>3, <6>3
        <5>4. CASE i # 1
          <6>1. i - 1 \in 1 .. n
            BY <1>1, <5>4
          <6> QED
            BY <5>2, <5>4, <6>1
        <5> QED
          BY <5>3, <5>4
      <4> QED
        BY <4>1
    <3>3. Is(h)
      BY <3>2
    <3>. HIDE DEF h
    <3>. DEFINE N == {k \in Nat : k + 1 <= n => h[k + 1] = f[k + 1]}
    <3>4. 0 \in N
      <4>1. 1 \in 1 .. n /\ f[1] = seqs[1]
        <5>1. 1 \in 1 .. n /\ 0 \in 0 .. n - 1 /\ 0 + 1 = 1
          BY <1>1, <2>2
        <5>2. f[1] = <<>> \o seqs[1]
          BY <1>5, <5>1
        <5> QED
          BY <1>1, <5>1, <5>2, Nothing
      <4>2. h[1] = seqs[1]
        BY <3>3, <4>1
      <4> QED
        BY <4>1, <4>2
    <3>5. ASSUME NEW k \in Nat, k \in N PROVE k + 1 \in N
      <4> SUFFICES ASSUME (k + 1) + 1 <= n PROVE h[(k + 1) + 1] = f[(k + 1) + 1]
        OBVIOUS
      <4>1. /\ k + 1 \in 0 .. n - 1 /\ (k + 1) + 1 \in 1 .. n /\ (k + 1) + 1 # 1
            /\ ((k + 1) + 1) - 1 = k + 1 /\ k + 1 <= n
        BY <1>1
      <4>2. h[(k + 1) + 1] = h[k + 1] \o seqs[(k + 1) + 1]
        BY <3>3, <4>1
      <4>3. h[k + 1] = f[k + 1]
        BY <3>5, <4>1
      <4> QED
        BY <1>5, <4>1, <4>2, <4>3
    <3>6. Nat \subseteq N
      <4>. HIDE DEF N
      <4> QED
        BY <3>4, <3>5, NatInductionSet
    <3>7. n - 1 \in Nat /\ (n - 1) + 1 = n /\ n <= n
      BY <1>1, <2>2
    <3>8. h[n] = f[n]
      BY <3>6, <3>7
    <3> QED
      BY <3>1, <3>8
  <2> QED
    BY <2>1, <2>2
<1>7. f[n] \in Bytes
  BY <1>1, <1>4
<1>8. ASSUME NEW b \in Bytes, NEW q \in Nat, At(b, q, f[n])
      PROVE  \E e \in [0 .. n -> Nat] :
               /\ e[0] = q /\ e[n] = q + Len(f[n])
               /\ \A k \in 0 .. n - 1 : At(b, e[k], seqs[k + 1]) /\ e[k + 1] = e[k] + Len(seqs[k + 1])
  <2>. DEFINE e == [k \in 0 .. n |-> q + Len(f[k])]
              N == {k \in Nat : k <= n => At(b, q, f[n - k])}
  <2>1. \A k \in 0 .. n : f[k] \in Bytes /\ Len(f[k]) \in Nat
    BY <1>4, BytesLen
  <2>2. e \in [0 .. n -> Nat] /\ e[0] = q /\ e[n] = q + Len(f[n])
    <3>1. 0 \in 0 .. n /\ n \in 0 .. n /\ q + 0 = q
      BY <1>1
    <3> QED
      BY <1>5, <2>1, <3>1, Nothing
  <2>3. Nat \subseteq N
    <3>1. 0 \in N
      <4>1. n - 0 = n
        BY <1>1
      <4> QED
        BY <1>8, <4>1
    <3>2. ASSUME NEW k \in Nat, k \in N PROVE k + 1 \in N
      <4> SUFFICES ASSUME k + 1 <= n PROVE At(b, q, f[n - (k + 1)])
        OBVIOUS
      <4>1. n - (k + 1) \in 0 .. n - 1 /\ (n - (k + 1)) + 1 = n - k /\ k <= n
        BY <1>1
      <4>2. (n - (k + 1)) + 1 \in 1 .. n
        BY <1>1, <4>1
      <4>3. At(b, q, f[n - (k + 1)] \o seqs[(n - (k + 1)) + 1])
        BY <1>5, <3>2, <4>1
      <4> QED
        BY <1>1, <1>5, <4>1, <4>2, <4>3, JoinedAt
    <3>. HIDE DEF N
    <3> QED
      BY <3>1, <3>2, NatInductionSet
  <2>4. ASSUME NEW k \in 0 .. n - 1
        PROVE  At(b, e[k], seqs[k + 1]) /\ e[k + 1] = e[k] + Len(seqs[k + 1])
    <3>1. /\ n - (k + 1) \in Nat /\ n - (k + 1) <= n /\ n - (n - (k + 1)) = k + 1
          /\ k + 1 \in 1 .. n /\ k \in 0 .. n /\ k + 1 \in 0 .. n
      BY <1>1
    <3>2. At(b, q, f[k + 1])
      BY <2>3, <3>1
    <3>3. f[k + 1] = f[k] \o seqs[k + 1] /\ f[k] \in Bytes /\ seqs[k + 1] \in Bytes
      BY <1>1, <1>5, <3>1
    <3>4. At(b, q + Len(f[k]), seqs[k + 1])
      <4>1. At(b, q, f[k] \o seqs[k + 1])
        BY <3>2, <3>3
      <4> QED
        BY <3>3, <4>1, JoinedAt
    <3>5. Len(f[k + 1]) = Len(f[k]) + Len(seqs[k + 1])
      BY <3>3, Joined
    <3>6. Len(f[k]) \in Nat /\ Len(seqs[k + 1]) \in Nat
      BY <3>3, BytesLen
    <3>7. e[k] = q + Len(f[k]) /\ e[k + 1] = q + Len(f[k + 1])
      BY <3>1
    <3>8. q + (Len(f[k]) + Len(seqs[k + 1])) = (q + Len(f[k])) + Len(seqs[k + 1])
      BY <3>6
    <3> QED
      BY <3>4, <3>5, <3>7, <3>8
  <2>. HIDE DEF e
  <2> QED
    BY <2>2, <2>4
<1> QED
  BY <1>6, <1>7, <1>8

\* A varint is read back.
LEMMA VarintIs ==
  ASSUME NEW v \in 0 .. Power[8] - 1
  PROVE  /\ Varint(v) \in Bytes /\ Len(Varint(v)) \in {1, 3, 5, 9}
         /\ Varint(v)[1] = 0 <=> v = 0
         /\ \A b \in Bytes, q \in Nat :
              At(b, q, Varint(v)) =>
                /\ Readable(b, q) /\ VarintSize(b, q) = Len(Varint(v))
                /\ VarintValue(b, q) = v
<1>1. /\ v \in Nat /\ v < Power[8] /\ Power[2] \in Nat /\ Power[4] \in Nat /\ Power[8] \in Nat
      /\ ByteBase \in Nat /\ ByteBase > 3 /\ Power[2] < Power[4] /\ ByteBase < Power[2]
  BY Widths
<1>2. CASE v < ByteBase - 3
  <2>1. Varint(v) = <<v>>
    BY <1>1, <1>2 DEF Varint
  <2>2. <<v>> \in Bytes /\ Len(<<v>>) = 1 /\ <<v>>[1] = v
    <3>1. v \in Byte
      BY <1>1, <1>2 DEF Byte
    <3> QED
      BY <3>1 DEF Bytes
  <2>3. ASSUME NEW b \in Bytes, NEW q \in Nat, At(b, q, <<v>>)
        PROVE  Readable(b, q) /\ VarintSize(b, q) = 1 /\ VarintValue(b, q) = v
    <3>1. Len(b) \in Nat
      BY BytesLen
    <3>2. q + 1 <= Len(b) /\ b[q + 1] = v
      BY <2>2, <2>3 DEF At
    <3>3. VarintSize(b, q) = 1
      BY <1>1, <1>2, <3>2 DEF VarintSize
    <3> QED
      BY <3>1, <3>2, <3>3 DEF Readable, VarintValue, Fail
  <2> QED
    BY <2>1, <2>2, <2>3
<1>3. ASSUME NEW n \in {2, 4, 8}, NEW c \in Byte, v < Power[n],
             c = IF n = 2 THEN ByteBase - 3 ELSE IF n = 4 THEN ByteBase - 2 ELSE ByteBase - 1
      PROVE  /\ <<c>> \o LittleEndian(v, n) \in Bytes
             /\ Len(<<c>> \o LittleEndian(v, n)) = n + 1
             /\ (<<c>> \o LittleEndian(v, n))[1] # 0
             /\ \A b \in Bytes, q \in Nat :
                  At(b, q, <<c>> \o LittleEndian(v, n)) =>
                    /\ Readable(b, q) /\ VarintSize(b, q) = n + 1
                    /\ VarintValue(b, q) = v
  <2>. DEFINE d == LittleEndian(v, n)
  <2>1. n \in Nat /\ v \in 0 .. Power[n] - 1
    BY <1>1, <1>3
  <2>2. d \in Bytes /\ Len(d) = n /\ Number(d) = v
    <3>1. d \in Bytes /\ Len(d) = n
      <4>1. v \in Int /\ n \in Nat
        BY <1>1
      <4>2. d \in Seq(Byte) /\ Len(d) = n
        BY <4>1, LittleEndianIs
      <4> QED
        BY <4>2 DEF Bytes
    <3>2. Number(d) = v
      BY <2>1, LittleEndianReadsBack
    <3> QED
      BY <3>1, <3>2
  <2>3. <<c>> \in Bytes /\ Len(<<c>>) = 1 /\ <<c>>[1] = c
    BY DEF Bytes
  <2>. HIDE DEF d
  <2>4. <<c>> \o d \in Bytes /\ Len(<<c>> \o d) = 1 + n /\ (<<c>> \o d)[1] = c
    <3>1. 1 \in 1 .. 1
      OBVIOUS
    <3> QED
      BY <2>2, <2>3, <3>1, Joined
  <2>5. c # 0
    BY <1>1, <1>3
  <2>6. ASSUME NEW b \in Bytes, NEW q \in Nat, At(b, q, <<c>> \o d)
        PROVE  /\ Readable(b, q) /\ VarintSize(b, q) = n + 1 /\ VarintValue(b, q) = v
    <3>1. Len(b) \in Nat
      BY BytesLen
    <3>2. At(b, q, <<c>>) /\ At(b, q + 1, d)
      BY <2>2, <2>3, <2>6, JoinedAt
    <3>3. b[q + 1] = c /\ (q + 1) + n <= Len(b)
      BY <2>2, <2>3, <3>2 DEF At
    <3>4. VarintSize(b, q) = n + 1
      BY <1>1, <1>3, <3>3 DEF VarintSize
    <3>5. Readable(b, q)
      BY <2>1, <3>1, <3>3, <3>4 DEF Readable, Fail
    <3>6. SubSeq(b, (q + 1) + 1, (q + 1) + n) = d
      BY <2>2, <3>2, CutAt
    <3>7. (q + 1) + 1 = q + 2 /\ (q + 1) + n = q + (n + 1) /\ n + 1 # 1
      BY <2>1
    <3>8. VarintValue(b, q) = v
      BY <2>2, <3>4, <3>6, <3>7 DEF VarintValue
    <3> QED
      BY <3>4, <3>5, <3>8
  <2>7. 1 + n = n + 1
    BY <2>1
  <2> QED
    BY <2>4, <2>5, <2>6, <2>7 DEF d
<1>4. CASE v \in ByteBase - 3 .. Power[2] - 1
  <2>1. Varint(v) = <<ByteBase - 3>> \o LittleEndian(v, 2)
    BY <1>1, <1>4 DEF Varint
  <2>2. ByteBase - 3 \in Byte /\ v < Power[2] /\ v # 0
    BY <1>1, <1>4 DEF Byte
  <2> QED
    BY <1>3, <2>1, <2>2
<1>5. CASE v \in Power[2] .. Power[4] - 1
  <2>1. Varint(v) = <<ByteBase - 2>> \o LittleEndian(v, 4)
    BY <1>1, <1>5 DEF Varint
  <2>2. ByteBase - 2 \in Byte /\ v < Power[4] /\ v # 0
    BY <1>1, <1>5 DEF Byte
  <2> QED
    BY <1>3, <2>1, <2>2
<1>6. CASE v >= Power[4]
  <2>1. Varint(v) = <<ByteBase - 1>> \o LittleEndian(v, 8)
    BY <1>1, <1>6 DEF Varint
  <2>2. ByteBase - 1 \in Byte /\ v < Power[8] /\ v # 0
    BY <1>1, <1>6 DEF Byte
  <2> QED
    BY <1>3, <2>1, <2>2
<1> QED
  BY <1>1, <1>2, <1>4, <1>5, <1>6

-----------------------------------------------------------------------------
(* The loops of the parser                                                 *)

\* Some bytes, as many as before says, what has its length in front, and some
\* more, as many as after says.
Entry(s, before, after) ==
  \E x, d, y \in Bytes :
    /\ Len(x) = before /\ Len(y) = after /\ Len(d) < Power[8]
    /\ s = x \o Sized(d) \o y

\* What a vector can hold.
Memory == {b \in Bytes : Addressable(b)}

LEMMA MemoryIs ==
  ASSUME NEW b \in Memory
  PROVE  b \in Bytes /\ Len(b) \in Nat /\ Len(b) < Power[8]
BY BytesLen DEF Memory, Addressable

LEMMA EntryIs ==
  ASSUME NEW before \in Nat, NEW after \in Nat, NEW s, Entry(s, before, after)
  PROVE  /\ s \in Bytes
         /\ \A b \in Memory, q \in Nat :
              At(b, q, s) => AfterEntry(b, q, before, after) = q + Len(s)
<1>1. PICK x, d, y \in Bytes :
        /\ Len(x) = before /\ Len(y) = after /\ Len(d) < Power[8]
        /\ s = x \o Sized(d) \o y
  BY DEF Entry
<1>. DEFINE n == Len(d)
            v == Varint(n)
            m == Len(v)
<1>2. n \in Nat /\ n \in 0 .. Power[8] - 1
  BY <1>1, BytesLen, Widths
<1>3. v \in Bytes /\ m \in Nat
  BY <1>2, VarintIs, BytesLen
<1>4. \A b \in Bytes, q \in Nat :
        At(b, q, v) => Readable(b, q) /\ VarintSize(b, q) = m /\ VarintValue(b, q) = n
  BY <1>2, VarintIs
<1>. HIDE DEF v, n, m
<1>5. Sized(d) = v \o d
  BY DEF Sized, v, n
<1>6. Sized(d) \in Bytes /\ Len(Sized(d)) = m + n
  BY <1>1, <1>3, <1>5, Joined DEF m, n
<1>7. x \o Sized(d) \in Bytes /\ Len(x \o Sized(d)) = before + (m + n)
  BY <1>1, <1>6, Joined
<1>8. s \in Bytes /\ Len(s) = (before + (m + n)) + after
  BY <1>1, <1>7, Joined
<1>9. ASSUME NEW b \in Memory, NEW q \in Nat, At(b, q, s)
      PROVE  AfterEntry(b, q, before, after) = q + Len(s)
  <2>. b \in Bytes
    BY MemoryIs
  <2>1. At(b, q, x \o Sized(d)) /\ At(b, q + (before + (m + n)), y)
    <3>1. At(b, q, (x \o Sized(d)) \o y)
      BY <1>1, <1>9
    <3> QED
      BY <1>1, <1>7, <3>1, JoinedAt
  <2>2. At(b, q + before, Sized(d))
    BY <1>1, <1>6, <2>1, JoinedAt
  <2>3. At(b, q + before, v)
    <3>1. At(b, q + before, v \o d)
      BY <1>5, <2>2
    <3> QED
      BY <1>1, <1>3, <3>1, JoinedAt
  <2>4. q + before \in Nat /\ Len(b) \in Nat
    BY BytesLen
  <2>5. /\ Readable(b, q + before) /\ VarintSize(b, q + before) = m
        /\ VarintValue(b, q + before) = n
    BY <1>4, <2>3, <2>4
  <2>6. (q + (before + (m + n))) + after <= Len(b)
    BY <1>1, <2>1 DEF At
  <2>7. q # Fail
    BY DEF Fail
  <2>. DEFINE end == q + before + m + n
  <2>8. /\ end + after = (q + (before + (m + n))) + after
        /\ q + Len(s) = (q + (before + (m + n))) + after
        /\ ~ (end + after > Len(b)) /\ ~ (end < q + before + m)
        /\ end \in Nat /\ end <= Len(b)
    BY <1>2, <1>3, <1>8, <2>4, <2>6
  <2>9. end % Power[8] = end
    <3>. HIDE DEF end
    <3>1. end \in 0 .. Power[8] - 1 /\ Power[8] \in Nat
      BY <2>4, <2>8, MemoryIs, Widths
    <3> QED
      BY <3>1
  <2> QED
    BY <2>5, <2>7, <2>8, <2>9 DEF AfterEntry
<1> QED
  BY <1>8, <1>9

\* A count, and as many entries.
Counted(s, n, before, after) ==
  \E seqs \in Seq(Bytes) :
    /\ Len(seqs) = n /\ n < Power[8] /\ \A i \in 1 .. n : Entry(seqs[i], before, after)
    /\ s = Varint(n) \o FlattenSeq(seqs)

LEMMA CountedIs ==
  ASSUME NEW n \in Nat, NEW before \in Nat, NEW after \in Nat, NEW s,
         Counted(s, n, before, after)
  PROVE  /\ s \in Bytes /\ Len(s) >= 1 /\ (s[1] = 0 <=> n = 0)
         /\ \A b \in Memory, q \in Nat :
              At(b, q, s) => /\ AfterEntries(b, q, before, after) = q + Len(s)
                             /\ VarintValue(b, q) = n
<1>0. PICK seqs \in Seq(Bytes) :
        /\ Len(seqs) = n /\ n < Power[8] /\ \A i \in 1 .. n : Entry(seqs[i], before, after)
        /\ s = Varint(n) \o FlattenSeq(seqs)
  BY DEF Counted
<1>. DEFINE v == Varint(n)
            all == FlattenSeq(seqs)
<1>1. n \in 0 .. Power[8] - 1 /\ \A i \in 1 .. n : seqs[i] \in Bytes
  BY <1>0, Widths
<1>2. v \in Bytes /\ Len(v) \in Nat /\ Len(v) >= 1 /\ (v[1] = 0 <=> n = 0)
  <2>1. v \in Bytes /\ Len(v) \in {1, 3, 5, 9} /\ (v[1] = 0 <=> n = 0)
    BY <1>1, VarintIs
  <2> QED
    BY <2>1
<1>3. \A b \in Bytes, q \in Nat :
        At(b, q, v) => Readable(b, q) /\ VarintSize(b, q) = Len(v) /\ VarintValue(b, q) = n
  BY <1>1, VarintIs
<1>4. all \in Bytes /\ Len(all) \in Nat
  BY FlattenedAt, BytesLen
<1>5. \A b \in Bytes, q \in Nat :
        At(b, q, all) =>
          \E e \in [0 .. n -> Nat] :
            /\ e[0] = q /\ e[n] = q + Len(all)
            /\ \A k \in 0 .. n - 1 : At(b, e[k], seqs[k + 1]) /\ e[k + 1] = e[k] + Len(seqs[k + 1])
  BY <1>0, FlattenedAt
<1>. HIDE DEF v, all
<1>6. /\ s \in Bytes /\ Len(s) = Len(v) + Len(all)
      /\ \A i \in 1 .. Len(v) : s[i] = v[i]
  BY <1>0, <1>2, <1>4, Joined DEF v, all
<1>7. ASSUME NEW b \in Memory, NEW q \in Nat, At(b, q, s)
      PROVE  AfterEntries(b, q, before, after) = q + Len(s) /\ VarintValue(b, q) = n
  <2>. b \in Bytes
    BY MemoryIs
  <2>1. At(b, q, v) /\ At(b, q + Len(v), all)
    <3>1. At(b, q, v \o all)
      BY <1>0, <1>7 DEF v, all
    <3> QED
      BY <1>2, <1>4, <3>1, JoinedAt
  <2>2. Readable(b, q) /\ VarintSize(b, q) = Len(v) /\ VarintValue(b, q) = n
    BY <1>3, <2>1
  <2>3. q + Len(v) \in Nat
    BY <1>2
  <2>4. PICK e \in [0 .. n -> Nat] :
          /\ e[0] = q + Len(v) /\ e[n] = (q + Len(v)) + Len(all)
          /\ \A k \in 0 .. n - 1 : At(b, e[k], seqs[k + 1]) /\ e[k + 1] = e[k] + Len(seqs[k + 1])
    BY <1>5, <2>1, <2>3
  <2>5. ASSUME NEW k \in 0 .. n - 1
        PROVE  e[k + 1] = AfterEntry(b, e[k], before, after)
    <3>1. k + 1 \in 1 .. n /\ e[k] \in Nat
      BY <1>1, <2>4
    <3>2. Entry(seqs[k + 1], before, after)
      BY <1>0, <3>1
    <3> QED
      BY <2>4, <3>1, <3>2, EntryIs
  <2>. DEFINE Is(p) == p = [k \in 0 .. n |-> IF k = 0 THEN q + Len(v)
                                             ELSE AfterEntry(b, p[k - 1], before, after)]
              p == CHOOSE p : Is(p)
  <2>6. AfterEntries(b, q, before, after) = p[n]
    BY <2>2 DEF AfterEntries
  <2>7. Is(e)
    <3>1. ASSUME NEW k \in 0 .. n, k # 0
          PROVE  e[k] = AfterEntry(b, e[k - 1], before, after)
      <4>1. k - 1 \in 0 .. n - 1 /\ (k - 1) + 1 = k
        BY <1>1, <3>1
      <4> QED
        BY <2>5, <4>1
    <3>2. e = [k \in 0 .. n |-> e[k]]
      BY <2>4
    <3> QED
      BY <2>4, <3>1, <3>2
  <2>8. Is(p)
    BY <2>7
  <2>. HIDE DEF p
  <2>. DEFINE N == {k \in Nat : k <= n => p[k] = e[k]}
  <2>9. Nat \subseteq N
    <3>1. 0 \in N
      BY <1>1, <2>4, <2>8
    <3>2. ASSUME NEW k \in Nat, k \in N PROVE k + 1 \in N
      <4> SUFFICES ASSUME k + 1 <= n PROVE p[k + 1] = e[k + 1]
        OBVIOUS
      <4>1. /\ k + 1 \in 0 .. n /\ k \in 0 .. n - 1 /\ (k + 1) - 1 = k /\ k + 1 # 0 /\ k <= n
        BY <1>1
      <4>2. p[k + 1] = AfterEntry(b, p[k], before, after)
        BY <2>8, <4>1
      <4>3. p[k] = e[k]
        BY <3>2, <4>1
      <4> QED
        BY <2>5, <4>1, <4>2, <4>3
    <3>. HIDE DEF N
    <3> QED
      BY <3>1, <3>2, NatInductionSet
  <2>10. p[n] = e[n]
    BY <1>1, <2>9
  <2>11. (q + Len(v)) + Len(all) = q + Len(s)
    BY <1>2, <1>4, <1>6
  <2> QED
    BY <2>2, <2>4, <2>6, <2>10, <2>11
<1>8. 1 \in 1 .. Len(v) /\ Len(s) >= 1
  BY <1>2, <1>4, <1>6
<1> QED
  BY <1>2, <1>6, <1>7, <1>8

LEMMA WitnessesAre ==
  ASSUME NEW seqs \in Seq(Bytes),
         \A i \in 1 .. Len(seqs) : \E n \in Nat : Counted(seqs[i], n, 0, 0)
  PROVE  \A b \in Memory, q \in Nat :
           At(b, q, FlattenSeq(seqs)) =>
             AfterWitnesses(b, q, Len(seqs)) = q + Len(FlattenSeq(seqs))
<1>. DEFINE n == Len(seqs)
            all == FlattenSeq(seqs)
<1>1. n \in Nat /\ \A i \in 1 .. n : seqs[i] \in Bytes
  OBVIOUS
<1>2. \A b \in Bytes, q \in Nat :
        At(b, q, all) =>
          \E e \in [0 .. n -> Nat] :
            /\ e[0] = q /\ e[n] = q + Len(all)
            /\ \A k \in 0 .. n - 1 : At(b, e[k], seqs[k + 1]) /\ e[k + 1] = e[k] + Len(seqs[k + 1])
  BY FlattenedAt
<1>. HIDE DEF n, all
<1>3. ASSUME NEW b \in Memory, NEW q \in Nat, At(b, q, all)
      PROVE  AfterWitnesses(b, q, n) = q + Len(all)
  <2>. b \in Bytes
    BY MemoryIs
  <2>1. PICK e \in [0 .. n -> Nat] :
          /\ e[0] = q /\ e[n] = q + Len(all)
          /\ \A k \in 0 .. n - 1 : At(b, e[k], seqs[k + 1]) /\ e[k + 1] = e[k] + Len(seqs[k + 1])
    BY <1>2, <1>3
  <2>2. ASSUME NEW k \in 0 .. n - 1
        PROVE  e[k + 1] = AfterEntries(b, e[k], 0, 0)
    <3>1. k + 1 \in 1 .. n /\ e[k] \in Nat
      BY <1>1, <2>1
    <3>2. PICK m \in Nat : Counted(seqs[k + 1], m, 0, 0)
      BY <3>1 DEF n
    <3>. DEFINE s == seqs[k + 1]
    <3>3. At(b, e[k], s) /\ e[k + 1] = e[k] + Len(s) /\ Counted(s, m, 0, 0)
      BY <2>1, <3>2
    <3>. HIDE DEF s
    <3>4. AfterEntries(b, e[k], 0, 0) = e[k] + Len(s)
      <4>. DEFINE zero == 0
      <4>1. zero \in Nat /\ Counted(s, m, zero, zero)
        BY <3>3
      <4>. HIDE DEF zero
      <4>2. AfterEntries(b, e[k], zero, zero) = e[k] + Len(s)
        BY <3>1, <3>3, <4>1, CountedIs
      <4> QED
        BY <4>2 DEF zero
    <3> QED
      BY <3>3, <3>4
  <2>. DEFINE Is(p) == p = [k \in 0 .. n |-> IF k = 0 THEN q ELSE AfterEntries(b, p[k - 1], 0, 0)]
              p == CHOOSE p : Is(p)
  <2>3. AfterWitnesses(b, q, n) = p[n]
    BY DEF AfterWitnesses
  <2>4. Is(e)
    <3>1. ASSUME NEW k \in 0 .. n, k # 0
          PROVE  e[k] = AfterEntries(b, e[k - 1], 0, 0)
      <4>1. k - 1 \in 0 .. n - 1 /\ (k - 1) + 1 = k
        BY <1>1, <3>1
      <4> QED
        BY <2>2, <4>1
    <3>2. e = [k \in 0 .. n |-> e[k]]
      BY <2>1
    <3> QED
      BY <2>1, <3>1, <3>2
  <2>5. Is(p)
    BY <2>4
  <2>. HIDE DEF p
  <2>. DEFINE N == {k \in Nat : k <= n => p[k] = e[k]}
  <2>6. Nat \subseteq N
    <3>1. 0 \in N
      BY <1>1, <2>1, <2>5
    <3>2. ASSUME NEW k \in Nat, k \in N PROVE k + 1 \in N
      <4> SUFFICES ASSUME k + 1 <= n PROVE p[k + 1] = e[k + 1]
        OBVIOUS
      <4>1. /\ k + 1 \in 0 .. n /\ k \in 0 .. n - 1 /\ (k + 1) - 1 = k /\ k + 1 # 0 /\ k <= n
        BY <1>1
      <4>2. p[k + 1] = AfterEntries(b, p[k], 0, 0)
        BY <2>5, <4>1
      <4>3. p[k] = e[k]
        BY <3>2, <4>1
      <4> QED
        BY <2>2, <4>1, <4>2, <4>3
    <3>. HIDE DEF N
    <3> QED
      BY <3>1, <3>2, NatInductionSet
  <2>7. p[n] = e[n]
    BY <1>1, <2>6
  <2> QED
    BY <2>1, <2>3, <2>7
<1> QED
  BY <1>3 DEF n, all

-----------------------------------------------------------------------------
(* The parts of a transaction                                              *)

Version(t) == LittleEndian(t.version, 4)
Flag(t) == IF HasWitness(t) THEN <<0, 1>> ELSE <<>>
Ins(t) == Many(t.ins, InBytes)
Outs(t) == Many(t.outs, OutBytes)
Items(t) == [i \in DOMAIN t.ins |-> Many(t.ins[i].witness, Sized)]
Wits(t) == IF HasWitness(t) THEN FlattenSeq(Items(t)) ELSE <<>>
LockTime(t) == LittleEndian(t.lock, 4)

LEMMA SerializeIs ==
  ASSUME NEW t
  PROVE  /\ Serialize(t, TRUE) =
              Version(t) \o Flag(t) \o Ins(t) \o Outs(t) \o Wits(t) \o LockTime(t)
         /\ Serialize(t, FALSE) =
              Version(t) \o <<>> \o Ins(t) \o Outs(t) \o <<>> \o LockTime(t)
<1>1. Serialize(t, TRUE) =
        Version(t) \o Flag(t) \o Ins(t) \o Outs(t) \o Wits(t) \o LockTime(t)
  BY DEF Serialize, Version, Flag, Ins, Outs, Wits, Items, LockTime
<1>2. Serialize(t, FALSE) =
        Version(t) \o <<>> \o Ins(t) \o Outs(t) \o <<>> \o LockTime(t)
  BY DEF Serialize, Version, Ins, Outs, LockTime
<1> QED
  BY <1>1, <1>2

\* Six parts that are joined, and the offset of each.
LEMMA SixAt ==
  ASSUME NEW a \in Bytes, NEW c \in Bytes, NEW d \in Bytes, NEW e \in Bytes, NEW f \in Bytes,
         NEW g \in Bytes
  PROVE  /\ a \o c \o d \o e \o f \o g \in Bytes
         /\ Len(a \o c \o d \o e \o f \o g) = Len(a) + Len(c) + Len(d) + Len(e) + Len(f) + Len(g)
         /\ \A b \in Bytes, q \in Nat :
              At(b, q, a \o c \o d \o e \o f \o g) =>
                /\ At(b, q, a) /\ At(b, q + Len(a), c) /\ At(b, q + Len(a) + Len(c), d)
                /\ At(b, q + Len(a) + Len(c) + Len(d), e)
                /\ At(b, q + Len(a) + Len(c) + Len(d) + Len(e), f)
                /\ At(b, q + Len(a) + Len(c) + Len(d) + Len(e) + Len(f), g)
<1>. DEFINE s == a \o c \o d \o e \o f \o g
            s2 == a \o c
            s3 == s2 \o d
            s4 == s3 \o e
            s5 == s4 \o f
            s6 == s5 \o g
            la == Len(a)
            lc == Len(c)
            ld == Len(d)
            le == Len(e)
            lf == Len(f)
            lg == Len(g)
<1>1. la \in Nat /\ lc \in Nat /\ ld \in Nat /\ le \in Nat /\ lf \in Nat /\ lg \in Nat
  BY BytesLen
<1>2. s2 \in Bytes /\ Len(s2) = la + lc
  BY Joined
<1>. HIDE DEF s2
<1>3. s3 \in Bytes /\ Len(s3) = Len(s2) + ld
  BY <1>2, Joined
<1>. HIDE DEF s3
<1>4. s4 \in Bytes /\ Len(s4) = Len(s3) + le
  BY <1>3, Joined
<1>. HIDE DEF s4
<1>5. s5 \in Bytes /\ Len(s5) = Len(s4) + lf
  BY <1>4, Joined
<1>. HIDE DEF s5
<1>6. s6 \in Bytes /\ Len(s6) = Len(s5) + lg
  BY <1>5, Joined
<1>7. s = s6
  BY DEF s2, s3, s4, s5
<1>. HIDE DEF s, s6, la, lc, ld, le, lf, lg
<1>8. /\ Len(s3) = la + lc + ld /\ Len(s4) = la + lc + ld + le
      /\ Len(s5) = la + lc + ld + le + lf /\ Len(s6) = la + lc + ld + le + lf + lg
  BY <1>1, <1>2, <1>3, <1>4, <1>5, <1>6
<1>9. ASSUME NEW b \in Bytes, NEW q \in Nat, At(b, q, s)
      PROVE  /\ At(b, q, a) /\ At(b, q + la, c) /\ At(b, q + la + lc, d)
             /\ At(b, q + la + lc + ld, e) /\ At(b, q + la + lc + ld + le, f)
             /\ At(b, q + la + lc + ld + le + lf, g)
  <2>1. At(b, q, s5) /\ At(b, q + Len(s5), g)
    <3>1. At(b, q, s5 \o g)
      BY <1>7, <1>9 DEF s6
    <3> QED
      BY <1>5, <3>1, JoinedAt
  <2>2. At(b, q, s4) /\ At(b, q + Len(s4), f)
    <3>1. At(b, q, s4 \o f)
      BY <2>1 DEF s5
    <3> QED
      BY <1>4, <3>1, JoinedAt
  <2>3. At(b, q, s3) /\ At(b, q + Len(s3), e)
    <3>1. At(b, q, s3 \o e)
      BY <2>2 DEF s4
    <3> QED
      BY <1>3, <3>1, JoinedAt
  <2>4. At(b, q, s2) /\ At(b, q + Len(s2), d)
    <3>1. At(b, q, s2 \o d)
      BY <2>3 DEF s3
    <3> QED
      BY <1>2, <3>1, JoinedAt
  <2>5. At(b, q, a) /\ At(b, q + la, c)
    <3>1. At(b, q, a \o c)
      BY <2>4 DEF s2
    <3> QED
      BY <3>1, JoinedAt DEF la
  <2>6. /\ q + Len(s2) = q + la + lc /\ q + Len(s3) = q + la + lc + ld
        /\ q + Len(s4) = q + la + lc + ld + le /\ q + Len(s5) = q + la + lc + ld + le + lf
    BY <1>1, <1>2, <1>8
  <2> QED
    BY <2>1, <2>2, <2>3, <2>4, <2>5, <2>6
<1> QED
  BY <1>6, <1>7, <1>8, <1>9 DEF s, la, lc, ld, le, lf, lg

\* The parts are what the loops of the parser expect.
LEMMA PartsOf ==
  ASSUME NEW t \in TxType, Fits(t)
  PROVE  /\ Len(t.ins) \in Nat \ {0} /\ Len(t.outs) \in Nat
         /\ Version(t) \in Bytes /\ Len(Version(t)) = 4
         /\ LockTime(t) \in Bytes /\ Len(LockTime(t)) = 4
         /\ Flag(t) \in Bytes
         /\ Counted(Ins(t), Len(t.ins), HashLen + 4, 4)
         /\ Counted(Outs(t), Len(t.outs), 8, 0)
         /\ Items(t) \in Seq(Bytes) /\ Len(Items(t)) = Len(t.ins)
         /\ \A i \in 1 .. Len(Items(t)) : \E n \in Nat : Counted(Items(t)[i], n, 0, 0)
         /\ Wits(t) \in Bytes
<1>. DEFINE InType == [prev : Seq(Byte), index : Nat, script : Seq(Byte),
                       sequence : Nat, witness : Seq(Seq(Byte))]
            OutType == [value : Nat, script : Seq(Byte)]
<1>1. /\ t.version \in Int /\ t.lock \in Int
      /\ t.ins \in Seq(InType) /\ t.outs \in Seq(OutType)
  BY DEF TxType
<1>in. ASSUME NEW in \in InType
       PROVE  /\ in.prev \in Bytes /\ in.index \in Int /\ in.script \in Bytes
              /\ in.sequence \in Int /\ in.witness \in Seq(Seq(Byte))
  BY DEF Bytes
<1>out. ASSUME NEW out \in OutType PROVE out.value \in Int /\ out.script \in Bytes
  BY DEF Bytes
<1>. HIDE DEF InType, OutType
<1>2. Version(t) \in Bytes /\ Len(Version(t)) = 4
  BY <1>1, LittleEndianIs DEF Version, Bytes
<1>3. LockTime(t) \in Bytes /\ Len(LockTime(t)) = 4
  BY <1>1, LittleEndianIs DEF LockTime, Bytes
<1>4. Flag(t) \in Bytes
  <2>1. 0 \in Byte /\ 1 \in Byte
    BY ByteBaseAssumption DEF Byte
  <2>2. <<0, 1>> \in Bytes /\ <<>> \in Bytes
    BY <2>1 DEF Bytes
  <2> QED
    BY <2>2 DEF Flag
<1>5. /\ Len(t.ins) \in Nat \ {0} /\ DOMAIN t.ins = 1 .. Len(t.ins)
      /\ Len(t.outs) \in Nat /\ DOMAIN t.outs = 1 .. Len(t.outs)
  <2>1. t.ins # <<>>
    BY DEF Fits
  <2> QED
    BY <1>1, <2>1
<1>6. ASSUME NEW x \in Int, NEW n \in Nat
      PROVE  LittleEndian(x, n) \in Bytes /\ Len(LittleEndian(x, n)) = n
  BY LittleEndianIs DEF Bytes
<1>7. Counted(Ins(t), Len(t.ins), HashLen + 4, 4)
  <2>. DEFINE seqs == [i \in DOMAIN t.ins |-> InBytes(t.ins[i])]
  <2>1. ASSUME NEW i \in 1 .. Len(t.ins) PROVE Entry(InBytes(t.ins[i]), HashLen + 4, 4)
    <3>. DEFINE in == t.ins[i]
                x == in.prev \o LittleEndian(in.index, 4)
                y == LittleEndian(in.sequence, 4)
    <3>1. /\ in.prev \in Bytes /\ in.index \in Int /\ in.script \in Bytes /\ in.sequence \in Int
      <4>1. in \in InType
        BY <1>1
      <4> QED
        BY <1>in, <4>1
    <3>2. Len(in.prev) = HashLen /\ Len(in.script) < Power[8]
      BY <1>5 DEF Fits
    <3>3. x \in Bytes /\ Len(x) = HashLen + 4
      <4>1. LittleEndian(in.index, 4) \in Bytes /\ Len(LittleEndian(in.index, 4)) = 4
        BY <1>6, <3>1
      <4>. DEFINE n == LittleEndian(in.index, 4)
                  h == in.prev
      <4>2. h \in Bytes /\ Len(h) = HashLen /\ n \in Bytes /\ Len(n) = 4
        BY <3>1, <3>2, <4>1
      <4>. HIDE DEF n, h
      <4>3. h \o n \in Bytes /\ Len(h \o n) = Len(h) + Len(n)
        BY <4>2, Joined
      <4> QED
        BY <4>2, <4>3 DEF h, n
    <3>4. y \in Bytes /\ Len(y) = 4
      BY <1>6, <3>1
    <3>5. InBytes(in) = x \o Sized(in.script) \o y
      BY DEF InBytes
    <3>. HIDE DEF x, y
    <3> QED
      BY <3>1, <3>2, <3>3, <3>4, <3>5 DEF Entry
  <2>2. ASSUME NEW i \in 1 .. Len(t.ins) PROVE InBytes(t.ins[i]) \in Bytes
    <3>1. HashLen + 4 \in Nat /\ 4 \in Nat
      BY SizesAssumption
    <3> QED
      BY <2>1, <3>1, EntryIs
  <2>3. seqs \in Seq(Bytes) /\ Len(seqs) = Len(t.ins)
    BY <1>5, <2>2
  <2>4. Ins(t) = Varint(Len(t.ins)) \o FlattenSeq(seqs)
    BY DEF Ins, Many
  <2>5. \A i \in 1 .. Len(t.ins) : Entry(seqs[i], HashLen + 4, 4)
    BY <1>5, <2>1
  <2>6. Len(t.ins) < Power[8]
    BY DEF Fits
  <2>. HIDE DEF seqs
  <2> QED
    BY <2>3, <2>4, <2>5, <2>6 DEF Counted
<1>8. Counted(Outs(t), Len(t.outs), 8, 0)
  <2>. DEFINE seqs == [i \in DOMAIN t.outs |-> OutBytes(t.outs[i])]
  <2>1. ASSUME NEW i \in 1 .. Len(t.outs) PROVE Entry(OutBytes(t.outs[i]), 8, 0)
    <3>. DEFINE out == t.outs[i]
                x == LittleEndian(out.value, 8)
    <3>1. out.value \in Int /\ out.script \in Bytes /\ Len(out.script) < Power[8]
      <4>1. out.value \in Int /\ out.script \in Bytes
        <5>1. out \in OutType
          BY <1>1
        <5> QED
          BY <1>out, <5>1
      <4>2. Len(out.script) < Power[8]
        BY <1>5 DEF Fits
      <4> QED
        BY <4>1, <4>2
    <3>2. x \in Bytes /\ Len(x) = 8
      BY <1>6, <3>1
    <3>3. Sized(out.script) \in Bytes
      <4>1. Len(out.script) \in 0 .. Power[8] - 1
        BY <3>1, BytesLen, Widths
      <4>2. Varint(Len(out.script)) \in Bytes
        BY <4>1, VarintIs
      <4> QED
        BY <3>1, <4>2, Joined DEF Sized
    <3>4. OutBytes(out) = x \o Sized(out.script) \o <<>>
      <4>1. x \o Sized(out.script) \in Bytes
        BY <3>2, <3>3, Joined
      <4> QED
        BY <4>1, Nothing DEF OutBytes
    <3>. HIDE DEF x
    <3> QED
      BY <3>1, <3>2, <3>4, Nothing DEF Entry
  <2>2. ASSUME NEW i \in 1 .. Len(t.outs) PROVE OutBytes(t.outs[i]) \in Bytes
    <3>1. 8 \in Nat /\ 0 \in Nat
      OBVIOUS
    <3> QED
      BY <2>1, <3>1, EntryIs
  <2>3. seqs \in Seq(Bytes) /\ Len(seqs) = Len(t.outs)
    BY <1>5, <2>2
  <2>4. Outs(t) = Varint(Len(t.outs)) \o FlattenSeq(seqs)
    BY DEF Outs, Many
  <2>5. \A i \in 1 .. Len(t.outs) : Entry(seqs[i], 8, 0)
    BY <1>5, <2>1
  <2>6. Len(t.outs) < Power[8]
    BY DEF Fits
  <2>. HIDE DEF seqs
  <2> QED
    BY <2>3, <2>4, <2>5, <2>6 DEF Counted
<1>9. ASSUME NEW i \in 1 .. Len(t.ins)
      PROVE  /\ Counted(Many(t.ins[i].witness, Sized), Len(t.ins[i].witness), 0, 0)
             /\ Len(t.ins[i].witness) \in Nat
  <2>. DEFINE w == t.ins[i].witness
              seqs == [j \in DOMAIN w |-> Sized(w[j])]
  <2>1. w \in Seq(Seq(Byte))
    <3>1. t.ins[i] \in InType
      BY <1>1
    <3> QED
      BY <1>in, <3>1
  <2>2. Len(w) < Power[8] /\ \A j \in DOMAIN w : Len(w[j]) < Power[8]
    BY <1>5 DEF Fits
  <2>. HIDE DEF w
  <2>3. Len(w) \in Nat /\ DOMAIN w = 1 .. Len(w) /\ \A j \in 1 .. Len(w) : w[j] \in Bytes
    BY <2>1 DEF Bytes
  <2>4. ASSUME NEW j \in 1 .. Len(w) PROVE Entry(Sized(w[j]), 0, 0) /\ Sized(w[j]) \in Bytes
    <3>. DEFINE d == w[j]
    <3>1. d \in Bytes /\ Len(d) < Power[8]
      BY <2>2, <2>3
    <3>. HIDE DEF d
    <3>2. Sized(d) \in Bytes
      <4>1. Len(d) \in 0 .. Power[8] - 1
        BY <3>1, BytesLen, Widths
      <4>2. Varint(Len(d)) \in Bytes
        BY <4>1, VarintIs
      <4> QED
        BY <3>1, <4>2, Joined DEF Sized
    <3>3. Sized(d) = <<>> \o Sized(d) \o <<>>
      BY <3>2, Nothing
    <3> QED
      BY <3>1, <3>2, <3>3, Nothing DEF Entry, d
  <2>5. seqs \in Seq(Bytes) /\ Len(seqs) = Len(w)
    BY <2>3, <2>4
  <2>6. Many(w, Sized) = Varint(Len(w)) \o FlattenSeq(seqs)
    BY DEF Many
  <2>7. \A j \in 1 .. Len(w) : Entry(seqs[j], 0, 0)
    BY <2>3, <2>4
  <2>. HIDE DEF seqs
  <2>8. Counted(Many(w, Sized), Len(w), 0, 0)
    BY <2>2, <2>5, <2>6, <2>7 DEF Counted
  <2> QED
    BY <2>3, <2>8 DEF w
<1>10. ASSUME NEW i \in 1 .. Len(t.ins) PROVE Many(t.ins[i].witness, Sized) \in Bytes
  <2>1. 0 \in Nat
    OBVIOUS
  <2> QED
    BY <1>9, <2>1, CountedIs
<1>11. Items(t) \in Seq(Bytes) /\ Len(Items(t)) = Len(t.ins)
  BY <1>5, <1>10 DEF Items
<1>12. \A i \in 1 .. Len(Items(t)) : \E n \in Nat : Counted(Items(t)[i], n, 0, 0)
  BY <1>5, <1>9, <1>11 DEF Items
<1>13. Wits(t) \in Bytes
  BY <1>11, FlattenedAt, Nothing DEF Wits
<1> QED
  BY <1>2, <1>3, <1>4, <1>5, <1>7, <1>8, <1>11, <1>12, <1>13

\* Where the parser finds the parts of a transaction at offset q: the inputs
\* behind the version and the flag, and all others behind them.
FirstIn(t, q) == q + 4 + Len(Flag(t))
FirstOut(t, q) == FirstIn(t, q) + Len(Ins(t))
FirstWit(t, q) == FirstOut(t, q) + Len(Outs(t))
BeforeLock(t, q) == FirstWit(t, q) + Len(Wits(t))

LEMMA TxAt ==
  ASSUME NEW t \in TxType, Fits(t), NEW b \in Memory, NEW q \in Nat, At(b, q, Serialize(t, TRUE))
  PROVE  /\ At(b, q, Version(t)) /\ At(b, FirstIn(t, q), Ins(t)) /\ At(b, FirstOut(t, q), Outs(t))
         /\ At(b, BeforeLock(t, q), LockTime(t))
         /\ q + Len(Serialize(t, TRUE)) = BeforeLock(t, q) + 4
         /\ q + 10 <= BeforeLock(t, q) + 4
         /\ HasWitness(t) => FirstIn(t, q) = q + 6
         /\ ~ HasWitness(t) => FirstIn(t, q) = q + 4 /\ BeforeLock(t, q) = FirstWit(t, q)
         /\ b[q + 5] = 0 /\ b[q + 6] # 0 <=> HasWitness(t)
         /\ AfterEntries(b, FirstIn(t, q), HashLen + 4, 4) = FirstOut(t, q)
         /\ VarintValue(b, FirstIn(t, q)) = Len(t.ins)
         /\ AfterEntries(b, FirstOut(t, q), 8, 0) = FirstWit(t, q)
         /\ HasWitness(t) => AfterWitnesses(b, FirstWit(t, q), Len(t.ins)) = BeforeLock(t, q)
         /\ FirstIn(t, q) \in Nat /\ FirstOut(t, q) \in Nat /\ FirstWit(t, q) \in Nat
         /\ BeforeLock(t, q) \in Nat
<1>. DEFINE V == Version(t)
            G == Flag(t)
            I == Ins(t)
            O == Outs(t)
            W == Wits(t)
            L == LockTime(t)
            s == Serialize(t, TRUE)
            n == Len(t.ins)
            hash == HashLen + 4
<1>. b \in Bytes
  BY MemoryIs
<1>1. /\ n \in Nat \ {0} /\ Len(t.outs) \in Nat
      /\ V \in Bytes /\ Len(V) = 4 /\ L \in Bytes /\ Len(L) = 4 /\ G \in Bytes /\ W \in Bytes
      /\ Counted(I, n, hash, 4) /\ Counted(O, Len(t.outs), 8, 0)
  BY PartsOf
<1>2. hash \in Nat /\ 4 \in Nat /\ 8 \in Nat /\ 0 \in Nat
  BY SizesAssumption
<1>3. /\ I \in Bytes /\ Len(I) >= 1 /\ I[1] # 0
      /\ \A x \in Memory, y \in Nat :
           At(x, y, I) => AfterEntries(x, y, hash, 4) = y + Len(I) /\ VarintValue(x, y) = n
  <2>. HIDE DEF I, n, hash
  <2> QED
    BY <1>1, <1>2, CountedIs
<1>4. /\ O \in Bytes /\ Len(O) >= 1
      /\ \A x \in Memory, y \in Nat : At(x, y, O) => AfterEntries(x, y, 8, 0) = y + Len(O)
  <2>. DEFINE m == Len(t.outs)
  <2>. HIDE DEF O, m
  <2> QED
    BY <1>1, <1>2, CountedIs DEF m
<1>5. /\ HasWitness(t) => G = <<0, 1>> /\ Len(G) = 2 /\ W = FlattenSeq(Items(t))
      /\ ~ HasWitness(t) => Len(G) = 0 /\ Len(W) = 0
  BY Nothing DEF Flag, Wits
<1>6. HasWitness(t) =>
        \A x \in Memory, y \in Nat : At(x, y, W) => AfterWitnesses(x, y, n) = y + Len(W)
  <2> SUFFICES ASSUME HasWitness(t), NEW x \in Memory, NEW y \in Nat, At(x, y, W)
               PROVE  AfterWitnesses(x, y, n) = y + Len(W)
    OBVIOUS
  <2>. DEFINE seqs == Items(t)
  <2>1. /\ seqs \in Seq(Bytes) /\ Len(seqs) = n
        /\ \A i \in 1 .. Len(seqs) : \E k \in Nat : Counted(seqs[i], k, 0, 0)
    BY PartsOf
  <2>2. W = FlattenSeq(seqs)
    BY <1>5
  <2>. HIDE DEF W, seqs, n
  <2>3. At(x, y, FlattenSeq(seqs))
    BY <2>2
  <2>4. AfterWitnesses(x, y, Len(seqs)) = y + Len(FlattenSeq(seqs))
    BY <2>1, <2>3, WitnessesAre
  <2> QED
    BY <2>1, <2>2, <2>4
<1>7. s = V \o G \o I \o O \o W \o L
  BY SerializeIs
<1>. HIDE DEF V, G, I, O, W, L, s, n, hash
<1>8. /\ s \in Bytes
      /\ Len(s) = Len(V) + Len(G) + Len(I) + Len(O) + Len(W) + Len(L)
      /\ At(b, q, s) =>
           /\ At(b, q, V) /\ At(b, q + Len(V), G) /\ At(b, q + Len(V) + Len(G), I)
           /\ At(b, q + Len(V) + Len(G) + Len(I), O)
           /\ At(b, q + Len(V) + Len(G) + Len(I) + Len(O), W)
           /\ At(b, q + Len(V) + Len(G) + Len(I) + Len(O) + Len(W), L)
  <2>1. /\ V \in Bytes /\ G \in Bytes /\ I \in Bytes /\ O \in Bytes /\ W \in Bytes /\ L \in Bytes
    BY <1>1, <1>3, <1>4
  <2>. DEFINE s2 == V \o G \o I \o O \o W \o L
  <2>2. /\ s2 \in Bytes
        /\ Len(s2) = Len(V) + Len(G) + Len(I) + Len(O) + Len(W) + Len(L)
    BY <2>1, SixAt
  <2>3. ASSUME At(b, q, s)
        PROVE  /\ At(b, q, V) /\ At(b, q + Len(V), G) /\ At(b, q + Len(V) + Len(G), I)
               /\ At(b, q + Len(V) + Len(G) + Len(I), O)
               /\ At(b, q + Len(V) + Len(G) + Len(I) + Len(O), W)
               /\ At(b, q + Len(V) + Len(G) + Len(I) + Len(O) + Len(W), L)
    <3>1. At(b, q, s2)
      BY <1>7, <2>3
    <3> QED
      BY <2>1, <3>1, SixAt
  <2>4. s = s2
    BY <1>7
  <2>. HIDE DEF s2
  <2> QED
    BY <2>2, <2>3, <2>4
<1>9. At(b, q, s)
  BY DEF s
<1>. DEFINE f1 == q + 4 + Len(G)
            f2 == f1 + Len(I)
            f3 == f2 + Len(O)
            f4 == f3 + Len(W)
<1>10. f1 = FirstIn(t, q) /\ f2 = FirstOut(t, q) /\ f3 = FirstWit(t, q) /\ f4 = BeforeLock(t, q)
  BY DEF FirstIn, FirstOut, FirstWit, BeforeLock, G, I, O, W
<1>11. Len(G) \in Nat /\ Len(I) \in Nat /\ Len(O) \in Nat /\ Len(W) \in Nat
  BY <1>1, <1>3, <1>4, BytesLen
<1>12. At(b, q, V) /\ At(b, q + 4, G) /\ At(b, f1, I) /\ At(b, f2, O) /\ At(b, f3, W) /\ At(b, f4, L)
  BY <1>1, <1>8, <1>9
<1>13. /\ f1 \in Nat /\ f2 \in Nat /\ f3 \in Nat /\ f4 \in Nat
       /\ q + Len(s) = f4 + 4 /\ q + 10 <= f4 + 4
  BY <1>1, <1>3, <1>4, <1>8, <1>11
<1>14. /\ HasWitness(t) => f1 = q + 6
       /\ ~ HasWitness(t) => f1 = q + 4 /\ f4 = f3
  <2>1. HasWitness(t) => Len(G) = 2
    BY <1>5
  <2>2. ~ HasWitness(t) => Len(G) = 0 /\ Len(W) = 0
    BY <1>5
  <2>3. Len(G) = 2 => f1 = q + 6
    BY <1>13
  <2>4. Len(G) = 0 => f1 = q + 4
    BY <1>13
  <2>5. Len(W) = 0 => f4 = f3
    BY <1>13
  <2>. HIDE DEF f1, f3, f4
  <2> QED
    BY <2>1, <2>2, <2>3, <2>4, <2>5
<1>15. b[q + 5] = 0 /\ b[q + 6] # 0 <=> HasWitness(t)
  <2>1. CASE HasWitness(t)
    <3>1. G = <<0, 1>> /\ Len(G) = 2
      BY <1>5, <2>1
    <3>2. 1 \in 1 .. 2 /\ 2 \in 1 .. 2 /\ (q + 4) + 1 = q + 5 /\ (q + 4) + 2 = q + 6
      OBVIOUS
    <3>3. b[(q + 4) + 1] = G[1] /\ b[(q + 4) + 2] = G[2]
      BY <1>12, <3>1, <3>2 DEF At
    <3>4. G[1] = 0 /\ G[2] = 1
      BY <3>1
    <3> QED
      BY <2>1, <3>2, <3>3, <3>4
  <2>2. CASE ~ HasWitness(t)
    <3>1. f1 = q + 4
      BY <1>14, <2>2
    <3>2. 1 \in 1 .. Len(I) /\ (q + 4) + 1 = q + 5
      BY <1>3, <1>11
    <3>3. b[f1 + 1] = I[1]
      BY <1>12, <3>2 DEF At
    <3> QED
      BY <1>3, <2>2, <3>1, <3>2, <3>3
  <2> QED
    BY <2>1, <2>2
<1>. HIDE DEF f1, f2, f3, f4
<1>16. AfterEntries(b, f1, hash, 4) = f2 /\ VarintValue(b, f1) = n
  BY <1>3, <1>12, <1>13 DEF f2
<1>17. AfterEntries(b, f2, 8, 0) = f3
  BY <1>4, <1>12, <1>13 DEF f3
<1>18. HasWitness(t) => AfterWitnesses(b, f3, n) = f4
  BY <1>6, <1>12, <1>13 DEF f4
<1>19. /\ At(b, q, Version(t)) /\ At(b, f1, Ins(t)) /\ At(b, f2, Outs(t)) /\ At(b, f4, LockTime(t))
  BY <1>12 DEF V, I, O, L
<1> QED
  BY <1>10, <1>13, <1>14, <1>15, <1>16, <1>17, <1>18, <1>19 DEF s, n, hash

LEMMA SerializedIs ==
  ASSUME NEW t \in TxType, Fits(t)
  PROVE  Serialize(t, TRUE) \in Bytes
<1>1. /\ Version(t) \in Bytes /\ LockTime(t) \in Bytes /\ Flag(t) \in Bytes /\ Wits(t) \in Bytes
      /\ Counted(Ins(t), Len(t.ins), HashLen + 4, 4) /\ Counted(Outs(t), Len(t.outs), 8, 0)
      /\ Len(t.ins) \in Nat /\ Len(t.outs) \in Nat
  BY PartsOf
<1>2. Ins(t) \in Bytes
  <2>1. HashLen + 4 \in Nat /\ 4 \in Nat
    BY SizesAssumption
  <2> QED
    BY <1>1, <2>1, CountedIs
<1>3. Outs(t) \in Bytes
  <2>1. 8 \in Nat /\ 0 \in Nat
    OBVIOUS
  <2> QED
    BY <1>1, <2>1, CountedIs
<1>. DEFINE s == Serialize(t, TRUE)
<1>4. s = Version(t) \o Flag(t) \o Ins(t) \o Outs(t) \o Wits(t) \o LockTime(t)
  BY SerializeIs
<1>. HIDE DEF s
<1>5. s \in Bytes
  <2>1. Version(t) \o Flag(t) \o Ins(t) \o Outs(t) \o Wits(t) \o LockTime(t) \in Bytes
    BY <1>1, <1>2, <1>3, SixAt
  <2> QED
    BY <1>4, <2>1
<1> QED
  BY <1>5 DEF s

\* What is stripped of a transaction is its serialization without witnesses.
LEMMA Stripped ==
  ASSUME NEW t \in TxType, Fits(t), Addressable(Serialize(t, TRUE))
  PROVE  Strip(Serialize(t, TRUE)) = Serialize(t, FALSE)
<1>. DEFINE b == Serialize(t, TRUE)
            start == FirstIn(t, 0)
            outs == FirstWit(t, 0)
            wits == BeforeLock(t, 0)
            V == Version(t)
            I == Ins(t)
            O == Outs(t)
            L == LockTime(t)
<1>1. b \in Memory /\ b \in Bytes /\ At(b, 0, b) /\ Len(b) \in Nat
  BY SerializedIs, WholeAt, BytesLen DEF Memory
<1>2. /\ V \in Bytes /\ Len(V) = 4 /\ L \in Bytes /\ Len(L) = 4 /\ I \in Bytes /\ O \in Bytes
  <2>1. /\ V \in Bytes /\ Len(V) = 4 /\ L \in Bytes /\ Len(L) = 4
        /\ Counted(I, Len(t.ins), HashLen + 4, 4) /\ Len(t.ins) \in Nat
        /\ Counted(O, Len(t.outs), 8, 0) /\ Len(t.outs) \in Nat
    BY PartsOf
  <2>2. HashLen + 4 \in Nat /\ 4 \in Nat /\ 8 \in Nat /\ 0 \in Nat
    BY SizesAssumption
  <2>. HIDE DEF I, O
  <2>3. I \in Bytes
    BY <2>1, <2>2, CountedIs
  <2>4. O \in Bytes
    BY <2>1, <2>2, CountedIs
  <2> QED
    BY <2>1, <2>3, <2>4
<1>3. /\ At(b, 0, V) /\ At(b, start, I) /\ At(b, FirstOut(t, 0), O) /\ At(b, wits, L)
      /\ 0 + Len(b) = wits + 4 /\ 0 + 10 <= wits + 4
      /\ HasWitness(t) => start = 0 + 6
      /\ ~ HasWitness(t) => start = 0 + 4 /\ wits = outs
      /\ b[0 + 5] = 0 /\ b[0 + 6] # 0 <=> HasWitness(t)
      /\ AfterEntries(b, start, HashLen + 4, 4) = FirstOut(t, 0)
      /\ VarintValue(b, start) = Len(t.ins)
      /\ AfterEntries(b, FirstOut(t, 0), 8, 0) = outs
      /\ HasWitness(t) => AfterWitnesses(b, outs, Len(t.ins)) = wits
      /\ start \in Nat /\ FirstOut(t, 0) \in Nat /\ outs \in Nat /\ wits \in Nat
  <2>. DEFINE zero == 0
  <2>1. zero \in Nat /\ At(b, zero, Serialize(t, TRUE))
    BY <1>1
  <2>. HIDE DEF zero
  <2> QED
    BY <1>1, <2>1, TxAt DEF zero
<1>4. FirstOut(t, 0) = start + Len(I) /\ outs = FirstOut(t, 0) + Len(O)
  BY DEF FirstOut, FirstWit
<1>. DEFINE mid == FirstOut(t, 0)
<1>5. Serialize(t, FALSE) = V \o (I \o O) \o L
  <2>1. Serialize(t, FALSE) = V \o <<>> \o I \o O \o <<>> \o L
    BY SerializeIs
  <2>. HIDE DEF V, I, O, L
  <2>2. V \o <<>> = V
    BY <1>2, Nothing
  <2>3. (V \o I) \o O = V \o (I \o O)
    BY <1>2, Associative
  <2>4. V \o (I \o O) \in Bytes
    BY <1>2, Joined
  <2>5. (V \o (I \o O)) \o <<>> = V \o (I \o O)
    BY <2>4, Nothing
  <2> QED
    BY <2>1, <2>2, <2>3, <2>5
<1>. HIDE DEF b, start, outs, wits, V, I, O, L, mid
<1>6. HasFlag(b) <=> HasWitness(t)
  <2>1. 0 + 5 = 5 /\ 0 + 6 = 6
    OBVIOUS
  <2> QED
    BY <1>3, <2>1 DEF HasFlag
<1>7. /\ start = IF HasFlag(b) THEN 6 ELSE 4
      /\ ~ (Len(b) < MinTxSize) /\ wits + 4 = Len(b) /\ wits # Fail /\ outs # Fail
  <2>1. HasWitness(t) => start = 6
    BY <1>3
  <2>2. ~ HasWitness(t) => start = 4
    BY <1>3
  <2>3. ~ (Len(b) < MinTxSize) /\ wits + 4 = Len(b) /\ wits # Fail /\ outs # Fail
    BY <1>1, <1>3, SizesAssumption DEF Fail
  <2> QED
    BY <1>6, <2>1, <2>2, <2>3
<1>8. AfterEntries(b, start, HashLen + 4, 4) = mid /\ AfterEntries(b, mid, 8, 0) = outs
  BY <1>3 DEF mid
<1>9. wits = IF HasFlag(b) /\ outs # Fail
             THEN AfterWitnesses(b, outs, VarintValue(b, start)) ELSE outs
  BY <1>3, <1>6, <1>7
<1>10. Strip(b) = SubSeq(b, 1, 4) \o SubSeq(b, start + 1, outs) \o SubSeq(b, wits + 1, wits + 4)
  <2>. DEFINE o == AfterEntries(b, AfterEntries(b, start, HashLen + 4, 4), 8, 0)
  <2>1. o = outs
    BY <1>8
  <2> QED
    BY <1>7, <1>9, <2>1 DEF Strip
<1>11. SubSeq(b, 1, 4) = V
  <2>1. SubSeq(b, 0 + 1, 0 + Len(V)) = V
    BY <1>1, <1>2, <1>3, CutAt
  <2> QED
    BY <1>2, <2>1
<1>12. SubSeq(b, start + 1, outs) = I \o O
  <2>1. At(b, start, I \o O)
    BY <1>1, <1>2, <1>3, <1>4, JoinedAt
  <2>2. I \o O \in Bytes /\ Len(I \o O) = Len(I) + Len(O)
    BY <1>2, Joined
  <2>3. SubSeq(b, start + 1, start + Len(I \o O)) = I \o O
    BY <1>1, <1>3, <2>1, <2>2, CutAt
  <2>4. Len(I) \in Nat /\ Len(O) \in Nat
    BY <1>2, BytesLen
  <2>5. start + Len(I \o O) = outs
    BY <1>3, <1>4, <2>2, <2>4
  <2> QED
    BY <2>3, <2>5
<1>13. SubSeq(b, wits + 1, wits + 4) = L
  <2>1. SubSeq(b, wits + 1, wits + Len(L)) = L
    BY <1>1, <1>2, <1>3, CutAt
  <2> QED
    BY <1>2, <2>1
<1>14. Strip(b) = V \o (I \o O) \o L
  BY <1>10, <1>11, <1>12, <1>13
<1> QED
  BY <1>5, <1>14 DEF b

-----------------------------------------------------------------------------
(* The subsidy                                                             *)

\* A shift by one more bit halves the subsidy.
LEMMA ShiftedIs ==
  /\ Shifted \in [Nat -> Nat] /\ Shifted[0] = InitialSubsidy
  /\ \A k \in Nat : Shifted[k + 1] = Shifted[k] \div 2
<1>. DEFINE F == [x \in Nat \X Nat |-> x[2] \div 2]
            Is(f) == f = [k \in Nat |-> IF k = 0 THEN InitialSubsidy ELSE f[k - 1] \div 2]
<1>1. F \in [Nat \X Nat -> Nat] /\ \A k, v \in Nat : F[<<k, v>>] = v \div 2
  OBVIOUS
<1>2. InitialSubsidy \in Nat
  BY SubsidyAssumption
<1>. HIDE DEF F
<1>3. PICK f \in [Nat -> Nat] : Recursion(f, InitialSubsidy, F)
  <2>. DEFINE V == Nat
  <2>1. InitialSubsidy \in V /\ F \in [Nat \X V -> V]
    BY <1>1, <1>2
  <2>. HIDE DEF V
  <2>2. \E f \in [Nat -> V] : Recursion(f, InitialSubsidy, F)
    BY <2>1, RecursionOfNat
  <2> QED
    BY <2>2 DEF V
<1>4. ASSUME NEW k \in Nat
      PROVE  (IF k = 0 THEN InitialSubsidy ELSE F[<<k - 1, f[k - 1]>>])
               = (IF k = 0 THEN InitialSubsidy ELSE f[k - 1] \div 2)
  BY <1>1
<1>5. Is(f)
  BY <1>3, <1>4 DEF Recursion
<1>6. Shifted = CHOOSE g : Is(g)
  BY DEF Shifted
<1>7. Is(Shifted)
  BY <1>5, <1>6
<1>8. /\ DOMAIN Shifted = Nat /\ Shifted[0] = InitialSubsidy
      /\ \A k \in Nat : Shifted[k + 1] = Shifted[k] \div 2
  BY <1>7
<1>. DEFINE N == {k \in Nat : Shifted[k] \in Nat}
<1>9. Nat \subseteq N
  <2>1. 0 \in N
    BY <1>2, <1>8
  <2>2. ASSUME NEW k \in Nat, k \in N PROVE k + 1 \in N
    BY <1>8, <2>2
  <2>. HIDE DEF N
  <2> QED
    BY <2>1, <2>2, NatInductionSet
<1>10. Shifted = [k \in Nat |-> Shifted[k]]
  BY <1>7
<1> QED
  BY <1>8, <1>9, <1>10

\* From a block to the next the subsidy stays, or an interval ends and it is
\* halved.
LEMMA SubsidyStep ==
  ASSUME NEW h \in Nat
  PROVE  /\ Subsidy(h) \in Nat /\ Subsidy(h + 1) \in Nat
         /\ h % HalvingInterval \in 0 .. HalvingInterval - 1
         /\ \/ /\ Subsidy(h + 1) = Subsidy(h)
               /\ (h + 1) % HalvingInterval = (h % HalvingInterval) + 1
            \/ /\ 2 * Subsidy(h + 1) <= Subsidy(h)
               /\ h % HalvingInterval = HalvingInterval - 1
               /\ (h + 1) % HalvingInterval = 0
<1>. DEFINE I == HalvingInterval
            k == h \div I
            r == h % I
<1>1. I \in Nat /\ I > 0 /\ MaxHalvings \in Nat
  BY SubsidyAssumption
<1>2. k \in Nat /\ r \in 0 .. I - 1 /\ h = I * k + r
  BY <1>1
<1>3. \A n \in Nat : Shifted[n] \in Nat /\ 2 * Shifted[n + 1] <= Shifted[n]
  BY ShiftedIs
<1>4. CASE r + 1 < I
  <2>1. (h + 1) \div I = k /\ (h + 1) % I = r + 1
    <3>1. h + 1 = I * k + (r + 1) /\ r + 1 \in 0 .. I - 1
      BY <1>1, <1>2, <1>4
    <3> QED
      BY <1>1, <1>2, <3>1
  <2> QED
    BY <1>1, <1>2, <1>3, <2>1 DEF Subsidy
<1>5. CASE r + 1 = I
  <2>1. (h + 1) \div I = k + 1 /\ (h + 1) % I = 0
    <3>1. h + 1 = I * (k + 1)
      BY <1>1, <1>2, <1>5
    <3> QED
      BY <1>1, <1>2, <3>1
  <2>2. k >= MaxHalvings => Subsidy(h) = 0 /\ Subsidy(h + 1) = 0
    BY <1>1, <1>2, <2>1 DEF Subsidy
  <2>3. k < MaxHalvings => Subsidy(h) = Shifted[k] /\ Subsidy(h + 1) \in {0, Shifted[k + 1]}
    BY <1>1, <1>2, <2>1 DEF Subsidy
  <2> QED
    BY <1>1, <1>2, <1>3, <1>5, <2>1, <2>2, <2>3
<1>6. r + 1 < I \/ r + 1 = I
  BY <1>1, <1>2
<1> QED
  BY <1>4, <1>5, <1>6
-----------------------------------------------------------------------------
(* Pushes and script numbers                                               *)

LEMMA ZerosAre ==
  ASSUME NEW n \in Nat
  PROVE  Zeros(n) \in Bytes /\ Len(Zeros(n)) = n
<1>1. 0 \in Byte
  BY ByteBaseAssumption DEF Byte
<1> QED
  BY <1>1 DEF Zeros, Bytes

\* A push is a header, which says how long the data is, and the data; no header
\* that says it is shorter.
Reads(header, n) ==
  \A s \in Bytes, q \in Nat :
    At(s, q, header) => PushAt(s, q) = [from |-> q + Len(header), size |-> n]
Pushes(header, data) ==
  /\ header \in Bytes /\ Len(header) \in 1 .. 5 /\ Len(header) = HeaderLen(Len(data))
  /\ Push(data) = header \o data /\ Reads(header, Len(data))

LEMMA PushIs ==
  ASSUME NEW data \in Bytes, Len(data) < Power[4]
  PROVE  \E header : Pushes(header, data)
<1>. DEFINE n == Len(data)
<1>1. /\ n \in Nat /\ n < Power[4] /\ Power[2] \in Nat /\ Power[4] \in Nat
      /\ ByteBase \in Nat /\ ByteBase > 3 /\ Power[2] < Power[4] /\ ByteBase < Power[2]
      /\ DirectPush \in 1 .. ByteBase - 3
  BY BytesLen, Widths, DirectPushAssumption
<1>2. CASE n < DirectPush
  <2>1. Push(data) = <<n>> \o data
    BY <1>1, <1>2 DEF Push
  <2>2. <<n>> \in Bytes /\ Len(<<n>>) = 1 /\ <<n>>[1] = n
    <3>1. n \in Byte
      BY <1>1, <1>2 DEF Byte
    <3> QED
      BY <3>1 DEF Bytes
  <2>3. ASSUME NEW s \in Bytes, NEW q \in Nat, At(s, q, <<n>>)
        PROVE  PushAt(s, q) = [from |-> q + 1, size |-> n]
    <3>1. s[q + 1] = n
      BY <2>2, <2>3 DEF At
    <3> QED
      BY <1>1, <1>2, <3>1 DEF PushAt
  <2>6. HeaderLen(n) = 1
    BY <1>1, <1>2 DEF HeaderLen
  <2>. HIDE DEF n
  <2>4. Reads(<<n>>, n)
    BY <2>2, <2>3 DEF Reads
  <2>5. Pushes(<<n>>, data)
    BY <2>1, <2>2, <2>4, <2>6 DEF Pushes, n
  <2> QED
    BY <2>5
<1>3. CASE n \in DirectPush .. ByteBase - 1
  <2>. DEFINE h == <<DirectPush, n>>
  <2>1. Push(data) = h \o data
    BY <1>1, <1>3 DEF Push
  <2>2. h \in Bytes /\ Len(h) = 2 /\ h[1] = DirectPush /\ h[2] = n
    <3>1. n \in Byte /\ DirectPush \in Byte
      BY <1>1, <1>3 DEF Byte
    <3> QED
      BY <3>1 DEF Bytes
  <2>6. HeaderLen(n) = 2
    BY <1>1, <1>3 DEF HeaderLen
  <2>. HIDE DEF h, n
  <2>3. ASSUME NEW s \in Bytes, NEW q \in Nat, At(s, q, h)
        PROVE  PushAt(s, q) = [from |-> q + 2, size |-> n]
    <3>1. 1 \in 1 .. 2 /\ 2 \in 1 .. 2
      OBVIOUS
    <3>2. s[q + 1] = DirectPush /\ s[q + 2] = n
      BY <2>2, <2>3, <3>1 DEF At
    <3> QED
      BY <1>1, <3>2 DEF PushAt
  <2>4. Reads(h, n)
    BY <2>2, <2>3 DEF Reads
  <2>5. Pushes(h, data)
    BY <2>1, <2>2, <2>4, <2>6 DEF Pushes, n
  <2> QED
    BY <2>5
<1>4. ASSUME NEW w \in {2, 4}, NEW c \in Byte, n < Power[w],
             c = IF w = 2 THEN DirectPush + 1 ELSE DirectPush + 2
      PROVE  /\ <<c>> \o LittleEndian(n, w) \in Bytes
             /\ Len(<<c>> \o LittleEndian(n, w)) = w + 1
             /\ Reads(<<c>> \o LittleEndian(n, w), n)
  <2>. DEFINE d == LittleEndian(n, w)
              h == <<c>> \o d
  <2>1. w \in Nat /\ n \in 0 .. Power[w] - 1
    BY <1>1, <1>4
  <2>2. d \in Bytes /\ Len(d) = w /\ Number(d) = n
    <3>1. d \in Bytes /\ Len(d) = w
      <4>1. n \in Int
        BY <1>1
      <4>2. d \in Seq(Byte) /\ Len(d) = w
        BY <2>1, <4>1, LittleEndianIs
      <4> QED
        BY <4>2 DEF Bytes
    <3>2. Number(d) = n
      BY <2>1, LittleEndianReadsBack
    <3> QED
      BY <3>1, <3>2
  <2>3. <<c>> \in Bytes /\ Len(<<c>>) = 1 /\ <<c>>[1] = c
    BY DEF Bytes
  <2>. HIDE DEF d, n
  <2>4. h \in Bytes /\ Len(h) = w + 1
    <3>1. h \in Bytes /\ Len(h) = 1 + w
      BY <2>2, <2>3, Joined
    <3> QED
      BY <2>1, <3>1
  <2>5. ASSUME NEW s \in Bytes, NEW q \in Nat, At(s, q, h)
        PROVE  PushAt(s, q) = [from |-> q + (w + 1), size |-> n]
    <3>1. At(s, q, <<c>>) /\ At(s, q + 1, d)
      BY <2>2, <2>3, <2>5, JoinedAt
    <3>2. s[q + 1] = c
      BY <2>3, <3>1 DEF At
    <3>3. SubSeq(s, (q + 1) + 1, (q + 1) + w) = d
      BY <2>2, <3>1, CutAt
    <3>4. CASE w = 2
      <4>1. (q + 1) + 1 = q + 2 /\ (q + 1) + 2 = q + 3 /\ q + (2 + 1) = q + 3
        OBVIOUS
      <4>2. Number(SubSeq(s, q + 2, q + 3)) = n
        BY <2>2, <3>3, <3>4, <4>1
      <4> QED
        BY <1>1, <1>4, <3>2, <3>4, <4>1, <4>2 DEF PushAt
    <3>5. CASE w = 4
      <4>1. (q + 1) + 1 = q + 2 /\ (q + 1) + 4 = q + 5 /\ q + (4 + 1) = q + 5
        OBVIOUS
      <4>2. Number(SubSeq(s, q + 2, q + 5)) = n
        BY <2>2, <3>3, <3>5, <4>1
      <4> QED
        BY <1>1, <1>4, <3>2, <3>5, <4>1, <4>2 DEF PushAt
    <3> QED
      BY <3>4, <3>5
  <2>. HIDE DEF h
  <2>6. Reads(h, n)
    BY <2>4, <2>5 DEF Reads
  <2> QED
    BY <2>4, <2>6 DEF h, d
<1>5. CASE n \in ByteBase .. Power[2] - 1
  <2>. DEFINE h == <<DirectPush + 1>> \o LittleEndian(n, 2)
  <2>1. Push(data) = h \o data
    BY <1>1, <1>5 DEF Push
  <2>2. DirectPush + 1 \in Byte /\ n < Power[2]
    BY <1>1, <1>5 DEF Byte
  <2>3. h \in Bytes /\ Len(h) = 2 + 1 /\ Reads(h, n)
    <3>. HIDE DEF n
    <3> QED
      BY <1>4, <2>2
  <2>5. HeaderLen(n) = 3
    BY <1>1, <1>5 DEF HeaderLen
  <2>. HIDE DEF h
  <2>4. Pushes(h, data)
    BY <2>1, <2>3, <2>5 DEF Pushes
  <2> QED
    BY <2>4
<1>6. CASE n >= Power[2]
  <2>. DEFINE h == <<DirectPush + 2>> \o LittleEndian(n, 4)
  <2>1. Push(data) = h \o data
    BY <1>1, <1>6 DEF Push
  <2>2. DirectPush + 2 \in Byte /\ n < Power[4]
    BY <1>1, <1>6 DEF Byte
  <2>3. h \in Bytes /\ Len(h) = 4 + 1 /\ Reads(h, n)
    <3>. HIDE DEF n
    <3> QED
      BY <1>4, <2>2
  <2>5. HeaderLen(n) = 5
    BY <1>1, <1>6 DEF HeaderLen
  <2>. HIDE DEF h
  <2>4. Pushes(h, data)
    BY <2>1, <2>3, <2>5 DEF Pushes
  <2> QED
    BY <2>4
<1>7. \/ n < DirectPush \/ n \in DirectPush .. ByteBase - 1
      \/ n \in ByteBase .. Power[2] - 1 \/ n >= Power[2]
  BY <1>1
<1> QED
  BY <1>2, <1>3, <1>5, <1>6, <1>7

\* The digits of a number are as few as can hold it.
LEMMA DigitsAre ==
  ASSUME NEW v \in 0 .. Power[8] - 1
  PROVE  \E n \in 0 .. 8 : /\ Digits(v) = LittleEndian(v, n) /\ v < Power[n]
                          /\ \A k \in 0 .. n - 1 : v >= Power[k]
<1>. DEFINE Least(m) == v < Power[m] /\ \A k \in 0 .. m - 1 : v >= Power[k]
            N == {n \in Nat : (\A k \in 0 .. n : v >= Power[k]) \/ \E m \in 0 .. n : Least(m)}
<1>1. v \in Nat /\ v < Power[8] /\ \A k \in Nat : Power[k] \in Nat
  BY Widths, PowerIs
<1>2. 0 \in N
  <2>1. CASE v < Power[0]
    <3>1. Least(0)
      BY <2>1
    <3> QED
      BY <3>1
  <2>2. CASE v >= Power[0]
    BY <2>2
  <2>3. Power[0] \in Nat
    BY <1>1
  <2> QED
    BY <1>1, <2>1, <2>2, <2>3
<1>3. ASSUME NEW n \in Nat, n \in N PROVE n + 1 \in N
  <2>1. CASE \E m \in 0 .. n : Least(m)
    <3>1. PICK m \in 0 .. n : Least(m)
      BY <2>1
    <3>2. m \in 0 .. n + 1
      OBVIOUS
    <3> QED
      BY <3>1, <3>2
  <2>2. CASE \A k \in 0 .. n : v >= Power[k]
    <3>1. CASE v < Power[n + 1]
      <4>1. (n + 1) - 1 = n /\ n + 1 \in 0 .. n + 1
        OBVIOUS
      <4>2. Least(n + 1)
        BY <2>2, <3>1, <4>1
      <4> QED
        BY <4>1, <4>2
    <3>2. CASE v >= Power[n + 1]
      <4>1. \A k \in 0 .. n + 1 : k \in 0 .. n \/ k = n + 1
        OBVIOUS
      <4> QED
        BY <2>2, <3>2, <4>1
    <3>3. Power[n + 1] \in Nat
      BY <1>1
    <3> QED
      BY <1>1, <3>1, <3>2, <3>3
  <2> QED
    BY <1>3, <2>1, <2>2
<1>4. Nat \subseteq N
  <2>. HIDE DEF N
  <2> QED
    BY <1>2, <1>3, NatInductionSet
<1>5. \E m \in 0 .. 8 : Least(m)
  <2>1. 8 \in N /\ 8 \in 0 .. 8
    BY <1>4
  <2>2. ~ (v >= Power[8])
    BY <1>1
  <2>. HIDE DEF Least
  <2> QED
    BY <2>1, <2>2
<1>. DEFINE size == CHOOSE m \in 0 .. 8 : Least(m)
<1>6. size \in 0 .. 8 /\ Least(size)
  BY <1>5
<1>7. Digits(v) = LittleEndian(v, size)
  BY DEF Digits
<1>. HIDE DEF size
<1> QED
  BY <1>6, <1>7
\* A script number is read back, and is in its shortest form.
LEMMA ScriptNumIs ==
  ASSUME NEW v \in 0 .. Power[8] - 1
  PROVE  /\ ScriptNum(v) \in Bytes /\ Len(ScriptNum(v)) \in 0 .. 9
         /\ ScriptNumValue(ScriptNum(v)) = v /\ Minimal(ScriptNum(v))
<1>1. PICK n \in 0 .. 8 : /\ Digits(v) = LittleEndian(v, n) /\ v < Power[n]
                         /\ \A k \in 0 .. n - 1 : v >= Power[k]
  BY DigitsAre
<1>. DEFINE d == LittleEndian(v, n)
            e == ScriptNum(v)
<1>2. v \in Nat /\ v \in 0 .. Power[n] - 1
  BY <1>1, Widths, PowerIs
<1>3. /\ d \in Bytes /\ Len(d) = n /\ Number(d) = v
      /\ \A i \in 1 .. n : d[i] = (v \div Power[i - 1]) % ByteBase
  <2>1. v \in Int /\ n \in Nat
    BY <1>2
  <2>2. /\ d \in Seq(Byte) /\ Len(d) = n
        /\ \A i \in 1 .. n : d[i] = (v \div Power[i - 1]) % ByteBase
    BY <2>1, LittleEndianIs
  <2>3. Number(d) = v
    BY <1>2, <2>1, LittleEndianReadsBack
  <2> QED
    BY <2>2, <2>3 DEF Bytes
<1>4. e = IF d # <<>> /\ Last(d) >= SignBit THEN Append(d, 0) ELSE d
  BY <1>1 DEF ScriptNum
<1>. HIDE DEF d, e
<1>5. CASE n = 0
  <2>1. d = <<>>
    BY <1>3, <1>5 DEF Bytes
  <2>2. e = <<>>
    BY <1>4, <2>1
  <2>3. v = 0
    BY <1>1, <1>2, <1>5, PowerIs
  <2> QED
    BY <2>2, <2>3, Nothing DEF ScriptNumValue, Minimal, e
<1>6. CASE n # 0
  <2>. DEFINE last == d[n]
  <2>1. n \in Nat /\ n >= 1 /\ n \in 1 .. n /\ n - 1 \in Nat /\ n - 1 \in 0 .. n - 1
    BY <1>6
  <2>2. ByteBase \in Nat /\ SignBit \in Nat /\ 2 <= SignBit /\ SignBit < ByteBase
    BY ByteBaseAssumption DEF SignBit
  <2>3. d # <<>> /\ Last(d) = last
    BY <1>3, <1>6 DEF Last
  <2>4. last \in 1 .. ByteBase - 1
    <3>. DEFINE p == Power[n - 1]
    <3>1. p \in Nat \ {0} /\ v < ByteBase * p /\ v >= p
      <4>1. (n - 1) + 1 = n
        BY <2>1
      <4>2. Power[(n - 1) + 1] = ByteBase * p
        BY <2>1, PowerIs
      <4>3. p \in Nat \ {0}
        BY <2>1, PowerIs
      <4>4. v >= p
        BY <1>1, <2>1
      <4> QED
        BY <1>1, <4>1, <4>2, <4>3, <4>4
    <3>2. last = (v \div p) % ByteBase
      BY <1>3, <2>1
    <3>. HIDE DEF p, last
    <3>3. v \div p \in Nat /\ v % p \in 0 .. p - 1 /\ v = p * (v \div p) + (v % p)
      BY <1>2, <3>1
    <3>. DEFINE q == v \div p
                r == v % p
    <3>. HIDE DEF q, r
    <3>4. q \in Nat /\ r \in 0 .. p - 1 /\ v = p * q + r
      BY <3>3 DEF q, r
    <3>5. q < ByteBase
      <4> SUFFICES ASSUME q >= ByteBase PROVE FALSE
        BY <2>2, <3>4
      <4>1. p * q >= ByteBase * p
        BY <2>2, <3>1, <3>4
      <4> QED
        BY <1>2, <2>2, <3>1, <3>4, <4>1
    <3>6. q > 0
      <4> SUFFICES ASSUME q = 0 PROVE FALSE
        BY <3>4
      <4>1. p * q = 0
        BY <3>1
      <4> QED
        BY <1>2, <3>1, <3>4, <4>1
    <3>7. q % ByteBase = q
      BY <2>2, <3>4, <3>5
    <3> QED
      BY <2>2, <3>2, <3>4, <3>5, <3>6, <3>7 DEF q
  <2>5. CASE last < SignBit
    <3>1. ~ (last >= SignBit)
      BY <2>2, <2>4, <2>5
    <3>2. e = d
      BY <1>4, <2>3, <3>1
    <3>3. last % SignBit = last /\ last # 0
      BY <2>2, <2>4, <2>5
    <3>4. ScriptNumValue(d) = v
      BY <1>3, <2>3, <2>5 DEF ScriptNumValue
    <3>5. Minimal(d)
      BY <2>3, <3>3 DEF Minimal
    <3>6. d \in Bytes /\ Len(d) \in 0 .. 9
      BY <1>3
    <3>7. e \in Bytes /\ Len(e) \in 0 .. 9 /\ ScriptNumValue(e) = v /\ Minimal(e)
      BY <3>2, <3>4, <3>5, <3>6
    <3> QED
      BY <3>7 DEF e
  <2>6. CASE last >= SignBit
    <3>. DEFINE f == LittleEndian(v, n + 1)
    <3>1. e = Append(d, 0)
      BY <1>4, <2>3, <2>6
    <3>2. 0 \in Byte
      BY ByteBaseAssumption DEF Byte
    <3>3. /\ e \in Seq(Byte) /\ Len(e) = n + 1 /\ e # <<>>
          /\ (\A i \in 1 .. n : e[i] = d[i]) /\ e[n + 1] = 0
      <4>1. d \in Seq(Byte)
        BY <1>3 DEF Bytes
      <4>2. /\ Append(d, 0) \in Seq(Byte) /\ Append(d, 0) # <<>> /\ Len(Append(d, 0)) = Len(d) + 1
            /\ (\A i \in 1 .. Len(d) : Append(d, 0)[i] = d[i]) /\ Append(d, 0)[Len(d) + 1] = 0
        BY <3>2, <4>1, AppendProperties
      <4> QED
        BY <1>3, <3>1, <4>2
    <3>4. /\ f \in Seq(Byte) /\ Len(f) = n + 1
          /\ \A i \in 1 .. n + 1 : f[i] = (v \div Power[i - 1]) % ByteBase
      <4>1. v \in Int /\ n + 1 \in Nat
        BY <1>2, <2>1
      <4> QED
        BY <4>1, LittleEndianIs
    <3>. HIDE DEF f
    <3>5. ASSUME NEW i \in 1 .. n + 1 PROVE e[i] = f[i]
      <4>1. CASE i \in 1 .. n
        BY <1>3, <3>3, <3>4, <4>1
      <4>2. CASE i = n + 1
        <5>1. (n + 1) - 1 = n /\ n + 1 \in 1 .. n + 1
          BY <2>1
        <5>2. f[n + 1] = (v \div Power[n]) % ByteBase
          BY <3>4, <5>1
        <5>3. v \div Power[n] = 0
          BY <1>1, <1>2, <2>1, PowerIs
        <5>4. 0 % ByteBase = 0
          BY <2>2, ByteBaseAssumption
        <5> QED
          BY <3>3, <4>2, <5>2, <5>3, <5>4
      <4>3. i \in 1 .. n \/ i = n + 1
        BY <2>1
      <4> QED
        BY <4>1, <4>2, <4>3
    <3>6. e = f
      BY <3>3, <3>4, <3>5, SeqEqual
    <3>7. Number(f) = v
      <4>1. n + 1 \in Nat /\ v \in 0 .. Power[n + 1] - 1
        <5>. DEFINE p == Power[n]
        <5>1. p \in Nat \ {0} /\ Power[n + 1] = ByteBase * p /\ v < p
          BY <1>1, <2>1, PowerIs
        <5>. HIDE DEF p
        <5>2. p <= ByteBase * p /\ ByteBase * p \in Nat
          BY <2>2, <5>1
        <5> QED
          BY <1>2, <2>1, <5>1, <5>2
      <4>2. Number(LittleEndian(v, n + 1)) = v
        BY <4>1, LittleEndianReadsBack
      <4> QED
        BY <4>2 DEF f
    <3>8. Last(e) = 0
      BY <3>3 DEF Last
    <3>9. ScriptNumValue(e) = v
      BY <2>2, <3>3, <3>6, <3>7, <3>8 DEF ScriptNumValue
    <3>10. Minimal(e)
      <4>1. Len(e) > 1 /\ Len(e) - 1 = n
        BY <2>1, <3>3
      <4>2. e[n] >= SignBit
        BY <2>1, <2>6, <3>3
      <4> QED
        BY <4>1, <4>2 DEF Minimal
    <3>11. e \in Bytes /\ Len(e) \in 0 .. 9
      BY <2>1, <3>3 DEF Bytes
    <3> QED
      BY <3>9, <3>10, <3>11 DEF e
  <2> QED
    BY <2>2, <2>4, <2>5, <2>6
<1> QED
  BY <1>5, <1>6
-----------------------------------------------------------------------------
(* The coinbase                                                            *)

LEMMA TypeFacts ==
  ASSUME TypeOK
  PROVE  /\ height \in 0 .. Power[8] - 1 /\ segwit \in BOOLEAN /\ fees \in Nat
         /\ flags \in Bytes /\ Len(flags) < Power[4]
         /\ txs \in Seq(TxType) /\ Len(txs) + 1 < Power[8] /\ \A n \in DOMAIN txs : Fits(txs[n])
<1>1. height \in 0 .. Power[8] - 1
  <2>1. MaxHeight \in 0 .. Power[8] - 1 /\ Power[8] \in Nat
    BY BoundsAssumption, Widths
  <2> QED
    BY <2>1 DEF TypeOK
<1>2. flags \in Bytes /\ Len(flags) < Power[4]
  <2>1. PICK n \in FlagSizes : flags = Zeros(n)
    BY DEF TypeOK
  <2>2. n \in Nat /\ n < Power[4]
    BY BoundsAssumption, Widths
  <2> QED
    BY <2>1, <2>2, ZerosAre
<1> QED
  BY <1>1, <1>2, BoundsAssumption, ProposedAssumption DEF TypeOK

\* The script of the coinbase, push by push.
HeightBytes == ScriptNum(height)
FlagPush == IF flags # <<>> THEN Push(flags) ELSE <<>>

LEMMA PushedBytes ==
  ASSUME NEW data \in Bytes, Len(data) < Power[4]
  PROVE  /\ Push(data) \in Bytes /\ Len(Push(data)) <= Len(data) + 5
         /\ Len(Push(data)) \in Nat
<1>1. PICK header : Pushes(header, data)
  BY PushIs
<1>2. /\ header \in Bytes /\ Len(header) \in 1 .. 5 /\ Push(data) = header \o data
  BY <1>1 DEF Pushes
<1>3. Push(data) \in Bytes /\ Len(Push(data)) = Len(header) + Len(data)
  BY <1>2, Joined
<1>. DEFINE d == Len(data)
            h == Len(header)
            p == Len(Push(data))
<1>4. d \in Nat /\ h \in 1 .. 5 /\ p = h + d
  BY <1>2, <1>3, BytesLen
<1>5. p <= d + 5 /\ p \in Nat
  <2>. HIDE DEF d, h, p
  <2> QED
    BY <1>4
<1> QED
  BY <1>3, <1>5

LEMMA InputScriptIs ==
  ASSUME TypeOK
  PROVE  /\ InputScript = Push(HeightBytes) \o FlagPush \o Push(ExtraNonce)
         /\ HeightBytes \in Bytes /\ Len(HeightBytes) < Power[4]
         /\ ExtraNonce \in Bytes /\ Len(ExtraNonce) < Power[4]
         /\ FlagPush \in Bytes
         /\ InputScript \in Bytes /\ Len(InputScript) < Power[8]
<1>1. /\ Power[4] \in Nat /\ Power[8] \in Nat /\ 256 <= Power[4] /\ 256 * Power[4] <= Power[8]
  BY Widths
<1>2. HeightBytes \in Bytes /\ Len(HeightBytes) \in 0 .. 9
  BY TypeFacts, ScriptNumIs DEF HeightBytes
<1>3. ExtraNonce \in Bytes /\ Len(ExtraNonce) = 8
  BY ZerosAre DEF ExtraNonce
<1>. DEFINE size == Len(HeightBytes)
<1>. HIDE DEF size
<1>in. size \in 0 .. 9
  BY <1>2 DEF size
<1>4. size < Power[4] /\ Len(ExtraNonce) < Power[4]
  BY <1>1, <1>in, <1>3
<1>. DEFINE h == Push(HeightBytes)
            x == Push(ExtraNonce)
<1>5. h \in Bytes /\ Len(h) \in Nat /\ Len(h) <= 14
  <2>1. h \in Bytes /\ Len(h) \in Nat /\ Len(h) <= size + 5
    BY <1>2, <1>4, PushedBytes DEF size
  <2>. HIDE DEF h
  <2> QED
    BY <1>in, <2>1
<1>6. x \in Bytes /\ Len(x) \in Nat /\ Len(x) <= 13
  <2>1. x \in Bytes /\ Len(x) \in Nat /\ Len(x) <= Len(ExtraNonce) + 5
    BY <1>3, <1>4, PushedBytes
  <2>. HIDE DEF x
  <2> QED
    BY <1>3, <2>1
<1>7. FlagPush \in Bytes /\ Len(FlagPush) \in Nat /\ Len(FlagPush) <= Power[4] + 5
  <2>1. CASE flags # <<>>
    <3>1. /\ Push(flags) \in Bytes /\ Len(Push(flags)) \in Nat
          /\ Len(Push(flags)) <= Len(flags) + 5
      BY TypeFacts, PushedBytes
    <3>2. Len(flags) \in Nat /\ Len(flags) < Power[4]
      BY TypeFacts, BytesLen
    <3>. DEFINE p == Push(flags)
    <3>. HIDE DEF p
    <3>3. p \in Bytes /\ Len(p) \in Nat /\ Len(p) <= Power[4] + 5
      BY <1>1, <3>1, <3>2 DEF p
    <3> QED
      BY <2>1, <3>3 DEF FlagPush, p
  <2>2. CASE flags = <<>>
    <3>1. FlagPush = <<>>
      BY <2>2 DEF FlagPush
    <3> QED
      BY <1>1, <3>1, Nothing
  <2> QED
    BY <2>1, <2>2
<1>8. InputScript = h \o FlagPush \o x
  BY DEF InputScript, FlagPush, HeightBytes
<1>. HIDE DEF h, x
<1>9. /\ h \o FlagPush \in Bytes /\ Len(h \o FlagPush) = Len(h) + Len(FlagPush)
  BY <1>5, <1>7, Joined
<1>10. InputScript \in Bytes /\ Len(InputScript) = Len(h \o FlagPush) + Len(x)
  BY <1>6, <1>8, <1>9, Joined
<1>11. Len(InputScript) < Power[8]
  BY <1>1, <1>5, <1>6, <1>7, <1>9, <1>10
<1> QED
  BY <1>2, <1>3, <1>4, <1>7, <1>8, <1>10, <1>11 DEF h, x, size

\* What a coinbase adds to the supply.
LEMMA CoinbaseAdds ==
  ASSUME TypeOK
  PROVE  /\ Coinbase.outs[1].value = Subsidy(height) + fees
         /\ Subsidy(height) \in Nat /\ fees \in Nat
<1>. DEFINE out == [value |-> Subsidy(height) + fees, script |-> Payout]
            more == IF segwit THEN <<[value |-> 0, script |-> CommitmentScript]>> ELSE <<>>
<1>1. Coinbase.outs = <<out>> \o more
  BY DEF Coinbase
<1>2. (<<out>> \o more)[1] = out
  OBVIOUS
<1>3. Coinbase.outs[1].value = Subsidy(height) + fees
  BY <1>1, <1>2
<1>4. fees \in Nat /\ Subsidy(height) \in Nat
  BY SubsidyStep, BoundsAssumption DEF TypeOK
<1> QED
  BY <1>3, <1>4

\* The coinbase is a transaction with parts of lengths that are encoded.
LEMMA CoinbaseIs ==
  ASSUME TypeOK
  PROVE  Coinbase \in TxType /\ Fits(Coinbase)
<1>. DEFINE InType == [prev : Seq(Byte), index : Nat, script : Seq(Byte),
                       sequence : Nat, witness : Seq(Seq(Byte))]
            OutType == [value : Nat, script : Seq(Byte)]
            wit == IF segwit THEN <<Hash>> ELSE <<>>
            in == [prev |-> Hash, index |-> AllOnes, script |-> InputScript,
                   sequence |-> AllOnes, witness |-> wit]
            out == [value |-> Subsidy(height) + fees, script |-> Payout]
            com == [value |-> 0, script |-> CommitmentScript]
            outs == <<out>> \o (IF segwit THEN <<com>> ELSE <<>>)
<1>1. Coinbase = [version |-> 1, lock |-> 0, ins |-> <<in>>, outs |-> outs]
  BY DEF Coinbase
<1>2. /\ Power[4] \in Nat /\ Power[8] \in Nat /\ 256 <= Power[4] /\ 256 * Power[4] <= Power[8]
  BY Widths
<1>3. Hash \in Bytes /\ Len(Hash) = HashLen /\ HashLen \in Nat /\ HashLen + 6 < Power[8]
  BY SizesAssumption, PayoutAssumption, ZerosAre DEF Hash
<1>4. AllOnes \in Nat
  BY <1>2 DEF AllOnes
<1>5. InputScript \in Bytes /\ Len(InputScript) < Power[8]
  BY InputScriptIs
<1>6. Subsidy(height) + fees \in Nat
  BY CoinbaseAdds
<1>7. CommitmentScript \in Bytes /\ Len(CommitmentScript) < Power[8]
  <2>1. Zeros(6) \in Bytes /\ Len(Zeros(6)) = 6
    BY ZerosAre
  <2>. DEFINE z == Zeros(6)
  <2>. HIDE DEF z
  <2>2. z \o Hash \in Bytes /\ Len(z \o Hash) = 6 + HashLen
    <3>1. z \in Bytes /\ Len(z) = 6
      BY <2>1 DEF z
    <3>2. z \o Hash \in Bytes /\ Len(z \o Hash) = Len(z) + Len(Hash)
      BY <1>3, <3>1, Joined
    <3> QED
      BY <1>3, <3>1, <3>2
  <2>3. 6 + HashLen < Power[8]
    BY <1>3
  <2> QED
    BY <2>2, <2>3 DEF CommitmentScript, z
<1>8. /\ wit \in Seq(Seq(Byte)) /\ Len(wit) <= 1 /\ Len(wit) \in Nat
      /\ \A j \in DOMAIN wit : Len(wit[j]) < Power[8]
  <2>1. Hash \in Seq(Byte) /\ Len(Hash) < Power[8]
    BY <1>2, <1>3 DEF Bytes
  <2>2. segwit \in BOOLEAN
    BY TypeFacts
  <2>3. CASE segwit
    <3>1. wit = <<Hash>>
      BY <2>3
    <3>. HIDE DEF wit
    <3> QED
      BY <2>1, <3>1
  <2>4. CASE ~ segwit
    <3>1. wit = <<>>
      BY <2>4
    <3>. HIDE DEF wit
    <3> QED
      BY <3>1
  <2> QED
    BY <2>3, <2>4
<1>. HIDE DEF wit
<1>9. in \in InType
  BY <1>3, <1>4, <1>5, <1>8 DEF Bytes
<1>10. out \in OutType /\ com \in OutType
  BY <1>6, <1>7, PayoutAssumption DEF Bytes
<1>11. /\ outs \in Seq(OutType) /\ Len(outs) <= 2
       /\ \A i \in DOMAIN outs : outs[i] \in {out, com}
  <2>. HIDE DEF out, com, OutType
  <2>1. CASE segwit
    <3>1. outs = <<out>> \o <<com>>
      BY <2>1
    <3>2. /\ <<out>> \in Seq(OutType) /\ Len(<<out>>) = 1 /\ <<out>>[1] = out
          /\ <<com>> \in Seq(OutType) /\ Len(<<com>>) = 1 /\ <<com>>[1] = com
      BY <1>10
    <3>. HIDE DEF outs
    <3>3. /\ outs \in Seq(OutType) /\ Len(outs) = 1 + 1
          /\ \A i \in 1 .. 1 + 1 : outs[i] = IF i <= 1 THEN <<out>>[i] ELSE <<com>>[i - 1]
      BY <3>1, <3>2, ConcatProperties
    <3>4. DOMAIN outs = {1, 2} /\ Len(outs) = 2
      BY <3>3
    <3>5. outs[1] = out /\ outs[2] = com
      BY <3>2, <3>3
    <3> QED
      BY <3>3, <3>4, <3>5
  <2>2. CASE ~ segwit
    <3>1. outs = <<out>>
      <4>1. <<out>> \in Seq(OutType)
        BY <1>10
      <4>2. <<out>> \o <<>> = <<out>>
        BY <4>1, ConcatEmptySeq
      <4> QED
        BY <2>2, <4>2
    <3>. HIDE DEF outs
    <3> QED
      BY <1>10, <3>1
  <2> QED
    BY <2>1, <2>2
<1>. HIDE DEF outs
<1>12. Coinbase \in TxType
  <2>1. <<in>> \in Seq(InType)
    BY <1>9
  <2>. HIDE DEF in
  <2> QED
    BY <1>1, <1>11, <2>1 DEF TxType
<1>13. Fits(Coinbase)
  <2>1. Coinbase.ins = <<in>> /\ Coinbase.outs = outs
    BY <1>1
  <2>2. /\ <<in>> # <<>> /\ Len(<<in>>) = 1 /\ <<in>>[1] = in /\ DOMAIN <<in>> = {1}
    OBVIOUS
  <2>3. /\ in.prev = Hash /\ in.script = InputScript /\ in.witness = wit
    OBVIOUS
  <2>4. \A i \in DOMAIN outs : Len(outs[i].script) < Power[8]
    <3>1. Len(out.script) < Power[8] /\ Len(com.script) < Power[8]
      BY <1>7, PayoutAssumption
    <3>. HIDE DEF out, com
    <3> QED
      BY <1>11, <3>1
  <2>. HIDE DEF in
  <2>5. \A i \in DOMAIN Coinbase.ins : Coinbase.ins[i] = in
    BY <2>1, <2>2
  <2>6. Len(wit) < Power[8] /\ 1 < Power[8] /\ Len(outs) < Power[8]
    <3>1. Len(outs) \in Nat
      BY <1>11
    <3> QED
      BY <1>2, <1>8, <1>11, <3>1
  <2> QED
    BY <1>3, <1>5, <1>8, <2>1, <2>2, <2>3, <2>4, <2>5, <2>6 DEF Fits
<1> QED
  BY <1>12, <1>13

-----------------------------------------------------------------------------
(* Reading a block and a script                                            *)

LEMMA BlockTxsAre ==
  ASSUME TypeOK
  PROVE  /\ BlockTxs \in Seq(TxType) /\ Len(BlockTxs) \in 0 .. Power[8] - 1
         /\ \A n \in DOMAIN BlockTxs : Fits(BlockTxs[n])
<1>1. Coinbase \in TxType /\ Fits(Coinbase)
  BY CoinbaseIs
<1>2. /\ txs \in Seq(TxType) /\ Len(txs) + 1 < Power[8] /\ \A n \in DOMAIN txs : Fits(txs[n])
  BY TypeFacts
<1>. DEFINE c == <<Coinbase>>
<1>3. c \in Seq(TxType) /\ Len(c) = 1 /\ c[1] = Coinbase
  BY <1>1
<1>. HIDE DEF c
<1>4. /\ c \o txs \in Seq(TxType) /\ Len(c \o txs) = Len(c) + Len(txs)
      /\ \A i \in 1 .. Len(c) + Len(txs) :
           (c \o txs)[i] = IF i <= Len(c) THEN c[i] ELSE txs[i - Len(c)]
  BY <1>2, <1>3, ConcatProperties
<1>. DEFINE all == c \o txs
            m == Len(txs)
<1>5. m \in Nat /\ DOMAIN txs = 1 .. m
  BY <1>2
<1>6. all \in Seq(TxType) /\ Len(all) = 1 + m /\ DOMAIN all = 1 .. 1 + m
  BY <1>3, <1>4
<1>7. \A i \in 1 .. 1 + m : all[i] = IF i <= 1 THEN c[i] ELSE txs[i - 1]
  BY <1>3, <1>4
<1>. HIDE DEF all, m
<1>8. ASSUME NEW i \in DOMAIN all PROVE Fits(all[i])
  <2>1. i \in 1 .. 1 + m
    BY <1>6
  <2>2. CASE i = 1
    BY <1>1, <1>3, <1>7, <2>1, <2>2
  <2>3. CASE i # 1
    <3>1. i - 1 \in 1 .. m /\ ~ (i <= 1)
      BY <1>5, <2>1, <2>3
    <3> QED
      BY <1>2, <1>5, <1>7, <2>1, <3>1
  <2> QED
    BY <2>2, <2>3
<1>9. Len(all) \in 0 .. Power[8] - 1
  BY <1>2, <1>5, <1>6, Widths DEF m
<1>10. BlockTxs = all
  BY DEF BlockTxs, all, c
<1> QED
  BY <1>6, <1>8, <1>9, <1>10

\* The end of a transaction at offset q is found.
LEMMA AfterTxIs ==
  ASSUME NEW t \in TxType, Fits(t), NEW b \in Memory, NEW q \in Nat, At(b, q, Serialize(t, TRUE))
  PROVE  AfterTx(b, q) = q + Len(Serialize(t, TRUE))
<1>. DEFINE start == FirstIn(t, q)
            mid == FirstOut(t, q)
            outs == FirstWit(t, q)
            wits == BeforeLock(t, q)
<1>1. /\ q + Len(Serialize(t, TRUE)) = wits + 4
      /\ HasWitness(t) => start = q + 6
      /\ ~ HasWitness(t) => start = q + 4 /\ wits = outs
      /\ b[q + 5] = 0 /\ b[q + 6] # 0 <=> HasWitness(t)
      /\ AfterEntries(b, start, HashLen + 4, 4) = mid
      /\ VarintValue(b, start) = Len(t.ins)
      /\ AfterEntries(b, mid, 8, 0) = outs
      /\ HasWitness(t) => AfterWitnesses(b, outs, Len(t.ins)) = wits
      /\ wits \in Nat
  BY TxAt
<1>. HIDE DEF start, mid, outs, wits
<1>2. start = IF b[q + 5] = 0 /\ b[q + 6] # 0 THEN q + 6 ELSE q + 4
  BY <1>1
<1>3. start = q + 4 <=> ~ HasWitness(t)
  <2>1. q + 6 # q + 4
    OBVIOUS
  <2> QED
    BY <1>1, <2>1
<1>4. (IF start = q + 4 THEN outs ELSE AfterWitnesses(b, outs, VarintValue(b, start))) = wits
  BY <1>1, <1>3
<1>5. AfterTx(b, q) = 4 + IF start = q + 4 THEN outs
                          ELSE AfterWitnesses(b, outs, VarintValue(b, start))
  BY <1>1, <1>2 DEF AfterTx
<1>6. 4 + wits = wits + 4
  BY <1>1
<1> QED
  BY <1>1, <1>4, <1>5, <1>6

\* What is read from a block are its transactions.
LEMMA BlockReads ==
  ASSUME TypeOK
  PROVE  BlockReadsBack
<1> SUFFICES ASSUME Addressable(Block)
             PROVE  TxsRead(Block) = Append([i \in DOMAIN BlockTxs |-> Serialize(BlockTxs[i], TRUE)], <<>>)
  BY DEF BlockReadsBack
<1>. DEFINE n == Len(BlockTxs)
            seqs == [i \in DOMAIN BlockTxs |-> Serialize(BlockTxs[i], TRUE)]
            Z == Zeros(HeaderSize)
            V == Varint(n)
            A == FlattenSeq(seqs)
            b == Block
            from == HeaderSize + Len(V)
<1>1. /\ BlockTxs \in Seq(TxType) /\ n \in 0 .. Power[8] - 1 /\ n \in Nat /\ DOMAIN BlockTxs = 1 .. n
      /\ \A i \in 1 .. n : BlockTxs[i] \in TxType /\ Fits(BlockTxs[i])
  BY BlockTxsAre
<1>2. /\ seqs \in Seq(Bytes) /\ Len(seqs) = n
      /\ \A i \in 1 .. n : seqs[i] = Serialize(BlockTxs[i], TRUE) /\ seqs[i] \in Bytes
  <2>1. \A i \in 1 .. n : Serialize(BlockTxs[i], TRUE) \in Bytes
    BY <1>1, SerializedIs
  <2>2. \A i \in 1 .. n : seqs[i] = Serialize(BlockTxs[i], TRUE)
    BY <1>1
  <2>3. seqs \in [1 .. n -> Bytes]
    BY <1>1, <2>1
  <2>. HIDE DEF seqs, n
  <2>4. seqs \in Seq(Bytes) /\ Len(seqs) = n
    BY <1>1, <2>3
  <2> QED
    BY <2>1, <2>2, <2>4
<1>3. HeaderSize \in Nat
  BY SizesAssumption DEF HeaderSize
<1>4. Z \in Bytes /\ Len(Z) = HeaderSize
  BY <1>3, ZerosAre
<1>5. V \in Bytes /\ Len(V) \in Nat
  BY <1>1, VarintIs, BytesLen
<1>6. \A x \in Bytes, y \in Nat :
        At(x, y, V) => VarintSize(x, y) = Len(V) /\ VarintValue(x, y) = n
  BY <1>1, VarintIs
<1>7. A \in Bytes /\ Len(A) \in Nat
  BY <1>2, FlattenedAt, BytesLen
<1>8. b = Z \o V \o A
  BY DEF Block, TxCount
<1>. HIDE DEF n, seqs, Z, V, b
<1>9. Z \o V \in Bytes /\ Len(Z \o V) = from
  BY <1>4, <1>5, Joined
<1>24. Addressable(b)
  BY DEF b
<1>10. b \in Bytes /\ b \in Memory /\ Len(b) = from + Len(A) /\ from \in Nat
  <2>1. b \in Bytes /\ Len(b) = Len(Z \o V) + Len(A)
    BY <1>7, <1>8, <1>9, Joined
  <2> QED
    BY <1>3, <1>5, <1>9, <1>24, <2>1 DEF Memory
<1>. HIDE DEF A, from
<1>11. At(b, HeaderSize, V) /\ At(b, from, A)
  <2>1. At(b, 0, (Z \o V) \o A)
    BY <1>8, <1>10, WholeAt
  <2>2. At(b, 0, Z \o V) /\ At(b, 0 + Len(Z \o V), A)
    BY <1>7, <1>9, <1>10, <2>1, JoinedAt
  <2>3. At(b, 0, Z) /\ At(b, 0 + Len(Z), V)
    BY <1>4, <1>5, <1>10, <2>2, JoinedAt
  <2>4. 0 + Len(Z \o V) = from /\ 0 + Len(Z) = HeaderSize
    BY <1>3, <1>4, <1>9, <1>10
  <2> QED
    BY <2>2, <2>3, <2>4
<1>12. VarintSize(b, HeaderSize) = Len(V) /\ VarintValue(b, HeaderSize) = n
  BY <1>3, <1>6, <1>10, <1>11
<1>13. PICK e \in [0 .. n -> Nat] :
         /\ e[0] = from /\ e[n] = from + Len(A)
         /\ \A k \in 0 .. n - 1 : At(b, e[k], seqs[k + 1]) /\ e[k + 1] = e[k] + Len(seqs[k + 1])
  BY <1>2, <1>10, <1>11, FlattenedAt DEF A
<1>14. ASSUME NEW k \in 0 .. n - 1
       PROVE  e[k + 1] = AfterTx(b, e[k]) /\ SubSeq(b, e[k] + 1, e[k + 1]) = seqs[k + 1]
  <2>1. k + 1 \in 1 .. n /\ e[k] \in Nat
    BY <1>1, <1>13
  <2>. DEFINE s == seqs[k + 1]
              t == BlockTxs[k + 1]
  <2>2. s = Serialize(t, TRUE) /\ s \in Bytes /\ t \in TxType /\ Fits(t)
    <3>1. t \in TxType /\ Fits(t)
      BY <1>1, <2>1
    <3>2. s = Serialize(t, TRUE) /\ s \in Bytes
      BY <1>2, <2>1
    <3> QED
      BY <3>1, <3>2
  <2>3. At(b, e[k], s) /\ e[k + 1] = e[k] + Len(s)
    BY <1>13
  <2>. HIDE DEF s, t
  <2>4. AfterTx(b, e[k]) = e[k] + Len(s)
    BY <1>10, <2>1, <2>2, <2>3, AfterTxIs
  <2>5. SubSeq(b, e[k] + 1, e[k] + Len(s)) = s
    BY <1>10, <2>1, <2>2, <2>3, CutAt
  <2> QED
    BY <2>3, <2>4, <2>5 DEF s
<1>. DEFINE Is(p) == p = [k \in 0 .. n |-> IF k = 0 THEN HeaderSize + VarintSize(b, HeaderSize)
                                           ELSE AfterTx(b, p[k - 1])]
            end == CHOOSE p : Is(p)
<1>15. TxsRead(b) = Append([i \in 1 .. n |-> SubSeq(b, end[i - 1] + 1, end[i])],
                           SubSeq(b, end[n] + 1, Len(b)))
  BY <1>12 DEF TxsRead
<1>16. Is(e)
  <2>1. ASSUME NEW k \in 0 .. n, k # 0
        PROVE  e[k] = AfterTx(b, e[k - 1])
    <3>1. k - 1 \in 0 .. n - 1 /\ (k - 1) + 1 = k
      BY <1>1, <2>1
    <3> QED
      BY <1>14, <3>1
  <2>2. e = [k \in 0 .. n |-> e[k]]
    BY <1>13
  <2>3. e[0] = HeaderSize + VarintSize(b, HeaderSize)
    BY <1>12, <1>13 DEF from
  <2> QED
    BY <2>1, <2>2, <2>3
<1>17. Is(end)
  BY <1>16
<1>. HIDE DEF end
<1>. DEFINE N == {k \in Nat : k <= n => end[k] = e[k]}
<1>18. Nat \subseteq N
  <2>1. 0 \in N
    BY <1>1, <1>16, <1>17
  <2>2. ASSUME NEW k \in Nat, k \in N PROVE k + 1 \in N
    <3> SUFFICES ASSUME k + 1 <= n PROVE end[k + 1] = e[k + 1]
      OBVIOUS
    <3>1. /\ k + 1 \in 0 .. n /\ k \in 0 .. n - 1 /\ (k + 1) - 1 = k /\ k + 1 # 0 /\ k <= n
      BY <1>1
    <3>2. end[k + 1] = AfterTx(b, end[k])
      BY <1>17, <3>1
    <3>3. end[k] = e[k]
      BY <2>2, <3>1
    <3> QED
      BY <1>14, <3>1, <3>2, <3>3
  <2>. HIDE DEF N
  <2> QED
    BY <2>1, <2>2, NatInductionSet
<1>19. \A k \in 0 .. n : end[k] = e[k]
  BY <1>1, <1>18
<1>20. ASSUME NEW i \in 1 .. n PROVE SubSeq(b, end[i - 1] + 1, end[i]) = Serialize(BlockTxs[i], TRUE)
  <2>1. i - 1 \in 0 .. n - 1 /\ (i - 1) + 1 = i /\ i - 1 \in 0 .. n /\ i \in 0 .. n
    BY <1>1
  <2>2. SubSeq(b, e[i - 1] + 1, e[i]) = seqs[i]
    BY <1>14, <2>1
  <2> QED
    BY <1>2, <1>19, <2>1, <2>2
<1>21. SubSeq(b, end[n] + 1, Len(b)) = <<>>
  <2>1. n \in 0 .. n
    BY <1>1
  <2>2. end[n] = Len(b) /\ Len(b) \in Nat
    BY <1>7, <1>10, <1>13, <1>19, <2>1
  <2>. DEFINE l == Len(b)
  <2>. HIDE DEF l
  <2>3. l + 1 \in Int /\ l \in Int /\ l < l + 1
    BY <2>2 DEF l
  <2>4. SubSeq(b, l + 1, l) = <<>>
    BY <2>3, SubSeqEmpty
  <2> QED
    BY <2>2, <2>4 DEF l
<1>22. [i \in 1 .. n |-> SubSeq(b, end[i - 1] + 1, end[i])]
         = [i \in DOMAIN BlockTxs |-> Serialize(BlockTxs[i], TRUE)]
  BY <1>1, <1>20
<1>23. TxsRead(b) = Append([i \in DOMAIN BlockTxs |-> Serialize(BlockTxs[i], TRUE)], <<>>)
  BY <1>15, <1>21, <1>22
<1> QED
  BY <1>23 DEF b

\* The pushes of datas are in a script one behind the other, and nothing else is:
\* each is at e[k], and the next follows it.
InRow(s, n, datas, e) ==
  /\ s \in Bytes /\ n \in Nat /\ datas \in Seq(Bytes) /\ Len(datas) = n
  /\ \A i \in 1 .. n : Len(datas[i]) < Power[4]
  /\ e \in [0 .. n -> Nat] /\ e[0] = 0 /\ e[n] = Len(s)
  /\ \A k \in 0 .. n - 1 : /\ At(s, e[k], Push(datas[k + 1]))
                           /\ e[k + 1] = e[k] + Len(Push(datas[k + 1]))

\* Pushes that are in a script one behind the other are read back, and what is
\* left is nothing.
LEMMA PushesRead ==
  ASSUME NEW s, NEW n, NEW datas, NEW e, InRow(s, n, datas, e)
  PROVE  Pushed(s, n) = Append(datas, <<>>)
<1>. /\ s \in Bytes /\ n \in Nat /\ datas \in Seq(Bytes) /\ Len(datas) = n
     /\ \A i \in 1 .. n : Len(datas[i]) < Power[4]
     /\ e \in [0 .. n -> Nat] /\ e[0] = 0 /\ e[n] = Len(s)
     /\ \A k \in 0 .. n - 1 : /\ At(s, e[k], Push(datas[k + 1]))
                              /\ e[k + 1] = e[k] + Len(Push(datas[k + 1]))
  BY DEF InRow
<1>1. ASSUME NEW k \in 0 .. n - 1
      PROVE  /\ PushAt(s, e[k]).from + PushAt(s, e[k]).size = e[k + 1]
             /\ SubSeq(s, PushAt(s, e[k]).from + 1, e[k + 1]) = datas[k + 1]
  <2>. DEFINE d == datas[k + 1]
              q == e[k]
  <2>1. k + 1 \in 1 .. n /\ k \in 0 .. n
    OBVIOUS
  <2>2. d \in Bytes /\ Len(d) < Power[4] /\ q \in Nat /\ Len(d) \in Nat
    BY <2>1, BytesLen
  <2>3. At(s, q, Push(d)) /\ e[k + 1] = q + Len(Push(d))
    OBVIOUS
  <2>. HIDE DEF d, q
  <2>4. PICK h : Pushes(h, d)
    BY <2>2, PushIs
  <2>5. h \in Bytes /\ Push(d) = h \o d /\ Reads(h, Len(d)) /\ Len(h) \in Nat
    BY <2>4 DEF Pushes
  <2>6. At(s, q, h) /\ At(s, q + Len(h), d)
    <3>1. At(s, q, h \o d)
      BY <2>3, <2>5
    <3> QED
      BY <2>2, <2>5, <3>1, JoinedAt
  <2>7. PushAt(s, q) = [from |-> q + Len(h), size |-> Len(d)]
    BY <2>2, <2>5, <2>6 DEF Reads
  <2>8. Len(Push(d)) = Len(h) + Len(d)
    BY <2>2, <2>5, Joined
  <2>9. PushAt(s, q).from = q + Len(h) /\ PushAt(s, q).size = Len(d)
    BY <2>7
  <2>10. (q + Len(h)) + Len(d) = e[k + 1]
    <3>. DEFINE x == Len(h)
                y == Len(d)
    <3>1. x \in Nat /\ y \in Nat /\ e[k + 1] = q + (x + y)
      BY <2>2, <2>3, <2>5, <2>8
    <3>. HIDE DEF x, y
    <3>2. (q + x) + y = q + (x + y)
      BY <2>2, <3>1
    <3> QED
      BY <3>1, <3>2 DEF x, y
  <2>11. q + Len(h) \in Nat
    BY <2>2, <2>5
  <2>12. SubSeq(s, (q + Len(h)) + 1, (q + Len(h)) + Len(d)) = d
    BY <2>2, <2>6, <2>11, CutAt
  <2> QED
    BY <2>9, <2>10, <2>12 DEF d, q
<1>. DEFINE Is(p) == p = [k \in 0 .. n |-> IF k = 0 THEN 0
                                           ELSE PushAt(s, p[k - 1]).from + PushAt(s, p[k - 1]).size]
            end == CHOOSE p : Is(p)
<1>2. Pushed(s, n) = Append([i \in 1 .. n |-> SubSeq(s, PushAt(s, end[i - 1]).from + 1, end[i])],
                            SubSeq(s, end[n] + 1, Len(s)))
  BY DEF Pushed
<1>3. Is(e)
  <2>1. ASSUME NEW k \in 0 .. n, k # 0
        PROVE  e[k] = PushAt(s, e[k - 1]).from + PushAt(s, e[k - 1]).size
    <3>1. k - 1 \in 0 .. n - 1 /\ (k - 1) + 1 = k
      BY <2>1
    <3> QED
      BY <1>1, <3>1
  <2>2. e = [k \in 0 .. n |-> e[k]]
    OBVIOUS
  <2> QED
    BY <2>1, <2>2
<1>4. Is(end)
  BY <1>3
<1>. HIDE DEF end
<1>. DEFINE N == {k \in Nat : k <= n => end[k] = e[k]}
<1>5. Nat \subseteq N
  <2>1. 0 \in N
    BY <1>3, <1>4
  <2>2. ASSUME NEW k \in Nat, k \in N PROVE k + 1 \in N
    <3> SUFFICES ASSUME k + 1 <= n PROVE end[k + 1] = e[k + 1]
      OBVIOUS
    <3>1. /\ k + 1 \in 0 .. n /\ k \in 0 .. n - 1 /\ (k + 1) - 1 = k /\ k + 1 # 0 /\ k <= n
      OBVIOUS
    <3>2. end[k + 1] = PushAt(s, end[k]).from + PushAt(s, end[k]).size
      BY <1>4, <3>1
    <3>3. end[k] = e[k]
      BY <2>2, <3>1
    <3>4. PushAt(s, e[k]).from + PushAt(s, e[k]).size = e[k + 1]
      BY <1>1, <3>1
    <3> QED
      BY <3>2, <3>3, <3>4
  <2>. HIDE DEF N
  <2> QED
    BY <2>1, <2>2, NatInductionSet
<1>6. \A k \in 0 .. n : end[k] = e[k]
  BY <1>5
<1>7. ASSUME NEW i \in 1 .. n PROVE SubSeq(s, PushAt(s, end[i - 1]).from + 1, end[i]) = datas[i]
  <2>1. i - 1 \in 0 .. n - 1 /\ (i - 1) + 1 = i /\ i - 1 \in 0 .. n /\ i \in 0 .. n
    OBVIOUS
  <2>2. SubSeq(s, PushAt(s, e[i - 1]).from + 1, e[i]) = datas[i]
    BY <1>1, <2>1
  <2> QED
    BY <1>6, <2>1, <2>2
<1>8. [i \in 1 .. n |-> SubSeq(s, PushAt(s, end[i - 1]).from + 1, end[i])] = datas
  <2>1. datas = [i \in 1 .. n |-> datas[i]]
    OBVIOUS
  <2> QED
    BY <1>7, <2>1
<1>9. SubSeq(s, end[n] + 1, Len(s)) = <<>>
  <2>. DEFINE l == Len(s)
  <2>1. l \in Nat
    BY BytesLen
  <2>2. n \in 0 .. n /\ end[n] = l
    BY <1>6
  <2>. HIDE DEF l
  <2>3. l + 1 \in Int /\ l \in Int /\ l < l + 1
    BY <2>1
  <2>4. SubSeq(s, l + 1, l) = <<>>
    BY <2>3, SubSeqEmpty
  <2> QED
    BY <2>2, <2>4 DEF l
<1> QED
  BY <1>2, <1>8, <1>9

\* A node finds the height in a script that starts with the push of it, unless the
\* height has an opcode of its own: no push begins with one.
LEMMA HeightRead ==
  ASSUME NEW s \in Bytes, NEW h \in 0 .. Power[8] - 1,
         Len(ScriptNum(h)) < Power[4], At(s, 0, Push(ScriptNum(h)))
  PROVE  HeightAccepted(s, h) <=> h \notin 1 .. SmallInts
<1>. DEFINE d == ScriptNum(h)
<1>1. d \in Bytes /\ Len(d) < Power[4] /\ Len(d) \in Nat
  BY ScriptNumIs, BytesLen
<1>2. ScriptNumValue(d) = h /\ Minimal(d) /\ At(s, 0, Push(d))
  BY ScriptNumIs
<1>. HIDE DEF d
<1>3. PICK header : Pushes(header, d)
  BY <1>1, PushIs
<1>4. /\ header \in Bytes /\ Len(header) \in Nat /\ Len(header) = HeaderLen(Len(d))
      /\ Push(d) = header \o d /\ Reads(header, Len(d))
  BY <1>3 DEF Pushes
<1>5. At(s, 0, header) /\ At(s, Len(header), d)
  <2>1. At(s, 0, header \o d)
    BY <1>2, <1>4
  <2>2. At(s, 0, header) /\ At(s, 0 + Len(header), d)
    BY <1>1, <1>4, <2>1, JoinedAt
  <2>3. 0 + Len(header) = Len(header)
    BY <1>4
  <2> QED
    BY <2>2, <2>3
<1>6. PushAt(s, 0) = [from |-> Len(header), size |-> Len(d)]
  <2>1. PushAt(s, 0) = [from |-> 0 + Len(header), size |-> Len(d)]
    BY <1>4, <1>5 DEF Reads
  <2>2. 0 + Len(header) = Len(header)
    BY <1>4
  <2> QED
    BY <2>1, <2>2
<1>7. SubSeq(s, Len(header) + 1, Len(header) + Len(d)) = d
  BY <1>1, <1>4, <1>5, CutAt
<1>8. PushAt(s, 0).from = Len(header) /\ PushAt(s, 0).size = Len(d)
  BY <1>6
<1>9. CASE h \notin 1 .. SmallInts
  BY <1>2, <1>4, <1>7, <1>8, <1>9 DEF HeightAccepted
<1>10. CASE h \in 1 .. SmallInts
  <2>1. h >= 1 /\ h \in Int /\ OpOne \in Int /\ DirectPush \in Int /\ OpOne > DirectPush + 2
    BY <1>10, SmallIntsAssumption, DirectPushAssumption
  <2>2. Len(d) # 0
    <3>1. d # <<>>
      BY <1>2, <2>1 DEF ScriptNumValue
    <3> QED
      BY <1>1, <3>1 DEF Bytes
  <2>3. ASSUME s[1] = OpOne + (h - 1)
        PROVE  FALSE
    <3>1. s[0 + 1] = s[1]
      OBVIOUS
    <3>2. PushAt(s, 0).size = 0
      BY <2>1, <2>3, <3>1 DEF PushAt
    <3> QED
      BY <1>8, <2>2, <3>2
  <2> QED
    BY <1>10, <2>3 DEF HeightAccepted
<1> QED
  BY <1>9, <1>10

\* What a sequence of bytes is when nothing is appended to it.
LEMMA AppendNothing ==
  ASSUME NEW datas \in Seq(Bytes)
  PROVE  /\ Append(datas, <<>>) \in Seq(Bytes) /\ Append(datas, <<>>) # <<>>
         /\ Len(Append(datas, <<>>)) = Len(datas) + 1
         /\ \A i \in 1 .. Len(datas) : Append(datas, <<>>)[i] = datas[i]
         /\ Append(datas, <<>>)[Len(datas) + 1] = <<>>
<1>. DEFINE none == <<>>
            S == Bytes
<1>1. none \in S /\ datas \in Seq(S)
  BY Nothing
<1>. HIDE DEF none, S
<1>2. /\ Append(datas, none) \in Seq(S)
      /\ Len(Append(datas, none)) = Len(datas) + 1
      /\ \A i \in 1 .. Len(datas) : Append(datas, none)[i] = datas[i]
      /\ Append(datas, none)[Len(datas) + 1] = none
  BY <1>1, AppendProperties
<1>3. Append(datas, none) # <<>>
  BY <1>1, <1>2, AppendProperties
<1> QED
  BY <1>2, <1>3 DEF none, S

\* What is read from the script of the coinbase is what was put in it.
LEMMA ScriptReads ==
  ASSUME TypeOK
  PROVE  ScriptReadsBack
<1>. DEFINE s == InputScript
            H == HeightBytes
            F == flags
            X == ExtraNonce
            PH == Push(H)
            PF == Push(F)
            PX == Push(X)
<1>1. /\ s = PH \o FlagPush \o PX /\ s \in Bytes
      /\ H \in Bytes /\ Len(H) < Power[4] /\ X \in Bytes /\ Len(X) < Power[4]
      /\ F \in Bytes /\ Len(F) < Power[4]
  BY InputScriptIs, TypeFacts
<1>2. ScriptNumValue(H) = height
  BY TypeFacts, ScriptNumIs DEF HeightBytes
<1>3. /\ PH \in Bytes /\ Len(PH) \in Nat /\ PF \in Bytes /\ Len(PF) \in Nat
      /\ PX \in Bytes /\ Len(PX) \in Nat
  BY <1>1, PushedBytes
<1>4. FlagPush = IF F # <<>> THEN PF ELSE <<>>
  BY DEF FlagPush
<1>. HIDE DEF s, H, F, X, PH, PF, PX
<1>5. At(s, 0, s)
  BY <1>1, WholeAt
<1>8. ASSUME At(s, 0, PH)
      PROVE  HeightAccepted(s, height) <=> height \notin 1 .. SmallInts
  BY <1>1, <1>8, TypeFacts, HeightRead DEF PH, H, HeightBytes
<1>6. CASE F # <<>>
  <2>. DEFINE datas == <<H, F, X>>
              x == Len(PH)
              y == Len(PF)
              z == Len(PX)
              l == Len(s)
              e == [k \in 0 .. 3 |-> IF k = 0 THEN 0 ELSE IF k = 1 THEN x ELSE IF k = 2 THEN x + y ELSE l]
  <2>1. s = (PH \o PF) \o PX
    BY <1>1, <1>4, <1>6
  <2>2. PH \o PF \in Bytes /\ Len(PH \o PF) = x + y
    BY <1>3, Joined
  <2>3. l = (x + y) + z
    <3>1. Len((PH \o PF) \o PX) = Len(PH \o PF) + z
      BY <1>3, <2>2, Joined
    <3> QED
      BY <2>1, <2>2, <3>1
  <2>4. At(s, 0, PH) /\ At(s, x, PF) /\ At(s, x + y, PX)
    <3>1. At(s, 0, (PH \o PF) \o PX)
      BY <1>5, <2>1
    <3>2. At(s, 0, PH \o PF) /\ At(s, 0 + Len(PH \o PF), PX)
      BY <1>1, <1>3, <2>2, <3>1, JoinedAt
    <3>3. At(s, 0, PH) /\ At(s, 0 + x, PF)
      BY <1>1, <1>3, <3>2, JoinedAt
    <3>4. 0 + x = x /\ 0 + (x + y) = x + y
      BY <1>3
    <3> QED
      BY <2>2, <3>2, <3>3, <3>4
  <2>5. x \in Nat /\ y \in Nat /\ z \in Nat /\ l \in Nat
    BY <1>3, <2>3
  <2>6. /\ datas \in Seq(Bytes) /\ Len(datas) = 3
        /\ datas[1] = H /\ datas[2] = F /\ datas[3] = X
    BY <1>1
  <2>. HIDE DEF x, y, z, l, datas
  <2>7. /\ e \in [0 .. 3 -> Nat] /\ e[0] = 0 /\ e[1] = x /\ e[2] = x + y /\ e[3] = l
    BY <2>5
  <2>. HIDE DEF e
  <2>8. \A i \in 1 .. 3 : Len(datas[i]) < Power[4]
    <3>1. Len(datas[1]) < Power[4] /\ Len(datas[2]) < Power[4] /\ Len(datas[3]) < Power[4]
      BY <1>1, <2>6
    <3> QED
      BY <3>1
  <2>9. ASSUME NEW k \in 0 .. 3 - 1
        PROVE  At(s, e[k], Push(datas[k + 1])) /\ e[k + 1] = e[k] + Len(Push(datas[k + 1]))
    <3>1. CASE k = 0
      <4>1. 0 + x = x
        BY <2>5
      <4> QED
        BY <2>4, <2>6, <2>7, <3>1, <4>1 DEF x, PH
    <3>2. CASE k = 1
      BY <2>4, <2>6, <2>7, <3>2 DEF y, PF
    <3>3. CASE k = 2
      BY <2>3, <2>4, <2>6, <2>7, <3>3 DEF z, PX
    <3> QED
      BY <3>1, <3>2, <3>3
  <2>10. Pushed(s, 3) = Append(datas, <<>>)
    <3>. DEFINE n == 3
    <3>1. /\ n \in Nat /\ Len(datas) = n /\ e \in [0 .. n -> Nat] /\ e[0] = 0 /\ e[n] = Len(s)
          /\ \A i \in 1 .. n : Len(datas[i]) < Power[4]
      BY <2>6, <2>7, <2>8 DEF l
    <3>2. \A k \in 0 .. n - 1 : /\ At(s, e[k], Push(datas[k + 1]))
                               /\ e[k + 1] = e[k] + Len(Push(datas[k + 1]))
      BY <2>9
    <3>. HIDE DEF n
    <3>3. InRow(s, n, datas, e)
      BY <1>1, <2>6, <3>1, <3>2 DEF InRow
    <3>4. Pushed(s, n) = Append(datas, <<>>)
      BY <3>3, PushesRead
    <3> QED
      BY <3>4 DEF n
  <2>. DEFINE d == Append(datas, <<>>)
              r == <<F>> \o <<X, <<>>>>
  <2>11. /\ d \in Seq(Bytes) /\ d # <<>> /\ Len(d) = 4
         /\ d[1] = H /\ d[2] = F /\ d[3] = X /\ d[4] = <<>>
    <3>1. /\ Append(datas, <<>>) \in Seq(Bytes) /\ Append(datas, <<>>) # <<>>
          /\ Len(Append(datas, <<>>)) = Len(datas) + 1
          /\ \A i \in 1 .. Len(datas) : Append(datas, <<>>)[i] = datas[i]
          /\ Append(datas, <<>>)[Len(datas) + 1] = <<>>
      BY <2>6, AppendNothing
    <3>2. 1 \in 1 .. 3 /\ 2 \in 1 .. 3 /\ 3 \in 1 .. 3 /\ 3 + 1 = 4
      OBVIOUS
    <3> QED
      BY <2>6, <3>1, <3>2
  <2>. HIDE DEF d
  <2>12. /\ Tail(d) \in Seq(Bytes) /\ Len(Tail(d)) = 3
         /\ Tail(d)[1] = F /\ Tail(d)[2] = X /\ Tail(d)[3] = <<>>
    <3>1. /\ Tail(d) \in Seq(Bytes) /\ Len(Tail(d)) = Len(d) - 1
          /\ \A i \in 1 .. Len(Tail(d)) : Tail(d)[i] = d[i + 1]
      BY <2>11, HeadTailProperties
    <3>2. Len(Tail(d)) = 3 /\ 1 \in 1 .. 3 /\ 2 \in 1 .. 3 /\ 3 \in 1 .. 3
      BY <2>11, <3>1
    <3>3. 1 + 1 = 2 /\ 2 + 1 = 3 /\ 3 + 1 = 4
      OBVIOUS
    <3> QED
      BY <2>11, <3>1, <3>2, <3>3
  <2>13. /\ r \in Seq(Bytes) /\ Len(r) = 3 /\ r[1] = F /\ r[2] = X /\ r[3] = <<>>
    <3>. DEFINE r1 == <<F>>
                r2 == <<X, <<>>>>
    <3>1. /\ r1 \in Seq(Bytes) /\ Len(r1) = 1 /\ r1[1] = F
          /\ r2 \in Seq(Bytes) /\ Len(r2) = 2 /\ r2[1] = X /\ r2[2] = <<>>
      BY <1>1, Nothing
    <3>. HIDE DEF r1, r2
    <3>2. /\ r1 \o r2 \in Seq(Bytes) /\ Len(r1 \o r2) = Len(r1) + Len(r2)
          /\ \A i \in 1 .. Len(r1) + Len(r2) :
               (r1 \o r2)[i] = IF i <= Len(r1) THEN r1[i] ELSE r2[i - Len(r1)]
      BY <3>1, ConcatProperties
    <3>3. (r1 \o r2)[1] = F /\ (r1 \o r2)[2] = X /\ (r1 \o r2)[3] = <<>>
      BY <3>1, <3>2
    <3> QED
      BY <3>1, <3>2, <3>3 DEF r1, r2
  <2>. HIDE DEF r
  <2>14. Tail(d) = r
    <3>1. \A i \in 1 .. 3 : i = 1 \/ i = 2 \/ i = 3
      OBVIOUS
    <3> QED
      BY <2>12, <2>13, <3>1, SeqEqual
  <2>15. ScriptNumValue(d[1]) = height /\ Tail(d) = <<F>> \o <<X, <<>>>>
    BY <1>2, <2>11, <2>14 DEF r
  <2> QED
    BY <1>6, <1>8, <2>4, <2>10, <2>15 DEF ScriptReadsBack, d, s, F, X
<1>7. CASE F = <<>>
  <2>. DEFINE datas == <<H, X>>
              x == Len(PH)
              z == Len(PX)
              l == Len(s)
              e == [k \in 0 .. 2 |-> IF k = 0 THEN 0 ELSE IF k = 1 THEN x ELSE l]
  <2>1. s = PH \o PX
    BY <1>1, <1>3, <1>4, <1>7, Nothing
  <2>2. l = x + z
    BY <1>3, <2>1, Joined
  <2>3. At(s, 0, PH) /\ At(s, x, PX)
    <3>1. At(s, 0, PH \o PX)
      BY <1>5, <2>1
    <3>2. At(s, 0, PH) /\ At(s, 0 + x, PX)
      BY <1>1, <1>3, <3>1, JoinedAt
    <3>3. 0 + x = x
      BY <1>3
    <3> QED
      BY <3>2, <3>3
  <2>4. x \in Nat /\ z \in Nat /\ l \in Nat
    BY <1>3, <2>2
  <2>5. datas \in Seq(Bytes) /\ Len(datas) = 2 /\ datas[1] = H /\ datas[2] = X
    BY <1>1
  <2>. HIDE DEF x, z, l, datas
  <2>6. /\ e \in [0 .. 2 -> Nat] /\ e[0] = 0 /\ e[1] = x /\ e[2] = l
    BY <2>4
  <2>. HIDE DEF e
  <2>7. ASSUME NEW k \in 0 .. 2 - 1
        PROVE  At(s, e[k], Push(datas[k + 1])) /\ e[k + 1] = e[k] + Len(Push(datas[k + 1]))
    <3>1. CASE k = 0
      <4>1. 0 + x = x
        BY <2>4
      <4> QED
        BY <2>3, <2>5, <2>6, <3>1, <4>1 DEF x, PH
    <3>2. CASE k = 1
      BY <2>2, <2>3, <2>5, <2>6, <3>2 DEF z, PX
    <3> QED
      BY <3>1, <3>2
  <2>8. \A i \in 1 .. 2 : Len(datas[i]) < Power[4]
    <3>1. Len(datas[1]) < Power[4] /\ Len(datas[2]) < Power[4]
      BY <1>1, <2>5
    <3> QED
      BY <3>1
  <2>9. Pushed(s, 2) = Append(datas, <<>>)
    <3>. DEFINE n == 2
    <3>1. /\ n \in Nat /\ Len(datas) = n /\ e \in [0 .. n -> Nat] /\ e[0] = 0 /\ e[n] = Len(s)
          /\ \A i \in 1 .. n : Len(datas[i]) < Power[4]
      BY <2>5, <2>6, <2>8 DEF l
    <3>2. \A k \in 0 .. n - 1 : /\ At(s, e[k], Push(datas[k + 1]))
                               /\ e[k + 1] = e[k] + Len(Push(datas[k + 1]))
      BY <2>7
    <3>. HIDE DEF n
    <3>3. InRow(s, n, datas, e)
      BY <1>1, <2>5, <3>1, <3>2 DEF InRow
    <3>4. Pushed(s, n) = Append(datas, <<>>)
      BY <3>3, PushesRead
    <3> QED
      BY <3>4 DEF n
  <2>. DEFINE d == Append(datas, <<>>)
              r == <<X, <<>>>>
  <2>10. /\ d \in Seq(Bytes) /\ d # <<>> /\ Len(d) = 3
         /\ d[1] = H /\ d[2] = X /\ d[3] = <<>>
    <3>1. /\ Append(datas, <<>>) \in Seq(Bytes) /\ Append(datas, <<>>) # <<>>
          /\ Len(Append(datas, <<>>)) = Len(datas) + 1
          /\ \A i \in 1 .. Len(datas) : Append(datas, <<>>)[i] = datas[i]
          /\ Append(datas, <<>>)[Len(datas) + 1] = <<>>
      BY <2>5, AppendNothing
    <3>2. 1 \in 1 .. 2 /\ 2 \in 1 .. 2 /\ 2 + 1 = 3
      OBVIOUS
    <3> QED
      BY <2>5, <3>1, <3>2
  <2>. HIDE DEF d
  <2>11. /\ Tail(d) \in Seq(Bytes) /\ Len(Tail(d)) = 2
         /\ Tail(d)[1] = X /\ Tail(d)[2] = <<>>
    <3>1. /\ Tail(d) \in Seq(Bytes) /\ Len(Tail(d)) = Len(d) - 1
          /\ \A i \in 1 .. Len(Tail(d)) : Tail(d)[i] = d[i + 1]
      BY <2>10, HeadTailProperties
    <3>2. Len(Tail(d)) = 2 /\ 1 \in 1 .. 2 /\ 2 \in 1 .. 2
      BY <2>10, <3>1
    <3>3. 1 + 1 = 2 /\ 2 + 1 = 3
      OBVIOUS
    <3> QED
      BY <2>10, <3>1, <3>2, <3>3
  <2>12. /\ r \in Seq(Bytes) /\ Len(r) = 2 /\ r[1] = X /\ r[2] = <<>>
    BY <1>1, Nothing
  <2>13. <<>> \o r = r
    BY <2>12, ConcatEmptySeq
  <2>. HIDE DEF r
  <2>14. Tail(d) = r
    <3>1. \A i \in 1 .. 2 : i = 1 \/ i = 2
      OBVIOUS
    <3> QED
      BY <2>11, <2>12, <3>1, SeqEqual
  <2>15. ScriptNumValue(d[1]) = height /\ Tail(d) = <<>> \o <<X, <<>>>>
    BY <1>2, <2>10, <2>13, <2>14 DEF r
  <2> QED
    BY <1>7, <1>8, <2>3, <2>9, <2>15 DEF ScriptReadsBack, d, s, F, X
<1> QED
  BY <1>6, <1>7

-----------------------------------------------------------------------------
(* The invariant                                                           *)

LEMMA InitInv == Init => IInv
<1> SUFFICES ASSUME Init PROVE IInv
  OBVIOUS
<1>1. TypeOK
  <2>1. MaxHeight \in Nat
    BY BoundsAssumption, Widths
  <2> QED
    BY <2>1 DEF Init, TypeOK
<1>2. HalvingInterval \in Nat /\ HalvingInterval > 0 /\ InitialSubsidy \in Nat /\ InitialSubsidy > 0
  BY SubsidyAssumption
<1>3. Subsidy(0) \in {0, InitialSubsidy}
  BY <1>2, ShiftedIs, SubsidyAssumption DEF Subsidy
<1>4. 0 % HalvingInterval = 0
  BY <1>2
<1> QED
  BY <1>1, <1>2, <1>3, <1>4 DEF Init, IInv, SupplyInv, Cap

\* The cap is kept over a block, by the numbers alone: a block of an interval of
\* I blocks, after r of them and what n other blocks issued, with a subsidy of
\* s; and the last one, after which the subsidy is t.
LEMMA BlockKeepsCap ==
  ASSUME NEW I \in Nat \ {0}, NEW cap \in Nat, NEW n \in Nat, NEW s \in Nat, NEW r \in 0 .. I - 1,
         n + (2 * I - r) * s <= cap, s = 0 => n + I <= cap
  PROVE  /\ n + s + (2 * I - (r + 1)) * s <= cap
         /\ s = 0 => n + s + I <= cap
         /\ r = I - 1 => \A t \in Nat : 2 * t <= s => /\ n + s + (2 * I - 0) * t <= cap
                                                      /\ n + s + I <= cap
<1>1. (2 * I - r) * s = s + (2 * I - (r + 1)) * s
  OBVIOUS
<1>2. ASSUME r = I - 1, NEW t \in Nat, 2 * t <= s
      PROVE  n + s + (2 * I - 0) * t <= cap /\ n + s + I <= cap
  <2>1. (2 * I - r) * s = s + I * s
    BY <1>2
  <2>2. I * s = I * (2 * t) + I * (s - 2 * t) /\ I * (s - 2 * t) >= 0
    BY <1>2
  <2>3. s > 0 => I * s = I + I * (s - 1) /\ I * (s - 1) >= 0
    OBVIOUS
  <2>4. (2 * I - 0) * t = I * (2 * t)
    OBVIOUS
  <2> QED
    BY <1>2, <2>1, <2>2, <2>3, <2>4
<1> QED
  BY <1>1, <1>2

LEMMA MinedInv ==
  ASSUME IInv, Mined
  PROVE  IInv'
<1>. DEFINE s == Subsidy(height)
            t == Subsidy(height + 1)
            r == height % HalvingInterval
<1>1. height' = height + 1 /\ issued' = issued + s
  <2>1. /\ Coinbase.outs[1].value = s + fees /\ s \in Nat /\ fees \in Nat
        /\ issued' = issued + (Coinbase.outs[1].value - fees)
    BY CoinbaseAdds DEF IInv, Mined
  <2>. HIDE DEF s
  <2>2. (s + fees) - fees = s
    BY <2>1
  <2> QED
    BY <2>1, <2>2 DEF Mined
<1>2. height \in Nat /\ issued \in Nat /\ s \in Nat /\ t \in Nat
  BY SubsidyStep DEF IInv, TypeOK
<1>3. TypeOK'
  <2>1. MaxHeight \in Nat
    BY BoundsAssumption, Widths
  <2> QED
    BY <1>1, <1>2, <2>1 DEF Mined, Template, TypeOK
<1>4. HalvingInterval \in Nat \ {0} /\ Cap \in Nat
  BY SubsidyAssumption DEF Cap
<1>5. /\ issued + (2 * HalvingInterval - r) * s <= Cap
      /\ s = 0 => issued + HalvingInterval <= Cap
  BY DEF IInv, SupplyInv
<1>6. /\ r \in 0 .. HalvingInterval - 1
      /\ \/ t = s /\ (height + 1) % HalvingInterval = r + 1
         \/ 2 * t <= s /\ r = HalvingInterval - 1 /\ (height + 1) % HalvingInterval = 0
  BY <1>2, SubsidyStep
<1>. DEFINE q == (height + 1) % HalvingInterval
<1>. HIDE DEF s, t, r, q
<1>7. /\ issued + s + (2 * HalvingInterval - q) * t <= Cap
      /\ t = 0 => issued + s + HalvingInterval <= Cap
  <2>1. /\ issued + s + (2 * HalvingInterval - (r + 1)) * s <= Cap
        /\ s = 0 => issued + s + HalvingInterval <= Cap
        /\ r = HalvingInterval - 1 =>
             (2 * t <= s => /\ issued + s + (2 * HalvingInterval - 0) * t <= Cap
                            /\ issued + s + HalvingInterval <= Cap)
    BY <1>2, <1>4, <1>5, <1>6, BlockKeepsCap
  <2>2. CASE t = s /\ q = r + 1
    BY <2>1, <2>2
  <2>3. CASE 2 * t <= s /\ r = HalvingInterval - 1 /\ q = 0
    BY <2>1, <2>3
  <2> QED
    BY <1>6, <2>2, <2>3 DEF q
<1>8. SupplyInv'
  BY <1>1, <1>7 DEF SupplyInv, Cap, s, t, q
<1> QED
  BY <1>3, <1>8 DEF IInv

LEMMA AgainInv ==
  ASSUME IInv, Again \/ UNCHANGED vars
  PROVE  IInv'
<1>1. height' = height /\ issued' = issued
  BY DEF Again, vars
<1>2. TypeOK'
  BY <1>1 DEF IInv, TypeOK, Again, Template, template, vars
<1>3. SupplyInv'
  BY <1>1 DEF IInv, SupplyInv, Cap
<1> QED
  BY <1>2, <1>3 DEF IInv

\* The types, and the bound on what is issued, hold at every height.
THEOREM InductiveInvariant == Spec => []IInv
<1>1. IInv /\ [Next]_vars => IInv'
  BY MinedInv, AgainInv DEF Next
<1> QED
  BY <1>1, InitInv, PTL DEF Spec

\* The bytes that a txid is computed from are the serialization without
\* witnesses, for every transaction of every block: of any number of inputs,
\* outputs and items, of any length that is encoded.
THEOREM TxidBytesAreExact == Spec => []StripsExactly
<1>1. IInv => StripsExactly
  <2> SUFFICES ASSUME IInv, NEW n \in DOMAIN BlockTxs,
                      Addressable(Serialize(BlockTxs[n], TRUE))
               PROVE  Strip(Serialize(BlockTxs[n], TRUE)) = Serialize(BlockTxs[n], FALSE)
    BY DEF StripsExactly
  <2>1. BlockTxs \in Seq(TxType) /\ Fits(BlockTxs[n])
    BY BlockTxsAre DEF IInv
  <2>2. BlockTxs[n] \in TxType
    BY <2>1
  <2> QED
    BY <2>1, <2>2, Stripped
<1> QED
  BY <1>1, InductiveInvariant, PTL

\* A node that reads a block that is proposed finds the transactions that were
\* put in it, each with its witnesses, and no more.
THEOREM BlocksAreReadBack == Spec => []BlockReadsBack
<1>1. IInv => BlockReadsBack
  BY BlockReads DEF IInv
<1> QED
  BY <1>1, InductiveInvariant, PTL

\* Whoever parses the script of a coinbase finds the height, the flags, the extra
\* nonce and no more; and a node accepts the height, when it is none of those with
\* an opcode of their own, since its digits and its push are the shortest.
THEOREM ScriptsAreReadBack == Spec => []ScriptReadsBack
<1>1. IInv => ScriptReadsBack
  BY ScriptReads DEF IInv
<1> QED
  BY <1>1, InductiveInvariant, PTL

\* The subsidies of all blocks, at any height and whatever is proposed
\* in between, add up to less than twice those of the first interval, and end.
THEOREM SupplyIsCapped == Spec => []SupplyCapped
<1>1. IInv => SupplyCapped
  <2> SUFFICES ASSUME IInv PROVE SupplyCapped
    OBVIOUS
  <2>. DEFINE s == Subsidy(height)
              r == height % HalvingInterval
  <2>1. /\ HalvingInterval \in Nat \ {0} /\ MaxHalvings \in Nat /\ Cap \in Nat
        /\ height \in Nat /\ issued \in Nat /\ s \in Nat /\ r \in 0 .. HalvingInterval - 1
    <3>1. /\ HalvingInterval \in Nat \ {0} /\ MaxHalvings \in Nat
          /\ InitialSubsidy \in Nat
      BY SubsidyAssumption
    <3>2. height \in Nat /\ issued \in Nat
      BY DEF IInv, TypeOK
    <3>3. s \in Nat /\ r \in 0 .. HalvingInterval - 1
      BY <3>2, SubsidyStep
    <3>4. Cap \in Nat
      BY <3>1 DEF Cap
    <3> QED
      BY <3>1, <3>2, <3>3, <3>4
  <2>2. /\ issued + (2 * HalvingInterval - r) * s <= Cap
        /\ s = 0 => issued + HalvingInterval <= Cap
    BY DEF IInv, SupplyInv
  <2>3. issued < Cap
    <3>. HIDE DEF s, r
    <3>1. s > 0 => (2 * HalvingInterval - r) * s > 0
      BY <2>1
    <3> QED
      BY <2>1, <2>2, <3>1
  <2>4. ASSUME height >= HalvingInterval * MaxHalvings
        PROVE  Coinbase.outs[1].value = fees
    <3>1. height \div HalvingInterval >= MaxHalvings
      BY <2>1, <2>4
    <3>2. Subsidy(height) = 0
      BY <3>1 DEF Subsidy
    <3>3. Coinbase.outs[1].value = Subsidy(height) + fees /\ fees \in Nat
      BY CoinbaseAdds DEF IInv
    <3> QED
      BY <3>2, <3>3
  <2> QED
    BY <2>3, <2>4 DEF SupplyCapped, Cap
<1> QED
  BY <1>1, InductiveInvariant, PTL
===============================================================================
