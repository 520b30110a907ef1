------------------------- MODULE BlockAssemblyProofs -------------------------
(***************************************************************************)
(* Proofs about BlockAssembly, for any number of concurrent calls and any  *)
(* inputs: the byte order is never reversed, the txids of every returned   *)
(* block are those of its bytes, its header has their Merkle root and its  *)
(* coinbase the commitment to the Merkle root of the witness txids.        *)
(***************************************************************************)
EXTENDS BlockAssembly, SequenceTheorems, Induction, TLAPS

LEMMA DigestType ==
  ASSUME NEW bytes \in Bytes
  PROVE  IsDigest(Sha256d(bytes)) /\ Sha256d(bytes) \in Bytes
<1>1. /\ Sha256d(bytes) \in Seq(Int) /\ Len(Sha256d(bytes)) = Len(bytes) + 2
      /\ Sha256d(bytes)[1] = -1 /\ Sha256d(bytes)[Len(bytes) + 2] = -2
  BY DEF Sha256d, Bytes
<1> QED
  BY <1>1 DEF IsDigest, Bytes, Last

\* No digest is the reverse of another.
LEMMA ReverseNoDigest ==
  ASSUME NEW d, IsDigest(d), NEW e, IsDigest(e)
  PROVE  Reverse(d) # e
<1>1. /\ Len(d) \in Nat /\ Len(d) > 1 /\ d[Len(d)] = -2
      /\ e[1] = -1 /\ Len(e) \in Nat /\ Len(e) > 1
  BY DEF IsDigest, Bytes, Last
<1>2. Reverse(d)[1] = -2
  BY <1>1 DEF Reverse
<1> QED
  BY <1>1, <1>2

LEMMA InputType ==
  ASSUME NEW in \in Inputs \cup {NoInput}
  PROVE  /\ in.txs \in Seq(TxType) /\ in.value \in Nat
         /\ \A i \in 1 .. Len(in.txs) : in.txs[i].base \in Bytes /\ in.txs[i].full \in Bytes
<1>1. in.txs \in Seq(TxType) /\ in.value \in Nat
  <2>1. CASE in \in Inputs
    BY <2>1, InputsAssumption
  <2>2. CASE in = NoInput
    BY <2>2 DEF NoInput
  <2> QED
    BY <2>1, <2>2
<1>2. \A i \in 1 .. Len(in.txs) : in.txs[i] \in TxType
  BY <1>1
<1> QED
  BY <1>1, <1>2 DEF TxType

LEMMA NeverCalibrated ==
  ASSUME NEW in \in Inputs
  PROVE  ~ Calibration(in)
<1> SUFFICES ASSUME in.txs # <<>>, in.first # None,
                    Reverse(Sha256d(in.txs[1].base)) = in.first
             PROVE  FALSE
  BY DEF Calibration
<1>1. in.txs[1].base \in Bytes
  BY InputType
<1>2. IsDigest(in.first)
  BY InputsAssumption
<1> QED
  BY <1>1, <1>2, DigestType, ReverseNoDigest

\* A hash, then those of the transactions.
LEMMA HashesAre ==
  ASSUME NEW first \in Bytes, NEW n \in Nat, NEW rest \in [1 .. n -> Bytes]
  PROVE  /\ <<first>> \o rest \in Seq(Bytes) /\ Len(<<first>> \o rest) = n + 1
         /\ (<<first>> \o rest)[1] = first
         /\ \A i \in 1 .. n : (<<first>> \o rest)[i + 1] = rest[i]
<1>1. rest \in Seq(Bytes) /\ Len(rest) = n
  OBVIOUS
<1> QED
  BY <1>1

LEMMA InputOfCall ==
  ASSUME TypeOK, NEW c \in Calls
  PROVE  /\ TxCount(c) \in Nat
         /\ CoinbaseBytes(input[c].value, commitment[c]) \in Bytes
         /\ \A i \in 1 .. TxCount(c) :
              input[c].txs[i].base \in Bytes /\ input[c].txs[i].full \in Bytes
<1>1. /\ input[c].txs \in Seq(TxType) /\ input[c].value \in Nat
      /\ \A i \in 1 .. TxCount(c) :
           input[c].txs[i].base \in Bytes /\ input[c].txs[i].full \in Bytes
  BY InputType DEF TypeOK, TxCount
<1>2. CoinbaseBytes(input[c].value, commitment[c]) \in Bytes
  BY <1>1 DEF CoinbaseBytes, Bytes, TypeOK
<1>3. TxCount(c) \in Nat
  BY <1>1 DEF TxCount
<1> QED
  BY <1>1, <1>2, <1>3

\* The txids of the bytes, one by one.
LEMMA TxidsAre ==
  ASSUME TypeOK, NEW c \in Calls
  PROVE  /\ BlockTxids(c) \in Seq(Bytes) /\ Len(BlockTxids(c)) = TxCount(c) + 1
         /\ BlockTxids(c)[1] = Sha256d(CoinbaseBytes(input[c].value, commitment[c]))
         /\ \A i \in 1 .. TxCount(c) : BlockTxids(c)[i + 1] = Sha256d(input[c].txs[i].base)
<1>. DEFINE first == Sha256d(CoinbaseBytes(input[c].value, commitment[c]))
            rest == [i \in 1 .. TxCount(c) |-> Sha256d(input[c].txs[i].base)]
<1>1. first \in Bytes /\ TxCount(c) \in Nat
  BY InputOfCall, DigestType
<1>2. rest \in [1 .. TxCount(c) -> Bytes]
  BY InputOfCall, DigestType
<1>3. BlockTxids(c) = <<first>> \o rest
  BY DEF BlockTxids
<1>4. \A i \in 1 .. TxCount(c) : rest[i] = Sha256d(input[c].txs[i].base)
  OBVIOUS
<1>. HIDE DEF first, rest
<1>5. /\ <<first>> \o rest \in Seq(Bytes) /\ Len(<<first>> \o rest) = TxCount(c) + 1
      /\ (<<first>> \o rest)[1] = first
      /\ \A i \in 1 .. TxCount(c) : (<<first>> \o rest)[i + 1] = rest[i]
  BY <1>1, <1>2, HashesAre
<1> QED
  BY <1>3, <1>4, <1>5 DEF first

LEMMA WtxidsAre ==
  ASSUME TypeOK, NEW c \in Calls
  PROVE  /\ BlockWtxids(c) \in Seq(Bytes) /\ Len(BlockWtxids(c)) = TxCount(c) + 1
         /\ BlockWtxids(c)[1] = ZeroHash
         /\ \A i \in 1 .. TxCount(c) : BlockWtxids(c)[i + 1] = Sha256d(input[c].txs[i].full)
<1>. DEFINE rest == [i \in 1 .. TxCount(c) |-> Sha256d(input[c].txs[i].full)]
<1>1. ZeroHash \in Bytes /\ TxCount(c) \in Nat
  BY InputOfCall DEF ZeroHash, Bytes
<1>2. rest \in [1 .. TxCount(c) -> Bytes]
  BY InputOfCall, DigestType
<1>3. BlockWtxids(c) = <<ZeroHash>> \o rest
  BY DEF BlockWtxids
<1>4. \A i \in 1 .. TxCount(c) : rest[i] = Sha256d(input[c].txs[i].full)
  OBVIOUS
<1>. HIDE DEF rest
<1>5. /\ <<ZeroHash>> \o rest \in Seq(Bytes) /\ Len(<<ZeroHash>> \o rest) = TxCount(c) + 1
      /\ (<<ZeroHash>> \o rest)[1] = ZeroHash
      /\ \A i \in 1 .. TxCount(c) : (<<ZeroHash>> \o rest)[i + 1] = rest[i]
  BY <1>1, <1>2, HashesAre
<1> QED
  BY <1>3, <1>4, <1>5

LEMMA NotEmpty ==
  ASSUME NEW S, NEW s \in Seq(S), Len(s) > 0
  PROVE  s # <<>>
OBVIOUS

LEMMA AppendType ==
  ASSUME NEW s \in Seq(Bytes), NEW h \in Bytes
  PROVE  Append(s, h) \in Seq(Bytes) /\ Append(s, h) # <<>>
<1>1. Append(s, h) \in Seq(Bytes) /\ Len(Append(s, h)) > 0
  OBVIOUS
<1> QED
  BY <1>1, NotEmpty

LEMMA LevelType ==
  ASSUME NEW s \in Seq(Bytes), s # <<>>
  PROVE  /\ Len(s) \in Nat \ {0} /\ s[1] \in Bytes /\ Len(s) > 1 => s[2] \in Bytes
         /\ Len(s) > 2 => SubSeq(s, 3, Len(s)) \in Seq(Bytes) /\ SubSeq(s, 3, Len(s)) # <<>>
<1>1. Len(s) \in Nat \ {0} /\ s[1] \in Bytes /\ (Len(s) > 1 => s[2] \in Bytes)
  OBVIOUS
<1>2. ASSUME Len(s) > 2
      PROVE  SubSeq(s, 3, Len(s)) \in Seq(Bytes) /\ SubSeq(s, 3, Len(s)) # <<>>
  <2>1. SubSeq(s, 3, Len(s)) \in Seq(Bytes) /\ Len(SubSeq(s, 3, Len(s))) > 0
    BY <1>1, <1>2
  <2> QED
    BY <2>1, NotEmpty
<1> QED
  BY <1>1, <1>2

\* A hash of bytes is the digest, as the flag is never set.
LEMMA HashType ==
  ASSUME NeverReversed, NEW bytes \in Bytes
  PROVE  HashLE(bytes) = Sha256d(bytes) /\ HashLE(bytes) \in Bytes
BY DigestType DEF HashLE, NeverReversed

\* A call keeps its stage, its hashes, its tree and what it returns when
\* another one steps.
Same(c) ==
  /\ pc'[c] = pc[c] /\ ids'[c] = ids[c] /\ level'[c] = level[c] /\ above'[c] = above[c]
  /\ block'[c] = block[c] /\ input'[c] = input[c] /\ commitment'[c] = commitment[c]

\* The part of the invariant about one call.
CallInv(c) == IdsInv(c) /\ TreeInv(c) /\ ResultInv(c)

\* What is said of the block depends on the input and the commitment only.
LEMMA SameIds ==
  ASSUME NEW c, input'[c] = input[c]
  PROVE  /\ TxCount(c)' = TxCount(c) /\ BlockWtxids(c)' = BlockWtxids(c)
         /\ commitment'[c] = commitment[c] => BlockTxids(c)' = BlockTxids(c)
BY DEF TxCount, BlockWtxids, BlockTxids

LEMMA SameInv ==
  ASSUME NEW c, CallInv(c), Same(c)
  PROVE  CallInv(c)'
<1>1. IdsInv(c)'
  BY SameIds DEF CallInv, IdsInv, Same
<1>2. TreeInv(c)'
  BY DEF CallInv, TreeInv, Same
<1>3. ResultInv(c)'
  BY SameIds DEF CallInv, ResultInv, Same, Done
<1> QED
  BY <1>1, <1>2, <1>3 DEF CallInv

LEMMA IInvParts ==
  IInv <=> TypeOK /\ NeverReversed /\ \A c \in Calls : CallInv(c)
BY DEF IInv, CallInv

-----------------------------------------------------------------------------
(* The tree                                                                *)

LEMMA UpType ==
  ASSUME NEW nodes \in Seq(Bytes)
  PROVE  /\ Up(nodes) \in Seq(Bytes) /\ Len(Up(nodes)) = (Len(nodes) + 1) \div 2
         /\ \A i \in 1 .. (Len(nodes) + 1) \div 2 :
              Up(nodes)[i] = Sha256d(nodes[2 * i - 1] \o
                               nodes[IF 2 * i <= Len(nodes) THEN 2 * i ELSE 2 * i - 1])
<1>. DEFINE m == Len(nodes)
            right(i) == IF 2 * i <= m THEN 2 * i ELSE 2 * i - 1
            h(i) == Sha256d(nodes[2 * i - 1] \o nodes[right(i)])
            half == (m + 1) \div 2
<1>1. m \in Nat /\ half \in Nat /\ 2 * half <= m + 1
  OBVIOUS
<1>2. ASSUME NEW i \in 1 .. half PROVE h(i) \in Bytes
  <2>1. 2 * i - 1 \in 1 .. m /\ right(i) \in 1 .. m
    BY <1>1
  <2>2. nodes[2 * i - 1] \in Bytes /\ nodes[right(i)] \in Bytes
    BY <2>1
  <2>3. nodes[2 * i - 1] \o nodes[right(i)] \in Bytes
    BY <2>2 DEF Bytes
  <2> QED
    BY <2>3, DigestType
<1>3. Up(nodes) = [i \in 1 .. half |-> h(i)]
  BY DEF Up
<1>. HIDE DEF h, half, m
<1>4. /\ Up(nodes) \in Seq(Bytes) /\ Len(Up(nodes)) = half
      /\ \A i \in 1 .. half : Up(nodes)[i] = h(i)
  BY <1>1, <1>2, <1>3
<1> QED
  BY <1>4 DEF h, half, m

\* The levels of a tree, one by one.
LEMMA LevelsAre ==
  ASSUME NEW leaves \in Seq(Bytes)
  PROVE  /\ Levels(leaves) \in [0 .. Len(leaves) -> Seq(Bytes)]
         /\ Levels(leaves)[0] = leaves
         /\ \A n \in 0 .. Len(leaves) :
              n + 1 <= Len(leaves) => Levels(leaves)[n + 1] = Up(Levels(leaves)[n])
<1>. DEFINE m == Len(leaves)
            F == [x \in Nat \X Seq(Bytes) |-> Up(x[2])]
            Is(f) == f = [n \in 0 .. m |-> IF n = 0 THEN leaves ELSE Up(f[n - 1])]
<1>1. m \in Nat
  OBVIOUS
<1>2. F \in [Nat \X Seq(Bytes) -> Seq(Bytes)]
  BY UpType
<1>3. \A n \in Nat : \A s \in Seq(Bytes) : F[<<n, s>>] = Up(s)
  OBVIOUS
<1>. HIDE DEF F, m
<1>4. PICK f \in [0 .. m -> Seq(Bytes)] : Steps(f, m, leaves, F)
  <2>. DEFINE V == Seq(Bytes)
  <2>1. leaves \in V /\ F \in [Nat \X V -> V]
    BY <1>2
  <2>. HIDE DEF V
  <2>2. \E f \in [0 .. m -> V] : Steps(f, m, leaves, F)
    BY <1>1, <2>1, StepsExist
  <2> QED
    BY <2>2 DEF V
<1>5. ASSUME NEW n \in 0 .. m
      PROVE  f[n] = IF n = 0 THEN leaves ELSE Up(f[n - 1])
  <2>1. f[0] = leaves /\ \A k \in 0 .. m - 1 : f[k + 1] = F[<<k, f[k]>>]
    BY <1>4 DEF Steps
  <2>2. CASE n # 0
    <3>1. /\ n - 1 \in 0 .. m - 1 /\ n - 1 \in Nat /\ (n - 1) + 1 = n
          /\ f[n - 1] \in Seq(Bytes)
      BY <1>1, <2>2
    <3>2. f[n] = F[<<n - 1, f[n - 1]>>]
      BY <2>1, <3>1
    <3> QED
      BY <1>3, <2>2, <3>1, <3>2
  <2> QED
    BY <2>1, <2>2
<1>6. Is(f)
  <2>1. f = [n \in 0 .. m |-> f[n]]
    OBVIOUS
  <2> QED
    BY <1>5, <2>1
<1>7. Levels(leaves) = CHOOSE g : Is(g)
  BY DEF Levels, m
<1>8. Is(Levels(leaves))
  BY <1>6, <1>7
<1>. DEFINE L == Levels(leaves)
            G(n) == IF n = 0 THEN leaves ELSE Up(L[n - 1])
<1>9. /\ DOMAIN L = 0 .. m /\ L[0] = leaves /\ L = [n \in 0 .. m |-> L[n]]
      /\ \A n \in 0 .. m : n + 1 <= m => L[n + 1] = Up(L[n])
  <2>1. L = [n \in 0 .. m |-> G(n)]
    BY <1>8
  <2>2. \A n \in 0 .. m : n + 1 <= m => G(n + 1) = Up(L[n])
    BY <1>1
  <2>3. G(0) = leaves
    OBVIOUS
  <2>. HIDE DEF G, L
  <2> QED
    BY <1>1, <2>1, <2>2, <2>3
<1>. HIDE DEF L
<1>. HIDE DEF G
<1>10. \A n \in Nat : n <= m => L[n] \in Seq(Bytes)
  <2>. DEFINE N == {n \in Nat : n <= m => L[n] \in Seq(Bytes)}
  <2>1. 0 \in N
    BY <1>9
  <2>2. ASSUME NEW n \in Nat, n \in N PROVE n + 1 \in N
    <3> SUFFICES ASSUME n + 1 <= m PROVE L[n + 1] \in Seq(Bytes)
      OBVIOUS
    <3>1. n \in 0 .. m /\ L[n] \in Seq(Bytes)
      BY <1>1, <2>2
    <3>2. Up(L[n]) \in Seq(Bytes)
      BY <3>1, UpType
    <3> QED
      BY <1>9, <3>1, <3>2
  <2>. HIDE DEF N
  <2>3. Nat \subseteq N
    BY <2>1, <2>2, NatInductionSet
  <2> QED
    BY <2>3 DEF N
<1>11. L \in [0 .. m -> Seq(Bytes)]
  BY <1>9, <1>10
<1> QED
  BY <1>9, <1>11 DEF L, m

\* The tree of some hashes as it is when it is begun, ...
LEMMA TreeBegins ==
  ASSUME NEW leaves \in Seq(Bytes)
  PROVE  HalfBuilt(leaves, leaves, <<>>)
<1>1. /\ 0 \in 0 .. Len(leaves) /\ Levels(leaves)[0] = leaves /\ 0 .. 0 - 1 = {}
      /\ 0 + Len(leaves) <= Len(leaves) /\ Len(leaves) = 2 * Len(<<>>) + Len(leaves)
      /\ \A i \in DOMAIN leaves : leaves[i] = leaves[2 * Len(<<>>) + i]
      /\ DOMAIN <<>> = {}
  BY LevelsAre
<1> QED
  BY <1>1 DEF HalfBuilt

\* ... and when one hash is left.
LEMMA TreeEnds ==
  ASSUME NEW leaves \in Seq(Bytes), NEW low, Len(low) = 1, 1 \in DOMAIN low,
         HalfBuilt(leaves, low, <<>>)
  PROVE  MerkleRef(leaves) = low[1]
<1>1. PICK n \in 0 .. Len(leaves) :
        /\ \A k \in 0 .. n - 1 : Len(Levels(leaves)[k]) > 1
        /\ Len(Levels(leaves)[n]) = 2 * Len(<<>>) + Len(low)
        /\ \A i \in DOMAIN low : low[i] = Levels(leaves)[n][2 * Len(<<>>) + i]
  BY DEF HalfBuilt
<1>2. Len(Levels(leaves)[n]) = 1 /\ low[1] = Levels(leaves)[n][1]
  BY <1>1
<1>. DEFINE Width(k) == Len(Levels(leaves)[k])
            Height(k) == Width(k) = 1 /\ \A j \in 0 .. k - 1 : Width(j) > 1
            height == CHOOSE k \in 0 .. Len(leaves) : Height(k)
<1>3. Height(n)
  BY <1>1, <1>2
<1>4. height \in 0 .. Len(leaves) /\ Height(height)
  BY <1>3
<1>. HIDE DEF height, Width
<1>5. height = n
  <2>1. ~ height < n
    BY <1>3, <1>4
  <2>2. ~ n < height
    BY <1>3, <1>4
  <2> QED
    BY <1>4, <2>1, <2>2
<1>6. MerkleRef(leaves) = Levels(leaves)[height][1]
  BY DEF MerkleRef, height, Width
<1> QED
  BY <1>2, <1>5, <1>6

\* The hash of a pair of a tree: it is the next one of the level above, and
\* the last pair of a level leaves the whole level above.
LEMMA TreeGrows ==
  ASSUME NEW leaves \in Seq(Bytes), NEW low \in Seq(Bytes), low # <<>>,
         NEW high \in Seq(Bytes), ~ (Len(low) = 1 /\ high = <<>>),
         HalfBuilt(leaves, low, high),
         NEW hash, hash = Sha256d(low[1] \o (IF Len(low) > 1 THEN low[2] ELSE low[1]))
  PROVE  /\ Len(low) <= 2 => HalfBuilt(leaves, Append(high, hash), <<>>)
         /\ Len(low) > 2 => HalfBuilt(leaves, SubSeq(low, 3, Len(low)), Append(high, hash))
<1>1. PICK n \in 0 .. Len(leaves) :
        /\ n + Len(Levels(leaves)[n]) <= Len(leaves)
        /\ \A k \in 0 .. n - 1 : Len(Levels(leaves)[k]) > 1
        /\ Len(Levels(leaves)[n]) = 2 * Len(high) + Len(low)
        /\ \A i \in DOMAIN low : low[i] = Levels(leaves)[n][2 * Len(high) + i]
        /\ \A i \in DOMAIN high : high[i] = Up(Levels(leaves)[n])[i]
  BY DEF HalfBuilt
<1>. DEFINE nodes == Levels(leaves)[n]
            a == Len(high)
            m == Len(low)
            up == Append(high, hash)
<1>2. nodes \in Seq(Bytes)
  BY LevelsAre
<1>3. a \in Nat /\ m \in Nat /\ DOMAIN low = 1 .. m /\ DOMAIN high = 1 .. a
  OBVIOUS
<1>4. m > 0 /\ (m = 1 => a > 0)
  BY <1>3
<1>5. /\ Len(nodes) = 2 * a + m /\ Len(nodes) \in Nat /\ Len(leaves) \in Nat
      /\ n \in Nat /\ n + 2 * a + m <= Len(leaves)
  BY <1>1, <1>2, <1>3
<1>6. \A i \in 1 .. m : low[i] = nodes[2 * a + i]
  BY <1>1, <1>3
<1>7. \A i \in 1 .. a : high[i] = Up(nodes)[i]
  BY <1>1, <1>3
<1>8. /\ Len(up) = a + 1 /\ DOMAIN up = 1 .. a + 1 /\ up[a + 1] = hash
      /\ \A i \in 1 .. a : up[i] = high[i]
  <2>1. high \in Seq(Bytes)
    OBVIOUS
  <2> QED
    BY <2>1
<1>9. hash = Up(nodes)[a + 1]
  <2>1. a + 1 \in 1 .. (Len(nodes) + 1) \div 2
    BY <1>3, <1>4, <1>5
  <2>2. Up(nodes)[a + 1] = Sha256d(nodes[2 * (a + 1) - 1] \o
          nodes[IF 2 * (a + 1) <= Len(nodes) THEN 2 * (a + 1) ELSE 2 * (a + 1) - 1])
    BY <1>2, <2>1, UpType
  <2>. DEFINE x == 2 * (a + 1) - 1
  <2>3. x = 2 * a + 1 /\ x \in Int
    BY <1>3
  <2>4. nodes[x] = low[1]
    BY <1>3, <1>4, <1>6, <2>3
  <2>5. CASE m > 1
    <3>1. 2 * (a + 1) <= Len(nodes) /\ 2 * (a + 1) = 2 * a + 2
      BY <1>3, <1>5, <2>5
    <3>2. nodes[2 * (a + 1)] = low[2]
      BY <1>3, <1>6, <2>5, <3>1
    <3> QED
      BY <2>2, <2>4, <2>5, <3>1, <3>2
  <2>6. CASE m = 1
    <3>1. ~ 2 * (a + 1) <= Len(nodes)
      BY <1>3, <1>5, <2>6
    <3> QED
      BY <2>2, <2>4, <2>6, <3>1
  <2> QED
    BY <1>3, <1>4, <2>5, <2>6
<1>. HIDE DEF up
<1>10. \A i \in 1 .. a + 1 : up[i] = Up(nodes)[i]
  BY <1>3, <1>7, <1>8, <1>9
<1>11. ASSUME m <= 2
       PROVE  HalfBuilt(leaves, up, <<>>)
  <2>1. n + 1 \in 0 .. Len(leaves) /\ n + 1 + (a + 1) <= Len(leaves) /\ n + 1 <= Len(leaves)
    BY <1>3, <1>4, <1>5, <1>11
  <2>2. Levels(leaves)[n + 1] = Up(nodes)
    BY <2>1, LevelsAre
  <2>3. Len(Up(nodes)) = a + 1
    <3>1. Len(Up(nodes)) = (Len(nodes) + 1) \div 2
      BY <1>2, UpType
    <3>. DEFINE w == Len(nodes)
    <3>2. w = 2 * a + m /\ a \in Nat /\ m \in 1 .. 2
      BY <1>3, <1>4, <1>5, <1>11
    <3>. HIDE DEF w, a, m
    <3>3. (w + 1) \div 2 = a + 1
      BY <3>2
    <3> QED
      BY <3>1, <3>3 DEF w
  <2>4. Len(nodes) > 1
    BY <1>3, <1>4, <1>5
  <2>5. \A k \in 0 .. (n + 1) - 1 : Len(Levels(leaves)[k]) > 1
    <3>1. \A k \in 0 .. n - 1 : Len(Levels(leaves)[k]) > 1
      BY <1>1
    <3>. DEFINE Width(k) == Len(Levels(leaves)[k])
    <3>2. Width(n) > 1 /\ \A k \in 0 .. n - 1 : Width(k) > 1
      BY <2>4, <3>1
    <3>. HIDE DEF Width
    <3>3. \A k \in 0 .. (n + 1) - 1 : Width(k) > 1
      BY <1>5, <3>2
    <3> QED
      BY <3>3 DEF Width
  <2>6. \A i \in DOMAIN up : up[i] = Up(nodes)[2 * Len(<<>>) + i]
    BY <1>3, <1>8, <1>10
  <2>7. Len(Up(nodes)) = 2 * Len(<<>>) + Len(up)
    BY <1>3, <1>8, <2>3
  <2>8. \A i \in DOMAIN <<>> : <<>>[i] = Up(Up(nodes))[i]
    OBVIOUS
  <2>. HIDE DEF nodes
  <2> QED
    BY <2>1, <2>2, <2>3, <2>5, <2>6, <2>7, <2>8 DEF HalfBuilt
<1>12. ASSUME m > 2
       PROVE  HalfBuilt(leaves, SubSeq(low, 3, m), up)
  <2>. DEFINE rest == SubSeq(low, 3, m)
  <2>1. /\ Len(rest) = m - 2 /\ DOMAIN rest = 1 .. m - 2
        /\ \A i \in 1 .. m - 2 : rest[i] = low[i + 2]
    BY <1>3, <1>12
  <2>. HIDE DEF rest
  <2>2. \A i \in DOMAIN rest : rest[i] = nodes[2 * Len(up) + i]
    <3> SUFFICES ASSUME NEW i \in 1 .. m - 2 PROVE rest[i] = nodes[2 * (a + 1) + i]
      BY <1>8, <2>1
    <3>1. i + 2 \in 1 .. m /\ 2 * a + (i + 2) = 2 * (a + 1) + i
      BY <1>3
    <3>. HIDE DEF nodes, a
    <3> QED
      BY <1>6, <2>1, <3>1
  <2>3. Len(nodes) = 2 * Len(up) + Len(rest)
    BY <1>3, <1>5, <1>8, <2>1
  <2>4. \A i \in DOMAIN up : up[i] = Up(nodes)[i]
    BY <1>8, <1>10
  <2> QED
    BY <1>1, <2>2, <2>3, <2>4 DEF HalfBuilt, rest
<1>13. m <= 2 \/ m > 2
  BY <1>3
<1> QED
  BY <1>11, <1>12 DEF up

LEMMA FirstOfMore ==
  ASSUME NEW s \in Seq(Bytes), NEW t \in Seq(Bytes), FirstOf(s, t), Len(s) < Len(t)
  PROVE  FirstOf(Append(s, t[Len(s) + 1]), t)
<1>. DEFINE h == t[Len(s) + 1]
<1>. HIDE DEF h
<1>1. /\ Len(s) \in Nat /\ Len(t) \in Nat /\ DOMAIN s = 1 .. Len(s)
      /\ Len(Append(s, h)) = Len(s) + 1
      /\ DOMAIN Append(s, h) = 1 .. Len(s) + 1 /\ Append(s, h)[Len(s) + 1] = h
      /\ \A i \in 1 .. Len(s) : Append(s, h)[i] = s[i]
  OBVIOUS
<1>2. \A i \in 1 .. Len(s) : s[i] = t[i]
  BY <1>1 DEF FirstOf
<1>3. \A i \in 1 .. Len(s) + 1 : Append(s, h)[i] = t[i]
  BY <1>1, <1>2 DEF h
<1> QED
  BY <1>1, <1>3 DEF FirstOf, h

LEMMA FirstOfAll ==
  ASSUME NEW s \in Seq(Bytes), NEW t \in Seq(Bytes), FirstOf(s, t), Len(s) = Len(t)
  PROVE  s = t
BY DEF FirstOf

-----------------------------------------------------------------------------
(* The steps                                                               *)

\* A step of one call leaves the others alone.
LEMMA OneSteps ==
  ASSUME IInv, NEW c \in Calls, TypeOK', NeverReversed', CallInv(c)',
         \A d \in Calls \ {c} : Same(d)
  PROVE  IInv'
<1>1. \A d \in Calls : CallInv(d)'
  BY IInvParts, SameInv
<1> QED
  BY <1>1 DEF IInv, CallInv

LEMMA BeginInv ==
  ASSUME IInv, NEW c \in Calls, Begin(c)
  PROVE  IInv'
<1>1. PICK in \in Inputs :
        /\ input' = [input EXCEPT ![c] = in]
        /\ needsReverse' = Calibration(in)
        /\ pc' = [pc EXCEPT ![c] = IF in.segwit THEN "wtxids" ELSE "coinbase"]
  BY DEF Begin, Goto
<1>2. /\ pc[c] = "idle" /\ ids' = [ids EXCEPT ![c] = <<ZeroHash>>]
      /\ UNCHANGED <<level, above, commitment, block>>
  BY DEF Begin
<1>3. TypeOK /\ CallInv(c)
  BY IInvParts
<1>4. NeverReversed' /\ needsReverse' \in BOOLEAN
  <2>1. ~ Calibration(in)
    BY NeverCalibrated
  <2>2. needsReverse' = FALSE
    BY <1>1, <2>1, Zenon DEF Calibration
  <2> QED
    BY <2>2 DEF NeverReversed
<1>5. <<ZeroHash>> \in Seq(Bytes) /\ ZeroHash \in Bytes
  BY DEF ZeroHash, Bytes
<1>6. TypeOK'
  BY <1>1, <1>2, <1>3, <1>4, <1>5 DEF TypeOK, Stages
<1>7. /\ pc'[c] = (IF in.segwit THEN "wtxids" ELSE "coinbase")
      /\ input'[c] = in /\ ids'[c] = <<ZeroHash>>
  BY <1>1, <1>2, <1>3 DEF TypeOK
<1>8. ~ Done(c)' /\ above'[c] = <<>>
  BY <1>2, <1>3 DEF CallInv, ResultInv, TreeInv, Done
<1>9. FirstOf(<<ZeroHash>>, BlockWtxids(c)')
  <2>. DEFINE n == Len(in.txs)
              rest == [i \in 1 .. n |-> Sha256d(in.txs[i].full)]
  <2>1. n \in Nat /\ \A i \in 1 .. n : in.txs[i].full \in Bytes
    BY InputType
  <2>2. rest \in [1 .. n -> Bytes]
    BY <2>1, DigestType
  <2>3. BlockWtxids(c)' = <<ZeroHash>> \o rest
    BY <1>7 DEF BlockWtxids, TxCount
  <2>. HIDE DEF rest, n
  <2>4. Len(<<ZeroHash>> \o rest) = n + 1 /\ (<<ZeroHash>> \o rest)[1] = ZeroHash
    BY <1>5, <2>1, <2>2, HashesAre
  <2>5. /\ Len(<<ZeroHash>>) = 1 /\ DOMAIN <<ZeroHash>> = 1 .. 1
        /\ <<ZeroHash>>[1] = ZeroHash
    OBVIOUS
  <2> QED
    BY <2>1, <2>3, <2>4, <2>5 DEF FirstOf
<1>10. CallInv(c)'
  <2>1. <<ZeroHash>> # <<>>
    OBVIOUS
  <2>2. IdsInv(c)'
    BY <1>7, <1>9, <2>1 DEF IdsInv
  <2>3. TreeInv(c)'
    BY <1>7, <1>8 DEF TreeInv
  <2>4. ResultInv(c)'
    BY <1>7, <1>8 DEF ResultInv
  <2> QED
    BY <2>2, <2>3, <2>4 DEF CallInv
<1>11. \A d \in Calls \ {c} : Same(d)
  BY <1>1, <1>2, <1>3 DEF Same, TypeOK
<1> QED
  BY <1>4, <1>6, <1>10, <1>11, OneSteps

\* Taking the hash of a transaction, ...
LEMMA TakeOneInv ==
  ASSUME IInv, NEW c \in Calls, Wtxid(c) \/ Txid(c), Len(ids[c]) <= TxCount(c)
  PROVE  IInv'
<1>. DEFINE n == Len(ids[c])
<1>1. TypeOK /\ NeverReversed /\ CallInv(c)
  BY IInvParts
<1>2. pc[c] \in {"wtxids", "txids"}
  BY DEF Wtxid, Txid, TakeIds
<1>3. ids[c] \in Seq(Bytes) /\ ids[c] # <<>>
  BY <1>1, <1>2 DEF TypeOK, CallInv, IdsInv
<1>4. n \in 1 .. TxCount(c) /\ TxCount(c) \in Nat
  <2>1. n \in Nat \ {0}
    BY <1>3
  <2> QED
    BY <1>1, <2>1, InputOfCall
<1>. DEFINE t == IF pc[c] = "txids" THEN BlockTxids(c) ELSE BlockWtxids(c)
<1>5. t \in Seq(Bytes) /\ n < Len(t) /\ FirstOf(ids[c], t)
  <2>1. t \in Seq(Bytes) /\ Len(t) = TxCount(c) + 1
    BY <1>1, TxidsAre, WtxidsAre
  <2>2. n < TxCount(c) + 1
    BY <1>4
  <2>3. FirstOf(ids[c], t)
    BY <1>1, <1>2 DEF CallInv, IdsInv
  <2> QED
    BY <2>1, <2>2, <2>3
<1>6. ids' = [ids EXCEPT ![c] = Append(ids[c], t[n + 1])] /\ t[n + 1] \in Bytes
  <2>1. input[c].txs[n].base \in Bytes /\ input[c].txs[n].full \in Bytes
    BY <1>1, <1>4, InputOfCall
  <2>2. /\ HashLE(input[c].txs[n].base) = Sha256d(input[c].txs[n].base)
        /\ HashLE(input[c].txs[n].full) = Sha256d(input[c].txs[n].full)
    BY <1>1, <2>1, HashType
  <2>3. t[n + 1] \in Bytes
    BY <1>4, <1>5
  <2>4. CASE pc[c] = "txids"
    <3>1. ids' = [ids EXCEPT ![c] = Append(ids[c], HashLE(input[c].txs[n].base))]
      BY <2>4 DEF Wtxid, Txid, TakeIds
    <3>2. BlockTxids(c)[n + 1] = Sha256d(input[c].txs[n].base)
      BY <1>1, <1>4, TxidsAre
    <3> QED
      BY <2>2, <2>3, <2>4, <3>1, <3>2
  <2>5. CASE pc[c] = "wtxids"
    <3>1. ids' = [ids EXCEPT ![c] = Append(ids[c], HashLE(input[c].txs[n].full))]
      BY <2>5 DEF Wtxid, Txid, TakeIds
    <3>2. BlockWtxids(c)[n + 1] = Sha256d(input[c].txs[n].full)
      BY <1>1, <1>4, WtxidsAre
    <3> QED
      BY <2>2, <2>3, <2>5, <3>1, <3>2
  <2> QED
    BY <1>2, <2>4, <2>5
<1>7. UNCHANGED <<needsReverse, pc, input, level, above, commitment, block>>
  BY DEF Wtxid, Txid, TakeIds
<1>8. FirstOf(Append(ids[c], t[n + 1]), t)
  BY <1>3, <1>5, FirstOfMore
<1>9. Append(ids[c], t[n + 1]) \in Seq(Bytes) /\ Append(ids[c], t[n + 1]) # <<>>
  BY <1>3, <1>6, AppendType
<1>. HIDE DEF n
<1>10. TypeOK' /\ NeverReversed' /\ ids'[c] = Append(ids[c], t[n + 1])
  BY <1>1, <1>6, <1>7, <1>9 DEF TypeOK, NeverReversed
<1>11. CallInv(c)'
  <2>1. BlockTxids(c)' = BlockTxids(c) /\ BlockWtxids(c)' = BlockWtxids(c)
    BY <1>7, SameIds
  <2>2. IdsInv(c)'
    BY <1>2, <1>7, <1>8, <1>9, <1>10, <2>1 DEF IdsInv
  <2>3. TreeInv(c)'
    BY <1>1, <1>2, <1>7 DEF TreeInv, CallInv
  <2>4. ResultInv(c)'
    BY <1>1, <1>2, <1>7, <2>1 DEF ResultInv, CallInv, Done
  <2> QED
    BY <2>2, <2>3, <2>4 DEF CallInv
<1>12. \A d \in Calls \ {c} : Same(d)
  BY <1>1, <1>6, <1>7 DEF Same, TypeOK
<1> QED
  BY <1>10, <1>11, <1>12, OneSteps

\* ... or, when all are taken, beginning the tree.
LEMMA TakenInv ==
  ASSUME IInv, NEW c \in Calls, Wtxid(c) \/ Txid(c), ~ Len(ids[c]) <= TxCount(c)
  PROVE  IInv'
<1>1. TypeOK /\ NeverReversed /\ CallInv(c)
  BY IInvParts
<1>2. /\ \/ pc[c] = "wtxids" /\ pc' = [pc EXCEPT ![c] = "wroot"]
         \/ pc[c] = "txids" /\ pc' = [pc EXCEPT ![c] = "root"]
      /\ level' = [level EXCEPT ![c] = ids[c]]
      /\ UNCHANGED <<needsReverse, input, ids, above, commitment, block>>
  BY DEF Wtxid, Txid, TakeIds, Goto
<1>3. ids[c] \in Seq(Bytes) /\ ids[c] # <<>> /\ above[c] = <<>>
  BY <1>1, <1>2 DEF TypeOK, CallInv, IdsInv, TreeInv
<1>4. TypeOK' /\ NeverReversed'
  BY <1>1, <1>2 DEF TypeOK, NeverReversed, Stages
<1>5. /\ level'[c] = ids[c] /\ ids'[c] = ids[c] /\ above'[c] = <<>> /\ ~ Done(c)'
      /\ \/ pc[c] = "wtxids" /\ pc'[c] = "wroot"
         \/ pc[c] = "txids" /\ pc'[c] = "root"
  BY <1>1, <1>2, <1>3 DEF TypeOK, CallInv, ResultInv, Done
<1>6. HalfBuilt(ids[c], ids[c], <<>>)
  BY <1>3, TreeBegins
<1>7. CallInv(c)'
  <2>1. BlockTxids(c)' = BlockTxids(c) /\ BlockWtxids(c)' = BlockWtxids(c)
    BY <1>2, SameIds
  <2>2. Len(ids[c]) > TxCount(c) /\ Len(ids[c]) \in Nat /\ TxCount(c) \in Nat
    BY <1>1, <1>3, InputOfCall
  <2>3. /\ pc[c] = "txids" => Len(ids[c]) = Len(BlockTxids(c))
        /\ pc[c] = "wtxids" => Len(ids[c]) = Len(BlockWtxids(c))
    <3>1. Len(BlockTxids(c)) = TxCount(c) + 1 /\ Len(BlockWtxids(c)) = TxCount(c) + 1
      BY <1>1, TxidsAre, WtxidsAre
    <3>2. /\ pc[c] = "txids" => Len(ids[c]) <= Len(BlockTxids(c))
          /\ pc[c] = "wtxids" => Len(ids[c]) <= Len(BlockWtxids(c))
      BY <1>1 DEF CallInv, IdsInv, FirstOf
    <3>. DEFINE n == Len(ids[c])
                m == TxCount(c)
    <3>. HIDE DEF n, m
    <3>3. n <= m + 1 => n = m + 1
      BY <2>2 DEF n, m
    <3> QED
      BY <3>1, <3>2, <3>3 DEF n, m
  <2>4. IdsInv(c)'
    BY <1>1, <1>3, <1>5, <2>1, <2>3 DEF CallInv, IdsInv
  <2>5. TreeInv(c)'
    BY <1>3, <1>5, <1>6 DEF TreeInv
  <2>6. ResultInv(c)'
    BY <1>1, <1>2, <1>5, <2>1 DEF CallInv, ResultInv
  <2> QED
    BY <2>4, <2>5, <2>6 DEF CallInv
<1>8. \A d \in Calls \ {c} : Same(d)
  BY <1>1, <1>2 DEF Same, TypeOK
<1> QED
  BY <1>4, <1>7, <1>8, OneSteps

LEMMA PairInv ==
  ASSUME IInv, NEW c \in Calls, Pair(c)
  PROVE  IInv'
<1>1. TypeOK /\ NeverReversed /\ CallInv(c)
  BY IInvParts
<1>2. /\ pc[c] \in {"wroot", "root"} /\ ~ Rooted(c)
      /\ UNCHANGED <<needsReverse, pc, input, ids, commitment, block>>
  BY DEF Pair
<1>3. /\ level[c] # <<>> /\ level[c] \in Seq(Bytes) /\ above[c] \in Seq(Bytes)
      /\ ids[c] \in Seq(Bytes) /\ HalfBuilt(ids[c], level[c], above[c])
  BY <1>1, <1>2 DEF CallInv, TreeInv, TypeOK
<1>. DEFINE pair == level[c][1] \o (IF Len(level[c]) > 1 THEN level[c][2] ELSE level[c][1])
            hash == Sha256d(pair)
            up == Append(above[c], hash)
            last == Len(level[c]) <= 2
            low == IF last THEN up ELSE SubSeq(level[c], 3, Len(level[c]))
            high == IF last THEN <<>> ELSE up
<1>4. /\ Len(level[c]) \in Nat \ {0} /\ level[c][1] \in Bytes
      /\ Len(level[c]) > 1 => level[c][2] \in Bytes
  <2>1. level[c] # <<>> /\ level[c] \in Seq(Bytes)
    BY <1>3
  <2> QED
    BY <2>1, LevelType
<1>5. pair \in Bytes
  BY <1>4 DEF Bytes
<1>6. HashLE(pair) = hash /\ hash \in Bytes
  BY <1>1, <1>5, HashType, DigestType
<1>7. up \in Seq(Bytes) /\ up # <<>>
  BY <1>3, <1>6, AppendType
<1>8. Len(level[c]) > 2 => SubSeq(level[c], 3, Len(level[c])) \in Seq(Bytes) \ {<<>>}
  BY <1>3, LevelType
<1>9. low \in Seq(Bytes) /\ low # <<>> /\ high \in Seq(Bytes)
  BY <1>4, <1>7, <1>8
<1>10. HalfBuilt(ids[c], low, high)
  <2>1. ~ (Len(level[c]) = 1 /\ above[c] = <<>>)
    BY <1>2 DEF Rooted
  <2>2. /\ last => HalfBuilt(ids[c], up, <<>>)
        /\ Len(level[c]) > 2 =>
             HalfBuilt(ids[c], SubSeq(level[c], 3, Len(level[c])), up)
    BY <1>3, <2>1, TreeGrows
  <2>3. last \/ Len(level[c]) > 2
    BY <1>4
  <2> QED
    BY <2>2, <2>3
<1>11. level' = [level EXCEPT ![c] = low] /\ above' = [above EXCEPT ![c] = high]
  BY <1>6 DEF Pair
<1>. HIDE DEF low, high
<1>12. /\ TypeOK' /\ NeverReversed'
       /\ level'[c] = low /\ above'[c] = high
  BY <1>1, <1>2, <1>9, <1>11 DEF TypeOK, NeverReversed
<1>13. CallInv(c)'
  <2>1. BlockTxids(c)' = BlockTxids(c) /\ BlockWtxids(c)' = BlockWtxids(c)
    BY <1>2, SameIds
  <2>2. IdsInv(c)'
    BY <1>1, <1>2, <2>1 DEF CallInv, IdsInv
  <2>3. TreeInv(c)'
    BY <1>2, <1>9, <1>10, <1>12 DEF TreeInv
  <2>4. ResultInv(c)'
    BY <1>1, <1>2, <2>1 DEF CallInv, ResultInv, Done
  <2> QED
    BY <2>2, <2>3, <2>4 DEF CallInv
<1>14. \A d \in Calls \ {c} : Same(d)
  BY <1>1, <1>2, <1>11 DEF Same, TypeOK
<1> QED
  BY <1>12, <1>13, <1>14, OneSteps

\* The only hash that is left is the root of the tree.
LEMMA RootIs ==
  ASSUME IInv, NEW c \in Calls, pc[c] \in {"wroot", "root"}, Rooted(c)
  PROVE  level[c][1] = MerkleRef(ids[c]) /\ level[c][1] \in Bytes
<1>1. /\ ids[c] \in Seq(Bytes) /\ level[c] \in Seq(Bytes) /\ Len(level[c]) = 1
      /\ HalfBuilt(ids[c], level[c], <<>>)
  <2>1. ids[c] \in Seq(Bytes) /\ level[c] \in Seq(Bytes)
    BY DEF IInv, TypeOK
  <2>2. HalfBuilt(ids[c], level[c], above[c])
    BY DEF IInv, TreeInv
  <2> QED
    BY <2>1, <2>2 DEF Rooted
<1>2. level[c][1] \in Bytes
  <2>1. level[c] \in Seq(Bytes) /\ level[c] # <<>>
    BY DEF IInv, TypeOK, TreeInv
  <2> QED
    BY <2>1, LevelType
<1>3. 1 \in DOMAIN level[c]
  <2>1. level[c] \in Seq(Bytes)
    BY <1>1
  <2>2. DOMAIN level[c] = 1 .. Len(level[c])
    BY <2>1
  <2> QED
    BY <1>1, <2>2
<1> QED
  BY <1>1, <1>2, <1>3, TreeEnds

LEMMA CommitInv ==
  ASSUME IInv, NEW c \in Calls, Commit(c)
  PROVE  IInv'
<1>1. TypeOK /\ NeverReversed /\ CallInv(c)
  BY IInvParts
<1>2. /\ pc[c] = "wroot" /\ Rooted(c) /\ pc' = [pc EXCEPT ![c] = "coinbase"]
      /\ commitment' = [commitment EXCEPT ![c] = HashLE(level[c][1] \o Reserved)]
      /\ UNCHANGED <<needsReverse, input, ids, level, above, block>>
  BY DEF Commit, Goto
<1>3. level[c][1] = MerkleRef(BlockWtxids(c)) /\ level[c][1] \in Bytes
  <2>1. /\ ids[c] \in Seq(Bytes) /\ BlockWtxids(c) \in Seq(Bytes)
        /\ FirstOf(ids[c], BlockWtxids(c)) /\ Len(ids[c]) = Len(BlockWtxids(c))
    BY <1>1, <1>2, WtxidsAre DEF TypeOK, CallInv, IdsInv
  <2>2. ids[c] = BlockWtxids(c)
    BY <2>1, FirstOfAll
  <2> QED
    BY <1>2, <2>2, RootIs
<1>4. level[c][1] \o Reserved \in Bytes
  BY <1>3 DEF Reserved, Bytes
<1>5. /\ HashLE(level[c][1] \o Reserved) = Sha256d(MerkleRef(BlockWtxids(c)) \o Reserved)
      /\ HashLE(level[c][1] \o Reserved) \in Bytes
  BY <1>1, <1>3, <1>4, HashType
<1>6. /\ TypeOK' /\ NeverReversed' /\ pc'[c] = "coinbase"
      /\ commitment'[c] = Sha256d(MerkleRef(BlockWtxids(c)) \o Reserved)
  BY <1>1, <1>2, <1>5 DEF TypeOK, NeverReversed, Stages
<1>7. CallInv(c)'
  <2>1. BlockWtxids(c)' = BlockWtxids(c)
    BY <1>2, SameIds
  <2>2. IdsInv(c)'
    BY <1>6 DEF IdsInv
  <2>3. TreeInv(c)'
    BY <1>2, <1>6 DEF TreeInv, Rooted
  <2>4. ~ Done(c)'
    BY <1>1, <1>2 DEF CallInv, ResultInv, Done
  <2>5. ResultInv(c)'
    BY <1>6, <2>1, <2>4 DEF ResultInv
  <2> QED
    BY <2>2, <2>3, <2>5 DEF CallInv
<1>8. \A d \in Calls \ {c} : Same(d)
  BY <1>1, <1>2 DEF Same, TypeOK
<1> QED
  BY <1>6, <1>7, <1>8, OneSteps

LEMMA CoinbaseInv ==
  ASSUME IInv, NEW c \in Calls, CoinbaseTxid(c)
  PROVE  IInv'
<1>. DEFINE cb == CoinbaseBytes(input[c].value, commitment[c])
            s == <<HashLE(cb)>>
<1>1. TypeOK /\ NeverReversed /\ CallInv(c)
  BY IInvParts
<1>2. /\ pc[c] = "coinbase" /\ pc' = [pc EXCEPT ![c] = "txids"]
      /\ ids' = [ids EXCEPT ![c] = s]
      /\ UNCHANGED <<needsReverse, input, level, above, commitment, block>>
  BY DEF CoinbaseTxid, Goto
<1>3. /\ HashLE(cb) = BlockTxids(c)[1] /\ HashLE(cb) \in Bytes
      /\ 1 <= Len(BlockTxids(c))
  <2>1. cb \in Bytes /\ TxCount(c) \in Nat
    BY <1>1, InputOfCall
  <2>2. HashLE(cb) = Sha256d(cb) /\ HashLE(cb) \in Bytes
    BY <1>1, <2>1, HashType
  <2> QED
    BY <1>1, <2>1, <2>2, TxidsAre
<1>4. s \in Seq(Bytes) /\ s # <<>> /\ FirstOf(s, BlockTxids(c))
  <2>1. s \in Seq(Bytes) /\ s # <<>> /\ Len(s) = 1 /\ DOMAIN s = 1 .. 1 /\ s[1] = HashLE(cb)
    BY <1>3
  <2> QED
    BY <1>3, <2>1 DEF FirstOf
<1>. HIDE DEF s
<1>5. TypeOK' /\ NeverReversed' /\ pc'[c] = "txids" /\ ids'[c] = s
  BY <1>1, <1>2, <1>4 DEF TypeOK, NeverReversed, Stages
<1>6. CallInv(c)'
  <2>1. BlockTxids(c)' = BlockTxids(c) /\ BlockWtxids(c)' = BlockWtxids(c)
    BY <1>2, SameIds
  <2>2. IdsInv(c)'
    BY <1>4, <1>5, <2>1 DEF IdsInv
  <2>3. TreeInv(c)'
    BY <1>1, <1>2, <1>5 DEF CallInv, TreeInv
  <2>4. ~ Done(c)'
    BY <1>1, <1>2 DEF CallInv, ResultInv, Done
  <2>5. ResultInv(c)'
    BY <1>1, <1>2, <1>5, <2>1, <2>4 DEF CallInv, ResultInv
  <2> QED
    BY <2>2, <2>3, <2>5 DEF CallInv
<1>7. \A d \in Calls \ {c} : Same(d)
  BY <1>1, <1>2 DEF Same, TypeOK
<1> QED
  BY <1>5, <1>6, <1>7, OneSteps

LEMMA FinishInv ==
  ASSUME IInv, NEW c \in Calls, Finish(c)
  PROVE  IInv'
<1>1. TypeOK /\ NeverReversed /\ CallInv(c)
  BY IInvParts
<1>2. /\ pc[c] = "root" /\ Rooted(c) /\ pc' = [pc EXCEPT ![c] = "done"]
      /\ block' = [block EXCEPT ![c] = [merkle |-> level[c][1], txids |-> ids[c]]]
      /\ UNCHANGED <<needsReverse, input, ids, level, above, commitment>>
  BY DEF Finish, Goto
<1>3. TypeOK' /\ NeverReversed'
  BY <1>1, <1>2 DEF TypeOK, NeverReversed, Stages
<1>4. pc'[c] = "done" /\ block'[c] = [merkle |-> MerkleRef(ids[c]), txids |-> ids[c]]
  <2>1. level[c][1] = MerkleRef(ids[c])
    BY <1>2, RootIs
  <2> QED
    BY <1>1, <1>2, <2>1 DEF TypeOK
<1>5. CallInv(c)'
  <2>1. BlockTxids(c)' = BlockTxids(c) /\ BlockWtxids(c)' = BlockWtxids(c)
    BY <1>2, SameIds
  <2>2. IdsInv(c)'
    BY <1>1, <1>2, <1>4, <2>1 DEF CallInv, IdsInv
  <2>3. TreeInv(c)'
    BY <1>2, <1>4 DEF TreeInv, Rooted
  <2>4. ResultInv(c)'
    BY <1>1, <1>2, <1>4, <2>1 DEF CallInv, ResultInv
  <2> QED
    BY <2>2, <2>3, <2>4 DEF CallInv
<1>6. \A d \in Calls \ {c} : Same(d)
  BY <1>1, <1>2 DEF Same, TypeOK
<1> QED
  BY <1>3, <1>5, <1>6, OneSteps

LEMMA ReturnInv ==
  ASSUME IInv, NEW c \in Calls, Return(c)
  PROVE  IInv'
<1>1. TypeOK /\ NeverReversed /\ CallInv(c)
  BY IInvParts
<1>2. /\ pc[c] = "done" /\ pc' = [pc EXCEPT ![c] = "idle"]
      /\ block' = [block EXCEPT ![c] = None] /\ input' = [input EXCEPT ![c] = NoInput]
      /\ ids' = [ids EXCEPT ![c] = <<>>] /\ level' = [level EXCEPT ![c] = <<>>]
      /\ commitment' = [commitment EXCEPT ![c] = <<>>]
      /\ UNCHANGED <<needsReverse, above>>
  BY DEF Return, Goto
<1>3. <<>> \in Bytes /\ <<>> \in Seq(Bytes)
  BY DEF Bytes
<1>4. TypeOK' /\ NeverReversed' /\ pc'[c] = "idle" /\ block'[c] = None
  BY <1>1, <1>2, <1>3 DEF TypeOK, NeverReversed, Stages
<1>5. above'[c] = <<>>
  BY <1>1, <1>2 DEF CallInv, TreeInv
<1>6. CallInv(c)'
  BY <1>4, <1>5 DEF CallInv, IdsInv, TreeInv, ResultInv, Done
<1>7. \A d \in Calls \ {c} : Same(d)
  BY <1>1, <1>2 DEF Same, TypeOK
<1> QED
  BY <1>4, <1>6, <1>7, OneSteps

LEMMA InitInv ==
  ASSUME Init
  PROVE  IInv
<1>1. <<>> \in Bytes /\ <<>> \in Seq(Bytes)
  BY DEF Bytes
<1>2. TypeOK /\ NeverReversed
  BY <1>1 DEF Init, TypeOK, NeverReversed, Stages
<1> QED
  BY <1>2 DEF Init, IInv, IdsInv, TreeInv, ResultInv, Done

-----------------------------------------------------------------------------
(* The theorems                                                            *)

\* The invariant of all calls holds in every interleaving of their steps.
THEOREM InductiveInvariant == Spec => []IInv
<1>1. Init => IInv
  BY InitInv
<1>2. IInv /\ [Next]_vars => IInv'
  <2> SUFFICES ASSUME IInv, [Next]_vars
               PROVE  IInv'
    OBVIOUS
  <2>1. CASE UNCHANGED vars
    <3>1. TypeOK' /\ NeverReversed'
      BY <2>1 DEF IInv, TypeOK, NeverReversed, vars, local
    <3>2. \A c \in Calls : CallInv(c)'
      BY <2>1, IInvParts, SameInv DEF Same, vars, local
    <3> QED
      BY <3>1, <3>2 DEF IInv, CallInv
  <2>2. CASE Next
    <3>1. PICK c \in Calls : Begin(c) \/ Step(c)
      BY <2>2 DEF Next
    <3>2. CASE Wtxid(c) \/ Txid(c)
      BY <3>2, TakeOneInv, TakenInv
    <3>3. CASE ~ (Wtxid(c) \/ Txid(c))
      BY <3>1, <3>3, BeginInv, PairInv, CommitInv, CoinbaseInv, FinishInv, ReturnInv DEF Step
    <3> QED
      BY <3>2, <3>3
  <2> QED
    BY <2>1, <2>2
<1> QED
  BY <1>1, <1>2, PTL DEF Spec

\* No expected txid, of the first transaction or of any other, makes one of the
\* calls set the global flag that turns the hashes of all of them.
THEOREM OrderNeverReversed == Spec => []NeverReversed
<1>1. IInv => NeverReversed
  BY DEF IInv
<1> QED
  BY <1>1, InductiveInvariant, PTL

\* What a call that is done has computed.
LEMMA DoneIs ==
  ASSUME IInv, NEW c \in Calls, Done(c)
  PROVE  /\ block[c].txids = BlockTxids(c) /\ block[c].merkle = MerkleRef(BlockTxids(c))
         /\ input[c].segwit => commitment[c] = Sha256d(MerkleRef(BlockWtxids(c)) \o Reserved)
<1>1. /\ pc[c] = "done" /\ block[c] = [merkle |-> MerkleRef(ids[c]), txids |-> ids[c]]
      /\ input[c].segwit => commitment[c] = Sha256d(MerkleRef(BlockWtxids(c)) \o Reserved)
  BY DEF IInv, ResultInv
<1>2. /\ ids[c] \in Seq(Bytes) /\ BlockTxids(c) \in Seq(Bytes)
      /\ FirstOf(ids[c], BlockTxids(c)) /\ Len(ids[c]) = Len(BlockTxids(c))
  BY <1>1, TxidsAre DEF IInv, TypeOK, IdsInv
<1>3. ids[c] = BlockTxids(c)
  BY <1>2, FirstOfAll
<1> QED
  BY <1>1, <1>3

\* Every call returns, in order, the txids of the transactions of its block,
\* whatever the others do.
THEOREM ReturnedTxids == Spec => []TxidsOfBytes
<1>1. IInv => TxidsOfBytes
  BY DoneIs DEF TxidsOfBytes
<1> QED
  BY <1>1, InductiveInvariant, PTL

\* The Merkle root in the header of every block, of any number of
\* transactions, is that of their txids as a node computes it, whatever the
\* other calls do to the byte order meanwhile.
THEOREM HeaderIsRoot == Spec => []HeaderCommits
<1>1. IInv => HeaderCommits
  BY DoneIs DEF HeaderCommits
<1> QED
  BY <1>1, InductiveInvariant, PTL

\* The coinbase of every block whose template asks for it commits to the Merkle
\* root of the witness txids as a node computes it.
THEOREM CoinbaseHasCommitment == Spec => []CoinbaseCommits
<1>1. IInv => CoinbaseCommits
  BY DoneIs DEF CoinbaseCommits
<1> QED
  BY <1>1, InductiveInvariant, PTL
=============================================================================
