---------------------------- MODULE MempoolProofs ----------------------------
(***************************************************************************)
(* Proofs about Mempool, for any set of workers, any set of entries and    *)
(* any rounding of the fee rates: the type invariant, the inductive        *)
(* invariant IInv and what follows from it, and that the locked multiset   *)
(* implements the set of PrivateMempool.                                   *)
(***************************************************************************)
EXTENDS Mempool, SequenceTheorems, FunctionTheorems, FiniteSetTheorems, TLAPS

-----------------------------------------------------------------------------
(* The comparator                                                          *)

\* A fee rate is a number: the comparator never meets a NaN, since the
\* constructor does not divide by a zero size.
LEMMA FeeRateType ==
  ASSUME NEW e \in MempoolEntryType
  PROVE  FeeRate(e) \in Int
<1>1. e.fee \in Int /\ e.size \in Nat
  BY DEF MempoolEntryType
<1>2. CASE e.size > 0
  <2>1. e.fee * RateScale \in Int
    BY <1>1, RateScaleAssumption
  <2>2. (e.fee * RateScale) \div e.size \in Int
    BY <1>1, <1>2, <2>1
  <2> QED
    BY <1>2, <2>2 DEF FeeRate
<1>3. CASE ~ (e.size > 0)
  BY <1>3 DEF FeeRate
<1> QED
  BY <1>2, <1>3

\* Whichever way the comparator answers, the rates are ordered accordingly.
LEMMA BeforeByRate ==
  ASSUME NEW e \in MempoolEntryType, NEW f \in MempoolEntryType
  PROVE  /\ Before(e, f) => FeeRate(e) >= FeeRate(f)
         /\ ~ Before(e, f) => FeeRate(f) >= FeeRate(e)
<1> DEFINE r == FeeRate(e)
           s == FeeRate(f)
<1>1. r \in Int /\ s \in Int
  BY FeeRateType
<1>2. Before(e, f) <=> IF r # s THEN r > s ELSE e.txid < f.txid
  BY DEF Before
<1> HIDE DEF r, s
<1>3. (Before(e, f) => r >= s) /\ (~ Before(e, f) => s >= r)
  BY <1>1, <1>2
<1> QED
  BY <1>3 DEF r, s

-----------------------------------------------------------------------------
(* The sequence that stands for the multiset                               *)

\* What a slice of a sequence is.
LEMMA SliceProperties ==
  ASSUME NEW S, NEW s \in Seq(S),
         NEW m \in 1 .. Len(s) + 1, NEW n \in 0 .. Len(s), m <= n + 1
  PROVE  /\ SubSeq(s, m, n) \in Seq(S)
         /\ Len(SubSeq(s, m, n)) = n - m + 1
         /\ \A i \in 1 .. n - m + 1 : SubSeq(s, m, n)[i] = s[m + i - 1]
<1>1. Len(s) \in Nat /\ \A i \in 1 .. Len(s) : s[i] \in S
  BY LenProperties, ElementOfSeq
<1>2. m \in Int /\ n \in Int /\ \A i \in m .. n : s[i] \in S
  BY <1>1
<1>3. /\ SubSeq(s, m, n) \in Seq(S)
      /\ Len(SubSeq(s, m, n)) = IF m <= n THEN n - m + 1 ELSE 0
      /\ \A i \in 1 .. n - m + 1 : SubSeq(s, m, n)[i] = s[m + i - 1]
  BY <1>2, SubSeqProperties
<1>4. (IF m <= n THEN n - m + 1 ELSE 0) = n - m + 1
  BY <1>1
<1> QED
  BY <1>3, <1>4

\* What InsertAt returns.
LEMMA InsertAtProperties ==
  ASSUME NEW S, NEW s \in Seq(S), NEW p \in 1 .. Len(s) + 1, NEW e \in S
  PROVE  /\ InsertAt(s, p, e) \in Seq(S)
         /\ Len(InsertAt(s, p, e)) = Len(s) + 1
         /\ \A i \in 1 .. Len(s) + 1 :
              InsertAt(s, p, e)[i] =
                IF i < p THEN s[i] ELSE IF i = p THEN e ELSE s[i - 1]
<1> DEFINE a == SubSeq(s, 1, p - 1)
           b == <<e>>
           c == SubSeq(s, p, Len(s))
           d == a \o b
           r == d \o c
<1>0. Len(s) \in Nat
  BY LenProperties
<1>1. a \in Seq(S) /\ Len(a) = p - 1 /\ \A i \in 1 .. p - 1 : a[i] = s[i]
  <2>1. 1 \in 1 .. Len(s) + 1 /\ p - 1 \in 0 .. Len(s) /\ 1 <= (p - 1) + 1
    BY <1>0
  <2>2. /\ a \in Seq(S) /\ Len(a) = (p - 1) - 1 + 1
        /\ \A i \in 1 .. (p - 1) - 1 + 1 : a[i] = s[1 + i - 1]
    BY <2>1, SliceProperties
  <2> QED
    BY <1>0, <2>2
<1>2. b \in Seq(S) /\ Len(b) = 1 /\ b[1] = e
  OBVIOUS
<1>3. /\ c \in Seq(S) /\ Len(c) = Len(s) - p + 1
      /\ \A i \in 1 .. Len(s) - p + 1 : c[i] = s[p + i - 1]
  BY <1>0, SliceProperties
<1> HIDE DEF a, b, c
<1>4. /\ d \in Seq(S) /\ Len(d) = p
      /\ \A i \in 1 .. p : d[i] = IF i < p THEN s[i] ELSE e
  <2>1. /\ d \in Seq(S) /\ Len(d) = Len(a) + Len(b)
        /\ \A i \in 1 .. Len(a) + Len(b) :
             d[i] = IF i <= Len(a) THEN a[i] ELSE b[i - Len(a)]
    BY <1>1, <1>2, ConcatProperties
  <2> QED
    BY <1>0, <1>1, <1>2, <2>1
<1> HIDE DEF d
<1>5. /\ r \in Seq(S)
      /\ Len(r) = Len(d) + Len(c)
      /\ \A i \in 1 .. Len(d) + Len(c) :
           r[i] =
             IF i <= Len(d) THEN d[i] ELSE c[i - Len(d)]
  BY <1>3, <1>4, ConcatProperties DEF r
<1> HIDE DEF r
<1>6. InsertAt(s, p, e) = r
  BY DEF InsertAt, a, b, c, d, r
<1>7. Len(d) + Len(c) = Len(s) + 1
  BY <1>0, <1>3, <1>4
<1>8. ASSUME NEW i \in 1 .. Len(s) + 1
      PROVE  r[i] =
               IF i < p THEN s[i] ELSE IF i = p THEN e ELSE s[i - 1]
  <2>1. CASE i <= p
    BY <1>0, <1>4, <1>5, <1>7, <2>1
  <2>2. CASE i > p
    <3>1. i - p \in 1 .. Len(s) - p + 1
      BY <1>0, <2>2
    <3>2. c[i - p] = s[p + (i - p) - 1]
      BY <1>3, <3>1
    <3>3. p + (i - p) - 1 = i - 1
      BY <1>0
    <3>4. r[i] = c[i - p]
      BY <1>0, <1>4, <1>5, <1>7, <2>2
    <3> QED
      BY <1>0, <2>2, <3>2, <3>3, <3>4
  <2> QED
    BY <1>0, <2>1, <2>2
<1> QED
  BY <1>5, <1>6, <1>7, <1>8

\* What RemoveAt returns.
LEMMA RemoveAtProperties ==
  ASSUME NEW S, NEW s \in Seq(S), NEW p \in 1 .. Len(s)
  PROVE  /\ RemoveAt(s, p) \in Seq(S)
         /\ Len(RemoveAt(s, p)) = Len(s) - 1
         /\ \A i \in 1 .. Len(s) - 1 :
              RemoveAt(s, p)[i] = IF i < p THEN s[i] ELSE s[i + 1]
<1> DEFINE a == SubSeq(s, 1, p - 1)
           c == SubSeq(s, p + 1, Len(s))
           r == a \o c
<1>0. Len(s) \in Nat
  BY LenProperties
<1>1. a \in Seq(S) /\ Len(a) = p - 1 /\ \A i \in 1 .. p - 1 : a[i] = s[i]
  <2>1. 1 \in 1 .. Len(s) + 1 /\ p - 1 \in 0 .. Len(s) /\ 1 <= (p - 1) + 1
    BY <1>0
  <2>2. /\ a \in Seq(S) /\ Len(a) = (p - 1) - 1 + 1
        /\ \A i \in 1 .. (p - 1) - 1 + 1 : a[i] = s[1 + i - 1]
    BY <2>1, SliceProperties
  <2> QED
    BY <1>0, <2>2
<1>2. /\ c \in Seq(S) /\ Len(c) = Len(s) - p
      /\ \A i \in 1 .. Len(s) - p : c[i] = s[p + i]
  <2>1. /\ p + 1 \in 1 .. Len(s) + 1 /\ Len(s) \in 0 .. Len(s)
        /\ p + 1 <= Len(s) + 1
    BY <1>0
  <2>2. /\ c \in Seq(S) /\ Len(c) = Len(s) - (p + 1) + 1
        /\ \A i \in 1 .. Len(s) - (p + 1) + 1 : c[i] = s[(p + 1) + i - 1]
    BY <2>1, SliceProperties
  <2>3. Len(s) - (p + 1) + 1 = Len(s) - p
    BY <1>0
  <2>4. \A i \in 1 .. Len(s) - p : (p + 1) + i - 1 = p + i
    BY <1>0
  <2> QED
    BY <2>2, <2>3, <2>4
<1> HIDE DEF a, c
<1>3. /\ r \in Seq(S) /\ Len(r) = Len(a) + Len(c)
      /\ \A i \in 1 .. Len(a) + Len(c) :
           r[i] = IF i <= Len(a) THEN a[i] ELSE c[i - Len(a)]
  BY <1>1, <1>2, ConcatProperties
<1> HIDE DEF r
<1>4. RemoveAt(s, p) = r
  BY DEF RemoveAt, a, c, r
<1>5. Len(a) + Len(c) = Len(s) - 1
  BY <1>0, <1>1, <1>2
<1>6. ASSUME NEW i \in 1 .. Len(s) - 1
      PROVE  r[i] = IF i < p THEN s[i] ELSE s[i + 1]
  <2>1. CASE i < p
    BY <1>0, <1>1, <1>3, <1>5, <2>1
  <2>2. CASE i >= p
    <3>1. i - (p - 1) \in 1 .. Len(s) - p
      BY <1>0, <2>2
    <3>2. c[i - (p - 1)] = s[p + (i - (p - 1))]
      BY <1>2, <3>1
    <3>3. p + (i - (p - 1)) = i + 1
      BY <1>0
    <3>4. r[i] = c[i - (p - 1)]
      BY <1>0, <1>1, <1>3, <1>5, <2>2
    <3> QED
      BY <1>0, <2>2, <3>2, <3>3, <3>4
  <2> QED
    BY <1>0, <2>1, <2>2
<1> QED
  BY <1>3, <1>4, <1>5, <1>6

-----------------------------------------------------------------------------
(* Type correctness                                                        *)

LEMMA TypeInit == Init => TypeOK
<1> SUFFICES ASSUME Init PROVE TypeOK
  OBVIOUS
<1>1. entries \in Seq(Entries)
  BY DEF Init
<1>2. NoReply \in Replies
  BY DEF NoReply, Replies
<1> QED
  BY <1>1, <1>2 DEF Init, TypeOK, Stages, Methods

\* Each step keeps the types; only AddInsert, Remove and GetAll need more
\* than their assignments.
LEMMA TypeStep == TypeOK /\ MethodOfRequest /\ [Next]_vars => TypeOK'
<1> SUFFICES ASSUME TypeOK, MethodOfRequest, [Next]_vars PROVE TypeOK'
  OBVIOUS
<1> USE DEF TypeOK, Goto, Stages, Methods
<1>1. ASSUME NEW w \in Workers, NEW r \in Requests, Receive(w, r) PROVE TypeOK'
  <2>1. r.kind \in {"add", "remove", "list", "clear"}
    BY DEF Requests
  <2>2. \E stage \in Stages, m \in Methods : Goto(w, stage, m)
    BY <1>1, <2>1 DEF Receive
  <2> QED
    BY <1>1, <2>2 DEF Receive
<1>2. ASSUME NEW w \in Workers, Reject(w) PROVE TypeOK'
  BY <1>2 DEF Reject, Answer, Replies
<1>3. ASSUME NEW w \in Workers, Validated(w) PROVE TypeOK'
  BY <1>3 DEF Validated
<1>4. ASSUME NEW w \in Workers, Lock(w) PROVE TypeOK'
  BY <1>4 DEF Lock
<1>5. ASSUME NEW w \in Workers, AddDuplicate(w) PROVE TypeOK'
  BY <1>5 DEF AddDuplicate, Running, Unlock, Answer, Replies
<1>6. ASSUME NEW w \in Workers, AddScan(w) PROVE TypeOK'
  BY <1>6 DEF AddScan, Running
<1>7. ASSUME NEW w \in Workers, AddInsert(w) PROVE TypeOK'
  <2>1. req[w].entry \in Entries
    BY <1>7 DEF AddInsert, MethodOfRequest
  <2>2. entries' \in Seq(Entries)
    BY <1>7, <2>1, InsertAtProperties DEF AddInsert
  <2> QED
    BY <1>7, <2>2 DEF AddInsert, Unlock
<1>8. ASSUME NEW w \in Workers, RemoveFound(w) PROVE TypeOK'
  <2>1. entries' \in Seq(Entries)
    BY <1>8, RemoveAtProperties, LenProperties DEF RemoveFound
  <2> QED
    BY <1>8, <2>1 DEF RemoveFound, Running, Unlock
<1>9. ASSUME NEW w \in Workers, RemoveAbsent(w) PROVE TypeOK'
  BY <1>9 DEF RemoveAbsent, Running, Unlock, Answer, Replies
<1>10. ASSUME NEW w \in Workers, Clear(w) PROVE TypeOK'
  <2>1. entries' \in Seq(Entries)
    BY <1>10 DEF Clear
  <2>2. [status |-> "ok", size |-> 0] \in Replies
    BY DEF Replies
  <2> QED
    BY <1>10, <2>1, <2>2 DEF Clear, Running, Unlock, Answer
<1>11. ASSUME NEW w \in Workers, GetAll(w) PROVE TypeOK'
  <2>1. [status |-> "ok", listing |-> entries] \in Replies
    BY DEF Replies
  <2> QED
    BY <1>11, <2>1 DEF GetAll, Running, Unlock, Answer
<1>12. ASSUME NEW w \in Workers, Size(w) PROVE TypeOK'
  <2>1. [status |-> "ok", size |-> Len(entries)] \in Replies
    BY LenProperties DEF Replies
  <2> QED
    BY <1>12, <2>1 DEF Size, Running, Unlock, Answer
<1>13. ASSUME NEW w \in Workers, Respond(w) PROVE TypeOK'
  BY <1>13 DEF Respond, NoReply, Replies
<1>14. CASE UNCHANGED vars
  BY <1>14 DEF vars
<1> QED
  BY <1>1, <1>2, <1>3, <1>4, <1>5, <1>6, <1>7, <1>8, <1>9, <1>10, <1>11,
     <1>12, <1>13, <1>14 DEF Next, Arrive, Body

-----------------------------------------------------------------------------
(* Control: the lock, and what a handler is doing                          *)

LEMMA ControlStep ==
  TypeOK /\ LockHeld /\ MethodOfRequest /\ [Next]_vars
    => LockHeld' /\ MethodOfRequest'
<1> SUFFICES ASSUME TypeOK, LockHeld, MethodOfRequest, [Next]_vars
             PROVE  LockHeld' /\ MethodOfRequest'
  OBVIOUS
<1> USE FreeAssumption DEF TypeOK, Goto, Stages, Methods, LockHeld, MethodOfRequest
<1>1. ASSUME NEW w \in Workers, NEW r \in Requests, Receive(w, r)
      PROVE  LockHeld' /\ MethodOfRequest'
  <2>1. r.kind \in {"add", "remove", "list", "clear"}
    BY DEF Requests
  <2>2. r.kind = "add" => r \in [kind : {"add"}, entry : Entries]
    BY DEF Requests
  <2>3. /\ pc' = [pc EXCEPT ![w] = pc'[w]]
        /\ pc'[w] \in {"validating", "calling"}
        /\ method' = [method EXCEPT ![w] = method'[w]]
        /\ method'[w] = "add" => r.kind = "add"
        /\ pc'[w] = "validating" => method'[w] = "add"
    BY <1>1, <2>1 DEF Receive
  <2>4. LockHeld'
    BY <1>1, <2>3 DEF Receive
  <2>5. req' = [req EXCEPT ![w] = r]
    BY <1>1 DEF Receive
  <2>6. ASSUME NEW v \in Workers
        PROVE  /\ method'[v] = "add" => req'[v] \in [kind : {"add"}, entry : Entries]
               /\ pc'[v] \in {"validating", "inserting"} => method'[v] = "add"
    <3>1. CASE v = w
      BY <2>2, <2>3, <2>5, <3>1
    <3>2. CASE v # w
      BY <2>3, <2>5, <3>2
    <3> QED
      BY <3>1, <3>2
  <2>7. MethodOfRequest'
    BY <2>6, Zenon
  <2> QED
    BY <2>4, <2>7
<1>2. ASSUME NEW w \in Workers, Reject(w) PROVE LockHeld' /\ MethodOfRequest'
  BY <1>2 DEF Reject, Answer
<1>3. ASSUME NEW w \in Workers, Validated(w)
      PROVE  LockHeld' /\ MethodOfRequest'
  <2>1. LockHeld'
    BY <1>3 DEF Validated
  <2>2. MethodOfRequest'
    BY <1>3 DEF Validated
  <2> QED
    BY <2>1, <2>2
<1>4. ASSUME NEW w \in Workers, Lock(w) PROVE LockHeld' /\ MethodOfRequest'
  BY <1>4 DEF Lock
<1>5. ASSUME NEW w \in Workers, AddDuplicate(w)
      PROVE  LockHeld' /\ MethodOfRequest'
  BY <1>5 DEF AddDuplicate, Running, Unlock, Answer
<1>6. ASSUME NEW w \in Workers, AddScan(w) PROVE LockHeld' /\ MethodOfRequest'
  BY <1>6 DEF AddScan, Running
<1>7. ASSUME NEW w \in Workers, AddInsert(w)
      PROVE  LockHeld' /\ MethodOfRequest'
  BY <1>7 DEF AddInsert, Unlock
<1>8. ASSUME NEW w \in Workers, RemoveFound(w)
      PROVE  LockHeld' /\ MethodOfRequest'
  BY <1>8 DEF RemoveFound, Running, Unlock
<1>9. ASSUME NEW w \in Workers, RemoveAbsent(w)
      PROVE  LockHeld' /\ MethodOfRequest'
  BY <1>9 DEF RemoveAbsent, Running, Unlock, Answer
<1>10. ASSUME NEW w \in Workers, Clear(w) PROVE LockHeld' /\ MethodOfRequest'
  BY <1>10 DEF Clear, Running, Unlock, Answer
<1>11. ASSUME NEW w \in Workers, GetAll(w) PROVE LockHeld' /\ MethodOfRequest'
  BY <1>11 DEF GetAll, Running, Unlock, Answer
<1>12. ASSUME NEW w \in Workers, Size(w) PROVE LockHeld' /\ MethodOfRequest'
  BY <1>12 DEF Size, Running, Unlock, Answer
<1>13. ASSUME NEW w \in Workers, Respond(w) PROVE LockHeld' /\ MethodOfRequest'
  BY <1>13 DEF Respond
<1>14. CASE UNCHANGED vars
  BY <1>14 DEF vars
<1> QED
  BY <1>1, <1>2, <1>3, <1>4, <1>5, <1>6, <1>7, <1>8, <1>9, <1>10, <1>11,
     <1>12, <1>13, <1>14 DEF Next, Arrive, Body

-----------------------------------------------------------------------------
(* The pool                                                                *)

\* Only the worker that holds the mutex changes the pool.
LEMMA PoolChangedByHolder ==
  ASSUME TypeOK, LockHeld, [Next]_vars, entries' # entries
  PROVE  \E w \in Workers :
           /\ mutex = w
           /\ AddInsert(w) \/ RemoveFound(w) \/ Clear(w)
<1>1. PICK w \in Workers : AddInsert(w) \/ RemoveFound(w) \/ Clear(w)
  BY DEF Next, Arrive, Body, vars, Receive, Reject, Validated, Respond, Lock,
         AddDuplicate, AddScan, RemoveAbsent, GetAll, Size
<1>2. pc[w] \in {"locked", "inserting"}
  BY <1>1 DEF AddInsert, RemoveFound, Clear, Running
<1> QED
  BY <1>1, <1>2 DEF LockHeld

LEMMA ScanStep == IInv /\ [Next]_vars => ScanStillTrue'
<1> SUFFICES ASSUME IInv, [Next]_vars,
                    NEW v \in Workers, pc'[v] = "inserting"
             PROVE  ~ HasTxid(entries, req[v].entry.txid)'
  BY DEF ScanStillTrue
<1> USE DEF IInv, TypeOK
<1>1. CASE pc[v] = "inserting"
  <2>1. req'[v] = req[v]
    BY <1>1 DEF Next, Arrive, Body, vars, Receive, Reject, Validated, Respond,
         Lock, Running, Answer, AddDuplicate, AddScan, AddInsert, RemoveFound,
         RemoveAbsent, Clear, GetAll, Size
  <2>2. mutex = v
    BY <1>1 DEF LockHeld
  <2>3. entries' = entries
    <3>1. SUFFICES ASSUME entries' # entries PROVE FALSE
      OBVIOUS
    <3>2. AddInsert(v) \/ RemoveFound(v) \/ Clear(v)
      BY <2>2, <3>1, PoolChangedByHolder
    <3>3. pc'[v] # "inserting"
      BY <3>2 DEF AddInsert, RemoveFound, Clear, Goto, Answer
    <3> QED
      BY <3>3
  <2> QED
    BY <1>1, <2>1, <2>3 DEF ScanStillTrue, HasTxid
<1>2. CASE pc[v] # "inserting"
  <2>1. AddScan(v)
    BY <1>2 DEF Next, Arrive, Body, vars, Receive, Reject, Validated, Respond,
         Lock, Running, Goto, Answer, AddDuplicate, AddScan, AddInsert,
         RemoveFound, RemoveAbsent, Clear, GetAll, Size, Requests
  <2> QED
    BY <2>1 DEF AddScan, HasTxid
<1> QED
  BY <1>1, <1>2

\* UniqueTxids and SortedByFeeRate as predicates of a sequence.
Unique(s) == \A i, j \in DOMAIN s : s[i].txid = s[j].txid => i = j
Sorted(s) == \A i, j \in DOMAIN s : i < j => FeeRate(s[i]) >= FeeRate(s[j])

\* An insertion at the upper bound keeps the order of the rates.
LEMMA InsertSorted ==
  ASSUME NEW s \in Seq(Entries), NEW e \in Entries,
         NEW p \in 1 .. Len(s) + 1, UpperBound(s, e, p), Sorted(s)
  PROVE  Sorted(InsertAt(s, p, e))
<1> DEFINE r == InsertAt(s, p, e)
<1>1. /\ Len(s) \in Nat
      /\ \A i \in 1 .. Len(s) : s[i] \in MempoolEntryType /\ FeeRate(s[i]) \in Int
      /\ e \in MempoolEntryType /\ FeeRate(e) \in Int
  BY LenProperties, ElementOfSeq, EntriesAssumption, FeeRateType
<1>2. /\ r \in Seq(Entries) /\ Len(r) = Len(s) + 1
      /\ \A i \in 1 .. Len(s) + 1 :
           r[i] = IF i < p THEN s[i] ELSE IF i = p THEN e ELSE s[i - 1]
  <2>1. /\ InsertAt(s, p, e) \in Seq(Entries)
        /\ Len(InsertAt(s, p, e)) = Len(s) + 1
        /\ \A i \in 1 .. Len(s) + 1 :
             InsertAt(s, p, e)[i] =
               IF i < p THEN s[i] ELSE IF i = p THEN e ELSE s[i - 1]
    BY InsertAtProperties
  <2> QED
    BY <2>1
<1> HIDE DEF r
<1>3. \A i \in 1 .. p - 1 : FeeRate(s[i]) >= FeeRate(e)
  <2> TAKE i \in 1 .. p - 1
  <2>1. i \in 1 .. Len(s) /\ ~ Before(e, s[i])
    BY <1>1 DEF UpperBound
  <2> QED
    BY <1>1, <2>1, BeforeByRate
<1>4. \A i \in p .. Len(s) : FeeRate(e) >= FeeRate(s[i])
  <2> TAKE i \in p .. Len(s)
  <2>1. i \in 1 .. Len(s) /\ Before(e, s[i])
    BY <1>1 DEF UpperBound
  <2> QED
    BY <1>1, <2>1, BeforeByRate
<1>5. \A i, j \in 1 .. Len(s) : i < j => FeeRate(s[i]) >= FeeRate(s[j])
  BY <1>1 DEF Sorted
<1>6. ASSUME NEW i \in 1 .. Len(s) + 1, NEW j \in 1 .. Len(s) + 1, i < j
      PROVE  FeeRate(r[i]) >= FeeRate(r[j])
  <2>1. CASE j < p
    BY <1>1, <1>2, <1>5, <1>6, <2>1
  <2>2. CASE j = p
    BY <1>1, <1>2, <1>3, <1>6, <2>2
  <2>3. CASE j > p /\ i < p
    <3>1. r[i] = s[i] /\ r[j] = s[j - 1] /\ j - 1 \in 1 .. Len(s) /\ i < j - 1
      BY <1>1, <1>2, <2>3
    <3>2. i \in 1 .. Len(s)
      BY <1>1, <2>3
    <3> QED
      BY <1>5, <3>1, <3>2
  <2>4. CASE j > p /\ i = p
    <3>1. r[i] = e /\ r[j] = s[j - 1] /\ j - 1 \in p .. Len(s)
      BY <1>1, <1>2, <2>4
    <3> QED
      BY <1>4, <3>1
  <2>5. CASE j > p /\ i > p
    <3>1. /\ r[i] = s[i - 1] /\ r[j] = s[j - 1]
          /\ i - 1 \in 1 .. Len(s) /\ j - 1 \in 1 .. Len(s) /\ i - 1 < j - 1
      BY <1>1, <1>2, <1>6, <2>5
    <3> QED
      BY <1>5, <3>1
  <2> QED
    BY <1>1, <2>1, <2>2, <2>3, <2>4, <2>5
<1>7. Sorted(r)
  BY <1>2, <1>6, LenProperties DEF Sorted
<1> QED
  BY <1>7 DEF r

\* An insertion of a txid that is not there keeps txids unique.
LEMMA InsertUnique ==
  ASSUME NEW s \in Seq(Entries), NEW e \in Entries,
         NEW p \in 1 .. Len(s) + 1, ~ HasTxid(s, e.txid), Unique(s)
  PROVE  Unique(InsertAt(s, p, e))
<1> DEFINE r == InsertAt(s, p, e)
<1>1. Len(s) \in Nat /\ DOMAIN s = 1 .. Len(s)
  BY LenProperties
<1>2. /\ r \in Seq(Entries) /\ Len(r) = Len(s) + 1
      /\ \A i \in 1 .. Len(s) + 1 :
           r[i] = IF i < p THEN s[i] ELSE IF i = p THEN e ELSE s[i - 1]
  BY InsertAtProperties
<1>3. DOMAIN r = 1 .. Len(s) + 1
  BY <1>2, LenProperties
<1> HIDE DEF r
<1>4. \A i \in 1 .. Len(s) : s[i].txid # e.txid
  BY <1>1 DEF HasTxid
<1> DEFINE from(i) == IF i < p THEN i ELSE i - 1
<1>5. ASSUME NEW i \in 1 .. Len(s) + 1, i # p
      PROVE  from(i) \in 1 .. Len(s) /\ r[i] = s[from(i)]
  BY <1>1, <1>2, <1>5
<1>6. ASSUME NEW i \in 1 .. Len(s) + 1, NEW j \in 1 .. Len(s) + 1,
             r[i].txid = r[j].txid
      PROVE  i = j
  <2>1. r[p] = e
    BY <1>1, <1>2
  <2>2. CASE i = p \/ j = p
    BY <1>4, <1>5, <1>6, <2>1, <2>2
  <2>3. CASE i # p /\ j # p
    <3>1. /\ from(i) \in 1 .. Len(s) /\ r[i] = s[from(i)]
          /\ from(j) \in 1 .. Len(s) /\ r[j] = s[from(j)]
      BY <1>5, <2>3, Zenon
    <3>2. \A k, l \in 1 .. Len(s) : s[k].txid = s[l].txid => k = l
      BY <1>1 DEF Unique
    <3>3. s[from(i)].txid = s[from(j)].txid
      BY <1>6, <3>1
    <3>4. from(i) = from(j)
      BY <3>1, <3>2, <3>3, Zenon
    <3> QED
      BY <1>1, <2>3, <3>4
  <2> QED
    BY <2>2, <2>3
<1>7. Unique(r)
  BY <1>3, <1>6 DEF Unique
<1> QED
  BY <1>7 DEF r

\* A removal keeps both.
LEMMA RemoveKeeps ==
  ASSUME NEW s \in Seq(Entries), NEW p \in 1 .. Len(s), Unique(s), Sorted(s)
  PROVE  Unique(RemoveAt(s, p)) /\ Sorted(RemoveAt(s, p))
<1> DEFINE r == RemoveAt(s, p)
           from(i) == IF i < p THEN i ELSE i + 1
<1>1. Len(s) \in Nat /\ DOMAIN s = 1 .. Len(s)
  BY LenProperties
<1>2. /\ r \in Seq(Entries) /\ Len(r) = Len(s) - 1
      /\ \A i \in 1 .. Len(s) - 1 : r[i] = IF i < p THEN s[i] ELSE s[i + 1]
  BY RemoveAtProperties
<1>3. DOMAIN r = 1 .. Len(s) - 1
  BY <1>2, LenProperties
<1> HIDE DEF r
<1>4. \A i \in 1 .. Len(s) - 1 : from(i) \in 1 .. Len(s) /\ r[i] = s[from(i)]
  BY <1>1, <1>2
<1>5. \A i, j \in 1 .. Len(s) - 1 : /\ from(i) = from(j) => i = j
                                    /\ i < j => from(i) < from(j)
  BY <1>1
<1> HIDE DEF from
<1>6. Unique(r)
  BY <1>1, <1>3, <1>4, <1>5 DEF Unique
<1>7. Sorted(r)
  BY <1>1, <1>3, <1>4, <1>5 DEF Sorted
<1> QED
  BY <1>6, <1>7 DEF r

LEMMA PoolStep ==
  IInv /\ [Next]_vars => UniqueTxids' /\ SortedByFeeRate'
<1> SUFFICES ASSUME IInv, [Next]_vars PROVE UniqueTxids' /\ SortedByFeeRate'
  OBVIOUS
<1> USE DEF IInv
<1>1. entries \in Seq(Entries) /\ Unique(entries) /\ Sorted(entries)
  BY DEF TypeOK, UniqueTxids, SortedByFeeRate, Unique, Sorted
<1>2. Unique(entries') /\ Sorted(entries')
  <2>1. CASE entries' = entries
    BY <1>1, <2>1
  <2>2. CASE entries' # entries
    <3>1. PICK w \in Workers : AddInsert(w) \/ RemoveFound(w) \/ Clear(w)
      BY <2>2, PoolChangedByHolder
    <3>2. CASE AddInsert(w)
      <4>1. req[w].entry \in Entries /\ ~ HasTxid(entries, req[w].entry.txid)
        BY <3>2 DEF AddInsert, MethodOfRequest, ScanStillTrue
      <4>2. PICK p \in 1 .. Len(entries) + 1 :
              /\ UpperBound(entries, req[w].entry, p)
              /\ entries' = InsertAt(entries, p, req[w].entry)
        BY <3>2 DEF AddInsert
      <4> QED
        BY <1>1, <4>1, <4>2, InsertSorted, InsertUnique
    <3>3. CASE RemoveFound(w)
      <4>1. PICK p \in DOMAIN entries : entries' = RemoveAt(entries, p)
        BY <3>3 DEF RemoveFound
      <4>2. p \in 1 .. Len(entries)
        BY <1>1, LenProperties
      <4> QED
        BY <1>1, <4>1, <4>2, RemoveKeeps
    <3>4. CASE Clear(w)
      BY <3>4 DEF Clear, Unique, Sorted
    <3> QED
      BY <3>1, <3>2, <3>3, <3>4
  <2> QED
    BY <2>1, <2>2
<1> QED
  BY <1>2 DEF UniqueTxids, SortedByFeeRate, Unique, Sorted

-----------------------------------------------------------------------------
(* The theorems                                                            *)

\* The inductive invariant, in its three facts.
LEMMA IInvInit == Init => IInv
<1> SUFFICES ASSUME Init PROVE IInv
  OBVIOUS
<1>1. TypeOK
  BY TypeInit
<1>2. LockHeld /\ MethodOfRequest /\ ScanStillTrue
  BY FreeAssumption DEF Init, LockHeld, MethodOfRequest, ScanStillTrue
<1>3. UniqueTxids /\ SortedByFeeRate
  BY DEF Init, UniqueTxids, SortedByFeeRate
<1> QED
  BY <1>1, <1>2, <1>3 DEF IInv

LEMMA IInvStep == IInv /\ [Next]_vars => IInv'
  BY TypeStep, ControlStep, ScanStep, PoolStep DEF IInv

\* The state of the routes and of the pool is always well formed, the mutex
\* is held by the one worker inside a method, and a worker about to insert
\* knows that its txid is still absent.
THEOREM InductiveInvariant == Spec => []IInv
<1>1. Init => IInv
  BY IInvInit
<1>2. IInv /\ [Next]_vars => IInv'
  BY IInvStep
<1> QED
  BY <1>1, <1>2, PTL DEF Spec

\* Each variable of the mempool and of its handlers always has its type: the
\* pool is a sequence of offered entries, whatever the handlers do.
THEOREM TypeCorrect == Spec => []TypeOK
<1>1. IInv => TypeOK
  BY DEF IInv
<1> QED
  BY <1>1, InductiveInvariant, PTL

\* No schedule of any number of concurrent adds, removals and clears puts one
\* transaction in the private mempool twice.
THEOREM NoDuplicateTransaction == Spec => []UniqueTxids
<1>1. IInv => UniqueTxids
  BY DEF IInv
<1> QED
  BY <1>1, InductiveInvariant, PTL

\* GET /mempool and the block builder always meet the transactions in
\* descending order of fee rate.
THEOREM AlwaysSorted == Spec => []SortedByFeeRate
<1>1. IInv => SortedByFeeRate
  BY DEF IInv
<1> QED
  BY <1>1, InductiveInvariant, PTL

-----------------------------------------------------------------------------
(* The sequence and the set                                                *)

\* What ToSet says of a sequence.
LEMMA InToSet ==
  ASSUME NEW S, NEW s \in Seq(S)
  PROVE  /\ \A x \in ToSet(s) : \E i \in 1 .. Len(s) : s[i] = x
         /\ \A i \in 1 .. Len(s) : s[i] \in ToSet(s)
         /\ DOMAIN s = 1 .. Len(s) /\ Len(s) \in Nat
  BY LenProperties DEF ToSet

\* An insertion adds one element.
LEMMA InsertedSet ==
  ASSUME NEW s \in Seq(Entries), NEW e \in Entries, NEW p \in 1 .. Len(s) + 1
  PROVE  ToSet(InsertAt(s, p, e)) = ToSet(s) \cup {e}
<1> DEFINE r == InsertAt(s, p, e)
<1>1. /\ r \in Seq(Entries) /\ Len(r) = Len(s) + 1
      /\ \A i \in 1 .. Len(s) + 1 :
           r[i] = IF i < p THEN s[i] ELSE IF i = p THEN e ELSE s[i - 1]
  <2>1. /\ InsertAt(s, p, e) \in Seq(Entries)
        /\ Len(InsertAt(s, p, e)) = Len(s) + 1
        /\ \A i \in 1 .. Len(s) + 1 :
             InsertAt(s, p, e)[i] =
               IF i < p THEN s[i] ELSE IF i = p THEN e ELSE s[i - 1]
    BY InsertAtProperties
  <2> QED
    BY <2>1
<1> HIDE DEF r
<1>2. /\ Len(s) \in Nat
      /\ \A x \in ToSet(s) : \E i \in 1 .. Len(s) : s[i] = x
      /\ \A i \in 1 .. Len(s) : s[i] \in ToSet(s)
      /\ \A x \in ToSet(r) : \E i \in 1 .. Len(s) + 1 : r[i] = x
      /\ \A i \in 1 .. Len(s) + 1 : r[i] \in ToSet(r)
  BY <1>1, InToSet
<1>3. ASSUME NEW x \in ToSet(r) PROVE x \in ToSet(s) \cup {e}
  <2>1. PICK i \in 1 .. Len(s) + 1 : r[i] = x
    BY <1>2
  <2>2. r[i] = IF i < p THEN s[i] ELSE IF i = p THEN e ELSE s[i - 1]
    BY <1>1
  <2>3. i < p => i \in 1 .. Len(s)
    BY <1>2
  <2>4. i > p => i - 1 \in 1 .. Len(s)
    BY <1>2
  <2>5. i < p \/ i = p \/ i > p
    BY <1>2
  <2> QED
    BY <1>2, <2>1, <2>2, <2>3, <2>4, <2>5
<1>4. ASSUME NEW x \in ToSet(s) PROVE x \in ToSet(r)
  <2>1. PICK i \in 1 .. Len(s) : s[i] = x
    BY <1>2
  <2>2. CASE i < p
    BY <1>1, <1>2, <2>1, <2>2
  <2>3. CASE i >= p
    <3>1. i + 1 \in 1 .. Len(s) + 1 /\ r[i + 1] = x
      BY <1>1, <1>2, <2>1, <2>3
    <3> QED
      BY <1>2, <3>1
  <2> QED
    BY <1>2, <2>2, <2>3
<1>5. e \in ToSet(r)
  BY <1>1, <1>2
<1> QED
  BY <1>3, <1>4, <1>5 DEF r

\* The removal of an entry removes every entry of its txid, since there is one.
LEMMA RemovedSet ==
  ASSUME NEW s \in Seq(Entries), Unique(s), NEW p \in 1 .. Len(s)
  PROVE  ToSet(RemoveAt(s, p)) = {e \in ToSet(s) : e.txid # s[p].txid}
<1> DEFINE r == RemoveAt(s, p)
<1>1. /\ r \in Seq(Entries) /\ Len(r) = Len(s) - 1
      /\ \A i \in 1 .. Len(s) - 1 : r[i] = IF i < p THEN s[i] ELSE s[i + 1]
  BY RemoveAtProperties
<1> HIDE DEF r
<1>2. /\ Len(s) \in Nat
      /\ \A x \in ToSet(s) : \E i \in 1 .. Len(s) : s[i] = x
      /\ \A i \in 1 .. Len(s) : s[i] \in ToSet(s)
      /\ \A x \in ToSet(r) : \E i \in 1 .. Len(s) - 1 : r[i] = x
      /\ \A i \in 1 .. Len(s) - 1 : r[i] \in ToSet(r)
      /\ \A i, j \in 1 .. Len(s) : s[i].txid = s[j].txid => i = j
  <2>1. /\ Len(s) \in Nat /\ DOMAIN s = 1 .. Len(s)
        /\ \A x \in ToSet(s) : \E i \in 1 .. Len(s) : s[i] = x
        /\ \A i \in 1 .. Len(s) : s[i] \in ToSet(s)
    BY InToSet
  <2>2. /\ \A x \in ToSet(r) : \E i \in 1 .. Len(r) : r[i] = x
        /\ \A i \in 1 .. Len(r) : r[i] \in ToSet(r)
    BY <1>1, InToSet
  <2>3. \A i, j \in 1 .. Len(s) : s[i].txid = s[j].txid => i = j
    BY <2>1 DEF Unique
  <2> QED
    BY <1>1, <2>1, <2>2, <2>3
<1>3. ASSUME NEW x \in ToSet(r) PROVE x \in ToSet(s) /\ x.txid # s[p].txid
  <2>1. PICK i \in 1 .. Len(s) - 1 : r[i] = x
    BY <1>2
  <2>2. \E j \in 1 .. Len(s) : j # p /\ s[j] = x
    <3>1. CASE i < p
      BY <1>1, <1>2, <2>1, <3>1
    <3>2. CASE i >= p
      <4>1. i + 1 \in 1 .. Len(s) /\ i + 1 # p /\ s[i + 1] = x
        BY <1>1, <1>2, <2>1, <3>2
      <4> QED
        BY <4>1
    <3> QED
      BY <1>2, <3>1, <3>2
  <2> QED
    BY <1>2, <2>2
<1>4. ASSUME NEW x \in ToSet(s), x.txid # s[p].txid PROVE x \in ToSet(r)
  <2>1. PICK i \in 1 .. Len(s) : s[i] = x
    BY <1>2
  <2>2. CASE i < p
    <3>1. i \in 1 .. Len(s) - 1 /\ r[i] = x
      BY <1>1, <1>2, <2>1, <2>2
    <3> QED
      BY <1>2, <3>1
  <2>3. CASE i > p
    <3>1. i - 1 \in 1 .. Len(s) - 1 /\ r[i - 1] = x
      BY <1>1, <1>2, <2>1, <2>3
    <3> QED
      BY <1>2, <3>1
  <2> QED
    BY <1>2, <1>4, <2>1, <2>2, <2>3
<1> QED
  BY <1>3, <1>4 DEF r

\* Unique txids make the sequence a listing of its set without repetition.
LEMMA SequenceOfSet ==
  ASSUME NEW s \in Seq(Entries), Unique(s)
  PROVE  Cardinality(ToSet(s)) = Len(s) /\ s \in SetToSeqs(ToSet(s))
<1>1. /\ Len(s) \in Nat /\ DOMAIN s = 1 .. Len(s)
      /\ \A x \in ToSet(s) : \E i \in 1 .. Len(s) : s[i] = x
      /\ \A i \in 1 .. Len(s) : s[i] \in ToSet(s)
  BY InToSet
<1>2. \A i, j \in 1 .. Len(s) : s[i] = s[j] => i = j
  BY <1>1 DEF Unique
<1>3. s \in [1 .. Len(s) -> ToSet(s)]
  BY <1>1
<1>4. s \in Bijection(1 .. Len(s), ToSet(s))
  BY <1>1, <1>2, <1>3, Fun_IsBij
<1>5. ExistsBijection(1 .. Len(s), ToSet(s))
  BY <1>4 DEF ExistsBijection
<1>6. Cardinality(ToSet(s)) = Len(s)
  BY <1>1, <1>5, FS_CountingElements
<1>7. s \in SetToSeqs(ToSet(s))
  BY <1>2, <1>3, <1>6 DEF SetToSeqs
<1> QED
  BY <1>6, <1>7

-----------------------------------------------------------------------------
(* What a handler is doing, for a client                                   *)

\* A handler inside a method serves the request of that method.
KindOfMethod ==
  \A w \in Workers :
    /\ method[w] = "remove" => req[w].kind = "remove"
    /\ method[w] = "get_all" => req[w].kind = "list"
    /\ method[w] = "clear" => req[w].kind = "clear"

LEMMA KindStep == TypeOK /\ KindOfMethod /\ [Next]_vars => KindOfMethod'
<1> SUFFICES ASSUME TypeOK, KindOfMethod, [Next]_vars, NEW v \in Workers
             PROVE  /\ method'[v] = "remove" => req'[v].kind = "remove"
                    /\ method'[v] = "get_all" => req'[v].kind = "list"
                    /\ method'[v] = "clear" => req'[v].kind = "clear"
  BY DEF KindOfMethod
<1> USE DEF TypeOK, Goto, KindOfMethod
<1>1. ASSUME NEW w \in Workers, NEW r \in Requests, Receive(w, r)
      PROVE  /\ method'[v] = "remove" => req'[v].kind = "remove"
             /\ method'[v] = "get_all" => req'[v].kind = "list"
             /\ method'[v] = "clear" => req'[v].kind = "clear"
  <2>1. r.kind \in {"add", "remove", "list", "clear"}
    BY DEF Requests
  <2>2. CASE v = w
    BY <1>1, <2>1, <2>2 DEF Receive
  <2>3. CASE v # w
    BY <1>1, <2>1, <2>3 DEF Receive
  <2> QED
    BY <2>2, <2>3
<1>2. ASSUME NEW w \in Workers,
             \/ Reject(w) \/ Validated(w) \/ Lock(w) \/ Respond(w)
             \/ AddDuplicate(w) \/ AddScan(w) \/ AddInsert(w)
      PROVE  /\ method'[v] = "remove" => req'[v].kind = "remove"
             /\ method'[v] = "get_all" => req'[v].kind = "list"
             /\ method'[v] = "clear" => req'[v].kind = "clear"
  BY <1>2 DEF Reject, Validated, Lock, Respond, AddDuplicate, AddScan, AddInsert,
       Answer
<1>3. ASSUME NEW w \in Workers,
             \/ RemoveFound(w) \/ RemoveAbsent(w) \/ Clear(w) \/ GetAll(w)
             \/ Size(w)
      PROVE  /\ method'[v] = "remove" => req'[v].kind = "remove"
             /\ method'[v] = "get_all" => req'[v].kind = "list"
             /\ method'[v] = "clear" => req'[v].kind = "clear"
  BY <1>3 DEF RemoveFound, RemoveAbsent, Clear, GetAll, Size, Answer
<1>4. CASE UNCHANGED vars
  BY <1>4 DEF vars
<1> QED
  BY <1>1, <1>2, <1>3, <1>4 DEF Next, Arrive, Body

\* A step of one handler moves its own stage only.
LEMMA StageStep ==
  ASSUME TypeOK, NEW w \in Workers, NEW p, NEW m,
         pc' = [pc EXCEPT ![w] = p], method' = [method EXCEPT ![w] = m]
  PROVE  PromiseStage' = [PromiseStage EXCEPT ![w] = StageOf(p, m)]
<1>1. ASSUME NEW v \in Workers
      PROVE  PromiseStage'[v] = IF v = w THEN StageOf(p, m) ELSE PromiseStage[v]
  <2>1. PromiseStage'[v] = StageOf(pc'[v], method'[v])
    BY DEF PromiseStage
  <2>2. PromiseStage[v] = StageOf(pc[v], method[v])
    BY DEF PromiseStage
  <2>3. v = w => pc'[v] = p /\ method'[v] = m
    BY DEF TypeOK
  <2>4. v # w => pc'[v] = pc[v] /\ method'[v] = method[v]
    BY DEF TypeOK
  <2> QED
    BY <2>1, <2>2, <2>3, <2>4
<1>2. /\ PromiseStage' = [v \in Workers |-> PromiseStage'[v]]
      /\ PromiseStage = [v \in Workers |-> PromiseStage[v]]
  BY DEF PromiseStage
<1> HIDE DEF PromiseStage
<1> QED
  BY <1>1, <1>2

\* Where the stage does not change, nothing changes.
LEMMA StageSame ==
  ASSUME TypeOK, NEW w \in Workers, NEW p, NEW m,
         pc' = [pc EXCEPT ![w] = p], method' = [method EXCEPT ![w] = m],
         StageOf(p, m) = StageOf(pc[w], method[w])
  PROVE  PromiseStage' = PromiseStage
<1>1. PromiseStage' = [PromiseStage EXCEPT ![w] = StageOf(p, m)]
  BY StageStep
<1>2. PromiseStage = [v \in Workers |-> PromiseStage[v]]
  BY DEF PromiseStage
<1>3. PromiseStage[w] = StageOf(p, m)
  BY DEF PromiseStage
<1> QED
  BY <1>1, <1>2, <1>3
-----------------------------------------------------------------------------
(* The simulation                                                          *)

PromiseVars == <<Pool, PromiseStage, req, reply>>

\* The operators of the promise are those of the routes.
LEMMA SameOperators ==
  ASSUME NEW S
  PROVE  /\ Promise!Cardinality(S) = Cardinality(S)
         /\ Promise!SetToSeqs(S) = SetToSeqs(S)
         /\ \A e : Promise!FeeRate(e) = FeeRate(e)
<1>1. Promise!Cardinality(S) = Cardinality(S)
  BY DEF Promise!Cardinality, Cardinality
<1>2. Promise!SetToSeqs(S) = SetToSeqs(S)
  BY <1>1 DEF Promise!SetToSeqs, SetToSeqs
<1>3. \A e : Promise!FeeRate(e) = FeeRate(e)
  BY DEF Promise!FeeRate, FeeRate
<1> QED
  BY <1>1, <1>2, <1>3

\* An answer is ready.
LEMMA AnswerStep ==
  ASSUME TypeOK, NEW w \in Workers, NEW a, Answer(w, a)
  PROVE  PromiseStage' = [PromiseStage EXCEPT ![w] = "answered"]
<1>1. /\ pc' = [pc EXCEPT ![w] = "replying"]
      /\ method' = [method EXCEPT ![w] = "none"]
  BY DEF Answer, Goto
<1>2. PromiseStage' = [PromiseStage EXCEPT ![w] = StageOf("replying", "none")]
  BY <1>1, StageStep
<1> QED
  BY <1>2 DEF StageOf

\* The effect has taken place, and the handler goes on to size().
LEMMA AppliedStep ==
  ASSUME TypeOK, NEW w \in Workers, Goto(w, "calling", "size")
  PROVE  PromiseStage' = [PromiseStage EXCEPT ![w] = "applied"]
<1>1. PromiseStage' = [PromiseStage EXCEPT ![w] = StageOf("calling", "size")]
  BY StageStep DEF Goto
<1> QED
  BY <1>1 DEF StageOf

\* The arrival of a request, its refusal before the pool, and its answer.
LEMMA OutsideSteps ==
  ASSUME IInv, NEW w \in Workers,
         \/ \E r \in Requests : Receive(w, r)
         \/ Reject(w) \/ Respond(w)
  PROVE  Promise!Next
<1> USE DEF Goto
<1>0. TypeOK
  BY DEF IInv
<1>1. CASE \E r \in Requests : Receive(w, r)
  <2>1. PICK r \in Requests : Receive(w, r)
    BY <1>1
  <2>2. r.kind \in {"add", "remove", "list", "clear"}
    BY DEF Requests
  <2>3. PICK p \in {"validating", "calling"}, m \in Methods \ {"size"} :
          pc' = [pc EXCEPT ![w] = p] /\ method' = [method EXCEPT ![w] = m]
    BY <2>1, <2>2 DEF Receive, Methods
  <2>4. PromiseStage' = [PromiseStage EXCEPT ![w] = "invoked"]
    <3>1. PromiseStage' = [PromiseStage EXCEPT ![w] = StageOf(p, m)]
      BY <1>0, <2>3, StageStep
    <3> QED
      BY <3>1 DEF StageOf
  <2>5. PromiseStage[w] = "idle"
    BY <2>1 DEF Receive, PromiseStage, StageOf
  <2>6. Promise!Invoke(w, r)
    BY <2>1, <2>4, <2>5 DEF Promise!Invoke, Receive, Pool
  <2>7. r \in Promise!Requests
    BY DEF Requests, Promise!Requests
  <2> QED
    BY <2>6, <2>7 DEF Promise!Next
<1>2. CASE Reject(w)
  <2>1. PromiseStage' = [PromiseStage EXCEPT ![w] = "answered"]
    BY <1>0, <1>2, AnswerStep DEF Reject
  <2>2. PromiseStage[w] = "invoked" /\ req[w].kind = "add"
    BY <1>2 DEF IInv, MethodOfRequest, Reject, PromiseStage, StageOf
  <2>3. Promise!Invalid(w)
    BY <1>2, <2>1, <2>2
       DEF Reject, Answer, Pool, Promise!Invalid, Promise!Serving, Promise!Answer
  <2> QED
    BY <2>3 DEF Promise!Next
<1>3. CASE Respond(w)
  <2>1. PromiseStage' = [PromiseStage EXCEPT ![w] = "idle"]
    <3>1. /\ pc' = [pc EXCEPT ![w] = "idle"]
          /\ method' = [method EXCEPT ![w] = "none"]
      BY <1>3 DEF Respond
    <3>2. PromiseStage' = [PromiseStage EXCEPT ![w] = StageOf("idle", "none")]
      BY <1>0, <3>1, StageStep
    <3> QED
      BY <3>2 DEF StageOf
  <2>2. PromiseStage[w] = "answered"
    BY <1>3 DEF Respond, PromiseStage, StageOf
  <2>3. Promise!Return(w)
    BY <1>3, <2>1, <2>2
       DEF Respond, Pool, NoRequest, NoReply, Promise!Return, Promise!NoRequest,
           Promise!NoReply
  <2> QED
    BY <2>3 DEF Promise!Next
<1> QED
  BY <1>1, <1>2, <1>3

\* The steps a client cannot see.
LEMMA SilentSteps ==
  ASSUME IInv, NEW w \in Workers, Validated(w) \/ Lock(w) \/ AddScan(w)
  PROVE  UNCHANGED PromiseVars
<1> USE DEF Goto
<1>0. TypeOK
  BY DEF IInv
<1>1. CASE Validated(w)
  <2>1. StageOf("calling", "add") = StageOf(pc[w], method[w])
    BY <1>1 DEF IInv, MethodOfRequest, Validated, StageOf
  <2>2. PromiseStage' = PromiseStage
    BY <1>0, <1>1, <2>1, StageSame DEF Validated
  <2> QED
    BY <1>1, <2>2 DEF Validated, PromiseVars, Pool
<1>2. CASE Lock(w) \/ AddScan(w)
  <2>1. PICK p \in {"locked", "inserting"} : pc' = [pc EXCEPT ![w] = p]
    BY <1>2 DEF Lock, AddScan
  <2>2. method' = [method EXCEPT ![w] = method[w]]
    BY <1>0, <1>2 DEF Lock, AddScan, TypeOK
  <2>3. pc[w] \in {"calling", "locked"}
    BY <1>2 DEF Lock, AddScan, Running
  <2>4. StageOf(p, method[w]) = StageOf(pc[w], method[w])
    BY <2>3 DEF StageOf
  <2>5. PromiseStage' = PromiseStage
    BY <1>0, <2>1, <2>2, <2>4, StageSame
  <2> QED
    BY <1>2, <2>5 DEF Lock, AddScan, PromiseVars, Pool
<1> QED
  BY <1>1, <1>2
\* add().
LEMMA AddSteps ==
  ASSUME IInv, NEW w \in Workers, AddDuplicate(w) \/ AddInsert(w)
  PROVE  Promise!Next
<1>0. TypeOK /\ entries \in Seq(Entries) /\ Unique(entries)
  BY DEF IInv, TypeOK, UniqueTxids, Unique
<1>1. /\ \A e \in Pool : \E i \in DOMAIN entries : entries[i] = e
      /\ \A i \in DOMAIN entries : entries[i] \in Pool
  BY <1>0, InToSet DEF Pool
<1>2. CASE AddDuplicate(w)
  <2>1. PromiseStage' = [PromiseStage EXCEPT ![w] = "answered"]
    BY <1>0, <1>2, AnswerStep DEF AddDuplicate
  <2>2. pc[w] = "locked" /\ method[w] = "add"
    BY <1>2 DEF AddDuplicate, Running
  <2>3. PromiseStage[w] = "invoked" /\ req[w].kind = "add"
    BY <2>2 DEF IInv, MethodOfRequest, PromiseStage, StageOf
  <2>4. \E e \in Pool : e.txid = req[w].entry.txid
    BY <1>1, <1>2 DEF AddDuplicate, HasTxid
  <2>5. Promise!Duplicate(w)
    BY <1>2, <2>1, <2>3, <2>4
       DEF AddDuplicate, Answer, Pool, Promise!Duplicate, Promise!Serving,
           Promise!Answer
  <2> QED
    BY <2>5 DEF Promise!Next
<1>3. CASE AddInsert(w)
  <2>1. PromiseStage' = [PromiseStage EXCEPT ![w] = "applied"]
    BY <1>0, <1>3, AppliedStep DEF AddInsert
  <2>2. pc[w] = "inserting" /\ method[w] = "add"
    BY <1>3 DEF AddInsert, IInv, MethodOfRequest
  <2>3. /\ PromiseStage[w] = "invoked" /\ req[w].kind = "add"
        /\ req[w].entry \in Entries
    BY <2>2 DEF IInv, MethodOfRequest, PromiseStage, StageOf
  <2>4. \A e \in Pool : e.txid # req[w].entry.txid
    BY <1>1, <2>2 DEF IInv, ScanStillTrue, HasTxid
  <2>5. Pool' = Pool \cup {req[w].entry}
    <3>1. PICK p \in 1 .. Len(entries) + 1 :
            entries' = InsertAt(entries, p, req[w].entry)
      BY <1>3 DEF AddInsert
    <3>2. ToSet(InsertAt(entries, p, req[w].entry))
            = ToSet(entries) \cup {req[w].entry}
      BY <1>0, <2>3, InsertedSet
    <3> QED
      BY <3>1, <3>2 DEF Pool
  <2>6. req' = req /\ reply' = reply
    BY <1>3 DEF AddInsert
  <2>7. Promise!Add(w)
    BY <2>1, <2>3, <2>4, <2>5, <2>6
       DEF Promise!Add, Promise!Serving, Promise!Applied
  <2> QED
    BY <2>7 DEF Promise!Next
<1> QED
  BY <1>2, <1>3

\* remove().
LEMMA RemoveSteps ==
  ASSUME IInv, KindOfMethod, NEW w \in Workers, RemoveFound(w) \/ RemoveAbsent(w)
  PROVE  Promise!Next
<1>0. TypeOK /\ entries \in Seq(Entries) /\ Unique(entries)
  BY DEF IInv, TypeOK, UniqueTxids, Unique
<1>1. /\ \A e \in Pool : \E i \in DOMAIN entries : entries[i] = e
      /\ \A i \in DOMAIN entries : entries[i] \in Pool
      /\ DOMAIN entries = 1 .. Len(entries)
  BY <1>0, InToSet DEF Pool
<1>2. pc[w] = "locked" /\ method[w] = "remove"
  BY DEF RemoveFound, RemoveAbsent, Running
<1>3. PromiseStage[w] = "invoked" /\ req[w].kind = "remove"
  BY <1>2 DEF KindOfMethod, PromiseStage, StageOf
<1>4. CASE RemoveFound(w)
  <2>1. PromiseStage' = [PromiseStage EXCEPT ![w] = "applied"]
    BY <1>0, <1>4, AppliedStep DEF RemoveFound
  <2>2. PICK p \in 1 .. Len(entries) :
          entries[p].txid = req[w].txid /\ entries' = RemoveAt(entries, p)
    BY <1>1, <1>4 DEF RemoveFound
  <2>3. ToSet(RemoveAt(entries, p))
          = {e \in ToSet(entries) : e.txid # entries[p].txid}
    BY <1>0, RemovedSet
  <2>4. Pool' = {e \in Pool : e.txid # req[w].txid}
    BY <2>2, <2>3 DEF Pool
  <2>5. \E e \in Pool : e.txid = req[w].txid
    BY <1>1, <2>2
  <2>6. req' = req /\ reply' = reply
    BY <1>4 DEF RemoveFound
  <2>7. Promise!RemoveFound(w)
    BY <1>3, <2>1, <2>4, <2>5, <2>6
       DEF Promise!RemoveFound, Promise!Serving, Promise!Applied
  <2> QED
    BY <2>7 DEF Promise!Next
<1>5. CASE RemoveAbsent(w)
  <2>1. PromiseStage' = [PromiseStage EXCEPT ![w] = "answered"]
    BY <1>0, <1>5, AnswerStep DEF RemoveAbsent
  <2>2. \A e \in Pool : e.txid # req[w].txid
    BY <1>1, <1>5 DEF RemoveAbsent, HasTxid
  <2>3. Promise!Missing(w)
    BY <1>3, <1>5, <2>1, <2>2
       DEF RemoveAbsent, Answer, Pool, Promise!Missing, Promise!Serving,
           Promise!Answer
  <2> QED
    BY <2>3 DEF Promise!Next
<1> QED
  BY <1>4, <1>5

\* clear(), get_all() and size().
LEMMA OtherSteps ==
  ASSUME IInv, KindOfMethod, NEW w \in Workers, Clear(w) \/ GetAll(w) \/ Size(w)
  PROVE  Promise!Next
<1>0. TypeOK /\ entries \in Seq(Entries) /\ Unique(entries)
  BY DEF IInv, TypeOK, UniqueTxids, Unique
<1>1. Cardinality(Pool) = Len(entries) /\ entries \in SetToSeqs(Pool)
  BY <1>0, SequenceOfSet DEF Pool
<1>2. CASE Clear(w)
  <2>1. PromiseStage' = [PromiseStage EXCEPT ![w] = "answered"]
    BY <1>0, <1>2, AnswerStep DEF Clear
  <2>2. PromiseStage[w] = "invoked" /\ req[w].kind = "clear"
    BY <1>2 DEF Clear, Running, KindOfMethod, PromiseStage, StageOf
  <2>3. Pool' = {}
    BY <1>2 DEF Clear, Pool, ToSet
  <2>4. Promise!Clear(w)
    BY <1>2, <2>1, <2>2, <2>3
       DEF Clear, Answer, Promise!Clear, Promise!Serving, Promise!Answer
  <2> QED
    BY <2>4 DEF Promise!Next
<1>3. CASE GetAll(w)
  <2>1. PromiseStage' = [PromiseStage EXCEPT ![w] = "answered"]
    BY <1>0, <1>3, AnswerStep DEF GetAll
  <2>2. PromiseStage[w] = "invoked" /\ req[w].kind = "list"
    BY <1>3 DEF GetAll, Running, KindOfMethod, PromiseStage, StageOf
  <2>3. entries \in Promise!Listings(Pool)
    <3>1. /\ entries \in Promise!SetToSeqs(Pool)
          /\ \A e : Promise!FeeRate(e) = FeeRate(e)
      BY <1>1, SameOperators
    <3> QED
      BY <3>1 DEF IInv, SortedByFeeRate, Promise!Listings
  <2>4. Promise!List(w)
    BY <1>3, <2>1, <2>2, <2>3
       DEF GetAll, Answer, Pool, Promise!List, Promise!Serving, Promise!Answer
  <2> QED
    BY <2>4 DEF Promise!Next
<1>4. CASE Size(w)
  <2>1. PromiseStage' = [PromiseStage EXCEPT ![w] = "answered"]
    BY <1>0, <1>4, AnswerStep DEF Size
  <2>2. PromiseStage[w] = "applied"
    BY <1>4 DEF Size, Running, PromiseStage, StageOf
  <2>3. Promise!Cardinality(Pool) = Len(entries)
    BY <1>1, SameOperators
  <2>4. Promise!Measure(w)
    BY <1>4, <2>1, <2>2, <2>3
       DEF Size, Answer, Pool, Promise!Measure, Promise!Answer
  <2> QED
    BY <2>4 DEF Promise!Next
<1> QED
  BY <1>2, <1>3, <1>4

\* Every step of the routes is a step of the promise, or none.
LEMMA PromiseStep ==
  ASSUME IInv, KindOfMethod, [Next]_vars
  PROVE  [Promise!Next]_PromiseVars
<1>1. CASE UNCHANGED vars
  BY <1>1 DEF vars, PromiseVars, PromiseStage, Pool
<1>2. CASE Arrive
  BY <1>2, OutsideSteps DEF Arrive
<1>3. ASSUME NEW w \in Workers, Reject(w) \/ Respond(w)
      PROVE  Promise!Next
  BY <1>3, OutsideSteps
<1>4. ASSUME NEW w \in Workers, Validated(w) \/ Lock(w) \/ AddScan(w)
      PROVE  UNCHANGED PromiseVars
  BY <1>4, SilentSteps
<1>5. ASSUME NEW w \in Workers,
             \/ AddDuplicate(w) \/ AddInsert(w) \/ RemoveFound(w)
             \/ RemoveAbsent(w) \/ Clear(w) \/ GetAll(w) \/ Size(w)
      PROVE  Promise!Next
  BY <1>5, AddSteps, RemoveSteps, OtherSteps
<1> QED
  BY <1>1, <1>2, <1>3, <1>4, <1>5 DEF Next, Body

\* The four routes over the locked multiset, whatever handlers run at the same
\* time, are to their clients a set to which each request is applied at one
\* instant, listed whole and in order.
THEOREM ImplementsPromise == Spec => PromiseKept
<1>1. Init => Promise!Init
  <2> SUFFICES ASSUME Init PROVE Promise!Init
    OBVIOUS
  <2>1. Pool = {}
    BY DEF Init, Pool, ToSet
  <2>2. PromiseStage = [w \in Workers |-> "idle"]
    BY DEF Init, PromiseStage, StageOf
  <2> QED
    BY <2>1, <2>2
       DEF Init, NoRequest, NoReply, Promise!Init, Promise!NoRequest,
           Promise!NoReply
<1>2. Init => KindOfMethod
  BY DEF Init, KindOfMethod
<1>3. IInv /\ KindOfMethod /\ [Next]_vars => KindOfMethod'
  BY KindStep DEF IInv
<1>4. IInv /\ KindOfMethod /\ [Next]_vars => [Promise!Next]_PromiseVars
  BY PromiseStep
<1>5. PromiseVars = Promise!vars
  BY DEF PromiseVars, Promise!vars
<1>6. [Promise!Next]_PromiseVars => [Promise!Next]_(Promise!vars)
  BY <1>5 DEF PromiseVars, Promise!vars
<1> QED
  BY InductiveInvariant, <1>1, <1>2, <1>3, <1>4, <1>6, PTL
     DEF Spec, PromiseKept, Promise!Spec
=============================================================================
