------------------------- MODULE BlockTemplateProofs -------------------------
(***************************************************************************)
(* Proofs about BlockTemplate, for any transactions, any shape of their    *)
(* ancestors and any number of changes and failures: the inductive         *)
(* invariant, and from it what the walk collects, what the filter keeps,   *)
(* what the coinbase claims, that only the chain and the limits can spoil  *)
(* a block, and that a servable pool is accepted.                          *)
(***************************************************************************)
EXTENDS BlockTemplate, SequenceTheorems, Induction

(* Sequences and sets of transactions                                      *)

LEMMA NotEmpty ==
  ASSUME NEW S, NEW s \in Seq(S), Len(s) > 0
  PROVE  s # <<>>
OBVIOUS

LEMMA AppendSet ==
  ASSUME NEW S, NEW s \in Seq(S), NEW e \in S
  PROVE  Append(s, e) \in Seq(S) /\ ToSet(Append(s, e)) = ToSet(s) \cup {e}
<1>1. Append(s, e) \in Seq(S) /\ Len(Append(s, e)) = Len(s) + 1
  OBVIOUS
<1>2. \A i \in 1 .. Len(s) : Append(s, e)[i] = s[i]
  OBVIOUS
<1>3. Append(s, e)[Len(s) + 1] = e
  OBVIOUS
<1> QED
  BY <1>1, <1>2, <1>3 DEF ToSet

LEMMA ConsSet ==
  ASSUME NEW S, NEW s \in Seq(S), NEW e \in S
  PROVE  Cons(e, s) \in Seq(S) /\ ToSet(Cons(e, s)) = ToSet(s) \cup {e}
<1>1. Cons(e, s) \in Seq(S) /\ Len(Cons(e, s)) = Len(s) + 1 /\ Cons(e, s)[1] = e
  BY DEF Cons
<1>2. \A i \in 1 .. Len(s) : Cons(e, s)[i + 1] = s[i]
  BY DEF Cons
<1>3. ASSUME NEW i \in 2 .. Len(s) + 1
      PROVE  Cons(e, s)[i] = s[i - 1] /\ i - 1 \in DOMAIN s
  <2>1. i - 1 \in 1 .. Len(s) /\ (i - 1) + 1 = i
    OBVIOUS
  <2> QED
    BY <1>2, <2>1
<1>4. \A x \in ToSet(s) : x \in ToSet(Cons(e, s))
  <2> SUFFICES ASSUME NEW i \in DOMAIN s
               PROVE  s[i] \in ToSet(Cons(e, s))
    BY DEF ToSet
  <2>1. i + 1 \in DOMAIN Cons(e, s) /\ Cons(e, s)[i + 1] = s[i]
    BY <1>1, <1>2
  <2> QED
    BY <2>1 DEF ToSet
<1>5. \A x \in ToSet(Cons(e, s)) : x = e \/ x \in ToSet(s)
  <2> SUFFICES ASSUME NEW i \in 1 .. Len(s) + 1, i # 1
               PROVE  Cons(e, s)[i] \in ToSet(s)
    BY <1>1 DEF ToSet
  <2>1. i \in 2 .. Len(s) + 1
    OBVIOUS
  <2> QED
    BY <1>3, <2>1 DEF ToSet
<1>6. 1 \in DOMAIN Cons(e, s)
  BY <1>1
<1>7. e \in ToSet(Cons(e, s))
  BY <1>1, <1>6 DEF ToSet
<1> QED
  BY <1>1, <1>4, <1>5, <1>7

LEMMA TailSet ==
  ASSUME NEW S, NEW s \in Seq(S), s # <<>>
  PROVE  /\ Tail(s) \in Seq(S) /\ Head(s) \in S
         /\ ToSet(s) = ToSet(Tail(s)) \cup {Head(s)}
         /\ Len(Tail(s)) = Len(s) - 1
         /\ \A i \in DOMAIN Tail(s) : Tail(s)[i] = s[i + 1] /\ i + 1 \in DOMAIN s
<1>1. Tail(s) \in Seq(S) /\ Len(Tail(s)) = Len(s) - 1 /\ Head(s) = s[1] /\ Len(s) > 0
  OBVIOUS
<1>2. \A i \in DOMAIN Tail(s) : Tail(s)[i] = s[i + 1] /\ i + 1 \in DOMAIN s
  OBVIOUS
<1>3. \A x \in ToSet(Tail(s)) : x \in ToSet(s)
  BY <1>2 DEF ToSet
<1>4. \A x \in ToSet(s) : x = Head(s) \/ x \in ToSet(Tail(s))
  <2> SUFFICES ASSUME NEW i \in DOMAIN s, i # 1
               PROVE  s[i] \in ToSet(Tail(s))
    BY <1>1 DEF ToSet
  <2>1. i - 1 \in DOMAIN Tail(s) /\ (i - 1) + 1 = i
    BY <1>1
  <2>2. Tail(s)[i - 1] = s[i]
    BY <1>2, <2>1
  <2> QED
    BY <2>1, <2>2 DEF ToSet
<1>5. 1 \in DOMAIN s
  BY <1>1
<1>6. Head(s) \in ToSet(s)
  BY <1>1, <1>5 DEF ToSet
<1> QED
  BY <1>1, <1>2, <1>3, <1>4, <1>6

LEMMA ConcatSet ==
  ASSUME NEW S, NEW s \in Seq(S), NEW r \in Seq(S)
  PROVE  ToSet(s \o r) = ToSet(s) \cup ToSet(r)
<1>1. /\ Len(s) \in Nat /\ Len(r) \in Nat /\ DOMAIN s = 1 .. Len(s) /\ DOMAIN r = 1 .. Len(r)
      /\ s \o r \in Seq(S) /\ DOMAIN (s \o r) = 1 .. Len(s) + Len(r)
      /\ \A i \in 1 .. Len(s) : (s \o r)[i] = s[i]
      /\ \A i \in 1 .. Len(r) : (s \o r)[Len(s) + i] = r[i]
  OBVIOUS
<1>2. ASSUME NEW i \in DOMAIN (s \o r), i \notin DOMAIN s
      PROVE  (s \o r)[i] \in ToSet(r)
  <2>1. i - Len(s) \in DOMAIN r /\ Len(s) + (i - Len(s)) = i
    BY <1>1, <1>2
  <2>2. (s \o r)[Len(s) + (i - Len(s))] = r[i - Len(s)]
    BY <1>1, <2>1
  <2> QED
    BY <2>1, <2>2 DEF ToSet
<1>3. ASSUME NEW i \in DOMAIN r
      PROVE  r[i] \in ToSet(s \o r)
  <2>1. Len(s) + i \in DOMAIN (s \o r)
    BY <1>1
  <2> QED
    BY <1>1, <2>1 DEF ToSet
<1>4. ToSet(s) \subseteq ToSet(s \o r)
  BY <1>1 DEF ToSet
<1>5. ToSet(r) \subseteq ToSet(s \o r)
  BY <1>3 DEF ToSet
<1>6. ToSet(s \o r) \subseteq ToSet(s) \cup ToSet(r)
  BY <1>1, <1>2 DEF ToSet
<1> QED
  BY <1>4, <1>5, <1>6

\* Each order of a finite set lists its members, each once.
LEMMA OrderType ==
  ASSUME NEW S \in SUBSET Tx, NEW s \in SetToSeqs(S)
  PROVE  /\ s \in Seq(Tx) /\ ToSet(s) = S
         /\ \A i, j \in DOMAIN s : s[i] = s[j] => i = j
<1>1. IsFiniteSet(S) /\ Cardinality(S) \in Nat
  BY TxAssumption, FS_Subset, FS_CardinalityType
<1>2. /\ s \in [1 .. Cardinality(S) -> S]
      /\ \A i, j \in 1 .. Cardinality(S) : i # j => s[i] # s[j]
  BY DEF SetToSeqs
<1>3. s \in Seq(Tx) /\ DOMAIN s = 1 .. Cardinality(S)
  BY <1>1, <1>2
<1>4. s \in Injection(1 .. Cardinality(S), S)
  BY <1>2 DEF Injection, IsInjective
<1>5. Cardinality(1 .. Cardinality(S)) = Cardinality(S)
  BY <1>1, FS_Interval
<1>6. s \in Surjection(1 .. Cardinality(S), S)
  BY <1>1, <1>4, <1>5, FS_Injection
<1>7. ToSet(s) = S
  BY <1>2, <1>3, <1>6 DEF ToSet, Surjection
<1> QED
  BY <1>2, <1>3, <1>7

LEMMA OwnerType ==
  ASSUME NEW t \in Tx, NEW o \in Outpoints(t)
  PROVE  /\ o[1] \in Tx \cup {Root}
         /\ \E i \in DOMAIN Ins[t] : o = Ins[t][i]
BY InsAssumption DEF Outpoints, ToSet

LEMMA InType ==
  ASSUME NEW t \in Tx, NEW i \in DOMAIN Ins[t]
  PROVE  /\ Ins[t][i][1] \in Tx \cup {Root} /\ Ins[t][i] \in Outpoints(t)
         /\ Len(Ins[t]) \in Nat /\ DOMAIN Ins[t] = 1 .. Len(Ins[t])
BY InsAssumption DEF Outpoints, ToSet

-----------------------------------------------------------------------------
(* Types                                                                   *)

\* The frame on top of the stack, and what replaces it.
LEMMA StackType ==
  ASSUME stack \in Seq(Frame), stack # <<>>
  PROVE  /\ Len(stack) \in Nat \ {0} /\ DOMAIN stack = 1 .. Len(stack)
         /\ Top = stack[Len(stack)] /\ Top.tx \in Tx /\ Top.input \in Nat \ {0}
         /\ Front(stack) \in Seq(Frame) /\ Len(Front(stack)) = Len(stack) - 1
         /\ \A k \in DOMAIN Front(stack) : Front(stack)[k] = stack[k] /\ k \in DOMAIN stack
<1>1. Len(stack) \in Nat \ {0} /\ DOMAIN stack = 1 .. Len(stack)
  OBVIOUS
<1>2. Top = stack[Len(stack)] /\ stack[Len(stack)] \in Frame
  BY <1>1 DEF Top, Last
<1>3. /\ Front(stack) \in Seq(Frame) /\ Len(Front(stack)) = Len(stack) - 1
      /\ \A k \in 1 .. Len(stack) - 1 : Front(stack)[k] = stack[k]
  BY <1>1 DEF Front
<1>4. DOMAIN Front(stack) = 1 .. Len(stack) - 1
  BY <1>1, <1>3
<1>5. Top.tx \in Tx /\ Top.input \in Nat \ {0}
  BY <1>2 DEF Frame
<1> QED
  BY <1>1, <1>2, <1>3, <1>4, <1>5

LEMMA AdvanceType ==
  ASSUME NEW s \in Seq(Frame), s # <<>>
  PROVE  /\ Advance(s) \in Seq(Frame) /\ Len(Advance(s)) = Len(s)
         /\ \A k \in DOMAIN s :
              /\ Advance(s)[k].tx = s[k].tx
              /\ k < Len(s) => Advance(s)[k].input = s[k].input
              /\ k = Len(s) => Advance(s)[k].input = s[k].input + 1
<1>1. Len(s) \in 1 .. Len(s) /\ DOMAIN s = 1 .. Len(s) /\ s \in [1 .. Len(s) -> Frame]
  OBVIOUS
<1>2. s[Len(s)] \in Frame
  BY <1>1
<1>3. [s[Len(s)] EXCEPT !.input = @ + 1] \in Frame
  BY <1>2 DEF Frame
<1>4. Advance(s) = [s EXCEPT ![Len(s)] = [s[Len(s)] EXCEPT !.input = @ + 1]]
  BY DEF Advance
<1>5. Advance(s) \in [1 .. Len(s) -> Frame]
  BY <1>1, <1>3, <1>4
<1>6. Advance(s) \in Seq(Frame) /\ Len(Advance(s)) = Len(s)
  BY <1>1, <1>5
<1>7. [s[Len(s)] EXCEPT !.input = @ + 1].input = s[Len(s)].input + 1
      /\ [s[Len(s)] EXCEPT !.input = @ + 1].tx = s[Len(s)].tx
  BY <1>2 DEF Frame
<1> QED
  BY <1>1, <1>4, <1>6, <1>7

LEMMA AtInputType ==
  ASSUME stack \in Seq(Frame), AtInput
  PROVE  /\ stack # <<>> /\ Top.input \in DOMAIN Ins[Top.tx]
         /\ NextParent \in Tx \cup {Root} /\ NextParent = Ins[Top.tx][Top.input][1]
<1>1. stack # <<>> /\ Top.input <= Len(Ins[Top.tx])
  BY DEF AtInput
<1>2. Top.tx \in Tx /\ Top.input \in Nat \ {0}
  BY <1>1, StackType
<1>3. Ins[Top.tx] \in Seq((Tx \cup {Root}) \X Nat)
  BY <1>2, InsAssumption
<1>4. Top.input \in DOMAIN Ins[Top.tx]
  BY <1>1, <1>2, <1>3
<1> QED
  BY <1>1, <1>2, <1>4, InType DEF NextParent

LEMMA RestType ==
  ASSUME NEW r \in [txs : Seq(Tx), tip : Nat], NEW s \in Seq(Tx)
  PROVE  [r EXCEPT !.txs = s] \in [txs : Seq(Tx), tip : Nat]
OBVIOUS

\* A new frame, on an input that is its first.
LEMMA PushType ==
  ASSUME stack \in Seq(Frame), NEW t \in Tx
  PROVE  /\ <<[tx |-> t, input |-> 1]>> \in Seq(Frame)
         /\ Append(stack, [tx |-> t, input |-> 1]) \in Seq(Frame)
         /\ Len(Append(stack, [tx |-> t, input |-> 1])) = Len(stack) + 1
         /\ Append(stack, [tx |-> t, input |-> 1])[Len(stack) + 1] = [tx |-> t, input |-> 1]
         /\ \A k \in DOMAIN stack : Append(stack, [tx |-> t, input |-> 1])[k] = stack[k]
<1>1. [tx |-> t, input |-> 1] \in Frame
  BY DEF Frame
<1> QED
  BY <1>1

LEMMA TypeStep ==
  ASSUME TypeOK, [Next]_vars
  PROVE  TypeOK'
<1> USE DEF TypeOK
<1>0. CASE UNCHANGED vars
  BY <1>0 DEF vars, nodeVars, poolVars, walkVars, filterVars
<1>1. CASE Start
  <2>1. snapshot' \in Seq(Tx)
    BY <1>1, OrderType DEF Start
  <2> QED
    BY <1>1, <2>1 DEF Start, nodeVars, poolVars, filterVars
<1>2. CASE Handler
  <2> USE DEF WalkStep, FilterStep, nodeVars, poolVars, filterVars
  <2>1. CASE NextPrivate
    <3>1. snapshot[cursor] \in Tx
      BY <2>1 DEF NextPrivate
    <3>2. stack' \in Seq(Frame)
      BY <2>1, <3>1, PushType DEF NextPrivate
    <3> QED
      BY <2>1, <3>2 DEF NextPrivate
  <2>2. CASE ParentVisited
    <3>1. stack' \in Seq(Frame)
      BY <2>2, AtInputType, AdvanceType DEF ParentVisited
    <3> QED
      BY <2>2, <3>1 DEF ParentVisited
  <2>3. CASE ParentFound
    <3>1. /\ NextParent \in Tx /\ visited' \subseteq Tx \cup {Root}
          /\ leftOut' \subseteq visited'
      BY <2>3, AtInputType DEF ParentFound, Visit, Known
    <3>2. stack' \in Seq(Frame)
      BY <2>3, <3>1, PushType DEF ParentFound
    <3> QED
      BY <2>3, <3>1, <3>2 DEF ParentFound
  <2>4. CASE ParentUnknown \/ ParentRpcFails
    <3>1. /\ visited' \subseteq Tx \cup {Root} /\ stack # <<>>
          /\ leftOut' \subseteq visited'
      BY <2>4, AtInputType DEF ParentUnknown, ParentRpcFails, LeaveOut, Visit
    <3>2. stack' \in Seq(Frame)
      BY <2>4, <3>1, AdvanceType DEF ParentUnknown, ParentRpcFails, LeaveOut
    <3> QED
      BY <2>4, <3>1, <3>2 DEF ParentUnknown, ParentRpcFails, LeaveOut
  <2>4a. CASE WalkThrows
    <3>1. visited' \subseteq Tx \cup {Root} /\ leftOut' \subseteq visited'
      BY <2>4a, AtInputType DEF WalkThrows, Visit
    <3>2. stack' \in Seq(Frame)
      BY <2>4a DEF WalkThrows
    <3> QED
      BY <2>4a, <3>1, <3>2 DEF WalkThrows, Answer
  <2>5. CASE PrependParent
    <3>1. stack # <<>>
      BY <2>5 DEF PrependParent
    <3>2. Top.tx \in Tx /\ Front(stack) \in Seq(Frame) /\ Front(stack) # <<>>
      BY <2>5, <3>1, StackType DEF PrependParent
    <3>3. stack' \in Seq(Frame) /\ txChain' \in Seq(Tx)
      BY <2>5, <3>2, AdvanceType, ConsSet DEF PrependParent
    <3> QED
      BY <2>5, <3>3 DEF PrependParent
  <2>6. CASE AppendPrivate
    <3>. Len(stack) = 1 /\ Len(stack) > 0
      BY <2>6 DEF AppendPrivate
    <3>1. stack # <<>>
      BY NotEmpty
    <3>2. Top.tx \in Tx
      BY <3>1, StackType
    <3>3. txChain' \in Seq(Tx) /\ Fee[Top.tx] \in Int
      BY <2>6, <3>2, AppendSet, FeeAssumption DEF AppendPrivate
    <3> QED
      BY <2>6, <3>3 DEF AppendPrivate
  <2>7. CASE WalkEnds
    BY <2>7 DEF WalkEnds, walkVars
  <2>8. CASE GetTemplate
    <3>1. PICK S \in SUBSET mempool : \E s \in TopologicalOrders(S) :
            template' = [txs |-> s, tip |-> tip]
      BY <2>8 DEF GetTemplate
    <3>. PICK s \in TopologicalOrders(S) : template' = [txs |-> s, tip |-> tip]
      BY <3>1
    <3>2. template'.txs \in Seq(Tx) /\ template' = [txs |-> s, tip |-> tip]
      BY OrderType DEF TopologicalOrders
    <3> QED
      BY <2>8, <3>1, <3>2 DEF GetTemplate, walkVars
  <2>9. CASE RemoveCandidate \/ KeepCandidate
    <3>1. Candidate \in Tx /\ Tail(template.txs) \in Seq(Tx)
      BY <2>9, TailSet DEF RemoveCandidate, KeepCandidate, Candidate
    <3>2. Fee[Candidate] \in Int /\ fees \in Int
      BY <3>1, FeeAssumption
    <3>3. template' = [template EXCEPT !.txs = Tail(template.txs)]
      BY <2>9 DEF RemoveCandidate, KeepCandidate
    <3>4. fees' \in Int
      BY <2>9, <3>2 DEF RemoveCandidate, KeepCandidate
    <3>5. Append(kept, Candidate) \in Seq(Tx) /\ removed \cup {Candidate} \subseteq Tx
      BY <3>1, AppendSet
    <3>6. template' \in [txs : Seq(Tx), tip : Nat]
      BY <3>1, <3>3, RestType
    <3> QED
      BY <2>9, <3>4, <3>5, <3>6 DEF RemoveCandidate, KeepCandidate, walkVars
  <2>10. CASE FilterEnds
    BY <2>10 DEF FilterEnds, walkVars
  <2>11. CASE Propose \/ TemplateRpcFails
    BY <2>11 DEF Propose, TemplateRpcFails, Answer, walkVars
  <2>12. CASE Respond
    BY <2>12 DEF Respond, NoTemplate
  <2> QED
    BY <1>2, <2>1, <2>2, <2>3, <2>4, <2>4a, <2>5, <2>6, <2>7, <2>8, <2>9, <2>10, <2>11,
       <2>12
    DEF Handler
<1>3. CASE MempoolChanges \/ BlockArrives
  <2>1. CASE MempoolChanges
    BY <2>1 DEF MempoolChanges, NodeEvent, poolVars, walkVars, filterVars
  <2>2. CASE BlockArrives
    <3>1. /\ \E B \in SUBSET Tx : confirmed' = confirmed \cup B
          /\ \E S \in SUBSET mempool : mempool' = S
      BY <2>2 DEF BlockArrives
    <3>2. tip' \in Nat
      BY <2>2 DEF BlockArrives
    <3> QED
      BY <2>2, <3>1, <3>2 DEF BlockArrives, NodeEvent, poolVars, walkVars, filterVars
  <2> QED
    BY <1>3, <2>1, <2>2
<1>4. CASE \E t \in Tx : AddPrivate(t) \/ RemovePrivate(t)
  BY <1>4 DEF AddPrivate, RemovePrivate, PoolEvent, nodeVars, walkVars, filterVars
<1> QED
  BY <1>0, <1>1, <1>2, <1>3, <1>4 DEF Next

-----------------------------------------------------------------------------
(* The walk                                                                *)

\* Once its input is visited, a path stays passed when its top goes on.
LEMMA AdvancePassed ==
  ASSUME NEW s \in Seq(Frame), s # <<>>, NEW V, Passed(s, V),
         LET top == s[Len(s)]
         IN  top.input \in DOMAIN Ins[top.tx] => Ins[top.tx][top.input][1] \in V
  PROVE  Passed(Advance(s), V)
<1> SUFFICES ASSUME NEW k \in DOMAIN Advance(s), NEW i \in DOMAIN Ins[Advance(s)[k].tx],
                    i < Advance(s)[k].input \/ (i = Advance(s)[k].input /\ k < Len(Advance(s)))
             PROVE  Ins[Advance(s)[k].tx][i][1] \in V
  BY DEF Passed
<1>1. /\ Len(Advance(s)) = Len(s) /\ k \in DOMAIN s /\ Advance(s)[k].tx = s[k].tx
      /\ k < Len(s) => Advance(s)[k].input = s[k].input
      /\ k = Len(s) => Advance(s)[k].input = s[k].input + 1
      /\ k \in 1 .. Len(s) /\ s[k] \in Frame
  BY AdvanceType
<1>2. i \in DOMAIN Ins[s[k].tx] /\ i \in Nat /\ s[k].input \in Nat
  BY <1>1, InType DEF Frame
<1>3. CASE k < Len(s)
  BY <1>1, <1>2, <1>3 DEF Passed
<1>4. CASE k = Len(s)
  <2>1. i < s[k].input \/ i = s[k].input
    BY <1>1, <1>2, <1>4
  <2> QED
    BY <1>1, <1>2, <1>4, <2>1 DEF Passed
<1> QED
  BY <1>1, <1>3, <1>4

\* A path stays passed when more is visited.
LEMMA PassedGrows ==
  ASSUME NEW s, NEW V, NEW W, V \subseteq W, Passed(s, V)
  PROVE  Passed(s, W)
BY DEF Passed

\* A transaction whose inputs are done has visited them.
LEMMA DoneVisited ==
  ASSUME TypeOK, WalkInv, stack # <<>>, ~ AtInput
  PROVE  \A o \in Outpoints(Top.tx) : o[1] \in visited
<1> SUFFICES ASSUME NEW o \in Outpoints(Top.tx)
             PROVE  o[1] \in visited
  OBVIOUS
<1>1. /\ Len(stack) \in DOMAIN stack /\ Top = stack[Len(stack)]
      /\ Top.tx \in Tx /\ Top.input \in Nat
  BY StackType DEF TypeOK
<1>2. PICK i \in DOMAIN Ins[Top.tx] : o = Ins[Top.tx][i]
  BY <1>1, OwnerType
<1>3. i \in 1 .. Len(Ins[Top.tx]) /\ Len(Ins[Top.tx]) \in Nat
  BY <1>1, InType
<1>4. i < Top.input
  BY <1>1, <1>3 DEF AtInput
<1> QED
  BY <1>1, <1>2, <1>4 DEF WalkInv, Passed

\* The frame on top of a popped stack is at the input that is the popped
\* transaction.
LEMMA PopPassed ==
  ASSUME TypeOK, WalkInv, Len(stack) > 1
  PROVE  Passed(Advance(Front(stack)), visited)
<1>. DEFINE s == Front(stack)
<1>1. stack \in Seq(Frame) /\ Len(stack) > 0
  BY DEF TypeOK
<1>. stack # <<>>
  BY <1>1
<1>2. /\ s \in Seq(Frame) /\ Len(s) = Len(stack) - 1
      /\ \A k \in DOMAIN s : s[k] = stack[k] /\ k \in DOMAIN stack
      /\ Len(stack) \in Nat
  BY <1>1, StackType
<1>. s # <<>>
  BY <1>2
<1>3. Len(s) \in DOMAIN s /\ s[Len(s)] = stack[Len(s)] /\ Len(s) < Len(stack)
  BY <1>2
<1>4. Passed(s, visited)
  <2> SUFFICES ASSUME NEW k \in DOMAIN s, NEW i \in DOMAIN Ins[s[k].tx],
                      i < s[k].input \/ (i = s[k].input /\ k < Len(s))
               PROVE  Ins[s[k].tx][i][1] \in visited
    BY DEF Passed
  <2>1. s[k] = stack[k] /\ k \in DOMAIN stack /\ (k < Len(s) => k < Len(stack))
    BY <1>2
  <2>. HIDE DEF s
  <2> QED
    BY <2>1 DEF WalkInv, Passed
<1>5. s[Len(s)].input \in DOMAIN Ins[s[Len(s)].tx]
      => Ins[s[Len(s)].tx][s[Len(s)].input][1] \in visited
  <2>. HIDE DEF s
  <2> QED
    BY <1>2, <1>3 DEF WalkInv, Passed
<1>. HIDE DEF s
<1>6. Passed(Advance(s), visited)
  BY <1>2, <1>4, <1>5, AdvancePassed
<1> QED
  BY <1>6 DEF s

LEMMA WalkStepInv ==
  ASSUME IInv, TypeOK', [Next]_vars
  PROVE  WalkInv'
<1> USE DEF IInv
<1>0. CASE UNCHANGED vars
  BY <1>0 DEF WalkInv, Passed, vars, nodeVars, walkVars
<1>1. CASE Start
  <2>1. stack = <<>> /\ visited = {} /\ txChain = <<>> /\ leftOut = {}
    BY <1>1 DEF Start, WalkInv, FilterInv, TypeOK
  <2> QED
    BY <1>1, <2>1 DEF Start, WalkInv, Passed, ToSet
<1>2. CASE NextPrivate
  <2>1. stack' = <<[tx |-> snapshot[cursor], input |-> 1]>>
    BY <1>2 DEF NextPrivate
  <2>2. snapshot[cursor] \in Tx
    BY <1>2 DEF NextPrivate, TypeOK
  <2>3. Passed(stack', visited')
    BY <2>1, <2>2, InType DEF Passed
  <2>4. \A k \in DOMAIN stack : FALSE
    BY <1>2 DEF NextPrivate
  <2> QED
    BY <1>2, <2>3, <2>4 DEF NextPrivate, WalkStep, nodeVars, WalkInv
<1>3. CASE ParentVisited \/ ParentUnknown \/ ParentRpcFails
  <2>1. AtInput /\ stack \in Seq(Frame) /\ stack' = Advance(stack) /\ pc' = pc /\ pc = "walk"
    BY <1>3 DEF ParentVisited, ParentUnknown, ParentRpcFails, LeaveOut, Visit, WalkStep, TypeOK,
         poolVars
  <2>2. visited \subseteq visited' /\ NextParent \in visited'
    BY <1>3 DEF ParentVisited, ParentUnknown, ParentRpcFails, Visit
  <2>3. /\ stack # <<>> /\ NextParent = Ins[Top.tx][Top.input][1]
        /\ Top = stack[Len(stack)]
    BY <2>1, AtInputType, StackType
  <2>4. Passed(stack', visited')
    BY <2>1, <2>2, <2>3, AdvancePassed, PassedGrows DEF WalkInv
  <2>5. \A k \in DOMAIN stack : k \in DOMAIN stack' /\ stack'[k].tx = stack[k].tx
    BY <2>1, <2>3, AdvanceType
  <2>6. visited' \ leftOut' \subseteq visited \ leftOut
    BY <1>3 DEF ParentVisited, ParentUnknown, ParentRpcFails, LeaveOut, Visit
  <2>7. txChain' = txChain
    BY <1>3 DEF ParentVisited, ParentUnknown, ParentRpcFails, LeaveOut
  <2>8. quiet' => leftOut' \cap mempool' = {}
    BY <1>3 DEF ParentVisited, ParentUnknown, ParentRpcFails, LeaveOut, RpcFails, WalkStep, nodeVars,
         Known, WalkInv
  <2> QED
    BY <2>1, <2>2, <2>4, <2>5, <2>6, <2>7, <2>8 DEF WalkInv
<1>4. CASE ParentFound
  <2>. DEFINE f == [tx |-> NextParent, input |-> 1]
  <2>1. /\ AtInput /\ stack \in Seq(Frame) /\ stack' = Append(stack, f) /\ NextParent \in Tx
        /\ pc' = "walk" /\ visited' = visited \cup {NextParent}
        /\ txChain' = txChain /\ quiet' = quiet /\ mempool' = mempool /\ leftOut' = leftOut
        /\ pc = "walk"
    BY <1>4 DEF ParentFound, Visit, WalkStep, TypeOK, Known, nodeVars
  <2>2. /\ stack # <<>> /\ NextParent = Ins[Top.tx][Top.input][1] /\ Top = stack[Len(stack)]
        /\ Len(stack) \in Nat \ {0} /\ DOMAIN stack = 1 .. Len(stack)
        /\ Len(stack') = Len(stack) + 1 /\ DOMAIN stack' = 1 .. Len(stack) + 1
        /\ stack'[Len(stack) + 1] = f
        /\ \A k \in DOMAIN stack : stack'[k] = stack[k]
    BY <2>1, AtInputType, StackType, PushType
  <2>3. Passed(stack', visited')
    <3> SUFFICES ASSUME NEW k \in DOMAIN stack', NEW i \in DOMAIN Ins[stack'[k].tx],
                        i < stack'[k].input \/ (i = stack'[k].input /\ k < Len(stack'))
                 PROVE  Ins[stack'[k].tx][i][1] \in visited'
      BY DEF Passed
    <3>1. CASE k = Len(stack) + 1
      <4>1. i \in Nat \ {0} /\ i < 1
        BY <2>1, <2>2, <3>1, InType
      <4> QED
        BY <4>1
    <3>2. CASE k = Len(stack)
      BY <2>1, <2>2, <3>2 DEF WalkInv, Passed
    <3>3. CASE k < Len(stack)
      <4>1. k \in DOMAIN stack /\ stack'[k] = stack[k]
        BY <2>2, <3>3
      <4> QED
        BY <2>1, <3>3, <4>1 DEF WalkInv, Passed
    <3> QED
      BY <2>2, <3>1, <3>2, <3>3
  <2>4. \E k \in DOMAIN stack' : k > 1 /\ stack'[k].tx = NextParent
    BY <2>2
  <2>5. \A k \in DOMAIN stack : k \in DOMAIN stack' /\ stack'[k].tx = stack[k].tx
    BY <2>2
  <2>. HIDE DEF f
  <2> QED
    BY <2>1, <2>3, <2>4, <2>5 DEF WalkInv
<1>5. CASE PrependParent
  <2>1. /\ Len(stack) > 1 /\ stack # <<>> /\ ~ AtInput /\ pc' = "walk" /\ visited' = visited
        /\ stack' = Advance(Front(stack)) /\ txChain' = Cons(Top.tx, txChain)
        /\ quiet' = quiet /\ mempool' = mempool /\ leftOut' = leftOut /\ pc = "walk"
    <3>. stack \in Seq(Frame) /\ Len(stack) > 0
      BY <1>5 DEF PrependParent, TypeOK
    <3>. stack # <<>>
      BY NotEmpty
    <3> QED
      BY <1>5 DEF PrependParent, WalkStep, nodeVars
  <2>2. /\ Len(stack) \in Nat \ {0} /\ DOMAIN stack = 1 .. Len(stack)
        /\ Top = stack[Len(stack)] /\ Top.tx \in Tx
        /\ Front(stack) \in Seq(Frame) /\ Len(Front(stack)) = Len(stack) - 1
        /\ \A k \in DOMAIN Front(stack) : Front(stack)[k] = stack[k]
    BY <2>1, StackType DEF TypeOK
  <2>3. ToSet(txChain') = ToSet(txChain) \cup {Top.tx}
    <3>. txChain \in Seq(Tx)
      BY DEF TypeOK
    <3> QED
      BY <2>1, <2>2, ConsSet
  <2>4. \A t \in ToSet(txChain') : \A o \in Outpoints(t) : o[1] \in visited'
    BY <2>1, <2>3, DoneVisited DEF WalkInv
  <2>5. Passed(stack', visited')
    BY <2>1, PopPassed
  <2>6. ASSUME NEW k \in DOMAIN stack, k > 1, stack[k].tx \notin ToSet(txChain')
        PROVE  k \in DOMAIN stack' /\ stack'[k].tx = stack[k].tx
    <3>1. k # Len(stack)
      BY <2>2, <2>3, <2>6
    <3>2. k \in DOMAIN Front(stack) /\ Front(stack) # <<>>
      BY <2>2, <3>1
    <3> QED
      BY <2>1, <2>2, <3>2, AdvanceType
  <2> QED
    BY <2>1, <2>3, <2>4, <2>5, <2>6 DEF WalkInv
<1>6. CASE AppendPrivate
  <2>1. /\ stack # <<>> /\ ~ AtInput /\ visited' = visited
        /\ stack' = <<>> /\ txChain' = Append(txChain, Top.tx)
        /\ quiet' = quiet /\ mempool' = mempool /\ leftOut' = leftOut /\ pc = "walk"
    <3>. Len(stack) = 1 /\ Len(stack) > 0
      BY <1>6 DEF AppendPrivate
    <3>. stack # <<>>
      BY NotEmpty DEF TypeOK
    <3> QED
      BY <1>6 DEF AppendPrivate, WalkStep, nodeVars
  <2>2. Top.tx \in Tx /\ DOMAIN stack = 1 .. 1
    BY <1>6, <2>1, StackType DEF TypeOK, AppendPrivate
  <2>3. ToSet(txChain') = ToSet(txChain) \cup {Top.tx}
    BY <2>1, <2>2, AppendSet DEF TypeOK
  <2>4. \A t \in ToSet(txChain') : \A o \in Outpoints(t) : o[1] \in visited'
    BY <2>1, <2>3, DoneVisited DEF WalkInv
  <2>5. Passed(stack', visited')
    BY <2>1 DEF Passed
  <2>6. \A k \in DOMAIN stack : ~ k > 1
    BY <2>2
  <2> QED
    BY <2>1, <2>3, <2>4, <2>5, <2>6 DEF WalkInv
<1>7. CASE \/ WalkEnds \/ GetTemplate \/ RemoveCandidate \/ KeepCandidate \/ FilterEnds
           \/ Propose \/ TemplateRpcFails
  <2>1. /\ stack = <<>> /\ stack' = <<>> /\ txChain' = txChain /\ visited' = visited
        /\ mempool' = mempool /\ (quiet' => quiet) /\ leftOut' = leftOut
        /\ (pc' # "done" => pc # "done")
    BY <1>7 DEF WalkEnds, GetTemplate, RemoveCandidate, KeepCandidate, FilterEnds, Propose,
         TemplateRpcFails, Answer, RpcFails, FilterStep, WalkStep, WalkInv, walkVars, nodeVars
  <2> QED
    BY <2>1 DEF WalkInv, Passed
<1>7a. CASE WalkThrows
  <2>1. /\ stack' = <<>> /\ pc' = "done" /\ ~ quiet' /\ txChain' = txChain
        /\ visited \subseteq visited'
    BY <1>7a DEF WalkThrows, Answer, RpcFails, Visit
  <2>2. Passed(stack', visited')
    BY <2>1 DEF Passed
  <2> QED
    BY <2>1, <2>2 DEF WalkInv
<1>8. CASE Respond
  BY <1>8 DEF Respond, WalkInv, Passed, ToSet
<1>9. CASE MempoolChanges \/ BlockArrives
  BY <1>9 DEF MempoolChanges, BlockArrives, NodeEvent, walkVars, WalkInv
<1>10. CASE \E t \in Tx : AddPrivate(t) \/ RemovePrivate(t)
  BY <1>10 DEF AddPrivate, RemovePrivate, PoolEvent, nodeVars, walkVars, WalkInv
<1> QED
  BY <1>0, <1>1, <1>2, <1>3, <1>4, <1>5, <1>6, <1>7, <1>7a, <1>8, <1>9, <1>10 DEF Next, Handler

-----------------------------------------------------------------------------
(* The filter                                                              *)

\* A template lists transactions that can follow the confirmed ones, parents
\* before children.
LEMMA TemplateOrdered ==
  ASSUME TypeOK, GetTemplate
  PROVE  /\ \A t, u \in ToSet(template'.txs) : ~ Conflict(t, u)
         /\ \A i, j \in DOMAIN template'.txs :
              template'.txs[i] \in Parents(template'.txs[j]) => i < j
<1>1. PICK S \in SUBSET mempool :
        /\ Coherent(confirmed, tip, S)
        /\ \E s \in TopologicalOrders(S) : template' = [txs |-> s, tip |-> tip]
  BY DEF GetTemplate
<1>2. PICK s \in TopologicalOrders(S) : template' = [txs |-> s, tip |-> tip]
  BY <1>1
<1>3. template'.txs = s
  BY <1>2
<1>4. S \in SUBSET Tx /\ s \in SetToSeqs(S)
  BY DEF TypeOK, TopologicalOrders
<1>5. ToSet(s) \subseteq S
  BY <1>4, OrderType
<1>6. \A i, j \in DOMAIN s : s[i] \in Parents(s[j]) => i < j
  BY DEF TopologicalOrders
<1> QED
  BY <1>1, <1>3, <1>5, <1>6 DEF Coherent

LEMMA FilterStepInv ==
  ASSUME IInv, [Next]_vars
  PROVE  FilterInv'
<1> USE DEF IInv
<1>0. CASE UNCHANGED vars
  BY <1>0 DEF FilterInv, AlreadySpent, vars, walkVars, filterVars
<1>1. CASE \/ Start \/ WalkEnds \/ NextPrivate \/ ParentVisited \/ ParentFound
           \/ ParentUnknown \/ ParentRpcFails \/ PrependParent \/ AppendPrivate
  <2>1. /\ pc \in {"idle", "walk"} /\ pc' \in {"walk", "template"}
        /\ template' = template /\ kept' = kept /\ removed' = removed
    BY <1>1 DEF Start, WalkEnds, NextPrivate, ParentVisited, ParentFound, ParentUnknown,
         ParentRpcFails, LeaveOut, PrependParent, AppendPrivate, WalkStep, filterVars
  <2>2. kept = <<>> /\ template.txs = <<>> /\ removed = {}
    BY <2>1 DEF FilterInv
  <2> QED
    BY <2>1, <2>2 DEF FilterInv, ToSet
<1>2. CASE GetTemplate
  <2>1. /\ kept' = <<>> /\ removed' = {} /\ pc' = "filter"
    BY <1>2 DEF GetTemplate, FilterInv
  <2>2. ToSet(kept') = {}
    BY <2>1 DEF ToSet
  <2> QED
    BY <1>2, <2>1, <2>2, TemplateOrdered DEF FilterInv
<1>3. CASE RemoveCandidate \/ KeepCandidate
  <2>. DEFINE rest == template.txs
              t == Candidate
  <2>1. /\ pc = "filter" /\ pc' = "filter" /\ rest # <<>> /\ rest \in Seq(Tx)
        /\ rest' = Tail(rest) /\ t = Head(rest) /\ txChain' = txChain /\ kept \in Seq(Tx)
    BY <1>3 DEF RemoveCandidate, KeepCandidate, FilterStep, walkVars, TypeOK, Candidate
  <2>2. /\ t \in Tx /\ ToSet(rest) = ToSet(rest') \cup {t}
        /\ Len(rest') = Len(rest) - 1
        /\ \A i \in DOMAIN rest' : rest'[i] = rest[i + 1] /\ i + 1 \in DOMAIN rest
        /\ rest' \in Seq(Tx)
    BY <2>1, TailSet
  <2>3. 1 \in DOMAIN rest /\ rest[1] = t
    BY <2>1
  <2>4. \A i, j \in DOMAIN rest' : rest'[i] \in Parents(rest'[j]) => i < j
    <3> SUFFICES ASSUME NEW i \in DOMAIN rest', NEW j \in DOMAIN rest',
                        rest'[i] \in Parents(rest'[j])
                 PROVE  i < j
      OBVIOUS
    <3>1. i \in Nat /\ j \in Nat /\ i + 1 < j + 1
      <4>1. rest[i + 1] \in Parents(rest[j + 1]) /\ i + 1 \in DOMAIN rest /\ j + 1 \in DOMAIN rest
        BY <2>2
      <4>. HIDE DEF rest
      <4> QED
        BY <2>2, <4>1 DEF FilterInv, rest
    <3> QED
      BY <3>1
  \* What follows the candidate is not its parent.
  <2>5. Parents(t) \cap ToSet(rest') = {}
    <3> SUFFICES ASSUME NEW i \in DOMAIN rest', rest'[i] \in Parents(t)
                 PROVE  FALSE
      BY DEF ToSet
    <3>1. rest[i + 1] \in Parents(rest[1]) /\ i + 1 \in DOMAIN rest /\ i \in Nat \ {0}
      BY <2>2, <2>3
    <3>2. i + 1 < 1
      BY <2>3, <3>1 DEF FilterInv
    <3> QED
      BY <3>1, <3>2
  <2>6. CASE RemoveCandidate
    <3>1. kept' = kept /\ removed' = removed \cup {t}
      BY <2>6 DEF RemoveCandidate
    <3>. HIDE DEF t
    <3> QED
      BY <2>1, <2>2, <2>4, <3>1 DEF FilterInv, AlreadySpent
  <2>7. CASE KeepCandidate
    <3>1. kept' = Append(kept, t) /\ removed' = removed
          /\ Parents(t) \cap removed = {} /\ Outpoints(t) \cap AlreadySpent = {}
      BY <2>7 DEF KeepCandidate, ShouldRemove
    <3>. HIDE DEF t
    <3>2. ToSet(kept') = ToSet(kept) \cup {t}
      BY <2>1, <2>2, <3>1, AppendSet
    <3> QED
      BY <2>1, <2>2, <2>4, <2>5, <3>1, <3>2 DEF FilterInv, AlreadySpent
  <2> QED
    BY <1>3, <2>6, <2>7
<1>4. CASE FilterEnds \/ Propose \/ TemplateRpcFails \/ WalkThrows
  BY <1>4 DEF FilterEnds, Propose, TemplateRpcFails, WalkThrows, Answer, walkVars, filterVars,
       FilterInv, AlreadySpent
<1>5. CASE Respond
  BY <1>5 DEF Respond, FilterInv, NoTemplate, ToSet
<1>6. CASE MempoolChanges \/ BlockArrives
  BY <1>6 DEF MempoolChanges, BlockArrives, NodeEvent, walkVars, filterVars, FilterInv,
       AlreadySpent
<1>7. CASE \E t \in Tx : AddPrivate(t) \/ RemovePrivate(t)
  BY <1>7 DEF AddPrivate, RemovePrivate, PoolEvent, walkVars, filterVars, FilterInv, AlreadySpent
<1> QED
  BY <1>0, <1>1, <1>2, <1>3, <1>4, <1>5, <1>6, <1>7 DEF Next, Handler

-----------------------------------------------------------------------------
(* The fees                                                                *)

LEMMA PaidType ==
  ASSUME TypeOK, FeeInv
  PROVE  Paid \in SUBSET Tx /\ IsFiniteSet(Paid)
<1>1. Paid \in SUBSET Tx
  BY DEF TypeOK, FeeInv, Paid, ToSet
<1> QED
  BY <1>1, TxAssumption, FS_Subset

LEMMA SamePaid ==
  ASSUME FeeInv, fees' = fees, snapshot' = snapshot, cursor' = cursor, kept' = kept
  PROVE  (fees = FeesOf(Paid))'
<1>1. Paid' = Paid
  BY DEF Paid, ToSet
<1>2. fees = SumFunctionOnSet(Fee, Paid)
  BY DEF FeeInv, FeesOf
<1>3. fees' = SumFunctionOnSet(Fee, Paid')
  BY <1>1, <1>2, Zenon
<1> QED
  BY <1>3 DEF FeesOf

\* The fee of a transaction that is not paid yet is added.
LEMMA PaidOnce ==
  ASSUME TypeOK, FeeInv, NEW t \in Tx \ Paid,
         fees' = fees + Fee[t], Paid' = Paid \cup {t}
  PROVE  (fees = FeesOf(Paid))'
<1>1. Fee \in [Tx -> Int]
  BY FeeAssumption
<1>2. SumFunctionOnSet(Fee, Paid \cup {t}) = SumFunctionOnSet(Fee, Paid) + Fee[t]
  BY <1>1, PaidType, SumOfMore
<1>3. fees = SumFunctionOnSet(Fee, Paid)
  BY DEF FeeInv, FeesOf
<1>4. fees' = SumFunctionOnSet(Fee, Paid \cup {t})
  BY <1>2, <1>3
<1>5. fees' = SumFunctionOnSet(Fee, Paid')
  BY <1>4, Zenon
<1> QED
  BY <1>5 DEF FeesOf

\* Every transaction spends something.
LEMMA SpendsSomething ==
  ASSUME NEW t \in Tx
  PROVE  Outpoints(t) # {}
<1>1. Ins[t] \in Seq((Tx \cup {Root}) \X Nat) /\ Ins[t] # <<>>
  BY InsAssumption
<1>2. 1 \in DOMAIN Ins[t]
  BY <1>1
<1> QED
  BY <1>2 DEF Outpoints, ToSet

LEMMA FeeStepInv ==
  ASSUME IInv, TypeOK', [Next]_vars
  PROVE  FeeInv'
<1> USE DEF IInv
<1>0. CASE UNCHANGED vars
  <2>1. /\ UNCHANGED <<fees, pc, snapshot, cursor, stack, txChain, template, kept>>
    BY <1>0 DEF vars, walkVars, filterVars
  <2> QED
    BY <2>1, SamePaid DEF FeeInv
<1>1. CASE Start
  <2>1. /\ pc = "idle" /\ cursor = 1 /\ kept = <<>> /\ template.txs = <<>> /\ stack = <<>>
        /\ UNCHANGED <<fees, cursor, stack, template, kept>> /\ pc' = "walk"
    BY <1>1 DEF Start, filterVars, FeeInv, FilterInv, WalkInv
  <2>2. Paid = {} /\ Paid' = {}
    BY <2>1 DEF Paid, ToSet
  <2>3. fees = SumFunctionOnSet(Fee, Paid)
    BY DEF FeeInv, FeesOf
  <2>4. fees' = SumFunctionOnSet(Fee, Paid')
    BY <2>1, <2>2, <2>3, Zenon
  <2>5. snapshot' \in Seq(Tx) /\ \A i, j \in DOMAIN snapshot' : snapshot'[i] = snapshot'[j] => i = j
    <3>1. snapshot' \in SetToSeqs(private) /\ private \in SUBSET Tx
      BY <1>1 DEF Start, TypeOK
    <3> QED
      BY <3>1, OrderType
  <2> QED
    BY <2>1, <2>4, <2>5 DEF FeeInv, FeesOf, ToSet
<1>2. CASE NextPrivate
  <2>1. /\ UNCHANGED <<fees, pc, snapshot, cursor, txChain, template, kept>>
        /\ stack' = <<[tx |-> snapshot[cursor], input |-> 1]>> /\ cursor <= Len(snapshot)
    BY <1>2 DEF NextPrivate, WalkStep, filterVars
  <2>2. stack'[1].tx = snapshot[cursor]
    BY <2>1
  <2> QED
    BY <2>1, <2>2, SamePaid DEF FeeInv
<1>3. CASE ParentVisited \/ ParentUnknown \/ ParentRpcFails
  <2>1. /\ UNCHANGED <<fees, pc, snapshot, cursor, txChain, template, kept>>
        /\ stack' = Advance(stack) /\ AtInput /\ stack \in Seq(Frame)
    BY <1>3 DEF ParentVisited, ParentUnknown, ParentRpcFails, LeaveOut, Visit, WalkStep, filterVars,
         TypeOK
  <2>2. stack # <<>> /\ 1 \in DOMAIN stack
    BY <2>1, AtInputType, StackType
  <2>3. stack'[1].tx = stack[1].tx
    BY <2>1, <2>2, AdvanceType
  <2> QED
    BY <2>1, <2>2, <2>3, SamePaid DEF FeeInv
<1>4. CASE ParentFound
  <2>1. /\ UNCHANGED <<fees, pc, snapshot, cursor, txChain, template, kept>>
        /\ stack' = Append(stack, [tx |-> NextParent, input |-> 1]) /\ AtInput
        /\ stack \in Seq(Frame) /\ NextParent \in Tx
    BY <1>4 DEF ParentFound, Visit, WalkStep, filterVars, TypeOK, Known
  <2>2. stack # <<>> /\ 1 \in DOMAIN stack
    BY <2>1, AtInputType, StackType
  <2>3. stack'[1].tx = stack[1].tx
    BY <2>1, <2>2, PushType
  <2> QED
    BY <2>1, <2>2, <2>3, SamePaid DEF FeeInv
<1>5. CASE PrependParent
  <2>1. /\ UNCHANGED <<fees, pc, snapshot, cursor, template, kept>>
        /\ stack' = Advance(Front(stack)) /\ txChain' = Cons(Top.tx, txChain) /\ Len(stack) > 1
        /\ stack \in Seq(Frame) /\ txChain \in Seq(Tx)
    BY <1>5 DEF PrependParent, WalkStep, filterVars, TypeOK
  <2>2. stack # <<>>
    BY <2>1
  <2>3. /\ Front(stack) \in Seq(Frame) /\ Len(Front(stack)) = Len(stack) - 1
        /\ 1 \in DOMAIN Front(stack) /\ Front(stack)[1] = stack[1] /\ Top.tx \in Tx
        /\ Front(stack) # <<>>
    <3>1. /\ Front(stack) \in Seq(Frame) /\ Len(Front(stack)) = Len(stack) - 1 /\ Top.tx \in Tx
          /\ \A k \in DOMAIN Front(stack) : Front(stack)[k] = stack[k]
      BY <2>1, <2>2, StackType
    <3>2. Len(Front(stack)) > 0 /\ 1 \in DOMAIN Front(stack)
      BY <2>1, <3>1
    <3> QED
      BY <3>1, <3>2, NotEmpty
  <2>4. stack'[1].tx = stack[1].tx
    BY <2>1, <2>3, AdvanceType
  <2>5. ToSet(txChain') = ToSet(txChain) \cup {Top.tx}
    <3>. txChain \in Seq(Tx) /\ Top.tx \in Tx
      BY <2>1, <2>3
    <3> QED
      BY <2>1, ConsSet
  <2> QED
    BY <2>1, <2>2, <2>4, <2>5, SamePaid DEF FeeInv
<1>6. CASE AppendPrivate
  <2>1. /\ UNCHANGED <<pc, snapshot, template, kept>> /\ pc = "walk"
        /\ stack' = <<>> /\ cursor' = cursor + 1
        /\ txChain' = Append(txChain, Top.tx) /\ fees' = fees + Fee[Top.tx]
        /\ stack \in Seq(Frame) /\ txChain \in Seq(Tx) /\ Len(stack) = 1
        /\ snapshot \in Seq(Tx) /\ cursor \in Nat \ {0}
    BY <1>6 DEF AppendPrivate, WalkStep, filterVars, TypeOK
  <2>2. stack # <<>>
    <3>. stack \in Seq(Frame) /\ Len(stack) > 0
      BY <2>1
    <3> QED
      BY NotEmpty
  <2>3. Top.tx = snapshot[cursor] /\ Top.tx \in Tx /\ cursor \in 1 .. Len(snapshot)
    BY <2>1, <2>2, StackType DEF FeeInv
  <2>4. kept = <<>>
    BY <2>1 DEF FilterInv
  <2>5. Paid = {snapshot[i] : i \in 1 .. cursor - 1} /\ Paid' = {snapshot[i] : i \in 1 .. cursor}
    BY <2>1, <2>4 DEF Paid, ToSet
  <2>6. Paid' = Paid \cup {Top.tx}
    BY <2>3, <2>5
  <2>7. Top.tx \notin Paid
    BY <2>1, <2>3, <2>5 DEF FeeInv
  <2>8. (fees = FeesOf(Paid))'
    BY <2>1, <2>3, <2>6, <2>7, PaidOnce
  <2>9. ToSet(txChain') = ToSet(txChain) \cup {Top.tx}
    BY <2>1, <2>3, AppendSet
  <2>10. \A i \in 1 .. cursor' - 1 : snapshot'[i] \in ToSet(txChain')
    BY <2>1, <2>3, <2>9 DEF FeeInv
  <2> QED
    BY <2>1, <2>3, <2>8, <2>10 DEF FeeInv
<1>7. CASE WalkEnds \/ FilterEnds \/ Propose \/ TemplateRpcFails
  <2>1. UNCHANGED <<fees, snapshot, cursor, stack, txChain, template, kept>> /\ pc' # "idle"
    BY <1>7 DEF WalkEnds, FilterEnds, Propose, TemplateRpcFails, Answer, WalkStep, walkVars,
         filterVars
  <2> QED
    BY <2>1, SamePaid DEF FeeInv
<1>7a. CASE WalkThrows
  <2>1. /\ UNCHANGED <<fees, snapshot, cursor, txChain, template, kept>> /\ pc' # "idle"
        /\ stack' = <<>>
    BY <1>7a DEF WalkThrows, Answer, filterVars
  <2> QED
    BY <2>1, SamePaid DEF FeeInv
<1>8. CASE GetTemplate
  <2>1. /\ UNCHANGED <<fees, snapshot, cursor, stack, txChain, kept>> /\ pc' # "idle"
        /\ kept = <<>>
    BY <1>8 DEF GetTemplate, walkVars, FilterInv
  <2>2. PICK S \in SUBSET mempool : \E s \in TopologicalOrders(S) :
          template' = [txs |-> s, tip |-> tip]
    BY <1>8 DEF GetTemplate
  <2>. PICK s \in TopologicalOrders(S) : template' = [txs |-> s, tip |-> tip]
    BY <2>2
  <2>3. S \in SUBSET Tx /\ s \in SetToSeqs(S) /\ template'.txs = s
    BY DEF TypeOK, TopologicalOrders
  <2>4. \A i, j \in DOMAIN s : s[i] = s[j] => i = j
    BY <2>3, OrderType
  <2>5. ToSet(kept') = {}
    BY <2>1 DEF ToSet
  <2> QED
    BY <2>1, <2>3, <2>4, <2>5, SamePaid DEF FeeInv
<1>9. CASE RemoveCandidate \/ KeepCandidate
  <2>. DEFINE rest == template.txs
              t == Candidate
  <2>1. /\ UNCHANGED <<snapshot, cursor, stack, txChain>> /\ pc' # "idle"
        /\ rest # <<>> /\ rest \in Seq(Tx) /\ rest' = Tail(rest) /\ t = Head(rest)
        /\ kept \in Seq(Tx)
    BY <1>9 DEF RemoveCandidate, KeepCandidate, FilterStep, walkVars, TypeOK, Candidate
  <2>2. /\ t \in Tx /\ ToSet(rest) = ToSet(rest') \cup {t}
        /\ \A i \in DOMAIN rest' : rest'[i] = rest[i + 1] /\ i + 1 \in DOMAIN rest
        /\ rest' \in Seq(Tx)
    BY <2>1, TailSet
  <2>3. 1 \in DOMAIN rest /\ rest[1] = t /\ DOMAIN rest' = 1 .. Len(rest') /\ Len(rest') \in Nat
    BY <2>1, <2>2
  <2>4. \A i, j \in DOMAIN rest : rest[i] = rest[j] => i = j
    BY DEF FeeInv
  <2>. HIDE DEF rest, t
  <2>5. \A i, j \in DOMAIN rest' : rest'[i] = rest'[j] => i = j
    <3> SUFFICES ASSUME NEW i \in DOMAIN rest', NEW j \in DOMAIN rest', rest'[i] = rest'[j]
                 PROVE  i = j
      OBVIOUS
    <3>1. i + 1 = j + 1 /\ i \in Nat /\ j \in Nat
      BY <2>2, <2>3, <2>4
    <3> QED
      BY <3>1
  <2>6. t \notin ToSet(rest')
    <3> SUFFICES ASSUME NEW i \in DOMAIN rest', rest'[i] = t
                 PROVE  FALSE
      BY DEF ToSet
    <3>1. i + 1 = 1 /\ i \in Nat \ {0}
      BY <2>2, <2>3, <2>4
    <3> QED
      BY <3>1
  <2>7. ToSet(kept) \cap ToSet(rest) = {}
    BY DEF FeeInv, rest
  <2>8. CASE RemoveCandidate
    <3>1. UNCHANGED <<fees, kept>>
      BY <2>8 DEF RemoveCandidate
    <3>2. ToSet(kept)' \cap ToSet(rest)' = {}
      BY <2>2, <2>7, <3>1
    <3> QED
      BY <2>1, <2>5, <3>1, <3>2, SamePaid DEF FeeInv, rest
  <2>9. CASE KeepCandidate
    <3>1. kept' = Append(kept, t) /\ fees' = fees + Fee[t] /\ Outpoints(t) \cap AlreadySpent = {}
      BY <2>9 DEF KeepCandidate, ShouldRemove, t
    <3>2. ToSet(kept') = ToSet(kept) \cup {t}
      BY <2>1, <2>2, <3>1, AppendSet
    <3>3. ToSet(kept)' \cap ToSet(rest)' = {}
      BY <2>2, <2>6, <2>7, <3>2
    <3>4. t \notin ToSet(txChain)
      BY <2>2, <3>1, SpendsSomething DEF AlreadySpent, SpentBy
    <3>5. t \notin Paid
      BY <2>2, <2>7, <3>4 DEF FeeInv, Paid
    <3>6. Paid' = Paid \cup {t}
      BY <2>1, <3>2 DEF Paid
    <3>7. (fees = FeesOf(Paid))'
      BY <2>2, <3>1, <3>5, <3>6, PaidOnce
    <3> QED
      BY <2>1, <2>5, <3>3, <3>7 DEF FeeInv, rest
  <2> QED
    BY <1>9, <2>8, <2>9
<1>10. CASE Respond
  <2>1. /\ fees' = 0 /\ cursor' = 1 /\ snapshot' = <<>> /\ stack' = <<>> /\ kept' = <<>>
        /\ template'.txs = <<>>
    BY <1>10 DEF Respond, NoTemplate
  <2>2. Paid' = {}
    BY <2>1 DEF Paid, ToSet
  <2>3. SumFunctionOnSet(Fee, Paid') = 0
    BY <2>2, SumOfNone, Zenon
  <2> QED
    BY <2>1, <2>3 DEF FeeInv, FeesOf, ToSet
<1>11. CASE MempoolChanges \/ BlockArrives
  <2>1. UNCHANGED <<fees, pc, snapshot, cursor, stack, txChain, template, kept>>
    BY <1>11 DEF MempoolChanges, BlockArrives, NodeEvent, walkVars, filterVars
  <2> QED
    BY <2>1, SamePaid DEF FeeInv
<1>12. CASE \E t \in Tx : AddPrivate(t) \/ RemovePrivate(t)
  <2>1. UNCHANGED <<fees, pc, snapshot, cursor, stack, txChain, template, kept>>
    BY <1>12 DEF AddPrivate, RemovePrivate, PoolEvent, walkVars, filterVars
  <2> QED
    BY <2>1, SamePaid DEF FeeInv
<1> QED
  BY <1>0, <1>1, <1>2, <1>3, <1>4, <1>5, <1>6, <1>7, <1>7a, <1>8, <1>9, <1>10, <1>11, <1>12
  DEF Next, Handler

\* What is paid for stays so, but when a request begins or ends.
LEMMA PaidGrows ==
  ASSUME IInv, TypeOK', [Next]_vars, ~ Start, ~ Respond
  PROVE  Paid \subseteq Paid'
<1> USE DEF IInv
<1>1. CASE UNCHANGED <<snapshot, cursor, kept>>
  BY <1>1 DEF Paid, ToSet
<1>2. CASE AppendPrivate
  <2>1. /\ UNCHANGED <<snapshot, kept>> /\ cursor' = cursor + 1 /\ cursor \in Nat
    BY <1>2 DEF AppendPrivate, WalkStep, filterVars, TypeOK
  <2>2. \A i \in 1 .. cursor - 1 : i \in 1 .. cursor' - 1
    BY <2>1
  <2> QED
    BY <2>1, <2>2 DEF Paid, ToSet
<1>3. CASE KeepCandidate
  <2>1. UNCHANGED <<snapshot, cursor>> /\ kept' = Append(kept, Candidate) /\ kept \in Seq(Tx)
    BY <1>3 DEF KeepCandidate, FilterStep, walkVars, TypeOK
  <2>2. Candidate \in Tx
    BY <1>3, TailSet DEF KeepCandidate, FilterStep, Candidate, TypeOK
  <2>3. ToSet(kept) \subseteq ToSet(kept')
    BY <2>1, <2>2, AppendSet
  <2> QED
    BY <2>1, <2>3 DEF Paid
<1>4. CASE \/ UNCHANGED vars \/ NextPrivate \/ ParentVisited \/ ParentFound \/ ParentUnknown
           \/ ParentRpcFails \/ WalkThrows \/ PrependParent \/ WalkEnds \/ RemoveCandidate
           \/ FilterEnds \/ Propose \/ TemplateRpcFails \/ MempoolChanges \/ BlockArrives
           \/ \E t \in Tx : AddPrivate(t) \/ RemovePrivate(t)
  BY <1>1, <1>4 DEF vars, walkVars, filterVars, NextPrivate, ParentVisited, ParentFound, ParentUnknown,
       ParentRpcFails, LeaveOut, WalkThrows, PrependParent, WalkEnds, WalkStep, RemoveCandidate,
       FilterStep, FilterEnds, Propose, TemplateRpcFails, MempoolChanges, BlockArrives, NodeEvent, AddPrivate, RemovePrivate,
       PoolEvent
<1>5. CASE GetTemplate
  BY <1>1, <1>5 DEF GetTemplate, walkVars
<1> QED
  BY <1>2, <1>3, <1>4, <1>5 DEF Next, Handler

\* A step that leaves the chain, and of the stack no more than the frame of a
\* private transaction or a position, leaves what is not paid for.
LEMMA SameUnpaid ==
  ASSUME UnpaidInv, Paid \subseteq Paid', txChain' = txChain,
         \A k \in DOMAIN stack' : k > 1 => k \in DOMAIN stack /\ stack'[k].tx = stack[k].tx
  PROVE  UnpaidInv'
<1>1. \A t \in ToSet(txChain') : t \in Paid' \/ Fee[t] >= 0
  BY DEF UnpaidInv, ToSet
<1>2. ASSUME NEW k \in DOMAIN stack', k > 1 PROVE Fee[stack'[k].tx] >= 0
  BY <1>2 DEF UnpaidInv
<1> QED
  BY <1>1, <1>2 DEF UnpaidInv

LEMMA UnpaidStepInv ==
  ASSUME IInv, TypeOK', [Next]_vars
  PROVE  UnpaidInv'
<1> USE DEF IInv
<1>0. CASE Start \/ Respond
  <2>1. txChain' = <<>> /\ stack' = <<>>
    BY <1>0 DEF Start, Respond, FilterInv, FeeInv, WalkInv
  <2> QED
    BY <2>1 DEF UnpaidInv, ToSet
<1> SUFFICES ASSUME ~ Start, ~ Respond PROVE UnpaidInv'
  BY <1>0
<1>1. Paid \subseteq Paid'
  BY PaidGrows
<1>2. CASE UNCHANGED <<txChain, stack>>
  BY <1>1, <1>2, SameUnpaid
<1>3. CASE NextPrivate
  <2>1. txChain' = txChain /\ stack' = <<[tx |-> snapshot[cursor], input |-> 1]>>
    BY <1>3 DEF NextPrivate
  <2>2. DOMAIN stack' = {1}
    BY <2>1
  <2> QED
    BY <1>1, <2>1, <2>2, SameUnpaid
<1>4. CASE ParentVisited \/ ParentUnknown \/ ParentRpcFails
  <2>1. txChain' = txChain /\ stack' = Advance(stack) /\ AtInput /\ stack \in Seq(Frame)
    BY <1>4 DEF ParentVisited, ParentUnknown, ParentRpcFails, LeaveOut, Visit, TypeOK
  <2>2. stack # <<>>
    BY <2>1, AtInputType
  <2>3. DOMAIN stack' = DOMAIN stack /\ \A k \in DOMAIN stack : stack'[k].tx = stack[k].tx
    BY <2>1, <2>2, AdvanceType
  <2> QED
    BY <1>1, <2>1, <2>3, SameUnpaid
<1>5. CASE ParentFound
  <2>1. /\ txChain' = txChain /\ stack' = Append(stack, [tx |-> NextParent, input |-> 1])
        /\ stack \in Seq(Frame) /\ NextParent \in mempool /\ NextParent \in Tx
    BY <1>5 DEF ParentFound, Visit, TypeOK, Known
  <2>2. Fee[NextParent] >= 0
    BY <2>1 DEF ProposalInv, Coherent
  <2>3. /\ stack' \in Seq(Frame) /\ Len(stack') = Len(stack) + 1
        /\ stack'[Len(stack) + 1].tx = NextParent
        /\ \A k \in DOMAIN stack : stack'[k] = stack[k]
    BY <2>1, PushType
  <2>4. \A k \in DOMAIN stack' : k \in DOMAIN stack \/ k = Len(stack) + 1
    BY <2>1, <2>3
  <2>5. \A t \in ToSet(txChain') : t \in Paid' \/ Fee[t] >= 0
    BY <1>1, <2>1 DEF UnpaidInv, ToSet
  <2>6. ASSUME NEW k \in DOMAIN stack', k > 1 PROVE Fee[stack'[k].tx] >= 0
    BY <2>2, <2>3, <2>4, <2>6 DEF UnpaidInv
  <2> QED
    BY <2>5, <2>6 DEF UnpaidInv
<1>6. CASE PrependParent
  <2>1. /\ txChain' = Cons(Top.tx, txChain) /\ stack' = Advance(Front(stack)) /\ Len(stack) > 1
        /\ stack \in Seq(Frame) /\ txChain \in Seq(Tx)
    BY <1>6 DEF PrependParent, TypeOK
  <2>2. stack # <<>> /\ Len(stack) \in DOMAIN stack /\ Top = stack[Len(stack)]
    BY <2>1 DEF Top, Last
  <2>3. Fee[Top.tx] >= 0
    BY <2>1, <2>2 DEF UnpaidInv
  <2>4. /\ Front(stack) \in Seq(Frame) /\ Len(Front(stack)) = Len(stack) - 1 /\ Top.tx \in Tx
        /\ \A k \in DOMAIN Front(stack) : Front(stack)[k] = stack[k]
    BY <2>1, <2>2, StackType
  <2>5. Front(stack) # <<>>
    <3>1. Len(Front(stack)) > 0
      BY <2>1, <2>4
    <3> QED
      BY <2>4, <3>1, NotEmpty
  <2>6. /\ DOMAIN stack' = DOMAIN Front(stack)
        /\ \A k \in DOMAIN Front(stack) : stack'[k].tx = Front(stack)[k].tx
    BY <2>1, <2>4, <2>5, AdvanceType
  <2>7. DOMAIN Front(stack) \subseteq DOMAIN stack
    BY <2>1, <2>4
  <2>8. ASSUME NEW k \in DOMAIN stack', k > 1 PROVE Fee[stack'[k].tx] >= 0
    BY <2>4, <2>6, <2>7, <2>8 DEF UnpaidInv
  <2>9. ToSet(txChain') = ToSet(txChain) \cup {Top.tx}
    <3>. txChain \in Seq(Tx) /\ Top.tx \in Tx
      BY <2>1, <2>4
    <3> QED
      BY <2>1, ConsSet
  <2> QED
    BY <1>1, <2>3, <2>8, <2>9 DEF UnpaidInv
<1>7. CASE AppendPrivate
  <2>1. /\ stack' = <<>> /\ txChain' = Append(txChain, Top.tx) /\ cursor' = cursor + 1
        /\ snapshot' = snapshot /\ stack \in Seq(Frame) /\ txChain \in Seq(Tx) /\ Len(stack) = 1
        /\ cursor \in Nat \ {0}
    BY <1>7 DEF AppendPrivate, TypeOK
  <2>2. stack # <<>>
    <3>. stack \in Seq(Frame) /\ Len(stack) > 0
      BY <2>1
    <3> QED
      BY NotEmpty
  <2>3. Top.tx = snapshot[cursor] /\ Top.tx \in Tx /\ cursor \in 1 .. cursor' - 1
    BY <2>1, <2>2, StackType DEF FeeInv
  <2>4. Top.tx \in Paid'
    BY <2>1, <2>3 DEF Paid
  <2>5. ToSet(txChain') = ToSet(txChain) \cup {Top.tx}
    BY <2>1, <2>3, AppendSet
  <2> QED
    BY <1>1, <2>1, <2>4, <2>5 DEF UnpaidInv
<1>8. CASE \/ UNCHANGED vars \/ WalkEnds \/ RemoveCandidate \/ KeepCandidate
           \/ FilterEnds \/ Propose \/ TemplateRpcFails \/ MempoolChanges \/ BlockArrives
           \/ \E t \in Tx : AddPrivate(t) \/ RemovePrivate(t)
  BY <1>2, <1>8 DEF vars, walkVars, WalkEnds, WalkStep, RemoveCandidate, KeepCandidate,
       FilterStep, FilterEnds, Propose, TemplateRpcFails, MempoolChanges, BlockArrives, NodeEvent,
       AddPrivate, RemovePrivate, PoolEvent
<1>9. CASE GetTemplate
  BY <1>2, <1>9 DEF GetTemplate, walkVars
<1>10. CASE WalkThrows
  <2>1. stack' = <<>> /\ txChain' = txChain
    BY <1>10 DEF WalkThrows
  <2> QED
    BY <1>1, <2>1, SameUnpaid
<1> QED
  BY <1>3, <1>4, <1>5, <1>6, <1>7, <1>8, <1>9, <1>10 DEF Next, Handler

-----------------------------------------------------------------------------
(* The proposal of a servable pool                                         *)

\* The parents of transactions are among their ancestors.
LEMMA ParentsAreAncestors ==
  ASSUME NEW S \in SUBSET Tx
  PROVE  S \cup UNION {Parents(t) : t \in S} \subseteq Ancestors(S)
<1> DEFINE V == SUBSET Tx
           More(T) == T \cup UNION {Parents(t) : t \in T}
           F == [p \in Nat \X V |-> More(p[2])]
           up[n \in Nat] == IF n = 0 THEN S ELSE up[n - 1] \cup UNION {Parents(t) : t \in up[n - 1]}
<1>1. \A T \in V : More(T) \in V
  BY OwnerType DEF Parents
<1>2. F \in [Nat \X V -> V] /\ \A n \in Nat, T \in V : F[<<n, T>>] = More(T)
  BY <1>1
<1>3. PICK f \in [Nat -> V] : Recursion(f, S, F)
  <2>1. S \in V /\ F \in [Nat \X V -> V]
    BY <1>2
  <2> HIDE DEF F, V
  <2> QED
    BY <2>1, RecursionOfNat
<1>4. f = [n \in Nat |-> IF n = 0 THEN S ELSE More(f[n - 1])]
  <2>1. ASSUME NEW n \in Nat, n # 0 PROVE F[<<n - 1, f[n - 1]>>] = More(f[n - 1])
    <3>1. n - 1 \in Nat /\ f[n - 1] \in V
      BY <2>1
    <3> QED
      BY <1>2, <3>1
  <2> HIDE DEF F, More
  <2> QED
    BY <1>3, <2>1 DEF Recursion
<1>5. up = [n \in Nat |-> IF n = 0 THEN S ELSE More(up[n - 1])]
  BY <1>4
<1>6. Ancestors(S) = up[Cardinality(Tx)]
  BY DEF Ancestors
<1> HIDE DEF up
<1>7. up[0] = S /\ up[1] = More(S)
  BY <1>5
<1>8. \A n \in Nat : up[n + 1] = More(up[n])
  BY <1>5
<1>9. \A n \in Nat : More(S) \subseteq up[n + 1]
  <2> DEFINE N == {n \in Nat : More(S) \subseteq up[n + 1]}
  <2>1. 0 \in N
    BY <1>7
  <2>2. ASSUME NEW n \in Nat, n \in N PROVE n + 1 \in N
    <3>1. up[(n + 1) + 1] = More(up[n + 1])
      BY <1>8
    <3> QED
      BY <2>2, <3>1
  <2>3. Nat \subseteq N
    <3> HIDE DEF N
    <3> QED
      BY <2>1, <2>2, NatInductionSet
  <2> QED
    BY <2>3
<1>10. CASE S # {}
  <2>1. Tx # {} /\ Cardinality(Tx) \in Nat
    BY <1>10, TxAssumption, FS_CardinalityType
  <2>2. Cardinality(Tx) # 0
    BY <2>1, TxAssumption, FS_EmptySet
  <2>3. Cardinality(Tx) - 1 \in Nat /\ (Cardinality(Tx) - 1) + 1 = Cardinality(Tx)
    BY <2>1, <2>2
  <2>4. More(S) \subseteq up[(Cardinality(Tx) - 1) + 1]
    BY <1>9, <2>3
  <2> QED
    BY <1>6, <2>3, <2>4
<1> QED
  BY <1>10

\* What a servable pool is, without the ancestors further up.
LEMMA ServableMeans ==
  ASSUME TypeOK, Coherent(confirmed, tip, mempool), Servable(ToSet(snapshot))
  PROVE  LET S == ToSet(snapshot)
         IN  /\ S \subseteq Tx
             /\ \A t, u \in S : t \notin Parents(u)
             /\ \A t \in S : Parents(t) \subseteq confirmed \cup PublicParents
             /\ \A p \in PublicParents :
                  Parents(p) \subseteq confirmed /\ Parents(p) \cap mempool = {}
             /\ \A t \in S \cup PublicParents : Outpoints(t) \cap SpentBy(confirmed) = {}
             /\ \A t, u \in S \cup PublicParents : ~ Conflict(t, u)
             /\ \A t \in S \cup PublicParents : Fee[t] >= 0 /\ FinalAt[t] <= tip
<1> DEFINE S == ToSet(snapshot)
           up == Ancestors(S) \cap mempool
<1>1. S \in SUBSET Tx
  BY DEF TypeOK, ToSet
<1>2. /\ Coherent(confirmed, tip, S \cup up)
      /\ \A t, u \in S : t \notin Parents(u)
      /\ \A t \in up \ S : Parents(t) \cap mempool = {}
  BY DEF Servable
<1>3. PublicParents \subseteq up \ S
  BY <1>1, ParentsAreAncestors DEF PublicParents
<1>. HIDE DEF up
<1>4. ASSUME NEW t \in S PROVE Parents(t) \subseteq confirmed \cup PublicParents
  <2>1. Parents(t) \subseteq confirmed \cup S \cup up
    BY <1>2 DEF Coherent
  <2> QED
    BY <1>2, <2>1 DEF PublicParents, up
<1>5. ASSUME NEW p \in PublicParents PROVE Parents(p) \subseteq confirmed
  <2>1. Parents(p) \subseteq confirmed \cup mempool
    BY DEF PublicParents, Coherent
  <2> QED
    BY <1>2, <1>3, <2>1
<1>6. \A t \in S \cup PublicParents : Outpoints(t) \cap SpentBy(confirmed) = {}
  BY <1>2, <1>3 DEF Coherent, SpentBy
<1>7. \A t, u \in S \cup PublicParents : ~ Conflict(t, u)
  BY <1>2, <1>3 DEF Coherent
<1>8. \A t \in S \cup PublicParents : Fee[t] >= 0 /\ FinalAt[t] <= tip
  BY <1>2, <1>3 DEF Coherent, Final
<1> QED
  BY <1>1, <1>2, <1>3, <1>4, <1>5, <1>6, <1>7, <1>8

LEMMA SameServable ==
  ASSUME mempool' = mempool, confirmed' = confirmed, tip' = tip, snapshot' = snapshot
  PROVE  /\ Servable(ToSet(snapshot))' <=> Servable(ToSet(snapshot))
         /\ PublicParents' = PublicParents
<1>1. ToSet(snapshot)' = ToSet(snapshot)
  BY DEF ToSet
<1>2. PublicParents' = PublicParents
  BY <1>1 DEF PublicParents
<1>3. Servable(ToSet(snapshot))' <=> Servable(ToSet(snapshot))
  BY <1>1 DEF Servable, Coherent, Final
<1> QED
  BY <1>2, <1>3

\* The node's mempool can always follow its chain.
LEMMA NodeStep ==
  ASSUME IInv, [Next]_vars
  PROVE  Coherent(confirmed, tip, mempool)'
<1>1. Coherent(confirmed, tip, mempool)
  BY DEF IInv, ProposalInv
<1>2. CASE MempoolChanges
  BY <1>2 DEF MempoolChanges, Coherent
<1>3. CASE BlockArrives
  BY <1>3 DEF BlockArrives, Coherent
<1>4. CASE UNCHANGED <<mempool, confirmed, tip>>
  BY <1>1, <1>4 DEF Coherent, Final
<1>5. CASE Start \/ Handler \/ UNCHANGED vars \/ \E t \in Tx : AddPrivate(t) \/ RemovePrivate(t)
  <2>1. UNCHANGED nodeVars
    BY <1>5 DEF Start, Handler, NextPrivate, ParentVisited, ParentFound, ParentUnknown,
         ParentRpcFails, WalkThrows, PrependParent, AppendPrivate, WalkEnds, WalkStep, GetTemplate,
         RemoveCandidate, KeepCandidate, FilterStep, FilterEnds, Propose, TemplateRpcFails, Respond,
         AddPrivate, RemovePrivate, PoolEvent, vars
  <2> QED
    BY <1>4, <2>1 DEF nodeVars
<1> QED
  BY <1>2, <1>3, <1>5 DEF Next

\* A step after which the request is still quiet: the node and the copy of the
\* pool are those of before.
LEMMA QuietStep ==
  ASSUME [Next]_vars, quiet', ~ Start, ~ Respond
  PROVE  quiet /\ UNCHANGED <<mempool, confirmed, tip, snapshot>>
<1> USE DEF nodeVars, walkVars, WalkStep
<1>1. CASE UNCHANGED vars
  BY <1>1 DEF vars
<1>2. CASE \/ NextPrivate \/ ParentVisited \/ ParentFound \/ ParentUnknown \/ ParentRpcFails
           \/ WalkThrows \/ PrependParent \/ AppendPrivate \/ WalkEnds
  BY <1>2 DEF NextPrivate, ParentVisited, ParentFound, ParentUnknown, ParentRpcFails, LeaveOut,
       WalkThrows, PrependParent, AppendPrivate, WalkEnds, RpcFails
<1>3. CASE \/ GetTemplate \/ RemoveCandidate \/ KeepCandidate \/ FilterEnds \/ Propose
           \/ TemplateRpcFails
  BY <1>3 DEF GetTemplate, RemoveCandidate, KeepCandidate, FilterStep, FilterEnds, Propose,
       TemplateRpcFails, RpcFails
<1>4. CASE MempoolChanges \/ BlockArrives
  BY <1>4 DEF MempoolChanges, BlockArrives, NodeEvent
<1>5. CASE \E t \in Tx : AddPrivate(t) \/ RemovePrivate(t)
  BY <1>5 DEF AddPrivate, RemovePrivate, PoolEvent
<1> QED
  BY <1>1, <1>2, <1>3, <1>4, <1>5 DEF Next, Handler

\* The chain of before, in numbers.
LEMMA ChainType ==
  ASSUME IInv, ChainInv
  PROVE  LET n == Len(txChain) - (cursor - 1)
         IN  /\ n \in Nat /\ cursor \in Nat \ {0} /\ Len(txChain) = n + (cursor - 1)
             /\ DOMAIN txChain = 1 .. Len(txChain) /\ txChain \in Seq(Tx)
             /\ cursor - 1 <= Len(snapshot) /\ DOMAIN snapshot = 1 .. Len(snapshot)
             /\ Len(snapshot) \in Nat
             /\ \A i \in 1 .. n : txChain[i] \in PublicParents \cap visited
             /\ \A i \in 1 .. cursor - 1 : txChain[n + i] = snapshot[i]
             /\ \A t \in ToSet(txChain) : t \in PublicParents \cap visited \/ t \in ToSet(snapshot)
<1> DEFINE n == Len(txChain) - (cursor - 1)
<1>1. /\ txChain \in Seq(Tx) /\ snapshot \in Seq(Tx) /\ cursor \in Nat \ {0}
      /\ cursor <= Len(snapshot) + 1
  BY DEF IInv, TypeOK, FeeInv
<1>2. /\ n \in Nat
      /\ \A i \in 1 .. n : txChain[i] \in PublicParents \cap visited
      /\ \A i \in 1 .. cursor - 1 : txChain[n + i] = snapshot[i]
  BY DEF ChainInv
<1>3. Len(txChain) = n + (cursor - 1)
  BY <1>1
<1> HIDE DEF n
<1>4. ASSUME NEW k \in 1 .. Len(txChain)
      PROVE  txChain[k] \in PublicParents \cap visited \/ txChain[k] \in ToSet(snapshot)
  <2>1. CASE k \in 1 .. n
    BY <1>2, <2>1
  <2>2. CASE k \notin 1 .. n
    <3>1. k - n \in 1 .. cursor - 1 /\ n + (k - n) = k /\ k - n \in DOMAIN snapshot
      BY <1>1, <1>2, <1>3, <2>2
    <3>2. txChain[k] = snapshot[k - n]
      BY <1>2, <3>1
    <3> QED
      BY <3>1, <3>2 DEF ToSet
  <2> QED
    BY <2>1, <2>2
<1>5. \A t \in ToSet(txChain) : t \in PublicParents \cap visited \/ t \in ToSet(snapshot)
  BY <1>1, <1>4 DEF ToSet
<1> QED
  BY <1>1, <1>2, <1>3, <1>5 DEF n

LEMMA ChainStep ==
  ASSUME IInv, TypeOK', [Next]_vars, ~ Start, ~ Respond, quiet',
         Servable(ToSet(snapshot))'
  PROVE  ChainInv'
<1> DEFINE n == Len(txChain) - (cursor - 1)
           S == ToSet(snapshot)
<1>1. quiet /\ UNCHANGED <<mempool, confirmed, tip, snapshot>>
  BY QuietStep
<1>2. PublicParents' = PublicParents /\ Servable(S)
  BY <1>1, SameServable
<1>3. ChainInv
  BY <1>1, <1>2 DEF IInv, ProposalInv
<1>4. TypeOK /\ Coherent(confirmed, tip, mempool) /\ FeeInv /\ WalkInv
  BY DEF IInv, ProposalInv
<1>5. /\ \A t, u \in S : t \notin Parents(u)
      /\ \A p \in PublicParents : Parents(p) \cap mempool = {}
  BY <1>2, <1>4, ServableMeans
<1>6. /\ n \in Nat /\ cursor \in Nat \ {0} /\ Len(txChain) = n + (cursor - 1)
      /\ \A t \in ToSet(txChain) : t \in PublicParents \cap visited \/ t \in S
      /\ txChain \in Seq(Tx) /\ stack \in Seq(Frame) /\ Len(stack) \in Nat
  BY <1>3, <1>4, ChainType DEF TypeOK
<1>7. /\ \A i \in 1 .. cursor - 1 : txChain[n + i] = snapshot[i]
      /\ \A i \in 1 .. n : txChain[i] \in PublicParents \cap visited
      /\ \A i, j \in 1 .. n : txChain[i] = txChain[j] => i = j
      /\ Len(stack) \in 0 .. 2
      /\ Len(stack) = 2 => stack[2].tx \in (PublicParents \cap visited) \ ToSet(txChain)
  BY <1>3 DEF ChainInv
<1>d. Len(stack) \in 0 .. 2
  BY <1>6, <1>7
<1>. HIDE DEF S
\* The chain stands still, and the walk is not at one more parent.
<1>8. ASSUME txChain' = txChain, cursor' = cursor, visited \subseteq visited', Len(stack') \in 0 .. 2,
             Len(stack') = 2 => stack'[2].tx \in (PublicParents \cap visited') \ ToSet(txChain)
      PROVE  ChainInv'
  BY <1>1, <1>2, <1>6, <1>7, <1>8 DEF ChainInv, ToSet
<1>9. CASE UNCHANGED vars
  BY <1>7, <1>8, <1>9 DEF vars, walkVars
<1>10. CASE NextPrivate
  <2>1. /\ txChain' = txChain /\ cursor' = cursor /\ visited' = visited
        /\ stack' = <<[tx |-> snapshot[cursor], input |-> 1]>>
    BY <1>10 DEF NextPrivate
  <2>2. Len(stack') = 1
    BY <2>1
  <2> QED
    BY <1>8, <2>1, <2>2
<1>11. CASE ParentVisited \/ ParentUnknown \/ ParentRpcFails
  <2>1. /\ txChain' = txChain /\ cursor' = cursor /\ visited \subseteq visited'
        /\ stack' = Advance(stack) /\ AtInput
    BY <1>11 DEF ParentVisited, ParentUnknown, ParentRpcFails, LeaveOut, Visit
  <2>2. stack # <<>>
    BY <1>6, <2>1, AtInputType
  <2>3. Len(stack') = Len(stack) /\ \A k \in DOMAIN stack : stack'[k].tx = stack[k].tx
    BY <1>6, <2>1, <2>2, AdvanceType
  <2>4. Len(stack) = 2 => 2 \in DOMAIN stack
    BY <1>6
  <2> QED
    BY <1>7, <1>8, <2>1, <2>3, <2>4
<1>12. CASE ParentFound
  <2>1. /\ txChain' = txChain /\ cursor' = cursor /\ visited' = visited \cup {NextParent}
        /\ stack' = Append(stack, [tx |-> NextParent, input |-> 1])
        /\ AtInput /\ NextParent \in mempool /\ NextParent \notin visited
    BY <1>12 DEF ParentFound, Visit, Known
  <2>2. /\ NextParent \in Tx /\ Root \notin Tx /\ stack # <<>>
        /\ Top.input \in DOMAIN Ins[Top.tx] /\ NextParent = Ins[Top.tx][Top.input][1]
    BY <1>4, <1>6, <2>1, AtInputType, TxAssumption DEF TypeOK
  <2>3. /\ Len(stack) \in Nat \ {0} /\ Top = stack[Len(stack)] /\ Top.tx \in Tx
        /\ Len(stack') = Len(stack) + 1
        /\ stack'[Len(stack) + 1] = [tx |-> NextParent, input |-> 1]
    BY <1>6, <2>1, <2>2, StackType, PushType
  <2>4. NextParent \in Parents(Top.tx)
    BY <2>2, <2>3, InType DEF Parents
  <2>5. Len(stack) = 1
    <3>1. Len(stack) # 2
      BY <1>5, <1>7, <2>1, <2>3, <2>4
    <3> QED
      BY <1>d, <2>3, <3>1
  <2>6. Top.tx = snapshot[cursor] /\ cursor \in DOMAIN snapshot
    <3>1. snapshot \in Seq(Tx) /\ cursor \in Nat \ {0}
      BY <1>4, <1>6 DEF TypeOK
    <3>2. cursor <= Len(snapshot) /\ stack[1].tx = snapshot[cursor]
      BY <1>4, <2>2 DEF FeeInv
    <3> QED
      BY <2>3, <2>5, <3>1, <3>2
  <2>7. Top.tx \in S
    BY <2>6 DEF S, ToSet
  <2>8. NextParent \in PublicParents
    BY <1>5, <2>1, <2>4, <2>7 DEF PublicParents, S
  <2>9. NextParent \notin ToSet(txChain)
    BY <1>5, <1>6, <2>1, <2>4, <2>7
  <2>10. Len(stack') = 2 /\ stack'[2].tx = NextParent
    BY <2>3, <2>5
  <2> QED
    BY <1>8, <2>1, <2>8, <2>9, <2>10
<1>13. CASE PrependParent
  <2>1. /\ cursor' = cursor /\ visited' = visited /\ Len(stack) > 1
        /\ txChain' = Cons(Top.tx, txChain) /\ stack' = Advance(Front(stack))
    BY <1>13 DEF PrependParent
  <2>2. Len(stack) = 2 /\ stack # <<>>
    <3>1. Len(stack) = 2
      <4> DEFINE d == Len(stack)
      <4>1. d \in 0 .. 2 /\ d > 1
        BY <1>d, <2>1
      <4> HIDE DEF d
      <4>2. d = 2
        BY <4>1
      <4> QED
        BY <4>2 DEF d
    <3>. stack \in Seq(Frame) /\ Len(stack) > 0
      BY <1>6, <3>1
    <3> QED
      BY <3>1, NotEmpty
  <2>3. /\ Top = stack[2] /\ Top.tx \in Tx /\ Front(stack) \in Seq(Frame) /\ Len(Front(stack)) = 1
    BY <1>6, <2>2, StackType
  <2>4. Front(stack) # <<>>
    <3>. Front(stack) \in Seq(Frame) /\ Len(Front(stack)) > 0
      BY <2>3
    <3> QED
      BY NotEmpty
  <2>5. Len(stack') = 1
    BY <2>1, <2>3, <2>4, AdvanceType
  <2>6. /\ Len(txChain') = Len(txChain) + 1 /\ txChain'[1] = Top.tx
        /\ \A i \in 1 .. Len(txChain) : txChain'[i + 1] = txChain[i]
    <3>. txChain \in Seq(Tx) /\ Top.tx \in Tx
      BY <1>6, <2>3
    <3> QED
      BY <2>1 DEF Cons
  <2>7. n' = n + 1 /\ n' \in Nat
    BY <1>6, <2>1, <2>6
  <2>8. Top.tx \in PublicParents \cap visited /\ Top.tx \notin ToSet(txChain)
    BY <1>7, <2>2, <2>3
  <2>9. \A i \in 1 .. n : i + 1 \in 1 .. n' /\ txChain'[i + 1] = txChain[i] /\ i \in DOMAIN txChain
    BY <1>6, <2>6, <2>7
  <2>10. ASSUME NEW k \in 1 .. n', k # 1
         PROVE  k - 1 \in 1 .. n /\ txChain'[k] = txChain[k - 1]
    <3>1. k - 1 \in 1 .. n /\ (k - 1) + 1 = k
      BY <1>6, <2>7, <2>10
    <3>2. txChain'[(k - 1) + 1] = txChain[k - 1]
      BY <2>9, <3>1
    <3> QED
      BY <3>1, <3>2
  <2>11. \A k \in 1 .. n' : txChain'[k] \in PublicParents \cap visited
    BY <1>7, <2>6, <2>8, <2>10
  <2>12. ASSUME NEW i \in 1 .. n', NEW j \in 1 .. n', txChain'[i] = txChain'[j]
         PROVE  i = j
    <3>1. \A k \in 1 .. n : txChain[k] # Top.tx
      BY <2>8, <2>9 DEF ToSet
    <3>2. CASE i = 1
      BY <2>6, <2>10, <2>12, <3>1, <3>2
    <3>3. CASE j = 1
      BY <2>6, <2>10, <2>12, <3>1, <3>3
    <3>4. CASE i # 1 /\ j # 1
      <4>1. i - 1 \in 1 .. n /\ j - 1 \in 1 .. n /\ txChain[i - 1] = txChain[j - 1]
        BY <2>10, <2>12, <3>4
      <4>2. i - 1 = j - 1
        BY <1>7, <4>1
      <4> QED
        BY <2>7, <4>2
    <3> QED
      BY <3>2, <3>3, <3>4
  <2>13. \A i \in 1 .. cursor - 1 : txChain'[n' + i] = snapshot[i]
    <3> SUFFICES ASSUME NEW i \in 1 .. cursor - 1 PROVE txChain'[(n + i) + 1] = snapshot[i]
      BY <1>6, <2>7
    <3>1. n + i \in 1 .. Len(txChain)
      BY <1>6
    <3> QED
      BY <1>7, <2>6, <3>1
  <2> HIDE DEF n
  <2> QED
    BY <1>1, <1>2, <2>1, <2>5, <2>7, <2>11, <2>12, <2>13 DEF ChainInv, n
<1>14. CASE AppendPrivate
  <2>1. /\ cursor' = cursor + 1 /\ visited' = visited /\ Len(stack) = 1 /\ stack' = <<>>
        /\ txChain' = Append(txChain, Top.tx)
    BY <1>14 DEF AppendPrivate
  <2>2. stack # <<>>
    <3>. stack \in Seq(Frame) /\ Len(stack) > 0
      BY <1>6, <2>1
    <3> QED
      BY NotEmpty
  <2>3. Top.tx = snapshot[cursor] /\ Top.tx \in Tx
    BY <1>4, <1>6, <2>1, <2>2, StackType DEF FeeInv
  <2>4. /\ Len(txChain') = Len(txChain) + 1 /\ txChain'[Len(txChain) + 1] = Top.tx
        /\ \A i \in 1 .. Len(txChain) : txChain'[i] = txChain[i]
    BY <1>6, <2>1, <2>3
  <2>5. n' = n
    BY <1>6, <2>1, <2>4
  <2>6. \A i \in 1 .. n : txChain'[i] = txChain[i]
    BY <1>6, <2>4
  <2>7. ASSUME NEW i \in 1 .. cursor' - 1 PROVE txChain'[n + i] = snapshot[i]
    <3>1. CASE i = cursor
      BY <1>6, <2>3, <2>4, <3>1
    <3>2. CASE i # cursor
      <4>1. i \in 1 .. cursor - 1 /\ n + i \in 1 .. Len(txChain)
        BY <1>6, <2>1, <3>2
      <4> QED
        BY <1>7, <2>4, <4>1
    <3> QED
      BY <3>1, <3>2
  <2>8. Len(stack') = 0
    BY <2>1
  <2>9. /\ n' \in Nat
        /\ \A i \in 1 .. n' : txChain'[i] \in PublicParents \cap visited
        /\ \A i, j \in 1 .. n' : txChain'[i] = txChain'[j] => i = j
    BY <1>6, <1>7, <2>5, <2>6
  <2>10. \A i \in 1 .. cursor' - 1 : txChain'[n' + i] = snapshot[i]
    BY <2>5, <2>7
  <2>11. Len(stack') \in 0 .. 2 /\ Len(stack') # 2 /\ visited' = visited
    BY <2>1, <2>8
  <2> HIDE DEF n
  <2> QED
    BY <1>1, <1>2, <2>9, <2>10, <2>11 DEF ChainInv, n
<1>15. CASE \/ WalkEnds \/ GetTemplate \/ RemoveCandidate \/ KeepCandidate \/ FilterEnds
            \/ Propose \/ TemplateRpcFails
  <2>1. UNCHANGED walkVars
    BY <1>15 DEF WalkEnds, GetTemplate, RemoveCandidate, KeepCandidate, FilterStep, FilterEnds,
         Propose, TemplateRpcFails
  <2> QED
    BY <1>7, <1>8, <2>1 DEF walkVars
<1>16. CASE MempoolChanges \/ BlockArrives \/ \E t \in Tx : AddPrivate(t) \/ RemovePrivate(t)
  <2>1. UNCHANGED walkVars
    BY <1>16 DEF MempoolChanges, BlockArrives, NodeEvent, AddPrivate, RemovePrivate, PoolEvent
  <2> QED
    BY <1>7, <1>8, <2>1 DEF walkVars
<1>17. CASE WalkThrows
  BY <1>17 DEF WalkThrows, RpcFails
<1> QED
  BY <1>9, <1>10, <1>11, <1>12, <1>13, <1>14, <1>15, <1>16, <1>17 DEF Next, Handler

\* Only GetTemplate and Respond set the tip of the template.
LEMMA TemplateTip ==
  ASSUME TypeOK, [Next]_vars, ~ GetTemplate, ~ Respond
  PROVE  /\ template'.tip = template.tip
         /\ pc' \in {"filter", "propose"} => pc \in {"filter", "propose"}
<1> USE DEF filterVars, TypeOK
<1>1. CASE UNCHANGED vars
  BY <1>1 DEF vars
<1>2. CASE \/ Start \/ NextPrivate \/ ParentVisited \/ ParentFound \/ ParentUnknown \/ ParentRpcFails
           \/ WalkThrows \/ PrependParent \/ AppendPrivate \/ WalkEnds
  BY <1>2 DEF Start, NextPrivate, ParentVisited, ParentFound, ParentUnknown, ParentRpcFails,
       LeaveOut, WalkThrows, PrependParent, AppendPrivate, WalkEnds, WalkStep, Answer
<1>3. CASE RemoveCandidate \/ KeepCandidate
  BY <1>3 DEF RemoveCandidate, KeepCandidate, FilterStep
<1>4. CASE FilterEnds \/ Propose \/ TemplateRpcFails
  BY <1>4 DEF FilterEnds, Propose, TemplateRpcFails, Answer
<1>5. CASE MempoolChanges \/ BlockArrives \/ \E t \in Tx : AddPrivate(t) \/ RemovePrivate(t)
  BY <1>5 DEF MempoolChanges, BlockArrives, NodeEvent, AddPrivate, RemovePrivate, PoolEvent
<1> QED
  BY <1>1, <1>2, <1>3, <1>4, <1>5 DEF Next, Handler

\* The tip moves with a block only, and with it alone what is confirmed.
LEMMA TipStep ==
  ASSUME TypeOK, [Next]_vars
  PROVE  \/ BlockArrives /\ tip' = tip + 1
         \/ UNCHANGED <<confirmed, tip>>
<1> USE DEF nodeVars
<1>1. CASE UNCHANGED vars \/ Start \/ Handler
  BY <1>1 DEF vars, Start, Handler, NextPrivate, ParentVisited, ParentFound, ParentUnknown,
       ParentRpcFails, WalkThrows, PrependParent, AppendPrivate, WalkEnds, WalkStep, GetTemplate,
       RemoveCandidate, KeepCandidate, FilterStep, FilterEnds, Propose, TemplateRpcFails, Respond
<1>2. CASE MempoolChanges \/ BlockArrives
  BY <1>2 DEF MempoolChanges, BlockArrives
<1>3. CASE \E t \in Tx : AddPrivate(t) \/ RemovePrivate(t)
  BY <1>3 DEF AddPrivate, RemovePrivate, PoolEvent
<1> QED
  BY <1>1, <1>2, <1>3 DEF Next

\* The template is of the tip or of one before it; when the node stood still,
\* of the tip.
LEMMA TemplateOfTip ==
  ASSUME IInv, [Next]_vars
  PROVE  /\ template'.tip <= tip'
         /\ quiet' /\ pc' \in {"filter", "propose"} => template'.tip = tip'
<1>1. /\ TypeOK /\ template.tip <= tip /\ tip \in Nat /\ template.tip \in Nat
      /\ quiet /\ pc \in {"filter", "propose"} => template.tip = tip
  BY DEF IInv, ProposalInv, TypeOK
<1>2. CASE GetTemplate
  BY <1>1, <1>2 DEF GetTemplate, nodeVars
<1>3. CASE Respond
  BY <1>1, <1>3 DEF Respond, nodeVars, NoTemplate
<1>4. CASE ~ GetTemplate /\ ~ Respond
  <2>1. /\ template'.tip = template.tip
        /\ pc' \in {"filter", "propose"} => pc \in {"filter", "propose"}
    BY <1>1, <1>4, TemplateTip
  <2>2. tip' = tip \/ tip' = tip + 1
    BY <1>1, TipStep
  <2>3. ASSUME quiet', pc' \in {"filter", "propose"} PROVE template'.tip = tip'
    <3>1. ~ Start
      BY <2>3 DEF Start
    <3>2. quiet /\ tip' = tip
      BY <1>4, <2>3, <3>1, QuietStep
    <3> QED
      BY <1>1, <2>1, <2>3, <3>2
  <2> QED
    BY <1>1, <2>1, <2>2, <2>3
<1> QED
  BY <1>2, <1>3, <1>4

LEMMA KeptStep ==
  ASSUME IInv, TypeOK', [Next]_vars, ~ Start, ~ Respond, pc' \in {"filter", "propose"},
         template'.tip = tip'
  PROVE  KeptInv'
<1> USE DEF IInv
<1>0. /\ template.tip <= tip /\ tip \in Nat /\ template.tip \in Nat
      /\ pc \in {"filter", "propose"} /\ template.tip = tip => KeptInv
  BY DEF ProposalInv, TypeOK
\* A template of the tip is older than no block.
<1>1. UNCHANGED <<confirmed, tip>>
  <2>1. CASE GetTemplate
    BY <2>1 DEF GetTemplate, nodeVars
  <2>2. CASE ~ GetTemplate
    <3>1. template'.tip = template.tip
      BY <2>2, TemplateTip
    <3>2. tip' # tip + 1
      BY <1>0, <3>1
    <3> QED
      BY <3>2, TipStep
  <2> QED
    BY <2>1, <2>2
\* The filter has not moved.
<1>2. ASSUME pc \in {"filter", "propose"}, UNCHANGED <<template, kept, removed>>
      PROVE  KeptInv'
  <2>1. KeptInv
    BY <1>0, <1>1, <1>2
  <2> QED
    BY <1>1, <1>2, <2>1 DEF KeptInv, Final
<1>3. CASE UNCHANGED vars
  BY <1>2, <1>3 DEF vars, filterVars
<1>4. CASE \/ NextPrivate \/ ParentVisited \/ ParentFound \/ ParentUnknown \/ ParentRpcFails
           \/ WalkThrows \/ PrependParent \/ AppendPrivate \/ WalkEnds \/ Propose
           \/ TemplateRpcFails
  BY <1>4 DEF NextPrivate, ParentVisited, ParentFound, ParentUnknown, ParentRpcFails, LeaveOut,
       WalkThrows, PrependParent, AppendPrivate, WalkEnds, WalkStep, Propose, TemplateRpcFails, Answer
<1>5. CASE FilterEnds
  BY <1>2, <1>5 DEF FilterEnds, filterVars
<1>6. CASE MempoolChanges \/ BlockArrives \/ \E t \in Tx : AddPrivate(t) \/ RemovePrivate(t)
  BY <1>1, <1>2, <1>6 DEF MempoolChanges, BlockArrives, NodeEvent, AddPrivate, RemovePrivate,
       PoolEvent, filterVars
<1>7. CASE GetTemplate
  <2>1. PICK S \in SUBSET mempool :
          /\ Coherent(confirmed, tip, S)
          /\ \E s \in TopologicalOrders(S) : template' = [txs |-> s, tip |-> tip]
    BY <1>7 DEF GetTemplate
  <2>. PICK s \in TopologicalOrders(S) : template' = [txs |-> s, tip |-> tip]
    BY <2>1
  <2>2. template'.txs = s /\ template'.tip = tip
    OBVIOUS
  <2>3. ToSet(s) = S
    <3>. S \in SUBSET Tx /\ s \in SetToSeqs(S)
      BY DEF TypeOK, TopologicalOrders
    <3> QED
      BY OrderType
  <2>4. kept' = <<>> /\ ToSet(kept') = {}
    BY <1>7 DEF GetTemplate, FilterInv, ToSet
  <2>5. \A t \in S : /\ Parents(t) \subseteq confirmed \cup S
                    /\ Outpoints(t) \cap SpentBy(confirmed) = {} /\ Fee[t] >= 0
                    /\ FinalAt[t] <= tip
    BY <2>1 DEF Coherent, Final, SpentBy
  <2>6. ToSet(template'.txs) = S
    BY <2>2, <2>3
  <2> QED
    BY <1>1, <2>2, <2>4, <2>5, <2>6 DEF KeptInv, Final
<1>8. CASE RemoveCandidate \/ KeepCandidate
  <2>. DEFINE rest == template.txs
              t == Candidate
  <2>1. /\ pc = "filter" /\ rest # <<>> /\ rest \in Seq(Tx)
        /\ template' = [template EXCEPT !.txs = Tail(rest)] /\ t = Head(rest) /\ kept \in Seq(Tx)
        /\ template \in [txs : Seq(Tx), tip : Nat]
    BY <1>8 DEF RemoveCandidate, KeepCandidate, FilterStep, TypeOK, Candidate
  <2>2. rest' = Tail(rest) /\ template'.tip = template.tip
    BY <2>1
  <2>3. t \in Tx /\ ToSet(rest) = ToSet(rest') \cup {t}
    BY <2>1, <2>2, TailSet
  <2>4. KeptInv
    BY <1>0, <1>1, <2>1, <2>2
  <2>5. ToSet(kept) \cap ToSet(rest) = {}
    BY DEF FeeInv
  <2>6. Parents(t) \cap ToSet(rest) = {}
    <3> SUFFICES ASSUME NEW i \in DOMAIN rest, rest[i] \in Parents(t)
                 PROVE  FALSE
      BY DEF ToSet
    <3>1. 1 \in DOMAIN rest /\ rest[1] = t /\ i \in Nat \ {0}
      BY <2>1
    <3>2. i < 1
      BY <3>1 DEF FilterInv
    <3> QED
      BY <3>1, <3>2
  <2>. HIDE DEF rest, t
  <2>7. /\ \A u \in ToSet(kept) \cup ToSet(rest) :
             Outpoints(u) \cap SpentBy(confirmed) = {} /\ Fee[u] >= 0
        /\ \A u \in ToSet(kept) \cup ToSet(rest) : FinalAt[u] <= tip
        /\ \A i \in DOMAIN kept :
             Parents(kept[i]) \subseteq confirmed \cup {kept[j] : j \in 1 .. i - 1}
        /\ \A i, j \in DOMAIN kept : kept[i] = kept[j] => i = j
        /\ \A u \in ToSet(rest) :
             Parents(u) \subseteq confirmed \cup ToSet(kept) \cup removed \cup ToSet(rest)
    BY <2>4 DEF KeptInv, Final, rest
  <2>8. CASE RemoveCandidate
    <3>1. kept' = kept /\ removed' = removed \cup {t}
      BY <2>8 DEF RemoveCandidate, t
    <3>2. \A u \in ToSet(rest') :
            Parents(u) \subseteq confirmed \cup ToSet(kept) \cup removed' \cup ToSet(rest')
      BY <2>3, <2>7, <3>1
    <3> QED
      BY <1>1, <2>2, <2>3, <2>7, <3>1, <3>2 DEF KeptInv, Final, rest
  <2>9. CASE KeepCandidate
    <3>1. kept' = Append(kept, t) /\ removed' = removed /\ Parents(t) \cap removed = {}
      BY <2>9 DEF KeepCandidate, ShouldRemove, t
    <3>2. ToSet(kept') = ToSet(kept) \cup {t}
      BY <2>1, <2>3, <3>1, AppendSet
    <3>3. /\ Len(kept) \in Nat /\ DOMAIN kept = 1 .. Len(kept) /\ DOMAIN kept' = 1 .. Len(kept) + 1
          /\ kept'[Len(kept) + 1] = t /\ \A i \in DOMAIN kept : kept'[i] = kept[i]
      BY <2>1, <2>3, <3>1
    <3>4. \A u \in ToSet(rest') :
            Parents(u) \subseteq confirmed \cup ToSet(kept') \cup removed' \cup ToSet(rest')
      BY <2>3, <2>7, <3>1, <3>2
    <3>5. Parents(t) \subseteq confirmed \cup ToSet(kept)
      BY <2>3, <2>6, <2>7, <3>1
    <3>6. t \notin ToSet(kept)
      BY <2>3, <2>5
    <3>7. ASSUME NEW i \in DOMAIN kept'
          PROVE  Parents(kept'[i]) \subseteq confirmed \cup {kept'[j] : j \in 1 .. i - 1}
      <4>1. CASE i = Len(kept) + 1
        <5>1. ToSet(kept) = {kept'[j] : j \in 1 .. i - 1}
          BY <3>3, <4>1 DEF ToSet
        <5> QED
          BY <3>3, <3>5, <4>1, <5>1
      <4>2. CASE i \in DOMAIN kept
        <5>1. {kept[j] : j \in 1 .. i - 1} = {kept'[j] : j \in 1 .. i - 1}
          BY <3>3, <4>2
        <5> QED
          BY <2>7, <3>3, <4>2, <5>1
      <4> QED
        BY <3>3, <4>1, <4>2
    <3>8. ASSUME NEW i \in DOMAIN kept', NEW j \in DOMAIN kept', kept'[i] = kept'[j]
          PROVE  i = j
      <4>1. \A k \in DOMAIN kept : kept'[k] # t
        BY <3>3, <3>6 DEF ToSet
      <4>2. CASE i = Len(kept) + 1
        BY <3>3, <3>8, <4>1, <4>2
      <4>3. CASE j = Len(kept) + 1
        BY <3>3, <3>8, <4>1, <4>3
      <4>4. CASE i \in DOMAIN kept /\ j \in DOMAIN kept
        BY <2>7, <3>3, <3>8, <4>4
      <4> QED
        BY <3>3, <4>2, <4>3, <4>4
    <3> QED
      BY <1>1, <2>2, <2>3, <2>7, <3>2, <3>4, <3>7, <3>8 DEF KeptInv, Final, rest
  <2> QED
    BY <1>8, <2>8, <2>9
<1> QED
  BY <1>3, <1>4, <1>5, <1>6, <1>7, <1>8 DEF Next, Handler

\* The chain of a servable pool has no transaction twice.
LEMMA ChainOnce ==
  ASSUME IInv, ChainInv
  PROVE  \A i, j \in DOMAIN txChain : txChain[i] = txChain[j] => i = j
<1> DEFINE n == Len(txChain) - (cursor - 1)
<1>1. /\ n \in Nat /\ cursor \in Nat \ {0} /\ Len(txChain) = n + (cursor - 1)
      /\ DOMAIN txChain = 1 .. Len(txChain)
      /\ cursor - 1 <= Len(snapshot) /\ DOMAIN snapshot = 1 .. Len(snapshot)
      /\ Len(snapshot) \in Nat
      /\ \A i \in 1 .. n : txChain[i] \in PublicParents
      /\ \A i \in 1 .. cursor - 1 : txChain[n + i] = snapshot[i]
  BY ChainType
<1>2. \A i, j \in 1 .. n : txChain[i] = txChain[j] => i = j
  BY DEF ChainInv
<1>3. \A i, j \in DOMAIN snapshot : snapshot[i] = snapshot[j] => i = j
  BY DEF IInv, FeeInv
<1> HIDE DEF n
<1>4. ASSUME NEW k \in DOMAIN txChain, k \notin 1 .. n
      PROVE  k - n \in DOMAIN snapshot /\ txChain[k] = snapshot[k - n] /\ k \in Nat
  <2>1. k - n \in 1 .. cursor - 1 /\ n + (k - n) = k /\ k - n \in DOMAIN snapshot /\ k \in Nat
    BY <1>1, <1>4
  <2>2. txChain[n + (k - n)] = snapshot[k - n]
    BY <1>1, <2>1
  <2> QED
    BY <2>1, <2>2
<1>5. \A p \in PublicParents : \A i \in DOMAIN snapshot : p # snapshot[i]
  BY DEF PublicParents, ToSet
<1> SUFFICES ASSUME NEW i \in DOMAIN txChain, NEW j \in DOMAIN txChain, txChain[i] = txChain[j]
             PROVE  i = j
  OBVIOUS
<1>6. CASE i \in 1 .. n /\ j \in 1 .. n
  BY <1>2, <1>6
<1>7. CASE i \notin 1 .. n /\ j \notin 1 .. n
  <2>1. i - n = j - n
    BY <1>3, <1>4, <1>7
  <2> QED
    BY <1>1, <1>4, <1>7, <2>1
<1>8. CASE i \in 1 .. n /\ j \notin 1 .. n
  BY <1>1, <1>4, <1>5, <1>8
<1>9. CASE i \notin 1 .. n /\ j \in 1 .. n
  BY <1>1, <1>4, <1>5, <1>9
<1> QED
  BY <1>6, <1>7, <1>8, <1>9

\* What comes before the element at i.
LEMMA BeforeSet ==
  ASSUME NEW S, NEW s \in Seq(S), NEW i \in DOMAIN s
  PROVE  ToSet(SubSeq(s, 1, i - 1)) = {s[j] : j \in 1 .. i - 1}
<1>1. /\ i \in 1 .. Len(s) /\ Len(s) \in Nat /\ i - 1 \in Nat
      /\ SubSeq(s, 1, i - 1) \in Seq(S) /\ Len(SubSeq(s, 1, i - 1)) = i - 1
      /\ \A j \in 1 .. i - 1 : SubSeq(s, 1, i - 1)[j] = s[j]
  OBVIOUS
<1>2. DOMAIN SubSeq(s, 1, i - 1) = 1 .. i - 1
  BY <1>1
<1> QED
  BY <1>1, <1>2 DEF ToSet

\* The chain of a servable pool connects by itself.
LEMMA ChainConnects ==
  ASSUME IInv, quiet, pc = "propose", Servable(ToSet(snapshot))
  PROVE  Connects(txChain)
<1> DEFINE n == Len(txChain) - (cursor - 1)
           L == Len(txChain)
           S == ToSet(snapshot)
<1>1. TypeOK /\ Coherent(confirmed, tip, mempool) /\ ChainInv
  BY DEF IInv, ProposalInv
<1>2. /\ n \in Nat /\ L = n + (cursor - 1) /\ DOMAIN txChain = 1 .. L /\ cursor \in Nat \ {0}
      /\ \A i \in 1 .. n : txChain[i] \in PublicParents
      /\ \A t \in ToSet(txChain) : t \in PublicParents \/ t \in S
      /\ txChain \in Seq(Tx) /\ cursor - 1 <= Len(snapshot)
      /\ \A i \in 1 .. cursor - 1 : txChain[n + i] = snapshot[i]
      /\ DOMAIN snapshot = 1 .. Len(snapshot) /\ Len(snapshot) \in Nat /\ L \in Nat
  BY <1>1, ChainType
<1>3. /\ S \subseteq Tx
      /\ \A t \in S : Parents(t) \subseteq confirmed \cup PublicParents
      /\ \A p \in PublicParents : Parents(p) \subseteq confirmed
      /\ \A t \in S \cup PublicParents : Outpoints(t) \cap SpentBy(confirmed) = {}
      /\ \A t, u \in S \cup PublicParents : ~ Conflict(t, u)
      /\ \A t \in S \cup PublicParents : Fee[t] >= 0 /\ FinalAt[t] <= tip
  BY <1>1, ServableMeans
<1>4. \A i, j \in 1 .. L : txChain[i] = txChain[j] => i = j
  BY <1>1, <1>2, ChainOnce
<1>5. \A i \in DOMAIN txChain :
        ToSet(SubSeq(txChain, 1, i - 1)) = {txChain[j] : j \in 1 .. i - 1}
  BY <1>2, BeforeSet
<1>6. ASSUME NEW i \in DOMAIN txChain
      PROVE  txChain[i] \in ToSet(txChain) /\ txChain[i] \in S \cup PublicParents
  BY <1>2 DEF ToSet
<1>. HIDE DEF L, n
<1>7. ASSUME NEW i \in DOMAIN txChain
      PROVE  Parents(txChain[i]) \subseteq confirmed \cup ToSet(SubSeq(txChain, 1, i - 1))
  <2>1. CASE i \in 1 .. n
    BY <1>2, <1>3, <2>1
  <2>2. CASE i \notin 1 .. n
    <3>1. i - n \in 1 .. cursor - 1 /\ n + (i - n) = i /\ i - n \in DOMAIN snapshot
      BY <1>2, <2>2
    <3>2. txChain[i] = snapshot[i - n]
      <4>1. txChain[n + (i - n)] = snapshot[i - n]
        BY <1>2, <3>1
      <4> QED
        BY <3>1, <4>1
    <3>3. txChain[i] \in S
      BY <3>1, <3>2 DEF ToSet
    <3> SUFFICES ASSUME NEW p \in Parents(txChain[i]), p \in PublicParents
                 PROVE  p \in {txChain[j] : j \in 1 .. i - 1}
      BY <1>3, <1>5, <3>3
    <3>4. p \in mempool
      BY DEF PublicParents
    <3>5. p \in visited
      BY <1>6 DEF IInv, WalkInv, Parents
    <3>6. stack = <<>> /\ \A k \in DOMAIN stack : FALSE
      BY DEF IInv, WalkInv
    <3>7. p \in ToSet(txChain)
      BY <3>4, <3>5, <3>6 DEF IInv, WalkInv
    <3>8. PICK k \in 1 .. L : p = txChain[k]
      BY <1>2, <3>7 DEF ToSet
    <3>9. k \in 1 .. n
      <4> SUFFICES ASSUME k \notin 1 .. n PROVE FALSE
        OBVIOUS
      <4>1. k - n \in 1 .. cursor - 1 /\ n + (k - n) = k /\ k - n \in DOMAIN snapshot
        BY <1>2
      <4>2. txChain[n + (k - n)] = snapshot[k - n]
        BY <1>2, <4>1
      <4>3. p = snapshot[k - n]
        BY <3>8, <4>1, <4>2
      <4> QED
        BY <4>1, <4>3 DEF PublicParents, ToSet
    <3>10. k \in 1 .. i - 1
      BY <1>2, <2>2, <3>9
    <3> QED
      BY <3>8, <3>10
  <2> QED
    BY <2>1, <2>2
<1>8. ASSUME NEW i \in DOMAIN txChain, NEW j \in 1 .. i - 1
      PROVE  Outpoints(txChain[i]) \cap Outpoints(txChain[j]) = {}
  <2>1. j \in DOMAIN txChain /\ i # j
    BY <1>2
  <2>2. txChain[i] # txChain[j]
    BY <1>2, <1>4, <2>1
  <2> QED
    BY <1>3, <1>6, <2>1, <2>2 DEF Conflict
<1> QED
  BY <1>3, <1>6, <1>7, <1>8 DEF Connects

\* When the chain connects, so does the block: what the filter kept follows it.
LEMMA BlockConnects ==
  ASSUME IInv, pc = "propose", template.tip = tip, Connects(txChain)
  PROVE  Connects(Block)
<1> DEFINE L == Len(txChain)
           K == Len(kept)
<1>1. TypeOK /\ KeptInv
  BY DEF IInv, ProposalInv
<1>2. /\ \A t \in ToSet(kept) : /\ Outpoints(t) \cap SpentBy(confirmed) = {}
                                /\ Fee[t] >= 0 /\ FinalAt[t] <= tip
      /\ \A i \in DOMAIN kept :
           Parents(kept[i]) \subseteq confirmed \cup {kept[j] : j \in 1 .. i - 1}
      /\ \A i, j \in DOMAIN kept : kept[i] = kept[j] => i = j
  BY <1>1 DEF KeptInv, Final
<1>3. /\ \A t, u \in ToSet(kept) : ~ Conflict(t, u)
      /\ \A t \in ToSet(kept) : Outpoints(t) \cap SpentBy(ToSet(txChain)) = {}
  BY DEF IInv, FilterInv, AlreadySpent
<1>4. /\ kept \in Seq(Tx) /\ K \in Nat /\ L \in Nat /\ DOMAIN kept = 1 .. K
      /\ txChain \in Seq(Tx) /\ DOMAIN txChain = 1 .. L
      /\ Block \in Seq(Tx) /\ Len(Block) = L + K /\ DOMAIN Block = 1 .. L + K
      /\ \A i \in 1 .. L : Block[i] = txChain[i]
      /\ \A i \in 1 .. K : Block[L + i] = kept[i]
  <2>1. kept \in Seq(Tx) /\ txChain \in Seq(Tx)
    BY <1>1 DEF TypeOK
  <2> QED
    BY <2>1 DEF Block
<1>5. \A i \in DOMAIN Block : ToSet(SubSeq(Block, 1, i - 1)) = {Block[j] : j \in 1 .. i - 1}
  BY <1>4, BeforeSet
<1>6. \A i \in DOMAIN txChain :
        ToSet(SubSeq(txChain, 1, i - 1)) = {txChain[j] : j \in 1 .. i - 1}
  BY <1>4, BeforeSet
<1>. HIDE DEF L, K
<1>7. ASSUME NEW i \in 1 .. L
      PROVE  /\ Block[i] = txChain[i] /\ i \in DOMAIN txChain
             /\ Block[i] \in ToSet(txChain)
  BY <1>4 DEF ToSet
<1>8. ASSUME NEW i \in DOMAIN Block, i \notin 1 .. L
      PROVE  /\ i - L \in DOMAIN kept /\ Block[i] = kept[i - L] /\ L + (i - L) = i
             /\ kept[i - L] \in ToSet(kept) /\ i \in Nat
  <2>1. i - L \in 1 .. K /\ L + (i - L) = i /\ i \in Nat
    BY <1>4, <1>8
  <2>2. Block[L + (i - L)] = kept[i - L]
    BY <1>4, <2>1
  <2> QED
    BY <1>4, <2>1, <2>2 DEF ToSet
<1>9. ASSUME NEW i \in DOMAIN Block
      PROVE  Parents(Block[i]) \subseteq confirmed \cup ToSet(SubSeq(Block, 1, i - 1))
  <2>1. CASE i \in 1 .. L
    <3>1. Parents(Block[i]) \subseteq confirmed \cup {txChain[j] : j \in 1 .. i - 1}
      BY <1>6, <1>7, <2>1 DEF Connects
    <3>2. \A j \in 1 .. i - 1 : Block[j] = txChain[j]
      BY <1>4, <2>1
    <3> QED
      BY <1>5, <3>1, <3>2
  <2>2. CASE i \notin 1 .. L
    <3>1. i - L \in DOMAIN kept /\ Block[i] = kept[i - L] /\ i \in Nat
      BY <1>8, <2>2
    <3> SUFFICES ASSUME NEW j \in 1 .. (i - L) - 1
                 PROVE  kept[j] \in {Block[k] : k \in 1 .. i - 1}
      BY <1>2, <1>5, <3>1
    <3>2. L + j \in 1 .. i - 1 /\ j \in 1 .. K
      BY <1>4, <3>1
    <3>3. Block[L + j] = kept[j]
      BY <1>4, <3>2
    <3> QED
      BY <3>2, <3>3
  <2> QED
    BY <2>1, <2>2
<1>10. ASSUME NEW i \in DOMAIN Block
       PROVE  /\ Outpoints(Block[i]) \cap SpentBy(confirmed) = {}
              /\ Fee[Block[i]] >= 0 /\ FinalAt[Block[i]] <= tip
  <2>1. CASE i \in 1 .. L
    BY <1>7, <2>1 DEF Connects
  <2>2. CASE i \notin 1 .. L
    BY <1>2, <1>8, <2>2
  <2> QED
    BY <2>1, <2>2
<1>11. ASSUME NEW i \in DOMAIN Block, NEW j \in 1 .. i - 1
       PROVE  Outpoints(Block[i]) \cap Outpoints(Block[j]) = {}
  <2>0. j \in DOMAIN Block /\ i # j /\ (j \notin 1 .. L => i \notin 1 .. L)
    BY <1>4
  <2>1. CASE i \in 1 .. L
    <3>1. j \in 1 .. L
      BY <2>0, <2>1
    <3> QED
      BY <1>7, <2>1, <3>1 DEF Connects
  <2>2. CASE i \notin 1 .. L /\ j \in 1 .. L
    <3>1. Outpoints(Block[j]) \subseteq SpentBy(ToSet(txChain))
      BY <1>7, <2>2 DEF SpentBy
    <3> QED
      BY <1>3, <1>8, <2>2, <3>1
  <2>3. CASE i \notin 1 .. L /\ j \notin 1 .. L
    <3>1. /\ i - L \in DOMAIN kept /\ Block[i] = kept[i - L] /\ L + (i - L) = i
          /\ j - L \in DOMAIN kept /\ Block[j] = kept[j - L] /\ L + (j - L) = j
          /\ kept[i - L] \in ToSet(kept) /\ kept[j - L] \in ToSet(kept)
      BY <1>8, <2>0, <2>3
    <3>2. i - L # j - L
      BY <2>0, <3>1
    <3>3. Block[i] # Block[j]
      BY <1>2, <3>1, <3>2
    <3> QED
      BY <1>3, <3>1, <3>3 DEF Conflict
  <2> QED
    BY <2>0, <2>1, <2>2, <2>3
<1> QED
  BY <1>9, <1>10, <1>11 DEF Connects

\* The coinbase claims the fees of what is paid for; what the block has more
\* are parents, whose fees are not negative.
LEMMA ClaimBounded ==
  ASSUME IInv
  PROVE  fees <= FeesOf(ToSet(Block))
<1>1. Paid \subseteq ToSet(txChain) \cup ToSet(kept)
  BY DEF IInv, FeeInv, Paid
<1>2. txChain \in Seq(Tx) /\ kept \in Seq(Tx)
  BY DEF IInv, TypeOK
<1>3. ToSet(Block) = ToSet(txChain) \cup ToSet(kept)
  BY <1>2, ConcatSet DEF Block
<1>4. ToSet(Block) \in SUBSET Tx
  <2>1. ToSet(txChain) \subseteq Tx
    BY <1>2 DEF ToSet
  <2>2. ToSet(kept) \subseteq Tx
    BY <1>2 DEF ToSet
  <2> QED
    BY <1>3, <2>1, <2>2
<1>5. IsFiniteSet(ToSet(Block)) /\ Paid \in SUBSET ToSet(Block)
  BY <1>1, <1>3, <1>4, TxAssumption, FS_Subset
<1>6. \A t \in ToSet(Block) \ Paid : Fee[t] >= 0
  BY <1>3 DEF IInv, UnpaidInv, Paid
<1>7. SumFunctionOnSet(Fee, Paid) <= SumFunctionOnSet(Fee, ToSet(Block))
  BY <1>4, <1>5, <1>6, FeeAssumption, SumMonotonic
<1> QED
  BY <1>7 DEF IInv, FeeInv, FeesOf

\* The chain is the first part of the block, and connects when the block does.
LEMMA ChainOfBlock ==
  ASSUME TypeOK, Connects(Block)
  PROVE  Connects(txChain)
<1>1. /\ txChain \in Seq(Tx) /\ kept \in Seq(Tx)
      /\ Len(txChain) \in Nat /\ DOMAIN txChain = 1 .. Len(txChain)
  BY DEF TypeOK
<1>2. /\ Block \in Seq(Tx) /\ DOMAIN txChain \subseteq DOMAIN Block
      /\ \A i \in DOMAIN txChain : Block[i] = txChain[i]
  BY <1>1 DEF Block
<1>3. ASSUME NEW i \in DOMAIN txChain
      PROVE  /\ i \in DOMAIN Block /\ i \in Nat /\ 1 .. i - 1 \subseteq DOMAIN txChain
             /\ ToSet(SubSeq(txChain, 1, i - 1)) = ToSet(SubSeq(Block, 1, i - 1))
  <2>1. i \in DOMAIN Block /\ i \in Nat /\ 1 .. i - 1 \subseteq DOMAIN txChain
    BY <1>1, <1>2
  <2>2. {txChain[j] : j \in 1 .. i - 1} = {Block[j] : j \in 1 .. i - 1}
    BY <1>2, <2>1
  <2>3. /\ ToSet(SubSeq(txChain, 1, i - 1)) = {txChain[j] : j \in 1 .. i - 1}
        /\ ToSet(SubSeq(Block, 1, i - 1)) = {Block[j] : j \in 1 .. i - 1}
    BY <1>1, <1>2, <2>1, BeforeSet
  <2> QED
    BY <2>1, <2>2, <2>3
<1> QED
  BY <1>2, <1>3 DEF Connects

\* The chain, the tip and the limits decide.
LEMMA DecidedByChain ==
  ASSUME IInv
  PROVE  ChainDecides
<1>1. TypeOK
  BY DEF IInv
<1> QED
  BY <1>1, BlockConnects, ChainOfBlock, ClaimBounded DEF ChainDecides, Accepts

LEMMA ProposalStepInv ==
  ASSUME IInv, TypeOK', [Next]_vars
  PROVE  ProposalInv'
<1>1. Coherent(confirmed, tip, mempool)'
  BY NodeStep
<1>2. /\ template'.tip <= tip'
      /\ quiet' /\ pc' \in {"filter", "propose"} => template'.tip = tip'
  BY TemplateOfTip
<1>3. CASE Start \/ Respond
  <2>1. /\ pc' \in {"walk", "idle"} /\ txChain' = <<>> /\ cursor' = 1 /\ stack' = <<>>
    BY <1>3 DEF Start, Respond, IInv, FilterInv, FeeInv, WalkInv
  <2>2. Len(txChain') - (cursor' - 1) = 0 /\ Len(stack') = 0
    BY <2>1
  <2>3. ChainInv'
    BY <2>1, <2>2 DEF ChainInv
  <2> QED
    BY <1>1, <1>2, <2>1, <2>3 DEF ProposalInv, ServableProposalValid
<1>4. CASE ~ Start /\ ~ Respond
  <2>1. quiet' /\ Servable(ToSet(snapshot))' => ChainInv'
    BY <1>4, ChainStep
  <2>2. pc' \in {"filter", "propose"} /\ template'.tip = tip' => KeptInv'
    BY <1>4, KeptStep
  <2>3. ASSUME quiet', pc' = "done", Servable(ToSet(snapshot))', Fits(ToSet(Block), BlockLimit)'
        PROVE  reply' = "valid"
    <3>1. quiet /\ UNCHANGED <<mempool, confirmed, tip, snapshot>>
      BY <1>4, <2>3, QuietStep
    <3>2. Servable(ToSet(snapshot))
      BY <2>3, <3>1, SameServable
    <3>3. CASE Propose
      <4>1. UNCHANGED <<txChain, kept>> /\ pc = "propose"
        BY <3>3 DEF Propose, walkVars, filterVars
      <4>2. Fits(ToSet(Block), BlockLimit)
        <5>1. Block' = Block
          BY <4>1 DEF Block
        <5>2. ToSet(Block)' = ToSet(Block)
          BY <5>1 DEF ToSet
        <5> QED
          BY <2>3, <5>2 DEF Fits
      <4>3. tip = template.tip
        BY <3>1, <4>1 DEF IInv, ProposalInv
      <4>4. Accepts(Block, template.tip, fees)
        BY <3>1, <3>2, <4>1, <4>2, <4>3, ChainConnects, DecidedByChain DEF ChainDecides
      <4> QED
        BY <3>3, <4>4 DEF Propose, Answer
    <3>4. CASE ~ Propose
      <4>1. pc = "done" /\ UNCHANGED <<reply, txChain, kept>>
        BY <1>4, <2>3, <3>1, <3>4 DEF Next, Handler, NextPrivate, ParentVisited, ParentFound,
             ParentUnknown, ParentRpcFails, LeaveOut, WalkThrows, PrependParent, AppendPrivate,
             WalkEnds, WalkStep, GetTemplate, RemoveCandidate, KeepCandidate, FilterStep, FilterEnds,
             TemplateRpcFails, RpcFails, MempoolChanges, BlockArrives, NodeEvent, AddPrivate,
             RemovePrivate, PoolEvent, vars, walkVars, filterVars
      <4>2. Fits(ToSet(Block), BlockLimit)
        <5>1. Block' = Block
          BY <4>1 DEF Block
        <5>2. ToSet(Block)' = ToSet(Block)
          BY <5>1 DEF ToSet
        <5> QED
          BY <2>3, <5>2 DEF Fits
      <4> QED
        BY <3>1, <3>2, <4>1, <4>2 DEF IInv, ProposalInv, ServableProposalValid
    <3> QED
      BY <3>3, <3>4
  <2> QED
    BY <1>1, <1>2, <2>1, <2>2, <2>3 DEF ProposalInv, ServableProposalValid
<1> QED
  BY <1>3, <1>4

-----------------------------------------------------------------------------
(* The theorems                                                            *)

LEMMA InitInv ==
  ASSUME Init
  PROVE  IInv
<1> USE DEF Init
<1>1. TypeOK
  BY DEF TypeOK, NoTemplate
<1>2. WalkInv
  BY DEF WalkInv, Passed, ToSet
<1>3. FilterInv
  BY DEF FilterInv, NoTemplate, ToSet
<1>4. FeeInv
  <2>1. Paid = {}
    BY DEF Paid, ToSet
  <2>2. SumFunctionOnSet(Fee, Paid) = 0
    BY <2>1, SumOfNone, Zenon
  <2> QED
    BY <2>2 DEF FeeInv, FeesOf, NoTemplate, ToSet
<1>5. UnpaidInv
  BY DEF UnpaidInv, ToSet
<1>6. ProposalInv
  <2>1. ChainInv
    BY DEF ChainInv
  <2>2. Coherent(confirmed, tip, mempool)
    OBVIOUS
  <2>3. template.tip <= tip
    BY DEF NoTemplate
  <2> QED
    BY <2>1, <2>2, <2>3 DEF ProposalInv, ServableProposalValid
<1> QED
  BY <1>1, <1>2, <1>3, <1>4, <1>5, <1>6 DEF IInv

\* The invariant of the walk and of the filter holds in every behaviour,
\* whatever the node and the private mempool do between two steps.
THEOREM InductiveInvariant == Spec => []IInv
<1>1. Init => IInv
  BY InitInv
<1>2. IInv /\ [Next]_vars => IInv'
  <2> SUFFICES ASSUME IInv, [Next]_vars
               PROVE  IInv'
    OBVIOUS
  <2>1. TypeOK'
    BY TypeStep DEF IInv
  <2> QED
    BY <2>1, WalkStepInv, FilterStepInv, FeeStepInv, UnpaidStepInv, ProposalStepInv
    DEF IInv
<1> QED
  BY <1>1, <1>2, PTL DEF Spec

\* The variables of the handler and of the node keep their types.
THEOREM TypeCorrect == Spec => []TypeOK
<1>1. IInv => TypeOK
  BY DEF IInv
<1> QED
  BY <1>1, InductiveInvariant, PTL

\* The transactions kept from the template spend what neither the private
\* chain nor another of them spends, for any conflicts between any number of
\* transactions.
THEOREM KeptSpendsOnce == Spec => []KeptDisjoint
<1>1. IInv => KeptDisjoint
  BY DEF IInv, FilterInv, KeptDisjoint, AlreadySpent, ToSet
<1> QED
  BY <1>1, InductiveInvariant, PTL

\* None of them is a descendant, at any depth, of a transaction that the
\* filter removed.
THEOREM DescendantsRemoved == Spec => []KeptClosed
<1>1. IInv => KeptClosed
  BY DEF IInv, FilterInv, KeptClosed, ToSet
<1> QED
  BY <1>1, InductiveInvariant, PTL

\* The walk over any shape of ancestors, shared ones included, collects every
\* one but those whose own RPC did not find them, whatever fails or changes; it
\* leaves out none that the node has, when nothing does.
THEOREM WalkCollects == Spec => []AncestorsCollected
<1>1. IInv => AncestorsCollected
  <2> SUFFICES ASSUME IInv, pc \in {"template", "filter", "propose"}
               PROVE  /\ \A i \in DOMAIN txChain :
                           Parents(txChain[i]) \subseteq ToSet(txChain) \cup leftOut
                      /\ quiet => leftOut \cap mempool = {}
    BY DEF AncestorsCollected
  <2>1. stack = <<>> /\ \A k \in DOMAIN stack : FALSE
    BY DEF IInv, WalkInv
  <2>2. ASSUME NEW i \in DOMAIN txChain, NEW p \in Parents(txChain[i])
        PROVE  p \in ToSet(txChain) \cup leftOut
    <3>1. txChain[i] \in ToSet(txChain)
      BY DEF ToSet
    <3>2. p \in visited
      BY <3>1 DEF IInv, WalkInv, Parents
    <3> QED
      BY <2>1, <3>2 DEF IInv, WalkInv
  <2> QED
    BY <2>2 DEF IInv, WalkInv
<1> QED
  BY <1>1, InductiveInvariant, PTL

\* The coinbase never claims more than the fees of the transactions of its
\* block, for any fees, those of a private transaction that pays more than it
\* spends included, and whichever private transactions the node has too.
THEOREM CoinbaseNeverOverclaims == Spec => []NeverOverclaims
<1>1. IInv => NeverOverclaims
  BY ClaimBounded DEF NeverOverclaims
<1> QED
  BY <1>1, InductiveInvariant, PTL

\* Whatever fails or changes, a proposal is accepted exactly when the tip is still
\* that of its template, the chain connects to it by itself and the block is within
\* the limits: no order, double spend, missing parent, lock time or fee of what
\* the filter kept can spoil it.
THEOREM OnlyTheChainSpoils == Spec => []ChainDecides
<1>1. IInv => ChainDecides
  BY DecidedByChain
<1> QED
  BY <1>1, InductiveInvariant, PTL

\* When nothing failed and the node stood still, the node accepts the proposal
\* of every servable pool whose block is within the limits: parents come before
\* children, no outpoint is spent twice, no more is paid than spent, and every
\* lock time has passed.
THEOREM ServablePoolAccepted == Spec => []ServableProposalValid
<1>1. IInv => ServableProposalValid
  BY DEF IInv, ProposalInv
<1> QED
  BY <1>1, InductiveInvariant, PTL
=============================================================================
