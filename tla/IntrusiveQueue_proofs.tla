------------------------ MODULE IntrusiveQueue_proofs ------------------------
(***************************************************************************)
(* Proofs about IntrusiveQueue for any number of threads, nodes and any    *)
(* length of a range.                                                      *)
(***************************************************************************)
EXTENDS IntrusiveQueue, SequenceTheorems, TLAPS

\* A range a caller may push is a nonempty sequence of nodes.
LEMMA RangesAreSequences ==
  ASSUME NEW s \in Ranges
  PROVE  /\ s \in Seq(Node)
         /\ Len(s) \in 1..MaxBatch
         /\ DOMAIN s = 1..Len(s)
         /\ \A i \in 1..Len(s) : s[i] \in Node
<1>1. PICK k \in 1..MaxBatch : s \in [1..k -> Node]
  BY DEF Ranges
<1>2. s \in Seq(Node)
  BY <1>1, MaxBatchAssumption, SeqDef
<1>3. Len(s) = k
  BY <1>1, <1>2, LenProperties, MaxBatchAssumption
<1> QED
  BY <1>1, <1>2, <1>3, LenProperties

\* Chaining a range links each node to the one behind it.
LEMMA SuccessorInRange ==
  ASSUME NEW s \in Ranges, NEW i \in 1..Len(s)
  PROVE  Successor(s, s[i]) = IF i < Len(s) THEN s[i + 1] ELSE Null
<1>1. /\ Len(s) \in Nat
      /\ \A a, b \in 1..Len(s) : s[a] = s[b] => a = b
  BY RangesAreSequences, MaxBatchAssumption DEF Ranges
<1>2. CASE i < Len(s)
  <2>1. i \in 1..(Len(s) - 1)
    BY <1>1, <1>2
  <2>2. \A j \in 1..(Len(s) - 1) : s[j] = s[i] => j = i
    BY <1>1, <2>1
  <2>3. (CHOOSE j \in 1..(Len(s) - 1) : s[j] = s[i]) = i
    BY <2>1, <2>2
  <2> QED
    BY <1>2, <2>1, <2>3 DEF Successor
<1>3. CASE ~(i < Len(s))
  <2>1. ~ \E j \in 1..(Len(s) - 1) : s[j] = s[i]
    BY <1>1, <1>3
  <2> QED
    BY <1>3, <2>1 DEF Successor
<1> QED
  BY <1>2, <1>3

\* The successor of any node is a node or null.
LEMMA SuccessorType ==
  ASSUME NEW s \in Ranges, NEW n
  PROVE  Successor(s, n) \in Node \cup {Null}
<1>1. CASE \E i \in 1..(Len(s) - 1) : s[i] = n
  <2> DEFINE i == CHOOSE j \in 1..(Len(s) - 1) : s[j] = n
  <2>1. i \in 1..(Len(s) - 1)
    BY <1>1
  <2>2. i + 1 \in 1..Len(s)
    BY <2>1, RangesAreSequences, MaxBatchAssumption
  <2> QED
    BY <1>1, <2>2, RangesAreSequences DEF Successor
<1>2. CASE ~ \E i \in 1..(Len(s) - 1) : s[i] = n
  BY <1>2 DEF Successor
<1> QED
  BY <1>1, <1>2
-------------------------------------------------------------------------------
(* Facts about the predicates on sequences that the invariant is made of.  *)

LEMMA SequenceFacts ==
  ASSUME NEW s \in Seq(Node)
  PROVE  /\ Len(s) \in Nat
         /\ DOMAIN s = 1..Len(s)
         /\ s = << >> <=> Len(s) = 0
         /\ \A i \in 1..Len(s) : s[i] \in Node
BY LenProperties, EmptySeq

LEMMA ConcatFacts ==
  ASSUME NEW s \in Seq(Node), NEW r \in Seq(Node)
  PROVE  /\ s \o r \in Seq(Node)
         /\ DOMAIN (s \o r) = 1..(Len(s) + Len(r))
         /\ Len(s \o r) = Len(s) + Len(r)
         /\ \A i \in 1..Len(s) : (s \o r)[i] = s[i]
         /\ \A i \in 1..Len(r) : (s \o r)[Len(s) + i] = r[i]
         /\ \A i \in (Len(s) + 1)..(Len(s) + Len(r)) :
              i - Len(s) \in 1..Len(r) /\ (s \o r)[i] = r[i - Len(s)]
<1>1. /\ s \o r \in Seq(Node)
      /\ Len(s \o r) = Len(s) + Len(r)
      /\ \A i \in 1..(Len(s) + Len(r)) :
           (s \o r)[i] = IF i <= Len(s) THEN s[i] ELSE r[i - Len(s)]
  BY ConcatProperties
<1>2. Len(s) \in Nat /\ Len(r) \in Nat
  BY LenProperties
<1>3. DOMAIN (s \o r) = 1..(Len(s) + Len(r))
  BY <1>1, LenProperties
<1> QED
  BY <1>1, <1>2, <1>3

LEMMA TailFacts ==
  ASSUME NEW s \in Seq(Node), s # << >>
  PROVE  /\ Tail(s) \in Seq(Node)
         /\ Len(s) \in Nat \ {0}
         /\ Len(Tail(s)) = Len(s) - 1
         /\ DOMAIN Tail(s) = 1..(Len(s) - 1)
         /\ \A i \in 1..(Len(s) - 1) : i + 1 \in 1..Len(s) /\ Tail(s)[i] = s[i + 1]
<1>1. /\ Tail(s) \in Seq(Node)
      /\ Len(Tail(s)) = Len(s) - 1
      /\ \A i \in 1..Len(Tail(s)) : Tail(s)[i] = s[i + 1]
  BY HeadTailProperties
<1>2. Len(s) \in Nat \ {0}
  BY LenProperties, EmptySeq
<1>3. DOMAIN Tail(s) = 1..(Len(s) - 1)
  BY <1>1, LenProperties
<1> QED
  BY <1>1, <1>2, <1>3

\* Appending a range of fresh nodes keeps all nodes of a queue different.
LEMMA DistinctConcat ==
  ASSUME NEW s \in Seq(Node), NEW r \in Seq(Node),
         Distinct(s), Distinct(r), Disjoint(r, s)
  PROVE  Distinct(s \o r)
<1> SUFFICES ASSUME NEW i \in 1..(Len(s) + Len(r)), NEW j \in 1..(Len(s) + Len(r)),
                    (s \o r)[i] = (s \o r)[j]
             PROVE  i = j
  BY ConcatFacts DEF Distinct
<1>1. /\ Len(s) \in Nat /\ Len(r) \in Nat
      /\ DOMAIN s = 1..Len(s) /\ DOMAIN r = 1..Len(r)
  BY SequenceFacts
<1>2. \A k \in 1..(Len(s) + Len(r)) :
        \/ k \in 1..Len(s) /\ (s \o r)[k] = s[k]
        \/ k - Len(s) \in 1..Len(r) /\ (s \o r)[k] = r[k - Len(s)]
  <2> TAKE k \in 1..(Len(s) + Len(r))
  <2>1. k \in 1..Len(s) \/ k \in (Len(s) + 1)..(Len(s) + Len(r))
    BY <1>1
  <2> QED
    BY <2>1, ConcatFacts
<1>3. CASE i \in 1..Len(s) /\ j \in 1..Len(s)
  BY ZenonT(40), <1>1, <1>3, ConcatFacts DEF Distinct
<1>4. CASE i \notin 1..Len(s) /\ j \notin 1..Len(s)
  <2>1. i - Len(s) = j - Len(s)
    BY <1>1, <1>2, <1>4 DEF Distinct
  <2> QED
    BY <1>1, <2>1
<1>5. \A a \in 1..Len(s), b \in 1..Len(r) : r[b] # s[a]
  BY <1>1 DEF Disjoint
<1>6. CASE i \in 1..Len(s) /\ j \notin 1..Len(s)
  BY <1>2, <1>5, <1>6
<1>7. CASE i \notin 1..Len(s) /\ j \in 1..Len(s)
  BY <1>2, <1>5, <1>7
<1> QED
  BY <1>3, <1>4, <1>6, <1>7

LEMMA ApartConcat ==
  ASSUME NEW s \in Seq(Node), NEW r \in Seq(Node)
  PROVE  /\ \A q \in Seq(Node) :
              Disjoint(q, s) /\ Disjoint(q, r) => Disjoint(q, s \o r)
         /\ \A n : Without(s, n) /\ Without(r, n) => Without(s \o r, n)
<1>1. /\ Len(s) \in Nat /\ Len(r) \in Nat
      /\ DOMAIN s = 1..Len(s) /\ DOMAIN r = 1..Len(r)
  BY SequenceFacts
<1>2. \A j \in DOMAIN (s \o r) : \/ \E i \in DOMAIN s : (s \o r)[j] = s[i]
                                 \/ \E i \in DOMAIN r : (s \o r)[j] = r[i]
  <2> TAKE j \in DOMAIN (s \o r)
  <2>1. j \in 1..Len(s) \/ j \in (Len(s) + 1)..(Len(s) + Len(r))
    BY <1>1, ConcatFacts
  <2> QED
    BY <2>1, <1>1, ConcatFacts
<1> QED
  BY <1>2 DEF Disjoint, Without

\* What is left of a queue without its oldest node.
LEMMA ApartTail ==
  ASSUME NEW s \in Seq(Node), s # << >>
  PROVE  /\ Distinct(s) => Distinct(Tail(s)) /\ Without(Tail(s), s[1])
         /\ \A q \in Seq(Node) : Disjoint(q, s) => Disjoint(q, Tail(s)) /\ Without(q, s[1])
         /\ \A n : Without(s, n) => Without(Tail(s), n) /\ n # s[1]
<1>1. Len(s) \in Nat \ {0} /\ DOMAIN s = 1..Len(s)
  BY SequenceFacts, TailFacts
<1>2. Distinct(s) => Distinct(Tail(s))
  BY <1>1, TailFacts DEF Distinct
<1>3. Distinct(s) => Without(Tail(s), s[1])
  BY <1>1, TailFacts DEF Distinct, Without
<1>4. \A q \in Seq(Node) : Disjoint(q, s) => Disjoint(q, Tail(s)) /\ Without(q, s[1])
  BY <1>1, TailFacts DEF Disjoint, Without
<1>5. \A n : Without(s, n) => Without(Tail(s), n) /\ n # s[1]
  BY <1>1, TailFacts DEF Without
<1> QED
  BY <1>2, <1>3, <1>4, <1>5

LEMMA EndsConcat ==
  ASSUME NEW s \in Seq(Node), NEW r \in Seq(Node), r # << >>
  PROVE  /\ s \o r # << >>
         /\ First(s \o r) = IF s = << >> THEN r[1] ELSE s[1]
         /\ Final(s \o r) = r[Len(r)]
<1>1. Len(s) \in Nat /\ Len(r) \in Nat \ {0}
  BY SequenceFacts
<1>2. s \o r # << >>
  BY <1>1, ConcatFacts, SequenceFacts
<1>3. First(s \o r) = IF s = << >> THEN r[1] ELSE s[1]
  <2>1. CASE s = << >>
    <3>1. Len(s) = 0
      BY <2>1, SequenceFacts
    <3>2. (s \o r)[1] = r[1]
      BY <1>1, <3>1, ConcatFacts
    <3> QED
      BY <1>2, <2>1, <3>2 DEF First
  <2>2. CASE s # << >>
    <3>1. Len(s) # 0
      BY <2>2, SequenceFacts
    <3>2. (s \o r)[1] = s[1]
      BY <1>1, <3>1, ConcatFacts
    <3> QED
      BY <1>2, <2>2, <3>2 DEF First
  <2> QED
    BY <2>1, <2>2
<1>4. (s \o r)[Len(s) + Len(r)] = r[Len(r)]
  BY <1>1, ConcatFacts
<1>5. Final(s \o r) = (s \o r)[Len(s) + Len(r)]
  BY <1>2, ConcatFacts DEF Final
<1> QED
  BY <1>2, <1>3, <1>4, <1>5

LEMMA EndsTail ==
  ASSUME NEW s \in Seq(Node), s # << >>
  PROVE  /\ Tail(s) = << >> <=> Len(s) = 1
         /\ First(Tail(s)) = IF Len(s) = 1 THEN Null ELSE s[2]
         /\ Final(Tail(s)) = IF Len(s) = 1 THEN Null ELSE s[Len(s)]
<1>1. Tail(s) \in Seq(Node) /\ Len(s) \in Nat \ {0} /\ Len(Tail(s)) = Len(s) - 1
  BY TailFacts
<1>2. Tail(s) = << >> <=> Len(s) = 1
  BY <1>1, SequenceFacts
<1>3. Len(s) # 1 => Tail(s)[1] = s[2] /\ Tail(s)[Len(s) - 1] = s[Len(s)]
  BY <1>1, TailFacts
<1> QED
  BY <1>1, <1>2, <1>3 DEF First, Final
-------------------------------------------------------------------------------
(* The inductive invariant: one lemma for every action.                    *)

\* A thread inside the lock is the only one.
LEMMA Alone ==
  ASSUME IInv, NEW t \in Thread, Critical(t)
  PROVE  locked /\ \A u \in Thread : u # t => ~Critical(u)
BY DEF IInv, MutualExclusion

LEMMA InitEstablishes == Init => IInv
<1> SUFFICES ASSUME Init PROVE IInv
  OBVIOUS
<1> USE DEF Init
<1>0. << >> \in Seq(Node) /\ DOMAIN << >> = {}
  BY EmptySeq, LenProperties
<1>1. TypeOK
  BY <1>0 DEF TypeOK, Location
<1>2. MutualExclusion
  BY DEF MutualExclusion, Critical
<1>3. Holdings
  BY DEF Holdings
<1>4. OnePlace
  BY <1>0 DEF OnePlace, Entering, Distinct, Disjoint, Without
<1>5. ListShape
  BY <1>0 DEF ListShape, Entering, Chained, First, Final
<1> QED
  BY <1>1, <1>2, <1>3, <1>4, <1>5 DEF IInv

LEMMA StutterPreserves == IInv /\ UNCHANGED vars => IInv'
<1> SUFFICES ASSUME IInv, UNCHANGED vars PROVE IInv'
  OBVIOUS
<1> USE DEF IInv, vars
<1>1. TypeOK'
  BY DEF TypeOK
<1>2. MutualExclusion'
  BY DEF MutualExclusion, Critical
<1>3. Holdings'
  BY DEF Holdings
<1>4. OnePlace'
  BY DEF OnePlace, Entering, Distinct, Disjoint, Without
<1>5. ListShape'
  BY DEF ListShape, Entering, Chained, First, Final
<1> QED
  BY <1>1, <1>2, <1>3, <1>4, <1>5

LEMMA LockPreserves ==
  ASSUME IInv, NEW t \in Thread, PushLock(t) \/ PopLock(t)
  PROVE  IInv'
<1> PICK here, there : /\ Lock(t, here, there)
                       /\ \/ here = "pushLock" /\ there = "pushLink"
                          \/ here = "popLock" /\ there = "popHead"
  BY DEF PushLock, PopLock
<1> USE DEF IInv, Lock, Goto
<1>0. /\ pc \in [Thread -> Location]
      /\ pc[t] = here /\ pc'[t] = there
      /\ \A u \in Thread : u # t => pc'[u] = pc[u]
  BY DEF TypeOK
<1>1. TypeOK'
  BY DEF TypeOK, Location
<1>2. MutualExclusion'
  BY <1>0 DEF MutualExclusion, Critical
<1>3. Holdings'
  BY <1>0 DEF Holdings
<1>4. \A u \in Thread : Entering(u)' = Entering(u)
  BY <1>0 DEF Entering
<1>5. OnePlace'
  BY <1>4 DEF OnePlace, Distinct, Disjoint, Without
<1>6. ListShape'
  BY <1>0, <1>4 DEF ListShape, Chained, First, Final
<1> QED
  BY <1>1, <1>2, <1>3, <1>5, <1>6

LEMMA PopCallPreserves ==
  ASSUME IInv, NEW t \in Thread, Pop(t)
  PROVE  IInv'
<1> USE DEF IInv, Pop, Goto
<1>0. /\ pc \in [Thread -> Location]
      /\ pc[t] = "idle" /\ pc'[t] = "popLock"
      /\ \A u \in Thread : u # t => pc'[u] = pc[u]
  BY DEF TypeOK
<1>1. TypeOK'
  BY DEF TypeOK, Location
<1>2. MutualExclusion'
  BY <1>0 DEF MutualExclusion, Critical
<1>3. Holdings'
  BY <1>0 DEF Holdings
<1>4. \A u \in Thread : Entering(u)' = Entering(u)
  BY <1>0 DEF Entering
<1>5. OnePlace'
  BY <1>4 DEF OnePlace, Distinct, Disjoint, Without
<1>6. ListShape'
  BY <1>0, <1>4 DEF ListShape, Chained, First, Final
<1> QED
  BY <1>1, <1>2, <1>3, <1>5, <1>6

\* The nodes a thread pushes were nobody's, so chaining them disturbs no link
\* of the queue or of another thread's batch.
LEMMA PushCallPreserves ==
  ASSUME IInv, NEW t \in Thread, Push(t)
  PROVE  IInv'
<1> PICK s \in Ranges :
      /\ next' = [n \in Node |-> IF n \in Elems(s) THEN Successor(s, n) ELSE next[n]]
      /\ batch' = [batch EXCEPT ![t] = s]
  BY DEF Push
<1> USE DEF IInv
<1>0. /\ pc[t] = "idle" /\ pc'[t] = "pushLock"
      /\ \A u \in Thread : u # t => pc'[u] = pc[u]
      /\ pc' \in [Thread -> Location]
      /\ UNCHANGED <<head, tail, locked, result, queue>>
  BY DEF Push, Goto, TypeOK, Location
<1>1. /\ s \in Seq(Node) /\ s # << >>
      /\ Len(s) \in Nat /\ DOMAIN s = 1..Len(s)
      /\ Distinct(s)
      /\ \A i \in DOMAIN s : Free(s[i])
  BY RangesAreSequences, SequenceFacts, MaxBatchAssumption DEF Ranges, Distinct
<1>2. batch'[t] = s /\ \A u \in Thread : u # t => batch'[u] = batch[u]
  BY DEF TypeOK
<1>3. /\ Entering(t) = << >> /\ Entering(t)' = s
      /\ \A u \in Thread : u # t => Entering(u)' = Entering(u)
  BY <1>0, <1>2 DEF Entering
<1>4. /\ \A i \in DOMAIN s, j \in DOMAIN queue : s[i] # queue[j]
      /\ \A u \in Thread : /\ \A i \in DOMAIN s, j \in DOMAIN batch[u] : s[i] # batch[u][j]
                           /\ \A i \in DOMAIN s : s[i] # result[u]
  BY <1>1 DEF Free, Elems
<1>5. \A u \in Thread : Entering(u) = << >> \/ Entering(u) = batch[u]
  BY DEF Entering
<1>6. DOMAIN << >> = {}
  BY EmptySeq, LenProperties
<1>7. \A u \in Thread : Disjoint(s, Entering(u)) /\ Disjoint(Entering(u), s)
  BY <1>4, <1>5, <1>6 DEF Disjoint
<1>8. TypeOK'
  <2>1. next' \in [Node -> Node \cup {Null}]
    BY SuccessorType DEF TypeOK
  <2>2. batch' \in [Thread -> Seq(Node)]
    BY <1>1 DEF TypeOK
  <2> QED
    BY <1>0, <2>1, <2>2 DEF TypeOK
<1>9. MutualExclusion'
  BY <1>0 DEF MutualExclusion, Critical
<1>10. Holdings'
  BY <1>0, <1>1, <1>2 DEF Holdings
<1>11. OnePlace'
  <2>1. Distinct(queue)' /\ \A u \in Thread : Without(queue, result[u])'
    BY <1>0 DEF OnePlace, Distinct, Without
  <2>2. \A u \in Thread : Distinct(Entering(u))'
    BY <1>1, <1>3 DEF OnePlace, Distinct
  <2>3. \A u \in Thread : Disjoint(Entering(u), queue)'
    BY <1>0, <1>3, <1>4 DEF OnePlace, Disjoint
  <2>4. \A u, v \in Thread : Without(Entering(u), result[v])'
    BY <1>0, <1>3, <1>4 DEF OnePlace, Without
  <2>5. \A u, v \in Thread : u # v => Disjoint(Entering(u), Entering(v))'
    BY <1>3, <1>7 DEF OnePlace, Disjoint
  <2>6. \A u, v \in Thread : u # v /\ result'[u] # Null => result'[u] # result'[v]
    BY <1>0 DEF OnePlace
  <2> QED
    BY <2>1, <2>2, <2>3, <2>4, <2>5, <2>6 DEF OnePlace
<1>12. ListShape'
  <2>1. \A n \in Node : n \notin Elems(s) => next'[n] = next[n]
    OBVIOUS
  <2>2. queue \in Seq(Node) /\ \A u \in Thread : batch[u] \in Seq(Node)
    BY DEF TypeOK
  <2>3. Chained(queue)'
    <3>1. \A j \in DOMAIN queue : queue[j] \in Node /\ queue[j] \notin Elems(s)
      BY <1>4, <2>2, SequenceFacts DEF Elems
    <3> QED
      BY <1>0, <2>1, <3>1 DEF ListShape, Chained
  <2>4. Chained(Entering(t))'
    <3>1. \A i \in DOMAIN s : s[i] \in Node /\ s[i] \in Elems(s)
      BY <1>1, SequenceFacts DEF Elems
    <3>2. \A i \in DOMAIN s : next'[s[i]] = Successor(s, s[i])
      BY <3>1
    <3>3. \A i \in DOMAIN s : next'[s[i]] = IF i < Len(s) THEN s[i + 1] ELSE Null
      BY <1>1, <3>2, SuccessorInRange
    <3> QED
      BY <1>3, <3>3 DEF Chained
  <2>5. ASSUME NEW u \in Thread, u # t PROVE Chained(Entering(u))'
    <3>1. \A j \in DOMAIN batch[u] : batch[u][j] \in Node /\ batch[u][j] \notin Elems(s)
      BY <1>4, <2>2, SequenceFacts DEF Elems
    <3>2. \A j \in DOMAIN Entering(u) : next'[Entering(u)[j]] = next[Entering(u)[j]]
      BY <1>5, <1>6, <2>1, <3>1
    <3> QED
      BY <1>3, <2>5, <3>2 DEF ListShape, Chained
  <2>6. /\ head' = First(queue')
        /\ (\A u \in Thread : pc'[u] \notin {"pushTail", "popTail"}) => tail' = Final(queue')
        /\ \A u \in Thread :
             /\ pc'[u] = "pushTail" => Final(batch'[u]) = Final(queue')
             /\ pc'[u] = "popTail" /\ queue' # << >> => tail' = Final(queue')
    BY <1>0, <1>2 DEF ListShape
  <2> QED
    BY <2>3, <2>4, <2>5, <2>6 DEF ListShape
<1> QED
  BY <1>8, <1>9, <1>10, <1>11, <1>12

\* head and tail are null exactly when the queue is empty.
LEMMA Ends ==
  ASSUME TypeOK
  PROVE  /\ First(queue) = Null <=> queue = << >>
         /\ Final(queue) = Null <=> queue = << >>
<1>1. queue \in Seq(Node)
  BY DEF TypeOK
<1>2. queue # << >> => queue[1] \in Node /\ queue[Len(queue)] \in Node
  BY <1>1, SequenceFacts
<1> QED
  BY <1>2, NullAssumption DEF First, Final

LEMMA PushLinkPreserves ==
  ASSUME IInv, NEW t \in Thread, PushLink(t)
  PROVE  IInv'
<1> USE DEF IInv
<1> DEFINE b == batch[t]
<1>0. /\ pc[t] = "pushLink" /\ pc'[t] = "pushTail"
      /\ \A u \in Thread : u # t => pc'[u] = pc[u]
      /\ pc' \in [Thread -> Location]
      /\ UNCHANGED <<tail, locked, batch, result>>
      /\ queue' = queue \o b
  BY DEF PushLink, Goto, TypeOK, Location
<1>1. /\ locked
      /\ \A u \in Thread : u # t => ~Critical(u)
  BY <1>0, Alone DEF Critical
<1>2. tail = Final(queue) /\ head = First(queue)
  BY <1>0, <1>1 DEF ListShape, Critical
<1>3. /\ b \in Seq(Node) /\ b # << >>
      /\ Len(b) \in Nat \ {0} /\ DOMAIN b = 1..Len(b)
      /\ \A i \in DOMAIN b : b[i] \in Node
  BY <1>0, SequenceFacts DEF Holdings, TypeOK
<1>4. /\ queue \in Seq(Node)
      /\ Len(queue) \in Nat /\ DOMAIN queue = 1..Len(queue)
      /\ \A i \in DOMAIN queue : queue[i] \in Node
  BY SequenceFacts DEF TypeOK
<1>5. /\ Entering(t) = b /\ Entering(t)' = << >>
      /\ \A u \in Thread : u # t => Entering(u)' = Entering(u)
  BY <1>0 DEF Entering
<1>6. << >> \in Seq(Node) /\ DOMAIN << >> = {}
  BY EmptySeq, LenProperties
<1>7. \A u \in Thread : Entering(u) \in Seq(Node)
  BY <1>6 DEF Entering, TypeOK
<1>8. /\ Distinct(b) /\ Disjoint(b, queue) /\ Distinct(queue)
      /\ \A u \in Thread : /\ Disjoint(Entering(u), queue)
                           /\ u # t => Disjoint(Entering(u), b)
                           /\ Without(queue, result[u]) /\ Without(b, result[u])
  BY <1>5 DEF OnePlace
<1>9. TypeOK'
  <2>1. queue' \in Seq(Node)
    BY <1>0, <1>3, <1>4, ConcatFacts
  <2>2. head' \in Node \cup {Null} /\ next' \in [Node -> Node \cup {Null}]
    <3>1. b[1] \in Node
      BY <1>3
    <3> QED
      BY <3>1 DEF PushLink, TypeOK
  <2> QED
    BY <1>0, <2>1, <2>2 DEF TypeOK
<1>10. MutualExclusion'
  BY <1>0 DEF MutualExclusion, Critical
<1>11. Holdings'
  BY <1>0 DEF Holdings
<1>12. OnePlace'
  <2>1. Distinct(queue')
    BY <1>0, <1>3, <1>4, <1>8, DistinctConcat
  <2>2. \A u \in Thread : Without(queue', result'[u])
    BY <1>0, <1>3, <1>4, <1>8, ApartConcat
  <2>3. \A u \in Thread : u # t => Disjoint(Entering(u), queue')
    BY <1>0, <1>3, <1>4, <1>7, <1>8, ApartConcat
  <2>4. \A u \in Thread : Distinct(Entering(u)')
    BY <1>5, <1>6 DEF OnePlace, Distinct
  <2>5. \A u \in Thread : Disjoint(Entering(u)', queue')
    BY <1>5, <1>6, <2>3 DEF Disjoint
  <2>6. \A u, v \in Thread : Without(Entering(u)', result'[v])
    BY <1>0, <1>5, <1>6 DEF OnePlace, Without
  <2>7. \A u, v \in Thread : u # v => Disjoint(Entering(u)', Entering(v)')
    BY <1>5, <1>6 DEF OnePlace, Disjoint
  <2>8. \A u, v \in Thread : u # v /\ result'[u] # Null => result'[u] # result'[v]
    BY <1>0 DEF OnePlace
  <2> QED
    BY <2>1, <2>2, <2>4, <2>5, <2>6, <2>7, <2>8 DEF OnePlace, Distinct, Disjoint, Without
<1>13. ListShape'
  <2>1. First(queue') = (IF queue = << >> THEN b[1] ELSE queue[1]) /\ Final(queue') = b[Len(b)]
    BY <1>0, <1>3, <1>4, EndsConcat
  <2>2. head' = First(queue')
    BY <1>2, <2>1, Ends DEF PushLink, First
  <2>3. \A n \in Node : next'[n] = IF queue # << >> /\ n = Final(queue) THEN b[1] ELSE next[n]
    BY <1>2, Ends DEF PushLink, TypeOK
  <2>4. \A i \in DOMAIN queue' :
          \/ i \in 1..Len(queue) /\ queue'[i] = queue[i]
          \/ i - Len(queue) \in 1..Len(b) /\ queue'[i] = b[i - Len(queue)]
    <3> TAKE i \in DOMAIN queue'
    <3>1. i \in 1..Len(queue) \/ i \in (Len(queue) + 1)..(Len(queue) + Len(b))
      BY <1>0, <1>3, <1>4, ConcatFacts
    <3> QED
      BY <1>0, <1>3, <1>4, <3>1, ConcatFacts
  <2>5. /\ Len(queue') = Len(queue) + Len(b)
        /\ DOMAIN queue' = 1..(Len(queue) + Len(b))
        /\ \A i \in 1..Len(queue) : queue'[i] = queue[i]
        /\ \A i \in 1..Len(b) : queue'[Len(queue) + i] = b[i]
    BY <1>0, <1>3, <1>4, ConcatFacts
  <2>6. Chained(queue)'
    <3> SUFFICES ASSUME NEW i \in DOMAIN queue'
                 PROVE  next'[queue'[i]] = IF i < Len(queue') THEN queue'[i + 1] ELSE Null
      BY DEF Chained
    <3>1. CASE i \in 1..Len(queue) /\ i < Len(queue)
      <4>1. queue[i] # Final(queue)
        BY <1>4, <1>8, <3>1 DEF Distinct, Final
      <4>2. next'[queue[i]] = queue[i + 1]
        BY <1>4, <2>3, <3>1, <4>1 DEF ListShape, Chained
      <4> QED
        BY <1>3, <1>4, <2>5, <3>1, <4>2
    <3>2. CASE i \in 1..Len(queue) /\ i = Len(queue)
      <4>1. queue # << >> /\ queue[i] = Final(queue)
        BY <1>4, <1>6, <3>2 DEF Final
      <4>2. next'[queue[i]] = b[1]
        BY <1>4, <2>3, <3>2, <4>1
      <4>3. queue'[i + 1] = b[1]
        BY <1>3, <1>4, <2>5, <3>2
      <4> QED
        BY <1>3, <1>4, <2>5, <3>2, <4>2, <4>3
    <3>3. CASE i - Len(queue) \in 1..Len(b) /\ queue'[i] = b[i - Len(queue)]
      <4> DEFINE j == i - Len(queue)
      <4>1. ~(queue # << >> /\ b[j] = Final(queue))
        BY <1>3, <1>4, <1>8, <3>3, SequenceFacts DEF Disjoint, Final
      <4>2. next'[b[j]] = next[b[j]]
        BY <1>3, <2>3, <3>3, <4>1
      <4>3. next[b[j]] = IF j < Len(b) THEN b[j + 1] ELSE Null
        BY <1>3, <1>5, <3>3 DEF ListShape, Chained
      <4>4. j < Len(b) => queue'[i + 1] = b[j + 1]
        <5>1. ASSUME j < Len(b)
              PROVE  j + 1 \in 1..Len(b) /\ Len(queue) + (j + 1) = i + 1
          BY <1>3, <1>4, <2>5, <3>3, <5>1
        <5> QED
          BY <2>5, <5>1
      <4> QED
        BY <1>3, <1>4, <2>5, <3>3, <4>2, <4>3, <4>4
    <3> QED
      BY <1>4, <2>4, <3>1, <3>2, <3>3
  <2>7. \A u \in Thread : Chained(Entering(u))'
    <3>1. ASSUME NEW u \in Thread, u # t
          PROVE  Chained(Entering(u))'
      <4>1. \A i \in DOMAIN Entering(u) :
              Entering(u)[i] \in Node /\ ~(queue # << >> /\ Entering(u)[i] = Final(queue))
        BY SMTT(30), <1>4, <1>7, <1>8, SequenceFacts DEF Disjoint, Final
      <4> QED
        BY <1>5, <2>3, <3>1, <4>1 DEF ListShape, Chained
    <3>2. Chained(Entering(t))'
      BY <1>5, <1>6 DEF Chained
    <3> QED
      BY <3>1, <3>2
  <2>8. /\ ~ \A u \in Thread : pc'[u] \notin {"pushTail", "popTail"}
        /\ \A u \in Thread :
             /\ pc'[u] = "pushTail" => Final(batch'[u]) = Final(queue')
             /\ pc'[u] = "popTail" /\ queue' # << >> => tail' = Final(queue')
    BY <1>0, <1>1, <1>3, <2>1 DEF Critical, Final
  <2> QED
    BY <2>2, <2>6, <2>7, <2>8 DEF ListShape
<1> QED
  BY <1>9, <1>10, <1>11, <1>12, <1>13

LEMMA PushTailPreserves ==
  ASSUME IInv, NEW t \in Thread, PushTail(t)
  PROVE  IInv'
<1> USE DEF IInv, PushTail, Goto
<1>0. /\ pc[t] = "pushTail" /\ pc'[t] = "pushUnlock"
      /\ \A u \in Thread : u # t => pc'[u] = pc[u]
  BY DEF TypeOK
<1>1. \A u \in Thread : u # t => ~Critical(u)
  BY <1>0, Alone DEF Critical
<1>2. tail' = Final(batch[t]) /\ Final(batch[t]) = Final(queue)
  BY <1>0 DEF Holdings, ListShape, Final
<1>3. \A u \in Thread : Entering(u)' = Entering(u)
  BY <1>0 DEF Entering
<1>4. TypeOK'
  <2>1. batch[t] \in Seq(Node) /\ batch[t] # << >>
    BY <1>0 DEF Holdings, TypeOK
  <2>2. tail' \in Node
    BY <2>1, SequenceFacts
  <2> QED
    BY <2>2 DEF TypeOK, Location
<1>5. MutualExclusion'
  BY <1>0 DEF MutualExclusion, Critical
<1>6. Holdings'
  BY <1>0 DEF Holdings
<1>7. OnePlace'
  BY <1>3 DEF OnePlace, Distinct, Disjoint, Without
<1>8. ListShape'
  <2>1. Chained(queue)' /\ \A u \in Thread : Chained(Entering(u))'
    BY <1>3 DEF ListShape, Chained
  <2> QED
    BY <1>0, <1>1, <1>2, <2>1 DEF ListShape, Critical, First, Final
<1> QED
  BY <1>4, <1>5, <1>6, <1>7, <1>8

LEMMA PushUnlockPreserves ==
  ASSUME IInv, NEW t \in Thread, PushUnlock(t)
  PROVE  IInv'
<1> USE DEF IInv, PushUnlock, Goto
<1>0. /\ pc[t] = "pushUnlock" /\ pc'[t] = "idle"
      /\ \A u \in Thread : u # t => pc'[u] = pc[u] /\ batch'[u] = batch[u]
      /\ batch'[t] = << >>
  BY DEF TypeOK
<1>1. \A u \in Thread : u # t => ~Critical(u)
  BY <1>0, Alone DEF Critical
<1>2. \A u \in Thread : Entering(u)' = Entering(u)
  BY <1>0 DEF Entering
<1>3. TypeOK'
  BY EmptySeq DEF TypeOK, Location
<1>4. MutualExclusion'
  BY <1>0, <1>1 DEF MutualExclusion, Critical
<1>5. Holdings'
  BY <1>0 DEF Holdings
<1>6. OnePlace'
  BY <1>2 DEF OnePlace, Distinct, Disjoint, Without
<1>7. ListShape'
  <2>1. Chained(queue)' /\ \A u \in Thread : Chained(Entering(u))'
    BY <1>2 DEF ListShape, Chained
  <2> QED
    BY <1>0, <1>1, <2>1 DEF ListShape, Critical, First, Final
<1> QED
  BY <1>3, <1>4, <1>5, <1>6, <1>7

LEMMA PopHeadPreserves ==
  ASSUME IInv, NEW t \in Thread, PopHead(t)
  PROVE  IInv'
<1> USE DEF IInv
<1>0. /\ pc[t] = "popHead"
      /\ \A u \in Thread : u # t => pc'[u] = pc[u] /\ result'[u] = result[u]
      /\ result'[t] = head /\ result[t] = Null
      /\ pc'[t] = (IF head # Null THEN "popTail" ELSE "popUnlock")
      /\ pc' \in [Thread -> Location]
      /\ UNCHANGED <<tail, locked, next, batch>>
  BY DEF PopHead, Goto, TypeOK, Location, Holdings
<1>1. \A u \in Thread : u # t => ~Critical(u)
  BY <1>0, Alone DEF Critical
<1>2. tail = Final(queue) /\ head = First(queue) /\ (head = Null <=> queue = << >>)
  BY <1>0, <1>1, Ends DEF ListShape, Critical
<1>3. queue \in Seq(Node) /\ \A u \in Thread : Entering(u) \in Seq(Node)
  BY EmptySeq DEF TypeOK, Entering
<1>4. \A u \in Thread : Entering(u)' = Entering(u)
  BY <1>0 DEF Entering
<1>5. MutualExclusion'
  BY <1>0 DEF MutualExclusion, Critical
<1>6. Holdings'
  BY <1>0 DEF Holdings
<1>7. CASE head = Null
  <2>1. UNCHANGED <<head, queue, result>>
    BY <1>0, <1>7 DEF PopHead, TypeOK
  <2>2. TypeOK'
    BY <1>0, <2>1 DEF TypeOK
  <2>3. OnePlace'
    BY <1>4, <2>1 DEF OnePlace, Distinct, Disjoint, Without
  <2>4. ListShape'
    <3>1. Chained(queue)' /\ \A u \in Thread : Chained(Entering(u))'
      BY <1>0, <1>4, <2>1 DEF ListShape, Chained
    <3> QED
      BY <1>0, <1>1, <1>2, <1>7, <2>1, <3>1 DEF ListShape, Critical, First, Final
  <2> QED
    BY <1>5, <1>6, <2>2, <2>3, <2>4
<1>8. CASE head # Null
  <2>1. /\ queue # << >> /\ head = queue[1]
        /\ queue' = Tail(queue) /\ head' = next[queue[1]]
        /\ queue[1] \in Node
    BY <1>2, <1>3, <1>8, SequenceFacts, TailFacts DEF PopHead, First
  <2>2. TypeOK'
    BY <1>0, <1>3, <2>1, TailFacts DEF TypeOK, PopHead
  <2>3. OnePlace'
    <3>1. Distinct(queue') /\ Without(queue', queue[1])
      BY <1>3, <2>1, ApartTail DEF OnePlace
    <3>2. \A u \in Thread : Disjoint(Entering(u), queue') /\ Without(Entering(u), queue[1])
      BY <1>3, <2>1, ApartTail DEF OnePlace
    <3>3. \A u \in Thread : Without(queue', result[u]) /\ result[u] # queue[1]
      BY <1>3, <2>1, ApartTail DEF OnePlace
    <3>4. \A u \in Thread : result'[u] = IF u = t THEN queue[1] ELSE result[u]
      BY <1>0, <2>1
    <3>5. \A u \in Thread : Without(queue', result'[u])
      BY <3>1, <3>3, <3>4
    <3>6. \A u, v \in Thread : Without(Entering(u), result'[v])
      BY <3>2, <3>4 DEF OnePlace
    <3>7. \A u, v \in Thread : u # v /\ result'[u] # Null => result'[u] # result'[v]
      BY <3>3, <3>4 DEF OnePlace
    <3> QED
      BY <1>4, <3>1, <3>2, <3>5, <3>6, <3>7
         DEF OnePlace, Distinct, Disjoint, Without
  <2>4. ListShape'
    <3>1. /\ Len(queue) \in Nat \ {0} /\ DOMAIN queue = 1..Len(queue)
          /\ DOMAIN queue' = 1..(Len(queue) - 1)
          /\ Len(queue') = Len(queue) - 1
          /\ \A i \in 1..(Len(queue) - 1) : queue'[i] = queue[i + 1]
      BY <1>3, <2>1, TailFacts, SequenceFacts
    <3>2. \A i \in 1..Len(queue) :
             next[queue[i]] = IF i < Len(queue) THEN queue[i + 1] ELSE Null
      BY <3>1 DEF ListShape, Chained
    <3>3. Chained(queue)'
      <4> SUFFICES ASSUME NEW i \in 1..(Len(queue) - 1)
                   PROVE  next[queue[i + 1]] =
                            IF i < Len(queue) - 1 THEN queue'[i + 1] ELSE Null
        BY <1>0, <3>1 DEF Chained
      <4>1. i + 1 \in 1..Len(queue)
        BY <3>1
      <4>2. next[queue[i + 1]] = IF i + 1 < Len(queue) THEN queue[(i + 1) + 1] ELSE Null
        BY <3>2, <4>1
      <4>3. CASE i < Len(queue) - 1
        <5>1. i + 1 \in 1..(Len(queue) - 1)
          BY <3>1, <4>3
        <5> QED
          BY <3>1, <4>2, <4>3, <5>1
      <4>4. CASE ~(i < Len(queue) - 1)
        BY <3>1, <4>2, <4>4
      <4> QED
        BY <4>3, <4>4
    <3>4. \A u \in Thread : Chained(Entering(u))'
      BY <1>0, <1>4 DEF ListShape, Chained
    <3>5. head' = First(queue')
      <4>1. next[queue[1]] = IF Len(queue) = 1 THEN Null ELSE queue[2]
        BY <3>1, <3>2
      <4> QED
        BY <1>3, <2>1, <4>1, EndsTail
    <3>6. queue' # << >> => tail' = Final(queue')
      BY <1>0, <1>2, <1>3, <2>1, EndsTail DEF Final
    <3> QED
      BY <1>0, <1>1, <1>8, <3>3, <3>4, <3>5, <3>6 DEF ListShape, Critical
  <2> QED
    BY <1>5, <1>6, <2>2, <2>3, <2>4
<1> QED
  BY <1>7, <1>8

LEMMA PopTailPreserves ==
  ASSUME IInv, NEW t \in Thread, PopTail(t)
  PROVE  IInv'
<1> USE DEF IInv, PopTail, Goto
<1>0. /\ pc[t] = "popTail" /\ pc'[t] = "popUnlock"
      /\ \A u \in Thread : u # t => pc'[u] = pc[u]
  BY DEF TypeOK
<1>1. \A u \in Thread : u # t => ~Critical(u)
  BY <1>0, Alone DEF Critical
<1>2. tail' = Final(queue)
  <2>1. head = Null <=> queue = << >>
    BY Ends DEF ListShape
  <2> QED
    BY <1>0, <2>1 DEF ListShape, Final
<1>3. \A u \in Thread : Entering(u)' = Entering(u)
  BY <1>0 DEF Entering
<1>4. TypeOK'
  BY DEF TypeOK, Location
<1>5. MutualExclusion'
  BY <1>0 DEF MutualExclusion, Critical
<1>6. Holdings'
  BY <1>0 DEF Holdings
<1>7. OnePlace'
  BY <1>3 DEF OnePlace, Distinct, Disjoint, Without
<1>8. ListShape'
  <2>1. Chained(queue)' /\ \A u \in Thread : Chained(Entering(u))'
    BY <1>3 DEF ListShape, Chained
  <2> QED
    BY <1>0, <1>1, <1>2, <2>1 DEF ListShape, Critical, First, Final
<1> QED
  BY <1>4, <1>5, <1>6, <1>7, <1>8

LEMMA PopUnlockPreserves ==
  ASSUME IInv, NEW t \in Thread, PopUnlock(t)
  PROVE  IInv'
<1> USE DEF IInv, PopUnlock, Goto
<1>0. /\ pc[t] = "popUnlock"
      /\ pc'[t] = IF result[t] # Null THEN "popClear" ELSE "idle"
      /\ \A u \in Thread : u # t => pc'[u] = pc[u]
  BY DEF TypeOK
<1>1. \A u \in Thread : u # t => ~Critical(u)
  BY <1>0, Alone DEF Critical
<1>2. \A u \in Thread : Entering(u)' = Entering(u)
  BY <1>0 DEF Entering
<1>3. TypeOK'
  BY DEF TypeOK, Location
<1>4. MutualExclusion'
  BY <1>0, <1>1 DEF MutualExclusion, Critical
<1>5. Holdings'
  BY <1>0 DEF Holdings
<1>6. OnePlace'
  BY <1>2 DEF OnePlace, Distinct, Disjoint, Without
<1>7. ListShape'
  <2>1. Chained(queue)' /\ \A u \in Thread : Chained(Entering(u))'
    BY <1>2 DEF ListShape, Chained
  <2> QED
    BY <1>0, <1>1, <2>1 DEF ListShape, Critical, First, Final
<1> QED
  BY <1>3, <1>4, <1>5, <1>6, <1>7

\* Outside the lock, but the popped node is in no queue and no batch: clearing
\* its link disturbs nobody.
LEMMA PopClearPreserves ==
  ASSUME IInv, NEW t \in Thread, PopClear(t)
  PROVE  IInv'
<1> USE DEF IInv, PopClear, Goto
<1>0. /\ pc[t] = "popClear" /\ pc'[t] = "idle"
      /\ result[t] \in Node /\ result'[t] = Null
      /\ \A u \in Thread : u # t => pc'[u] = pc[u] /\ result'[u] = result[u]
  BY DEF TypeOK, Holdings
<1>1. queue \in Seq(Node) /\ \A u \in Thread : Entering(u) \in Seq(Node)
  BY EmptySeq DEF TypeOK, Entering
<1>2. \A s \in Seq(Node) : /\ Without(s, Null)
                           /\ \A i \in DOMAIN s : s[i] \in Node
  BY SequenceFacts, NullAssumption DEF Without
<1>3. \A u \in Thread : Entering(u)' = Entering(u)
  BY <1>0 DEF Entering
<1>4. \A n \in Node : n # result[t] => next'[n] = next[n]
  BY DEF TypeOK
<1>5. TypeOK'
  BY DEF TypeOK, Location
<1>6. MutualExclusion'
  BY <1>0 DEF MutualExclusion, Critical
<1>7. Holdings'
  BY <1>0 DEF Holdings
<1>8. OnePlace'
  <2>1. \A u \in Thread : Without(queue, result'[u])
    BY <1>0, <1>1, <1>2 DEF OnePlace
  <2>2. \A u, v \in Thread : Without(Entering(u), result'[v])
    BY <1>0, <1>1, <1>2 DEF OnePlace
  <2>3. \A u, v \in Thread : u # v /\ result'[u] # Null => result'[u] # result'[v]
    BY <1>0 DEF OnePlace
  <2> QED
    BY <1>3, <2>1, <2>2, <2>3 DEF OnePlace, Distinct, Disjoint, Without
<1>9. ListShape'
  <2>1. Chained(queue)'
    <3>1. \A i \in DOMAIN queue : queue[i] \in Node /\ queue[i] # result[t]
      BY <1>1, <1>2 DEF OnePlace, Without
    <3> QED
      BY <1>4, <3>1 DEF ListShape, Chained
  <2>2. ASSUME NEW u \in Thread PROVE Chained(Entering(u))'
    <3>1. \A i \in DOMAIN Entering(u) : Entering(u)[i] \in Node /\ Entering(u)[i] # result[t]
      BY <1>1, <1>2 DEF OnePlace, Without
    <3> QED
      BY <1>3, <1>4, <3>1 DEF ListShape, Chained
  <2> QED
    BY <1>0, <2>1, <2>2 DEF ListShape, First, Final
<1> QED
  BY <1>5, <1>6, <1>7, <1>8, <1>9

LEMMA NextPreserves == IInv /\ [Next]_vars => IInv'
<1> SUFFICES ASSUME IInv, [Next]_vars PROVE IInv'
  OBVIOUS
<1>1. CASE UNCHANGED vars
  BY <1>1, StutterPreserves
<1>2. ASSUME NEW t \in Thread, Push(t) PROVE IInv'
  BY <1>2, PushCallPreserves
<1>3. ASSUME NEW t \in Thread, Pop(t) PROVE IInv'
  BY <1>3, PopCallPreserves
<1>4. ASSUME NEW t \in Thread, Step(t) PROVE IInv'
  BY <1>4, LockPreserves, PushLinkPreserves, PushTailPreserves, PushUnlockPreserves,
     PopHeadPreserves, PopTailPreserves, PopUnlockPreserves, PopClearPreserves DEF Step
<1> QED
  BY <1>1, <1>2, <1>3, <1>4 DEF Next
-------------------------------------------------------------------------------
(* What the invariant implies.                                             *)

\* The inductive invariant of spinlockqueue.hh's intrusive queue: what each
\* thread holds, where every node is and how far tail may lag behind.
THEOREM Invariance == Spec => []IInv
<1>1. Init => IInv
  BY InitEstablishes
<1>2. IInv /\ [Next]_vars => IInv'
  BY NextPreserves
<1> QED
  BY <1>1, <1>2, PTL DEF Spec

\* Every variable keeps its type: no access follows a pointer that is null.
THEOREM TypeCorrect == Spec => []TypeOK
<1>1. IInv => TypeOK
  BY DEF IInv
<1> QED
  BY <1>1, Invariance, PTL

\* At most one thread is between lock and unlock, and m_lock says so.
THEOREM Exclusion == Spec => []MutualExclusion
<1>1. IInv => MutualExclusion
  BY DEF IInv
<1> QED
  BY <1>1, Invariance, PTL

\* A node is in one queue position, one batch or one popper's hands, never two.
THEOREM NodesInOnePlace == Spec => []OnePlace
<1>1. IInv => OnePlace
  BY DEF IInv
<1> QED
  BY <1>1, Invariance, PTL

\* Whoever takes the lock finds head, the links and tail spelling out the queue.
THEOREM AlwaysWellLinked == Spec => []WellLinked
<1>1. IInv => WellLinked
  <2> SUFFICES ASSUME IInv, ~locked PROVE WellLinked
    BY DEF WellLinked
  <2>1. \A t \in Thread : pc[t] \notin {"pushTail", "popTail"}
    BY DEF IInv, MutualExclusion, Critical
  <2> QED
    BY <2>1 DEF IInv, ListShape, WellLinked
<1> QED
  BY <1>1, Invariance, PTL
-------------------------------------------------------------------------------
(* The queue implements FifoQueue: every step is a step of the abstract    *)
(* queue or leaves it alone.                                               *)

\* A step of thread t changes no other thread's call.
LEMMA CallChanges ==
  ASSUME NEW t \in Thread,
         \A u \in Thread : u # t => /\ pc'[u] = pc[u]
                                    /\ batch'[u] = batch[u]
                                    /\ result'[u] = result[u]
  PROVE  \A c : AbstractCall'[t] = c => AbstractCall' = [AbstractCall EXCEPT ![t] = c]
<1>1. \A u \in Thread : u # t => AbstractCall'[u] = AbstractCall[u]
  BY DEF AbstractCall
<1>2. \A f, g : /\ f = [u \in Thread |-> f[u]] /\ g = [u \in Thread |-> g[u]]
                /\ \A u \in Thread : u # t => f[u] = g[u]
                => f = [g EXCEPT ![t] = f[t]]
  OBVIOUS
<1>3. /\ AbstractCall = [u \in Thread |-> AbstractCall[u]]
      /\ AbstractCall' = [u \in Thread |-> AbstractCall'[u]]
  BY DEF AbstractCall
<1> QED
  BY <1>1, <1>2, <1>3

\* The call that each location of a thread stands for.
LEMMA CallAt ==
  ASSUME NEW t \in Thread
  PROVE  /\ pc[t] = "idle" => AbstractCall[t] = Fifo!Idle
         /\ pc[t] \in {"pushLock", "pushLink"} => AbstractCall[t] = Fifo!Pushing(batch[t])
         /\ pc[t] \in {"pushTail", "pushUnlock"} => AbstractCall[t] = Fifo!Done(<< >>)
         /\ pc[t] \in {"popLock", "popHead"} => AbstractCall[t] = Fifo!Popping
         /\ pc[t] \in {"popTail", "popUnlock", "popClear"} =>
              AbstractCall[t] = Fifo!Done(IF result[t] = Null THEN << >> ELSE <<result[t]>>)
BY DEF AbstractCall, Fifo!Idle, Fifo!Pushing, Fifo!Popping, Fifo!Done

LEMMA CallAtNext ==
  ASSUME NEW t \in Thread
  PROVE  /\ pc'[t] = "idle" => AbstractCall'[t] = Fifo!Idle
         /\ pc'[t] \in {"pushLock", "pushLink"} => AbstractCall'[t] = Fifo!Pushing(batch'[t])
         /\ pc'[t] \in {"pushTail", "pushUnlock"} => AbstractCall'[t] = Fifo!Done(<< >>)
         /\ pc'[t] \in {"popLock", "popHead"} => AbstractCall'[t] = Fifo!Popping
         /\ pc'[t] \in {"popTail", "popUnlock", "popClear"} =>
              AbstractCall'[t] = Fifo!Done(IF result'[t] = Null THEN << >> ELSE <<result'[t]>>)
BY DEF AbstractCall, Fifo!Idle, Fifo!Pushing, Fifo!Popping, Fifo!Done

\* A step that leaves the thread's call and the queue alone.
LEMMA Stutters ==
  ASSUME NEW t \in Thread, UNCHANGED queue,
         AbstractCall'[t] = AbstractCall[t],
         \A u \in Thread : u # t => /\ pc'[u] = pc[u]
                                    /\ batch'[u] = batch[u]
                                    /\ result'[u] = result[u]
  PROVE  UNCHANGED Fifo!fifoVars
<1>1. AbstractCall' = [AbstractCall EXCEPT ![t] = AbstractCall[t]]
  BY CallChanges
<1>2. AbstractCall' = AbstractCall
  BY <1>1 DEF AbstractCall
<1> QED
  BY <1>2 DEF Fifo!fifoVars

LEMMA CallsMap ==
  ASSUME TypeOK, NEW t \in Thread, Push(t) \/ Pop(t)
  PROVE  Fifo!CallPush(t) \/ Fifo!CallPop(t)
<1>1. CASE Push(t)
  <2>1. PICK s \in Ranges : batch' = [batch EXCEPT ![t] = s]
    BY <1>1 DEF Push
  <2>2. /\ pc[t] = "idle" /\ pc'[t] = "pushLock" /\ batch'[t] = s
        /\ UNCHANGED <<queue, result>>
        /\ \A u \in Thread : u # t => pc'[u] = pc[u] /\ batch'[u] = batch[u]
    BY <1>1, <2>1 DEF Push, Goto, TypeOK
  <2>3. AbstractCall[t] = Fifo!Idle /\ AbstractCall'[t] = Fifo!Pushing(s)
    BY <2>2, CallAt, CallAtNext
  <2>4. AbstractCall' = [AbstractCall EXCEPT ![t] = Fifo!Pushing(s)]
    BY <2>2, <2>3, CallChanges
  <2>5. AbstractCall'[t].items = s /\ s \in Seq(Node)
    BY <2>3, RangesAreSequences DEF Fifo!Pushing
  <2> QED
    BY <2>2, <2>3, <2>4, <2>5 DEF Fifo!CallPush
<1>2. CASE Pop(t)
  <2>1. /\ pc[t] = "idle" /\ pc'[t] = "popLock"
        /\ UNCHANGED <<queue, batch, result>>
        /\ \A u \in Thread : u # t => pc'[u] = pc[u]
    BY <1>2 DEF Pop, Goto, TypeOK
  <2>2. AbstractCall[t] = Fifo!Idle /\ AbstractCall'[t] = Fifo!Popping
    BY <2>1, CallAt, CallAtNext
  <2>3. AbstractCall' = [AbstractCall EXCEPT ![t] = Fifo!Popping]
    BY <2>1, <2>2, CallChanges
  <2> QED
    BY <2>1, <2>2, <2>3 DEF Fifo!CallPop
<1> QED
  BY <1>1, <1>2

\* A push takes effect when its range becomes reachable, a pop when it moves head.
LEMMA EffectsMap ==
  ASSUME IInv, NEW t \in Thread, PushLink(t) \/ PopHead(t)
  PROVE  Fifo!EffectPush(t) \/ Fifo!EffectPop(t)
<1> USE DEF IInv
<1>1. CASE PushLink(t)
  <2>1. /\ pc[t] = "pushLink" /\ pc'[t] = "pushTail"
        /\ queue' = queue \o batch[t]
        /\ UNCHANGED <<batch, result>>
        /\ \A u \in Thread : u # t => pc'[u] = pc[u]
    BY <1>1 DEF PushLink, Goto, TypeOK
  <2>2. AbstractCall[t] = Fifo!Pushing(batch[t]) /\ AbstractCall'[t] = Fifo!Done(<< >>)
    BY <2>1, CallAt, CallAtNext
  <2>3. AbstractCall' = [AbstractCall EXCEPT ![t] = Fifo!Done(<< >>)]
    BY <2>1, <2>2, CallChanges
  <2> QED
    BY <2>1, <2>2, <2>3 DEF Fifo!EffectPush, Fifo!Pushing
<1>2. CASE PopHead(t)
  <2>1. /\ pc[t] = "popHead" /\ pc'[t] \in {"popTail", "popUnlock"}
        /\ result'[t] = head
        /\ UNCHANGED batch
        /\ \A u \in Thread : u # t => pc'[u] = pc[u] /\ result'[u] = result[u]
    BY <1>2 DEF PopHead, Goto, TypeOK
  <2>2. /\ AbstractCall[t] = Fifo!Popping
        /\ AbstractCall'[t] = Fifo!Done(IF head = Null THEN << >> ELSE <<head>>)
    BY <2>1, CallAt, CallAtNext
  <2>3. AbstractCall' =
          [AbstractCall EXCEPT ![t] = Fifo!Done(IF head = Null THEN << >> ELSE <<head>>)]
    BY <2>1, <2>2, CallChanges
  <2>4. head = First(queue) /\ (head = Null <=> queue = << >>) /\ queue \in Seq(Node)
    BY Ends DEF ListShape, TypeOK
  <2>5. queue # << >> => head = Head(queue)
    BY <2>4, HeadTailProperties DEF First
  <2>6. IF queue = << >> THEN UNCHANGED queue ELSE queue' = Tail(queue)
    BY <1>2, <2>4 DEF PopHead
  <2>7. AbstractCall[t].op = "pop"
    BY <2>2 DEF Fifo!Popping
  <2>8. CASE queue = << >>
    BY <2>3, <2>4, <2>6, <2>7, <2>8 DEF Fifo!EffectPop
  <2>9. CASE queue # << >>
    BY <2>3, <2>4, <2>5, <2>6, <2>7, <2>9 DEF Fifo!EffectPop
  <2> QED
    BY <2>8, <2>9
<1> QED
  BY <1>1, <1>2

LEMMA OthersMap ==
  ASSUME IInv, NEW t \in Thread,
         \/ PushLock(t) \/ PushTail(t) \/ PushUnlock(t)
         \/ PopLock(t) \/ PopTail(t) \/ PopUnlock(t) \/ PopClear(t)
  PROVE  Fifo!Return(t) \/ UNCHANGED Fifo!fifoVars
<1> USE DEF IInv
<1>0. /\ UNCHANGED queue
      /\ \A u \in Thread : u # t => /\ pc'[u] = pc[u]
                                    /\ batch'[u] = batch[u]
                                    /\ result'[u] = result[u]
  BY DEF PushLock, PushTail, PushUnlock, PopLock, PopTail, PopUnlock, PopClear, Lock, Goto,
         TypeOK
<1>1. ASSUME pc'[t] = "idle",
             pc[t] \in {"pushTail", "pushUnlock", "popTail", "popUnlock", "popClear"}
      PROVE  Fifo!Return(t)
  <2>1. \E s : AbstractCall[t] = Fifo!Done(s)
    BY <1>1, CallAt
  <2>2. AbstractCall[t].op = "done"
    BY <2>1 DEF Fifo!Done
  <2>3. AbstractCall'[t] = Fifo!Idle
    BY <1>1, CallAtNext
  <2> QED
    BY <1>0, <2>2, <2>3, CallChanges DEF Fifo!Return
<1>2. CASE PushUnlock(t) \/ PopClear(t)
  BY <1>1, <1>2 DEF PushUnlock, PopClear, Goto, TypeOK
<1>3. CASE PushLock(t) \/ PushTail(t) \/ PopLock(t) \/ PopTail(t)
  <2>1. /\ UNCHANGED <<batch, result>>
        /\ \/ pc[t] = "pushLock" /\ pc'[t] = "pushLink"
           \/ pc[t] = "pushTail" /\ pc'[t] = "pushUnlock"
           \/ pc[t] = "popLock"  /\ pc'[t] = "popHead"
           \/ pc[t] = "popTail"  /\ pc'[t] = "popUnlock"
    BY <1>3 DEF PushLock, PushTail, PopLock, PopTail, Lock, Goto, TypeOK
  <2>2. AbstractCall'[t] = AbstractCall[t]
    BY <2>1, CallAt, CallAtNext
  <2> QED
    BY <1>0, <2>2, Stutters
<1>4. CASE PopUnlock(t)
  <2>1. /\ UNCHANGED result
        /\ pc[t] = "popUnlock"
        /\ pc'[t] = IF result[t] # Null THEN "popClear" ELSE "idle"
    BY <1>4 DEF PopUnlock, Goto, TypeOK
  <2>2. CASE result[t] # Null
    <3>1. AbstractCall'[t] = AbstractCall[t]
      BY <2>1, <2>2, CallAt, CallAtNext
    <3> QED
      BY <1>0, <3>1, Stutters
  <2>3. CASE result[t] = Null
    BY <1>1, <2>1, <2>3
  <2> QED
    BY <2>2, <2>3
<1> QED
  BY <1>2, <1>3, <1>4

\* spinlockqueue.hh's intrusive queue is a linearizable first-in first-out
\* queue: push, push_range and pop each take effect at one instant, in order.
THEOREM Linearizable == Spec => ImplementsFifo
<1>1. Init => Fifo!Init
  BY DEF Init, Fifo!Init, AbstractCall, Fifo!Idle
<1>2. IInv /\ [Next]_vars => [Fifo!Next]_(Fifo!fifoVars)
  <2> SUFFICES ASSUME IInv, [Next]_vars PROVE [Fifo!Next]_(Fifo!fifoVars)
    OBVIOUS
  <2>1. CASE UNCHANGED vars
    BY <2>1 DEF vars, Fifo!fifoVars, AbstractCall
  <2>2. ASSUME NEW t \in Thread, Push(t) \/ Pop(t) \/ Step(t)
        PROVE  [Fifo!Next]_(Fifo!fifoVars)
    BY <2>2, CallsMap, EffectsMap, OthersMap DEF Step, Fifo!Next, IInv
  <2> QED
    BY <2>1, <2>2 DEF Next
<1> QED
  BY <1>1, <1>2, Invariance, PTL DEF Spec, ImplementsFifo, Fifo!Spec
==============================================================================
