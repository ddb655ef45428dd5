------------------------- MODULE TwoLockQueue_proofs -------------------------
(***************************************************************************)
(* Proofs about TwoLockQueue for any number of threads, cells and values.  *)
(***************************************************************************)
EXTENDS TwoLockQueue, SequenceLemmas

LEMMA ChainFacts ==
  ASSUME IInv
  PROVE  /\ chain \in Seq(Cell) /\ Len(chain) \in Nat \ {0} /\ chain # << >>
         /\ DOMAIN chain = 1..Len(chain)
         /\ \A i \in 1..Len(chain) : chain[i] \in Cell /\ chain[i] \in Elems(chain)
         /\ \A i \in 1..Len(chain) : chain[i] \in heap
         /\ \A i, j \in 1..Len(chain) : chain[i] = chain[j] => i = j
         /\ queue \in Seq(Value) /\ Len(queue) \in Nat /\ DOMAIN queue = 1..Len(queue)
         /\ queue = << >> <=> Len(queue) = 0
         /\ Taking \in {0, 1}
         /\ Len(chain) = Len(queue) + 1 + Taking
<1>1. chain \in Seq(Cell) /\ queue \in Seq(Value)
  BY DEF IInv, TypeOK
<1>2. /\ Len(chain) \in Nat /\ DOMAIN chain = 1..Len(chain)
      /\ Len(queue) \in Nat /\ DOMAIN queue = 1..Len(queue)
  BY <1>1, LenProperties
<1>3. Taking \in {0, 1} /\ Len(chain) = Len(queue) + 1 + Taking
  BY DEF IInv, ChainHoldsQueue, Taking
<1>4. Len(chain) \in Nat \ {0}
  BY <1>2, <1>3
<1>5. chain # << >> /\ (queue = << >> <=> Len(queue) = 0)
  BY <1>1, <1>2, <1>4, EmptySeq
<1>6. \A i \in 1..Len(chain) : chain[i] \in Cell /\ chain[i] \in Elems(chain)
  BY <1>1, <1>2, ElementOfSeq DEF Elems
<1>7. \A i \in 1..Len(chain) : chain[i] \in heap
  BY <1>6 DEF IInv, CellsApart
<1>8. \A i, j \in 1..Len(chain) : chain[i] = chain[j] => i = j
  BY <1>2 DEF IInv, CellsApart
<1> QED
  BY <1>1, <1>2, <1>3, <1>4, <1>5, <1>6, <1>7, <1>8

\* A pusher inside m_tailLock is the only one, a popper inside m_headLock too.
LEMMA Alone ==
  ASSUME IInv, NEW t \in Thread
  PROVE  /\ HoldsTail(t) => tailLock /\ \A u \in Thread : u # t => ~HoldsTail(u)
         /\ HoldsHead(t) => headLock /\ \A u \in Thread : u # t => ~HoldsHead(u)
BY DEF IInv, Locks

\* Unless one thread is at popHead, no value has been taken ahead of its cell.
LEMMA TakingAt ==
  ASSUME IInv, NEW t \in Thread, HoldsHead(t)
  PROVE  Taking = IF pc[t] = "popHead" THEN 1 ELSE 0
BY Alone DEF Taking, HoldsHead

\* The cells that are some thread's own.
Owned == {node[t] : t \in {u \in Thread : Owns(u)}}

LEMMA NoLeakOwned == NoLeak <=> heap = Elems(chain) \cup Owned
BY DEF NoLeak, Owned, Owns

LEMMA NoLeakOwnedNext == NoLeak' <=> heap' = Elems(chain)' \cup Owned'
BY DEF NoLeak, Owned, Owns

LEMMA InitEstablishes == Init => IInv
<1> SUFFICES ASSUME Init PROVE IInv
  OBVIOUS
<1> USE DEF Init
<1>1. PICK c \in Cell : heap = {c}
  OBVIOUS
<1>2. head = c /\ tail = c /\ chain = <<c>> /\ heap = {c}
  BY <1>1
<1>3. Len(chain) = 1 /\ DOMAIN chain = {1} /\ chain[1] = c /\ Elems(chain) = {c}
  BY <1>2 DEF Elems
<1>4. Len(queue) = 0 /\ Taking = 0
  BY EmptySeq DEF Taking
<1>5. TypeOK
  <2>1. chain \in Seq(Cell) /\ queue \in Seq(Value)
    BY <1>2, EmptySeq
  <2> QED
    BY <1>2, <2>1 DEF TypeOK, Location
<1>6. Locks
  BY DEF Locks, HoldsTail, HoldsHead
<1>7. CellsApart
  BY <1>2, <1>3 DEF CellsApart, Owns
<1>8. Holdings
  BY DEF Holdings
<1>9. ChainHoldsQueue
  BY <1>2, <1>3, <1>4 DEF ChainHoldsQueue
<1>10. NoLeak
  BY <1>2, <1>3 DEF NoLeak
<1> QED
  BY <1>5, <1>6, <1>7, <1>8, <1>9, <1>10 DEF IInv

LEMMA StutterPreserves == IInv /\ UNCHANGED vars => IInv'
<1> SUFFICES ASSUME IInv, UNCHANGED vars PROVE IInv'
  OBVIOUS
<1> USE DEF IInv, vars
<1>1. TypeOK'
  BY DEF TypeOK
<1>2. Locks'
  BY DEF Locks, HoldsTail, HoldsHead
<1>3. CellsApart'
  BY DEF CellsApart, Owns, Elems
<1>4. Holdings'
  BY DEF Holdings
<1>5. ChainHoldsQueue'
  BY DEF ChainHoldsQueue, Taking
<1>6. NoLeak'
  BY DEF NoLeak, Elems
<1> QED
  BY <1>1, <1>2, <1>3, <1>4, <1>5, <1>6

\* A new node comes from outside the heap: it is neither in the chain nor
\* another thread's, and writing it disturbs no link and no value.
LEMMA PushPreserves ==
  ASSUME IInv, NEW t \in Thread, Push(t)
  PROVE  IInv'
<1> PICK c \in Cell \ heap, v \in Value :
      /\ heap' = heap \cup {c}
      /\ data' = [data EXCEPT ![c] = v]
      /\ next' = [next EXCEPT ![c] = Null]
      /\ node' = [node EXCEPT ![t] = c]
  BY DEF Push
<1> USE DEF IInv
<1>0. /\ pc[t] = "idle" /\ pc'[t] = "pushLock" /\ node'[t] = c
      /\ \A u \in Thread : u # t => pc'[u] = pc[u] /\ node'[u] = node[u]
      /\ pc' \in [Thread -> Location]
      /\ UNCHANGED <<head, tail, headLock, tailLock, result, queue, chain>>
  BY DEF Push, Goto, TypeOK, Location
<1>1. /\ \A d \in Cell : d # c => next'[d] = next[d] /\ data'[d] = data[d]
      /\ next'[c] = Null /\ data'[c] = v
  BY DEF TypeOK
<1>2. \A i \in 1..Len(chain) : chain[i] \in Cell /\ chain[i] # c
  BY ChainFacts
<1>3. Elems(chain)' = Elems(chain) /\ c \notin Elems(chain)
  BY <1>0 DEF Elems, CellsApart
<1>4. TypeOK'
  BY <1>0 DEF TypeOK
<1>5. Locks'
  BY <1>0 DEF Locks, HoldsTail, HoldsHead
<1>6. CellsApart'
  BY <1>0, <1>3 DEF CellsApart, Owns
<1>7. Holdings'
  <2>1. \A u \in Thread : Owns(u) => node[u] \in Cell /\ node[u] # c
    BY DEF CellsApart, TypeOK
  <2> QED
    BY <1>0, <1>1, <2>1 DEF Holdings, Owns
<1>8. ChainHoldsQueue'
  <2>1. Taking' = Taking
    BY <1>0 DEF Taking
  <2>2. \A i \in 1..Len(queue) : i + 1 + Taking \in 1..Len(chain)
    BY ChainFacts
  <2> QED
    BY <1>0, <1>1, <1>2, <2>1, <2>2 DEF ChainHoldsQueue
<1>9. NoLeak'
  <2>1. Owned' = Owned \cup {c}
    BY <1>0 DEF Owned, Owns
  <2> QED
    BY <1>3, <2>1, NoLeakOwned, NoLeakOwnedNext
<1> QED
  BY <1>4, <1>5, <1>6, <1>7, <1>8, <1>9

\* The calls and the steps into a lock touch neither cells nor values.
LEMMA EnterPreserves ==
  ASSUME IInv, NEW t \in Thread, Pop(t) \/ PushLock(t) \/ PopLock(t)
  PROVE  IInv'
<1> USE DEF IInv
<1>0. /\ \/ pc[t] = "idle" /\ pc'[t] = "popLock" /\ UNCHANGED <<headLock, tailLock>>
         \/ pc[t] = "pushLock" /\ pc'[t] = "pushLink" /\ ~tailLock /\ tailLock'
                               /\ UNCHANGED headLock
         \/ pc[t] = "popLock" /\ pc'[t] = "popNext" /\ ~headLock /\ headLock'
                              /\ UNCHANGED tailLock
      /\ \A u \in Thread : u # t => pc'[u] = pc[u]
      /\ pc' \in [Thread -> Location]
      /\ UNCHANGED <<head, tail, next, data, heap, node, result, queue, chain>>
  BY DEF Pop, PushLock, PopLock, Goto, TypeOK, Location
<1>1. TypeOK'
  BY <1>0 DEF TypeOK, Pop, PushLock, PopLock
<1>2. Locks'
  BY <1>0 DEF Locks, HoldsTail, HoldsHead, TypeOK
<1>3. CellsApart'
  BY <1>0 DEF CellsApart, Owns, Elems
<1>4. Holdings'
  BY <1>0 DEF Holdings
<1>5. ChainHoldsQueue'
  BY <1>0 DEF ChainHoldsQueue, Taking
<1>6. NoLeak'
  <2>1. Owned' = Owned /\ Elems(chain)' = Elems(chain)
    BY <1>0 DEF Owned, Owns, Elems
  <2> QED
    BY <1>0, <2>1, NoLeakOwned, NoLeakOwnedNext
<1> QED
  BY <1>1, <1>2, <1>3, <1>4, <1>5, <1>6

\* tail is the last cell of the chain, so the new node goes to its end.
LEMMA PushLinkPreserves ==
  ASSUME IInv, NEW t \in Thread, PushLink(t)
  PROVE  IInv'
<1> USE DEF IInv
<1> DEFINE n == node[t]
           k == Len(chain)
<1>0. /\ pc[t] = "pushLink" /\ pc'[t] = "pushTail"
      /\ \A u \in Thread : u # t => pc'[u] = pc[u]
      /\ pc' \in [Thread -> Location]
      /\ next' = [next EXCEPT ![tail] = n]
      /\ queue' = Append(queue, data[n]) /\ chain' = Append(chain, n)
      /\ UNCHANGED <<head, tail, headLock, tailLock, data, heap, node, result>>
  BY DEF PushLink, Goto, TypeOK, Location
<1>1. tailLock /\ \A u \in Thread : u # t => ~HoldsTail(u)
  BY <1>0, Alone DEF HoldsTail
<1>2. tail = chain[k]
  BY <1>0, <1>1 DEF ChainHoldsQueue, HoldsTail
<1>3. n \in heap \ Elems(chain) /\ n \in Cell /\ next[n] = Null /\ data[n] \in Value
  BY <1>0 DEF CellsApart, Owns, Holdings, TypeOK
<1>4. /\ chain' \in Seq(Cell) /\ Len(chain') = k + 1 /\ DOMAIN chain' = 1..(k + 1)
      /\ \A i \in 1..k : chain'[i] = chain[i]
      /\ chain'[k + 1] = n
      /\ Elems(chain)' = Elems(chain) \cup {n}
  <2>1. chain \in Seq(Cell) /\ n \in Cell /\ chain' = Append(chain, n)
    BY <1>0, <1>3, ChainFacts
  <2>2. Elems(chain)' = Elems(chain) \cup {n}
    BY <2>1, ElementsAppend DEF Elems
  <2> QED
    BY <2>1, <2>2, AppendFacts
<1>5. /\ queue' \in Seq(Value) /\ Len(queue') = Len(queue) + 1
      /\ \A i \in 1..Len(queue) : queue'[i] = queue[i]
      /\ queue'[Len(queue) + 1] = data[n]
  BY <1>0, <1>3, ChainFacts, AppendFacts
<1>6. \A i \in 1..k : chain[i] # n
  BY <1>3, ChainFacts
<1>7. TypeOK'
  BY <1>0, <1>3, <1>4, <1>5 DEF TypeOK
<1>8. Locks'
  BY <1>0 DEF Locks, HoldsTail, HoldsHead
<1>9. CellsApart'
  <2>1. \A i, j \in DOMAIN chain' : chain'[i] = chain'[j] => i = j
    <3>1. \A i \in DOMAIN chain : chain[i] # n
      BY <1>6, ChainFacts
    <3> QED
      BY <1>0, <1>3, <3>1, ChainFacts, DistinctAppend DEF CellsApart
  <2>2. \A u \in Thread : Owns(u)' => u # t /\ Owns(u) /\ node[u] # n
    BY <1>0 DEF Owns, CellsApart
  <2> QED
    BY <1>0, <1>3, <1>4, <2>1, <2>2 DEF CellsApart
<1>10. Holdings'
  <2>1. \A u \in Thread : Owns(u) => node[u] \in Cell /\ node[u] # tail
    BY <1>2, ChainFacts DEF CellsApart, TypeOK
  <2>2. \A u \in Thread : pc'[u] \in {"pushLock", "pushLink"} =>
                             next'[node'[u]] = Null /\ data'[node'[u]] \in Value
    BY <1>0, <2>1 DEF Holdings, Owns, TypeOK
  <2>3. \A u \in Thread : pc'[u] = "pushTail" => node'[u] = chain'[Len(chain')]
    BY <1>0, <1>1, <1>4 DEF HoldsTail
  <2>4. Len(chain) > 1 => Len(chain') > 1
    BY <1>4, ChainFacts
  <2> QED
    BY <1>0, <2>2, <2>3, <2>4 DEF Holdings
<1>11. ChainHoldsQueue'
  <2>1. Taking' = Taking
    BY <1>0 DEF Taking
  <2>2. \A c \in Cell : next'[c] = IF c = tail THEN n ELSE next[c]
    BY <1>0 DEF TypeOK
  <2>k. k \in Nat \ {0}
    BY ChainFacts
  <2>3. \A i \in 1..Len(chain') :
          next'[chain'[i]] = IF i = Len(chain') THEN Null ELSE chain'[i + 1]
    <3> SUFFICES ASSUME NEW i \in 1..(k + 1)
                 PROVE  next'[chain'[i]] = IF i = k + 1 THEN Null ELSE chain'[i + 1]
      BY <1>4
    <3>1. CASE i = k + 1
      BY <1>2, <1>3, <1>4, <1>6, <2>2, <3>1, ChainFacts
    <3>2. CASE i = k
      BY <1>2, <1>4, <2>2, <3>2, ChainFacts
    <3>3. CASE i \in 1..(k - 1)
      <4>1. i \in 1..k /\ i + 1 \in 1..k /\ k \in 1..k /\ i # k
        BY <2>k, <3>3
      <4>2. chain[i] # tail /\ chain[i] \in Cell
        BY <1>2, <4>1, ChainFacts
      <4>3. next[chain[i]] = chain[i + 1]
        BY <4>1 DEF ChainHoldsQueue
      <4> QED
        BY <1>4, <2>2, <4>1, <4>2, <4>3
    <3> QED
      BY <2>k, <3>1, <3>2, <3>3
  <2>4. Len(chain') = Len(queue') + 1 + Taking'
    BY <1>4, <1>5, <2>1, ChainFacts
  <2>5. \A i \in 1..Len(queue') : queue'[i] = data'[chain'[i + 1 + Taking']]
    <3> SUFFICES ASSUME NEW i \in 1..(Len(queue) + 1)
                 PROVE  queue'[i] = data[chain'[i + 1 + Taking]]
      BY <1>0, <1>5, <2>1
    <3>1. CASE i = Len(queue) + 1
      <4>1. i + 1 + Taking = k + 1
        BY <3>1, ChainFacts
      <4> QED
        BY <1>4, <1>5, <3>1, <4>1
    <3>2. CASE i \in 1..Len(queue)
      <4>1. i + 1 + Taking \in 1..k
        BY <3>2, ChainFacts
      <4> QED
        BY <1>4, <1>5, <3>2, <4>1 DEF ChainHoldsQueue
    <3> QED
      BY <3>1, <3>2, ChainFacts
  <2>6. head' = chain'[1] /\ ~ \A u \in Thread : pc'[u] # "pushTail"
    BY <1>0, <1>4, ChainFacts DEF ChainHoldsQueue
  <2> QED
    BY <2>3, <2>4, <2>5, <2>6 DEF ChainHoldsQueue
<1>12. NoLeak'
  <2>1. Owned \cup {n} = Owned' \cup {n}
    BY <1>0 DEF Owned, Owns
  <2>2. n \in Owned
    BY <1>0 DEF Owned, Owns
  <2> QED
    BY <1>0, <1>4, <2>1, <2>2, NoLeakOwned, NoLeakOwnedNext
<1> QED
  BY <1>7, <1>8, <1>9, <1>10, <1>11, <1>12

LEMMA PushTailPreserves ==
  ASSUME IInv, NEW t \in Thread, PushTail(t)
  PROVE  IInv'
<1> USE DEF IInv
<1>0. /\ pc[t] = "pushTail" /\ pc'[t] = "pushUnlock" /\ tail' = node[t]
      /\ \A u \in Thread : u # t => pc'[u] = pc[u]
      /\ pc' \in [Thread -> Location]
      /\ UNCHANGED <<head, headLock, tailLock, next, data, heap, node, result, queue, chain>>
  BY DEF PushTail, Goto, TypeOK, Location
<1>1. tail' = chain[Len(chain)] /\ tail' \in Cell
  BY <1>0, ChainFacts DEF Holdings
<1>2. TypeOK'
  BY <1>0, <1>1 DEF TypeOK
<1>3. Locks'
  BY <1>0 DEF Locks, HoldsTail, HoldsHead
<1>4. CellsApart'
  BY <1>0 DEF CellsApart, Owns, Elems
<1>5. Holdings'
  BY <1>0 DEF Holdings
<1>6. ChainHoldsQueue'
  BY <1>0, <1>1 DEF ChainHoldsQueue, Taking
<1>7. NoLeak'
  <2>1. Owned' = Owned /\ Elems(chain)' = Elems(chain)
    BY <1>0 DEF Owned, Owns, Elems
  <2> QED
    BY <1>0, <2>1, NoLeakOwned, NoLeakOwnedNext
<1> QED
  BY <1>2, <1>3, <1>4, <1>5, <1>6, <1>7

\* The steps out of a lock, back to the caller.
LEMMA LeavePreserves ==
  ASSUME IInv, NEW t \in Thread, PushUnlock(t) \/ PopEmpty(t)
  PROVE  IInv'
<1> USE DEF IInv
<1>0. /\ \/ pc[t] = "pushUnlock" /\ tailLock' = FALSE /\ UNCHANGED headLock
         \/ pc[t] = "popEmpty" /\ headLock' = FALSE /\ UNCHANGED tailLock
      /\ pc'[t] = "idle"
      /\ \A u \in Thread : u # t => pc'[u] = pc[u] /\ node'[u] = node[u]
      /\ pc' \in [Thread -> Location]
      /\ UNCHANGED <<head, tail, next, data, heap, result, queue, chain>>
  BY DEF PushUnlock, PopEmpty, Goto, TypeOK, Location
<1>1. TypeOK'
  BY <1>0 DEF TypeOK, PushUnlock, PopEmpty
<1>2. Locks'
  <2>1. CASE PushUnlock(t)
    <3>1. HoldsTail(t) /\ ~HoldsHead(t) /\ UNCHANGED headLock /\ tailLock' = FALSE
      BY <2>1 DEF PushUnlock, HoldsTail, HoldsHead
    <3> QED
      BY <1>0, <3>1 DEF Locks, HoldsTail, HoldsHead
  <2>2. CASE PopEmpty(t)
    <3>1. HoldsHead(t) /\ ~HoldsTail(t) /\ UNCHANGED tailLock /\ headLock' = FALSE
      BY <2>2 DEF PopEmpty, HoldsTail, HoldsHead
    <3> QED
      BY <1>0, <3>1 DEF Locks, HoldsTail, HoldsHead
  <2> QED
    BY <2>1, <2>2
<1>3. CellsApart'
  BY <1>0 DEF CellsApart, Owns, Elems
<1>4. Holdings'
  BY <1>0 DEF Holdings
<1>5. ChainHoldsQueue'
  BY <1>0 DEF ChainHoldsQueue, Taking
<1>6. NoLeak'
  <2>1. Owned' = Owned /\ Elems(chain)' = Elems(chain)
    BY <1>0 DEF Owned, Owns, Elems
  <2> QED
    BY <1>0, <2>1, NoLeakOwned, NoLeakOwnedNext
<1> QED
  BY <1>1, <1>2, <1>3, <1>4, <1>5, <1>6

\* A null next pointer behind the dummy means that the chain is the dummy alone.
LEMMA PopNextPreserves ==
  ASSUME IInv, NEW t \in Thread, PopNext(t)
  PROVE  IInv'
<1> USE DEF IInv
<1>0. /\ pc[t] = "popNext" /\ node'[t] = head
      /\ pc'[t] = IF next[head] # Null THEN "popData" ELSE "popEmpty"
      /\ \A u \in Thread : u # t => pc'[u] = pc[u] /\ node'[u] = node[u]
      /\ pc' \in [Thread -> Location]
      /\ UNCHANGED <<head, tail, headLock, tailLock, next, data, heap, result, queue, chain>>
  BY DEF PopNext, Goto, TypeOK, Location
<1>1. next[head] # Null => Len(chain) > 1
  <2>1. 1 \in 1..Len(chain) /\ (Len(chain) # 1 => Len(chain) > 1)
    BY ChainFacts
  <2>2. head = chain[1] /\ next[chain[1]] = IF 1 = Len(chain) THEN Null ELSE chain[1 + 1]
    BY <2>1 DEF ChainHoldsQueue
  <2> QED
    BY <2>1, <2>2
<1>2. TypeOK'
  BY <1>0 DEF TypeOK, PopNext
<1>3. Locks'
  BY <1>0 DEF Locks, HoldsTail, HoldsHead
<1>4. CellsApart'
  BY <1>0 DEF CellsApart, Owns, Elems
<1>5. Holdings'
  BY <1>0, <1>1 DEF Holdings
<1>6. ChainHoldsQueue'
  BY <1>0 DEF ChainHoldsQueue, Taking
<1>7. NoLeak'
  <2>1. Owned' = Owned /\ Elems(chain)' = Elems(chain)
    BY <1>0 DEF Owned, Owns, Elems
  <2> QED
    BY <1>0, <2>1, NoLeakOwned, NoLeakOwnedNext
<1> QED
  BY <1>2, <1>3, <1>4, <1>5, <1>6, <1>7

\* The value a popper takes is the oldest one, and it is in the second cell.
LEMMA OldestValue ==
  ASSUME IInv, NEW t \in Thread, pc[t] = "popData"
  PROVE  /\ Taking = 0 /\ Len(queue) \in Nat \ {0} /\ queue # << >>
         /\ 2 \in 1..Len(chain) /\ node[t] = chain[1] /\ next[node[t]] = chain[2]
         /\ data[chain[2]] = queue[1] /\ queue[1] \in Value
<1> USE DEF IInv
<1>1. Taking = 0
  BY TakingAt DEF HoldsHead
<1>2. Len(chain) > 1 /\ node[t] = head /\ head = chain[1]
  BY DEF Holdings, ChainHoldsQueue
<1>3. Len(queue) \in Nat \ {0} /\ queue # << >> /\ 2 \in 1..Len(chain) /\ 1 \in 1..Len(chain)
  BY <1>1, <1>2, ChainFacts
<1>4. next[chain[1]] = IF 1 = Len(chain) THEN Null ELSE chain[1 + 1]
  BY <1>3 DEF ChainHoldsQueue
<1>5. 1 \in 1..Len(queue) /\ queue[1] = data[chain[1 + 1 + 0]]
  BY <1>1, <1>3 DEF ChainHoldsQueue
<1>6. queue[1] \in Value
  BY <1>5, ElementOfSeq DEF TypeOK
<1> QED
  BY <1>1, <1>2, <1>3, <1>4, <1>5, <1>6

LEMMA PopDataPreserves ==
  ASSUME IInv, NEW t \in Thread, PopData(t)
  PROVE  IInv'
<1> USE DEF IInv
<1> DEFINE c == chain[2]
<1>0. /\ pc[t] = "popData" /\ pc'[t] = "popHead"
      /\ \A u \in Thread : u # t => pc'[u] = pc[u] /\ result'[u] = result[u]
      /\ pc' \in [Thread -> Location]
      /\ queue' = Tail(queue)
      /\ UNCHANGED <<head, tail, headLock, tailLock, next, heap, node, chain>>
  BY DEF PopData, Goto, TypeOK, Location
<1>1. /\ Taking = 0 /\ Len(queue) \in Nat \ {0} /\ queue # << >>
      /\ 2 \in 1..Len(chain) /\ next[node[t]] = c
      /\ data[c] = queue[1] /\ queue[1] \in Value
      /\ c \in Cell /\ c \in Elems(chain)
  BY <1>0, OldestValue, ChainFacts
<1>2. /\ result'[t] = queue[1]
      /\ result' \in [Thread -> Value \cup {NoValue}]
      /\ data' = [data EXCEPT ![c] = NoValue]
  BY <1>1 DEF PopData, TypeOK
<1>3. \A d \in Cell : d # c => data'[d] = data[d]
  BY <1>2 DEF TypeOK
<1>4. /\ queue' \in Seq(Value) /\ Len(queue') = Len(queue) - 1
      /\ \A i \in 1..(Len(queue) - 1) : i + 1 \in 1..Len(queue) /\ queue'[i] = queue[i + 1]
  BY <1>0, <1>1, ChainFacts, ShortenFacts
<1>5. TypeOK'
  BY <1>0, <1>2, <1>4 DEF TypeOK
<1>6. Locks'
  BY <1>0 DEF Locks, HoldsTail, HoldsHead
<1>7. CellsApart'
  BY <1>0 DEF CellsApart, Owns, Elems
<1>8. Holdings'
  <2>1. \A u \in Thread : Owns(u) => node[u] \in Cell /\ node[u] # c
    BY <1>1 DEF CellsApart, TypeOK
  <2> QED
    BY <1>0, <1>1, <1>2, <1>3, <2>1 DEF Holdings, Owns
<1>9. ChainHoldsQueue'
  <2>1. Taking' = 1
    BY <1>0 DEF Taking
  <2>2. Len(chain') = Len(queue') + 1 + Taking'
    <3>1. Len(chain) = Len(queue) + 1 + 0 /\ Len(chain) \in Nat
      BY <1>1, ChainFacts
    <3>2. Len(chain') = Len(chain)
      BY <1>0
    <3> QED
      BY <1>1, <1>4, <2>1, <3>1, <3>2
  <2>3. \A i \in 1..Len(queue') : queue'[i] = data'[chain'[i + 1 + Taking']]
    <3> SUFFICES ASSUME NEW i \in 1..(Len(queue) - 1)
                 PROVE  queue'[i] = data'[chain[i + 2]]
      BY <1>0, <1>1, <1>4, <2>1
    <3>1. i + 1 \in 1..Len(queue) /\ i + 2 \in 1..Len(chain) /\ i + 2 # 2
      BY <1>1, ChainFacts
    <3>2. queue[i + 1] = data[chain[(i + 1) + 1 + 0]]
      BY <1>1, <3>1 DEF ChainHoldsQueue
    <3>3. chain[i + 2] # c /\ chain[i + 2] \in Cell
      BY <1>1, <3>1, ChainFacts
    <3> QED
      BY <1>3, <1>4, <3>1, <3>2, <3>3
  <2> QED
    BY <1>0, <2>2, <2>3 DEF ChainHoldsQueue
<1>10. NoLeak'
  <2>1. Owned' = Owned /\ Elems(chain)' = Elems(chain)
    BY <1>0 DEF Owned, Owns, Elems
  <2> QED
    BY <1>0, <2>1, NoLeakOwned, NoLeakOwnedNext
<1> QED
  BY <1>5, <1>6, <1>7, <1>8, <1>9, <1>10

\* The old dummy leaves the chain and becomes its popper's own.
LEMMA PopHeadPreserves ==
  ASSUME IInv, NEW t \in Thread, PopHead(t)
  PROVE  IInv'
<1> USE DEF IInv
<1> DEFINE k == Len(chain)
<1>0. /\ pc[t] = "popHead" /\ pc'[t] = "popUnlock"
      /\ \A u \in Thread : u # t => pc'[u] = pc[u]
      /\ pc' \in [Thread -> Location]
      /\ head' = next[node[t]] /\ chain' = Tail(chain)
      /\ UNCHANGED <<tail, headLock, tailLock, next, data, heap, node, result, queue>>
  BY DEF PopHead, Goto, TypeOK, Location
<1>1. \A u \in Thread : u # t => ~HoldsHead(u)
  BY <1>0, Alone DEF HoldsHead
<1>2. Taking = 1 /\ Taking' = 0
  BY <1>0, <1>1 DEF Taking, HoldsHead
<1>3. /\ k \in Nat /\ k > 1 /\ node[t] = chain[1] /\ next[chain[1]] = chain[2]
      /\ chain[1] \in heap /\ chain[2] \in Cell
  <2>1. Len(chain) > 1 /\ node[t] = head /\ head = chain[1]
    BY <1>0 DEF Holdings, ChainHoldsQueue
  <2>2. k \in Nat /\ 1 \in 1..Len(chain) /\ 2 \in 1..Len(chain)
    BY <2>1, ChainFacts
  <2>3. next[chain[1]] = IF 1 = Len(chain) THEN Null ELSE chain[1 + 1]
    BY <2>2 DEF ChainHoldsQueue
  <2> QED
    BY <2>1, <2>2, <2>3, ChainFacts
<1>4. /\ chain' \in Seq(Cell) /\ Len(chain') = k - 1 /\ DOMAIN chain' = 1..(k - 1)
      /\ \A i \in 1..(k - 1) : i + 1 \in 1..k /\ chain'[i] = chain[i + 1]
  BY <1>0, ChainFacts, ShortenFacts
<1>5. /\ Elems(chain) = Elems(chain)' \cup {chain[1]}
      /\ chain[1] \notin Elems(chain)'
      /\ \A i, j \in DOMAIN chain' : chain'[i] = chain'[j] => i = j
  <2>1. Elems(chain) = Elems(chain)' \cup {chain[1]}
    BY ZenonT(40), <1>0, ChainFacts, ElementsShorten DEF Elems
  <2>2. /\ \A i, j \in DOMAIN chain' : chain'[i] = chain'[j] => i = j
        /\ \A i \in DOMAIN chain' : chain'[i] # chain[1]
    BY SMTT(30), <1>0, ChainFacts, DistinctShorten DEF CellsApart
  <2> QED
    BY <2>1, <2>2 DEF Elems
<1>6. TypeOK'
  BY <1>0, <1>3, <1>4 DEF TypeOK
<1>7. Locks'
  BY <1>0 DEF Locks, HoldsTail, HoldsHead
<1>8. CellsApart'
  <2>1. \A u \in Thread : u # t => (Owns(u)' <=> Owns(u))
    BY <1>0 DEF Owns
  <2>2. \A u \in Thread : u # t /\ Owns(u) => node[u] # chain[1]
    BY <1>5 DEF CellsApart
  <2> QED
    BY <1>0, <1>3, <1>5, <2>1, <2>2 DEF CellsApart
<1>9. Holdings'
  <2>1. chain'[Len(chain')] = chain[k]
    <3>1. k - 1 \in 1..(k - 1) /\ (k - 1) + 1 = k
      BY <1>3
    <3> QED
      BY <1>4, <3>1
  <2>2. \A u \in Thread : pc'[u] \notin {"popData", "popHead"}
    BY <1>0, <1>1 DEF HoldsHead
  <2> QED
    BY <1>0, <2>1, <2>2 DEF Holdings
<1>10. ChainHoldsQueue'
  <2>1. head' = chain'[1]
    BY <1>0, <1>3, <1>4
  <2>2. \A i \in 1..Len(chain') :
          next'[chain'[i]] = IF i = Len(chain') THEN Null ELSE chain'[i + 1]
    <3> SUFFICES ASSUME NEW i \in 1..(k - 1)
                 PROVE  next[chain[i + 1]] = IF i = k - 1 THEN Null ELSE chain'[i + 1]
      <4>1. next' = next
        BY <1>0
      <4> QED
        BY <1>4, <4>1
    <3>1. next[chain[i + 1]] = IF i + 1 = k THEN Null ELSE chain[(i + 1) + 1]
      BY <1>4 DEF ChainHoldsQueue
    <3>2. i # k - 1 => i + 1 \in 1..(k - 1) /\ i + 1 # k
      BY <1>3
    <3> QED
      BY <1>3, <1>4, <3>1, <3>2
  <2>q. queue' = queue /\ data' = data /\ Len(queue) \in Nat /\ k = Len(queue) + 1 + 1
    BY <1>0, <1>2, ChainFacts
  <2>3. Len(chain') = Len(queue') + 1 + Taking'
    BY <1>2, <1>4, <2>q
  <2>4. \A i \in 1..Len(queue') : queue'[i] = data'[chain'[i + 1 + Taking']]
    <3> SUFFICES ASSUME NEW i \in 1..Len(queue) PROVE queue[i] = data[chain'[i + 1]]
      BY <1>2, <2>q
    <3>1. queue[i] = data[chain[i + 1 + 1]]
      BY <1>2 DEF ChainHoldsQueue
    <3>2. i + 1 \in 1..(k - 1)
      BY <1>2, ChainFacts
    <3> QED
      BY <1>4, <3>1, <3>2
  <2>5. (\A u \in Thread : pc'[u] # "pushTail") => tail' = chain'[Len(chain')]
    <3>1. k - 1 \in 1..(k - 1) /\ (k - 1) + 1 = k
      BY <1>3
    <3>2. (\A u \in Thread : pc'[u] # "pushTail") => \A u \in Thread : pc[u] # "pushTail"
      BY <1>0
    <3> QED
      BY <1>0, <1>4, <3>1, <3>2 DEF ChainHoldsQueue
  <2> QED
    BY <2>1, <2>2, <2>3, <2>4, <2>5 DEF ChainHoldsQueue
<1>11. NoLeak'
  <2>1. Owned' = Owned \cup {chain[1]}
    BY <1>0, <1>3 DEF Owned, Owns
  <2> QED
    BY <1>0, <1>5, <2>1, NoLeakOwned, NoLeakOwnedNext
<1> QED
  BY <1>6, <1>7, <1>8, <1>9, <1>10, <1>11

LEMMA PopUnlockPreserves ==
  ASSUME IInv, NEW t \in Thread, PopUnlock(t)
  PROVE  IInv'
<1> USE DEF IInv
<1>0. /\ pc[t] = "popUnlock" /\ pc'[t] = "popDelete" /\ headLock' = FALSE
      /\ \A u \in Thread : u # t => pc'[u] = pc[u]
      /\ pc' \in [Thread -> Location]
      /\ UNCHANGED <<head, tail, tailLock, next, data, heap, node, result, queue, chain>>
  BY DEF PopUnlock, Goto, TypeOK, Location
<1>1. TypeOK'
  BY <1>0 DEF TypeOK
<1>2. Locks'
  <2>1. HoldsHead(t) /\ ~HoldsTail(t) /\ ~HoldsTail(t)' /\ ~HoldsHead(t)'
    BY <1>0 DEF HoldsHead, HoldsTail
  <2>2. \A u \in Thread : u # t => (HoldsHead(u)' <=> HoldsHead(u)) /\ (HoldsTail(u)' <=> HoldsTail(u))
    BY <1>0 DEF HoldsHead, HoldsTail
  <2> QED
    BY <1>0, <2>1, <2>2 DEF Locks
<1>3. CellsApart'
  BY <1>0 DEF CellsApart, Owns, Elems
<1>4. Holdings'
  BY <1>0 DEF Holdings
<1>5. ChainHoldsQueue'
  BY <1>0 DEF ChainHoldsQueue, Taking
<1>6. NoLeak'
  <2>1. Owned' = Owned /\ Elems(chain)' = Elems(chain)
    BY <1>0 DEF Owned, Owns, Elems
  <2> QED
    BY <1>0, <2>1, NoLeakOwned, NoLeakOwnedNext
<1> QED
  BY <1>1, <1>2, <1>3, <1>4, <1>5, <1>6

\* The cell a popper deletes is its own, so nobody else loses one.
LEMMA PopDeletePreserves ==
  ASSUME IInv, NEW t \in Thread, PopDelete(t)
  PROVE  IInv'
<1> USE DEF IInv
<1>0. /\ pc[t] = "popDelete" /\ pc'[t] = "idle"
      /\ \A u \in Thread : u # t => /\ pc'[u] = pc[u] /\ node'[u] = node[u]
                                    /\ result'[u] = result[u]
      /\ pc' \in [Thread -> Location]
      /\ heap' = heap \ {node[t]}
      /\ UNCHANGED <<head, tail, headLock, tailLock, next, data, queue, chain>>
  BY DEF PopDelete, Goto, TypeOK, Location
<1>1. /\ node[t] \in heap \ Elems(chain)
      /\ \A u \in Thread : u # t /\ Owns(u) => node[u] # node[t]
  BY <1>0 DEF CellsApart, Owns
<1>2. TypeOK'
  BY <1>0 DEF TypeOK, PopDelete
<1>3. Locks'
  BY <1>0 DEF Locks, HoldsTail, HoldsHead
<1>4. CellsApart'
  <2>1. \A u \in Thread : Owns(u)' => u # t /\ Owns(u)
    BY <1>0 DEF Owns
  <2>2. Elems(chain)' = Elems(chain)
    BY <1>0 DEF Elems
  <2> QED
    BY <1>0, <1>1, <2>1, <2>2 DEF CellsApart
<1>5. Holdings'
  BY <1>0 DEF Holdings
<1>6. ChainHoldsQueue'
  BY <1>0 DEF ChainHoldsQueue, Taking
<1>7. NoLeak'
  <2>1. Owned' = Owned \ {node[t]}
    BY <1>0, <1>1 DEF Owned, Owns
  <2>2. Elems(chain)' = Elems(chain)
    BY <1>0 DEF Elems
  <2> QED
    BY <1>0, <1>1, <2>1, <2>2, NoLeakOwned, NoLeakOwnedNext
<1> QED
  BY <1>2, <1>3, <1>4, <1>5, <1>6, <1>7

LEMMA NextPreserves == IInv /\ [Next]_vars => IInv'
<1> SUFFICES ASSUME IInv, [Next]_vars PROVE IInv'
  OBVIOUS
<1>1. CASE UNCHANGED vars
  BY <1>1, StutterPreserves
<1>2. ASSUME NEW t \in Thread, Push(t) \/ Pop(t) \/ Step(t)
      PROVE  IInv'
  BY <1>2, PushPreserves, EnterPreserves, PushLinkPreserves, PushTailPreserves,
     LeavePreserves, PopNextPreserves, PopDataPreserves, PopHeadPreserves,
     PopUnlockPreserves, PopDeletePreserves DEF Step
<1> QED
  BY <1>1, <1>2 DEF Next
-------------------------------------------------------------------------------
\* The inductive invariant of SpinLockQueue: who is inside which lock, whose
\* every cell is, and what the chain from head to tail holds.
THEOREM Invariance == Spec => []IInv
<1>1. Init => IInv
  BY InitEstablishes
<1>2. IInv /\ [Next]_vars => IInv'
  BY NextPreserves
<1> QED
  BY <1>1, <1>2, PTL DEF Spec

\* Every variable keeps its type: no access follows a pointer that is null.
THEOREM TypeCorrect == Spec => []TypeOK
<1>1. IInv => TypeOK
  BY DEF IInv
<1> QED
  BY <1>1, Invariance, PTL

\* The values of the cells behind the dummy are the values in the queue, also
\* while a pusher and a popper work on the chain at once.
THEOREM ChainIsQueue == Spec => []ChainHoldsQueue
<1>1. IInv => ChainHoldsQueue
  BY DEF IInv
<1> QED
  BY <1>1, Invariance, PTL

\* Every allocated cell is in the chain, on its way in, or about to be deleted.
THEOREM NothingLeaks == Spec => []NoLeak
<1>1. IInv => NoLeak
  BY DEF IInv
<1> QED
  BY <1>1, Invariance, PTL

\* No thread reads, writes or deletes a cell that has been deleted.
THEOREM CellsAlive == Spec => []NoUseAfterFree
<1>1. IInv => NoUseAfterFree
  <2> SUFFICES ASSUME IInv, NEW t \in Thread
               PROVE  /\ pc[t] = "pushLink" => {tail, node[t]} \subseteq heap
                      /\ pc[t] = "popNext" => head \in heap
                      /\ pc[t] \in {"popData", "popHead"} =>
                           {node[t], next[node[t]]} \subseteq heap
                      /\ pc[t] = "popDelete" =>
                           /\ node[t] \in heap \ Elems(chain)
                           /\ \A u \in Thread :
                                pc[u] = "popDelete" /\ node[u] = node[t] => u = t
    BY DEF NoUseAfterFree
  <2> USE DEF IInv
  <2>1. 1 \in 1..Len(chain) /\ Len(chain) \in 1..Len(chain) /\ head = chain[1]
    BY ChainFacts DEF ChainHoldsQueue
  <2>2. ASSUME pc[t] = "pushLink" PROVE {tail, node[t]} \subseteq heap
    <3>1. \A u \in Thread : pc[u] # "pushTail"
      BY <2>2, Alone DEF HoldsTail
    <3> QED
      BY <2>1, <2>2, <3>1, ChainFacts DEF ChainHoldsQueue, CellsApart, Owns
  <2>3. ASSUME pc[t] \in {"popData", "popHead"} PROVE {node[t], next[node[t]]} \subseteq heap
    <3>1. Len(chain) > 1 /\ node[t] = chain[1]
      BY <2>1, <2>3 DEF Holdings
    <3>2. 2 \in 1..Len(chain)
      BY <3>1, ChainFacts
    <3>3. next[chain[1]] = chain[1 + 1]
      BY <2>1, <3>1 DEF ChainHoldsQueue
    <3> QED
      BY <2>1, <3>1, <3>2, <3>3, ChainFacts
  <2> QED
    BY <2>1, <2>2, <2>3, ChainFacts DEF CellsApart, Owns
<1> QED
  BY <1>1, Invariance, PTL
-------------------------------------------------------------------------------
(* The queue implements FifoQueue: every step is a step of the abstract    *)
(* queue or leaves it alone.                                               *)

\* What a step of thread t must leave alone, so that it changes no call of
\* another thread: the value on its way in is part of the call.
OthersKeepCalls(t) ==
    \A u \in Thread : u # t =>
      /\ pc'[u] = pc[u] /\ node'[u] = node[u] /\ result'[u] = result[u]
      /\ pc[u] \in {"pushLock", "pushLink"} => data'[node[u]] = data[node[u]]

LEMMA CallChanges ==
  ASSUME NEW t \in Thread, OthersKeepCalls(t)
  PROVE  \A c : AbstractCall'[t] = c => AbstractCall' = [AbstractCall EXCEPT ![t] = c]
<1>1. ASSUME NEW u \in Thread, u # t
      PROVE  AbstractCall'[u] = AbstractCall[u]
  <2>1. /\ pc'[u] = pc[u] /\ node'[u] = node[u] /\ result'[u] = result[u]
        /\ pc[u] \in {"pushLock", "pushLink"} => data'[node[u]] = data[node[u]]
    BY <1>1 DEF OthersKeepCalls
  <2>2. CASE pc[u] \in {"pushLock", "pushLink"}
    BY <2>1, <2>2 DEF AbstractCall
  <2>3. CASE pc[u] \notin {"pushLock", "pushLink"}
    BY <2>1, <2>3 DEF AbstractCall
  <2> QED
    BY <2>2, <2>3
<1>2. \A f, g : /\ f = [u \in Thread |-> f[u]] /\ g = [u \in Thread |-> g[u]]
                /\ \A u \in Thread : u # t => f[u] = g[u]
                => f = [g EXCEPT ![t] = f[t]]
  OBVIOUS
<1>3. /\ AbstractCall = [u \in Thread |-> AbstractCall[u]]
      /\ AbstractCall' = [u \in Thread |-> AbstractCall'[u]]
  BY DEF AbstractCall
<1> QED
  BY <1>1, <1>2, <1>3

\* The call that each location of a thread stands for.
LEMMA CallAt ==
  ASSUME NEW t \in Thread
  PROVE  /\ pc[t] = "idle" => AbstractCall[t] = Fifo!Idle
         /\ pc[t] \in {"pushLock", "pushLink"} => AbstractCall[t] = Fifo!Pushing(<<data[node[t]]>>)
         /\ pc[t] \in {"pushTail", "pushUnlock", "popEmpty"} => AbstractCall[t] = Fifo!Done(<< >>)
         /\ pc[t] \in {"popLock", "popNext", "popData"} => AbstractCall[t] = Fifo!Popping
         /\ pc[t] \in {"popHead", "popUnlock", "popDelete"} =>
              AbstractCall[t] = Fifo!Done(<<result[t]>>)
BY DEF AbstractCall, Fifo!Idle, Fifo!Pushing, Fifo!Popping, Fifo!Done

LEMMA CallAtNext ==
  ASSUME NEW t \in Thread
  PROVE  /\ pc'[t] = "idle" => AbstractCall'[t] = Fifo!Idle
         /\ pc'[t] \in {"pushLock", "pushLink"} =>
              AbstractCall'[t] = Fifo!Pushing(<<data'[node'[t]]>>)
         /\ pc'[t] \in {"pushTail", "pushUnlock", "popEmpty"} => AbstractCall'[t] = Fifo!Done(<< >>)
         /\ pc'[t] \in {"popLock", "popNext", "popData"} => AbstractCall'[t] = Fifo!Popping
         /\ pc'[t] \in {"popHead", "popUnlock", "popDelete"} =>
              AbstractCall'[t] = Fifo!Done(<<result'[t]>>)
BY DEF AbstractCall, Fifo!Idle, Fifo!Pushing, Fifo!Popping, Fifo!Done

\* A step that leaves the thread's call and the queue alone.
LEMMA Stutters ==
  ASSUME NEW t \in Thread, OthersKeepCalls(t), UNCHANGED queue,
         AbstractCall'[t] = AbstractCall[t]
  PROVE  UNCHANGED Fifo!fifoVars
<1>1. AbstractCall' = [AbstractCall EXCEPT ![t] = AbstractCall[t]]
  BY CallChanges
<1>2. AbstractCall' = AbstractCall
  BY <1>1 DEF AbstractCall
<1> QED
  BY <1>2 DEF Fifo!fifoVars

LEMMA CallsMap ==
  ASSUME IInv, NEW t \in Thread, Push(t) \/ Pop(t)
  PROVE  Fifo!CallPush(t) \/ Fifo!CallPop(t)
<1> USE DEF IInv
<1>1. CASE Push(t)
  <2>1. PICK c \in Cell \ heap, v \in Value :
              data' = [data EXCEPT ![c] = v] /\ node' = [node EXCEPT ![t] = c]
    BY <1>1 DEF Push
  <2>2. /\ pc[t] = "idle" /\ pc'[t] = "pushLock" /\ node'[t] = c /\ data'[c] = v
        /\ UNCHANGED <<queue, result>>
        /\ \A u \in Thread : u # t => pc'[u] = pc[u] /\ node'[u] = node[u]
    BY <1>1, <2>1 DEF Push, Goto, TypeOK
  <2>3. OthersKeepCalls(t)
    <3>1. \A u \in Thread : Owns(u) => node[u] \in Cell /\ node[u] # c
      BY DEF CellsApart, TypeOK
    <3> QED
      BY <2>1, <2>2, <3>1 DEF OthersKeepCalls, Owns, TypeOK
  <2>4. AbstractCall[t] = Fifo!Idle /\ AbstractCall'[t] = Fifo!Pushing(<<v>>)
    BY <2>2, CallAt, CallAtNext
  <2>5. AbstractCall' = [AbstractCall EXCEPT ![t] = Fifo!Pushing(<<v>>)]
    BY <2>3, <2>4, CallChanges
  <2>6. AbstractCall'[t].items = <<v>> /\ <<v>> \in Seq(Value)
    BY <2>4 DEF Fifo!Pushing
  <2> QED
    BY <2>2, <2>4, <2>5, <2>6 DEF Fifo!CallPush
<1>2. CASE Pop(t)
  <2>1. /\ pc[t] = "idle" /\ pc'[t] = "popLock"
        /\ UNCHANGED <<queue, data, node, result>>
        /\ \A u \in Thread : u # t => pc'[u] = pc[u]
    BY <1>2 DEF Pop, Goto, TypeOK
  <2>2. AbstractCall[t] = Fifo!Idle /\ AbstractCall'[t] = Fifo!Popping
    BY <2>1, CallAt, CallAtNext
  <2>3. AbstractCall' = [AbstractCall EXCEPT ![t] = Fifo!Popping]
    BY <2>1, <2>2, CallChanges DEF OthersKeepCalls
  <2> QED
    BY <2>1, <2>2, <2>3 DEF Fifo!CallPop
<1> QED
  BY <1>1, <1>2

\* A push takes effect when its node becomes reachable.
LEMMA PushEffectMaps ==
  ASSUME IInv, NEW t \in Thread, PushLink(t)
  PROVE  Fifo!EffectPush(t)
<1> USE DEF IInv
<1> DEFINE v == data[node[t]]
<1>1. /\ pc[t] = "pushLink" /\ pc'[t] = "pushTail"
      /\ queue' = Append(queue, v)
      /\ UNCHANGED <<data, node, result>>
      /\ \A u \in Thread : u # t => pc'[u] = pc[u]
  BY DEF PushLink, Goto, TypeOK
<1>2. AbstractCall[t] = Fifo!Pushing(<<v>>) /\ AbstractCall'[t] = Fifo!Done(<< >>)
  BY <1>1, CallAt, CallAtNext
<1>3. AbstractCall' = [AbstractCall EXCEPT ![t] = Fifo!Done(<< >>)]
  BY <1>1, <1>2, CallChanges DEF OthersKeepCalls
<1>4. queue' = queue \o <<v>>
  <2>1. v \in Value /\ queue \in Seq(Value)
    BY <1>1 DEF Holdings, TypeOK
  <2> QED
    BY <1>1, <2>1, AppendIsConcat
<1> QED
  BY <1>2, <1>3, <1>4 DEF Fifo!EffectPush, Fifo!Pushing

\* A pop takes effect when it takes the value, or when it reads that there is
\* no node behind the dummy: then the queue is empty at that very instant.
LEMMA PopEffectMaps ==
  ASSUME IInv, NEW t \in Thread, PopNext(t) \/ PopData(t)
  PROVE  Fifo!EffectPop(t) \/ UNCHANGED Fifo!fifoVars
<1> USE DEF IInv
<1>1. CASE PopData(t)
  <2>1. /\ queue # << >> /\ next[node[t]] = chain[2]
        /\ data[chain[2]] = queue[1] /\ queue[1] \in Value
        /\ chain[2] \in Cell /\ chain[2] \in Elems(chain)
    BY <1>1, OldestValue, ChainFacts DEF PopData
  <2>2. queue[1] = Head(queue)
    BY <2>1, ShortenFacts DEF TypeOK
  <2>3. /\ pc[t] = "popData" /\ pc'[t] = "popHead" /\ queue' = Tail(queue)
        /\ result'[t] = Head(queue)
        /\ data' = [data EXCEPT ![chain[2]] = NoValue]
        /\ UNCHANGED node
        /\ \A u \in Thread : u # t => pc'[u] = pc[u] /\ result'[u] = result[u]
    BY <1>1, <2>1, <2>2 DEF PopData, Goto, TypeOK
  <2>4. OthersKeepCalls(t)
    <3>1. \A u \in Thread : Owns(u) => node[u] \in Cell /\ node[u] # chain[2]
      BY <2>1 DEF CellsApart, TypeOK
    <3> QED
      BY <2>3, <3>1 DEF OthersKeepCalls, Owns, TypeOK
  <2>5. AbstractCall[t] = Fifo!Popping /\ AbstractCall'[t] = Fifo!Done(<<Head(queue)>>)
    BY <2>3, CallAt, CallAtNext
  <2>6. AbstractCall' = [AbstractCall EXCEPT ![t] = Fifo!Done(<<Head(queue)>>)]
    BY <2>4, <2>5, CallChanges
  <2> QED
    BY <2>1, <2>3, <2>5, <2>6 DEF Fifo!EffectPop, Fifo!Popping
<1>2. CASE PopNext(t)
  <2>1. /\ pc[t] = "popNext"
        /\ pc'[t] = IF next[head] # Null THEN "popData" ELSE "popEmpty"
        /\ UNCHANGED <<queue, data, result>>
        /\ \A u \in Thread : u # t => pc'[u] = pc[u] /\ node'[u] = node[u]
    BY <1>2 DEF PopNext, Goto, TypeOK
  <2>2. OthersKeepCalls(t)
    BY <2>1 DEF OthersKeepCalls
  <2>3. AbstractCall[t] = Fifo!Popping
    BY <2>1, CallAt
  <2>4. CASE next[head] # Null
    <3>1. AbstractCall'[t] = Fifo!Popping
      BY <2>1, <2>4, CallAtNext
    <3> QED
      BY <2>1, <2>2, <2>3, <3>1, Stutters
  <2>5. CASE next[head] = Null
    <3>1. Taking = 0
      BY <2>1, TakingAt DEF HoldsHead
    <3>2. Len(chain) = Len(queue) + 1 + 0 /\ 1 \in 1..Len(chain) /\ Len(queue) \in Nat
      <4>1. Len(queue) \in Nat /\ Len(chain) \in Nat \ {0} /\ Len(chain) = Len(queue) + 1 + 0
        BY <3>1, ChainFacts
      <4> QED
        BY <4>1
    <3>3. queue = << >>
      <4>1. head = chain[1] /\ next[chain[1]] = IF 1 = Len(chain) THEN Null ELSE chain[1 + 1]
        BY <3>2 DEF ChainHoldsQueue
      <4>2. Len(chain) # 1 => 2 \in 1..Len(chain)
        BY <3>2
      <4>3. Len(chain) # 1 => chain[2] # Null
        BY <4>2, ChainFacts, NullAssumption
      <4>4. Len(chain) = 1
        BY <2>5, <4>1, <4>3
      <4> QED
        BY <3>2, <4>4, ChainFacts
    <3>4. AbstractCall'[t] = Fifo!Done(<< >>)
      BY <2>1, <2>5, CallAtNext
    <3>5. AbstractCall' = [AbstractCall EXCEPT ![t] = Fifo!Done(<< >>)]
      BY <2>2, <3>4, CallChanges
    <3> QED
      BY <2>1, <2>3, <3>3, <3>5 DEF Fifo!EffectPop, Fifo!Popping
  <2> QED
    BY <2>4, <2>5
<1> QED
  BY <1>1, <1>2

LEMMA OthersMap ==
  ASSUME IInv, NEW t \in Thread,
         \/ PushLock(t) \/ PushTail(t) \/ PushUnlock(t)
         \/ PopLock(t) \/ PopHead(t) \/ PopUnlock(t) \/ PopDelete(t) \/ PopEmpty(t)
  PROVE  Fifo!Return(t) \/ UNCHANGED Fifo!fifoVars
<1> USE DEF IInv
<1>0. UNCHANGED queue /\ OthersKeepCalls(t)
  BY DEF PushLock, PushTail, PushUnlock, PopLock, PopHead, PopUnlock, PopDelete, PopEmpty,
         Goto, TypeOK, OthersKeepCalls
<1>1. CASE PushUnlock(t) \/ PopDelete(t) \/ PopEmpty(t)
  <2>1. pc[t] \in {"pushUnlock", "popDelete", "popEmpty"} /\ pc'[t] = "idle"
    BY <1>1 DEF PushUnlock, PopDelete, PopEmpty, Goto, TypeOK
  <2>2. \E s : AbstractCall[t] = Fifo!Done(s)
    BY <2>1, CallAt
  <2>3. AbstractCall[t].op = "done"
    BY <2>2 DEF Fifo!Done
  <2>4. AbstractCall'[t] = Fifo!Idle
    BY <2>1, CallAtNext
  <2> QED
    BY <1>0, <2>3, <2>4, CallChanges DEF Fifo!Return
<1>2. CASE PushLock(t) \/ PushTail(t) \/ PopLock(t) \/ PopHead(t) \/ PopUnlock(t)
  <2>1. /\ UNCHANGED <<data, node, result>>
        /\ \/ pc[t] = "pushLock"  /\ pc'[t] = "pushLink"
           \/ pc[t] = "pushTail"  /\ pc'[t] = "pushUnlock"
           \/ pc[t] = "popLock"   /\ pc'[t] = "popNext"
           \/ pc[t] = "popHead"   /\ pc'[t] = "popUnlock"
           \/ pc[t] = "popUnlock" /\ pc'[t] = "popDelete"
    BY <1>2 DEF PushLock, PushTail, PopLock, PopHead, PopUnlock, Goto, TypeOK
  <2>2. AbstractCall'[t] = AbstractCall[t]
    BY <2>1, CallAt, CallAtNext
  <2> QED
    BY <1>0, <2>2, Stutters
<1> QED
  BY <1>1, <1>2

\* SpinLockQueue is a linearizable first-in first-out queue: a push and a pop
\* each take effect at one instant, in order, although they hold two locks.
THEOREM Linearizable == Spec => ImplementsFifo
<1>1. Init => Fifo!Init
  BY DEF Init, Fifo!Init, AbstractCall, Fifo!Idle
<1>2. IInv /\ [Next]_vars => [Fifo!Next]_(Fifo!fifoVars)
  <2> SUFFICES ASSUME IInv, [Next]_vars PROVE [Fifo!Next]_(Fifo!fifoVars)
    OBVIOUS
  <2>1. CASE UNCHANGED vars
    BY <2>1 DEF vars, Fifo!fifoVars, AbstractCall
  <2>2. ASSUME NEW t \in Thread, Push(t) \/ Pop(t) \/ Step(t)
        PROVE  [Fifo!Next]_(Fifo!fifoVars)
    BY <2>2, CallsMap, PushEffectMaps, PopEffectMaps, OthersMap DEF Step, Fifo!Next
  <2> QED
    BY <2>1, <2>2 DEF Next
<1> QED
  BY <1>1, <1>2, Invariance, PTL DEF Spec, ImplementsFifo, Fifo!Spec
===============================================================================
