----------------------------- MODULE TwoLockQueue -----------------------------
(***************************************************************************)
(* SpinLockQueue of src/include/toolkit/spinlockqueue.hh: a linked list    *)
(* that always holds one dummy node, a lock for the poppers and another    *)
(* for the pushers, and one atomic next pointer where the two meet when    *)
(* the queue is empty.  LockedQueue (lockedqueue.hh) runs the same steps   *)
(* with two mutexes.  Nodes are heap cells: push takes one, pop gives the  *)
(* old dummy back, so a cell may be reused at once.                        *)
(*                                                                         *)
(* queue and chain are history variables: the values in the queue and the  *)
(* cells that hold them behind the dummy.  No action reads them.           *)
(***************************************************************************)
EXTENDS Sequences, Integers, TLC

CONSTANTS Thread,   \* the threads that share the queue
          Cell,     \* the heap cells (a bound: push waits when none is free)
          Value,    \* what the queue carries
          NoValue,  \* what T() and a moved-from value hold
          Null      \* the null pointer

ASSUME NullAssumption  == Null \notin Cell
ASSUME ValueAssumption == NoValue \notin Value

\* For a run: threads, cells and values may be exchanged.
Symmetric == Permutations(Thread) \cup Permutations(Cell) \cup Permutations(Value)

VARIABLES head, tail,           \* m_head, m_tail
          headLock, tailLock,   \* m_headLock, m_tailLock
          next, data,           \* m_next and m_data of every cell
          heap,                 \* the cells that are allocated
          pc,                   \* where each thread is
          node,                 \* push: the new node; pop: first, the old dummy
          result,               \* the value each thread has popped
          queue, chain          \* history

vars == <<head, tail, headLock, tailLock, next, data, heap, pc, node, result,
          queue, chain>>

Location == {"idle", "pushLock", "pushLink", "pushTail", "pushUnlock",
             "popLock", "popNext", "popData", "popHead", "popUnlock", "popDelete",
             "popEmpty"}

Init == /\ heap \in {{c} : c \in Cell}
        /\ head \in heap
        /\ tail = head
        /\ headLock = FALSE
        /\ tailLock = FALSE
        /\ next = [c \in Cell |-> Null]
        /\ data = [c \in Cell |-> NoValue]
        /\ pc = [t \in Thread |-> "idle"]
        /\ node = [t \in Thread |-> Null]
        /\ result = [t \in Thread |-> NoValue]
        /\ queue = << >>
        /\ chain = <<head>>

Goto(t, l) == pc' = [pc EXCEPT ![t] = l]
-------------------------------------------------------------------------------
\* new Node(val), outside the lock.
Push(t) == /\ pc[t] = "idle"
           /\ \E c \in Cell \ heap, v \in Value :
                /\ heap' = heap \cup {c}
                /\ data' = [data EXCEPT ![c] = v]
                /\ next' = [next EXCEPT ![c] = Null]
                /\ node' = [node EXCEPT ![t] = c]
           /\ Goto(t, "pushLock")
           /\ UNCHANGED <<head, tail, headLock, tailLock, result, queue, chain>>

PushLock(t) == /\ pc[t] = "pushLock"
               /\ ~tailLock
               /\ tailLock' = TRUE
               /\ Goto(t, "pushLink")
               /\ UNCHANGED <<head, tail, headLock, next, data, heap, node, result,
                              queue, chain>>

\* tail->m_next = node: from here on a popper can see the node.
PushLink(t) == /\ pc[t] = "pushLink"
               /\ next' = [next EXCEPT ![tail] = node[t]]
               /\ queue' = Append(queue, data[node[t]])
               /\ chain' = Append(chain, node[t])
               /\ Goto(t, "pushTail")
               /\ UNCHANGED <<head, tail, headLock, tailLock, data, heap, node, result>>

\* Mistake: the tail stays where it was.
PushTailStays(t) == /\ pc[t] = "pushTail"
                    /\ Goto(t, "pushUnlock")
                    /\ UNCHANGED <<head, tail, headLock, tailLock, next, data, heap, node,
                                   result, queue, chain>>

PushTail(t) == /\ pc[t] = "pushTail"
               /\ tail' = node[t]
               /\ Goto(t, "pushUnlock")
               /\ UNCHANGED <<head, headLock, tailLock, next, data, heap, node, result,
                              queue, chain>>

PushUnlock(t) == /\ pc[t] = "pushUnlock"
                 /\ tailLock' = FALSE
                 /\ node' = [node EXCEPT ![t] = Null]
                 /\ Goto(t, "idle")
                 /\ UNCHANGED <<head, tail, headLock, next, data, heap, result,
                                queue, chain>>

Pop(t) == /\ pc[t] = "idle"
          /\ Goto(t, "popLock")
          /\ UNCHANGED <<head, tail, headLock, tailLock, next, data, heap, node,
                         result, queue, chain>>

PopLock(t) == /\ pc[t] = "popLock"
              /\ ~headLock
              /\ headLock' = TRUE
              /\ Goto(t, "popNext")
              /\ UNCHANGED <<head, tail, tailLock, next, data, heap, node, result,
                             queue, chain>>

\* Mistake: head moves on although there is no next node.
PopNextUntested(t) == /\ pc[t] = "popNext"
                      /\ node' = [node EXCEPT ![t] = head]
                      /\ Goto(t, IF next[head] # Null THEN "popData" ELSE "popHead")
                      /\ UNCHANGED <<head, tail, headLock, tailLock, next, data, heap,
                                     result, queue, chain>>

\* first = m_head; next = first->m_next: the one read that races with PushLink.
PopNext(t) == /\ pc[t] = "popNext"
              /\ node' = [node EXCEPT ![t] = head]
              /\ Goto(t, IF next[head] # Null THEN "popData" ELSE "popEmpty")
              /\ UNCHANGED <<head, tail, headLock, tailLock, next, data, heap, result,
                             queue, chain>>

\* Mistake: the value is taken from the dummy instead of the node behind it.
PopDataOfDummy(t) == /\ pc[t] = "popData"
                     /\ result' = [result EXCEPT ![t] = data[node[t]]]
                     /\ queue' = Tail(queue)
                     /\ Goto(t, "popHead")
                     /\ UNCHANGED <<head, tail, headLock, tailLock, next, data, heap, node,
                                    chain>>

\* result = std::move(next->m_data)
PopData(t) == /\ pc[t] = "popData"
              /\ result' = [result EXCEPT ![t] = data[next[node[t]]]]
              /\ data' = [data EXCEPT ![next[node[t]]] = NoValue]
              /\ queue' = Tail(queue)
              /\ Goto(t, "popHead")
              /\ UNCHANGED <<head, tail, headLock, tailLock, next, heap, node, chain>>

\* Mistake: head stays at the old dummy, which is then deleted.
PopHeadStays(t) == /\ pc[t] = "popHead"
                   /\ chain' = Tail(chain)
                   /\ Goto(t, "popUnlock")
                   /\ UNCHANGED <<head, tail, headLock, tailLock, next, data, heap, node,
                                  result, queue>>

\* m_head = next: the node whose value was taken is the new dummy.
PopHead(t) == /\ pc[t] = "popHead"
              /\ head' = next[node[t]]
              /\ chain' = Tail(chain)
              /\ Goto(t, "popUnlock")
              /\ UNCHANGED <<tail, headLock, tailLock, next, data, heap, node, result,
                             queue>>

PopUnlock(t) == /\ pc[t] = "popUnlock"
                /\ headLock' = FALSE
                /\ Goto(t, "popDelete")
                /\ UNCHANGED <<head, tail, tailLock, next, data, heap, node, result,
                               queue, chain>>

\* Mistake: the old dummy is not deleted.
PopKeepsDummy(t) == /\ pc[t] = "popDelete"
                    /\ node' = [node EXCEPT ![t] = Null]
                    /\ result' = [result EXCEPT ![t] = NoValue]
                    /\ Goto(t, "idle")
                    /\ UNCHANGED <<head, tail, headLock, tailLock, next, data, heap, queue,
                                   chain>>

\* delete first, after the unlock; then the value is returned.
PopDelete(t) == /\ pc[t] = "popDelete"
                /\ heap' = heap \ {node[t]}
                /\ node' = [node EXCEPT ![t] = Null]
                /\ result' = [result EXCEPT ![t] = NoValue]
                /\ Goto(t, "idle")
                /\ UNCHANGED <<head, tail, headLock, tailLock, next, data, queue, chain>>

PopEmpty(t) == /\ pc[t] = "popEmpty"
               /\ headLock' = FALSE
               /\ node' = [node EXCEPT ![t] = Null]
               /\ Goto(t, "idle")
               /\ UNCHANGED <<head, tail, tailLock, next, data, heap, result,
                              queue, chain>>

Step(t) == \/ PushLock(t) \/ PushLink(t) \/ PushTail(t) \/ PushUnlock(t)
           \/ PopLock(t)  \/ PopNext(t)  \/ PopData(t)  \/ PopHead(t)
           \/ PopUnlock(t) \/ PopDelete(t) \/ PopEmpty(t)

Next == \E t \in Thread : Push(t) \/ Pop(t) \/ Step(t)

Spec == Init /\ [][Next]_vars
-------------------------------------------------------------------------------
TypeOK == /\ head \in Cell /\ tail \in Cell
          /\ headLock \in BOOLEAN /\ tailLock \in BOOLEAN
          /\ next \in [Cell -> Cell \cup {Null}]
          /\ data \in [Cell -> Value \cup {NoValue}]
          /\ heap \subseteq Cell
          /\ pc \in [Thread -> Location]
          /\ node \in [Thread -> Cell \cup {Null}]
          /\ result \in [Thread -> Value \cup {NoValue}]
          /\ queue \in Seq(Value)
          /\ chain \in Seq(Cell)

Elems(s) == {s[i] : i \in DOMAIN s}

\* Every cell a thread is about to read, write or delete is allocated: a pop
\* that frees the old dummy never frees a cell a concurrent push still links
\* from, nor one another pop will free again.
NoUseAfterFree ==
    \A t \in Thread :
      /\ pc[t] = "pushLink" => {tail, node[t]} \subseteq heap
      /\ pc[t] = "popNext" => head \in heap
      /\ pc[t] \in {"popData", "popHead"} => {node[t], next[node[t]]} \subseteq heap
      /\ pc[t] = "popDelete" =>
           /\ node[t] \in heap \ Elems(chain)
           /\ \A u \in Thread : pc[u] = "popDelete" /\ node[u] = node[t] => u = t

\* A popper has taken a value whose node is not the dummy yet.
Taking == IF \E t \in Thread : pc[t] = "popHead" THEN 1 ELSE 0

\* The cells form one null-terminated chain from the dummy at head; its values
\* are the queue's, also while a pushed node waits to become the tail and while
\* a popped node waits to become the dummy.
ChainHoldsQueue ==
    /\ head = chain[1]
    /\ \A i \in 1..Len(chain) :
         next[chain[i]] = IF i = Len(chain) THEN Null ELSE chain[i + 1]
    /\ Len(chain) = Len(queue) + 1 + Taking
    /\ \A i \in 1..Len(queue) : queue[i] = data[chain[i + 1 + Taking]]
    /\ (\A t \in Thread : pc[t] # "pushTail") => tail = chain[Len(chain)]

\* No cell is lost: an allocated cell is in the chain, on its way in, or about
\* to be deleted.
NoLeak == heap = Elems(chain)
                 \cup {node[t] : t \in {u \in Thread : pc[u] \in {"pushLock", "pushLink"}}}
                 \cup {node[t] : t \in {u \in Thread : pc[u] \in {"popUnlock", "popDelete"}}}

-------------------------------------------------------------------------------
HoldsTail(t) == pc[t] \in {"pushLink", "pushTail", "pushUnlock"}
HoldsHead(t) == pc[t] \in {"popNext", "popData", "popHead", "popUnlock", "popEmpty"}

\* A cell of the thread's own, outside the chain: on its way in, or to be deleted.
Owns(t) == pc[t] \in {"pushLock", "pushLink", "popUnlock", "popDelete"}

\* Each lock admits one thread.  A pusher and a popper may both be inside.
Locks == /\ tailLock = \E t \in Thread : HoldsTail(t)
         /\ headLock = \E t \in Thread : HoldsHead(t)
         /\ \A t, u \in Thread : HoldsTail(t) /\ HoldsTail(u) => t = u
         /\ \A t, u \in Thread : HoldsHead(t) /\ HoldsHead(u) => t = u

\* A cell is in one position of the chain or one thread's own, never two.
CellsApart == /\ \A i, j \in DOMAIN chain : chain[i] = chain[j] => i = j
              /\ Elems(chain) \subseteq heap
              /\ \A t, u \in Thread :
                   /\ Owns(t) => node[t] \in heap \ Elems(chain)
                   /\ Owns(t) /\ Owns(u) /\ node[t] = node[u] => t = u

\* What the local variables of push and pop hold.
Holdings ==
    \A t \in Thread :
      /\ pc[t] \in {"pushLock", "pushLink"} => next[node[t]] = Null /\ data[node[t]] \in Value
      /\ pc[t] = "pushTail" => node[t] = chain[Len(chain)]
      /\ pc[t] \in {"popData", "popHead"} => node[t] = head /\ Len(chain) > 1
      /\ pc[t] \in {"popHead", "popUnlock", "popDelete"} => result[t] \in Value

\* The inductive invariant: every step of Next preserves it.
IInv == TypeOK /\ Locks /\ CellsApart /\ Holdings /\ ChainHoldsQueue /\ NoLeak
-------------------------------------------------------------------------------
\* The operations of all threads are those of a first-in first-out queue.  A pop
\* that finds nothing takes effect when it reads the null next pointer.
AbstractCall == [t \in Thread |->
    CASE pc[t] = "idle"                       -> [op |-> "idle", items |-> << >>]
      [] pc[t] \in {"pushLock", "pushLink"}   -> [op |-> "push", items |-> <<data[node[t]]>>]
      [] pc[t] \in {"popLock", "popNext", "popData"} -> [op |-> "pop",  items |-> << >>]
      [] pc[t] \in {"pushTail", "pushUnlock", "popEmpty"} -> [op |-> "done", items |-> << >>]
      [] OTHER                                -> [op |-> "done", items |-> <<result[t]>>]]

Fifo == INSTANCE FifoQueue WITH Item <- Value, call <- AbstractCall
ImplementsFifo == Fifo!Spec
===============================================================================
