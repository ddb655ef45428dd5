---------------------------- MODULE IntrusiveQueue ----------------------------
(***************************************************************************)
(* IntrusiveSpinLockQueue of src/include/toolkit/spinlockqueue.hh, shared  *)
(* by several threads: one spin lock around a list linked through the      *)
(* nodes themselves.  One action per access to shared state.  The fiber    *)
(* manager's task, fiber and request queues are all of this class.         *)
(*                                                                         *)
(* The caller's side of the contract is the guard of Push: a node that is  *)
(* pushed is in no queue and in nobody else's hands.                       *)
(*                                                                         *)
(* queue is a history variable: it follows the instant each operation      *)
(* takes effect, and no action reads it.                                   *)
(***************************************************************************)
EXTENDS Sequences, Integers

CONSTANTS Thread,    \* the threads that share the queue
          Node,      \* the nodes they push and pop
          Null,      \* the null pointer
          MaxBatch   \* the longest range push_range is given

ASSUME NullAssumption     == Null \notin Node
ASSUME MaxBatchAssumption == MaxBatch \in Nat \ {0}

VARIABLES head,      \* m_head
          tail,      \* m_tail
          locked,    \* m_lock
          next,      \* the m_next field of every node
          pc,        \* where each thread is
          batch,     \* the nodes each thread is pushing
          result,    \* the node each thread has popped
          queue      \* history: the items in the queue, oldest first

vars == <<head, tail, locked, next, pc, batch, result, queue>>

Elems(s) == {s[i] : i \in DOMAIN s}

Location == {"idle", "pushLock", "pushLink", "pushTail", "pushUnlock",
             "popLock", "popHead", "popTail", "popUnlock", "popClear"}

Init == /\ head = Null
        /\ tail = Null
        /\ locked = FALSE
        /\ next = [n \in Node |-> Null]
        /\ pc = [t \in Thread |-> "idle"]
        /\ batch = [t \in Thread |-> << >>]
        /\ result = [t \in Thread |-> Null]
        /\ queue = << >>

Goto(t, l) == pc' = [pc EXCEPT ![t] = l]

\* A node its owner may push: no queue and no thread holds it.
Free(n) == /\ n \notin Elems(queue)
           /\ \A t \in Thread : n \notin Elems(batch[t]) /\ n # result[t]

\* The ranges a caller may push: free nodes, no node twice.
Ranges == {s \in UNION {[1..k -> Node] : k \in 1..MaxBatch} :
             /\ \A i \in DOMAIN s : Free(s[i])
             /\ \A i, j \in DOMAIN s : s[i] = s[j] => i = j}

\* The successor of node n when the nodes of range s are chained in order.
Successor(s, n) == IF \E i \in 1..(Len(s) - 1) : s[i] = n
                   THEN s[(CHOOSE i \in 1..(Len(s) - 1) : s[i] = n) + 1]
                   ELSE Null
-------------------------------------------------------------------------------
\* push (a range of one) and push_range up to the lock: the nodes are chained
\* to one another and the last one's next is null.
Push(t) == /\ pc[t] = "idle"
           /\ \E s \in Ranges :
                /\ next' = [n \in Node |-> IF n \in Elems(s) THEN Successor(s, n)
                                                             ELSE next[n]]
                /\ batch' = [batch EXCEPT ![t] = s]
           /\ Goto(t, "pushLock")
           /\ UNCHANGED <<head, tail, locked, result, queue>>

\* Mistake: a lock that does not wait for the flag to be clear.
LockWithoutWaiting(t, here, there) ==
    /\ pc[t] = here
    /\ locked' = TRUE
    /\ Goto(t, there)
    /\ UNCHANGED <<head, tail, next, batch, result, queue>>

\* Spinlock::lock: the exchange that finds the flag clear and sets it.
Lock(t, here, there) == /\ pc[t] = here
                        /\ ~locked
                        /\ locked' = TRUE
                        /\ Goto(t, there)
                        /\ UNCHANGED <<head, tail, next, batch, result, queue>>

PushLock(t) == Lock(t, "pushLock", "pushLink")

\* Mistake: a push that always becomes the head, as into an empty queue.
PushLinkAtHead(t) == /\ pc[t] = "pushLink"
                     /\ head' = batch[t][1]
                     /\ queue' = queue \o batch[t]
                     /\ Goto(t, "pushTail")
                     /\ UNCHANGED <<tail, locked, next, batch, result>>

\* The range becomes reachable: from the tail, or from head in an empty queue.
PushLink(t) == /\ pc[t] = "pushLink"
               /\ IF tail # Null
                  THEN /\ next' = [next EXCEPT ![tail] = batch[t][1]]
                       /\ UNCHANGED head
                  ELSE /\ head' = batch[t][1]
                       /\ UNCHANGED next
               /\ queue' = queue \o batch[t]
               /\ Goto(t, "pushTail")
               /\ UNCHANGED <<tail, locked, batch, result>>

\* Mistake: the tail after push_range is the first node of the range.
PushTailFirst(t) == /\ pc[t] = "pushTail"
                    /\ tail' = batch[t][1]
                    /\ Goto(t, "pushUnlock")
                    /\ UNCHANGED <<head, locked, next, batch, result, queue>>

PushTail(t) == /\ pc[t] = "pushTail"
               /\ tail' = batch[t][Len(batch[t])]
               /\ Goto(t, "pushUnlock")
               /\ UNCHANGED <<head, locked, next, batch, result, queue>>

PushUnlock(t) == /\ pc[t] = "pushUnlock"
                 /\ locked' = FALSE
                 /\ batch' = [batch EXCEPT ![t] = << >>]
                 /\ Goto(t, "idle")
                 /\ UNCHANGED <<head, tail, next, result, queue>>

Pop(t) == /\ pc[t] = "idle"
          /\ Goto(t, "popLock")
          /\ UNCHANGED <<head, tail, locked, next, batch, result, queue>>

PopLock(t) == Lock(t, "popLock", "popHead")

\* Mistake: a pop that leaves head at the node it returns.
PopHeadStays(t) == /\ pc[t] = "popHead"
                   /\ result' = [result EXCEPT ![t] = head]
                   /\ IF head # Null
                      THEN queue' = SubSeq(queue, 2, Len(queue)) /\ Goto(t, "popTail")
                      ELSE Goto(t, "popUnlock") /\ UNCHANGED queue
                   /\ UNCHANGED <<head, tail, locked, next, batch>>

\* result = m_head; m_head = GetNext(result)
PopHead(t) == /\ pc[t] = "popHead"
              /\ result' = [result EXCEPT ![t] = head]
              /\ IF head # Null
                 THEN /\ head' = next[head]
                      /\ queue' = Tail(queue)
                      /\ Goto(t, "popTail")
                 ELSE /\ Goto(t, "popUnlock")
                      /\ UNCHANGED <<head, queue>>
              /\ UNCHANGED <<tail, locked, next, batch>>

\* Mistake: the tail of an emptied queue still points at the popped node.
PopTailDangles(t) == /\ pc[t] = "popTail"
                     /\ Goto(t, "popUnlock")
                     /\ UNCHANGED <<head, tail, locked, next, batch, result, queue>>

\* An emptied queue has no tail.
PopTail(t) == /\ pc[t] = "popTail"
              /\ tail' = IF head = Null THEN Null ELSE tail
              /\ Goto(t, "popUnlock")
              /\ UNCHANGED <<head, locked, next, batch, result, queue>>

\* Mistake: an early return that keeps the lock when the queue is empty.
PopUnlockIfFound(t) == /\ pc[t] = "popUnlock"
                       /\ locked' = (result[t] = Null)
                       /\ Goto(t, IF result[t] # Null THEN "popClear" ELSE "idle")
                       /\ UNCHANGED <<head, tail, next, batch, result, queue>>

PopUnlock(t) == /\ pc[t] = "popUnlock"
                /\ locked' = FALSE
                /\ Goto(t, IF result[t] # Null THEN "popClear" ELSE "idle")
                /\ UNCHANGED <<head, tail, next, batch, result, queue>>

\* The popped node is unlinked after the unlock, then handed to the caller.
PopClear(t) == /\ pc[t] = "popClear"
               /\ next' = [next EXCEPT ![result[t]] = Null]
               /\ result' = [result EXCEPT ![t] = Null]
               /\ Goto(t, "idle")
               /\ UNCHANGED <<head, tail, locked, batch, queue>>

Step(t) == \/ PushLock(t) \/ PushLink(t) \/ PushTail(t) \/ PushUnlock(t)
           \/ PopLock(t)  \/ PopHead(t)  \/ PopTail(t)  \/ PopUnlock(t)
           \/ PopClear(t)

Next == \E t \in Thread : Push(t) \/ Pop(t) \/ Step(t)

Spec == Init /\ [][Next]_vars

\* A thread that has called an operation keeps running it.
FairSpec == Spec /\ \A t \in Thread : WF_vars(Step(t))
-------------------------------------------------------------------------------
TypeOK == /\ head \in Node \cup {Null}
          /\ tail \in Node \cup {Null}
          /\ locked \in BOOLEAN
          /\ next \in [Node -> Node \cup {Null}]
          /\ pc \in [Thread -> Location]
          /\ batch \in [Thread -> Seq(Node)]
          /\ result \in [Thread -> Node \cup {Null}]
          /\ queue \in Seq(Node)

Critical(t) == pc[t] \in {"pushLink", "pushTail", "pushUnlock",
                          "popHead", "popTail", "popUnlock"}

\* The spin lock keeps threads apart: head, tail and the links of queued nodes
\* are touched by one thread at a time, and the flag is set exactly while some
\* thread is inside.
MutualExclusion == /\ \A t, u \in Thread : Critical(t) /\ Critical(u) => t = u
                   /\ locked <=> \E t \in Thread : Critical(t)

\* The nodes of s are chained in order and the chain ends.
Chained(s) == \A i \in DOMAIN s : next[s[i]] = IF i < Len(s) THEN s[i + 1] ELSE Null

First(s) == IF s = << >> THEN Null ELSE s[1]
Final(s) == IF s = << >> THEN Null ELSE s[Len(s)]

\* Whenever nobody is inside the lock, the pointers spell out the queue: head
\* is its oldest node, the next fields lead through it in order to tail, and
\* both are null when it is empty.
WellLinked == ~locked => Chained(queue) /\ head = First(queue) /\ tail = Final(queue)

\* The nodes a thread is about to make reachable.
Entering(t) == IF pc[t] \in {"pushLock", "pushLink"} THEN batch[t] ELSE << >>

Distinct(s)    == \A i, j \in DOMAIN s : s[i] = s[j] => i = j
Disjoint(s, r) == \A i \in DOMAIN s, j \in DOMAIN r : s[i] # r[j]
Without(s, n)  == \A i \in DOMAIN s : s[i] # n

\* A node is in one place only: once in the queue, once in one batch on its way
\* in, or in the hands of one thread that popped it.
OnePlace == /\ Distinct(queue)
            /\ \A t \in Thread :
                 /\ Distinct(Entering(t))
                 /\ Disjoint(Entering(t), queue)
                 /\ Without(queue, result[t])
                 /\ \A u \in Thread :
                      /\ Without(Entering(u), result[t])
                      /\ t # u => Disjoint(Entering(t), Entering(u))
                      /\ t # u /\ result[t] # Null => result[t] # result[u]

\* The operations of all threads are those of a first-in first-out queue, each
\* taking effect at one instant, a range as a whole.
AbstractCall == [t \in Thread |->
    CASE pc[t] = "idle"                    -> [op |-> "idle", items |-> << >>]
      [] pc[t] \in {"pushLock", "pushLink"}   -> [op |-> "push", items |-> batch[t]]
      [] pc[t] \in {"pushTail", "pushUnlock"} -> [op |-> "done", items |-> << >>]
      [] pc[t] \in {"popLock", "popHead"}     -> [op |-> "pop",  items |-> << >>]
      [] OTHER -> [op |-> "done",
                   items |-> IF result[t] = Null THEN << >> ELSE <<result[t]>>]]

Fifo == INSTANCE FifoQueue WITH Item <- Node, call <- AbstractCall
ImplementsFifo == Fifo!Spec

\* No path through push, push_range or pop keeps the lock: whenever it is taken
\* it becomes free again.
LockReleased == locked ~> ~locked
-------------------------------------------------------------------------------
(* The inductive invariant behind the proofs.                              *)

\* What a thread holds follows from where it is.
Holdings == \A t \in Thread :
    /\ batch[t] # << >> <=> pc[t] \in {"pushLock", "pushLink", "pushTail", "pushUnlock"}
    /\ pc[t] \in {"popTail", "popClear"} => result[t] # Null
    /\ result[t] # Null => pc[t] \in {"popTail", "popUnlock", "popClear"}

\* The list at every step: only tail lags behind, until the thread that is
\* between linking or unlinking a node and updating tail has done so.
ListShape ==
    /\ Chained(queue)
    /\ \A t \in Thread : Chained(Entering(t))
    /\ head = First(queue)
    /\ (\A t \in Thread : pc[t] \notin {"pushTail", "popTail"}) => tail = Final(queue)
    /\ \A t \in Thread :
         /\ pc[t] = "pushTail" => Final(batch[t]) = Final(queue)
         /\ pc[t] = "popTail" /\ queue # << >> => tail = Final(queue)

IInv == TypeOK /\ MutualExclusion /\ Holdings /\ OnePlace /\ ListShape
===============================================================================
