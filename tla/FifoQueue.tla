------------------------------ MODULE FifoQueue ------------------------------
(***************************************************************************)
(* What lptoolkit's queues promise to the threads that share one: an       *)
(* operation is called, takes effect at one instant between its call and   *)
(* its return, and the effects are those of a first-in first-out queue.  A *)
(* push may carry a batch (push_range), which enters the queue as a whole. *)
(* IntrusiveQueue and TwoLockQueue implement this module.                  *)
(***************************************************************************)
EXTENDS Sequences

CONSTANTS Thread,  \* the threads that share the queue
          Item     \* what is queued: a node, or a value

VARIABLES queue,   \* the items in the queue, oldest first
          call     \* what each thread is doing with the queue

fifoVars == <<queue, call>>

Idle       == [op |-> "idle", items |-> << >>]
Pushing(s) == [op |-> "push", items |-> s]
Popping    == [op |-> "pop",  items |-> << >>]
Done(s)    == [op |-> "done", items |-> s]

Init == /\ queue = << >>
        /\ call = [t \in Thread |-> Idle]

\* The batch is the caller's choice: any sequence of items.
CallPush(t) == /\ call[t] = Idle
               /\ call'[t].items \in Seq(Item)
               /\ call' = [call EXCEPT ![t] = Pushing(call'[t].items)]
               /\ UNCHANGED queue

CallPop(t) == /\ call[t] = Idle
              /\ call' = [call EXCEPT ![t] = Popping]
              /\ UNCHANGED queue

\* The instant a push takes effect: the whole batch, contiguous and in order.
EffectPush(t) == /\ call[t].op = "push"
                 /\ queue' = queue \o call[t].items
                 /\ call' = [call EXCEPT ![t] = Done(<< >>)]

\* The instant a pop takes effect: the oldest item, or nothing when there is none.
EffectPop(t) == /\ call[t].op = "pop"
                /\ IF queue = << >>
                   THEN /\ call' = [call EXCEPT ![t] = Done(<< >>)]
                        /\ UNCHANGED queue
                   ELSE /\ call' = [call EXCEPT ![t] = Done(<<Head(queue)>>)]
                        /\ queue' = Tail(queue)

Return(t) == /\ call[t].op = "done"
             /\ call' = [call EXCEPT ![t] = Idle]
             /\ UNCHANGED queue

Next == \E t \in Thread : \/ CallPush(t) \/ EffectPush(t)
                          \/ CallPop(t)  \/ EffectPop(t)
                          \/ Return(t)

Spec == Init /\ [][Next]_fifoVars
==============================================================================
