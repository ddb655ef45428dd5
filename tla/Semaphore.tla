----------------------------- MODULE Semaphore ------------------------------
(***************************************************************************)
(* Semaphore (parallel.cpp): a count under a mutex with a condition        *)
(* variable.  Acquire(n) takes what there is and comes back for the rest;  *)
(* Release(n) notifies all, after the mutex is free again, and only if the *)
(* count was zero.  Every critical section is one step.                    *)
(***************************************************************************)
EXTENDS Integers, FiniteSets

CONSTANTS Thread,
          Wants,      \* [Thread -> Nat]: what a thread acquires, 0 for one that releases
          Parts       \* [Thread -> Nat]: releases of 1 a releasing thread makes

VARIABLES count,      \* m_count
          pc,         \* "work", "asleep" in the wait, "notify", "done"
          left        \* what is left to acquire, or to release

vars == <<count, pc, left>>

Acquirer == {t \in Thread : Wants[t] > 0}
Releaser == Thread \ Acquirer

Init == /\ count = 0
        /\ pc = [t \in Thread |-> "work"]
        /\ left = [t \in Thread |-> IF t \in Acquirer THEN Wants[t] ELSE Parts[t]]

(* One turn of Acquire's loop with something to take: val is reduced after *)
(* the unlock, but it is the thread's own.                                 *)
Take(t) ==
    /\ t \in Acquirer /\ pc[t] = "work" /\ left[t] > 0 /\ count > 0
    /\ LET n == IF left[t] < count THEN left[t] ELSE count
       IN  count' = count - n /\ left' = [left EXCEPT ![t] = @ - n]
    /\ UNCHANGED pc
Sleep(t) ==
    /\ t \in Acquirer /\ pc[t] = "work" /\ left[t] > 0 /\ count = 0
    /\ pc' = [pc EXCEPT ![t] = "asleep"]
    /\ UNCHANGED <<count, left>>
WakeUnasked(t) ==      \* a condition variable may wake on its own
    /\ pc[t] = "asleep" /\ pc' = [pc EXCEPT ![t] = "work"]
    /\ UNCHANGED <<count, left>>

Add(t, n) ==
    /\ t \in Releaser /\ pc[t] = "work" /\ left[t] >= n
    /\ count' = count + n
    /\ left' = [left EXCEPT ![t] = @ - n]
    /\ pc' = [pc EXCEPT ![t] = IF count = 0 THEN "notify" ELSE @]

(* Mistake: one sleeper is woken for all the units of the release. *)
NotifyOne(t) ==
    /\ pc[t] = "notify"
    /\ \E s \in {u \in Thread : pc[u] = "asleep"} \cup {t} :
           /\ s = t => \A u \in Thread : pc[u] # "asleep"
           /\ pc' = [pc EXCEPT ![t] = "work", ![s] = "work"]
    /\ UNCHANGED <<count, left>>

Notify(t) ==           \* notify_all
    /\ pc[t] = "notify"
    /\ pc' = [u \in Thread |-> IF u = t \/ pc[u] = "asleep" THEN "work" ELSE pc[u]]
    /\ UNCHANGED <<count, left>>

Return(t) == /\ pc[t] = "work" /\ left[t] = 0
             /\ pc' = [pc EXCEPT ![t] = "done"]
             /\ UNCHANGED <<count, left>>

Step(t) == Take(t) \/ Sleep(t) \/ Notify(t) \/ Return(t) \/ \E n \in 1 .. Parts[t] : Add(t, n)
Next == \E t \in Thread : Step(t) \/ WakeUnasked(t)

Spec == Init /\ [][Next]_vars
Fairness == \A t \in Thread : WF_vars(Step(t))
-----------------------------------------------------------------------------
TypeOK == /\ count \in Nat
          /\ pc \in [Thread -> {"work", "asleep", "notify", "done"}]
          /\ left \in [Thread -> Nat]
          /\ \A t \in Thread : left[t] <= IF t \in Acquirer THEN Wants[t] ELSE Parts[t]

(* No unit is lost or made: what is in the semaphore and in the hands of   *)
(* the acquiring threads is what was released (parallel.cpp:8).  Moved are *)
(* the units that the threads T have acquired, or released.                *)
Moved(T, all, rest) == UNION {{t} \X (rest[t] + 1 .. all[t]) : t \in T}
Conserved == count + Cardinality(Moved(Acquirer, Wants, left))
                = Cardinality(Moved(Releaser, Parts, left))

(* A thread sleeps in front of a positive count only while a notification  *)
(* is still to come, although releases onto a positive count, and all the  *)
(* wakers' races with other takers, notify nobody (parallel.cpp:23).       *)
NoSleeperForgotten ==
    count > 0 /\ (\E t \in Thread : pc[t] = "asleep") => \E t \in Thread : pc[t] = "notify"

IInv == TypeOK /\ Conserved /\ NoSleeperForgotten

(* If as much is released as is wanted, every Acquire returns, in whatever *)
(* pieces it gets its units.                                               *)
AcquiresReturn == <>(\A t \in Thread : pc[t] = "done")
=============================================================================
