------------------------------- MODULE Thread -------------------------------
(***************************************************************************)
(* Thread (thread.cpp): handles of threads of the operating system that    *)
(* are moved about, and the implementation object of each thread, which    *)
(* holds the only pointer to itself until the thread has run.              *)
(***************************************************************************)
EXTENDS Naturals, FiniteSets

CONSTANTS Handles,    \* the program's Thread objects
          Threads,    \* threads, each with its implementation object
          Empty       \* m_thread = 0

VARIABLES thread,     \* [Handles -> Threads \cup {Empty}]: m_thread
          pc,         \* what each thread does: "new", "start", "Run", "reset", "done", "failed"
          impl,       \* its object: "none", "alive" (m_this is set) or "freed"
          joined      \* the threads a join has returned for

vars == <<thread, pc, impl, joined>>

Init == /\ thread = [h \in Handles |-> Empty]
        /\ pc = [t \in Threads |-> "new"] /\ impl = [t \in Threads |-> "none"]
        /\ joined = {}

(* Thread(fn) and StartThread: the object gets its own pointer, then the   *)
(* thread is created, or the pointer is dropped.                           *)
Start(h, t) ==
    /\ thread[h] = Empty /\ pc[t] = "new"
    /\ impl' = [impl EXCEPT ![t] = "alive"]
    /\ pc' = [pc EXCEPT ![t] = "start"]
    /\ thread' = [thread EXCEPT ![h] = t]
    /\ UNCHANGED joined
StartFails(h, t) ==
    /\ thread[h] = Empty /\ pc[t] = "new"
    /\ impl' = [impl EXCEPT ![t] = "freed"]
    /\ pc' = [pc EXCEPT ![t] = "failed"]
    /\ UNCHANGED <<thread, joined>>

(* ThreadMain. *)
Run(t) == /\ pc[t] = "start" /\ pc' = [pc EXCEPT ![t] = "Run"]
          /\ UNCHANGED <<thread, impl, joined>>
RunEnds(t) == /\ pc[t] = "Run" /\ pc' = [pc EXCEPT ![t] = "reset"]
              /\ UNCHANGED <<thread, impl, joined>>
Reset(t) == /\ pc[t] = "reset" /\ pc' = [pc EXCEPT ![t] = "done"]
            /\ impl' = [impl EXCEPT ![t] = "freed"]
            /\ UNCHANGED <<thread, joined>>

(* Move construction and move assignment swap. *)
(* Mistake: the handle is copied, not swapped. *)
MoveCopies(h, k) ==
    /\ h # k
    /\ thread' = [thread EXCEPT ![h] = thread[k]]
    /\ UNCHANGED <<pc, impl, joined>>
Move(h, k) ==
    /\ h # k
    /\ thread' = [thread EXCEPT ![h] = thread[k], ![k] = thread[h]]
    /\ UNCHANGED <<pc, impl, joined>>

(* join returns when the thread has ended; without a thread it is nothing. *)
Join(h) ==
    /\ thread[h] # Empty /\ pc[thread[h]] = "done"
    /\ joined' = joined \cup {thread[h]}
    /\ thread' = [thread EXCEPT ![h] = Empty]
    /\ UNCHANGED <<pc, impl>>

Next == \/ \E h \in Handles : \/ Join(h) \/ \E k \in Handles : Move(h, k)
                              \/ \E t \in Threads : Start(h, t) \/ StartFails(h, t)
        \/ \E t \in Threads : Run(t) \/ RunEnds(t) \/ Reset(t)
Spec == Init /\ [][Next]_vars
-----------------------------------------------------------------------------
(* A thread that was started has one handle until it is joined, so that it *)
(* is joined once and no destructor meets it unjoined unnoticed; its       *)
(* object lives while the thread may use it and is freed when it is        *)
(* joined, also if the thread was never created (thread.cpp:62).           *)
OneHandleEach ==
    \A t \in Threads :
        LET n == Cardinality({h \in Handles : thread[h] = t}) IN
        /\ n = IF pc[t] \in {"new", "failed"} \/ t \in joined THEN 0 ELSE 1
        /\ pc[t] \in {"start", "Run", "reset"} => impl[t] = "alive"
        /\ t \in joined \/ pc[t] = "failed" => impl[t] = "freed"

TypeOK == /\ thread \in [Handles -> Threads \cup {Empty}]
          /\ pc \in [Threads -> {"new", "start", "Run", "reset", "done", "failed"}]
          /\ impl \in [Threads -> {"none", "alive", "freed"}]
          /\ joined \subseteq Threads

(* Only a thread that has run is joined, and has freed its object.         *)
JoinedAreDone == \A t \in Threads : /\ t \in joined => pc[t] = "done"
                                    /\ pc[t] = "done" => impl[t] = "freed"

IInv == TypeOK /\ OneHandleEach /\ JoinedAreDone
=============================================================================
