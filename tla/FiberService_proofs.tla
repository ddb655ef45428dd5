-------------------------- MODULE FiberService_proofs --------------------------
(***************************************************************************)
(* Proofs about FiberService for any number of threads, fibers and         *)
(* requests, whether or not Stop may be called while fibers make requests. *)
(***************************************************************************)
EXTENDS FiberService, SequenceLemmas, FiniteSetTheorems

\* How many fibers a set holds, when one joins it or leaves it.
LEMMA Counting ==
  ASSUME NEW S \in SUBSET Fiber, NEW f \in Fiber
  PROVE  /\ Cardinality(S) \in Nat
         /\ f \notin S => Cardinality(S \cup {f}) = Cardinality(S) + 1
         /\ f \in S => Cardinality(S \ {f}) = Cardinality(S) - 1
<1>1. IsFiniteSet(S)
  BY FiberAssumption, FS_Subset
<1>2. Cardinality(S) \in Nat
  BY <1>1, FS_CardinalityType
<1>3. f \notin S => Cardinality(S \cup {f}) = Cardinality(S) + 1
  BY <1>1, FS_AddElement
<1>4. f \in S => Cardinality(S \ {f}) = Cardinality(S) - 1
  BY <1>1, FS_RemoveElement
<1> QED
  BY <1>2, <1>3, <1>4

LEMMA ElemsFacts ==
  ASSUME NEW s \in Seq(Fiber)
  PROVE  /\ Elems(s) \subseteq Fiber
         /\ \A f \in Fiber : /\ Append(s, f) \in Seq(Fiber) /\ Append(s, f) # << >>
                             /\ Elems(Append(s, f)) = Elems(s) \cup {f}
         /\ s # << >> => /\ Tail(s) \in Seq(Fiber) /\ Head(s) \in Fiber
                         /\ Elems(s) = Elems(Tail(s)) \cup {Head(s)}
<1>1. Elems(s) \subseteq Fiber
  BY LenProperties DEF Elems
<1>2. ASSUME NEW f \in Fiber
      PROVE  /\ Append(s, f) \in Seq(Fiber) /\ Append(s, f) # << >>
             /\ Elems(Append(s, f)) = Elems(s) \cup {f}
  BY AppendFacts, ElementsAppend DEF Elems
<1>3. ASSUME s # << >>
      PROVE  /\ Tail(s) \in Seq(Fiber) /\ Head(s) \in Fiber
             /\ Elems(s) = Elems(Tail(s)) \cup {Head(s)}
  BY ZenonT(40), <1>3, ShortenFacts, ElementsShorten DEF Elems
<1> QED
  BY <1>1, <1>2, <1>3

\* No repetitions: NoRepeats(s) is how FibersApart and RequestsAlive say it.
NoRepeats(s) == \A i, j \in DOMAIN s : s[i] = s[j] => i = j

LEMMA NoRepeatsFacts ==
  ASSUME NEW s \in Seq(Fiber), NoRepeats(s)
  PROVE  /\ \A f \in Fiber : f \notin Elems(s) => NoRepeats(Append(s, f))
         /\ s # << >> => NoRepeats(Tail(s)) /\ Head(s) \notin Elems(Tail(s))
<1>1. ASSUME NEW f \in Fiber, f \notin Elems(s)
      PROVE  NoRepeats(Append(s, f))
  <2>1. \A i \in DOMAIN s : s[i] # f
    BY <1>1 DEF Elems
  <2> QED
    BY <2>1, DistinctAppend DEF NoRepeats
<1>2. ASSUME s # << >>
      PROVE  NoRepeats(Tail(s)) /\ Head(s) \notin Elems(Tail(s))
  <2>1. /\ \A i, j \in DOMAIN Tail(s) : Tail(s)[i] = Tail(s)[j] => i = j
        /\ \A i \in DOMAIN Tail(s) : Tail(s)[i] # s[1]
    BY <1>2, DistinctShorten DEF NoRepeats
  <2> QED
    BY <1>2, <2>1, ShortenFacts DEF NoRepeats, Elems
<1> QED
  BY <1>1, <1>2

LEMMA EmptyElems == Elems(<< >>) = {} /\ NoRepeats(<< >>)
BY EmptySeq, LenProperties DEF Elems, NoRepeats
-------------------------------------------------------------------------------
LEMMA InitEstablishes == Init => IInv
<1> SUFFICES ASSUME Init PROVE IInv
  OBVIOUS
<1>0. /\ last = [t \in Thread |-> None] /\ pc = [f \in Fiber |-> "loop"] /\ left = Requests
      /\ waiting = {} /\ counter = [f \in Fiber |-> 0] /\ numWaiting = 0 /\ mutex = None
      /\ sleeping = {} /\ queue = << >> /\ notified = FALSE /\ semaphore = 0
      /\ finished = FALSE /\ spc = "check" /\ serving = None /\ requeued = {}
      /\ draining = FALSE
  BY DEF Init
<1>1. /\ running \in [Thread -> Fiber]
      /\ \A t, u \in Thread : running[t] = running[u] => t = u
      /\ executeQueue \in [1..(AllWaiting - Cardinality(Thread)) -> Fiber]
      /\ \A i, j \in DOMAIN executeQueue : executeQueue[i] = executeQueue[j] => i = j
      /\ \A i \in DOMAIN executeQueue, t \in Thread : executeQueue[i] # running[t]
  BY DEF Init
<1>2. executeQueue \in Seq(Fiber)
  <2>1. AllWaiting - Cardinality(Thread) \in Nat
    BY FiberAssumption, FS_CardinalityType DEF AllWaiting
  <2> QED
    BY <1>1, <2>1, SeqDef
<1>3. TypeOK
  <2>1. queue \in Seq(Fiber)
    BY <1>0, EmptySeq
  <2>2. /\ last \in [Thread -> Fiber \cup {None}] /\ pc \in [Fiber -> Location]
        /\ left \in [Fiber -> Nat] /\ counter \in [Fiber -> Int] /\ spc \in ServiceLocation
    BY <1>0, RequestAssumption DEF Location, ServiceLocation
  <2>3. /\ waiting \subseteq Fiber /\ numWaiting \in Int /\ mutex \in Thread \cup {None}
        /\ sleeping \subseteq Thread /\ semaphore \in Nat
        /\ serving \in Fiber \cup {None} /\ requeued \subseteq Fiber
    BY <1>0
  <2>4. notified \in BOOLEAN /\ finished \in BOOLEAN /\ draining \in BOOLEAN
    BY <1>0
  <2> QED
    BY <1>1, <1>2, <2>1, <2>2, <2>3, <2>4 DEF TypeOK
<1>4. FibersApart
  <2>1. Elems(executeQueue) \subseteq Fiber
    BY <1>2, ElemsFacts
  <2> QED
    BY <1>0, <1>1, <2>1 DEF FibersApart, Elems
<1>5. Uncounted = {} /\ Held = {} /\ NotYet = 0
  BY <1>0 DEF Uncounted, Held, NotYet
<1>6. Requesting
  BY <1>0, <1>5 DEF Requesting
<1>7. RequestsAlive
  BY <1>0, EmptyElems, FiberAssumption DEF RequestsAlive, NoRepeats
<1>8. NumWaitingCounts
  BY <1>0, <1>5, FS_EmptySet DEF NumWaitingCounts
<1>9. Notifying
  BY <1>0 DEF Notifying
<1> QED
  BY <1>3, <1>4, <1>6, <1>7, <1>8, <1>9 DEF IInv

LEMMA StutterPreserves == IInv /\ UNCHANGED vars => IInv'
<1> SUFFICES ASSUME IInv, UNCHANGED vars PROVE IInv'
  OBVIOUS
<1> USE DEF IInv, vars, scheduler, clients, wakeup, signal, service
<1>1. TypeOK'
  BY DEF TypeOK
<1>2. FibersApart'
  BY DEF FibersApart, Elems
<1>3. Requesting'
  BY DEF Requesting, Uncounted
<1>4. RequestsAlive'
  BY DEF RequestsAlive, Elems
<1>5. NumWaitingCounts'
  BY DEF NumWaitingCounts, Uncounted, Held, NotYet
<1>6. Notifying'
  BY DEF Notifying
<1> QED
  BY <1>1, <1>2, <1>3, <1>4, <1>5, <1>6

\* A fiber that a thread runs moves on: it stays where it is, with its thread.
LEMMA StaysApart ==
  ASSUME FibersApart, TypeOK, NEW t \in Thread,
         pc[running[t]] # "resume",
         \A g \in Fiber : g # running[t] => pc'[g] = pc[g],
         UNCHANGED scheduler
  PROVE  FibersApart'
<1> USE DEF scheduler
<1>1. \A u \in Thread : last[u] # None => u # t /\ last[u] # running[t] /\ last[u] \in Fiber
  BY DEF FibersApart, TypeOK
<1>2. \A f \in Elems(executeQueue) : f # running[t] /\ f \in Fiber
  BY ElemsFacts DEF FibersApart, TypeOK
<1>3. \A u \in Thread : u # t => running[u] # running[t] /\ running[u] \in Fiber
  BY DEF FibersApart, TypeOK
<1>4. Elems(executeQueue)' = Elems(executeQueue)
  BY DEF Elems
<1> QED
  BY <1>1, <1>2, <1>3, <1>4 DEF FibersApart

\* A step of a fiber that moves no request and changes no count.
LEMMA StepPreserves ==
  ASSUME IInv, TypeOK', Notifying', NEW t \in Thread, NEW f \in Fiber,
         running[t] = f, pc[f] # "resume",
         \A g \in Fiber : g # f => pc'[g] = pc[g],
         pc[f] \in {"notify", "release", "count"} <=> pc'[f] \in {"notify", "release", "count"},
         UNCHANGED <<scheduler, waiting, counter, numWaiting, queue, service>>
  PROVE  IInv'
<1> USE DEF IInv, service
<1>1. FibersApart'
  BY StaysApart
<1>2. Uncounted' = Uncounted
  BY DEF Uncounted
<1>3. Requesting'
  BY <1>2 DEF Requesting
<1>4. RequestsAlive'
  BY DEF RequestsAlive, Elems
<1>5. NumWaitingCounts'
  BY <1>2 DEF NumWaitingCounts, Held, NotYet
<1> QED
  BY <1>1, <1>3, <1>4, <1>5

\* Locations in which a fiber owes the service and its counters nothing.
Quiet == {"loop", "waitForFiber", "predicate", "sleep", "nextFiber", "resume", "join"}

\* A quiet step of a fiber, as long as it stays a quiet one.
LEMMA QuietPreserves ==
  ASSUME IInv, TypeOK', NEW t \in Thread, NEW f \in Fiber,
         running[t] = f, pc[f] \in Quiet \ {"resume"}, pc'[f] \in Quiet,
         \A g \in Fiber : g # f => pc'[g] = pc[g],
         UNCHANGED <<scheduler, waiting, counter, numWaiting, queue, signal, finished, service>>
  PROVE  IInv'
<1>1. Notifying'
  <2>1. \A g \in Fiber : pc[g] \in {"notify", "stopNotify", "release", "stopRelease"} => pc'[g] = pc[g]
    BY DEF Quiet
  <2> QED
    BY <2>1 DEF IInv, Notifying, signal, service
<1> QED
  BY <1>1, StepPreserves DEF Quiet

LEMMA PollPreserves ==
  ASSUME IInv, NEW t \in Thread, NEW f \in Fiber,
         Idle(t, f) \/ TestWaiting(t, f) \/ Predicate(t, f) \/ Sleep(t, f) \/ Join(t, f)
  PROVE  IInv'
<1> USE DEF IInv
<1>1. /\ running[t] = f
      /\ UNCHANGED <<scheduler, left, waiting, counter, numWaiting, queue, signal, finished, service>>
      /\ sleeping' \subseteq Thread /\ mutex' \in Thread \cup {None}
  BY DEF Idle, TestWaiting, Predicate, Sleep, Join, At, wakeup, TypeOK
<1>2. \E l \in Quiet \cap Location : pc[f] \in Quiet \ {"resume"} /\ pc' = [pc EXCEPT ![f] = l]
  <2>1. CASE Idle(t, f)
    BY <2>1 DEF Idle, At, Goto, Quiet, Location
  <2>2. CASE TestWaiting(t, f)
    BY <2>2 DEF TestWaiting, At, Goto, Quiet, Location
  <2>3. CASE Predicate(t, f)
    BY <2>3 DEF Predicate, At, Goto, Quiet, Location
  <2>4. CASE Sleep(t, f)
    BY <2>4 DEF Sleep, At, Goto, Quiet, Location
  <2>5. CASE Join(t, f)
    BY <2>5 DEF Join, At, Goto, Quiet, Location
  <2> QED
    BY <2>1, <2>2, <2>3, <2>4, <2>5
<1>3. /\ pc[f] \in Quiet \ {"resume"} /\ pc'[f] \in Quiet
      /\ \A g \in Fiber : g # f => pc'[g] = pc[g]
      /\ pc' \in [Fiber -> Location]
  BY <1>2 DEF TypeOK
<1>4. TypeOK'
  BY <1>1, <1>3 DEF TypeOK, scheduler, signal, service
<1> QED
  BY <1>1, <1>3, <1>4, QuietPreserves

LEMMA WaitTestPreserves ==
  ASSUME IInv, NEW t \in Thread, NEW f \in Fiber, WaitTest(t, f)
  PROVE  IInv'
<1> USE DEF IInv
<1>0. /\ running[t] = f /\ pc[f] = "loop" /\ f \in waiting
      /\ UNCHANGED <<scheduler, left, counter, wakeup, queue, signal, finished, service>>
  BY DEF WaitTest, At
<1>1. CASE counter[f] # 0
  <2>1. pc' = [pc EXCEPT ![f] = "waitForFiber"] /\ UNCHANGED waiting
    BY <1>1 DEF WaitTest, Goto
  <2>2. /\ pc'[f] = "waitForFiber" /\ \A g \in Fiber : g # f => pc'[g] = pc[g]
        /\ pc' \in [Fiber -> Location]
    BY <2>1 DEF TypeOK, Location
  <2>3. TypeOK'
    BY <1>0, <2>1, <2>2 DEF TypeOK, scheduler, wakeup, signal, service
  <2> QED
    BY <1>0, <2>1, <2>2, <2>3, QuietPreserves DEF Quiet, wakeup
<1>2. CASE counter[f] = 0
  <2>1. waiting' = waiting \ {f} /\ UNCHANGED pc
    BY <1>2 DEF WaitTest
  <2> USE DEF scheduler, wakeup, signal, service
  <2>2. TypeOK'
    BY <1>0, <2>1 DEF TypeOK
  <2>3. FibersApart'
    BY <1>0, <2>1 DEF FibersApart, Elems
  <2>4. Requesting'
    BY <1>0, <2>1 DEF Requesting, Uncounted
  <2>5. RequestsAlive'
    <3>1. f \notin Elems(queue) \cup {serving}
      BY <1>2 DEF RequestsAlive
    <3> QED
      BY <1>0, <2>1, <3>1 DEF RequestsAlive, Elems
  <2>6. NumWaitingCounts'
    BY <1>0, <2>1 DEF NumWaitingCounts, Uncounted, Held, NotYet
  <2>7. Notifying'
    BY <1>0, <2>1 DEF Notifying
  <2> QED
    BY <2>2, <2>3, <2>4, <2>5, <2>6, <2>7
<1> QED
  BY <1>1, <1>2

LEMMA EnqueuePreserves ==
  ASSUME IInv, NEW t \in Thread, NEW f \in Fiber, Enqueue(t, f)
  PROVE  IInv'
<1> USE DEF IInv
<1>0. /\ running[t] = f /\ pc[f] = "loop" /\ f \notin waiting /\ left[f] > 0
      /\ left' = [left EXCEPT ![f] = @ - 1] /\ waiting' = waiting \cup {f}
      /\ counter' = [counter EXCEPT ![f] = 1] /\ queue' = Append(queue, f)
      /\ requeued' = requeued \ {f} /\ pc' = [pc EXCEPT ![f] = "notify"]
      /\ UNCHANGED <<scheduler, wakeup, signal, finished, spc, serving, draining>>
  BY DEF Enqueue, At, Goto
<1>1. /\ pc'[f] = "notify" /\ \A g \in Fiber : g # f => pc'[g] = pc[g]
      /\ pc' \in [Fiber -> Location]
  BY <1>0 DEF TypeOK, Location
<1>2. counter'[f] = 1 /\ \A g \in Fiber : g # f => counter'[g] = counter[g]
  BY <1>0 DEF TypeOK
<1>3. /\ queue' \in Seq(Fiber) /\ Elems(queue)' = Elems(queue) \cup {f}
      /\ Elems(queue) \subseteq Fiber
  BY <1>0, ElemsFacts DEF TypeOK
<1>4. counter[f] = 0 /\ f \notin Elems(queue) /\ f # serving
  BY <1>0 DEF RequestsAlive
<1> USE DEF scheduler, wakeup, signal
<1>5. TypeOK'
  <2>1. left' \in [Fiber -> Nat] /\ counter' \in [Fiber -> Int]
    BY <1>0 DEF TypeOK
  <2> QED
    BY <1>0, <1>1, <1>3, <2>1 DEF TypeOK
<1>6. FibersApart'
  BY <1>0, <1>1, StaysApart
<1>7. Uncounted' = Uncounted \cup {f} /\ f \notin Uncounted
  BY <1>0, <1>1 DEF Uncounted
<1>8. Held' = Held \cup {f} /\ f \notin Held
  BY <1>2, <1>4 DEF Held
<1>9. Requesting'
  BY <1>0, <1>7 DEF Requesting
<1>10. RequestsAlive'
  <2>1. NoRepeats(queue)'
    BY ZenonT(40), <1>0, <1>4, NoRepeatsFacts DEF RequestsAlive, NoRepeats, TypeOK
  <2>2. \A g \in Fiber : IF g \in Elems(queue)' \cup {serving'}
                         THEN g \in waiting' /\ counter'[g] = 1
                         ELSE counter'[g] = 0
    BY <1>0, <1>2, <1>3 DEF RequestsAlive
  <2>3. serving' # None => serving' \notin Elems(queue)'
    BY <1>0, <1>3, <1>4 DEF RequestsAlive
  <2> QED
    BY <2>1, <2>2, <2>3 DEF RequestsAlive, NoRepeats
<1>11. NumWaitingCounts'
  <2>1. /\ Cardinality(Uncounted') = Cardinality(Uncounted) + 1 /\ Cardinality(Uncounted) \in Nat
        /\ Cardinality(Held') = Cardinality(Held) + 1 /\ Cardinality(Held) \in Nat
    BY <1>7, <1>8, Counting DEF Uncounted, Held
  <2>2. NotYet' = NotYet /\ NotYet \in Nat /\ numWaiting' = numWaiting /\ numWaiting \in Int
    BY <1>0 DEF NotYet, TypeOK
  <2> QED
    BY <2>1, <2>2 DEF NumWaitingCounts
<1>12. Notifying'
  BY <1>0, <1>1 DEF Notifying
<1> QED
  BY <1>5, <1>6, <1>9, <1>10, <1>11, <1>12

LEMMA SignalPreserves ==
  ASSUME IInv, NEW t \in Thread, NEW f \in Fiber,
         \/ ClientNotify(t, f) \/ ClientRelease(t, f)
         \/ Stop(t, f) \/ StopNotify(t, f) \/ StopRelease(t, f)
  PROVE  IInv'
<1> USE DEF IInv
<1>1. /\ running[t] = f
      /\ UNCHANGED <<scheduler, left, waiting, counter, wakeup, queue, service>>
  BY DEF ClientNotify, ClientRelease, Stop, StopNotify, StopRelease, At
<1>2. semaphore' \in Nat /\ notified' \in BOOLEAN /\ finished' \in BOOLEAN
  <2>1. semaphore' \in Nat
    BY DEF ClientNotify, ClientRelease, Stop, StopNotify, StopRelease, Exchange, Release, TypeOK, signal
  <2>2. notified' \in BOOLEAN /\ finished' \in BOOLEAN
    BY Zenon DEF ClientNotify, ClientRelease, Stop, StopNotify, StopRelease, Exchange, Release, TypeOK, signal
  <2> QED
    BY <2>1, <2>2
<1>3. \E l \in Location :
        /\ pc' = [pc EXCEPT ![f] = l] /\ pc[f] # "resume"
        /\ pc[f] \in {"notify", "release", "count"} <=> l \in {"notify", "release", "count"}
  <2>1. CASE ClientNotify(t, f)
    BY <2>1 DEF ClientNotify, At, Goto, Location
  <2>2. CASE ClientRelease(t, f)
    BY <2>2 DEF ClientRelease, At, Goto, Location
  <2>3. CASE Stop(t, f)
    BY <2>3 DEF Stop, At, Goto, Location
  <2>4. CASE StopNotify(t, f)
    BY <2>4 DEF StopNotify, At, Goto, Location
  <2>5. CASE StopRelease(t, f)
    BY <2>5 DEF StopRelease, At, Goto, Location
  <2> QED
    BY <2>1, <2>2, <2>3, <2>4, <2>5
<1>4. /\ pc[f] # "resume" /\ pc' \in [Fiber -> Location]
      /\ pc[f] \in {"notify", "release", "count"} <=> pc'[f] \in {"notify", "release", "count"}
      /\ \A g \in Fiber : g # f => pc'[g] = pc[g]
  BY <1>3 DEF TypeOK
<1>5. TypeOK'
  BY <1>1, <1>2, <1>4 DEF TypeOK, scheduler, wakeup, signal, service
<1>6. Notifying'
  <2> USE DEF service
  <2>1. CASE ClientNotify(t, f) \/ StopNotify(t, f)
    <3>1. /\ notified' /\ UNCHANGED <<semaphore, finished>>
          /\ pc[f] \in {"notify", "stopNotify"}
      BY <2>1 DEF ClientNotify, StopNotify, Exchange, At
    <3>2. ~notified => pc'[f] \in {"release", "stopRelease"}
      BY <2>1 DEF ClientNotify, StopNotify, Exchange, At, Goto, TypeOK
    <3> QED
      BY <1>1, <1>4, <3>1, <3>2 DEF Notifying
  <2>2. CASE ClientRelease(t, f) \/ StopRelease(t, f)
    <3>1. /\ semaphore' # 0 /\ UNCHANGED <<notified, finished>>
          /\ pc[f] \in {"release", "stopRelease"}
      BY <2>2 DEF ClientRelease, StopRelease, Release, At, TypeOK
    <3> QED
      BY <1>1, <1>4, <3>1 DEF Notifying
  <2>3. CASE Stop(t, f)
    <3>1. pc'[f] = "stopNotify" /\ UNCHANGED signal /\ pc[f] = "loop"
      BY <2>3 DEF Stop, At, Goto, TypeOK
    <3> QED
      BY <1>1, <1>4, <3>1 DEF Notifying, signal
  <2> QED
    BY <2>1, <2>2, <2>3
<1> QED
  BY <1>1, <1>4, <1>5, <1>6, StepPreserves DEF wakeup

LEMMA CountPreserves ==
  ASSUME IInv, NEW t \in Thread, NEW f \in Fiber, Count(t, f)
  PROVE  IInv'
<1> USE DEF IInv
<1>0. /\ running[t] = f /\ pc[f] = "count" /\ pc' = [pc EXCEPT ![f] = "loop"]
      /\ numWaiting' = numWaiting + 1
      /\ UNCHANGED <<scheduler, left, waiting, counter, mutex, sleeping, queue,
                     signal, finished, service>>
  BY DEF Count, At, Goto
<1>1. /\ pc'[f] = "loop" /\ \A g \in Fiber : g # f => pc'[g] = pc[g]
      /\ pc' \in [Fiber -> Location]
  BY <1>0 DEF TypeOK, Location
<1>2. TypeOK'
  BY <1>0, <1>1 DEF TypeOK, scheduler, signal, service
<1>3. FibersApart'
  BY <1>0, <1>1, StaysApart
<1>4. Uncounted' = Uncounted \ {f} /\ f \in Uncounted
  BY <1>0, <1>1 DEF Uncounted
<1> USE DEF signal, service
<1>5. Requesting'
  BY <1>0, <1>4 DEF Requesting
<1>6. RequestsAlive'
  BY <1>0 DEF RequestsAlive, Elems
<1>7. NumWaitingCounts'
  <2>1. /\ Cardinality(Uncounted') = Cardinality(Uncounted) - 1 /\ Cardinality(Uncounted) \in Nat
        /\ Cardinality(Held) \in Nat
    BY <1>4, Counting DEF Uncounted, Held
  <2>2. Held' = Held /\ NotYet' = NotYet /\ NotYet \in Nat /\ numWaiting \in Int
    BY <1>0 DEF Held, NotYet, TypeOK
  <2> QED
    BY <1>0, <2>1, <2>2 DEF NumWaitingCounts
<1>8. Notifying'
  BY <1>0, <1>1 DEF Notifying
<1> QED
  BY <1>2, <1>3, <1>5, <1>6, <1>7, <1>8

LEMMA NextFiberPreserves ==
  ASSUME IInv, NEW t \in Thread, NEW f \in Fiber, NextFiber(t, f)
  PROVE  IInv'
<1> USE DEF IInv
<1>0. /\ running[t] = f /\ pc[f] = "nextFiber"
      /\ UNCHANGED <<left, waiting, counter, wakeup, queue, signal, finished, service>>
  BY DEF NextFiber, At
<1>1. CASE executeQueue = << >>
  <2>1. pc' = [pc EXCEPT ![f] = "loop"] /\ UNCHANGED scheduler
    BY <1>1 DEF NextFiber, Goto
  <2>2. /\ pc'[f] = "loop" /\ \A g \in Fiber : g # f => pc'[g] = pc[g]
        /\ pc' \in [Fiber -> Location]
    BY <2>1 DEF TypeOK, Location
  <2>3. TypeOK'
    BY <1>0, <2>1, <2>2 DEF TypeOK, scheduler, wakeup, signal, service
  <2> QED
    BY <1>0, <2>1, <2>2, <2>3, QuietPreserves DEF Quiet, wakeup
<1>2. CASE executeQueue # << >>
  <2> DEFINE h == Head(executeQueue)
  <2>1. /\ executeQueue' = Tail(executeQueue)
        /\ running' = [running EXCEPT ![t] = h] /\ last' = [last EXCEPT ![t] = f]
        /\ pc' = [pc EXCEPT ![f] = "resume", ![h] = "resume"]
    BY <1>2 DEF NextFiber
  <2>2. /\ executeQueue' \in Seq(Fiber) /\ h \in Fiber
        /\ Elems(executeQueue) = Elems(executeQueue') \cup {h}
        /\ Elems(executeQueue) \subseteq Fiber
    BY <1>2, <2>1, ElemsFacts DEF TypeOK
  <2>3. NoRepeats(executeQueue') /\ h \notin Elems(executeQueue')
    <3>1. NoRepeats(executeQueue) /\ executeQueue \in Seq(Fiber)
      BY DEF FibersApart, NoRepeats, TypeOK
    <3> QED
      BY <1>2, <2>1, <3>1, NoRepeatsFacts
  <2> HIDE DEF h
  <2>4. f # h /\ f \notin Elems(executeQueue) /\ pc[h] \in {"loop", "resume"}
    BY <1>0, <2>2 DEF FibersApart
  <2>5. /\ pc'[f] = "resume" /\ pc'[h] = "resume" /\ pc' \in [Fiber -> Location]
        /\ \A g \in Fiber : g # f /\ g # h => pc'[g] = pc[g]
    BY <2>1, <2>2, <2>4 DEF TypeOK, Location
  <2>6. /\ running'[t] = h /\ last'[t] = f
        /\ \A u \in Thread : u # t => running'[u] = running[u] /\ last'[u] = last[u]
    BY <2>1 DEF TypeOK
  <2>7. TypeOK'
    <3>1. running' \in [Thread -> Fiber] /\ last' \in [Thread -> Fiber \cup {None}]
      BY <2>1, <2>2 DEF TypeOK
    <3> QED
      BY <1>0, <2>2, <2>5, <3>1 DEF TypeOK, wakeup, signal, service
  <2>8. FibersApart'
    <3>1. \A u \in Thread : u # t => /\ running[u] \in Fiber /\ running[u] # f /\ running[u] # h
                                     /\ running[u] \notin Elems(executeQueue)
      BY <1>0, <2>2 DEF FibersApart, TypeOK
    <3>2. \A u \in Thread : u # t /\ last[u] # None =>
            /\ last[u] \in Fiber /\ last[u] # f /\ last[u] # h
            /\ last[u] \notin Elems(executeQueue)
      BY <1>0, <2>2 DEF FibersApart, TypeOK
    <3>3. \A u, v \in Thread : running'[u] = running'[v] => u = v
      BY <2>6, <3>1 DEF FibersApart
    <3>4. \A u \in Thread : running'[u] \notin Elems(executeQueue')
      BY <2>2, <2>3, <2>6, <3>1
    <3>5. \A g \in Elems(executeQueue') : pc'[g] \in {"loop", "resume"}
      BY <2>2, <2>3, <2>4, <2>5 DEF FibersApart
    <3>6. ASSUME NEW u \in Thread, last'[u] # None
          PROVE  /\ pc'[last'[u]] = "resume" /\ pc'[running'[u]] = "resume"
                 /\ last'[u] \notin Elems(executeQueue')
                 /\ \A v \in Thread : last'[u] # running'[v] /\ (last'[v] = last'[u] => v = u)
      <4>1. CASE u = t
        <5>1. \A v \in Thread : v # t => last'[v] # f
          BY <2>6, <3>2, FiberAssumption
        <5> QED
          BY <4>1, <5>1, <2>2, <2>4, <2>5, <2>6, <3>1
      <4>2. CASE u # t
        <5>1. last'[u] = last[u] /\ last[u] # None
          BY <4>2, <2>6, <3>6
        <5>2. pc'[last[u]] = "resume" /\ pc'[running[u]] = "resume"
          BY <4>2, <5>1, <2>5, <3>1, <3>2 DEF FibersApart
        <5>3. \A v \in Thread : last[u] # running'[v]
          BY <4>2, <5>1, <2>6, <3>2 DEF FibersApart
        <5>4. \A v \in Thread : last'[v] = last[u] => v = u
          BY <4>2, <5>1, <2>6, <3>2 DEF FibersApart
        <5> QED
          BY <4>2, <5>1, <5>2, <5>3, <5>4, <2>2, <2>6, <3>2
      <4> QED
        BY <4>1, <4>2
    <3> QED
      BY <2>3, <3>3, <3>4, <3>5, <3>6 DEF FibersApart, NoRepeats
  <2>9. Uncounted' = Uncounted
    BY <1>0, <2>4, <2>5 DEF Uncounted
  <2> USE DEF wakeup, signal, service
  <2>10. Requesting'
    BY <1>0, <2>9 DEF Requesting
  <2>11. RequestsAlive'
    BY <1>0 DEF RequestsAlive, Elems
  <2>12. NumWaitingCounts'
    BY <1>0, <2>9 DEF NumWaitingCounts, Held, NotYet
  <2>13. Notifying'
    BY <1>0, <2>4, <2>5 DEF Notifying
  <2> QED
    BY <2>7, <2>8, <2>10, <2>11, <2>12, <2>13
<1> QED
  BY <1>1, <1>2

LEMMA ResumePreserves ==
  ASSUME IInv, NEW t \in Thread, NEW f \in Fiber, Resume(t, f)
  PROVE  IInv'
<1> USE DEF IInv
<1>0. /\ running[t] = f /\ pc[f] = "resume" /\ pc' = [pc EXCEPT ![f] = "loop"]
      /\ last' = [last EXCEPT ![t] = None]
      /\ UNCHANGED <<running, left, waiting, counter, wakeup, queue, signal, finished, service>>
  BY DEF Resume, At, Goto
<1>1. /\ pc'[f] = "loop" /\ \A g \in Fiber : g # f => pc'[g] = pc[g]
      /\ pc' \in [Fiber -> Location]
  BY <1>0 DEF TypeOK, Location
<1>2. /\ last' \in [Thread -> Fiber \cup {None}] /\ last'[t] = None
      /\ \A u \in Thread : u # t => last'[u] = last[u]
  BY <1>0 DEF TypeOK
<1>3. /\ executeQueue' \in Seq(Fiber) /\ NoRepeats(executeQueue')
      /\ Elems(executeQueue') = Elems(executeQueue) \cup ({last[t]} \ {None})
  <2>1. executeQueue \in Seq(Fiber) /\ NoRepeats(executeQueue)
    BY DEF TypeOK, FibersApart, NoRepeats
  <2>2. CASE last[t] = None
    BY <2>1, <2>2 DEF Resume
  <2>3. CASE last[t] # None
    <3>1. executeQueue' = Append(executeQueue, last[t])
      BY <2>3 DEF Resume
    <3>2. last[t] \in Fiber /\ last[t] \notin Elems(executeQueue)
      BY <2>3 DEF TypeOK, FibersApart
    <3> QED
      BY <2>1, <2>3, <3>1, <3>2, ElemsFacts, NoRepeatsFacts
  <2> QED
    BY <2>2, <2>3
<1>4. TypeOK'
  BY <1>0, <1>1, <1>2, <1>3 DEF TypeOK, wakeup, signal, service
<1>5. FibersApart'
  <2>1. \A u \in Thread : running[u] \in Fiber /\ running[u] \notin Elems(executeQueue')
    BY <1>3 DEF FibersApart, TypeOK
  <2>2. \A g \in Elems(executeQueue') : pc'[g] \in {"loop", "resume"}
    <3>1. Elems(executeQueue') \subseteq Fiber
      BY <1>3, ElemsFacts
    <3>2. \A g \in Elems(executeQueue') : g # f
      BY <1>0, <2>1
    <3> QED
      BY <1>1, <1>3, <3>1, <3>2 DEF FibersApart
  <2>3. ASSUME NEW u \in Thread, last'[u] # None
        PROVE  /\ pc'[last'[u]] = "resume" /\ pc'[running[u]] = "resume"
               /\ last'[u] \notin Elems(executeQueue')
               /\ \A v \in Thread : last'[u] # running[v] /\ (last'[v] = last'[u] => v = u)
    <3>1. u # t /\ last'[u] = last[u] /\ last[u] # None /\ last[u] \in Fiber
      BY <1>2, <2>3 DEF TypeOK
    <3>2. last[u] # f /\ running[u] # f
      BY <1>0, <3>1 DEF FibersApart
    <3>3. pc'[last[u]] = "resume" /\ pc'[running[u]] = "resume"
      BY <1>1, <2>1, <3>1, <3>2 DEF FibersApart
    <3>4. last[u] \notin Elems(executeQueue')
      BY <1>3, <3>1 DEF FibersApart
    <3>5. \A v \in Thread : last[u] # running[v] /\ (last'[v] = last[u] => v = u)
      BY <1>2, <3>1 DEF FibersApart
    <3> QED
      BY <3>1, <3>3, <3>4, <3>5
  <2>4. \A u, v \in Thread : running[u] = running[v] => u = v
    BY DEF FibersApart
  <2> QED
    BY <1>0, <1>3, <2>1, <2>2, <2>3, <2>4 DEF FibersApart, NoRepeats
<1>6. Uncounted' = Uncounted
  BY <1>0, <1>1 DEF Uncounted
<1> USE DEF wakeup, signal, service
<1>7. Requesting'
  BY <1>0, <1>6 DEF Requesting
<1>8. RequestsAlive'
  BY <1>0 DEF RequestsAlive, Elems
<1>9. NumWaitingCounts'
  BY <1>0, <1>6 DEF NumWaitingCounts, Held, NotYet
<1>10. Notifying'
  BY <1>0, <1>1 DEF Notifying
<1> QED
  BY <1>4, <1>5, <1>7, <1>8, <1>9, <1>10

LEMMA FiberStepPreserves ==
  ASSUME IInv, NEW t \in Thread, FiberStep(t)
  PROVE  IInv'
<1> SUFFICES ASSUME NEW f \in Fiber,
                    \/ Enqueue(t, f) \/ ClientNotify(t, f) \/ ClientRelease(t, f) \/ Count(t, f)
                    \/ WaitTest(t, f) \/ Idle(t, f) \/ TestWaiting(t, f) \/ Predicate(t, f)
                    \/ Sleep(t, f) \/ NextFiber(t, f) \/ Resume(t, f)
                    \/ Stop(t, f) \/ StopNotify(t, f) \/ StopRelease(t, f) \/ Join(t, f)
             PROVE  IInv'
  BY DEF FiberStep
<1> QED
  BY EnqueuePreserves, SignalPreserves, CountPreserves, WaitTestPreserves, PollPreserves,
     NextFiberPreserves, ResumePreserves
-------------------------------------------------------------------------------
\* The service runs no fiber: it moves none of them.
LEMMA ServiceMovesNoFiber ==
  ASSUME IInv, UNCHANGED <<scheduler, clients>>
  PROVE  FibersApart' /\ Uncounted' = Uncounted
<1>1. FibersApart'
  BY DEF IInv, FibersApart, Elems, scheduler, clients
<1>2. Uncounted' = Uncounted
  BY DEF Uncounted, clients
<1> QED
  BY <1>1, <1>2

\* A step of the service that handles no request.
LEMMA ThreadPreserves ==
  ASSUME IInv, \/ Check \/ RequeueNotify \/ RequeueRelease \/ WaitForUpdate \/ Acquire
               \/ CompleteTest \/ CompleteNotify
  PROVE  IInv'
<1> USE DEF IInv
<1>1. /\ UNCHANGED <<scheduler, clients, counter, numWaiting, mutex, queue, finished,
                     serving, requeued>>
      /\ sleeping' \subseteq Thread
  BY DEF Check, RequeueNotify, RequeueRelease, WaitForUpdate, Acquire, CompleteTest,
         CompleteNotify, wakeup, service, TypeOK
<1>2. spc # "serve" /\ spc' # "serve" /\ spc' \in ServiceLocation /\ NotYet' = NotYet
  <2> USE DEF ServiceGoto, ServiceLocation, NotYet
  <2>1. CASE Check
    BY <2>1 DEF Check
  <2>2. CASE RequeueNotify
    BY <2>2 DEF RequeueNotify
  <2>3. CASE RequeueRelease
    BY <2>3 DEF RequeueRelease
  <2>4. CASE WaitForUpdate
    BY <2>4 DEF WaitForUpdate
  <2>5. CASE Acquire
    BY <2>5 DEF Acquire
  <2>6. CASE CompleteTest
    BY <2>6 DEF CompleteTest
  <2>7. CASE CompleteNotify
    BY <2>7 DEF CompleteNotify
  <2> QED
    BY <2>1, <2>2, <2>3, <2>4, <2>5, <2>6, <2>7
<1>3. semaphore' \in Nat
  BY DEF Check, RequeueNotify, RequeueRelease, WaitForUpdate, Acquire, CompleteTest,
         CompleteNotify, Exchange, Release, TypeOK, signal
<1>4. notified' \in BOOLEAN /\ draining' \in BOOLEAN
  BY Zenon DEF Check, RequeueNotify, RequeueRelease, WaitForUpdate, Acquire, CompleteTest,
         CompleteNotify, Exchange, Release, TypeOK, signal, service
<1>5. TypeOK'
  BY <1>1, <1>2, <1>3, <1>4 DEF TypeOK, scheduler, clients
<1>6. FibersApart' /\ Uncounted' = Uncounted
  BY <1>1, ServiceMovesNoFiber
<1>7. Requesting'
  BY <1>1, <1>2, <1>6 DEF Requesting, clients
<1>8. RequestsAlive'
  BY <1>1 DEF RequestsAlive, Elems, clients
<1>9. NumWaitingCounts'
  BY <1>1, <1>2, <1>6 DEF NumWaitingCounts, Held
<1>10. Notifying'
  <2> USE DEF ServiceGoto, clients, Notifying
  <2>1. CASE Check
    BY <1>1, <2>1 DEF Check, signal, TypeOK
  <2>2. CASE RequeueNotify
    BY <1>1, <2>2 DEF RequeueNotify
  <2>3. CASE RequeueRelease
    BY <1>1, <2>3 DEF RequeueRelease
  <2>4. CASE WaitForUpdate
    BY <1>1, <2>4 DEF WaitForUpdate
  <2>5. CASE Acquire
    BY <1>1, <2>5 DEF Acquire
  <2>6. CASE CompleteTest
    BY <1>1, <2>6 DEF CompleteTest
  <2>7. CASE CompleteNotify
    BY <1>1, <2>7 DEF CompleteNotify
  <2> QED
    BY <2>1, <2>2, <2>3, <2>4, <2>5, <2>6, <2>7
<1> QED
  BY <1>5, <1>6, <1>7, <1>8, <1>9, <1>10

\* The service takes the oldest request: its own, or one that Stop left behind.
LEMMA TakePreserves ==
  ASSUME IInv, Update \/ Drain
  PROVE  IInv'
<1> USE DEF IInv
<1>1. /\ UNCHANGED <<scheduler, clients, counter, wakeup, signal, finished, requeued, draining>>
      /\ spc \in {"update", "drain"} /\ serving = None
  BY DEF Update, Drain, Requesting
<1>2. FibersApart' /\ Uncounted' = Uncounted
  BY <1>1, ServiceMovesNoFiber
<1> USE DEF clients, scheduler, wakeup, signal
<1>3. CASE queue = << >>
  <2>1. /\ UNCHANGED <<queue, serving>> /\ spc' \in {"waitForUpdate", "stopped"}
        /\ spc' = "waitForUpdate" => spc = "update"
    BY <1>3 DEF Update, Drain, ServiceGoto
  <2>2. TypeOK'
    BY <1>1, <2>1 DEF TypeOK, ServiceLocation
  <2>3. Requesting'
    BY <1>1, <1>2, <2>1 DEF Requesting
  <2>4. RequestsAlive'
    BY <1>1, <2>1 DEF RequestsAlive, Elems
  <2>5. NumWaitingCounts'
    BY <1>1, <1>2, <2>1 DEF NumWaitingCounts, Held, NotYet
  <2>6. Notifying'
    BY <1>1, <1>3, <2>1 DEF Notifying
  <2> QED
    BY <1>2, <2>2, <2>3, <2>4, <2>5, <2>6
<1>4. CASE queue # << >>
  <2>1. serving' = Head(queue) /\ queue' = Tail(queue) /\ spc' = "serve"
    BY <1>4 DEF Update, Drain, ServiceGoto
  <2>2. /\ queue' \in Seq(Fiber) /\ serving' \in Fiber
        /\ Elems(queue) = Elems(queue') \cup {serving'} /\ Elems(queue) \subseteq Fiber
    BY <1>4, <2>1, ElemsFacts DEF TypeOK
  <2>3. NoRepeats(queue') /\ serving' \notin Elems(queue')
    <3>1. NoRepeats(queue) /\ queue \in Seq(Fiber)
      BY DEF RequestsAlive, NoRepeats, TypeOK
    <3> QED
      BY <1>4, <2>1, <3>1, NoRepeatsFacts
  <2>4. TypeOK'
    BY <1>1, <2>1, <2>2 DEF TypeOK, ServiceLocation
  <2>5. Requesting'
    BY <1>1, <1>2, <2>1, <2>2, FiberAssumption DEF Requesting
  <2>6. RequestsAlive'
    <3>1. \A f \in Fiber : IF f \in Elems(queue') \cup {serving'}
                           THEN f \in waiting' /\ counter'[f] = 1
                           ELSE counter'[f] = 0
      BY <1>1, <2>2, FiberAssumption DEF RequestsAlive
    <3> QED
      BY <2>3, <3>1 DEF RequestsAlive, NoRepeats
  <2>7. NumWaitingCounts'
    BY <1>1, <1>2, <2>1 DEF NumWaitingCounts, Held, NotYet
  <2>8. Notifying'
    BY <2>1 DEF Notifying
  <2> QED
    BY <1>2, <2>4, <2>5, <2>6, <2>7, <2>8
<1> QED
  BY <1>3, <1>4

LEMMA RequeuePreserves == IInv /\ Requeue => IInv'
<1> SUFFICES ASSUME IInv, Requeue PROVE IInv'
  OBVIOUS
<1> USE DEF IInv
<1>1. /\ spc = "serve" /\ serving \in Fiber /\ queue' = Append(queue, serving)
      /\ serving' = None /\ spc' = "requeueNotify" /\ requeued' = requeued \cup {serving}
      /\ UNCHANGED <<scheduler, clients, counter, wakeup, signal, finished, draining>>
  BY RequestAssumption DEF Requeue, ServiceGoto
<1>2. FibersApart' /\ Uncounted' = Uncounted
  BY <1>1, ServiceMovesNoFiber
<1> USE DEF clients, scheduler, wakeup, signal
<1>3. queue' \in Seq(Fiber) /\ Elems(queue') = Elems(queue) \cup {serving}
  BY <1>1, ElemsFacts DEF TypeOK
<1>4. NoRepeats(queue')
  <2>1. /\ NoRepeats(queue) /\ queue \in Seq(Fiber)
        /\ serving \notin Elems(queue)
    BY <1>1, FiberAssumption DEF RequestsAlive, NoRepeats, TypeOK
  <2> QED
    BY <1>1, <2>1, NoRepeatsFacts
<1>5. TypeOK'
  BY <1>1, <1>3 DEF TypeOK, ServiceLocation
<1>6. Requesting'
  BY <1>1, <1>2 DEF Requesting
<1>7. RequestsAlive'
  <2>1. \A f \in Fiber : IF f \in Elems(queue') \cup {serving'}
                         THEN f \in waiting' /\ counter'[f] = 1
                         ELSE counter'[f] = 0
    BY <1>1, <1>3, FiberAssumption DEF RequestsAlive
  <2> QED
    BY <1>1, <1>4, <2>1 DEF RequestsAlive, NoRepeats
<1>8. NumWaitingCounts'
  BY <1>1, <1>2 DEF NumWaitingCounts, Held, NotYet
<1>9. Notifying'
  BY <1>1 DEF Notifying
<1> QED
  BY <1>2, <1>5, <1>6, <1>7, <1>8, <1>9

LEMMA CompletePreserves == IInv /\ Complete => IInv'
<1> SUFFICES ASSUME IInv, Complete PROVE IInv'
  OBVIOUS
<1> USE DEF IInv
<1>1. /\ spc = "serve" /\ counter' = [counter EXCEPT ![serving] = @ - 1]
      /\ serving' = None /\ spc' = "completeTest"
      /\ UNCHANGED <<scheduler, clients, wakeup, queue, signal, finished, requeued, draining>>
  BY DEF Complete, ServiceGoto
<1>2. FibersApart' /\ Uncounted' = Uncounted
  BY <1>1, ServiceMovesNoFiber
<1> USE DEF clients, scheduler, wakeup, signal
<1>3. serving \in Fiber /\ serving # None /\ serving \notin Elems(queue) /\ counter[serving] = 1
  BY <1>1 DEF Requesting, RequestsAlive, TypeOK
<1>4. /\ counter' \in [Fiber -> Int] /\ counter'[serving] = 0
      /\ \A f \in Fiber : f # serving => counter'[f] = counter[f]
  BY <1>1, <1>3 DEF TypeOK
<1>5. TypeOK'
  BY <1>1, <1>4 DEF TypeOK, ServiceLocation
<1>6. Requesting'
  BY <1>1, <1>2 DEF Requesting
<1>7. RequestsAlive'
  <2>1. \A f \in Fiber : IF f \in Elems(queue) \cup {None}
                         THEN f \in waiting /\ counter'[f] = 1
                         ELSE counter'[f] = 0
    BY <1>3, <1>4, FiberAssumption DEF RequestsAlive
  <2> QED
    BY <1>1, <2>1 DEF RequestsAlive, Elems
<1>8. Held' = Held \ {serving} /\ serving \in Held
  BY <1>3, <1>4 DEF Held
<1>9. NumWaitingCounts'
  <2>1. /\ Cardinality(Held') = Cardinality(Held) - 1 /\ Cardinality(Held) \in Nat
        /\ Cardinality(Uncounted) \in Nat
    BY <1>3, <1>8, Counting DEF Held, Uncounted
  <2>2. NotYet = 0 /\ NotYet' = 1 /\ numWaiting' = numWaiting /\ numWaiting \in Int
    BY <1>1 DEF NotYet, TypeOK
  <2> QED
    BY <1>2, <2>1, <2>2 DEF NumWaitingCounts
<1>10. Notifying'
  BY <1>1 DEF Notifying
<1> QED
  BY <1>2, <1>5, <1>6, <1>7, <1>9, <1>10

LEMMA CompleteSubPreserves == IInv /\ CompleteSub => IInv'
<1> SUFFICES ASSUME IInv, CompleteSub PROVE IInv'
  OBVIOUS
<1> USE DEF IInv
<1>1. /\ spc \in {"completeLocked", "completeBare"} /\ numWaiting' = numWaiting - 1
      /\ spc' = "completeNotify"
      /\ UNCHANGED <<scheduler, clients, counter, mutex, sleeping, queue, signal, finished,
                     serving, requeued, draining>>
  BY DEF CompleteSub, ServiceGoto
<1>2. FibersApart' /\ Uncounted' = Uncounted
  BY <1>1, ServiceMovesNoFiber
<1> USE DEF clients, scheduler, signal
<1>3. TypeOK'
  BY <1>1 DEF TypeOK, ServiceLocation
<1>4. Requesting'
  BY <1>1, <1>2 DEF Requesting
<1>5. RequestsAlive'
  BY <1>1 DEF RequestsAlive, Elems
<1>6. NumWaitingCounts'
  <2>1. /\ Held' = Held /\ NotYet = 1 /\ NotYet' = 0 /\ numWaiting \in Int
        /\ Cardinality(Held) \in Nat /\ Cardinality(Uncounted) \in Nat
    <3>1. Held' = Held /\ NotYet = 1 /\ NotYet' = 0 /\ numWaiting \in Int
      BY <1>1 DEF Held, NotYet, TypeOK
    <3>2. \A S \in SUBSET Fiber : Cardinality(S) \in Nat
      BY FiberAssumption, FS_Subset, FS_CardinalityType
    <3> QED
      BY <3>1, <3>2 DEF Held, Uncounted
  <2> QED
    BY <1>1, <1>2, <2>1 DEF NumWaitingCounts
<1>7. Notifying'
  BY <1>1 DEF Notifying
<1> QED
  BY <1>2, <1>3, <1>4, <1>5, <1>6, <1>7

LEMMA NextPreserves == IInv /\ Next => IInv'
<1>1. IInv /\ ServiceStep => IInv'
  BY ThreadPreserves, TakePreserves, RequeuePreserves, CompletePreserves, CompleteSubPreserves
     DEF ServiceStep
<1> QED
  BY <1>1, FiberStepPreserves DEF Next
-------------------------------------------------------------------------------
\* The inductive invariant of the service and the fibers that wait for it.
THEOREM Invariance == Spec => []IInv
<1>1. Init => IInv
  BY InitEstablishes
<1>2. IInv /\ [Next]_vars => IInv'
  BY NextPreserves, StutterPreserves
<1> QED
  BY <1>1, <1>2, PTL DEF Spec

\* No variable leaves its type: no semaphore count below zero, no fiber in a
\* location its code does not have.
THEOREM TypeCorrect == Spec => []TypeOK
<1>1. IInv => TypeOK
  BY DEF IInv
<1> QED
  BY <1>1, Invariance, PTL

\* The service never works on a request that is gone from its fiber's stack: it
\* holds a request once, while the fiber is still in YieldFiberToService, and
\* CompleteRequest is called once for each.
THEOREM RequestsOutliveService == Spec => []RequestsAlive
<1>1. IInv => RequestsAlive
  BY DEF IInv
<1> QED
  BY <1>1, Invariance, PTL

\* m_numWaitingServiceFibers counts the fibers that wait, but for those on their
\* way into the count or out of it.
THEOREM WaitersAreCounted == Spec => []NumWaitingCounts
<1>1. IInv => NumWaitingCounts
  BY DEF IInv
<1> QED
  BY <1>1, Invariance, PTL

\* The exchange of m_notified and the semaphore lose no notification: the service
\* never sleeps on work or on a Stop that nobody will wake it for.
THEOREM NotificationsArrive == Spec => []NoLostNotification
<1>1. IInv => NoLostNotification
  <2> SUFFICES ASSUME IInv, spc = "acquire", semaphore = 0, queue # << >> \/ finished
               PROVE  \E f \in Fiber : pc[f] \in {"notify", "release", "stopNotify", "stopRelease"}
    BY DEF NoLostNotification
  <2>1. CASE notified
    BY <2>1 DEF IInv, Notifying
  <2>2. CASE ~notified
    BY <2>2 DEF IInv, Notifying
  <2> QED
    BY <2>1, <2>2
<1> QED
  BY <1>1, Invariance, PTL
===============================================================================
