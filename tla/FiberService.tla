----------------------------- MODULE FiberService -----------------------------
(***************************************************************************)
(* FiberService of src/fiber.cpp and the fibers that wait for it: a fiber  *)
(* puts a request that lives on its own stack into the service's queue,    *)
(* then polls the request's counter between calls of NextFiber; the        *)
(* service's own thread completes requests, and sleeps on a semaphore      *)
(* while there are none.  When every fiber waits, the threads that run     *)
(* fibers sleep on m_allWaitingCondition.                                  *)
(*                                                                         *)
(* A request is named by its fiber.  Of the scheduler only m_executeQueue  *)
(* is here (FiberManager has the rest): the fibers' tasks are running, so  *)
(* no thread sleeps for want of tasks.                                     *)
(***************************************************************************)
EXTENDS Sequences, Integers, FiniteSets

CONSTANTS Thread,       \* the threads that run fibers
          Fiber,        \* numFibers + numWorkers fibers, one of them main's
          MainFiber,    \* the fiber that calls Stop
          None,         \* a null pointer
          Requests,     \* Requests[f]: the requests fiber f makes (a bound)
          Deferred,     \* the fibers whose requests Update puts back once (a bound)
          LateRequests  \* may Stop be called while fibers still make requests?

ASSUME FiberAssumption   == /\ MainFiber \in Fiber /\ None \notin Fiber \cup Thread
                            /\ IsFiniteSet(Fiber) /\ IsFiniteSet(Thread)
                            /\ Cardinality(Fiber) > Cardinality(Thread)
ASSUME RequestAssumption == /\ Requests \in [Fiber -> Nat]
                            /\ Deferred \subseteq Fiber
                            /\ LateRequests \in BOOLEAN

\* What the runs of this module choose for Requests: a request by every fiber,
\* so that all of them wait at once.
OneEach == [f \in Fiber |-> 1]

AllWaiting == Cardinality(Fiber)   \* m_maxWaitingServiceFibers

VARIABLES running,      \* the fiber each thread runs
          last,         \* m_lastFiber of each thread
          executeQueue, \* m_executeQueue
          pc,           \* where each fiber is
          left,         \* the requests each fiber has still to make
          waiting,      \* the fibers inside YieldFiberToService
          counter,      \* serviceCounter of each fiber's request
          numWaiting,   \* m_numWaitingServiceFibers; -n stands for 2^32 - n
          mutex,        \* who keeps m_allWaitingMutex from test to sleep
          sleeping,     \* the threads blocked on m_allWaitingCondition
          queue,        \* m_queue: the requests, oldest first
          notified,     \* m_notified
          semaphore,    \* the count of m_semNotify
          finished,     \* m_finished
          spc,          \* where the service thread is
          serving,      \* the request it works on
          requeued,     \* the requests Update has put back
          draining      \* RunThread is in its last loop, which cancels what is left

scheduler == <<running, last, executeQueue>>
clients   == <<pc, left, waiting>>
wakeup    == <<numWaiting, mutex, sleeping>>
signal    == <<notified, semaphore>>
service   == <<spc, serving, requeued, draining>>
vars      == <<scheduler, clients, counter, wakeup, queue, signal, finished, service>>

\* Every thread runs a fiber; the others are in the queue, in some order.
Init == /\ running \in {r \in [Thread -> Fiber] : \A t, u \in Thread : r[t] = r[u] => t = u}
        /\ executeQueue \in
             {s \in [1..(AllWaiting - Cardinality(Thread)) -> Fiber] :
                /\ \A i, j \in DOMAIN s : s[i] = s[j] => i = j
                /\ \A i \in DOMAIN s, t \in Thread : s[i] # running[t]}
        /\ last = [t \in Thread |-> None]
        /\ pc = [f \in Fiber |-> "loop"]
        /\ left = Requests
        /\ waiting = {}
        /\ counter = [f \in Fiber |-> 0]
        /\ numWaiting = 0
        /\ mutex = None
        /\ sleeping = {}
        /\ queue = << >>
        /\ notified = FALSE
        /\ semaphore = 0
        /\ finished = FALSE
        /\ spc = "check"
        /\ serving = None
        /\ requeued = {}
        /\ draining = FALSE

At(t, f, l) == running[t] = f /\ pc[f] = l
Goto(f, l)  == pc' = [pc EXCEPT ![f] = l]
-------------------------------------------------------------------------------
(* Notify and WaitForUpdate: a flag in front of a semaphore.               *)

\* Notify's exchange; here goes on at release only if the flag was clear.
Exchange(release, skip, next) == /\ notified' = TRUE
                                 /\ next = IF notified THEN skip ELSE release
                                 /\ UNCHANGED semaphore

\* Mistake: the semaphore is not released.
ReleaseNothing == UNCHANGED signal

Release == semaphore' = semaphore + 1 /\ UNCHANGED notified
-------------------------------------------------------------------------------
(* The fibers.                                                             *)

\* YieldFiberToService up to m_queue.push in PushServiceFiber.
Enqueue(t, f) == /\ At(t, f, "loop")
                 /\ f \notin waiting
                 /\ left[f] > 0
                 /\ left' = [left EXCEPT ![f] = @ - 1]
                 /\ waiting' = waiting \cup {f}
                 /\ counter' = [counter EXCEPT ![f] = 1]
                 /\ queue' = Append(queue, f)
                 /\ requeued' = requeued \ {f}
                 /\ Goto(f, "notify")
                 /\ UNCHANGED <<scheduler, wakeup, signal, finished, spc, serving, draining>>

ClientNotify(t, f) == /\ At(t, f, "notify")
                      /\ \E l \in {"release", "count"} :
                           Exchange("release", "count", l) /\ Goto(f, l)
                      /\ UNCHANGED <<scheduler, left, waiting, counter, wakeup, queue,
                                     finished, service>>

ClientRelease(t, f) == /\ At(t, f, "release")
                       /\ Release
                       /\ Goto(f, "count")
                       /\ UNCHANGED <<scheduler, left, waiting, counter, wakeup, queue,
                                      finished, service>>

\* Mistake: the waiting fiber is not counted.
CountNothing(t, f) == /\ At(t, f, "count")
                      /\ Goto(f, "loop")
                      /\ UNCHANGED <<scheduler, left, waiting, counter, wakeup, queue, signal,
                                     finished, service>>

\* The fiber is counted as waiting after the service may have seen the request.
Count(t, f) == /\ At(t, f, "count")
               /\ numWaiting' = numWaiting + 1
               /\ Goto(f, "loop")
               /\ UNCHANGED <<scheduler, left, waiting, counter, mutex, sleeping, queue,
                              signal, finished, service>>

\* Mistake: EnqueueRequest returns as soon as the fiber is resumed.
WaitTestOnce(t, f) == /\ At(t, f, "loop")
                      /\ f \in waiting
                      /\ \/ Goto(f, "waitForFiber") /\ UNCHANGED waiting
                         \/ waiting' = waiting \ {f} /\ UNCHANGED pc
                      /\ UNCHANGED <<scheduler, left, counter, wakeup, queue, signal,
                                     finished, service>>

\* The test of YieldFiberToService's loop; EnqueueRequest returns when it fails.
WaitTest(t, f) == /\ At(t, f, "loop")
                  /\ f \in waiting
                  /\ IF counter[f] # 0
                     THEN Goto(f, "waitForFiber") /\ UNCHANGED waiting
                     ELSE waiting' = waiting \ {f} /\ UNCHANGED pc
                  /\ UNCHANGED <<scheduler, left, counter, wakeup, queue, signal,
                                 finished, service>>

\* A fiber without a request: the loops of Run and WaitForCounter.
Idle(t, f) == /\ At(t, f, "loop")
              /\ f \notin waiting
              /\ Goto(f, "waitForFiber")
              /\ UNCHANGED <<scheduler, left, waiting, counter, wakeup, queue, signal,
                             finished, service>>

\* WaitForFiber: threads sleep only when all fibers wait.
TestWaiting(t, f) == /\ At(t, f, "waitForFiber")
                     /\ Goto(f, IF numWaiting = AllWaiting THEN "predicate" ELSE "nextFiber")
                     /\ UNCHANGED <<scheduler, left, waiting, counter, wakeup, queue, signal,
                                    finished, service>>

\* numWaiting < m_maxWaitingServiceFibers, as unsigned numbers.
SomeFiberAwake == numWaiting \in 0..(AllWaiting - 1)

Predicate(t, f) == /\ At(t, f, "predicate")
                   /\ t \notin sleeping
                   /\ mutex = None
                   /\ IF SomeFiberAwake
                      THEN Goto(f, "nextFiber") /\ UNCHANGED mutex
                      ELSE Goto(f, "sleep") /\ mutex' = t
                   /\ UNCHANGED <<scheduler, left, waiting, counter, numWaiting, sleeping,
                                  queue, signal, finished, service>>

Sleep(t, f) == /\ At(t, f, "sleep")
               /\ mutex' = None
               /\ sleeping' = sleeping \cup {t}
               /\ Goto(f, "predicate")
               /\ UNCHANGED <<scheduler, left, waiting, counter, numWaiting, queue, signal,
                              finished, service>>

\* NextFiber: the pop, and the switch when there is a fiber to switch to.
NextFiber(t, f) == /\ At(t, f, "nextFiber")
                   /\ IF executeQueue = << >>
                      THEN Goto(f, "loop") /\ UNCHANGED scheduler
                      ELSE /\ executeQueue' = Tail(executeQueue)
                           /\ running' = [running EXCEPT ![t] = Head(executeQueue)]
                           /\ last' = [last EXCEPT ![t] = f]
                           /\ pc' = [pc EXCEPT ![f] = "resume", ![Head(executeQueue)] = "resume"]
                   /\ UNCHANGED <<left, waiting, counter, wakeup, queue, signal, finished,
                                  service>>

\* ResumeThisFiber.
Resume(t, f) == /\ At(t, f, "resume")
                /\ IF last[t] # None
                   THEN executeQueue' = Append(executeQueue, last[t])
                   ELSE UNCHANGED executeQueue
                /\ last' = [last EXCEPT ![t] = None]
                /\ Goto(f, "loop")
                /\ UNCHANGED <<running, left, waiting, counter, wakeup, queue, signal,
                               finished, service>>
-------------------------------------------------------------------------------
(* Stop, called on main's fiber.                                           *)

Stop(t, f) == /\ At(t, f, "loop")
              /\ f = MainFiber /\ f \notin waiting /\ left[f] = 0
              /\ ~finished
              /\ LateRequests \/ \A g \in Fiber : left[g] = 0
              /\ finished' = TRUE
              /\ Goto(f, "stopNotify")
              /\ UNCHANGED <<scheduler, left, waiting, counter, wakeup, queue, signal, service>>

StopNotify(t, f) == /\ At(t, f, "stopNotify")
                    /\ \E l \in {"stopRelease", "join"} :
                         Exchange("stopRelease", "join", l) /\ Goto(f, l)
                    /\ UNCHANGED <<scheduler, left, waiting, counter, wakeup, queue,
                                   finished, service>>

StopRelease(t, f) == /\ At(t, f, "stopRelease")
                     /\ Release
                     /\ Goto(f, "join")
                     /\ UNCHANGED <<scheduler, left, waiting, counter, wakeup, queue,
                                    finished, service>>

Join(t, f) == /\ At(t, f, "join")
              /\ spc = "stopped"
              /\ Goto(f, "loop")
              /\ UNCHANGED <<scheduler, left, waiting, counter, wakeup, queue, signal,
                             finished, service>>
-------------------------------------------------------------------------------
(* The service thread.                                                     *)

ServiceGoto(l) == spc' = l

\* Mistake: the loop never looks at the flag.
CheckNothing == /\ spc = "check"
                /\ ServiceGoto("update")
                /\ UNCHANGED <<scheduler, clients, counter, wakeup, queue, signal, finished,
                               serving, requeued, draining>>

\* The test of RunThread's loop.
Check == /\ spc = "check"
         /\ ServiceGoto(IF finished THEN "drain" ELSE "update")
         /\ draining' = finished
         /\ UNCHANGED <<scheduler, clients, counter, wakeup, queue, signal, finished,
                        serving, requeued>>

\* Update, which a subclass writes: it pops a request and works on it and asks
\* to be called again, or finds none and lets the thread sleep.
Update == /\ spc = "update"
          /\ IF queue = << >>
             THEN ServiceGoto("waitForUpdate") /\ UNCHANGED <<queue, serving>>
             ELSE /\ serving' = Head(queue)
                  /\ queue' = Tail(queue)
                  /\ ServiceGoto("serve")
          /\ UNCHANGED <<scheduler, clients, counter, wakeup, signal, finished, requeued,
                         draining>>

\* Update returns the request to the queue for later: PushServiceFiber.
Requeue == /\ spc = "serve"
           /\ ~draining
           /\ serving \in Deferred \ requeued
           /\ requeued' = requeued \cup {serving}
           /\ queue' = Append(queue, serving)
           /\ serving' = None
           /\ ServiceGoto("requeueNotify")
           /\ UNCHANGED <<scheduler, clients, counter, wakeup, signal, finished, draining>>

RequeueNotify == /\ spc = "requeueNotify"
                 /\ \E l \in {"requeueRelease", "check"} :
                      Exchange("requeueRelease", "check", l) /\ ServiceGoto(l)
                 /\ UNCHANGED <<scheduler, clients, counter, wakeup, queue, finished,
                                serving, requeued, draining>>

RequeueRelease == /\ spc = "requeueRelease"
                  /\ Release
                  /\ ServiceGoto("check")
                  /\ UNCHANGED <<scheduler, clients, counter, wakeup, queue, finished,
                                 serving, requeued, draining>>

\* Mistake: the thread sleeps although it was notified.
WaitForUpdateAlways == /\ spc = "waitForUpdate"
                       /\ notified' = FALSE
                       /\ ServiceGoto("acquire")
                       /\ UNCHANGED <<scheduler, clients, counter, wakeup, queue, semaphore,
                                      finished, serving, requeued, draining>>

\* WaitForUpdate: the exchange, and the semaphore if nobody had notified.
WaitForUpdate == /\ spc = "waitForUpdate"
                 /\ notified' = FALSE
                 /\ ServiceGoto(IF notified THEN "check" ELSE "acquire")
                 /\ UNCHANGED <<scheduler, clients, counter, wakeup, queue, semaphore,
                                finished, serving, requeued, draining>>

\* Mistake: the count is taken without waiting for it.
AcquireAtOnce == /\ spc = "acquire"
                 /\ semaphore' = semaphore - 1
                 /\ ServiceGoto("check")
                 /\ UNCHANGED <<scheduler, clients, counter, wakeup, queue, notified, finished,
                                serving, requeued, draining>>

Acquire == /\ spc = "acquire"
           /\ semaphore > 0
           /\ semaphore' = semaphore - 1
           /\ ServiceGoto("check")
           /\ UNCHANGED <<scheduler, clients, counter, wakeup, queue, notified, finished,
                          serving, requeued, draining>>

\* After Stop: what is left in the queue is cancelled.
Drain == /\ spc = "drain"
         /\ IF queue = << >>
            THEN ServiceGoto("stopped") /\ UNCHANGED <<queue, serving>>
            ELSE /\ serving' = Head(queue)
                 /\ queue' = Tail(queue)
                 /\ ServiceGoto("serve")
         /\ UNCHANGED <<scheduler, clients, counter, wakeup, signal, finished, requeued,
                        draining>>

\* CompleteRequest's DecRef: the last access to the request, which may be gone
\* from the fiber's stack from now on.  A cancelled request is completed too.
Complete == /\ spc = "serve"
            /\ counter' = [counter EXCEPT ![serving] = @ - 1]
            /\ serving' = None
            /\ ServiceGoto("completeTest")
            /\ UNCHANGED <<scheduler, clients, wakeup, queue, signal, finished, requeued,
                           draining>>

\* NotifyServiceComplete: the load, the subtraction (under the mutex if all
\* fibers were waiting) and the notify; then the loop it was called from.
CompleteTest == /\ spc = "completeTest"
                /\ ServiceGoto(IF numWaiting = AllWaiting THEN "completeLocked" ELSE "completeBare")
                /\ UNCHANGED <<scheduler, clients, counter, wakeup, queue, signal, finished,
                               serving, requeued, draining>>

CompleteSub == /\ \/ spc = "completeLocked" /\ mutex = None
                  \/ spc = "completeBare"
               /\ numWaiting' = numWaiting - 1
               /\ ServiceGoto("completeNotify")
               /\ UNCHANGED <<scheduler, clients, counter, mutex, sleeping, queue, signal,
                              finished, serving, requeued, draining>>

CompleteNotify == /\ spc = "completeNotify"
                  /\ sleeping' = {}
                  /\ ServiceGoto(IF draining THEN "drain" ELSE "check")
                  /\ UNCHANGED <<scheduler, clients, counter, numWaiting, mutex, queue, signal,
                                 finished, serving, requeued, draining>>
-------------------------------------------------------------------------------
FiberStep(t) == \E f \in Fiber :
    \/ Enqueue(t, f) \/ ClientNotify(t, f) \/ ClientRelease(t, f) \/ Count(t, f)
    \/ WaitTest(t, f) \/ Idle(t, f) \/ TestWaiting(t, f) \/ Predicate(t, f)
    \/ Sleep(t, f) \/ NextFiber(t, f) \/ Resume(t, f)
    \/ Stop(t, f) \/ StopNotify(t, f) \/ StopRelease(t, f) \/ Join(t, f)

ServiceStep == \/ Check \/ Update \/ Requeue \/ RequeueNotify \/ RequeueRelease
               \/ WaitForUpdate \/ Acquire \/ Drain
               \/ Complete \/ CompleteTest \/ CompleteSub \/ CompleteNotify

Next == ServiceStep \/ \E t \in Thread : FiberStep(t)

Spec == Init /\ [][Next]_vars

\* The operating system runs every thread, the service's own included.
Fairness == /\ WF_vars(ServiceStep)
            /\ \A t \in Thread : WF_vars(FiberStep(t))
FairSpec == Spec /\ Fairness
-------------------------------------------------------------------------------
Location == {"loop", "notify", "release", "count", "waitForFiber", "predicate", "sleep",
             "nextFiber", "resume", "stopNotify", "stopRelease", "join"}
ServiceLocation == {"check", "update", "serve", "requeueNotify", "requeueRelease",
                    "waitForUpdate", "acquire", "drain", "completeTest", "completeLocked",
                    "completeBare", "completeNotify", "stopped"}

TypeOK == /\ running \in [Thread -> Fiber]
          /\ last \in [Thread -> Fiber \cup {None}]
          /\ executeQueue \in Seq(Fiber)
          /\ pc \in [Fiber -> Location]
          /\ left \in [Fiber -> Nat]
          /\ waiting \subseteq Fiber
          /\ counter \in [Fiber -> Int]
          /\ numWaiting \in Int
          /\ mutex \in Thread \cup {None}
          /\ sleeping \subseteq Thread
          /\ queue \in Seq(Fiber)
          /\ notified \in BOOLEAN
          /\ semaphore \in Nat
          /\ finished \in BOOLEAN
          /\ spc \in ServiceLocation
          /\ serving \in Fiber \cup {None}
          /\ requeued \subseteq Fiber
          /\ draining \in BOOLEAN

Elems(s) == {s[i] : i \in DOMAIN s}

\* A request lives on the stack of the fiber that made it.  The service holds
\* one only while that fiber is still inside YieldFiberToService, holds it once,
\* and completes it exactly once: the counter is 1 as long as the service has it.
RequestsAlive == /\ \A i, j \in DOMAIN queue : queue[i] = queue[j] => i = j
                 /\ serving # None => serving \notin Elems(queue)
                 /\ \A f \in Fiber :
                      IF f \in Elems(queue) \cup {serving}
                      THEN f \in waiting /\ counter[f] = 1
                      ELSE counter[f] = 0

Uncounted == {f \in Fiber : pc[f] \in {"notify", "release", "count"}}
Held      == {f \in Fiber : counter[f] # 0}
NotYet    == IF spc \in {"completeTest", "completeLocked", "completeBare"} THEN 1 ELSE 0

\* m_numWaitingServiceFibers counts the requests whose fiber has been counted and
\* whose completion has not: it is below zero (wraps) only while a fiber whose
\* request was already completed is about to be counted.
NumWaitingCounts == numWaiting + Cardinality(Uncounted) = Cardinality(Held) + NotYet

\* No lost notification: when the service has read its flag and sleeps, or is
\* about to, a request in the queue or a Stop has a release made or on its way.
NoLostNotification ==
    spc = "acquire" /\ semaphore = 0 /\ (queue # << >> \/ finished) =>
      \E f \in Fiber : pc[f] \in {"notify", "release", "stopNotify", "stopRelease"}

-------------------------------------------------------------------------------
(* The inductive invariant.                                                *)

\* A fiber is run by one thread, or waits in m_executeQueue, or is the one a
\* thread has just left; a fiber nobody runs is not in the middle of a call.
FibersApart ==
    /\ \A t, u \in Thread : running[t] = running[u] => t = u
    /\ \A i, j \in DOMAIN executeQueue : executeQueue[i] = executeQueue[j] => i = j
    /\ \A t \in Thread : running[t] \notin Elems(executeQueue)
    /\ \A f \in Elems(executeQueue) : pc[f] \in {"loop", "resume"}
    /\ \A t \in Thread : last[t] # None =>
         /\ pc[last[t]] = "resume" /\ pc[running[t]] = "resume"
         /\ last[t] \notin Elems(executeQueue)
         /\ \A u \in Thread : last[t] # running[u] /\ (last[u] = last[t] => u = t)

\* Who is inside YieldFiberToService, and when the service works on a request.
Requesting == /\ \A f \in Fiber : f \in Uncounted => f \in waiting
              /\ serving # None <=> spc = "serve"

\* While m_notified is clear, whoever gave the service a reason to look has still
\* to set it; once it is set, the one who set it has released or will.
Notifying ==
    /\ spc \in {"waitForUpdate", "acquire"} /\ queue # << >> /\ ~notified =>
         \E f \in Fiber : pc[f] = "notify"
    /\ spc \in {"update", "waitForUpdate", "acquire"} /\ finished /\ ~notified =>
         \E f \in Fiber : pc[f] = "stopNotify"
    /\ spc = "acquire" /\ notified /\ semaphore = 0 =>
         \E f \in Fiber : pc[f] \in {"release", "stopRelease"}

IInv == /\ TypeOK /\ FibersApart /\ Requesting /\ RequestsAlive /\ NumWaitingCounts
        /\ Notifying
-------------------------------------------------------------------------------
\* The service catches up: requests that are queued or being worked on are all
\* completed, or cancelled by Stop.
RequestsServed == (\E f \in Fiber : counter[f] # 0) ~> (\A f \in Fiber : counter[f] = 0)

\* Stop returns.
StopReturns == finished ~> pc[MainFiber] # "join"

\* A fiber whose request is completed goes on after EnqueueRequest.
RequestersResume == \A f \in Fiber : f \in waiting ~> f \notin waiting
===============================================================================
