----------------------------- MODULE FiberManager -----------------------------
(***************************************************************************)
(* The fiber scheduler of src/fiber.cpp: NumThreads threads (thread 0 is   *)
(* the one that called Init) switch between fibers, run the tasks of two   *)
(* queues, and sleep on a condition variable while there are no tasks.     *)
(*                                                                         *)
(* Fiber i < NumThreads is thread i's m_threadFiber, owned by it; the      *)
(* other fibers belong to nobody (m_ownerThread = -1).  A fiber carries    *)
(* its call stack across threads: a bottom frame (Fiber::Run, or main) and *)
(* above it one frame for every task being executed, the innermost last.   *)
(* A frame's field at is where the frame continues when a call to          *)
(* NextFiber in it returns.                                                *)
(*                                                                         *)
(* One action per access to shared state.  The queues are atomic           *)
(* (IntrusiveQueue implements FifoQueue), and a section under              *)
(* m_hasTasksMutex that makes one access is one step.  A thread sleeps     *)
(* until it is notified: spurious wakeups are left out.                    *)
(***************************************************************************)
EXTENDS Sequences, Integers, FiniteSets

CONSTANTS NumThreads,  \* Max(1, numWorkerThreads), the main thread included
          NumFibers,   \* Max(1, numFibers): the fibers nobody owns
          Task,        \* the tasks
          Main,        \* the program that calls Init, RunTasks and Purge
          Children,    \* Children[p]: the array p hands to RunTasks
          Urgent,      \* those whose RunTasks has a priority other than 0
          Yielders     \* the tasks that call YieldFiber

ASSUME CountAssumption == /\ NumThreads \in Nat \ {0}
                          /\ NumFibers \in Nat \ {0}
ASSUME ProgramAssumption == /\ Main \notin Task /\ IsFiniteSet(Task)
                            /\ Children \in [Task \cup {Main} -> Seq(Task)]
                            /\ Urgent \subseteq Task \cup {Main}
                            /\ Yielders \subseteq Task

Threads  == 0..(NumThreads - 1)
Workers  == Threads \ {0}
Fibers   == 0..(NumThreads + NumFibers - 1)
Programs == Task \cup {Main}
Run      == "Run"        \* the bottom frame of a fiber that is not main's
None     == -1           \* a null Fiber*, and the owner of a fiber nobody owns
Unset    == "unset"      \* a null Counter*

Elems(s)     == {s[i] : i \in DOMAIN s}
NoRepeats(s) == \A i, j \in DOMAIN s : s[i] = s[j] => i = j

\* A task is handed to RunTasks once: the queues link tasks through m_next, and
\* a task has room for one m_counter.
ASSUME TreeAssumption == /\ \A p \in Programs : NoRepeats(Children[p])
                         /\ \A p, q \in Programs :
                              p # q => Elems(Children[p]) \cap Elems(Children[q]) = {}
ASSUME NameAssumption == Run \notin Programs /\ Unset \notin Programs

Owner(f) == IF f \in Threads THEN f ELSE None

VARIABLES running,     \* the fiber the operating system runs on each thread
          current,     \* m_currentFiber of each thread
          last,        \* m_lastFiber of each thread
          threadQueue, \* m_threadQueue of each thread
          executeQueue,\* m_executeQueue
          pc,          \* where each fiber is
          stack,       \* the frames of each fiber
          target,      \* NextFiber's nextFiber, in each fiber
          finishOn,    \* the thread whose data FinishFiber captured
          highQueue, lowQueue,  \* m_highPriorityTaskQueue, m_lowPriorityTaskQueue
          counterOf,   \* m_counter of each task, named by the program that waits on it
          counter,     \* the counter in each program's frame
          numTasks,    \* m_numTasks; -n stands for the unsigned 2^32 - n
          mutex,       \* the thread that keeps m_hasTasksMutex from test to sleep
          sleeping,    \* the threads blocked on m_hasTasksCondition
          exitRequested\* m_exitRequested

sched == <<running, current, last, threadQueue, executeQueue, target, finishOn>>
tasks == <<highQueue, lowQueue, counterOf, counter>>
sync  == <<numTasks, mutex, sleeping>>
vars  == <<sched, tasks, sync, pc, stack, exitRequested>>

Frame(p, at) == [task |-> p, at |-> at]
Top(f)       == stack[f][Len(stack[f])]
Range0(n)    == [i \in 1..n |-> NumThreads + i - 1]

Init == /\ running = [t \in Threads |-> t]
        /\ current = [t \in Threads |-> IF t = 0 THEN 0 ELSE None]
        /\ last = [t \in Threads |-> None]
        /\ threadQueue = [t \in Threads |-> << >>]
        /\ executeQueue = Range0(NumFibers)
        /\ pc = [f \in Fibers |-> IF f # 0 THEN "start"
                                 ELSE IF Children[Main] = << >> THEN "wait" ELSE "fork"]
        /\ stack = [f \in Fibers |-> <<IF f = 0 THEN Frame(Main, "wait") ELSE Frame(Run, "run")>>]
        /\ target = [f \in Fibers |-> None]
        /\ finishOn = [f \in Fibers |-> None]
        /\ highQueue = << >>
        /\ lowQueue = << >>
        /\ counterOf = [k \in Task |-> Unset]
        /\ counter = [p \in Programs |-> 0]
        /\ numTasks = 0
        /\ mutex = None
        /\ sleeping = {}
        /\ exitRequested = FALSE

\* Thread t runs fiber f, which is at l.
At(t, f, l) == f = running[t] /\ f # None /\ pc[f] = l
Goto(f, l)  == pc' = [pc EXCEPT ![f] = l]
SetTop(f, frame) == stack' = [stack EXCEPT ![f][Len(stack[f])] = frame]
-------------------------------------------------------------------------------
(* Fibers: which fiber each thread runs.                                   *)

\* Mistake: the fiber left behind is not forgotten, and queued again next time.
ResumeKeepsLast(t, f) ==
    /\ current' = [current EXCEPT ![t] = f]
    /\ executeQueue' = IF last[t] # None THEN Append(executeQueue, last[t]) ELSE executeQueue
    /\ UNCHANGED last

\* Mistake: the thread goes on believing it runs the fiber it left.
ResumeKeepsCurrent(t, f) ==
    /\ IF last[t] # None
       THEN /\ executeQueue' = Append(executeQueue, last[t])
            /\ last' = [last EXCEPT ![t] = None]
       ELSE UNCHANGED <<executeQueue, last>>
    /\ current' = [current EXCEPT ![t] = IF @ = None THEN f ELSE @]

\* Mistake: the fiber left behind is forgotten and never queued.
ResumeForgetsLast(t, f) ==
    /\ current' = [current EXCEPT ![t] = f]
    /\ last' = [last EXCEPT ![t] = None]
    /\ UNCHANGED executeQueue

\* ResumeThisFiber: the fiber this thread came from may be run by others now.
ResumeThisFiber(t, f) ==
    /\ current' = [current EXCEPT ![t] = f]
    /\ IF last[t] # None
       THEN /\ executeQueue' = Append(executeQueue, last[t])
            /\ last' = [last EXCEPT ![t] = None]
       ELSE UNCHANGED <<executeQueue, last>>

\* The first steps of Fiber::Run, on a worker thread or in a fresh fiber.
Start(t, f) == /\ At(t, f, "start")
               /\ ResumeThisFiber(t, f)
               /\ Goto(f, "run")
               /\ UNCHANGED <<running, threadQueue, target, finishOn, tasks, sync, stack,
                              exitRequested>>

\* NextFiber returns without having switched.
StayOn(f) == Goto(f, Top(f).at)

\* NextFiber's pop of m_threadQueue.
PopThreadQueue(t, f) ==
    /\ At(t, f, "nextFiber")
    /\ IF threadQueue[t] # << >>
       THEN /\ target' = [target EXCEPT ![f] = Head(threadQueue[t])]
            /\ threadQueue' = [threadQueue EXCEPT ![t] = Tail(@)]
            /\ Goto(f, "chosen")
       ELSE /\ Goto(f, "popExecute")
            /\ UNCHANGED <<target, threadQueue>>
    /\ UNCHANGED <<running, current, last, executeQueue, finishOn, tasks, sync, stack,
                   exitRequested>>

\* A pop of m_executeQueue: NextFiber makes a first one when its own queue is
\* empty, and a second one after it has handed a fiber to its owner.
PopExecuteQueue(t, f, here, there) ==
    /\ At(t, f, here)
    /\ IF executeQueue # << >>
       THEN /\ target' = [target EXCEPT ![f] = Head(executeQueue)]
            /\ executeQueue' = Tail(executeQueue)
            /\ Goto(f, there)
       ELSE /\ target' = [target EXCEPT ![f] = None]
            /\ StayOn(f)
            /\ UNCHANGED executeQueue
    /\ UNCHANGED <<running, current, last, threadQueue, finishOn, tasks, sync, stack,
                   exitRequested>>

PopExecute(t, f) == PopExecuteQueue(t, f, "popExecute", "chosen")
PopAgain(t, f)   == PopExecuteQueue(t, f, "popAgain", "switch")

Foreign(t, f) == Owner(target[f]) # None /\ Owner(target[f]) # t

\* A fiber that another thread owns goes to that thread's queue.
HandOver(t, f) ==
    /\ At(t, f, "chosen")
    /\ Foreign(t, f)
    /\ threadQueue' = [threadQueue EXCEPT ![Owner(target[f])] = Append(@, target[f])]
    /\ target' = [target EXCEPT ![f] = None]
    /\ Goto(f, "popAgain")
    /\ UNCHANGED <<running, current, last, executeQueue, finishOn, tasks, sync, stack,
                   exitRequested>>

\* Continue: the thread leaves f, whose call to NextFiber goes on wherever f
\* is run again.
Switch(t, f) == /\ \/ At(t, f, "chosen") /\ ~Foreign(t, f)
                   \/ At(t, f, "switch")
                /\ last' = [last EXCEPT ![t] = current[t]]
                /\ running' = [running EXCEPT ![t] = target[f]]
                /\ target' = [target EXCEPT ![f] = None]
                /\ Goto(f, "resume")
                /\ UNCHANGED <<current, threadQueue, executeQueue, finishOn, tasks, sync,
                               stack, exitRequested>>

Resume(t, f) == /\ At(t, f, "resume")
                /\ ResumeThisFiber(t, f)
                /\ StayOn(f)
                /\ UNCHANGED <<running, threadQueue, target, finishOn, tasks, sync, stack,
                               exitRequested>>
-------------------------------------------------------------------------------
(* Tasks: the loops of Fiber::Run and WaitForCounter, and what tasks do.   *)

\* Where the body of a task begins, and where it goes on after YieldFiber.
AfterYield(p) == IF Children[p] = << >> THEN "decRef" ELSE "fork"
Body(k)       == IF k \in Yielders THEN "yield" ELSE AfterYield(k)

\* The test of Fiber::Run's loop, and the entry of FinishFiber when it fails.
RunTest(t, f) == /\ At(t, f, "run")
                 /\ IF exitRequested
                    THEN /\ finishOn' = [finishOn EXCEPT ![f] = t]
                         /\ SetTop(f, Frame(Run, "finish"))
                         /\ Goto(f, "finish")
                    ELSE /\ Goto(f, "popHigh")
                         /\ UNCHANGED <<finishOn, stack>>
                 /\ UNCHANGED <<running, current, last, threadQueue, executeQueue, target,
                                tasks, sync, exitRequested>>

\* Mistake: the wait ends when one task is still to finish.
WaitTestOffByOne(t, f) ==
    /\ At(t, f, "wait")
    /\ Goto(f, IF counter[Top(f).task] > 1 THEN "popHigh"
               ELSE IF Top(f).task = Main THEN "purge" ELSE "decRef")
    /\ UNCHANGED <<sched, tasks, sync, stack, exitRequested>>

\* The test of WaitForCounter's loop; when it fails the waiting program goes on.
WaitTest(t, f) == /\ At(t, f, "wait")
                  /\ Goto(f, IF counter[Top(f).task] # 0 THEN "popHigh"
                             ELSE IF Top(f).task = Main THEN "purge" ELSE "decRef")
                  /\ UNCHANGED <<sched, tasks, sync, stack, exitRequested>>

\* PopTask, high priority first; the task starts at once, on top of the stack.
Execute(f, k) == /\ stack' = [stack EXCEPT ![f] = Append(@, Frame(k, "wait"))]
                 /\ Goto(f, Body(k))

PopHigh(t, f) == /\ At(t, f, "popHigh")
                 /\ IF highQueue # << >>
                    THEN /\ highQueue' = Tail(highQueue)
                         /\ Execute(f, Head(highQueue))
                    ELSE /\ Goto(f, "popLow")
                         /\ UNCHANGED <<highQueue, stack>>
                 /\ UNCHANGED <<sched, lowQueue, counterOf, counter, sync, exitRequested>>

PopLow(t, f) == /\ At(t, f, "popLow")
                /\ IF lowQueue # << >>
                   THEN /\ lowQueue' = Tail(lowQueue)
                        /\ Execute(f, Head(lowQueue))
                   ELSE /\ Goto(f, "testTasks")
                        /\ UNCHANGED <<lowQueue, stack>>
                /\ UNCHANGED <<sched, highQueue, counterOf, counter, sync, exitRequested>>

\* YieldFiber is NextFiber, after which the task goes on.
YieldFiber(t, f) == /\ At(t, f, "yield")
                    /\ SetTop(f, Frame(Top(f).task, AfterYield(Top(f).task)))
                    /\ Goto(f, "nextFiber")
                    /\ UNCHANGED <<sched, tasks, sync, exitRequested>>

\* Mistake: the counter is incremented once for the whole array.
RunTasksCountsOne(t, f) ==
    LET p == Top(f).task
    IN /\ At(t, f, "fork")
       /\ counter' = [counter EXCEPT ![p] = @ + 1]
       /\ counterOf' = [k \in Task |-> IF k \in Elems(Children[p]) THEN p ELSE counterOf[k]]
       /\ IF p \in Urgent
          THEN highQueue' = highQueue \o Children[p] /\ UNCHANGED lowQueue
          ELSE lowQueue' = lowQueue \o Children[p] /\ UNCHANGED highQueue
       /\ SetTop(f, Frame(p, "wait"))
       /\ Goto(f, "addTest")
       /\ UNCHANGED <<sched, sync, exitRequested>>

\* RunTasks up to the push: the counter counts the tasks before anyone can pop
\* one.  WaitForCounter follows it in every program.
RunTasks(t, f) ==
    LET p == Top(f).task
    IN /\ At(t, f, "fork")
       /\ counter' = [counter EXCEPT ![p] = @ + Len(Children[p])]
       /\ counterOf' = [k \in Task |-> IF k \in Elems(Children[p]) THEN p ELSE counterOf[k]]
       /\ IF p \in Urgent
          THEN /\ highQueue' = highQueue \o Children[p]
               /\ UNCHANGED lowQueue
          ELSE /\ lowQueue' = lowQueue \o Children[p]
               /\ UNCHANGED highQueue
       /\ SetTop(f, Frame(p, "wait"))
       /\ Goto(f, "addTest")
       /\ UNCHANGED <<sched, sync, exitRequested>>

\* The end of Task::Execute: the task counts as finished.
DecRef(t, f) == /\ At(t, f, "decRef")
                /\ counter' = [counter EXCEPT ![counterOf[Top(f).task]] = @ - 1]
                /\ Goto(f, "doneTest")
                /\ UNCHANGED <<sched, highQueue, lowQueue, counterOf, sync, stack,
                               exitRequested>>
-------------------------------------------------------------------------------
(* Sleeping and waking: m_numTasks, m_hasTasksMutex, m_hasTasksCondition.  *)

NotifyAll == sleeping' = {}

\* How many tasks a call of NotifyWorkerThreadsOfTasks announces: Cleanup
\* announces one per worker thread, so that none sleeps again.
Announced(f) == IF Top(f).task = Main /\ exitRequested THEN NumThreads - 1
                ELSE Len(Children[Top(f).task])
AfterAdd(f)  == IF Top(f).task = Main /\ exitRequested THEN "join" ELSE "wait"

\* NotifyWorkerThreadsOfTasks: the load that decides whether to lock and notify.
AddTest(t, f) == /\ At(t, f, "addTest")
                 /\ Goto(f, IF numTasks = 0 THEN "addLocked" ELSE "addBare")
                 /\ UNCHANGED <<sched, tasks, sync, stack, exitRequested>>

\* Mistake: an array of tasks is announced as one task.
AddLockedOne(t, f) == /\ At(t, f, "addLocked")
                      /\ mutex = None
                      /\ numTasks' = numTasks + 1
                      /\ Goto(f, "addNotify")
                      /\ UNCHANGED <<sched, tasks, mutex, sleeping, stack, exitRequested>>

AddLocked(t, f) == /\ At(t, f, "addLocked")
                   /\ mutex = None
                   /\ numTasks' = numTasks + Announced(f)
                   /\ Goto(f, "addNotify")
                   /\ UNCHANGED <<sched, tasks, mutex, sleeping, stack, exitRequested>>

AddNotify(t, f) == /\ At(t, f, "addNotify")
                   /\ NotifyAll
                   /\ Goto(f, AfterAdd(f))
                   /\ UNCHANGED <<sched, tasks, numTasks, mutex, stack, exitRequested>>

AddBare(t, f) == /\ At(t, f, "addBare")
                 /\ numTasks' = numTasks + Announced(f)
                 /\ Goto(f, AfterAdd(f))
                 /\ UNCHANGED <<sched, tasks, mutex, sleeping, stack, exitRequested>>

\* NotifyTaskComplete: the same three accesses, but always a notify.
DoneTest(t, f) == /\ At(t, f, "doneTest")
                  /\ Goto(f, IF numTasks = 1 THEN "doneLocked" ELSE "doneBare")
                  /\ UNCHANGED <<sched, tasks, sync, stack, exitRequested>>

DoneSub(t, f) == /\ \/ At(t, f, "doneLocked") /\ mutex = None
                    \/ At(t, f, "doneBare")
                 /\ numTasks' = numTasks - 1
                 /\ Goto(f, "doneNotify")
                 /\ UNCHANGED <<sched, tasks, mutex, sleeping, stack, exitRequested>>

\* The notify, and the return to the loop that executed the task.
DoneNotify(t, f) == /\ At(t, f, "doneNotify")
                    /\ NotifyAll
                    /\ stack' = [stack EXCEPT ![f] = SubSeq(@, 1, Len(@) - 1)]
                    /\ Goto(f, stack[f][Len(stack[f]) - 1].at)
                    /\ UNCHANGED <<sched, tasks, numTasks, mutex, exitRequested>>

\* Mistake: the main thread sleeps like the workers.
TestTasksOfMain(t, f) == /\ At(t, f, "testTasks")
                         /\ Goto(f, IF numTasks # 0 THEN "nextFiber" ELSE "predicate")
                         /\ UNCHANGED <<sched, tasks, sync, stack, exitRequested>>

\* WaitForTasks: thread 0 never sleeps, the others only when there are no tasks.
\* WaitForFiber, which follows, never sleeps while no fiber waits for a service.
TestTasks(t, f) == /\ At(t, f, "testTasks")
                   /\ Goto(f, IF t = 0 \/ numTasks # 0 THEN "nextFiber" ELSE "predicate")
                   /\ UNCHANGED <<sched, tasks, sync, stack, exitRequested>>

\* The predicate of the wait, under the mutex; it is tested again after a wakeup.
Predicate(t, f) == /\ At(t, f, "predicate")
                   /\ t \notin sleeping
                   /\ mutex = None
                   /\ IF numTasks # 0
                      THEN /\ Goto(f, "nextFiber")
                           /\ UNCHANGED mutex
                      ELSE /\ Goto(f, "sleep")
                           /\ mutex' = t
                   /\ UNCHANGED <<sched, tasks, numTasks, sleeping, stack, exitRequested>>

\* The wait proper: the mutex is released and the thread sleeps, in one step.
Sleep(t, f) == /\ At(t, f, "sleep")
               /\ mutex' = None
               /\ sleeping' = sleeping \cup {t}
               /\ Goto(f, "predicate")
               /\ UNCHANGED <<sched, tasks, numTasks, stack, exitRequested>>
-------------------------------------------------------------------------------
(* Purge.                                                                  *)

\* Cleanup sets the flag, then calls NotifyWorkerThreadsOfTasks.
Purge(t, f) == /\ At(t, f, "purge")
               /\ exitRequested' = TRUE
               /\ Goto(f, "addTest")
               /\ UNCHANGED <<sched, tasks, sync, stack>>

Join(t, f) == /\ At(t, f, "join")
              /\ \A u \in Workers : running[u] = None
              /\ Goto(f, "done")
              /\ UNCHANGED <<sched, tasks, sync, stack, exitRequested>>

\* FinishFiber looks for a fiber owned by its thread: it reads the current fiber
\* of the thread it was called on and compares it with the thread it is on now.
FinishTest(t, f) == /\ At(t, f, "finish")
                    /\ LET owner == Owner(current[finishOn[f]])
                       IN Goto(f, IF owner = None \/ owner # t THEN "nextFiber" ELSE "exit")
                    /\ UNCHANGED <<sched, tasks, sync, stack, exitRequested>>

\* Run has returned: the thread ends with the fiber it is on.
Exit(t, f) == /\ At(t, f, "exit")
              /\ running' = [running EXCEPT ![t] = None]
              /\ Goto(f, "done")
              /\ UNCHANGED <<current, last, threadQueue, executeQueue, target, finishOn,
                             tasks, sync, stack, exitRequested>>

\* Purge has returned and the program is over.
Finished == pc[0] = "done" /\ UNCHANGED vars

Step(t) == LET f == running[t] IN
    \/ Start(t, f) \/ PopThreadQueue(t, f) \/ PopExecute(t, f) \/ HandOver(t, f)
    \/ PopAgain(t, f) \/ Switch(t, f) \/ Resume(t, f)
    \/ RunTest(t, f) \/ WaitTest(t, f) \/ PopHigh(t, f) \/ PopLow(t, f)
    \/ YieldFiber(t, f) \/ RunTasks(t, f) \/ DecRef(t, f)
    \/ AddTest(t, f) \/ AddLocked(t, f) \/ AddNotify(t, f) \/ AddBare(t, f)
    \/ DoneTest(t, f) \/ DoneSub(t, f) \/ DoneNotify(t, f)
    \/ TestTasks(t, f) \/ Predicate(t, f) \/ Sleep(t, f)
    \/ Purge(t, f) \/ Join(t, f) \/ FinishTest(t, f) \/ Exit(t, f)

Next == (\E t \in Threads : Step(t)) \/ Finished

Spec == Init /\ [][Next]_vars

\* The operating system runs every thread.
FairSpec == Spec /\ \A t \in Threads : WF_vars(Step(t))
-------------------------------------------------------------------------------
Location == {"start", "run", "nextFiber", "popExecute", "chosen", "popAgain", "switch",
             "resume", "wait", "popHigh", "popLow", "yield", "fork", "decRef",
             "addTest", "addLocked", "addBare", "addNotify",
             "doneTest", "doneLocked", "doneBare", "doneNotify",
             "testTasks", "predicate", "sleep",
             "purge", "join", "finish", "exit", "done"}

Frames == [task : Programs \cup {Run}, at : {"run", "wait", "fork", "decRef", "finish"}]

TypeOK == /\ running \in [Threads -> Fibers \cup {None}]
          /\ current \in [Threads -> Fibers \cup {None}]
          /\ last \in [Threads -> Fibers \cup {None}]
          /\ threadQueue \in [Threads -> Seq(Fibers)]
          /\ executeQueue \in Seq(Fibers)
          /\ pc \in [Fibers -> Location]
          /\ stack \in [Fibers -> Seq(Frames)]
          /\ target \in [Fibers -> Fibers \cup {None}]
          /\ finishOn \in [Fibers -> Threads \cup {None}]
          /\ highQueue \in Seq(Task) /\ lowQueue \in Seq(Task)
          /\ counterOf \in [Task -> Programs \cup {Unset}]
          /\ counter \in [Programs -> Int]
          /\ numTasks \in Int
          /\ mutex \in Threads \cup {None}
          /\ sleeping \subseteq Workers
          /\ exitRequested \in BOOLEAN

\* Where a fiber can be found.
Places(f) == {<<"running", t>> : t \in {u \in Threads : running[u] = f}}
        \cup {<<"last", t>>    : t \in {u \in Threads : last[u] = f}}
        \cup {<<"target", g>>  : g \in {h \in Fibers : target[h] = f}}
        \cup {<<"execute", i>> : i \in {j \in DOMAIN executeQueue : executeQueue[j] = f}}
        \cup UNION {{<<"thread", t, i>> : i \in {j \in DOMAIN threadQueue[t] :
                                                   threadQueue[t][j] = f}} : t \in Threads}

\* A fiber's stack is used by one thread at a time: a fiber is run by one
\* thread, or waits in one queue, or is being switched to or from by one
\* thread, and never two of these; only a fiber whose thread has ended is
\* nowhere.
FiberInOnePlace == \A f \in Fibers :
    /\ \A p, q \in Places(f) : p = q
    /\ Places(f) = {} => pc[f] = "done" /\ f # 0

\* m_currentFiber is the fiber that runs, except between a switch and
\* ResumeThisFiber: NextFiber's assertions hold, and it never re-queues a fiber
\* other than the one it leaves.
CurrentFiberRuns == \A t \in Threads : LET f == running[t] IN
    f # None /\ pc[f] \notin {"start", "resume"} => /\ current[t] = f
                                                    /\ last[t] = None
                                                    /\ target[f] # f

Finishing == {"doneTest", "doneLocked", "doneBare", "doneNotify"}

\* The state of a task as its program sees it.
Queued(k)  == k \in Elems(highQueue) \cup Elems(lowQueue)
OnStack(k) == \E f \in Fibers : \E i \in 2..Len(stack[f]) :
                 /\ stack[f][i].task = k
                 /\ ~(i = Len(stack[f]) /\ pc[f] \in Finishing)
TaskState  == [k \in Task |-> IF Queued(k) THEN "queued"
                              ELSE IF OnStack(k) THEN "running"
                              ELSE IF counterOf[k] = Unset THEN "new" ELSE "done"]

\* A counter is the number of its tasks that have not finished: it never drops
\* below zero, and reads zero exactly when all are done.
CounterCountsTasks == \A p \in Programs :
    counter[p] = Cardinality({k \in Task : /\ counterOf[k] = p
                                           /\ TaskState[k] # "done"})

\* m_numTasks, once the announcements that are still on their way are added,
\* is the number of tasks queued or executing, plus Cleanup's one per worker.
\* So it goes below zero (wraps) only while a RunTasks is between its push and
\* its add, and a worker that reads zero then really has nothing to do.
Adding      == {"addTest", "addLocked", "addBare"}
Unannounced == {k \in Task : \E f \in Fibers : /\ pc[f] \in Adding
                                             /\ ~(Top(f).task = Main /\ exitRequested)
                                             /\ k \in Elems(Children[Top(f).task])}
Begun(k)    == \E f \in Fibers : \E i \in 2..Len(stack[f]) :
                  /\ stack[f][i].task = k
                  /\ ~(i = Len(stack[f]) /\ pc[f] = "doneNotify")
Unfinished  == {k \in Task : Queued(k) \/ Begun(k)}
NumTasksCounts ==
    numTasks + Cardinality(Unannounced)
      = Cardinality(Unfinished)
        + (IF exitRequested /\ pc[0] \notin Adding THEN NumThreads - 1 ELSE 0)
-------------------------------------------------------------------------------
(* The inductive invariant.                                                *)

\* Where fibers are: run by a thread, left by one, about to be switched to,
\* in m_executeQueue, or handed to their owner's m_threadQueue.
Ran    == {running[t] : t \in Threads} \ {None}
Left   == {last[t] : t \in Threads} \ {None}
Aimed  == {target[f] : f \in Fibers} \ {None}
Ready  == Elems(executeQueue)
Handed == UNION {Elems(threadQueue[t]) : t \in Threads}

\* FiberInOnePlace, place by place.
FibersApart ==
    /\ \A t, u \in Threads : running[t] = running[u] /\ running[t] # None => t = u
    /\ \A t, u \in Threads : last[t] = last[u] /\ last[t] # None => t = u
    /\ \A f, g \in Fibers : target[f] = target[g] /\ target[f] # None => f = g
    /\ NoRepeats(executeQueue)
    /\ \A t \in Threads : NoRepeats(threadQueue[t])
    /\ \A t, u \in Threads : t # u => Elems(threadQueue[t]) \cap Elems(threadQueue[u]) = {}
    /\ Ran \cap (Left \cup Aimed \cup Ready \cup Handed) = {}
    /\ Left \cap (Aimed \cup Ready \cup Handed) = {}
    /\ Aimed \cap (Ready \cup Handed) = {}
    /\ Ready \cap Handed = {}

\* A fiber that no thread runs is at its start or inside Continue; only one
\* whose thread has ended is nowhere.
Parked == /\ \A f \in Left \cup Aimed \cup Ready \cup Handed : pc[f] \in {"start", "resume"}
          /\ \A f \in Fibers \ (Ran \cup Left \cup Aimed \cup Ready \cup Handed) :
               pc[f] = "done" /\ f # 0

\* What a thread's data say of the fiber it runs.  Thread 0 never sleeps.
Running == /\ CurrentFiberRuns
           /\ \A t \in Threads : running[t] = None => last[t] = None
           /\ \A f \in Fibers : target[f] # None <=> pc[f] \in {"chosen", "switch"}
           /\ \A f \in Fibers : pc[f] \in {"predicate", "sleep"} => running[0] # f

\* A stack is Run's or main's frame, and one for every task begun on it; only
\* the innermost frame is anywhere but in a loop.
FrameFits(frame) ==
    \/ frame.task = Run /\ frame.at \in {"run", "finish"}
    \/ frame.task = Main /\ frame.at = "wait"
    \/ frame.task \in Task /\ frame.at \in {"wait", "fork"}
    \/ frame.task \in Task /\ frame.at = "decRef" /\ Children[frame.task] = << >>
Stacked == \A f \in Fibers :
    /\ stack[f] # << >>
    /\ stack[f][1].task = IF f = 0 THEN Main ELSE Run
    /\ \A i \in 2..Len(stack[f]) : stack[f][i].task \in Task
    /\ \A i \in 1..Len(stack[f]) : FrameFits(stack[f][i])
    /\ \A i \in 1..(Len(stack[f]) - 1) : stack[f][i].at \in {"run", "wait"}

\* The location of a fiber is one of the code its innermost frame is in.
Fits(l, top) ==
    /\ l \in {"start", "run"} => top.at = "run"
    /\ l \in {"finish", "exit"} => top.at = "finish"
    /\ l \in {"popHigh", "popLow", "testTasks", "predicate", "sleep"} => top.at \in {"run", "wait"}
    /\ l \in {"wait", "addTest", "addLocked", "addBare", "addNotify"} => top.at = "wait"
    /\ l = "fork" => top.at \in {"wait", "fork"}
    /\ l = "yield" => top.at = "wait"
    /\ l \in {"yield", "decRef"} \cup Finishing => top.task \in Task /\ top.at # "fork"
    /\ l \in {"purge", "join"} => top.task = Main
Placed == \A f \in Fibers : Fits(pc[f], Top(f))

\* A task is in one place: queued once, or in one frame, or in neither.
TasksApart ==
    /\ NoRepeats(highQueue) /\ NoRepeats(lowQueue)
    /\ Elems(highQueue) \cap Elems(lowQueue) = {}
    /\ \A f, g \in Fibers : \A i \in 2..Len(stack[f]), j \in 2..Len(stack[g]) :
         stack[f][i].task = stack[g][j].task => f = g /\ i = j
    /\ \A f \in Fibers : \A i \in 2..Len(stack[f]) :
         ~Queued(stack[f][i].task) /\ counterOf[stack[f][i].task] # Unset
    /\ \A k \in Task : Queued(k) => counterOf[k] # Unset

\* A program hands out its tasks once: they are new as long as it has not.
YetToFork(p) == \/ p \in Task /\ (counterOf[p] = Unset \/ Queued(p))
                \/ \E f \in Fibers : /\ Top(f).task = p
                                     /\ pc[f] \in {"fork", "yield"} \/ Top(f).at = "fork"
ForkedOnce ==
    /\ \A p \in Programs : \A k \in Elems(Children[p]) :
         counterOf[k] = IF YetToFork(p) THEN Unset ELSE p
    /\ \A k \in Task : counterOf[k] # Unset => k \in Elems(Children[counterOf[k]])

\* A program that goes on behind its wait has no unfinished tasks.
Awaited == \A f \in Fibers : pc[f] \in {"decRef", "purge"} =>
              \A k \in Elems(Children[Top(f).task]) : TaskState[k] = "done"

\* Purge is called on main's fiber, outside all tasks, and never returns to them.
Purging == exitRequested => /\ pc[0] \in Adding \cup {"addNotify", "join", "done"}
                            /\ Len(stack[0]) = 1

FiberInv == FibersApart /\ Parked /\ Running
TaskInv  == /\ Stacked /\ Placed /\ TasksApart /\ ForkedOnce /\ Awaited /\ Purging
            /\ CounterCountsTasks /\ NumTasksCounts
IInv     == TypeOK /\ FiberInv /\ TaskInv
-------------------------------------------------------------------------------
\* Whatever fibers and threads do, tasks are executed once each, and a wait ends
\* only when the tasks waited for have finished: TaskPool.
Pool == INSTANCE TaskPool WITH state <- TaskState, returned <- exitRequested,
                               SpawnedBy <- [p \in Programs |-> Elems(Children[p])]
ImplementsTaskPool == Pool!Spec

\* Every task that was handed to RunTasks finishes, although threads sleep, and
\* fibers wait on top of one another and change threads.
TasksFinish == \A k \in Task : counterOf[k] # Unset ~> TaskState[k] = "done"

\* Main's wait for its tasks returns.
MainWaitReturns == <>exitRequested

\* Purge is never stuck in join: while a worker sleeps, some other worker is
\* still awake that may wake it.
JoinNotStuck == pc[0] = "join" =>
    \/ \A t \in Workers : t \notin sleeping
    \/ \E t \in Workers : running[t] # None /\ t \notin sleeping
-------------------------------------------------------------------------------
\* Programs to check.  The tree is the smallest one in which a task waits inside
\* a task, a task changes threads in the middle, and both queues are used; the
\* chain and the single task are what a stuck wait needs.

\* Two tasks of main's: "a" forks "c" and waits, "b" yields; "c" is urgent.
TreeTasks    == {"a", "b", "c"}
TreeChildren == [p \in TreeTasks \cup {"main"} |->
                   CASE p = "main" -> <<"a", "b">>
                     [] p = "a"    -> <<"c">>
                     [] OTHER      -> << >>]
TreeUrgent   == {"a"}
TreeYielders == {"b"}

\* One task of main's, alone or forking another; none is urgent or yields.
OneTasks      == {"a"}
OneChildren   == [p \in OneTasks \cup {"main"} |-> IF p = "main" THEN <<"a">> ELSE << >>]
ChainTasks    == {"a", "c"}
ChainChildren == [p \in ChainTasks \cup {"main"} |->
                    CASE p = "main" -> <<"a">> [] p = "a" -> <<"c">> [] OTHER -> << >>]
NoPrograms    == {}
===============================================================================
