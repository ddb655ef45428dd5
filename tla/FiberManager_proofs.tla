-------------------------- MODULE FiberManager_proofs --------------------------
(***************************************************************************)
(* Proofs about FiberManager for any number of threads and fibers, and any *)
(* finite forest of tasks, urgent and yielding ones included.              *)
(***************************************************************************)
EXTENDS FiberManager, SequenceLemmas

LEMMA NumberFacts ==
  /\ 0 \in Threads /\ 0 \in Fibers /\ Threads \subseteq Fibers
  /\ Fibers \subseteq Nat /\ None \notin Fibers /\ None \notin Threads
  /\ Workers = Threads \ {0}
BY CountAssumption DEF Threads, Fibers, None, Workers

LEMMA OwnerFacts ==
  ASSUME NEW g \in Fibers
  PROVE  Owner(g) \in Threads \cup {None} /\ (Owner(g) # None => Owner(g) = g)
BY DEF Owner

LEMMA ElemsFacts ==
  ASSUME NEW S, NEW s \in Seq(S)
  PROVE  /\ Elems(s) \subseteq S
         /\ \A e \in S : /\ Append(s, e) \in Seq(S)
                         /\ Elems(Append(s, e)) = Elems(s) \cup {e}
         /\ s # << >> => /\ Tail(s) \in Seq(S) /\ Head(s) \in S
                         /\ Elems(s) = Elems(Tail(s)) \cup {Head(s)}
<1>1. Elems(s) \subseteq S
  BY LenProperties DEF Elems
<1>2. ASSUME NEW e \in S
      PROVE  /\ Append(s, e) \in Seq(S)
             /\ Elems(Append(s, e)) = Elems(s) \cup {e}
  BY AppendFacts, ElementsAppend DEF Elems
<1>3. ASSUME s # << >>
      PROVE  /\ Tail(s) \in Seq(S) /\ Head(s) \in S
             /\ Elems(s) = Elems(Tail(s)) \cup {Head(s)}
  BY ZenonT(40), <1>3, ShortenFacts, ElementsShorten DEF Elems
<1> QED
  BY <1>1, <1>2, <1>3

LEMMA NoRepeatsFacts ==
  ASSUME NEW S, NEW s \in Seq(S), NoRepeats(s)
  PROVE  /\ \A e \in S : e \notin Elems(s) => NoRepeats(Append(s, e))
         /\ s # << >> => /\ NoRepeats(Tail(s)) /\ Head(s) \notin Elems(Tail(s))
                         /\ Elems(Tail(s)) = Elems(s) \ {Head(s)}
<1>1. ASSUME NEW e \in S, e \notin Elems(s)
      PROVE  NoRepeats(Append(s, e))
  <2>1. \A i \in DOMAIN s : s[i] # e
    BY <1>1 DEF Elems
  <2> QED
    BY <2>1, DistinctAppend DEF NoRepeats
<1>2. ASSUME s # << >>
      PROVE  /\ NoRepeats(Tail(s)) /\ Head(s) \notin Elems(Tail(s))
             /\ Elems(Tail(s)) = Elems(s) \ {Head(s)}
  <2>1. /\ \A i, j \in DOMAIN Tail(s) : Tail(s)[i] = Tail(s)[j] => i = j
        /\ \A i \in DOMAIN Tail(s) : Tail(s)[i] # s[1]
    BY <1>2, DistinctShorten DEF NoRepeats
  <2>2. NoRepeats(Tail(s)) /\ Head(s) \notin Elems(Tail(s))
    BY <1>2, <2>1, ShortenFacts DEF NoRepeats, Elems
  <2> QED
    BY <1>2, <2>2, ElemsFacts
<1> QED
  BY <1>1, <1>2

LEMMA EmptyElems == Elems(<< >>) = {} /\ NoRepeats(<< >>)
BY EmptySeq, LenProperties DEF Elems, NoRepeats
-------------------------------------------------------------------------------
(* Where fibers are.                                                       *)

LEMMA PlaceFacts ==
  ASSUME TypeOK
  PROVE  /\ Ran \subseteq Fibers /\ Left \subseteq Fibers /\ Aimed \subseteq Fibers
         /\ Ready \subseteq Fibers /\ Handed \subseteq Fibers
<1>1. Ready \subseteq Fibers
  BY ElemsFacts DEF TypeOK, Ready
<1>2. \A t \in Threads : Elems(threadQueue[t]) \subseteq Fibers
  BY ElemsFacts DEF TypeOK
<1> QED
  BY <1>1, <1>2 DEF TypeOK, Ran, Left, Aimed, Handed

\* A fiber that a thread runs is the only one that moves, and stays where it is.
LEMMA FibersStay ==
  ASSUME TypeOK, FiberInv, NEW t \in Threads, NEW f \in Fibers, running[t] = f,
         pc[f] \notin {"start", "resume", "chosen", "switch"},
         pc'[f] \notin {"start", "resume", "chosen", "switch"},
         pc'[f] \in {"predicate", "sleep"} => t # 0,
         \A g \in Fibers : g # f => pc'[g] = pc[g],
         UNCHANGED <<running, current, last, threadQueue, executeQueue, target>>
  PROVE  FiberInv'
<1> USE DEF FiberInv
<1>1. Ran' = Ran /\ Left' = Left /\ Aimed' = Aimed /\ Ready' = Ready /\ Handed' = Handed
  BY DEF Ran, Left, Aimed, Ready, Handed
<1>2. FibersApart'
  BY <1>1 DEF FibersApart
<1>3. f \in Ran
  BY NumberFacts DEF Ran
<1>4. Parked'
  <2>1. \A g \in Left \cup Aimed \cup Ready \cup Handed : g # f /\ g \in Fibers
    BY <1>3, PlaceFacts DEF FibersApart
  <2> QED
    BY <1>1, <1>3, <2>1 DEF Parked
<1>5. Running'
  <2>1. \A u \in Threads : u # t => running[u] # f
    BY NumberFacts DEF FibersApart
  <2>2. \A u \in Threads : running[u] # None => running[u] \in Fibers
    BY DEF TypeOK
  <2>3. CurrentFiberRuns'
    BY <2>1, <2>2 DEF Running, CurrentFiberRuns
  <2>4. \A g \in Fibers : target'[g] # None <=> pc'[g] \in {"chosen", "switch"}
    BY DEF Running
  <2>5. \A g \in Fibers : pc'[g] \in {"predicate", "sleep"} => running'[0] # g
    BY <2>1, NumberFacts DEF Running
  <2> QED
    BY <2>3, <2>4, <2>5 DEF Running
<1> QED
  BY <1>2, <1>4, <1>5

\* What CurrentFiberRuns and the rest say of the thread that moves.
LEMMA RunnerFacts ==
  ASSUME TypeOK, FiberInv, NEW t \in Threads, NEW f \in Fibers, running[t] = f
  PROVE  /\ f \in Ran /\ f \notin Left \cup Aimed \cup Ready \cup Handed
         /\ pc[f] \notin {"start", "resume"} => current[t] = f /\ last[t] = None
         /\ target[f] # None <=> pc[f] \in {"chosen", "switch"}
         /\ \A u \in Threads : u # t => running[u] # f
<1>1. f \in Ran
  BY NumberFacts DEF Ran
<1>2. f \notin Left \cup Aimed \cup Ready \cup Handed
  BY <1>1 DEF FiberInv, FibersApart
<1>3. f # None
  BY NumberFacts
<1>4. pc[f] \notin {"start", "resume"} => current[t] = f /\ last[t] = None
  BY <1>3 DEF FiberInv, Running, CurrentFiberRuns
<1>5. target[f] # None <=> pc[f] \in {"chosen", "switch"}
  BY DEF FiberInv, Running
<1>6. \A u \in Threads : u # t => running[u] # f
  BY <1>3 DEF FiberInv, FibersApart
<1> QED
  BY <1>1, <1>2, <1>4, <1>5, <1>6

\* NextFiber pops a fiber from one of its queues.
LEMMA AimPreserves ==
  ASSUME TypeOK, FiberInv, NEW t \in Threads, NEW f \in Fibers, running[t] = f,
         pc[f] \in {"nextFiber", "popExecute", "popAgain"}, pc'[f] \in {"chosen", "switch"},
         \A g \in Fibers : g # f => pc'[g] = pc[g],
         UNCHANGED <<running, current, last>>,
         NEW h \in Ready \cup Handed, target' = [target EXCEPT ![f] = h],
         Ready' \subseteq Ready, Handed' \subseteq Handed,
         Ready' \cup Handed' = (Ready \cup Handed) \ {h},
         NoRepeats(executeQueue'), \A u \in Threads : NoRepeats(threadQueue'[u]),
         \A u, v \in Threads : u # v => Elems(threadQueue'[u]) \cap Elems(threadQueue'[v]) = {}
  PROVE  FiberInv'
<1> USE DEF FiberInv
<1>0. h \in Fibers /\ h # None
  BY PlaceFacts, NumberFacts
<1>1. target'[f] = h /\ target[f] = None /\ \A g \in Fibers : g # f => target'[g] = target[g]
  <2>1. target[f] = None
    BY RunnerFacts
  <2>2. target'[f] = h /\ \A g \in Fibers : g # f => target'[g] = target[g]
    BY DEF TypeOK
  <2> QED
    BY <2>1, <2>2
<1>2. Ran' = Ran /\ Left' = Left /\ Aimed' = Aimed \cup {h}
  <2>1. Ran' = Ran /\ Left' = Left
    BY DEF Ran, Left
  <2>2. Aimed' = Aimed \cup {h}
    BY <1>0, <1>1 DEF Aimed
  <2> QED
    BY <2>1, <2>2
<1>3. h \notin Aimed /\ h \notin Ran /\ h \notin Left /\ f \in Ran /\ f # h
  BY RunnerFacts DEF FibersApart
<1>4. FibersApart'
  <2>1. \A u, v \in Threads : running'[u] = running'[v] /\ running'[u] # None => u = v
    BY DEF FibersApart
  <2>2. \A u, v \in Threads : last'[u] = last'[v] /\ last'[u] # None => u = v
    BY DEF FibersApart
  <2>3. \A x, y \in Fibers : target'[x] = target'[y] /\ target'[x] # None => x = y
    <3>1. \A x \in Fibers : target[x] # h
      BY <1>0, <1>3 DEF Aimed
    <3> QED
      BY <1>1, <3>1 DEF FibersApart
  <2>4. /\ Ran' \cap (Left' \cup Aimed' \cup Ready' \cup Handed') = {}
        /\ Left' \cap (Aimed' \cup Ready' \cup Handed') = {}
        /\ Aimed' \cap (Ready' \cup Handed') = {} /\ Ready' \cap Handed' = {}
    BY <1>2, <1>3 DEF FibersApart
  <2> QED
    BY <2>1, <2>2, <2>3, <2>4 DEF FibersApart
<1>5. Parked'
  <2>1. \A g \in Left \cup Aimed \cup Ready \cup Handed : g # f /\ g \in Fibers
    BY RunnerFacts, PlaceFacts
  <2>2. Left' \cup Aimed' \cup Ready' \cup Handed' = Left \cup Aimed \cup Ready \cup Handed
    BY <1>2
  <2>3. \A g \in Left \cup Aimed \cup Ready \cup Handed : pc'[g] \in {"start", "resume"}
    BY <2>1 DEF Parked
  <2>4. \A g \in Fibers \ (Ran \cup Left \cup Aimed \cup Ready \cup Handed) : pc'[g] = "done" /\ g # 0
    BY <1>3 DEF Parked
  <2> QED
    BY <1>2, <2>2, <2>3, <2>4 DEF Parked
<1>6. Running'
  <2>1. CurrentFiberRuns'
    <3>1. \A u \in Threads : u # t => running[u] # f
      BY RunnerFacts
    <3>2. current[t] = f /\ last[t] = None
      BY RunnerFacts
    <3>3. \A u \in Threads : running[u] # None => running[u] \in Fibers
      BY DEF TypeOK
    <3> QED
      BY <1>1, <1>3, <3>1, <3>2, <3>3 DEF Running, CurrentFiberRuns
  <2>2. \A g \in Fibers : target'[g] # None <=> pc'[g] \in {"chosen", "switch"}
    BY <1>0, <1>1 DEF Running
  <2>3. \A g \in Fibers : pc'[g] \in {"predicate", "sleep"} => running'[0] # g
    BY DEF Running
  <2> QED
    BY <2>1, <2>2, <2>3 DEF Running
<1> QED
  BY <1>4, <1>5, <1>6

\* A fiber that another thread owns goes to that thread's queue.
LEMMA HandOverPreserves ==
  ASSUME TypeOK, FiberInv, NEW t \in Threads, NEW f \in Fibers, HandOver(t, f)
  PROVE  FiberInv'
<1> USE DEF FiberInv
<1> DEFINE g == target[f]
<1>0. /\ running[t] = f /\ pc[f] = "chosen" /\ g \in Threads /\ g \in Fibers /\ g # None
      /\ threadQueue' = [threadQueue EXCEPT ![g] = Append(@, g)]
      /\ target' = [target EXCEPT ![f] = None] /\ pc' = [pc EXCEPT ![f] = "popAgain"]
      /\ UNCHANGED <<running, current, last, executeQueue>>
  <2>1. /\ running[t] = f /\ pc[f] = "chosen" /\ Foreign(t, f)
        /\ UNCHANGED <<running, current, last, executeQueue>>
        /\ threadQueue' = [threadQueue EXCEPT ![Owner(g)] = Append(@, g)]
        /\ target' = [target EXCEPT ![f] = None] /\ pc' = [pc EXCEPT ![f] = "popAgain"]
    BY DEF HandOver, At, Goto
  <2>2. g # None /\ g \in Fibers
    BY <2>1, RunnerFacts DEF TypeOK
  <2>3. Owner(g) = g /\ g \in Threads
    BY <2>1, <2>2, OwnerFacts DEF Foreign
  <2> QED
    BY <2>1, <2>2, <2>3
<1> HIDE DEF g
<1>1. /\ target'[f] = None /\ target[f] = g /\ \A x \in Fibers : x # f => target'[x] = target[x]
      /\ pc'[f] = "popAgain" /\ \A x \in Fibers : x # f => pc'[x] = pc[x]
  BY <1>0 DEF TypeOK, g
<1>2. /\ g \in Aimed /\ g \notin Ran \cup Left \cup Ready \cup Handed /\ f \in Ran /\ f # g
      /\ \A x \in Fibers : x # f => target[x] # g
  <2>1. f \in Ran
    BY <1>0, RunnerFacts
  <2>2. g \in Aimed
    BY <1>0, <1>1 DEF Aimed
  <2>3. g \notin Ran \cup Left \cup Ready \cup Handed
    BY <2>2 DEF FibersApart
  <2>4. \A x \in Fibers : x # f => target[x] # g
    BY <1>0, <1>1 DEF FibersApart
  <2> QED
    BY <2>1, <2>2, <2>3, <2>4
<1>3. /\ threadQueue'[g] = Append(threadQueue[g], g)
      /\ \A u \in Threads : u # g => threadQueue'[u] = threadQueue[u]
  BY <1>0 DEF TypeOK
<1>4. /\ Elems(threadQueue'[g]) = Elems(threadQueue[g]) \cup {g}
      /\ \A u \in Threads : g \notin Elems(threadQueue[u])
      /\ NoRepeats(threadQueue'[g])
  <2>1. threadQueue[g] \in Seq(Fibers) /\ NoRepeats(threadQueue[g])
    BY <1>0 DEF TypeOK, FibersApart
  <2>2. \A u \in Threads : g \notin Elems(threadQueue[u])
    BY <1>2 DEF Handed
  <2> QED
    BY <1>0, <1>3, <2>1, <2>2, ElemsFacts, NoRepeatsFacts
<1>5. Ran' = Ran /\ Left' = Left /\ Ready' = Ready
  BY <1>0 DEF Ran, Left, Ready
<1>6. Aimed' = Aimed \ {g}
  BY <1>1, <1>2 DEF Aimed
<1>7. Handed' = Handed \cup {g}
  BY <1>0, <1>3, <1>4 DEF Handed
<1>8. FibersApart'
  <2>1. \A x, y \in Fibers : target'[x] = target'[y] /\ target'[x] # None => x = y
    BY <1>1 DEF FibersApart
  <2>2. \A u \in Threads : NoRepeats(threadQueue'[u])
    BY <1>3, <1>4 DEF FibersApart
  <2>3. \A u, v \in Threads : u # v => Elems(threadQueue'[u]) \cap Elems(threadQueue'[v]) = {}
    BY SMTT(30), <1>0, <1>3, <1>4 DEF FibersApart
  <2>4. /\ Ran' \cap (Left' \cup Aimed' \cup Ready' \cup Handed') = {}
        /\ Left' \cap (Aimed' \cup Ready' \cup Handed') = {}
        /\ Aimed' \cap (Ready' \cup Handed') = {} /\ Ready' \cap Handed' = {}
    BY <1>2, <1>5, <1>6, <1>7 DEF FibersApart
  <2>5. /\ \A u, v \in Threads : running'[u] = running'[v] /\ running'[u] # None => u = v
        /\ \A u, v \in Threads : last'[u] = last'[v] /\ last'[u] # None => u = v
        /\ NoRepeats(executeQueue')
    BY <1>0 DEF FibersApart
  <2> QED
    BY <2>1, <2>2, <2>3, <2>4, <2>5 DEF FibersApart
<1>9. Parked'
  <2>1. \A x \in Left \cup Aimed \cup Ready \cup Handed : x # f /\ x \in Fibers
    BY <1>0, RunnerFacts, PlaceFacts
  <2>2. Left' \cup Aimed' \cup Ready' \cup Handed' = Left \cup Aimed \cup Ready \cup Handed
    BY <1>2, <1>5, <1>6, <1>7
  <2>3. \A x \in Left \cup Aimed \cup Ready \cup Handed : pc'[x] \in {"start", "resume"}
    BY <1>1, <2>1 DEF Parked
  <2>4. \A x \in Fibers \ (Ran \cup Left \cup Aimed \cup Ready \cup Handed) : pc'[x] = "done" /\ x # 0
    BY <1>1, <1>2 DEF Parked
  <2> QED
    BY <1>5, <2>2, <2>3, <2>4 DEF Parked
<1>10. Running'
  <2>1. CurrentFiberRuns'
    <3>1. \A u \in Threads : u # t => running[u] # f
      BY <1>0, RunnerFacts
    <3>2. current[t] = f /\ last[t] = None /\ f # None
      BY <1>0, RunnerFacts, NumberFacts
    <3>3. \A u \in Threads : running[u] # None => running[u] \in Fibers
      BY DEF TypeOK
    <3> QED
      BY <1>0, <1>1, <3>1, <3>2, <3>3 DEF Running, CurrentFiberRuns
  <2>2. \A x \in Fibers : target'[x] # None <=> pc'[x] \in {"chosen", "switch"}
    BY <1>1 DEF Running
  <2>3. \A x \in Fibers : pc'[x] \in {"predicate", "sleep"} => running'[0] # x
    BY <1>0, <1>1 DEF Running
  <2> QED
    BY <1>0, <2>1, <2>2, <2>3 DEF Running
<1> QED
  BY <1>8, <1>9, <1>10

\* The thread leaves f for the fiber it has popped.
LEMMA SwitchPreserves ==
  ASSUME TypeOK, FiberInv, NEW t \in Threads, NEW f \in Fibers, Switch(t, f)
  PROVE  FiberInv'
<1> USE DEF FiberInv
<1> DEFINE g == target[f]
<1>0. /\ running[t] = f /\ pc[f] \in {"chosen", "switch"}
      /\ last' = [last EXCEPT ![t] = current[t]] /\ running' = [running EXCEPT ![t] = g]
      /\ target' = [target EXCEPT ![f] = None] /\ pc' = [pc EXCEPT ![f] = "resume"]
      /\ UNCHANGED <<current, executeQueue, threadQueue>>
  BY DEF Switch, At, Goto
<1>1. g \in Fibers /\ g # None /\ current[t] = f /\ last[t] = None /\ f # None
  <2>1. target[f] # None /\ current[t] = f /\ last[t] = None
    BY <1>0, RunnerFacts
  <2> QED
    BY <2>1, NumberFacts DEF TypeOK
<1> HIDE DEF g
<1>2. /\ target'[f] = None /\ target[f] = g /\ \A x \in Fibers : x # f => target'[x] = target[x]
      /\ pc'[f] = "resume" /\ \A x \in Fibers : x # f => pc'[x] = pc[x]
      /\ running'[t] = g /\ \A u \in Threads : u # t => running'[u] = running[u]
      /\ last'[t] = f /\ \A u \in Threads : u # t => last'[u] = last[u]
  BY <1>0, <1>1 DEF TypeOK, g
<1>3. /\ g \in Aimed /\ g \notin Ran \cup Left \cup Ready \cup Handed /\ f \in Ran /\ f # g
      /\ f \notin Left \cup Aimed \cup Ready \cup Handed
      /\ \A x \in Fibers : x # f => target[x] # g
      /\ \A u \in Threads : u # t => running[u] # f
  BY SMTT(30), <1>0, <1>1, <1>2, RunnerFacts DEF Aimed, FibersApart
<1>4. Ready' = Ready /\ Handed' = Handed
  BY <1>0 DEF Ready, Handed
<1>5. Aimed' = Aimed \ {g}
  BY <1>2, <1>3 DEF Aimed
<1>6. Left' = Left \cup {f}
  BY <1>1, <1>2 DEF Left
<1>7. Ran' = (Ran \ {f}) \cup {g}
  BY <1>0, <1>1, <1>2, <1>3 DEF Ran
<1>8. FibersApart'
  <2>1. \A x, y \in Fibers : target'[x] = target'[y] /\ target'[x] # None => x = y
    BY <1>2 DEF FibersApart
  <2>2. \A u \in Threads : u # t => last[u] # f /\ running[u] # g
    BY <1>1, <1>3 DEF Left, Ran
  <2>3. /\ \A u, v \in Threads : running'[u] = running'[v] /\ running'[u] # None => u = v
        /\ \A u, v \in Threads : last'[u] = last'[v] /\ last'[u] # None => u = v
    BY <1>2, <2>2 DEF FibersApart
  <2>4. /\ Ran' \cap (Left' \cup Aimed' \cup Ready' \cup Handed') = {}
        /\ Left' \cap (Aimed' \cup Ready' \cup Handed') = {}
        /\ Aimed' \cap (Ready' \cup Handed') = {} /\ Ready' \cap Handed' = {}
    BY <1>3, <1>4, <1>5, <1>6, <1>7 DEF FibersApart
  <2>5. /\ NoRepeats(executeQueue') /\ \A u \in Threads : NoRepeats(threadQueue'[u])
        /\ \A u, v \in Threads : u # v => Elems(threadQueue'[u]) \cap Elems(threadQueue'[v]) = {}
    BY <1>0 DEF FibersApart
  <2> QED
    BY <2>1, <2>3, <2>4, <2>5 DEF FibersApart
<1>9. Parked'
  <2>1. Left \cup Aimed \cup Ready \cup Handed \subseteq Fibers
    BY PlaceFacts
  <2>2. \A x \in Left' \cup Aimed' \cup Ready' \cup Handed' : pc'[x] \in {"start", "resume"}
    BY <1>2, <1>3, <1>4, <1>5, <1>6, <2>1 DEF Parked
  <2>3. \A x \in Fibers \ (Ran' \cup Left' \cup Aimed' \cup Ready' \cup Handed') : pc'[x] = "done" /\ x # 0
    BY <1>2, <1>3, <1>4, <1>5, <1>6, <1>7 DEF Parked
  <2> QED
    BY <2>2, <2>3 DEF Parked
<1>10. Running'
  <2>0. pc'[g] \in {"start", "resume"}
    BY <1>1, <1>2, <1>3 DEF Parked
  <2>1. CurrentFiberRuns'
    <3>1. \A u \in Threads : running[u] # None => running[u] \in Fibers
      BY DEF TypeOK
    <3> QED
      BY <1>0, <1>2, <1>3, <2>0, <3>1 DEF Running, CurrentFiberRuns
  <2>2. \A x \in Fibers : target'[x] # None <=> pc'[x] \in {"chosen", "switch"}
    BY <1>2 DEF Running
  <2>3. \A x \in Fibers : pc'[x] \in {"predicate", "sleep"} => running'[0] # x
    BY <1>2, <2>0, NumberFacts DEF Running
  <2>4. \A u \in Threads : running'[u] = None => last'[u] = None
    BY <1>1, <1>2 DEF Running
  <2> QED
    BY <2>1, <2>2, <2>3, <2>4 DEF Running
<1> QED
  BY <1>8, <1>9, <1>10

\* The fiber a thread came from may be run by others now.
LEMMA ResumeThisFiberPreserves ==
  ASSUME TypeOK, FiberInv, NEW t \in Threads, NEW f \in Fibers, running[t] = f,
         pc[f] \in {"start", "resume"}, pc'[f] \in {"run", "wait", "finish", "fork", "decRef"},
         \A g \in Fibers : g # f => pc'[g] = pc[g],
         ResumeThisFiber(t, f), UNCHANGED <<running, threadQueue, target>>
  PROVE  FiberInv'
<1> USE DEF FiberInv
<1>0. /\ current' = [current EXCEPT ![t] = f] /\ f # None
      /\ last'[t] = None /\ \A u \in Threads : u # t => last'[u] = last[u]
  BY NumberFacts DEF ResumeThisFiber, TypeOK
<1>1. current'[t] = f /\ \A u \in Threads : u # t => current'[u] = current[u]
  BY <1>0 DEF TypeOK
<1>2. /\ f \in Ran /\ f \notin Left \cup Aimed \cup Ready \cup Handed /\ target[f] = None
      /\ \A u \in Threads : u # t => running[u] # f
  BY RunnerFacts
<1>3. /\ NoRepeats(executeQueue') /\ Ready' = Ready \cup ({last[t]} \ {None})
  <2>1. executeQueue \in Seq(Fibers) /\ NoRepeats(executeQueue)
    BY DEF TypeOK, FibersApart
  <2>2. CASE last[t] = None
    BY <2>1, <2>2 DEF ResumeThisFiber, Ready
  <2>3. CASE last[t] # None
    <3>1. executeQueue' = Append(executeQueue, last[t])
      BY <2>3 DEF ResumeThisFiber
    <3>2. last[t] \in Fibers /\ last[t] \in Left
      BY <2>3 DEF TypeOK, Left
    <3>3. last[t] \notin Elems(executeQueue)
      BY <3>2 DEF FibersApart, Ready
    <3> QED
      BY <2>1, <2>3, <3>1, <3>2, <3>3, ElemsFacts, NoRepeatsFacts DEF Ready
  <2> QED
    BY <2>2, <2>3
<1>4. Left' = Left \ {last[t]}
  BY <1>0 DEF Left, FibersApart
<1>5. Ran' = Ran /\ Aimed' = Aimed /\ Handed' = Handed
  BY DEF Ran, Aimed, Handed
<1>6. last[t] # None => last[t] \in Left
  BY DEF Left
<1>7. FibersApart'
  <2>1. \A u, v \in Threads : last'[u] = last'[v] /\ last'[u] # None => u = v
    BY <1>0 DEF FibersApart
  <2>2. /\ Ran' \cap (Left' \cup Aimed' \cup Ready' \cup Handed') = {}
        /\ Left' \cap (Aimed' \cup Ready' \cup Handed') = {}
        /\ Aimed' \cap (Ready' \cup Handed') = {} /\ Ready' \cap Handed' = {}
    BY <1>3, <1>4, <1>5, <1>6 DEF FibersApart
  <2>3. /\ \A u, v \in Threads : running'[u] = running'[v] /\ running'[u] # None => u = v
        /\ \A x, y \in Fibers : target'[x] = target'[y] /\ target'[x] # None => x = y
        /\ \A u \in Threads : NoRepeats(threadQueue'[u])
        /\ \A u, v \in Threads : u # v => Elems(threadQueue'[u]) \cap Elems(threadQueue'[v]) = {}
    BY DEF FibersApart
  <2> QED
    BY <1>3, <2>1, <2>2, <2>3 DEF FibersApart
<1>8. Parked'
  <2>0. None \notin Left
    BY DEF Left
  <2>1. Left' \cup Aimed' \cup Ready' \cup Handed' = Left \cup Aimed \cup Ready \cup Handed
    BY <1>3, <1>4, <1>5, <1>6, <2>0
  <2>2. Left \cup Aimed \cup Ready \cup Handed \subseteq Fibers
    BY PlaceFacts
  <2>3. \A x \in Left \cup Aimed \cup Ready \cup Handed : pc'[x] \in {"start", "resume"}
    BY <1>2, <2>2 DEF Parked
  <2>4. \A x \in Fibers \ (Ran \cup Left \cup Aimed \cup Ready \cup Handed) : pc'[x] = "done" /\ x # 0
    BY <1>2 DEF Parked
  <2> QED
    BY <1>5, <2>1, <2>3, <2>4 DEF Parked
<1>9. Running'
  <2>1. CurrentFiberRuns'
    <3>1. \A u \in Threads : running[u] # None => running[u] \in Fibers
      BY DEF TypeOK
    <3> QED
      BY <1>0, <1>1, <1>2, <3>1 DEF Running, CurrentFiberRuns
  <2>2. \A x \in Fibers : target'[x] # None <=> pc'[x] \in {"chosen", "switch"}
    BY DEF Running
  <2>3. \A x \in Fibers : pc'[x] \in {"predicate", "sleep"} => running'[0] # x
    BY DEF Running
  <2>4. \A u \in Threads : running'[u] = None => last'[u] = None
    BY <1>0 DEF Running
  <2> QED
    BY <2>1, <2>2, <2>3, <2>4 DEF Running
<1> QED
  BY <1>7, <1>8, <1>9

\* A thread ends with a fiber of its own.
LEMMA ExitPreserves ==
  ASSUME TypeOK, FiberInv, NEW t \in Threads, NEW f \in Fibers, Exit(t, f), f # 0
  PROVE  FiberInv'
<1> USE DEF FiberInv
<1>0. /\ running[t] = f /\ pc[f] = "exit" /\ pc' = [pc EXCEPT ![f] = "done"]
      /\ running' = [running EXCEPT ![t] = None]
      /\ UNCHANGED <<current, last, threadQueue, executeQueue, target>>
  BY DEF Exit, At, Goto
<1>1. /\ running'[t] = None /\ \A u \in Threads : u # t => running'[u] = running[u]
      /\ pc'[f] = "done" /\ \A x \in Fibers : x # f => pc'[x] = pc[x]
  BY <1>0 DEF TypeOK
<1>2. /\ f \in Ran /\ f \notin Left \cup Aimed \cup Ready \cup Handed /\ last[t] = None
      /\ \A u \in Threads : u # t => running[u] # f
  BY <1>0, RunnerFacts
<1>3. Left' = Left /\ Aimed' = Aimed /\ Ready' = Ready /\ Handed' = Handed
  BY <1>0 DEF Left, Aimed, Ready, Handed
<1>4. Ran' = Ran \ {f}
  BY <1>0, <1>1, <1>2 DEF Ran
<1>5. FibersApart'
  <2>1. \A u, v \in Threads : running'[u] = running'[v] /\ running'[u] # None => u = v
    BY <1>1 DEF FibersApart
  <2>2. Ran' \cap (Left' \cup Aimed' \cup Ready' \cup Handed') = {}
    BY <1>3, <1>4 DEF FibersApart
  <2> QED
    BY <1>0, <1>3, <2>1, <2>2 DEF FibersApart
<1>6. Parked'
  <2>1. Left \cup Aimed \cup Ready \cup Handed \subseteq Fibers
    BY PlaceFacts
  <2> QED
    BY <1>1, <1>2, <1>3, <1>4, <2>1 DEF Parked
<1>7. Running'
  <2>1. CurrentFiberRuns'
    <3>1. \A u \in Threads : running[u] # None => running[u] \in Fibers
      BY DEF TypeOK
    <3> QED
      BY <1>0, <1>1, <1>2, <3>1 DEF Running, CurrentFiberRuns
  <2>2. \A x \in Fibers : target'[x] # None <=> pc'[x] \in {"chosen", "switch"}
    BY <1>0, <1>1 DEF Running
  <2>3. \A x \in Fibers : pc'[x] \in {"predicate", "sleep"} => running'[0] # x
    BY <1>0, <1>1, NumberFacts DEF Running
  <2>4. \A u \in Threads : running'[u] = None => last'[u] = None
    BY <1>0, <1>1, <1>2 DEF Running
  <2> QED
    BY <2>1, <2>2, <2>3, <2>4 DEF Running
<1> QED
  BY <1>5, <1>6, <1>7
-------------------------------------------------------------------------------
(* Stacks and tasks.                                                       *)

LEMMA NamesApart ==
  /\ Programs = Task \cup {Main} /\ Main \notin Task /\ Run \notin Task /\ Run # Main
  /\ Unset \notin Programs /\ IsFiniteSet(Task)
BY ProgramAssumption, NameAssumption DEF Programs

LEMMA TopFacts ==
  ASSUME TypeOK, Stacked, NEW f \in Fibers
  PROVE  /\ Len(stack[f]) \in Nat \ {0} /\ DOMAIN stack[f] = 1..Len(stack[f])
         /\ \A i \in 1..Len(stack[f]) : stack[f][i] \in Frames
         /\ Top(f) \in Frames /\ FrameFits(Top(f))
         /\ Top(f).task = Run => f # 0 /\ Len(stack[f]) = 1
         /\ Top(f).task = Main => f = 0 /\ Len(stack[f]) = 1
         /\ Top(f).task \in Task => Len(stack[f]) >= 2
<1>1. stack[f] \in Seq(Frames) /\ stack[f] # << >>
  BY DEF TypeOK, Stacked
<1>2. Len(stack[f]) \in Nat \ {0} /\ DOMAIN stack[f] = 1..Len(stack[f])
  BY <1>1, LenProperties, EmptySeq
<1>3. \A i \in 1..Len(stack[f]) : stack[f][i] \in Frames
  BY <1>1, ElementOfSeq
<1>4. Len(stack[f]) \in 1..Len(stack[f]) /\ (Len(stack[f]) = 1 \/ Len(stack[f]) \in 2..Len(stack[f]))
  <2>1. \A n \in Nat \ {0} : n \in 1..n /\ (n = 1 \/ n \in 2..n)
    OBVIOUS
  <2> QED
    BY <1>2, <2>1
<1>5. Top(f) \in Frames /\ FrameFits(Top(f))
  BY <1>3, <1>4 DEF Top, Stacked
<1>6. CASE Len(stack[f]) = 1
  <2>1. Top(f).task = IF f = 0 THEN Main ELSE Run
    BY <1>6 DEF Top, Stacked
  <2> QED
    BY <1>2, <1>3, <1>5, <1>6, <2>1, NamesApart
<1>7. CASE Len(stack[f]) \in 2..Len(stack[f])
  <2>1. Top(f).task \in Task
    BY <1>7 DEF Top, Stacked
  <2> QED
    BY <1>2, <1>3, <1>5, <1>7, <2>1, NamesApart
<1> QED
  BY <1>4, <1>6, <1>7

\* A frame that notes where it goes on is the same task's.
LEMMA TopStays ==
  ASSUME TypeOK, Stacked, NEW f \in Fibers, stack' \in [Fibers -> Seq(Frames)],
         \A g \in Fibers : g # f => stack'[g] = stack[g],
         Len(stack'[f]) = Len(stack[f]),
         \A i \in 1..(Len(stack[f]) - 1) : stack'[f][i] = stack[f][i],
         Top(f)'.task = Top(f).task, FrameFits(Top(f)')
  PROVE  /\ \A g \in Fibers : /\ Len(stack[g]) \in Nat \ {0} /\ Len(stack'[g]) = Len(stack[g])
                             /\ \A i \in 1..(Len(stack[g]) - 1) : stack'[g][i] = stack[g][i]
                             /\ Top(g)'.task = Top(g).task
         /\ \A g \in Fibers : \A i \in 1..Len(stack[g]) : stack'[g][i].task = stack[g][i].task
         /\ \A g \in Fibers : \A i \in 2..Len(stack[g]) : i \in 1..Len(stack[g])
         /\ Stacked'
<1>1. \A g \in Fibers : /\ Len(stack[g]) \in Nat \ {0} /\ Len(stack'[g]) = Len(stack[g])
                        /\ \A i \in 1..(Len(stack[g]) - 1) : stack'[g][i] = stack[g][i]
                        /\ Top(g)'.task = Top(g).task
  <2>1. ASSUME NEW g \in Fibers, g # f
        PROVE  Top(g)' = Top(g)
    BY <2>1 DEF Top
  <2> QED
    BY <2>1, TopFacts
<1>2. \A g \in Fibers : \A i \in 1..Len(stack[g]) : stack'[g][i].task = stack[g][i].task
  <2> SUFFICES ASSUME NEW g \in Fibers, NEW i \in 1..Len(stack[g])
               PROVE  stack'[g][i].task = stack[g][i].task
    OBVIOUS
  <2>1. i \in 1..(Len(stack[g]) - 1) \/ i = Len(stack[g])
    BY <1>1
  <2>2. stack'[g][Len(stack[g])].task = stack[g][Len(stack[g])].task
    BY <1>1 DEF Top
  <2> QED
    BY <1>1, <2>1, <2>2
<1>3. \A g \in Fibers : \A i \in 2..Len(stack[g]) : i \in 1..Len(stack[g])
  BY <1>1
<1>4. Stacked'
  <2> SUFFICES ASSUME NEW g \in Fibers
               PROVE  /\ stack'[g] # << >>
                      /\ stack'[g][1].task = IF g = 0 THEN Main ELSE Run
                      /\ \A i \in 2..Len(stack'[g]) : stack'[g][i].task \in Task
                      /\ \A i \in 1..Len(stack'[g]) : FrameFits(stack'[g][i])
                      /\ \A i \in 1..(Len(stack'[g]) - 1) : stack'[g][i].at \in {"run", "wait"}
    BY DEF Stacked
  <2>1. stack'[g] # << >>
    BY <1>1, EmptySeq
  <2>2. stack'[g][1].task = IF g = 0 THEN Main ELSE Run
    <3>1. 1 \in 1..Len(stack[g])
      BY <1>1
    <3> QED
      BY <1>2, <3>1 DEF Stacked
  <2>3. \A i \in 2..Len(stack'[g]) : stack'[g][i].task \in Task
    BY <1>1, <1>2, <1>3 DEF Stacked
  <2>4. \A i \in 1..Len(stack'[g]) : FrameFits(stack'[g][i])
    <3>1. \A i \in 1..Len(stack[g]) : i \in 1..(Len(stack[g]) - 1) \/ i = Len(stack[g])
      BY <1>1
    <3>2. FrameFits(stack'[g][Len(stack[g])])
      <4>1. CASE g = f
        BY <4>1 DEF Top
      <4>2. CASE g # f
        BY <4>2, TopFacts DEF Top
      <4> QED
        BY <4>1, <4>2
    <3>3. \A i \in 1..(Len(stack[g]) - 1) : FrameFits(stack[g][i])
      BY <1>1 DEF Stacked
    <3> QED
      BY <1>1, <3>1, <3>2, <3>3
  <2>5. \A i \in 1..(Len(stack'[g]) - 1) : stack'[g][i].at \in {"run", "wait"}
    BY <1>1 DEF Stacked
  <2> QED
    BY <2>1, <2>2, <2>3, <2>4, <2>5
<1> QED
  BY <1>1, <1>2, <1>3, <1>4

\* A fiber's step that begins and ends no task: at most it notes in its frame
\* where the frame goes on.
LEMMA TasksStay ==
  ASSUME TypeOK, TaskInv, NEW f \in Fibers, stack' \in [Fibers -> Seq(Frames)],
         \A g \in Fibers : g # f => pc'[g] = pc[g] /\ stack'[g] = stack[g],
         UNCHANGED <<tasks, numTasks, exitRequested>>,
         Len(stack'[f]) = Len(stack[f]),
         \A i \in 1..(Len(stack[f]) - 1) : stack'[f][i] = stack[f][i],
         Top(f)'.task = Top(f).task, FrameFits(Top(f)'), Fits(pc'[f], Top(f)'),
         pc[f] \in Finishing <=> pc'[f] \in Finishing,
         pc[f] = "doneNotify" <=> pc'[f] = "doneNotify",
         pc[f] \in Adding <=> pc'[f] \in Adding,
         \/ pc[f] \in {"fork", "yield"} \/ Top(f).at = "fork"
              <=> pc'[f] \in {"fork", "yield"} \/ Top(f)'.at = "fork"
         \/ Elems(Children[Top(f).task]) = {},
         pc'[f] \in {"decRef", "purge"} =>
           \A k \in Elems(Children[Top(f).task]) : TaskState[k] = "done",
         f = 0 /\ exitRequested => pc'[0] \in Adding \cup {"addNotify", "join", "done"}
  PROVE  TaskInv' /\ TaskState' = TaskState
<1> USE DEF TaskInv, tasks
<1>1. \A g \in Fibers : /\ Len(stack[g]) \in Nat \ {0} /\ Len(stack'[g]) = Len(stack[g])
                        /\ \A i \in 1..(Len(stack[g]) - 1) : stack'[g][i] = stack[g][i]
                        /\ Top(g)'.task = Top(g).task
  <2>1. ASSUME NEW g \in Fibers, g # f
        PROVE  Top(g)' = Top(g)
    BY <2>1 DEF Top
  <2> QED
    BY <2>1, TopFacts
<1>2. \A g \in Fibers : \A i \in 1..Len(stack[g]) : stack'[g][i].task = stack[g][i].task
  BY TopStays
<1>3. \A g \in Fibers : \A i \in 2..Len(stack[g]) : i \in 1..Len(stack[g])
  BY TopStays
<1>4. \A k \in Task : (Queued(k)' <=> Queued(k)) /\ (OnStack(k)' <=> OnStack(k))
  <2>1. \A k \in Task : Queued(k)' <=> Queued(k)
    BY DEF Queued
  <2>2. \A g \in Fibers : pc'[g] \in Finishing <=> pc[g] \in Finishing
    OBVIOUS
  <2>3. \A g \in Fibers : 2..Len(stack'[g]) = 2..Len(stack[g])
    BY <1>1
  <2>4. \A k \in Task : OnStack(k)' <=> OnStack(k)
    <3>1. ASSUME NEW k \in Task, NEW g \in Fibers, NEW i \in 2..Len(stack[g])
          PROVE  /\ stack'[g][i].task = k /\ ~(i = Len(stack'[g]) /\ pc'[g] \in Finishing)
                   <=> stack[g][i].task = k /\ ~(i = Len(stack[g]) /\ pc[g] \in Finishing)
      BY <1>1, <1>2, <1>3, <2>2
    <3>2. \A k \in Task : OnStack(k)' <=> \E g \in Fibers : \E i \in 2..Len(stack[g]) :
            stack'[g][i].task = k /\ ~(i = Len(stack'[g]) /\ pc'[g] \in Finishing)
      BY <2>3 DEF OnStack
    <3> QED
      BY SMTT(30), <3>1, <3>2 DEF OnStack
  <2> QED
    BY <2>1, <2>4
<1>5. TaskState' = TaskState
  BY <1>4 DEF TaskState
<1>6. Stacked'
  BY TopStays
<1>7. Placed'
  BY DEF Placed, Top
<1>8. TasksApart'
  <2>1. \A g \in Fibers : 2..Len(stack'[g]) = 2..Len(stack[g])
    BY <1>1
  <2>2. \A g \in Fibers : \A i \in 2..Len(stack[g]) :
          stack'[g][i].task = stack[g][i].task /\ stack[g][i].task \in Task
    BY <1>2, <1>3 DEF Stacked
  <2>3. \A g, h \in Fibers : \A i \in 2..Len(stack'[g]), j \in 2..Len(stack'[h]) :
          stack'[g][i].task = stack'[h][j].task => g = h /\ i = j
    BY <2>1, <2>2 DEF TasksApart
  <2>4. \A g \in Fibers : \A i \in 2..Len(stack'[g]) :
          (~Queued(stack[g][i].task) /\ counterOf[stack[g][i].task] # Unset)'
    BY <1>4, <2>1, <2>2 DEF TasksApart
  <2>5. \A k \in Task : Queued(k)' => counterOf'[k] # Unset
    BY <1>4 DEF TasksApart
  <2> QED
    BY <2>3, <2>4, <2>5 DEF TasksApart
<1>9. ForkedOnce'
  <2>1. \A p \in Programs : Elems(Children[p]) # {} => (YetToFork(p)' <=> YetToFork(p))
    <3>1. \A g \in Fibers : Elems(Children[Top(g).task]) # {} =>
            (pc'[g] \in {"fork", "yield"} \/ Top(g)'.at = "fork"
              <=> pc[g] \in {"fork", "yield"} \/ Top(g).at = "fork")
      BY DEF Top
    <3> QED
      BY ZenonT(40), <1>1, <1>4, <3>1 DEF YetToFork
  <2> QED
    BY <2>1 DEF ForkedOnce
<1>10. Awaited'
  BY <1>1, <1>5 DEF Awaited
<1>11. Purging'
  BY <1>1, NumberFacts DEF Purging
<1>12. CounterCountsTasks'
  BY <1>5 DEF CounterCountsTasks
<1>13. NumTasksCounts'
  <2>1. Unannounced' = Unannounced
    BY SMTT(30), <1>1 DEF Unannounced
  <2>2. Unfinished' = Unfinished
    <3>1. \A g \in Fibers : 2..Len(stack'[g]) = 2..Len(stack[g])
      BY <1>1
    <3>2. \A g \in Fibers : pc'[g] = "doneNotify" <=> pc[g] = "doneNotify"
      OBVIOUS
    <3> QED
      <4>1. ASSUME NEW k \in Task, NEW g \in Fibers, NEW i \in 2..Len(stack[g])
            PROVE  /\ stack'[g][i].task = k /\ ~(i = Len(stack'[g]) /\ pc'[g] = "doneNotify")
                     <=> stack[g][i].task = k /\ ~(i = Len(stack[g]) /\ pc[g] = "doneNotify")
        BY <1>1, <1>2, <1>3, <3>2
      <4>2. \A k \in Task : Begun(k)' <=> \E g \in Fibers : \E i \in 2..Len(stack[g]) :
              stack'[g][i].task = k /\ ~(i = Len(stack'[g]) /\ pc'[g] = "doneNotify")
        BY <3>1 DEF Begun
      <4>3. \A k \in Task : Begun(k)' <=> Begun(k)
        BY SMTT(30), <4>1, <4>2 DEF Begun
      <4> QED
        BY <1>4, <4>3 DEF Unfinished
  <2>3. pc'[0] \in Adding <=> pc[0] \in Adding
    BY NumberFacts
  <2> QED
    BY <2>1, <2>2, <2>3 DEF NumTasksCounts
<1> QED
  BY <1>5, <1>6, <1>7, <1>8, <1>9, <1>10, <1>11, <1>12, <1>13

\* A step of TaskPool, or none.
PoolStep == Pool!Next \/ UNCHANGED <<TaskState, exitRequested>>

\* A step that changes nothing about tasks but the location of its fiber.
LEMMA TasksIdle ==
  ASSUME TypeOK, TaskInv, NEW f \in Fibers, NEW l \in Location,
         pc' = [pc EXCEPT ![f] = l],
         UNCHANGED <<stack, tasks, numTasks, exitRequested>>,
         Fits(l, Top(f)),
         pc[f] \in Finishing <=> l \in Finishing,
         pc[f] = "doneNotify" <=> l = "doneNotify",
         pc[f] \in Adding <=> l \in Adding,
         pc[f] \in {"fork", "yield"} \/ Top(f).at = "fork"
           <=> l \in {"fork", "yield"} \/ Top(f).at = "fork",
         l \in {"decRef", "purge"} => \A k \in Elems(Children[Top(f).task]) : TaskState[k] = "done",
         f = 0 /\ exitRequested => l \in Adding \cup {"addNotify", "join", "done"}
  PROVE  TaskInv' /\ PoolStep
<1>1. /\ pc'[f] = l /\ \A g \in Fibers : g # f => pc'[g] = pc[g] /\ stack'[g] = stack[g]
      /\ stack' \in [Fibers -> Seq(Frames)] /\ Top(f)' = Top(f)
      /\ Len(stack'[f]) = Len(stack[f])
      /\ \A i \in 1..(Len(stack[f]) - 1) : stack'[f][i] = stack[f][i]
  BY DEF TypeOK, Top
<1>2. FrameFits(Top(f))
  BY TopFacts DEF TaskInv
<1>3. TaskInv' /\ TaskState' = TaskState
  BY <1>1, <1>2, TasksStay
<1> QED
  BY <1>3 DEF PoolStep

\* Where a fiber goes on when its call of NextFiber returns.
LEMMA ReturnFacts ==
  ASSUME TypeOK, Stacked, NEW f \in Fibers, NEW l, l = Top(f).at
  PROVE  /\ l \in {"run", "wait", "finish", "fork", "decRef"} /\ l \in Location
         /\ Fits(l, Top(f))
         /\ l = "decRef" => Elems(Children[Top(f).task]) = {}
<1>1. FrameFits(Top(f))
  BY TopFacts
<1> USE NamesApart
<1>2. l \in {"run", "wait", "finish", "fork", "decRef"} /\ l \in Location
  BY <1>1 DEF FrameFits, Location
<1>3. Fits(l, Top(f))
  BY <1>1 DEF FrameFits, Fits, Finishing
<1>4. l = "decRef" => Elems(Children[Top(f).task]) = {}
  BY <1>1, EmptyElems DEF FrameFits
<1> QED
  BY <1>2, <1>3, <1>4

\* Locations of the code that moves fibers: the tasks do not see it.
Moving == {"start", "nextFiber", "popExecute", "chosen", "popAgain", "switch", "resume"}

LEMMA MovingIdle ==
  ASSUME IInv, NEW f \in Fibers, NEW l \in Location, pc[f] \in Moving,
         l \in Moving \ {"start"} \/ l = Top(f).at,
         pc' = [pc EXCEPT ![f] = l],
         UNCHANGED <<stack, tasks, numTasks, exitRequested>>
  PROVE  TaskInv' /\ PoolStep
<1> USE DEF IInv
<1>1. Stacked /\ TypeOK
  BY DEF TaskInv
<1>2. pc[f] \notin Finishing /\ pc[f] \notin Adding /\ pc[f] \notin {"fork", "yield"}
  BY DEF Moving, Finishing, Adding
<1>3. f = 0 => ~exitRequested
  BY DEF TaskInv, Purging, Moving, Adding
<1>4. CASE l \in Moving \ {"start"}
  <2>1. Fits(l, Top(f)) /\ l \notin Finishing /\ l \notin Adding /\ l \notin {"fork", "yield", "decRef", "purge"}
    BY <1>4 DEF Fits, Moving, Finishing, Adding
  <2> QED
    BY <1>2, <1>3, <2>1, TasksIdle DEF Finishing
<1>5. CASE l = Top(f).at
  <2>1. /\ l \in {"run", "wait", "finish", "fork", "decRef"} /\ Fits(l, Top(f))
        /\ l = "decRef" => Elems(Children[Top(f).task]) = {}
    BY <1>1, <1>5, ReturnFacts
  <2>2. l \notin Finishing /\ l \notin Adding /\ (l \in {"fork", "yield"} => Top(f).at = "fork")
    BY <1>5, <2>1 DEF Finishing, Adding
  <2> QED
    BY <1>2, <1>3, <2>1, <2>2, TasksIdle DEF Finishing
<1> QED
  BY <1>4, <1>5

LEMMA PopThreadQueuePreserves ==
  ASSUME IInv, NEW t \in Threads, NEW f \in Fibers, PopThreadQueue(t, f)
  PROVE  IInv' /\ PoolStep
<1> USE DEF IInv
<1>0. /\ running[t] = f /\ pc[f] = "nextFiber"
      /\ UNCHANGED <<running, current, last, executeQueue, finishOn, tasks, sync, stack, exitRequested>>
  BY DEF PopThreadQueue, At
<1>1. CASE threadQueue[t] # << >>
  <2> DEFINE h == Head(threadQueue[t])
  <2>1. /\ target' = [target EXCEPT ![f] = h]
        /\ threadQueue' = [threadQueue EXCEPT ![t] = Tail(@)] /\ pc' = [pc EXCEPT ![f] = "chosen"]
    BY <1>1 DEF PopThreadQueue, Goto
  <2>2. /\ threadQueue'[t] = Tail(threadQueue[t])
        /\ \A u \in Threads : u # t => threadQueue'[u] = threadQueue[u]
        /\ pc'[f] = "chosen" /\ \A g \in Fibers : g # f => pc'[g] = pc[g]
        /\ pc' \in [Fibers -> Location]
    BY <2>1 DEF TypeOK, Location
  <2>3. /\ Tail(threadQueue[t]) \in Seq(Fibers) /\ h \in Fibers
        /\ NoRepeats(Tail(threadQueue[t])) /\ h \in Elems(threadQueue[t])
        /\ Elems(Tail(threadQueue[t])) = Elems(threadQueue[t]) \ {h}
    <3>1. threadQueue[t] \in Seq(Fibers) /\ NoRepeats(threadQueue[t])
      BY DEF TypeOK, FiberInv, FibersApart
    <3> QED
      BY <1>1, <3>1, ElemsFacts, NoRepeatsFacts
  <2> HIDE DEF h
  <2>4. TypeOK'
    BY <1>0, <2>1, <2>2, <2>3 DEF TypeOK, tasks, sync
  <2>5. h \in Handed /\ \A u \in Threads : u # t => h \notin Elems(threadQueue[u])
    BY SMTT(30), <2>3 DEF Handed, FiberInv, FibersApart
  <2>6. Ready' = Ready /\ Handed' = Handed \ {h} /\ h \notin Ready
    <3>1. Handed' = Handed \ {h}
      BY <2>2, <2>3, <2>5 DEF Handed
    <3> QED
      BY <1>0, <2>5, <3>1 DEF Ready, FiberInv, FibersApart
  <2>7. FiberInv'
    <3>1. \A u \in Threads : NoRepeats(threadQueue'[u])
      BY <2>2, <2>3 DEF FiberInv, FibersApart
    <3>2. \A u, v \in Threads : u # v => Elems(threadQueue'[u]) \cap Elems(threadQueue'[v]) = {}
      BY <2>2, <2>3 DEF FiberInv, FibersApart
    <3>3. NoRepeats(executeQueue')
      BY <1>0 DEF FiberInv, FibersApart
    <3>4. Ready' \subseteq Ready /\ Handed' \subseteq Handed /\ Ready' \cup Handed' = (Ready \cup Handed) \ {h}
      BY <2>6
    <3> QED
      BY <1>0, <2>1, <2>2, <2>5, <3>1, <3>2, <3>3, <3>4, AimPreserves
  <2>8. TaskInv' /\ PoolStep
    BY <1>0, <2>1, MovingIdle DEF Moving, Location, sync
  <2> QED
    BY <2>4, <2>7, <2>8
<1>2. CASE threadQueue[t] = << >>
  <2>1. pc' = [pc EXCEPT ![f] = "popExecute"] /\ UNCHANGED <<target, threadQueue>>
    BY <1>2 DEF PopThreadQueue, Goto
  <2>2. /\ pc'[f] = "popExecute" /\ \A g \in Fibers : g # f => pc'[g] = pc[g]
        /\ pc' \in [Fibers -> Location]
    BY <2>1 DEF TypeOK, Location
  <2>3. TypeOK'
    BY <1>0, <2>1, <2>2 DEF TypeOK, tasks, sync
  <2>4. FiberInv'
    BY <1>0, <2>1, <2>2, FibersStay
  <2>5. TaskInv' /\ PoolStep
    BY <1>0, <2>1, MovingIdle DEF Moving, Location, sync
  <2> QED
    BY <2>3, <2>4, <2>5
<1> QED
  BY <1>1, <1>2

LEMMA PopExecuteQueuePreserves ==
  ASSUME IInv, NEW t \in Threads, NEW f \in Fibers, PopExecute(t, f) \/ PopAgain(t, f)
  PROVE  IInv' /\ PoolStep
<1> USE DEF IInv
<1>0. \E here \in {"popExecute", "popAgain"}, there \in {"chosen", "switch"} :
        PopExecuteQueue(t, f, here, there)
  BY DEF PopExecute, PopAgain
<1> PICK here \in {"popExecute", "popAgain"}, there \in {"chosen", "switch"} :
        PopExecuteQueue(t, f, here, there)
  BY <1>0
<1>1. /\ running[t] = f /\ pc[f] = here
      /\ UNCHANGED <<running, current, last, threadQueue, finishOn, tasks, sync, stack, exitRequested>>
  BY DEF PopExecuteQueue, At
<1>2. CASE executeQueue # << >>
  <2> DEFINE h == Head(executeQueue)
  <2>1. /\ target' = [target EXCEPT ![f] = h] /\ executeQueue' = Tail(executeQueue)
        /\ pc' = [pc EXCEPT ![f] = there]
    BY <1>2 DEF PopExecuteQueue, Goto
  <2>2. /\ pc'[f] = there /\ \A g \in Fibers : g # f => pc'[g] = pc[g]
        /\ pc' \in [Fibers -> Location]
    BY <2>1 DEF TypeOK, Location
  <2>3. /\ executeQueue' \in Seq(Fibers) /\ h \in Fibers
        /\ NoRepeats(executeQueue') /\ h \in Ready /\ Ready' = Ready \ {h}
    <3>1. executeQueue \in Seq(Fibers) /\ NoRepeats(executeQueue)
      BY DEF TypeOK, FiberInv, FibersApart
    <3> QED
      BY <1>2, <2>1, <3>1, ElemsFacts, NoRepeatsFacts DEF Ready
  <2> HIDE DEF h
  <2>4. TypeOK'
    BY <1>1, <2>1, <2>2, <2>3 DEF TypeOK, tasks, sync
  <2>5. Handed' = Handed /\ h \notin Handed
    BY <1>1, <2>3 DEF Handed, FiberInv, FibersApart
  <2>6. FiberInv'
    <3>1. \A u \in Threads : NoRepeats(threadQueue'[u])
      BY <1>1 DEF FiberInv, FibersApart
    <3>2. \A u, v \in Threads : u # v => Elems(threadQueue'[u]) \cap Elems(threadQueue'[v]) = {}
      BY <1>1 DEF FiberInv, FibersApart
    <3>3. Ready' \subseteq Ready /\ Handed' \subseteq Handed /\ Ready' \cup Handed' = (Ready \cup Handed) \ {h}
      BY <2>3, <2>5
    <3> QED
      BY <1>1, <2>1, <2>2, <2>3, <3>1, <3>2, <3>3, AimPreserves
  <2>7. TaskInv' /\ PoolStep
    BY <1>1, <2>1, MovingIdle DEF Moving, Location, sync
  <2> QED
    BY <2>4, <2>6, <2>7
<1>3. CASE executeQueue = << >>
  <2> DEFINE l == Top(f).at
  <2>1. target' = [target EXCEPT ![f] = None] /\ pc' = [pc EXCEPT ![f] = l] /\ UNCHANGED executeQueue
    BY <1>3 DEF PopExecuteQueue, StayOn, Goto
  <2>2. l \in {"run", "wait", "finish", "fork", "decRef"} /\ l \in Location
    BY ReturnFacts DEF TaskInv
  <2> HIDE DEF l
  <2>3. target' = target
    <3>1. target[f] = None
      BY <1>1, RunnerFacts
    <3> QED
      BY <2>1, <3>1 DEF TypeOK
  <2>4. /\ pc'[f] = l /\ \A g \in Fibers : g # f => pc'[g] = pc[g]
        /\ pc' \in [Fibers -> Location]
    BY <2>1, <2>2 DEF TypeOK
  <2>5. TypeOK'
    BY <1>1, <2>1, <2>3, <2>4 DEF TypeOK, tasks, sync
  <2>6. FiberInv'
    BY <1>1, <2>1, <2>2, <2>3, <2>4, FibersStay
  <2>7. TaskInv' /\ PoolStep
    BY <1>1, <2>1, <2>2, MovingIdle DEF Moving, sync, l
  <2> QED
    BY <2>5, <2>6, <2>7
<1> QED
  BY <1>2, <1>3

LEMMA SwitchingPreserves ==
  ASSUME IInv, NEW t \in Threads, NEW f \in Fibers, HandOver(t, f) \/ Switch(t, f)
  PROVE  IInv' /\ PoolStep
<1> USE DEF IInv
<1>1. FiberInv'
  BY HandOverPreserves, SwitchPreserves
<1>2. CASE HandOver(t, f)
  <2> DEFINE g == target[f]
  <2>1. /\ running[t] = f /\ pc[f] = "chosen" /\ pc' = [pc EXCEPT ![f] = "popAgain"]
        /\ target' = [target EXCEPT ![f] = None]
        /\ threadQueue' = [threadQueue EXCEPT ![Owner(g)] = Append(@, g)]
        /\ UNCHANGED <<running, current, last, executeQueue, finishOn, tasks, sync, stack, exitRequested>>
    BY <1>2 DEF HandOver, At, Goto
  <2>2. g \in Fibers /\ Owner(g) \in Threads
    <3>1. g # None
      BY <2>1, RunnerFacts
    <3>2. g \in Fibers
      BY <3>1 DEF TypeOK
    <3> QED
      BY <1>2, <3>2, OwnerFacts DEF HandOver, Foreign
  <2>3. threadQueue' \in [Threads -> Seq(Fibers)]
    <3>1. Append(threadQueue[Owner(g)], g) \in Seq(Fibers)
      BY <2>2, ElemsFacts DEF TypeOK
    <3> QED
      BY <2>1, <2>2, <3>1 DEF TypeOK
  <2>4. pc' \in [Fibers -> Location] /\ target' \in [Fibers -> Fibers \cup {None}]
    BY <2>1 DEF TypeOK, Location
  <2>5. TypeOK'
    BY <2>1, <2>3, <2>4 DEF TypeOK, tasks, sync
  <2>6. TaskInv' /\ PoolStep
    BY <2>1, MovingIdle DEF Moving, Location, sync
  <2> QED
    BY <1>1, <2>5, <2>6
<1>3. CASE Switch(t, f)
  <2>1. /\ pc[f] \in {"chosen", "switch"} /\ pc' = [pc EXCEPT ![f] = "resume"]
        /\ target' = [target EXCEPT ![f] = None] /\ last' = [last EXCEPT ![t] = current[t]]
        /\ running' = [running EXCEPT ![t] = target[f]]
        /\ UNCHANGED <<current, threadQueue, executeQueue, finishOn, tasks, sync, stack, exitRequested>>
    BY <1>3 DEF Switch, At, Goto
  <2>2. /\ pc' \in [Fibers -> Location] /\ target' \in [Fibers -> Fibers \cup {None}]
        /\ last' \in [Threads -> Fibers \cup {None}] /\ running' \in [Threads -> Fibers \cup {None}]
    BY <2>1 DEF TypeOK, Location
  <2>3. TypeOK'
    BY <2>1, <2>2 DEF TypeOK, tasks, sync
  <2>4. TaskInv' /\ PoolStep
    BY <2>1, MovingIdle DEF Moving, Location, sync
  <2> QED
    BY <1>1, <2>3, <2>4
<1> QED
  BY <1>2, <1>3

LEMMA ResumingPreserves ==
  ASSUME IInv, NEW t \in Threads, NEW f \in Fibers, Start(t, f) \/ Resume(t, f)
  PROVE  IInv' /\ PoolStep
<1> USE DEF IInv
<1>1. /\ running[t] = f /\ pc[f] \in {"start", "resume"} /\ ResumeThisFiber(t, f)
      /\ UNCHANGED <<running, threadQueue, target, finishOn, tasks, sync, stack, exitRequested>>
  BY DEF Start, Resume, At
<1>2. pc' = [pc EXCEPT ![f] = Top(f).at]
  <2>1. CASE Start(t, f)
    <3>1. Top(f).at = "run"
      BY <2>1, NumberFacts DEF Start, At, TaskInv, Placed, Fits
    <3> QED
      BY <2>1, <3>1 DEF Start, Goto
  <2>2. CASE Resume(t, f)
    BY <2>2 DEF Resume, StayOn, Goto
  <2> QED
    BY <2>1, <2>2
<1> DEFINE l == Top(f).at
<1>3. l \in {"run", "wait", "finish", "fork", "decRef"} /\ l \in Location
  BY ReturnFacts DEF TaskInv
<1> HIDE DEF l
<1>4. /\ pc'[f] = l /\ \A g \in Fibers : g # f => pc'[g] = pc[g]
      /\ pc' \in [Fibers -> Location]
  BY <1>2, <1>3 DEF TypeOK, l
<1>5. TypeOK'
  <2>1. current' \in [Threads -> Fibers \cup {None}] /\ last' \in [Threads -> Fibers \cup {None}]
    BY <1>1 DEF ResumeThisFiber, TypeOK
  <2>2. executeQueue' \in Seq(Fibers)
    <3>1. executeQueue \in Seq(Fibers) /\ (last[t] # None => last[t] \in Fibers)
      BY DEF TypeOK
    <3>2. last[t] # None => Append(executeQueue, last[t]) \in Seq(Fibers)
      BY <3>1, ElemsFacts
    <3> QED
      BY <1>1, <3>1, <3>2 DEF ResumeThisFiber
  <2> QED
    BY <1>1, <1>4, <2>1, <2>2 DEF TypeOK, tasks, sync
<1>6. FiberInv'
  BY <1>1, <1>3, <1>4, ResumeThisFiberPreserves
<1>7. TaskInv' /\ PoolStep
  BY <1>1, <1>2, <1>3, MovingIdle DEF Moving, sync, l
<1> QED
  BY <1>5, <1>6, <1>7
-------------------------------------------------------------------------------
(* Steps inside the loops: only the location of the fiber changes, and     *)
(* perhaps the mutex or the set of sleeping threads.                       *)

LEMMA LoopPreserves ==
  ASSUME IInv, NEW t \in Threads, NEW f \in Fibers, running[t] = f, NEW l \in Location,
         pc[f] \notin {"start", "resume", "chosen", "switch"},
         l \notin {"start", "resume", "chosen", "switch"},
         l \in {"predicate", "sleep"} => t # 0,
         pc' = [pc EXCEPT ![f] = l],
         UNCHANGED <<sched, tasks, numTasks, stack, exitRequested>>,
         mutex' \in Threads \cup {None}, sleeping' \subseteq Workers,
         Fits(l, Top(f)),
         pc[f] \in Finishing <=> l \in Finishing,
         pc[f] = "doneNotify" <=> l = "doneNotify",
         pc[f] \in Adding <=> l \in Adding,
         pc[f] \in {"fork", "yield"} \/ Top(f).at = "fork"
           <=> l \in {"fork", "yield"} \/ Top(f).at = "fork",
         l \in {"decRef", "purge"} => \A k \in Elems(Children[Top(f).task]) : TaskState[k] = "done",
         f = 0 /\ exitRequested => l \in Adding \cup {"addNotify", "join", "done"}
  PROVE  IInv' /\ PoolStep
<1> USE DEF IInv
<1>1. /\ pc'[f] = l /\ \A g \in Fibers : g # f => pc'[g] = pc[g]
      /\ pc' \in [Fibers -> Location]
  BY DEF TypeOK
<1>2. TypeOK'
  BY <1>1 DEF TypeOK, sched, tasks
<1>3. FiberInv'
  BY <1>1, FibersStay DEF sched
<1>4. TaskInv' /\ PoolStep
  BY TasksIdle
<1> QED
  BY <1>2, <1>3, <1>4

LEMMA LocationFacts ==
  ASSUME IInv, NEW f \in Fibers
  PROVE  /\ TypeOK /\ Stacked
         /\ Fits(pc[f], Top(f)) /\ FrameFits(Top(f))
         /\ Top(f).task \in Programs \cup {Run}
         /\ Top(f).task = Run => f # 0
         /\ f = 0 /\ exitRequested => /\ pc[f] \in Adding \cup {"addNotify", "join", "done"}
                                      /\ Top(f).task = Main
<1>1. TypeOK /\ Stacked
  BY DEF IInv, TaskInv
<1>2. Top(f) \in Frames /\ FrameFits(Top(f)) /\ (Top(f).task = Run => f # 0)
  BY <1>1, TopFacts
<1>3. Top(f).task \in Programs \cup {Run}
  BY <1>2 DEF Frames
<1>4. Fits(pc[f], Top(f))
  BY DEF IInv, TaskInv, Placed
<1>5. f = 0 /\ exitRequested => /\ pc[f] \in Adding \cup {"addNotify", "join", "done"}
                                /\ Top(f).task = Main
  BY DEF IInv, TaskInv, Purging, Stacked, Top
<1> QED
  BY <1>1, <1>2, <1>3, <1>4, <1>5

\* Steps of the two loops, of RunTask and of WaitForTasks, and FinishFiber's.
LEMMA LookingPreserves ==
  ASSUME IInv, NEW t \in Threads, NEW f \in Fibers,
         \/ RunTest(t, f) /\ ~exitRequested
         \/ PopHigh(t, f) /\ highQueue = << >>
         \/ PopLow(t, f) /\ lowQueue = << >>
         \/ TestTasks(t, f) \/ Predicate(t, f) \/ Sleep(t, f) \/ FinishTest(t, f)
  PROVE  IInv' /\ PoolStep
<1>0. /\ TypeOK /\ Fits(pc[f], Top(f)) /\ (Top(f).task = Run => f # 0) /\ FrameFits(Top(f))
      /\ f = 0 /\ exitRequested => pc[f] \in Adding \cup {"addNotify", "join", "done"}
  BY LocationFacts
<1>1. ASSUME NEW l \in {"popHigh", "popLow", "testTasks", "predicate", "sleep", "nextFiber"},
             pc[f] \in {"run", "popHigh", "popLow", "testTasks", "predicate", "sleep"},
             l \in {"predicate", "sleep"} => t # 0,
             running[t] = f, pc' = [pc EXCEPT ![f] = l],
             UNCHANGED <<sched, tasks, numTasks, stack, exitRequested>>,
             mutex' \in Threads \cup {None}, sleeping' \subseteq Workers
      PROVE  IInv' /\ PoolStep
  <2>1. /\ l \in Location \ ({"start", "resume", "chosen", "switch", "fork", "yield", "decRef", "purge"}
                              \cup Finishing \cup Adding)
        /\ pc[f] \notin {"start", "resume", "chosen", "switch", "fork", "yield"} \cup Finishing \cup Adding
        /\ "doneNotify" \in Finishing
    BY <1>1 DEF Location, Finishing, Adding
  <2>2. Top(f).at \in {"run", "wait"} /\ ~(f = 0 /\ exitRequested)
    BY <1>0, <1>1 DEF Fits, Adding
  <2>3. Fits(l, Top(f))
    BY <1>1, <2>1, <2>2 DEF Fits, Finishing
  <2> QED
    BY <1>1, <2>1, <2>2, <2>3, LoopPreserves
<1>2. mutex \in Threads \cup {None} /\ sleeping \subseteq Workers
  BY <1>0 DEF TypeOK
<1>3. CASE RunTest(t, f) /\ ~exitRequested
  BY <1>1, <1>2, <1>3 DEF RunTest, At, Goto, sched, sync
<1>4. CASE \/ PopHigh(t, f) /\ highQueue = << >>
           \/ PopLow(t, f) /\ lowQueue = << >>
  BY <1>1, <1>2, <1>4 DEF PopHigh, PopLow, At, Goto, tasks, sync
<1>5. CASE TestTasks(t, f)
  <2>1. PICK l \in {"nextFiber", "predicate"} :
          pc' = [pc EXCEPT ![f] = l] /\ (l = "predicate" => t # 0)
    BY <1>5 DEF TestTasks, Goto
  <2> QED
    BY <1>1, <1>2, <1>5, <2>1 DEF TestTasks, At, sync
<1>6. ASSUME pc[f] \in {"predicate", "sleep"}, running[t] = f
      PROVE  t # 0 /\ t \in Workers
  BY <1>6, NumberFacts DEF IInv, FiberInv, Running
<1>7. CASE Predicate(t, f) \/ Sleep(t, f)
  <2>1. PICK l \in {"nextFiber", "sleep", "predicate"} :
          /\ pc' = [pc EXCEPT ![f] = l] /\ mutex' \in Threads \cup {None}
          /\ sleeping' \in {sleeping, sleeping \cup {t}}
    BY <1>2, <1>7 DEF Predicate, Sleep, Goto
  <2>2. /\ running[t] = f /\ pc[f] \in {"predicate", "sleep"}
        /\ UNCHANGED <<sched, tasks, numTasks, stack, exitRequested>>
    BY <1>7 DEF Predicate, Sleep, At
  <2>3. t # 0 /\ sleeping' \subseteq Workers
    BY <1>2, <1>6, <2>1, <2>2
  <2> QED
    BY <1>1, <2>1, <2>2, <2>3
<1>8. CASE FinishTest(t, f)
  <2>1. PICK l \in {"nextFiber", "exit"} : pc' = [pc EXCEPT ![f] = l]
    BY <1>8 DEF FinishTest, Goto
  <2> QED
    BY ZenonT(40), <1>0, <1>8, <2>1, LoopPreserves
       DEF FinishTest, At, Fits, Finishing, Adding, Location, sched, tasks, sync, TypeOK
<1> QED
  BY <1>3, <1>4, <1>5, <1>7, <1>8

\* The accesses around the change of m_numTasks, and the end of Purge.
LEMMA NotifyingPreserves ==
  ASSUME IInv, NEW t \in Threads, NEW f \in Fibers,
         AddTest(t, f) \/ AddNotify(t, f) \/ DoneTest(t, f) \/ Join(t, f)
  PROVE  IInv' /\ PoolStep
<1>0. /\ TypeOK /\ Fits(pc[f], Top(f)) /\ FrameFits(Top(f))
      /\ f = 0 /\ exitRequested => /\ pc[f] \in Adding \cup {"addNotify", "join", "done"}
                                   /\ Top(f).task = Main
  BY LocationFacts
<1>1. CASE AddTest(t, f)
  <2>1. PICK l \in {"addLocked", "addBare"} : pc' = [pc EXCEPT ![f] = l]
    BY <1>1 DEF AddTest, Goto
  <2> QED
    BY ZenonT(40), <1>0, <1>1, <2>1, LoopPreserves
       DEF AddTest, At, Fits, Finishing, Adding, Location, sched, tasks, sync, TypeOK
<1>2. CASE AddNotify(t, f)
  <2>1. PICK l \in {"join", "wait"} :
          /\ pc' = [pc EXCEPT ![f] = l]
          /\ l = "join" <=> Top(f).task = Main /\ exitRequested
    BY <1>2 DEF AddNotify, Goto, AfterAdd
  <2> QED
    BY ZenonT(40), <1>0, <1>2, <2>1, LoopPreserves
       DEF AddNotify, NotifyAll, At, Fits, Finishing, Adding, Location, sched, tasks, TypeOK
<1>3. CASE DoneTest(t, f)
  <2>1. PICK l \in {"doneLocked", "doneBare"} : pc' = [pc EXCEPT ![f] = l]
    BY <1>3 DEF DoneTest, Goto
  <2> QED
    BY ZenonT(40), <1>0, <1>3, <2>1, LoopPreserves
       DEF DoneTest, At, Fits, Finishing, Adding, Location, sched, tasks, sync, TypeOK
<1>4. CASE Join(t, f)
  <2>1. Top(f).at # "fork"
    BY <1>0, <1>4, NamesApart DEF Join, At, Fits, FrameFits
  <2> QED
    BY ZenonT(40), <1>0, <1>4, <2>1, LoopPreserves
       DEF Join, At, Goto, Fits, Finishing, Adding, Location, sched, tasks, sync, TypeOK
<1> QED
  BY <1>1, <1>2, <1>3, <1>4
-------------------------------------------------------------------------------
(* Steps that change a fiber's innermost frame.                            *)

LEMMA SetTopFacts ==
  ASSUME TypeOK, Stacked, NEW f \in Fibers, NEW frame \in Frames, SetTop(f, frame)
  PROVE  /\ stack' \in [Fibers -> Seq(Frames)]
         /\ \A g \in Fibers : g # f => stack'[g] = stack[g]
         /\ Len(stack'[f]) = Len(stack[f])
         /\ \A i \in 1..(Len(stack[f]) - 1) : stack'[f][i] = stack[f][i]
         /\ Top(f)' = frame
<1> DEFINE n == Len(stack[f])
<1>1. /\ stack \in [Fibers -> Seq(Frames)] /\ stack[f] \in Seq(Frames) /\ n \in Nat \ {0}
      /\ DOMAIN stack[f] = 1..n
  BY TopFacts DEF TypeOK
<1>2. /\ stack' = [stack EXCEPT ![f] = [stack[f] EXCEPT ![n] = frame]]
  BY <1>1 DEF SetTop
<1>3. n \in 1..n /\ \A i \in 1..(n - 1) : i \in 1..n /\ i # n
  <2>1. \A m \in Nat \ {0} : m \in 1..m /\ \A i \in 1..(m - 1) : i \in 1..m /\ i # m
    OBVIOUS
  <2> QED
    BY <1>1, <2>1
<1>4. /\ [stack[f] EXCEPT ![n] = frame] \in Seq(Frames)
      /\ Len([stack[f] EXCEPT ![n] = frame]) = n
      /\ [stack[f] EXCEPT ![n] = frame][n] = frame
      /\ \A i \in 1..(n - 1) : [stack[f] EXCEPT ![n] = frame][i] = stack[f][i]
  <2>1. /\ [stack[f] EXCEPT ![n] = frame] \in Seq(Frames)
        /\ Len([stack[f] EXCEPT ![n] = frame]) = n
        /\ \A j \in 1..n : [stack[f] EXCEPT ![n] = frame][j] = IF j = n THEN frame ELSE stack[f][j]
    BY <1>1, <1>3, ExceptSeq
  <2> QED
    BY <1>3, <2>1
<1>5. /\ stack' \in [Fibers -> Seq(Frames)] /\ stack'[f] = [stack[f] EXCEPT ![n] = frame]
      /\ \A g \in Fibers : g # f => stack'[g] = stack[g]
  BY <1>1, <1>2, <1>4
<1>6. Top(f)' = frame
  BY <1>4, <1>5 DEF Top
<1> QED
  BY <1>4, <1>5, <1>6

\* FinishFiber is entered from Run's loop; a task yields.
LEMMA NotingPreserves ==
  ASSUME IInv, NEW t \in Threads, NEW f \in Fibers,
         \/ RunTest(t, f) /\ exitRequested
         \/ YieldFiber(t, f)
  PROVE  IInv' /\ PoolStep
<1>0. /\ TypeOK /\ Stacked /\ Fits(pc[f], Top(f)) /\ FrameFits(Top(f))
      /\ (Top(f).task = Run => f # 0)
      /\ f = 0 /\ exitRequested => pc[f] \in Adding \cup {"addNotify", "join", "done"}
      /\ TaskInv /\ FiberInv
  BY LocationFacts DEF IInv
<1>1. ASSUME NEW l \in Location, NEW frame \in Frames, running[t] = f, SetTop(f, frame),
             pc' = [pc EXCEPT ![f] = l], l \notin {"start", "resume", "chosen", "switch"},
             pc[f] \in {"run", "yield"}, l \in {"finish", "nextFiber"},
             frame.task = Top(f).task, FrameFits(frame), Fits(l, frame),
             \/ pc[f] = "yield" \/ Top(f).at = "fork" <=> frame.at = "fork"
             \/ Elems(Children[Top(f).task]) = {},
             finishOn' \in [Fibers -> Threads \cup {None}],
             UNCHANGED <<running, current, last, threadQueue, executeQueue, target, tasks, sync,
                         exitRequested>>
      PROVE  IInv' /\ PoolStep
  <2>1. /\ pc'[f] = l /\ \A g \in Fibers : g # f => pc'[g] = pc[g]
        /\ pc' \in [Fibers -> Location]
    BY <1>0, <1>1 DEF TypeOK
  <2>2. /\ stack' \in [Fibers -> Seq(Frames)]
        /\ \A g \in Fibers : g # f => stack'[g] = stack[g]
        /\ Len(stack'[f]) = Len(stack[f])
        /\ \A i \in 1..(Len(stack[f]) - 1) : stack'[f][i] = stack[f][i]
        /\ Top(f)' = frame
    BY <1>0, <1>1, SetTopFacts
  <2>3. TypeOK'
    BY <1>0, <1>1, <2>1, <2>2 DEF TypeOK, tasks, sync
  <2>4. FiberInv'
    BY <1>0, <1>1, <2>1, FibersStay
  <2>5. /\ pc[f] \notin Finishing \cup Adding /\ l \notin Finishing \cup Adding \cup {"decRef", "purge"}
        /\ pc[f] # "doneNotify" /\ l # "doneNotify" /\ ~(f = 0 /\ exitRequested)
    BY <1>0, <1>1 DEF Finishing, Adding
  <2>6. UNCHANGED <<tasks, numTasks, exitRequested>> /\ Top(f)'.task = Top(f).task
    BY <1>1, <2>2 DEF sync
  <2>7. \/ pc[f] \in {"fork", "yield"} \/ Top(f).at = "fork"
              <=> pc'[f] \in {"fork", "yield"} \/ Top(f)'.at = "fork"
        \/ Elems(Children[Top(f).task]) = {}
    BY <1>1, <2>1, <2>2
  <2>8. TaskInv' /\ TaskState' = TaskState
    BY <1>0, <1>1, <2>1, <2>2, <2>5, <2>6, <2>7, TasksStay
  <2> QED
    BY <2>3, <2>4, <2>6, <2>8 DEF IInv, PoolStep
<1>2. CASE RunTest(t, f) /\ exitRequested
  <2>1. /\ running[t] = f /\ pc[f] = "run" /\ SetTop(f, Frame(Run, "finish"))
        /\ pc' = [pc EXCEPT ![f] = "finish"] /\ finishOn' = [finishOn EXCEPT ![f] = t]
        /\ UNCHANGED <<running, current, last, threadQueue, executeQueue, target, tasks, sync,
                       exitRequested>>
    BY <1>2 DEF RunTest, At, Goto
  <2>2. Top(f).task = Run /\ Top(f).at = "run"
    BY <1>0, <2>1 DEF Fits, FrameFits
  <2>3. /\ Frame(Run, "finish") \in Frames /\ FrameFits(Frame(Run, "finish"))
        /\ Fits("finish", Frame(Run, "finish")) /\ "finish" \in Location
        /\ Frame(Run, "finish").task = Run /\ Frame(Run, "finish").at = "finish"
    BY DEF Frame, Frames, FrameFits, Fits, Finishing, Location
  <2>4. finishOn' \in [Fibers -> Threads \cup {None}]
    BY <1>0, <2>1 DEF TypeOK
  <2> QED
    BY <1>1, <2>1, <2>2, <2>3, <2>4
<1>3. CASE YieldFiber(t, f)
  <2> DEFINE k == Top(f).task
             frame == Frame(k, AfterYield(k))
  <2>1. /\ running[t] = f /\ pc[f] = "yield" /\ SetTop(f, frame)
        /\ pc' = [pc EXCEPT ![f] = "nextFiber"]
        /\ UNCHANGED <<running, current, last, threadQueue, executeQueue, target, finishOn, tasks,
                       sync, exitRequested>>
    BY <1>3 DEF YieldFiber, At, Goto, sched
  <2>2. k \in Task
    BY <1>0, <2>1 DEF Fits
  <2>3. \/ AfterYield(k) = "fork"
        \/ AfterYield(k) = "decRef" /\ Children[k] = << >>
    BY Zenon DEF AfterYield
  <2>4. frame.task = k /\ frame.at = AfterYield(k) /\ frame \in Frames
    BY <2>2, <2>3, NamesApart DEF Frame, Frames
  <2>5. FrameFits(frame) /\ Fits("nextFiber", frame) /\ "nextFiber" \in Location
    BY <2>2, <2>3, <2>4 DEF FrameFits, Fits, Finishing, Location
  <2>6. frame.at = "fork" \/ Elems(Children[k]) = {}
    BY <2>3, <2>4, EmptyElems
  <2>7. finishOn' \in [Fibers -> Threads \cup {None}]
    BY <1>0, <2>1 DEF TypeOK
  <2> HIDE DEF frame
  <2> QED
    BY <1>1, <2>1, <2>4, <2>5, <2>6, <2>7
<1> QED
  BY <1>2, <1>3

\* A program has one frame, so what the frame says holds of the program.
LEMMA OneFrame ==
  ASSUME TypeOK, TaskInv, NEW f \in Fibers, NEW g \in Fibers,
         Top(f).task = Top(g).task, Top(f).task \in Programs
  PROVE  f = g
<1>1. CASE Top(f).task = Main
  BY <1>1, TopFacts DEF TaskInv
<1>2. CASE Top(f).task \in Task
  <2>1. Len(stack[f]) \in 2..Len(stack[f]) /\ Len(stack[g]) \in 2..Len(stack[g])
    <3>1. \A n \in Nat \ {0} : n >= 2 => n \in 2..n
      OBVIOUS
    <3> QED
      BY <1>2, <3>1, TopFacts DEF TaskInv
  <2> QED
    BY <2>1 DEF TaskInv, TasksApart, Top
<1> QED
  BY <1>1, <1>2, NamesApart

LEMMA HasForked ==
  ASSUME TypeOK, TaskInv, NEW f \in Fibers, Top(f).task \in Programs
  PROVE  YetToFork(Top(f).task) <=> pc[f] \in {"fork", "yield"} \/ Top(f).at = "fork"
<1> DEFINE p == Top(f).task
<1>1. ASSUME p \in Task
      PROVE  counterOf[p] # Unset /\ ~Queued(p)
  <2>1. Len(stack[f]) \in 2..Len(stack[f])
    <3>1. \A n \in Nat \ {0} : n >= 2 => n \in 2..n
      OBVIOUS
    <3> QED
      BY <1>1, <3>1, TopFacts DEF TaskInv
  <2> QED
    BY <2>1 DEF TaskInv, TasksApart, Top
<1>2. \A g \in Fibers : Top(g).task = p => g = f
  BY OneFrame
<1> QED
  BY <1>1, <1>2 DEF YetToFork

LEMMA ChildrenFacts ==
  ASSUME NEW p \in Programs
  PROVE  Children[p] \in Seq(Task) /\ Elems(Children[p]) \subseteq Task
<1>1. Children[p] \in Seq(Task)
  BY ProgramAssumption DEF Programs
<1> QED
  BY <1>1, ElemsFacts

\* A wait ends when the counter reads zero: its tasks are done.
LEMMA WaitTestPreserves ==
  ASSUME IInv, NEW t \in Threads, NEW f \in Fibers, WaitTest(t, f)
  PROVE  IInv' /\ PoolStep
<1> DEFINE p == Top(f).task
<1>0. /\ TypeOK /\ Stacked /\ Fits(pc[f], Top(f)) /\ FrameFits(Top(f)) /\ TaskInv
      /\ f = 0 /\ exitRequested => pc[f] \in Adding \cup {"addNotify", "join", "done"}
  BY LocationFacts DEF IInv
<1>1. /\ running[t] = f /\ pc[f] = "wait" /\ Top(f).at = "wait"
      /\ UNCHANGED <<sched, tasks, sync, stack, exitRequested>>
      /\ ~(f = 0 /\ exitRequested)
  BY <1>0 DEF WaitTest, At, Fits, Adding
<1>2. p \in Programs /\ p # Run
  BY <1>0, <1>1, NamesApart DEF FrameFits
<1>3. PICK l \in {"popHigh", "purge", "decRef"} :
        /\ pc' = [pc EXCEPT ![f] = l]
        /\ l \in {"purge", "decRef"} => counter[p] = 0
        /\ l = "purge" <=> counter[p] = 0 /\ p = Main
  BY DEF WaitTest, Goto
<1>4. Fits(l, Top(f))
  BY <1>0, <1>1, <1>2, <1>3, NamesApart DEF Fits, FrameFits, Finishing
<1>5. ASSUME l \in {"decRef", "purge"}
      PROVE  \A k \in Elems(Children[p]) : TaskState[k] = "done"
  <2>1. counter[p] = 0
    BY <1>3, <1>5
  <2>2. \A k \in Task : counterOf[k] = p => TaskState[k] = "done"
    <3> DEFINE S == {k \in Task : counterOf[k] = p /\ TaskState[k] # "done"}
    <3>1. Cardinality(S) = 0 /\ IsFiniteSet(S)
      BY <1>0, <1>2, <2>1, NamesApart, FS_Subset DEF TaskInv, CounterCountsTasks
    <3>2. S = {}
      BY <3>1, FS_EmptySet
    <3> QED
      BY <3>2
  <2>3. ~YetToFork(p)
    BY <1>0, <1>1, <1>2, HasForked
  <2>4. \A k \in Elems(Children[p]) : counterOf[k] = p /\ k \in Task
    <3>2. Elems(Children[p]) \subseteq Task
      BY <1>2, ChildrenFacts
    <3> QED
      BY <1>0, <1>2, <2>3, <3>2 DEF TaskInv, ForkedOnce
  <2> QED
    BY <2>2, <2>4
<1>6. /\ mutex' \in Threads \cup {None} /\ sleeping' \subseteq Workers
      /\ UNCHANGED <<sched, tasks, numTasks, stack, exitRequested>>
  BY <1>0, <1>1 DEF TypeOK, sync
<1>7. /\ pc[f] \notin {"start", "resume", "chosen", "switch", "fork", "yield", "doneNotify"}
      /\ l \notin {"start", "resume", "chosen", "switch", "fork", "yield", "doneNotify", "predicate", "sleep"}
      /\ pc[f] \notin Finishing \cup Adding /\ l \notin Finishing \cup Adding /\ l \in Location
  BY <1>1 DEF Finishing, Adding, Location
<1> HIDE DEF p
<1> QED
  BY <1>1, <1>3, <1>4, <1>5, <1>6, <1>7, LoopPreserves DEF p

LEMMA ExitingPreserves ==
  ASSUME IInv, NEW t \in Threads, NEW f \in Fibers, Exit(t, f)
  PROVE  IInv' /\ PoolStep
<1>0. /\ TypeOK /\ Stacked /\ Fits(pc[f], Top(f)) /\ FrameFits(Top(f)) /\ TaskInv /\ FiberInv
      /\ (Top(f).task = Run => f # 0)
  BY LocationFacts DEF IInv
<1>1. /\ running[t] = f /\ pc[f] = "exit" /\ pc' = [pc EXCEPT ![f] = "done"]
      /\ running' = [running EXCEPT ![t] = None]
      /\ UNCHANGED <<current, last, threadQueue, executeQueue, target, finishOn,
                     tasks, sync, stack, exitRequested>>
  BY DEF Exit, At, Goto
<1>2. Top(f).at = "finish" /\ f # 0
  BY <1>0, <1>1 DEF Fits, FrameFits
<1>3. FiberInv'
  BY <1>0, <1>2, ExitPreserves
<1>4. TypeOK'
  <2>1. pc' \in [Fibers -> Location] /\ running' \in [Threads -> Fibers \cup {None}]
    BY <1>0, <1>1 DEF TypeOK, Location
  <2> QED
    BY <1>0, <1>1, <2>1 DEF TypeOK, tasks, sync
<1>5. TaskInv' /\ PoolStep
  <2>1. "done" \in Location /\ "done" \notin Finishing \cup Adding /\ pc[f] \notin Finishing \cup Adding
    BY <1>1 DEF Location, Finishing, Adding
  <2>2. Fits("done", Top(f))
    BY DEF Fits, Finishing
  <2> QED
    BY <1>0, <1>1, <1>2, <2>1, <2>2, TasksIdle DEF sync
<1> QED
  BY <1>3, <1>4, <1>5 DEF IInv
-------------------------------------------------------------------------------
(* Steps that change what becomes of a task.                               *)

LEMMA BodyFacts ==
  ASSUME NEW k \in Task
  PROVE  /\ Body(k) \in {"yield", "fork", "decRef"}
         /\ Body(k) = "decRef" => Children[k] = << >>
<1>1. AfterYield(k) = "fork" \/ (AfterYield(k) = "decRef" /\ Children[k] = << >>)
  BY Zenon DEF AfterYield
<1>2. Body(k) = "yield" \/ Body(k) = AfterYield(k)
  BY DEF Body
<1> QED
  BY <1>1, <1>2

\* Task x is in one of the frames of g, save the innermost if g is in L.
Held(x, g, L) == \E i \in 2..Len(stack[g]) :
                   stack[g][i].task = x /\ ~(i = Len(stack[g]) /\ pc[g] \in L)

LEMMA HeldFacts ==
  ASSUME NEW x
  PROVE  /\ OnStack(x) <=> \E g \in Fibers : Held(x, g, Finishing)
         /\ OnStack(x)' <=> \E g \in Fibers : Held(x, g, Finishing)'
         /\ Begun(x) <=> \E g \in Fibers : Held(x, g, {"doneNotify"})
         /\ Begun(x)' <=> \E g \in Fibers : Held(x, g, {"doneNotify"})'
BY DEF Held, OnStack, Begun

\* A task leaves its queue for the stack of the fiber that executes it.
LEMMA ExecutePreserves ==
  ASSUME IInv, NEW t \in Threads, NEW f \in Fibers, running[t] = f,
         pc[f] \in {"popHigh", "popLow"},
         NEW k \in Task, Execute(f, k), UNCHANGED <<sched, counterOf, counter, sync, exitRequested>>,
         highQueue' \in Seq(Task), lowQueue' \in Seq(Task),
         NoRepeats(highQueue'), NoRepeats(lowQueue'), Elems(highQueue') \cap Elems(lowQueue') = {},
         k \in Elems(highQueue) \cup Elems(lowQueue),
         Elems(highQueue') \cup Elems(lowQueue')
           = (Elems(highQueue) \cup Elems(lowQueue)) \ {k}
  PROVE  IInv' /\ PoolStep
<1> DEFINE n == Len(stack[f])
           l == Body(k)
<1>0. /\ TypeOK /\ Stacked /\ TaskInv /\ FiberInv /\ Top(f).at \in {"run", "wait"}
      /\ n \in Nat \ {0} /\ ~(f = 0 /\ exitRequested)
  BY LocationFacts, TopFacts DEF IInv, Fits, Adding
<1>1. /\ l \in {"yield", "fork", "decRef"} /\ (l = "decRef" => Elems(Children[k]) = {})
      /\ pc' = [pc EXCEPT ![f] = l] /\ l \in Location
  BY BodyFacts, EmptyElems DEF Execute, Goto, Location
<1> HIDE DEF l
<1>2. /\ pc'[f] = l /\ \A g \in Fibers : g # f => pc'[g] = pc[g]
      /\ pc' \in [Fibers -> Location]
  BY <1>0, <1>1 DEF TypeOK
<1>3. /\ stack' \in [Fibers -> Seq(Frames)] /\ \A g \in Fibers : g # f => stack'[g] = stack[g]
      /\ Len(stack'[f]) = n + 1 /\ \A i \in 1..n : stack'[f][i] = stack[f][i]
      /\ stack'[f][n + 1] = Frame(k, "wait") /\ stack'[f] # << >>
  <2>1. Frame(k, "wait") \in Frames
    BY DEF Frame, Frames, Programs
  <2>2. /\ stack[f] \in Seq(Frames) /\ stack \in [Fibers -> Seq(Frames)]
        /\ stack' = [stack EXCEPT ![f] = Append(@, Frame(k, "wait"))]
    BY <1>0 DEF TypeOK, Execute
  <2>3. /\ Append(stack[f], Frame(k, "wait")) \in Seq(Frames)
        /\ Append(stack[f], Frame(k, "wait")) # << >>
        /\ Len(Append(stack[f], Frame(k, "wait"))) = n + 1
        /\ \A i \in 1..n : Append(stack[f], Frame(k, "wait"))[i] = stack[f][i]
        /\ Append(stack[f], Frame(k, "wait"))[n + 1] = Frame(k, "wait")
    BY <2>1, <2>2, AppendFacts
  <2> QED
    BY <2>2, <2>3
<1>4. /\ Top(f)'.task = k /\ Top(f)'.at = "wait" /\ \A g \in Fibers : g # f => Top(g)' = Top(g)
  BY <1>0, <1>3 DEF Top, Frame
<1>5. /\ \A i \in 2..n : i \in 1..n /\ i # n + 1 /\ i \in 2..(n + 1)
      /\ \A i \in 2..(n + 1) : i \in 2..n \/ i = n + 1
      /\ n + 1 \in 2..(n + 1) /\ 1 \in 1..n /\ n \in 1..n /\ n \in Nat
      /\ \A i \in 1..(n + 1) : i \in 1..n \/ i = n + 1
      /\ \A i \in 1..((n + 1) - 1) : i \in 1..n /\ (i = n \/ i \in 1..(n - 1))
  <2>1. \A m \in Nat \ {0} :
          /\ \A i \in 2..m : i \in 1..m /\ i # m + 1 /\ i \in 2..(m + 1)
          /\ \A i \in 2..(m + 1) : i \in 2..m \/ i = m + 1
          /\ m + 1 \in 2..(m + 1) /\ 1 \in 1..m /\ m \in 1..m /\ m \in Nat
          /\ \A i \in 1..(m + 1) : i \in 1..m \/ i = m + 1
          /\ \A i \in 1..((m + 1) - 1) : i \in 1..m /\ (i = m \/ i \in 1..(m - 1))
    OBVIOUS
  <2> QED
    BY <1>0, <2>1
<1>51. /\ \A i \in 2..n : i \in 2..(n + 1) /\ stack'[f][i].task = stack[f][i].task
       /\ n + 1 \in 2..(n + 1) /\ stack'[f][n + 1].task = k
       /\ \A i \in 2..(n + 1) : i \in 2..n \/ i = n + 1
  BY <1>3, <1>5 DEF Frame
<1>6. /\ k \in Task /\ Queued(k) /\ \A x \in Task : Queued(x)' <=> Queued(x) /\ x # k
  BY DEF Queued
<1>7. \A g \in Fibers : \A i \in 2..Len(stack[g]) : stack[g][i].task # k /\ stack[g][i].task \in Task
  BY <1>0, <1>6 DEF TaskInv, TasksApart, Stacked
<1>8. /\ pc[f] \notin Finishing \cup Adding \cup {"fork", "yield", "decRef", "purge"}
      /\ l \notin Finishing \cup Adding \cup {"purge"} /\ "doneNotify" \in Finishing
  BY <1>1 DEF Finishing, Adding
<1>9. \A x \in Task : (OnStack(x)' <=> OnStack(x) \/ x = k) /\ (Begun(x)' <=> Begun(x) \/ x = k)
  <2>1. ASSUME NEW x \in Task, NEW L, L \in {Finishing, {"doneNotify"}}
        PROVE  (\E g \in Fibers : Held(x, g, L)') <=> (\E g \in Fibers : Held(x, g, L)) \/ x = k
    <3>1. pc[f] \notin L /\ l \notin L
      BY <1>8, <2>1
    <3>2. Held(x, f, L)' <=> \E i \in 2..(n + 1) : stack'[f][i].task = x
      BY <1>2, <1>3, <3>1 DEF Held
    <3>3. Held(x, f, L) <=> \E i \in 2..n : stack[f][i].task = x
      BY <3>1 DEF Held
    <3>4. Held(x, f, L)' <=> Held(x, f, L) \/ x = k
      BY <1>51, <3>2, <3>3
    <3>5. \A g \in Fibers : g # f => (Held(x, g, L)' <=> Held(x, g, L))
      BY <1>2, <1>3 DEF Held
    <3> QED
      BY <3>4, <3>5
  <2>2. \A x \in Task : (\E g \in Fibers : Held(x, g, Finishing)')
                         <=> (\E g \in Fibers : Held(x, g, Finishing)) \/ x = k
    BY <2>1
  <2>3. \A x \in Task : (\E g \in Fibers : Held(x, g, {"doneNotify"})')
                         <=> (\E g \in Fibers : Held(x, g, {"doneNotify"})) \/ x = k
    BY <2>1
  <2> QED
    BY <2>2, <2>3, HeldFacts
<1>10. ~OnStack(k) /\ ~Begun(k)
  BY <1>7 DEF OnStack, Begun
<1>11. TaskState[k] = "queued" /\ TaskState' = [TaskState EXCEPT ![k] = "running"]
  BY <1>6, <1>9, <1>10 DEF TaskState
<1>12. TypeOK'
  BY <1>0, <1>2, <1>3 DEF TypeOK, sched, sync
<1>13. FiberInv'
  BY <1>0, <1>1, <1>2, FibersStay DEF sched
<1>14. PoolStep
  BY <1>11 DEF PoolStep, Pool!Next, Pool!Start
<1>15. Stacked'
  <2>1. \A i \in 1..(n + 1) : FrameFits(stack'[f][i])
    <3>1. FrameFits(Frame(k, "wait"))
      BY DEF FrameFits, Frame
    <3> QED
      BY <1>0, <1>3, <1>5, <3>1 DEF Stacked
  <2>2. \A i \in 1..((n + 1) - 1) : stack'[f][i].at \in {"run", "wait"}
    BY SMTT(30), <1>0, <1>3, <1>5 DEF Stacked, Top
  <2>3. \A i \in 2..(n + 1) : stack'[f][i].task \in Task
    BY SMTT(30), <1>0, <1>3, <1>5 DEF Stacked, Frame
  <2>4. stack'[f][1].task = IF f = 0 THEN Main ELSE Run
    BY <1>0, <1>3, <1>5 DEF Stacked
  <2> QED
    BY <1>0, <1>3, <2>1, <2>2, <2>3, <2>4 DEF Stacked
<1>16. Placed'
  <2>1. Fits(l, Top(f)')
    BY <1>1, <1>4, <1>8 DEF Fits
  <2> QED
    BY <1>0, <1>2, <1>4, <2>1 DEF TaskInv, Placed
<1>17. TasksApart'
  <2>1. \A g \in Fibers : \A i \in 2..Len(stack'[g]) :
          \/ i \in 2..Len(stack[g]) /\ stack'[g][i].task = stack[g][i].task
          \/ g = f /\ i = n + 1 /\ stack'[g][i].task = k
    <3>1. ASSUME NEW i \in 2..(n + 1)
          PROVE  \/ i \in 2..n /\ stack'[f][i].task = stack[f][i].task
                 \/ i = n + 1 /\ stack'[f][i].task = k
      BY <1>51
    <3>2. ASSUME NEW g \in Fibers, g # f
          PROVE  stack'[g] = stack[g]
      BY <1>3, <3>2
    <3> QED
      BY <1>3, <3>1, <3>2
  <2>2. \A g, h \in Fibers : \A i \in 2..Len(stack'[g]), j \in 2..Len(stack'[h]) :
          stack'[g][i].task = stack'[h][j].task => g = h /\ i = j
    <3>1. \A g, h \in Fibers : \A i \in 2..Len(stack[g]), j \in 2..Len(stack[h]) :
            stack[g][i].task = stack[h][j].task => g = h /\ i = j
      BY <1>0 DEF TaskInv, TasksApart
    <3> SUFFICES ASSUME NEW g \in Fibers, NEW h \in Fibers,
                        NEW i \in 2..Len(stack'[g]), NEW j \in 2..Len(stack'[h]),
                        stack'[g][i].task = stack'[h][j].task
                 PROVE  g = h /\ i = j
      OBVIOUS
    <3>2. /\ \/ i \in 2..Len(stack[g]) /\ stack'[g][i].task = stack[g][i].task
             \/ g = f /\ i = n + 1 /\ stack'[g][i].task = k
          /\ \/ j \in 2..Len(stack[h]) /\ stack'[h][j].task = stack[h][j].task
             \/ h = f /\ j = n + 1 /\ stack'[h][j].task = k
      BY <2>1
    <3>3. /\ i \in 2..Len(stack[g]) => stack[g][i].task # k
          /\ j \in 2..Len(stack[h]) => stack[h][j].task # k
      BY <1>7
    <3> QED
      BY SMTT(30), <3>1, <3>2, <3>3
  <2>3. \A g \in Fibers : \A i \in 2..Len(stack'[g]) :
          (~Queued(stack[g][i].task) /\ counterOf[stack[g][i].task] # Unset)'
    <3>1. \A x \in Task : Queued(x) => counterOf[x] # Unset
      BY <1>0 DEF TaskInv, TasksApart
    <3>2. \A g \in Fibers : \A i \in 2..Len(stack[g]) :
            ~Queued(stack[g][i].task) /\ counterOf[stack[g][i].task] # Unset
      BY <1>0 DEF TaskInv, TasksApart
    <3>3. ~Queued(k)' /\ counterOf'[k] # Unset
      BY <1>6, <3>1
    <3>4. ASSUME NEW g \in Fibers, NEW i \in 2..Len(stack'[g])
          PROVE  \/ i \in 2..Len(stack[g]) /\ stack'[g][i].task = stack[g][i].task
                 \/ stack'[g][i].task = k
      BY <2>1, <3>4
    <3> QED
      BY <1>6, <1>7, <3>2, <3>3, <3>4
  <2>4. \A x \in Task : Queued(x)' => counterOf'[x] # Unset
    BY <1>0, <1>6 DEF TaskInv, TasksApart
  <2> QED
    BY <2>2, <2>3, <2>4 DEF TasksApart
<1>18. ForkedOnce'
  <2>1. \A p \in Programs : Elems(Children[p]) # {} => (YetToFork(p)' <=> YetToFork(p))
    <3>1. YetToFork(k) /\ (Elems(Children[k]) # {} => YetToFork(k)')
      BY <1>1, <1>2, <1>4, <1>6 DEF YetToFork
    <3>2. ASSUME NEW p \in Programs, p # k
          PROVE  YetToFork(p)' <=> YetToFork(p)
      <4>1. \A g \in Fibers :
              /\ Top(g)'.task = p /\ (pc'[g] \in {"fork", "yield"} \/ Top(g)'.at = "fork")
                <=> Top(g).task = p /\ (pc[g] \in {"fork", "yield"} \/ Top(g).at = "fork")
        BY <1>0, <1>2, <1>4, <1>8, <3>2
      <4>2. p \in Task => (Queued(p)' <=> Queued(p))
        BY <1>6, <3>2
      <4> QED
        BY <4>1, <4>2 DEF YetToFork
    <3> QED
      BY <3>1, <3>2
  <2> QED
    BY <1>0, <2>1 DEF TaskInv, ForkedOnce
<1>19. Awaited'
  <2>1. \A x \in Task : TaskState[x] = "done" => TaskState'[x] = "done"
    BY <1>11
  <2>2. \A g \in Fibers : pc'[g] \in {"decRef", "purge"} => Elems(Children[Top(g)'.task]) \subseteq Task
    <3>1. \A g \in Fibers : pc'[g] \in {"decRef", "purge"} => Top(g)'.task \in Programs
      BY <1>16, NamesApart DEF Placed, Fits
    <3> QED
      BY <3>1, ChildrenFacts
  <2> QED
    BY SMTT(30), <1>0, <1>1, <1>2, <1>4, <2>1, <2>2 DEF TaskInv, Awaited
<1>20. Purging'
  BY <1>0, <1>2, <1>3, NumberFacts DEF TaskInv, Purging
<1>21. CounterCountsTasks'
  <2>1. \A x \in Task : TaskState'[x] # "done" <=> TaskState[x] # "done"
    BY <1>11
  <2> QED
    BY <1>0, <2>1 DEF TaskInv, CounterCountsTasks
<1>22. NumTasksCounts'
  <2>1. Unannounced' = Unannounced
    BY <1>2, <1>4, <1>8 DEF Unannounced
  <2>2. Unfinished' = Unfinished
    BY <1>6, <1>9 DEF Unfinished
  <2>3. pc'[0] \in Adding <=> pc[0] \in Adding
    BY <1>2, <1>8, NumberFacts
  <2> QED
    BY <1>0, <2>1, <2>2, <2>3 DEF TaskInv, NumTasksCounts, sync
<1> QED
  BY <1>12, <1>13, <1>14, <1>15, <1>16, <1>17, <1>18, <1>19, <1>20, <1>21, <1>22
     DEF IInv, TaskInv

LEMMA PoppingPreserves ==
  ASSUME IInv, NEW t \in Threads, NEW f \in Fibers,
         \/ PopHigh(t, f) /\ highQueue # << >>
         \/ PopLow(t, f) /\ lowQueue # << >>
  PROVE  IInv' /\ PoolStep
<1>0. /\ highQueue \in Seq(Task) /\ lowQueue \in Seq(Task)
      /\ NoRepeats(highQueue) /\ NoRepeats(lowQueue)
      /\ Elems(highQueue) \cap Elems(lowQueue) = {}
  BY DEF IInv, TypeOK, TaskInv, TasksApart
<1>1. CASE PopHigh(t, f) /\ highQueue # << >>
  <2> DEFINE k == Head(highQueue)
  <2>1. /\ running[t] = f /\ pc[f] = "popHigh" /\ highQueue' = Tail(highQueue) /\ lowQueue' = lowQueue
        /\ Execute(f, k) /\ UNCHANGED <<sched, counterOf, counter, sync, exitRequested>>
    BY <1>1 DEF PopHigh, At
  <2>2. /\ highQueue' \in Seq(Task) /\ k \in Task /\ NoRepeats(highQueue') /\ k \in Elems(highQueue)
        /\ Elems(highQueue') = Elems(highQueue) \ {k}
    BY <1>0, <1>1, <2>1, ElemsFacts, NoRepeatsFacts
  <2> HIDE DEF k
  <2> QED
    BY <1>0, <2>1, <2>2, ExecutePreserves
<1>2. CASE PopLow(t, f) /\ lowQueue # << >>
  <2> DEFINE k == Head(lowQueue)
  <2>1. /\ running[t] = f /\ pc[f] = "popLow" /\ lowQueue' = Tail(lowQueue) /\ highQueue' = highQueue
        /\ Execute(f, k) /\ UNCHANGED <<sched, counterOf, counter, sync, exitRequested>>
    BY <1>2 DEF PopLow, At
  <2>2. /\ lowQueue' \in Seq(Task) /\ k \in Task /\ NoRepeats(lowQueue') /\ k \in Elems(lowQueue)
        /\ Elems(lowQueue') = Elems(lowQueue) \ {k}
    BY <1>0, <1>2, <2>1, ElemsFacts, NoRepeatsFacts
  <2> HIDE DEF k
  <2> QED
    BY <1>0, <2>1, <2>2, ExecutePreserves
<1> QED
  BY <1>1, <1>2

\* After the notify of NotifyTaskComplete the task's frame is gone: nothing
\* that counts tasks has counted it since the subtraction.
LEMMA DoneNotifyPreserves ==
  ASSUME IInv, NEW t \in Threads, NEW f \in Fibers, DoneNotify(t, f)
  PROVE  IInv' /\ PoolStep
<1> DEFINE n == Len(stack[f])
           l == stack[f][n - 1].at
           k == Top(f).task
<1>0. /\ TypeOK /\ Stacked /\ TaskInv /\ FiberInv /\ Top(f).task \in Task
      /\ running[t] = f /\ pc[f] = "doneNotify" /\ ~(f = 0 /\ exitRequested)
      /\ stack' = [stack EXCEPT ![f] = SubSeq(@, 1, n - 1)]
      /\ pc' = [pc EXCEPT ![f] = l] /\ sleeping' = {}
      /\ UNCHANGED <<sched, tasks, numTasks, mutex, exitRequested>>
  BY LocationFacts DEF IInv, DoneNotify, NotifyAll, At, Goto, Fits, Finishing, Adding
<1>1. n \in Nat \ {0} /\ n >= 2 /\ stack[f] \in Seq(Frames)
  BY <1>0, TopFacts DEF TypeOK
<1>2. /\ n - 1 \in Nat \ {0} /\ n \in 2..n /\ n - 1 \in 1..(n - 1) /\ n - 1 \in 1..n
      /\ \A i \in 2..(n - 1) : i \in 2..n /\ i \in 1..(n - 1) /\ i # n
      /\ \A i \in 2..n : i \in 2..(n - 1) \/ i = n
      /\ \A i \in 1..(n - 1) : i \in 1..n
      /\ \A i \in 1..((n - 1) - 1) : i \in 1..(n - 1)
      /\ 1 \in 1..(n - 1)
  <2>1. \A m \in Nat : m >= 2 =>
          /\ m - 1 \in Nat \ {0} /\ m \in 2..m /\ m - 1 \in 1..(m - 1) /\ m - 1 \in 1..m
          /\ \A i \in 2..(m - 1) : i \in 2..m /\ i \in 1..(m - 1) /\ i # m
          /\ \A i \in 2..m : i \in 2..(m - 1) \/ i = m
          /\ \A i \in 1..(m - 1) : i \in 1..m
          /\ \A i \in 1..((m - 1) - 1) : i \in 1..(m - 1)
          /\ 1 \in 1..(m - 1)
    OBVIOUS
  <2> QED
    BY <1>1, <2>1
<1>3. /\ stack' \in [Fibers -> Seq(Frames)] /\ \A g \in Fibers : g # f => stack'[g] = stack[g]
      /\ Len(stack'[f]) = n - 1 /\ \A i \in 1..(n - 1) : stack'[f][i] = stack[f][i]
      /\ stack'[f] # << >>
  <2>1. /\ SubSeq(stack[f], 1, n - 1) \in Seq(Frames) /\ Len(SubSeq(stack[f], 1, n - 1)) = n - 1
        /\ \A i \in 1..(n - 1) : SubSeq(stack[f], 1, n - 1)[i] = stack[f][i]
    <3>1. stack[f] # << >>
      BY <1>0 DEF Stacked
    <3> QED
      BY <1>1, <3>1, FrontFacts
  <2>2. /\ stack' \in [Fibers -> Seq(Frames)] /\ stack'[f] = SubSeq(stack[f], 1, n - 1)
        /\ \A g \in Fibers : g # f => stack'[g] = stack[g]
    BY <1>0, <2>1 DEF TypeOK
  <2> QED
    BY <1>2, <2>1, <2>2, EmptySeq
<1>4. /\ Top(f)' = stack[f][n - 1] /\ \A g \in Fibers : g # f => Top(g)' = Top(g)
      /\ l \in {"run", "wait"} /\ FrameFits(Top(f)') /\ Top(f)'.task # k
      /\ Top(f)'.at = l
  <2>1. Top(f)' = stack[f][n - 1] /\ \A g \in Fibers : g # f => Top(g)' = Top(g)
    BY <1>2, <1>3 DEF Top
  <2>2. l \in {"run", "wait"} /\ FrameFits(stack[f][n - 1])
    BY <1>0, <1>2 DEF Stacked
  <2>3. stack[f][n - 1].task # k
    <3>1. CASE n - 1 \in 2..n
      BY SMTT(30), <1>0, <1>1, <1>2, <3>1 DEF TaskInv, TasksApart, Top
    <3>2. CASE n - 1 = 1
      BY <1>0, <3>2, NamesApart DEF Stacked
    <3>3. n - 1 \in 2..n \/ n - 1 = 1
      <4>1. \A m \in Nat : m >= 2 => m - 1 \in 2..m \/ m - 1 = 1
        OBVIOUS
      <4> QED
        BY <1>1, <4>1
    <3> QED
      BY <3>1, <3>2, <3>3
  <2> QED
    BY <2>1, <2>2, <2>3
<1>5. /\ pc'[f] = l /\ \A g \in Fibers : g # f => pc'[g] = pc[g]
      /\ pc' \in [Fibers -> Location] /\ l \in Location
  BY <1>0, <1>4 DEF TypeOK, Location
<1>6. /\ \A x \in Task : Queued(x)' <=> Queued(x)
  BY <1>0 DEF Queued, tasks
<1>7. /\ pc[f] \notin Adding \cup {"fork", "yield", "decRef", "purge"} /\ pc[f] \in Finishing
      /\ l \notin Finishing \cup Adding \cup {"fork", "yield", "purge", "decRef"} /\ "doneNotify" \in Finishing
  BY <1>0, <1>4 DEF Finishing, Adding
<1>8. \A x \in Task : (OnStack(x)' <=> OnStack(x)) /\ (Begun(x)' <=> Begun(x))
  <2>1. ASSUME NEW x \in Task, NEW L, L \in {Finishing, {"doneNotify"}}
        PROVE  (\E g \in Fibers : Held(x, g, L)') <=> (\E g \in Fibers : Held(x, g, L))
    <3>1. pc[f] \in L /\ l \notin L
      BY <1>0, <1>7, <2>1
    <3>2. Held(x, f, L)' <=> \E i \in 2..(n - 1) : stack'[f][i].task = x
      BY <1>3, <1>5, <3>1 DEF Held
    <3>3. Held(x, f, L) <=> \E i \in 2..n : i # n /\ stack[f][i].task = x
      BY <3>1 DEF Held
    <3>4. \A i \in 2..(n - 1) : stack'[f][i] = stack[f][i] /\ i \in 2..n /\ i # n
      BY <1>2, <1>3
    <3>5. \A i \in 2..n : i # n => i \in 2..(n - 1)
      BY <1>2
    <3>6. Held(x, f, L)' <=> Held(x, f, L)
      BY <3>2, <3>3, <3>4, <3>5
    <3>7. \A g \in Fibers : g # f => (Held(x, g, L)' <=> Held(x, g, L))
      BY <1>3, <1>5 DEF Held
    <3> QED
      BY <3>6, <3>7
  <2>2. \A x \in Task : (\E g \in Fibers : Held(x, g, Finishing)')
                         <=> (\E g \in Fibers : Held(x, g, Finishing))
    BY <2>1
  <2>3. \A x \in Task : (\E g \in Fibers : Held(x, g, {"doneNotify"})')
                         <=> (\E g \in Fibers : Held(x, g, {"doneNotify"}))
    BY <2>1
  <2> QED
    BY <2>2, <2>3, HeldFacts
<1>9. TaskState' = TaskState
  BY <1>0, <1>6, <1>8 DEF TaskState, tasks
<1>10. TypeOK'
  BY <1>0, <1>3, <1>5 DEF TypeOK, sched, tasks
<1>11. FiberInv'
  <2>1. l \notin {"start", "resume", "chosen", "switch", "predicate", "sleep"}
    BY <1>4
  <2> QED
    BY <1>0, <1>5, <2>1, FibersStay DEF sched
<1>12. PoolStep
  BY <1>0, <1>9 DEF PoolStep
<1>13. Stacked'
  <2>1. \A i \in 1..(n - 1) : FrameFits(stack'[f][i])
    BY <1>0, <1>2, <1>3 DEF Stacked
  <2>2. \A i \in 1..((n - 1) - 1) : stack'[f][i].at \in {"run", "wait"}
    BY ZenonT(40), <1>0, <1>2, <1>3 DEF Stacked
  <2>3. \A i \in 2..(n - 1) : stack'[f][i].task \in Task
    BY <1>0, <1>2, <1>3 DEF Stacked
  <2>4. stack'[f][1].task = IF f = 0 THEN Main ELSE Run
    <3>1. stack'[f][1] = stack[f][1]
      BY <1>2, <1>3
    <3> QED
      BY <1>0, <3>1 DEF Stacked
  <2> QED
    BY <1>0, <1>3, <2>1, <2>2, <2>3, <2>4 DEF Stacked
<1>14. Placed'
  <2>1. Fits(l, Top(f)')
    BY <1>4, <1>7 DEF Fits
  <2> QED
    BY <1>0, <1>4, <1>5, <2>1 DEF TaskInv, Placed
<1>15. TasksApart'
  <2>1. \A g \in Fibers : \A i \in 2..Len(stack'[g]) :
          i \in 2..Len(stack[g]) /\ stack'[g][i].task = stack[g][i].task
    <3>1. \A i \in 2..(n - 1) : i \in 2..n /\ stack'[f][i].task = stack[f][i].task
      BY <1>2, <1>3
    <3>2. ASSUME NEW g \in Fibers, g # f
          PROVE  stack'[g] = stack[g]
      BY <1>3, <3>2
    <3> QED
      BY <1>3, <3>1, <3>2
  <2>2. \A g, h \in Fibers : \A i \in 2..Len(stack'[g]), j \in 2..Len(stack'[h]) :
          stack'[g][i].task = stack'[h][j].task => g = h /\ i = j
    BY <1>0, <2>1 DEF TaskInv, TasksApart
  <2>3. \A g \in Fibers : \A i \in 2..Len(stack'[g]) :
          (~Queued(stack[g][i].task) /\ counterOf[stack[g][i].task] # Unset)'
    <3>1. \A g \in Fibers : \A i \in 2..Len(stack[g]) :
            /\ ~Queued(stack[g][i].task) /\ counterOf[stack[g][i].task] # Unset
            /\ stack[g][i].task \in Task
      BY <1>0 DEF TaskInv, TasksApart, Stacked
    <3>2. counterOf' = counterOf
      BY <1>0 DEF tasks
    <3> QED
      BY <1>6, <2>1, <3>1, <3>2
  <2>4. \A x \in Task : Queued(x)' => counterOf'[x] # Unset
    BY <1>0, <1>6 DEF TaskInv, TasksApart, tasks
  <2> QED
    BY <1>0, <2>2, <2>3, <2>4 DEF TaskInv, TasksApart, tasks
<1>16. ForkedOnce'
  <2>1. Top(f).at # "fork" /\ Top(f)'.at # "fork"
    BY <1>0, <1>4, <1>7 DEF TaskInv, Placed, Fits
  <2>2. \A p \in Programs : \A g \in Fibers :
              /\ Top(g)'.task = p /\ (pc'[g] \in {"fork", "yield"} \/ Top(g)'.at = "fork")
                <=> Top(g).task = p /\ (pc[g] \in {"fork", "yield"} \/ Top(g).at = "fork")
    BY <1>4, <1>5, <1>7, <2>1
  <2>3. \A p \in Programs : YetToFork(p)' <=> YetToFork(p)
    BY <1>0, <1>6, <2>2 DEF YetToFork, tasks
  <2> QED
    BY <1>0, <2>3 DEF TaskInv, ForkedOnce, tasks
<1>17. Awaited'
  BY <1>0, <1>4, <1>5, <1>7, <1>9 DEF TaskInv, Awaited
<1>18. Purging'
  BY <1>0, <1>3, <1>5, NumberFacts DEF TaskInv, Purging
<1>19. CounterCountsTasks'
  BY <1>0, <1>9 DEF TaskInv, CounterCountsTasks, tasks
<1>20. NumTasksCounts'
  <2>1. Unannounced' = Unannounced
    BY <1>0, <1>4, <1>5, <1>7 DEF Unannounced
  <2>2. Unfinished' = Unfinished
    BY <1>6, <1>8 DEF Unfinished
  <2>3. pc'[0] \in Adding <=> pc[0] \in Adding
    BY <1>5, <1>7, NumberFacts
  <2> QED
    BY <1>0, <2>1, <2>2, <2>3 DEF TaskInv, NumTasksCounts
<1> QED
  BY <1>10, <1>11, <1>12, <1>13, <1>14, <1>15, <1>16, <1>17, <1>18, <1>19, <1>20
     DEF IInv, TaskInv

\* Stacks and queues stay, and no program has just handed out its tasks.
LEMMA FramesStay ==
  ASSUME TypeOK, TaskInv, NEW f \in Fibers, NEW l \in Location,
         pc' = [pc EXCEPT ![f] = l], UNCHANGED <<stack, highQueue, lowQueue, counterOf>>,
         Fits(l, Top(f)), pc[f] \notin {"fork", "yield"}, l \notin {"fork", "yield"}
  PROVE  /\ Stacked' /\ Placed' /\ TasksApart' /\ ForkedOnce'
         /\ pc'[f] = l /\ \A g \in Fibers : g # f => pc'[g] = pc[g]
         /\ pc' \in [Fibers -> Location]
         /\ \A g \in Fibers : Top(g)' = Top(g)
         /\ \A x \in Task : Queued(x)' <=> Queued(x)
<1>1. /\ pc'[f] = l /\ \A g \in Fibers : g # f => pc'[g] = pc[g]
      /\ pc' \in [Fibers -> Location]
  BY DEF TypeOK
<1>2. \A g \in Fibers : Top(g)' = Top(g)
  BY DEF Top
<1>3. \A x \in Task : Queued(x)' <=> Queued(x)
  BY DEF Queued
<1>4. Stacked'
  BY DEF TaskInv, Stacked
<1>5. Placed'
  BY <1>1, <1>2 DEF TaskInv, Placed
<1>6. TasksApart'
  <2>1. \A g \in Fibers : \A i \in 2..Len(stack[g]) : stack[g][i].task \in Task
    BY DEF TaskInv, Stacked
  <2>2. \A g \in Fibers : \A i \in 2..Len(stack'[g]) :
          (~Queued(stack[g][i].task) /\ counterOf[stack[g][i].task] # Unset)'
    BY <1>3, <2>1 DEF TaskInv, TasksApart
  <2>3. \A x \in Task : Queued(x)' => counterOf'[x] # Unset
    BY <1>3 DEF TaskInv, TasksApart
  <2> QED
    BY <2>2, <2>3 DEF TaskInv, TasksApart
<1>7. ForkedOnce'
  <2>1. \A p \in Programs : \A g \in Fibers :
              /\ Top(g)'.task = p /\ (pc'[g] \in {"fork", "yield"} \/ Top(g)'.at = "fork")
                <=> Top(g).task = p /\ (pc[g] \in {"fork", "yield"} \/ Top(g).at = "fork")
    BY <1>1, <1>2
  <2>2. \A p \in Programs : YetToFork(p)' <=> YetToFork(p)
    BY <1>3, <2>1 DEF YetToFork
  <2> QED
    BY <2>2 DEF TaskInv, ForkedOnce
<1> QED
  BY <1>1, <1>2, <1>3, <1>4, <1>5, <1>6, <1>7

\* The innermost frame is the only one its task is in; it counts unless the
\* fiber is at a location of L.
LEMMA InnermostFacts ==
  ASSUME TypeOK, TaskInv, NEW f \in Fibers, Top(f).task \in Task, NEW L
  PROVE  /\ Held(Top(f).task, f, L) <=> pc[f] \notin L
         /\ \A g \in Fibers : g # f => ~Held(Top(f).task, g, L)
         /\ counterOf[Top(f).task] \in Programs /\ ~Queued(Top(f).task)
<1> DEFINE n == Len(stack[f])
<1>1. n \in 2..n
  <2>1. \A m \in Nat \ {0} : m >= 2 => m \in 2..m
    OBVIOUS
  <2> QED
    BY <2>1, TopFacts DEF TaskInv
<1>2. \A g \in Fibers : \A i \in 2..Len(stack[g]) :
        stack[g][i].task = Top(f).task => g = f /\ i = n
  BY <1>1 DEF TaskInv, TasksApart, Top
<1>3. counterOf[Top(f).task] # Unset /\ ~Queued(Top(f).task)
  BY <1>1 DEF TaskInv, TasksApart, Top
<1>4. counterOf[Top(f).task] \in Programs
  BY <1>3 DEF TypeOK
<1>5. Held(Top(f).task, f, L) <=> pc[f] \notin L
  <2>1. stack[f][n].task = Top(f).task
    BY DEF Top
  <2> QED
    BY <1>1, <1>2, <2>1 DEF Held
<1>6. \A g \in Fibers : g # f => ~Held(Top(f).task, g, L)
  BY <1>2 DEF Held
<1> QED
  BY <1>3, <1>4, <1>5, <1>6

\* Where a fiber goes decides only whether its innermost task counts.
LEMMA HeldStays ==
  ASSUME TypeOK, TaskInv, NEW f \in Fibers, NEW l \in Location,
         pc' = [pc EXCEPT ![f] = l], UNCHANGED stack, NEW L, NEW x,
         x # Top(f).task \/ (pc[f] \in L <=> l \in L)
  PROVE  \A g \in Fibers : Held(x, g, L)' <=> Held(x, g, L)
<1>1. /\ pc'[f] = l /\ \A g \in Fibers : g # f => pc'[g] = pc[g]
  BY DEF TypeOK
<1>2. \A g \in Fibers : g # f => (Held(x, g, L)' <=> Held(x, g, L))
  BY <1>1 DEF Held
<1>3. Held(x, f, L)' <=> Held(x, f, L)
  <2>1. CASE x # Top(f).task
    <3>1. stack[f][Len(stack[f])].task # x
      BY <2>1 DEF Top
    <3> QED
      BY <3>1 DEF Held
  <2>2. CASE pc[f] \in L <=> l \in L
    BY <1>1, <2>2 DEF Held
  <2> QED
    BY <2>1, <2>2
<1> QED
  BY <1>2, <1>3

\* The end of Task::Execute: the task is done, and its counter counts one less.
LEMMA DecRefPreserves ==
  ASSUME IInv, NEW t \in Threads, NEW f \in Fibers, DecRef(t, f)
  PROVE  IInv' /\ PoolStep
<1> DEFINE k == Top(f).task
           c == counterOf[k]
<1>0. /\ TypeOK /\ Stacked /\ TaskInv /\ FiberInv /\ k \in Task /\ Top(f).at # "fork"
      /\ running[t] = f /\ pc[f] = "decRef" /\ ~(f = 0 /\ exitRequested)
      /\ pc' = [pc EXCEPT ![f] = "doneTest"] /\ counter' = [counter EXCEPT ![c] = @ - 1]
      /\ UNCHANGED <<sched, highQueue, lowQueue, counterOf, sync, stack, exitRequested>>
  BY LocationFacts DEF IInv, DecRef, At, Goto, Fits, Adding
<1>1. /\ "doneTest" \in Location /\ "doneTest" \in Finishing /\ "doneTest" \notin Adding
      /\ pc[f] \notin Finishing \cup Adding /\ Fits("doneTest", Top(f))
  BY <1>0 DEF Location, Finishing, Adding, Fits
<1>2. /\ Stacked' /\ Placed' /\ TasksApart' /\ ForkedOnce'
      /\ pc'[f] = "doneTest" /\ \A g \in Fibers : g # f => pc'[g] = pc[g]
      /\ pc' \in [Fibers -> Location]
      /\ \A g \in Fibers : Top(g)' = Top(g)
      /\ \A x \in Task : Queued(x)' <=> Queued(x)
  BY <1>0, <1>1, FramesStay
<1>3. c \in Programs /\ ~Queued(k)
  BY <1>0, InnermostFacts
<1>4. /\ OnStack(k) /\ ~OnStack(k)'
      /\ \A x \in Task : x # k => (OnStack(x)' <=> OnStack(x))
  <2>1. Held(k, f, Finishing)
    BY <1>0, <1>1, InnermostFacts
  <2>2. \A g \in Fibers : ~Held(k, g, Finishing)'
    <3>1. ASSUME NEW g \in Fibers
          PROVE  ~Held(k, g, Finishing)'
      <4>1. \A i \in 2..Len(stack[g]) : stack[g][i].task = k => g = f /\ i = Len(stack[f])
        <5>1. Held(k, g, {}) => g = f
          BY <1>0, InnermostFacts
        <5>2. Len(stack[f]) \in 2..Len(stack[f])
          <6>1. \A m \in Nat \ {0} : m >= 2 => m \in 2..m
            OBVIOUS
          <6> QED
            BY <1>0, <6>1, TopFacts
        <5> QED
          BY <1>0, <5>2 DEF TaskInv, TasksApart, Top
      <4> QED
        BY <1>0, <1>1, <1>2, <4>1 DEF Held
    <3> QED
      BY <3>1
  <2>3. \A x \in Task : x # k => \A g \in Fibers : Held(x, g, Finishing)' <=> Held(x, g, Finishing)
    BY <1>0, <1>1, HeldStays
  <2> QED
    BY <2>1, <2>2, <2>3, HeldFacts
<1>5. \A x \in Task : Begun(x)' <=> Begun(x)
  <2>1. \A x \in Task : \A g \in Fibers : Held(x, g, {"doneNotify"})' <=> Held(x, g, {"doneNotify"})
    BY <1>0, <1>1, HeldStays
  <2> QED
    BY <2>1, HeldFacts
<1>6. TaskState[k] = "running" /\ TaskState' = [TaskState EXCEPT ![k] = "done"]
  <2>1. counterOf' = counterOf /\ counterOf[k] # Unset
    BY <1>0, <1>3, NamesApart
  <2> QED
    BY <1>0, <1>2, <1>3, <1>4, <2>1 DEF TaskState
<1>7. TypeOK'
  <2>1. counter' \in [Programs -> Int]
    BY <1>0, <1>3 DEF TypeOK
  <2> QED
    BY <1>0, <1>2, <2>1 DEF TypeOK, sched, sync
<1>8. FiberInv'
  BY <1>0, <1>2, FibersStay DEF sched
<1>9. PoolStep
  <2>1. \A j \in Elems(Children[k]) : TaskState[j] = "done"
    BY <1>0 DEF TaskInv, Awaited
  <2>2. k \in Programs
    BY <1>0, NamesApart
  <2> HIDE DEF k
  <2> QED
    BY <1>0, <1>6, <2>1, <2>2 DEF PoolStep, Pool!Next, Pool!Finish, Pool!Finished
<1>10. Awaited'
  <2>1. \A x \in Task : TaskState[x] = "done" => TaskState'[x] = "done"
    BY <1>6
  <2>2. ASSUME NEW g \in Fibers, pc'[g] \in {"decRef", "purge"}
        PROVE  \A x \in Elems(Children[Top(g)'.task]) : TaskState'[x] = "done"
    <3>1. g # f /\ pc[g] \in {"decRef", "purge"}
      BY <1>2, <2>2
    <3>2. Top(g).task \in Programs
      BY <1>0, <3>1, NamesApart DEF TaskInv, Placed, Fits
    <3> QED
      BY <1>0, <1>2, <2>1, <3>1, <3>2, ChildrenFacts DEF TaskInv, Awaited
  <2> QED
    BY <2>2 DEF Awaited
<1>11. Purging'
  BY <1>0, <1>2, NumberFacts DEF TaskInv, Purging
<1>12. CounterCountsTasks'
  <2> DEFINE Todo(p) == {x \in Task : counterOf[x] = p /\ TaskState[x] # "done"}
             TodoNow(p) == {x \in Task : counterOf'[x] = p /\ TaskState'[x] # "done"}
  <2>1. \A p \in Programs : counter[p] = Cardinality(Todo(p))
    BY <1>0 DEF TaskInv, CounterCountsTasks
  <2>2. \A p \in Programs : p # c => TodoNow(p) = Todo(p)
    BY <1>0, <1>6
  <2>3. TodoNow(c) = Todo(c) \ {k} /\ k \in Todo(c)
    <3>1. \A x \in Task : TaskState'[x] = IF x = k THEN "done" ELSE TaskState[x]
      BY <1>6 DEF TaskState
    <3> HIDE DEF k
    <3> QED
      BY <1>0, <1>6, <3>1
  <2>4. IsFiniteSet(Todo(c))
    BY NamesApart, FS_Subset
  <2>5. Cardinality(TodoNow(c)) = Cardinality(Todo(c)) - 1
    BY <2>3, <2>4, FS_RemoveElement
  <2>6. counter'[c] = counter[c] - 1 /\ \A p \in Programs : p # c => counter'[p] = counter[p]
    BY <1>0, <1>3 DEF TypeOK
  <2>7. \A p \in Programs : counter'[p] = Cardinality(TodoNow(p))
    <3> HIDE DEF Todo, TodoNow, c
    <3> QED
      BY <1>3, <2>1, <2>2, <2>5, <2>6
  <2> QED
    BY <2>7 DEF CounterCountsTasks
<1>13. NumTasksCounts'
  <2>1. Unannounced' = Unannounced
    BY <1>0, <1>1, <1>2 DEF Unannounced
  <2>2. Unfinished' = Unfinished
    BY <1>2, <1>5 DEF Unfinished
  <2>3. pc'[0] \in Adding <=> pc[0] \in Adding
    BY <1>1, <1>2, NumberFacts
  <2> QED
    BY <1>0, <2>1, <2>2, <2>3 DEF TaskInv, NumTasksCounts, sync
<1> QED
  BY <1>2, <1>7, <1>8, <1>9, <1>10, <1>11, <1>12, <1>13 DEF IInv, TaskInv

\* The subtraction of NotifyTaskComplete.
LEMMA DoneSubPreserves ==
  ASSUME IInv, NEW t \in Threads, NEW f \in Fibers, DoneSub(t, f)
  PROVE  IInv' /\ PoolStep
<1> DEFINE k == Top(f).task
<1>0. /\ TypeOK /\ Stacked /\ TaskInv /\ FiberInv /\ k \in Task /\ Top(f).at # "fork"
      /\ running[t] = f /\ pc[f] \in {"doneLocked", "doneBare"} /\ ~(f = 0 /\ exitRequested)
      /\ pc' = [pc EXCEPT ![f] = "doneNotify"] /\ numTasks' = numTasks - 1
      /\ UNCHANGED <<sched, tasks, mutex, sleeping, stack, exitRequested>>
  <2>1. /\ TypeOK /\ Stacked /\ TaskInv /\ FiberInv /\ Fits(pc[f], Top(f))
        /\ f = 0 /\ exitRequested => pc[f] \in Adding \cup {"addNotify", "join", "done"}
    BY LocationFacts DEF IInv
  <2>2. /\ running[t] = f /\ pc[f] \in {"doneLocked", "doneBare"}
        /\ pc' = [pc EXCEPT ![f] = "doneNotify"] /\ numTasks' = numTasks - 1
        /\ UNCHANGED <<sched, tasks, mutex, sleeping, stack, exitRequested>>
    BY DEF DoneSub, At, Goto
  <2> QED
    BY <2>1, <2>2 DEF Fits, Adding, Finishing
<1>1. /\ "doneNotify" \in Location /\ "doneNotify" \in Finishing /\ "doneNotify" \notin Adding
      /\ pc[f] \in Finishing /\ pc[f] \notin Adding /\ Fits("doneNotify", Top(f))
      /\ pc[f] \notin {"doneNotify", "fork", "yield"}
  BY <1>0 DEF Location, Finishing, Adding, Fits
<1>2. /\ Stacked' /\ Placed' /\ TasksApart' /\ ForkedOnce'
      /\ pc'[f] = "doneNotify" /\ \A g \in Fibers : g # f => pc'[g] = pc[g]
      /\ pc' \in [Fibers -> Location]
      /\ \A g \in Fibers : Top(g)' = Top(g)
      /\ \A x \in Task : Queued(x)' <=> Queued(x)
  BY <1>0, <1>1, FramesStay DEF tasks
<1>3. \A x \in Task : OnStack(x)' <=> OnStack(x)
  <2>1. \A x \in Task : \A g \in Fibers : Held(x, g, Finishing)' <=> Held(x, g, Finishing)
    BY <1>0, <1>1, HeldStays
  <2> QED
    BY <2>1, HeldFacts
<1>4. /\ Begun(k) /\ ~Begun(k)' /\ ~Queued(k)
      /\ \A x \in Task : x # k => (Begun(x)' <=> Begun(x))
  <2>1. Held(k, f, {"doneNotify"}) /\ ~Queued(k)
    BY <1>0, <1>1, InnermostFacts
  <2>2. \A g \in Fibers : ~Held(k, g, {"doneNotify"})'
    <3>1. ASSUME NEW g \in Fibers, NEW i \in 2..Len(stack[g]), stack[g][i].task = k
          PROVE  g = f /\ i = Len(stack[f])
      <4>1. Len(stack[f]) \in 2..Len(stack[f])
        <5>1. \A m \in Nat \ {0} : m >= 2 => m \in 2..m
          OBVIOUS
        <5> QED
          BY <1>0, <5>1, TopFacts
      <4> QED
        BY <1>0, <3>1, <4>1 DEF TaskInv, TasksApart, Top
    <3> QED
      BY <1>0, <1>2, <3>1 DEF Held
  <2>3. \A x \in Task : x # k => \A g \in Fibers : Held(x, g, {"doneNotify"})' <=> Held(x, g, {"doneNotify"})
    BY <1>0, <1>1, HeldStays
  <2> QED
    BY <2>1, <2>2, <2>3, HeldFacts
<1>5. TaskState' = TaskState
  BY <1>0, <1>2, <1>3 DEF TaskState, tasks
<1>6. TypeOK'
  BY <1>0, <1>2 DEF TypeOK, sched, tasks
<1>7. FiberInv'
  BY <1>0, <1>2, FibersStay DEF sched
<1>8. Awaited'
  BY <1>2, <1>0, <1>5 DEF TaskInv, Awaited
<1>9. Purging'
  BY <1>0, <1>2, NumberFacts DEF TaskInv, Purging
<1>10. CounterCountsTasks'
  BY <1>0, <1>5 DEF TaskInv, CounterCountsTasks, tasks
<1>11. NumTasksCounts'
  <2>1. Unannounced' = Unannounced
    BY <1>0, <1>1, <1>2 DEF Unannounced
  <2>2. Unfinished' = Unfinished \ {k} /\ k \in Unfinished
    BY <1>0, <1>2, <1>4 DEF Unfinished
  <2>3. Cardinality(Unfinished') = Cardinality(Unfinished) - 1
    <3>1. IsFiniteSet(Unfinished)
      BY NamesApart, FS_Subset DEF Unfinished
    <3> QED
      BY <2>2, <3>1, FS_RemoveElement
  <2>4. pc'[0] \in Adding <=> pc[0] \in Adding
    BY <1>1, <1>2, NumberFacts
  <2>5. /\ numTasks \in Int /\ Cardinality(Unannounced) \in Int /\ Cardinality(Unfinished) \in Int
        /\ NumThreads - 1 \in Int
    <3>1. IsFiniteSet(Unfinished) /\ IsFiniteSet(Unannounced)
      BY NamesApart, FS_Subset DEF Unfinished, Unannounced
    <3> QED
      BY <1>0, <3>1, FS_CardinalityType, CountAssumption DEF TypeOK
  <2>6. numTasks + Cardinality(Unannounced) = Cardinality(Unfinished)
          + (IF exitRequested /\ pc[0] \notin Adding THEN NumThreads - 1 ELSE 0)
    BY <1>0 DEF TaskInv, NumTasksCounts
  <2>7. numTasks' + Cardinality(Unannounced') = Cardinality(Unfinished')
          + (IF exitRequested' /\ pc'[0] \notin Adding THEN NumThreads - 1 ELSE 0)
    BY <1>0, <2>1, <2>3, <2>4, <2>5, <2>6
  <2> QED
    BY <2>7 DEF NumTasksCounts
<1> QED
  BY <1>0, <1>2, <1>5, <1>6, <1>7, <1>8, <1>9, <1>10, <1>11 DEF IInv, TaskInv, PoolStep

\* Cleanup sets the exit flag: main's tasks are done.
LEMMA PurgePreserves ==
  ASSUME IInv, NEW t \in Threads, NEW f \in Fibers, Purge(t, f)
  PROVE  IInv' /\ PoolStep
<1>0. /\ TypeOK /\ Stacked /\ TaskInv /\ FiberInv /\ Top(f).task = Main
      /\ running[t] = f /\ pc[f] = "purge" /\ pc' = [pc EXCEPT ![f] = "addTest"]
      /\ exitRequested' = TRUE /\ UNCHANGED <<sched, tasks, sync, stack>>
  BY LocationFacts DEF IInv, Purge, At, Goto, Fits
<1>1. f = 0 /\ Len(stack[f]) = 1 /\ ~exitRequested /\ Top(f).at = "wait"
  <2>1. f = 0 /\ Len(stack[f]) = 1
    BY <1>0, TopFacts
  <2>2. ~exitRequested
    BY <1>0, <2>1 DEF TaskInv, Purging, Adding
  <2>3. Top(f).at = "wait"
    BY <1>0, TopFacts, NamesApart DEF FrameFits
  <2> QED
    BY <2>1, <2>2, <2>3
<1>2. /\ "addTest" \in Location /\ "addTest" \notin Finishing /\ "addTest" \in Adding
      /\ pc[f] \notin Finishing /\ pc[f] \notin Adding /\ Fits("addTest", Top(f))
  BY <1>0, <1>1 DEF Location, Finishing, Adding, Fits
<1>3. /\ Stacked' /\ Placed' /\ TasksApart' /\ ForkedOnce'
      /\ pc'[f] = "addTest" /\ \A g \in Fibers : g # f => pc'[g] = pc[g]
      /\ pc' \in [Fibers -> Location]
      /\ \A g \in Fibers : Top(g)' = Top(g)
      /\ \A x \in Task : Queued(x)' <=> Queued(x)
  BY <1>0, <1>2, FramesStay DEF tasks
<1>4. \A x \in Task : (OnStack(x)' <=> OnStack(x)) /\ (Begun(x)' <=> Begun(x))
  <2>1. \A x \in Task : \A g \in Fibers : Held(x, g, Finishing)' <=> Held(x, g, Finishing)
    BY <1>0, <1>2, HeldStays
  <2>2. \A x \in Task : \A g \in Fibers : Held(x, g, {"doneNotify"})' <=> Held(x, g, {"doneNotify"})
    BY <1>0, <1>2, HeldStays
  <2> QED
    BY <2>1, <2>2, HeldFacts
<1>5. TaskState' = TaskState
  BY <1>0, <1>3, <1>4 DEF TaskState, tasks
<1>6. TypeOK'
  BY <1>0, <1>3 DEF TypeOK, sched, tasks, sync
<1>7. FiberInv'
  BY <1>0, <1>3, FibersStay DEF sched
<1>8. Awaited'
  BY <1>0, <1>3, <1>5 DEF TaskInv, Awaited
<1>9. Purging'
  BY <1>0, <1>1, <1>2, <1>3 DEF Purging
<1>10. CounterCountsTasks'
  BY <1>0, <1>5 DEF TaskInv, CounterCountsTasks, tasks
<1>11. NumTasksCounts'
  <2>1. Unannounced' = Unannounced
    <3>1. \A g \in Fibers : Top(g).task = Main => g = f
      BY <1>0, <1>1, TopFacts
    <3>2. \A g \in Fibers :
            (pc'[g] \in Adding /\ ~(Top(g)'.task = Main /\ exitRequested'))
              <=> (pc[g] \in Adding /\ ~(Top(g).task = Main /\ exitRequested))
      BY <1>0, <1>1, <1>2, <1>3, <3>1
    <3> QED
      BY <1>3, <3>2 DEF Unannounced
  <2>2. Unfinished' = Unfinished
    BY <1>3, <1>4 DEF Unfinished
  <2> QED
    BY <1>0, <1>1, <1>2, <1>3, <2>1, <2>2 DEF TaskInv, NumTasksCounts, sync
<1>12. Pool!Return
  <2>1. \A x \in Elems(Children[Main]) : TaskState[x] = "done"
    BY <1>0 DEF TaskInv, Awaited
  <2>2. Main \in Programs
    BY NamesApart
  <2> QED
    BY <1>0, <1>5, <2>1, <2>2 DEF Pool!Return, Pool!Finished
<1> QED
  BY <1>3, <1>6, <1>7, <1>8, <1>9, <1>10, <1>11, <1>12 DEF IInv, TaskInv, PoolStep, Pool!Next

\* NotifyWorkerThreadsOfTasks adds the tasks handed out to m_numTasks.
LEMMA AnnouncePreserves ==
  ASSUME IInv, NEW t \in Threads, NEW f \in Fibers, AddLocked(t, f) \/ AddBare(t, f)
  PROVE  IInv' /\ PoolStep
<1> DEFINE p == Top(f).task
           leaving == p = Main /\ exitRequested
<1>0. /\ TypeOK /\ Stacked /\ TaskInv /\ FiberInv /\ Top(f).at = "wait" /\ FrameFits(Top(f))
      /\ running[t] = f /\ pc[f] \in {"addLocked", "addBare"}
      /\ f = 0 /\ exitRequested => leaving
      /\ numTasks' = numTasks + Announced(f)
      /\ UNCHANGED <<sched, tasks, mutex, sleeping, stack, exitRequested>>
  BY LocationFacts DEF IInv, AddLocked, AddBare, At, Goto, Fits
<1>1. p \in Programs
  BY <1>0, NamesApart DEF FrameFits
<1>2. PICK l \in {"addNotify", "join", "wait"} :
        /\ pc' = [pc EXCEPT ![f] = l]
        /\ l = "join" => leaving
        /\ l = "wait" => ~leaving
  BY DEF AddLocked, AddBare, Goto, AfterAdd
<1>3. /\ l \in Location /\ l \notin Finishing /\ l \notin Adding /\ l \notin {"fork", "yield", "doneNotify"}
      /\ pc[f] \notin Finishing /\ pc[f] \in Adding /\ pc[f] \notin {"fork", "yield", "doneNotify"}
      /\ Fits(l, Top(f))
  BY <1>0, <1>2 DEF Location, Finishing, Adding, Fits
<1>4. /\ Stacked' /\ Placed' /\ TasksApart' /\ ForkedOnce'
      /\ pc'[f] = l /\ \A g \in Fibers : g # f => pc'[g] = pc[g]
      /\ pc' \in [Fibers -> Location]
      /\ \A g \in Fibers : Top(g)' = Top(g)
      /\ \A x \in Task : Queued(x)' <=> Queued(x)
  BY <1>0, <1>2, <1>3, FramesStay DEF tasks
<1>5. \A x \in Task : (OnStack(x)' <=> OnStack(x)) /\ (Begun(x)' <=> Begun(x))
  <2>1. \A x \in Task : \A g \in Fibers : Held(x, g, Finishing)' <=> Held(x, g, Finishing)
    BY <1>0, <1>2, <1>3, HeldStays
  <2>2. \A x \in Task : \A g \in Fibers : Held(x, g, {"doneNotify"})' <=> Held(x, g, {"doneNotify"})
    BY <1>0, <1>2, <1>3, HeldStays
  <2> QED
    BY <2>1, <2>2, HeldFacts
<1>6. TaskState' = TaskState
  BY <1>0, <1>4, <1>5 DEF TaskState, tasks
<1>7. Announced(f) \in Nat /\ (leaving => Announced(f) = NumThreads - 1)
      /\ (~leaving => Announced(f) = Cardinality(Elems(Children[p])))
  <2>1. Cardinality(Elems(Children[p])) = Len(Children[p])
    BY <1>1, ChildrenFacts, CountDistinct, TreeAssumption DEF NoRepeats, Elems
  <2>2. Len(Children[p]) \in Nat /\ NumThreads - 1 \in Nat
    BY <1>1, ChildrenFacts, LenProperties, CountAssumption
  <2> QED
    BY <2>1, <2>2 DEF Announced
<1>8. TypeOK'
  <2>1. numTasks' \in Int
    BY <1>0, <1>7 DEF TypeOK
  <2> QED
    BY <1>0, <1>4, <2>1 DEF TypeOK, sched, tasks
<1>9. FiberInv'
  BY <1>0, <1>2, <1>4, FibersStay DEF sched
<1>10. Awaited'
  BY <1>0, <1>2, <1>4, <1>6 DEF TaskInv, Awaited
<1>11. Purging'
  <2>1. leaving => l \in {"addNotify", "join"}
    BY <1>2
  <2>2. f # 0 => pc'[0] = pc[0]
    BY <1>4, NumberFacts
  <2>3. exitRequested' = exitRequested /\ stack' = stack
    BY <1>0
  <2>4. exitRequested => Len(stack[0]) = 1 /\ pc[0] \in Adding \cup {"addNotify", "join", "done"}
    BY <1>0 DEF TaskInv, Purging
  <2>5. f = 0 /\ exitRequested => leaving
    BY <1>0
  <2> HIDE DEF leaving
  <2> QED
    BY <1>4, <2>1, <2>2, <2>3, <2>4, <2>5 DEF Purging
<1>12. CounterCountsTasks'
  BY <1>0, <1>6 DEF TaskInv, CounterCountsTasks, tasks
<1>13. NumTasksCounts'
  <2> DEFINE old == IF exitRequested /\ pc[0] \notin Adding THEN NumThreads - 1 ELSE 0
             new == IF exitRequested' /\ pc'[0] \notin Adding THEN NumThreads - 1 ELSE 0
  <2>1. /\ IsFiniteSet(Unannounced) /\ IsFiniteSet(Unfinished)
        /\ Cardinality(Unannounced) \in Int /\ Cardinality(Unfinished) \in Int
        /\ NumThreads - 1 \in Int /\ numTasks \in Int
    <3>1. IsFiniteSet(Unfinished) /\ IsFiniteSet(Unannounced)
      BY NamesApart, FS_Subset DEF Unfinished, Unannounced
    <3> QED
      BY <1>0, <3>1, FS_CardinalityType, CountAssumption DEF TypeOK
  <2>2. Unfinished' = Unfinished
    BY <1>4, <1>5 DEF Unfinished
  <2>3. numTasks + Cardinality(Unannounced) = Cardinality(Unfinished) + old
    BY <1>0 DEF TaskInv, NumTasksCounts
  <2>4. CASE leaving
    <3>1. f = 0
      BY <1>0, <2>4, TopFacts
    <3>2. old = 0 /\ new = NumThreads - 1
      BY <1>0, <1>3, <1>4, <2>4, <3>1
    <3>3. Unannounced' = Unannounced
      <4>1. \A g \in Fibers :
              (pc'[g] \in Adding /\ ~(Top(g)'.task = Main /\ exitRequested'))
                <=> (pc[g] \in Adding /\ ~(Top(g).task = Main /\ exitRequested))
        BY <1>0, <1>4, <2>4
      <4> QED
        BY <1>4, <4>1 DEF Unannounced
    <3>4. numTasks' = numTasks + (NumThreads - 1)
      BY <1>0, <1>7, <2>4
    <3>5. numTasks' + Cardinality(Unannounced') = Cardinality(Unfinished') + new
      <4> HIDE DEF old, new
      <4> QED
        BY <2>1, <2>2, <2>3, <3>2, <3>3, <3>4
    <3> QED
      BY <3>5 DEF NumTasksCounts
  <2>5. CASE ~leaving
    <3> DEFINE own == Elems(Children[p])
    <3>1. old = new
      <4>1. CASE f = 0
        BY <1>0, <2>5, <4>1
      <4>2. CASE f # 0
        BY <1>0, <1>4, <4>2, NumberFacts
      <4> QED
        BY <4>1, <4>2
    <3>2. own \subseteq Unannounced
      BY <1>0, <1>1, <1>3, <2>5, ChildrenFacts DEF Unannounced
    <3>3. ASSUME NEW g \in Fibers, g # f, pc[g] \in Adding
          PROVE  Elems(Children[Top(g).task]) \cap own = {}
      <4>1. Top(g).at = "wait" /\ FrameFits(Top(g))
        BY <3>3, LocationFacts DEF Fits, Adding
      <4>2. Top(g).task \in Programs
        BY <4>1, NamesApart DEF FrameFits
      <4>3. Top(g).task # p
        BY <1>0, <1>1, <3>3, OneFrame
      <4> QED
        BY <1>1, <4>2, <4>3, TreeAssumption
    <3>4. Unannounced' = Unannounced \ own
      BY <1>0, <1>3, <1>4, <2>5, <3>3 DEF Unannounced
    <3>5. Cardinality(Unannounced') = Cardinality(Unannounced) - Cardinality(own) /\ Cardinality(own) \in Int
      <4>1. IsFiniteSet(own)
        BY <2>1, <3>2, FS_Subset
      <4>2. Cardinality(own) \in Int
        BY <4>1, FS_CardinalityType
      <4>3. Unannounced \cap own = own
        BY <3>2
      <4>4. Cardinality(Unannounced \ own) = Cardinality(Unannounced) - Cardinality(Unannounced \cap own)
        BY <2>1, FS_Difference
      <4> HIDE DEF own
      <4> QED
        BY <3>4, <4>2, <4>3, <4>4
    <3>6. numTasks' = numTasks + Cardinality(own)
      BY <1>0, <1>7, <2>5
    <3>7. old \in Int
      BY <2>1
    <3>8. numTasks' + Cardinality(Unannounced') = Cardinality(Unfinished') + new
      <4> HIDE DEF old, new, own
      <4> QED
        BY <2>1, <2>2, <2>3, <3>1, <3>5, <3>6, <3>7
    <3> QED
      BY <3>8 DEF NumTasksCounts
  <2> QED
    BY <2>4, <2>5
<1> QED
  BY <1>0, <1>4, <1>6, <1>8, <1>9, <1>10, <1>11, <1>12, <1>13 DEF IInv, TaskInv, PoolStep

LEMMA ConcatKeeps ==
  ASSUME NEW S, NEW s \in Seq(S), NEW u \in Seq(S), NoRepeats(s), NoRepeats(u),
         Elems(s) \cap Elems(u) = {}
  PROVE  s \o u \in Seq(S) /\ NoRepeats(s \o u) /\ Elems(s \o u) = Elems(s) \cup Elems(u)
<1>1. s \o u \in Seq(S)
  BY ConcatFacts
<1>2. Elems(s \o u) = Elems(s) \cup Elems(u)
  <2>1. \A k \in DOMAIN (s \o u) : \/ k \in DOMAIN s /\ (s \o u)[k] = s[k]
                                  \/ \E j \in DOMAIN u : (s \o u)[k] = u[j]
    BY ConcatFacts
  <2>2. \A i \in DOMAIN s : i \in DOMAIN (s \o u) /\ (s \o u)[i] = s[i]
    BY ConcatFacts
  <2>3. \A j \in DOMAIN u : Len(s) + j \in DOMAIN (s \o u) /\ (s \o u)[Len(s) + j] = u[j]
    BY ConcatFacts
  <2>4. \A e : e \in Elems(s \o u) => e \in Elems(s) \cup Elems(u)
    BY <2>1 DEF Elems
  <2>5. \A e : e \in Elems(s) => e \in Elems(s \o u)
    BY <2>2 DEF Elems
  <2>6. \A e : e \in Elems(u) => e \in Elems(s \o u)
    BY <2>3 DEF Elems
  <2> QED
    BY <2>4, <2>5, <2>6
<1>3. \A i \in DOMAIN s, j \in DOMAIN u : s[i] # u[j]
  BY DEF Elems
<1>4. NoRepeats(s \o u)
  BY <1>3, DistinctConcat DEF NoRepeats
<1> QED
  BY <1>1, <1>2, <1>4

\* RunTasks counts new tasks on its own counter before it queues them.
LEMMA RunTasksPreserves ==
  ASSUME IInv, NEW t \in Threads, NEW f \in Fibers, RunTasks(t, f)
  PROVE  IInv' /\ PoolStep
<1> DEFINE p == Top(f).task
           own == Elems(Children[p])
           frame == Frame(p, "wait")
<1>0. /\ TypeOK /\ Stacked /\ TaskInv /\ FiberInv /\ FrameFits(Top(f))
      /\ Top(f).at \in {"wait", "fork"} /\ running[t] = f /\ pc[f] = "fork"
      /\ ~(f = 0 /\ exitRequested) /\ SetTop(f, frame) /\ pc' = [pc EXCEPT ![f] = "addTest"]
      /\ counter' = [counter EXCEPT ![p] = @ + Len(Children[p])]
      /\ counterOf' = [x \in Task |-> IF x \in own THEN p ELSE counterOf[x]]
      /\ \/ highQueue' = highQueue \o Children[p] /\ lowQueue' = lowQueue
         \/ lowQueue' = lowQueue \o Children[p] /\ highQueue' = highQueue
      /\ UNCHANGED <<sched, sync, exitRequested>>
  <2>1. /\ TypeOK /\ Stacked /\ TaskInv /\ FiberInv /\ FrameFits(Top(f)) /\ Fits(pc[f], Top(f))
        /\ f = 0 /\ exitRequested => pc[f] \in Adding \cup {"addNotify", "join", "done"}
    BY LocationFacts DEF IInv
  <2>2. /\ running[t] = f /\ pc[f] = "fork" /\ SetTop(f, frame) /\ pc' = [pc EXCEPT ![f] = "addTest"]
        /\ counter' = [counter EXCEPT ![p] = @ + Len(Children[p])]
        /\ counterOf' = [x \in Task |-> IF x \in own THEN p ELSE counterOf[x]]
        /\ UNCHANGED <<sched, sync, exitRequested>>
    BY DEF RunTasks, At, Goto
  <2>3. \/ highQueue' = highQueue \o Children[p] /\ lowQueue' = lowQueue
        \/ lowQueue' = lowQueue \o Children[p] /\ highQueue' = highQueue
    BY DEF RunTasks
  <2> HIDE DEF own, frame
  <2> QED
    BY <2>1, <2>2, <2>3 DEF Fits, Adding
<1>1. /\ p \in Programs /\ Children[p] \in Seq(Task) /\ own \subseteq Task /\ NoRepeats(Children[p])
  BY <1>0, NamesApart, ChildrenFacts, TreeAssumption DEF FrameFits
<1>2. /\ frame \in Frames /\ frame.task = p /\ frame.at = "wait" /\ FrameFits(frame)
  BY <1>0, <1>1, NamesApart DEF Frame, Frames, FrameFits
<1>3. /\ "addTest" \in Location /\ "addTest" \notin Finishing /\ "addTest" \in Adding
      /\ pc[f] \notin Finishing /\ pc[f] \notin Adding /\ Fits("addTest", frame)
      /\ "doneNotify" \notin {pc[f], "addTest"}
  BY <1>0, <1>2 DEF Location, Finishing, Adding, Fits
<1>4. /\ stack' \in [Fibers -> Seq(Frames)]
      /\ \A g \in Fibers : g # f => stack'[g] = stack[g] /\ Top(g)' = Top(g)
      /\ Len(stack'[f]) = Len(stack[f])
      /\ \A i \in 1..(Len(stack[f]) - 1) : stack'[f][i] = stack[f][i]
      /\ Top(f)' = frame
      /\ pc'[f] = "addTest" /\ \A g \in Fibers : g # f => pc'[g] = pc[g]
      /\ pc' \in [Fibers -> Location]
  <2>1. /\ stack' \in [Fibers -> Seq(Frames)]
        /\ \A g \in Fibers : g # f => stack'[g] = stack[g]
        /\ Len(stack'[f]) = Len(stack[f])
        /\ \A i \in 1..(Len(stack[f]) - 1) : stack'[f][i] = stack[f][i]
        /\ Top(f)' = frame
    <3> HIDE DEF frame
    <3> QED
      BY <1>0, <1>2, SetTopFacts
  <2>2. \A g \in Fibers : g # f => Top(g)' = Top(g)
    BY <2>1 DEF Top
  <2>3. /\ pc'[f] = "addTest" /\ \A g \in Fibers : g # f => pc'[g] = pc[g]
        /\ pc' \in [Fibers -> Location]
    BY <1>0, <1>3 DEF TypeOK
  <2> QED
    BY <2>1, <2>2, <2>3
<1> HIDE DEF own, frame
<1>5. /\ \A g \in Fibers : Top(g)'.task = Top(g).task
      /\ \A g \in Fibers : Len(stack'[g]) = Len(stack[g])
      /\ \A g \in Fibers : \A i \in 2..Len(stack[g]) : stack'[g][i].task = stack[g][i].task
      /\ Stacked'
  <2>1. \A g \in Fibers : Top(g)'.task = Top(g).task
    BY <1>2, <1>4
  <2>2. \A g \in Fibers : Len(stack'[g]) = Len(stack[g])
    BY <1>4
  <2>3. FrameFits(Top(f)') /\ Top(f)'.task = Top(f).task
    BY <1>2, <1>4
  <2>4. Stacked' /\ \A g \in Fibers : \A i \in 2..Len(stack[g]) : stack'[g][i].task = stack[g][i].task
    BY SMTT(30), <1>0, <1>4, <2>3, TopStays
  <2> QED
    BY <2>1, <2>2, <2>4
<1>6. \A x \in own : /\ counterOf[x] = Unset /\ ~Queued(x) /\ x \in Task
                     /\ \A g \in Fibers : \A i \in 2..Len(stack[g]) : stack[g][i].task # x
  <2>1. YetToFork(p)
    BY <1>0, <1>1, HasForked
  <2>2. \A x \in own : counterOf[x] = Unset /\ x \in Task
    BY <1>0, <1>1, <2>1 DEF TaskInv, ForkedOnce, own
  <2> QED
    BY <1>0, <2>2 DEF TaskInv, TasksApart
<1>7. /\ highQueue' \in Seq(Task) /\ lowQueue' \in Seq(Task)
      /\ NoRepeats(highQueue') /\ NoRepeats(lowQueue')
      /\ Elems(highQueue') \cap Elems(lowQueue') = {}
      /\ Elems(highQueue') \cup Elems(lowQueue') = (Elems(highQueue) \cup Elems(lowQueue)) \cup own
  <2>1. /\ highQueue \in Seq(Task) /\ lowQueue \in Seq(Task)
        /\ NoRepeats(highQueue) /\ NoRepeats(lowQueue)
        /\ Elems(highQueue) \cap Elems(lowQueue) = {}
    BY <1>0 DEF TypeOK, TaskInv, TasksApart
  <2>2. Elems(highQueue) \cap own = {} /\ Elems(lowQueue) \cap own = {}
    BY <1>6 DEF Queued
  <2>3. CASE highQueue' = highQueue \o Children[p] /\ lowQueue' = lowQueue
    <3>1. /\ highQueue' \in Seq(Task) /\ NoRepeats(highQueue')
          /\ Elems(highQueue') = Elems(highQueue) \cup own
      BY <1>1, <2>1, <2>2, <2>3, ConcatKeeps DEF own
    <3> QED
      BY <2>1, <2>2, <2>3, <3>1
  <2>4. CASE lowQueue' = lowQueue \o Children[p] /\ highQueue' = highQueue
    <3>1. /\ lowQueue' \in Seq(Task) /\ NoRepeats(lowQueue')
          /\ Elems(lowQueue') = Elems(lowQueue) \cup own
      BY <1>1, <2>1, <2>2, <2>4, ConcatKeeps DEF own
    <3> QED
      BY <2>1, <2>2, <2>4, <3>1
  <2> QED
    BY <1>0, <2>3, <2>4
<1>8. \A x \in Task : Queued(x)' <=> Queued(x) \/ x \in own
  BY <1>7 DEF Queued
<1>9. \A x \in Task : (OnStack(x)' <=> OnStack(x)) /\ (Begun(x)' <=> Begun(x))
  <2>1. ASSUME NEW x \in Task, NEW g \in Fibers, NEW L, L \in {Finishing, {"doneNotify"}}
        PROVE  Held(x, g, L)' <=> Held(x, g, L)
    <3>1. pc'[g] \in L <=> pc[g] \in L
      BY <1>3, <1>4, <2>1
    <3>2. Len(stack'[g]) = Len(stack[g])
          /\ \A i \in 2..Len(stack[g]) : stack'[g][i].task = stack[g][i].task
      BY <1>5
    <3> QED
      BY <3>1, <3>2 DEF Held
  <2>2. \A x \in Task : \A g \in Fibers : Held(x, g, Finishing)' <=> Held(x, g, Finishing)
    BY <2>1
  <2>3. \A x \in Task : \A g \in Fibers : Held(x, g, {"doneNotify"})' <=> Held(x, g, {"doneNotify"})
    BY <2>1
  <2> QED
    BY <2>2, <2>3, HeldFacts
<1>10. \A x \in own : ~OnStack(x) /\ ~Begun(x)
  BY <1>6 DEF OnStack, Begun
<1>11. /\ \A x \in own : TaskState[x] = "new" /\ x \in Task
       /\ TaskState' = [x \in Task |-> IF x \in own THEN "queued" ELSE TaskState[x]]
  <2>1. \A x \in own : TaskState[x] = "new"
    BY <1>6, <1>10 DEF TaskState
  <2>2. \A x \in Task : x \notin own => counterOf'[x] = counterOf[x]
    BY <1>0
  <2>3. ASSUME NEW x \in Task
        PROVE  (IF Queued(x)' THEN "queued" ELSE IF OnStack(x)' THEN "running"
                ELSE IF counterOf'[x] = Unset THEN "new" ELSE "done")
                 = IF x \in own THEN "queued" ELSE TaskState[x]
    BY <1>8, <1>9, <2>2 DEF TaskState
  <2>4. TaskState' = [x \in Task |-> IF x \in own THEN "queued" ELSE TaskState[x]]
    BY <2>3 DEF TaskState
  <2> QED
    BY <1>6, <2>1, <2>4
<1>12. TypeOK'
  <2>1. /\ counterOf' \in [Task -> Programs \cup {Unset}] /\ counter' \in [Programs -> Int]
    <3>1. Len(Children[p]) \in Int
      BY <1>1, LenProperties
    <3> QED
      BY <1>0, <1>1, <3>1 DEF TypeOK
  <2> QED
    BY <1>0, <1>4, <1>7, <2>1 DEF TypeOK, sched, sync
<1>13. FiberInv'
  BY <1>0, <1>4, FibersStay DEF sched
<1>14. Pool!Submit(p)
  <2>1. p = Main \/ TaskState[p] = "running"
    <3>1. CASE p \in Task
      <4>1. Held(p, f, Finishing) /\ ~Queued(p)
        BY <1>0, <1>3, <3>1, InnermostFacts
      <4>2. OnStack(p)
        BY <4>1, HeldFacts
      <4> QED
        BY <3>1, <4>1, <4>2 DEF TaskState
    <3> QED
      BY <1>1, <3>1, NamesApart
  <2>2. exitRequested' = exitRequested
    BY <1>0
  <2> QED
    BY <1>1, <1>11, <2>1, <2>2 DEF Pool!Submit, own
<1>15. Placed'
  BY <1>0, <1>3, <1>4 DEF TaskInv, Placed
<1>16. TasksApart'
  <2>1. \A g \in Fibers : \A i \in 2..Len(stack'[g]) :
          /\ i \in 2..Len(stack[g]) /\ stack'[g][i].task = stack[g][i].task
          /\ stack[g][i].task \in Task
    BY <1>0, <1>5 DEF Stacked
  <2>2. \A g, h \in Fibers : \A i \in 2..Len(stack'[g]), j \in 2..Len(stack'[h]) :
          stack'[g][i].task = stack'[h][j].task => g = h /\ i = j
    BY <1>0, <2>1 DEF TaskInv, TasksApart
  <2>3. \A x \in Task : counterOf[x] # Unset \/ x \in own => counterOf'[x] # Unset
    BY <1>0, <1>1, NamesApart
  <2>4. \A g \in Fibers : \A i \in 2..Len(stack'[g]) :
          (~Queued(stack[g][i].task) /\ counterOf[stack[g][i].task] # Unset)'
    <3>1. \A g \in Fibers : \A i \in 2..Len(stack[g]) :
            /\ ~Queued(stack[g][i].task) /\ counterOf[stack[g][i].task] # Unset
            /\ stack[g][i].task \notin own
      BY <1>0, <1>6 DEF TaskInv, TasksApart
    <3> QED
      BY <1>8, <2>1, <2>3, <3>1
  <2>5. \A x \in Task : Queued(x)' => counterOf'[x] # Unset
    BY <1>0, <1>8, <2>3 DEF TaskInv, TasksApart
  <2> QED
    BY <1>7, <2>2, <2>4, <2>5 DEF TasksApart
<1>17. ForkedOnce'
  <2>1. \A x \in Task : counterOf'[x] = IF x \in own THEN p ELSE counterOf[x]
    BY <1>0
  <2>2. ASSUME NEW q \in Programs, q = p
        PROVE  ~YetToFork(q)'
    <3>1. q \in Task => ~(counterOf'[q] = Unset \/ Queued(q)')
      <4>1. q \in Task => counterOf[q] # Unset /\ ~Queued(q)
        BY ZenonT(40), <1>0, <1>1, <2>2, InnermostFacts, NamesApart
      <4> QED
        BY <1>6, <1>8, <2>1, <4>1
    <3>2. \A g \in Fibers : Top(g)'.task = q => g = f
      BY <1>0, <1>1, <1>5, <2>2, OneFrame
    <3>3. pc'[f] \notin {"fork", "yield"} /\ Top(f)'.at # "fork"
      BY <1>2, <1>4
    <3> QED
      BY <3>1, <3>2, <3>3 DEF YetToFork
  <2>3. ASSUME NEW q \in Programs, q # p
        PROVE  YetToFork(q)' <=> YetToFork(q)
    <3>1. \A g \in Fibers :
              /\ Top(g)'.task = q /\ (pc'[g] \in {"fork", "yield"} \/ Top(g)'.at = "fork")
                <=> Top(g).task = q /\ (pc[g] \in {"fork", "yield"} \/ Top(g).at = "fork")
      BY <1>2, <1>4, <2>3
    <3>2. q \in Task => (counterOf'[q] = Unset \/ Queued(q)' <=> counterOf[q] = Unset \/ Queued(q))
      BY <1>6, <1>8, <2>1
    <3> QED
      BY <3>1, <3>2 DEF YetToFork
  <2>4. ASSUME NEW q \in Programs, NEW x \in Elems(Children[q])
        PROVE  counterOf'[x] = IF YetToFork(q)' THEN Unset ELSE q
    <3>1. x \in Task
      BY <2>4, ChildrenFacts
    <3>2. CASE q = p
      BY <2>1, <2>2, <3>1, <3>2 DEF own
    <3>3. CASE q # p
      <4>1. x \notin own
        BY <1>1, <3>3, TreeAssumption DEF own
      <4> QED
        BY <1>0, <2>1, <2>3, <3>1, <3>3, <4>1 DEF TaskInv, ForkedOnce
    <3> QED
      BY <3>2, <3>3
  <2>5. \A x \in Task : counterOf'[x] # Unset => x \in Elems(Children[counterOf'[x]])
    BY <1>0, <2>1 DEF TaskInv, ForkedOnce, own
  <2> QED
    BY <2>4, <2>5 DEF ForkedOnce
<1>18. Awaited'
  <2>1. \A x \in Task : TaskState[x] = "done" => TaskState'[x] = "done"
    BY <1>11
  <2>2. ASSUME NEW g \in Fibers, pc'[g] \in {"decRef", "purge"}
        PROVE  \A x \in Elems(Children[Top(g)'.task]) : TaskState'[x] = "done"
    <3>1. g # f /\ pc[g] \in {"decRef", "purge"}
      BY <1>4, <2>2
    <3>2. Top(g).task \in Programs
      BY <1>0, <3>1, NamesApart DEF TaskInv, Placed, Fits
    <3>3. \A x \in Elems(Children[Top(g).task]) : x \in Task /\ TaskState[x] = "done"
      BY <1>0, <3>1, <3>2, ChildrenFacts DEF TaskInv, Awaited
    <3>4. Top(g)' = Top(g)
      BY <1>4, <3>1
    <3> QED
      BY <2>1, <3>3, <3>4
  <2> QED
    BY <2>2 DEF Awaited
<1>19. Purging'
  <2>1. f # 0 => stack'[0] = stack[0] /\ pc'[0] = pc[0]
    BY <1>4, NumberFacts
  <2> QED
    BY <1>0, <2>1 DEF TaskInv, Purging
<1>20. CounterCountsTasks'
  <2> DEFINE Todo(q) == {x \in Task : counterOf[x] = q /\ TaskState[x] # "done"}
             TodoNow(q) == {x \in Task : counterOf'[x] = q /\ TaskState'[x] # "done"}
  <2>1. \A q \in Programs : counter[q] = Cardinality(Todo(q))
    BY <1>0 DEF TaskInv, CounterCountsTasks
  <2>2. \A x \in Task : /\ counterOf'[x] = IF x \in own THEN p ELSE counterOf[x]
                        /\ TaskState'[x] = IF x \in own THEN "queued" ELSE TaskState[x]
    BY <1>0, <1>11
  <2>3. \A q \in Programs : q # p => TodoNow(q) = Todo(q)
    <3>1. \A x \in own : counterOf[x] = Unset
      BY <1>6
    <3> QED
      BY <2>2, <3>1, NamesApart
  <2>4. TodoNow(p) = own /\ Todo(p) = {}
    <3>1. \A x \in Task : counterOf[x] # p
      <4>1. \A x \in Task : counterOf[x] = p => x \in own
        BY <1>0, <1>1, NamesApart DEF TaskInv, ForkedOnce, own
      <4> QED
        BY <1>1, <1>6, <4>1, NamesApart
    <3> QED
      BY <1>1, <2>2, <3>1
  <2>5. Cardinality(own) = Len(Children[p])
    BY <1>1, CountDistinct DEF own, NoRepeats, Elems
  <2>6. counter[p] = 0
    BY <1>1, <2>1, <2>4, FS_EmptySet
  <2>7. counter'[p] = Len(Children[p]) /\ \A q \in Programs : q # p => counter'[q] = counter[q]
    <3>1. Len(Children[p]) \in Nat
      BY <1>1, LenProperties
    <3> QED
      BY <1>0, <1>1, <2>6, <3>1 DEF TypeOK
  <2>8. \A q \in Programs : counter'[q] = Cardinality(TodoNow(q))
    <3> HIDE DEF Todo, TodoNow, p
    <3> QED
      BY <2>1, <2>3, <2>4, <2>5, <2>7
  <2> QED
    BY <2>8 DEF CounterCountsTasks
<1>21. NumTasksCounts'
  <2> DEFINE old == IF exitRequested /\ pc[0] \notin Adding THEN NumThreads - 1 ELSE 0
             new == IF exitRequested' /\ pc'[0] \notin Adding THEN NumThreads - 1 ELSE 0
  <2>1. /\ IsFiniteSet(Unannounced) /\ IsFiniteSet(Unfinished) /\ IsFiniteSet(own)
        /\ Cardinality(Unannounced) \in Int /\ Cardinality(Unfinished) \in Int
        /\ Cardinality(own) \in Int /\ NumThreads - 1 \in Int /\ numTasks \in Int
    <3>1. IsFiniteSet(Unfinished) /\ IsFiniteSet(Unannounced) /\ IsFiniteSet(own)
      BY <1>1, NamesApart, FS_Subset DEF Unfinished, Unannounced
    <3> QED
      BY <1>0, <3>1, FS_CardinalityType, CountAssumption DEF TypeOK
  <2>2. numTasks + Cardinality(Unannounced) = Cardinality(Unfinished) + old
    BY <1>0 DEF TaskInv, NumTasksCounts
  <2>3. old = new
    <3>1. f # 0 => pc'[0] = pc[0]
      BY <1>4, NumberFacts
    <3> QED
      BY <1>0, <3>1
  <2>4. Unfinished' = Unfinished \cup own /\ Unfinished \cap own = {}
    BY <1>1, <1>6, <1>8, <1>9, <1>10 DEF Unfinished
  <2>5. Unannounced' = Unannounced \cup own /\ Unannounced \cap own = {}
    <3>1. ASSUME NEW g \in Fibers, g # f, pc[g] \in Adding
          PROVE  Elems(Children[Top(g).task]) \cap own = {}
      <4>1. Top(g).at = "wait" /\ FrameFits(Top(g))
        BY <3>1, LocationFacts DEF Fits, Adding
      <4>2. Top(g).task \in Programs
        BY <4>1, NamesApart DEF FrameFits
      <4>3. Top(g).task # p
        BY <1>0, <1>1, <3>1, OneFrame
      <4> QED
        BY <1>1, <4>2, <4>3, TreeAssumption DEF own
    <3>2. ~(p = Main /\ exitRequested)
      BY <1>0, TopFacts
    <3>3. ASSUME NEW x \in Task
          PROVE  x \in Unannounced' <=> x \in Unannounced \/ x \in own
      <4>1. x \in own => x \in Unannounced'
        BY <1>0, <1>2, <1>3, <1>4, <3>2 DEF Unannounced, own
      <4>2. x \in Unannounced => x \in Unannounced'
        BY <1>0, <1>3, <1>4 DEF Unannounced
      <4>3. x \in Unannounced' => x \in Unannounced \/ x \in own
        BY <1>0, <1>2, <1>4 DEF Unannounced, own
      <4> QED
        BY <4>1, <4>2, <4>3
    <3>4. Unannounced \cap own = {}
      BY <1>3, <3>1 DEF Unannounced
    <3>5. Unannounced \subseteq Task /\ Unannounced' \subseteq Task
      BY DEF Unannounced
    <3> QED
      BY <1>1, <3>3, <3>4, <3>5
  <2>6. Cardinality(Unfinished') = Cardinality(Unfinished) + Cardinality(own)
    <3>1. Cardinality(Unfinished \cup own) = Cardinality(Unfinished) + Cardinality(own) - Cardinality(Unfinished \cap own)
      BY <2>1, FS_Union
    <3>2. Cardinality(Unfinished \cap own) = 0
      BY <2>4, FS_EmptySet
    <3> QED
      BY <2>1, <2>4, <3>1, <3>2
  <2>7. Cardinality(Unannounced') = Cardinality(Unannounced) + Cardinality(own)
    <3>1. Cardinality(Unannounced \cup own) = Cardinality(Unannounced) + Cardinality(own) - Cardinality(Unannounced \cap own)
      BY <2>1, FS_Union
    <3>2. Cardinality(Unannounced \cap own) = 0
      BY <2>5, FS_EmptySet
    <3> QED
      BY <2>1, <2>5, <3>1, <3>2
  <2>8. numTasks' = numTasks /\ old \in Int
    BY <1>0, <2>1 DEF sync
  <2>9. numTasks' + Cardinality(Unannounced') = Cardinality(Unfinished') + new
    <3> HIDE DEF old, new
    <3> QED
      BY <2>1, <2>2, <2>3, <2>6, <2>7, <2>8
  <2> QED
    BY <2>9 DEF NumTasksCounts
<1> QED
  BY <1>1, <1>5, <1>12, <1>13, <1>14, <1>15, <1>16, <1>17, <1>18, <1>19, <1>20, <1>21
     DEF IInv, TaskInv, PoolStep, Pool!Next, Programs
-------------------------------------------------------------------------------
(* The invariant.                                                          *)

LEMMA InitEstablishes == Init => IInv /\ Pool!Init
<1> SUFFICES ASSUME Init
             PROVE  IInv /\ Pool!Init
  OBVIOUS
<1>1. /\ \A t \in Threads : running[t] = t /\ last[t] = None /\ threadQueue[t] = << >>
      /\ \A t \in Threads : current[t] = IF t = 0 THEN 0 ELSE None
      /\ \A f \in Fibers : target[f] = None
      /\ executeQueue = Range0(NumFibers)
      /\ \A f \in Fibers : f # 0 => pc[f] = "start"
      /\ pc[0] \in {"wait", "fork"} /\ (Children[Main] # << >> => pc[0] = "fork")
  BY NumberFacts DEF Init
<1>2. /\ \A f \in Fibers : stack[f] = <<IF f = 0 THEN Frame(Main, "wait") ELSE Frame(Run, "run")>>
      /\ highQueue = << >> /\ lowQueue = << >> /\ numTasks = 0 /\ exitRequested = FALSE
      /\ counterOf = [k \in Task |-> Unset] /\ counter = [p \in Programs |-> 0]
  BY DEF Init
<1>3. /\ executeQueue \in Seq(Fibers) /\ NoRepeats(executeQueue)
      /\ Ready = Fibers \ Threads
  <2>1. /\ executeQueue = [i \in 1..NumFibers |-> NumThreads + i - 1]
        /\ NumFibers \in Nat \ {0} /\ NumThreads \in Nat \ {0}
    BY <1>1, CountAssumption DEF Range0
  <2>2. \A i \in 1..NumFibers : NumThreads + i - 1 \in Fibers \ Threads
    BY <2>1 DEF Fibers, Threads
  <2>3. executeQueue \in Seq(Fibers)
    <3>1. executeQueue \in [1..NumFibers -> Fibers] /\ NumFibers \in Nat
      BY <2>1, <2>2
    <3> QED
      BY <3>1, SeqDef
  <2>4. NoRepeats(executeQueue)
    BY <2>1 DEF NoRepeats
  <2>5. ASSUME NEW f \in Fibers \ Threads
        PROVE  f \in Ready
    <3>1. f - NumThreads + 1 \in 1..NumFibers /\ NumThreads + (f - NumThreads + 1) - 1 = f
      BY <2>1 DEF Fibers, Threads
    <3>2. executeQueue[f - NumThreads + 1] = f /\ f - NumThreads + 1 \in DOMAIN executeQueue
      BY <2>1, <3>1
    <3> QED
      BY <3>2 DEF Ready, Elems
  <2>6. Ready \subseteq Fibers \ Threads
    BY <2>1, <2>2 DEF Ready, Elems
  <2> QED
    BY <2>3, <2>4, <2>5, <2>6
<1>4. Frame(Main, "wait") \in Frames /\ Frame(Run, "run") \in Frames
  BY NamesApart DEF Frame, Frames
<1>5. TypeOK
  <2>1. /\ running \in [Threads -> Fibers \cup {None}] /\ current \in [Threads -> Fibers \cup {None}]
        /\ last \in [Threads -> Fibers \cup {None}] /\ target \in [Fibers -> Fibers \cup {None}]
        /\ finishOn \in [Fibers -> Threads \cup {None}]
    BY NumberFacts DEF Init
  <2>2. threadQueue \in [Threads -> Seq(Fibers)] /\ highQueue \in Seq(Task) /\ lowQueue \in Seq(Task)
    BY EmptySeq DEF Init
  <2>3. pc \in [Fibers -> Location]
    BY DEF Init, Location
  <2>4. stack \in [Fibers -> Seq(Frames)]
    BY <1>4 DEF Init
  <2>5. /\ counterOf \in [Task -> Programs \cup {Unset}] /\ counter \in [Programs -> Int]
        /\ numTasks \in Int /\ mutex \in Threads \cup {None} /\ sleeping \subseteq Workers
        /\ exitRequested \in BOOLEAN
    <3>1. counterOf \in [Task -> Programs \cup {Unset}] /\ counter \in [Programs -> Int]
      BY <1>2
    <3>2. mutex = None /\ sleeping = {}
      BY DEF Init
    <3>3. exitRequested \in BOOLEAN
      BY <1>2, Zenon
    <3> QED
      BY <1>2, <3>1, <3>2, <3>3
  <2> QED
    BY <1>3, <2>1, <2>2, <2>3, <2>4, <2>5 DEF TypeOK
<1>6. FiberInv
  <2>1. Ran = Threads
    <3>1. \A t \in Threads : running[t] = t /\ t # None
      BY <1>1, NumberFacts
    <3> QED
      BY <3>1 DEF Ran
  <2>2. Left = {} /\ Aimed = {} /\ Handed = {}
    BY <1>1, EmptyElems DEF Left, Aimed, Handed
  <2>3. FibersApart
    <3>1. Ran \cap (Left \cup Aimed \cup Ready \cup Handed) = {}
      BY <1>3, <2>1, <2>2
    <3>2. \A t, u \in Threads : t # u => Elems(threadQueue[t]) \cap Elems(threadQueue[u]) = {}
      BY <1>1, EmptyElems
    <3> QED
      BY <1>1, <1>3, <2>2, <3>1, <3>2, EmptyElems DEF FibersApart
  <2>4. Parked
    BY <1>1, <1>3, <2>1, <2>2, NumberFacts DEF Parked
  <2>5. Running
    <3>1. CurrentFiberRuns
      BY <1>1, NumberFacts DEF CurrentFiberRuns
    <3>2. \A f \in Fibers : pc[f] \in {"start", "wait", "fork"}
      BY <1>1
    <3>3. \A f \in Fibers : pc[f] \notin {"chosen", "switch", "predicate", "sleep"}
      BY <3>2
    <3> QED
      BY <1>1, <3>1, <3>3, NumberFacts DEF Running
  <2> QED
    BY <2>3, <2>4, <2>5 DEF FiberInv
<1>7. \A f \in Fibers : /\ Len(stack[f]) = 1 /\ Top(f) = stack[f][1] /\ stack[f] # << >>
                        /\ Top(f).task = IF f = 0 THEN Main ELSE Run
                        /\ Top(f).at = IF f = 0 THEN "wait" ELSE "run"
                        /\ 2..Len(stack[f]) = {} /\ 1..(Len(stack[f]) - 1) = {}
                        /\ \A i \in 1..Len(stack[f]) : i = 1
  <2> SUFFICES ASSUME NEW f \in Fibers
               PROVE  /\ Len(stack[f]) = 1 /\ Top(f) = stack[f][1] /\ stack[f] # << >>
                      /\ Top(f).task = IF f = 0 THEN Main ELSE Run
                      /\ Top(f).at = IF f = 0 THEN "wait" ELSE "run"
                      /\ 2..Len(stack[f]) = {} /\ 1..(Len(stack[f]) - 1) = {}
                      /\ \A i \in 1..Len(stack[f]) : i = 1
    OBVIOUS
  <2> DEFINE frame == IF f = 0 THEN Frame(Main, "wait") ELSE Frame(Run, "run")
  <2>1. stack[f] = <<frame>>
    BY <1>2
  <2>2. frame.task = IF f = 0 THEN Main ELSE Run
    BY DEF Frame
  <2>3. frame.at = IF f = 0 THEN "wait" ELSE "run"
    BY DEF Frame
  <2> HIDE DEF frame
  <2>4. Len(stack[f]) = 1 /\ stack[f][1] = frame /\ stack[f] # << >>
    BY <2>1
  <2>5. Top(f) = stack[f][1]
    BY <2>4 DEF Top
  <2>6. 2..1 = {} /\ 1..(1 - 1) = {} /\ \A i \in 1..1 : i = 1
    OBVIOUS
  <2> QED
    BY <2>2, <2>3, <2>4, <2>5, <2>6
<1>8. /\ \A k \in Task : ~Queued(k) /\ ~OnStack(k) /\ ~Begun(k)
      /\ TaskState = [k \in Task |-> "new"]
  <2>1. \A k \in Task : ~Queued(k)
    BY <1>2, EmptyElems DEF Queued
  <2>3. \A k \in Task : ~OnStack(k) /\ ~Begun(k)
    BY <1>7 DEF OnStack, Begun
  <2> QED
    BY <1>2, <2>1, <2>3 DEF TaskState
<1>9. Stacked /\ Placed
  <2>1. \A f \in Fibers : FrameFits(Top(f)) /\ Fits(pc[f], Top(f))
    BY <1>1, <1>7 DEF FrameFits, Fits, Finishing
  <2> QED
    BY <1>7, <2>1 DEF Stacked, Placed
<1>10. TasksApart
  <2>1. \A f \in Fibers : 2..Len(stack[f]) = {}
    BY <1>7
  <2> QED
    BY <1>2, <1>8, <2>1, EmptyElems DEF TasksApart
<1>11. ForkedOnce
  <2>1. \A p \in Task : YetToFork(p)
    BY <1>2 DEF YetToFork
  <2>2. Elems(Children[Main]) # {} => YetToFork(Main)
    BY <1>1, <1>7, NumberFacts, EmptyElems DEF YetToFork
  <2> QED
    BY <1>2, <2>1, <2>2, NamesApart, ChildrenFacts DEF ForkedOnce
<1>12. Awaited /\ Purging
  BY <1>1, <1>2 DEF Awaited, Purging
<1>13. CounterCountsTasks
  <2>1. \A p \in Programs : {k \in Task : counterOf[k] = p /\ TaskState[k] # "done"} = {}
    BY <1>2, NamesApart
  <2>2. Cardinality({}) = 0
    BY FS_EmptySet
  <2> QED
    BY <1>2, <2>1, <2>2 DEF CounterCountsTasks
<1>14. NumTasksCounts
  <2>1. \A f \in Fibers : pc[f] \notin Adding
    BY <1>1 DEF Adding
  <2>2. Unannounced = {} /\ Unfinished = {}
    BY <1>8, <2>1 DEF Unannounced, Unfinished
  <2>3. Cardinality({}) = 0
    BY FS_EmptySet
  <2> QED
    BY <1>2, <2>2, <2>3 DEF NumTasksCounts
<1>15. Pool!Init
  BY <1>2, <1>8 DEF Pool!Init
<1> QED
  BY <1>5, <1>6, <1>9, <1>10, <1>11, <1>12, <1>13, <1>14, <1>15 DEF IInv, TaskInv

LEMMA StutterPreserves == IInv /\ UNCHANGED vars => IInv' /\ PoolStep
<1> SUFFICES ASSUME IInv, UNCHANGED vars
             PROVE  IInv' /\ PoolStep
  OBVIOUS
<1>0. UNCHANGED <<running, current, last, threadQueue, executeQueue, target, finishOn,
                  highQueue, lowQueue, counterOf, counter, numTasks, mutex, sleeping,
                  pc, stack, exitRequested>>
  BY DEF vars, sched, tasks, sync
<1>1. TypeOK'
  BY <1>0 DEF IInv, TypeOK
<1>2. /\ Ran' = Ran /\ Left' = Left /\ Aimed' = Aimed /\ Ready' = Ready /\ Handed' = Handed
  BY <1>0 DEF Ran, Left, Aimed, Ready, Handed
<1>3. FiberInv'
  <2>1. FibersApart'
    BY <1>0, <1>2 DEF IInv, FiberInv, FibersApart
  <2>2. Parked'
    BY <1>0, <1>2 DEF IInv, FiberInv, Parked
  <2>3. Running'
    BY <1>0 DEF IInv, FiberInv, Running, CurrentFiberRuns
  <2> QED
    BY <2>1, <2>2, <2>3 DEF FiberInv
<1>4. 0 \in Fibers /\ Top(0)' = Top(0) /\ stack' = stack /\ TypeOK /\ TaskInv
  BY <1>0, NumberFacts DEF IInv, Top
<1>5. TaskInv' /\ TaskState' = TaskState
  <2>1. /\ pc[0] \in {"decRef", "purge"} =>
             \A k \in Elems(Children[Top(0).task]) : TaskState[k] = "done"
        /\ exitRequested => pc[0] \in Adding \cup {"addNotify", "join", "done"}
        /\ FrameFits(Top(0)) /\ Fits(pc[0], Top(0))
    BY <1>4, TopFacts DEF TaskInv, Awaited, Purging, Placed
  <2> QED
    BY <1>0, <1>4, <2>1, TasksStay DEF TypeOK, tasks
<1> QED
  BY <1>0, <1>1, <1>3, <1>5 DEF IInv, PoolStep

LEMMA StepPreserves ==
  ASSUME IInv, NEW t \in Threads, Step(t)
  PROVE  IInv' /\ PoolStep
<1> DEFINE f == running[t]
<1>1. f \in Fibers
  <2>1. f # None
    BY DEF Step, At, Start, PopThreadQueue, PopExecute, PopAgain, PopExecuteQueue, HandOver,
           Switch, Resume, RunTest, WaitTest, PopHigh, PopLow, YieldFiber, RunTasks, DecRef,
           AddTest, AddLocked, AddNotify, AddBare, DoneTest, DoneSub, DoneNotify, TestTasks,
           Predicate, Sleep, Purge, Join, FinishTest, Exit
  <2> QED
    BY <2>1 DEF IInv, TypeOK
<1> HIDE DEF f
<1>2. CASE Start(t, f) \/ Resume(t, f)
  BY <1>1, <1>2, ResumingPreserves
<1>3. CASE PopThreadQueue(t, f)
  BY <1>1, <1>3, PopThreadQueuePreserves
<1>4. CASE PopExecute(t, f) \/ PopAgain(t, f)
  BY <1>1, <1>4, PopExecuteQueuePreserves
<1>5. CASE HandOver(t, f) \/ Switch(t, f)
  BY <1>1, <1>5, SwitchingPreserves
<1>6. CASE RunTest(t, f)
  BY <1>1, <1>6, LookingPreserves, NotingPreserves
<1>7. CASE PopHigh(t, f)
  <2>1. CASE highQueue = << >>
    BY <1>1, <1>7, <2>1, LookingPreserves
  <2>2. CASE highQueue # << >>
    <3>1. PopHigh(t, f) /\ highQueue # << >>
      BY <1>7, <2>2
    <3> QED
      BY <1>1, <3>1, PoppingPreserves
  <2> QED
    BY <2>1, <2>2
<1>8. CASE PopLow(t, f)
  <2>1. CASE lowQueue = << >>
    BY <1>1, <1>8, <2>1, LookingPreserves
  <2>2. CASE lowQueue # << >>
    BY <1>1, <1>8, <2>2, PoppingPreserves
  <2> QED
    BY <2>1, <2>2
<1>9. CASE TestTasks(t, f) \/ Predicate(t, f) \/ Sleep(t, f) \/ FinishTest(t, f)
  BY <1>1, <1>9, LookingPreserves
<1>10. CASE AddTest(t, f) \/ AddNotify(t, f) \/ DoneTest(t, f) \/ Join(t, f)
  BY <1>1, <1>10, NotifyingPreserves
<1>11. CASE WaitTest(t, f)
  BY <1>1, <1>11, WaitTestPreserves
<1>12. CASE YieldFiber(t, f)
  BY <1>1, <1>12, NotingPreserves
<1>13. CASE RunTasks(t, f)
  BY <1>1, <1>13, RunTasksPreserves
<1>14. CASE DecRef(t, f)
  BY <1>1, <1>14, DecRefPreserves
<1>15. CASE AddLocked(t, f) \/ AddBare(t, f)
  BY <1>1, <1>15, AnnouncePreserves
<1>16. CASE DoneSub(t, f)
  BY <1>1, <1>16, DoneSubPreserves
<1>17. CASE DoneNotify(t, f)
  BY <1>1, <1>17, DoneNotifyPreserves
<1>18. CASE Purge(t, f)
  BY <1>1, <1>18, PurgePreserves
<1>19. CASE Exit(t, f)
  BY <1>1, <1>19, ExitingPreserves
<1> QED
  BY <1>2, <1>3, <1>4, <1>5, <1>6, <1>7, <1>8, <1>9, <1>10, <1>11, <1>12, <1>13, <1>14,
     <1>15, <1>16, <1>17, <1>18, <1>19 DEF Step, f

LEMMA NextPreserves == IInv /\ [Next]_vars => IInv' /\ PoolStep
<1>1. CASE \E t \in Threads : Step(t)
  BY <1>1, StepPreserves
<1>2. CASE Finished \/ UNCHANGED vars
  BY <1>2, StutterPreserves DEF Finished
<1> QED
  BY <1>1, <1>2 DEF Next
-------------------------------------------------------------------------------
(* Theorems.                                                               *)

\* The inductive invariant.
THEOREM Invariance == Spec => []IInv
<1>1. Init => IInv
  BY InitEstablishes
<1>2. IInv /\ [Next]_vars => IInv'
  BY NextPreserves
<1> QED
  BY <1>1, <1>2, PTL DEF Spec

\* Every variable keeps its type, fiber and task queues, stacks and counters included.
THEOREM TypeCorrect == Spec => []TypeOK
<1>1. IInv => TypeOK
  BY DEF IInv
<1> QED
  BY <1>1, Invariance, PTL

\* No fiber's stack is ever used by two threads, and none is lost: a fiber is in
\* one place, wherever NextFiber, the queues and ResumeThisFiber have moved it.
THEOREM FibersInOnePlace == Spec => []FiberInOnePlace
<1>1. IInv => FiberInOnePlace
  <2> SUFFICES ASSUME IInv, NEW f \in Fibers
               PROVE  /\ \A p, q \in Places(f) : p = q
                      /\ Places(f) = {} => pc[f] = "done" /\ f # 0
    BY DEF FiberInOnePlace
  <2> DEFINE R == {<<"running", t>> : t \in {u \in Threads : running[u] = f}}
             L == {<<"last", t>> : t \in {u \in Threads : last[u] = f}}
             A == {<<"target", g>> : g \in {h \in Fibers : target[h] = f}}
             E == {<<"execute", i>> : i \in {j \in DOMAIN executeQueue : executeQueue[j] = f}}
             H == UNION {{<<"thread", t, i>> : i \in {j \in DOMAIN threadQueue[t] :
                                                        threadQueue[t][j] = f}} : t \in Threads}
  <2>1. Places(f) = R \cup L \cup A \cup E \cup H
    BY DEF Places
  <2>2. f # None /\ FibersApart /\ Parked
    BY NumberFacts DEF IInv, FiberInv
  <2>3. (\A p, q \in R : p = q) /\ (R = {} <=> f \notin Ran)
    <3>1. \A t, u \in Threads : running[t] = f /\ running[u] = f => t = u
      BY <2>2 DEF FibersApart
    <3> QED
      BY <2>2, <3>1 DEF Ran
  <2>4. (\A p, q \in L : p = q) /\ (L = {} <=> f \notin Left)
    <3>1. \A t, u \in Threads : last[t] = f /\ last[u] = f => t = u
      BY <2>2 DEF FibersApart
    <3> QED
      BY <2>2, <3>1 DEF Left
  <2>5. (\A p, q \in A : p = q) /\ (A = {} <=> f \notin Aimed)
    <3>1. \A g, h \in Fibers : target[g] = f /\ target[h] = f => g = h
      BY <2>2 DEF FibersApart
    <3> QED
      BY <2>2, <3>1 DEF Aimed
  <2>6. (\A p, q \in E : p = q) /\ (E = {} <=> f \notin Ready)
    <3>1. \A i, j \in DOMAIN executeQueue : executeQueue[i] = f /\ executeQueue[j] = f => i = j
      BY <2>2 DEF FibersApart, NoRepeats
    <3> QED
      BY <3>1 DEF Ready, Elems
  <2>7. (\A p, q \in H : p = q) /\ (H = {} <=> f \notin Handed)
    <3>1. ASSUME NEW t \in Threads, NEW u \in Threads,
                 NEW i \in DOMAIN threadQueue[t], NEW j \in DOMAIN threadQueue[u],
                 threadQueue[t][i] = f, threadQueue[u][j] = f
          PROVE  t = u /\ i = j
      <4>1. f \in Elems(threadQueue[t]) /\ f \in Elems(threadQueue[u])
        BY <3>1 DEF Elems
      <4>2. t = u
        BY <2>2, <4>1 DEF FibersApart
      <4>3. NoRepeats(threadQueue[t])
        BY <2>2 DEF FibersApart
      <4> QED
        BY <3>1, <4>2, <4>3 DEF NoRepeats
    <3>2. \A p \in H : \E t \in Threads : \E i \in DOMAIN threadQueue[t] :
            p = <<"thread", t, i>> /\ threadQueue[t][i] = f
      OBVIOUS
    <3>3. \A p, q \in H : p = q
      BY <3>1, <3>2
    <3>4. \A t \in Threads : \A i \in DOMAIN threadQueue[t] :
            threadQueue[t][i] = f => <<"thread", t, i>> \in H
      OBVIOUS
    <3>5. f \in Handed <=> \E t \in Threads : \E i \in DOMAIN threadQueue[t] : threadQueue[t][i] = f
      BY DEF Handed, Elems
    <3>6. H = {} <=> f \notin Handed
      <4> HIDE DEF H
      <4> QED
        BY <3>2, <3>4, <3>5
    <3> QED
      BY <3>3, <3>6
  <2> HIDE DEF R, L, A, E, H
  <2>8. \A p, q \in Places(f) : p = q
    BY <2>1, <2>2, <2>3, <2>4, <2>5, <2>6, <2>7 DEF FibersApart
  <2>9. Places(f) = {} => pc[f] = "done" /\ f # 0
    BY <2>1, <2>2, <2>3, <2>4, <2>5, <2>6, <2>7 DEF Parked
  <2> QED
    BY <2>8, <2>9
<1> QED
  BY <1>1, Invariance, PTL

\* NextFiber's assertions hold: m_currentFiber is the fiber that runs, nothing is
\* left to be re-queued, and no fiber switches to itself.
THEOREM CurrentFibersRun == Spec => []CurrentFiberRuns
<1>1. IInv => CurrentFiberRuns
  BY DEF IInv, FiberInv, Running
<1> QED
  BY <1>1, Invariance, PTL

\* A counter is the number of its tasks that are not done, at every moment.
THEOREM CountersCount == Spec => []CounterCountsTasks
<1>1. IInv => CounterCountsTasks
  BY DEF IInv, TaskInv
<1> QED
  BY <1>1, Invariance, PTL

\* m_numTasks is the number of unfinished tasks, less those still to be
\* announced, plus what Cleanup has added for the worker threads.
THEOREM TasksAreCounted == Spec => []NumTasksCounts
<1>1. IInv => NumTasksCounts
  BY DEF IInv, TaskInv
<1> QED
  BY <1>1, Invariance, PTL

\* The scheduler implements TaskPool: every task is executed once, on whatever
\* fiber and thread, and a wait returns only when its tasks are done.
THEOREM Implements == Spec => ImplementsTaskPool
<1>1. Init => Pool!Init
  BY InitEstablishes
<1>2. IInv /\ [Next]_vars => [Pool!Next]_(Pool!poolVars)
  BY NextPreserves DEF PoolStep, Pool!poolVars
<1> QED
  BY <1>1, <1>2, Invariance, PTL DEF Spec, ImplementsTaskPool, Pool!Spec
===============================================================================
