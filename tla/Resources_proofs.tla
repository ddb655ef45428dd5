-------------------------- MODULE Resources_proofs --------------------------
(***************************************************************************)
(* Theorems about the components of MCResources that have no proofs of     *)
(* their own: Semaphore, Thread, Connections, Function, CircularQueue,     *)
(* IntrusiveList, the three allocators and IntrusivePtr, for every value   *)
(* of their constants.                                                     *)
(***************************************************************************)
EXTENDS MCResources, SequenceLemmas

-----------------------------------------------------------------------------
(* Semaphore.  Units are counted as pairs of a thread and a number, so     *)
(* that the n units of a step are a set that is added to those before.     *)

\* What has been acquired, and released.
Acquired == S!Moved(S!Acquirer, Wants, wanted)
Released == S!Moved(S!Releaser, Parts, wanted)

\* Semaphore's Cardinality is that of the lemmas.
LEMMA ConservedUnits ==
  /\ S!Conserved <=> count + Cardinality(Acquired) = Cardinality(Released)
  /\ S!Conserved' <=> count' + Cardinality(Acquired') = Cardinality(Released')
<1>1. \A X : S!Cardinality(X) = Cardinality(X)
  BY DEF S!Cardinality, Cardinality
<1> QED
  BY <1>1 DEF S!Conserved, Acquired, Released, S!Acquirer, S!Releaser, S!Moved

LEMMA MovedFinite ==
  ASSUME NEW T \in SUBSET Callers,
         NEW all \in [Callers -> Nat], NEW rest \in [Callers -> Nat]
  PROVE  /\ IsFiniteSet(S!Moved(T, all, rest))
         /\ Cardinality(S!Moved(T, all, rest)) \in Nat
<1> DEFINE Of(t) == {t} \X (rest[t] + 1 .. all[t])
           f == [t \in T |-> Of(t)]
           Sets == {Of(t) : t \in T}
<1>1. IsFiniteSet(T)
  BY CallersAssumption, FS_Subset
<1>2. f \in Surjection(T, Sets)
  BY DEF Surjection
<1>3. IsFiniteSet(Sets)
  BY <1>1, <1>2, FS_Surjection
<1>4. ASSUME NEW t \in T PROVE IsFiniteSet(Of(t))
  <2>1. rest[t] + 1 \in Int /\ all[t] \in Int
    OBVIOUS
  <2>2. IsFiniteSet(rest[t] + 1 .. all[t])
    BY <2>1, FS_Interval
  <2> QED
    BY <2>2, FS_Singleton, FS_Product
<1>5. IsFiniteSet(UNION Sets)
  BY <1>3, <1>4, FS_UNION
<1> QED
  BY <1>5, FS_CardinalityType DEF S!Moved

\* A thread that moves n units more adds n to the units moved.
LEMMA MovedGrows ==
  ASSUME NEW T \in SUBSET Callers,
         NEW all \in [Callers -> Nat], NEW rest \in [Callers -> Nat],
         NEW t \in T, NEW n \in Nat, n <= rest[t], rest[t] <= all[t],
         NEW new, new[t] = rest[t] - n, \A u \in Callers \ {t} : new[u] = rest[u]
  PROVE  Cardinality(S!Moved(T, all, new)) = Cardinality(S!Moved(T, all, rest)) + n
<1> DEFINE more == {t} \X (rest[t] - n + 1 .. rest[t])
           old  == S!Moved(T, all, rest)
<1>1. S!Moved(T, all, new) = old \cup more
  <2>1. ASSUME NEW u \in T, u # t PROVE new[u] = rest[u]
    BY <2>1
  <2>2. new[t] + 1 .. all[t] = (rest[t] - n + 1 .. rest[t]) \cup (rest[t] + 1 .. all[t])
    OBVIOUS
  <2>3. {t} \X (new[t] + 1 .. all[t]) = more \cup ({t} \X (rest[t] + 1 .. all[t]))
    BY <2>2
  <2> QED
    BY <2>1, <2>3 DEF S!Moved
<1>2. old \cap more = {}
  <2>1. ASSUME NEW x \in old, x \in more PROVE FALSE
    <3>1. PICK u \in T : x \in {u} \X (rest[u] + 1 .. all[u])
      BY DEF S!Moved
    <3>2. x[1] = t /\ x[1] = u /\ x[2] \in rest[u] + 1 .. all[u] /\ x[2] \in rest[t] - n + 1 .. rest[t]
      BY <2>1, <3>1
    <3> QED
      BY <3>2
  <2> QED
    BY <2>1
<1>3. IsFiniteSet(more) /\ Cardinality(more) = n
  <2>1. PICK a \in Int, b \in Int : a = rest[t] - n + 1 /\ b = rest[t]
    OBVIOUS
  <2>2. (IF a > b THEN 0 ELSE b - a + 1) = n
    BY <2>1
  <2>3. IsFiniteSet(a .. b) /\ Cardinality(a .. b) = n
    BY <2>2, FS_Interval
  <2>4. IsFiniteSet({t}) /\ Cardinality({t}) = 1
    BY FS_Singleton
  <2>5. IsFiniteSet({t} \X (a .. b)) /\ Cardinality({t} \X (a .. b)) = 1 * n
    BY <2>3, <2>4, FS_Product
  <2> QED
    BY <2>1, <2>5
<1>4. Cardinality(old \cup more) = Cardinality(old) + Cardinality(more) - Cardinality(old \cap more)
  BY <1>3, MovedFinite, FS_Union
<1>5. Cardinality(old \cap more) = 0
  BY <1>2, FS_EmptySet
<1>6. Cardinality(old) \in Nat
  BY MovedFinite
<1>7. Cardinality(old \cup more) = Cardinality(old) + n
  BY <1>3, <1>4, <1>5, <1>6
<1> QED
  BY <1>1, <1>7

\* What other threads moved does not change.
LEMMA MovedStays ==
  ASSUME NEW T \in SUBSET Callers,
         NEW all \in [Callers -> Nat], NEW rest \in [Callers -> Nat],
         NEW t \in Callers \ T, NEW n \in Nat,
         NEW new, new[t] = rest[t] - n, \A u \in Callers \ {t} : new[u] = rest[u]
  PROVE  S!Moved(T, all, new) = S!Moved(T, all, rest)
<1>1. \A u \in T : new[u] = rest[u]
  OBVIOUS
<1> QED
  BY <1>1 DEF S!Moved

\* The semaphore starts empty and nobody has moved anything.
LEMMA SemaphoreInit ==
  ASSUME S!Init
  PROVE  S!IInv
<1>1. S!TypeOK
  BY CallersAssumption DEF S!Init, S!TypeOK, S!Acquirer
<1>2. \A t \in S!Acquirer : wanted[t] + 1 .. Wants[t] = {}
  BY CallersAssumption DEF S!Init, S!Acquirer
<1>3. \A t \in S!Releaser : wanted[t] + 1 .. Parts[t] = {}
  BY CallersAssumption DEF S!Init, S!Acquirer, S!Releaser
<1>4. Acquired = {} /\ Released = {}
  BY <1>2, <1>3 DEF S!Moved, Acquired, Released
<1>5. S!Conserved
  <2>1. Cardinality({}) = 0
    BY FS_EmptySet
  <2> QED
    BY <1>4, <2>1, ConservedUnits DEF S!Init
<1>6. S!NoSleeperForgotten
  BY DEF S!NoSleeperForgotten, S!Init
<1> QED
  BY <1>1, <1>5, <1>6 DEF S!IInv

\* A step in which t acquires or releases n of the units it has left.
Moves(t, n) == n <= wanted[t] /\ wanted' = [wanted EXCEPT ![t] = @ - n]

\* Whoever moves n units changes the sum of what was acquired, or released, by n.
LEMMA MovedUnits ==
  ASSUME S!TypeOK, NEW t \in Callers, NEW n \in Nat, Moves(t, n)
  PROVE  /\ Cardinality(Acquired) \in Nat /\ Cardinality(Released) \in Nat
         /\ Cardinality(Acquired') = Cardinality(Acquired) + IF t \in S!Acquirer THEN n ELSE 0
         /\ Cardinality(Released') = Cardinality(Released) + IF t \in S!Acquirer THEN 0 ELSE n
<1> DEFINE A == S!Acquirer
           R == S!Releaser
           new == wanted'
<1>1. A \in SUBSET Callers /\ R \in SUBSET Callers /\ R = Callers \ A
  BY DEF S!Acquirer, S!Releaser
<1>2. wanted \in [Callers -> Nat] /\ Wants \in [Callers -> Nat] /\ Parts \in [Callers -> Nat]
  BY CallersAssumption DEF S!TypeOK
<1>3. Acquired = S!Moved(A, Wants, wanted) /\ Released = S!Moved(R, Parts, wanted)
  BY DEF Acquired, Released
<1>4. Acquired' = S!Moved(A, Wants, new) /\ Released' = S!Moved(R, Parts, new)
  BY DEF Acquired, Released, S!Moved, S!Acquirer, S!Releaser
<1>5. wanted[t] <= IF t \in A THEN Wants[t] ELSE Parts[t]
  BY DEF S!TypeOK
<1>6. n <= wanted[t] /\ new[t] = wanted[t] - n /\ (\A u \in Callers \ {t} : new[u] = wanted[u])
      /\ new \in [Callers -> Nat]
  BY <1>2 DEF Moves
<1> HIDE DEF A, R, new
<1>7. Cardinality(Acquired) \in Nat /\ Cardinality(Released) \in Nat
  BY <1>1, <1>2, <1>3, MovedFinite
<1>8. CASE t \in A
  <2>1. Cardinality(Acquired') = Cardinality(Acquired) + n
    BY <1>1, <1>2, <1>3, <1>4, <1>5, <1>6, <1>8, MovedGrows
  <2>2. Released' = Released
    BY <1>1, <1>2, <1>3, <1>4, <1>6, <1>8, MovedStays
  <2> QED
    BY <1>7, <1>8, <2>1, <2>2 DEF A
<1>9. CASE t \notin A
  <2>1. Cardinality(Released') = Cardinality(Released) + n
    BY <1>1, <1>2, <1>3, <1>4, <1>5, <1>6, <1>9, MovedGrows
  <2>2. Acquired' = Acquired
    BY <1>1, <1>2, <1>3, <1>4, <1>6, <1>9, MovedStays
  <2> QED
    BY <1>7, <1>9, <2>1, <2>2 DEF A
<1> QED
  BY <1>8, <1>9
\* What is left to move stays a number below all there is to move.
LEMMA LessWanted ==
  ASSUME S!TypeOK, NEW t \in Callers, NEW n \in Nat, Moves(t, n)
  PROVE  /\ wanted' \in [Callers -> Nat]
         /\ (\A u \in Callers : wanted[u] <= IF u \in S!Acquirer THEN Wants[u] ELSE Parts[u])'
<1>1. wanted' \in [Callers -> Nat] /\ \A u \in Callers : wanted'[u] <= wanted[u]
  BY DEF S!TypeOK, Moves
<1>2. \A u \in Callers : Wants[u] \in Nat /\ Parts[u] \in Nat
  BY CallersAssumption
<1> QED
  BY <1>1, <1>2 DEF S!TypeOK, S!Acquirer

\* Every step keeps the count, the units and the notifications in order.
LEMMA SemaphoreNext ==
  ASSUME S!IInv, S!Next
  PROVE  S!IInv'
<1> USE DEF S!IInv
<1>1. ASSUME NEW t \in Callers, S!Take(t) PROVE S!IInv'
  <2> DEFINE n == IF wanted[t] < count THEN wanted[t] ELSE count
  <2>1. /\ n \in Nat /\ n <= count /\ t \in S!Acquirer
        /\ Moves(t, n) /\ count' = count - n /\ doing' = doing
    BY <1>1 DEF S!Take, S!TypeOK, Moves
  <2> HIDE DEF n
  <2>2. S!TypeOK'
    BY <2>1, LessWanted DEF S!TypeOK
  <2>3. S!Conserved'
    <3>1. /\ Cardinality(Acquired) \in Nat /\ Cardinality(Released) \in Nat
          /\ Cardinality(Acquired') = Cardinality(Acquired) + n
          /\ Cardinality(Released') = Cardinality(Released) + 0
      BY <2>1, MovedUnits DEF S!IInv
    <3>2. count \in Nat /\ count + Cardinality(Acquired) = Cardinality(Released)
      BY ConservedUnits DEF S!IInv, S!TypeOK
    <3>3. count' + Cardinality(Acquired') = Cardinality(Released')
      BY <2>1, <3>1, <3>2
    <3> QED
      BY <3>3, ConservedUnits
  <2>4. S!NoSleeperForgotten'
    BY <1>1, <2>1 DEF S!Take, S!NoSleeperForgotten, S!TypeOK
  <2> QED
    BY <2>2, <2>3, <2>4
<1>2. ASSUME NEW t \in Callers, NEW n \in 1 .. Parts[t], S!Add(t, n) PROVE S!IInv'
  <2>1. /\ n \in Nat \ {0} /\ t \notin S!Acquirer
        /\ Moves(t, n) /\ count' = count + n
    BY <1>2, CallersAssumption DEF S!Add, S!Releaser, Moves
  <2>2. S!TypeOK'
    <3>1. doing' \in [Callers -> {"work", "asleep", "notify", "done"}]
      BY <1>2 DEF S!Add, S!TypeOK
    <3> QED
      BY <2>1, <3>1, LessWanted DEF S!TypeOK
  <2>3. S!Conserved'
    <3>1. /\ Cardinality(Acquired) \in Nat /\ Cardinality(Released) \in Nat
          /\ Cardinality(Acquired') = Cardinality(Acquired) + 0
          /\ Cardinality(Released') = Cardinality(Released) + n
      BY <2>1, MovedUnits DEF S!IInv
    <3>2. count \in Nat /\ count + Cardinality(Acquired) = Cardinality(Released)
      BY ConservedUnits DEF S!IInv, S!TypeOK
    <3>3. count' + Cardinality(Acquired') = Cardinality(Released')
      BY <2>1, <3>1, <3>2
    <3> QED
      BY <3>3, ConservedUnits
  <2>4. S!NoSleeperForgotten'
    <3>1. CASE count = 0
      BY <1>2, <3>1 DEF S!Add, S!NoSleeperForgotten, S!TypeOK
    <3>2. CASE count # 0
      BY <1>2, <3>2 DEF S!Add, S!NoSleeperForgotten, S!TypeOK
    <3> QED
      BY <3>1, <3>2
  <2> QED
    BY <2>2, <2>3, <2>4
<1>3. ASSUME NEW t \in Callers, S!Sleep(t) \/ S!WakeUnasked(t) \/ S!Notify(t) \/ S!Return(t)
      PROVE  S!IInv'
  <2>1. UNCHANGED <<count, wanted>>
    BY <1>3 DEF S!Sleep, S!WakeUnasked, S!Notify, S!Return
  <2>2. S!TypeOK'
    BY <1>3, <2>1 DEF S!Sleep, S!WakeUnasked, S!Notify, S!Return, S!TypeOK, S!Acquirer
  <2>3. S!Conserved'
    BY <2>1 DEF S!Conserved, S!Acquirer, S!Releaser, S!Moved
  <2>4. S!NoSleeperForgotten'
    BY <1>3, <2>1 DEF S!Sleep, S!WakeUnasked, S!Notify, S!Return, S!NoSleeperForgotten, S!TypeOK
  <2> QED
    BY <2>2, <2>3, <2>4
<1> QED
  BY <1>1, <1>2, <1>3 DEF S!Next, S!Step
\* The semaphore conserves its units and forgets no sleeper, for any number of
\* threads that acquire and release any number of units (parallel.cpp:6, 21).
THEOREM SemaphoreIsSound == AllSpec => []SemaphoreSound
<1>1. AllInit => SemaphoreSound
  BY SemaphoreInit DEF AllInit, SemaphoreSound
<1>2. SemaphoreSound /\ [AllNext]_allVars => SemaphoreSound'
  <2> SUFFICES ASSUME SemaphoreSound, [AllNext]_allVars PROVE SemaphoreSound'
    OBVIOUS
  <2>1. CASE S!Next
    BY <2>1, SemaphoreNext DEF SemaphoreSound
  <2>2. CASE UNCHANGED semaphoreVars
    BY <2>2 DEF SemaphoreSound, semaphoreVars, S!IInv, S!TypeOK, S!Conserved, S!NoSleeperForgotten,
                S!Acquirer, S!Releaser, S!Moved
  <2> QED
    BY <2>1, <2>2 DEF AllNext, allVars, resourceVars
<1> QED
  BY <1>1, <1>2, PTL DEF AllSpec

-----------------------------------------------------------------------------
(* Thread.  A number of handles is 0 or 1 exactly when there is none, or   *)
(* one that every handle of the thread is.                                 *)

Unowned(t) == stage[t] \in {"new", "failed"} \/ t \in joined
Owning(t) == IF Unowned(t) THEN \A h \in Handles : thread[h] # t
             ELSE \E h \in Handles : \A k \in Handles : thread[k] = t <=> k = h
Using(t) == /\ stage[t] \in {"start", "Run", "reset"} => impl[t] = "alive"
            /\ t \in joined \/ stage[t] = "failed" => impl[t] = "freed"

LEMMA NumberOfHandles ==
  ASSUME NEW H \in SUBSET Handles
  PROVE  /\ Cardinality(H) = 0 <=> \A h \in Handles : h \notin H
         /\ Cardinality(H) = 1 <=> \E h \in Handles : \A k \in Handles : k \in H <=> k = h
<1>1. IsFiniteSet(H)
  BY HandlesAssumption, FS_Subset
<1>2. Cardinality(H) = 0 <=> H = {}
  BY <1>1, FS_EmptySet
<1>3. Cardinality(H) = 1 <=> \E h : H = {h}
  BY <1>1, FS_Singleton
<1> QED
  BY <1>2, <1>3

LEMMA OneHandle ==
  /\ Th!OneHandleEach <=> \A t \in Threads : Owning(t) /\ Using(t)
  /\ Th!OneHandleEach' <=> (\A t \in Threads : Owning(t) /\ Using(t))'
<1>1. \A X : Th!Cardinality(X) = Cardinality(X)
  BY DEF Th!Cardinality, Cardinality
<1>2. ASSUME NEW t \in Threads
      PROVE  Cardinality({h \in Handles : thread[h] = t}) = (IF Unowned(t) THEN 0 ELSE 1) <=> Owning(t)
  <2> DEFINE H == {h \in Handles : thread[h] = t}
  <2>1. /\ Cardinality(H) = 0 <=> \A h \in Handles : h \notin H
        /\ Cardinality(H) = 1 <=> \E h \in Handles : \A k \in Handles : k \in H <=> k = h
    BY NumberOfHandles
  <2>2. \A h \in Handles : h \in H <=> thread[h] = t
    OBVIOUS
  <2> QED
    BY <2>1, <2>2 DEF Owning
<1>3. ASSUME NEW t \in Threads
      PROVE  Cardinality({h \in Handles : thread'[h] = t}) = (IF Unowned(t)' THEN 0 ELSE 1) <=> Owning(t)'
  <2> DEFINE H == {h \in Handles : thread'[h] = t}
  <2>1. /\ Cardinality(H) = 0 <=> \A h \in Handles : h \notin H
        /\ Cardinality(H) = 1 <=> \E h \in Handles : \A k \in Handles : k \in H <=> k = h
    BY NumberOfHandles
  <2>2. \A h \in Handles : h \in H <=> thread'[h] = t
    OBVIOUS
  <2> QED
    BY <2>1, <2>2 DEF Owning
<1>4. Th!OneHandleEach <=> \A t \in Threads : Owning(t) /\ Using(t)
  BY <1>1, <1>2 DEF Th!OneHandleEach, Unowned, Using
<1>5. Th!OneHandleEach' <=> (\A t \in Threads : Owning(t) /\ Using(t))'
  BY <1>1, <1>3 DEF Th!OneHandleEach, Unowned, Using
<1> QED
  BY <1>4, <1>5
LEMMA ThreadInit ==
  ASSUME Th!Init
  PROVE  Th!IInv
<1>1. \A t \in Threads : Owning(t) /\ Using(t)
  BY HandlesAssumption DEF Th!Init, Owning, Using, Unowned
<1> QED
  BY <1>1, OneHandle DEF Th!Init, Th!IInv, Th!TypeOK, Th!JoinedAreDone

\* Every step leaves a thread that was started and not joined one handle.
LEMMA ThreadNext ==
  ASSUME Th!IInv, Th!Next
  PROVE  Th!IInv'
<1>1. Th!TypeOK /\ Th!JoinedAreDone /\ \A t \in Threads : Owning(t) /\ Using(t)
  BY OneHandle DEF Th!IInv
<1> DEFINE Kept == Th!TypeOK' /\ Th!JoinedAreDone' /\ \A t \in Threads : Owning(t)' /\ Using(t)'
<1>2. ASSUME NEW h \in Handles, NEW t \in Threads, Th!Start(h, t) PROVE Kept
  <2>1. Th!TypeOK' /\ Th!JoinedAreDone' /\ \A u \in Threads : Using(u)'
    BY <1>1, <1>2 DEF Th!Start, Th!TypeOK, Th!JoinedAreDone, Using
  <2>2. ASSUME NEW u \in Threads PROVE Owning(u)'
    <3>1. CASE u = t
      <4>1. ~ Unowned(t)'
        BY <1>1, <1>2 DEF Th!Start, Th!TypeOK, Th!JoinedAreDone, Unowned
      <4>2. \A k \in Handles : thread'[k] = t <=> k = h
        BY <1>1, <1>2 DEF Th!Start, Th!TypeOK, Owning, Unowned
      <4> QED
        BY <3>1, <4>1, <4>2 DEF Owning
    <3>2. CASE u # t
      <4>1. Unowned(u)' <=> Unowned(u)
        BY <1>1, <1>2, <3>2 DEF Th!Start, Th!TypeOK, Unowned
      <4>2. \A k \in Handles : thread'[k] = u <=> thread[k] = u
        BY <1>1, <1>2, <3>2, HandlesAssumption DEF Th!Start, Th!TypeOK
      <4> QED
        BY <1>1, <4>1, <4>2 DEF Owning
    <3> QED
      BY <3>1, <3>2
  <2> QED
    BY <2>1, <2>2
<1>3. ASSUME NEW t \in Threads,
             (\E h \in Handles : Th!StartFails(h, t)) \/ Th!Run(t) \/ Th!RunEnds(t) \/ Th!Reset(t)
      PROVE  Kept
  <2>1. thread' = thread /\ \A u \in Threads : Unowned(u)' <=> Unowned(u)
    BY <1>1, <1>3 DEF Th!StartFails, Th!Run, Th!RunEnds, Th!Reset, Th!TypeOK, Unowned
  <2>2. \A u \in Threads : Owning(u)'
    BY <1>1, <2>1 DEF Owning
  <2>3. Th!TypeOK' /\ Th!JoinedAreDone' /\ \A u \in Threads : Using(u)'
    BY <1>1, <1>3 DEF Th!StartFails, Th!Run, Th!RunEnds, Th!Reset, Th!TypeOK, Th!JoinedAreDone, Using
  <2> QED
    BY <2>2, <2>3
<1>4. ASSUME NEW h \in Handles, NEW k \in Handles, Th!Move(h, k) PROVE Kept
  <2>1. Th!TypeOK' /\ Th!JoinedAreDone' /\ \A u \in Threads : Using(u)'
    BY <1>1, <1>4 DEF Th!Move, Th!TypeOK, Th!JoinedAreDone, Using
  <2>2. ASSUME NEW u \in Threads PROVE Owning(u)'
    <3>1. Unowned(u)' <=> Unowned(u)
      BY <1>4 DEF Th!Move, Unowned
    <3> DEFINE Other(g) == IF g = h THEN k ELSE IF g = k THEN h ELSE g
    <3>2. \A g \in Handles : Other(g) \in Handles /\ Other(Other(g)) = g /\ thread'[g] = thread[Other(g)]
      BY <1>1, <1>4 DEF Th!Move, Th!TypeOK
    <3> HIDE DEF Other
    <3>3. CASE Unowned(u)
      BY <1>1, <3>1, <3>2, <3>3 DEF Owning
    <3>4. CASE ~ Unowned(u)
      <4>1. PICK o \in Handles : \A g \in Handles : thread[g] = u <=> g = o
        BY <1>1, <3>4 DEF Owning
      <4>2. \A g \in Handles : thread'[g] = u <=> g = Other(o)
        BY <3>2, <4>1
      <4> QED
        BY <3>1, <3>2, <3>4, <4>2 DEF Owning
    <3> QED
      BY <3>3, <3>4
  <2> QED
    BY <2>1, <2>2
<1>5. ASSUME NEW h \in Handles, Th!Join(h) PROVE Kept
  <2> DEFINE t == thread[h]
  <2>1. t \in Threads /\ stage[t] = "done"
    BY <1>1, <1>5 DEF Th!Join, Th!TypeOK
  <2>2. Th!TypeOK' /\ Th!JoinedAreDone' /\ \A u \in Threads : Using(u)'
    BY <1>1, <1>5, <2>1 DEF Th!Join, Th!TypeOK, Th!JoinedAreDone, Using
  <2>3. ASSUME NEW u \in Threads PROVE Owning(u)'
    <3>1. CASE u = t
      <4>1. Unowned(u)'
        BY <1>5, <3>1 DEF Th!Join, Unowned
      <4>2. \A k \in Handles : thread[k] = t => k = h
        BY <1>1, <2>1 DEF Owning
      <4>3. \A k \in Handles : thread'[k] # t
        BY <1>1, <1>5, <2>1, <4>2, HandlesAssumption DEF Th!Join, Th!TypeOK
      <4> QED
        BY <3>1, <4>1, <4>3 DEF Owning
    <3>2. CASE u # t
      <4>1. Unowned(u)' <=> Unowned(u)
        BY <1>5, <3>2 DEF Th!Join, Unowned
      <4>2. \A k \in Handles : thread'[k] = u <=> thread[k] = u
        BY <1>1, <1>5, <3>2, HandlesAssumption DEF Th!Join, Th!TypeOK
      <4> QED
        BY <1>1, <4>1, <4>2 DEF Owning
    <3> QED
      BY <3>1, <3>2
  <2> QED
    BY <2>2, <2>3
<1>6. Kept
  BY <1>2, <1>3, <1>4, <1>5 DEF Th!Next
<1> QED
  BY <1>6, OneHandle DEF Th!IInv
\* Handles own their threads, for any number of handles and threads (thread.cpp).
THEOREM ThreadsHaveOneHandle == AllSpec => []Th!IInv
<1>1. AllInit => Th!IInv
  BY ThreadInit DEF AllInit
<1>2. Th!IInv /\ [AllNext]_allVars => Th!IInv'
  <2> SUFFICES ASSUME Th!IInv, [AllNext]_allVars PROVE Th!IInv'
    OBVIOUS
  <2>1. CASE Th!Next
    BY <2>1, ThreadNext
  <2>2. CASE UNCHANGED threadVars
    <3>1. Th!TypeOK' /\ Th!JoinedAreDone'
      BY <2>2 DEF threadVars, Th!IInv, Th!TypeOK, Th!JoinedAreDone
    <3>2. \A t \in Threads : Owning(t)' /\ Using(t)'
      BY <2>2, OneHandle DEF threadVars, Th!IInv, Owning, Using, Unowned
    <3> QED
      BY <3>1, <3>2, OneHandle DEF Th!IInv
  <2> QED
    BY <2>1, <2>2 DEF AllNext, allVars, resourceVars
<1> QED
  BY <1>1, <1>2, PTL DEF AllSpec

-----------------------------------------------------------------------------
(* Connections.                                                            *)

\* The system gives a descriptor that is closed, or none.
LEMMA NewDescriptor ==
  Co!NewFd = Bad \/ (Co!NewFd \in Fds /\ state[Co!NewFd] = "closed")
<1>1. Co!Closed \in SUBSET Fds /\ Co!Closed \in SUBSET Nat
  BY SocketsAssumption DEF Co!Closed
<1>2. CASE Co!Closed # {}
  <2>1. \E f \in Co!Closed : \A g \in Co!Closed : f <= g
    BY <1>1, <1>2, LeastNumber
  <2>2. Co!NewFd \in Co!Closed
    BY <1>2, <2>1 DEF Co!NewFd
  <2> QED
    BY <2>2 DEF Co!Closed
<1> QED
  BY <1>2 DEF Co!NewFd

\* What is known of the constants.
LEMMA SocketFacts ==
  /\ Bad \notin Fds /\ Users \subseteq Co!Sockets
  /\ Co!Server \in Co!Sockets /\ Co!Result \in Co!Sockets
  /\ Co!Server \notin Users /\ Co!Result \notin Users /\ Co!Server # Co!Result
  /\ "nobody" \notin Co!Sockets
BY SocketsAssumption DEF Co!Sockets, Co!Server, Co!Result

LEMMA ConnectionsInit ==
  ASSUME Co!Init
  PROVE  Co!IInv
BY SocketFacts DEF Co!Init, Co!IInv, Co!TypeOK, Co!Owned, Co!Attempting, Co!Idle, Co!NoAttempt, Co!Sockets

\* Assigning a new descriptor, or none, closes what the socket had, and
\* nobody else's.
LEMMA AssignOwns ==
  ASSUME Co!TypeOK, Co!Owned, NEW s \in Co!Sockets, NEW f,
         f = Bad \/ (f \in Fds /\ state[f] = "closed"),
         NEW st \in {"new", "listening", "connected"} \cup IF f = Bad THEN {"closed"} ELSE {},
         s \in Users /\ f # Bad => st = "connected",
         Co!Assign(s, f, st)
  PROVE  /\ owns' = [owns EXCEPT ![s] = f]
         /\ owns' \in [Co!Sockets -> Fds \cup {Bad}]
         /\ state' \in [Fds -> {"closed", "new", "listening", "connected"}]
         /\ Co!Owned'
<1>1. owns \in [Co!Sockets -> Fds \cup {Bad}] /\ state \in [Fds -> {"closed", "new", "listening", "connected"}]
  BY DEF Co!TypeOK
<1>2. /\ owns' = [owns EXCEPT ![s] = f]
      /\ owns' \in [Co!Sockets -> Fds \cup {Bad}]
      /\ state' \in [Fds -> {"closed", "new", "listening", "connected"}]
      /\ \A g \in Fds : state'[g] = IF g = f THEN st ELSE IF g = owns[s] THEN "closed" ELSE state[g]
  BY <1>1 DEF Co!Assign
<1>3. owns'[s] = f /\ \A u \in Co!Sockets : u # s => owns'[u] = owns[u]
  BY <1>1, <1>2
\* No other socket had f or what s had.
<1>4. \A u \in Co!Sockets : u # s /\ owns[u] # Bad =>
         owns[u] \in Fds /\ owns[u] # f /\ owns[u] # owns[s] /\ state'[owns[u]] = state[owns[u]]
  BY <1>1, <1>2 DEF Co!Owned
<1>5. ASSUME NEW g \in Fds, state'[g] # "closed" PROVE \E u \in Co!Sockets : owns'[u] = g
  BY <1>1, <1>2, <1>3, <1>5, SocketFacts DEF Co!Owned
<1>6. ASSUME NEW u \in Co!Sockets, NEW v \in Co!Sockets, owns'[u] = owns'[v], u # v PROVE owns'[u] = Bad
  BY <1>3, <1>4, <1>6 DEF Co!Owned
<1>7. ASSUME NEW u \in Co!Sockets, owns'[u] # Bad PROVE state'[owns'[u]] # "closed"
  BY <1>2, <1>3, <1>4, <1>7, SocketFacts DEF Co!Owned
<1>8. ASSUME NEW u \in Users, owns'[u] # Bad PROVE state'[owns'[u]] = "connected"
  BY <1>2, <1>3, <1>4, <1>8, SocketFacts DEF Co!Owned
<1> QED
  BY <1>2, <1>5, <1>6, <1>7, <1>8 DEF Co!Owned, Co!Sockets, Co!Server, Co!Result
\* A socket t gives s what it has, or closes it; s closes what it had.
LEMMA TransferOwns ==
  ASSUME Co!TypeOK, Co!Owned, NEW s \in Users, NEW t \in Co!Sockets, s # t,
         NEW f \in {owns[t], Bad}, f # Bad => state[f] = "connected",
         owns' = [owns EXCEPT ![s] = f, ![t] = Bad],
         state' = [g \in Fds |-> IF g # f /\ g \in {owns[s], owns[t]} THEN "closed" ELSE state[g]]
  PROVE  /\ owns' \in [Co!Sockets -> Fds \cup {Bad}]
         /\ state' \in [Fds -> {"closed", "new", "listening", "connected"}]
         /\ Co!Owned'
<1>1. owns \in [Co!Sockets -> Fds \cup {Bad}] /\ state \in [Fds -> {"closed", "new", "listening", "connected"}]
  BY DEF Co!TypeOK
<1>2. /\ owns' \in [Co!Sockets -> Fds \cup {Bad}]
      /\ state' \in [Fds -> {"closed", "new", "listening", "connected"}]
      /\ \A g \in Fds : state'[g] = IF g # f /\ g \in {owns[s], owns[t]} THEN "closed" ELSE state[g]
  BY <1>1
<1>3. /\ s \in Co!Sockets /\ owns'[s] = f /\ owns'[t] = Bad
      /\ \A u \in Co!Sockets \ {s, t} : owns'[u] = owns[u]
  BY <1>1, SocketFacts
<1>4. \A u \in Co!Sockets \ {s, t} : owns[u] # Bad =>
         owns[u] \in Fds /\ owns[u] # f /\ owns[u] \notin {owns[s], owns[t]} /\ state'[owns[u]] = state[owns[u]]
  BY <1>1, <1>2, <1>3 DEF Co!Owned
<1>5. f # Bad => f \in Fds /\ state'[f] = "connected"
  BY <1>1, <1>2
<1>6. ASSUME NEW g \in Fds, state'[g] # "closed" PROVE \E u \in Co!Sockets : owns'[u] = g
  <2>1. PICK u \in Co!Sockets : owns[u] = g
    BY <1>1, <1>2, <1>5, <1>6 DEF Co!Owned
  <2>2. CASE u \in {s, t}
    BY <1>2, <1>3, <1>6, <2>1, <2>2
  <2>3. CASE u \notin {s, t}
    BY <1>3, <2>1, <2>3
  <2> QED
    BY <2>2, <2>3
<1>7. ASSUME NEW u \in Co!Sockets, NEW v \in Co!Sockets, owns'[u] = owns'[v], u # v PROVE owns'[u] = Bad
  <2>1. CASE u = t \/ v = t
    BY <1>3, <1>7, <2>1
  <2>2. CASE u \notin {s, t} /\ v \notin {s, t}
    <3>1. owns'[u] = owns[u] /\ owns'[v] = owns[v]
      BY <1>3, <2>2
    <3>2. owns[u] = owns[v] => owns[u] = Bad
      BY <1>7 DEF Co!Owned
    <3> QED
      BY <1>7, <3>1, <3>2
  <2>3. CASE u = s /\ v \notin {s, t}
    BY <1>3, <1>4, <1>7, <2>3
  <2>4. CASE v = s /\ u \notin {s, t}
    BY <1>3, <1>4, <1>7, <2>4
  <2> QED
    BY <1>7, <2>1, <2>2, <2>3, <2>4
<1>8. ASSUME NEW u \in Co!Sockets, owns'[u] # Bad PROVE state'[owns'[u]] # "closed"
  BY ZenonT(40), <1>3, <1>4, <1>5, <1>8 DEF Co!Owned
<1>9. ASSUME NEW u \in Users, owns'[u] # Bad PROVE state'[owns'[u]] = "connected"
  BY ZenonT(40), <1>3, <1>4, <1>5, <1>9, SocketFacts DEF Co!Owned
<1> QED
  BY <1>2, <1>6, <1>7, <1>8, <1>9 DEF Co!Owned, Co!Sockets, Co!Server, Co!Result

\* Every step leaves every open descriptor one owner.
LEMMA ConnectionsNext ==
  ASSUME Co!IInv, Co!Next
  PROVE  Co!IInv'
<1>1. Co!TypeOK /\ Co!Owned /\ Co!Attempting
  BY DEF Co!IInv
<1>2. ASSUME NEW s \in Users \cup {Co!Server}, Co!Close(s) PROVE Co!IInv'
  <2>1. /\ owns' = [owns EXCEPT ![s] = Bad] /\ owns' \in [Co!Sockets -> Fds \cup {Bad}]
        /\ state' \in [Fds -> {"closed", "new", "listening", "connected"}]
        /\ Co!Owned' /\ attempt' = attempt
    BY <1>1, <1>2, SocketFacts, AssignOwns DEF Co!Close
  <2>2. owns'[Co!Result] = owns[Co!Result]
    BY <1>1, <2>1, SocketFacts DEF Co!TypeOK
  <2> QED
    BY <1>1, <2>1, <2>2 DEF Co!IInv, Co!TypeOK, Co!Attempting, Co!Idle, Co!NoAttempt, Co!Sockets, Co!Server, Co!Result
<1>3. ASSUME NEW s \in Users, NEW t \in Users, Co!Move(s, t) PROVE Co!IInv'
  <2>1. /\ owns' \in [Co!Sockets -> Fds \cup {Bad}]
        /\ state' \in [Fds -> {"closed", "new", "listening", "connected"}]
        /\ Co!Owned'
    <3>1. CASE s = t
      <4>1. Co!Assign(s, Bad, "closed")
        BY <1>3, <3>1, SocketFacts DEF Co!Move, Co!Assign
      <4> QED
        BY <1>1, <4>1, SocketFacts, AssignOwns
    <3>2. CASE s # t
      <4> DEFINE f == owns[t]
      <4>1. s \in Co!Sockets /\ t \in Co!Sockets
        BY SocketFacts
      <4>2. f # Bad => state[f] = "connected" /\ f # owns[s]
        BY <1>1, <3>2, <4>1 DEF Co!Owned
      <4>3. owns' = [owns EXCEPT ![s] = f, ![t] = Bad]
        BY <1>3, <3>2 DEF Co!Move
      <4>4. state' = [g \in Fds |-> IF g # f /\ g \in {owns[s], owns[t]} THEN "closed" ELSE state[g]]
        BY <1>1, <1>3, <4>2, SocketFacts DEF Co!Move, Co!TypeOK
      <4> QED
        BY <1>1, <3>2, <4>1, <4>2, <4>3, <4>4, TransferOwns
    <3> QED
      BY <3>1, <3>2
  <2>2. attempt' = attempt /\ owns'[Co!Result] = owns[Co!Result]
    BY <1>1, <1>3, SocketFacts DEF Co!Move, Co!TypeOK
  <2> QED
    BY <1>1, <2>1, <2>2 DEF Co!IInv, Co!TypeOK, Co!Attempting, Co!Idle, Co!NoAttempt, Co!Sockets, Co!Server, Co!Result
<1>4. ASSUME NEW n \in 0 .. MaxAddresses, Co!Listen(n) \/ \E s \in Users : Co!Connect(s, n)
      PROVE  Co!IInv'
  <2>1. n \in Nat
    BY SocketsAssumption
  <2>2. owns' = owns /\ state' = state /\ owns[Co!Result] = Bad
    BY <1>1, <1>4, SocketFacts DEF Co!Listen, Co!Connect, Co!Attempting, Co!Idle, Co!NoAttempt, Co!Result
  <2>3. /\ attempt' \in [for : {"nobody", Co!Server, Co!Result}, left : Nat,
                         return : Users \cup {Co!Server, "nobody"}]
        /\ attempt'.for # "nobody" /\ attempt' # Co!NoAttempt
        /\ attempt'.for = Co!Result => attempt'.return \in Users
    BY <1>4, <2>1, SocketFacts DEF Co!Listen, Co!Connect, Co!NoAttempt, Co!Server, Co!Result
  <2> QED
    BY <1>1, <2>2, <2>3
    DEF Co!IInv, Co!TypeOK, Co!Owned, Co!Attempting, Co!Idle, Co!NoAttempt, Co!Sockets, Co!Server, Co!Result
<1>5. ASSUME NEW works \in BOOLEAN, Co!TryAddress(works) PROVE Co!IInv'
  <2> DEFINE s == attempt.for
             f == Co!NewFd
             st == IF ~ works THEN "new" ELSE IF s = Co!Server THEN "listening" ELSE "connected"
  <2>1. s \in {Co!Server, Co!Result}
    BY <1>1, <1>5 DEF Co!TryAddress, Co!TypeOK, Co!Attempting
  <2>2. Co!Assign(s, f, st) /\ attempt' = [attempt EXCEPT !.left = IF works THEN 0 ELSE @ - 1]
    BY <1>5 DEF Co!TryAddress
  <2>3. /\ owns' = [owns EXCEPT ![s] = f] /\ owns' \in [Co!Sockets -> Fds \cup {Bad}]
        /\ state' \in [Fds -> {"closed", "new", "listening", "connected"}]
        /\ Co!Owned'
    BY <1>1, <2>1, <2>2, SocketFacts, NewDescriptor, AssignOwns
  <2>4. attempt.left > 0 /\ attempt.left \in Nat
    BY <1>1, <1>5 DEF Co!TryAddress, Co!TypeOK
  <2>5. /\ attempt' \in [for : {"nobody", Co!Server, Co!Result}, left : Nat,
                         return : Users \cup {Co!Server, "nobody"}]
        /\ attempt'.for = attempt.for /\ attempt'.return = attempt.return
    BY <1>1, <2>2, <2>4 DEF Co!TypeOK
  <2>6. s # Co!Result => owns'[Co!Result] = Bad
    BY <1>1, <2>1, <2>3, SocketFacts DEF Co!TypeOK, Co!Attempting
  <2>7. attempt'.for # "nobody" /\ ~ Co!Idle'
    BY <2>1, <2>5 DEF Co!Idle, Co!NoAttempt, Co!Server, Co!Result
  <2>8. Co!Attempting'
    BY <1>1, <2>5, <2>6, <2>7 DEF Co!Attempting, Co!Result
  <2> QED
    BY <2>3, <2>5, <2>8 DEF Co!IInv, Co!TypeOK, Co!Sockets, Co!Server, Co!Result
<1>6. ASSUME NEW s \in Users, NEW works \in BOOLEAN, Co!Accept(s, works) PROVE Co!IInv'
  <2> DEFINE f == IF works THEN Co!NewFd ELSE Bad
  <2>1. Co!Assign(s, f, "connected") /\ attempt' = attempt
    BY <1>6 DEF Co!Accept
  <2>2. f = Bad \/ (f \in Fds /\ state[f] = "closed")
    BY NewDescriptor
  <2>3. /\ owns' = [owns EXCEPT ![s] = f] /\ owns' \in [Co!Sockets -> Fds \cup {Bad}]
        /\ state' \in [Fds -> {"closed", "new", "listening", "connected"}]
        /\ Co!Owned'
    BY <1>1, <2>1, <2>2, SocketFacts, AssignOwns
  <2>4. owns'[Co!Result] = owns[Co!Result]
    BY <1>1, <2>3, SocketFacts DEF Co!TypeOK
  <2> QED
    BY <1>1, <2>1, <2>3, <2>4
    DEF Co!IInv, Co!TypeOK, Co!Attempting, Co!Idle, Co!NoAttempt, Co!Sockets, Co!Server, Co!Result
<1>7. ASSUME Co!Return PROVE Co!IInv'
  <2>1. attempt' = Co!NoAttempt /\ attempt.for \in {Co!Server, Co!Result}
    BY <1>1, <1>7 DEF Co!Return, Co!TypeOK, Co!Attempting
  <2>2. /\ owns' \in [Co!Sockets -> Fds \cup {Bad}]
        /\ state' \in [Fds -> {"closed", "new", "listening", "connected"}]
        /\ Co!Owned' /\ owns'[Co!Result] = Bad
    <3>1. CASE attempt.for = Co!Server
      <4>1. owns' = owns /\ state' = state
        BY <1>7, <3>1 DEF Co!Return
      <4>2. owns[Co!Result] = Bad
        BY <1>1, <3>1, SocketFacts DEF Co!Attempting
      <4> QED
        BY <1>1, <4>1, <4>2 DEF Co!TypeOK, Co!Owned, Co!Sockets, Co!Server, Co!Result
    <3>2. CASE attempt.for # Co!Server
      <4> DEFINE s == attempt.return
                 f == IF Co!Connected THEN owns[Co!Result] ELSE Bad
      <4>1. s \in Users /\ s # Co!Result /\ s \in Co!Sockets
        BY <1>1, <2>1, <3>2, SocketFacts DEF Co!Attempting
      <4>2. /\ owns' = [owns EXCEPT ![s] = f, ![Co!Result] = Bad]
            /\ state' = [g \in Fds |-> IF g # f /\ g \in {owns[s], owns[Co!Result]} THEN "closed" ELSE state[g]]
        BY <1>7, <3>2 DEF Co!Return
      <4>3. f # Bad => state[f] = "connected"
        BY DEF Co!Connected
      <4>4. owns'[Co!Result] = Bad
        BY <1>1, <4>1, <4>2, SocketFacts DEF Co!TypeOK
      <4> QED
        BY <1>1, <4>1, <4>2, <4>3, <4>4, SocketFacts, TransferOwns
    <3> QED
      BY <3>1, <3>2
  <2>3. Co!Attempting' /\ attempt' \in [for : {"nobody", Co!Server, Co!Result}, left : Nat,
                                        return : Users \cup {Co!Server, "nobody"}]
    BY <2>1, <2>2 DEF Co!Attempting, Co!Idle, Co!NoAttempt, Co!Result
  <2> QED
    BY <2>2, <2>3 DEF Co!IInv, Co!TypeOK, Co!Sockets, Co!Server, Co!Result
<1> QED
  BY <1>2, <1>3, <1>4, <1>5, <1>6, <1>7 DEF Co!Next

\* Descriptors are open while one socket owns them, for any number of sockets,
\* descriptors and addresses (network.cpp).
THEOREM DescriptorsAreOwned == AllSpec => []Co!IInv
<1>1. AllInit => Co!IInv
  BY ConnectionsInit DEF AllInit
<1>2. Co!IInv /\ [AllNext]_allVars => Co!IInv'
  <2> SUFFICES ASSUME Co!IInv, [AllNext]_allVars PROVE Co!IInv'
    OBVIOUS
  <2>1. CASE Co!Next
    BY <2>1, ConnectionsNext
  <2>2. CASE UNCHANGED socketVars
    BY <2>2 DEF socketVars, Co!IInv, Co!TypeOK, Co!Owned, Co!Attempting, Co!Idle, Co!NoAttempt,
                Co!Sockets, Co!Server, Co!Result
  <2> QED
    BY <2>1, <2>2 DEF AllNext, allVars, resourceVars
<1> QED
  BY <1>1, <1>2, PTL DEF AllSpec
-----------------------------------------------------------------------------
(* Function.  Who assigns to a function makes the Impl in a place nobody   *)
(* points to: in its own storage, which no other function uses, or in a    *)
(* heap place in which nothing was made yet.                               *)

LEMMA FunctionInit ==
  ASSUME F!Init
  PROVE  F!IInv
BY CallablesAssumption DEF F!Init, F!IInv, F!TypeOK, F!CallsOwnImpl, F!OwnStorage, F!Functions,
                           F!Stores, F!Callables

\* What a function is given is its own Impl, whatever it held before.
LEMMA PutAtPreserves ==
  ASSUME F!IInv, NEW f \in F!Functions, NEW c \in F!Callables, NEW p \in F!Place(f, c),
         F!PutAt(f, p, c), calls' = [calls EXCEPT ![f] = c], bad' = bad
  PROVE  F!IInv'
<1>1. p \in F!Stores /\ p # Null /\ (p = f <=> c \in Small) /\ p \in Heap \cup {f}
  BY CallablesAssumption DEF F!Place, F!NewPlace, F!Stores, F!Functions, F!Callables
<1>2. \A g \in F!Functions : g # f => callee[g] # p
  BY CallablesAssumption DEF F!IInv, F!TypeOK, F!CallsOwnImpl, F!OwnStorage, F!Place, F!NewPlace,
                             F!Stores, F!Functions, F!Callables
<1> QED
  BY <1>1, <1>2, CallablesAssumption
     DEF F!IInv, F!TypeOK, F!CallsOwnImpl, F!OwnStorage, F!PutAt, F!Stores, F!Callables

LEMMA FunctionNext ==
  ASSUME F!IInv, F!Next
  PROVE  F!IInv'
<1>1. ASSUME NEW f \in F!Functions, NEW c \in F!Callables, F!Construct(f, c)
      PROVE  F!IInv'
  BY <1>1, PutAtPreserves DEF F!Construct
<1>2. ASSUME NEW f \in F!Functions, NEW g \in F!Functions, F!Copy(f, g)
      PROVE  F!IInv'
  <2>1. storage[callee[g]] = calls[g] /\ calls[g] \in F!Callables
    BY <1>2 DEF F!Copy, F!IInv, F!TypeOK, F!CallsOwnImpl
  <2> QED
    BY <1>2, <2>1, PutAtPreserves DEF F!Copy
<1>3. ASSUME NEW f \in F!Functions, NEW g \in F!Functions, F!Move(f, g)
      PROVE  F!IInv'
  <2>1. CASE callee[g] = Null
    BY <1>3, <2>1 DEF F!Move, F!IInv, F!TypeOK, F!CallsOwnImpl, F!OwnStorage
  <2>2. CASE callee[g] # Null /\ F!IsSmall(g)
    <3>1. /\ callee[g] = g /\ calls[g] = storage[g] /\ storage[g] \in Small
          /\ f # g /\ f \in F!Stores /\ f # Null /\ Null \notin Small /\ storage[g] \in F!Callables
          /\ F!Functions \cap Heap = {}
      BY <1>3, <2>2, CallablesAssumption
         DEF F!Move, F!IsSmall, F!IInv, F!CallsOwnImpl, F!Stores, F!Functions, F!Callables
    <3>2. /\ callee' = [callee EXCEPT ![f] = f, ![g] = Null]
          /\ storage' = [storage EXCEPT ![f] = storage[g]] /\ alive' = [alive EXCEPT ![f] = TRUE]
          /\ calls' = [calls EXCEPT ![f] = calls[g], ![g] = Null] /\ bad' = bad
      BY <1>3, <2>2 DEF F!Move
    <3>3. F!TypeOK'
      BY <3>1, <3>2 DEF F!IInv, F!TypeOK
    <3>4. F!OwnStorage'
      BY <3>1, <3>2 DEF F!IInv, F!TypeOK, F!OwnStorage
    <3>5. ASSUME NEW h \in F!Functions, h # f, h # g, callee[h] # Null
          PROVE  callee'[h] = callee[h] /\ callee[h] # f
      BY <3>1, <3>2, <3>5 DEF F!IInv, F!TypeOK, F!OwnStorage
    <3>6. F!CallsOwnImpl'
      BY <3>1, <3>2, <3>5 DEF F!IInv, F!TypeOK, F!CallsOwnImpl
    <3> QED
      BY <3>3, <3>4, <3>6 DEF F!IInv
  <2>3. CASE callee[g] # Null /\ ~F!IsSmall(g)
    BY <1>3, <2>3, CallablesAssumption
       DEF F!Move, F!IsSmall, F!IInv, F!TypeOK, F!CallsOwnImpl, F!OwnStorage, F!Stores, F!Functions, F!Callables
  <2> QED
    BY <2>1, <2>2, <2>3
<1>4. ASSUME NEW f \in F!Functions, F!Clear(f)
      PROVE  F!IInv'
  BY <1>4 DEF F!Clear, F!IInv, F!TypeOK, F!CallsOwnImpl, F!OwnStorage
<1> QED
  BY <1>1, <1>2, <1>3, <1>4 DEF F!Next

\* A function calls what was last put into it, in an Impl of its own, for any
\* callables that fit its storage or do not (function.hh).
THEOREM CallablesAreOwned == AllSpec => []F!IInv
<1>1. AllInit => F!IInv
  BY FunctionInit DEF AllInit
<1>2. F!IInv /\ [AllNext]_allVars => F!IInv'
  <2> SUFFICES ASSUME F!IInv, [AllNext]_allVars PROVE F!IInv'
    OBVIOUS
  <2>1. CASE F!Next
    BY <2>1, FunctionNext
  <2>2. CASE UNCHANGED functionVars
    BY <2>2 DEF functionVars, F!IInv, F!TypeOK, F!CallsOwnImpl, F!OwnStorage
  <2> QED
    BY <2>1, <2>2 DEF AllNext, allVars, resourceVars
<1> QED
  BY <1>1, <1>2, PTL DEF AllSpec

\* Threads, descriptors and callables have one owner each.
THEOREM OwnersAreUnique == AllSpec => []OneOwnerEach
BY ThreadsHaveOneHandle, DescriptorsAreOwned, CallablesAreOwned, PTL DEF OneOwnerEach

-----------------------------------------------------------------------------
(* CircularQueue.  Positions are compared modulo the size and modulo twice *)
(* the size; as no more than Size values lie between them, one subtraction *)
(* or two give the remainder.                                              *)

Reduced(x, n) == IF x < n THEN x ELSE IF x < 2 * n THEN x - n ELSE x - 2 * n

Wrapped(x, n) == IF x < 2 * n THEN x ELSE x - 2 * n

\* The remainder of what is less than three times the size.
LEMMA RemainderOf ==
  \A n \in Nat \ {0} : \A x \in Nat : x < 3 * n => x % n = Reduced(x, n)
<1> SUFFICES ASSUME NEW n \in Nat \ {0}, NEW x \in Nat, x < 3 * n
             PROVE  x % n = Reduced(x, n)
  OBVIOUS
<1>1. x < n => x % n = x
  OBVIOUS
<1>2. n <= x /\ x < 2 * n => x % n = x - n
  OBVIOUS
<1>3. 2 * n <= x /\ x < 3 * n => x % n = x - 2 * n
  OBVIOUS
<1> QED
  BY <1>1, <1>2, <1>3 DEF Reduced

\* The positions r and w of a ring of n cells, l values apart: empty and full,
\* a value more, a value less.
Apart(n, r, l, w) ==
    /\ r = w <=> l = 0
    /\ r # w /\ r % n = w % n <=> l = n
    /\ r % n \in 0 .. n - 1 /\ w % n \in 0 .. n - 1
Grown(n, r, l, w) ==
    /\ (w + 1) % (2 * n) \in 0 .. 2 * n - 1
    /\ (w + 1) % (2 * n) = (r + (l + 1)) % (2 * n)
    /\ w % n = (r + (l + 1) - 1) % n
    /\ \A i \in 1 .. l : (r + i - 1) % n # w % n
Shrunk(n, r, l, w) ==
    /\ (r + 1) % (2 * n) \in 0 .. 2 * n - 1
    /\ w = (((r + 1) % (2 * n)) + (l - 1)) % (2 * n)
    /\ \A i \in 1 .. l - 1 : (((r + 1) % (2 * n)) + i - 1) % n = (r + (i + 1) - 1) % n

\* Empty and full can be told, and a value is written behind and read before the
\* others, for every size.
LEMMA RingArithmetic ==
  ASSUME NEW n \in Nat \ {0}, NEW r \in 0 .. 2 * n - 1, NEW l \in 0 .. n, NEW w, w = (r + l) % (2 * n)
  PROVE  /\ Apart(n, r, l, w)
         /\ l < n => Grown(n, r, l, w)
         /\ l > 0 => Shrunk(n, r, l, w)
<1>0. 2 * n \in Nat \ {0} /\ r \in Nat /\ l \in Nat /\ r < 2 * n /\ l <= n
  OBVIOUS
<1>1. ASSUME NEW x \in Nat, x < 4 * n
      PROVE  x % (2 * n) = Wrapped(x, n)
  <2>1. x < 3 * (2 * n)
    BY <1>1
  <2>2. x % (2 * n) = Reduced(x, 2 * n)
    BY ONLY <1>0, <2>1, x \in Nat, RemainderOf
  <2> QED
    BY <1>1, <2>2 DEF Reduced, Wrapped
<1>2. ASSUME NEW x \in Nat, x < 3 * n
      PROVE  x % n = Reduced(x, n)
  BY <1>2, RemainderOf
<1>3. /\ w = Wrapped(r + l, n)
      /\ w \in 0 .. 2 * n - 1 /\ w \in Nat /\ w < 3 * n /\ r < 3 * n
  <2>1. r + l \in Nat /\ r + l < 4 * n
    BY <1>0
  <2>2. w = Wrapped(r + l, n)
    BY <1>1, <2>1
  <2> QED
    BY <1>0, <2>2 DEF Wrapped
<1>4. r % n = Reduced(r, n) /\ w % n = Reduced(w, n)
  BY <1>0, <1>2, <1>3
<1>5. Apart(n, r, l, w)
  <2>1. r = w <=> l = 0
    BY <1>0, <1>3 DEF Wrapped
  <2>2. r # w /\ r % n = w % n <=> l = n
    BY <1>0, <1>3, <1>4 DEF Reduced, Wrapped
  <2>3. r % n \in 0 .. n - 1 /\ w % n \in 0 .. n - 1
    BY <1>0, <1>3, <1>4 DEF Reduced, Wrapped
  <2> QED
    BY <2>1, <2>2, <2>3 DEF Apart
<1>6. ASSUME l < n
      PROVE  Grown(n, r, l, w)
  <2>1. w + 1 \in Nat /\ w + 1 < 4 * n /\ r + (l + 1) \in Nat /\ r + (l + 1) < 4 * n
    BY <1>0, <1>3, <1>6
  <2>2. (w + 1) % (2 * n) = Wrapped(w + 1, n) /\ (r + (l + 1)) % (2 * n) = Wrapped(r + (l + 1), n)
    BY ONLY <1>1, <2>1
  <2>3. (w + 1) % (2 * n) \in 0 .. 2 * n - 1 /\ (w + 1) % (2 * n) = (r + (l + 1)) % (2 * n)
    BY <1>0, <1>3, <1>6, <2>2 DEF Wrapped
  <2>4. ASSUME NEW i \in 1 .. l + 1
        PROVE  (r + i - 1) % n = Reduced(r + i - 1, n)
    <3>1. r + i - 1 \in Nat /\ r + i - 1 < 3 * n
      BY <1>0, <1>6
    <3> QED
      BY ONLY <1>2, <3>1
  <2>5. w % n = (r + (l + 1) - 1) % n
    <3>1. (r + (l + 1) - 1) % n = Reduced(r + (l + 1) - 1, n)
      BY ONLY <1>0, <2>4
    <3> QED
      BY <1>0, <1>3, <1>4, <1>6, <3>1 DEF Reduced, Wrapped
  <2>6. ASSUME NEW i \in 1 .. l
        PROVE  (r + i - 1) % n # w % n
    <3>0. i \in 1 .. l + 1
      BY <1>0
    <3>1. (r + i - 1) % n = Reduced(r + i - 1, n)
      BY ONLY <2>4, <3>0
    <3> QED
      BY <1>0, <1>3, <1>4, <1>6, <3>1 DEF Reduced, Wrapped
  <2> QED
    BY <2>3, <2>5, <2>6 DEF Grown
<1>7. ASSUME l > 0
      PROVE  Shrunk(n, r, l, w)
  <2> DEFINE p == Wrapped(r + 1, n)
  <2>1. r + 1 \in Nat /\ r + 1 < 4 * n
    BY <1>0
  <2>2. (r + 1) % (2 * n) = p
    BY ONLY <1>1, <2>1
  <2>3. p \in 0 .. 2 * n - 1 /\ p + (l - 1) \in Nat /\ p + (l - 1) < 4 * n
    BY <1>0, <1>7 DEF Wrapped
  <2>4. (p + (l - 1)) % (2 * n) = Wrapped(p + (l - 1), n)
    <3> HIDE DEF p
    <3> QED
      BY ONLY <1>1, <2>3
  <2>5. w = (p + (l - 1)) % (2 * n)
    BY <1>0, <1>3, <1>7, <2>4 DEF Wrapped
  <2>6. ASSUME NEW i \in 1 .. l - 1
        PROVE  (p + i - 1) % n = (r + (i + 1) - 1) % n
    <3>1. /\ p + i - 1 \in Nat /\ p + i - 1 < 3 * n
          /\ r + (i + 1) - 1 \in Nat /\ r + (i + 1) - 1 < 3 * n
      BY <1>0, <1>7 DEF Wrapped
    <3>2. /\ (p + i - 1) % n = Reduced(p + i - 1, n)
          /\ (r + (i + 1) - 1) % n = Reduced(r + (i + 1) - 1, n)
      <4> HIDE DEF p
      <4> QED
        BY ONLY <1>2, <3>1
    <3> QED
      BY <1>0, <1>7, <3>2 DEF Reduced, Wrapped
  <2> HIDE DEF p
  <2> QED
    BY <2>2, <2>3, <2>5, <2>6 DEF Shrunk
<1> QED
  BY <1>5, <1>6, <1>7

\* The empty ring is sound.
LEMMA RingInit ==
  ASSUME CQ!Init
  PROVE  CQ!IInv
<1>1. 0 \in 0 .. 2 * Size - 1 /\ 0 \in 0 .. Size /\ 0 = (0 + 0) % (2 * Size)
  <2>1. 2 * Size \in Nat \ {0}
    BY RingAssumption
  <2> QED
    BY <2>1, RingAssumption, RemainderOf
<1> QED
  BY <1>1, RingAssumption, EmptySeq
     DEF CQ!Init, CQ!IInv, CQ!TypeOK, CQ!IsBoundedFifo, CQ!IsEmpty, CQ!IsFull, CQ!Stored

\* Every step of the ring keeps its invariant.
LEMMA RingNext ==
  ASSUME CQ!IInv, CQ!Next
  PROVE  CQ!IInv'
<1> DEFINE l == Len(queued)
<1>1. /\ CQ!TypeOK /\ CQ!Stored /\ l \in 0 .. Size /\ (queued = <<>> <=> l = 0)
      /\ readPos \in 0 .. 2 * Size - 1 /\ writePos = (readPos + l) % (2 * Size)
  BY RingAssumption, EmptySeq, LenProperties DEF CQ!IInv, CQ!TypeOK, CQ!Stored
<1>2. ASSUME NEW v \in Values, CQ!Push(v)
      PROVE  CQ!TypeOK' /\ CQ!Stored'
  <2>1. l < Size
    BY <1>1, <1>2, RingAssumption DEF CQ!Push, CQ!IInv, CQ!IsBoundedFifo
  <2>0. Apart(Size, readPos, l, writePos) /\ Grown(Size, readPos, l, writePos)
    BY <1>1, <2>1, RingAssumption, RingArithmetic
  <2>2. /\ (writePos + 1) % (2 * Size) = (readPos + (l + 1)) % (2 * Size)
        /\ writePos % Size = (readPos + (l + 1) - 1) % Size /\ writePos % Size \in 0 .. Size - 1
        /\ \A i \in 1 .. l : (readPos + i - 1) % Size # writePos % Size
    BY <2>0 DEF Apart, Grown
  <2>3. writePos' \in 0 .. 2 * Size - 1
    BY <1>2, <2>0 DEF CQ!Push, CQ!Advance, Grown
  <2>4. /\ queued' \in Seq(Values) /\ Len(queued') = l + 1 /\ queued'[l + 1] = v
        /\ \A i \in 1 .. l : queued'[i] = queued[i]
        /\ \A i \in 1 .. l + 1 : i \in 1 .. l \/ i = l + 1
    BY <1>1, <1>2, AppendFacts DEF CQ!Push, CQ!TypeOK
  <2>5. /\ cells' = [cells EXCEPT ![writePos % Size] = v] /\ readPos' = readPos
        /\ writePos' = (writePos + 1) % (2 * Size)
    BY <1>2 DEF CQ!Push, CQ!Advance
  <2>6. CQ!TypeOK'
    BY <1>1, <2>3, <2>4, <2>5 DEF CQ!TypeOK
  <2>7. \A i \in 1 .. l : (readPos + i - 1) % Size \in 0 .. Size - 1
    <3>1. ASSUME NEW i \in 1 .. l PROVE readPos + i - 1 \in Nat
      BY <1>1, RingAssumption
    <3> QED
      BY <3>1, RingAssumption
  <2>8. \A i \in 1 .. l + 1 : cells'[(readPos + i - 1) % Size] = queued'[i]
    BY <1>1, <2>2, <2>4, <2>5, <2>7 DEF CQ!TypeOK, CQ!Stored
  <2>9. Len(queued') <= Size /\ writePos' = (readPos' + Len(queued')) % (2 * Size)
    BY <1>1, <2>1, <2>2, <2>4, <2>5, RingAssumption
  <2>10. \A i \in 1 .. Len(queued') : cells'[(readPos' + i - 1) % Size] = queued'[i]
    BY ONLY <2>4, <2>5, <2>8
  <2> QED
    BY ONLY <2>6, <2>9, <2>10 DEF CQ!Stored
<1>3. ASSUME CQ!Pop
      PROVE  CQ!TypeOK' /\ CQ!Stored'
  <2>1. queued # <<>> /\ l > 0
    BY <1>1, <1>3, RingAssumption DEF CQ!Pop, CQ!IInv, CQ!IsBoundedFifo
  <2>0. Shrunk(Size, readPos, l, writePos)
    BY <1>1, <2>1, RingAssumption, RingArithmetic
  <2>2. /\ (readPos + 1) % (2 * Size) \in 0 .. 2 * Size - 1
        /\ writePos = (((readPos + 1) % (2 * Size)) + (l - 1)) % (2 * Size)
        /\ \A i \in 1 .. l - 1 : (((readPos + 1) % (2 * Size)) + i - 1) % Size = (readPos + (i + 1) - 1) % Size
    BY <2>0 DEF Shrunk
  <2>3. /\ queued' \in Seq(Values) /\ Len(queued') = l - 1
        /\ \A i \in 1 .. l - 1 : i + 1 \in 1 .. l /\ queued'[i] = queued[i + 1]
    BY <1>1, <1>3, <2>1, ShortenFacts DEF CQ!Pop, CQ!TypeOK
  <2>4. cells' = cells /\ writePos' = writePos /\ readPos' = (readPos + 1) % (2 * Size)
    BY <1>3 DEF CQ!Pop, CQ!Advance
  <2>5. CQ!TypeOK'
    BY <1>1, <2>2, <2>3, <2>4 DEF CQ!TypeOK
  <2>6. Len(queued') <= Size /\ writePos' = (readPos' + Len(queued')) % (2 * Size)
    <3>1. Len(queued') <= Size
      BY <1>1, <2>1, <2>3, RingAssumption
    <3> QED
      BY ONLY <2>2, <2>3, <2>4, <3>1
  <2>7. \A i \in 1 .. l - 1 : cells[(((readPos + 1) % (2 * Size)) + i - 1) % Size] = queued[i + 1]
    <3>1. ASSUME NEW i \in 1 .. l - 1 PROVE cells[(readPos + (i + 1) - 1) % Size] = queued[i + 1]
      BY <1>1, <2>3 DEF CQ!Stored
    <3> QED
      BY ONLY <2>2, <3>1
  <2>8. \A i \in 1 .. Len(queued') : cells'[(readPos' + i - 1) % Size] = queued'[i]
    BY ONLY <2>3, <2>4, <2>7
  <2> QED
    BY ONLY <2>5, <2>6, <2>8 DEF CQ!Stored
<1>4. CQ!TypeOK' /\ CQ!Stored' => CQ!IsBoundedFifo'
  <2> SUFFICES ASSUME CQ!TypeOK', CQ!Stored' PROVE CQ!IsBoundedFifo'
    OBVIOUS
  <2>1. Len(queued') \in 0 .. Size /\ (queued' = <<>> <=> Len(queued') = 0)
    BY RingAssumption, EmptySeq, LenProperties DEF CQ!TypeOK, CQ!Stored
  <2>2. Apart(Size, readPos', Len(queued'), writePos')
    BY <2>1, RingAssumption, RingArithmetic DEF CQ!TypeOK, CQ!Stored
  <2>3. queued' # <<>> => cells'[readPos' % Size] = Head(queued')
    <3>1. queued' # <<>> => 1 \in 1 .. Len(queued') /\ Head(queued') = queued'[1]
      BY ShortenFacts DEF CQ!TypeOK
    <3>2. readPos' \in Nat
      BY RingAssumption DEF CQ!TypeOK
    <3>3. \A x \in Nat : x + 1 - 1 = x
      OBVIOUS
    <3>4. readPos' + 1 - 1 = readPos'
      BY ONLY <3>2, <3>3, Zenon
    <3> QED
      BY <3>1, <3>4 DEF CQ!Stored
  <2> QED
    BY <2>1, <2>2, <2>3 DEF CQ!IsBoundedFifo, CQ!IsEmpty, CQ!IsFull, CQ!Popped, Apart
<1> QED
  BY <1>2, <1>3, <1>4 DEF CQ!Next, CQ!IInv

\* The ring holds the values pushed and not yet popped, in their order, for any
\* size and any values (circularqueue.hh).
THEOREM RingsHoldTheirValues == AllSpec => []CQ!IInv
<1>1. AllInit => CQ!IInv
  BY RingInit DEF AllInit
<1>2. CQ!IInv /\ [AllNext]_allVars => CQ!IInv'
  <2> SUFFICES ASSUME CQ!IInv, [AllNext]_allVars PROVE CQ!IInv'
    OBVIOUS
  <2>1. CASE CQ!Next
    BY <2>1, RingNext
  <2>2. CASE UNCHANGED ringVars
    BY <2>2 DEF ringVars, CQ!IInv, CQ!TypeOK, CQ!IsBoundedFifo, CQ!Stored, CQ!IsEmpty, CQ!IsFull, CQ!Popped
  <2> QED
    BY <2>1, <2>2 DEF AllNext, allVars, resourceVars
<1> QED
  BY <1>1, <1>2, PTL DEF AllSpec

-----------------------------------------------------------------------------
(* IntrusiveList.  A list is sound by itself, whatever the other is; a step *)
(* keeps the links of the nodes of the other.                              *)

Elements(s) == {s[i] : i \in 1 .. Len(s)}

\* What LinksAgree and NodesApart say of one list.
Linked(x, nx, pv, s, c) ==
    /\ x.head = IF Len(s) = 0 THEN Null ELSE s[1]
    /\ x.tail = IF Len(s) = 0 THEN Null ELSE s[Len(s)]
    /\ \A i \in 1 .. Len(s) : /\ nx[s[i]] = IF i = Len(s) THEN Null ELSE s[i + 1]
                              /\ pv[s[i]] = IF i = 1 THEN Null ELSE s[i - 1]
    /\ x.size = Len(s) + c
    /\ \A i, j \in 1 .. Len(s) : s[i] = s[j] => i = j

LEMMA ApartByList ==
  ASSUME NEW L, NEW q
  PROVE  (\A l, m \in L : \A i \in 1 .. Len(q[l]), j \in 1 .. Len(q[m]) :
              q[l][i] = q[m][j] => l = m /\ i = j)
         <=> /\ \A l \in L : \A i, j \in 1 .. Len(q[l]) : q[l][i] = q[l][j] => i = j
             /\ \A l, m \in L : l # m => Elements(q[l]) \cap Elements(q[m]) = {}
<1>1. ASSUME NEW l \in L, NEW m \in L
      PROVE  Elements(q[l]) \cap Elements(q[m]) = {}
             <=> \A i \in 1 .. Len(q[l]), j \in 1 .. Len(q[m]) : q[l][i] # q[m][j]
  BY DEF Elements
<1> QED
  BY <1>1

LEMMA ListsAreSound ==
  /\ IL!IInv <=> /\ IL!TypeOK
                 /\ \A l \in IL!Lists : Linked(list[l], next, prev, seq[l], cleared[l])
                 /\ \A l, m \in IL!Lists : l # m => Elements(seq[l]) \cap Elements(seq[m]) = {}
  /\ IL!IInv' <=> /\ IL!TypeOK'
                  /\ \A l \in IL!Lists : Linked(list'[l], next', prev', seq'[l], cleared'[l])
                  /\ \A l, m \in IL!Lists : l # m => Elements(seq'[l]) \cap Elements(seq'[m]) = {}
<1>1. IL!NodesApart <=>
        /\ \A l \in IL!Lists : \A i, j \in 1 .. Len(seq[l]) : seq[l][i] = seq[l][j] => i = j
        /\ \A l, m \in IL!Lists : l # m => Elements(seq[l]) \cap Elements(seq[m]) = {}
  BY ApartByList DEF IL!NodesApart
<1>2. IL!NodesApart' <=>
        /\ \A l \in IL!Lists : \A i, j \in 1 .. Len(seq'[l]) : seq'[l][i] = seq'[l][j] => i = j
        /\ \A l, m \in IL!Lists : l # m => Elements(seq'[l]) \cap Elements(seq'[m]) = {}
  BY ApartByList DEF IL!NodesApart
<1>3. IL!LinksAgree /\ (\A l \in IL!Lists : \A i, j \in 1 .. Len(seq[l]) : seq[l][i] = seq[l][j] => i = j)
        <=> \A l \in IL!Lists : Linked(list[l], next, prev, seq[l], cleared[l])
  BY DEF IL!LinksAgree, Linked
<1>4. IL!LinksAgree' /\ (\A l \in IL!Lists : \A i, j \in 1 .. Len(seq'[l]) : seq'[l][i] = seq'[l][j] => i = j)
        <=> \A l \in IL!Lists : Linked(list'[l], next', prev', seq'[l], cleared'[l])
  BY DEF IL!LinksAgree, Linked
<1> QED
  BY ONLY <1>1, <1>2, <1>3, <1>4 DEF IL!IInv

\* Links that are changed at other nodes only.
LEMMA LinkedElsewhere ==
  ASSUME NEW x, NEW s, NEW c, NEW nx, NEW pv, NEW nx2, NEW pv2,
         Linked(x, nx, pv, s, c),
         \A n \in Elements(s) : nx2[n] = nx[n] /\ pv2[n] = pv[n]
  PROVE  Linked(x, nx2, pv2, s, c)
BY DEF Linked, Elements

\* A step at list l, which is now u, that touches only nodes of M, none of
\* which is in the other list.
LEMMA OneListChanges ==
  ASSUME IL!IInv, NEW l \in IL!Lists, NEW u \in Seq(Nodes), NEW c \in Nat, NEW M,
         \A k \in IL!Lists : k # l => Elements(seq[k]) \cap M = {},
         next' \in [Nodes -> Nodes \cup {Null}], prev' \in [Nodes -> Nodes \cup {Null}],
         list' \in [IL!Lists -> [head : Nodes \cup {Null}, tail : Nodes \cup {Null}, size : Nat]],
         \A k \in IL!Lists : k # l => list'[k] = list[k],
         seq' = [seq EXCEPT ![l] = u], cleared' = [cleared EXCEPT ![l] = c],
         Elements(u) \subseteq M,
         \A x \in Nodes \ M : next'[x] = next[x] /\ prev'[x] = prev[x],
         Linked(list'[l], next', prev', u, c)
  PROVE  IL!IInv'
<1>1. /\ seq \in [IL!Lists -> Seq(Nodes)] /\ cleared \in [IL!Lists -> Nat]
      /\ \A k \in IL!Lists : Linked(list[k], next, prev, seq[k], cleared[k])
      /\ \A k, m \in IL!Lists : k # m => Elements(seq[k]) \cap Elements(seq[m]) = {}
  BY ListsAreSound DEF IL!TypeOK
<1>2. /\ seq'[l] = u /\ cleared'[l] = c
      /\ \A k \in IL!Lists : k # l => seq'[k] = seq[k] /\ cleared'[k] = cleared[k]
  BY <1>1
<1>3. IL!TypeOK'
  <2>1. seq' \in [IL!Lists -> Seq(Nodes)] /\ cleared' \in [IL!Lists -> Nat]
    BY <1>1
  <2> QED
    BY <2>1 DEF IL!TypeOK
<1>4. ASSUME NEW k \in IL!Lists
      PROVE  Linked(list'[k], next', prev', seq'[k], cleared'[k])
  <2>1. CASE k = l
    BY <1>2, <2>1
  <2>2. CASE k # l
    <3>1. \A n \in Elements(seq[k]) : n \in Nodes \ M
      BY <1>1, <2>2, ElementOfSeq DEF Elements
    <3>2. \A n \in Elements(seq[k]) : next'[n] = next[n] /\ prev'[n] = prev[n]
      BY <3>1
    <3>3. Linked(list[k], next, prev, seq[k], cleared[k])
      BY <1>1
    <3>4. Linked(list[k], next', prev', seq[k], cleared[k])
      BY ONLY <3>2, <3>3, LinkedElsewhere
    <3> QED
      BY <1>2, <2>2, <3>4
  <2> QED
    BY <2>1, <2>2
<1>5. \A k, m \in IL!Lists : k # m => Elements(seq'[k]) \cap Elements(seq'[m]) = {}
  BY <1>1, <1>2
<1> QED
  BY <1>3, <1>4, <1>5, ListsAreSound

\* What the invariant says of the list l that a step is about.
LEMMA ListFacts ==
  ASSUME IL!IInv, NEW l \in IL!Lists
  PROVE  /\ Linked(list[l], next, prev, seq[l], cleared[l])
         /\ seq[l] \in Seq(Nodes) /\ Len(seq[l]) \in Nat /\ cleared[l] \in Nat
         /\ \A i \in 1 .. Len(seq[l]) : seq[l][i] \in Nodes /\ seq[l][i] # Null
         /\ list[l].head # Null => Len(seq[l]) > 0
         /\ list[l].tail # Null => Len(seq[l]) > 0
         /\ Len(seq[l]) = 0 <=> seq[l] = <<>>
<1>1. seq[l] \in Seq(Nodes) /\ cleared[l] \in Nat /\ Linked(list[l], next, prev, seq[l], cleared[l])
  BY ListsAreSound DEF IL!IInv, IL!TypeOK
<1>2. Len(seq[l]) \in Nat /\ (Len(seq[l]) = 0 <=> seq[l] = <<>>)
  BY <1>1, LenProperties, EmptySeq
<1>3. \A i \in 1 .. Len(seq[l]) : seq[l][i] \in Nodes /\ seq[l][i] # Null
  BY <1>1, ElementOfSeq, NodesAssumption
<1> QED
  BY <1>1, <1>2, <1>3 DEF Linked

\* A fresh node is in no list.
LEMMA FreshFacts ==
  ASSUME IL!IInv, NEW n \in Nodes, IL!Fresh(n)
  PROVE  /\ n # Null /\ next[n] = Null /\ prev[n] = Null
         /\ \A k \in IL!Lists : n \notin Elements(seq[k]) /\ \A i \in 1 .. Len(seq[k]) : seq[k][i] # n
<1>1. \A k \in IL!Lists : DOMAIN seq[k] = 1 .. Len(seq[k])
  BY LenProperties DEF IL!IInv, IL!TypeOK
<1> QED
  BY <1>1, NodesAssumption DEF IL!Fresh, IL!In, Elements

\* A fresh node in front of a list.
LEMMA PushFrontSound ==
  ASSUME IL!IInv, NEW l \in IL!Lists, NEW n \in Nodes, IL!PushFront(l, n)
  PROVE  IL!IInv'
<1> DEFINE s == seq[l]
           h == list[l].head
<1>1. /\ Linked(list[l], next, prev, s, cleared[l]) /\ s \in Seq(Nodes) /\ Len(s) \in Nat
      /\ cleared[l] \in Nat /\ \A i \in 1 .. Len(s) : s[i] \in Nodes /\ s[i] # Null
  BY ListFacts
<1>2. /\ n # Null /\ next[n] = Null /\ prev[n] = Null
      /\ \A k \in IL!Lists : n \notin Elements(seq[k]) /\ \A i \in 1 .. Len(seq[k]) : seq[k][i] # n
  BY FreshFacts DEF IL!PushFront
<1>3. /\ seq' = [seq EXCEPT ![l] = <<n>> \o s] /\ cleared' = cleared
      /\ IF h # Null
         THEN /\ next' = [next EXCEPT ![n] = h] /\ prev' = [prev EXCEPT ![h] = n]
              /\ list' = [list EXCEPT ![l].head = n, ![l].size = @ + 1]
         ELSE /\ next' = next /\ prev' = prev
              /\ list' = [list EXCEPT ![l] = [head |-> n, tail |-> n, size |-> @.size + 1]]
  BY DEF IL!PushFront, IL!links
<1>4. /\ seq'[l] \in Seq(Nodes) /\ Len(seq'[l]) = Len(s) + 1 /\ seq'[l][1] = n
      /\ \A i \in 1 .. Len(s) : i + 1 \in 1 .. Len(s) + 1 /\ seq'[l][i + 1] = s[i]
      /\ \A i \in 1 .. Len(s) + 1 : i = 1 \/ (i - 1 \in 1 .. Len(s) /\ (i - 1) + 1 = i)
  BY <1>1, <1>3, PrependFacts DEF IL!IInv, IL!TypeOK
<1>5. /\ h \in Nodes \cup {Null} /\ list[l].tail \in Nodes \cup {Null} /\ list[l].size \in Nat
      /\ (h = Null <=> Len(s) = 0) /\ (Len(s) > 0 => h = s[1] /\ list[l].tail = s[Len(s)])
  <2>1. h \in Nodes \cup {Null} /\ list[l].tail \in Nodes \cup {Null} /\ list[l].size \in Nat
    BY DEF IL!IInv, IL!TypeOK
  <2>2. Len(s) > 0 => 1 \in 1 .. Len(s)
    BY <1>1
  <2> QED
    BY <1>1, <2>1, <2>2 DEF Linked
<1>6. /\ next' \in [Nodes -> Nodes \cup {Null}] /\ prev' \in [Nodes -> Nodes \cup {Null}]
      /\ \A x \in Nodes : /\ next'[x] = IF x = n THEN h ELSE next[x]
                          /\ prev'[x] = IF x = h THEN n ELSE prev[x]
  <2>1. CASE h # Null
    BY <1>3, <1>5, <2>1 DEF IL!IInv, IL!TypeOK
  <2>2. CASE h = Null
    BY <1>2, <1>3, <2>2, NodesAssumption DEF IL!IInv, IL!TypeOK
  <2> QED
    BY <2>1, <2>2
<1>7. /\ list' \in [IL!Lists -> [head : Nodes \cup {Null}, tail : Nodes \cup {Null}, size : Nat]]
      /\ list'[l].head = n /\ list'[l].tail = (IF h = Null THEN n ELSE list[l].tail)
      /\ list'[l].size = list[l].size + 1
      /\ \A k \in IL!Lists : k # l => list'[k] = list[k]
  <2>0. list \in [IL!Lists -> [head : Nodes \cup {Null}, tail : Nodes \cup {Null}, size : Nat]]
    BY DEF IL!IInv, IL!TypeOK
  <2>1. CASE h # Null
    <3>1. list' = [list EXCEPT ![l].head = n, ![l].size = @ + 1]
      BY <1>3, <2>1
    <3>2. list' \in [IL!Lists -> [head : Nodes \cup {Null}, tail : Nodes \cup {Null}, size : Nat]]
      BY <1>5, <2>0, <3>1
    <3>3. list'[l].head = n /\ list'[l].tail = list[l].tail /\ list'[l].size = list[l].size + 1
      BY <2>0, <3>1
    <3>4. \A k \in IL!Lists : k # l => list'[k] = list[k]
      BY <2>0, <3>1
    <3> QED
      BY ONLY <2>1, <3>2, <3>3, <3>4
  <2>2. CASE h = Null
    <3>1. list' = [list EXCEPT ![l] = [head |-> n, tail |-> n, size |-> list[l].size + 1]]
      BY <1>3, <2>2
    <3>2. list' \in [IL!Lists -> [head : Nodes \cup {Null}, tail : Nodes \cup {Null}, size : Nat]]
      BY <1>5, <2>0, <3>1
    <3>3. list'[l].head = n /\ list'[l].tail = n /\ list'[l].size = list[l].size + 1
      BY <2>0, <3>1
    <3>4. \A k \in IL!Lists : k # l => list'[k] = list[k]
      BY <2>0, <3>1
    <3> QED
      BY ONLY <2>2, <3>2, <3>3, <3>4
  <2> QED
    BY ONLY <2>1, <2>2
<1>8. Linked(list'[l], next', prev', seq'[l], cleared'[l])
  <2>1. /\ list'[l].tail = seq'[l][Len(s) + 1] /\ list'[l].size = Len(s) + 1 + cleared[l]
        /\ cleared'[l] = cleared[l]
    <3>1. Len(s) > 0 => Len(s) \in 1 .. Len(s)
      BY <1>1
    <3>2. list[l].size = Len(s) + cleared[l]
      BY <1>1 DEF Linked
    <3>3. Len(s) + cleared[l] + 1 = Len(s) + 1 + cleared[l]
      BY ONLY <1>1
    <3>4. list'[l].tail = seq'[l][Len(s) + 1]
      BY SMTT(30), <1>1, <1>4, <1>5, <1>7, <3>1
    <3> QED
      BY ONLY <1>1, <1>3, <1>7, <3>2, <3>3, <3>4
  <2>2. next'[n] = (IF Len(s) = 0 THEN Null ELSE s[1]) /\ prev'[n] = Null
    BY <1>1, <1>2, <1>5, <1>6
  <2>3. ASSUME NEW i \in 1 .. Len(s)
        PROVE  /\ next'[s[i]] = IF i = Len(s) THEN Null ELSE s[i + 1]
               /\ prev'[s[i]] = IF i = 1 THEN n ELSE s[i - 1]
    <3>1. /\ next[s[i]] = (IF i = Len(s) THEN Null ELSE s[i + 1]) /\ s[i] # n /\ s[i] \in Nodes
          /\ prev[s[i]] = (IF i = 1 THEN Null ELSE s[i - 1])
      BY <1>1, <1>2 DEF Linked
    <3>2. s[i] = h <=> i = 1
      BY <1>1, <1>5 DEF Linked
    <3> QED
      BY <1>6, <3>1, <3>2
  <2>4. ASSUME NEW i \in 1 .. Len(s) + 1
        PROVE  /\ next'[seq'[l][i]] = IF i = Len(s) + 1 THEN Null ELSE seq'[l][i + 1]
               /\ prev'[seq'[l][i]] = IF i = 1 THEN Null ELSE seq'[l][i - 1]
    <3>1. CASE i = 1
      <4>1. Len(s) > 0 => 1 \in 1 .. Len(s) /\ seq'[l][1 + 1] = s[1]
        BY <1>1, <1>4
      <4> QED
        BY <1>1, <1>4, <2>2, <3>1, <4>1
    <3>2. CASE i # 1
      <4> DEFINE j == i - 1
      <4>1. /\ j \in 1 .. Len(s) /\ i = j + 1 /\ (j = Len(s) <=> i = Len(s) + 1)
            /\ j # Len(s) => j + 1 \in 1 .. Len(s)
            /\ j # 1 => j - 1 \in 1 .. Len(s) /\ (j - 1) + 1 = j
        BY <1>1, <3>2
      <4> HIDE DEF j
      <4>2. seq'[l][i] = s[j] /\ (j # Len(s) => seq'[l][i + 1] = s[j + 1])
        BY <1>4, <4>1
      <4>3. seq'[l][j] = IF j = 1 THEN n ELSE s[j - 1]
        BY <1>4, <4>1
      <4>4. i - 1 = j
        BY DEF j
      <4> QED
        BY <2>3, <3>2, <4>1, <4>2, <4>3, <4>4
    <3> QED
      BY <3>1, <3>2
  <2>5. ASSUME NEW i \in 1 .. Len(s) + 1, NEW j \in 1 .. Len(s) + 1, seq'[l][i] = seq'[l][j]
        PROVE  i = j
    <3>1. ASSUME NEW k \in 1 .. Len(s) + 1, k # 1
          PROVE  k - 1 \in 1 .. Len(s) /\ seq'[l][k] = s[k - 1] /\ s[k - 1] # n
      <4>1. k - 1 \in 1 .. Len(s) /\ (k - 1) + 1 = k
        BY <1>1, <3>1
      <4> QED
        BY <1>2, <1>4, <4>1
    <3>2. ASSUME i # 1, j # 1 PROVE i - 1 = j - 1
      <4>1. i - 1 \in 1 .. Len(s) /\ j - 1 \in 1 .. Len(s) /\ s[i - 1] = s[j - 1]
        BY <2>5, <3>1, <3>2
      <4> QED
        BY <1>1, <4>1 DEF Linked
    <3>3. ~(i = 1 /\ j # 1) /\ ~(i # 1 /\ j = 1)
      BY <1>4, <2>5, <3>1
    <3> QED
      BY <1>1, <3>2, <3>3
  <2> QED
    BY <1>4, <1>7, <2>1, <2>4, <2>5 DEF Linked
<1> QED
  <2> DEFINE M == Elements(s) \cup {n}
  <2>1. \A k \in IL!Lists : k # l => Elements(seq[k]) \cap M = {}
    BY <1>2, ListsAreSound
  <2>2. Elements(seq'[l]) \subseteq M
    <3>1. ASSUME NEW i \in 1 .. Len(s) + 1 PROVE seq'[l][i] \in M
      <4>1. i = 1 \/ (i - 1 \in 1 .. Len(s) /\ (i - 1) + 1 = i)
        BY <1>4
      <4>2. i - 1 \in 1 .. Len(s) => seq'[l][(i - 1) + 1] \in Elements(s)
        BY <1>4 DEF Elements
      <4> QED
        BY <1>4, <4>1, <4>2
    <3> QED
      BY ZenonT(40), <1>4, <3>1 DEF Elements
  <2>3. h # Null => h \in Elements(s)
    <3>1. Len(s) > 0 => 1 \in 1 .. Len(s)
      BY <1>1
    <3> QED
      BY <1>1, <1>5, <3>1 DEF Elements
  <2>4. \A x \in Nodes \ M : next'[x] = next[x] /\ prev'[x] = prev[x]
    BY <1>6, <2>3, NodesAssumption
  <2>5. seq' = [seq EXCEPT ![l] = seq'[l]] /\ cleared' = [cleared EXCEPT ![l] = cleared[l]]
    BY <1>3 DEF IL!IInv, IL!TypeOK
  <2>6. Linked(list'[l], next', prev', seq'[l], cleared[l])
    BY <1>3, <1>8
  <2>7. seq'[l] \in Seq(Nodes) /\ cleared[l] \in Nat
    BY <1>1, <1>4
  <2> HIDE DEF M
  <2> QED
    BY ONLY ZenonT(40), IL!IInv, l \in IL!Lists, <1>6, <1>7, <2>1, <2>2, <2>4, <2>5, <2>6, <2>7, OneListChanges

\* A fresh node behind a list.
LEMMA PushBackSound ==
  ASSUME IL!IInv, NEW l \in IL!Lists, NEW n \in Nodes, IL!PushBack(l, n)
  PROVE  IL!IInv'
<1> DEFINE s == seq[l]
           t == list[l].tail
<1>1. /\ Linked(list[l], next, prev, s, cleared[l]) /\ s \in Seq(Nodes) /\ Len(s) \in Nat
      /\ cleared[l] \in Nat /\ \A i \in 1 .. Len(s) : s[i] \in Nodes /\ s[i] # Null
  BY ListFacts
<1>2. /\ n # Null /\ next[n] = Null /\ prev[n] = Null
      /\ \A k \in IL!Lists : n \notin Elements(seq[k]) /\ \A i \in 1 .. Len(seq[k]) : seq[k][i] # n
  BY FreshFacts DEF IL!PushBack
<1>3. /\ seq' = [seq EXCEPT ![l] = Append(s, n)] /\ cleared' = cleared
      /\ IF t # Null
         THEN /\ next' = [next EXCEPT ![t] = n] /\ prev' = [prev EXCEPT ![n] = t]
              /\ list' = [list EXCEPT ![l].tail = n, ![l].size = @ + 1]
         ELSE /\ next' = next /\ prev' = prev
              /\ list' = [list EXCEPT ![l] = [head |-> n, tail |-> n, size |-> @.size + 1]]
  BY DEF IL!PushBack, IL!links
<1>4. /\ seq'[l] \in Seq(Nodes) /\ Len(seq'[l]) = Len(s) + 1 /\ seq'[l][Len(s) + 1] = n
      /\ \A i \in 1 .. Len(s) : seq'[l][i] = s[i]
      /\ \A i \in 1 .. Len(s) + 1 : i = Len(s) + 1 \/ i \in 1 .. Len(s)
  BY <1>1, <1>3, AppendFacts DEF IL!IInv, IL!TypeOK
<1>5. /\ t \in Nodes \cup {Null} /\ list[l].head \in Nodes \cup {Null} /\ list[l].size \in Nat
      /\ (t = Null <=> Len(s) = 0) /\ (Len(s) > 0 => t = s[Len(s)] /\ list[l].head = s[1])
  <2>1. t \in Nodes \cup {Null} /\ list[l].head \in Nodes \cup {Null} /\ list[l].size \in Nat
    BY DEF IL!IInv, IL!TypeOK
  <2>2. Len(s) > 0 => Len(s) \in 1 .. Len(s)
    BY <1>1
  <2> QED
    BY <1>1, <2>1, <2>2 DEF Linked
<1>6. /\ next' \in [Nodes -> Nodes \cup {Null}] /\ prev' \in [Nodes -> Nodes \cup {Null}]
      /\ \A x \in Nodes : /\ next'[x] = IF x = t THEN n ELSE next[x]
                          /\ prev'[x] = IF x = n THEN t ELSE prev[x]
  <2>1. CASE t # Null
    BY <1>3, <1>5, <2>1 DEF IL!IInv, IL!TypeOK
  <2>2. CASE t = Null
    BY <1>2, <1>3, <2>2, NodesAssumption DEF IL!IInv, IL!TypeOK
  <2> QED
    BY <2>1, <2>2
<1>7. /\ list' \in [IL!Lists -> [head : Nodes \cup {Null}, tail : Nodes \cup {Null}, size : Nat]]
      /\ list'[l].tail = n /\ list'[l].head = (IF t = Null THEN n ELSE list[l].head)
      /\ list'[l].size = list[l].size + 1
      /\ \A k \in IL!Lists : k # l => list'[k] = list[k]
  <2>0. list \in [IL!Lists -> [head : Nodes \cup {Null}, tail : Nodes \cup {Null}, size : Nat]]
    BY DEF IL!IInv, IL!TypeOK
  <2>1. CASE t # Null
    <3>1. list' = [list EXCEPT ![l].tail = n, ![l].size = @ + 1]
      BY <1>3, <2>1
    <3>2. list' \in [IL!Lists -> [head : Nodes \cup {Null}, tail : Nodes \cup {Null}, size : Nat]]
      BY <1>5, <2>0, <3>1
    <3>3. list'[l].tail = n /\ list'[l].head = list[l].head /\ list'[l].size = list[l].size + 1
      BY <2>0, <3>1
    <3>4. \A k \in IL!Lists : k # l => list'[k] = list[k]
      BY <2>0, <3>1
    <3> QED
      BY ONLY <2>1, <3>2, <3>3, <3>4
  <2>2. CASE t = Null
    <3>1. list' = [list EXCEPT ![l] = [head |-> n, tail |-> n, size |-> list[l].size + 1]]
      BY <1>3, <2>2
    <3>2. list' \in [IL!Lists -> [head : Nodes \cup {Null}, tail : Nodes \cup {Null}, size : Nat]]
      BY <1>5, <2>0, <3>1
    <3>3. list'[l].tail = n /\ list'[l].head = n /\ list'[l].size = list[l].size + 1
      BY <2>0, <3>1
    <3>4. \A k \in IL!Lists : k # l => list'[k] = list[k]
      BY <2>0, <3>1
    <3> QED
      BY ONLY <2>2, <3>2, <3>3, <3>4
  <2> QED
    BY ONLY <2>1, <2>2
<1>8. Linked(list'[l], next', prev', seq'[l], cleared'[l])
  <2>1. /\ list'[l].head = seq'[l][1] /\ list'[l].size = Len(s) + 1 + cleared[l]
        /\ cleared'[l] = cleared[l]
    <3>1. (Len(s) > 0 => 1 \in 1 .. Len(s)) /\ (Len(s) = 0 => Len(s) + 1 = 1)
      BY <1>1
    <3>2. list[l].size = Len(s) + cleared[l]
      BY <1>1 DEF Linked
    <3>3. Len(s) + cleared[l] + 1 = Len(s) + 1 + cleared[l]
      BY ONLY <1>1
    <3>4. list'[l].head = seq'[l][1]
      BY <1>1, <1>4, <1>5, <1>7, <3>1
    <3> QED
      BY ONLY <1>1, <1>3, <1>7, <3>2, <3>3, <3>4
  <2>2. prev'[n] = (IF Len(s) = 0 THEN Null ELSE s[Len(s)]) /\ next'[n] = Null
    <3>1. Len(s) > 0 => Len(s) \in 1 .. Len(s)
      BY <1>1
    <3> QED
      BY <1>1, <1>2, <1>5, <1>6, <3>1
  <2>3. ASSUME NEW i \in 1 .. Len(s)
        PROVE  /\ next'[s[i]] = IF i = Len(s) THEN n ELSE s[i + 1]
               /\ prev'[s[i]] = IF i = 1 THEN Null ELSE s[i - 1]
    <3>1. /\ next[s[i]] = (IF i = Len(s) THEN Null ELSE s[i + 1]) /\ s[i] # n /\ s[i] \in Nodes
          /\ prev[s[i]] = (IF i = 1 THEN Null ELSE s[i - 1])
      BY <1>1, <1>2 DEF Linked
    <3>2. s[i] = t <=> i = Len(s)
      <4>1. Len(s) > 0 /\ Len(s) \in 1 .. Len(s)
        BY <1>1
      <4> QED
        BY <1>1, <1>5, <4>1 DEF Linked
    <3> QED
      BY <1>6, <3>1, <3>2
  <2>4. ASSUME NEW i \in 1 .. Len(s) + 1
        PROVE  /\ next'[seq'[l][i]] = IF i = Len(s) + 1 THEN Null ELSE seq'[l][i + 1]
               /\ prev'[seq'[l][i]] = IF i = 1 THEN Null ELSE seq'[l][i - 1]
    <3>1. CASE i = Len(s) + 1
      <4>1. /\ i - 1 = Len(s) /\ (i = 1 <=> Len(s) = 0)
            /\ Len(s) # 0 => Len(s) \in 1 .. Len(s)
        BY <1>1, <3>1
      <4> QED
        BY <1>1, <1>4, <2>2, <3>1, <4>1
    <3>2. CASE i \in 1 .. Len(s)
      <4>1. /\ i # Len(s) + 1 /\ (i # 1 => i - 1 \in 1 .. Len(s))
            /\ i # Len(s) => i + 1 \in 1 .. Len(s)
        BY <1>1, <3>2
      <4>2. seq'[l][i + 1] = IF i = Len(s) THEN n ELSE s[i + 1]
        BY <1>4, <4>1
      <4>3. i # 1 => seq'[l][i - 1] = s[i - 1]
        BY <1>4, <4>1
      <4> QED
        BY <1>4, <2>3, <3>2, <4>1, <4>2, <4>3
    <3> QED
      BY <1>4, <3>1, <3>2
  <2>5. ASSUME NEW i \in 1 .. Len(s) + 1, NEW j \in 1 .. Len(s) + 1, seq'[l][i] = seq'[l][j]
        PROVE  i = j
    <3>1. ASSUME NEW k \in 1 .. Len(s) + 1, k # Len(s) + 1
          PROVE  k \in 1 .. Len(s) /\ seq'[l][k] = s[k] /\ s[k] # n
      BY <1>2, <1>4, <3>1
    <3>2. CASE i # Len(s) + 1 /\ j # Len(s) + 1
      BY <1>1, <2>5, <3>1, <3>2 DEF Linked
    <3>3. ~(i = Len(s) + 1 /\ j # Len(s) + 1) /\ ~(i # Len(s) + 1 /\ j = Len(s) + 1)
      BY <1>4, <2>5, <3>1
    <3> QED
      BY <1>1, <3>2, <3>3
  <2>6. /\ Len(seq'[l]) = Len(s) + 1 /\ Len(seq'[l]) # 0
        /\ list'[l].tail = seq'[l][Len(seq'[l])] /\ list'[l].size = Len(seq'[l]) + cleared'[l]
    BY ONLY <1>1, <1>4, <1>7, <2>1
  <2>7. \A i \in 1 .. Len(seq'[l]) :
           /\ next'[seq'[l][i]] = IF i = Len(seq'[l]) THEN Null ELSE seq'[l][i + 1]
           /\ prev'[seq'[l][i]] = IF i = 1 THEN Null ELSE seq'[l][i - 1]
    BY ONLY <2>4, <2>6
  <2>8. \A i, j \in 1 .. Len(seq'[l]) : seq'[l][i] = seq'[l][j] => i = j
    BY ONLY <2>5, <2>6
  <2> QED
    BY ONLY <2>1, <2>6, <2>7, <2>8 DEF Linked
<1> QED
  <2> DEFINE M == Elements(s) \cup {n}
  <2>1. \A k \in IL!Lists : k # l => Elements(seq[k]) \cap M = {}
    BY <1>2, ListsAreSound
  <2>2. Elements(seq'[l]) \subseteq M
    <3>1. ASSUME NEW i \in 1 .. Len(s) + 1 PROVE seq'[l][i] \in M
      BY <1>4 DEF Elements
    <3> QED
      BY <1>4, <3>1 DEF Elements
  <2>3. t # Null => t \in Elements(s)
    <3>1. Len(s) > 0 => Len(s) \in 1 .. Len(s)
      BY <1>1
    <3> QED
      BY <1>1, <1>5, <3>1 DEF Elements
  <2>4. \A x \in Nodes \ M : next'[x] = next[x] /\ prev'[x] = prev[x]
    BY <1>6, <2>3, NodesAssumption
  <2>5. seq' = [seq EXCEPT ![l] = seq'[l]] /\ cleared' = [cleared EXCEPT ![l] = cleared[l]]
    BY <1>3 DEF IL!IInv, IL!TypeOK
  <2>6. Linked(list'[l], next', prev', seq'[l], cleared[l])
    BY <1>3, <1>8
  <2>7. seq'[l] \in Seq(Nodes) /\ cleared[l] \in Nat
    BY <1>1, <1>4
  <2> HIDE DEF M
  <2> QED
    BY ONLY ZenonT(40), IL!IInv, l \in IL!Lists, <1>6, <1>7, <2>1, <2>2, <2>4, <2>5, <2>6, <2>7, OneListChanges

\* Where the ends of a sequence of k elements, and of k - 1, lie.
LEMMA EndsOf ==
  ASSUME NEW k \in Nat, k > 0
  PROVE  /\ 1 \in 1 .. k /\ k \in 1 .. k
         /\ k # 1 => 2 \in 1 .. k /\ k - 1 \in 1 .. k
         /\ k - 1 = 0 <=> k = 1
         /\ k - 1 # 0 => /\ 1 \in 1 .. k - 1 /\ 1 + 1 = 2
                         /\ k - 1 \in 1 .. k - 1 /\ (k - 1) + 1 = k
OBVIOUS

\* The first node leaves.
LEMMA PopFrontSound ==
  ASSUME IL!IInv, NEW l \in IL!Lists, IL!PopFront(l)
  PROVE  IL!IInv'
<1> DEFINE s == seq[l]
           n == list[l].head
           second == next[n]
           u == Tail(s)
<1>1. /\ Linked(list[l], next, prev, s, cleared[l]) /\ s \in Seq(Nodes) /\ Len(s) \in Nat
      /\ cleared[l] \in Nat /\ \A i \in 1 .. Len(s) : s[i] \in Nodes /\ s[i] # Null
  BY ListFacts
<1>2. /\ n # Null /\ Len(s) > 0 /\ s # <<>>
      /\ list' = [list EXCEPT ![l] = [head |-> second, tail |-> IF second = Null THEN Null ELSE @.tail,
                                      size |-> @.size - 1]]
      /\ prev' = (IF second = Null THEN prev ELSE [prev EXCEPT ![second] = Null])
      /\ next' = [next EXCEPT ![n] = Null]
      /\ seq' = [seq EXCEPT ![l] = u] /\ cleared' = cleared
  BY ListFacts DEF IL!PopFront
<1>3. /\ u \in Seq(Nodes) /\ Len(u) = Len(s) - 1
      /\ \A i \in 1 .. Len(s) - 1 : i + 1 \in 1 .. Len(s) /\ u[i] = s[i + 1]
  BY <1>1, <1>2, ShortenFacts
<1>8. Len(s) \in Nat /\ Len(s) > 0 /\ Len(u) = Len(s) - 1 /\ cleared[l] \in Nat
  BY <1>1, <1>2, <1>3
<1>4. /\ n = s[1] /\ n \in Nodes /\ list[l].tail = s[Len(s)] /\ list[l].tail \in Nodes
      /\ list[l].size = Len(s) + cleared[l] /\ list[l].size - 1 \in Nat
      /\ list[l].size - 1 = Len(s) - 1 + cleared[l]
      /\ second = (IF Len(s) = 1 THEN Null ELSE s[2]) /\ (second = Null <=> Len(s) = 1)
      /\ second \in Nodes \cup {Null}
  <2>1. 1 \in 1 .. Len(s) /\ Len(s) \in 1 .. Len(s) /\ (Len(s) # 1 => 2 \in 1 .. Len(s))
    BY ONLY <1>8, EndsOf
  <2>2. n = s[1] /\ list[l].tail = s[Len(s)] /\ list[l].size = Len(s) + cleared[l]
    BY <1>1, <1>2 DEF Linked
  <2>3. second = (IF Len(s) = 1 THEN Null ELSE s[2])
    BY <1>1, <2>1, <2>2 DEF Linked
  <2>4. list[l].size - 1 \in Nat /\ list[l].size - 1 = Len(s) - 1 + cleared[l]
    BY ONLY <1>8, <2>2
  <2> QED
    BY <1>1, <2>1, <2>2, <2>3, <2>4
<1>5. /\ next' \in [Nodes -> Nodes \cup {Null}] /\ prev' \in [Nodes -> Nodes \cup {Null}]
      /\ \A x \in Nodes : /\ next'[x] = IF x = n THEN Null ELSE next[x]
                          /\ prev'[x] = IF x = second THEN Null ELSE prev[x]
  BY <1>2, <1>4, NodesAssumption DEF IL!IInv, IL!TypeOK
<1>6. /\ list' \in [IL!Lists -> [head : Nodes \cup {Null}, tail : Nodes \cup {Null}, size : Nat]]
      /\ list'[l].head = second /\ list'[l].tail = (IF second = Null THEN Null ELSE list[l].tail)
      /\ list'[l].size = list[l].size - 1
      /\ \A k \in IL!Lists : k # l => list'[k] = list[k]
  <2> DEFINE y == [head |-> second, tail |-> IF second = Null THEN Null ELSE list[l].tail,
                   size |-> list[l].size - 1]
  <2>0. list \in [IL!Lists -> [head : Nodes \cup {Null}, tail : Nodes \cup {Null}, size : Nat]]
    BY DEF IL!IInv, IL!TypeOK
  <2>1. y \in [head : Nodes \cup {Null}, tail : Nodes \cup {Null}, size : Nat]
    BY <1>4
  <2>2. list' = [list EXCEPT ![l] = y]
    BY <1>2
  <2>3. /\ y.head = second /\ y.tail = (IF second = Null THEN Null ELSE list[l].tail)
        /\ y.size = list[l].size - 1
    OBVIOUS
  <2> HIDE DEF y
  <2> QED
    BY <2>0, <2>1, <2>2, <2>3
<1>7. Linked(list'[l], next', prev', u, cleared[l])
  <2>1. /\ list'[l].head = IF Len(u) = 0 THEN Null ELSE u[1]
        /\ list'[l].tail = IF Len(u) = 0 THEN Null ELSE u[Len(u)]
    <3>1. /\ Len(u) = 0 <=> Len(s) = 1
          /\ Len(u) # 0 => /\ 1 \in 1 .. Len(s) - 1 /\ 1 + 1 = 2
                           /\ Len(u) \in 1 .. Len(s) - 1 /\ Len(u) + 1 = Len(s)
      BY ONLY <1>8, EndsOf
    <3>2. Len(u) # 0 => u[1] = s[2] /\ u[Len(u)] = s[Len(s)]
      BY <1>3, <3>1
    <3> QED
      BY <1>4, <1>6, <3>1, <3>2
  <2>2. ASSUME NEW i \in 1 .. Len(u)
        PROVE  /\ next'[u[i]] = IF i = Len(u) THEN Null ELSE u[i + 1]
               /\ prev'[u[i]] = IF i = 1 THEN Null ELSE u[i - 1]
    <3>1. /\ i \in 1 .. Len(s) - 1 /\ i + 1 \in 1 .. Len(s) /\ (i + 1 = Len(s) <=> i = Len(u))
          /\ i # Len(u) => i + 1 \in 1 .. Len(s) - 1
          /\ i # 1 => i - 1 \in 1 .. Len(s) - 1
          /\ i + 1 # 1 /\ (i + 1) - 1 = i /\ (i - 1) + 1 = i
          /\ 1 \in 1 .. Len(s) /\ Len(s) # 1 /\ 2 \in 1 .. Len(s) /\ (i + 1 = 2 <=> i = 1)
      BY <1>1, <1>3
    <3>2. /\ u[i] = s[i + 1] /\ (i # Len(u) => u[i + 1] = s[(i + 1) + 1])
          /\ (i # 1 => u[i - 1] = s[i])
      BY <1>3, <3>1
    <3>3. /\ next[s[i + 1]] = (IF i + 1 = Len(s) THEN Null ELSE s[(i + 1) + 1])
          /\ prev[s[i + 1]] = s[i] /\ s[i + 1] \in Nodes
      BY <1>1, <3>1 DEF Linked
    <3>4. s[i + 1] # s[1] /\ (s[i + 1] = s[2] <=> i = 1)
      BY <1>1, <3>1 DEF Linked
    <3> QED
      BY SMTT(30), <1>4, <1>5, <3>1, <3>2, <3>3, <3>4
  <2>3. ASSUME NEW i \in 1 .. Len(u), NEW j \in 1 .. Len(u), u[i] = u[j]
        PROVE  i = j
    <3>1. i + 1 \in 1 .. Len(s) /\ j + 1 \in 1 .. Len(s) /\ s[i + 1] = s[j + 1]
      BY <1>3, <2>3
    <3>2. i + 1 = j + 1
      BY <1>1, <3>1 DEF Linked
    <3> QED
      BY <1>1, <1>3, <3>2
  <2> QED
    BY <1>3, <1>4, <1>6, <2>1, <2>2, <2>3 DEF Linked
<1> QED
  <2> DEFINE M == Elements(s)
  <2>1. \A k \in IL!Lists : k # l => Elements(seq[k]) \cap M = {}
    BY ListsAreSound
  <2>2. Elements(u) \subseteq M
    BY <1>3 DEF Elements
  <2>3. n \in M /\ (second # Null => second \in M)
    <3>1. 1 \in 1 .. Len(s) /\ (Len(s) # 1 => 2 \in 1 .. Len(s))
      BY ONLY <1>8, EndsOf
    <3> QED
      BY <1>4, <3>1 DEF Elements
  <2>4. \A x \in Nodes \ M : next'[x] = next[x] /\ prev'[x] = prev[x]
    BY <1>5, <2>3, NodesAssumption
  <2>5. seq' = [seq EXCEPT ![l] = u] /\ cleared' = [cleared EXCEPT ![l] = cleared[l]]
    BY <1>2 DEF IL!IInv, IL!TypeOK
  <2>6. u \in Seq(Nodes) /\ cleared[l] \in Nat
    BY <1>1, <1>3
  <2> HIDE DEF M, u
  <2> QED
    BY ONLY ZenonT(40), IL!IInv, l \in IL!Lists, <1>5, <1>6, <1>7, <2>1, <2>2, <2>4, <2>5, <2>6, OneListChanges

\* The last node leaves.
LEMMA PopBackSound ==
  ASSUME IL!IInv, NEW l \in IL!Lists, IL!PopBack(l)
  PROVE  IL!IInv'
<1> DEFINE s == seq[l]
           n == list[l].tail
           newTail == prev[n]
           u == SubSeq(s, 1, Len(s) - 1)
<1>1. /\ Linked(list[l], next, prev, s, cleared[l]) /\ s \in Seq(Nodes) /\ Len(s) \in Nat
      /\ cleared[l] \in Nat /\ \A i \in 1 .. Len(s) : s[i] \in Nodes /\ s[i] # Null
  BY ListFacts
<1>2. /\ n # Null /\ Len(s) > 0 /\ s # <<>>
      /\ list' = [list EXCEPT ![l] = [tail |-> newTail, head |-> IF newTail = Null THEN Null ELSE @.head,
                                      size |-> @.size - 1]]
      /\ next' = (IF newTail = Null THEN next ELSE [next EXCEPT ![newTail] = Null])
      /\ prev' = [prev EXCEPT ![n] = Null]
      /\ seq' = [seq EXCEPT ![l] = u] /\ cleared' = cleared
  BY ListFacts DEF IL!PopBack, IL!Front
<1>3. /\ u \in Seq(Nodes) /\ Len(u) = Len(s) - 1
      /\ \A i \in 1 .. Len(s) - 1 : i \in 1 .. Len(s) /\ u[i] = s[i]
  BY <1>1, <1>2, FrontFacts
<1> HIDE DEF u
<1>8. Len(s) \in Nat /\ Len(s) > 0 /\ Len(u) = Len(s) - 1 /\ cleared[l] \in Nat
  BY <1>1, <1>2, <1>3
<1>4. /\ n = s[Len(s)] /\ n \in Nodes /\ list[l].head = s[1] /\ list[l].head \in Nodes
      /\ list[l].size = Len(s) + cleared[l] /\ list[l].size - 1 \in Nat
      /\ list[l].size - 1 = Len(s) - 1 + cleared[l]
      /\ newTail = (IF Len(s) = 1 THEN Null ELSE s[Len(s) - 1]) /\ (newTail = Null <=> Len(s) = 1)
      /\ newTail \in Nodes \cup {Null}
  <2>1. 1 \in 1 .. Len(s) /\ Len(s) \in 1 .. Len(s) /\ (Len(s) # 1 => Len(s) - 1 \in 1 .. Len(s))
    BY ONLY <1>8, EndsOf
  <2>2. n = s[Len(s)] /\ list[l].head = s[1] /\ list[l].size = Len(s) + cleared[l]
    BY <1>1, <1>2 DEF Linked
  <2>3. newTail = (IF Len(s) = 1 THEN Null ELSE s[Len(s) - 1])
    BY <1>1, <2>1, <2>2 DEF Linked
  <2>4. list[l].size - 1 \in Nat /\ list[l].size - 1 = Len(s) - 1 + cleared[l]
    BY ONLY <1>8, <2>2
  <2> QED
    BY <1>1, <2>1, <2>2, <2>3, <2>4
<1>5. /\ next' \in [Nodes -> Nodes \cup {Null}] /\ prev' \in [Nodes -> Nodes \cup {Null}]
      /\ \A x \in Nodes : /\ next'[x] = IF x = newTail THEN Null ELSE next[x]
                          /\ prev'[x] = IF x = n THEN Null ELSE prev[x]
  BY <1>2, <1>4, NodesAssumption DEF IL!IInv, IL!TypeOK
<1>6. /\ list' \in [IL!Lists -> [head : Nodes \cup {Null}, tail : Nodes \cup {Null}, size : Nat]]
      /\ list'[l].tail = newTail /\ list'[l].head = (IF newTail = Null THEN Null ELSE list[l].head)
      /\ list'[l].size = list[l].size - 1
      /\ \A k \in IL!Lists : k # l => list'[k] = list[k]
  <2> DEFINE y == [tail |-> newTail, head |-> IF newTail = Null THEN Null ELSE list[l].head,
                   size |-> list[l].size - 1]
  <2>0. list \in [IL!Lists -> [head : Nodes \cup {Null}, tail : Nodes \cup {Null}, size : Nat]]
    BY DEF IL!IInv, IL!TypeOK
  <2>1. y \in [head : Nodes \cup {Null}, tail : Nodes \cup {Null}, size : Nat]
    BY <1>4
  <2>2. list' = [list EXCEPT ![l] = y]
    BY <1>2
  <2>3. /\ y.tail = newTail /\ y.head = (IF newTail = Null THEN Null ELSE list[l].head)
        /\ y.size = list[l].size - 1
    OBVIOUS
  <2> HIDE DEF y
  <2> QED
    BY <2>0, <2>1, <2>2, <2>3
<1>7. Linked(list'[l], next', prev', u, cleared[l])
  <2>1. /\ list'[l].head = IF Len(u) = 0 THEN Null ELSE u[1]
        /\ list'[l].tail = IF Len(u) = 0 THEN Null ELSE u[Len(u)]
    <3>1. /\ Len(u) = 0 <=> Len(s) = 1
          /\ Len(u) # 0 => 1 \in 1 .. Len(s) - 1 /\ Len(s) - 1 \in 1 .. Len(s) - 1
      BY ONLY <1>8, EndsOf
    <3>2. Len(u) # 0 => u[1] = s[1] /\ u[Len(u)] = s[Len(s) - 1]
      BY <1>3, <3>1
    <3> QED
      BY <1>4, <1>6, <3>1, <3>2
  <2>2. ASSUME NEW i \in 1 .. Len(u)
        PROVE  /\ next'[u[i]] = IF i = Len(u) THEN Null ELSE u[i + 1]
               /\ prev'[u[i]] = IF i = 1 THEN Null ELSE u[i - 1]
    <3>1. /\ i \in 1 .. Len(s) - 1 /\ i \in 1 .. Len(s) /\ i # Len(s)
          /\ i # Len(u) => i + 1 \in 1 .. Len(s) - 1
          /\ i # 1 => i - 1 \in 1 .. Len(s) - 1
          /\ Len(s) \in 1 .. Len(s) /\ Len(s) # 1 /\ Len(s) - 1 \in 1 .. Len(s)
      BY <1>1, <1>3
    <3>2. /\ u[i] = s[i] /\ (i # Len(u) => u[i + 1] = s[i + 1])
          /\ (i # 1 => u[i - 1] = s[i - 1])
      BY <1>3, <3>1
    <3>3. /\ next[s[i]] = s[i + 1] /\ s[i] \in Nodes
          /\ prev[s[i]] = (IF i = 1 THEN Null ELSE s[i - 1])
      BY <1>1, <3>1 DEF Linked
    <3>4. s[i] # s[Len(s)] /\ (s[i] = s[Len(s) - 1] <=> i = Len(u))
      BY <1>1, <1>3, <3>1 DEF Linked
    <3> QED
      BY ZenonT(40), <1>4, <1>5, <3>1, <3>2, <3>3, <3>4
  <2>3. ASSUME NEW i \in 1 .. Len(u), NEW j \in 1 .. Len(u), u[i] = u[j]
        PROVE  i = j
    <3>1. i \in 1 .. Len(s) /\ j \in 1 .. Len(s) /\ s[i] = s[j]
      BY <1>3, <2>3
    <3> QED
      BY <1>1, <3>1 DEF Linked
  <2> QED
    BY <1>3, <1>4, <1>6, <2>1, <2>2, <2>3 DEF Linked
<1> QED
  <2> DEFINE M == Elements(s)
  <2>1. \A k \in IL!Lists : k # l => Elements(seq[k]) \cap M = {}
    BY ListsAreSound
  <2>2. Elements(u) \subseteq M
    BY <1>3 DEF Elements
  <2>3. n \in M /\ (newTail # Null => newTail \in M)
    <3>1. Len(s) \in 1 .. Len(s) /\ (Len(s) # 1 => Len(s) - 1 \in 1 .. Len(s))
      BY ONLY <1>8, EndsOf
    <3> QED
      BY <1>4, <3>1 DEF Elements
  <2>4. \A x \in Nodes \ M : next'[x] = next[x] /\ prev'[x] = prev[x]
    BY <1>5, <2>3, NodesAssumption
  <2>5. seq' = [seq EXCEPT ![l] = u] /\ cleared' = [cleared EXCEPT ![l] = cleared[l]]
    BY <1>2 DEF IL!IInv, IL!TypeOK
  <2>6. u \in Seq(Nodes) /\ cleared[l] \in Nat
    BY <1>1, <1>3
  <2> HIDE DEF M
  <2> QED
    BY ONLY ZenonT(40), IL!IInv, l \in IL!Lists, <1>5, <1>6, <1>7, <2>1, <2>2, <2>4, <2>5, <2>6, OneListChanges

\* A position that is neither the first nor the last of x.
LEMMA InnerOf ==
  ASSUME NEW x \in Nat, NEW k \in Nat, 1 < k, k < x
  PROVE  /\ 1 \in 1 .. x - 1 /\ x - 1 \in 1 .. x - 1
         /\ ~(x - 1 < k) /\ (x - 1) + 1 = x /\ x - 1 # 0
         /\ \A c \in Nat : (x + c) - 1 = x - 1 + c
OBVIOUS

\* A node leaves from wherever it is.
LEMMA EraseSound ==
  ASSUME IL!IInv, NEW l \in IL!Lists, NEW n \in Nodes, IL!Erase(l, n)
  PROVE  IL!IInv'
<1> DEFINE s == seq[l]
<1>1. /\ Linked(list[l], next, prev, s, cleared[l]) /\ s \in Seq(Nodes) /\ Len(s) \in Nat
      /\ cleared[l] \in Nat /\ \A i \in 1 .. Len(s) : s[i] \in Nodes /\ s[i] # Null
  BY ListFacts
<1>2. PICK k \in 2 .. Len(s) - 1 : s[k] = n /\ seq' = [seq EXCEPT ![l] = IL!RemoveAt(s, k)]
  BY DEF IL!Erase, IL!IInv, IL!TypeOK
<1>3. /\ k \in 1 .. Len(s) /\ k - 1 \in 1 .. Len(s) /\ k + 1 \in 1 .. Len(s) /\ k # 1 /\ k # Len(s)
      /\ Len(s) \in Nat /\ Len(s) > 2 /\ k \in Nat /\ k > 1 /\ k < Len(s)
  BY <1>1
<1> DEFINE u == IL!RemoveAt(s, k)
<1>4. /\ u \in Seq(Nodes) /\ Len(u) = Len(s) - 1
      /\ \A i \in 1 .. Len(s) - 1 : u[i] = IF i < k THEN s[i] ELSE s[i + 1]
  <2>1. u = WithoutElement(s, k)
    BY DEF IL!RemoveAt, WithoutElement
  <2> HIDE DEF u, s
  <2>2. /\ WithoutElement(s, k) \in Seq(Nodes) /\ Len(WithoutElement(s, k)) = Len(s) - 1
        /\ IsWithout(WithoutElement(s, k), s, k)
    BY ONLY <1>1, <1>3, RemoveFacts
  <2> QED
    BY ONLY <2>1, <2>2 DEF IsWithout
<1> HIDE DEF u
<1>5. /\ next[n] = s[k + 1] /\ prev[n] = s[k - 1] /\ s[k + 1] \in Nodes /\ s[k - 1] \in Nodes
      /\ list[l].head = s[1] /\ list[l].tail = s[Len(s)] /\ list[l].size = Len(s) + cleared[l]
  <2>1. /\ next[s[k]] = s[k + 1] /\ prev[s[k]] = s[k - 1]
    BY <1>1, <1>3 DEF Linked
  <2> QED
    BY <1>1, <1>2, <1>3, <2>1 DEF Linked
<1>6. /\ next' \in [Nodes -> Nodes \cup {Null}] /\ prev' \in [Nodes -> Nodes \cup {Null}]
      /\ \A x \in Nodes : /\ next'[x] = IF x = s[k - 1] THEN s[k + 1] ELSE next[x]
                          /\ prev'[x] = IF x = s[k + 1] THEN s[k - 1] ELSE prev[x]
  BY <1>5 DEF IL!Erase, IL!IInv, IL!TypeOK
<1>7. /\ list' \in [IL!Lists -> [head : Nodes \cup {Null}, tail : Nodes \cup {Null}, size : Nat]]
      /\ list'[l].head = list[l].head /\ list'[l].tail = list[l].tail
      /\ list'[l].size = list[l].size - 1
      /\ \A m \in IL!Lists : m # l => list'[m] = list[m]
  <2>0. list \in [IL!Lists -> [head : Nodes \cup {Null}, tail : Nodes \cup {Null}, size : Nat]]
    BY DEF IL!IInv, IL!TypeOK
  <2>1. list[l].size - 1 \in Nat
    BY <1>1, <1>3, <1>5
  <2>2. list' = [list EXCEPT ![l].size = @ - 1]
    BY DEF IL!Erase
  <2> QED
    BY <2>0, <2>1, <2>2
<1>8. Linked(list'[l], next', prev', u, cleared[l])
  <2>1. list'[l].head = u[1] /\ list'[l].tail = u[Len(u)] /\ Len(u) # 0
    <3>1. /\ 1 \in 1 .. Len(s) - 1 /\ 1 < k /\ Len(s) - 1 \in 1 .. Len(s) - 1
          /\ ~(Len(s) - 1 < k) /\ (Len(s) - 1) + 1 = Len(s) /\ Len(s) - 1 # 0
      BY ONLY <1>3, InnerOf
    <3> QED
      BY <1>4, <1>5, <1>7, <3>1
  <2>2. list'[l].size = Len(u) + cleared[l]
    <3>1. (Len(s) + cleared[l]) - 1 = Len(s) - 1 + cleared[l]
      BY ONLY <1>1, <1>3, InnerOf
    <3>2. list'[l].size = (Len(s) + cleared[l]) - 1
      BY ONLY <1>5, <1>7
    <3> QED
      BY ONLY <1>4, <3>1, <3>2
  <2>3. ASSUME NEW i \in 1 .. Len(s), i # k
        PROVE  /\ next'[s[i]] = IF i = Len(s) THEN Null ELSE IF i = k - 1 THEN s[k + 1] ELSE s[i + 1]
               /\ prev'[s[i]] = IF i = 1 THEN Null ELSE IF i = k + 1 THEN s[k - 1] ELSE s[i - 1]
    <3>1. /\ next[s[i]] = (IF i = Len(s) THEN Null ELSE s[i + 1]) /\ s[i] \in Nodes
          /\ prev[s[i]] = (IF i = 1 THEN Null ELSE s[i - 1])
      BY <1>1 DEF Linked
    <3>2. (s[i] = s[k - 1] <=> i = k - 1) /\ (s[i] = s[k + 1] <=> i = k + 1)
      BY <1>1, <1>3 DEF Linked
    <3>3. (i = k - 1 => i # Len(s)) /\ (i = k + 1 => i # 1)
      BY ONLY <1>3
    <3> QED
      BY ONLY <1>6, <3>1, <3>2, <3>3
  <2>4. ASSUME NEW i \in 1 .. Len(u)
        PROVE  /\ next'[u[i]] = IF i = Len(u) THEN Null ELSE u[i + 1]
               /\ prev'[u[i]] = IF i = 1 THEN Null ELSE u[i - 1]
    <3>0. i \in 1 .. Len(s) - 1
      BY <1>4
    <3>1. CASE i < k
      <4>1. /\ i \in 1 .. Len(s) /\ i # k /\ i # Len(s) /\ i # k + 1
            /\ i # Len(s) - 1 /\ i + 1 \in 1 .. Len(s) - 1
            /\ i # 1 => i - 1 \in 1 .. Len(s) - 1 /\ i - 1 < k
            /\ i = k - 1 => ~(i + 1 < k) /\ (i + 1) + 1 = k + 1
            /\ i # k - 1 => i + 1 < k
        BY ONLY <1>3, <3>0, <3>1
      <4>2. /\ u[i] = s[i] /\ u[i + 1] = IF i = k - 1 THEN s[k + 1] ELSE s[i + 1]
        BY <1>4, <3>0, <3>1, <4>1
      <4>3. i # 1 => u[i - 1] = s[i - 1]
        BY <1>4, <4>1
      <4> QED
        BY ONLY <1>4, <2>3, <4>1, <4>2, <4>3
    <3>2. CASE ~(i < k)
      <4>1. /\ i + 1 \in 1 .. Len(s) /\ i + 1 # k /\ i + 1 # 1 /\ i + 1 # k - 1 /\ i # 1
            /\ (i + 1 = Len(s) <=> i = Len(s) - 1)
            /\ i # Len(s) - 1 => i + 1 \in 1 .. Len(s) - 1 /\ ~(i + 1 < k)
            /\ i - 1 \in 1 .. Len(s) - 1 /\ (i - 1) + 1 = i /\ (i + 1) - 1 = i
            /\ i + 1 = k + 1 => i - 1 < k /\ i - 1 = k - 1
            /\ i + 1 # k + 1 => ~(i - 1 < k)
        BY ONLY <1>3, <3>0, <3>2
      <4>2. u[i] = s[i + 1] /\ (i # Len(s) - 1 => u[i + 1] = s[(i + 1) + 1])
        BY <1>4, <3>0, <3>2, <4>1
      <4>3. u[i - 1] = IF i + 1 = k + 1 THEN s[k - 1] ELSE s[i]
        BY <1>4, <4>1
      <4>4. /\ next'[s[i + 1]] = IF i + 1 = Len(s) THEN Null ELSE s[(i + 1) + 1]
            /\ prev'[s[i + 1]] = IF i + 1 = k + 1 THEN s[k - 1] ELSE s[i]
        BY <2>3, <4>1
      <4> QED
        BY ONLY <1>4, <4>1, <4>2, <4>3, <4>4
    <3> QED
      BY <3>1, <3>2
  <2>5. ASSUME NEW i \in 1 .. Len(u), NEW j \in 1 .. Len(u), u[i] = u[j]
        PROVE  i = j
    <3> DEFINE At(x) == IF x < k THEN x ELSE x + 1
    <3>1. \A x \in 1 .. Len(u) : At(x) \in 1 .. Len(s) /\ u[x] = s[At(x)]
      <4>1. \A x \in 1 .. Len(s) - 1 : At(x) \in 1 .. Len(s)
        BY ONLY <1>3
      <4> QED
        BY ONLY <1>4, <4>1
    <3>2. At(i) = At(j)
      <4>1. At(i) \in 1 .. Len(s) /\ At(j) \in 1 .. Len(s) /\ s[At(i)] = s[At(j)]
        BY <2>5, <3>1
      <4> HIDE DEF At
      <4> QED
        BY <1>1, <4>1 DEF Linked
    <3>3. i \in 1 .. Len(s) - 1 /\ j \in 1 .. Len(s) - 1
      BY <1>4
    <3> QED
      BY ONLY <1>3, <3>2, <3>3
  <2> QED
    BY <2>1, <2>2, <2>4, <2>5 DEF Linked
<1> QED
  <2> DEFINE M == Elements(s)
  <2>1. \A m \in IL!Lists : m # l => Elements(seq[m]) \cap M = {}
    BY ListsAreSound
  <2>2. Elements(u) \subseteq M
    <3>1. ASSUME NEW i \in 1 .. Len(u) PROVE u[i] \in Elements(s)
      <4>1. i \in 1 .. Len(s) - 1
        BY <1>4
      <4>2. i \in 1 .. Len(s) /\ i + 1 \in 1 .. Len(s)
        BY ONLY <1>3, <4>1
      <4> QED
        BY <1>4, <4>1, <4>2 DEF Elements
    <3> QED
      BY <3>1 DEF Elements
  <2>3. s[k - 1] \in M /\ s[k + 1] \in M
    BY <1>3 DEF Elements
  <2>4. \A x \in Nodes \ M : next'[x] = next[x] /\ prev'[x] = prev[x]
    BY <1>6, <2>3
  <2>5. seq' = [seq EXCEPT ![l] = u] /\ cleared' = [cleared EXCEPT ![l] = cleared[l]]
    BY <1>2 DEF IL!Erase, IL!IInv, IL!TypeOK, u
  <2>6. u \in Seq(Nodes) /\ cleared[l] \in Nat
    BY <1>1, <1>4
  <2> HIDE DEF M
  <2> QED
    BY ONLY ZenonT(40), IL!IInv, l \in IL!Lists, <1>6, <1>7, <1>8, <2>1, <2>2, <2>4, <2>5, <2>6, OneListChanges

\* A list forgets its nodes.
LEMMA ClearSound ==
  ASSUME IL!IInv, NEW l \in IL!Lists, IL!Clear(l)
  PROVE  IL!IInv'
<1> DEFINE s == seq[l]
           c == cleared[l] + Len(s)
<1>1. Linked(list[l], next, prev, s, cleared[l]) /\ s \in Seq(Nodes) /\ Len(s) \in Nat /\ cleared[l] \in Nat
  BY ListFacts
<1>2. DOMAIN s = 1 .. Len(s)
  BY <1>1, LenProperties
<1>3. /\ prev' = [n \in Nodes |-> IF n \in Elements(s) THEN Null ELSE prev[n]] /\ next' = next
      /\ list' = [list EXCEPT ![l].head = Null, ![l].tail = Null]
      /\ cleared' = [cleared EXCEPT ![l] = c] /\ seq' = [seq EXCEPT ![l] = <<>>]
  <2>1. \A n \in Nodes : (\E i \in DOMAIN s : s[i] = n) <=> n \in Elements(s)
    BY <1>2 DEF Elements
  <2> QED
    BY <2>1 DEF IL!Clear, IL!IInv, IL!TypeOK
<1>4. next' \in [Nodes -> Nodes \cup {Null}] /\ prev' \in [Nodes -> Nodes \cup {Null}]
  BY <1>3 DEF IL!IInv, IL!TypeOK
<1>5. /\ list' \in [IL!Lists -> [head : Nodes \cup {Null}, tail : Nodes \cup {Null}, size : Nat]]
      /\ list'[l].head = Null /\ list'[l].tail = Null /\ list'[l].size = list[l].size
      /\ \A m \in IL!Lists : m # l => list'[m] = list[m]
  BY <1>3 DEF IL!IInv, IL!TypeOK
<1>6. <<>> \in Seq(Nodes) /\ Len(<<>>) = 0 /\ c \in Nat /\ Elements(<<>>) \subseteq Elements(s)
      /\ \A i \in 1 .. 0 : FALSE
  BY <1>1, EmptySeq DEF Elements
<1>7. list'[l].size = 0 + c
  BY <1>1, <1>5 DEF Linked
<1>8. Linked(list'[l], next', prev', <<>>, c)
  BY <1>5, <1>6, <1>7 DEF Linked
<1>9. \A m \in IL!Lists : m # l => Elements(seq[m]) \cap Elements(s) = {}
  BY ListsAreSound
<1>10. \A x \in Nodes \ Elements(s) : next'[x] = next[x] /\ prev'[x] = prev[x]
  BY <1>3
<1> DEFINE e == <<>>
<1>11. /\ e \in Seq(Nodes) /\ Elements(e) \subseteq Elements(s) /\ seq' = [seq EXCEPT ![l] = e]
       /\ Linked(list'[l], next', prev', e, c) /\ c \in Nat /\ cleared' = [cleared EXCEPT ![l] = c]
  BY ONLY <1>3, <1>6, <1>8
<1> HIDE DEF c, e
<1> QED
  BY ONLY IL!IInv, l \in IL!Lists, <1>4, <1>5, <1>9, <1>10, <1>11, OneListChanges

\* What one list had is the other's now.
LEMMA MoveSound ==
  ASSUME IL!IInv, NEW l \in IL!Lists, NEW m \in IL!Lists, IL!Move(l, m)
  PROVE  IL!IInv'
<1> DEFINE Nothing == [head |-> Null, tail |-> Null, size |-> 0]
<1>1. /\ l # m /\ list' = [list EXCEPT ![l] = list[m], ![m] = Nothing]
      /\ seq' = [seq EXCEPT ![l] = seq[m], ![m] = <<>>]
      /\ cleared' = [cleared EXCEPT ![l] = cleared[m], ![m] = 0] /\ next' = next /\ prev' = prev
  BY DEF IL!Move, IL!links
<1>2. <<>> \in Seq(Nodes) /\ Len(<<>>) = 0 /\ Elements(<<>>) = {} /\ \A i \in 1 .. 0 : FALSE
  BY EmptySeq DEF Elements
<1>3. IL!TypeOK'
  BY <1>1, <1>2 DEF IL!IInv, IL!TypeOK
<1>4. Linked(Nothing, next, prev, <<>>, 0)
  BY <1>2 DEF Linked
<1>5. Linked(list[m], next, prev, seq[m], cleared[m])
  BY ListsAreSound
<1> HIDE DEF Nothing
<1>6. /\ list'[l] = list[m] /\ seq'[l] = seq[m] /\ cleared'[l] = cleared[m]
      /\ list'[m] = Nothing /\ seq'[m] = <<>> /\ cleared'[m] = 0
      /\ \A k \in IL!Lists : k = l \/ k = m
  BY <1>1 DEF IL!IInv, IL!TypeOK, IL!Lists
<1>7. \A k \in IL!Lists : Linked(list'[k], next', prev', seq'[k], cleared'[k])
  BY ONLY <1>1, <1>4, <1>5, <1>6
<1>8. \A i, j \in IL!Lists : i # j => Elements(seq'[i]) \cap Elements(seq'[j]) = {}
  BY <1>2, <1>6
<1> QED
  BY <1>3, <1>7, <1>8, ListsAreSound

\* Two empty lists are sound.
LEMMA ListsInit ==
  ASSUME IL!Init
  PROVE  IL!IInv
<1>1. <<>> \in Seq(Nodes) /\ Len(<<>>) = 0 /\ Elements(<<>>) = {} /\ \A i \in 1 .. 0 : FALSE
  BY EmptySeq DEF Elements
<1>2. IL!TypeOK
  BY <1>1 DEF IL!Init, IL!TypeOK
<1>3. \A l \in IL!Lists : Linked(list[l], next, prev, seq[l], cleared[l])
  BY <1>1 DEF IL!Init, Linked
<1>4. \A l, m \in IL!Lists : l # m => Elements(seq[l]) \cap Elements(seq[m]) = {}
  BY <1>1 DEF IL!Init
<1> QED
  BY <1>2, <1>3, <1>4, ListsAreSound

LEMMA ListsNext ==
  ASSUME IL!IInv, IL!Next
  PROVE  IL!IInv'
BY PushFrontSound, PushBackSound, EraseSound, PopFrontSound, PopBackSound, ClearSound, MoveSound
   DEF IL!Next

\* Nothing happens to the lists.
LEMMA ListsStay ==
  ASSUME IL!IInv, UNCHANGED listVars
  PROVE  IL!IInv'
<1>1. list' = list /\ next' = next /\ prev' = prev /\ seq' = seq /\ cleared' = cleared
  BY DEF listVars
<1>2. IL!TypeOK' /\ IL!NodesApart'
  BY <1>1 DEF IL!IInv, IL!TypeOK, IL!NodesApart, IL!In
<1> QED
  BY <1>1, <1>2, ListsAreSound

\* Both lists link their nodes in the order they were put in, both ways, and
\* share none, for any nodes (intrusivelist.hh).
THEOREM ListsHoldTheirNodes == AllSpec => []IL!IInv
<1>1. AllInit => IL!IInv
  BY ListsInit DEF AllInit
<1>2. IL!IInv /\ [AllNext]_allVars => IL!IInv'
  <2> SUFFICES ASSUME IL!IInv, [AllNext]_allVars PROVE IL!IInv'
    OBVIOUS
  <2>1. CASE IL!Next
    BY <2>1, ListsNext
  <2>2. CASE UNCHANGED listVars
    BY <2>2, ListsStay
  <2> QED
    BY <2>1, <2>2 DEF AllNext, allVars, resourceVars
<1> QED
  BY <1>1, <1>2, PTL DEF AllSpec

\* Ring and lists hold what their operations say.
THEOREM QueuesAreSound == AllSpec => []QueuesHoldTheirElements
BY RingsHoldTheirValues, ListsHoldTheirNodes, PTL DEF QueuesHoldTheirElements

-----------------------------------------------------------------------------
(* LinearChunkAllocator.  Alloc puts what it returns at a place of a block  *)
(* of the list as it then is, behind everything that lies in that block,    *)
(* in a block behind which nothing lies.                                    *)

\* The list of blocks b, with all that is alive of a, up to the place pl of block i.
Filled(b, a, i, pl) ==
    /\ b \in Seq([id : Nat, size : Nat])
    /\ \A j \in 1 .. Len(b) : b[j].id \in 1 .. Len(b)
    /\ \A j, k \in 1 .. Len(b) : b[j].id = b[k].id => j = k
    /\ \A x \in a : \E j \in 1 .. Len(b) : b[j].id = x.block /\ x.at + x.units <= b[j].size
    /\ \A x \in a, j \in 1 .. Len(b) : b[j].id = x.block => j <= i /\ (j = i => x.at + x.units <= pl)
Disjoint(a) == \A x, y \in a : x # y /\ x.block = y.block => x.at + x.units <= y.at \/ y.at + y.units <= x.at

LEMMA ChunksAreFilled ==
  /\ LC!IInv <=> /\ cur \in 0 .. Len(chunks) /\ pos \in Nat /\ size \in Nat
                 /\ allocated \subseteq [block : Nat, at : Nat, units : Nat]
                 /\ (cur = 0 <=> chunks = <<>>)
                 /\ Filled(chunks, allocated, cur, pos) /\ Disjoint(allocated)
  /\ LC!IInv' <=> /\ cur' \in 0 .. Len(chunks') /\ pos' \in Nat /\ size' \in Nat
                  /\ allocated' \subseteq [block : Nat, at : Nat, units : Nat]
                  /\ (cur' = 0 <=> chunks' = <<>>)
                  /\ Filled(chunks', allocated', cur', pos') /\ Disjoint(allocated')
<1>1. \A b \in Seq([id : Nat, size : Nat]) : DOMAIN b = 1 .. Len(b)
  BY LenProperties
<1>2. LC!IInv <=> /\ cur \in 0 .. Len(chunks) /\ pos \in Nat /\ size \in Nat
                  /\ allocated \subseteq [block : Nat, at : Nat, units : Nat]
                  /\ (cur = 0 <=> chunks = <<>>)
                  /\ Filled(chunks, allocated, cur, pos) /\ Disjoint(allocated)
  BY ZenonT(40), <1>1 DEF LC!IInv, LC!TypeOK, LC!AllocationsApart, LC!InUse, LC!Ids, Filled, Disjoint
<1>3. LC!IInv' <=> /\ cur' \in 0 .. Len(chunks') /\ pos' \in Nat /\ size' \in Nat
                   /\ allocated' \subseteq [block : Nat, at : Nat, units : Nat]
                   /\ (cur' = 0 <=> chunks' = <<>>)
                   /\ Filled(chunks', allocated', cur', pos') /\ Disjoint(allocated')
  BY ZenonT(40), <1>1 DEF LC!IInv, LC!TypeOK, LC!AllocationsApart, LC!InUse, LC!Ids, Filled, Disjoint
<1> QED
  BY <1>2, <1>3

\* What Gives returns at a place behind everything.
LEMMA GivesSound ==
  ASSUME LC!IInv, NEW n \in Nat, NEW b, NEW i \in 1 .. Len(b), NEW pl \in Nat,
         Filled(b, allocated, i, pl), pl + n <= b[i].size, LC!Gives(n, b, i, pl)
  PROVE  LC!IInv'
<1> DEFINE new == [block |-> b[i].id, at |-> pl, units |-> n]
<1>1. /\ chunks' = b /\ cur' = i /\ pos' = pl + n /\ size' = size /\ allocated' = allocated \cup {new}
  BY DEF LC!Gives
<1>2. /\ size \in Nat /\ allocated \subseteq [block : Nat, at : Nat, units : Nat] /\ Disjoint(allocated)
  BY ChunksAreFilled
<1>3. /\ b \in Seq([id : Nat, size : Nat]) /\ Len(b) \in Nat /\ b # <<>> /\ b[i] \in [id : Nat, size : Nat]
      /\ i \in 0 .. Len(b) /\ i # 0
  <2>1. b \in Seq([id : Nat, size : Nat])
    BY DEF Filled
  <2>2. Len(b) \in Nat /\ b[i] \in [id : Nat, size : Nat]
    BY <2>1, LenProperties, ElementOfSeq
  <2>3. i \in 0 .. Len(b) /\ i # 0 /\ Len(b) # 0
    BY ONLY i \in 1 .. Len(b), <2>2
  <2> QED
    BY <2>1, <2>2, <2>3, EmptySeq
<1>4. new \in [block : Nat, at : Nat, units : Nat] /\ new.block = b[i].id /\ new.at = pl /\ new.units = n
  BY <1>3
<1> HIDE DEF new
<1>5. Filled(b, allocated', i, pl + n)
  <2>1. \A x \in allocated' : \E j \in 1 .. Len(b) : b[j].id = x.block /\ x.at + x.units <= b[j].size
    BY <1>1, <1>4 DEF Filled
  <2>2. ASSUME NEW x \in allocated', NEW j \in 1 .. Len(b), b[j].id = x.block
        PROVE  j <= i /\ (j = i => x.at + x.units <= pl + n)
    <3>1. CASE x = new
      <4>1. j = i
        BY <1>4, <2>2, <3>1 DEF Filled
      <4> QED
        BY <1>3, <1>4, <3>1, <4>1
    <3>2. CASE x \in allocated
      <4>1. j <= i /\ (j = i => x.at + x.units <= pl)
        BY <2>2, <3>2 DEF Filled
      <4>2. x.at \in Nat /\ x.units \in Nat
        BY <1>2, <3>2
      <4> QED
        BY <4>1, <4>2
    <3> QED
      BY <1>1, <3>1, <3>2
  <2> QED
    BY <2>1, <2>2 DEF Filled
<1>6. Disjoint(allocated')
  <2>1. ASSUME NEW x \in allocated, x.block = b[i].id
        PROVE  x.at + x.units <= pl
    BY <2>1 DEF Filled
  <2> QED
    BY <1>1, <1>2, <1>4, <2>1 DEF Disjoint
<1>7. /\ cur' \in 0 .. Len(chunks') /\ pos' \in Nat /\ size' \in Nat
      /\ allocated' \subseteq [block : Nat, at : Nat, units : Nat] /\ (cur' = 0 <=> chunks' = <<>>)
  BY SMTT(30), <1>1, <1>2, <1>3, <1>4
<1>8. Filled(chunks', allocated', cur', pos')
  BY <1>1, <1>5
<1> QED
  BY ONLY <1>6, <1>7, <1>8, ChunksAreFilled

LEMMA AllocSound ==
  ASSUME LC!IInv, NEW n \in 0 .. MaxAlloc, LC!Alloc(n)
  PROVE  LC!IInv'
<1> DEFINE Rec == [id : Nat, size : Nat]
           m == LC!Made(n)
<1>1. /\ cur \in 0 .. Len(chunks) /\ pos \in Nat /\ size \in Nat
      /\ allocated \subseteq [block : Nat, at : Nat, units : Nat]
      /\ (cur = 0 <=> chunks = <<>>)
      /\ Filled(chunks, allocated, cur, pos) /\ chunks \in Seq(Rec)
  BY ChunksAreFilled DEF Filled
<1>2. n \in Nat /\ Len(chunks) \in Nat /\ \A j \in 1 .. Len(chunks) : chunks[j] \in Rec
  <2>1. n \in Nat
    BY ChunksAssumption
  <2> QED
    BY <1>1, <2>1, LenProperties, ElementOfSeq
<1>3. m \in Rec /\ m.id = Len(chunks) + 1 /\ 0 + n <= m.size
  BY <1>1, <1>2 DEF LC!Made
<1> HIDE DEF m
<1>4. CASE cur = 0
  <2>1. chunks = <<>> /\ Len(chunks) = 0 /\ allocated = {}
    BY <1>1, <1>4, EmptySeq DEF Filled
  <2> DEFINE b == <<m>>
  <2>2. b \in Seq(Rec) /\ Len(b) = 1 /\ b[1] = m /\ 1 \in 1 .. Len(b) /\ \A j \in 1 .. 1 : j = 1
    BY <1>3
  <2>3. LC!Gives(n, b, 1, 0)
    BY <1>4 DEF LC!Alloc, m
  <2> HIDE DEF b
  <2>4. Filled(b, allocated, 1, 0)
    BY <1>3, <2>1, <2>2 DEF Filled
  <2> QED
    BY <1>2, <1>3, <2>2, <2>3, <2>4, GivesSound
<1>5. CASE cur # 0 /\ chunks[cur].size - pos >= n
  <2>1. cur \in 1 .. Len(chunks) /\ chunks[cur].size \in Nat
    BY <1>1, <1>2, <1>5
  <2>2. pos + n <= chunks[cur].size
    BY <1>1, <1>2, <1>5, <2>1
  <2>3. LC!Gives(n, chunks, cur, pos)
    BY <1>5 DEF LC!Alloc
  <2> QED
    BY <1>1, <1>2, <2>1, <2>2, <2>3, GivesSound
<1>6. CASE cur # 0 /\ ~(chunks[cur].size - pos >= n) /\ cur < Len(chunks) /\ chunks[cur + 1].size >= n
  <2>1. cur + 1 \in 1 .. Len(chunks) /\ chunks[cur + 1].size \in Nat
    BY <1>1, <1>2, <1>6
  <2>2. 0 + n <= chunks[cur + 1].size
    BY <1>2, <1>6, <2>1
  <2>3. LC!Gives(n, chunks, cur + 1, 0)
    BY <1>6 DEF LC!Alloc
  <2>4. Filled(chunks, allocated, cur + 1, 0)
    <3>1. ASSUME NEW x \in allocated, NEW j \in 1 .. Len(chunks), chunks[j].id = x.block
          PROVE  j <= cur + 1 /\ j # cur + 1
      <4>1. j <= cur
        BY <1>1, <3>1 DEF Filled
      <4> QED
        BY <1>1, <4>1
    <3> QED
      BY <1>1, <3>1 DEF Filled
  <2> QED
    BY <1>2, <2>1, <2>2, <2>3, <2>4, GivesSound
<1>7. CASE cur # 0 /\ ~(chunks[cur].size - pos >= n) /\ ~(cur < Len(chunks) /\ chunks[cur + 1].size >= n)
  <2> DEFINE k == cur + 1
             b == LC!InsertAt(chunks, k, m)
  <2>1. k \in 1 .. Len(chunks) + 1 /\ k \in Nat
    BY <1>1
  <2>2. b = WithElement(chunks, k, m)
    BY DEF LC!InsertAt, WithElement
  <2>3. LC!Gives(n, b, k, 0)
    BY <1>7 DEF LC!Alloc, m
  <2>0. k = cur + 1 /\ k - 1 = cur
    BY <1>1
  <2> HIDE DEF b, k
  <2>4. /\ b \in Seq(Rec) /\ Len(b) = Len(chunks) + 1
        /\ \A i \in 1 .. Len(chunks) + 1 :
               b[i] = IF i < k THEN chunks[i] ELSE IF i = k THEN m ELSE chunks[i - 1]
    <3> HIDE DEF Rec
    <3>1. chunks \in Seq(Rec) /\ m \in Rec
      BY <1>1, <1>3
    <3>2. /\ WithElement(chunks, k, m) \in Seq(Rec)
          /\ Len(WithElement(chunks, k, m)) = Len(chunks) + 1
          /\ IsWith(WithElement(chunks, k, m), chunks, k, m)
      BY ONLY <2>1, <3>1, InsertFacts
    <3> QED
      BY ONLY <2>2, <3>2 DEF IsWith
  <2>5. b[k] = m /\ k \in 1 .. Len(b)
    BY <2>1, <2>4
  <2> DEFINE Old(i) == IF i < k THEN i ELSE i - 1
             New(j) == IF j < k THEN j ELSE j + 1
  <2>6. ASSUME NEW i \in 1 .. Len(b), i # k
        PROVE  Old(i) \in 1 .. Len(chunks) /\ b[i] = chunks[Old(i)]
    <3>1. Old(i) \in 1 .. Len(chunks)
      BY SMTT(30), <1>1, <1>2, <2>1, <2>4, <2>6
    <3>2. b[i] = chunks[Old(i)]
      BY <2>4, <2>6
    <3> QED
      BY <3>1, <3>2
  <2>7. ASSUME NEW j \in 1 .. Len(chunks)
        PROVE  New(j) \in 1 .. Len(b) /\ b[New(j)] = chunks[j]
    <3>1. New(j) \in 1 .. Len(chunks) + 1 /\ New(j) # k /\ (New(j) < k <=> j < k) /\ (~(j < k) => (j + 1) - 1 = j)
      BY SMTT(30), <1>1, <1>2, <2>1
    <3> QED
      BY <2>4, <3>1
  <2>8. \A i \in 1 .. Len(b) : b[i].id \in 1 .. Len(b) /\ (b[i].id = Len(chunks) + 1 <=> i = k)
    <3>1. \A j \in 1 .. Len(chunks) : chunks[j].id \in 1 .. Len(chunks) + 1 /\ chunks[j].id # Len(chunks) + 1
      BY SMTT(30), <1>1, <1>2 DEF Filled
    <3>2. Len(chunks) + 1 \in 1 .. Len(chunks) + 1
      BY <1>2
    <3> QED
      BY <1>3, <2>4, <2>5, <2>6, <3>1, <3>2
  <2>9. ASSUME NEW i \in 1 .. Len(b), NEW j \in 1 .. Len(b), b[i].id = b[j].id
        PROVE  i = j
    <3>1. CASE i = k \/ j = k
      BY <2>8, <2>9, <3>1
    <3>2. CASE i # k /\ j # k
      <4>1. Old(i) = Old(j)
        <5>1. /\ Old(i) \in 1 .. Len(chunks) /\ b[i] = chunks[Old(i)]
              /\ Old(j) \in 1 .. Len(chunks) /\ b[j] = chunks[Old(j)]
          BY <2>6, <3>2
        <5> HIDE DEF Old
        <5> QED
          BY <1>1, <2>9, <5>1 DEF Filled
      <4>2. i \in Nat /\ j \in Nat
        OBVIOUS
      <4> QED
        BY ONLY <2>1, <3>2, <4>1, <4>2
    <3> QED
      BY <3>1, <3>2
  <2>10. ASSUME NEW x \in allocated
         PROVE  \E j \in 1 .. Len(b) : b[j].id = x.block /\ x.at + x.units <= b[j].size
    <3>1. PICK j \in 1 .. Len(chunks) : chunks[j].id = x.block /\ x.at + x.units <= chunks[j].size
      BY <1>1 DEF Filled
    <3> HIDE DEF New
    <3> QED
      BY <2>7, <3>1
  <2>11. ASSUME NEW x \in allocated, NEW i \in 1 .. Len(b), b[i].id = x.block
         PROVE  i <= k /\ i # k
    <3>1. i # k
      <4>1. PICK j \in 1 .. Len(chunks) : chunks[j].id = x.block
        BY <1>1 DEF Filled
      <4>2. x.block \in 1 .. Len(chunks)
        BY <1>1, <4>1 DEF Filled
      <4> QED
        BY <1>2, <2>8, <2>11, <4>2
    <3>2. Old(i) <= cur
      <4>1. Old(i) \in 1 .. Len(chunks) /\ chunks[Old(i)].id = x.block
        BY <2>6, <2>11, <3>1
      <4> HIDE DEF Old
      <4> QED
        BY <1>1, <4>1 DEF Filled
    <3> QED
      BY <1>1, <2>0, <2>4, <3>1, <3>2
  <2>12. Filled(b, allocated, k, 0)
    BY <2>4, <2>8, <2>9, <2>10, <2>11 DEF Filled
  <2> QED
    BY <1>2, <1>3, <2>3, <2>5, <2>12, GivesSound
<1> QED
  BY <1>4, <1>5, <1>6, <1>7

LEMMA NothingIsFilled == \A pl : Filled(<<>>, {}, 0, pl) /\ Disjoint({}) /\ Len(<<>>) = 0
<1>1. <<>> \in Seq([id : Nat, size : Nat]) /\ Len(<<>>) = 0 /\ \A i \in 1 .. 0 : FALSE
  BY EmptySeq
<1> QED
  BY <1>1 DEF Filled, Disjoint

LEMMA ChunksInit ==
  ASSUME LC!Init
  PROVE  LC!IInv
BY NothingIsFilled, ChunksAssumption, ChunksAreFilled DEF LC!Init

LEMMA ChunksNext ==
  ASSUME LC!IInv, LC!Next
  PROVE  LC!IInv'
<1>1. ASSUME LC!Clear
      PROVE  LC!IInv'
  <2>1. /\ chunks' = chunks /\ size' = size /\ size \in Nat /\ pos' = 0 /\ allocated' = {}
        /\ cur' = IF chunks = <<>> THEN 0 ELSE 1
        /\ Filled(chunks, allocated, cur, pos)
    BY <1>1, ChunksAreFilled DEF LC!Clear
  <2>2. Filled(chunks', allocated', cur', pos') /\ Disjoint(allocated')
    BY <2>1 DEF Filled, Disjoint
  <2>3. cur' \in 0 .. Len(chunks')
    BY <2>1, LenProperties, EmptySeq DEF Filled
  <2> QED
    BY <2>1, <2>2, <2>3, ChunksAreFilled
<1>2. ASSUME NEW n \in {0, BlockSize}, LC!Move(n)
      PROVE  LC!IInv'
  BY <1>2, NothingIsFilled, ChunksAssumption, ChunksAreFilled DEF LC!Move
<1> QED
  BY <1>1, <1>2, AllocSound DEF LC!Next

\* What a LinearChunkAllocator has given lies apart, in blocks it holds, for any
\* sizes (linear_chunk_allocator.cpp).
THEOREM ChunksAreSound == AllSpec => []LC!IInv
<1>1. AllInit => LC!IInv
  BY ChunksInit DEF AllInit
<1>2. LC!IInv /\ [AllNext]_allVars => LC!IInv'
  <2> SUFFICES ASSUME LC!IInv, [AllNext]_allVars PROVE LC!IInv'
    OBVIOUS
  <2>1. CASE LC!Next
    BY <2>1, ChunksNext
  <2>2. CASE UNCHANGED chunkVars
    <3>1. chunks' = chunks /\ cur' = cur /\ pos' = pos /\ size' = size /\ allocated' = allocated
      BY <2>2 DEF chunkVars
    <3> QED
      BY <3>1 DEF LC!IInv, LC!TypeOK, LC!AllocationsApart, LC!InUse, LC!Ids
  <2> QED
    BY <2>1, <2>2 DEF AllNext, allVars, resourceVars
<1> QED
  BY <1>1, <1>2, PTL DEF AllSpec

-----------------------------------------------------------------------------
(* PoolMemory.  The data begins at a multiple of the alignment more than    *)
(* five and at most five and an alignment behind the block's begin, and     *)
(* there is only one such multiple.                                         *)

LEMMA MultiplesApart ==
  ASSUME NEW a \in Nat \ {0}, NEW i \in Int, NEW j \in Int, i < j
  PROVE  i * a + a <= j * a
OBVIOUS

LEMMA Quotient ==
  ASSUME NEW a \in Nat \ {0}, NEW x \in Nat
  PROVE  /\ x \div a \in Nat
         /\ (x \div a) * a <= x /\ x < (x \div a) * a + a
OBVIOUS

LEMMA MultipleOf ==
  ASSUME NEW a \in Nat \ {0}, NEW x \in Nat, NEW q \in Nat, x = q * a
  PROVE  x % a = 0
OBVIOUS

LEMMA IsMultiple ==
  ASSUME NEW a \in Nat \ {0}, NEW x \in Nat, x % a = 0
  PROVE  x = (x \div a) * a /\ x \div a \in Nat
OBVIOUS

LEMMA PaddingBounds ==
  ASSUME NEW p \in Nat, NEW a \in Nat \ {0}
  PROVE  /\ PM!Padding(p, a) \in Nat
         /\ 5 < PM!Padding(p, a) /\ PM!Padding(p, a) <= 5 + a
         /\ (p + PM!Padding(p, a)) % a = 0
<1> DEFINE x == p + 5 + a
           q == x \div a
           m == q * a
<1>1. x \in Nat
  OBVIOUS
<1>2. q \in Nat /\ m <= x /\ x < m + a
  <2> HIDE DEF x
  <2> QED
    BY <1>1, Quotient
<1>3. m \in Nat
  <2> HIDE DEF q
  <2> QED
    BY <1>2
<1>4. PM!Padding(p, a) = m - p
  BY DEF PM!Padding, PM!HeaderSize
<1>5. p + (m - p) = m /\ m - p \in Nat /\ 5 < m - p /\ m - p <= 5 + a
  <2>1. p + 5 + a < m + a /\ m <= p + 5 + a
    BY <1>2
  <2> HIDE DEF m
  <2> QED
    BY <1>3, <2>1
<1>6. m % a = 0
  <2> HIDE DEF q
  <2> QED
    BY <1>2, <1>3, MultipleOf
<1> HIDE DEF m
<1> QED
  BY <1>4, <1>5, <1>6

\* At two places that the alignment divides, the data begins equally far behind.
LEMMA PaddingsEqual ==
  ASSUME NEW p \in Nat, NEW r \in Nat, NEW a \in Nat \ {0}, p % a = 0, r % a = 0
  PROVE  PM!Padding(p, a) = PM!Padding(r, a)
<1> DEFINE x == PM!Padding(p, a)
           y == PM!Padding(r, a)
<1>1. /\ x \in Nat /\ 5 < x /\ x <= 5 + a /\ (p + x) % a = 0
      /\ y \in Nat /\ 5 < y /\ y <= 5 + a /\ (r + y) % a = 0
  BY PaddingBounds
<1> HIDE DEF x, y
<1>2. ASSUME NEW z \in Nat, NEW s \in Nat, s % a = 0, (s + z) % a = 0
      PROVE  \E i \in Int : z = i * a
  <2>1. s = (s \div a) * a /\ s \div a \in Nat /\ s + z = ((s + z) \div a) * a /\ (s + z) \div a \in Nat
    BY <1>2, IsMultiple
  <2> DEFINE j == s \div a
             k == (s + z) \div a
  <2>2. j \in Nat /\ k \in Nat /\ s = j * a /\ s + z = k * a
    BY <2>1
  <2> HIDE DEF j, k
  <2>3. z = (k - j) * a /\ k - j \in Int
    BY <2>2
  <2> QED
    BY ONLY <2>3
<1>3. PICK i \in Int : x = i * a
  BY <1>1, <1>2
<1>4. PICK j \in Int : y = j * a
  BY <1>1, <1>2
<1>5. ~(i < j)
  <2> SUFFICES ASSUME i < j PROVE FALSE
    OBVIOUS
  <2>1. x + a <= y
    BY <1>3, <1>4, MultiplesApart
  <2> QED
    BY <1>1, <2>1
<1>6. ~(j < i)
  <2> SUFFICES ASSUME j < i PROVE FALSE
    OBVIOUS
  <2>1. y + a <= x
    BY <1>3, <1>4, MultiplesApart
  <2> QED
    BY <1>1, <2>1
<1>7. i = j
  BY <1>5, <1>6
<1> QED
  BY <1>3, <1>4, <1>7 DEF x, y

\* What Block makes is sound, and is what its own fields say.
LEMMA BlockFacts ==
  ASSUME NEW p \in Places, NEW n \in Requests, NEW id \in PoolIds, NEW align \in Aligns, NEW B,
         B = PM!Block(p, n, id, align)
  PROVE  /\ B \in [at : Places, padding : Nat, total : Nat, pool : PoolIds,
                   request : Requests, align : Aligns]
         /\ (B.at + B.padding) % B.align = 0 /\ B.padding + B.request <= B.total
         /\ PM!HeaderSize < B.padding /\ B.padding < 256
         /\ B = PM!Block(B.at, B.request, B.pool, B.align)
         /\ B.at = p /\ B.request = n /\ B.pool = id /\ B.align = align
         /\ B.total = PM!TotalSize(n, align) /\ B.padding = PM!Padding(p, align)
         /\ B.total - B.padding \in Nat /\ B.total \in Nat
<1>1. p \in Nat /\ n \in Nat /\ align \in Nat \ {0} /\ align <= 250
  BY MemoryAssumption
<1>2. /\ PM!Padding(p, align) \in Nat /\ 5 < PM!Padding(p, align) /\ PM!Padding(p, align) <= 5 + align
      /\ (p + PM!Padding(p, align)) % align = 0
  BY <1>1, PaddingBounds
<1>3. /\ B.at = p /\ B.request = n /\ B.pool = id /\ B.align = align
      /\ B.total = PM!TotalSize(n, align) /\ B.padding = PM!Padding(p, align)
  BY DEF PM!Block
<1>4. PM!TotalSize(n, align) = n + 5 + align
  BY DEF PM!TotalSize, PM!HeaderSize
<1>5. /\ B.total \in Nat /\ B.total - B.padding \in Nat /\ B.padding + B.request <= B.total
      /\ B.padding < 256
  BY <1>1, <1>2, <1>3, <1>4
<1>6. B \in [at : Places, padding : Nat, total : Nat, pool : PoolIds, request : Requests, align : Aligns]
  BY <1>2, <1>3, <1>5 DEF PM!Block
<1>7. B = PM!Block(B.at, B.request, B.pool, B.align)
  BY <1>3
<1> QED
  BY <1>2, <1>3, <1>5, <1>6, <1>7 DEF PM!HeaderSize

\* The bytes of a pool, as a set that a block adds its own to.
LEMMA TakenFinite ==
  ASSUME NEW H, IsFiniteSet(H), \A b \in H : b.total \in Nat, NEW id
  PROVE  IsFiniteSet(PM!Taken(H, id)) /\ Cardinality(PM!Taken(H, id)) \in Nat
<1> DEFINE T == {b \in H : b.pool = id}
           Of(b) == {b} \X (1 .. b.total)
           f == [b \in T |-> Of(b)]
           Sets == {Of(b) : b \in T}
<1>1. IsFiniteSet(T)
  BY FS_Subset
<1>2. f \in Surjection(T, Sets)
  BY DEF Surjection
<1>3. IsFiniteSet(Sets)
  BY <1>1, <1>2, FS_Surjection
<1>4. ASSUME NEW b \in T PROVE IsFiniteSet(Of(b))
  <2>1. b.total \in Int /\ 1 \in Int
    OBVIOUS
  <2>2. IsFiniteSet(1 .. b.total)
    BY <2>1, FS_Interval
  <2> QED
    BY <2>2, FS_Singleton, FS_Product
<1>5. IsFiniteSet(UNION Sets)
  BY <1>3, <1>4, FS_UNION
<1> QED
  BY <1>5, FS_CardinalityType DEF PM!Taken

LEMMA TakenAdds ==
  ASSUME NEW H, IsFiniteSet(H), \A b \in H : b.total \in Nat, NEW B, B \notin H, B.total \in Nat, NEW id
  PROVE  Cardinality(PM!Taken(H \cup {B}, id))
           = Cardinality(PM!Taken(H, id)) + (IF B.pool = id THEN B.total ELSE 0)
<1> DEFINE old == PM!Taken(H, id)
           more == {B} \X (1 .. B.total)
<1>1. IsFiniteSet(old) /\ Cardinality(old) \in Nat
  BY TakenFinite
<1>2. CASE B.pool = id
  <2>1. PM!Taken(H \cup {B}, id) = old \cup more
    BY <1>2 DEF PM!Taken
  <2>2. old \cap more = {}
    <3>1. \A x \in old : x[1] \in H
      BY DEF PM!Taken
    <3>2. \A x \in more : x[1] = B
      OBVIOUS
    <3> QED
      BY <3>1, <3>2
  <2>3. IsFiniteSet(more) /\ Cardinality(more) = B.total
    <3>1. 1 \in Int /\ B.total \in Int /\ (IF 1 > B.total THEN 0 ELSE B.total - 1 + 1) = B.total
      OBVIOUS
    <3>2. IsFiniteSet(1 .. B.total) /\ Cardinality(1 .. B.total) = B.total
      BY <3>1, FS_Interval
    <3>3. IsFiniteSet({B}) /\ Cardinality({B}) = 1
      BY FS_Singleton
    <3>4. ASSUME NEW R, IsFiniteSet(R), Cardinality(R) = B.total
          PROVE  IsFiniteSet({B} \X R) /\ Cardinality({B} \X R) = 1 * B.total
      BY <3>3, <3>4, FS_Product
    <3> QED
      BY <3>2, <3>4
  <2>4. Cardinality(old \cup more) = Cardinality(old) + Cardinality(more) - Cardinality(old \cap more)
    BY <1>1, <2>3, FS_Union
  <2>5. Cardinality(old \cap more) = 0
    BY <2>2, FS_EmptySet
  <2>6. Cardinality(old \cup more) = Cardinality(old) + B.total
    BY <1>1, <2>3, <2>4, <2>5
  <2> QED
    BY <1>2, <2>1, <2>6
<1>3. CASE B.pool # id
  <2>1. PM!Taken(H \cup {B}, id) = old
    BY <1>3 DEF PM!Taken
  <2> QED
    BY <1>1, <1>3, <2>1
<1> QED
  BY <1>2, <1>3

\* PoolMemory's Cardinality is that of the lemmas.
LEMMA UsedIsTaken ==
  /\ PM!UsedIsSum <=> \A id \in PoolIds : used[id] = Cardinality(PM!Taken(heap, id))
  /\ PM!UsedIsSum' <=> \A id \in PoolIds : used'[id] = Cardinality(PM!Taken(heap', id))
<1>1. \A X : PM!Cardinality(X) = Cardinality(X)
  BY DEF PM!Cardinality, Cardinality
<1> QED
  BY <1>1 DEF PM!UsedIsSum, PM!Taken

LEMMA MemoryInit ==
  ASSUME PM!Init
  PROVE  PM!IInv
<1>1. \A id \in PoolIds : PM!Taken(heap, id) = {}
  BY DEF PM!Init, PM!Taken
<1>2. PM!UsedIsSum
  BY <1>1, FS_EmptySet, UsedIsTaken DEF PM!Init
<1>3. IsFiniteSet(heap)
  BY FS_EmptySet DEF PM!Init
<1>4. PM!HeadersStay
  <2>1. \A X : IsFiniteSet(X) <=> PM!IsFiniteSet(X)
    BY DEF IsFiniteSet, PM!IsFiniteSet
  <2> QED
    BY <1>3, <2>1 DEF PM!Init, PM!HeadersStay
<1> QED
  BY <1>2, <1>4 DEF PM!Init, PM!IInv, PM!TypeOK, PM!BlocksSound, PM!GrowingCopyFits

\* A block more, and a block less.
LEMMA HeapChanges ==
  ASSUME PM!IInv
  PROVE  /\ IsFiniteSet(heap) /\ \A b \in heap : b.total \in Nat
         /\ \A b \in heap, id \in PoolIds :
                /\ Cardinality(PM!Taken(heap \ {b}, id)) \in Nat
                /\ used[id] = Cardinality(PM!Taken(heap \ {b}, id)) + (IF b.pool = id THEN b.total ELSE 0)
<1>1. IsFiniteSet(heap) /\ \A b \in heap : b.total \in Nat
  <2>1. \A X : IsFiniteSet(X) <=> PM!IsFiniteSet(X)
    BY DEF IsFiniteSet, PM!IsFiniteSet
  <2> QED
    BY <2>1 DEF PM!IInv, PM!TypeOK, PM!HeadersStay
<1>2. ASSUME NEW b \in heap, NEW id \in PoolIds
      PROVE  /\ Cardinality(PM!Taken(heap \ {b}, id)) \in Nat
             /\ used[id] = Cardinality(PM!Taken(heap \ {b}, id)) + (IF b.pool = id THEN b.total ELSE 0)
  <2> DEFINE H == heap \ {b}
  <2>1. /\ IsFiniteSet(H) /\ b \notin H /\ H \cup {b} = heap /\ b.total \in Nat
        /\ \A c \in H : c.total \in Nat
    BY <1>1, FS_Subset
  <2> HIDE DEF H
  <2>2. Cardinality(PM!Taken(H, id)) \in Nat
    BY <2>1, TakenFinite
  <2>3. Cardinality(PM!Taken(H \cup {b}, id))
          = Cardinality(PM!Taken(H, id)) + (IF b.pool = id THEN b.total ELSE 0)
    BY <2>1, TakenAdds
  <2>4. used[id] = Cardinality(PM!Taken(heap, id))
    BY UsedIsTaken DEF PM!IInv
  <2> QED
    BY <2>1, <2>2, <2>3, <2>4 DEF H
<1> QED
  BY <1>1, <1>2

\* A heap whose blocks are old ones, or made now.
LEMMA HeapSound ==
  ASSUME PM!IInv, NEW B,
         \A b \in heap' : b \in heap \/ b = B,
         /\ B \in [at : Places, padding : Nat, total : Nat, pool : PoolIds,
                   request : Requests, align : Aligns]
         /\ (B.at + B.padding) % B.align = 0 /\ B.padding + B.request <= B.total
         /\ PM!HeaderSize < B.padding /\ B.padding < 256
         /\ B = PM!Block(B.at, B.request, B.pool, B.align)
  PROVE  /\ heap' \subseteq [at : Places, padding : Nat, total : Nat, pool : PoolIds,
                             request : Requests, align : Aligns]
         /\ PM!BlocksSound' /\ \A b \in heap' : b = PM!Block(b.at, b.request, b.pool, b.align)
<1>1. heap' \subseteq [at : Places, padding : Nat, total : Nat, pool : PoolIds,
                       request : Requests, align : Aligns]
  BY DEF PM!IInv, PM!TypeOK
<1>2. PM!BlocksSound'
  BY DEF PM!IInv, PM!BlocksSound, PM!HeaderSize
<1>3. \A b \in heap' : b = PM!Block(b.at, b.request, b.pool, b.align)
  BY DEF PM!IInv, PM!HeadersStay
<1> QED
  BY <1>1, <1>2, <1>3

LEMMA MemoryNext ==
  ASSUME PM!IInv, PM!Next
  PROVE  PM!IInv'
<1>0. /\ heap \subseteq [at : Places, padding : Nat, total : Nat, pool : PoolIds,
                         request : Requests, align : Aligns]
      /\ used \in [PoolIds -> Nat] /\ copied \in [bytes : Nat, room : Nat, grows : BOOLEAN]
      /\ IsFiniteSet(heap) /\ \A b \in heap : b.total \in Nat
  BY HeapChanges DEF PM!IInv, PM!TypeOK
<1>1. \A X : IsFiniteSet(X) <=> PM!IsFiniteSet(X)
  BY DEF IsFiniteSet, PM!IsFiniteSet
<1>2. ASSUME NEW p \in PM!Unused, NEW n \in Requests, NEW id \in PoolIds, NEW align \in Aligns,
             PM!Allocate(p, n, id, align)
      PROVE  PM!IInv'
  <2> DEFINE B == PM!Block(p, n, id, align)
  <2>0. p \in Places /\ \A b \in heap : b.at # p
    BY <1>2 DEF PM!Unused
  <2>1. /\ heap' = heap \cup {B} /\ used' = [used EXCEPT ![id] = @ + PM!TotalSize(n, align)]
        /\ copied' = copied
    BY <1>2 DEF PM!Allocate
  <2>2. /\ B \in [at : Places, padding : Nat, total : Nat, pool : PoolIds,
                   request : Requests, align : Aligns]
        /\ (B.at + B.padding) % B.align = 0 /\ B.padding + B.request <= B.total
        /\ PM!HeaderSize < B.padding /\ B.padding < 256
        /\ B = PM!Block(B.at, B.request, B.pool, B.align)
        /\ B.at = p /\ B.pool = id /\ B.total = PM!TotalSize(n, align) /\ B.total \in Nat
    BY <2>0, BlockFacts
  <2> HIDE DEF B
  <2>3. B \notin heap
    BY <2>0, <2>2
  <2>4. \A b \in heap' : b \in heap \/ b = B
    BY <2>1
  <2>5. /\ heap' \subseteq [at : Places, padding : Nat, total : Nat, pool : PoolIds,
                             request : Requests, align : Aligns]
        /\ PM!BlocksSound' /\ \A b \in heap' : b = PM!Block(b.at, b.request, b.pool, b.align)
    BY ONLY PM!IInv, <2>2, <2>4, HeapSound
  <2>6. IsFiniteSet(heap')
    BY <1>0, <2>1, FS_AddElement
  <2>7. used' \in [PoolIds -> Nat]
    BY <1>0, <2>1, <2>2
  <2>8. ASSUME NEW i \in PoolIds
        PROVE  used'[i] = Cardinality(PM!Taken(heap', i))
    <3>1. used[i] = Cardinality(PM!Taken(heap, i))
      BY UsedIsTaken DEF PM!IInv
    <3>2. Cardinality(PM!Taken(heap \cup {B}, i))
            = Cardinality(PM!Taken(heap, i)) + (IF B.pool = i THEN B.total ELSE 0)
      BY SMTT(30), <1>0, <2>2, <2>3, TakenAdds
    <3>3. used'[i] = used[i] + (IF B.pool = i THEN B.total ELSE 0)
      BY <1>0, <2>1, <2>2
    <3> QED
      BY <2>1, <3>1, <3>2, <3>3
  <2>9. PM!UsedIsSum'
    BY <2>8, UsedIsTaken
  <2>10. PM!GrowingCopyFits'
    BY <2>1 DEF PM!IInv, PM!GrowingCopyFits
  <2>11. PM!TypeOK'
    BY <1>0, <2>1, <2>5, <2>7 DEF PM!TypeOK
  <2>12. PM!HeadersStay'
    BY <1>1, <2>5, <2>6 DEF PM!HeadersStay
  <2> QED
    BY <2>5, <2>9, <2>10, <2>11, <2>12 DEF PM!IInv
<1>3. ASSUME NEW p \in PM!Unused, NEW n \in Requests, NEW id \in PoolIds, NEW align \in Aligns,
             NEW b \in heap, PM!Reallocate(b, p, n, id, align)
      PROVE  PM!IInv'
  <2> DEFINE B == PM!Block(p, n, id, align)
             H == heap \ {b}
  <2>0. p \in Places /\ \A c \in heap : c.at # p
    BY <1>3 DEF PM!Unused
  <2>1. /\ heap' = H \cup {B}
        /\ used' = [i \in PoolIds |-> used[i] + (IF i = id THEN PM!TotalSize(n, align) ELSE 0)
                                              - (IF i = b.pool THEN b.total ELSE 0)]
        /\ copied' = [bytes |-> b.total - b.padding, room |-> PM!TotalSize(n, align) - PM!Padding(p, align),
                      grows |-> n >= b.request /\ align = b.align /\ align <= MallocAlign]
    BY <1>3 DEF PM!Reallocate
  <2>2. /\ B \in [at : Places, padding : Nat, total : Nat, pool : PoolIds,
                   request : Requests, align : Aligns]
        /\ (B.at + B.padding) % B.align = 0 /\ B.padding + B.request <= B.total
        /\ PM!HeaderSize < B.padding /\ B.padding < 256
        /\ B = PM!Block(B.at, B.request, B.pool, B.align)
        /\ B.at = p /\ B.pool = id /\ B.total = PM!TotalSize(n, align) /\ B.total \in Nat
        /\ B.padding = PM!Padding(p, align) /\ B.total - B.padding \in Nat
    BY <2>0, BlockFacts
  <2>3. b \in [at : Places, padding : Nat, total : Nat, pool : PoolIds, request : Requests, align : Aligns]
        /\ b = PM!Block(b.at, b.request, b.pool, b.align)
    BY <1>0 DEF PM!IInv, PM!HeadersStay
  <2>4. /\ b.total - b.padding \in Nat /\ b.total = PM!TotalSize(b.request, b.align)
        /\ b.padding = PM!Padding(b.at, b.align) /\ b.pool \in PoolIds /\ b.total \in Nat
    BY <2>3, BlockFacts
  <2> HIDE DEF B
  <2>5. B \notin H /\ IsFiniteSet(H) /\ \A c \in H : c.total \in Nat
    BY <1>0, <2>0, <2>2, FS_Subset
  <2>6. \A c \in heap' : c \in heap \/ c = B
    BY <2>1
  <2>7. /\ heap' \subseteq [at : Places, padding : Nat, total : Nat, pool : PoolIds,
                             request : Requests, align : Aligns]
        /\ PM!BlocksSound' /\ \A c \in heap' : c = PM!Block(c.at, c.request, c.pool, c.align)
    BY ONLY PM!IInv, <2>2, <2>6, HeapSound
  <2>8. IsFiniteSet(heap')
    BY <2>1, <2>5, FS_AddElement
  <2>9. ASSUME NEW i \in PoolIds
        PROVE  used'[i] \in Nat /\ used'[i] = Cardinality(PM!Taken(heap', i))
    <3>1. /\ Cardinality(PM!Taken(H, i)) \in Nat
          /\ used[i] = Cardinality(PM!Taken(H, i)) + (IF b.pool = i THEN b.total ELSE 0)
      BY HeapChanges
    <3>2. Cardinality(PM!Taken(H \cup {B}, i))
            = Cardinality(PM!Taken(H, i)) + (IF B.pool = i THEN B.total ELSE 0)
      <4>1. B \notin H /\ IsFiniteSet(H) /\ B.total \in Nat /\ \A c \in H : c.total \in Nat
        BY <2>2, <2>5
      <4> HIDE DEF H
      <4> QED
        BY ONLY <4>1, TakenAdds
    <3> HIDE DEF H
    <3>3. used'[i] = used[i] + (IF B.pool = i THEN B.total ELSE 0) - (IF b.pool = i THEN b.total ELSE 0)
      BY <2>1, <2>2
    <3> QED
      BY <2>1, <2>2, <2>4, <3>1, <3>2, <3>3
  <2>10. used' \in [PoolIds -> Nat]
    BY <2>1, <2>9
  <2>11. PM!UsedIsSum'
    BY <2>9, UsedIsTaken
  <2>12. copied' \in [bytes : Nat, room : Nat, grows : BOOLEAN]
    BY <2>1, <2>2, <2>4
  <2>13. PM!GrowingCopyFits'
    <3> SUFFICES ASSUME n >= b.request, align = b.align, align <= MallocAlign
                 PROVE  b.total - b.padding <= PM!TotalSize(n, align) - PM!Padding(p, align)
      BY <2>1 DEF PM!GrowingCopyFits
    <3>1. /\ p \in Nat /\ b.at \in Nat /\ align \in Nat \ {0} /\ p % align = 0 /\ b.at % align = 0
          /\ n \in Nat /\ b.request \in Nat
      BY <2>0, <2>3, MemoryAssumption
    <3>2. PM!Padding(p, align) = PM!Padding(b.at, align) /\ PM!Padding(p, align) \in Nat
      BY <3>1, PaddingsEqual, PaddingBounds
    <3>3. /\ PM!TotalSize(n, align) = n + 5 + align
          /\ PM!TotalSize(b.request, align) = b.request + 5 + align
      BY DEF PM!TotalSize, PM!HeaderSize
    <3> QED
      BY <2>4, <3>1, <3>2, <3>3
  <2>14. PM!TypeOK'
    BY <2>7, <2>10, <2>12 DEF PM!TypeOK
  <2>15. PM!HeadersStay'
    BY <1>1, <2>7, <2>8 DEF PM!HeadersStay
  <2> QED
    BY <2>7, <2>11, <2>13, <2>14, <2>15 DEF PM!IInv
<1>4. ASSUME NEW b \in heap, PM!Release(b)
      PROVE  PM!IInv'
  <2> DEFINE H == heap \ {b}
  <2>1. heap' = H /\ used' = [used EXCEPT ![b.pool] = @ - b.total] /\ copied' = copied
    BY <1>4 DEF PM!Release
  <2>2. b.pool \in PoolIds /\ b.total \in Nat
    BY <1>0
  <2>3. ASSUME NEW i \in PoolIds
        PROVE  used'[i] \in Nat /\ used'[i] = Cardinality(PM!Taken(heap', i))
    <3>1. /\ Cardinality(PM!Taken(H, i)) \in Nat
          /\ used[i] = Cardinality(PM!Taken(H, i)) + (IF b.pool = i THEN b.total ELSE 0)
      BY HeapChanges
    <3> HIDE DEF H
    <3>2. used'[i] = used[i] - (IF b.pool = i THEN b.total ELSE 0)
      BY <1>0, <2>1, <2>2
    <3> QED
      BY <2>1, <2>2, <3>1, <3>2
  <2>4. used' \in [PoolIds -> Nat]
    BY <1>0, <2>1, <2>3
  <2>5. PM!UsedIsSum'
    BY <2>3, UsedIsTaken
  <2>6. PM!TypeOK'
    BY <1>0, <2>1, <2>4 DEF PM!TypeOK
  <2>7. IsFiniteSet(heap')
    BY <1>0, <2>1, FS_Subset
  <2>8. PM!HeadersStay'
    BY <1>1, <2>1, <2>7 DEF PM!IInv, PM!HeadersStay
  <2>9. PM!BlocksSound' /\ PM!GrowingCopyFits'
    BY <2>1 DEF PM!IInv, PM!BlocksSound, PM!GrowingCopyFits, PM!HeaderSize
  <2> QED
    BY <2>5, <2>6, <2>8, <2>9 DEF PM!IInv
<1> QED
  BY <1>2, <1>3, <1>4 DEF PM!Next

\* A pool's used bytes are those of its live blocks, and every header says where
\* its block begins, for any places, sizes and alignments (mem.cpp).
THEOREM MemoryIsAccounted == AllSpec => []PM!IInv
<1>1. AllInit => PM!IInv
  BY MemoryInit DEF AllInit
<1>2. PM!IInv /\ [AllNext]_allVars => PM!IInv'
  <2> SUFFICES ASSUME PM!IInv, [AllNext]_allVars PROVE PM!IInv'
    OBVIOUS
  <2>1. CASE PM!Next
    BY <2>1, MemoryNext
  <2>2. CASE UNCHANGED memoryVars
    <3>1. heap' = heap /\ used' = used /\ copied' = copied
      BY <2>2 DEF memoryVars
    <3> QED
      BY <3>1 DEF PM!IInv, PM!TypeOK, PM!BlocksSound, PM!UsedIsSum, PM!GrowingCopyFits, PM!HeadersStay
  <2> QED
    BY <2>1, <2>2 DEF AllNext, allVars, resourceVars
<1> QED
  BY <1>1, <1>2, PTL DEF AllSpec

-----------------------------------------------------------------------------
(* PoolAllocator.  A pool is sound by itself, and a step keeps the links of *)
(* the items of the others, which lie in other blocks.                      *)

PoolRecord == [items : 0 .. MaxItems, canGrow : BOOLEAN, blocks : Seq(Blocks), next : PA!Item \cup {Null}]
FreeItems(s) == {s[i] : i \in 1 .. Len(s)}

\* What FreeLinked and ItemsAccounted say of one pool x, its free list s and
\* what is handed out, a.
Accounted(x, lk, s, a) ==
    /\ x.next = IF Len(s) = 0 THEN Null ELSE s[1]
    /\ \A i \in 1 .. Len(s) : lk[s[i]] = IF i = Len(s) THEN Null ELSE s[i + 1]
    /\ \A i, j \in 1 .. Len(s) : s[i] = s[j] => i = j
    /\ FreeItems(s) \cap a = {}
    /\ FreeItems(s) \cup a = PA!ItemsOf(x)

LEMMA PoolsAreSound ==
  /\ PA!IInv <=> /\ PA!TypeOK
                 /\ \A p \in Pools : Accounted(pool[p], link, free[p], live[p])
                 /\ \A p, q \in Pools : p # q => PA!In(pool[p]) \cap PA!In(pool[q]) = {}
  /\ PA!IInv' <=> /\ PA!TypeOK'
                  /\ \A p \in Pools : Accounted(pool'[p], link', free'[p], live'[p])
                  /\ \A p, q \in Pools : p # q => PA!In(pool'[p]) \cap PA!In(pool'[q]) = {}
<1>1. \A s \in Seq(PA!Item) : DOMAIN s = 1 .. Len(s) /\ (s = <<>> <=> Len(s) = 0)
  BY LenProperties, EmptySeq
<1>2. ASSUME PA!TypeOK
      PROVE  PA!ItemsAccounted <=> \A p \in Pools : Accounted(pool[p], link, free[p], live[p])
  <2>1. ASSUME NEW p \in Pools
        PROVE  /\ PA!Listed(p) = FreeItems(free[p])
               /\ free[p] = <<>> <=> Len(free[p]) = 0
    BY <1>1, <1>2 DEF PA!TypeOK, PA!Listed, FreeItems
  <2> QED
    BY <2>1 DEF PA!ItemsAccounted, PA!FreeLinked, Accounted
<1>3. ASSUME PA!TypeOK'
      PROVE  PA!ItemsAccounted' <=> \A p \in Pools : Accounted(pool'[p], link', free'[p], live'[p])
  <2>1. ASSUME NEW p \in Pools
        PROVE  /\ PA!Listed(p)' = FreeItems(free'[p])
               /\ free'[p] = <<>> <=> Len(free'[p]) = 0
    BY <1>1, <1>3 DEF PA!TypeOK, PA!Listed, FreeItems
  <2> QED
    BY <2>1 DEF PA!ItemsAccounted, PA!FreeLinked, Accounted
<1> QED
  BY <1>2, <1>3 DEF PA!IInv, PA!BlocksApart

\* Links that are changed at other items only.
LEMMA AccountedElsewhere ==
  ASSUME NEW x, NEW lk, NEW lk2, NEW s, NEW a, Accounted(x, lk, s, a),
         \A i \in FreeItems(s) : lk2[i] = lk[i]
  PROVE  Accounted(x, lk2, s, a)
BY DEF Accounted, FreeItems

\* A step at pool p, which is now x, that changes links in blocks of its own.
LEMMA OnePoolChanges ==
  ASSUME PA!IInv, NEW p \in Pools, NEW x \in PoolRecord, NEW s \in Seq(PA!Item), NEW a \in SUBSET PA!Item,
         pool' = [pool EXCEPT ![p] = x], free' = [free EXCEPT ![p] = s], live' = [live EXCEPT ![p] = a],
         link' \in [PA!Item -> PA!Item \cup {Null}],
         \A i \in PA!Item : link'[i] # link[i] => i[1] \in PA!In(x),
         \A q \in Pools : q # p => PA!In(pool[q]) \cap PA!In(x) = {},
         Accounted(x, link', s, a)
  PROVE  PA!IInv'
<1>1. /\ pool \in [Pools -> PoolRecord] /\ free \in [Pools -> Seq(PA!Item)] /\ live \in [Pools -> SUBSET PA!Item]
      /\ \A q \in Pools : Accounted(pool[q], link, free[q], live[q])
      /\ \A q, r \in Pools : q # r => PA!In(pool[q]) \cap PA!In(pool[r]) = {}
  BY PoolsAreSound DEF PA!IInv, PA!TypeOK, PoolRecord
<1>2. /\ pool'[p] = x /\ free'[p] = s /\ live'[p] = a
      /\ \A q \in Pools : q # p => pool'[q] = pool[q] /\ free'[q] = free[q] /\ live'[q] = live[q]
  BY <1>1
<1>3. PA!TypeOK'
  <2>1. pool' \in [Pools -> PoolRecord] /\ free' \in [Pools -> Seq(PA!Item)] /\ live' \in [Pools -> SUBSET PA!Item]
    BY <1>1
  <2> QED
    BY <2>1 DEF PA!TypeOK, PoolRecord
<1>4. ASSUME NEW q \in Pools
      PROVE  Accounted(pool'[q], link', free'[q], live'[q])
  <2>1. CASE q = p
    BY <1>2, <2>1
  <2>2. CASE q # p
    <3>1. ASSUME NEW i \in FreeItems(free[q])
          PROVE  link'[i] = link[i]
      <4>1. i \in PA!ItemsOf(pool[q])
        BY <1>1 DEF Accounted
      <4>2. i[1] \in PA!In(pool[q])
        BY <4>1 DEF PA!ItemsOf
      <4>3. i \in PA!Item
        BY <1>1, ElementOfSeq DEF FreeItems
      <4> QED
        BY <2>2, <4>2, <4>3
    <3>2. Accounted(pool[q], link, free[q], live[q])
      BY <1>1
    <3>3. Accounted(pool[q], link', free[q], live[q])
      BY ONLY <3>1, <3>2, AccountedElsewhere
    <3> QED
      BY <1>2, <2>2, <3>3
  <2> QED
    BY <2>1, <2>2
<1>5. \A q, r \in Pools : q # r => PA!In(pool'[q]) \cap PA!In(pool'[r]) = {}
  BY <1>1, <1>2
<1> QED
  BY <1>3, <1>4, <1>5, PoolsAreSound

LEMMA NothingIsAccounted ==
  /\ PA!Default \in PoolRecord /\ PA!In(PA!Default) = {} /\ PA!ItemsOf(PA!Default) = {}
  /\ <<>> \in Seq(PA!Item) /\ Len(<<>>) = 0 /\ FreeItems(<<>>) = {}
  /\ \A lk : Accounted(PA!Default, lk, <<>>, {})
<1>1. /\ <<>> \in Seq(PA!Item) /\ <<>> \in Seq(Blocks) /\ Len(<<>>) = 0 /\ DOMAIN <<>> = {}
      /\ \A i \in 1 .. 0 : FALSE
  BY EmptySeq
<1>2. PA!Default \in PoolRecord /\ PA!Default.blocks = <<>> /\ PA!Default.next = Null
  BY <1>1, PoolsAssumption DEF PA!Default, PoolRecord
<1>3. PA!In(PA!Default) = {} /\ PA!ItemsOf(PA!Default) = {}
  BY <1>1, <1>2 DEF PA!In, PA!ItemsOf
<1>4. FreeItems(<<>>) = {}
  BY <1>1 DEF FreeItems
<1> QED
  BY <1>1, <1>2, <1>3, <1>4 DEF Accounted

\* What the invariant says of the pool p that a step is about.
LEMMA PoolFacts ==
  ASSUME PA!IInv, NEW p \in Pools
  PROVE  /\ pool \in [Pools -> PoolRecord] /\ link \in [PA!Item -> PA!Item \cup {Null}]
         /\ free \in [Pools -> Seq(PA!Item)] /\ live \in [Pools -> SUBSET PA!Item]
         /\ pool[p] \in PoolRecord /\ free[p] \in Seq(PA!Item) /\ live[p] \in SUBSET PA!Item
         /\ Len(free[p]) \in Nat /\ \A i \in 1 .. Len(free[p]) : free[p][i] \in PA!Item
         /\ Accounted(pool[p], link, free[p], live[p])
         /\ \A q \in Pools : q # p => PA!In(pool[q]) \cap PA!In(pool[p]) = {}
         /\ Null \notin PA!Item
         /\ pool[p].next = Null <=> Len(free[p]) = 0
<1>1. /\ pool \in [Pools -> PoolRecord] /\ link \in [PA!Item -> PA!Item \cup {Null}]
      /\ free \in [Pools -> Seq(PA!Item)] /\ live \in [Pools -> SUBSET PA!Item]
      /\ Accounted(pool[p], link, free[p], live[p])
      /\ \A q \in Pools : q # p => PA!In(pool[q]) \cap PA!In(pool[p]) = {}
  BY PoolsAreSound DEF PA!IInv, PA!TypeOK, PoolRecord
<1>2. Len(free[p]) \in Nat /\ \A i \in 1 .. Len(free[p]) : free[p][i] \in PA!Item
  BY <1>1, LenProperties, ElementOfSeq
<1>3. Null \notin PA!Item
  BY PoolsAssumption DEF PA!Item
<1>4. pool[p].next = Null <=> Len(free[p]) = 0
  <2>1. Len(free[p]) # 0 => 1 \in 1 .. Len(free[p])
    BY <1>2
  <2> QED
    BY <1>1, <1>2, <1>3, <2>1 DEF Accounted
<1> QED
  BY <1>1, <1>2, <1>3, <1>4

\* A block that AllocBlock made.
LEMMA ChainFacts ==
  ASSUME NEW b \in Blocks, NEW n \in 1 .. MaxItems, link \in [PA!Item -> PA!Item \cup {Null}]
  PROVE  /\ PA!Chain(b, n) \in Seq(PA!Item) /\ Len(PA!Chain(b, n)) = n
         /\ \A i \in 1 .. n : PA!Chain(b, n)[i] = <<b, i - 1>>
         /\ FreeItems(PA!Chain(b, n)) = {b} \X (0 .. n - 1)
         /\ PA!Linked(b, n) \in [PA!Item -> PA!Item \cup {Null}]
         /\ \A i \in PA!Item : PA!Linked(b, n)[i] # link[i] => i[1] = b
         /\ \A i \in 1 .. n : PA!Linked(b, n)[<<b, i - 1>>] = IF i = n THEN Null ELSE <<b, i>>
<1> DEFINE c == PA!Chain(b, n)
<1>0. n \in Nat /\ MaxItems \in Nat /\ n <= MaxItems
  BY PoolsAssumption
<1>1. \A i \in 1 .. n : i - 1 \in 0 .. n - 1 /\ i - 1 \in 0 .. MaxItems - 1 /\ <<b, i - 1>> \in PA!Item
  BY <1>0 DEF PA!Item
<1>2. c \in Seq(PA!Item) /\ Len(c) = n /\ \A i \in 1 .. n : c[i] = <<b, i - 1>>
  <2>1. c \in [1 .. n -> PA!Item] /\ \A i \in 1 .. n : c[i] = <<b, i - 1>>
    BY <1>1 DEF PA!Chain
  <2> HIDE DEF c
  <2>2. c \in Seq(PA!Item) /\ DOMAIN c = 1 .. n
    BY <1>0, <2>1
  <2> QED
    BY <1>0, <2>1, <2>2, LenProperties
<1> HIDE DEF c
<1>3. FreeItems(c) = {b} \X (0 .. n - 1)
  <2>1. \A j \in 0 .. n - 1 : j + 1 \in 1 .. n /\ (j + 1) - 1 = j
    BY <1>0
  <2>2. \A j \in 0 .. n - 1 : <<b, j>> \in FreeItems(c)
    BY <1>2, <2>1 DEF FreeItems
  <2>3. ASSUME NEW i \in 1 .. n
        PROVE  c[i] \in {b} \X (0 .. n - 1)
    <3>1. c[i] = <<b, i - 1>> /\ i - 1 \in 0 .. n - 1
      BY ONLY i \in 1 .. n, <1>1, <1>2
    <3> QED
      BY <3>1
  <2>4. FreeItems(c) \subseteq {b} \X (0 .. n - 1)
    BY <1>2, <2>3 DEF FreeItems
  <2>5. ASSUME NEW x \in {b} \X (0 .. n - 1)
        PROVE  x \in FreeItems(c)
    <3>1. x = <<b, x[2]>> /\ x[2] \in 0 .. n - 1
      OBVIOUS
    <3> QED
      BY <2>2, <3>1
  <2> QED
    BY <2>4, <2>5
<1>4. ASSUME NEW i \in PA!Item
      PROVE  /\ PA!Linked(b, n)[i] \in PA!Item \cup {Null}
             /\ PA!Linked(b, n)[i] # link[i] => i[1] = b
  <2>1. i[2] \in Nat /\ (i[2] < n - 1 => i[2] + 1 \in 0 .. MaxItems - 1)
    BY <1>0 DEF PA!Item
  <2>2. i[2] < n - 1 => <<b, i[2] + 1>> \in PA!Item
    BY <2>1 DEF PA!Item
  <2> QED
    BY <2>2 DEF PA!Linked
<1>5. PA!Linked(b, n) \in [PA!Item -> PA!Item \cup {Null}]
  <2>1. PA!Linked(b, n) = [i \in PA!Item |-> PA!Linked(b, n)[i]]
    BY DEF PA!Linked
  <2> QED
    BY <1>4, <2>1
<1>6. ASSUME NEW i \in 1 .. n
      PROVE  PA!Linked(b, n)[<<b, i - 1>>] = IF i = n THEN Null ELSE <<b, i>>
  <2>1. (i - 1 < n - 1 <=> i # n) /\ (i - 1) + 1 = i
    BY <1>0
  <2> QED
    BY <1>1, <2>1 DEF PA!Linked
<1> QED
  BY <1>2, <1>3, <1>4, <1>5, <1>6 DEF c

\* The first free item is handed out.
LEMMA PopAccounted ==
  ASSUME NEW x, NEW y, NEW lk, NEW s \in Seq(PA!Item), s # <<>>, NEW a,
         Accounted(x, lk, s, a), PA!ItemsOf(y) = PA!ItemsOf(x), y.next = lk[s[1]]
  PROVE  Accounted(y, lk, Tail(s), a \cup {s[1]})
<1> DEFINE u == Tail(s)
<1>1. /\ u \in Seq(PA!Item) /\ Len(s) \in Nat /\ Len(s) > 0 /\ Len(u) = Len(s) - 1
      /\ \A i \in 1 .. Len(s) - 1 : i + 1 \in 1 .. Len(s) /\ u[i] = s[i + 1]
  BY ShortenFacts
<1> HIDE DEF u
<1>2. /\ 1 \in 1 .. Len(s) /\ (Len(u) = 0 <=> 1 = Len(s))
      /\ Len(u) # 0 => 1 \in 1 .. Len(s) - 1 /\ 1 + 1 = 2
  BY ONLY <1>1
<1>3. y.next = IF Len(u) = 0 THEN Null ELSE u[1]
  BY <1>1, <1>2 DEF Accounted
<1>4. ASSUME NEW i \in 1 .. Len(u)
      PROVE  lk[u[i]] = IF i = Len(u) THEN Null ELSE u[i + 1]
  <2>1. /\ i \in 1 .. Len(s) - 1 /\ i + 1 \in 1 .. Len(s) /\ (i + 1 = Len(s) <=> i = Len(u))
        /\ i # Len(u) => i + 1 \in 1 .. Len(s) - 1
    BY ONLY <1>1, i \in 1 .. Len(u)
  <2>2. lk[s[i + 1]] = IF i + 1 = Len(s) THEN Null ELSE s[(i + 1) + 1]
    BY <2>1 DEF Accounted
  <2> QED
    BY ONLY <1>1, <2>1, <2>2
<1>5. ASSUME NEW i \in 1 .. Len(u), NEW j \in 1 .. Len(u), u[i] = u[j]
      PROVE  i = j
  <2>1. i + 1 \in 1 .. Len(s) /\ j + 1 \in 1 .. Len(s) /\ s[i + 1] = s[j + 1]
    BY <1>1, <1>5
  <2>2. i + 1 = j + 1
    BY <2>1 DEF Accounted
  <2> QED
    BY <1>1, <2>2
<1>6. FreeItems(s) = FreeItems(u) \cup {s[1]} /\ s[1] \notin FreeItems(u)
  <2>1. ASSUME NEW i \in 1 .. Len(s)
        PROVE  s[i] \in FreeItems(u) \cup {s[1]}
    <3>1. i = 1 \/ (i - 1 \in 1 .. Len(s) - 1 /\ (i - 1) + 1 = i)
      BY ONLY <1>1, i \in 1 .. Len(s)
    <3>2. i - 1 \in 1 .. Len(s) - 1 => u[i - 1] = s[(i - 1) + 1] /\ u[i - 1] \in FreeItems(u)
      BY <1>1 DEF FreeItems
    <3> QED
      BY <3>1, <3>2
  <2>2. ASSUME NEW i \in 1 .. Len(u)
        PROVE  u[i] \in FreeItems(s) /\ u[i] # s[1]
    <3>1. i + 1 \in 1 .. Len(s) /\ i + 1 # 1 /\ u[i] = s[i + 1]
      BY <1>1
    <3> QED
      BY <1>2, <3>1 DEF FreeItems, Accounted
  <2> QED
    BY <1>2, <2>1, <2>2 DEF FreeItems
<1> QED
  <2>1. FreeItems(u) \cap (a \cup {s[1]}) = {} /\ FreeItems(u) \cup (a \cup {s[1]}) = PA!ItemsOf(y)
    BY <1>6 DEF Accounted
  <2> QED
    BY <1>3, <1>4, <1>5, <2>1 DEF Accounted, u

\* An item comes back in front of the free ones.
LEMMA PushAccounted ==
  ASSUME NEW x, NEW y, NEW lk, NEW lk2, NEW s \in Seq(PA!Item), NEW a \in SUBSET PA!Item, NEW item \in a,
         Accounted(x, lk, s, a), PA!ItemsOf(y) = PA!ItemsOf(x), y.next = item,
         lk \in [PA!Item -> PA!Item \cup {Null}], lk2 = [lk EXCEPT ![item] = x.next]
  PROVE  Accounted(y, lk2, <<item>> \o s, a \ {item})
<1> DEFINE u == <<item>> \o s
<1>1. /\ u \in Seq(PA!Item) /\ Len(s) \in Nat /\ Len(u) = Len(s) + 1 /\ u[1] = item
      /\ \A i \in 1 .. Len(s) : i + 1 \in 1 .. Len(s) + 1 /\ u[i + 1] = s[i]
  BY PrependFacts
<1> HIDE DEF u
<1>2. \A i \in 1 .. Len(s) : s[i] \in PA!Item /\ s[i] # item
  BY ElementOfSeq DEF Accounted, FreeItems
<1>3. lk2[item] = x.next /\ \A i \in 1 .. Len(s) : lk2[s[i]] = lk[s[i]]
  BY <1>2
<1>4. ASSUME NEW i \in 1 .. Len(u)
      PROVE  i = 1 \/ (i - 1 \in 1 .. Len(s) /\ (i - 1) + 1 = i /\ u[i] = s[i - 1])
  <2>1. i = 1 \/ (i - 1 \in 1 .. Len(s) /\ (i - 1) + 1 = i)
    BY ONLY <1>1, i \in 1 .. Len(u)
  <2>2. i - 1 \in 1 .. Len(s) => u[(i - 1) + 1] = s[i - 1]
    BY <1>1
  <2> QED
    BY <2>1, <2>2
<1>5. ASSUME NEW i \in 1 .. Len(u)
      PROVE  lk2[u[i]] = IF i = Len(u) THEN Null ELSE u[i + 1]
  <2>1. CASE i = 1
    <3>1. (1 = Len(u) <=> Len(s) = 0) /\ (Len(s) # 0 => 1 \in 1 .. Len(s))
      BY ONLY <1>1
    <3> QED
      BY <1>1, <1>3, <2>1, <3>1 DEF Accounted
  <2>2. CASE i # 1
    <3> DEFINE j == i - 1
    <3>1. j \in 1 .. Len(s) /\ j + 1 = i /\ u[i] = s[j]
      BY <1>4, <2>2
    <3> HIDE DEF j
    <3>2. (j = Len(s) <=> i = Len(u)) /\ (j # Len(s) => j + 1 \in 1 .. Len(s))
      BY ONLY <1>1, <3>1
    <3>3. lk2[s[j]] = IF j = Len(s) THEN Null ELSE s[j + 1]
      BY <1>3, <3>1 DEF Accounted
    <3> QED
      BY ONLY <1>1, <3>1, <3>2, <3>3
  <2> QED
    BY <2>1, <2>2
<1>6. ASSUME NEW i \in 1 .. Len(u), NEW j \in 1 .. Len(u), u[i] = u[j]
      PROVE  i = j
  <2>1. i # 1 /\ j # 1 => i - 1 = j - 1
    <3> SUFFICES ASSUME i # 1, j # 1 PROVE i - 1 = j - 1
      OBVIOUS
    <3>1. i - 1 \in 1 .. Len(s) /\ j - 1 \in 1 .. Len(s) /\ s[i - 1] = s[j - 1]
      BY <1>4, <1>6
    <3> QED
      BY <3>1 DEF Accounted
  <2>2. ~(i = 1 /\ j # 1) /\ ~(i # 1 /\ j = 1)
    BY <1>1, <1>2, <1>4, <1>6
  <2>3. i \in Int /\ j \in Int
    OBVIOUS
  <2> QED
    BY ONLY <2>1, <2>2, <2>3
<1>7. FreeItems(u) = FreeItems(s) \cup {item}
  <2>1. 1 \in 1 .. Len(u)
    BY ONLY <1>1
  <2>2. \A i \in 1 .. Len(u) : u[i] \in FreeItems(s) \cup {item}
    BY <1>1, <1>4 DEF FreeItems
  <2>3. \A i \in 1 .. Len(s) : s[i] \in FreeItems(u)
    BY <1>1 DEF FreeItems
  <2> QED
    BY ZenonT(40), <1>1, <2>1, <2>2, <2>3 DEF FreeItems
<1> QED
  <2>1. FreeItems(u) \cap (a \ {item}) = {} /\ FreeItems(u) \cup (a \ {item}) = PA!ItemsOf(y)
    BY <1>7 DEF Accounted
  <2>2. y.next = IF Len(u) = 0 THEN Null ELSE u[1]
    BY <1>1
  <2> QED
    BY <1>5, <1>6, <2>1, <2>2 DEF Accounted, u

\* The items of a new block are free.
LEMMA FillAccounted ==
  ASSUME NEW b \in Blocks, NEW n \in 1 .. MaxItems, link \in [PA!Item -> PA!Item \cup {Null}],
         NEW x, NEW a, x.next = <<b, 0>>, PA!ItemsOf(x) = ({b} \X (0 .. n - 1)) \cup a,
         ({b} \X (0 .. n - 1)) \cap a = {}
  PROVE  Accounted(x, PA!Linked(b, n), PA!Chain(b, n), a)
<1> DEFINE c == PA!Chain(b, n)
<1>1. /\ c \in Seq(PA!Item) /\ Len(c) = n /\ \A i \in 1 .. n : c[i] = <<b, i - 1>>
      /\ FreeItems(c) = {b} \X (0 .. n - 1)
      /\ \A i \in 1 .. n : PA!Linked(b, n)[<<b, i - 1>>] = IF i = n THEN Null ELSE <<b, i>>
  BY ChainFacts
<1> HIDE DEF c
<1>2. n \in Nat /\ n # 0 /\ 1 \in 1 .. n /\ 1 - 1 = 0
  BY PoolsAssumption
<1>3. x.next = IF Len(c) = 0 THEN Null ELSE c[1]
  BY <1>1, <1>2
<1>4. ASSUME NEW i \in 1 .. n
      PROVE  PA!Linked(b, n)[c[i]] = IF i = n THEN Null ELSE c[i + 1]
  <2>1. i # n => i + 1 \in 1 .. n /\ (i + 1) - 1 = i
    BY <1>2
  <2>2. i # n => c[i + 1] = <<b, i>>
    BY ONLY <1>1, <2>1
  <2> QED
    BY <1>1, <2>2
<1>5. ASSUME NEW i \in 1 .. n, NEW j \in 1 .. n, c[i] = c[j]
      PROVE  i = j
  <2>1. <<b, i - 1>> = <<b, j - 1>>
    BY <1>1, <1>5
  <2>2. i - 1 = j - 1
    BY <2>1
  <2> QED
    BY <1>2, <2>2
<1> QED
  BY <1>1, <1>3, <1>4, <1>5 DEF Accounted, c

\* Two default pools are sound.
LEMMA PoolsInit ==
  ASSUME PA!Init
  PROVE  PA!IInv
<1>1. /\ pool = [p \in Pools |-> PA!Default] /\ live = [p \in Pools |-> {}] /\ free = [p \in Pools |-> <<>>]
      /\ link \in [PA!Item -> PA!Item \cup {Null}]
  BY DEF PA!Init
<1>2. PA!TypeOK
  <2>1. pool \in [Pools -> PoolRecord] /\ free \in [Pools -> Seq(PA!Item)] /\ live \in [Pools -> SUBSET PA!Item]
    BY <1>1, NothingIsAccounted
  <2> QED
    BY <1>1, <2>1 DEF PA!TypeOK, PoolRecord
<1>3. \A p \in Pools : Accounted(pool[p], link, free[p], live[p]) /\ PA!In(pool[p]) = {}
  BY <1>1, NothingIsAccounted
<1> QED
  BY <1>2, <1>3, PoolsAreSound

\* A pool with items and no block yet, and one with its only block.
LEMMA InitSound ==
  ASSUME PA!IInv, NEW p \in Pools, NEW n \in 1 .. MaxItems, NEW grow \in BOOLEAN, PA!DoInit(p, n, grow)
  PROVE  PA!IInv'
<1>0. /\ pool \in [Pools -> PoolRecord] /\ link \in [PA!Item -> PA!Item \cup {Null}]
      /\ free \in [Pools -> Seq(PA!Item)] /\ live \in [Pools -> SUBSET PA!Item]
      /\ Accounted(pool[p], link, free[p], live[p])
      /\ \A q \in Pools : q # p => PA!In(pool[q]) \cap PA!In(pool[p]) = {}
      /\ pool[p].next = Null <=> Len(free[p]) = 0
  BY PoolFacts
<1>1. pool[p] = PA!Default /\ live' = live
  BY DEF PA!DoInit
<1>2. free[p] = <<>> /\ live[p] = {}
  <2>1. PA!Default.next = Null /\ PA!ItemsOf(PA!Default) = {}
    BY NothingIsAccounted DEF PA!Default
  <2>2. Len(free[p]) = 0 /\ live[p] = {}
    BY <1>0, <1>1, <2>1 DEF Accounted
  <2> QED
    BY <1>0, <2>2, EmptySeq
<1>3. live' = [live EXCEPT ![p] = {}]
  BY <1>0, <1>1, <1>2
<1>4. n \in 0 .. MaxItems
  BY PoolsAssumption
<1>5. CASE grow
  <2> DEFINE x == [PA!Default EXCEPT !.items = n]
  <2>1. x \in PoolRecord /\ x.next = Null /\ x.blocks = <<>>
    BY <1>4, NothingIsAccounted DEF PoolRecord, PA!Default
  <2>2. pool' = [pool EXCEPT ![p] = x]
    BY <1>0, <1>1, <1>5 DEF PA!DoInit
  <2>3. link' = link /\ free' = [free EXCEPT ![p] = <<>>]
    BY <1>0, <1>2, <1>5 DEF PA!DoInit
  <2> HIDE DEF x
  <2>4. PA!In(x) = {} /\ PA!ItemsOf(x) = {}
    <3>1. PA!In(x) = {}
      BY <2>1, NothingIsAccounted DEF PA!In, PA!Default
    <3> QED
      BY <3>1 DEF PA!ItemsOf
  <2>5. /\ <<>> \in Seq(PA!Item) /\ Len(<<>>) = 0 /\ FreeItems(<<>>) = {}
        /\ \A i \in 1 .. 0 : FALSE
    BY NothingIsAccounted
  <2>6. Accounted(x, link', <<>>, {})
    BY <2>1, <2>4, <2>5 DEF Accounted
  <2>7. /\ link' \in [PA!Item -> PA!Item \cup {Null}]
        /\ \A i \in PA!Item : link'[i] # link[i] => i[1] \in PA!In(x)
        /\ \A q \in Pools : q # p => PA!In(pool[q]) \cap PA!In(x) = {}
        /\ {} \in SUBSET PA!Item
    BY <1>0, <2>3, <2>4
  <2> QED
    BY ONLY PA!IInv, p \in Pools, <1>3, <2>1, <2>2, <2>3, <2>5, <2>6, <2>7, OnePoolChanges
<1>6. CASE ~grow
  <2>1. PICK b \in PA!Unused :
               /\ pool' = [pool EXCEPT ![p] = [items |-> n, canGrow |-> FALSE, blocks |-> <<b>>, next |-> <<b, 0>>]]
               /\ link' = PA!Linked(b, n)
               /\ free' = [free EXCEPT ![p] = PA!Chain(b, n)]
    BY <1>6 DEF PA!DoInit
  <2>2. b \in Blocks /\ \A q \in Pools : b \notin PA!In(pool[q])
    BY DEF PA!Unused
  <2> DEFINE x == [items |-> n, canGrow |-> FALSE, blocks |-> <<b>>, next |-> <<b, 0>>]
  <2>3. x \in PoolRecord /\ x.next = <<b, 0>> /\ x.items = n /\ x.blocks = <<b>>
    <3>1. 0 \in 0 .. MaxItems - 1 /\ <<b, 0>> \in PA!Item
      BY <2>2, PoolsAssumption DEF PA!Item
    <3> QED
      BY <1>4, <2>2, <3>1 DEF PoolRecord
  <2>4. pool' = [pool EXCEPT ![p] = x]
    BY <2>1
  <2> HIDE DEF x
  <2>5. PA!In(x) = {b}
    <3>1. DOMAIN <<b>> = {1} /\ <<b>>[1] = b
      OBVIOUS
    <3> QED
      BY <2>3, <3>1 DEF PA!In
  <2>6. PA!ItemsOf(x) = ({b} \X (0 .. n - 1)) \cup {}
    BY <2>3, <2>5 DEF PA!ItemsOf
  <2>7. Accounted(x, PA!Linked(b, n), PA!Chain(b, n), {})
    BY <1>0, <2>2, <2>3, <2>6, FillAccounted
  <2>8. /\ PA!Chain(b, n) \in Seq(PA!Item)
        /\ PA!Linked(b, n) \in [PA!Item -> PA!Item \cup {Null}]
        /\ \A i \in PA!Item : PA!Linked(b, n)[i] # link[i] => i[1] = b
    BY <1>0, <2>2, ChainFacts
  <2>9. /\ \A i \in PA!Item : link'[i] # link[i] => i[1] \in PA!In(x)
        /\ \A q \in Pools : q # p => PA!In(pool[q]) \cap PA!In(x) = {}
        /\ {} \in SUBSET PA!Item
        /\ link' \in [PA!Item -> PA!Item \cup {Null}]
        /\ Accounted(x, link', PA!Chain(b, n), {})
        /\ free' = [free EXCEPT ![p] = PA!Chain(b, n)]
    BY <2>1, <2>2, <2>5, <2>7, <2>8
  <2> HIDE DEF x
  <2> QED
    BY ONLY PA!IInv, p \in Pools, <1>3, <2>3, <2>4, <2>8, <2>9, OnePoolChanges
<1> QED
  BY <1>5, <1>6

\* What one pool had is the other's now.
LEMMA MoveAccounted ==
  ASSUME PA!IInv, NEW p \in Pools, NEW q \in Pools, PA!Move(p, q)
  PROVE  PA!IInv'
<1>0. /\ PA!TypeOK /\ pool \in [Pools -> PoolRecord] /\ link \in [PA!Item -> PA!Item \cup {Null}]
      /\ free \in [Pools -> Seq(PA!Item)] /\ live \in [Pools -> SUBSET PA!Item]
      /\ \A r \in Pools : Accounted(pool[r], link, free[r], live[r])
      /\ \A r, t \in Pools : r # t => PA!In(pool[r]) \cap PA!In(pool[t]) = {}
  BY PoolsAreSound DEF PA!IInv, PA!TypeOK, PoolRecord
<1>1. /\ p # q /\ link' = link
      /\ pool' = [pool EXCEPT ![p] = pool[q], ![q] = PA!Default]
      /\ live' = [live EXCEPT ![p] = live[q], ![q] = {}]
      /\ free' = [free EXCEPT ![p] = free[q], ![q] = <<>>]
  BY DEF PA!Move
<1>2. /\ pool'[p] = pool[q] /\ live'[p] = live[q] /\ free'[p] = free[q]
      /\ pool'[q] = PA!Default /\ live'[q] = {} /\ free'[q] = <<>>
      /\ \A r \in Pools : r # p /\ r # q => pool'[r] = pool[r] /\ live'[r] = live[r] /\ free'[r] = free[r]
  BY <1>0, <1>1
<1>3. PA!TypeOK'
  <2>1. pool' \in [Pools -> PoolRecord] /\ free' \in [Pools -> Seq(PA!Item)] /\ live' \in [Pools -> SUBSET PA!Item]
    BY <1>0, <1>1, NothingIsAccounted
  <2> QED
    BY <1>0, <1>1, <2>1 DEF PA!TypeOK, PoolRecord
<1>4. ASSUME NEW r \in Pools
      PROVE  Accounted(pool'[r], link', free'[r], live'[r])
  BY <1>0, <1>1, <1>2, NothingIsAccounted
<1>5. ASSUME NEW r \in Pools, NEW t \in Pools, r # t
      PROVE  PA!In(pool'[r]) \cap PA!In(pool'[t]) = {}
  BY <1>0, <1>2, <1>5, NothingIsAccounted
<1> QED
  BY <1>3, <1>4, <1>5, PoolsAreSound

\* Nothing happens to the pools.
LEMMA PoolsStay ==
  ASSUME PA!IInv, UNCHANGED PA!vars
  PROVE  PA!IInv'
<1>1. pool' = pool /\ link' = link /\ live' = live /\ free' = free
  BY DEF PA!vars
<1>2. PA!TypeOK'
  BY <1>1 DEF PA!IInv, PA!TypeOK, PA!Item
<1> QED
  BY <1>1, <1>2, PoolsAreSound

\* The next item is given, from the free list or from a new block.
LEMMA AllocAccounted ==
  ASSUME PA!IInv, NEW p \in Pools, PA!Alloc(p)
  PROVE  PA!IInv'
<1>0. /\ pool \in [Pools -> PoolRecord] /\ link \in [PA!Item -> PA!Item \cup {Null}]
      /\ free \in [Pools -> Seq(PA!Item)] /\ live \in [Pools -> SUBSET PA!Item]
      /\ pool[p] \in PoolRecord /\ free[p] \in Seq(PA!Item) /\ live[p] \in SUBSET PA!Item
      /\ Len(free[p]) \in Nat /\ \A i \in 1 .. Len(free[p]) : free[p][i] \in PA!Item
      /\ Accounted(pool[p], link, free[p], live[p])
      /\ \A q \in Pools : q # p => PA!In(pool[q]) \cap PA!In(pool[p]) = {}
      /\ pool[p].next = Null <=> Len(free[p]) = 0
  BY PoolFacts
<1> DEFINE n == pool[p].items
<1>1. n \in 1 .. MaxItems
  BY <1>0, PoolsAssumption DEF PA!Alloc, PoolRecord
<1>2. CASE pool[p].next # Null
  <2>1. /\ Len(free[p]) # 0 /\ free[p] # <<>> /\ 1 \in 1 .. Len(free[p])
        /\ pool[p].next = free[p][1] /\ free[p][1] \in PA!Item
    <3>1. Len(free[p]) # 0 /\ free[p] # <<>> /\ 1 \in 1 .. Len(free[p])
      BY <1>0, <1>2, EmptySeq
    <3> QED
      BY <1>0, <3>1 DEF Accounted
  <2> DEFINE item == free[p][1]
             x == [pool[p] EXCEPT !.next = link[item]]
             s == Tail(free[p])
             a == live[p] \cup {item}
  <2>2. /\ pool' = [pool EXCEPT ![p] = x] /\ live' = [live EXCEPT ![p] = a]
        /\ free' = [free EXCEPT ![p] = s] /\ link' = link
    BY <1>0, <1>2, <2>1 DEF PA!Alloc, PA!Pop
  <2>3. x \in PoolRecord /\ x.next = link[item] /\ x.items = pool[p].items /\ x.blocks = pool[p].blocks
    <3>1. link[item] \in PA!Item \cup {Null}
      BY <1>0, <2>1
    <3> QED
      BY <1>0, <3>1 DEF PoolRecord
  <2>4. s \in Seq(PA!Item) /\ a \in SUBSET PA!Item
    BY <1>0, <2>1, ShortenFacts
  <2> HIDE DEF x
  <2>5. PA!In(x) = PA!In(pool[p]) /\ PA!ItemsOf(x) = PA!ItemsOf(pool[p])
    BY <2>3 DEF PA!In, PA!ItemsOf
  <2>6. Accounted(x, link', s, a)
    BY <1>0, <2>1, <2>2, <2>3, <2>5, PopAccounted
  <2> HIDE DEF s, a, item
  <2>7. /\ link' \in [PA!Item -> PA!Item \cup {Null}]
        /\ \A i \in PA!Item : link'[i] # link[i] => i[1] \in PA!In(x)
        /\ \A q \in Pools : q # p => PA!In(pool[q]) \cap PA!In(x) = {}
    BY <1>0, <2>2, <2>5
  <2> QED
    BY ONLY PA!IInv, p \in Pools, <2>2, <2>3, <2>4, <2>6, <2>7, OnePoolChanges
<1>3. CASE pool[p].next = Null /\ pool[p].canGrow
  <2>1. PICK b \in PA!Unused : PA!PopNew(p, b)
    BY <1>3 DEF PA!Alloc
  <2>2. b \in Blocks /\ \A q \in Pools : b \notin PA!In(pool[q])
    BY DEF PA!Unused
  <2> DEFINE new == PA!Linked(b, n)
             c == PA!Chain(b, n)
             bl == <<b>> \o pool[p].blocks
             x == [pool[p] EXCEPT !.blocks = bl, !.next = new[<<b, 0>>]]
             z == [pool[p] EXCEPT !.blocks = bl, !.next = <<b, 0>>]
             a == live[p] \cup {<<b, 0>>}
  <2>3. /\ pool' = [pool EXCEPT ![p] = x] /\ live' = [live EXCEPT ![p] = a]
        /\ free' = [free EXCEPT ![p] = Tail(c)] /\ link' = new
    BY <1>0, <2>1 DEF PA!PopNew
  <2> HIDE DEF n
  <2>4. /\ c \in Seq(PA!Item) /\ Len(c) = n /\ c[1] = <<b, 0>> /\ c # <<>>
        /\ new \in [PA!Item -> PA!Item \cup {Null}]
        /\ \A i \in PA!Item : new[i] # link[i] => i[1] = b
    <3>1. /\ c \in Seq(PA!Item) /\ Len(c) = n /\ \A i \in 1 .. n : c[i] = <<b, i - 1>>
          /\ new \in [PA!Item -> PA!Item \cup {Null}]
          /\ \A i \in PA!Item : new[i] # link[i] => i[1] = b
      BY <1>0, <1>1, <2>2, ChainFacts
    <3> HIDE DEF c
    <3>2. 1 \in 1 .. n /\ 1 - 1 = 0 /\ n # 0
      BY <1>1, PoolsAssumption
    <3>3. c[1] = <<b, 1 - 1>>
      BY <3>1, <3>2
    <3> QED
      BY <3>1, <3>2, <3>3, EmptySeq
  <2> HIDE DEF c, new
  <2>5. <<b, 0>> \in PA!Item
    <3>1. 0 \in 0 .. MaxItems - 1
      BY <1>1, PoolsAssumption
    <3> QED
      BY <2>2, <3>1 DEF PA!Item
  <2>6. /\ pool[p].blocks \in Seq(Blocks) /\ bl \in Seq(Blocks) /\ bl[1] = b
        /\ Len(pool[p].blocks) \in Nat /\ Len(bl) = Len(pool[p].blocks) + 1
        /\ \A i \in 1 .. Len(pool[p].blocks) : i + 1 \in 1 .. Len(bl) /\ bl[i + 1] = pool[p].blocks[i]
    <3>1. pool[p].blocks \in Seq(Blocks)
      BY <1>0 DEF PoolRecord
    <3>2. /\ bl \in Seq(Blocks) /\ bl[1] = b
          /\ Len(pool[p].blocks) \in Nat /\ Len(bl) = Len(pool[p].blocks) + 1
          /\ \A i \in 1 .. Len(pool[p].blocks) : i + 1 \in 1 .. Len(pool[p].blocks) + 1 /\ bl[i + 1] = pool[p].blocks[i]
      BY <2>2, <3>1, PrependFacts
    <3> QED
      BY <3>1, <3>2
  <2> HIDE DEF bl
  <2>7. /\ x \in PoolRecord /\ x.next = new[<<b, 0>>] /\ x.items = n /\ x.blocks = bl
        /\ z.next = <<b, 0>> /\ z.items = n /\ z.blocks = bl
    <3>1. new[<<b, 0>>] \in PA!Item \cup {Null}
      BY <2>4, <2>5
    <3> QED
      BY <1>0, <2>6, <3>1 DEF PoolRecord, n
  <2> HIDE DEF x, z
  <2>8. PA!In(x) = {b} \cup PA!In(pool[p])
    <3>1. DOMAIN bl = 1 .. Len(bl) /\ DOMAIN pool[p].blocks = 1 .. Len(pool[p].blocks)
      BY <2>6, LenProperties
    <3>2. ASSUME NEW i \in 1 .. Len(bl)
          PROVE  bl[i] \in {b} \cup PA!In(pool[p])
      <4>1. i = 1 \/ (i - 1 \in 1 .. Len(pool[p].blocks) /\ (i - 1) + 1 = i)
        BY ONLY <2>6, i \in 1 .. Len(bl)
      <4>2. i - 1 \in 1 .. Len(pool[p].blocks) => bl[(i - 1) + 1] = pool[p].blocks[i - 1]
        BY <2>6
      <4> QED
        BY <2>6, <3>1, <4>1, <4>2 DEF PA!In
    <3>3. 1 \in 1 .. Len(bl)
      BY ONLY <2>6
    <3>4. \A i \in 1 .. Len(pool[p].blocks) : pool[p].blocks[i] \in PA!In(x)
      BY <2>6, <2>7, <3>1 DEF PA!In
    <3>5. PA!In(x) = {bl[i] : i \in 1 .. Len(bl)}
      BY <2>7, <3>1 DEF PA!In
    <3>6. PA!In(pool[p]) = {pool[p].blocks[i] : i \in 1 .. Len(pool[p].blocks)}
      BY <3>1 DEF PA!In
    <3>7. PA!In(x) \subseteq {b} \cup PA!In(pool[p])
      BY ONLY <3>2, <3>5
    <3>8. PA!In(pool[p]) \subseteq PA!In(x)
      BY ONLY <3>4, <3>6
    <3>9. b \in PA!In(x)
      BY <2>6, <3>3, <3>5
    <3> QED
      BY <3>7, <3>8, <3>9
  <2>9. free[p] = <<>> /\ live[p] = PA!ItemsOf(pool[p])
    <3>1. Len(free[p]) = 0 /\ FreeItems(free[p]) = {}
      BY <1>0, <1>3 DEF FreeItems
    <3> QED
      BY <1>0, <3>1, EmptySeq DEF Accounted
  <2>10. /\ PA!ItemsOf(z) = ({b} \X (0 .. n - 1)) \cup live[p]
         /\ ({b} \X (0 .. n - 1)) \cap live[p] = {}
         /\ PA!ItemsOf(x) = PA!ItemsOf(z)
    <3>1. PA!In(z) = PA!In(x)
      BY <2>7 DEF PA!In
    <3>2. live[p] = PA!In(pool[p]) \X (0 .. n - 1)
      BY <2>9 DEF PA!ItemsOf, n
    <3>3. PA!ItemsOf(z) = ({b} \cup PA!In(pool[p])) \X (0 .. n - 1) /\ PA!ItemsOf(x) = PA!ItemsOf(z)
      BY <2>7, <2>8, <3>1 DEF PA!ItemsOf
    <3> QED
      BY <2>2, <3>2, <3>3
  <2>11. Accounted(z, new, c, live[p])
    BY <1>0, <1>1, <2>2, <2>7, <2>10, FillAccounted DEF new, c
  <2>12. Accounted(x, new, Tail(c), a)
    <3>1. x.next = new[c[1]]
      BY <2>4, <2>7
    <3>2. Accounted(x, new, Tail(c), live[p] \cup {c[1]})
      BY ONLY <2>4, <2>10, <2>11, <3>1, PopAccounted
    <3> QED
      BY <2>4, <3>2
  <2>13. Tail(c) \in Seq(PA!Item) /\ a \in SUBSET PA!Item
    BY <1>0, <2>4, <2>5, ShortenFacts
  <2> HIDE DEF a
  <2>14. /\ link' \in [PA!Item -> PA!Item \cup {Null}]
         /\ \A i \in PA!Item : link'[i] # link[i] => i[1] \in PA!In(x)
         /\ \A q \in Pools : q # p => PA!In(pool[q]) \cap PA!In(x) = {}
         /\ Accounted(x, link', Tail(c), a)
    <3>1. link' = new
      BY <2>3
    <3>2. \A q \in Pools : q # p => PA!In(pool[q]) \cap PA!In(x) = {}
      BY <1>0, <2>2, <2>8
    <3> QED
      BY <2>4, <2>8, <2>12, <3>1, <3>2
  <2> QED
    BY ONLY PA!IInv, p \in Pools, <2>3, <2>7, <2>13, <2>14, OnePoolChanges
<1>4. CASE pool[p].next = Null /\ ~pool[p].canGrow
  <2>1. UNCHANGED PA!vars
    BY <1>4 DEF PA!Alloc
  <2> QED
    BY <2>1, PoolsStay
<1> QED
  BY <1>2, <1>3, <1>4

\* An item is given back.
LEMMA GiveBackAccounted ==
  ASSUME PA!IInv, NEW p \in Pools, NEW item \in PA!Item, PA!GiveBack(p, item)
  PROVE  PA!IInv'
<1>0. /\ pool \in [Pools -> PoolRecord] /\ link \in [PA!Item -> PA!Item \cup {Null}]
      /\ free \in [Pools -> Seq(PA!Item)] /\ live \in [Pools -> SUBSET PA!Item]
      /\ pool[p] \in PoolRecord /\ free[p] \in Seq(PA!Item) /\ live[p] \in SUBSET PA!Item
      /\ Accounted(pool[p], link, free[p], live[p])
      /\ \A q \in Pools : q # p => PA!In(pool[q]) \cap PA!In(pool[p]) = {}
  BY PoolFacts
<1> DEFINE x == [pool[p] EXCEPT !.next = item]
           s == <<item>> \o free[p]
           a == live[p] \ {item}
<1>1. /\ item \in live[p] /\ link' = [link EXCEPT ![item] = pool[p].next]
      /\ pool' = [pool EXCEPT ![p] = x] /\ live' = [live EXCEPT ![p] = a] /\ free' = [free EXCEPT ![p] = s]
  BY <1>0 DEF PA!GiveBack
<1>2. x \in PoolRecord /\ x.next = item /\ x.items = pool[p].items /\ x.blocks = pool[p].blocks
  BY <1>0 DEF PoolRecord
<1>3. s \in Seq(PA!Item) /\ a \in SUBSET PA!Item
  BY <1>0, PrependFacts
<1> HIDE DEF x
<1>4. PA!In(x) = PA!In(pool[p]) /\ PA!ItemsOf(x) = PA!ItemsOf(pool[p])
  BY <1>2 DEF PA!In, PA!ItemsOf
<1>5. Accounted(x, link', s, a)
  <2>1. /\ free[p] \in Seq(PA!Item) /\ live[p] \in SUBSET PA!Item /\ item \in live[p]
        /\ Accounted(pool[p], link, free[p], live[p])
        /\ PA!ItemsOf(x) = PA!ItemsOf(pool[p]) /\ x.next = item
        /\ link \in [PA!Item -> PA!Item \cup {Null}] /\ link' = [link EXCEPT ![item] = pool[p].next]
    BY <1>0, <1>1, <1>2, <1>4
  <2>2. Accounted(x, link', <<item>> \o free[p], live[p] \ {item})
    BY ONLY ZenonT(40), <2>1, PushAccounted
  <2> QED
    BY <2>2
<1> HIDE DEF s, a
<1>6. item[1] \in PA!In(x)
  <2>1. item \in PA!ItemsOf(pool[p])
    BY <1>0, <1>1 DEF Accounted
  <2> QED
    BY <1>4, <2>1 DEF PA!ItemsOf
<1>7. /\ link' \in [PA!Item -> PA!Item \cup {Null}]
      /\ \A i \in PA!Item : link'[i] # link[i] => i[1] \in PA!In(x)
      /\ \A q \in Pools : q # p => PA!In(pool[q]) \cap PA!In(x) = {}
  <2>1. pool[p].next \in PA!Item \cup {Null}
    BY <1>0 DEF PoolRecord
  <2> QED
    BY <1>0, <1>1, <1>4, <1>6, <2>1
<1> QED
  BY ONLY PA!IInv, p \in Pools, <1>1, <1>2, <1>3, <1>5, <1>7, OnePoolChanges

\* Every step of the pool allocators keeps their invariant.
LEMMA PoolsNext ==
  ASSUME PA!IInv, PA!Next
  PROVE  PA!IInv'
<1>1. PICK p \in Pools : \/ \E n \in 1 .. MaxItems, grow \in BOOLEAN : PA!DoInit(p, n, grow)
                         \/ \E q \in Pools : PA!Move(p, q)
                         \/ PA!Alloc(p)
                         \/ \E item \in PA!Item : PA!GiveBack(p, item)
  BY DEF PA!Next
<1>2. CASE \E n \in 1 .. MaxItems, grow \in BOOLEAN : PA!DoInit(p, n, grow)
  BY <1>2, InitSound
<1>3. CASE \E q \in Pools : PA!Move(p, q)
  BY <1>3, MoveAccounted
<1>4. CASE PA!Alloc(p)
  BY <1>4, AllocAccounted
<1>5. CASE \E item \in PA!Item : PA!GiveBack(p, item)
  BY <1>5, GiveBackAccounted
<1> QED
  BY <1>1, <1>2, <1>3, <1>4, <1>5

\* Every item of a pool's blocks is handed out or in its free list, once, for any
\* blocks and items (pool_allocator.cpp).
THEOREM PoolItemsAreAccounted == AllSpec => []PA!IInv
<1>1. AllInit => PA!IInv
  BY PoolsInit DEF AllInit
<1>2. PA!IInv /\ [AllNext]_allVars => PA!IInv'
  <2> SUFFICES ASSUME PA!IInv, [AllNext]_allVars PROVE PA!IInv'
    OBVIOUS
  <2>1. CASE PA!Next
    BY <2>1, PoolsNext
  <2>2. CASE UNCHANGED poolVars
    BY <2>2, PoolsStay DEF poolVars, PA!vars
  <2> QED
    BY <2>1, <2>2 DEF AllNext, allVars, resourceVars
<1> QED
  BY <1>1, <1>2, PTL DEF AllSpec

\* The three allocators together.
THEOREM AllocationsStaySound == AllSpec => []AllocationsAreSound
BY ChunksAreSound, MemoryIsAccounted, PoolItemsAreAccounted, PTL DEF AllocationsAreSound

-----------------------------------------------------------------------------
(* IntrusivePtr.  Whatever is done changes what one pointer holds, and     *)
(* what it gives up is next until it has been counted down.                *)

Edges == [IP!Pointers -> Objects \cup {Null}]
HoldersOf(h, o) == {p \in IP!Pointers : h[p] = o}
IfEqual(a, b) == IF a = b THEN 1 ELSE 0

Pointing(h, p, x) == [h EXCEPT ![p] = x]

\* A pointer that changes is one of the new object's and none of the old one's.
LEMMA HoldersChange ==
  ASSUME NEW h \in Edges, NEW p \in IP!Pointers, NEW x \in Objects \cup {Null}, NEW o \in Objects
  PROVE  /\ Pointing(h, p, x) \in Edges
         /\ Cardinality(HoldersOf(h, o)) \in Nat /\ Cardinality(HoldersOf(Pointing(h, p, x), o)) \in Nat
         /\ Cardinality(HoldersOf(Pointing(h, p, x), o)) =
               Cardinality(HoldersOf(h, o)) + IfEqual(x, o) - IfEqual(h[p], o)
<1> DEFINE g == Pointing(h, p, x)
           A == HoldersOf(h, o)
           B == HoldersOf(g, o)
           R == A \ {p}
<1>1. IsFiniteSet(A) /\ IsFiniteSet(B) /\ IsFiniteSet(R)
  <2>1. IsFiniteSet(IP!Pointers)
    BY PointersAssumption, FS_Union DEF IP!Pointers
  <2> QED
    BY <2>1, FS_Subset DEF HoldersOf
<1>2. g \in Edges /\ g[p] = x /\ \A q \in IP!Pointers \ {p} : g[q] = h[q]
  BY DEF Edges, Pointing
<1> HIDE DEF g
<1>3. p \notin R /\ A = (IF h[p] = o THEN R \cup {p} ELSE R) /\ B = (IF x = o THEN R \cup {p} ELSE R)
  BY <1>2 DEF HoldersOf
<1>4. /\ Cardinality(R) \in Nat /\ Cardinality(R \cup {p}) = Cardinality(R) + 1
      /\ Cardinality(A) \in Nat /\ Cardinality(B) \in Nat
  BY <1>1, <1>3, FS_CardinalityType, FS_AddElement
<1> HIDE DEF A, B, R
<1>5. Cardinality(B) = Cardinality(A) + IfEqual(x, o) - IfEqual(h[p], o)
  <2>1. Cardinality(A) = Cardinality(R) + IfEqual(h[p], o)
    BY <1>3, <1>4 DEF IfEqual
  <2>2. Cardinality(B) = Cardinality(R) + IfEqual(x, o)
    BY <1>3, <1>4 DEF IfEqual
  <2> QED
    BY <1>4, <2>1, <2>2 DEF IfEqual
<1> QED
  BY <1>2, <1>4, <1>5 DEF A, B, g

\* What one pointer gets from another leaves each object's number alone.
LEMMA HoldersMove ==
  ASSUME NEW f \in Edges, NEW p \in IP!Pointers, NEW q \in IP!Pointers, p # q, NEW o \in Objects
  PROVE  /\ Cardinality(HoldersOf(f, o)) \in Nat
         /\ Cardinality(HoldersOf(Pointing(Pointing(f, p, f[q]), q, Null), o)) =
               Cardinality(HoldersOf(f, o)) - IfEqual(f[p], o)
<1> DEFINE x == f[q]
           g == Pointing(f, p, x)
<1>1. x \in Objects \cup {Null} /\ Null \in Objects \cup {Null}
  BY DEF Edges
<1>2. /\ g \in Edges
      /\ Cardinality(HoldersOf(f, o)) \in Nat /\ Cardinality(HoldersOf(g, o)) \in Nat
      /\ Cardinality(HoldersOf(g, o)) = Cardinality(HoldersOf(f, o)) + IfEqual(x, o) - IfEqual(f[p], o)
  <2> HIDE DEF x
  <2> QED
    BY <1>1, HoldersChange
<1>3. g[q] = x
  BY DEF Edges, Pointing
<1> HIDE DEF g
<1>4. Cardinality(HoldersOf(Pointing(g, q, Null), o)) =
         Cardinality(HoldersOf(g, o)) + IfEqual(Null, o) - IfEqual(g[q], o)
  BY <1>1, <1>2, HoldersChange
<1>5. IfEqual(f[p], o) \in Nat /\ IfEqual(x, o) \in Nat /\ IfEqual(Null, o) = 0
  BY PointersAssumption DEF IfEqual
<1>6. /\ Cardinality(HoldersOf(f, o)) \in Nat
      /\ Cardinality(HoldersOf(Pointing(g, q, Null), o)) = Cardinality(HoldersOf(f, o)) - IfEqual(f[p], o)
  <2> HIDE DEF x
  <2> QED
    BY <1>2, <1>3, <1>4, <1>5
<1> QED
  BY <1>6 DEF g

\* What CountsPointers says, for the pointers as they are held.
Counting(h, n, r, there) ==
    \A o \in Objects : /\ r[o] = Cardinality(HoldersOf(h, o)) + IfEqual(n, o)
                       /\ o \in there <=> r[o] > 0
LEMMA CountsPointersIs ==
  /\ IP!CountsPointers <=> ~ misused /\ Counting(IP!Held, release.next, refs, objects)
  /\ IP!CountsPointers' <=> ~ misused' /\ Counting(IP!Held', release'.next, refs', objects')
<1>1. \A X : IP!Cardinality(X) = Cardinality(X)
  BY DEF IP!Cardinality, Cardinality
<1>2. IP!CountsPointers <=> ~ misused /\ Counting(IP!Held, release.next, refs, objects)
  BY <1>1 DEF IP!CountsPointers, IP!Owners, Counting, HoldersOf, IfEqual
<1>3. IP!CountsPointers' <=> ~ misused' /\ Counting(IP!Held', release'.next, refs', objects')
  BY <1>1 DEF IP!CountsPointers, IP!Owners, IP!Pointers, Counting, HoldersOf, IfEqual
<1> QED
  BY <1>2, <1>3

\* Fewer members that point somewhere make no cycle.
LEMMA FewerEdges ==
  ASSUME NEW f, NEW g, IP!Acyclic(f), \A o \in Objects : g[o] = f[o] \/ g[o] = Null
  PROVE  IP!Acyclic(g)
BY PointersAssumption DEF IP!Acyclic

\* What a member leads to does not lead back to it: otherwise, all objects
\* that lead to it would lead to objects that do.
LEMMA ChainLeaves ==
  ASSUME points \in Edges, IP!Acyclic(points), NEW p \in IP!Pointers
  PROVE  \E W \in SUBSET Objects : IP!Owned(W) /\ p \notin W /\ points[p] \in W \cup {Null}
<1>1. CASE points[p] = Null
  <2>1. {} \in SUBSET Objects /\ IP!Owned({}) /\ p \notin {} /\ points[p] \in {} \cup {Null}
    BY <1>1 DEF IP!Owned
  <2> QED
    BY <2>1
<1>2. CASE p \in Locals
  <2>1. IP!Owned(Objects) /\ p \notin Objects /\ points[p] \in Objects \cup {Null}
    BY <1>2, PointersAssumption DEF IP!Owned, Edges, IP!Pointers
  <2> QED
    BY <2>1
<1>3. CASE p \in Objects /\ points[p] \in Objects
  <2> DEFINE Leads(x) == \A W \in SUBSET Objects : IP!Owned(W) /\ x \in W => p \in W
             C == {x \in Objects : Leads(x)}
  <2>1. SUFFICES ASSUME Leads(points[p]) PROVE FALSE
    BY <1>3
  <2>2. ASSUME NEW x \in C PROVE points[x] \in C
    <3>1. CASE x = p
      BY <1>3, <2>1, <3>1
    <3>2. CASE x # p
      <4>1. points[x] \in Objects \cup {Null}
        BY DEF Edges, IP!Pointers
      <4>2. points[x] # Null
        <5>1. points[x] = Null => IP!Owned({x})
          BY DEF IP!Owned
        <5> QED
          BY <3>2, <5>1
      <4>3. ASSUME NEW W \in SUBSET Objects, IP!Owned(W), points[x] \in W PROVE p \in W
        <5>1. IP!Owned(W \cup {x}) /\ W \cup {x} \in SUBSET Objects
          BY <4>3 DEF IP!Owned
        <5>2. p \in W \cup {x}
          BY <5>1
        <5> QED
          BY <3>2, <5>2
      <4> QED
        BY <4>1, <4>2, <4>3
    <3> QED
      BY <3>1, <3>2
  <2>3. p \in C /\ C \in SUBSET Objects
    BY <1>3
  <2> HIDE DEF C
  <2> QED
    BY <2>2, <2>3 DEF IP!Acyclic
<1> QED
  BY <1>1, <1>2, <1>3 DEF Edges, IP!Pointers

LEMMA PointersInit == IP!Init => IP!IInv
<1> SUFFICES ASSUME IP!Init PROVE IP!IInv
  OBVIOUS
<1>1. IP!TypeOK /\ IP!Idle /\ IP!Held = points
  BY DEF IP!Init, IP!TypeOK, IP!Idle, IP!NoCall, IP!Held, IP!Pointers
<1>2. IP!CountsPointers
  <2>1. \A o \in Objects : HoldersOf(IP!Held, o) = {}
    BY <1>1, PointersAssumption DEF IP!Init, HoldersOf
  <2>2. Counting(IP!Held, release.next, refs, objects)
    BY <2>1, FS_EmptySet, PointersAssumption DEF Counting, IP!Init, IP!NoCall, IfEqual
  <2> QED
    BY <2>2, CountsPointersIs DEF IP!Init
<1>3. IP!Acyclic(points)
  BY PointersAssumption DEF IP!Init, IP!Acyclic, IP!Pointers
<1> QED
  BY <1>1, <1>2, <1>3 DEF IP!IInv, IP!Releasing

\* A call begins: its pointer counts where it will point to, and what it
\* gives up is next.
LEMMA CallBegins ==
  ASSUME IP!IInv, IP!Idle, NEW p \in IP!Pointers, NEW o \in Objects \cup {Null},
         NEW q \in IP!Pointers \cup {Null}, q # Null => o = Null /\ q # p,
         IP!GiveUp(p, o, q), points' = points, ~ misused',
         refs' \in [Objects -> Nat], \A x \in Objects : refs'[x] = refs[x] + IfEqual(x, o),
         objects' \subseteq Objects, \A x \in Objects : x \in objects' <=> refs'[x] > 0,
         IP!Acyclic(IP!Assigned)', p \in Locals \cup objects'
  PROVE  IP!IInv'
<1>1. points \in Edges /\ IP!Held = points /\ release = IP!NoCall
  BY DEF IP!IInv, IP!TypeOK, IP!Held, Edges, IP!Idle
<1>2. /\ release'.next = points[p] /\ release'.into = p /\ release'.value = o /\ release'.from = q
      /\ release' = [next |-> points[p], into |-> p, value |-> o, from |-> q]
      /\ points[p] \in Objects \cup {Null}
  BY <1>1 DEF IP!GiveUp, Edges
<1>3. p # Null
  BY PointersAssumption DEF IP!Pointers
<1>4. ~ IP!Idle' /\ IP!Held' = [points EXCEPT ![p] = o]
  BY <1>2, <1>3 DEF IP!Idle, IP!NoCall, IP!Held
<1>5. IP!TypeOK'
  BY <1>1, <1>2, <1>3 DEF IP!TypeOK, Edges, IP!Pointers
<1>6. Counting(IP!Held', release'.next, refs', objects')
  <2> SUFFICES ASSUME NEW x \in Objects
               PROVE refs'[x] = Cardinality(HoldersOf(IP!Held', x)) + IfEqual(release'.next, x)
    BY DEF Counting
  <2>1. refs[x] = Cardinality(HoldersOf(points, x)) + IfEqual(Null, x)
    BY <1>1, CountsPointersIs DEF IP!IInv, Counting, IP!NoCall
  <2>2. /\ Cardinality(HoldersOf(points, x)) \in Nat
        /\ Cardinality(HoldersOf(IP!Held', x)) =
              Cardinality(HoldersOf(points, x)) + IfEqual(o, x) - IfEqual(points[p], x)
    <3>1. IP!Held' = Pointing(points, p, o)
      BY <1>4 DEF Pointing
    <3>2. /\ Cardinality(HoldersOf(points, x)) \in Nat
          /\ Cardinality(HoldersOf(Pointing(points, p, o), x)) =
                Cardinality(HoldersOf(points, x)) + IfEqual(o, x) - IfEqual(points[p], x)
      BY <1>1, HoldersChange
    <3> QED
      BY <3>1, <3>2
  <2>3. IfEqual(Null, x) = 0 /\ IfEqual(o, x) = IfEqual(x, o)
    BY PointersAssumption DEF IfEqual
  <2>4. IfEqual(x, o) \in Nat /\ IfEqual(points[p], x) \in Nat
    BY DEF IfEqual
  <2> QED
    BY <1>2, <2>1, <2>2, <2>3, <2>4
<1>7. IP!CountsPointers'
  BY <1>6, CountsPointersIs DEF IP!IInv
<1>8. IP!Acyclic(points)'
  BY DEF IP!IInv, IP!Acyclic
<1>9. IP!Releasing'
  <2>1. PICK W \in SUBSET Objects : IP!Owned(W) /\ p \notin W /\ points[p] \in W \cup {Null}
    BY <1>1, ChainLeaves DEF IP!IInv
  <2>2. IP!Owned(W)'
    BY <2>1 DEF IP!Owned
  <2> QED
    BY <1>2, <2>1, <2>2 DEF IP!Releasing, IP!Exists
<1> QED
  BY <1>5, <1>7, <1>8, <1>9 DEF IP!IInv

LEMMA PointsWhere == IP!IInv => points \in Edges /\ \A o \in Objects : refs[o] \in Nat
BY DEF IP!IInv, IP!TypeOK, Edges

LEMMA MakeBegins ==
  ASSUME IP!IInv, NEW p \in Locals, NEW o \in Objects, IP!Make(p, o)
  PROVE  IP!IInv'
<1>1. /\ IP!Idle /\ o \notin objects /\ objects' = objects \cup {o} /\ refs' = [refs EXCEPT ![o] = 1]
      /\ IP!GiveUp(p, o, Null) /\ points' = points /\ ~ misused'
  BY DEF IP!Make, IP!IInv, IP!CountsPointers
<1>2. refs \in [Objects -> Nat] /\ objects \subseteq Objects /\ \A x \in Objects : x \in objects <=> refs[x] > 0
  BY DEF IP!IInv, IP!TypeOK, IP!CountsPointers
<1>3. refs[o] = 0
  BY <1>1, <1>2
<1>4. refs' \in [Objects -> Nat] /\ \A x \in Objects : refs'[x] = refs[x] + IfEqual(x, o)
  BY <1>1, <1>2, <1>3 DEF IfEqual
<1>5. \A x \in Objects : x \in objects' <=> refs'[x] > 0
  BY <1>1, <1>2
<1>6. IP!Acyclic(IP!Assigned)'
  <2>1. p \in IP!Pointers /\ p \notin Objects /\ p # Null
    BY PointersAssumption DEF IP!Pointers
  <2>2. \A x \in Objects : IP!Assigned'[x] = points[x]
    BY <1>1, <2>1, PointsWhere DEF IP!GiveUp, IP!Assigned, Edges, IP!Pointers
  <2> QED
    BY <2>2 DEF IP!IInv, IP!Acyclic
<1> QED
  BY <1>1, <1>4, <1>5, <1>6, <1>2, CallBegins DEF IP!Pointers

LEMMA CopyBegins ==
  ASSUME IP!IInv, NEW p \in IP!Pointers, NEW q \in IP!Pointers, IP!Copy(p, q)
  PROVE  IP!IInv'
<1> DEFINE o == points[q]
<1>1. /\ IP!Idle /\ IP!Exists(p) /\ objects' = objects
      /\ refs' = IF o = Null THEN refs ELSE [refs EXCEPT ![o] = @ + 1]
      /\ misused' = (misused \/ o \notin objects \cup {Null})
      /\ IP!GiveUp(p, o, Null) /\ points' = points /\ IP!Acyclic(IP!Copied(p, q))
  BY DEF IP!Copy
<1>2. /\ refs \in [Objects -> Nat] /\ objects \subseteq Objects
      /\ \A x \in Objects : x \in objects <=> refs[x] > 0
  BY DEF IP!IInv, IP!TypeOK, IP!CountsPointers
<1>3. o \in Objects \cup {Null} /\ points \in Edges
  BY PointsWhere DEF Edges
<1>4. o \in Objects => o \in objects
  <2> SUFFICES ASSUME o \in Objects PROVE o \in objects
    OBVIOUS
  <2>1. refs[o] = Cardinality(HoldersOf(points, o)) + IfEqual(Null, o) /\ (o \in objects <=> refs[o] > 0)
    <3>1. release.next = Null /\ IP!Held = points
      BY <1>1 DEF IP!Idle, IP!NoCall, IP!Held
    <3> QED
      BY <3>1, CountsPointersIs DEF IP!IInv, Counting
  <2>2. q \in HoldersOf(points, o) /\ IsFiniteSet(HoldersOf(points, o))
    <3>1. IsFiniteSet(IP!Pointers)
      BY PointersAssumption, FS_Union DEF IP!Pointers
    <3> QED
      BY <3>1, FS_Subset DEF HoldersOf
  <2>3. Cardinality(HoldersOf(points, o)) \in Nat /\ Cardinality(HoldersOf(points, o)) # 0
    BY <2>2, FS_EmptySet, FS_CardinalityType
  <2> QED
    BY <2>1, <2>3 DEF IfEqual
<1>5. ~ misused'
  BY <1>1, <1>3, <1>4 DEF IP!IInv, IP!CountsPointers
<1>6. refs' \in [Objects -> Nat] /\ \A x \in Objects : refs'[x] = refs[x] + IfEqual(x, o)
  BY <1>1, <1>2, <1>3, PointersAssumption DEF IfEqual
<1>7. \A x \in Objects : x \in objects' <=> refs'[x] > 0
  BY <1>1, <1>2, <1>3, <1>4
<1>8. IP!Acyclic(IP!Assigned)'
  <2>1. IP!Assigned' = IP!Copied(p, q)
    BY <1>1 DEF IP!GiveUp, IP!Assigned, IP!Copied
  <2> QED
    BY <1>1, <2>1 DEF IP!Acyclic
<1>9. p \in Locals \cup objects' /\ objects' \subseteq Objects
  BY <1>1, <1>2 DEF IP!Exists
<1> HIDE DEF o
<1> QED
  BY <1>1, <1>3, <1>5, <1>6, <1>7, <1>8, <1>9, CallBegins

LEMMA MoveBegins ==
  ASSUME IP!IInv, NEW p \in IP!Pointers,
         (\E q \in IP!Pointers : IP!Move(p, q)) \/ IP!Drop(p)
  PROVE  IP!IInv'
<1>1. /\ IP!Idle /\ IP!Exists(p) /\ UNCHANGED <<points, refs, objects>> /\ ~ misused'
      /\ \E q \in IP!Pointers \cup {Null} :
            /\ IP!GiveUp(p, Null, q) /\ q # p
            /\ q # Null => IP!Acyclic(IP!Moved(p, q))
  BY PointersAssumption DEF IP!Move, IP!Drop, IP!Pointers, IP!IInv, IP!CountsPointers
<1>2. PICK q \in IP!Pointers \cup {Null} : /\ IP!GiveUp(p, Null, q) /\ q # p
                                           /\ q # Null => IP!Acyclic(IP!Moved(p, q))
  BY <1>1
<1>3. /\ refs' \in [Objects -> Nat] /\ objects' \subseteq Objects
      /\ \A x \in Objects : x \in objects' <=> refs'[x] > 0
  BY <1>1 DEF IP!IInv, IP!TypeOK, IP!CountsPointers
<1>4. \A x \in Objects : refs'[x] = refs[x] + IfEqual(x, Null)
  BY <1>1, PointsWhere, PointersAssumption DEF IfEqual
<1>5. IP!Acyclic(IP!Assigned)'
  <2>1. CASE q = Null
    <3>1. \A x \in Objects : IP!Assigned'[x] = points[x] \/ IP!Assigned'[x] = Null
      BY <1>1, <1>2, <2>1, PointsWhere DEF IP!GiveUp, IP!Assigned, Edges, IP!Pointers
    <3>2. IP!Acyclic(points)
      BY DEF IP!IInv
    <3>3. IP!Acyclic(IP!Assigned')
      BY <3>1, <3>2, FewerEdges
    <3> QED
      BY <3>3 DEF IP!Acyclic
  <2>2. CASE q # Null
    <3>1. IP!Assigned' = IP!Moved(p, q)
      BY <1>1, <1>2, <2>2 DEF IP!GiveUp, IP!Assigned, IP!Moved
    <3> QED
      BY <1>2, <2>2, <3>1 DEF IP!Acyclic
  <2> QED
    BY <2>1, <2>2
<1>6. p \in Locals \cup objects'
  BY <1>1 DEF IP!Exists
<1> QED
  BY <1>1, <1>2, <1>3, <1>4, <1>5, <1>6, CallBegins


\* A decRef on a chain: the object next loses what it had too many, and
\* with the last of it goes, giving up what its member points to.
LEMMA DecRefKeeps ==
  ASSUME IP!IInv, IP!DecRef
  PROVE  IP!IInv'
<1> DEFINE o == release.next
           into == release.into
<1>1. /\ points \in Edges /\ o \in Objects /\ into \in IP!Pointers /\ into # Null
      /\ refs \in [Objects -> Nat] /\ objects \subseteq Objects
      /\ release \in [next : Objects \cup {Null}, into : IP!Pointers \cup {Null},
                      value : Objects \cup {Null}, from : IP!Pointers \cup {Null}]
      /\ release.from # Null => release.value = Null /\ release.from # into
  <2>1. /\ points \in Edges /\ o # Null /\ refs \in [Objects -> Nat] /\ objects \subseteq Objects
        /\ release \in [next : Objects \cup {Null}, into : IP!Pointers \cup {Null},
                        value : Objects \cup {Null}, from : IP!Pointers \cup {Null}]
        /\ into = Null => IP!Idle
        /\ release.from # Null => release.value = Null /\ release.from # into
    BY DEF IP!IInv, IP!TypeOK, IP!DecRef, Edges
  <2>2. IP!Idle => o = Null
    BY DEF IP!Idle, IP!NoCall
  <2> QED
    BY <2>1, <2>2
<1>2. ~ IP!Idle /\ IP!Held = [points EXCEPT ![into] = release.value] /\ IP!Held \in Edges
  <2>1. ~ IP!Idle
    BY <1>1 DEF IP!Idle, IP!NoCall
  <2> QED
    BY <1>1, <2>1 DEF IP!Held, Edges
<1>3. /\ ~ misused
      /\ \A x \in Objects : /\ refs[x] = Cardinality(HoldersOf(IP!Held, x)) + IfEqual(o, x)
                            /\ Cardinality(HoldersOf(IP!Held, x)) \in Nat
                            /\ x \in objects <=> refs[x] > 0
  <2>1. /\ ~ misused
        /\ \A x \in Objects : /\ refs[x] = Cardinality(HoldersOf(IP!Held, x)) + IfEqual(o, x)
                              /\ x \in objects <=> refs[x] > 0
    BY CountsPointersIs DEF IP!IInv, Counting
  <2>2. ASSUME NEW x \in Objects PROVE Cardinality(HoldersOf(IP!Held, x)) \in Nat
    <3>1. IsFiniteSet(HoldersOf(IP!Held, x))
      <4>1. IsFiniteSet(IP!Pointers)
        BY PointersAssumption, FS_Union DEF IP!Pointers
      <4> QED
        BY <4>1, FS_Subset DEF HoldersOf
    <3> QED
      BY <3>1, FS_CardinalityType
  <2> QED
    BY <2>1, <2>2
<1>4. /\ o \in objects /\ refs[o] \in Nat /\ refs[o] >= 1
  BY <1>1, <1>3 DEF IfEqual
<1>5. /\ refs' = [refs EXCEPT ![o] = @ - 1] /\ ~ misused' /\ refs' \in [Objects -> Nat]
      /\ \A x \in Objects : refs'[x] = refs[x] - IfEqual(o, x)
  <2>1. refs' = [refs EXCEPT ![o] = refs[o] - 1] /\ misused' = (misused \/ o \notin objects)
    BY DEF IP!DecRef
  <2>2. refs[o] - 1 \in Nat
    BY <1>4
  <2>3. refs'[o] = refs[o] - 1 /\ \A x \in Objects \ {o} : refs'[x] = refs[x]
    BY <1>1, <2>1
  <2>4. ASSUME NEW x \in Objects PROVE refs'[x] = refs[x] - IfEqual(o, x)
    <3>1. refs[x] \in Nat
      BY <1>1
    <3> QED
      BY <2>3, <3>1 DEF IfEqual
  <2> QED
    BY <1>1, <1>3, <1>4, <2>1, <2>2, <2>4
<1>6. PICK W \in SUBSET Objects : IP!Owned(W) /\ into \notin W /\ o \in W
  <2>1. PICK W \in SUBSET Objects : IP!Owned(W) /\ into \notin W /\ o \in W \cup {Null}
    BY <1>2 DEF IP!IInv, IP!Releasing
  <2>2. o # Null
    BY <1>1, PointersAssumption
  <2> QED
    BY <2>1, <2>2
<1>7. IP!Acyclic(points) /\ IP!Acyclic(IP!Assigned) /\ IP!Exists(into)
  BY <1>2 DEF IP!IInv, IP!Releasing
<1>8. CASE refs[o] = 1
  <2>1. /\ objects' = objects \ {o} /\ points' = [points EXCEPT ![o] = Null]
        /\ release' = [release EXCEPT !.next = points[o]] /\ points[o] \in Objects \cup {Null}
    BY <1>1, <1>8 DEF IP!DecRef, Edges, IP!Pointers
  <2>2. /\ release'.next = points[o] /\ release'.into = into /\ release'.value = release.value
        /\ release'.from = release.from /\ ~ IP!Idle'
    BY <1>1, <2>1 DEF IP!Idle, IP!NoCall
  <2>3. /\ points' \in Edges /\ points'[o] = Null
        /\ \A q \in IP!Pointers \ {o} : points'[q] = points[q]
    BY <1>1, <2>1 DEF Edges, IP!Pointers
  <2>4. IP!TypeOK'
    BY <1>1, <1>5, <2>1, <2>2, <2>3 DEF IP!TypeOK, Edges, IP!Idle
  <2>5. o # into /\ IP!Held' = [IP!Held EXCEPT ![o] = Null] /\ IP!Held[o] = points[o]
    BY <1>1, <1>2, <1>6, <2>1, <2>2 DEF IP!Held, Edges, IP!Pointers
  <2>6. Counting(IP!Held', release'.next, refs', objects')
    <3> SUFFICES ASSUME NEW x \in Objects
                 PROVE  /\ refs'[x] = Cardinality(HoldersOf(IP!Held', x)) + IfEqual(points[o], x)
                        /\ x \in objects' <=> refs'[x] > 0
      BY <2>2 DEF Counting
    <3> DEFINE f == IP!Held
    <3>1. f \in Edges /\ o \in IP!Pointers /\ Null \in Objects \cup {Null} /\ IP!Held' = Pointing(f, o, Null)
      BY <1>1, <1>2, <2>5 DEF IP!Pointers, Pointing
    <3> HIDE DEF f, o
    <3>2. Cardinality(HoldersOf(Pointing(f, o, Null), x)) =
             Cardinality(HoldersOf(f, x)) + IfEqual(Null, x) - IfEqual(f[o], x)
      BY <3>1, HoldersChange
    <3> USE DEF f, o
    <3>3. Cardinality(HoldersOf(IP!Held', x)) =
             Cardinality(HoldersOf(IP!Held, x)) + IfEqual(Null, x) - IfEqual(IP!Held[o], x)
      BY <3>1, <3>2
    <3>4. IfEqual(Null, x) = 0 /\ IfEqual(points[o], x) \in Nat /\ IfEqual(o, x) \in Nat
      BY PointersAssumption DEF IfEqual
    <3>5. refs'[x] = Cardinality(HoldersOf(IP!Held', x)) + IfEqual(points[o], x)
      BY <1>3, <1>5, <2>5, <3>1, <3>3, <3>4
    <3>6. x \in objects' <=> refs'[x] > 0
      BY <1>3, <1>5, <1>8, <2>1, <1>1 DEF IfEqual
    <3> QED
      BY <3>5, <3>6
  <2>7. IP!CountsPointers'
    BY <1>5, <2>6, CountsPointersIs
  <2>8. IP!Acyclic(points)'
    <3>1. \A x \in Objects : points'[x] = points[x] \/ points'[x] = Null
      BY <2>3 DEF IP!Pointers
    <3>2. IP!Acyclic(points')
      BY <1>7, <3>1, FewerEdges
    <3> QED
      BY <3>2 DEF IP!Acyclic
  <2>9. IP!Acyclic(IP!Assigned)'
    <3>1. \A x \in Objects : IP!Assigned'[x] = IP!Assigned[x] \/ IP!Assigned'[x] = Null
      <4>1. CASE release.from = Null
        BY <1>1, <2>1, <2>2, <2>3, <4>1 DEF IP!Assigned, Edges, IP!Pointers
      <4>2. CASE release.from # Null
        BY <1>1, <2>1, <2>2, <2>3, <4>2 DEF IP!Assigned, IP!Moved, Edges, IP!Pointers
      <4> QED
        BY <4>1, <4>2
    <3>2. IP!Acyclic(IP!Assigned')
      BY <1>7, <3>1, FewerEdges
    <3> QED
      BY <3>2 DEF IP!Acyclic
  <2>10. IP!Exists(into)' /\ IP!Owned(W)' /\ points[o] \in W \cup {Null}
    BY <1>6, <1>7, <2>1, <2>3, <2>5 DEF IP!Exists, IP!Owned, IP!Pointers
  <2>11. IP!Releasing'
    BY <1>6, <2>2, <2>9, <2>10 DEF IP!Releasing, IP!Exists
  <2> QED
    BY <2>4, <2>7, <2>8, <2>11 DEF IP!IInv
<1>9. CASE refs[o] # 1
  <2>1. objects' = objects /\ points' = points /\ release' = [release EXCEPT !.next = Null]
    BY <1>9 DEF IP!DecRef
  <2>2. /\ release'.next = Null /\ release'.into = into /\ release'.value = release.value
        /\ release'.from = release.from /\ ~ IP!Idle'
    BY <1>1, <2>1 DEF IP!Idle, IP!NoCall
  <2>3. IP!TypeOK'
    BY <1>1, <1>5, <2>1, <2>2 DEF IP!TypeOK, Edges, IP!Idle
  <2>4. IP!Held' = IP!Held /\ IP!Assigned' = IP!Assigned
    BY <1>2, <2>1, <2>2 DEF IP!Held, IP!Assigned, IP!Moved
  <2>5. Counting(IP!Held', release'.next, refs', objects')
    <3> SUFFICES ASSUME NEW x \in Objects
                 PROVE  /\ refs'[x] = Cardinality(HoldersOf(IP!Held, x)) + IfEqual(Null, x)
                        /\ x \in objects <=> refs'[x] > 0
      BY <2>1, <2>2, <2>4 DEF Counting
    <3>1. IfEqual(Null, x) = 0 /\ IfEqual(o, x) \in Nat
      BY PointersAssumption DEF IfEqual
    <3>2. refs'[x] = Cardinality(HoldersOf(IP!Held, x)) + IfEqual(Null, x)
      BY <1>3, <1>5, <3>1
    <3>3. x \in objects <=> refs'[x] > 0
      BY <1>1, <1>3, <1>4, <1>5, <1>9 DEF IfEqual
    <3> QED
      BY <3>2, <3>3
  <2>6. IP!CountsPointers'
    BY <1>5, <2>5, CountsPointersIs
  <2>7. IP!Acyclic(points)' /\ IP!Acyclic(IP!Assigned)'
    BY <1>7, <2>1, <2>4 DEF IP!Acyclic
  <2>8. IP!Releasing'
    BY <1>6, <1>7, <2>1, <2>2, <2>7 DEF IP!Releasing, IP!Exists, IP!Owned
  <2> QED
    BY <2>3, <2>6, <2>7, <2>8 DEF IP!IInv
<1> QED
  BY <1>8, <1>9

\* The assignment itself makes true what was counted.
LEMMA AssignKeeps ==
  ASSUME IP!IInv, IP!Assign
  PROVE  IP!IInv'
<1> DEFINE into == release.into
           from == release.from
<1>1. /\ points \in Edges /\ into \in IP!Pointers /\ into # Null /\ release.next = Null /\ ~ IP!Idle
      /\ release.value \in Objects \cup {Null} /\ from \in IP!Pointers \cup {Null}
      /\ from # Null => release.value = Null /\ from # into
  BY DEF IP!IInv, IP!TypeOK, IP!Assign, Edges
<1>2. /\ points' = IP!Assigned /\ release' = IP!NoCall /\ refs' = refs /\ objects' = objects
      /\ IP!Idle' /\ IP!Held' = points' /\ release'.next = Null
  BY DEF IP!Assign, IP!Idle, IP!NoCall, IP!Held
<1>3. IP!Held = [points EXCEPT ![into] = release.value] /\ IP!Held \in Edges
  BY <1>1 DEF IP!Held, Edges
<1>4. /\ points' \in Edges
      /\ \A x \in Objects : Cardinality(HoldersOf(points', x)) = Cardinality(HoldersOf(IP!Held, x))
  <2>1. CASE from = Null
    BY <1>2, <1>3, <2>1 DEF IP!Assigned
  <2>2. CASE from # Null
    <3> DEFINE f == IP!Held
               h == Pointing(Pointing(f, into, f[from]), from, Null)
    <3>1. f \in Edges /\ into \in IP!Pointers /\ from \in IP!Pointers /\ into # from /\ f[into] = Null
      BY <1>1, <1>3, <2>2 DEF Edges
    <3>2. points' = h
      BY <1>1, <1>2, <1>3, <2>2 DEF IP!Assigned, IP!Moved, Edges, Pointing
    <3>3. h \in Edges
      BY <3>1 DEF Edges, Pointing
    <3>4. ASSUME NEW o \in Objects PROVE Cardinality(HoldersOf(h, o)) = Cardinality(HoldersOf(f, o))
      <4>1. IfEqual(f[into], o) = 0
        BY <3>1, PointersAssumption DEF IfEqual
      <4> HIDE DEF f, into, from
      <4>2. /\ Cardinality(HoldersOf(f, o)) \in Nat
            /\ Cardinality(HoldersOf(h, o)) = Cardinality(HoldersOf(f, o)) - IfEqual(f[into], o)
        <5>1. f \in Edges /\ into \in IP!Pointers /\ from \in IP!Pointers /\ into # from
          BY <3>1
        <5> QED
          BY <5>1, HoldersMove
      <4> QED
        BY <4>1, <4>2
    <3> HIDE DEF f, h
    <3>5. \A x \in Objects : Cardinality(HoldersOf(points', x)) = Cardinality(HoldersOf(f, x))
      BY <3>2, <3>4
    <3> QED
      BY <3>2, <3>3, <3>5 DEF f
  <2> QED
    BY <2>1, <2>2
<1>5. IP!Acyclic(IP!Assigned) /\ IP!Exists(into)
  BY <1>1 DEF IP!IInv, IP!Releasing
<1>6. ~ misused'
  BY <1>5 DEF IP!Assign, IP!IInv, IP!CountsPointers
<1>7. IP!TypeOK'
  BY <1>2, <1>4 DEF IP!IInv, IP!TypeOK, IP!NoCall, Edges, IP!Pointers
<1>8. IP!CountsPointers'
  <2>1. Counting(IP!Held, Null, refs, objects)
    BY <1>1, CountsPointersIs DEF IP!IInv
  <2>2. Counting(IP!Held', release'.next, refs', objects')
    BY <1>2, <1>4, <2>1 DEF Counting
  <2> QED
    BY <1>6, <2>2, CountsPointersIs
<1>9. IP!Acyclic(points)'
  BY <1>2, <1>5 DEF IP!Acyclic
<1> QED
  BY <1>2, <1>7, <1>8, <1>9 DEF IP!IInv, IP!Releasing

LEMMA PointersNext == IP!IInv /\ IP!Next => IP!IInv'
<1> SUFFICES ASSUME IP!IInv, IP!Next PROVE IP!IInv'
  OBVIOUS
<1>1. ASSUME NEW p \in Locals, NEW o \in Objects, IP!Make(p, o) PROVE IP!IInv'
  BY <1>1, MakeBegins
<1>2. ASSUME NEW p \in IP!Pointers, NEW q \in IP!Pointers, IP!Copy(p, q) PROVE IP!IInv'
  BY <1>2, CopyBegins
<1>3. ASSUME NEW p \in IP!Pointers, NEW q \in IP!Pointers, IP!Move(p, q) PROVE IP!IInv'
  BY <1>3, MoveBegins
<1>4. ASSUME NEW p \in IP!Pointers, IP!Drop(p) PROVE IP!IInv'
  BY <1>4, MoveBegins
<1> QED
  BY <1>1, <1>2, <1>3, <1>4, DecRefKeeps, AssignKeeps DEF IP!Next

\* Shared objects live exactly as long as a pointer points to them, whose
\* number is their count, along any chain of releases, for any number of
\* objects and pointers (intrusiveptr.hh).
THEOREM OwnersStayCounted == AllSpec => []OwnersAreCounted
<1>1. AllInit => IP!IInv
  BY PointersInit DEF AllInit
<1>2. IP!IInv /\ [AllNext]_allVars => IP!IInv'
  <2> SUFFICES ASSUME IP!IInv, [AllNext]_allVars PROVE IP!IInv'
    OBVIOUS
  <2>1. CASE IP!Next
    BY <2>1, PointersNext
  <2>2. CASE UNCHANGED pointerVars
    <3>1. UNCHANGED <<points, refs, objects, misused, release>>
      BY <2>2 DEF pointerVars
    <3>2. IP!TypeOK' /\ IP!Held' = IP!Held /\ IP!Assigned' = IP!Assigned
      BY <3>1 DEF IP!IInv, IP!TypeOK, IP!Held, IP!Idle, IP!Assigned, IP!Moved
    <3>3. IP!CountsPointers'
      BY <3>1, <3>2, CountsPointersIs DEF IP!IInv
    <3>4. IP!Acyclic(points)' /\ (IP!Acyclic(IP!Assigned)' <=> IP!Acyclic(IP!Assigned))
      BY <3>1, <3>2 DEF IP!IInv, IP!Acyclic
    <3>5. IP!Releasing'
      BY <3>1, <3>2, <3>4 DEF IP!IInv, IP!Releasing, IP!Owned, IP!Exists, IP!Acyclic, IP!Idle
    <3> QED
      BY <3>2, <3>3, <3>4, <3>5 DEF IP!IInv
  <2> QED
    BY <2>1, <2>2 DEF AllNext, allVars, dataVars
<1>3. IP!IInv => OwnersAreCounted
  BY DEF OwnersAreCounted
<1> QED
  BY <1>1, <1>2, <1>3, PTL DEF AllSpec
=============================================================================
