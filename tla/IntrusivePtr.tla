---------------------------- MODULE IntrusivePtr ----------------------------
(***************************************************************************)
(* intrusive_ptr<T> and refcounted (intrusiveptr.hh): pointers that count  *)
(* themselves in the object they point to.  Every object has one pointer   *)
(* as a member, so that releasing an object may release others: each       *)
(* decRef of such a chain is a step, and the assignment that started it    *)
(* ends behind the last.                                                   *)
(***************************************************************************)
EXTENDS Integers, FiniteSets

CONSTANTS Objects, Locals, Null    \* Locals: the pointers that are no members

VARIABLES points,   \* [Locals \cup Objects -> Objects \cup {Null}]: m_p; o's member is at points[o]
          refs,     \* m_refs
          alive,    \* objects that exist
          bad,      \* a deleted object was used
          call      \* the assignment under way: next, the object to decRef, or Null; into, the pointer
                    \* assigned to; what it gets, value or what the pointer from has

vars == <<points, refs, alive, bad, call>>
Pointers == Locals \cup Objects
Exists(p) == p \in Locals \/ p \in alive

NoCall == [next |-> Null, into |-> Null, value |-> Null, from |-> Null]
Idle == call = NoCall
(* p gives up its object; then it gets o, or takes what q has. *)
GiveUp(p, o, q) == call' = [next |-> points[p], into |-> p, value |-> o, from |-> q]

Init == /\ points = [p \in Pointers |-> Null] /\ refs = [o \in Objects |-> 0]
        /\ alive = {} /\ bad = FALSE /\ call = NoCall

(* Without cycles, as the users have to see to it: in every set of objects *)
(* is one that owns none of the set.                                       *)
Acyclic(f) == \A S \in SUBSET Objects : S # {} => \E o \in S : f[o] \notin S
Copied(p, q) == [points EXCEPT ![p] = points[q]]
Moved(p, q) == [points EXCEPT ![p] = points[q], ![q] = Null]

(* make_intrusive_ptr, moved into a local. *)
Make(p, o) == /\ Idle /\ p \in Locals /\ o \notin alive
              /\ alive' = alive \cup {o} /\ refs' = [refs EXCEPT ![o] = 1]
              /\ GiveUp(p, o, Null) /\ UNCHANGED <<points, bad>>

(* Copy assignment, from a pointer that may be a member of what p points   *)
(* to: the new object is counted before the old one is given up.           *)
Copy(p, q) ==
    LET o == points[q]
    IN  /\ Idle /\ p # q /\ Exists(p) /\ Exists(q) /\ Acyclic(Copied(p, q))
        /\ refs' = IF o = Null THEN refs ELSE [refs EXCEPT ![o] = @ + 1]
        /\ bad' = (bad \/ o \notin alive \cup {Null})
        /\ GiveUp(p, o, Null) /\ UNCHANGED <<points, alive>>

(* Move assignment gives up the old object first. *)
Move(p, q) == /\ Idle /\ p # q /\ Exists(p) /\ Exists(q) /\ Acyclic(Moved(p, q))
              /\ GiveUp(p, Null, q) /\ UNCHANGED <<points, refs, alive, bad>>

(* The destructor, or assigning nullptr. *)
Drop(p) == /\ Idle /\ Exists(p) /\ points[p] # Null
           /\ GiveUp(p, Null, Null) /\ UNCHANGED <<points, refs, alive, bad>>

(* decRef: the last one deletes the object, whose member then goes too. *)
DecRef ==
    LET o == call.next IN
    /\ o # Null
    /\ refs' = [refs EXCEPT ![o] = @ - 1] /\ bad' = (bad \/ o \notin alive)
    /\ IF refs[o] = 1
       THEN /\ alive' = alive \ {o} /\ points' = [points EXCEPT ![o] = Null]
            /\ call' = [call EXCEPT !.next = points[o]]
       ELSE call' = [call EXCEPT !.next = Null] /\ UNCHANGED <<alive, points>>

(* Mistake: the pointer moved from keeps its object. *)
AssignedKeepsOther == [points EXCEPT ![call.into] = IF call.from = Null THEN call.value ELSE points[call.from]]

(* The assignment itself.  It is modelled where what was given up did not  *)
(* have the pointer moved from as a member: there the code reads and       *)
(* writes the deleted member.                                              *)
Assigned == IF call.from = Null THEN [points EXCEPT ![call.into] = call.value]
            ELSE Moved(call.into, call.from)
Assign == /\ ~ Idle /\ call.next = Null
          /\ call.from \in Objects => call.from \in alive
          /\ points' = Assigned /\ bad' = (bad \/ ~ Exists(call.into))
          /\ call' = NoCall /\ UNCHANGED <<refs, alive>>

Next == \/ \E p \in Locals, o \in Objects : Make(p, o)
        \/ \E p, q \in Pointers : Copy(p, q) \/ Move(p, q)
        \/ \E p \in Pointers : Drop(p)
        \/ DecRef \/ Assign
Spec == Init /\ [][Next]_vars
-----------------------------------------------------------------------------
TypeOK == /\ points \in [Pointers -> Objects \cup {Null}]
          /\ refs \in [Objects -> Nat] /\ alive \subseteq Objects
          /\ call \in [next : Objects \cup {Null}, into : Pointers \cup {Null},
                       value : Objects \cup {Null}, from : Pointers \cup {Null}]
          /\ call.into = Null => Idle
          /\ call.from # Null => call.value = Null /\ call.from # call.into

(* An object exists exactly while a pointer points to it, its count is the *)
(* number of those, and none is used after its deletion, also while one    *)
(* assignment releases a whole chain (intrusiveptr.hh:67): the pointer     *)
(* that is assigned to counts where it will point to, and the object whose *)
(* decRef comes next has one more.                                         *)
Held == IF Idle THEN points ELSE [points EXCEPT ![call.into] = call.value]
Owners(o) == {p \in Pointers : Held[p] = o}
CountsPointers ==
    /\ ~ bad
    /\ \A o \in Objects : /\ refs[o] = Cardinality(Owners(o)) + (IF call.next = o THEN 1 ELSE 0)
                          /\ o \in alive <=> refs[o] > 0

(* A chain of releases does not come back to the member assigned to: it    *)
(* stays in a set of objects that own nothing outside it.                  *)
Owned(S) == \A o \in S : points[o] \in S \cup {Null}
Releasing ==
    ~ Idle => /\ Acyclic(Assigned) /\ Exists(call.into)
              /\ \E S \in SUBSET Objects : Owned(S) /\ call.into \notin S /\ call.next \in S \cup {Null}

IInv == TypeOK /\ CountsPointers /\ Acyclic(points) /\ Releasing
=============================================================================
