------------------------------ MODULE Function ------------------------------
(***************************************************************************)
(* FunctionN (function.hh): a callable behind m_impl, which is placed in   *)
(* the object's own storage if it fits and on the heap otherwise.  An Impl *)
(* is a record of what it calls and where it lives; alive are the Impls    *)
(* that were made and not destroyed.  Copy assignment is modelled from     *)
(* functions that hold something, as it follows other.m_impl untested.     *)
(***************************************************************************)

CONSTANTS Small, Large,     \* callables that fit the storage, and that do not
          Heap,             \* bound: the heap Impls that can ever be made
          Null

Callables == Small \cup Large
Functions == {"f", "g"}

VARIABLES impl,     \* [Functions -> place or Null]: a function's name for its storage, or a heap place
          storage,  \* what is in the places: a callable, or Null if none was made there
          alive,    \* the places with an Impl whose destructor has not run
          calls,    \* what every function should call
          bad       \* a destructor has run twice, or on nothing

vars == <<impl, storage, alive, calls, bad>>
Stores == Functions \cup Heap

Init == /\ impl = [f \in Functions |-> Null] /\ calls = [f \in Functions |-> Null]
        /\ storage = [p \in Stores |-> Null] /\ alive = [p \in Stores |-> FALSE] /\ bad = FALSE

NewPlace == {p \in Heap : storage[p] = Null}
IsSmall(f) == storage[impl[f]] \in Small

(* m_impl becomes a new Impl of c, over whatever m_impl and the storage    *)
(* held: assigning does not Clear.                                         *)
Place(f, c) == IF c \in Small THEN {f} ELSE NewPlace
PutAt(f, p, c) == /\ impl' = [impl EXCEPT ![f] = p]
                  /\ storage' = [storage EXCEPT ![p] = c]
                  /\ alive' = [alive EXCEPT ![p] = TRUE]

Construct(f, c) == /\ impl[f] = Null
                   /\ \E p \in Place(f, c) : PutAt(f, p, c)
                   /\ calls' = [calls EXCEPT ![f] = c] /\ UNCHANGED bad

Copy(f, g) == /\ f # g /\ impl[g] # Null
              /\ \E p \in Place(f, storage[impl[g]]) : PutAt(f, p, storage[impl[g]])
              /\ calls' = [calls EXCEPT ![f] = calls[g]] /\ UNCHANGED bad

(* Mistake: the storage's address is taken over with the rest. *)
MoveTakesPointer(f, g) ==
    /\ f # g
    /\ impl' = [impl EXCEPT ![f] = impl[g], ![g] = Null]
    /\ calls' = [calls EXCEPT ![f] = calls[g], ![g] = Null]
    /\ UNCHANGED <<storage, alive, bad>>

(* Move: a small Impl is moved into the own storage, and what is left in   *)
(* the other's is not destroyed; a large one changes hands.                *)
Move(f, g) ==
    /\ f # g
    /\ IF impl[g] = Null THEN impl' = [impl EXCEPT ![f] = Null] /\ UNCHANGED <<storage, alive>>
       ELSE IF IsSmall(g)
       THEN /\ impl' = [impl EXCEPT ![f] = f, ![g] = Null]
            /\ storage' = [storage EXCEPT ![f] = storage[g]]
            /\ alive' = [alive EXCEPT ![f] = TRUE]
       ELSE impl' = [impl EXCEPT ![f] = impl[g], ![g] = Null] /\ UNCHANGED <<storage, alive>>
    /\ calls' = [calls EXCEPT ![f] = calls[g], ![g] = Null]
    /\ UNCHANGED bad

Clear(f) ==     \* the destructor
    /\ impl[f] # Null
    /\ bad' = (bad \/ ~ alive[impl[f]])
    /\ alive' = [alive EXCEPT ![impl[f]] = FALSE]
    /\ impl' = [impl EXCEPT ![f] = Null] /\ calls' = [calls EXCEPT ![f] = Null]
    /\ UNCHANGED storage

Next == \E f \in Functions :
            \/ \E c \in Callables : Construct(f, c)
            \/ \E g \in Functions : Copy(f, g) \/ Move(f, g)
            \/ Clear(f)
Spec == Init /\ [][Next]_vars
-----------------------------------------------------------------------------
TypeOK == /\ impl \in [Functions -> Stores \cup {Null}]
          /\ storage \in [Stores -> Callables \cup {Null}] /\ alive \in [Stores -> BOOLEAN]
          /\ calls \in [Functions -> Callables \cup {Null}] /\ bad \in BOOLEAN

(* A function calls what was last put into it, in an Impl that exists and  *)
(* that no other function shares or will destroy, in its own storage       *)
(* exactly if it is small (function.hh:148).                               *)
CallsOwnImpl ==
    /\ ~ bad
    /\ \A f \in Functions : impl[f] = Null <=> calls[f] = Null
    /\ \A f \in Functions : impl[f] # Null =>
           /\ alive[impl[f]] /\ storage[impl[f]] = calls[f]
           /\ impl[f] = f <=> calls[f] \in Small
           /\ \A g \in Functions : g # f => impl[g] # impl[f]

(* No function points into the storage of another. *)
OwnStorage == \A f \in Functions : impl[f] \in Heap \cup {f, Null}

IInv == TypeOK /\ CallsOwnImpl /\ OwnStorage
=============================================================================
