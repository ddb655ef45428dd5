------------------------------- MODULE TaskPool -------------------------------
(***************************************************************************)
(* What the fiber system promises its users, whatever thread or fiber runs *)
(* a task: a task handed to RunTasks is executed once, and a WaitForCounter*)
(* returns only when every task of the counter has finished.  The tasks    *)
(* form a tree: a task (or main) runs its children and waits for them.     *)
(* FiberManager implements this module.                                    *)
(***************************************************************************)
CONSTANTS Task,      \* the tasks
          Main,      \* the caller of Init and Purge
          SpawnedBy  \* SpawnedBy[p]: the tasks that p hands to RunTasks

VARIABLES state,     \* what became of each task
          returned   \* main's WaitForCounter has returned

poolVars == <<state, returned>>

Finished(p) == \A k \in SpawnedBy[p] : state[k] = "done"

Init == /\ state = [k \in Task |-> "new"]
        /\ returned = FALSE

Submit(p) == /\ p = Main \/ state[p] = "running"
             /\ \A k \in SpawnedBy[p] : state[k] = "new"
             /\ state' = [k \in Task |-> IF k \in SpawnedBy[p] THEN "queued" ELSE state[k]]
             /\ UNCHANGED returned

Start(k) == /\ state[k] = "queued"
            /\ state' = [state EXCEPT ![k] = "running"]
            /\ UNCHANGED returned

Finish(k) == /\ state[k] = "running"
             /\ Finished(k)
             /\ state' = [state EXCEPT ![k] = "done"]
             /\ UNCHANGED returned

Return == /\ Finished(Main)
          /\ returned' = TRUE
          /\ UNCHANGED state

Next == \/ \E p \in Task \cup {Main} : Submit(p)
        \/ \E k \in Task : Start(k) \/ Finish(k)
        \/ Return

Spec == Init /\ [][Next]_poolVars
===============================================================================
