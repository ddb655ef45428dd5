--------------------------- MODULE CircularQueue ----------------------------
(***************************************************************************)
(* CircularQueue<T> (circularqueue.hh): a buffer of Size cells with a read *)
(* and a write position that count modulo twice the size, so that a full   *)
(* queue differs from an empty one.                                        *)
(***************************************************************************)
EXTENDS Naturals, Sequences

CONSTANTS Values, Size, Unset    \* Unset: what new T[size] leaves in a cell

VARIABLES buffer, readPos, writePos,
          queued    \* what push has put in and pop not yet taken

vars == <<buffer, readPos, writePos, queued>>

Init == buffer = [i \in 0 .. Size - 1 |-> Unset] /\ readPos = 0 /\ writePos = 0 /\ queued = <<>>

(* Mistake: positions count modulo the size. *)
AdvanceBySize(pos) == (pos + 1) % Size
Advance(pos) == (pos + 1) % (2 * Size)

IsEmpty == readPos = writePos
IsFull == readPos # writePos /\ readPos % Size = writePos % Size

Push(v) == /\ ~ IsFull          \* else it returns false
           /\ buffer' = [buffer EXCEPT ![writePos % Size] = v]
           /\ writePos' = Advance(writePos)
           /\ queued' = Append(queued, v)
           /\ UNCHANGED readPos
Pop ==     /\ ~ IsEmpty
           /\ readPos' = Advance(readPos)
           /\ queued' = Tail(queued)
           /\ UNCHANGED <<buffer, writePos>>
Popped == buffer[readPos % Size]

Next == Pop \/ \E v \in Values : Push(v)
Spec == Init /\ [][Next]_vars
-----------------------------------------------------------------------------
TypeOK == /\ buffer \in [0 .. Size - 1 -> Values \cup {Unset}]
          /\ readPos \in 0 .. 2 * Size - 1 /\ writePos \in 0 .. 2 * Size - 1
          /\ queued \in Seq(Values)

(* The queue holds up to Size values and gives them back in order; full    *)
(* and empty are told apart at every turn of the positions, for sizes that *)
(* are no powers of two as well (circularqueue.hh:47).                     *)
IsBoundedFifo ==
    /\ IsEmpty <=> queued = <<>>
    /\ IsFull <=> Len(queued) = Size
    /\ ~ IsEmpty => Popped = Head(queued)

(* The values lie behind the read position, as many as the positions are   *)
(* apart.                                                                  *)
Stored == /\ Len(queued) <= Size /\ writePos = (readPos + Len(queued)) % (2 * Size)
          /\ \A i \in 1 .. Len(queued) : buffer[(readPos + i - 1) % Size] = queued[i]

IInv == TypeOK /\ IsBoundedFifo /\ Stored
=============================================================================
