------------------------------ MODULE DynAry -------------------------------
(***************************************************************************)
(* DynAry<T> (dynary.hh): two arrays of elements with a lifetime.  A cell  *)
(* of the buffer is Raw memory or holds a value, or Moved, what is left of *)
(* an element that was moved away and not yet destroyed.  Every operation  *)
(* is the sequence of constructions and destructions the code performs;    *)
(* bad records one that meets a cell in the wrong state.                   *)
(***************************************************************************)
EXTENDS Integers, Sequences, SequencesExt

CONSTANTS Values, Default,  \* Default \in Values: what T() makes
          Raw, Moved,
          MinGrow,    \* the smallest capacity grow asks for (8)
          MaxSize     \* bound: elements of one array

Arrays == {"a", "b"}

VARIABLES ary,    \* [Arrays -> [cells, size, bad]]: m_array, m_size; m_capacity is Len(cells)
          abs     \* [Arrays -> Seq(Values)], what the arrays should hold

vars == <<ary, abs>>

Cap(x) == Len(x.cells)
RawCells(n) == [i \in 1 .. n |-> Raw]
New == [cells |-> <<>>, size |-> 0, bad |-> FALSE]
-----------------------------------------------------------------------------
(* Constructing, destroying and moving single elements; indices from 0.    *)
Construct(x, i, v) == [x EXCEPT !.cells[i + 1] = v, !.bad = @ \/ x.cells[i + 1] # Raw]
Destroy(x, i) == [x EXCEPT !.cells[i + 1] = Raw, !.bad = @ \/ x.cells[i + 1] = Raw]
MoveDown(x, i, j) ==    \* element j is moved into cell i and its rest destroyed
    LET y == Construct(x, i, x.cells[j + 1])
    IN  Destroy([y EXCEPT !.cells[j + 1] = Moved, !.bad = @ \/ x.cells[j + 1] \in {Raw, Moved}], j)

Over(Op(_, _), x, indices) == FoldLeft(Op, x, indices)
Upward(i, j) == [n \in 1 .. j - i |-> i + n - 1]             \* i, i+1, ..., j-1
DestroyRange(x, i, j) == Over(Destroy, x, Upward(i, j))
FillRange(x, i, j, v) == Over(LAMBDA y, n : Construct(y, n, v), x, Upward(i, j))

(* Moving to another buffer of capacity n: reserve and set_capacity.       *)
Reallocate(x, n) ==
    LET kept == 1 .. x.size
    IN  [x EXCEPT !.cells = [i \in 1 .. n |-> IF i \in kept THEN x.cells[i] ELSE Raw],
                  !.bad = @ \/ \E i \in kept : x.cells[i] \in {Raw, Moved}]
ReserveIn(x, n) == IF n > Cap(x) THEN Reallocate(x, n) ELSE x
SetCapacityIn(x, n) ==
    IF n >= Cap(x) THEN ReserveIn(x, n)
    ELSE Reallocate([DestroyRange(x, n, x.size) EXCEPT !.size = IF x.size < n THEN x.size ELSE n], n)

Grow(x, minSize) ==
    LET n == (3 * minSize) \div 2 IN ReserveIn(x, IF n < MinGrow THEN MinGrow ELSE n)

(* Mistake: elements are shifted from the front, over the ones behind them. *)
OpenGapForward(x, i, n) ==
    LET y == IF x.size + n > Cap(x) THEN Grow(x, x.size + n) ELSE x
    IN  Over(LAMBDA z, k : MoveDown(z, k + n, k), [y EXCEPT !.size = @ + n], Upward(i, x.size))

(* uninitialized_insert_n: room for n elements at i, shifting from the end. *)
OpenGap(x, i, n) ==
    LET y == IF x.size + n > Cap(x) THEN Grow(x, x.size + n) ELSE x
    IN  Over(LAMBDA z, k : MoveDown(z, k, k - n), [y EXCEPT !.size = @ + n],
             Reverse(Upward(i + n, x.size + n)))
InsertIn(x, i, n, v) ==
    IF n = 0 THEN x ELSE FillRange(OpenGap(x, i, n), i, i + n, v)
EraseIn(x, i, j) ==
    IF i = j THEN x
    ELSE [Over(LAMBDA y, k : MoveDown(y, k - (j - i), k), DestroyRange(x, i, j), Upward(j, x.size))
            EXCEPT !.size = @ - (j - i)]
ClearIn(x) == [DestroyRange(x, 0, x.size) EXCEPT !.size = 0]
ResizeIn(x, n, v) ==
    IF n > x.size THEN InsertIn(x, x.size, n - x.size, v)
    ELSE [DestroyRange(x, n, x.size) EXCEPT !.size = n]
Copy(x) == [x EXCEPT !.cells = [i \in 1 .. Cap(x) |-> IF i <= x.size THEN x.cells[i] ELSE Raw]]
-----------------------------------------------------------------------------
Init == ary = [n \in Arrays |-> New] /\ abs = [n \in Arrays |-> <<>>]

Change(n, x, s) == ary' = [ary EXCEPT ![n] = x] /\ abs' = [abs EXCEPT ![n] = s]
Other(n) == CHOOSE m \in Arrays : m # n
Times(v, n) == [i \in 1 .. n |-> v]

(* insert in all its forms and push_back; the value is not part of the array. *)
Insert(n) == \E i \in 0 .. Len(abs[n]), k \in 0 .. MaxSize - Len(abs[n]), v \in Values :
    Change(n, InsertIn(ary[n], i, k, v),
           SubSeq(abs[n], 1, i) \o Times(v, k) \o SubSeq(abs[n], i + 1, Len(abs[n])))
Erase(n) == \E i, j \in 0 .. Len(abs[n]) :
    /\ i <= j
    /\ Change(n, EraseIn(ary[n], i, j), SubSeq(abs[n], 1, i) \o SubSeq(abs[n], j + 1, Len(abs[n])))
Resize(n) == \E k \in 0 .. MaxSize, v \in Values :
    Change(n, ResizeIn(ary[n], k, v), [i \in 1 .. k |-> IF i <= Len(abs[n]) THEN abs[n][i] ELSE v])
Reserve(n) == \E k \in 0 .. MaxSize : Change(n, ReserveIn(ary[n], k), abs[n])
SetCapacity(n) == \E k \in 0 .. MaxSize :
    Change(n, SetCapacityIn(ary[n], k), [i \in 1 .. (IF k < Len(abs[n]) THEN k ELSE Len(abs[n])) |-> abs[n][i]])
Clear(n) == Change(n, ClearIn(ary[n]), <<>>)
Assign(n) == \E k \in 0 .. MaxSize, v \in Values :
    Change(n, [FillRange(ReserveIn(ClearIn(ary[n]), k), 0, k, v) EXCEPT !.size = k], Times(v, k))

(* Construction with a size, in an array that was never used.              *)
Construction(n) == \E k \in 0 .. MaxSize :
    /\ ary[n] = New
    /\ Change(n, FillRange([New EXCEPT !.cells = RawCells(k), !.size = k], 0, k, Default), Times(Default, k))

(* Copy assignment goes through a copy and swap, whose rest is destroyed;  *)
(* move assignment clears the target and swaps.                            *)
CopyFrom(n) == Change(n, Copy(ary[Other(n)]), abs[Other(n)])
MoveFrom(n) ==
    /\ ary' = [ary EXCEPT ![n] = ary[Other(n)], ![Other(n)] = ClearIn(ary[n])]
    /\ abs' = [abs EXCEPT ![n] = abs[Other(n)], ![Other(n)] = <<>>]

Next == \E n \in Arrays :
            \/ Insert(n) \/ Erase(n) \/ Resize(n) \/ Reserve(n) \/ SetCapacity(n)
            \/ Clear(n) \/ Assign(n) \/ Construction(n) \/ CopyFrom(n) \/ MoveFrom(n)

Spec == Init /\ [][Next]_vars
-----------------------------------------------------------------------------
(* Elements live exactly in the cells below the size: nothing is           *)
(* constructed over a live element, destroyed twice, read after it was     *)
(* moved away, or left alive behind the end, and the values are those of   *)
(* a sequence under the same operations (dynary.hh:460).                   *)
IsSequence == \A n \in Arrays :
    /\ ~ ary[n].bad
    /\ ary[n].size <= Cap(ary[n])
    /\ ary[n].cells = abs[n] \o RawCells(Cap(ary[n]) - ary[n].size)
=============================================================================
