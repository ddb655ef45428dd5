----------------------------- MODULE BinSearch ------------------------------
(***************************************************************************)
(* binSearchLowerBound and binSearch (binsearch.hh), one turn of the loop  *)
(* a step, over a sorted range of a sequence.                              *)
(***************************************************************************)
EXTENDS Integers, Sequences, FiniteSets

CONSTANTS Numbers, MaxLength, None

VARIABLES ary,      \* sorted
          val,
          begin,    \* begin - 1 elements are before it
          count,
          result    \* of binSearch: a position, Len(ary) + 1 for end, or None

vars == <<ary, val, begin, count, result>>

Sorted(s) == \A i, k \in DOMAIN s : i < k => s[i] <= s[k]
Init == /\ \E n \in 0 .. MaxLength : ary \in {s \in [1 .. n -> Numbers] : Sorted(s)}
        /\ val \in Numbers
        /\ begin = 1 /\ count = Len(ary) /\ result = None

Halve == count \div 2
(* Mistake: the middle element stays in the range behind it. *)
RightKeepsMiddle == /\ count > 0 /\ ary[begin + Halve] < val
                    /\ begin' = begin + Halve + 1 /\ count' = count - Halve
                    /\ UNCHANGED <<ary, val, result>>
Right == /\ count > 0 /\ ary[begin + Halve] < val
         /\ begin' = begin + Halve + 1 /\ count' = count - (Halve + 1)
         /\ UNCHANGED <<ary, val, result>>
Left == /\ count > 0 /\ ~ ary[begin + Halve] < val
        /\ count' = Halve
        /\ UNCHANGED <<ary, val, begin, result>>
Found == /\ count = 0 /\ result = None
         /\ result' = IF begin <= Len(ary) /\ ~ val < ary[begin] THEN begin ELSE Len(ary) + 1
         /\ UNCHANGED <<ary, val, begin, count>>

Next == Right \/ Left \/ Found
Spec == Init /\ [][Next]_vars
-----------------------------------------------------------------------------
TypeOK == /\ ary \in Seq(Numbers) /\ Sorted(ary) /\ val \in Numbers
          /\ begin \in Nat \ {0} /\ count \in Nat
          /\ result \in Nat \cup {None} /\ (result # None => count = 0)

(* The loop never loses the lower bound from its range and ends on it, in  *)
(* ranges of every length and with equal elements; binSearch finds the     *)
(* value if it is there (binsearch.hh:31).                                 *)
FindsLowerBound ==
    /\ begin + count <= Len(ary) + 1
    /\ \A k \in DOMAIN ary : (k < begin => ary[k] < val) /\ (k >= begin + count => ary[k] >= val)
    /\ result # None =>
          IF \E k \in DOMAIN ary : ary[k] = val
          THEN result = Cardinality({k \in DOMAIN ary : ary[k] < val}) + 1
          ELSE result = Len(ary) + 1

IInv == TypeOK /\ FindsLowerBound
=============================================================================
