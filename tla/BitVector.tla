----------------------------- MODULE BitVector -----------------------------
(***************************************************************************)
(* BitVector (bitvector.cpp, bitvector.hh) over words of W bits.  A word   *)
(* is the set of its bits that are one; what the code does with masks and  *)
(* shifts is done on sets.  A shift by W or more, which C++ leaves open,   *)
(* is one by its remainder, as the processor does it.                      *)
(***************************************************************************)
EXTENDS Integers, Sequences, FiniteSets

CONSTANTS W,        \* kNumBits
          MaxBits   \* bound: bits of a vector

Bit == 0 .. W - 1
Ones(value) == IF value THEN Bit ELSE {}
Low(n) == 0 .. (n % W) - 1              \* (1 << n) - 1
ShiftedDown(n) == 0 .. W - 1 - (n % W)  \* ~0 >> n
WordsFor(n) == (n + W - 1) \div W

VARIABLES bv,      \* [num, words]: m_numBits, m_bytes
          other,   \* another vector, which operations read or exchange
          abs,     \* the bits bv should hold, [0 .. num - 1 -> BOOLEAN]
          otherAbs

vars == <<bv, other, abs, otherAbs>>

Make(n, value) == [num |-> n, words |-> [i \in 1 .. WordsFor(n) |-> Ones(value)]]
Get(b, i) == (i % W) \in b.words[i \div W + 1]
SetBit(b, i, value) ==
    [b EXCEPT !.words[i \div W + 1] = (@ \ {i % W}) \cup (IF value THEN {i % W} ELSE {})]

(* Mistake: the bits of the partial word that are given up and taken again keep their value. *)
ResizedWithoutPartial(b, n, value) ==
    [num |-> n, words |-> [i \in 1 .. WordsFor(n) |-> IF i <= Len(b.words) THEN b.words[i] ELSE Ones(value)]]

(* resize: whole words are added or dropped; a partial last word is        *)
(* repaired, at the place of the last word there is now.                   *)
Resized(b, n, value) ==
    LET count == WordsFor(n)
        words == [i \in 1 .. count |-> IF i <= Len(b.words) THEN b.words[i] ELSE Ones(value)]
        partial == b.num % W
        old == Low(partial)
        new == Low(n - (b.num - partial)) \ old
    IN  [num |-> n,
         words |-> IF partial = 0 THEN words
                   ELSE [words EXCEPT ![count] = (@ \cap old) \cup (Ones(value) \cap new)]]

PushBack(b, value) ==
    LET n == b.num + 1
    IN  SetBit([num |-> n, words |-> IF WordsFor(n) > Len(b.words) THEN Append(b.words, {}) ELSE b.words],
               n - 1, value)

PopCount(b) == Cardinality({<<i, j>> \in (1 .. Len(b.words)) \X Bit : j \in b.words[i]})

(* find_next_true and find_next_false, Flip choosing the bits looked for:  *)
(* the first word is always read at index 0.                               *)
Lowest(word) == IF word = {} THEN W ELSE CHOOSE i \in word : \A j \in word : i <= j
FindNext(b, first, Flip(_)) ==
    IF first >= b.num THEN b.num
    ELSE LET block == first \div W
             here == Lowest(Flip(b.words[1]) \ Low(first))
             later == {i \in block + 1 .. Len(b.words) - 1 : Flip(b.words[i + 1]) # {}}
         IN  IF here < W THEN block * W + here
             ELSE IF later = {} THEN b.num
             ELSE Lowest(later) * W + Lowest(Flip(b.words[Lowest(later) + 1]))
FindNextTrue(b, first) == FindNext(b, first, LAMBDA w : w)
FindNextFalse(b, first) == FindNext(b, first, LAMBDA w : Bit \ w)

(* subtract and add, word by word under a mask made of the number of bits. *)
Combine(b, o, Op(_, _)) ==
    [b EXCEPT !.words = [i \in DOMAIN b.words |->
        IF i > Len(o.words) THEN b.words[i] ELSE Op(b.words[i] \cap ShiftedDown(b.num), o.words[i])]]
Subtract(b, o) == Combine(b, o, LAMBDA x, y : x \ (y \cap ShiftedDown(o.num)))
Add(b, o) == LET wide == IF o.num > b.num THEN Resized(b, o.num, FALSE) ELSE b
             IN  Combine(wide, o, LAMBDA x, y : x \cup (y \cap ShiftedDown(wide.num)))
-----------------------------------------------------------------------------
(* No ones behind the end. *)
Tidy(b) == \A i \in b.num .. Len(b.words) * W - 1 : ~ Get(b, i)

(* Where the words are what they should be.  resize gets them right        *)
(*   from a size that is a multiple of W;                                  *)
(*   among the sizes of the same last word, but for ones up to its end,    *)
(*   where the shift of bitvector.cpp:84 is by a whole word;               *)
(*   into later words with zeros, if there is nothing behind the old end:  *)
(*   the word repaired (bitvector.cpp:80-86) is the new last one, the old  *)
(*   one's free bits stay, and with ones both may be wrong;                *)
(*   back to an earlier word if that keeps no more bits of it than the old *)
(*   last word had, as the rest is cut off there.                          *)
ResizeKeeps(b, n, value) ==
    LET partial == b.num % W
        here == WordsFor(b.num)
        there == WordsFor(n)
    IN  \/ partial = 0
        \/ there = here /\ (n % W # 0 \/ ~ value)
        \/ there > here /\ ~ value /\ Tidy(b)
        \/ there < here /\ n % W \in 1 .. partial

(* subtract and add shift the mask down by the bits that are used, not by  *)
(* those that are free (bitvector.cpp:195, 219), in every word that both   *)
(* vectors have: it covers the bits if there are whole words only, or no   *)
(* more than half of one.  The other vector has no ones behind its end, as *)
(* the code assumes (bitvector.cpp:188).                                   *)
MaskKeeps(n) == n % W = 0 \/ n <= W \div 2
CombineKeeps(n, o) == Len(o.words) = 0 \/ n = 0 \/ (MaskKeeps(n) /\ Tidy(o))

Held(b) == [i \in 0 .. b.num - 1 |-> Get(b, i)]
Wider(f, n, value) == [i \in 0 .. n - 1 |-> IF i \in DOMAIN f THEN f[i] ELSE value]
Is(f, i) == i \in DOMAIN f /\ f[i]

Init == /\ \E n, m \in 0 .. MaxBits, value \in BOOLEAN :
              /\ bv = Make(n, value) /\ abs = [i \in 0 .. n - 1 |-> value]
              /\ other = Make(m, FALSE) /\ otherAbs = [i \in 0 .. m - 1 |-> FALSE]

(* bv becomes b.  It should hold f then; where the code does not keep the  *)
(* bits, what it holds is taken for what it should hold from there on.     *)
Becomes(b, f, keeps) ==
    /\ bv' = b
    /\ abs' = IF keeps THEN f ELSE Held(b)
    /\ UNCHANGED <<other, otherAbs>>

Assign(i, value) == i < bv.num /\ Becomes(SetBit(bv, i, value), [abs EXCEPT ![i] = value], TRUE)
Push(value) == bv.num < MaxBits /\ Becomes(PushBack(bv, value), Wider(abs, bv.num + 1, value), TRUE)
Resize(n, value) ==
    /\ n > 0 \/ bv.num % W = 0           \* else the code writes in front of the words
    /\ Becomes(Resized(bv, n, value), Wider(abs, n, value), ResizeKeeps(bv, n, value))
UnsetAll == Becomes([bv EXCEPT !.words = [i \in DOMAIN @ |-> {}]], [i \in DOMAIN abs |-> FALSE], TRUE)
SubtractOther == Becomes(Subtract(bv, other), [i \in DOMAIN abs |-> abs[i] /\ ~ Is(otherAbs, i)],
                         CombineKeeps(bv.num, other) /\ (bv.num = 0 \/ MaskKeeps(other.num)))
AddOther ==
    LET n == IF other.num > bv.num THEN other.num ELSE bv.num
    IN  Becomes(Add(bv, other), [i \in 0 .. n - 1 |-> Is(abs, i) \/ Is(otherAbs, i)],
                /\ other.num > bv.num => ResizeKeeps(bv, other.num, FALSE)
                /\ CombineKeeps(n, other))
Swap == bv' = other /\ other' = bv /\ abs' = otherAbs /\ otherAbs' = abs
CopyTo == other' = bv /\ otherAbs' = abs /\ UNCHANGED <<bv, abs>>
MoveTo == /\ other' = bv /\ otherAbs' = abs
          /\ bv' = Make(0, FALSE) /\ abs' = [i \in {} |-> FALSE]

Next == \/ \E value \in BOOLEAN : \/ Push(value)
                                  \/ \E i \in 0 .. MaxBits - 1 : Assign(i, value)
                                  \/ \E n \in 0 .. MaxBits : Resize(n, value)
        \/ UnsetAll \/ SubtractOther \/ AddOther \/ Swap \/ CopyTo \/ MoveTo

Spec == Init /\ [][Next]_vars
-----------------------------------------------------------------------------
(* Every bit below the size is the one last written, whatever the words    *)
(* hold behind it, through set, push_back, unset_all, copies and swaps     *)
(* always, through resize, subtract and add where ResizeKeeps, MaskKeeps   *)
(* and CombineKeeps say so: there growing, shrinking and the partial word  *)
(* lose and invent nothing (bitvector.cpp:68).  Elsewhere they do, and     *)
(* nothing is said of that step.                                           *)
BitsAgree == /\ bv.num = Cardinality(DOMAIN abs)
             /\ \A i \in DOMAIN abs : Get(bv, i) = abs[i]

(* In a vector with no ones behind its end a search finds the next bit,    *)
(* across words, or the size, if it begins in the first word, or in one    *)
(* that is the same as the first: the code reads the first in any case     *)
(* (bitvector.cpp:134, 163).                                               *)
NextOf(f, first, value) ==
    LET found == {i \in DOMAIN f : i >= first /\ f[i] = value}
    IN  IF found = {} THEN Cardinality(DOMAIN f) ELSE Lowest(found)
SearchesAgree == Tidy(bv) =>
    \A first \in DOMAIN abs :
        bv.words[first \div W + 1] = bv.words[1] =>
            /\ FindNextTrue(bv, first) = NextOf(abs, first, TRUE)
            /\ FindNextFalse(bv, first) = NextOf(abs, first, FALSE)
=============================================================================
