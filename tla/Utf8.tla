-------------------------------- MODULE Utf8 --------------------------------
(***************************************************************************)
(* utf8_decode, utf8_strlen and the iterator of utf8range (utf8str.cpp and *)
(* utf8str.hh) over a text of bytes that ends in a zero.  The text is that *)
(* of a few code points; one continuation byte may have been replaced.     *)
(***************************************************************************)
EXTENDS Integers, SequencesExt

CONSTANTS CodePoints, MaxPoints,
          Other                     \* the byte a continuation byte is replaced by

VARIABLES points,    \* the code points of the text
          bytes,
          spoiled,   \* the byte that was replaced, or 0
          pos,       \* m_pos: [value, next]; next is 0 for nullptr
          visited,   \* what the iterator gave
          length     \* what utf8_strlen returned, or -1

vars == <<points, bytes, spoiled, pos, visited, length>>

(* The standard's encoding: what utf8_decode takes apart. *)
Continuation(n) == 128 + (n % 64)
Encode(cp) ==
    CASE cp < 128 -> <<cp>>
      [] cp \in 128 .. 2047 -> <<192 + cp \div 64, Continuation(cp)>>
      [] cp \in 2048 .. 65535 -> <<224 + cp \div 4096, Continuation(cp \div 64), Continuation(cp)>>
      [] OTHER -> <<240 + cp \div 262144, Continuation(cp \div 4096),
                    Continuation(cp \div 64), Continuation(cp)>>

End == [value |-> 0, next |-> 0]    \* utf8range::end()

Init ==
    \E n \in 1 .. MaxPoints : \E ps \in [1 .. n -> CodePoints] :
        LET text == FlattenSeq([k \in 1 .. n |-> Encode(ps[k])]) \o <<0>> IN
        /\ points = ps
        /\ spoiled \in {0} \cup (IF n = 1 THEN {} ELSE 2 .. Len(Encode(ps[1])))
        /\ bytes = IF spoiled = 0 THEN text ELSE [text EXCEPT ![spoiled] = Other]
        /\ pos = End /\ visited = <<>> /\ length = -1
-----------------------------------------------------------------------------
Continuations(byte) == CASE byte \div 8 = 30 -> 3 [] byte \div 16 = 14 -> 2
                         [] byte \div 32 = 6 -> 1 [] OTHER -> 0
Lead(byte) == CASE byte < 128 -> byte        [] byte \div 8 = 30 -> byte % 8
                [] byte \div 16 = 14 -> byte % 16 [] byte \div 32 = 6 -> byte % 32
                [] OTHER -> 0

(* The code point at a byte and where the next one begins; a byte that is  *)
(* no continuation where one belongs is consumed and makes the value 0.    *)
(* Mistake: it goes on behind the whole sequence. *)
DecodeWhole(at) ==
    LET n == Continuations(bytes[at])
        tail == [k \in 1 .. n |-> bytes[at + k]]
    IN  [value |-> FoldLeft(LAMBDA v, b : v * 64 + (b % 64), Lead(bytes[at]), tail), next |-> at + n + 1]
Decode(at) ==
    LET n == Continuations(bytes[at])
        bad == {k \in 1 .. n : bytes[at + k] \div 64 # 2 /\ \A j \in 1 .. k - 1 : bytes[at + j] \div 64 = 2}
        tail == [k \in 1 .. n |-> bytes[at + k]]
    IN  IF bad # {} THEN [value |-> 0, next |-> at + (CHOOSE k \in bad : TRUE) + 1]
        ELSE [value |-> FoldLeft(LAMBDA v, b : v * 64 + (b % 64), Lead(bytes[at]), tail), next |-> at + n + 1]

(* begin() and the iterator's ++, with *it taken in between. *)
Begin == /\ visited = <<>>
         /\ pos' = Decode(1) /\ visited' = <<pos'.value>>
         /\ UNCHANGED <<points, bytes, spoiled, length>>
Increment ==
    /\ pos.next # 0
    /\ IF bytes[pos.next] # 0
       THEN pos' = Decode(pos.next) /\ visited' = Append(visited, pos'.value)
       ELSE pos' = End /\ UNCHANGED visited
    /\ UNCHANGED <<points, bytes, spoiled, length>>

RECURSIVE LengthFrom(_)
LengthFrom(at) == IF bytes[at] = 0 THEN 0 ELSE 1 + LengthFrom(Decode(at).next)
StrLen == /\ length = -1
          /\ length' = LengthFrom(1)
          /\ UNCHANGED <<points, bytes, spoiled, pos, visited>>

Next == Begin \/ Increment \/ StrLen
Spec == Init /\ [][Next]_vars
-----------------------------------------------------------------------------
(* The iterator visits the text's code points, of every length and at the  *)
(* borders between lengths, and utf8_strlen counts them.  A wrong          *)
(* continuation byte, consumed on the way (utf8str.cpp:56), spoils the     *)
(* code point it is in and none behind.                                    *)
IterationDecodes ==
    LET ended == visited # <<>> /\ pos = End IN
    /\ spoiled = 0 => /\ IsPrefix(visited, points) /\ (ended => visited = points)
                      /\ length \in {-1, Len(points)}
    /\ spoiled # 0 /\ ended => IsSuffix(Tail(points), visited) /\ visited[1] = 0
    /\ ended /\ length # -1 => length = Len(visited)
=============================================================================
