---------------------------- MODULE ArrayString -----------------------------
(***************************************************************************)
(* ArrayString<SIZE> (str.hh): characters in an array of fixed size, ended *)
(* by a zero, with the length kept beside them.                            *)
(***************************************************************************)
EXTENDS Integers, SequencesExt, FiniteSetsExt

CONSTANTS SIZE, Chars, End,    \* End: the zero character
          Texts,               \* texts strings are assigned and added
          ShortTexts           \* strings (StringImpl) it is made from: shorter than SIZE - 1

VARIABLES data,      \* m_data, from 0 to SIZE - 1
          length,    \* m_length
          value      \* what the string should be

vars == <<data, length, value>>
Init == data = [i \in 0 .. SIZE - 1 |-> End] /\ length = 0 /\ value = <<>>

(* strlen. *)
StrLen(d) == Min({i \in 0 .. SIZE - 1 : d[i] = End})
(* strncpy of n characters from place k on: it fills up with zeros. *)
Copied(d, k, s, n) ==
    [i \in DOMAIN d |-> IF i \in k .. k + n - 1
                        THEN IF i - k < Len(s) THEN s[i - k + 1] ELSE End ELSE d[i]]
Cut(s, n) == SubSeq(s, 1, Min({n, Len(s)}))
-----------------------------------------------------------------------------
(* Construction and assignment from characters, whatever their number. *)
Assign(s) ==
    LET d == [Copied(data, 0, s, SIZE - 1) EXCEPT ![SIZE - 1] = End] IN
    data' = d /\ length' = StrLen(d) /\ value' = Cut(s, SIZE - 1)

(* Construction from a StringImpl: up to its zero or what fits. *)
FromStr(s) ==
    LET copyLen == Min({SIZE - 1, Len(s) + 1}) IN
    /\ data' = [Copied(data, 0, s, copyLen) EXCEPT ![copyLen] = End]
    /\ length' = copyLen - 1
    /\ value' = Cut(s, SIZE - 1)

(* Mistake: the length of the text is added, not what there was room for. *)
AppendAll(s) ==
    LET n == Min({Len(s), SIZE - 1 - length}) IN
    /\ data' = [Copied(data, length, s, n) EXCEPT ![length + n] = End]
    /\ length' = length + Len(s)
    /\ value' = Cut(value \o s, SIZE - 1)
(* operator+=. *)
AppendText(s) ==
    LET n == Min({Len(s), SIZE - 1 - length}) IN
    /\ data' = [Copied(data, length, s, n) EXCEPT ![length + n] = End]
    /\ length' = length + n
    /\ value' = Cut(value \o s, SIZE - 1)

(* sub of a character. *)
Sub(c, replace) ==
    /\ data' = [i \in DOMAIN data |-> IF i < length /\ data[i] = c THEN replace ELSE data[i]]
    /\ value' = [i \in DOMAIN value |-> IF value[i] = c THEN replace ELSE value[i]]
    /\ UNCHANGED length

(* write_str, written to by a function that ends the text or not, and      *)
(* resize_after_write.                                                     *)
WriteAndResize(s) ==
    LET d == Copied(data, 0, s, Len(s))
        n == IF \E i \in DOMAIN d : d[i] = End THEN Min({SIZE - 1, StrLen(d)}) ELSE SIZE - 1
    IN  /\ Len(s) <= SIZE
        /\ data' = [d EXCEPT ![n] = End] /\ length' = n
        /\ value' = [i \in 1 .. n |-> d[i - 1]]
(* resize to a length the text has at least. *)
Resize(n) ==
    /\ n <= length
    /\ data' = [data EXCEPT ![n] = End] /\ length' = n /\ value' = Cut(value, n)
Clear == data' = [data EXCEPT ![0] = End] /\ length' = 0 /\ value' = <<>>

Next == \/ \E s \in Texts : Assign(s) \/ AppendText(s) \/ WriteAndResize(s)
        \/ \E s \in ShortTexts : FromStr(s)
        \/ \E c, d \in Chars : Sub(c, d)
        \/ \E n \in 0 .. SIZE - 1 : Resize(n)
        \/ Clear
Spec == Init /\ [][Next]_vars
-----------------------------------------------------------------------------
(* The length kept beside the characters is where their zero is, through   *)
(* every sequence of calls and at the end of the array, where each of them *)
(* cuts the text on its own account (str.hh:77).                           *)
LengthIsStrlen ==
    /\ length <= SIZE - 1 /\ data[length] = End
    /\ [i \in 1 .. length |-> data[i - 1]] = value
    /\ length = StrLen(data)
=============================================================================
