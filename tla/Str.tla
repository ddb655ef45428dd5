-------------------------------- MODULE Str ---------------------------------
(***************************************************************************)
(* StringImpl (str.hh): strings that share their data, with a count in     *)
(* front of it, and copy it before they write.  A string is a sequence of  *)
(* characters; Vars are the program's string objects, Blocks the memory    *)
(* for their data.                                                         *)
(***************************************************************************)
EXTENDS Naturals, Sequences, FiniteSets

CONSTANTS Vars, Blocks, Null,
          Chars, MaxLength,   \* bound: characters of a string
          MaxRefs             \* the largest count (2^16 - 1)

VARIABLES data,    \* [Vars -> Blocks \cup {Null}]: m_data
          block,   \* [Blocks -> [refs, text]]; refs 0 where it is free
          value    \* [Vars -> Seq(Chars)]: what every string should be

vars == <<data, block, value>>

Init == /\ data = [v \in Vars |-> Null]
        /\ block = [b \in Blocks |-> [refs |-> 0, text |-> <<>>]]
        /\ value = [v \in Vars |-> <<>>]

(* States as records, for the calls that are made of others.               *)
Now == [data |-> data, block |-> block]
Becomes(s, v, text) == /\ data' = s.data /\ block' = s.block
                       /\ value' = [value EXCEPT ![v] = text]
Text(s, v) == IF s.data[v] = Null THEN <<>> ELSE s.block[s.data[v]].text
Fresh(s) == CHOOSE b \in Blocks : s.block[b].refs = 0

(* v's data is at to, and block b holds x. *)
Changed(s, v, to, b, x) == [data |-> [s.data EXCEPT ![v] = to], block |-> [s.block EXCEPT ![b] = x]]

CopyString(s, v, text) == LET b == Fresh(s) IN Changed(s, v, b, b, [refs |-> 1, text |-> text])
DecRef(s, v) == LET b == s.data[v]
                IN  IF b = Null THEN s
                    ELSE Changed(s, v, Null, b, [s.block[b] EXCEPT !.refs = @ - 1])

(* Mistake: the count goes on where it is at its largest value. *)
CopyDataWraps(s, v, b) == Changed(s, v, b, b, [s.block[b] EXCEPT !.refs = (@ + 1) % (MaxRefs + 1)])

(* CopyData: one more shares the data, or, at the largest count, a copy.   *)
CopyData(s, v, b) == IF s.block[b].refs = MaxRefs THEN CopyString(s, v, s.block[b].text)
                     ELSE Changed(s, v, b, b, [s.block[b] EXCEPT !.refs = @ + 1])

(* Copy assignment, with nothing to do for strings that share data, and    *)
(* copy construction.                                                      *)
Assigned(s, v, w) == IF s.data[v] = s.data[w] THEN s
                     ELSE LET t == DecRef(s, v)
                          IN  IF s.data[w] = Null THEN t ELSE CopyData(t, v, s.data[w])
Assign(v, w) == Becomes(Assigned(Now, v, w), v, value[w])

(* Assigning a string just made from characters: a move assignment.        *)
Renewed(s, v, text) == CopyString(DecRef(s, v), v, text)
AssignText(v, text) == Becomes(Renewed(Now, v, text), v, text)

Move(v, w) ==
    /\ v # w
    /\ LET s == DecRef(Now, v)
       IN  data' = [s.data EXCEPT ![v] = data[w], ![w] = Null] /\ block' = s.block
    /\ value' = [value EXCEPT ![v] = value[w], ![w] = <<>>]

Drop(v) == Becomes(DecRef(Now, v), v, <<>>)

(* v += w: the sum is made in new data, with 0 and not the data for an     *)
(* empty string.                                                           *)
AddTo(v, w) == /\ Len(value[v]) + Len(value[w]) <= MaxLength
               /\ Becomes(Renewed(Now, v, Text(Now, v) \o Text(Now, w)), v, value[v] \o value[w])

(* Mistake: the data is written where it is shared. *)
UnsharedNever(s, v) == s

(* write_str and operator[]: data that others share is copied first.       *)
Unshared(s, v) == IF s.block[s.data[v]].refs > 1 THEN Renewed(s, v, Text(s, v)) ELSE s
Rewritten(s, v, text) ==
    LET b == s.data[v] IN Changed(s, v, b, b, [s.block[b] EXCEPT !.text = text])
Write(v, i, c) ==
    /\ i \in DOMAIN value[v]
    /\ LET s == Unshared(Now, v)
       IN  Becomes(Rewritten(s, v, [Text(s, v) EXCEPT ![i] = c]), v, [value[v] EXCEPT ![i] = c])

(* sub of a character: copied at the first one replaced, if it is shared.  *)
Sub(v, c, d) ==
    LET Replaced(text) == [i \in DOMAIN text |-> IF text[i] = c THEN d ELSE text[i]]
        s == IF \E i \in DOMAIN Text(Now, v) : Text(Now, v)[i] = c THEN Unshared(Now, v) ELSE Now
    IN  /\ data[v] # Null
        /\ Becomes(Rewritten(s, v, Replaced(Text(s, v))), v, Replaced(value[v]))

Texts == UNION {[1 .. n -> Chars] : n \in 0 .. MaxLength}
Next == \E v \in Vars :
            \/ \E text \in Texts : AssignText(v, text)
            \/ \E w \in Vars : Assign(v, w) \/ Move(v, w) \/ AddTo(v, w)
            \/ \E i \in 1 .. MaxLength, c \in Chars : Write(v, i, c)
            \/ \E c, d \in Chars : Sub(v, c, d)
            \/ Drop(v)
Spec == Init /\ [][Next]_vars
-----------------------------------------------------------------------------
TypeOK == /\ data \in [Vars -> Blocks \cup {Null}]
          /\ block \in [Blocks -> [refs : 0 .. MaxRefs, text : Seq(Chars)]]
          /\ value \in [Vars -> Seq(Chars)]

(* Strings that share data are still values: none sees what is written     *)
(* through another (str.hh:298).                                           *)
StringsAreValues == \A v \in Vars : Text(Now, v) = value[v]

(* The count of a block is the number of strings that have it, at its      *)
(* largest value too, so that none is freed in use or never freed          *)
(* (str.hh:478).                                                           *)
CountsSharers == \A b \in Blocks : block[b].refs = Cardinality({v \in Vars : data[v] = b})

IInv == TypeOK /\ StringsAreValues /\ CountsSharers
=============================================================================
