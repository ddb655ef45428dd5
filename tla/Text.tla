-------------------------------- MODULE Text --------------------------------
(***************************************************************************)
(* Searching and cutting strings: the members of StringImpl and the        *)
(* functions on file names in str.hh, and StrMatchPattern of strutil.hh.   *)
(* Positions count from zero as in the code; a text is a sequence of       *)
(* characters.                                                             *)
(***************************************************************************)
EXTENDS Integers, SequencesExt, FiniteSetsExt

CONSTANTS Texts,          \* the strings
          Patterns,       \* what is searched, and replaced by sub: not empty, and no
                          \*   such pattern overlaps with itself
          Replacements,
          Wild,           \* patterns of StrMatchPattern; no text holds a star
          None

VARIABLES text,
          answer          \* [op, arg, value] of the last call, or None

vars == <<text, answer>>

Init == text \in Texts /\ answer = None

At(s, pos) == s[pos + 1]
Part(s, pos, end) == SubSeq(s, pos + 1, end)
Least(S) == IF S = {} THEN -1 ELSE Min(S)
Answer(op, arg, value) == answer = None /\ answer' = [op |-> op, arg |-> arg, value |-> value] 
                          /\ UNCHANGED text
-----------------------------------------------------------------------------
(* find of a string from a place on: strstr behind the test of the place.  *)
Find(s, pattern, pos) ==
    IF pos \in 0 .. Len(s) - 1
    THEN Least({k \in pos .. Len(s) - Len(pattern) : Part(s, k, k + Len(pattern)) = pattern})
    ELSE -1
RFind(s, c) == LET S == {k \in 0 .. Len(s) - 1 : At(s, k) = c} IN IF S = {} THEN -1 ELSE Max(S)
Substr(s, start, end) == Part(s, start, IF end < 0 THEN Len(s) ELSE end)

(* sub of a pattern.  First the occurrences are counted, each looked for   *)
(* from the place behind the beginning of the one before...                *)
Occurrences(s, pattern) ==
    LET Next[pos \in -1 .. Len(s)] ==
            IF pos < 0 THEN 0
            ELSE LET found == Find(s, pattern, pos) IN
                 IF found < 0 THEN 0 ELSE 1 + Next[found + 1]
    IN  Next[0]
(* ... then the text is written, behind each occurrence from its end on.   *)
(* Mistake: the second pass goes on behind the occurrence's beginning. *)
WrittenFromBeginning(s, pattern, r) ==
    LET From[pos \in 0 .. Len(s)] ==
            LET found == Find(s, pattern, pos) IN
            IF found < 0 THEN Part(s, pos, Len(s))
            ELSE Part(s, pos, found) \o r \o From[found + 1]
    IN  From[0]
Written(s, pattern, r) ==
    LET From[pos \in 0 .. Len(s)] ==
            LET found == Find(s, pattern, pos) IN
            IF found < 0 THEN Part(s, pos, Len(s))
            ELSE Part(s, pos, found) \o r \o From[found + Len(pattern)]
    IN  From[0]
NewLen(s, pattern, r) == Len(s) + Occurrences(s, pattern) * (Len(r) - Len(pattern))

Sub(pattern, r) ==
    /\ text # <<>>
    /\ Answer("sub", <<pattern, r>>, [count |-> Occurrences(text, pattern),
                                     len |-> NewLen(text, pattern, r),
                                     text |-> Written(text, pattern, r)])

(* StripExtension of a StringType, of a char*, and GetExtension: they look *)
(* for the last dot each in its own way; GetExtension answers None.        *)
StripExtension(s) == IF RFind(s, ".") > 0 THEN Part(s, 0, RFind(s, ".")) ELSE s
StripExtensionChars(s) == IF RFind(s, ".") >= 0 THEN Part(s, 0, RFind(s, ".")) ELSE <<>>
GetExtension(s) == IF RFind(s, ".") < 0 THEN None ELSE Part(s, RFind(s, ".") + 1, Len(s))
Extension == Answer("extension", <<>>, [strip |-> StripExtension(text), ext |-> GetExtension(text),
                                        chars |-> StripExtensionChars(text)])

(* The rest of the text from where it begins or ends with another, or      *)
(* None.  EndsWith is called with endings no longer than the text.         *)
StartsWith(s, beginning) ==
    IF IsPrefix(beginning, s) THEN Part(s, Len(beginning), Len(s)) ELSE None
EndsWith(s, ending) ==
    LET i == Len(s) - Len(ending) IN IF Part(s, i, Len(s)) = ending THEN ending ELSE None
Begins(pattern) == Answer("starts", pattern, StartsWith(text, pattern))
Ends(pattern) == Len(pattern) <= Len(text) /\ Answer("ends", pattern, EndsWith(text, pattern))
-----------------------------------------------------------------------------
(* StrMatchPattern: on a mismatch it goes back to the last star and gives  *)
(* it one character more.                                                  *)
RECURSIVE Turns(_, _, _)
Turns(pattern, str, st) ==
    LET c == IF st.pat < Len(pattern) THEN At(pattern, st.pat) ELSE "end" IN
    IF st.str = Len(str) THEN \A k \in st.pat .. Len(pattern) - 1 : At(pattern, k) = "*"
    ELSE CASE c \in {At(str, st.str), "?"} ->
                Turns(pattern, str, [st EXCEPT !.pat = @ + 1, !.str = @ + 1])
           [] c = "*" ->
                Turns(pattern, str, [st EXCEPT !.wildPat = st.pat, !.wildStr = st.str, !.pat = @ + 1])
           [] c \notin {At(str, st.str), "?", "*"} /\ st.wildPat >= 0 ->
                Turns(pattern, str, [st EXCEPT !.pat = st.wildPat + 1, !.str = st.wildStr + 1, !.wildStr = @ + 1])
           [] OTHER -> FALSE
StrMatchPattern(pattern, str) ==
    Turns(pattern, str, [pat |-> 0, str |-> 0, wildPat |-> -1, wildStr |-> -1])

Match(pattern) == Answer("match", pattern, StrMatchPattern(pattern, text))

Next == \/ \E p \in Patterns : (\E r \in Replacements : Sub(p, r)) \/ Begins(p) \/ Ends(p)
        \/ \E p \in Wild : Match(p)
        \/ Extension
Spec == Init /\ [][Next]_vars
-----------------------------------------------------------------------------
Asked(op) == answer # None /\ answer.op = op

(* sub makes room for what it writes, though it looks for the pattern in   *)
(* two ways, and what it writes is the text with each occurrence replaced  *)
(* (str.hh:404 and 424).                                                   *)
SubFits ==
    Asked("sub") =>
        LET p == answer.arg[1] r == answer.arg[2]
            Starts(k) == k + Len(p) <= Len(text) /\ Part(text, k, k + Len(p)) = p
        IN  /\ answer.value.len = Len(answer.value.text)
            /\ answer.value.text = FlattenSeq([i \in DOMAIN text |->
                   IF Starts(i - 1) THEN r
                   ELSE IF \E k \in i - Len(p) .. i - 2 : k >= 0 /\ Starts(k) THEN <<>> ELSE <<text[i]>>])

(* Name, dot and extension make the file name again; the two versions of   *)
(* StripExtension agree where there is a name before the dot.              *)
NameAndExtension ==
    Asked("extension") =>
        /\ answer.value.ext # None => answer.value.chars \o <<".">> \o answer.value.ext = text
        /\ answer.value.chars # <<>> => answer.value.strip = answer.value.chars

(* A text begins or ends with another exactly if it is that one and a rest. *)
BeginsAndEnds ==
    /\ Asked("starts") => IF answer.value # None THEN answer.arg \o answer.value = text
                          ELSE ~ \E t \in Texts : answer.arg \o t = text
    /\ Asked("ends") => ((answer.value # None) <=> \E t \in Texts : t \o answer.arg = text)

(* StrMatchPattern, which remembers one star only, finds a match if there  *)
(* is any way to give each star a part of the text (strutil.hh:108).       *)
MatchesIfPossible ==
    Asked("match") =>
        LET p == answer.arg
            Can[i \in 0 .. Len(p), k \in 0 .. Len(text)] ==
                IF i = Len(p) THEN k = Len(text)
                ELSE IF At(p, i) = "*" THEN \E n \in k .. Len(text) : Can[i + 1, n]
                ELSE k < Len(text) /\ At(p, i) \in {"?", At(text, k)} /\ Can[i + 1, k + 1]
        IN  answer.value = Can[0, 0]
=============================================================================
