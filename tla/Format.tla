------------------------------- MODULE Format -------------------------------
(***************************************************************************)
(* FormatContainer (format.inl): a format in which %N stands for the N-th  *)
(* argument, counted from zero, and %% for a percent sign.  GetStr goes    *)
(* through it twice, once to know the length and once to fill the memory   *)
(* it allocates for it.  Texts are sequences of characters.                *)
(***************************************************************************)
EXTENDS Integers, SequencesExt

CONSTANTS FormatStrs,     \* formats; none ends in a percent sign that stands alone
          Arguments,      \* texts With is called with
          MaxArgs,
          Digits,         \* <<"0", "1", ...>>
          None

VARIABLES fmt, args,
          str             \* [len, text]: lenFmt and what GetStr has filled in, or None

vars == <<fmt, args, str>>

Init == fmt \in FormatStrs /\ args = <<>> /\ str = None

CharAt(i) == IF i <= Len(fmt) THEN fmt[i] ELSE "end"
IsDigit(c) == \E d \in DOMAIN Digits : Digits[d] = c
(* The first place from i on that holds no digit. *)
BehindDigits(i) ==
    CHOOSE j \in i .. Len(fmt) + 1 :
        ~ IsDigit(CharAt(j)) /\ \A k \in i .. j - 1 : IsDigit(fmt[k])
(* atoi. *)
Number(i) ==
    FoldLeft(LAMBDA n, c : n * 10 + SelectInSeq(Digits, LAMBDA d : d = c) - 1, 0,
             SubSeq(fmt, i, BehindDigits(i) - 1))
-----------------------------------------------------------------------------
(* With and AllocNode: the text with its terminator. *)
With(s) ==
    /\ Len(args) < MaxArgs
    /\ args' = Append(args, s)
    /\ str' = None /\ UNCHANGED fmt

(* The first pass. *)
RECURSIVE LenFrom(_, _)
LenFrom(i, len) ==
    LET j == i + 1 IN
    CASE i > Len(fmt) -> len
      [] i <= Len(fmt) /\ fmt[i] # "%" -> LenFrom(j, len + 1)
      [] OTHER ->
           CASE IsDigit(CharAt(j)) ->
                  LenFrom(BehindDigits(j), len + (IF Number(j) >= Len(args) THEN BehindDigits(j) - i
                                                  ELSE Len(args[Number(j) + 1])))
             [] CharAt(j) = "%" -> LenFrom(j + 1, len + 1)
             [] OTHER -> LenFrom(j + 1, len + 2)

(* The second. *)
(* Mistake: an argument that does not exist is left out. *)
RECURSIVE FillFromDropping(_, _)
FillFromDropping(i, out) ==
    LET j == i + 1 IN
    CASE i > Len(fmt) -> out
      [] i <= Len(fmt) /\ fmt[i] # "%" -> FillFromDropping(j, Append(out, fmt[i]))
      [] OTHER ->
           CASE IsDigit(CharAt(j)) ->
                  FillFromDropping(BehindDigits(j),
                      out \o (IF Number(j) < Len(args) THEN args[Number(j) + 1] ELSE <<>>))
             [] CharAt(j) = "%" -> FillFromDropping(j + 1, Append(out, "%"))
             [] OTHER -> FillFromDropping(j + 1, out \o <<fmt[i], fmt[j]>>)
RECURSIVE FillFrom(_, _)
FillFrom(i, out) ==
    LET j == i + 1 IN
    CASE i > Len(fmt) -> out
      [] i <= Len(fmt) /\ fmt[i] # "%" -> FillFrom(j, Append(out, fmt[i]))
      [] OTHER ->
           CASE IsDigit(CharAt(j)) ->
                  FillFrom(BehindDigits(j),
                      out \o (IF Number(j) < Len(args) THEN args[Number(j) + 1]
                              ELSE SubSeq(fmt, i, BehindDigits(j) - 1)))
             [] CharAt(j) = "%" -> FillFrom(j + 1, Append(out, "%"))
             [] OTHER -> FillFrom(j + 1, out \o <<fmt[i], fmt[j]>>)

GetStr == /\ str' = [len |-> LenFrom(1, 0), text |-> FillFrom(1, <<>>)]
          /\ UNCHANGED <<fmt, args>>

Next == GetStr \/ \E s \in Arguments : With(s)
Spec == Init /\ [][Next]_vars
-----------------------------------------------------------------------------
(* The pieces of a format: a place that no piece covers begins the next.   *)
(* What each place contributes, told from the places before it.            *)
Starts == LET Cut[i \in 1 .. Len(fmt)] ==     \* where the piece that covers i begins
                  IF i = 1 THEN 1
                  ELSE LET s == Cut[i - 1] IN
                       IF fmt[s] = "%" /\ (i = s + 1 \/ \A k \in s + 1 .. i : IsDigit(fmt[k]))
                       THEN s ELSE i
          IN  {Cut[i] : i \in 1 .. Len(fmt)}
Piece(s) == SubSeq(fmt, s, CHOOSE e \in s .. Len(fmt) :
                               (e = Len(fmt) \/ e + 1 \in Starts) /\ \A k \in s + 1 .. e : k \notin Starts)
Means(p, n) == (* argument n, for fewer than ten of them *)
    Len(p) > 1 /\ p[Len(p)] = Digits[n] /\ \A k \in 2 .. Len(p) - 1 : p[k] = "0"
Meaning(p) ==
    CASE p = <<"%", "%">> -> <<"%">>
      [] p[1] = "%" /\ (\E n \in DOMAIN args : Means(p, n)) -> args[CHOOSE n \in DOMAIN args : Means(p, n)]
      [] OTHER -> p

(* GetStr replaces each %N by its argument and leaves one without argument *)
(* as it is, whatever the arguments contain; the length counted in the     *)
(* first pass is that of the text filled in by the second, which writes    *)
(* without looking at it (format.inl:94 and 136).                          *)
FormatFits ==
    str # None =>
        /\ str.len = Len(str.text)
        /\ str.text = FlattenSeq([k \in 1 .. Cardinality(Starts) |->
                          Meaning(Piece(SetToSortSeq(Starts, <)[k]))])
=============================================================================
