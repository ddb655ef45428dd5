------------------------------ MODULE TokParser -----------------------------
(***************************************************************************)
(* Tokenizer, TokParser and TokWriter (tokparser.cpp): a text is written   *)
(* item by item and read again with the getters.  Characters are strings   *)
(* of length one, but for "nl"; one letter stands for a word where a word  *)
(* has a meaning ("t" for true).  Values are the texts of their items:     *)
(* what atoi and atof make of them is left out, and so are fopen and the   *)
(* messages.  Symbols are words and not numbers, t or f; flags have one   *)
(* bit each.  A text ends with a line break, as the tokenizer looks at one *)
(* character more after punctuation and after an exponent's e.             *)
(***************************************************************************)
EXTENDS Naturals, Sequences, FiniteSets, SequencesExt

CONSTANTS Items,       \* what is written: records [kind, text], or [kind, flags] for Flag
          MaxItems,    \* bound: items of a text
          MaxPieces,   \* bound: tokens they are read as
          MaxToken,    \* characters m_token holds
          BufferSizes, \* maxLen of GetString and GetSymbol
          FlagNames    \* the flags' names, in order

Space == {" ", "nl"}
Digit == {"0", "1"}
Letter == {"a", "b", "e", "t", "f"}
Alnum == Digit \cup Letter
-----------------------------------------------------------------------------
(* Tokenizer::Next.  From(s, i, C): the first place from i on that is not  *)
(* in C.                                                                   *)
At(s, i) == IF i <= Len(s) THEN s[i] ELSE "end"
Least(S) == CHOOSE x \in S : \A y \in S : x <= y
FirstPlace(s, i, Test(_)) == Least({j \in i .. Len(s) : Test(s[j])} \cup {IF i > Len(s) THEN i ELSE Len(s) + 1})
From(s, i, C) == FirstPlace(s, i, LAMBDA c : c \notin C)
Lines(s, i, j) == Cardinality({k \in i .. j - 1 : s[k] = "nl"})

(* Behind comments one line each is counted, and no empty line after them. *)
RECURSIVE SkipComments(_, _, _)
SkipComments(s, i, line) ==
    IF At(s, i) # ";" THEN [at |-> i, line |-> line]
    ELSE SkipComments(s, From(s, FirstPlace(s, i, LAMBDA c : c = "nl"), Space), line + 1)

(* Mistake: the exponent's sign ends the number. *)
ExponentUnsigned(s, i) == IF At(s, i) # "e" THEN i ELSE From(s, i + 1, Digit)

Exponent(s, i) ==
    IF At(s, i) # "e" THEN i
    ELSE From(s, IF At(s, i + 1) = "-" THEN i + 2 ELSE i + 1, Digit)
NumberEnd(s, i) ==
    LET whole == From(s, IF s[i] = "-" THEN i + 1 ELSE i, Digit)
    IN  Exponent(s, IF At(s, whole) = "." THEN From(s, whole + 1, Digit) ELSE whole)

TokenAt(s, i) ==
    LET Tok(type, body, next) == [type |-> type, text |-> body, next |-> next]
        To(type, next) == Tok(type, SubSeq(s, i, next - 1), next)
        quote == FirstPlace(s, i + 1, LAMBDA c : c = "q")
    IN  IF s[i] = "q" THEN Tok("string", SubSeq(s, i + 1, quote - 1), quote + 1)
        ELSE IF s[i] \in Digit \cup {"-"} THEN To("number", NumberEnd(s, i))
        ELSE IF s[i] \in Letter THEN To("symbol", From(s, i, Alnum))
        ELSE To("tok", FirstPlace(s, i, LAMBDA c : c \in Space \cup Alnum))

(* A token, or none at the end of the text: the place stays, the lines     *)
(* have been counted.                                                      *)
Cut(text, n) == SubSeq(text, 1, IF Len(text) < n THEN Len(text) ELSE n)
Stored(tok, line) ==
    [type |-> IF tok.type = "symbol" /\ Cut(tok.text, MaxToken) \in {<<"t">>, <<"f">>} THEN "bool" ELSE tok.type,
     text |-> Cut(tok.text, MaxToken), next |-> tok.next, line |-> line]
NextToken(s, pos, line) ==
    LET Behind(c) == IF c.at > Len(s) THEN [type |-> "none", text |-> <<>>, next |-> pos, line |-> c.line]
                     ELSE Stored(TokenAt(s, c.at), c.line)
        i == From(s, pos, Space)
    IN  Behind(SkipComments(s, i, line + Lines(s, pos, i)))
-----------------------------------------------------------------------------
(* TokParser: p is [pos, line, type, tok, error, eof].                     *)
Holding(p, t) == [p EXCEPT !.pos = t.next, !.line = t.line, !.type = t.type, !.tok = t.text,
                           !.eof = (t.type = "none")]
Consume(s, p) == IF p.eof THEN [p EXCEPT !.error = TRUE]
                 ELSE Holding(p, NextToken(s, p.pos, p.line))
Parser(s) == Consume(s, [pos |-> 1, line |-> 1, type |-> "none", tok |-> <<>>, error |-> FALSE, eof |-> FALSE])
Ok(p) == ~ p.error /\ ~ p.eof
Failed(p) == [p EXCEPT !.error = TRUE]
Got(p, value) == [parser |-> p, value |-> value]

(* Mistake: a token of another type is left where it is. *)
GetTypedKeeps(s, p, type) ==
    IF p.eof THEN Got(Failed(p), <<>>)
    ELSE IF p.type # type THEN Got(Failed(p), <<>>)
    ELSE Got(Consume(s, p), p.tok)

(* GetInt, GetUInt, GetDouble, GetBool and what GetString and GetSymbol    *)
(* have in common: a token of another type is an error, and consumed.      *)
(* GetBool's result is false then, the others' is empty.                   *)
GetTyped(s, p, type) ==
    IF p.eof THEN Got(Failed(p), <<>>)
    ELSE IF p.type # type THEN Got(Consume(s, Failed(p)), <<>>)
    ELSE Got(Consume(s, p), p.tok)

(* A token copied to a buffer of n characters, and the length returned.    *)
(* GetSymbol stops at the token's end.  GetString goes on behind it to the *)
(* buffer's end, and returns that for any string.                          *)
Buffered(s, p, type, n) ==
    LET g == GetTyped(s, p, type)
        length == IF type = "string" THEN n - 1 ELSE Len(Cut(g.value, n - 1))
    IN  Got(g.parser, [text |-> Cut(g.value, n - 1),
                       length |-> IF p.eof \/ p.type # type THEN 0 ELSE length])
GetString(s, p, n) == Buffered(s, p, "string", n)
GetSymbol(s, p, n) == Buffered(s, p, "symbol", n)

(* GetFloat: behind a token that begins with a colon, the bits in hex.     *)
GetFloat(s, p) ==
    LET Bits(raw) == IF At(raw.tok, 1) \in Digit \cup {"a", "b", "e", "f"}
                     THEN Got(Consume(s, raw), raw.tok) ELSE Got(Failed(raw), <<>>)
        Behind(g) == IF At(g.parser.tok, 1) = ":" THEN Bits(Consume(s, g.parser)) ELSE g
    IN  IF p.eof \/ p.type # "number" THEN GetTyped(s, p, "number") ELSE Behind(GetTyped(s, p, "number"))

(* GetFlag: every word between plus signs stands for the first flag whose  *)
(* name begins with it, whatever the type of the token.                    *)
FlagOf(word) == Least({k \in DOMAIN FlagNames : IsPrefix(word, FlagNames[k])} \cup {Len(FlagNames) + 1})
WordsOf(tok) ==
    LET ends == {i \in DOMAIN tok : tok[i] = "+"} \cup {0, Len(tok) + 1}
    IN  {SubSeq(tok, i + 1, Least({j \in ends : j > i}) - 1) : i \in ends \ {Len(tok) + 1}}
GetFlag(s, p) ==
    IF p.eof THEN Got(Failed(p), {})
    ELSE Got(Consume(s, p), {FlagOf(w) : w \in WordsOf(p.tok)} \cap DOMAIN FlagNames)
GetEnum(s, p) ==
    IF p.eof THEN Got(Failed(p), {})
    ELSE Got(Consume(s, p), {k \in DOMAIN FlagNames : FlagNames[k] = p.tok})

IsTok(p, text) == ~ p.eof /\ p.type = "tok" /\ p.tok = text
ExpectTok(s, p, text) ==
    IF p.eof THEN Failed(p)
    ELSE IF p.type # "tok" THEN Consume(s, Failed(p))
    ELSE IF p.tok = text THEN Consume(s, p) ELSE Failed(Consume(s, p))
Skip(s, p) == IF p.eof THEN p ELSE Consume(s, p)

RECURSIVE SkipFrom(_, _, _)
SkipFrom(s, p, depth) ==
    IF ~ Ok(p) \/ depth = 0 THEN [parser |-> p, depth |-> depth]
    ELSE SkipFrom(s, Consume(s, p), IF IsTok(p, <<"{">>) THEN depth + 1
                                    ELSE IF IsTok(p, <<"}">>) THEN depth - 1 ELSE depth)
SkipBlock(s, p) == LET end == SkipFrom(s, ExpectTok(s, p, <<"{">>), 1)
                   IN  IF end.depth = 0 THEN end.parser ELSE Failed(end.parser)

(* The streams: one value, or values in braces. *)
WithValue(values, g) == Got(g.parser, Append(values, g.value))
GetValue(s, p, type) == IF type = "float" THEN GetFloat(s, p) ELSE GetTyped(s, p, type)
RECURSIVE ReadUntilBrace(_, _, _)
ReadUntilBrace(s, g, type) ==      \* g: the parser, and the values so far
    IF ~ Ok(g.parser) \/ IsTok(g.parser, <<"}">>) THEN Got(ExpectTok(s, g.parser, <<"}">>), g.value)
    ELSE ReadUntilBrace(s, WithValue(g.value, GetValue(s, g.parser, type)), type)
GetStream(s, p, type) ==
    IF ~ Ok(p) THEN Got(p, <<>>)
    ELSE IF IsTok(p, <<"{">>) THEN ReadUntilBrace(s, Got(ExpectTok(s, p, <<"{">>), <<>>), type)
    ELSE WithValue(<<>>, GetValue(s, p, type))
-----------------------------------------------------------------------------
(* TokWriter: w is [text, emptyLine].  Flag writes the names of the flags  *)
(* that are set, plus signs between them, and an empty string for none.    *)
Chosen(flags) == SelectSeq([k \in DOMAIN FlagNames |-> k], LAMBDA k : k \in flags)
FlagText(flags) ==
    IF flags = {} THEN <<"q", "q">>
    ELSE FoldLeft(LAMBDA s, k : (IF s = <<>> THEN s ELSE s \o <<"+">>) \o FlagNames[k], <<>>, Chosen(flags))
Printed(x) == IF x.kind = "string" THEN <<"q">> \o x.text \o <<"q">>
              ELSE IF x.kind = "comment" THEN <<";", " ">> \o x.text \o <<"nl">>
              ELSE IF x.kind = "nl" THEN <<"nl">>
              ELSE IF x.kind = "flag" THEN FlagText(x.flags)
              ELSE x.text
WriteItem(w, x) ==
    [text |-> w.text \o (IF w.emptyLine \/ x.kind = "nl" THEN <<>> ELSE <<" ">>) \o Printed(x),
     emptyLine |-> x.kind \in {"comment", "nl"}]
Written(items) ==
    WriteItem(FoldLeft(WriteItem, [text |-> <<>>, emptyLine |-> TRUE], items), [kind |-> "nl"]).text

-----------------------------------------------------------------------------
VARIABLES text,      \* what was written
          items,     \* the pieces that are still to be read of it: records [kind, text]
          parser,
          answer,    \* of the last call: [right: it asked for what comes next, value, wanted]
          mistaken   \* a call was not right

vars == <<text, items, parser, answer, mistaken>>

(* What a written item is for the reader.  Comments and line breaks are    *)
(* nothing.  The plus sign of an exponent ends the number, is a token, and *)
(* the exponent's digits are another number; flags are their names, with a *)
(* token for each plus sign.  Everything else is one piece.                *)
Piece(kind, body) == [kind |-> kind, text |-> body]
Plus == Piece("tok", <<"+">>)
NumberPieces(body) ==
    LET sign == SelectInSeq(body, LAMBDA c : c = "+")
    IN  IF sign = 0 THEN <<Piece("number", body)>>
        ELSE <<Piece("number", SubSeq(body, 1, sign - 1)), Plus,
               Piece("number", SubSeq(body, sign + 1, Len(body)))>>
FlagPieces(flags) ==
    IF flags = {} THEN <<Piece("string", <<>>)>>
    ELSE Tail(FoldLeft(LAMBDA s, k : s \o <<Plus, Piece("symbol", FlagNames[k])>>, <<>>, Chosen(flags)))
Pieces(x) == IF x.kind \in {"comment", "nl"} THEN <<>>
             ELSE IF x.kind = "number" THEN NumberPieces(x.text)
             ELSE IF x.kind = "flag" THEN FlagPieces(x.flags)
             ELSE <<x>>
Visible(list) == FlattenSeq([i \in DOMAIN list |-> Pieces(list[i])])
Nothing == [right |-> FALSE, value |-> <<>>, wanted |-> <<>>]

Init == \E list \in UNION {[1 .. n -> Items] : n \in 0 .. MaxItems} :
            /\ text = Written(list)
            /\ Len(Visible(list)) <= MaxPieces
            /\ items = Visible(list)
            /\ parser = Parser(text)
            /\ answer = Nothing /\ mistaken = FALSE

Next1(list) == IF list = <<>> THEN list ELSE Tail(list)
Kind == IF items = <<>> THEN "none" ELSE items[1].kind
Wanted == IF items = <<>> THEN <<>> ELSE items[1].text

Answers(g, right, wanted, rest) ==
    /\ parser' = g.parser /\ items' = rest
    /\ answer' = IF right THEN [right |-> TRUE, value |-> g.value, wanted |-> wanted] ELSE Nothing
    /\ mistaken' = (mistaken \/ ~ right)
    /\ UNCHANGED text

Copied(n, length) == [text |-> Cut(Wanted, n - 1), length |-> length]
ReadString(n) == Answers(GetString(text, parser, n), Kind = "string", Copied(n, n - 1), Next1(items))
ReadSymbol(n) ==
    Answers(GetSymbol(text, parser, n), Kind = "symbol", Copied(n, Len(Cut(Wanted, n - 1))), Next1(items))
Get(type) == Answers(GetTyped(text, parser, type), Kind = type, Wanted, Next1(items))
GetNumber == Answers(GetFloat(text, parser), Kind = "number", Wanted, Next1(items))
GetNamed == /\ Kind = "symbol" /\ Wanted \in {FlagNames[k] : k \in DOMAIN FlagNames}
            /\ \E g \in {GetFlag(text, parser), GetEnum(text, parser)} :
                   Answers(g, TRUE, {k \in DOMAIN FlagNames : FlagNames[k] = Wanted}, Tail(items))
Expect(tok) == Answers(Got(ExpectTok(text, parser, tok), Wanted), Kind = "tok" /\ Wanted = tok, Wanted, Next1(items))
DoSkip == /\ items # <<>> /\ ~ mistaken
          /\ Answers(Got(Skip(text, parser), Wanted), TRUE, Wanted, Tail(items))

(* The braces that items open and close; Closing is the place of the one   *)
(* that closes the block items begins with, 0 without one.                 *)
Depth(n) == Cardinality({i \in 1 .. n : items[i].text = <<"{">> /\ items[i].kind = "tok"})
          - Cardinality({i \in 1 .. n : items[i].text = <<"}">> /\ items[i].kind = "tok"})
Closing == LET ends == {n \in DOMAIN items : Depth(n) = 0} IN IF ends = {} THEN 0 ELSE Least(ends)
InBlock == Kind = "tok" /\ Wanted = <<"{">> /\ Closing > 0 /\ ~ mistaken

DoSkipBlock == /\ InBlock
               /\ Answers(Got(SkipBlock(text, parser), Wanted), TRUE, Wanted, SubSeq(items, Closing + 1, Len(items)))
GetNumbers ==
    LET values == SubSeq(items, 2, Closing - 1)
    IN  /\ InBlock /\ \A i \in DOMAIN values : values[i].kind = "number"
        /\ Answers(GetStream(text, parser, "number"), TRUE, [i \in DOMAIN values |-> values[i].text],
                   SubSeq(items, Closing + 1, Len(items)))

Next == \/ \E n \in BufferSizes : ReadString(n) \/ ReadSymbol(n)
        \/ \E type \in {"number", "bool"} : Get(type)
        \/ \E tok \in {<<"{">>, <<"}">>, <<"+">>} : Expect(tok)
        \/ GetNumber \/ GetNamed \/ DoSkip \/ DoSkipBlock \/ GetNumbers

Spec == Init /\ [][Next]_vars
-----------------------------------------------------------------------------
(* Reading the pieces of what was written with the getters that fit gives  *)
(* every piece's text, as far as the caller's buffer holds it, of streams  *)
(* and behind skipped blocks too, wherever comments and line breaks lie    *)
(* between (tokparser.cpp:10, 484).  A string, a symbol, a Boolean, a      *)
(* token, an integer, a number with a negative exponent and one flag are   *)
(* one piece, read by one call; Pieces says which items are not.  The      *)
(* length that GetString returns is the buffer's, not the string's.        *)
RoundTrip == answer.right => answer.value = answer.wanted

(* A parser stays in step with the pieces also after a call that did not   *)
(* fit: it holds the next one, is at the end exactly behind the last, and *)
(* has an error exactly if such a call was made (tokparser.cpp:187).       *)
InStep ==
    /\ parser.eof <=> items = <<>>
    /\ items # <<>> => parser.tok = items[1].text
    /\ parser.error <=> mistaken
=============================================================================
