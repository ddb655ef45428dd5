------------------------------ MODULE CmdLine -------------------------------
(***************************************************************************)
(* The registry of command-line options and ProcessArguments               *)
(* (cmdhelper.cpp), one turn of its loop a step.  A word is a sequence of  *)
(* characters, a character stands for both of its cases.  What a call of   *)
(* Parse was given is recorded as the range of argv it could read.         *)
(***************************************************************************)
EXTENDS Integers, SequencesExt

CONSTANTS Names,       \* names of options
          NumArgs,     \* the m_numArgs of options; -1: all the rest
          Words,       \* words of command lines
          HelpName, Dash,
          MaxOptions, MaxArgc

VARIABLES opts,            \* the options, s_opts first: [long, numArgs]
          helpRan,
          argv,            \* the arguments behind the program's name
          i,               \* the loop's index, 0 outside ProcessArguments
          remainingIndex,
          calls,           \* the calls of Parse: [opt, cmd, first, count]
          result           \* of ProcessArguments, or "none"

vars == <<opts, helpRan, argv, i, remainingIndex, calls, result>>

HelpOpt == [long |-> HelpName, numArgs |-> 0]    \* s_helpCmdLineOpt

Init == /\ opts = <<HelpOpt>> /\ helpRan = FALSE
        /\ argv = <<>> /\ i = 0 /\ remainingIndex = 1 /\ calls = <<>> /\ result = "none"

AppendCommand(opt) ==
    /\ i = 0 /\ result = "none" /\ Len(opts) < MaxOptions
    /\ opts' = <<opt>> \o opts
    /\ UNCHANGED <<helpRan, argv, i, remainingIndex, calls, result>>
ClearCommands ==
    /\ i = 0 /\ result = "none" /\ opts # <<>>
    /\ opts' = <<>>
    /\ UNCHANGED <<helpRan, argv, i, remainingIndex, calls, result>>

IsOption(word) == word # <<>> /\ word[1] = Dash
IsLong(word) == Len(word) > 1 /\ word[2] = Dash
FirstOf(S) == IF S = {} THEN 0 ELSE CHOOSE k \in S : \A l \in S : k <= l
(* The option a word means, as its place in opts, or 0: by its full name   *)
(* behind two dashes, by the only name it begins behind one.               *)
FindByCommand(word) ==
    LET short == {k \in DOMAIN opts : IsPrefix(Tail(word), opts[k].long)}
    IN  CASE ~ IsOption(word) -> 0
          [] IsOption(word) /\ IsLong(word) ->
               FirstOf({k \in DOMAIN opts : opts[k].long = SubSeq(word, 3, Len(word))})
          [] OTHER -> IF \E k \in short : short = {k} THEN FirstOf(short) ELSE 0

Start(words) ==
    /\ i = 0 /\ result = "none"
    /\ argv' = words /\ i' = 1 /\ remainingIndex' = 1 /\ calls' = <<>>
    /\ UNCHANGED <<opts, helpRan, result>>

Return(value) == result' = value /\ i' = 0
(* The arguments behind an option, up to the next word with a dash. *)
Available == CHOOSE n \in 0 .. Len(argv) - i :
                /\ \A k \in i + 1 .. i + n : ~ IsOption(argv[k])
                /\ i + n = Len(argv) \/ IsOption(argv[i + n + 1])

(* Mistake: an option with a number of its own keeps what is behind. *)
TakenAll(opt) == Available
Taken(opt) == IF opt.numArgs \in 0 .. Available THEN opt.numArgs ELSE Available

(* The word is an option: it is parsed if there is enough for it.          *)
Option ==
    LET k == FindByCommand(argv[i])
        opt == opts[k]
        n == Taken(opt)
    IN  /\ i \in DOMAIN argv /\ k # 0
        /\ \/ opt.numArgs > Available /\ UNCHANGED <<calls, helpRan>>
              /\ i' = i + n + 1 /\ remainingIndex' = i + n + 1 /\ UNCHANGED result
           \/ /\ opt.numArgs <= Available
              /\ calls' = Append(calls, [opt |-> opt, cmd |-> i, first |-> i + 1, count |-> n])
              /\ helpRan' = (helpRan \/ opt = HelpOpt)
              /\ IF opt = HelpOpt THEN Return("true") /\ UNCHANGED remainingIndex
                 ELSE \/ i' = i + n + 1 /\ remainingIndex' = i + n + 1 /\ UNCHANGED result
                      \/ Return("false") /\ UNCHANGED remainingIndex    \* Parse fails
        /\ UNCHANGED <<opts, argv>>
Unrecognized ==
    /\ i \in DOMAIN argv /\ FindByCommand(argv[i]) = 0 /\ IsOption(argv[i])
    /\ Return("false") /\ UNCHANGED <<opts, helpRan, argv, remainingIndex, calls>>
Other ==
    /\ i \in DOMAIN argv /\ FindByCommand(argv[i]) = 0 /\ ~ IsOption(argv[i])
    /\ i' = i + 1 /\ UNCHANGED <<opts, helpRan, argv, remainingIndex, calls, result>>

(* Behind the loop: the first option without a number gets what remains.   *)
Rest ==
    LET rest == FirstOf({k \in DOMAIN opts : opts[k].numArgs = -1}) IN
    /\ i > Len(argv)
    /\ IF rest # 0 /\ remainingIndex <= Len(argv)
       THEN /\ calls' = Append(calls, [opt |-> opts[rest], cmd |-> 0, first |-> remainingIndex,
                                       count |-> Len(argv) - remainingIndex + 1])
            /\ \E ok \in {"true", "false"} : Return(ok)
       ELSE Return("true") /\ UNCHANGED calls
    /\ UNCHANGED <<opts, helpRan, argv, remainingIndex>>

Next == \/ \E name \in Names, n \in NumArgs : AppendCommand([long |-> name, numArgs |-> n])
        \/ ClearCommands
        \/ \E n \in 0 .. MaxArgc : \E words \in [1 .. n -> Words] : Start(words)
        \/ Option \/ Unrecognized \/ Other \/ Rest
Spec == Init /\ [][Next]_vars
-----------------------------------------------------------------------------
Options == [long : Names \cup {HelpName}, numArgs : NumArgs \cup {0}]
TypeOK == /\ opts \in Seq(Options) /\ helpRan \in BOOLEAN
          /\ argv \in Seq(Words) /\ i \in Nat /\ remainingIndex \in Nat \ {0}
          /\ calls \in Seq([opt : Options, cmd : Nat, first : Nat, count : Nat])
          /\ result \in {"none", "true", "false"}

(* However options, their arguments and other words are mixed on the       *)
(* command line (cmdhelper.cpp:156 to 207, with two indices that advance   *)
(* apart): each word goes to one option at most, in order; an option with  *)
(* a number of arguments gets that many, the words right behind it; no     *)
(* option is another's argument.                                           *)
ArgumentsGoOnce ==
    \A k \in DOMAIN calls :
        LET c == calls[k] range == c.first .. c.first + c.count - 1 IN
        /\ range \subseteq DOMAIN argv
        /\ \A n \in range : ~ IsOption(argv[n])
        /\ c.cmd # 0 => c.first = c.cmd + 1 /\ (c.opt.numArgs # -1 => c.count = c.opt.numArgs)
        /\ \A l \in 1 .. k - 1 : calls[l].first + calls[l].count <= c.first

Served(n) == \/ \E k \in DOMAIN calls : calls[k].cmd = n
             \/ \E m \in n + 1 .. n + opts[FindByCommand(argv[n])].numArgs :
                    m > Len(argv) \/ IsOption(argv[m])
(* An option on the command line is served or stops the parsing; if all    *)
(* went well, only words that had too few arguments are left out.          *)
OptionsServed ==
    result = "true" /\ ~ helpRan => \A n \in DOMAIN argv : IsOption(argv[n]) => Served(n)

(* Between two turns: what the calls took ends where the words that remain *)
(* begin, no option is among those, and the options before are served.     *)
Parsing ==
    i # 0 => /\ result = "none" /\ i <= Len(argv) + 1 /\ remainingIndex <= i
             /\ \A k \in DOMAIN calls : calls[k].first + calls[k].count <= remainingIndex
             /\ \A n \in remainingIndex .. i - 1 : ~ IsOption(argv[n])
             /\ \A n \in 1 .. i - 1 : IsOption(argv[n]) => Served(n)
IInv == TypeOK /\ ArgumentsGoOnce /\ OptionsServed /\ Parsing
=============================================================================
