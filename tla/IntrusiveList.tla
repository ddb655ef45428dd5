---------------------------- MODULE IntrusiveList ---------------------------
(***************************************************************************)
(* IntrusiveListDL<T> (intrusivelist.hh): two lists over nodes that hold   *)
(* their own links.  The code leaves to its users, and the model keeps to: *)
(* only nodes whose links are null are pushed (a pop leaves them so, erase *)
(* and clear do not), and erase, which changes neither head nor tail, is   *)
(* for nodes between two others.                                           *)
(***************************************************************************)
EXTENDS Integers, Sequences, SequencesExt

CONSTANTS Nodes, Null,
          MaxCleared    \* bound: nodes removed by clear

Lists == {"l", "m"}

VARIABLES list,     \* [Lists -> [head, tail, size]]
          next, prev,
          seq,      \* the nodes in order
          cleared   \* what clear has not taken off m_size

vars == <<list, next, prev, seq, cleared>>
links == <<next, prev>>

Init == /\ list = [l \in Lists |-> [head |-> Null, tail |-> Null, size |-> 0]]
        /\ next = [n \in Nodes |-> Null] /\ prev = [n \in Nodes |-> Null]
        /\ seq = [l \in Lists |-> <<>>] /\ cleared = [l \in Lists |-> 0]

In(n) == \E l \in Lists : \E i \in DOMAIN seq[l] : seq[l][i] = n
Fresh(n) == ~ In(n) /\ next[n] = Null /\ prev[n] = Null

PushFront(l, n) ==
    LET head == list[l].head
    IN  /\ Fresh(n)
        /\ IF head # Null
           THEN /\ next' = [next EXCEPT ![n] = head] /\ prev' = [prev EXCEPT ![head] = n]
                /\ list' = [list EXCEPT ![l].head = n, ![l].size = @ + 1]
           ELSE /\ UNCHANGED links
                /\ list' = [list EXCEPT ![l] = [head |-> n, tail |-> n, size |-> @.size + 1]]
        /\ seq' = [seq EXCEPT ![l] = <<n>> \o @]
        /\ UNCHANGED cleared

PushBack(l, n) ==
    LET tail == list[l].tail
    IN  /\ Fresh(n)
        /\ IF tail # Null
           THEN /\ next' = [next EXCEPT ![tail] = n] /\ prev' = [prev EXCEPT ![n] = tail]
                /\ list' = [list EXCEPT ![l].tail = n, ![l].size = @ + 1]
           ELSE /\ UNCHANGED links
                /\ list' = [list EXCEPT ![l] = [head |-> n, tail |-> n, size |-> @.size + 1]]
        /\ seq' = [seq EXCEPT ![l] = Append(@, n)]
        /\ UNCHANGED cleared

(* Mistake: the new head keeps its link to the one that was popped. *)
PopFrontDangles(l) ==
    LET n == list[l].head
    IN  /\ n # Null
        /\ list' = [list EXCEPT ![l] = [head |-> next[n],
                                        tail |-> IF next[n] = Null THEN Null ELSE @.tail,
                                        size |-> @.size - 1]]
        /\ next' = [next EXCEPT ![n] = Null]
        /\ seq' = [seq EXCEPT ![l] = Tail(@)]
        /\ UNCHANGED <<prev, cleared>>

PopFront(l) ==
    LET n == list[l].head
        second == next[n]
    IN  /\ n # Null
        /\ list' = [list EXCEPT ![l] = [head |-> second,
                                        tail |-> IF second = Null THEN Null ELSE @.tail,
                                        size |-> @.size - 1]]
        /\ prev' = IF second = Null THEN prev ELSE [prev EXCEPT ![second] = Null]
        /\ next' = [next EXCEPT ![n] = Null]
        /\ seq' = [seq EXCEPT ![l] = Tail(@)]
        /\ UNCHANGED cleared

PopBack(l) ==
    LET n == list[l].tail
        last == prev[n]
    IN  /\ n # Null
        /\ list' = [list EXCEPT ![l] = [tail |-> last,
                                        head |-> IF last = Null THEN Null ELSE @.head,
                                        size |-> @.size - 1]]
        /\ next' = IF last = Null THEN next ELSE [next EXCEPT ![last] = Null]
        /\ prev' = [prev EXCEPT ![n] = Null]
        /\ seq' = [seq EXCEPT ![l] = Front(@)]
        /\ UNCHANGED cleared

(* Unlink joins the neighbours and leaves the node's own links. *)
Erase(l, n) ==
    /\ \E i \in 2 .. Len(seq[l]) - 1 : /\ seq[l][i] = n
                                      /\ seq' = [seq EXCEPT ![l] = RemoveAt(@, i)]
    /\ next' = [next EXCEPT ![prev[n]] = next[n]]
    /\ prev' = [prev EXCEPT ![next[n]] = prev[n]]
    /\ list' = [list EXCEPT ![l].size = @ - 1]
    /\ UNCHANGED cleared

(* clear unlinks every node from the next one and forgets them, but not    *)
(* their number.                                                           *)
Clear(l) ==
    /\ cleared[l] + Len(seq[l]) <= MaxCleared
    /\ prev' = [n \in Nodes |-> IF \E i \in DOMAIN seq[l] : seq[l][i] = n THEN Null ELSE prev[n]]
    /\ list' = [list EXCEPT ![l].head = Null, ![l].tail = Null]
    /\ cleared' = [cleared EXCEPT ![l] = @ + Len(seq[l])]
    /\ seq' = [seq EXCEPT ![l] = <<>>]
    /\ UNCHANGED next

(* Move assignment; what the target held is no longer in a list. *)
Move(l, m) ==
    /\ l # m /\ seq[l] = <<>>
    /\ list' = [list EXCEPT ![l] = list[m], ![m] = [head |-> Null, tail |-> Null, size |-> 0]]
    /\ seq' = [seq EXCEPT ![l] = seq[m], ![m] = <<>>]
    /\ cleared' = [cleared EXCEPT ![l] = cleared[m], ![m] = 0]
    /\ UNCHANGED links

Next == \E l \in Lists : \/ \E n \in Nodes : PushFront(l, n) \/ PushBack(l, n) \/ Erase(l, n)
                         \/ PopFront(l) \/ PopBack(l) \/ Clear(l)
                         \/ \E m \in Lists : Move(l, m)
Spec == Init /\ [][Next]_vars
-----------------------------------------------------------------------------
TypeOK == /\ list \in [Lists -> [head : Nodes \cup {Null}, tail : Nodes \cup {Null}, size : Nat]]
          /\ next \in [Nodes -> Nodes \cup {Null}] /\ prev \in [Nodes -> Nodes \cup {Null}]
          /\ seq \in [Lists -> Seq(Nodes)] /\ cleared \in [Lists -> Nat]

(* From the head along next, and from the tail along prev, the list gives  *)
(* its nodes in order, whatever was pushed, popped and erased at whichever *)
(* end, and m_size is their number, but for those that clear removed       *)
(* (intrusivelist.hh:179, 197, 215).                                       *)
LinksAgree == \A l \in Lists :
    LET s == seq[l]
        n == Len(s)
    IN  /\ list[l].head = IF n = 0 THEN Null ELSE s[1]
        /\ list[l].tail = IF n = 0 THEN Null ELSE s[n]
        /\ \A i \in 1 .. n : /\ next[s[i]] = IF i = n THEN Null ELSE s[i + 1]
                             /\ prev[s[i]] = IF i = 1 THEN Null ELSE s[i - 1]
        /\ list[l].size = n + cleared[l]

(* A node is in one place of one list. *)
NodesApart == \A l, m \in Lists : \A i \in 1 .. Len(seq[l]), j \in 1 .. Len(seq[m]) :
                  seq[l][i] = seq[m][j] => l = m /\ i = j

IInv == TypeOK /\ LinksAgree /\ NodesApart
=============================================================================
