------------------------------ MODULE HashMap ------------------------------
(***************************************************************************)
(* HashMap<K, V> (hashmap.hh), a table with open addressing, and the       *)
(* dictionary it stands for: one map with an iterator, the operations of   *)
(* its users, one turn of the loops of resize and del a step, and dict,    *)
(* what these operations should have stored.  A table is a record: size of *)
(* m_pairs and m_used, pairs[i] the pair in slot i, or None where m_used   *)
(* is not set (what m_pairs holds there is never read), num m_numSetItems. *)
(***************************************************************************)
EXTENDS Integers, Sequences, FiniteSets

CONSTANTS Keys, Values,
          Hash,     \* [Keys -> Nat], MakeHash
          Sizes,    \* the sizes users ask for
          None      \* what an unused slot holds, and no slot

VARIABLES table,    \* the map; in resize its new table
          frames,   \* the calls of resize under way, each from the refilling of the one before:
                    \* the old table, its next slot and the pair that set will store then, or None
          del,      \* del's loop: the slot freed, its index and bound; c is 0 outside
          iter,     \* position of a running iteration, or None
          dict,     \* [some keys -> Values], what the operations have stored
          seen      \* the keys the iteration has passed

vars == <<table, frames, del, iter, dict, seen>>

Pair(k, v) == [key |-> k, value |-> v]
NoDel == [hole |-> 0, i |-> 0, c |-> 0]
Empty(n) == [size |-> n, pairs |-> [i \in 0 .. n - 1 |-> None], num |-> 0]
MinOf(S) == CHOOSE x \in S : \A y \in S : x <= y

(* The slot at which the search for k ends.  Without a free slot and       *)
(* without k there is none: the code asserts and returns size_t(-1).       *)
At(t, k, p) == (Hash[k] + p) % t.size
Ends(t, k, i) == t.pairs[i] = None \/ t.pairs[i].key = k
Probe(t, k) ==
    LET ends == {p \in 0 .. t.size - 1 : Ends(t, k, At(t, k, p))}
    IN  IF ends = {} THEN None ELSE At(t, k, MinOf(ends))

Has(t, k) == Probe(t, k) # None /\ t.pairs[Probe(t, k)] # None
Get(t, k) == t.pairs[Probe(t, k)].value

Store(t, k, v) ==
    LET i == Probe(t, k)
    IN  [size |-> t.size, pairs |-> [t.pairs EXCEPT ![i] = Pair(k, v)],
         num |-> IF t.pairs[i] = None THEN t.num + 1 ELSE t.num]
Removed(t, i) == [size |-> t.size, pairs |-> [t.pairs EXCEPT ![i] = None], num |-> t.num - 1]

Init == /\ \E n \in Sizes : table = Empty(n)
        /\ frames = <<>> /\ del = NoDel
        /\ dict = [k \in {} |-> None]
        /\ iter = None /\ seen = {}

Idle == frames = <<>> /\ del = NoDel

(* Every operation that changes the map ends iterations: they hold positions. *)
Modified == iter' = None /\ seen' = {}
Stored(k, v) == dict' = [j \in DOMAIN dict \cup {k} |-> IF j = k THEN v ELSE dict[j]]

(* set on table t, with the resizes fs under way: it looks at the load     *)
(* before the insertion and grows by half.                                 *)
Set(t, fs, k, v) ==
    IF 2 * t.num > t.size
    THEN /\ table' = Empty((3 * t.size) \div 2)
         /\ frames' = Append(fs, [old |-> t, i |-> 0, then |-> Pair(k, v)])
    ELSE table' = Store(t, k, v) /\ frames' = fs

DoSet(k, v) == Idle /\ Set(table, frames, k, v) /\ Stored(k, v) /\ Modified /\ UNCHANGED del

(* operator[]: the value found, or a default one set under the key. *)
Index(k, default) ==
    /\ Idle /\ ~ Has(table, k)
    /\ Set(table, frames, k, default) /\ Stored(k, default) /\ Modified /\ UNCHANGED del

DoResize(n) ==
    /\ Idle /\ n >= table.num                   \* asserted
    /\ table' = Empty(n)
    /\ frames' = <<[old |-> table, i |-> 0, then |-> None]>>
    /\ Modified /\ UNCHANGED <<del, dict>>

(* resize sets every pair again, in the order of the slots, in the new     *)
(* table, which may itself grow on the way.                                *)
Refill ==
    LET f == frames[Len(frames)]
        on == [frames EXCEPT ![Len(frames)] = [f EXCEPT !.i = @ + 1]]
        pair == f.old.pairs[f.i]
    IN  /\ frames # <<>> /\ f.i < f.old.size
        /\ IF pair = None THEN frames' = on /\ UNCHANGED table
           ELSE Set(table, on, pair.key, pair.value)
        /\ UNCHANGED <<del, dict, iter, seen>>
Resized ==
    LET f == frames[Len(frames)] IN
    /\ frames # <<>> /\ f.i >= f.old.size
    /\ frames' = SubSeq(frames, 1, Len(frames) - 1)
    /\ table' = IF f.then = None THEN table ELSE Store(table, f.then.key, f.then.value)
    /\ UNCHANGED <<del, dict, iter, seen>>

(* Mistake: the pairs behind the hole stay where they are. *)
DelLeavesCluster(k) ==
    /\ Idle /\ Has(table, k)
    /\ table' = Removed(table, Probe(table, k))
    /\ dict' = [j \in DOMAIN dict \ {k} |-> dict[j]]
    /\ Modified /\ UNCHANGED <<frames, del>>

(* del frees the slot and sets again what follows it in the cluster, slot  *)
(* by slot up to the next free one; c is the size at the start.            *)
DoDel(k) ==
    /\ Idle /\ Has(table, k)                    \* asserted
    /\ table' = Removed(table, Probe(table, k))
    /\ del' = [hole |-> Probe(table, k), i |-> 1, c |-> table.size]
    /\ dict' = [j \in DOMAIN dict \ {k} |-> dict[j]]
    /\ Modified /\ UNCHANGED frames
Reinsert ==
    LET p == (del.hole + del.i) % del.c
        pair == table.pairs[p]
    IN  /\ del.c # 0 /\ frames = <<>>
        /\ IF del.i >= del.c \/ pair = None THEN del' = NoDel /\ UNCHANGED <<table, frames>>
           ELSE /\ del' = [del EXCEPT !.i = @ + 1]
                /\ IF Hash[pair.key] % del.c = p THEN UNCHANGED <<table, frames>>
                   ELSE Set(Removed(table, p), frames, pair.key, pair.value)
        /\ UNCHANGED <<dict, iter, seen>>

Clear == /\ Idle /\ table' = Empty(table.size)
         /\ dict' = [k \in {} |-> None]
         /\ Modified /\ UNCHANGED <<frames, del>>

(* Iterators: a position in the table.  begin is the first used slot, ++   *)
(* goes to the next one, end is the size.                                  *)
Following(i) ==
    LET used == {j \in i .. table.size - 1 : table.pairs[j] # None}
    IN  IF used = {} THEN table.size ELSE MinOf(used)
Start == /\ Idle /\ iter = None
         /\ iter' = Following(0) /\ seen' = {}
         /\ UNCHANGED <<table, frames, del, dict>>
Step == /\ Idle /\ iter # None /\ iter # table.size
        /\ seen' = seen \cup {table.pairs[iter].key}
        /\ iter' = Following(iter + 1)
        /\ UNCHANGED <<table, frames, del, dict>>

Next == \/ \E k \in Keys : DoDel(k) \/ \E v \in Values : DoSet(k, v) \/ Index(k, v)
        \/ Reinsert
        \/ \E n \in Sizes : DoResize(n)
        \/ Refill \/ Resized
        \/ Clear \/ Start \/ Step

Spec == Init /\ [][Next]_vars
-----------------------------------------------------------------------------
Used(t) == {i \in 0 .. t.size - 1 : t.pairs[i] # None}
Pairs == [key : Keys, value : Values]
Tables(n) == [size : {n}, pairs : [0 .. n - 1 -> Pairs \cup {None}], num : Nat]
TypeOK == /\ table.size \in Nat /\ table \in Tables(table.size)
          /\ frames \in Seq({frames[j] : j \in DOMAIN frames})
          /\ \A j \in DOMAIN frames :
                LET n == frames[j].old.size
                IN  n \in Nat /\ frames[j] \in [old : Tables(n), i : 0 .. n, then : Pairs \cup {None}]
          /\ del \in [hole : Nat, i : Nat, c : Nat] /\ (del.c = 0 => del = NoDel)
          /\ DOMAIN dict \subseteq Keys /\ dict \in [DOMAIN dict -> Values]
          /\ iter \in Nat \cup {None} /\ seen \subseteq Keys

(* A search always ends at a slot: no sequence of insertions and           *)
(* deletions fills the table, whose growth is only decided before an       *)
(* insertion and on the count that may lag (hashmap.hh:280, 497).          *)
ProbeEnds == \A k \in Keys : Probe(table, k) # None

(* The map is the dictionary: every key is found behind its hash whatever  *)
(* was deleted in front of it, with the value last set, no key twice, and  *)
(* the count is right (hashmap.hh:381).                                    *)
IsDictionary ==
    Idle => /\ \A k \in Keys : Has(table, k) <=> k \in DOMAIN dict
            /\ \A k \in DOMAIN dict : Get(table, k) = dict[k]
            /\ table.num = Cardinality(DOMAIN dict)
            /\ table.num = Cardinality(Used(table))

(* An iteration that reaches the end has passed every key.                 *)
IterationComplete == iter = table.size => seen = DOMAIN dict

(***************************************************************************)
(* Why: in a table of three slots or more, at the end of every set, all    *)
(* pairs but one fill at most half of it; no free slot is on the way from  *)
(* a key's hash to its pair.                                               *)
(***************************************************************************)
Contents(t) == {t.pairs[i] : i \in Used(t)}
Sound(t) == /\ t.size >= 3 /\ t.num = Cardinality(Used(t)) /\ 2 * (t.num - 1) <= t.size
            /\ \A i, j \in Used(t) : t.pairs[i].key = t.pairs[j].key => i = j

Home(t, i) == Hash[t.pairs[i].key] % t.size
Distance(t, i, j) == IF i <= j THEN j - i ELSE j - i + t.size
Free(t) == (0 .. t.size - 1) \ Used(t)
Settled(t) == \A i \in Used(t), f \in Free(t) :
                  Distance(t, Home(t, i), i) < Distance(t, Home(t, i), f)

(* Each resize moves the pairs of its old table into the table of the one  *)
(* it has made grow, or into the map's; at the bottom are the pairs of the *)
(* dictionary, but for the one that is being set.                          *)
Above(j) == IF j = Len(frames) THEN table ELSE frames[j + 1].old
Rest(f) == {f.old.pairs[i] : i \in {i \in Used(f.old) : i >= f.i}}
Refilling ==
    \A j \in DOMAIN frames :
        LET f == frames[j] IN
        /\ Sound(f.old) /\ (j > 1 => f.then # None)
        /\ Contents(f.old) = Contents(Above(j)) \cup Rest(f)
                             \cup (IF j = Len(frames) THEN {} ELSE {frames[j + 1].then})
        /\ f.then # None => Above(j).size >= (3 * f.old.size) \div 2
With(C, pair) == IF pair = None THEN C ELSE {q \in C : q.key # pair.key} \cup {pair}
Graph == {Pair(k, dict[k]) : k \in DOMAIN dict}
HoldsPairs == Graph = IF frames = <<>> THEN Contents(table)
                      ELSE With(Contents(frames[1].old), frames[1].then)

(* Seen from a slot that is free throughout, no way leads across it, and   *)
(* the ways to pairs in front of the loop of del are broken behind it only.*)
Deleting ==
    del.c # 0 =>
        /\ frames = <<>> /\ del.c = table.size /\ del.hole < del.c /\ 2 * table.num <= table.size
        /\ \E free \in Free(table) \ {del.hole} :
               LET From(i) == Distance(table, free, i)
                   here == From(del.hole) + del.i
               IN  /\ here <= table.size
                   /\ \A i \in Used(table) :
                          LET h == Home(table, i) IN
                          /\ 1 <= From(h) /\ From(h) <= From(i)
                          /\ \A f \in Free(table) :
                                From(h) <= From(f) /\ From(f) <= From(i) => From(f) < here /\ here <= From(i)

Iterating ==
    iter # None => /\ Idle /\ iter <= table.size /\ (iter < table.size => iter \in Used(table))
                   /\ seen = {table.pairs[i].key : i \in {i \in Used(table) : i < iter}}

IInv == /\ TypeOK /\ Sound(table) /\ (del.c = 0 => Settled(table))
        /\ Refilling /\ HoldsPairs /\ Deleting /\ Iterating
=============================================================================
