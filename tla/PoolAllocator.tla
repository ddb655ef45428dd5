--------------------------- MODULE PoolAllocator ----------------------------
(***************************************************************************)
(* PoolAlloc (mem/pool_allocator.cpp): items of one size cut from blocks,  *)
(* the free ones in a list that runs through the items themselves.  Two    *)
(* objects, which may be moved into each other.  Item <<b, i>> is item i   *)
(* of block b; blocks are given and freed by the allocator below.          *)
(***************************************************************************)
EXTENDS Naturals, Sequences, FiniteSets

CONSTANTS Pools,
          Blocks,       \* what the allocator below can give
          MaxItems,     \* bound: items per block
          Null

VARIABLES pool,    \* [Pools -> record of the members]; blocks is the list from m_block on
          link,    \* the first word of every item: m_next of a BlockItem
          live,    \* [Pools -> items handed out and not yet freed]
          free     \* [Pools -> the items of the free list, in its order]

vars == <<pool, link, live, free>>

Default == [items |-> 0, canGrow |-> TRUE, blocks |-> <<>>, next |-> Null]
Item == Blocks \X (0 .. MaxItems - 1)
In(x) == {x.blocks[i] : i \in DOMAIN x.blocks}
Unused == {b \in Blocks : \A p \in Pools : b \notin In(pool[p])}
ItemsOf(x) == In(x) \X (0 .. x.items - 1)

Init == /\ pool = [p \in Pools |-> Default]
        /\ link = [i \in Item |-> Null]
        /\ live = [p \in Pools |-> {}] /\ free = [p \in Pools |-> <<>>]

(* AllocBlock: a block of zeros whose items are linked in order, the last  *)
(* to nothing.                                                             *)
Linked(b, n) == [i \in Item |-> IF i[1] # b THEN link[i]
                                ELSE IF i[2] < n - 1 THEN <<b, i[2] + 1>> ELSE Null]
Chain(b, n) == [i \in 1 .. n |-> <<b, i - 1>>]

(* Init of a fresh object; n is at least 1, as counting down from zero     *)
(* items would link all of memory.                                         *)
DoInit(p, n, canGrow) ==
    /\ pool[p] = Default
    /\ IF canGrow
       THEN pool' = [pool EXCEPT ![p].items = n] /\ UNCHANGED <<link, free>>
       ELSE \E b \in Unused :
                /\ pool' = [pool EXCEPT ![p] = [items |-> n, canGrow |-> FALSE, blocks |-> <<b>>, next |-> <<b, 0>>]]
                /\ link' = Linked(b, n)
                /\ free' = [free EXCEPT ![p] = Chain(b, n)]
    /\ UNCHANGED live

(* Destruct and Move: the blocks of p go back, with whatever is live in    *)
(* them; the other object is left as a default one.                        *)
Move(p, q) ==
    /\ p # q
    /\ pool' = [pool EXCEPT ![p] = pool[q], ![q] = Default]
    /\ live' = [live EXCEPT ![p] = live[q], ![q] = {}]
    /\ free' = [free EXCEPT ![p] = free[q], ![q] = <<>>]
    /\ UNCHANGED link

(* Alloc for a size the items have: the head of the list, of a new block   *)
(* if the list is empty and the pool grows, else nothing.                  *)
Pop(p, item) == /\ pool' = [pool EXCEPT ![p].next = link[item]]
                /\ live' = [live EXCEPT ![p] = @ \cup {item}]
                /\ free' = [free EXCEPT ![p] = Tail(@)]
                /\ UNCHANGED link
PopNew(p, b) == LET new == Linked(b, pool[p].items)
                IN  /\ pool' = [pool EXCEPT ![p].blocks = <<b>> \o @, ![p].next = new[<<b, 0>>]]
                    /\ live' = [live EXCEPT ![p] = @ \cup {<<b, 0>>}]
                    /\ link' = new
                    /\ free' = [free EXCEPT ![p] = Tail(Chain(b, pool[p].items))]
Alloc(p) ==
    /\ pool[p].items > 0                \* else every size is too large
    /\ IF pool[p].next # Null THEN Pop(p, pool[p].next)
       ELSE IF pool[p].canGrow THEN \E b \in Unused : PopNew(p, b)
       ELSE UNCHANGED vars              \* returns nullptr

(* Mistake: the item becomes the list and forgets what was in it. *)
GiveBackAlone(p, item) ==
    /\ item \in live[p]
    /\ link' = [link EXCEPT ![item] = Null]
    /\ pool' = [pool EXCEPT ![p].next = item]
    /\ live' = [live EXCEPT ![p] = @ \ {item}]
    /\ free' = [free EXCEPT ![p] = <<item>> \o @]

GiveBack(p, item) ==                    \* Free, of an item of this pool
    /\ item \in live[p]
    /\ link' = [link EXCEPT ![item] = pool[p].next]
    /\ pool' = [pool EXCEPT ![p].next = item]
    /\ live' = [live EXCEPT ![p] = @ \ {item}]
    /\ free' = [free EXCEPT ![p] = <<item>> \o @]

Next == \E p \in Pools :
            \/ \E n \in 1 .. MaxItems, canGrow \in BOOLEAN : DoInit(p, n, canGrow)
            \/ \E q \in Pools : Move(p, q)
            \/ Alloc(p)
            \/ \E item \in Item : GiveBack(p, item)
Spec == Init /\ [][Next]_vars
-----------------------------------------------------------------------------
TypeOK == /\ pool \in [Pools -> [items : 0 .. MaxItems, canGrow : BOOLEAN,
                                 blocks : Seq(Blocks), next : Item \cup {Null}]]
          /\ link \in [Item -> Item \cup {Null}]
          /\ live \in [Pools -> SUBSET Item]
          /\ free \in [Pools -> Seq(Item)]

(* Every item of a pool's blocks is either handed out or in the pool's     *)
(* free list, which the links pass through from the first to the last:     *)
(* nothing is given twice or lost over growth, moves and any order of      *)
(* frees (pool_allocator.cpp:74, 133).                                     *)
Listed(p) == {free[p][i] : i \in DOMAIN free[p]}
FreeLinked(p) ==
    LET s == free[p]
    IN  /\ pool[p].next = IF s = <<>> THEN Null ELSE s[1]
        /\ \A i \in 1 .. Len(s) : link[s[i]] = IF i = Len(s) THEN Null ELSE s[i + 1]
        /\ \A i, j \in 1 .. Len(s) : s[i] = s[j] => i = j
ItemsAccounted == \A p \in Pools :
    /\ FreeLinked(p)
    /\ Listed(p) \cap live[p] = {}
    /\ Listed(p) \cup live[p] = ItemsOf(pool[p])

(* A block belongs to one pool. *)
BlocksApart == \A p, q \in Pools : p # q => In(pool[p]) \cap In(pool[q]) = {}

IInv == TypeOK /\ ItemsAccounted /\ BlocksApart
=============================================================================
