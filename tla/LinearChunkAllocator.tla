------------------------ MODULE LinearChunkAllocator ------------------------
(***************************************************************************)
(* LinearChunkAllocator (mem/linear_chunk_allocator.cpp): allocations one  *)
(* behind the other in a list of blocks, given back all at once.  Sizes    *)
(* are in units of the alignment, 16 bytes; a block's header is one unit.  *)
(* The blocks of the list are numbered in the order of their making.       *)
(***************************************************************************)
EXTENDS Naturals, Sequences, SequencesExt

CONSTANTS BlockSize,    \* m_blockSize, at least a header and a unit
          MaxAlloc,     \* bound: units of one allocation
          MaxBlocks     \* bound: blocks

VARIABLES blocks,   \* the list: records [id, size]
          cur, pos, \* place of m_cur in it, 0 for none; m_pos
          size,     \* m_blockSize, which a move takes away
          live      \* what Alloc returned since the last Clear: [block, at, units]

vars == <<blocks, cur, pos, size, live>>

Init == blocks = <<>> /\ cur = 0 /\ pos = 0 /\ size = BlockSize /\ live = {}

(* MakeBlock *)
Made(n) == [id |-> Len(blocks) + 1, size |-> (IF n + 1 > size THEN n + 1 ELSE size) - 1]
Gives(n, list, i, at) ==
    /\ blocks' = list /\ cur' = i /\ pos' = at + n
    /\ live' = live \cup {[block |-> list[i].id, at |-> at, units |-> n]}
    /\ UNCHANGED size

(* Mistake: a block of the list that is too small is used again. *)
AllocReuses(n) ==
    IF cur = 0 THEN Gives(n, <<Made(n)>>, 1, 0)
    ELSE IF blocks[cur].size - pos >= n THEN Gives(n, blocks, cur, pos)
    ELSE IF cur < Len(blocks) THEN Gives(n, blocks, cur + 1, 0)
    ELSE Gives(n, InsertAt(blocks, cur + 1, Made(n)), cur + 1, 0)

(* Alloc: behind the last one, in the next block if that is large enough,  *)
(* else in a new block put between.                                        *)
Alloc(n) ==
    IF cur = 0 THEN Gives(n, <<Made(n)>>, 1, 0)
    ELSE IF blocks[cur].size - pos >= n THEN Gives(n, blocks, cur, pos)
    ELSE IF cur < Len(blocks) /\ blocks[cur + 1].size >= n THEN Gives(n, blocks, cur + 1, 0)
    ELSE Gives(n, InsertAt(blocks, cur + 1, Made(n)), cur + 1, 0)

(* Clear: the blocks stay; CopyString is Alloc, and Free does nothing. *)
Clear == /\ pos' = 0 /\ cur' = IF blocks = <<>> THEN 0 ELSE 1
         /\ live' = {} /\ UNCHANGED <<blocks, size>>

(* Moved away, or moved over by an empty one: the blocks are gone, and the *)
(* block size is zero, or the given one.                                   *)
Move(n) == /\ blocks' = <<>> /\ cur' = 0 /\ pos' = 0 /\ size' = n /\ live' = {}

Next == \/ \E n \in 0 .. MaxAlloc : Len(blocks) < MaxBlocks /\ Alloc(n)
        \/ Clear \/ \E n \in {0, BlockSize} : Move(n)
Spec == Init /\ [][Next]_vars
-----------------------------------------------------------------------------
Ids == 1 .. Len(blocks)
TypeOK == /\ blocks \in Seq([id : Nat, size : Nat]) /\ cur \in 0 .. Len(blocks)
          /\ pos \in Nat /\ size \in Nat
          /\ live \subseteq [block : Nat, at : Nat, units : Nat]

(* Since the last Clear, no two allocations share memory and each lies in  *)
(* its block, however blocks of several sizes are used again and others    *)
(* are put between them (linear_chunk_allocator.cpp:80).                   *)
AllocationsApart ==
    /\ \A a \in live : \E i \in DOMAIN blocks :
           blocks[i].id = a.block /\ a.at + a.units <= blocks[i].size
    /\ \A a, b \in live : a # b /\ a.block = b.block =>
           a.at + a.units <= b.at \/ b.at + b.units <= a.at

(* The blocks have the ids up to their number, and what was allocated lies *)
(* in the blocks up to the current one, in that before pos.                *)
InUse == /\ cur = 0 <=> blocks = <<>>
         /\ \A i \in Ids : blocks[i].id \in Ids
         /\ \A i, j \in Ids : blocks[i].id = blocks[j].id => i = j
         /\ \A a \in live, i \in Ids : blocks[i].id = a.block =>
                i <= cur /\ (i = cur => a.at + a.units <= pos)

IInv == TypeOK /\ AllocationsApart /\ InUse
=============================================================================
