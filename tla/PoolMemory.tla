----------------------------- MODULE PoolMemory -----------------------------
(***************************************************************************)
(* mem_allocate, mem_reallocate and mem_free (mem.cpp): every allocation   *)
(* has a header in front, a size, a pool and, next to the data, the        *)
(* distance between the two; a count per pool says how much is in use.     *)
(***************************************************************************)
EXTENDS Naturals, FiniteSets

CONSTANTS PoolIds, Aligns, Requests,
          Places,          \* where malloc may put a block, far from each other
          MallocAlign,     \* every place is a multiple of it
          MaxLive          \* bound: allocations at a time

HeaderSize == 5

VARIABLES heap,    \* live allocations: [at, padding, total, pool] as in their headers, and request
          used,    \* g_poolMemUsed
          copied   \* the last reallocation: the bytes it copied, the room for
                   \* them, and whether the request grew under an alignment
                   \* that malloc keeps

vars == <<heap, used, copied>>
Init == heap = {} /\ used = [id \in PoolIds |-> 0] /\ copied = [bytes |-> 0, room |-> 0, grows |-> FALSE]

TotalSize(n, align) == n + HeaderSize + align

(* Mistake: the data begins at the first aligned place, header or not. *)
PaddingWithoutHeader(p, align) == ((p + align) \div align) * align - p

(* writeHeader: the data begins at the last multiple of align that is not  *)
(* above the header's end plus align.                                      *)
Padding(p, align) == ((p + HeaderSize + align) \div align) * align - p

Block(p, n, id, align) ==
    [at |-> p, padding |-> Padding(p, align), total |-> TotalSize(n, align),
     pool |-> id, request |-> n, align |-> align]
Unused == {p \in Places : \A b \in heap : b.at # p}

Allocate(p, n, id, align) ==
    /\ Cardinality(heap) < MaxLive
    /\ heap' = heap \cup {Block(p, n, id, align)}
    /\ used' = [used EXCEPT ![id] = @ + TotalSize(n, align)]
    /\ UNCHANGED copied

(* Mistake: the old block's size is taken from the pool of the new one. *)
ReallocateOtherPool(b, p, n, id, align) ==
    /\ heap' = (heap \ {b}) \cup {Block(p, n, id, align)}
    /\ used' = [used EXCEPT ![id] = @ - b.total + TotalSize(n, align)]
    /\ UNCHANGED copied

(* mem_reallocate: the block is in its old place never, as no address is   *)
(* below the alignment, so a new one is made, everything behind the old    *)
(* header is copied into it, and the old one is freed.                     *)
Reallocate(b, p, n, id, align) ==
    /\ heap' = (heap \ {b}) \cup {Block(p, n, id, align)}
    /\ used' = [i \in PoolIds |-> used[i] + (IF i = id THEN TotalSize(n, align) ELSE 0)
                                          - (IF i = b.pool THEN b.total ELSE 0)]
    /\ copied' = [bytes |-> b.total - b.padding, room |-> TotalSize(n, align) - Padding(p, align),
                  grows |-> n >= b.request /\ align = b.align /\ align <= MallocAlign]

Release(b) == /\ heap' = heap \ {b}
              /\ used' = [used EXCEPT ![b.pool] = @ - b.total]
              /\ UNCHANGED copied

Next == \/ \E p \in Unused, n \in Requests, id \in PoolIds, align \in Aligns :
               \/ Allocate(p, n, id, align)
               \/ \E b \in heap : Reallocate(b, p, n, id, align)
        \/ \E b \in heap : Release(b)
Spec == Init /\ [][Next]_vars
-----------------------------------------------------------------------------
TypeOK == /\ heap \subseteq [at : Places, padding : Nat, total : Nat, pool : PoolIds,
                            request : Requests, align : Aligns]
          /\ used \in [PoolIds -> Nat]
          /\ copied \in [bytes : Nat, room : Nat, grows : BOOLEAN]

(* Wherever malloc puts a block, the data is aligned and ends inside it,   *)
(* the size and the pool lie in front of the byte with the distance, and   *)
(* the distance fits that byte (mem.cpp:64).                               *)
BlocksSound == \A b \in heap :
    /\ (b.at + b.padding) % b.align = 0
    /\ b.padding + b.request <= b.total
    /\ HeaderSize < b.padding /\ b.padding < 256

(* The count of a pool is the sum of what is allocated in it, also after   *)
(* blocks have moved between pools (mem.cpp:148).                          *)
Taken(H, id) == UNION {{b} \X (1 .. b.total) : b \in {c \in H : c.pool = id}}
UsedIsSum == \A id \in PoolIds : used[id] = Cardinality(Taken(heap, id))

(* A reallocation that grows, under an alignment that malloc keeps anyway, *)
(* copies no more than there is room for; it copies all of the old block,  *)
(* so that one that shrinks does (mem.cpp:142).                            *)
GrowingCopyFits == copied.grows => copied.bytes <= copied.room

(* A header says what was written when the block was made. *)
HeadersStay == IsFiniteSet(heap) /\ \A b \in heap : b = Block(b.at, b.request, b.pool, b.align)

IInv == TypeOK /\ BlocksSound /\ UsedIsSum /\ GrowingCopyFits /\ HeadersStay
=============================================================================
