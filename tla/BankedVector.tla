--------------------------- MODULE BankedVector ----------------------------
(***************************************************************************)
(* BankedVector<T> (bankedvector.hh, bankedvector.inl): a vector over      *)
(* chunks of ChunkLength elements, at most MaxChunks of them, which are    *)
(* allocated when an index first needs them and freed with the vector.     *)
(* Cell i of chunk c is cells[c * ChunkLength + i]; it is Raw or holds a   *)
(* value, or Moved, the rest of an element that was moved away.            *)
(***************************************************************************)
EXTENDS Integers, Sequences, SequencesExt

CONSTANTS Values, Raw, Moved, ChunkLength, MaxChunks,
          TriviallyDestructible   \* is_trivially_destructible_v<T>

MaxCapacity == MaxChunks * ChunkLength

VARIABLES vec,    \* [cells, chunks, size, bad]: m_chunks, m_numChunks, m_size
          seq,    \* what the vector should hold
          result, \* what the last operation returned
          spare   \* it was destroyed with a chunk behind the last element

vars == <<vec, seq, result, spare>>

New == [cells |-> [i \in 0 .. MaxCapacity - 1 |-> Raw], chunks |-> 0, size |-> 0, bad |-> FALSE]
Capacity(x) == x.chunks * ChunkLength
ChunkOf(i) == i \div ChunkLength
Allocated(x, i) == i \in DOMAIN x.cells /\ ChunkOf(i) < x.chunks

(* Single elements; bad: a cell outside the chunks, or in the wrong state. *)
Construct(x, i, v) == IF Allocated(x, i)
    THEN [x EXCEPT !.cells[i] = v, !.bad = @ \/ x.cells[i] # Raw] ELSE [x EXCEPT !.bad = TRUE]
Destroy(x, i) == IF Allocated(x, i)
    THEN [x EXCEPT !.cells[i] = Raw, !.bad = @ \/ x.cells[i] = Raw] ELSE [x EXCEPT !.bad = TRUE]
MoveFrom(x, i) == [x EXCEPT !.cells[i] = Moved, !.bad = @ \/ x.cells[i] \in {Raw, Moved}]

Upward(i, j) == [n \in 1 .. j - i |-> i + n - 1]
DestroyRange(x, i, j) == FoldLeft(Destroy, x, Upward(i, j))

(* ensure_chunk_allocated: chunk by chunk up to chunk c; fails at the      *)
(* maximum and when the allocator gives nothing, with granted more chunks. *)
WithChunks(x, c, granted) ==
    LET wanted == IF c < x.chunks THEN 0 ELSE c + 1 - x.chunks
        room == MaxChunks - x.chunks
        got == CHOOSE n \in {wanted, room, granted} : n <= wanted /\ n <= room /\ n <= granted
    IN  [ok |-> got = wanted, vec |-> [x EXCEPT !.chunks = @ + got]]

(* Mistake: the elements move from the first one on. *)
OpenGapForward(x, i) ==
    FoldLeft(LAMBDA y, k : Destroy(MoveFrom(Construct(y, k, y.cells[k - 1]), k - 1), k - 1),
             [x EXCEPT !.size = @ + 1], Upward(i + 1, x.size + 1))

(* uninitialized_insert_n behind the chunk test: elements move up by one.  *)
OpenGap(x, i) ==
    FoldLeft(LAMBDA y, k : Destroy(MoveFrom(Construct(y, k, y.cells[k - 1]), k - 1), k - 1),
             [x EXCEPT !.size = @ + 1], Reverse(Upward(i + 1, x.size + 1)))

(* erase: every element is destroyed and made from the next one, which     *)
(* stays behind moved from; pop_back destroys the last.                    *)
PopBack(x) == Destroy([x EXCEPT !.size = @ - 1], x.size - 1)
CloseGap(x, i) ==
    PopBack(FoldLeft(LAMBDA y, k : MoveFrom(Construct(Destroy(y, k), k, y.cells[k + 1]), k + 1),
                     x, Upward(i, x.size - 1)))

(* destroy: a destructor for every element of every chunk.  What is left   *)
(* of the size is unsigned: in a chunk behind the last element it wraps,   *)
(* and the chunk counts as full.                                           *)
Count(x, c) == LET left == x.size - c * ChunkLength
               IN  IF left < 0 \/ left > ChunkLength THEN ChunkLength ELSE left
DestroyAll(x) ==
    IF TriviallyDestructible THEN x
    ELSE FoldLeft(LAMBDA y, c : DestroyRange(y, c * ChunkLength, c * ChunkLength + Count(x, c)),
                  x, Upward(0, x.chunks))
-----------------------------------------------------------------------------
Init == vec = New /\ seq = <<>> /\ result = TRUE /\ spare = FALSE

Fails(w) == vec' = w.vec /\ result' = FALSE /\ UNCHANGED <<seq, spare>>
SucceedsWith(x, s) == vec' = x /\ seq' = s /\ result' = TRUE
Succeeds(x, s) == SucceedsWith(x, s) /\ UNCHANGED spare

(* push_back, emplace_back *)
Push(v, granted) ==
    LET w == WithChunks(vec, ChunkOf(vec.size), granted)
    IN  IF w.ok THEN Succeeds(Construct([w.vec EXCEPT !.size = @ + 1], vec.size, v), Append(seq, v))
        ELSE Fails(w)

(* insert and emplace, by index or iterator; i is at most the size. *)
Insert(i, v, granted) ==
    LET w == WithChunks(vec, ChunkOf(vec.size), granted)
    IN  IF w.ok THEN Succeeds(Construct(OpenGap(w.vec, i), i, v), InsertAt(seq, i + 1, v))
        ELSE Fails(w)

Erase(i) == IF i >= vec.size THEN Fails([vec |-> vec])
            ELSE Succeeds(CloseGap(vec, i), RemoveAt(seq, i + 1))

Pop == vec.size > 0 /\ Succeeds(PopBack(vec), Front(seq))

(* reserve asks for the chunk of the element behind the new capacity.      *)
WithCapacity(x, n, granted) ==
    IF n <= Capacity(x) THEN [ok |-> TRUE, vec |-> x]
    ELSE IF n > MaxCapacity THEN [ok |-> FALSE, vec |-> x]
    ELSE WithChunks(x, ChunkOf(n), granted)
Reserve(n, granted) ==
    LET w == WithCapacity(vec, n, granted)
    IN  IF w.ok THEN Succeeds(w.vec, seq) ELSE Fails(w)

Resize(n, v, granted) ==
    LET w == WithCapacity(vec, n, granted)
    IN  IF n <= vec.size
        THEN Succeeds([DestroyRange(vec, n, vec.size) EXCEPT !.size = n], SubSeq(seq, 1, n))
        ELSE IF w.ok
        THEN Succeeds([FoldLeft(LAMBDA y, k : Construct(y, k, v), w.vec, Upward(vec.size, n))
                          EXCEPT !.size = n],
                      [k \in 1 .. n |-> IF k <= Len(seq) THEN seq[k] ELSE v])
        ELSE Fails(w)

(* Destroy and Init again, and what a move assignment does to its target.  *)
ChunkBehind(x) == \E c \in 0 .. x.chunks - 1 : c * ChunkLength > x.size
Renew == /\ SucceedsWith([New EXCEPT !.bad = DestroyAll(vec).bad], <<>>)
         /\ spare' = (spare \/ ChunkBehind(vec))

Next == \/ \E v \in Values, granted \in {0, 1, MaxChunks} :
              \/ Push(v, granted)
              \/ \E i \in 0 .. vec.size : Insert(i, v, granted)
              \/ \E n \in 0 .. MaxCapacity + 1 : Resize(n, v, granted) \/ Reserve(n, granted)
        \/ \E i \in 0 .. MaxCapacity : Erase(i)
        \/ Pop \/ Renew

Spec == Init /\ [][Next]_vars
-----------------------------------------------------------------------------
(* The chunks hold a sequence, also after an operation that failed half    *)
(* way for want of chunks: an element lives in exactly the cells below the *)
(* size, and nothing else was constructed or destroyed                     *)
(* (bankedvector.inl:110, 145, 266), unless the vector was destroyed with  *)
(* a chunk behind its last element, from reserve or from elements given    *)
(* up: the destructors run in all of that chunk (bankedvector.inl:53).     *)
IsSequence ==
    /\ vec.bad => spare
    /\ vec.size <= Capacity(vec)
    /\ Len(seq) = vec.size
    /\ \A i \in DOMAIN vec.cells : vec.cells[i] = IF i < vec.size THEN seq[i + 1] ELSE Raw
=============================================================================
