----------------------------- MODULE MemStream ------------------------------
(***************************************************************************)
(* MemWriter and MemReader (memstream.cpp) over one buffer: a writer puts  *)
(* a few items, then a reader with the same flags reads them back, or      *)
(* opens readers on parts of the buffer.  A byte of an item is a record of *)
(* the item's number, the component and the byte's index; the machine is   *)
(* little-endian, so the byte with index 1 comes first unless swapped.     *)
(***************************************************************************)
EXTENDS Integers, SequencesExt

CONSTANTS BufferSize, Flags,
          Items,           \* records [width, count, swap]: a number (count 1), a
                           \*   vec3 (3), a Color (4) or a ColorRGBA (4, not swapped)
          MaxItems,        \* bound: items put
          MaxDepth,        \* bound: readers opened from readers
          Zero, Outside    \* a cleared byte, and one outside the buffer

VARIABLES flags,
          writer,          \* [bytes, pos, error]
          put,             \* the items written
          wrote,           \* for each component whether Put returned an address
          reader,          \* [b, s, pos, error]: m_b as a position in the buffer
          got,             \* what Get returned, one value for each component
          outer,           \* where the reader this one was taken from ends
          depth            \* how often GetSubReader was called on the way here

vars == <<flags, writer, put, wrote, reader, got, outer, depth>>

NoReader == [b |-> 0, s |-> 0, pos |-> 0, error |-> TRUE]   \* MemReader()

Init == /\ flags \in Flags
        /\ writer = [bytes |-> [i \in 1 .. BufferSize |-> Zero], pos |-> 0, error |-> FALSE]
        /\ put = <<>> /\ wrote = <<>> /\ got = <<>>
        /\ reader = NoReader /\ outer = BufferSize /\ depth = 0

AlignUp(pos, align) == ((pos + align - 1) \div align) * align
(* SwapEndian(void*, size). *)
Ordered(bytes, swap) ==
    IF swap /\ flags \cap {"SwapEndian", "BigEndianData"} # {} THEN Reverse(bytes) ELSE bytes
Native(n, c, width) == [i \in 1 .. width |-> <<n, c, i>>]
Zeros(width) == [i \in 1 .. width |-> Zero]

Fits(stream, size, n) == size - stream.pos >= n
-----------------------------------------------------------------------------
(* MemWriter: Put, Advance and AlignedAdvance.                             *)
PutBytes(w, bytes) ==
    IF Fits(w, BufferSize, Len(bytes))
    THEN [w EXCEPT !.pos = @ + Len(bytes), !.bytes =
             [i \in 1 .. BufferSize |-> IF i - w.pos \in 1 .. Len(bytes) THEN bytes[i - w.pos] ELSE @[i]]]
    ELSE [w EXCEPT !.error = TRUE]
(* Advance of the writer, Consume of the reader. *)
Skipped(stream, size, n) ==
    IF Fits(stream, size, n) THEN [stream EXCEPT !.pos = @ + n] ELSE [stream EXCEPT !.error = TRUE]
Aligned(stream, size, align) ==
    IF "AlignedAccess" \in flags
    THEN Skipped(stream, size, AlignUp(stream.pos, align) - stream.pos) ELSE stream

(* Put<T>, PutVec3, PutColor and PutColorRGBA: one Put for each component. *)
Put(item) ==
    LET One(acc, c) ==
            LET w == Aligned(acc.w, BufferSize, item.width) IN
            [w |-> PutBytes(w, Ordered(Native(Len(put) + 1, c, item.width), item.swap)),
             ok |-> Append(acc.ok, Fits(w, BufferSize, item.width))]
        done == FoldLeft(One, [w |-> writer, ok |-> <<>>], [c \in 1 .. item.count |-> c])
    IN  /\ reader = NoReader /\ depth = 0 /\ Len(put) < MaxItems
        /\ put' = Append(put, item)
        /\ writer' = done.w /\ wrote' = wrote \o done.ok
        /\ UNCHANGED <<flags, reader, got, outer, depth>>
-----------------------------------------------------------------------------
(* MemReader.                                                              *)
Open == /\ reader = NoReader /\ depth = 0 /\ put # <<>>
        /\ reader' = [b |-> 0, s |-> BufferSize, pos |-> 0, error |-> FALSE]
        /\ UNCHANGED <<flags, writer, put, wrote, got, outer, depth>>

ByteAt(i) == IF i \in 1 .. BufferSize THEN writer.bytes[i] ELSE Outside
(* Mistake: a value that does not fit is read as far as it goes. *)
GetOnePartly(r, width, swap) ==
    LET a == Aligned(r, r.s, width) IN
    [r |-> Skipped(a, r.s, width),
     value |-> Ordered([i \in 1 .. width |-> ByteAt(a.b + a.pos + i)], swap)]
GetOne(r, width, swap) ==
    LET a == Aligned(r, r.s, width) IN
    [r |-> Skipped(a, r.s, width),
     value |-> IF Fits(a, r.s, width)
               THEN Ordered([i \in 1 .. width |-> ByteAt(a.b + a.pos + i)], swap)
               ELSE Zeros(width)]
(* Get<T>, GetVec3, GetColor and GetColorRGBA of the next item put. *)
Get ==
    LET Count(items) == FoldLeft(LAMBDA n, item : n + item.count, 0, items)
        item == CHOOSE it \in Items : \E k \in 1 .. Len(put) :
                    put[k] = it /\ Count(SubSeq(put, 1, k - 1)) = Len(got)
        One(acc, c) == LET g == GetOne(acc.r, item.width, item.swap) IN
                       [r |-> g.r, values |-> Append(acc.values, g.value)]
        done == FoldLeft(One, [r |-> reader, values |-> <<>>], [c \in 1 .. item.count |-> c])
    IN  /\ reader # NoReader /\ depth = 0 /\ Len(got) < Count(put)
        /\ reader' = done.r /\ got' = got \o done.values
        /\ UNCHANGED <<flags, writer, put, wrote, outer, depth>>

Become(r) == /\ reader' = r /\ depth' = depth + 1
             /\ outer' = reader.b + reader.s
             /\ UNCHANGED <<flags, writer, put, wrote, got>>
GetSubReader ==
    /\ reader # NoReader /\ depth < MaxDepth
    /\ Become(IF reader.error THEN NoReader
              ELSE [reader EXCEPT !.b = @ + reader.pos, !.s = @ - reader.pos, !.pos = 0])
(* m_topSize is the size of the whole buffer, m_pos counts from m_b. *)
GetSubReaderAt(offset, requestedSize) ==
    /\ reader # NoReader /\ depth < MaxDepth
    /\ Become(IF ~ reader.error /\ reader.pos + offset + requestedSize <= BufferSize
              THEN [b |-> reader.b + reader.pos + offset, s |-> requestedSize, pos |-> 0, error |-> FALSE]
              ELSE NoReader)
GetTopReader(offset, requestedSize) ==
    /\ reader # NoReader /\ depth < MaxDepth
    /\ reader' = IF ~ reader.error /\ offset + requestedSize <= BufferSize
                 THEN [b |-> offset, s |-> requestedSize, pos |-> 0, error |-> FALSE]
                 ELSE NoReader
    /\ depth' = 1 /\ outer' = BufferSize
    /\ UNCHANGED <<flags, writer, put, wrote, got>>

Next == \/ \E item \in Items : Put(item)
        \/ Open \/ Get \/ GetSubReader
        \/ \E offset, size \in 0 .. BufferSize : GetSubReaderAt(offset, size) \/ GetTopReader(offset, size)
Spec == Init /\ [][Next]_vars
-----------------------------------------------------------------------------
(* What is read is what was written, whatever the flags and wherever the   *)
(* buffer ends: a component the writer had room for comes back, one it had *)
(* no room for is zero, and the error flags of both say whether there was  *)
(* such a one (Put and Get step through the buffer on their own,           *)
(* memstream.cpp:19 and 112).                                              *)
ValuesReturn ==
    LET Of(n) == CHOOSE ic \in (1 .. Len(put)) \X (1 .. 4) :
                     n = ic[2] + FoldLeft(LAMBDA m, item : m + item.count, 0, SubSeq(put, 1, ic[1] - 1))
                     /\ ic[2] <= put[ic[1]].count
    IN  /\ \A n \in DOMAIN got :
              LET ic == Of(n) width == put[ic[1]].width IN
              got[n] = IF wrote[n] THEN Native(ic[1], ic[2], width) ELSE Zeros(width)
        /\ writer.error <=> \E n \in DOMAIN wrote : ~ wrote[n]
        /\ depth = 0 /\ reader # NoReader => (reader.error <=> \E n \in DOMAIN got : ~ wrote[n])

(* A reader opened on the whole buffer's reader stays inside of it.        *)
FirstSubReaderInside ==
    depth = 1 => reader.b + reader.s <= BufferSize

(* memstream.hh:107: "Get a subreader starting at the specified offset and *)
(* requestedSize, if that size is less than or equal to the size in this   *)
(* reader after the offset."  So no sub reader reaches behind the reader   *)
(* it was taken from.                                                      *)
SubReaderInside ==
    ~ reader.error /\ reader.s > 0 => reader.b + reader.s <= outer
=============================================================================
