----------------------------- MODULE Serialize ------------------------------
(***************************************************************************)
(* MemSerializer, the SERL file and SerializedClassMemory (serialize.cpp): *)
(* an object with everything it points to is written into a tree of        *)
(* serializers, the tree is merged into one block, the block becomes a     *)
(* file, and the file is loaded and its pointers patched.  A unit of       *)
(* memory stands for a value of the smallest size; a pointer is P units    *)
(* wide and has its id in the first of them.                               *)
(***************************************************************************)
EXTENDS Integers, SequencesExt

CONSTANTS Graphs,    \* functions from objects to [align, count, fields]; a field is
                     \*   a value, an object it points to, or Null
          Root, Null, Values,
          P, None

VARIABLES graph,     \* what is serialized
          ser,       \* the serializer of the root, or None
          file,      \* what CreateFileData made, perhaps damaged since, or None
          memory,    \* m_dataMem: [align, data], or None
          loaded     \* what the last LoadFile returned

vars == <<graph, ser, file, memory, loaded>>

Init == graph \in Graphs /\ ser = None /\ file = None /\ memory = None /\ loaded = FALSE

AlignUp(n, align) == ((n + align - 1) \div align) * align
Zeros(n) == [i \in 1 .. n |-> 0]
IsValue(field) == field \in Values
Width(field) == IF IsValue(field) THEN 1 ELSE P

(* sizeof(T), and the bytes of the array SerializeClassArray asks for. *)
SizeOf(o) ==
    AlignUp(FoldLeft(LAMBDA pos, f : AlignUp(pos, Width(f)) + Width(f), 0, graph[o].fields),
            graph[o].align)
TotalSize(o) == graph[o].count * SizeOf(o)
-----------------------------------------------------------------------------
(* MemSerializer.                                                          *)
NewSerializer(size, align) ==
    [align |-> align, mem |-> Zeros(size), pos |-> 0, error |-> FALSE,
     offsets |-> <<>>,    \* m_pointerOffsets
     data |-> <<>>,       \* m_pointerData: [offset, child]
     index |-> <<>>]      \* m_pointerIndexMap: the object with each id

HasRoom(s, n) == Len(s.mem) - s.pos >= n
AlignedAdvance(s, align) ==
    LET pos == AlignUp(s.pos, align) IN
    IF HasRoom(s, pos - s.pos) THEN [s EXCEPT !.pos = pos] ELSE [s EXCEPT !.error = TRUE]
Put(s, cell, width) ==
    LET a == AlignedAdvance(s, width) IN
    IF HasRoom(a, width) THEN [a EXCEPT !.mem[a.pos + 1] = cell, !.pos = @ + width]
    ELSE [a EXCEPT !.error = TRUE]

(* PutPointer with what its callers do with the serializer it returns: an  *)
(* object met for the first time is written to a serializer of its own.    *)
RECURSIVE Contents(_)
(* Mistake: an object met before is written again. *)
PutPointerAgain(s, o) ==
    LET a == AlignedAdvance(s, P)
        noted == [a EXCEPT !.offsets = Append(@, a.pos)]
    IN  IF o = Null THEN Put(a, 0, P)
        ELSE [Put(noted, Len(a.data) + 1, P) EXCEPT
                 !.data = Append(@, [offset |-> -1, child |-> Contents(o)])]
PutPointer(s, o) ==
    LET a == AlignedAdvance(s, P)
        noted == [a EXCEPT !.offsets = Append(@, a.pos)]
        known == SelectInSeq(s.index, LAMBDA x : x = o)
    IN  IF o = Null THEN Put(a, 0, P)
        ELSE IF known # 0 THEN Put(noted, known, P)
        ELSE [Put(noted, Len(a.data) + 1, P) EXCEPT
                 !.index = Append(@, o),
                 !.data = Append(@, [offset |-> -1, child |-> Contents(o)])]
(* SerializeClass for each element; SerializeTo puts the fields in order.  *)
Contents(o) ==
    LET Field(s, f) == IF IsValue(f) THEN Put(s, f, 1) ELSE PutPointer(s, f)
        Element(s, i) == FoldLeft(Field, AlignedAdvance(s, graph[o].align), graph[o].fields)
    IN  FoldLeft(Element, NewSerializer(TotalSize(o), graph[o].align),
                 [i \in 1 .. graph[o].count |-> i])

RECURSIVE CalcSize(_)
CalcSize(s) ==
    FoldLeft(LAMBDA n, d : IF d.child = None THEN n ELSE AlignUp(n, d.child.align) + CalcSize(d.child),
             Len(s.mem), s.data)

(* The body of the loop: the child's memory, its pointers and its table    *)
(* move behind the memory and the tables of m.                             *)
(* Mistake: ids of the child are not shifted. *)
MergeChildKeepsIds(m, i, at) ==
    LET c == m.data[i].child
        start == AlignUp(at, c.align)
        moved == [k \in DOMAIN c.offsets |-> c.offsets[k] + start]
    IN  [m EXCEPT
          !.mem = [k \in DOMAIN @ |-> IF k - start \in DOMAIN c.mem THEN c.mem[k - start] ELSE @[k]],
          !.offsets = @ \o moved,
          !.data = [k \in DOMAIN @ |-> IF k = i THEN [offset |-> start, child |-> None] ELSE @[k]]
                   \o [k \in DOMAIN c.data |-> [c.data[k] EXCEPT !.offset = @ + start]]]
MergeChild(m, i, at) ==
    LET c == m.data[i].child
        start == AlignUp(at, c.align)
        moved == [k \in DOMAIN c.offsets |-> c.offsets[k] + start]
        Shifted(k) == IF \E n \in DOMAIN c.offsets : c.offsets[n] = k - start - 1
                      THEN c.mem[k - start] + Len(m.data) ELSE c.mem[k - start]
    IN  [m EXCEPT
          !.mem = [k \in DOMAIN @ |-> IF k - start \in DOMAIN c.mem THEN Shifted(k) ELSE @[k]],
          !.offsets = @ \o moved,
          !.data = [k \in DOMAIN @ |-> IF k = i THEN [offset |-> start, child |-> None] ELSE @[k]]
                   \o [k \in DOMAIN c.data |-> [c.data[k] EXCEPT !.offset = @ + start]]]

RECURSIVE Merged(_)
Merged(s) ==
    LET inner == [s EXCEPT !.data = [i \in DOMAIN @ |->
                      IF @[i].child = None THEN @[i] ELSE [@[i] EXCEPT !.child = Merged(@)]]]
        resized == [inner EXCEPT !.mem = @ \o Zeros(CalcSize(inner) - Len(s.mem))]
        Step(acc, i) ==
            IF acc.m.data[i].child = None THEN acc
            ELSE LET m == MergeChild(acc.m, i, acc.at) IN
                 [m |-> m, at |-> m.data[i].offset + Len(acc.m.data[i].child.mem)]
    IN  FoldLeft(Step, [m |-> resized, at |-> Len(s.mem)], [i \in DOMAIN s.data |-> i]).m
-----------------------------------------------------------------------------
SerializeClass ==
    /\ ser = None
    /\ ser' = Contents(Root)
    /\ UNCHANGED <<graph, file, memory, loaded>>
MergeChildren ==
    /\ ser # None
    /\ ser' = Merged(ser)
    /\ UNCHANGED <<graph, file, memory, loaded>>

Unmerged(s) == \E i \in DOMAIN s.data : s.data[i].child # None
(* An unmerged serializer gives no data and sets the error flag.           *)
CreateFileData ==
    /\ ser # None
    /\ IF Unmerged(ser) THEN ser' = [ser EXCEPT !.error = TRUE] /\ UNCHANGED file
       ELSE /\ file' = [tag |-> "SERL", version |-> 1, align |-> ser.align, whole |-> TRUE,
                        objects |-> [i \in DOMAIN ser.data |-> ser.data[i].offset],
                        pointers |-> ser.offsets, data |-> ser.mem]
            /\ UNCHANGED ser
    /\ UNCHANGED <<graph, memory, loaded>>

(* A file of another kind or version, or one that ends early.              *)
Sound(f) == f.tag = "SERL" /\ f.version = 1 /\ f.whole
Damage ==
    /\ file # None /\ Sound(file)
    /\ \/ file' = [file EXCEPT !.tag = "other"]
       \/ file' = [file EXCEPT !.version = 2]
       \/ file' = [file EXCEPT !.whole = FALSE]
    /\ UNCHANGED <<graph, ser, memory, loaded>>

At(offset) == - offset - 1    \* an address in the loaded memory; ids are not negative
(* MemPatcher: ids become addresses. *)
Patched(data, objects, pointers) ==
    [k \in DOMAIN data |->
        IF (\E n \in DOMAIN pointers : pointers[n] = k - 1) /\ data[k] > 0
        THEN At(objects[data[k]]) ELSE data[k]]

LoadFile ==
    /\ loaded' = (file # None /\ Sound(file))
    /\ memory' = IF loaded'
                 THEN [align |-> file.align, data |-> Patched(file.data, file.objects, file.pointers)]
                 ELSE memory
    /\ UNCHANGED <<graph, ser, file>>

Next == SerializeClass \/ MergeChildren \/ CreateFileData \/ Damage \/ LoadFile
Spec == Init /\ [][Next]_vars
-----------------------------------------------------------------------------
Pointees(o) == {graph[o].fields[k] : k \in DOMAIN graph[o].fields} \ (Values \cup {Null})
NoneAlignedMore == \A o \in DOMAIN graph : \A p \in Pointees(o) : graph[p].align <= graph[o].align

(* Where the fields begin in an object. *)
FieldStarts(fields) ==
    LET Place(acc, f) == LET at == AlignUp(acc.pos, Width(f))
                         IN  [starts |-> Append(acc.starts, at), pos |-> at + Width(f)]
    IN  FoldLeft(Place, [starts |-> <<>>, pos |-> 0], fields).starts

(* The object at an offset of the loaded memory reads like o in the graph: *)
(* the values are its values, pointers of all its elements lead to one     *)
(* place exactly if they lead to one object, and what is there reads like  *)
(* that.  It lies at o's alignment if the memory does at the root's and no *)
(* object is aligned more than one that points to it.                      *)
RECURSIVE ReadsLike(_, _)
ReadsLike(o, offset) ==
    LET fields == graph[o].fields
        Places == (1 .. graph[o].count) \X DOMAIN fields
        Cell(p) == memory.data[offset + (p[1] - 1) * SizeOf(o) + FieldStarts(fields)[p[2]] + 1]
        Field(p) == fields[p[2]]
        Pointers == {p \in Places : ~ IsValue(Field(p))}
    IN  /\ offset + TotalSize(o) <= Len(memory.data)
        /\ NoneAlignedMore => offset % graph[o].align = 0
        /\ \A p \in Places \ Pointers : Cell(p) = Field(p)
        /\ \A p, q \in Pointers : Cell(p) = Cell(q) <=> Field(p) = Field(q)
        /\ \A p \in Pointers :
               IF Field(p) = Null THEN Cell(p) = 0
               ELSE \E at \in 0 .. Len(memory.data) - 1 : Cell(p) = At(at) /\ ReadsLike(Field(p), at)

(* The memory a file was loaded into is the root with everything it points *)
(* to, by other addresses: values, null pointers, arrays and what is       *)
(* reached through several objects, whichever tables the ids went through  *)
(* when serializers were merged (serialize.cpp:157).  Pointers of one      *)
(* object to one object are such again: that is what the index map is for  *)
(* (serialize.cpp:107, serialize.hh:147).  Every serializer has its own,   *)
(* so that an object to which two objects point is written twice: nothing  *)
(* is said of sharing between objects.  A load that fails leaves what was  *)
(* there.                                                                  *)
LoadedIsSerialized == memory # None => ReadsLike(Root, 0)
=============================================================================
