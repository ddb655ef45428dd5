----------------------- MODULE MessageProcessor_proofs -----------------------
(***************************************************************************)
(* Theorems about MessageProcessor: what the ring's operations do to the   *)
(* bytes it holds, for any size of the ring, and that messages are handled *)
(* whole and in order, for any messages, sizes and cuts of the stream.     *)
(***************************************************************************)
EXTENDS MessageProcessor, FiniteSetTheorems, SequenceTheorems, SequenceLemmas, TLAPS

-----------------------------------------------------------------------------
(* The ring.                                                               *)

Slots == 0 .. BufferSize - 1

\* The slot a position behind the end of the storage wraps around to.
Place(i) == IF i < BufferSize THEN i ELSE i - BufferSize

\* The rings there are: the data reach from start to end, around.
Rings == {b \in [bytes : [Slots -> Byte], start : Slots, end : Slots, size : 0 .. BufferSize] :
             b.end = Place(b.start + b.size)}

LEMMA SizeFacts == BufferSize \in Nat \ {0} /\ Bytes \in Nat \ {0}
  BY SizeAssumption DEF BufferSize, Larger

LEMMA RemainderFacts ==
  ASSUME NEW i \in Nat, i < 2 * BufferSize
  PROVE  i % BufferSize = Place(i) /\ Place(i) \in Slots
<1>1. CASE i < BufferSize
  BY <1>1, SizeFacts DEF Place, Slots
<1>2. CASE i >= BufferSize
  <2>1. i % BufferSize = i - BufferSize
    BY <1>2, SizeFacts
  <2> QED
    BY <1>2, <2>1, SizeFacts DEF Place, Slots
<1> QED
  BY <1>1, <1>2, SizeFacts

LEMMA RingFacts ==
  ASSUME NEW b \in Rings
  PROVE  /\ BufSize(b) = BufferSize
         /\ b.bytes \in [Slots -> Byte] /\ b.start \in Slots /\ b.end \in Slots
         /\ b.size \in 0 .. BufferSize /\ b.end = Place(b.start + b.size)
         /\ b = [bytes |-> b.bytes, start |-> b.start, end |-> b.end, size |-> b.size]
<1>1. /\ b.bytes \in [Slots -> Byte] /\ b.start \in Slots /\ b.end \in Slots
      /\ b.size \in 0 .. BufferSize /\ b.end = Place(b.start + b.size)
      /\ b = [bytes |-> b.bytes, start |-> b.start, end |-> b.end, size |-> b.size]
  BY DEF Rings
<1>2. Cardinality(0 .. BufferSize - 1) = BufferSize
  BY SizeFacts, FS_Interval
<1> QED
  BY <1>1, <1>2 DEF BufSize, Slots

\* What the ring stands for, without the remainder.
LEMMA ContentsFacts ==
  ASSUME NEW b \in Rings
  PROVE  /\ Contents(b) \in Seq(Byte) /\ Len(Contents(b)) = b.size
         /\ \A i \in 1 .. b.size : /\ Place(b.start + i - 1) \in Slots
                                   /\ Contents(b)[i] = b.bytes[Place(b.start + i - 1)]
<1>1. \A i \in 1 .. b.size : /\ Place(b.start + i - 1) \in Slots
                             /\ (b.start + i - 1) % BufSize(b) = Place(b.start + i - 1)
  <2> TAKE i \in 1 .. b.size
  <2>1. b.start + i - 1 \in Nat /\ b.start + i - 1 < 2 * BufferSize
    BY RingFacts, SizeFacts DEF Slots
  <2> QED
    BY <2>1, RemainderFacts, RingFacts
<1>2. \A i \in 1 .. b.size : b.bytes[Place(b.start + i - 1)] \in Byte
  BY <1>1, RingFacts
<1>3. Contents(b) = [i \in 1 .. b.size |-> b.bytes[Place(b.start + i - 1)]]
  BY <1>1 DEF Contents
<1>4. b.size \in Nat
  BY RingFacts, SizeFacts
<1> HIDE DEF Contents
<1>5. Contents(b) \in [1 .. b.size -> Byte]
  BY <1>2, <1>3
<1>6. Contents(b) \in Seq(Byte) /\ Len(Contents(b)) = b.size
  BY <1>4, <1>5
<1> QED
  BY <1>1, <1>3, <1>6

\* A part of a sequence, from behind its first m elements to its n-th.
LEMMA PartFacts ==
  ASSUME NEW S, NEW s \in Seq(S), NEW m \in Nat, NEW n \in Nat, m <= n, n <= Len(s)
  PROVE  /\ SubSeq(s, m + 1, n) \in Seq(S)
         /\ Len(SubSeq(s, m + 1, n)) = n - m
         /\ \A i \in 1 .. n - m : SubSeq(s, m + 1, n)[i] = s[m + i]
<1>1. \A i \in m + 1 .. n : s[i] \in S
  BY LenProperties, ElementOfSeq
<1>2. /\ SubSeq(s, m + 1, n) \in Seq(S)
      /\ Len(SubSeq(s, m + 1, n)) = IF m + 1 <= n THEN n - (m + 1) + 1 ELSE 0
      /\ \A i \in 1 .. n - (m + 1) + 1 : SubSeq(s, m + 1, n)[i] = s[(m + 1) + i - 1]
  BY <1>1, SubSeqProperties, m + 1 \in Int, n \in Int
<1>3. n - (m + 1) + 1 = n - m /\ \A i \in 1 .. n - m : (m + 1) + i - 1 = m + i
  OBVIOUS
<1>4. Len(SubSeq(s, m + 1, n)) = n - m
  BY <1>2
<1> QED
  BY <1>2, <1>3, <1>4

LEMMA StartFacts ==
  ASSUME NEW S, NEW s \in Seq(S), NEW n \in Nat, n <= Len(s)
  PROVE  /\ SubSeq(s, 1, n) \in Seq(S)
         /\ Len(SubSeq(s, 1, n)) = n
         /\ \A i \in 1 .. n : SubSeq(s, 1, n)[i] = s[i]
<1>1. /\ SubSeq(s, 0 + 1, n) \in Seq(S) /\ Len(SubSeq(s, 0 + 1, n)) = n - 0
      /\ \A i \in 1 .. n - 0 : SubSeq(s, 0 + 1, n)[i] = s[0 + i]
  BY PartFacts, 0 \in Nat
<1>2. 0 + 1 = 1 /\ n - 0 = n /\ \A i \in 1 .. n : 0 + i = i
  OBVIOUS
<1> QED
  BY <1>1, <1>2

LEMMA CopiedFacts ==
  ASSUME NEW bytes \in [Slots -> Byte], NEW from \in Nat, NEW data \in Seq(Byte),
         from + Len(data) <= BufferSize
  PROVE  /\ Copied(bytes, from, data) \in [Slots -> Byte]
         /\ \A i \in 1 .. Len(data) : Copied(bytes, from, data)[from + i - 1] = data[i]
         /\ \A x \in Slots : ~(x \in from .. from + Len(data) - 1) =>
              Copied(bytes, from, data)[x] = bytes[x]
<1>1. Len(data) \in Nat /\ \A i \in 1 .. Len(data) : data[i] \in Byte
  BY LenProperties, ElementOfSeq
<1>2. \A x \in from .. from + Len(data) - 1 : x - from + 1 \in 1 .. Len(data)
  BY <1>1
<1>3. Copied(bytes, from, data) \in [Slots -> Byte]
  BY <1>1, <1>2 DEF Copied
<1>4. \A i \in 1 .. Len(data) : Copied(bytes, from, data)[from + i - 1] = data[i]
  <2> TAKE i \in 1 .. Len(data)
  <2>1. /\ from + i - 1 \in Slots /\ from + i - 1 \in from .. from + Len(data) - 1
        /\ from + i - 1 - from + 1 = i
    BY <1>1, SizeFacts DEF Slots
  <2> QED
    BY <2>1 DEF Copied
<1>5. \A x \in Slots : ~(x \in from .. from + Len(data) - 1) =>
        Copied(bytes, from, data)[x] = bytes[x]
  BY DEF Copied
<1> QED
  BY <1>3, <1>4, <1>5

\* Where the two parts lie in which Write puts l bytes: the first from e (end)
\* on, the second in front of s (start), and neither on the z bytes of data.
WriteFits(s, e, z, l, first, middle) ==
    /\ first \in 0 .. l /\ e + first <= BufferSize /\ middle \in Slots
    /\ first = l => middle = Place(e + l)
    /\ first < l => middle + (l - first) <= s /\ middle + (l - first) = Place(e + l)
    /\ \A i \in 1 .. first :
         /\ Place(e + i - 1) = e + i - 1 /\ e + i - 1 \in Slots
         /\ first < l => ~(e + i - 1 \in middle .. middle + (l - first) - 1)
    /\ \A i \in first + 1 .. l : Place(e + i - 1) = middle + (i - first) - 1
    /\ \A i \in 1 .. z :
         /\ Place(s + i - 1) \in Slots
         /\ ~(Place(s + i - 1) \in e .. e + first - 1)
         /\ first < l => ~(Place(s + i - 1) \in middle .. middle + (l - first) - 1)

LEMMA WriteArithmetic ==
  ASSUME NEW s \in Slots, NEW e \in Slots, NEW z \in 0 .. BufferSize, e = Place(s + z),
         NEW l \in Nat, z + l <= BufferSize,
         NEW first \in Int, NEW middle \in Int,
         first = IF s <= e THEN (IF l < BufferSize - e THEN l ELSE BufferSize - e) ELSE 0,
         middle = IF e + first = BufferSize THEN 0 ELSE e + first
  PROVE  WriteFits(s, e, z, l, first, middle)
<1> USE SizeFacts DEF Slots
<1>1. first \in 0 .. l /\ e + first <= BufferSize /\ middle \in 0 .. BufferSize - 1
  OBVIOUS
<1>2. first = l => middle = Place(e + l)
  BY DEF Place
<1>3. first < l => middle + (l - first) <= s /\ middle + (l - first) = Place(e + l)
  BY DEF Place
<1>4. \A i \in 1 .. first :
        /\ Place(e + i - 1) = e + i - 1 /\ e + i - 1 \in 0 .. BufferSize - 1
        /\ first < l => ~(e + i - 1 \in middle .. middle + (l - first) - 1)
  BY DEF Place
<1>5. \A i \in first + 1 .. l : Place(e + i - 1) = middle + (i - first) - 1
  BY DEF Place
<1>6. \A i \in 1 .. z :
        /\ Place(s + i - 1) \in 0 .. BufferSize - 1
        /\ ~(Place(s + i - 1) \in e .. e + first - 1)
        /\ first < l => ~(Place(s + i - 1) \in middle .. middle + (l - first) - 1)
  BY DEF Place
<1> QED
  BY ONLY <1>1, <1>2, <1>3, <1>4, <1>5, <1>6 DEF Slots, WriteFits

\* Where Write puts the data: from end on, around, and nowhere else.
LEMMA WriteFacts ==
  ASSUME NEW b \in Rings, NEW data \in Seq(Byte), Len(data) <= BufferSize - b.size
  PROVE  \E bytes \in [Slots -> Byte] :
           /\ Write(b, data) = [bytes |-> bytes, start |-> b.start,
                                end |-> Place(b.end + Len(data)), size |-> b.size + Len(data)]
           /\ \A i \in 1 .. Len(data) : bytes[Place(b.end + i - 1)] = data[i]
           /\ \A i \in 1 .. b.size : /\ Place(b.start + i - 1) \in Slots
                                     /\ bytes[Place(b.start + i - 1)]
                                          = b.bytes[Place(b.start + i - 1)]
<1> DEFINE first == IF b.start <= b.end THEN Smaller(Len(data), BufSize(b) - b.end) ELSE 0
           middle == Wrap(b, b.end + first)
           rest == SubSeq(data, first + 1, Len(data))
           more == rest # <<>> /\ middle < b.start
           part == SubSeq(data, 1, first)
           once == Copied(b.bytes, b.end, part)
           twice == Copied(once, middle, rest)
           w == Write(b, data)
<1>1. w = [bytes |-> IF more THEN twice ELSE once, start |-> b.start,
           end |-> IF more THEN middle + Smaller(b.start - middle, Len(rest)) ELSE middle,
           size |-> b.size + Len(data)]
  BY DEF Write
<1> HIDE DEF w
<1> PICK s \in Slots, e \in Slots, z \in 0 .. BufferSize, l \in Nat :
      s = b.start /\ e = b.end /\ z = b.size /\ l = Len(data)
  BY RingFacts, LenProperties
<1>2. e = Place(s + z) /\ z + l <= BufferSize /\ BufSize(b) = BufferSize /\ b.bytes \in [Slots -> Byte]
  BY RingFacts, SizeFacts
<1>3. first = IF s <= e THEN (IF l < BufferSize - e THEN l ELSE BufferSize - e) ELSE 0
  BY <1>2 DEF Smaller
<1> HIDE DEF first
<1>4. middle = IF e + first = BufferSize THEN 0 ELSE e + first
  BY <1>2 DEF Wrap
<1> HIDE DEF middle
<1>5. first \in Int /\ middle \in Int
  BY <1>3, <1>4, SizeFacts DEF Slots
<1>6. /\ first \in 0 .. l /\ e + first <= BufferSize /\ middle \in Slots
      /\ first = l => middle = Place(e + l)
      /\ first < l => middle + (l - first) <= s /\ middle + (l - first) = Place(e + l)
      /\ \A i \in 1 .. first :
           /\ Place(e + i - 1) = e + i - 1 /\ e + i - 1 \in Slots
           /\ first < l => ~(e + i - 1 \in middle .. middle + (l - first) - 1)
      /\ \A i \in first + 1 .. l : Place(e + i - 1) = middle + (i - first) - 1
      /\ \A i \in 1 .. z :
           /\ Place(s + i - 1) \in Slots
           /\ ~(Place(s + i - 1) \in e .. e + first - 1)
           /\ first < l => ~(Place(s + i - 1) \in middle .. middle + (l - first) - 1)
  <2>1. WriteFits(s, e, z, l, first, middle)
    BY <1>2, <1>3, <1>4, <1>5, WriteArithmetic
  <2> QED
    BY ONLY <2>1 DEF WriteFits
<1>7. /\ part \in Seq(Byte) /\ Len(part) = first /\ \A i \in 1 .. first : part[i] = data[i]
      /\ rest \in Seq(Byte) /\ Len(rest) = l - first
      /\ \A i \in 1 .. l - first : rest[i] = data[first + i]
  <2>1. first \in Nat /\ first <= Len(data) /\ Len(data) \in Nat
    BY <1>6
  <2>2. part \in Seq(Byte) /\ Len(part) = first /\ \A i \in 1 .. first : part[i] = data[i]
    BY <2>1, StartFacts
  <2>3. /\ rest \in Seq(Byte) /\ Len(rest) = Len(data) - first
        /\ \A i \in 1 .. Len(data) - first : rest[i] = data[first + i]
    BY <2>1, PartFacts
  <2> QED
    BY <2>2, <2>3
<1>8. rest # <<>> <=> first < l
  <2>1. rest # <<>> => Len(rest) \in Nat \ {0}
    BY <1>7, EmptySeq
  <2>2. rest = <<>> => Len(rest) = 0
    BY EmptySeq
  <2> QED
    BY <1>5, <1>6, <1>7, <2>1, <2>2
<1> HIDE DEF part, rest
<1>9. /\ once \in [Slots -> Byte]
      /\ \A i \in 1 .. first : once[e + i - 1] = data[i]
      /\ \A x \in Slots : ~(x \in e .. e + first - 1) => once[x] = b.bytes[x]
  <2>1. /\ once \in [Slots -> Byte]
        /\ \A i \in 1 .. Len(part) : once[b.end + i - 1] = part[i]
        /\ \A x \in Slots : ~(x \in b.end .. b.end + Len(part) - 1) => once[x] = b.bytes[x]
    <3>1. b.end \in Nat /\ b.end + Len(part) <= BufferSize
      BY <1>6, <1>7, SizeFacts DEF Slots
    <3> QED
      BY <1>2, <1>7, <3>1, CopiedFacts
  <2> QED
    BY <1>7, <2>1
<1> HIDE DEF once
<1>10. CASE first = l
  <2>1. w = [bytes |-> once, start |-> b.start, end |-> Place(b.end + Len(data)),
             size |-> b.size + Len(data)]
    BY <1>1, <1>6, <1>8, <1>10
  <2>2. /\ \A i \in 1 .. l : once[Place(e + i - 1)] = data[i]
        /\ \A i \in 1 .. z : /\ Place(s + i - 1) \in Slots
                             /\ once[Place(s + i - 1)] = b.bytes[Place(s + i - 1)]
    BY <1>6, <1>9, <1>10
  <2> QED
    BY <1>9, <2>1, <2>2 DEF w
<1>11. CASE first < l
  <2>1. middle < b.start /\ Smaller(b.start - middle, Len(rest)) = l - first
    BY SMTT(30), <1>6, <1>7, <1>11, SizeFacts DEF Smaller, Slots
  <2>2. w = [bytes |-> twice, start |-> b.start, end |-> Place(b.end + Len(data)),
             size |-> b.size + Len(data)]
    BY <1>1, <1>6, <1>8, <1>11, <2>1
  <2>3. /\ twice \in [Slots -> Byte]
        /\ \A i \in 1 .. l - first : twice[middle + i - 1] = data[first + i]
        /\ \A x \in Slots : ~(x \in middle .. middle + (l - first) - 1) => twice[x] = once[x]
    <3>1. middle \in Nat /\ middle + Len(rest) <= BufferSize
      BY SMTT(30), <1>6, <1>7, <1>11, SizeFacts DEF Slots
    <3>2. /\ twice \in [Slots -> Byte]
          /\ \A i \in 1 .. Len(rest) : twice[middle + i - 1] = rest[i]
          /\ \A x \in Slots : ~(x \in middle .. middle + Len(rest) - 1) => twice[x] = once[x]
      BY ZenonT(40), <1>7, <1>9, <3>1, CopiedFacts
    <3> QED
      BY <1>7, <3>2
  <2> HIDE DEF twice
  <2>4. \A i \in 1 .. l : twice[Place(e + i - 1)] = data[i]
    <3> TAKE i \in 1 .. l
    <3>1. CASE i \in 1 .. first
      <4>1. /\ Place(e + i - 1) = e + i - 1 /\ e + i - 1 \in Slots
            /\ ~(e + i - 1 \in middle .. middle + (l - first) - 1)
        BY <1>6, <1>11, <3>1
      <4>2. twice[e + i - 1] = once[e + i - 1]
        BY <2>3, <4>1
      <4>3. once[e + i - 1] = data[i]
        BY <1>9, <3>1
      <4> QED
        BY <4>1, <4>2, <4>3
    <3>2. CASE i \in first + 1 .. l
      <4>1. i - first \in 1 .. l - first /\ first + (i - first) = i
        BY <1>5, <3>2
      <4>2. twice[middle + (i - first) - 1] = data[first + (i - first)]
        BY <2>3, <4>1
      <4> QED
        BY <1>6, <3>2, <4>1, <4>2
    <3> QED
      BY <1>5, <3>1, <3>2
  <2>5. \A i \in 1 .. z : /\ Place(s + i - 1) \in Slots
                          /\ twice[Place(s + i - 1)] = b.bytes[Place(s + i - 1)]
    <3> TAKE i \in 1 .. z
    <3>1. /\ Place(s + i - 1) \in Slots
          /\ ~(Place(s + i - 1) \in e .. e + first - 1)
          /\ ~(Place(s + i - 1) \in middle .. middle + (l - first) - 1)
      BY <1>6, <1>11
    <3> QED
      BY <1>9, <2>3, <3>1
  <2> QED
    BY <2>2, <2>3, <2>4, <2>5 DEF w
<1> QED
  BY <1>5, <1>6, <1>10, <1>11

\* Places in the ring add up.
LEMMA PlaceFacts ==
  ASSUME NEW s \in Slots, NEW z \in 0 .. BufferSize, NEW l \in Nat, z + l <= BufferSize
  PROVE  /\ Place(Place(s + z) + l) = Place(s + (z + l)) /\ Place(s + (z + l)) \in Slots
         /\ \A i \in z + 1 .. z + l : Place(s + i - 1) = Place(Place(s + z) + (i - z) - 1)
  BY SizeFacts DEF Place, Slots

\* Write appends the data to what the ring holds, wherever it wraps around.
LEMMA WriteAppends ==
  ASSUME NEW b \in Rings, NEW data \in Seq(Byte), Len(data) <= BufferSize - b.size
  PROVE  Write(b, data) \in Rings /\ Contents(Write(b, data)) = Contents(b) \o data
<1> PICK bytes \in [Slots -> Byte] :
      /\ Write(b, data) = [bytes |-> bytes, start |-> b.start,
                           end |-> Place(b.end + Len(data)), size |-> b.size + Len(data)]
      /\ \A i \in 1 .. Len(data) : bytes[Place(b.end + i - 1)] = data[i]
      /\ \A i \in 1 .. b.size : /\ Place(b.start + i - 1) \in Slots
                                /\ bytes[Place(b.start + i - 1)] = b.bytes[Place(b.start + i - 1)]
  BY WriteFacts
<1> DEFINE w == Write(b, data)
<1> PICK s \in Slots, e \in Slots, z \in 0 .. BufferSize, l \in Nat :
      s = b.start /\ e = b.end /\ z = b.size /\ l = Len(data)
  BY RingFacts, LenProperties
<1>1. e = Place(s + z) /\ z + l <= BufferSize
  BY RingFacts, SizeFacts
<1>2. /\ z + l \in 0 .. BufferSize /\ Place(e + l) = Place(s + (z + l)) /\ Place(e + l) \in Slots
      /\ \A i \in z + 1 .. z + l : /\ Place(s + i - 1) = Place(e + (i - z) - 1)
                                   /\ i - z \in 1 .. l
  <2>1. z + l \in 0 .. BufferSize
    BY <1>1, SizeFacts
  <2>2. Place(e + l) = Place(s + (z + l)) /\ Place(e + l) \in Slots
    BY <1>1, PlaceFacts
  <2>3. \A i \in z + 1 .. z + l : Place(s + i - 1) = Place(e + (i - z) - 1)
    BY <1>1, PlaceFacts
  <2>4. \A i \in z + 1 .. z + l : i - z \in 1 .. l
    BY SMTT(30), SizeFacts
  <2> QED
    BY <2>1, <2>2, <2>3, <2>4
<1>3. w \in Rings
  BY <1>2 DEF Rings
<1>4. w.bytes = bytes /\ w.start = s /\ w.size = z + l
  OBVIOUS
<1> HIDE DEF w
<1>5. /\ Contents(w) \in Seq(Byte) /\ Len(Contents(w)) = z + l
      /\ \A i \in 1 .. z + l : Contents(w)[i] = bytes[Place(s + i - 1)]
  BY <1>3, <1>4, ContentsFacts
<1>6. /\ Contents(b) \in Seq(Byte) /\ Len(Contents(b)) = z
      /\ \A i \in 1 .. z : Contents(b)[i] = b.bytes[Place(s + i - 1)]
  BY ContentsFacts
<1>7. /\ Contents(b) \o data \in Seq(Byte) /\ Len(Contents(b) \o data) = z + l
      /\ \A i \in 1 .. z + l : (Contents(b) \o data)[i]
                                 = IF i <= z THEN Contents(b)[i] ELSE data[i - z]
  <2>1. /\ Contents(b) \o data \in Seq(Byte)
        /\ Len(Contents(b) \o data) = Len(Contents(b)) + Len(data)
        /\ \A i \in 1 .. Len(Contents(b)) + Len(data) :
             (Contents(b) \o data)[i] = IF i <= Len(Contents(b)) THEN Contents(b)[i]
                                        ELSE data[i - Len(Contents(b))]
    BY <1>6, ConcatProperties
  <2> QED
    BY <1>6, <2>1
<1>8. \A i \in 1 .. z + l : Contents(w)[i] = (Contents(b) \o data)[i]
  <2> TAKE i \in 1 .. z + l
  <2>1. CASE i \in 1 .. z
    BY <1>5, <1>6, <1>7, <2>1
  <2>2. CASE ~(i \in 1 .. z)
    <3>0. i \in z + 1 .. z + l
      BY <2>2, SizeFacts
    <3>1. ~(i <= z)
      BY <3>0, SizeFacts
    <3>2. i - z \in 1 .. l
      BY <1>2, <3>0
    <3>3. bytes[Place(e + (i - z) - 1)] = data[i - z]
      BY <3>2
    <3> QED
      BY <1>2, <1>5, <1>7, <3>0, <3>1, <3>3
  <2> QED
    BY <2>1, <2>2
<1>9. Contents(w) = Contents(b) \o data
  BY <1>5, <1>7, <1>8, SeqEqual
<1> QED
  BY <1>3, <1>9 DEF w

\* Where the two parts lie that Read and Skip walk through.
ReadFits(s, e, z, n, first, from, count) ==
    /\ first \in 0 .. n /\ first + count = n /\ count \in Nat
    /\ from + count = Place(s + n) /\ Place(s + n) \in Slots
    /\ \A i \in 1 .. first : Place(s + i - 1) = s + i - 1 /\ s + i - 1 \in Slots
    /\ \A i \in 1 .. count : /\ Place(s + (first + i) - 1) = from + i - 1
                             /\ from + i - 1 \in Slots

LEMMA ReadArithmetic ==
  ASSUME NEW s \in Slots, NEW e \in Slots, NEW z \in 0 .. BufferSize, e = Place(s + z),
         NEW n \in 0 .. z,
         NEW first \in Int, NEW from \in Int, NEW count \in Int,
         first = IF s >= e THEN (IF n < BufferSize - s THEN n ELSE BufferSize - s) ELSE 0,
         from = IF s + first = BufferSize THEN 0 ELSE s + first,
         count = IF n - first > 0 /\ from < e
                 THEN (IF n - first < e - from THEN n - first ELSE e - from) ELSE 0
  PROVE  ReadFits(s, e, z, n, first, from, count)
<1> USE SizeFacts DEF Slots, Place
<1>1. first \in 0 .. n /\ first + count = n /\ count \in Nat
  OBVIOUS
<1>2. from + count = Place(s + n) /\ Place(s + n) \in Slots
  OBVIOUS
<1>3. \A i \in 1 .. first : Place(s + i - 1) = s + i - 1 /\ s + i - 1 \in Slots
  OBVIOUS
<1>4. \A i \in 1 .. count : /\ Place(s + (first + i) - 1) = from + i - 1
                            /\ from + i - 1 \in Slots
  OBVIOUS
<1> QED
  BY ONLY <1>1, <1>2, <1>3, <1>4 DEF ReadFits

LEMMA BehindFacts ==
  ASSUME NEW b \in Rings, NEW n \in 0 .. b.size
  PROVE  ReadFits(b.start, b.end, b.size, n, FirstPart(b, n), Behind(b, n).at, Behind(b, n).count)
<1> DEFINE first == FirstPart(b, n)
           from  == Wrap(b, b.start + first)
           count == IF n - first > 0 /\ from < b.end THEN Smaller(n - first, b.end - from) ELSE 0
<1> PICK s \in Slots, e \in Slots, z \in 0 .. BufferSize :
      s = b.start /\ e = b.end /\ z = b.size
  BY RingFacts
<1>1. e = Place(s + z) /\ BufSize(b) = BufferSize
  BY RingFacts
<1>2. Behind(b, n).at = from /\ Behind(b, n).count = count
  BY DEF Behind
<1>3. first = IF s >= e THEN (IF n < BufferSize - s THEN n ELSE BufferSize - s) ELSE 0
  BY <1>1 DEF FirstPart, Smaller
<1> HIDE DEF first
<1>4. from = IF s + first = BufferSize THEN 0 ELSE s + first
  BY <1>1 DEF Wrap
<1> HIDE DEF from
<1>5. count = IF n - first > 0 /\ from < e
              THEN (IF n - first < e - from THEN n - first ELSE e - from) ELSE 0
  BY DEF Smaller
<1> HIDE DEF count
<1>6. first \in Int
  BY <1>3, SizeFacts DEF Slots
<1>7. from \in Int
  BY <1>4, <1>6, SizeFacts DEF Slots
<1>8. count \in Int
  BY <1>5, <1>6, <1>7, SizeFacts DEF Slots
<1>9. ReadFits(s, e, z, n, first, from, count)
  BY <1>1, <1>3, <1>4, <1>5, <1>6, <1>7, <1>8, ReadArithmetic
<1> QED
  BY <1>2, <1>9 DEF first

\* Skip takes the first n bytes away.
LEMMA SkipDrops ==
  ASSUME NEW b \in Rings, NEW n \in 0 .. b.size
  PROVE  /\ Skip(b, n) \in Rings
         /\ Contents(Skip(b, n)) = SubSeq(Contents(b), n + 1, b.size)
<1> DEFINE r == Skip(b, n)
<1> PICK s \in Slots, e \in Slots, z \in 0 .. BufferSize :
      s = b.start /\ e = b.end /\ z = b.size
  BY RingFacts
<1>1. e = Place(s + z) /\ b.bytes \in [Slots -> Byte]
  BY RingFacts
<1>2. Behind(b, n).at + Behind(b, n).count = Place(s + n) /\ Place(s + n) \in Slots
  BY BehindFacts DEF ReadFits
<1>3. r = [bytes |-> b.bytes, start |-> Place(s + n), end |-> e, size |-> z - n]
  <2>1. ~(b.size < n)
    BY SizeFacts
  <2>2. r = [b EXCEPT !.size = @ - n, !.start = Behind(b, n).at + Behind(b, n).count]
    BY <2>1 DEF Skip
  <2> QED
    BY <1>2, <2>2, RingFacts
<1>4. /\ z - n \in 0 .. BufferSize /\ n \in 0 .. BufferSize /\ z - n \in Nat /\ n + (z - n) = z
      /\ n \in Nat /\ z \in Nat /\ n <= z
  BY SizeFacts
<1>5. /\ Place(Place(s + n) + (z - n)) = Place(s + (n + (z - n)))
      /\ \A i \in n + 1 .. n + (z - n) : Place(s + i - 1) = Place(Place(s + n) + (i - n) - 1)
  BY <1>4, SizeFacts, PlaceFacts
<1>6. r \in Rings
  BY <1>1, <1>2, <1>3, <1>4, <1>5 DEF Rings
<1>7. r.bytes = b.bytes /\ r.start = Place(s + n) /\ r.size = z - n
  BY <1>3
<1> HIDE DEF r
<1>8. /\ Contents(r) \in Seq(Byte) /\ Len(Contents(r)) = z - n
      /\ \A i \in 1 .. z - n : Contents(r)[i] = b.bytes[Place(Place(s + n) + i - 1)]
  BY <1>6, <1>7, ContentsFacts
<1>9. /\ Contents(b) \in Seq(Byte) /\ Len(Contents(b)) = z
      /\ \A i \in 1 .. z : Contents(b)[i] = b.bytes[Place(s + i - 1)]
  BY ContentsFacts
<1>10. /\ SubSeq(Contents(b), n + 1, z) \in Seq(Byte) /\ Len(SubSeq(Contents(b), n + 1, z)) = z - n
       /\ \A i \in 1 .. z - n : SubSeq(Contents(b), n + 1, z)[i] = Contents(b)[n + i]
  <2>1. n <= z /\ z <= Len(Contents(b))
    BY <1>4, <1>9
  <2> HIDE DEF Contents
  <2> QED
    BY ZenonT(40), <1>4, <1>9, <2>1, PartFacts
<1>11. \A i \in 1 .. z - n : Contents(r)[i] = SubSeq(Contents(b), n + 1, z)[i]
  <2> TAKE i \in 1 .. z - n
  <2>1. n + i \in n + 1 .. n + (z - n) /\ n + i \in 1 .. z /\ (n + i) - n = i
    BY <1>4
  <2>2. Place(s + (n + i) - 1) = Place(Place(s + n) + i - 1)
    BY <1>5, <2>1
  <2> QED
    BY <1>8, <1>9, <1>10, <2>1, <2>2
<1>12. Contents(r) = SubSeq(Contents(b), n + 1, z)
  BY <1>8, <1>10, <1>11, SeqEqual
<1> QED
  BY <1>6, <1>12 DEF r

\* Read and Peek give the first n bytes.
LEMMA ReadGives ==
  ASSUME NEW b \in Rings, NEW n \in 0 .. b.size
  PROVE  Read(b, n) = SubSeq(Contents(b), 1, n)
<1> DEFINE first == FirstPart(b, n)
           from  == Behind(b, n).at
           count == Behind(b, n).count
           one   == [i \in 1 .. first |-> b.bytes[b.start + i - 1]]
           two   == [i \in 1 .. count |-> b.bytes[from + i - 1]]
<1> PICK s \in Slots, z \in 0 .. BufferSize : s = b.start /\ z = b.size
  BY RingFacts
<1>1. ReadFits(s, b.end, z, n, first, from, count)
  BY BehindFacts
<1>2. Read(b, n) = one \o two
  BY DEF Read
<1> HIDE DEF first, from, count
<1>3. /\ first \in Nat /\ count \in Nat /\ first + count = n /\ n \in Nat /\ n <= z
      /\ \A i \in 1 .. first : Place(s + i - 1) = s + i - 1 /\ s + i - 1 \in Slots
      /\ \A i \in 1 .. count : /\ Place(s + (first + i) - 1) = from + i - 1
                               /\ from + i - 1 \in Slots
  BY <1>1, SizeFacts DEF ReadFits
<1>4. b.bytes \in [Slots -> Byte]
  BY RingFacts
<1>5. /\ one \in Seq(Byte) /\ Len(one) = first
      /\ \A i \in 1 .. first : one[i] = b.bytes[Place(s + i - 1)]
  <2>1. one \in [1 .. first -> Byte] /\ \A i \in 1 .. first : one[i] = b.bytes[Place(s + i - 1)]
    BY <1>3, <1>4
  <2> HIDE DEF one
  <2>2. first \in Nat /\ one \in [1 .. first -> Byte]
    BY <1>3, <2>1
  <2>3. one \in Seq(Byte) /\ Len(one) = first
    BY ONLY <2>2
  <2> QED
    BY ONLY <2>1, <2>3
<1>6. /\ two \in Seq(Byte) /\ Len(two) = count
      /\ \A i \in 1 .. count : two[i] = b.bytes[Place(s + (first + i) - 1)]
  <2>1. /\ two \in [1 .. count -> Byte]
        /\ \A i \in 1 .. count : two[i] = b.bytes[Place(s + (first + i) - 1)]
    BY <1>3, <1>4
  <2> HIDE DEF two
  <2>2. count \in Nat /\ two \in [1 .. count -> Byte]
    BY <1>3, <2>1
  <2>3. two \in Seq(Byte) /\ Len(two) = count
    BY ONLY <2>2
  <2> QED
    BY ONLY <2>1, <2>3
<1> HIDE DEF one, two
<1>7. /\ Contents(b) \in Seq(Byte) /\ Len(Contents(b)) = z
      /\ \A i \in 1 .. z : Contents(b)[i] = b.bytes[Place(s + i - 1)]
  BY ContentsFacts
<1>8. /\ SubSeq(Contents(b), 1, n) \in Seq(Byte) /\ Len(SubSeq(Contents(b), 1, n)) = n
      /\ \A i \in 1 .. n : SubSeq(Contents(b), 1, n)[i] = Contents(b)[i]
  BY <1>3, <1>7, StartFacts
<1>9. /\ one \o two \in Seq(Byte) /\ Len(one \o two) = n
      /\ \A i \in 1 .. n : (one \o two)[i] = IF i <= first THEN one[i] ELSE two[i - first]
  <2>1. /\ one \o two \in Seq(Byte)
        /\ Len(one \o two) = Len(one) + Len(two)
        /\ \A i \in 1 .. Len(one) + Len(two) :
             (one \o two)[i] = IF i <= Len(one) THEN one[i] ELSE two[i - Len(one)]
    BY <1>5, <1>6, ConcatProperties
  <2> QED
    BY <1>3, <1>5, <1>6, <2>1
<1>10. \A i \in 1 .. n : (one \o two)[i] = SubSeq(Contents(b), 1, n)[i]
  <2> TAKE i \in 1 .. n
  <2>1. i \in 1 .. z
    BY <1>3
  <2>2. CASE i <= first
    <3>1. i \in 1 .. first
      BY <1>3, <2>2
    <3> QED
      BY <1>5, <1>7, <1>8, <1>9, <2>1, <2>2, <3>1
  <2>3. CASE ~(i <= first)
    <3>1. i - first \in 1 .. count /\ first + (i - first) = i
      BY <1>3, <2>3
    <3>2. two[i - first] = b.bytes[Place(s + (first + (i - first)) - 1)]
      BY <1>6, <3>1
    <3> QED
      BY <1>7, <1>8, <1>9, <2>1, <2>3, <3>1, <3>2
  <2> QED
    BY <2>2, <2>3
<1>11. one \o two = SubSeq(Contents(b), 1, n)
  BY <1>8, <1>9, <1>10, SeqEqual
<1> QED
  BY <1>2, <1>11

LEMMA PeekedGives ==
  ASSUME NEW b \in Rings, NEW n \in 1 .. b.size, Peek(b, n)
  PROVE  Peeked(b, n) = SubSeq(Contents(b), 1, n)
<1> PICK s \in Slots, e \in Slots, z \in 0 .. BufferSize :
      s = b.start /\ e = b.end /\ z = b.size
  BY RingFacts
<1>1. n <= (IF s < e THEN e ELSE BufferSize) - s
  BY RingFacts DEF Peek
<1>2. n \in Nat /\ n <= z
  BY SizeFacts
<1>3. \A i \in 1 .. n : Place(s + i - 1) = s + i - 1 /\ s + i - 1 \in Slots /\ i \in 1 .. z
  <2>1. n <= BufferSize - s
    BY <1>1, SizeFacts DEF Slots
  <2> QED
    BY <1>2, <2>1, SizeFacts DEF Slots, Place
<1> DEFINE p == [i \in 1 .. n |-> b.bytes[s + i - 1]]
<1>4. b.bytes \in [Slots -> Byte]
  BY RingFacts
<1>5. p \in [1 .. n -> Byte] /\ \A i \in 1 .. n : p[i] = b.bytes[Place(s + i - 1)]
  BY <1>3, <1>4
<1>6. Peeked(b, n) = p
  BY DEF Peeked
<1> HIDE DEF p
<1>7. p \in Seq(Byte) /\ Len(p) = n
  BY <1>2, <1>5
<1>8. /\ Contents(b) \in Seq(Byte) /\ Len(Contents(b)) = z
      /\ \A i \in 1 .. z : Contents(b)[i] = b.bytes[Place(s + i - 1)]
  BY ContentsFacts
<1>9. /\ SubSeq(Contents(b), 1, n) \in Seq(Byte) /\ Len(SubSeq(Contents(b), 1, n)) = n
      /\ \A i \in 1 .. n : SubSeq(Contents(b), 1, n)[i] = Contents(b)[i]
  BY <1>2, <1>8, StartFacts
<1>10. \A i \in 1 .. n : p[i] = SubSeq(Contents(b), 1, n)[i]
  BY <1>3, <1>5, <1>8, <1>9
<1>11. p = SubSeq(Contents(b), 1, n)
  BY <1>7, <1>9, <1>10, SeqEqual
<1> QED
  BY <1>6, <1>11

-----------------------------------------------------------------------------
(* The inductive invariant.                                                *)

Message == [type : Nat, payload : Seq(Byte)]

TypeOK == /\ sending \in Seq(Seq(Byte)) /\ Len(sending) <= 2
          /\ sent \in Seq(Message)
          /\ stream \in Seq(Byte)
          /\ open \in [sender : BOOLEAN, receiver : BOOLEAN]
          /\ buffer \in Rings
          /\ at \in {"idle", "Update", "Process"}
          /\ handled \in Seq(Message)

\* The bytes between the sender and HandleMessage, the oldest first.
Unsent == IF sending = <<>> THEN <<>>
          ELSE sending[1] \o (IF Len(sending) = 2 THEN sending[2] ELSE <<>>)
Pipe   == Contents(buffer) \o (stream \o Unsent)

\* A message as it travels, its sizes being below 2^16 (Framed).
Frame(m)     == <<m.type, Len(m.payload)>> \o m.payload
FrameSize(m) == Header + Len(m.payload)

\* off[i] is where the i-th message ends in all the bytes ever sent, and k the
\* number of messages that have left the ring: behind them, the pipe holds the
\* frames of the others, and all of them while the sender's socket is open.
Carries(pipe, off, k) ==
    /\ Len(pipe) <= off[Len(sent)] - off[k]
    /\ open.sender => Len(pipe) = off[Len(sent)] - off[k]
    /\ \A i \in k + 1 .. Len(sent) : \A j \in 1 .. FrameSize(sent[i]) :
         off[i - 1] - off[k] + j <= Len(pipe) =>
           pipe[off[i - 1] - off[k] + j] = Frame(sent[i])[j]

Ends(off) ==
    /\ \A i \in 1 .. Len(sent) : off[i] = off[i - 1] + FrameSize(sent[i])
    /\ \A i, j \in 0 .. Len(sent) : i <= j => off[i] <= off[j]

Delivery == \E k \in 0 .. Len(sent), off \in [0 .. Len(sent) -> Nat] :
               Ends(off) /\ Carries(Pipe, off, k) /\ HandledAre(k)

IInv == TypeOK /\ (Framed => Delivery)
-----------------------------------------------------------------------------
(* Sequences.                                                              *)

Parts(q, s, u, v) ==
    /\ Len(q) = Len(s) + Len(u) + Len(v)
    /\ \A i \in 1 .. Len(s) : q[i] = s[i]
    /\ \A i \in Len(s) + 1 .. Len(s) + Len(u) : q[i] = u[i - Len(s)]
    /\ \A i \in Len(s) + Len(u) + 1 .. Len(s) + Len(u) + Len(v) : q[i] = v[i - Len(s) - Len(u)]

LEMMA ThreeParts ==
  ASSUME NEW s \in Seq(Byte), NEW u \in Seq(Byte), NEW v \in Seq(Byte)
  PROVE  /\ s \o (u \o v) \in Seq(Byte)
         /\ Parts(s \o (u \o v), s, u, v)
<1>1. Len(s) \in Nat /\ Len(u) \in Nat /\ Len(v) \in Nat
  BY LenProperties
<1>2. /\ u \o v \in Seq(Byte) /\ Len(u \o v) = Len(u) + Len(v)
      /\ \A i \in 1 .. Len(u) + Len(v) : (u \o v)[i] = IF i <= Len(u) THEN u[i] ELSE v[i - Len(u)]
  BY ConcatProperties
<1> DEFINE t == u \o v
<1> HIDE DEF t
<1>3. /\ s \o t \in Seq(Byte) /\ Len(s \o t) = Len(s) + Len(t)
      /\ \A i \in 1 .. Len(s) + Len(t) : (s \o t)[i] = IF i <= Len(s) THEN s[i] ELSE t[i - Len(s)]
  BY <1>2, ConcatProperties DEF t
<1>4. /\ t \in Seq(Byte) /\ Len(t) = Len(u) + Len(v)
      /\ \A i \in 1 .. Len(u) + Len(v) : t[i] = IF i <= Len(u) THEN u[i] ELSE v[i - Len(u)]
  BY <1>2 DEF t
<1>5. Len(s \o t) = Len(s) + Len(u) + Len(v)
  BY <1>1, <1>3, <1>4
<1>6. \A i \in 1 .. Len(s) : (s \o t)[i] = s[i]
  BY <1>1, <1>3, <1>4
<1>7. \A i \in Len(s) + 1 .. Len(s) + Len(u) : (s \o t)[i] = u[i - Len(s)]
  <2> TAKE i \in Len(s) + 1 .. Len(s) + Len(u)
  <2>1. i \in 1 .. Len(s) + Len(t) /\ ~(i <= Len(s)) /\ i - Len(s) \in 1 .. Len(u) + Len(v)
        /\ i - Len(s) <= Len(u)
    BY <1>1, <1>4
  <2> QED
    BY <1>3, <1>4, <2>1
<1>8. \A i \in Len(s) + Len(u) + 1 .. Len(s) + Len(u) + Len(v) :
        (s \o t)[i] = v[i - Len(s) - Len(u)]
  <2> TAKE i \in Len(s) + Len(u) + 1 .. Len(s) + Len(u) + Len(v)
  <2>1. i \in 1 .. Len(s) + Len(t) /\ ~(i <= Len(s)) /\ i - Len(s) \in 1 .. Len(u) + Len(v)
        /\ ~(i - Len(s) <= Len(u))
    BY <1>1, <1>4
  <2> QED
    BY <1>3, <1>4, <2>1
<1> QED
  BY <1>3, <1>5, <1>6, <1>7, <1>8 DEF t, Parts

\* Bytes that move from the front of one part to the end of the part before it.
LEMMA MovePart ==
  ASSUME NEW s \in Seq(Byte), NEW u \in Seq(Byte), NEW v \in Seq(Byte),
         NEW n \in Nat, n <= Len(u)
  PROVE  s \o (u \o v) = (s \o SubSeq(u, 1, n)) \o (SubSeq(u, n + 1, Len(u)) \o v)
<1> DEFINE a == SubSeq(u, 1, n)
           c == SubSeq(u, n + 1, Len(u))
<1>1. a \in Seq(Byte) /\ c \in Seq(Byte) /\ u = a \o c
  <2>1. a \in Seq(Byte)
    BY StartFacts
  <2>2. c \in Seq(Byte)
    BY PartFacts, LenProperties
  <2>3. a \o c = SubSeq(u, 1, Len(u))
    <3>1. 1 \in 1 .. Len(u) + 1 /\ n \in 1 - 1 .. Len(u) /\ Len(u) \in n .. Len(u)
      BY LenProperties
    <3> QED
      BY <3>1, ConcatAdjacentSubSeq
  <2> QED
    BY <2>1, <2>2, <2>3, SubSeqFull
<1> HIDE DEF a, c
<1>2. (a \o c) \o v = a \o (c \o v) /\ c \o v \in Seq(Byte)
  BY SMTT(30), <1>1, ConcatAssociative, ConcatProperties
<1>3. s \o (a \o (c \o v)) = (s \o a) \o (c \o v)
  <2> DEFINE d == c \o v
  <2>1. d \in Seq(Byte)
    BY <1>2
  <2> HIDE DEF d
  <2>2. (s \o a) \o d = s \o (a \o d)
    BY SMTT(30), <1>1, <2>1, ConcatAssociative
  <2> QED
    BY <2>2 DEF d
<1>4. s \o (u \o v) = (s \o a) \o (c \o v)
  BY <1>1, <1>2, <1>3
<1> QED
  BY <1>4 DEF a, c

LEMMA ByteFacts ==
  ASSUME NEW x \in Nat
  PROVE  x % Bytes \in Byte /\ (x < Bytes => x \in Byte /\ x % Bytes = x)
  BY SizeFacts DEF Byte

LEMMA ByteIsNat == Byte \subseteq Nat
  BY SizeFacts DEF Byte

LEMMA FrameFacts ==
  ASSUME NEW m \in Message
  PROVE  /\ FrameSize(m) \in Nat /\ FrameSize(m) >= Header /\ m.type \in Nat
         /\ Len(m.payload) \in Nat /\ FrameSize(m) = Header + Len(m.payload)
         /\ m = [type |-> m.type, payload |-> m.payload] /\ m.payload \in Seq(Byte)
         /\ m.type < Bytes /\ Len(m.payload) < Bytes =>
              /\ Frame(m) \in Seq(Byte) /\ Len(Frame(m)) = FrameSize(m)
              /\ Frame(m)[1] = m.type /\ Frame(m)[2] = Len(m.payload)
              /\ \A j \in 1 .. Len(m.payload) : Frame(m)[Header + j] = m.payload[j]
<1>1. /\ m.type \in Nat /\ m.payload \in Seq(Byte) /\ Len(m.payload) \in Nat
      /\ m = [type |-> m.type, payload |-> m.payload]
  BY LenProperties DEF Message
<1>2. FrameSize(m) \in Nat /\ FrameSize(m) >= Header
  BY <1>1 DEF FrameSize, Header
<1>3. ASSUME m.type < Bytes, Len(m.payload) < Bytes
      PROVE  /\ Frame(m) \in Seq(Byte) /\ Len(Frame(m)) = FrameSize(m)
             /\ Frame(m)[1] = m.type /\ Frame(m)[2] = Len(m.payload)
             /\ \A j \in 1 .. Len(m.payload) : Frame(m)[Header + j] = m.payload[j]
  <2> DEFINE h == <<m.type, Len(m.payload)>>
             f == h \o m.payload
  <2>1. m.type \in Byte /\ Len(m.payload) \in Byte
    BY <1>1, <1>3, ByteFacts
  <2>2. h \in Seq(Byte) /\ Len(h) = 2 /\ h[1] = m.type /\ h[2] = Len(m.payload)
    BY <2>1
  <2> HIDE DEF h
  <2>3. /\ f \in Seq(Byte) /\ Len(f) = Len(h) + Len(m.payload)
        /\ \A i \in 1 .. Len(h) + Len(m.payload) :
             f[i] = IF i <= Len(h) THEN h[i] ELSE m.payload[i - Len(h)]
    BY <1>1, <2>2, ConcatProperties
  <2>4. Frame(m) = f
    BY DEF Frame, h
  <2> HIDE DEF f
  <2>5. f[1] = m.type /\ f[2] = Len(m.payload)
    <3>1. 1 \in 1 .. Len(h) + Len(m.payload) /\ 2 \in 1 .. Len(h) + Len(m.payload)
      BY <1>1, <2>2
    <3>2. f[1] = h[1] /\ f[2] = h[2]
      BY <2>2, <2>3, <3>1
    <3> QED
      BY <2>2, <3>2
  <2>6. \A j \in 1 .. Len(m.payload) : f[2 + j] = m.payload[j]
    <3> TAKE j \in 1 .. Len(m.payload)
    <3>1. 2 + j \in 1 .. Len(h) + Len(m.payload) /\ ~(2 + j <= Len(h)) /\ 2 + j - Len(h) = j
      BY <1>1, <2>2
    <3> QED
      BY <2>3, <3>1
  <2> QED
    BY <1>1, <2>2, <2>3, <2>4, <2>5, <2>6 DEF FrameSize, Header
<1> QED
  BY <1>1, <1>2, <1>3 DEF FrameSize

\* What is in the pipe, part by part.
LEMMA PipeFacts ==
  ASSUME TypeOK
  PROVE  /\ Contents(buffer) \in Seq(Byte) /\ Len(Contents(buffer)) = buffer.size
         /\ Unsent \in Seq(Byte) /\ Pipe \in Seq(Byte)
         /\ Len(Pipe) = buffer.size + Len(stream) + Len(Unsent)
         /\ buffer.size \in Nat /\ Len(stream) \in Nat /\ Len(Unsent) \in Nat
         /\ \A i \in 1 .. buffer.size : Pipe[i] = Contents(buffer)[i]
<1>1. /\ Contents(buffer) \in Seq(Byte) /\ Len(Contents(buffer)) = buffer.size
      /\ buffer.size \in Nat
  BY ContentsFacts, RingFacts, SizeFacts DEF TypeOK
<1>2. Unsent \in Seq(Byte)
  <2>1. CASE sending = <<>>
    BY <2>1, EmptySeq DEF Unsent
  <2>2. CASE sending # <<>>
    <3>1. sending \in Seq(Seq(Byte)) /\ Len(sending) \in Nat \ {0} /\ sending[1] \in Seq(Byte)
      BY <2>2, EmptySeq, ElementOfSeq DEF TypeOK
    <3>2. Len(sending) = 2 => sending[2] \in Seq(Byte)
      <4>1. ASSUME Len(sending) = 2 PROVE 2 \in 1 .. Len(sending)
        BY <4>1
      <4> QED
        BY <3>1, <4>1, ElementOfSeq
    <3>3. (IF Len(sending) = 2 THEN sending[2] ELSE <<>>) \in Seq(Byte)
      BY <3>2, EmptySeq
    <3> QED
      BY <2>2, <3>1, <3>3, ConcatProperties DEF Unsent
  <2> QED
    BY <2>1, <2>2
<1>3. stream \in Seq(Byte) /\ Len(stream) \in Nat /\ Len(Unsent) \in Nat
  BY <1>2, LenProperties DEF TypeOK
<1> HIDE DEF Unsent, Contents
<1>4. /\ Pipe \in Seq(Byte)
      /\ Len(Pipe) = Len(Contents(buffer)) + Len(stream) + Len(Unsent)
      /\ \A i \in 1 .. Len(Contents(buffer)) : Pipe[i] = Contents(buffer)[i]
  BY <1>1, <1>2, <1>3, ThreeParts DEF Pipe, Parts
<1> QED
  BY <1>1, <1>2, <1>3, <1>4

LEMMA InitEstablishes == Init => IInv
<1> SUFFICES ASSUME Init PROVE IInv
  OBVIOUS
<1> USE DEF Init
<1>1. buffer \in Rings /\ buffer.size = 0
  <2>1. [i \in 0 .. BufferSize - 1 |-> 0] \in [Slots -> Byte]
    BY SizeFacts DEF Slots, Byte
  <2>2. 0 = Place(0 + 0) /\ 0 \in Slots /\ 0 \in 0 .. BufferSize
    BY SizeFacts DEF Place, Slots
  <2>3. buffer = [bytes |-> [i \in 0 .. BufferSize - 1 |-> 0], start |-> 0, end |-> 0, size |-> 0]
    BY DEF NewBuffer
  <2>4. /\ buffer \in [bytes : [Slots -> Byte], start : Slots, end : Slots, size : 0 .. BufferSize]
        /\ buffer.end = Place(buffer.start + buffer.size) /\ buffer.size = 0
    <3> DEFINE zeros == [i \in 0 .. BufferSize - 1 |-> 0]
    <3>1. zeros \in [Slots -> Byte] /\ buffer = [bytes |-> zeros, start |-> 0, end |-> 0, size |-> 0]
      BY <2>1, <2>3
    <3> HIDE DEF zeros
    <3>2. buffer \in [bytes : [Slots -> Byte], start : Slots, end : Slots, size : 0 .. BufferSize]
      BY <2>2, <3>1
    <3>3. buffer.start = 0 /\ buffer.end = 0 /\ buffer.size = 0
      BY <3>1
    <3> QED
      BY <2>2, <3>2, <3>3
  <2> QED
    BY <2>4 DEF Rings
<1>2. TypeOK
  BY <1>1, EmptySeq DEF TypeOK
<1>3. Len(sent) = 0 /\ Len(stream) = 0 /\ DOMAIN handled = {} /\ Len(Pipe) = 0
  <2>1. Len(Unsent) = 0 /\ Len(stream) = 0
    BY EmptySeq DEF Unsent
  <2> QED
    BY <1>1, <1>2, <2>1, PipeFacts, EmptySeq
<1>4. Delivery
  <2> DEFINE off == [i \in 0 .. Len(sent) |-> 0]
  <2>1. 0 \in 0 .. Len(sent) /\ off \in [0 .. Len(sent) -> Nat] /\ off[0] = 0
    BY <1>3
  <2>2. Ends(off)
    BY <1>3 DEF Ends
  <2>3. Carries(Pipe, off, 0)
    BY <1>3, <2>1 DEF Carries
  <2>4. HandledAre(0)
    <3> DEFINE pick == [i \in DOMAIN handled |-> 0]
    <3>1. pick \in [DOMAIN handled -> 1 .. 0]
      BY <1>3
    <3>2. {pick[i] : i \in DOMAIN handled} = {i \in 1 .. 0 : Fits(sent[i])}
      BY <1>3
    <3> QED
      BY <1>3, <3>1, <3>2 DEF HandledAre
  <2> QED
    BY <2>1, <2>2, <2>3, <2>4 DEF Delivery
<1> QED
  BY <1>2, <1>4 DEF IInv

\* Steps that move bytes, or do nothing to them.
LEMMA MovingPreserves ==
  ASSUME IInv, TypeOK', Pipe' = Pipe, UNCHANGED <<sent, handled>>, open'.sender => open.sender
  PROVE  IInv'
<1>1. Framed' <=> Framed
  BY DEF Framed
<1>2. ASSUME Delivery PROVE Delivery'
  <2> PICK k \in 0 .. Len(sent), off \in [0 .. Len(sent) -> Nat] :
        Ends(off) /\ Carries(Pipe, off, k) /\ HandledAre(k)
    BY <1>2 DEF Delivery
  <2>1. Ends(off)' /\ HandledAre(k)'
    BY DEF Ends, HandledAre
  <2>2. (Carries(Pipe, off, k))'
    BY DEF Carries
  <2> QED
    BY <2>1, <2>2 DEF Delivery
<1> QED
  BY <1>1, <1>2 DEF IInv

-----------------------------------------------------------------------------
(* The sender.                                                             *)

\* SendMessage puts the frame of its message behind all that is under way, if
\* its sizes fit the header.
LEMMA SendMessagePreserves ==
  ASSUME IInv, NEW m \in Messages, SendMessage(m)
  PROVE  IInv'
<1> DEFINE h == <<m.type % Bytes, Len(m.payload) % Bytes>>
           c == Contents(buffer)
<1>1. /\ sending = <<>> /\ open.sender /\ sent' = Append(sent, m)
      /\ sending' = <<h, m.payload>>
      /\ UNCHANGED <<stream, open, buffer, at, handled>>
  BY DEF SendMessage, receiver
<1>2. /\ TypeOK /\ stream \in Seq(Byte) /\ sent \in Seq(Message)
      /\ m \in Message /\ m.payload \in Seq(Byte) /\ m.type \in Nat /\ Len(m.payload) \in Nat
  <2>1. TypeOK /\ m \in Message
    BY MessageAssumption DEF IInv, Message
  <2> QED
    BY <2>1, FrameFacts DEF TypeOK
<1>0. PICK N \in Nat : N = Len(sent)
  BY <1>2, LenProperties
<1>3. h \in Seq(Byte)
  BY <1>2, ByteFacts
<1> HIDE DEF h
<1>4. /\ sending' \in Seq(Seq(Byte)) /\ Len(sending') = 2 /\ sending' # <<>>
      /\ sending'[1] = h /\ sending'[2] = m.payload
  BY <1>1, <1>2, <1>3
<1>5. /\ sent' \in Seq(Message) /\ Len(sent') = N + 1
      /\ \A i \in 1 .. N : sent'[i] = sent[i]
      /\ sent'[N + 1] = m /\ DOMAIN sent = 1 .. N /\ DOMAIN sent' = 1 .. N + 1
  BY <1>0, <1>1, <1>2, AppendFacts
<1>6. TypeOK'
  BY <1>1, <1>2, <1>4, <1>5 DEF TypeOK
<1>7. SUFFICES ASSUME Framed' PROVE Delivery'
  BY <1>6 DEF IInv
<1>8. Framed /\ m.type < Bytes /\ Len(m.payload) < Bytes
  <2>1. \A i \in 1 .. N : i \in 1 .. N + 1
    BY <1>5
  <2>2. N + 1 \in 1 .. N + 1
    BY <1>5
  <2>3. \A i \in 1 .. N + 1 : Len(sent'[i].payload) < Bytes /\ sent'[i].type < Bytes
    BY <1>5, <1>7 DEF Framed
  <2> QED
    BY <1>5, <2>1, <2>2, <2>3 DEF Framed
<1> DEFINE f == Frame(m)
           F == FrameSize(m)
<1>9. /\ f \in Seq(Byte) /\ Len(f) = F /\ F \in Nat
      /\ Unsent' = f /\ Unsent = <<>>
  <2>1. h = <<m.type, Len(m.payload)>>
    BY <1>2, <1>8, ByteFacts DEF h
  <2>2. Unsent' = h \o m.payload
    BY <1>4 DEF Unsent
  <2> QED
    BY <1>1, <1>2, <1>8, <2>1, <2>2, FrameFacts DEF Unsent, Frame
<1> HIDE DEF f, F
<1>10. c \in Seq(Byte) /\ Contents(buffer)' = c
  BY <1>1, <1>2, PipeFacts
<1> HIDE DEF c
<1> DEFINE L == Len(Pipe)
<1>11. /\ L \in Nat /\ Len(Pipe') = L + F
       /\ \A i \in 1 .. L : Pipe'[i] = Pipe[i]
       /\ \A j \in 1 .. F : Pipe'[L + j] = f[j]
  <2>1. Pipe = c \o (stream \o <<>>) /\ Pipe' = c \o (stream \o f)
    BY <1>1, <1>9, <1>10 DEF Pipe, c
  <2>2. /\ L = Len(c) + Len(stream) + Len(<<>>)
        /\ \A i \in 1 .. Len(c) : Pipe[i] = c[i]
        /\ \A i \in Len(c) + 1 .. Len(c) + Len(stream) : Pipe[i] = stream[i - Len(c)]
    BY <1>2, <1>10, <2>1, EmptySeq, ThreeParts DEF Parts
  <2>3. /\ Len(Pipe') = Len(c) + Len(stream) + Len(f)
        /\ \A i \in 1 .. Len(c) : Pipe'[i] = c[i]
        /\ \A i \in Len(c) + 1 .. Len(c) + Len(stream) : Pipe'[i] = stream[i - Len(c)]
        /\ \A i \in Len(c) + Len(stream) + 1 .. Len(c) + Len(stream) + Len(f) :
             Pipe'[i] = f[i - Len(c) - Len(stream)]
    <3> DEFINE q == c \o (stream \o f)
    <3>1. c \in Seq(Byte) /\ stream \in Seq(Byte) /\ f \in Seq(Byte)
      BY <1>2, <1>9, <1>10
    <3>2. /\ Len(q) = Len(c) + Len(stream) + Len(f)
          /\ \A i \in 1 .. Len(c) : q[i] = c[i]
          /\ \A i \in Len(c) + 1 .. Len(c) + Len(stream) : q[i] = stream[i - Len(c)]
          /\ \A i \in Len(c) + Len(stream) + 1 .. Len(c) + Len(stream) + Len(f) :
               q[i] = f[i - Len(c) - Len(stream)]
      BY ONLY SMTT(30), <3>1, ThreeParts DEF Parts
    <3> QED
      BY <2>1, <3>2
  <2>4. Len(c) \in Nat /\ Len(stream) \in Nat /\ Len(<<>>) = 0
    BY <1>2, <1>10, LenProperties, EmptySeq
  <2>5. L = Len(c) + Len(stream) /\ L \in Nat /\ Len(Pipe') = L + F
    BY <1>9, <2>2, <2>3, <2>4
  <2>6. \A i \in 1 .. L : i \in 1 .. Len(c) \/ i \in Len(c) + 1 .. Len(c) + Len(stream)
    BY <2>4, <2>5
  <2>7. \A j \in 1 .. F : /\ L + j \in Len(c) + Len(stream) + 1 .. Len(c) + Len(stream) + Len(f)
                          /\ (L + j) - Len(c) - Len(stream) = j
    BY <1>9, <2>4, <2>5
  <2> HIDE DEF L
  <2> QED
    BY <2>2, <2>3, <2>5, <2>6, <2>7
<1> HIDE DEF L
<1> PICK k \in 0 .. N, off \in [0 .. N -> Nat] :
      Ends(off) /\ Carries(Pipe, off, k) /\ HandledAre(k)
  BY <1>0, <1>7, <1>8 DEF IInv, Delivery
<1> PICK more \in [0 .. N + 1 -> Nat] :
      more = [i \in 0 .. N + 1 |-> IF i <= N THEN off[i] ELSE off[N] + F]
  BY <1>9
<1>12. /\ off[N] \in Nat /\ off[k] \in Nat /\ k \in 0 .. N + 1
       /\ \A i \in 0 .. N : more[i] = off[i] /\ more[i] \in Nat
       /\ more[N + 1] = off[N] + F /\ more[k] = off[k]
  BY <1>9
<1>13. /\ \A i \in 1 .. N : off[i] = off[i - 1] + FrameSize(sent[i])
       /\ \A i, j \in 0 .. N : i <= j => off[i] <= off[j]
  BY <1>0 DEF Ends
<1>14. /\ L = off[N] - off[k]
       /\ \A i \in k + 1 .. N : \A j \in 1 .. FrameSize(sent[i]) :
            off[i - 1] - off[k] + j <= L => Pipe[off[i - 1] - off[k] + j] = Frame(sent[i])[j]
  BY <1>0, <1>1 DEF Carries, L
<1>15. (Ends(more))'
  <2>1. \A i \in 1 .. N + 1 : more[i] = more[i - 1] + FrameSize(sent'[i])
    <3> TAKE i \in 1 .. N + 1
    <3>1. CASE i \in 1 .. N
      <4>1. i \in 0 .. N /\ i - 1 \in 0 .. N
        BY <1>12, <3>1
      <4> QED
        BY <1>0, <1>5, <1>12, <1>13, <3>1, <4>1
    <3>2. CASE i = N + 1
      <4>1. i - 1 = N /\ N \in 0 .. N
        BY <1>12, <3>2
      <4>2. sent'[i] = m /\ more[i] = off[N] + F
        BY <1>0, <1>5, <1>12, <3>2
      <4> QED
        BY <1>12, <4>1, <4>2 DEF F
    <3> QED
      BY <1>12, <3>1, <3>2
  <2>2. \A i, j \in 0 .. N + 1 : i <= j => more[i] <= more[j]
    <3> TAKE i, j \in 0 .. N + 1
    <3> HAVE i <= j
    <3>1. CASE i \in 0 .. N /\ j \in 0 .. N
      BY <1>12, <1>13, <3>1
    <3>2. CASE i \in 0 .. N /\ j = N + 1
      <4>1. more[i] = off[i] /\ off[i] \in Nat /\ off[i] <= off[N]
        BY <1>12, <1>13, <3>2
      <4> QED
        BY <1>9, <1>12, <3>2, <4>1
    <3>3. CASE i = N + 1 /\ j = N + 1
      BY <1>9, <1>12, <3>3
    <3> QED
      BY <1>12, <3>1, <3>2, <3>3
  <2> QED
    BY <1>0, <1>5, <2>1, <2>2 DEF Ends
<1>16. (Carries(Pipe, more, k))'
  <2>1. Len(Pipe') = more[N + 1] - more[k]
    BY <1>9, <1>11, <1>12, <1>14
  <2>2. ASSUME NEW i \in k + 1 .. N + 1, NEW j \in 1 .. FrameSize(sent'[i])
        PROVE  Pipe'[more[i - 1] - more[k] + j] = Frame(sent'[i])[j]
    <3>1. CASE i \in k + 1 .. N
      <4>1. i \in 1 .. N /\ i - 1 \in 0 .. N /\ i \in 0 .. N /\ N \in 0 .. N /\ k <= i - 1 /\ i <= N
            /\ k \in 0 .. N
        BY <1>12, <3>1
      <4>2. sent'[i] = sent[i] /\ sent[i] \in Message
        BY <1>0, <1>2, <1>5, <4>1, ElementOfSeq
      <4>3. FrameSize(sent[i]) \in Nat
        BY <4>2, FrameFacts
      <4>4. /\ off[i] = off[i - 1] + FrameSize(sent[i]) /\ off[i] <= off[N] /\ off[k] <= off[i - 1]
            /\ off[i - 1] \in Nat /\ off[i] \in Nat
        BY <1>13, <4>1
      <4>5. off[i - 1] - off[k] + j \in 1 .. L /\ off[i - 1] - off[k] + j <= L
        BY SMTT(30), <1>12, <1>14, <4>2, <4>3, <4>4
      <4>6. more[i - 1] = off[i - 1] /\ more[k] = off[k]
        BY <1>12, <4>1
      <4>7. Pipe[off[i - 1] - off[k] + j] = Frame(sent[i])[j]
        BY <1>14, <3>1, <4>2, <4>5
      <4> QED
        BY <1>11, <4>2, <4>5, <4>6, <4>7
    <3>2. CASE i = N + 1
      <4>1. sent'[i] = m /\ i - 1 = N /\ N \in 0 .. N /\ k \in 0 .. N
        BY <1>0, <1>5, <1>12, <3>2
      <4>2. more[i - 1] - more[k] + j = L + j /\ j \in 1 .. F
        BY <1>12, <1>14, <4>1 DEF F
      <4> QED
        BY <1>11, <4>1, <4>2 DEF f
    <3> QED
      BY <1>12, <3>1, <3>2
  <2>3. more[N + 1] - more[k] \in Int
    BY <1>9, <1>12
  <2> QED
    BY <1>0, <1>5, <2>1, <2>2, <2>3 DEF Carries
<1>17. HandledAre(k)'
  <2>1. \A i \in 1 .. k : sent'[i] = sent[i]
    BY <1>0, <1>5, <1>12
  <2>2. {i \in 1 .. k : Fits(sent'[i])} = {i \in 1 .. k : Fits(sent[i])}
    BY <2>1
  <2> PICK pick \in [DOMAIN handled -> 1 .. k] :
        /\ \A i, j \in DOMAIN handled : i < j => pick[i] < pick[j]
        /\ {pick[i] : i \in DOMAIN handled} = {i \in 1 .. k : Fits(sent[i])}
        /\ \A i \in DOMAIN handled : handled[i] = sent[pick[i]]
    BY DEF HandledAre
  <2>3. \A i \in DOMAIN handled : handled[i] = sent'[pick[i]]
    BY <2>1
  <2> QED
    BY ZenonT(40), <1>1, <2>2, <2>3 DEF HandledAre
<1> QED
  BY <1>0, <1>5, <1>12, <1>15, <1>16, <1>17 DEF Delivery

LEMMA SendSomePreserves ==
  ASSUME IInv, NEW n \in 1 .. MaxStream, SendSome(n)
  PROVE  IInv'
<1> DEFINE u == sending[1]
           v == IF Len(sending) = 2 THEN sending[2] ELSE <<>>
           w == SubSeq(u, n + 1, Len(u))
<1>1. /\ sending # <<>> /\ n \in Nat /\ n <= Len(u)
      /\ stream' = stream \o SubSeq(u, 1, n)
      /\ sending' = [sending EXCEPT ![1] = w]
      /\ UNCHANGED <<sent, open, buffer, at, handled>>
  BY SizeAssumption DEF SendSome, receiver
<1>2. TypeOK /\ sending \in Seq(Seq(Byte)) /\ stream \in Seq(Byte) /\ Len(sending) \in 1 .. 2
  <2>1. TypeOK /\ sending \in Seq(Seq(Byte)) /\ stream \in Seq(Byte) /\ Len(sending) <= 2
    BY DEF IInv, TypeOK
  <2>2. PICK l \in Nat : l = Len(sending) /\ l # 0 /\ l <= 2
    BY <1>1, <2>1, EmptySeq, LenProperties
  <2>3. l \in 1 .. 2
    BY <2>2
  <2> QED
    BY <2>1, <2>2, <2>3
<1>3. u \in Seq(Byte)
  BY <1>2, ElementOfSeq
<1>4. v \in Seq(Byte)
  <2>1. CASE Len(sending) = 2
    <3>1. 2 \in 1 .. Len(sending)
      BY <2>1
    <3>2. sending[2] \in Seq(Byte)
      BY <1>2, <3>1, ElementOfSeq
    <3> QED
      BY <2>1, <3>2
  <2>2. CASE Len(sending) # 2
    BY <2>2, EmptySeq
  <2> QED
    BY <2>1, <2>2
<1>5. SubSeq(u, 1, n) \in Seq(Byte) /\ w \in Seq(Byte)
  <2>1. Len(u) \in Nat
    BY <1>3, LenProperties
  <2> QED
    BY <1>1, <1>3, <2>1, StartFacts, PartFacts
<1> HIDE DEF w
<1>6. /\ sending' \in Seq(Seq(Byte)) /\ Len(sending') = Len(sending) /\ sending'[1] = w
      /\ Len(sending) = 2 => sending'[2] = sending[2]
  <2>1. 1 \in 1 .. Len(sending)
    <3>1. PICK l \in 1 .. 2 : l = Len(sending)
      BY <1>2
    <3>2. 1 \in 1 .. l
      OBVIOUS
    <3> QED
      BY <3>1, <3>2
  <2>2. /\ sending' \in Seq(Seq(Byte)) /\ Len(sending') = Len(sending)
        /\ \A j \in 1 .. Len(sending) : sending'[j] = IF j = 1 THEN w ELSE sending[j]
    BY <1>1, <1>2, <1>5, <2>1, ExceptSeq
  <2>3. Len(sending) = 2 => 2 \in 1 .. Len(sending)
    OBVIOUS
  <2> QED
    BY <2>1, <2>2, <2>3
<1>7. sending' # <<>>
  <2>1. Len(sending') # 0
    BY <1>2, <1>6
  <2> QED
    BY <2>1, EmptySeq
<1>8. Unsent = u \o v /\ Unsent' = w \o v
  BY <1>1, <1>6, <1>7 DEF Unsent
<1>9. stream' \in Seq(Byte)
  BY <1>1, <1>2, <1>5, ConcatProperties
<1>10. TypeOK'
  BY <1>1, <1>2, <1>6, <1>9 DEF TypeOK
<1>11. Pipe' = Pipe
  <2> HIDE DEF u, v
  <2>1. stream \o (u \o v) = (stream \o SubSeq(u, 1, n)) \o (w \o v)
    <3>1. n \in Nat /\ n <= Len(u) /\ stream \in Seq(Byte)
      BY <1>1, <1>2
    <3>2. stream \o (u \o v)
            = (stream \o SubSeq(u, 1, n)) \o (SubSeq(u, n + 1, Len(u)) \o v)
      BY ONLY ZenonT(40), <1>3, <1>4, <3>1, MovePart
    <3> QED
      BY ONLY <3>2 DEF w
  <2>2. Contents(buffer)' = Contents(buffer)
    BY <1>1
  <2> HIDE DEF Contents
  <2> QED
    BY <1>1, <1>8, <2>1, <2>2 DEF Pipe
<1> QED
  BY <1>1, <1>10, <1>11, MovingPreserves

LEMMA SendLoopDonePreserves ==
  ASSUME IInv, SendLoopDone
  PROVE  IInv'
<1>1. /\ sending # <<>> /\ sending[1] = <<>> /\ sending' = Tail(sending)
      /\ UNCHANGED <<sent, stream, open, buffer, at, handled>>
  BY DEF SendLoopDone, receiver
<1>2. /\ TypeOK /\ sending \in Seq(Seq(Byte)) /\ Len(sending) \in 1 .. 2
      /\ sending' \in Seq(Seq(Byte)) /\ Len(sending') = Len(sending) - 1
      /\ Len(sending) = 2 => sending'[1] = sending[2]
  <2>1. TypeOK /\ sending \in Seq(Seq(Byte)) /\ Len(sending) <= 2
    BY DEF IInv, TypeOK
  <2>2. /\ Tail(sending) \in Seq(Seq(Byte)) /\ Len(sending) \in Nat \ {0}
        /\ Len(Tail(sending)) = Len(sending) - 1
        /\ \A i \in 1 .. Len(sending) - 1 : Tail(sending)[i] = sending[i + 1]
    BY <1>1, <2>1, ShortenFacts
  <2>3. Len(sending) = 2 => 1 \in 1 .. Len(sending) - 1 /\ 1 + 1 = 2
    OBVIOUS
  <2> QED
    BY <1>1, <2>1, <2>2, <2>3
<1>3. TypeOK'
  BY <1>1, <1>2 DEF TypeOK
<1>4. Unsent' = Unsent
  <2>1. CASE Len(sending) = 1
    <3>1. sending' = <<>>
      BY <1>2, <2>1, EmptySeq
    <3>2. <<>> \o <<>> = <<>>
      BY EmptySeq, ConcatEmptySeq
    <3> QED
      BY <1>1, <2>1, <3>1, <3>2 DEF Unsent
  <2>2. CASE Len(sending) = 2
    <3>1. Len(sending') = 1
      BY <1>2, <2>2
    <3>2. sending' # <<>> /\ sending'[1] = sending[2]
      BY SMTT(30), <1>2, <2>2, <3>1, EmptySeq
    <3>3. sending[2] \in Seq(Byte)
      <4>1. 2 \in 1 .. Len(sending)
        BY <2>2
      <4> QED
        BY <1>2, <4>1, ElementOfSeq
    <3>4. sending[2] \o <<>> = sending[2] /\ <<>> \o sending[2] = sending[2]
      BY <3>3, ConcatEmptySeq
    <3> QED
      BY <1>1, <2>2, <3>1, <3>2, <3>4 DEF Unsent
  <2> QED
    BY <1>2, <2>1, <2>2
<1>5. Pipe' = Pipe
  <2>1. Contents(buffer)' = Contents(buffer)
    BY <1>1
  <2> QED
    BY <1>1, <1>4, <2>1 DEF Pipe
<1> QED
  BY <1>1, <1>3, <1>5, MovingPreserves

\* A failing send loses what was not sent, and closes the socket.
LEMMA SendFailsPreserves ==
  ASSUME IInv, SendFails
  PROVE  IInv'
<1>1. /\ sending' = <<>> /\ open' = [open EXCEPT !.sender = FALSE]
      /\ UNCHANGED <<sent, stream, buffer, at, handled>>
  BY DEF SendFails, receiver
<1>2. TypeOK /\ TypeOK' /\ ~open'.sender
  <2>1. TypeOK /\ sending' \in Seq(Seq(Byte)) /\ Len(sending') <= 2
    BY <1>1, EmptySeq DEF IInv
  <2>2. open' \in [sender : BOOLEAN, receiver : BOOLEAN] /\ ~open'.sender
    BY <1>1, <2>1 DEF TypeOK
  <2> QED
    BY <1>1, <2>1, <2>2 DEF TypeOK
<1> DEFINE c == Contents(buffer)
           rest == Unsent
<1>3. c \in Seq(Byte) /\ rest \in Seq(Byte) /\ stream \in Seq(Byte)
  BY <1>2, PipeFacts DEF TypeOK
<1>4. Unsent' = <<>> /\ Contents(buffer)' = c
  BY <1>1 DEF Unsent
<1> HIDE DEF c, rest
<1>5. Pipe = c \o (stream \o rest) /\ Pipe' = c \o (stream \o <<>>)
  BY <1>1, <1>4 DEF Pipe, c, rest
<1>6. /\ Len(Pipe) = Len(c) + Len(stream) + Len(rest)
      /\ \A i \in 1 .. Len(c) : Pipe[i] = c[i]
      /\ \A i \in Len(c) + 1 .. Len(c) + Len(stream) : Pipe[i] = stream[i - Len(c)]
  BY <1>3, <1>5, ThreeParts
<1>7. /\ Len(Pipe') = Len(c) + Len(stream) + Len(<<>>)
      /\ \A i \in 1 .. Len(c) : Pipe'[i] = c[i]
      /\ \A i \in Len(c) + 1 .. Len(c) + Len(stream) : Pipe'[i] = stream[i - Len(c)]
  BY <1>3, <1>5, EmptySeq, ThreeParts DEF Parts
<1>8. Len(c) \in Nat /\ Len(stream) \in Nat /\ Len(rest) \in Nat /\ Len(<<>>) = 0
  BY <1>3, LenProperties, EmptySeq
<1>9. /\ Len(Pipe') <= Len(Pipe) /\ Len(Pipe') \in Nat /\ Len(Pipe) \in Nat
      /\ \A i \in 1 .. Len(Pipe') : Pipe'[i] = Pipe[i]
  <2>1. Len(Pipe') = Len(c) + Len(stream)
    BY <1>7, <1>8
  <2>2. \A i \in 1 .. Len(Pipe') : i \in 1 .. Len(c) \/ i \in Len(c) + 1 .. Len(c) + Len(stream)
    BY <1>8, <2>1
  <2>3. Len(Pipe') <= Len(Pipe) /\ Len(Pipe') \in Nat /\ Len(Pipe) \in Nat
    BY <1>6, <1>8, <2>1
  <2> QED
    BY <1>6, <1>7, <2>2, <2>3
<1>10. ASSUME Framed, Delivery PROVE Delivery'
  <2> PICK k \in 0 .. Len(sent), off \in [0 .. Len(sent) -> Nat] :
        Ends(off) /\ Carries(Pipe, off, k) /\ HandledAre(k)
    BY <1>10 DEF Delivery
  <2>1. Ends(off)' /\ HandledAre(k)' /\ sent' = sent
    BY <1>1 DEF Ends, HandledAre
  <2>2. (Carries(Pipe, off, k))'
    <3>1. Len(sent) \in Nat /\ sent \in Seq(Message)
      BY <1>2, LenProperties DEF TypeOK
    <3>2. off[Len(sent)] \in Nat /\ off[k] \in Nat
      BY <3>1
    <3>3. Len(Pipe') <= off[Len(sent)] - off[k]
      BY <1>9, <3>2 DEF Carries
    <3>4. ASSUME NEW i \in k + 1 .. Len(sent), NEW j \in 1 .. FrameSize(sent[i]),
                 off[i - 1] - off[k] + j <= Len(Pipe')
          PROVE  Pipe'[off[i - 1] - off[k] + j] = Frame(sent[i])[j]
      <4>1. sent[i] \in Message /\ i - 1 \in 0 .. Len(sent) /\ k <= i - 1
        BY <3>1, ElementOfSeq
      <4>2. FrameSize(sent[i]) \in Nat /\ off[i - 1] \in Nat /\ off[k] <= off[i - 1]
        BY <4>1, FrameFacts DEF Ends
      <4>3. off[i - 1] - off[k] + j \in 1 .. Len(Pipe') /\ off[i - 1] - off[k] + j <= Len(Pipe)
        BY SMTT(30), <1>9, <3>2, <3>4, <4>2
      <4> QED
        BY <1>9, <4>3 DEF Carries
    <3> QED
      BY <1>2, <2>1, <3>3, <3>4 DEF Carries
  <2> QED
    BY <2>1, <2>2 DEF Delivery
<1>11. Framed' <=> Framed
  BY <1>1 DEF Framed
<1> QED
  BY <1>2, <1>10, <1>11 DEF IInv

-----------------------------------------------------------------------------
(* The receiver.                                                           *)

\* Update moves bytes from the stream to the ring, which has room for them.
LEMMA UpdateReadsPreserves ==
  ASSUME IInv, NEW n \in 1 .. MaxStream, UpdateReads(n)
  PROVE  IInv'
<1> DEFINE c    == Contents(buffer)
           rest == Unsent
           data == SubSeq(stream, 1, n)
           left == SubSeq(stream, n + 1, Len(stream))
<1>1. /\ n \in Nat /\ n <= Len(stream) /\ n <= Smaller(ReadChunk, RemainingSize(buffer))
      /\ buffer' = Write(buffer, data) /\ stream' = left
      /\ UNCHANGED <<sending, sent, open, at, handled>>
  BY SizeAssumption DEF UpdateReads, sender
<1>2. TypeOK /\ buffer \in Rings /\ stream \in Seq(Byte)
  BY DEF IInv, TypeOK
<1>3. n <= BufferSize - buffer.size
  <2>1. PICK z \in 0 .. BufferSize : z = buffer.size /\ RemainingSize(buffer) = BufferSize - z
    BY <1>2, RingFacts DEF RemainingSize
  <2>2. n <= BufferSize - z
    BY <1>1, <2>1, SizeAssumption, SizeFacts DEF Smaller
  <2> QED
    BY <2>1, <2>2
<1>4. c \in Seq(Byte) /\ rest \in Seq(Byte)
  BY <1>2, PipeFacts
<1>5. data \in Seq(Byte) /\ Len(data) = n
  BY <1>1, <1>2, StartFacts
<1>6. left \in Seq(Byte)
  BY <1>1, <1>2, PartFacts, LenProperties
<1> HIDE DEF data
<1>7. Write(buffer, data) \in Rings /\ Contents(Write(buffer, data)) = c \o data
  BY <1>2, <1>3, <1>5, WriteAppends
<1>8. TypeOK'
  BY <1>1, <1>2, <1>6, <1>7 DEF TypeOK
<1>9. Unsent' = rest /\ Contents(buffer)' = c \o data
  BY <1>1, <1>7 DEF Unsent
<1> HIDE DEF c, rest, left
<1>10. Pipe' = Pipe
  <2>1. c \o (stream \o rest) = (c \o data) \o (left \o rest)
    <3>1. c \o (stream \o rest)
            = (c \o SubSeq(stream, 1, n)) \o (SubSeq(stream, n + 1, Len(stream)) \o rest)
      BY ONLY ZenonT(40), <1>1, <1>2, <1>4, MovePart
    <3> QED
      BY ONLY <3>1 DEF data, left
  <2>2. Pipe = c \o (stream \o rest)
    BY DEF Pipe, c, rest
  <2>3. Pipe' = (c \o data) \o (left \o rest)
    BY <1>1, <1>9 DEF Pipe
  <2> QED
    BY <2>1, <2>2, <2>3
<1> QED
  BY <1>1, <1>8, <1>10, MovingPreserves

\* The other steps that leave the bytes, the messages and the ring alone.
LEMMA QuietPreserves ==
  ASSUME IInv, CloseSender \/ Update \/ UpdateReturns \/ UpdateFails \/ UpdateCloses
                \/ CloseReceiver \/ Process \/ ProcessReturns
  PROVE  IInv'
<1>1. /\ UNCHANGED <<sending, sent, stream, buffer, handled>>
      /\ at' = at \/ at' \in {"idle", "Update", "Process"}
      /\ \/ open' = open
         \/ open' = [open EXCEPT !.sender = FALSE]
         \/ open' = [open EXCEPT !.receiver = FALSE]
  BY DEF CloseSender, Update, UpdateReturns, UpdateFails, UpdateCloses, CloseReceiver, Process,
         ProcessReturns, sender, receiver
<1>2. TypeOK
  BY DEF IInv
<1>3. open' \in [sender : BOOLEAN, receiver : BOOLEAN] /\ (open'.sender => open.sender)
  BY <1>1, <1>2 DEF TypeOK
<1>4. TypeOK'
  BY <1>1, <1>2, <1>3 DEF TypeOK
<1>5. Pipe' = Pipe
  BY <1>1 DEF Pipe, Unsent
<1> QED
  BY <1>1, <1>3, <1>4, <1>5, MovingPreserves
-----------------------------------------------------------------------------
(* Process.                                                                *)

\* r holds what b holds but for its first d bytes.
Dropped(r, b, d) == /\ r \in Rings /\ d \in Nat /\ d <= b.size /\ r.size = b.size - d
                    /\ Len(Contents(r)) = b.size - d
                    /\ \A i \in 1 .. b.size - d : Contents(r)[i] = Contents(b)[d + i]

LEMMA SkipIsDropped ==
  ASSUME NEW b \in Rings, NEW n \in 0 .. b.size
  PROVE  Dropped(Skip(b, n), b, n)
<1> DEFINE c == Contents(b)
           r == Skip(b, n)
<1> PICK z \in 0 .. BufferSize : z = b.size
  BY RingFacts
<1>1. n \in Nat /\ z \in Nat /\ n <= z
  BY SizeFacts
<1>2. c \in Seq(Byte) /\ Len(c) = z
  BY ContentsFacts
<1>3. r \in Rings /\ Contents(r) = SubSeq(c, n + 1, z)
  BY SkipDrops
<1>4. Len(Contents(r)) = r.size
  BY <1>3, ContentsFacts
<1> HIDE DEF c, r
<1>5. Len(SubSeq(c, n + 1, z)) = z - n /\ \A i \in 1 .. z - n : SubSeq(c, n + 1, z)[i] = c[n + i]
  BY ONLY <1>1, <1>2, PartFacts
<1> QED
  BY <1>1, <1>3, <1>4, <1>5 DEF Dropped, c, r

LEMMA DroppedTwice ==
  ASSUME NEW b \in Rings, NEW r, NEW q, NEW d, NEW e, Dropped(r, b, d), Dropped(q, r, e)
  PROVE  Dropped(q, b, d + e)
<1> PICK z \in 0 .. BufferSize : z = b.size
  BY RingFacts
<1>1. /\ d \in Nat /\ e \in Nat /\ z \in Nat /\ d <= z /\ e <= z - d
      /\ r.size = z - d /\ q \in Rings /\ q.size = (z - d) - e /\ Len(Contents(q)) = (z - d) - e
  BY SizeFacts DEF Dropped
<1>2. d + e \in Nat /\ d + e <= z /\ (z - d) - e = z - (d + e)
  BY <1>1
<1>3. \A i \in 1 .. z - (d + e) : Contents(q)[i] = Contents(b)[(d + e) + i]
  <2> TAKE i \in 1 .. z - (d + e)
  <2>1. i \in 1 .. (z - d) - e /\ e + i \in 1 .. z - d /\ d + (e + i) = (d + e) + i
    BY <1>1
  <2>2. Contents(q)[i] = Contents(r)[e + i]
    BY <1>1, <2>1 DEF Dropped
  <2>3. Contents(r)[e + i] = Contents(b)[d + (e + i)]
    BY <2>1 DEF Dropped
  <2> QED
    BY <2>1, <2>2, <2>3
<1> QED
  BY <1>1, <1>2, <1>3 DEF Dropped

\* What Process sees of a message whose bytes are all in the ring.
LEMMA HeadFacts ==
  ASSUME TypeOK, buffer.size >= Header
  PROVE  /\ Head2 = SubSeq(Contents(buffer), 1, 2)
         /\ Head2[1] \in Byte /\ Head2[2] \in Byte
         /\ Head2[1] = Contents(buffer)[1] /\ Head2[2] = Contents(buffer)[2]
<1>1. buffer \in Rings
  BY DEF TypeOK
<1> PICK z \in 0 .. BufferSize : z = buffer.size
  BY <1>1, RingFacts
<1>2. 2 \in 0 .. z /\ 2 <= z
  BY SizeFacts DEF Header
<1>3. Head2 = SubSeq(Contents(buffer), 1, 2)
  BY <1>1, <1>2, ReadGives DEF Head2, Header
<1> DEFINE c == Contents(buffer)
<1>4. c \in Seq(Byte) /\ Len(c) = z
  BY <1>1, ContentsFacts
<1> HIDE DEF c
<1>5. /\ SubSeq(c, 1, 2) \in Seq(Byte) /\ Len(SubSeq(c, 1, 2)) = 2
      /\ \A i \in 1 .. 2 : SubSeq(c, 1, 2)[i] = c[i]
  BY <1>2, <1>4, StartFacts
<1>6. 1 \in 1 .. Len(c) /\ 2 \in 1 .. Len(c)
  BY <1>2, <1>4
<1>7. c[1] \in Byte /\ c[2] \in Byte
  BY <1>4, <1>6, ElementOfSeq
<1> QED
  BY <1>3, <1>5, <1>7 DEF c

\* The message at the front of the ring is the next one sent, whole.
LEMMA NextIsNext ==
  ASSUME TypeOK, Framed, Complete,
         NEW k \in 0 .. Len(sent), NEW off \in [0 .. Len(sent) -> Nat],
         Ends(off), Carries(Pipe, off, k)
  PROVE  /\ k + 1 \in 1 .. Len(sent) /\ sent[k + 1] \in Message
         /\ Head2[1] = sent[k + 1].type /\ Head2[2] = Len(sent[k + 1].payload)
         /\ FrameSize(sent[k + 1]) = Header + Head2[2] /\ FrameSize(sent[k + 1]) <= buffer.size
         /\ \A j \in 1 .. Head2[2] : Contents(buffer)[Header + j] = sent[k + 1].payload[j]
<1>1. /\ sent \in Seq(Message) /\ buffer \in Rings /\ DOMAIN sent = 1 .. Len(sent)
  BY LenProperties DEF TypeOK
<1> PICK N \in Nat : N = Len(sent)
  BY <1>1, LenProperties
<1> PICK z \in 0 .. BufferSize : z = buffer.size
  BY <1>1, RingFacts
<1>2. /\ z >= 2 /\ z >= 2 + Head2[2] /\ Head2[1] \in Byte /\ Head2[2] \in Byte
      /\ Head2[1] = Contents(buffer)[1] /\ Head2[2] = Contents(buffer)[2]
  BY HeadFacts DEF Complete, Header
<1> DEFINE L == Len(Pipe)
<1>3. L \in Nat /\ z <= L /\ \A i \in 1 .. z : Pipe[i] = Contents(buffer)[i]
  <2>1. PICK a \in Nat, b \in Nat : L = z + a + b /\ a = Len(stream) /\ b = Len(Unsent)
    BY PipeFacts
  <2>2. z \in Nat
    BY SizeFacts
  <2>3. z <= z + a + b /\ z + a + b \in Nat
    BY <2>2
  <2>4. \A i \in 1 .. z : Pipe[i] = Contents(buffer)[i]
    BY PipeFacts
  <2> HIDE DEF L
  <2> QED
    BY <2>1, <2>3, <2>4
<1>4. /\ L <= off[N] - off[k] /\ off[N] \in Nat /\ off[k] \in Nat
      /\ \A i \in k + 1 .. N : \A j \in 1 .. FrameSize(sent[i]) :
           off[i - 1] - off[k] + j <= L => Pipe[off[i - 1] - off[k] + j] = Frame(sent[i])[j]
  BY DEF Carries
<1> HIDE DEF L
<1>5. k # N
  <2>1. ASSUME k = N PROVE FALSE
    BY <1>2, <1>3, <1>4, <2>1, SizeFacts
  <2> QED
    BY <2>1
<1>6. k + 1 \in 1 .. N /\ k + 1 \in k + 1 .. N /\ (k + 1) - 1 = k /\ k \in Nat
  BY <1>5
<1> DEFINE m == sent[k + 1]
<1>7. m \in Message
  BY <1>1, <1>6, ElementOfSeq
<1>8. Len(m.payload) < Bytes /\ m.type < Bytes
  BY <1>1, <1>6 DEF Framed
<1> HIDE DEF m
<1>9. /\ FrameSize(m) \in Nat /\ FrameSize(m) = 2 + Len(m.payload) /\ Len(m.payload) \in Nat
      /\ Frame(m)[1] = m.type /\ Frame(m)[2] = Len(m.payload)
      /\ \A j \in 1 .. Len(m.payload) : Frame(m)[2 + j] = m.payload[j]
  BY <1>7, <1>8, FrameFacts DEF Header
<1>10. \A j \in 1 .. FrameSize(m) : j <= z => Contents(buffer)[j] = Frame(m)[j]
  <2> TAKE j \in 1 .. FrameSize(m)
  <2> HAVE j <= z
  <2>1. j \in 1 .. z /\ off[k] - off[k] + j = j /\ j <= L
    BY <1>3, <1>4, <1>9, SizeFacts
  <2>2. Pipe[j] = Frame(m)[j]
    BY <1>4, <1>6, <2>1 DEF m
  <2> QED
    BY <1>3, <2>1, <2>2
<1>11. Head2[1] = m.type /\ Head2[2] = Len(m.payload)
  <2>1. 1 \in 1 .. FrameSize(m) /\ 2 \in 1 .. FrameSize(m)
    BY <1>9
  <2>2. 1 <= z /\ 2 <= z
    BY <1>2, SizeFacts
  <2>3. Contents(buffer)[1] = Frame(m)[1] /\ Contents(buffer)[2] = Frame(m)[2]
    BY <1>10, <2>1, <2>2
  <2> QED
    BY <1>2, <1>9, <2>3
<1>12. FrameSize(m) = 2 + Head2[2] /\ FrameSize(m) <= z
  BY <1>2, <1>9, <1>11
<1>13. \A j \in 1 .. Head2[2] : Contents(buffer)[2 + j] = m.payload[j]
  <2> TAKE j \in 1 .. Head2[2]
  <2>1. j \in 1 .. Len(m.payload)
    BY <1>11
  <2>2. 2 + j \in 1 .. FrameSize(m) /\ 2 + j <= z
    BY <1>9, <1>12, <2>1, SizeFacts
  <2> QED
    BY <1>9, <1>10, <2>1, <2>2
<1> QED
  BY <1>6, <1>7, <1>11, <1>12, <1>13 DEF m, Header

\* When its frame has left the ring, the pipe carries what is behind it.
LEMMA FrameLeaves ==
  ASSUME TypeOK, TypeOK', UNCHANGED <<sending, stream, sent>>, open'.sender => open.sender,
         NEW k \in 0 .. Len(sent), NEW off \in [0 .. Len(sent) -> Nat],
         Ends(off), Carries(Pipe, off, k), k + 1 \in 1 .. Len(sent),
         Dropped(buffer', buffer, FrameSize(sent[k + 1]))
  PROVE  (Ends(off) /\ Carries(Pipe, off, k + 1))'
<1> DEFINE L == Len(Pipe)
           c == Contents(buffer)
           e == Contents(buffer')
           rest == Unsent
<1> PICK N \in Nat : N = Len(sent)
  BY LenProperties DEF TypeOK
<1> PICK z \in Nat : z = buffer.size
  BY RingFacts, SizeFacts DEF TypeOK
<1> PICK d \in Nat : d = FrameSize(sent[k + 1])
  BY DEF Dropped
<1>1. /\ d <= z /\ Len(e) = z - d /\ \A i \in 1 .. z - d : e[i] = c[d + i]
      /\ c \in Seq(Byte) /\ Len(c) = z /\ e \in Seq(Byte)
      /\ rest \in Seq(Byte) /\ stream \in Seq(Byte) /\ Len(rest) \in Nat /\ Len(stream) \in Nat
  BY PipeFacts, ContentsFacts DEF Dropped, TypeOK
<1> HIDE DEF c, e, rest
<1>0. c \in Seq(Byte) /\ e \in Seq(Byte) /\ stream \in Seq(Byte) /\ rest \in Seq(Byte)
  BY <1>1
<1>2. Pipe = c \o (stream \o rest) /\ Pipe' = e \o (stream \o rest)
  BY DEF Pipe, Unsent, c, e, rest
<1>3. /\ L = z + Len(stream) + Len(rest)
      /\ \A i \in 1 .. z : Pipe[i] = c[i]
      /\ \A i \in z + 1 .. z + Len(stream) : Pipe[i] = stream[i - z]
      /\ \A i \in z + Len(stream) + 1 .. z + Len(stream) + Len(rest) :
           Pipe[i] = rest[i - z - Len(stream)]
  <2>1. Parts(c \o (stream \o rest), c, stream, rest)
    BY ONLY <1>0, ThreeParts
  <2> QED
    BY <1>1, <1>2, <2>1 DEF Parts
<1>4. /\ Len(Pipe') = (z - d) + Len(stream) + Len(rest)
      /\ \A i \in 1 .. z - d : Pipe'[i] = e[i]
      /\ \A i \in (z - d) + 1 .. (z - d) + Len(stream) : Pipe'[i] = stream[i - (z - d)]
      /\ \A i \in (z - d) + Len(stream) + 1 .. (z - d) + Len(stream) + Len(rest) :
           Pipe'[i] = rest[i - (z - d) - Len(stream)]
  <2>1. Parts(e \o (stream \o rest), e, stream, rest)
    BY ONLY <1>0, ThreeParts
  <2> QED
    BY ZenonT(40), <1>1, <1>2, <2>1 DEF Parts
<1> PICK a \in Nat, r \in Nat : a = Len(stream) /\ r = Len(rest)
  BY <1>1
<1>5. /\ L \in Nat /\ d <= L /\ Len(Pipe') = L - d
      /\ \A i \in 1 .. L - d : Pipe'[i] = Pipe[d + i]
  <2>1. L = z + a + r /\ Len(Pipe') = (z - d) + a + r /\ d <= z
    BY <1>1, <1>3, <1>4
  <2> PICK l \in Nat : l = L
    BY <2>1
  <2> HIDE DEF L
  <2>2. d <= l /\ (z - d) + a + r = l - d
    <3>1. l = z + a + r /\ d <= z
      BY <2>1
    <3> QED
      BY ONLY <3>1, z \in Nat, d \in Nat, a \in Nat, r \in Nat, l \in Nat
  <2>3. ASSUME NEW i \in 1 .. l - d PROVE Pipe'[i] = Pipe[d + i]
    <3>1. CASE i \in 1 .. z - d
      <4>1. d + i \in 1 .. z
        BY ONLY <2>1, <3>1, z \in Nat, d \in Nat
      <4>2. Pipe[d + i] = c[d + i] /\ Pipe'[i] = e[i] /\ e[i] = c[d + i]
        BY <1>1, <1>3, <1>4, <3>1, <4>1
      <4> QED
        BY <4>2
    <3>2. CASE i \in (z - d) + 1 .. (z - d) + a
      <4>1. d + i \in z + 1 .. z + a /\ (d + i) - z = i - (z - d)
        BY ONLY <2>1, <3>2, z \in Nat, d \in Nat, a \in Nat
      <4>2. Pipe[d + i] = stream[(d + i) - z] /\ Pipe'[i] = stream[i - (z - d)]
        BY <1>3, <1>4, <3>2, <4>1
      <4> QED
        BY <4>1, <4>2
    <3>3. CASE i \in (z - d) + a + 1 .. (z - d) + a + r
      <4>1. d + i \in z + a + 1 .. z + a + r /\ (d + i) - z - a = i - (z - d) - a
        BY ONLY <2>1, <3>3, z \in Nat, d \in Nat, a \in Nat, r \in Nat
      <4>2. Pipe[d + i] = rest[(d + i) - z - a] /\ Pipe'[i] = rest[i - (z - d) - a]
        BY <1>3, <1>4, <3>3, <4>1
      <4> QED
        BY <4>1, <4>2
    <3>4. i \in 1 .. z - d \/ i \in (z - d) + 1 .. (z - d) + a
          \/ i \in (z - d) + a + 1 .. (z - d) + a + r
      BY ONLY <2>1, <2>2, z \in Nat, d \in Nat, a \in Nat, r \in Nat, l \in Nat, i \in 1 .. l - d
    <3> QED
      BY <3>1, <3>2, <3>3, <3>4
  <2> QED
    BY <2>1, <2>2, <2>3
<1>6. /\ off[k + 1] = off[k] + d /\ off[k] \in Nat /\ off[k + 1] \in Nat /\ off[N] \in Nat
      /\ k \in Nat
  <2>1. (k + 1) - 1 = k /\ k + 1 \in 1 .. N /\ k + 1 \in 0 .. N /\ N \in 0 .. N /\ k \in Nat
    OBVIOUS
  <2>2. off[k + 1] = off[(k + 1) - 1] + d
    BY DEF Ends
  <2> QED
    BY <2>1, <2>2
<1>7. /\ L <= off[N] - off[k]
      /\ open.sender => L = off[N] - off[k]
      /\ \A i \in k + 1 .. N : \A j \in 1 .. FrameSize(sent[i]) :
           off[i - 1] - off[k] + j <= L => Pipe[off[i - 1] - off[k] + j] = Frame(sent[i])[j]
  BY DEF Carries
<1> HIDE DEF L
<1>8. /\ Len(Pipe') <= off[N] - off[k + 1]
      /\ open'.sender => Len(Pipe') = off[N] - off[k + 1]
  BY SMTT(30), <1>5, <1>6, <1>7
<1>9. ASSUME NEW i \in (k + 1) + 1 .. N, NEW j \in 1 .. FrameSize(sent[i]),
             off[i - 1] - off[k + 1] + j <= Len(Pipe')
      PROVE  Pipe'[off[i - 1] - off[k + 1] + j] = Frame(sent[i])[j]
  <2>1. /\ i \in k + 1 .. N /\ i \in 1 .. N /\ i - 1 \in 0 .. N /\ k + 1 <= i - 1 /\ k + 1 \in 0 .. N
    BY <1>6
  <2>2. off[k + 1] <= off[i - 1] /\ off[i - 1] \in Nat
    BY <2>1 DEF Ends
  <2>3. FrameSize(sent[i]) \in Nat
    <3>1. sent[i] \in Message
      BY <2>1, ElementOfSeq DEF TypeOK
    <3> QED
      BY <3>1, FrameFacts
  <2> PICK p \in Nat : p = off[i - 1] /\ j \in Nat /\ j >= 1
    BY <2>2, <2>3
  <2> PICK l \in Nat, s \in Nat : l = L /\ s = off[k]
    BY <1>5, <1>6
  <2>4. off[k + 1] = s + d /\ s + d <= p /\ p - (s + d) + j <= l - d /\ d <= l
    BY <1>5, <1>6, <1>9, <2>2
  <2>5. /\ p - (s + d) + j \in 1 .. l - d
        /\ d + (p - (s + d) + j) = p - s + j
        /\ p - s + j <= l
    BY ONLY <2>4, p \in Nat, s \in Nat, d \in Nat, l \in Nat, j \in Nat, j >= 1
  <2>6. Pipe'[p - (s + d) + j] = Pipe[p - s + j]
    BY <1>5, <2>5
  <2>7. Pipe[p - s + j] = Frame(sent[i])[j]
    BY <1>7, <2>1, <2>5
  <2> QED
    BY <2>4, <2>6, <2>7
<1>10. Ends(off)'
  BY DEF Ends
<1>11. (Carries(Pipe, off, k + 1))'
  <2>1. sent' = sent /\ Len(sent') = N
    OBVIOUS
  <2> DEFINE q == Pipe
  <2>2. /\ Len(q') <= off[N] - off[k + 1]
        /\ open'.sender => Len(q') = off[N] - off[k + 1]
        /\ \A i \in (k + 1) + 1 .. N : \A j \in 1 .. FrameSize(sent[i]) :
             off[i - 1] - off[k + 1] + j <= Len(q') =>
               q'[off[i - 1] - off[k + 1] + j] = Frame(sent[i])[j]
    BY <1>8, <1>9
  <2> HIDE DEF q
  <2>3. Carries(q, off, k + 1)'
    <3>1. \A i \in (k + 1) + 1 .. Len(sent') : \A j \in 1 .. FrameSize(sent'[i]) :
             off[i - 1] - off[k + 1] + j <= Len(q') =>
               q'[off[i - 1] - off[k + 1] + j] = Frame(sent'[i])[j]
      BY <2>1, <2>2
    <3>2. /\ Len(q') <= off[Len(sent')] - off[k + 1]
          /\ open'.sender => Len(q') = off[Len(sent')] - off[k + 1]
      <4>1. /\ Len(q') <= off[N] - off[k + 1]
            /\ open'.sender => Len(q') = off[N] - off[k + 1]
        BY ONLY <2>2
      <4>2. off[Len(sent')] = off[N]
        BY ONLY <2>1
      <4> QED
        BY ONLY <4>1, <4>2
    <3> QED
      BY ONLY <3>1, <3>2 DEF Carries
  <2> QED
    BY <2>3 DEF q
<1> QED
  BY <1>10, <1>11

LEMMA SkippedAreNotHandled ==
  ASSUME NEW k \in Nat, HandledAre(k), ~Fits(sent[k + 1]), UNCHANGED <<sent, handled>>
  PROVE  HandledAre(k + 1)'
<1> PICK pick \in [DOMAIN handled -> 1 .. k] :
      /\ \A i, j \in DOMAIN handled : i < j => pick[i] < pick[j]
      /\ {pick[i] : i \in DOMAIN handled} = {i \in 1 .. k : Fits(sent[i])}
      /\ \A i \in DOMAIN handled : handled[i] = sent[pick[i]]
  BY DEF HandledAre
<1>1. pick \in [DOMAIN handled -> 1 .. k + 1]
  OBVIOUS
<1>2. \A i \in 1 .. k + 1 : i \in 1 .. k \/ i = k + 1
  OBVIOUS
<1>3. \A i \in 1 .. k : i \in 1 .. k + 1
  OBVIOUS
<1>4. {i \in 1 .. k + 1 : Fits(sent[i])} = {i \in 1 .. k : Fits(sent[i])}
  BY <1>2, <1>3
<1> QED
  BY ZenonT(40), <1>1, <1>4 DEF HandledAre, Fits

LEMMA NextIsHandled ==
  ASSUME NEW k \in Nat, HandledAre(k), handled \in Seq(Message), sent[k + 1] \in Message,
         Fits(sent[k + 1]), handled' = Append(handled, sent[k + 1]), UNCHANGED sent
  PROVE  HandledAre(k + 1)'
<1> PICK pick \in [DOMAIN handled -> 1 .. k] :
      /\ \A i, j \in DOMAIN handled : i < j => pick[i] < pick[j]
      /\ {pick[i] : i \in DOMAIN handled} = {i \in 1 .. k : Fits(sent[i])}
      /\ \A i \in DOMAIN handled : handled[i] = sent[pick[i]]
  BY DEF HandledAre
<1> PICK n \in Nat : n = Len(handled)
  BY LenProperties
<1>1. /\ DOMAIN handled = 1 .. n /\ DOMAIN handled' = 1 .. n + 1
      /\ \A i \in 1 .. n : handled'[i] = handled[i]
      /\ handled'[n + 1] = sent[k + 1]
  BY AppendFacts
<1> PICK more \in [1 .. n + 1 -> 1 .. k + 1] :
      more = [i \in 1 .. n + 1 |-> IF i = n + 1 THEN k + 1 ELSE pick[i]]
  <2>1. \A i \in 1 .. n + 1 : i \in 1 .. n \/ i = n + 1
    OBVIOUS
  <2>2. \A i \in 1 .. n : pick[i] \in 1 .. k + 1
    BY <1>1
  <2>3. k + 1 \in 1 .. k + 1
    OBVIOUS
  <2> QED
    BY <2>1, <2>2, <2>3
<1>2. /\ \A i \in 1 .. n : more[i] = pick[i] /\ pick[i] \in 1 .. k
      /\ more[n + 1] = k + 1 /\ n + 1 \in 1 .. n + 1
      /\ \A i \in 1 .. n + 1 : i \in 1 .. n \/ i = n + 1
      /\ \A i \in 1 .. n : i \in 1 .. n + 1
  <2>1. /\ n + 1 \in 1 .. n + 1
        /\ \A i \in 1 .. n + 1 : i \in 1 .. n \/ i = n + 1
        /\ \A i \in 1 .. n : i \in 1 .. n + 1 /\ i # n + 1
    OBVIOUS
  <2>2. more[n + 1] = k + 1
    BY <2>1
  <2>3. \A i \in 1 .. n : more[i] = pick[i] /\ pick[i] \in 1 .. k
    BY <1>1, <2>1
  <2> QED
    BY <2>1, <2>2, <2>3
<1>3. \A i, j \in 1 .. n + 1 : i < j => more[i] < more[j]
  <2> TAKE i, j \in 1 .. n + 1
  <2> HAVE i < j
  <2>1. CASE j \in 1 .. n
    <3>1. i \in 1 .. n
      BY <2>1
    <3> QED
      BY <1>1, <1>2, <2>1, <3>1
  <2>2. CASE j = n + 1
    <3>1. i \in 1 .. n
      BY <2>2
    <3>2. more[i] = pick[i] /\ pick[i] \in 1 .. k /\ more[j] = k + 1
      BY <1>2, <2>2, <3>1
    <3> QED
      BY <3>2
  <2> QED
    BY <1>2, <2>1, <2>2
<1>4. {more[i] : i \in 1 .. n + 1} = {i \in 1 .. k + 1 : Fits(sent[i])}
  <2>1. {more[i] : i \in 1 .. n + 1} = {pick[i] : i \in 1 .. n} \cup {k + 1}
    BY <1>2
  <2>2. \A i \in 1 .. k + 1 : i \in 1 .. k \/ i = k + 1
    OBVIOUS
  <2>3. k + 1 \in 1 .. k + 1 /\ \A i \in 1 .. k : i \in 1 .. k + 1
    OBVIOUS
  <2>4. {i \in 1 .. k + 1 : Fits(sent[i])} = {i \in 1 .. k : Fits(sent[i])} \cup {k + 1}
    BY <2>2, <2>3
  <2> QED
    BY <1>1, <2>1, <2>4
<1>5. \A i \in 1 .. n + 1 : handled'[i] = sent[more[i]]
  BY <1>1, <1>2
<1>6. /\ more \in [DOMAIN handled' -> 1 .. k + 1]
      /\ \A i, j \in DOMAIN handled' : i < j => more[i] < more[j]
      /\ {more[i] : i \in DOMAIN handled'} = {i \in 1 .. k + 1 : Fits(sent'[i])}
      /\ \A i \in DOMAIN handled' : handled'[i] = sent'[more[i]]
  BY <1>1, <1>3, <1>4, <1>5
<1> QED
  BY ONLY <1>6 DEF HandledAre

LEMMA SkipTooBigPreserves ==
  ASSUME IInv, SkipTooBig
  PROVE  IInv'
<1> DEFINE d == Header + Head2[2]
<1>1. /\ Complete /\ d > MessageBuffer /\ buffer' = Skip(buffer, d)
      /\ UNCHANGED <<sending, sent, stream, open, at, handled>>
  BY DEF SkipTooBig, sender
<1>2. TypeOK /\ buffer \in Rings /\ handled \in Seq(Message)
  BY DEF IInv, TypeOK
<1>3. d \in 0 .. buffer.size
  <2> PICK z \in 0 .. BufferSize : z = buffer.size
    BY <1>2, RingFacts
  <2>1. Head2[2] \in Nat /\ z >= 2 + Head2[2]
    BY <1>1, <1>2, HeadFacts, ByteIsNat DEF Complete, Header
  <2> QED
    BY <2>1 DEF Header
<1> HIDE DEF d
<1>4. Dropped(buffer', buffer, d)
  BY <1>1, <1>2, <1>3, SkipIsDropped
<1>5. TypeOK'
  BY <1>1, <1>2, <1>4 DEF TypeOK, Dropped
<1>6. ASSUME Framed, Delivery PROVE Delivery'
  <2> PICK k \in 0 .. Len(sent), off \in [0 .. Len(sent) -> Nat] :
        Ends(off) /\ Carries(Pipe, off, k) /\ HandledAre(k)
    BY <1>6 DEF Delivery
  <2>1. /\ k + 1 \in 1 .. Len(sent) /\ sent[k + 1] \in Message
        /\ FrameSize(sent[k + 1]) = d
    BY <1>1, <1>2, <1>6, NextIsNext DEF d
  <2>2. (Ends(off) /\ Carries(Pipe, off, k + 1))'
    BY <1>1, <1>2, <1>4, <1>5, <2>1, FrameLeaves
  <2>3. ~Fits(sent[k + 1])
    <3>1. MessageBuffer \in Int
      BY SizeAssumption DEF MessageBuffer, Larger, Header
    <3> QED
      BY <1>1, <1>3, <2>1, <3>1, FrameFacts DEF Fits, FrameSize
  <2>4. HandledAre(k + 1)'
    BY <1>1, <2>3, SkippedAreNotHandled
  <2>5. k + 1 \in 0 .. Len(sent') /\ off \in [0 .. Len(sent') -> Nat]
    BY <1>1, <2>1
  <2> QED
    BY <2>2, <2>4, <2>5 DEF Delivery
<1>7. Framed' <=> Framed
  BY <1>1 DEF Framed
<1> QED
  BY <1>5, <1>6, <1>7 DEF IInv

\* HandleMessage gets the payload of the message at the front of the ring,
\* wherever it lies, and nothing of it stays behind.
LEMMA HandleMessagePreserves ==
  ASSUME IInv, NEW closes \in BOOLEAN, HandleMessage(closes)
  PROVE  IInv'
<1> DEFINE size    == Head2[2]
           body    == Skip(buffer, Header)
           inPlace == size > 0 /\ Peek(body, size)
           data    == IF size = 0 THEN <<>>
                      ELSE IF inPlace THEN Peeked(body, size) ELSE Read(body, size)
           new     == [type |-> Head2[1], payload |-> data]
<1>1. /\ Complete /\ Header + size <= MessageBuffer
      /\ handled' = Append(handled, new) /\ buffer' = Skip(body, size)
      /\ open' = [open EXCEPT !.receiver = @ /\ ~closes]
      /\ UNCHANGED <<sending, sent, stream, at>>
  BY DEF HandleMessage, sender
<1>2. TypeOK /\ buffer \in Rings /\ handled \in Seq(Message)
  BY DEF IInv, TypeOK
<1> PICK z \in 0 .. BufferSize : z = buffer.size
  BY <1>2, RingFacts
<1>3. Head2[1] \in Byte /\ size \in Byte /\ size \in Nat /\ Header \in 0 .. z /\ size <= z - 2
  <2>1. z >= 2 /\ z >= 2 + size
    BY <1>1 DEF Complete, Header
  <2>2. Head2[1] \in Byte /\ size \in Byte /\ size \in Nat
    BY <1>2, <2>1, HeadFacts, ByteIsNat DEF Header
  <2> HIDE DEF size
  <2> QED
    BY <2>1, <2>2, SizeFacts DEF Header
<1> HIDE DEF size
<1>4. Dropped(body, buffer, Header)
  BY <1>2, <1>3, SkipIsDropped
<1> HIDE DEF body
<1>5. body \in Rings /\ body.size = z - 2 /\ size \in 0 .. body.size
  <2>1. body \in Rings /\ body.size = z - 2
    BY <1>4 DEF Dropped, Header
  <2>2. size \in 0 .. z - 2
    BY <1>3, SizeFacts
  <2> QED
    BY <2>1, <2>2
<1>6. Dropped(buffer', buffer, Header + size)
  BY <1>1, <1>2, <1>4, <1>5, SkipIsDropped, DroppedTwice
<1>7. data = SubSeq(Contents(body), 1, size)
  <2>1. CASE size = 0
    <3> DEFINE c == Contents(body)
    <3>1. c \in Seq(Byte) /\ Len(c) \in Nat
      BY <1>5, ContentsFacts, LenProperties
    <3> HIDE DEF c
    <3>2. SubSeq(c, 1, 0) \in Seq(Byte) /\ Len(SubSeq(c, 1, 0)) = 0
      BY <3>1, StartFacts
    <3>3. SubSeq(c, 1, 0) = <<>>
      BY <3>2, EmptySeq
    <3> QED
      BY <2>1, <3>3 DEF c
  <2>2. CASE size # 0 /\ inPlace
    <3>1. size \in 1 .. body.size
      <4>1. size \in 1 .. z - 2
        BY <1>3, <2>2, SizeFacts
      <4> QED
        BY <1>5, <4>1
    <3> QED
      BY <1>5, <2>2, <3>1, PeekedGives
  <2>3. CASE size # 0 /\ ~inPlace
    BY <1>5, <2>3, ReadGives
  <2> QED
    BY <2>1, <2>2, <2>3
<1> HIDE DEF data
<1>8. /\ data \in Seq(Byte) /\ Len(data) = size
      /\ \A i \in 1 .. size : data[i] = Contents(body)[i]
  <2> DEFINE c == Contents(body)
  <2>1. c \in Seq(Byte) /\ Len(c) = z - 2 /\ size <= Len(c)
    BY <1>3, <1>5, ContentsFacts
  <2> HIDE DEF c
  <2>2. /\ SubSeq(c, 1, size) \in Seq(Byte) /\ Len(SubSeq(c, 1, size)) = size
        /\ \A i \in 1 .. size : SubSeq(c, 1, size)[i] = c[i]
    BY ONLY <1>3, <2>1, StartFacts
  <2> QED
    BY <1>7, <2>2 DEF c
<1>9. new \in Message
  BY <1>3, <1>8, ByteIsNat DEF Message
<1> HIDE DEF new
<1>10. open' \in [sender : BOOLEAN, receiver : BOOLEAN] /\ open'.sender = open.sender
  BY <1>1, <1>2 DEF TypeOK
<1>11. TypeOK'
  <2>1. handled' \in Seq(Message) /\ buffer' \in Rings
    BY <1>1, <1>2, <1>6, <1>9, AppendFacts DEF Dropped
  <2> QED
    BY <1>1, <1>2, <1>10, <2>1 DEF TypeOK
<1>12. ASSUME Framed, Delivery PROVE Delivery'
  <2> PICK k \in 0 .. Len(sent), off \in [0 .. Len(sent) -> Nat] :
        Ends(off) /\ Carries(Pipe, off, k) /\ HandledAre(k)
    BY <1>12 DEF Delivery
  <2> DEFINE m == sent[k + 1]
  <2>1. /\ k + 1 \in 1 .. Len(sent) /\ m \in Message
        /\ Head2[1] = m.type /\ size = Len(m.payload) /\ FrameSize(m) = Header + size
        /\ \A j \in 1 .. size : Contents(buffer)[Header + j] = m.payload[j]
    BY <1>1, <1>2, <1>12, NextIsNext DEF size
  <2>2. (Ends(off) /\ Carries(Pipe, off, k + 1))'
    BY <1>1, <1>2, <1>6, <1>10, <1>11, <2>1, FrameLeaves
  <2> HIDE DEF m
  <2>3. data = m.payload
    <3>1. m.payload \in Seq(Byte)
      BY <2>1, FrameFacts
    <3>2. \A i \in 1 .. size : data[i] = m.payload[i]
      <4> TAKE i \in 1 .. size
      <4>1. i \in 1 .. z - 2
        BY <1>3, SizeFacts
      <4>2. Contents(body)[i] = Contents(buffer)[Header + i]
        BY <1>4, <4>1 DEF Dropped, Header
      <4> QED
        BY <1>8, <2>1, <4>2
    <3> QED
      BY <1>8, <2>1, <3>1, <3>2, SeqEqual
  <2>4. new = m
    BY <2>1, <2>3, FrameFacts DEF new
  <2>5. Fits(m)
    BY <1>1, <2>1 DEF Fits
  <2>6. HandledAre(k + 1)'
    BY <1>1, <1>2, <2>1, <2>4, <2>5, NextIsHandled DEF m
  <2>7. k + 1 \in 0 .. Len(sent') /\ off \in [0 .. Len(sent') -> Nat]
    BY <1>1, <2>1
  <2> QED
    BY <2>2, <2>6, <2>7 DEF Delivery
<1>13. Framed' <=> Framed
  BY <1>1 DEF Framed
<1> QED
  BY <1>11, <1>12, <1>13 DEF IInv

-----------------------------------------------------------------------------
(* The theorems.                                                           *)

LEMMA StutterPreserves ==
  ASSUME IInv, UNCHANGED vars
  PROVE  IInv'
<1>1. TypeOK'
  BY DEF IInv, TypeOK, vars
<1>2. Pipe' = Pipe
  BY DEF Pipe, Unsent, vars
<1> QED
  BY <1>1, <1>2, MovingPreserves DEF vars

LEMMA NextPreserves ==
  ASSUME IInv, Next
  PROVE  IInv'
<1>1. CASE Sends
  BY <1>1, SendMessagePreserves, SendSomePreserves, SendLoopDonePreserves DEF Sends
<1>2. CASE SendFails
  BY <1>2, SendFailsPreserves
<1>3. CASE \E n \in 1 .. MaxStream : UpdateReads(n)
  BY <1>3, UpdateReadsPreserves
<1>4. CASE SkipTooBig
  BY <1>4, SkipTooBigPreserves
<1>5. CASE \E closes \in BOOLEAN : HandleMessage(closes)
  BY <1>5, HandleMessagePreserves
<1>6. CASE CloseSender \/ Update \/ UpdateReturns \/ UpdateFails \/ UpdateCloses
           \/ CloseReceiver \/ Process \/ ProcessReturns
  BY <1>6, QuietPreserves
<1> QED
  BY <1>1, <1>2, <1>3, <1>4, <1>5, <1>6 DEF Next

\* The ring stays a ring and, while the sizes fit their headers, the pipe
\* carries exactly the messages that are not handled or skipped yet
\* (network.cpp:349, 499).
THEOREM Invariance == Spec => []IInv
<1>1. IInv /\ [Next]_vars => IInv'
  BY NextPreserves, StutterPreserves
<1> QED
  BY InitEstablishes, <1>1, PTL DEF Spec

\* Every variable keeps its type: in particular m_buffer is a ring whose data
\* reach from m_startPos to m_endPos, with m_size bytes (network.cpp:146).
THEOREM TypeCorrect == Spec => []TypeOK
<1>1. IInv => TypeOK
  BY DEF IInv
<1> QED
  BY Invariance, <1>1, PTL

\* Messages are handled whole, in order and without a gap that fits, for any
\* messages and sizes, however the stream cuts the bytes, wherever they lie in
\* the ring and at whatever point a send fails (network.cpp:349, 499, 591).
THEOREM Delivered == Spec => []DeliveredInOrder
<1>1. IInv => DeliveredInOrder
  BY DEF IInv, Delivery, DeliveredInOrder
<1> QED
  BY Invariance, <1>1, PTL
=============================================================================
