---------------------------- MODULE SequenceLemmas ----------------------------
(***************************************************************************)
(* What the proofs about sequences keep needing: the length and the        *)
(* elements of one that gains an element at its end, at its beginning or   *)
(* inside, or loses its first, its last or one inside, in terms of those   *)
(* of the sequence it was; those of two sequences put together; and the    *)
(* least of a set of numbers.                                              *)
(***************************************************************************)
EXTENDS Sequences, Integers, FiniteSets, SequenceTheorems, FiniteSetTheorems, TLAPS

LEMMA AppendFacts ==
  ASSUME NEW S, NEW s \in Seq(S), NEW e \in S
  PROVE  /\ Append(s, e) \in Seq(S) /\ Append(s, e) # << >>
         /\ Len(s) \in Nat /\ Len(Append(s, e)) = Len(s) + 1
         /\ DOMAIN s = 1..Len(s) /\ DOMAIN Append(s, e) = 1..(Len(s) + 1)
         /\ \A i \in 1..Len(s) : Append(s, e)[i] = s[i]
         /\ Append(s, e)[Len(s) + 1] = e
<1>1. Len(s) \in Nat /\ DOMAIN s = 1..Len(s)
  BY LenProperties
<1>2. DOMAIN Append(s, e) = 1..(Len(s) + 1)
  BY AppendProperties, LenProperties
<1> QED
  BY <1>1, <1>2, AppendProperties

LEMMA ShortenFacts ==
  ASSUME NEW S, NEW s \in Seq(S), s # << >>
  PROVE  /\ Tail(s) \in Seq(S) /\ Head(s) = s[1] /\ s[1] \in S
         /\ Len(s) \in Nat \ {0} /\ Len(Tail(s)) = Len(s) - 1
         /\ DOMAIN s = 1..Len(s) /\ DOMAIN Tail(s) = 1..(Len(s) - 1)
         /\ \A i \in 1..(Len(s) - 1) : i + 1 \in 1..Len(s) /\ Tail(s)[i] = s[i + 1]
<1>1. Len(s) \in Nat \ {0} /\ DOMAIN s = 1..Len(s)
  BY LenProperties, EmptySeq
<1>2. /\ Tail(s) \in Seq(S) /\ Head(s) \in S /\ Len(Tail(s)) = Len(s) - 1
      /\ \A i \in 1..Len(Tail(s)) : Tail(s)[i] = s[i + 1]
  BY HeadTailProperties
<1>3. DOMAIN Tail(s) = 1..(Len(s) - 1)
  BY <1>2, LenProperties
<1>4. s[1] \in S /\ Head(s) = s[1]
  BY <1>1, ElementOfSeq
<1> QED
  BY <1>1, <1>2, <1>3, <1>4

\* The elements of a sequence, and of the same one longer or shorter.
LEMMA ElementsAppend ==
  ASSUME NEW S, NEW s \in Seq(S), NEW e \in S
  PROVE  {Append(s, e)[i] : i \in DOMAIN Append(s, e)} = {s[i] : i \in DOMAIN s} \cup {e}
<1>1. \A i \in 1..(Len(s) + 1) : i \in 1..Len(s) \/ i = Len(s) + 1
  BY AppendFacts
<1>2. \A i \in 1..Len(s) : i \in 1..(Len(s) + 1)
  BY AppendFacts
<1>3. Len(s) + 1 \in 1..(Len(s) + 1)
  BY AppendFacts
<1> QED
  BY <1>1, <1>2, <1>3, AppendFacts

LEMMA ElementsShorten ==
  ASSUME NEW S, NEW s \in Seq(S), s # << >>
  PROVE  {s[i] : i \in DOMAIN s} = {Tail(s)[i] : i \in DOMAIN Tail(s)} \cup {s[1]}
<1>1. \A i \in DOMAIN s : i = 1 \/ (i - 1 \in 1..(Len(s) - 1) /\ (i - 1) + 1 = i)
  BY ShortenFacts
<1>2. \A i \in DOMAIN s : i = 1 \/ (i - 1 \in DOMAIN Tail(s) /\ Tail(s)[i - 1] = s[i])
  BY <1>1, ShortenFacts
<1>3. 1 \in DOMAIN s /\ \A i \in DOMAIN Tail(s) : i + 1 \in DOMAIN s /\ Tail(s)[i] = s[i + 1]
  BY ShortenFacts
<1> QED
  BY <1>1, <1>2, <1>3

\* A sequence without repetitions keeps none when a new element is appended,
\* and its first element is not among the others.
LEMMA DistinctAppend ==
  ASSUME NEW S, NEW s \in Seq(S), NEW e \in S,
         \A i, j \in DOMAIN s : s[i] = s[j] => i = j,
         \A i \in DOMAIN s : s[i] # e
  PROVE  \A i, j \in DOMAIN Append(s, e) : Append(s, e)[i] = Append(s, e)[j] => i = j
<1>1. \A i \in DOMAIN Append(s, e) :
        \/ i \in DOMAIN s /\ Append(s, e)[i] = s[i]
        \/ i = Len(s) + 1 /\ Append(s, e)[i] = e
  BY AppendFacts
<1> QED
  BY <1>1

LEMMA DistinctShorten ==
  ASSUME NEW S, NEW s \in Seq(S), s # << >>,
         \A i, j \in DOMAIN s : s[i] = s[j] => i = j
  PROVE  /\ \A i, j \in DOMAIN Tail(s) : Tail(s)[i] = Tail(s)[j] => i = j
         /\ \A i \in DOMAIN Tail(s) : Tail(s)[i] # s[1]
<1>1. \A i \in DOMAIN Tail(s) : i \in Nat /\ i + 1 \in DOMAIN s /\ Tail(s)[i] = s[i + 1]
  BY ShortenFacts
<1>2. 1 \in DOMAIN s
  BY ShortenFacts
<1>3. \A i \in DOMAIN Tail(s) : Tail(s)[i] # s[1]
  BY <1>1, <1>2
<1>4. \A i, j \in DOMAIN Tail(s) : Tail(s)[i] = Tail(s)[j] => i + 1 = j + 1
  BY <1>1
<1> QED
  BY <1>1, <1>3, <1>4

\* Two sequences put together.
LEMMA ConcatFacts ==
  ASSUME NEW S, NEW s \in Seq(S), NEW u \in Seq(S)
  PROVE  /\ s \o u \in Seq(S)
         /\ \A i \in DOMAIN s : i \in DOMAIN (s \o u) /\ (s \o u)[i] = s[i]
         /\ \A j \in DOMAIN u : Len(s) + j \in DOMAIN (s \o u) /\ (s \o u)[Len(s) + j] = u[j]
         /\ \A k \in DOMAIN (s \o u) :
              k \in DOMAIN s \/ \E j \in DOMAIN u : k = Len(s) + j
<1>1. /\ s \o u \in Seq(S) /\ Len(s) \in Nat /\ Len(u) \in Nat
      /\ DOMAIN s = 1..Len(s) /\ DOMAIN u = 1..Len(u)
      /\ DOMAIN (s \o u) = 1..(Len(s) + Len(u))
  BY ConcatProperties, LenProperties
<1>2. \A i \in 1..(Len(s) + Len(u)) : (s \o u)[i] = IF i <= Len(s) THEN s[i] ELSE u[i - Len(s)]
  BY ConcatProperties
<1>3. \A i \in 1..Len(s) : i \in 1..(Len(s) + Len(u)) /\ i <= Len(s)
  BY <1>1
<1>4. \A j \in 1..Len(u) : /\ Len(s) + j \in 1..(Len(s) + Len(u)) /\ ~(Len(s) + j <= Len(s))
                           /\ (Len(s) + j) - Len(s) = j
  BY <1>1
<1>5. \A k \in 1..(Len(s) + Len(u)) :
        k \in 1..Len(s) \/ (k - Len(s) \in 1..Len(u) /\ k = Len(s) + (k - Len(s)))
  BY <1>1
<1>6. \A i \in DOMAIN s : i \in DOMAIN (s \o u) /\ (s \o u)[i] = s[i]
  BY <1>1, <1>2, <1>3
<1>7. \A j \in DOMAIN u : Len(s) + j \in DOMAIN (s \o u) /\ (s \o u)[Len(s) + j] = u[j]
  BY <1>1, <1>2, <1>4
<1>8. \A k \in DOMAIN (s \o u) : k \in DOMAIN s \/ \E j \in DOMAIN u : k = Len(s) + j
  BY <1>1, <1>5
<1> QED
  BY <1>1, <1>6, <1>7, <1>8

LEMMA DistinctConcat ==
  ASSUME NEW S, NEW s \in Seq(S), NEW u \in Seq(S),
         \A i, j \in DOMAIN s : s[i] = s[j] => i = j,
         \A i, j \in DOMAIN u : u[i] = u[j] => i = j,
         \A i \in DOMAIN s, j \in DOMAIN u : s[i] # u[j]
  PROVE  \A i, j \in DOMAIN (s \o u) : (s \o u)[i] = (s \o u)[j] => i = j
<1>1. \A k \in DOMAIN (s \o u) :
        \/ k \in DOMAIN s /\ (s \o u)[k] = s[k]
        \/ \E j \in DOMAIN u : k = Len(s) + j /\ (s \o u)[k] = u[j]
  BY ConcatFacts
<1> QED
  BY <1>1

\* A sequence without its last element.
LEMMA FrontFacts ==
  ASSUME NEW S, NEW s \in Seq(S), s # << >>
  PROVE  /\ SubSeq(s, 1, Len(s) - 1) \in Seq(S)
         /\ Len(s) \in Nat \ {0} /\ Len(SubSeq(s, 1, Len(s) - 1)) = Len(s) - 1
         /\ \A i \in 1..(Len(s) - 1) : i \in 1..Len(s) /\ SubSeq(s, 1, Len(s) - 1)[i] = s[i]
<1>1. Len(s) \in Nat \ {0} /\ DOMAIN s = 1..Len(s)
  BY LenProperties, EmptySeq
<1>2. Len(s) - 1 \in Int /\ \A i \in 1..(Len(s) - 1) : i \in 1..Len(s) /\ s[i] \in S
  BY <1>1, ElementOfSeq
<1>3. /\ SubSeq(s, 1, Len(s) - 1) \in Seq(S)
      /\ Len(SubSeq(s, 1, Len(s) - 1)) = IF 1 <= Len(s) - 1 THEN (Len(s) - 1) - 1 + 1 ELSE 0
      /\ \A i \in 1..((Len(s) - 1) - 1 + 1) : SubSeq(s, 1, Len(s) - 1)[i] = s[1 + i - 1]
  BY <1>2, SubSeqProperties, 1 \in Int
<1>4. Len(SubSeq(s, 1, Len(s) - 1)) = Len(s) - 1
  BY <1>1, <1>3
<1>5. (Len(s) - 1) - 1 + 1 = Len(s) - 1 /\ \A i \in 1..(Len(s) - 1) : 1 + i - 1 = i
  BY <1>1
<1> QED
  BY <1>1, <1>2, <1>3, <1>4, <1>5

\* As many elements as positions, where none is repeated.
LEMMA CountDistinct ==
  ASSUME NEW S, NEW s \in Seq(S), \A i, j \in DOMAIN s : s[i] = s[j] => i = j
  PROVE  /\ IsFiniteSet({s[i] : i \in DOMAIN s})
         /\ Cardinality({s[i] : i \in DOMAIN s}) = Len(s)
<1> DEFINE E == {s[i] : i \in DOMAIN s}
<1>1. Len(s) \in Nat /\ DOMAIN s = 1..Len(s) /\ s \in [1..Len(s) -> E]
  BY LenProperties
<1>2. s \in Surjection(1..Len(s), E) /\ s \in Injection(1..Len(s), E)
  BY <1>1 DEF Surjection, Injection, IsInjective
<1>3. IsFiniteSet(1..Len(s)) /\ Cardinality(1..Len(s)) = Len(s)
  <2>1. Len(s) \in Int /\ 1 \in Int
    BY <1>1
  <2>2. IsFiniteSet(1..Len(s)) /\ Cardinality(1..Len(s)) = IF 1 > Len(s) THEN 0 ELSE Len(s) - 1 + 1
    BY <2>1, FS_Interval
  <2> QED
    BY <1>1, <2>2
<1> QED
  BY <1>2, <1>3, FS_Surjection

\* A sequence with an element in front.
LEMMA PrependFacts ==
  ASSUME NEW S, NEW s \in Seq(S), NEW e \in S
  PROVE  /\ <<e>> \o s \in Seq(S) /\ Len(s) \in Nat /\ Len(<<e>> \o s) = Len(s) + 1
         /\ (<<e>> \o s)[1] = e
         /\ \A i \in 1..Len(s) : i + 1 \in 1..(Len(s) + 1) /\ (<<e>> \o s)[i + 1] = s[i]
<1>1. <<e>> \in Seq(S) /\ Len(<<e>>) = 1 /\ <<e>>[1] = e
  OBVIOUS
<1>2. Len(s) \in Nat
  BY LenProperties
<1>3. /\ <<e>> \o s \in Seq(S) /\ Len(<<e>> \o s) = 1 + Len(s)
      /\ \A i \in 1..(1 + Len(s)) : (<<e>> \o s)[i] = IF i <= 1 THEN <<e>>[i] ELSE s[i - 1]
  BY <1>1, ConcatProperties
<1> HIDE <1>1
<1>4. (<<e>> \o s)[1] = e
  BY <1>1, <1>2, <1>3
<1>5. \A i \in 1..Len(s) : i + 1 \in 1..(1 + Len(s)) /\ ~(i + 1 <= 1) /\ (i + 1) - 1 = i
  BY <1>2
<1>6. 1 + Len(s) = Len(s) + 1
  BY <1>2
<1>7. \A i \in 1..Len(s) : (<<e>> \o s)[i + 1] = s[i]
  BY <1>3, <1>5
<1> QED
  BY <1>2, <1>3, <1>4, <1>5, <1>6, <1>7

\* A sequence cut in front of its element k, and behind it.
LEMMA CutFacts ==
  ASSUME NEW S, NEW s \in Seq(S), NEW k \in 1..(Len(s) + 1)
  PROVE  /\ Len(s) \in Nat
         /\ SubSeq(s, 1, k - 1) \in Seq(S) /\ Len(SubSeq(s, 1, k - 1)) = k - 1
         /\ \A i \in 1..(k - 1) : SubSeq(s, 1, k - 1)[i] = s[i]
         /\ SubSeq(s, k, Len(s)) \in Seq(S) /\ Len(SubSeq(s, k, Len(s))) = Len(s) - k + 1
         /\ \A i \in 1..(Len(s) - k + 1) : SubSeq(s, k, Len(s))[i] = s[k + i - 1]
<1>1. Len(s) \in Nat /\ k \in Int /\ k - 1 \in Int /\ 1 \in Int /\ Len(s) \in Int
  BY LenProperties
<1>2. \A i \in 1..Len(s) : s[i] \in S
  BY ElementOfSeq
<1>3. (\A i \in 1..(k - 1) : s[i] \in S) /\ (\A i \in k..Len(s) : s[i] \in S)
  BY <1>1, <1>2
<1>4. /\ SubSeq(s, 1, k - 1) \in Seq(S)
      /\ Len(SubSeq(s, 1, k - 1)) = IF 1 <= k - 1 THEN (k - 1) - 1 + 1 ELSE 0
      /\ \A i \in 1..((k - 1) - 1 + 1) : SubSeq(s, 1, k - 1)[i] = s[1 + i - 1]
  BY <1>1, <1>3, SubSeqProperties
<1>5. /\ SubSeq(s, k, Len(s)) \in Seq(S)
      /\ Len(SubSeq(s, k, Len(s))) = IF k <= Len(s) THEN Len(s) - k + 1 ELSE 0
      /\ \A i \in 1..(Len(s) - k + 1) : SubSeq(s, k, Len(s))[i] = s[k + i - 1]
  BY <1>1, <1>3, SubSeqProperties
<1>6. (k - 1) - 1 + 1 = k - 1 /\ \A i \in 1..(k - 1) : 1 + i - 1 = i
  BY <1>1
<1>7. Len(SubSeq(s, 1, k - 1)) = k - 1 /\ Len(SubSeq(s, k, Len(s))) = Len(s) - k + 1
  BY <1>1, <1>4, <1>5
<1> QED
  BY <1>1, <1>4, <1>5, <1>6, <1>7

\* The sequence s without its element k, and what it holds.
WithoutElement(s, k) == SubSeq(s, 1, k - 1) \o SubSeq(s, k + 1, Len(s))
IsWithout(u, s, k) ==
    \A i \in 1..(Len(s) - 1) : u[i] = IF i < k THEN s[i] ELSE s[i + 1]

LEMMA RemoveFacts ==
  ASSUME NEW S, NEW s \in Seq(S), NEW k \in 1..Len(s)
  PROVE  /\ WithoutElement(s, k) \in Seq(S)
         /\ Len(s) \in Nat /\ Len(WithoutElement(s, k)) = Len(s) - 1
         /\ IsWithout(WithoutElement(s, k), s, k)
<1> DEFINE a == SubSeq(s, 1, k - 1)
           b == SubSeq(s, k + 1, Len(s))
           u == WithoutElement(s, k)
<1>0. u = a \o b
  BY DEF WithoutElement
<1> HIDE DEF u
<1>1. Len(s) \in Nat /\ k \in 1..(Len(s) + 1) /\ k + 1 \in 1..(Len(s) + 1)
  BY LenProperties
<1>2. a \in Seq(S) /\ Len(a) = k - 1 /\ \A i \in 1..(k - 1) : a[i] = s[i]
  BY <1>1, CutFacts
<1>3. /\ b \in Seq(S) /\ Len(b) = Len(s) - (k + 1) + 1
      /\ \A i \in 1..(Len(s) - (k + 1) + 1) : b[i] = s[(k + 1) + i - 1]
  BY <1>1, CutFacts
<1> HIDE DEF a, b
<1>4. /\ u \in Seq(S) /\ Len(u) = Len(a) + Len(b)
      /\ \A i \in 1..(Len(a) + Len(b)) : u[i] = IF i <= Len(a) THEN a[i] ELSE b[i - Len(a)]
  BY <1>0, <1>2, <1>3, ConcatProperties
<1>5. Len(a) + Len(b) = Len(s) - 1
  BY <1>1, <1>2, <1>3
<1>6. ASSUME NEW i \in 1..(Len(s) - 1), i < k
      PROVE  u[i] = s[i]
  <2>1. i <= Len(a) /\ i \in 1..(k - 1)
    BY <1>1, <1>2, <1>6
  <2> QED
    BY <1>2, <1>4, <1>5, <2>1
<1>7. ASSUME NEW i \in 1..(Len(s) - 1), ~(i < k)
      PROVE  u[i] = s[i + 1]
  <2>1. /\ ~(i <= Len(a)) /\ i - Len(a) \in 1..(Len(s) - (k + 1) + 1)
        /\ (k + 1) + (i - Len(a)) - 1 = i + 1
    BY <1>1, <1>2, <1>7
  <2>2. u[i] = b[i - Len(a)]
    BY <1>4, <1>5, <2>1
  <2>3. b[i - Len(a)] = s[(k + 1) + (i - Len(a)) - 1]
    BY <1>3, <2>1
  <2> QED
    BY <2>1, <2>2, <2>3
<1> QED
  BY <1>1, <1>4, <1>5, <1>6, <1>7 DEF IsWithout, u

\* The sequence s with an element e put in front of its element k, and what
\* it holds.
WithElement(s, k, e) == SubSeq(s, 1, k - 1) \o <<e>> \o SubSeq(s, k, Len(s))
IsWith(u, s, k, e) ==
    \A i \in 1..(Len(s) + 1) : u[i] = IF i < k THEN s[i] ELSE IF i = k THEN e ELSE s[i - 1]

LEMMA InsertFacts ==
  ASSUME NEW S, NEW s \in Seq(S), NEW k \in 1..(Len(s) + 1), NEW e \in S
  PROVE  /\ WithElement(s, k, e) \in Seq(S) /\ Len(s) \in Nat
         /\ Len(WithElement(s, k, e)) = Len(s) + 1
         /\ IsWith(WithElement(s, k, e), s, k, e)
<1> DEFINE a == SubSeq(s, 1, k - 1)
           b == SubSeq(s, k, Len(s))
           u == WithElement(s, k, e)
<1>1. Len(s) \in Nat
  BY LenProperties
<1>2. a \in Seq(S) /\ Len(a) = k - 1 /\ \A i \in 1..(k - 1) : a[i] = s[i]
  BY CutFacts
<1>3. /\ b \in Seq(S) /\ Len(b) = Len(s) - k + 1
      /\ \A i \in 1..(Len(s) - k + 1) : b[i] = s[k + i - 1]
  BY CutFacts
<1>4. u = Append(a, e) \o b
  <2>1. Append(a, e) = a \o <<e>>
    BY <1>2, AppendIsConcat
  <2> QED
    BY <2>1 DEF WithElement
<1> HIDE DEF a, b, u
<1>5. /\ Append(a, e) \in Seq(S) /\ Len(Append(a, e)) = k
      /\ \A i \in 1..(k - 1) : Append(a, e)[i] = a[i]
      /\ Append(a, e)[k] = e
  <2>1. (k - 1) + 1 = k
    BY <1>1
  <2> QED
    BY <1>2, <2>1, AppendFacts
<1>6. /\ u \in Seq(S) /\ Len(u) = k + Len(b)
      /\ \A i \in 1..(k + Len(b)) : u[i] = IF i <= k THEN Append(a, e)[i] ELSE b[i - k]
  <2> DEFINE c == Append(a, e)
  <2>1. c \in Seq(S) /\ Len(c) = k /\ u = c \o b
    BY ONLY <1>4, <1>5
  <2> HIDE DEF c
  <2>2. /\ u \in Seq(S) /\ Len(u) = Len(c) + Len(b)
        /\ \A i \in 1..(Len(c) + Len(b)) : u[i] = IF i <= Len(c) THEN c[i] ELSE b[i - Len(c)]
    <3>1. b \in Seq(S)
      BY <1>3
    <3>2. /\ c \o b \in Seq(S) /\ Len(c \o b) = Len(c) + Len(b)
          /\ \A i \in 1..(Len(c) + Len(b)) : (c \o b)[i] = IF i <= Len(c) THEN c[i] ELSE b[i - Len(c)]
      BY ONLY <2>1, <3>1, ConcatProperties
    <3> QED
      BY ONLY <2>1, <3>2
  <2> QED
    BY ONLY <2>1, <2>2 DEF c
<1>7. k + Len(b) = Len(s) + 1
  BY <1>1, <1>3
<1>8. ASSUME NEW i \in 1..(Len(s) + 1), i < k
      PROVE  u[i] = s[i]
  <2>1. i <= k /\ i \in 1..(k - 1)
    BY <1>1, <1>8
  <2> QED
    BY <1>2, <1>5, <1>6, <1>7, <2>1
<1>9. ASSUME NEW i \in 1..(Len(s) + 1), i = k
      PROVE  u[i] = e
  <2>1. i <= k
    BY <1>1, <1>9
  <2> QED
    BY <1>5, <1>6, <1>7, <1>9, <2>1
<1>10. ASSUME NEW i \in 1..(Len(s) + 1), ~(i < k), i # k
       PROVE  u[i] = s[i - 1]
  <2>1. ~(i <= k) /\ i - k \in 1..(Len(s) - k + 1) /\ k + (i - k) - 1 = i - 1
    BY <1>1, <1>10
  <2>2. u[i] = b[i - k]
    BY <1>6, <1>7, <2>1
  <2>3. b[i - k] = s[k + (i - k) - 1]
    BY <1>3, <2>1
  <2> QED
    BY <2>1, <2>2, <2>3
<1> QED
  BY <1>1, <1>6, <1>7, <1>8, <1>9, <1>10 DEF IsWith, u

\* A set of numbers has a least one.
LEMMA LeastNumber ==
  ASSUME NEW T \in SUBSET Nat, T # {}
  PROVE  \E m \in T : \A n \in T : m <= n
<1> DEFINE R == {ss \in Nat \X Nat : ss[1] < ss[2]}
<1>1. IsWellFoundedOn(R, Nat)
  BY NatLessThanWellFounded DEF OpToRel
<1>2. \A m, n \in Nat : n < m => <<n, m>> \in R
  OBVIOUS
<1> HIDE DEF R
<1>3. PICK m \in T : \A n \in T : <<n, m>> \notin R
  BY <1>1, WFMin
<1>4. ASSUME NEW n \in T PROVE m <= n
  <2>1. m \in Nat /\ n \in Nat /\ ~ (n < m)
    BY <1>2, <1>3
  <2> QED
    BY <2>1
<1> QED
  BY <1>4

===============================================================================
