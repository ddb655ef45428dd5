----------------------------- MODULE Data_proofs -----------------------------
(***************************************************************************)
(* Theorems about the tables, texts and searches of MCResources: Str,      *)
(* BinSearch, CmdLine, HashMap and PrefixTree, for every value of their    *)
(* constants.                                                              *)
(***************************************************************************)
EXTENDS MCResources, SequenceLemmas

-----------------------------------------------------------------------------
(* Str.  Every call is a few changes of data and block, one after the      *)
(* other, each of which keeps them sound for what the strings should be.   *)

Sharers(s, b) == {v \in Strings : s.data[v] = b}
StrStates == [data : [Strings -> StrBlocks \cup {Null}],
              block : [StrBlocks -> [refs : 0 .. MaxRefs, text : Seq(Chars)]]]
StrSound(s, vals) ==
    /\ s \in StrStates /\ vals \in [Strings -> Seq(Chars)]
    /\ \A v \in Strings : St!Text(s, v) = vals[v]
    /\ \A b \in StrBlocks : s.block[b].refs = Cardinality(Sharers(s, b))

\* Str's Cardinality is that of the lemmas, and its invariant is about its state.
LEMMA StrSoundIs ==
  /\ St!IInv <=> StrSound(St!Now, strValue)
  /\ St!IInv' <=> StrSound([data |-> strData', block |-> strBlock'], strValue')
<1>1. \A X : St!Cardinality(X) = Cardinality(X)
  BY DEF St!Cardinality, Cardinality
<1>2. St!IInv <=> StrSound(St!Now, strValue)
  BY <1>1 DEF StrSound, StrStates, Sharers, St!IInv, St!TypeOK, St!StringsAreValues, St!CountsSharers, St!Now
<1>3. St!IInv' <=> StrSound([data |-> strData', block |-> strBlock'], strValue')
  BY <1>1 DEF StrSound, StrStates, Sharers, St!IInv, St!TypeOK, St!StringsAreValues, St!CountsSharers, St!Now, St!Text
<1> QED
  BY <1>2, <1>3

LEMMA SharersCount ==
  ASSUME NEW s \in StrStates, NEW b
  PROVE  /\ Sharers(s, b) \in SUBSET Strings /\ IsFiniteSet(Sharers(s, b))
         /\ Cardinality(Sharers(s, b)) \in Nat
         /\ Cardinality(Sharers(s, b)) = 0 <=> Sharers(s, b) = {}
BY StringsAssumption, FS_Subset, FS_CardinalityType, FS_EmptySet DEF Sharers

\* A state is known by what it has for every string and every block.
LEMMA StrStateIs ==
  ASSUME NEW s \in StrStates, NEW v \in Strings, NEW b \in StrBlocks
  PROVE  /\ s.data \in [Strings -> StrBlocks \cup {Null}] /\ s.data[v] \in StrBlocks \cup {Null}
         /\ s.block \in [StrBlocks -> [refs : 0 .. MaxRefs, text : Seq(Chars)]]
         /\ s.block[b].refs \in 0 .. MaxRefs /\ s.block[b].text \in Seq(Chars)
         /\ s.block[b] = [refs |-> s.block[b].refs, text |-> s.block[b].text]
BY DEF StrStates

LEMMA BlockChanges ==
  ASSUME NEW x, NEW r, NEW t, x = [refs |-> r, text |-> t]
  PROVE  /\ x.refs = r /\ x.text = t
         /\ [x EXCEPT !.refs = @ - 1] = [refs |-> r - 1, text |-> t]
         /\ [x EXCEPT !.refs = @ + 1] = [refs |-> r + 1, text |-> t]
         /\ \A u : [x EXCEPT !.text = u] = [refs |-> r, text |-> u]
OBVIOUS

\* One string gives up its share of its data.
LEMMA DecRefSound ==
  ASSUME NEW s, NEW vals, StrSound(s, vals), NEW v \in Strings
  PROVE  /\ StrSound(St!DecRef(s, v), [vals EXCEPT ![v] = <<>>])
         /\ St!DecRef(s, v).data[v] = Null
         /\ \A w \in Strings \ {v} : St!DecRef(s, v).data[w] = s.data[w]
<1> DEFINE t == St!DecRef(s, v)
           b == s.data[v]
<1>1. CASE b = Null
  BY <1>1 DEF St!DecRef, StrSound, St!Text, StrStates
<1>2. CASE b # Null
  <2>1. /\ s \in StrStates /\ vals \in [Strings -> Seq(Chars)] /\ b \in StrBlocks
        /\ s.data \in [Strings -> StrBlocks \cup {Null}]
        /\ s.block \in [StrBlocks -> [refs : 0 .. MaxRefs, text : Seq(Chars)]]
    BY <1>2, StrStateIs DEF StrSound, StrStates
  <2>2. /\ t.data = [s.data EXCEPT ![v] = Null]
        /\ t.block = [s.block EXCEPT ![b] = [s.block[b] EXCEPT !.refs = @ - 1]]
        /\ t = [data |-> t.data, block |-> t.block]
    BY <1>2 DEF St!DecRef, St!Changed
  <2>3. v \in Sharers(s, b) /\ Sharers(t, b) = Sharers(s, b) \ {v}
    BY <1>2, <2>1, <2>2, StringsAssumption DEF Sharers
  <2>4. Cardinality(Sharers(t, b)) = Cardinality(Sharers(s, b)) - 1 /\ Cardinality(Sharers(s, b)) > 0
    <3>1. Sharers(s, b) # {} /\ Cardinality(Sharers(s, b)) \in Nat /\ IsFiniteSet(Sharers(s, b))
      BY <2>1, <2>3, SharersCount
    <3>2. Cardinality(Sharers(s, b)) # 0
      BY <2>1, <3>1, SharersCount
    <3>3. Cardinality(Sharers(t, b)) = Cardinality(Sharers(s, b)) - 1
      BY <2>3, <3>1, FS_RemoveElement
    <3> QED
      BY <3>1, <3>2, <3>3
  <2>5. \A c \in StrBlocks \ {b} : Sharers(t, c) = Sharers(s, c)
    BY <1>2, <2>1, <2>2, StringsAssumption DEF Sharers
  <2>6. /\ \A c \in StrBlocks \ {b} : t.block[c] = s.block[c]
        /\ t.block[b].text = s.block[b].text /\ t.block[b].refs = s.block[b].refs - 1
        /\ s.block[b].refs = Cardinality(Sharers(s, b)) /\ s.block[b].refs \in 0 .. MaxRefs
    BY <2>1, <2>2 DEF StrSound
  <2>7. t \in StrStates
    <3>1. t.block \in [StrBlocks -> [refs : 0 .. MaxRefs, text : Seq(Chars)]]
      <4>1. t.block[b] \in [refs : 0 .. MaxRefs, text : Seq(Chars)]
        <5>0. s.block[b] = [refs |-> s.block[b].refs, text |-> s.block[b].text]
          BY <2>1, StrStateIs
        <5>1. [s.block[b] EXCEPT !.refs = @ - 1] = [refs |-> s.block[b].refs - 1, text |-> s.block[b].text]
          BY <5>0, BlockChanges
        <5>2. s.block[b].refs - 1 \in 0 .. MaxRefs /\ s.block[b].text \in Seq(Chars)
          BY <2>1, <2>4, <2>6, StringsAssumption, StrStateIs
        <5> QED
          BY <2>1, <2>2, <5>1, <5>2
      <4> QED
        BY <2>1, <2>2, <4>1
    <3> QED
      BY <2>1, <2>2, <3>1 DEF StrStates
  <2>8. \A c \in StrBlocks : t.block[c].refs = Cardinality(Sharers(t, c))
    BY <2>4, <2>5, <2>6 DEF StrSound
  <2>9. \A w \in Strings : St!Text(t, w) = [vals EXCEPT ![v] = <<>>][w]
    <3>1. TAKE w \in Strings
    <3>2. CASE w = v
      BY <2>1, <2>2, <3>2 DEF St!Text
    <3>3. CASE w # v
      <4>1. t.data[w] = s.data[w] /\ s.data[w] \in StrBlocks \cup {Null} /\ St!Text(s, w) = vals[w]
        BY <2>1, <2>2, <3>3 DEF StrSound
      <4> QED
        BY <2>1, <2>6, <3>3, <4>1 DEF St!Text
    <3> QED
      BY <3>2, <3>3
  <2>10. <<>> \in Seq(Chars) /\ [vals EXCEPT ![v] = <<>>] \in [Strings -> Seq(Chars)]
    BY <2>1, EmptySeq
  <2> QED
    BY <2>1, <2>2, <2>7, <2>8, <2>9, <2>10 DEF StrSound
<1> QED
  BY <1>1, <1>2

\* A string that had none takes a share of block b, which nobody had before or
\* whose text is kept.
LEMMA ShareSound ==
  ASSUME NEW s, NEW vals, StrSound(s, vals), NEW v \in Strings, s.data[v] = Null,
         NEW b \in StrBlocks, NEW x \in [refs : 0 .. MaxRefs, text : Seq(Chars)],
         x.refs = s.block[b].refs + 1, s.block[b].refs = 0 \/ x.text = s.block[b].text
  PROVE  StrSound(St!Changed(s, v, b, b, x), [vals EXCEPT ![v] = x.text])
<1> DEFINE t == St!Changed(s, v, b, b, x)
<1>1. /\ s \in StrStates /\ vals \in [Strings -> Seq(Chars)] /\ Null \notin StrBlocks
      /\ s.data \in [Strings -> StrBlocks \cup {Null}]
      /\ s.block \in [StrBlocks -> [refs : 0 .. MaxRefs, text : Seq(Chars)]]
      /\ s.block[b].refs = Cardinality(Sharers(s, b))
  BY StringsAssumption, StrStateIs DEF StrSound, StrStates
<1>2. /\ t.data = [s.data EXCEPT ![v] = b] /\ t.block = [s.block EXCEPT ![b] = x]
      /\ t = [data |-> t.data, block |-> t.block]
  BY DEF St!Changed
<1> HIDE DEF t
<1>3. t \in StrStates
  <2>1. t.data \in [Strings -> StrBlocks \cup {Null}]
    BY <1>1, <1>2
  <2>2. t.block \in [StrBlocks -> [refs : 0 .. MaxRefs, text : Seq(Chars)]]
    BY <1>1, <1>2
  <2> QED
    BY <1>2, <2>1, <2>2 DEF StrStates
<1>4. v \notin Sharers(s, b) /\ Sharers(t, b) = Sharers(s, b) \cup {v}
  BY <1>1, <1>2 DEF Sharers
<1>5. Cardinality(Sharers(t, b)) = Cardinality(Sharers(s, b)) + 1
  <2>1. IsFiniteSet(Sharers(s, b))
    BY <1>1, SharersCount
  <2> QED
    BY <1>4, <2>1, FS_AddElement
<1>6. ASSUME NEW c \in StrBlocks PROVE t.block[c].refs = Cardinality(Sharers(t, c))
  <2>1. CASE c = b
    BY <1>1, <1>2, <1>5, <2>1
  <2>2. CASE c # b
    <3>1. Sharers(t, c) = Sharers(s, c)
      BY <1>1, <1>2, <2>2 DEF Sharers
    <3>2. t.block[c] = s.block[c] /\ s.block[c].refs = Cardinality(Sharers(s, c))
      BY <1>1, <1>2, <2>2 DEF StrSound
    <3> QED
      BY <3>1, <3>2
  <2> QED
    BY <2>1, <2>2
<1>7. ASSUME NEW w \in Strings PROVE St!Text(t, w) = [vals EXCEPT ![v] = x.text][w]
  <2>1. CASE w = v
    BY <1>1, <1>2, <2>1 DEF St!Text
  <2>2. CASE w # v
    <3>1. /\ t.data[w] = s.data[w] /\ s.data[w] \in StrBlocks \cup {Null}
          /\ [vals EXCEPT ![v] = x.text][w] = vals[w] /\ St!Text(s, w) = vals[w]
      BY <1>1, <1>2, <2>2 DEF StrSound
    <3>2. CASE s.data[w] = b
      <4>1. Sharers(s, b) # {}
        BY <3>2 DEF Sharers
      <4>2. s.block[b].refs # 0
        BY <1>1, <4>1, SharersCount
      <4> QED
        BY <1>1, <1>2, <3>1, <3>2, <4>2 DEF St!Text
    <3>3. CASE s.data[w] # b
      <4>1. s.data[w] \in StrBlocks => t.block[s.data[w]] = s.block[s.data[w]]
        BY <1>1, <1>2, <3>3
      <4> QED
        BY <3>1, <4>1 DEF St!Text
    <3> QED
      BY <3>2, <3>3
  <2> QED
    BY <2>1, <2>2
<1>8. [vals EXCEPT ![v] = x.text] \in [Strings -> Seq(Chars)]
  BY <1>1
<1> QED
  BY <1>3, <1>6, <1>7, <1>8 DEF StrSound, t

\* There are fewer strings than blocks.
LEMMA FreshExists ==
  ASSUME NEW s, NEW vals, StrSound(s, vals)
  PROVE  St!Fresh(s) \in StrBlocks /\ s.block[St!Fresh(s)].refs = 0
<1>1. \E b \in StrBlocks : s.block[b].refs = 0
  <2> SUFFICES ASSUME \A b \in StrBlocks : s.block[b].refs # 0 PROVE FALSE
    OBVIOUS
  <2> DEFINE f == [b \in StrBlocks |-> CHOOSE v \in Strings : s.data[v] = b]
  <2>1. ASSUME NEW b \in StrBlocks PROVE f[b] \in Strings /\ s.data[f[b]] = b
    <3>1. Sharers(s, b) # {}
      BY SharersCount DEF StrSound
    <3>2. \E v \in Strings : s.data[v] = b
      BY <3>1 DEF Sharers
    <3> QED
      BY <3>2
  <2> HIDE DEF f
  <2>2. f \in Injection(StrBlocks, Strings)
    <3>1. f \in [StrBlocks -> Strings]
      BY <2>1 DEF f
    <3>2. \A b, c \in StrBlocks : f[b] = f[c] => b = c
      BY <2>1
    <3> QED
      BY <3>1, <3>2 DEF Injection, IsInjective
  <2>3. Cardinality(StrBlocks) <= Cardinality(Strings)
    BY <2>2, StringsAssumption, FS_Injection
  <2> QED
    BY <2>3, StringsAssumption, FS_CardinalityType
<1> QED
  BY <1>1 DEF St!Fresh

LEMMA CopyStringSound ==
  ASSUME NEW s, NEW vals, StrSound(s, vals), NEW v \in Strings, s.data[v] = Null, NEW text \in Seq(Chars)
  PROVE  /\ StrSound(St!CopyString(s, v, text), [vals EXCEPT ![v] = text])
         /\ St!CopyString(s, v, text).data[v] \in StrBlocks
         /\ St!CopyString(s, v, text).block[St!CopyString(s, v, text).data[v]].refs = 1
<1> DEFINE b == St!Fresh(s)
           x == [refs |-> 1, text |-> text]
<1>1. b \in StrBlocks /\ s.block[b].refs = 0 /\ s \in StrStates
  BY FreshExists DEF StrSound
<1>2. x \in [refs : 0 .. MaxRefs, text : Seq(Chars)] /\ x.refs = 1 /\ x.text = text
  BY StringsAssumption
<1>3. St!CopyString(s, v, text) = St!Changed(s, v, b, b, x)
  BY DEF St!CopyString
<1> HIDE DEF b, x
<1>4. StrSound(St!Changed(s, v, b, b, x), [vals EXCEPT ![v] = x.text])
  BY <1>1, <1>2, ShareSound
<1>5. /\ St!Changed(s, v, b, b, x).data[v] = b /\ St!Changed(s, v, b, b, x).block[b] = x
  BY <1>1 DEF St!Changed, StrStates
<1> QED
  BY <1>1, <1>2, <1>3, <1>4, <1>5

LEMMA CopyDataSound ==
  ASSUME NEW s, NEW vals, StrSound(s, vals), NEW v \in Strings, s.data[v] = Null,
         NEW w \in Strings, s.data[w] # Null
  PROVE  StrSound(St!CopyData(s, v, s.data[w]), [vals EXCEPT ![v] = vals[w]])
<1> DEFINE b == s.data[w]
           x == [s.block[b] EXCEPT !.refs = @ + 1]
<1>1. /\ s \in StrStates /\ b \in StrBlocks /\ s.block[b].text = vals[w] /\ vals[w] \in Seq(Chars)
      /\ s.block[b] = [refs |-> s.block[b].refs, text |-> s.block[b].text] /\ s.block[b].refs \in 0 .. MaxRefs
  <2>1. s \in StrStates /\ b \in StrBlocks /\ St!Text(s, w) = vals[w] /\ vals[w] \in Seq(Chars)
    BY StrStateIs DEF StrSound, StrStates
  <2>2. St!Text(s, w) = s.block[b].text
    BY DEF St!Text
  <2> QED
    BY <2>1, <2>2, StrStateIs
<1>2. CASE s.block[b].refs = MaxRefs
  BY <1>1, <1>2, CopyStringSound DEF St!CopyData
<1>3. CASE s.block[b].refs # MaxRefs
  <2>1. x = [refs |-> s.block[b].refs + 1, text |-> s.block[b].text]
    BY <1>1, BlockChanges
  <2>2. St!CopyData(s, v, b) = St!Changed(s, v, b, b, x)
    BY <1>3 DEF St!CopyData
  <2>3. s.block[b].refs + 1 \in 0 .. MaxRefs
    BY <1>1, <1>3, StringsAssumption
  <2>4. /\ x \in [refs : 0 .. MaxRefs, text : Seq(Chars)]
        /\ x.refs = s.block[b].refs + 1 /\ x.text = s.block[b].text
    BY <1>1, <2>1, <2>3
  <2> HIDE DEF x
  <2>5. StrSound(St!Changed(s, v, b, b, x), [vals EXCEPT ![v] = x.text])
    BY <1>1, <2>4, ShareSound
  <2> QED
    BY <1>1, <2>2, <2>4, <2>5
<1> QED
  BY <1>2, <1>3

LEMMA RenewedSound ==
  ASSUME NEW s, NEW vals, StrSound(s, vals), NEW v \in Strings, NEW text \in Seq(Chars)
  PROVE  /\ StrSound(St!Renewed(s, v, text), [vals EXCEPT ![v] = text])
         /\ St!Renewed(s, v, text).data[v] \in StrBlocks
         /\ St!Renewed(s, v, text).block[St!Renewed(s, v, text).data[v]].refs = 1
<1> DEFINE t == St!DecRef(s, v)
           u == [vals EXCEPT ![v] = <<>>]
<1>1. StrSound(t, u) /\ t.data[v] = Null
  BY DecRefSound
<1>2. [u EXCEPT ![v] = text] = [vals EXCEPT ![v] = text]
  BY DEF StrSound
<1> HIDE DEF t, u
<1>3. /\ StrSound(St!CopyString(t, v, text), [u EXCEPT ![v] = text])
      /\ St!CopyString(t, v, text).data[v] \in StrBlocks
      /\ St!CopyString(t, v, text).block[St!CopyString(t, v, text).data[v]].refs = 1
  BY <1>1, CopyStringSound
<1> QED
  BY <1>2, <1>3 DEF St!Renewed, t

LEMMA AssignedSound ==
  ASSUME NEW s, NEW vals, StrSound(s, vals), NEW v \in Strings, NEW w \in Strings
  PROVE  StrSound(St!Assigned(s, v, w), [vals EXCEPT ![v] = vals[w]])
<1>1. CASE s.data[v] = s.data[w]
  <2>1. vals[v] = vals[w]
    BY <1>1 DEF StrSound, St!Text
  <2>2. [vals EXCEPT ![v] = vals[w]] = vals
    BY <2>1 DEF StrSound
  <2> QED
    BY <1>1, <2>2 DEF St!Assigned
<1>2. CASE s.data[v] # s.data[w]
  <2> DEFINE t == St!DecRef(s, v)
             u == [vals EXCEPT ![v] = <<>>]
  <2>1. StrSound(t, u) /\ t.data[v] = Null /\ t.data[w] = s.data[w]
    BY <1>2, DecRefSound
  <2>2. u[w] = vals[w] /\ [u EXCEPT ![v] = vals[w]] = [vals EXCEPT ![v] = vals[w]]
    BY <1>2 DEF StrSound
  <2>3. u = [vals EXCEPT ![v] = <<>>] /\ t = St!DecRef(s, v)
    OBVIOUS
  <2> HIDE DEF t, u
  <2>4. CASE s.data[w] = Null
    <3>1. vals[w] = <<>>
      BY <2>4 DEF StrSound, St!Text
    <3> QED
      BY <1>2, <2>1, <2>3, <2>4, <3>1 DEF St!Assigned
  <2>5. CASE s.data[w] # Null
    <3>1. StrSound(St!CopyData(t, v, t.data[w]), [u EXCEPT ![v] = u[w]])
      BY <2>1, <2>5, CopyDataSound
    <3> QED
      BY <1>2, <2>1, <2>2, <2>3, <2>5, <3>1 DEF St!Assigned
  <2> QED
    BY <2>4, <2>5
<1> QED
  BY <1>1, <1>2

\* Before it is written, a string has its data for itself.
LEMMA UnsharedSound ==
  ASSUME NEW s, NEW vals, StrSound(s, vals), NEW v \in Strings, s.data[v] # Null
  PROVE  /\ StrSound(St!Unshared(s, v), vals)
         /\ St!Unshared(s, v).data[v] \in StrBlocks
         /\ St!Unshared(s, v).block[St!Unshared(s, v).data[v]].refs = 1
<1>1. /\ s \in StrStates /\ s.data[v] \in StrBlocks /\ vals \in [Strings -> Seq(Chars)] /\ St!Text(s, v) = vals[v]
      /\ s.block[s.data[v]].refs \in Nat /\ s.block[s.data[v]].refs = Cardinality(Sharers(s, s.data[v]))
  <2>1. s \in StrStates /\ s.data[v] \in StrBlocks /\ vals \in [Strings -> Seq(Chars)] /\ St!Text(s, v) = vals[v]
    BY DEF StrSound, StrStates
  <2>2. s.block[s.data[v]].refs \in 0 .. MaxRefs
    BY <2>1, StrStateIs
  <2>3. s.block[s.data[v]].refs = Cardinality(Sharers(s, s.data[v]))
    BY <2>1 DEF StrSound
  <2> QED
    BY <2>1, <2>2, <2>3, StringsAssumption
<1>2. CASE s.block[s.data[v]].refs > 1
  <2>1. [vals EXCEPT ![v] = vals[v]] = vals /\ vals[v] \in Seq(Chars)
    BY <1>1
  <2> QED
    BY <1>1, <1>2, <2>1, RenewedSound DEF St!Unshared
<1>3. CASE ~ (s.block[s.data[v]].refs > 1)
  <2>1. v \in Sharers(s, s.data[v])
    BY DEF Sharers
  <2>2. s.block[s.data[v]].refs # 0
    BY <1>1, <2>1, SharersCount
  <2> QED
    BY <1>1, <1>3, <2>2 DEF St!Unshared
<1> QED
  BY <1>2, <1>3

LEMMA RewrittenSound ==
  ASSUME NEW s, NEW vals, StrSound(s, vals), NEW v \in Strings, NEW text \in Seq(Chars),
         s.data[v] \in StrBlocks, s.block[s.data[v]].refs = 1 \/ text = vals[v]
  PROVE  StrSound(St!Rewritten(s, v, text), [vals EXCEPT ![v] = text])
<1> DEFINE b == s.data[v]
           x == [s.block[b] EXCEPT !.text = text]
           t == St!Rewritten(s, v, text)
<1>1. /\ s \in StrStates /\ vals \in [Strings -> Seq(Chars)] /\ Null \notin StrBlocks
      /\ s.data \in [Strings -> StrBlocks \cup {Null}]
      /\ s.block \in [StrBlocks -> [refs : 0 .. MaxRefs, text : Seq(Chars)]]
      /\ s.block[b].refs = Cardinality(Sharers(s, b)) /\ s.block[b].text = vals[v]
  BY StringsAssumption, StrStateIs DEF StrSound, StrStates, St!Text
<1>2. x = [refs |-> s.block[b].refs, text |-> text]
  BY <1>1, StrStateIs, BlockChanges
<1>3. x \in [refs : 0 .. MaxRefs, text : Seq(Chars)] /\ x.refs = s.block[b].refs /\ x.text = text
  BY <1>1, <1>2, StrStateIs
<1>4. t.data = s.data /\ t.block = [s.block EXCEPT ![b] = x] /\ t = [data |-> t.data, block |-> t.block]
  <2>1. [s.data EXCEPT ![v] = b] = s.data
    BY <1>1
  <2> QED
    BY <2>1 DEF St!Rewritten, St!Changed
<1> HIDE DEF t, x
<1>5. t \in StrStates
  <2>1. t.block \in [StrBlocks -> [refs : 0 .. MaxRefs, text : Seq(Chars)]]
    BY <1>1, <1>3, <1>4
  <2> QED
    BY <1>1, <1>4, <2>1 DEF StrStates
<1>6. ASSUME NEW c \in StrBlocks PROVE t.block[c].refs = Cardinality(Sharers(t, c))
  <2>1. Sharers(t, c) = Sharers(s, c) /\ t.block[c].refs = s.block[c].refs
    BY <1>1, <1>3, <1>4 DEF Sharers
  <2> QED
    BY <2>1 DEF StrSound
<1>7. ASSUME NEW w \in Strings PROVE St!Text(t, w) = [vals EXCEPT ![v] = text][w]
  <2>1. CASE w = v
    BY <1>1, <1>3, <1>4, <2>1 DEF St!Text
  <2>2. CASE w # v
    <3>1. /\ t.data[w] = s.data[w] /\ s.data[w] \in StrBlocks \cup {Null}
          /\ [vals EXCEPT ![v] = text][w] = vals[w] /\ St!Text(s, w) = vals[w]
      BY <1>1, <1>4, <2>2 DEF StrSound
    <3>2. CASE s.data[w] = b
      <4>1. CASE text = vals[v]
        BY <1>1, <1>3, <1>4, <3>1, <3>2, <4>1 DEF St!Text
      <4>2. CASE s.block[b].refs = 1
        <5>1. {v, w} \subseteq Sharers(s, b) /\ IsFiniteSet(Sharers(s, b)) /\ Cardinality(Sharers(s, b)) = 1
          BY <1>1, <3>2, <4>2, SharersCount DEF Sharers
        <5>2. \E y : Sharers(s, b) = {y}
          BY <5>1, FS_Singleton
        <5> QED
          BY <2>2, <5>1, <5>2
      <4> QED
        BY <4>1, <4>2
    <3>3. CASE s.data[w] # b
      <4>1. s.data[w] \in StrBlocks => t.block[s.data[w]] = s.block[s.data[w]]
        BY <1>1, <1>4, <3>3
      <4> QED
        BY <3>1, <4>1 DEF St!Text
    <3> QED
      BY <3>2, <3>3
  <2> QED
    BY <2>1, <2>2
<1>8. [vals EXCEPT ![v] = text] \in [Strings -> Seq(Chars)]
  BY <1>1
<1> QED
  BY <1>5, <1>6, <1>7, <1>8 DEF StrSound, t

LEMMA BecomesSound ==
  ASSUME NEW s, NEW v, NEW text, StrSound(s, [strValue EXCEPT ![v] = text]), St!Becomes(s, v, text)
  PROVE  St!IInv'
<1>1. s = [data |-> strData', block |-> strBlock']
  BY DEF StrSound, StrStates, St!Becomes
<1> QED
  BY <1>1, StrSoundIs DEF St!Becomes

LEMMA StringsInit == St!Init => St!IInv
<1> SUFFICES ASSUME St!Init PROVE St!IInv
  OBVIOUS
<1>1. /\ strData = [v \in Strings |-> Null] /\ strValue = [v \in Strings |-> <<>>]
      /\ strBlock = [b \in StrBlocks |-> [refs |-> 0, text |-> <<>>]] /\ <<>> \in Seq(Chars)
  BY EmptySeq DEF St!Init
<1>2. St!Now \in StrStates /\ strValue \in [Strings -> Seq(Chars)]
  BY <1>1, StringsAssumption DEF StrStates, St!Now
<1>3. \A b \in StrBlocks : Sharers(St!Now, b) = {} /\ St!Now.block[b].refs = 0
  BY <1>1, StringsAssumption DEF Sharers, St!Now
<1>4. StrSound(St!Now, strValue)
  BY <1>1, <1>2, <1>3, FS_EmptySet DEF StrSound, St!Text, St!Now
<1> QED
  BY <1>4, StrSoundIs

\* What holds while strings are sound.
LEMMA NowSound ==
  ASSUME St!IInv
  PROVE  /\ StrSound(St!Now, strValue) /\ strValue \in [Strings -> Seq(Chars)]
         /\ St!Now.data = strData /\ St!Now.block = strBlock
         /\ \A v \in Strings : /\ St!Text(St!Now, v) = strValue[v]
                               /\ strData[v] # Null => strData[v] \in StrBlocks
BY StrSoundIs DEF StrSound, StrStates, St!Now

LEMMA MoveSound ==
  ASSUME St!IInv, NEW v \in Strings, NEW w \in Strings, St!Move(v, w)
  PROVE  St!IInv'
<1> DEFINE s == St!DecRef(St!Now, v)
           u == [strValue EXCEPT ![v] = <<>>]
           t == [data |-> strData', block |-> strBlock']
<1>1. /\ StrSound(s, u) /\ s.data[v] = Null /\ s.data[w] = strData[w] /\ v # w
      /\ strValue \in [Strings -> Seq(Chars)]
  <2>1. v # w
    BY DEF St!Move
  <2>2. StrSound(St!Now, strValue) /\ strValue \in [Strings -> Seq(Chars)] /\ St!Now.data = strData
    BY NowSound
  <2>3. StrSound(s, u) /\ s.data[v] = Null /\ s.data[w] = St!Now.data[w]
    BY <2>1, <2>2, DecRefSound
  <2> QED
    BY <2>1, <2>2, <2>3
<1>2. /\ strData' = [s.data EXCEPT ![v] = s.data[w], ![w] = Null] /\ strBlock' = s.block
      /\ strValue' = [u EXCEPT ![v] = u[w], ![w] = <<>>]
  BY <1>1 DEF St!Move
<1> HIDE DEF s, u
<1>3. /\ s \in StrStates /\ s.data \in [Strings -> StrBlocks \cup {Null}]
      /\ s.block \in [StrBlocks -> [refs : 0 .. MaxRefs, text : Seq(Chars)]] /\ u \in [Strings -> Seq(Chars)]
      /\ <<>> \in Seq(Chars) /\ Null \notin StrBlocks
  BY <1>1, EmptySeq, StringsAssumption DEF StrSound, StrStates
<1>4. t \in StrStates /\ strValue' \in [Strings -> Seq(Chars)] /\ t.data = strData' /\ t.block = s.block
  BY <1>2, <1>3 DEF StrStates
<1> HIDE DEF t
<1>5. ASSUME NEW b \in StrBlocks PROVE t.block[b].refs = Cardinality(Sharers(t, b))
  <2> DEFINE T == Sharers(t, b)
             U == Sharers(s, b)
  <2>1. T = IF s.data[w] = b THEN (U \ {w}) \cup {v} ELSE U
    BY <1>1, <1>2, <1>3, <1>4 DEF Sharers
  <2>2. v \notin U /\ (s.data[w] = b => w \in U) /\ IsFiniteSet(U) /\ Cardinality(U) \in Nat
    <3>1. v \notin U /\ (s.data[w] = b => w \in U)
      BY <1>1, <1>3 DEF Sharers
    <3> QED
      BY <1>3, <3>1, SharersCount
  <2> HIDE DEF T, U
  <2>3. Cardinality(T) = Cardinality(U)
    <3>1. CASE s.data[w] = b
      <4>1. IsFiniteSet(U \ {w}) /\ Cardinality(U \ {w}) = Cardinality(U) - 1
        BY <2>2, <3>1, FS_RemoveElement
      <4>2. Cardinality((U \ {w}) \cup {v}) = Cardinality(U \ {w}) + 1
        BY <2>2, <4>1, FS_AddElement
      <4> QED
        BY <2>1, <2>2, <3>1, <4>1, <4>2
    <3> QED
      BY <2>1, <3>1
  <2>4. s.block[b].refs = Cardinality(U)
    BY <1>1 DEF StrSound, U
  <2> QED
    BY <1>4, <2>3, <2>4 DEF T
<1>6. ASSUME NEW x \in Strings PROVE St!Text(t, x) = strValue'[x]
  <2>1. St!Text(s, x) = u[x] /\ St!Text(s, w) = u[w]
    BY <1>1 DEF StrSound
  <2>2. CASE x = v
    BY <1>1, <1>2, <1>3, <1>4, <2>1, <2>2 DEF St!Text
  <2>3. CASE x = w
    BY <1>1, <1>2, <1>3, <1>4, <2>3 DEF St!Text
  <2>4. CASE x # v /\ x # w
    BY <1>2, <1>3, <1>4, <2>1, <2>4 DEF St!Text
  <2> QED
    BY <2>2, <2>3, <2>4
<1> QED
  BY <1>4, <1>5, <1>6, StrSoundIs DEF StrSound, t

LEMMA WriteSound ==
  ASSUME St!IInv, NEW v \in Strings, NEW i, NEW c \in Chars, St!Write(v, i, c)
  PROVE  St!IInv'
<1> DEFINE s == St!Unshared(St!Now, v)
           text == [strValue[v] EXCEPT ![i] = c]
<1>1. strValue[v] \in Seq(Chars) /\ i \in DOMAIN strValue[v] /\ strValue[v] # <<>>
  BY NowSound DEF St!Write
<1>2. St!Now.data[v] # Null
  BY <1>1, NowSound DEF St!Text
<1>3. StrSound(s, strValue) /\ s.data[v] \in StrBlocks /\ s.block[s.data[v]].refs = 1
  BY <1>2, NowSound, UnsharedSound
<1>4. text \in Seq(Chars) /\ St!Text(s, v) = strValue[v]
  BY <1>1, <1>3, ExceptSeq DEF StrSound
<1>5. St!Becomes(St!Rewritten(s, v, text), v, text)
  BY <1>4 DEF St!Write
<1> HIDE DEF s, text
<1>6. StrSound(St!Rewritten(s, v, text), [strValue EXCEPT ![v] = text])
  BY <1>3, <1>4, RewrittenSound
<1> QED
  BY <1>5, <1>6, BecomesSound

LEMMA SubSound ==
  ASSUME St!IInv, NEW v \in Strings, NEW c \in Chars, NEW d \in Chars, St!Sub(v, c, d)
  PROVE  St!IInv'
<1> DEFINE Replaced(t) == [i \in DOMAIN t |-> IF t[i] = c THEN d ELSE t[i]]
           found == \E i \in DOMAIN strValue[v] : strValue[v][i] = c
           s == IF found THEN St!Unshared(St!Now, v) ELSE St!Now
           text == Replaced(strValue[v])
<1>1. /\ strValue[v] \in Seq(Chars) /\ St!Text(St!Now, v) = strValue[v]
      /\ St!Now.data[v] # Null /\ St!Now.data[v] \in StrBlocks
  BY NowSound DEF St!Sub
<1>2. /\ StrSound(s, strValue) /\ s.data[v] \in StrBlocks
      /\ found => s.block[s.data[v]].refs = 1
  BY <1>1, NowSound, UnsharedSound
<1>3. text \in Seq(Chars)
  <2>1. strValue[v] \in [1 .. Len(strValue[v]) -> Chars] /\ Len(strValue[v]) \in Nat
    BY <1>1, LenProperties
  <2>2. text \in [1 .. Len(strValue[v]) -> Chars]
    BY <2>1
  <2> QED
    BY <2>1, <2>2, IsASeq
<1>4. ~ found => text = strValue[v]
  BY <1>1
<1>5. St!Becomes(St!Rewritten(s, v, text), v, text)
  <2>1. St!Text(s, v) = strValue[v]
    BY <1>2 DEF StrSound
  <2> QED
    BY <1>1, <2>1 DEF St!Sub
<1> HIDE DEF s, text
<1>6. StrSound(St!Rewritten(s, v, text), [strValue EXCEPT ![v] = text])
  <2>1. s.block[s.data[v]].refs = 1 \/ text = strValue[v]
    BY <1>2, <1>4
  <2> QED
    BY <1>2, <1>3, <2>1, RewrittenSound
<1> QED
  BY <1>5, <1>6, BecomesSound

LEMMA StringsNext == St!IInv /\ St!Next => St!IInv'
<1> SUFFICES ASSUME St!IInv, NEW v \in Strings,
                    \/ \E text \in St!Texts : St!AssignText(v, text)
                    \/ \E w \in Strings : St!Assign(v, w) \/ St!Move(v, w) \/ St!AddTo(v, w)
                    \/ \E i \in 1 .. MaxLength, c \in Chars : St!Write(v, i, c)
                    \/ \E c, d \in Chars : St!Sub(v, c, d)
                    \/ St!Drop(v)
             PROVE  St!IInv'
  BY DEF St!Next
<1>1. ASSUME NEW text \in St!Texts, St!AssignText(v, text) PROVE St!IInv'
  <2>1. text \in Seq(Chars)
    BY IsASeq DEF St!Texts
  <2> QED
    BY <1>1, <2>1, NowSound, RenewedSound, BecomesSound DEF St!AssignText
<1>2. ASSUME NEW w \in Strings, St!Assign(v, w) PROVE St!IInv'
  BY <1>2, NowSound, AssignedSound, BecomesSound DEF St!Assign
<1>3. ASSUME NEW w \in Strings, St!AddTo(v, w) PROVE St!IInv'
  <2>1. /\ strValue[v] \o strValue[w] \in Seq(Chars)
        /\ St!Text(St!Now, v) \o St!Text(St!Now, w) = strValue[v] \o strValue[w]
    BY NowSound, ConcatProperties
  <2> QED
    BY <1>3, <2>1, NowSound, RenewedSound, BecomesSound DEF St!AddTo
<1>4. ASSUME St!Drop(v) PROVE St!IInv'
  BY <1>4, NowSound, DecRefSound, BecomesSound DEF St!Drop
<1> QED
  BY <1>1, <1>2, <1>3, <1>4, MoveSound, WriteSound, SubSound

\* Strings that share data are values and their blocks are counted, for any
\* number of strings, characters and lengths and any largest count (str.hh).
THEOREM StringsKeepTheirValues == AllSpec => []St!IInv
<1>1. AllInit => St!IInv
  BY StringsInit DEF AllInit
<1>2. St!IInv /\ [AllNext]_allVars => St!IInv'
  <2> SUFFICES ASSUME St!IInv, [AllNext]_allVars PROVE St!IInv'
    OBVIOUS
  <2>1. CASE St!Next
    BY <2>1, StringsNext
  <2>2. CASE UNCHANGED stringVars
    BY <2>2 DEF stringVars, St!IInv, St!TypeOK, St!StringsAreValues, St!CountsSharers, St!Text, St!Now
  <2> QED
    BY <2>1, <2>2 DEF AllNext, allVars, dataVars
<1> QED
  BY <1>1, <1>2, PTL DEF AllSpec

\* What the run resources checks of strings (str.hh).
THEOREM StringsStayShared == AllSpec => []StringsAreShared
<1>1. St!IInv => StringsAreShared
  BY DEF St!IInv, StringsAreShared
<1> QED
  BY <1>1, StringsKeepTheirValues, PTL

-----------------------------------------------------------------------------
(* BinSearch.  What is before begin is smaller, what is behind the range   *)
(* is not; so the range ends at the number of the smaller ones.            *)

\* The smaller ones of a sorted sequence are its first.
LEMMA SmallerOnes ==
  ASSUME NEW s \in Seq(Numbers), NEW v \in Numbers, NEW b \in Nat, b <= Len(s),
         \A k \in DOMAIN s : (k <= b => s[k] < v) /\ (k > b => s[k] >= v)
  PROVE  Cardinality({k \in DOMAIN s : s[k] < v}) = b
<1>1. DOMAIN s = 1 .. Len(s) /\ Len(s) \in Nat /\ \A k \in DOMAIN s : s[k] \in Int
  BY NumbersAssumption, LenProperties, ElementOfSeq
<1>2. {k \in DOMAIN s : s[k] < v} = 1 .. b
  <2>1. ASSUME NEW k \in DOMAIN s PROVE s[k] < v <=> k <= b
    BY <1>1, NumbersAssumption
  <2> QED
    BY <1>1, <2>1
<1>3. Cardinality(1 .. b) = b
  BY FS_Interval
<1> QED
  BY <1>2, <1>3

LEMMA BinSearchInit == BS!Init => BS!IInv
<1> SUFFICES ASSUME BS!Init PROVE BS!IInv
  OBVIOUS
<1>1. PICK n \in 0 .. MaxRange : ary \in {s \in [1 .. n -> Numbers] : BS!Sorted(s)}
  BY DEF BS!Init
<1>2. ary \in Seq(Numbers) /\ BS!Sorted(ary) /\ Len(ary) \in Nat /\ DOMAIN ary = 1 .. Len(ary)
  BY <1>1, IsASeq, LenProperties
<1> QED
  BY <1>2 DEF BS!Init, BS!IInv, BS!TypeOK, BS!FindsLowerBound

LEMMA BinSearchNext == BS!IInv /\ BS!Next => BS!IInv'
<1> SUFFICES ASSUME BS!IInv, BS!Next PROVE BS!IInv'
  OBVIOUS
<1>1. /\ ary \in Seq(Numbers) /\ BS!Sorted(ary) /\ val \in Numbers /\ val \in Int
      /\ begin \in Nat \ {0} /\ length \in Nat /\ (result # None => length = 0)
      /\ begin + length <= Len(ary) + 1 /\ Len(ary) \in Nat
      /\ DOMAIN ary = 1 .. Len(ary) /\ \A k \in 1 .. Len(ary) : ary[k] \in Int
      /\ \A k \in 1 .. Len(ary) : (k < begin => ary[k] < val) /\ (k >= begin + length => ary[k] >= val)
  BY NumbersAssumption, LenProperties, ElementOfSeq DEF BS!IInv, BS!TypeOK, BS!FindsLowerBound
<1>2. \A i, k \in 1 .. Len(ary) : i < k => ary[i] <= ary[k]
  BY <1>1 DEF BS!Sorted
<1> DEFINE m == begin + BS!Halve
<1>3. length > 0 => m \in 1 .. Len(ary) /\ BS!Halve \in Nat /\ BS!Halve < length /\ m \in Nat
  BY <1>1 DEF BS!Halve
<1>4. CASE BS!Right
  <2>1. /\ length > 0 /\ ary[m] < val /\ begin' = m + 1 /\ length' = length - (BS!Halve + 1)
        /\ ary' = ary /\ val' = val /\ result' = result
    BY <1>4 DEF BS!Right
  <2>2. begin' \in Nat \ {0} /\ length' \in Nat /\ begin' + length' = begin + length /\ result = None
    <3>1. result = None
      BY <1>1, <2>1
    <3>2. \A b, n, h \in Nat : h < n => /\ (b + h) + 1 \in Nat \ {0} /\ n - (h + 1) \in Nat
                                       /\ ((b + h) + 1) + (n - (h + 1)) = b + n
      OBVIOUS
    <3>3. BS!Halve \in Nat /\ BS!Halve < length /\ begin \in Nat /\ length \in Nat
      BY <1>1, <1>3, <2>1
    <3>4. begin' = (begin + BS!Halve) + 1 /\ length' = length - (BS!Halve + 1)
      BY <2>1
    <3> HIDE DEF m
    <3> QED
      BY ONLY <3>1, <3>2, <3>3, <3>4
  <2>3. \A k \in 1 .. Len(ary) : k < begin' => ary[k] < val
    BY <1>1, <1>2, <1>3, <2>1
  <2> QED
    BY <1>1, <2>1, <2>2, <2>3 DEF BS!IInv, BS!TypeOK, BS!FindsLowerBound
<1>5. CASE BS!Left
  <2>1. /\ length > 0 /\ ~ ary[m] < val /\ begin' = begin /\ length' = BS!Halve
        /\ ary' = ary /\ val' = val /\ result' = result
    BY <1>5 DEF BS!Left
  <2>2. length' \in Nat /\ begin' + length' <= Len(ary) + 1 /\ result = None
    BY <1>1, <1>3, <2>1
  <2>3. \A k \in 1 .. Len(ary) : k >= begin' + length' => ary[k] >= val
    BY <1>1, <1>2, <1>3, <2>1
  <2> QED
    BY <1>1, <2>1, <2>2, <2>3 DEF BS!IInv, BS!TypeOK, BS!FindsLowerBound
<1>6. CASE BS!Found
  <2>1. /\ length = 0 /\ length' = 0 /\ begin' = begin /\ ary' = ary /\ val' = val
        /\ result' = IF begin <= Len(ary) /\ ~ val < ary[begin] THEN begin ELSE Len(ary) + 1
    BY <1>6 DEF BS!Found
  <2>2. /\ begin - 1 \in Nat /\ begin - 1 <= Len(ary)
        /\ \A k \in DOMAIN ary : (k <= begin - 1 => ary[k] < val) /\ (k > begin - 1 => ary[k] >= val)
    BY <1>1, <2>1
  <2>3. BS!Cardinality({k \in DOMAIN ary : ary[k] < val}) = begin - 1
    <3>1. \A X : BS!Cardinality(X) = Cardinality(X)
      BY DEF BS!Cardinality, Cardinality
    <3> QED
      BY <1>1, <2>2, <3>1, SmallerOnes
  <2>4. IF \E k \in DOMAIN ary : ary[k] = val THEN result' = begin ELSE result' = Len(ary) + 1
    <3>1. CASE \E k \in DOMAIN ary : ary[k] = val
      <4>1. PICK k \in DOMAIN ary : ary[k] = val
        BY <3>1
      <4>2. begin <= k /\ begin \in 1 .. Len(ary) /\ ary[begin] >= val /\ ary[begin] <= ary[k]
        BY <1>1, <1>2, <2>2, <4>1
      <4> QED
        BY <1>1, <2>1, <3>1, <4>1, <4>2
    <3>2. CASE ~ \E k \in DOMAIN ary : ary[k] = val
      <4>1. begin \in 1 .. Len(ary) => ary[begin] > val
        BY <1>1, <2>2, <3>2
      <4> QED
        BY <1>1, <2>1, <3>2, <4>1
    <3> QED
      BY <3>1, <3>2
  <2>5. result' \in Nat
    BY <1>1, <2>1
  <2>6. BS!TypeOK'
    BY <1>1, <2>1, <2>5 DEF BS!TypeOK
  <2>7. BS!FindsLowerBound'
    BY <1>1, <2>1, <2>2, <2>3, <2>4 DEF BS!FindsLowerBound
  <2> QED
    BY <2>6, <2>7 DEF BS!IInv
<1> QED
  BY <1>4, <1>5, <1>6 DEF BS!Next

\* The loop ends at the first element that is not less, for any sorted range
\* of any length (binsearch.hh).
THEOREM LowerBoundsAreFound == AllSpec => []BS!IInv
<1>1. AllInit => BS!IInv
  BY BinSearchInit DEF AllInit
<1>2. BS!IInv /\ [AllNext]_allVars => BS!IInv'
  <2> SUFFICES ASSUME BS!IInv, [AllNext]_allVars PROVE BS!IInv'
    OBVIOUS
  <2>1. CASE BS!Next
    BY <2>1, BinSearchNext
  <2>2. CASE UNCHANGED searchVars
    BY <2>2 DEF searchVars, BS!IInv, BS!TypeOK, BS!FindsLowerBound, BS!Sorted
  <2> QED
    BY <2>1, <2>2 DEF AllNext, allVars, dataVars
<1> QED
  BY <1>1, <1>2, PTL DEF AllSpec

-----------------------------------------------------------------------------
(* CmdLine.  The words before the index are split into those that belong   *)
(* to a call of Parse and those that are left out, in order.               *)

Calls == [opt : CL!Options, cmd : Nat, first : Nat, count : Nat]

\* What is known between two turns.
LEMMA CmdFacts ==
  ASSUME CL!IInv
  PROVE  /\ opts \in Seq(CL!Options) /\ Len(opts) \in Nat /\ DOMAIN opts = 1 .. Len(opts)
         /\ argv \in Seq(CmdWords) /\ Len(argv) \in Nat /\ DOMAIN argv = 1 .. Len(argv)
         /\ parses \in Seq(Calls) /\ Len(parses) \in Nat /\ DOMAIN parses = 1 .. Len(parses)
         /\ argi \in Nat /\ remainingIndex \in Nat \ {0} /\ helpRan \in BOOLEAN
         /\ \A k \in DOMAIN opts : opts[k] \in CL!Options /\ opts[k].numArgs \in Nat \cup {-1}
         /\ \A k \in DOMAIN parses : parses[k] \in Calls
<1>1. /\ opts \in Seq(CL!Options) /\ argv \in Seq(CmdWords) /\ parses \in Seq(Calls)
      /\ argi \in Nat /\ remainingIndex \in Nat \ {0} /\ helpRan \in BOOLEAN
  BY DEF CL!IInv, CL!TypeOK, Calls
<1>2. \A o \in CL!Options : o.numArgs \in Nat \cup {-1}
  <2>1. \A o \in CL!Options : o.numArgs \in NumArgs \cup {0}
    BY DEF CL!Options
  <2>2. \A x \in NumArgs \cup {0} : x \in Nat \cup {-1}
    BY ArgumentsAssumption
  <2> QED
    BY <2>1, <2>2
<1> QED
  BY <1>1, <1>2, LenProperties, ElementOfSeq

LEMMA FirstOfIs ==
  ASSUME NEW T \in SUBSET (Nat \ {0})
  PROVE  IF T = {} THEN CL!FirstOf(T) = 0
         ELSE CL!FirstOf(T) \in T /\ \A l \in T : CL!FirstOf(T) <= l
BY LeastNumber DEF CL!FirstOf

\* A word that means an option begins with a dash.
LEMMA FoundIsOption ==
  ASSUME CL!IInv, NEW word, CL!FindByCommand(word) # 0
  PROVE  CL!IsOption(word) /\ CL!FindByCommand(word) \in DOMAIN opts
<1>1. \A T \in SUBSET DOMAIN opts : CL!FirstOf(T) # 0 => CL!FirstOf(T) \in T
  BY CmdFacts, FirstOfIs
<1>2. CL!IsOption(word)
  BY DEF CL!FindByCommand
<1> DEFINE long == {k \in DOMAIN opts : opts[k].long = SubSeq(word, 3, Len(word))}
           short == {k \in DOMAIN opts : CL!IsPrefix(Tail(word), opts[k].long)}
<1>3. CL!FindByCommand(word) \in {CL!FirstOf(long), CL!FirstOf(short), 0}
  BY <1>2 DEF CL!FindByCommand
<1>4. long \in SUBSET DOMAIN opts /\ short \in SUBSET DOMAIN opts
  OBVIOUS
<1> HIDE DEF long, short
<1> QED
  BY <1>1, <1>2, <1>3, <1>4

\* The arguments behind a word: no options, up to an option or the end.
LEMMA AvailableIs ==
  ASSUME CL!IInv, argi \in DOMAIN argv
  PROVE  /\ CL!Available \in 0 .. Len(argv) - argi
         /\ \A k \in argi + 1 .. argi + CL!Available : ~ CL!IsOption(argv[k])
         /\ argi + CL!Available = Len(argv) \/ CL!IsOption(argv[argi + CL!Available + 1])
<1> DEFINE T == {n \in 0 .. Len(argv) - argi : argi + n = Len(argv) \/ CL!IsOption(argv[argi + n + 1])}
<1>1. argi \in 1 .. Len(argv) /\ Len(argv) \in Nat
  BY CmdFacts
<1>2. Len(argv) - argi \in T /\ T \in SUBSET Nat
  <2>1. Len(argv) - argi \in 0 .. Len(argv) - argi /\ argi + (Len(argv) - argi) = Len(argv)
    BY <1>1
  <2> QED
    BY <2>1
<1>3. PICK m \in T : \A n \in T : m <= n
  BY <1>2, LeastNumber
<1>4. ASSUME NEW k \in argi + 1 .. argi + m PROVE ~ CL!IsOption(argv[k])
  <2>1. k - argi - 1 \in 0 .. Len(argv) - argi /\ k - argi - 1 < m /\ argi + (k - argi - 1) + 1 = k
    BY <1>1, <1>3
  <2>2. k - argi - 1 \notin T
    BY <1>3, <2>1
  <2> QED
    BY <2>1, <2>2
<1>5. /\ m \in 0 .. Len(argv) - argi /\ \A k \in argi + 1 .. argi + m : ~ CL!IsOption(argv[k])
      /\ argi + m = Len(argv) \/ CL!IsOption(argv[argi + m + 1])
  BY <1>3, <1>4
<1> QED
  BY <1>5 DEF CL!Available

\* An option that was served stays served while the options stay.
LEMMA ServedStays ==
  ASSUME CL!IInv, UNCHANGED <<opts, argv>>, NEW n \in DOMAIN argv, CL!Served(n),
         \A k \in DOMAIN parses : k \in DOMAIN parses' /\ parses'[k] = parses[k]
  PROVE  CL!Served(n)'
BY DEF CL!Served, CL!FindByCommand, CL!IsOption, CL!IsLong, CL!FirstOf

LEMMA CmdLineInit == CL!Init => CL!IInv
<1> SUFFICES ASSUME CL!Init PROVE CL!IInv
  OBVIOUS
<1>1. CL!HelpOpt \in CL!Options
  BY DEF CL!HelpOpt, CL!Options
<1>2. <<CL!HelpOpt>> \in Seq(CL!Options)
  BY <1>1
<1>3. CL!TypeOK
  BY <1>2, EmptySeq DEF CL!Init, CL!TypeOK
<1> QED
  BY <1>3, EmptySeq DEF CL!Init, CL!IInv, CL!ArgumentsGoOnce, CL!OptionsServed, CL!Parsing

\* Nothing changes for a command line that is not being parsed when the
\* options change.
LEMMA OptionsChange ==
  ASSUME CL!IInv, argi = 0, parsed = "none", opts' \in Seq(CL!Options),
         UNCHANGED <<helpRan, argv, argi, remainingIndex, parses, parsed>>
  PROVE  CL!IInv'
BY DEF CL!IInv, CL!TypeOK, CL!ArgumentsGoOnce, CL!OptionsServed, CL!Parsing, CL!IsOption

LEMMA StartKeeps ==
  ASSUME CL!IInv, NEW n \in 0 .. MaxArgc, NEW words \in [1 .. n -> CmdWords], CL!Start(words)
  PROVE  CL!IInv'
<1>1. argv' \in Seq(CmdWords) /\ parses' = <<>> /\ argi' = 1 /\ remainingIndex' = 1
  BY IsASeq DEF CL!Start
<1>2. Len(argv') \in Nat
  BY <1>1, LenProperties
<1>3. CL!TypeOK'
  BY <1>1, EmptySeq DEF CL!Start, CL!IInv, CL!TypeOK
<1>4. CL!ArgumentsGoOnce'
  BY <1>1, EmptySeq DEF CL!ArgumentsGoOnce
<1>5. CL!OptionsServed' /\ CL!Parsing'
  BY <1>1, <1>2, EmptySeq DEF CL!Start, CL!OptionsServed, CL!Parsing
<1> QED
  BY <1>3, <1>4, <1>5 DEF CL!IInv

\* One more call of Parse, with words behind those of the calls before.
LEMMA CallGoesOn ==
  ASSUME CL!IInv, argi # 0, UNCHANGED argv, NEW c \in Calls, parses' = Append(parses, c),
         c.first >= remainingIndex, c.first + c.count <= Len(argv) + 1,
         \A n \in c.first .. c.first + c.count - 1 : ~ CL!IsOption(argv[n]),
         c.cmd # 0 => c.first = c.cmd + 1 /\ (c.opt.numArgs # -1 => c.count = c.opt.numArgs)
  PROVE  /\ CL!ArgumentsGoOnce' /\ parses' \in Seq(Calls)
         /\ DOMAIN parses' = DOMAIN parses \cup {Len(parses) + 1} /\ parses'[Len(parses) + 1] = c
         /\ \A k \in DOMAIN parses : k \in DOMAIN parses' /\ parses'[k] = parses[k]
<1>1. /\ parses' \in Seq(Calls) /\ Len(parses) \in Nat /\ DOMAIN parses = 1 .. Len(parses)
      /\ DOMAIN parses' = 1 .. Len(parses) + 1 /\ parses'[Len(parses) + 1] = c
      /\ \A k \in 1 .. Len(parses) : parses'[k] = parses[k]
  BY CmdFacts, AppendFacts
<1>2. \A k \in DOMAIN parses : parses[k].first + parses[k].count <= c.first
  <2>1. ASSUME NEW k \in DOMAIN parses PROVE parses[k].first + parses[k].count <= c.first
    <3>1. parses[k].first \in Nat /\ parses[k].count \in Nat /\ remainingIndex \in Nat /\ c.first \in Nat
      BY CmdFacts DEF Calls
    <3>2. parses[k].first + parses[k].count <= remainingIndex
      BY DEF CL!IInv, CL!Parsing
    <3> QED
      BY <3>1, <3>2
  <2> QED
    BY <2>1
<1>3. \A n : CL!IsOption(argv[n])' = CL!IsOption(argv[n])
  BY DEF CL!IsOption
<1>4. c.first .. c.first + c.count - 1 \subseteq DOMAIN argv
  <2>1. c.first \in Nat /\ c.count \in Nat /\ remainingIndex \in Nat \ {0} /\ Len(argv) \in Nat /\ DOMAIN argv = 1 .. Len(argv)
    BY CmdFacts DEF Calls
  <2> QED
    BY <2>1
<1>5. CL!ArgumentsGoOnce
  BY DEF CL!IInv
<1>6. ASSUME NEW k \in DOMAIN parses'
      PROVE  LET d == parses'[k] range == d.first .. d.first + d.count - 1 IN
             /\ range \subseteq DOMAIN argv
             /\ \A n \in range : ~ CL!IsOption(argv[n])
             /\ d.cmd # 0 => d.first = d.cmd + 1 /\ (d.opt.numArgs # -1 => d.count = d.opt.numArgs)
             /\ \A l \in 1 .. k - 1 : parses'[l].first + parses'[l].count <= d.first
  <2>1. CASE k \in DOMAIN parses
    <3>1. parses'[k] = parses[k] /\ \A l \in 1 .. k - 1 : parses'[l] = parses[l]
      BY <1>1, <2>1
    <3> QED
      BY <1>5, <2>1, <3>1 DEF CL!ArgumentsGoOnce
  <2>2. CASE k = Len(parses) + 1
    <3>1. parses'[k] = c /\ \A l \in 1 .. k - 1 : l \in DOMAIN parses /\ parses'[l] = parses[l]
      BY <1>1, <2>2
    <3> QED
      BY <1>2, <1>4, <3>1
  <2> QED
    BY <1>1, <2>1, <2>2
<1>7. CL!ArgumentsGoOnce'
  BY <1>3, <1>6 DEF CL!ArgumentsGoOnce
<1> QED
  BY <1>1, <1>7

LEMMA OptionKeeps ==
  ASSUME CL!IInv, CL!Option
  PROVE  CL!IInv'
<1> DEFINE found == CL!FindByCommand(argv[argi])
           opt == opts[found]
           n == CL!Taken(opt)
           c == [opt |-> opt, cmd |-> argi, first |-> argi + 1, count |-> n]
           after == argi + n + 1
<1>1. argi \in DOMAIN argv /\ found # 0 /\ UNCHANGED <<opts, argv>>
  BY DEF CL!Option
<1>2. /\ argi \in Nat /\ argi # 0 /\ Len(argv) \in Nat /\ argi <= Len(argv) /\ DOMAIN argv = 1 .. Len(argv)
      /\ remainingIndex \in Nat \ {0} /\ remainingIndex <= argi /\ parsed = "none"
  BY <1>1, CmdFacts DEF CL!IInv, CL!Parsing
<1>3. /\ CL!IsOption(argv[argi]) /\ opt \in CL!Options /\ opt.numArgs \in Nat \cup {-1}
      /\ found \in DOMAIN opts
  BY <1>1, FoundIsOption, CmdFacts
<1>4. /\ CL!Available \in Nat /\ argi + CL!Available <= Len(argv)
      /\ \A k \in argi + 1 .. argi + CL!Available : ~ CL!IsOption(argv[k])
      /\ argi + CL!Available = Len(argv) \/ CL!IsOption(argv[argi + CL!Available + 1])
  BY <1>1, <1>2, AvailableIs
<1>a. PICK av \in Nat : av = CL!Available
  BY <1>4
<1>b. /\ argi + av <= Len(argv)
      /\ \A k \in argi + 1 .. argi + av : ~ CL!IsOption(argv[k])
      /\ argi + av = Len(argv) \/ CL!IsOption(argv[argi + av + 1])
  BY <1>a, <1>4
<1>5. /\ n \in Nat /\ n <= av
      /\ opt.numArgs > av => n = av
      /\ opt.numArgs <= av /\ opt.numArgs # -1 => n = opt.numArgs
  BY <1>3, <1>a DEF CL!Taken
<1>6. after \in Nat /\ argi < after /\ after <= Len(argv) + 1 /\ after <= argi + av + 1
  <2>1. argi + av <= Len(argv) /\ av \in Nat /\ n \in Nat /\ n <= av
    BY <1>a, <1>b, <1>5
  <2> HIDE DEF n
  <2> QED
    BY <2>1, <1>2
<1>7. \A k \in argi + 1 .. after - 1 : ~ CL!IsOption(argv[k])
  <2> HIDE DEF after
  <2>1. ASSUME NEW k \in argi + 1 .. after - 1 PROVE k \in argi + 1 .. argi + av
    BY <1>a, <1>2, <1>6
  <2> QED
    BY <2>1, <1>b
<1>8. \A k : CL!IsOption(argv[k])' = CL!IsOption(argv[k])
  BY <1>1 DEF CL!IsOption
<1>9. \A k \in 1 .. argi - 1 : CL!IsOption(argv[k]) => CL!Served(k)
  BY <1>2 DEF CL!IInv, CL!Parsing
<1>10. CASE opt.numArgs > av
  <2>1. /\ UNCHANGED <<opts, argv, parses, helpRan, parsed>> /\ argi' = after /\ remainingIndex' = after
    BY <1>10, <1>3, <1>a DEF CL!Option
  <2>2. ASSUME NEW k \in 1 .. after - 1, CL!IsOption(argv[k]) PROVE CL!Served(k)'
    <3>1. k \in DOMAIN argv /\ (k \in 1 .. argi - 1 \/ k = argi \/ k \in argi + 1 .. after - 1)
      BY <1>2, <1>6, <2>2
    <3>2. CASE k \in 1 .. argi - 1
      BY <1>1, <1>9, <2>1, <2>2, <3>1, <3>2, ServedStays
    <3>3. CASE k = argi
      <4>1. argi + av + 1 \in argi + 1 .. argi + opt.numArgs
        <5>1. \A x, y, z \in Int : y >= 0 /\ z > y => x + y + 1 \in x + 1 .. x + z
          OBVIOUS
        <5>2. argi \in Int /\ av \in Int /\ opt.numArgs \in Int
          BY <1>a, <1>2, <1>3
        <5>3. av >= 0 /\ opt.numArgs > av
          BY <1>a, <1>10
        <5> QED
          BY ONLY <5>1, <5>2, <5>3
      <4>2. argi + av + 1 > Len(argv) \/ CL!IsOption(argv[argi + av + 1])
        <5>1. argi + av = Len(argv) => argi + av + 1 > Len(argv)
          BY <1>a, <1>2
        <5> QED
          BY <5>1, <1>b
      <4>3. CL!Served(k)
        BY <4>1, <4>2, <3>3 DEF CL!Served
      <4> QED
        BY <1>1, <2>1, <3>1, <4>3, ServedStays
    <3> QED
      BY <1>7, <2>2, <3>1, <3>2, <3>3
  <2>3. CL!TypeOK' /\ CL!ArgumentsGoOnce' /\ CL!OptionsServed'
    <3>1. CL!TypeOK'
      BY <2>1, <1>6, <1>2 DEF CL!IInv, CL!TypeOK
    <3>2. CL!ArgumentsGoOnce'
      BY <2>1, <1>8 DEF CL!IInv, CL!ArgumentsGoOnce
    <3>3. CL!OptionsServed'
      BY <2>1, <1>2 DEF CL!OptionsServed
    <3> QED
      BY <3>1, <3>2, <3>3
  <2>4. \A k \in DOMAIN parses : parses[k].first + parses[k].count <= after
    <3>1. ASSUME NEW k \in DOMAIN parses PROVE parses[k].first + parses[k].count <= after
      <4>1. parses[k].first \in Nat /\ parses[k].count \in Nat
        BY CmdFacts DEF Calls
      <4>2. parses[k].first + parses[k].count <= remainingIndex
        BY <1>2 DEF CL!IInv, CL!Parsing
      <4> QED
        BY <4>1, <4>2, <1>2, <1>6
    <3> QED
      BY <3>1
  <2>5. \A k \in after .. after - 1 : FALSE
    BY <1>6
  <2>6. CL!Parsing'
    BY <1>2, <1>6, <1>8, <2>1, <2>2, <2>4, <2>5 DEF CL!Parsing
  <2> QED
    BY <2>3, <2>6 DEF CL!IInv
<1>11. CASE opt.numArgs <= av
  <2>1. /\ parses' = Append(parses, c)
        /\ helpRan' = (helpRan \/ opt = CL!HelpOpt)
        /\ \/ opt = CL!HelpOpt /\ CL!Return("true")
           \/ argi' = after /\ remainingIndex' = after /\ UNCHANGED parsed
           \/ CL!Return("false")
        /\ remainingIndex' \in {remainingIndex, after}
    BY <1>11, <1>3, <1>a DEF CL!Option
  <2>2. /\ c \in Calls /\ c.opt = opt /\ c.cmd = argi /\ c.first = argi + 1 /\ c.count = n
    BY <1>2, <1>3, <1>5 DEF Calls
  <2>3. /\ c.first >= remainingIndex /\ c.first + c.count <= Len(argv) + 1
        /\ c.first .. c.first + c.count - 1 = argi + 1 .. after - 1
        /\ c.first + c.count = after
    BY <1>2, <1>5, <1>6, <2>2
  <2>4. c.cmd # 0 => c.first = c.cmd + 1 /\ (c.opt.numArgs # -1 => c.count = c.opt.numArgs)
    BY <2>2, <1>5, <1>11
  <2>5. /\ CL!ArgumentsGoOnce' /\ parses' \in Seq(Calls)
        /\ DOMAIN parses' = DOMAIN parses \cup {Len(parses) + 1} /\ parses'[Len(parses) + 1] = c
        /\ \A k \in DOMAIN parses : k \in DOMAIN parses' /\ parses'[k] = parses[k]
    <3>1. \A k \in c.first .. c.first + c.count - 1 : ~ CL!IsOption(argv[k])
      BY <1>7, <2>3
    <3> HIDE DEF c
    <3> QED
      BY <1>1, <1>2, <2>1, <2>2, <2>3, <2>4, <3>1, CallGoesOn
  <2>6. ASSUME NEW k \in 1 .. after - 1, CL!IsOption(argv[k]) PROVE CL!Served(k)'
    <3>1. k \in DOMAIN argv /\ (k \in 1 .. argi - 1 \/ k = argi \/ k \in argi + 1 .. after - 1)
      BY <1>2, <1>6, <2>6
    <3>2. CASE k \in 1 .. argi - 1
      BY <1>1, <1>9, <2>5, <2>6, <3>1, <3>2, ServedStays
    <3>3. CASE k = argi
      BY <2>2, <2>5, <3>3 DEF CL!Served
    <3> QED
      BY <1>7, <2>6, <3>1, <3>2, <3>3
  <2>7. CL!TypeOK'
    <3>1. parsed' \in {"none", "true", "false"} /\ argi' \in Nat /\ remainingIndex' \in Nat \ {0}
      BY <2>1, <1>2, <1>6 DEF CL!Return
    <3>2. helpRan' \in BOOLEAN
      BY <2>1
    <3> QED
      BY <1>1, <2>5, <3>1, <3>2 DEF CL!IInv, CL!TypeOK, Calls
  <2>8. CL!OptionsServed'
    <3>1. parsed' = "true" => helpRan'
      BY <2>1, <1>2 DEF CL!Return
    <3> QED
      BY <3>1 DEF CL!OptionsServed
  <2>9. CL!Parsing'
    <3>1. CASE argi' = 0
      BY <3>1 DEF CL!Parsing
    <3>2. CASE argi' # 0
      <4>1. argi' = after /\ remainingIndex' = after /\ parsed' = "none"
        BY <2>1, <1>2, <3>2 DEF CL!Return
      <4>2. \A k \in DOMAIN parses' : parses'[k].first + parses'[k].count <= after
        <5>1. ASSUME NEW k \in DOMAIN parses PROVE parses[k].first + parses[k].count <= after
          <6>1. parses[k].first \in Nat /\ parses[k].count \in Nat
            BY CmdFacts DEF Calls
          <6>2. parses[k].first + parses[k].count <= remainingIndex
            BY <1>2 DEF CL!IInv, CL!Parsing
          <6> QED
            BY <6>1, <6>2, <1>2, <1>6
        <5>2. c.first + c.count <= after
          BY <2>3, <1>6
        <5> HIDE DEF c
        <5> QED
          BY <5>1, <5>2, <2>5
      <4>3. \A k \in after .. after - 1 : FALSE
        BY <1>6
      <4> QED
        BY <1>1, <1>6, <1>8, <2>6, <4>1, <4>2, <4>3 DEF CL!Parsing
    <3> QED
      BY <3>1, <3>2
  <2> QED
    BY <2>5, <2>7, <2>8, <2>9 DEF CL!IInv
<1> QED
  BY <1>3, <1>b, <1>10, <1>11

LEMMA OtherKeeps ==
  ASSUME CL!IInv, CL!Unrecognized \/ CL!Other
  PROVE  CL!IInv'
<1>1. argi \in DOMAIN argv /\ UNCHANGED <<opts, helpRan, argv, remainingIndex, parses>>
  BY DEF CL!Unrecognized, CL!Other
<1>2. /\ argi \in Nat /\ argi # 0 /\ Len(argv) \in Nat /\ argi <= Len(argv) /\ DOMAIN argv = 1 .. Len(argv)
      /\ remainingIndex \in Nat \ {0} /\ remainingIndex <= argi /\ parsed = "none"
  BY <1>1, CmdFacts DEF CL!IInv, CL!Parsing
<1>3. \A k : CL!IsOption(argv[k])' = CL!IsOption(argv[k])
  BY <1>1 DEF CL!IsOption
<1>4. CL!ArgumentsGoOnce'
  BY <1>1, <1>3 DEF CL!IInv, CL!ArgumentsGoOnce
<1>5. CASE CL!Unrecognized
  <2>1. argi' = 0 /\ parsed' = "false"
    BY <1>5 DEF CL!Unrecognized, CL!Return
  <2>2. CL!TypeOK'
    BY <1>1, <2>1 DEF CL!IInv, CL!TypeOK
  <2> QED
    BY <1>4, <2>1, <2>2 DEF CL!IInv, CL!OptionsServed, CL!Parsing
<1>6. CASE CL!Other
  <2>1. argi' = argi + 1 /\ parsed' = parsed /\ ~ CL!IsOption(argv[argi])
    BY <1>6 DEF CL!Other
  <2>2. CL!TypeOK'
    BY <1>1, <1>2, <2>1 DEF CL!IInv, CL!TypeOK
  <2>3. CL!OptionsServed'
    BY <1>2, <2>1 DEF CL!OptionsServed
  <2>4. ASSUME NEW k \in 1 .. argi, CL!IsOption(argv[k]) PROVE CL!Served(k)'
    <3>1. k \in 1 .. argi - 1 /\ k \in DOMAIN argv
      BY <1>2, <2>1, <2>4
    <3>2. CL!Served(k)
      BY <1>2, <2>4, <3>1 DEF CL!IInv, CL!Parsing
    <3> QED
      BY <1>1, <3>1, <3>2, ServedStays
  <2>5. \A k \in remainingIndex .. argi : ~ CL!IsOption(argv[k])
    <3>1. \A k \in remainingIndex .. argi - 1 : ~ CL!IsOption(argv[k])
      BY <1>2 DEF CL!IInv, CL!Parsing
    <3> QED
      BY <1>2, <2>1, <3>1
  <2>6. argi' <= Len(argv) + 1 /\ remainingIndex <= argi' /\ argi' - 1 = argi
    BY <1>2, <2>1
  <2>7. \A k \in DOMAIN parses : parses[k].first + parses[k].count <= remainingIndex
    BY <1>2 DEF CL!IInv, CL!Parsing
  <2>8. CL!Parsing'
    BY <1>1, <1>2, <1>3, <2>1, <2>4, <2>5, <2>6, <2>7 DEF CL!Parsing
  <2> QED
    BY <1>4, <2>2, <2>3, <2>8 DEF CL!IInv
<1> QED
  BY <1>5, <1>6

LEMMA RestKeeps ==
  ASSUME CL!IInv, CL!Rest
  PROVE  CL!IInv'
<1>1. argi > Len(argv) /\ UNCHANGED <<opts, helpRan, argv, remainingIndex>>
  BY DEF CL!Rest
<1>2. /\ argi \in Nat /\ Len(argv) \in Nat /\ argi = Len(argv) + 1 /\ argi # 0 /\ DOMAIN argv = 1 .. Len(argv)
      /\ remainingIndex \in Nat \ {0} /\ remainingIndex <= argi /\ parsed = "none"
  <2>1. argi \in Nat /\ Len(argv) \in Nat /\ argi # 0
    BY <1>1, CmdFacts
  <2> QED
    BY <1>1, <2>1, CmdFacts DEF CL!IInv, CL!Parsing
<1>3. \A k : CL!IsOption(argv[k])' = CL!IsOption(argv[k])
  BY <1>1 DEF CL!IsOption
<1>4. \A k \in DOMAIN argv : CL!IsOption(argv[k]) => CL!Served(k)
  BY <1>2 DEF CL!IInv, CL!Parsing
<1> DEFINE rest == CL!FirstOf({k \in DOMAIN opts : opts[k].numArgs = -1})
           n == Len(argv) - remainingIndex + 1
           c == [opt |-> opts[rest], cmd |-> 0, first |-> remainingIndex, count |-> n]
<1>5. /\ CL!ArgumentsGoOnce' /\ parses' \in Seq(Calls) /\ argi' = 0 /\ parsed' \in {"true", "false"}
      /\ \A k \in DOMAIN parses : k \in DOMAIN parses' /\ parses'[k] = parses[k]
  <2>1. CASE rest # 0 /\ remainingIndex <= Len(argv)
    <3>1. parses' = Append(parses, c) /\ argi' = 0 /\ parsed' \in {"true", "false"}
      BY <2>1 DEF CL!Rest, CL!Return
    <3>2. rest \in DOMAIN opts
      <4>1. {k \in DOMAIN opts : opts[k].numArgs = -1} \in SUBSET (Nat \ {0})
        BY CmdFacts
      <4> QED
        BY <2>1, <4>1, FirstOfIs
    <3>3. c \in Calls /\ c.cmd = 0 /\ c.first = remainingIndex /\ c.count = n /\ n \in Nat
      BY <1>2, <2>1, <3>2, CmdFacts DEF Calls
    <3>4. c.first + c.count <= Len(argv) + 1 /\ c.first >= remainingIndex
          /\ c.first .. c.first + c.count - 1 = remainingIndex .. argi - 1
      BY <1>2, <3>3
    <3>5. \A k \in c.first .. c.first + c.count - 1 : ~ CL!IsOption(argv[k])
      BY <1>2, <3>4 DEF CL!IInv, CL!Parsing
    <3> HIDE DEF c
    <3> QED
      BY <1>1, <1>2, <3>1, <3>3, <3>4, <3>5, CallGoesOn
  <2>2. CASE ~ (rest # 0 /\ remainingIndex <= Len(argv))
    <3>1. parses' = parses /\ argi' = 0 /\ parsed' = "true"
      BY <2>2 DEF CL!Rest, CL!Return
    <3>2. CL!ArgumentsGoOnce'
      BY <1>1, <1>3, <3>1 DEF CL!IInv, CL!ArgumentsGoOnce
    <3> QED
      BY <3>1, <3>2, CmdFacts
  <2> QED
    BY <2>1, <2>2
<1>6. CL!TypeOK'
  BY <1>1, <1>5 DEF CL!IInv, CL!TypeOK, Calls
<1>7. ASSUME NEW k \in DOMAIN argv, CL!IsOption(argv[k]) PROVE CL!Served(k)'
  BY <1>1, <1>4, <1>5, <1>7, ServedStays
<1>8. CL!OptionsServed'
  BY <1>1, <1>3, <1>7 DEF CL!OptionsServed
<1> QED
  BY <1>5, <1>6, <1>8 DEF CL!IInv, CL!Parsing

LEMMA CmdLineNext == CL!IInv /\ CL!Next => CL!IInv'
<1> SUFFICES ASSUME CL!IInv, CL!Next PROVE CL!IInv'
  OBVIOUS
<1>1. CASE \E name \in OptionNames, n \in NumArgs : CL!AppendCommand([long |-> name, numArgs |-> n])
  <2>1. PICK name \in OptionNames, n \in NumArgs : CL!AppendCommand([long |-> name, numArgs |-> n])
    BY <1>1
  <2>2. [long |-> name, numArgs |-> n] \in CL!Options
    BY DEF CL!Options
  <2>3. <<[long |-> name, numArgs |-> n]>> \in Seq(CL!Options)
    BY <2>2
  <2>4. opts' \in Seq(CL!Options)
    BY <2>1, <2>3, CmdFacts, ConcatProperties DEF CL!AppendCommand
  <2> QED
    BY <2>1, <2>4, OptionsChange DEF CL!AppendCommand
<1>2. CASE CL!ClearCommands
  <2>1. opts' \in Seq(CL!Options)
    BY <1>2, EmptySeq DEF CL!ClearCommands
  <2> QED
    BY <1>2, <2>1, OptionsChange DEF CL!ClearCommands
<1>3. CASE \E n \in 0 .. MaxArgc : \E words \in [1 .. n -> CmdWords] : CL!Start(words)
  BY <1>3, StartKeeps
<1> QED
  BY <1>1, <1>2, <1>3, OptionKeeps, OtherKeeps, RestKeeps DEF CL!Next

\* Between two turns every option before the index is served and no word
\* belongs to two calls, for any options and words (cmdhelper.cpp).
THEOREM ArgumentsAreServed == AllSpec => []CL!IInv
<1>1. AllInit => CL!IInv
  BY CmdLineInit DEF AllInit
<1>2. CL!IInv /\ [AllNext]_allVars => CL!IInv'
  <2> SUFFICES ASSUME CL!IInv, [AllNext]_allVars PROVE CL!IInv'
    OBVIOUS
  <2>1. CASE CL!Next
    BY <2>1, CmdLineNext
  <2>2. CASE UNCHANGED argumentVars
    <3>1. CL!TypeOK'
      BY <2>2 DEF argumentVars, CL!IInv, CL!TypeOK
    <3>2. CL!ArgumentsGoOnce'
      BY <2>2 DEF argumentVars, CL!IInv, CL!ArgumentsGoOnce, CL!IsOption
    <3>3. \A n : CL!Served(n)' <=> CL!Served(n)
      BY <2>2 DEF argumentVars, CL!Served, CL!FindByCommand, CL!IsOption
    <3>4. CL!OptionsServed' /\ CL!Parsing'
      BY <2>2, <3>3 DEF argumentVars, CL!IInv, CL!OptionsServed, CL!Parsing, CL!IsOption
    <3> QED
      BY <3>1, <3>2, <3>4 DEF CL!IInv
  <2> QED
    BY <2>1, <2>2 DEF AllNext, allVars, dataVars
<1> QED
  BY <1>1, <1>2, PTL DEF AllSpec

\* What the run resources checks of command lines (cmdhelper.cpp).
THEOREM WordsStayServed == AllSpec => []WordsAreServed
<1>1. CL!IInv => WordsAreServed
  BY DEF CL!IInv, WordsAreServed
<1> QED
  BY <1>1, ArgumentsAreServed, PTL

-----------------------------------------------------------------------------
(* HashMap: the tables.                                                    *)

\* Going on behind a remainder goes on behind the number.
LEMMA RemainderGoesOn ==
  ASSUME NEW n \in Nat \ {0}, NEW x \in Nat, NEW p \in 0 .. n - 1
  PROVE  /\ x % n \in 0 .. n - 1
         /\ (x + p) % n = IF (x % n) + p < n THEN (x % n) + p ELSE (x % n) + p - n
         /\ x < n => x % n = x
<1> DEFINE q == x \div n
           r == x % n
<1>1. x = n * q + r /\ q \in Int /\ r \in 0 .. n - 1
  OBVIOUS
<1>2. \A d \in Int : (d >= 1 => n * d >= n) /\ (d <= -1 => n * d <= -n)
  OBVIOUS
<1>3. ASSUME NEW y \in Nat, NEW c \in Int, NEW s \in 0 .. n - 1, y = n * c + s PROVE y % n = s
  <2>1. y = n * (y \div n) + (y % n) /\ y \div n \in Int /\ y % n \in 0 .. n - 1
    OBVIOUS
  <2>2. n * ((y \div n) - c) = s - (y % n)
    BY <1>3, <2>1
  <2> DEFINE d == (y \div n) - c
             e == s - (y % n)
  <2>3. d \in Int /\ e \in Int /\ -n < e /\ e < n /\ n * d = e
    BY <2>1, <2>2
  <2> HIDE DEF d, e
  <2>4. d = 0
    BY <1>2, <2>3
  <2>5. e = 0
    BY <2>3, <2>4
  <2> QED
    BY <2>1, <2>5 DEF e
<1>4. CASE r + p < n
  <2>1. x + p = n * q + (r + p) /\ r + p \in 0 .. n - 1
    BY <1>1, <1>4
  <2>2. x + p \in Nat
    OBVIOUS
  <2>3. (x + p) % n = r + p
    BY <1>1, <1>3, <2>1, <2>2
  <2> QED
    BY <1>1, <1>4, <2>3
<1>5. CASE r + p >= n
  <2>1. x + p = n * (q + 1) + (r + p - n) /\ r + p - n \in 0 .. n - 1 /\ q + 1 \in Int
    BY <1>1, <1>5
  <2>2. x + p \in Nat
    OBVIOUS
  <2>3. (x + p) % n = r + p - n
    BY <1>3, <2>1, <2>2
  <2> QED
    BY <1>1, <1>5, <2>3
<1>6. x < n => x % n = x
  <2>1. x < n => x = n * 0 + x /\ x \in 0 .. n - 1 /\ 0 \in Int
    OBVIOUS
  <2> QED
    BY <1>3, <2>1
<1> QED
  BY <1>1, <1>4, <1>5, <1>6

IsTable(t) == t.size \in Nat /\ t.size >= 3 /\ t \in HM!Tables(t.size)
SlotsOf(t) == 0 .. t.size - 1

\* What there is in a table.
LEMMA TableIs ==
  ASSUME NEW t, IsTable(t)
  PROVE  /\ t.size \in Nat \ {0} /\ t.size >= 3 /\ t.num \in Nat
         /\ t.pairs \in [SlotsOf(t) -> HM!Pairs \cup {None}]
         /\ t = [size |-> t.size, pairs |-> t.pairs, num |-> t.num]
         /\ HM!Used(t) \in SUBSET SlotsOf(t) /\ HM!Free(t) = {i \in SlotsOf(t) : t.pairs[i] = None}
         /\ \A i \in HM!Used(t) : t.pairs[i] \in HM!Pairs /\ t.pairs[i] # None
         /\ \A i \in HM!Used(t) : t.pairs[i].key \in HashKeys
         /\ \A i \in SlotsOf(t) \ HM!Used(t) : t.pairs[i] = None
         /\ None \notin HM!Pairs
<1>1. t.size \in Nat /\ t.size >= 3 /\ t \in [size : {t.size}, pairs : [SlotsOf(t) -> HM!Pairs \cup {None}], num : Nat]
  BY DEF IsTable, SlotsOf, HM!Tables
<1>2. /\ t.num \in Nat /\ t.pairs \in [SlotsOf(t) -> HM!Pairs \cup {None}]
      /\ t = [size |-> t.size, pairs |-> t.pairs, num |-> t.num]
  BY <1>1
<1>3. None \notin HM!Pairs
  BY TablesAssumption DEF HM!Pairs
<1>4. HM!Used(t) = {i \in SlotsOf(t) : t.pairs[i] # None}
  BY DEF HM!Used, SlotsOf
<1>5. HM!Free(t) = SlotsOf(t) \ HM!Used(t)
  BY DEF HM!Free, SlotsOf
<1>6. \A i \in HM!Used(t) : t.pairs[i] \in HM!Pairs
  BY <1>2, <1>4
<1>7. \A q \in HM!Pairs : q.key \in HashKeys
  BY DEF HM!Pairs
<1> QED
  BY <1>1, <1>2, <1>3, <1>4, <1>5, <1>6, <1>7

\* Distances around a table.
LEMMA DistanceIs ==
  ASSUME NEW t, IsTable(t), NEW i \in SlotsOf(t)
  PROVE  /\ \A j \in SlotsOf(t) : HM!Distance(t, i, j) \in SlotsOf(t)
         /\ \A j, l \in SlotsOf(t) : HM!Distance(t, i, j) = HM!Distance(t, i, l) => j = l
BY DEF IsTable, SlotsOf, HM!Distance

HomeOf(t, k) == Hash[k] % t.size

\* A search looks at the slots in the order of their distances.
LEMMA AtIs ==
  ASSUME NEW t, IsTable(t), NEW k \in HashKeys
  PROVE  /\ HomeOf(t, k) \in SlotsOf(t)
         /\ \A p \in SlotsOf(t) : /\ HM!At(t, k, p) \in SlotsOf(t)
                                  /\ HM!Distance(t, HomeOf(t, k), HM!At(t, k, p)) = p
         /\ \A i \in SlotsOf(t) : HM!At(t, k, HM!Distance(t, HomeOf(t, k), i)) = i
<1>1. t.size \in Nat \ {0} /\ Hash[k] \in Nat
  BY TablesAssumption DEF IsTable
<1>2. HomeOf(t, k) \in SlotsOf(t)
  <2>1. 0 \in 0 .. t.size - 1
    BY <1>1
  <2> QED
    BY <1>1, <2>1, RemainderGoesOn DEF HomeOf, SlotsOf
<1>3. \A p \in SlotsOf(t) : HM!At(t, k, p) = IF HomeOf(t, k) + p < t.size THEN HomeOf(t, k) + p
                                             ELSE HomeOf(t, k) + p - t.size
  BY <1>1, RemainderGoesOn DEF HomeOf, SlotsOf, HM!At
<1> DEFINE h == HomeOf(t, k)
<1> HIDE DEF h
<1>4. \A p \in SlotsOf(t) : HM!At(t, k, p) \in SlotsOf(t) /\ HM!Distance(t, h, HM!At(t, k, p)) = p
  <2> SUFFICES ASSUME NEW p \in SlotsOf(t) PROVE HM!At(t, k, p) \in SlotsOf(t) /\ HM!Distance(t, h, HM!At(t, k, p)) = p
    OBVIOUS
  <2>1. h \in SlotsOf(t) /\ HM!At(t, k, p) = IF h + p < t.size THEN h + p ELSE h + p - t.size
    BY <1>2, <1>3 DEF h
  <2> QED
    BY <1>1, <2>1 DEF SlotsOf, HM!Distance
<1>5. \A i \in SlotsOf(t) : HM!At(t, k, HM!Distance(t, h, i)) = i
  <2> SUFFICES ASSUME NEW i \in SlotsOf(t) PROVE HM!At(t, k, HM!Distance(t, h, i)) = i
    OBVIOUS
  <2>1. h \in SlotsOf(t)
    BY <1>2 DEF h
  <2>2. PICK p \in SlotsOf(t) : p = HM!Distance(t, h, i)
    BY <2>1, DistanceIs
  <2>3. HM!At(t, k, p) = IF h + p < t.size THEN h + p ELSE h + p - t.size
    BY <1>3, <2>2 DEF h
  <2> QED
    BY <1>1, <2>1, <2>2, <2>3 DEF SlotsOf, HM!Distance
<1> QED
  BY <1>2, <1>4, <1>5 DEF h

\* A search ends at the nearest slot that is free or has the key.
LEMMA ProbeIs ==
  ASSUME NEW t, IsTable(t), NEW k \in HashKeys
  PROVE  LET E == {i \in SlotsOf(t) : HM!Ends(t, k, i)} IN
         IF E = {} THEN HM!Probe(t, k) = None
         ELSE /\ HM!Probe(t, k) \in E
              /\ \A i \in E : HM!Distance(t, HomeOf(t, k), HM!Probe(t, k)) <= HM!Distance(t, HomeOf(t, k), i)
<1> DEFINE E == {i \in SlotsOf(t) : HM!Ends(t, k, i)}
           P == {p \in SlotsOf(t) : HM!Ends(t, k, HM!At(t, k, p))}
<1>1. HM!Probe(t, k) = IF P = {} THEN None ELSE HM!At(t, k, HM!MinOf(P))
  BY DEF HM!Probe, SlotsOf
<1>2. \A i \in E : HM!Distance(t, HomeOf(t, k), i) \in P
  BY AtIs, DistanceIs
<1>3. \A p \in P : HM!At(t, k, p) \in E /\ HM!Distance(t, HomeOf(t, k), HM!At(t, k, p)) = p
  BY AtIs
<1>4. P \in SUBSET Nat
  BY DEF SlotsOf
<1> HIDE DEF E, P
<1>5. P # {} => HM!MinOf(P) \in P /\ \A p \in P : HM!MinOf(P) <= p
  BY <1>4, LeastNumber DEF HM!MinOf
<1>6. CASE E = {}
  BY <1>1, <1>3, <1>6 DEF E
<1>7. CASE E # {}
  <2>1. P # {}
    BY <1>2, <1>7
  <2> QED
    BY <1>1, <1>2, <1>3, <1>5, <1>7, <2>1 DEF E
<1> QED
  BY <1>6, <1>7 DEF E

\* HashMap's Cardinality is that of the lemmas.
LEMMA TableCount == \A X : HM!Cardinality(X) = Cardinality(X)
BY DEF HM!Cardinality, Cardinality

LEMMA SoundIs ==
  ASSUME NEW t, IsTable(t), HM!Sound(t)
  PROVE  /\ IsFiniteSet(HM!Used(t)) /\ t.num = Cardinality(HM!Used(t)) /\ 2 * (t.num - 1) <= t.size
         /\ \A i, j \in HM!Used(t) : t.pairs[i].key = t.pairs[j].key => i = j
         /\ t.num < t.size /\ HM!Free(t) # {}
         /\ IsFiniteSet(HM!Contents(t)) /\ Cardinality(HM!Contents(t)) = t.num
<1>1. /\ t.num = Cardinality(HM!Used(t)) /\ 2 * (t.num - 1) <= t.size
      /\ \A i, j \in HM!Used(t) : t.pairs[i].key = t.pairs[j].key => i = j
  BY TableCount DEF HM!Sound
<1>2. IsFiniteSet(SlotsOf(t)) /\ Cardinality(SlotsOf(t)) = t.size
  BY TableIs, FS_Interval DEF SlotsOf
<1>3. IsFiniteSet(HM!Used(t))
  BY <1>2, TableIs, FS_Subset
<1>4. t.num < t.size
  BY <1>1, TableIs
<1>5. HM!Free(t) # {}
  <2>1. CASE HM!Free(t) = {}
    <3>1. HM!Used(t) = SlotsOf(t)
      BY <2>1, TableIs
    <3> QED
      BY <1>1, <1>2, <1>4, <3>1, TableIs
  <2> QED
    BY <2>1
<1>6. IsFiniteSet(HM!Contents(t)) /\ Cardinality(HM!Contents(t)) = t.num
  <2> DEFINE f == [i \in HM!Used(t) |-> t.pairs[i]]
  <2>1. f \in Surjection(HM!Used(t), HM!Contents(t))
    BY DEF Surjection, HM!Contents
  <2>2. f \in Injection(HM!Used(t), HM!Contents(t))
    BY <1>1, <2>1 DEF Injection, Surjection, IsInjective
  <2>3. f \in Bijection(HM!Used(t), HM!Contents(t))
    BY <2>1, <2>2 DEF Bijection
  <2> HIDE DEF f
  <2>4. ExistsBijection(HM!Used(t), HM!Contents(t))
    BY <2>3 DEF ExistsBijection
  <2> QED
    BY <1>1, <1>3, <2>1, <2>4, FS_Surjection, FS_Bijection
<1> QED
  BY <1>1, <1>3, <1>4, <1>5, <1>6

LEMMA EmptyIs ==
  ASSUME NEW n \in Nat, n >= 3
  PROVE  /\ IsTable(HM!Empty(n)) /\ HM!Empty(n).size = n /\ HM!Empty(n).num = 0
         /\ HM!Used(HM!Empty(n)) = {} /\ HM!Sound(HM!Empty(n)) /\ HM!Settled(HM!Empty(n))
         /\ HM!Contents(HM!Empty(n)) = {}
<1> DEFINE t == HM!Empty(n)
<1>1. t.size = n /\ t.num = 0 /\ t.pairs = [i \in 0 .. n - 1 |-> None]
  BY DEF HM!Empty
<1>2. IsTable(t)
  BY DEF IsTable, HM!Empty, HM!Tables
<1>3. HM!Used(t) = {}
  BY <1>1 DEF HM!Used
<1> HIDE DEF t
<1>4. HM!Sound(t)
  BY <1>1, <1>3, TableCount, FS_EmptySet DEF HM!Sound
<1> QED
  BY <1>1, <1>2, <1>3, <1>4 DEF t, HM!Settled, HM!Contents

\* A key is in a table once.
LEMMA OneOfAKey ==
  ASSUME NEW t, IsTable(t), HM!Sound(t), NEW q \in HM!Contents(t), NEW r \in HM!Contents(t), q.key = r.key
  PROVE  q = r
<1>1. PICK i \in HM!Used(t) : q = t.pairs[i]
  BY DEF HM!Contents
<1>2. PICK j \in HM!Used(t) : r = t.pairs[j]
  BY DEF HM!Contents
<1> QED
  BY <1>1, <1>2, SoundIs

LEMMA StoreIs ==
  ASSUME NEW t, IsTable(t), HM!Sound(t), 2 * t.num <= t.size, NEW k \in HashKeys, NEW v \in HashValues,
         NEW i \in SlotsOf(t), i = HM!Probe(t, k), HM!Ends(t, k, i),
         t.pairs[i] = None => \A j \in HM!Used(t) : t.pairs[j].key # k
  PROVE  LET u == HM!Store(t, k, v) IN
         /\ IsTable(u) /\ u.size = t.size /\ HM!Sound(u)
         /\ HM!Used(u) = HM!Used(t) \cup {i} /\ HM!Free(u) = HM!Free(t) \ {i}
         /\ u.pairs[i] = HM!Pair(k, v) /\ \A j \in SlotsOf(t) \ {i} : u.pairs[j] = t.pairs[j]
         /\ HM!Contents(u) = HM!With(HM!Contents(t), HM!Pair(k, v))
<1> DEFINE u == HM!Store(t, k, v)
           new == HM!Pair(k, v)
<1>1. /\ t.size \in Nat \ {0} /\ t.size >= 3 /\ t.num \in Nat /\ t.pairs \in [SlotsOf(t) -> HM!Pairs \cup {None}]
      /\ t = [size |-> t.size, pairs |-> t.pairs, num |-> t.num]
  BY TableIs
<1>2. new \in HM!Pairs /\ new # None /\ new.key = k /\ new.value = v
  BY TablesAssumption DEF HM!Pair, HM!Pairs
<1>3. u = [size |-> t.size, pairs |-> [t.pairs EXCEPT ![i] = new],
           num |-> IF t.pairs[i] = None THEN t.num + 1 ELSE t.num]
  BY DEF HM!Store
<1>4. /\ u.size = t.size /\ u.num = (IF t.pairs[i] = None THEN t.num + 1 ELSE t.num)
      /\ u.pairs = [t.pairs EXCEPT ![i] = new]
  BY <1>3
<1>5. u.pairs \in [SlotsOf(t) -> HM!Pairs \cup {None}] /\ u.pairs[i] = new
      /\ \A j \in SlotsOf(t) \ {i} : u.pairs[j] = t.pairs[j]
  <2> HIDE DEF new, u
  <2> QED
    BY <1>1, <1>2, <1>4
<1>6. IsTable(u)
  <2>1. u \in [size : {t.size}, pairs : [0 .. t.size - 1 -> HM!Pairs \cup {None}], num : Nat]
    BY <1>1, <1>3, <1>4, <1>5 DEF SlotsOf
  <2> HIDE DEF u
  <2> QED
    BY <1>1, <1>4, <2>1 DEF IsTable, HM!Tables
<1> HIDE DEF u, new
<1>7. HM!Used(u) = HM!Used(t) \cup {i}
  <2>1. \A j : j \in HM!Used(t) <=> j \in SlotsOf(t) /\ t.pairs[j] # None
    BY DEF HM!Used, SlotsOf
  <2>2. \A j : j \in HM!Used(u) <=> j \in SlotsOf(t) /\ u.pairs[j] # None
    BY <1>4 DEF HM!Used, SlotsOf
  <2> QED
    BY <1>2, <1>5, <2>1, <2>2
<1>8. HM!Free(u) = HM!Free(t) \ {i}
  BY <1>4, <1>7 DEF HM!Free
<1>9. \A j \in HM!Used(t) : t.pairs[j].key = k <=> j = i /\ t.pairs[i] # None
  <2>1. \A j \in HM!Used(t) : t.pairs[j] # None
    BY TableIs
  <2>2. t.pairs[i] # None => i \in HM!Used(t) /\ t.pairs[i].key = k
    BY DEF HM!Ends, HM!Used, SlotsOf
  <2> QED
    BY <2>1, <2>2, SoundIs
<1>10. HM!Sound(u)
  <2>1. u.num = Cardinality(HM!Used(u))
    <3>1. i \in HM!Used(t) <=> t.pairs[i] # None
      BY DEF HM!Used, SlotsOf
    <3>2. t.num = Cardinality(HM!Used(t)) /\ IsFiniteSet(HM!Used(t))
      BY SoundIs
    <3> QED
      BY <1>4, <1>7, <3>1, <3>2, FS_AddElement
  <2>2. 2 * (u.num - 1) <= u.size
    BY <1>1, <1>4
  <2>3. \A j, l \in HM!Used(u) : u.pairs[j].key = u.pairs[l].key => j = l
    <3>1. \A j \in HM!Used(t) \ {i} : u.pairs[j].key = t.pairs[j].key /\ t.pairs[j].key # k
      BY <1>5, <1>9, TableIs
    <3>2. u.pairs[i].key = k
      BY <1>2, <1>5
    <3> QED
      BY <1>7, <3>1, <3>2, SoundIs
  <2> QED
    BY <1>1, <1>4, <2>1, <2>2, <2>3, TableCount DEF HM!Sound
<1>11. HM!Contents(u) = HM!With(HM!Contents(t), new)
  <2>1. HM!With(HM!Contents(t), new) = {q \in HM!Contents(t) : q.key # k} \cup {new}
    BY <1>2 DEF HM!With
  <2>2. \A q : q \in HM!Contents(u) <=> q = new \/ \E j \in HM!Used(t) \ {i} : q = t.pairs[j]
    BY <1>5, <1>7, TableIs DEF HM!Contents
  <2>3. \A q : q \in HM!Contents(t) /\ q.key # k <=> \E j \in HM!Used(t) \ {i} : q = t.pairs[j]
    <3>1. ASSUME NEW q, q \in HM!Contents(t), q.key # k PROVE \E j \in HM!Used(t) \ {i} : q = t.pairs[j]
      <4>1. PICK j \in HM!Used(t) : q = t.pairs[j]
        BY <3>1 DEF HM!Contents
      <4>2. j # i
        BY <1>9, <3>1, <4>1, TableIs
      <4> QED
        BY <4>1, <4>2
    <3>2. ASSUME NEW j \in HM!Used(t) \ {i} PROVE t.pairs[j] \in HM!Contents(t) /\ t.pairs[j].key # k
      BY <1>9 DEF HM!Contents
    <3> QED
      BY <3>1, <3>2
  <2> QED
    BY <2>1, <2>2, <2>3
<1> QED
  BY <1>4, <1>5, <1>6, <1>7, <1>8, <1>10, <1>11 DEF u, new

LEMMA RemovedIs ==
  ASSUME NEW t, IsTable(t), HM!Sound(t), NEW i \in HM!Used(t)
  PROVE  LET u == HM!Removed(t, i) IN
         /\ IsTable(u) /\ u.size = t.size /\ u.num = t.num - 1 /\ HM!Sound(u) /\ 2 * u.num <= u.size
         /\ HM!Used(u) = HM!Used(t) \ {i} /\ HM!Free(u) = HM!Free(t) \cup {i}
         /\ \A j \in SlotsOf(t) \ {i} : u.pairs[j] = t.pairs[j]
         /\ HM!Contents(u) = HM!Contents(t) \ {t.pairs[i]}
<1> DEFINE u == HM!Removed(t, i)
<1>1. /\ t.size \in Nat \ {0} /\ t.size >= 3 /\ t.num \in Nat /\ t.pairs \in [SlotsOf(t) -> HM!Pairs \cup {None}]
      /\ t = [size |-> t.size, pairs |-> t.pairs, num |-> t.num] /\ i \in SlotsOf(t)
  BY TableIs
<1>2. u = [size |-> t.size, pairs |-> [t.pairs EXCEPT ![i] = None], num |-> t.num - 1]
  BY DEF HM!Removed
<1>3. u.size = t.size /\ u.num = t.num - 1 /\ u.pairs = [t.pairs EXCEPT ![i] = None]
  BY <1>2
<1>4. u.pairs \in [SlotsOf(t) -> HM!Pairs \cup {None}] /\ u.pairs[i] = None
      /\ \A j \in SlotsOf(t) \ {i} : u.pairs[j] = t.pairs[j]
  <2> HIDE DEF u
  <2> QED
    BY <1>1, <1>3
<1>5. t.num = Cardinality(HM!Used(t)) /\ IsFiniteSet(HM!Used(t)) /\ t.num # 0
  BY SoundIs, FS_EmptySet
<1>6. IsTable(u)
  <2>1. u \in [size : {t.size}, pairs : [0 .. t.size - 1 -> HM!Pairs \cup {None}], num : Nat]
    BY <1>1, <1>2, <1>3, <1>4, <1>5 DEF SlotsOf
  <2> HIDE DEF u
  <2> QED
    BY <1>1, <1>3, <2>1 DEF IsTable, HM!Tables
<1> HIDE DEF u
<1>7. HM!Used(u) = HM!Used(t) \ {i}
  <2>1. \A j : j \in HM!Used(t) <=> j \in SlotsOf(t) /\ t.pairs[j] # None
    BY DEF HM!Used, SlotsOf
  <2>2. \A j : j \in HM!Used(u) <=> j \in SlotsOf(t) /\ u.pairs[j] # None
    BY <1>3 DEF HM!Used, SlotsOf
  <2> QED
    BY <1>4, <2>1, <2>2
<1>8. HM!Free(u) = HM!Free(t) \cup {i}
  BY <1>1, <1>3, <1>7 DEF HM!Free, SlotsOf
<1>9. HM!Sound(u) /\ 2 * u.num <= u.size
  <2>1. u.num = Cardinality(HM!Used(u))
    BY <1>3, <1>5, <1>7, FS_RemoveElement
  <2>2. 2 * u.num <= u.size /\ 2 * (u.num - 1) <= u.size
    BY <1>1, <1>3, SoundIs
  <2>3. \A j, l \in HM!Used(u) : u.pairs[j].key = u.pairs[l].key => j = l
    BY <1>4, <1>7, SoundIs, TableIs
  <2> QED
    BY <1>1, <1>3, <2>1, <2>2, <2>3, TableCount DEF HM!Sound
<1>10. HM!Contents(u) = HM!Contents(t) \ {t.pairs[i]}
  <2>1. \A q : q \in HM!Contents(u) <=> \E j \in HM!Used(t) \ {i} : q = t.pairs[j]
    BY <1>4, <1>7, TableIs DEF HM!Contents
  <2>2. \A j \in HM!Used(t) \ {i} : t.pairs[j] # t.pairs[i]
    BY SoundIs
  <2>3. \A q : q \in HM!Contents(t) <=> \E j \in HM!Used(t) : q = t.pairs[j]
    BY DEF HM!Contents
  <2>4. \A q : q \in HM!Contents(u) <=> q \in HM!Contents(t) /\ q # t.pairs[i]
    BY <2>1, <2>2, <2>3
  <2> QED
    BY <2>4
<1> QED
  BY <1>3, <1>4, <1>6, <1>7, <1>8, <1>9, <1>10 DEF u

\* In a settled table a search finds a key that is there, and a free slot
\* for one that is not.
LEMMA SettledProbe ==
  ASSUME NEW t, IsTable(t), HM!Sound(t), HM!Settled(t), NEW k \in HashKeys
  PROVE  /\ HM!Probe(t, k) \in SlotsOf(t) /\ HM!Probe(t, k) # None /\ HM!Ends(t, k, HM!Probe(t, k))
         /\ HM!Has(t, k) <=> \E j \in HM!Used(t) : t.pairs[j].key = k
         /\ \A j \in HM!Used(t) : t.pairs[j].key = k => HM!Probe(t, k) = j
         /\ t.pairs[HM!Probe(t, k)] = None => \A j \in HM!Used(t) : t.pairs[j].key # k
<1> DEFINE E == {i \in SlotsOf(t) : HM!Ends(t, k, i)}
           i == HM!Probe(t, k)
           h == HomeOf(t, k)
<1>1. PICK f : f \in HM!Free(t)
  BY SoundIs
<1>2. f \in E
  BY <1>1, TableIs DEF HM!Ends
<1>3. i \in E /\ \A j \in E : HM!Distance(t, h, i) <= HM!Distance(t, h, j)
  BY <1>2, ProbeIs
<1>4. i \in SlotsOf(t) /\ i # None /\ HM!Ends(t, k, i)
  BY <1>3, TablesAssumption, NumbersAssumption, TableIs DEF SlotsOf
<1>5. ASSUME NEW j \in HM!Used(t), t.pairs[j].key = k PROVE i = j
  <2>1. j \in E /\ HM!Home(t, j) = h
    BY <1>5, TableIs DEF HM!Ends, HM!Home, HomeOf
  <2>2. HM!Distance(t, h, i) <= HM!Distance(t, h, j)
    BY <1>3, <2>1
  <2>3. HM!Distance(t, h, i) \in Nat /\ HM!Distance(t, h, j) \in Nat
    <3>1. h \in SlotsOf(t) /\ i \in SlotsOf(t) /\ j \in SlotsOf(t)
      BY <1>4, AtIs, TableIs
    <3> HIDE DEF h, i
    <3>2. HM!Distance(t, h, i) \in SlotsOf(t) /\ HM!Distance(t, h, j) \in SlotsOf(t)
      BY <3>1, DistanceIs
    <3> QED
      BY <3>2 DEF SlotsOf
  <2>4. i \notin HM!Free(t)
    <3>1. i \in HM!Free(t) => HM!Distance(t, HM!Home(t, j), j) < HM!Distance(t, HM!Home(t, j), i)
      BY DEF HM!Settled
    <3> HIDE DEF h, i
    <3> QED
      BY <2>1, <2>2, <2>3, <3>1
  <2>5. t.pairs[i] # None /\ i \in HM!Used(t)
    BY <1>4, <2>4, TableIs
  <2>6. t.pairs[i].key = k
    BY <1>4, <2>5 DEF HM!Ends
  <2> QED
    BY <1>5, <2>5, <2>6, SoundIs
<1>6. HM!Has(t, k) <=> t.pairs[i] # None
  BY <1>4 DEF HM!Has
<1>7. t.pairs[i] # None => i \in HM!Used(t) /\ t.pairs[i].key = k
  BY <1>4, TableIs DEF HM!Ends
<1>8. \A j \in HM!Used(t) : t.pairs[j] # None
  BY TableIs
<1> HIDE DEF i
<1>9. HM!Has(t, k) <=> \E j \in HM!Used(t) : t.pairs[j].key = k
  BY <1>5, <1>6, <1>7, <1>8
<1>10. t.pairs[i] = None => \A j \in HM!Used(t) : t.pairs[j].key # k
  BY <1>5, <1>8
<1> QED
  BY <1>4, <1>5, <1>9, <1>10 DEF i

\* A settled table stays so when a pair is stored.
LEMMA StoreSettles ==
  ASSUME NEW t, IsTable(t), HM!Sound(t), HM!Settled(t), 2 * t.num <= t.size,
         NEW k \in HashKeys, NEW v \in HashValues
  PROVE  LET u == HM!Store(t, k, v) IN
         /\ IsTable(u) /\ u.size = t.size /\ HM!Sound(u) /\ HM!Settled(u)
         /\ HM!Contents(u) = HM!With(HM!Contents(t), HM!Pair(k, v))
<1> DEFINE u == HM!Store(t, k, v)
           i == HM!Probe(t, k)
<1>1. /\ i \in SlotsOf(t) /\ HM!Ends(t, k, i)
      /\ t.pairs[i] = None => \A j \in HM!Used(t) : t.pairs[j].key # k
      /\ \A f \in HM!Free(t) : HM!Distance(t, HomeOf(t, k), i) <= HM!Distance(t, HomeOf(t, k), f)
  <2>1. HM!Free(t) \subseteq {j \in SlotsOf(t) : HM!Ends(t, k, j)}
    BY TableIs DEF HM!Ends
  <2> QED
    BY <2>1, SettledProbe, ProbeIs
<1>2. /\ IsTable(u) /\ u.size = t.size /\ HM!Sound(u)
      /\ HM!Used(u) = HM!Used(t) \cup {i} /\ HM!Free(u) = HM!Free(t) \ {i}
      /\ u.pairs[i] = HM!Pair(k, v) /\ \A j \in SlotsOf(t) \ {i} : u.pairs[j] = t.pairs[j]
      /\ HM!Contents(u) = HM!With(HM!Contents(t), HM!Pair(k, v))
  BY <1>1, StoreIs
<1> HIDE DEF i, u
<1>3. \A j, l : HM!Distance(u, j, l) = HM!Distance(t, j, l)
  BY <1>2 DEF HM!Distance
<1>4. ASSUME NEW j \in HM!Used(u), NEW f \in HM!Free(u)
      PROVE  HM!Distance(u, HM!Home(u, j), j) < HM!Distance(u, HM!Home(u, j), f)
  <2>1. CASE j = i
    <3>1. HM!Home(u, j) = HomeOf(t, k) /\ f \in HM!Free(t) /\ f # i /\ f \in SlotsOf(t)
      BY <1>2, <2>1, TableIs DEF HM!Home, HomeOf, HM!Pair
    <3>2. HM!Distance(t, HomeOf(t, k), i) <= HM!Distance(t, HomeOf(t, k), f)
      BY <1>1, <3>1 DEF i
    <3>3. HM!Distance(t, HomeOf(t, k), i) # HM!Distance(t, HomeOf(t, k), f)
          /\ HM!Distance(t, HomeOf(t, k), i) \in SlotsOf(t) /\ HM!Distance(t, HomeOf(t, k), f) \in SlotsOf(t)
      BY <1>1, <3>1, AtIs, DistanceIs DEF i
    <3>4. HM!Distance(t, HomeOf(t, k), i) < HM!Distance(t, HomeOf(t, k), f)
      BY <3>2, <3>3 DEF SlotsOf
    <3> QED
      BY <1>3, <2>1, <3>1, <3>4
  <2>2. CASE j # i
    <3>1. j \in HM!Used(t) /\ f \in HM!Free(t) /\ j \in SlotsOf(t)
      BY <1>2, <2>2, TableIs
    <3>2. HM!Home(u, j) = HM!Home(t, j)
      BY <1>2, <2>2, <3>1 DEF HM!Home
    <3> QED
      BY <1>3, <3>1, <3>2 DEF HM!Settled
  <2> QED
    BY <2>1, <2>2
<1>5. HM!Settled(u)
  BY <1>4 DEF HM!Settled
<1> QED
  BY <1>2, <1>5 DEF u

-----------------------------------------------------------------------------
(* HashMap: resizes.                                                       *)

Frames == [old : UNION {HM!Tables(n) : n \in Nat}, i : Nat, then : HM!Pairs \cup {None}]

\* What Refilling says of the call j of resize, with table t and calls fs.
Over(t, fs, j) == IF j = Len(fs) THEN t ELSE fs[j + 1].old
Moving(fs, j) == IF j = Len(fs) THEN {} ELSE {fs[j + 1].then}
Layer(t, fs, j) ==
    /\ IsTable(fs[j].old) /\ HM!Sound(fs[j].old) /\ fs[j].i \in 0 .. fs[j].old.size
    /\ fs[j].then \in HM!Pairs \cup {None} /\ (j > 1 => fs[j].then # None)
    /\ HM!Contents(fs[j].old) = HM!Contents(Over(t, fs, j)) \cup HM!Rest(fs[j]) \cup Moving(fs, j)
    /\ fs[j].then # None => Over(t, fs, j).size >= (3 * fs[j].old.size) \div 2

\* The table and the calls of resize hold the pairs G.
Layered(t, fs, G) ==
    /\ IsTable(t) /\ HM!Sound(t) /\ fs \in Seq(Frames)
    /\ \A j \in 1 .. Len(fs) : Layer(t, fs, j)
    /\ G = IF fs = <<>> THEN HM!Contents(t) ELSE HM!With(HM!Contents(fs[1].old), fs[1].then)

LEMMA RestIs ==
  ASSUME NEW f \in Frames, IsTable(f.old), f.i \in 0 .. f.old.size
  PROVE  /\ f.i = 0 => HM!Rest(f) = HM!Contents(f.old)
         /\ f.i >= f.old.size => HM!Rest(f) = {}
         /\ f.i < f.old.size =>
              LET g == [f EXCEPT !.i = @ + 1] p == f.old.pairs[f.i] IN
              /\ g \in Frames /\ g.old = f.old /\ g.then = f.then /\ g.i \in 0 .. f.old.size
              /\ HM!Rest(f) = HM!Rest(g) \cup (IF p = None THEN {} ELSE {p})
              /\ p # None => p \in HM!Contents(f.old) /\ p \in HM!Pairs
<1>1. f.i \in Nat /\ f.old.size \in Nat /\ HM!Used(f.old) \in SUBSET SlotsOf(f.old)
  BY TableIs DEF IsTable
<1>2. f.i = 0 => HM!Rest(f) = HM!Contents(f.old)
  <2>1. \A j \in HM!Used(f.old) : j >= 0
    BY <1>1 DEF SlotsOf
  <2>2. f.i = 0 => {j \in HM!Used(f.old) : j >= f.i} = HM!Used(f.old)
    BY <2>1
  <2> QED
    BY <2>2 DEF HM!Rest, HM!Contents
<1>3. f.i >= f.old.size => HM!Rest(f) = {}
  BY <1>1 DEF HM!Rest, SlotsOf
<1>4. ASSUME f.i < f.old.size
      PROVE  LET g == [f EXCEPT !.i = @ + 1] p == f.old.pairs[f.i] IN
              /\ g \in Frames /\ g.old = f.old /\ g.then = f.then /\ g.i \in 0 .. f.old.size
              /\ HM!Rest(f) = HM!Rest(g) \cup (IF p = None THEN {} ELSE {p})
              /\ p # None => p \in HM!Contents(f.old) /\ p \in HM!Pairs
  <2> DEFINE g == [f EXCEPT !.i = @ + 1]
             p == f.old.pairs[f.i]
  <2>1. g = [old |-> f.old, i |-> f.i + 1, then |-> f.then] /\ f.old \in UNION {HM!Tables(n) : n \in Nat}
        /\ f.then \in HM!Pairs \cup {None}
    BY DEF Frames
  <2>2. g.old = f.old /\ g.then = f.then /\ g.i = f.i + 1 /\ g.i \in 0 .. f.old.size
    BY <1>1, <1>4, <2>1
  <2>3. g \in Frames
    BY <1>1, <2>1 DEF Frames
  <2> HIDE DEF g
  <2>4. f.i \in SlotsOf(f.old) /\ (f.i \in HM!Used(f.old) <=> p # None)
    BY <1>1, <1>4 DEF SlotsOf, HM!Used
  <2>5. \A j \in HM!Used(f.old) : j >= f.i <=> j = f.i \/ j >= g.i
    BY <1>1, <2>2 DEF SlotsOf
  <2>6. \A x : x \in HM!Rest(f) <=> \E j \in HM!Used(f.old) : j >= f.i /\ x = f.old.pairs[j]
    BY DEF HM!Rest
  <2>7. \A x : x \in HM!Rest(g) <=> \E j \in HM!Used(f.old) : j >= g.i /\ x = f.old.pairs[j]
    BY <2>2 DEF HM!Rest
  <2>8. f.i >= f.i
    BY <1>1
  <2>9. HM!Rest(f) = HM!Rest(g) \cup (IF p = None THEN {} ELSE {p})
    BY <2>4, <2>5, <2>6, <2>7, <2>8
  <2>10. p # None => p \in HM!Contents(f.old) /\ p \in HM!Pairs
    BY <2>4, TableIs DEF HM!Contents
  <2> QED
    BY <2>2, <2>3, <2>9, <2>10 DEF g
<1> QED
  BY <1>2, <1>3, <1>4

\* The calls but for the last, and the last.
LEMMA LayersIs ==
  ASSUME NEW t, NEW fs, NEW G, Layered(t, fs, G), fs # <<>>
  PROVE  /\ Len(fs) \in Nat \ {0} /\ DOMAIN fs = 1 .. Len(fs) /\ \A j \in 1 .. Len(fs) : fs[j] \in Frames
         /\ Layer(t, fs, Len(fs)) /\ HM!Contents(fs[Len(fs)].old) = HM!Contents(t) \cup HM!Rest(fs[Len(fs)])
         /\ fs[Len(fs)].then # None => t.size >= (3 * fs[Len(fs)].old.size) \div 2
<1>1. Len(fs) \in Nat \ {0} /\ DOMAIN fs = 1 .. Len(fs) /\ \A j \in 1 .. Len(fs) : fs[j] \in Frames
  BY EmptySeq, LenProperties, ElementOfSeq DEF Layered
<1>2. Layer(t, fs, Len(fs))
  BY <1>1 DEF Layered
<1> QED
  BY <1>1, <1>2 DEF Layer, Over, Moving

\* Without resizes under way, the table holds the pairs.
LEMMA NoLayers ==
  ASSUME NEW t, NEW G
  PROVE  Layered(t, <<>>, G) <=> IsTable(t) /\ HM!Sound(t) /\ G = HM!Contents(t)
BY EmptySeq DEF Layered

\* A table that has grown by half has room for what was in it.
LEMMA GrownHasRoom ==
  ASSUME NEW t, IsTable(t), HM!Sound(t), NEW n \in Int, n >= (3 * t.size) \div 2
  PROVE  /\ (3 * t.size) \div 2 \in Nat /\ (3 * t.size) \div 2 >= 3 /\ (3 * t.size) \div 2 >= t.size
         /\ 2 * t.num <= n
BY SoundIs, TableIs

\* The table becomes the old one of another call of resize.
LEMMA PushLayer ==
  ASSUME NEW t, IsTable(t), HM!Sound(t), NEW n \in Nat, n >= 3, NEW p \in HM!Pairs \cup {None},
         p # None => n >= (3 * t.size) \div 2, NEW fs \in Seq(Frames), fs # <<>> => p # None,
         NEW f, f = [old |-> t, i |-> 0, then |-> p], NEW gs, gs = Append(fs, f)
  PROVE  /\ gs \in Seq(Frames) /\ Len(gs) = Len(fs) + 1 /\ gs[Len(gs)] = f
         /\ \A j \in 1 .. Len(fs) : gs[j] = fs[j]
         /\ Layer(HM!Empty(n), gs, Len(gs))
<1>1. f.old = t /\ f.i = 0 /\ f.then = p
  OBVIOUS
<1>2. f \in Frames
  BY DEF Frames, IsTable
<1>3. /\ gs \in Seq(Frames) /\ Len(fs) \in Nat /\ Len(gs) = Len(fs) + 1 /\ gs[Len(gs)] = f
      /\ \A j \in 1 .. Len(fs) : gs[j] = fs[j]
  BY <1>2, AppendFacts
<1>4. HM!Rest(f) = HM!Contents(t) /\ f.i \in 0 .. t.size
  <2>1. t.size \in Nat /\ IsTable(f.old)
    BY <1>1, TableIs
  <2>2. f.i \in 0 .. f.old.size
    BY <1>1, <2>1
  <2> QED
    BY <1>1, <1>2, <2>1, <2>2, RestIs
<1>5. Len(gs) > 1 => p # None
  <2>1. fs = <<>> => Len(fs) = 0
    OBVIOUS
  <2> QED
    BY <1>3, <2>1
<1>6. Over(HM!Empty(n), gs, Len(gs)) = HM!Empty(n) /\ Moving(gs, Len(gs)) = {}
  BY DEF Over, Moving
<1>7. HM!Contents(HM!Empty(n)) = {} /\ HM!Empty(n).size = n
  BY EmptyIs
<1>8. Layer(HM!Empty(n), gs, Len(gs))
  BY <1>1, <1>3, <1>4, <1>5, <1>6, <1>7 DEF Layer
<1> QED
  BY <1>3, <1>8

\* set by a user.
LEMMA UserSets ==
  ASSUME NEW t, NEW G, Layered(t, <<>>, G), HM!Settled(t), NEW k \in HashKeys, NEW v \in HashValues,
         NEW u, NEW fs,
         IF 2 * t.num > t.size
         THEN u = HM!Empty((3 * t.size) \div 2) /\ fs = Append(<<>>, [old |-> t, i |-> 0, then |-> HM!Pair(k, v)])
         ELSE u = HM!Store(t, k, v) /\ fs = <<>>
  PROVE  Layered(u, fs, HM!With(G, HM!Pair(k, v))) /\ HM!Settled(u)
<1>1. IsTable(t) /\ HM!Sound(t) /\ G = HM!Contents(t) /\ t.num \in Nat /\ t.size \in Nat
  BY NoLayers, TableIs
<1>2. HM!Pair(k, v) \in HM!Pairs /\ HM!Pair(k, v) # None
  BY TablesAssumption DEF HM!Pair, HM!Pairs
<1>3. CASE 2 * t.num > t.size
  <2> DEFINE n == (3 * t.size) \div 2
             f == [old |-> t, i |-> 0, then |-> HM!Pair(k, v)]
  <2>1. n \in Nat /\ n >= 3
    BY <1>1, GrownHasRoom
  <2>2. u = HM!Empty(n) /\ fs = Append(<<>>, f)
    BY <1>3
  <2>3. <<>> \in Seq(Frames) /\ Len(<<>>) = 0
    BY EmptySeq
  <2> HIDE DEF n
  <2>4. n >= (3 * t.size) \div 2
    BY <2>1 DEF n
  <2>5. fs \in Seq(Frames) /\ Len(fs) = 1 /\ fs[1] = f /\ Layer(u, fs, 1)
    <3> DEFINE p == HM!Pair(k, v)
    <3>1. f = [old |-> t, i |-> 0, then |-> p] /\ p \in HM!Pairs \cup {None} /\ p # None
      BY <1>2
    <3> HIDE DEF f, p
    <3>2. /\ p # None => n >= (3 * t.size) \div 2
          /\ <<>> \in Seq(Frames) /\ (<<>> # <<>> => p # None) /\ fs = Append(<<>>, f)
      BY <2>2, <2>3, <2>4
    <3>3. Layer(HM!Empty(n), fs, Len(fs))
      BY ONLY <1>1, <2>1, <2>4, <3>1, <3>2, PushLayer
    <3>4. f \in Frames
      BY <1>1, <3>1 DEF f, Frames, IsTable
    <3>5. fs \in Seq(Frames) /\ Len(fs) = 1 /\ fs[1] = f
      BY <2>3, <3>2, <3>4, AppendFacts
    <3> QED
      BY <2>2, <3>3, <3>5
  <2>6. IsTable(u) /\ HM!Sound(u) /\ HM!Settled(u)
    BY <2>1, <2>2, EmptyIs
  <2>7. fs # <<>> /\ f.old = t /\ f.then = HM!Pair(k, v)
    BY <2>5
  <2> QED
    BY <1>1, <2>5, <2>6, <2>7 DEF Layered
<1>4. CASE ~ 2 * t.num > t.size
  <2>1. u = HM!Store(t, k, v) /\ fs = <<>> /\ 2 * t.num <= t.size
    BY <1>1, <1>4
  <2> QED
    BY <1>1, <2>1, StoreSettles, NoLayers
<1> QED
  BY <1>3, <1>4

\* set in the refilling of a table: the pair p is on its way from the old
\* table of the last call to the new one.
LEMMA RefillSets ==
  ASSUME NEW t, IsTable(t), HM!Sound(t), HM!Settled(t), NEW fs \in Seq(Frames), fs # <<>>, NEW p \in HM!Pairs,
         \A j \in 1 .. Len(fs) - 1 : Layer(t, fs, j),
         LET f == fs[Len(fs)] IN
         /\ IsTable(f.old) /\ HM!Sound(f.old) /\ f.i \in 0 .. f.old.size
         /\ f.then \in HM!Pairs \cup {None} /\ (Len(fs) > 1 => f.then # None)
         /\ HM!Contents(f.old) = HM!Contents(t) \cup HM!Rest(f) \cup {p}
         /\ f.then # None => t.size >= (3 * f.old.size) \div 2,
         NEW u, NEW gs,
         IF 2 * t.num > t.size
         THEN u = HM!Empty((3 * t.size) \div 2) /\ gs = Append(fs, [old |-> t, i |-> 0, then |-> p])
         ELSE u = HM!Store(t, p.key, p.value) /\ gs = fs
  PROVE  Layered(u, gs, HM!With(HM!Contents(fs[1].old), fs[1].then)) /\ HM!Settled(u)
<1> DEFINE L == Len(fs)
           G == HM!With(HM!Contents(fs[1].old), fs[1].then)
<1>1. L \in Nat \ {0} /\ t.num \in Nat /\ t.size \in Nat /\ p # None
  BY EmptySeq, LenProperties, TableIs
<1>2. /\ IsTable(fs[L].old) /\ HM!Sound(fs[L].old) /\ fs[L].i \in 0 .. fs[L].old.size
      /\ fs[L].then \in HM!Pairs \cup {None} /\ (L > 1 => fs[L].then # None)
      /\ HM!Contents(fs[L].old) = HM!Contents(t) \cup HM!Rest(fs[L]) \cup {p}
      /\ fs[L].then # None => t.size >= (3 * fs[L].old.size) \div 2
  OBVIOUS
<1> HIDE DEF L
<1>3. ASSUME NEW j \in 1 .. L - 1 PROVE Over(t, fs, j) = fs[j + 1].old /\ Moving(fs, j) = {fs[j + 1].then}
  BY <1>1 DEF L, Over, Moving
<1>4. CASE 2 * t.num > t.size
  <2> DEFINE n == (3 * t.size) \div 2
             f == [old |-> t, i |-> 0, then |-> p]
  <2>1. n \in Nat /\ n >= 3
    BY <1>1, GrownHasRoom
  <2>2. u = HM!Empty(n) /\ gs = Append(fs, f)
    BY <1>4
  <2>3. f = [old |-> t, i |-> 0, then |-> p] /\ f.old = t /\ f.i = 0 /\ f.then = p
    OBVIOUS
  <2> HIDE DEF n
  <2>4. n >= (3 * t.size) \div 2
    BY <2>1 DEF n
  <2> HIDE DEF f
  <2>5. f \in Frames
    BY <2>3 DEF f, Frames, IsTable
  <2>6. /\ gs \in Seq(Frames) /\ Len(gs) = L + 1 /\ gs[L + 1] = f /\ gs # <<>>
        /\ \A j \in 1 .. L : gs[j] = fs[j]
    BY <1>1, <2>2, <2>5, AppendFacts DEF L
  <2>7. Layer(u, gs, L + 1)
    <3>1. p \in HM!Pairs \cup {None} /\ (p # None => n >= (3 * t.size) \div 2) /\ (fs # <<>> => p # None)
      BY <1>1, <2>4
    <3>2. IsTable(t) /\ HM!Sound(t) /\ fs \in Seq(Frames)
      OBVIOUS
    <3>3. Layer(HM!Empty(n), gs, Len(gs))
      BY ONLY <2>1, <2>2, <2>3, <3>1, <3>2, PushLayer
    <3> QED
      BY <2>2, <2>6, <3>3
  <2>8. ASSUME NEW j \in 1 .. L PROVE Layer(u, gs, j)
    <3>1. j # Len(gs) /\ Over(u, gs, j) = gs[j + 1].old /\ Moving(gs, j) = {gs[j + 1].then} /\ gs[j] = fs[j]
      BY <1>1, <2>6 DEF Over, Moving
    <3>2. CASE j = L
      <4>1. Over(u, gs, j) = t /\ Moving(gs, j) = {p}
        BY <2>3, <2>6, <3>1, <3>2
      <4> QED
        <5>1. gs[L] = fs[L] /\ Over(u, gs, L) = t /\ Moving(gs, L) = {p}
          BY <3>1, <3>2, <4>1
        <5>2. Layer(u, gs, L)
          BY ONLY <1>2, <5>1 DEF Layer
        <5> QED
          BY <3>2, <5>2
    <3>3. CASE j # L
      <4>1. j \in 1 .. L - 1 /\ j + 1 \in 1 .. L
        BY <1>1, <3>3
      <4>2. Over(u, gs, j) = Over(t, fs, j) /\ Moving(gs, j) = Moving(fs, j) /\ Layer(t, fs, j)
        BY <1>3, <2>6, <3>1, <4>1 DEF L
      <4> QED
        BY <3>1, <4>2 DEF Layer
    <3> QED
      BY <3>2, <3>3
  <2>9. gs[1] = fs[1] /\ 1 .. Len(gs) = 1 .. L \cup {L + 1}
    BY <1>1, <2>6
  <2>10. IsTable(u) /\ HM!Sound(u) /\ HM!Settled(u)
    BY <2>1, <2>2, EmptyIs
  <2> QED
    BY <2>6, <2>7, <2>8, <2>9, <2>10 DEF Layered
<1>5. CASE ~ 2 * t.num > t.size
  <2>1. u = HM!Store(t, p.key, p.value) /\ gs = fs /\ 2 * t.num <= t.size
    BY <1>1, <1>5
  <2>2. p.key \in HashKeys /\ p.value \in HashValues /\ HM!Pair(p.key, p.value) = p
    BY DEF HM!Pairs, HM!Pair
  <2>3. IsTable(u) /\ u.size = t.size /\ HM!Sound(u) /\ HM!Settled(u) /\ HM!Contents(u) = HM!With(HM!Contents(t), p)
    BY <2>1, <2>2, StoreSettles
  <2>4. HM!Contents(u) = HM!Contents(t) \cup {p}
    <3>1. ASSUME NEW q \in HM!Contents(t), q.key = p.key PROVE q = p
      <4>1. q \in HM!Contents(fs[L].old) /\ p \in HM!Contents(fs[L].old)
        BY <1>2
      <4> QED
        BY <1>2, <3>1, <4>1, OneOfAKey
    <3>2. HM!With(HM!Contents(t), p) = {q \in HM!Contents(t) : q.key # p.key} \cup {p}
      BY <1>1 DEF HM!With
    <3> QED
      BY <2>3, <3>1, <3>2
  <2>5. Layer(u, fs, L)
    <3>1. Over(u, fs, L) = u /\ Moving(fs, L) = {}
      BY DEF Over, Moving, L
    <3>2. HM!Contents(fs[L].old) = HM!Contents(u) \cup HM!Rest(fs[L]) \cup {}
      BY <1>2, <2>4
    <3> QED
      BY <1>2, <2>3, <3>1, <3>2 DEF Layer
  <2>6. ASSUME NEW j \in 1 .. L - 1 PROVE Layer(u, fs, j)
    <3>1. Over(u, fs, j) = Over(t, fs, j) /\ Layer(t, fs, j)
      BY <1>1, <2>6 DEF Over, L
    <3> QED
      BY <3>1 DEF Layer
  <2>7. 1 .. L = 1 .. L - 1 \cup {L}
    BY <1>1
  <2> QED
    BY <2>1, <2>3, <2>5, <2>6, <2>7 DEF Layered, L
<1> QED
  BY <1>4, <1>5

\* A slot of the old table is looked at.
LEMMA Refills ==
  ASSUME NEW t, NEW fs, NEW G, Layered(t, fs, G), HM!Settled(t), fs # <<>>,
         fs[Len(fs)].i < fs[Len(fs)].old.size,
         NEW on, on = [fs EXCEPT ![Len(fs)] = [fs[Len(fs)] EXCEPT !.i = @ + 1]],
         NEW p, p = fs[Len(fs)].old.pairs[fs[Len(fs)].i], NEW u, NEW gs,
         IF p = None THEN u = t /\ gs = on
         ELSE IF 2 * t.num > t.size
         THEN u = HM!Empty((3 * t.size) \div 2) /\ gs = Append(on, [old |-> t, i |-> 0, then |-> HM!Pair(p.key, p.value)])
         ELSE u = HM!Store(t, p.key, p.value) /\ gs = on
  PROVE  Layered(u, gs, G) /\ HM!Settled(u)
<1> DEFINE L == Len(fs)
           f == fs[L]
           g == [f EXCEPT !.i = @ + 1]
<1>1. /\ L \in Nat \ {0} /\ f \in Frames /\ IsTable(f.old) /\ HM!Sound(f.old) /\ f.i \in 0 .. f.old.size
      /\ f.then \in HM!Pairs \cup {None} /\ (L > 1 => f.then # None)
      /\ HM!Contents(f.old) = HM!Contents(t) \cup HM!Rest(f)
      /\ f.then # None => t.size >= (3 * f.old.size) \div 2
  BY LayersIs DEF Layer
<1>2. /\ g \in Frames /\ g.old = f.old /\ g.then = f.then /\ g.i \in 0 .. f.old.size
      /\ HM!Rest(f) = HM!Rest(g) \cup (IF p = None THEN {} ELSE {p})
      /\ p # None => p \in HM!Contents(f.old) /\ p \in HM!Pairs
  BY <1>1, RestIs
<1>3. fs \in Seq(Frames) /\ on = [fs EXCEPT ![L] = g] /\ DOMAIN fs = 1 .. L /\ \A j \in 1 .. L : fs[j] \in Frames
  BY LayersIs DEF Layered
<1>4. /\ IsTable(t) /\ HM!Sound(t) /\ G = HM!With(HM!Contents(fs[1].old), fs[1].then)
      /\ \A j \in 1 .. L : Layer(t, fs, j)
  BY DEF Layered
<1> HIDE DEF g, f, L
<1>5. on \in Seq(Frames) /\ Len(on) = L /\ on[L] = g /\ (\A j \in 1 .. L - 1 : on[j] = fs[j]) /\ on # <<>>
  <2>1. on \in Seq(Frames) /\ Len(on) = L
    BY <1>1, <1>2, <1>3, ExceptSeq DEF L
  <2>2. on[L] = g /\ \A j \in 1 .. L - 1 : on[j] = fs[j]
    BY <1>1, <1>3
  <2> QED
    BY <1>1, <2>1, <2>2, EmptySeq
<1>6. \A j \in 1 .. L : on[j].old = fs[j].old /\ on[j].then = fs[j].then
  BY <1>1, <1>2, <1>5 DEF f
<1>7. G = HM!With(HM!Contents(on[1].old), on[1].then)
  BY <1>1, <1>4, <1>6
<1>8. ASSUME NEW j \in 1 .. L - 1 PROVE Layer(t, on, j)
  <2>1. j \in 1 .. L /\ j + 1 \in 1 .. L /\ j # L /\ on[j] = fs[j] /\ Layer(t, fs, j)
    BY <1>1, <1>4, <1>5, <1>8
  <2>2. Over(t, on, j) = Over(t, fs, j) /\ Moving(on, j) = Moving(fs, j)
    BY <1>5, <1>6, <2>1 DEF Over, Moving, L
  <2> QED
    BY <2>1, <2>2 DEF Layer
<1>9. CASE p = None
  <2>1. u = t /\ gs = on
    BY <1>9
  <2>2. Layer(t, on, L)
    <3>1. Over(t, on, L) = t /\ Moving(on, L) = {}
      BY <1>5 DEF Over, Moving
    <3> QED
      BY <1>1, <1>2, <1>5, <1>9, <3>1 DEF Layer
  <2>3. 1 .. L = 1 .. L - 1 \cup {L}
    BY <1>1
  <2> QED
    BY <1>4, <1>5, <1>7, <1>8, <2>1, <2>2, <2>3 DEF Layered
<1>10. CASE p # None
  <2>1. p \in HM!Pairs /\ HM!Pair(p.key, p.value) = p
    BY <1>2, <1>10 DEF HM!Pairs, HM!Pair
  <2>2. HM!Contents(f.old) = HM!Contents(t) \cup HM!Rest(g) \cup {p}
    BY <1>1, <1>2, <1>10
  <2>3. IF 2 * t.num > t.size
        THEN u = HM!Empty((3 * t.size) \div 2) /\ gs = Append(on, [old |-> t, i |-> 0, then |-> p])
        ELSE u = HM!Store(t, p.key, p.value) /\ gs = on
    BY <1>10, <2>1
  <2>4. LET h == on[Len(on)] IN
         /\ IsTable(h.old) /\ HM!Sound(h.old) /\ h.i \in 0 .. h.old.size
         /\ h.then \in HM!Pairs \cup {None} /\ (Len(on) > 1 => h.then # None)
         /\ HM!Contents(h.old) = HM!Contents(t) \cup HM!Rest(h) \cup {p}
         /\ h.then # None => t.size >= (3 * h.old.size) \div 2
    BY <1>1, <1>2, <1>5, <2>2
  <2>5. \A j \in 1 .. Len(on) - 1 : Layer(t, on, j)
    BY <1>5, <1>8
  <2>6. IsTable(t) /\ HM!Sound(t) /\ HM!Settled(t) /\ on \in Seq(Frames) /\ on # <<>>
    BY <1>4, <1>5
  <2>7. Layered(u, gs, HM!With(HM!Contents(on[1].old), on[1].then)) /\ HM!Settled(u)
    BY ONLY <2>1, <2>3, <2>4, <2>5, <2>6, RefillSets
  <2> QED
    BY <1>7, <2>7
<1> QED
  BY <1>9, <1>10

\* The last call of resize returns, and set stores the pair it grew for.
LEMMA Returns ==
  ASSUME NEW t, NEW fs, NEW G, Layered(t, fs, G), HM!Settled(t), fs # <<>>,
         NEW f, f = fs[Len(fs)], f.i >= f.old.size,
         NEW gs, gs = SubSeq(fs, 1, Len(fs) - 1),
         NEW u, u = IF f.then = None THEN t ELSE HM!Store(t, f.then.key, f.then.value)
  PROVE  Layered(u, gs, G) /\ HM!Settled(u)
<1> DEFINE L == Len(fs)
<1>1. /\ L \in Nat \ {0} /\ f \in Frames /\ IsTable(f.old) /\ HM!Sound(f.old) /\ f.i \in 0 .. f.old.size
      /\ f.then \in HM!Pairs \cup {None} /\ (L > 1 => f.then # None)
      /\ HM!Contents(f.old) = HM!Contents(t) \cup HM!Rest(f)
      /\ f.then # None => t.size >= (3 * f.old.size) \div 2
  BY LayersIs DEF Layer
<1>2. HM!Contents(f.old) = HM!Contents(t)
  BY <1>1, RestIs
<1>3. /\ IsTable(t) /\ HM!Sound(t) /\ G = HM!With(HM!Contents(fs[1].old), fs[1].then)
      /\ \A j \in 1 .. L : Layer(t, fs, j)
  BY DEF Layered
<1>4. gs \in Seq(Frames) /\ Len(gs) = L - 1 /\ \A j \in 1 .. L - 1 : gs[j] = fs[j]
  BY FrontFacts DEF Layered
<1>5. fs[L] = f
  OBVIOUS
<1>6. f.then # None => /\ IsTable(u) /\ u.size = t.size /\ HM!Sound(u) /\ HM!Settled(u)
                       /\ HM!Contents(u) = HM!With(HM!Contents(t), f.then)
  <2> SUFFICES ASSUME f.then # None
               PROVE  /\ IsTable(u) /\ u.size = t.size /\ HM!Sound(u) /\ HM!Settled(u)
                      /\ HM!Contents(u) = HM!With(HM!Contents(t), f.then)
    OBVIOUS
  <2>1. f.then \in HM!Pairs /\ f.then.key \in HashKeys /\ f.then.value \in HashValues
        /\ HM!Pair(f.then.key, f.then.value) = f.then
    BY <1>1 DEF HM!Pairs, HM!Pair
  <2>2. 2 * t.num <= t.size
    <3>1. t.num = f.old.num
      BY <1>1, <1>2, <1>3, SoundIs
    <3>2. t.size \in Int /\ t.size >= (3 * f.old.size) \div 2
      BY <1>1, <1>3, TableIs
    <3> QED
      BY <1>1, <3>1, <3>2, GrownHasRoom
  <2>3. u = HM!Store(t, f.then.key, f.then.value)
    OBVIOUS
  <2> QED
    BY <1>3, <2>1, <2>2, <2>3, StoreSettles
<1> HIDE DEF L
<1>7. CASE L = 1
  <2>1. gs = <<>>
    BY <1>4, <1>7, EmptySeq
  <2>2. G = HM!With(HM!Contents(t), f.then)
    BY <1>2, <1>3, <1>5, <1>7
  <2>3. CASE f.then = None
    BY <1>3, <2>1, <2>2, <2>3, NoLayers DEF HM!With
  <2>4. CASE f.then # None
    BY <1>6, <2>1, <2>2, <2>4, NoLayers
  <2> QED
    BY <2>3, <2>4
<1>8. CASE L > 1
  <2>1. f.then # None /\ L - 1 \in Nat \ {0} /\ gs # <<>> /\ gs[1] = fs[1]
    BY <1>1, <1>4, <1>8, EmptySeq
  <2>2. ASSUME NEW j \in 1 .. L - 2 PROVE Layer(u, gs, j)
    <3>1. j \in 1 .. L /\ j \in 1 .. L - 1 /\ j + 1 \in 1 .. L - 1 /\ j # L /\ j # L - 1
      BY <1>1, <2>2
    <3>2. Over(u, gs, j) = Over(t, fs, j) /\ Moving(gs, j) = Moving(fs, j) /\ gs[j] = fs[j] /\ Layer(t, fs, j)
      BY <1>3, <1>4, <3>1 DEF Over, Moving, L
    <3> QED
      BY <3>2 DEF Layer
  <2>3. Layer(u, gs, L - 1)
    <3> DEFINE e == fs[L - 1]
    <3>1. L - 1 \in 1 .. L /\ L - 1 # L /\ (L - 1) + 1 = L
      BY <1>1, <2>1
    <3>2. Layer(t, fs, L - 1) /\ Over(t, fs, L - 1) = f.old /\ Moving(fs, L - 1) = {f.then}
      BY <1>3, <1>5, <3>1 DEF Over, Moving, L
    <3>3. /\ IsTable(e.old) /\ HM!Sound(e.old)
          /\ HM!Contents(e.old) = HM!Contents(t) \cup HM!Rest(e) \cup {f.then}
          /\ e.then # None => f.old.size >= (3 * e.old.size) \div 2
      BY <1>2, <3>2 DEF Layer
    <3>4. Over(u, gs, L - 1) = u /\ Moving(gs, L - 1) = {} /\ gs[L - 1] = e
      BY <1>4, <2>1 DEF Over, Moving
    <3> HIDE DEF e
    <3>5. HM!Contents(u) \cup HM!Rest(e) = HM!Contents(e.old)
      <4>1. ASSUME NEW q \in HM!Contents(t), q.key = f.then.key PROVE q = f.then
        <5>1. q \in HM!Contents(e.old) /\ f.then \in HM!Contents(e.old)
          BY <3>3
        <5> QED
          BY <3>3, <4>1, <5>1, OneOfAKey
      <4>2. HM!With(HM!Contents(t), f.then) = {q \in HM!Contents(t) : q.key # f.then.key} \cup {f.then}
        BY <2>1 DEF HM!With
      <4>3. HM!Contents(u) = HM!Contents(t) \cup {f.then}
        BY <1>6, <2>1, <4>1, <4>2
      <4> QED
        BY <3>3, <4>3
    <3>6. e.then # None => u.size >= (3 * e.old.size) \div 2
      <4>1. u.size = t.size /\ t.size >= (3 * f.old.size) \div 2 /\ (3 * f.old.size) \div 2 >= f.old.size
        BY <1>1, <1>6, <2>1, TableIs
      <4>2. t.size \in Nat /\ f.old.size \in Nat /\ e.old.size \in Nat
        BY <1>1, <1>3, <3>3, TableIs
      <4>3. e.then # None => f.old.size >= (3 * e.old.size) \div 2
        BY <3>3
      <4> DEFINE x == (3 * e.old.size) \div 2
                 y == (3 * f.old.size) \div 2
      <4>4. x \in Int /\ y \in Int
        BY <4>2
      <4>5. u.size = t.size /\ t.size >= y /\ y >= f.old.size /\ (e.then # None => f.old.size >= x)
        BY <4>1, <4>3
      <4> HIDE DEF x, y
      <4>6. e.then # None => u.size >= x
        BY ONLY <4>2, <4>4, <4>5
      <4> QED
        BY <4>6 DEF x
    <3> QED
      BY <3>2, <3>4, <3>5, <3>6 DEF Layer, e
  <2>4. 1 .. L - 1 = 1 .. L - 2 \cup {L - 1}
    BY <1>1, <2>1
  <2> QED
    BY <1>3, <1>4, <1>6, <2>1, <2>2, <2>3, <2>4 DEF Layered
<1> QED
  BY <1>1, <1>7, <1>8

-----------------------------------------------------------------------------
(* HashMap: the steps.                                                     *)

\* The invariant, with the tables as layers.
DictionaryIs == DOMAIN dictionary \subseteq HashKeys /\ dictionary \in [DOMAIN dictionary -> HashValues]
DeletionIs == deletion \in [hole : Nat, i : Nat, c : Nat] /\ (deletion.c = 0 => deletion = HM!NoDel)
MapKept ==
    /\ Layered(hashTable, resizes, HM!Graph) /\ (deletion.c = 0 => HM!Settled(hashTable))
    /\ DeletionIs /\ DictionaryIs
    /\ iterator \in Nat \cup {None} /\ passed \subseteq HashKeys
    /\ HM!Deleting /\ HM!Iterating

LEMMA MapInvariant == HM!IInv => MapKept
<1> SUFFICES ASSUME HM!IInv PROVE MapKept
  OBVIOUS
<1>1. IsTable(hashTable) /\ HM!Sound(hashTable)
  BY DEF HM!IInv, HM!TypeOK, HM!Sound, IsTable
<1>2. ASSUME NEW j \in DOMAIN resizes PROVE resizes[j] \in Frames /\ Layer(hashTable, resizes, j)
  <2> DEFINE f == resizes[j]
  <2>1. /\ f.old.size \in Nat
        /\ f \in [old : HM!Tables(f.old.size), i : 0 .. f.old.size, then : HM!Pairs \cup {None}]
    BY <1>2 DEF HM!IInv, HM!TypeOK
  <2>2. /\ HM!Sound(f.old) /\ (j > 1 => f.then # None)
        /\ HM!Contents(f.old) = HM!Contents(Over(hashTable, resizes, j)) \cup HM!Rest(f) \cup Moving(resizes, j)
        /\ f.then # None => Over(hashTable, resizes, j).size >= (3 * f.old.size) \div 2
    BY <1>2 DEF HM!IInv, HM!Refilling, HM!Above, Over, Moving
  <2>3. f.old.size >= 3
    BY <2>2 DEF HM!Sound
  <2> HIDE DEF f
  <2>4. IsTable(f.old) /\ f.i \in 0 .. f.old.size /\ f.then \in HM!Pairs \cup {None}
    BY <2>1, <2>3 DEF IsTable
  <2>5. f \in Frames
    BY <2>1 DEF Frames
  <2> QED
    BY <2>2, <2>4, <2>5 DEF Layer, f
<1>3. resizes \in Seq(Frames)
  <2>1. resizes \in Seq({resizes[j] : j \in DOMAIN resizes})
    BY DEF HM!IInv, HM!TypeOK
  <2>2. {resizes[j] : j \in DOMAIN resizes} \subseteq Frames
    BY <1>2
  <2> DEFINE Levels == {resizes[j] : j \in DOMAIN resizes}
  <2> HIDE DEF Levels
  <2> QED
    BY <2>1, <2>2 DEF Levels
<1>4. \A j \in 1 .. Len(resizes) : Layer(hashTable, resizes, j)
  BY <1>2, <1>3
<1> QED
  BY <1>1, <1>3, <1>4 DEF Layered, MapKept, DeletionIs, DictionaryIs, HM!IInv, HM!TypeOK, HM!HoldsPairs

LEMMA MapInvariantHolds == MapKept => HM!IInv
<1> SUFFICES ASSUME MapKept PROVE HM!IInv
  OBVIOUS
<1>1. /\ IsTable(hashTable) /\ HM!Sound(hashTable) /\ resizes \in Seq(Frames)
      /\ \A j \in 1 .. Len(resizes) : Layer(hashTable, resizes, j)
      /\ HM!HoldsPairs
  BY DEF MapKept, Layered, HM!HoldsPairs
<1>2. DOMAIN resizes = 1 .. Len(resizes) /\ \A j \in DOMAIN resizes : resizes[j] \in Frames
  BY <1>1, LenProperties, ElementOfSeq
<1>3. HM!Refilling
  <2> SUFFICES ASSUME NEW j \in DOMAIN resizes
               PROVE  LET f == resizes[j] IN
                      /\ HM!Sound(f.old) /\ (j > 1 => f.then # None)
                      /\ HM!Contents(f.old) = HM!Contents(HM!Above(j)) \cup HM!Rest(f)
                                           \cup (IF j = Len(resizes) THEN {} ELSE {resizes[j + 1].then})
                      /\ f.then # None => HM!Above(j).size >= (3 * f.old.size) \div 2
    BY DEF HM!Refilling
  <2>1. Layer(hashTable, resizes, j) /\ HM!Above(j) = Over(hashTable, resizes, j)
    BY <1>1, <1>2 DEF HM!Above, Over
  <2> QED
    BY <2>1 DEF Layer, Moving
<1>4. resizes \in Seq({resizes[j] : j \in DOMAIN resizes})
  <2> DEFINE Levels == {resizes[j] : j \in DOMAIN resizes}
  <2>1. \A j \in 1 .. Len(resizes) : resizes[j] \in Levels
    BY <1>2
  <2> HIDE DEF Levels
  <2> QED
    BY <1>1, <2>1 DEF Levels
<1>5. ASSUME NEW j \in DOMAIN resizes
      PROVE  /\ resizes[j].old.size \in Nat
             /\ resizes[j] \in [old : HM!Tables(resizes[j].old.size), i : 0 .. resizes[j].old.size,
                                then : HM!Pairs \cup {None}]
  <2>1. IsTable(resizes[j].old) /\ resizes[j].i \in 0 .. resizes[j].old.size
    BY <1>1, <1>2, <1>5 DEF Layer
  <2>2. resizes[j] \in Frames
    BY <1>2, <1>5
  <2>3. resizes[j] = [old |-> resizes[j].old, i |-> resizes[j].i, then |-> resizes[j].then]
        /\ resizes[j].then \in HM!Pairs \cup {None}
    BY <2>2 DEF Frames
  <2> QED
    BY <2>1, <2>3 DEF IsTable
<1>6. hashTable.size \in Nat /\ hashTable \in HM!Tables(hashTable.size)
  BY <1>1 DEF IsTable
<1>7. HM!TypeOK
  BY <1>4, <1>5, <1>6 DEF MapKept, DeletionIs, DictionaryIs, HM!TypeOK
<1> QED
  BY <1>1, <1>3, <1>7 DEF MapKept, HM!IInv

\* What is so when no resize and no del is under way.
LEMMA MapIdle ==
  ASSUME MapKept, HM!Idle
  PROVE  /\ Layered(hashTable, <<>>, HM!Graph) /\ HM!Settled(hashTable) /\ resizes = <<>> /\ deletion = HM!NoDel
         /\ IsTable(hashTable) /\ HM!Sound(hashTable) /\ HM!Graph = HM!Contents(hashTable)
<1>1. resizes = <<>> /\ deletion = HM!NoDel /\ deletion.c = 0
  BY DEF HM!Idle, HM!NoDel
<1> QED
  BY <1>1, NoLayers DEF MapKept

\* Without a deletion and an iteration, the tables are all there is to see to.
LEMMA MapModified ==
  ASSUME Layered(hashTable', resizes', HM!Graph'), HM!Settled(hashTable'),
         deletion' = HM!NoDel, DictionaryIs', iterator' = None, passed' = {}
  PROVE  MapKept'
<1>1. deletion'.c = 0 /\ DeletionIs'
  BY DEF HM!NoDel, DeletionIs
<1> QED
  BY <1>1 DEF MapKept, HM!Deleting, HM!Iterating

LEMMA MapSets ==
  ASSUME MapKept, HM!Idle, NEW k \in HashKeys, NEW v \in HashValues,
         HM!Set(hashTable, resizes, k, v), HM!Stored(k, v), HM!Modified, UNCHANGED deletion
  PROVE  MapKept'
<1>1. Layered(hashTable, <<>>, HM!Graph) /\ HM!Settled(hashTable) /\ resizes = <<>> /\ deletion = HM!NoDel
  BY MapIdle
<1>2. IF 2 * hashTable.num > hashTable.size
      THEN /\ hashTable' = HM!Empty((3 * hashTable.size) \div 2)
           /\ resizes' = Append(<<>>, [old |-> hashTable, i |-> 0, then |-> HM!Pair(k, v)])
      ELSE hashTable' = HM!Store(hashTable, k, v) /\ resizes' = <<>>
  BY <1>1 DEF HM!Set
<1>3. Layered(hashTable', resizes', HM!With(HM!Graph, HM!Pair(k, v))) /\ HM!Settled(hashTable')
  BY ONLY <1>1, <1>2, k \in HashKeys, v \in HashValues, UserSets
<1>4. dictionary' = [j \in DOMAIN dictionary \cup {k} |-> IF j = k THEN v ELSE dictionary[j]]
  BY DEF HM!Stored
<1>5. DictionaryIs'
  BY <1>4 DEF MapKept, DictionaryIs
<1>6. HM!Graph' = HM!With(HM!Graph, HM!Pair(k, v))
  <2>1. HM!Pair(k, v) # None /\ HM!Pair(k, v).key = k
    BY TablesAssumption DEF HM!Pair
  <2>2. HM!With(HM!Graph, HM!Pair(k, v)) = {q \in HM!Graph : q.key # k} \cup {HM!Pair(k, v)}
    BY <2>1 DEF HM!With
  <2>3. \A j : HM!Pair(j, dictionary[j]).key = j
    BY DEF HM!Pair
  <2>4. \A q : q \in HM!Graph' <=> \E j \in DOMAIN dictionary \cup {k} : q = HM!Pair(j, dictionary'[j])
    BY <1>4 DEF HM!Graph
  <2>5. \A q : q \in HM!Graph <=> \E j \in DOMAIN dictionary : q = HM!Pair(j, dictionary[j])
    BY DEF HM!Graph
  <2>6. dictionary'[k] = v /\ \A j \in DOMAIN dictionary \ {k} : dictionary'[j] = dictionary[j]
    BY <1>4
  <2> QED
    BY <2>2, <2>3, <2>4, <2>5, <2>6
<1>7. deletion' = HM!NoDel /\ iterator' = None /\ passed' = {}
  BY <1>1 DEF HM!Modified
<1> QED
  BY <1>3, <1>5, <1>6, <1>7, MapModified

LEMMA MapResizes ==
  ASSUME MapKept, NEW n \in MapSizes, HM!DoResize(n)
  PROVE  MapKept'
<1>1. /\ HM!Settled(hashTable) /\ resizes = <<>> /\ deletion = HM!NoDel
      /\ IsTable(hashTable) /\ HM!Sound(hashTable) /\ HM!Graph = HM!Contents(hashTable)
  BY MapIdle DEF HM!DoResize
<1>2. n \in Nat /\ n >= 3
  BY TablesAssumption
<1> DEFINE f == [old |-> hashTable, i |-> 0, then |-> None]
<1>3. hashTable' = HM!Empty(n) /\ resizes' = <<f>> /\ deletion' = HM!NoDel /\ dictionary' = dictionary
      /\ iterator' = None /\ passed' = {}
  BY <1>1 DEF HM!DoResize, HM!Modified
<1>4. f = [old |-> hashTable, i |-> 0, then |-> None] /\ f.old = hashTable /\ f.then = None
  OBVIOUS
<1>5. f \in Frames
  BY <1>1 DEF Frames, IsTable
<1> HIDE DEF f
<1>6. <<>> \in Seq(Frames) /\ resizes' = Append(<<>>, f) /\ Len(<<>>) = 0
  BY <1>3
<1>7. /\ resizes' \in Seq(Frames) /\ Len(resizes') = 1 /\ resizes'[1] = f
      /\ Layer(HM!Empty(n), resizes', 1)
  <2>1. PICK p, fs : p = None /\ fs = <<>>
    OBVIOUS
  <2>2. /\ p \in HM!Pairs \cup {None} /\ (p # None => n >= (3 * hashTable.size) \div 2)
        /\ fs \in Seq(Frames) /\ (fs # <<>> => p # None)
        /\ f = [old |-> hashTable, i |-> 0, then |-> p] /\ resizes' = Append(fs, f)
    BY <1>4, <1>6, <2>1
  <2>3. Layer(HM!Empty(n), resizes', Len(resizes'))
    BY ONLY <1>1, <1>2, <2>2, PushLayer
  <2>4. resizes' \in Seq(Frames) /\ Len(resizes') = 1 /\ resizes'[1] = f
    BY <1>3, <1>5
  <2> QED
    BY <2>3, <2>4
<1>8. IsTable(hashTable') /\ HM!Sound(hashTable') /\ HM!Settled(hashTable')
  BY <1>2, <1>3, EmptyIs
<1>9. HM!Graph' = HM!With(HM!Contents(f.old), f.then)
  BY <1>1, <1>3, <1>4 DEF HM!Graph, HM!With
<1>10. Layered(hashTable', resizes', HM!Graph')
  BY <1>3, <1>7, <1>8, <1>9 DEF Layered
<1>11. DictionaryIs'
  BY <1>3 DEF MapKept, DictionaryIs
<1> QED
  BY <1>3, <1>8, <1>10, <1>11, MapModified

\* What is so while a resize is under way.
LEMMA MapResizing ==
  ASSUME MapKept, resizes # <<>>
  PROVE  deletion = HM!NoDel /\ HM!Settled(hashTable) /\ iterator = None /\ passed \subseteq HashKeys
<1>1. deletion.c = 0
  BY DEF MapKept, HM!Deleting
<1>2. iterator = None
  BY DEF MapKept, HM!Iterating, HM!Idle
<1> QED
  BY <1>1, <1>2 DEF MapKept, DeletionIs

LEMMA MapRefilled ==
  ASSUME MapKept, resizes # <<>>, Layered(hashTable', resizes', HM!Graph), HM!Settled(hashTable'),
         UNCHANGED <<deletion, dictionary, iterator, passed>>
  PROVE  MapKept'
<1>1. deletion' = HM!NoDel /\ iterator' = None /\ passed' \subseteq HashKeys /\ HM!Graph' = HM!Graph
  BY MapResizing DEF HM!Graph
<1>2. deletion'.c = 0 /\ DeletionIs' /\ DictionaryIs'
  BY <1>1 DEF HM!NoDel, DeletionIs, MapKept, DictionaryIs
<1> QED
  BY <1>1, <1>2 DEF MapKept, HM!Deleting, HM!Iterating

LEMMA MapRefills ==
  ASSUME MapKept, HM!Refill
  PROVE  MapKept'
<1> DEFINE f == resizes[Len(resizes)]
           on == [resizes EXCEPT ![Len(resizes)] = [f EXCEPT !.i = @ + 1]]
           p == f.old.pairs[f.i]
<1>1. /\ resizes # <<>> /\ f.i < f.old.size /\ UNCHANGED <<deletion, dictionary, iterator, passed>>
      /\ IF p = None THEN resizes' = on /\ hashTable' = hashTable
         ELSE HM!Set(hashTable, on, p.key, p.value)
  BY DEF HM!Refill
<1>2. IF p = None THEN hashTable' = hashTable /\ resizes' = on
      ELSE IF 2 * hashTable.num > hashTable.size
      THEN /\ hashTable' = HM!Empty((3 * hashTable.size) \div 2)
           /\ resizes' = Append(on, [old |-> hashTable, i |-> 0, then |-> HM!Pair(p.key, p.value)])
      ELSE hashTable' = HM!Store(hashTable, p.key, p.value) /\ resizes' = on
  BY <1>1 DEF HM!Set
<1>3. Layered(hashTable, resizes, HM!Graph) /\ HM!Settled(hashTable)
  BY <1>1, MapResizing DEF MapKept
<1>4. on = [resizes EXCEPT ![Len(resizes)] = [resizes[Len(resizes)] EXCEPT !.i = @ + 1]]
      /\ p = resizes[Len(resizes)].old.pairs[resizes[Len(resizes)].i]
      /\ resizes[Len(resizes)].i < resizes[Len(resizes)].old.size
  BY <1>1
<1> HIDE DEF on, p, f
<1>5. Layered(hashTable', resizes', HM!Graph) /\ HM!Settled(hashTable')
  BY ONLY <1>1, <1>2, <1>3, <1>4, Refills
<1> QED
  BY <1>1, <1>5, MapRefilled

LEMMA MapResized ==
  ASSUME MapKept, HM!Resized
  PROVE  MapKept'
<1> DEFINE f == resizes[Len(resizes)]
<1>1. /\ resizes # <<>> /\ f.i >= f.old.size /\ UNCHANGED <<deletion, dictionary, iterator, passed>>
      /\ resizes' = SubSeq(resizes, 1, Len(resizes) - 1)
      /\ hashTable' = IF f.then = None THEN hashTable ELSE HM!Store(hashTable, f.then.key, f.then.value)
  BY DEF HM!Resized
<1>2. Layered(hashTable, resizes, HM!Graph) /\ HM!Settled(hashTable)
  BY <1>1, MapResizing DEF MapKept
<1>3. f = resizes[Len(resizes)]
  OBVIOUS
<1> HIDE DEF f
<1>4. Layered(hashTable', resizes', HM!Graph) /\ HM!Settled(hashTable')
  BY ONLY <1>1, <1>2, <1>3, Returns
<1> QED
  BY <1>1, <1>4, MapRefilled

LEMMA MapCleared ==
  ASSUME MapKept, HM!Clear
  PROVE  MapKept'
<1>1. IsTable(hashTable) /\ deletion = HM!NoDel /\ resizes = <<>>
  BY MapIdle DEF HM!Clear
<1>2. /\ hashTable' = HM!Empty(hashTable.size) /\ resizes' = <<>> /\ deletion' = HM!NoDel
      /\ dictionary' = [k \in {} |-> None] /\ iterator' = None /\ passed' = {}
  BY <1>1 DEF HM!Clear, HM!Modified
<1>3. hashTable.size \in Nat /\ hashTable.size >= 3
  BY <1>1, TableIs
<1>4. IsTable(hashTable') /\ HM!Sound(hashTable') /\ HM!Settled(hashTable') /\ HM!Contents(hashTable') = {}
  BY <1>2, <1>3, EmptyIs
<1>5. DOMAIN dictionary' = {}
  BY <1>2
<1>6. HM!Graph' = {}
  BY <1>5 DEF HM!Graph
<1>7. DictionaryIs'
  BY <1>2, <1>5 DEF DictionaryIs
<1>8. Layered(hashTable', resizes', HM!Graph')
  BY <1>2, <1>4, <1>6, NoLayers
<1> QED
  BY <1>2, <1>4, <1>7, <1>8, MapModified

-----------------------------------------------------------------------------
(* HashMap: iterations.                                                    *)

LEMMA FollowingIs ==
  ASSUME IsTable(hashTable), NEW i \in 0 .. hashTable.size
  PROVE  /\ HM!Following(i) \in i .. hashTable.size
         /\ HM!Following(i) < hashTable.size => HM!Following(i) \in HM!Used(hashTable)
         /\ \A j \in HM!Used(hashTable) : j >= i => j >= HM!Following(i)
<1> DEFINE U == {j \in i .. hashTable.size - 1 : hashTable.pairs[j] # None}
<1>1. hashTable.size \in Nat /\ HM!Used(hashTable) \in SUBSET SlotsOf(hashTable)
  BY TableIs
<1>2. HM!Following(i) = IF U = {} THEN hashTable.size ELSE HM!MinOf(U)
  BY DEF HM!Following
<1>3. U \subseteq Nat /\ (\A j \in U : j \in HM!Used(hashTable) /\ j \in i .. hashTable.size)
      /\ \A j \in HM!Used(hashTable) : j >= i => j \in U
  BY <1>1 DEF HM!Used, SlotsOf
<1> HIDE DEF U
<1>4. U # {} => HM!MinOf(U) \in U /\ \A j \in U : HM!MinOf(U) <= j
  BY <1>3, LeastNumber DEF HM!MinOf
<1>5. CASE U = {}
  BY <1>1, <1>2, <1>3, <1>5
<1>6. CASE U # {}
  <2> DEFINE m == HM!MinOf(U)
  <2>1. m \in U /\ \A j \in U : m <= j
    BY <1>4, <1>6
  <2>2. HM!Following(i) = m
    BY <1>2, <1>6
  <2> HIDE DEF m
  <2>3. m \in HM!Used(hashTable) /\ m \in i .. hashTable.size
    BY <1>3, <2>1
  <2>4. \A j \in U : j >= m
    BY <1>3, <2>1
  <2> QED
    BY <1>3, <2>2, <2>3, <2>4
<1> QED
  BY <1>5, <1>6

LEMMA MapIterates ==
  ASSUME MapKept, HM!Start \/ HM!Step
  PROVE  MapKept'
<1>1. /\ HM!Idle /\ UNCHANGED <<hashTable, resizes, deletion, dictionary>>
  BY DEF HM!Start, HM!Step
<1>2. /\ IsTable(hashTable) /\ deletion = HM!NoDel /\ resizes = <<>> /\ HM!Settled(hashTable)
      /\ Layered(hashTable, <<>>, HM!Graph)
  BY <1>1, MapIdle
<1>3. hashTable.size \in Nat /\ HM!Used(hashTable) \in SUBSET SlotsOf(hashTable)
      /\ \A i \in HM!Used(hashTable) : hashTable.pairs[i].key \in HashKeys
  BY <1>2, TableIs
<1>4. iterator' \in Nat /\ iterator' <= hashTable.size /\ passed' \subseteq HashKeys
      /\ (iterator' < hashTable.size => iterator' \in HM!Used(hashTable))
      /\ passed' = {hashTable.pairs[i].key : i \in {i \in HM!Used(hashTable) : i < iterator'}}
  <2>1. CASE HM!Start
    <3>1. iterator' = HM!Following(0) /\ passed' = {} /\ 0 \in 0 .. hashTable.size
      BY <1>3, <2>1 DEF HM!Start
    <3>2. /\ HM!Following(0) \in 0 .. hashTable.size
          /\ HM!Following(0) < hashTable.size => HM!Following(0) \in HM!Used(hashTable)
          /\ \A j \in HM!Used(hashTable) : j >= 0 => j >= HM!Following(0)
      BY <1>2, <3>1, FollowingIs
    <3>3. {i \in HM!Used(hashTable) : i < iterator'} = {}
      BY <1>3, <3>1, <3>2 DEF SlotsOf
    <3> QED
      BY <3>1, <3>2, <3>3
  <2>2. CASE HM!Step
    <3>1. /\ iterator # None /\ iterator # hashTable.size
          /\ passed' = passed \cup {hashTable.pairs[iterator].key} /\ iterator' = HM!Following(iterator + 1)
      BY <2>2 DEF HM!Step
    <3>2. /\ iterator \in Nat /\ iterator <= hashTable.size /\ iterator \in HM!Used(hashTable)
          /\ passed = {hashTable.pairs[i].key : i \in {i \in HM!Used(hashTable) : i < iterator}}
          /\ passed \subseteq HashKeys
      BY <1>3, <3>1 DEF MapKept, HM!Iterating
    <3>3. iterator + 1 \in 0 .. hashTable.size
      BY <1>3, <3>1, <3>2
    <3>4. /\ HM!Following(iterator + 1) \in iterator + 1 .. hashTable.size
          /\ HM!Following(iterator + 1) < hashTable.size => HM!Following(iterator + 1) \in HM!Used(hashTable)
          /\ \A j \in HM!Used(hashTable) : j >= iterator + 1 => j >= HM!Following(iterator + 1)
      BY <1>2, <3>3, FollowingIs
    <3>5. iterator' \in Nat /\ iterator' > iterator /\ iterator' <= hashTable.size
          /\ (iterator' < hashTable.size => iterator' \in HM!Used(hashTable))
      BY <1>3, <3>1, <3>2, <3>4
    <3>6. {i \in HM!Used(hashTable) : i < iterator'} = {i \in HM!Used(hashTable) : i < iterator} \cup {iterator}
      <4>1. \A i \in HM!Used(hashTable) : i < iterator' <=> i < iterator \/ i = iterator
        BY <1>3, <3>1, <3>2, <3>4, <3>5 DEF SlotsOf
      <4> QED
        BY <3>2, <4>1
    <3>7. passed' = {hashTable.pairs[i].key : i \in {i \in HM!Used(hashTable) : i < iterator'}}
      BY <3>1, <3>2, <3>6
    <3> QED
      BY <1>3, <3>1, <3>2, <3>5, <3>7
  <2> QED
    BY <2>1, <2>2
<1>5. HM!Iterating' /\ iterator' \in Nat \cup {None}
  BY <1>1, <1>4 DEF HM!Iterating, HM!Idle, HM!Used
<1>6. Layered(hashTable', resizes', HM!Graph') /\ HM!Settled(hashTable')
  BY <1>1, <1>2 DEF HM!Graph
<1>7. deletion'.c = 0 /\ DeletionIs' /\ DictionaryIs'
  BY <1>1, <1>2 DEF HM!NoDel, DeletionIs, MapKept, DictionaryIs
<1> QED
  BY <1>4, <1>5, <1>6, <1>7 DEF MapKept, HM!Deleting

-----------------------------------------------------------------------------
(* HashMap: deletions.                                                     *)

\* Distances seen from a slot.
LEMMA AroundIs ==
  ASSUME NEW t, IsTable(t), NEW o \in SlotsOf(t), NEW i \in SlotsOf(t), NEW j \in SlotsOf(t)
  PROVE  /\ HM!Distance(t, o, i) \in SlotsOf(t) /\ HM!Distance(t, o, j) \in SlotsOf(t)
         /\ HM!Distance(t, i, j) = IF HM!Distance(t, o, i) <= HM!Distance(t, o, j)
                                   THEN HM!Distance(t, o, j) - HM!Distance(t, o, i)
                                   ELSE HM!Distance(t, o, j) - HM!Distance(t, o, i) + t.size
         /\ (HM!Distance(t, o, i) = 0 <=> i = o)
         /\ (HM!Distance(t, o, i) = HM!Distance(t, o, j) => i = j)
BY DEF IsTable, SlotsOf, HM!Distance

\* The slot that is n slots on.
GoingOn(t, hole, n) == (hole + n) % t.size
LEMMA GoingOnIs ==
  ASSUME NEW t, IsTable(t), NEW o \in SlotsOf(t), NEW hole \in SlotsOf(t), NEW n \in 0 .. t.size - 1,
         NEW p, p = GoingOn(t, hole, n)
  PROVE  /\ p \in SlotsOf(t)
         /\ HM!Distance(t, o, p) = IF HM!Distance(t, o, hole) + n < t.size
                                                     THEN HM!Distance(t, o, hole) + n
                                                     ELSE HM!Distance(t, o, hole) + n - t.size
<1>1. t.size \in Nat \ {0} /\ hole \in Nat /\ hole < t.size
  BY DEF IsTable, SlotsOf
<1>2. hole % t.size = hole
  <2>1. 0 \in 0 .. t.size - 1
    BY <1>1
  <2> QED
    BY <1>1, <2>1, RemainderGoesOn
<1>3. (hole + n) % t.size = IF hole + n < t.size THEN hole + n ELSE hole + n - t.size
  BY <1>1, <1>2, RemainderGoesOn
<1>4. p = IF hole + n < t.size THEN hole + n ELSE hole + n - t.size
  BY <1>3 DEF GoingOn
<1>5. /\ p \in SlotsOf(t)
      /\ HM!Distance(t, o, p) = IF HM!Distance(t, o, hole) + n < t.size
                                                     THEN HM!Distance(t, o, hole) + n
                                                     ELSE HM!Distance(t, o, hole) + n - t.size
  BY <1>1, <1>4 DEF SlotsOf, HM!Distance
<1> QED
  BY <1>5

\* The pair in slot i is settled as far as f is concerned, seen from o.
Across(t, o, i, f) == /\ HM!Distance(t, o, HM!Home(t, i)) <= HM!Distance(t, o, f)
                      /\ HM!Distance(t, o, f) <= HM!Distance(t, o, i)
\* Seen from o, what is not settled is so for free slots before the loop of
\* del, which has not come to it yet.
SettledTo(t, o, here) ==
    \A i \in HM!Used(t) :
        /\ 1 <= HM!Distance(t, o, HM!Home(t, i)) /\ HM!Distance(t, o, HM!Home(t, i)) <= HM!Distance(t, o, i)
        /\ \A f \in HM!Free(t) :
              Across(t, o, i, f) => HM!Distance(t, o, f) < here /\ here <= HM!Distance(t, o, i)

LEMMA HomeIs ==
  ASSUME NEW t, IsTable(t), NEW i \in HM!Used(t)
  PROVE  HM!Home(t, i) \in SlotsOf(t) /\ HM!Home(t, i) = HomeOf(t, t.pairs[i].key) /\ i \in SlotsOf(t)
BY TableIs, AtIs DEF HM!Home, HomeOf

\* From a free slot, settled means that no free slot is across.
LEMMA SettledFrom ==
  ASSUME NEW t, IsTable(t), NEW o \in HM!Free(t)
  PROVE  HM!Settled(t) <=>
         \A i \in HM!Used(t) :
            /\ 1 <= HM!Distance(t, o, HM!Home(t, i)) /\ HM!Distance(t, o, HM!Home(t, i)) <= HM!Distance(t, o, i)
            /\ \A f \in HM!Free(t) : ~ Across(t, o, i, f)
<1>1. HM!Free(t) \subseteq SlotsOf(t) /\ o \in SlotsOf(t) /\ t.size \in Nat
  BY TableIs
<1>2. ASSUME NEW i \in HM!Used(t)
      PROVE  (\A f \in HM!Free(t) : HM!Distance(t, HM!Home(t, i), i) < HM!Distance(t, HM!Home(t, i), f))
             <=> /\ 1 <= HM!Distance(t, o, HM!Home(t, i))
                 /\ HM!Distance(t, o, HM!Home(t, i)) <= HM!Distance(t, o, i)
                 /\ \A f \in HM!Free(t) : ~ Across(t, o, i, f)
  <2> DEFINE h == HM!Home(t, i)
             x == HM!Distance(t, o, h)
             y == HM!Distance(t, o, i)
             z(f) == HM!Distance(t, o, f)
             d == HM!Distance(t, h, i)
             e(f) == HM!Distance(t, h, f)
  <2>1. h \in SlotsOf(t) /\ i \in SlotsOf(t)
    BY HomeIs
  <2> HIDE DEF h
  <2>2. /\ x \in 0 .. t.size - 1 /\ y \in 0 .. t.size - 1 /\ (x = 0 <=> h = o)
        /\ d = IF x <= y THEN y - x ELSE y - x + t.size
    BY <1>1, <2>1, AroundIs DEF SlotsOf
  <2>3. \A f \in HM!Free(t) : z(f) \in 0 .. t.size - 1 /\ e(f) = IF x <= z(f) THEN z(f) - x ELSE z(f) - x + t.size
    <3> SUFFICES ASSUME NEW f \in HM!Free(t)
                 PROVE  z(f) \in 0 .. t.size - 1 /\ e(f) = IF x <= z(f) THEN z(f) - x ELSE z(f) - x + t.size
      OBVIOUS
    <3>1. f \in SlotsOf(t)
      BY <1>1
    <3> QED
      BY <1>1, <2>1, <3>1, AroundIs DEF SlotsOf
  <2>4. z(o) = 0 /\ o \in HM!Free(t)
    BY <1>1, AroundIs
  <2>5. \A f \in HM!Free(t) : Across(t, o, i, f) <=> x <= z(f) /\ z(f) <= y
    BY DEF Across, h
  <2> HIDE DEF h, x, y, z, d, e
  <2>6. ASSUME \A f \in HM!Free(t) : d < e(f)
        PROVE  1 <= x /\ x <= y /\ \A f \in HM!Free(t) : ~ (x <= z(f) /\ z(f) <= y)
    <3>1. d < e(o) /\ e(o) = IF x <= 0 THEN 0 - x ELSE 0 - x + t.size
      BY <2>3, <2>4, <2>6
    <3>2. 1 <= x /\ x <= y
      BY <1>1, <2>2, <3>1
    <3>3. \A f \in HM!Free(t) : ~ (x <= z(f) /\ z(f) <= y)
      BY <1>1, <2>2, <2>3, <2>6, <3>2
    <3> QED
      BY <3>2, <3>3
  <2>7. ASSUME 1 <= x, x <= y, \A f \in HM!Free(t) : ~ (x <= z(f) /\ z(f) <= y)
        PROVE  \A f \in HM!Free(t) : d < e(f)
    BY <1>1, <2>2, <2>3, <2>7
  <2>8. (\A f \in HM!Free(t) : d < e(f)) <=> (1 <= x /\ x <= y /\ \A f \in HM!Free(t) : ~ Across(t, o, i, f))
    BY <2>5, <2>6, <2>7
  <2> QED
    BY <2>8 DEF h, x, y, z, d, e
<1> QED
  BY <1>2 DEF HM!Settled

\* What Deleting says, with the way it is seen.
LEMMA DeletingIs ==
  HM!Deleting <=>
    (deletion.c # 0 =>
        /\ resizes = <<>> /\ deletion.c = hashTable.size /\ deletion.hole < deletion.c
        /\ 2 * hashTable.num <= hashTable.size
        /\ \E o \in HM!Free(hashTable) \ {deletion.hole} :
               /\ HM!Distance(hashTable, o, deletion.hole) + deletion.i <= hashTable.size
               /\ SettledTo(hashTable, o, HM!Distance(hashTable, o, deletion.hole) + deletion.i))
BY DEF HM!Deleting, SettledTo, Across

LEMMA DeletingHolds ==
  ASSUME deletion'.c # 0, resizes' = <<>>, deletion'.c = hashTable'.size, deletion'.hole < deletion'.c,
         2 * hashTable'.num <= hashTable'.size, NEW o \in HM!Free(hashTable'), o # deletion'.hole,
         NEW here, here = HM!Distance(hashTable', o, deletion'.hole) + deletion'.i,
         here <= hashTable'.size, SettledTo(hashTable', o, here)
  PROVE  HM!Deleting'
BY DEF HM!Deleting, SettledTo, Across, HM!Used, HM!Free, HM!Home

LEMMA MapDeletes ==
  ASSUME MapKept, NEW k \in HashKeys, HM!DoDel(k)
  PROVE  MapKept'
<1> DEFINE t == hashTable
           u == hashTable'
           j == HM!Probe(t, k)
<1>1. /\ HM!Settled(t) /\ resizes = <<>> /\ IsTable(t) /\ HM!Sound(t) /\ HM!Graph = HM!Contents(t)
      /\ HM!Has(t, k)
  BY MapIdle DEF HM!DoDel
<1>2. /\ u = HM!Removed(t, j) /\ deletion' = [hole |-> j, i |-> 1, c |-> t.size] /\ resizes' = <<>>
      /\ dictionary' = [l \in DOMAIN dictionary \ {k} |-> dictionary[l]] /\ iterator' = None /\ passed' = {}
  BY <1>1 DEF HM!DoDel, HM!Modified
<1>3. j \in HM!Used(t) /\ t.pairs[j].key = k /\ j \in SlotsOf(t)
  <2>1. PICK l \in HM!Used(t) : t.pairs[l].key = k
    BY <1>1, SettledProbe
  <2> QED
    BY <1>1, <2>1, SettledProbe
<1>4. t.size \in Nat /\ t.size >= 3 /\ HM!Free(t) \subseteq SlotsOf(t) /\ HM!Used(t) \subseteq SlotsOf(t)
      /\ HM!Free(t) \cap HM!Used(t) = {}
  BY <1>1, TableIs DEF HM!Free
<1> HIDE DEF t, u, j
<1>5. /\ IsTable(u) /\ u.size = t.size /\ HM!Sound(u) /\ 2 * u.num <= u.size
      /\ HM!Used(u) = HM!Used(t) \ {j} /\ HM!Free(u) = HM!Free(t) \cup {j}
      /\ \A i \in SlotsOf(t) \ {j} : u.pairs[i] = t.pairs[i]
      /\ HM!Contents(u) = HM!Contents(t) \ {t.pairs[j]}
  BY <1>1, <1>2, <1>3, RemovedIs
<1>6. HM!Graph' = HM!Contents(u)
  <2>1. \A l : HM!Pair(l, dictionary[l]).key = l
    BY DEF HM!Pair
  <2>2. \A q : q \in HM!Graph <=> \E l \in DOMAIN dictionary : q = HM!Pair(l, dictionary[l])
    BY DEF HM!Graph
  <2>3. \A q : q \in HM!Graph' <=> \E l \in DOMAIN dictionary \ {k} : q = HM!Pair(l, dictionary[l])
    <3>1. DOMAIN dictionary' = DOMAIN dictionary \ {k} /\ \A l \in DOMAIN dictionary' : dictionary'[l] = dictionary[l]
      BY <1>2
    <3> QED
      BY <3>1 DEF HM!Graph
  <2>4. t.pairs[j] \in HM!Contents(t)
    BY <1>3 DEF HM!Contents
  <2>5. \A q \in HM!Contents(t) : q.key = k <=> q = t.pairs[j]
    BY <1>1, <1>3, <2>4, OneOfAKey
  <2>6. \A q : q \in HM!Graph' <=> q \in HM!Graph /\ q.key # k
    BY <2>1, <2>2, <2>3
  <2> QED
    BY <1>1, <1>5, <2>5, <2>6
<1>7. Layered(u, resizes', HM!Graph')
  BY <1>2, <1>5, <1>6, NoLayers
<1>8. PICK o : o \in HM!Free(t)
  BY <1>1, SoundIs
<1> DEFINE here == HM!Distance(t, o, j) + 1
<1>9. o # j /\ o \in SlotsOf(t) /\ o \in HM!Free(u)
  BY <1>3, <1>4, <1>5, <1>8
<1>10. \A a, b : HM!Distance(u, a, b) = HM!Distance(t, a, b)
  BY <1>5 DEF HM!Distance
<1>11. HM!Distance(t, o, j) \in 0 .. t.size - 1 /\ here <= t.size
  <2>1. HM!Distance(t, o, j) \in 0 .. t.size - 1
    BY <1>1, <1>3, <1>9, DistanceIs DEF SlotsOf
  <2> QED
    BY <1>4, <2>1
<1>12. SettledTo(u, o, here)
  <2> SUFFICES ASSUME NEW i \in HM!Used(u)
               PROVE  /\ 1 <= HM!Distance(u, o, HM!Home(u, i))
                      /\ HM!Distance(u, o, HM!Home(u, i)) <= HM!Distance(u, o, i)
                      /\ \A f \in HM!Free(u) :
                            Across(u, o, i, f) => HM!Distance(u, o, f) < here /\ here <= HM!Distance(u, o, i)
    BY DEF SettledTo
  <2>1. i \in HM!Used(t) /\ i # j /\ i \in SlotsOf(t)
    BY <1>4, <1>5
  <2>2. HM!Home(u, i) = HM!Home(t, i)
    BY <1>5, <2>1 DEF HM!Home
  <2>3. /\ 1 <= HM!Distance(t, o, HM!Home(t, i)) /\ HM!Distance(t, o, HM!Home(t, i)) <= HM!Distance(t, o, i)
        /\ \A f \in HM!Free(t) : ~ Across(t, o, i, f)
    BY <1>1, <1>8, <2>1, SettledFrom
  <2>4. HM!Distance(t, o, i) \in 0 .. t.size - 1 /\ HM!Distance(t, o, i) # HM!Distance(t, o, j)
    BY <1>1, <1>3, <1>9, <2>1, DistanceIs DEF SlotsOf
  <2>5. ASSUME NEW f \in HM!Free(u), Across(u, o, i, f)
        PROVE  HM!Distance(u, o, f) < here /\ here <= HM!Distance(u, o, i)
    <3>1. Across(t, o, i, f)
      BY <1>10, <2>2, <2>5 DEF Across
    <3>2. f = j /\ HM!Distance(t, o, j) <= HM!Distance(t, o, i)
      BY <1>5, <2>3, <3>1 DEF Across
    <3> QED
      BY <1>4, <1>10, <1>11, <2>4, <3>2
  <2> QED
    BY <1>10, <2>2, <2>3, <2>5
<1>13. deletion'.c = t.size /\ deletion'.hole = j /\ deletion'.i = 1
  BY <1>2
<1>14. HM!Deleting'
  <2>1. here = HM!Distance(u, o, j) + 1
    BY <1>10
  <2>2. j < t.size /\ t.size # 0
    BY <1>3, <1>4 DEF SlotsOf
  <2> HIDE DEF here
  <2> QED
    BY <1>2, <1>5, <1>9, <1>11, <1>12, <1>13, <2>1, <2>2, DeletingHolds DEF u
<1>15. DictionaryIs'
  BY <1>2 DEF MapKept, DictionaryIs
<1>16. DeletionIs' /\ deletion'.c # 0
  BY <1>2, <1>3, <1>4 DEF DeletionIs, SlotsOf
<1>17. HM!Iterating' /\ iterator' \in Nat \cup {None} /\ passed' \subseteq HashKeys
  BY <1>2 DEF HM!Iterating
<1> QED
  BY <1>7, <1>14, <1>15, <1>16, <1>17 DEF MapKept, u

\* The loop of del ends: the slot it has come to is free.
LEMMA LoopEnds ==
  ASSUME NEW t, IsTable(t), NEW o \in HM!Free(t), NEW here \in Int, SettledTo(t, o, here),
         here >= t.size \/ \E p \in HM!Free(t) : HM!Distance(t, o, p) = here
  PROVE  HM!Settled(t)
<1>1. HM!Free(t) \subseteq SlotsOf(t) /\ o \in SlotsOf(t) /\ t.size \in Nat
  BY TableIs
<1>2. \A x \in SlotsOf(t) : HM!Distance(t, o, x) \in 0 .. t.size - 1
  BY <1>1, DistanceIs DEF SlotsOf
<1>3. ASSUME NEW i \in HM!Used(t), NEW f \in HM!Free(t), Across(t, o, i, f) PROVE FALSE
  <2>1. HM!Distance(t, o, f) < here /\ here <= HM!Distance(t, o, i)
    BY <1>3 DEF SettledTo
  <2>2. HM!Distance(t, o, i) \in 0 .. t.size - 1 /\ HM!Distance(t, o, f) \in 0 .. t.size - 1
        /\ HM!Distance(t, o, HM!Home(t, i)) \in 0 .. t.size - 1
    BY <1>1, <1>2, HomeIs
  <2>3. PICK p \in HM!Free(t) : HM!Distance(t, o, p) = here
    BY <1>1, <2>1, <2>2
  <2>4. Across(t, o, i, p)
    <3>1. HM!Distance(t, o, HM!Home(t, i)) <= HM!Distance(t, o, f)
      BY <1>3 DEF Across
    <3> DEFINE a == HM!Distance(t, o, HM!Home(t, i))
               b == HM!Distance(t, o, f)
               c == HM!Distance(t, o, i)
    <3>2. a \in Int /\ b \in Int /\ c \in Int /\ a <= b /\ b < here /\ here <= c
      BY <2>1, <2>2, <3>1
    <3> HIDE DEF a, b, c
    <3>3. a <= here /\ here <= c
      BY <3>2
    <3> QED
      BY <2>3, <3>3 DEF Across, a, c
  <2>5. HM!Distance(t, o, p) < here
    BY <2>4 DEF SettledTo
  <2> QED
    BY <2>3, <2>5
<1>4. \A i \in HM!Used(t) :
            /\ 1 <= HM!Distance(t, o, HM!Home(t, i)) /\ HM!Distance(t, o, HM!Home(t, i)) <= HM!Distance(t, o, i)
            /\ \A f \in HM!Free(t) : ~ Across(t, o, i, f)
  BY <1>3 DEF SettledTo
<1> QED
  BY <1>4, SettledFrom

\* The loop of del goes on from a pair that is in its home.
LEMMA LoopSkips ==
  ASSUME NEW t, IsTable(t), NEW o \in HM!Free(t), NEW here \in Int, SettledTo(t, o, here),
         NEW p \in HM!Used(t), HM!Distance(t, o, p) = here, HM!Home(t, p) = p
  PROVE  SettledTo(t, o, here + 1)
<1>1. HM!Free(t) \subseteq SlotsOf(t) /\ o \in SlotsOf(t) /\ t.size \in Nat
  BY TableIs
<1>2. ASSUME NEW i \in HM!Used(t), NEW f \in HM!Free(t), Across(t, o, i, f)
      PROVE  HM!Distance(t, o, f) < here + 1 /\ here + 1 <= HM!Distance(t, o, i)
  <2>1. HM!Distance(t, o, f) < here /\ here <= HM!Distance(t, o, i)
    BY <1>2 DEF SettledTo
  <2>2. i \in SlotsOf(t) /\ p \in SlotsOf(t) /\ f \in SlotsOf(t)
    BY <1>1, TableIs
  <2>3. HM!Distance(t, o, i) \in Int /\ HM!Distance(t, o, f) \in Int
    <3>1. HM!Distance(t, o, i) \in SlotsOf(t) /\ HM!Distance(t, o, f) \in SlotsOf(t)
      BY <1>1, <2>2, DistanceIs
    <3> QED
      BY <3>1 DEF SlotsOf
  <2>4. i # p
    <3>1. HM!Distance(t, o, HM!Home(t, i)) <= HM!Distance(t, o, f)
      BY <1>2 DEF Across
    <3>2. i = p => here <= HM!Distance(t, o, f)
      BY <3>1
    <3> QED
      BY <2>1, <2>3, <3>2
  <2>5. HM!Distance(t, o, i) # here
    BY <1>1, <2>2, <2>4, DistanceIs
  <2> QED
    BY <2>1, <2>3, <2>5
<1> QED
  BY <1>2 DEF SettledTo

\* It moves a pair to the first free slot behind its home, or leaves it.
LEMMA LoopMoves ==
  ASSUME NEW t, IsTable(t), HM!Sound(t), 2 * t.num <= t.size, NEW o \in HM!Free(t),
         NEW here \in Int, SettledTo(t, o, here), NEW p \in HM!Used(t), HM!Distance(t, o, p) = here,
         NEW r, r = HM!Removed(t, p), NEW u, u = HM!Store(r, t.pairs[p].key, t.pairs[p].value)
  PROVE  /\ ~ 2 * r.num > r.size
         /\ IsTable(u) /\ u.size = t.size /\ HM!Sound(u) /\ 2 * u.num <= u.size
         /\ HM!Contents(u) = HM!Contents(t) /\ o \in HM!Free(u) /\ SettledTo(u, o, here + 1)
<1> DEFINE k == t.pairs[p].key
           v == t.pairs[p].value
           h == HM!Home(t, p)
           j == HM!Probe(r, k)
<1>1. /\ t.size \in Nat \ {0} /\ t.size >= 3 /\ t.num \in Nat
      /\ HM!Used(t) \subseteq SlotsOf(t) /\ HM!Free(t) \subseteq SlotsOf(t) /\ HM!Free(t) \cap HM!Used(t) = {}
      /\ HM!Free(t) = SlotsOf(t) \ HM!Used(t)
  BY TableIs DEF HM!Free, SlotsOf
<1>2. /\ IsTable(r) /\ r.size = t.size /\ r.num = t.num - 1 /\ HM!Sound(r) /\ 2 * r.num <= r.size
      /\ HM!Used(r) = HM!Used(t) \ {p} /\ HM!Free(r) = HM!Free(t) \cup {p}
      /\ \A i \in SlotsOf(t) \ {p} : r.pairs[i] = t.pairs[i]
      /\ HM!Contents(r) = HM!Contents(t) \ {t.pairs[p]}
  BY RemovedIs
<1>3. /\ t.pairs[p] \in HM!Pairs /\ k \in HashKeys /\ v \in HashValues /\ HM!Pair(k, v) = t.pairs[p]
      /\ HM!Pair(k, v) # None /\ HM!Pair(k, v).key = k
  <2>1. t.pairs[p] \in HM!Pairs /\ t.pairs[p] # None
    BY TableIs
  <2> QED
    BY <2>1 DEF HM!Pairs, HM!Pair
<1>4. \A i \in HM!Used(r) : r.pairs[i].key # k
  <2> SUFFICES ASSUME NEW i \in HM!Used(r) PROVE r.pairs[i].key # k
    OBVIOUS
  <2>1. i \in HM!Used(t) /\ i # p /\ r.pairs[i] = t.pairs[i]
    BY <1>1, <1>2
  <2> QED
    BY <2>1, SoundIs
<1>5. h \in SlotsOf(t) /\ h = HomeOf(r, k) /\ p \in SlotsOf(t) /\ o \in SlotsOf(t)
  BY <1>1, <1>2, HomeIs DEF HomeOf, HM!Home
<1>6. \A a, b : HM!Distance(r, a, b) = HM!Distance(t, a, b)
  BY <1>2 DEF HM!Distance
<1> HIDE DEF k, v, h, j
<1>7. /\ j \in HM!Free(r) /\ j \in SlotsOf(r) /\ HM!Ends(r, k, j)
      /\ \A f \in HM!Free(r) : HM!Distance(t, h, j) <= HM!Distance(t, h, f)
  <2> DEFINE E == {i \in SlotsOf(r) : HM!Ends(r, k, i)}
  <2>1. \A i : i \in E <=> i \in HM!Free(r)
    <3>1. \A i \in SlotsOf(r) : i \in HM!Free(r) <=> r.pairs[i] = None
      BY <1>2, TableIs
    <3>2. \A i \in SlotsOf(r) : i \in HM!Used(r) <=> r.pairs[i] # None
      BY <1>2, TableIs
    <3>3. HM!Free(r) \subseteq SlotsOf(r)
      BY <1>2, TableIs
    <3> QED
      BY <1>4, <3>1, <3>2, <3>3 DEF HM!Ends
  <2>2. E # {}
    BY <1>2, <2>1
  <2>3. j \in E /\ \A i \in E : HM!Distance(r, HomeOf(r, k), j) <= HM!Distance(r, HomeOf(r, k), i)
    BY <1>2, <1>3, <2>2, ProbeIs DEF j
  <2> QED
    BY <1>5, <1>6, <2>1, <2>3
<1>8. j \in SlotsOf(t) /\ r.pairs[j] = None
  BY <1>2, <1>7, TableIs DEF SlotsOf
<1>9. /\ IsTable(u) /\ u.size = r.size /\ HM!Sound(u)
      /\ HM!Used(u) = HM!Used(r) \cup {j} /\ HM!Free(u) = HM!Free(r) \ {j}
      /\ u.pairs[j] = HM!Pair(k, v) /\ \A i \in SlotsOf(r) \ {j} : u.pairs[i] = r.pairs[i]
      /\ HM!Contents(u) = HM!With(HM!Contents(r), HM!Pair(k, v))
  <2>1. u = HM!Store(r, k, v) /\ j = HM!Probe(r, k)
    BY DEF k, v, j
  <2>2. r.pairs[j] = None => \A i \in HM!Used(r) : r.pairs[i].key # k
    BY <1>4
  <2>3. /\ IsTable(HM!Store(r, k, v)) /\ HM!Store(r, k, v).size = r.size /\ HM!Sound(HM!Store(r, k, v))
        /\ HM!Used(HM!Store(r, k, v)) = HM!Used(r) \cup {j} /\ HM!Free(HM!Store(r, k, v)) = HM!Free(r) \ {j}
        /\ HM!Store(r, k, v).pairs[j] = HM!Pair(k, v)
        /\ \A i \in SlotsOf(r) \ {j} : HM!Store(r, k, v).pairs[i] = r.pairs[i]
        /\ HM!Contents(HM!Store(r, k, v)) = HM!With(HM!Contents(r), HM!Pair(k, v))
    <3>1. IsTable(r) /\ HM!Sound(r) /\ 2 * r.num <= r.size /\ k \in HashKeys /\ v \in HashValues
          /\ j \in SlotsOf(r) /\ j = HM!Probe(r, k) /\ HM!Ends(r, k, j)
      BY <1>2, <1>3, <1>7, <2>1
    <3> QED
      BY ONLY <3>1, <2>2, StoreIs
  <2> QED
    BY <2>1, <2>3
<1>10. u.num = t.num
  <2>1. u = [size |-> r.size, pairs |-> [r.pairs EXCEPT ![j] = HM!Pair(k, v)],
             num |-> IF r.pairs[j] = None THEN r.num + 1 ELSE r.num]
    BY DEF HM!Store, j, k, v
  <2>2. u.num = r.num + 1
    BY <1>8, <2>1
  <2> QED
    BY <1>1, <1>2, <2>2
<1>11. HM!Contents(u) = HM!Contents(t)
  <2>1. t.pairs[p] \in HM!Contents(t)
    BY DEF HM!Contents
  <2>2. \A q \in HM!Contents(r) : q.key # k
    BY <1>4 DEF HM!Contents
  <2>3. HM!With(HM!Contents(r), HM!Pair(k, v)) = {q \in HM!Contents(r) : q.key # k} \cup {HM!Pair(k, v)}
    BY <1>3 DEF HM!With
  <2>4. {q \in HM!Contents(r) : q.key # k} = HM!Contents(r)
    BY <2>2
  <2>5. HM!Contents(u) = HM!Contents(r) \cup {t.pairs[p]}
    BY <1>3, <1>9, <2>3, <2>4
  <2> QED
    BY <1>2, <2>1, <2>5
\* Where the pair goes, seen from o.
<1> DEFINE From(x) == HM!Distance(t, o, x)
<1>12. /\ \A x \in SlotsOf(t) : From(x) \in 0 .. t.size - 1
       /\ \A x, y \in SlotsOf(t) : From(x) = From(y) => x = y
       /\ \A x \in SlotsOf(t) : HM!Distance(t, h, x) = IF From(h) <= From(x) THEN From(x) - From(h)
                                                       ELSE From(x) - From(h) + t.size
       /\ From(o) = 0
  <2>1. \A x \in SlotsOf(t) : From(x) \in 0 .. t.size - 1
    BY <1>5, DistanceIs DEF SlotsOf
  <2>2. \A x, y \in SlotsOf(t) : From(x) = From(y) => x = y
    BY <1>5, DistanceIs
  <2>3. \A x \in SlotsOf(t) : HM!Distance(t, h, x) = IF From(h) <= From(x) THEN From(x) - From(h)
                                                       ELSE From(x) - From(h) + t.size
    BY <1>5, AroundIs
  <2>4. From(o) = 0
    BY <1>5, AroundIs
  <2> QED
    BY <2>1, <2>2, <2>3, <2>4
<1>13. 1 <= From(h) /\ From(h) <= From(p) /\ From(p) = here
  BY DEF SettledTo, h
<1> HIDE DEF From
<1>14. From(h) <= From(j) /\ From(j) <= here
       /\ \A f \in HM!Free(u) : ~ (From(h) <= From(f) /\ From(f) <= From(j))
  <2>1. HM!Distance(t, h, j) <= HM!Distance(t, h, p)
    BY <1>2, <1>7
  <2>2. From(h) <= From(j) /\ From(j) <= here
    BY <1>1, <1>5, <1>8, <1>12, <1>13, <2>1
  <2>3. ASSUME NEW f \in HM!Free(u), From(h) <= From(f), From(f) <= From(j) PROVE FALSE
    <3>1. f \in HM!Free(r) /\ f # j /\ f \in SlotsOf(t)
      BY <1>1, <1>2, <1>5, <1>9
    <3>2. HM!Distance(t, h, j) <= HM!Distance(t, h, f) /\ From(f) # From(j)
      BY <1>7, <1>8, <1>12, <3>1
    <3> QED
      BY <1>5, <1>8, <1>12, <2>2, <2>3, <3>1, <3>2
  <2> QED
    BY <2>2, <2>3
<1>15. o \in HM!Free(u)
  <2>1. From(h) \in Int /\ From(j) \in Int
    BY <1>5, <1>8, <1>12
  <2>2. o # j
    BY <1>12, <1>13, <1>14, <2>1
  <2> QED
    BY <1>2, <1>9, <2>2
<1>16. \A a, b : HM!Distance(u, a, b) = HM!Distance(t, a, b)
  BY <1>2, <1>9 DEF HM!Distance
<1>17. \A x : HM!Distance(u, o, x) = From(x)
  BY <1>16 DEF From
<1>18. HM!Home(u, j) = h
  BY <1>2, <1>3, <1>5, <1>9 DEF HM!Home, HomeOf
<1>19. \A i \in HM!Used(t) \ {p} : i # j => HM!Home(u, i) = HM!Home(t, i)
  <2> SUFFICES ASSUME NEW i \in HM!Used(t) \ {p}, i # j PROVE HM!Home(u, i) = HM!Home(t, i)
    OBVIOUS
  <2>1. i \in SlotsOf(t) /\ SlotsOf(r) = SlotsOf(t)
    BY <1>1, <1>2 DEF SlotsOf
  <2>2. u.pairs[i] = t.pairs[i]
    BY <1>2, <1>9, <2>1
  <2> QED
    BY <1>2, <1>9, <2>2 DEF HM!Home
<1>20. SettledTo(u, o, here + 1)
  <2> SUFFICES ASSUME NEW i \in HM!Used(u)
               PROVE  /\ 1 <= From(HM!Home(u, i)) /\ From(HM!Home(u, i)) <= From(i)
                      /\ \A f \in HM!Free(u) :
                            From(HM!Home(u, i)) <= From(f) /\ From(f) <= From(i)
                            => From(f) < here + 1 /\ here + 1 <= From(i)
    BY <1>17 DEF SettledTo, Across
  <2>1. CASE i = j
    BY <1>13, <1>14, <1>18, <2>1
  <2>2. CASE i # j
    <3>1. i \in HM!Used(t) /\ i # p /\ i \in SlotsOf(t) /\ HM!Home(u, i) = HM!Home(t, i)
      BY <1>1, <1>2, <1>9, <1>19, <2>2
    <3>2. /\ 1 <= From(HM!Home(t, i)) /\ From(HM!Home(t, i)) <= From(i)
          /\ \A f \in HM!Free(t) :
                From(HM!Home(t, i)) <= From(f) /\ From(f) <= From(i) => From(f) < here /\ here <= From(i)
      BY <3>1 DEF SettledTo, Across, From
    <3>3. From(i) # here /\ From(i) \in 0 .. t.size - 1
      BY <1>5, <1>12, <1>13, <3>1
    <3>4. ASSUME NEW f \in HM!Free(u), From(HM!Home(t, i)) <= From(f), From(f) <= From(i)
          PROVE  From(f) < here + 1 /\ here + 1 <= From(i)
      <4>1. f \in HM!Free(t) \/ f = p
        BY <1>2, <1>9
      <4>2. CASE f \in HM!Free(t)
        <5>1. From(f) < here /\ here <= From(i) /\ From(f) \in 0 .. t.size - 1
          BY <1>1, <1>12, <3>2, <3>4, <4>2
        <5> QED
          BY <3>3, <5>1
      <4>3. CASE f = p
        BY <1>13, <3>3, <3>4, <4>3
      <4> QED
        BY <4>1, <4>2, <4>3
    <3> QED
      BY <3>1, <3>2, <3>4
  <2> QED
    BY <2>1, <2>2
<1>21. ~ 2 * r.num > r.size
  BY <1>1, <1>2
<1> QED
  BY <1>2, <1>9, <1>10, <1>11, <1>15, <1>20, <1>21

LEMMA MapReinserts ==
  ASSUME MapKept, HM!Reinsert
  PROVE  MapKept'
<1> DEFINE t == hashTable
           hole == deletion.hole
           n == deletion.i
           p == (hole + n) % deletion.c
           pair == t.pairs[p]
<1>1. /\ deletion.c # 0 /\ UNCHANGED <<dictionary, iterator, passed>> /\ resizes = <<>>
      /\ IF n >= deletion.c \/ pair = None THEN deletion' = HM!NoDel /\ UNCHANGED <<hashTable, resizes>>
         ELSE /\ deletion' = [deletion EXCEPT !.i = @ + 1]
              /\ IF Hash[pair.key] % deletion.c = p THEN UNCHANGED <<hashTable, resizes>>
                 ELSE HM!Set(HM!Removed(t, p), resizes, pair.key, pair.value)
  BY DEF HM!Reinsert
<1>2. /\ IsTable(t) /\ HM!Sound(t) /\ HM!Graph = HM!Contents(t) /\ Layered(t, <<>>, HM!Graph)
      /\ deletion \in [hole : Nat, i : Nat, c : Nat] /\ DictionaryIs /\ passed \subseteq HashKeys
      /\ HM!Deleting
  BY <1>1, NoLayers DEF MapKept, DeletionIs
<1>3. deletion.c = t.size /\ hole < t.size /\ 2 * t.num <= t.size
  BY <1>1, <1>2, DeletingIs
<1>4. PICK o \in HM!Free(t) \ {hole} :
          HM!Distance(t, o, hole) + n <= t.size /\ SettledTo(t, o, HM!Distance(t, o, hole) + n)
  BY <1>1, <1>2, DeletingIs
<1>5. iterator = None /\ iterator' = None
  BY <1>1 DEF MapKept, HM!Iterating, HM!Idle, HM!NoDel
<1>6. PICK here : here = HM!Distance(t, o, hole) + n
  OBVIOUS
<1>7. /\ t.size \in Nat \ {0} /\ hole \in SlotsOf(t) /\ n \in Nat /\ o \in SlotsOf(t) /\ o # hole
      /\ HM!Free(t) = {i \in SlotsOf(t) : t.pairs[i] = None}
  BY <1>2, <1>3, <1>4, TableIs DEF SlotsOf
<1>8. HM!Distance(t, o, hole) \in 1 .. t.size - 1 /\ here \in Nat /\ n < t.size
  <2>1. HM!Distance(t, o, hole) \in SlotsOf(t) /\ HM!Distance(t, o, hole) # 0
    BY <1>2, <1>7, AroundIs
  <2>2. HM!Distance(t, o, hole) \in 1 .. t.size - 1
    BY <1>7, <2>1 DEF SlotsOf
  <2> QED
    BY <1>4, <1>7, <1>6, <2>2
<1>9. o \in HM!Free(t) /\ SettledTo(t, o, here) /\ here <= t.size
  BY <1>4, <1>6
<1>10. deletion = [hole |-> hole, i |-> n, c |-> t.size]
  BY <1>2, <1>3
<1>11. p = GoingOn(t, hole, n)
  BY <1>3 DEF GoingOn
<1> HIDE DEF t, hole, n, p, pair
<1>12. p \in SlotsOf(t) /\ HM!Distance(t, o, p) = IF here < t.size THEN here ELSE here - t.size
  <2>1. n \in 0 .. t.size - 1
    BY <1>7, <1>8
  <2> QED
    <3>1. IsTable(t) /\ o \in SlotsOf(t) /\ hole \in SlotsOf(t)
      BY <1>2, <1>7
    <3>2. /\ p \in SlotsOf(t)
          /\ HM!Distance(t, o, p) = IF HM!Distance(t, o, hole) + n < t.size
                                    THEN HM!Distance(t, o, hole) + n
                                    ELSE HM!Distance(t, o, hole) + n - t.size
      BY ONLY <1>11, <2>1, <3>1, GoingOnIs
    <3> QED
      BY ONLY <1>6, <1>7, <1>8, <3>2
<1>13. CASE pair = None
  <2>1. deletion' = HM!NoDel /\ UNCHANGED <<hashTable, resizes>>
    BY <1>1, <1>13
  <2>2. HM!Settled(t)
    <3>1. p \in HM!Free(t)
      BY <1>7, <1>12, <1>13 DEF pair
    <3>2. here >= t.size \/ HM!Distance(t, o, p) = here
      BY <1>7, <1>8, <1>12
    <3>3. here >= t.size \/ \E q \in HM!Free(t) : HM!Distance(t, o, q) = here
      BY <3>1, <3>2
    <3>4. here \in Int
      BY <1>8
    <3> QED
      BY <1>2, <1>9, <3>3, <3>4, LoopEnds
  <2>3. Layered(hashTable', resizes', HM!Graph') /\ HM!Settled(hashTable') /\ DictionaryIs'
    BY <1>1, <1>2, <2>1, <2>2 DEF HM!Graph, DictionaryIs, t
  <2>4. deletion'.c = 0 /\ DeletionIs'
    BY <2>1 DEF HM!NoDel, DeletionIs
  <2> QED
    BY <1>1, <1>2, <1>5, <2>3, <2>4 DEF MapKept, HM!Deleting, HM!Iterating
<1>14. CASE pair # None
  <2>1. deletion' = [hole |-> hole, i |-> n + 1, c |-> t.size]
    <3>1. ~ n >= deletion.c
      BY <1>3, <1>7, <1>8
    <3>2. deletion' = [deletion EXCEPT !.i = @ + 1]
      BY <1>1, <1>14, <3>1
    <3> QED
      BY <1>10, <3>2
  <2>2. /\ IF Hash[pair.key] % t.size = p THEN UNCHANGED <<hashTable, resizes>>
           ELSE HM!Set(HM!Removed(t, p), resizes, pair.key, pair.value)
    <3>1. ~ n >= deletion.c
      BY <1>3, <1>7, <1>8
    <3> QED
      BY <1>1, <1>3, <1>14, <3>1
  <2>3. p \in HM!Used(t) /\ p # o /\ HM!Home(t, p) = Hash[pair.key] % t.size
    BY <1>7, <1>12, <1>9, <1>14 DEF HM!Used, SlotsOf, HM!Home, pair
  <2>4. here < t.size /\ HM!Distance(t, o, p) = here
    <3>1. HM!Distance(t, o, p) # 0
      BY <1>2, <1>7, <1>12, <2>3, AroundIs
    <3> QED
      BY <1>7, <1>8, <1>12, <1>9, <3>1
  <2>5. /\ IsTable(hashTable') /\ hashTable'.size = t.size /\ HM!Sound(hashTable')
        /\ 2 * hashTable'.num <= hashTable'.size /\ HM!Contents(hashTable') = HM!Contents(t)
        /\ o \in HM!Free(hashTable') /\ SettledTo(hashTable', o, here + 1) /\ resizes' = <<>>
    <3>1. CASE Hash[pair.key] % t.size = p
      <4>1. hashTable' = t /\ resizes' = <<>>
        BY <1>1, <2>2, <3>1 DEF t
      <4>2. SettledTo(t, o, here + 1)
        BY <1>2, <1>8, <1>9, <2>3, <2>4, <3>1, LoopSkips
      <4> QED
        BY <1>2, <1>3, <1>9, <4>1, <4>2
    <3>2. CASE Hash[pair.key] % t.size # p
      <4> DEFINE r == HM!Removed(t, p)
                 u == HM!Store(r, t.pairs[p].key, t.pairs[p].value)
      <4>1. r = HM!Removed(t, p) /\ u = HM!Store(r, t.pairs[p].key, t.pairs[p].value)
        OBVIOUS
      <4> HIDE DEF r, u
      <4>2. here \in Int
        BY <1>8
      <4>3. /\ ~ 2 * r.num > r.size
            /\ IsTable(u) /\ u.size = t.size /\ HM!Sound(u) /\ 2 * u.num <= u.size
            /\ HM!Contents(u) = HM!Contents(t) /\ o \in HM!Free(u) /\ SettledTo(u, o, here + 1)
        BY ONLY <1>2, <1>3, <1>9, <2>3, <2>4, <4>1, <4>2, LoopMoves
      <4>4. HM!Set(r, resizes, t.pairs[p].key, t.pairs[p].value)
        BY <2>2, <3>2, <4>1 DEF pair
      <4>5. hashTable' = u /\ resizes' = resizes
        BY <4>1, <4>3, <4>4 DEF HM!Set
      <4> QED
        BY <1>1, <4>3, <4>5
    <3> QED
      BY <3>1, <3>2
  <2>6. HM!Graph' = HM!Graph /\ DictionaryIs'
    BY <1>1, <1>2 DEF HM!Graph, DictionaryIs
  <2>7. Layered(hashTable', resizes', HM!Graph')
    BY <1>2, <2>5, <2>6, NoLayers
  <2>8. deletion'.c = t.size /\ deletion'.hole = hole /\ deletion'.i = n + 1
    BY <2>1
  <2>9. DeletionIs' /\ deletion'.c # 0
    BY <1>7, <2>1, <2>8 DEF DeletionIs, SlotsOf
  <2>10. HM!Deleting'
    <3>1. \A a, b : HM!Distance(hashTable', a, b) = HM!Distance(t, a, b)
      BY <2>5 DEF HM!Distance
    <3>2. here + 1 = HM!Distance(hashTable', o, deletion'.hole) + deletion'.i
      <4>1. HM!Distance(t, o, hole) \in Int /\ n \in Int
        BY <1>7, <1>8
      <4> QED
        BY <1>6, <2>8, <3>1, <4>1
    <3>3. here + 1 <= hashTable'.size
      BY <1>7, <1>8, <2>4, <2>5
    <3>4. deletion'.hole < deletion'.c /\ o # deletion'.hole /\ deletion'.c = hashTable'.size
      BY <1>3, <1>7, <2>5, <2>8
    <3> QED
      BY <2>5, <2>9, <3>2, <3>3, <3>4, DeletingHolds
  <2>11. HM!Iterating'
    BY <1>5 DEF HM!Iterating
  <2> QED
    BY <1>1, <1>2, <1>5, <2>6, <2>7, <2>9, <2>10, <2>11 DEF MapKept
<1> QED
  BY <1>13, <1>14

-----------------------------------------------------------------------------
(* HashMap: the invariant, and what it is for.                             *)

LEMMA HashMapInit == HM!Init => HM!IInv
<1> SUFFICES ASSUME HM!Init PROVE MapKept
  BY MapInvariantHolds
<1>1. PICK n \in MapSizes : hashTable = HM!Empty(n)
  BY DEF HM!Init
<1>2. resizes = <<>> /\ deletion = HM!NoDel /\ dictionary = [k \in {} |-> None] /\ iterator = None /\ passed = {}
  BY DEF HM!Init
<1>3. IsTable(hashTable) /\ HM!Sound(hashTable) /\ HM!Settled(hashTable) /\ HM!Contents(hashTable) = {}
  BY <1>1, TablesAssumption, EmptyIs
<1>4. DOMAIN dictionary = {} /\ DictionaryIs /\ deletion.c = 0 /\ DeletionIs
  BY <1>2 DEF DictionaryIs, HM!NoDel, DeletionIs
<1>5. HM!Graph = {}
  BY <1>4 DEF HM!Graph
<1>6. Layered(hashTable, resizes, HM!Graph)
  BY <1>2, <1>3, <1>5, NoLayers
<1> QED
  BY <1>2, <1>3, <1>4, <1>6 DEF MapKept, HM!Deleting, HM!Iterating

LEMMA HashMapNext == HM!IInv /\ [HM!Next]_(HM!vars) => HM!IInv'
<1> SUFFICES ASSUME HM!IInv, [HM!Next]_(HM!vars) PROVE HM!IInv'
  OBVIOUS
<1>1. MapKept
  BY MapInvariant
<1>2. MapKept' => HM!IInv'
  BY MapInvariantHolds, PTL
<1>3. ASSUME NEW k \in HashKeys, NEW v \in HashValues, HM!DoSet(k, v) \/ HM!Index(k, v) PROVE MapKept'
  <2>1. /\ HM!Idle /\ HM!Set(hashTable, resizes, k, v) /\ HM!Stored(k, v) /\ HM!Modified /\ UNCHANGED deletion
    BY <1>3 DEF HM!DoSet, HM!Index
  <2> QED
    BY <1>1, <2>1, MapSets
<1>4. ASSUME UNCHANGED HM!vars PROVE MapKept'
  <2>1. /\ hashTable' = hashTable /\ resizes' = resizes /\ deletion' = deletion
        /\ iterator' = iterator /\ dictionary' = dictionary /\ passed' = passed
    BY <1>4 DEF HM!vars
  <2>2. HM!Graph' = HM!Graph /\ DeletionIs' /\ DictionaryIs'
    BY <1>1, <2>1 DEF MapKept, HM!Graph, DeletionIs, DictionaryIs
  <2>3. HM!Iterating'
    BY <1>1, <2>1 DEF MapKept, HM!Iterating, HM!Idle
  <2>4. HM!Deleting'
    <3>1. HM!Deleting
      BY <1>1 DEF MapKept
    <3> QED
      BY <2>1, <3>1 DEF HM!Deleting
  <2> QED
    BY <1>1, <2>1, <2>2, <2>3, <2>4 DEF MapKept
<1>5. ASSUME HM!Next PROVE MapKept'
  <2>1. CASE \E k \in HashKeys : HM!DoDel(k) \/ \E v \in HashValues : HM!DoSet(k, v) \/ HM!Index(k, v)
    BY <1>1, <1>3, <2>1, MapDeletes
  <2>2. CASE HM!Reinsert
    BY <1>1, <2>2, MapReinserts
  <2>3. CASE \E n \in MapSizes : HM!DoResize(n)
    BY <1>1, <2>3, MapResizes
  <2>4. CASE HM!Refill
    BY <1>1, <2>4, MapRefills
  <2>5. CASE HM!Resized
    BY <1>1, <2>5, MapResized
  <2>6. CASE HM!Clear
    BY <1>1, <2>6, MapCleared
  <2>7. CASE HM!Start \/ HM!Step
    BY <1>1, <2>7, MapIterates
  <2> QED
    BY <1>5, <2>1, <2>2, <2>3, <2>4, <2>5, <2>6, <2>7 DEF HM!Next
<1> QED
  BY <1>2, <1>4, <1>5

\* The keys of the dictionary and those in an idle map's table.
LEMMA IdleKeys ==
  ASSUME MapKept, HM!Idle
  PROVE  /\ \A k : k \in DOMAIN dictionary <=> \E j \in HM!Used(hashTable) : hashTable.pairs[j].key = k
         /\ \A j \in HM!Used(hashTable) : hashTable.pairs[j] = HM!Pair(hashTable.pairs[j].key,
                                                                      dictionary[hashTable.pairs[j].key])
<1>1. HM!Graph = HM!Contents(hashTable)
  BY MapIdle
<1>2. \A k : HM!Pair(k, dictionary[k]).key = k
  BY DEF HM!Pair
<1>3. \A q : q \in HM!Graph <=> \E k \in DOMAIN dictionary : q = HM!Pair(k, dictionary[k])
  BY DEF HM!Graph
<1>4. \A q : q \in HM!Contents(hashTable) <=> \E j \in HM!Used(hashTable) : q = hashTable.pairs[j]
  BY DEF HM!Contents
<1>5. ASSUME NEW j \in HM!Used(hashTable)
      PROVE  /\ hashTable.pairs[j].key \in DOMAIN dictionary
             /\ hashTable.pairs[j] = HM!Pair(hashTable.pairs[j].key, dictionary[hashTable.pairs[j].key])
  <2>1. PICK k \in DOMAIN dictionary : hashTable.pairs[j] = HM!Pair(k, dictionary[k])
    BY <1>1, <1>3, <1>4
  <2>2. hashTable.pairs[j].key = k
    BY <1>2, <2>1
  <2> QED
    BY <2>1, <2>2
<1>6. ASSUME NEW k \in DOMAIN dictionary PROVE \E j \in HM!Used(hashTable) : hashTable.pairs[j].key = k
  <2>1. PICK j \in HM!Used(hashTable) : HM!Pair(k, dictionary[k]) = hashTable.pairs[j]
    BY <1>1, <1>3, <1>4
  <2> QED
    BY <1>2, <2>1
<1> QED
  BY <1>5, <1>6

LEMMA MapProbeEnds == HM!IInv => HM!ProbeEnds
<1> SUFFICES ASSUME HM!IInv, NEW k \in HashKeys PROVE HM!Probe(hashTable, k) # None
  BY DEF HM!ProbeEnds
<1>1. IsTable(hashTable) /\ HM!Sound(hashTable)
  BY MapInvariant DEF MapKept, Layered
<1>2. PICK f : f \in HM!Free(hashTable)
  BY <1>1, SoundIs
<1>3. f \in {i \in SlotsOf(hashTable) : HM!Ends(hashTable, k, i)}
  BY <1>1, <1>2, TableIs DEF HM!Ends
<1>4. HM!Probe(hashTable, k) \in SlotsOf(hashTable)
  BY <1>1, <1>3, ProbeIs
<1> QED
  BY <1>1, <1>4, TablesAssumption, NumbersAssumption, TableIs DEF SlotsOf

LEMMA MapIsDictionary == HM!IInv => HM!IsDictionary
<1> SUFFICES ASSUME MapKept, HM!Idle
             PROVE  /\ \A k \in HashKeys : HM!Has(hashTable, k) <=> k \in DOMAIN dictionary
                    /\ \A k \in DOMAIN dictionary : HM!Get(hashTable, k) = dictionary[k]
                    /\ hashTable.num = HM!Cardinality(DOMAIN dictionary)
                    /\ hashTable.num = HM!Cardinality(HM!Used(hashTable))
  BY MapInvariant DEF HM!IsDictionary
<1>1. /\ HM!Settled(hashTable) /\ IsTable(hashTable) /\ HM!Sound(hashTable) /\ HM!Graph = HM!Contents(hashTable)
      /\ DOMAIN dictionary \subseteq HashKeys
  BY MapIdle DEF MapKept, DictionaryIs
<1>2. \A k \in HashKeys : HM!Has(hashTable, k) <=> k \in DOMAIN dictionary
  BY <1>1, IdleKeys, SettledProbe
<1>3. ASSUME NEW k \in DOMAIN dictionary PROVE HM!Get(hashTable, k) = dictionary[k]
  <2>1. PICK j \in HM!Used(hashTable) : hashTable.pairs[j].key = k
    BY IdleKeys
  <2>2. HM!Probe(hashTable, k) = j
    BY <1>1, <1>3, <2>1, SettledProbe
  <2>3. hashTable.pairs[j] = HM!Pair(k, dictionary[k])
    BY <2>1, IdleKeys
  <2> QED
    BY <2>2, <2>3 DEF HM!Get, HM!Pair
<1>4. hashTable.num = Cardinality(DOMAIN dictionary)
  <2> DEFINE g == [q \in HM!Graph |-> q.key]
  <2>1. \A k : HM!Pair(k, dictionary[k]).key = k
    BY DEF HM!Pair
  <2>2. \A q : q \in HM!Graph <=> \E k \in DOMAIN dictionary : q = HM!Pair(k, dictionary[k])
    BY DEF HM!Graph
  <2>3. /\ g \in [HM!Graph -> DOMAIN dictionary]
        /\ \A k \in DOMAIN dictionary : \E q \in HM!Graph : g[q] = k
        /\ \A a, b \in HM!Graph : g[a] = g[b] => a = b
    BY <2>1, <2>2
  <2> HIDE DEF g
  <2>4. g \in Bijection(HM!Graph, DOMAIN dictionary)
    BY <2>3 DEF Bijection, Surjection, Injection, IsInjective
  <2>5. ExistsBijection(HM!Graph, DOMAIN dictionary)
    BY <2>4 DEF ExistsBijection
  <2>6. IsFiniteSet(HM!Graph) /\ Cardinality(HM!Graph) = hashTable.num
    BY <1>1, SoundIs
  <2> QED
    BY <2>5, <2>6, FS_Bijection
<1>5. hashTable.num = Cardinality(HM!Used(hashTable))
  BY <1>1, SoundIs
<1> QED
  BY <1>2, <1>3, <1>4, <1>5, TableCount

LEMMA MapIterationComplete == HM!IInv => HM!IterationComplete
<1> SUFFICES ASSUME MapKept, iterator = hashTable.size PROVE passed = DOMAIN dictionary
  BY MapInvariant DEF HM!IterationComplete
<1>1. IsTable(hashTable)
  BY DEF MapKept, Layered
<1>2. hashTable.size \in Nat /\ iterator # None /\ HM!Used(hashTable) \in SUBSET SlotsOf(hashTable)
  BY <1>1, TablesAssumption, NumbersAssumption, TableIs
<1>3. HM!Idle /\ passed = {hashTable.pairs[i].key : i \in {i \in HM!Used(hashTable) : i < iterator}}
  BY <1>2 DEF MapKept, HM!Iterating
<1>4. {i \in HM!Used(hashTable) : i < iterator} = HM!Used(hashTable)
  BY <1>2 DEF SlotsOf
<1> QED
  BY <1>3, <1>4, IdleKeys

\* Every key is found from its home, between the steps of resizes within
\* resizes and of a deletion, for any keys, hash and sizes of three slots or
\* more (hashmap.hh).
THEOREM TablesAreSound == AllSpec => []HM!IInv
<1>1. AllInit => HM!IInv
  BY HashMapInit DEF AllInit
<1>2. HM!IInv /\ [AllNext]_allVars => HM!IInv'
  <2> SUFFICES ASSUME HM!IInv, [AllNext]_allVars PROVE HM!IInv'
    OBVIOUS
  <2>1. HM!Next \/ UNCHANGED mapVars
    BY DEF AllNext, allVars, dataVars
  <2>2. [HM!Next]_(HM!vars)
    BY <2>1 DEF mapVars, HM!vars
  <2> QED
    BY <2>2, HashMapNext
<1> QED
  BY <1>1, <1>2, PTL DEF AllSpec

-----------------------------------------------------------------------------
(* PrefixTree.                                                             *)

LEMMA TreeCount == \A X : PT!Cardinality(X) = Cardinality(X)
BY DEF PT!Cardinality, Cardinality
LEMMA TreeFinite == \A X : PT!IsFiniteSet(X) <=> IsFiniteSet(X)
BY DEF PT!IsFiniteSet, IsFiniteSet

\* What appending says of what it was appended to.
LEMMA AppendIsUnique ==
  ASSUME NEW T, NEW s \in Seq(T), NEW u \in Seq(T), NEW e \in T, NEW f \in T
  PROVE  /\ Append(s, e) = Append(u, f) => s = u /\ e = f
         /\ Append(s, e) # s /\ Append(s, e) \in Seq(T) /\ Append(s, e) # <<>>
<1>1. Append(s, e) = Append(u, f) => s = u /\ e = f
  BY AppendProperties
<1>2. Len(Append(s, e)) = Len(s) + 1 /\ Len(s) \in Nat
  BY AppendProperties
<1> QED
  BY <1>1, <1>2, AppendFacts

\* The child under a key in any tree.
ChildIn(ns, k, n) == IF k \in DOMAIN ns[n].children THEN ns[n].children[k] ELSE None

LEMMA PrefixTreeInit == PT!Init => PT!IInv
<1> SUFFICES ASSUME PT!Init PROVE PT!TypeOK /\ PT!PathsFound
  BY DEF PT!IInv
<1>1. DOMAIN treeNodes = {0} /\ treeNodes[0] = PT!Node(PT!NoChildren, None)
  BY DEF PT!Init
<1>2. DOMAIN paths = {<<>>} /\ paths = [p \in {<<>>} |-> [node |-> 0, value |-> None]]
  BY DEF PT!Init
<1>3. IsFiniteSet({0}) /\ Cardinality({0}) = 1 /\ {0} = 0 .. 1 - 1
  <2>1. IsFiniteSet({0}) /\ Cardinality({0}) = 1
    BY ONLY FS_Singleton
  <2>2. {0} = 0 .. 1 - 1
    OBVIOUS
  <2> QED
    BY <2>1, <2>2
<1>4. DOMAIN PT!NoChildren = {}
  BY DEF PT!NoChildren
<1>5. treeNodes[0].children = PT!NoChildren /\ treeNodes[0].value = None
  BY <1>1 DEF PT!Node
<1>6. PT!TypeOK
  <2>1. PT!NoChildren \in [{} -> DOMAIN treeNodes]
    BY DEF PT!NoChildren
  <2>2. <<>> \in Seq(PathKeys)
    BY EmptySeq
  <2> QED
    BY <1>1, <1>2, <1>3, <1>4, <1>5, <2>1, <2>2, TreeCount, TreeFinite DEF PT!TypeOK
<1>7. PT!PathsFound
  <2>1. \A k \in PathKeys : PT!Child(k, 0) = None
    BY <1>4, <1>5 DEF PT!Child
  <2>2. \A k \in PathKeys : Append(<<>>, k) # <<>>
    BY EmptySeq, AppendFacts
  <2> QED
    BY <1>2, <1>5, <2>1, <2>2 DEF PT!PathsFound
<1> QED
  BY <1>6, <1>7

\* What the tree and the paths know of each other.
LEMMA TreeFacts ==
  ASSUME PT!IInv
  PROVE  /\ DOMAIN treeNodes = 0 .. Cardinality(DOMAIN treeNodes) - 1 /\ IsFiniteSet(DOMAIN treeNodes)
         /\ Cardinality(DOMAIN treeNodes) \in Nat /\ None \notin DOMAIN treeNodes
         /\ \A n \in DOMAIN treeNodes : /\ treeNodes[n] = PT!Node(treeNodes[n].children, treeNodes[n].value)
                                        /\ DOMAIN treeNodes[n].children \subseteq PathKeys
                                        /\ treeNodes[n].children \in [DOMAIN treeNodes[n].children -> DOMAIN treeNodes]
         /\ paths \in [DOMAIN paths -> [node : DOMAIN treeNodes, value : HashValues \cup {None}]]
         /\ DOMAIN paths \subseteq Seq(PathKeys) /\ <<>> \in DOMAIN paths /\ paths[<<>>].node = 0
         /\ \A q \in DOMAIN paths : paths[q].node \in DOMAIN treeNodes
         /\ \A q \in DOMAIN paths : treeNodes[paths[q].node].value = paths[q].value
         /\ \A q \in DOMAIN paths : q # <<>> => \E r \in DOMAIN paths, j \in PathKeys : q = Append(r, j)
         /\ \A q \in DOMAIN paths : \A j \in PathKeys : PT!Child(j, paths[q].node) =
                IF Append(q, j) \in DOMAIN paths THEN paths[Append(q, j)].node ELSE None
         /\ \A q, r \in DOMAIN paths : paths[q].node = paths[r].node => q = r
<1>1. /\ DOMAIN treeNodes = 0 .. Cardinality(DOMAIN treeNodes) - 1 /\ IsFiniteSet(DOMAIN treeNodes)
      /\ Cardinality(DOMAIN treeNodes) \in Nat
  BY TreeCount, TreeFinite, FS_CardinalityType DEF PT!IInv, PT!TypeOK
<1>2. /\ \A n \in DOMAIN treeNodes : /\ treeNodes[n] = PT!Node(treeNodes[n].children, treeNodes[n].value)
                                     /\ DOMAIN treeNodes[n].children \subseteq PathKeys
                                     /\ treeNodes[n].children \in [DOMAIN treeNodes[n].children -> DOMAIN treeNodes]
      /\ paths \in [DOMAIN paths -> [node : DOMAIN treeNodes, value : HashValues \cup {None}]]
      /\ DOMAIN paths \subseteq Seq(PathKeys) /\ <<>> \in DOMAIN paths /\ paths[<<>>].node = 0
  BY DEF PT!IInv, PT!TypeOK
<1>3. \A q \in DOMAIN paths : paths[q].node \in DOMAIN treeNodes
  BY <1>2
<1>4. /\ \A q \in DOMAIN paths : treeNodes[paths[q].node].value = paths[q].value
      /\ \A q \in DOMAIN paths : q # <<>> => \E r \in DOMAIN paths, j \in PathKeys : q = Append(r, j)
      /\ \A q \in DOMAIN paths : \A j \in PathKeys : PT!Child(j, paths[q].node) =
             IF Append(q, j) \in DOMAIN paths THEN paths[Append(q, j)].node ELSE None
      /\ \A q, r \in DOMAIN paths : paths[q].node = paths[r].node => q = r
  BY DEF PT!IInv, PT!PathsFound
<1>5. None \notin DOMAIN treeNodes
  BY <1>1, NumbersAssumption
<1> QED
  BY <1>1, <1>2, <1>3, <1>4, <1>5

\* A value changes nothing but the value of its path.
LEMMA ValueIsSet ==
  ASSUME PT!IInv, NEW p \in DOMAIN paths, NEW v \in HashValues, PT!SetValue(paths[p].node, p, v)
  PROVE  PT!IInv'
<1> DEFINE child == paths[p].node
<1>1. /\ paths' = [q \in DOMAIN paths |-> IF q = p THEN [node |-> child, value |-> v] ELSE paths[q]]
      /\ treeNodes' = [treeNodes EXCEPT ![child] = PT!Node(treeNodes[child].children, v)]
      /\ child \in DOMAIN treeNodes
  <2>1. DOMAIN paths \cup {p} = DOMAIN paths
    OBVIOUS
  <2> QED
    BY <2>1, TreeFacts DEF PT!SetValue, PT!Promised
<1> HIDE DEF child
<1>2. DOMAIN paths' = DOMAIN paths /\ paths'[p] = [node |-> child, value |-> v]
  BY <1>1
<1>3. /\ \A q \in DOMAIN paths : paths'[q].node = paths[q].node
      /\ \A q \in DOMAIN paths : q # p => paths'[q] = paths[q]
      /\ paths'[p].value = v
  BY <1>1, <1>2 DEF child
<1>4. /\ DOMAIN treeNodes' = DOMAIN treeNodes /\ treeNodes'[child] = PT!Node(treeNodes[child].children, v)
      /\ \A n \in DOMAIN treeNodes : n # child => treeNodes'[n] = treeNodes[n]
  BY <1>1
<1>5. \A n \in DOMAIN treeNodes : treeNodes'[n].children = treeNodes[n].children
  BY <1>4 DEF PT!Node
<1>6. treeNodes'[child].value = v
  BY <1>4 DEF PT!Node
<1>7. PT!TypeOK'
  <2>1. \A n \in DOMAIN treeNodes' :
           /\ treeNodes'[n] = PT!Node(treeNodes'[n].children, treeNodes'[n].value)
           /\ DOMAIN treeNodes'[n].children \subseteq PathKeys
           /\ treeNodes'[n].children \in [DOMAIN treeNodes'[n].children -> DOMAIN treeNodes']
    BY <1>4, <1>5, <1>6, TreeFacts
  <2>2. paths' \in [DOMAIN paths' -> [node : DOMAIN treeNodes', value : HashValues \cup {None}]]
    <3>1. \A q \in DOMAIN paths' : paths'[q] \in [node : DOMAIN treeNodes, value : HashValues \cup {None}]
      BY <1>1, <1>2, <1>3, TreeFacts
    <3> QED
      BY <1>1, <1>4, <3>1
  <2>3. paths'[<<>>].node = 0
    BY <1>3, TreeFacts
  <2> QED
    BY <1>2, <1>4, <2>1, <2>2, <2>3, TreeFacts, TreeCount, TreeFinite DEF PT!TypeOK
<1>8. \A q \in DOMAIN paths' : treeNodes'[paths'[q].node].value = paths'[q].value
  <2> SUFFICES ASSUME NEW q \in DOMAIN paths PROVE treeNodes'[paths'[q].node].value = paths'[q].value
    BY <1>2
  <2>1. CASE q = p
    BY <1>3, <1>6, <2>1 DEF child
  <2>2. CASE q # p
    BY <1>3, <1>4, <2>2, TreeFacts DEF child
  <2> QED
    BY <2>1, <2>2
<1>9. \A q \in DOMAIN paths', j \in PathKeys : ChildIn(treeNodes', j, paths'[q].node) =
          IF Append(q, j) \in DOMAIN paths' THEN paths'[Append(q, j)].node ELSE None
  <2>1. \A n \in DOMAIN treeNodes : \A j : ChildIn(treeNodes', j, n) = PT!Child(j, n)
    BY <1>5 DEF PT!Child, ChildIn
  <2> SUFFICES ASSUME NEW q \in DOMAIN paths, NEW j \in PathKeys
               PROVE  ChildIn(treeNodes', j, paths'[q].node) =
                         IF Append(q, j) \in DOMAIN paths' THEN paths'[Append(q, j)].node ELSE None
    BY <1>2
  <2>2. ChildIn(treeNodes', j, paths'[q].node) = PT!Child(j, paths[q].node)
    BY <1>3, <2>1, TreeFacts
  <2> QED
    BY <1>2, <1>3, <2>2, TreeFacts
<1>10. /\ \A q \in DOMAIN paths' : q # <<>> => \E r \in DOMAIN paths', j \in PathKeys : q = Append(r, j)
       /\ \A q, r \in DOMAIN paths' : paths'[q].node = paths'[r].node => q = r
  BY <1>2, <1>3, TreeFacts
<1> QED
  BY <1>7, <1>8, <1>9, <1>10 DEF PT!IInv, PT!PathsFound, PT!Child, ChildIn

LEMMA PrefixTreeNext == PT!IInv /\ [PT!Next]_(PT!vars) => PT!IInv'
<1> SUFFICES ASSUME PT!IInv, [PT!Next]_(PT!vars) PROVE PT!IInv'
  OBVIOUS
<1>1. CASE UNCHANGED PT!vars
  BY <1>1 DEF PT!vars, PT!IInv, PT!TypeOK, PT!PathsFound, PT!Child
<1>2. ASSUME NEW p \in DOMAIN paths, NEW v \in HashValues, PT!SetValue(paths[p].node, p, v) PROVE PT!IInv'
  BY <1>2, ValueIsSet
<1>3. ASSUME NEW p \in DOMAIN paths, NEW v \in HashValues, NEW k \in PathKeys, PT!Insert(k, p, v) PROVE PT!IInv'
  <2> DEFINE start == paths[p].node
             new == PT!Cardinality(DOMAIN treeNodes)
             child == PT!Child(k, start)
             pk == Append(p, k)
  <2>1. IF child # None THEN PT!SetValue(child, pk, v)
        ELSE /\ treeNodes' = [n \in DOMAIN treeNodes \cup {new} |->
                                 IF n = new THEN PT!Node(PT!NoChildren, v)
                                 ELSE IF n = start THEN PT!WithChild(treeNodes[n], k, new) ELSE treeNodes[n]]
             /\ PT!Promised(pk, new, v)
    BY <1>3 DEF PT!Insert
  <2>2. /\ DOMAIN treeNodes = 0 .. new - 1 /\ IsFiniteSet(DOMAIN treeNodes) /\ new = Cardinality(DOMAIN treeNodes)
        /\ new \in Nat
        /\ \A n \in DOMAIN treeNodes : /\ treeNodes[n] = PT!Node(treeNodes[n].children, treeNodes[n].value)
                                       /\ DOMAIN treeNodes[n].children \subseteq PathKeys
                                       /\ treeNodes[n].children \in [DOMAIN treeNodes[n].children -> DOMAIN treeNodes]
    BY TreeFacts, TreeCount
  <2>3. /\ paths \in [DOMAIN paths -> [node : DOMAIN treeNodes, value : HashValues \cup {None}]]
        /\ DOMAIN paths \subseteq Seq(PathKeys) /\ <<>> \in DOMAIN paths /\ paths[<<>>].node = 0
    BY TreeFacts
  <2>4. /\ \A q \in DOMAIN paths : treeNodes[paths[q].node].value = paths[q].value
        /\ \A q \in DOMAIN paths : q # <<>> => \E r \in DOMAIN paths, j \in PathKeys : q = Append(r, j)
        /\ \A q \in DOMAIN paths : \A j \in PathKeys : PT!Child(j, paths[q].node) =
                IF Append(q, j) \in DOMAIN paths THEN paths[Append(q, j)].node ELSE None
        /\ \A q, r \in DOMAIN paths : paths[q].node = paths[r].node => q = r
    BY TreeFacts
  <2>5. /\ start \in DOMAIN treeNodes /\ new \notin DOMAIN treeNodes /\ None \notin DOMAIN treeNodes
        /\ \A q \in DOMAIN paths : paths[q].node \in DOMAIN treeNodes
    BY <2>2, TreeFacts
  <2>6. /\ pk \in Seq(PathKeys) /\ pk # <<>> /\ pk # p
        /\ \A q \in Seq(PathKeys), j \in PathKeys : Append(q, j) = pk => q = p /\ j = k
        /\ \A j \in PathKeys : Append(pk, j) # pk
        /\ \A q \in DOMAIN paths, j \in PathKeys : Append(q, j) \in Seq(PathKeys)
    BY <2>3, AppendIsUnique
  <2>7. child = IF pk \in DOMAIN paths THEN paths[pk].node ELSE None
    BY <2>4
  <2> HIDE DEF start, new, child, pk
  <2>8. CASE child # None
    <3>1. pk \in DOMAIN paths /\ child = paths[pk].node
      BY <2>7, <2>8
    <3>2. PT!SetValue(paths[pk].node, pk, v)
      BY <2>1, <2>8, <3>1
    <3> QED
      BY <3>1, <3>2, ValueIsSet
  <2>9. CASE child = None
    <3>1. pk \notin DOMAIN paths
      BY <2>5, <2>7, <2>9
    <3>a. /\ treeNodes' = [n \in DOMAIN treeNodes \cup {new} |->
                              IF n = new THEN PT!Node(PT!NoChildren, v)
                              ELSE IF n = start THEN PT!WithChild(treeNodes[n], k, new) ELSE treeNodes[n]]
          /\ paths' = [q \in DOMAIN paths \cup {pk} |->
                           IF q = pk THEN [node |-> new, value |-> v] ELSE paths[q]]
      BY <2>1, <2>9 DEF PT!Promised
    <3>b. DOMAIN paths' = DOMAIN paths \cup {pk} /\ \A q \in DOMAIN paths : q # pk => paths'[q] = paths[q]
      BY <3>a
    <3>c. paths'[pk] = [node |-> new, value |-> v]
      BY <3>a
    <3>d. paths'[pk].node = new /\ paths'[pk].value = v
      BY <3>c
    <3>e. \A q \in DOMAIN paths' : q # <<>> => \E r \in DOMAIN paths', j \in PathKeys : q = Append(r, j)
      BY <2>4, <3>b DEF pk
    <3>2. /\ DOMAIN treeNodes' = DOMAIN treeNodes \cup {new} /\ treeNodes'[new] = PT!Node(PT!NoChildren, v)
          /\ treeNodes'[start] = PT!WithChild(treeNodes[start], k, new)
          /\ \A n \in DOMAIN treeNodes : n # start => treeNodes'[n] = treeNodes[n]
      BY <2>5, <3>a
    <3>3. treeNodes'[new].children = PT!NoChildren /\ treeNodes'[new].value = v /\ DOMAIN PT!NoChildren = {}
      BY <3>2 DEF PT!Node, PT!NoChildren
    <3>4. /\ treeNodes'[start].value = treeNodes[start].value
          /\ treeNodes'[start].children = [j \in DOMAIN treeNodes[start].children \cup {k} |->
                                              IF j = k THEN new ELSE treeNodes[start].children[j]]
      BY <3>2 DEF PT!Node, PT!WithChild
    <3>5. /\ IsFiniteSet(DOMAIN treeNodes') /\ Cardinality(DOMAIN treeNodes') = new + 1
          /\ DOMAIN treeNodes' = 0 .. (new + 1) - 1
      <4>1. /\ IsFiniteSet(DOMAIN treeNodes \cup {new})
            /\ Cardinality(DOMAIN treeNodes \cup {new}) = Cardinality(DOMAIN treeNodes) + 1
        <5>1. IsFiniteSet(DOMAIN treeNodes) /\ new \notin DOMAIN treeNodes
          BY <2>2, <2>5
        <5> QED
          BY ONLY <5>1, FS_AddElement
      <4>2. DOMAIN treeNodes \cup {new} = 0 .. (new + 1) - 1
        BY <2>2
      <4> QED
        BY <2>2, <3>2, <4>1, <4>2
    <3>6. PT!TypeOK'
      <4>1. \A n \in DOMAIN treeNodes' :
               /\ treeNodes'[n] = PT!Node(treeNodes'[n].children, treeNodes'[n].value)
               /\ DOMAIN treeNodes'[n].children \subseteq PathKeys
               /\ treeNodes'[n].children \in [DOMAIN treeNodes'[n].children -> DOMAIN treeNodes']
        <5> SUFFICES ASSUME NEW n \in DOMAIN treeNodes'
                     PROVE  /\ treeNodes'[n] = PT!Node(treeNodes'[n].children, treeNodes'[n].value)
                            /\ DOMAIN treeNodes'[n].children \subseteq PathKeys
                            /\ treeNodes'[n].children \in [DOMAIN treeNodes'[n].children -> DOMAIN treeNodes']
          OBVIOUS
        <5>1. CASE n = new
          <6>1. PT!NoChildren \in [{} -> DOMAIN treeNodes']
            BY DEF PT!NoChildren
          <6> QED
            BY <3>2, <3>3, <5>1, <6>1
        <5>2. CASE n = start
          <6>1. treeNodes'[n] = PT!Node(treeNodes'[n].children, treeNodes'[n].value)
            BY <3>2, <3>4, <5>2 DEF PT!WithChild, PT!Node
          <6>2. DOMAIN treeNodes'[n].children = DOMAIN treeNodes[start].children \cup {k}
            BY <3>4, <5>2
          <6>3. \A j \in DOMAIN treeNodes[start].children : treeNodes[start].children[j] \in DOMAIN treeNodes
            BY <2>2, <2>5
          <6>4. treeNodes'[n].children \in [DOMAIN treeNodes[start].children \cup {k} -> DOMAIN treeNodes']
            BY <3>2, <3>4, <5>2, <6>3
          <6> QED
            BY <2>2, <2>5, <6>1, <6>2, <6>4
        <5>3. CASE n # new /\ n # start
          BY <2>2, <3>2, <5>3
        <5> QED
          BY <5>1, <5>2, <5>3
      <4>2. paths' \in [DOMAIN paths' -> [node : DOMAIN treeNodes', value : HashValues \cup {None}]]
        <5>1. \A q \in DOMAIN paths' : paths'[q] \in [node : DOMAIN treeNodes', value : HashValues \cup {None}]
          BY <2>3, <3>b, <3>c, <3>1, <3>2
        <5> QED
          BY <3>a, <5>1
      <4>3. paths'[<<>>].node = 0 /\ <<>> \in DOMAIN paths' /\ DOMAIN paths' \subseteq Seq(PathKeys)
        BY <2>3, <2>6, <3>b
      <4> QED
        BY <3>5, <4>1, <4>2, <4>3, TreeCount, TreeFinite DEF PT!TypeOK
    <3>7. \A q \in DOMAIN paths' : treeNodes'[paths'[q].node].value = paths'[q].value
      <4> SUFFICES ASSUME NEW q \in DOMAIN paths' PROVE treeNodes'[paths'[q].node].value = paths'[q].value
        OBVIOUS
      <4>1. CASE q = pk
        BY <3>d, <3>1, <3>3, <4>1
      <4>2. CASE q # pk
        <5>1. q \in DOMAIN paths /\ paths'[q] = paths[q] /\ paths[q].node \in DOMAIN treeNodes
          BY <2>5, <3>b, <4>2
        <5> QED
          BY <2>4, <3>2, <3>4, <5>1
      <4> QED
        BY <4>1, <4>2
    <3>8. \A q \in DOMAIN paths', j \in PathKeys : ChildIn(treeNodes', j, paths'[q].node) =
              IF Append(q, j) \in DOMAIN paths' THEN paths'[Append(q, j)].node ELSE None
      <4> SUFFICES ASSUME NEW q \in DOMAIN paths', NEW j \in PathKeys
                   PROVE  ChildIn(treeNodes', j, paths'[q].node) =
                             IF Append(q, j) \in DOMAIN paths' THEN paths'[Append(q, j)].node ELSE None
        OBVIOUS
      <4>0. ChildIn(treeNodes', j, paths'[q].node) = IF j \in DOMAIN treeNodes'[paths'[q].node].children
                                           THEN treeNodes'[paths'[q].node].children[j] ELSE None
        BY DEF ChildIn
      <4>1. CASE q = pk
        <5>1. ChildIn(treeNodes', j, paths'[q].node) = None
          BY <3>d, <3>1, <3>3, <4>0, <4>1
        <5>2. Append(pk, j) \notin DOMAIN paths'
          <6> SUFFICES ASSUME Append(pk, j) \in DOMAIN paths' PROVE FALSE
            OBVIOUS
          <6>1. Append(pk, j) \in DOMAIN paths /\ Append(pk, j) # <<>>
            BY <2>6, <3>b, AppendIsUnique
          <6>2. PICK r \in DOMAIN paths, l \in PathKeys : Append(pk, j) = Append(r, l)
            BY <2>4, <6>1
          <6>3. r = pk
            BY <2>3, <2>6, <6>2, AppendIsUnique
          <6> QED
            BY <3>1, <6>3
        <5> QED
          BY <4>1, <5>1, <5>2
      <4>2. CASE q # pk
        <5>1. q \in DOMAIN paths /\ paths'[q] = paths[q] /\ paths[q].node \in DOMAIN treeNodes
          BY <2>5, <3>b, <4>2
        <5>2. PT!Child(j, paths[q].node) = IF Append(q, j) \in DOMAIN paths THEN paths[Append(q, j)].node ELSE None
          BY <2>4, <5>1
        <5>3. PT!Child(j, paths[q].node) = IF j \in DOMAIN treeNodes[paths[q].node].children
                                           THEN treeNodes[paths[q].node].children[j] ELSE None
          BY DEF PT!Child
        <5>4. CASE q = p
          <6>1. paths[q].node = start
            BY <5>4 DEF start
          <6>2. CASE j = k
            <7>1. ChildIn(treeNodes', j, paths'[q].node) = new
              BY <3>4, <4>0, <5>1, <6>1, <6>2
            <7> QED
              BY <3>b, <3>d, <3>1, <5>4, <6>2, <7>1 DEF pk
          <6>3. CASE j # k
            <7>1. ChildIn(treeNodes', j, paths'[q].node) = PT!Child(j, paths[q].node)
              BY <3>4, <4>0, <5>1, <5>3, <6>1, <6>3
            <7>2. Append(q, j) # pk
              BY <2>3, <2>6, <5>1, <6>3
            <7> QED
              BY <3>b, <5>2, <7>1, <7>2
          <6> QED
            BY <6>2, <6>3
        <5>5. CASE q # p
          <6>1. paths[q].node # start
            BY <2>4, <5>1, <5>5 DEF start
          <6>2. ChildIn(treeNodes', j, paths'[q].node) = PT!Child(j, paths[q].node)
            BY <3>2, <4>0, <5>1, <5>3, <6>1
          <6>3. Append(q, j) # pk
            BY <2>3, <2>6, <5>1, <5>5
          <6> QED
            BY <3>b, <5>2, <6>2, <6>3
        <5> QED
          BY <5>4, <5>5
      <4> QED
        BY <4>1, <4>2
    <3>9. \A q, r \in DOMAIN paths' : paths'[q].node = paths'[r].node => q = r
      <4>1. \A q \in DOMAIN paths : paths'[q].node = paths[q].node /\ paths[q].node # new
        BY <2>5, <3>b, <3>1
      <4>2. paths'[pk].node = new
        BY <3>d, <3>1
      <4> QED
        BY <2>4, <3>b, <4>1, <4>2
    <3> QED
      BY <3>e, <3>6, <3>7, <3>8, <3>9 DEF PT!IInv, PT!PathsFound, PT!Child, ChildIn
  <2> QED
    BY <2>8, <2>9
<1> QED
  BY <1>1, <1>2, <1>3 DEF PT!Next

\* The nodes of a prefix tree and the paths inserted belong to each other,
\* for any keys and any number of nodes (prefixtree.hh).
THEOREM TreesKeepTheirPaths == AllSpec => []PT!IInv
<1>1. AllInit => PT!IInv
  BY PrefixTreeInit DEF AllInit
<1>2. PT!IInv /\ [AllNext]_allVars => PT!IInv'
  <2> SUFFICES ASSUME PT!IInv, [AllNext]_allVars PROVE PT!IInv'
    OBVIOUS
  <2>1. PT!Next \/ UNCHANGED treeVars
    BY DEF AllNext, allVars, dataVars
  <2>2. [PT!Next]_(PT!vars)
    BY <2>1 DEF treeVars, PT!vars
  <2> QED
    BY <2>2, PrefixTreeNext
<1> QED
  BY <1>1, <1>2, PTL DEF AllSpec

\* What the run resources checks of tables, trees and searches
\* (hashmap.hh, prefixtree.hh, binsearch.hh).
THEOREM StoredStaysFound == AllSpec => []StoredIsFound
<1>1. HM!IInv /\ PT!IInv /\ BS!IInv => StoredIsFound
  BY MapProbeEnds, MapIsDictionary, MapIterationComplete DEF PT!IInv, BS!IInv, StoredIsFound
<1> QED
  BY <1>1, TablesAreSound, TreesKeepTheirPaths, LowerBoundsAreFound, PTL

=============================================================================
