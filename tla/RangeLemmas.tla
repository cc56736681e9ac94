---------------------------- MODULE RangeLemmas ----------------------------
(***************************************************************************)
(* What the queues and buffers of the models hold after they grow, shrink  *)
(* or are joined: the range of a sequence under Append, Tail, \o and       *)
(* SubSeq.                                                                 *)
(***************************************************************************)
EXTENDS Functions, SequenceTheorems, TLAPS

\* A queue that grows at its end gains the new element and nothing else.
LEMMA RangeAppend ==
    ASSUME NEW S, NEW s \in Seq(S), NEW x \in S
    PROVE  /\ Append(s, x) \in Seq(S)
           /\ Range(Append(s, x)) = Range(s) \cup {x}
<1>1. Append(s, x) \in Seq(S) /\ Len(Append(s, x)) = Len(s) + 1 /\ Len(s) \in Nat
  OBVIOUS
<1>2. /\ DOMAIN s = 1 .. Len(s) /\ DOMAIN Append(s, x) = 1 .. (Len(s) + 1)
      /\ \A i \in 1 .. Len(s) : Append(s, x)[i] = s[i]
      /\ Append(s, x)[Len(s) + 1] = x
  BY <1>1
<1>3. ASSUME NEW y \in Range(Append(s, x)) PROVE y \in Range(s) \cup {x}
  <2>1. PICK i \in 1 .. (Len(s) + 1) : Append(s, x)[i] = y
    BY <1>2, <1>3 DEF Range
  <2>2. i \in 1 .. Len(s) \/ i = Len(s) + 1
    BY <1>1
  <2> QED BY <1>2, <2>1, <2>2 DEF Range
<1>4. ASSUME NEW y \in Range(s) PROVE y \in Range(Append(s, x))
  <2>1. PICK i \in 1 .. Len(s) : s[i] = y
    BY <1>2, <1>4 DEF Range
  <2> QED BY <1>1, <1>2, <2>1 DEF Range
<1>5. x \in Range(Append(s, x))
  BY <1>1, <1>2 DEF Range
<1> QED BY <1>1, <1>3, <1>4, <1>5

\* A queue that loses its head loses at most that element.
LEMMA RangeHeadTail ==
    ASSUME NEW S, NEW s \in Seq(S), s # <<>>
    PROVE  /\ Head(s) \in S /\ Tail(s) \in Seq(S)
           /\ Range(s) = {Head(s)} \cup Range(Tail(s))
<1>1. /\ Head(s) \in S /\ Tail(s) \in Seq(S) /\ Head(s) = s[1]
      /\ Len(s) \in Nat \ {0} /\ Len(Tail(s)) = Len(s) - 1
      /\ \A i \in 1 .. (Len(s) - 1) : Tail(s)[i] = s[i + 1]
  BY HeadTailProperties
<1>2. DOMAIN s = 1 .. Len(s) /\ DOMAIN Tail(s) = 1 .. (Len(s) - 1)
  BY <1>1
<1>3. ASSUME NEW y \in Range(s) PROVE y \in {Head(s)} \cup Range(Tail(s))
  <2>1. PICK i \in 1 .. Len(s) : s[i] = y
    BY <1>2, <1>3 DEF Range
  <2>2. CASE i = 1
    BY <1>1, <2>1, <2>2
  <2>3. CASE i # 1
    <3>1. i - 1 \in 1 .. (Len(s) - 1) /\ Tail(s)[i - 1] = s[i]
      BY <1>1, <2>3
    <3> QED BY <1>2, <2>1, <3>1 DEF Range
  <2> QED BY <2>2, <2>3
<1>4. ASSUME NEW y \in Range(Tail(s)) PROVE y \in Range(s)
  <2>1. PICK i \in 1 .. (Len(s) - 1) : Tail(s)[i] = y
    BY <1>2, <1>4 DEF Range
  <2>2. i + 1 \in 1 .. Len(s) /\ s[i + 1] = y
    BY <1>1, <2>1
  <2> QED BY <1>2, <2>2 DEF Range
<1>5. Head(s) \in Range(s)
  BY <1>1, <1>2 DEF Range
<1> QED BY <1>1, <1>3, <1>4, <1>5

\* Two buffers joined hold what either held.
LEMMA RangeJoin ==
    ASSUME NEW S, NEW s \in Seq(S), NEW t \in Seq(S)
    PROVE  /\ s \o t \in Seq(S)
           /\ Range(s \o t) = Range(s) \cup Range(t)
<1>1. /\ s \o t \in Seq(S) /\ Len(s) \in Nat /\ Len(t) \in Nat
      /\ Len(s \o t) = Len(s) + Len(t)
      /\ \A i \in 1 .. (Len(s) + Len(t)) :
            (s \o t)[i] = IF i <= Len(s) THEN s[i] ELSE t[i - Len(s)]
  OBVIOUS
<1>2. /\ DOMAIN s = 1 .. Len(s) /\ DOMAIN t = 1 .. Len(t)
      /\ DOMAIN (s \o t) = 1 .. (Len(s) + Len(t))
  BY <1>1
<1>3. ASSUME NEW y \in Range(s \o t) PROVE y \in Range(s) \cup Range(t)
  <2>1. PICK i \in 1 .. (Len(s) + Len(t)) : (s \o t)[i] = y
    BY <1>2, <1>3 DEF Range
  <2>2. CASE i <= Len(s)
    <3>1. i \in 1 .. Len(s) /\ s[i] = y
      BY <1>1, <2>1, <2>2
    <3> QED BY <1>2, <3>1 DEF Range
  <2>3. CASE ~(i <= Len(s))
    <3>1. i - Len(s) \in 1 .. Len(t) /\ t[i - Len(s)] = y
      BY <1>1, <2>1, <2>3
    <3> QED BY <1>2, <3>1 DEF Range
  <2> QED BY <2>2, <2>3
<1>4. ASSUME NEW y \in Range(s) PROVE y \in Range(s \o t)
  <2>1. PICK i \in 1 .. Len(s) : s[i] = y
    BY <1>2, <1>4 DEF Range
  <2>2. i \in 1 .. (Len(s) + Len(t)) /\ (s \o t)[i] = y
    BY <1>1, <2>1
  <2> QED BY <1>2, <2>2 DEF Range
<1>5. ASSUME NEW y \in Range(t) PROVE y \in Range(s \o t)
  <2>1. PICK i \in 1 .. Len(t) : t[i] = y
    BY <1>2, <1>5 DEF Range
  <2>2. Len(s) + i \in 1 .. (Len(s) + Len(t)) /\ (s \o t)[Len(s) + i] = y
    BY <1>1, <2>1
  <2> QED BY <1>2, <2>2 DEF Range
<1> QED BY <1>1, <1>3, <1>4, <1>5

\* A prefix of a buffer is a buffer and holds nothing new.
LEMMA RangePrefix ==
    ASSUME NEW S, NEW s \in Seq(S), NEW n \in 0 .. Len(s)
    PROVE  /\ SubSeq(s, 1, n) \in Seq(S) /\ Len(SubSeq(s, 1, n)) = n
           /\ Range(SubSeq(s, 1, n)) \subseteq Range(s)
<1>1. /\ SubSeq(s, 1, n) \in Seq(S) /\ Len(SubSeq(s, 1, n)) = n
      /\ Len(s) \in Nat /\ n \in Nat
      /\ \A i \in 1 .. n : SubSeq(s, 1, n)[i] = s[i]
  OBVIOUS
<1>2. DOMAIN s = 1 .. Len(s) /\ DOMAIN SubSeq(s, 1, n) = 1 .. n
  BY <1>1
<1>3. ASSUME NEW y \in Range(SubSeq(s, 1, n)) PROVE y \in Range(s)
  <2>1. PICK i \in 1 .. n : SubSeq(s, 1, n)[i] = y
    BY <1>2, <1>3 DEF Range
  <2>2. i \in 1 .. Len(s) /\ s[i] = y
    BY <1>1, <2>1
  <2> QED BY <1>2, <2>2 DEF Range
<1> QED BY <1>1, <1>3
=============================================================================
