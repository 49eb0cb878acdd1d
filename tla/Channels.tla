------------------------------ MODULE Channels ------------------------------
(***************************************************************************)
(* Channels: sequences that grow at the end and are taken from at the      *)
(* front.  The facts the proofs about the settings app and about the panel *)
(* need of Append, Head, Tail and \o, for messages of any kind (the        *)
(* library's theorems want the set the elements are from).                 *)
(***************************************************************************)
EXTENDS Integers, Sequences, FiniteSets, SequenceTheorems, FiniteSetTheorems,
        WellFoundedInduction, TLAPS

Elements(s) == {s[n] : n \in DOMAIN s}

IsChannel(s) == s \in Seq(Elements(s))

(* Where the messages of some kinds are in s, and how many there are.      *)
Places(s, kinds) == {n \in 1 .. Len(s) : s[n].kind \in kinds}

HowMany(s, kinds) == Cardinality(Places(s, kinds))

-----------------------------------------------------------------------------
LEMMA SequencesAreChannels ==
  ASSUME NEW S, NEW s \in Seq(S)
  PROVE  IsChannel(s)
<1>1. Len(s) \in Nat /\ DOMAIN s = 1 .. Len(s) /\ s \in [1 .. Len(s) -> S]
  BY LenProperties
<1>2. s \in [1 .. Len(s) -> Elements(s)]
  BY <1>1 DEF Elements
<1> QED BY <1>1, <1>2, SeqDef DEF IsChannel

LEMMA ChannelFacts ==
  ASSUME NEW s, IsChannel(s)
  PROVE  /\ Len(s) \in Nat /\ DOMAIN s = 1 .. Len(s)
         /\ s = <<>> <=> Len(s) = 0
<1>1. s \in Seq(Elements(s))
  BY DEF IsChannel
<1>2. Len(s) \in Nat /\ DOMAIN s = 1 .. Len(s)
  BY <1>1, LenProperties
<1>3. s # <<>> => Len(s) # 0
  BY <1>1, EmptySeq
<1>4. s = <<>> => Len(s) = 0
  BY EmptySeq
<1> QED BY <1>2, <1>3, <1>4

LEMMA EmptyChannel == IsChannel(<<>>) /\ Len(<<>>) = 0
<1>1. <<>> \in Seq({})
  BY EmptySeq
<1> QED BY <1>1, SequencesAreChannels, EmptySeq

LEMMA OneMessage ==
  ASSUME NEW e
  PROVE  IsChannel(<<e>>) /\ Len(<<e>>) = 1 /\ <<e>>[1] = e
<1>1. <<e>> \in Seq({e})
  OBVIOUS
<1> QED BY <1>1, SequencesAreChannels

(* Sending.                                                                *)
LEMMA Sent ==
  ASSUME NEW s, IsChannel(s), NEW e
  PROVE  /\ IsChannel(Append(s, e)) /\ Append(s, e) # <<>>
         /\ Len(Append(s, e)) = Len(s) + 1
         /\ DOMAIN Append(s, e) = 1 .. Len(s) + 1
         /\ \A n \in 1 .. Len(s) : Append(s, e)[n] = s[n]
         /\ Append(s, e)[Len(s) + 1] = e
<1> DEFINE S == Elements(s) \cup {e}
<1>1. s \in Seq(S)
  BY SeqMonotonic DEF IsChannel
<1>2. e \in S
  OBVIOUS
<1> HIDE DEF S
<1>3. /\ Append(s, e) \in Seq(S) /\ Append(s, e) # <<>>
      /\ Len(Append(s, e)) = Len(s) + 1
      /\ \A n \in 1 .. Len(s) : Append(s, e)[n] = s[n]
      /\ Append(s, e)[Len(s) + 1] = e
  BY <1>1, <1>2, AppendProperties
<1>4. IsChannel(Append(s, e))
  BY <1>3, SequencesAreChannels
<1> QED BY <1>3, <1>4, ChannelFacts

(* Taking.                                                                 *)
LEMMA Taken ==
  ASSUME NEW s, IsChannel(s), s # <<>>
  PROVE  /\ Len(s) \in Nat /\ Len(s) > 0 /\ Head(s) = s[1]
         /\ IsChannel(Tail(s)) /\ Len(Tail(s)) = Len(s) - 1
         /\ DOMAIN Tail(s) = 1 .. Len(s) - 1
         /\ \A n \in 1 .. Len(s) - 1 : Tail(s)[n] = s[n + 1]
<1>1. s \in Seq(Elements(s))
  BY DEF IsChannel
<1>2. /\ Tail(s) \in Seq(Elements(s)) /\ Len(Tail(s)) = Len(s) - 1
      /\ \A n \in 1 .. Len(Tail(s)) : Tail(s)[n] = s[n + 1]
  BY <1>1, HeadTailProperties
<1>3. IsChannel(Tail(s))
  BY <1>2, SequencesAreChannels
<1>4. Head(s) = s[1]
  BY <1>1
<1>5. Len(s) \in Nat /\ Len(s) > 0
  BY ChannelFacts
<1>6. DOMAIN Tail(s) = 1 .. Len(Tail(s))
  BY <1>3, ChannelFacts
<1> QED BY <1>2, <1>3, <1>4, <1>5, <1>6

LEMMA Joined ==
  ASSUME NEW s, IsChannel(s), NEW t, IsChannel(t)
  PROVE  /\ IsChannel(s \o t) /\ Len(s \o t) = Len(s) + Len(t)
         /\ DOMAIN (s \o t) = 1 .. Len(s) + Len(t)
         /\ \A n \in 1 .. Len(s) : (s \o t)[n] = s[n]
         /\ \A n \in 1 .. Len(t) : (s \o t)[Len(s) + n] = t[n]
<1> DEFINE S == Elements(s) \cup Elements(t)
<1>1. s \in Seq(S) /\ t \in Seq(S)
  BY SeqMonotonic DEF IsChannel
<1> HIDE DEF S
<1>2. /\ s \o t \in Seq(S) /\ Len(s \o t) = Len(s) + Len(t)
      /\ \A n \in 1 .. Len(s) + Len(t) : (s \o t)[n] = IF n <= Len(s) THEN s[n] ELSE t[n - Len(s)]
  BY <1>1, ConcatProperties
<1>3. Len(s) \in Nat /\ Len(t) \in Nat
  BY ChannelFacts
<1>4. IsChannel(s \o t)
  BY <1>2, SequencesAreChannels
<1>5. DOMAIN (s \o t) = 1 .. Len(s \o t)
  BY <1>4, ChannelFacts
<1>6. ASSUME NEW n \in 1 .. Len(s) PROVE (s \o t)[n] = s[n]
  BY <1>2, <1>3
<1>7. ASSUME NEW n \in 1 .. Len(t) PROVE (s \o t)[Len(s) + n] = t[n]
  <2>1. Len(s) + n \in 1 .. Len(s) + Len(t) /\ ~ (Len(s) + n <= Len(s)) /\ Len(s) + n - Len(s) = n
    BY <1>3
  <2> QED BY <1>2, <2>1
<1> QED BY <1>2, <1>4, <1>5, <1>6, <1>7

-----------------------------------------------------------------------------
(* What is in a channel.                                                   *)
LEMMA ElementsSent ==
  ASSUME NEW s, IsChannel(s), NEW e
  PROVE  Elements(Append(s, e)) = Elements(s) \cup {e}
<1>1. Len(s) \in Nat /\ DOMAIN s = 1 .. Len(s)
  BY ChannelFacts
<1> QED BY <1>1, Sent DEF Elements

LEMMA ElementsTaken ==
  ASSUME NEW s, IsChannel(s), s # <<>>
  PROVE  Head(s) \in Elements(s) /\ Elements(Tail(s)) \subseteq Elements(s)
<1>1. Len(s) \in Nat /\ DOMAIN s = 1 .. Len(s) /\ Len(s) > 0
  BY ChannelFacts, Taken
<1> QED BY <1>1, Taken DEF Elements

LEMMA ElementsJoined ==
  ASSUME NEW s, IsChannel(s), NEW t, IsChannel(t)
  PROVE  Elements(s \o t) = Elements(s) \cup Elements(t)
<1>1. /\ Len(s) \in Nat /\ DOMAIN s = 1 .. Len(s)
      /\ Len(t) \in Nat /\ DOMAIN t = 1 .. Len(t)
  BY ChannelFacts
<1>2. ASSUME NEW n \in 1 .. Len(s) + Len(t)
      PROVE  (s \o t)[n] \in Elements(s) \cup Elements(t)
  <2>1. CASE n \in 1 .. Len(s)
    BY <1>1, <2>1, Joined DEF Elements
  <2>2. CASE n \notin 1 .. Len(s)
    <3> DEFINE m == n - Len(s)
    <3>1. m \in 1 .. Len(t) /\ Len(s) + m = n
      BY <1>1, <2>2
    <3> HIDE DEF m
    <3>2. (s \o t)[Len(s) + m] = t[m]
      BY <3>1, Joined
    <3> QED BY <1>1, <3>1, <3>2 DEF Elements
  <2> QED BY <2>1, <2>2
<1>3. ASSUME NEW n \in 1 .. Len(s)
      PROVE  s[n] \in Elements(s \o t)
  <2>1. n \in DOMAIN (s \o t) /\ (s \o t)[n] = s[n]
    BY <1>1, Joined
  <2> QED BY <2>1 DEF Elements
<1>4. ASSUME NEW n \in 1 .. Len(t)
      PROVE  t[n] \in Elements(s \o t)
  <2>1. Len(s) + n \in DOMAIN (s \o t) /\ (s \o t)[Len(s) + n] = t[n]
    BY <1>1, Joined
  <2> QED BY <2>1 DEF Elements
<1>5. DOMAIN (s \o t) = 1 .. Len(s) + Len(t)
  BY Joined
<1> QED BY <1>1, <1>2, <1>3, <1>4, <1>5 DEF Elements

LEMMA Numbered ==
  ASSUME NEW n \in Nat, NEW f, f = [k \in 1 .. n |-> f[k]]
  PROVE  IsChannel(f) /\ Len(f) = n
<1>1. f \in [1 .. n -> Elements(f)]
  BY DEF Elements
<1>2. f \in Seq(Elements(f))
  BY <1>1, SeqDef
<1>3. Len(f) \in Nat /\ DOMAIN f = 1 .. Len(f)
  BY <1>2, SequencesAreChannels, ChannelFacts
<1>4. DOMAIN f = 1 .. n
  BY <1>1
<1> QED BY <1>2, <1>3, <1>4 DEF IsChannel

-----------------------------------------------------------------------------
(* Counting.                                                               *)
LEMMA PlacesAreFinite ==
  ASSUME NEW s, IsChannel(s), NEW C
  PROVE  IsFiniteSet(Places(s, C)) /\ HowMany(s, C) \in Nat
<1>1. Len(s) \in Int
  BY ChannelFacts
<1>2. IsFiniteSet(1 .. Len(s)) /\ Places(s, C) \subseteq 1 .. Len(s)
  BY <1>1, FS_Interval DEF Places
<1>3. IsFiniteSet(Places(s, C))
  BY <1>2, FS_Subset
<1> QED BY <1>3, FS_CardinalityType DEF HowMany

LEMMA NoneInEmpty == ASSUME NEW C PROVE HowMany(<<>>, C) = 0
<1>1. Places(<<>>, C) = {}
  BY EmptyChannel DEF Places
<1> QED BY <1>1, FS_EmptySet DEF HowMany

LEMMA SentCounts ==
  ASSUME NEW s, IsChannel(s), NEW e, NEW C
  PROVE  HowMany(Append(s, e), C) = HowMany(s, C) + (IF e.kind \in C THEN 1 ELSE 0)
<1>1. Len(s) \in Nat
  BY ChannelFacts
<1>2. CASE e.kind \in C
  <2>1. Places(Append(s, e), C) = Places(s, C) \cup {Len(s) + 1}
    BY <1>1, <1>2, Sent DEF Places
  <2>2. Len(s) + 1 \notin Places(s, C)
    BY <1>1 DEF Places
  <2> QED BY <1>2, <2>1, <2>2, PlacesAreFinite, FS_AddElement DEF HowMany
<1>3. CASE e.kind \notin C
  <2>1. Places(Append(s, e), C) = Places(s, C)
    BY <1>1, <1>3, Sent DEF Places
  <2>2. HowMany(s, C) \in Nat
    BY PlacesAreFinite
  <2> QED BY <1>3, <2>1, <2>2 DEF HowMany
<1> QED BY <1>2, <1>3

LEMMA TakenCounts ==
  ASSUME NEW s, IsChannel(s), s # <<>>, NEW C
  PROVE  HowMany(s, C) = HowMany(Tail(s), C) + (IF Head(s).kind \in C THEN 1 ELSE 0)
<1> DEFINE later == {n \in 2 .. Len(s) : s[n].kind \in C}
           shift == [n \in Places(Tail(s), C) |-> n + 1]
<1>1. Len(s) \in Nat /\ Len(s) > 0 /\ IsChannel(Tail(s)) /\ Len(Tail(s)) = Len(s) - 1
      /\ Head(s) = s[1] /\ \A n \in 1 .. Len(s) - 1 : Tail(s)[n] = s[n + 1]
  BY Taken
<1>2. \A n \in Places(Tail(s), C) : n \in Nat /\ n + 1 \in later
  BY <1>1 DEF Places
<1>3. \A m \in later : m - 1 \in Places(Tail(s), C) /\ (m - 1) + 1 = m
  BY <1>1 DEF Places
<1>4. shift \in Bijection(Places(Tail(s), C), later)
  BY <1>2, <1>3 DEF Bijection, Injection, Surjection, IsInjective
<1>5. IsFiniteSet(later) /\ Cardinality(later) = HowMany(Tail(s), C)
  <2>1. ExistsBijection(Places(Tail(s), C), later)
    BY <1>4 DEF ExistsBijection
  <2> HIDE DEF later
  <2> QED BY <1>1, <2>1, PlacesAreFinite, FS_Bijection DEF HowMany
<1>6. HowMany(Tail(s), C) \in Nat
  BY <1>1, PlacesAreFinite
<1>7. CASE Head(s).kind \in C
  <2>1. Places(s, C) = later \cup {1} /\ 1 \notin later
    BY <1>1, <1>7 DEF Places
  <2> HIDE DEF later
  <2> QED BY <1>5, <1>7, <2>1, FS_AddElement DEF HowMany
<1>8. CASE Head(s).kind \notin C
  <2>1. Places(s, C) = later
    BY <1>1, <1>8 DEF Places
  <2> QED BY <1>5, <1>6, <1>8, <2>1 DEF HowMany
<1> QED BY <1>7, <1>8

LEMMA OneCounts ==
  ASSUME NEW e, NEW C
  PROVE  HowMany(<<e>>, C) = IF e.kind \in C THEN 1 ELSE 0
<1>1. <<e>> = Append(<<>>, e)
  OBVIOUS
<1> DEFINE none == <<>>
<1>2. IsChannel(none) /\ HowMany(none, C) = 0 /\ <<e>> = Append(none, e)
  BY <1>1, EmptyChannel, NoneInEmpty
<1> HIDE DEF none
<1>3. HowMany(Append(none, e), C) = HowMany(none, C) + (IF e.kind \in C THEN 1 ELSE 0)
  BY <1>2, SentCounts
<1>4. HowMany(<<e>>, C) = 0 + (IF e.kind \in C THEN 1 ELSE 0)
  BY <1>2, <1>3, Zenon
<1> QED BY <1>4

(* Sending a sequence of one message.                                      *)
LEMMA JoinedOne ==
  ASSUME NEW s, IsChannel(s), NEW t, IsChannel(t), Len(t) = 1
  PROVE  s \o t = Append(s, t[1])
<1> DEFINE S == Elements(s) \cup {t[1]}
<1>1. s \in Seq(S) /\ t[1] \in S
  BY SeqMonotonic DEF IsChannel
<1>2. t = <<t[1]>>
  BY ChannelFacts, SeqEqual, OneMessage DEF IsChannel
<1> HIDE DEF S
<1>3. Append(s, t[1]) = s \o <<t[1]>>
  BY <1>1, AppendIsConcat
<1> QED BY <1>2, <1>3

(* Of the messages of some kinds one is the last.                          *)
LEMMA LastPlace ==
  ASSUME NEW s, IsChannel(s), NEW C, Places(s, C) # {}
  PROVE  \E n \in Places(s, C) : \A m \in n + 1 .. Len(s) : s[m].kind \notin C
<1> DEFINE after == {Len(s) - n : n \in Places(s, C)}
<1>1. Len(s) \in Nat
  BY ChannelFacts
<1>2. PICK least \in after : \A k \in after : ~ (<<k, least>> \in OpToRel(<, Nat))
  <2>1. after \subseteq Nat /\ after # {}
    BY <1>1 DEF Places
  <2> QED BY <2>1, NatLessThanWellFounded, WFMin
<1>3. PICK n \in Places(s, C) : least = Len(s) - n
  BY <1>2
<1>4. ASSUME NEW m \in n + 1 .. Len(s), s[m].kind \in C PROVE FALSE
  <2>1. m \in Places(s, C) /\ Len(s) - m \in Nat /\ Len(s) - n \in Nat /\ Len(s) - m < Len(s) - n
    BY <1>1, <1>3, <1>4 DEF Places
  <2>2. <<Len(s) - m, least>> \in OpToRel(<, Nat)
    BY <1>3, <2>1 DEF OpToRel
  <2> QED BY <1>2, <2>1, <2>2
<1> QED BY <1>3, <1>4
=============================================================================
