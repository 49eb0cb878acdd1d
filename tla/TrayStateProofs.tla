-------------------------- MODULE TrayStateProofs --------------------------
(***************************************************************************)
(* Lemmas about the operators of TrayConfig, TrayState and TrayRules,      *)
(* whoever uses them: the key a registration gets, what each event makes   *)
(* of a well formed state, the effects it returns, and who goes by which   *)
(* key before and after it; what normalising a configuration makes of it,  *)
(* and that hiding changes one key; that every sort mode orders the items  *)
(* totally, so that a list in order has each item once, and that a menu    *)
(* update changes nothing a client sees.                                   *)
(***************************************************************************)
EXTENDS TrayRules, TLAPS, FiniteSetTheorems, SequenceTheorems, WellFoundedInduction

-----------------------------------------------------------------------------
(* A non-empty set of natural numbers has a least element.                 *)
LEMMA LeastElement ==
  ASSUME NEW S \in SUBSET Nat, S # {}
  PROVE  \E n \in S : \A m \in S : n <= m
<1>1. PICK n \in S : \A m \in S : ~ (<<m, n>> \in OpToRel(<, Nat))
  BY NatLessThanWellFounded, WFMin
<1>2. \A m \in S : ~ (m < n)
  BY <1>1 DEF OpToRel
<1> QED BY <1>2

(* There are as many suffixes as services, and finitely many.              *)
LEMMA SuffixFinite ==
  /\ Cardinality(Service) \in Nat \ {0}
  /\ IsFiniteSet(Suffix)
  /\ Cardinality(Suffix) = Cardinality(Service)
<1>1. Cardinality(Service) \in Nat
  BY StateAssumption, FS_CardinalityType
<1>2. Cardinality(Service) # 0
  BY StateAssumption, FS_EmptySet
<1>3. /\ IsFiniteSet(1 .. Cardinality(Service))
      /\ Cardinality(1 .. Cardinality(Service)) = Cardinality(Service)
  BY <1>1, <1>2, FS_Interval
<1> QED BY <1>1, <1>2, <1>3 DEF Suffix

(* The items left when one service's item is dropped are fewer than the    *)
(* services, as long as no service has two items.                          *)
LEMMA OthersAreFewer ==
  ASSUME NEW items \in SUBSET Item, NEW s \in Service,
         \A i, j \in items : i.service = j.service => i = j,
         \A i \in items : i.service # s
  PROVE  IsFiniteSet(items) /\ Cardinality(items) < Cardinality(Service)
<1> DEFINE others == Service \ {s}
           f == [i \in items |-> i.service]
<1>1. /\ IsFiniteSet(others)
      /\ Cardinality(others) = Cardinality(Service) - 1
      /\ Cardinality(Service) \in Nat
  BY StateAssumption, FS_RemoveElement, FS_CardinalityType
<1>2. f \in Injection(items, others)
  BY DEF Injection, IsInjective, Item
<1>3. IsFiniteSet(items) /\ Cardinality(items) <= Cardinality(others)
  <2> HIDE DEF f, others
  <2> QED BY <1>1, <1>2, FS_Injection
<1>4. Cardinality(items) \in Nat
  BY <1>3, FS_CardinalityType
<1> QED BY <1>1, <1>3, <1>4

(* allocate_key: with fewer items than services, some candidate is free.   *)
LEMMA SomeSuffixIsFree ==
  ASSUME NEW items \in SUBSET Item, NEW b \in Base,
         IsFiniteSet(items), Cardinality(items) < Cardinality(Service)
  PROVE  FreeSuffixes(items, b) # {}
<1> SUFFICES ASSUME FreeSuffixes(items, b) = {}
             PROVE  FALSE
  OBVIOUS
<1> DEFINE user == [n \in Suffix |-> CHOOSE i \in items : i.key = Candidate[b][n]]
<1>1. \A n \in Suffix : user[n] \in items /\ user[n].key = Candidate[b][n]
  <2> TAKE n \in Suffix
  <2>1. \E i \in items : i.key = Candidate[b][n]
    BY DEF FreeSuffixes, KeysOf
  <2> QED BY <2>1
<1>2. user \in [Suffix -> items]
  BY <1>1
<1>3. PICK m, n \in Suffix : m # n /\ user[m] = user[n]
  <2> HIDE DEF user
  <2> QED BY <1>2, SuffixFinite, FS_PigeonHole
<1>4. Candidate[b][m] = Candidate[b][n]
  BY <1>1, <1>3
<1> QED BY <1>3, <1>4, StateAssumption

(* allocate_key returns a key, and one that no item has.                   *)
LEMMA AllocatedKeyIsFree ==
  ASSUME NEW items \in SUBSET Item, NEW b \in Base,
         IsFiniteSet(items), Cardinality(items) < Cardinality(Service)
  PROVE  AllocateKey(items, b) \in Key \ KeysOf(items)
<1> DEFINE free == FreeSuffixes(items, b)
           first == CHOOSE n \in free : \A m \in free : n <= m
<1>1. free # {}
  BY SomeSuffixIsFree
<1>2. free \in SUBSET Nat
  BY DEF FreeSuffixes, Suffix
<1>3. first \in free
  <2> HIDE DEF free
  <2> QED BY <1>1, <1>2, LeastElement
<1>4. first \in Suffix /\ Candidate[b][first] \notin KeysOf(items)
  BY <1>3 DEF FreeSuffixes
<1>5. Candidate[b][first] \in Key
  BY <1>4, StateAssumption
<1> QED BY <1>4, <1>5 DEF AllocateKey

(* The key a registration gets is one that no other item has.              *)
LEMMA KeyForRegistration ==
  ASSUME NEW items \in SUBSET Item, \A i, j \in items : i.service = j.service => i = j,
         NEW s \in Service, NEW p \in Props,
         NEW kept, kept = {i \in items : i.service # s}
  PROVE  AllocateKey(kept, Sanitize[PreferredName(p)]) \in Key \ KeysOf(kept)
<1>1. kept \in SUBSET Item /\ \A i, j \in kept : i.service = j.service => i = j
  OBVIOUS
<1>2. IsFiniteSet(kept) /\ Cardinality(kept) < Cardinality(Service)
  BY <1>1, OthersAreFewer
<1>3. PreferredName(p) \in Text \cup {NoText}
  BY PropsAssumption DEF PreferredName
<1>4. Sanitize[PreferredName(p)] \in Base
  BY <1>3 DEF Base
<1> QED BY <1>1, <1>2, <1>4, AllocatedKeyIsFree

LEMMA ItemAtIsItem ==
  ASSUME NEW tray, NEW k, HasKey(tray, k)
  PROVE  ItemAt(tray, k) \in tray.items /\ ItemAt(tray, k).key = k
  BY DEF HasKey, ItemAt

-----------------------------------------------------------------------------
(* A well formed state: no two items share a key or a service.             *)
WellFormed(tray) ==
  /\ tray = [config |-> tray.config, items |-> tray.items, revision |-> tray.revision]
  /\ tray.items \subseteq Item /\ tray.revision \in Nat
  /\ \A i, j \in tray.items : i.key = j.key \/ i.service = j.service => i = j

LEMMA RegisterWellFormed ==
  ASSUME NEW tray, WellFormed(tray), NEW s \in Service, NEW p \in Props
  PROVE  WellFormed(Register(tray, s, p).state)
<1> DEFINE kept == {i \in tray.items : i.service # s}
           item == [ since |-> tray.revision + 1,
                     key   |-> AllocateKey(kept, Sanitize[PreferredName(p)]),
                     service |-> s, props |-> p, menu |-> NoMenu ]
           next == Register(tray, s, p).state
<1>1. next = [ config |-> tray.config, items |-> kept \cup {item},
               revision |-> tray.revision + 1 ]
  BY DEF Register, AnnounceItems, WellFormed
<1>2. item.key \in Key \ KeysOf(kept)
  <2>1. /\ tray.items \in SUBSET Item
        /\ \A i, j \in tray.items : i.service = j.service => i = j
    BY DEF WellFormed
  <2>2. AllocateKey(kept, Sanitize[PreferredName(p)]) \in Key \ KeysOf(kept)
    BY <2>1, KeyForRegistration
  <2> QED BY <2>2
<1>3. item \in Item /\ item.service = s
  <2> DEFINE key == AllocateKey(kept, Sanitize[PreferredName(p)])
  <2>1. key \in Key
    BY <1>2
  <2>2. tray.revision + 1 \in Nat \ {0}
    BY DEF WellFormed
  <2> HIDE DEF key
  <2>3. [since |-> tray.revision + 1, key |-> key, service |-> s, props |-> p, menu |-> NoMenu]
          \in Item
    BY <2>1, <2>2 DEF Item
  <2> QED BY <2>3 DEF key
<1>4. kept \subseteq Item
  BY DEF WellFormed
<1> HIDE DEF item, next
<1>5. \A i, j \in kept \cup {item} : i.key = j.key \/ i.service = j.service => i = j
  BY <1>2, <1>3 DEF WellFormed, KeysOf
<1> HIDE DEF kept
<1>6. next.items \subseteq Item /\ next.revision \in Nat
  BY <1>1, <1>3, <1>4 DEF WellFormed
<1>7. next = [config |-> next.config, items |-> next.items, revision |-> next.revision]
  BY <1>1
<1>8. \A i, j \in next.items : i.key = j.key \/ i.service = j.service => i = j
  BY <1>1, <1>5
<1>9. WellFormed(next)
  BY <1>6, <1>7, <1>8 DEF WellFormed
<1> QED BY <1>9 DEF next

LEMMA VanishWellFormed ==
  ASSUME NEW tray, WellFormed(tray), NEW k \in Key
  PROVE  WellFormed(Vanish(tray, k).state)
<1> DEFINE kept == {i \in tray.items : i.key # k}
           next == Vanish(tray, k).state
<1>1. \/ next = tray
      \/ next = [config |-> tray.config, items |-> kept, revision |-> tray.revision + 1]
  BY DEF Vanish, AnnounceItems, NoEffect, WellFormed
<1>2. kept \subseteq tray.items
  OBVIOUS
<1> HIDE DEF kept, next
<1>3. WellFormed(next)
  BY <1>1, <1>2 DEF WellFormed
<1> QED BY <1>3 DEF next

LEMMA UpdatePropsWellFormed ==
  ASSUME NEW tray, WellFormed(tray), NEW k \in Key, NEW p \in Props
  PROVE  WellFormed(UpdateProps(tray, k, p).state)
<1> DEFINE old  == ItemAt(tray, k)
           new  == [old EXCEPT !.props = p]
           next == UpdateProps(tray, k, p).state
<1>1. CASE HasKey(tray, k) /\ old.props # p
  <2>1. old \in tray.items
    BY <1>1, ItemAtIsItem
  <2>2. new \in Item /\ new.key = old.key /\ new.service = old.service
    BY <2>1 DEF Item, WellFormed
  <2>3. next = [ config |-> tray.config, items |-> (tray.items \ {old}) \cup {new},
                 revision |-> tray.revision + 1 ]
    BY <1>1 DEF UpdateProps, AnnounceItems, Replace, WellFormed
  <2> HIDE DEF old, new, next
  <2>4. WellFormed(next)
    BY <2>1, <2>2, <2>3 DEF WellFormed
  <2> QED BY <2>4 DEF next
<1>2. CASE ~ (HasKey(tray, k) /\ old.props # p)
  BY <1>2 DEF UpdateProps, NoEffect
<1> QED BY <1>1, <1>2

-----------------------------------------------------------------------------
(* What is in a list of effects of each length the reducer returns.        *)
LEMMA EffectsOf ==
  /\ ToSet(<<>>) = {}
  /\ \A a : ToSet(<<a>>) = {a}
  /\ \A a, b, c : ToSet(<<a>> \o <<b, c>>) = {a, b, c}
<1>1. ToSet(<<>>) = {}
  BY DEF ToSet
<1>2. ASSUME NEW a PROVE ToSet(<<a>>) = {a}
  BY DEF ToSet
<1>3. ASSUME NEW a, NEW b, NEW c PROVE ToSet(<<a>> \o <<b, c>>) = {a, b, c}
  <2> DEFINE S == {a, b, c}
             s == <<a>> \o <<b, c>>
  <2>1. <<a>> \in Seq(S) /\ <<b, c>> \in Seq(S)
    OBVIOUS
  <2>2. /\ Len(s) = 3 /\ s \in Seq(S)
        /\ \A i \in 1 .. 3 : s[i] = IF i <= 1 THEN <<a>>[i] ELSE <<b, c>>[i - 1]
    BY <2>1, ConcatProperties
  <2>3. s[1] = a /\ s[2] = b /\ s[3] = c /\ DOMAIN s = 1 .. 3
    BY <2>2
  <2> HIDE DEF s
  <2>4. ToSet(s) = {a, b, c}
    BY <2>3 DEF ToSet
  <2> QED BY <2>4 DEF s
<1> QED BY <1>1, <1>2, <1>3

(* What PersistConfig carries is in normal form (model.rs update_config).  *)
LEMMA SavedIsNormal ==
  ASSUME NEW state, NEW config, NEW e \in ToSet(UpdateConfig(state, config).effects),
         e.effect = "PersistConfig"
  PROVE  e.config = Normalized(config)
<1> DEFINE new  == Normalized(config)
           next == AnnounceItems([state EXCEPT !.config = new])
<1>1. PICK r : next.effects = <<ItemsChanged(r)>>
  BY DEF AnnounceItems
<1>2. CASE new = state.config
  <2>1. UpdateConfig(state, config).effects = <<ItemsChanged(r)>>
    BY <1>1, <1>2 DEF UpdateConfig
  <2>2. e = ItemsChanged(r)
    BY <2>1, EffectsOf
  <2> QED BY <2>2 DEF ItemsChanged
<1>3. CASE new # state.config
  <2>1. PICK q : UpdateConfig(state, config).effects
                   = <<ItemsChanged(r)>> \o <<ConfigChanged(q), PersistConfig(new)>>
    BY <1>1, <1>3 DEF UpdateConfig, AnnounceItems
  <2>2. e \in {ItemsChanged(r), ConfigChanged(q), PersistConfig(new)}
    BY <2>1, EffectsOf
  <2>3. e = PersistConfig(new)
    BY <2>2 DEF ItemsChanged, ConfigChanged, PersistConfig
  <2> QED BY <2>3 DEF PersistConfig
<1> QED BY <1>2, <1>3

-----------------------------------------------------------------------------
(* Who goes by which key, and what an event makes of that: the steps of    *)
(* KeyPool, stated for the items before and after.                         *)
HolderIn(items, nobody) ==
  [k \in Key |-> IF \E i \in items : i.key = k
                 THEN (CHOOSE i \in items : i.key = k).service
                 ELSE nobody]

DistinctKeys(items) ==
  items \subseteq Item /\ \A i, j \in items : i.key = j.key => i = j

LEMMA HolderInValue ==
  ASSUME NEW items, DistinctKeys(items), NEW nobody
  PROVE  /\ \A i \in items : i.key \in Key /\ HolderIn(items, nobody)[i.key] = i.service
         /\ \A k \in Key \ KeysOf(items) : HolderIn(items, nobody)[k] = nobody
         /\ HolderIn(items, nobody) = [k \in Key |-> HolderIn(items, nobody)[k]]
<1>1. ASSUME NEW i \in items
      PROVE  i.key \in Key /\ HolderIn(items, nobody)[i.key] = i.service
  <2>1. i.key \in Key
    BY DEF DistinctKeys, Item
  <2>2. (CHOOSE j \in items : j.key = i.key) = i
    BY DEF DistinctKeys
  <2> QED BY <2>1, <2>2 DEF HolderIn
<1>2. ASSUME NEW k \in Key \ KeysOf(items)
      PROVE  HolderIn(items, nobody)[k] = nobody
  BY <1>2 DEF HolderIn, KeysOf
<1>3. HolderIn(items, nobody) = [k \in Key |-> HolderIn(items, nobody)[k]]
  BY DEF HolderIn
<1> QED BY <1>1, <1>2, <1>3

LEMMA EnteringTakes ==
  ASSUME NEW before, NEW after, DistinctKeys(before), DistinctKeys(after), NEW nobody,
         NEW item \in Item,
         NEW kept, kept = {i \in before : i.service # item.service},
         item.key \notin KeysOf(kept), after = kept \cup {item}
  PROVE  /\ HolderIn(before, nobody)[item.key] \in {nobody, item.service}
         /\ HolderIn(after, nobody)
              = [l \in Key |-> IF l = item.key THEN item.service
                               ELSE IF HolderIn(before, nobody)[l] = item.service THEN nobody
                               ELSE HolderIn(before, nobody)[l]]
<1> DEFINE s == item.service
           old == HolderIn(before, nobody)
           new == HolderIn(after, nobody)
<1>1. item.key \in Key
  BY DEF Item
<1>2. /\ \A i \in before : old[i.key] = i.service
      /\ \A i \in after : new[i.key] = i.service
  BY HolderInValue
<1>3. /\ \A k \in Key \ KeysOf(before) : old[k] = nobody
      /\ \A k \in Key \ KeysOf(after) : new[k] = nobody
  BY HolderInValue
<1>4. new = [k \in Key |-> new[k]]
  BY HolderInValue
<1> HIDE DEF old, new
<1>5. old[item.key] \in {nobody, s}
  BY <1>1, <1>2, <1>3 DEF KeysOf
<1>6. ASSUME NEW l \in Key
      PROVE  new[l] = IF l = item.key THEN s ELSE IF old[l] = s THEN nobody ELSE old[l]
  <2>1. CASE l = item.key
    BY <1>2, <2>1
  <2>2. CASE l # item.key /\ l \in KeysOf(kept)
    <3>1. PICK i \in kept : i.key = l
      BY <2>2 DEF KeysOf
    <3> QED BY <1>2, <2>2, <3>1
  <2>3. CASE l # item.key /\ l \notin KeysOf(kept)
    <3>1. new[l] = nobody
      BY <1>3, <2>3 DEF KeysOf
    <3>2. old[l] \in {s, nobody}
      BY <1>2, <1>3, <2>3 DEF KeysOf
    <3> QED BY <2>3, <3>1, <3>2
  <2> QED BY <2>1, <2>2, <2>3
<1>7. new = [l \in Key |-> IF l = item.key THEN s
                           ELSE IF old[l] = s THEN nobody ELSE old[l]]
  BY <1>4, <1>6
<1> QED BY <1>5, <1>7 DEF old, new

LEMMA LeavingReleases ==
  ASSUME NEW before, NEW after, DistinctKeys(before), DistinctKeys(after), NEW nobody,
         NEW k \in Key, \A i : i \in after <=> i \in before /\ i.key # k
  PROVE  HolderIn(after, nobody) = [HolderIn(before, nobody) EXCEPT ![k] = nobody]
<1> DEFINE old == HolderIn(before, nobody)
           new == HolderIn(after, nobody)
<1>1. /\ \A i \in before : old[i.key] = i.service
      /\ \A l \in Key \ KeysOf(before) : old[l] = nobody
      /\ old = [l \in Key |-> old[l]]
  BY HolderInValue
<1>2. \A i \in after : i.key # k
  OBVIOUS
<1>3. /\ \A i \in after : new[i.key] = i.service
      /\ \A l \in Key \ KeysOf(after) : new[l] = nobody
      /\ new = [l \in Key |-> new[l]]
  BY HolderInValue
<1> HIDE DEF old, new
<1>4. ASSUME NEW l \in Key
      PROVE  new[l] = IF l = k THEN nobody ELSE old[l]
  <2>1. CASE l \in KeysOf(after)
    <3>1. PICK i \in after : i.key = l
      BY <2>1 DEF KeysOf
    <3> QED BY <1>1, <1>2, <1>3, <3>1
  <2>2. CASE l \notin KeysOf(after)
    <3>1. l # k => l \notin KeysOf(before)
      BY <2>2 DEF KeysOf
    <3> QED BY <1>1, <1>3, <2>2, <3>1
  <2> QED BY <2>1, <2>2
<1>5. new = [old EXCEPT ![k] = nobody]
  BY <1>1, <1>3, <1>4
<1> QED BY <1>5 DEF old, new

LEMMA RevisingKeepsHolders ==
  ASSUME NEW before, NEW after, DistinctKeys(before), DistinctKeys(after), NEW nobody,
         NEW old \in before, NEW new, old.key = new.key, old.service = new.service,
         after = (before \ {old}) \cup {new}
  PROVE  HolderIn(after, nobody) = HolderIn(before, nobody)
<1>1. KeysOf(after) = KeysOf(before)
  BY DEF KeysOf
<1>2. ASSUME NEW k \in Key
      PROVE  HolderIn(after, nobody)[k] = HolderIn(before, nobody)[k]
  <2>1. CASE k \notin KeysOf(before)
    BY <1>1, <2>1, HolderInValue
  <2>2. CASE k \in KeysOf(before)
    <3>1. PICK i \in before, j \in after : i.key = k /\ j.key = k
      BY <1>1, <2>2 DEF KeysOf
    <3>2. i.service = j.service
      BY <3>1 DEF DistinctKeys
    <3>3. HolderIn(before, nobody)[k] = i.service
      BY <3>1, HolderInValue
    <3>4. HolderIn(after, nobody)[k] = j.service
      BY <3>1, HolderInValue
    <3> QED BY <3>2, <3>3, <3>4
  <2> QED BY <2>1, <2>2
<1> QED BY <1>2, HolderInValue


-----------------------------------------------------------------------------
(* Counting who comes before tells the places of a strict total order (L)  *)
(* on finitely many things: each place is somebody's.                      *)
StrictOrder(S, L) ==
  /\ \A i \in S : <<i, i>> \notin L
  /\ \A i, j, k \in S : <<i, j>> \in L /\ <<j, k>> \in L => <<i, k>> \in L
  /\ \A i, j \in S : i = j \/ <<i, j>> \in L \/ <<j, i>> \in L

Rank(S, L) == [i \in S |-> Cardinality({j \in S : <<j, i>> \in L})]

IsRanking(f, S, L) ==
  /\ Cardinality(S) \in Nat
  /\ \A i \in S : f[i] \in 0 .. Cardinality(S) - 1
  /\ \A i, j \in S : <<i, j>> \in L => f[i] < f[j]
  /\ \A i, j \in S : f[i] = f[j] => i = j
  /\ \A n \in 0 .. Cardinality(S) - 1 : \E i \in S : f[i] = n

LEMMA Ranked ==
  ASSUME NEW S, IsFiniteSet(S), NEW L, StrictOrder(S, L)
  PROVE  IsRanking(Rank(S, L), S, L)
<1> DEFINE place == Rank(S, L)
           Earlier(i) == {j \in S : <<j, i>> \in L}
           N == Cardinality(S)
<1>1. \A i \in S : place[i] = Cardinality(Earlier(i)) /\ Earlier(i) \subseteq S
  BY DEF Rank
<1>0. place = [i \in S |-> place[i]]
  BY DEF Rank
<1> HIDE DEF place
<1>2. \A i \in S : IsFiniteSet(Earlier(i)) /\ place[i] \in Nat
  BY <1>1, FS_Subset, FS_CardinalityType
<1>3. N \in Nat
  BY FS_CardinalityType
<1>4. ASSUME NEW i \in S, NEW T, IsFiniteSet(T), Earlier(i) \subseteq T, NEW k \in T, k \notin Earlier(i)
      PROVE  place[i] < Cardinality(T)
  <2>1. Earlier(i) \subseteq T \ {k}
    BY <1>4
  <2>2. IsFiniteSet(T \ {k}) /\ Cardinality(T \ {k}) = Cardinality(T) - 1 /\ Cardinality(T) \in Nat
    BY <1>4, FS_RemoveElement, FS_CardinalityType
  <2> HIDE DEF Earlier
  <2>3. Cardinality(Earlier(i)) <= Cardinality(T \ {k})
    BY <2>1, <2>2, FS_Subset
  <2> QED BY <1>1, <1>2, <2>2, <2>3
<1>5. ASSUME NEW i \in S
      PROVE  place[i] \in 0 .. N - 1
  <2>1. i \notin Earlier(i)
    BY DEF StrictOrder
  <2>2. place[i] < N
    BY <1>1, <1>4, <2>1
  <2>3. place[i] \in Nat
    BY <1>2
  <2> HIDE DEF N
  <2> QED BY <1>3, <2>2, <2>3
<1>6. ASSUME NEW i \in S, NEW j \in S, <<i, j>> \in L
      PROVE  place[i] < place[j]
  <2>1. i \notin Earlier(i) /\ i \in Earlier(j) /\ Earlier(i) \subseteq Earlier(j)
    BY <1>6 DEF StrictOrder
  <2> HIDE DEF Earlier
  <2>2. place[i] < Cardinality(Earlier(j))
    BY <1>2, <1>4, <2>1
  <2> QED BY <1>1, <2>2
<1>7. ASSUME NEW i \in S, NEW j \in S, place[i] = place[j]
      PROVE  i = j
  <2>0. place[i] \in Nat
    BY <1>2
  <2>1. ~(place[i] < place[j]) /\ ~(place[j] < place[i])
    BY <1>7, <2>0
  <2> QED BY <1>6, <2>1 DEF StrictOrder
<1>8. place \in Injection(S, 0 .. N - 1)
  <2>1. DOMAIN place = S /\ place \in [S -> 0 .. N - 1]
    BY <1>0, <1>5
  <2> QED BY <1>7, <2>1 DEF Injection, IsInjective
<1>9. IsFiniteSet(0 .. N - 1) /\ Cardinality(0 .. N - 1) = N
  <2>1. 0 \in Int /\ N - 1 \in Int /\ (0 > N - 1 => N = 0) /\ (~(0 > N - 1) => (N - 1) - 0 + 1 = N)
    BY <1>3
  <2>2. /\ IsFiniteSet(0 .. N - 1)
        /\ Cardinality(0 .. N - 1) = IF 0 > N - 1 THEN 0 ELSE (N - 1) - 0 + 1
    BY <2>1, FS_Interval
  <2> QED BY <2>1, <2>2
<1>10. place \in Surjection(S, 0 .. N - 1)
  BY <1>8, <1>9, FS_Injection
<1>11. \A n \in 0 .. N - 1 : \E i \in S : place[i] = n
  BY <1>10 DEF Surjection
<1> QED BY <1>3, <1>5, <1>6, <1>7, <1>11 DEF place, IsRanking

(* d is what s has at some of its places, the n-th of them at nth[n].      *)
IsPart(d, s, places, nth) ==
  /\ \A n \in 1 .. Cardinality(places) : d[n] = s[nth[n]]
  /\ \A p \in places : \E n \in 1 .. Cardinality(places) : nth[n] = p
  /\ \A m, n \in 1 .. Cardinality(places) : m < n => nth[m] < nth[n]
  /\ \A m, n \in 1 .. Cardinality(places) : nth[m] = nth[n] => m = n

PartAt(d, s, places) ==
  /\ Cardinality(places) \in Nat
  /\ d = [n \in 1 .. Cardinality(places) |-> d[n]]
  /\ \E nth \in [1 .. Cardinality(places) -> places] : IsPart(d, s, places, nth)

LEMMA AtPlaces ==
  ASSUME NEW s, NEW places \in SUBSET Nat, IsFiniteSet(places)
  PROVE  PartAt(At(s, places), s, places)
<1> DEFINE L == {p \in places \X places : p[1] < p[2]}
           place == Rank(places, L)
           N == Cardinality(places)
           nth == [n \in 1 .. N |-> CHOOSE p \in places : Cardinality({q \in places : q < p}) = n - 1]
<1>1. StrictOrder(places, L)
  BY DEF StrictOrder
<1>2. \A i \in places : {j \in places : <<j, i>> \in L} = {q \in places : q < i}
  OBVIOUS
<1>3. \A i \in places : place[i] = Cardinality({q \in places : q < i})
  BY <1>2 DEF Rank
<1> HIDE DEF L
<1>4. /\ N \in Nat
      /\ \A i \in places : place[i] \in 0 .. N - 1
      /\ \A i, j \in places : <<i, j>> \in L => place[i] < place[j]
      /\ \A i, j \in places : place[i] = place[j] => i = j
      /\ \A n \in 0 .. N - 1 : \E i \in places : place[i] = n
  <2>1. IsRanking(place, places, L)
    BY <1>1, Ranked
  <2> HIDE DEF place
  <2> QED BY <2>1 DEF IsRanking
<1> HIDE DEF place
<1>5. ASSUME NEW n \in 1 .. N
      PROVE  nth[n] \in places /\ place[nth[n]] = n - 1
  <2>1. n - 1 \in 0 .. N - 1
    BY <1>4
  <2>2. \E p \in places : Cardinality({q \in places : q < p}) = n - 1
    BY <1>3, <1>4, <2>1
  <2>3. nth[n] \in places /\ Cardinality({q \in places : q < nth[n]}) = n - 1
    BY <2>2
  <2> QED BY <1>3, <2>3
<1>6. /\ At(s, places) = [n \in 1 .. N |-> At(s, places)[n]]
      /\ \A n \in 1 .. N : At(s, places)[n] = s[nth[n]]
  BY DEF At
<1>7. nth \in [1 .. N -> places]
  BY <1>5
<1> HIDE DEF nth
<1>8. ASSUME NEW p \in places
      PROVE  \E n \in 1 .. N : nth[n] = p
  <2>1. place[p] + 1 \in 1 .. N /\ (place[p] + 1) - 1 = place[p]
    BY <1>4
  <2> QED BY <1>4, <1>5, <2>1
<1>9. ASSUME NEW m \in 1 .. N, NEW n \in 1 .. N, m < n
      PROVE  nth[m] < nth[n]
  <2>0. m \in Nat /\ n \in Nat /\ m - 1 < n - 1
    BY <1>4, <1>9
  <2>1. nth[m] \in Nat /\ nth[n] \in Nat /\ place[nth[m]] < place[nth[n]]
    BY <1>5, <2>0
  <2>2. nth[m] # nth[n] /\ ~(place[nth[n]] < place[nth[m]])
    BY <1>4, <1>5, <2>1
  <2>3. nth[n] < nth[m] => <<nth[n], nth[m]>> \in L
    BY <1>5 DEF L
  <2> QED BY <1>4, <1>5, <2>1, <2>2, <2>3
<1>10. ASSUME NEW m \in 1 .. N, NEW n \in 1 .. N, nth[m] = nth[n]
       PROVE  m = n
  <2>1. m \in Int /\ n \in Int /\ m - 1 = n - 1
    BY <1>4, <1>5, <1>10
  <2> QED BY <2>1
<1>11. IsPart(At(s, places), s, places, nth)
  BY <1>6, <1>8, <1>9, <1>10 DEF IsPart
<1> QED BY <1>4, <1>6, <1>7, <1>11 DEF PartAt

(* All the places of a sequence: the sequence.                             *)
LEMMA AtAllPlaces ==
  ASSUME NEW S, NEW s \in Seq(S)
  PROVE  At(s, 1 .. Len(s)) = s
<1> DEFINE N == Len(s)
           all == 1 .. N
<1>1. N \in Nat /\ s = [n \in 1 .. N |-> s[n]]
  OBVIOUS
<1>2. IsFiniteSet(all) /\ Cardinality(all) = N
  <2>1. 1 \in Int /\ N \in Int /\ (1 > N => N = 0) /\ N - 1 + 1 = N
    BY <1>1
  <2> QED BY <2>1, FS_Interval
<1>3. ASSUME NEW p \in all
      PROVE  Cardinality({q \in all : q < p}) = p - 1
  <2>1. {q \in all : q < p} = 1 .. p - 1
    BY <1>1
  <2>2. 1 \in Int /\ p - 1 \in Int /\ (1 > p - 1 => p - 1 = 0) /\ (p - 1) - 1 + 1 = p - 1
    BY <1>1
  <2>3. Cardinality(1 .. p - 1) = p - 1
    BY <2>2, FS_Interval
  <2> QED BY <2>1, <2>3
<1>4. ASSUME NEW n \in 1 .. N
      PROVE  (CHOOSE p \in all : Cardinality({q \in all : q < p}) = n - 1) = n
  <2>1. \A p \in all : Cardinality({q \in all : q < p}) = n - 1 <=> p = n
    BY <1>1, <1>3
  <2>2. n \in all
    OBVIOUS
  <2> QED BY <2>1, <2>2
<1>5. At(s, all) = [n \in 1 .. N |->
                      s[CHOOSE p \in all : Cardinality({q \in all : q < p}) = n - 1]]
  BY <1>2 DEF At
<1> QED BY <1>1, <1>4, <1>5

(* dedupe (config.rs): keys, each once, those of the entries.              *)
LEMMA DedupeGives ==
  ASSUME NEW s \in Seq(Entry)
  PROVE  /\ Dedupe(s) \in Seq(Key) /\ IsInjective(Dedupe(s))
         /\ \A k : k \in ToSet(Dedupe(s)) <=> k # Blank /\ \E n \in DOMAIN s : Trimmed[s[n]] = k
<1> DEFINE keys == [n \in DOMAIN s |-> Trimmed[s[n]]]
           First(n) == \A m \in DOMAIN keys : keys[m] = keys[n] => n <= m
           places == {n \in DOMAIN keys : keys[n] # Blank /\ First(n)}
           N == Cardinality(places)
           d == At(keys, places)
<1>1. Dedupe(s) = d
  BY DEF Dedupe
<1>2. Len(s) \in Nat /\ DOMAIN s = 1 .. Len(s) /\ \A n \in 1 .. Len(s) : s[n] \in Entry
  OBVIOUS
<1>3. DOMAIN keys = 1 .. Len(s) /\ \A n \in 1 .. Len(s) : keys[n] = Trimmed[s[n]]
  BY <1>2
<1>4. \A n \in 1 .. Len(s) : keys[n] \in Key \cup {Blank}
  BY <1>2, <1>3, ConfigAssumption
<1> HIDE DEF keys
<1>5. places \in SUBSET Nat /\ places \subseteq 1 .. Len(s) /\ IsFiniteSet(places)
  <2>1. IsFiniteSet(1 .. Len(s))
    BY <1>2, FS_Interval
  <2> QED BY <1>3, <2>1, FS_Subset
<1>6. \A n \in places : keys[n] # Blank
  OBVIOUS
<1>7. \A m, n \in places : keys[m] = keys[n] => m = n
  BY <1>5
<1>8. ASSUME NEW n \in 1 .. Len(s), keys[n] # Blank
      PROVE  \E m \in places : keys[m] = keys[n]
  <2> DEFINE same == {m \in 1 .. Len(s) : keys[m] = keys[n]}
  <2>1. same \in SUBSET Nat /\ same # {}
    BY <1>2
  <2>2. PICK m \in same : \A l \in same : m <= l
    BY <2>1, LeastElement
  <2> QED BY <1>3, <1>8, <2>2
<1> HIDE DEF places
<1>9. PartAt(d, keys, places)
  BY <1>5, AtPlaces
<1> HIDE DEF d
<1>10. PICK nth \in [1 .. N -> places] : IsPart(d, keys, places, nth)
  BY <1>9 DEF PartAt
<1>11. /\ N \in Nat /\ d = [n \in 1 .. N |-> d[n]]
       /\ \A n \in 1 .. N : d[n] = keys[nth[n]]
       /\ \A p \in places : \E n \in 1 .. N : nth[n] = p
       /\ \A m, n \in 1 .. N : nth[m] = nth[n] => m = n
  BY <1>9, <1>10 DEF PartAt, IsPart
<1> HIDE DEF N
<1>12. \A n \in 1 .. N : d[n] \in Key
  BY <1>4, <1>5, <1>6, <1>10, <1>11
<1>13. d \in Seq(Key) /\ DOMAIN d = 1 .. N
  <2>1. d \in [1 .. N -> Key]
    BY <1>11, <1>12
  <2> QED BY <1>11, <2>1, SeqDef
<1>14. IsInjective(d)
  <2> SUFFICES ASSUME NEW m \in 1 .. N, NEW n \in 1 .. N, d[m] = d[n] PROVE m = n
    BY <1>13 DEF IsInjective
  <2>1. nth[m] \in places /\ nth[n] \in places /\ keys[nth[m]] = keys[nth[n]]
    BY <1>11
  <2> QED BY <1>7, <1>11, <2>1
<1>15. ASSUME NEW k
       PROVE  k \in ToSet(d) <=> k # Blank /\ \E n \in DOMAIN s : Trimmed[s[n]] = k
  <2>1. k \in ToSet(d) <=> \E n \in 1 .. N : d[n] = k
    BY <1>13 DEF ToSet
  <2>2. (\E n \in 1 .. N : d[n] = k) => \E p \in places : keys[p] = k
    BY <1>11
  <2>3. (\E p \in places : keys[p] = k) => \E n \in 1 .. N : d[n] = k
    BY <1>11
  <2>4. (\E p \in places : keys[p] = k) <=> k # Blank /\ \E n \in 1 .. Len(s) : keys[n] = k
    BY <1>5, <1>6, <1>8
  <2> QED BY <1>2, <1>3, <2>1, <2>2, <2>3, <2>4
<1> QED BY <1>1, <1>13, <1>14, <1>15

(* A list of keys each of which is there once needs no dedupe.             *)
LEMMA DedupeKeeps ==
  ASSUME NEW s \in Seq(Key), IsInjective(s)
  PROVE  Dedupe(s) = s
<1> DEFINE keys == [n \in DOMAIN s |-> Trimmed[s[n]]]
           First(n) == \A m \in DOMAIN keys : keys[m] = keys[n] => n <= m
           places == {n \in DOMAIN keys : keys[n] # Blank /\ First(n)}
<1>1. Dedupe(s) = At(keys, places)
  BY DEF Dedupe
<1>2. /\ Len(s) \in Nat /\ DOMAIN s = 1 .. Len(s)
      /\ \A n \in 1 .. Len(s) : s[n] \in Key
      /\ s = [n \in DOMAIN s |-> s[n]]
  OBVIOUS
<1>3. \A n \in DOMAIN s : Trimmed[s[n]] = s[n] /\ s[n] # Blank
  BY <1>2, ConfigAssumption
<1>4. keys = s
  BY <1>2, <1>3
<1>5. places = 1 .. Len(s)
  BY <1>2, <1>3, <1>4 DEF IsInjective
<1> QED BY <1>1, <1>4, <1>5, AtAllPlaces

-----------------------------------------------------------------------------
(* What a client may ask for, and what is in normal form.                  *)
RawForm ==
  [ icon_size : Int, sort : SortMode, order : Seq(Entry), hidden : Seq(Entry),
    panel_position : Int ]

Normal(c) ==
  /\ c \in [ icon_size : 8 .. 128, sort : SortMode, order : Seq(Key), hidden : Seq(Key),
             panel_position : 0 .. 64 ]
  /\ IsInjective(c.order) /\ IsInjective(c.hidden)

(* config.rs: "Everything downstream may assume a normalised config".      *)
LEMMA NormalizedIsNormal ==
  ASSUME NEW c \in RawForm
  PROVE  Normal(Normalized(c))
<1> DEFINE order  == Dedupe(c.order)
           hidden == Dedupe(c.hidden)
           size   == Clamp(c.icon_size, 8, 128)
           place  == Clamp(c.panel_position, 0, 64)
<1>1. order \in Seq(Key) /\ IsInjective(order)
  BY DedupeGives DEF RawForm
<1>2. hidden \in Seq(Key) /\ IsInjective(hidden)
  BY DedupeGives DEF RawForm
<1>0. c.icon_size \in Int /\ c.panel_position \in Int
  BY DEF RawForm
<1>3. size \in 8 .. 128 /\ place \in 0 .. 64
  <2>1. size \in 8 .. 128
    BY <1>0 DEF Clamp
  <2>2. place \in 0 .. 64
    BY <1>0 DEF Clamp
  <2> QED BY <2>1, <2>2
<1>4. Normalized(c) = [ icon_size |-> size, sort |-> c.sort, order |-> order,
                        hidden |-> hidden, panel_position |-> place ]
  BY DEF Normalized
<1>5. c.sort \in SortMode
  BY DEF RawForm
<1> HIDE DEF order, hidden, size, place
<1> QED BY <1>1, <1>2, <1>3, <1>4, <1>5 DEF Normal

(* Normalising twice is normalising once.                                  *)
LEMMA NormalStays ==
  ASSUME NEW c, Normal(c)
  PROVE  Normalized(c) = c
<1>1. Dedupe(c.order) = c.order /\ Dedupe(c.hidden) = c.hidden
  BY DedupeKeeps DEF Normal
<1>2. c.icon_size \in 8 .. 128 /\ c.panel_position \in 0 .. 64
  BY DEF Normal
<1>0. c.icon_size \in Int /\ c.panel_position \in Int
  BY <1>2
<1>3. Clamp(c.icon_size, 8, 128) = c.icon_size /\ Clamp(c.panel_position, 0, 64) = c.panel_position
  <2>1. Clamp(c.icon_size, 8, 128) = c.icon_size
    BY <1>0, <1>2 DEF Clamp
  <2>2. Clamp(c.panel_position, 0, 64) = c.panel_position
    BY <1>0, <1>2 DEF Clamp
  <2> QED BY <2>1, <2>2
<1> QED BY <1>1, <1>3 DEF Normalized, Normal

LEMMA NormalIsRaw ==
  ASSUME NEW c, Normal(c)
  PROVE  c \in RawForm
<1>1. Key \subseteq Entry
  BY ConfigAssumption
<1>2. c.order \in Seq(Entry) /\ c.hidden \in Seq(Entry)
  BY <1>1 DEF Normal
<1>0. c.icon_size \in 8 .. 128 /\ c.panel_position \in 0 .. 64 /\ c.sort \in SortMode
  BY DEF Normal
<1>3. c.icon_size \in Int /\ c.panel_position \in Int
  BY <1>0
<1>4. c = [ icon_size |-> c.icon_size, sort |-> c.sort, order |-> c.order,
            hidden |-> c.hidden, panel_position |-> c.panel_position ]
  BY DEF Normal
<1> QED BY <1>0, <1>2, <1>3, <1>4 DEF RawForm

LEMMA DefaultIsNormal == Normal(DefaultConfig)
  BY DEF Normal, DefaultConfig, SortMode, IsInjective

LEMMA FromViewIsNormal ==
  ASSUME NEW view \in RawForm
  PROVE  Normal(FromView(view))
<1>1. view.icon_size % Word \in Int
  BY ConfigAssumption DEF RawForm
<1>2. [view EXCEPT !.icon_size = @ % Word] \in RawForm
  BY <1>1 DEF RawForm
<1> QED BY <1>2, NormalizedIsNormal DEF FromView

LEMMA WithOrderIsNormal ==
  ASSUME NEW c, Normal(c), NEW order \in Seq(Key)
  PROVE  Normal(WithOrder(c, order))
<1>1. order \in Seq(Entry)
  BY ConfigAssumption
<1>2. "manual" \in SortMode
  BY DEF SortMode
<1>3. c \in RawForm
  BY NormalIsRaw
<1>4. [c EXCEPT !.sort = "manual", !.order = order] \in RawForm
  BY <1>1, <1>2, <1>3 DEF RawForm
<1> QED BY <1>4, NormalizedIsNormal DEF WithOrder

(* Leaving one key out of a list.                                          *)
LEMMA LeavingOut ==
  ASSUME NEW s \in Seq(Key), IsInjective(s), NEW key \in Key,
         NEW others, others = At(s, {n \in DOMAIN s : s[n] # key})
  PROVE  /\ others \in Seq(Key) /\ IsInjective(others)
         /\ \A k : Contains(others, k) <=> Contains(s, k) /\ k # key
<1> DEFINE places == {n \in DOMAIN s : s[n] # key}
           N == Cardinality(places)
<1>1. Len(s) \in Nat /\ DOMAIN s = 1 .. Len(s) /\ \A n \in 1 .. Len(s) : s[n] \in Key
  OBVIOUS
<1>2. places \in SUBSET Nat /\ places \subseteq 1 .. Len(s) /\ IsFiniteSet(places)
  <2>1. IsFiniteSet(1 .. Len(s))
    BY <1>1, FS_Interval
  <2> QED BY <1>1, <2>1, FS_Subset
<1>3. \A p \in 1 .. Len(s) : p \in places <=> s[p] # key
  BY <1>1
<1>4. others = At(s, places)
  OBVIOUS
<1> HIDE DEF places
<1>5. PartAt(others, s, places)
  BY <1>2, <1>4, AtPlaces
<1>6. PICK nth \in [1 .. N -> places] : IsPart(others, s, places, nth)
  BY <1>5 DEF PartAt
<1>7. /\ N \in Nat /\ others = [n \in 1 .. N |-> others[n]]
      /\ \A n \in 1 .. N : others[n] = s[nth[n]]
      /\ \A p \in places : \E n \in 1 .. N : nth[n] = p
      /\ \A m, n \in 1 .. N : nth[m] = nth[n] => m = n
  BY <1>5, <1>6 DEF PartAt, IsPart
<1> HIDE DEF N
<1>8. \A n \in 1 .. N : nth[n] \in places /\ nth[n] \in 1 .. Len(s) /\ others[n] \in Key
  BY <1>1, <1>2, <1>7
<1>9. others \in Seq(Key) /\ DOMAIN others = 1 .. N /\ Len(others) = N
  <2>1. others \in [1 .. N -> Key]
    BY <1>7, <1>8
  <2>2. others \in Seq(Key) /\ DOMAIN others = 1 .. N
    BY <1>7, <2>1, SeqDef
  <2>3. Len(others) \in Nat /\ DOMAIN others = 1 .. Len(others)
    BY <2>2
  <2> QED BY <1>7, <2>2, <2>3
<1>10. IsInjective(others)
  <2> SUFFICES ASSUME NEW m \in 1 .. N, NEW n \in 1 .. N, others[m] = others[n] PROVE m = n
    BY <1>9 DEF IsInjective
  <2>1. s[nth[m]] = s[nth[n]] /\ nth[m] \in DOMAIN s /\ nth[n] \in DOMAIN s
    BY <1>1, <1>7, <1>8
  <2>2. nth[m] = nth[n]
    BY <2>1 DEF IsInjective
  <2> QED BY <1>7, <2>2
<1>11. ASSUME NEW k
       PROVE  Contains(others, k) <=> Contains(s, k) /\ k # key
  <2>1. Contains(others, k) <=> \E n \in 1 .. N : others[n] = k
    BY <1>9 DEF Contains
  <2>2. Contains(s, k) <=> \E p \in 1 .. Len(s) : s[p] = k
    BY DEF Contains
  <2>3. (\E n \in 1 .. N : others[n] = k) <=> \E p \in places : s[p] = k
    BY <1>7, <1>8
  <2>4. (\E p \in places : s[p] = k) <=> (\E p \in 1 .. Len(s) : s[p] = k) /\ k # key
    BY <1>2, <1>3
  <2> QED BY <2>1, <2>2, <2>3, <2>4
<1> QED BY <1>9, <1>10, <1>11

(* set_item_hidden (config.rs): one key of the hidden ones, nothing else.  *)
HidesOnly(new, c, key) ==
  /\ [new EXCEPT !.hidden = <<>>] = [c EXCEPT !.hidden = <<>>]
  /\ \A k \in Key \ {key} : IsHidden(new, k) = IsHidden(c, k)

LEMMA HidingIsNormal ==
  ASSUME NEW c, Normal(c), NEW key \in Key, NEW hidden \in BOOLEAN
  PROVE  Normal(WithHidden(c, key, hidden)) /\ HidesOnly(WithHidden(c, key, hidden), c, key)
<1> DEFINE others == At(c.hidden, {n \in DOMAIN c.hidden : c.hidden[n] # key})
           listed == IF hidden THEN Append(others, key) ELSE others
           new == [c EXCEPT !.hidden = listed]
<1>1. c.hidden \in Seq(Key) /\ IsInjective(c.hidden)
  BY DEF Normal
<1>2. /\ others \in Seq(Key) /\ IsInjective(others)
      /\ \A k : Contains(others, k) <=> Contains(c.hidden, k) /\ k # key
  BY <1>1, LeavingOut
<1>0. WithHidden(c, key, hidden) = Normalized(new)
  BY DEF WithHidden
<1> HIDE DEF others
<1>3. /\ listed \in Seq(Key) /\ IsInjective(listed)
      /\ \A k \in Key \ {key} : Contains(listed, k) <=> Contains(c.hidden, k)
  <2>1. CASE ~hidden
    BY <1>2, <2>1
  <2>2. CASE hidden
    <3>1. Len(others) \in Nat /\ \A n \in 1 .. Len(others) : others[n] # key
      BY <1>2 DEF Contains
    <3>2. listed = Append(others, key) /\ listed \in Seq(Key) /\ Len(listed) = Len(others) + 1
          /\ listed[Len(others) + 1] = key
          /\ \A n \in 1 .. Len(others) : listed[n] = others[n]
      BY <1>2, <2>2
    <3> HIDE DEF listed
    <3>3. DOMAIN listed = 1 .. Len(others) + 1 /\ DOMAIN others = 1 .. Len(others)
      BY <1>2, <3>2
    <3>4. IsInjective(listed)
      BY <1>2, <3>1, <3>2, <3>3 DEF IsInjective
    <3>5. \A k \in Key \ {key} : Contains(listed, k) <=> Contains(others, k)
      BY <3>1, <3>2 DEF Contains
    <3> QED BY <1>2, <3>2, <3>4, <3>5
  <2> QED BY <2>1, <2>2
<1> HIDE DEF listed
<1>4. Normal(new)
  BY <1>3 DEF Normal
<1>5. new.hidden = listed /\ [new EXCEPT !.hidden = <<>>] = [c EXCEPT !.hidden = <<>>]
  BY DEF Normal
<1>6. Normalized(new) = new
  BY <1>4, NormalStays
<1> HIDE DEF new
<1>7. HidesOnly(new, c, key)
  <2>1. ASSUME NEW k \in Key \ {key} PROVE IsHidden(new, k) = IsHidden(c, k)
    BY <1>3, <1>5 DEF IsHidden, Contains
  <2> QED BY <1>5, <2>1 DEF HidesOnly
<1> QED BY <1>0, <1>4, <1>6, <1>7

-----------------------------------------------------------------------------
(* Pairs of numbers, compared by the first and then by the second.         *)
LEMMA Lexicographic ==
  ASSUME NEW S, NEW a \in [S -> Nat], NEW b \in [S -> Nat],
         \A i, j \in S : a[i] = a[j] /\ b[i] = b[j] => i = j,
         NEW L,
         \A i, j \in S : <<i, j>> \in L <=> a[i] < a[j] \/ (a[i] = a[j] /\ b[i] < b[j])
  PROVE  StrictOrder(S, L)
<1>0. \A i \in S : a[i] \in Nat /\ b[i] \in Nat
  OBVIOUS
<1>1. \A i \in S : <<i, i>> \notin L
  BY <1>0
<1>2. ASSUME NEW i \in S, NEW j \in S, NEW k \in S, <<i, j>> \in L, <<j, k>> \in L
      PROVE  <<i, k>> \in L
  <2>1. /\ a[i] < a[j] \/ (a[i] = a[j] /\ b[i] < b[j])
        /\ a[j] < a[k] \/ (a[j] = a[k] /\ b[j] < b[k])
    BY <1>2
  <2>2. a[i] < a[k] \/ (a[i] = a[k] /\ b[i] < b[k])
    BY <1>0, <2>1
  <2> QED BY <2>2
<1>3. ASSUME NEW i \in S, NEW j \in S
      PROVE  i = j \/ <<i, j>> \in L \/ <<j, i>> \in L
  <2>1. \/ a[i] < a[j] \/ a[j] < a[i]
        \/ a[i] = a[j] /\ (b[i] < b[j] \/ b[j] < b[i] \/ b[i] = b[j])
    BY <1>0
  <2> QED BY <2>1
<1> QED BY <1>1, <1>2, <1>3 DEF StrictOrder

(* The place of a key in an order is one of its places.                    *)
LEMMA PlaceIsPlace ==
  ASSUME NEW order \in Seq(Key), NEW key
  PROVE  /\ PlaceIn(order, key) \in Nat \ {0}
         /\ Contains(order, key) => /\ PlaceIn(order, key) \in DOMAIN order
                                    /\ order[PlaceIn(order, key)] = key
<1>1. Len(order) \in Nat /\ DOMAIN order = 1 .. Len(order)
  OBVIOUS
<1>2. CASE ~Contains(order, key)
  BY <1>1, <1>2 DEF PlaceIn
<1>3. CASE Contains(order, key)
  <2> DEFINE places == {n \in DOMAIN order : order[n] = key}
             First(n) == order[n] = key /\ \A m \in 1 .. n - 1 : order[m] # key
  <2>1. places \in SUBSET Nat /\ places # {}
    BY <1>1, <1>3 DEF Contains
  <2>2. PICK n \in places : \A m \in places : n <= m
    BY <2>1, LeastElement
  <2>3. n \in DOMAIN order /\ First(n)
    BY <1>1, <2>2
  <2>4. PlaceIn(order, key) = CHOOSE p \in DOMAIN order : First(p)
    BY <1>3 DEF PlaceIn
  <2> HIDE DEF First
  <2>5. PlaceIn(order, key) \in DOMAIN order /\ First(PlaceIn(order, key))
    BY <2>3, <2>4
  <2> QED BY <1>1, <2>5 DEF First
<1> QED BY <1>2, <1>3

(* In a list without repetitions a key has one place.                      *)
LEMMA OnePlace ==
  ASSUME NEW order \in Seq(Key), IsInjective(order), NEW n \in DOMAIN order
  PROVE  PlaceIn(order, order[n]) = n
<1>1. DOMAIN order = 1 .. Len(order) /\ Contains(order, order[n])
  BY DEF Contains
<1>2. /\ PlaceIn(order, order[n]) \in DOMAIN order
      /\ order[PlaceIn(order, order[n])] = order[n]
  BY <1>1, PlaceIsPlace
<1> QED BY <1>2 DEF IsInjective

LEMMA KeysAtPlaces ==
  ASSUME NEW order \in Seq(Key), NEW k \in ToSet(order), NEW l \in ToSet(order),
         PlaceIn(order, k) = PlaceIn(order, l)
  PROVE  k = l
<1>1. DOMAIN order = 1 .. Len(order)
  OBVIOUS
<1>2. Contains(order, k) /\ Contains(order, l)
  BY <1>1 DEF Contains, ToSet
<1>3. order[PlaceIn(order, k)] = k /\ order[PlaceIn(order, l)] = l
  BY <1>2, PlaceIsPlace
<1> QED BY <1>3

LEMMA TakenOut ==
  ASSUME NEW s \in Seq(Key), NEW at \in 1 .. Len(s)
  PROVE  /\ RemoveAt(s, at) \in Seq(Key) /\ Len(RemoveAt(s, at)) = Len(s) - 1
         /\ \A n \in 1 .. Len(s) - 1 :
              RemoveAt(s, at)[n] = IF n < at THEN s[n] ELSE s[n + 1]
<1> DEFINE front == SubSeq(s, 1, at - 1)
           back == SubSeq(s, at + 1, Len(s))
<1>1. Len(s) \in Nat /\ at \in Int /\ at >= 1 /\ at <= Len(s)
  OBVIOUS
<1>2. front \in Seq(Key) /\ Len(front) = at - 1 /\ \A n \in 1 .. at - 1 : front[n] = s[n]
  BY <1>1
<1>3. /\ back \in Seq(Key) /\ Len(back) = Len(s) - at
      /\ \A n \in 1 .. Len(s) - at : back[n] = s[at + n]
  BY <1>1
<1>4. RemoveAt(s, at) = front \o back
  BY DEF RemoveAt
<1> HIDE DEF front, back
<1>7. front \in Seq(Key) /\ back \in Seq(Key)
  BY <1>2, <1>3
<1>5. /\ front \o back \in Seq(Key) /\ Len(front \o back) = Len(front) + Len(back)
      /\ \A n \in 1 .. Len(front) + Len(back) :
           (front \o back)[n] = IF n <= Len(front) THEN front[n] ELSE back[n - Len(front)]
  BY <1>7
<1>6. ASSUME NEW n \in 1 .. Len(s) - 1
      PROVE  (front \o back)[n] = IF n < at THEN s[n] ELSE s[n + 1]
  <2>1. n \in Int /\ n \in 1 .. Len(front) + Len(back)
    BY <1>1, <1>2, <1>3
  <2>2. CASE n < at
    BY <1>1, <1>2, <1>5, <2>1, <2>2
  <2>3. CASE ~(n < at)
    <3>1. n - Len(front) \in 1 .. Len(s) - at /\ at + (n - Len(front)) = n + 1
      BY <1>1, <1>2, <2>1, <2>3
    <3>2. (front \o back)[n] = back[n - Len(front)]
      BY <1>1, <1>2, <1>5, <2>1, <2>3
    <3> QED BY <1>3, <2>3, <3>1, <3>2
  <2> QED BY <2>2, <2>3
<1> QED BY <1>1, <1>2, <1>3, <1>4, <1>5, <1>6

LEMMA PutIn ==
  ASSUME NEW s \in Seq(Key), NEW at \in 1 .. Len(s) + 1, NEW key \in Key
  PROVE  /\ InsertAt(s, at, key) \in Seq(Key) /\ Len(InsertAt(s, at, key)) = Len(s) + 1
         /\ InsertAt(s, at, key)[at] = key
         /\ \A n \in 1 .. Len(s) :
              InsertAt(s, at, key)[IF n < at THEN n ELSE n + 1] = s[n]
<1> DEFINE front == SubSeq(s, 1, at - 1)
           back == SubSeq(s, at, Len(s))
           start == front \o <<key>>
<1>1. Len(s) \in Nat /\ at \in Int /\ at >= 1 /\ at <= Len(s) + 1
  OBVIOUS
<1>2. front \in Seq(Key) /\ Len(front) = at - 1 /\ \A n \in 1 .. at - 1 : front[n] = s[n]
  BY <1>1
<1>3. /\ back \in Seq(Key) /\ Len(back) = Len(s) - at + 1
      /\ \A n \in 1 .. Len(s) - at + 1 : back[n] = s[at + n - 1]
  BY <1>1
<1>4. InsertAt(s, at, key) = start \o back
  BY DEF InsertAt
<1> HIDE DEF front, back
<1>5. /\ start \in Seq(Key) /\ Len(start) = at
      /\ start[at] = key /\ \A n \in 1 .. at - 1 : start[n] = s[n]
  BY <1>1, <1>2
<1> HIDE DEF start
<1>6. /\ start \o back \in Seq(Key) /\ Len(start \o back) = Len(start) + Len(back)
      /\ \A n \in 1 .. Len(start) + Len(back) :
           (start \o back)[n] = IF n <= Len(start) THEN start[n] ELSE back[n - Len(start)]
  BY <1>3, <1>5
<1>7. (start \o back)[at] = key
  BY <1>1, <1>3, <1>5, <1>6
<1>8. ASSUME NEW n \in 1 .. Len(s)
      PROVE  (start \o back)[IF n < at THEN n ELSE n + 1] = s[n]
  <2>1. CASE n < at
    BY <1>1, <1>3, <1>5, <1>6, <2>1
  <2>2. CASE ~(n < at)
    <3>1. /\ n + 1 - at \in 1 .. Len(s) - at + 1 /\ at + (n + 1 - at) - 1 = n
          /\ n + 1 \in 1 .. Len(start) + Len(back) /\ ~(n + 1 <= Len(start))
      BY <1>1, <1>3, <1>5, <2>2
    <3>2. (start \o back)[n + 1] = back[n + 1 - at]
      BY <1>1, <1>3, <1>5, <1>6, <3>1
    <3> QED BY <1>3, <2>2, <3>1, <3>2
  <2> QED BY <2>1, <2>2
<1> QED BY <1>1, <1>3, <1>4, <1>5, <1>6, <1>7, <1>8

(* Where an entry goes when the one at place from is put at place to, and  *)
(* where the entry came from that is at a place then.                      *)
Shifted(n, from, to) ==
  LET left == IF n < from THEN n ELSE n - 1 IN IF left < to THEN left ELSE left + 1

Origin(n, from, to) ==
  LET left == IF n < to THEN n ELSE n - 1
  IN  IF n = to THEN from ELSE IF left < from THEN left ELSE left + 1

LEMMA ShiftsAreUndone ==
  ASSUME NEW N \in Nat, NEW from \in 1 .. N, NEW to \in 1 .. N
  PROVE  /\ \A n \in 1 .. N : Origin(n, from, to) \in 1 .. N
         /\ \A m, n \in 1 .. N : Origin(m, from, to) = Origin(n, from, to) => m = n
         /\ \A n \in (1 .. N) \ {from} :
              Shifted(n, from, to) \in 1 .. N /\ Origin(Shifted(n, from, to), from, to) = n
         /\ Origin(to, from, to) = from
  BY DEF Origin, Shifted

(* moved_order (rules.rs): the same keys, one of them delta places on, the *)
(* others one after the other as before.                                   *)
LEMMA MovedOrderMoves ==
  ASSUME NEW seen \in Seq(Key), IsInjective(seen), NEW key \in Key, NEW delta \in Int,
         MovedOrder(seen, key, delta) # NoMove
  PROVE  /\ MovedOrder(seen, key, delta) \in Seq(Key)
         /\ IsInjective(MovedOrder(seen, key, delta))
         /\ ToSet(MovedOrder(seen, key, delta)) = ToSet(seen)
         /\ key \in ToSet(seen) /\ PlaceIn(seen, key) + delta \in DOMAIN seen
         /\ PlaceIn(MovedOrder(seen, key, delta), key) = PlaceIn(seen, key) + delta
         /\ \A k \in ToSet(seen) \ {key} :
              PlaceIn(MovedOrder(seen, key, delta), k)
                = Shifted(PlaceIn(seen, k), PlaceIn(seen, key), PlaceIn(seen, key) + delta)
<1> DEFINE moved == MovedOrder(seen, key, delta)
           from == PlaceIn(seen, key)
           to == from + delta
           rest == RemoveAt(seen, from)
           N == Len(seen)
<1>1. /\ Contains(seen, key) /\ to \in DOMAIN seen /\ moved = InsertAt(rest, to, key)
      /\ DOMAIN seen = 1 .. N /\ N \in Nat
  BY DEF MovedOrder
<1>2. from \in 1 .. N /\ to \in 1 .. N /\ seen[from] = key
  BY <1>1, PlaceIsPlace
<1> HIDE DEF from, to
<1>3. /\ rest \in Seq(Key) /\ Len(rest) = N - 1
      /\ \A n \in 1 .. N - 1 : rest[n] = IF n < from THEN seen[n] ELSE seen[n + 1]
  BY <1>2, TakenOut
<1> HIDE DEF rest
<1>4. to \in 1 .. Len(rest) + 1
  BY <1>1, <1>2, <1>3
<1> HIDE DEF moved
<1>5. /\ moved \in Seq(Key) /\ Len(moved) = Len(rest) + 1 /\ moved[to] = key
      /\ \A n \in 1 .. Len(rest) : moved[IF n < to THEN n ELSE n + 1] = rest[n]
  BY <1>1, <1>3, <1>4, PutIn
<1>6. /\ Len(moved) = N /\ DOMAIN moved = 1 .. N
      /\ \A n \in 1 .. N - 1 : moved[IF n < to THEN n ELSE n + 1] = rest[n]
  BY <1>1, <1>3, <1>5
<1>7. /\ \A n \in 1 .. N : Origin(n, from, to) \in 1 .. N
      /\ \A m, n \in 1 .. N : Origin(m, from, to) = Origin(n, from, to) => m = n
      /\ \A n \in (1 .. N) \ {from} :
           Shifted(n, from, to) \in 1 .. N /\ Origin(Shifted(n, from, to), from, to) = n
      /\ Origin(to, from, to) = from
  BY <1>1, <1>2, ShiftsAreUndone
<1>8. ASSUME NEW n \in 1 .. N
      PROVE  moved[n] = seen[Origin(n, from, to)]
  <2> DEFINE left == IF n < to THEN n ELSE n - 1
  <2>1. CASE n = to
    BY <1>2, <1>5, <1>7, <2>1
  <2>2. CASE n # to
    <3>1. left \in 1 .. N - 1 /\ (IF left < to THEN left ELSE left + 1) = n
      BY <1>1, <1>2, <2>2
    <3>2. Origin(n, from, to) = IF left < from THEN left ELSE left + 1
      BY <2>2 DEF Origin
    <3> HIDE DEF left
    <3>3. moved[n] = rest[left]
      BY <1>6, <3>1
    <3> QED BY <1>3, <3>1, <3>2, <3>3
  <2> QED BY <2>1, <2>2
<1>9. IsInjective(moved)
  BY <1>1, <1>6, <1>7, <1>8 DEF IsInjective
<1>10. \A n \in (1 .. N) \ {from} : moved[Shifted(n, from, to)] = seen[n]
  BY <1>7, <1>8
<1>11. ToSet(moved) = ToSet(seen)
  <2>1. ASSUME NEW n \in 1 .. N PROVE \E m \in 1 .. N : moved[m] = seen[n]
    <3>1. CASE n = from
      BY <1>2, <1>5, <3>1
    <3>2. CASE n # from
      BY <1>7, <1>10, <3>2
    <3> QED BY <3>1, <3>2
  <2>2. ToSet(moved) = {moved[n] : n \in 1 .. N} /\ ToSet(seen) = {seen[n] : n \in 1 .. N}
    BY <1>1, <1>6 DEF ToSet
  <2>3. \A n \in 1 .. N : \E m \in 1 .. N : seen[m] = moved[n]
    BY <1>7, <1>8
  <2> QED BY <2>1, <2>2, <2>3
<1>12. ASSUME NEW k \in ToSet(seen) \ {key}
       PROVE  PlaceIn(moved, k) = Shifted(PlaceIn(seen, k), from, to)
  <2>1. PICK n \in 1 .. N : seen[n] = k
    BY <1>1 DEF ToSet
  <2>2. n # from /\ PlaceIn(seen, k) = n
    BY <1>1, <1>2, <2>1, OnePlace
  <2>3. Shifted(n, from, to) \in DOMAIN moved /\ moved[Shifted(n, from, to)] = k
    BY <1>6, <1>7, <1>10, <2>1, <2>2
  <2>4. PlaceIn(moved, k) = Shifted(n, from, to)
    BY <1>5, <1>9, <2>3, OnePlace
  <2> QED BY <2>2, <2>4
<1>13. PlaceIn(moved, key) = to
  BY <1>2, <1>5, <1>6, <1>9, OnePlace
<1>14. key \in ToSet(seen)
  BY <1>1, <1>2 DEF ToSet
<1> QED BY <1>1, <1>5, <1>9, <1>11, <1>12, <1>13, <1>14 DEF moved, from, to

-----------------------------------------------------------------------------
(* Items that can be told apart by what the sort modes fall back on.       *)
Distinct(items) ==
  /\ items \subseteq Item
  /\ \A i, j \in items : i.since = j.since => i = j
  /\ \A i, j \in items : i.key = j.key => i = j

Sortable(config) == config.sort \in SortMode /\ config.order \in Seq(Key)

Comes(items, config) == {p \in items \X items : Before(config, p[1], p[2])}

(* In every sort mode the comparison is a total order on the items.        *)
LEMMA BeforeIsTotal ==
  ASSUME NEW items, Distinct(items), NEW config, Sortable(config)
  PROVE  StrictOrder(items, Comes(items, config))
<1> DEFINE L == Comes(items, config)
           since == [i \in items |-> i.since]
           name == [i \in items |-> NameRank[AccessibleName(i.props)]]
           key == [i \in items |-> KeyRank[i.key]]
           place == [i \in items |-> PlaceIn(config.order, i.key)]
<1>0. \A i \in items : i \in Item
  BY DEF Distinct
<1>1. since \in [items -> Nat] /\ \A i, j \in items : since[i] = since[j] => i = j
  BY <1>0 DEF Distinct, Item
<1>2. name \in [items -> Nat]
  <2> SUFFICES ASSUME NEW i \in items PROVE NameRank[AccessibleName(i.props)] \in Nat
    OBVIOUS
  <2>1. i.props \in Props
    BY <1>0 DEF Item
  <2>2. AccessibleName(i.props) \in Text \cup {NoText}
    BY <2>1, PropsAssumption DEF AccessibleName
  <2> QED BY <2>2, RulesAssumption
<1>3. key \in [items -> Nat] /\ \A i, j \in items : key[i] = key[j] => i = j
  <2>1. \A i \in items : i.key \in Key
    BY <1>0 DEF Item
  <2>2. key \in [items -> Nat]
    BY <2>1, RulesAssumption
  <2>3. ASSUME NEW i \in items, NEW j \in items, key[i] = key[j] PROVE i = j
    <3>1. i.key = j.key
      BY <2>1, <2>3, RulesAssumption
    <3> QED BY <3>1 DEF Distinct
  <2> QED BY <2>2, <2>3
<1>4. place \in [items -> Nat]
  BY PlaceIsPlace DEF Sortable
<1>5. \A i, j \in items : <<i, j>> \in L <=> Before(config, i, j)
  BY DEF Comes
<1>6. \A i \in items : /\ since[i] = i.since /\ name[i] = NameRank[AccessibleName(i.props)]
                       /\ key[i] = KeyRank[i.key] /\ place[i] = PlaceIn(config.order, i.key)
  OBVIOUS
<1> HIDE DEF L, since, name, key, place
<1>7. CASE config.sort = "registered"
  <2>1. \A i, j \in items : <<i, j>> \in L <=> since[i] < since[j] \/ (since[i] = since[j] /\ since[i] < since[j])
    BY <1>5, <1>6, <1>7 DEF Before
  <2>2. StrictOrder(items, L)
    BY <1>1, <2>1, Lexicographic
  <2> QED BY <2>2 DEF L
<1>8. CASE config.sort = "title"
  <2>1. \A i, j \in items : <<i, j>> \in L <=> name[i] < name[j] \/ (name[i] = name[j] /\ key[i] < key[j])
    BY <1>5, <1>6, <1>8 DEF Before
  <2>2. StrictOrder(items, L)
    BY <1>2, <1>3, <2>1, Lexicographic
  <2> QED BY <2>2 DEF L
<1>9. CASE config.sort = "manual"
  <2>1. \A i, j \in items : <<i, j>> \in L <=> place[i] < place[j] \/ (place[i] = place[j] /\ since[i] < since[j])
    BY <1>5, <1>6, <1>9 DEF Before
  <2>2. StrictOrder(items, L)
    BY <1>1, <1>4, <2>1, Lexicographic
  <2> QED BY <2>2 DEF L
<1> QED BY <1>7, <1>8, <1>9 DEF Sortable, SortMode

-----------------------------------------------------------------------------
(* The sequence s has each element of S once, in the order L.              *)
Lists(s, S, L) ==
  /\ Cardinality(S) \in Nat
  /\ s = [n \in 1 .. Cardinality(S) |-> s[n]]
  /\ \A n \in 1 .. Cardinality(S) :
       s[n] \in S /\ Cardinality({j \in S : <<j, s[n]>> \in L}) = n - 1
  /\ \A i \in S : \E n \in 1 .. Cardinality(S) : s[n] = i
  /\ \A i, j \in S : Cardinality({k \in S : <<k, i>> \in L}) = Cardinality({k \in S : <<k, j>> \in L})
                       => i = j

(* Sorting items gives each of them, once, at its place in the order.      *)
LEMMA InOrderLists ==
  ASSUME NEW items, IsFiniteSet(items), Distinct(items), NEW config, Sortable(config)
  PROVE  Lists(InOrder(items, config), items, Comes(items, config))
<1> DEFINE L == Comes(items, config)
           N == Cardinality(items)
           s == InOrder(items, config)
           place == Rank(items, L)
<1>1. StrictOrder(items, L)
  BY BeforeIsTotal
<1>2. IsRanking(place, items, L)
  BY <1>1, Ranked
<1>3. \A i \in items : {j \in items : <<j, i>> \in L} = {j \in items : Before(config, j, i)}
  BY DEF Comes
<1>4. \A i \in items : place[i] = Cardinality({j \in items : Before(config, j, i)})
  BY <1>3 DEF Rank
<1>13. \A i \in items : place[i] = Cardinality({j \in items : <<j, i>> \in L})
  BY DEF Rank
<1>5. s = [n \in 1 .. N |-> CHOOSE i \in items :
                              Cardinality({j \in items : Before(config, j, i)}) = n - 1]
  BY DEF InOrder
<1>9. s = [n \in 1 .. N |-> s[n]]
  <2> DEFINE At1(n) == CHOOSE i \in items : Cardinality({j \in items : Before(config, j, i)}) = n - 1
  <2> HIDE DEF s
  <2>1. s = [n \in 1 .. N |-> At1(n)]
    BY <1>5
  <2> HIDE DEF At1
  <2> QED BY <2>1
<1> HIDE DEF L, s, place
<1>6. /\ N \in Nat
      /\ \A i \in items : place[i] \in 0 .. N - 1
      /\ \A i, j \in items : place[i] = place[j] => i = j
      /\ \A n \in 0 .. N - 1 : \E i \in items : place[i] = n
  BY <1>2 DEF IsRanking
<1>7. ASSUME NEW n \in 1 .. N
      PROVE  s[n] \in items /\ place[s[n]] = n - 1
  <2>1. n - 1 \in 0 .. N - 1
    BY <1>6
  <2>2. \E i \in items : Cardinality({j \in items : Before(config, j, i)}) = n - 1
    BY <1>4, <1>6, <2>1
  <2>3. s[n] = CHOOSE i \in items : Cardinality({j \in items : Before(config, j, i)}) = n - 1
    BY <1>5
  <2>4. s[n] \in items /\ Cardinality({j \in items : Before(config, j, s[n])}) = n - 1
    BY <2>2, <2>3
  <2> QED BY <1>4, <2>4
<1>8. ASSUME NEW i \in items
      PROVE  \E n \in 1 .. N : s[n] = i
  <2>1. place[i] + 1 \in 1 .. N /\ (place[i] + 1) - 1 = place[i]
    BY <1>6
  <2> QED BY <1>6, <1>7, <2>1
<1>10. \A n \in 1 .. N : s[n] \in items /\ Cardinality({j \in items : <<j, s[n]>> \in L}) = n - 1
  BY <1>13, <1>7
<1>11. \A i, j \in items : Cardinality({k \in items : <<k, i>> \in L}) = Cardinality({k \in items : <<k, j>> \in L})
                           => i = j
  BY <1>13, <1>6
<1>12. Lists(s, items, L)
  BY <1>6, <1>8, <1>9, <1>10, <1>11 DEF Lists
<1> QED BY <1>12 DEF s, L

-----------------------------------------------------------------------------
(* A service has at most one item, so there are finitely many.             *)
LEMMA FinitelyManyItems ==
  ASSUME NEW items \in SUBSET Item, \A i, j \in items : i.service = j.service => i = j
  PROVE  IsFiniteSet(items)
<1> DEFINE f == [i \in items |-> i.service]
<1>1. f \in Injection(items, Service)
  BY DEF Injection, IsInjective, Item
<1> HIDE DEF f
<1> QED BY <1>1, StateAssumption, FS_Injection

(* ordered_keys (rules.rs): each item, once.                               *)
LEMMA KeysInOrder ==
  ASSUME NEW tray, IsFiniteSet(tray.items), Distinct(tray.items), Sortable(tray.config)
  PROVE  /\ OrderedKeys(tray) \in Seq(Key)
         /\ Len(OrderedKeys(tray)) = Cardinality(tray.items)
         /\ ToSet(OrderedKeys(tray)) = KeysOf(tray.items)
         /\ IsInjective(OrderedKeys(tray))
<1> DEFINE s == InOrder(tray.items, tray.config)
           N == Cardinality(tray.items)
           keys == OrderedKeys(tray)
<1>1. Lists(s, tray.items, Comes(tray.items, tray.config))
  BY InOrderLists
<1>2. keys = [n \in DOMAIN s |-> s[n].key]
  BY DEF OrderedKeys, OrderedItems
<1> HIDE DEF s, keys
<1>3. /\ N \in Nat /\ s = [n \in 1 .. N |-> s[n]]
      /\ \A n \in 1 .. N : s[n] \in tray.items
      /\ \A i \in tray.items : \E n \in 1 .. N : s[n] = i
  BY <1>1 DEF Lists
<1> HIDE DEF N
<1>4. DOMAIN s = 1 .. N
  BY <1>3
<1>5. \A i \in tray.items : i.key \in Key
  BY DEF Distinct, Item
<1>6. keys \in [1 .. N -> Key] /\ \A n \in 1 .. N : keys[n] = s[n].key
  BY <1>2, <1>3, <1>4, <1>5
<1>7. keys \in Seq(Key) /\ DOMAIN keys = 1 .. N
  BY <1>3, <1>6, SeqDef
<1>8. Len(keys) \in Nat /\ DOMAIN keys = 1 .. Len(keys)
  BY <1>7
<1>9. Len(keys) = N
  BY <1>3, <1>7, <1>8
<1>10. ToSet(keys) = KeysOf(tray.items)
  <2>1. \A k : k \in ToSet(keys) <=> \E n \in 1 .. N : s[n].key = k
    BY <1>6, <1>7 DEF ToSet
  <2>2. \A k : (\E n \in 1 .. N : s[n].key = k) <=> \E i \in tray.items : i.key = k
    BY <1>3
  <2> QED BY <2>1, <2>2 DEF KeysOf
<1>11. IsInjective(keys)
  <2>1. ASSUME NEW m \in 1 .. N, NEW n \in 1 .. N, s[m] = s[n] PROVE m = n
    <3>1. m - 1 = n - 1
      BY <1>1, <2>1 DEF Lists, N
    <3> QED BY <1>3, <3>1
  <2>2. \A i, j \in tray.items : i.key = j.key => i = j
    BY DEF Distinct
  <2> QED BY <1>3, <1>6, <1>7, <2>1, <2>2 DEF IsInjective
<1> QED BY <1>7, <1>9, <1>10, <1>11 DEF keys, N

(* One key is listed before another just when its item comes before.       *)
LEMMA PlacesInOrder ==
  ASSUME NEW tray, IsFiniteSet(tray.items), Distinct(tray.items), Sortable(tray.config),
         NEW i \in tray.items, NEW j \in tray.items
  PROVE  PlaceIn(OrderedKeys(tray), i.key) < PlaceIn(OrderedKeys(tray), j.key)
           <=> Before(tray.config, i, j)
<1> DEFINE L == Comes(tray.items, tray.config)
           s == InOrder(tray.items, tray.config)
           N == Cardinality(tray.items)
           keys == OrderedKeys(tray)
           place == Rank(tray.items, L)
<1>1. StrictOrder(tray.items, L) /\ Lists(s, tray.items, L)
  BY BeforeIsTotal, InOrderLists
<1>2. IsRanking(place, tray.items, L)
  BY <1>1, Ranked
<1>3. \A k \in tray.items : place[k] = Cardinality({l \in tray.items : <<l, k>> \in L})
  BY DEF Rank
<1>4. \A k, l \in tray.items : <<k, l>> \in L <=> Before(tray.config, k, l)
  BY DEF Comes
<1>5. keys \in Seq(Key) /\ IsInjective(keys) /\ Len(keys) = N
  BY KeysInOrder
<1>6. keys = [n \in DOMAIN s |-> s[n].key]
  BY DEF OrderedKeys, OrderedItems
<1> HIDE DEF L, s, keys, place
<1>7. /\ N \in Nat /\ DOMAIN s = 1 .. N
      /\ \A n \in 1 .. N : s[n] \in tray.items /\ place[s[n]] = n - 1
      /\ \A k \in tray.items : \E n \in 1 .. N : s[n] = k
  BY <1>1, <1>3 DEF Lists
<1>8. ASSUME NEW k \in tray.items
      PROVE  PlaceIn(keys, k.key) \in Int /\ place[k] = PlaceIn(keys, k.key) - 1
  <2>1. PICK n \in 1 .. N : s[n] = k
    BY <1>7
  <2>2. n \in DOMAIN keys /\ keys[n] = k.key
    BY <1>6, <1>7, <2>1
  <2>3. PlaceIn(keys, k.key) = n
    BY <1>5, <2>2, OnePlace
  <2> QED BY <1>7, <2>1, <2>3
<1>9. /\ <<i, j>> \in L => place[i] < place[j]
      /\ <<j, i>> \in L => place[j] < place[i]
      /\ i = j \/ <<i, j>> \in L \/ <<j, i>> \in L
  BY <1>1, <1>2 DEF IsRanking, StrictOrder
<1>10. <<i, j>> \in L <=> place[i] < place[j]
  BY <1>8, <1>9
<1> QED BY <1>4, <1>8, <1>10 DEF keys

(* Items replaced by copies that no sort mode tells from them come in the  *)
(* same order.                                                             *)
LEMMA CopiesInOrder ==
  ASSUME NEW S, IsFiniteSet(S), Distinct(S), NEW T, IsFiniteSet(T), Distinct(T),
         NEW config, Sortable(config),
         NEW f \in Bijection(S, T),
         \A i, j \in S : Before(config, i, j) <=> Before(config, f[i], f[j])
  PROVE  /\ Cardinality(T) = Cardinality(S)
         /\ \A n \in 1 .. Cardinality(S) : InOrder(T, config)[n] = f[InOrder(S, config)[n]]
<1> DEFINE L == Comes(S, config)
           M == Comes(T, config)
           s == InOrder(S, config)
           t == InOrder(T, config)
           EarlierS(i) == {j \in S : <<j, i>> \in L}
           EarlierT(i) == {j \in T : <<j, i>> \in M}
           N == Cardinality(S)
<1>1. Lists(s, S, L)
  BY InOrderLists
<1>2. Lists(t, T, M)
  BY InOrderLists
<1>3. Cardinality(T) = N
  BY FS_Bijection DEF ExistsBijection
<1>4. /\ \A i \in S : f[i] \in T
      /\ \A i, j \in S : f[i] = f[j] => i = j
      /\ \A k \in T : \E i \in S : f[i] = k
  BY DEF Bijection, Injection, Surjection, IsInjective
<1>5. \A i, j \in S : <<i, j>> \in L <=> <<f[i], f[j]>> \in M
  BY <1>4 DEF Comes
<1> HIDE DEF L, M, s, t
<1>6. ASSUME NEW i \in S
      PROVE  Cardinality(EarlierT(f[i])) = Cardinality(EarlierS(i))
  <2> DEFINE A == EarlierS(i)
             B == EarlierT(f[i])
             g == [j \in A |-> f[j]]
  <2>1. IsFiniteSet(A)
    BY FS_Subset
  <2>2. \A j \in A : j \in S /\ f[j] \in B
    BY <1>4, <1>5
  <2>3. \A k \in B : \E j \in A : f[j] = k
    BY <1>4, <1>5
  <2>4. \A j, k \in A : f[j] = f[k] => j = k
    BY <1>4
  <2> HIDE DEF A, B
  <2>5. g \in [A -> B] /\ DOMAIN g = A /\ \A j \in A : g[j] = f[j]
    BY <2>2
  <2> HIDE DEF g
  <2>6. g \in Injection(A, B)
    BY <2>4, <2>5 DEF Injection, IsInjective
  <2>7. g \in Surjection(A, B)
    BY <2>3, <2>5 DEF Surjection
  <2>8. g \in Bijection(A, B)
    BY <2>6, <2>7 DEF Bijection
  <2>9. Cardinality(A) = Cardinality(B)
    BY <2>1, <2>8, FS_Bijection DEF ExistsBijection
  <2> QED BY <2>9 DEF A, B
<1>7. ASSUME NEW n \in 1 .. N
      PROVE  t[n] = f[s[n]]
  <2>1. s[n] \in S /\ Cardinality(EarlierS(s[n])) = n - 1
    BY <1>1 DEF Lists
  <2>2. t[n] \in T /\ Cardinality(EarlierT(t[n])) = n - 1
    BY <1>2, <1>3 DEF Lists
  <2>3. f[s[n]] \in T /\ Cardinality(EarlierT(f[s[n]])) = n - 1
    BY <1>4, <1>6, <2>1
  <2> QED BY <1>2, <2>2, <2>3 DEF Lists
<1> QED BY <1>3, <1>7 DEF s, t

(* An item replaced by a copy that differs in the menu only.               *)
LEMMA MenusAreNotInThePicture ==
  ASSUME NEW tray, NEW next, IsFiniteSet(tray.items), Distinct(tray.items), Sortable(tray.config),
         NEW old \in tray.items, NEW new \in Item,
         new.key = old.key, new.since = old.since, new.props = old.props,
         next.config = tray.config, next.items = (tray.items \ {old}) \cup {new}
  PROVE  Snapshot(next) = Snapshot(tray)
<1> DEFINE c == tray.config
           S == {i \in tray.items : IsVisible(i, c)}
           T == {i \in next.items : IsVisible(i, c)}
           f == [i \in S |-> IF i = old THEN new ELSE i]
           s == InOrder(S, c)
           t == InOrder(T, c)
           N == Cardinality(S)
           Shown(i) == [key |-> i.key, props |-> i.props, size |-> c.icon_size]
<1>1. Snapshot(tray) = [n \in DOMAIN s |-> Shown(s[n])]
  BY DEF Snapshot
<1>2. Snapshot(next) = [n \in DOMAIN t |-> Shown(t[n])]
  BY DEF Snapshot
<1>3. \A i : i \in T <=> (i \in tray.items \ {old} \/ i = new) /\ IsVisible(i, c)
  OBVIOUS
<1>4. IsVisible(new, c) <=> IsVisible(old, c)
  BY DEF IsVisible
<1>5. IsFiniteSet(S) /\ Distinct(S)
  BY FS_Subset DEF Distinct
<1>6. \A i \in tray.items : (i.key = new.key => i = old) /\ (i.since = new.since => i = old)
  BY DEF Distinct
<1>7. /\ f \in [S -> T]
      /\ \A i \in S : f[i] = IF i = old THEN new ELSE i
  BY <1>3, <1>4
<1>8. \A i, j \in S : f[i] = f[j] => i = j
  BY <1>6
<1>9. \A k \in T : \E i \in S : f[i] = k
  BY <1>3, <1>4
<1>10. \A i \in S : f[i].key = i.key /\ f[i].since = i.since /\ f[i].props = i.props
  OBVIOUS
<1>11. Distinct(T)
  BY <1>3, <1>5, <1>6 DEF Distinct
<1> HIDE DEF S, T, f, s, t
<1>12. f \in Bijection(S, T) /\ f \in Surjection(S, T)
  BY <1>7, <1>8, <1>9 DEF Bijection, Injection, Surjection, IsInjective
<1>13. IsFiniteSet(T)
  BY <1>5, <1>12, FS_Surjection
<1>14. \A i, j \in S : Before(c, i, j) <=> Before(c, f[i], f[j])
  BY <1>10 DEF Before
<1>15. /\ Cardinality(T) = N
       /\ \A n \in 1 .. N : t[n] = f[s[n]]
  BY <1>5, <1>11, <1>12, <1>13, <1>14, CopiesInOrder DEF s, t
<1>16. DOMAIN s = 1 .. N /\ DOMAIN t = 1 .. N
  BY <1>15 DEF InOrder, s, t
<1>17. \A n \in 1 .. N : s[n] \in S
  <2>1. Lists(s, S, Comes(S, c))
    BY <1>5, InOrderLists DEF s
  <2> QED BY <2>1 DEF Lists
<1>18. \A n \in 1 .. N : Shown(t[n]) = Shown(s[n])
  BY <1>10, <1>15, <1>17
<1> QED BY <1>1, <1>2, <1>16, <1>18
=============================================================================
