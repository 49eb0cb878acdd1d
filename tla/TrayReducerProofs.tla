------------------------- MODULE TrayReducerProofs -------------------------
(***************************************************************************)
(* What holds of the reducer for every set of services, keys, properties   *)
(* and configurations, and after any number of events.                     *)
(*                                                                         *)
(* Keys stay unique because allocate_key returns a key no item has; it can *)
(* always do so among the first Cardinality(Service) candidates because a  *)
(* service has at most one item.  So uniqueness of keys rests on           *)
(* uniqueness of services, and the two are proved together (Inv).          *)
(*                                                                         *)
(* What clients are shown rests on it too: keys and revisions tell the     *)
(* items apart in every sort mode, so the order is total.                  *)
(***************************************************************************)
EXTENDS TrayReducer, TrayStateProofs, TLAPS, FiniteSetTheorems, SequenceTheorems, WellFoundedInduction

(* The inductive invariant.                                                *)
Inv == TypeOK /\ KeysUnique /\ ServicesUnique /\ SinceUnique

-----------------------------------------------------------------------------
(* The key a registration gets in a state of the invariant.                *)
LEMMA NewKeyIsFree ==
  ASSUME Inv, NEW s \in Service, NEW p \in Props,
         NEW kept, kept = {i \in tray.items : i.service # s}
  PROVE  AllocateKey(kept, Sanitize[PreferredName(p)]) \in Key \ KeysOf(kept)
<1>1. tray.items \in SUBSET Item
  BY DEF Inv, TypeOK
<1>2. \A i, j \in tray.items : i.service = j.service => i = j
  BY DEF Inv, ServicesUnique
<1> QED BY <1>1, <1>2, KeyForRegistration

-----------------------------------------------------------------------------
(* One lemma per event: it preserves the invariant.                        *)
(* What a step does to the items: one enters, in place of what its service  *)
(* had; one leaves; or one changes what it says.                            *)
Enters(item) ==
  LET kept == {i \in tray.items : i.service # item.service}
  IN  /\ item.key \in Key \ KeysOf(kept)
      /\ item.since = tray.revision + 1
      /\ tray'.items = kept \cup {item}

Leaves(k) == tray'.items = {i \in tray.items : i.key # k}

Revised(old, new) ==
  /\ old.since = new.since /\ old.key = new.key /\ old.service = new.service
  /\ tray'.items = (tray.items \ {old}) \cup {new}

ItemsStep ==
  \/ \E item \in Item : Enters(item)
  \/ \E k \in Key : Leaves(k)
  \/ \E old \in tray.items, new \in Item : Revised(old, new)
  \/ tray'.items = tray.items

LEMMA InitInv == Init => Inv
  BY DEF Init, Inv, TypeOK, KeysUnique, ServicesUnique, SinceUnique

LEMMA RegisteredInv ==
  ASSUME Inv, NEW s \in Service, NEW p \in Props, Registered(s, p)
  PROVE  Inv' /\ ItemsStep
<1> DEFINE kept == {i \in tray.items : i.service # s}
           item == [ since |-> tray.revision + 1,
                     key   |-> AllocateKey(kept, Sanitize[PreferredName(p)]),
                     service |-> s, props |-> p, menu |-> NoMenu ]
<1>1. tray' = [ config |-> tray.config, items |-> kept \cup {item},
                revision |-> tray.revision + 1 ]
  BY DEF Registered, Fold, Register, AnnounceItems, Inv, TypeOK
<1>2. item.key \in Key \ KeysOf(kept)
  BY NewKeyIsFree
<1> HIDE DEF item
<1>3. item = [item EXCEPT !.key = item.key] /\ item \in Item
      /\ item.since = tray.revision + 1 /\ item.service = s
  BY <1>2 DEF item, Item, Inv, TypeOK
<1>4. /\ tray' \in [config : NormalConfig, items : SUBSET Item, revision : Nat]
      /\ tray'.items = kept \cup {item}
      /\ tray'.revision = tray.revision + 1
  BY <1>1, <1>3 DEF Inv, TypeOK
<1>5. TypeOK'
  BY <1>3, <1>4 DEF Inv, TypeOK, Item, NormalConfig
<1>6. KeysUnique'
  BY <1>2, <1>4 DEF Inv, KeysUnique, KeysOf
<1>7. ServicesUnique'
  BY <1>3, <1>4 DEF Inv, ServicesUnique
<1>8. SinceUnique'
  <2>1. \A i \in kept : i.since # item.since
    BY <1>3 DEF Inv, TypeOK, Item
  <2> QED BY <2>1, <1>4 DEF Inv, SinceUnique
<1>9. Enters(item)
  BY <1>2, <1>3, <1>4 DEF Enters
<1> QED BY <1>3, <1>5, <1>6, <1>7, <1>8, <1>9 DEF Inv, ItemsStep

LEMMA VanishedInv ==
  ASSUME Inv, NEW k \in Key, Vanished(k)
  PROVE  Inv' /\ ItemsStep
<1> DEFINE kept == {i \in tray.items : i.key # k}
<1>0. \/ tray' = tray
      \/ tray' = [config |-> tray.config, items |-> kept, revision |-> tray.revision + 1]
  BY DEF Vanished, Fold, Vanish, AnnounceItems, NoEffect, Inv, TypeOK
<1>1. /\ tray' \in [config : NormalConfig, items : SUBSET Item, revision : Nat]
      /\ tray'.items \subseteq tray.items
      /\ tray'.revision >= tray.revision
  <2>1. kept \subseteq tray.items
    OBVIOUS
  <2> HIDE DEF kept
  <2> QED BY <1>0, <2>1 DEF Inv, TypeOK
<1>2. TypeOK'
  BY <1>1 DEF Inv, TypeOK, Item, NormalConfig
<1>3. ItemsStep
  BY <1>0 DEF ItemsStep, Leaves
<1> QED BY <1>1, <1>2, <1>3 DEF Inv, KeysUnique, ServicesUnique, SinceUnique

(* Replacing one item by a copy that differs in props and menu only.       *)
LEMMA ReplaceInv ==
  ASSUME Inv, NEW old \in tray.items, NEW new \in Item,
         new.since = old.since, new.key = old.key, new.service = old.service,
         tray'.items = (tray.items \ {old}) \cup {new},
         tray' \in [config : NormalConfig, items : SUBSET Item, revision : Nat],
         tray'.revision >= tray.revision
  PROVE  Inv' /\ ItemsStep
<1>1. TypeOK'
  BY DEF Inv, TypeOK, Item, NormalConfig
<1>2. KeysUnique'
  BY DEF Inv, KeysUnique
<1>3. ServicesUnique'
  BY DEF Inv, ServicesUnique
<1>4. SinceUnique'
  BY DEF Inv, SinceUnique
<1>5. ItemsStep
  BY DEF ItemsStep, Revised
<1> QED BY <1>1, <1>2, <1>3, <1>4, <1>5 DEF Inv

LEMMA PropsUpdatedInv ==
  ASSUME Inv, NEW k \in Key, NEW p \in Props, PropsUpdated(k, p)
  PROVE  Inv' /\ ItemsStep
<1> DEFINE old == ItemAt(tray, k)
           new == [old EXCEPT !.props = p]
<1>1. CASE HasKey(tray, k) /\ old.props # p
  <2>1. old \in tray.items
    BY <1>1, ItemAtIsItem
  <2>2. new \in Item /\ new.since = old.since /\ new.key = old.key /\ new.service = old.service
    BY <2>1 DEF Item, Inv, TypeOK
  <2>3. tray' = [ config |-> tray.config, items |-> (tray.items \ {old}) \cup {new},
                  revision |-> tray.revision + 1 ]
    BY <1>1 DEF PropsUpdated, Fold, UpdateProps, AnnounceItems, Replace, Inv, TypeOK
  <2> HIDE DEF old, new
  <2>4. /\ tray' \in [config : NormalConfig, items : SUBSET Item, revision : Nat]
        /\ tray'.items = (tray.items \ {old}) \cup {new}
        /\ tray'.revision >= tray.revision
    BY <2>2, <2>3 DEF Inv, TypeOK
  <2> QED BY <2>1, <2>2, <2>4, ReplaceInv
<1>2. CASE ~ (HasKey(tray, k) /\ old.props # p)
  BY <1>2 DEF PropsUpdated, Fold, UpdateProps, NoEffect, Inv, TypeOK, KeysUnique,
              ServicesUnique, SinceUnique, Item, NormalConfig, ItemsStep
<1> QED BY <1>1, <1>2

LEMMA MenuUpdatedInv ==
  ASSUME Inv, NEW k \in Key, NEW m \in Menu \cup {NoMenu}, MenuUpdated(k, m)
  PROVE  Inv' /\ ItemsStep
<1> DEFINE old == ItemAt(tray, k)
           new == [old EXCEPT !.menu = m]
<1>1. CASE HasKey(tray, k) /\ old.menu # m
  <2>1. old \in tray.items
    BY <1>1, ItemAtIsItem
  <2>2. new \in Item /\ new.since = old.since /\ new.key = old.key /\ new.service = old.service
    BY <2>1 DEF Item, Inv, TypeOK
  <2>3. tray' = [ config |-> tray.config, items |-> (tray.items \ {old}) \cup {new},
                  revision |-> tray.revision ]
    BY <1>1 DEF MenuUpdated, Fold, UpdateMenu, Replace, Inv, TypeOK
  <2> HIDE DEF old, new
  <2>4. /\ tray' \in [config : NormalConfig, items : SUBSET Item, revision : Nat]
        /\ tray'.items = (tray.items \ {old}) \cup {new}
        /\ tray'.revision >= tray.revision
    BY <2>2, <2>3 DEF Inv, TypeOK
  <2> QED BY <2>1, <2>2, <2>4, ReplaceInv
<1>2. CASE ~ (HasKey(tray, k) /\ old.menu # m)
  BY <1>2 DEF MenuUpdated, Fold, UpdateMenu, NoEffect, Inv, TypeOK, KeysUnique,
              ServicesUnique, SinceUnique, Item, NormalConfig, ItemsStep
<1> QED BY <1>1, <1>2

LEMMA ConfigUpdatedInv ==
  ASSUME Inv, NEW c \in RawConfig, ConfigUpdated(c)
  PROVE  Inv' /\ ItemsStep
<1>1. Normalized(c) \in NormalConfig
  BY DEF NormalConfig
<1>0. tray' = [ config |-> Normalized(c), items |-> tray.items,
                revision |-> tray.revision + 1 ]
  BY DEF ConfigUpdated, Fold, UpdateConfig, AnnounceItems, Inv, TypeOK
<1>2. /\ tray' \in [config : NormalConfig, items : SUBSET Item, revision : Nat]
      /\ tray'.items = tray.items
      /\ tray'.revision = tray.revision + 1
  BY <1>0, <1>1 DEF Inv, TypeOK
<1>3. TypeOK'
  BY <1>2 DEF Inv, TypeOK, Item, NormalConfig
<1> QED BY <1>2, <1>3 DEF Inv, KeysUnique, ServicesUnique, SinceUnique, ItemsStep

LEMMA NextInv == Inv /\ [Next]_vars => Inv' /\ ItemsStep
<1> SUFFICES ASSUME Inv, [Next]_vars PROVE Inv' /\ ItemsStep
  OBVIOUS
<1>1. CASE \E s \in Service, p \in Props : Registered(s, p)
  BY <1>1, RegisteredInv
<1>2. CASE \E k \in Key : Vanished(k)
  BY <1>2, VanishedInv
<1>3. CASE \E k \in Key, p \in Props : PropsUpdated(k, p)
  BY <1>3, PropsUpdatedInv
<1>4. CASE \E k \in Key, m \in Menu \cup {NoMenu} : MenuUpdated(k, m)
  BY <1>4, MenuUpdatedInv
<1>5. CASE \E c \in RawConfig : ConfigUpdated(c)
  BY <1>5, ConfigUpdatedInv
<1>6. CASE UNCHANGED vars
  BY <1>6 DEF vars, Inv, TypeOK, KeysUnique, ServicesUnique, SinceUnique, NormalConfig,
              ItemsStep
<1> QED BY <1>1, <1>2, <1>3, <1>4, <1>5, <1>6 DEF Next

(* The inductive invariant holds in every reachable state.                 *)
THEOREM Invariance == Spec => []Inv
  BY InitInv, NextInv, PTL DEF Spec

(* Every reachable state has the shape of struct State, holds a normalised *)
(* configuration and no item newer than its revision.                      *)
THEOREM TypeCorrect == Spec => []TypeOK
<1>1. Inv => TypeOK
  BY DEF Inv
<1> QED BY <1>1, Invariance, PTL

(* Whatever applications call themselves and however often they register   *)
(* again, no two items share a key (model.rs allocate_key, register).      *)
THEOREM KeysStayUnique == Spec => []KeysUnique
<1>1. Inv => KeysUnique
  BY DEF Inv
<1> QED BY <1>1, Invariance, PTL

(* An application never has two items at the same object path.             *)
THEOREM ServicesStayUnique == Spec => []ServicesUnique
<1>1. Inv => ServicesUnique
  BY DEF Inv
<1> QED BY <1>1, Invariance, PTL

(* No two items ever share the revision they were registered at: the order *)
(* of registration, which every sort mode falls back on, is total.         *)
THEOREM RegistrationOrderStaysTotal == Spec => []SinceUnique
<1>1. Inv => SinceUnique
  BY DEF Inv
<1> QED BY <1>1, Invariance, PTL

-----------------------------------------------------------------------------
(* Events other than ConfigUpdated leave the configuration alone and ask   *)
(* for nothing but announcements of items and menus.                       *)
LEMMA OtherEffects ==
  ASSUME Inv,
         \/ \E s \in Service, p \in Props : Registered(s, p)
         \/ \E k \in Key : Vanished(k)
         \/ \E k \in Key, p \in Props : PropsUpdated(k, p)
         \/ \E k \in Key, m \in Menu \cup {NoMenu} : MenuUpdated(k, m)
  PROVE  /\ tray'.config = tray.config
         /\ \A e \in ToSet(effects') : e.effect \in {"ItemsChanged", "MenuChanged"}
<1>0. tray \in [config : NormalConfig, items : SUBSET Item, revision : Nat]
  BY DEF Inv, TypeOK
<1>1. tray'.config = tray.config
  BY <1>0 DEF Registered, Register, Vanished, Vanish, PropsUpdated, UpdateProps, MenuUpdated,
              UpdateMenu, Fold, AnnounceItems, NoEffect, Replace
<1>2. \/ effects' = <<>>
      \/ \E r : effects' = <<ItemsChanged(r)>>
      \/ \E k : effects' = <<MenuChanged(k)>>
  BY DEF Registered, Register, Vanished, Vanish, PropsUpdated, UpdateProps, MenuUpdated,
         UpdateMenu, Fold, AnnounceItems, NoEffect
<1> QED BY <1>1, <1>2, EffectsOf DEF ItemsChanged, MenuChanged

(* Every change of the configuration, and only a change, is announced to   *)
(* the clients and written to disk, in its normal form.                    *)
THEOREM ConfigChangesReachDisk == Spec => ConfigChangesPersisted
<1> DEFINE Told ==
      IF tray'.config # tray.config
      THEN {ConfigChanged(tray'.revision), PersistConfig(tray'.config)} \subseteq ToSet(effects')
      ELSE \A e \in ToSet(effects') : e.effect \in {"ItemsChanged", "MenuChanged"}
<1>1. Inv /\ [Next]_vars => [Told]_vars
  <2> SUFFICES ASSUME Inv, Next PROVE Told
    OBVIOUS
  <2>1. CASE \E c \in RawConfig : ConfigUpdated(c)
    <3>1. PICK c \in RawConfig : ConfigUpdated(c)
      BY <2>1
    <3> DEFINE new == Normalized(c)
               rev == tray.revision + 1
    <3>2. tray' = [config |-> new, items |-> tray.items, revision |-> rev]
      BY <3>1 DEF ConfigUpdated, Fold, UpdateConfig, AnnounceItems, Inv, TypeOK
    <3>3. tray'.config = new /\ tray'.revision = rev
      BY <3>2
    <3>4. CASE new = tray.config
      <4>1. effects' = <<ItemsChanged(rev)>>
        BY <3>1, <3>4 DEF ConfigUpdated, Fold, UpdateConfig, AnnounceItems
      <4> QED BY <3>3, <3>4, <4>1, EffectsOf DEF ItemsChanged
    <3>5. CASE new # tray.config
      <4>1. effects' = <<ItemsChanged(rev)>> \o <<ConfigChanged(rev), PersistConfig(new)>>
        BY <3>1, <3>5 DEF ConfigUpdated, Fold, UpdateConfig, AnnounceItems, Inv, TypeOK
      <4> QED BY <3>3, <3>5, <4>1, EffectsOf
    <3> QED BY <3>4, <3>5
  <2>2. CASE ~ \E c \in RawConfig : ConfigUpdated(c)
    BY <2>2, OtherEffects DEF Next
  <2> QED BY <2>1, <2>2
<1> QED BY <1>1, Invariance, PTL DEF Spec, ConfigChangesPersisted

-----------------------------------------------------------------------------
(* A key never passes from one application to another in a single step:    *)
(* whoever holds a key (an item task, a click on its way) finds the item   *)
(* it belonged to, or nothing, until the tray was announced without it.    *)
THEOREM KeysAreNotHandedOver == Spec => NoKeyHandover
<1> DEFINE Kept == \A i \in tray.items, j \in tray'.items :
                     i.key = j.key => i.service = j.service
<1>1. Inv /\ [Next]_vars => [Kept]_vars
  <2> SUFFICES ASSUME Inv, [Next]_vars PROVE Kept
    OBVIOUS
  <2>1. ItemsStep /\ KeysUnique
    BY NextInv DEF Inv
  <2>2. ASSUME NEW item \in Item, Enters(item) PROVE Kept
    BY <2>1, <2>2 DEF Enters, KeysUnique, KeysOf
  <2>3. ASSUME NEW k \in Key, Leaves(k) PROVE Kept
    BY <2>1, <2>3 DEF Leaves, KeysUnique
  <2>4. ASSUME NEW old \in tray.items, NEW new \in Item, Revised(old, new) PROVE Kept
    BY <2>1, <2>4 DEF Revised, KeysUnique
  <2>5. CASE tray'.items = tray.items
    BY <2>1, <2>5 DEF KeysUnique
  <2> QED BY <2>1, <2>2, <2>3, <2>4, <2>5 DEF ItemsStep
<1> QED BY <1>1, Invariance, PTL DEF Spec, NoKeyHandover

(* An item keeps its key and its place in registration order from the      *)
(* event that registered it to the event that drops it.                    *)
THEOREM RegisteredItemsKeepTheirKey == Spec => KeyKeptWhileRegistered
<1> DEFINE Same == \A i \in tray.items, j \in tray'.items :
                     i.since = j.since => i.key = j.key /\ i.service = j.service
<1>1. Inv /\ [Next]_vars => [Same]_vars
  <2> SUFFICES ASSUME Inv, [Next]_vars PROVE Same
    OBVIOUS
  <2>1. ItemsStep /\ SinceUnique /\ TypeOK
    BY NextInv DEF Inv
  <2>2. ASSUME NEW item \in Item, Enters(item) PROVE Same
    <3>1. \A i \in tray.items : i.since # item.since
      BY <2>1, <2>2 DEF Enters, TypeOK, Item
    <3> QED BY <2>1, <2>2, <3>1 DEF Enters, SinceUnique
  <2>3. ASSUME NEW k \in Key, Leaves(k) PROVE Same
    BY <2>1, <2>3 DEF Leaves, SinceUnique
  <2>4. ASSUME NEW old \in tray.items, NEW new \in Item, Revised(old, new) PROVE Same
    BY <2>1, <2>4 DEF Revised, SinceUnique
  <2>5. CASE tray'.items = tray.items
    BY <2>1, <2>5 DEF SinceUnique
  <2> QED BY <2>1, <2>2, <2>3, <2>4, <2>5 DEF ItemsStep
<1> QED BY <1>1, Invariance, PTL DEF Spec, KeyKeptWhileRegistered

-----------------------------------------------------------------------------
(* The refinement of KeyPool.                                              *)
LEMMA HolderInDef ==
  /\ holder = HolderIn(tray.items, Nobody) /\ holder' = HolderIn(tray'.items, Nobody)
  /\ Inv => DistinctKeys(tray.items)
  /\ Inv' => DistinctKeys(tray'.items)
  BY DEF holder, HolderIn, HasKey, ItemAt, Inv, TypeOK, KeysUnique, DistinctKeys

LEMMA EntersTakes ==
  ASSUME Inv, Inv', NEW item \in Item, Enters(item)
  PROVE  Pool!Take(item.service, item.key)
<1> DEFINE kept == {i \in tray.items : i.service # item.service}
<1>1. item.key \notin KeysOf(kept) /\ tray'.items = kept \cup {item}
  BY DEF Enters
<1> HIDE DEF kept
<1>2. kept = {i \in tray.items : i.service # item.service}
  BY DEF kept
<1>3. DistinctKeys(tray.items) /\ DistinctKeys(tray'.items)
  BY HolderInDef
<1>4. /\ HolderIn(tray.items, Nobody)[item.key] \in {Nobody, item.service}
      /\ HolderIn(tray'.items, Nobody)
           = [l \in Key |-> IF l = item.key THEN item.service
                            ELSE IF HolderIn(tray.items, Nobody)[l] = item.service THEN Nobody
                            ELSE HolderIn(tray.items, Nobody)[l]]
  BY <1>1, <1>2, <1>3, EnteringTakes
<1> QED BY <1>4, HolderInDef DEF Pool!Take

LEMMA LeavesReleases ==
  ASSUME Inv, Inv', NEW k \in Key, Leaves(k)
  PROVE  Pool!Release(k)
<1>1. \A i : i \in tray'.items <=> i \in tray.items /\ i.key # k
  BY DEF Leaves
<1>2. DistinctKeys(tray.items) /\ DistinctKeys(tray'.items)
  BY HolderInDef
<1>3. HolderIn(tray'.items, Nobody) = [HolderIn(tray.items, Nobody) EXCEPT ![k] = Nobody]
  BY <1>1, <1>2, LeavingReleases
<1> QED BY <1>3, HolderInDef DEF Pool!Release

LEMMA RevisedStutters ==
  ASSUME Inv, Inv', NEW old \in tray.items, NEW new \in Item, Revised(old, new)
  PROVE  holder' = holder
  BY HolderInDef, RevisingKeepsHolders DEF Revised

(* The reducer implements the pool of names: every registration takes a    *)
(* key that is free or its own, every other step releases one key or none. *)
THEOREM ReducerImplementsPool == Spec => PoolSpec
<1>1. Init => Pool!KeyPoolInit
  BY DEF Init, holder, HasKey, Pool!KeyPoolInit
<1>2. Inv /\ Inv' /\ [Next]_vars => [Pool!KeyPoolNext]_holder
  <2> SUFFICES ASSUME Inv, Inv', [Next]_vars PROVE [Pool!KeyPoolNext]_holder
    OBVIOUS
  <2>1. ItemsStep
    BY NextInv
  <2>2. ASSUME NEW item \in Item, Enters(item) PROVE Pool!KeyPoolNext
    BY <2>2, EntersTakes DEF Pool!KeyPoolNext, Item
  <2>3. ASSUME NEW k \in Key, Leaves(k) PROVE Pool!KeyPoolNext
    BY <2>3, LeavesReleases DEF Pool!KeyPoolNext
  <2>4. ASSUME NEW old \in tray.items, NEW new \in Item, Revised(old, new)
        PROVE  holder' = holder
    BY <2>4, RevisedStutters
  <2>5. CASE tray'.items = tray.items
    BY <2>5, HolderInDef
  <2> QED BY <2>1, <2>2, <2>3, <2>4, <2>5 DEF ItemsStep
<1> QED BY <1>1, <1>2, Invariance, PTL DEF Spec, PoolSpec, Pool!KeyPoolSpec

-----------------------------------------------------------------------------
(* What Inv says of the items and of the configuration, as the lemmas on   *)
(* the order of items want it.                                             *)
LEMMA InvIsSortable ==
  ASSUME Inv
  PROVE  IsFiniteSet(tray.items) /\ Distinct(tray.items) /\ Sortable(tray.config)
<1>1. tray.items \in SUBSET Item /\ tray.config \in NormalConfig
  BY DEF Inv, TypeOK
<1>2. IsFiniteSet(tray.items)
  BY <1>1, FinitelyManyItems DEF Inv, ServicesUnique
<1>3. Distinct(tray.items)
  BY <1>1 DEF Inv, KeysUnique, SinceUnique, Distinct
<1>4. PICK c \in RawConfig : tray.config = Normalized(c)
  BY <1>1 DEF NormalConfig
<1>5. c \in RawForm
  BY ReducerAssumption DEF RawForm
<1>6. Normal(tray.config)
  BY <1>4, <1>5, NormalizedIsNormal
<1>7. Sortable(tray.config)
  BY <1>6 DEF Normal, Sortable
<1> QED BY <1>2, <1>3, <1>7

(* In every sort mode and whatever configuration a client asked for, the   *)
(* list the clients see has each item exactly once.                        *)
THEOREM EveryItemIsListedOnce == Spec => []EveryItemOnce
<1>1. Inv => EveryItemOnce
  <2> SUFFICES ASSUME Inv PROVE EveryItemOnce
    OBVIOUS
  <2>1. /\ Len(OrderedKeys(tray)) = Cardinality(tray.items)
        /\ ToSet(OrderedKeys(tray)) = KeysOf(tray.items)
    BY InvIsSortable, KeysInOrder
  <2> QED BY <2>1 DEF EveryItemOnce
<1> QED BY <1>1, Invariance, PTL

(* A client that reads the tray whenever ItemsChanged tells it to never    *)
(* shows an old picture: of the steps that announce nothing, those that    *)
(* change no state and the menu updates, none changes what ListItems       *)
(* answers.                                                                *)
THEOREM EveryNewPictureIsAnnounced == Spec => PictureChangesAnnounced
<1> DEFINE Announced ==
      Snapshot(tray)' # Snapshot(tray) =>
        /\ tray'.revision = tray.revision + 1
        /\ ItemsChanged(tray'.revision) \in ToSet(effects')
<1>1. Inv /\ [Next]_vars => [Announced]_vars
  <2> SUFFICES ASSUME Inv, Next PROVE Announced
    OBVIOUS
  <2>0. tray = [config |-> tray.config, items |-> tray.items, revision |-> tray.revision]
        /\ tray.revision \in Nat
    BY DEF Inv, TypeOK
  <2>1. ASSUME NEW items, Fold(AnnounceItems([tray EXCEPT !.items = items]))
        PROVE  Announced
    <3>1. tray'.revision = tray.revision + 1 /\ effects' = <<ItemsChanged(tray.revision + 1)>>
      BY <2>0, <2>1 DEF Fold, AnnounceItems
    <3> QED BY <3>1, EffectsOf
  <2>2. CASE tray' = tray
    BY <2>2
  <2>3. ASSUME NEW s \in Service, NEW p \in Props, Registered(s, p)
        PROVE  Announced
    <3>1. \E items : Fold(AnnounceItems([tray EXCEPT !.items = items]))
      BY <2>3 DEF Registered, Register
    <3> HIDE DEF Announced
    <3> QED BY <2>1, <3>1
  <2>4. ASSUME NEW k \in Key, Vanished(k)
        PROVE  Announced
    <3>1. tray' = tray \/ Fold(AnnounceItems([tray EXCEPT !.items = {i \in @ : i.key # k}]))
      BY <2>4 DEF Vanished, Vanish, NoEffect, Fold
    <3>2. tray' = tray \/ \E items : Fold(AnnounceItems([tray EXCEPT !.items = items]))
      BY <3>1
    <3> HIDE DEF Announced
    <3> QED BY <2>1, <2>2, <3>2
  <2>5. ASSUME NEW k \in Key, NEW p \in Props, PropsUpdated(k, p)
        PROVE  Announced
    <3>1. tray' = tray \/ \E old, new : Fold(AnnounceItems(Replace(tray, old, new)))
      BY <2>5 DEF PropsUpdated, UpdateProps, NoEffect, Fold
    <3>2. tray' = tray \/ \E items : Fold(AnnounceItems([tray EXCEPT !.items = items]))
      BY <3>1 DEF Replace
    <3> HIDE DEF Announced
    <3> QED BY <2>1, <2>2, <3>2
  <2>6. ASSUME NEW k \in Key, NEW m \in Menu \cup {NoMenu}, MenuUpdated(k, m)
        PROVE  Announced
    <3> DEFINE old == ItemAt(tray, k)
               new == [old EXCEPT !.menu = m]
    <3>1. CASE HasKey(tray, k) /\ old.menu # m
      <4>1. old \in tray.items
        BY <3>1, ItemAtIsItem
      <4>2. /\ new \in Item
            /\ new.since = old.since /\ new.key = old.key /\ new.props = old.props
        BY <4>1 DEF Item, Inv, TypeOK
      <4>3. tray'.config = tray.config /\ tray'.items = (tray.items \ {old}) \cup {new}
        BY <2>0, <2>6, <3>1 DEF MenuUpdated, Fold, UpdateMenu, Replace
      <4> HIDE DEF old, new
      <4>4. Snapshot(tray') = Snapshot(tray)
        BY <4>1, <4>2, <4>3, InvIsSortable, MenusAreNotInThePicture
      <4> QED BY <4>4
    <3>2. CASE ~ (HasKey(tray, k) /\ old.menu # m)
      <4>1. tray' = tray
        BY <2>6, <3>2 DEF MenuUpdated, Fold, UpdateMenu, NoEffect
      <4> QED BY <2>2, <4>1
    <3> QED BY <3>1, <3>2
  <2>7. ASSUME NEW c \in RawConfig, ConfigUpdated(c)
        PROVE  Announced
    <3> DEFINE new == Normalized(c)
               rev == tray.revision + 1
    <3>1. tray'.revision = rev
      BY <2>0, <2>7 DEF ConfigUpdated, Fold, UpdateConfig, AnnounceItems
    <3>2. \/ effects' = <<ItemsChanged(rev)>>
          \/ effects' = <<ItemsChanged(rev)>> \o <<ConfigChanged(rev), PersistConfig(new)>>
      BY <2>0, <2>7 DEF ConfigUpdated, Fold, UpdateConfig, AnnounceItems
    <3>3. CASE effects' = <<ItemsChanged(rev)>>
      BY <3>1, <3>3, EffectsOf
    <3>4. CASE effects' = <<ItemsChanged(rev)>> \o <<ConfigChanged(rev), PersistConfig(new)>>
      <4>1. ToSet(effects') = {ItemsChanged(rev), ConfigChanged(rev), PersistConfig(new)}
        BY <3>4, EffectsOf
      <4> QED BY <3>1, <4>1
    <3> QED BY <3>2, <3>3, <3>4
  <2> QED BY <2>3, <2>4, <2>5, <2>6, <2>7 DEF Next
<1> QED BY <1>1, Invariance, PTL DEF Spec, PictureChangesAnnounced
=============================================================================
