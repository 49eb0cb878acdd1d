---------------------------- MODULE TrayState -----------------------------
(***************************************************************************)
(* The tray reducer: crates/taskbar-core/src/model.rs.                     *)
(*                                                                         *)
(* `update` is a pure fold of an event into the state; it returns the next *)
(* state and the effects the caller has to carry out.  Here each event has *)
(* one operator that returns [state, effects], as the functions of         *)
(* model.rs do; the modules that model the reducer alone and the daemon    *)
(* around it both use them.                                                *)
(*                                                                         *)
(* The Vec of items, in registration order, is a set of records ordered by *)
(* their field `since`, the revision that announced the registration:      *)
(* registering pushes at the end and every registration has a revision of  *)
(* its own, so ascending `since` is the order of the Vec, and Vec::retain  *)
(* is a filter of the set.                                                 *)
(***************************************************************************)
EXTENDS TrayConfig

CONSTANTS
  Service,    \* where items live: a bus name and an object path
  Text,       \* the strings an application may send as Id or Title
  NoText,     \* the empty string
  Sanitize,   \* sanitize_key: trims, replaces control characters, "item" if empty
  Candidate,  \* Candidate[b]: the keys "b", "b#2", "b#3", ... in this order
  Props,      \* what an item may say about itself (see PropsAssumption)
  Menu,       \* menu trees
  NoMenu      \* the item has no menu, or it was not read yet

(* A service has at most one item, so the first Cardinality(Service)       *)
(* candidates always contain a free one (proved in TrayReducerProofs).     *)
Suffix == 1 .. Cardinality(Service)

Base == {Sanitize[t] : t \in Text \cup {NoText}}

ASSUME StateAssumption ==
  /\ IsFiniteSet(Service) /\ Service # {}
  /\ NoText \notin Text
  /\ Sanitize \in [Text \cup {NoText} -> Base]
  /\ Candidate \in [Base -> [Suffix -> Key]]
  /\ \A b \in Base : \A m, n \in Suffix :
       Candidate[b][m] = Candidate[b][n] => m = n
  /\ NoMenu \notin Menu

(* The part of ItemProps a decision of the tray depends on; two values of  *)
(* Props that differ in anything a client sees differ in one of these.     *)
ASSUME PropsAssumption ==
  Props \subseteq [ id : Text \cup {NoText}, title : Text \cup {NoText},
                    status : {"Active", "Passive"} ]

Item == [ since : Nat \ {0}, key : Key, service : Service, props : Props,
          menu : Menu \cup {NoMenu} ]

-----------------------------------------------------------------------------
(* Effects, in the words of enum Effect.                                   *)
ItemsChanged(revision)  == [effect |-> "ItemsChanged", revision |-> revision]
MenuChanged(key)        == [effect |-> "MenuChanged", key |-> key]
ConfigChanged(revision) == [effect |-> "ConfigChanged", revision |-> revision]
PersistConfig(config)   == [effect |-> "PersistConfig", config |-> config]

-----------------------------------------------------------------------------
(* Queries of State.                                                       *)
HasKey(tray, key) == \E i \in tray.items : i.key = key

ItemAt(tray, key) == CHOOSE i \in tray.items : i.key = key

KeysOf(items) == {i.key : i \in items}

FreeSuffixes(items, base) == {n \in Suffix : Candidate[base][n] \notin KeysOf(items)}

(* Mistake: the first suffix is not checked against the other items.       *)
AllocateKeyUnchecked(items, base) ==
  Candidate[base][IF 1 \in FreeSuffixes(items, base) THEN 1 ELSE 2]

AllocateKey(items, base) ==
  LET free == FreeSuffixes(items, base)
  IN  Candidate[base][CHOOSE n \in free : \A m \in free : n <= m]

PreferredName(props) == IF props.id = NoText THEN props.title ELSE props.id

-----------------------------------------------------------------------------
(* One operator per event.                                                 *)
NoEffect(tray) == [state |-> tray, effects |-> <<>>]

AnnounceItems(tray) ==
  [ state   |-> [tray EXCEPT !.revision = @ + 1],
    effects |-> <<ItemsChanged(tray.revision + 1)>> ]

(* Mistake: whoever has the same id is taken for the previous incarnation. *)
RegisterById(tray, service, props) ==
  LET base == Sanitize[PreferredName(props)]
      kept == {i \in tray.items : i.service # service /\ i.key # base}
      item == [ since |-> tray.revision + 1, service |-> service, props |-> props,
                key |-> AllocateKey(kept, base), menu |-> NoMenu ]
  IN  AnnounceItems([tray EXCEPT !.items = kept \cup {item}])

Register(tray, service, props) ==
  LET kept == {i \in tray.items : i.service # service}
      item == [ since   |-> tray.revision + 1,
                key     |-> AllocateKey(kept, Sanitize[PreferredName(props)]),
                service |-> service,
                props   |-> props,
                menu    |-> NoMenu ]
  IN  AnnounceItems([tray EXCEPT !.items = kept \cup {item}])

(* Mistake: all items that call themselves the same vanish together.       *)
VanishNamesakes(tray, key) ==
  IF HasKey(tray, key)
  THEN AnnounceItems([tray EXCEPT !.items =
                        {i \in @ : i.props.id # ItemAt(tray, key).props.id}])
  ELSE NoEffect(tray)

Vanish(tray, key) ==
  IF HasKey(tray, key)
  THEN AnnounceItems([tray EXCEPT !.items = {i \in @ : i.key # key}])
  ELSE NoEffect(tray)

(* The state with one item replaced by a changed copy.                     *)
Replace(tray, old, new) == [tray EXCEPT !.items = (@ \ {old}) \cup {new}]

(* Mistake: an item that changes its Id gets a new key.                    *)
UpdatePropsAndKey(tray, key, props) ==
  LET item   == ItemAt(tray, key)
      others == tray.items \ {item}
  IN  IF HasKey(tray, key) /\ item.props # props
      THEN AnnounceItems(Replace(tray, item,
             [item EXCEPT !.props = props,
                          !.key = AllocateKey(others, Sanitize[PreferredName(props)])]))
      ELSE NoEffect(tray)

UpdateProps(tray, key, props) ==
  LET item == ItemAt(tray, key)
  IN  IF HasKey(tray, key) /\ item.props # props
      THEN AnnounceItems(Replace(tray, item, [item EXCEPT !.props = props]))
      ELSE NoEffect(tray)

UpdateMenu(tray, key, menu) ==
  LET item == ItemAt(tray, key)
  IN  IF HasKey(tray, key) /\ item.menu # menu
      THEN [ state   |-> Replace(tray, item, [item EXCEPT !.menu = menu]),
             effects |-> <<MenuChanged(key)>> ]
      ELSE NoEffect(tray)

(* Mistakes: the config is taken as it comes; items are not announced;     *)
(* what is written to disk is not what was normalised.                     *)
UpdateConfigAsIs(tray, config) ==
  LET next == AnnounceItems([tray EXCEPT !.config = config])
  IN  [next EXCEPT !.effects =
         @ \o <<ConfigChanged(next.state.revision), PersistConfig(config)>>]

UpdateConfigAlone(tray, config) ==
  LET new == Normalized(config)
  IN  [ state   |-> [tray EXCEPT !.config = new, !.revision = @ + 1],
        effects |-> <<ConfigChanged(tray.revision + 1), PersistConfig(new)>> ]

UpdateConfigSavingRaw(tray, config) ==
  LET new  == Normalized(config)
      next == AnnounceItems([tray EXCEPT !.config = new])
  IN  IF new = tray.config
      THEN next
      ELSE [ next EXCEPT !.effects =
               @ \o <<ConfigChanged(next.state.revision), PersistConfig(config)>> ]

UpdateConfig(tray, config) ==
  LET new  == Normalized(config)
      next == AnnounceItems([tray EXCEPT !.config = new])
  IN  IF new = tray.config
      THEN next
      ELSE [ next EXCEPT !.effects =
               @ \o <<ConfigChanged(next.state.revision), PersistConfig(new)>> ]
=============================================================================
