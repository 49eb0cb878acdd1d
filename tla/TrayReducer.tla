---------------------------- MODULE TrayReducer ----------------------------
(***************************************************************************)
(* The reducer as a state machine: any sequence of events, folded one at a *)
(* time (`update` of crates/taskbar-core/src/model.rs).                    *)
(***************************************************************************)
EXTENDS TrayRules

CONSTANTS
  RawConfig,  \* configurations a client may ask for, not yet normalised
  Nobody      \* no service

ASSUME ReducerAssumption ==
  /\ RawConfig # {}
  /\ RawConfig \subseteq [ icon_size : Int, sort : SortMode, order : Seq(Entry),
                           hidden : Seq(Entry), panel_position : Int ]
  /\ Nobody \notin Service

VARIABLES
  tray,     \* struct State: config, items, revision
  effects   \* what the last event asked the caller to do

vars == <<tray, effects>>

(* Configurations the daemon can hold: the outcomes of a normalisation.    *)
NormalConfig == {Normalized(c) : c \in RawConfig}

(* The daemon starts with the config that load returned, and no items.     *)
Init ==
  /\ tray \in [config : NormalConfig, items : {{}}, revision : {0}]
  /\ effects = <<>>

Fold(next) == tray' = next.state /\ effects' = next.effects

Registered(service, props) == Fold(Register(tray, service, props))
Vanished(key)              == Fold(Vanish(tray, key))
PropsUpdated(key, props)   == Fold(UpdateProps(tray, key, props))
MenuUpdated(key, menu)     == Fold(UpdateMenu(tray, key, menu))
ConfigUpdated(config)      == Fold(UpdateConfig(tray, config))

Next ==
  \/ \E s \in Service, p \in Props : Registered(s, p)
  \/ \E k \in Key : Vanished(k)
  \/ \E k \in Key, p \in Props : PropsUpdated(k, p)
  \/ \E k \in Key, m \in Menu \cup {NoMenu} : MenuUpdated(k, m)
  \/ \E c \in RawConfig : ConfigUpdated(c)

Spec == Init /\ [][Next]_vars

-----------------------------------------------------------------------------
(* Every part of the state has the shape of struct State, the config is    *)
(* one that was normalised ("Everything downstream may assume a normalised *)
(* config", config.rs) and no item is newer than the revision.             *)
TypeOK ==
  /\ tray \in [config : NormalConfig, items : SUBSET Item, revision : Nat]
  /\ \A i \in tray.items : i.since <= tray.revision

(* Two items never share a key: not when applications choose the same id,  *)
(* not when one takes a suffixed key that another chose as its id, not     *)
(* after any sequence of re-registrations (allocate_key).                  *)
KeysUnique == \A i, j \in tray.items : i.key = j.key => i = j

(* One application, one icon: a re-registration replaces the previous      *)
(* incarnation (register, and DESIGN.md "instead of showing two icons").   *)
ServicesUnique == \A i, j \in tray.items : i.service = j.service => i = j

(* No two items were registered at the same revision, so the order of      *)
(* registration is total.                                                  *)
SinceUnique == \A i, j \in tray.items : i.since = j.since => i = j

(* In every sort mode the order the clients see lists each item exactly    *)
(* once: the comparisons of ordered_keys are total on the items, including *)
(* items the manual order does not list and items of equal title.          *)
EveryItemOnce ==
  LET keys == OrderedKeys(tray)
  IN  /\ Len(keys) = Cardinality(tray.items)
      /\ ToSet(keys) = KeysOf(tray.items)

(* Clients read the tray only when told to: whenever a step changes what   *)
(* ListItems would answer, that step announces ItemsChanged, under a       *)
(* revision that was not used before.  Sorting, hiding and icon size make  *)
(* a config update such a step; a menu update never is one.                *)
PictureChangesAnnounced ==
  [][ Snapshot(tray)' # Snapshot(tray) =>
        /\ tray'.revision = tray.revision + 1
        /\ ItemsChanged(tray'.revision) \in ToSet(effects') ]_vars

(* A changed configuration is announced to the clients and written to      *)
(* disk, both as it is after normalisation; an unchanged one is not.       *)
ConfigChangesPersisted ==
  [][ IF tray'.config # tray.config
      THEN {ConfigChanged(tray'.revision), PersistConfig(tray'.config)}
             \subseteq ToSet(effects')
      ELSE \A e \in ToSet(effects') : e.effect \in {"ItemsChanged", "MenuChanged"} ]_vars

(* A key does not pass from one application to another in one step: a      *)
(* client that re-reads the tray at every announcement sees it gone first. *)
(* Item tasks and queued clicks, which hold keys, rely on it.              *)
NoKeyHandover ==
  [][ \A i \in tray.items, j \in tray'.items :
        i.key = j.key => i.service = j.service ]_vars

(* An item keeps its key for as long as it is registered, whatever it says *)
(* about itself later (its Id included), so a preference stays with it.    *)
KeyKeptWhileRegistered ==
  [][ \A i \in tray.items, j \in tray'.items :
        i.since = j.since => i.key = j.key /\ i.service = j.service ]_vars

(* The reducer implements the pool of names.                               *)
holder ==
  [k \in Key |-> IF HasKey(tray, k) THEN ItemAt(tray, k).service ELSE Nobody]

Pool == INSTANCE KeyPool WITH holder <- holder

PoolSpec == Pool!KeyPoolSpec

=============================================================================
