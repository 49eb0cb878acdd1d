---------------------------- MODULE TrayRules -----------------------------
(***************************************************************************)
(* Ordering and visibility of tray items: crates/taskbar-core/src/rules.rs *)
(* and the snapshots of model.rs that clients are shown.                   *)
(***************************************************************************)
EXTENDS TrayState

CONSTANTS
  NameRank,  \* NameRank[t]: alphabetical place of a text in lower case
  KeyRank    \* KeyRank[k]: place of a key in the order of strings

ASSUME RulesAssumption ==
  /\ NameRank \in [Text \cup {NoText} -> Nat]
  /\ KeyRank \in [Key -> Nat]
  /\ \A k, l \in Key : KeyRank[k] = KeyRank[l] => k = l

AccessibleName(props) == IF props.title = NoText THEN props.id ELSE props.title

(* The place of a key in a list of keys, one past the end when unlisted.   *)
PlaceIn(order, key) ==
  IF Contains(order, key)
  THEN CHOOSE n \in DOMAIN order : order[n] = key /\ \A m \in 1 .. n - 1 : order[m] # key
  ELSE Len(order) + 1

(* Does item i come before item j?  One disjunct per sort mode; the sorts  *)
(* of the code are stable, so ties fall back to registration order.        *)
Before(config, i, j) ==
  \/ /\ config.sort = "registered"
     /\ i.since < j.since
  \/ /\ config.sort = "title"
     /\ LET a == NameRank[AccessibleName(i.props)]
            b == NameRank[AccessibleName(j.props)]
        IN  a < b \/ (a = b /\ KeyRank[i.key] < KeyRank[j.key])
  \/ /\ config.sort = "manual"
     /\ LET a == PlaceIn(config.order, i.key)
            b == PlaceIn(config.order, j.key)
        IN  a < b \/ (a = b /\ i.since < j.since)

(* Mistake: a manual order shows the items it lists and no others.         *)
OrderedItemsListed(tray) ==
  LET listed == {i \in tray.items : tray.config.sort # "manual"
                                      \/ Contains(tray.config.order, i.key)}
      Earlier(i) == {j \in listed : Before(tray.config, j, i)}
  IN  [n \in 1 .. Cardinality(listed) |->
         CHOOSE i \in listed : Cardinality(Earlier(i)) = n - 1]

InOrder(items, config) ==
  LET Earlier(i) == {j \in items : Before(config, j, i)}
  IN  [n \in 1 .. Cardinality(items) |->
         CHOOSE i \in items : Cardinality(Earlier(i)) = n - 1]

OrderedItems(tray) == InOrder(tray.items, tray.config)

OrderedKeys(tray) ==
  LET items == OrderedItems(tray) IN [n \in DOMAIN items |-> items[n].key]

IsVisible(item, config) ==
  item.props.status # "Passive" /\ ~IsHidden(config, item.key)

(* What ListItems returns for clients that ask for the configured size:    *)
(* the ordered items without those that are not visible, which is those    *)
(* that are visible in order.                                              *)
Snapshot(tray) ==
  LET shown == InOrder({i \in tray.items : IsVisible(i, tray.config)}, tray.config)
  IN  [n \in DOMAIN shown |->
         [key |-> shown[n].key, props |-> shown[n].props, size |-> tray.config.icon_size]]

NoMove == <<>>  \* moved_order returned None

MovedOrder(current, key, delta) ==
  LET from == PlaceIn(current, key)
      to   == from + delta
  IN  IF Contains(current, key) /\ to \in DOMAIN current
      THEN InsertAt(RemoveAt(current, from), to, key)
      ELSE NoMove
=============================================================================
