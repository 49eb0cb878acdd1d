---------------------------- MODULE TrayConfig ----------------------------
(***************************************************************************)
(* User preferences: crates/taskbar-core/src/config.rs.                    *)
(*                                                                         *)
(* A configuration is a plain value.  Three different callers build one    *)
(* (a client through SetConfig, the daemon itself for SetItemHidden and    *)
(* MoveItem, the file on disk), and every way of building one ends in      *)
(* Normalized.  The two fields no decision depends on (show_when_empty,    *)
(* panel_box) are left out.                                                *)
(***************************************************************************)
EXTENDS Integers, Sequences, SequencesExt, FiniteSets

CONSTANTS
  Key,      \* what can name an item: a trimmed, non-empty string
  Entry,    \* what a client may write into order or hidden: any string
  Blank,    \* what is left of an entry that is empty or only white space
  Trimmed,  \* Trimmed[e]: the entry e with outer white space removed
  Word      \* number of values of a u32 (2^32 in the build)

ASSUME ConfigAssumption ==
  /\ Key \subseteq Entry
  /\ Blank \notin Key
  /\ Trimmed \in [Entry -> Key \cup {Blank}]
  /\ \A k \in Key : Trimmed[k] = k
  /\ Word \in Nat /\ Word > 256

SortMode == {"registered", "manual", "title"}

Clamp(n, low, high) == IF n < low THEN low ELSE IF n > high THEN high ELSE n

(* What a sequence has at some of its places, in this order.               *)
At(seq, places) ==
  [n \in 1 .. Cardinality(places) |->
     seq[CHOOSE p \in places : Cardinality({q \in places : q < p}) = n - 1]]

(* dedupe: trim, drop what is blank, keep the first of equal keys.         *)
Dedupe(entries) ==
  LET keys  == [n \in DOMAIN entries |-> Trimmed[entries[n]]]
      First(n) == \A m \in DOMAIN keys : keys[m] = keys[n] => n <= m
  IN  At(keys, {n \in DOMAIN keys : keys[n] # Blank /\ First(n)})

Normalized(c) ==
  [ icon_size      |-> Clamp(c.icon_size, 8, 128),
    sort           |-> c.sort,
    order          |-> Dedupe(c.order),
    hidden         |-> Dedupe(c.hidden),
    panel_position |-> Clamp(c.panel_position, 0, 64) ]

DefaultConfig ==
  [ icon_size |-> 16, sort |-> "registered", order |-> <<>>, hidden |-> <<>>,
    panel_position |-> 0 ]

IsHidden(c, key) == Contains(c.hidden, key)

WithHidden(c, key, hidden) ==
  LET others == At(c.hidden, {n \in DOMAIN c.hidden : c.hidden[n] # key})
  IN  Normalized([c EXCEPT !.hidden = IF hidden THEN Append(others, key)
                                                ELSE others])

WithOrder(c, order) == Normalized([c EXCEPT !.sort = "manual", !.order = order])

(* What SetConfig makes of the view it is sent: the i32 icon size is cast  *)
(* to u32, so a negative one wraps to a huge one before it is clamped.     *)
FromView(view) == Normalized([view EXCEPT !.icon_size = @ % Word])
=============================================================================
