--------------------------- MODULE DaemonHistory ---------------------------
(***************************************************************************)
(* TrayDaemon with a history variable: when each actor came by the keys it *)
(* acts on.  vanish_key is given nothing but a key, and between reading a  *)
(* key and dropping its item an actor waits and others run; readAt tells   *)
(* whether the item it drops is the one it meant.                          *)
(***************************************************************************)
EXTENDS TrayDaemon

VARIABLES
  readAt,   \* readAt[a]: the revision of the tray when actor a read its keys
  changed   \* the name whose signal the name watch took up last

historyVars == <<vars, readAt, changed>>

HistoryInit ==
  /\ Init
  /\ readAt = [a \in Actor |-> 0]
  /\ changed = CHOOSE n \in Name : TRUE

(* An item task is given its key when it is spawned (key_for_service), the *)
(* name watch reads its keys when it takes up a signal (vanish_bus_name).  *)
TaskSpawned(c) == pc[c] = "none" /\ pc'[c] # "none"

SignalTaken == Len(nameEvents') < Len(nameEvents)

HistoryNext ==
  /\ Next
  /\ readAt' = [a \in Actor |->
       IF (a \in Call /\ TaskSpawned(a)) \/ (a = NameWatch /\ SignalTaken)
       THEN tray.revision ELSE readAt[a]]
  /\ changed' = IF SignalTaken THEN Head(nameEvents) ELSE changed

HistorySpec == HistoryInit /\ [][HistoryNext]_historyVars /\ Fairness

-----------------------------------------------------------------------------
(* The two ways in which actor a may drop the item of an application that  *)
(* answers.  It took the key of this item for that of an older one, which  *)
(* had the key when a read it (item.rs, vanish_key).  Or it is the name    *)
(* watch, and the change of owner it handles is that the application got   *)
(* the name, under which it has registered already (watcher.rs).           *)
Mistaken(a, item) == item.since > readAt[a]

Acquired(a, item) ==
  a = NameWatch /\ changed = NameOf[item.service] /\ changed \notin EarlyName

(* The icon of an application that answers is dropped in these two ways    *)
(* only: not by a registration, a late answer, a failed probe of its own   *)
(* task, or the change of another name.  Where ids differ and names were   *)
(* there before the daemon, this is LiveItemsStay.                         *)
LiveDropsExplained ==
  [][ \A i \in tray.items :
        i.service \in exported /\ ~HasItem(tray', i.service) =>
          \E a \in Actor : /\ pc[a] = "drop" /\ gone[a] = i.key /\ pc'[a] = "tell"
                           /\ Mistaken(a, i) \/ Acquired(a, i) ]_historyVars
=============================================================================
