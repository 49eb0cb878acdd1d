------------------------------ MODULE KeyPool ------------------------------
(***************************************************************************)
(* What the reducer promises about names, and nothing else: keys are a     *)
(* pool, an application holds at most one at a time, and a key passes from *)
(* one application to another only through a state in which it is free.    *)
(*                                                                         *)
(* The panel, the settings app and the config file all name an item by its *)
(* key alone.  A client that reads the tray at every announcement can tell *)
(* that a key it remembers is free before it stands for somebody else.     *)
(***************************************************************************)
CONSTANTS Key, Service, Nobody

VARIABLE holder   \* holder[k]: the service whose item is called k, or Nobody

KeyPoolTypeOK == holder \in [Key -> Service \cup {Nobody}]

KeyPoolInit == holder = [k \in Key |-> Nobody]

(* A service takes a key that is free, or its own, and gives back any      *)
(* other key it had.                                                       *)
Take(s, k) ==
  /\ holder[k] \in {Nobody, s}
  /\ holder' = [l \in Key |-> IF l = k THEN s
                              ELSE IF holder[l] = s THEN Nobody
                              ELSE holder[l]]

Release(k) == holder' = [holder EXCEPT ![k] = Nobody]

KeyPoolNext ==
  \/ \E s \in Service, k \in Key : Take(s, k)
  \/ \E k \in Key : Release(k)

KeyPoolSpec == KeyPoolInit /\ [][KeyPoolNext]_holder
=============================================================================
