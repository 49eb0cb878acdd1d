--------------------------- MODULE DurableConfig ---------------------------
(***************************************************************************)
(* What keeping the configuration promises: "One writer, one source of     *)
(* truth, and the file is written atomically" (docs/DESIGN.md).            *)
(*                                                                         *)
(* There is a configuration the daemon works with and one that a start of  *)
(* the daemon would find.  The next change is taken once the latest one    *)
(* was saved, or the user can see (last_error) that saving failed: a crash *)
(* takes back at most one change that nobody was warned of.                *)
(***************************************************************************)
CONSTANT Config

VARIABLES
  live,    \* the configuration in use
  saved,   \* the configuration a restart would find
  warned   \* saving failed since the daemon was started

DurableInit == live = saved /\ saved \in Config /\ warned = FALSE

Change ==
  /\ saved = live \/ warned
  /\ live' \in Config
  /\ UNCHANGED <<saved, warned>>

Save  == saved' = live /\ UNCHANGED <<live, warned>>
Fail  == warned' = TRUE /\ UNCHANGED <<live, saved>>
Crash == live' = saved /\ warned' = FALSE /\ UNCHANGED saved

DurableSpec == DurableInit /\ [][Change \/ Save \/ Fail \/ Crash]_<<live, saved, warned>>
=============================================================================
