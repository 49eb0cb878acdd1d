--------------------------- MODULE MCTrayReducer ---------------------------
(* Small trays for TLC: some to ask who holds which key, some to ask what   *)
(* clients are shown.                                                       *)
EXTENDS TrayReducer

CONSTANTS s1, s2, s3, m1, MaxRevision

MCKey == {"a", "a#2", "a#3", "a#2#2", "a#2#3", "item", "item#2", "item#3"}
MCEntry == MCKey \cup {" a", " "}
MCTrimmed == [e \in MCEntry |-> CASE e = " a" -> "a" [] e = " " -> "" [] OTHER -> e]
MCText == {"a", "a#2"}
MCSanitize == [t \in MCText \cup {""} |-> IF t = "" THEN "item" ELSE t]
MCCandidate ==
  [b \in {"item", "a", "a#2"} |->
     CASE b = "a"    -> SubSeq(<<"a", "a#2", "a#3">>, 1, Cardinality(Service))
       [] b = "a#2"  -> SubSeq(<<"a#2", "a#2#2", "a#2#3">>, 1, Cardinality(Service))
       [] b = "item" -> SubSeq(<<"item", "item#2", "item#3">>, 1, Cardinality(Service))]
MCNameRank == [t \in MCText \cup {""} |-> IF t = "" THEN 0 ELSE 1]
MCKeyRank == [k \in MCKey |-> CASE k = "a" -> 1 [] k = "a#2" -> 2 [] k = "a#2#2" -> 3
                                [] k = "a#2#3" -> 4 [] k = "a#3" -> 5
                                [] k = "item" -> 6 [] k = "item#2" -> 7 [] OTHER -> 8]

(* Who is who: ids that collide in both ways, and an item without an id.    *)
IdProps == { [id |-> "a",   title |-> "a", status |-> "Active"],
             [id |-> "a#2", title |-> "a", status |-> "Active"],
             [id |-> "",    title |-> "",  status |-> "Active"] }

(* What is shown: equal titles, a passive item, every sort mode.            *)
ViewProps == { [id |-> "a", title |-> "a", status |-> "Active"],
               [id |-> "a", title |-> "",  status |-> "Active"],
               [id |-> "a", title |-> "a", status |-> "Passive"] }
ViewConfig ==
  { DefaultConfig,
    [DefaultConfig EXCEPT !.sort = "title", !.icon_size = 4],
    [DefaultConfig EXCEPT !.sort = "manual", !.order = <<"a#2", " ", "a#2">>],
    [DefaultConfig EXCEPT !.hidden = <<" ", " a", "a">>, !.panel_position = 99] }

AllProps == IdProps \cup ViewProps

(* Bounds: the number of announced revisions, and either items of any id    *)
(* under one configuration, or at most two, of one id, under all of them.   *)
Small(t) ==
  \/ t.config = DefaultConfig /\ \A i \in t.items : i.props \in IdProps /\ i.menu = NoMenu
  \/ Cardinality(t.items) <= 2 /\ \A i \in t.items : i.props \in ViewProps

MCNext == Next /\ tray'.revision <= MaxRevision /\ Small(tray')
MCSpec == Init /\ [][MCNext]_vars

Symmetric == Permutations(Service)
=============================================================================
