--------------------------- MODULE MCConfigStore ---------------------------
(* Two applications, a client that changes how they are shown.              *)
EXTENDS ConfigStore

CONSTANTS s1, s2, c1, c2

MCKey == {"a", "a#2", "b", "b#2"}
MCEntry == MCKey \cup {" a", " "}
MCTrimmed == [e \in MCEntry |-> CASE e = " a" -> "a" [] e = " " -> "" [] OTHER -> e]
MCText == {"a", "b"}
MCSanitize == [t \in MCText \cup {""} |-> IF t = "" THEN "b" ELSE t]
MCCandidate == [b \in {"a", "b"} |-> IF b = "a" THEN <<"a", "a#2">> ELSE <<"b", "b#2">>]
MCNameRank == [t \in MCText \cup {""} |-> CASE t = "" -> 0 [] t = "a" -> 2 [] t = "b" -> 1]
MCKeyRank == [k \in MCKey |-> CASE k = "a" -> 1 [] k = "a#2" -> 2 [] k = "b" -> 3 [] OTHER -> 4]

P(id) == [id |-> id, title |-> id, status |-> "Active"]
MCProps == {P("a"), P("b")}
OwnIds == [s \in Service |-> IF s = s1 THEN P("a") ELSE P("b")]

(* A view that is far from normal; an order that names an item that is away.*)
MCView ==
  { [DefaultConfig EXCEPT !.icon_size = -1, !.sort = "title", !.hidden = <<" ", " a", "a">>],
    [DefaultConfig EXCEPT !.sort = "manual", !.order = <<"b", "a#2", " a">>, !.panel_position = 99] }
MCDelta == {-1, 1}
=============================================================================
