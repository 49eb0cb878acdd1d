---------------------------- MODULE MCTrayDaemon ---------------------------
EXTENDS TrayDaemon

CONSTANTS s1, s2, n1, n2, n3, c1, c2

MCKey == {"a", "a#2", "b", "b#2"}
MCEntry == MCKey
MCTrimmed == [e \in MCEntry |-> e]
MCText == {"a", "b"}
MCSanitize == [t \in MCText \cup {""} |-> IF t = "" THEN "b" ELSE t]
MCCandidate ==
  [b \in {"a", "b"} |->
     IF b = "a" THEN SubSeq(<<"a", "a#2">>, 1, Cardinality(Service))
                ELSE SubSeq(<<"b", "b#2">>, 1, Cardinality(Service))]
P(id, title) == [id |-> id, title |-> title, status |-> "Active"]
MCProps == {P("a", "a"), P("a", "b"), P("b", "a"), P("b", "b")}

(* What the applications say: the id of s1 is its own, or that of s2 too,   *)
(* or s2 chooses at the start, or ids may change between registrations.     *)
SomeIds == [s \in Service |-> IF s = s1 THEN {P("a", "a")} ELSE {P("a", "a"), P("b", "a")}]
OwnIds  == [s \in Service |-> IF s = s1 THEN {P("a", "a"), P("a", "b")} ELSE {P("b", "a")}]
SameId  == [s \in Service |-> IF s = s1 THEN {P("a", "a"), P("a", "b")} ELSE {P("a", "a")}]
NewId   == [s \in Service |-> {P("a", "a"), P("b", "a")}]

OwnName == [s \in Service |-> IF s = s1 THEN n1 ELSE n2]
OneName == [s \in Service |-> n1]

OneEach == [c \in Call |-> IF c = c1 THEN s1 ELSE s2]
AllOne  == [c \in Call |-> s1]

(* Bound: a name under which nobody registers comes before anybody has      *)
(* registered, and stays; what the daemon hears of it may wait.             *)
ForeignFirst ==
  names'[n3] # names[n3] => names'[n3] = "owned" /\ \A c \in Call : call[c].pc = "unused"
=============================================================================
