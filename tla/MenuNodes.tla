----------------------------- MODULE MenuNodes -----------------------------
(***************************************************************************)
(* One node of a menu and its properties: MenuNode of                      *)
(* crates/taskbar-core/src/menu.rs.                                        *)
(*                                                                         *)
(* The text of a label is a sequence of characters, because of the marks   *)
(* in it; other texts are strings.                                         *)
(***************************************************************************)
EXTENDS Variants, SequencesExt

ROOT_ID == 0

KindOf(text)       == IF text = "separator" THEN text ELSE "standard"
ToggleStateOf(n)   == IF n \in {0, 1} THEN n ELSE -1
ToggleTypeOf(text) == IF text \in {"checkmark", "radio"} THEN text ELSE "none"

NewNode(id) ==
  [ id |-> id, kind |-> "standard", label |-> <<>>, enabled |-> TRUE, visible |-> TRUE,
    toggle_state |-> -1, toggle_type |-> "none", icon_name |-> "", shortcut |-> <<>>,
    children |-> <<>> ]

(* strip_mnemonic: "__" is an underscore, every other "_" goes.  A mark    *)
(* waits for the next character to tell which it is.                       *)
Strip(label) ==
  LET Read(text, char) ==
        CASE char # "_"               -> [out |-> Append(text.out, char), mark |-> FALSE]
          [] char = "_" /\ text.mark  -> [out |-> Append(text.out, "_"), mark |-> FALSE]
          [] char = "_" /\ ~text.mark -> [text EXCEPT !.mark = TRUE]
  IN  FoldLeft(Read, [out |-> <<>>, mark |-> FALSE], label).out

(* The property each field of a node is decoded from.                      *)
NameOf ==
  [ kind |-> "type", label |-> "label", enabled |-> "enabled", visible |-> "visible",
    toggle_state |-> "toggle-state", toggle_type |-> "toggle-type",
    icon_name |-> "icon-name", shortcut |-> "shortcut" ]

(* A value of the wrong type is the default, but for shortcuts, which it   *)
(* leaves as they were.                                                    *)
FieldValue(node, field, value) ==
  CASE field = "kind"         -> KindOf(AsStr(value))
    [] field = "label"        -> Strip(As({"Str"}, value, <<>>))
    [] field \in {"enabled", "visible"} -> AsBool(value, TRUE)
    [] field = "toggle_state" -> ToggleStateOf(AsInt(value, -1))
    [] field = "toggle_type"  -> ToggleTypeOf(AsStr(value))
    [] field = "icon_name"    -> AsStr(value)
    [] field = "shortcut"     -> As({"StringLists"}, value, node.shortcut)

(* with_properties; no two properties set the same field, so their order   *)
(* does not matter.                                                        *)
WithProperties(node, properties) ==
  [field \in DOMAIN node |->
     IF field \in DOMAIN NameOf /\ NameOf[field] \in DOMAIN properties
       THEN FieldValue(node, field, properties[NameOf[field]]) ELSE node[field]]

(* without_property, for each of these names.                              *)
WithoutProperties(node, names) ==
  [field \in DOMAIN node |->
     IF field \in DOMAIN NameOf /\ NameOf[field] \in names
       THEN NewNode(node.id)[field] ELSE node[field]]
=============================================================================
