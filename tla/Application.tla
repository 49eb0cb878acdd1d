---------------------------- MODULE Application ----------------------------
(***************************************************************************)
(* A tray application: its item (PublishedItem) and its menu.              *)
(*                                                                         *)
(* The menu starts as that of taskbar-testitem (crates/taskbar-testitem/   *)
(* src/main.rs) and may be changed as other applications change theirs.    *)
(* Somebody keeps it with menu.rs, by patches or by new layouts; of the    *)
(* two the daemon uses the second, see MenuSync.                           *)
(***************************************************************************)
EXTENDS PublishedItem, MenuTree

CONSTANTS
  UpdateLists, \* updates of ItemsPropertiesUpdated: sequences of <<id, dictionary>>
  RemovalLists,\* its removals: sequences of <<id, set of names>>
  Layouts,     \* the children of the root of menus of other applications
  MaxEdits     \* bound on the changes other applications make to a menu

(* Of a shortcut of the wrong type nothing is claimed: a patch leaves the  *)
(* shortcut there was, a fetch drops it (with_property of menu.rs).        *)
ASSUME ShortcutsAreTyped ==
  \A updates \in UpdateLists : \A n \in DOMAIN updates :
    "shortcut" \in DOMAIN updates[n][2] => ToPropValue(updates[n][2].shortcut)[1] = "StringLists"

VARIABLES
  checked,     \* the state of its checkbox
  layout,      \* its menu, as GetLayout returns it
  revision,    \* the revision of that layout
  held,        \* the menu tree somebody keeps
  told,        \* every change of the menu was signalled
  edits        \* how often it was changed so far

menuVars == <<checked, layout, revision, held, told, edits>>
vars == <<publishedVars, menuVars>>

-----------------------------------------------------------------------------
(* A node in the variant that every element of a children array is.        *)
Leaf(id, properties) ==
  <<"v", 1, <<"r", << <<"i", id>>, <<"e", properties>>, <<"a", "v", <<>> >> >> >> >>

TestLayout(on) ==
  << ROOT_ID, [x \in {} |-> x],
     << Leaf(1, [label |-> <<"s", <<"S", "_", "n">> >>]),
        Leaf(2, "label" :> <<"s", <<"_", "C">> >> @@ "toggle-type" :> <<"s", "checkmark">>
                  @@ "toggle-state" :> <<"i", IF on THEN 1 ELSE 0>>),
        Leaf(3, [type |-> <<"s", "separator">>]),
        Leaf(4, [label |-> <<"s", <<"_", "Q">> >>,
                 shortcut |-> <<"a", "as", << <<"Control", "Q">> >> >>])
     >> >>

Panel == BuildMenuNodes(FlattenMenu(held))

MenuInit ==
  /\ checked = TRUE /\ layout = TestLayout(TRUE) /\ revision = 1
  /\ held = LayoutToTree(1, TestLayout(TRUE)) /\ told = TRUE
  /\ edits = 0

(* Event "clicked" on the checkbox: toggled, and nobody is told.           *)
ClickCheckbox ==
  /\ layout = TestLayout(checked)
  /\ checked' = ~checked
  /\ layout' = TestLayout(~checked)
  /\ told' = FALSE
  /\ UNCHANGED <<revision, held, edits>>

(* The element of a children array once the application made these changes *)
(* to the nodes of its menu.                                               *)
RECURSIVE Edited(_, _, _)
Edited(element, updates, removals) ==
  LET fields == element[2]
      Mine(list) == SelectSeq(list, LAMBDA entry : entry[1] = fields[1][2])
      updated == FoldLeft(LAMBDA dict, entry : entry[2] @@ dict, fields[2][2], Mine(updates))
      gone    == UNION {entry[2] : entry \in Range(Mine(removals))}
      below   == [n \in DOMAIN fields[3][3] |-> Edited(fields[3][3][n], updates, removals)]
      whole   == Len(fields) = 3 /\ fields[1][1] = "i"
  IN  CASE element[1] = "v" -> <<"v", element[2], Edited(element[3], updates, removals)>>
        [] element[1] = "r" /\ whole ->
             <<"r", << fields[1], <<"e", Restrict(updated, DOMAIN updated \ gone)>>,
                       <<"a", fields[3][2], below>> >> >>
        [] OTHER -> element

(* ItemsPropertiesUpdated: the tree held is patched (MenuTree::updated).   *)
PatchMenu(updates, removals) ==
  /\ edits < MaxEdits
  /\ layout' = [layout EXCEPT ![3] = [n \in DOMAIN @ |-> Edited(@[n], updates, removals)]]
  /\ held' = Updated(held, updates, removals)
  /\ edits' = edits + 1
  /\ UNCHANGED <<checked, revision, told>>

(* LayoutUpdated: the layout is fetched.                                   *)
ReplaceMenu(children) ==
  /\ edits < MaxEdits
  /\ layout' = <<ROOT_ID, layout[2], children>>
  /\ revision' = revision + 1
  /\ held' = LayoutToTree(revision', layout')
  /\ told' = TRUE
  /\ edits' = edits + 1
  /\ UNCHANGED checked

(* A client asks for the menu: fetched whether it changed or not.          *)
FetchMenu ==
  /\ held' = LayoutToTree(revision, layout)
  /\ told' = TRUE
  /\ UNCHANGED <<checked, layout, revision, edits>>

MenuNext ==
  \/ ClickCheckbox
  \/ \E updates \in UpdateLists, removals \in RemovalLists : PatchMenu(updates, removals)
  \/ \E children \in Layouts : ReplaceMenu(children)
  \/ FetchMenu

-----------------------------------------------------------------------------
(* The item and its menu share no state: one moves while the other is      *)
(* where the test item starts.  Neither depends on the name the item       *)
(* registered with: with one spelling all of both is seen.                 *)
PlainName   == service = DefaultItemPath
MenuAtStart == edits = 0 /\ checked /\ held = LayoutToTree(1, layout)

Init == ItemInit /\ MenuInit

Next ==
  \/ MenuAtStart /\ ItemNext /\ (PlainName \/ Animate) /\ UNCHANGED menuVars
  \/ ItemAtStart /\ PlainName /\ MenuNext /\ UNCHANGED publishedVars

Spec == Init /\ [][Next]_vars

-----------------------------------------------------------------------------
(* A menu kept current by patches is the menu that a fetch would return,   *)
(* whatever was patched, reset and replaced in between, properties that    *)
(* make no sense included, but for shortcuts (menu.rs updated, api/menu.rs *)
(* updates_to_patch).                                                      *)
PatchedIsRefetched == told => held = LayoutToTree(revision, layout)

UniqueIds(view) ==
  LET ids == [n \in DOMAIN view.nodes |-> view.nodes[n].id]
  IN  IsInjective(ids) /\ ROOT_ID \notin Range(ids)

(* The flat list of nodes loses nothing of the menu: "rebuild" gives the   *)
(* same tree (view.rs inflate_menu), when ids are unique.                  *)
InflateUndoesFlatten ==
  UniqueIds(FlattenMenu(held)) =>
    InflateMenu(FlattenMenu(held)).root.children = held.root.children

(* What a user should see of the nodes of a menu: the visible ones, those  *)
(* with children as submenus of what should be seen of them.               *)
RECURSIVE Sight(_)
Sight(nodes) ==
  LET visible == SelectSeq(nodes, LAMBDA node : node.visible)
      Marked(node) == node.toggle_state = 1
  IN  [n \in DOMAIN visible |->
         LET node == visible[n] IN
         CASE node.kind = "separator" -> [shown |-> "separator"]
           [] node.kind # "separator" /\ node.children # <<>> ->
                [shown |-> "submenu", label |-> node.label, entries |-> Sight(node.children)]
           [] OTHER -> [shown |-> "entry", label |-> node.label, enabled |-> node.enabled,
                        mark |-> CASE Marked(node) /\ node.toggle_type = "radio" -> "dot"
                                   [] Marked(node) /\ node.toggle_type # "radio" -> "check"
                                   [] ~Marked(node) -> "none"]]

(* The panel, which only gets the flat list, shows the tree that was held: *)
(* every entry under its own submenu, hidden ones with all that is under   *)
(* them left out (indicator.js buildMenuNodes), when ids are unique.       *)
PanelShowsTheMenu == UniqueIds(FlattenMenu(held)) => Panel = Sight(held.root.children)
=============================================================================
