------------------------------ MODULE MenuTree ------------------------------
(***************************************************************************)
(* Menus: decoding, patching, flattening and drawing.                      *)
(* crates/taskbar-core/src/menu.rs, crates/taskbar-api/src/menu.rs, the    *)
(* menu half of crates/taskbar-core/src/view.rs, and buildMenuNodes of     *)
(* extension/taskbar@taskbar.dev/indicator.js.                             *)
(***************************************************************************)
EXTENDS MenuNodes, FiniteSets

(* Every node with this id, in pre-order; `find` returns the first.        *)
RECURSIVE Matches(_, _)
Matches(node, id) ==
  (IF node.id = id THEN <<node>> ELSE <<>>)
    \o FlattenSeq([n \in DOMAIN node.children |-> Matches(node.children[n], id)])

-----------------------------------------------------------------------------
(* node_from_value and layout_to_tree.                                     *)
RECURSIVE NodeFromValue(_)

(* filter_map(node_from_value): the nodes of an array, malformed ones are  *)
(* dropped with what is under them, and so are those in two variants.      *)
(* NodeFromValue is <<>> or <<node>>.                                      *)
NodesFrom(elements) == FlattenSeq([n \in DOMAIN elements |-> NodeFromValue(elements[n])])

NodeFromValue(wrapped) ==
  LET value  == IF wrapped[1] = "v" /\ wrapped[2] = 1 THEN wrapped[3] ELSE wrapped
      fields == value[2]
      At(n, tag) == Len(fields) >= n /\ fields[n][1] = tag
      named  == IF At(2, "e") THEN WithProperties(NewNode(fields[1][2]), ToPropMap(fields[2][2]))
                ELSE NewNode(fields[1][2])
  IN  CASE value[1] # "r" -> <<>>
        [] value[1] = "r" /\ ~At(1, "i") -> <<>>
        [] OTHER -> << IF At(3, "a") THEN [named EXCEPT !.children = NodesFrom(fields[3][3])]
                       ELSE named >>

(* A layout is <<id, properties, children>>, typed by the call itself.     *)
LayoutToTree(revision, layout) ==
  [ revision |-> revision,
    root |-> [WithProperties(NewNode(layout[1]), ToPropMap(layout[2]))
                EXCEPT !.children = NodesFrom(layout[3])] ]

-----------------------------------------------------------------------------
(* Mistake: only the first update of a node counts.                        *)
RECURSIVE PatchNodeOnce(_, _, _)
PatchNodeOnce(node, updates, removals) ==
  LET Mine(list) == SelectSeq(list, LAMBDA entry : entry[1] = node.id)
      patched == IF Mine(updates) = <<>> THEN node
                 ELSE WithProperties(node, Head(Mine(updates))[2])
  IN  FoldLeft(LAMBDA acc, entry : WithoutProperties(acc, entry[2]),
               [patched EXCEPT !.children =
                  [n \in DOMAIN @ |-> PatchNodeOnce(@[n], updates, removals)]],
               Mine(removals))

(* patch_node: the updates of a node in the order sent, then its removals. *)
RECURSIVE PatchNode(_, _, _)
PatchNode(node, updates, removals) ==
  LET Mine(list) == SelectSeq(list, LAMBDA entry : entry[1] = node.id)
      below == [node EXCEPT !.children =
                  [n \in DOMAIN @ |-> PatchNode(@[n], updates, removals)]]
      patched == FoldLeft(LAMBDA acc, entry : WithProperties(acc, entry[2]), below, Mine(updates))
  IN  FoldLeft(LAMBDA acc, entry : WithoutProperties(acc, entry[2]), patched, Mine(removals))

UpdatesToPatch(updates) == [n \in DOMAIN updates |-> <<updates[n][1], ToPropMap(updates[n][2])>>]

(* MenuTree::updated, given the signal as it was sent.                     *)
Updated(tree, updates, removals) ==
  [tree EXCEPT !.root = PatchNode(@, UpdatesToPatch(updates), removals)]

-----------------------------------------------------------------------------
(* MenuNodeView::of: a node without its children, and where it belongs.    *)
MenuNodeView(node, parent) ==
  [field \in (DOMAIN node \ {"children"}) \cup {"parent", "has_children"} |->
     CASE field = "parent"       -> parent
       [] field = "has_children" -> node.children # <<>>
       [] OTHER                  -> node[field]]

(* Mistake: every node names the root as its parent.                       *)
RECURSIVE FlattenIntoRoot(_, _)
FlattenIntoRoot(siblings, parent) ==
  FlattenSeq([n \in DOMAIN siblings |->
    <<MenuNodeView(siblings[n], parent)>> \o FlattenIntoRoot(siblings[n].children, parent)])

RECURSIVE FlattenInto(_, _)
FlattenInto(siblings, parent) ==
  FlattenSeq([n \in DOMAIN siblings |->
    <<MenuNodeView(siblings[n], parent)>>
      \o FlattenInto(siblings[n].children, siblings[n].id)])

FlattenMenu(tree) ==
  [revision |-> tree.revision, nodes |-> FlattenInto(tree.root.children, tree.root.id)]

(* `node` with one more child under the first node, in pre-order, with     *)
(* this id (parent_of); under the top when there is none.                  *)
RECURSIVE Graft(_, _, _)
Graft(node, parent, child) ==
  LET holders == {n \in DOMAIN node.children : Matches(node.children[n], parent) # <<>>}
      first   == CHOOSE n \in holders : \A m \in holders : n <= m
  IN  IF node.id = parent \/ holders = {}
        THEN [node EXCEPT !.children = Append(@, child)]
        ELSE [node EXCEPT !.children[first] = Graft(@, parent, child)]

InflateMenu(view) ==
  LET Rebuilt(node) == [field \in DOMAIN NewNode(ROOT_ID) |->
                          IF field = "children" THEN <<>> ELSE node[field]]
  IN  [ revision |-> view.revision,
        root |-> FoldLeft(LAMBDA root, node : Graft(root, node.parent, Rebuilt(node)),
                          NewNode(ROOT_ID), view.nodes) ]

-----------------------------------------------------------------------------
(* Mistake: the parent is looked for among the visible entries.            *)
RECURSIVE BuildLevelShallow(_, _)
BuildLevelShallow(nodes, parent) ==
  LET Entry(node) ==
        IF node.kind = "separator" THEN [shown |-> "separator"]
        ELSE [shown |-> "entry", label |-> node.label, enabled |-> node.enabled,
              mark |-> node.toggle_type]
      level == SelectSeq(nodes, LAMBDA node : node.parent = parent /\ node.visible)
  IN  [n \in DOMAIN level |-> Entry(level[n])]

(* What an entry that opens nothing looks like.                            *)
EntryOf(node) ==
  [ shown |-> "entry", label |-> node.label, enabled |-> node.enabled,
    mark |-> IF node.toggle_state # 1 THEN "none"
             ELSE IF node.toggle_type = "radio" THEN "dot" ELSE "check" ]

(* buildLevel and buildNode: the entries the panel draws at one level.     *)
RECURSIVE BuildLevel(_, _)
BuildLevel(nodes, parent) ==
  LET Entry(node) ==
        CASE node.kind = "separator" -> [shown |-> "separator"]
          [] node.kind # "separator" /\ node.has_children ->
               [shown |-> "submenu", label |-> node.label, entries |-> BuildLevel(nodes, node.id)]
          [] OTHER -> EntryOf(node)
      level == SelectSeq(nodes, LAMBDA node : node.parent = parent /\ node.visible)
  IN  [n \in DOMAIN level |-> Entry(level[n])]

BuildMenuNodes(view) == BuildLevel(view.nodes, ROOT_ID)
=============================================================================
