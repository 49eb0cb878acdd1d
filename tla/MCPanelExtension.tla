-------------------------- MODULE MCPanelExtension --------------------------
(***************************************************************************)
(* Values for TLC: a small and a large icon size, with and without a       *)
(* placeholder.                                                            *)
(***************************************************************************)
EXTENDS PanelExtension

Small == [iconSize |-> 16, showWhenEmpty |-> FALSE]
Large == [iconSize |-> 32, showWhenEmpty |-> TRUE]
MCConfigs == {Small, Large}
=============================================================================
