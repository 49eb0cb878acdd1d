--------------------------- MODULE MCSettingsApp ---------------------------
(***************************************************************************)
(* Values for TLC: two items, a configuration whose icon size is larger    *)
(* than the widget shows, and one other configuration.                     *)
(***************************************************************************)
EXTENDS SettingsApp

MCKeys == <<"a", "b">>
MCFirstConfig == [icon_size |-> 64, hidden |-> {"b"}, order |-> <<"b", "a">>]
MCSizes == {8, 24}
MCOtherConfigs == {[icon_size |-> 16, hidden |-> {"a"}, order |-> <<>>]}
=============================================================================
