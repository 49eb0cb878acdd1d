----------------------------- MODULE ItemProps -----------------------------
(***************************************************************************)
(* The properties of a tray item as the daemon decodes them: ItemProps of  *)
(* crates/taskbar-core/src/sni.rs.                                         *)
(***************************************************************************)
EXTENDS Variants, ItemPicture

ParseStatus(text) == IF text \in {"Passive", "NeedsAttention"} THEN text ELSE "Active"

Icon(name, theme_path, pixmaps) ==
  [name |-> name, theme_path |-> theme_path, pixmaps |-> pixmaps]

(* ItemProps::from_map: each property has fields of its own, so the order  *)
(* in which they are folded does not matter.  Category, WindowId, the      *)
(* movie, the guide of the label and the pictures of the tooltip are never *)
(* read and left out.                                                      *)
FromMap(map) ==
  LET Value(name)   == IF name \in DOMAIN map THEN map[name] ELSE Unsupported
      Text(name)    == AsStr(Value(name))
      Pixmaps(name) == AsPixmaps(Value(name))
      Themed(name, pixmaps) == Icon(Text(name), Text("IconThemePath"), Pixmaps(pixmaps))
  IN  [ id           |-> Text("Id"),
        title        |-> Text("Title"),
        status       |-> ParseStatus(Text("Status")),
        icon         |-> Themed("IconName", "IconPixmap"),
        overlay      |-> Themed("OverlayIconName", "OverlayIconPixmap"),
        attention    |-> Themed("AttentionIconName", "AttentionIconPixmap"),
        tooltip      |-> As({"ToolTip"}, Value("ToolTip"), [title |-> "", description |-> ""]),
        menu_path    |-> Text("Menu"),
        item_is_menu |-> AsBool(Value("ItemIsMenu"), FALSE),
        icon_accessible_desc      |-> Text("IconAccessibleDesc"),
        attention_accessible_desc |-> Text("AttentionAccessibleDesc"),
        label        |-> Text("XAyatanaLabel") ]

-----------------------------------------------------------------------------
(* What D-Bus types hold, as far as pixmaps depend on it: an "i" is an     *)
(* integer, "y" are bytes (here pixels), and the elements of an array have *)
(* the type its signature says.                                            *)
IsTyped(wrapped) ==
  LET value == Unwrapped(wrapped) IN
  /\ value[1] = "i" => value[2] \in Int
  /\ value[1] = "a" /\ value[2] = "y" => value[3] \in Seq(Colours)
  /\ value[1] = "a" /\ value[2] = "(iiay)" => value[3] \in Seq(Int \X Int \X Seq(Colours))

IsWire(wrapped) ==
  LET value == Unwrapped(wrapped) IN
  /\ value[1] # "v" /\ IsTyped(value)
  /\ value[1] = "r" => \A n \in 1 .. Len(value[2]) : IsTyped(value[2][n])
=============================================================================
