------------------------------ MODULE Variants ------------------------------
(***************************************************************************)
(* Values as applications send them and as the daemon decodes them:        *)
(* crates/taskbar-api/src/value.rs, crates/taskbar-core/src/props.rs.      *)
(*                                                                         *)
(* A value on the wire is <<type, payload>>: "b", "i", "u", "s" or "o" with *)
(* a scalar, "r" with the sequence of the fields of a structure, "e" with  *)
(* a dictionary as a function.  <<"v", n, value>> is a value, itself no    *)
(* variant, in n > 0 variants.  <<"a", signature, elements>> is an array;  *)
(* its elements all have that type, so each is given by its payload alone  *)
(* (by its fields' payloads for "(iiay)") unless the signature is "v" or   *)
(* that of a menu node.  An array of bytes holds pixels: four bytes are    *)
(* one element here.  A decoded value is a pair of the variant of          *)
(* PropValue and what it holds.                                            *)
(***************************************************************************)
EXTENDS Integers, Sequences

Unsupported == <<"Unsupported", "">>

(* The integer types of D-Bus differ in range only; ObjectPath is a Str.   *)
ScalarVariant == [ b |-> "Bool", i |-> "Int", u |-> "UInt", s |-> "Str", o |-> "Str" ]

PixmapOf(width, height, data) == [width |-> width, height |-> height, data |-> data]

InVariant(value) == IF value[1] = "v" THEN <<"v", value[2] + 1, value[3]>> ELSE <<"v", 1, value>>

(* Variants wrapped at any depth are unwrapped.                            *)
Unwrapped(value) == IF value[1] = "v" THEN value[3] ELSE value

(* Elements of one type decode to one variant: the filters on what they    *)
(* decode to let all of them pass.                                         *)
ToPropArray(signature, elements) ==
  CASE signature = "y"        -> <<"Bytes", elements>>
    [] signature \in {"s", "o"} -> <<"Strings", elements>>
    [] signature = "as"       -> <<"StringLists", elements>>
    [] signature = "(iiay)"   ->
         <<"Pixmaps", [n \in DOMAIN elements |->
                         PixmapOf(elements[n][1], elements[n][2], elements[n][3])]>>
    [] OTHER -> Unsupported

ToPropPlain(wrapped) ==
  LET value == Unwrapped(wrapped)
  IN  CASE value[1] \in DOMAIN ScalarVariant -> <<ScalarVariant[value[1]], value[2]>>
        [] value[1] = "a" -> ToPropArray(value[2], value[3])
        [] OTHER -> Unsupported

(* (iiay) is a pixmap.  Its integers may not be wrapped, its bytes may.    *)
IsPixmap(value) ==
  /\ value[1] = "r" /\ Len(value[2]) = 3
  /\ value[2][1][1] = "i" /\ value[2][2][1] = "i"
  /\ ToPropPlain(value[2][3])[1] = "Bytes"

ToPropField(wrapped) ==
  LET value  == Unwrapped(wrapped)
      fields == value[2]
  IN  IF IsPixmap(value)
        THEN <<"Pixmaps",
               <<PixmapOf(fields[1][2], fields[2][2], ToPropPlain(fields[3])[2])>> >>
        ELSE ToPropPlain(value)

(* (sa(iiay)ss) is a tooltip: no structure but these two is known, so the  *)
(* fields of a field of a tooltip are as deep as decoding ever goes.       *)
IsToolTip(value) ==
  /\ value[1] = "r" /\ Len(value[2]) = 4
  /\ \A n \in {1, 3, 4} : ToPropField(value[2][n])[1] = "Str"
  /\ ToPropField(value[2][2])[1] = "Pixmaps"

ToPropValue(wrapped) ==
  LET value == Unwrapped(wrapped)
  IN  IF IsToolTip(value)
        THEN <<"ToolTip", [title       |-> ToPropField(value[2][3])[2],
                           description |-> ToPropField(value[2][4])[2]]>>
        ELSE ToPropField(value)

ToPropMap(dict) == [name \in DOMAIN dict |-> ToPropValue(dict[name])]

(* as_str, as_bool, as_int, as_pixmaps, as_string_lists, each with the     *)
(* unwrap_or of its caller.                                                *)
As(variants, value, otherwise) == IF value[1] \in variants THEN value[2] ELSE otherwise
AsStr(value)             == As({"Str"}, value, "")
AsBool(value, otherwise) == As({"Bool"}, value, otherwise)
AsInt(value, otherwise)  == As({"Int", "UInt"}, value, otherwise)
AsPixmaps(value)         == As({"Pixmaps"}, value, <<>>)
=============================================================================
