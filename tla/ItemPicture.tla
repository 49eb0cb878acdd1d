---------------------------- MODULE ItemPicture ----------------------------
(***************************************************************************)
(* What the panel is given to show of a tray item, and where the item      *)
(* lives: crates/taskbar-core/src/sni.rs, but for the decoding that        *)
(* ItemProps does, and the item half of crates/taskbar-core/src/view.rs.   *)
(***************************************************************************)
EXTENDS Icons, SequencesExt

IconIsEmpty(icon) == icon.name = "" /\ \A n \in DOMAIN icon.pixmaps : ~IsValid(icon.pixmaps[n])

(* Mistake: attention takes over whether there is a picture for it or not. *)
EffectiveIconAlways(props) ==
  IF props.status = "NeedsAttention" THEN props.attention ELSE props.icon

EffectiveIcon(props) ==
  IF props.status = "NeedsAttention" /\ ~IconIsEmpty(props.attention)
    THEN props.attention ELSE props.icon

(* Mistake: the description for attention is all there is to say then.     *)
AccessibleNameOfIcon(props) ==
  CASE props.status = "NeedsAttention" -> props.attention_accessible_desc
    [] props.status # "NeedsAttention" /\ props.icon_accessible_desc # "" ->
         props.icon_accessible_desc
    [] OTHER -> IF props.title # "" THEN props.title ELSE props.id

(* The first of these that says something.                                 *)
AccessibleName(props) ==
  LET attention == IF props.status = "NeedsAttention" THEN props.attention_accessible_desc ELSE ""
      names == <<attention, props.icon_accessible_desc, props.label, props.title, props.id>>
      said  == {n \in DOMAIN names : names[n] # ""}
  IN  IF said = {} THEN "" ELSE names[Min(said)]

HasMenu(props) == props.menu_path \notin {"", "/NO_DBUSMENU"}

TooltipText(tooltip) ==
  IF tooltip.description = "" THEN tooltip.title ELSE tooltip.description

(* IconView::resolve: pixels first, a name when there are none.  An        *)
(* overlay without pixels is not drawn.                                    *)
ResolveIcon(base, overlay, target) ==
  LET Best(icon) == {icon.pixmaps[n] : n \in PickBest(icon.pixmaps, target)}
  IN  IF Best(base) = {}
        THEN [name |-> base.name, theme_path |-> base.theme_path, picture |-> {}]
        ELSE [name |-> "", theme_path |-> "",
              picture |-> IF Best(overlay) = {} THEN Best(base)
                          ELSE UNION {{Composite(p, q) : q \in Best(overlay)} : p \in Best(base)}]

(* ItemView::of.  A `picture` is a set of at most one pixmap.              *)
ItemView(key, props, target) ==
  [ key |-> key, app_id |-> props.id, title |-> props.title,
    tooltip |-> TooltipText(props.tooltip), status |-> props.status,
    accessible_name |-> AccessibleName(props), has_menu |-> HasMenu(props),
    item_is_menu |-> props.item_is_menu,
    icon |-> ResolveIcon(EffectiveIcon(props), props.overlay, target) ]

-----------------------------------------------------------------------------
(* Where an item lives.  A service name is a sequence of slashes, blanks   *)
(* and words.                                                              *)
DefaultItemPath == <<"/", "StatusNotifierItem">>

(* A bus name: no slash in it, no blank before it.                         *)
IsName(name) == name # <<>> /\ name[1] # " " /\ \A n \in 1 .. Len(name) : name[n] # "/"

Trimmed(text) ==
  LET solid == {n \in DOMAIN text : text[n] # " "}
  IN  IF solid = {} THEN <<>> ELSE SubSeq(text, Min(solid), Max(solid))

NormalizePath(path) ==
  LET solid == {n \in DOMAIN path : path[n] # "/"}
      start == IF solid = {} THEN Len(path) + 1 ELSE Min(solid)
  IN  IF path = <<>> THEN DefaultItemPath ELSE <<"/">> \o SubSeq(path, start, Len(path))

(* ServiceRef::resolve: a path of the caller, a bus name and a path, or a  *)
(* bus name alone.                                                         *)
ResolveService(service, caller) ==
  LET text    == Trimmed(service)
      slashes == {n \in DOMAIN text : text[n] = "/"}
      bus     == IF slashes = {} THEN text ELSE SubSeq(text, 1, Min(slashes) - 1)
      path    == IF slashes = {} THEN DefaultItemPath
                 ELSE NormalizePath(SubSeq(text, Min(slashes) + 1, Len(text)))
  IN  [bus_name |-> IF bus = <<>> THEN caller ELSE bus, object_path |-> path]

(* Mistake: the leading slash of the path is lost.                         *)
RegistrationIdJoined(ref) == ref.bus_name \o Tail(ref.object_path)

RegistrationId(ref) == ref.bus_name \o ref.object_path

-----------------------------------------------------------------------------
(* What should be true of every item, decoded right (Application) and      *)
(* whatever is decoded (ItemPictureProofs).                                *)
IconIsKept(props, target) ==
  LET icon == ItemView("", props, target).icon
  IN  \/ icon.name # "" \/ icon.picture # {}
      \/ IconIsEmpty(props.icon)
           /\ (props.status # "NeedsAttention" \/ IconIsEmpty(props.attention))

FittestIsShown(props, target) ==
  LET sent == EffectiveIcon(props).pixmaps
  IN  \A p \in ItemView("", props, target).icon.picture :
        \E n \in Usable(sent) :
          /\ p.width = sent[n].width /\ p.height = sent[n].height
          /\ \A m \in Usable(sent) : ~Fitter(sent[m], sent[n], target)

BadgeStaysInside(icon, badge, shown) ==
  LET slackX == icon.width - badge.width
      slackY == icon.height - badge.height
      BadgeX(x) == x - slackX \div 2
      BadgeY(y) == y - slackY \div 2
  IN  /\ shown.width = icon.width /\ shown.height = icon.height
      /\ slackX >= 0 /\ slackY >= 0 =>
           \A x \in 0 .. icon.width - 1, y \in 0 .. icon.height - 1 :
             IF Inside(badge, BadgeX(x), BadgeY(y))
               THEN LET pixel == Pixel(badge, BadgeX(x), BadgeY(y)) IN
                    /\ pixel[1] = 255 => Pixel(shown, x, y) = pixel
                    /\ pixel[1] = 0 => Pixel(shown, x, y) = Pixel(icon, x, y)
               ELSE Pixel(shown, x, y) = Pixel(icon, x, y)

BadgeIsDrawn(props, target) ==
  \A n \in PickBest(EffectiveIcon(props).pixmaps, target),
     m \in PickBest(props.overlay.pixmaps, target),
     shown \in ItemView("", props, target).icon.picture :
    BadgeStaysInside(EffectiveIcon(props).pixmaps[n], props.overlay.pixmaps[m], shown)

HasName(props) ==
  (props.id # "" \/ props.title # "" \/ props.label # "" \/ props.icon_accessible_desc # "")
    => ItemView("", props, 0).accessible_name # ""

(* For the caller that registers, and any other that resolves the id.      *)
ResolvesBack(service, caller, other) ==
  LET ref == ResolveService(service, caller)
  IN  ref.object_path # <<"/">> => ResolveService(RegistrationId(ref), other) = ref
=============================================================================
