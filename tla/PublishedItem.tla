--------------------------- MODULE PublishedItem ---------------------------
(***************************************************************************)
(* The item of a tray application and the picture of it the daemon makes.  *)
(*                                                                         *)
(* The application is taskbar-testitem (crates/taskbar-testitem/src/       *)
(* main.rs), which may besides publish values of its own choosing in place *)
(* of those it starts with, as other applications do.  The daemon is the   *)
(* path from the wire to the panel: Variants, ItemProps and ItemPicture.   *)
(***************************************************************************)
EXTENDS ItemProps

CONSTANTS
  FrameSizes,  \* the sizes of the test item's icons; 22 and 44 in the code
  IconPixels,  \* the size the panel asks for
  PropValues,  \* <<name, value>>: what other applications publish
  Spellings,   \* service names an application may register with
  Caller,      \* the unique bus name of the application
  MaxChanges   \* bound on what is published beyond what the test item does

ASSUME SizesAreLarge == FrameSizes \in Seq(Nat) /\ \A n \in DOMAIN FrameSizes : FrameSizes[n] >= 8

ASSUME PanelAsks == IconPixels \in Int

(* D-Bus types every value it carries, and the types are kept.             *)
ASSUME ValuesAreTyped == \A choice \in PropValues : IsWire(choice[2])

ASSUME NamesAreTexts ==
  Spellings \subseteq Seq(STRING) /\ Caller \in Seq(STRING) /\ IsName(Caller)

VARIABLES
  service,     \* the name it registered with
  frame,       \* the frame its icon shows
  status,      \* the index of its status
  published,   \* properties published in place of the test item's own
  changes      \* how many were published so far

publishedVars == <<service, frame, status, published, changes>>

-----------------------------------------------------------------------------
(* taskbar-testitem: its icons and its properties.                         *)
Frames == 4
Statuses == <<"Active", "NeedsAttention", "Passive">>

WirePixmaps(pixmaps) ==
  <<"a", "(iiay)",
    [n \in DOMAIN pixmaps |-> <<pixmaps[n].width, pixmaps[n].height, pixmaps[n].data>>]>>

(* A square with a stripe that moves from frame to frame.                  *)
IconFrame(f) ==
  WirePixmaps([n \in DOMAIN FrameSizes |->
    LET size == FrameSizes[n] IN
    Picture(size, size, LAMBDA x, y :
      <<255, IF ((x + y) \div (size \div 8)) % Frames = f THEN 255 ELSE 90>>)])

Frame == [f \in 0 .. Frames - 1 |-> IconFrame(f)]

TestExports(f, s) ==
  [ Id |-> <<"s", "test">>, Title |-> <<"s", "Test Item">>,
    Status |-> <<"s", Statuses[s + 1]>>,
    IconName |-> <<"s", "">>, IconThemePath |-> <<"s", "">>,
    IconPixmap          |-> Frame[f],
    AttentionIconPixmap |-> Frame[(f + 1) % Frames],
    OverlayIconPixmap   |-> Frame[(f + 2) % Frames],
    Menu |-> <<"o", "/MenuBar">>, ItemIsMenu |-> <<"b", FALSE>>,
    IconAccessibleDesc |-> <<"s", "Test Item">>,
    ToolTip |-> <<"r", << <<"s", "">>, <<"a", "(iiay)", <<>> >>, <<"s", "Test Item">>,
                          <<"s", "A fake tray item.">> >> >> ]

(* GetAll, with each value in the variant of an a{sv}.                     *)
Exports ==
  LET own == TestExports(frame, status)
  IN  [name \in DOMAIN own \cup DOMAIN published |->
         InVariant(IF name \in DOMAIN published THEN published[name] ELSE own[name])]

-----------------------------------------------------------------------------
(* What the daemon makes of it.                                            *)
Props == FromMap(ToPropMap(Exports))
View  == ItemView("test", Props, IconPixels)

ItemAtStart == frame = 0 /\ status = 0 /\ published = [x \in {} |-> x]

ItemInit == service \in Spellings /\ ItemAtStart /\ changes = 0

(* The tickers of --animate and --flip-status.                             *)
Animate ==
  /\ frame' = (frame + 1) % Frames
  /\ UNCHANGED <<service, status, published, changes>>

FlipStatus ==
  /\ status' = (status + 1) % Len(Statuses)
  /\ UNCHANGED <<service, frame, published, changes>>

Publish(name, value) ==
  /\ changes < MaxChanges
  /\ published' = [other \in {name} \cup DOMAIN published |->
                     IF other = name THEN value ELSE published[other]]
  /\ changes' = changes + 1
  /\ UNCHANGED <<service, frame, status>>

ItemNext ==
  \/ Animate
  \/ FlipStatus
  \/ \E choice \in PropValues : Publish(choice[1], choice[2])

ItemSpec == ItemInit /\ [][ItemNext]_publishedVars

-----------------------------------------------------------------------------
ItemTypeOK ==
  /\ service \in Spellings
  /\ frame \in 0 .. Frames - 1 /\ status \in 0 .. Len(Statuses) - 1
  /\ \A name \in DOMAIN published :
       \E choice \in PropValues : choice[1] = name /\ choice[2] = published[name]

(* The icon of an item is lost on the way only when the application has    *)
(* nothing to show: neither a name nor a pixmap of the right size, for any *)
(* icon its status allows (sni.rs effective_icon, view.rs resolve).        *)
IconNeverLost == IconIsKept(Props, IconPixels)

(* The picture drawn has the size of a pixmap the application sent, and no *)
(* other one it sent is fitter: smaller and still large enough in both     *)
(* dimensions, or larger when none is large enough (icon.rs pick_best).    *)
BestPixmapShown == FittestIsShown(Props, IconPixels)

(* A badge is drawn whole in the middle of the icon and changes nothing    *)
(* around it; it never changes the size of the icon (icon.rs composite).   *)
BadgesStayInside == BadgeIsDrawn(Props, IconPixels)

(* A screen reader, and the panel, which shows it too, get a text for      *)
(* every item that has one at all (sni.rs accessible_name).                *)
EveryItemHasAName == HasName(Props)

(* The id that the watcher lists for an item is "accepted again by         *)
(* resolve" (sni.rs registration_id) as that item, whoever calls.  A path  *)
(* of slashes only is the exception: it becomes "/", which is then taken   *)
(* for no path at all.                                                     *)
RegistrationIdsResolveBack == ResolvesBack(service, Caller, <<":9.9">>)
=============================================================================
