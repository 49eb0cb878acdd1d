--------------------------- MODULE MCApplication ---------------------------
(***************************************************************************)
(* Values for TLC: what applications publish, right and wrong.             *)
(***************************************************************************)
EXTENDS Application

MCFrameSizes == <<16, 8>>
MCCaller == <<":1.7">>

Text(text) == <<"s", text>>

Flat(width, height, alpha, colour) ==
  PixmapOf(width, height, [n \in 1 .. width * height |-> <<alpha, colour>>])

(* Sizes around what the panel asks for, taller or wider than it, one with *)
(* too little data, and translucent ones.                                  *)
Pictures ==
  { WirePixmaps(<<>>),
    WirePixmaps(<<Flat(2, 2, 255, 10)>>),
    WirePixmaps(<<Flat(9, 4, 255, 10), Flat(4, 12, 255, 20), Flat(10, 11, 0, 30)>>),
    WirePixmaps(<<[Flat(8, 8, 255, 10) EXCEPT !.height = 9], Flat(3, 5, 128, 40)>>),
    WirePixmaps(<<[Flat(8, 8, 255, 10) EXCEPT !.width = 0]>>),
    Text("not a pixmap") }

MCPropValues ==
  ({"IconPixmap", "OverlayIconPixmap", "AttentionIconPixmap"} \X Pictures)
    \cup ({"IconName", "OverlayIconName", "Id", "Title", "IconAccessibleDesc"}
            \X {Text("mail"), Text("")})
    \cup ({"AttentionIconName", "AttentionAccessibleDesc", "XAyatanaLabel"} \X {Text("mail")})
    \cup { <<"Status", <<"u", 1>> >>, <<"Menu", <<"o", "/NO_DBUSMENU">> >>,
           <<"ToolTip", Text("mail")>>, <<"IconThemePath", <<"v", 2, Text("/icons")>> >>,
           <<"IconPixmap", <<"r", << <<"i", 2>>, <<"i", 2>>,
                                     <<"v", 1, <<"a", "y", Flat(2, 2, 255, 50).data>> >> >> >> >> }

MCSpellings ==
  { <<>>, <<" ">>, DefaultItemPath, <<"/">>, <<"/", "/">>, <<"/", "a", "/", "b">>,
    <<"/", "/", "a", "/">>, <<"org.app">>, <<" ", "org.app", " ">>, <<"org.app", "/">>,
    <<"org.app", "/", "/">>, <<"org.app", "/", "a">>, <<"org.app", "/", "/", "a", " ">>,
    <<":1.8", "/", "StatusNotifierItem">>, <<" ", "/", "a">> }

Node(id, properties, children) ==
  <<"r", << <<"i", id>>, <<"e", properties>>, children>> >>

Wrapped(value) == <<"v", 1, value>>

NoNodes == <<"a", "v", <<>> >>

Named(text) == [label |-> <<"s", text>>]

(* A submenu in a submenu, with wrapped nodes and with bare ones, a hidden *)
(* submenu, and elements that are no nodes.                                *)
Nested ==
  << Wrapped(Node(1, Named(<<"A", "_", "_", "B">>), <<"a", "v",
       << Wrapped(Node(2, Named(<<"_">>), <<"a", "(ia{sv}av)",
            << Node(3, "label" :> <<"s", <<"r">> >> @@ "toggle-type" :> <<"s", "radio">>
                         @@ "toggle-state" :> <<"u", 1>>, NoNodes) >> >>)),
          Leaf(4, [type |-> <<"s", "separator">>]) >> >>)),
     Wrapped(Node(5, [visible |-> <<"b", FALSE>>], <<"a", "v", <<Leaf(6, Named(<<"h">>))>> >>)),
     Wrapped(<<"s", "not a node">>),
     Wrapped(<<"r", << <<"u", 9>>, <<"e", Named(<<"u">>)>> >> >>),
     <<"v", 2, Node(8, Named(<<"w">>), NoNodes)>>,
     Wrapped(<<"r", << <<"i", 7>> >> >>) >>

Twins == << Leaf(1, Named(<<"x">>)),
            Wrapped(Node(2, Named(<<"y">>), <<"a", "v", <<Leaf(1, Named(<<"z">>))>> >>)) >>

MCLayouts == {<<>>, Nested, Twins, SubSeq(Nested, 1, 1) \o SubSeq(TestLayout(FALSE)[3], 2, 3)}

MCUpdateLists ==
  { <<>>,
    << <<1, Named(<<"_", "a", "_", "b">>)>>, <<1, [enabled |-> <<"b", FALSE>>]>> >>,
    << <<2, "toggle-state" :> <<"i", 1>> @@ "toggle-type" :> <<"s", "radio">> >>,
       <<2, "toggle-state" :> <<"i", 7>> >> >>,
    << <<3, [visible |-> <<"b", FALSE>>]>>, <<4, [type |-> <<"s", "separator">>]>>,
       <<4, [shortcut |-> <<"a", "as", << <<"Alt", "S">> >> >>]>> >>,
    << <<1, [visible |-> Wrapped(<<"b", FALSE>>)]>>, <<5, [visible |-> <<"s", "yes">>]>> >>,
    << <<3, [label |-> <<"b", TRUE>>]>>, <<9, Named(<<"n">>)>> >> }

MCRemovalLists ==
  { <<>>, << <<1, {"visible", "label"}>> >>, << <<2, {"toggle-type"}>>, <<4, {"type", "shortcut"}>> >> }
=============================================================================
