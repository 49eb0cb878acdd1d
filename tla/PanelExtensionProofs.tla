------------------------ MODULE PanelExtensionProofs ------------------------
(***************************************************************************)
(* What a panel shows is never out of place, proved: no indicator shows a  *)
(* menu from before it was made (MenusStayWithTheirIndicator), nothing is  *)
(* on the panel while the daemon is away or the extension is disabled      *)
(* (NothingIsShownAlone), and a panel that awaits nothing shows what the   *)
(* daemon has (QuietPanelsAreRight).                                       *)
(*                                                                         *)
(* The first rests on MenuInv: whatever a call asks for, and whatever a    *)
(* reply on its way brings, suits the indicator it names, and an indicator *)
(* made later has a number no call has yet.  The second rests on AloneInv  *)
(* as well: the last message about the daemon's name tells whether it is   *)
(* there, and a list of items on its way finds the client connected.  The  *)
(* third adds FollowInv: a connected panel whose configuration or items    *)
(* are old is still to be told, still to ask, or the last answer on its    *)
(* way brings them; and whoever is busy awaits an answer.                  *)
(*                                                                         *)
(* A turn of the extension is an operator from panel to panel, so most     *)
(* lemmas are about two panels: Asks (calls were made, nothing else that   *)
(* counts), Follows (indicators keep their numbers), Bland (presence, and  *)
(* a bare panel, are left alone), Shows (so is what is on the panel) and   *)
(* Onward (so is what the panel is still to ask for).                      *)
(***************************************************************************)
EXTENDS PanelExtension, Channels

IsPanel(p) ==
  p = [ client |-> p.client, config |-> p.config, busy |-> p.busy, queued |-> p.queued,
        shown |-> p.shown, leftover |-> p.leftover, placeholder |-> p.placeholder,
        made |-> p.made, calls |-> p.calls ]

IsIndicator(i) ==
  /\ i = [id |-> i.id, born |-> i.born, run |-> i.run, menu |-> i.menu]
  /\ i.id \in Nat /\ i.born \in Nat /\ i.menu \in Nat

IsMenuCall(c) ==
  /\ c = [kind |-> "GetMenu", key |-> c.key, id |-> c.id, menu |-> c.menu]
  /\ c.id \in Nat /\ c.menu \in Nat

(* A list of items, with applications there have been (r).                 *)
IsList(f, r) ==
  /\ IsFiniteSet(DOMAIN f) /\ DOMAIN f \subseteq Keys
  /\ \A k \in DOMAIN f : f[k] \in Nat /\ f[k] <= r[k]

(* A menu somebody asks for suits the indicator it is for.                 *)
Suits(p, c, menu) ==
  \A k \in DOMAIN p.shown :
    k = c.key /\ p.shown[k].id = c.id => menu = 0 \/ menu >= p.shown[k].born

ShownOK(p, r) ==
  \A k \in DOMAIN p.shown :
    /\ k \in Keys /\ IsIndicator(p.shown[k])
    /\ p.shown[k].id <= p.made /\ p.shown[k].born <= r[k]
    /\ p.shown[k].menu = 0 \/ p.shown[k].menu >= p.shown[k].born

CallOK(p, c) ==
  /\ c.kind \in {"GetConfig", "ListItems", "GetMenu"}
  /\ c.kind = "GetMenu" => IsMenuCall(c) /\ c.id <= p.made /\ Suits(p, c, c.menu)

PanelOK(p, r) ==
  /\ IsPanel(p) /\ p.client \in {"none", "new", "asked", "off", "on"}
  /\ p.made \in Nat /\ IsChannel(p.calls)
  /\ ShownOK(p, r)
  /\ \A c \in Elements(p.calls) : CallOK(p, c)

MsgOK(m, p, r) ==
  /\ m.kind \in {"owner", "unwatched", "back", "gone", "signal", "reply"}
  /\ m.kind = "signal" => m.signal \in {"items", "config", "menu"}
  /\ m.kind = "reply" =>
       /\ CallOK(p, m.call)
       /\ ~m.failed /\ m.call.kind = "ListItems" => IsList(m.value, r)
       /\ ~m.failed /\ m.call.kind = "GetMenu" =>
            m.value \in Nat /\ Suits(p, m.call, m.value)

DaemonOK ==
  /\ runs \in [Keys -> Nat] /\ IsList(items, runs)
  /\ \A k \in DOMAIN items : items[k] = runs[k]

MenuInv ==
  /\ DaemonOK /\ PanelOK(panel, runs)
  /\ IsChannel(inbox) /\ \A m \in Elements(inbox) : MsgOK(m, panel, runs)

-----------------------------------------------------------------------------
(* Calls taken out of their order, and menus asked for in any order.       *)
LEMMA ElementsRemoved ==
  ASSUME NEW s, IsChannel(s), NEW n \in DOMAIN s
  PROVE  IsChannel(RemoveAt(s, n)) /\ Elements(RemoveAt(s, n)) \subseteq Elements(s)
<1>1. Len(s) \in Nat /\ DOMAIN s = 1 .. Len(s)
  BY ChannelFacts
<1>2. \A i \in 1 .. n - 1 : s[i] \in Elements(s)
  BY <1>1 DEF Elements
<1>3. \A i \in n + 1 .. Len(s) : s[i] \in Elements(s)
  BY <1>1 DEF Elements
<1>4. n - 1 \in Int /\ n + 1 \in Int /\ 1 \in Int /\ Len(s) \in Int
  BY <1>1
<1>5. SubSeq(s, 1, n - 1) \in Seq(Elements(s)) /\ SubSeq(s, n + 1, Len(s)) \in Seq(Elements(s))
  BY <1>2, <1>3, <1>4, SubSeqProperties
<1>6. RemoveAt(s, n) \in Seq(Elements(s))
  BY <1>5, ConcatProperties DEF RemoveAt
<1>7. \A i \in 1 .. Len(RemoveAt(s, n)) : RemoveAt(s, n)[i] \in Elements(s)
  BY <1>6, ElementOfSeq
<1>8. IsChannel(RemoveAt(s, n))
  BY <1>6, SequencesAreChannels
<1>9. DOMAIN RemoveAt(s, n) = 1 .. Len(RemoveAt(s, n))
  BY <1>8, ChannelFacts
<1> QED BY <1>7, <1>8, <1>9 DEF Elements

LEMMA SetInSequence ==
  ASSUME NEW S, IsFiniteSet(S)
  PROVE  IsChannel(SetToSeq(S)) /\ Elements(SetToSeq(S)) \subseteq S
<1>1. Cardinality(S) \in Nat /\ ExistsBijection(1 .. Cardinality(S), S)
  BY FS_CardinalityType
<1>2. \E f \in [1 .. Cardinality(S) -> S] : IsInjective(f)
  BY <1>1 DEF ExistsBijection, Bijection, Injection
<1>3. SetToSeq(S) \in [1 .. Cardinality(S) -> S]
  BY <1>2 DEF SetToSeq
<1>4. SetToSeq(S) \in Seq(S)
  BY <1>1, <1>3, SeqDef
<1> QED BY <1>3, <1>4, SequencesAreChannels DEF Elements

-----------------------------------------------------------------------------
(* Calls a turn may make. *)
FreshCall(c, p) ==
  \/ c.kind = "GetConfig"
  \/ c.kind = "ListItems" /\ p.client = "on"
  \/ IsMenuCall(c) /\ c.id <= p.made /\ c.menu = 0

(* A turn that does no more than that from p to q. *)
Asks(p, q) ==
  /\ IsPanel(q) /\ IsChannel(q.calls)
  /\ q.client = p.client /\ q.shown = p.shown /\ q.leftover = p.leftover
  /\ q.placeholder = p.placeholder /\ q.made = p.made
  /\ \A c \in Elements(q.calls) : c \in Elements(p.calls) \/ FreshCall(c, q)

LEMMA AsksNothing == ASSUME NEW p, IsPanel(p), IsChannel(p.calls) PROVE Asks(p, p)
BY DEF Asks

LEMMA AsksTwice ==
  ASSUME NEW p, NEW q, NEW r, Asks(p, q), Asks(q, r)
  PROVE  Asks(p, r)
BY DEF Asks, FreshCall

LEMMA CallAsks ==
  ASSUME NEW p, IsPanel(p), IsChannel(p.calls), NEW c, FreshCall(c, p)
  PROVE  Asks(p, Call(p, c))
<1> DEFINE q == Call(p, c)
<1>1. q = [p EXCEPT !.calls = Append(p.calls, c)]
  BY DEF Call, IsPanel
<1>2. /\ IsPanel(q) /\ q.calls = Append(p.calls, c)
      /\ q.client = p.client /\ q.shown = p.shown /\ q.leftover = p.leftover
      /\ q.placeholder = p.placeholder /\ q.made = p.made
  BY <1>1 DEF IsPanel
<1>3. IsChannel(q.calls) /\ Elements(q.calls) = Elements(p.calls) \cup {c}
  BY <1>2, Sent, ElementsSent
<1> HIDE DEF q
<1>4. Asks(p, q)
  BY <1>2, <1>3 DEF Asks, FreshCall
<1> QED BY <1>4 DEF q

LEMMA MarksAsk ==
  ASSUME NEW p, IsPanel(p), IsChannel(p.calls), NEW v
  PROVE  /\ Asks(p, [p EXCEPT !.busy = v]) /\ Asks(p, [p EXCEPT !.queued = v])
         /\ Asks(p, [p EXCEPT !.config = v])
<1>1. ASSUME NEW q, q = [p EXCEPT !.busy = v]
      PROVE  Asks(p, q)
  BY <1>1 DEF Asks, IsPanel
<1>2. ASSUME NEW q, q = [p EXCEPT !.queued = v]
      PROVE  Asks(p, q)
  BY <1>2 DEF Asks, IsPanel
<1>3. ASSUME NEW q, q = [p EXCEPT !.config = v]
      PROVE  Asks(p, q)
  BY <1>3 DEF Asks, IsPanel
<1> QED BY <1>1, <1>2, <1>3

LEMMA RefreshItemsAsks ==
  ASSUME NEW p, IsPanel(p), IsChannel(p.calls)
  PROVE  Asks(p, RefreshItems(p))
<1> DEFINE b == [p EXCEPT !.busy = TRUE]
<1>1. CASE p.client # "on"
  <2>1. RefreshItems(p) = p
    BY <1>1 DEF RefreshItems
  <2> QED BY <2>1, AsksNothing
<1>2. CASE p.client = "on"
  <2>1. Asks(p, b)
    BY MarksAsk
  <2>2. IsPanel(b) /\ IsChannel(b.calls) /\ b.client = "on"
    BY <1>2, <2>1 DEF Asks
  <2> HIDE DEF b
  <2>3. \/ RefreshItems(p) = [p EXCEPT !.queued = TRUE]
        \/ RefreshItems(p) = Call(b, [kind |-> "GetConfig", refresh |-> TRUE])
        \/ RefreshItems(p) = List(b, p.config)
    BY <1>2 DEF RefreshItems, b
  <2>4. Asks(b, Call(b, [kind |-> "GetConfig", refresh |-> TRUE]))
    BY <2>2, CallAsks DEF FreshCall
  <2>5. Asks(b, List(b, p.config))
    <3>1. FreshCall([kind |-> "ListItems", config |-> p.config], b)
      BY <2>2 DEF FreshCall
    <3> QED BY <2>2, <3>1, CallAsks DEF List
  <2>6. ASSUME NEW q, Asks(b, q) PROVE Asks(p, q)
    BY <2>1, <2>6, AsksTwice
  <2>7. Asks(p, [p EXCEPT !.queued = TRUE])
    BY MarksAsk
  <2> QED BY <2>3, <2>4, <2>5, <2>6, <2>7
<1> QED BY <1>1, <1>2

LEMMA FinishAsks ==
  ASSUME NEW p, IsPanel(p), IsChannel(p.calls)
  PROVE  Asks(p, Finish(p))
<1> DEFINE b == [p EXCEPT !.busy = FALSE]
           c == [b EXCEPT !.queued = FALSE]
<1>1. Asks(p, b)
  BY MarksAsk
<1>2. IsPanel(b) /\ IsChannel(b.calls)
  BY <1>1 DEF Asks
<1>3. [p EXCEPT !.busy = FALSE, !.queued = FALSE] = c
  OBVIOUS
<1>4. Finish(p) = RefreshItems(c) \/ Finish(p) = b
  BY <1>3 DEF Finish
<1> HIDE DEF b
<1>5. Asks(b, c)
  BY <1>2, MarksAsk
<1> HIDE DEF c
<1>6. Asks(c, RefreshItems(c))
  BY <1>5, RefreshItemsAsks DEF Asks
<1> QED BY <1>1, <1>4, <1>5, <1>6, AsksTwice

LEMMA RefreshConfigAsks ==
  ASSUME NEW p, IsPanel(p), IsChannel(p.calls)
  PROVE  Asks(p, RefreshConfig(p))
BY CallAsks DEF RefreshConfig, FreshCall

LEMMA RefreshMenuAsks ==
  ASSUME NEW p, NEW r, PanelOK(p, r), NEW k
  PROVE  Asks(p, RefreshMenu(p, k))
<1>1. IsPanel(p) /\ IsChannel(p.calls)
  BY DEF PanelOK
<1>2. CASE k \in DOMAIN p.shown /\ p.client = "on"
  <2>1. p.shown[k].id \in Nat /\ p.shown[k].id <= p.made
    BY <1>2 DEF PanelOK, ShownOK, IsIndicator
  <2>2. FreshCall(MenuCall(k, p.shown[k].id), p)
    BY <2>1 DEF FreshCall, MenuCall, IsMenuCall
  <2> QED BY <1>1, <1>2, <2>2, CallAsks DEF RefreshMenu
<1>3. CASE ~ (k \in DOMAIN p.shown /\ p.client = "on")
  BY <1>1, <1>3, AsksNothing DEF RefreshMenu
<1> QED BY <1>2, <1>3

-----------------------------------------------------------------------------
(* What replies rest on stays true. *)
Follows(p, q) ==
  /\ q.made \in Nat /\ q.made >= p.made
  /\ \A k \in DOMAIN q.shown :
       \/ /\ k \in DOMAIN p.shown /\ q.shown[k].id = p.shown[k].id
          /\ q.shown[k].born = p.shown[k].born
       \/ q.shown[k].id > p.made

LEMMA CallsStayOK ==
  ASSUME NEW p, NEW q, p.made \in Nat, Follows(p, q), NEW c, CallOK(p, c)
  PROVE  CallOK(q, c)
<1> SUFFICES ASSUME c.kind = "GetMenu" PROVE IsMenuCall(c) /\ c.id <= q.made /\ Suits(q, c, c.menu)
  BY DEF CallOK
<1>1. IsMenuCall(c) /\ c.id <= p.made /\ Suits(p, c, c.menu) /\ c.id \in Nat
  BY DEF CallOK, IsMenuCall
<1>2. c.id <= q.made
  BY <1>1 DEF Follows
<1>3. Suits(q, c, c.menu)
  BY <1>1 DEF Suits, Follows
<1> QED BY <1>1, <1>2, <1>3

LEMMA MessagesStayOK ==
  ASSUME NEW p, NEW q, p.made \in Nat, Follows(p, q), NEW r, NEW m, MsgOK(m, p, r)
  PROVE  MsgOK(m, q, r)
<1>1. CASE m.kind = "reply"
  <2>1. CallOK(q, m.call)
    BY <1>1, CallsStayOK DEF MsgOK
  <2>2. ~m.failed /\ m.call.kind = "GetMenu" => Suits(q, m.call, m.value)
    <3> SUFFICES ASSUME ~m.failed, m.call.kind = "GetMenu" PROVE Suits(q, m.call, m.value)
      OBVIOUS
    <3>1. m.call.id \in Nat /\ m.call.id <= p.made /\ Suits(p, m.call, m.value)
      BY <1>1 DEF MsgOK, CallOK, IsMenuCall
    <3> QED BY <3>1 DEF Suits, Follows
  <2> QED BY <2>1, <2>2 DEF MsgOK
<1>2. CASE m.kind # "reply"
  BY <1>2 DEF MsgOK
<1> QED BY <1>1, <1>2

(* A turn that asks leaves a panel of the same standing. *)
LEMMA AsksKeeps ==
  ASSUME NEW p, NEW q, NEW r, PanelOK(p, r), Asks(p, q)
  PROVE  PanelOK(q, r) /\ Follows(p, q)
<1>1. Follows(p, q)
  BY DEF PanelOK, Asks, Follows
<1>2. ShownOK(q, r)
  BY DEF PanelOK, Asks, ShownOK
<1>3. ASSUME NEW c \in Elements(q.calls)
      PROVE  CallOK(q, c)
  <2>1. CASE c \in Elements(p.calls)
    BY <1>1, <2>1, CallsStayOK DEF PanelOK
  <2>2. CASE FreshCall(c, q)
    <3>1. c.kind = "GetMenu" => IsMenuCall(c) /\ c.id <= q.made /\ c.menu = 0
      BY <2>2 DEF FreshCall
    <3>2. c.kind \in {"GetConfig", "ListItems", "GetMenu"}
      BY <2>2 DEF FreshCall, IsMenuCall
    <3> QED BY <3>1, <3>2 DEF CallOK, Suits
  <2> QED BY <1>3, <2>1, <2>2 DEF Asks
<1> QED BY <1>1, <1>2, <1>3 DEF PanelOK, Asks

-----------------------------------------------------------------------------
(* What the turns of Deliver leave alone, that of presence aside. *)
Bland(p, q) ==
  /\ q.client = p.client /\ q.leftover = p.leftover
  /\ p.client # "on" =>
       /\ q.shown = p.shown /\ q.placeholder = p.placeholder
       /\ \A c \in Elements(q.calls) : c.kind = "ListItems" => c \in Elements(p.calls)

LEMMA AsksIsBland == ASSUME NEW p, NEW q, Asks(p, q) PROVE Bland(p, q)
BY DEF Asks, Bland, FreshCall, IsMenuCall

LEMMA FollowsTwice ==
  ASSUME NEW p, NEW q, NEW s, NEW r, Follows(p, q), Follows(q, s), PanelOK(s, r), p.made \in Nat
  PROVE  Follows(p, s)
<1>1. q.made \in Nat /\ q.made >= p.made /\ s.made \in Nat /\ s.made >= q.made
  BY DEF Follows
<1>2. ASSUME NEW k \in DOMAIN s.shown
      PROVE  \/ /\ k \in DOMAIN p.shown /\ s.shown[k].id = p.shown[k].id
                /\ s.shown[k].born = p.shown[k].born
             \/ s.shown[k].id > p.made
  <2>1. s.shown[k].id \in Nat
    BY DEF PanelOK, ShownOK, IsIndicator
  <2>2. CASE s.shown[k].id > q.made
    BY <1>1, <2>1, <2>2
  <2>3. CASE /\ k \in DOMAIN q.shown /\ s.shown[k].id = q.shown[k].id
             /\ s.shown[k].born = q.shown[k].born
    BY <2>3 DEF Follows
  <2> QED BY <2>2, <2>3 DEF Follows
<1> QED BY <1>1, <1>2 DEF Follows

LEMMA PlaceholderSet ==
  ASSUME NEW a, IsPanel(a), NEW v, NEW q, q = [a EXCEPT !.placeholder = v]
  PROVE  /\ IsPanel(q) /\ q.shown = a.shown /\ q.placeholder = v /\ q.client = a.client
         /\ q.leftover = a.leftover /\ q.calls = a.calls /\ q.made = a.made
BY DEF IsPanel

LEMMA RemoveAllKeeps ==
  ASSUME NEW p, NEW r, PanelOK(p, r)
  PROVE  /\ PanelOK(RemoveAll(p), r) /\ Follows(p, RemoveAll(p))
         /\ RemoveAll(p).shown = NoItems /\ RemoveAll(p).placeholder = FALSE
         /\ RemoveAll(p).client = p.client /\ RemoveAll(p).leftover = p.leftover
         /\ RemoveAll(p).calls = p.calls
<1> DEFINE a == [p EXCEPT !.shown = NoItems]
           q == [a EXCEPT !.placeholder = FALSE]
<1>1. RemoveAll(p) = q
  BY DEF RemoveAll
<1>2. /\ IsPanel(a) /\ a.shown = NoItems /\ a.client = p.client /\ a.leftover = p.leftover
      /\ a.calls = p.calls /\ a.made = p.made
  BY DEF PanelOK, IsPanel
<1> HIDE DEF a
<1>3. /\ IsPanel(q) /\ q.shown = NoItems /\ q.placeholder = FALSE /\ q.client = p.client
      /\ q.leftover = p.leftover /\ q.calls = p.calls /\ q.made = p.made
  BY <1>2, PlaceholderSet
<1> HIDE DEF q
<1>4. DOMAIN q.shown = {}
  BY <1>3 DEF NoItems
<1>5. Follows(p, q)
  BY <1>3, <1>4 DEF Follows, PanelOK
<1>6. \A c \in Elements(q.calls) : CallOK(q, c)
  BY <1>3, <1>5, CallsStayOK DEF PanelOK
<1>7. PanelOK(q, r)
  BY <1>3, <1>4, <1>6 DEF PanelOK, ShownOK
<1> QED BY <1>1, <1>3, <1>5, <1>7

(* Where the client is matters to nothing else. *)
LEMMA ClientMoves ==
  ASSUME NEW p, NEW r, PanelOK(p, r), NEW v \in {"none", "new", "asked", "off", "on"},
         NEW q, q = [p EXCEPT !.client = v]
  PROVE  /\ PanelOK(q, r) /\ Follows(p, q)
         /\ q.client = v /\ q.shown = p.shown /\ q.leftover = p.leftover
         /\ q.placeholder = p.placeholder /\ q.calls = p.calls
<1>1. /\ IsPanel(q) /\ q.client = v /\ q.shown = p.shown /\ q.leftover = p.leftover
      /\ q.placeholder = p.placeholder /\ q.calls = p.calls /\ q.made = p.made
  BY DEF PanelOK, IsPanel
<1>2. PanelOK(q, r) /\ Follows(p, q)
  BY <1>1 DEF PanelOK, ShownOK, CallOK, Suits, Follows
<1> QED BY <1>1, <1>2

LEMMA NameAppearedKeeps ==
  ASSUME NEW p, NEW r, PanelOK(p, r)
  PROVE  /\ PanelOK(NameAppeared(p), r) /\ Follows(p, NameAppeared(p))
         /\ NameAppeared(p).client = IF p.client = "off" THEN "on" ELSE p.client
         /\ NameAppeared(p).leftover = p.leftover
         /\ p.client # "off" => NameAppeared(p) = p
<1>1. CASE p.client = "off"
  <2> DEFINE a == [p EXCEPT !.client = "on"]
             b == RefreshItems(a)
             q == RefreshConfig(b)
  <2>1. NameAppeared(p) = q
    BY <1>1 DEF NameAppeared
  <2>2. PanelOK(a, r) /\ Follows(p, a) /\ a.client = "on" /\ a.leftover = p.leftover
    BY ClientMoves
  <2> HIDE DEF a
  <2>3. Asks(a, b)
    BY <2>2, RefreshItemsAsks DEF PanelOK
  <2> HIDE DEF b
  <2>4. Asks(b, q)
    BY <2>3, RefreshConfigAsks DEF Asks
  <2> HIDE DEF q
  <2>5. Asks(a, q)
    BY <2>3, <2>4, AsksTwice
  <2>6. PanelOK(q, r) /\ Follows(a, q)
    BY <2>2, <2>5, AsksKeeps
  <2>7. Follows(p, q)
    BY <2>2, <2>6, FollowsTwice DEF PanelOK
  <2> QED BY <1>1, <2>1, <2>2, <2>5, <2>6, <2>7 DEF Asks
<1>2. CASE p.client # "off"
  BY <1>2 DEF NameAppeared, Follows, PanelOK
<1> QED BY <1>1, <1>2

LEMMA NameVanishedKeeps ==
  ASSUME NEW p, NEW r, PanelOK(p, r)
  PROVE  /\ PanelOK(NameVanished(p), r) /\ Follows(p, NameVanished(p))
         /\ NameVanished(p).client = IF p.client = "on" THEN "off" ELSE p.client
         /\ NameVanished(p).leftover = p.leftover /\ NameVanished(p).calls = p.calls
         /\ p.client # "on" => NameVanished(p) = p
         /\ p.client = "on" =>
              NameVanished(p).shown = NoItems /\ NameVanished(p).placeholder = FALSE
<1>1. CASE p.client = "on"
  <2> DEFINE a == [p EXCEPT !.client = "off"]
             q == RemoveAll(a)
  <2>1. NameVanished(p) = q
    BY <1>1 DEF NameVanished
  <2>2. PanelOK(a, r) /\ Follows(p, a) /\ a.client = "off" /\ a.leftover = p.leftover
        /\ a.calls = p.calls
    BY ClientMoves
  <2> HIDE DEF a
  <2>3. /\ PanelOK(q, r) /\ Follows(a, q) /\ q.client = "off" /\ q.leftover = p.leftover
        /\ q.shown = NoItems /\ q.placeholder = FALSE /\ q.calls = p.calls
    BY <2>2, RemoveAllKeeps
  <2> HIDE DEF q
  <2>4. Follows(p, q)
    BY <2>2, <2>3, FollowsTwice DEF PanelOK
  <2> QED BY <1>1, <2>1, <2>3, <2>4
<1>2. CASE p.client # "on"
  BY <1>2 DEF NameVanished, Follows, PanelOK
<1> QED BY <1>1, <1>2

LEMMA OwnerKnownKeeps ==
  ASSUME NEW p, NEW r, PanelOK(p, r), NEW msg
  PROVE  /\ PanelOK(OwnerKnown(p, msg), r) /\ Follows(p, OwnerKnown(p, msg))
         /\ OwnerKnown(p, msg).client = IF msg.up THEN "on" ELSE "off"
         /\ OwnerKnown(p, msg).leftover = p.leftover
         /\ ~msg.up => /\ OwnerKnown(p, msg).shown = p.shown /\ OwnerKnown(p, msg).calls = p.calls
                       /\ OwnerKnown(p, msg).placeholder = p.placeholder
<1> DEFINE a == [p EXCEPT !.client = "off"]
           q == NameAppeared(a)
<1>1. OwnerKnown(p, msg) = IF msg.up THEN q ELSE a
  BY DEF OwnerKnown
<1>2. /\ PanelOK(a, r) /\ Follows(p, a) /\ a.client = "off" /\ a.shown = p.shown
      /\ a.leftover = p.leftover /\ a.placeholder = p.placeholder /\ a.calls = p.calls
  BY ClientMoves
<1> HIDE DEF a
<1>3. PanelOK(q, r) /\ Follows(a, q) /\ q.client = "on" /\ q.leftover = a.leftover
  BY <1>2, NameAppearedKeeps
<1> HIDE DEF q
<1>4. Follows(p, q)
  BY <1>2, <1>3, FollowsTwice DEF PanelOK
<1> QED BY <1>1, <1>2, <1>3, <1>4

LEMMA HeardKeeps ==
  ASSUME NEW p, NEW r, PanelOK(p, r), NEW msg, msg.signal \in {"items", "config", "menu"}
  PROVE  PanelOK(Heard(p, msg), r) /\ Follows(p, Heard(p, msg)) /\ Bland(p, Heard(p, msg))
<1>1. IsPanel(p) /\ IsChannel(p.calls)
  BY DEF PanelOK
<1>2. Heard(p, msg) \in {p, RefreshItems(p), RefreshConfig(p), RefreshMenu(p, msg.key)}
  BY DEF Heard
<1>3. Asks(p, Heard(p, msg))
  BY <1>1, <1>2, AsksNothing, RefreshItemsAsks, RefreshConfigAsks, RefreshMenuAsks
<1> QED BY <1>3, AsksKeeps, AsksIsBland

LEMMA UpdateMenuKeeps ==
  ASSUME NEW p, NEW r, PanelOK(p, r), NEW c, NEW menu \in Nat, Suits(p, c, menu)
  PROVE  LET q == UpdateMenu(p, c, menu)
         IN  /\ PanelOK(q, r) /\ Follows(p, q)
             /\ q.client = p.client /\ q.leftover = p.leftover /\ q.calls = p.calls
             /\ q.placeholder = p.placeholder
             /\ p.shown = NoItems => q.shown = NoItems
<1> DEFINE q == UpdateMenu(p, c, menu)
<1>1. CASE c.key \in DOMAIN p.shown /\ p.shown[c.key].id = c.id
  <2> DEFINE i == [p.shown[c.key] EXCEPT !.menu = menu]
             shown == [p.shown EXCEPT ![c.key] = i]
  <2>1. q = [p EXCEPT !.shown = shown]
    BY <1>1 DEF UpdateMenu
  <2>2. IsIndicator(p.shown[c.key])
    BY <1>1 DEF PanelOK, ShownOK
  <2>3. IsIndicator(i) /\ i.id = p.shown[c.key].id /\ i.born = p.shown[c.key].born /\ i.menu = menu
    BY <2>2 DEF IsIndicator
  <2> HIDE DEF i
  <2>4. DOMAIN shown = DOMAIN p.shown /\ shown[c.key] = i
        /\ \A k \in DOMAIN shown \ {c.key} : shown[k] = p.shown[k]
    BY <1>1
  <2> HIDE DEF shown, q
  <2>5. /\ IsPanel(q) /\ q.shown = shown /\ q.client = p.client /\ q.leftover = p.leftover
        /\ q.placeholder = p.placeholder /\ q.calls = p.calls /\ q.made = p.made
    BY <2>1 DEF PanelOK, IsPanel
  <2>6. Follows(p, q)
    BY <2>3, <2>4, <2>5 DEF Follows, PanelOK
  <2>7. ShownOK(q, r)
    <3> SUFFICES ASSUME NEW k \in DOMAIN shown
                 PROVE  /\ k \in Keys /\ IsIndicator(shown[k])
                        /\ shown[k].id <= p.made /\ shown[k].born <= r[k]
                        /\ shown[k].menu = 0 \/ shown[k].menu >= shown[k].born
      BY <2>5 DEF ShownOK
    <3>1. /\ k \in Keys /\ IsIndicator(p.shown[k])
          /\ p.shown[k].id <= p.made /\ p.shown[k].born <= r[k]
          /\ p.shown[k].menu = 0 \/ p.shown[k].menu >= p.shown[k].born
      BY <2>4 DEF PanelOK, ShownOK
    <3>2. k = c.key => menu = 0 \/ menu >= p.shown[k].born
      BY <1>1, <2>4 DEF Suits
    <3> QED BY <2>3, <2>4, <3>1, <3>2
  <2>8. \A d \in Elements(q.calls) : CallOK(q, d)
    BY <2>5, <2>6, CallsStayOK DEF PanelOK
  <2>9. PanelOK(q, r)
    BY <2>5, <2>7, <2>8 DEF PanelOK
  <2>10. p.shown # NoItems
    BY <1>1 DEF NoItems
  <2> QED BY <2>5, <2>6, <2>9, <2>10 DEF q
<1>2. CASE ~ (c.key \in DOMAIN p.shown /\ p.shown[c.key].id = c.id)
  BY <1>2 DEF UpdateMenu, Follows, PanelOK
<1> QED BY <1>1, <1>2

-----------------------------------------------------------------------------
LEMMA PaintKeeps ==
  ASSUME NEW p, NEW r, PanelOK(p, r), NEW list, IsList(list, r), NEW conf,
         NEW done \in SUBSET DOMAIN list
  PROVE  LET q == Paint(p, list, conf, done)
         IN  PanelOK(q, r) /\ Follows(p, q) /\ q.client = p.client /\ q.leftover = p.leftover
<1> DEFINE new   == done \ DOMAIN p.shown
           id    == p.made + 1
           Indicator(k) ==
             IF k \in new THEN [id |-> id, born |-> list[k], run |-> list[k], menu |-> 0]
             ELSE [p.shown[k] EXCEPT !.run = list[k]]
           complete == done = DOMAIN list
           kept  == IF complete THEN done ELSE done \cup DOMAIN p.shown
           asked == {MenuCall(k, id) : k \in new}
           asks  == IF p.client = "on" THEN SetToSeq(asked) ELSE <<>>
           shown == [k \in kept |-> IF k \in done THEN Indicator(k) ELSE p.shown[k]]
           made  == IF new = {} THEN p.made ELSE id
           placeholder == IF complete THEN done = {} /\ conf.showWhenEmpty ELSE p.placeholder
           calls == p.calls \o asks
           q     == Paint(p, list, conf, done)
<1>1. q = [p EXCEPT !.shown = shown, !.made = made, !.placeholder = placeholder, !.calls = calls]
  BY DEF Paint
<1>2. IsPanel(p) /\ p.made \in Nat /\ IsChannel(p.calls)
      /\ p.client \in {"none", "new", "asked", "off", "on"}
  BY DEF PanelOK
<1>3. made \in Nat /\ made >= p.made /\ id \in Nat /\ id > p.made /\ (new # {} => made = id)
  BY <1>2
<1>4. IsChannel(asks) /\ \A c \in Elements(asks) : \E k \in new : c = MenuCall(k, id)
  <2>1. IsFiniteSet(asked)
    <3>1. IsFiniteSet(new)
      BY FS_Subset DEF IsList
    <3> DEFINE f == [k \in new |-> MenuCall(k, id)]
    <3>2. f \in Surjection(new, asked)
      BY DEF Surjection
    <3> HIDE DEF new, id, asked, f
    <3> QED BY <3>1, <3>2, FS_Surjection
  <2>2. IsChannel(SetToSeq(asked)) /\ Elements(SetToSeq(asked)) \subseteq asked
    BY <2>1, SetInSequence
  <2>3. IsChannel(<<>>) /\ Elements(<<>>) = {}
    BY EmptyChannel DEF Elements
  <2> QED BY <2>2, <2>3
<1>5. IsChannel(calls) /\ Elements(calls) = Elements(p.calls) \cup Elements(asks)
  BY <1>2, <1>4, Joined, ElementsJoined
<1>6. ASSUME NEW k \in DOMAIN shown
      PROVE  /\ k \in Keys /\ IsIndicator(shown[k])
             /\ shown[k].id <= made /\ shown[k].born <= r[k]
             /\ shown[k].menu = 0 \/ shown[k].menu >= shown[k].born
             /\ \/ /\ k \in DOMAIN p.shown /\ shown[k].id = p.shown[k].id
                   /\ shown[k].born = p.shown[k].born
                \/ shown[k].id = id
  <2>1. k \in done => k \in Keys /\ list[k] \in Nat /\ list[k] <= r[k]
    BY DEF IsList
  <2>2. k \in DOMAIN p.shown =>
          /\ k \in Keys /\ IsIndicator(p.shown[k])
          /\ p.shown[k].id <= p.made /\ p.shown[k].born <= r[k]
          /\ p.shown[k].menu = 0 \/ p.shown[k].menu >= p.shown[k].born
    BY DEF PanelOK, ShownOK
  <2>3. k \in kept /\ shown[k] = IF k \in done THEN Indicator(k) ELSE p.shown[k]
    BY <1>6
  <2>4. CASE k \in new
    <3>1. shown[k] = [id |-> id, born |-> list[k], run |-> list[k], menu |-> 0]
      BY <2>3, <2>4
    <3>2. made = id /\ k \in done
      BY <1>3, <2>4
    <3> HIDE DEF shown, made, id, new
    <3>3. /\ shown[k].id = id /\ shown[k].born = list[k] /\ shown[k].run = list[k]
          /\ shown[k].menu = 0
      BY <3>1
    <3> QED BY <1>3, <2>1, <3>1, <3>2, <3>3 DEF IsIndicator
  <2>5. CASE k \in done /\ k \notin new
    <3>1. k \in DOMAIN p.shown /\ shown[k] = [p.shown[k] EXCEPT !.run = list[k]]
      BY <2>3, <2>5
    <3> HIDE DEF shown, made, id, new
    <3>2. /\ shown[k].id = p.shown[k].id /\ shown[k].born = p.shown[k].born
          /\ shown[k].menu = p.shown[k].menu /\ IsIndicator(shown[k])
      BY <2>2, <3>1 DEF IsIndicator
    <3> QED BY <1>2, <1>3, <2>2, <3>1, <3>2 DEF IsIndicator
  <2>6. CASE k \notin done
    <3>1. k \in DOMAIN p.shown /\ shown[k] = p.shown[k]
      BY <2>3, <2>6
    <3> HIDE DEF shown, made, id, new
    <3> QED BY <1>2, <1>3, <2>2, <3>1 DEF IsIndicator
  <2> QED BY <2>4, <2>5, <2>6
<1> HIDE DEF q, shown, made, placeholder, calls, id, new, asks
<1>7. /\ IsPanel(q) /\ q.shown = shown /\ q.made = made /\ q.calls = calls
      /\ q.client = p.client /\ q.leftover = p.leftover
  BY <1>1, <1>2 DEF IsPanel
<1>8. Follows(p, q)
  BY <1>3, <1>6, <1>7 DEF Follows
<1>9. ShownOK(q, r)
  BY <1>6, <1>7 DEF ShownOK
<1>10. ASSUME NEW c \in Elements(q.calls)
       PROVE  CallOK(q, c)
  <2>1. CASE c \in Elements(p.calls)
    BY <1>2, <1>8, <2>1, CallsStayOK DEF PanelOK
  <2>2. ASSUME NEW k \in new, c = MenuCall(k, id)
        PROVE  CallOK(q, c)
    <3>1. IsMenuCall(c) /\ c.kind = "GetMenu" /\ c.id = id /\ c.menu = 0
      BY <1>3, <2>2 DEF MenuCall, IsMenuCall
    <3>2. c.id <= q.made
      BY <1>3, <1>7, <3>1
    <3> QED BY <3>1, <3>2 DEF CallOK, Suits
  <2> QED BY <1>4, <1>5, <1>7, <1>10, <2>1, <2>2
<1>11. PanelOK(q, r)
  BY <1>2, <1>3, <1>5, <1>7, <1>9, <1>10 DEF PanelOK
<1> QED BY <1>7, <1>8, <1>11 DEF q

-----------------------------------------------------------------------------
(* The panel is bare whenever the daemon is not there for it, and nothing  *)
(* is listed by then.                                                      *)
Bare(p, msg) ==
  /\ p.client # "on" => p.shown = NoItems
  /\ msg.call.kind = "ListItems" /\ ~msg.failed => p.client = "on"

LEMMA ResumedKeeps ==
  ASSUME NEW p, NEW r, PanelOK(p, r), NEW msg, msg.kind = "reply", MsgOK(msg, p, r),
         NEW q \in Resumed(p, msg)
  PROVE  PanelOK(q, r) /\ Follows(p, q) /\ (Bare(p, msg) => Bland(p, q))
<1>1. IsPanel(p) /\ IsChannel(p.calls) /\ p.made \in Nat
  BY DEF PanelOK
<1>2. /\ CallOK(p, msg.call)
      /\ ~msg.failed /\ msg.call.kind = "ListItems" => IsList(msg.value, r)
      /\ ~msg.failed /\ msg.call.kind = "GetMenu" =>
           msg.value \in Nat /\ Suits(p, msg.call, msg.value)
  BY DEF MsgOK
<1>3. ASSUME Asks(p, q)
      PROVE  PanelOK(q, r) /\ Follows(p, q) /\ Bland(p, q)
  BY <1>3, AsksKeeps, AsksIsBland
<1>4. Asks(p, p) /\ Asks(p, Finish(p))
  BY <1>1, AsksNothing, FinishAsks
<1>5. CASE msg.call.kind = "GetConfig"
  <2> DEFINE a == [p EXCEPT !.config = msg.value]
  <2>1. Asks(p, a)
    BY <1>1, MarksAsk
  <2>2. IsPanel(a) /\ IsChannel(a.calls)
    BY <2>1 DEF Asks
  <2>3. \/ q \in {p, Finish(p), Finish(a), RefreshItems(a)}
        \/ q = List(a, msg.value) /\ a.client = "on"
    <3>1. CASE msg.call.refresh
      <4>1. Resumed(p, msg) = IF msg.failed THEN {Finish(p)}
                              ELSE {IF a.client = "on" THEN List(a, msg.value) ELSE Finish(a)}
        BY <1>5, <3>1 DEF Resumed
      <4> HIDE DEF a
      <4> QED BY <4>1
    <3>2. CASE ~msg.call.refresh
      <4>1. Resumed(p, msg) = {IF msg.failed THEN p ELSE RefreshItems(a)}
        BY <1>5, <3>2 DEF Resumed
      <4> HIDE DEF a
      <4> QED BY <4>1
    <3> QED BY <3>1, <3>2
  <2> HIDE DEF a
  <2>4. Asks(a, Finish(a)) /\ Asks(a, RefreshItems(a))
    BY <2>2, FinishAsks, RefreshItemsAsks
  <2>5. a.client = "on" => Asks(a, List(a, msg.value))
    <3>1. a.client = "on" => FreshCall([kind |-> "ListItems", config |-> msg.value], a)
      BY DEF FreshCall
    <3> QED BY <2>2, <3>1, CallAsks DEF List
  <2>6. Asks(a, q) => Asks(p, q)
    BY <2>1, AsksTwice
  <2>7. Asks(p, q)
    BY <1>4, <2>3, <2>4, <2>5, <2>6
  <2> QED BY <1>3, <2>7
<1>6. CASE msg.call.kind = "ListItems"
  <2>1. CASE msg.failed
    <3>1. q = Finish(p)
      BY <1>6, <2>1 DEF Resumed
    <3> QED BY <1>3, <1>4, <3>1
  <2>2. CASE ~msg.failed
    <3>1. PICK done \in Reached(p, msg.value) : q = Finish(Paint(p, msg.value, msg.call.config, done))
      BY <1>6, <2>2 DEF Resumed
    <3>2. done \in SUBSET DOMAIN msg.value
      BY <3>1 DEF Reached
    <3> DEFINE b == Paint(p, msg.value, msg.call.config, done)
    <3>3. PanelOK(b, r) /\ Follows(p, b) /\ b.client = p.client /\ b.leftover = p.leftover
      BY <1>2, <1>6, <2>2, <3>2, PaintKeeps
    <3> HIDE DEF b
    <3>4. Asks(b, Finish(b))
      BY <3>3, FinishAsks DEF PanelOK
    <3>5. Asks(b, q)
      BY <3>1, <3>4 DEF b
    <3>6. PanelOK(q, r) /\ Follows(b, q)
      BY <3>3, <3>5, AsksKeeps
    <3>7. Follows(p, q)
      BY <1>1, <3>3, <3>6, FollowsTwice
    <3>8. Bare(p, msg) => Bland(p, q)
      BY <1>6, <2>2, <3>3, <3>5 DEF Bare, Bland, Asks
    <3> QED BY <3>6, <3>7, <3>8
  <2> QED BY <2>1, <2>2
<1>7. CASE msg.call.kind = "GetMenu"
  <2>1. CASE msg.failed
    <3>1. q = p
      BY <1>7, <2>1 DEF Resumed
    <3> QED BY <1>3, <1>4, <3>1
  <2>2. CASE ~msg.failed
    <3>1. q = UpdateMenu(p, msg.call, msg.value)
      BY <1>7, <2>2 DEF Resumed
    <3>2. /\ PanelOK(q, r) /\ Follows(p, q)
          /\ q.client = p.client /\ q.leftover = p.leftover /\ q.calls = p.calls
          /\ q.placeholder = p.placeholder
          /\ p.shown = NoItems => q.shown = NoItems
      BY <1>2, <1>7, <2>2, <3>1, UpdateMenuKeeps
    <3>3. Bare(p, msg) => Bland(p, q)
      BY <3>2 DEF Bare, Bland
    <3> QED BY <3>2, <3>3
  <2> QED BY <2>1, <2>2
<1> QED BY <1>2, <1>5, <1>6, <1>7 DEF CallOK

-----------------------------------------------------------------------------
(* The invariant of menus. *)
LEMMA InitMenu == Init => MenuInv
<1> SUFFICES ASSUME Init PROVE MenuInv
  OBVIOUS
<1>1. DaemonOK
  BY FirstsExist DEF Init, DaemonOK, IsList
<1>2. IsChannel(inbox) /\ Elements(inbox) = {}
  BY EmptyChannel DEF Init, Elements
<1>3. IsChannel(panel.calls) /\ Elements(panel.calls) = {}
  BY EmptyChannel DEF Init, FirstPanel, Elements
<1>4. PanelOK(panel, runs)
  BY <1>3 DEF Init, FirstPanel, PanelOK, IsPanel, ShownOK, NoItems
<1> QED BY <1>1, <1>2, <1>4 DEF MenuInv

(* The panel takes a turn. *)
LEMMA TurnKeeps ==
  ASSUME MenuInv, PanelOK(panel', runs), Follows(panel, panel'), UNCHANGED <<items, runs>>,
         IsChannel(inbox'),
         \A m \in Elements(inbox') : m \in Elements(inbox) \/ MsgOK(m, panel', runs)
  PROVE  MenuInv'
<1>1. \A m \in Elements(inbox) : MsgOK(m, panel', runs)
  BY MessagesStayOK DEF MenuInv, PanelOK
<1> QED BY <1>1 DEF MenuInv, DaemonOK

LEMMA PlainMessages ==
  ASSUME NEW m, NEW p, NEW r,
         \/ m.kind \in {"owner", "unwatched", "back", "gone"}
         \/ m.kind = "signal" /\ m.signal \in {"items", "config", "menu"}
  PROVE  MsgOK(m, p, r)
BY DEF MsgOK

LEMMA WatchNameMenu == ASSUME MenuInv, WatchName PROVE MenuInv'
<1>1. PanelOK(panel', runs) /\ Follows(panel, panel')
  BY ClientMoves DEF WatchName, MenuInv
<1>2. IsChannel(inbox') /\ Elements(inbox') = Elements(inbox) \cup {[kind |-> "owner", up |-> up]}
  BY Sent, ElementsSent DEF WatchName, MenuInv
<1>3. UNCHANGED <<items, runs>>
  BY DEF WatchName, daemonVars
<1> QED BY <1>1, <1>2, <1>3, PlainMessages, TurnKeeps

LEMMA DeliverMenu == ASSUME MenuInv, Deliver PROVE MenuInv'
<1> DEFINE msg == Head(inbox)
<1>1. PanelOK(panel, runs) /\ MsgOK(msg, panel, runs)
  BY ElementsTaken DEF Deliver, MenuInv
<1>2. PanelOK(panel', runs) /\ Follows(panel, panel')
  <2>1. CASE msg.kind = "owner"
    BY <1>1, <2>1, OwnerKnownKeeps DEF Deliver
  <2>2. CASE msg.kind = "back"
    BY <1>1, <2>2, NameAppearedKeeps DEF Deliver
  <2>3. CASE msg.kind = "gone"
    BY <1>1, <2>3, NameVanishedKeeps DEF Deliver
  <2>4. CASE msg.kind = "signal"
    <3>1. msg.signal \in {"items", "config", "menu"} /\ panel' = Heard(panel, msg)
      BY <1>1, <2>4 DEF Deliver, MsgOK
    <3> QED BY <1>1, <3>1, HeardKeeps
  <2>5. CASE msg.kind = "reply"
    <3>1. panel' \in Resumed(panel, msg)
      BY <2>5 DEF Deliver
    <3> QED BY <1>1, <2>5, <3>1, ResumedKeeps
  <2>6. CASE msg.kind = "unwatched"
    <3>1. panel' = panel
      BY <2>6 DEF Deliver
    <3> QED BY <1>1, <3>1 DEF Follows, PanelOK
  <2> QED BY <1>1, <2>1, <2>2, <2>3, <2>4, <2>5, <2>6 DEF MsgOK
<1>3. IsChannel(inbox') /\ Elements(inbox') \subseteq Elements(inbox)
  BY Taken, ElementsTaken DEF Deliver, MenuInv
<1>4. UNCHANGED <<items, runs>>
  BY DEF Deliver, daemonVars
<1> QED BY <1>2, <1>3, <1>4, TurnKeeps

-----------------------------------------------------------------------------
LEMMA ReadMenuMenu == ASSUME MenuInv, ReadMenu PROVE MenuInv'
<1>1. PICK n \in DOMAIN panel.calls :
        /\ panel.calls[n].kind = "GetMenu"
        /\ panel.calls[n].key \in DOMAIN items
        /\ panel' = [panel EXCEPT !.calls[n].menu = items[panel.calls[n].key]]
  BY DEF ReadMenu
<1> DEFINE c == panel.calls[n]
           d == [c EXCEPT !.menu = items[c.key]]
           calls == [panel.calls EXCEPT ![n] = d]
<1>2. IsPanel(panel) /\ IsChannel(panel.calls) /\ panel.made \in Nat
  BY DEF MenuInv, PanelOK
<1>3. panel' = [panel EXCEPT !.calls = calls]
  BY <1>1, <1>2 DEF IsPanel
<1>4. IsMenuCall(c) /\ c.id <= panel.made
  BY <1>1 DEF MenuInv, PanelOK, CallOK, Elements
<1>5. items[c.key] = runs[c.key] /\ items[c.key] \in Nat
  BY <1>1 DEF MenuInv, DaemonOK, IsList
<1>6. IsMenuCall(d) /\ d.kind = "GetMenu" /\ d.key = c.key /\ d.id = c.id /\ d.menu = runs[c.key]
  BY <1>4, <1>5 DEF IsMenuCall
<1> HIDE DEF d
<1>7. Suits(panel, d, d.menu)
  <2> SUFFICES ASSUME NEW k \in DOMAIN panel.shown, k = c.key
               PROVE  runs[c.key] >= panel.shown[k].born
    BY <1>6 DEF Suits
  <2>1. panel.shown[k].born \in Nat /\ panel.shown[k].born <= runs[k]
    BY DEF MenuInv, PanelOK, ShownOK, IsIndicator
  <2> QED BY <1>5, <2>1
<1>8. IsChannel(calls) /\ \A e \in Elements(calls) : e \in Elements(panel.calls) \/ e = d
  <2>1. Len(panel.calls) \in Nat /\ DOMAIN panel.calls = 1 .. Len(panel.calls)
    BY <1>2, ChannelFacts
  <2>2. calls = [k \in 1 .. Len(panel.calls) |-> calls[k]] /\ DOMAIN calls = DOMAIN panel.calls
    BY <2>1
  <2>3. \A k \in DOMAIN calls : calls[k] = panel.calls[k] \/ calls[k] = d
    BY <2>1
  <2> HIDE DEF calls
  <2>4. IsChannel(calls)
    BY <2>1, <2>2, Numbered
  <2> QED BY <2>2, <2>3, <2>4 DEF Elements
<1> HIDE DEF calls, c
<1>9. /\ IsPanel(panel') /\ panel'.calls = calls /\ panel'.shown = panel.shown
      /\ panel'.made = panel.made /\ panel'.client = panel.client
  BY <1>2, <1>3 DEF IsPanel
<1>10. Follows(panel, panel')
  BY <1>2, <1>9 DEF Follows
<1>11. PanelOK(panel', runs)
  <2>1. ShownOK(panel', runs)
    BY <1>9 DEF MenuInv, PanelOK, ShownOK
  <2>2. CallOK(panel', d)
    BY <1>4, <1>6, <1>7, <1>9 DEF CallOK, Suits
  <2>3. \A e \in Elements(panel.calls) : CallOK(panel', e)
    BY <1>2, <1>10, CallsStayOK DEF MenuInv, PanelOK
  <2> QED BY <1>8, <1>9, <2>1, <2>2, <2>3 DEF MenuInv, PanelOK
<1> QED BY <1>10, <1>11, TurnKeeps DEF ReadMenu, MenuInv, daemonVars

LEMMA CallsDrop ==
  ASSUME NEW p, NEW r, PanelOK(p, r), NEW calls, IsChannel(calls),
         Elements(calls) \subseteq Elements(p.calls), NEW q, q = [p EXCEPT !.calls = calls]
  PROVE  /\ PanelOK(q, r) /\ Follows(p, q) /\ q.calls = calls
         /\ q.client = p.client /\ q.leftover = p.leftover /\ q.shown = p.shown
         /\ q.placeholder = p.placeholder
<1>1. /\ IsPanel(q) /\ q.calls = calls /\ q.shown = p.shown /\ q.made = p.made
      /\ q.client = p.client /\ q.leftover = p.leftover /\ q.placeholder = p.placeholder
  BY DEF PanelOK, IsPanel
<1>2. Follows(p, q)
  BY <1>1 DEF PanelOK, Follows
<1>3. ShownOK(q, r) /\ \A c \in Elements(calls) : CallOK(q, c)
  BY <1>1 DEF PanelOK, ShownOK, CallOK, Suits
<1> QED BY <1>1, <1>2, <1>3 DEF PanelOK

LEMMA AnswerMenu == ASSUME MenuInv, Answer PROVE MenuInv'
<1>0. PICK n \in DOMAIN panel.calls : \E msg \in Reply(panel.calls[n]) :
        /\ inbox' = Append(inbox, msg)
        /\ panel' = [panel EXCEPT !.calls = RemoveAt(panel.calls, n)]
  BY DEF Answer, MenuInv, PanelOK, IsPanel
<1>1. PICK msg \in Reply(panel.calls[n]) :
        /\ inbox' = Append(inbox, msg)
        /\ panel' = [panel EXCEPT !.calls = RemoveAt(panel.calls, n)]
  BY <1>0
<1>2. PanelOK(panel, runs) /\ IsChannel(panel.calls) /\ CallOK(panel, panel.calls[n])
  BY DEF MenuInv, PanelOK, Elements
<1>3. PanelOK(panel', runs) /\ Follows(panel, panel')
  BY <1>1, <1>2, ElementsRemoved, CallsDrop
<1>4. MsgOK(msg, panel, runs)
  <2> DEFINE c == panel.calls[n]
  <2>1. CASE msg = [kind |-> "reply", call |-> c, failed |-> TRUE]
    BY <1>2, <2>1 DEF MsgOK
  <2>2. ASSUME NEW v, msg = [kind |-> "reply", call |-> c, failed |-> FALSE, value |-> v],
               \/ c.kind = "GetConfig"
               \/ c.kind = "ListItems" /\ v = items
               \/ c.kind = "GetMenu" /\ v = c.menu
        PROVE  MsgOK(msg, panel, runs)
    <3>1. msg.kind = "reply" /\ msg.call = c /\ msg.value = v
      BY <2>2
    <3>2. c.kind = "ListItems" => IsList(v, runs)
      BY <2>2 DEF MenuInv, DaemonOK
    <3>3. c.kind = "GetMenu" => v \in Nat /\ Suits(panel, c, v)
      BY <1>2, <2>2 DEF CallOK, IsMenuCall
    <3> HIDE DEF c
    <3> QED BY <1>2, <3>1, <3>2, <3>3 DEF MsgOK, c
  <2>3. c.kind \in {"GetConfig", "ListItems", "GetMenu"}
    BY <1>2 DEF CallOK
  <2>4. \/ msg = [kind |-> "reply", call |-> c, failed |-> TRUE]
        \/ /\ c.kind = "GetConfig"
           /\ msg = [kind |-> "reply", call |-> c, failed |-> FALSE, value |-> config]
        \/ /\ c.kind = "ListItems"
           /\ msg = [kind |-> "reply", call |-> c, failed |-> FALSE, value |-> items]
        \/ /\ c.kind = "GetMenu"
           /\ msg = [kind |-> "reply", call |-> c, failed |-> FALSE, value |-> c.menu]
    <3> HIDE DEF c
    <3>1. msg \in Reply(c)
      BY <1>1 DEF c
    <3> QED BY <2>3, <3>1 DEF Reply
  <2> QED BY <2>1, <2>2, <2>4
<1>5. MsgOK(msg, panel', runs)
  BY <1>2, <1>3, <1>4, MessagesStayOK DEF PanelOK
<1>6. IsChannel(inbox') /\ Elements(inbox') = Elements(inbox) \cup {msg}
  BY <1>1, Sent, ElementsSent DEF MenuInv
<1> QED BY <1>3, <1>5, <1>6, TurnKeeps DEF Answer, daemonVars

(* The daemon speaks, the panel is as it was. *)
LEMMA SignalKeeps ==
  ASSUME MenuInv, DaemonOK', panel' = panel, NEW m, MsgOK(m, panel, runs'),
         inbox' = Append(inbox, m), \A k \in Keys : runs'[k] >= runs[k]
  PROVE  MenuInv'
<1>1. ASSUME NEW f, IsList(f, runs)
      PROVE  IsList(f, runs')
  <2>1. \A k \in DOMAIN f : f[k] \in Nat /\ runs[k] \in Nat /\ runs'[k] \in Nat /\ f[k] <= runs[k]
    BY <1>1 DEF IsList, MenuInv, DaemonOK
  <2>2. \A k \in DOMAIN f : f[k] <= runs'[k]
    BY <1>1, <2>1 DEF IsList
  <2> QED BY <1>1, <2>1, <2>2 DEF IsList
<1>2. \A e \in Elements(inbox) : MsgOK(e, panel, runs')
  BY <1>1 DEF MenuInv, MsgOK
<1>3. IsChannel(inbox') /\ Elements(inbox') = Elements(inbox) \cup {m}
  BY Sent, ElementsSent DEF MenuInv
<1>4. PanelOK(panel, runs')
  <2>1. ASSUME NEW k \in DOMAIN panel.shown
        PROVE  panel.shown[k].born <= runs'[k]
    <3>1. panel.shown[k].born \in Nat /\ panel.shown[k].born <= runs[k] /\ k \in Keys
      BY DEF MenuInv, PanelOK, ShownOK, IsIndicator
    <3>2. runs[k] \in Nat /\ runs'[k] \in Nat /\ runs'[k] >= runs[k]
      BY <3>1 DEF MenuInv, DaemonOK
    <3> QED BY <3>1, <3>2
  <2> QED BY <2>1 DEF MenuInv, PanelOK, ShownOK
<1> QED BY <1>2, <1>3, <1>4 DEF MenuInv

LEMMA ItemAppearsMenu == ASSUME MenuInv, NEW k \in Keys, ItemAppears(k) PROVE MenuInv'
<1>1. /\ runs' \in [Keys -> Nat] /\ \A j \in Keys : runs'[j] >= runs[j]
      /\ \A j \in Keys : j # k => runs'[j] = runs[j]
  BY DEF ItemAppears, MenuInv, DaemonOK
<1>2. IsFiniteSet(DOMAIN items) /\ DOMAIN items \subseteq Keys
  BY DEF MenuInv, DaemonOK, IsList
<1>3. items' = [j \in DOMAIN items \cup {k} |-> runs'[j]] /\ IsFiniteSet(DOMAIN items \cup {k})
  BY <1>2, FS_AddElement DEF ItemAppears
<1>4. DOMAIN items' = DOMAIN items \cup {k} /\ \A j \in DOMAIN items' : items'[j] = runs'[j]
  BY <1>3
<1>5. DaemonOK'
  BY <1>1, <1>2, <1>3, <1>4 DEF DaemonOK, IsList
<1>6. panel' = panel /\ inbox' = Append(inbox, [kind |-> "signal", signal |-> "items"])
  BY DEF ItemAppears, Says
<1> QED BY <1>1, <1>5, <1>6, PlainMessages, SignalKeeps

LEMMA ItemGoesMenu == ASSUME MenuInv, NEW k \in Keys, ItemGoes(k) PROVE MenuInv'
<1>1. DOMAIN items' = DOMAIN items \ {k} /\ \A j \in DOMAIN items' : items'[j] = items[j]
  BY DEF ItemGoes
<1>2. IsFiniteSet(DOMAIN items')
  BY <1>1, FS_Subset DEF MenuInv, DaemonOK, IsList
<1>3. runs' = runs
  BY DEF ItemGoes
<1>4. DaemonOK'
  BY <1>1, <1>2, <1>3 DEF MenuInv, DaemonOK, IsList
<1>5. panel' = panel /\ inbox' = Append(inbox, [kind |-> "signal", signal |-> "items"])
  BY DEF ItemGoes, Says
<1>6. \A j \in Keys : runs'[j] >= runs[j]
  BY <1>3 DEF MenuInv, DaemonOK
<1> QED BY <1>4, <1>5, <1>6, PlainMessages, SignalKeeps

LEMMA OtherSignalsMenu ==
  ASSUME MenuInv,
         (\E k \in Keys : MenuChanges(k)) \/ \E c \in Configs : ConfigChanges(c)
  PROVE  MenuInv'
<1>1. /\ UNCHANGED <<items, runs, panel>>
      /\ \E m : /\ inbox' = Append(inbox, m)
                /\ \/ m.kind \in {"owner", "unwatched", "back", "gone"}
                   \/ m.kind = "signal" /\ m.signal \in {"items", "config", "menu"}
  <2>1. ASSUME NEW k \in Keys, MenuChanges(k)
        PROVE  /\ UNCHANGED <<items, runs, panel>>
               /\ inbox' = Append(inbox, [kind |-> "signal", signal |-> "menu", key |-> k])
    BY <2>1 DEF MenuChanges, daemonVars
  <2>2. ASSUME NEW c \in Configs, ConfigChanges(c)
        PROVE  /\ UNCHANGED <<items, runs, panel>>
               /\ inbox' = Append(inbox, [kind |-> "signal", signal |-> "config"])
    BY <2>2 DEF ConfigChanges, Says
  <2>3. CASE \E k \in Keys : MenuChanges(k)
    <3>1. PICK k \in Keys : MenuChanges(k)
      BY <2>3
    <3> DEFINE m == [kind |-> "signal", signal |-> "menu", key |-> k]
    <3>2. m.kind = "signal" /\ m.signal = "menu"
      OBVIOUS
    <3> HIDE DEF m
    <3> QED BY <2>1, <3>1, <3>2 DEF m
  <2>4. CASE \E c \in Configs : ConfigChanges(c)
    <3> DEFINE m == [kind |-> "signal", signal |-> "config"]
    <3>1. m.kind = "signal" /\ m.signal = "config"
      OBVIOUS
    <3> HIDE DEF m
    <3> QED BY <2>2, <2>4, <3>1 DEF m
  <2> QED BY <2>3, <2>4
<1>2. DaemonOK' /\ \A j \in Keys : runs'[j] >= runs[j]
  BY <1>1 DEF MenuInv, DaemonOK
<1> QED BY <1>1, <1>2, PlainMessages, SignalKeeps

LEMMA DaemonStartsMenu == ASSUME MenuInv, DaemonStarts PROVE MenuInv'
<1> DEFINE m == [kind |-> "back"]
<1>1. /\ items' = NoItems /\ runs' = runs /\ panel' = panel
      /\ inbox' = Append(inbox, m) /\ MsgOK(m, panel, runs')
  BY DEF DaemonStarts, MsgOK
<1>2. DOMAIN items' = {}
  BY <1>1 DEF NoItems
<1>3. DaemonOK'
  BY <1>1, <1>2, FS_EmptySet DEF MenuInv, DaemonOK, IsList
<1>4. \A k \in Keys : runs'[k] >= runs[k]
  BY <1>1 DEF MenuInv, DaemonOK
<1> HIDE DEF m
<1> QED BY <1>1, <1>3, <1>4, SignalKeeps

(* What the daemon's exit sends to the shell. *)
Failures ==
  [n \in DOMAIN panel.calls |-> [kind |-> "reply", call |-> panel.calls[n], failed |-> TRUE]]

LEMMA ExitSends ==
  ASSUME MenuInv, DaemonExits
  PROVE  /\ IsChannel(Failures) /\ Len(Failures) = Len(panel.calls)
         /\ IsChannel(inbox \o Failures)
         /\ inbox' = Append(inbox \o Failures, [kind |-> "gone"]) /\ IsChannel(inbox')
         /\ \A m \in Elements(Failures) : \E c \in Elements(panel.calls) :
              m = [kind |-> "reply", call |-> c, failed |-> TRUE]
<1>1. IsChannel(inbox) /\ IsChannel(panel.calls)
  BY DEF MenuInv, PanelOK
<1>2. Len(panel.calls) \in Nat /\ DOMAIN panel.calls = 1 .. Len(panel.calls)
  BY <1>1, ChannelFacts
<1>3. /\ Failures = [n \in 1 .. Len(panel.calls) |-> Failures[n]]
      /\ \A n \in 1 .. Len(panel.calls) :
           Failures[n] = [kind |-> "reply", call |-> panel.calls[n], failed |-> TRUE]
  BY <1>2 DEF Failures
<1>4. IsChannel(Failures) /\ Len(Failures) = Len(panel.calls)
  BY <1>2, <1>3, Numbered
<1>5. IsChannel(inbox \o Failures)
  BY <1>1, <1>4, Joined
<1> DEFINE last == [kind |-> "gone"]
<1>6. inbox' = (inbox \o Failures) \o <<last>>
  BY DEF DaemonExits, Failures
<1>7. IsChannel(<<last>>) /\ Len(<<last>>) = 1 /\ <<last>>[1] = last
  BY OneMessage
<1> HIDE DEF last
<1>8. inbox' = Append(inbox \o Failures, last)
  BY <1>5, <1>6, <1>7, JoinedOne
<1>9. IsChannel(inbox')
  BY <1>5, <1>8, Sent
<1>10. DOMAIN Failures = 1 .. Len(panel.calls)
  BY <1>4, ChannelFacts
<1> QED BY <1>2, <1>3, <1>4, <1>5, <1>8, <1>9, <1>10 DEF Elements, last

LEMMA DaemonExitsMenu == ASSUME MenuInv, DaemonExits PROVE MenuInv'
<1>1. PanelOK(panel, runs) /\ IsChannel(inbox) /\ IsChannel(panel.calls)
  BY DEF MenuInv, PanelOK
<1>2. PanelOK(panel', runs) /\ Follows(panel, panel')
  <2>1. IsChannel(<<>>) /\ Elements(<<>>) = {}
    BY EmptyChannel DEF Elements
  <2> QED BY <1>1, <2>1, CallsDrop DEF DaemonExits
<1>3. ASSUME NEW m \in Elements(inbox')
      PROVE  m \in Elements(inbox) \/ MsgOK(m, panel', runs)
  <2>1. m \in Elements(inbox) \/ m \in Elements(Failures) \/ m = [kind |-> "gone"]
    <3> DEFINE last == [kind |-> "gone"]
               all  == inbox \o Failures
    <3>1. IsChannel(all) /\ inbox' = Append(all, last)
      BY ExitSends
    <3>2. Elements(all) = Elements(inbox) \cup Elements(Failures)
      BY <1>1, ExitSends, ElementsJoined
    <3> HIDE DEF last, all
    <3>3. Elements(inbox') = Elements(all) \cup {last}
      BY <3>1, ElementsSent
    <3> QED BY <1>3, <3>2, <3>3 DEF last
  <2>2. ASSUME NEW c \in Elements(panel.calls), m = [kind |-> "reply", call |-> c, failed |-> TRUE]
        PROVE  MsgOK(m, panel', runs)
    <3>1. CallOK(panel', c)
      BY <1>1, <1>2, CallsStayOK DEF PanelOK
    <3> QED BY <2>2, <3>1 DEF MsgOK
  <2> QED BY <2>1, <2>2, ExitSends, PlainMessages
<1>4. UNCHANGED <<items, runs>>
  BY DEF DaemonExits
<1> QED BY <1>2, <1>3, <1>4, ExitSends, TurnKeeps

-----------------------------------------------------------------------------
(* What disabling does to the panel and to the messages. *)
LEMMA DisableClears ==
  ASSUME NEW r, PanelOK(panel, r), Disable
  PROVE  /\ PanelOK(panel', r) /\ Follows(panel, panel')
         /\ panel'.client = "none" /\ panel'.shown = NoItems /\ panel'.placeholder = FALSE
         /\ panel'.leftover = panel.leftover /\ panel'.calls = panel.calls
<1> DEFINE a == [panel EXCEPT !.client = "none"]
           b == [a EXCEPT !.config = Unknown]
<1>1. panel' = RemoveAll(b)
  BY DEF Disable
<1>2. /\ PanelOK(a, r) /\ Follows(panel, a) /\ a.client = "none" /\ a.leftover = panel.leftover
      /\ a.calls = panel.calls
  BY ClientMoves
<1> HIDE DEF a
<1>3. Asks(a, b) /\ b.calls = a.calls
  BY <1>2, MarksAsk DEF PanelOK, IsPanel
<1>4. PanelOK(b, r) /\ Follows(a, b)
  BY <1>2, <1>3, AsksKeeps
<1>5. b.client = "none" /\ b.leftover = panel.leftover /\ b.calls = panel.calls
  BY <1>2, <1>3 DEF Asks
<1> HIDE DEF b
<1>6. Follows(panel, b)
  BY <1>2, <1>4, FollowsTwice DEF PanelOK
<1>7. PanelOK(panel', r) /\ Follows(b, panel')
  BY <1>1, <1>4, RemoveAllKeeps
<1>8. Follows(panel, panel')
  BY <1>6, <1>7, FollowsTwice DEF PanelOK
<1> QED BY <1>1, <1>4, <1>5, <1>7, <1>8, RemoveAllKeeps

LEMMA DisableUnwatches ==
  ASSUME IsChannel(inbox), Disable
  PROVE  /\ IsChannel(inbox') /\ Len(inbox') = Len(inbox)
         /\ \A n \in 1 .. Len(inbox) :
              inbox'[n] = IF inbox[n].kind = "owner" THEN [kind |-> "unwatched"] ELSE inbox[n]
<1>1. Len(inbox) \in Nat /\ DOMAIN inbox = 1 .. Len(inbox)
  BY ChannelFacts
<1>2. inbox' = [n \in 1 .. Len(inbox) |->
                  IF inbox[n].kind = "owner" THEN [kind |-> "unwatched"] ELSE inbox[n]]
  BY <1>1 DEF Disable
<1>3. inbox' = [n \in 1 .. Len(inbox) |-> inbox'[n]]
  BY <1>2
<1> QED BY <1>1, <1>2, <1>3, Numbered

LEMMA DisableMenu == ASSUME MenuInv, Disable PROVE MenuInv'
<1>1. PanelOK(panel, runs) /\ IsChannel(inbox)
  BY DEF MenuInv
<1>2. PanelOK(panel', runs) /\ Follows(panel, panel')
  BY <1>1, DisableClears
<1>3. IsChannel(inbox')
  BY <1>1, DisableUnwatches
<1>4. ASSUME NEW m \in Elements(inbox')
      PROVE  m \in Elements(inbox) \/ MsgOK(m, panel', runs)
  <2>1. Len(inbox) \in Nat /\ DOMAIN inbox = 1 .. Len(inbox) /\ DOMAIN inbox' = 1 .. Len(inbox)
    BY <1>1, <1>3, ChannelFacts, DisableUnwatches
  <2>2. PICK n \in 1 .. Len(inbox) : m = inbox'[n]
    BY <2>1 DEF Elements
  <2>3. m = inbox[n] \/ m = [kind |-> "unwatched"]
    BY <1>1, <2>2, DisableUnwatches
  <2> QED BY <2>1, <2>3, PlainMessages DEF Elements
<1>5. UNCHANGED <<items, runs>>
  BY DEF Disable, daemonVars
<1> QED BY <1>2, <1>3, <1>4, <1>5, TurnKeeps

LEMMA EnableClears ==
  ASSUME NEW r, PanelOK(panel, r), Enable
  PROVE  /\ PanelOK(panel', r) /\ Follows(panel, panel')
         /\ panel'.client = "new" /\ panel'.shown = NoItems /\ panel'.placeholder = FALSE
         /\ panel'.leftover = panel.leftover \cup DOMAIN panel.shown
         /\ panel'.calls = panel.calls
<1>1. panel' = [FirstPanel EXCEPT !.made = panel.made, !.calls = panel.calls,
                                  !.leftover = panel.leftover \cup DOMAIN panel.shown]
  BY DEF Enable
<1>2. /\ IsPanel(panel') /\ panel'.client = "new" /\ panel'.shown = NoItems
      /\ panel'.placeholder = FALSE /\ panel'.calls = panel.calls /\ panel'.made = panel.made
      /\ panel'.leftover = panel.leftover \cup DOMAIN panel.shown
  BY <1>1 DEF FirstPanel, IsPanel
<1>3. DOMAIN panel'.shown = {}
  BY <1>2 DEF NoItems
<1>4. Follows(panel, panel')
  BY <1>2, <1>3 DEF Follows, PanelOK
<1>5. \A c \in Elements(panel.calls) : CallOK(panel', c)
  BY <1>4, CallsStayOK DEF PanelOK
<1>6. PanelOK(panel', r)
  BY <1>2, <1>3, <1>5 DEF PanelOK, ShownOK
<1> QED BY <1>2, <1>4, <1>6

LEMMA EnableMenu == ASSUME MenuInv, Enable PROVE MenuInv'
<1>1. PanelOK(panel', runs) /\ Follows(panel, panel')
  BY EnableClears DEF MenuInv
<1> QED BY <1>1, TurnKeeps DEF MenuInv, Enable, daemonVars

LEMMA MenuStep == ASSUME MenuInv, [Next]_vars PROVE MenuInv'
<1>1. CASE World
  BY <1>1, ItemAppearsMenu, ItemGoesMenu, OtherSignalsMenu, DaemonStartsMenu, DaemonExitsMenu, DisableMenu,
     EnableMenu DEF World
<1>2. CASE ReadMenu \/ Answer
  BY <1>2, ReadMenuMenu, AnswerMenu
<1>3. CASE Deliver \/ WatchName
  BY <1>3, DeliverMenu, WatchNameMenu
<1>4. CASE UNCHANGED vars
  BY <1>4 DEF vars, daemonVars, MenuInv, DaemonOK
<1> QED BY <1>1, <1>2, <1>3, <1>4 DEF Next

(* The picture of menus holds of every panel there can be.                 *)
LEMMA MenuInvariant == Spec => []MenuInv
BY InitMenu, MenuStep, PTL DEF Spec

(* An indicator never shows a menu of an application that had its key      *)
(* before the one it was made for, though calls of indicators destroyed    *)
(* since are still answered (_refreshMenu, extension.js).                  *)
THEOREM MenusStayWithTheirIndicator == Spec => []MenusAreNotInherited
<1>1. MenuInv => MenusAreNotInherited
  BY DEF MenuInv, PanelOK, ShownOK, IsIndicator, MenusAreNotInherited
<1> QED BY <1>1, MenuInvariant, PTL

-----------------------------------------------------------------------------
Presence == {"owner", "back", "gone"}

SaysUp(m) == m.kind = "back" \/ (m.kind = "owner" /\ m.up)

(* Whether a client at c will take the daemon to be there when it has      *)
(* handled the first n messages of s.                                      *)
Known(c, s, n) ==
  \/ /\ c = "on"
     /\ \A m \in 1 .. n : s[m].kind \notin Presence
  \/ \E m \in 1 .. n : /\ SaysUp(s[m])
                       /\ \A j \in m + 1 .. n : s[j].kind \notin Presence

IsListing(m) == m.kind = "reply" /\ m.call.kind = "ListItems"

(* A client that watches the name will know in the end whether the daemon  *)
(* is there (u), and a list of items finds it connected.                   *)
Order(c, s, u) ==
  /\ c \in {"asked", "off", "on"} => (Known(c, s, Len(s)) <=> u)
  /\ \A n \in 1 .. Len(s) : IsListing(s[n]) /\ ~s[n].failed => Known(c, s, n - 1)

(* The owner is on its way to a client that has asked for it, once.        *)
Owner(c, s) ==
  /\ c = "asked" => \E n \in 1 .. Len(s) : s[n].kind = "owner"
  /\ \A n \in 1 .. Len(s) : s[n].kind = "owner" => c = "asked"
  /\ \A m, n \in 1 .. Len(s) : s[m].kind = "owner" /\ s[n].kind = "owner" => m = n

Unlisted(calls, s) ==
  /\ \A c \in Elements(calls) : c.kind # "ListItems"
  /\ \A m \in Elements(s) : ~IsListing(m)

AloneInv ==
  /\ up \in BOOLEAN
  /\ Order(panel.client, inbox, up) /\ Owner(panel.client, inbox)
  /\ panel.client \notin {"off", "on"} => Unlisted(panel.calls, inbox)
  /\ panel.leftover = {}
  /\ panel.client # "on" => panel.shown = NoItems /\ panel.placeholder = FALSE

-----------------------------------------------------------------------------
(* What is said of the daemon's presence decides, and the last word does.  *)
LEMMA KnownAlike ==
  ASSUME NEW c, NEW s, NEW t, NEW n \in Nat, \A m \in 1 .. n : s[m] = t[m]
  PROVE  Known(c, s, n) <=> Known(c, t, n)
<1>1. \A m \in 1 .. n : \A j \in m + 1 .. n : j \in 1 .. n
  OBVIOUS
<1> QED BY <1>1 DEF Known, SaysUp

LEMMA KnownStays ==
  ASSUME NEW c, NEW s, NEW n \in Nat, NEW l \in Nat, l <= n,
         \A m \in l + 1 .. n : s[m].kind \notin Presence
  PROVE  Known(c, s, n) <=> Known(c, s, l)
<1>1. \A m : SaysUp(m) => m.kind \in Presence
  BY DEF SaysUp, Presence
<1>2. 1 .. l \subseteq 1 .. n /\ \A m \in 1 .. n : m \in 1 .. l \/ m \in l + 1 .. n
  OBVIOUS
<1>3. \A m \in 1 .. l : \A j \in m + 1 .. n : j \in m + 1 .. l \/ j \in l + 1 .. n
  OBVIOUS
<1>4. \A m \in 1 .. l : m + 1 .. l \subseteq m + 1 .. n
  OBVIOUS
<1> HIDE DEF Presence
<1> QED BY <1>1, <1>2, <1>3, <1>4 DEF Known

LEMMA KnownLast ==
  ASSUME NEW c, NEW s, NEW n \in Nat, n > 0, s[n].kind \in Presence
  PROVE  Known(c, s, n) <=> SaysUp(s[n])
<1>1. n \in 1 .. n /\ n + 1 .. n = {}
  OBVIOUS
<1>2. \A m \in 1 .. n : m = n \/ n \in m + 1 .. n
  OBVIOUS
<1> QED BY <1>1, <1>2 DEF Known

(* Handling the first message.                                             *)
LEMMA KnownTaken ==
  ASSUME NEW c, NEW d, NEW s, IsChannel(s), s # <<>>, NEW n \in 0 .. Len(s) - 1,
         \/ d = "on" <=> IF s[1].kind \in Presence THEN SaysUp(s[1]) ELSE c = "on"
         \/ \E m \in 2 .. n + 1 : s[m].kind \in Presence
  PROVE  Known(d, Tail(s), n) <=> Known(c, s, n + 1)
<1> DEFINE t == Tail(s)
<1>1. Len(s) \in Nat /\ Len(s) > 0 /\ n \in Nat /\ \A m \in 1 .. Len(s) - 1 : t[m] = s[m + 1]
  BY Taken
<1>2. \A m \in 1 .. n : m + 1 \in 2 .. n + 1 /\ t[m] = s[m + 1]
  BY <1>1
<1>3. \A m \in 2 .. n + 1 : m - 1 \in 1 .. n /\ t[m - 1] = s[m] /\ (m - 1) + 1 = m
  BY <1>1
<1>4. 1 \in 1 .. n + 1 /\ \A m \in 1 .. n + 1 : m = 1 \/ m \in 2 .. n + 1
  BY <1>1
<1>5. 2 .. n + 1 \subseteq 1 .. n + 1 /\ 1 + 1 = 2
  BY <1>1
<1> HIDE DEF t
<1> DEFINE Silent(m) == \A j \in m + 1 .. n + 1 : s[j].kind \notin Presence
<1>6. ASSUME NEW m \in 1 .. n
      PROVE  (\A j \in m + 1 .. n : t[j].kind \notin Presence) <=> Silent(m + 1)
  <2>1. \A j \in m + 1 .. n : j + 1 \in (m + 1) + 1 .. n + 1 /\ t[j] = s[j + 1]
    BY <1>1, <1>2
  <2>2. \A j \in (m + 1) + 1 .. n + 1 : j - 1 \in m + 1 .. n /\ t[j - 1] = s[j]
    BY <1>1, <1>3
  <2> QED BY <2>1, <2>2
<1>7. (\E m \in 1 .. n : SaysUp(t[m]) /\ \A j \in m + 1 .. n : t[j].kind \notin Presence)
        <=> \E m \in 2 .. n + 1 : SaysUp(s[m]) /\ Silent(m)
  BY <1>2, <1>3, <1>6
<1>8. (\A m \in 1 .. n : t[m].kind \notin Presence) <=> Silent(1)
  BY <1>2, <1>3, <1>5
<1>9. Known(d, t, n) <=> \/ d = "on" /\ Silent(1)
                         \/ \E m \in 2 .. n + 1 : SaysUp(s[m]) /\ Silent(m)
  BY <1>7, <1>8 DEF Known
<1>10. Known(c, s, n + 1) <=> \/ c = "on" /\ s[1].kind \notin Presence /\ Silent(1)
                              \/ SaysUp(s[1]) /\ Silent(1)
                              \/ \E m \in 2 .. n + 1 : SaysUp(s[m]) /\ Silent(m)
  BY <1>4, <1>5 DEF Known
<1>11. \A m : SaysUp(m) => m.kind \in Presence
  BY DEF SaysUp, Presence
<1>12. (\E m \in 2 .. n + 1 : s[m].kind \in Presence) => ~Silent(1)
  BY <1>5
<1> HIDE DEF Silent
<1> QED BY <1>9, <1>10, <1>11, <1>12 DEF t

-----------------------------------------------------------------------------
(* A message is sent: of the daemon's presence, or of something else.      *)
LEMMA OrderSent ==
  ASSUME NEW c, NEW d, NEW s, IsChannel(s), NEW u \in BOOLEAN, NEW v \in BOOLEAN,
         Order(c, s, u), NEW m, d = "on" <=> c = "on",
         m.kind \in Presence => (SaysUp(m) <=> v),
         m.kind \notin Presence => c = d /\ v = u,
         IsListing(m) /\ ~m.failed => Known(c, s, Len(s))
  PROVE  Order(d, Append(s, m), v)
<1> DEFINE t == Append(s, m)
           l == Len(s)
<1>1. l \in Nat /\ Len(t) = l + 1 /\ t[l + 1] = m /\ \A n \in 1 .. l : t[n] = s[n]
  BY Sent, ChannelFacts
<1> HIDE DEF t, l
<1>2. ASSUME NEW n \in 0 .. l
      PROVE  Known(d, t, n) <=> Known(c, s, n)
  <2>1. n \in Nat /\ \A i \in 1 .. n : s[i] = t[i]
    BY <1>1, <1>2
  <2>2. Known(d, t, n) <=> Known(c, t, n)
    BY DEF Known
  <2> QED BY <2>1, <2>2, KnownAlike
<1>3. d \in {"asked", "off", "on"} => (Known(d, t, l + 1) <=> v)
  <2>1. CASE m.kind \in Presence
    <3>1. Known(d, t, l + 1) <=> SaysUp(m)
      BY <1>1, <2>1, KnownLast
    <3> QED BY <2>1, <3>1
  <2>2. CASE m.kind \notin Presence
    <3>1. \A n \in l + 1 .. l + 1 : t[n].kind \notin Presence
      BY <1>1, <2>2
    <3>2. Known(d, t, l + 1) <=> Known(d, t, l)
      BY <1>1, <3>1, KnownStays
    <3>3. Known(d, t, l) <=> Known(c, s, l)
      BY <1>1, <1>2
    <3> QED BY <2>2, <3>2, <3>3 DEF Order, l
  <2> QED BY <2>1, <2>2
<1>4. ASSUME NEW n \in 1 .. l + 1, IsListing(t[n]), ~t[n].failed
      PROVE  Known(d, t, n - 1)
  <2>1. n - 1 \in 0 .. l
    BY <1>1
  <2>2. CASE n \in 1 .. l
    <3>1. Known(c, s, n - 1)
      BY <1>1, <1>4, <2>2 DEF Order, l
    <3> QED BY <1>2, <2>1, <3>1
  <2>3. CASE n = l + 1
    <3>1. Known(c, s, l)
      BY <1>1, <1>4, <2>3 DEF l
    <3> QED BY <1>1, <1>2, <2>1, <2>3, <3>1
  <2> QED BY <1>1, <2>2, <2>3
<1> QED BY <1>1, <1>3, <1>4 DEF Order, t

LEMMA OwnerSent ==
  ASSUME NEW c, NEW s, IsChannel(s), Owner(c, s), NEW m, m.kind # "owner"
  PROVE  Owner(c, Append(s, m))
<1> DEFINE t == Append(s, m)
           l == Len(s)
<1>1. l \in Nat /\ Len(t) = l + 1 /\ t[l + 1] = m /\ \A n \in 1 .. l : t[n] = s[n]
  BY Sent, ChannelFacts
<1> HIDE DEF t, l
<1>2. \A n \in 1 .. l + 1 : t[n].kind = "owner" => n \in 1 .. l /\ s[n].kind = "owner"
  BY <1>1
<1>3. \A n \in 1 .. l : n \in 1 .. l + 1 /\ (s[n].kind = "owner" => t[n].kind = "owner")
  BY <1>1
<1> QED BY <1>1, <1>2, <1>3 DEF Owner, t, l

(* Calls fail, the others' replies stay in front.                          *)
LEMMA OrderJoined ==
  ASSUME NEW c, NEW s, IsChannel(s), NEW t, IsChannel(t), NEW u, Order(c, s, u), Owner(c, s),
         \A m \in Elements(t) : m.kind = "reply" /\ m.failed
  PROVE  Order(c, s \o t, u) /\ Owner(c, s \o t)
<1> DEFINE x == s \o t
           l == Len(s)
           k == Len(t)
<1>1. /\ l \in Nat /\ k \in Nat /\ Len(x) = l + k
      /\ \A n \in 1 .. l : x[n] = s[n]
  BY Joined, ChannelFacts
<1>2. \A n \in 1 .. k : x[l + n].kind = "reply" /\ x[l + n].failed
  <2>1. DOMAIN t = 1 .. k
    BY ChannelFacts
  <2> QED BY <2>1, Joined DEF Elements
<1> HIDE DEF x, l, k
<1>3. ASSUME NEW n \in l + 1 .. l + k
      PROVE  x[n].kind = "reply" /\ x[n].failed
  <2>1. n - l \in 1 .. k /\ l + (n - l) = n
    BY <1>1
  <2> QED BY <1>2, <2>1
<1>4. \A n \in l + 1 .. l + k : x[n].kind \notin Presence /\ x[n].kind # "owner"
  BY <1>3 DEF Presence
<1>5. ASSUME NEW n \in 0 .. l
      PROVE  Known(c, x, n) <=> Known(c, s, n)
  <2>1. n \in Nat /\ \A m \in 1 .. n : x[m] = s[m]
    BY <1>1
  <2> QED BY <2>1, KnownAlike
<1>6. Known(c, x, l + k) <=> Known(c, s, l)
  <2>1. Known(c, x, l + k) <=> Known(c, x, l)
    BY <1>1, <1>4, KnownStays
  <2> QED BY <1>1, <1>5, <2>1
<1>7. \A n \in 1 .. l + k : n \in 1 .. l \/ n \in l + 1 .. l + k
  BY <1>1
<1>8. ASSUME NEW n \in 1 .. l + k, IsListing(x[n]), ~x[n].failed
      PROVE  Known(c, x, n - 1)
  <2>1. n \in 1 .. l /\ n - 1 \in 0 .. l /\ x[n] = s[n]
    BY <1>1, <1>3, <1>7, <1>8
  <2>2. Known(c, s, n - 1)
    BY <1>8, <2>1 DEF Order, l
  <2> QED BY <1>5, <2>1, <2>2
<1>9. Order(c, x, u)
  BY <1>1, <1>6, <1>8 DEF Order, l
<1>10. \A n \in 1 .. l + k : x[n].kind = "owner" => n \in 1 .. l /\ s[n].kind = "owner"
  BY <1>1, <1>4, <1>7
<1>11. \A n \in 1 .. l : n \in 1 .. l + k /\ (s[n].kind = "owner" => x[n].kind = "owner")
  BY <1>1
<1>12. Owner(c, x)
  BY <1>1, <1>10, <1>11 DEF Owner, l
<1> QED BY <1>9, <1>12 DEF x

-----------------------------------------------------------------------------
(* Where a client at c is after a message.                                 *)
After(c, m) ==
  CASE m.kind = "owner" -> IF m.up THEN "on" ELSE "off"
    [] m.kind = "back"  -> IF c = "off" THEN "on" ELSE c
    [] m.kind = "gone"  -> IF c = "on" THEN "off" ELSE c
    [] OTHER -> c

LEMMA OrderTaken ==
  ASSUME NEW c \in {"none", "new", "asked", "off", "on"}, NEW s, IsChannel(s), s # <<>>,
         NEW u \in BOOLEAN, Order(c, s, u), Owner(c, s),
         c \notin {"off", "on"} => \A n \in 1 .. Len(s) : ~IsListing(s[n])
  PROVE  /\ Order(After(c, s[1]), Tail(s), u) /\ Owner(After(c, s[1]), Tail(s))
         /\ IsListing(s[1]) /\ ~s[1].failed => c = "on"
<1> DEFINE d == After(c, s[1])
           t == Tail(s)
           l == Len(s)
<1>1. l \in Nat /\ l > 0 /\ Len(t) = l - 1 /\ l - 1 \in 0 .. l - 1
      /\ \A n \in 1 .. l - 1 : t[n] = s[n + 1]
  BY Taken
<1>2. \A n \in 1 .. l - 1 : n + 1 \in 1 .. l /\ n + 1 # 1 /\ n \in 0 .. l - 1 /\ n - 1 \in 0 .. l - 1
  BY <1>1
<1>3. 1 \in 1 .. l
  BY <1>1
<1>4. s[1].kind = "owner" => c = "asked"
  BY <1>3 DEF Owner
<1>5. \/ c \in {"off", "on"} \/ s[1].kind = "owner"
      \/ c = "asked" /\ s[1].kind # "owner" /\ d = "asked"
      \/ c \in {"none", "new"} /\ d = c
  BY <1>4 DEF After
<1>6. c \in {"off", "on"} \/ s[1].kind = "owner" =>
        (d = "on" <=> IF s[1].kind \in Presence THEN SaysUp(s[1]) ELSE c = "on")
  <2>1. s[1].kind = "owner" => (SaysUp(s[1]) <=> s[1].up) /\ s[1].kind \in Presence
    BY DEF SaysUp, Presence
  <2>2. s[1].kind = "back" => SaysUp(s[1]) /\ s[1].kind \in Presence
    BY DEF SaysUp, Presence
  <2>3. s[1].kind = "gone" => ~SaysUp(s[1]) /\ s[1].kind \in Presence
    BY DEF SaysUp, Presence
  <2>4. s[1].kind \in Presence => s[1].kind \in {"owner", "back", "gone"}
    BY DEF Presence
  <2> QED BY <1>4, <2>1, <2>2, <2>3, <2>4 DEF After
<1>7. (c \in {"off", "on"} \/ s[1].kind = "owner")
        => \A n \in 0 .. l - 1 : Known(d, t, n) <=> Known(c, s, n + 1)
  <2> HIDE DEF d
  <2> QED BY <1>1, <1>6, KnownTaken
<1>8. c = "asked" /\ s[1].kind # "owner" =>
        /\ \E m \in 2 .. l : s[m].kind = "owner"
        /\ Known(d, t, l - 1) <=> Known(c, s, l)
  <2> SUFFICES ASSUME c = "asked", s[1].kind # "owner"
               PROVE  /\ \E m \in 2 .. l : s[m].kind = "owner"
                      /\ Known(d, t, l - 1) <=> Known(c, s, l)
    OBVIOUS
  <2>1. PICK m \in 1 .. l : s[m].kind = "owner"
    BY DEF Owner
  <2>2. m \in 2 .. l /\ m # 1 /\ s[m].kind \in Presence /\ (l - 1) + 1 = l
    BY <1>1, <2>1 DEF Presence
  <2> HIDE DEF d
  <2> QED BY <1>1, <2>1, <2>2, KnownTaken
<1>9. (l - 1) + 1 = l
  BY <1>1
<1> HIDE DEF d, t, l
<1>10. d \in {"asked", "off", "on"} => (Known(d, t, l - 1) <=> u)
  <2>1. c \in {"asked", "off", "on"} => (Known(c, s, l) <=> u)
    BY DEF Order, l
  <2> QED BY <1>1, <1>4, <1>5, <1>7, <1>8, <1>9, <2>1
<1>11. ASSUME NEW n \in 1 .. l - 1, IsListing(t[n]), ~t[n].failed
       PROVE  Known(d, t, n - 1)
  <2>1. IsListing(s[n + 1]) /\ ~s[n + 1].failed /\ n + 1 \in 1 .. l /\ (n - 1) + 1 = n
        /\ (n + 1) - 1 = n /\ n - 1 \in 0 .. l - 1
    BY <1>1, <1>2, <1>11
  <2>2. c \in {"off", "on"}
    BY <2>1 DEF l
  <2>3. Known(c, s, n)
    BY <2>1 DEF Order, l
  <2> QED BY <1>7, <2>1, <2>2, <2>3
<1>12. Order(d, t, u)
  BY <1>1, <1>10, <1>11 DEF Order
<1>13. \A m, n \in 1 .. l : s[m].kind = "owner" /\ s[n].kind = "owner" => m = n
  BY DEF Owner, l
<1>14. ASSUME NEW n \in 1 .. l - 1, t[n].kind = "owner"
       PROVE  n + 1 \in 1 .. l /\ s[n + 1].kind = "owner" /\ s[1].kind # "owner" /\ d = "asked"
  <2>1. n + 1 \in 1 .. l /\ n + 1 # 1 /\ s[n + 1].kind = "owner"
    BY <1>1, <1>2, <1>14
  <2>2. s[1].kind # "owner"
    BY <1>3, <1>13, <2>1
  <2>3. c = "asked"
    BY <2>1 DEF Owner, l
  <2> QED BY <1>5, <2>1, <2>2, <2>3
<1>15. d = "asked" => \E n \in 1 .. l - 1 : t[n].kind = "owner"
  <2> SUFFICES ASSUME d = "asked" PROVE \E n \in 1 .. l - 1 : t[n].kind = "owner"
    OBVIOUS
  <2>1. c = "asked" /\ s[1].kind # "owner"
    BY <1>4 DEF d, After
  <2>2. PICK m \in 2 .. l : s[m].kind = "owner"
    BY <1>8, <2>1
  <2>3. m - 1 \in 1 .. l - 1 /\ (m - 1) + 1 = m
    BY <1>1
  <2> QED BY <1>1, <2>2, <2>3
<1>16. ASSUME NEW m \in 1 .. l - 1, NEW n \in 1 .. l - 1, t[m].kind = "owner", t[n].kind = "owner"
       PROVE  m = n
  <2>1. m + 1 = n + 1
    BY <1>13, <1>14, <1>16
  <2> QED BY <1>1, <2>1
<1>17. Owner(d, t)
  BY <1>1, <1>14, <1>15, <1>16 DEF Owner
<1>18. IsListing(s[1]) /\ ~s[1].failed => c = "on"
  <2>1. Known(c, s, 0) => c = "on"
    BY DEF Known
  <2>2. IsListing(s[1]) /\ ~s[1].failed => Known(c, s, 1 - 1)
    BY <1>3 DEF Order, l
  <2> QED BY <2>1, <2>2
<1> QED BY <1>12, <1>17, <1>18 DEF d, t

-----------------------------------------------------------------------------
LEMMA InitAlone == Init => AloneInv
<1> SUFFICES ASSUME Init PROVE AloneInv
  OBVIOUS
<1>1. inbox = <<>> /\ Len(inbox) = 0 /\ Elements(inbox) = {} /\ 1 .. Len(inbox) = {}
  BY EmptyChannel DEF Init, Elements
<1>2. /\ panel.client = "new" /\ panel.calls = <<>> /\ panel.leftover = {}
      /\ panel.shown = NoItems /\ panel.placeholder = FALSE
  BY DEF Init, FirstPanel
<1>3. Elements(panel.calls) = {}
  BY <1>2, EmptyChannel DEF Elements
<1>4. Order(panel.client, inbox, up) /\ Owner(panel.client, inbox)
  BY <1>1, <1>2 DEF Order, Owner
<1> QED BY <1>1, <1>2, <1>3, <1>4 DEF AloneInv, Unlisted, Init

(* What a message does to the panel that has waited for it.                *)
LEMMA DeliverTurns ==
  ASSUME MenuInv, AloneInv, Deliver,
         IsListing(inbox[1]) /\ ~inbox[1].failed => panel.client = "on"
  PROVE  /\ panel'.client = After(panel.client, inbox[1]) /\ panel'.leftover = {}
         /\ panel'.client # "on" =>
              /\ panel'.shown = NoItems /\ panel'.placeholder = FALSE
              /\ \A c \in Elements(panel'.calls) : c.kind = "ListItems" => c \in Elements(panel.calls)
<1> DEFINE msg == inbox[1]
<1>1. PanelOK(panel, runs) /\ MsgOK(msg, panel, runs) /\ Head(inbox) = msg
  BY Taken, ElementsTaken DEF Deliver, MenuInv
<1>2. panel.leftover = {} /\ (panel.client # "on" => panel.shown = NoItems /\ panel.placeholder = FALSE)
  BY DEF AloneInv
<1> HIDE DEF msg
<1>3. ASSUME Bland(panel, panel'), msg.kind \in {"signal", "reply", "unwatched"}
      PROVE  /\ panel'.client = After(panel.client, msg) /\ panel'.leftover = {}
             /\ panel'.client # "on" =>
                  /\ panel'.shown = NoItems /\ panel'.placeholder = FALSE
                  /\ \A c \in Elements(panel'.calls) : c.kind = "ListItems" => c \in Elements(panel.calls)
  BY <1>2, <1>3 DEF Bland, After
<1>4. CASE msg.kind = "owner"
  <2>1. panel' = OwnerKnown(panel, msg)
    BY <1>1, <1>4 DEF Deliver
  <2>2. /\ panel'.client = IF msg.up THEN "on" ELSE "off"
        /\ panel'.leftover = panel.leftover
        /\ ~msg.up => /\ panel'.shown = panel.shown /\ panel'.calls = panel.calls
                      /\ panel'.placeholder = panel.placeholder
    BY <1>1, <2>1, OwnerKnownKeeps
  <2>3. panel.client # "on"
    <3>1. 1 \in 1 .. Len(inbox)
      BY Taken DEF MenuInv, Deliver
    <3> QED BY <1>4, <3>1 DEF AloneInv, Owner, msg
  <2> QED BY <1>2, <1>4, <2>2, <2>3 DEF After, msg
<1>5. CASE msg.kind = "back"
  <2>1. panel' = NameAppeared(panel)
    BY <1>1, <1>5 DEF Deliver
  <2>2. /\ panel'.client = IF panel.client = "off" THEN "on" ELSE panel.client
        /\ panel'.leftover = panel.leftover
        /\ panel.client # "off" => panel' = panel
    BY <1>1, <2>1, NameAppearedKeeps
  <2> QED BY <1>2, <1>5, <2>2 DEF After, msg
<1>6. CASE msg.kind = "gone"
  <2>1. panel' = NameVanished(panel)
    BY <1>1, <1>6 DEF Deliver
  <2>2. /\ panel'.client = IF panel.client = "on" THEN "off" ELSE panel.client
        /\ panel'.leftover = panel.leftover /\ panel'.calls = panel.calls
        /\ panel.client # "on" => panel' = panel
        /\ panel.client = "on" => panel'.shown = NoItems /\ panel'.placeholder = FALSE
    BY <1>1, <2>1, NameVanishedKeeps
  <2> QED BY <1>2, <1>6, <2>2 DEF After, msg
<1>7. CASE msg.kind = "signal"
  <2>1. panel' = Heard(panel, msg) /\ msg.signal \in {"items", "config", "menu"}
    BY <1>1, <1>7 DEF Deliver, MsgOK
  <2>2. Bland(panel, panel')
    BY <1>1, <2>1, HeardKeeps
  <2> QED BY <1>3, <1>7, <2>2 DEF msg
<1>8. CASE msg.kind = "reply"
  <2>1. panel' \in Resumed(panel, msg)
    BY <1>1, <1>8 DEF Deliver
  <2>2. Bare(panel, msg)
    BY <1>2, <1>8 DEF Bare, IsListing, msg
  <2>3. Bland(panel, panel')
    BY <1>1, <1>8, <2>1, <2>2, ResumedKeeps
  <2> QED BY <1>3, <1>8, <2>3 DEF msg
<1>9. CASE msg.kind = "unwatched"
  <2>1. panel' = panel
    BY <1>1, <1>9 DEF Deliver
  <2> QED BY <1>3, <1>9, <2>1 DEF Bland, msg
<1> QED BY <1>1, <1>4, <1>5, <1>6, <1>7, <1>8, <1>9 DEF MsgOK

LEMMA DeliverAlone == ASSUME MenuInv, AloneInv, Deliver PROVE AloneInv'
<1> DEFINE c == panel.client
           msg == inbox[1]
<1>1. c \in {"none", "new", "asked", "off", "on"} /\ IsChannel(inbox) /\ inbox # <<>>
      /\ inbox' = Tail(inbox) /\ up' = up /\ up \in BOOLEAN
  BY DEF MenuInv, PanelOK, Deliver, AloneInv, daemonVars
<1>2. Order(c, inbox, up) /\ Owner(c, inbox)
  BY DEF AloneInv
<1>3. c \notin {"off", "on"} => Unlisted(panel.calls, inbox)
  BY DEF AloneInv
<1>4. c \notin {"off", "on"} => \A n \in 1 .. Len(inbox) : ~IsListing(inbox[n])
  <2>1. \A n \in 1 .. Len(inbox) : inbox[n] \in Elements(inbox)
    BY <1>1, ChannelFacts DEF Elements
  <2> QED BY <1>3, <2>1 DEF Unlisted
<1> HIDE DEF c
<1>5. /\ Order(After(c, msg), Tail(inbox), up) /\ Owner(After(c, msg), Tail(inbox))
      /\ IsListing(msg) /\ ~msg.failed => c = "on"
  BY <1>1, <1>2, <1>4, OrderTaken
<1>6. /\ panel'.client = After(c, msg) /\ panel'.leftover = {}
      /\ panel'.client # "on" =>
           /\ panel'.shown = NoItems /\ panel'.placeholder = FALSE
           /\ \A d \in Elements(panel'.calls) : d.kind = "ListItems" => d \in Elements(panel.calls)
  BY <1>5, DeliverTurns DEF c
<1> HIDE DEF msg
<1>7. panel'.client \notin {"off", "on"} => Unlisted(panel'.calls, inbox')
  <2> SUFFICES ASSUME panel'.client \notin {"off", "on"} PROVE Unlisted(panel'.calls, inbox')
    OBVIOUS
  <2>1. c \notin {"off", "on"}
    BY <1>6 DEF After
  <2>2. Elements(inbox') \subseteq Elements(inbox)
    BY <1>1, ElementsTaken
  <2> QED BY <1>3, <1>6, <2>1, <2>2 DEF Unlisted
<1> QED BY <1>1, <1>5, <1>6, <1>7 DEF AloneInv

-----------------------------------------------------------------------------
(* A message is sent, the panel stays as it is but for calls answered.     *)
LEMMA SendAlone ==
  ASSUME MenuInv, AloneInv, NEW m, inbox' = Append(inbox, m), m.kind # "owner",
         panel'.client = panel.client, panel'.leftover = panel.leftover,
         panel'.shown = panel.shown, panel'.placeholder = panel.placeholder,
         Elements(panel'.calls) \subseteq Elements(panel.calls),
         up' \in BOOLEAN, m.kind \in Presence => (SaysUp(m) <=> up'),
         m.kind \notin Presence => up' = up,
         IsListing(m) => m.call \in Elements(panel.calls) /\ (up \/ m.failed)
  PROVE  AloneInv'
<1>1. IsChannel(inbox) /\ panel.client \in {"none", "new", "asked", "off", "on"}
  BY DEF MenuInv, PanelOK
<1>2. IsListing(m) /\ ~m.failed => Known(panel.client, inbox, Len(inbox))
  BY DEF AloneInv, Unlisted, IsListing, Order
<1>3. Order(panel.client, Append(inbox, m), up')
  BY <1>1, <1>2, OrderSent DEF AloneInv
<1>4. Owner(panel.client, Append(inbox, m))
  BY <1>1, OwnerSent DEF AloneInv
<1>5. Elements(inbox') = Elements(inbox) \cup {m}
  BY <1>1, ElementsSent
<1>6. panel.client \notin {"off", "on"} => Unlisted(panel'.calls, inbox')
  BY <1>5 DEF AloneInv, Unlisted, IsListing
<1> QED BY <1>3, <1>4, <1>6 DEF AloneInv

LEMMA WatchNameAlone == ASSUME MenuInv, AloneInv, WatchName PROVE AloneInv'
<1> DEFINE m == [kind |-> "owner", up |-> up]
<1>1. IsChannel(inbox) /\ inbox' = Append(inbox, m) /\ up' = up /\ up \in BOOLEAN
      /\ panel.client = "new"
  BY DEF MenuInv, WatchName, daemonVars, AloneInv
<1>2. /\ panel'.client = "asked" /\ panel'.shown = panel.shown
      /\ panel'.leftover = panel.leftover /\ panel'.placeholder = panel.placeholder
      /\ panel'.calls = panel.calls
  BY ClientMoves DEF WatchName, MenuInv
<1>3. m.kind = "owner" /\ (SaysUp(m) <=> up) /\ m.kind \in Presence /\ ~IsListing(m)
  BY <1>1 DEF SaysUp, Presence, IsListing
<1> HIDE DEF m
<1>4. Order("asked", inbox', up')
  BY <1>1, <1>3, OrderSent DEF AloneInv
<1>5. Owner("asked", inbox')
  <2>1. /\ Len(inbox) \in Nat /\ Len(inbox') = Len(inbox) + 1 /\ inbox'[Len(inbox) + 1] = m
        /\ \A n \in 1 .. Len(inbox) : inbox'[n] = inbox[n]
    BY <1>1, Sent, ChannelFacts
  <2>2. \A n \in 1 .. Len(inbox) : inbox[n].kind # "owner"
    BY <1>1 DEF AloneInv, Owner
  <2>3. \A n \in 1 .. Len(inbox') : inbox'[n].kind = "owner" => n = Len(inbox')
    BY <2>1, <2>2
  <2>4. Len(inbox') \in 1 .. Len(inbox') /\ inbox'[Len(inbox')].kind = "owner"
    BY <1>3, <2>1
  <2> QED BY <2>3, <2>4 DEF Owner
<1>6. Elements(inbox') = Elements(inbox) \cup {m}
  BY <1>1, ElementsSent
<1>7. Unlisted(panel'.calls, inbox')
  BY <1>1, <1>2, <1>3, <1>6 DEF AloneInv, Unlisted
<1> QED BY <1>1, <1>2, <1>4, <1>5, <1>7 DEF AloneInv

LEMMA ReadMenuAlone == ASSUME MenuInv, AloneInv, ReadMenu PROVE AloneInv'
<1>1. PICK n \in DOMAIN panel.calls :
        /\ panel.calls[n].kind = "GetMenu"
        /\ panel' = [panel EXCEPT !.calls[n].menu = items[panel.calls[n].key]]
  BY DEF ReadMenu
<1> DEFINE d == [panel.calls[n] EXCEPT !.menu = items[panel.calls[n].key]]
           calls == [panel.calls EXCEPT ![n] = d]
<1>2. IsPanel(panel) /\ CallOK(panel, panel.calls[n])
  BY DEF MenuInv, PanelOK, Elements
<1>3. panel' = [panel EXCEPT !.calls = calls]
  BY <1>1, <1>2 DEF IsPanel
<1>4. d.kind = "GetMenu"
  BY <1>1, <1>2 DEF CallOK, IsMenuCall
<1> HIDE DEF d
<1>5. \A c \in Elements(calls) : c \in Elements(panel.calls) \/ c = d
  BY DEF Elements
<1> HIDE DEF calls
<1>6. /\ panel'.calls = calls /\ panel'.client = panel.client /\ panel'.shown = panel.shown
      /\ panel'.leftover = panel.leftover /\ panel'.placeholder = panel.placeholder
  BY <1>2, <1>3 DEF IsPanel
<1>7. inbox' = inbox /\ up' = up
  BY DEF ReadMenu, daemonVars
<1> QED BY <1>4, <1>5, <1>6, <1>7 DEF AloneInv, Unlisted

LEMMA AnswerAlone == ASSUME MenuInv, AloneInv, Answer PROVE AloneInv'
<1>0. PICK n \in DOMAIN panel.calls : \E msg \in Reply(panel.calls[n]) :
        /\ inbox' = Append(inbox, msg)
        /\ panel' = [panel EXCEPT !.calls = RemoveAt(panel.calls, n)]
  BY DEF Answer, MenuInv, PanelOK, IsPanel
<1>1. PICK msg \in Reply(panel.calls[n]) :
        /\ inbox' = Append(inbox, msg)
        /\ panel' = [panel EXCEPT !.calls = RemoveAt(panel.calls, n)]
  BY <1>0
<1>2. PanelOK(panel, runs) /\ IsChannel(panel.calls) /\ CallOK(panel, panel.calls[n])
      /\ panel.calls[n] \in Elements(panel.calls)
  BY DEF MenuInv, PanelOK, Elements
<1>3. /\ Elements(panel'.calls) \subseteq Elements(panel.calls)
      /\ panel'.client = panel.client /\ panel'.leftover = panel.leftover
      /\ panel'.shown = panel.shown /\ panel'.placeholder = panel.placeholder
  BY <1>1, <1>2, ElementsRemoved, CallsDrop
<1>4. msg.kind = "reply" /\ msg.call = panel.calls[n] /\ (up \/ msg.failed)
  <2> DEFINE c == panel.calls[n]
  <2>1. c.kind \in {"GetConfig", "ListItems", "GetMenu"}
    BY <1>2 DEF CallOK
  <2> HIDE DEF c
  <2>2. msg \in Reply(c) /\ up \in BOOLEAN
    BY <1>1 DEF c, AloneInv
  <2>3. \/ msg = [kind |-> "reply", call |-> c, failed |-> TRUE]
        \/ up /\ \E v : msg = [kind |-> "reply", call |-> c, failed |-> FALSE, value |-> v]
    BY <2>1, <2>2 DEF Reply
  <2> QED BY <2>3 DEF c
<1>5. up' = up /\ up \in BOOLEAN
  BY DEF Answer, daemonVars, AloneInv
<1> QED BY <1>1, <1>2, <1>3, <1>4, <1>5, SendAlone DEF Presence

LEMMA SignalsAlone ==
  ASSUME MenuInv, AloneInv,
         \/ \E k \in Keys : ItemAppears(k) \/ ItemGoes(k) \/ MenuChanges(k)
         \/ \E c \in Configs : ConfigChanges(c)
  PROVE  AloneInv'
<1>1. panel' = panel /\ up' = up /\ up \in BOOLEAN
      /\ \E m : inbox' = Append(inbox, m) /\ m.kind = "signal"
  <2>1. CASE \E k \in Keys : ItemAppears(k) \/ ItemGoes(k)
    <3> DEFINE m == [kind |-> "signal", signal |-> "items"]
    <3>1. inbox' = Append(inbox, m) /\ m.kind = "signal"
      BY <2>1 DEF ItemAppears, ItemGoes, Says
    <3> HIDE DEF m
    <3> QED BY <2>1, <3>1 DEF ItemAppears, ItemGoes, AloneInv
  <2>2. CASE \E k \in Keys : MenuChanges(k)
    <3>1. PICK k \in Keys : MenuChanges(k)
      BY <2>2
    <3> DEFINE m == [kind |-> "signal", signal |-> "menu", key |-> k]
    <3>2. inbox' = Append(inbox, m) /\ m.kind = "signal"
      BY <3>1 DEF MenuChanges
    <3> HIDE DEF m
    <3> QED BY <3>1, <3>2 DEF MenuChanges, daemonVars, AloneInv
  <2>3. CASE \E c \in Configs : ConfigChanges(c)
    <3> DEFINE m == [kind |-> "signal", signal |-> "config"]
    <3>1. inbox' = Append(inbox, m) /\ m.kind = "signal"
      BY <2>3 DEF ConfigChanges, Says
    <3> HIDE DEF m
    <3> QED BY <2>3, <3>1 DEF ConfigChanges, AloneInv
  <2> QED BY <2>1, <2>2, <2>3
<1>2. PICK m : inbox' = Append(inbox, m) /\ m.kind = "signal"
  BY <1>1
<1>3. m.kind # "owner" /\ m.kind \notin Presence /\ ~IsListing(m)
  BY <1>2 DEF Presence, IsListing
<1> QED BY <1>1, <1>2, <1>3, SendAlone

LEMMA DaemonStartsAlone == ASSUME MenuInv, AloneInv, DaemonStarts PROVE AloneInv'
<1> DEFINE m == [kind |-> "back"]
<1>1. inbox' = Append(inbox, m) /\ panel' = panel /\ up' = TRUE
  BY DEF DaemonStarts
<1>2. m.kind = "back" /\ SaysUp(m) /\ m.kind \in Presence /\ ~IsListing(m)
  BY DEF SaysUp, Presence, IsListing
<1> HIDE DEF m
<1> QED BY <1>1, <1>2, SendAlone

LEMMA DaemonExitsAlone == ASSUME MenuInv, AloneInv, DaemonExits PROVE AloneInv'
<1> DEFINE all == inbox \o Failures
           last == [kind |-> "gone"]
           c == panel.client
<1>1. IsChannel(inbox) /\ IsChannel(Failures) /\ IsChannel(all) /\ inbox' = Append(all, last)
      /\ \A m \in Elements(Failures) : \E d \in Elements(panel.calls) :
           m = [kind |-> "reply", call |-> d, failed |-> TRUE]
  BY ExitSends DEF MenuInv
<1>2. IsChannel(<<>>) /\ Elements(<<>>) = {}
  BY EmptyChannel DEF Elements
<1>3. /\ panel'.calls = <<>> /\ panel'.client = c /\ panel'.leftover = panel.leftover
      /\ panel'.shown = panel.shown /\ panel'.placeholder = panel.placeholder
  BY <1>2, CallsDrop DEF DaemonExits, MenuInv
<1>4. up' = FALSE /\ up \in BOOLEAN
  BY DEF DaemonExits, AloneInv
<1>5. Elements(all) = Elements(inbox) \cup Elements(Failures)
  BY <1>1, ElementsJoined
<1>6. last.kind = "gone" /\ last.kind \in Presence /\ ~SaysUp(last) /\ ~IsListing(last)
      /\ last.kind # "owner"
  BY DEF SaysUp, Presence, IsListing
<1>7. Order(c, all, up) /\ Owner(c, all)
  BY <1>1, OrderJoined DEF AloneInv
<1> HIDE DEF all, last, c
<1>8. Order(c, inbox', up')
  BY <1>1, <1>4, <1>6, <1>7, OrderSent
<1>9. Owner(c, inbox')
  BY <1>1, <1>6, <1>7, OwnerSent
<1>10. c \notin {"off", "on"} => Unlisted(panel'.calls, inbox')
  <2> SUFFICES ASSUME c \notin {"off", "on"} PROVE Unlisted(panel'.calls, inbox')
    OBVIOUS
  <2>1. Unlisted(panel.calls, inbox)
    BY DEF c, AloneInv
  <2>2. Elements(inbox') = Elements(all) \cup {last}
    BY <1>1, ElementsSent
  <2>3. \A m \in Elements(Failures) : ~IsListing(m)
    BY <1>1, <2>1 DEF Unlisted, IsListing
  <2> QED BY <1>2, <1>3, <1>5, <1>6, <2>1, <2>2, <2>3 DEF Unlisted
<1> QED BY <1>3, <1>4, <1>8, <1>9, <1>10 DEF AloneInv, c

(* Nothing is listed when the extension is disabled.                       *)
LEMMA DisableAlone ==
  ASSUME MenuInv, AloneInv, Disable, ~DisableAnytime
  PROVE  AloneInv'
<1>1. IsChannel(inbox) /\ Len(inbox) \in Nat /\ DOMAIN inbox = 1 .. Len(inbox)
  BY ChannelFacts DEF MenuInv
<1>2. /\ panel'.client = "none" /\ panel'.shown = NoItems /\ panel'.placeholder = FALSE
      /\ panel'.leftover = panel.leftover /\ panel'.calls = panel.calls
  BY DisableClears DEF MenuInv
<1>3. /\ IsChannel(inbox') /\ Len(inbox') = Len(inbox)
      /\ \A n \in 1 .. Len(inbox) :
           inbox'[n] = IF inbox[n].kind = "owner" THEN [kind |-> "unwatched"] ELSE inbox[n]
  BY <1>1, DisableUnwatches
<1>4. DOMAIN inbox' = 1 .. Len(inbox)
  BY <1>3, ChannelFacts
<1>5. ~Listing
  BY DEF Disable
<1>6. \A n \in 1 .. Len(inbox) : ~IsListing(inbox'[n]) /\ inbox'[n].kind # "owner"
  BY <1>1, <1>3, <1>5 DEF Listing, IsListing
<1>7. Unlisted(panel'.calls, inbox')
  BY <1>2, <1>4, <1>5, <1>6 DEF Unlisted, Listing, Elements
<1>8. Order(panel'.client, inbox', up') /\ Owner(panel'.client, inbox')
  BY <1>2, <1>3, <1>6 DEF Order, Owner
<1>9. up' = up
  BY DEF Disable, daemonVars
<1> QED BY <1>2, <1>7, <1>8, <1>9 DEF AloneInv

LEMMA EnableAlone == ASSUME MenuInv, AloneInv, Enable PROVE AloneInv'
<1>1. panel.client = "none" /\ inbox' = inbox /\ up' = up
  BY DEF Enable, daemonVars
<1>2. /\ panel'.client = "new" /\ panel'.shown = NoItems /\ panel'.placeholder = FALSE
      /\ panel'.leftover = panel.leftover \cup DOMAIN panel.shown
      /\ panel'.calls = panel.calls
  BY EnableClears DEF MenuInv
<1>3. panel'.leftover = {}
  BY <1>1, <1>2 DEF AloneInv, NoItems
<1>4. Unlisted(panel.calls, inbox)
  BY <1>1 DEF AloneInv
<1>5. \A n \in 1 .. Len(inbox) : ~IsListing(inbox[n])
  <2>1. DOMAIN inbox = 1 .. Len(inbox)
    BY ChannelFacts DEF MenuInv
  <2> QED BY <1>4, <2>1 DEF Unlisted, Elements
<1>6. Order(panel'.client, inbox, up) /\ Owner(panel'.client, inbox)
  BY <1>1, <1>2, <1>5 DEF AloneInv, Order, Owner
<1> QED BY <1>1, <1>2, <1>3, <1>4, <1>6 DEF AloneInv

LEMMA AloneStep ==
  ASSUME MenuInv, AloneInv, ~DisableAnytime, [Next]_vars
  PROVE  AloneInv'
<1>1. CASE World
  BY <1>1, SignalsAlone, DaemonExitsAlone, DaemonStartsAlone, DisableAlone, EnableAlone DEF World
<1>2. CASE ReadMenu \/ Answer
  BY <1>2, ReadMenuAlone, AnswerAlone
<1>3. CASE Deliver \/ WatchName
  BY <1>3, DeliverAlone, WatchNameAlone
<1>4. CASE UNCHANGED vars
  BY <1>4 DEF vars, daemonVars, AloneInv
<1> QED BY <1>1, <1>2, <1>3, <1>4 DEF Next

(* A panel whose client is not connected, or that is disabled, shows       *)
(* nothing and has lost sight of no indicator, as long as it is not        *)
(* disabled while ListItems is awaited (disable, _onDaemonEvent).  A run   *)
(* shows that it does lose sight of one then.                              *)
THEOREM NothingIsShownAlone ==
  ASSUME ~DisableAnytime
  PROVE  Spec => []NothingShownAlone
<1>1. AloneInv => NothingShownAlone
  BY DEF AloneInv, NothingShownAlone
<1>2. MenuInv /\ AloneInv /\ [Next]_vars => AloneInv'
  BY AloneStep
<1>3. Init => AloneInv
  BY InitAlone
<1> QED BY <1>1, <1>2, <1>3, MenuInvariant, PTL DEF Spec

-----------------------------------------------------------------------------
(* What a panel that is behind may count on: somebody is still to ask, or  *)
(* the last answer on its way brings what the daemon has.                  *)
IsRefresh(c) == c.kind = "ListItems" \/ (c.kind = "GetConfig" /\ c.refresh)

Gives(m, kind) == m.kind = "reply" /\ m.call.kind = kind /\ ~m.failed

Tells(m, signal) == m.kind = "signal" /\ m.signal = signal

NoLists(calls) == \A c \in Elements(calls) : c.kind # "ListItems"

AsksConfig(p) == \E c \in Elements(p.calls) : c.kind = "GetConfig"

(* The last call of a list that is made will be painted last.              *)
LastCall(calls, conf) ==
  \E n \in 1 .. Len(calls) :
    /\ calls[n].kind = "ListItems" /\ calls[n].config = conf
    /\ \A j \in n + 1 .. Len(calls) : calls[j].kind # "ListItems"

LastConfig(s, conf) ==
  \E n \in 1 .. Len(s) :
    /\ Gives(s[n], "GetConfig") /\ s[n].value = conf
    /\ \A j \in n + 1 .. Len(s) : ~Gives(s[j], "GetConfig")

LastList(s, list, conf) ==
  \E n \in 1 .. Len(s) :
    /\ Gives(s[n], "ListItems") /\ s[n].value = list /\ s[n].call.config = conf
    /\ \A j \in n + 1 .. Len(s) : ~Gives(s[j], "ListItems")

(* A picture is asked for with the configuration the panel has, or will be.*)
Due(p) == p.queued \/ AsksConfig(p) \/ LastCall(p.calls, p.config)

RunningOf(p) == [k \in DOMAIN p.shown |-> p.shown[k].run]

ConfigComes ==
  \/ \E m \in Elements(inbox) : Tells(m, "config")
  \/ AsksConfig(panel)
  \/ LastConfig(inbox, config)
  \/ panel.config = config /\ \A m \in Elements(inbox) : ~Gives(m, "GetConfig")

PictureComes ==
  \/ Due(panel)
  \/ \E m \in Elements(inbox) :
       Tells(m, "config") \/ Tells(m, "items") \/ Gives(m, "GetConfig")
  \/ NoLists(panel.calls) /\ LastList(inbox, items, panel.config)
  \/ /\ NoLists(panel.calls) /\ \A m \in Elements(inbox) : ~Gives(m, "ListItems")
     /\ RunningOf(panel) = items
     /\ panel.placeholder <=> DOMAIN items = {} /\ panel.config.showWhenEmpty

(* _busy and _queued: who is busy awaits something.                        *)
Works(p) ==
  /\ p.busy \in BOOLEAN /\ p.queued \in BOOLEAN /\ p.placeholder \in BOOLEAN
  /\ p.queued => p.busy

Awaits(p) == \E c \in Elements(p.calls) : IsRefresh(c)

(* The client is connected and will not hear otherwise.                    *)
Connected(p, s) == p.client = "on" /\ \A m \in Elements(s) : m.kind \notin {"owner", "gone"}

FollowInv ==
  /\ items = [k \in DOMAIN items |-> items[k]]
  /\ Works(panel)
  /\ panel.busy => \/ Awaits(panel)
                   \/ \E m \in Elements(inbox) : m.kind = "reply" /\ IsRefresh(m.call)
  /\ Connected(panel, inbox) => ConfigComes /\ PictureComes

-----------------------------------------------------------------------------
(* The last of a sequence, when it is sent to, taken from or joined.       *)
LEMMA LastSent ==
  ASSUME NEW s, IsChannel(s), NEW e
  PROVE  /\ \A v : LastConfig(Append(s, e), v) <=>
                   IF Gives(e, "GetConfig") THEN e.value = v ELSE LastConfig(s, v)
         /\ \A v, c : LastList(Append(s, e), v, c) <=>
                   IF Gives(e, "ListItems") THEN e.value = v /\ e.call.config = c
                   ELSE LastList(s, v, c)
         /\ \A c : LastCall(Append(s, e), c) <=>
                   IF e.kind = "ListItems" THEN e.config = c ELSE LastCall(s, c)
<1> DEFINE t == Append(s, e)
           l == Len(s)
<1>1. l \in Nat /\ Len(t) = l + 1 /\ t[l + 1] = e /\ \A n \in 1 .. l : t[n] = s[n]
  BY Sent, ChannelFacts
<1>2. \A n \in 1 .. l + 1 : n = l + 1 \/ n \in 1 .. l
  BY <1>1
<1>3. \A n \in 1 .. l : n + 1 .. l \subseteq 1 .. l /\ l + 1 \in n + 1 .. l + 1
  BY <1>1
<1>4. \A n \in 1 .. l : \A j \in n + 1 .. l + 1 : j = l + 1 \/ j \in n + 1 .. l
  BY <1>1
<1>5. (l + 1) + 1 .. l + 1 = {} /\ l + 1 \in 1 .. l + 1 /\ 1 .. l \subseteq 1 .. l + 1
      /\ \A n \in 1 .. l : n + 1 .. l \subseteq n + 1 .. l + 1
  BY <1>1
<1> HIDE DEF t, l
<1>6. \A v : LastConfig(t, v) <=> IF Gives(e, "GetConfig") THEN e.value = v ELSE LastConfig(s, v)
  BY <1>1, <1>2, <1>3, <1>4, <1>5 DEF LastConfig, l
<1>7. \A v, c : LastList(t, v, c) <=>
        IF Gives(e, "ListItems") THEN e.value = v /\ e.call.config = c ELSE LastList(s, v, c)
  BY <1>1, <1>2, <1>3, <1>4, <1>5 DEF LastList, l
<1>8. \A c : LastCall(t, c) <=> IF e.kind = "ListItems" THEN e.config = c ELSE LastCall(s, c)
  BY <1>1, <1>2, <1>3, <1>4, <1>5 DEF LastCall, l
<1> QED BY <1>6, <1>7, <1>8 DEF t

LEMMA LastTaken ==
  ASSUME NEW s, IsChannel(s), s # <<>>
  PROVE  /\ \A v : LastConfig(s, v) =>
              \/ LastConfig(Tail(s), v)
              \/ /\ Gives(Head(s), "GetConfig") /\ Head(s).value = v
                 /\ \A m \in Elements(Tail(s)) : ~Gives(m, "GetConfig")
         /\ \A v, c : LastList(s, v, c) =>
              \/ LastList(Tail(s), v, c)
              \/ /\ Gives(Head(s), "ListItems") /\ Head(s).value = v /\ Head(s).call.config = c
                 /\ \A m \in Elements(Tail(s)) : ~Gives(m, "ListItems")
<1> DEFINE t == Tail(s)
           l == Len(s)
<1>1. /\ l \in Nat /\ l > 0 /\ Head(s) = s[1] /\ Len(t) = l - 1 /\ DOMAIN t = 1 .. l - 1
      /\ \A n \in 1 .. l - 1 : t[n] = s[n + 1]
  BY Taken
<1>2. \A n \in 1 .. l : n = 1 \/ (n - 1 \in 1 .. l - 1 /\ (n - 1) + 1 = n)
  BY <1>1
<1>3. \A n \in 2 .. l : \A j \in (n - 1) + 1 .. l - 1 : j \in 1 .. l - 1 /\ j + 1 \in n + 1 .. l
  BY <1>1
<1>4. \A j \in 1 .. l - 1 : j + 1 \in 1 + 1 .. l
  BY <1>1
<1>5. \A m \in Elements(t) : \E j \in 1 .. l - 1 : m = s[j + 1]
  BY <1>1 DEF Elements
<1>6. \A n \in 1 .. l : n = 1 \/ n \in 2 .. l
  BY <1>1
<1> HIDE DEF t, l
<1>7. ASSUME NEW v, LastConfig(s, v)
      PROVE  \/ LastConfig(t, v)
             \/ /\ Gives(s[1], "GetConfig") /\ s[1].value = v
                /\ \A m \in Elements(t) : ~Gives(m, "GetConfig")
  <2>1. PICK n \in 1 .. l : /\ Gives(s[n], "GetConfig") /\ s[n].value = v
                            /\ \A j \in n + 1 .. l : ~Gives(s[j], "GetConfig")
    BY <1>7 DEF LastConfig, l
  <2>2. CASE n = 1
    BY <1>4, <1>5, <2>1, <2>2
  <2>3. CASE n \in 2 .. l
    <3>1. n - 1 \in 1 .. l - 1 /\ t[n - 1] = s[n]
      BY <1>1, <1>2, <2>3
    <3>2. \A j \in (n - 1) + 1 .. l - 1 : ~Gives(t[j], "GetConfig")
      BY <1>1, <1>3, <2>1, <2>3
    <3> QED BY <1>1, <2>1, <3>1, <3>2 DEF LastConfig
  <2> QED BY <1>6, <2>2, <2>3
<1>8. ASSUME NEW v, NEW c, LastList(s, v, c)
      PROVE  \/ LastList(t, v, c)
             \/ /\ Gives(s[1], "ListItems") /\ s[1].value = v /\ s[1].call.config = c
                /\ \A m \in Elements(t) : ~Gives(m, "ListItems")
  <2>1. PICK n \in 1 .. l : /\ Gives(s[n], "ListItems") /\ s[n].value = v
                            /\ s[n].call.config = c
                            /\ \A j \in n + 1 .. l : ~Gives(s[j], "ListItems")
    BY <1>8 DEF LastList, l
  <2>2. CASE n = 1
    BY <1>4, <1>5, <2>1, <2>2
  <2>3. CASE n \in 2 .. l
    <3>1. n - 1 \in 1 .. l - 1 /\ t[n - 1] = s[n]
      BY <1>1, <1>2, <2>3
    <3>2. \A j \in (n - 1) + 1 .. l - 1 : ~Gives(t[j], "ListItems")
      BY <1>1, <1>3, <2>1, <2>3
    <3> QED BY <1>1, <2>1, <3>1, <3>2 DEF LastList
  <2> QED BY <1>6, <2>2, <2>3
<1> QED BY <1>1, <1>7, <1>8 DEF t

(* Calls for menus do not come between. *)
LEMMA MenusJoined ==
  ASSUME NEW s, IsChannel(s), NEW t, IsChannel(t), \A c \in Elements(t) : c.kind = "GetMenu"
  PROVE  /\ \A v : LastCall(s, v) => LastCall(s \o t, v)
         /\ \A v : LastCall(s \o t, v) => LastCall(s, v)
         /\ Elements(s \o t) = Elements(s) \cup Elements(t)
<1> DEFINE u == s \o t
           l == Len(s)
<1>1. /\ l \in Nat /\ Len(t) \in Nat /\ Len(u) = l + Len(t)
      /\ \A n \in 1 .. l : u[n] = s[n]
      /\ \A n \in 1 .. Len(t) : u[l + n] = t[n]
  BY Joined, ChannelFacts
<1>2. \A n \in 1 .. Len(t) : t[n].kind = "GetMenu"
  BY ChannelFacts DEF Elements
<1>3. \A n \in l + 1 .. Len(u) : n - l \in 1 .. Len(t) /\ l + (n - l) = n
  BY <1>1
<1>4. \A n \in l + 1 .. Len(u) : u[n].kind = "GetMenu"
  BY <1>1, <1>2, <1>3
<1>5. 1 .. l \subseteq 1 .. Len(u) /\ \A n \in 1 .. Len(u) : n \in 1 .. l \/ n \in l + 1 .. Len(u)
  BY <1>1
<1>6. \A n \in 1 .. l : n + 1 .. l \subseteq n + 1 .. Len(u) /\ n + 1 .. l \subseteq 1 .. l
        /\ \A j \in n + 1 .. Len(u) : j \in n + 1 .. l \/ j \in l + 1 .. Len(u)
  BY <1>1
<1> HIDE DEF u, l
<1>7. ASSUME NEW v, LastCall(s, v) PROVE LastCall(u, v)
  <2>1. PICK n \in 1 .. l : /\ s[n].kind = "ListItems" /\ s[n].config = v
                            /\ \A j \in n + 1 .. l : s[j].kind # "ListItems"
    BY <1>7 DEF LastCall, l
  <2>2. n \in 1 .. Len(u) /\ u[n] = s[n]
    BY <1>1, <1>5, <2>1
  <2>3. \A j \in n + 1 .. Len(u) : u[j].kind # "ListItems"
    BY <1>1, <1>4, <1>6, <2>1
  <2> QED BY <2>1, <2>2, <2>3 DEF LastCall
<1>8. ASSUME NEW v, LastCall(u, v) PROVE LastCall(s, v)
  <2>1. PICK n \in 1 .. Len(u) : /\ u[n].kind = "ListItems" /\ u[n].config = v
                                 /\ \A j \in n + 1 .. Len(u) : u[j].kind # "ListItems"
    BY <1>8 DEF LastCall
  <2>2. n \in 1 .. l
    BY <1>4, <1>5, <2>1
  <2>3. s[n] = u[n] /\ \A j \in n + 1 .. l : s[j].kind # "ListItems"
    BY <1>1, <1>6, <2>1, <2>2
  <2> QED BY <2>1, <2>2, <2>3 DEF LastCall, l
<1> QED BY <1>7, <1>8, ElementsJoined DEF u

(* Answers leave in turn: an answered list was the last, or not the last. *)
LEMMA LastRemoved ==
  ASSUME NEW s, IsChannel(s), NEW n \in 1 .. Len(s), NEW v
  PROVE  /\ s[n].kind # "ListItems" /\ LastCall(s, v) => LastCall(RemoveAt(s, n), v)
         /\ (\A j \in 1 .. n - 1 : s[j].kind # "ListItems") /\ LastCall(s, v) =>
              LastCall(RemoveAt(s, n), v) \/ (s[n].config = v /\ NoLists(RemoveAt(s, n)))
         /\ \A k \in 1 .. Len(s) : k # n => s[k] \in Elements(RemoveAt(s, n))
<1> DEFINE a == SubSeq(s, 1, n - 1)
           b == SubSeq(s, n + 1, Len(s))
           t == a \o b
           l == Len(s)
<1>1. l \in Nat /\ DOMAIN s = 1 .. l /\ n \in Nat /\ n > 0 /\ n <= l
  BY ChannelFacts
<1>2. n - 1 \in Int /\ n + 1 \in Int /\ 1 \in Int /\ l \in Int
  BY <1>1
<1>3. /\ \A i \in 1 .. n - 1 : s[i] \in Elements(s)
      /\ \A i \in n + 1 .. l : s[i] \in Elements(s)
  BY <1>1 DEF Elements
<1>4. /\ a \in Seq(Elements(s)) /\ Len(a) = (IF 1 <= n - 1 THEN (n - 1) - 1 + 1 ELSE 0)
      /\ \A i \in 1 .. (n - 1) - 1 + 1 : a[i] = s[1 + i - 1]
  BY <1>2, <1>3, SubSeqProperties
<1>5. /\ b \in Seq(Elements(s)) /\ Len(b) = (IF n + 1 <= l THEN l - (n + 1) + 1 ELSE 0)
      /\ \A i \in 1 .. l - (n + 1) + 1 : b[i] = s[(n + 1) + i - 1]
  BY <1>2, <1>3, SubSeqProperties
<1>6. /\ Len(a) = n - 1 /\ \A i \in 1 .. n - 1 : a[i] = s[i]
  BY <1>1, <1>4
<1>7. /\ Len(b) = l - n /\ \A i \in 1 .. l - n : b[i] = s[n + i]
  <2>1. l - (n + 1) + 1 = l - n
    BY <1>1
  <2>2. \A i \in 1 .. l - n : (n + 1) + i - 1 = n + i
    BY <1>1
  <2> QED BY <1>1, <1>5, <2>1, <2>2
<1>8. RemoveAt(s, n) = t
  BY DEF RemoveAt
<1>9. IsChannel(a) /\ IsChannel(b)
  BY <1>4, <1>5, SequencesAreChannels
<1> HIDE DEF a, b
<1>10. /\ Len(t) = Len(a) + Len(b) /\ DOMAIN t = 1 .. Len(a) + Len(b)
       /\ \A i \in 1 .. Len(a) : t[i] = a[i]
       /\ \A i \in 1 .. Len(b) : t[Len(a) + i] = b[i]
  BY <1>9, Joined
<1>11. \A i \in n .. l - 1 : i + 1 - n \in 1 .. l - n /\ (n - 1) + (i + 1 - n) = i /\ n + (i + 1 - n) = i + 1
  BY <1>1
<1> HIDE DEF t, l
<1>12. /\ Len(t) = l - 1 /\ DOMAIN t = 1 .. l - 1
       /\ \A i \in 1 .. n - 1 : t[i] = s[i]
  BY <1>1, <1>6, <1>7, <1>10
<1>13. \A i \in n .. l - 1 : t[i] = s[i + 1]
  BY <1>6, <1>7, <1>10, <1>11
<1>14. ASSUME NEW k \in 1 .. l, s[k].kind = "ListItems", s[k].config = v, k # n,
              \A j \in k + 1 .. l : s[j].kind # "ListItems"
       PROVE  LastCall(t, v)
  <2>1. CASE k \in 1 .. n - 1
    <3>1. k \in 1 .. l - 1 /\ t[k] = s[k]
      BY <1>1, <1>12, <2>1
    <3>2. \A j \in k + 1 .. l - 1 : \/ j \in 1 .. n - 1 /\ j \in k + 1 .. l
                                    \/ j \in n .. l - 1 /\ j + 1 \in k + 1 .. l
      BY <1>1, <2>1
    <3>3. \A j \in k + 1 .. l - 1 : t[j].kind # "ListItems"
      BY <1>12, <1>13, <1>14, <3>2
    <3> QED BY <1>12, <1>14, <3>1, <3>3 DEF LastCall
  <2>2. CASE k \in n + 1 .. l
    <3>1. k - 1 \in n .. l - 1 /\ k - 1 \in 1 .. l - 1 /\ (k - 1) + 1 = k
      BY <1>1, <2>2
    <3>2. \A j \in (k - 1) + 1 .. l - 1 : j \in n .. l - 1 /\ j + 1 \in k + 1 .. l
      BY <1>1, <2>2
    <3>3. \A j \in (k - 1) + 1 .. l - 1 : t[j].kind # "ListItems"
      BY <1>13, <1>14, <3>2
    <3>4. t[k - 1] = s[k]
      BY <1>13, <3>1
    <3> QED BY <1>12, <1>14, <3>1, <3>3, <3>4 DEF LastCall
  <2> QED BY <1>1, <1>14, <2>1, <2>2
<1>15. ASSUME \A j \in 1 .. n - 1 : s[j].kind # "ListItems",
              \A j \in n + 1 .. l : s[j].kind # "ListItems"
       PROVE  NoLists(t)
  <2>1. \A i \in 1 .. l - 1 : i \in 1 .. n - 1 \/ (i \in n .. l - 1 /\ i + 1 \in n + 1 .. l)
    BY <1>1
  <2>2. \A i \in 1 .. l - 1 : t[i].kind # "ListItems"
    BY <1>12, <1>13, <1>15, <2>1
  <2> QED BY <1>12, <2>2 DEF NoLists, Elements
<1>16. ASSUME NEW k \in 1 .. l, k # n PROVE s[k] \in Elements(t)
  <2>1. k \in 1 .. n - 1 \/ (k - 1 \in n .. l - 1 /\ (k - 1) + 1 = k)
    BY <1>1, <1>16
  <2>2. 1 .. n - 1 \subseteq 1 .. l - 1 /\ n .. l - 1 \subseteq 1 .. l - 1
    BY <1>1
  <2> QED BY <1>12, <1>13, <2>1, <2>2 DEF Elements
<1>17. LastCall(s, v) => \E k \in 1 .. l : /\ s[k].kind = "ListItems" /\ s[k].config = v
                                           /\ \A j \in k + 1 .. l : s[j].kind # "ListItems"
  BY DEF LastCall, l
<1> HIDE DEF LastCall, NoLists
<1> QED BY <1>8, <1>14, <1>15, <1>16, <1>17 DEF l

(* A call for a menu that is being answered stays where it is. *)
LEMMA LastMarked ==
  ASSUME NEW s, IsChannel(s), NEW t, IsChannel(t), Len(t) = Len(s),
         \A n \in 1 .. Len(s) : t[n] = s[n] \/ (s[n].kind = "GetMenu" /\ t[n].kind = "GetMenu")
  PROVE  /\ \A v : LastCall(s, v) => LastCall(t, v)
         /\ NoLists(s) => NoLists(t)
         /\ (\E c \in Elements(s) : c.kind = "GetConfig") => \E c \in Elements(t) : c.kind = "GetConfig"
         /\ (\E c \in Elements(s) : IsRefresh(c)) => \E c \in Elements(t) : IsRefresh(c)
<1>1. DOMAIN s = 1 .. Len(s) /\ DOMAIN t = 1 .. Len(s) /\ Len(s) \in Nat
  BY ChannelFacts
<1>2. \A n \in 1 .. Len(s) : n + 1 .. Len(s) \subseteq 1 .. Len(s)
  BY <1>1
<1>3. \A v : LastCall(s, v) => LastCall(t, v)
  BY <1>2 DEF LastCall
<1>4. NoLists(s) => NoLists(t)
  BY <1>1 DEF NoLists, Elements
<1>5. (\E c \in Elements(s) : c.kind = "GetConfig") => \E c \in Elements(t) : c.kind = "GetConfig"
  BY <1>1 DEF Elements
<1>6. (\E c \in Elements(s) : IsRefresh(c)) => \E c \in Elements(t) : IsRefresh(c)
  BY <1>1 DEF Elements, IsRefresh
<1> QED BY <1>3, <1>4, <1>5, <1>6

-----------------------------------------------------------------------------
(* A turn that leaves what is shown: configuration, icons, placeholder.    *)
Shows(p, q) ==
  /\ IsPanel(q) /\ IsChannel(q.calls)
  /\ q.client = p.client /\ q.config = p.config
  /\ q.shown = p.shown /\ q.placeholder = p.placeholder
  /\ Elements(p.calls) \subseteq Elements(q.calls)

(* Who counted on the panel to ask may still do so.                        *)
Onward(p, q) ==
  \/ Due(q)
  \/ ~Due(p) /\ q.config = p.config /\ (NoLists(p.calls) => NoLists(q.calls))

LEMMA ShowsTwice ==
  ASSUME NEW p, NEW q, NEW r, Shows(p, q), Shows(q, r)
  PROVE  Shows(p, r)
BY DEF Shows

LEMMA MarksShow ==
  ASSUME NEW p, IsPanel(p), IsChannel(p.calls), NEW v, NEW q,
         q = [p EXCEPT !.busy = v] \/ q = [p EXCEPT !.queued = v]
  PROVE  /\ Shows(p, q) /\ q.calls = p.calls
         /\ q = [p EXCEPT !.busy = v] => q.busy = v /\ q.queued = p.queued
         /\ q = [p EXCEPT !.queued = v] => q.queued = v /\ q.busy = p.busy
<1>1. CASE q = [p EXCEPT !.busy = v]
  BY <1>1 DEF Shows, IsPanel
<1>2. CASE q = [p EXCEPT !.queued = v]
  BY <1>2 DEF Shows, IsPanel
<1> QED BY <1>1, <1>2 DEF IsPanel

LEMMA ConfigSet ==
  ASSUME NEW p, IsPanel(p), NEW v, NEW q, q = [p EXCEPT !.config = v]
  PROVE  /\ IsPanel(q) /\ q.config = v /\ q.client = p.client /\ q.busy = p.busy
         /\ q.queued = p.queued /\ q.shown = p.shown /\ q.placeholder = p.placeholder
         /\ q.calls = p.calls
BY DEF IsPanel

LEMMA CallShows ==
  ASSUME NEW p, IsPanel(p), IsChannel(p.calls), NEW c
  PROVE  LET q == Call(p, c)
         IN  /\ Shows(p, q) /\ q.busy = p.busy /\ q.queued = p.queued
             /\ q.calls = Append(p.calls, c) /\ c \in Elements(q.calls)
<1> DEFINE q == Call(p, c)
<1>1. q = [p EXCEPT !.calls = Append(p.calls, c)]
  BY DEF Call, IsPanel
<1>2. /\ IsPanel(q) /\ q.calls = Append(p.calls, c)
      /\ q.client = p.client /\ q.config = p.config /\ q.shown = p.shown
      /\ q.placeholder = p.placeholder /\ q.busy = p.busy /\ q.queued = p.queued
  BY <1>1 DEF IsPanel
<1>3. IsChannel(q.calls) /\ Elements(q.calls) = Elements(p.calls) \cup {c}
  BY <1>2, Sent, ElementsSent
<1> HIDE DEF q
<1>4. Shows(p, q) /\ c \in Elements(q.calls)
  BY <1>2, <1>3 DEF Shows
<1> QED BY <1>2, <1>4 DEF q

LEMMA ListCalled ==
  ASSUME NEW p, IsPanel(p), IsChannel(p.calls)
  PROVE  LET q == List(p, p.config)
         IN  Shows(p, q) /\ q.busy = p.busy /\ q.queued = p.queued /\ Due(q) /\ Awaits(q)
<1> DEFINE c == [kind |-> "ListItems", config |-> p.config]
           q == List(p, p.config)
<1>1. /\ Shows(p, q) /\ q.busy = p.busy /\ q.queued = p.queued
      /\ q.calls = Append(p.calls, c) /\ c \in Elements(q.calls)
  BY CallShows DEF List
<1>2. c.kind = "ListItems" /\ c.config = p.config
  OBVIOUS
<1> HIDE DEF c, q
<1>3. LastCall(q.calls, p.config)
  BY <1>1, <1>2, LastSent
<1>4. Due(q) /\ Awaits(q)
  BY <1>1, <1>2, <1>3 DEF Due, Awaits, IsRefresh, Shows
<1> QED BY <1>1, <1>4 DEF q

LEMMA RefreshItemsDoes ==
  ASSUME NEW p, IsPanel(p), IsChannel(p.calls), Works(p)
  PROVE  LET q == RefreshItems(p)
         IN  /\ Shows(p, q) /\ Works(q)
             /\ q.busy => p.busy \/ Awaits(q)
             /\ p.client = "on" => Due(q)
<1> DEFINE q == RefreshItems(p)
           b == [p EXCEPT !.busy = TRUE]
<1>1. CASE p.client # "on"
  <2>1. q = p
    BY <1>1 DEF RefreshItems
  <2> QED BY <1>1, <2>1 DEF Shows
<1>2. CASE p.client = "on" /\ p.busy
  <2>1. q = [p EXCEPT !.queued = TRUE]
    BY <1>2 DEF RefreshItems
  <2> HIDE DEF q
  <2>2. Shows(p, q) /\ q.queued = TRUE /\ q.busy = p.busy
    BY <2>1, MarksShow
  <2>3. Works(q) /\ Due(q)
    BY <1>2, <2>2 DEF Works, Shows, Due
  <2> QED BY <1>2, <2>2, <2>3 DEF q
<1>3. CASE p.client = "on" /\ ~p.busy
  <2>1. Shows(p, b) /\ b.busy = TRUE /\ b.queued = p.queued /\ b.calls = p.calls
    BY MarksShow
  <2>2. IsPanel(b) /\ IsChannel(b.calls) /\ b.config = p.config
    BY <2>1 DEF Shows
  <2> DEFINE c == [kind |-> "GetConfig", refresh |-> TRUE]
  <2>3. q = Call(b, c) \/ q = List(b, p.config)
    BY <1>3 DEF RefreshItems
  <2> HIDE DEF b, q
  <2>4. CASE q = Call(b, c)
    <3>1. Shows(b, q) /\ q.busy = b.busy /\ q.queued = b.queued /\ c \in Elements(q.calls)
      BY <2>2, <2>4, CallShows
    <3>2. c.kind = "GetConfig" /\ IsRefresh(c)
      BY DEF IsRefresh
    <3>3. Due(q) /\ Awaits(q)
      BY <3>1, <3>2 DEF Due, AsksConfig, Awaits
    <3>4. Works(q)
      BY <2>1, <3>1 DEF Works, Shows
    <3> QED BY <2>1, <3>1, <3>3, <3>4, ShowsTwice DEF q
  <2>5. CASE q = List(b, p.config)
    <3>1. Shows(b, q) /\ q.busy = b.busy /\ q.queued = b.queued /\ Due(q) /\ Awaits(q)
      BY <2>2, <2>5, ListCalled
    <3>2. Works(q)
      BY <2>1, <3>1 DEF Works, Shows
    <3> QED BY <2>1, <3>1, <3>2, ShowsTwice DEF q
  <2> QED BY <2>3, <2>4, <2>5
<1> QED BY <1>1, <1>2, <1>3

LEMMA FinishDoes ==
  ASSUME NEW p, IsPanel(p), IsChannel(p.calls), Works(p)
  PROVE  LET q == Finish(p)
         IN  /\ Shows(p, q) /\ Works(q)
             /\ q.busy => Awaits(q)
             /\ p.client = "on" => Onward(p, q)
<1> DEFINE q == Finish(p)
           b == [p EXCEPT !.busy = FALSE]
           c == [b EXCEPT !.queued = FALSE]
<1>1. Shows(p, b) /\ b.calls = p.calls /\ b.busy = FALSE /\ b.queued = p.queued
  BY MarksShow
<1>2. [p EXCEPT !.busy = FALSE, !.queued = FALSE] = c
  OBVIOUS
<1>3. q = IF p.queued THEN RefreshItems(c) ELSE b
  BY <1>2 DEF Finish
<1> HIDE DEF b, q
<1>4. Shows(b, c) /\ c.queued = FALSE /\ c.busy = b.busy
  BY <1>1, MarksShow DEF Shows
<1>5. Shows(p, c) /\ Works(c)
  BY <1>1, <1>4, ShowsTwice DEF Works, Shows
<1> HIDE DEF c
<1>6. CASE p.queued
  <2>1. /\ Shows(c, q) /\ Works(q)
        /\ q.busy => c.busy \/ Awaits(q)
        /\ c.client = "on" => Due(q)
    BY <1>3, <1>5, <1>6, RefreshItemsDoes DEF Shows
  <2>2. Shows(p, q)
    BY <1>5, <2>1, ShowsTwice
  <2> QED BY <1>1, <1>4, <1>5, <2>1, <2>2 DEF q, Onward, Shows
<1>7. CASE ~p.queued
  <2>1. q = b
    BY <1>3, <1>7
  <2>2. Works(q)
    BY <1>1, <1>7, <2>1 DEF Works, Shows
  <2>3. Onward(p, q)
    BY <1>1, <1>7, <2>1 DEF Onward, Due, AsksConfig, Shows
  <2> QED BY <1>1, <2>1, <2>2, <2>3 DEF q
<1> QED BY <1>6, <1>7 DEF Works

LEMMA RefreshConfigDoes ==
  ASSUME NEW p, IsPanel(p), IsChannel(p.calls)
  PROVE  LET q == RefreshConfig(p)
         IN  Shows(p, q) /\ q.busy = p.busy /\ q.queued = p.queued /\ AsksConfig(q)
<1> DEFINE c == [kind |-> "GetConfig", refresh |-> FALSE]
           q == RefreshConfig(p)
<1>1. Shows(p, q) /\ q.busy = p.busy /\ q.queued = p.queued /\ c \in Elements(q.calls)
  BY CallShows DEF RefreshConfig
<1>2. c.kind = "GetConfig"
  OBVIOUS
<1> HIDE DEF c, q
<1> QED BY <1>1, <1>2 DEF AsksConfig, q

LEMMA MoreMenus ==
  ASSUME NEW p, NEW q, IsChannel(p.calls), q.config = p.config, q.queued = p.queued,
         NEW more, IsChannel(more), q.calls = p.calls \o more,
         \A c \in Elements(more) : c.kind = "GetMenu"
  PROVE  Onward(p, q)
<1>1. /\ LastCall(p.calls, p.config) => LastCall(q.calls, p.config)
      /\ Elements(q.calls) = Elements(p.calls) \cup Elements(more)
  BY MenusJoined
<1>2. Due(p) => Due(q)
  BY <1>1 DEF Due, AsksConfig
<1>3. NoLists(p.calls) => NoLists(q.calls)
  BY <1>1 DEF NoLists
<1> QED BY <1>2, <1>3 DEF Onward

LEMMA NothingMore ==
  ASSUME NEW p, NEW q, q.config = p.config, q.queued = p.queued, q.calls = p.calls
  PROVE  Onward(p, q)
BY DEF Onward, Due, AsksConfig

LEMMA RefreshMenuDoes ==
  ASSUME NEW p, IsPanel(p), IsChannel(p.calls), NEW k
  PROVE  LET q == RefreshMenu(p, k)
         IN  Shows(p, q) /\ q.busy = p.busy /\ q.queued = p.queued /\ Onward(p, q)
<1> DEFINE q == RefreshMenu(p, k)
           c == MenuCall(k, p.shown[k].id)
<1>1. CASE q = p
  <2>1. Onward(p, p)
    BY NothingMore
  <2> QED BY <1>1, <2>1 DEF Shows
<1>2. CASE q = Call(p, c)
  <2>1. Shows(p, q) /\ q.busy = p.busy /\ q.queued = p.queued /\ q.calls = Append(p.calls, c)
    BY <1>2, CallShows
  <2>2. c.kind = "GetMenu"
    BY DEF MenuCall
  <2> HIDE DEF q, c
  <2>3. IsChannel(<<c>>) /\ Append(p.calls, c) = p.calls \o <<c>> /\ Elements(<<c>>) = {c}
    <3> DEFINE one == <<c>>
    <3>1. IsChannel(one) /\ Len(one) = 1 /\ one[1] = c
      BY OneMessage
    <3> HIDE DEF one
    <3>2. p.calls \o one = Append(p.calls, one[1]) /\ DOMAIN one = 1 .. 1
      BY <3>1, JoinedOne, ChannelFacts
    <3>3. Elements(one) = {c}
      BY <3>1, <3>2 DEF Elements
    <3> QED BY <3>1, <3>2, <3>3 DEF one
  <2>4. Onward(p, q)
    BY <2>1, <2>2, <2>3, MoreMenus DEF Shows
  <2> QED BY <2>1, <2>4 DEF q
<1>3. q = p \/ q = Call(p, c)
  BY DEF RefreshMenu
<1> QED BY <1>1, <1>2, <1>3

LEMMA UpdateMenuDoes ==
  ASSUME NEW p, IsPanel(p), IsChannel(p.calls), Works(p), NEW c, NEW menu
  PROVE  LET q == UpdateMenu(p, c, menu)
         IN  /\ q.calls = p.calls /\ q.busy = p.busy /\ Works(q)
             /\ q.config = p.config /\ q.placeholder = p.placeholder
             /\ RunningOf(q) = RunningOf(p) /\ Onward(p, q)
<1> DEFINE q == UpdateMenu(p, c, menu)
<1>1. CASE q = p
  <2>1. Onward(p, p)
    BY NothingMore
  <2> QED BY <1>1, <2>1
<1>2. CASE q # p
  <2>1. c.key \in DOMAIN p.shown
    BY <1>2 DEF UpdateMenu
  <2> DEFINE shown == [p.shown EXCEPT ![c.key].menu = menu]
  <2>2. q = [p EXCEPT !.shown = shown]
    BY <1>2 DEF UpdateMenu
  <2>3. DOMAIN shown = DOMAIN p.shown /\ \A k \in DOMAIN shown : shown[k].run = p.shown[k].run
    BY <2>1
  <2> HIDE DEF q, shown
  <2>4. /\ q.calls = p.calls /\ q.busy = p.busy /\ q.queued = p.queued /\ q.config = p.config
        /\ q.placeholder = p.placeholder /\ q.shown = shown
    BY <2>2 DEF IsPanel
  <2>5. RunningOf(q) = RunningOf(p)
    BY <2>3, <2>4 DEF RunningOf
  <2>6. Onward(p, q) /\ Works(q)
    BY <2>4, NothingMore DEF Works
  <2> QED BY <2>4, <2>5, <2>6 DEF q
<1> QED BY <1>1, <1>2

(* A list that is painted to its end is what is shown then. *)
LEMMA PaintDoes ==
  ASSUME NEW p, NEW r, PanelOK(p, r), Works(p), NEW list, IsList(list, r), NEW conf
  PROVE  LET q == Paint(p, list, conf, DOMAIN list)
         IN  /\ q.busy = p.busy /\ q.queued = p.queued /\ Works(q)
             /\ q.config = p.config /\ Onward(p, q)
             /\ Elements(p.calls) \subseteq Elements(q.calls)
             /\ RunningOf(q) = [k \in DOMAIN list |-> list[k]]
             /\ q.placeholder <=> DOMAIN list = {} /\ conf.showWhenEmpty
<1> DEFINE done  == DOMAIN list
           new   == done \ DOMAIN p.shown
           id    == p.made + 1
           Indicator(k) ==
             IF k \in new THEN [id |-> id, born |-> list[k], run |-> list[k], menu |-> 0]
             ELSE [p.shown[k] EXCEPT !.run = list[k]]
           asked == {MenuCall(k, id) : k \in new}
           asks  == IF p.client = "on" THEN SetToSeq(asked) ELSE <<>>
           shown == [k \in done |-> Indicator(k)]
           made  == IF new = {} THEN p.made ELSE id
           placeholder == done = {} /\ conf.showWhenEmpty
           calls == p.calls \o asks
           q     == Paint(p, list, conf, done)
<1>1. q = [p EXCEPT !.shown = shown, !.made = made, !.placeholder = placeholder, !.calls = calls]
  BY DEF Paint
<1>2. IsPanel(p) /\ IsChannel(p.calls) /\ IsFiniteSet(done)
  BY DEF PanelOK, IsList
<1>3. IsChannel(asks) /\ \A c \in Elements(asks) : c.kind = "GetMenu"
  <2>1. IsFiniteSet(asked)
    <3>1. IsFiniteSet(new)
      BY <1>2, FS_Subset
    <3> DEFINE f == [k \in new |-> MenuCall(k, id)]
    <3>2. f \in Surjection(new, asked)
      BY DEF Surjection
    <3> HIDE DEF new, id, asked, f
    <3> QED BY <3>1, <3>2, FS_Surjection
  <2>2. IsChannel(SetToSeq(asked)) /\ Elements(SetToSeq(asked)) \subseteq asked
    BY <2>1, SetInSequence
  <2>3. IsChannel(<<>>) /\ Elements(<<>>) = {}
    BY EmptyChannel DEF Elements
  <2>4. \A c \in asked : c.kind = "GetMenu"
    BY DEF MenuCall
  <2> HIDE DEF asked
  <2> QED BY <2>2, <2>3, <2>4
<1>4. DOMAIN shown = done /\ \A k \in done : shown[k].run = list[k]
  <2>1. \A k \in done \ new : IsIndicator(p.shown[k])
    BY DEF PanelOK, ShownOK
  <2>2. ASSUME NEW k \in done PROVE shown[k].run = list[k]
    <3>1. CASE k \in new
      BY <3>1
    <3>2. CASE k \notin new
      <4>1. shown[k] = [p.shown[k] EXCEPT !.run = list[k]] /\ IsIndicator(p.shown[k])
        BY <2>1, <2>2, <3>2
      <4> HIDE DEF shown
      <4> QED BY <4>1 DEF IsIndicator
    <3> QED BY <3>1, <3>2
  <2> QED BY <2>2
<1> HIDE DEF q, shown, made, placeholder, asks
<1>5. /\ q.busy = p.busy /\ q.queued = p.queued /\ q.config = p.config /\ q.calls = calls
      /\ q.shown = shown /\ q.placeholder = placeholder
  BY <1>1, <1>2 DEF IsPanel
<1>6. Onward(p, q) /\ Elements(p.calls) \subseteq Elements(q.calls)
  BY <1>2, <1>3, <1>5, MoreMenus, MenusJoined
<1>7. RunningOf(q) = [k \in done |-> list[k]]
  BY <1>4, <1>5 DEF RunningOf
<1>8. q.placeholder \in BOOLEAN /\ (q.placeholder <=> done = {} /\ conf.showWhenEmpty)
  BY <1>5 DEF placeholder
<1>9. Works(q)
  BY <1>5, <1>8 DEF Works
<1> QED BY <1>5, <1>6, <1>7, <1>8, <1>9 DEF q

-----------------------------------------------------------------------------
(* What the turns of Deliver do to it. *)
LEMMA ClientSet ==
  ASSUME NEW p, IsPanel(p), NEW v, NEW q, q = [p EXCEPT !.client = v]
  PROVE  /\ IsPanel(q) /\ q.client = v /\ q.config = p.config /\ q.busy = p.busy
         /\ q.queued = p.queued /\ q.placeholder = p.placeholder /\ q.calls = p.calls
BY DEF IsPanel

LEMMA NameAppearedDoes ==
  ASSUME NEW p, IsPanel(p), IsChannel(p.calls), Works(p)
  PROVE  LET q == NameAppeared(p)
         IN  /\ Works(q) /\ Elements(p.calls) \subseteq Elements(q.calls)
             /\ q.busy => p.busy \/ Awaits(q)
             /\ p.client = "off" => AsksConfig(q)
             /\ p.client # "off" => q = p
<1>1. CASE p.client = "off"
  <2> DEFINE a == [p EXCEPT !.client = "on"]
             b == RefreshItems(a)
             q == RefreshConfig(b)
  <2>1. NameAppeared(p) = q
    BY <1>1 DEF NameAppeared
  <2>2. /\ IsPanel(a) /\ a.busy = p.busy /\ a.queued = p.queued
        /\ a.placeholder = p.placeholder /\ a.calls = p.calls
    BY ClientSet
  <2> HIDE DEF a
  <2>3. /\ Shows(a, b) /\ Works(b)
        /\ b.busy => a.busy \/ Awaits(b)
    BY <2>2, RefreshItemsDoes DEF Works
  <2> HIDE DEF b
  <2>4. Shows(b, q) /\ q.busy = b.busy /\ q.queued = b.queued /\ AsksConfig(q)
    BY <2>3, RefreshConfigDoes DEF Shows
  <2> HIDE DEF q
  <2>5. Works(q)
    BY <2>3, <2>4 DEF Works, Shows
  <2>6. Elements(p.calls) \subseteq Elements(b.calls) /\ Elements(b.calls) \subseteq Elements(q.calls)
    BY <2>2, <2>3, <2>4 DEF Shows
  <2>7. q.busy => p.busy \/ Awaits(q)
    BY <2>2, <2>3, <2>4, <2>6 DEF Awaits
  <2> QED BY <1>1, <2>1, <2>4, <2>5, <2>6, <2>7
<1>2. CASE p.client # "off"
  BY <1>2 DEF NameAppeared
<1> QED BY <1>1, <1>2

LEMMA OwnerKnownDoes ==
  ASSUME NEW p, IsPanel(p), IsChannel(p.calls), Works(p), NEW msg
  PROVE  LET q == OwnerKnown(p, msg)
         IN  /\ Works(q) /\ Elements(p.calls) \subseteq Elements(q.calls)
             /\ q.busy => p.busy \/ Awaits(q)
             /\ msg.up => AsksConfig(q)
<1> DEFINE a == [p EXCEPT !.client = "off"]
           q == NameAppeared(a)
<1>1. OwnerKnown(p, msg) = IF msg.up THEN q ELSE a
  BY DEF OwnerKnown
<1>2. /\ IsPanel(a) /\ a.client = "off" /\ a.busy = p.busy /\ a.queued = p.queued
      /\ a.placeholder = p.placeholder /\ a.calls = p.calls
  BY ClientSet
<1>3. Works(a)
  BY <1>2 DEF Works
<1> HIDE DEF a
<1>4. /\ Works(q) /\ Elements(a.calls) \subseteq Elements(q.calls) /\ AsksConfig(q)
      /\ q.busy => a.busy \/ Awaits(q)
  BY <1>2, <1>3, NameAppearedDoes
<1> HIDE DEF q
<1> QED BY <1>1, <1>2, <1>3, <1>4

LEMMA NameVanishedDoes ==
  ASSUME NEW p, NEW r, PanelOK(p, r), Works(p)
  PROVE  LET q == NameVanished(p)
         IN  Works(q) /\ q.calls = p.calls /\ q.busy = p.busy /\ q.client # "on"
<1>1. CASE p.client = "on"
  <2> DEFINE a == [p EXCEPT !.client = "off"]
             b == [a EXCEPT !.shown = NoItems]
             q == [b EXCEPT !.placeholder = FALSE]
  <2>1. NameVanished(p) = q
    BY <1>1 DEF NameVanished, RemoveAll
  <2>2. /\ IsPanel(a) /\ a.client = "off" /\ a.busy = p.busy /\ a.queued = p.queued
        /\ a.calls = p.calls
    BY ClientSet DEF PanelOK
  <2> HIDE DEF a
  <2>3. /\ IsPanel(b) /\ b.client = "off" /\ b.busy = p.busy /\ b.queued = p.queued
        /\ b.calls = p.calls
    BY <2>2 DEF IsPanel
  <2> HIDE DEF b
  <2>4. /\ q.client = "off" /\ q.busy = p.busy /\ q.queued = p.queued
        /\ q.calls = p.calls /\ q.placeholder = FALSE
    BY <2>3 DEF IsPanel
  <2> HIDE DEF q
  <2> QED BY <2>1, <2>4 DEF Works
<1>2. CASE p.client # "on"
  BY <1>2 DEF NameVanished
<1> QED BY <1>1, <1>2

(* A reply changes the panel by what it gives.                             *)
Accepts(p, msg, q) ==
  /\ q.config = IF Gives(msg, "GetConfig") THEN msg.value ELSE p.config
  /\ Due(q) \/ (Onward(p, q) /\ ~Gives(msg, "GetConfig"))
  /\ IF Gives(msg, "ListItems")
     THEN /\ RunningOf(q) = [k \in DOMAIN msg.value |-> msg.value[k]]
          /\ q.placeholder <=> DOMAIN msg.value = {} /\ msg.call.config.showWhenEmpty
     ELSE RunningOf(q) = RunningOf(p) /\ q.placeholder = p.placeholder

LEMMA ResumedDoes ==
  ASSUME NEW p, NEW r, PanelOK(p, r), Works(p), p.leftover = {},
         NEW msg, msg.kind = "reply", MsgOK(msg, p, r), NEW q \in Resumed(p, msg)
  PROVE  /\ Works(q) /\ Elements(p.calls) \subseteq Elements(q.calls)
         /\ q.busy => Awaits(q) \/ (p.busy /\ ~IsRefresh(msg.call))
         /\ p.client = "on" => Accepts(p, msg, q)
<1> USE DEF Accepts
<1>1. IsPanel(p) /\ IsChannel(p.calls)
  BY DEF PanelOK
<1>2. /\ msg.call.kind \in {"GetConfig", "ListItems", "GetMenu"}
      /\ ~msg.failed /\ msg.call.kind = "ListItems" => IsList(msg.value, r)
  BY DEF MsgOK, CallOK
<1>3. \A a, b : Shows(a, b) => RunningOf(b) = RunningOf(a) /\ b.placeholder = a.placeholder
  BY DEF Shows, RunningOf
<1>4. /\ Shows(p, Finish(p)) /\ Works(Finish(p))
      /\ Finish(p).busy => Awaits(Finish(p))
      /\ p.client = "on" => Onward(p, Finish(p))
  BY <1>1, FinishDoes
<1>5. Onward(p, p) /\ Shows(p, p)
  BY <1>1, NothingMore DEF Shows
<1>6. CASE msg.call.kind = "GetConfig" /\ msg.failed
  <2>1. q = IF msg.call.refresh THEN Finish(p) ELSE p
    BY <1>6 DEF Resumed
  <2>2. ~Gives(msg, "GetConfig") /\ ~Gives(msg, "ListItems")
        /\ (IsRefresh(msg.call) <=> msg.call.refresh)
    BY <1>6 DEF Gives, IsRefresh
  <2>3. CASE msg.call.refresh
    BY <1>3, <1>4, <2>1, <2>2, <2>3 DEF Shows
  <2>4. CASE ~msg.call.refresh
    BY <1>5, <2>1, <2>2, <2>4 DEF Shows
  <2> QED BY <2>3, <2>4
<1>7. CASE msg.call.kind = "GetConfig" /\ ~msg.failed
  <2> DEFINE a == [p EXCEPT !.config = msg.value]
  <2>1. /\ IsPanel(a) /\ a.config = msg.value /\ a.client = p.client /\ a.busy = p.busy
        /\ a.queued = p.queued /\ a.shown = p.shown /\ a.placeholder = p.placeholder
        /\ a.calls = p.calls
    BY <1>1, ConfigSet
  <2>2. q = IF ~msg.call.refresh THEN RefreshItems(a)
            ELSE IF a.client = "on" THEN List(a, a.config) ELSE Finish(a)
    <3>1. CASE msg.call.refresh
      BY <1>7, <2>1, <3>1 DEF Resumed
    <3>2. CASE ~msg.call.refresh
      BY <1>7, <3>2 DEF Resumed
    <3> QED BY <3>1, <3>2
  <2> HIDE DEF a
  <2>3. IsPanel(a) /\ IsChannel(a.calls) /\ Works(a)
    BY <1>1, <2>1 DEF Works
  <2>4. Gives(msg, "GetConfig") /\ ~Gives(msg, "ListItems")
        /\ (IsRefresh(msg.call) <=> msg.call.refresh)
    BY <1>7 DEF Gives, IsRefresh
  <2>5. ASSUME Shows(a, q)
        PROVE  /\ Elements(p.calls) \subseteq Elements(q.calls) /\ q.config = msg.value
               /\ RunningOf(q) = RunningOf(p) /\ q.placeholder = p.placeholder
    BY <1>3, <2>1, <2>5 DEF Shows, RunningOf
  <2>6. CASE ~msg.call.refresh
    <3>1. /\ Shows(a, q) /\ Works(q)
          /\ q.busy => a.busy \/ Awaits(q)
          /\ a.client = "on" => Due(q)
      BY <2>2, <2>3, <2>6, RefreshItemsDoes
    <3> QED BY <2>1, <2>4, <2>5, <2>6, <3>1
  <2>7. CASE msg.call.refresh /\ a.client = "on"
    <3>1. Shows(a, q) /\ q.busy = a.busy /\ q.queued = a.queued /\ Due(q) /\ Awaits(q)
      BY <2>2, <2>3, <2>7, ListCalled
    <3>2. Works(q)
      BY <2>3, <3>1 DEF Works, Shows
    <3> QED BY <2>1, <2>4, <2>5, <3>1, <3>2
  <2>8. CASE msg.call.refresh /\ a.client # "on"
    <3>1. /\ Shows(a, q) /\ Works(q)
          /\ q.busy => Awaits(q)
      BY <2>2, <2>3, <2>8, FinishDoes
    <3> QED BY <2>1, <2>5, <2>8, <3>1
  <2> QED BY <2>6, <2>7, <2>8
<1>8. CASE msg.call.kind = "ListItems" /\ msg.failed
  <2>1. q = Finish(p)
    BY <1>8 DEF Resumed
  <2>2. ~Gives(msg, "GetConfig") /\ ~Gives(msg, "ListItems")
    BY <1>8 DEF Gives
  <2> QED BY <1>3, <1>4, <2>1, <2>2 DEF Shows
<1>9. CASE msg.call.kind = "ListItems" /\ ~msg.failed
  <2> DEFINE list == msg.value
             b == Paint(p, list, msg.call.config, DOMAIN list)
  <2>1. q = Finish(b)
    <3>1. PICK done \in Reached(p, list) : q = Finish(Paint(p, list, msg.call.config, done))
      BY <1>9 DEF Resumed
    <3>2. Reached(p, list) = {DOMAIN list}
      BY DEF Reached
    <3> QED BY <3>1, <3>2
  <2>2. Gives(msg, "ListItems") /\ ~Gives(msg, "GetConfig")
    BY <1>9 DEF Gives
  <2>3. /\ b.busy = p.busy /\ b.queued = p.queued /\ Works(b)
        /\ b.config = p.config /\ Onward(p, b)
        /\ Elements(p.calls) \subseteq Elements(b.calls)
        /\ RunningOf(b) = [k \in DOMAIN list |-> list[k]]
        /\ b.placeholder <=> DOMAIN list = {} /\ msg.call.config.showWhenEmpty
    BY <1>2, <1>9, PaintDoes
  <2>4. PanelOK(b, r) /\ b.client = p.client
    BY <1>2, <1>9, PaintKeeps
  <2> HIDE DEF b
  <2>5. /\ Shows(b, q) /\ Works(q)
        /\ q.busy => Awaits(q)
        /\ b.client = "on" => Onward(b, q)
    BY <2>1, <2>3, <2>4, FinishDoes DEF PanelOK
  <2>6. p.client = "on" => Onward(p, q)
    BY <2>3, <2>4, <2>5 DEF Onward
  <2>7. Elements(p.calls) \subseteq Elements(q.calls) /\ q.config = p.config
        /\ RunningOf(q) = RunningOf(b) /\ q.placeholder = b.placeholder
    BY <1>3, <2>3, <2>5 DEF Shows
  <2> QED BY <2>2, <2>3, <2>5, <2>6, <2>7
<1>10. CASE msg.call.kind = "GetMenu"
  <2>1. q = IF msg.failed THEN p ELSE UpdateMenu(p, msg.call, msg.value)
    BY <1>10 DEF Resumed
  <2>2. ~Gives(msg, "GetConfig") /\ ~Gives(msg, "ListItems") /\ ~IsRefresh(msg.call)
    BY <1>10 DEF Gives, IsRefresh
  <2>3. CASE msg.failed
    BY <1>5, <2>1, <2>2, <2>3 DEF Shows
  <2>4. CASE ~msg.failed
    <3>1. /\ q.calls = p.calls /\ q.busy = p.busy /\ Works(q)
          /\ q.config = p.config /\ q.placeholder = p.placeholder
          /\ RunningOf(q) = RunningOf(p) /\ Onward(p, q)
      BY <1>1, <2>1, <2>4, UpdateMenuDoes
    <3> QED BY <2>2, <3>1
  <2> QED BY <2>3, <2>4
<1> QED BY <1>2, <1>6, <1>7, <1>8, <1>9, <1>10

LEMMA HeardDoes ==
  ASSUME NEW p, IsPanel(p), IsChannel(p.calls), Works(p),
         NEW msg, msg.kind = "signal", msg.signal \in {"items", "config", "menu"}
  PROVE  LET q == Heard(p, msg)
         IN  /\ Works(q) /\ Shows(p, q)
             /\ q.busy => p.busy \/ Awaits(q)
             /\ p.client = "on" =>
                  /\ Tells(msg, "config") => AsksConfig(q)
                  /\ Due(q) \/ (Onward(p, q) /\ ~Tells(msg, "config") /\ ~Tells(msg, "items"))
<1> DEFINE q == Heard(p, msg)
<1>1. CASE p.client # "on"
  <2>1. q = p
    BY <1>1 DEF Heard
  <2> QED BY <1>1, <2>1 DEF Shows
<1>2. CASE p.client = "on" /\ msg.signal = "items"
  <2>1. q = RefreshItems(p)
    BY <1>2 DEF Heard
  <2>2. ~Tells(msg, "config")
    BY <1>2 DEF Tells
  <2> HIDE DEF q
  <2>3. /\ Shows(p, q) /\ Works(q)
        /\ q.busy => p.busy \/ Awaits(q)
        /\ Due(q)
    BY <1>2, <2>1, RefreshItemsDoes
  <2> QED BY <2>2, <2>3 DEF q
<1>3. CASE p.client = "on" /\ msg.signal = "config"
  <2>1. q = RefreshConfig(p)
    BY <1>3 DEF Heard
  <2> HIDE DEF q
  <2>2. Shows(p, q) /\ q.busy = p.busy /\ q.queued = p.queued /\ AsksConfig(q)
    BY <2>1, RefreshConfigDoes
  <2>3. Works(q) /\ Due(q)
    BY <2>2 DEF Works, Shows, Due
  <2> QED BY <2>2, <2>3 DEF q
<1>4. CASE p.client = "on" /\ msg.signal = "menu"
  <2>1. q = RefreshMenu(p, msg.key)
    BY <1>4 DEF Heard
  <2>2. ~Tells(msg, "config") /\ ~Tells(msg, "items")
    BY <1>4 DEF Tells
  <2> HIDE DEF q
  <2>3. Shows(p, q) /\ q.busy = p.busy /\ q.queued = p.queued /\ Onward(p, q)
    BY <2>1, RefreshMenuDoes
  <2>4. Works(q)
    BY <2>3 DEF Works, Shows
  <2> QED BY <2>2, <2>3, <2>4 DEF q
<1> QED BY <1>1, <1>2, <1>3, <1>4

LEMMA TakenOrLeft ==
  ASSUME NEW s, IsChannel(s), s # <<>>, NEW m \in Elements(s)
  PROVE  m = Head(s) \/ m \in Elements(Tail(s))
<1>1. /\ Len(s) \in Nat /\ Len(s) > 0 /\ Head(s) = s[1] /\ DOMAIN s = 1 .. Len(s)
      /\ DOMAIN Tail(s) = 1 .. Len(s) - 1
      /\ \A n \in 1 .. Len(s) - 1 : Tail(s)[n] = s[n + 1]
  BY Taken, ChannelFacts
<1>2. PICK n \in 1 .. Len(s) : m = s[n]
  BY <1>1 DEF Elements
<1>3. n = 1 \/ (n - 1 \in 1 .. Len(s) - 1 /\ (n - 1) + 1 = n)
  BY <1>1
<1> QED BY <1>1, <1>2, <1>3 DEF Elements

(* What was to come either came or is still to come. *)
LEMMA StillComes ==
  ASSUME NEW msg, IsChannel(inbox), inbox # <<>>, msg = Head(inbox), inbox' = Tail(inbox),
         items' = items, config' = config, items = [k \in DOMAIN items |-> items[k]],
         ConfigComes, PictureComes,
         Elements(panel.calls) \subseteq Elements(panel'.calls),
         panel'.config = IF Gives(msg, "GetConfig") THEN msg.value ELSE panel.config,
         Tells(msg, "config") => AsksConfig(panel'),
         \/ Due(panel')
         \/ /\ Onward(panel, panel') /\ ~Gives(msg, "GetConfig")
            /\ ~Tells(msg, "config") /\ ~Tells(msg, "items"),
         IF Gives(msg, "ListItems")
         THEN /\ RunningOf(panel') = [k \in DOMAIN msg.value |-> msg.value[k]]
              /\ panel'.placeholder <=> DOMAIN msg.value = {} /\ msg.call.config.showWhenEmpty
         ELSE RunningOf(panel') = RunningOf(panel) /\ panel'.placeholder = panel.placeholder
  PROVE  ConfigComes' /\ PictureComes'
<1>1. \A m \in Elements(inbox) : m = msg \/ m \in Elements(inbox')
  BY TakenOrLeft
<1>2. Elements(inbox') \subseteq Elements(inbox) /\ msg \in Elements(inbox)
  BY ElementsTaken
<1>3. ConfigComes'
  <2>1. CASE AsksConfig(panel)
    BY <2>1 DEF AsksConfig, ConfigComes
  <2>2. CASE \E m \in Elements(inbox) : Tells(m, "config")
    BY <1>1, <2>2 DEF ConfigComes
  <2>3. CASE LastConfig(inbox, config)
    <3>1. \/ LastConfig(inbox', config)
          \/ /\ Gives(msg, "GetConfig") /\ msg.value = config
             /\ \A m \in Elements(inbox') : ~Gives(m, "GetConfig")
      BY <2>3, LastTaken
    <3> QED BY <3>1 DEF ConfigComes
  <2>4. CASE panel.config = config /\ \A m \in Elements(inbox) : ~Gives(m, "GetConfig")
    BY <1>2, <2>4 DEF ConfigComes
  <2> QED BY <2>1, <2>2, <2>3, <2>4 DEF ConfigComes
<1>4. PictureComes'
  <2> SUFFICES ASSUME ~Due(panel') PROVE PictureComes'
    BY DEF PictureComes
  <2>1. /\ ~Due(panel) /\ panel'.config = panel.config
        /\ NoLists(panel.calls) => NoLists(panel'.calls)
        /\ ~Gives(msg, "GetConfig") /\ ~Tells(msg, "config") /\ ~Tells(msg, "items")
    BY DEF Onward
  <2>2. CASE \E m \in Elements(inbox) :
               Tells(m, "config") \/ Tells(m, "items") \/ Gives(m, "GetConfig")
    BY <1>1, <2>1, <2>2 DEF PictureComes
  <2>3. CASE NoLists(panel.calls) /\ LastList(inbox, items, panel.config)
    <3>1. CASE LastList(inbox', items, panel.config)
      BY <2>1, <2>3, <3>1 DEF PictureComes
    <3>2. CASE /\ Gives(msg, "ListItems") /\ msg.value = items /\ msg.call.config = panel.config
               /\ \A m \in Elements(inbox') : ~Gives(m, "ListItems")
      <4>1. RunningOf(panel') = items
        BY <3>2
      <4>2. panel'.placeholder <=> DOMAIN items = {} /\ panel.config.showWhenEmpty
        BY <3>2
      <4> QED BY <2>1, <2>3, <3>2, <4>1, <4>2 DEF PictureComes
    <3> QED BY <2>3, <3>1, <3>2, LastTaken
  <2>4. CASE /\ NoLists(panel.calls) /\ \A m \in Elements(inbox) : ~Gives(m, "ListItems")
             /\ RunningOf(panel) = items
             /\ panel.placeholder <=> DOMAIN items = {} /\ panel.config.showWhenEmpty
    BY <1>2, <2>1, <2>4 DEF PictureComes
  <2> QED BY <2>1, <2>2, <2>3, <2>4 DEF PictureComes
<1> QED BY <1>3, <1>4

LEMMA DeliverFollows == ASSUME MenuInv, AloneInv, FollowInv, Deliver PROVE FollowInv'
<1> DEFINE msg == Head(inbox)
<1>1. /\ PanelOK(panel, runs) /\ IsPanel(panel) /\ IsChannel(panel.calls) /\ Works(panel)
      /\ MsgOK(msg, panel, runs) /\ panel.leftover = {} /\ msg = inbox[1]
      /\ IsChannel(inbox) /\ inbox # <<>> /\ inbox' = Tail(inbox)
  BY Taken, ElementsTaken DEF Deliver, MenuInv, PanelOK, AloneInv, FollowInv
<1>2. /\ items' = items /\ config' = config /\ items = [k \in DOMAIN items |-> items[k]]
  BY DEF Deliver, daemonVars, FollowInv
<1>3. \A m \in Elements(inbox) : m = msg \/ m \in Elements(inbox')
  BY <1>1, TakenOrLeft
<1>4. panel'.client = After(panel.client, msg)
  <2> DEFINE c == panel.client
  <2>1. c \in {"none", "new", "asked", "off", "on"} /\ Order(c, inbox, up) /\ Owner(c, inbox)
        /\ up \in BOOLEAN
    BY <1>1 DEF PanelOK, AloneInv
  <2>2. c \notin {"off", "on"} => \A n \in 1 .. Len(inbox) : ~IsListing(inbox[n])
    <3>1. \A n \in 1 .. Len(inbox) : inbox[n] \in Elements(inbox)
      BY <1>1, ChannelFacts DEF Elements
    <3> QED BY <3>1 DEF AloneInv, Unlisted
  <2> HIDE DEF c
  <2>3. IsListing(inbox[1]) /\ ~inbox[1].failed => c = "on"
    BY <1>1, <2>1, <2>2, OrderTaken
  <2> QED BY <1>1, <2>3, DeliverTurns DEF c
<1>5. /\ msg.kind = "owner" => panel' = OwnerKnown(panel, msg)
      /\ msg.kind = "back" => panel' = NameAppeared(panel)
      /\ msg.kind = "gone" => panel' = NameVanished(panel)
      /\ msg.kind = "signal" => panel' = Heard(panel, msg)
      /\ msg.kind = "reply" => panel' \in Resumed(panel, msg)
      /\ msg.kind = "unwatched" => panel' = panel
      /\ msg.kind \in {"owner", "unwatched", "back", "gone", "signal", "reply"}
      /\ msg.kind = "signal" => msg.signal \in {"items", "config", "menu"}
  BY <1>1 DEF Deliver, MsgOK
<1> HIDE DEF msg
<1>6. /\ Works(panel') /\ Elements(panel.calls) \subseteq Elements(panel'.calls)
      /\ panel'.busy => \/ Awaits(panel')
                        \/ panel.busy /\ (msg.kind = "reply" => ~IsRefresh(msg.call))
  <2>1. CASE msg.kind = "owner"
    BY <1>1, <1>5, <2>1, OwnerKnownDoes
  <2>2. CASE msg.kind = "back"
    BY <1>1, <1>5, <2>2, NameAppearedDoes
  <2>3. CASE msg.kind = "gone"
    BY <1>1, <1>5, <2>3, NameVanishedDoes
  <2>4. CASE msg.kind = "signal"
    <3>1. panel' = Heard(panel, msg) /\ msg.signal \in {"items", "config", "menu"}
      BY <1>5, <2>4
    <3>2. /\ Works(panel') /\ Shows(panel, panel')
          /\ panel'.busy => panel.busy \/ Awaits(panel')
      BY <1>1, <2>4, <3>1, HeardDoes
    <3> QED BY <2>4, <3>2 DEF Shows
  <2>5. CASE msg.kind = "reply"
    <3>1. panel' \in Resumed(panel, msg)
      BY <1>5, <2>5
    <3>2. /\ Works(panel') /\ Elements(panel.calls) \subseteq Elements(panel'.calls)
          /\ panel'.busy => Awaits(panel') \/ (panel.busy /\ ~IsRefresh(msg.call))
      BY <1>1, <2>5, <3>1, ResumedDoes
    <3> QED BY <3>2
  <2>6. CASE msg.kind = "unwatched"
    BY <1>1, <1>5, <2>6
  <2> QED BY <1>5, <2>1, <2>2, <2>3, <2>4, <2>5, <2>6
<1>7. panel'.busy => \/ Awaits(panel')
                     \/ \E m \in Elements(inbox') : m.kind = "reply" /\ IsRefresh(m.call)
  <2> SUFFICES ASSUME panel'.busy, ~Awaits(panel')
               PROVE  \E m \in Elements(inbox') : m.kind = "reply" /\ IsRefresh(m.call)
    OBVIOUS
  <2>1. panel.busy /\ (msg.kind = "reply" => ~IsRefresh(msg.call)) /\ ~Awaits(panel)
    BY <1>6 DEF Awaits
  <2>2. PICK m \in Elements(inbox) : m.kind = "reply" /\ IsRefresh(m.call)
    BY <2>1 DEF FollowInv
  <2> QED BY <1>3, <2>1, <2>2
<1>8. Connected(panel', inbox') => ConfigComes' /\ PictureComes'
  <2> SUFFICES ASSUME Connected(panel', inbox') PROVE ConfigComes' /\ PictureComes'
    OBVIOUS
  <2>1. ASSUME AsksConfig(panel')
        PROVE  ConfigComes' /\ PictureComes'
    BY <2>1 DEF ConfigComes, PictureComes, Due
  <2>2. CASE msg.kind = "owner"
    <3>1. msg.up
      BY <1>4, <2>2 DEF Connected, After
    <3> QED BY <1>1, <1>5, <2>1, <2>2, <3>1, OwnerKnownDoes
  <2>3. CASE msg.kind = "back" /\ panel.client = "off"
    BY <1>1, <1>5, <2>1, <2>3, NameAppearedDoes
  <2>4. CASE msg.kind = "gone"
    BY <1>1, <1>5, <2>4, NameVanishedDoes DEF Connected
  <2>5. CASE ~ (msg.kind \in {"owner", "gone"} \/ (msg.kind = "back" /\ panel.client = "off"))
    <3>1. panel.client = "on"
      BY <1>4, <2>5 DEF Connected, After
    <3>2. Connected(panel, inbox)
      BY <1>3, <2>5, <3>1 DEF Connected
    <3>3. ConfigComes /\ PictureComes
      BY <3>2 DEF FollowInv
    <3>4. CASE msg.kind \in {"back", "unwatched"}
      <4>1. panel' = panel
        BY <1>1, <1>5, <3>1, <3>4, NameAppearedDoes
      <4>2. Onward(panel, panel')
        BY <4>1, NothingMore
      <4>3. /\ ~Gives(msg, "GetConfig") /\ ~Gives(msg, "ListItems")
            /\ ~Tells(msg, "config") /\ ~Tells(msg, "items")
        BY <3>4 DEF Gives, Tells
      <4> QED BY <1>1, <1>2, <3>3, <4>1, <4>2, <4>3, StillComes DEF msg
    <3>5. CASE msg.kind = "signal"
      <4>1. /\ Shows(panel, panel')
            /\ Tells(msg, "config") => AsksConfig(panel')
            /\ \/ Due(panel')
               \/ Onward(panel, panel') /\ ~Tells(msg, "config") /\ ~Tells(msg, "items")
        <5>1. panel' = Heard(panel, msg) /\ msg.signal \in {"items", "config", "menu"}
          BY <1>5, <3>5
        <5> QED BY <1>1, <3>1, <3>5, <5>1, HeardDoes
      <4>2. ~Gives(msg, "GetConfig") /\ ~Gives(msg, "ListItems")
        BY <3>5 DEF Gives
      <4>3. /\ Elements(panel.calls) \subseteq Elements(panel'.calls)
            /\ panel'.config = panel.config /\ panel'.placeholder = panel.placeholder
            /\ RunningOf(panel') = RunningOf(panel)
        BY <4>1 DEF Shows, RunningOf
      <4> QED BY <1>1, <1>2, <3>3, <4>1, <4>2, <4>3, StillComes DEF msg
    <3>6. CASE msg.kind = "reply"
      <4>1. Elements(panel.calls) \subseteq Elements(panel'.calls) /\ Accepts(panel, msg, panel')
        <5>1. panel' \in Resumed(panel, msg)
          BY <1>5, <3>6
        <5> QED BY <1>1, <3>1, <3>6, <5>1, ResumedDoes
      <4>2. ~Tells(msg, "config") /\ ~Tells(msg, "items")
        BY <3>6 DEF Tells
      <4> QED BY <1>1, <1>2, <3>3, <4>1, <4>2, StillComes DEF msg, Accepts
    <3> QED BY <1>5, <2>5, <3>4, <3>5, <3>6
  <2> QED BY <2>2, <2>3, <2>4, <2>5
<1> QED BY <1>2, <1>6, <1>7, <1>8 DEF FollowInv

-----------------------------------------------------------------------------
(* Who is connected, and will not hear otherwise, is right to think so. *)
LEMMA ConnectedIsUp == ASSUME MenuInv, AloneInv, Connected(panel, inbox) PROVE up
<1>1. IsChannel(inbox) /\ Len(inbox) \in Nat /\ DOMAIN inbox = 1 .. Len(inbox)
  BY ChannelFacts DEF MenuInv
<1>2. \A n \in 1 .. Len(inbox) : inbox[n].kind \in Presence => SaysUp(inbox[n])
  BY <1>1 DEF Connected, Elements, Presence, SaysUp
<1>3. Known("on", inbox, Len(inbox))
  <2>1. CASE Places(inbox, Presence) = {}
    BY <2>1 DEF Places, Known
  <2>2. CASE Places(inbox, Presence) # {}
    <3>1. PICK n \in Places(inbox, Presence) :
            \A m \in n + 1 .. Len(inbox) : inbox[m].kind \notin Presence
      BY <1>1, <2>2, LastPlace
    <3>2. n \in 1 .. Len(inbox) /\ SaysUp(inbox[n])
      BY <1>2, <3>1 DEF Places
    <3> QED BY <3>1, <3>2 DEF Known
  <2> QED BY <2>1, <2>2
<1>4. panel.client = "on" /\ (Known(panel.client, inbox, Len(inbox)) <=> up) /\ up \in BOOLEAN
  BY DEF Connected, AloneInv, Order
<1> QED BY <1>3, <1>4

(* A message that gives neither configuration nor items. *)
LEMMA SendFollows ==
  ASSUME MenuInv, AloneInv, FollowInv, NEW m, inbox' = Append(inbox, m), panel' = panel,
         items' = [k \in DOMAIN items' |-> items'[k]],
         \/ m.kind = "signal" /\ m.signal = "items" /\ config' = config
         \/ m.kind = "signal" /\ m.signal = "config" /\ items' = items
         \/ m.kind = "signal" /\ UNCHANGED <<items, config>>
         \/ m.kind = "back" /\ ~up
  PROVE  FollowInv'
<1>1. IsChannel(inbox) /\ Elements(inbox') = Elements(inbox) \cup {m}
  BY ElementsSent DEF MenuInv
<1>2. ~Gives(m, "GetConfig") /\ ~Gives(m, "ListItems")
  BY DEF Gives
<1>3. /\ \A v : LastConfig(inbox', v) <=> LastConfig(inbox, v)
      /\ \A v, c : LastList(inbox', v, c) <=> LastList(inbox, v, c)
  BY <1>1, <1>2, LastSent
<1>4. Connected(panel', inbox') => ConfigComes' /\ PictureComes'
  <2> SUFFICES ASSUME Connected(panel', inbox') PROVE ConfigComes' /\ PictureComes'
    OBVIOUS
  <2>1. Connected(panel, inbox)
    BY <1>1 DEF Connected
  <2>2. ConfigComes /\ PictureComes /\ up
    BY <2>1, ConnectedIsUp DEF FollowInv
  <2>3. CASE m.kind = "signal" /\ m.signal = "config" /\ items' = items
    BY <1>1, <2>3 DEF ConfigComes, PictureComes, Tells
  <2>4. CASE config' = config
    <3>1. ConfigComes'
      BY <1>1, <1>2, <1>3, <2>2, <2>4 DEF ConfigComes, AsksConfig
    <3>2. CASE m.kind = "signal" /\ m.signal = "items"
      BY <1>1, <3>1, <3>2 DEF PictureComes, Tells
    <3>3. CASE items' = items
      <4>1. PictureComes'
        BY <1>1, <1>2, <1>3, <2>2, <3>3 DEF PictureComes
      <4> QED BY <3>1, <4>1
    <3> QED BY <2>2, <2>4, <3>2, <3>3
  <2> QED BY <2>2, <2>3, <2>4
<1> QED BY <1>1, <1>4 DEF FollowInv

-----------------------------------------------------------------------------
LEMMA InitFollows == Init => FollowInv
<1> SUFFICES ASSUME Init PROVE FollowInv
  OBVIOUS
<1>1. panel.client = "new" /\ panel.busy = FALSE /\ panel.queued = FALSE /\ panel.placeholder = FALSE
  BY DEF Init, FirstPanel
<1>2. items = [k \in DOMAIN items |-> items[k]]
  BY DEF Init
<1> QED BY <1>1, <1>2 DEF FollowInv, Works, Connected

LEMMA WatchNameFollows == ASSUME MenuInv, FollowInv, WatchName PROVE FollowInv'
<1> DEFINE m == [kind |-> "owner", up |-> up]
<1>1. IsChannel(inbox) /\ inbox' = Append(inbox, m) /\ items' = items
  BY DEF MenuInv, WatchName, daemonVars
<1>2. /\ panel'.client = "asked" /\ panel'.busy = panel.busy /\ panel'.queued = panel.queued
      /\ panel'.placeholder = panel.placeholder /\ panel'.calls = panel.calls
  BY ClientSet DEF WatchName, MenuInv, PanelOK
<1> HIDE DEF m
<1>3. Elements(inbox') = Elements(inbox) \cup {m}
  BY <1>1, ElementsSent
<1>4. Works(panel') /\ ~Connected(panel', inbox')
  BY <1>2 DEF FollowInv, Works, Connected
<1>5. panel'.busy => \/ Awaits(panel')
                     \/ \E r \in Elements(inbox') : r.kind = "reply" /\ IsRefresh(r.call)
  BY <1>2, <1>3 DEF FollowInv, Awaits
<1> QED BY <1>1, <1>4, <1>5 DEF FollowInv

LEMMA ReadMenuFollows == ASSUME MenuInv, FollowInv, ReadMenu PROVE FollowInv'
<1>1. PICK n \in DOMAIN panel.calls :
        /\ panel.calls[n].kind = "GetMenu"
        /\ panel' = [panel EXCEPT !.calls[n].menu = items[panel.calls[n].key]]
  BY DEF ReadMenu
<1> DEFINE d == [panel.calls[n] EXCEPT !.menu = items[panel.calls[n].key]]
           calls == [panel.calls EXCEPT ![n] = d]
<1>2. IsPanel(panel) /\ CallOK(panel, panel.calls[n]) /\ IsChannel(panel.calls)
  BY DEF MenuInv, PanelOK, Elements
<1>3. panel' = [panel EXCEPT !.calls = calls]
  BY <1>1, <1>2 DEF IsPanel
<1>4. d.kind = "GetMenu"
  BY <1>1, <1>2 DEF CallOK, IsMenuCall
<1> HIDE DEF d
<1>5. Len(panel.calls) \in Nat /\ DOMAIN panel.calls = 1 .. Len(panel.calls)
  BY <1>2, ChannelFacts
<1>6. /\ calls = [k \in 1 .. Len(panel.calls) |-> calls[k]]
      /\ \A k \in 1 .. Len(panel.calls) : calls[k] = IF k = n THEN d ELSE panel.calls[k]
  BY <1>5
<1> HIDE DEF calls
<1>7. IsChannel(calls) /\ Len(calls) = Len(panel.calls)
  BY <1>5, <1>6, Numbered
<1>8. /\ \A v : LastCall(panel.calls, v) => LastCall(calls, v)
      /\ NoLists(panel.calls) => NoLists(calls)
      /\ (\E c \in Elements(panel.calls) : c.kind = "GetConfig") =>
           \E c \in Elements(calls) : c.kind = "GetConfig"
      /\ (\E c \in Elements(panel.calls) : IsRefresh(c)) => \E c \in Elements(calls) : IsRefresh(c)
  BY <1>1, <1>2, <1>4, <1>6, <1>7, LastMarked
<1>9. /\ panel'.calls = calls /\ panel'.client = panel.client /\ panel'.shown = panel.shown
      /\ panel'.config = panel.config /\ panel'.busy = panel.busy
      /\ panel'.queued = panel.queued /\ panel'.placeholder = panel.placeholder
  BY <1>2, <1>3 DEF IsPanel
<1>10. inbox' = inbox /\ items' = items /\ config' = config
  BY DEF ReadMenu, daemonVars
<1>11. Works(panel') /\ (Awaits(panel) => Awaits(panel')) /\ (AsksConfig(panel) => AsksConfig(panel'))
       /\ (Due(panel) => Due(panel')) /\ RunningOf(panel') = RunningOf(panel)
  BY <1>8, <1>9 DEF FollowInv, Works, Awaits, AsksConfig, Due, RunningOf
<1>12. Connected(panel', inbox') => ConfigComes' /\ PictureComes'
  <2> SUFFICES ASSUME Connected(panel', inbox') PROVE ConfigComes' /\ PictureComes'
    OBVIOUS
  <2>1. ConfigComes /\ PictureComes
    BY <1>9, <1>10 DEF FollowInv, Connected
  <2>2. ConfigComes'
    BY <1>9, <1>10, <1>11, <2>1 DEF ConfigComes
  <2>3. PictureComes'
    BY <1>8, <1>9, <1>10, <1>11, <2>1 DEF PictureComes
  <2> QED BY <2>2, <2>3
<1> QED BY <1>9, <1>10, <1>11, <1>12 DEF FollowInv

(* Where an answer leaves the call it is for, in the order of the calls.   *)
LEMMA AnswerFollows == ASSUME MenuInv, AloneInv, FollowInv, ~Overtaking, Answer PROVE FollowInv'
<1>0. PICK n \in DOMAIN panel.calls : \E msg \in Reply(panel.calls[n]) :
        /\ InTurn(n) /\ inbox' = Append(inbox, msg)
        /\ panel' = [panel EXCEPT !.calls = RemoveAt(panel.calls, n)]
  BY DEF Answer, MenuInv, PanelOK, IsPanel
<1>1. PICK msg \in Reply(panel.calls[n]) :
        /\ InTurn(n) /\ inbox' = Append(inbox, msg)
        /\ panel' = [panel EXCEPT !.calls = RemoveAt(panel.calls, n)]
  BY <1>0
<1> DEFINE call == panel.calls[n]
           left == RemoveAt(panel.calls, n)
<1>2. /\ IsPanel(panel) /\ IsChannel(panel.calls) /\ CallOK(panel, call) /\ IsChannel(inbox)
      /\ call \in Elements(panel.calls)
  BY DEF MenuInv, PanelOK, Elements
<1>3. Len(panel.calls) \in Nat /\ DOMAIN panel.calls = 1 .. Len(panel.calls)
  BY <1>2, ChannelFacts
<1>4. /\ panel'.calls = left /\ panel'.client = panel.client /\ panel'.shown = panel.shown
      /\ panel'.config = panel.config /\ panel'.busy = panel.busy
      /\ panel'.queued = panel.queued /\ panel'.placeholder = panel.placeholder
  BY <1>1, <1>2 DEF IsPanel
<1>5. /\ \A v : call.kind # "ListItems" /\ LastCall(panel.calls, v) => LastCall(left, v)
      /\ \A v : (\A j \in 1 .. n - 1 : panel.calls[j].kind # "ListItems") /\ LastCall(panel.calls, v) =>
           LastCall(left, v) \/ (call.config = v /\ NoLists(left))
      /\ \A k \in 1 .. Len(panel.calls) : k # n => panel.calls[k] \in Elements(left)
  BY <1>2, <1>3, LastRemoved
<1>6. \A c \in Elements(panel.calls) : c = call \/ c \in Elements(left)
  BY <1>3, <1>5 DEF Elements
<1>7. Elements(left) \subseteq Elements(panel.calls)
  BY <1>2, ElementsRemoved
<1>8. Elements(inbox') = Elements(inbox) \cup {msg}
  BY <1>1, <1>2, ElementsSent
<1>9. items' = items /\ config' = config /\ up \in BOOLEAN
  BY DEF Answer, daemonVars, AloneInv
<1>10. /\ call.kind \in {"GetConfig", "ListItems", "GetMenu"}
       /\ call.kind = "ListItems" => \A j \in 1 .. n - 1 : panel.calls[j].kind # "ListItems"
  BY <1>1, <1>2 DEF CallOK, InTurn
<1> HIDE DEF call, left
<1>11. /\ msg.kind = "reply" /\ msg.call = call
       /\ up => /\ call.kind = "GetConfig" => ~msg.failed /\ msg.value = config
                /\ call.kind = "ListItems" => ~msg.failed /\ msg.value = items
  BY <1>1, <1>9, <1>10 DEF Reply, call
<1>12. panel'.busy => \/ Awaits(panel')
                      \/ \E r \in Elements(inbox') : r.kind = "reply" /\ IsRefresh(r.call)
  BY <1>4, <1>6, <1>8, <1>11 DEF FollowInv, Awaits
<1>13. ASSUME Connected(panel', inbox') PROVE ConfigComes' /\ PictureComes'
  <2>1. Connected(panel, inbox)
    BY <1>4, <1>8, <1>13 DEF Connected
  <2>2. ConfigComes /\ PictureComes /\ up
    BY <2>1, ConnectedIsUp DEF FollowInv
  <2>3. /\ \A v : LastConfig(inbox', v) <=>
             IF Gives(msg, "GetConfig") THEN msg.value = v ELSE LastConfig(inbox, v)
        /\ \A v, c : LastList(inbox', v, c) <=>
             IF Gives(msg, "ListItems") THEN msg.value = v /\ msg.call.config = c
             ELSE LastList(inbox, v, c)
    BY <1>1, <1>2, LastSent
  <2>4. RunningOf(panel') = RunningOf(panel)
    BY <1>4 DEF RunningOf
  <2>5. CASE call.kind = "GetConfig"
    <3>1. Gives(msg, "GetConfig") /\ msg.value = config
      BY <1>11, <2>2, <2>5 DEF Gives
    <3> QED BY <1>8, <1>9, <2>3, <3>1 DEF ConfigComes, PictureComes
  <2>6. CASE call.kind # "GetConfig"
    <3>1. ~Gives(msg, "GetConfig")
      BY <1>11, <2>6 DEF Gives
    <3>2. AsksConfig(panel) => AsksConfig(panel')
      BY <1>4, <1>6, <2>6 DEF AsksConfig
    <3>3. ConfigComes'
      BY <1>4, <1>8, <1>9, <2>2, <2>3, <3>1, <3>2 DEF ConfigComes
    <3>4. NoLists(panel.calls) => NoLists(panel'.calls)
      BY <1>4, <1>7 DEF NoLists
    <3>5. CASE call.kind = "GetMenu"
      <4>1. ~Gives(msg, "ListItems")
        BY <1>11, <3>5 DEF Gives
      <4>2. Due(panel) => Due(panel')
        BY <1>4, <1>5, <3>2, <3>5 DEF Due
      <4>3. PictureComes'
        BY <1>4, <1>8, <1>9, <2>2, <2>3, <2>4, <3>4, <4>1, <4>2 DEF PictureComes
      <4> QED BY <3>3, <4>3
    <3>6. CASE call.kind = "ListItems"
      <4>1. Gives(msg, "ListItems") /\ msg.value = items /\ msg.call = call
        BY <1>11, <2>2, <3>6 DEF Gives
      <4>2. ~NoLists(panel.calls)
        BY <1>2, <3>6 DEF NoLists, call
      <4>3. CASE panel.queued \/ AsksConfig(panel)
        BY <1>4, <3>2, <3>3, <4>3 DEF Due, PictureComes
      <4>4. CASE LastCall(panel.calls, panel.config)
        <5>1. LastCall(left, panel.config) \/ (call.config = panel.config /\ NoLists(left))
          BY <1>5, <1>10, <3>6, <4>4
        <5>2. CASE LastCall(left, panel.config)
          BY <1>4, <3>3, <5>2 DEF Due, PictureComes
        <5>3. CASE call.config = panel.config /\ NoLists(left)
          BY <1>4, <1>9, <2>3, <3>3, <4>1, <5>3 DEF PictureComes
        <5> QED BY <5>1, <5>2, <5>3
      <4>5. CASE \E m \in Elements(inbox) :
                   Tells(m, "config") \/ Tells(m, "items") \/ Gives(m, "GetConfig")
        BY <1>8, <3>3, <4>5 DEF PictureComes
      <4> QED BY <2>2, <4>2, <4>3, <4>4, <4>5 DEF PictureComes, Due
    <3> QED BY <1>10, <2>6, <3>5, <3>6
  <2> QED BY <2>5, <2>6
<1>14. Works(panel')
  BY <1>4 DEF FollowInv, Works
<1> QED BY <1>9, <1>12, <1>13, <1>14 DEF FollowInv

-----------------------------------------------------------------------------
LEMMA SignalsFollow ==
  ASSUME MenuInv, AloneInv, FollowInv,
         \/ \E k \in Keys : ItemAppears(k) \/ ItemGoes(k) \/ MenuChanges(k)
         \/ \E c \in Configs : ConfigChanges(c)
  PROVE  FollowInv'
<1>1. CASE \E k \in Keys : ItemAppears(k) \/ ItemGoes(k)
  <2> DEFINE m == [kind |-> "signal", signal |-> "items"]
  <2>1. inbox' = Append(inbox, m) /\ m.kind = "signal" /\ m.signal = "items"
        /\ panel' = panel /\ config' = config
    BY <1>1 DEF ItemAppears, ItemGoes, Says
  <2>2. items' = [k \in DOMAIN items' |-> items'[k]]
    BY <1>1 DEF ItemAppears, ItemGoes
  <2> HIDE DEF m
  <2> QED BY <2>1, <2>2, SendFollows
<1>2. CASE \E k \in Keys : MenuChanges(k)
  <2>1. PICK k \in Keys : MenuChanges(k)
    BY <1>2
  <2> DEFINE m == [kind |-> "signal", signal |-> "menu", key |-> k]
  <2>2. inbox' = Append(inbox, m) /\ m.kind = "signal" /\ panel' = panel
        /\ UNCHANGED <<items, config>>
    BY <2>1 DEF MenuChanges, daemonVars
  <2>3. items' = [j \in DOMAIN items' |-> items'[j]]
    BY <2>2 DEF FollowInv
  <2> HIDE DEF m
  <2> QED BY <2>2, <2>3, SendFollows
<1>3. CASE \E c \in Configs : ConfigChanges(c)
  <2> DEFINE m == [kind |-> "signal", signal |-> "config"]
  <2>1. inbox' = Append(inbox, m) /\ m.kind = "signal" /\ m.signal = "config"
        /\ panel' = panel /\ items' = items
    BY <1>3 DEF ConfigChanges, Says
  <2>2. items' = [k \in DOMAIN items' |-> items'[k]]
    BY <2>1 DEF FollowInv
  <2> HIDE DEF m
  <2> QED BY <2>1, <2>2, SendFollows
<1> QED BY <1>1, <1>2, <1>3

LEMMA DaemonStartsFollows == ASSUME MenuInv, AloneInv, FollowInv, DaemonStarts PROVE FollowInv'
<1> DEFINE m == [kind |-> "back"]
<1>1. inbox' = Append(inbox, m) /\ m.kind = "back" /\ panel' = panel /\ ~up
      /\ items' = NoItems
  BY DEF DaemonStarts
<1>2. items' = [k \in DOMAIN items' |-> items'[k]]
  BY <1>1 DEF NoItems
<1> HIDE DEF m
<1> QED BY <1>1, <1>2, SendFollows

LEMMA DaemonExitsFollows == ASSUME MenuInv, FollowInv, DaemonExits PROVE FollowInv'
<1> DEFINE all == inbox \o Failures
           last == [kind |-> "gone"]
<1>1. /\ IsChannel(inbox) /\ IsChannel(Failures) /\ IsChannel(all) /\ inbox' = Append(all, last)
      /\ Len(Failures) = Len(panel.calls) /\ IsPanel(panel) /\ IsChannel(panel.calls)
  BY ExitSends DEF MenuInv, PanelOK
<1>2. /\ Elements(all) = Elements(inbox) \cup Elements(Failures) /\ last.kind = "gone"
      /\ Elements(inbox') = Elements(all) \cup {last}
  <2>1. Elements(all) = Elements(inbox) \cup Elements(Failures)
    BY <1>1, ElementsJoined
  <2>2. Elements(Append(all, last)) = Elements(all) \cup {last}
    BY <1>1, ElementsSent
  <2> QED BY <1>1, <2>1, <2>2
<1>3. \A c \in Elements(panel.calls) :
        \E m \in Elements(Failures) : m.kind = "reply" /\ m.call = c
  <2>1. /\ DOMAIN Failures = DOMAIN panel.calls
        /\ \A n \in DOMAIN panel.calls :
             Failures[n].kind = "reply" /\ Failures[n].call = panel.calls[n]
    BY DEF Failures
  <2> QED BY <2>1 DEF Elements
<1> HIDE DEF all, last
<1>4. /\ panel'.busy = panel.busy /\ panel'.queued = panel.queued
      /\ panel'.placeholder = panel.placeholder
  BY <1>1 DEF DaemonExits, IsPanel
<1>5. panel'.busy => \E m \in Elements(inbox') : m.kind = "reply" /\ IsRefresh(m.call)
  BY <1>2, <1>3, <1>4 DEF FollowInv, Awaits
<1>6. Works(panel') /\ ~Connected(panel', inbox')
  BY <1>2, <1>4 DEF FollowInv, Works, Connected
<1>7. items' = items
  BY DEF DaemonExits
<1> QED BY <1>5, <1>6, <1>7 DEF FollowInv

LEMMA DisableFollows == ASSUME MenuInv, FollowInv, Disable PROVE FollowInv'
<1>1. /\ IsPanel(panel) /\ IsChannel(inbox) /\ IsChannel(inbox')
      /\ panel'.client = "none" /\ panel'.calls = panel.calls /\ panel'.placeholder = FALSE
  BY DisableClears, DisableUnwatches DEF MenuInv, PanelOK
<1>2. panel'.busy = panel.busy /\ panel'.queued = panel.queued
  BY <1>1 DEF Disable, RemoveAll, IsPanel
<1>3. ASSUME NEW m \in Elements(inbox), m.kind = "reply" PROVE m \in Elements(inbox')
  <2>1. /\ DOMAIN inbox = 1 .. Len(inbox) /\ DOMAIN inbox' = 1 .. Len(inbox)
        /\ \A n \in 1 .. Len(inbox) :
             inbox'[n] = IF inbox[n].kind = "owner" THEN [kind |-> "unwatched"] ELSE inbox[n]
    BY <1>1, ChannelFacts, DisableUnwatches
  <2> QED BY <1>3, <2>1 DEF Elements
<1>4. panel'.busy => \/ Awaits(panel')
                     \/ \E m \in Elements(inbox') : m.kind = "reply" /\ IsRefresh(m.call)
  BY <1>1, <1>2, <1>3 DEF FollowInv, Awaits
<1>5. Works(panel') /\ ~Connected(panel', inbox')
  BY <1>1, <1>2 DEF FollowInv, Works, Connected
<1>6. items' = items
  BY DEF Disable, daemonVars
<1> QED BY <1>4, <1>5, <1>6 DEF FollowInv

LEMMA EnableFollows == ASSUME FollowInv, Enable PROVE FollowInv'
<1>1. panel'.client = "new" /\ panel'.busy = FALSE /\ panel'.queued = FALSE /\ panel'.placeholder = FALSE
  BY DEF Enable, FirstPanel
<1>2. items' = items
  BY DEF Enable, daemonVars
<1> QED BY <1>1, <1>2 DEF FollowInv, Works, Connected

LEMMA FollowStep ==
  ASSUME MenuInv, AloneInv, FollowInv, ~Overtaking, [Next]_vars
  PROVE  FollowInv'
<1>1. CASE World
  BY <1>1, SignalsFollow, DaemonExitsFollows, DaemonStartsFollows, DisableFollows, EnableFollows
     DEF World
<1>2. CASE ReadMenu \/ Answer
  BY <1>2, ReadMenuFollows, AnswerFollows
<1>3. CASE Deliver \/ WatchName
  BY <1>3, DeliverFollows, WatchNameFollows
<1>4. CASE UNCHANGED vars
  BY <1>4 DEF vars, daemonVars, FollowInv, ConfigComes, PictureComes
<1> QED BY <1>1, <1>2, <1>3, <1>4 DEF Next

LEMMA QuietIsRight == ASSUME MenuInv, FollowInv PROVE QuietPanelIsRight
<1> SUFFICES ASSUME Quiet PROVE PanelIsRight
  BY DEF QuietPanelIsRight
<1>1. /\ Elements(inbox) = {} /\ Len(inbox) = 0 /\ IsChannel(panel.calls)
      /\ DOMAIN panel.calls = 1 .. Len(panel.calls)
  BY EmptyChannel, ChannelFacts DEF Quiet, Elements, MenuInv, PanelOK
<1>2. Connected(panel, inbox)
  BY <1>1 DEF Connected, Quiet
<1>3. ConfigComes /\ PictureComes
  BY <1>2 DEF FollowInv
<1>4. ~AsksConfig(panel) /\ ~Awaits(panel)
  BY DEF Quiet, AsksConfig, Awaits, IsRefresh, Elements
<1>5. ~panel.queued
  BY <1>1, <1>4 DEF FollowInv, Works
<1>6. ~LastCall(panel.calls, panel.config)
  BY <1>1 DEF Quiet, LastCall
<1>7. ~LastConfig(inbox, config) /\ ~LastList(inbox, items, panel.config)
  BY <1>1 DEF LastConfig, LastList
<1>8. panel.config = config
  BY <1>1, <1>3, <1>4, <1>7 DEF ConfigComes
<1>9. /\ RunningOf(panel) = items
      /\ panel.placeholder <=> DOMAIN items = {} /\ panel.config.showWhenEmpty
  BY <1>1, <1>3, <1>4, <1>5, <1>6, <1>7 DEF PictureComes, Due
<1>10. DOMAIN items = {} <=> items = NoItems
  BY DEF FollowInv, NoItems
<1>11. Running = items
  BY <1>9 DEF Running, RunningOf
<1>12. panel.placeholder <=> items = NoItems /\ config.showWhenEmpty
  BY <1>8, <1>9, <1>10
<1> QED BY <1>8, <1>11, <1>12 DEF PanelIsRight

(* A connected panel that has heard all there is and awaits nothing but    *)
(* menus has the configuration, the items and the placeholder the daemon   *)
(* wants, whatever was busy or queued, in flight from before disable, or   *)
(* lost with the daemon (_refreshItems, _refreshConfig), as long as calls  *)
(* to ListItems are answered in turn and none is awaited when disabled.    *)
THEOREM QuietPanelsAreRight ==
  ASSUME ~DisableAnytime, ~Overtaking
  PROVE  Spec => []QuietPanelIsRight
<1>1. MenuInv /\ FollowInv => QuietPanelIsRight
  BY QuietIsRight
<1>2. MenuInv /\ AloneInv /\ [Next]_vars => AloneInv'
  BY AloneStep
<1>3. MenuInv /\ AloneInv /\ FollowInv /\ [Next]_vars => FollowInv'
  BY FollowStep
<1>4. Init => AloneInv /\ FollowInv
  BY InitAlone, InitFollows
<1> QED BY <1>1, <1>2, <1>3, <1>4, MenuInvariant, PTL DEF Spec
=============================================================================
