------------------------- MODULE SettingsAppProofs -------------------------
(***************************************************************************)
(* What the settings app shows and what it asks for, for any number of     *)
(* items, edits, changes by others and failing calls.                      *)
(*                                                                         *)
(* A picture is true as long as nothing is on its way that would replace   *)
(* it (Coming).  The two parts the worker reads at different times belong  *)
(* together because a change between them leaves a signal behind, which    *)
(* the worker only hears once the load is over.                            *)
(***************************************************************************)
EXTENDS SettingsApp, Channels

MsgKind  == {"Loaded", "Failed", "Refresh", "SetIconSize", "SetItemHidden", "MoveItem"}
EditKind == {"SetIconSize", "SetItemHidden", "MoveItem"}

IsRow(r)    == r = [key |-> r.key, title |-> r.title, visible |-> r.visible]
IsState(s)  == s = [loaded |-> s.loaded, config |-> s.config, items |-> s.items, error |-> s.error]
IsWindow(w) == w = [icon_size |-> w.icon_size, rows |-> w.rows]
IsWorker(w) == w = [doing |-> w.doing, call |-> w.call, config |-> w.config, items |-> w.items]

Shapes ==
  /\ IsChannel(calls) /\ IsChannel(inbox)
  /\ \A n \in DOMAIN inbox : inbox[n].kind \in MsgKind
  /\ \A n \in DOMAIN calls : calls[n].kind \in {"Load", "SetConfig", "MoveItem"}
  /\ IsState(state) /\ IsWindow(window) /\ IsWorker(worker)
  /\ worker.doing \in {"waiting", "loading", "writing"}
  /\ \A n \in DOMAIN window.rows : IsRow(window.rows[n])

(* The rows are those of the items the app knows.                          *)
RowsKept == KeysOf(window.rows) = KeysOf(state.items)

(* Something is on its way after which there will be another picture.      *)
Answers == {"Loaded", "Failed"}

Asking == \E n \in DOMAIN inbox : inbox[n].kind \notin Answers

Coming == signal \/ calls # <<>> \/ worker.doing = "writing" \/ Asking

TrueRead ==
  worker.config \subseteq {config} /\ worker.items \subseteq {Listed(config, items)}

TrueAnswer(msg) ==
  \/ msg.kind = "Failed"
  \/ msg.kind = "Loaded" /\ msg.config = config /\ msg.items = Listed(config, items)

TrueState ==
  \/ state.error \/ ~state.loaded
  \/ state.config = config /\ state.items = Listed(config, items)

(* What the worker is reading, or the last answer on its way, or what the  *)
(* app has is what the daemon has.                                         *)
PictureTrue ==
  IF worker.doing = "loading" THEN TrueRead
  ELSE IF inbox = <<>> THEN TrueState
  ELSE TrueAnswer(inbox[Len(inbox)])

WindowTrue ==
  /\ window.icon_size = Clamp(state.config.icon_size, 8, 48)
  /\ \A n \in DOMAIN window.rows :
       window.rows[n].visible <=> window.rows[n].key \notin state.config.hidden

(* The inductive invariant.                                                *)
PictureInv ==
  /\ Shapes /\ RowsKept
  /\ Asking \/ WindowTrue
  /\ Coming \/ PictureTrue

-----------------------------------------------------------------------------
LEMMA InitPicture == Init => PictureInv
<1> SUFFICES ASSUME Init PROVE PictureInv
  OBVIOUS
<1>1. /\ IsChannel(calls) /\ Len(calls) = 1 /\ calls[1].kind = "Load"
      /\ IsChannel(inbox) /\ Len(inbox) = 1 /\ inbox[1].kind = "Refresh"
  BY OneMessage DEF Init
<1>2. DOMAIN calls = 1 .. 1 /\ DOMAIN inbox = 1 .. 1 /\ calls # <<>>
  BY <1>1, ChannelFacts
<1>3. DOMAIN window.rows = {} /\ window.rows = state.items
  BY DEF Init, FirstState
<1>4. Shapes
  BY <1>1, <1>2, <1>3 DEF Init, Shapes, FirstState, IdleWorker, DefaultConfig, IsState,
     IsWindow, IsWorker, MsgKind
<1>5. RowsKept
  BY <1>3 DEF RowsKept
<1>6. Coming /\ Asking
  BY <1>1, <1>2 DEF Coming, Asking, Answers
<1> QED BY <1>4, <1>5, <1>6 DEF PictureInv

-----------------------------------------------------------------------------
(* A message of the user is on its way.                                    *)
LEMMA Asked ==
  ASSUME IsChannel(inbox), \A n \in DOMAIN inbox : inbox[n].kind \in MsgKind,
         NEW msg, msg.kind \in MsgKind, Send(msg)
  PROVE  /\ IsChannel(inbox') /\ \A n \in DOMAIN inbox' : inbox'[n].kind \in MsgKind
         /\ inbox' # <<>> /\ inbox'[Len(inbox')] = msg /\ Len(inbox') \in DOMAIN inbox'
         /\ \A n \in DOMAIN inbox : n \in DOMAIN inbox' /\ inbox'[n] = inbox[n]
<1>1. Len(inbox) \in Nat /\ DOMAIN inbox = 1 .. Len(inbox)
  BY ChannelFacts
<1>2. /\ IsChannel(inbox') /\ inbox' # <<>> /\ Len(inbox') = Len(inbox) + 1
      /\ DOMAIN inbox' = 1 .. Len(inbox) + 1 /\ inbox'[Len(inbox) + 1] = msg
      /\ \A n \in 1 .. Len(inbox) : inbox'[n] = inbox[n]
  BY Sent DEF Send
<1>3. \A n \in DOMAIN inbox' : n \in DOMAIN inbox \/ n = Len(inbox) + 1
  BY <1>1, <1>2
<1>4. \A n \in DOMAIN inbox' : inbox'[n].kind \in MsgKind
  BY <1>1, <1>2, <1>3
<1>5. \A n \in DOMAIN inbox : n \in DOMAIN inbox'
  BY <1>1, <1>2
<1> QED BY <1>1, <1>2, <1>4, <1>5

LEMMA SpinKeeps ==
  ASSUME PictureInv, NEW size, Spin(size)
  PROVE  PictureInv'
<1> DEFINE msg == [kind |-> "SetIconSize", value |-> size]
<1>1. msg.kind \in MsgKind /\ msg.kind \notin Answers /\ Send(msg)
  BY DEF Spin, MsgKind, Answers
<1> HIDE DEF msg
<1>2. /\ IsChannel(inbox') /\ \A n \in DOMAIN inbox' : inbox'[n].kind \in MsgKind
      /\ inbox'[Len(inbox')] = msg /\ Len(inbox') \in DOMAIN inbox'
  BY <1>1, Asked DEF PictureInv, Shapes
<1>3. Coming' /\ Asking'
  BY <1>1, <1>2 DEF Coming, Asking
<1>4. IsWindow(window') /\ window'.rows = window.rows
  BY DEF Spin, PictureInv, Shapes, IsWindow
<1>5. Shapes'
  BY <1>2, <1>4 DEF Spin, PictureInv, Shapes
<1>6. RowsKept'
  BY <1>4 DEF Spin, PictureInv, RowsKept
<1> QED BY <1>3, <1>5, <1>6 DEF PictureInv

(* Setting a switch leaves the rest of its row.                            *)
LEMMA RowSwitched ==
  ASSUME NEW row, IsRow(row), NEW v
  PROVE  /\ IsRow([row EXCEPT !.visible = v])
         /\ [row EXCEPT !.visible = v].key = row.key
         /\ [row EXCEPT !.visible = v].visible = v
<1>1. ASSUME NEW k, NEW t, NEW w, row = [key |-> k, title |-> t, visible |-> w]
      PROVE  [row EXCEPT !.visible = v] = [key |-> k, title |-> t, visible |-> v]
  BY <1>1
<1>2. [row EXCEPT !.visible = v] = [key |-> row.key, title |-> row.title, visible |-> v]
  BY <1>1 DEF IsRow
<1> QED BY <1>2 DEF IsRow

LEMMA SwitchKeeps ==
  ASSUME PictureInv, NEW n \in DOMAIN window.rows, Switch(n)
  PROVE  PictureInv'
<1> DEFINE msg == [kind |-> "SetItemHidden", key |-> window.rows[n].key,
                   value |-> window.rows[n].visible]
           rows == [window.rows EXCEPT ![n].visible = ~@]
<1>1. msg.kind \in MsgKind /\ msg.kind \notin Answers /\ Send(msg)
  BY DEF Switch, MsgKind, Answers
<1> HIDE DEF msg
<1>2. /\ IsChannel(inbox') /\ \A m \in DOMAIN inbox' : inbox'[m].kind \in MsgKind
      /\ inbox'[Len(inbox')] = msg /\ Len(inbox') \in DOMAIN inbox'
  BY <1>1, Asked DEF PictureInv, Shapes
<1>3. Coming' /\ Asking'
  BY <1>1, <1>2 DEF Coming, Asking
<1>4. IsWindow(window') /\ window'.rows = rows
  BY DEF Switch, PictureInv, Shapes, IsWindow
<1>5. DOMAIN rows = DOMAIN window.rows
      /\ \A m \in DOMAIN rows : IsRow(rows[m]) /\ rows[m].key = window.rows[m].key
  <2>1. DOMAIN rows = DOMAIN window.rows /\ \A m \in DOMAIN rows : IsRow(window.rows[m])
    BY DEF PictureInv, Shapes
  <2>2. rows[n] = [window.rows[n] EXCEPT !.visible = ~@]
    BY <2>1
  <2>3. \A m \in DOMAIN rows \ {n} : rows[m] = window.rows[m]
    BY <2>1
  <2>4. IsRow(rows[n]) /\ rows[n].key = window.rows[n].key
    BY <2>1, <2>2, RowSwitched
  <2> QED BY <2>1, <2>3, <2>4
<1> HIDE DEF rows
<1>6. Shapes'
  BY <1>2, <1>4, <1>5 DEF Switch, PictureInv, Shapes
<1>7. RowsKept'
  BY <1>4, <1>5 DEF Switch, PictureInv, RowsKept, KeysOf
<1> QED BY <1>3, <1>6, <1>7 DEF PictureInv

LEMMA PressKeeps ==
  ASSUME PictureInv, NEW n, NEW delta, Press(n, delta)
  PROVE  PictureInv'
<1> DEFINE msg == [kind |-> "MoveItem", key |-> window.rows[n].key, delta |-> delta]
<1>1. msg.kind \in MsgKind /\ msg.kind \notin Answers /\ Send(msg)
  BY DEF Press, MsgKind, Answers
<1> HIDE DEF msg
<1>2. /\ IsChannel(inbox') /\ \A m \in DOMAIN inbox' : inbox'[m].kind \in MsgKind
      /\ inbox'[Len(inbox')] = msg /\ Len(inbox') \in DOMAIN inbox'
  BY <1>1, Asked DEF PictureInv, Shapes
<1>3. Coming' /\ Asking'
  BY <1>1, <1>2 DEF Coming, Asking
<1>4. Shapes' /\ RowsKept'
  BY <1>2 DEF Press, PictureInv, Shapes, RowsKept, appVars
<1> QED BY <1>3, <1>4 DEF PictureInv

(* Painting: the window is that of the state.                              *)
LEMMA PaintedIsTrue ==
  ASSUME NEW new, NEW old, \A n \in DOMAIN old.rows : IsRow(old.rows[n])
  PROVE  LET w == Painted(new, old) IN
         /\ IsWindow(w) /\ KeysOf(w.rows) = KeysOf(new.items)
         /\ w.icon_size = Clamp(new.config.icon_size, 8, 48)
         /\ \A n \in DOMAIN w.rows :
              IsRow(w.rows[n]) /\ (w.rows[n].visible <=> w.rows[n].key \notin new.config.hidden)
<1> DEFINE rows == Rows(new, old.rows)
<1>1. CASE KeysOf(new.items) = KeysOf(old.rows)
  <2>1. rows = [n \in DOMAIN old.rows |->
                  [old.rows[n] EXCEPT !.visible = old.rows[n].key \notin new.config.hidden]]
    BY <1>1 DEF Rows
  <2>2. DOMAIN rows = DOMAIN old.rows
    BY <2>1
  <2>3. ASSUME NEW n \in DOMAIN old.rows
        PROVE  /\ IsRow(rows[n]) /\ rows[n].key = old.rows[n].key
               /\ rows[n].visible <=> rows[n].key \notin new.config.hidden
    <3> DEFINE seen == old.rows[n].key \notin new.config.hidden
    <3>1. rows[n] = [old.rows[n] EXCEPT !.visible = seen] /\ IsRow(old.rows[n])
      BY <2>1, <2>3
    <3>2. seen <=> old.rows[n].key \notin new.config.hidden
      OBVIOUS
    <3> HIDE DEF rows, seen
    <3>3. /\ IsRow(rows[n]) /\ rows[n].key = old.rows[n].key
          /\ rows[n].visible = seen
      BY <3>1, RowSwitched
    <3> QED BY <3>2, <3>3
  <2>4. KeysOf(rows) = KeysOf(old.rows)
    BY <2>2, <2>3 DEF KeysOf
  <2> QED BY <1>1, <2>2, <2>3, <2>4 DEF Painted, IsWindow
<1>2. CASE KeysOf(new.items) # KeysOf(old.rows)
  <2>1. rows = [n \in DOMAIN new.items |->
                  [ key |-> new.items[n].key, title |-> new.items[n].title,
                    visible |-> new.items[n].key \notin new.config.hidden ]]
    BY <1>2 DEF Rows
  <2>2. DOMAIN rows = DOMAIN new.items
    BY <2>1
  <2>3. ASSUME NEW n \in DOMAIN rows
        PROVE  /\ IsRow(rows[n]) /\ rows[n].key = new.items[n].key
               /\ rows[n].visible <=> rows[n].key \notin new.config.hidden
    <3>1. rows[n] = [ key |-> new.items[n].key, title |-> new.items[n].title,
                      visible |-> new.items[n].key \notin new.config.hidden ]
      BY <2>1, <2>2, <2>3
    <3> HIDE DEF rows
    <3>2. IsRow(rows[n]) /\ rows[n].key = new.items[n].key
      BY <3>1 DEF IsRow
    <3>3. rows[n].visible = (rows[n].key \notin new.config.hidden)
      BY <3>1, <3>2
    <3> QED BY <3>2, <3>3
  <2>4. KeysOf(rows) = KeysOf(new.items)
    BY <2>2, <2>3 DEF KeysOf
  <2> QED BY <2>2, <2>3, <2>4 DEF Painted, IsWindow
<1> QED BY <1>1, <1>2

(* Every handler looks at `applying`, so painting sends nothing.           *)
LEMMA PaintingIsSilent == ASSUME NEW before, NEW after PROVE Echoes(before, after) = <<>>
<1>1. Echoes(before, after) = <<>> \o <<>>
  BY DEF Echoes, Notified, Guarded
<1> QED BY <1>1, EmptySeq, ConcatEmptySeq

LEMMA AskAgainIsSilent ==
  ASSUME IsChannel(inbox), AskAgain
  PROVE  inbox' = inbox
<1>1. inbox' = inbox \o <<>>
  BY PaintingIsSilent DEF AskAgain
<1> QED BY <1>1, ConcatEmptySeq DEF IsChannel

LEMMA AskAgainKeeps ==
  ASSUME PictureInv, AskAgain
  PROVE  PictureInv'
<1>0. inbox' = inbox
  BY AskAgainIsSilent DEF PictureInv, Shapes
<1>1. /\ IsChannel(calls') /\ calls' # <<>> /\ DOMAIN calls' = 1 .. Len(calls) + 1
      /\ \A n \in 1 .. Len(calls) : calls'[n] = calls[n]
      /\ calls'[Len(calls) + 1] = [kind |-> "Load"]
  BY Sent DEF AskAgain, PictureInv, Shapes
<1>2. Coming'
  BY <1>1 DEF Coming
<1>3. \A n \in DOMAIN calls' : calls'[n].kind \in {"Load", "SetConfig", "MoveItem"}
  <2>1. Len(calls) \in Nat /\ DOMAIN calls = 1 .. Len(calls)
    BY ChannelFacts DEF PictureInv, Shapes
  <2>2. \A n \in DOMAIN calls' : n \in DOMAIN calls \/ n = Len(calls) + 1
    BY <1>1, <2>1
  <2> QED BY <1>1, <2>1, <2>2 DEF PictureInv, Shapes
<1>4. /\ IsWindow(window') /\ KeysOf(window'.rows) = KeysOf(state.items)
      /\ window'.icon_size = Clamp(state.config.icon_size, 8, 48)
      /\ \A n \in DOMAIN window'.rows :
           /\ IsRow(window'.rows[n])
           /\ window'.rows[n].visible <=> window'.rows[n].key \notin state.config.hidden
  BY PaintedIsTrue DEF AskAgain, PictureInv, Shapes
<1>5. Shapes'
  BY <1>0, <1>1, <1>3, <1>4 DEF AskAgain, PictureInv, Shapes
<1>6. RowsKept'
  BY <1>4 DEF AskAgain, RowsKept
<1>7. WindowTrue'
  BY <1>4 DEF AskAgain, WindowTrue
<1> QED BY <1>2, <1>5, <1>6, <1>7 DEF PictureInv

-----------------------------------------------------------------------------
(* The worker. *)
LEMMA HearKeeps ==
  ASSUME PictureInv, Hear
  PROVE  PictureInv'
<1> DEFINE msg == [kind |-> "Refresh"]
<1>1. msg.kind \in MsgKind /\ msg.kind \notin Answers /\ Send(msg)
  BY DEF Hear, MsgKind, Answers
<1> HIDE DEF msg
<1>2. /\ IsChannel(inbox') /\ \A n \in DOMAIN inbox' : inbox'[n].kind \in MsgKind
      /\ inbox'[Len(inbox')] = msg /\ Len(inbox') \in DOMAIN inbox'
  BY <1>1, Asked DEF PictureInv, Shapes
<1>3. Coming' /\ Asking'
  BY <1>1, <1>2 DEF Coming, Asking
<1>4. Shapes' /\ RowsKept'
  BY <1>2 DEF Hear, PictureInv, Shapes, RowsKept, appVars
<1> QED BY <1>3, <1>4 DEF PictureInv

LEMMA TakeKeeps ==
  ASSUME PictureInv, Take
  PROVE  PictureInv'
<1>1. /\ worker'.doing \in {"loading", "writing"} /\ IsWorker(worker')
      /\ worker'.config = {} /\ worker'.items = {}
  BY DEF Take, IdleWorker, IsWorker
<1>2. IsChannel(calls') /\ \A n \in DOMAIN calls' : calls'[n].kind \in {"Load", "SetConfig", "MoveItem"}
  <2>1. /\ Len(calls) \in Nat /\ IsChannel(calls') /\ DOMAIN calls' = 1 .. Len(calls) - 1
        /\ DOMAIN calls = 1 .. Len(calls) /\ \A n \in 1 .. Len(calls) - 1 : calls'[n] = calls[n + 1]
    BY Taken, ChannelFacts DEF Take, PictureInv, Shapes
  <2>2. \A n \in 1 .. Len(calls) - 1 : n + 1 \in DOMAIN calls
    BY <2>1
  <2> QED BY <2>1, <2>2 DEF PictureInv, Shapes
<1>3. Shapes'
  BY <1>1, <1>2 DEF Take, PictureInv, Shapes, appVars
<1>4. RowsKept' /\ (Asking \/ WindowTrue)'
  BY DEF Take, PictureInv, RowsKept, Asking, WindowTrue, appVars
<1>5. (Coming \/ PictureTrue)'
  BY <1>1 DEF Coming, PictureTrue, TrueRead
<1> QED BY <1>3, <1>4, <1>5 DEF PictureInv

LEMMA WriteKeeps ==
  ASSUME PictureInv, Write
  PROVE  PictureInv'
<1>1. IsWorker(worker') /\ worker'.doing = "loading"
  BY DEF Write, PictureInv, Shapes, IsWorker
<1>2. Shapes' /\ RowsKept' /\ (Asking \/ WindowTrue)'
  BY <1>1 DEF Write, PictureInv, Shapes, RowsKept, Asking, WindowTrue, appVars
<1>3. Coming'
  BY DEF Write, Coming
<1> QED BY <1>2, <1>3 DEF PictureInv

LEMMA ReadKeeps ==
  ASSUME PictureInv, ReadConfig \/ ReadItems
  PROVE  PictureInv'
<1>1. /\ IsWorker(worker') /\ worker.doing = "loading" /\ worker'.doing = "loading"
      /\ worker'.config = {config} \/ worker'.config = worker.config
      /\ worker'.items = {Listed(config, items)} \/ worker'.items = worker.items
  BY DEF ReadConfig, ReadItems, PictureInv, Shapes, IsWorker
<1>2. UNCHANGED <<config, items, signal, calls, inbox, state, window>>
  BY DEF ReadConfig, ReadItems, daemonVars, appVars
<1>3. Shapes' /\ RowsKept' /\ (Asking \/ WindowTrue)'
  BY <1>1, <1>2 DEF PictureInv, Shapes, RowsKept, Asking, WindowTrue
<1>4. (Coming \/ PictureTrue)'
  BY <1>1, <1>2 DEF PictureInv, Coming, Asking, PictureTrue, TrueRead
<1> QED BY <1>3, <1>4 DEF PictureInv

(* The worker answers: nobody asks for anything by that.                   *)
LEMMA AnswerSent ==
  ASSUME PictureInv, NEW msg, msg.kind \in Answers, Send(msg), worker' = IdleWorker,
         UNCHANGED <<config, items, signal, calls, state, window>>,
         Coming \/ TrueAnswer(msg) \/ msg.kind = "Failed",
         Coming => signal \/ calls # <<>> \/ Asking \/ msg.kind = "Failed"
  PROVE  PictureInv'
<1>1. msg.kind \in MsgKind
  BY DEF MsgKind, Answers
<1>2. /\ IsChannel(inbox') /\ \A n \in DOMAIN inbox' : inbox'[n].kind \in MsgKind
      /\ inbox' # <<>> /\ inbox'[Len(inbox')] = msg
      /\ \A n \in DOMAIN inbox : n \in DOMAIN inbox' /\ inbox'[n] = inbox[n]
  BY <1>1, Asked DEF PictureInv, Shapes
<1>3. IsWorker(worker') /\ worker'.doing = "waiting"
  BY DEF IdleWorker, IsWorker
<1>4. Shapes' /\ RowsKept' /\ (Asking => Asking') /\ (WindowTrue => WindowTrue')
  BY <1>2, <1>3 DEF PictureInv, Shapes, RowsKept, Asking, WindowTrue
<1>5. (Coming \/ PictureTrue)'
  BY <1>2, <1>3, <1>4 DEF PictureInv, Coming, PictureTrue, TrueAnswer
<1> QED BY <1>4, <1>5 DEF PictureInv

LEMMA ReportKeeps ==
  ASSUME PictureInv, Report
  PROVE  PictureInv'
<1>1. PICK conf \in worker.config, list \in worker.items :
        Send([kind |-> "Loaded", config |-> conf, items |-> list])
  BY DEF Report
<1> DEFINE msg == [kind |-> "Loaded", config |-> conf, items |-> list]
<1>2. msg.kind = "Loaded" /\ msg.config = conf /\ msg.items = list /\ Send(msg)
  BY <1>1
<1> HIDE DEF msg
<1>3. worker.doing = "loading" /\ worker' = IdleWorker
      /\ UNCHANGED <<config, items, signal, calls, state, window>>
  BY DEF Report, daemonVars, appVars
<1>4. Coming \/ TrueAnswer(msg)
  BY <1>2, <1>3 DEF PictureInv, PictureTrue, TrueRead, TrueAnswer
<1>5. Coming => signal \/ calls # <<>> \/ Asking
  BY <1>3 DEF Coming
<1>6. msg.kind \in Answers
  BY <1>2 DEF Answers
<1> QED BY <1>2, <1>3, <1>4, <1>5, <1>6, AnswerSent

LEMMA CallFailsKeeps ==
  ASSUME PictureInv, CallFails
  PROVE  PictureInv'
<1> DEFINE msg == [kind |-> "Failed"]
<1>1. msg.kind = "Failed" /\ Send(msg) /\ worker' = IdleWorker
      /\ UNCHANGED <<config, items, signal, calls, state, window>>
  BY DEF CallFails, daemonVars, appVars
<1> HIDE DEF msg
<1>2. msg.kind \in Answers
  BY <1>1 DEF Answers
<1> QED BY <1>1, <1>2, AnswerSent

-----------------------------------------------------------------------------
(* The rest of the world leaves a signal. *)
LEMMA WorldKeeps ==
  ASSUME PictureInv, World
  PROVE  PictureInv'
<1>1. signal' = TRUE /\ UNCHANGED <<worker, calls, inbox, state, window>>
  BY DEF World, OtherClient, ItemRetitled, ItemGone, Other, appVars
<1>2. Shapes' /\ RowsKept' /\ (Asking \/ WindowTrue)'
  BY <1>1 DEF PictureInv, Shapes, RowsKept, Asking, WindowTrue
<1> QED BY <1>1, <1>2 DEF PictureInv, Coming

-----------------------------------------------------------------------------
(* The main loop. *)
LEMMA TakenAway ==
  ASSUME IsChannel(inbox), inbox # <<>>, inbox' = Tail(inbox) \o <<>>,
         \A n \in DOMAIN inbox : inbox[n].kind \in MsgKind
  PROVE  /\ inbox' = Tail(inbox) /\ IsChannel(inbox')
         /\ \A n \in DOMAIN inbox' : inbox'[n].kind \in MsgKind
         /\ Head(inbox).kind \in Answers /\ Asking => Asking'
         /\ inbox' = <<>> => Head(inbox) = inbox[Len(inbox)]
         /\ inbox' # <<>> => inbox'[Len(inbox')] = inbox[Len(inbox)]
         /\ Head(inbox).kind \in MsgKind
<1>1. /\ Len(inbox) \in Nat /\ Len(inbox) > 0 /\ Head(inbox) = inbox[1]
      /\ IsChannel(Tail(inbox)) /\ Len(Tail(inbox)) = Len(inbox) - 1
      /\ DOMAIN Tail(inbox) = 1 .. Len(inbox) - 1
      /\ \A n \in 1 .. Len(inbox) - 1 : Tail(inbox)[n] = inbox[n + 1]
      /\ DOMAIN inbox = 1 .. Len(inbox)
  BY Taken, ChannelFacts
<1>2. inbox' = Tail(inbox)
  BY <1>1, ConcatEmptySeq DEF IsChannel
<1>3. \A n \in 1 .. Len(inbox) - 1 : n + 1 \in DOMAIN inbox
  BY <1>1
<1>4. \A n \in DOMAIN inbox' : inbox'[n].kind \in MsgKind
  BY <1>1, <1>2, <1>3
<1>5. ASSUME Head(inbox).kind \in Answers, Asking
      PROVE  Asking'
  <2>1. PICK n \in DOMAIN inbox : inbox[n].kind \notin Answers
    BY <1>5 DEF Asking
  <2>2. n - 1 \in 1 .. Len(inbox) - 1 /\ (n - 1) + 1 = n
    BY <1>1, <1>5, <2>1
  <2> QED BY <1>1, <1>2, <2>1, <2>2 DEF Asking
<1>6. ASSUME inbox' = <<>> PROVE Head(inbox) = inbox[Len(inbox)]
  BY <1>1, <1>2, <1>6, EmptyChannel
<1>7. ASSUME inbox' # <<>> PROVE inbox'[Len(inbox')] = inbox[Len(inbox)]
  <2>1. Len(inbox') # 0
    BY <1>1, <1>2, <1>7, ChannelFacts
  <2>2. Len(inbox) - 1 \in 1 .. Len(inbox) - 1 /\ (Len(inbox) - 1) + 1 = Len(inbox)
    BY <1>1, <1>2, <2>1
  <2> QED BY <1>1, <1>2, <2>2
<1>8. Head(inbox).kind \in MsgKind
  BY <1>1
<1> QED BY <1>1, <1>2, <1>4, <1>5, <1>6, <1>7, <1>8

LEMMA StateChanged ==
  ASSUME NEW s, IsState(s), NEW c, NEW e
  PROVE  /\ IsState([s EXCEPT !.config = c, !.error = e])
         /\ IsState([s EXCEPT !.error = e]) /\ [s EXCEPT !.error = e].error = e
<1>1. ASSUME NEW l, NEW d, NEW i, NEW f,
             s = [loaded |-> l, config |-> d, items |-> i, error |-> f]
      PROVE  /\ [s EXCEPT !.config = c, !.error = e]
                  = [loaded |-> l, config |-> c, items |-> i, error |-> e]
             /\ [s EXCEPT !.error = e] = [loaded |-> l, config |-> d, items |-> i, error |-> e]
  <2>1. [s EXCEPT !.error = e] = [loaded |-> l, config |-> d, items |-> i, error |-> e]
    BY <1>1
  <2>2. [s EXCEPT !.config = c] = [loaded |-> l, config |-> c, items |-> i, error |-> f]
    BY <1>1
  <2> DEFINE t == [s EXCEPT !.config = c]
  <2>3. [s EXCEPT !.config = c, !.error = e] = [t EXCEPT !.error = e]
    OBVIOUS
  <2> HIDE DEF t
  <2>4. t = [loaded |-> l, config |-> c, items |-> i, error |-> f]
    BY <2>2 DEF t
  <2>5. [t EXCEPT !.error = e] = [loaded |-> l, config |-> c, items |-> i, error |-> e]
    BY <2>4
  <2> QED BY <2>1, <2>3, <2>5
<1>2. /\ [s EXCEPT !.config = c, !.error = e]
           = [loaded |-> s.loaded, config |-> c, items |-> s.items, error |-> e]
      /\ [s EXCEPT !.error = e]
           = [loaded |-> s.loaded, config |-> s.config, items |-> s.items, error |-> e]
  BY <1>1 DEF IsState
<1> QED BY <1>2 DEF IsState

(* What a message leads to: an answer becomes the state, all else a call.  *)
LEMMA Folded ==
  ASSUME Shapes, NEW msg, msg.kind \in MsgKind
  PROVE  /\ IsState(Update(msg)[1])
         /\ IsChannel(Update(msg)[2])
         /\ \A n \in DOMAIN Update(msg)[2] :
              Update(msg)[2][n].kind \in {"Load", "SetConfig", "MoveItem"}
         /\ msg.kind = "Loaded" =>
              Update(msg)[1].config = msg.config /\ Update(msg)[1].items = msg.items
         /\ msg.kind = "Failed" => Update(msg)[1].error = TRUE
         /\ msg.kind = "Refresh" => Update(msg)[2][1].kind = "Load"
         /\ IF msg.kind \in Answers THEN Update(msg)[2] = <<>> ELSE Len(Update(msg)[2]) = 1
<1>1. CASE msg.kind = "Loaded"
  <2>1. Update(msg) = Loaded(msg)
    BY <1>1 DEF Update
  <2> QED BY <1>1, <2>1, EmptyChannel, ChannelFacts DEF Loaded, IsState, Answers
<1>2. CASE msg.kind = "Failed"
  <2>1. Update(msg) = Failed
    BY <1>2 DEF Update
  <2>2. IsState([state EXCEPT !.error = TRUE]) /\ [state EXCEPT !.error = TRUE].error = TRUE
    BY StateChanged DEF Shapes
  <2>3. Update(msg)[1] = [state EXCEPT !.error = TRUE] /\ Update(msg)[2] = <<>>
    BY <2>1 DEF Failed
  <2>4. IsChannel(<<>>) /\ DOMAIN (<<>>) = {}
    BY EmptyChannel
  <2> QED BY <1>2, <2>2, <2>3, <2>4 DEF Answers
<1>3. CASE msg.kind = "Refresh"
  <2>1. Update(msg) = <<state, <<[kind |-> "Load"]>> >>
    BY <1>3 DEF Update
  <2> QED BY <1>3, <2>1, OneMessage, ChannelFacts DEF Shapes, Answers
<1>4. CASE msg.kind \in {"SetIconSize", "SetItemHidden"}
  <2>1. \E new : Update(msg) = WithConfig(new)
    BY <1>4 DEF Update
  <2>2. PICK new : Update(msg) = WithConfig(new)
    BY <2>1
  <2>3. IsState([state EXCEPT !.config = new, !.error = FALSE])
    BY StateChanged DEF Shapes
  <2>4. Update(msg)[1] = [state EXCEPT !.config = new, !.error = FALSE]
        /\ Update(msg)[2] = <<[kind |-> "SetConfig", config |-> new]>>
    BY <2>2 DEF WithConfig
  <2>5. /\ IsChannel(Update(msg)[2]) /\ Len(Update(msg)[2]) = 1
        /\ Update(msg)[2][1].kind = "SetConfig" /\ DOMAIN Update(msg)[2] = 1 .. 1
    BY <2>4, OneMessage, ChannelFacts
  <2> QED BY <1>4, <2>3, <2>4, <2>5 DEF Answers
<1>5. CASE msg.kind = "MoveItem"
  <2>1. Update(msg) = <<state, <<msg>> >>
    BY <1>5 DEF Update
  <2> QED BY <1>5, <2>1, OneMessage, ChannelFacts DEF Shapes, Answers
<1> QED BY <1>1, <1>2, <1>3, <1>4, <1>5 DEF MsgKind

LEMMA DispatchKeeps ==
  ASSUME PictureInv, Dispatch
  PROVE  PictureInv'
<1> DEFINE msg == Head(inbox)
           next == Update(msg)
<1>1. /\ state' = next[1] /\ calls' = calls \o next[2] /\ window' = Painted(next[1], window)
      /\ inbox # <<>> /\ inbox' = Tail(inbox) \o <<>>
      /\ UNCHANGED <<config, items, signal, worker>>
  BY PaintingIsSilent DEF Dispatch, daemonVars
<1>2. /\ inbox' = Tail(inbox) /\ IsChannel(inbox')
      /\ \A n \in DOMAIN inbox' : inbox'[n].kind \in MsgKind
      /\ msg.kind \in Answers /\ Asking => Asking'
      /\ inbox' = <<>> => msg = inbox[Len(inbox)]
      /\ inbox' # <<>> => inbox'[Len(inbox')] = inbox[Len(inbox)]
      /\ msg.kind \in MsgKind
  BY <1>1, TakenAway DEF PictureInv, Shapes
<1>3. /\ IsState(next[1]) /\ IsChannel(next[2])
      /\ \A n \in DOMAIN next[2] : next[2][n].kind \in {"Load", "SetConfig", "MoveItem"}
      /\ msg.kind = "Loaded" => next[1].config = msg.config /\ next[1].items = msg.items
      /\ msg.kind = "Failed" => next[1].error = TRUE
      /\ IF msg.kind \in Answers THEN next[2] = <<>> ELSE Len(next[2]) = 1
  BY <1>2, Folded DEF PictureInv
<1> HIDE DEF msg, next
<1>4. /\ IsWindow(window') /\ KeysOf(window'.rows) = KeysOf(state'.items)
      /\ window'.icon_size = Clamp(state'.config.icon_size, 8, 48)
      /\ \A n \in DOMAIN window'.rows :
           /\ IsRow(window'.rows[n])
           /\ window'.rows[n].visible <=> window'.rows[n].key \notin state'.config.hidden
  BY <1>1, PaintedIsTrue DEF PictureInv, Shapes
<1>5. /\ IsChannel(calls') /\ Len(calls') = Len(calls) + Len(next[2])
      /\ DOMAIN calls' = 1 .. Len(calls) + Len(next[2])
      /\ \A n \in 1 .. Len(calls) : calls'[n] = calls[n]
      /\ \A n \in 1 .. Len(next[2]) : calls'[Len(calls) + n] = next[2][n]
      /\ Len(calls) \in Nat /\ Len(next[2]) \in Nat
      /\ DOMAIN calls = 1 .. Len(calls) /\ DOMAIN next[2] = 1 .. Len(next[2])
  <2>1. IsChannel(calls) /\ IsChannel(next[2])
    BY <1>3 DEF PictureInv, Shapes
  <2>2. /\ Len(calls) \in Nat /\ DOMAIN calls = 1 .. Len(calls)
        /\ Len(next[2]) \in Nat /\ DOMAIN next[2] = 1 .. Len(next[2])
    BY <2>1, ChannelFacts
  <2> QED BY <1>1, <2>1, <2>2, Joined
<1>6. \A n \in DOMAIN calls' : calls'[n].kind \in {"Load", "SetConfig", "MoveItem"}
  <2> SUFFICES ASSUME NEW n \in DOMAIN calls'
               PROVE  calls'[n].kind \in {"Load", "SetConfig", "MoveItem"}
    OBVIOUS
  <2>1. CASE n \in 1 .. Len(calls)
    BY <1>5, <2>1 DEF PictureInv, Shapes
  <2>2. CASE n \notin 1 .. Len(calls)
    <3>1. n - Len(calls) \in 1 .. Len(next[2]) /\ Len(calls) + (n - Len(calls)) = n
      BY <1>5, <2>2
    <3> QED BY <1>3, <1>5, <3>1
  <2> QED BY <2>1, <2>2
<1>7. Shapes'
  BY <1>1, <1>2, <1>3, <1>4, <1>5, <1>6 DEF PictureInv, Shapes
<1>8. RowsKept' /\ WindowTrue'
  BY <1>4 DEF RowsKept, WindowTrue
<1>9. (Coming \/ PictureTrue)'
  <2>1. CASE msg.kind \notin Answers
    <3>1. Len(calls') # 0
      BY <1>3, <1>5, <2>1
    <3> QED BY <1>5, <3>1, EmptyChannel DEF Coming
  <2>2. CASE msg.kind \in Answers
    <3>1. calls' = calls
      BY <1>1, <1>3, <2>2, ConcatEmptySeq DEF PictureInv, Shapes, IsChannel
    <3>2. Coming => Coming'
      BY <1>1, <1>2, <2>2, <3>1 DEF Coming
    <3>3. ASSUME PictureTrue, worker.doing # "loading", inbox' = <<>>
          PROVE  TrueState'
      <4>1. TrueAnswer(msg)
        BY <1>1, <1>2, <3>3 DEF PictureTrue
      <4>2. CASE msg.kind = "Failed"
        <5>1. state'.error = TRUE
          BY <1>1, <1>3, <4>2
        <5> QED BY <5>1 DEF TrueState
      <4>3. CASE msg.kind = "Loaded" /\ msg.config = config /\ msg.items = Listed(config, items)
        <5>1. state'.config = config' /\ state'.items = Listed(config', items')
          BY <1>1, <1>3, <4>3
        <5> QED BY <5>1 DEF TrueState
      <4> QED BY <4>1, <4>2, <4>3 DEF TrueAnswer
    <3>4. PictureTrue => PictureTrue'
      BY <1>1, <1>2, <3>3 DEF PictureTrue, TrueRead, TrueAnswer
    <3> QED BY <3>2, <3>4 DEF PictureInv
  <2> QED BY <2>1, <2>2
<1> QED BY <1>7, <1>8, <1>9 DEF PictureInv

-----------------------------------------------------------------------------
LEMMA PictureStep == PictureInv /\ [Next]_vars => PictureInv'
<1> SUFFICES ASSUME PictureInv, [Next]_vars PROVE PictureInv'
  OBVIOUS
<1>1. CASE User
  BY <1>1, AskAgainKeeps, SpinKeeps, SwitchKeeps, PressKeeps DEF User
<1>2. CASE World
  BY <1>2, WorldKeeps
<1>3. CASE Dispatch
  BY <1>3, DispatchKeeps
<1>4. CASE Work
  BY <1>4, TakeKeeps, HearKeeps, WriteKeeps, ReadKeeps, ReportKeeps DEF Work
<1>5. CASE CallFails
  BY <1>5, CallFailsKeeps
<1>6. CASE UNCHANGED vars
  BY <1>6 DEF PictureInv, Shapes, RowsKept, Asking, WindowTrue, Coming, PictureTrue, TrueRead,
     TrueAnswer, TrueState, vars, daemonVars, appVars
<1> QED BY <1>1, <1>2, <1>3, <1>4, <1>5, <1>6 DEF Next

(* "What the user sees always matches what the daemon kept" (client.rs),   *)
(* for any tray and however edits, reloads, failures and changes by others *)
(* overlap: when nothing is on its way, the window shows what the daemon   *)
(* has, or an error.                                                       *)
THEOREM WhatIsSeenIsTrue == Spec => []SettledIsTrue
<1>1. PictureInv => SettledIsTrue
  <2> SUFFICES ASSUME PictureInv, AtRest, state.loaded, ~state.error
               PROVE  /\ state.config = config /\ state.items = Listed(config, items)
                      /\ window.icon_size = Clamp(config.icon_size, 8, 48)
                      /\ KeysOf(window.rows) = KeysOf(state.items)
                      /\ \A n \in DOMAIN window.rows :
                           window.rows[n].visible <=> window.rows[n].key \notin config.hidden
    BY DEF SettledIsTrue
  <2>1. worker.doing = "waiting" /\ inbox = <<>> /\ calls = <<>> /\ ~signal
    BY DEF AtRest, IdleWorker
  <2>2. DOMAIN inbox = {}
    BY <2>1
  <2>3. ~Asking /\ ~Coming
    BY <2>1, <2>2 DEF Asking, Coming
  <2>4. TrueState /\ WindowTrue
    BY <2>1, <2>3 DEF PictureInv, PictureTrue
  <2> QED BY <2>4 DEF PictureInv, TrueState, WindowTrue, RowsKept
<1> QED BY <1>1, InitPicture, PictureStep, PTL DEF Spec

-----------------------------------------------------------------------------
(* What the app asks for. *)
WriteKind == {"SetConfig", "MoveItem"}

(* Changes that are on their way to the daemon.                            *)
Underway ==
  (IF worker.doing = "writing" THEN 1 ELSE 0) + HowMany(calls, WriteKind)
    + HowMany(inbox, EditKind)

WriteInv == PictureInv /\ edits \in Nat /\ writes \in Nat /\ writes + Underway <= edits

LEMMA InitWrites == Init => WriteInv
<1> SUFFICES ASSUME Init PROVE WriteInv
  OBVIOUS
<1>1. HowMany(calls, WriteKind) = 0 /\ HowMany(inbox, EditKind) = 0
  BY OneCounts DEF Init, WriteKind, EditKind
<1> QED BY <1>1, InitPicture DEF Init, IdleWorker, WriteInv, Underway

LEMMA CountsAreNumbers ==
  ASSUME WriteInv
  PROVE  /\ IsChannel(calls) /\ IsChannel(inbox) /\ edits \in Nat /\ writes \in Nat
         /\ HowMany(calls, WriteKind) \in Nat /\ HowMany(inbox, EditKind) \in Nat
         /\ writes + Underway <= edits
BY PlacesAreFinite DEF WriteInv, PictureInv, Shapes

(* One message of the app or of the worker.                                *)
LEMMA SendCounts ==
  ASSUME WriteInv, NEW msg, Send(msg)
  PROVE  HowMany(inbox', EditKind)
           = HowMany(inbox, EditKind) + (IF msg.kind \in EditKind THEN 1 ELSE 0)
BY CountsAreNumbers, SentCounts DEF Send

LEMMA UserWrites ==
  ASSUME WriteInv, User
  PROVE  edits' \in Nat /\ writes' \in Nat /\ writes' + Underway' <= edits'
<1>1. worker' = worker /\ writes' = writes /\ edits' = edits + 1
  BY DEF User, AskAgain, Spin, Switch, Press, Edit
<1>2. CASE AskAgain
  <2>1. HowMany(calls', WriteKind) = HowMany(calls, WriteKind) /\ inbox' = inbox
    BY <1>2, AskAgainIsSilent, CountsAreNumbers, SentCounts
       DEF AskAgain, WriteKind, WriteInv, PictureInv, Shapes
  <2> QED BY <1>1, <2>1, CountsAreNumbers DEF Underway
<1>3. ASSUME NEW msg, Send(msg), calls' = calls
      PROVE  edits' \in Nat /\ writes' \in Nat /\ writes' + Underway' <= edits'
  <2>1. HowMany(inbox', EditKind) <= HowMany(inbox, EditKind) + 1
    BY <1>3, SendCounts, CountsAreNumbers
  <2>2. HowMany(inbox', EditKind) \in Nat
    BY <1>3, SendCounts, CountsAreNumbers
  <2> QED BY <1>1, <1>3, <2>1, <2>2, CountsAreNumbers DEF Underway
<1>4. ASSUME NEW size, Spin(size) PROVE \E msg : Send(msg) /\ calls' = calls
  BY <1>4 DEF Spin
<1>5. ASSUME NEW n, Switch(n) PROVE \E msg : Send(msg) /\ calls' = calls
  BY <1>5 DEF Switch
<1>6. ASSUME NEW n, NEW delta, Press(n, delta) PROVE \E msg : Send(msg) /\ calls' = calls
  BY <1>6 DEF Press
<1> QED BY <1>2, <1>3, <1>4, <1>5, <1>6 DEF User

LEMMA WorkWrites ==
  ASSUME WriteInv, Work
  PROVE  edits' \in Nat /\ writes' \in Nat /\ writes' + Underway' <= edits'
<1>1. CASE Take
  <2>1. /\ HowMany(calls, WriteKind)
             = HowMany(calls', WriteKind) + (IF Head(calls).kind \in WriteKind THEN 1 ELSE 0)
        /\ calls # <<>> /\ IsChannel(calls')
    BY <1>1, CountsAreNumbers, TakenCounts, Taken DEF Take
  <2>2. HowMany(calls', WriteKind) \in Nat
    BY <2>1, PlacesAreFinite
  <2>3. Head(calls).kind = "Load" \/ Head(calls).kind \in WriteKind
    <3>1. Head(calls) = calls[1] /\ 1 \in DOMAIN calls
      BY <2>1, CountsAreNumbers, Taken, ChannelFacts
    <3> QED BY <3>1 DEF WriteInv, PictureInv, Shapes, WriteKind
  <2>4. worker.doing = "waiting"
        /\ worker'.doing = (IF Head(calls).kind = "Load" THEN "loading" ELSE "writing")
        /\ inbox' = inbox /\ edits' = edits /\ writes' = writes
    BY <1>1 DEF Take, IdleWorker, counters
  <2>5. Underway' = Underway
    BY <2>1, <2>2, <2>3, <2>4, CountsAreNumbers DEF Underway, WriteKind
  <2> QED BY <2>4, <2>5, CountsAreNumbers
<1>2. CASE Hear
  <2>1. Send([kind |-> "Refresh"]) /\ UNCHANGED <<worker, calls, edits, writes>>
    BY <1>2 DEF Hear, counters
  <2>2. HowMany(inbox', EditKind) = HowMany(inbox, EditKind)
    BY <2>1, SendCounts, CountsAreNumbers DEF EditKind
  <2> QED BY <2>1, <2>2, CountsAreNumbers DEF Underway
<1>3. CASE Write
  <2>1. worker.doing = "writing" /\ worker'.doing = "loading" /\ writes' = writes + 1
        /\ UNCHANGED <<inbox, calls, edits>>
    BY <1>3 DEF Write, counters, WriteInv, PictureInv, Shapes, IsWorker
  <2> QED BY <2>1, CountsAreNumbers DEF Underway
<1>4. CASE ReadConfig \/ ReadItems
  <2>1. worker'.doing = worker.doing /\ UNCHANGED <<inbox, calls, edits, writes>>
    BY <1>4 DEF ReadConfig, ReadItems, counters, WriteInv, PictureInv, Shapes, IsWorker
  <2> QED BY <2>1, CountsAreNumbers DEF Underway
<1>5. CASE Report
  <2>1. PICK conf \in worker.config, list \in worker.items :
          Send([kind |-> "Loaded", config |-> conf, items |-> list])
    BY <1>5 DEF Report
  <2>2. HowMany(inbox', EditKind) = HowMany(inbox, EditKind)
    BY <2>1, SendCounts, CountsAreNumbers DEF EditKind
  <2>3. worker'.doing = "waiting" /\ UNCHANGED <<calls, edits, writes>>
    BY <1>5 DEF Report, IdleWorker, counters
  <2> QED BY <2>2, <2>3, CountsAreNumbers DEF Underway
<1> QED BY <1>1, <1>2, <1>3, <1>4, <1>5 DEF Work

LEMMA CallFailsWrites ==
  ASSUME WriteInv, CallFails
  PROVE  edits' \in Nat /\ writes' \in Nat /\ writes' + Underway' <= edits'
<1>1. HowMany(inbox', EditKind) = HowMany(inbox, EditKind)
  BY SendCounts, CountsAreNumbers DEF CallFails, EditKind
<1>2. worker'.doing = "waiting" /\ UNCHANGED <<calls, edits, writes>>
  BY DEF CallFails, IdleWorker
<1> QED BY <1>1, <1>2, CountsAreNumbers DEF Underway

LEMMA DispatchWrites ==
  ASSUME WriteInv, Dispatch
  PROVE  edits' \in Nat /\ writes' \in Nat /\ writes' + Underway' <= edits'
<1> DEFINE msg == Head(inbox)
           next == Update(msg)
<1>1. /\ calls' = calls \o next[2] /\ inbox # <<>> /\ inbox' = Tail(inbox) \o <<>>
      /\ UNCHANGED <<worker, edits, writes>>
  BY PaintingIsSilent DEF Dispatch, counters
<1>2. inbox' = Tail(inbox) /\ IsChannel(inbox') /\ msg.kind \in MsgKind
  BY <1>1, TakenAway DEF WriteInv, PictureInv, Shapes
<1>3. /\ IsChannel(next[2])
      /\ msg.kind = "Refresh" => next[2][1].kind = "Load"
      /\ IF msg.kind \in Answers THEN next[2] = <<>> ELSE Len(next[2]) = 1
  BY <1>2, Folded DEF WriteInv, PictureInv
<1>4. HowMany(inbox, EditKind)
        = HowMany(inbox', EditKind) + (IF msg.kind \in EditKind THEN 1 ELSE 0)
  BY <1>1, <1>2, TakenCounts, CountsAreNumbers
<1>5. HowMany(inbox', EditKind) \in Nat
  BY <1>2, PlacesAreFinite
<1> HIDE DEF next, msg
<1>6. CASE msg.kind \in Answers
  <2>1. calls' = calls
    BY <1>1, <1>3, <1>6, ConcatEmptySeq, CountsAreNumbers DEF IsChannel
  <2>2. msg.kind \notin EditKind
    BY <1>6 DEF Answers, EditKind
  <2> QED BY <1>1, <1>4, <1>5, <2>1, <2>2, CountsAreNumbers DEF Underway
<1>7. CASE msg.kind \notin Answers
  <2>1. calls' = Append(calls, next[2][1])
    BY <1>1, <1>3, <1>7, JoinedOne, CountsAreNumbers
  <2>2. HowMany(calls', WriteKind)
          = HowMany(calls, WriteKind) + (IF next[2][1].kind \in WriteKind THEN 1 ELSE 0)
    BY <2>1, SentCounts, CountsAreNumbers
  <2>3. msg.kind \in EditKind \/ next[2][1].kind \notin WriteKind
    BY <1>2, <1>3, <1>7 DEF MsgKind, EditKind, Answers, WriteKind
  <2> QED BY <1>1, <1>4, <1>5, <2>2, <2>3, CountsAreNumbers DEF Underway
<1> QED BY <1>6, <1>7

LEMMA WriteStep == WriteInv /\ [Next]_vars => WriteInv'
<1> SUFFICES ASSUME WriteInv, [Next]_vars PROVE WriteInv'
  OBVIOUS
<1>1. PictureInv'
  BY PictureStep DEF WriteInv
<1>2. CASE World
  <2>1. UNCHANGED <<worker, calls, inbox, edits, writes>>
    BY <1>2 DEF World, OtherClient, ItemRetitled, ItemGone, Other
  <2> QED BY <1>1, <2>1 DEF WriteInv, Underway
<1>3. CASE UNCHANGED vars
  <2>1. UNCHANGED <<worker, calls, inbox, edits, writes>>
    BY <1>3 DEF vars, counters
  <2> QED BY <1>1, <2>1 DEF WriteInv, Underway
<1> QED BY <1>1, <1>2, <1>3, UserWrites, WorkWrites, CallFailsWrites, DispatchWrites DEF Next, WriteInv

(* Painting a picture never makes the app ask for a change (view.rs        *)
(* applying): the daemon is asked for at most one change per thing the     *)
(* user did, whatever pictures arrive, however many.                       *)
THEOREM OnlyEditsAreWritten == Spec => []OnlyTheUserWrites
<1>1. WriteInv => OnlyTheUserWrites
  BY CountsAreNumbers DEF OnlyTheUserWrites, Underway
<1> QED BY <1>1, InitWrites, WriteStep, PTL DEF Spec
=============================================================================
