--------------------------- MODULE PanelExtension ---------------------------
(***************************************************************************)
(* The GNOME Shell extension: extension.js and daemon.js of                *)
(* extension/taskbar@taskbar.dev, and what indicator.js keeps.             *)
(*                                                                         *)
(* JavaScript runs one turn at a time; a turn is an operator from the      *)
(* panel before to the panel after.  A function that awaits a reply goes   *)
(* on in the turn of that reply: the call carries what it needs for that,  *)
(* and disable() does not take it back.  Icons, their size and the slot    *)
(* they are put in are left out.                                           *)
(***************************************************************************)
EXTENDS Integers, Sequences, SequencesExt, FiniteSets

CONSTANTS
  Keys,           \* the keys of items
  FirstItems,     \* keys an item may have at first
  Configs,        \* configurations, [iconSize, showWhenEmpty]
  MaxEvents,      \* bound on what happens to daemon, items and extension
  DisableAnytime, \* whether the extension is also disabled while ListItems is awaited
  Overtaking      \* whether a call to ListItems may be answered before an earlier one

ASSUME FirstsExist ==
  FirstItems \subseteq Keys /\ DisableAnytime \in BOOLEAN /\ Overtaking \in BOOLEAN

VARIABLES
  up,      \* the daemon is on the bus
  items,   \* its visible items: key -> which application in a row has it
  runs,    \* applications that had the key so far
  config,  \* its configuration
  inbox,   \* signals, replies and changes of the name's owner, on their way
           \* to the shell
  panel,   \* the extension, see FirstPanel
  events

daemonVars == <<up, items, runs, config>>
vars == <<daemonVars, inbox, panel, events>>

Unknown == [iconSize |-> 0, showWhenEmpty |-> FALSE]
NoItems == [k \in {} |-> 0]

(* The object a shell keeps across enable and disable.                     *)
FirstPanel ==
  [ client      |-> "new",    \* "none", or a DaemonClient: "new", "asked", "off", "on"
    config      |-> Unknown,  \* _config
    busy        |-> FALSE,    \* _busy
    queued      |-> FALSE,    \* _queued
    shown       |-> NoItems,  \* _indicators: key -> [id, born, run, menu]
    leftover    |-> {},       \* keys of indicators nobody has in _indicators
    placeholder |-> FALSE,    \* _placeholder
    made        |-> 0,        \* paintings that made indicators so far: their ids
    calls       |-> <<>> ]    \* calls not answered yet

Init ==
  /\ up = TRUE /\ config \in Configs
  /\ \E first \in SUBSET FirstItems :
       /\ IsFiniteSet(first)
       /\ items = [k \in first |-> 1]
       /\ runs = [k \in Keys |-> IF k \in first THEN 1 ELSE 0]
  /\ inbox = <<>> /\ panel = FirstPanel /\ events = 0

Event == events < MaxEvents /\ events' = events + 1

-----------------------------------------------------------------------------
(* extension.js: the turns.                                                *)
Call(p, call) == [p EXCEPT !.calls = Append(@, call)]

RemoveAll(p) == [p EXCEPT !.shown = NoItems, !.placeholder = FALSE]

(* _refreshItems once there is a configuration.                            *)
List(p, conf) == Call(p, [kind |-> "ListItems", config |-> conf])

(* Mistake: a change during a refresh is not remembered.                   *)
RefreshItemsOnce(p) ==
  CASE p.client # "on" \/ p.busy -> p
    [] p.client = "on" /\ ~p.busy /\ p.config = Unknown ->
         Call([p EXCEPT !.busy = TRUE], [kind |-> "GetConfig", refresh |-> TRUE])
    [] OTHER -> List([p EXCEPT !.busy = TRUE], p.config)

RefreshItems(p) ==
  CASE p.client # "on" -> p
    [] p.client = "on" /\ p.busy -> [p EXCEPT !.queued = TRUE]
    [] p.client = "on" /\ ~p.busy /\ p.config = Unknown ->
         Call([p EXCEPT !.busy = TRUE], [kind |-> "GetConfig", refresh |-> TRUE])
    [] OTHER -> List([p EXCEPT !.busy = TRUE], p.config)

(* Its `finally`.                                                          *)
Finish(p) ==
  IF p.queued THEN RefreshItems([p EXCEPT !.busy = FALSE, !.queued = FALSE])
  ELSE [p EXCEPT !.busy = FALSE]

RefreshConfig(p) == Call(p, [kind |-> "GetConfig", refresh |-> FALSE])

MenuCall(k, id) == [kind |-> "GetMenu", key |-> k, id |-> id, menu |-> 0]

RefreshMenu(p, k) ==
  IF k \in DOMAIN p.shown /\ p.client = "on" THEN Call(p, MenuCall(k, p.shown[k].id)) ELSE p

(* _applyItems, _syncPlaceholder, and _refreshMenu for each new indicator. *)
(* The shell refuses a second indicator of the same name, which ends the   *)
(* painting where it is met.                                               *)
Paint(p, list, conf, done) ==
  LET new == done \ DOMAIN p.shown
      id  == p.made + 1
      Indicator(k) ==
        IF k \in new THEN [id |-> id, born |-> list[k], run |-> list[k], menu |-> 0]
        ELSE [p.shown[k] EXCEPT !.run = list[k]]
      complete == done = DOMAIN list
      kept == IF complete THEN done ELSE done \cup DOMAIN p.shown
      asks == IF p.client = "on" THEN SetToSeq({MenuCall(k, id) : k \in new}) ELSE <<>>
  IN  [p EXCEPT !.shown = [k \in kept |-> IF k \in done THEN Indicator(k) ELSE p.shown[k]],
                !.made = IF new = {} THEN @ ELSE id,
                !.placeholder = IF complete THEN done = {} /\ conf.showWhenEmpty ELSE @,
                !.calls = @ \o asks]

(* How far painting gets.                                                  *)
Reached(p, list) ==
  LET refused == (DOMAIN list \cap p.leftover) \ DOMAIN p.shown
  IN  IF refused = {} THEN {DOMAIN list} ELSE SUBSET (DOMAIN list \ refused)

(* Mistake: a menu goes to whatever indicator has the key.                 *)
UpdateMenuOfKey(p, call, menu) ==
  IF call.key \in DOMAIN p.shown THEN [p EXCEPT !.shown[call.key].menu = menu] ELSE p

(* The menu that arrives, for the indicator that asked.                    *)
UpdateMenu(p, call, menu) ==
  IF call.key \in DOMAIN p.shown /\ p.shown[call.key].id = call.id
    THEN [p EXCEPT !.shown[call.key].menu = menu] ELSE p

-----------------------------------------------------------------------------
(* daemon.js: the name of the daemon.                                      *)

(* bus_watch_name asks for the owner first, and follows changes after that.*)
WatchName ==
  /\ panel.client = "new"
  /\ panel' = [panel EXCEPT !.client = "asked"]
  /\ inbox' = Append(inbox, [kind |-> "owner", up |-> up])
  /\ UNCHANGED <<daemonVars, events>>

NameAppeared(p) ==
  IF p.client = "off" THEN RefreshConfig(RefreshItems([p EXCEPT !.client = "on"])) ELSE p

(* Mistake: the extension is not told that the daemon is gone.             *)
NameVanishedUntold(p) == IF p.client = "on" THEN [p EXCEPT !.client = "off"] ELSE p

NameVanished(p) == IF p.client = "on" THEN RemoveAll([p EXCEPT !.client = "off"]) ELSE p

OwnerKnown(p, msg) ==
  LET q == [p EXCEPT !.client = "off"] IN IF msg.up THEN NameAppeared(q) ELSE q

(* A signal reaches only a client that is connected.                       *)
Heard(p, msg) ==
  CASE p.client # "on" -> p
    [] p.client = "on" /\ msg.signal = "items" -> RefreshItems(p)
    [] p.client = "on" /\ msg.signal = "config" -> RefreshConfig(p)
    [] p.client = "on" /\ msg.signal = "menu" -> RefreshMenu(p, msg.key)

(* A reply, or an error, resumes the function that made the call.          *)
Resumed(p, msg) ==
  CASE msg.call.kind = "GetConfig" /\ msg.call.refresh ->
         IF msg.failed THEN {Finish(p)}
         ELSE LET q == [p EXCEPT !.config = msg.value] IN
              {IF q.client = "on" THEN List(q, msg.value) ELSE Finish(q)}
    [] msg.call.kind = "GetConfig" /\ ~msg.call.refresh ->
         {IF msg.failed THEN p ELSE RefreshItems([p EXCEPT !.config = msg.value])}
    [] msg.call.kind = "ListItems" ->
         IF msg.failed THEN {Finish(p)}
         ELSE {Finish(Paint(p, msg.value, msg.call.config, done)) : done \in Reached(p, msg.value)}
    [] msg.call.kind = "GetMenu" ->
         {IF msg.failed THEN p ELSE UpdateMenu(p, msg.call, msg.value)}

Deliver ==
  /\ inbox # <<>> /\ inbox' = Tail(inbox)
  /\ LET msg == Head(inbox) IN
     panel' \in CASE msg.kind = "owner"  -> {OwnerKnown(panel, msg)}
                  [] msg.kind = "back"   -> {NameAppeared(panel)}
                  [] msg.kind = "gone"   -> {NameVanished(panel)}
                  [] msg.kind = "signal" -> {Heard(panel, msg)}
                  [] msg.kind = "reply"  -> Resumed(panel, msg)
                  [] msg.kind = "unwatched" -> {panel}
  /\ UNCHANGED <<daemonVars, events>>

(* enable and disable.  The shell keeps what disable leaves behind; nobody *)
(* hears the answer to a watch that was given up.                          *)
Listing ==
  \/ \E n \in DOMAIN panel.calls : panel.calls[n].kind = "ListItems"
  \/ \E n \in DOMAIN inbox : inbox[n].kind = "reply" /\ inbox[n].call.kind = "ListItems"

Disable ==
  /\ Event /\ panel.client # "none"
  /\ DisableAnytime \/ ~Listing
  /\ panel' = RemoveAll([panel EXCEPT !.client = "none", !.config = Unknown])
  /\ inbox' = [n \in DOMAIN inbox |->
                 IF inbox[n].kind = "owner" THEN [kind |-> "unwatched"] ELSE inbox[n]]
  /\ UNCHANGED daemonVars

Enable ==
  /\ panel.client = "none"
  /\ panel' = [FirstPanel EXCEPT !.made = panel.made, !.calls = panel.calls,
                                 !.leftover = panel.leftover \cup DOMAIN panel.shown]
  /\ UNCHANGED <<daemonVars, inbox, events>>

-----------------------------------------------------------------------------
(* The daemon, as far as the panel sees it.                                *)
Reply(call) ==
  LET To(value) == [kind |-> "reply", call |-> call, failed |-> FALSE, value |-> value]
      Failure   == [kind |-> "reply", call |-> call, failed |-> TRUE]
  IN  CASE ~up -> {Failure}
        [] up /\ call.kind = "GetConfig" -> {To(config)}
        [] up /\ call.kind = "ListItems" -> {To(items)}
        [] up /\ call.kind = "GetMenu" -> {IF call.menu = 0 THEN Failure ELSE To(call.menu)}

(* The daemon asks the application, which takes its time.                  *)
ReadMenu ==
  /\ \E n \in DOMAIN panel.calls :
       /\ panel.calls[n].kind = "GetMenu" /\ panel.calls[n].menu = 0 /\ up
       /\ panel.calls[n].key \in DOMAIN items
       /\ panel' = [panel EXCEPT !.calls[n].menu = items[panel.calls[n].key]]
  /\ UNCHANGED <<daemonVars, inbox, events>>

(* Calls run in tasks of their own; those to ListItems wait for nothing.   *)
InTurn(n) ==
  panel.calls[n].kind = "ListItems" =>
    \A earlier \in 1 .. n - 1 : panel.calls[earlier].kind # "ListItems"

Answer ==
  /\ \E n \in DOMAIN panel.calls : \E msg \in Reply(panel.calls[n]) :
       /\ Overtaking \/ InTurn(n)
       /\ inbox' = Append(inbox, msg)
       /\ panel' = [panel EXCEPT !.calls = RemoveAt(@, n)]
  /\ UNCHANGED <<daemonVars, events>>

Says(signal) == inbox' = Append(inbox, [kind |-> "signal", signal |-> signal])

ItemAppears(k) ==
  /\ Event /\ up /\ k \notin DOMAIN items
  /\ runs' = [runs EXCEPT ![k] = @ + 1]
  /\ items' = [j \in DOMAIN items \cup {k} |-> runs'[j]]
  /\ Says("items")
  /\ UNCHANGED <<up, config, panel>>

ItemGoes(k) ==
  /\ Event /\ up /\ k \in DOMAIN items
  /\ items' = [j \in DOMAIN items \ {k} |-> items[j]]
  /\ Says("items")
  /\ UNCHANGED <<up, runs, config, panel>>

MenuChanges(k) ==
  /\ Event /\ up /\ k \in DOMAIN items
  /\ inbox' = Append(inbox, [kind |-> "signal", signal |-> "menu", key |-> k])
  /\ UNCHANGED <<daemonVars, panel>>

ConfigChanges(new) ==
  /\ Event /\ up /\ config # new
  /\ config' = new
  /\ Says("config")
  /\ UNCHANGED <<up, items, runs, panel>>

(* Calls it has not answered fail.                                         *)
DaemonExits ==
  /\ Event /\ up
  /\ up' = FALSE
  /\ inbox' = inbox \o [n \in DOMAIN panel.calls |->
                          [kind |-> "reply", call |-> panel.calls[n], failed |-> TRUE]]
                    \o <<[kind |-> "gone"]>>
  /\ panel' = [panel EXCEPT !.calls = <<>>]
  /\ UNCHANGED <<items, runs, config>>

(* It starts without items, applications register again; what it finds in  *)
(* its file need not be the configuration there was.                       *)
DaemonStarts ==
  /\ ~up /\ up' = TRUE
  /\ items' = NoItems /\ config' \in Configs
  /\ inbox' = Append(inbox, [kind |-> "back"])
  /\ UNCHANGED <<runs, panel, events>>

World ==
  \/ \E k \in Keys : ItemAppears(k) \/ ItemGoes(k) \/ MenuChanges(k)
  \/ \E new \in Configs : ConfigChanges(new)
  \/ DaemonExits \/ DaemonStarts \/ Disable \/ Enable

Next == World \/ ReadMenu \/ Answer \/ Deliver \/ WatchName

(* The bus delivers, and a daemon that runs answers.                       *)
Spec == Init /\ [][Next]_vars /\ WF_vars(Answer) /\ WF_vars(Deliver) /\ WF_vars(WatchName)

-----------------------------------------------------------------------------
(* Nothing is on the panel while the extension is disabled or the daemon   *)
(* is away (disable, and 'status' in _onDaemonEvent), although calls made  *)
(* before are still answered.                                              *)
NothingShownAlone ==
  panel.client # "on" => panel.shown = NoItems /\ panel.leftover = {} /\ ~panel.placeholder

(* An indicator shows no menu of an application that had its key before    *)
(* the one it was made for, though replies to the indicator destroyed then *)
(* still come in (_refreshMenu).                                           *)
MenusAreNotInherited ==
  \A k \in DOMAIN panel.shown :
    panel.shown[k].menu # 0 => panel.shown[k].menu >= panel.shown[k].born

Running == [k \in DOMAIN panel.shown |-> panel.shown[k].run]

PanelIsRight ==
  /\ panel.config = config
  /\ Running = items /\ (panel.placeholder <=> items = NoItems /\ config.showWhenEmpty)

(* Nothing but menus is asked for, and nothing is on its way.              *)
Quiet ==
  /\ up /\ panel.client = "on" /\ inbox = <<>>
  /\ \A n \in DOMAIN panel.calls : panel.calls[n].kind = "GetMenu"

(* A panel that has heard and asked all there is shows what the daemon     *)
(* has, though changes were announced while _refreshItems was busy and     *)
(* refreshes of before disable finish in between (_busy, _queued).         *)
QuietPanelIsRight == Quiet => PanelIsRight

(* "The daemon always answers with a complete picture, so signals merely   *)
(* say 'something changed, ask again'" (daemon.js): in the end the panel   *)
(* has the items and the configuration the daemon has, whatever was busy,  *)
(* queued, in flight from before disable, or lost with the daemon.         *)
PanelFollows == <>[](up /\ panel.client # "none" => panel.client = "on" /\ PanelIsRight)
=============================================================================
