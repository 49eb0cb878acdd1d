---------------------------- MODULE SettingsApp ----------------------------
(***************************************************************************)
(* The settings app, crates/taskbar-app, with the daemon it talks to.      *)
(*                                                                         *)
(* The window turns what the user does into messages; the main loop folds  *)
(* one message at a time into the state, paints it and queues calls; a     *)
(* worker makes one call at a time and answers with a message.  Messages   *)
(* and calls are FIFO channels.                                            *)
(*                                                                         *)
(* Of the configuration three fields are kept: the icon size, what is      *)
(* hidden and the manual order; the others go the way of the icon size.    *)
(***************************************************************************)
EXTENDS Integers, Sequences, SequencesExt

CONSTANTS
  Keys,         \* the keys of the tray items, in a sequence
  FirstConfig,  \* the configuration the daemon starts with
  Sizes,        \* icon sizes the user picks
  OtherConfigs, \* configurations another client writes
  MaxEvents     \* bound on edits, other changes and failing calls together

VARIABLES
  config,   \* the daemon's configuration
  items,    \* its items, [key, title] in the order of registration
  signal,   \* a change signal of the daemon waits for the worker
  worker,   \* [doing, call, config, items]: what the worker is at; what it has read
            \* is in a set, empty as long as it has not
  calls,    \* channel of Call
  inbox,    \* channel of Msg
  state,    \* [loaded, config, items, error] of the app
  window,   \* [icon_size, rows] as drawn
  edits, others, failures, \* what happened so far
  writes,   \* changes the worker asked the daemon for
  last      \* the last thing the user set, [field, key, value]

daemonVars == <<config, items>>
appVars == <<state, window>>
counters == <<edits, others, failures>>
vars == <<daemonVars, signal, worker, calls, inbox, appVars, counters, writes, last>>

Nothing == [field |-> "none"]

Clamp(n, low, high) == IF n < low THEN low ELSE IF n > high THEN high ELSE n

(* Config::from_view: what the daemon keeps of a configuration.            *)
FromView(view) == [view EXCEPT !.icon_size = Clamp(@, 8, 128)]

(* ListAllItems: in manual order, the others after them as registered.     *)
Listed(conf, present) ==
  LET Named(key) == SelectSeq(present, LAMBDA item : item.key = key)
  IN  FlattenSeq([n \in DOMAIN conf.order |-> Named(conf.order[n])])
        \o SelectSeq(present, LAMBDA item : ~Contains(conf.order, item.key))

KeysOf(list) == [n \in DOMAIN list |-> list[n].key]

(* MoveItem: the place at n and its neighbour trade, and that is the order.*)
Moved(conf, present, key, delta) ==
  LET keys == KeysOf(Listed(conf, present))
      from == CHOOSE n \in DOMAIN keys : keys[n] = key
      to   == Clamp(from + delta, 1, Len(keys))
  IN  IF Contains(keys, key)
        THEN [conf EXCEPT !.order = InsertAt(RemoveAt(keys, from), to, key)] ELSE conf

-----------------------------------------------------------------------------
(* State::default, and a window before the first reply.                    *)
DefaultConfig == [icon_size |-> 0, hidden |-> {}, order |-> <<>>]
FirstState == [loaded |-> FALSE, config |-> DefaultConfig, items |-> <<>>, error |-> FALSE]
IdleWorker == [doing |-> "waiting", call |-> [kind |-> "Load"], config |-> {}, items |-> {}]

Init ==
  /\ config = FirstConfig
  /\ items = [n \in DOMAIN Keys |-> [key |-> Keys[n], title |-> 0]]
  /\ signal = FALSE /\ worker = IdleWorker
  /\ calls = <<[kind |-> "Load"]>> /\ inbox = <<[kind |-> "Refresh"]>>
  /\ state = FirstState /\ window = [icon_size |-> 8, rows |-> <<>>]
  /\ edits = 0 /\ others = 0 /\ failures = 0 /\ writes = 0 /\ last = Nothing

-----------------------------------------------------------------------------
(* view.rs: the handlers of the widgets, and apply.                        *)
Send(msg) == inbox' = Append(inbox, msg)

MayHappen == edits + others + failures < MaxEvents

Edit == MayHappen /\ edits' = edits + 1

Spin(size) ==
  /\ Edit /\ size # window.icon_size
  /\ window' = [window EXCEPT !.icon_size = size]
  /\ Send([kind |-> "SetIconSize", value |-> size])
  /\ last' = [field |-> "icon_size", value |-> size]
  /\ UNCHANGED <<daemonVars, signal, worker, calls, state, others, failures, writes>>

Switch(n) ==
  /\ Edit
  /\ window' = [window EXCEPT !.rows[n].visible = ~@]
  /\ Send([kind |-> "SetItemHidden", key |-> window.rows[n].key, value |-> window.rows[n].visible])
  /\ last' = [field |-> "hidden", key |-> window.rows[n].key, value |-> window.rows[n].visible]
  /\ UNCHANGED <<daemonVars, signal, worker, calls, state, others, failures, writes>>

(* The buttons are sensitive where there is somewhere to go.               *)
Press(n, delta) ==
  /\ Edit /\ n + delta \in DOMAIN window.rows
  /\ Send([kind |-> "MoveItem", key |-> window.rows[n].key, delta |-> delta])
  /\ last' = Nothing
  /\ UNCHANGED <<daemonVars, signal, worker, calls, appVars, others, failures, writes>>

(* Rows are rebuilt when the keys, in order, changed; else their switches  *)
(* are set and the rest of the row stays.                                  *)
Rows(new, rows) ==
  LET Visible(key) == key \notin new.config.hidden
  IN  IF KeysOf(new.items) = KeysOf(rows)
        THEN [n \in DOMAIN rows |-> [rows[n] EXCEPT !.visible = Visible(rows[n].key)]]
        ELSE [n \in DOMAIN new.items |->
                [ key |-> new.items[n].key, title |-> new.items[n].title,
                  visible |-> Visible(new.items[n].key) ]]

(* A SpinRow from 8 to 48 shows the nearest value it has.                  *)
Painted(new, old) ==
  [icon_size |-> Clamp(new.config.icon_size, 8, 48), rows |-> Rows(new, old.rows)]

(* Mistake: the handler of a row's switch does not look at `applying`.     *)
GuardedScalars == {"SetIconSize"}

(* What is not sent while `applying` is set.                               *)
Guarded == {"SetIconSize", "SetItemHidden"}

Notified(kind, msgs) == IF kind \in Guarded THEN <<>> ELSE SetToSeq(msgs)

(* What the handlers of the widgets send while apply changes them.  A new  *)
(* row has its value before its handler.                                   *)
Echoes(before, after) ==
  LET respun  == IF before.icon_size = after.icon_size THEN {}
                 ELSE {[kind |-> "SetIconSize", value |-> after.icon_size]}
      flipped == IF KeysOf(before.rows) # KeysOf(after.rows) THEN {}
                 ELSE {n \in DOMAIN after.rows : before.rows[n].visible # after.rows[n].visible}
  IN  Notified("SetIconSize", respun)
        \o Notified("SetItemHidden",
             { [ kind |-> "SetItemHidden", key |-> after.rows[n].key,
                 value |-> ~after.rows[n].visible ] : n \in flipped })

-----------------------------------------------------------------------------
(* model.rs update, and main.rs dispatch: fold, paint, queue the calls.    *)

(* Mistake: the daemon is sent the configuration before the change.        *)
WithConfigBefore(new) ==
  << [state EXCEPT !.config = new, !.error = FALSE],
     <<[kind |-> "SetConfig", config |-> state.config]>> >>

WithConfig(new) ==
  << [state EXCEPT !.config = new, !.error = FALSE],
     <<[kind |-> "SetConfig", config |-> new]>> >>

(* Mistake: a failure is not remembered.                                   *)
FailedForgotten == <<state, <<>> >>

Failed == <<[state EXCEPT !.error = TRUE], <<>> >>

(* Mistake: each picture makes the app ask for the next.                   *)
LoadedForEver(msg) ==
  << [loaded |-> TRUE, config |-> msg.config, items |-> msg.items, error |-> FALSE],
     <<[kind |-> "Load"]>> >>

Loaded(msg) ==
  << [loaded |-> TRUE, config |-> msg.config, items |-> msg.items, error |-> FALSE], <<>> >>

(* The next state and the calls to make.                                   *)
Update(msg) ==
  CASE msg.kind = "Loaded" -> Loaded(msg)
    [] msg.kind = "Failed" -> Failed
    [] msg.kind = "Refresh" -> <<state, <<[kind |-> "Load"]>> >>
    [] msg.kind = "SetIconSize" ->
         WithConfig([state.config EXCEPT !.icon_size = Clamp(msg.value, 8, 128)])
    [] msg.kind = "SetItemHidden" ->
         WithConfig([state.config EXCEPT !.hidden =
                       IF msg.value THEN @ \cup {msg.key} ELSE @ \ {msg.key}])
    [] msg.kind = "MoveItem" -> <<state, <<msg>> >>

Dispatch ==
  /\ inbox # <<>>
  /\ LET next == Update(Head(inbox)) IN
     /\ state' = next[1]
     /\ calls' = calls \o next[2]
     /\ window' = Painted(next[1], window)
     /\ inbox' = Tail(inbox) \o Echoes(window, window')
  /\ UNCHANGED <<daemonVars, signal, worker, counters, writes, last>>

(* win.refresh, which does not go through the channel.                     *)
AskAgain ==
  /\ Edit
  /\ calls' = Append(calls, [kind |-> "Load"])
  /\ window' = Painted(state, window)
  /\ inbox' = inbox \o Echoes(window, window')
  /\ UNCHANGED <<daemonVars, signal, worker, state, others, failures, writes, last>>

-----------------------------------------------------------------------------
(* client.rs: the worker.                                                  *)
Hear ==
  /\ worker.doing = "waiting" /\ signal
  /\ signal' = FALSE
  /\ Send([kind |-> "Refresh"])
  /\ UNCHANGED <<daemonVars, worker, calls, appVars, counters, writes, last>>

Take ==
  /\ worker.doing = "waiting" /\ calls # <<>>
  /\ calls' = Tail(calls)
  /\ worker' = [IdleWorker EXCEPT !.call = Head(calls),
                  !.doing = IF Head(calls).kind = "Load" THEN "loading" ELSE "writing"]
  /\ UNCHANGED <<daemonVars, signal, inbox, appVars, counters, writes, last>>

(* The daemon carries out SetConfig or MoveItem; a reload follows.         *)
Write ==
  /\ worker.doing = "writing"
  /\ config' = IF worker.call.kind = "SetConfig" THEN FromView(worker.call.config)
               ELSE Moved(config, items, worker.call.key, worker.call.delta)
  /\ signal' = TRUE
  /\ writes' = writes + 1
  /\ worker' = [worker EXCEPT !.doing = "loading"]
  /\ UNCHANGED <<items, calls, inbox, appVars, counters, last>>

(* The calls of a load are answered one by one, in any order.              *)
ReadConfig ==
  /\ worker.doing = "loading" /\ worker.config = {}
  /\ worker' = [worker EXCEPT !.config = {config}]
  /\ UNCHANGED <<daemonVars, signal, calls, inbox, appVars, counters, writes, last>>

ReadItems ==
  /\ worker.doing = "loading" /\ worker.items = {}
  /\ worker' = [worker EXCEPT !.items = {Listed(config, items)}]
  /\ UNCHANGED <<daemonVars, signal, calls, inbox, appVars, counters, writes, last>>

Report ==
  /\ worker.doing = "loading"
  /\ \E conf \in worker.config, list \in worker.items :
       Send([kind |-> "Loaded", config |-> conf, items |-> list])
  /\ worker' = IdleWorker
  /\ UNCHANGED <<daemonVars, signal, calls, appVars, counters, writes, last>>

CallFails ==
  /\ worker.doing # "waiting" /\ MayHappen
  /\ Send([kind |-> "Failed"])
  /\ worker' = IdleWorker
  /\ failures' = failures + 1
  /\ UNCHANGED <<daemonVars, signal, calls, appVars, edits, others, writes, last>>

-----------------------------------------------------------------------------
(* The rest of the world: another client, and the items.                   *)
Other == MayHappen /\ others' = others + 1 /\ signal' = TRUE

OtherClient(new) ==
  /\ Other /\ config' = new
  /\ UNCHANGED <<items, worker, calls, inbox, appVars, edits, failures, writes, last>>

ItemRetitled(n) ==
  /\ Other /\ items' = [items EXCEPT ![n].title = @ + 1]
  /\ UNCHANGED <<config, worker, calls, inbox, appVars, edits, failures, writes, last>>

ItemGone(n) ==
  /\ Other /\ items' = RemoveAt(items, n)
  /\ UNCHANGED <<config, worker, calls, inbox, appVars, edits, failures, writes, last>>

User ==
  \/ AskAgain
  \/ \E size \in Sizes : Spin(size)
  \/ \E n \in DOMAIN window.rows : Switch(n) \/ Press(n, -1) \/ Press(n, 1)

World ==
  \/ \E new \in OtherConfigs : OtherClient(new)
  \/ \E n \in DOMAIN items : ItemRetitled(n) \/ ItemGone(n)

Work == Take \/ Hear \/ Write \/ ReadConfig \/ ReadItems \/ Report

Next == User \/ World \/ Dispatch \/ Work \/ CallFails

(* The main loop and the worker go on; nobody has to do anything.          *)
Spec == Init /\ [][Next]_vars /\ WF_vars(Dispatch) /\ WF_vars(Work)

-----------------------------------------------------------------------------
AtRest == inbox = <<>> /\ calls = <<>> /\ worker = IdleWorker /\ ~signal

(* "What the user sees always matches what the daemon kept" (client.rs):   *)
(* once all is quiet and no error is shown, the window shows the           *)
(* configuration and the items the daemon has, whatever failed, whoever    *)
(* else changed them, and although the three parts of a picture are read   *)
(* at different times.  The titles of the rows are left out: rows are      *)
(* rebuilt only when the keys change (view.rs apply_items), so a title     *)
(* that changes later stays as it was.                                     *)
SettledIsTrue ==
  AtRest /\ state.loaded /\ ~state.error =>
    /\ state.config = config /\ state.items = Listed(config, items)
    /\ window.icon_size = Clamp(config.icon_size, 8, 48)
    /\ KeysOf(window.rows) = KeysOf(state.items)
    /\ \A n \in DOMAIN window.rows :
         window.rows[n].visible <=> window.rows[n].key \notin config.hidden

(* The daemon is asked for nothing the user did not do: painting a picture *)
(* never makes the widgets ask for a change (view.rs applying).            *)
OnlyTheUserWrites == writes <= edits

(* Requests and replies come to an end: a picture that arrives does not    *)
(* make the app ask for another one for ever.                              *)
ComesToRest == <>[]AtRest

(* What the user set last is what the daemon ends up with, unless a call   *)
(* failed or somebody else changed something: no reload overtakes it.      *)
LastEditLands ==
  <>[](\/ failures > 0 \/ others > 0 \/ last = Nothing
       \/ last.field = "icon_size" /\ config.icon_size = last.value
       \/ last.field = "hidden" /\ (last.key \in config.hidden <=> last.value))

(* "Change the configuration, show the result at once and ask the daemon   *)
(* to keep it" (model.rs with_config): when the icon size is all the user  *)
(* has changed, what is hidden and the order stay as they were.            *)
SizeTouchesNothingElse ==
  [][ edits = 1 /\ last # Nothing /\ last.field = "icon_size" /\ writes' > writes
      => config'.hidden = config.hidden /\ config'.order = config.order ]_vars

(* Of two edits, the second leaves alone what the first one set: it is     *)
(* made to the configuration the window has, which a reload that was under *)
(* way may have set back to what it was before the first (with_config).    *)
SecondEditKeepsFirst ==
  [][ edits = 2 /\ writes = 1 /\ writes' = 2 /\ last # Nothing /\ last.field = "hidden"
      => config'.icon_size = config.icon_size ]_vars
=============================================================================
