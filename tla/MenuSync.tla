------------------------------ MODULE MenuSync ------------------------------
(***************************************************************************)
(* The cached menu of one item: crates/taskbar-daemon/src/item.rs,         *)
(* service.rs and store.rs with update_menu of crates/taskbar-core/src/    *)
(* model.rs, and the panel that asks again whenever the menu changed       *)
(* (extension/taskbar@taskbar.dev/extension.js).                           *)
(*                                                                         *)
(* A menu is <<object path, version>>; versions of a path are told apart   *)
(* by their revision.  A menu task and a GetMenu call are state machines   *)
(* whose steps are what happens between two awaits.                        *)
(***************************************************************************)
EXTENDS Integers, Sequences, SequencesExt

CONSTANTS
  Paths,       \* the object paths the application exports menus at
  FirstPath,   \* the one it starts with
  Tasks,       \* menu tasks; one registration of the item each
  FirstTask,   \* the one of the first item task
  Calls,       \* GetMenu calls the daemon works on at once
  MaxEvents,   \* bound on all the application does: changes of a menu or of the
               \* Menu property, registering again, not answering a call
  Overtaking   \* whether an answer may overtake one that was read before it

ASSUME FirstsExist == FirstPath \in Paths /\ FirstTask \in Tasks /\ Overtaking \in BOOLEAN

NoMenu == <<>>

VARIABLES
  path,      \* the Menu property of the application
  version,   \* what its menu at each path is now
  storePath, \* the menu path in the store
  cache,     \* the menu in the store
  followed,  \* the item task: its local menu_path
  current,   \* the item task: its local menu_task
  dirty,     \* the item task: a signal of the item waits
  task,      \* the menu tasks
  call,      \* the GetMenu calls
  owed,      \* GetMenu calls sent for a MenuChanged and not begun
  answers,   \* answers to GetMenu on their way to the panel
  shown,     \* the menu the panel shows
  events,    \* what the application did so far
  missed     \* no menu task could hear of the last change, or fetch it, or
             \* registering again took the menu from under an answer, or a task
             \* stored a menu as it was aborted and told nobody

itemVars == <<storePath, followed, current, dirty>>
panelVars == <<answers, shown>>
vars == <<path, version, cache, task, call, owed, panelVars, missed, itemVars, events>>

NoTask  == [state |-> "none", path |-> FirstPath, signals |-> 0, tree |-> NoMenu]
NewTask == [NoTask EXCEPT !.state = "subscribing"]
Idle    == [state |-> "idle", path |-> FirstPath, tree |-> NoMenu]

Menu(p) == <<p, version[p]>>

Event == events < MaxEvents /\ events' = events + 1

Init ==
  /\ path = FirstPath /\ version = [p \in Paths |-> 0]
  /\ storePath = FirstPath /\ cache = NoMenu
  /\ followed = FirstPath /\ current = FirstTask /\ dirty = FALSE
  /\ task = [t \in Tasks |-> IF t = FirstTask THEN NewTask ELSE NoTask]
  /\ call = [c \in Calls |-> Idle] /\ owed = 1
  /\ answers = <<>> /\ shown = NoMenu
  /\ events = 0 /\ missed = FALSE

-----------------------------------------------------------------------------
(* The application.                                                        *)
Subscribed(t) == task[t].state \in {"listening", "fetching", "fetched"}

(* Any of its menus changes, and says so; AboutToShow is one occasion.     *)
ChangeMenu(p) ==
  /\ Event
  /\ version' = [version EXCEPT ![p] = @ + 1]
  /\ task' = [t \in Tasks |-> IF Subscribed(t) /\ task[t].path = p
                                THEN [task[t] EXCEPT !.signals = @ + 1] ELSE task[t]]
  /\ missed' = IF p = path THEN task' = task \/ storePath # path ELSE missed
  /\ UNCHANGED <<path, cache, call, owed, panelVars, itemVars>>

(* It names another menu as its menu, and says so.                         *)
SwapMenu(p) ==
  /\ p # path /\ Event
  /\ path' = p
  /\ dirty' = TRUE /\ missed' = TRUE
  /\ UNCHANGED <<version, cache, task, call, owed, panelVars, storePath, followed, current>>

-----------------------------------------------------------------------------
(* The store: update_menu and its announcement, on which the panel asks.   *)

(* Mistake: every fetch is announced, changed or not.                      *)
UpdateMenuLoudly(tree) == cache' = tree /\ owed' = owed + 1

UpdateMenu(tree) ==
  /\ cache' = tree
  /\ owed' = IF cache = tree THEN owed ELSE owed + 1

-----------------------------------------------------------------------------
(* The item task.                                                          *)
TaskFor(p) == [NewTask EXCEPT !.path = p]

(* refresh_props: fetch and store the properties, then follow the menu if  *)
(* its path changed.  A task that was about to store its tree when it is   *)
(* aborted may still do so, but not announce it.                           *)
RefreshProps ==
  /\ dirty /\ dirty' = FALSE
  /\ storePath' = path
  /\ IF followed = path
       THEN UNCHANGED <<cache, task, followed, current, missed>>
       ELSE /\ followed' = path /\ current' = current
            /\ task' = [task EXCEPT ![current] = TaskFor(path)]
            /\ \/ cache' = cache /\ missed' = missed
               \/ /\ task[current].state = "fetched"
                  /\ cache' = task[current].tree /\ missed' = TRUE
  /\ UNCHANGED <<path, version, call, owed, panelVars, events>>

(* A probe stores the properties and does not look at the menu path.       *)
Probe ==
  /\ storePath # path
  /\ storePath' = path
  /\ UNCHANGED <<path, version, cache, task, call, owed, panelVars, missed, followed, current,
                 dirty, events>>

(* The item registers again: its cached menu is dropped without a word     *)
(* (model.rs register), its item task aborted, and the menu task of that   *)
(* one detached, not aborted.                                              *)
Reregister ==
  /\ Event
  /\ storePath' = path /\ followed' = path /\ cache' = NoMenu /\ dirty' = FALSE
  /\ \E t \in Tasks : /\ task[t].state = "none"
                      /\ current' = t /\ task' = [task EXCEPT ![t] = TaskFor(path)]
  /\ missed' = (missed \/ \E c \in Calls : call[c].state = "stored")
  /\ UNCHANGED <<path, version, call, owed, panelVars>>

-----------------------------------------------------------------------------
(* A menu task: spawn_menu_task.                                           *)
SetTask(t, state) == task' = [task EXCEPT ![t].state = state]

Subscribe(t) ==
  /\ task[t].state = "subscribing" /\ SetTask(t, "listening")
  /\ UNCHANGED <<path, version, cache, call, owed, panelVars, missed, itemVars, events>>

(* One signal, and the sleep that lets others come in.                     *)
Hear(t) ==
  /\ task[t].state = "listening" /\ task[t].signals > 0
  /\ task' = [task EXCEPT ![t].state = "fetching", ![t].signals = @ - 1]
  /\ UNCHANGED <<path, version, cache, call, owed, panelVars, missed, itemVars, events>>

TaskFetch(t) ==
  /\ task[t].state = "fetching"
  /\ task' = [task EXCEPT ![t].state = "fetched", ![t].tree = Menu(task[t].path)]
  /\ UNCHANGED <<path, version, cache, call, owed, panelVars, missed, itemVars, events>>

(* fetch_menu fails: the task goes on with the next signal.                *)
TaskFetchFails(t) ==
  /\ task[t].state = "fetching" /\ Event
  /\ SetTask(t, "listening")
  /\ missed' = TRUE
  /\ UNCHANGED <<path, version, cache, call, owed, panelVars, itemVars>>

TaskStore(t) ==
  /\ task[t].state = "fetched"
  /\ UpdateMenu(task[t].tree)
  /\ task' = [task EXCEPT ![t].state = "listening", ![t].tree = NoMenu]
  /\ UNCHANGED <<path, version, call, panelVars, missed, itemVars, events>>

-----------------------------------------------------------------------------
(* A call of GetMenu: get_menu and refresh_menu.                           *)
SetCall(c, state) == call' = [call EXCEPT ![c].state = state]

Ask(c) ==
  /\ call[c].state = "idle" /\ owed > 0
  /\ owed' = owed - 1
  /\ call' = [call EXCEPT ![c] = [state |-> "asking", path |-> storePath, tree |-> NoMenu]]
  /\ UNCHANGED <<path, version, cache, task, panelVars, missed, itemVars, events>>

CallFetch(c) ==
  /\ call[c].state = "asking"
  /\ call' = [call EXCEPT ![c].state = "fetched", ![c].tree = Menu(call[c].path)]
  /\ UNCHANGED <<path, version, cache, task, owed, panelVars, missed, itemVars, events>>

(* Mistake: what a call fetched is cached and not announced.               *)
CallStoreSilently(c) ==
  /\ call[c].state = "fetched"
  /\ cache' = call[c].tree
  /\ SetCall(c, "stored")
  /\ UNCHANGED <<path, version, task, owed, panelVars, missed, itemVars, events>>

CallStore(c) ==
  /\ call[c].state = "fetched"
  /\ UpdateMenu(call[c].tree)
  /\ SetCall(c, "stored")
  /\ UNCHANGED <<path, version, task, panelVars, missed, itemVars, events>>

(* refresh_menu gives None, and the cached menu is the answer.             *)
CallFetchFails(c) ==
  /\ call[c].state = "asking" /\ Event
  /\ SetCall(c, "stored")
  /\ missed' = TRUE
  /\ UNCHANGED <<path, version, cache, task, owed, panelVars, itemVars>>

(* The answer is what is cached by now.                                    *)
Reply(c) ==
  /\ call[c].state = "stored"
  /\ answers' = Append(answers, cache)
  /\ call' = [call EXCEPT ![c] = Idle]
  /\ UNCHANGED <<path, version, cache, task, owed, shown, missed, itemVars, events>>

(* updateMenu, whatever its revision; no menu is an error and changes      *)
(* nothing there.                                                          *)
Deliver ==
  /\ \E n \in DOMAIN answers :
       /\ Overtaking \/ n = 1
       /\ shown' = IF answers[n] = NoMenu THEN shown ELSE answers[n]
       /\ answers' = RemoveAt(answers, n)
  /\ UNCHANGED <<path, version, cache, task, call, owed, missed, itemVars, events>>

-----------------------------------------------------------------------------
Work(t) == Subscribe(t) \/ Hear(t) \/ TaskFetch(t) \/ TaskStore(t)
Serve(c) == CallFetch(c) \/ CallStore(c) \/ Reply(c)

Next ==
  \/ \E p \in Paths : ChangeMenu(p) \/ SwapMenu(p)
  \/ RefreshProps \/ Probe \/ Reregister \/ Deliver
  \/ \E t \in Tasks : Work(t) \/ TaskFetchFails(t)
  \/ \E c \in Calls : Ask(c) \/ Serve(c) \/ CallFetchFails(c)

(* Tasks and calls go on, the bus delivers, and an application that is not *)
(* counted as failing answers; the application itself need not do anything.*)
Fairness ==
  /\ WF_vars(RefreshProps)
  /\ \A t \in Tasks : WF_vars(Work(t))
  /\ \A c \in Calls : WF_vars(Serve(c))
  /\ WF_vars(\E c \in Calls : Ask(c))
  /\ WF_vars(Deliver)

Spec == Init /\ [][Next]_vars /\ Fairness

-----------------------------------------------------------------------------
(* The panel ends up with the menu the application has now, however menu   *)
(* tasks and GetMenu calls overtake each other: each stored menu, also an  *)
(* outdated one, makes it ask again.  Not so when the last change could    *)
(* not be heard or fetched, which nothing repeats.                         *)
PanelCatchesUp == <>[](missed \/ shown = Menu(path))

(* The same as of a moment: when nothing is under way any more, no signal, *)
(* no fetch, no call and no answer, the panel shows the menu there is      *)
(* (spawn_menu_task and refresh_menu, whose stores announce what differs). *)
Quiet ==
  /\ owed = 0 /\ answers = <<>> /\ \A c \in Calls : call[c].state = "idle"
  /\ \A t \in Tasks : task[t].signals = 0 /\ task[t].state \notin {"fetching", "fetched"}

QuietPanelIsCurrent == Quiet /\ ~Overtaking => missed \/ shown = Menu(path)

(* Asking and telling come to an end once the application leaves its menu  *)
(* alone, although each MenuChanged makes the panel call GetMenu and each  *)
(* GetMenu may announce a MenuChanged (model.rs update_menu).              *)
TrafficEnds == <>[](owed = 0 /\ \A c \in Calls : call[c] = Idle)
=============================================================================
