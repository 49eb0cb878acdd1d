---------------------------- MODULE TrayDaemon ----------------------------
(***************************************************************************)
(* The registry of the daemon and everything that runs around it at once:  *)
(* crates/taskbar-daemon/src/item.rs, watcher.rs and store.rs.             *)
(*                                                                         *)
(*  - registration calls, one task of the object server each               *)
(*    (RegisterStatusNotifierItem -> Registry::register);                  *)
(*  - item tasks, one spawned by each registration that got that far       *)
(*    (spawn_item_task), which probe, refresh and finally drop their item; *)
(*  - the name watch (spawn_name_watch), which drops the items of a bus    *)
(*    name that changed hands.                                             *)
(*                                                                         *)
(* They run on a multi-threaded runtime and share the tray (one mutex) and *)
(* the map of tasks (another).  A step below is what happens under one     *)
(* lock, or between a request to an application and its answer; the steps  *)
(* of different actors interleave freely.                                  *)
(*                                                                         *)
(* Aborting a task (JoinHandle::abort) stops it where it waits.  A task    *)
(* that is running at that moment goes on to its next wait: so an aborted  *)
(* task may still finish the locked steps it is about to make, and at a    *)
(* wait that is over at once (a signal sent without blocking) may pass it. *)
(*                                                                         *)
(* Menus, configuration and the watcher's own signals are not here.        *)
(***************************************************************************)
EXTENDS TrayState

CONSTANTS
  Name,        \* bus names
  NameOf,      \* NameOf[s]: the bus name of a service
  EarlyName,   \* names that are on the bus before the name watch listens
  Speaks,      \* Speaks[s]: the properties s may answer with over time
  Call,        \* registration calls, each made at most once: a bound
  Registers,   \* Registers[c]: the service that call c registers
  NameWatch,   \* the name watch as an actor
  NoTask, NoKey, NoService, NoProps,
  MaxChanges   \* bound on how often applications change their properties

ASSUME DaemonAssumption ==
  /\ NameOf \in [Service -> Name]
  /\ EarlyName \subseteq Name
  /\ Speaks \in [Service -> SUBSET Props] /\ \A s \in Service : Speaks[s] # {}
  /\ Registers \in [Call -> Service]
  /\ NameWatch \notin Call /\ NoTask \notin Call
  /\ NoKey \notin Key /\ NoService \notin Service /\ NoProps \notin Props
  /\ MaxChanges \in Nat

Actor == Call \cup {NameWatch}   \* who may run vanish_key; a task is named by its call

VARIABLES
  (* the bus and the applications *)
  names,       \* names[n]: is n not owned yet, owned, or given up for good
  exported,    \* services that answer: their name is owned, their object exported
  says,        \* says[s]: the properties s answers with
  changes,     \* how often properties changed so far
  nameEvents,  \* NameOwnerChanged signals the name watch has yet to handle
  (* struct Store *)
  tray,        \* struct State
  untold,      \* the tray changed and ItemsChanged was not emitted since
  (* struct Registry *)
  tasks,       \* tasks[k]: the task filed under key k
  aborted,     \* tasks that were aborted
  (* local state of the actors *)
  call,        \* call[c]: where a registration call is, and what it has read
  task,        \* task[c]: the item task that registration call c spawned
  pc, gone,    \* pc[a], gone[a]: where an actor is, and the key it is dropping
  doomed       \* keys of the changed name the name watch has yet to drop

appVars   == <<names, exported, says, changes>>
storeVars == <<tray, untold>>
regVars   == <<tasks, aborted>>
vars      == <<appVars, nameEvents, storeVars, regVars, call, task, pc, gone, doomed>>

-----------------------------------------------------------------------------
CallPc == {"unused", "fetch", "apply", "emit", "key", "insert", "done"}
TaskPc == {"none", "start", "watching", "refresh", "apply", "emit",
           "remove", "lookup", "drop", "tell", "done"}

CallState == [pc : CallPc, props : Props \cup {NoProps}]

ItemTask == [ key : Key \cup {NoKey}, service : Service \cup {NoService},
              follows : Service \cup {NoService}, signalled : BOOLEAN,
              props : Props \cup {NoProps}, failed : 0 .. 2 ]

(* Actors only hold keys, services and properties of the tray's types, and *)
(* no item task lives past its second failed probe (PROBES_BEFORE_GONE).   *)
TypeOK ==
  /\ names \in [Name -> {"new", "owned", "gone"}] /\ exported \subseteq Service
  /\ says \in [Service -> Props] /\ changes \in 0 .. MaxChanges
  /\ nameEvents \in Seq(Name)
  /\ tray.items \subseteq Item /\ tray.revision \in Nat /\ untold \in BOOLEAN
  /\ tasks \in [Key -> Call \cup {NoTask}] /\ aborted \subseteq Call
  /\ call \in [Call -> CallState] /\ task \in [Call -> ItemTask]
  /\ pc \in [Actor -> TaskPc] /\ gone \in [Actor -> Key \cup {NoKey}]
  /\ doomed \subseteq Key

NoItemTask == [ key |-> NoKey, service |-> NoService, follows |-> NoService,
                signalled |-> FALSE, props |-> NoProps, failed |-> 0 ]

Init ==
  /\ names = [n \in Name |-> IF n \in EarlyName THEN "owned" ELSE "new"]
  /\ exported = {s \in Service : NameOf[s] \in EarlyName}
  /\ says \in {f \in [Service -> Props] : \A s \in Service : f[s] \in Speaks[s]}
  /\ changes = 0
  /\ nameEvents = <<>>
  /\ tray = [config |-> DefaultConfig, items |-> {}, revision |-> 0]
  /\ untold = FALSE
  /\ tasks = [k \in Key |-> NoTask]
  /\ aborted = {}
  /\ call = [c \in Call |-> [pc |-> "unused", props |-> NoProps]]
  /\ task = [c \in Call |-> NoItemTask]
  /\ pc = [a \in Actor |-> "none"]
  /\ gone = [a \in Actor |-> NoKey]
  /\ doomed = {}

-----------------------------------------------------------------------------
(* Store::apply folds an event under the lock; the effects follow later.   *)
Fold(next) ==
  /\ tray' = next.state
  /\ untold' = (untold \/ next.effects # <<>>)

(* emit("ItemsChanged"): clients read the tray again, as it is by then.    *)
Emit == untold' = FALSE /\ UNCHANGED tray

-----------------------------------------------------------------------------
(* The applications and the bus.                                           *)

(* An application connects or takes a well-known name, and exports its     *)
(* items there before it registers them.                                   *)
Connect(n) ==
  /\ names[n] = "new"
  /\ names' = [names EXCEPT ![n] = "owned"]
  /\ exported' = exported \cup {s \in Service : NameOf[s] = n}
  /\ nameEvents' = Append(nameEvents, n)
  /\ UNCHANGED <<says, changes, storeVars, regVars, call, task, pc, gone, doomed>>

(* It exits, or gives the name up.                                         *)
Exit(n) ==
  /\ names[n] = "owned"
  /\ names' = [names EXCEPT ![n] = "gone"]
  /\ exported' = {s \in exported : NameOf[s] # n}
  /\ nameEvents' = Append(nameEvents, n)
  /\ UNCHANGED <<says, changes, storeVars, regVars, call, task, pc, gone, doomed>>

(* It removes the object but stays on the bus, as Electron applications do.*)
Unexport(s) ==
  /\ s \in exported
  /\ exported' = exported \ {s}
  /\ UNCHANGED <<names, says, changes, nameEvents, storeVars, regVars, call, task, pc,
                 gone, doomed>>

(* It changes its properties and signals that to whoever follows it.       *)
Change(s, p) ==
  /\ s \in exported /\ p # says[s] /\ changes < MaxChanges
  /\ changes' = changes + 1
  /\ says' = [says EXCEPT ![s] = p]
  /\ task' = [c \in Call |-> [task[c] EXCEPT !.signalled = @ \/ task[c].follows = s]]
  /\ UNCHANGED <<names, exported, nameEvents, storeVars, regVars, call, pc, gone, doomed>>

-----------------------------------------------------------------------------
(* Registry::register, on behalf of call c.                                *)
CallGoesTo(c, label) == call' = [call EXCEPT ![c].pc = label]

RegisterItem(c) ==
  /\ call[c].pc = "unused" /\ Registers[c] \in exported
  /\ CallGoesTo(c, "fetch")
  /\ UNCHANGED <<appVars, nameEvents, storeVars, regVars, task, pc, gone, doomed>>

FetchProps(c) ==
  /\ call[c].pc = "fetch"
  /\ \/ /\ Registers[c] \in exported
        /\ call' = [call EXCEPT ![c].pc = "apply", ![c].props = says[Registers[c]]]
     \/ /\ Registers[c] \notin exported
        /\ CallGoesTo(c, "done")
  /\ UNCHANGED <<appVars, nameEvents, storeVars, regVars, task, pc, gone, doomed>>

ApplyRegistered(c) ==
  /\ call[c].pc = "apply"
  /\ Fold(Register(tray, Registers[c], call[c].props))
  /\ call' = [call EXCEPT ![c].pc = "emit", ![c].props = NoProps]
  /\ UNCHANGED <<appVars, nameEvents, regVars, task, pc, gone, doomed>>

EmitRegistered(c) ==
  /\ call[c].pc = "emit"
  /\ Emit
  /\ CallGoesTo(c, "key")
  /\ UNCHANGED <<appVars, nameEvents, regVars, task, pc, gone, doomed>>

(* key_for_service, and the task is spawned: it may run from here on.      *)
SpawnTask(c) ==
  /\ call[c].pc = "key"
  /\ \/ \E i \in tray.items :
          /\ i.service = Registers[c]
          /\ task' = [task EXCEPT ![c] = [NoItemTask EXCEPT !.key = i.key,
                                                           !.service = Registers[c]]]
          /\ pc' = [pc EXCEPT ![c] = "start"]
          /\ CallGoesTo(c, "insert")
     \/ /\ \A i \in tray.items : i.service # Registers[c]
        /\ CallGoesTo(c, "done")
        /\ UNCHANGED <<task, pc>>
  /\ UNCHANGED <<appVars, nameEvents, storeVars, regVars, gone, doomed>>

(* Mistake: the task is filed, the one filed there before is not aborted.  *)
InsertTaskBesides(c) ==
  /\ call[c].pc = "insert"
  /\ tasks' = [tasks EXCEPT ![task[c].key] = c]
  /\ CallGoesTo(c, "done")
  /\ UNCHANGED <<appVars, nameEvents, storeVars, aborted, task, pc, gone, doomed>>

(* Mistake: the item of the task that was filed there goes with that task. *)
InsertTaskAfresh(c) ==
  LET previous == tasks[task[c].key]
  IN  /\ call[c].pc = "insert"
      /\ tasks' = [tasks EXCEPT ![task[c].key] = c]
      /\ aborted' = aborted \cup ({previous} \ {NoTask})
      /\ \/ previous # NoTask /\ Fold(Vanish(tray, task[c].key))
         \/ previous = NoTask /\ UNCHANGED storeVars
      /\ CallGoesTo(c, "done")
      /\ UNCHANGED <<appVars, nameEvents, task, pc, gone, doomed>>

(* The task is filed under its key; what was filed there is aborted.       *)
InsertTask(c) ==
  /\ call[c].pc = "insert"
  /\ tasks' = [tasks EXCEPT ![task[c].key] = c]
  /\ aborted' = aborted \cup ({tasks[task[c].key]} \ {NoTask})
  /\ CallGoesTo(c, "done")
  /\ UNCHANGED <<appVars, nameEvents, storeVars, task, pc, gone, doomed>>

RegisterStep(c) ==
  \/ FetchProps(c) \/ ApplyRegistered(c) \/ EmitRegistered(c)
  \/ SpawnTask(c) \/ InsertTask(c)

-----------------------------------------------------------------------------
(* Registry::vanish_key, run by actor a for the key gone[a].               *)
GoTo(a, label) == pc' = [pc EXCEPT ![a] = label]

StartVanish(a, key) == GoTo(a, "remove") /\ gone' = [gone EXCEPT ![a] = key]

EndVanish(a) ==
  /\ pc' = [pc EXCEPT ![a] = IF a = NameWatch THEN "none" ELSE "done"]
  /\ gone' = [gone EXCEPT ![a] = NoKey]

(* The task filed under the key is aborted: when a is an item task, this   *)
(* is usually a itself.                                                    *)
RemoveTask(a) ==
  /\ pc[a] = "remove"
  /\ tasks' = [tasks EXCEPT ![gone[a]] = NoTask]
  /\ aborted' = aborted \cup ({tasks[gone[a]]} \ {NoTask})
  /\ GoTo(a, "lookup")
  /\ UNCHANGED <<appVars, nameEvents, storeVars, call, task, gone, doomed>>

(* Mistake: the task is stopped, its item stays in the tray.               *)
LookUpServiceOnly(a) ==
  /\ pc[a] = "lookup"
  /\ EndVanish(a)
  /\ UNCHANGED <<appVars, nameEvents, storeVars, regVars, call, task, doomed>>

LookUpService(a) ==
  /\ pc[a] = "lookup"
  /\ \/ HasKey(tray, gone[a]) /\ GoTo(a, "drop") /\ UNCHANGED gone
     \/ ~HasKey(tray, gone[a]) /\ EndVanish(a)
  /\ UNCHANGED <<appVars, nameEvents, storeVars, regVars, call, task, doomed>>

ApplyVanished(a) ==
  /\ pc[a] = "drop"
  /\ Fold(Vanish(tray, gone[a]))
  /\ \/ HasKey(tray, gone[a]) /\ GoTo(a, "tell") /\ UNCHANGED gone
     \/ ~HasKey(tray, gone[a]) /\ EndVanish(a)
  /\ UNCHANGED <<appVars, nameEvents, regVars, call, task, doomed>>

EmitVanished(a) ==
  /\ pc[a] = "tell"
  /\ Emit
  /\ EndVanish(a)
  /\ UNCHANGED <<appVars, nameEvents, regVars, call, task, doomed>>

VanishStep(a) ==
  RemoveTask(a) \/ LookUpService(a) \/ ApplyVanished(a) \/ EmitVanished(a)

-----------------------------------------------------------------------------
(* The item task spawned by call c.                                        *)
Live(c) == c \notin aborted

(* item_proxy looks the service up by key: what it follows is whatever the *)
(* key names by now.                                                       *)
StartTask(c) ==
  /\ pc[c] = "start" /\ Live(c)
  /\ \/ /\ HasKey(tray, task[c].key)
        /\ task' = [task EXCEPT ![c].follows = ItemAt(tray, task[c].key).service]
        /\ GoTo(c, "watching") /\ UNCHANGED gone
     \/ /\ ~HasKey(tray, task[c].key)
        /\ StartVanish(c, task[c].key) /\ UNCHANGED task
  /\ UNCHANGED <<appVars, nameEvents, storeVars, regVars, call, doomed>>

(* A signal of the item arrives; after COALESCE the properties are read.   *)
TakeSignal(c) ==
  /\ pc[c] = "watching" /\ Live(c) /\ task[c].signalled
  /\ task' = [task EXCEPT ![c].signalled = FALSE]
  /\ GoTo(c, "refresh")
  /\ UNCHANGED <<appVars, nameEvents, storeVars, regVars, call, gone, doomed>>

ReadProps(c) ==
  /\ task' = [task EXCEPT ![c].props = says[task[c].service], ![c].failed = 0]
  /\ GoTo(c, "apply") /\ UNCHANGED gone

(* refresh_props: one answer that does not come ends the task.             *)
RefreshProps(c) ==
  /\ pc[c] = "refresh" /\ Live(c)
  /\ \/ task[c].service \in exported /\ ReadProps(c)
     \/ task[c].service \notin exported /\ StartVanish(c, task[c].key) /\ UNCHANGED task
  /\ UNCHANGED <<appVars, nameEvents, storeVars, regVars, call, doomed>>

(* Mistake: one failed probe is forgotten at the next.                     *)
ProbeForgetting(c) ==
  /\ pc[c] = "watching" /\ Live(c)
  /\ \/ task[c].service \in exported /\ ReadProps(c)
     \/ task[c].service \notin exported /\ UNCHANGED <<task, pc, gone>>
  /\ UNCHANGED <<appVars, nameEvents, storeVars, regVars, call, doomed>>

(* Mistake: a probe asks whether the item answers and ignores what it says.*)
ProbeForLife(c) ==
  /\ pc[c] = "watching" /\ Live(c)
  /\ \/ /\ task[c].service \in exported
        /\ task' = [task EXCEPT ![c].failed = 0] /\ UNCHANGED <<pc, gone>>
     \/ /\ task[c].service \notin exported
        /\ task' = [task EXCEPT ![c].failed = @ + 1]
        /\ IF task'[c].failed >= 2 THEN StartVanish(c, task[c].key) ELSE UNCHANGED <<pc, gone>>
  /\ UNCHANGED <<appVars, nameEvents, storeVars, regVars, call, doomed>>

(* Somebody is between two locked steps with nothing to wait for.          *)
Rushing ==
  \/ \E c \in Call : call[c].pc = "insert"
  \/ \E a \in Actor : pc[a] \in {"lookup", "drop"}

(* Mistake: it takes three failures in a row.                              *)
ProbeThrice(c) ==
  /\ pc[c] = "watching" /\ Live(c)
  /\ task[c].failed = 0 \/ ~Rushing
  /\ \/ task[c].service \in exported /\ ReadProps(c)
     \/ /\ task[c].service \notin exported
        /\ task' = [task EXCEPT ![c].failed = @ + 1]
        /\ IF task'[c].failed >= 3 THEN StartVanish(c, task[c].key) ELSE UNCHANGED <<pc, gone>>
  /\ UNCHANGED <<appVars, nameEvents, storeVars, regVars, call, doomed>>

(* A tick of the probe: the second failure in a row ends the task.  Ticks  *)
(* are PROBE_INTERVAL (30 s) apart, the first one aside: by the second of  *)
(* two failures, who had nothing to wait for at the first has moved on.    *)
Probe(c) ==
  /\ pc[c] = "watching" /\ Live(c)
  /\ task[c].failed = 0 \/ ~Rushing
  /\ \/ task[c].service \in exported /\ ReadProps(c)
     \/ /\ task[c].service \notin exported
        /\ task' = [task EXCEPT ![c].failed = @ + 1]
        /\ IF task'[c].failed >= 2 THEN StartVanish(c, task[c].key) ELSE UNCHANGED <<pc, gone>>
  /\ UNCHANGED <<appVars, nameEvents, storeVars, regVars, call, doomed>>

ApplyProps(c) ==
  /\ pc[c] = "apply"
  /\ LET next == UpdateProps(tray, task[c].key, task[c].props)
     IN  Fold(next) /\ GoTo(c, IF next.effects = <<>> THEN "watching" ELSE "emit")
  /\ task' = [task EXCEPT ![c].props = NoProps]
  /\ UNCHANGED <<appVars, nameEvents, regVars, call, gone, doomed>>

EmitProps(c) ==
  /\ pc[c] = "emit"
  /\ Emit
  /\ GoTo(c, "watching")
  /\ UNCHANGED <<appVars, nameEvents, regVars, call, task, gone, doomed>>

(* An aborted task ends where it waits; it does not wait between removing  *)
(* itself from the tasks and removing its item from the tray.              *)
Cancel(c) ==
  /\ ~Live(c)
  /\ pc[c] \in {"start", "watching", "refresh", "apply", "emit", "remove", "tell"}
  /\ pc' = [pc EXCEPT ![c] = "done"]
  /\ gone' = [gone EXCEPT ![c] = NoKey]
  /\ task' = [task EXCEPT ![c] = NoItemTask]
  /\ UNCHANGED <<appVars, nameEvents, storeVars, regVars, call, doomed>>

TaskStep(c) ==
  \/ StartTask(c) \/ TakeSignal(c) \/ RefreshProps(c) \/ Probe(c)
  \/ ApplyProps(c) \/ EmitProps(c) \/ Cancel(c) \/ VanishStep(c)

-----------------------------------------------------------------------------
(* The name watch: vanish_bus_name collects the keys, then drops them one  *)
(* by one.  Any change of owner counts, the first acquisition included.    *)
(* Mistake: every item is dropped, whoever owns it.                        *)
OwnerChangedForAll ==
  /\ pc[NameWatch] = "none" /\ doomed = {} /\ nameEvents # <<>>
  /\ doomed' = KeysOf(tray.items)
  /\ nameEvents' = Tail(nameEvents)
  /\ UNCHANGED <<appVars, storeVars, regVars, call, task, pc, gone>>

OwnerChanged ==
  /\ pc[NameWatch] = "none" /\ doomed = {} /\ nameEvents # <<>>
  /\ doomed' = {i.key : i \in {j \in tray.items : NameOf[j.service] = Head(nameEvents)}}
  /\ nameEvents' = Tail(nameEvents)
  /\ UNCHANGED <<appVars, storeVars, regVars, call, task, pc, gone>>

NextDoomed ==
  /\ pc[NameWatch] = "none"
  /\ \E k \in doomed : StartVanish(NameWatch, k) /\ doomed' = doomed \ {k}
  /\ UNCHANGED <<appVars, nameEvents, storeVars, regVars, call, task>>

NameWatchStep == OwnerChanged \/ NextDoomed \/ VanishStep(NameWatch)

-----------------------------------------------------------------------------
AppStep ==
  \/ \E n \in Name : Connect(n) \/ Exit(n)
  \/ \E s \in Service : Unexport(s)
  \/ \E s \in Service : \E p \in Speaks[s] : Change(s, p)
  \/ \E c \in Call : RegisterItem(c)

Next ==
  \/ AppStep
  \/ \E c \in Call : RegisterStep(c) \/ TaskStep(c)
  \/ NameWatchStep

(* The runtime polls every task that can go on; applications may stop      *)
(* doing anything at any time.                                             *)
Fairness ==
  /\ \A c \in Call : WF_vars(RegisterStep(c)) /\ WF_vars(TaskStep(c))
  /\ WF_vars(NameWatchStep)

Spec == Init /\ [][Next]_vars /\ Fairness

-----------------------------------------------------------------------------
Registering == {c \in Call : call[c].pc \notin {"unused", "done"}}

(* Nobody is in the middle of anything, and no signal is waiting.          *)
Quiet ==
  /\ Registering = {}
  /\ \A c \in Call : pc[c] \in {"none", "watching", "done"} /\ ~(pc[c] = "watching" /\ ~Live(c))
  /\ pc[NameWatch] = "none" /\ doomed = {} /\ nameEvents = <<>>

(* The tasks that watch item i.                                            *)
WatchersOf(i) ==
  {c \in Call : /\ pc[c] \notin {"none", "done"} /\ Live(c)
                /\ task[c].key = i.key /\ task[c].service = i.service}

HasItem(t, s) == \E i \in t.items : i.service = s

(* The task that is filed for item i is not one that would notice its end: *)
(* it has ended already or is another application's, and was filed over    *)
(* one of the item's own, which was aborted (item.rs, tasks.insert).       *)
FiledOver(i) ==
  LET filed == tasks[i.key]
  IN  /\ filed # NoTask
      /\ pc[filed] = "done" \/ Registers[filed] # i.service
      /\ \E c \in aborted : Registers[c] = i.service

(* No item is left without a task that would notice its end, in any other  *)
(* way than this one.                                                      *)
UnwatchedOnlyFiledOver ==
  Quiet => \A i \in tray.items : WatchersOf(i) # {} \/ FiledOver(i)

(* "One task per registered item" (item.rs): a task that watches something *)
(* that answers watches an item, and no other task watches the same one.   *)
OneTaskPerItem ==
  Quiet => \A c \in Call :
    pc[c] = "watching" /\ task[c].service \in exported =>
      \E i \in tray.items : WatchersOf(i) = {c}

(* The icon of an application that answers is never dropped.               *)
LiveItemsStay ==
  [][ \A s \in exported : HasItem(tray, s) => HasItem(tray', s) ]_vars

(* Clients have been told of the tray as it is.                            *)
ClientsTold == Quiet => ~untold

(* Every item of an application that is gone disappears in the end.        *)
DeadItemsGo == \A s \in Service : <>[](s \notin exported => ~HasItem(tray, s))

(* Every item of an application that is gone disappears in the end, unless *)
(* its task was filed over.                                                *)
WatchedDeadItemsGo ==
  \A s \in Service :
    <>[](s \notin exported => \A i \in tray.items : i.service = s => FiledOver(i))

(* Every item shows what its application says in the end.                  *)
PropsConverge ==
  \A s \in Service : <>[](\A i \in tray.items : i.service = s /\ s \in exported => i.props = says[s])

(* An application that registered and answers has its icon in the end.     *)
LiveItemsShown ==
  \A s \in Service :
    <>[]((\E c \in Call : call[c].pc # "unused" /\ Registers[c] = s) /\ s \in exported => HasItem(tray, s))

(* The daemon, too, implements the pool of names: however calls, tasks and *)
(* the name watch interleave, a registration takes a key that is free or   *)
(* its own, and nothing else gives a key to anybody.                       *)
holder ==
  [k \in Key |-> IF HasKey(tray, k) THEN ItemAt(tray, k).service ELSE NoService]

Pool == INSTANCE KeyPool WITH holder <- holder, Nobody <- NoService

PoolSpec == Pool!KeyPoolSpec
=============================================================================
