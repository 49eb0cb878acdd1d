-------------------------- MODULE TrayDaemonProofs --------------------------
(***************************************************************************)
(* What holds of the daemon however registration calls, item tasks and the *)
(* name watch interleave, for any number of each.                          *)
(*                                                                         *)
(* Whatever they do to the tray is one event of the reducer, with a key,   *)
(* a service and properties of the right kind, so that keys and services   *)
(* stay unique (WellFormed).  That the arguments are of the right kind is  *)
(* because an actor that is about to use a key or properties holds them    *)
(* (Holding), and that rests on a task being aborted only after its call   *)
(* filed it (Filed): an abort makes a task forget its key.                 *)
(*                                                                         *)
(* The second part asks OnBusFirst and IdsApart of the applications: then  *)
(* every service keeps one key (KeysByService), and whoever acts on that   *)
(* key acts on that service.                                               *)
(*                                                                         *)
(* The third part is about who is dropped and who is watched whatever the  *)
(* applications do: start late, share an id, register again.  A task that  *)
(* tells its own end answers for the item of its service (OwnInv), an      *)
(* actor that drops an item by a key it read before knows the item or came *)
(* too early to (KnownInv), and an item whose task is neither running nor  *)
(* about to be filed has lost it to another one (GuardInv).                *)
(***************************************************************************)
EXTENDS DaemonHistory, TrayStateProofs, TLAPS

VanishPc == {"remove", "lookup", "drop", "tell"}
WatchPc  == {"start", "watching", "refresh", "apply", "emit"}

Holding ==
  /\ \A a \in Actor : pc[a] \in VanishPc => gone[a] \in Key
  /\ \A c \in Call :
       /\ pc[c] \in WatchPc =>
            task[c].key \in Key /\ task[c].service \in Service /\ task[c].failed <= 1
       /\ pc[c] = "apply" => task[c].props \in Props
       /\ call[c].pc = "apply" => call[c].props \in Props
       /\ call[c].pc = "insert" => task[c].key \in Key

Filed ==
  /\ \A k \in Key : tasks[k] # NoTask => call[tasks[k]].pc = "done"
  /\ \A c \in aborted : call[c].pc = "done"

(* The inductive invariant.                                                *)
DaemonInv == TypeOK /\ WellFormed(tray) /\ Holding /\ Filed

(* What an actor may do to the tray.                                       *)
TrayEvent ==
  \/ \E s \in Service, p \in Props : tray' = Register(tray, s, p).state
  \/ \E k \in Key : tray' = Vanish(tray, k).state
  \/ \E k \in Key, p \in Props : tray' = UpdateProps(tray, k, p).state

-----------------------------------------------------------------------------
LEMMA EventsKeepTray ==
  ASSUME WellFormed(tray), TrayEvent \/ tray' = tray
  PROVE  WellFormed(tray')
BY RegisterWellFormed, VanishWellFormed, UpdatePropsWellFormed DEF TrayEvent

LEMMA DefaultProps == \A s \in Service : Speaks[s] \subseteq Props
BY DaemonAssumption

LEMMA InitDaemon == Init => DaemonInv
<1> SUFFICES ASSUME Init PROVE DaemonInv
  OBVIOUS
<1>1. says \in [Service -> Props]
  BY DefaultProps DEF Init
<1>2. TypeOK
  <2>1. NoItemTask \in ItemTask
    BY DEF NoItemTask, ItemTask
  <2>2. task \in [Call -> ItemTask] /\ call \in [Call -> CallState]
    BY <2>1 DEF Init, CallState, CallPc
  <2>3. nameEvents \in Seq(Name)
    BY DEF Init
  <2>7. untold \in BOOLEAN
    BY DEF Init
  <2>8. changes \in 0 .. MaxChanges
    BY DaemonAssumption DEF Init
  <2>4. pc \in [Actor -> TaskPc] /\ gone \in [Actor -> Key \cup {NoKey}]
    BY DEF Init, TaskPc
  <2>5. names \in [Name -> {"new", "owned", "gone"}] /\ exported \subseteq Service
    BY DEF Init
  <2>6. tray.items \subseteq Item /\ tray.revision \in Nat
    BY DEF Init
  <2> QED BY <1>1, <2>2, <2>3, <2>4, <2>5, <2>6, <2>7, <2>8 DEF Init, TypeOK
<1>3. WellFormed(tray)
  BY DEF Init, WellFormed
<1>4. Holding /\ Filed
  BY DaemonAssumption DEF Init, Actor, Holding, Filed, VanishPc, WatchPc
<1> QED BY <1>2, <1>3, <1>4 DEF DaemonInv

-----------------------------------------------------------------------------
(* A registration call moves on.                                           *)
LEMMA CallMoves ==
  ASSUME DaemonInv, NEW c \in Call, call[c].pc # "done", NEW state \in CallState,
         call' = [call EXCEPT ![c] = state],
         state.pc = "apply" => state.props \in Props,
         state.pc = "insert" => task[c].key \in Key,
         UNCHANGED <<regVars, task, pc, gone>>
  PROVE  call' \in [Call -> CallState] /\ Holding' /\ Filed'
<1>1. call' \in [Call -> CallState]
  BY DEF DaemonInv, TypeOK
<1>2. call'[c] = state /\ \A d \in Call \ {c} : call'[d] = call[d]
  BY DEF DaemonInv, TypeOK
<1>3. Holding'
  BY <1>2 DEF DaemonInv, Holding
<1>4. Filed'
  BY <1>2 DEF DaemonInv, TypeOK, Filed, regVars
<1> QED BY <1>1, <1>3, <1>4

(* What a step of an item task leaves: the actors are of their types, and  *)
(* hold what they need.                                                    *)
Moved ==
  /\ task' \in [Call -> ItemTask] /\ pc' \in [Actor -> TaskPc]
  /\ gone' \in [Actor -> Key \cup {NoKey}]
  /\ Holding' /\ Filed'

LEMMA RunningTask ==
  ASSUME DaemonInv, NEW c \in Call, pc[c] \in WatchPc
  PROVE  /\ c \in Actor /\ task[c] \in ItemTask /\ task[c].key \in Key
         /\ task[c].service \in Service
         /\ task[c].failed = 0 \/ task[c].failed = 1
         /\ says[task[c].service] \in Props
<1>1. /\ task[c] \in ItemTask /\ task[c].key \in Key /\ task[c].service \in Service
      /\ task[c].failed <= 1
  BY DEF DaemonInv, TypeOK, Holding
<1>2. task[c].failed \in 0 .. 2
  BY <1>1 DEF ItemTask
<1>3. task[c].failed = 0 \/ task[c].failed = 1
  BY <1>1, <1>2
<1>4. says[task[c].service] \in Props
  BY <1>1 DEF DaemonInv, TypeOK
<1> QED BY <1>1, <1>3, <1>4 DEF Actor

(* It goes on watching.                                                    *)
LEMMA WatchingMoves ==
  ASSUME DaemonInv, NEW c \in Call, pc[c] \in WatchPc, NEW t \in ItemTask,
         t.key = task[c].key, t.service = task[c].service, t.failed = 0 \/ t.failed = 1,
         NEW label \in WatchPc, label = "apply" => t.props \in Props,
         task' = [task EXCEPT ![c] = t], pc' = [pc EXCEPT ![c] = label], gone' = gone,
         tasks' = tasks, aborted' = aborted, call' = call
  PROVE  Moved
<1>1. c \in Actor /\ t.key \in Key /\ t.service \in Service /\ t.failed <= 1
  BY RunningTask
<1>2. label \in TaskPc /\ label \notin VanishPc
  BY DEF TaskPc, WatchPc, VanishPc
<1>3. /\ task' \in [Call -> ItemTask] /\ pc' \in [Actor -> TaskPc]
      /\ gone' \in [Actor -> Key \cup {NoKey}]
  BY <1>2 DEF DaemonInv, TypeOK
<1>4. /\ task'[c] = t /\ \A d \in Call \ {c} : task'[d] = task[d]
      /\ pc'[c] = label /\ \A a \in Actor \ {c} : pc'[a] = pc[a]
  BY <1>1 DEF DaemonInv, TypeOK
<1>5. Holding'
  BY <1>1, <1>2, <1>4 DEF DaemonInv, Holding, Actor
<1>6. Filed'
  BY DEF DaemonInv, Filed
<1> QED BY <1>3, <1>5, <1>6 DEF Moved

(* It begins to drop its key.                                              *)
LEMMA VanishingMoves ==
  ASSUME DaemonInv, NEW c \in Call, pc[c] \in WatchPc, NEW t \in ItemTask, t.key = task[c].key,
         task' = [task EXCEPT ![c] = t], StartVanish(c, task[c].key),
         tasks' = tasks, aborted' = aborted, call' = call
  PROVE  Moved
<1>1. c \in Actor /\ task[c].key \in Key
  BY RunningTask
<1>2. pc' = [pc EXCEPT ![c] = "remove"] /\ gone' = [gone EXCEPT ![c] = task[c].key]
  BY DEF StartVanish, GoTo
<1>3. /\ task' \in [Call -> ItemTask] /\ pc' \in [Actor -> TaskPc]
      /\ gone' \in [Actor -> Key \cup {NoKey}]
  BY <1>1, <1>2 DEF DaemonInv, TypeOK, TaskPc
<1>4. /\ task'[c] = t /\ \A d \in Call \ {c} : task'[d] = task[d]
      /\ pc'[c] = "remove" /\ \A a \in Actor \ {c} : pc'[a] = pc[a]
      /\ gone'[c] = task[c].key /\ \A a \in Actor \ {c} : gone'[a] = gone[a]
  BY <1>1, <1>2 DEF DaemonInv, TypeOK
<1>5. Holding'
  BY <1>1, <1>4 DEF DaemonInv, Holding, Actor, WatchPc
<1>6. Filed'
  BY DEF DaemonInv, Filed
<1> QED BY <1>3, <1>5, <1>6 DEF Moved

(* It reads the properties.                                                *)
LEMMA ReadingMoves ==
  ASSUME DaemonInv, NEW c \in Call, pc[c] \in WatchPc, ReadProps(c),
         tasks' = tasks, aborted' = aborted, call' = call
  PROVE  Moved
<1> DEFINE t == [task[c] EXCEPT !.props = says[task[c].service], !.failed = 0]
<1>1. task[c] \in ItemTask /\ says[task[c].service] \in Props
  BY RunningTask
<1>2. t \in ItemTask /\ t.key = task[c].key /\ t.service = task[c].service
      /\ t.failed = 0 /\ t.props \in Props
  <2> DEFINE p == says[task[c].service]
  <2>1. p \in Props
    BY <1>1
  <2> HIDE DEF p
  <2> DEFINE u == [task[c] EXCEPT !.props = p]
  <2>2. u \in ItemTask /\ u.key = task[c].key /\ u.service = task[c].service /\ u.props = p
    BY <1>1, <2>1 DEF ItemTask
  <2>3. t = [u EXCEPT !.failed = 0]
    BY <1>1 DEF ItemTask, p
  <2> HIDE DEF u, t
  <2>4. 0 \in 0 .. 2
    OBVIOUS
  <2> QED BY <2>1, <2>2, <2>3, <2>4 DEF ItemTask
<1>3. task' = [task EXCEPT ![c] = t] /\ gone' = gone /\ pc' = [pc EXCEPT ![c] = "apply"]
  BY DEF ReadProps, GoTo
<1>4. "apply" \in WatchPc
  BY DEF WatchPc
<1> HIDE DEF t
<1> QED BY <1>2, <1>3, <1>4, WatchingMoves

-----------------------------------------------------------------------------
(* The applications and the bus. *)
LEMMA ConnectKeeps ==
  ASSUME DaemonInv, NEW n \in Name, Connect(n)
  PROVE  DaemonInv' /\ (TrayEvent \/ tray' = tray)
<1>1. TypeOK'
  BY DEF DaemonInv, Connect, TypeOK, storeVars, regVars
<1>2. TrayEvent \/ tray' = tray
  BY DEF Connect, storeVars
<1>3. Holding' /\ Filed'
  BY DEF DaemonInv, Connect, Holding, Filed, regVars
<1> QED BY <1>1, <1>2, <1>3, EventsKeepTray DEF DaemonInv

LEMMA ExitKeeps ==
  ASSUME DaemonInv, NEW n \in Name, Exit(n)
  PROVE  DaemonInv' /\ (TrayEvent \/ tray' = tray)
<1>1. TypeOK'
  BY DEF DaemonInv, Exit, TypeOK, storeVars, regVars
<1>2. TrayEvent \/ tray' = tray
  BY DEF Exit, storeVars
<1>3. Holding' /\ Filed'
  BY DEF DaemonInv, Exit, Holding, Filed, regVars
<1> QED BY <1>1, <1>2, <1>3, EventsKeepTray DEF DaemonInv

LEMMA UnexportKeeps ==
  ASSUME DaemonInv, NEW s \in Service, Unexport(s)
  PROVE  DaemonInv' /\ (TrayEvent \/ tray' = tray)
<1>1. TypeOK'
  BY DEF DaemonInv, Unexport, TypeOK, storeVars, regVars
<1>2. TrayEvent \/ tray' = tray
  BY DEF Unexport, storeVars
<1>3. Holding' /\ Filed'
  BY DEF DaemonInv, Unexport, Holding, Filed, regVars
<1> QED BY <1>1, <1>2, <1>3, EventsKeepTray DEF DaemonInv

LEMMA ChangeKeeps ==
  ASSUME DaemonInv, NEW s \in Service, NEW p \in Speaks[s], Change(s, p)
  PROVE  DaemonInv' /\ (TrayEvent \/ tray' = tray)
<1>1. \A d \in Call : /\ task'[d] \in ItemTask
                      /\ task'[d].key = task[d].key /\ task'[d].service = task[d].service
                      /\ task'[d].failed = task[d].failed /\ task'[d].props = task[d].props
  <2> SUFFICES ASSUME NEW d \in Call
               PROVE  /\ task'[d] \in ItemTask
                      /\ task'[d].key = task[d].key /\ task'[d].service = task[d].service
                      /\ task'[d].failed = task[d].failed /\ task'[d].props = task[d].props
    OBVIOUS
  <2> DEFINE signalled == task[d].signalled \/ task[d].follows = s
  <2>1. signalled \in BOOLEAN
    OBVIOUS
  <2>2. task'[d] = [task[d] EXCEPT !.signalled = signalled] /\ task[d] \in ItemTask
    BY DEF Change, DaemonInv, TypeOK
  <2> HIDE DEF signalled
  <2> QED BY <2>1, <2>2 DEF ItemTask
<1>2. task' \in [Call -> ItemTask]
  BY <1>1 DEF Change
<1>3. changes' \in 0 .. MaxChanges
  BY DaemonAssumption DEF Change, DaemonInv, TypeOK
<1>4. says' \in [Service -> Props]
  BY DefaultProps DEF Change, DaemonInv, TypeOK
<1>5. TypeOK'
  BY <1>2, <1>3, <1>4 DEF Change, DaemonInv, TypeOK, storeVars, regVars
<1>6. Holding' /\ Filed'
  BY <1>1 DEF Change, DaemonInv, Holding, Filed, regVars
<1>7. tray' = tray
  BY DEF Change, storeVars
<1> QED BY <1>5, <1>6, <1>7, EventsKeepTray DEF DaemonInv

LEMMA RegisterItemKeeps ==
  ASSUME DaemonInv, NEW c \in Call, RegisterItem(c)
  PROVE  DaemonInv' /\ (TrayEvent \/ tray' = tray)
<1> DEFINE state == [call[c] EXCEPT !.pc = "fetch"]
<1>1. state \in CallState /\ state.pc = "fetch"
  BY DEF DaemonInv, TypeOK, CallState, CallPc
<1>2. call' = [call EXCEPT ![c] = state]
  BY DEF RegisterItem, CallGoesTo
<1> HIDE DEF state
<1>3. call' \in [Call -> CallState] /\ Holding' /\ Filed'
  <2>1. call[c].pc # "done" /\ UNCHANGED <<regVars, task, pc, gone>>
    BY DEF RegisterItem
  <2> QED BY <1>1, <1>2, <2>1, CallMoves
<1>4. TypeOK' /\ tray' = tray
  BY <1>3 DEF RegisterItem, DaemonInv, TypeOK, appVars, storeVars, regVars
<1> QED BY <1>3, <1>4, EventsKeepTray DEF DaemonInv

-----------------------------------------------------------------------------
(* Registration calls. *)
LEMMA FetchPropsKeeps ==
  ASSUME DaemonInv, NEW c \in Call, FetchProps(c)
  PROVE  DaemonInv' /\ (TrayEvent \/ tray' = tray)
<1>1. \E state \in CallState :
        /\ call' = [call EXCEPT ![c] = state]
        /\ state.pc \in {"apply", "done"} /\ (state.pc = "apply" => state.props \in Props)
  <2>1. Registers[c] \in Service /\ call[c] \in CallState
    BY DaemonAssumption DEF DaemonInv, TypeOK
  <2>2. says[Registers[c]] \in Props
    BY <2>1 DEF DaemonInv, TypeOK
  <2>3. CASE call' = [call EXCEPT ![c].pc = "apply", ![c].props = says[Registers[c]]]
    <3> DEFINE state == [call[c] EXCEPT !.pc = "apply", !.props = says[Registers[c]]]
    <3>1. call' = [call EXCEPT ![c] = state]
      BY <2>3
    <3>2. state \in CallState /\ state.pc = "apply" /\ state.props \in Props
      BY <2>1, <2>2 DEF CallState, CallPc
    <3> QED BY <3>1, <3>2
  <2>4. CASE call' = [call EXCEPT ![c].pc = "done"]
    <3> DEFINE state == [call[c] EXCEPT !.pc = "done"]
    <3>1. call' = [call EXCEPT ![c] = state]
      BY <2>4
    <3>2. state \in CallState /\ state.pc = "done"
      BY <2>1 DEF CallState, CallPc
    <3> QED BY <3>1, <3>2
  <2> QED BY <2>3, <2>4 DEF FetchProps, CallGoesTo
<1>2. call' \in [Call -> CallState] /\ Holding' /\ Filed'
  <2>1. call[c].pc # "done" /\ UNCHANGED <<regVars, task, pc, gone>>
    BY DEF FetchProps
  <2>2. PICK state \in CallState :
          /\ call' = [call EXCEPT ![c] = state]
          /\ state.pc \in {"apply", "done"} /\ (state.pc = "apply" => state.props \in Props)
    BY <1>1
  <2>3. state.pc # "insert"
    BY <2>2
  <2> QED BY <2>1, <2>2, <2>3, CallMoves
<1>3. TypeOK'
  BY <1>2 DEF FetchProps, DaemonInv, TypeOK, appVars, storeVars, regVars
<1>4. tray' = tray
  BY DEF FetchProps, storeVars
<1> QED BY <1>2, <1>3, <1>4, EventsKeepTray DEF DaemonInv

LEMMA ApplyRegisteredKeeps ==
  ASSUME DaemonInv, NEW c \in Call, ApplyRegistered(c)
  PROVE  DaemonInv' /\ (TrayEvent \/ tray' = tray)
<1> DEFINE state == [call[c] EXCEPT !.pc = "emit", !.props = NoProps]
<1>1. state \in CallState /\ state.pc = "emit"
  BY DEF DaemonInv, TypeOK, CallState, CallPc
<1>2. call' = [call EXCEPT ![c] = state]
  BY DEF ApplyRegistered, DaemonInv, TypeOK
<1>3. TrayEvent
  <2>1. Registers[c] \in Service /\ call[c].props \in Props
    BY DaemonAssumption DEF ApplyRegistered, DaemonInv, Holding
  <2>2. tray' = Register(tray, Registers[c], call[c].props).state
    BY DEF ApplyRegistered, Fold
  <2> QED BY <2>1, <2>2 DEF TrayEvent
<1>4. WellFormed(tray')
  BY <1>3, EventsKeepTray DEF DaemonInv
<1> HIDE DEF state
<1>5. call' \in [Call -> CallState] /\ Holding' /\ Filed'
  <2>1. call[c].pc # "done" /\ UNCHANGED <<regVars, task, pc, gone>>
    BY DEF ApplyRegistered
  <2> QED BY <1>1, <1>2, <2>1, CallMoves
<1>6. untold' \in BOOLEAN
  BY DEF ApplyRegistered, Fold
<1>7. TypeOK'
  BY <1>4, <1>5, <1>6 DEF ApplyRegistered, DaemonInv, TypeOK, WellFormed, appVars, regVars
<1> QED BY <1>3, <1>4, <1>5, <1>7 DEF DaemonInv

LEMMA EmitRegisteredKeeps ==
  ASSUME DaemonInv, NEW c \in Call, EmitRegistered(c)
  PROVE  DaemonInv' /\ (TrayEvent \/ tray' = tray)
<1> DEFINE state == [call[c] EXCEPT !.pc = "key"]
<1>1. state \in CallState /\ state.pc = "key"
  BY DEF DaemonInv, TypeOK, CallState, CallPc
<1>2. call' = [call EXCEPT ![c] = state]
  BY DEF EmitRegistered, CallGoesTo
<1> HIDE DEF state
<1>3. call' \in [Call -> CallState] /\ Holding' /\ Filed'
  <2>1. call[c].pc # "done" /\ UNCHANGED <<regVars, task, pc, gone>>
    BY DEF EmitRegistered
  <2> QED BY <1>1, <1>2, <2>1, CallMoves
<1>4. untold' \in BOOLEAN /\ tray' = tray
  BY DEF EmitRegistered, Emit
<1>5. TypeOK'
  BY <1>3, <1>4 DEF EmitRegistered, DaemonInv, TypeOK, appVars, regVars
<1> QED BY <1>3, <1>4, <1>5, EventsKeepTray DEF DaemonInv

LEMMA SpawnTaskKeeps ==
  ASSUME DaemonInv, NEW c \in Call, SpawnTask(c)
  PROVE  DaemonInv' /\ (TrayEvent \/ tray' = tray)
<1>1. tray' = tray
  BY DEF SpawnTask, storeVars
<1>2. c \in Actor /\ gone[c] \in Key \cup {NoKey} /\ gone = [gone EXCEPT ![c] = gone[c]]
  BY DEF Actor, DaemonInv, TypeOK
<1>3. ASSUME NEW i \in tray.items, i.service = Registers[c],
             task' = [task EXCEPT ![c] = [NoItemTask EXCEPT !.key = i.key,
                                                           !.service = Registers[c]]],
             pc' = [pc EXCEPT ![c] = "start"], CallGoesTo(c, "insert")
      PROVE  TypeOK' /\ Holding' /\ Filed'
  <2> DEFINE t == [NoItemTask EXCEPT !.key = i.key, !.service = Registers[c]]
  <2>1. i.key \in Key /\ Registers[c] \in Service
    BY DaemonAssumption DEF DaemonInv, WellFormed, Item
  <2>2. t \in ItemTask /\ t.key \in Key /\ t.service \in Service /\ t.failed = 0
    <3> DEFINE u == [NoItemTask EXCEPT !.key = i.key]
    <3>1. NoItemTask \in ItemTask /\ NoItemTask.failed = 0
      BY DEF NoItemTask, ItemTask
    <3>2. u \in ItemTask /\ u.key = i.key /\ u.failed = 0
      BY <2>1, <3>1 DEF ItemTask
    <3>3. t = [u EXCEPT !.service = Registers[c]]
      BY DEF NoItemTask
    <3> HIDE DEF u, t
    <3> QED BY <2>1, <3>2, <3>3 DEF ItemTask
  <2> HIDE DEF t
  <2>3. task' = [task EXCEPT ![c] = t]
    BY <1>3 DEF t
  <2>4. /\ call[c].pc = "key" /\ call' = [call EXCEPT ![c].pc = "insert"]
        /\ UNCHANGED <<appVars, nameEvents, storeVars, regVars, gone, doomed>>
    BY <1>3 DEF SpawnTask, CallGoesTo
  <2>5. /\ task' \in [Call -> ItemTask] /\ pc' \in [Actor -> TaskPc] /\ call' \in [Call -> CallState]
    BY <1>2, <1>3, <2>2, <2>3, <2>4 DEF DaemonInv, TypeOK, TaskPc, CallState, CallPc
  <2>6. /\ task'[c] = t /\ \A d \in Call \ {c} : task'[d] = task[d]
        /\ pc'[c] = "start" /\ \A a \in Actor \ {c} : pc'[a] = pc[a]
        /\ call'[c].pc = "insert" /\ \A d \in Call \ {c} : call'[d] = call[d]
    BY <1>2, <1>3, <2>3, <2>4 DEF DaemonInv, TypeOK, CallState
  <2>7. Holding'
    BY <2>2, <2>4, <2>6 DEF DaemonInv, Holding, VanishPc, WatchPc, Actor
  <2>8. Filed'
    BY <2>4, <2>6 DEF DaemonInv, TypeOK, Filed, regVars
  <2>9. TypeOK'
    BY <2>4, <2>5 DEF DaemonInv, TypeOK, appVars, storeVars, regVars
  <2> QED BY <2>7, <2>8, <2>9
<1>4. ASSUME CallGoesTo(c, "done"), UNCHANGED <<task, pc>>
      PROVE  TypeOK' /\ Holding' /\ Filed'
  <2> DEFINE state == [call[c] EXCEPT !.pc = "done"]
  <2>1. state \in CallState /\ state.pc = "done"
    BY DEF DaemonInv, TypeOK, CallState, CallPc
  <2>2. call' = [call EXCEPT ![c] = state]
    BY <1>4 DEF CallGoesTo
  <2> HIDE DEF state
  <2>3. call' \in [Call -> CallState] /\ Holding' /\ Filed'
    <3>1. call[c].pc # "done" /\ UNCHANGED <<regVars, task, pc, gone>>
      BY <1>4 DEF SpawnTask
    <3> QED BY <2>1, <2>2, <3>1, CallMoves
  <2>4. TypeOK'
    BY <1>4, <2>3 DEF SpawnTask, DaemonInv, TypeOK, appVars, storeVars, regVars
  <2> QED BY <2>3, <2>4
<1>5. TypeOK' /\ Holding' /\ Filed'
  BY <1>3, <1>4 DEF SpawnTask
<1> QED BY <1>1, <1>5, EventsKeepTray DEF DaemonInv

LEMMA InsertTaskKeeps ==
  ASSUME DaemonInv, NEW c \in Call, InsertTask(c)
  PROVE  DaemonInv' /\ (TrayEvent \/ tray' = tray)
<1>1. task[c].key \in Key
  BY DEF InsertTask, DaemonInv, Holding
<1>2. /\ call' \in [Call -> CallState]
      /\ call'[c].pc = "done" /\ \A d \in Call \ {c} : call'[d] = call[d]
  BY DEF InsertTask, CallGoesTo, DaemonInv, TypeOK, CallState, CallPc
<1>3. tasks' \in [Key -> Call \cup {NoTask}] /\ aborted' \subseteq Call
  BY <1>1 DEF InsertTask, DaemonInv, TypeOK
<1>4. TypeOK' /\ tray' = tray
  BY <1>2, <1>3 DEF InsertTask, DaemonInv, TypeOK, appVars, storeVars
<1>5. Holding'
  BY <1>2 DEF InsertTask, DaemonInv, Holding
<1>6. Filed'
  <2> DEFINE previous == tasks[task[c].key]
  <2>1. previous # NoTask => previous \in Call /\ call[previous].pc = "done"
    BY <1>1 DEF DaemonInv, TypeOK, Filed
  <2>2. \A d \in aborted' : call'[d].pc = "done"
    BY <1>2, <2>1 DEF InsertTask, DaemonInv, TypeOK, Filed
  <2>3. ASSUME NEW k \in Key, tasks'[k] # NoTask
        PROVE  call'[tasks'[k]].pc = "done"
    <3>1. tasks'[k] = IF k = task[c].key THEN c ELSE tasks[k]
      BY DEF InsertTask, DaemonInv, TypeOK
    <3> QED BY <1>2, <2>3, <3>1 DEF DaemonInv, TypeOK, Filed
  <2> QED BY <2>2, <2>3 DEF Filed
<1> QED BY <1>4, <1>5, <1>6, EventsKeepTray DEF DaemonInv

-----------------------------------------------------------------------------
(* Dropping a key. *)
LEMMA RemoveTaskKeeps ==
  ASSUME DaemonInv, NEW a \in Actor, RemoveTask(a)
  PROVE  DaemonInv' /\ (TrayEvent \/ tray' = tray)
<1>1. TypeOK'
  BY DEF DaemonInv, RemoveTask, GoTo, TypeOK, Holding, TaskPc, VanishPc, appVars, storeVars
<1>2. TrayEvent \/ tray' = tray
  BY DEF RemoveTask, storeVars
<1>3. Holding' /\ Filed'
  BY DEF DaemonInv, RemoveTask, GoTo, Holding, Filed, VanishPc, WatchPc
<1> QED BY <1>1, <1>2, <1>3, EventsKeepTray DEF DaemonInv

LEMMA LookUpServiceKeeps ==
  ASSUME DaemonInv, NEW a \in Actor, LookUpService(a)
  PROVE  DaemonInv' /\ (TrayEvent \/ tray' = tray)
<1>1. TypeOK'
  BY DEF DaemonInv, LookUpService, GoTo, EndVanish, TypeOK, TaskPc, appVars, storeVars,
         regVars
<1>2. TrayEvent \/ tray' = tray
  BY DEF LookUpService, storeVars
<1>3. Holding' /\ Filed'
  BY DEF DaemonInv, LookUpService, GoTo, EndVanish, TypeOK, Holding, Filed, Actor,
         VanishPc, WatchPc, regVars
<1> QED BY <1>1, <1>2, <1>3, EventsKeepTray DEF DaemonInv

LEMMA ApplyVanishedKeeps ==
  ASSUME DaemonInv, NEW a \in Actor, ApplyVanished(a)
  PROVE  DaemonInv' /\ (TrayEvent \/ tray' = tray)
<1>1. TrayEvent
  <2>1. gone[a] \in Key
    BY DEF ApplyVanished, DaemonInv, Holding, VanishPc
  <2> QED BY <2>1 DEF ApplyVanished, Fold, TrayEvent
<1>2. WellFormed(tray')
  BY <1>1, EventsKeepTray DEF DaemonInv
<1>3. pc' \in [Actor -> TaskPc] /\ gone' \in [Actor -> Key \cup {NoKey}]
  BY DEF ApplyVanished, GoTo, EndVanish, DaemonInv, TypeOK, TaskPc
<1>4. untold' \in BOOLEAN
  BY DEF ApplyVanished, Fold
<1>5. TypeOK'
  BY <1>2, <1>3, <1>4 DEF ApplyVanished, DaemonInv, TypeOK, WellFormed, appVars, regVars
<1>6. Holding' /\ Filed'
  BY DaemonAssumption DEF ApplyVanished, GoTo, EndVanish, DaemonInv, TypeOK, Holding, Filed,
                          Actor, VanishPc, WatchPc, regVars
<1> QED BY <1>1, <1>2, <1>5, <1>6 DEF DaemonInv

LEMMA EmitVanishedKeeps ==
  ASSUME DaemonInv, NEW a \in Actor, EmitVanished(a)
  PROVE  DaemonInv' /\ (TrayEvent \/ tray' = tray)
<1>1. TypeOK'
  BY DEF DaemonInv, EmitVanished, EndVanish, Emit, TypeOK, TaskPc, appVars, regVars
<1>2. TrayEvent \/ tray' = tray
  BY DEF EmitVanished, Emit
<1>3. Holding' /\ Filed'
  BY DEF DaemonInv, EmitVanished, EndVanish, TypeOK, Holding, Filed, VanishPc, WatchPc,
         regVars
<1> QED BY <1>1, <1>2, <1>3, EventsKeepTray DEF DaemonInv

-----------------------------------------------------------------------------
(* Item tasks. *)
LEMMA StartTaskKeeps ==
  ASSUME DaemonInv, NEW c \in Call, StartTask(c)
  PROVE  DaemonInv' /\ (TrayEvent \/ tray' = tray)
<1>1. /\ pc[c] \in WatchPc /\ tasks' = tasks /\ aborted' = aborted /\ call' = call
  BY DEF StartTask, WatchPc, regVars
<1>2. /\ task[c] \in ItemTask /\ task[c].key \in Key
      /\ task[c].failed = 0 \/ task[c].failed = 1
  BY <1>1, RunningTask
<1>3. ASSUME HasKey(tray, task[c].key), GoTo(c, "watching"), UNCHANGED gone,
             task' = [task EXCEPT ![c].follows = ItemAt(tray, task[c].key).service]
      PROVE  Moved
  <2> DEFINE s == ItemAt(tray, task[c].key).service
             t == [task[c] EXCEPT !.follows = s]
  <2>1. s \in Service
    BY <1>3, ItemAtIsItem DEF DaemonInv, WellFormed, Item
  <2>2. task' = [task EXCEPT ![c] = t] /\ pc' = [pc EXCEPT ![c] = "watching"] /\ gone' = gone
    BY <1>3 DEF GoTo
  <2> HIDE DEF s
  <2>3. t \in ItemTask /\ t.key = task[c].key /\ t.service = task[c].service
        /\ t.failed = task[c].failed
    BY <1>2, <2>1 DEF ItemTask
  <2>4. "watching" \in WatchPc
    BY DEF WatchPc
  <2> HIDE DEF t
  <2> QED BY <1>1, <1>2, <2>2, <2>3, <2>4, WatchingMoves
<1>4. ASSUME StartVanish(c, task[c].key), UNCHANGED task
      PROVE  Moved
  <2>1. task' = [task EXCEPT ![c] = task[c]]
    BY <1>4 DEF DaemonInv, TypeOK
  <2> QED BY <1>1, <1>2, <1>4, <2>1, VanishingMoves
<1>8. Moved
  BY <1>3, <1>4 DEF StartTask
<1>9. TypeOK' /\ tray' = tray
  BY <1>8 DEF StartTask, Moved, DaemonInv, TypeOK, appVars, storeVars, regVars
<1> QED BY <1>8, <1>9, EventsKeepTray DEF DaemonInv, Moved

LEMMA TakeSignalKeeps ==
  ASSUME DaemonInv, NEW c \in Call, TakeSignal(c)
  PROVE  DaemonInv' /\ (TrayEvent \/ tray' = tray)
<1> DEFINE t == [task[c] EXCEPT !.signalled = FALSE]
<1>1. /\ pc[c] \in WatchPc /\ tasks' = tasks /\ aborted' = aborted /\ call' = call
  BY DEF TakeSignal, WatchPc, regVars
<1>2. /\ task[c] \in ItemTask /\ task[c].key \in Key
      /\ task[c].failed = 0 \/ task[c].failed = 1
  BY <1>1, RunningTask
<1>3. t \in ItemTask /\ t.key = task[c].key /\ t.service = task[c].service
      /\ t.failed = task[c].failed
  BY <1>2 DEF ItemTask
<1>4. task' = [task EXCEPT ![c] = t] /\ gone' = gone /\ pc' = [pc EXCEPT ![c] = "refresh"]
  BY DEF TakeSignal, GoTo
<1>5. "refresh" \in WatchPc
  BY DEF WatchPc
<1> HIDE DEF t
<1>8. Moved
  BY <1>1, <1>2, <1>3, <1>4, <1>5, WatchingMoves
<1>9. TypeOK' /\ tray' = tray
  BY <1>8 DEF TakeSignal, Moved, DaemonInv, TypeOK, appVars, storeVars, regVars
<1> QED BY <1>8, <1>9, EventsKeepTray DEF DaemonInv, Moved

LEMMA RefreshPropsKeeps ==
  ASSUME DaemonInv, NEW c \in Call, RefreshProps(c)
  PROVE  DaemonInv' /\ (TrayEvent \/ tray' = tray)
<1>1. /\ pc[c] \in WatchPc /\ tasks' = tasks /\ aborted' = aborted /\ call' = call
  BY DEF RefreshProps, WatchPc, regVars
<1>2. task[c] \in ItemTask /\ task = [task EXCEPT ![c] = task[c]]
  BY DEF DaemonInv, TypeOK
<1>3. ASSUME ReadProps(c) PROVE Moved
  BY <1>1, <1>3, ReadingMoves
<1>4. ASSUME StartVanish(c, task[c].key), UNCHANGED task
      PROVE  Moved
  <2>1. task' = [task EXCEPT ![c] = task[c]]
    BY <1>2, <1>4
  <2> QED BY <1>1, <1>2, <1>4, <2>1, VanishingMoves
<1>8. Moved
  BY <1>3, <1>4 DEF RefreshProps
<1>9. TypeOK' /\ tray' = tray
  BY <1>8 DEF RefreshProps, Moved, DaemonInv, TypeOK, appVars, storeVars, regVars
<1> QED BY <1>8, <1>9, EventsKeepTray DEF DaemonInv, Moved

LEMMA ProbeKeeps ==
  ASSUME DaemonInv, NEW c \in Call, Probe(c)
  PROVE  DaemonInv' /\ (TrayEvent \/ tray' = tray)
<1> DEFINE t == [task[c] EXCEPT !.failed = task[c].failed + 1]
<1>1. /\ pc[c] \in WatchPc /\ tasks' = tasks /\ aborted' = aborted /\ call' = call
  BY DEF Probe, WatchPc, regVars
<1>2. /\ task[c] \in ItemTask /\ task[c].key \in Key
      /\ task[c].failed = 0 \/ task[c].failed = 1
  BY <1>1, RunningTask
<1>3. ASSUME ReadProps(c) PROVE Moved
  BY <1>1, <1>3, ReadingMoves
<1>4. ASSUME task' = [task EXCEPT ![c].failed = @ + 1],
             IF task'[c].failed >= 2 THEN StartVanish(c, task[c].key) ELSE UNCHANGED <<pc, gone>>
      PROVE  Moved
  <2>1. t \in ItemTask /\ t.key = task[c].key /\ t.service = task[c].service
        /\ t.failed = task[c].failed + 1
    BY <1>2 DEF ItemTask
  <2>2. task' = [task EXCEPT ![c] = t] /\ task'[c] = t
    BY <1>4 DEF DaemonInv, TypeOK
  <2> HIDE DEF t
  <2>3. CASE StartVanish(c, task[c].key)
    BY <1>1, <2>1, <2>2, <2>3, VanishingMoves
  <2>4. CASE ~(t.failed >= 2) /\ UNCHANGED <<pc, gone>>
    <3>1. c \in Actor
      BY DEF Actor
    <3>2. pc' = [pc EXCEPT ![c] = pc[c]] /\ gone' = gone
      BY <2>4, <3>1 DEF DaemonInv, TypeOK
    <3>3. t.failed = 0 \/ t.failed = 1
      BY <1>2, <2>1, <2>4
    <3>4. pc[c] # "apply"
      BY DEF Probe
    <3> QED BY <1>1, <2>1, <2>2, <3>2, <3>3, <3>4, WatchingMoves
  <2> QED BY <1>4, <2>2, <2>3, <2>4
<1>8. Moved
  BY <1>3, <1>4 DEF Probe
<1>9. TypeOK' /\ tray' = tray
  BY <1>8 DEF Probe, Moved, DaemonInv, TypeOK, appVars, storeVars, regVars
<1> QED BY <1>8, <1>9, EventsKeepTray DEF DaemonInv, Moved

LEMMA ApplyPropsKeeps ==
  ASSUME DaemonInv, NEW c \in Call, ApplyProps(c)
  PROVE  DaemonInv' /\ (TrayEvent \/ tray' = tray)
<1> DEFINE next  == UpdateProps(tray, task[c].key, task[c].props)
           label == IF next.effects = <<>> THEN "watching" ELSE "emit"
           t     == [task[c] EXCEPT !.props = NoProps]
<1>1. /\ pc[c] \in WatchPc /\ tasks' = tasks /\ aborted' = aborted /\ call' = call
  BY DEF ApplyProps, WatchPc, regVars
<1>2. /\ task[c] \in ItemTask /\ task[c].key \in Key
      /\ task[c].failed = 0 \/ task[c].failed = 1
  BY <1>1, RunningTask
<1>3. TrayEvent
  <2>1. task[c].key \in Key /\ task[c].props \in Props
    BY DEF ApplyProps, DaemonInv, Holding, WatchPc
  <2>2. tray' = UpdateProps(tray, task[c].key, task[c].props).state
    BY DEF ApplyProps, Fold
  <2> QED BY <2>1, <2>2 DEF TrayEvent
<1>4. WellFormed(tray')
  BY <1>3, EventsKeepTray DEF DaemonInv
<1>5. t \in ItemTask /\ t.key = task[c].key /\ t.service = task[c].service
      /\ t.failed = task[c].failed
  BY <1>2 DEF ItemTask
<1>6. task' = [task EXCEPT ![c] = t] /\ gone' = gone /\ pc' = [pc EXCEPT ![c] = label]
  BY DEF ApplyProps, GoTo
<1>7. label \in WatchPc /\ label # "apply"
  BY DEF WatchPc
<1> HIDE DEF t, label
<1>8. Moved
  BY <1>1, <1>2, <1>5, <1>6, <1>7, WatchingMoves
<1>9. untold' \in BOOLEAN
  BY DEF ApplyProps, Fold
<1>10. TypeOK'
  BY <1>4, <1>8, <1>9 DEF ApplyProps, Moved, DaemonInv, TypeOK, WellFormed, appVars, regVars
<1> QED BY <1>3, <1>4, <1>8, <1>10 DEF DaemonInv, Moved

LEMMA EmitPropsKeeps ==
  ASSUME DaemonInv, NEW c \in Call, EmitProps(c)
  PROVE  DaemonInv' /\ (TrayEvent \/ tray' = tray)
<1>1. TypeOK'
  BY DEF DaemonInv, EmitProps, GoTo, Emit, TypeOK, TaskPc, appVars, regVars
<1>2. TrayEvent \/ tray' = tray
  BY DEF EmitProps, Emit
<1>3. Holding' /\ Filed'
  BY DEF DaemonInv, EmitProps, GoTo, Holding, Filed, VanishPc, WatchPc, regVars
<1> QED BY <1>1, <1>2, <1>3, EventsKeepTray DEF DaemonInv

LEMMA CancelKeeps ==
  ASSUME DaemonInv, NEW c \in Call, Cancel(c)
  PROVE  DaemonInv' /\ (TrayEvent \/ tray' = tray)
<1>1. c \in Actor /\ call[c].pc = "done"
  BY DEF Cancel, Live, Actor, DaemonInv, Filed
<1>2. NoItemTask \in ItemTask
  BY DEF NoItemTask, ItemTask
<1>3. /\ task' \in [Call -> ItemTask] /\ pc' \in [Actor -> TaskPc]
      /\ gone' \in [Actor -> Key \cup {NoKey}]
  BY <1>2 DEF Cancel, DaemonInv, TypeOK, TaskPc
<1>4. /\ \A d \in Call \ {c} : task'[d] = task[d]
      /\ pc'[c] = "done" /\ \A a \in Actor \ {c} : pc'[a] = pc[a] /\ gone'[a] = gone[a]
      /\ tasks' = tasks /\ aborted' = aborted /\ call' = call
  BY <1>1 DEF Cancel, DaemonInv, TypeOK, regVars
<1>5. Holding'
  BY <1>1, <1>4 DEF DaemonInv, Holding, Actor, VanishPc, WatchPc
<1>6. TypeOK' /\ tray' = tray
  BY <1>3 DEF Cancel, DaemonInv, TypeOK, appVars, storeVars, regVars
<1>7. Filed'
  BY <1>4 DEF DaemonInv, Filed
<1> QED BY <1>5, <1>6, <1>7, EventsKeepTray DEF DaemonInv

-----------------------------------------------------------------------------
(* The name watch. *)
LEMMA OwnerChangedKeeps ==
  ASSUME DaemonInv, OwnerChanged
  PROVE  DaemonInv' /\ (TrayEvent \/ tray' = tray)
<1>1. doomed' \subseteq Key
  BY DEF OwnerChanged, DaemonInv, WellFormed, Item
<1>2. nameEvents' \in Seq(Name)
  BY DEF OwnerChanged, DaemonInv, TypeOK
<1>3. TypeOK' /\ tray' = tray
  BY <1>1, <1>2 DEF OwnerChanged, DaemonInv, TypeOK, appVars, storeVars, regVars
<1>4. Holding' /\ Filed'
  BY DEF OwnerChanged, DaemonInv, Holding, Filed, regVars
<1> QED BY <1>3, <1>4, EventsKeepTray DEF DaemonInv

LEMMA NextDoomedKeeps ==
  ASSUME DaemonInv, NextDoomed
  PROVE  DaemonInv' /\ (TrayEvent \/ tray' = tray)
<1>1. TypeOK'
  BY DEF DaemonInv, NextDoomed, GoTo, StartVanish, TypeOK, TaskPc, appVars, storeVars,
         regVars
<1>2. TrayEvent \/ tray' = tray
  BY DEF NextDoomed, storeVars
<1>3. Holding' /\ Filed'
  BY DEF DaemonInv, NextDoomed, GoTo, StartVanish, TypeOK, Holding, Filed, WatchPc, regVars
<1> QED BY <1>1, <1>2, <1>3, EventsKeepTray DEF DaemonInv

-----------------------------------------------------------------------------
(* Every step keeps the invariant, and does to the tray what one event of  *)
(* the reducer does, or nothing.                                           *)
LEMMA VanishStepKeeps ==
  ASSUME DaemonInv, NEW a \in Actor, VanishStep(a)
  PROVE  DaemonInv' /\ (TrayEvent \/ tray' = tray)
BY RemoveTaskKeeps, LookUpServiceKeeps, ApplyVanishedKeeps, EmitVanishedKeeps DEF VanishStep

LEMMA AppStepKeeps ==
  ASSUME DaemonInv, AppStep
  PROVE  DaemonInv' /\ (TrayEvent \/ tray' = tray)
<1>1. ASSUME NEW n \in Name, Connect(n) \/ Exit(n)
      PROVE  DaemonInv' /\ (TrayEvent \/ tray' = tray)
  BY <1>1, ConnectKeeps, ExitKeeps
<1>2. ASSUME NEW s \in Service, Unexport(s)
      PROVE  DaemonInv' /\ (TrayEvent \/ tray' = tray)
  BY <1>2, UnexportKeeps
<1>3. ASSUME NEW s \in Service, NEW p \in Speaks[s], Change(s, p)
      PROVE  DaemonInv' /\ (TrayEvent \/ tray' = tray)
  BY <1>3, ChangeKeeps
<1>4. ASSUME NEW c \in Call, RegisterItem(c)
      PROVE  DaemonInv' /\ (TrayEvent \/ tray' = tray)
  BY <1>4, RegisterItemKeeps
<1> QED BY <1>1, <1>2, <1>3, <1>4 DEF AppStep

LEMMA RegisterStepKeeps ==
  ASSUME DaemonInv, NEW c \in Call, RegisterStep(c)
  PROVE  DaemonInv' /\ (TrayEvent \/ tray' = tray)
BY FetchPropsKeeps, ApplyRegisteredKeeps, EmitRegisteredKeeps, SpawnTaskKeeps,
   InsertTaskKeeps DEF RegisterStep

LEMMA TaskStepKeeps ==
  ASSUME DaemonInv, NEW c \in Call, TaskStep(c)
  PROVE  DaemonInv' /\ (TrayEvent \/ tray' = tray)
<1>1. c \in Actor
  BY DEF Actor
<1> QED BY <1>1, StartTaskKeeps, TakeSignalKeeps, RefreshPropsKeeps, ProbeKeeps,
           ApplyPropsKeeps, EmitPropsKeeps, CancelKeeps, VanishStepKeeps DEF TaskStep

LEMMA NameWatchStepKeeps ==
  ASSUME DaemonInv, NameWatchStep
  PROVE  DaemonInv' /\ (TrayEvent \/ tray' = tray)
<1>1. NameWatch \in Actor
  BY DEF Actor
<1> QED BY <1>1, OwnerChangedKeeps, NextDoomedKeeps, VanishStepKeeps DEF NameWatchStep

LEMMA NextKeeps == DaemonInv /\ [Next]_vars => DaemonInv' /\ (TrayEvent \/ tray' = tray)
<1> SUFFICES ASSUME DaemonInv, [Next]_vars
             PROVE  DaemonInv' /\ (TrayEvent \/ tray' = tray)
  OBVIOUS
<1>1. CASE AppStep
  BY <1>1, AppStepKeeps
<1>2. CASE \E c \in Call : RegisterStep(c) \/ TaskStep(c)
  BY <1>2, RegisterStepKeeps, TaskStepKeeps
<1>3. CASE NameWatchStep
  BY <1>3, NameWatchStepKeeps
<1>4. CASE UNCHANGED vars
  BY <1>4 DEF DaemonInv, TypeOK, WellFormed, Holding, Filed, vars, appVars, storeVars, regVars
<1> QED BY <1>1, <1>2, <1>3, <1>4 DEF Next

-----------------------------------------------------------------------------
(* The inductive invariant holds in every reachable state of the daemon.   *)
THEOREM DaemonInvariance == Spec => []DaemonInv
<1>1. DaemonInv /\ [Next]_vars => DaemonInv'
  BY NextKeeps
<1> QED BY <1>1, InitDaemon, PTL DEF Spec

(* Whoever aborts whom and when, an actor only ever acts on a key and on   *)
(* properties it has (Registry::register, vanish_key, spawn_item_task), and *)
(* no item task outlives its second failed probe in a row.                 *)
THEOREM DaemonTypeCorrect == Spec => []TypeOK
<1>1. DaemonInv => TypeOK
  BY DEF DaemonInv
<1> QED BY <1>1, DaemonInvariance, PTL

(* Two items of the daemon never share a key or a service, for any number  *)
(* of registration calls, item tasks and name changes in flight at once:   *)
(* clients that name an item by its key mean one application.              *)
THEOREM DaemonTrayWellFormed == Spec => []WellFormed(tray)
<1>1. DaemonInv => WellFormed(tray)
  BY DEF DaemonInv
<1> QED BY <1>1, DaemonInvariance, PTL

-----------------------------------------------------------------------------
(* The refinement of KeyPool.                                              *)
LEMMA DaemonHolder ==
  /\ holder = HolderIn(tray.items, NoService) /\ holder' = HolderIn(tray'.items, NoService)
  /\ DaemonInv => DistinctKeys(tray.items)
  /\ DaemonInv' => DistinctKeys(tray'.items)
  BY DEF holder, HolderIn, HasKey, ItemAt, DaemonInv, WellFormed, DistinctKeys

LEMMA RegisteringTakes ==
  ASSUME DaemonInv, DaemonInv', NEW s \in Service, NEW p \in Props,
         tray' = Register(tray, s, p).state
  PROVE  Pool!KeyPoolNext
<1> DEFINE kept == {i \in tray.items : i.service # s}
           key  == AllocateKey(kept, Sanitize[PreferredName(p)])
           item == [ since |-> tray.revision + 1, key |-> key, service |-> s,
                     props |-> p, menu |-> NoMenu ]
<1>1. tray'.items = kept \cup {item}
  BY DEF Register, AnnounceItems, DaemonInv, WellFormed
<1>2. item \in Item
  BY <1>1 DEF DaemonInv, WellFormed
<1>3. key \in Key \ KeysOf(kept)
  <2>1. /\ tray.items \in SUBSET Item
        /\ \A i, j \in tray.items : i.service = j.service => i = j
    BY DEF DaemonInv, WellFormed
  <2> QED BY <2>1, KeyForRegistration
<1>4. item.key = key /\ item.service = s
  OBVIOUS
<1> HIDE DEF item, kept, key
<1>5. kept = {i \in tray.items : i.service # item.service}
  BY <1>4 DEF kept
<1>6. DistinctKeys(tray.items) /\ DistinctKeys(tray'.items)
  BY DaemonHolder
<1>7. /\ HolderIn(tray.items, NoService)[item.key] \in {NoService, item.service}
      /\ HolderIn(tray'.items, NoService)
           = [l \in Key |-> IF l = item.key THEN item.service
                            ELSE IF HolderIn(tray.items, NoService)[l] = item.service
                                 THEN NoService
                                 ELSE HolderIn(tray.items, NoService)[l]]
  BY <1>1, <1>2, <1>3, <1>4, <1>5, <1>6, EnteringTakes
<1>8. Pool!Take(s, key)
  BY <1>4, <1>7, DaemonHolder DEF Pool!Take
<1> QED BY <1>3, <1>8 DEF Pool!KeyPoolNext

LEMMA VanishingReleases ==
  ASSUME DaemonInv, DaemonInv', NEW k \in Key, tray' = Vanish(tray, k).state
  PROVE  Pool!KeyPoolNext \/ holder' = holder
<1>1. CASE ~HasKey(tray, k)
  BY <1>1, DaemonHolder DEF Vanish, NoEffect
<1>2. CASE HasKey(tray, k)
  <2>1. \A i : i \in tray'.items <=> i \in tray.items /\ i.key # k
    BY <1>2 DEF Vanish, AnnounceItems, DaemonInv, WellFormed
  <2>2. DistinctKeys(tray.items) /\ DistinctKeys(tray'.items)
    BY DaemonHolder
  <2>3. HolderIn(tray'.items, NoService) = [HolderIn(tray.items, NoService) EXCEPT ![k] = NoService]
    BY <2>1, <2>2, LeavingReleases
  <2>4. Pool!Release(k)
    BY <2>3, DaemonHolder DEF Pool!Release
  <2> QED BY <2>4 DEF Pool!KeyPoolNext
<1> QED BY <1>1, <1>2

LEMMA UpdatingKeepsHolders ==
  ASSUME DaemonInv, DaemonInv', NEW k \in Key, NEW p \in Props,
         tray' = UpdateProps(tray, k, p).state
  PROVE  holder' = holder
<1> DEFINE old == ItemAt(tray, k)
           new == [old EXCEPT !.props = p]
<1>1. CASE HasKey(tray, k) /\ old.props # p
  <2>1. old \in tray.items
    BY <1>1, ItemAtIsItem
  <2>2. new.key = old.key /\ new.service = old.service
    BY <2>1 DEF Item, DaemonInv, WellFormed
  <2>3. tray'.items = (tray.items \ {old}) \cup {new}
    BY <1>1 DEF UpdateProps, AnnounceItems, Replace, DaemonInv, WellFormed
  <2>4. DistinctKeys(tray.items) /\ DistinctKeys(tray'.items)
    BY DaemonHolder
  <2> HIDE DEF old, new
  <2>5. HolderIn(tray'.items, NoService) = HolderIn(tray.items, NoService)
    BY <2>1, <2>2, <2>3, <2>4, RevisingKeepsHolders
  <2> QED BY <2>5, DaemonHolder
<1>2. CASE ~ (HasKey(tray, k) /\ old.props # p)
  BY <1>2, DaemonHolder DEF UpdateProps, NoEffect
<1> QED BY <1>1, <1>2

(* The daemon implements the pool of names, however its tasks interleave:  *)
(* a key an item task, a click or the name watch still holds was given     *)
(* back before anybody else could get it.                                  *)
THEOREM DaemonImplementsPool == Spec => PoolSpec
<1>1. Init => Pool!KeyPoolInit
  BY DEF Init, holder, HasKey, Pool!KeyPoolInit
<1>2. DaemonInv /\ DaemonInv' /\ [Next]_vars => [Pool!KeyPoolNext]_holder
  <2> SUFFICES ASSUME DaemonInv, DaemonInv', [Next]_vars
               PROVE  Pool!KeyPoolNext \/ holder' = holder
    OBVIOUS
  <2>1. TrayEvent \/ tray' = tray
    BY NextKeeps
  <2>2. CASE tray' = tray
    BY <2>2, DaemonHolder
  <2> QED BY <2>1, <2>2, RegisteringTakes, VanishingReleases, UpdatingKeepsHolders DEF TrayEvent
<1> QED BY <1>1, <1>2, DaemonInvariance, PTL DEF Spec, PoolSpec, Pool!KeyPoolSpec

-----------------------------------------------------------------------------
(* What holds of applications that are on the bus before the name watch    *)
(* listens and have an id of their own.                                    *)

(* The key that properties p stand for as long as nobody else has it.      *)
KeyFor(p) == Candidate[Sanitize[PreferredName(p)]][1]

KeyOf(s) == KeyFor(CHOOSE p \in Speaks[s] : TRUE)

OnBusFirst == \A s \in Service : NameOf[s] \in EarlyName

IdsApart ==
  \A s, t \in Service : \A p \in Speaks[s], q \in Speaks[t] : KeyFor(p) = KeyFor(q) <=> s = t

(* The services that have an item.                                         *)
Present(t) == {i.service : i \in t.items}

KeysByService == \A i \in tray.items : i.key = KeyOf(i.service)

(* Nobody who answers is the subject of a signal still to be handled.      *)
BusInv ==
  /\ \A s \in Service : names[NameOf[s]] # "new" /\ says[s] \in Speaks[s]
  /\ \A n \in DOMAIN nameEvents, s \in exported : NameOf[s] # nameEvents[n]

(* An item task is at the service of its call, under the key of that.      *)
Tasked(c) == task[c].service = Registers[c] /\ task[c].key = KeyOf(Registers[c])

TaskInv ==
  \A c \in Call :
    /\ call[c].pc = "apply" => call[c].props \in Speaks[Registers[c]]
    /\ pc[c] \in WatchPc \cup VanishPc \/ call[c].pc = "insert" => Tasked(c)
    /\ pc[c] \in VanishPc => gone[c] = KeyOf(Registers[c])
    /\ pc[c] # "none" => call[c].pc \in {"insert", "done"}

(* Whoever answers is not being dropped, and is there once registered.     *)
LifeInv ==
  /\ \A a \in Actor, s \in exported : pc[a] \in VanishPc => gone[a] # KeyOf(s)
  /\ \A s \in exported : KeyOf(s) \notin doomed
  /\ \A c \in Call : call[c].pc \in {"emit", "key", "insert", "done"}
       /\ Registers[c] \in exported => Registers[c] \in Present(tray)

(* A task that lives after its call returned is the one that is filed.     *)
FiledInv ==
  /\ \A k \in Key : tasks[k] # NoTask => k = KeyOf(Registers[tasks[k]])
  /\ \A c \in Call : call[c].pc = "done" /\ Live(c) /\ pc[c] \notin {"none", "done"}
                      => tasks[KeyOf(Registers[c])] = c

AppsInv == DaemonInv /\ KeysByService /\ BusInv /\ TaskInv /\ LifeInv /\ FiledInv

-----------------------------------------------------------------------------
(* What events do to the services that have an item. *)
LEMMA KeyOfService ==
  ASSUME IdsApart
  PROVE  /\ \A s \in Service : KeyOf(s) \in Key
         /\ \A s \in Service : \A p \in Speaks[s] : KeyFor(p) = KeyOf(s)
         /\ \A s, t \in Service : KeyOf(s) = KeyOf(t) => s = t
<1>1. \A s \in Service : (CHOOSE p \in Speaks[s] : TRUE) \in Speaks[s]
  BY DaemonAssumption
<1>2. ASSUME NEW s \in Service, NEW p \in Speaks[s]
      PROVE  KeyFor(p) \in Key
  <2>1. PreferredName(p) \in Text \cup {NoText}
    BY DefaultProps, PropsAssumption DEF PreferredName
  <2>2. Sanitize[PreferredName(p)] \in Base
    BY <2>1 DEF Base
  <2>3. 1 \in Suffix
    BY SuffixFinite DEF Suffix
  <2> QED BY <2>2, <2>3, StateAssumption DEF KeyFor
<1> QED BY <1>1, <1>2 DEF IdsApart, KeyOf

(* Registering under an id of one's own gives the key of that id.          *)
LEMMA RegisterPresent ==
  ASSUME IdsApart, DaemonInv, KeysByService, NEW s \in Service, NEW p \in Speaks[s],
         tray' = Register(tray, s, p).state
  PROVE  KeysByService' /\ Present(tray') = Present(tray) \cup {s}
<1> DEFINE kept == {i \in tray.items : i.service # s}
           base == Sanitize[PreferredName(p)]
           item == [ since |-> tray.revision + 1, key |-> AllocateKey(kept, base), service |-> s,
                     props |-> p, menu |-> NoMenu ]
<1>1. tray'.items = kept \cup {item}
  BY DEF Register, AnnounceItems, DaemonInv, WellFormed
<1>2. Candidate[base][1] = KeyOf(s)
  BY KeyOfService DEF KeyFor
<1>3. \A i \in kept : i.key # KeyOf(s)
  BY KeyOfService DEF KeysByService, DaemonInv, WellFormed, Item
<1>4. 1 \in FreeSuffixes(kept, base) /\ FreeSuffixes(kept, base) \subseteq Nat \ {0}
  <2>1. 1 \in Suffix /\ Suffix \subseteq Nat \ {0}
    BY SuffixFinite DEF Suffix
  <2> QED BY <1>2, <1>3, <2>1 DEF FreeSuffixes, KeysOf
<1>5. AllocateKey(kept, base) = KeyOf(s)
  <2> DEFINE free == FreeSuffixes(kept, base)
  <2>1. \A n \in free : 1 <= n
    BY <1>4
  <2>2. (CHOOSE n \in free : \A m \in free : n <= m) = 1
    BY <1>4, <2>1
  <2> QED BY <1>2, <2>2 DEF AllocateKey
<1>6. item.key = KeyOf(s) /\ item.service = s
  BY <1>5
<1> HIDE DEF item
<1>7. KeysByService'
  BY <1>1, <1>6 DEF KeysByService
<1>8. Present(tray') = Present(tray) \cup {s}
  BY <1>1, <1>6 DEF Present
<1> QED BY <1>7, <1>8

LEMMA VanishPresent ==
  ASSUME DaemonInv, KeysByService, NEW k \in Key, tray' = Vanish(tray, k).state
  PROVE  KeysByService' /\ Present(tray') = {s \in Present(tray) : KeyOf(s) # k}
<1>1. \A i : i \in tray'.items <=> i \in tray.items /\ i.key # k
  <2>1. CASE HasKey(tray, k)
    BY <2>1 DEF Vanish, AnnounceItems, DaemonInv, WellFormed
  <2>2. CASE ~HasKey(tray, k)
    BY <2>2 DEF Vanish, NoEffect, HasKey
  <2> QED BY <2>1, <2>2
<1> QED BY <1>1 DEF KeysByService, Present

LEMMA UpdatePresent ==
  ASSUME DaemonInv, KeysByService, NEW k \in Key, NEW p \in Props,
         tray' = UpdateProps(tray, k, p).state
  PROVE  KeysByService' /\ Present(tray') = Present(tray)
<1> DEFINE old == ItemAt(tray, k)
           new == [old EXCEPT !.props = p]
<1>1. CASE HasKey(tray, k) /\ old.props # p
  <2>1. old \in tray.items
    BY <1>1, ItemAtIsItem
  <2>2. new.key = old.key /\ new.service = old.service
    BY <2>1 DEF Item, DaemonInv, WellFormed
  <2>3. tray'.items = (tray.items \ {old}) \cup {new}
    BY <1>1 DEF UpdateProps, AnnounceItems, Replace, DaemonInv, WellFormed
  <2> HIDE DEF old, new
  <2> QED BY <2>1, <2>2, <2>3 DEF KeysByService, Present
<1>2. CASE ~ (HasKey(tray, k) /\ old.props # p)
  BY <1>2 DEF UpdateProps, NoEffect, KeysByService
<1> QED BY <1>1, <1>2

LEMMA PresentKeys ==
  ASSUME IdsApart, DaemonInv, KeysByService
  PROVE  /\ Present(tray) \subseteq Service
         /\ \A s \in Service : HasKey(tray, KeyOf(s)) <=> s \in Present(tray)
         /\ \A s \in Service : HasItem(tray, s) <=> s \in Present(tray)
         /\ \A s \in Service : HasItem(tray', s) <=> s \in Present(tray')
<1>1. Present(tray) \subseteq Service
  BY DEF Present, DaemonInv, WellFormed, Item
<1>2. \A s \in Service : HasKey(tray, KeyOf(s)) <=> s \in Present(tray)
  BY <1>1, KeyOfService DEF HasKey, Present, KeysByService
<1>3. \A s \in Service : HasItem(tray, s) <=> s \in Present(tray)
  BY DEF HasItem, Present
<1>4. \A s \in Service : HasItem(tray', s) <=> s \in Present(tray')
  BY DEF HasItem, Present
<1> QED BY <1>1, <1>2, <1>3, <1>4

-----------------------------------------------------------------------------
(* The invariant, action by action. *)
(* Whoever answers and has an item keeps it in this step.                  *)
Stays == exported \cap Present(tray) \subseteq Present(tray')

LEMMA InitApps == OnBusFirst /\ Init => AppsInv
<1> SUFFICES ASSUME OnBusFirst, Init PROVE AppsInv
  OBVIOUS
<1>1. BusInv
  <2>1. DOMAIN nameEvents = {}
    BY DEF Init
  <2>2. \A s \in Service : names[NameOf[s]] = "owned"
    BY DaemonAssumption DEF Init, OnBusFirst
  <2>3. \A s \in Service : says[s] \in Speaks[s]
    BY DEF Init
  <2> QED BY <2>1, <2>2, <2>3 DEF BusInv
<1>2. KeysByService
  BY DEF Init, KeysByService
<1>3. TaskInv /\ LifeInv /\ FiledInv
  BY DaemonAssumption DEF Init, Actor, TaskInv, LifeInv, FiledInv, WatchPc, VanishPc
<1> QED BY <1>1, <1>2, <1>3, InitDaemon DEF AppsInv

-----------------------------------------------------------------------------
(* The applications and the bus. *)
LEMMA FewerAnswer ==
  ASSUME AppsInv, exported' \subseteq exported,
         UNCHANGED <<tray, tasks, aborted, call, pc, gone, doomed>>,
         \A c \in Call : task'[c].key = task[c].key /\ task'[c].service = task[c].service
  PROVE  KeysByService' /\ TaskInv' /\ LifeInv' /\ FiledInv' /\ Stays
<1>1. KeysByService' /\ Stays
  BY DEF AppsInv, KeysByService, Stays
<1>2. TaskInv'
  BY DEF AppsInv, TaskInv, Tasked
<1>3. LifeInv'
  BY DEF AppsInv, LifeInv
<1>4. FiledInv'
  BY DEF AppsInv, FiledInv, Live
<1> QED BY <1>1, <1>2, <1>3, <1>4

LEMMA ConnectApps ==
  ASSUME OnBusFirst, AppsInv, NEW n \in Name, Connect(n)
  PROVE  KeysByService' /\ BusInv' /\ TaskInv' /\ LifeInv' /\ FiledInv' /\ Stays
<1>1. \A s \in Service : NameOf[s] # n
  BY DEF Connect, AppsInv, BusInv
<1>2. exported' = exported
  BY <1>1 DEF Connect
<1>3. BusInv'
  <2>1. nameEvents \in Seq(Name) /\ nameEvents' = Append(nameEvents, n) /\ exported \subseteq Service
    BY DEF Connect, AppsInv, DaemonInv, TypeOK
  <2>2. \A m \in DOMAIN nameEvents' :
          \/ m \in DOMAIN nameEvents /\ nameEvents'[m] = nameEvents[m]
          \/ nameEvents'[m] = n
    BY <2>1
  <2>3. \A s \in Service : names'[NameOf[s]] = names[NameOf[s]] /\ says' = says
    BY <1>1, DaemonAssumption DEF Connect, AppsInv, DaemonInv, TypeOK
  <2> QED BY <1>1, <1>2, <2>1, <2>2, <2>3 DEF AppsInv, BusInv
<1> QED BY <1>2, <1>3, FewerAnswer DEF Connect, storeVars, regVars

LEMMA ExitApps ==
  ASSUME AppsInv, NEW n \in Name, Exit(n)
  PROVE  KeysByService' /\ BusInv' /\ TaskInv' /\ LifeInv' /\ FiledInv' /\ Stays
<1>1. BusInv'
  <2>1. nameEvents \in Seq(Name) /\ nameEvents' = Append(nameEvents, n) /\ exported \subseteq Service
    BY DEF Exit, AppsInv, DaemonInv, TypeOK
  <2>2. \A m \in DOMAIN nameEvents' :
          \/ m \in DOMAIN nameEvents /\ nameEvents'[m] = nameEvents[m]
          \/ nameEvents'[m] = n
    BY <2>1
  <2>3. \A s \in Service : names'[NameOf[s]] # "new" /\ says'[s] \in Speaks[s]
    BY DaemonAssumption DEF Exit, AppsInv, BusInv, DaemonInv, TypeOK
  <2> QED BY <2>1, <2>2, <2>3 DEF Exit, AppsInv, BusInv
<1>2. exported' \subseteq exported
  BY DEF Exit
<1> QED BY <1>1, <1>2, FewerAnswer DEF Exit, storeVars, regVars

LEMMA UnexportApps ==
  ASSUME AppsInv, NEW s \in Service, Unexport(s)
  PROVE  KeysByService' /\ BusInv' /\ TaskInv' /\ LifeInv' /\ FiledInv' /\ Stays
<1>1. BusInv'
  BY DEF Unexport, AppsInv, BusInv
<1>2. exported' \subseteq exported
  BY DEF Unexport
<1> QED BY <1>1, <1>2, FewerAnswer DEF Unexport, storeVars, regVars

LEMMA ChangeApps ==
  ASSUME AppsInv, NEW s \in Service, NEW p \in Speaks[s], Change(s, p)
  PROVE  KeysByService' /\ BusInv' /\ TaskInv' /\ LifeInv' /\ FiledInv' /\ Stays
<1>1. BusInv'
  BY DEF Change, AppsInv, BusInv, DaemonInv, TypeOK
<1>2. exported' = exported
  BY DEF Change
<1>3. ASSUME NEW c \in Call
      PROVE  task'[c].key = task[c].key /\ task'[c].service = task[c].service
  <2> DEFINE signalled == task[c].signalled \/ task[c].follows = s
  <2>1. task'[c] = [task[c] EXCEPT !.signalled = signalled] /\ task[c] \in ItemTask
    BY DEF Change, AppsInv, DaemonInv, TypeOK
  <2> HIDE DEF signalled
  <2> QED BY <2>1 DEF ItemTask
<1> QED BY <1>1, <1>2, <1>3, FewerAnswer DEF Change, storeVars, regVars

LEMMA SameBus ==
  ASSUME AppsInv, UNCHANGED <<names, exported, says, nameEvents>>
  PROVE  BusInv'
BY DEF AppsInv, BusInv

-----------------------------------------------------------------------------
(* Registration calls. *)
LEMMA CallApps ==
  ASSUME AppsInv, NEW c \in Call, call[c].pc # "done",
         NEW state \in CallState, call' = [call EXCEPT ![c] = state],
         call[c].pc # "insert", state.pc # "insert",
         state.pc = "apply" => state.props \in Speaks[Registers[c]],
         state.pc \in {"emit", "key", "done"} /\ Registers[c] \in exported
           => Registers[c] \in Present(tray'),
         UNCHANGED <<appVars, nameEvents, regVars, task, pc, gone, doomed>>,
         exported \cap Present(tray) \subseteq Present(tray')
  PROVE  BusInv' /\ TaskInv' /\ LifeInv' /\ FiledInv'
<1>1. call'[c] = state /\ \A d \in Call \ {c} : call'[d] = call[d]
  BY DEF AppsInv, DaemonInv, TypeOK
<1>2. pc[c] = "none"
  BY DEF AppsInv, TaskInv
<1>3. TaskInv'
  BY <1>1, <1>2 DEF AppsInv, TaskInv, Tasked, WatchPc, VanishPc
<1>4. LifeInv'
  BY <1>1 DEF AppsInv, LifeInv, appVars
<1>5. FiledInv'
  BY <1>1, <1>2 DEF AppsInv, FiledInv, Live, regVars
<1>6. BusInv'
  BY SameBus DEF appVars
<1> QED BY <1>3, <1>4, <1>5, <1>6

LEMMA RegisterItemApps ==
  ASSUME AppsInv, NEW c \in Call, RegisterItem(c)
  PROVE  KeysByService' /\ BusInv' /\ TaskInv' /\ LifeInv' /\ FiledInv' /\ Stays
<1> DEFINE state == [call[c] EXCEPT !.pc = "fetch"]
<1>1. state \in CallState /\ state.pc = "fetch"
  BY DEF AppsInv, DaemonInv, TypeOK, CallState, CallPc
<1>2. call' = [call EXCEPT ![c] = state] /\ call[c].pc = "unused" /\ tray' = tray
      /\ UNCHANGED <<appVars, nameEvents, regVars, task, pc, gone, doomed>>
  BY DEF RegisterItem, CallGoesTo, storeVars
<1> HIDE DEF state
<1>3. KeysByService' /\ Stays
  BY <1>2 DEF AppsInv, KeysByService, Stays
<1> QED BY <1>1, <1>2, <1>3, CallApps

LEMMA FetchPropsApps ==
  ASSUME AppsInv, NEW c \in Call, FetchProps(c)
  PROVE  KeysByService' /\ BusInv' /\ TaskInv' /\ LifeInv' /\ FiledInv' /\ Stays
<1>1. Registers[c] \in Service /\ call[c] \in CallState
  BY DaemonAssumption DEF AppsInv, DaemonInv, TypeOK
<1>2. says[Registers[c]] \in Speaks[Registers[c]] /\ says[Registers[c]] \in Props
  BY <1>1, DefaultProps DEF AppsInv, BusInv
<1>3. \E state \in CallState :
        /\ call' = [call EXCEPT ![c] = state]
        /\ \/ state.pc = "apply" /\ state.props \in Speaks[Registers[c]]
           \/ state.pc = "done" /\ Registers[c] \notin exported
  <2>1. CASE call' = [call EXCEPT ![c].pc = "apply", ![c].props = says[Registers[c]]]
    <3> DEFINE state == [call[c] EXCEPT !.pc = "apply", !.props = says[Registers[c]]]
    <3>1. call' = [call EXCEPT ![c] = state]
      BY <2>1
    <3>2. state \in CallState /\ state.pc = "apply" /\ state.props \in Speaks[Registers[c]]
      BY <1>1, <1>2 DEF CallState, CallPc
    <3> QED BY <3>1, <3>2
  <2>2. CASE call' = [call EXCEPT ![c].pc = "done"] /\ Registers[c] \notin exported
    <3> DEFINE state == [call[c] EXCEPT !.pc = "done"]
    <3>1. call' = [call EXCEPT ![c] = state]
      BY <2>2
    <3>2. state \in CallState /\ state.pc = "done"
      BY <1>1 DEF CallState, CallPc
    <3> QED BY <2>2, <3>1, <3>2
  <2> QED BY <2>1, <2>2 DEF FetchProps, CallGoesTo
<1>4. PICK state \in CallState :
        /\ call' = [call EXCEPT ![c] = state]
        /\ \/ state.pc = "apply" /\ state.props \in Speaks[Registers[c]]
           \/ state.pc = "done" /\ Registers[c] \notin exported
  BY <1>3
<1>5. call[c].pc = "fetch" /\ tray' = tray
      /\ UNCHANGED <<appVars, nameEvents, regVars, task, pc, gone, doomed>>
  BY DEF FetchProps, storeVars
<1>6. KeysByService' /\ Stays
  BY <1>5 DEF AppsInv, KeysByService, Stays
<1>7. /\ state.pc # "insert" /\ state.pc = "apply" => state.props \in Speaks[Registers[c]]
      /\ state.pc \in {"emit", "key", "done"} /\ Registers[c] \in exported
           => Registers[c] \in Present(tray')
  BY <1>4
<1>8. call[c].pc # "done" /\ call[c].pc # "insert"
      /\ exported \cap Present(tray) \subseteq Present(tray')
  BY <1>5
<1> QED BY <1>4, <1>5, <1>6, <1>7, <1>8, CallApps

LEMMA ApplyRegisteredApps ==
  ASSUME IdsApart, AppsInv, NEW c \in Call, ApplyRegistered(c)
  PROVE  KeysByService' /\ BusInv' /\ TaskInv' /\ LifeInv' /\ FiledInv' /\ Stays
<1> DEFINE state == [call[c] EXCEPT !.pc = "emit", !.props = NoProps]
<1>1. state \in CallState /\ state.pc = "emit"
  BY DEF AppsInv, DaemonInv, TypeOK, CallState, CallPc
<1>2. call' = [call EXCEPT ![c] = state]
  BY DEF ApplyRegistered, AppsInv, DaemonInv, TypeOK
<1>3. /\ Registers[c] \in Service /\ call[c].props \in Speaks[Registers[c]] /\ call[c].pc = "apply"
      /\ tray' = Register(tray, Registers[c], call[c].props).state
      /\ UNCHANGED <<appVars, nameEvents, regVars, task, pc, gone, doomed>>
  BY DaemonAssumption DEF ApplyRegistered, Fold, AppsInv, TaskInv
<1>4. KeysByService' /\ Present(tray') = Present(tray) \cup {Registers[c]}
  BY <1>3, RegisterPresent DEF AppsInv
<1> HIDE DEF state
<1>5. Stays
  BY <1>4 DEF Stays
<1>6. call[c].pc # "done" /\ call[c].pc # "insert" /\ state.pc # "insert" /\ state.pc # "apply"
      /\ Registers[c] \in Present(tray') /\ exported \cap Present(tray) \subseteq Present(tray')
  BY <1>1, <1>3, <1>4
<1> QED BY <1>1, <1>2, <1>3, <1>4, <1>5, <1>6, CallApps

LEMMA EmitRegisteredApps ==
  ASSUME AppsInv, NEW c \in Call, EmitRegistered(c)
  PROVE  KeysByService' /\ BusInv' /\ TaskInv' /\ LifeInv' /\ FiledInv' /\ Stays
<1> DEFINE state == [call[c] EXCEPT !.pc = "key"]
<1>1. state \in CallState /\ state.pc = "key"
  BY DEF AppsInv, DaemonInv, TypeOK, CallState, CallPc
<1>2. call' = [call EXCEPT ![c] = state] /\ call[c].pc = "emit" /\ tray' = tray
      /\ UNCHANGED <<appVars, nameEvents, regVars, task, pc, gone, doomed>>
  BY DEF EmitRegistered, CallGoesTo, Emit
<1> HIDE DEF state
<1>3. KeysByService' /\ Stays
  BY <1>2 DEF AppsInv, KeysByService, Stays
<1>4. Registers[c] \in exported => Registers[c] \in Present(tray')
  BY <1>2 DEF AppsInv, LifeInv
<1>5. call[c].pc # "done" /\ call[c].pc # "insert" /\ state.pc # "insert" /\ state.pc # "apply"
      /\ exported \cap Present(tray) \subseteq Present(tray')
  BY <1>1, <1>2
<1> QED BY <1>1, <1>2, <1>3, <1>4, <1>5, CallApps

LEMMA SpawnTaskApps ==
  ASSUME IdsApart, AppsInv, NEW c \in Call, SpawnTask(c)
  PROVE  KeysByService' /\ BusInv' /\ TaskInv' /\ LifeInv' /\ FiledInv' /\ Stays
<1>1. /\ tray' = tray /\ call[c].pc = "key" /\ Registers[c] \in Service /\ c \in Actor
      /\ UNCHANGED <<appVars, nameEvents, regVars, gone, doomed>>
  BY DaemonAssumption DEF SpawnTask, storeVars, Actor
<1>2. KeysByService' /\ Stays /\ BusInv'
  BY <1>1, SameBus DEF AppsInv, KeysByService, Stays, appVars
<1>3. pc[c] = "none"
  BY <1>1 DEF AppsInv, TaskInv
<1>4. ASSUME NEW i \in tray.items, i.service = Registers[c],
             task' = [task EXCEPT ![c] = [NoItemTask EXCEPT !.key = i.key,
                                                           !.service = Registers[c]]],
             pc' = [pc EXCEPT ![c] = "start"], CallGoesTo(c, "insert")
      PROVE  TaskInv' /\ LifeInv' /\ FiledInv'
  <2>1. /\ call'[c].pc = "insert" /\ \A d \in Call \ {c} : call'[d] = call[d]
        /\ pc'[c] = "start" /\ \A a \in Actor \ {c} : pc'[a] = pc[a]
        /\ \A d \in Call \ {c} : task'[d] = task[d]
    BY <1>1, <1>4 DEF CallGoesTo, AppsInv, DaemonInv, TypeOK, CallState
  <2>2. Tasked(c)'
    <3>1. i.key = KeyOf(Registers[c])
      BY <1>4 DEF AppsInv, KeysByService
    <3>2. task'[c] = [NoItemTask EXCEPT !.key = i.key, !.service = Registers[c]]
      BY <1>4 DEF AppsInv, DaemonInv, TypeOK
    <3> QED BY <3>1, <3>2 DEF Tasked, NoItemTask
  <2>3. TaskInv'
    BY <1>1, <1>3, <2>1, <2>2 DEF AppsInv, TaskInv, Tasked, Actor, WatchPc, VanishPc
  <2>4. LifeInv'
    <3>1. Registers[c] \in Present(tray)
      BY <1>4 DEF Present
    <3> QED BY <1>1, <1>3, <2>1, <3>1 DEF AppsInv, LifeInv, appVars, VanishPc
  <2>5. FiledInv'
    BY <1>1, <2>1 DEF AppsInv, FiledInv, Live, Actor, regVars
  <2> QED BY <2>3, <2>4, <2>5
<1>5. ASSUME \A i \in tray.items : i.service # Registers[c], CallGoesTo(c, "done"),
             UNCHANGED <<task, pc>>
      PROVE  TaskInv' /\ LifeInv' /\ FiledInv'
  <2> DEFINE state == [call[c] EXCEPT !.pc = "done"]
  <2>1. state \in CallState /\ state.pc = "done"
    BY DEF AppsInv, DaemonInv, TypeOK, CallState, CallPc
  <2>2. call' = [call EXCEPT ![c] = state]
    BY <1>5 DEF CallGoesTo
  <2> HIDE DEF state
  <2>3. Registers[c] \notin exported
    BY <1>1, <1>5 DEF AppsInv, LifeInv, Present
  <2>4. call[c].pc # "done" /\ call[c].pc # "insert" /\ state.pc # "insert" /\ state.pc # "apply"
        /\ exported \cap Present(tray) \subseteq Present(tray')
    BY <1>1, <2>1
  <2> QED BY <1>1, <1>5, <2>1, <2>2, <2>3, <2>4, CallApps
<1> QED BY <1>2, <1>4, <1>5 DEF SpawnTask

LEMMA InsertTaskApps ==
  ASSUME IdsApart, AppsInv, NEW c \in Call, InsertTask(c)
  PROVE  KeysByService' /\ BusInv' /\ TaskInv' /\ LifeInv' /\ FiledInv' /\ Stays
<1> DEFINE key == KeyOf(Registers[c])
<1>1. /\ tray' = tray /\ call[c].pc = "insert" /\ Registers[c] \in Service
      /\ UNCHANGED <<appVars, nameEvents, task, pc, gone, doomed>>
  BY DaemonAssumption DEF InsertTask, storeVars
<1>2. key \in Key /\ task[c].key = key
  BY <1>1, KeyOfService DEF AppsInv, TaskInv, Tasked
<1>3. KeysByService' /\ Stays /\ BusInv'
  BY <1>1, SameBus DEF AppsInv, KeysByService, Stays, appVars
<1>4. call'[c].pc = "done" /\ \A d \in Call \ {c} : call'[d] = call[d]
  BY DEF InsertTask, CallGoesTo, AppsInv, DaemonInv, TypeOK, CallState
<1>5. TaskInv'
  BY <1>1, <1>4 DEF AppsInv, TaskInv, Tasked
<1>6. LifeInv'
  BY <1>1, <1>4 DEF AppsInv, LifeInv, appVars
<1>7. FiledInv'
  <2>1. /\ \A k \in Key : tasks'[k] = IF k = key THEN c ELSE tasks[k]
        /\ aborted' = aborted \cup ({tasks[key]} \ {NoTask})
    BY <1>2 DEF InsertTask, AppsInv, DaemonInv, TypeOK
  <2>2. \A d \in Call : KeyOf(Registers[d]) \in Key
    BY KeyOfService, DaemonAssumption
  <2>3. ASSUME NEW k \in Key, tasks'[k] # NoTask
        PROVE  k = KeyOf(Registers[tasks'[k]])
    BY <1>2, <2>1, <2>3 DEF AppsInv, FiledInv
  <2>4. ASSUME NEW d \in Call, call'[d].pc = "done", Live(d)', pc'[d] \notin {"none", "done"}
        PROVE  tasks'[KeyOf(Registers[d])] = d
    <3>1. CASE d = c
      BY <1>2, <2>1, <3>1
    <3>2. CASE d # c
      <4>1. tasks[KeyOf(Registers[d])] = d
        BY <1>1, <1>4, <2>1, <2>4, <3>2 DEF AppsInv, FiledInv, Live
      <4>2. d # NoTask
        BY DaemonAssumption
      <4> QED BY <1>2, <2>1, <2>2, <2>4, <4>1, <4>2 DEF Live
    <3> QED BY <3>1, <3>2
  <2> QED BY <2>3, <2>4 DEF FiledInv
<1> QED BY <1>3, <1>5, <1>6, <1>7

-----------------------------------------------------------------------------
(* Registry::vanish_key, for whoever runs it. *)
LEMMA VanishingOf ==
  ASSUME AppsInv, NEW a \in Actor, pc[a] \in VanishPc
  PROVE  gone[a] \in Key /\ \A s \in exported : gone[a] # KeyOf(s)
BY DEF AppsInv, DaemonInv, Holding, LifeInv

(* A step of a that leaves it dropping the same key, or done with it.      *)
LEMMA VanishApps ==
  ASSUME AppsInv, NEW a \in Actor, pc[a] \in VanishPc,
         NEW label, pc' = [pc EXCEPT ![a] = label],
         \/ label \in VanishPc /\ gone' = gone
         \/ label = (IF a = NameWatch THEN "none" ELSE "done") /\ gone' = [gone EXCEPT ![a] = NoKey],
         UNCHANGED <<appVars, nameEvents, call, task, doomed>>,
         exported \cap Present(tray) \subseteq Present(tray')
  PROVE  BusInv' /\ TaskInv' /\ LifeInv'
<1>1. /\ pc'[a] = label /\ \A b \in Actor \ {a} : pc'[b] = pc[b] /\ gone'[b] = gone[b]
      /\ label \in VanishPc => gone'[a] = gone[a]
      /\ a # NameWatch => label # "none" /\ label \notin WatchPc
  BY DEF AppsInv, DaemonInv, TypeOK, VanishPc, WatchPc
<1>2. BusInv'
  BY SameBus DEF appVars
<1>3. TaskInv'
  <2>1. \A c \in Call : c \in Actor /\ c # NameWatch
    BY DaemonAssumption DEF Actor
  <2> QED BY <1>1, <2>1 DEF AppsInv, TaskInv, Tasked, VanishPc, WatchPc
<1>4. LifeInv'
  BY <1>1 DEF AppsInv, LifeInv, appVars
<1> QED BY <1>2, <1>3, <1>4

LEMMA RemoveTaskApps ==
  ASSUME IdsApart, AppsInv, NEW a \in Actor, RemoveTask(a)
  PROVE  KeysByService' /\ BusInv' /\ TaskInv' /\ LifeInv' /\ FiledInv' /\ Stays
<1>1. /\ pc[a] = "remove" /\ pc' = [pc EXCEPT ![a] = "lookup"] /\ gone' = gone /\ tray' = tray
      /\ UNCHANGED <<appVars, nameEvents, call, task, doomed>>
  BY DEF RemoveTask, GoTo, storeVars
<1>2. pc[a] \in VanishPc /\ "lookup" \in VanishPc
  BY <1>1 DEF VanishPc
<1>3. KeysByService' /\ Stays
  BY <1>1 DEF AppsInv, KeysByService, Stays
<1>4. exported \cap Present(tray) \subseteq Present(tray')
  BY <1>1
<1>5. BusInv' /\ TaskInv' /\ LifeInv'
  BY <1>1, <1>2, <1>4, VanishApps
<1>6. FiledInv'
  <2>1. /\ \A k \in Key : tasks'[k] = IF k = gone[a] THEN NoTask ELSE tasks[k]
        /\ aborted' = aborted \cup ({tasks[gone[a]]} \ {NoTask}) /\ gone[a] \in Key
    BY <1>2, VanishingOf DEF RemoveTask, AppsInv, DaemonInv, TypeOK
  <2>2. \A d \in Call : KeyOf(Registers[d]) \in Key /\ d # NoTask
    BY KeyOfService, DaemonAssumption
  <2>3. ASSUME NEW k \in Key, tasks'[k] # NoTask
        PROVE  k = KeyOf(Registers[tasks'[k]])
    BY <2>1, <2>3 DEF AppsInv, FiledInv
  <2>4. ASSUME NEW d \in Call, call'[d].pc = "done", Live(d)', pc'[d] \notin {"none", "done"}
        PROVE  tasks'[KeyOf(Registers[d])] = d
    <3>1. pc[d] \notin {"none", "done"}
      BY <1>1, <2>4 DEF AppsInv, DaemonInv, TypeOK, Actor
    <3>2. tasks[KeyOf(Registers[d])] = d
      BY <1>1, <2>1, <2>4, <3>1 DEF AppsInv, FiledInv, Live
    <3> QED BY <2>1, <2>2, <2>4, <3>2 DEF Live
  <2> QED BY <2>3, <2>4 DEF FiledInv
<1> QED BY <1>3, <1>5, <1>6

(* Once it is off the list of tasks, a step of a changes no task's standing. *)
LEMMA VanishFiled ==
  ASSUME AppsInv, NEW a \in Actor, pc[a] \in VanishPc, NEW label, pc' = [pc EXCEPT ![a] = label],
         UNCHANGED <<regVars, call>>
  PROVE  FiledInv'
<1>1. \A c \in Call : pc'[c] \notin {"none", "done"} => pc[c] \notin {"none", "done"}
  BY DEF AppsInv, DaemonInv, TypeOK, Actor, VanishPc
<1> QED BY <1>1 DEF AppsInv, FiledInv, Live, regVars

LEMMA LookUpServiceApps ==
  ASSUME AppsInv, NEW a \in Actor, LookUpService(a)
  PROVE  KeysByService' /\ BusInv' /\ TaskInv' /\ LifeInv' /\ FiledInv' /\ Stays
<1>1. /\ pc[a] \in VanishPc /\ tray' = tray /\ exported \cap Present(tray) \subseteq Present(tray')
      /\ UNCHANGED <<appVars, nameEvents, regVars, call, task, doomed>>
  BY DEF LookUpService, storeVars, VanishPc
<1>2. KeysByService' /\ Stays
  BY <1>1 DEF AppsInv, KeysByService, Stays
<1>3. CASE HasKey(tray, gone[a]) /\ GoTo(a, "drop") /\ UNCHANGED gone
  <2>1. pc' = [pc EXCEPT ![a] = "drop"] /\ "drop" \in VanishPc
    BY <1>3 DEF GoTo, VanishPc
  <2> QED BY <1>1, <1>2, <1>3, <2>1, VanishApps, VanishFiled
<1>4. CASE EndVanish(a)
  <2> DEFINE label == IF a = NameWatch THEN "none" ELSE "done"
  <2>1. pc' = [pc EXCEPT ![a] = label] /\ gone' = [gone EXCEPT ![a] = NoKey]
    BY <1>4 DEF EndVanish
  <2> QED BY <1>1, <1>2, <2>1, VanishApps, VanishFiled
<1> QED BY <1>3, <1>4 DEF LookUpService

LEMMA ApplyVanishedApps ==
  ASSUME AppsInv, NEW a \in Actor, ApplyVanished(a)
  PROVE  KeysByService' /\ BusInv' /\ TaskInv' /\ LifeInv' /\ FiledInv' /\ Stays
<1>1. /\ pc[a] \in VanishPc /\ tray' = Vanish(tray, gone[a]).state
      /\ UNCHANGED <<appVars, nameEvents, regVars, call, task, doomed>>
  BY DEF ApplyVanished, Fold, VanishPc
<1>2. KeysByService' /\ Present(tray') = {s \in Present(tray) : KeyOf(s) # gone[a]}
  BY <1>1, VanishingOf, VanishPresent DEF AppsInv
<1>3. Stays
  BY <1>1, <1>2, VanishingOf DEF Stays
<1>4. exported \cap Present(tray) \subseteq Present(tray')
  BY <1>3 DEF Stays
<1>5. CASE HasKey(tray, gone[a]) /\ GoTo(a, "tell") /\ UNCHANGED gone
  <2>1. pc' = [pc EXCEPT ![a] = "tell"] /\ "tell" \in VanishPc
    BY <1>5 DEF GoTo, VanishPc
  <2> QED BY <1>1, <1>2, <1>3, <1>4, <1>5, <2>1, VanishApps, VanishFiled
<1>6. CASE EndVanish(a)
  <2> DEFINE label == IF a = NameWatch THEN "none" ELSE "done"
  <2>1. pc' = [pc EXCEPT ![a] = label] /\ gone' = [gone EXCEPT ![a] = NoKey]
    BY <1>6 DEF EndVanish
  <2> QED BY <1>1, <1>2, <1>3, <1>4, <2>1, VanishApps, VanishFiled
<1> QED BY <1>5, <1>6 DEF ApplyVanished

LEMMA EmitVanishedApps ==
  ASSUME AppsInv, NEW a \in Actor, EmitVanished(a)
  PROVE  KeysByService' /\ BusInv' /\ TaskInv' /\ LifeInv' /\ FiledInv' /\ Stays
<1> DEFINE label == IF a = NameWatch THEN "none" ELSE "done"
<1>1. /\ pc[a] \in VanishPc /\ tray' = tray /\ exported \cap Present(tray) \subseteq Present(tray')
      /\ UNCHANGED <<appVars, nameEvents, regVars, call, task, doomed>>
      /\ pc' = [pc EXCEPT ![a] = label] /\ gone' = [gone EXCEPT ![a] = NoKey]
  BY DEF EmitVanished, EndVanish, Emit, VanishPc
<1>2. KeysByService' /\ Stays
  BY <1>1 DEF AppsInv, KeysByService, Stays
<1> QED BY <1>1, <1>2, VanishApps, VanishFiled

-----------------------------------------------------------------------------
(* Item tasks. *)
LEMMA RunningApps ==
  ASSUME IdsApart, AppsInv, NEW c \in Call, pc[c] \in WatchPc \cup VanishPc
  PROVE  /\ c \in Actor /\ c # NameWatch /\ Registers[c] \in Service /\ Tasked(c)
         /\ task[c].service = Registers[c] /\ task[c].key = KeyOf(Registers[c])
         /\ task[c].key \in Key /\ call[c].pc \in {"insert", "done"}
         /\ HasKey(tray, task[c].key) <=> Registers[c] \in Present(tray)
<1>1. Registers[c] \in Service /\ c \in Actor /\ c # NameWatch
  BY DaemonAssumption DEF Actor
<1>2. Tasked(c) /\ call[c].pc \in {"insert", "done"}
  BY DEF AppsInv, TaskInv, WatchPc, VanishPc
<1>3. KeyOf(Registers[c]) \in Key
  BY <1>1, KeyOfService
<1>4. HasKey(tray, KeyOf(Registers[c])) <=> Registers[c] \in Present(tray)
  BY <1>1, PresentKeys DEF AppsInv
<1> QED BY <1>1, <1>2, <1>3, <1>4 DEF Tasked

(* It goes on watching. *)
LEMMA WatchingApps ==
  ASSUME AppsInv, NEW c \in Call, pc[c] \in WatchPc,
         NEW label \in WatchPc, pc' = [pc EXCEPT ![c] = label],
         \A d \in Call : task'[d].key = task[d].key /\ task'[d].service = task[d].service,
         UNCHANGED <<appVars, nameEvents, regVars, call, gone, doomed>>,
         Present(tray') = Present(tray)
  PROVE  BusInv' /\ TaskInv' /\ LifeInv' /\ FiledInv' /\ Stays
<1>1. c \in Actor /\ pc'[c] = label /\ \A a \in Actor \ {c} : pc'[a] = pc[a]
  BY DEF AppsInv, DaemonInv, TypeOK, Actor
<1>2. BusInv' /\ Stays
  BY SameBus DEF appVars, Stays
<1>3. TaskInv'
  BY <1>1 DEF AppsInv, TaskInv, Tasked, Actor, WatchPc, VanishPc
<1>4. LifeInv'
  BY <1>1 DEF AppsInv, LifeInv, WatchPc, VanishPc, appVars
<1>5. FiledInv'
  BY <1>1 DEF AppsInv, FiledInv, Live, Actor, WatchPc, regVars
<1> QED BY <1>2, <1>3, <1>4, <1>5

(* It begins to drop its key: its service does not answer. *)
LEMMA VanishingApps ==
  ASSUME IdsApart, AppsInv, NEW c \in Call, pc[c] \in WatchPc, Registers[c] \notin exported,
         StartVanish(c, task[c].key),
         \A d \in Call : task'[d].key = task[d].key /\ task'[d].service = task[d].service,
         UNCHANGED <<appVars, nameEvents, tray, regVars, call, doomed>>
  PROVE  KeysByService' /\ BusInv' /\ TaskInv' /\ LifeInv' /\ FiledInv' /\ Stays
<1>1. /\ c \in Actor /\ c # NameWatch /\ Registers[c] \in Service /\ task[c].key = KeyOf(Registers[c])
      /\ call[c].pc \in {"insert", "done"}
  BY RunningApps
<1>2. /\ pc'[c] = "remove" /\ \A a \in Actor \ {c} : pc'[a] = pc[a] /\ gone'[a] = gone[a]
      /\ gone'[c] = KeyOf(Registers[c])
  BY <1>1 DEF StartVanish, GoTo, AppsInv, DaemonInv, TypeOK
<1>3. BusInv' /\ Stays /\ KeysByService'
  BY SameBus DEF appVars, Stays, AppsInv, KeysByService
<1>4. TaskInv'
  BY <1>1, <1>2 DEF AppsInv, TaskInv, Tasked, Actor, WatchPc, VanishPc
<1>5. \A s \in exported : KeyOf(s) # KeyOf(Registers[c])
  BY <1>1, KeyOfService DEF AppsInv, DaemonInv, TypeOK
<1>6. LifeInv'
  BY <1>2, <1>5 DEF AppsInv, LifeInv, appVars
<1>7. FiledInv'
  BY <1>1, <1>2 DEF AppsInv, FiledInv, Live, Actor, WatchPc, regVars
<1> QED BY <1>3, <1>4, <1>6, <1>7

LEMMA StartTaskApps ==
  ASSUME IdsApart, AppsInv, NEW c \in Call, StartTask(c)
  PROVE  KeysByService' /\ BusInv' /\ TaskInv' /\ LifeInv' /\ FiledInv' /\ Stays
<1>1. /\ pc[c] \in WatchPc /\ tray' = tray
      /\ UNCHANGED <<appVars, nameEvents, regVars, call, doomed>>
  BY DEF StartTask, WatchPc, storeVars
<1>2. KeysByService'
  BY <1>1 DEF AppsInv, KeysByService
<1>3. CASE /\ task' = [task EXCEPT ![c].follows = ItemAt(tray, task[c].key).service]
           /\ GoTo(c, "watching") /\ UNCHANGED gone
  <2>1. \A d \in Call : task'[d].key = task[d].key /\ task'[d].service = task[d].service
    BY <1>3 DEF AppsInv, DaemonInv, TypeOK, ItemTask
  <2>2. pc' = [pc EXCEPT ![c] = "watching"] /\ "watching" \in WatchPc
    BY <1>3 DEF GoTo, WatchPc
  <2> QED BY <1>1, <1>2, <1>3, <2>1, <2>2, WatchingApps
<1>4. CASE ~HasKey(tray, task[c].key) /\ StartVanish(c, task[c].key) /\ UNCHANGED task
  <2>1. Registers[c] \notin exported
    BY <1>1, <1>4, RunningApps DEF AppsInv, LifeInv
  <2> QED BY <1>1, <1>4, <2>1, VanishingApps
<1> QED BY <1>3, <1>4 DEF StartTask

LEMMA TakeSignalApps ==
  ASSUME AppsInv, NEW c \in Call, TakeSignal(c)
  PROVE  KeysByService' /\ BusInv' /\ TaskInv' /\ LifeInv' /\ FiledInv' /\ Stays
<1>1. /\ pc[c] \in WatchPc /\ tray' = tray
      /\ UNCHANGED <<appVars, nameEvents, regVars, call, gone, doomed>>
  BY DEF TakeSignal, WatchPc, storeVars
<1>2. KeysByService'
  BY <1>1 DEF AppsInv, KeysByService
<1>3. \A d \in Call : task'[d].key = task[d].key /\ task'[d].service = task[d].service
  BY DEF TakeSignal, AppsInv, DaemonInv, TypeOK, ItemTask
<1>4. pc' = [pc EXCEPT ![c] = "refresh"] /\ "refresh" \in WatchPc
  BY DEF TakeSignal, GoTo, WatchPc
<1> QED BY <1>1, <1>2, <1>3, <1>4, WatchingApps

LEMMA ReadingApps ==
  ASSUME AppsInv, NEW c \in Call, pc[c] \in WatchPc, ReadProps(c),
         UNCHANGED <<appVars, nameEvents, tray, regVars, call, doomed>>
  PROVE  KeysByService' /\ BusInv' /\ TaskInv' /\ LifeInv' /\ FiledInv' /\ Stays
<1>1. KeysByService'
  BY DEF AppsInv, KeysByService
<1>2. \A d \in Call : task'[d].key = task[d].key /\ task'[d].service = task[d].service
  BY DEF ReadProps, AppsInv, DaemonInv, TypeOK, ItemTask
<1>3. pc' = [pc EXCEPT ![c] = "apply"] /\ "apply" \in WatchPc /\ gone' = gone
  BY DEF ReadProps, GoTo, WatchPc
<1> QED BY <1>1, <1>2, <1>3, WatchingApps

LEMMA RefreshPropsApps ==
  ASSUME IdsApart, AppsInv, NEW c \in Call, RefreshProps(c)
  PROVE  KeysByService' /\ BusInv' /\ TaskInv' /\ LifeInv' /\ FiledInv' /\ Stays
<1>1. /\ pc[c] \in WatchPc /\ UNCHANGED <<appVars, nameEvents, tray, regVars, call, doomed>>
  BY DEF RefreshProps, WatchPc, storeVars
<1>2. CASE ReadProps(c)
  BY <1>1, <1>2, ReadingApps
<1>3. CASE task[c].service \notin exported /\ StartVanish(c, task[c].key) /\ UNCHANGED task
  <2>1. Registers[c] \notin exported
    BY <1>1, <1>3, RunningApps
  <2> QED BY <1>1, <1>3, <2>1, VanishingApps
<1> QED BY <1>2, <1>3 DEF RefreshProps

LEMMA ProbeApps ==
  ASSUME IdsApart, AppsInv, NEW c \in Call, Probe(c)
  PROVE  KeysByService' /\ BusInv' /\ TaskInv' /\ LifeInv' /\ FiledInv' /\ Stays
<1>1. /\ pc[c] = "watching" /\ pc[c] \in WatchPc /\ UNCHANGED <<appVars, nameEvents, tray, regVars, call, doomed>>
  BY DEF Probe, WatchPc, storeVars
<1>2. CASE ReadProps(c)
  BY <1>1, <1>2, ReadingApps
<1>3. CASE /\ task[c].service \notin exported
           /\ task' = [task EXCEPT ![c].failed = @ + 1]
           /\ StartVanish(c, task[c].key) \/ UNCHANGED <<pc, gone>>
  <2>1. Registers[c] \notin exported
    BY <1>1, <1>3, RunningApps
  <2>2. \A d \in Call : task'[d].key = task[d].key /\ task'[d].service = task[d].service
    BY <1>3 DEF AppsInv, DaemonInv, TypeOK, ItemTask
  <2>3. CASE StartVanish(c, task[c].key)
    BY <1>1, <2>1, <2>2, <2>3, VanishingApps
  <2>4. CASE UNCHANGED <<pc, gone>>
    <3>1. pc' = [pc EXCEPT ![c] = "watching"] /\ "watching" \in WatchPc
      BY <1>1, <2>4 DEF WatchPc, AppsInv, DaemonInv, TypeOK, Actor
    <3>2. KeysByService'
      BY <1>1 DEF AppsInv, KeysByService
    <3> QED BY <1>1, <2>2, <2>4, <3>1, <3>2, WatchingApps
  <2> QED BY <1>3, <2>3, <2>4
<1> QED BY <1>2, <1>3 DEF Probe

LEMMA ApplyPropsApps ==
  ASSUME IdsApart, AppsInv, NEW c \in Call, ApplyProps(c)
  PROVE  KeysByService' /\ BusInv' /\ TaskInv' /\ LifeInv' /\ FiledInv' /\ Stays
<1> DEFINE next  == UpdateProps(tray, task[c].key, task[c].props)
           label == IF next.effects = <<>> THEN "watching" ELSE "emit"
<1>1. /\ pc[c] \in WatchPc /\ pc[c] = "apply" /\ UNCHANGED <<appVars, nameEvents, regVars, call, gone, doomed>>
  BY DEF ApplyProps, WatchPc
<1>2. task[c].key \in Key /\ task[c].props \in Props
  BY <1>1 DEF AppsInv, DaemonInv, Holding
<1>3. tray' = UpdateProps(tray, task[c].key, task[c].props).state
  BY DEF ApplyProps, Fold
<1>4. KeysByService' /\ Present(tray') = Present(tray)
  BY <1>2, <1>3, UpdatePresent DEF AppsInv
<1>5. \A d \in Call : task'[d].key = task[d].key /\ task'[d].service = task[d].service
  BY DEF ApplyProps, AppsInv, DaemonInv, TypeOK, ItemTask
<1>6. pc' = [pc EXCEPT ![c] = label] /\ label \in WatchPc
  BY DEF ApplyProps, GoTo, WatchPc
<1> HIDE DEF label
<1> QED BY <1>1, <1>4, <1>5, <1>6, WatchingApps

LEMMA EmitPropsApps ==
  ASSUME AppsInv, NEW c \in Call, EmitProps(c)
  PROVE  KeysByService' /\ BusInv' /\ TaskInv' /\ LifeInv' /\ FiledInv' /\ Stays
<1>1. /\ pc[c] \in WatchPc /\ tray' = tray /\ task' = task
      /\ UNCHANGED <<appVars, nameEvents, regVars, call, gone, doomed>>
      /\ pc' = [pc EXCEPT ![c] = "watching"] /\ "watching" \in WatchPc
  BY DEF EmitProps, Emit, GoTo, WatchPc
<1>2. KeysByService'
  BY <1>1 DEF AppsInv, KeysByService
<1> QED BY <1>1, <1>2, WatchingApps

LEMMA CancelApps ==
  ASSUME AppsInv, NEW c \in Call, Cancel(c)
  PROVE  KeysByService' /\ BusInv' /\ TaskInv' /\ LifeInv' /\ FiledInv' /\ Stays
<1>1. /\ c \in Actor /\ c # NameWatch /\ tray' = tray /\ call[c].pc = "done"
      /\ UNCHANGED <<appVars, nameEvents, regVars, call, doomed>>
  BY DaemonAssumption DEF Cancel, Live, Actor, AppsInv, DaemonInv, Filed, storeVars
<1>2. /\ pc'[c] = "done" /\ \A a \in Actor \ {c} : pc'[a] = pc[a] /\ gone'[a] = gone[a]
      /\ \A d \in Call \ {c} : task'[d] = task[d]
  BY <1>1 DEF Cancel, AppsInv, DaemonInv, TypeOK
<1>3. KeysByService' /\ BusInv' /\ Stays
  BY <1>1, SameBus DEF AppsInv, KeysByService, Stays, appVars
<1>4. TaskInv'
  BY <1>1, <1>2 DEF AppsInv, TaskInv, Tasked, Actor, WatchPc, VanishPc
<1>5. LifeInv'
  BY <1>1, <1>2 DEF AppsInv, LifeInv, VanishPc, appVars
<1>6. FiledInv'
  BY <1>1, <1>2 DEF AppsInv, FiledInv, Live, Actor, regVars
<1> QED BY <1>3, <1>4, <1>5, <1>6

-----------------------------------------------------------------------------
(* The name watch. *)
LEMMA OwnerChangedApps ==
  ASSUME IdsApart, AppsInv, OwnerChanged
  PROVE  KeysByService' /\ BusInv' /\ TaskInv' /\ LifeInv' /\ FiledInv' /\ Stays
<1>1. /\ tray' = tray /\ UNCHANGED <<appVars, regVars, call, task, pc, gone>>
  BY DEF OwnerChanged, storeVars
<1>2. KeysByService' /\ Stays
  BY <1>1 DEF AppsInv, KeysByService, Stays
<1>3. nameEvents \in Seq(Name) /\ nameEvents # <<>> /\ nameEvents' = Tail(nameEvents)
  BY DEF OwnerChanged, AppsInv, DaemonInv, TypeOK
<1>4. Head(nameEvents) = nameEvents[1] /\ 1 \in DOMAIN nameEvents
  BY <1>3
<1>5. BusInv'
  <2>1. \A n \in DOMAIN nameEvents' : n + 1 \in DOMAIN nameEvents /\ nameEvents'[n] = nameEvents[n + 1]
    BY <1>3
  <2> QED BY <1>1, <2>1 DEF AppsInv, BusInv, appVars
<1>6. \A s \in exported : KeyOf(s) \notin doomed'
  <2> SUFFICES ASSUME NEW s \in exported, NEW i \in tray.items,
                      NameOf[i.service] = Head(nameEvents), i.key = KeyOf(s)
               PROVE  FALSE
    BY DEF OwnerChanged
  <2>1. i.service \in Service /\ s \in Service /\ i.key = KeyOf(i.service)
    BY DEF AppsInv, KeysByService, DaemonInv, WellFormed, TypeOK, Item
  <2>2. i.service = s
    BY <2>1, KeyOfService
  <2> QED BY <1>4, <2>2 DEF AppsInv, BusInv
<1>7. LifeInv'
  BY <1>1, <1>6 DEF AppsInv, LifeInv, appVars
<1>8. TaskInv' /\ FiledInv'
  BY <1>1 DEF AppsInv, TaskInv, Tasked, FiledInv, Live, regVars
<1> QED BY <1>2, <1>5, <1>7, <1>8

LEMMA NextDoomedApps ==
  ASSUME AppsInv, NextDoomed
  PROVE  KeysByService' /\ BusInv' /\ TaskInv' /\ LifeInv' /\ FiledInv' /\ Stays
<1>1. PICK k \in doomed : StartVanish(NameWatch, k) /\ doomed' = doomed \ {k}
  BY DEF NextDoomed
<1>2. /\ tray' = tray /\ UNCHANGED <<appVars, nameEvents, regVars, call, task>>
  BY DEF NextDoomed, storeVars
<1>3. /\ pc'[NameWatch] = "remove" /\ gone'[NameWatch] = k
      /\ \A a \in Actor \ {NameWatch} : pc'[a] = pc[a] /\ gone'[a] = gone[a]
  BY <1>1 DEF StartVanish, GoTo, AppsInv, DaemonInv, TypeOK, Actor
<1>4. \A c \in Call : pc'[c] = pc[c] /\ gone'[c] = gone[c]
  BY <1>3, DaemonAssumption DEF Actor
<1>5. KeysByService' /\ BusInv' /\ Stays
  BY <1>2, SameBus DEF AppsInv, KeysByService, Stays, appVars
<1>6. TaskInv' /\ FiledInv'
  BY <1>2, <1>4 DEF AppsInv, TaskInv, Tasked, FiledInv, Live, regVars
<1>7. LifeInv'
  BY <1>1, <1>2, <1>3 DEF AppsInv, LifeInv, appVars
<1> QED BY <1>5, <1>6, <1>7

-----------------------------------------------------------------------------
(* All of it together. *)
LEMMA VanishStepApps ==
  ASSUME IdsApart, AppsInv, NEW a \in Actor, VanishStep(a)
  PROVE  KeysByService' /\ BusInv' /\ TaskInv' /\ LifeInv' /\ FiledInv' /\ Stays
BY RemoveTaskApps, LookUpServiceApps, ApplyVanishedApps, EmitVanishedApps DEF VanishStep

LEMMA AppsStep ==
  ASSUME OnBusFirst, IdsApart, AppsInv, [Next]_vars
  PROVE  AppsInv' /\ Stays
<1>1. ASSUME AppStep
      PROVE  KeysByService' /\ BusInv' /\ TaskInv' /\ LifeInv' /\ FiledInv' /\ Stays
  <2>1. CASE \E n \in Name : Connect(n) \/ Exit(n)
    BY <2>1, ConnectApps, ExitApps
  <2>2. CASE \E s \in Service : Unexport(s)
    BY <2>2, UnexportApps
  <2>3. CASE \E s \in Service : \E p \in Speaks[s] : Change(s, p)
    BY <2>3, ChangeApps
  <2>4. CASE \E c \in Call : RegisterItem(c)
    BY <2>4, RegisterItemApps
  <2> QED BY <1>1, <2>1, <2>2, <2>3, <2>4 DEF AppStep
<1>2. ASSUME NEW c \in Call, RegisterStep(c)
      PROVE  KeysByService' /\ BusInv' /\ TaskInv' /\ LifeInv' /\ FiledInv' /\ Stays
  BY <1>2, FetchPropsApps, ApplyRegisteredApps, EmitRegisteredApps, SpawnTaskApps,
     InsertTaskApps DEF RegisterStep
<1>3. ASSUME NEW c \in Call, TaskStep(c)
      PROVE  KeysByService' /\ BusInv' /\ TaskInv' /\ LifeInv' /\ FiledInv' /\ Stays
  <2>1. c \in Actor
    BY DEF Actor
  <2> QED BY <1>3, <2>1, StartTaskApps, TakeSignalApps, RefreshPropsApps, ProbeApps,
             ApplyPropsApps, EmitPropsApps, CancelApps, VanishStepApps DEF TaskStep
<1>4. ASSUME NameWatchStep
      PROVE  KeysByService' /\ BusInv' /\ TaskInv' /\ LifeInv' /\ FiledInv' /\ Stays
  <2>1. NameWatch \in Actor
    BY DEF Actor
  <2> QED BY <1>4, <2>1, OwnerChangedApps, NextDoomedApps, VanishStepApps DEF NameWatchStep
<1>5. ASSUME UNCHANGED vars
      PROVE  KeysByService' /\ BusInv' /\ TaskInv' /\ LifeInv' /\ FiledInv' /\ Stays
  <2>1. UNCHANGED <<appVars, nameEvents, tray, regVars, call, task, pc, gone, doomed>>
    BY <1>5 DEF vars, storeVars
  <2>2. exported' \subseteq exported
    BY <2>1 DEF appVars
  <2> QED BY <2>1, <2>2, FewerAnswer, SameBus DEF appVars, regVars
<1>6. DaemonInv'
  BY NextKeeps DEF AppsInv
<1> QED BY <1>1, <1>2, <1>3, <1>4, <1>5, <1>6 DEF Next, AppsInv

LEMMA AppsInvariance ==
  ASSUME OnBusFirst, IdsApart
  PROVE  Spec => []AppsInv
<1>1. Init => AppsInv
  BY InitApps
<1>2. AppsInv /\ [Next]_vars => AppsInv'
  BY AppsStep
<1> QED BY <1>1, <1>2, PTL DEF Spec

(* Among applications with an id of their own that were on the bus before  *)
(* the daemon listened, neither way of LiveDropsExplained is open: the     *)
(* icon of an application that answers is never dropped, however calls,    *)
(* item tasks, probes and the name watch interleave (Registry::vanish_key, *)
(* vanish_bus_name).                                                       *)
THEOREM LiveIconsAreNeverDropped ==
  ASSUME OnBusFirst, IdsApart
  PROVE  Spec => LiveItemsStay
<1>1. ASSUME AppsInv, [Next]_vars
      PROVE  \A s \in exported : HasItem(tray, s) => HasItem(tray', s)
  <2>1. Stays
    BY <1>1, AppsStep
  <2>2. exported \subseteq Service
    BY <1>1 DEF AppsInv, DaemonInv, TypeOK
  <2> QED BY <1>1, <2>1, <2>2, PresentKeys DEF AppsInv, Stays
<1>2. AppsInv /\ [Next]_vars => [\A s \in exported : HasItem(tray, s) => HasItem(tray', s)]_vars
  BY <1>1
<1> QED BY <1>2, AppsInvariance, PTL DEF Spec, LiveItemsStay

LEMMA OneTaskOnly ==
  ASSUME IdsApart, AppsInv
  PROVE  OneTaskPerItem
<1> SUFFICES ASSUME Quiet, NEW c \in Call, pc[c] = "watching", task[c].service \in exported
             PROVE  \E i \in tray.items : WatchersOf(i) = {c}
  BY DEF OneTaskPerItem
<1>1. \A d \in Call : pc[d] \notin {"none", "done"} => pc[d] = "watching" /\ Live(d)
  BY DEF Quiet
<1>2. \A d \in Call : pc[d] = "watching" => /\ call[d].pc = "done" /\ Tasked(d)
                                            /\ tasks[KeyOf(Registers[d])] = d
  BY <1>1, RunningApps DEF Quiet, Registering, WatchPc, AppsInv, FiledInv
<1>3. task[c].service = Registers[c] /\ task[c].key = KeyOf(Registers[c]) /\ Registers[c] \in Service
  BY <1>2, DaemonAssumption DEF Tasked
<1>4. PICK i \in tray.items : i.service = Registers[c]
  BY <1>2, <1>3 DEF AppsInv, LifeInv, Present
<1>5. i.key = KeyOf(Registers[c])
  BY <1>4 DEF AppsInv, KeysByService
<1>6. c \in WatchersOf(i)
  BY <1>1, <1>3, <1>4, <1>5 DEF WatchersOf
<1>7. ASSUME NEW d \in WatchersOf(i)
      PROVE  d = c
  <2>1. d \in Call /\ pc[d] = "watching" /\ task[d].service = Registers[c]
    BY <1>1, <1>4 DEF WatchersOf
  <2>2. Registers[d] = Registers[c]
    BY <1>2, <2>1 DEF Tasked
  <2> QED BY <1>2, <2>1, <2>2
<1> QED BY <1>6, <1>7

(* "One task per registered item" (item.rs): once nobody is in the middle  *)
(* of anything, a task that watches something that answers watches an item,*)
(* and is the only one to watch that item.                                 *)
THEOREM OneTaskPerLiveItem ==
  ASSUME OnBusFirst, IdsApart
  PROVE  Spec => []OneTaskPerItem
<1>1. AppsInv => OneTaskPerItem
  BY OneTaskOnly
<1> QED BY <1>1, AppsInvariance, PTL

-----------------------------------------------------------------------------
(* What holds of all applications: which icons of applications that answer *)
(* are dropped, and which items are left unwatched.                        *)

(* A call has no task before it spawned one, which is at the service of    *)
(* the call; the task that is filed under a key is one with that key.      *)
OwnInv ==
  /\ \A c \in Call :
       /\ call[c].pc \in {"unused", "fetch", "apply", "emit", "key"} => pc[c] = "none"
       /\ call[c].pc = "insert" => pc[c] # "none"
       /\ pc[c] \in WatchPc \cup VanishPc => task[c].service = Registers[c]
       /\ pc[c] \in VanishPc => gone[c] = task[c].key
  /\ \A k \in Key : tasks[k] # NoTask =>
       tasks[k] \notin aborted /\ task[tasks[k]].key = k /\ pc[tasks[k]] # "none"

(* Who answers, or is known to the daemon, has got its name; a signal of a *)
(* name that was there before the daemon says that it is gone.             *)
KnownInv ==
  /\ \A s \in exported : names[NameOf[s]] = "owned"
  /\ \A n \in EarlyName : names[n] # "new"
  /\ \A m \in DOMAIN nameEvents : nameEvents[m] \in EarlyName => names[nameEvents[m]] = "gone"
  /\ \A c \in Call : call[c].pc # "unused" => names[NameOf[Registers[c]]] # "new"
  /\ \A i \in tray.items : names[NameOf[i.service]] # "new" /\ i.since <= tray.revision

Watches == WatchPc \cup {"remove"}

(* The item of service s under key k is about to get a task, has one, is   *)
(* about to be dropped, or a task of its own was aborted for another one.  *)
Guarded(k, s) ==
  \/ \E c \in Call : Registers[c] = s /\ call[c].pc \in {"emit", "key"}
  \/ \E c \in Call : /\ Registers[c] = s /\ call[c].pc = "insert"
                     /\ task[c].key = k /\ pc[c] \in Watches
  \/ \E a \in Actor : pc[a] \in {"lookup", "drop"} /\ gone[a] = k
  \/ /\ tasks[k] # NoTask
     /\ \/ Registers[tasks[k]] = s /\ pc[tasks[k]] \in Watches
        \/ \E d \in aborted : Registers[d] = s

GuardInv == \A i \in tray.items : Guarded(i.key, i.service)

AnyInv == DaemonInv /\ OwnInv /\ KnownInv /\ GuardInv

-----------------------------------------------------------------------------
(* What events do to the items. *)
Alike(i, j) == i.key = j.key /\ i.service = j.service /\ i.since = j.since

(* Every item was there before, with the same key and service.             *)
ItemsStay ==
  /\ tray'.revision \in Nat /\ tray.revision <= tray'.revision
  /\ \A j \in tray'.items : \E i \in tray.items : Alike(i, j)

LEMMA RegisterItems ==
  ASSUME DaemonInv, NEW s \in Service, NEW p \in Props, tray' = Register(tray, s, p).state
  PROVE  /\ tray'.revision = tray.revision + 1
         /\ \A j \in tray'.items : j \in tray.items \/ (j.service = s /\ j.since = tray.revision + 1)
         /\ \A t : HasItem(tray, t) => HasItem(tray', t)
<1> DEFINE kept == {i \in tray.items : i.service # s}
           item == [ since |-> tray.revision + 1,
                     key |-> AllocateKey(kept, Sanitize[PreferredName(p)]), service |-> s,
                     props |-> p, menu |-> NoMenu ]
<1>1. tray'.items = kept \cup {item} /\ tray'.revision = tray.revision + 1
  BY DEF Register, AnnounceItems, DaemonInv, WellFormed
<1>2. item.service = s /\ item.since = tray.revision + 1
  OBVIOUS
<1> HIDE DEF item
<1>3. \A j \in tray'.items : j \in tray.items \/ (j.service = s /\ j.since = tray.revision + 1)
  BY <1>1, <1>2
<1>4. ASSUME NEW t, HasItem(tray, t)
      PROVE  HasItem(tray', t)
  <2>1. PICK i \in tray.items : i.service = t
    BY <1>4 DEF HasItem
  <2>2. CASE t = s
    BY <1>1, <1>2, <2>2 DEF HasItem
  <2>3. CASE t # s
    BY <1>1, <2>1, <2>3 DEF HasItem
  <2> QED BY <2>2, <2>3
<1> QED BY <1>1, <1>3, <1>4

LEMMA VanishItems ==
  ASSUME DaemonInv, NEW k \in Key, tray' = Vanish(tray, k).state
  PROVE  /\ ItemsStay
         /\ \A i : i \in tray'.items <=> i \in tray.items /\ i.key # k
<1>1. tray.revision \in Nat
  BY DEF DaemonInv, WellFormed
<1>2. /\ tray'.revision \in Nat /\ tray.revision <= tray'.revision
      /\ \A i : i \in tray'.items <=> i \in tray.items /\ i.key # k
  <2>1. CASE HasKey(tray, k)
    <3>1. /\ tray'.items = {i \in tray.items : i.key # k}
          /\ tray'.revision = tray.revision + 1
      BY <2>1 DEF Vanish, AnnounceItems, DaemonInv, WellFormed
    <3> QED BY <1>1, <3>1
  <2>2. CASE ~HasKey(tray, k)
    BY <1>1, <2>2 DEF Vanish, NoEffect, HasKey
  <2> QED BY <2>1, <2>2
<1> QED BY <1>2 DEF ItemsStay, Alike

LEMMA UpdateItems ==
  ASSUME DaemonInv, NEW k \in Key, NEW p \in Props, tray' = UpdateProps(tray, k, p).state
  PROVE  ItemsStay /\ \A t : HasItem(tray, t) => HasItem(tray', t)
<1> DEFINE old == ItemAt(tray, k)
           new == [old EXCEPT !.props = p]
<1>1. tray.revision \in Nat
  BY DEF DaemonInv, WellFormed
<1>2. CASE HasKey(tray, k) /\ old.props # p
  <2>1. old \in tray.items
    BY <1>2, ItemAtIsItem
  <2>2. Alike(old, new)
    BY <2>1 DEF Alike, Item, DaemonInv, WellFormed
  <2>3. tray'.items = (tray.items \ {old}) \cup {new} /\ tray'.revision = tray.revision + 1
    BY <1>2 DEF UpdateProps, AnnounceItems, Replace, DaemonInv, WellFormed
  <2> HIDE DEF old, new
  <2>6. tray'.revision \in Nat /\ tray.revision <= tray'.revision
    BY <1>1, <2>3
  <2>4. \A j \in tray'.items : \E i \in tray.items : Alike(i, j)
    BY <2>1, <2>2, <2>3 DEF Alike
  <2>5. \A t : HasItem(tray, t) => HasItem(tray', t)
    BY <2>1, <2>2, <2>3 DEF Alike, HasItem
  <2> QED BY <2>4, <2>5, <2>6 DEF ItemsStay
<1>3. CASE ~ (HasKey(tray, k) /\ old.props # p)
  BY <1>1, <1>3 DEF UpdateProps, NoEffect, ItemsStay, Alike
<1> QED BY <1>2, <1>3

LEMMA SameItems ==
  ASSUME DaemonInv, tray' = tray
  PROVE  ItemsStay
BY DEF ItemsStay, Alike, DaemonInv, WellFormed

-----------------------------------------------------------------------------
(* The invariant, by what a step moves. *)
SameErrands ==
  \A c \in Call : task'[c].key = task[c].key /\ task'[c].service = task[c].service

OthersWait(a) == \A b \in Actor \ {a} : pc'[b] = pc[b] /\ gone'[b] = gone[b]

LEMMA SameBusKnown ==
  ASSUME DaemonInv, KnownInv, UNCHANGED <<names, exported, nameEvents>>,
         \A c \in Call : call'[c].pc # "unused" =>
           call[c].pc # "unused" \/ Registers[c] \in exported,
         ItemsStay
  PROVE  KnownInv'
<1>1. \A i \in tray'.items : i.since <= tray'.revision /\ names[NameOf[i.service]] # "new"
  <2> SUFFICES ASSUME NEW j \in tray'.items
               PROVE  j.since <= tray'.revision /\ names[NameOf[j.service]] # "new"
    OBVIOUS
  <2>1. PICK i \in tray.items : Alike(i, j)
    BY DEF ItemsStay
  <2>2. i.since <= tray.revision /\ names[NameOf[i.service]] # "new"
    BY DEF KnownInv
  <2>3. i.since \in Nat /\ tray.revision \in Nat
    BY DEF DaemonInv, WellFormed, Item
  <2> QED BY <2>1, <2>2, <2>3 DEF Alike, ItemsStay
<1> QED BY <1>1 DEF KnownInv

(* The same for a step after which everybody acts on what it did before.   *)
LEMMA NobodyMoves ==
  ASSUME AnyInv, UNCHANGED <<tray, tasks, aborted, pc, gone>>, SameErrands,
         \A c \in Call : call'[c].pc = call[c].pc \/ (call[c].pc = "unused" /\ call'[c].pc = "fetch")
  PROVE  OwnInv' /\ GuardInv'
<1>1. OwnInv'
  BY DEF AnyInv, OwnInv, SameErrands, DaemonInv, TypeOK
<1>2. \A k, s : Guarded(k, s) => Guarded(k, s)'
  BY DEF Guarded, SameErrands
<1> QED BY <1>1, <1>2 DEF AnyInv, GuardInv

(* A name changes hands.                                                   *)
LEMMA NameMoves ==
  ASSUME AnyInv, NEW n \in Name, NEW v \in {"owned", "gone"}, names' = [names EXCEPT ![n] = v],
         n \in EarlyName => v = "gone", nameEvents' = Append(nameEvents, n),
         \A s \in exported' : IF NameOf[s] = n THEN v = "owned" ELSE s \in exported,
         UNCHANGED <<tray, call>>
  PROVE  KnownInv'
<1>1. /\ names'[n] = v /\ v # "new" /\ \A m \in Name \ {n} : names'[m] = names[m]
  BY DEF AnyInv, DaemonInv, TypeOK
<1>2. \A s \in exported' : names'[NameOf[s]] = "owned"
  <2>1. \A s \in exported : NameOf[s] \in Name /\ names[NameOf[s]] = "owned"
    BY DaemonAssumption DEF AnyInv, KnownInv, DaemonInv, TypeOK
  <2> QED BY <1>1, <2>1
<1>3. \A m \in DOMAIN nameEvents' : nameEvents'[m] \in EarlyName => names'[nameEvents'[m]] = "gone"
  <2>1. nameEvents \in Seq(Name)
    BY DEF AnyInv, DaemonInv, TypeOK
  <2>2. \A m \in DOMAIN nameEvents' :
          \/ m \in DOMAIN nameEvents /\ nameEvents'[m] = nameEvents[m]
          \/ nameEvents'[m] = n
    BY <2>1
  <2>3. \A m \in DOMAIN nameEvents : nameEvents[m] \in Name
    BY <2>1
  <2> QED BY <1>1, <2>2, <2>3 DEF AnyInv, KnownInv
<1>4. \A m \in EarlyName : names'[m] # "new"
  BY <1>1, DaemonAssumption DEF AnyInv, KnownInv
<1>5. \A c \in Call : call[c].pc # "unused" => names'[NameOf[Registers[c]]] # "new"
  <2>1. \A c \in Call : NameOf[Registers[c]] \in Name
    BY DaemonAssumption
  <2> QED BY <1>1, <2>1 DEF AnyInv, KnownInv
<1>6. \A i \in tray.items : names'[NameOf[i.service]] # "new" /\ i.since <= tray.revision
  <2>1. \A i \in tray.items : NameOf[i.service] \in Name
    BY DaemonAssumption DEF AnyInv, DaemonInv, WellFormed, Item
  <2> QED BY <1>1, <2>1 DEF AnyInv, KnownInv
<1> QED BY <1>2, <1>3, <1>4, <1>5, <1>6 DEF KnownInv

LEMMA ConnectAny ==
  ASSUME AnyInv, NEW n \in Name, Connect(n)
  PROVE  OwnInv' /\ KnownInv' /\ GuardInv'
<1>1. OwnInv' /\ GuardInv'
  BY NobodyMoves DEF Connect, SameErrands, storeVars, regVars
<1>2. n \notin EarlyName
  BY DEF Connect, AnyInv, KnownInv
<1>3. \A s \in exported' : NameOf[s] # n => s \in exported
  BY DEF Connect
<1>4. KnownInv'
  BY <1>2, <1>3, NameMoves DEF Connect, storeVars
<1> QED BY <1>1, <1>4

LEMMA ExitAny ==
  ASSUME AnyInv, NEW n \in Name, Exit(n)
  PROVE  OwnInv' /\ KnownInv' /\ GuardInv'
<1>1. OwnInv' /\ GuardInv'
  BY NobodyMoves DEF Exit, SameErrands, storeVars, regVars
<1>2. \A s \in exported' : NameOf[s] # n /\ s \in exported
  BY DEF Exit
<1>3. KnownInv'
  BY <1>2, NameMoves DEF Exit, storeVars
<1> QED BY <1>1, <1>3

LEMMA AppStepAny ==
  ASSUME AnyInv, AppStep
  PROVE  OwnInv' /\ KnownInv' /\ GuardInv'
<1>1. CASE \E s \in Service : Unexport(s)
  <2>1. OwnInv' /\ GuardInv'
    BY <1>1, NobodyMoves DEF Unexport, SameErrands, storeVars, regVars
  <2>2. KnownInv'
    BY <1>1 DEF Unexport, AnyInv, KnownInv, storeVars
  <2> QED BY <2>1, <2>2
<1>2. ASSUME NEW s \in Service, NEW p \in Speaks[s], Change(s, p)
      PROVE  OwnInv' /\ KnownInv' /\ GuardInv'
  <2>1. SameErrands
    <3> SUFFICES ASSUME NEW c \in Call
                 PROVE  task'[c].key = task[c].key /\ task'[c].service = task[c].service
      BY DEF SameErrands
    <3> DEFINE signalled == task[c].signalled \/ task[c].follows = s
    <3>1. task'[c] = [task[c] EXCEPT !.signalled = signalled] /\ task[c] \in ItemTask
      BY <1>2 DEF Change, AnyInv, DaemonInv, TypeOK
    <3> HIDE DEF signalled
    <3> QED BY <3>1 DEF ItemTask
  <2>2. OwnInv' /\ GuardInv'
    BY <1>2, <2>1, NobodyMoves DEF Change, storeVars, regVars
  <2>3. KnownInv'
    BY <1>2 DEF Change, AnyInv, KnownInv, storeVars
  <2> QED BY <2>2, <2>3
<1>3. ASSUME NEW c \in Call, RegisterItem(c)
      PROVE  OwnInv' /\ KnownInv' /\ GuardInv'
  <2>1. /\ call[c].pc = "unused" /\ call'[c].pc = "fetch"
        /\ \A d \in Call \ {c} : call'[d] = call[d]
        /\ Registers[c] \in exported
    BY <1>3 DEF RegisterItem, CallGoesTo, AnyInv, DaemonInv, TypeOK, CallState
  <2>2. OwnInv' /\ GuardInv'
    BY <1>3, <2>1, NobodyMoves DEF RegisterItem, SameErrands, storeVars, regVars
  <2>3. KnownInv'
    BY <1>3, <2>1, SameItems, SameBusKnown DEF RegisterItem, AnyInv, appVars, storeVars
  <2> QED BY <2>2, <2>3
<1> QED BY <1>1, <1>2, <1>3, ConnectAny, ExitAny DEF AppStep

-----------------------------------------------------------------------------
(* Registration calls. *)
LEMMA FetchOrEmitAny ==
  ASSUME AnyInv, NEW c \in Call, FetchProps(c) \/ EmitRegistered(c)
  PROVE  OwnInv' /\ KnownInv' /\ GuardInv'
<1>1. /\ UNCHANGED <<names, exported, nameEvents, tray, tasks, aborted, task, pc, gone>>
      /\ \A d \in Call \ {c} : call'[d] = call[d]
      /\ \/ call[c].pc = "fetch" /\ call'[c].pc \in {"apply", "done"}
         \/ call[c].pc = "emit" /\ call'[c].pc = "key"
  <2>1. call[c] \in CallState
    BY DEF AnyInv, DaemonInv, TypeOK
  <2> QED BY <2>1 DEF FetchProps, EmitRegistered, Emit, CallGoesTo, AnyInv, DaemonInv, TypeOK,
                      CallState, appVars, storeVars, regVars
<1>2. OwnInv'
  BY <1>1 DEF AnyInv, OwnInv
<1>3. GuardInv'
  <2>1. \A k, s : Guarded(k, s) => Guarded(k, s)'
    BY <1>1 DEF Guarded
  <2> QED BY <1>1, <2>1 DEF AnyInv, GuardInv
<1>4. KnownInv'
  BY <1>1, SameItems, SameBusKnown DEF AnyInv
<1> QED BY <1>2, <1>3, <1>4

LEMMA ApplyRegisteredAny ==
  ASSUME AnyInv, NEW c \in Call, ApplyRegistered(c)
  PROVE  OwnInv' /\ KnownInv' /\ GuardInv'
<1>1. /\ UNCHANGED <<names, exported, nameEvents, tasks, aborted, task, pc, gone>>
      /\ \A d \in Call \ {c} : call'[d] = call[d]
      /\ call[c].pc = "apply" /\ call'[c].pc = "emit"
  BY DEF ApplyRegistered, AnyInv, DaemonInv, TypeOK, CallState, appVars, regVars
<1>2. /\ tray'.revision = tray.revision + 1 /\ tray.revision \in Nat
      /\ \A j \in tray'.items :
           j \in tray.items \/ (j.service = Registers[c] /\ j.since = tray.revision + 1)
  <2>1. Registers[c] \in Service /\ call[c].props \in Props
    BY DaemonAssumption DEF ApplyRegistered, AnyInv, DaemonInv, Holding
  <2>2. tray' = Register(tray, Registers[c], call[c].props).state
    BY DEF ApplyRegistered, Fold
  <2> QED BY <2>1, <2>2, RegisterItems DEF AnyInv, DaemonInv, WellFormed
<1>3. OwnInv'
  BY <1>1 DEF AnyInv, OwnInv
<1>4. GuardInv'
  <2>1. \A k, s : Guarded(k, s) => Guarded(k, s)'
    BY <1>1 DEF Guarded
  <2>2. \A k : Guarded(k, Registers[c])'
    BY <1>1 DEF Guarded
  <2> QED BY <1>2, <2>1, <2>2 DEF AnyInv, GuardInv
<1>5. KnownInv'
  <2>1. \A i \in tray.items : i.since \in Nat /\ i.since <= tray.revision
    BY DEF AnyInv, KnownInv, DaemonInv, WellFormed, Item
  <2>2. \A i \in tray.items : i.since <= tray.revision + 1
    BY <1>2, <2>1
  <2>3. \A j \in tray'.items : j.since <= tray'.revision
    BY <1>2, <2>2
  <2>4. \A j \in tray'.items : names[NameOf[j.service]] # "new"
    BY <1>1, <1>2 DEF AnyInv, KnownInv
  <2> QED BY <1>1, <2>3, <2>4 DEF AnyInv, KnownInv
<1> QED BY <1>3, <1>4, <1>5

LEMMA SpawnTaskAny ==
  ASSUME AnyInv, NEW c \in Call, SpawnTask(c)
  PROVE  OwnInv' /\ KnownInv' /\ GuardInv'
<1>1. /\ UNCHANGED <<names, exported, nameEvents, tray, tasks, aborted, gone>>
      /\ call[c].pc = "key" /\ c \in Actor /\ pc[c] = "none"
      /\ \A d \in Call \ {c} : call'[d] = call[d] /\ task'[d] = task[d]
      /\ \A a \in Actor \ {c} : pc'[a] = pc[a]
  BY DEF SpawnTask, CallGoesTo, AnyInv, OwnInv, DaemonInv, TypeOK, Actor, appVars, storeVars, regVars
<1>2. c \notin aborted /\ \A k \in Key : tasks[k] # c
  BY <1>1, DaemonAssumption DEF AnyInv, DaemonInv, Filed
<1>3. \/ \E i \in tray.items :
           /\ i.service = Registers[c] /\ call'[c].pc = "insert" /\ pc'[c] = "start"
           /\ task'[c].key = i.key /\ task'[c].service = Registers[c]
      \/ /\ \A i \in tray.items : i.service # Registers[c]
         /\ call'[c].pc = "done" /\ pc'[c] = "none" /\ task' = task
  <2>1. call \in [Call -> CallState] /\ task \in [Call -> ItemTask] /\ pc \in [Actor -> TaskPc]
    BY DEF AnyInv, DaemonInv, TypeOK
  <2>2. ASSUME NEW i \in tray.items, i.service = Registers[c],
               task' = [task EXCEPT ![c] = [NoItemTask EXCEPT !.key = i.key,
                                                             !.service = Registers[c]]],
               pc' = [pc EXCEPT ![c] = "start"], CallGoesTo(c, "insert")
        PROVE  /\ call'[c].pc = "insert" /\ pc'[c] = "start"
               /\ task'[c].key = i.key /\ task'[c].service = Registers[c]
    <3>1. task'[c] = [NoItemTask EXCEPT !.key = i.key, !.service = Registers[c]]
      BY <2>1, <2>2
    <3>2. task'[c].key = i.key /\ task'[c].service = Registers[c]
      BY <3>1 DEF NoItemTask
    <3> QED BY <1>1, <2>1, <2>2, <3>2 DEF CallGoesTo, CallState
  <2>3. CallGoesTo(c, "done") => call'[c].pc = "done"
    BY <2>1 DEF CallGoesTo, CallState
  <2> QED BY <1>1, <2>2, <2>3 DEF SpawnTask
<1>4. OwnInv'
  <2>1. \A d \in Call : d \in Actor
    BY DEF Actor
  <2> QED BY <1>1, <1>2, <1>3, <2>1 DEF AnyInv, OwnInv, DaemonInv, TypeOK, WatchPc, VanishPc
<1>5. GuardInv'
  <2> SUFFICES ASSUME NEW i \in tray.items
               PROVE  Guarded(i.key, i.service)'
    BY <1>1 DEF GuardInv
  <2>1. Guarded(i.key, i.service)
    BY DEF AnyInv, GuardInv
  <2>2. CASE i.service = Registers[c]
    <3>1. call'[c].pc = "insert" /\ pc'[c] = "start" /\ task'[c].key = i.key
      BY <1>3, <2>2 DEF AnyInv, DaemonInv, WellFormed
    <3> QED BY <2>2, <3>1 DEF Guarded, Watches, WatchPc
  <2>3. CASE i.service # Registers[c]
    <3>1. i.key \in Key
      BY DEF AnyInv, DaemonInv, WellFormed, Item
    <3> QED BY <1>1, <1>2, <2>1, <2>3, <3>1 DEF Guarded, Watches, WatchPc, Actor, AnyInv,
                                                DaemonInv, TypeOK
  <2> QED BY <2>2, <2>3
<1>6. KnownInv'
  BY <1>1, SameItems, SameBusKnown DEF AnyInv
<1> QED BY <1>4, <1>5, <1>6

LEMMA InsertTaskAny ==
  ASSUME AnyInv, NEW c \in Call, InsertTask(c)
  PROVE  OwnInv' /\ KnownInv' /\ GuardInv'
<1> DEFINE key == task[c].key
           previous == tasks[key]
<1>1. /\ UNCHANGED <<names, exported, nameEvents, tray, task, pc, gone>>
      /\ call[c].pc = "insert" /\ call'[c].pc = "done" /\ key \in Key
      /\ \A d \in Call \ {c} : call'[d] = call[d]
      /\ tasks'[key] = c /\ \A k \in Key \ {key} : tasks'[k] = tasks[k]
      /\ aborted' = aborted \cup ({previous} \ {NoTask})
  BY DEF InsertTask, CallGoesTo, AnyInv, DaemonInv, Holding, TypeOK, CallState, appVars, storeVars
<1>2. /\ c \notin aborted /\ c # NoTask /\ \A k \in Key : tasks[k] # c
      /\ \A k \in Key : k # key /\ tasks[k] # NoTask => tasks[k] # previous
  BY <1>1, DaemonAssumption DEF AnyInv, OwnInv, DaemonInv, Filed
<1> HIDE DEF key, previous
<1>3. OwnInv'
  <2>1. \A d \in Call : call[d].pc # call'[d].pc => d = c
    BY <1>1
  <2>2. ASSUME NEW k \in Key, tasks'[k] # NoTask
        PROVE  tasks'[k] \notin aborted' /\ task[tasks'[k]].key = k /\ pc[tasks'[k]] # "none"
    <3>1. CASE k = key
      BY <1>1, <1>2, <3>1 DEF AnyInv, OwnInv, key, previous
    <3>2. CASE k # key
      BY <1>1, <1>2, <2>2, <3>2 DEF AnyInv, OwnInv
    <3> QED BY <3>1, <3>2
  <2> QED BY <1>1, <2>1, <2>2 DEF AnyInv, OwnInv
<1>4. GuardInv'
  <2> SUFFICES ASSUME NEW i \in tray.items
               PROVE  Guarded(i.key, i.service)'
    BY <1>1 DEF GuardInv
  <2>1. Guarded(i.key, i.service) /\ i.key \in Key
    BY DEF AnyInv, GuardInv, DaemonInv, WellFormed, Item
  <2>2. CASE i.key # key
    BY <1>1, <2>1, <2>2 DEF Guarded, key
  <2>3. CASE i.key = key /\ previous # NoTask /\ tasks[key] = previous
    BY <1>1, <1>2, <2>1, <2>3 DEF Guarded
  <2>4. CASE i.key = key /\ previous = NoTask /\ tasks[key] = previous
    BY <1>1, <1>2, <2>1, <2>4 DEF Guarded
  <2> QED BY <2>2, <2>3, <2>4 DEF previous
<1>5. KnownInv'
  BY <1>1, SameItems, SameBusKnown DEF AnyInv
<1> QED BY <1>3, <1>4, <1>5

LEMMA RegisterStepAny ==
  ASSUME AnyInv, NEW c \in Call, RegisterStep(c)
  PROVE  OwnInv' /\ KnownInv' /\ GuardInv'
BY FetchOrEmitAny, ApplyRegisteredAny, SpawnTaskAny, InsertTaskAny DEF RegisterStep

-----------------------------------------------------------------------------
(* Registry::vanish_key. *)
LEMMA RemoveTaskAny ==
  ASSUME AnyInv, NEW a \in Actor, RemoveTask(a)
  PROVE  OwnInv' /\ KnownInv' /\ GuardInv'
<1>1. /\ UNCHANGED <<names, exported, nameEvents, tray, task, gone, call>>
      /\ pc[a] = "remove" /\ pc'[a] = "lookup" /\ \A b \in Actor \ {a} : pc'[b] = pc[b]
      /\ gone[a] \in Key
      /\ tasks'[gone[a]] = NoTask /\ \A k \in Key \ {gone[a]} : tasks'[k] = tasks[k]
      /\ aborted' = aborted \cup ({tasks[gone[a]]} \ {NoTask})
  BY DEF RemoveTask, GoTo, AnyInv, DaemonInv, Holding, TypeOK, VanishPc, appVars, storeVars
<1>2. \A c \in Call : c \in Actor
  BY DEF Actor
<1>3. \A k \in Key : k # gone[a] /\ tasks[k] # NoTask => tasks[k] # tasks[gone[a]]
  BY <1>1 DEF AnyInv, OwnInv
<1>4. \A k \in Key : tasks[k] # NoTask => tasks[k] \in Call
  BY DEF AnyInv, DaemonInv, TypeOK
<1>5. OwnInv'
  <2>1. ASSUME NEW k \in Key, tasks'[k] # NoTask
        PROVE  tasks'[k] \notin aborted' /\ task[tasks'[k]].key = k /\ pc'[tasks'[k]] # "none"
    <3>1. k # gone[a] /\ tasks'[k] = tasks[k] /\ tasks[k] # NoTask
      BY <1>1, <2>1
    <3>2. tasks[k] \in Actor /\ pc[tasks[k]] # "none" /\ tasks[k] \notin aborted /\ task[tasks[k]].key = k
      BY <1>2, <1>4, <3>1 DEF AnyInv, OwnInv
    <3> QED BY <1>1, <1>3, <3>1, <3>2
  <2>2. \A c \in Call : /\ pc'[c] = "none" <=> pc[c] = "none"
                        /\ pc'[c] \in VanishPc <=> pc[c] \in VanishPc
                        /\ pc'[c] \in WatchPc <=> pc[c] \in WatchPc
    BY <1>1, <1>2 DEF VanishPc, WatchPc
  <2> QED BY <1>1, <2>1, <2>2 DEF AnyInv, OwnInv
<1>6. GuardInv'
  <2> SUFFICES ASSUME NEW i \in tray.items
               PROVE  Guarded(i.key, i.service)'
    BY <1>1 DEF GuardInv
  <2>1. Guarded(i.key, i.service) /\ i.key \in Key
    BY DEF AnyInv, GuardInv, DaemonInv, WellFormed, Item
  <2>2. CASE gone[a] = i.key
    BY <1>1, <2>2 DEF Guarded
  <2>3. CASE gone[a] # i.key
    <3>1. ASSUME NEW c \in Call, pc[c] \in Watches, task[c].key = i.key
          PROVE  pc'[c] \in Watches
      BY <1>1, <1>2, <2>3, <3>1 DEF AnyInv, OwnInv, VanishPc
    <3>2. tasks[i.key] # NoTask => tasks[i.key] \in Call /\ task[tasks[i.key]].key = i.key
      BY <1>4, <2>1 DEF AnyInv, OwnInv
    <3> QED BY <1>1, <2>1, <2>3, <3>1, <3>2 DEF Guarded
  <2> QED BY <2>2, <2>3
<1>7. KnownInv'
  BY <1>1, SameItems, SameBusKnown DEF AnyInv
<1> QED BY <1>5, <1>6, <1>7

(* A later step of a.                                                      *)
LEMMA DroppingAny ==
  ASSUME AnyInv, NEW a \in Actor,
         LookUpService(a) \/ ApplyVanished(a) \/ EmitVanished(a)
  PROVE  OwnInv' /\ KnownInv' /\ GuardInv'
<1>1. /\ UNCHANGED <<names, exported, nameEvents, tasks, aborted, task, call>>
      /\ pc[a] \in {"lookup", "drop", "tell"} /\ gone[a] \in Key
      /\ OthersWait(a)
      /\ \/ pc'[a] \in {"drop", "tell"} /\ gone'[a] = gone[a]
         \/ pc'[a] = IF a = NameWatch THEN "none" ELSE "done"
  BY DEF LookUpService, ApplyVanished, EmitVanished, Emit, GoTo, EndVanish, OthersWait, AnyInv,
         DaemonInv, Holding, TypeOK, VanishPc, appVars, storeVars, regVars
<1>2. ItemsStay /\ \A i \in tray'.items : i \in tray.items
  <2>1. CASE ApplyVanished(a)
    BY <1>1, <2>1, VanishItems DEF ApplyVanished, Fold, AnyInv
  <2>2. CASE tray' = tray
    BY <2>2, SameItems DEF AnyInv
  <2> QED BY <2>1, <2>2 DEF LookUpService, EmitVanished, Emit, storeVars
<1>3. \A c \in Call : c \in Actor /\ c # NameWatch
  BY DaemonAssumption DEF Actor
<1>4. \A k \in Key : tasks[k] # NoTask => tasks[k] \in Call
  BY DEF AnyInv, DaemonInv, TypeOK
<1>5. OwnInv'
  <2>1. \A c \in Call : /\ pc'[c] = "none" <=> pc[c] = "none"
                        /\ pc'[c] \in VanishPc => pc[c] \in VanishPc /\ gone'[c] = gone[c]
                        /\ pc'[c] \in WatchPc <=> pc[c] \in WatchPc
    BY <1>1, <1>3 DEF VanishPc, WatchPc, OthersWait
  <2> QED BY <1>1, <1>4, <2>1 DEF AnyInv, OwnInv
<1>6. GuardInv'
  <2> SUFFICES ASSUME NEW i \in tray'.items
               PROVE  Guarded(i.key, i.service)'
    BY DEF GuardInv
  <2>1. i \in tray.items /\ Guarded(i.key, i.service) /\ i.key \in Key
    BY <1>2 DEF AnyInv, GuardInv, DaemonInv, WellFormed, Item
  <2>2. gone[a] = i.key /\ pc[a] \in {"lookup", "drop"} => pc'[a] = "drop" /\ gone'[a] = gone[a]
    <3>1. ASSUME gone[a] = i.key, LookUpService(a)
          PROVE  pc'[a] = "drop" /\ gone'[a] = gone[a]
      BY <2>1, <3>1 DEF LookUpService, GoTo, HasKey, AnyInv, DaemonInv, TypeOK
    <3>2. ASSUME gone[a] = i.key, ApplyVanished(a)
          PROVE  FALSE
      BY <1>1, <3>2, VanishItems DEF ApplyVanished, Fold, AnyInv
    <3>3. EmitVanished(a) => pc[a] = "tell"
      BY DEF EmitVanished
    <3> QED BY <3>1, <3>2, <3>3
  <2>3. \A c \in Call : pc[c] \in Watches => pc'[c] = pc[c]
    BY <1>1, <1>3 DEF Watches, WatchPc, OthersWait
  <2>4. \A b \in Actor : pc[b] \in {"lookup", "drop"} /\ gone[b] = i.key =>
          pc'[b] \in {"lookup", "drop"} /\ gone'[b] = i.key
    BY <1>1, <2>2 DEF OthersWait
  <2> QED BY <1>1, <1>4, <2>1, <2>3, <2>4 DEF Guarded
<1>7. KnownInv'
  BY <1>1, <1>2, SameBusKnown DEF AnyInv
<1> QED BY <1>5, <1>6, <1>7

LEMMA VanishStepAny ==
  ASSUME AnyInv, NEW a \in Actor, VanishStep(a)
  PROVE  OwnInv' /\ KnownInv' /\ GuardInv'
BY RemoveTaskAny, DroppingAny DEF VanishStep

-----------------------------------------------------------------------------
(* Item tasks. *)

(* What a task does that is not dropping its item: it goes on watching, or *)
(* sets out to drop a key that nobody has or whose service does not answer.*)
Walks(c) ==
  /\ pc[c] \in WatchPc /\ OthersWait(c) /\ SameErrands /\ ItemsStay
  /\ UNCHANGED <<names, exported, nameEvents, tasks, aborted, call, doomed>>
  /\ \/ pc'[c] \in WatchPc
     \/ /\ pc'[c] = "remove" /\ gone'[c] = task[c].key /\ tray' = tray
        /\ ~HasKey(tray, task[c].key) \/ task[c].service \notin exported

LEMMA TaskWalks ==
  ASSUME DaemonInv, NEW c \in Call,
         StartTask(c) \/ TakeSignal(c) \/ RefreshProps(c) \/ Probe(c) \/ ApplyProps(c) \/ EmitProps(c)
  PROVE  Walks(c) /\ \A t : HasItem(tray, t) => HasItem(tray', t)
<1>1. c \in Actor /\ task \in [Call -> ItemTask] /\ pc \in [Actor -> TaskPc]
      /\ gone \in [Actor -> Key \cup {NoKey}]
  BY DEF Actor, DaemonInv, TypeOK
<1>2. pc[c] \in WatchPc /\ UNCHANGED <<names, exported, nameEvents, tasks, aborted, call, doomed>>
  BY DEF StartTask, TakeSignal, RefreshProps, Probe, ApplyProps, EmitProps, WatchPc, appVars, regVars
<1>3. SameErrands
  BY <1>1 DEF StartTask, TakeSignal, RefreshProps, Probe, ReadProps, ApplyProps, EmitProps,
              SameErrands, ItemTask
<1>4. ItemsStay /\ (ApplyProps(c) \/ tray' = tray) /\ \A t : HasItem(tray, t) => HasItem(tray', t)
  <2>1. CASE ApplyProps(c)
    <3>1. task[c].key \in Key /\ task[c].props \in Props
      BY <2>1 DEF ApplyProps, DaemonInv, Holding, WatchPc
    <3>2. tray' = UpdateProps(tray, task[c].key, task[c].props).state
      BY <2>1 DEF ApplyProps, Fold
    <3> QED BY <2>1, <3>1, <3>2, UpdateItems
  <2>2. CASE tray' = tray
    BY <2>2, SameItems DEF HasItem
  <2> QED BY <2>1, <2>2 DEF StartTask, TakeSignal, RefreshProps, Probe, EmitProps, Emit, storeVars
<1>5. OthersWait(c) /\ \/ pc'[c] \in WatchPc
                       \/ /\ pc'[c] = "remove" /\ gone'[c] = task[c].key
                          /\ tray' = tray
                          /\ ~HasKey(tray, task[c].key) \/ task[c].service \notin exported
  <2>1. ASSUME NEW label \in WatchPc, GoTo(c, label), UNCHANGED gone
        PROVE  OthersWait(c) /\ pc'[c] \in WatchPc
    BY <1>1, <2>1 DEF GoTo, OthersWait
  <2>2. ASSUME StartVanish(c, task[c].key)
        PROVE  OthersWait(c) /\ pc'[c] = "remove" /\ gone'[c] = task[c].key
    BY <1>1, <2>2 DEF StartVanish, GoTo, OthersWait
  <2>3. ASSUME UNCHANGED <<pc, gone>>
        PROVE  OthersWait(c) /\ pc'[c] \in WatchPc
    BY <1>2, <2>3 DEF OthersWait
  <2>4. {"watching", "refresh", "apply", "emit"} \subseteq WatchPc
    BY DEF WatchPc
  <2>5. CASE StartTask(c)
    BY <2>1, <2>2, <2>4, <2>5 DEF StartTask, storeVars
  <2>6. CASE TakeSignal(c) \/ EmitProps(c)
    BY <2>1, <2>4, <2>6 DEF TakeSignal, EmitProps
  <2>7. CASE RefreshProps(c)
    BY <2>1, <2>2, <2>4, <2>7 DEF RefreshProps, ReadProps, storeVars
  <2>8. CASE Probe(c)
    BY <2>1, <2>2, <2>3, <2>4, <2>8 DEF Probe, ReadProps, storeVars
  <2>9. CASE ApplyProps(c)
    <3> DEFINE label == IF UpdateProps(tray, task[c].key, task[c].props).effects = <<>>
                        THEN "watching" ELSE "emit"
    <3>1. GoTo(c, label) /\ UNCHANGED gone /\ label \in WatchPc
      BY <2>4, <2>9 DEF ApplyProps
    <3> HIDE DEF label
    <3> QED BY <2>1, <3>1
  <2> QED BY <2>5, <2>6, <2>7, <2>8, <2>9
<1> QED BY <1>2, <1>3, <1>4, <1>5 DEF Walks

LEMMA WalkingAny ==
  ASSUME AnyInv, NEW c \in Call, Walks(c)
  PROVE  OwnInv' /\ KnownInv' /\ GuardInv'
<1>1. /\ UNCHANGED <<names, exported, nameEvents, tasks, aborted, call>>
      /\ pc[c] \in WatchPc /\ pc'[c] \in Watches /\ (pc'[c] \in VanishPc => gone'[c] = task[c].key)
      /\ \A b \in Actor \ {c} : pc'[b] = pc[b] /\ gone'[b] = gone[b]
      /\ \A d \in Call : task'[d].key = task[d].key /\ task'[d].service = task[d].service
  BY DEF Walks, OthersWait, SameErrands, Watches, WatchPc, VanishPc
<1>2. \A d \in Call : d \in Actor
  BY DEF Actor
<1>3. \A k \in Key : tasks[k] # NoTask => tasks[k] \in Call
  BY DEF AnyInv, DaemonInv, TypeOK
<1>4. OwnInv'
  BY <1>1, <1>2, <1>3 DEF AnyInv, OwnInv, Watches, WatchPc, VanishPc
<1>5. GuardInv'
  <2> SUFFICES ASSUME NEW j \in tray'.items
               PROVE  Guarded(j.key, j.service)'
    BY DEF GuardInv
  <2>1. PICK i \in tray.items : Alike(i, j)
    BY DEF Walks, ItemsStay
  <2>2. Guarded(j.key, j.service) /\ j.key \in Key
    BY <2>1 DEF AnyInv, GuardInv, Alike, DaemonInv, WellFormed, Item
  <2>3. \A d \in Call : pc[d] \in Watches => pc'[d] \in Watches
    BY <1>1, <1>2
  <2>4. \A b \in Actor : pc[b] \in {"lookup", "drop"} => pc'[b] = pc[b] /\ gone'[b] = gone[b]
    BY <1>1 DEF WatchPc
  <2> QED BY <1>1, <1>3, <2>2, <2>3, <2>4 DEF Guarded
<1>6. KnownInv'
  BY <1>1, SameBusKnown DEF AnyInv, Walks
<1> QED BY <1>4, <1>5, <1>6

LEMMA CancelAny ==
  ASSUME AnyInv, NEW c \in Call, Cancel(c)
  PROVE  OwnInv' /\ KnownInv' /\ GuardInv'
<1>1. /\ UNCHANGED <<names, exported, nameEvents, tray, tasks, aborted, call>>
      /\ c \in aborted /\ c \in Actor /\ pc'[c] = "done" /\ pc[c] \notin {"none", "lookup", "drop"}
      /\ OthersWait(c) /\ \A d \in Call \ {c} : task'[d] = task[d]
  BY DEF Cancel, Live, Actor, OthersWait, AnyInv, DaemonInv, TypeOK, appVars, storeVars, regVars
<1>2. /\ \A d \in Call : d \in Actor
      /\ \A k \in Key : tasks[k] # NoTask => tasks[k] \in Call /\ tasks[k] # c
      /\ call[c].pc = "done"
  BY <1>1 DEF Actor, AnyInv, OwnInv, DaemonInv, Filed, TypeOK
<1>3. OwnInv'
  BY <1>1, <1>2 DEF AnyInv, OwnInv, OthersWait, WatchPc, VanishPc
<1>4. GuardInv'
  <2>1. ASSUME NEW i \in tray.items
        PROVE  Guarded(i.key, i.service)'
    <3>1. Guarded(i.key, i.service) /\ i.key \in Key
      BY DEF AnyInv, GuardInv, DaemonInv, WellFormed, Item
    <3> QED BY <1>1, <1>2, <3>1 DEF Guarded, OthersWait
  <2> QED BY <1>1, <2>1 DEF GuardInv
<1>5. KnownInv'
  BY <1>1, SameItems, SameBusKnown DEF AnyInv
<1> QED BY <1>3, <1>4, <1>5

LEMMA TaskStepAny ==
  ASSUME AnyInv, NEW c \in Call, TaskStep(c)
  PROVE  OwnInv' /\ KnownInv' /\ GuardInv'
<1>1. c \in Actor
  BY DEF Actor
<1>2. CASE \/ StartTask(c) \/ TakeSignal(c) \/ RefreshProps(c) \/ Probe(c)
           \/ ApplyProps(c) \/ EmitProps(c)
  BY <1>2, TaskWalks, WalkingAny DEF AnyInv
<1> QED BY <1>1, <1>2, CancelAny, VanishStepAny DEF TaskStep

-----------------------------------------------------------------------------
(* The name watch. *)
LEMMA NameWatchStepAny ==
  ASSUME AnyInv, NameWatchStep
  PROVE  OwnInv' /\ KnownInv' /\ GuardInv'
<1>1. NameWatch \in Actor /\ NameWatch \notin Call /\ \A c \in Call : c \in Actor
  BY DaemonAssumption DEF Actor
<1>2. CASE OwnerChanged
  <2>1. OwnInv' /\ GuardInv'
    BY <1>2, NobodyMoves DEF OwnerChanged, SameErrands, storeVars, regVars
  <2>2. \A m \in DOMAIN nameEvents' : \E n \in DOMAIN nameEvents : nameEvents'[m] = nameEvents[n]
    <3>1. nameEvents \in Seq(Name) /\ nameEvents # <<>> /\ nameEvents' = Tail(nameEvents)
      BY <1>2 DEF OwnerChanged, AnyInv, DaemonInv, TypeOK
    <3>2. \A m \in DOMAIN nameEvents' : m + 1 \in DOMAIN nameEvents /\ nameEvents'[m] = nameEvents[m + 1]
      BY <3>1
    <3> QED BY <3>2
  <2>3. KnownInv'
    BY <1>2, <2>2 DEF OwnerChanged, AnyInv, KnownInv, appVars, storeVars
  <2> QED BY <2>1, <2>3
<1>3. CASE NextDoomed
  <2>1. /\ UNCHANGED <<names, exported, nameEvents, tray, tasks, aborted, call, task>>
        /\ pc[NameWatch] = "none" /\ OthersWait(NameWatch)
    BY <1>1, <1>3 DEF NextDoomed, StartVanish, GoTo, OthersWait, AnyInv, DaemonInv, TypeOK,
                      appVars, storeVars, regVars
  <2>2. \A k \in Key : tasks[k] # NoTask => tasks[k] \in Call
    BY DEF AnyInv, DaemonInv, TypeOK
  <2>3. OwnInv'
    BY <1>1, <2>1, <2>2 DEF AnyInv, OwnInv, OthersWait
  <2>4. GuardInv'
    <3>1. ASSUME NEW i \in tray.items
          PROVE  Guarded(i.key, i.service)'
      <4>1. Guarded(i.key, i.service) /\ i.key \in Key
        BY DEF AnyInv, GuardInv, DaemonInv, WellFormed, Item
      <4> QED BY <1>1, <2>1, <2>2, <4>1 DEF Guarded, OthersWait
    <3> QED BY <2>1, <3>1 DEF GuardInv
  <2>5. KnownInv'
    BY <2>1, SameItems, SameBusKnown DEF AnyInv
  <2> QED BY <2>3, <2>4, <2>5
<1> QED BY <1>1, <1>2, <1>3, VanishStepAny DEF NameWatchStep

LEMMA AnyStep == AnyInv /\ [Next]_vars => AnyInv'
<1> SUFFICES ASSUME AnyInv, [Next]_vars PROVE AnyInv'
  OBVIOUS
<1>1. DaemonInv'
  BY NextKeeps DEF AnyInv
<1>2. CASE UNCHANGED vars
  <2>1. OwnInv' /\ GuardInv'
    BY <1>2, NobodyMoves DEF vars, SameErrands, storeVars, regVars
  <2>2. KnownInv'
    BY <1>2, SameItems, SameBusKnown DEF vars, appVars, storeVars, AnyInv
  <2> QED BY <1>1, <2>1, <2>2 DEF AnyInv
<1> QED BY <1>1, <1>2, AppStepAny, RegisterStepAny, TaskStepAny, NameWatchStepAny DEF Next, AnyInv

LEMMA InitAny == Init => AnyInv
<1> SUFFICES ASSUME Init PROVE AnyInv
  OBVIOUS
<1>1. \A c \in Call : c \in Actor
  BY DEF Actor
<1>2. OwnInv
  BY <1>1 DEF Init, OwnInv, WatchPc, VanishPc
<1>3. KnownInv
  <2>1. \A s \in exported : NameOf[s] \in EarlyName /\ NameOf[s] \in Name
    BY DaemonAssumption DEF Init
  <2>2. \A n \in EarlyName : n \in Name
    BY DaemonAssumption
  <2> QED BY <2>1, <2>2 DEF Init, KnownInv
<1>4. GuardInv
  BY DEF Init, GuardInv
<1> QED BY <1>2, <1>3, <1>4, InitDaemon DEF AnyInv

LEMMA AnyInvariance == Spec => []AnyInv
BY InitAny, AnyStep, PTL DEF Spec

LEMMA GuardedIsWatched ==
  ASSUME AnyInv
  PROVE  UnwatchedOnlyFiledOver
<1> SUFFICES ASSUME Quiet, NEW i \in tray.items, WatchersOf(i) = {}
             PROVE  FiledOver(i)
  BY DEF UnwatchedOnlyFiledOver
<1>1. Guarded(i.key, i.service) /\ i.key \in Key
  BY DEF AnyInv, GuardInv, DaemonInv, WellFormed, Item
<1>2. /\ \A c \in Call : call[c].pc \in {"unused", "done"}
      /\ \A a \in Actor : pc[a] \in {"none", "watching", "done"}
  BY DEF Quiet, Registering, Actor
<1> DEFINE filed == tasks[i.key]
<1>3. filed # NoTask /\ (\/ Registers[filed] = i.service /\ pc[filed] \in Watches
                         \/ \E d \in aborted : Registers[d] = i.service)
  BY <1>1, <1>2 DEF Guarded
<1>4. filed \in Call /\ filed \notin aborted /\ task[filed].key = i.key /\ pc[filed] # "none"
  BY <1>1, <1>3 DEF AnyInv, OwnInv, DaemonInv, TypeOK
<1>5. pc[filed] # "done" => Registers[filed] # i.service
  <2> SUFFICES ASSUME pc[filed] # "done", Registers[filed] = i.service PROVE FALSE
    OBVIOUS
  <2>1. pc[filed] = "watching"
    BY <1>2, <1>4 DEF Actor
  <2>2. task[filed].service = i.service
    BY <1>4, <2>1 DEF AnyInv, OwnInv, WatchPc
  <2>3. filed \in WatchersOf(i)
    BY <1>4, <2>1, <2>2 DEF WatchersOf, Live
  <2> QED BY <2>3
<1>6. \E d \in aborted : Registers[d] = i.service
  BY <1>2, <1>3, <1>4, <1>5 DEF Watches, WatchPc, Actor
<1> QED BY <1>3, <1>5, <1>6 DEF FiledOver

(* Whatever ids applications have, however often they register and when    *)
(* they start: an item is left without a task that would notice its end in *)
(* one way only, which is that one of its own tasks was aborted in favour  *)
(* of a dead or foreign one that is filed under its key (tasks.insert in   *)
(* spawn_item_task).  Neither a registration that overtakes an exit, nor   *)
(* the name watch, nor a task that drops the key can do it alone.          *)
THEOREM UnwatchedItemsWereFiledOver == Spec => []UnwatchedOnlyFiledOver
BY AnyInvariance, GuardedIsWatched, PTL

-----------------------------------------------------------------------------
(* Whose icon is dropped. *)

(* Whoever is dropping the key of an application that answers, or is about *)
(* to, is mistaken, or was told that the application got its name; a task  *)
(* that watches under the key of an item of another service is mistaken.   *)
Dropping == {"remove", "lookup", "drop"}

DropInv ==
  /\ readAt \in [Actor -> Nat] /\ \A a \in Actor : readAt[a] <= tray.revision
  /\ \A i \in tray.items : i.service \in exported =>
       /\ \A a \in Actor : pc[a] \in Dropping /\ gone[a] = i.key => Mistaken(a, i) \/ Acquired(a, i)
       /\ i.key \in doomed => Mistaken(NameWatch, i) \/ Acquired(NameWatch, i)
       /\ \A c \in Call : pc[c] \in WatchPc /\ task[c].key = i.key =>
            Mistaken(c, i) \/ i.service = task[c].service

LEMMA RevisionsOfItems ==
  ASSUME DaemonInv
  PROVE  tray.revision \in Nat /\ \A i \in tray.items : i.since \in Nat /\ i.key \in Key
BY DEF DaemonInv, WellFormed, Item

(* Items are those that were there; nobody begins to act on a key of one   *)
(* that answers.                                                           *)
LEMMA DropGoesOn ==
  ASSUME AnyInv, DropInv, UNCHANGED <<readAt, changed, doomed>>, ItemsStay,
         \A i \in tray.items : i.service \in exported' => i.service \in exported,
         \A a \in Actor : pc'[a] \in Dropping =>
           \/ pc[a] \in Dropping /\ gone'[a] = gone[a]
           \/ \A i \in tray.items : i.service \in exported /\ gone'[a] = i.key
                                      => Mistaken(a, i) \/ Acquired(a, i),
         \A c \in Call : pc'[c] \in WatchPc =>
           pc[c] \in WatchPc /\ task'[c].key = task[c].key /\ task'[c].service = task[c].service
  PROVE  DropInv'
<1>1. readAt' \in [Actor -> Nat] /\ \A a \in Actor : readAt'[a] <= tray'.revision
  <2>1. tray.revision \in Nat /\ tray'.revision \in Nat /\ tray.revision <= tray'.revision
    BY RevisionsOfItems DEF AnyInv, ItemsStay
  <2>2. \A a \in Actor : readAt[a] \in Nat /\ readAt[a] <= tray.revision
    BY DEF DropInv
  <2> QED BY <2>1, <2>2 DEF DropInv
<1>2. ASSUME NEW j \in tray'.items, j.service \in exported'
      PROVE  /\ \A a \in Actor : pc'[a] \in Dropping /\ gone'[a] = j.key
                                   => Mistaken(a, j)' \/ Acquired(a, j)'
             /\ j.key \in doomed' => Mistaken(NameWatch, j)' \/ Acquired(NameWatch, j)'
             /\ \A c \in Call : pc'[c] \in WatchPc /\ task'[c].key = j.key =>
                  Mistaken(c, j)' \/ j.service = task'[c].service
  <2>1. PICK i \in tray.items : Alike(i, j)
    BY DEF ItemsStay
  <2>2. i.service \in exported /\ i.key = j.key /\ i.service = j.service
    BY <1>2, <2>1 DEF Alike
  <2>3. \A a : /\ Mistaken(a, j)' <=> Mistaken(a, i)
               /\ Acquired(a, j)' <=> Acquired(a, i)
    BY <2>1 DEF Alike, Mistaken, Acquired
  <2>4. /\ \A a \in Actor : pc[a] \in Dropping /\ gone[a] = i.key => Mistaken(a, i) \/ Acquired(a, i)
        /\ i.key \in doomed => Mistaken(NameWatch, i) \/ Acquired(NameWatch, i)
        /\ \A c \in Call : pc[c] \in WatchPc /\ task[c].key = i.key =>
             Mistaken(c, i) \/ i.service = task[c].service
    BY <2>1, <2>2 DEF DropInv
  <2> QED BY <2>1, <2>2, <2>3, <2>4
<1> QED BY <1>1, <1>2 DEF DropInv

(* Nobody reads keys in a step that neither spawns a task nor takes up a   *)
(* signal.                                                                 *)
LEMMA NothingRead ==
  ASSUME DropInv, HistoryNext, ~SignalTaken,
         \A c \in Call : pc[c] = "none" => pc'[c] = "none"
  PROVE  UNCHANGED <<readAt, changed>>
BY DEF HistoryNext, TaskSpawned, DropInv

LEMMA SameEvents ==
  ASSUME DaemonInv, nameEvents' = nameEvents \/ \E n \in Name : nameEvents' = Append(nameEvents, n)
  PROVE  ~SignalTaken
<1>1. nameEvents \in Seq(Name)
  BY DEF DaemonInv, TypeOK
<1>2. CASE nameEvents' = nameEvents
  BY <1>1, <1>2 DEF SignalTaken
<1>3. ASSUME NEW n \in Name, nameEvents' = Append(nameEvents, n)
      PROVE  Len(nameEvents') = Len(nameEvents) + 1
  BY <1>1, <1>3
<1> QED BY <1>1, <1>2, <1>3 DEF SignalTaken

(* Nobody moves, and no application with an item gets its name.            *)
LEMMA StandstillDrops ==
  ASSUME AnyInv, DropInv, HistoryNext, UNCHANGED <<tray, pc, gone, doomed>>, SameErrands,
         nameEvents' = nameEvents \/ \E n \in Name : nameEvents' = Append(nameEvents, n),
         \A i \in tray.items : i.service \in exported' => i.service \in exported
  PROVE  DropInv'
<1>1. ItemsStay
  BY SameItems DEF AnyInv
<1>2. UNCHANGED <<readAt, changed>>
  BY SameEvents, NothingRead DEF AnyInv
<1> QED BY <1>1, <1>2, DropGoesOn DEF SameErrands

LEMMA AppStepDrops ==
  ASSUME AnyInv, DropInv, HistoryNext, AppStep
  PROVE  DropInv'
<1>1. ASSUME NEW n \in Name, Connect(n)
      PROVE  DropInv'
  <2>1. \A i \in tray.items : i.service \in exported' => i.service \in exported
    BY <1>1 DEF Connect, AnyInv, KnownInv
  <2> QED BY <1>1, <2>1, StandstillDrops DEF Connect, SameErrands, storeVars
<1>2. ASSUME NEW n \in Name, Exit(n)
      PROVE  DropInv'
  BY <1>2, StandstillDrops DEF Exit, SameErrands, storeVars
<1>3. CASE \E s \in Service : Unexport(s)
  BY <1>3, StandstillDrops DEF Unexport, SameErrands, storeVars
<1>4. ASSUME NEW s \in Service, NEW p \in Speaks[s], Change(s, p)
      PROVE  DropInv'
  <2>1. SameErrands
    <3> SUFFICES ASSUME NEW c \in Call
                 PROVE  task'[c].key = task[c].key /\ task'[c].service = task[c].service
      BY DEF SameErrands
    <3> DEFINE signalled == task[c].signalled \/ task[c].follows = s
    <3>1. task'[c] = [task[c] EXCEPT !.signalled = signalled] /\ task[c] \in ItemTask
      BY <1>4 DEF Change, AnyInv, DaemonInv, TypeOK
    <3> HIDE DEF signalled
    <3> QED BY <3>1 DEF ItemTask
  <2> QED BY <1>4, <2>1, StandstillDrops DEF Change, storeVars
<1>5. CASE \E c \in Call : RegisterItem(c)
  BY <1>5, StandstillDrops DEF RegisterItem, SameErrands, appVars, storeVars
<1> QED BY <1>1, <1>2, <1>3, <1>4, <1>5 DEF AppStep

LEMMA RegisterStepDrops ==
  ASSUME AnyInv, DropInv, HistoryNext, NEW c \in Call, RegisterStep(c)
  PROVE  DropInv'
<1>1. CASE FetchProps(c) \/ EmitRegistered(c) \/ InsertTask(c)
  BY <1>1, StandstillDrops DEF FetchProps, EmitRegistered, InsertTask, Emit, SameErrands,
                               appVars, storeVars
<1>2. CASE ApplyRegistered(c)
  <2>1. /\ tray'.revision = tray.revision + 1
        /\ \A j \in tray'.items :
             j \in tray.items \/ (j.service = Registers[c] /\ j.since = tray.revision + 1)
    <3>1. Registers[c] \in Service /\ call[c].props \in Props
      BY <1>2, DaemonAssumption DEF ApplyRegistered, AnyInv, DaemonInv, Holding
    <3>2. tray' = Register(tray, Registers[c], call[c].props).state
      BY <1>2 DEF ApplyRegistered, Fold
    <3> QED BY <3>1, <3>2, RegisterItems DEF AnyInv
  <2>2. UNCHANGED <<exported, nameEvents, task, pc, gone, doomed>>
    BY <1>2 DEF ApplyRegistered, appVars
  <2>3. UNCHANGED <<readAt, changed>>
    BY <2>2, SameEvents, NothingRead DEF AnyInv
  <2>4. \A a \in Actor : /\ readAt[a] \in Nat /\ readAt[a] <= tray.revision + 1
                         /\ tray.revision + 1 > readAt[a]
    BY RevisionsOfItems DEF AnyInv, DropInv
  <2>5. ASSUME NEW j \in tray'.items, j.service \in exported
        PROVE  /\ \A a \in Actor : pc[a] \in Dropping /\ gone[a] = j.key
                                     => Mistaken(a, j) \/ Acquired(a, j)
               /\ j.key \in doomed => Mistaken(NameWatch, j) \/ Acquired(NameWatch, j)
               /\ \A d \in Call : pc[d] \in WatchPc /\ task[d].key = j.key =>
                    Mistaken(d, j) \/ j.service = task[d].service
    <3>1. CASE j \in tray.items
      BY <2>5, <3>1 DEF DropInv
    <3>2. CASE j.since = tray.revision + 1
      <4>1. \A a \in Actor : Mistaken(a, j)
        BY <2>4, <3>2 DEF Mistaken
      <4>2. NameWatch \in Actor /\ \A d \in Call : d \in Actor
        BY DEF Actor
      <4> QED BY <4>1, <4>2
    <3> QED BY <2>1, <3>1, <3>2
  <2>6. \A a, j : (Mistaken(a, j)' <=> Mistaken(a, j)) /\ (Acquired(a, j)' <=> Acquired(a, j))
    BY <2>3 DEF Mistaken, Acquired
  <2> QED BY <2>1, <2>2, <2>3, <2>4, <2>5, <2>6 DEF DropInv
<1>3. CASE SpawnTask(c)
  <2>1. /\ UNCHANGED <<exported, nameEvents, tray, gone, doomed>>
        /\ c \in Actor /\ c # NameWatch /\ pc[c] = "none"
        /\ \A d \in Call \ {c} : task'[d] = task[d]
        /\ \A a \in Actor \ {c} : pc'[a] = pc[a]
    BY <1>3, DaemonAssumption DEF SpawnTask, Actor, AnyInv, OwnInv, DaemonInv, TypeOK, appVars, storeVars
  <2>2. CASE UNCHANGED <<task, pc>>
    BY <2>1, <2>2, StandstillDrops DEF SameErrands
  <2>3. ASSUME NEW i \in tray.items, i.service = Registers[c],
               task' = [task EXCEPT ![c] = [NoItemTask EXCEPT !.key = i.key,
                                                             !.service = Registers[c]]],
               pc' = [pc EXCEPT ![c] = "start"]
        PROVE  DropInv'
    <3>1. pc'[c] = "start" /\ task'[c].key = i.key /\ task'[c].service = i.service
      <4>1. task'[c] = [NoItemTask EXCEPT !.key = i.key, !.service = Registers[c]]
        BY <2>3 DEF AnyInv, DaemonInv, TypeOK
      <4> QED BY <2>1, <2>3, <4>1 DEF NoItemTask, AnyInv, DaemonInv, TypeOK
    <3>2. ~SignalTaken
      BY <2>1, SameEvents DEF AnyInv
    <3>3. /\ readAt' = [readAt EXCEPT ![c] = tray.revision] /\ changed' = changed
      <4>1. TaskSpawned(c) /\ \A d \in Call \ {c} : ~TaskSpawned(d)
        BY <2>1, <3>1 DEF TaskSpawned, Actor
      <4> QED BY <2>1, <3>2, <4>1 DEF HistoryNext, DropInv
    <3>4. readAt' \in [Actor -> Nat] /\ \A a \in Actor : readAt'[a] <= tray'.revision
      BY <2>1, <3>3, RevisionsOfItems DEF AnyInv, DropInv
    <3>5. \A a \in Actor \ {c} : \A j : (Mistaken(a, j)' <=> Mistaken(a, j))
                                        /\ (Acquired(a, j)' <=> Acquired(a, j))
      BY <3>3 DEF DropInv, Mistaken, Acquired
    <3>6. ASSUME NEW j \in tray.items, j.service \in exported
          PROVE  /\ \A a \in Actor : pc'[a] \in Dropping /\ gone[a] = j.key
                                       => Mistaken(a, j)' \/ Acquired(a, j)'
                 /\ j.key \in doomed => Mistaken(NameWatch, j)' \/ Acquired(NameWatch, j)'
                 /\ \A d \in Call : pc'[d] \in WatchPc /\ task'[d].key = j.key =>
                      Mistaken(d, j)' \/ j.service = task'[d].service
      <4>1. \A a \in Actor : pc'[a] \in Dropping => a # c /\ pc[a] \in Dropping
        BY <2>1, <3>1 DEF Dropping
      <4>2. NameWatch \in Actor \ {c} /\ \A d \in Call : d \in Actor
        BY <2>1 DEF Actor
      <4>3. task'[c].key = j.key => j = i
        BY <3>1 DEF AnyInv, DaemonInv, WellFormed
      <4> QED BY <2>1, <3>1, <3>5, <3>6, <4>1, <4>2, <4>3 DEF DropInv
    <3> QED BY <2>1, <3>4, <3>6 DEF DropInv
  <2> QED BY <1>3, <2>2, <2>3 DEF SpawnTask
<1> QED BY <1>1, <1>2, <1>3 DEF RegisterStep

LEMMA VanishStepDrops ==
  ASSUME AnyInv, DropInv, HistoryNext, NEW a \in Actor, VanishStep(a)
  PROVE  DropInv'
<1>1. /\ UNCHANGED <<exported, nameEvents, task, doomed>>
      /\ pc[a] \in VanishPc /\ gone[a] \in Key /\ OthersWait(a)
      /\ \/ pc[a] \in Dropping /\ pc'[a] \in VanishPc /\ gone'[a] = gone[a]
         \/ pc'[a] = IF a = NameWatch THEN "none" ELSE "done"
  BY DEF VanishStep, RemoveTask, LookUpService, ApplyVanished, EmitVanished, Emit, GoTo, EndVanish,
         OthersWait, AnyInv, DaemonInv, Holding, TypeOK, Dropping, VanishPc, appVars, storeVars,
         regVars
<1>2. ItemsStay
  <2>1. CASE ApplyVanished(a)
    BY <1>1, <2>1, VanishItems DEF ApplyVanished, Fold, AnyInv
  <2>2. CASE tray' = tray
    BY <2>2, SameItems DEF AnyInv
  <2> QED BY <2>1, <2>2 DEF VanishStep, RemoveTask, LookUpService, EmitVanished, Emit, storeVars
<1>3. \A c \in Call : c \in Actor /\ c # NameWatch
  BY DaemonAssumption DEF Actor
<1>4. UNCHANGED <<readAt, changed>>
  <2>1. \A c \in Call : pc[c] = "none" => pc'[c] = "none"
    BY <1>1, <1>3 DEF OthersWait, VanishPc
  <2> QED BY <1>1, <2>1, SameEvents, NothingRead DEF AnyInv
<1>5. \A b \in Actor : pc'[b] \in Dropping => pc[b] \in Dropping /\ gone'[b] = gone[b]
  BY <1>1 DEF OthersWait, Dropping
<1>6. \A c \in Call : pc'[c] \in WatchPc => pc[c] \in WatchPc
  BY <1>1, <1>3 DEF OthersWait, WatchPc, VanishPc
<1> QED BY <1>1, <1>2, <1>4, <1>5, <1>6, DropGoesOn

LEMMA TaskStepDrops ==
  ASSUME AnyInv, DropInv, HistoryNext, NEW c \in Call, TaskStep(c)
  PROVE  DropInv'
<1>1. \A d \in Call : d \in Actor
  BY DEF Actor
<1>2. CASE \/ StartTask(c) \/ TakeSignal(c) \/ RefreshProps(c) \/ Probe(c)
           \/ ApplyProps(c) \/ EmitProps(c)
  <2>1. Walks(c)
    BY <1>2, TaskWalks DEF AnyInv
  <2>2. /\ UNCHANGED <<exported, nameEvents, doomed>> /\ ItemsStay /\ pc[c] \in WatchPc
        /\ OthersWait(c)
        /\ \A d \in Call : task'[d].key = task[d].key /\ task'[d].service = task[d].service
        /\ \/ pc'[c] \in WatchPc
           \/ /\ pc'[c] = "remove" /\ gone'[c] = task[c].key
              /\ ~HasKey(tray, task[c].key) \/ task[c].service \notin exported
    BY <2>1 DEF Walks, SameErrands
  <2>3. UNCHANGED <<readAt, changed>>
    <3>1. \A d \in Call : pc[d] = "none" => pc'[d] = "none"
      BY <1>1, <2>2 DEF OthersWait, WatchPc
    <3> QED BY <2>2, <3>1, SameEvents, NothingRead DEF AnyInv
  <2>4. pc'[c] \in Dropping =>
          \A i \in tray.items : i.service \in exported /\ gone'[c] = i.key => Mistaken(c, i)
    <3> SUFFICES ASSUME pc'[c] \in Dropping, NEW i \in tray.items, i.service \in exported,
                        gone'[c] = i.key
                 PROVE  Mistaken(c, i)
      OBVIOUS
    <3>1. /\ gone'[c] = task[c].key
          /\ ~HasKey(tray, task[c].key) \/ task[c].service \notin exported
      BY <2>2 DEF Dropping, WatchPc
    <3>2. task[c].service \notin exported
      BY <3>1 DEF HasKey
    <3> QED BY <2>2, <3>1, <3>2 DEF DropInv
  <2>5. \A a \in Actor \ {c} : pc'[a] \in Dropping => pc[a] \in Dropping /\ gone'[a] = gone[a]
    BY <2>2 DEF OthersWait
  <2>6. \A d \in Call : pc'[d] \in WatchPc => pc[d] \in WatchPc
    BY <1>1, <2>2 DEF OthersWait
  <2> QED BY <1>1, <2>2, <2>3, <2>4, <2>5, <2>6, DropGoesOn
<1>3. CASE Cancel(c)
  <2>1. /\ UNCHANGED <<exported, nameEvents, tray, doomed>> /\ OthersWait(c)
        /\ pc'[c] = "done" /\ pc[c] # "none" /\ \A d \in Call \ {c} : task'[d] = task[d]
    BY <1>1, <1>3 DEF Cancel, OthersWait, AnyInv, DaemonInv, TypeOK, appVars, storeVars, regVars
  <2>2. UNCHANGED <<readAt, changed>>
    <3>1. \A d \in Call : pc[d] = "none" => pc'[d] = "none"
      BY <1>1, <2>1 DEF OthersWait
    <3> QED BY <2>1, <3>1, SameEvents, NothingRead DEF AnyInv
  <2>3. ItemsStay
    BY <2>1, SameItems DEF AnyInv
  <2>4. \A a \in Actor : pc'[a] \in Dropping => pc[a] \in Dropping /\ gone'[a] = gone[a]
    BY <2>1 DEF OthersWait, Dropping
  <2>5. \A d \in Call : pc'[d] \in WatchPc => pc[d] \in WatchPc /\ task'[d] = task[d]
    BY <1>1, <2>1 DEF OthersWait, WatchPc
  <2> QED BY <2>1, <2>2, <2>3, <2>4, <2>5, DropGoesOn
<1>4. CASE VanishStep(c)
  BY <1>1, <1>4, VanishStepDrops
<1> QED BY <1>2, <1>3, <1>4 DEF TaskStep

LEMMA NameWatchDrops ==
  ASSUME AnyInv, DropInv, HistoryNext, NameWatchStep
  PROVE  DropInv'
<1>1. NameWatch \in Actor /\ NameWatch \notin Call /\ \A c \in Call : c \in Actor
  BY DaemonAssumption DEF Actor
<1>2. CASE OwnerChanged
  <2>1. /\ UNCHANGED <<exported, tray, task, pc, gone>> /\ pc[NameWatch] = "none"
        /\ doomed' = {i.key : i \in {j \in tray.items : NameOf[j.service] = Head(nameEvents)}}
    BY <1>2 DEF OwnerChanged, appVars, storeVars
  <2>2. SignalTaken /\ 1 \in DOMAIN nameEvents /\ Head(nameEvents) = nameEvents[1]
    <3>1. nameEvents \in Seq(Name) /\ nameEvents # <<>> /\ nameEvents' = Tail(nameEvents)
      BY <1>2 DEF OwnerChanged, AnyInv, DaemonInv, TypeOK
    <3> QED BY <3>1 DEF SignalTaken
  <2>3. readAt' = [readAt EXCEPT ![NameWatch] = tray.revision] /\ changed' = Head(nameEvents)
    <3>1. \A c \in Call : ~TaskSpawned(c)
      BY <2>1 DEF TaskSpawned
    <3> QED BY <1>1, <2>2, <3>1 DEF HistoryNext, DropInv
  <2>4. readAt' \in [Actor -> Nat] /\ \A a \in Actor : readAt'[a] <= tray'.revision
    <3>1. tray.revision \in Nat
      BY RevisionsOfItems DEF AnyInv
    <3>2. \A a \in Actor : /\ readAt[a] \in Nat /\ readAt[a] <= tray.revision
                           /\ readAt'[a] = IF a = NameWatch THEN tray.revision ELSE readAt[a]
      BY <2>3 DEF DropInv
    <3>3. readAt' \in [Actor -> Nat]
      BY <2>3, <3>1 DEF DropInv
    <3> QED BY <2>1, <3>1, <3>2, <3>3
  <2>5. \A a \in Actor \ {NameWatch} : \A i : (Mistaken(a, i)' <=> Mistaken(a, i)) /\ ~Acquired(a, i)
    BY <2>3 DEF DropInv, Mistaken, Acquired
  <2>6. ASSUME NEW i \in tray.items, i.service \in exported, i.key \in doomed'
        PROVE  Acquired(NameWatch, i)'
    <3>1. NameOf[i.service] = Head(nameEvents)
      BY <2>1, <2>6 DEF AnyInv, DaemonInv, WellFormed
    <3>2. names[NameOf[i.service]] = "owned"
      BY <2>6 DEF AnyInv, KnownInv
    <3>3. Head(nameEvents) \notin EarlyName
      BY <2>2, <3>1, <3>2 DEF AnyInv, KnownInv
    <3> QED BY <2>3, <3>1, <3>3 DEF Acquired
  <2>7. \A a \in Actor : pc[a] \in Dropping => a # NameWatch
    BY <2>1 DEF Dropping
  <2> QED BY <1>1, <2>1, <2>4, <2>5, <2>6, <2>7 DEF DropInv
<1>3. CASE NextDoomed
  <2>1. PICK k \in doomed : StartVanish(NameWatch, k) /\ doomed' = doomed \ {k}
    BY <1>3 DEF NextDoomed
  <2>2. /\ UNCHANGED <<exported, nameEvents, tray, task>> /\ pc[NameWatch] = "none"
        /\ pc'[NameWatch] = "remove" /\ gone'[NameWatch] = k /\ OthersWait(NameWatch)
    BY <1>1, <1>3, <2>1 DEF NextDoomed, StartVanish, GoTo, OthersWait, AnyInv, DaemonInv, TypeOK,
                            appVars, storeVars
  <2>3. UNCHANGED <<readAt, changed>>
    <3>1. \A c \in Call : pc[c] = "none" => pc'[c] = "none"
      BY <1>1, <2>2 DEF OthersWait
    <3> QED BY <2>2, <3>1, SameEvents, NothingRead DEF AnyInv
  <2>4. \A a, i : (Mistaken(a, i)' <=> Mistaken(a, i)) /\ (Acquired(a, i)' <=> Acquired(a, i))
    BY <2>3 DEF Mistaken, Acquired
  <2>5. \A c \in Call : pc'[c] = pc[c]
    BY <1>1, <2>2 DEF OthersWait
  <2>6. \A a \in Actor : pc'[a] \in Dropping =>
          \/ a = NameWatch /\ gone'[a] \in doomed
          \/ pc[a] \in Dropping /\ gone'[a] = gone[a]
    BY <2>2 DEF OthersWait
  <2> QED BY <2>1, <2>2, <2>3, <2>4, <2>5, <2>6 DEF DropInv
<1>4. CASE VanishStep(NameWatch)
  BY <1>1, <1>4, VanishStepDrops
<1> QED BY <1>2, <1>3, <1>4 DEF NameWatchStep

LEMMA InitDrops == HistoryInit => AnyInv /\ DropInv
<1> SUFFICES ASSUME HistoryInit PROVE AnyInv /\ DropInv
  OBVIOUS
<1>1. tray.items = {} /\ tray.revision = 0 /\ readAt = [a \in Actor |-> 0]
  BY DEF HistoryInit, Init
<1> QED BY <1>1, InitAny DEF HistoryInit, DropInv

LEMMA DropsStep ==
  ASSUME AnyInv, DropInv, [HistoryNext]_historyVars
  PROVE  AnyInv' /\ DropInv'
<1>1. [Next]_vars
  BY DEF HistoryNext, historyVars
<1>2. AnyInv'
  BY <1>1, AnyStep
<1>3. ASSUME HistoryNext PROVE DropInv'
  <2>1. CASE AppStep
    BY <1>3, <2>1, AppStepDrops
  <2>2. CASE \E c \in Call : RegisterStep(c) \/ TaskStep(c)
    BY <1>3, <2>2, RegisterStepDrops, TaskStepDrops
  <2>3. CASE NameWatchStep
    BY <1>3, <2>3, NameWatchDrops
  <2> QED BY <1>3, <2>1, <2>2, <2>3 DEF HistoryNext, Next
<1>4. ASSUME UNCHANGED historyVars PROVE DropInv'
  <2>1. UNCHANGED <<exported, tray, task, pc, gone, doomed, readAt, changed>>
    BY <1>4 DEF historyVars, vars, appVars, storeVars
  <2>2. ItemsStay
    BY <2>1, SameItems DEF AnyInv
  <2> QED BY <2>1, <2>2, DropGoesOn
<1> QED BY <1>2, <1>3, <1>4

(* Only whoever drops a key takes the item of a service away, and only the *)
(* item with that key.                                                     *)
LEMMA WhoDrops ==
  ASSUME AnyInv, [Next]_vars, NEW i \in tray.items, ~HasItem(tray', i.service)
  PROVE  \E a \in Actor : pc[a] = "drop" /\ gone[a] = i.key /\ pc'[a] = "tell"
<1>1. HasItem(tray, i.service) /\ tray' # tray
  BY DEF HasItem
<1>2. ASSUME NEW a \in Actor, VanishStep(a)
      PROVE  pc[a] = "drop" /\ gone[a] = i.key /\ pc'[a] = "tell"
  <2>1. ApplyVanished(a)
    BY <1>1, <1>2 DEF VanishStep, RemoveTask, LookUpService, EmitVanished, Emit, storeVars
  <2>2. gone[a] \in Key /\ pc[a] = "drop" /\ tray' = Vanish(tray, gone[a]).state
    BY <2>1 DEF ApplyVanished, Fold, AnyInv, DaemonInv, Holding, VanishPc
  <2>3. gone[a] = i.key
    BY <2>2, VanishItems DEF HasItem, AnyInv
  <2>4. HasKey(tray, gone[a])
    BY <2>3 DEF HasKey
  <2> QED BY <2>1, <2>2, <2>3, <2>4 DEF ApplyVanished, GoTo, AnyInv, DaemonInv, TypeOK
<1>3. ASSUME NEW c \in Call, RegisterStep(c)
      PROVE  FALSE
  <2>1. ApplyRegistered(c)
    BY <1>1, <1>3 DEF RegisterStep, FetchProps, EmitRegistered, Emit, SpawnTask, InsertTask, storeVars
  <2>2. Registers[c] \in Service /\ call[c].props \in Props
    BY <2>1, DaemonAssumption DEF ApplyRegistered, AnyInv, DaemonInv, Holding
  <2>3. tray' = Register(tray, Registers[c], call[c].props).state
    BY <2>1 DEF ApplyRegistered, Fold
  <2> QED BY <1>1, <2>2, <2>3, RegisterItems DEF AnyInv
<1>4. ASSUME NEW c \in Call, TaskStep(c), ~VanishStep(c)
      PROVE  FALSE
  <2>1. ~Cancel(c)
    BY <1>1 DEF Cancel, storeVars
  <2> QED BY <1>1, <1>4, <2>1, TaskWalks DEF TaskStep, AnyInv
<1>5. ~AppStep /\ ~OwnerChanged /\ ~NextDoomed /\ ~UNCHANGED vars
  BY <1>1 DEF AppStep, Connect, Exit, Unexport, Change, RegisterItem, OwnerChanged, NextDoomed,
              vars, storeVars
<1>6. NameWatch \in Actor /\ \A c \in Call : c \in Actor
  BY DEF Actor
<1> QED BY <1>2, <1>3, <1>4, <1>5, <1>6 DEF Next, NameWatchStep

(* Whatever ids applications have, however often they register and when    *)
(* they start: the icon of an application that answers is dropped in two   *)
(* ways only.  Whoever drops it goes by a key it read before this item got *)
(* it (vanish_key takes nothing but a key), or it is the name watch, and   *)
(* takes the acquisition of the name for its loss (vanish_bus_name).       *)
THEOREM LiveDropsAreExplained == HistorySpec => LiveDropsExplained
<1>1. AnyInv /\ DropInv /\ [HistoryNext]_historyVars => AnyInv' /\ DropInv'
  BY DropsStep
<1>2. ASSUME AnyInv, DropInv, [HistoryNext]_historyVars, NEW i \in tray.items,
             i.service \in exported, ~HasItem(tray', i.service)
      PROVE  \E a \in Actor : /\ pc[a] = "drop" /\ gone[a] = i.key /\ pc'[a] = "tell"
                              /\ Mistaken(a, i) \/ Acquired(a, i)
  <2>1. [Next]_vars
    BY <1>2 DEF HistoryNext, historyVars
  <2>2. PICK a \in Actor : pc[a] = "drop" /\ gone[a] = i.key /\ pc'[a] = "tell"
    BY <1>2, <2>1, WhoDrops
  <2>3. Mistaken(a, i) \/ Acquired(a, i)
    BY <1>2, <2>2 DEF DropInv, Dropping
  <2> QED BY <2>2, <2>3
<1>3. AnyInv /\ DropInv /\ [HistoryNext]_historyVars =>
        [\A i \in tray.items :
           i.service \in exported /\ ~HasItem(tray', i.service) =>
             \E a \in Actor : /\ pc[a] = "drop" /\ gone[a] = i.key /\ pc'[a] = "tell"
                              /\ Mistaken(a, i) \/ Acquired(a, i)]_historyVars
  BY <1>2
<1> QED BY <1>1, <1>3, InitDrops, PTL DEF HistorySpec, LiveDropsExplained
=============================================================================
