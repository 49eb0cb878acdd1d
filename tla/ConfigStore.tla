---------------------------- MODULE ConfigStore ----------------------------
(***************************************************************************)
(* How the configuration changes and how it is kept:                       *)
(* set_config, set_item_hidden and move_item of                            *)
(* crates/taskbar-daemon/src/service.rs, Store::apply and its PersistConfig*)
(* effect (store.rs), load and save (config_store.rs).                     *)
(*                                                                         *)
(* Every call of a client is a task of its own; it reads the state under   *)
(* one lock, changes it under another, and the file is written by a thread *)
(* of the blocking pool after both.  Nothing orders two such writes, and   *)
(* all of them go through the same temporary file.                         *)
(*                                                                         *)
(* Files are inodes: File::create truncates the file of that name if there *)
(* is one, rename moves a name, and a writer keeps the inode it opened.    *)
(* The daemon may be killed at any step; files survive that.  Power loss   *)
(* (there is no fsync) is not modelled.                                    *)
(***************************************************************************)
EXTENDS TrayRules

CONSTANTS
  View,         \* what a client may send to SetConfig
  Delta,        \* by how much a client may move an item
  Speaks,       \* Speaks[s]: what s says about itself when it registers
  Call,         \* client calls, each made at most once: a bound
  NoCall,       \* the arguments of a call not made
  NoFile,       \* no inode
  Empty, Broken \* contents: a created file, and one two writers wrote into

CONSTANTS
  MaxInFlight,  \* how many calls clients have under way at once
  MaxCrashes, MaxFailures, MaxRevision   \* bounds

ASSUME StoreAssumption ==
  /\ View \subseteq [ icon_size : Int, sort : SortMode, order : Seq(Entry),
                      hidden : Seq(Entry), panel_position : Int ]
  /\ Delta \subseteq Int /\ Speaks \in [Service -> Props] /\ IsFiniteSet(Call)
  /\ {MaxInFlight, MaxCrashes, MaxFailures, MaxRevision} \subseteq Nat

(* A writer holds one inode, the two names hold one each.                  *)
Inode == 1 .. Cardinality(Call) + 2

ASSUME InodeAssumption == NoFile \notin Inode

Request ==
  [method : {"SetConfig"}, view : View]
    \cup [method : {"SetItemHidden"}, key : Key, hidden : BOOLEAN]
    \cup [method : {"MoveItem"}, key : Key, delta : Delta]

VARIABLES
  tray,          \* struct State of the Store
  last_error,    \* Store::last_error: saving failed since the start
  call,          \* call[c]: where the call is, and what it has read, wants and holds
  content,       \* content[i]: what is in inode i
  path,          \* the inode named config.toml
  temporary,     \* the inode named config.toml.tmp
  crashes, failures

fileVars == <<content, path, temporary>>
boundVars == <<crashes, failures>>
vars == <<tray, last_error, call, fileVars, boundVars>>

-----------------------------------------------------------------------------
(* load: a missing or unreadable file stands for the default.              *)
Load ==
  IF path = NoFile \/ content[path] \in {Empty, Broken}
  THEN DefaultConfig
  ELSE Normalized(content[path])

FreshState(config) == [config |-> config, items |-> {}, revision |-> 0]

NotMade == [ pc |-> "unused", request |-> NoCall, current |-> <<>>, wanted |-> NoCall,
             file |-> NoFile ]

Init ==
  /\ content = [i \in Inode |-> Empty] /\ path = NoFile /\ temporary = NoFile
  /\ tray = FreshState(Load)
  /\ last_error = FALSE
  /\ call = [c \in Call |-> NotMade]
  /\ crashes = 0 /\ failures = 0

-----------------------------------------------------------------------------
Bounded == tray'.revision <= MaxRevision

(* Items come and go.                                                      *)
Registered(s) ==
  /\ tray' = Register(tray, s, Speaks[s]).state /\ Bounded
  /\ UNCHANGED <<last_error, call, fileVars, boundVars>>

Vanished(key) ==
  /\ tray' = Vanish(tray, key).state /\ Bounded
  /\ UNCHANGED <<last_error, call, fileVars, boundVars>>

-----------------------------------------------------------------------------
(* The calls of clients: each computes the configuration it wants from the *)
(* state as it is now.                                                     *)
InFlight == {c \in Call : call[c].pc \notin {"unused", "done"}}

Ask(c, request, current, wanted) ==
  /\ call[c].pc = "unused" /\ Cardinality(InFlight) < MaxInFlight
  /\ call' = [call EXCEPT ![c] = [pc |-> "apply", request |-> request, current |-> current,
                                  wanted |-> wanted, file |-> NoFile]]
  /\ UNCHANGED <<tray, last_error, fileVars, boundVars>>

SetConfig(c, view) == Ask(c, [method |-> "SetConfig", view |-> view], <<>>, FromView(view))

SetItemHidden(c, key, hidden) ==
  Ask(c, [method |-> "SetItemHidden", key |-> key, hidden |-> hidden], <<>>,
      WithHidden(tray.config, key, hidden))

(* Mistake: the item is moved in the saved order, not in the one in view.  *)
MoveItemOfSaved(c, key, delta) ==
  LET order == MovedOrder(tray.config.order, key, delta)
  IN  /\ order # NoMove
      /\ Ask(c, [method |-> "MoveItem", key |-> key, delta |-> delta], OrderedKeys(tray),
             WithOrder(tray.config, order))

(* A move past either end, or of an unknown key, returns at once.          *)
MoveItem(c, key, delta) ==
  LET current == OrderedKeys(tray)
      order   == MovedOrder(current, key, delta)
  IN  /\ order # NoMove
      /\ Ask(c, [method |-> "MoveItem", key |-> key, delta |-> delta], current,
             WithOrder(tray.config, order))

-----------------------------------------------------------------------------
(* Store::apply, and the effect PersistConfig if it is among the effects.  *)
(* Mistake: what is saved is the configuration before the change.          *)
ApplySavingOld(c) ==
  /\ call[c].pc = "apply"
  /\ LET next == UpdateConfig(tray, call[c].wanted)
     IN  /\ tray' = next.state /\ Bounded
         /\ call' = [call EXCEPT ![c].pc = IF next.state.config = tray.config
                                           THEN "done" ELSE "open",
                                 ![c].wanted = tray.config]
  /\ UNCHANGED <<last_error, fileVars, boundVars>>

Apply(c) ==
  /\ call[c].pc = "apply"
  /\ LET next == UpdateConfig(tray, call[c].wanted)
         save == {e \in ToSet(next.effects) : e.effect = "PersistConfig"}
     IN  /\ tray' = next.state /\ Bounded
         /\ \/ \E e \in save :
                 call' = [call EXCEPT ![c].pc = "open", ![c].wanted = e.config]
            \/ save = {} /\ call' = [call EXCEPT ![c].pc = "done"]
  /\ UNCHANGED <<last_error, fileVars, boundVars>>

(* Mistake: the configuration file is written in place.                    *)
OpenInPlace(c) ==
  /\ call[c].pc = "open"
  /\ LET inode == IF path # NoFile THEN path ELSE 1
     IN  /\ content' = [content EXCEPT ![inode] = Empty]
         /\ path' = inode /\ temporary' = inode
         /\ call' = [call EXCEPT ![c].pc = "write", ![c].file = inode]
  /\ UNCHANGED <<tray, last_error, boundVars>>

(* save: fs::write creates the temporary file or truncates the one there...*)
Open(c) ==
  /\ call[c].pc = "open"
  /\ LET held  == {path, temporary} \cup {call[d].file : d \in Call}
         inode == IF temporary # NoFile THEN temporary
                  ELSE CHOOSE i \in Inode : i \notin held
     IN  /\ content' = [content EXCEPT ![inode] = Empty]
         /\ temporary' = inode
         /\ call' = [call EXCEPT ![c].pc = "write", ![c].file = inode]
  /\ UNCHANGED <<tray, last_error, path, boundVars>>

(* ...and writes into it; over the text of another writer, the tail of a   *)
(* longer text remains.                                                    *)
Write(c) ==
  /\ call[c].pc = "write"
  /\ LET file == call[c].file
         new  == call[c].wanted
     IN  \E text \in IF content[file] \in {Empty, new} THEN {new} ELSE {new, Broken} :
           content' = [content EXCEPT ![file] = text]
  /\ call' = [call EXCEPT ![c].pc = "rename", ![c].file = NoFile]
  /\ UNCHANGED <<tray, last_error, path, temporary, boundVars>>

(* Mistake: the new name is a link, the temporary name stays.              *)
RenameLinking(c) ==
  /\ call[c].pc = "rename"
  /\ \/ temporary # NoFile /\ path' = temporary /\ UNCHANGED last_error
     \/ temporary = NoFile /\ last_error' = TRUE /\ UNCHANGED path
  /\ call' = [call EXCEPT ![c].pc = "done"]
  /\ UNCHANGED <<tray, content, temporary, boundVars>>

(* rename: there may be no temporary file any more, that is an error.      *)
Rename(c) ==
  /\ call[c].pc = "rename"
  /\ \/ temporary # NoFile /\ path' = temporary /\ temporary' = NoFile
        /\ UNCHANGED last_error
     \/ temporary = NoFile /\ last_error' = TRUE /\ UNCHANGED <<path, temporary>>
  /\ call' = [call EXCEPT ![c].pc = "done"]
  /\ UNCHANGED <<tray, content, boundVars>>

(* Mistake: a failure to save is not recorded.                             *)
SaveFailsSilently(c) ==
  /\ call[c].pc \in {"open", "write", "rename"} /\ failures < MaxFailures
  /\ failures' = failures + 1
  /\ call' = [call EXCEPT ![c].pc = "done", ![c].file = NoFile]
  /\ UNCHANGED <<tray, last_error, fileVars, crashes>>

(* Any step of save may fail, a write after some of the text; the error is *)
(* recorded and the call ends well.                                        *)
SaveFails(c) ==
  /\ failures < MaxFailures
  /\ \/ call[c].pc \in {"open", "rename"} /\ UNCHANGED content
     \/ /\ call[c].pc = "write"
        /\ \E text \in {Empty, Broken} : content' = [content EXCEPT ![call[c].file] = text]
  /\ failures' = failures + 1
  /\ last_error' = TRUE
  /\ call' = [call EXCEPT ![c].pc = "done", ![c].file = NoFile]
  /\ UNCHANGED <<tray, path, temporary, crashes>>

(* The daemon is killed and started again: calls under way are lost.       *)
Crash ==
  /\ crashes < MaxCrashes
  /\ crashes' = crashes + 1
  /\ tray' = FreshState(Load)
  /\ last_error' = FALSE
  /\ call' = [c \in Call |-> IF c \in InFlight
                             THEN [call[c] EXCEPT !.pc = "done", !.file = NoFile]
                             ELSE call[c]]
  /\ UNCHANGED <<fileVars, failures>>

-----------------------------------------------------------------------------
Handle(c) ==
  \/ \E v \in View : SetConfig(c, v)
  \/ \E k \in Key, h \in BOOLEAN : SetItemHidden(c, k, h)
  \/ \E k \in Key, d \in Delta : MoveItem(c, k, d)

CallStep(c) == Apply(c) \/ Open(c) \/ Write(c) \/ Rename(c) \/ SaveFails(c)

Next ==
  \/ \E s \in Service : Registered(s)
  \/ \E k \in Key : Vanished(k)
  \/ \E c \in Call : Handle(c) \/ CallStep(c)
  \/ Crash

Spec == Init /\ [][Next]_vars

-----------------------------------------------------------------------------
(* The configurations the daemon can hold.                                 *)
KeptConfig ==
  [ icon_size : 8 .. 128, sort : SortMode, order : Seq(Key), hidden : Seq(Key),
    panel_position : 0 .. 64 ]

(* The daemon only ever holds configurations in normal form, whatever      *)
(* clients send and whatever it finds on disk; what save writes into is    *)
(* never the file load would read.                                         *)
TypeOK ==
  /\ tray.config \in KeptConfig
  /\ IsInjective(tray.config.order) /\ IsInjective(tray.config.hidden)
  /\ tray.items \subseteq Item /\ tray.revision \in 0 .. MaxRevision
  /\ last_error \in BOOLEAN
  /\ path \in Inode \cup {NoFile} /\ temporary \in Inode \cup {NoFile}
  /\ path = temporary => path = NoFile
  /\ \A c \in Call :
       /\ call[c].pc \in {"unused", "apply", "open", "write", "rename", "done"}
       /\ call[c].request \in Request \cup {NoCall}
       /\ call[c].file # NoFile <=> call[c].pc = "write"

(* "a crash must not leave a half written file" (save, config_store.rs):   *)
(* whenever the daemon is killed, the file is whole.                       *)
NeverHalfWritten == path # NoFile => content[path] \notin {Empty, Broken}

(* Once every call has returned, a restart would find the configuration in *)
(* use, or the status shows that saving failed.                            *)
DiskFollowsMemory == InFlight = {} => Load = tray.config \/ last_error

(* Keeping the configuration is durable: a crash takes back at most the    *)
(* latest change (DESIGN.md, "One writer, one source of truth").           *)
Durable ==
  INSTANCE DurableConfig
    WITH Config <- KeptConfig, live <- tray.config, saved <- Load, warned <- last_error

DurableSpec == Durable!DurableSpec

Applied(c) == call[c].pc = "apply" /\ call'[c].pc # "apply" /\ crashes' = crashes

(* "Hide or show one item without touching the rest of the config"         *)
(* (set_item_hidden): the rest is what it was just before, not what it was *)
(* when the call began.                                                    *)
HideTouchesNothingElse ==
  [][ \A c \in Call :
        Applied(c) /\ call[c].request.method = "SetItemHidden" =>
          /\ [tray'.config EXCEPT !.hidden = <<>>] = [tray.config EXCEPT !.hidden = <<>>]
          /\ \A k \in Key \ {call[c].request.key} :
               IsHidden(tray'.config, k) = IsHidden(tray.config, k) ]_vars

(* After MoveItem the items the user saw and that are still there are in   *)
(* the order the user saw, but for the one that moved: it is behind what   *)
(* came before its old place and what it passed, whatever sort mode was in *)
(* use and whatever appeared or vanished meanwhile (move_item).            *)
MoveIsShown ==
  [][ \A c \in Call :
        Applied(c) /\ call[c].request.method = "MoveItem" =>
          LET key  == call[c].request.key
              seen == call[c].current
              now  == OrderedKeys(tray')
              to   == PlaceIn(seen, key) + call[c].request.delta
              Passed(k) == IF call[c].request.delta > 0 THEN PlaceIn(seen, k) <= to
                                                        ELSE PlaceIn(seen, k) < to
          IN  \A k \in (ToSet(seen) \cap ToSet(now)) \ {key} :
                /\ key \in ToSet(now) =>
                     (PlaceIn(now, k) < PlaceIn(now, key) <=> Passed(k))
                /\ \A l \in (ToSet(seen) \cap ToSet(now)) \ {key} :
                     PlaceIn(now, k) < PlaceIn(now, l)
                       <=> PlaceIn(seen, k) < PlaceIn(seen, l) ]_vars
=============================================================================
