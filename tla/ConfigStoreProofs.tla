------------------------- MODULE ConfigStoreProofs -------------------------
(***************************************************************************)
(* However calls overlap, the daemon holds a configuration in normal form  *)
(* (TypedInv), and a move that is served shows what was asked for.  When   *)
(* they do not overlap, the configuration file is never half written, and  *)
(* a crash takes back at most the latest change, whatever fails and        *)
(* whenever the daemon is killed.                                          *)
(*                                                                         *)
(* All writers share one temporary file.  A writer alone finds in it what  *)
(* it put there itself: nothing once it opened it, its own configuration   *)
(* once it wrote it (WriterAlone).  That is what rename makes the file of, *)
(* and no later writer opens that inode again, because it has lost its     *)
(* temporary name (NamesApart).  What it writes is the configuration in    *)
(* use (WantedKept), so between two calls the file holds that (DiskKept).  *)
(***************************************************************************)
EXTENDS ConfigStore, TrayStateProofs, TLAPS, FiniteSetTheorems

CallFields == {"pc", "request", "current", "wanted", "file"}

Shapes ==
  /\ DOMAIN content = Inode
  /\ DOMAIN call = Call
  /\ \A c \in Call : DOMAIN call[c] = CallFields

NamesApart ==
  /\ path \in Inode \cup {NoFile}
  /\ temporary \in Inode \cup {NoFile}
  /\ path = temporary => path = NoFile

OneAtATime == \A c, d \in InFlight : c = d

WriterAlone ==
  \A c \in Call :
    /\ call[c].pc \in {"open", "write", "rename"} => call[c].wanted \notin {Empty, Broken}
    /\ call[c].pc = "write" =>
         temporary # NoFile /\ call[c].file = temporary /\ content[temporary] = Empty
    /\ call[c].pc = "rename" => temporary # NoFile /\ content[temporary] = call[c].wanted
    /\ call[c].pc # "write" => call[c].file = NoFile

(* The inductive invariant.                                                *)
WholeInv == Shapes /\ NamesApart /\ OneAtATime /\ WriterAlone /\ NeverHalfWritten

(* Calls do not overlap, and no configuration reads as an empty or as a    *)
(* broken file.                                                            *)
Sequential == MaxInFlight <= 1
ConfigsReadWell == \A c : Normalized(c) \notin {Empty, Broken}

-----------------------------------------------------------------------------
(* Two inodes are left when there is no temporary file: the file itself    *)
(* holds at most one of them.                                              *)
LEMMA SomeInodeIsFree ==
  ASSUME WholeInv, NEW c \in Call, call[c].pc = "open", temporary = NoFile
  PROVE  \E i \in Inode : i \notin {path, temporary} \cup {call[d].file : d \in Call}
<1>1. Cardinality(Call) \in Nat
  BY StoreAssumption, FS_CardinalityType
<1>2. 1 \in Inode /\ 2 \in Inode
  BY <1>1 DEF Inode
<1>3. \A d \in Call : call[d].file = NoFile
  <2> SUFFICES ASSUME NEW d \in Call, call[d].pc = "write" PROVE FALSE
    BY DEF WholeInv, WriterAlone
  <2>1. c \in InFlight /\ d \in InFlight
    BY DEF InFlight
  <2> QED BY <2>1 DEF WholeInv, OneAtATime
<1>4. {path, temporary} \cup {call[d].file : d \in Call} \subseteq {path, NoFile}
  BY <1>3
<1> QED BY <1>2, <1>4, InodeAssumption

(* While a call is under way, all others wait or are over.                 *)
LEMMA OthersAreIdle ==
  ASSUME WholeInv, NEW c \in InFlight, NEW d \in Call, d # c
  PROVE  call[d].pc \in {"unused", "done"} /\ call[d].file = NoFile
<1>1. d \notin InFlight
  BY DEF WholeInv, OneAtATime
<1>2. call[d].pc \in {"unused", "done"}
  BY <1>1 DEF InFlight
<1> QED BY <1>2 DEF WholeInv, WriterAlone

-----------------------------------------------------------------------------
LEMMA InitWhole == Init => WholeInv
<1> SUFFICES ASSUME Init PROVE WholeInv
  OBVIOUS
<1>1. \A c \in Call : call[c] = NotMade
  BY DEF Init
<1>2. Shapes
  BY <1>1 DEF Init, Shapes, CallFields, NotMade
<1>3. InFlight = {}
  BY <1>1 DEF InFlight, NotMade
<1>4. NamesApart /\ NeverHalfWritten
  BY DEF Init, NamesApart, NeverHalfWritten
<1>5. WriterAlone
  BY <1>1 DEF WriterAlone, NotMade
<1> QED BY <1>2, <1>3, <1>4, <1>5 DEF WholeInv, OneAtATime

(* A step that leaves the files and the calls alone.                       *)
LEMMA ElsewhereWhole ==
  ASSUME WholeInv, UNCHANGED <<call, fileVars>>
  PROVE  WholeInv'
BY DEF WholeInv, Shapes, NamesApart, OneAtATime, InFlight, WriterAlone, NeverHalfWritten,
       fileVars

(* A call begins: there was none.                                          *)
LEMMA AskWhole ==
  ASSUME Sequential, WholeInv, NEW c \in Call, NEW request, NEW current, NEW wanted,
         Ask(c, request, current, wanted)
  PROVE  WholeInv'
<1>1. InFlight = {}
  <2>1. IsFiniteSet(InFlight)
    BY StoreAssumption, FS_Subset DEF InFlight
  <2>2. Cardinality(InFlight) = 0
    BY <2>1, FS_CardinalityType, StoreAssumption DEF Ask, Sequential
  <2> QED BY <2>1, <2>2, FS_EmptySet
<1>2. /\ call'[c] = [pc |-> "apply", request |-> request, current |-> current,
                     wanted |-> wanted, file |-> NoFile]
      /\ DOMAIN call' = Call /\ \A d \in Call \ {c} : call'[d] = call[d]
  BY DEF Ask, WholeInv, Shapes
<1>3. Shapes'
  BY <1>2 DEF Ask, WholeInv, Shapes, CallFields, fileVars
<1>4. OneAtATime'
  BY <1>1, <1>2 DEF OneAtATime, InFlight
<1>5. NamesApart' /\ NeverHalfWritten'
  BY DEF Ask, WholeInv, NamesApart, NeverHalfWritten, fileVars
<1>6. WriterAlone'
  BY <1>2 DEF Ask, WholeInv, WriterAlone, fileVars
<1> QED BY <1>3, <1>4, <1>5, <1>6 DEF WholeInv

(* A step of the call c leaves all other calls as they were.               *)
LEMMA StepOfOne ==
  ASSUME WholeInv, NEW c \in InFlight,
         DOMAIN call' = Call, \A d \in Call \ {c} : call'[d] = call[d]
  PROVE  /\ OneAtATime'
         /\ \A d \in Call \ {c} : call'[d].pc \in {"unused", "done"} /\ call'[d].file = NoFile
<1>1. \A d \in Call \ {c} : call'[d].pc \in {"unused", "done"} /\ call'[d].file = NoFile
  BY OthersAreIdle
<1>2. InFlight' \subseteq {c}
  BY <1>1 DEF InFlight
<1> QED BY <1>1, <1>2 DEF OneAtATime

(* The configuration is changed, and what is to be saved is in normal form.*)
LEMMA ApplyWhole ==
  ASSUME ConfigsReadWell, WholeInv, NEW c \in Call, Apply(c)
  PROVE  WholeInv'
<1>1. c \in InFlight
  BY DEF Apply, InFlight
<1>2. /\ DOMAIN call' = Call /\ DOMAIN call'[c] = CallFields
      /\ \A d \in Call \ {c} : call'[d] = call[d]
      /\ call'[c].file = call[c].file /\ call'[c].pc \in {"open", "done"}
  BY DEF Apply, WholeInv, Shapes, CallFields
<1>3. call'[c].pc = "open" => call'[c].wanted \notin {Empty, Broken}
  <2> SUFFICES ASSUME call'[c].pc = "open" PROVE call'[c].wanted \notin {Empty, Broken}
    OBVIOUS
  <2>1. PICK e \in ToSet(UpdateConfig(tray, call[c].wanted).effects) :
          /\ e.effect = "PersistConfig"
          /\ call' = [call EXCEPT ![c].pc = "open", ![c].wanted = e.config]
    BY DEF Apply, WholeInv, Shapes, CallFields
  <2>2. call'[c].wanted = e.config
    BY <2>1 DEF WholeInv, Shapes, CallFields
  <2> QED BY <2>1, <2>2, SavedIsNormal DEF ConfigsReadWell
<1>4. OneAtATime' /\ \A d \in Call \ {c} : call'[d].pc \in {"unused", "done"} /\ call'[d].file = NoFile
  BY <1>1, <1>2, StepOfOne
<1>5. Shapes' /\ NamesApart' /\ NeverHalfWritten'
  BY <1>2 DEF Apply, WholeInv, Shapes, NamesApart, NeverHalfWritten, fileVars
<1>6. WriterAlone'
  <2>1. call[c].file = NoFile
    BY DEF Apply, WholeInv, WriterAlone
  <2> QED BY <1>2, <1>3, <1>4, <2>1 DEF WriterAlone
<1> QED BY <1>4, <1>5, <1>6 DEF WholeInv

(* The temporary file is empty, and it is not the configuration file.      *)
LEMMA OpenWhole ==
  ASSUME WholeInv, NEW c \in Call, Open(c)
  PROVE  WholeInv'
<1>1. c \in InFlight
  BY DEF Open, InFlight
<1>2. PICK inode \in Inode :
        /\ inode # path
        /\ content' = [content EXCEPT ![inode] = Empty]
        /\ temporary' = inode
        /\ call' = [call EXCEPT ![c].pc = "write", ![c].file = inode]
  <2>1. CASE temporary # NoFile
    BY <2>1 DEF Open, WholeInv, NamesApart
  <2>2. CASE temporary = NoFile
    BY <2>2, SomeInodeIsFree DEF Open
  <2> QED BY <2>1, <2>2
<1>3. /\ DOMAIN call' = Call /\ DOMAIN call'[c] = CallFields
      /\ \A d \in Call \ {c} : call'[d] = call[d]
      /\ call'[c].file = inode /\ call'[c].pc = "write" /\ call'[c].wanted = call[c].wanted
  BY <1>2 DEF WholeInv, Shapes, CallFields
<1>4. /\ DOMAIN content' = Inode /\ content'[inode] = Empty
      /\ \A i \in Inode \ {inode} : content'[i] = content[i]
  BY <1>2 DEF WholeInv, Shapes
<1>5. OneAtATime' /\ \A d \in Call \ {c} : call'[d].pc \in {"unused", "done"} /\ call'[d].file = NoFile
  BY <1>1, <1>3, StepOfOne
<1>6. path' = path /\ inode # NoFile
  BY InodeAssumption DEF Open
<1>7. Shapes' /\ NamesApart' /\ NeverHalfWritten'
  BY <1>2, <1>3, <1>4, <1>6 DEF WholeInv, Shapes, NamesApart, NeverHalfWritten
<1>8. WriterAlone'
  <2>1. call[c].wanted \notin {Empty, Broken}
    BY DEF Open, WholeInv, WriterAlone
  <2> QED BY <1>2, <1>3, <1>4, <1>5, <1>6, <2>1 DEF WriterAlone
<1> QED BY <1>5, <1>7, <1>8 DEF WholeInv

(* A writer alone finds the file empty, so it mixes with nothing.          *)
LEMMA WriteWhole ==
  ASSUME WholeInv, NEW c \in Call, Write(c)
  PROVE  WholeInv'
<1>1. c \in InFlight
  BY DEF Write, InFlight
<1>2. /\ call[c].file = temporary /\ temporary \in Inode /\ temporary # path
      /\ content[temporary] = Empty /\ call[c].wanted \notin {Empty, Broken}
  BY DEF Write, WholeInv, WriterAlone, NamesApart
<1>3. /\ content' = [content EXCEPT ![temporary] = call[c].wanted]
      /\ path' = path /\ temporary' = temporary
  BY <1>2 DEF Write
<1>4. /\ DOMAIN call' = Call /\ DOMAIN call'[c] = CallFields
      /\ \A d \in Call \ {c} : call'[d] = call[d]
      /\ call'[c].file = NoFile /\ call'[c].pc = "rename" /\ call'[c].wanted = call[c].wanted
  BY DEF Write, WholeInv, Shapes, CallFields
<1>5. /\ DOMAIN content' = Inode /\ content'[temporary] = call[c].wanted
      /\ \A i \in Inode \ {temporary} : content'[i] = content[i]
  BY <1>2, <1>3 DEF WholeInv, Shapes
<1>6. OneAtATime' /\ \A d \in Call \ {c} : call'[d].pc \in {"unused", "done"} /\ call'[d].file = NoFile
  BY <1>1, <1>4, StepOfOne
<1>7. Shapes' /\ NamesApart' /\ NeverHalfWritten'
  BY <1>2, <1>3, <1>4, <1>5 DEF WholeInv, Shapes, NamesApart, NeverHalfWritten
<1>8. WriterAlone'
  BY <1>2, <1>3, <1>4, <1>5, <1>6, InodeAssumption DEF WriterAlone
<1> QED BY <1>6, <1>7, <1>8 DEF WholeInv

(* What gets the name of the configuration file is what was to be saved.   *)
LEMMA RenameWhole ==
  ASSUME WholeInv, NEW c \in Call, Rename(c)
  PROVE  WholeInv'
<1>1. c \in InFlight
  BY DEF Rename, InFlight
<1>2. /\ temporary # NoFile /\ content[temporary] = call[c].wanted
      /\ call[c].wanted \notin {Empty, Broken} /\ call[c].file = NoFile
  BY DEF Rename, WholeInv, WriterAlone
<1>3. path' = temporary /\ temporary' = NoFile /\ content' = content
  BY <1>2 DEF Rename
<1>4. /\ DOMAIN call' = Call /\ DOMAIN call'[c] = CallFields
      /\ \A d \in Call \ {c} : call'[d] = call[d]
      /\ call'[c].file = call[c].file /\ call'[c].pc = "done"
  BY DEF Rename, WholeInv, Shapes, CallFields
<1>5. OneAtATime' /\ \A d \in Call \ {c} : call'[d].pc \in {"unused", "done"} /\ call'[d].file = NoFile
  BY <1>1, <1>4, StepOfOne
<1>6. Shapes' /\ NamesApart' /\ NeverHalfWritten'
  BY <1>2, <1>3, <1>4 DEF WholeInv, Shapes, NamesApart, NeverHalfWritten
<1>7. WriterAlone'
  BY <1>2, <1>4, <1>5 DEF WriterAlone
<1> QED BY <1>5, <1>6, <1>7 DEF WholeInv

(* Whatever was left in the temporary file, it keeps that name.            *)
LEMMA SaveFailsWhole ==
  ASSUME WholeInv, NEW c \in Call, SaveFails(c)
  PROVE  WholeInv'
<1>1. c \in InFlight
  BY DEF SaveFails, InFlight
<1>2. /\ DOMAIN content' = Inode /\ (path # NoFile => content'[path] = content[path])
      /\ path' = path /\ temporary' = temporary
  <2>1. CASE call[c].pc = "write"
    <3>1. call[c].file = temporary /\ (path # NoFile => temporary # path)
      BY <2>1 DEF WholeInv, WriterAlone, NamesApart
    <3> QED BY <2>1, <3>1 DEF SaveFails, WholeInv, Shapes, NamesApart
  <2>2. CASE call[c].pc # "write"
    BY <2>2 DEF SaveFails, WholeInv, Shapes
  <2> QED BY <2>1, <2>2
<1>3. /\ DOMAIN call' = Call /\ DOMAIN call'[c] = CallFields
      /\ \A d \in Call \ {c} : call'[d] = call[d]
      /\ call'[c].file = NoFile /\ call'[c].pc = "done"
  BY DEF SaveFails, WholeInv, Shapes, CallFields
<1>4. OneAtATime' /\ \A d \in Call \ {c} : call'[d].pc \in {"unused", "done"} /\ call'[d].file = NoFile
  BY <1>1, <1>3, StepOfOne
<1>5. Shapes' /\ NamesApart' /\ NeverHalfWritten'
  BY <1>2, <1>3 DEF WholeInv, Shapes, NamesApart, NeverHalfWritten
<1>6. WriterAlone'
  BY <1>3, <1>4 DEF WriterAlone
<1> QED BY <1>4, <1>5, <1>6 DEF WholeInv

(* Killed at any step: the files stay as they are, no writer is left.      *)
LEMMA CrashWhole ==
  ASSUME WholeInv, Crash
  PROVE  WholeInv'
<1>1. /\ DOMAIN call' = Call
      /\ \A d \in Call : /\ DOMAIN call'[d] = CallFields
                         /\ call'[d].pc \in {"unused", "done"} /\ call'[d].file = NoFile
  <2> SUFFICES ASSUME NEW d \in Call
               PROVE  /\ DOMAIN call'[d] = CallFields
                      /\ call'[d].pc \in {"unused", "done"} /\ call'[d].file = NoFile
    BY DEF Crash
  <2>1. CASE d \in InFlight
    BY <2>1 DEF Crash, WholeInv, Shapes, CallFields
  <2>2. CASE d \notin InFlight
    <3>1. call'[d] = call[d]
      BY <2>2 DEF Crash
    <3> QED BY <2>2, <3>1 DEF InFlight, WholeInv, Shapes, WriterAlone
  <2> QED BY <2>1, <2>2
<1>2. InFlight' = {}
  BY <1>1 DEF InFlight
<1>3. Shapes' /\ NamesApart' /\ NeverHalfWritten'
  BY <1>1 DEF Crash, fileVars, WholeInv, Shapes, NamesApart, NeverHalfWritten
<1>4. WriterAlone'
  BY <1>1 DEF WriterAlone
<1> QED BY <1>2, <1>3, <1>4 DEF WholeInv, OneAtATime

-----------------------------------------------------------------------------
LEMMA NextWhole ==
  ASSUME Sequential, ConfigsReadWell, WholeInv, [Next]_vars
  PROVE  WholeInv'
<1>1. ASSUME NEW s \in Service, Registered(s) PROVE WholeInv'
  BY <1>1, ElsewhereWhole DEF Registered
<1>2. ASSUME NEW k \in Key, Vanished(k) PROVE WholeInv'
  BY <1>2, ElsewhereWhole DEF Vanished
<1>3. ASSUME NEW c \in Call, Handle(c) PROVE WholeInv'
  <2>1. \E request, current, wanted : Ask(c, request, current, wanted)
    BY <1>3 DEF Handle, SetConfig, SetItemHidden, MoveItem
  <2> QED BY <2>1, AskWhole
<1>4. ASSUME NEW c \in Call, CallStep(c) PROVE WholeInv'
  BY <1>4, ApplyWhole, OpenWhole, WriteWhole, RenameWhole, SaveFailsWhole DEF CallStep
<1>5. CASE UNCHANGED vars
  BY <1>5, ElsewhereWhole DEF vars
<1> QED BY <1>1, <1>2, <1>3, <1>4, <1>5, CrashWhole DEF Next

(* "a crash must not leave a half written file" (config_store.rs save)     *)
(* holds as long as calls do not overlap: for any number of calls, of      *)
(* failures at any of the steps of saving, and of crashes in between.      *)
(* (MCConfigTorn shows two overlapping calls that break it.)               *)
THEOREM FileStaysWhole ==
  ASSUME Sequential, ConfigsReadWell
  PROVE  Spec => []NeverHalfWritten
<1>1. Init => WholeInv
  BY InitWhole
<1>2. WholeInv /\ [Next]_vars => WholeInv'
  BY NextWhole
<1>3. WholeInv => NeverHalfWritten
  BY DEF WholeInv
<1> QED BY <1>1, <1>2, <1>3, PTL DEF Spec

-----------------------------------------------------------------------------
(* What the tray, the files and the calls hold, however calls overlap.     *)
Saving == {"open", "write", "rename"}

TrayTyped ==
  /\ WellFormed(tray) /\ Normal(tray.config)
  /\ \A i \in tray.items : i.since <= tray.revision
  /\ \A i, j \in tray.items : i.since = j.since => i = j
  /\ tray.revision <= MaxRevision /\ last_error \in BOOLEAN

FilesTyped == \A i \in Inode : content[i] \in {Empty, Broken} \/ Normal(content[i])

CallTyped(r) ==
  /\ r.pc \in {"unused", "apply", "done"} \cup Saving
  /\ r.request \in Request \cup {NoCall}
  /\ r.pc = "apply" => r.request \in Request
  /\ r.pc \in {"apply"} \cup Saving => Normal(r.wanted)
  /\ r.file # NoFile <=> r.pc = "write"
  /\ r.file \in Inode \cup {NoFile}

TypedInv ==
  Shapes /\ NamesApart /\ TrayTyped /\ FilesTyped /\ \A c \in Call : CallTyped(call[c])

-----------------------------------------------------------------------------
(* A restart finds what is in the file, as it is, or the default.          *)
LEMMA LoadIsNormal ==
  ASSUME NamesApart, FilesTyped
  PROVE  /\ Normal(Load)
         /\ path # NoFile /\ content[path] \notin {Empty, Broken} => Load = content[path]
<1>1. CASE path = NoFile \/ content[path] \in {Empty, Broken}
  BY <1>1, DefaultIsNormal DEF Load
<1>2. CASE path # NoFile /\ content[path] \notin {Empty, Broken}
  <2>1. Normal(content[path])
    BY <1>2 DEF FilesTyped, NamesApart
  <2>2. Load = Normalized(content[path])
    BY <1>2 DEF Load
  <2> QED BY <1>2, <2>1, <2>2, NormalStays
<1> QED BY <1>1, <1>2

LEMMA LoadStays ==
  ASSUME path' = path, path # NoFile => content'[path] = content[path]
  PROVE  Load' = Load
  BY DEF Load

(* What TrayTyped says, as the lemmas on order want it.                    *)
LEMMA TypedIsSortable ==
  ASSUME TrayTyped
  PROVE  IsFiniteSet(tray.items) /\ Distinct(tray.items) /\ Sortable(tray.config)
<1>1. IsFiniteSet(tray.items)
  BY FinitelyManyItems DEF TrayTyped, WellFormed
<1>2. Distinct(tray.items)
  BY DEF TrayTyped, WellFormed, Distinct
<1>3. Sortable(tray.config)
  BY DEF TrayTyped, Normal, Sortable
<1> QED BY <1>1, <1>2, <1>3

(* A tray that was just started.                                           *)
LEMMA FreshTyped ==
  ASSUME NEW config, Normal(config)
  PROVE  /\ WellFormed(FreshState(config)) /\ FreshState(config).config = config
         /\ FreshState(config).items = {} /\ FreshState(config).revision = 0
         /\ 0 <= MaxRevision
<1>1. MaxRevision \in Nat
  BY StoreAssumption
<1> QED BY <1>1 DEF FreshState, WellFormed

LEMMA InitTyped == Init => TypedInv
<1> SUFFICES ASSUME Init PROVE TypedInv
  OBVIOUS
<1>1. Shapes /\ NamesApart
  BY InitWhole DEF WholeInv
<1>2. FilesTyped
  BY DEF Init, FilesTyped
<1>3. TrayTyped
  <2>1. Normal(Load)
    BY <1>1, <1>2, LoadIsNormal
  <2>2. tray = FreshState(Load) /\ last_error = FALSE
    BY DEF Init
  <2> QED BY <2>1, <2>2, FreshTyped DEF TrayTyped
<1>4. \A c \in Call : call[c] = NotMade
  BY DEF Init
<1>5. CallTyped(NotMade)
  BY DEF CallTyped, NotMade, Saving
<1> QED BY <1>1, <1>2, <1>3, <1>4, <1>5 DEF TypedInv

-----------------------------------------------------------------------------
(* Items come and go.                                                      *)
LEMMA RegisteredTyped ==
  ASSUME TrayTyped, NEW s \in Service, Registered(s)
  PROVE  TrayTyped' /\ tray'.config = tray.config
<1> DEFINE kept == {i \in tray.items : i.service # s}
           item == [ since |-> tray.revision + 1,
                     key   |-> AllocateKey(kept, Sanitize[PreferredName(Speaks[s])]),
                     service |-> s, props |-> Speaks[s], menu |-> NoMenu ]
<1>0. WellFormed(tray) /\ tray.revision \in Nat /\ Speaks[s] \in Props
  BY StoreAssumption DEF TrayTyped, WellFormed
<1>1. WellFormed(tray')
  BY <1>0, RegisterWellFormed DEF Registered
<1>2. tray' = [ config |-> tray.config, items |-> kept \cup {item},
                revision |-> tray.revision + 1 ]
  BY <1>0 DEF Registered, Register, AnnounceItems, WellFormed
<1>3. tray'.config = tray.config /\ tray'.revision = tray.revision + 1
      /\ tray'.revision <= MaxRevision
  BY <1>2 DEF Registered, Bounded
<1>4. tray'.items = kept \cup {item} /\ item.since = tray.revision + 1
  BY <1>2
<1>5. \A i \in kept : i \in tray.items /\ i.since \in Nat /\ i.since <= tray.revision
  BY DEF TrayTyped, WellFormed, Item
<1> HIDE DEF kept, item
<1>6. \A i \in tray'.items : i.since <= tray'.revision
  BY <1>0, <1>3, <1>4, <1>5
<1>7. \A i, j \in tray'.items : i.since = j.since => i = j
  <2>1. \A i \in kept : i.since # item.since
    BY <1>0, <1>4, <1>5
  <2> QED BY <1>4, <1>5, <2>1 DEF TrayTyped
<1>8. last_error' = last_error
  BY DEF Registered
<1> QED BY <1>1, <1>3, <1>6, <1>7, <1>8 DEF TrayTyped

LEMMA VanishedTyped ==
  ASSUME TrayTyped, NEW k \in Key, Vanished(k)
  PROVE  TrayTyped' /\ tray'.config = tray.config
<1> DEFINE kept == {i \in tray.items : i.key # k}
<1>0. WellFormed(tray) /\ tray.revision \in Nat
  BY DEF TrayTyped, WellFormed
<1>1. WellFormed(tray')
  BY <1>0, VanishWellFormed DEF Vanished
<1>2. \/ tray' = tray
      \/ tray' = [config |-> tray.config, items |-> kept, revision |-> tray.revision + 1]
  BY <1>0 DEF Vanished, Vanish, AnnounceItems, NoEffect, WellFormed
<1>3. kept \subseteq tray.items
  OBVIOUS
<1> HIDE DEF kept
<1>4. /\ tray'.config = tray.config /\ tray'.revision <= MaxRevision
      /\ tray'.items \subseteq tray.items
      /\ tray'.revision \in {tray.revision, tray.revision + 1}
  BY <1>2, <1>3 DEF Vanished, Bounded
<1>5. \A i \in tray.items : i.since \in Nat /\ i.since <= tray.revision
  BY DEF TrayTyped, WellFormed, Item
<1>6. \A i \in tray'.items : i.since <= tray'.revision
  BY <1>0, <1>4, <1>5
<1>7. \A i, j \in tray'.items : i.since = j.since => i = j
  BY <1>4 DEF TrayTyped
<1>8. last_error' = last_error
  BY DEF Vanished
<1> QED BY <1>1, <1>4, <1>6, <1>7, <1>8 DEF TrayTyped

(* Everything but the tray stays.                                          *)
LEMMA ElsewhereTyped ==
  ASSUME TypedInv, TrayTyped', UNCHANGED <<call, fileVars>>
  PROVE  TypedInv'
<1>1. Shapes' /\ NamesApart' /\ FilesTyped'
  BY DEF TypedInv, Shapes, NamesApart, FilesTyped, fileVars
<1>2. \A c \in Call : CallTyped(call'[c])
  BY DEF TypedInv
<1> QED BY <1>1, <1>2 DEF TypedInv

(* A call begins; what it wants is in normal form.                         *)
AsksWell(c) ==
  \E request, current, wanted :
    /\ request \in Request /\ Normal(wanted)
    /\ Ask(c, request, current, wanted)

LEMMA HandleAsksWell ==
  ASSUME TrayTyped, NEW c \in Call, Handle(c)
  PROVE  AsksWell(c)
<1>1. ASSUME NEW v \in View, SetConfig(c, v)
      PROVE  AsksWell(c)
  <2> DEFINE request == [method |-> "SetConfig", view |-> v]
  <2>1. request \in Request
    BY DEF Request
  <2>2. v \in RawForm
    BY StoreAssumption DEF RawForm
  <2>3. Normal(FromView(v))
    BY <2>2, FromViewIsNormal
  <2>4. Ask(c, request, <<>>, FromView(v))
    BY <1>1 DEF SetConfig
  <2> HIDE DEF request
  <2> QED BY <2>1, <2>3, <2>4 DEF AsksWell
<1>2. ASSUME NEW k \in Key, NEW h \in BOOLEAN, SetItemHidden(c, k, h)
      PROVE  AsksWell(c)
  <2> DEFINE request == [method |-> "SetItemHidden", key |-> k, hidden |-> h]
             wanted == WithHidden(tray.config, k, h)
  <2>1. request \in Request
    BY DEF Request
  <2>2. Normal(tray.config)
    BY DEF TrayTyped
  <2>3. Normal(wanted)
    BY <2>2, HidingIsNormal
  <2>4. Ask(c, request, <<>>, wanted)
    BY <1>2 DEF SetItemHidden
  <2> HIDE DEF request, wanted
  <2> QED BY <2>1, <2>3, <2>4 DEF AsksWell
<1>3. ASSUME NEW k \in Key, NEW d \in Delta, MoveItem(c, k, d)
      PROVE  AsksWell(c)
  <2> DEFINE request == [method |-> "MoveItem", key |-> k, delta |-> d]
             current == OrderedKeys(tray)
             order == MovedOrder(current, k, d)
             wanted == WithOrder(tray.config, order)
  <2>1. request \in Request
    BY DEF Request
  <2>2. Normal(tray.config)
    BY DEF TrayTyped
  <2>3. current \in Seq(Key) /\ IsInjective(current)
    BY TypedIsSortable, KeysInOrder
  <2>4. order # NoMove /\ Ask(c, request, current, wanted)
    BY <1>3 DEF MoveItem
  <2> HIDE DEF current
  <2>5. d \in Int
    BY StoreAssumption
  <2>6. order \in Seq(Key)
    BY <2>3, <2>4, <2>5, MovedOrderMoves
  <2> HIDE DEF order
  <2>7. Normal(wanted)
    BY <2>2, <2>6, WithOrderIsNormal
  <2> HIDE DEF request, wanted
  <2> QED BY <2>1, <2>4, <2>7 DEF AsksWell
<1> QED BY <1>1, <1>2, <1>3 DEF Handle

LEMMA AskTyped ==
  ASSUME TypedInv, NEW c \in Call, AsksWell(c)
  PROVE  TypedInv'
<1>1. PICK request, current, wanted :
        request \in Request /\ Ask(c, request, current, wanted) /\ Normal(wanted)
  BY DEF AsksWell
<1>2. /\ call'[c] = [pc |-> "apply", request |-> request, current |-> current,
                     wanted |-> wanted, file |-> NoFile]
      /\ DOMAIN call' = Call /\ \A d \in Call \ {c} : call'[d] = call[d]
      /\ UNCHANGED <<tray, last_error, content, path, temporary>>
  BY <1>1 DEF Ask, TypedInv, Shapes, fileVars
<1>3. DOMAIN call'[c] = CallFields /\ CallTyped(call'[c])
  BY <1>1, <1>2 DEF CallFields, CallTyped, Saving
<1>4. TrayTyped' /\ FilesTyped' /\ NamesApart'
  BY <1>2 DEF TypedInv, TrayTyped, FilesTyped, NamesApart
<1>5. Shapes'
  BY <1>2, <1>3 DEF TypedInv, Shapes
<1> QED BY <1>2, <1>3, <1>4, <1>5 DEF TypedInv

-----------------------------------------------------------------------------
(* Store::apply: the configuration in use is the one that was wanted, and  *)
(* it is the one that is saved.                                            *)
LEMMA ApplyTyped ==
  ASSUME TypedInv, NEW c \in Call, Apply(c)
  PROVE  /\ TypedInv' /\ tray'.config = call[c].wanted
         /\ \A d \in Call \ {c} : call'[d] = call[d]
         /\ call'[c].pc \in {"open", "done"} /\ call'[c].request = call[c].request
         /\ call'[c].pc = "open" => call'[c].wanted = call[c].wanted
         /\ call'[c].pc = "done" => call[c].wanted = tray.config
         /\ UNCHANGED <<last_error, content, path, temporary>>
<1> DEFINE wanted == call[c].wanted
<1>1. call[c].pc = "apply" /\ CallTyped(call[c]) /\ DOMAIN call = Call /\ DOMAIN call[c] = CallFields
  BY DEF Apply, TypedInv, Shapes
<1>2. Normal(wanted)
  BY <1>1 DEF CallTyped
<1>3. Normalized(wanted) = wanted
  BY <1>2, NormalStays
<1>4. WellFormed(tray) /\ tray.revision \in Nat
  BY DEF TypedInv, TrayTyped, WellFormed
<1>5. tray' = [config |-> wanted, items |-> tray.items, revision |-> tray.revision + 1]
      /\ tray'.revision <= MaxRevision
  BY <1>3, <1>4 DEF Apply, Bounded, UpdateConfig, AnnounceItems, WellFormed
<1>6. \/ \E e \in ToSet(UpdateConfig(tray, wanted).effects) :
           /\ e.effect = "PersistConfig"
           /\ call' = [call EXCEPT ![c].pc = "open", ![c].wanted = e.config]
      \/ call' = [call EXCEPT ![c].pc = "done"]
  BY DEF Apply
<1>7. \/ call' = [call EXCEPT ![c].pc = "open", ![c].wanted = wanted]
      \/ call' = [call EXCEPT ![c].pc = "done"]
  BY <1>3, <1>6, SavedIsNormal
<1>8. /\ DOMAIN call' = Call /\ DOMAIN call'[c] = CallFields
      /\ \A d \in Call \ {c} : call'[d] = call[d]
      /\ call'[c].pc \in {"open", "done"} /\ call'[c].request = call[c].request
      /\ call'[c].wanted = wanted /\ call'[c].file = call[c].file
  BY <1>1, <1>7 DEF CallFields
<1>9. call'[c].pc = "done" => wanted = tray.config
  <2> SUFFICES ASSUME wanted # tray.config PROVE call'[c].pc = "open"
    BY <1>8
  <2>1. UpdateConfig(tray, wanted).effects
          = <<ItemsChanged(tray.revision + 1)>>
              \o <<ConfigChanged(tray.revision + 1), PersistConfig(wanted)>>
    BY <1>3, <1>4 DEF UpdateConfig, AnnounceItems, WellFormed
  <2>2. PersistConfig(wanted) \in ToSet(UpdateConfig(tray, wanted).effects)
    BY <2>1, EffectsOf
  <2>3. PersistConfig(wanted).effect = "PersistConfig"
    BY DEF PersistConfig
  <2>4. \E e : call' = [call EXCEPT ![c].pc = "open", ![c].wanted = e]
    BY <2>2, <2>3 DEF Apply
  <2> QED BY <1>1, <2>4 DEF CallFields
<1>10. UNCHANGED <<last_error, content, path, temporary>>
  BY DEF Apply, fileVars
<1>11. WellFormed(tray')
  BY <1>4, <1>5 DEF WellFormed
<1>12. /\ tray'.config = wanted /\ tray'.items = tray.items
       /\ tray'.revision = tray.revision + 1
  BY <1>5
<1> HIDE DEF wanted
<1>13. TrayTyped'
  <2>1. \A i \in tray.items : i.since \in Nat /\ i.since <= tray.revision
    BY DEF TypedInv, TrayTyped, WellFormed, Item
  <2>2. \A i \in tray.items : i.since <= tray.revision + 1
    BY <1>4, <2>1
  <2> QED BY <1>2, <1>5, <1>10, <1>11, <1>12, <2>2 DEF TypedInv, TrayTyped
<1>14. CallTyped(call'[c])
  BY <1>1, <1>2, <1>8 DEF CallTyped, Saving
<1>15. Shapes' /\ NamesApart' /\ FilesTyped'
  BY <1>8, <1>10 DEF TypedInv, Shapes, NamesApart, FilesTyped
<1>16. TypedInv'
  BY <1>8, <1>13, <1>14, <1>15 DEF TypedInv
<1> QED BY <1>8, <1>9, <1>10, <1>12, <1>16 DEF wanted

(* There are two inodes more than calls: one that opens the temporary file *)
(* finds one that neither name nor any other writer holds.                 *)
LEMMA SomeInodeIsLeft ==
  ASSUME TypedInv, NEW c \in Call, call[c].pc = "open", temporary = NoFile
  PROVE  \E i \in Inode : i \notin {path, temporary} \cup {call[d].file : d \in Call}
<1> DEFINE writers == {d \in Call : call[d].file # NoFile}
           files == {call[d].file : d \in writers}
           f == [d \in writers |-> call[d].file]
           N == Cardinality(Call)
<1>1. IsFiniteSet(Call) /\ N \in Nat
  BY StoreAssumption, FS_CardinalityType
<1>2. call[c].file = NoFile
  BY DEF TypedInv, CallTyped
<1>3. IsFiniteSet(writers)
  BY <1>1, FS_Subset
<1>4. Cardinality(writers) \in Nat /\ Cardinality(writers) <= N
  BY <1>1, <1>3, FS_Subset, FS_CardinalityType
<1>5. f \in Surjection(writers, files)
  BY DEF Surjection
<1>6. IsFiniteSet(files) /\ Cardinality(files) <= Cardinality(writers)
  <2> HIDE DEF f, writers, files
  <2> QED BY <1>3, <1>5, FS_Surjection
<1>7. \A d \in Call : call[d].file \in files \cup {NoFile}
  OBVIOUS
<1> HIDE DEF files, writers
<1>8. IsFiniteSet(files \cup {path}) /\ Cardinality(files \cup {path}) <= Cardinality(files) + 1
  <2>1. Cardinality(files) \in Nat
    BY <1>6, FS_CardinalityType
  <2>2. /\ IsFiniteSet(files \cup {path})
        /\ Cardinality(files \cup {path}) \in {Cardinality(files), Cardinality(files) + 1}
    BY <1>6, FS_AddElement
  <2> QED BY <2>1, <2>2
<1>9. IsFiniteSet(Inode) /\ Cardinality(Inode) = N + 2
  <2>1. 1 \in Int /\ N + 2 \in Int /\ ~(1 > N + 2) /\ (N + 2) - 1 + 1 = N + 2
    BY <1>1
  <2> HIDE DEF N
  <2>2. IsFiniteSet(1 .. N + 2) /\ Cardinality(1 .. N + 2) = N + 2
    BY <2>1, FS_Interval
  <2> QED BY <2>2 DEF Inode, N
<1>10. Cardinality(files) \in Nat /\ Cardinality(files \cup {path}) \in Nat
  BY <1>6, <1>8, FS_CardinalityType
<1>11. ~(Inode \subseteq files \cup {path})
  <2> SUFFICES ASSUME Inode \subseteq files \cup {path} PROVE FALSE
    OBVIOUS
  <2>1. Cardinality(Inode) <= Cardinality(files \cup {path})
    BY <1>8, FS_Subset
  <2> HIDE DEF N
  <2> QED BY <1>1, <1>4, <1>6, <1>8, <1>9, <1>10, <2>1
<1> QED BY <1>7, <1>11, InodeAssumption

(* fs::write and rename: what is in a file is empty, mixed or in normal    *)
(* form, and the name load reads is given to the temporary file only.      *)
LEMMA SaveTyped ==
  ASSUME TypedInv, NEW c \in Call,
         DOMAIN call' = Call, DOMAIN call'[c] = CallFields, CallTyped(call'[c]),
         \A d \in Call \ {c} : call'[d] = call[d],
         UNCHANGED tray, last_error' \in BOOLEAN,
         DOMAIN content' = Inode, FilesTyped', NamesApart'
  PROVE  TypedInv'
<1>1. TrayTyped'
  BY DEF TypedInv, TrayTyped
<1>2. Shapes'
  BY DEF TypedInv, Shapes
<1> QED BY <1>1, <1>2 DEF TypedInv

LEMMA OpenTyped ==
  ASSUME TypedInv, NEW c \in Call, Open(c)
  PROVE  /\ TypedInv'
         /\ \E inode \in Inode : /\ inode # path /\ temporary' = inode
                                 /\ content' = [content EXCEPT ![inode] = Empty]
                                 /\ call' = [call EXCEPT ![c].pc = "write", ![c].file = inode]
<1>1. PICK inode \in Inode : /\ inode # path /\ temporary' = inode
                             /\ content' = [content EXCEPT ![inode] = Empty]
                             /\ call' = [call EXCEPT ![c].pc = "write", ![c].file = inode]
  <2>1. CASE temporary # NoFile
    BY <2>1 DEF Open, TypedInv, NamesApart
  <2>2. CASE temporary = NoFile
    BY <2>2, SomeInodeIsLeft DEF Open
  <2> QED BY <2>1, <2>2
<1>2. call[c].pc = "open" /\ CallTyped(call[c]) /\ DOMAIN call = Call /\ DOMAIN call[c] = CallFields
  BY DEF Open, TypedInv, Shapes
<1>3. UNCHANGED <<tray, last_error, path>>
  BY DEF Open
<1>4. /\ DOMAIN call' = Call /\ DOMAIN call'[c] = CallFields
      /\ \A d \in Call \ {c} : call'[d] = call[d]
      /\ call'[c].pc = "write" /\ call'[c].request = call[c].request
      /\ call'[c].wanted = call[c].wanted /\ call'[c].file = inode
  BY <1>1, <1>2 DEF CallFields
<1>5. CallTyped(call'[c])
  BY <1>2, <1>4, InodeAssumption DEF CallTyped, Saving
<1>6. DOMAIN content' = Inode /\ FilesTyped'
  BY <1>1 DEF TypedInv, Shapes, FilesTyped
<1>7. NamesApart' /\ last_error' \in BOOLEAN
  BY <1>1, <1>3 DEF TypedInv, NamesApart, TrayTyped
<1> QED BY <1>1, <1>3, <1>4, <1>5, <1>6, <1>7, SaveTyped

LEMMA WriteTyped ==
  ASSUME TypedInv, NEW c \in Call, Write(c)
  PROVE  TypedInv'
<1> DEFINE file == call[c].file
<1>1. call[c].pc = "write" /\ CallTyped(call[c]) /\ DOMAIN call = Call /\ DOMAIN call[c] = CallFields
  BY DEF Write, TypedInv, Shapes
<1>2. file \in Inode /\ Normal(call[c].wanted)
  BY <1>1 DEF CallTyped, Saving
<1>3. \E text \in {call[c].wanted, Broken} : content' = [content EXCEPT ![file] = text]
  BY DEF Write
<1>4. UNCHANGED <<tray, last_error, path, temporary>>
  BY DEF Write
<1>5. /\ DOMAIN call' = Call /\ DOMAIN call'[c] = CallFields
      /\ \A d \in Call \ {c} : call'[d] = call[d]
      /\ call'[c].pc = "rename" /\ call'[c].request = call[c].request
      /\ call'[c].wanted = call[c].wanted /\ call'[c].file = NoFile
  BY <1>1 DEF Write, CallFields
<1>6. CallTyped(call'[c])
  BY <1>1, <1>5 DEF CallTyped, Saving
<1> HIDE DEF file
<1>7. DOMAIN content' = Inode /\ FilesTyped'
  BY <1>2, <1>3 DEF TypedInv, Shapes, FilesTyped
<1>8. NamesApart' /\ last_error' \in BOOLEAN
  BY <1>4 DEF TypedInv, NamesApart, TrayTyped
<1> QED BY <1>4, <1>5, <1>6, <1>7, <1>8, SaveTyped

LEMMA RenameTyped ==
  ASSUME TypedInv, NEW c \in Call, Rename(c)
  PROVE  TypedInv'
<1>1. call[c].pc = "rename" /\ CallTyped(call[c]) /\ DOMAIN call = Call /\ DOMAIN call[c] = CallFields
  BY DEF Rename, TypedInv, Shapes
<1>2. UNCHANGED <<tray, content>>
  BY DEF Rename
<1>3. /\ DOMAIN call' = Call /\ DOMAIN call'[c] = CallFields
      /\ \A d \in Call \ {c} : call'[d] = call[d]
      /\ call'[c].pc = "done" /\ call'[c].request = call[c].request
      /\ call'[c].wanted = call[c].wanted /\ call'[c].file = call[c].file
  BY <1>1 DEF Rename, CallFields
<1>4. CallTyped(call'[c])
  BY <1>1, <1>3 DEF CallTyped, Saving
<1>5. DOMAIN content' = Inode /\ FilesTyped'
  BY <1>2 DEF TypedInv, Shapes, FilesTyped
<1>6. NamesApart' /\ last_error' \in BOOLEAN
  BY DEF Rename, TypedInv, NamesApart, TrayTyped
<1> QED BY <1>2, <1>3, <1>4, <1>5, <1>6, SaveTyped

LEMMA SaveFailsTyped ==
  ASSUME TypedInv, NEW c \in Call, SaveFails(c)
  PROVE  TypedInv'
<1>1. call[c].pc \in Saving /\ CallTyped(call[c]) /\ DOMAIN call = Call /\ DOMAIN call[c] = CallFields
  BY DEF SaveFails, TypedInv, Shapes, Saving
<1>2. UNCHANGED <<tray, path, temporary>> /\ last_error' = TRUE
  BY DEF SaveFails
<1>3. /\ DOMAIN call' = Call /\ DOMAIN call'[c] = CallFields
      /\ \A d \in Call \ {c} : call'[d] = call[d]
      /\ call'[c].pc = "done" /\ call'[c].request = call[c].request
      /\ call'[c].wanted = call[c].wanted /\ call'[c].file = NoFile
  BY <1>1 DEF SaveFails, CallFields
<1>4. CallTyped(call'[c])
  BY <1>1, <1>3 DEF CallTyped, Saving
<1>5. /\ DOMAIN content' = Inode
      /\ \A i \in Inode : content'[i] \in {content[i], Empty, Broken}
  BY DEF SaveFails, TypedInv, Shapes
<1>6. FilesTyped'
  BY <1>5 DEF TypedInv, FilesTyped
<1>7. NamesApart'
  BY <1>2 DEF TypedInv, NamesApart
<1> QED BY <1>2, <1>3, <1>4, <1>5, <1>6, <1>7, SaveTyped

LEMMA CrashTyped ==
  ASSUME TypedInv, Crash
  PROVE  TypedInv' /\ tray'.config = Load /\ Load' = Load /\ last_error' = FALSE
<1>1. tray' = FreshState(Load) /\ last_error' = FALSE /\ UNCHANGED <<content, path, temporary>>
  BY DEF Crash, fileVars
<1>2. Load' = Load /\ Normal(Load)
  BY <1>1, LoadStays, LoadIsNormal DEF TypedInv
<1>3. TrayTyped' /\ tray'.config = Load
  BY <1>1, <1>2, FreshTyped DEF TrayTyped
<1>4. NamesApart' /\ FilesTyped'
  BY <1>1 DEF TypedInv, NamesApart, FilesTyped
<1>5. ASSUME NEW d \in Call
      PROVE  DOMAIN call'[d] = CallFields /\ CallTyped(call'[d])
  <2>1. CASE d \in InFlight
    <3>1. call'[d] = [call[d] EXCEPT !.pc = "done", !.file = NoFile]
      BY <2>1 DEF Crash
    <3>2. /\ call'[d].pc = "done" /\ call'[d].request = call[d].request
          /\ call'[d].file = NoFile /\ DOMAIN call'[d] = CallFields
      BY <3>1 DEF TypedInv, Shapes, CallFields
    <3> QED BY <3>2 DEF TypedInv, CallTyped, Saving
  <2>2. CASE d \notin InFlight
    <3>1. call'[d] = call[d]
      BY <2>2 DEF Crash
    <3> QED BY <3>1 DEF TypedInv, Shapes
  <2> QED BY <2>1, <2>2
<1>6. Shapes'
  BY <1>1, <1>5 DEF Crash, TypedInv, Shapes
<1> QED BY <1>1, <1>2, <1>3, <1>4, <1>5, <1>6 DEF TypedInv

LEMMA NextTyped ==
  ASSUME TypedInv, [Next]_vars
  PROVE  TypedInv'
<1>0. TrayTyped
  BY DEF TypedInv
<1>1. ASSUME NEW s \in Service, Registered(s) PROVE TypedInv'
  BY <1>0, <1>1, RegisteredTyped, ElsewhereTyped DEF Registered
<1>2. ASSUME NEW k \in Key, Vanished(k) PROVE TypedInv'
  BY <1>0, <1>2, VanishedTyped, ElsewhereTyped DEF Vanished
<1>3. ASSUME NEW c \in Call, Handle(c) PROVE TypedInv'
  BY <1>0, <1>3, HandleAsksWell, AskTyped
<1>4. ASSUME NEW c \in Call, CallStep(c) PROVE TypedInv'
  BY <1>4, ApplyTyped, OpenTyped, WriteTyped, RenameTyped, SaveFailsTyped DEF CallStep
<1>5. CASE UNCHANGED vars
  <2>1. TrayTyped' /\ UNCHANGED <<call, fileVars>>
    BY <1>0, <1>5 DEF vars, TrayTyped
  <2> QED BY <2>1, ElsewhereTyped
<1> QED BY <1>1, <1>2, <1>3, <1>4, <1>5, CrashTyped DEF Next

THEOREM TypedInvariance == Spec => []TypedInv
  BY InitTyped, NextTyped, PTL DEF Spec

(* However calls overlap, whatever clients send and whatever a start finds *)
(* on disk, the daemon holds a configuration in normal form, and the file  *)
(* that save writes into never has the name that load reads.               *)
THEOREM StoreTypeCorrect == Spec => []TypeOK
<1>1. TypedInv => TypeOK
  <2> SUFFICES ASSUME TypedInv PROVE TypeOK
    OBVIOUS
  <2>1. /\ tray.config \in KeptConfig
        /\ IsInjective(tray.config.order) /\ IsInjective(tray.config.hidden)
    BY DEF TypedInv, TrayTyped, Normal, KeptConfig
  <2>2. /\ tray.items \subseteq Item /\ tray.revision \in 0 .. MaxRevision
        /\ last_error \in BOOLEAN
    <3>1. tray.revision \in Nat /\ tray.revision <= MaxRevision /\ MaxRevision \in Nat
      BY StoreAssumption DEF TypedInv, TrayTyped, WellFormed
    <3> QED BY <3>1 DEF TypedInv, TrayTyped, WellFormed
  <2>3. /\ path \in Inode \cup {NoFile} /\ temporary \in Inode \cup {NoFile}
        /\ path = temporary => path = NoFile
    BY DEF TypedInv, NamesApart
  <2>4. ASSUME NEW c \in Call
        PROVE  /\ call[c].pc \in {"unused", "apply", "open", "write", "rename", "done"}
               /\ call[c].request \in Request \cup {NoCall}
               /\ call[c].file # NoFile <=> call[c].pc = "write"
    BY DEF TypedInv, CallTyped, Saving
  <2> QED BY <2>1, <2>2, <2>3, <2>4 DEF TypeOK
<1> QED BY <1>1, TypedInvariance, PTL

-----------------------------------------------------------------------------
(* When calls do not overlap, what is being saved is the configuration in  *)
(* use.                                                                    *)
WantedKept == \A c \in Call : call[c].pc \in Saving => call[c].wanted = tray.config

(* While no call saves, a restart would find the configuration in use.     *)
DiskKept == (\A c \in Call : call[c].pc \notin Saving) => Load = tray.config \/ last_error

KeptInv == WholeInv /\ TypedInv /\ WantedKept /\ DiskKept

LEMMA InitKept == Init => KeptInv
<1> SUFFICES ASSUME Init PROVE KeptInv
  OBVIOUS
<1>1. \A c \in Call : call[c] = NotMade
  BY DEF Init
<1>2. WantedKept
  BY <1>1 DEF WantedKept, NotMade, Saving
<1>3. DiskKept
  BY DEF Init, DiskKept, FreshState
<1> QED BY <1>2, <1>3, InitWhole, InitTyped DEF KeptInv

(* Items come and go: everything but the items and the revision stays.     *)
LEMMA ItemsKept ==
  ASSUME KeptInv, WholeInv', TypedInv', tray'.config = tray.config,
         UNCHANGED <<last_error, call, fileVars>>
  PROVE  KeptInv' /\ Load' = Load
<1>1. WantedKept'
  BY DEF KeptInv, WantedKept
<1>2. Load' = Load
  BY LoadStays DEF fileVars
<1>3. DiskKept'
  BY <1>2 DEF KeptInv, DiskKept
<1> QED BY <1>1, <1>2, <1>3 DEF KeptInv

LEMMA AskKept ==
  ASSUME KeptInv, WholeInv', TypedInv', NEW c \in Call, AsksWell(c)
  PROVE  KeptInv' /\ tray' = tray /\ Load' = Load /\ last_error' = last_error
<1>1. PICK request, current, wanted :
        request \in Request /\ Ask(c, request, current, wanted)
  BY DEF AsksWell
<1>2. /\ call'[c] = [pc |-> "apply", request |-> request, current |-> current,
                     wanted |-> wanted, file |-> NoFile]
      /\ \A d \in Call \ {c} : call'[d] = call[d]
      /\ UNCHANGED <<tray, last_error, content, path>> /\ call[c].pc = "unused"
  BY <1>1 DEF Ask, KeptInv, WholeInv, Shapes, fileVars
<1>3. call'[c].pc = "apply" /\ call'[c].request = request /\ call'[c].wanted = wanted
  BY <1>2
<1>4. WantedKept'
  BY <1>1, <1>2, <1>3 DEF KeptInv, WantedKept, Saving
<1>5. Load' = Load
  BY <1>2, LoadStays
<1>6. DiskKept'
  <2>1. (\A d \in Call : call'[d].pc \notin Saving) => \A d \in Call : call[d].pc \notin Saving
    BY <1>2 DEF Saving
  <2> QED BY <1>2, <1>5, <2>1 DEF KeptInv, DiskKept
<1> QED BY <1>2, <1>4, <1>5, <1>6 DEF KeptInv

(* Of the calls only c goes on, and no configuration is being changed.     *)
LEMMA OnlyOne ==
  ASSUME KeptInv, NEW c \in InFlight
  PROVE  \A d \in Call \ {c} : call[d].pc \in {"unused", "done"}
  BY OthersAreIdle DEF KeptInv

(* A change is applied only when the file holds the one before it.         *)
LEMMA ApplyKept ==
  ASSUME KeptInv, WholeInv', NEW c \in Call, Apply(c)
  PROVE  /\ KeptInv' /\ Load' = Load /\ last_error' = last_error
         /\ Load = tray.config \/ last_error
<1>1. c \in InFlight /\ call[c].pc = "apply"
  BY DEF Apply, InFlight
<1>2. /\ TypedInv' /\ tray'.config = call[c].wanted
      /\ \A d \in Call \ {c} : call'[d] = call[d]
      /\ call'[c].pc \in {"open", "done"} /\ call'[c].request = call[c].request
      /\ call'[c].pc = "open" => call'[c].wanted = call[c].wanted
      /\ call'[c].pc = "done" => call[c].wanted = tray.config
      /\ UNCHANGED <<last_error, content, path>>
  BY ApplyTyped DEF KeptInv
<1>3. Load' = Load
  BY <1>2, LoadStays
<1>4. \A d \in Call \ {c} : call[d].pc \in {"unused", "done"}
  BY <1>1, OnlyOne
<1>5. Load = tray.config \/ last_error
  <2>1. \A d \in Call : call[d].pc \notin Saving
    BY <1>1, <1>4 DEF Saving
  <2> QED BY <2>1 DEF KeptInv, DiskKept
<1>6. WantedKept'
  BY <1>2, <1>4 DEF WantedKept, Saving
<1>7. DiskKept'
  <2> SUFFICES ASSUME \A d \in Call : call'[d].pc \notin Saving
               PROVE  Load' = tray'.config \/ last_error'
    BY DEF DiskKept
  <2>1. call'[c].pc = "done"
    BY <1>2 DEF Saving
  <2> QED BY <1>2, <1>3, <1>5, <2>1
<1> QED BY <1>2, <1>3, <1>5, <1>6, <1>7 DEF KeptInv

(* A step of save: the call c goes on or ends, what the file says changes  *)
(* at most to the configuration in use.                                    *)
LEMMA SavingKept ==
  ASSUME KeptInv, WholeInv', TypedInv', NEW c \in InFlight, call[c].pc \in Saving,
         \A d \in Call \ {c} : call'[d] = call[d],
         call'[c].pc \in {"write", "rename", "done"}, call'[c].wanted = call[c].wanted,
         UNCHANGED tray,
         call'[c].pc = "done" => Load' = tray.config \/ last_error'
  PROVE  KeptInv'
<1>1. WantedKept'
  BY DEF KeptInv, WantedKept, Saving
<1>2. DiskKept'
  <2>1. (\A d \in Call : call'[d].pc \notin Saving) => call'[c].pc = "done"
    BY DEF InFlight, Saving
  <2> QED BY <2>1 DEF DiskKept
<1> QED BY <1>1, <1>2 DEF KeptInv

LEMMA OpenKept ==
  ASSUME KeptInv, WholeInv', NEW c \in Call, Open(c)
  PROVE  KeptInv' /\ tray' = tray /\ Load' = Load /\ last_error' = last_error
<1>1. c \in InFlight /\ call[c].pc \in Saving
  BY DEF Open, InFlight, Saving
<1>2. PICK inode \in Inode : /\ inode # path /\ content' = [content EXCEPT ![inode] = Empty]
                             /\ call' = [call EXCEPT ![c].pc = "write", ![c].file = inode]
  BY OpenTyped DEF KeptInv
<1>3. /\ \A d \in Call \ {c} : call'[d] = call[d]
      /\ call'[c].pc = "write" /\ call'[c].wanted = call[c].wanted
      /\ UNCHANGED <<tray, last_error, path>>
  BY <1>2 DEF Open, KeptInv, WholeInv, Shapes, CallFields
<1>4. path # NoFile => content'[path] = content[path]
  BY <1>2 DEF KeptInv, WholeInv, Shapes, NamesApart
<1>5. Load' = Load
  BY <1>3, <1>4, LoadStays
<1>6. TypedInv'
  BY OpenTyped DEF KeptInv
<1> QED BY <1>1, <1>3, <1>5, <1>6, SavingKept

LEMMA WriteKept ==
  ASSUME KeptInv, WholeInv', NEW c \in Call, Write(c)
  PROVE  KeptInv' /\ tray' = tray /\ Load' = Load /\ last_error' = last_error
<1>1. c \in InFlight /\ call[c].pc \in Saving
  BY DEF Write, InFlight, Saving
<1>2. call[c].file = temporary /\ temporary \in Inode /\ temporary # path
  BY DEF Write, KeptInv, WholeInv, WriterAlone, NamesApart
<1>3. \E text : content' = [content EXCEPT ![temporary] = text]
  BY <1>2 DEF Write
<1>4. /\ \A d \in Call \ {c} : call'[d] = call[d]
      /\ call'[c].pc = "rename" /\ call'[c].wanted = call[c].wanted
      /\ UNCHANGED <<tray, last_error, path>>
  BY DEF Write, KeptInv, WholeInv, Shapes, CallFields
<1>5. path # NoFile => content'[path] = content[path]
  BY <1>2, <1>3 DEF KeptInv, WholeInv, Shapes, NamesApart
<1>6. Load' = Load
  BY <1>4, <1>5, LoadStays
<1>7. TypedInv'
  BY WriteTyped DEF KeptInv
<1> QED BY <1>1, <1>4, <1>6, <1>7, SavingKept

LEMMA RenameKept ==
  ASSUME KeptInv, WholeInv', NEW c \in Call, Rename(c)
  PROVE  KeptInv' /\ tray' = tray /\ Load' = tray.config /\ last_error' = last_error
<1>1. c \in InFlight /\ call[c].pc \in Saving
  BY DEF Rename, InFlight, Saving
<1>2. temporary \in Inode /\ temporary # NoFile /\ content[temporary] = call[c].wanted
  BY DEF Rename, KeptInv, WholeInv, WriterAlone, NamesApart
<1>3. path' = temporary /\ content' = content
  BY <1>2 DEF Rename
<1>4. /\ \A d \in Call \ {c} : call'[d] = call[d]
      /\ call'[c].pc = "done" /\ call'[c].wanted = call[c].wanted
      /\ UNCHANGED <<tray, last_error>>
  BY <1>2 DEF Rename, KeptInv, WholeInv, Shapes, CallFields
<1>5. Load' = tray.config
  <2>1. path' # NoFile /\ content'[path'] = tray.config
    BY <1>1, <1>2, <1>3 DEF KeptInv, WantedKept
  <2>2. tray.config \notin {Empty, Broken}
    BY <1>1 DEF KeptInv, WantedKept, WholeInv, WriterAlone, Saving
  <2>3. Load' = Normalized(tray.config)
    BY <2>1, <2>2 DEF Load
  <2> QED BY <2>3, NormalStays DEF KeptInv, TypedInv, TrayTyped
<1>6. TypedInv'
  BY RenameTyped DEF KeptInv
<1> QED BY <1>1, <1>4, <1>5, <1>6, SavingKept

LEMMA SaveFailsKept ==
  ASSUME KeptInv, WholeInv', NEW c \in Call, SaveFails(c)
  PROVE  KeptInv' /\ tray' = tray /\ Load' = Load /\ last_error' = TRUE
<1>1. c \in InFlight /\ call[c].pc \in Saving
  BY DEF SaveFails, InFlight, Saving
<1>2. /\ \A d \in Call \ {c} : call'[d] = call[d]
      /\ call'[c].pc = "done" /\ call'[c].wanted = call[c].wanted
      /\ UNCHANGED <<tray, path>> /\ last_error' = TRUE
  BY DEF SaveFails, KeptInv, WholeInv, Shapes, CallFields
<1>3. path # NoFile => content'[path] = content[path]
  <2>1. CASE call[c].pc = "write"
    <3>1. call[c].file = temporary /\ temporary # NoFile /\ temporary # path
      BY <2>1 DEF KeptInv, WholeInv, WriterAlone, NamesApart
    <3> QED BY <2>1, <3>1 DEF SaveFails, KeptInv, WholeInv, Shapes, NamesApart
  <2>2. CASE call[c].pc # "write"
    BY <2>2 DEF SaveFails
  <2> QED BY <2>1, <2>2
<1>4. Load' = Load
  BY <1>2, <1>3, LoadStays
<1>5. TypedInv'
  BY SaveFailsTyped DEF KeptInv
<1> QED BY <1>1, <1>2, <1>4, <1>5, SavingKept

LEMMA CrashKept ==
  ASSUME KeptInv, WholeInv', Crash
  PROVE  KeptInv' /\ tray'.config = Load /\ Load' = Load /\ last_error' = FALSE
<1>1. TypedInv' /\ tray'.config = Load /\ Load' = Load /\ last_error' = FALSE
  BY CrashTyped DEF KeptInv
<1>2. \A d \in Call : call'[d].pc \in {"unused", "done"}
  <2> SUFFICES ASSUME NEW d \in Call PROVE call'[d].pc \in {"unused", "done"}
    OBVIOUS
  <2>1. CASE d \in InFlight
    <3>1. call'[d] = [call[d] EXCEPT !.pc = "done", !.file = NoFile]
      BY <2>1 DEF Crash
    <3> QED BY <3>1 DEF KeptInv, WholeInv, Shapes, CallFields
  <2>2. CASE d \notin InFlight
    <3>1. call'[d] = call[d]
      BY <2>2 DEF Crash
    <3> QED BY <2>2, <3>1 DEF InFlight
  <2> QED BY <2>1, <2>2
<1>3. WantedKept'
  BY <1>2 DEF WantedKept, Saving
<1>4. DiskKept'
  BY <1>1 DEF DiskKept
<1> QED BY <1>1, <1>3, <1>4 DEF KeptInv

-----------------------------------------------------------------------------
LEMMA NextKept ==
  ASSUME Sequential, ConfigsReadWell, KeptInv, [Next]_vars
  PROVE  KeptInv'
<1>0. WholeInv' /\ TypedInv' /\ TrayTyped
  BY NextWhole, NextTyped DEF KeptInv, TypedInv
<1>1. ASSUME NEW s \in Service, Registered(s) PROVE KeptInv'
  BY <1>0, <1>1, RegisteredTyped, ItemsKept DEF Registered
<1>2. ASSUME NEW k \in Key, Vanished(k) PROVE KeptInv'
  BY <1>0, <1>2, VanishedTyped, ItemsKept DEF Vanished
<1>3. ASSUME NEW c \in Call, Handle(c) PROVE KeptInv'
  BY <1>0, <1>3, HandleAsksWell, AskKept
<1>4. ASSUME NEW c \in Call, CallStep(c) PROVE KeptInv'
  BY <1>0, <1>4, ApplyKept, OpenKept, WriteKept, RenameKept, SaveFailsKept DEF CallStep
<1>5. CASE UNCHANGED vars
  BY <1>0, <1>5, ItemsKept DEF vars
<1> QED BY <1>0, <1>1, <1>2, <1>3, <1>4, <1>5, CrashKept DEF Next

(* The inductive invariant holds as long as calls do not overlap.          *)
THEOREM KeptInvariance ==
  ASSUME Sequential, ConfigsReadWell
  PROVE  Spec => []KeptInv
  BY InitKept, NextKept, PTL DEF Spec
(* Once all calls have returned, a restart would find the configuration in *)
(* use, or saving has failed since the start and the status says so.       *)
THEOREM DiskIsUpToDate ==
  ASSUME Sequential, ConfigsReadWell
  PROVE  Spec => []DiskFollowsMemory
<1>1. KeptInv => DiskFollowsMemory
  <2> SUFFICES ASSUME KeptInv, InFlight = {} PROVE Load = tray.config \/ last_error
    BY DEF DiskFollowsMemory
  <2>1. \A c \in Call : call[c].pc \notin Saving
    BY DEF InFlight, Saving
  <2> QED BY <2>1 DEF KeptInv, DiskKept
<1> QED BY <1>1, KeptInvariance, PTL

(* Keeping the configuration is durable: a crash, at any step, takes back  *)
(* at most one change that nobody was warned of.  A change is applied only *)
(* when the file holds the one before it, renaming saves it, and no other  *)
(* step changes what a restart would find.                                 *)
THEOREM StoreIsDurable ==
  ASSUME Sequential, ConfigsReadWell
  PROVE  Spec => DurableSpec
<1> DEFINE Step == Durable!Change \/ Durable!Save \/ Durable!Fail \/ Durable!Crash
           same == UNCHANGED <<tray.config, Load, last_error>>
<1>1. Init => Durable!DurableInit
  <2> SUFFICES ASSUME Init PROVE Durable!DurableInit
    OBVIOUS
  <2>1. KeptInv
    BY InitKept
  <2>2. Normal(Load)
    BY <2>1, LoadIsNormal DEF KeptInv, TypedInv
  <2>3. tray.config = Load /\ last_error = FALSE
    BY DEF Init, FreshState
  <2> QED BY <2>2, <2>3 DEF Durable!DurableInit, Normal, KeptConfig
<1>2. KeptInv /\ [Next]_vars => [Step]_<<tray.config, Load, last_error>>
  <2> SUFFICES ASSUME KeptInv, [Next]_vars PROVE Step \/ same
    OBVIOUS
  <2>0. WholeInv' /\ TypedInv' /\ TrayTyped
    BY NextWhole, NextTyped DEF KeptInv, TypedInv
  <2>1. ASSUME NEW s \in Service, Registered(s) PROVE same
    BY <2>0, <2>1, RegisteredTyped, LoadStays DEF Registered, fileVars
  <2>2. ASSUME NEW k \in Key, Vanished(k) PROVE same
    BY <2>0, <2>2, VanishedTyped, LoadStays DEF Vanished, fileVars
  <2>3. ASSUME NEW c \in Call, Handle(c) PROVE same
    BY <2>0, <2>3, HandleAsksWell, AskKept
  <2>4. ASSUME NEW c \in Call, Apply(c) PROVE Durable!Change
    <3>1. /\ KeptInv' /\ Load' = Load /\ last_error' = last_error
          /\ Load = tray.config \/ last_error
      BY <2>0, <2>4, ApplyKept
    <3>2. tray'.config \in KeptConfig
      BY <3>1 DEF KeptInv, TypedInv, TrayTyped, Normal, KeptConfig
    <3> QED BY <3>1, <3>2 DEF Durable!Change
  <2>5. ASSUME NEW c \in Call, Open(c) PROVE same
    BY <2>0, <2>5, OpenKept
  <2>6. ASSUME NEW c \in Call, Write(c) PROVE same
    BY <2>0, <2>6, WriteKept
  <2>7. ASSUME NEW c \in Call, Rename(c) PROVE Durable!Save
    BY <2>0, <2>7, RenameKept DEF Durable!Save
  <2>8. ASSUME NEW c \in Call, SaveFails(c) PROVE Durable!Fail
    BY <2>0, <2>8, SaveFailsKept DEF Durable!Fail
  <2>9. CASE Crash
    BY <2>0, <2>9, CrashKept DEF Durable!Crash
  <2>10. CASE UNCHANGED vars
    BY <2>10, LoadStays DEF vars, fileVars
  <2> QED BY <2>1, <2>2, <2>3, <2>4, <2>5, <2>6, <2>7, <2>8, <2>9, <2>10 DEF Next, CallStep
<1> QED BY <1>1, <1>2, KeptInvariance, PTL DEF Spec, DurableSpec, Durable!DurableSpec

LEMMA CrashesCounted == Spec => [](crashes \in Nat)
<1>1. Init => crashes \in Nat
  BY DEF Init
<1>2. crashes \in Nat /\ [Next]_vars => (crashes \in Nat)'
  <2>1. Crash => crashes' = crashes + 1
    BY DEF Crash
  <2>2. ASSUME NEW c \in Call, Handle(c) \/ CallStep(c) PROVE crashes' = crashes
    <3>1. Handle(c) => crashes' = crashes
      BY DEF Handle, SetConfig, SetItemHidden, MoveItem, Ask, boundVars
    <3>2. CallStep(c) => crashes' = crashes
      BY DEF CallStep, Apply, Open, Write, Rename, SaveFails, boundVars
    <3> QED BY <2>2, <3>1, <3>2
  <2>3. ASSUME NEW s \in Service, Registered(s) PROVE crashes' = crashes
    BY <2>3 DEF Registered, boundVars
  <2>4. ASSUME NEW k \in Key, Vanished(k) PROVE crashes' = crashes
    BY <2>4 DEF Vanished, boundVars
  <2>5. UNCHANGED vars => crashes' = crashes
    BY DEF vars, boundVars
  <2>6. [Next]_vars => crashes' \in {crashes, crashes + 1}
    BY <2>1, <2>2, <2>3, <2>4, <2>5 DEF Next
  <2> QED BY <2>6
<1> QED BY <1>1, <1>2, PTL DEF Spec

(* A step of one call leaves the others alone, so a call that is served,   *)
(* and not cut off by a crash, went through Store::apply.                  *)
LEMMA OthersStay ==
  ASSUME TypedInv, NEW c \in Call, NEW d \in Call, c # d, Handle(d) \/ CallStep(d)
  PROVE  call'[c] = call[c]
<1>1. DOMAIN call = Call
  BY DEF TypedInv, Shapes
<1>2. CASE Handle(d)
  <2>1. \E r : call' = [call EXCEPT ![d] = r]
    BY <1>2 DEF Handle, SetConfig, SetItemHidden, MoveItem, Ask
  <2> QED BY <1>1, <2>1
<1>3. CASE CallStep(d)
  BY <1>1, <1>3 DEF CallStep, Apply, Open, Write, Rename, SaveFails
<1> QED BY <1>2, <1>3

LEMMA AppliedIsApply ==
  ASSUME TypedInv, crashes \in Nat, Next, NEW c \in Call, Applied(c)
  PROVE  Apply(c)
<1>1. call[c].pc = "apply" /\ call'[c] # call[c] /\ crashes' = crashes
  BY DEF Applied
<1>2. ~Crash
  <2>1. Crash => crashes' = crashes + 1
    BY DEF Crash
  <2>2. crashes # crashes + 1
    OBVIOUS
  <2> QED BY <1>1, <2>1, <2>2
<1>3. /\ \A s \in Service : ~Registered(s)
      /\ \A k \in Key : ~Vanished(k)
  BY <1>1 DEF Registered, Vanished
<1>4. \A d \in Call : Handle(d) \/ CallStep(d) => d = c
  BY <1>1, OthersStay
<1>5. ~Handle(c)
  BY <1>1 DEF Handle, SetConfig, SetItemHidden, MoveItem, Ask
<1>6. ~(Open(c) \/ Write(c) \/ Rename(c) \/ SaveFails(c))
  BY <1>1 DEF Open, Write, Rename, SaveFails
<1> QED BY <1>2, <1>3, <1>4, <1>5, <1>6 DEF Next, CallStep

-----------------------------------------------------------------------------
(* MoveItem still has in hand what it computed from the list the user saw. *)
MoveTyped(r) ==
  /\ r.request.key \in Key /\ r.request.delta \in Int
  /\ r.current \in Seq(Key) /\ IsInjective(r.current)
  /\ MovedOrder(r.current, r.request.key, r.request.delta) # NoMove
  /\ r.wanted.sort = "manual"
  /\ r.wanted.order = MovedOrder(r.current, r.request.key, r.request.delta)

MovesKept ==
  \A c \in Call :
    call[c].pc = "apply" /\ call[c].request.method = "MoveItem" => MoveTyped(call[c])

LEMMA MoveItemTyped ==
  ASSUME TypedInv, NEW c \in Call, NEW k \in Key, NEW d \in Delta, MoveItem(c, k, d)
  PROVE  MoveTyped(call'[c])
<1> DEFINE request == [method |-> "MoveItem", key |-> k, delta |-> d]
           current == OrderedKeys(tray)
           order == MovedOrder(current, k, d)
           wanted == WithOrder(tray.config, order)
<1>1. Normal(tray.config) /\ DOMAIN call = Call
  BY DEF TypedInv, TrayTyped, Shapes
<1>2. current \in Seq(Key) /\ IsInjective(current)
  BY TypedIsSortable, KeysInOrder DEF TypedInv
<1>3. /\ order # NoMove
      /\ call'[c] = [pc |-> "apply", request |-> request, current |-> current,
                     wanted |-> wanted, file |-> NoFile]
  BY <1>1 DEF MoveItem, Ask
<1>4. d \in Int
  BY StoreAssumption
<1> HIDE DEF current
<1>5. order \in Seq(Key) /\ IsInjective(order)
  BY <1>2, <1>3, <1>4, MovedOrderMoves
<1> HIDE DEF order
<1>6. wanted.sort = "manual" /\ wanted.order = Dedupe(order)
  <2>1. /\ [tray.config EXCEPT !.sort = "manual", !.order = order].sort = "manual"
        /\ [tray.config EXCEPT !.sort = "manual", !.order = order].order = order
    BY <1>1 DEF Normal
  <2> QED BY <2>1 DEF WithOrder, Normalized
<1>7. Dedupe(order) = order
  BY <1>5, DedupeKeeps
<1> HIDE DEF wanted
<1>8. /\ call'[c].request.key = k /\ call'[c].request.delta = d
      /\ call'[c].current = current /\ call'[c].wanted = wanted
  BY <1>3
<1> QED BY <1>2, <1>3, <1>4, <1>6, <1>7, <1>8 DEF MoveTyped, order

LEMMA NextMoves ==
  ASSUME TypedInv, MovesKept, [Next]_vars
  PROVE  MovesKept'
<1>1. CASE UNCHANGED call
  BY <1>1 DEF MovesKept
<1>2. ASSUME NEW d \in Call, Handle(d)
      PROVE  MovesKept'
  <2>1. ASSUME call'[d].request.method = "MoveItem" PROVE MoveTyped(call'[d])
    <3>1. DOMAIN call = Call
      BY DEF TypedInv, Shapes
    <3>2. \A v \in View : ~SetConfig(d, v)
      BY <2>1, <3>1 DEF SetConfig, Ask
    <3>3. \A k \in Key, h \in BOOLEAN : ~SetItemHidden(d, k, h)
      BY <2>1, <3>1 DEF SetItemHidden, Ask
    <3> QED BY <1>2, <3>2, <3>3, MoveItemTyped DEF Handle
  <2> QED BY <1>2, <2>1, OthersStay DEF MovesKept
<1>3. ASSUME NEW d \in Call, CallStep(d)
      PROVE  MovesKept'
  <2>1. call'[d].pc # "apply"
    BY <1>3 DEF CallStep, Apply, Open, Write, Rename, SaveFails, TypedInv, Shapes, CallFields
  <2> QED BY <1>3, <2>1, OthersStay DEF MovesKept
<1>4. CASE Crash
  <2>1. \A c \in Call : call'[c] = call[c] \/ call'[c].pc = "done"
    BY <1>4 DEF Crash, TypedInv, Shapes, CallFields
  <2> QED BY <2>1 DEF MovesKept
<1>5. (\E s \in Service : Registered(s)) \/ (\E k \in Key : Vanished(k)) => UNCHANGED call
  BY DEF Registered, Vanished
<1>6. UNCHANGED vars => UNCHANGED call
  BY DEF vars
<1> QED BY <1>1, <1>2, <1>3, <1>4, <1>5, <1>6 DEF Next

(* MoveItem and items that come and go, calls that overlap and change the  *)
(* order or the sort mode meanwhile: once the move is applied, the items   *)
(* the user saw are in the order the user saw, but for the one that moved, *)
(* which is where the user put it among those that are left (move_item).   *)
THEOREM MovingIsShown == Spec => MoveIsShown
<1> DEFINE Shown(c) ==
      LET key  == call[c].request.key
          seen == call[c].current
          now  == OrderedKeys(tray')
          to   == PlaceIn(seen, key) + call[c].request.delta
          Passed(k) == IF call[c].request.delta > 0 THEN PlaceIn(seen, k) <= to
                                                    ELSE PlaceIn(seen, k) < to
      IN  \A k \in (ToSet(seen) \cap ToSet(now)) \ {key} :
            /\ key \in ToSet(now) =>
                 (PlaceIn(now, k) < PlaceIn(now, key) <=> Passed(k))
            /\ \A l \in (ToSet(seen) \cap ToSet(now)) \ {key} :
                 PlaceIn(now, k) < PlaceIn(now, l)
                   <=> PlaceIn(seen, k) < PlaceIn(seen, l)
           Moved == \A c \in Call :
             Applied(c) /\ call[c].request.method = "MoveItem" => Shown(c)
<1>1. ASSUME TypedInv, MovesKept, TypedInv', NEW c \in Call, Apply(c),
             call[c].request.method = "MoveItem"
      PROVE  Shown(c)
  <2> DEFINE key == call[c].request.key
             delta == call[c].request.delta
             seen == call[c].current
             now == OrderedKeys(tray')
             from == PlaceIn(seen, key)
             to == from + delta
             moved == MovedOrder(seen, key, delta)
  <2>1. MoveTyped(call[c])
    BY <1>1 DEF MovesKept, Apply
  <2>2. tray'.config.sort = "manual" /\ tray'.config.order = moved
    BY <1>1, <2>1, ApplyTyped DEF MoveTyped
  <2>3. IsFiniteSet(tray'.items) /\ Distinct(tray'.items) /\ Sortable(tray'.config)
    <3>1. TrayTyped'
      BY <1>1 DEF TypedInv
    <3>2. IsFiniteSet(tray'.items)
      BY <3>1, FinitelyManyItems DEF TrayTyped, WellFormed
    <3>3. Distinct(tray'.items)
      BY <3>1 DEF TrayTyped, WellFormed, Distinct
    <3> QED BY <3>1, <3>2, <3>3 DEF TrayTyped, Normal, Sortable
  <2>4. ToSet(now) = KeysOf(tray'.items)
    BY <2>3, KeysInOrder
  <2>5. /\ key \in Key /\ delta \in Int /\ seen \in Seq(Key) /\ IsInjective(seen)
        /\ moved # NoMove
    BY <2>1 DEF MoveTyped
  <2>6. /\ moved \in Seq(Key) /\ IsInjective(moved) /\ ToSet(moved) = ToSet(seen)
        /\ key \in ToSet(seen) /\ to \in DOMAIN seen /\ PlaceIn(moved, key) = to
        /\ \A k \in ToSet(seen) \ {key} : PlaceIn(moved, k) = Shifted(PlaceIn(seen, k), from, to)
    BY <2>5, MovedOrderMoves
  <2> HIDE DEF key, delta, seen, now, moved
  <2>7. ASSUME NEW k \in ToSet(seen) \cap ToSet(now), NEW l \in ToSet(seen) \cap ToSet(now), k # l
        PROVE  PlaceIn(now, k) < PlaceIn(now, l) <=> PlaceIn(moved, k) < PlaceIn(moved, l)
    <3>1. PICK i \in tray'.items, j \in tray'.items : i.key = k /\ j.key = l
      BY <2>4 DEF KeysOf
    <3>2. PlaceIn(now, k) < PlaceIn(now, l) <=> Before(tray'.config, i, j)
      BY <2>3, <3>1, PlacesInOrder DEF now
    <3>3. PlaceIn(moved, k) \in Nat /\ PlaceIn(moved, l) \in Nat
      BY <2>6, PlaceIsPlace
    <3>4. PlaceIn(moved, k) # PlaceIn(moved, l)
      BY <2>6, <2>7, KeysAtPlaces
    <3>5. Before(tray'.config, i, j) <=> PlaceIn(moved, k) < PlaceIn(moved, l)
      BY <2>2, <3>1, <3>3, <3>4 DEF Before
    <3> QED BY <3>2, <3>5
  <2>8. ASSUME NEW k \in ToSet(seen)
        PROVE  PlaceIn(seen, k) \in Int /\ (k # key => PlaceIn(seen, k) # from)
    BY <2>5, <2>6, PlaceIsPlace, KeysAtPlaces DEF from
  <2>9. from \in Int /\ to \in Int /\ to = from + delta
    BY <2>5, <2>6, <2>8 DEF from
  <2> HIDE DEF from, to
  <2>10. ASSUME NEW k \in (ToSet(seen) \cap ToSet(now)) \ {key}, key \in ToSet(now)
         PROVE  PlaceIn(now, k) < PlaceIn(now, key)
                  <=> IF delta > 0 THEN PlaceIn(seen, k) <= to ELSE PlaceIn(seen, k) < to
    <3>1. PlaceIn(now, k) < PlaceIn(now, key) <=> Shifted(PlaceIn(seen, k), from, to) < to
      BY <2>6, <2>7, <2>10
    <3> QED BY <2>5, <2>8, <2>9, <3>1 DEF Shifted
  <2>11. ASSUME NEW k \in (ToSet(seen) \cap ToSet(now)) \ {key},
                NEW l \in (ToSet(seen) \cap ToSet(now)) \ {key}
         PROVE  PlaceIn(now, k) < PlaceIn(now, l) <=> PlaceIn(seen, k) < PlaceIn(seen, l)
    <3>1. CASE k = l
      BY <2>3, <2>8, <3>1, KeysInOrder, PlaceIsPlace DEF now
    <3>2. CASE k # l
      <4>1. PlaceIn(now, k) < PlaceIn(now, l)
              <=> Shifted(PlaceIn(seen, k), from, to) < Shifted(PlaceIn(seen, l), from, to)
        BY <2>6, <2>7, <3>2
      <4> QED BY <2>8, <2>9, <4>1 DEF Shifted
    <3> QED BY <3>1, <3>2
  <2> QED BY <2>10, <2>11 DEF key, delta, seen, now, from, to
<1>2. TypedInv /\ MovesKept /\ crashes \in Nat /\ [Next]_vars => [Moved]_vars
  <2> HIDE DEF Shown
  <2> SUFFICES ASSUME TypedInv, MovesKept, crashes \in Nat, Next, NEW c \in Call, Applied(c),
                      call[c].request.method = "MoveItem"
               PROVE  Shown(c)
    OBVIOUS
  <2> QED BY <1>1, NextTyped, AppliedIsApply
<1>3. Init => MovesKept
  BY DEF Init, MovesKept, NotMade
<1> HIDE DEF Shown
<1>4. Spec => []MovesKept
  BY <1>3, NextMoves, TypedInvariance, PTL DEF Spec
<1> QED BY <1>2, <1>4, TypedInvariance, CrashesCounted, PTL DEF Spec, MoveIsShown, Moved, Shown

=============================================================================
