# A specification of Taskbar

Taskbar shows StatusNotifierItem tray icons in the GNOME panel. A Rust daemon
is the watcher that applications register with; it keeps the tray, offers it
over D-Bus, and keeps the user's configuration. A Shell extension draws the
tray and a settings app changes the configuration. These modules specify the daemon, the
extension and the app in TLA+, TLC checks them on small instances, and TLAPS
proves what matters most of each for instances of any size.

## Inventory

| Component | Source | State | Operations | Status |
| --- | --- | --- | --- | --- |
| Tray reducer | `taskbar-core/model.rs` | config, items, revision | the five events, key allocation, snapshots | modelled, proved |
| Configuration values | `taskbar-core/config.rs` | none | normalise, hide, order, from_view | modelled, proved |
| Rules | `taskbar-core/rules.rs` | none | ordering, visibility, moving | modelled; the order and moving proved |
| Item registry | `taskbar-daemon/item.rs` | map of tasks; locals of every task | register, item task, vanish, menu task, refresh menu | modelled but for shutdown; items, tasks and menus proved |
| Watcher | `taskbar-daemon/watcher.rs` | hosts; the name watch | register item, register host, name changes | partly: no hosts |
| Store | `taskbar-daemon/store.rs` | the reducer's state, last_error | apply, run effects, queries | modelled |
| Config file | `taskbar-daemon/config_store.rs` | config.toml and its temporary file | load, save | modelled; durability proved for calls that do not overlap |
| D-Bus service | `taskbar-daemon/service.rs` | none | set config, hide, move, list, get menu; clicks | partly: no clicks, no status |
| Startup | `taskbar-daemon/main.rs` | none | order of loading, serving, claiming, watching | partly: initial states |
| Item properties | `taskbar-core/sni.rs` | none | decoding, names, visibility, service names | modelled, proved |
| Icons | `taskbar-core/icon.rs` | none | pick, scale, compose, blend | modelled, without PNG; choice and composition proved |
| Menus | `taskbar-core/menu.rs`, `taskbar-api/menu.rs` | none | decode, patch, trees | modelled; patches of a node proved |
| Views | `taskbar-core/view.rs`, `props.rs` | none | items, icons, menus as sent to clients | modelled; items and icons proved |
| D-Bus contract | `taskbar-api` | none | declarations, decoding of variants | modelled; the types of what is decoded proved |
| Settings app | `taskbar-app` | a copy of the config and items, the widgets | reducer, dispatch, worker, painting | modelled, safety proved |
| Extension | `extension/taskbar@taskbar.dev` | indicators, `_config`, `_busy`, `_queued`, the connection | enable, disable, refresh, menus, name of the daemon | partly: no input, no sizes; safety proved |
| Test item | `taskbar-testitem` | frame, status, checkbox | tickers, click, layout | modelled |
| Packaging | `scripts`, `data` | | | not modelled |

How they interact. Applications call the watcher; each call is a task of the
object server and runs `Registry::register`, which reads the properties of the
item, folds `Registered` into the store and spawns an item task. Item tasks,
registration calls and the name watch share two mutexes (the tray, the map of
tasks), held only for a moment, and wait for answers of applications and for
signals to be sent in between. The store folds an event under its lock and
carries out the effects after releasing it: announcements to the panel and the
settings app, which then read the tray again, and writing the configuration on
a blocking thread. Clients change the configuration by three calls, which read
the state, compute a new configuration and fold `ConfigUpdated`.

What is hard here: tasks that abort each other and themselves; keys held
across waits while items come and go; name changes handled after the
registrations they are about; registrations of one service at once; probes
against exits; clients that are only told when to read; concurrent writers of
one file; crashes in the middle of a write; menu tasks and menu calls that
overtake each other and set each other off; a window that writes back a copy of
the configuration; replies that arrive after the one who asked is gone; what
applications send that makes no sense.

What makes each part correct:

- reducer: one key per item and one item per service, keys that stay, every
  visible change announced, every change of configuration persisted;
- registry: an application that answers keeps its icon and one that is gone loses
  it, in all cases but those the code is known to miss; one task per item, icons
  that show what the application says;
- configuration: durable, whole on disk, changed only as asked;
- picture: an item that has an icon or a name is shown with it, with the pixmap
  that fits best, and its menu as the tree that was sent;
- menus: in the end the panel shows the menu the application has, and asking
  comes to an end;
- settings app: at rest the window shows what the daemon kept, and the daemon
  is asked only for what the user did;
- extension: nothing on the panel without the daemon or while disabled, no menu
  of another item, and once nothing is awaited, which is so in the end, the items
  and the configuration the daemon has.

## Modules

| Module | Stands for | Extends |
| --- | --- | --- |
| `TrayConfig` | `config.rs` | |
| `TrayState` | `model.rs`: the events as operators that return `[state, effects]` | `TrayConfig` |
| `TrayRules` | `rules.rs`, snapshots | `TrayState` |
| `KeyPool` | abstract: names are taken and released, never stolen | |
| `TrayReducer` | the reducer as a state machine | `TrayRules` |
| `TrayStateProofs` | lemmas about the operators of the three above | `TrayRules` |
| `Channels` | lemmas about sequences of messages | |
| `TrayReducerProofs` | theorems about the reducer | `TrayReducer`, `TrayStateProofs` |
| `TrayDaemon` | registry, item tasks, name watch, announcements | `TrayState` |
| `DaemonHistory` | the same, and when each actor read the keys it acts on | `TrayDaemon` |
| `TrayDaemonProofs` | theorems about both | `DaemonHistory`, `TrayStateProofs` |
| `DurableConfig` | abstract: a crash takes back at most one change | |
| `ConfigStore` | client calls that change the configuration, the file | `TrayRules` |
| `ConfigStoreProofs` | theorems about the store and its file | `ConfigStore`, `TrayStateProofs` |
| `Variants` | `value.rs`, `props.rs`: values on the wire, decoded | |
| `Icons` | `icon.rs` | |
| `ItemPicture` | `sni.rs` but for the decoding, items in `view.rs` | `Icons` |
| `ItemProps` | the decoding of properties in `sni.rs` | `Variants`, `ItemPicture` |
| `PublishedItem` | the item of the test item and of other applications, and its picture | `ItemProps` |
| `MenuNodes` | one node of a menu: `MenuNode` of `menu.rs` | `Variants` |
| `MenuTree` | `menu.rs` of core and api, menus in `view.rs`, `buildMenuNodes` | `MenuNodes` |
| `Application` | an application: its item, its menu, and what is made of them | `PublishedItem`, `MenuTree` |
| `MenuSync` | menu tasks, `refresh_menu`, `get_menu`, the cached menu, the panel asking | |
| `ItemProofs` | theorems about what is shown of an item | `PublishedItem`, `MenuNodes`, `MenuSync` |
| `SettingsApp` | `taskbar-app` and the daemon it talks to | |
| `SettingsAppProofs` | theorems about it | `SettingsApp`, `Channels` |
| `PanelExtension` | `extension.js`, `daemon.js` and the daemon they talk to | |
| `PanelExtensionProofs` | theorems about it | `PanelExtension`, `Channels` |
| `MCTrayReducer`, `MCTrayDaemon`, `MCDaemonHistory`, `MCConfigStore`, `MCApplication`, `MCSettingsApp`, `MCPanelExtension` | instances for TLC | |

The Vec of items is a set ordered by `since`, the revision of the registration.
Strings are members of small sets: `Sanitize` is `sanitize_key`, `Candidate[b]`
lists `b`, `b#2`, `b#3`, ... and `Trimmed` is `str::trim`; nothing is assumed of
them but what `StateAssumption` and `ConfigAssumption` say (in particular a
suffixed key may also be somebody's id). Properties keep the fields a decision
depends on: id, title, status. Loops that keep some elements (`dedupe`, the
filters) and sorts are stated by what they leave and where: `At` is a sequence
at some of its places, `InOrder` puts at place n the item with n - 1 before it.

In `TrayDaemon` an action is what happens under one lock, or between a request
and its answer:

| Action | Code |
| --- | --- |
| `RegisterItem`, `FetchProps`, `ApplyRegistered`, `EmitRegistered`, `SpawnTask`, `InsertTask` | `register_status_notifier_item` and the stretches of `Registry::register` |
| `StartTask`, `TakeSignal`, `RefreshProps`, `Probe`, `ApplyProps`, `EmitProps` | `spawn_item_task`, `refresh_props` |
| `RemoveTask`, `LookUpService`, `ApplyVanished`, `EmitVanished` | `vanish_key`, whoever calls it |
| `OwnerChanged`, `NextDoomed` | `spawn_name_watch`, `vanish_bus_name` |
| `Cancel` | tokio ends an aborted task where it waits |
| `Connect`, `Exit`, `Unexport`, `Change` | applications and the bus |

An aborted task ends at its next wait, so it may still make the locked steps
that follow without one. It is never ended between removing itself from the
tasks and removing its item from the tray, and it may or may not get past the
sending of a signal.

`vanish_key` is given a key and nothing else, and whoever calls it read that key
some waits ago. `DaemonHistory` adds the time of that reading (`readAt`, a
revision of the tray) and the name the name watch was told of last, so that a
property can say whether the item that is dropped is the one that was meant. It
restricts nothing: every step of `TrayDaemon` is a step of it, under the same
fairness.

In `ConfigStore` a call goes through `SetConfig`, `SetItemHidden` or `MoveItem`
(the read of the state), `Apply` (the store, under its lock), and, if the
effects ask for it, `Open`, `Write` and `Rename` of `save`; `SaveFails` and
`Crash` may come at any step. Files are inodes, so that a writer goes on
writing into a file another one renamed. `Empty` is a truncated file, `Broken`
one with the text of two writers or part of a text. The daemon is killed by
`Crash`; loss of power (the code never calls fsync) is not modelled.

`PublishedItem` and `Application` compose the pure modules: their variables are
what an application publishes, and the properties compare that with what the
daemon and the panel make of it. A value on the wire is a type and a payload, a
decoded one a variant and a value; a pixel is its alpha and one colour that
stands for three; labels are sequences of characters because of the access key
marks in them. Only a tooltip has fields that are structures, and only pixmaps
are fields of those, so `Variants` decodes without recursion (`ToPropValue`,
`ToPropField`, `ToPropPlain`). The item and its menu share no state, so in
`Application` they change one at a time (`ItemAtStart`, `MenuAtStart`).

`MenuSync` follows one item. A menu is a path and a version. A menu task goes
from `Subscribe` through `Hear`, `TaskFetch` and `TaskStore` back to listening;
a `GetMenu` call through `Ask`, `CallFetch`, `CallStore` and `Reply`. `owed`
counts the calls the panel makes, one for each `MenuChanged`. `Reregister`
leaves the old menu task running, as the code does: dropping its handle detaches
it. `missed` records that the last change of the menu could not be heard of by
anybody: no task was subscribed to it, the fetch failed, or the item had just
named another menu. It is also set where a menu is taken back or put in place
without a word: a registration that drops the cached menu under a call that is
to answer with it, and a menu task that is aborted between the store and the
announcement of what it had fetched.

In `SettingsApp` the messages to the main loop and the calls to the worker are
two channels; `Dispatch` is one turn of the main loop (fold, paint, queue the
calls), `Take`, `Write`, `ReadConfig`, `ReadItems` and `Report` the steps of the
worker, `Spin`, `Switch`, `Press` and `AskAgain` what the user does to the
widgets. The icon size stands for the five scalar settings, which go the same
way. Painting changes widgets, and every change of one calls its handler: `Echoes`
are the messages the handlers would send, of which the flag `applying` keeps back
those of the handlers that look at it (`Guarded`). The spin button of the size is
one of them, the switch of a row another; a row whose keys stayed is changed in
place, one that is new has its value before its handler.

In `PanelExtension` a turn of the shell is an operator on the record `panel`;
`Deliver` handles the first message from the bus in the turn it causes, and
`Answer` lets the daemon answer one call. A call carries what its continuation
needs and outlives `Disable`; the `id` of an indicator is the number of the
painting that made it, which tells it from a later one of the same key. Replies
leave the daemon in the order it read what they say (the code reads under a lock
and sends later, so for `GetConfig` this is likely and not promised), except
those of `GetMenu`, which wait for the application (`ReadMenu`). In which order it takes up calls is
open, but for those to `ListItems`, which are answered in turn (`InTurn`) unless
`Overtaking`. A daemon that starts has no items, whatever the last one had, and
the configuration it finds in its file, which may be any.

Operators that begin with a comment "Mistake:" are plausible wrong versions of
the definition that follows. Nothing uses them: each shows, when it takes the
place of that definition, that a run would notice.

## Runs

Runs that pass:

| Run | Question | Instance |
| --- | --- | --- |
| `MCReducer` | Who holds which key, and what are clients shown and told? | 3 services with ids `a`, `a#2` and none under one configuration, or at most 2 items of one id, with 3 kinds of properties and a menu, under 4 configurations; revisions to 5, symmetric services |
| `MCDaemonPair` | Does an icon stay as long as its application answers, and no longer? | 2 applications, one on the bus before the daemon and one after, the second with an id of its own or that of the first; one registration each |
| `MCDaemonReregister` | Does re-registration work? | 1 application with its id, 2 registrations, also at once, 1 change of its properties, a name of somebody else that comes first (`ForeignFirst`) |
| `MCConfigSequential` | Is the configuration kept? | 2 services, 2 calls one after the other, 1 crash, 1 failure, revisions to 4 |
| `MCApplication` | Is what is shown what was published? | icons of 16 and 8 pixels, 8 wanted; 6 lists of pixmaps, 15 service names, 4 layouts, 6 lists of updates, 3 of removals; 2 changes of the item or 2 of the menu |
| `MCMenuSync` | Does the panel get the menu there is, and does asking end? | 2 paths, 2 menu tasks, 2 calls, 2 events |
| `MCSettings` | Does the window tell the truth and change only what it is told to? | 2 items, 2 configurations, 2 edits, changes of others or failures |
| `MCPanel` | Does the panel show the tray? | 2 items, of which one may be there at first, either of 2 configurations at first, 2 events (items, menus, config, daemon, enable) |

Their bounds. Keys collide when two services choose one id and when one
chooses the suffixed key of another; three services allow both at once, and
five revisions allow everyone to register and two of them to register again or
vanish. Which keys are taken does not depend on the configuration, and two items of one
id have keys enough for all that depends on it (`a` and `a#2`), so `Small` asks
about ids and about configurations in trays of their own. The configurations
include a negative or too small size, blank, untrimmed and repeated keys and an
order that names an absent item. With two
registration calls and the name watch there are five actors that may meet on
one item. `Call` bounds how often applications register and clients ask;
`MaxChanges`, `MaxEdits`, `MaxRevision`, `MaxCrashes` and `MaxFailures` bound what would go
on forever. An event of `MenuSync`, `SettingsApp` and `PanelExtension` is something
the world does; what follows from it in the program is not bounded. Two events
let one happen while the program still deals with the other; with three, the
runs of `SettingsApp` (2.3 million states) and a part of `MenuSync` (3 million)
found nothing more, nor did `QuietPanelIsRight` with one item (17 million). In
`MCApplication` one change follows another on the same part, which reaches every
pair of a wrong value and its correction. The daemon's runs do not check for
deadlock, because applications and therefore the whole system may stop.

Fairness. The runtime polls every task that can go on, so each registration
call, each item task and the name watch has weak fairness (`Fairness`).
Applications have none: they may stop doing anything at any time. Probes are
part of their task's steps, and a task that is watching can always probe, so
time passes as long as the task lives. Two failures in a row are
`PROBE_INTERVAL` (30 seconds) apart: `Probe` does not let the second one happen
while somebody is between two locked steps with nothing to wait for
(`Rushing`), which takes microseconds. `MenuSync`, `SettingsApp` and
`PanelExtension` assume that tasks, the worker and the main loop go on and that
the bus delivers, and nothing of the user, the application or other clients; the
daemon may exit and stay away.

Some of the passing runs avoid what the violating ones below show, or name it.
`MCDaemonPair` lets applications start late, share an id, exit and unexport at any
moment, and its properties name the only ways in which that goes wrong: an icon
of an application that answers is dropped by an actor that took its key for an
older item's, or by the name watch handling the very signal that the name was
acquired (`LiveDropsExplained`); an item is left unwatched where its task was
filed over (`UnwatchedOnlyFiledOver`), and only such an item outlives its
application (`WatchedDeadItemsGo`). In `MCDaemonReregister` the application keeps
its id, and `UnwatchedOnlyFiledOver` names the same exception.
`MCConfigSequential` has one call under way at a time, a client that waits for
each reply. `MCPanel` does not disable the extension while `ListItems` is
awaited, and has calls to `ListItems` answered in turn, `MCSettings` does not
ask about edits before the first picture, and `MCMenuSync` has answers arrive in
the order they were sent.

Runs that find a violation, each of what the repository says of itself:

| Run | Property | What happens |
| --- | --- | --- |
| `MCDaemonUntold` | `ClientsTold` | an item task aborts itself before it announces that its item is gone |
| `MCConfigLostUpdate` | `HideTouchesNothingElse` | `SetItemHidden` takes back what another call changed between its read and its write (`service.rs:191`), and both succeed |
| `MCSettingsWiped` | `SizeTouchesNothingElse` | an edit before the first picture sends the empty configuration the app starts with |
| `MCPanelLeft` | `NothingShownAlone` | a list of items that arrives after `disable()` is painted, and nobody removes it |

`findings` in `PROJECT.json` quotes the lines.

Seven more configurations, which are not among the runs, show what the passing
runs had to leave aside; TLC finds each of them violated:

| Configuration | Property | What happens |
| --- | --- | --- |
| `MCDaemonAcquired` | `LiveItemsStay` | the signal that a name was acquired drops the items just registered under it (`watcher.rs:199`) |
| `MCDaemonRenamed` | `OneTaskPerItem` | re-registration under a new id leaves the old task running (`item.rs:90`) |
| `MCDaemonUnwatched` | `DeadItemsGo` | a task that already ended is filed over the live one, which is aborted (`item.rs:90`) |
| `MCDaemonSameId` | `LiveItemsStay` | a key held across a wait names a namesake's item when it is dropped (`item.rs:104`) |
| `MCConfigTorn` | `NeverHalfWritten` | two saves share a temporary file; an empty file is renamed into place (`config_store.rs:47`) |
| `MCSettingsUndone` | `SecondEditKeepsFirst` | a reload that began before an edit ends after it, and the next edit writes the older configuration back (`model.rs:121` of the app) |
| `MCPanelOvertaken` | `QuietPanelIsRight` | two calls to `ListItems` are answered in the wrong order, and the placeholder stays as the older configuration had it (`extension.js:90`) |

`MCDaemonNamesakes` passes: two applications with one id that register, exit and
unexport at any moment, with all tasks of the daemon, implement `KeyPool`. It is
the small instance of `DaemonImplementsPool` below.

More that the modules show without a configuration of their own:

- An application that restarts before its old item was dropped gets `id#2` and
  keeps it (`AllocateKey`, `KeyKeptWhileRegistered`).
- Two saves may be renamed in the order opposite to the changes, with no error
  recorded: `DiskFollowsMemory` fails on the instance of `MCConfigTorn`.
- `MoveItem` makes the manual order of the items that are there, so the places
  of absent applications are forgotten.
- With `Overtaking = TRUE`, `PanelCatchesUp` fails, and `QuietPanelIsCurrent`
  would without its premise: an older answer to `GetMenu`
  that arrives last stays. `indicator.js` stores `menuRevision` and never
  compares it.
- A menu that is merely swapped for another (`item.rs:375`) is followed, but not
  fetched before its next change or click: it counts as `missed`. A probe takes
  over the new path in the store, and the menu task goes on with the old one.
- A menu task that is aborted (`item.rs:379`) just after it stored a menu of the
  path before leaves that menu in the cache, unannounced, where a `GetMenu` call
  that is about to answer reads it: the panel may be left with it. With five
  events, two tasks and one call this happens; `missed` excuses it.
- A service name whose path is slashes only resolves to the path `/`, and the id
  made of it resolves to the default path instead
  (`RegistrationIdsResolveBack` excludes it).
- The doc comment of `pick_best` (`icon.rs:125`) says only "at least `target`
  wide". The code wants a pixmap to be as wide and as high as that (`Covers`, and
  so `BestPixmapShown`): with 8 pixels wanted it takes 10x11 rather than 9x4,
  which is wide enough and smaller. `DESIGN.md:97` ("at least `target`") and the
  reason the comment gives, not to scale up needlessly, are with the code.
- `LastEditLands` speaks of the last edit. An earlier one may be undone by a
  stale reload and the edit after it, which is `MCSettingsUndone`.
- A negative icon size is cast to a huge unsigned one before it is clamped
  (`FromView` with `Word`), so it becomes the largest size and not the smallest.
  Both are legal, so no property tells them apart.
- `with_config` clears an error at once, though `model.rs:18` says "cleared by
  the next success".
- Rows of the settings window are rebuilt only when the keys change, so a title
  or icon that changes later is not shown (`Rows`).
- A shortcut of the wrong type leaves the old shortcut, where every other
  property of a wrong type becomes its default (`FieldValue`). So a patched menu
  keeps a shortcut that a fetched one would not have; `ShortcutsAreTyped` leaves
  this case out.

## Proofs

The theorems hold for all values of the constants that satisfy the named
assumptions: any finite set of services, any keys, texts, properties, menus and
configurations, any number of calls, tasks, bus names and events. Some take a
hypothesis more, named here; each excludes what the code does not cope with,
and a configuration of TLC shows that the theorem is false without it:

| Hypothesis | Says | Without it |
| --- | --- | --- |
| `OnBusFirst` | applications are on the bus before the daemon listens to names (for the two theorems about `AppsInv` only) | `MCDaemonAcquired` |
| `IdsApart` | an application keeps its id, and no two have the same | `MCDaemonSameId`, `MCDaemonRenamed` |
| `Sequential` | one configuration call is under way at a time | `MCConfigTorn` |
| `~DisableAnytime` | the extension is not disabled while `ListItems` is awaited | `MCPanelLeft` |
| `~Overtaking` (`PanelExtension`) | calls to `ListItems` are answered in turn | `MCPanelOvertaken` |

`ConfigsReadWell`, which goes with `Sequential`, says only that a normal
configuration is not read back as an empty or a broken file.

**The reducer** (`TrayReducerProofs`). The inductive invariant `Inv` is `TypeOK`,
`KeysUnique`, `ServicesUnique` and `SinceUnique`. Uniqueness of keys is not
inductive alone: a registration takes the first free candidate of its base, and
one is free only because there are fewer other items than services, as no
service has two (`OthersAreFewer`, an injection of items into services;
`SomeSuffixIsFree`, the pigeonhole principle; both in `TrayStateProofs`).
Uniqueness of `since` needs that no item is newer than the revision, which is
part of `TypeOK`.

Each event has a lemma that it preserves `Inv` and does one of three things to
the items (`ItemsStep`): one enters in place of what its service had, one
leaves, or one is revised. From these follow, with `NextInv`:

- `Invariance`, `TypeCorrect`, `KeysStayUnique`, `ServicesStayUnique`,
  `RegistrationOrderStaysTotal`;
- `KeysAreNotHandedOver`, `RegisteredItemsKeepTheirKey`;
- `ReducerImplementsPool`: the reducer implements `KeyPool` under the mapping
  `holder`, which gives for each key the service that has it;
- `ConfigChangesReachDisk`, from what each event does to the effects;
- `EveryItemIsListedOnce`: the comparison of items is a strict total order in
  each sort mode (`BeforeIsTotal`: by `since`; by title, then key; by place in
  the order, then `since`), so counting those before an item numbers a finite
  set from 0 without gaps (`Ranked`), and the list has each item at one place;
- `EveryNewPictureIsAnnounced`: a menu is in no part of a snapshot, though the
  items that carry it are what is sorted. Two copies of the items that agree on
  what the order looks at are in the same order (`CopiesInOrder`), hence
  `MenusAreNotInThePicture`; every other event announces.

**The configuration** (`TrayStateProofs`). What `normalized` returns is normal,
that is trimmed, without blanks and repetitions, of a legal size
(`NormalizedIsNormal`); a normal configuration stays as it is (`NormalStays`);
the default, `from_view`, hiding and moving give normal ones. They need no
induction over lists, since `Dedupe` is stated by the places it keeps; `AtPlaces`
and `AtAllPlaces` say what a sequence at some of its places is.

**The daemon** (`TrayDaemonProofs`). The operators of the reducer keep the tray
well formed only for keys, services and properties of the right kind, and in
the daemon these come out of the locals of tasks that others may abort. The
inductive invariant `DaemonInv` is `TypeOK`, `WellFormed(tray)`, `Holding` (an
actor that is about to use a key or properties has them; a task that watches
has failed at most one probe) and `Filed` (only tasks whose call is done are
filed or aborted). `Filed` is needed because a cancelled task forgets its key,
and a call in `InsertTask` still uses the key of its task. One lemma per action
shows that it keeps `DaemonInv` and does to the tray nothing, or what one event
of the reducer does to it (`TrayEvent`). From these:

- `DaemonInvariance`, `DaemonTypeCorrect`, `DaemonTrayWellFormed`;
- `DaemonImplementsPool`: the daemon, however its calls, item tasks and name
  watch interleave, implements `KeyPool` too. The violation of
  `MCDaemonSameId` is no contradiction: there a key is given back, a namesake
  takes it, and an actor that has held it across a wait gives it back once more.

Two theorems say what becomes of items and tasks, whatever ids applications have,
whenever they start and however often they register:

- `UnwatchedItemsWereFiledOver`: when nobody is in the middle of anything, each
  item has a task that would notice its end, or `tasks.insert` put a task that
  had ended, or another application's, in the place of its own, which was aborted.
- `LiveDropsAreExplained`: the icon of an application that answers is dropped only
  by an actor whose key was read before the item was registered, or by the name
  watch handling that the application got its name.

Their invariant is `AnyInv`, which adds to `DaemonInv`: a task watches for the
service of its call, drops the key it was given, and is filed under that key
(`OwnInv`); whoever answers or is known has its name, and a signal of a name that
was there before the daemon says that it is gone (`KnownInv`); and each item is
about to get a task, has one, is about to be dropped, or a task of its own was
aborted (`GuardInv`). `GuardInv` alone is not inductive: that a task filed for an
item is not another's needs `OwnInv`. For the drops, `DropInv` is carried along
with the history: whoever is dropping the key of an item that answers has read it
too early or was told of its arrival, and so has whoever watches under that key
for another service. A second failed probe is about a service that does not
answer (`OwnInv`); a name that is lost is that of one that does not (`KnownInv`).

With `OnBusFirst` and `IdsApart` a key stands for one application for good
(`KeyOf`). The invariant is then `AppsInv`, which adds to `DaemonInv`: an item
has the key of its service; no name of an application that answers is among the
signals still to be handled, and none is about to be acquired (`BusInv`); a task
has the service and the key of its call, and what it is dropping is that
(`TaskInv`); nobody is dropping, or has on a list to drop, the key of an
application that answers, and whoever answers and is registered has an item
(`LifeInv`); a task that still runs after its call returned is the one that is
filed (`FiledInv`). From these:

- `OneTaskPerLiveItem`, for applications that register again and at once;
- `LiveIconsAreNeverDropped`, what `LiveDropsAreExplained` comes to where neither
  of its two ways is open.

None of these needs the fairness of the specification, or the probe interval.

**The store and its file** (`ConfigStoreProofs`). Without a hypothesis:
`StoreTypeCorrect`, however calls overlap, fail and are cut off. Its invariant
`TypedInv` says what the tray, every inode and every call hold, and that the
file and the temporary file are never one inode (`NamesApart`). What a start
loads is normal because whatever was ever written was.

If at most one call is under way (`Sequential`):

- `FileStaysWhole`. It rests on `WholeInv`: a writer finds in the temporary
  file what it put there (`WriterAlone`), since it is alone (`OneAtATime`).
- `DiskIsUpToDate`, by `KeptInv`, which adds to both invariants that a call that
  saves has in hand what is in use (`WantedKept`), and that a restart finds what
  is in use while nobody saves, or an error is recorded (`DiskKept`).
- `StoreIsDurable`: the store implements `DurableConfig`. The mapping takes
  `live` to the configuration in use, `saved` to what `Load` would find and
  `warned` to `last_error`. `Apply` is a change, `Rename` a save, `SaveFails` a
  failure, `Crash` a crash, and every other step stutters; in particular
  `Open` and `Write` do not touch what `Load` finds (`NamesApart`), and `Rename`
  makes it what is in use (`WantedKept`).

Without a hypothesis again: `MovingIsShown`. A call that moves keeps the list of
items it saw and the order it made of it (`MovesKept`), and what it hands to the
store makes the sort mode manual, so that later the items of that order are
listed by their places in it, whatever came or went (`PlacesInOrder`). That the
order made is the one that was asked for is `MovedOrderMoves`: what is taken out
of a list at one place and put back at another shifts those between (`TakenOut`,
`PutIn`, `ShiftsAreUndone`). A crash in between is told from a change by counting
crashes (`CrashesCounted`).

**The settings window** (`SettingsAppProofs`), without a hypothesis.

- `WhatIsSeenIsTrue`, by `PictureInv`: unless something is on its way after which
  there will be another picture (`Coming`: a signal, a call, a write, a message
  that asks), then what the worker is reading, or else the last answer on its
  way, or else what the app has, is what the daemon has (`PictureTrue`); and the
  widgets agree with what the app has unless an edit is on its way
  (`WindowTrue`). That a reload may begin before a change and end after it is why
  only the last answer counts, and why a read is true only while no signal waits.
- `OnlyEditsAreWritten`, by `WriteInv`: writes done, calls that will write and
  messages that will become such calls together are at most the edits the user
  made. Painting adds no message, as each handler that could send one is among
  the `Guarded` (`PaintingIsSilent`).

**The extension** (`PanelExtensionProofs`).

- `MenusStayWithTheirIndicator`, without a hypothesis, by `MenuInv`: every call
  for a menu, every reply on its way and every indicator shown has the id of a
  painting there has been (`made`), and a menu that is to reach an indicator of
  its key and id is not older than the application that one was made for
  (`Suits`). The ids are what `this._indicators.get(key) === indicator` compares.
- `NothingIsShownAlone`, with `~DisableAnytime`, by `AloneInv`. A reply to
  `ListItems` must find the client connected, though "gone" may be on its way in
  front of it. It cannot: what a client will believe after the first n messages
  (`Known`) is true of the daemon at the end of the line, and at the place of
  each list of items (`Order`); the owner is told once (`Owner`); and no list
  is asked for or on its way to a client that does not watch (`Unlisted`).

- `QuietPanelsAreRight`, with `~DisableAnytime` and `~Overtaking`, by `FollowInv`:
  a connected panel that has heard everything and awaits nothing but menus has
  the configuration, the items and the placeholder the daemon wants. This is the
  safety half of `PanelFollows`. `FollowInv` says what a panel that is behind may
  count on while it is connected. Its configuration (`ConfigComes`) is right, or
  in the last reply to `GetConfig` on its way, or asked for, or announced. Its
  items (`PictureComes`) are right, or in the last reply to `ListItems` on its way
  with no other call made, or a picture is due: refresh is `queued`, the
  configuration is asked for, or the last call to `ListItems` carries the
  configuration the panel has. And whoever is `busy` awaits something, so `queued`
  is not kept for ever. The panel that thinks it is connected is right, as
  `AloneInv` says of who has no news of the name on the way (`ConnectedIsUp`).
  Two refreshes may overlap all the same: `enable` starts with `busy` cleared
  while one from before `disable` awaits `GetConfig`, and the first to finish
  clears it again. So more than one call to `ListItems` may be out, each with the
  configuration it was made with, and the last one made must be the last one
  painted.

The attempt showed that `PanelFollows` needs the order of those answers. While
one configuration was the first in every behaviour, the run did not notice; with
any, one disable and one change of the configuration are enough
(`MCPanelOvertaken`). The daemon answers each call in a task of its own and
`list_items` waits for nothing but a lock, so the order is likely and not
promised.

`Channels` has what they need of sequences of messages: what is in one after
sending, taking and joining, and how many of a kind.

**The picture of an item** (`ItemProofs`), without a hypothesis. What is drawn
and said of an item is a function of its properties, so each theorem comes
twice: for any properties there can be, with lists of pixmaps of any sizes, with
more or fewer pixels than they say, any texts and any size wanted; and as an
invariant of `PublishedItem`, for whatever an application publishes.

| For any properties | For any behaviour | Says | States |
| --- | --- | --- | --- |
| `PickedIsFittest` | | exactly one pixmap is picked if any is usable, and no other is fitter | |
| `IconsAreKept` | `IconsAreNeverLost` | who has an icon is shown with one | `IconNeverLost` |
| `FittestIsDrawn` | `FittestIsAlwaysShown` | the picture has the size of a fittest pixmap | `BestPixmapShown` |
| `BadgesAreDrawn` | `BadgesAlwaysStayInside` | a badge is drawn inside the icon, and only there | `BadgesStayInside` |
| `NamesAreSpoken` | `ItemsAlwaysHaveNames` | who has a name is called something | `EveryItemHasAName` |
| `IdsResolveBack` | `IdsAlwaysResolveBack` | an id resolves to what was registered | `RegistrationIdsResolveBack` |

A list of pixmaps has a first of its smallest and a last of its largest entries
without induction: of all entries, take one with the fewest before it
(`FirstOfFinite`). `DrawnFromPicked` says what `IconView::resolve` makes of the
picked ones, `CompositePixels` what is found at each place of an icon with a
badge (`PlaceInRows`: what is put at x, y of an image kept row by row is found
there), and `BlendOfEnds` that opaque pixels hide and transparent ones show. In
`IdsResolveBack` a service name is any sequence of slashes, blanks and words;
that of the caller must be one the bus could give: not empty, without slashes,
not starting with a blank (`NamesAreTexts`).

What leads from the first to the second is that decoding gives properties of
the right types from values of any type: a value that is no text, no boolean
and no list of pixmaps is left at its default (`PropsAreTyped`). It rests on
`PixmapsAreTyped` and `DecodedArray` for lists of pixmaps, bare or in variants,
and on `ItemsAreTyped`, the invariant that whatever is published is a value that
D-Bus can carry (`ValuesAreTyped` says so of the values applications choose
from; `FramesAreWire` shows it of the test item's icons, which only needs them
to be at least 8 pixels wide, `SizesAreLarge`). The steps of an `Application`
are steps of `PublishedItem` or leave its variables alone, so what is proved of
the one holds of the other.

**A node of a menu** (`ItemProofs`). `PatchingIsDecoding` and
`ResettingIsDecoding`: a node that was decoded from a dictionary, patched or
reset, is the node decoded from the dictionary as the application changed it,
whatever the values and in whatever types, but for shortcuts. This is what
happens at one node in `PatchNode`, update by update and removal by removal; that
it happens at the right nodes of a tree is left to TLC.

**The menu the panel shows** (`ItemProofs`). `QuietPanelsAreCurrent`: for any
number of paths, menu tasks, calls and events, when nothing is under way any
more the panel shows the menu there is, or it was `missed`. It holds when
answers arrive in the order in which they were read (`~Overtaking`). This is the
safety half of `PanelCatchesUp`, and says why it holds. The invariant is
`MenuInv`: the item task has its menu task follow the path it read last
(`TaskFollows`), and unless a change was missed, `Heard`: the store has the
right path, and

- either somebody is going to fetch the menu there is, or has it in hand: a menu
  task with a signal waiting, a call, or the panel that is still to ask
  (`Pending`);
- or all is done but the way to the panel (`Settled`): nothing older is cached
  any more, and the menu is in the last answer on its way, or shown, or about
  to be read by a call;
- and if the menu there is is cached, somebody takes it to the panel
  (`CurrentIsDelivered`).

The last part is what makes it inductive: a task that stores a menu equal to the
cached one announces nothing, so the cached one must have been announced, and not
yet overwritten, or answered, before. A task that stores any other announces
it, and the panel asks again (`AskedIsHeard`). That a changed menu is not by
chance equal to an older one that is still about is `PastIsKept`: versions only
grow.

The attempt showed that `missed` had to say more than it did. As first stated,
`PanelCatchesUp` was false for five events, which no run reached: a menu task is
aborted between its store and the announcement, and what it stored is a menu of
the path before.

Only model-checked, and why:

- liveness (`WatchedDeadItemsGo`, `LiveItemsShown`, `PropsConverge`, `PanelCatchesUp`,
  `TrafficEnds`, `ComesToRest`, `LastEditLands`, `PanelFollows`): the prover does
  neither fairness nor ENABLED;
- menus as trees: patching, flattening, rebuilding and drawing them is recursion
  over trees, and no module that reaches a recursive operator can be proved
  about, nor is there induction over data. So `Application` has no theorems of
  its own, and `PatchedIsRefetched`, `InflateUndoesFlatten` and
  `PanelShowsTheMenu` stay with TLC;
- the violations, of course, and everything about power loss, layout and time.

## Not modelled

- Hosts of the watcher (`watcher.rs:24`): a set of names that only grows, of
  which only "is it empty" is read, for a status field.
- Clicks, scrolling and menu events: forwarded to the application, with no
  change of state on the way.
- `GetStatus` and the status page: a record of counters and names.
- Arguments, claiming of names, signals of the process (`main.rs`): they decide
  whether the program runs, not what it does. `Registry::shutdown` ends with the
  process.
- `indicator.js` but for menus: sizes and drawing. (An indicator keeps the icon
  size it was made with, so a new size shows only on new indicators.) The slot
  an icon is put in depends on the children other extensions put there.
- `decode.js` and `prefs.js`: positions of fields in replies, and one button.
- An error in sending a signal: `emit` returns early (`store.rs:144`), so the save
  that would have followed is left out with no error recorded; `Apply` always goes
  on to the save.
- PNG encoding, widgets' layout, D-Bus declarations, packaging.

What proofs could still add: induction over the trees of menus, for the three
invariants of `Application` that only TLC checks, once the prover has it.
