# anime-land: models, checks and proofs

anime-land is a desktop client for anime: it plays local and online media, shows what the web
service Bangumi (bgm.tv) knows of a work, logs in to it, keeps a local catalogue and media library in
SQLite, and finds online resources through JavaScript plugins. It is written in C++ with Qt/QML and
coroutines of the library ilias; media pipelines come from the library nekoav.

Almost all of its own logic runs on one GUI thread, in coroutines that give way at every `co_await`.
Its faults are therefore of one kind: something read before an await, a callback or a request is used
after it, while the user, another page, another coroutine or a late answer has changed what it was
read from. A step of a module here is what happens between two awaits; everything else may happen in
between.

Paths below are relative to the repository, the code is under `src/`.

## 1. Inventory

### Playback

| Component | State | Operations | Interacts with |
|---|---|---|---|
| `PlaybackSession` (`src/model/playback/playback_session.cpp`) | channel of 32 commands, pending command, snapshot, generation, pipeline, watcher task | open, play, pause, stop, seek, tune, close; applying a pipeline message | the pipeline (calls and messages), the controller (commands and snapshot) |
| Pipeline adapter (`nekoav_playback_pipeline.cpp`) | the nekoav pipeline | create, set state, seek, read message, shut down | the session; the decoder threads |
| `PlaybackVideoSurface`, `VideoOutputItem` (`src/view/playback`) | mailbox of one frame, serial, notification flag; the item's pending frame and texture | activate, submit, deactivate; copy, synchronize, render | decoder threads, GUI thread, render thread |
| `PlaybackController` (`src/presentation/playback`) | copy of the snapshot, refreshed every 50 ms | open and play, toggle, seek, shut down | QML, the session |

Hard: the snapshot is written by two coroutines; messages of a pipeline that is already replaced;
commands queued behind a slow one; `close()` at any time; frames submitted on one thread while the
notification flag is cleared on another. Correct means: what is shown is the medium that is open,
and as playing only when it runs; one pipeline at a time, shut down before it is released; no command
lost or overtaken; `close()` ends; the newest frame reaches the screen.

### Bangumi

| Component | State | Operations | Interacts with |
|---|---|---|---|
| `BangumiModule`, `BangumiAuth` (`src/model/bangumi/bangumi.cpp`, `auth.cpp`) | login state, token, user, active flag, callback listener | restore, login, cancel, logout, authorized requests | credential store, HTTP client, browser |
| HTTP client (`client.cpp`) | one pointer to the active reply | request, cancel | all pages share it |
| Credential store (memory, file, system) | the stored token | load, save, clear, each on another thread | the module |
| Browser page (`presentation/bangumi/browser_view_model.cpp`) | busy flags, generation, results, account status | search, collections, login, logout | the module |
| Calendar page (`calendar_view_model.cpp`) | busy flag, days | refresh | the module |
| Command line (`src/view/cli`, `bangumi_presenter.cpp`) | none between commands | one command, then the program exits | the module |

Hard: several operations of one module suspended at the same time; `logout()` while another one waits
for the store or the network; a store that fails; a login that is never answered. Correct means: after
`logout()` nobody is logged in and nothing is stored; the store is used by one operation at a time; the
page says what the module says; collections are those of the user who is logged in; no page stays busy.

### Online resources

| Component | State | Operations | Interacts with |
|---|---|---|---|
| `JsPluginRuntime` (`src/adapters/episode_provider_js`) | busy and cancelled flags, script engine, mirrors, counters | search, resolve, cancel | the script, the network |
| `EpisodeResourceService`, `OnlinePlayableCache` (`src/model/episode_resource`) | searches and playables with their expiry | search, resolve, invalidate | providers, the page |
| Plugin packages (`plugin_manifest.cpp`, `plugin_runtime.cpp:785`) | none; issues of the scan | load the manifest and the configuration, scan the plugin directory | files, settings, the runtime |
| Provider registry (`registry.cpp`) | providers by key | register, remove | filled once at the start |
| `EpisodeResourcesViewModel` (`presentation/episode_resource`) | episode, providers with status, results, pending count, handle being played | open, select, search, play, clear | the service, the catalogue, the player |
| HTML bridge | none | parse, select | the script |

Hard: cancelling at any wait; retries at another mirror; limits; answers of an older search; results that
expire between search, click and resolve; several providers that share one plugin. Correct means: a
cancelled call returns no value and begins no other wait; a pinned result stays at its mirror; limits
hold; what can be clicked is in the cache; the player opens only what is shown; every search ends. When
the application starts, a package that does not load takes no other one with it, and each id has one owner.

### Library

| Component | State | Operations | Interacts with |
|---|---|---|---|
| `CatalogStore`, database (`src/model/persistence`) | subjects, episodes, identities | upsert, find, remove, each a transaction | all services |
| `LibraryStore` | folders, items, links | import, remove, link, unlink, each a transaction | the import service |
| `LocalMediaImportService` (`src/model/library/local_media_import.cpp`) | none | refresh of a work, association, import, remove, link | stores, Bangumi |
| `LocalMetadataService` (`local_metadata.cpp`) | none | describe and link, edit, remove | stores |
| `LibraryViewModel` (`presentation/library`) | lists, association dialog, busy flags | one operation at a time | the services |
| `SubjectDetailsViewModel` | subject, page of episodes, refresh flag, generation | open, page, sort, refresh, play | the services |

Hard: a refresh is three transactions and many requests, with awaits in between, and goes on after the
page was left; the user removes what is being refreshed; two writers of one work; a list that grows while
it is fetched page by page; the program ends half-way. Correct means: references resolve; one row for
one identity; a refresh keeps ids, links and details and misses no episode; it ends.

### Settings

| Component | State | Operations | Interacts with |
|---|---|---|---|
| `GlobalAppSettingGuard` (`src/common/app_settings.cpp`) | settings in memory, the settings file, the key file | load, load or create, save | both programs |
| Settings page (`presentation/settings_view_model.cpp`) | a copy of the settings, what is being saved, busy flag, worker thread | four saves, reload | settings, log, account module |
| Command line (`src/view/cli`) | its copy of the settings | start, commands, saving the OAuth application | settings, account module |

Hard: the save runs on another thread and is taken back when it fails; the file is truncated before it is
written, and written back by every load; two programs share it without a lock. Correct means: the page
shows what is in memory, the application follows it, and what the user was told is saved is still there.

### The rest

Network cache and proxy, the system's credential provider, value types, serializers, the composition root
and QML. They are listed with their reasons in `PROJECT.json`, "components".

## 2. Modules

| Module | Models | Extends / uses |
|---|---|---|
| `PlaybackSession` | the command loop, the watcher, the snapshot, the external pipeline | |
| `PlaybackController` | the player's buttons, their tasks, the timer and the shutdown | EXTENDS `PlaybackSession` |
| `PipelineOwnership` | abstract: how one pipeline at a time is created, used and released | implemented by `PlaybackSession` |
| `VideoSurface` | the frame's way over three threads | |
| `BangumiSession` | the module, its login flow, the shared reply, the store | |
| `BangumiAccount` | the desktop page in front of it | EXTENDS `BangumiSession` |
| `EpisodeProvider` | abstract: what the pages may rely on: one call at a time, no value after a cancel, every call returns | implemented by `PluginRuntime`, assumed by `EpisodeResource` |
| `PluginRuntime` | one plugin's operation through steps, requests, redirects and mirrors | |
| `PluginPackages` | which packages become providers when the application starts | EXTENDS `PluginRuntime` |
| `EpisodeResource` | page, service and cache on top of providers | |
| `LibraryCatalog` | the transactions of both stores, the refresh of a work, and the user's changes | |
| `LibraryPage` | the library page: its list, the association dialog, the editor | |
| `SubjectDetails` | the page of a subject, over the same database | EXTENDS `LibraryPage` |
| `AppSettings` | the settings and key files, the settings page, two programs | |

`MC*` modules give the constants for TLC; `*Proofs` modules hold the theorems. In each module an
operator whose name ends in an underscore and a word (`Target_Blind`, ...), and whose comment
says "Broken" or "bug", is a plausible bug of a definition after it. It is used by no specification;
replacing the definition by it shows that a property notices.

### PlaybackSession

`waiters`, `queue` and `pending` are the suspended senders, the channel and the command that the loop kept aside
while merging seeks. `pc` is the await at which `run()` stands; a handler is one action up to its first await
and one per resumption (`OpenSucceeds`, `OpenFails`, `FailedOpenCleaned`, `PipelineStopped`, `WatcherJoined`,
...). The watcher is a second process that reads a message and applies it in a later step, so that a message
already read meets the next medium. The pipeline is external: it completes every call with success or failure,
ends every seek, ticks, and fails by itself up to `MaxFaults` times. A medium starts at its `StartTime`, which
may lie before zero or past the duration it announces (`MediaLength`), and its clock runs from there; the
message that announces it shows the start, or zero if that is later. Tracks, volume and rate are one command,
"tune". The clients of this module may send any command.

### PlaybackController

The one client of the session. A button starts a task (`Press`) that sends one or two commands: `flows`
says what the task of each suspended send does next, `follows` counts tasks whose Open was taken and which
send Play next. `shown` is `mSnapshot`, copied by the timer (`Refresh`), and what `Toggle` decides on.
`ctrl` follows `shutdown()`: cancel the tasks, wait for them, close the session. `run()` is taken to have
started before a button is pressed; volume and rate, which no button asks for, are left out.

### VideoSurface

A frame is its serial. `submit()` of a thread has two steps, because the notification flag is tested
after the mailbox was unlocked; a notification is counted from the post to the GUI thread's event; the
render thread synchronizes while the GUI thread is blocked and renders later.

### BangumiSession and BangumiAccount

`ops` has for every coroutine what it awaits (store, network, browser) and with which token; `Resume`
takes up an answer that may be success or failure. `cancel()` aborts the reply that the shared pointer
points at and no other. `BangumiSession` is the module by itself, where any caller may call anything at
any time; `BangumiAccount` adds the page's guards and its generation, with requests of other pages
that it cannot exclude. The generation is modelled by the name of the task that holds the current one.

### EpisodeProvider, PluginRuntime, PluginPackages, EpisodeResource

`PluginRuntime` has the steps of `run()`: ask the script, send, wait, sleep between two requests, follow a
redirect, retry at the next enabled mirror. What the script returns is any case the code tells apart. A
transfer that times out may be reported as a network error or as aborted; the model allows both, since
it depends on the version of Qt.

`PluginPackages` begins with what one start finds (`disk`): settings, the package that is built in, the
directories of the plugin directory, and the user's configuration files. `stage` follows `runShell()`: built-in
package, scan, the entries one by one, registration, serving. A host is the sequence of its labels from
the last one, a file is its state and what it says. The runtime then runs for a registered plugin whose mirrors
and limit are those of `PluginRuntime`, so that its permitted mirrors come from a manifest and a user's file.

`EpisodeResource` has the page's coroutines in the order in which they were spawned; each begins at
some later time. A generation is the flag `current` of a task, which falls when a compared generation
changes. An expiry is the time that is left and runs out with `Tick`. Handles are reused once nobody
knows them, which bounds them without limiting the history. A cancel reaches a call only while it
runs. Invalidating a provider's results has no caller yet and is left out.

### LibraryCatalog

A transaction of a store is one action and may fail without effect; `LinksAmong` is the database's
cascade (`EnableFKey` is on). Ids are never given again, as with AUTOINCREMENT. A refresh
(`refresh[r].pc`) has the states of `ensureBangumiSubject()`; it is begun by the details page, which never
takes it back. `covers` is a history variable: the episodes Bangumi listed when the first page was asked
for. `shown` and `picker` are what the user can see, and so remove or link. Turning a page clears
`mRefreshing` while the refresh goes on (`subject_details_view_model.cpp:259`), so the page's guard does
not keep the user from removing the subject meanwhile. Bangumi announces episodes anywhere in the list and
withdraws none. Operations of the library page that are a single transaction are a single step. Texts, tags,
and the kind of a link, which every caller writes as manual, are left out.

### LibraryPage and SubjectDetails

Here a call of a service is one step and the pages are what is looked at closely. `op` is the one operation of
the library page, with the await it is at; most change the database and then read the list (`media`). `picker`
is the association dialog with its pages of episodes, `editor` the editor of a subject the user describes.
`view` is the page of a subject, `tasks` its coroutines, each with the generation it was spawned with: an older
one still changes the database, but what it reads is dropped. `wanted`, `failed` and `unread` are history
variables. Several transactions of one read of details are one step. An episode is its place in the list, and
its number is something else: `numbered` gives it in halves, so that EP 1.5 is 3, and a special, whose number is
not looked for, has 0. The dialog expects a number at the place of the same name, goes to the page of that place
and marks there what has the number, or nothing (`Expected`, `Locate`, `Focus`). Numbers that are not halves,
and those too large for an `int`, are left out, as is the wording of the notice. A work that was removed is not
stored again, since it would get another id; `LibraryCatalog` has that case.

### AppSettings

`at` is the place of each program in start, load, save and end; a step ends where another program, a fault or
the end of the program can come in between. `file` is the settings file (cut, plain or sealed with a key),
`keyFile` the number of the key in it. One setting of each kind stands for all: theme, secret, cache switch and
log configuration. `sink` is the log, with the level the command line gave for this run (`--log-level`), which
holds until a save of the page configures the log again, be it to take a failed one back. The proxy the command
line may give is left out, and so is a secret too long to be encrypted. `prev` and `want` are what a save goes
back to and what it writes. The history variables say what was confirmed to a user, whose copy is older than
that, and what has since been lost to a fault or to the other program.

## 3. Runs

| Run | Checks | Instance |
|---|---|---|
| `session_lifecycle` | `ShownMediumIsOpen`, `GenerationNamesMedium`, `OwnsOnePipeline`, `PositionWithinMedium`, `PlayingMeansRunning` | two media, one of which starts past its duration, and a bad address, channel of 2, 4 commands, seeks below zero and past the end, one fault |
| `session_double_seek` (violation) | `OnlyPausePauses` | one medium, 4 commands |
| `controller` | `ButtonsInOrder`, `SeekingResolves`, `PlayIsShown`, `ShutdownCompletes` | two media, one of which starts before zero, two buttons, 4 sends, channel of 2 |
| `surface` | `NotificationOnItsWay`, `FrameArrives`, `FrameReleased` | two producing threads, 4 calls |
| `account_page` | `LogoutIsFinal`, `StoreOneAtATime`, `PageShowsTheAccount`, `AccountGetsFree` | three coroutines, two users |
| `plugin_calls` | `FirstOfEachId`, `AsksPermittedMirrors`, `RequestBudget`, `NoWaitAfterCancel`, `PinnedToItsMirror`, `Contract` | directories of up to three of seven packages, ten more packages, several settings and user files; three mirrors, one disabled; two requests, one redirect |
| `resources` | `ShownIsCached`, `NoOrphans`, `OpensWhatIsShown`, `RequestsEnd` | two providers of one package, one episode, two results, two handles |
| `resource_failed_search` (violation) | `LiveResultsKept` | one provider, four handles |
| `library_catalog` | `ReferencesResolve`, `OneRowEach`, `AnswerIsTheWork`, `RefreshKeepsLinks`, `DetailsAreComplete`, `RefreshEnds` | one work with three episodes, two of them listed at first, one file, one refresh, pages of one |
| `library_removed` (violation) | `EnsureStoresAll` | the same |
| `pages` | `ListIsStored`, `OffersThePage`, `ShownIsAsked`, `EpisodesOfPage`, `PagesGetFree` | one file, one work, one subject of the user's own, up to 3 episodes (a special, EP 1, EP 2.5), pages of 2, 4 requests |
| `settings` | `PageShowsMemory`, `AppFollowsSettings`, `ConfirmedSurvives` | desktop application and command line, one secret, 3 runs, 2 saves, one fault |

### Why the bounds are enough

* Four commands, with a channel of two: one is being handled, one pending, two queued, and the next
  sender is suspended. They are also Open, Play, Seek and Pause, the fewest with which a pause overlaps a seek
  whose end must not undo it. One fault, and clock messages that wait while one is unread, give every order of
  a message and a command; a second stale message is treated like the first.
* Two buttons: each may be a task of two commands, so that a Stop or another Open comes between Open and Play,
  with a channel that two sends fill. A third button adds a task that waits like these, which remember only their
  next command. What needs more commands than buttons send here, a pause during a seek, is the session's run.
* Two producers and four calls: a frame between the clearing of the flag and the reading of the mailbox,
  one before it, one after it, and a deactivation. The theorems have no bound on either.
* Three coroutines and two users: an operation of the page and two requests that it cannot exclude, so
  that the shared reply pointer can be overwritten and cleared for another one.
* Three packages: a duplicate id before, after and beside another package, and a third one that a limit of two
  cuts off. Packages that fail to load are found once each, since each failure ends in the same skip.
* Three mirrors with the middle one disabled: a first, a last and a skipped one. Two requests and one
  redirect reach both limits; the bound of `RequestBudget` is the product over the mirrors.
* Two providers of one package: a refused call, an answer that comes while the other search runs. Two
  results, of which a resolved one lives one tick and the searches two: one expires before the other.
  Lives are relative, so that longer ones add no order of events.
* One refresh and one association are the two writers of a work; two listed episodes
  in pages of one, with a third announced before the first page, between two, or after the last, and anywhere
  in the list, so that one of them is counted twice; two subject ids, so that a subject can be removed and
  inserted again, and three episode ids, which all three episodes need. The theorems
  have no bound on the number of refreshes.
* Pages of two and up to three episodes: a full page, a short one, and a last page of one, in both orders.
  Four requests: the one being answered, one that replaces it, and one of each page after it. The list begins
  with a special: EP 1 is not where it is expected, which is the
  same page in ascending order and another one in descending; EP 2.5 is; EP 2 is not there at all.
* Three runs, two saves and one fault: each program runs, one of them twice, so that a save of either is
  followed by a start that reads it, while the other holds an older copy.

### Fairness

* Playback: the executor resumes a coroutine that can run; the pipeline completes every call and every
  seek (its contract); the controller's tasks and its timer go on. Users owe nothing; no fairness on faults or
  ticks.
* Surface: the event loop delivers what is queued, the scene graph renders what was asked for, a call
  that was begun ends.
* Account: requests time out after 30 seconds, the wait for the browser after 120, the store answers;
  the event loop resumes who has an answer.
* Plugins: requests have a transfer timeout, so each wait ends; `EpisodeResource` assumes only that
  a provider returns and that spawned coroutines begin.
* Library: requests time out and transactions end, so a refresh goes on. The user and Bangumi owe nothing.
* Pages: the services answer every call. Settings: no fairness, all properties are invariants.

All of it is weak fairness. `CHECK_DEADLOCK FALSE` stands in the runs of the session and the controller,
which really end once they were closed; of the plugins, because an application without such a plugin does
nothing more; and of the surface, the pages and the settings, where the bounded calls are used up.

## 4. What the violations show

1. `session_double_seek`: a second seek handled before the first one's end takes "seeking" for the state
   to return to, and a playing medium is shown as paused (`playback_session.cpp:168`). A unit test says a
   medium that was played and then sought is playing.
2. `resource_failed_search`: a search drops results that are still valid before its provider has
   answered, so a failed one covers them, against docs/online_source/online_source_design.md:399.
3. `library_removed`: a subject removed between the last two transactions of its refresh is inserted again
   as complete, fresh, and without episodes (`local_media_import.cpp:814`), against
   docs/library/library_design.md:150.

Met on the way and left without a run of their own:

* Account. `logout()` does not stop an operation that waits for the credential store, which then logs in
  again or saves its token after the store was cleared (`bangumi.cpp:181`; docs/bangumi/login.md:169 promises
  otherwise). The page's guards prevent it, and `LogoutIsFinal` shows that they do.
  `src/model/bangumi/config.hpp:212` says that calls of the store do not overlap; only those guards ensure it.
* Playback. A SeekEnd that comes late overwrites the state Error. Open and Stop, with a full channel, let
  the Play of the first task come after the Stop, which is shown as an error. Two quick toggles decide
  on the same snapshot and send the same command twice.
* Plugins. docs/online_source/plugin_runtime.md:205 reads as a limit of requests for the whole operation, the
  code counts anew at every mirror and leaves redirects out (`RequestBudget` states the real bound); line 149
  there forbids mixing mirrors, which only holds for results that name their mirror. A package with a key of
  more than 160 characters loads, is not registered, and blocks a later package of its id. When the built-in
  package does not load, or the user's file disables it, a user's package of its id runs, although line 69 there
  reserves it; `FirstOfEachId` says nothing of packages of that id then. A manifest
  is read twice for each scanned package; ids of mirrors are not checked to be unique. `removePlugin()` and
  `invalidateProvider()` compare a prefix, so that "org.x" would match "org.x.y"; they have no caller.
* Online results. docs/online_source/online_source_design.md:401 promises new handles for every search; a cache
  hit hands out the old ones.
* Library. A change that succeeded shows an error when the list cannot be read afterwards, and the page keeps
  the old list until it is read again (`ListIsStored` excepts that). The dialog looks for a number only on the
  page where it would be if nothing but whole numbers came before it, and says so when it is not there.
  Describing a subject in the dialog clears the results but not the selected subject. A page of the dialog that
  failed cannot be asked for again; a failed re-sort leaves the order switched. A refresh in the background
  overwrites titles the user has edited.
* Settings. `load()` wants the key file before it looks at the settings, so the migration of a plain secret
  (`app_settings.cpp:383`) never happens; a save that cannot make a key writes the secret plain, although
  docs/bangumi/login.md:213 says that it is stored encrypted, and the next load refuses that.
  `ConfirmedSurvives` says that nothing is plain before a fault or a race for the key. A level that the command
  line gave is lost when a save of the log settings fails, since what is configured again is the level in
  memory. After a failed load the application runs on defaults, and its next save overwrites the file. The log
  level is set even when configuring the log fails. The two programs overwrite each other's saves, and may each
  make a key.

## 5. Proofs

TLAPS checks the theorems for every value of the constants under the modules' assumptions (`SessionAssumption`,
`ControllerAssumption`, `SurfaceAssumption`, `AccountAssumption`, `MirrorsAssumption`, `LimitsAssumption`,
`ConstantsAssumption`, `NoneAssumption`, `PluginAssumption`, `LifeAssumption`, `PageAssumption`,
`SettingsAssumption`, `PackagesAssumption`, `StartsAssumption`): which media, how large a channel, how many
producers, coroutines, users, mirrors, requests, providers, works, files, episodes, secrets or saves. They say
that special values are not ordinary ones, that the episodes first listed for a work are its own and the numbers
of a work's episodes are one for each place, that a medium starts at a whole number, that commands are commands
and buttons send such, that limits, lives and sizes of pages are numbers, that there are finitely many providers
and each has its package, that what a package that loads calls a list is one, and that the desktop application
is one of the programs. A theorem without a property stands for a fact that no run checks by itself, the types
or a strengthening. TLC checked each inductive invariant before it was proved.

| Theorem | Property | Argument |
|---|---|---|
| `PlaybackSessionProofs.TypeCorrect` | none | inductive with `ControlInv`: which await the loop is at determines whether a watcher and a pipeline exist |
| `ShownIsOpen` | `ShownMediumIsOpen` | with `ViewInv`: while a pipeline is being closed its generation is past, without one nothing is on show, and with one the snapshot names its medium and generation; a late message is then of an older generation |
| `SessionOwnsOnePipeline` | `OwnsOnePipeline` | refinement: each action is a step of `PipelineOwnership` or leaves its variables alone, by the type invariant |
| `GenerationIdentifiesMedium` | `GenerationNamesMedium` | every step leads to a snapshot that may follow the one before |
| `PlayingIsRunning` | `PlayingMeansRunning` | the property is itself inductive given the types: only an accepted play, or a seek that ended with nothing decided since, shows "playing" |
| `PositionIsWithin` | `PositionWithinMedium` | `TimesInv`: every message on its way, or held by the watcher, has a time of its medium, between its start and its end, and announces its one length; a snapshot knows that length or none. A position asked for by the user is clamped to the length known; without one it may be any, but the message that announces the length brings the medium's start with it, which replaces it. That such a message is of the medium on show is `ViewInv` |
| `ButtonsKeepSession` | `PlayingMeansRunning` | `ControllerSteps`: each button sends a command of the session, since the copy on show was once a snapshot (`ShownInv`), so that every step is one of the session's, or shutdown withdrawing what was not taken; all invariants above are kept by both |
| `TakenAsPressed` | `ButtonsInOrder` | what a send or the channel does lengthens or keeps the list of commands outstanding (`SentBehind`); when the loop takes the k-th of its backlog, the command kept aside with the channel is what was behind it (`KeptBehind`), and so is the whole list (`FirstTaken`) |
| `ButtonsKeepPipeline` | `OwnsOnePipeline`, `GenerationNamesMedium` | the lemmas of the session for its steps; what shutdown withdraws touches neither a pipeline nor a snapshot |
| `EndedLeavesNothing`, `ClosedLeavesNothing` | none, the safety half of `ShutdownCompletes` | `LastInv`: the shutdown command is the last that is handed over, so that nothing is behind it when the loop takes it (`LastHanded`, `LastTaken`), and from then on nothing can come; an ended session has no pipeline, hence no watcher that would still change the snapshot (`EndedIsStill`); `LeavesInv`: the controller closes the session when none of its tasks is left to send |
| `VideoSurfaceProofs.NoLostNotification`, `OneNotification` | `NotificationOnItsWay`, none | both rest on `FlagInv`: the flag is set exactly while a thread is between setting it and the GUI thread's event |
| `BangumiAccountProofs.TypeCorrect`, `LoggedInWithToken` | none | of the session by itself: the type of `ops` says that nobody verifies or saves without a token, which makes the second one inductive |
| `StoreUsedByOne`, `LogoutStays`, `PageAgrees` | `StoreOneAtATime`, `LogoutIsFinal`, `PageShowsTheAccount` | of the session under the page's guards, with `PageInv`: one coroutine at most is the page's (`TasksInv`), where it is determines the state of the module (`StateInv`), so that between two operations nothing can be at the store; after a logout no login is under way, and a restore finds nothing (`LogoutInv`). Requests of other pages touch none of this, which `Becomes` and `Only` say of each step |
| `PluginRuntimeProofs.TypeCorrect`, `StaysAtItsMirror` | none, `PinnedToItsMirror` | with `BetweenMirrors` (nobody can have cancelled between two mirrors) and `AtItsMirror` |
| `KeepsPromise` | the safety part of `Contract` | refinement of `EpisodeProvider`, step by step |
| `CancelledStops` | `NoWaitAfterCancel` | by the types and `BetweenMirrors`: each action that begins a wait comes after a test of the cancelled flag, or where it cannot be set |
| `BudgetKept` | `RequestBudget` | `BudgetInv`: what was sent is at most the whole limit for each enabled mirror already left (`Below`), plus the requests and redirects of the present one so far; that the mirrors left are among those enabled gives the product |
| `AsksOnlyPermitted`, `StartedRuntime` | `AsksPermittedMirrors`, none | `StartedInv`: whatever is registered is of a package that loads, so that each of its mirrors is permitted by its manifest; `RankedIs`: the ranks of the mirrors are a permutation, in which none comes before one of higher priority; the loop takes the least untried place. The runtime so started takes only steps of `PluginRuntime`, so that its invariant may be used |
| `OffersFirstOfEachId` | `FirstOfEachId` | `ScanInv`: while entries are read, what was loaded are the first sound packages of each id among those looked at, since the ids excluded are those of the built-in package and of every sound package so far (`FirstIsNew`); what was loaded is registered from its beginning, so that the next package is of a later place and of another id than all that are listed (`ScanRegister`), whose keys it then cannot repeat (`NoClash`); reports are one for each place that is not the first of its id. Packages of the built-in one's id, when that is wanted and not offered (`Disputed`), are left out |
| `EpisodeResourceProofs.ShownStaysCached`, `EachHandleHasItsSearch`, `OpensTheShown` | `ShownIsCached`, `NoOrphans`, `OpensWhatIsShown` | of the tasks that are not out of date one at most waits for each role (`RolesOK`), and those left behind begin before any of them (`OrderOK`); what a search has dropped is not in the cache until it stores its own (`CallsOK`); each handle is one search's (`CacheOK`), which every function of the cache keeps by a lemma of its own |
| `LibraryCatalogProofs.TypeCorrect`, `ReferencesAlwaysResolve`, `OneRowForEach` | none, `ReferencesResolve`, `OneRowEach` | `Consistent` is kept by each transaction, by a lemma of its own, if the caller hands it episodes of the subject's work only; `RefreshOK` and `LibraryOK` say that every coroutine does, although what it noted was read several awaits before |
| `AnswersTheWork` | `AnswerIsTheWork` | `Sound`: an id a coroutine has noted is below the last one given, and no transaction (`Keeps`) gives such an id to another work |
| `LinksAreKept` | `RefreshKeepsLinks` | each transaction that a refresh uses only adds (`AddsOnly`) |
| `DetailsClaimAll` | `DetailsAreComplete` | `CoversInv`: each episode that was listed at the beginning has been fetched or is beyond the offset of the next page, since an insertion moves an episode only backwards (`ListsOnlyGrow`); at the end of the list all of them have been fetched, then stored, and a subject that is still there keeps its rows (`RowsOnlyStay`) |
| `SubjectDetailsProofs.PagesStayConsistent` | none | types of both pages, with `OpInv` (an operation's kind determines its await and what it was begun with), `TasksInv` and `ViewInv` |
| `ListAgrees` | `ListIsStored` | `ListInv`: every way out of an operation that may have changed the database goes through reading the list |
| `OffersTheRightPage` | `OffersThePage` | the request under way is the page asked for (`Requested`); in descending order the dialog takes the pages from the end and reverses them, and `OfferedIsThePage` shows by arithmetic on offsets that this is the page of the reversed list, and that the place where a number is expected is on it; what is marked is an episode of the page with that number, which exists if the one at its place has it |
| `ShowsTheAsked`, `ShowsThePage` | `ShownIsAsked`, `EpisodesOfPage` | coroutines of the present generation are about what was asked for last, and what is on show is that subject or nothing; `SortedIs`: the stored episodes in order are a list of each of them once, since ranks are an injection into as many places |
| `AppSettingsProofs.ShowsMemory`, `FollowsSettings` | `PageShowsMemory`, `AppFollowsSettings` | `GuiInv`: while a save is under way the page shows the old settings with the theme chosen, what is to be saved differs from the old only in what is saved, memory is the old or the new, and the application follows the old; each way out of the save restores one of the two; whatever configures the log sets its level and what it is measured by together |
| `ConfirmedStays` | `ConfirmedSurvives` | what a program is about to write is its memory (`DocsInv`); as long as no two programs made a key at once, one key is made and all that is sealed is sealed with it (`KeyInv`); the file, and every program that read it and is not older, has what was confirmed (`FileInv`). A file that is sealed is sealed with the key that is in the key file, as long as no key was raced; and without a fault every save finds or makes one (`SealInv`) |

Every safety property of the runs that hold is proved. Only model-checked, because the prover cannot treat
fairness: `SeekingResolves`, `PlayIsShown`, `ShutdownCompletes` and the liveness half of `Contract`, whose
safety halves are `ClosedLeavesNothing` and `KeepsPromise`, and `FrameArrives`, `FrameReleased`,
`AccountGetsFree`, `RequestsEnd`, `RefreshEnds`, `PagesGetFree`. The provers cannot instantiate induction over
data either: that is why orderings are defined by ranks (`SortedBy`), and the list of providers place by place
(`Lists`). That a set has a least element is the only induction the proofs use.

## 6. Not modelled

* Texts, pictures, tags, colours, log output, layout; parsing and serialization (`qt_json_serializer.hpp`, TOML).
* The pipeline, the network, the browser, SQLite and the plugin's script, except for what the code sees of
  them. The credential provider of the system is an outcome of the account session's store.
* The result lists and paging of the Bangumi browser page, and the day lists of the calendar page; searching
  and listing subjects.
* Value types (progress, identity, media, search requests), the HTML bridge, network cache and proxy: they keep
  no state of their own, or only set up Qt's.
* What has no caller: `removePlugin()`, `invalidateProvider()`.
* The executor's order among coroutines that can run: any order is allowed, except where coroutines are
  spawned in order.
* The components listed as `not_modelled` in `PROJECT.json`, for the reasons given there.

## 7. Plan

Done: playback with its controller, surface, account, plugin packages and runtime, online resources, catalogue,
both library pages, settings; theorems about every safety property of the runs.

Next, in this order:

1. The Bangumi browser page's searches and collections with their paging, and the calendar's guard, above
   `BangumiAccount`.
2. What the HTTP client accepts as an answer, and the value types of a search, as pure operators against a
   reference.
