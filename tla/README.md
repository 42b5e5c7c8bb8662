# Calcium Client in TLA+

TLA+ models of the Calcium Homebrew Client, the TLC runs that check them on
small instances and the theorems TLAPS proves about them for every instance.
The models are translated from the C++ under `src/`; comments and docs of the
repository are used only where a run sets one against the code (see
*Where code and comments disagree*).

    tlc -config AppManager.cfg MCAppManager      # model-check one run
    tlapm AppManager_refinement.tla              # check the proofs of a module

`PROJECT.json` lists the runs, which source lines each definition stands for,
the faulty variants each property is tested with, the hazards of the code and
the theorems.

## 1. The system

The client browses repositories of homebrew applications, installs them,
starts them and removes them. `main` creates an `Application`, which creates
everything else and runs the main loop. Three kinds of thread exist:

* the **UI thread**: main loop, input, screens; it calls `AppManager`;
* the **operation thread** of `AppManager`: one install or uninstall at a time;
* the **refresh thread**: started once by `Application::run`, detached.

`DownloadManager` brings a worker thread of its own, but no code of the client
creates one: installs call the HTTP client directly. It is a library component
with tests, and is modelled as such.

| Component | State it keeps | Operations | Talks to |
|---|---|---|---|
| `Application`, `main` | the subsystems, exit flag | init stages, run, exit | everything |
| `AppManager` | busy flag, operation thread, one event callback | install, uninstall, cancel, queries, refresh | repositories, database, package manager; events to screens |
| `PackageManager` | busy flag, cancel request | install, uninstall, cancel | HTTP client, verifier, installer, database |
| `PackageInstaller` | cancel flag; staging and install directories on disk | install, uninstall, cancel | file system |
| `PackageVerifier` | SHA-256 state | verify, hash | reads a file |
| `InstalledDatabase` | vector of records, `installed.json` | load, save, find, upsert, remove, clear | disk |
| `HttpClient`, `PS4HttpClient` | one cancel flag | get, download, cancel | libcurl, libSceHttp; progress callbacks |
| `DownloadManager` | queue, active item, history, stop flag | enqueue, cancel, cancel_all, queries, destruction | HTTP client; callbacks |
| `Filesystem` | – | queries and mutations that answer TRUE or FALSE | disk |
| `Repository`, `RepositoryManager` | list of apps, loaded flag; list of repositories | refresh, find, search | HTTP client, parser |
| `MetadataParser` | – | parse index, parse app, validate | – |
| `Config` | settings, `config.json` | load, save, add/remove repository | disk |
| `Launcher` | – | launch | platform, database |
| `UIManager`, screens, widgets | current screen, history, per-screen copies of manager state | navigate, update, handle event | `AppManager`, `Config`, `Launcher` |
| platforms (SDL2, PS4) | event queue, window | poll, present, launch | OS |
| `Logger` | sinks | log | – |

### What is hard in it

* **One cancel is three flags.** `PackageManager::cancel` stores
  `m_cancel_requested`, the HTTP client's flag and the installer's flag one
  after the other; each is cleared somewhere else (at the start of an
  operation, of every `get` and `download`, of the installation), and the HTTP
  flag is shared with the catalogue refresh.
* **Files in several steps.** Download, verification, staging, removal of the
  old version, rename, marker, database: each step may fail, most results are
  not looked at, and the process may end between any two.
* **One JSON file for all records**, emptied and rewritten after each change.
* **Two busy flags**, taken in one order and released in the other.
* **A queue with one shared flag**: the download manager answers waiting
  downloads itself and asks running ones to stop through a flag that other
  downloads see too.
* **Joins**: destructors cancel and then wait; a cancel that got lost must not
  make them wait for ever.
* **One slow thread fills what another reads**: the refresh thread replaces the
  lists of the repositories one by one, each under its own mutex, except for a
  reference that escapes it; screens keep what they read and open it later.
* **The same list twice**: the settings screen and `Config` each hold the
  repositories, changed by two pieces of code per button; loading stops half-way
  and saving starts by emptying the file.
* **Lifetime and visibility**: detached refresh thread, callbacks to screens,
  unlocked vectors read by the UI thread.

The properties wanted of each component: of the *package pipeline* that a
failed or cancelled install leaves the old one alone, that a reported success
happened, that nothing unverified is unpacked, that nothing is littered; of the
*database* that a restart loads what was believed; of *AppManager* that
operations end, are never refused by a flag left behind and that it can be
destroyed; of the *download manager* that it is a queue which answers every
download once; of *repositories* that readers see a list that was loaded, that one that
fails does not stop the others, and that what is listed can be opened; of the
*parser* that it skips; of *Config* and the *settings screen* that both lists stay
the same and that the next start does what was saved; of the *UI* that screens follow the
events and are alive when they get one.

## 2. Modules

| Module | Models | Kind |
|---|---|---|
| `Storage` | a file system whose mutations fail within a budget of faults | variable, helper |
| `HttpClient` | `HttpClient`: cancel flag, `get`, `download` with its retry loop and its destination files | actions to compose |
| `AppIds` | apps and versions | constants |
| `PackageInstaller` | staging, extraction, swap, marker, removal | actions to compose |
| `InstalledDatabase` | records in memory, `installed.json`, load, two-step save | actions to compose |
| `PackageManager` | the pipeline as a program counter over the four modules above | actions of the operation thread |
| `AppManager` | UI thread, operation thread, refresh thread, death and start of the process | specification and properties |
| `MCAppManager` | instance for TLC | |
| `AppManager_proofs` | inductive invariant and theorems | proofs |
| `HttpClient_proofs` | lemmas about storage and the client, for the proofs of both managers | proofs |
| `AppManager_disk_proofs` | invariant and theorems about what is left on disk | proofs |
| `Operations` | what the manager promises the screens: one operation, one record, one step | abstract specification |
| `AppManager_refinement` | `AppManager` implements `Operations` | proofs |
| `Screens` | `UIManager`, the listening screens and the events, over `Operations` | specification and properties |
| `MCScreens` | instance for TLC | |
| `Screens_proofs` | inductive invariant and theorems of the screens | proofs |
| `PS4HttpClient` | the console's `download`: its own retry loop over the same flag and destinations | actions to compose |
| `DownloadQueue` | what a download queue promises | abstract specification |
| `DownloadManager` | the download manager over either client | specification, properties, refinement |
| `DownloadManager_proofs` | inductive invariant, theorems and the refinement of the queue | proofs |
| `Config` | settings in memory, `config.json`, partial load, two-step save | actions to compose |
| `Settings` | the settings screen over `Config`, start and death of the process | specification and properties |
| `Settings_proofs` | what the loops over the lists compute, inductive invariant and theorems | proofs |
| `MetadataParser` | which index texts and entries are taken, skipped, refused, thrown | operators |
| `Repositories` | the repositories, the refresh thread, the reader without a lock | actions to compose |
| `Catalogue` | home and catalogue screens over `Repositories` | specification and properties |
| `MCCatalogue` | instance for TLC: the index texts | |
| `Catalogue_proofs` | inductive invariants and theorems of the catalogue | proofs |

### How state and actions correspond to the code

*Steps.* An action is what a thread does between two points at which another
thread, or the end of the process, can make a difference: from one access of a
shared flag or of the disk to the next. `pc` in `PackageManager` names the point
the operation thread has reached:

    requested -> download -> transfer -> verify -> verified ->       PackageManager::install
      stage -> extract -> extracted -> removeOld -> rename -> mark   PackageInstaller::install
      -> dropPackage -> register -> save -> write -> report          remove archive, upsert, save
    requested -> removeFiles -> register -> save -> write -> report  PackageManager::uninstall
    report -> end -> idle                                            BusyGuard, m_busy.store(false)

*Flags.* `pkgBusy`, `cancelRequested` (`PackageManager`), `httpCancelled`
(`HttpClient`), `installerCancelled` (`PackageInstaller`), `mgrBusy` and
`joinable` (`AppManager`) are the members of the same meaning. `Cancel`,
`CancelHttp`, `CancelInstaller` are the three stores of one call; the UI thread
does nothing else in between. `Shutdown` is the destructor: where an operation
was ever started it cancels, then waits (`Exit`).

*Disk.* A directory is the version last put in it, how sound its content is
(`absent`, `part`, `whole`, `mixed`, `rogue`) and the version its marker names.
A package file is what a download left there (`absent`, `partial`, `good`,
`bad`, `garbled`). The database file is missing, malformed or written. File
names are the pair of id and version for a package, the id for a directory; the
code derives them in the same way.

*What the network, the archive and the disk bring* is a choice: an attempt
brings the published bytes, other bytes, an error answer or a transport error;
bytes that are not the published archive may end extraction at any entry, with
success or without; any mutation may fail at the cost of one unit of `faults`.
`NoFaultYet` says that none did, which is how most properties say "unless
storage failed"; `FailureKeepsOldInstall` and `SuccessIsReal` ask
`storageFailed` instead, which tells whether this operation met a fault, while
unpacking or in the swap. `unpacked` is the content of the archive it unpacked.
A failing `remove_all` may leave anything of the directory. The writes whose
outcome the code does not look at (closing a download, closing an extracted
file, the body of `installed.json`, the marker) may fail silently.

*Process.* `Crash` and `Exit` forget the memory and keep the disk, `Boot` loads
the database and starts over (`Application::init`). `Crash` is limited to
`MaxBoots`, so that each can be followed by a start.

*History variables* (`before`, `cancelled`, `unpacked`, `storageFailed` in
`AppManager`; `missed`, `borrowed` in `Screens`; `told`, `accepted`, `asked`,
`cancelDue` in `DownloadManager`, and those named below) are read by properties
only.

*DownloadManager.* Every public operation holds the mutex throughout and is
one action; the worker's steps lie between its accesses of the mutex and of the
cancel flag. A caller is the owner, or a callback made by the worker, which
holds no lock. `DownloadQueue` is the abstract specification: accepted
downloads wait in order, one is worked on, each is answered once; a waiting one
may be withdrawn by its id, or all of them at once. The
refinement maps `queue`, `active` and the list of final callbacks; retries, the
flag and the transfer are stuttering steps.

The client is the platform's: `client` is chosen once. `BeginDownload` and
`Transfer` are `HttpClient`'s steps or `PS4HttpClient`'s, where an attempt is
"at the loop" or has its file open, and both flags, `m_cancelled` before an
attempt and after each part read, are steps of their own. Where the console
client removes a partial file and fails, it throws, the worker catches nothing
and the process ends (`Ps4Ended`): nothing happens any more.

*Settings.* Of the scalar settings `verify_hashes` stands for all: each is
shown, changed and saved like it. `config` is `m_data`, `rows` is `m_repo_rows`;
each button is one action that changes what the code changes, the screen and
the settings by their own code. `EraseRow` follows `std::remove_if` turn by turn
(`ShiftTurn`), since its predicate refers into the vector it shifts. The loops
over lists are recursive functions, so that they can be proved about. `PressSave`
applies the screen and opens the file, `FinishSave` writes; between them the
process may die. `Boot` is the start: the defaults, then what `from_json`
assigned before it met a value of the wrong type. A file is what a person may
have left, or the client. `seen` (what was shown when Save was last pressed)
and `cutShort` are history. Ids count up from 1 in each process, as the
unseeded `std::rand` gives the same ones each time.

*Catalogue.* The refresh thread takes two steps per repository: it gets the
text and parses it (`Fetch`), and replaces the list, holding the mutex from the
first to the second (`Store`). The UI thread reads one repository per two steps:
`Look` is `is_loaded`, which waits for the mutex, and `Copy` follows the
reference without it. `purpose` says who asked: home, the catalogue on entering,
or its filter. Order and names of the applications are left out. What a text
holds is what the parser asks of it (`IndexTexts`), so that skipped, refused and
throwing texts are told apart by the operators and not by their names. `asked`
and `enteredLate` are history.

*Operations.* The abstract specification forgets the pipeline: an accepted
operation is running until its record changes, in one step, or it fails, and is
over when the busy flag is released. `Progress` in `AppManager` is the mapping:
done from the step that reports success in memory (`upsert`, `remove`) on. All
else (files, downloads, flags, cancels) stutters; `Crash` and `Exit` are `Stop`,
`Boot` is `Start`. `Screens` is built over the abstract specification, so what
is shown of the screens holds of the client with its pipeline in the place of
it.

*Screens.* The UI thread is free between two inputs, or in the `on_enter` of a
screen that listens: there it reads what the manager says (`EnterDetail`,
`EnterInstalled`, `EnterDownloads`) and then subscribes (`Subscribe`); the
operation may move in between. `Frame` is `update` of the current screen: which
buttons react is as old as the last frame. The operation thread sends events
through `emit`; the detail screen's callback is two steps (`TellDetail`,
`ActOnEvent`), since it compares the application first and the UI thread may
open another one then. Home and catalogue are `Browsers`, settings and about
`Plain` screens. Two history variables speak of the current screen since it was
entered: `missed` (a result about it went out after it had read and before it
had subscribed) and `borrowed` (an event of another application was already in
the detail screen's callback when that screen was entered). `CatalogRefreshed`
is left out, as no screen reacts to it; `Launch`, which changes nothing, too.

*Undefined behaviour.* Callbacks and the UI thread share a screen's members
without a lock: the model takes each read or write of a screen as a step and
lets them interleave. An event for a destroyed screen may leave no trace
(`TellDead`) or end the process (`CallKills`).

## 3. Runs

| Run | Bounds | Distinct states | Shows |
|---|---|---|---|
| `AppManager` | 1 app with a hash, 2 versions, 2 HTTP attempts, 1 entry, 1 fault, 1 restart | 2.9 million | the safety properties of the pipeline |
| `AppManagerLive` | 1 app without a hash, 1 version, no fault, no restart | 76 thousand | operations and the destructor end; what a result says of an app whose archive nobody checks |
| `DownloadManager` | 2 ids, 3 downloads, either client, `max_retries` 1 (one attempt of libcurl, two of the console), 1 retry, 1 fault | 289 thousand | safety, the refinement of `DownloadQueue`, every download is answered, the destructor returns |
| `Screens` | 2 apps, 1 version, 1 browser, a history of 1 | 1.9 million | what the screens show and whom their buttons reach |
| `Settings` | 1 good and 1 broken address, 1 id per process, 3 rows, 1 fault | 268 thousand | the rows and the settings agree, the next start does what was shown |
| `Catalogue` | 3 repositories, 6 index texts, 2 apps, 2 categories, 1 search text, 1 featured app | 507 thousand | the screens against the refresh |
| `DownloadsBlind`, `DeadScreen` | the same as `Screens` | – | a counterexample each, see section 5 |
| `CancelLost`, `SwapNotAtomic`, `SaveNotAtomic`, `CancelSticks` | smallest that show it | – | a counterexample each, see section 5 |

Why the bounds are enough: one app and two versions give install, upgrade,
downgrade, reinstall and uninstall, in any number of operations (operations are
not bounded); every pair of operations on different apps shares only the flags,
the budget and the database file, and `SaveNotAtomic` has two apps for the
latter. One fault anywhere covers each ignored result on its own; one death of
the process anywhere, followed by any operations, covers each kind of leftover.
With one entry an extraction has a step before, at and after its only entry.
Two HTTP attempts give one retry, hence the seek that does nothing. Three
downloads over two ids give an id enqueued again behind another one. The
theorems of section 4 do not depend on any of this. The versions are
interchangeable (nothing compares them but for equality), so `AppManager` uses
symmetry; the liveness runs do not.

The screens need two applications, for events of the one to meet a page of the
other; one version, as a screen only tells whether what it shows is recorded;
one browser, as browsers differ in nothing, and no plain screen, which a
browser without a click is. A history of one entry is pushed, full, dropped and
popped.

Three repositories are one to read, one to refresh and one behind it: a refresh
that skips the next after a failure, or ends with it, is seen. Two applications
in two categories, of which one is in two repositories with different
categories, give search and category different answers. The six texts are: a
sound entry among one entry for each reason to skip it; two sound entries, one
with a hash that is not a string; none; malformed; a `schema_version` that
throws; no `apps`. A fourth repository or a second text to search for adds
states and no new case.

In `Settings` three rows are a duplicate id with a row before, between or
after; a hand-written file has up to two repositories, with every relation of
their ids to each other and to the ids the screen gives. An address that is not
UTF-8 is what Backspace leaves of a two-byte character (`SettingsScreen.cpp:43`).

The runs do not check deadlock: a client without requests, or one that has been
closed for good, really does stop.

### Safety properties of `AppManager`

* `CancelHonoured`: a cancel whose store falls into a window in which the code
  looks at that flag again stops the operation before it touches the installed
  files; three flags, a shared client and the resets of other calls do not
  defeat it.
* `NeverBounced`: what `AppManager` accepts is never refused by
  `PackageManager`'s busy flag.
* `VerifiedOnly`: no file of an archive that fails its hash is unpacked for an
  app that has one.
* `FailureKeepsOldInstall`: a failed install leaves the record alone, and the old
  files too, unless storage failed in the swap itself (a removal of the old
  directory or a rename: `PackageInstaller.cpp:259`, `:264`). A fault at any
  other point, or in an earlier operation, does not excuse it.
* `SuccessIsReal`: after a reported success the record, and the files in the
  directory, are of the version asked for, or both are gone after an uninstall.
  A published archive is then whole, also with a cancel in the middle, a
  leftover, or a removal that failed, and an app with a hash is never installed
  from another one. The property does not say that every success is whole,
  because that is false: storage that fails while unpacking (an extracted file
  is not flushed before it is asked, `Filesystem.cpp:158`) and, for an app
  without a hash, an archive that is torn or none at all
  (`PackageInstaller.cpp:88`) are reported as successes. `AppManagerLive` has
  such an app, `AppManager` one with a hash.
* `NoMixedInstall`, `NoLitter`: leftovers of interrupted operations are neither
  built upon nor, without interruption, produced.
* `RestartLosesNothing`, `RecordedIsInstalled`: memory, database file and
  directories agree at the points where they should.

* `ImplementsOperations`: the record changes in one step with the result and
  stays otherwise, in every interleaving of pipeline, cancel, refresh, crash.

### Of `Screens`

* `ActiveRowIsRunning`, `CancelHitsItsRow`: a row of the downloads screen that
  is shown as running is the running install, and a cancel button that reacts
  during an operation belongs to it, although `cancel` names no application.
* `BackChangesScreen`: no screen is kept twice in a row, also at the limit.
* `DetailIsCurrent`, `NoGhostEntry`: what the detail screen shows of its
  application is what is recorded, and the installed screen lists nothing that
  is gone, also while other applications are worked on and their events come
  in. Two moments are excepted: while an own operation has not told its result,
  and after a result went out between the reading of the screen and its
  subscription (`missed`). In the second the screen is stale until it is entered
  again: see *Seen while modelling*.
* `DetailWorksForItself`: the detail screen takes itself for working, and holds
  its buttons back, only for an operation on its own application. The callback
  compares the application first and acts later, on another thread; the one
  event that may mislead it was let in before the screen was entered for another
  application (`borrowed`). Without the comparison, or without the reset of the
  flag on entering, the property fails.

### Of `Settings`

* `RowsMirrorConfig`: as long as no id occurs twice, no button makes the rows
  and the settings differ in their repositories or their order. With an id
  twice they do: see *Seen while modelling*.
* `NextStartFollowsScreen`: what the managers copy at the next start is what
  the screen showed when Save was pressed, whatever was loaded before, unless
  storage failed, the process died inside the save, an id occurred twice or a
  text was not UTF-8.

### Of `Catalogue`

* `NoTornRead`: the copy that takes no mutex never meets the replacement. It
  rests on two facts nobody wrote down: the reader looks at `is_loaded` first,
  and a repository is refreshed once in a process.
* `OpenFinds`: what cards and featured items name is found when it is opened,
  though they are older than the lists it is looked for in.
* `ShowsWhatWasAsked`: after the refresh the catalogue shows what text and
  category ask for, in whatever order they are entered and cleared.
* `EveryRepositoryIsAsked`: every repository is asked unless the process ends,
  which a `schema_version` of the wrong type brings about.

### Of `DownloadManager`

`OnePlace`, `NoDuplicateId`, `CalledBackOnce`, `CancelStopsRetries`,
`CompletedIsOnDisk`, the refinement `ImplementsQueue`, and the liveness
properties `DestructorReturns` and `EveryDownloadEnds`, which except the end of
the process by the console client, and that only where storage failed.

### Fairness

`FairSpec` of `AppManager` assumes weak fairness of the operation thread as a
whole, of the second and third store of a cancel once begun, and of the join
once the thread has ended. Each blocking call of the thread ends: libcurl is
given a time limit, an attempt count bounds the retries, an archive has an end.
Nothing is assumed of the user, the refresh thread or the process. `FairSpec`
of `DownloadManager` assumes weak fairness of the worker and of a destructor
once begun: the wait of the worker is a condition variable whose predicate only
changes under the mutex, followed by a notification, so no wake-up is lost.
`FairSpec` of `Catalogue` assumes weak fairness of the refresh thread: a request
has a time limit, a parse an end, and no reader keeps a mutex.

## 4. Proofs

`AppManager_proofs` proves, for every set of apps, versions and hash-checked
apps, every number of attempts, entries, faults and restarts:

| Theorem | Property |
|---|---|
| `TypeCorrect` | `TypeOK` |
| `CancelIsHonoured` | `CancelHonoured` |
| `OperationsAreNotBounced` | `NeverBounced` |
| `OnlyVerifiedIsUnpacked` | `VerifiedOnly` |
| `FailureIsHarmless` | `FailureKeepsOldInstall` |
| `SuccessIsKept` | `SuccessIsReal` |
| `NothingIsLostInRestart` | `RestartLosesNothing` |

`AppManager_refinement` adds, from the same invariant,

| Theorem | Property |
|---|---|
| `OperationsAreImplemented` | `ImplementsOperations` |

and `Screens_proofs`, for every set of applications, versions and screens and
every limit of the history:

| Theorem | Property |
|---|---|
| `ScreensTypeCorrect` | `TypeOK` |
| `RowsFollowTheInstall` | `ActiveRowIsRunning`, `CancelHitsItsRow` |
| `BackAlwaysChangesScreen` | `BackChangesScreen` |
| `ScreensShowTheRecords` | `DetailIsCurrent`, `NoGhostEntry` |
| `DetailIsNotMisled` | `DetailWorksForItself` |

`Catalogue_proofs`, for every number of repositories and every set of index
texts, applications, categories and search texts:

| Theorem | Property |
|---|---|
| `CatalogueTypeCorrect` | `TypeOK` |
| `CopiesAreWhole` | `NoTornRead` |
| `WhatIsListedIsFound` | `OpenFinds` |
| `CatalogueShowsWhatWasAsked` | `ShowsWhatWasAsked` |

`AppManager_disk_proofs`, from the invariant of `AppManager_proofs` and one of
its own:

| Theorem | Property |
|---|---|
| `InstallsAreNotMixed` | `NoMixedInstall` |
| `NothingIsLeftBehind` | `NoLitter` |
| `RecordsNameWhatIsInstalled` | `RecordedIsInstalled` |

`DownloadManager_proofs`, for every set of ids and every number of downloads,
attempts, retries and faults, over either client:

| Theorem | Property |
|---|---|
| `DownloadsTypeCorrect` | `TypeOK` |
| `DownloadsAreInOnePlace` | `OnePlace` |
| `IdsAreNotShared` | `NoDuplicateId` |
| `EachIsCalledBackOnce` | `CalledBackOnce` |
| `CancelEndsRetries` | `CancelStopsRetries` |
| `CompletedStaysOnDisk` | `CompletedIsOnDisk` |
| `QueueIsImplemented` | `ImplementsQueue` |

`Settings_proofs`, for every set of addresses, every number of ids and faults
and lists of any length:

| Theorem | Property |
|---|---|
| `SettingsTypeCorrect` | `TypeOK` |
| `RowsFollowSettings` | `RowsMirrorConfig` |
| `NextStartAppliesScreen` | `NextStartFollowsScreen` |

The assumptions are the `ASSUME`s of the modules: the bounds are natural
numbers, `None` is neither an app nor a version, hash-checked apps are apps, a
package has a path per app and version, the list of repositories has room for
the two a file may hold. TLC evaluates them in every run.

None of the properties is inductive. The inductive invariant `IInv` adds what
the code relies on without saying so:

* `ControlOK`: the job, the program counter and the two busy flags agree; a
  program counter inside an operation means both flags are set;
* `OutcomeOK`: at which points the result is still open, failed or ok;
* `CancelOK`: while a cancel is *due*, the flag the thread looks at next is
  set: `m_cancel_requested` in the first window, the installer's flag in the
  second;
* `ArchiveOK`: from the end of verification to the end of extraction the
  archive of a hash-checked app is the published one;
* `OldInstallOK`: up to the removal of the old version, and after a failure,
  directory and record are those the operation found, unless the swap met a
  fault of its own;
* `NewInstallOK`: what is known of the new directory at each later point, that
  it is whole if it was unpacked from the published archive and storage did not
  fail meanwhile (`Sound`); that the archive is the published one for an app
  with a hash;
* `RemovedOK`: the same of a removed one;
* `TracesOK`: a fault that history remembers was taken from the budget.

A lemma per part shows that every step of the package manager keeps it (one
case per action); `UiInv`, `RefreshInv`, `ReleaseInv`, `ProcessInv` do the same
for the other threads. TLC was used on `IInv` first.

The refinement uses the same invariant and one more fact, `RefreshOK` (nothing
refreshes the catalogue between two processes). `PackageShows` says what a step
of the pipeline shows: nothing, a failure, or a result together with the record
it is about; every other step is one of the abstract actions or a stutter.

The invariant of the screens consists of `JobOK` and `SubscriberOK` (events
belong to the job and come in order; who is entered and free has them),
`TrailOK` and `NamedOK` (the trail has no repetition; the detail screen is not
reached before it has an application), `RowsOK` (an active row is the install
that has not told its result), `ShownOK` (the detail screen knows of every
result about its application that has gone out, but one it missed), `WorkingOK`
(an event its callback holds is of its own application, unless it was borrowed;
it takes itself for working only while its own operation has events to send, or
one of them is in the callback; before it has subscribed it does not) and
`ListOK` (the installed screen knows of every uninstall that has told its
result, but one it missed).

The catalogue has two inductive invariants. The first says that only
repositories behind the refresh are loaded (`BehindOK`), that a copy is of a
loaded one (`CopyOK`), hence not of the one being replaced, and that whatever a
screen or a running read holds is still in some repository (`ListedOK`), since
a loaded list is never replaced again. The second, for a catalogue entered late,
says what the running read has got so far is exactly the part of `Listing` it
has passed (`GotOK`), that `all` is `Listing` once it is read (`AllOK`), and that
`filtered` is `Wanted` whenever nothing is being read (`FilteredOK`).

What is on disk is a second layer over the invariant of `AppManager`. `DiskInv`
is `NoMixedInstall`, inductive with the directories as it names them;
`LitterOK`, which says whose the staging directory and the package are at each
point (the running install's, between its creation and the swap, and from its
download until it is dropped); and `RecordOK`, which says that record and files
name the same version except for the one application whose files have changed
and whose record follows (`Swapping`).

The invariant of the download manager is `ControlOK` (the worker has an item
exactly while it works on it, and a result exactly when it is to be stored),
`TicketsOK` and `ToldOK` (no two downloads share a ticket, none that is still to
be answered has been called back, and of two downloads of one id the later one
is answered later), `CancelOK` (a cancel that is due stands in the client's
flag) and `DeliveredOK` (an attempt that delivered left a whole file), on top of
the properties. `CalledBackOnce` follows from tickets being used once. For the
refinement each action is shown to be the abstract action its callbacks and
queue show, or a stutter; a cancel of a waiting download is a `Withdraw` of the
first place with its id, and `NoDuplicateId` makes that the only one.

The settings are loops over lists, and what a loop computes needs induction.
`LeastNatural` (a set of naturals with an element has a least one, from the
library's theorem about well-founded relations) gives induction in the form of
sets (`UpTo`) and the existence of a recursive function over `0..n`
(`LoopRuns`). From these follow what `Among`, `Shifted` and `ApplyRows` do to a
list of any length: one that has all sources wanted but one loses that one
(`AmongButOne`), the shifting erase removes exactly the row of the button where
no id occurs twice (`EraseOne`) and never leaves more rows than there were,
whatever the ids (`EraseTyped`), and rows with the ids of the settings make the
settings show what they show (`ApplyRowsSets`). The invariant adds `SizesOK` (a
list, also the one on disk, never outgrows the screen), `ScreenOK` (no screen and
no save without a process) and `SavedOK` (what was pressed is in memory until
the save ends, and in the file then).

Every safety property and every action property that a passing run checks is
also a theorem. Checked by TLC only: liveness (`OperationEnds`, `ShutdownEnds`,
`DestructorReturns`, `EveryDownloadEnds`, `EveryRepositoryIsAsked`), since
fairness and ENABLED are outside the prover's reach.

## 5. Where code and comments disagree

Each is a run whose expected result is a counterexample.

* `CancelLost`: `AppManager.hpp:80` promises to cancel the active operation. A
  cancel before the thread has cleared the flags (`PackageManager.cpp:63`,
  `:222`, `PackageInstaller.cpp:221`), or during an uninstall, is forgotten.
* `SwapNotAtomic`: `PackageInstaller.hpp:19` calls the move atomic. An upgrade
  removes the old directory first (`PackageInstaller.cpp:259`).
* `SaveNotAtomic`: `InstalledDatabase.hpp:51`: "Persists immediately." The file
  with everybody's records is emptied before it is written.
* `CancelSticks`: `DownloadManager.hpp:90` cancels "the download with the given
  id". The flag is the client's and survives until the next request: the next
  download is cancelled in its place.
* `DownloadsBlind`: `README.md:13` promises live progress and cancellation on
  the downloads page. Installs start on the detail screen, which has the only
  callback; the downloads screen starts empty (`DownloadsScreen.cpp:14`) and
  makes rows of `InstallStarted` only.
* `DeadScreen`: `Application.hpp:60`: "order matters for
  construction/destruction". The screens go before the manager, whose
  destructor waits for an operation that reports to one of them
  (`AppManager.cpp:35`).

Seen while modelling, without a run of their own: `poll_events` takes all input
away and Escape ends the client (`DesktopPlatform.cpp:332`), which
`docs/building.md:123` says goes back; the home screen lists the catalogue as
it was before the first refresh until it is entered again, though
`Application.cpp:36` refreshes "so the UI has data quickly"; no page offers the
retry `README.md:13` names; an arrow key on an empty list reads past it
(`ListView.cpp:80`).

Of installs: `PackageInstaller.hpp:17` says that the installer "validates the
archive structure", and `README.md:17` that corrupt packages produce a clear
message. Extraction ends where a header cannot be read or has another signature
(`PackageInstaller.cpp:88`, `:90`) and counts as a success with the files so far: for
an app without a hash, or with verification off, a torn download or an error page
in place of an archive is reported and recorded as installed.

Of the detail screen: a result that goes out between its reading and its
subscription (`AppDetailScreen.cpp:26`, `:33`) is lost on it, and what it shows stays
stale until it is entered again or told another result; the installed screen
likewise. An event of one application that the callback has compared (`:34`) but
not acted on marks the page of another one, entered meanwhile, as working: no
result clears that, as none is its own, and its buttons are held back until it
is entered again.

Of the download manager: a cancel during the back-off before a retry
(`DownloadManager.cpp:181`) is cleared by the request that follows (`:194`), and the
download goes on.

Of the catalogue: `MetadataParser.hpp:26` says that all parsing is
non-throwing, but a `schema_version` that is not a string throws at
`MetadataParser.cpp:116` out of the refresh thread, and the process ends at each
start until the repository is fixed; a `sha256` that is not a string counts as
none, so that the package is installed unverified, where
`docs/repository-format.md` asks for 64 hex digits; a search text makes the
highlighted category pill mean nothing; of two repositories that offer one id
both cards open the first one's; `CatalogScreen.cpp:61` renews the install state
of the list, which no card is built from again.

Of the settings: ids come from an unseeded `std::rand`, so that the first
repository added after each start has the same id; one remove button then
removes several repositories from the settings, and from the screen possibly
others; a text cut inside a character makes `dump` throw after the file was
emptied, while the screen says "Settings saved."; after a value of the wrong
type `Application.cpp:90` logs "using defaults" and the client works with half
the file, which the next save makes permanent; nothing but the next start hears
of changed settings.

Of the console's client: `max_retries` counts the attempts after the first,
where `HttpClient` counts all attempts; an error answer is retried; a cancel
before an attempt and a failed connection leave the file of before, or an
emptied one; a removal that fails ends the process
(`PS4HttpClient.inl:183`, `:205`).

## 6. Not modelled

Logging, rendering, themes and widgets other than `ListView` are output with no
state to go wrong. Progress values and messages are left out everywhere. The
ZIP format, libcurl, libSceHttp and the operating system are choices of outcome.
`get` of the console's client differs from `HttpClient`'s in its attempts only
and is not modelled apart. Free space is a choice in `BeginInstall`.
`RepositoryManager::add_repository`, `remove_repository` and `refresh` of one
repository, `AppManager::available_updates` and `InstalledDatabase::clear` have
no caller in the client. The text fields of the settings screen, scrolling,
layout and the about screen keep nothing that another part reads. `Launcher`
finds a record and starts a process; what can go wrong in it is the moment
without files that `SwapNotAtomic` shows. `Logger` is written to only.

## 7. Plan

1. (done) `Storage`, `HttpClient`, `PackageInstaller`, `InstalledDatabase`,
   `PackageManager`, `AppManager`: the core, with its proofs; `DownloadQueue`
   and `DownloadManager` with the refinement; `Operations`, its refinement, and
   `Screens` over it, with their proofs.
2. (done) `MetadataParser`, `Repositories` and `Catalogue` with their proofs;
   `Config` and `Settings`; `PS4HttpClient`, composed into `DownloadManager`.
3. The database read by the UI thread while the operation thread changes it; the
   input queue shared by the platform and the UI; keyboard selection.
4. `Lifetime`: destruction of all subsystems against the refresh thread.
5. Pure parts: `Sha256State::update` against a reference, `ListView`'s
   selection, the free-space test with its width.
6. `DownloadManager`: the queries and the mutex with callbacks under it.
7. Proofs: (done) every safety and action property of the passing runs; next,
   those of the modules of 3 to 6 as they are written.
