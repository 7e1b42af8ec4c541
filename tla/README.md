# Nomad Launcher: a formal model

Nomad Launcher keeps a Chromium-family browser in a portable folder. A launcher
executable in that folder recovers and updates the browser bundle beside it,
claims the folder for one browser family, repairs the open commands browsers
write into the registry, starts the browser, and leaves a detached watcher that
removes what the browser left on the computer. All of it is `src/core/src`;
the executables are one call each into it.

The folder is the interesting object. Several launchers and watchers work on it
at the same time, with file locks as their only meeting point; any of them may
end at any system call (closing the window ends the process, and a drive is
pulled out); and the folder is found later at another path, or on another
computer, with the records of the first one in it. This directory has TLA+
modules of the parts where that matters, TLC runs on small instances, and TLAPS
proofs for every value of the constants.

1. [Inventory](#1-inventory): the system, part by part
2. [Modules and code](#2-modules-and-code): what each module models, and how
3. [Runs](#3-runs): what TLC checks, bounds, fairness
4. [Proofs](#4-proofs)
5. [Where code and documents disagree](#5-where-code-and-documents-disagree)
6. [Not modelled](#6-not-modelled) and [plan](#7-plan)

Paths below are relative to `src/core/src` unless they start with `docs/`.
`PROJECT.json` has the same inventory in machine-readable form: components,
hazards with their lines, runs, the map from definitions to source lines, and
for every property a mutation of the model that violates it.

## 1. Inventory

| Part | Code | State it keeps | Model |
|---|---|---|---|
| Install transaction | `install.rs`, `updater.rs` | `Browser`, `Browser.stage`, `Browser.backup`, `.nomad-version`, `Nomad/install.lock` | `Install`, `BrowserSlot` |
| Launch pipeline | `lib.rs` (`pipeline_thread` and its phases) | the attempt in progress | actions of `Install`, `Cleanup`, `Window`, `Upkeep`; `CommandLine` |
| Status window and handshake | `ui/mod.rs`, the state helpers and waits of `lib.rs` | `WindowPhase` under a mutex, a condition variable, repaint requests | `Window` |
| Cleanup journal and watcher | `cleanup.rs`, `cleanup_recovery.rs`, `cleanup_process.rs`, `handle_cleanup_flag` and watcher helpers in `lib.rs` | `Nomad/cleanup-pending/`, `cleanup.lock`, host traces | `Cleanup`, `HostTraces`, `ShellLink` |
| Registry command repair | `registry/repair_journal.rs`, `registry.rs` | `nomad.registry-repairs.json`, its lock, `...\shell\open\command` values of the host | `RegistryRepair`, `OpenCommands` |
| Portable registration | `registry/registration.rs` | `nomad.reg-state.json`, `registration-history/`, 16 registry values | `Registration` |
| Folder ownership | `instance.rs` | `Nomad/instance.toml` | `InstanceClaim`, `FolderOwner` |
| Self-registration watcher | `selfreg_watch.rs` | a thread, change notifications, a claim mutex | `SelfRegWatch` |
| Update check, caches, reminder | `updater.rs`, `version_cache.rs`, `protocol_freshness.rs` | three small cache files | `VersionCache`, `Upkeep` |
| Version order | `version_order.rs` | none | `Releases` |
| Extension staging | `extensions.rs` | extension directories below the install, an XPI | `Extensions` |
| Atomic writes, path checks | `fs_safety.rs` | staged files | `SettingsFile`, `SafeReplacement` |
| Package verification | `gpg.rs`, `authenticode.rs`, digests in `updater.rs` | none | `Signatures`, `Releases` |
| Families, release lookup | `browsers/` | the profile | `Releases`, `Archive`, `Profiles` |
| Download, extraction | `downloader.rs`, `network.rs`, `extract.rs` | a partial package, the stage, a 7-Zip process | `Unpack`, `Replies`, `Archive` |
| Hardening of profiles | `hardening.rs` | preference files | `Settings`, `SettingsFile`, `Profiles` |
| Configuration | `config.rs` | `nomad.toml` | `Config` |
| Branding | `branding.rs` | `.nomad-branding`, icons and logos in the browser's files | `Branding`, `Overlay` |
| Shortcuts, taskbar, rendering | `shell_link.rs`, `taskbar.rs`, drawing in `ui/` | none that others read | `ShellLink`; the rest not |

### How the parts interact

A start of a launcher is, in this order: claim the folder (`instance::ensure`);
open the window, whose other thread is the pipeline; take `install.lock`; with
the lock held, replay outstanding cleanup under `cleanup.lock`, remind a user
who only ever clicks links, recover an interrupted update, look for a release,
ask, stage it and swap it in; prepare the profile and sweep the registry; record
the intent to clean; start the browser and then a watcher process; give the lock
back. The watcher waits for the browser
tree to end, takes `cleanup.lock` and then `install.lock`, looks again, deletes
what is attributed to the folder and retires the records. Nobody waits for a
lock: whoever finds one taken goes another way - an error screen with Retry, a
skipped sweep, a watcher that ends.

The processes share no memory. Everything they tell each other is in the folder
(directories, markers, journals, locks) or in the registry of the host, which
other programs write too.

### What each part does, what is hard about it, and what makes it correct

**Install transaction.** Operations: take the lock, recover, compare the offered
release with the marker, create the stage, download, verify, extract, check the
layout, carry preserved state over, write the marker, move the install away,
move the stage in, roll back when that fails, remove the backup. Every call may
fail in the middle of a directory, and every call may be the last one of the
process. Correct means: at most one process works below the folder; the marker
never vouches for anything that is not a complete, verified bundle; recovery
has always run before a release is chosen; the working browser is replaced in
one step seen from outside, never by an older one, and never lost; the lock
comes back after every attempt.

**Status window and handshake.** Two threads share one `WindowPhase`: the
pipeline posts a question in it and waits on a condition variable, the window
draws from a snapshot and overwrites it with the answer. Repaints are separate
requests. Correct means: a question gets on the screen without the user moving
the mouse; an answer is only ever taken for the question it was given to; a
click always wakes the pipeline; closing the window over a question is not an
answer; the window is not left open over a pipeline that has ended, and closes
when the browser has been started.

**Cleanup.** Operations: probe whether the folder is quiet, replay, arm, spawn,
answer of the watcher, final look, scrub, retire. Two launchers, several
watchers, two locks taken in both orders without waiting, probes whose answer
ages, records written in two steps, scrubs that remove a part, a folder carried
to a computer where the records cannot be decrypted. Correct means: nothing is
deleted while a browser of the folder runs; what a recorded browser left stays
recorded until it has been removed; no record goes away in a foreign context or
before its traces; the journal never outgrows what a listing accepts; pending
intent is eventually acted upon (section 5 has the one way in which it is not).

**Registry command repair.** A browser that makes itself the default writes open
commands that bypass the launcher. Sweeps replace them and journal the original
first; `--unregister-default` disables sweeps and restores originals. Compare
and write are two registry calls, with other writers in between; saves fail; a
sweep may die at any point; the folder moves to another path. Correct means: every
rewritten command has its exact original in the journal; nothing but a browser's
own command is ever overwritten; nothing is rewritten again between an undo and
the next registration; every saved journal can be opened again.

**Portable registration.** `--register-default` records a plan in the folder,
then writes 16 registry values one by one, the advertising one last;
`--unregister-default` removes what the record describes and then the record.
Folders are moved and copied together with their records. Correct means: what
is on the computer is described by a record in some folder; a copy touches only
its own entries; the candidate is advertised only when complete; a record is
deleted only when nothing it describes is left.

**Folder ownership.** The first launcher run directly writes its family into the
marker; all others must match. Look, create, write, sync and removal after a
failure are separate steps. Correct means: launchers of two families are never
both let in. The code keeps that except for one failure (section 5); what it keeps
always is that only a claimer that has not settled takes a folder back.

**Self-registration watcher.** While the browser runs a thread waits for changes
below `Software\Classes`, lets a burst settle, and sweeps; the watcher process
stops it and sweeps a last time. A notification is given once and has to be asked
for again, sweeps cause notifications themselves, the browser writes at any
moment, and some registries are never quiet. Correct means: no registration goes
unseen while the thread waits; the thread ends soon after it is told to; a
session's last sweep leaves nothing that could have been repaired.

**Update check and caches.** A lookup's answer is kept for hours and used again
when target and clock allow; links never look up, and remind a user who only
clicks links. Correct means: an update is not held back for longer than an
answer is kept; the browser never gets older; a link changes nothing.

**Extension staging.** Stage, backup and two renames for an unpacked extension, one
replacement for an XPI, and a copy carried into each new bundle. Correct means:
no start of the browser, after whatever failure or death, loads no extension or an
older one than before; what a check reports as current is what loads.

**Atomic writes.** A settings file is read, staged in a private directory and put in
place by a Windows call that may stop or fail half way. Correct means: the user's
lines are in the file or in a directory nothing removes; no torn file; no start
with settings the configuration does not ask for.

**Families and profiles.** Correct means: a build for another target, bytes of
another asset, or an unsigned package of a family with a key never passes; no chain
of updates ends at an older version; a profile is stored in the portable form from its
first run on; Helium's updater stays off for builds that were not reviewed and for
users who said no.

**Download and extraction.** 7-Zip is a process of its own: measured while it runs, and
alive after a launcher that died. Correct means: what is promoted was written by this
attempt only and within the limit; entries land inside the stage.

**Branding.** Icons are written into programs in place, logos into archives by
replacement, and a marker of sizes says that all of it was done. Correct means: the
marker is true when it is believed; nothing without the overlay replaces the
browser; archives are never torn; an undisturbed launch completes what others began.

**Pure parts** (command lines, merges, open commands, shortcuts, configuration,
signatures, replies): functions, each checked against what its result must mean.

## 2. Modules and code

Conventions. One action per step that the outside can observe: a system call that
changes the folder or the registry, a lock operation, a change of phase. Program
counters are labels named for what comes next. A failing call is an alternative
of the same action guarded by `Fault`, and `Crash`, `Die` or `End` ends a process
between any two steps; `MaxFaults` bounds them together. Versions are
numbers in the order of `version_order.rs`, contents of files are what
the properties can tell apart. Definitions that exist only as plausible mistakes
(`AcquireUnlocked`, `VerifyNothing`, `ForgetAnyway`, ...) stand before the action
they would replace, under a comment that starts with "Mutant"; `Next` does not use
them.

### Install, BrowserSlot

| Variable | In the code |
|---|---|
| `lock` | the open handle of `Nomad/install.lock` (`InstanceLock`) |
| `dir` | `Browser`, `Browser.stage`, `Browser.backup`: missing, a complete bundle, or scraps, with version, target, whether verified (`genuine`), whether the version marker is in it (`marked`), whether a managed extension is (`ext`) |
| `pc`, `mode` | the place in `pipeline_thread` or `update`, and how the launcher was started: with update checks, with `check_on_launch = false`, by a link, or headless |
| `want` | the release being installed and the package in hand |

Recovery is `RestoreBackup`, `SweepStage`, `SweepBackup`; staging `CreateStage`
to `WriteMarker`; the swap `SetAside`, `Promote`, `Rollback`, `DropBackup`;
screens `Refuse`, `Remind`, `Decide`, `Defer`, `Retry`, `LaunchAnyway`;
starting `Provision`, `Prepare`, `Spawn`. A removal of a directory may leave any
remainder (`RemoveSome`): a half-removed bundle is scraps that may or may not
have the marker still.

`BrowserSlot` is what the part promises: one variable `copy`, the working
browser, replaced in one step by a different build that is not older, keeping
its extension. `Install!Working` is the refinement mapping: the install if it
is a bundle, else the backup if that is one.

### Window

`phase` is `WindowPhase`; `asleep` whether the pipeline is inside
`Condvar::wait`; `owed` that it has set a phase and not yet asked for the
repaint, which are two steps in `set_phase`; `repaint`, `frame` and `window` are
the window system's side, where a frame is drawn from the snapshot taken at its
start (`Paint`) and acted upon during it (`Click`) until `EndFrame`; `asked`
follows the question now posted: unseen, seen in a frame, answered in one.
`fallback`, `reminded` are the variables of that name in `handle_error`
and `pipeline_thread`. What the phases do to the folder is `Install`'s business;
here they succeed or fail. The process ends some time after the window (`Exit`),
so deadlock is not checked in its run.

### Cleanup

Launchers go through `Begin`, `Replay`, `Probe`, `Clean`, `Retire`, `Prepare`,
`Arm`, `Spawn`, `SpawnWatcher`; the watcher of a session through `Coordinate`,
`Wait`, `TakeInstallLock`, `FinalProbe`, `Scrub`, `Complete`. `traces` is the set
of things on a computer attributed to the folder, one per session and computer;
`pending` the contexts (computer and user) with a readable record, `torn` the
records cut short, `armed` the sessions started with a record in place. `Replug`
takes the folder elsewhere and kills whatever ran. One trace stands for
everything one session leaves on one computer. A scrub that fails, or whose process
ends, removes a part (`ScrubSome`); `husks` are the computers where it has left a
report directory that lost its `Report.wer` and stayed itself. There every later
scrub removes what it can and is incomplete (`ScrubRest`), as
`cleanup_reports` is for each directory it cannot attribute.

### RegistryRepair

`cmd` is the open command of each key on each host: the browser's own (in one of
several forms), the launcher's, somebody else's, or missing. A session is
`Open`ed under the journal lock, then looks at key after key (`Look`, `Save`,
`Compare`, `Set`) or undoes (`Disable`, `Undo`, `Restore`, `Clear`). `mem` is the
journal as the session has it in memory, `journal` the file; a failed save
leaves them different. `Write` is any other program, at any time. Three history
variables say what a repair really replaced, whether somebody wrote in the gap
between its comparison and its write, and whether anything has been restored
since the last registration; no guard reads them.

### Registration

`sidecar` is `nomad.reg-state.json`, with the place its plan is for; `history`
the archived records, `torn` the unfinished ones; `entries` the registry's
values for each place, in four groups of `Plan::new`. A command in a folder is
`Archive`, `Fill`, `Save`, `Write`, or `RemoveClasses`, `RemoveCapabilities`,
`RemoveValue`, `Forget`. `Move` and `Copy` take the records along. One computer;
replacing the sidecar is atomic (`fs_safety::atomic_write`).

### InstanceClaim, FolderOwner

`marker` is `Nomad/instance.toml`: none, torn, or a family. `Look`, `Read`,
`Create`, `WriteAll`, `Sync`, `Remove` are the calls of `ensure` and
`validate_existing`. From `WriteAll` on others can read the marker, although its
writer may still remove it. `deserted` is history: the launchers in the folder
whose marker has been removed since they were let in; no guard reads it.

`FolderOwner` is what the part promises: a launcher proposes its family as the
owner; from then on launchers of that family, and no others, are let in. The
proposer settles it, or its end confirms it, or it withdraws, which strands those
it let in. `InstanceClaim!Owner` reads the owner off the marker, `Proposers` is who
is at its sync or removal with the marker complete, and those stranded are
the `deserted`.

### Upkeep, over VersionCache and Extensions

`Upkeep` is one folder through many launches: the clock, releases that are
published and withdrawn, edits of `nomad.toml`, and in a launch the phases of
`lib.rs` in their order - `CheckCache`, `Lookup`, `Decide`, `Download`, `Replace`,
`ExtensionsBegin` to `ExtensionsEnd`, `Launch`. `cache` is `nomad.version.toml`
with the record of the managed extension in it, `installed` the version marker.
`VersionCache` has the decisions taken from the files (`Hit`, `Refreshed`, `Silent`),
`Extensions` the job on the extension: download, stage, two renames, rollback,
recovery, the copy for a new bundle, or the XPI. `settled` is the release the last
check reported as current. The inside of the replacement is `Install`'s; here it is
one step, and one launcher runs at a time, which is what `HolderOnly` says.

### SelfRegWatch

`notice` is the registry notification: asked for (`armed`), given and not yet
taken, or neither, as after `Notified` until `Arm`. `thread` walks through
`run_repair_loop`; `session` is the part of `handle_cleanup_flag` that stops it and
sweeps again. `covered` and `spared` are history: what the browser wrote while the
thread was watching, and what could not be repaired since.

### HostTraces

One cleaning on a computer that goes on working: `Scan` and `ReadLink` attribute,
`Preflight` opens every file of a report without sharing and attributes it again,
`RemoveFile` takes attachments first and the metadata last, `RemoveDirectory` ends it.
The others file, describe, attach, open and close, and write shortcuts anew.
`cleaner.whole` is the result that lets `Cleanup` retire a record.

### Profiles, Settings, SettingsFile, SafeReplacement

`Profiles` follows one profile through launches with changing configuration, builds,
families and sessions: the storage it is opened with, whether its first run is over,
what Helium may update, and what is on the command line (`LaunchCommand`, in the
terms of `CommandLine`). `Settings` has the merges themselves: the fence in
`user.js`, JSON documents as functions from paths to leaves with `MergeJsonFile`,
policies and autoconfig, and `Prepare`, all of a launch's files in order with a failing
one among them. `SettingsFile` is the replacement of one such file, call by call:
`StagedFile`, its commit, `ReplaceFileW` that may fail between its renames, the rollback,
the directory retained when that fails. `SafeReplacement` is what it promises the user: the
file with the lines they saved, edited in one step or kept whole aside, nothing kept ever
removed; `Machines!FileReplaced` is the mapping.

### Unpack, Archive, Replies

`Unpack` has one attempt after another: the partial file of a download, its rename, the
7-Zip `child` that writes on its own, the measurement and the kill, and the orphan of a
launcher that died (`unkilled` marks the one that could not be stopped). `Archive` says
where entries land and how a Gecko installer's tree becomes a stage; `Replies` how much
of a reply is kept and which redirects are followed.

### Branding, Overlay

`dirs` has for stage and install what is in each file (an overlay by its number, stock,
odd, torn or absent), the marker and temporary files. `Begin`, `PatchTarget`, `WritePak`,
`RenamePak`, `Mark` are `ensure_branding`; `RemoveMarker`, `CheckStage`, `Readback`,
`Promote` the validation of a stage. The marker is a fingerprint of overlay and file
sizes. What Windows leaves of a program when `EndUpdateResource` fails or is cut short is not
documented: `Torn` stands for anything. `Overlay` is the inside of one file: tables of a
PAK in cells, logos found by what they show, groups of icons and their reserved ids.

### Pure modules

`CommandLine` (dispatch of the launcher's arguments, those for watcher and browser),
`Releases` (choice of a package, digests and hash files, version order), `OpenCommands`
(whose an open command is, its replacement), `ShellLink` (whose a shortcut is),
`Config` (names, defaults), `Signatures` (keys, revocation). Texts are sequences of
tokens, paths sequences of names; bytes are known by the asset they were published as.
`authenticode.rs`'s `verify_signed_by` is modelled although only its tests call it.

### Machines, MCSamples, MCParts

`Machines` puts the six state machines that need no composition (`Profiles`,
`SettingsFile`, `HostTraces`, `SelfRegWatch`, `Unpack`, `Branding`) side by side: one
`Next`, each step one machine's, and one property to a machine. They do not interact in
the model; they do in the code only through what the other modules have (the lock, the
stage, the retirement of records). It is the specification of `PartsProofs`.
`MCSamples` draws inputs for the operators of the pure modules and states what the
results must mean. `MCParts` checks both, and the claim of the folder (`InstanceClaim`)
with them: the first step draws an input or chooses a machine or the claim, and all
else stays as it was.

## 3. Runs

| Run | Instance | Checks | States |
|---|---|---|---|
| `install` | 2 launchers, 2 versions, all four ways of starting, 2 faults | `HolderOnly`, `MarkerTellsTruth`, `Recovered`, `LockReleased` | 126 542 |
| `install_slot` | 2 launchers, 3 versions, 2 targets, launchers that check, 3 faults | `ImplementsSlot`, `CopyNeverLost` | 294 632 |
| `install_erased` | checks switched off and on, 1 fault | `CopyNeverLost` **violated** | |
| `cleanup` | 1 launcher, 2 sessions, 2 computers, recovery on or off, 2 records, 3 faults | `QuietCleaning`, `Covered`, `WithinBudget`, `RetiredClean`, `RetriedUnlessHusk` | 1.21 M |
| `cleanup_husk` | 1 launcher, 1 computer, recovery on, 1 fault | `Retried` **violated** | |
| `registry` | 2 sessions, 2 keys, 2 forms, 2 places, 1 entry, 4 acts, 2 faults | `Restorable`, `Reopens`, `Spared`, `StaysOff`, `Rerouted` | 322 k |
| `registration` | 2 folders, 3 places, 2 moves, 2 faults | `Covered`, `OthersIntact`, `AdvertisedLast`, `RecordsKept` | 1.10 M |
| `registration_torn` | 1 move, 1 fault | `Retryable` **violated** | |
| `claim_unsynced` | 3 launchers, 2 families and an invalid identity, 1 fault | `OneFamily` **violated** | |
| `window` | three kinds of start, 3 faults | `NeverStranded`, `Consent`, `Answered`, `Closes` | 8 327 |
| `upkeep` | 2 releases, 2 extension releases, 2 targets, answers kept for 2 of 4 moments, 1 fault | `KeptCurrent`, `NeverBack`, `Progress` | 2.55 M |
| `parts` | six machines, the claim of a folder by 3 launchers of 2 families and an invalid identity with 3 faults, and the samples of `MCSamples` | thirteen properties, below | 2.22 M |

The properties of `parts` are conjunctions of named ones, which the modules in the
table state one by one:

| Property | Modules | Conjuncts |
|---|---|---|
| `ProfileKept`, `ConsentKept` | `Profiles` | `StorageStable`, `NoUnreviewedUpdater`, `FirstRunSeeded`; `ConsentKept` |
| `SettingsKept` | `SettingsFile` | `LinesNeverLost`, `NeverTorn`, `StartedAsConfigured` |
| `FileReplaced` | `SettingsFile`, `SafeReplacement` | a refinement |
| `OthersKept`, `TracesOwn` | `HostTraces` | `ForeignReportsKept`, `OpenFilesKept`; `StillAttributed`, `CompleteIsClean` |
| `RegistrationsWatched` | `SelfRegWatch` | `NoneMissed`, `StopsSoon`, `NoneLeft` |
| `PackagesContained` | `Unpack` | `PackageIsWhole`, `UnpackedAlone`, `WithinLimit`, `NoneLeftRunning` |
| `OverlayTrue` | `Branding` | `MarkerTellsOverlay`, `PromotedWhole`, `PaksWhole`, `RetryCompletes` |
| `KeptApart`, `ImplementsOwner` | `InstanceClaim`, `FolderOwner` | an invariant; a refinement |
| `ReleasesTrusted` | `Releases`, `Signatures`, `VersionCache`, `Replies`, `Archive`, `Overlay` | `TrustedIsChosen`, `SignedByKey`, `RevokedRefused`, `NoDowngradeThrough`, `QuietLinksAreCurrent`, `RepliesBounded`, `RedirectsFollowed`, `ExtractedInside`, `StageIsOneBuild`, `OnlyLogosChange`, `IconsReadBack` |
| `InputsMean` | `CommandLine`, `Settings`, `Config`, `OpenCommands`, `ShellLink` | `LinkOpensOneTarget`, `WatcherUnderstood`, `FeaturesAddUp`, `UserSwitchWins`, `UserLinesKept`, `LockedHold`, `UserSettingsKept`, `OneOptionPerFlag`, `SettingsConverge`, `FolderIsAChild`, `TornDefaultsAgree`, `OnlyOwnCommands`, `RoutedAsBefore`, `LinkNamesOneFile` |

The first seven rows are the machines' properties (in `Machines`), the eighth the
claim's, the last two those of the algorithms (in `MCSamples`).

In the same way `KeptCurrent` of `upkeep` is `TypeOK`, `Timely` and `Vouched`, its
`NeverBack` is `Forward`, `NeverUnloaded`, `Remembered` and `LinksOnlyOpen`,
`RecordsKept` of `registration` is `RemovedFirst` and `Archived`, and
`Answered` of `window` is `Shown` and `Resumes`. Every conjunct has a mutation of the
model of its own that breaks it (`PROJECT.json`, "mutants"). Type invariants are
left to the proofs of section 4 where there are some.

### Bounds, and why they are enough

- *Processes.* Two launchers give every pair of an interrupted and a following
  attempt, which is what locks and recovery are about; dead ones start again, so
  the number of attempts is not bounded in `install` and `install_slot`. `cleanup`
  has one launcher that starts again and again: only one at a time is under way there
  (`Held` in `CleanupProofs`, proved for any number), and `Begin` resets what a
  launcher keeps, so a second one adds no behaviour but its name. Claiming
  needs three: one whose sync fails, one let in meanwhile, one of the other family.
- *Versions.* Two tell older from newer. Three, with two targets, in
  `install_slot` so that a replacement can itself be replaced, and the target
  alone may change.
- *Faults.* The deepest scenario of the transaction is a failing promotion, a
  failing rollback and a crash, three faults. Cleanup has death, move and failed
  scrub, three. A window shows an error, its retry fails, and the fallback fails
  too, three.
- *Registry.* Two keys and room for one entry make the full journal happen while
  another key still wants one. Four acts are a registration, an unregistration
  and two foreign writes.
- *Records.* Two stand for the 32 of `cleanup_recovery.rs`: one real and one
  torn fill the budget.
- *Places.* Three, for a folder, where it has come from and where its copy goes.
- *Time in `upkeep`.* An answer is kept for two moments of four, so that it can
  be fresh, expire, and be written by a clock ahead of all of them. Two releases
  of browser and extension each let both be updated while the other is half way.
- *Machines of `parts`.* Two keys let one be written while the other is swept. Two
  reports, one attachment and three events of others cover a rewrite, an open file
  and a death in one cleaning. Two saves and two faults reach a failed replacement
  whose rollback fails too. Three attempts let an orphan meet the next but one.
  Two programs, one archive, two overlays and three rounds let a death, a new launcher
  and a retry follow each other.
- *Samples of `parts`.* Each set is small and named (`LinkCommands`, `Documents`,
  `Versions`, `Shortcuts`, ...), every member is drawn, and it has the boundary
  cases of the code it is for: markers moved and doubled, objects where scalars are
  expected, versions with more components, names with drive, root or parent,
  replies one below, at and above the limit, a fourth redirect.
- Symmetry is used in `registration` only, which has no liveness properties.

### Fairness, and what justifies it

- `Install!FairSpec`: weak fairness of each launcher's own steps (its thread is
  scheduled and its calls return) and of answers (users answer the screens). No
  fairness of starts, failures or crashes. `LockReleased` needs no more.
- `Cleanup!FairSpec`: weak fairness of launcher and watcher steps and of the end of
  browsers, and strong fairness of starts with recovery switched on (the browser
  is used again, which is when recovery is promised, and its default is not
  switched off for good).
- `RegistryRepair!FairSpec`: weak fairness of sweeps, which run before launches
  and on change notifications, and of the steps of each session. A sweep that
  finds the lock taken gives up; `Rerouted` says a later one succeeds.
- `Window!FairSpec`: the two threads run, and the window system paints when a
  repaint has been requested. Clicks, mouse movement and closing are not fair,
  so `Answered` and `Closes` do not depend on anybody touching the window.

- `Upkeep!FairSpec`: weak fairness of the steps of an attempt, which are calls of one
  thread that return. Answers, ticks and starts are not fair: `Progress` ends at the
  question.
- `parts` has safety properties only.

## 4. Proofs

The modules with theorems hold for any sets of launchers, folders, places,
versions and targets, and any number of faults; each uses the named assumption
of its constants (`InstallAssumption` and so on), which TLC evaluates in every
run.

| Module | Theorem | Says |
|---|---|---|
| `InstallProofs` | `Typing`, `Exclusion`, `MarkerSafety`, `RecoveredFirst` | `Spec => []TypeOK`, `[]HolderOnly`, `[]MarkerTellsTruth`, `[]Recovered`, all four ways of starting included |
| `InstallProofs` | `Refinement`, `CopyKept` | when every launcher checks, `Install` implements `BrowserSlot`, and the working copy is never lost |
| `RegistrationProofs` | `Typing`, `Coverage`, `Intact`, `Advertising`, `Recording` | all safety properties of `Registration` |
| `WindowProofs` | `Typing`, `Unstranded`, `Consenting`, `Woken` | `NeverStranded`, `Consent`, and that a sleeping pipeline never has its answer before it |
| `CleanupProofs` | `Typing`, `Quietness`, `Coverage`, `Bounded`, `Retirement` | all safety properties of `Cleanup`: `QuietCleaning`, `Covered`, `WithinBudget`, `RetiredClean` |
| `RegistryProofs` | `Typing`, `Reopening`, `Sparing`, `StayingOff`, `Restoration` | all safety properties of `RegistryRepair`; `Restorable` when there is one host |
| `UpkeepProofs` | `Typing`, `Current`, `NeverBackwards` | all safety properties of `Upkeep`: `KeptCurrent` and `NeverBack` |
| `PartsProofs` | `Watching`, `Saving`, `Cleaning`, `Sparing`, `Containing`, `Overlaying`, `Storing`, `Consenting` | the properties of the six machines: `RegistrationsWatched`, `SettingsKept`, `TracesOwn`, `OthersKept`, `PackagesContained`, `OverlayTrue`, `ProfileKept`, `ConsentKept` |
| `PartsProofs` | `Replacing` | the settings file implements `SafeReplacement` (`FileReplaced`) |
| `PartsProofs` | `Heeded`, `Opening`, `Ordering`, `Trusting` | of four algorithms what `FeaturesAddUp` with `UserSwitchWins`, `LinkOpensOneTarget`, `NoDowngradeThrough` and `TrustedIsChosen` check on samples, for every input |
| `PartsProofs` | `Replying`, `Following`, `Landing`, `Fencing`, `Combining`, `Attributing` | the same for `RepliesBounded`, `RedirectsFollowed`, where entries land in `ExtractedInside`, `UserLinesKept`, `LockedHold` with `UserSettingsKept` and `OneOptionPerFlag`, and what `LinkNamesOneFile` says of a shortcut that is attributed |
| `ClaimProofs` | `Ownership`, `Owning` | `KeptApart`, and that `InstanceClaim` implements `FolderOwner` |

**Install.** `MarkerTellsTruth` is not inductive: what is promoted came from the
stage, and what is restored from the backup. `IInv` adds `Bundles` - away from the
install, the backup is marked exactly when it is whole, because nobody removes a
backup while the install is missing - and `Phase`, what the holder of the lock
has established at each label. Because `HolderOnly` puts at most one launcher at
such a label, a step of one leaves the phase of all others untouched
(there is one lemma per group of actions, and one saying that idle launchers
ask nothing of the directories).

**Refinement.** `CheckedInv` adds that install is never scraps (`Complete`), and
that what is carried through staging is a different build, not an older one, and
has the extension of the one that works (`Carried`). Every step maps to `Replace`, `Provision` or a stutter:
`Promote` is the replacement, `SetAside` and `RestoreBackup` are stutters because
`Working` moves from install to backup and back. The hypothesis `CheckedOnly` is
exactly what section 5 shows to be necessary.

Two more parts are shown to implement what they promise. *Ownership* (`Owning`): with
the invariant of `KeptApart`, `WriteAll` is the proposal, `Sync` settles it, `Remove`
withdraws it or, when it cannot, confirms it, as a death before that does; `Read` lets
in. That the marker of a claim in progress is torn, and then the claimer's own, and
that there is one claimer (`OneClaimer`), is what makes these steps the claimer's alone
and the removal of a torn marker a stutter. *A settings file*
(`Replacing`): of all the calls of a replacement only the commit changes what the user
has; the failing ones map to a stutter or to a copy kept whole aside. Lines saved
during the gap are the promise's exception as they are the code's.

**Registration.** `Covered` is inductive only with: no two folders at a place
(`Apart`), a running command has its own place in its record from `Save` on
(`Known`), how many values have been written (`Progress`), and what a removal has
emptied (`Emptied`). `OwnPlace` is the lemma that lets a step of one folder leave
all other places alone.

**Window.** The invariant relates phase, question and program counter: each wait
has its own question posted until it is answered (`Asking`), and then one of the
answers its buttons give (`Answering`); no question is posted that nobody waits
for, and a frame that shows one shows the present one (`Current`); the end has
its repaint to come (`Telling`); a sleeping pipeline has not been answered, and a
pipeline that has started a browser only has to tell (`Ordered`).

**Cleanup.** `QuietCleaning` is inductive only because a browser starts under the
same lock as a deletion: `Held` says that exactly who is past the install lock holds
it, so while one process is at `clean` or `retire` no launcher is at `spawn`. `Scrubbed`
(who retires has left no trace here) rests on `Quiet` - no browser runs that could
leave one - and gives `RetiredClean`. `Recorded` says of running browsers what
`Covered` says of traces, and that no session is armed before it is started.
`Budget` needs the lemma that a record adds at most one to a finite set
(`Counting`) and that only a step that has found the journal not full adds one
(`JournalSteps`).

**Registry.** Two invariants, one on top of the other. `SInv` holds on any hosts:
exactly who is in a session holds the lock (`Single`), and `Sound` says what that
process has established at each label - its journal belongs to this path, is within
the budget, is enabled as the file is, and equals the file from the comparison on
and in an undo; what it is about to replace is what it found, unless somebody wrote
since; after a restored command the file is disabled (`Off`). `Reopens`, `Spared`
and `StaysOff` follow from it. `Traced` needs one host (`OneHost`, see section 5):
what was rewritten replaced a command of that very folder (`Kept`), the session's
journal differs from the file only for keys that are not rewritten (`Ahead`), which is
why the save of the next key may store the entry a failed save left in memory, and an
undo still has before it every rewritten key it has not restored (`Undone`), which is
why it may clear the journal at its end.

**Upkeep.** `Timely` needs to know what a cached answer is worth: `Answered` says that a
sound one is no older than anything that was on offer before it was given, and not from
the future unless the clock was set back for good. With `Published` (nothing above what a
lookup answers with is on offer) a release a lifetime old is not above what was resolved
(`Resolved`), whether from the cache or from a lookup. `NeverBack` and `Vouched` are about
the extension: whose job it is at each phase (`Assigned`), what is in its three
directories at each step of the job (`Staged`), that its record is no newer than what
loads (`Dated`), and that a check that ended well is the last thing done to it (`Ended`).
`Linked` keeps a link out of every phase that changes anything. The clock, the number of
releases and the lifetimes are any.

**Machines.** Each machine has an inductive invariant of its own, and `Apart` says that a
step of `MachinesNext` is a step of each or leaves it as it is. TLC checked every one of
these invariants on the instance of `parts` before it was proved.

*The watching thread* (`WInv`): while it watches, a notification is asked for or
given (`Listening`), and a command the browser has changed is still before the sweep
under way, or has given the notification the next wait will find (`Heard`); `OneMore` and
`Last` say where the thread and the last sweep are.

*A settings file* (`FInv`): what a launch
is about to write has the managed lines its configuration asks for and, once staged, is
what lies in its directory (`Aimed`); unless somebody wrote in between, it has the
user's lines that were read, which stay in the file until they have been moved to
`previous` (`Same`), and the last ones saved are there or in a directory that was
retained (`Lines`). `Saving` has the saves that fall between reading and replacing, too:
after one of those (`raced`) it promises no more than that the file is whole.

*A cleaning* (`HInv`): of a report whose removal began, what was there then and has not
been removed is still there, the metadata with it (`Dooming`); what is held open is
exactly what is still to be removed, of a report that is ours, and nobody else's
(`Holding`), which gives `OthersKept` at each removal. `Owing` carries `CompleteIsClean`: as
long as nothing was passed over, what was ours at the start and nobody changed is gone,
under work, or still to be looked at.

*Download and extraction* (`UInv`): a 7-Zip is started once to an attempt, and while an
attempt has the stage no other attempt's runs (`Started`) - a stage is only swept when its
orphan can be, and an orphan that holds it makes the attempt fail. So everything in the
stage was written by this attempt (`Measured`), of a package whose reply was whole
(`Transferred`).

*The overlay* (`BInv`): a marker that counts is true, and a pass that is still complete
has brought the overlay to every file before its turn (`Truth`). It rests on the markers
of two overlays being different and on names of programs and archives being apart. A
stage's own marker does not count until the stage is worked on: it is removed first.
`Undisturbed` says that a pass nothing disturbs meets files it knows and goes on being
complete.

*A profile* (`PInv`): a profile without preferences is one no browser has opened
(`Unopened`), and before the browser starts what was prepared says of updates what the
build demands (`Prepared`). `StorageStable` and `NoUnreviewedUpdater` are about what the
command line says, so the proof first shows that of the switches of a name the last
counts (`LastCounts`), what a line put together from two says (`Joins`), and what each
family's line says whatever extra arguments the user has (`Building`, `Commanding`).

**Algorithms.** Ten theorems hold for every input of a pure module. Those of four
modules are about sequence operators that look for the first or last member that matches;
`Least`, from the well-foundedness of the naturals, gives a first. `Heeded`: for any adapter that
states its features in one switch (`Once`), as all of them do, any configuration and
arguments. `Opening`: for any arguments after the separator of the registered command.
`Ordering`: for versions of any length; the order is shown to be one by comparing
the first component in which two differ, with absent ones as zero. `Trusting`: for any release and any hash
file of a vendor that is sincere - a digest, signature or line is of what it names, or is
unreadable -, an assumption without which no check of digests could mean anything.

`Attributing` asks nothing of a shortcut: which of its statements are looked at, and that
a set of answers with one member has no other, is all it rests on.

Others are about loops, which the model has as folds of the community modules. A fold
is a function chosen by what it satisfies, so that it has to be shown to exist before
anything else: `Climb` builds it from stages (the greatest stage that is reached, by
`Least`), `Iterates` says that a fold over a sequence is the last of a sequence of states,
each from the one before and the next member. With that an invariant of a loop
is proved as one of a machine is: by the least index at which it fails. `Replying` (a
body read chunk by chunk), `Following` (a chain of redirects), `Landing` (the entries of an
archive, each name folded over its components, the budget over the entries) and the
arrays in `Combining` (entries added one by one) are of this kind.

`Fencing` cuts a text at its fence into what is before and behind and shows that
writing joins the two around the new lines, wherever stray markers stand. `Combining`
needs that prefixes of a path are ordered (`PrefixEither`) and that the defaults are
a tree (`Tree`: no value lies below another, which JSON objects cannot violate):
whatever default a merge leaves out is present or barred in what it writes
(`Complete`), so the next merge adds nothing and changes nothing (`Settles`). Nothing is
assumed of the file.

**Claim.** Whoever has been let in and is not deserted is who the marker names
(`Named`), and at most one launcher is between its `create_new` and the end of its
claim; the marker is torn while it writes, its own while it syncs, either while it
removes (`OneClaimer`). No assumption is made about which call fails, so `OneFamily`
itself is not a theorem (section 5).

Only model-checked: all liveness properties (`LockReleased`, `RetriedUnlessHusk`, `Rerouted`,
`Answered`, `Closes`, `Progress`: fairness and ENABLED are out of the prover's reach), and of
`ReleasesTrusted` and `InputsMean` the conjuncts the theorems above do not name. Of
these, `SettingsConverge`, `RoutedAsBefore` and `TornDefaultsAgree` filter texts with
`SelectSeq`, a primitive the prover gives no meaning; `StageIsOneBuild`, `OnlyLogosChange` and
`IconsReadBack` compare long compositions with a reference; that a shortcut written in
full is recognised (`LinkNamesOneFile`), and the rest (`SignedByKey`, `RevokedRefused`,
`QuietLinksAreCurrent`, `WatcherUnderstood`, `FolderIsAChild`, `OnlyOwnCommands`), are
decided by a table or a few comparisons that the samples exhaust. No module uses RECURSIVE operators.

## 5. Where code and documents disagree

Four runs are expected to find a violation; each checks one property that a
document or comment of the repository states.

- **`install_erased`.** `install.rs:215`: "Never erase the only surviving working
  installation." After a crash between the two renames the backup is the only
  browser. A launch with `check_on_launch = false` does not recover
  but prepares the profile, and `hardening.rs:236` creates `Browser` for one
  settings file. The next checking launch finds install and backup, takes the
  swap for completed, and removes the backup (`install.rs:169`).
- **`registration_torn`.** `docs/USER-GUIDE.md:162` says an interrupted
  registration can be retried. A death while the history file is being filled
  leaves an unfinished file under the digest of the record, which every later
  registration finds and refuses (`registry/registration.rs:118`).
- **`claim_unsynced`.** The documentation of `instance.rs` (lines 5-7) says the marker
  "turns that silent collision into a fail-closed error". The marker is complete, and
  read by others, before it is synced; when the sync fails its writer removes it by
  its path (`instance.rs:71`), and a launcher of another family claims the folder
  while those let in by it work there. `KeptApart`, in run `parts`, says that this is the
  only way.
- **`cleanup_husk`.** `cleanup.rs:424`: "Leave attribution metadata until all attachments
  have been removed, so a normal partial deletion failure can be retried on a later
  completed session." After a death between the removal of the metadata and
  that of the directory (`cleanup.rs:467`, `:472`), or when the directory cannot be
  removed, it stays without metadata, and every later scan is incomplete (`:511`). Each
  later session still scrubs the rest, but none completes, and the record is never
  retired. `RetriedUnlessHusk`, in run `cleanup`, says that nothing else keeps it.
  `HostTraces` has the removal call by call: there `StillAttributed` and
  `CompleteIsClean` hold, because a directory without metadata makes the scan incomplete.

Limitations that are not runs of their own, met while modelling:

- The repair journal names no computer (`registry/repair_journal.rs:329`). On a
  second one, at the same path, the recorded commands are missing, the undo
  succeeds and clears the entries, and the first computer's commands cannot be
  restored any more. `RegistryRepair` with two `Hosts` (`TwoHosts` in its MC module)
  violates `Restorable`; run `registry` has one.
- A launcher that dies between creating and filling `instance.toml` leaves a marker
  that no launcher accepts; the folder is refused, never shared, and has to be
  repaired by hand.
- `Registration` and `RegistryRepair` take a replacement through `fs_safety::atomic_write`
  as one step. `SettingsFile` has the same calls one by one: a death inside
  `ReplaceFileW`, between its two renames, leaves no file under its name and the old one
  in the staging directory. What the registry parts make of that is not checked.
- Lines that the user saves between a launch's read of `user.js` and its replacement are
  overwritten; `LinesNeverLost` and `StartedAsConfigured` are about the rest (`raced`).
- After a launcher with new logos, archives with the logos of the one before are not
  recognised (`apply_logo_patches` knows upstream's and its own): the pass never
  completes and programs are patched again at every launch until the next
  browser update. `RetryCompletes` is about files it knows (`Known`).
- The branding marker holds sizes, not contents: a launcher that is rolled back may
  believe the marker of its own earlier overlay if the files kept their sizes. The
  model ships overlays forwards only.

## 6. Not modelled

- *Window rendering, taskbar*: layout, drawing, calls of the Windows shell.
- *Executables and build scripts*: one call each into the core, packaging.
- *Path checks* (`fs_safety.rs`): links and junctions on a path are one guard; the calls
  that compare identities of files are Windows'.
- *Cryptography, TLS, HTTP, archive and image formats*: library code; the model has what
  is done with their results.
- *Tables*: the values of preferences, URLs, names of assets beyond what tells them apart.
- *Copying and comparing of directories*, the walk for a browser's processes, and the
  encryption of records: one step each.
- A drive that loses or reorders completed writes: every step that has returned is
  taken to be on the drive.

## 7. Plan

In this order, the most consequential first:

1. `Registration` and `RegistryRepair` over `SafeReplacement` instead of a write in one
   step, to see what they make of a death inside a replacement.
2. `RegistryRepair` driven by the notifications of `SelfRegWatch` instead of fair sweeps.
3. Theorems for the algorithms of section 4 that are only model-checked, beginning
   with `OnlyOwnCommands` and `SettingsConverge`.

To keep the number of runs at what the questions need, new properties go into
the run of their module, or, where they are small, into `parts`.
