------------------------------ MODULE Install ------------------------------
(***************************************************************************)
(* The browser bundle of one portable folder: Browser, Browser.stage and   *)
(* Browser.backup, the install lock, and the launcher processes that       *)
(* recover, update, prepare and start it (core/src/install.rs,             *)
(* core/src/updater.rs and the pipeline of core/src/lib.rs).               *)
(*                                                                         *)
(* Every filesystem call is a step of its own, may fail, and may be the    *)
(* last one before the process disappears: closing the window ends the     *)
(* process and with it the pipeline thread, wherever it is.                *)
(***************************************************************************)
EXTENDS Integers

CONSTANTS Launchers,  \* launcher processes started on the folder
          NoOne,      \* the value of the lock when no handle is open
          Versions,   \* stable release numbers, in the order of version_order
          Targets,    \* package targets
          NoTarget,   \* a legacy marker without a target
          Modes,      \* how the launchers of this folder are started
          MaxFaults   \* how many failures and crashes may happen

\* "check": direct start with update checks; "unchecked": direct start with
\* check_on_launch = false; "protocol": a clicked link; "headless": update().
AllModes == {"check", "unchecked", "protocol", "headless"}

ASSUME InstallAssumption ==
    /\ NoOne \notin Launchers
    /\ Versions \subseteq Nat \ {0}
    /\ NoTarget \notin Targets
    /\ Modes \subseteq AllModes
    /\ MaxFaults \in Nat

VARIABLES
    lock,    \* the launcher whose handle holds Nomad/install.lock, or NoOne
    dir,     \* the contents of the three sibling directories
    pc,      \* where each launcher is
    mode,    \* how it was started
    want,    \* the release it is installing, and what it downloaded for it
    faults   \* failures and crashes so far

vars == <<lock, dir, pc, mode, want, faults>>

-----------------------------------------------------------------------------
(* Contents of a directory.  "scraps" is any directory that is not a        *)
(* complete bundle: a download, a half-removed tree, one settings file.     *)

Dirs == {"install", "stage", "backup"}

Content == [form : {"missing", "scraps", "bundle"},
            ver : Versions \cup {0}, tgt : Targets \cup {NoTarget},
            genuine : BOOLEAN, marked : BOOLEAN, ext : BOOLEAN]

Nothing == [form |-> "missing", ver |-> 0, tgt |-> NoTarget,
            genuine |-> FALSE, marked |-> FALSE, ext |-> FALSE]

Scraps == [Nothing EXCEPT !.form = "scraps"]

Exists(d) == dir[d].form # "missing"

\* read_version_marker: the marker alone says what is installed.
Installed == dir["install"].marked

Older(v) == Installed /\ v < dir["install"].ver

NeedsUpdate(v, t) == ~Installed \/ <<dir["install"].ver, dir["install"].tgt>> # <<v, t>>

Renamed(from, to) == [dir EXCEPT ![to] = dir[from], ![from] = Nothing]

\* A write below a directory creates the directory when it is missing.
Touched(d) == IF Exists(d) THEN dir[d] ELSE Scraps

-----------------------------------------------------------------------------
(* Attempts.                                                                *)

NoOffer == [ver |-> 0, tgt |-> NoTarget, genuine |-> FALSE]

Offers == [ver : Versions \cup {0}, tgt : Targets \cup {NoTarget}, genuine : BOOLEAN]

Recovering == {"restore", "sweepStage", "sweepBackup"}
Staging    == {"stage", "download", "verify", "extract", "finalize", "preserve",
               "mark", "swap"}
Launching  == {"provision", "prepare", "spawn", "fallback", "fallbackSpawn"}
Holding    == Recovering \cup Staging \cup Launching
              \cup {"remind", "resolve", "prompt", "promote", "rollback",
                    "dropBackup", "error", "prepError"}
Labels     == Holding \cup {"idle", "acquire", "refused"}

TypeOK ==
    /\ lock \in Launchers \cup {NoOne}
    /\ dir \in [Dirs -> Content]
    /\ pc \in [Launchers -> Labels]
    /\ mode \in [Launchers -> AllModes \cup {"none"}]
    /\ want \in [Launchers -> Offers]
    /\ faults \in 0..MaxFaults

Init ==
    /\ lock = NoOne
    /\ \/ dir = [d \in Dirs |-> Nothing]
       \/ \E v \in Versions, t \in Targets \cup {NoTarget}, e \in BOOLEAN :
             dir = [d \in Dirs |->
                       IF d = "install"
                       THEN [form |-> "bundle", ver |-> v, tgt |-> t,
                             genuine |-> TRUE, marked |-> TRUE, ext |-> e]
                       ELSE Nothing]
    /\ pc = [p \in Launchers |-> "idle"]
    /\ mode = [p \in Launchers |-> "none"]
    /\ want = [p \in Launchers |-> NoOffer]
    /\ faults = 0

Fault == faults < MaxFaults /\ faults' = faults + 1

Goto(p, label) ==
    /\ pc' = [pc EXCEPT ![p] = label]
    /\ UNCHANGED <<lock, mode, want>>

\* The lock handle closes when the attempt is over, and so does the window.
Leave(p) ==
    /\ pc' = [pc EXCEPT ![p] = "idle"]
    /\ lock' = IF lock = p THEN NoOne ELSE lock
    /\ mode' = [mode EXCEPT ![p] = "none"]
    /\ want' = [want EXCEPT ![p] = NoOffer]

\* An error shows the error screen, lock held; headless callers just return.
Fail(p) == IF mode[p] = "headless" THEN Leave(p) ELSE Goto(p, "error")

\* A link may only be opened with a browser that is already installed; the
\* check is made before the lock is taken.
Start(p) ==
    /\ pc[p] = "idle"
    /\ \E m \in Modes :
          /\ m = "protocol" => Installed
          /\ mode' = [mode EXCEPT ![p] = m]
    /\ pc' = [pc EXCEPT ![p] = "acquire"]
    /\ UNCHANGED <<lock, dir, want, faults>>

\* Mutant: the error of try_lock is ignored.
AcquireUnlocked(p) ==
    /\ pc[p] = "acquire"
    /\ lock' = p
    /\ pc' = [pc EXCEPT ![p] = "restore"]
    /\ UNCHANGED <<dir, mode, want, faults>>

Acquire(p) ==
    /\ pc[p] = "acquire"
    /\ lock = NoOne
    /\ lock' = p
    /\ pc' = [pc EXCEPT ![p] = CASE mode[p] \in {"check", "headless"} -> "restore"
                                 [] mode[p] = "unchecked" -> "prepare"
                                 [] OTHER -> "remind"]
    /\ UNCHANGED <<dir, mode, want, faults>>

\* try_lock would block, or the lock file cannot be opened: no fallback.
Refuse(p) ==
    /\ pc[p] = "acquire"
    /\ (lock # NoOne /\ UNCHANGED faults) \/ Fault
    /\ IF mode[p] = "headless" THEN Leave(p) ELSE Goto(p, "refused")
    /\ UNCHANGED dir

\* The maintenance reminder of a protocol start: Continue or Close.
Remind(p) ==
    /\ pc[p] = "remind"
    /\ Goto(p, "prepare") \/ Leave(p)
    /\ UNCHANGED <<dir, faults>>

-----------------------------------------------------------------------------
(* recover_staging_locked                                                   *)

RestoreBackup(p) ==
    /\ pc[p] = "restore"
    /\ dir' = IF ~Exists("install") /\ Exists("backup")
              THEN Renamed("backup", "install") ELSE dir
    /\ Goto(p, "sweepStage")
    /\ UNCHANGED faults

\* remove_dir_all deletes entry by entry, the marker sooner or later.
RemoveSome(d) ==
    /\ dir[d].form = "bundle"
    /\ \E m \in {dir[d].marked, FALSE} :
          dir' = [dir EXCEPT ![d].form = "scraps", ![d].marked = m]

\* Mutant: a stage that cannot be removed is left for the next run.
SweepStageBestEffort(p) ==
    /\ pc[p] = "sweepStage"
    /\ \/ dir' = [dir EXCEPT !["stage"] = Nothing] /\ UNCHANGED faults
       \/ Fault /\ UNCHANGED dir
    /\ Goto(p, "sweepBackup")

SweepStage(p) ==
    /\ pc[p] = "sweepStage"
    /\ \/ RemoveSome("stage") /\ UNCHANGED <<lock, pc, mode, want>>
       \/ dir' = [dir EXCEPT !["stage"] = Nothing] /\ Goto(p, "sweepBackup")
    /\ UNCHANGED faults

SweepBackup(p) ==
    /\ pc[p] = "sweepBackup"
    /\ \/ /\ Exists("install")
          /\ RemoveSome("backup")
          /\ UNCHANGED <<lock, pc, mode, want>>
       \/ /\ dir' = IF Exists("install") THEN [dir EXCEPT !["backup"] = Nothing] ELSE dir
          /\ Goto(p, "resolve")
    /\ UNCHANGED faults

-----------------------------------------------------------------------------
(* The update decision: update_check_phase and resolve_check_action.        *)

Offline(p) ==
    /\ pc[p] = "resolve"
    /\ IF Installed /\ mode[p] # "headless" THEN Goto(p, "provision") ELSE Fail(p)
    /\ UNCHANGED <<dir, faults>>

\* The release comes from the version cache or from upstream, which may
\* offer anything, an older release included.
RefuseOlder(p) ==
    /\ pc[p] = "resolve"
    /\ \E v \in Versions : Older(v)
    /\ Fail(p)
    /\ UNCHANGED <<dir, faults>>

UpToDate(p) ==
    /\ pc[p] = "resolve"
    /\ \E v \in Versions, t \in Targets : ~Older(v) /\ ~NeedsUpdate(v, t)
    /\ IF mode[p] = "headless" THEN Leave(p) ELSE Goto(p, "provision")
    /\ UNCHANGED <<dir, faults>>

\* With auto_download off the window asks, and the headless update defers.
AcceptUpdate(p) ==
    /\ pc[p] = "resolve"
    /\ \E v \in Versions, t \in Targets :
          /\ ~Older(v) /\ NeedsUpdate(v, t)
          /\ want' = [want EXCEPT ![p] = [ver |-> v, tgt |-> t, genuine |-> FALSE]]
    /\ \E label \in {"stage", "prompt"} :
          /\ label = "prompt" => mode[p] # "headless"
          /\ pc' = [pc EXCEPT ![p] = label]
    /\ UNCHANGED <<lock, dir, mode, faults>>

Defer(p) ==
    /\ pc[p] = "resolve"
    /\ mode[p] = "headless"
    /\ \E v \in Versions, t \in Targets : ~Older(v) /\ NeedsUpdate(v, t)
    /\ Leave(p)
    /\ UNCHANGED <<dir, faults>>

\* Download, or skip and start what is installed, if anything is.
Decide(p) ==
    /\ pc[p] = "prompt"
    /\ \/ Goto(p, "stage")
       \/ IF Installed THEN Goto(p, "provision") ELSE Leave(p)
    /\ UNCHANGED <<dir, faults>>

-----------------------------------------------------------------------------
(* download_and_install and finalize_install, up to the swap                *)

CreateStage(p) ==
    /\ pc[p] = "stage"
    /\ IF Older(want[p].ver) \/ Exists("stage")
       THEN Fail(p) /\ UNCHANGED dir
       ELSE Goto(p, "download") /\ dir' = [dir EXCEPT !["stage"] = Scraps]
    /\ UNCHANGED faults

\* The bytes that arrive need not be the bytes upstream published.
Download(p) ==
    /\ pc[p] = "download"
    /\ \E g \in BOOLEAN : want' = [want EXCEPT ![p].genuine = g]
    /\ pc' = [pc EXCEPT ![p] = "verify"]
    /\ UNCHANGED <<lock, dir, mode, faults>>

\* Mutant: a package with nothing to check it against is taken as it is.
VerifyNothing(p) ==
    /\ pc[p] = "verify"
    /\ Goto(p, "extract")
    /\ UNCHANGED <<dir, faults>>

Verify(p) ==
    /\ pc[p] = "verify"
    /\ IF want[p].genuine THEN Goto(p, "extract") ELSE Fail(p)
    /\ UNCHANGED <<dir, faults>>

\* An authentic archive may still lack the layout this launcher knows.
Extract(p) ==
    /\ pc[p] = "extract"
    /\ \E f \in {"bundle", "scraps"} :
          dir' = [dir EXCEPT !["stage"] =
                     [form |-> f, ver |-> want[p].ver, tgt |-> NoTarget,
                      genuine |-> want[p].genuine, marked |-> FALSE, ext |-> FALSE]]
    /\ Goto(p, "finalize")
    /\ UNCHANGED faults

\* Mutant: the layout of the staged bundle is not looked at.
ValidateNothing(p) ==
    /\ pc[p] = "finalize"
    /\ Goto(p, "preserve")
    /\ UNCHANGED <<dir, faults>>

ValidateStage(p) ==
    /\ pc[p] = "finalize"
    /\ IF dir["stage"].form = "bundle" THEN Goto(p, "preserve") ELSE Fail(p)
    /\ UNCHANGED <<dir, faults>>

\* Mutant: the preserve-state hook is not called.
PreserveNothing(p) ==
    /\ pc[p] = "preserve"
    /\ Goto(p, "mark")
    /\ UNCHANGED <<dir, faults>>

Preserve(p) ==
    /\ pc[p] = "preserve"
    /\ dir' = [dir EXCEPT !["stage"].ext = @ \/ dir["install"].ext]
    /\ Goto(p, "mark")
    /\ UNCHANGED faults

WriteMarker(p) ==
    /\ pc[p] = "mark"
    /\ dir' = [dir EXCEPT !["stage"].marked = TRUE, !["stage"].tgt = want[p].tgt]
    /\ Goto(p, "swap")
    /\ UNCHANGED faults

-----------------------------------------------------------------------------
(* atomic_swap_locked                                                       *)

\* Mutant: the transaction removes the old install instead of renaming it.
RemoveInstall(p) ==
    /\ pc[p] = "swap"
    /\ Goto(p, "promote")
    /\ dir' = [dir EXCEPT !["install"] = Nothing]
    /\ UNCHANGED faults

SetAside(p) ==
    /\ pc[p] = "swap"
    /\ IF Exists("backup")
       THEN Fail(p) /\ UNCHANGED dir
       ELSE /\ Goto(p, "promote")
            /\ dir' = IF Exists("install") THEN Renamed("install", "backup") ELSE dir
    /\ UNCHANGED faults

Promote(p) ==
    /\ pc[p] = "promote"
    /\ \/ dir' = Renamed("stage", "install") /\ Goto(p, "dropBackup") /\ UNCHANGED faults
       \/ Fault /\ Goto(p, "rollback") /\ UNCHANGED dir

\* The error of the failed promotion is returned whether this works or not.
Rollback(p) ==
    /\ pc[p] = "rollback"
    /\ \/ /\ dir' = IF Exists("backup") THEN Renamed("backup", "install") ELSE dir
          /\ UNCHANGED faults
       \/ Exists("backup") /\ Fault /\ UNCHANGED dir
    /\ Fail(p)

\* Best effort: a backup that stays is removed by the next recovery.
DropBackup(p) ==
    /\ pc[p] = "dropBackup"
    /\ \/ /\ RemoveSome("backup")
          /\ UNCHANGED <<lock, pc, mode, want, faults>>
       \/ /\ \/ dir' = [dir EXCEPT !["backup"] = Nothing] /\ UNCHANGED faults
             \/ Exists("backup") /\ Fault /\ UNCHANGED dir
          /\ IF mode[p] = "headless" THEN Leave(p) ELSE Goto(p, "provision")

-----------------------------------------------------------------------------
(* Launch preparation, spawn and the error screen                           *)

\* fetch_extension_updates: best effort, never stops the launch.
Provision(p) ==
    /\ pc[p] = "provision"
    /\ \/ UNCHANGED dir
       \/ dir' = [dir EXCEPT !["install"] = [Touched("install") EXCEPT !.ext = TRUE]]
    /\ Goto(p, "prepare")
    /\ UNCHANGED faults

\* Branding, hardening and prepare_launch.  Most adapters write at least one
\* settings file below Browser, creating the directory if it is missing.
Prepare(p) ==
    /\ \/ pc[p] = "prepare" /\ Goto(p, "spawn")
       \/ pc[p] = "fallback" /\ Goto(p, "fallbackSpawn")
    /\ dir' \in {dir, [dir EXCEPT !["install"] = Touched("install")]}
    /\ UNCHANGED faults

\* A missing executable, or a browser that dies at once, fails the launch.
Spawn(p) ==
    /\ \/ /\ dir["install"].form = "bundle"
          /\ pc[p] \in {"spawn", "fallbackSpawn"}
          /\ Leave(p)
          /\ UNCHANGED faults
       \/ /\ (dir["install"].form # "bundle" /\ UNCHANGED faults) \/ Fault
          /\ \/ pc[p] = "spawn" /\ Goto(p, "error")
             \/ pc[p] = "fallbackSpawn" /\ Goto(p, "prepError")
    /\ UNCHANGED dir

\* A failing call: lock check, metadata, I/O, network, layout, overlays.
StepFails(p) ==
    /\ Fault
    /\ \/ pc[p] \in Recovering \cup Staging \cup {"resolve"} /\ Fail(p)
       \/ pc[p] \in {"prepare", "fallback"} /\ Goto(p, "prepError")
    /\ UNCHANGED dir

\* Mutant: the lock handle lives on into the next attempt.
RetryHolding(p) ==
    /\ pc[p] \in {"error", "prepError", "refused"}
    /\ pc' = [pc EXCEPT ![p] = "acquire"]
    /\ UNCHANGED <<lock, dir, mode, want, faults>>

\* Retry drops the lock and starts over; Close ends the process.
Retry(p) ==
    /\ pc[p] \in {"error", "prepError", "refused"}
    /\ lock' = IF lock = p THEN NoOne ELSE lock
    /\ pc' = [pc EXCEPT ![p] = "acquire"]
    /\ want' = [want EXCEPT ![p] = NoOffer]
    /\ UNCHANGED <<dir, mode, faults>>

CloseWindow(p) ==
    /\ pc[p] \in {"error", "prepError", "refused"}
    /\ Leave(p)
    /\ UNCHANGED <<dir, faults>>

\* Offered only for an installed browser, and never after failed preparation.
LaunchAnyway(p) ==
    /\ pc[p] = "error"
    /\ Installed
    /\ Goto(p, "fallback")
    /\ UNCHANGED <<dir, faults>>

\* The process ends between two steps: title-bar X, kill, power.
Crash(p) ==
    /\ pc[p] # "idle"
    /\ Fault
    /\ Leave(p)
    /\ UNCHANGED dir

-----------------------------------------------------------------------------
\* What a launcher does on its own, and what its user does.
Step(p) ==
    \/ Acquire(p) \/ Refuse(p)
    \/ RestoreBackup(p) \/ SweepStage(p) \/ SweepBackup(p)
    \/ Offline(p) \/ RefuseOlder(p) \/ UpToDate(p) \/ AcceptUpdate(p) \/ Defer(p)
    \/ CreateStage(p) \/ Download(p) \/ Verify(p) \/ Extract(p)
    \/ ValidateStage(p) \/ Preserve(p) \/ WriteMarker(p)
    \/ SetAside(p) \/ Promote(p) \/ Rollback(p) \/ DropBackup(p)
    \/ Provision(p) \/ Prepare(p) \/ Spawn(p)
    \/ StepFails(p)

Answer(p) ==
    Remind(p) \/ Decide(p) \/ Retry(p) \/ CloseWindow(p) \/ LaunchAnyway(p)

Next == \E p \in Launchers : Start(p) \/ Step(p) \/ Answer(p) \/ Crash(p)

Spec == Init /\ [][Next]_vars

-----------------------------------------------------------------------------
(* Properties                                                               *)

HasCopy == \E d \in {"install", "backup"} : dir[d].form = "bundle"

\* At most one attempt is past the lock, prompts and error screens included,
\* and the lock file is open exactly as long as its attempt lasts: two
\* launchers never rename, delete or write below the folder at the same time
\* (InstanceLock, "held for the entire recovery/update/launch attempt").
HolderOnly == \A p \in Launchers : lock = p <=> pc[p] \in Holding

\* .nomad-version, the single source of truth for what is installed, is never
\* found in an install directory that is not a complete, verified bundle,
\* whichever call failed or process died (finalize_install writes it last,
\* recover_staging_locked must not restore a half-removed backup).
MarkerTellsTruth ==
    dir["install"].marked => dir["install"].form = "bundle" /\ dir["install"].genuine

\* No release is chosen while an earlier transaction is still in the folder:
\* recovery has emptied stage and backup before an attempt decides, asks or
\* stages, and a bundle about to be promoted is complete, verified and marked.
Recovered ==
    \A p \in Launchers :
        /\ pc[p] \in {"resolve", "prompt", "stage"} => ~Exists("stage") /\ ~Exists("backup")
        /\ pc[p] \in Staging => ~Exists("backup")
        /\ pc[p] = "promote" => /\ ~Exists("install")
                               /\ dir["stage"].form = "bundle"
                               /\ dir["stage"].genuine /\ dir["stage"].marked

\* A complete browser, once in the folder, stays in it: "Never erase the only
\* surviving working installation" (atomic_swap_locked), "a crash between the
\* two renames is detected and recovered" (module documentation).
CopyNeverLost == [][HasCopy => HasCopy']_vars

\* Every attempt ends: the folder is not locked forever, provided the process
\* runs on and its user answers the screens it shows.
LockReleased == \A p \in Launchers : lock = p ~> lock # p

\* The pipeline thread is scheduled and users answer the prompts and error
\* screens; failures run out, nothing else is assumed.
FairSpec == Spec /\ \A p \in Launchers : WF_vars(Step(p)) /\ WF_vars(Answer(p))

-----------------------------------------------------------------------------
(* The invariant that makes Install correct, whatever the modes.            *)

\* Install holds a bundle exactly when it is marked; away from it, so does
\* the backup, because only a folder with an install ever removes a backup.
Bundles ==
    /\ dir["install"].marked <=> dir["install"].form = "bundle"
    /\ dir["install"].form = "bundle" => dir["install"].genuine /\ dir["install"].ver # 0
    /\ ~Exists("install") =>
          /\ dir["backup"].marked <=> dir["backup"].form = "bundle"
          /\ dir["backup"].form = "bundle" => dir["backup"].genuine /\ dir["backup"].ver # 0

\* What the holder of the lock has established at each point.
Phase(p) ==
    /\ pc[p] \in {"sweepStage", "sweepBackup"} => Exists("install") \/ ~Exists("backup")
    /\ pc[p] = "sweepBackup" => ~Exists("stage")
    /\ pc[p] \in {"resolve", "prompt", "stage"} => ~Exists("stage") /\ ~Exists("backup")
    /\ pc[p] \in Staging => ~Exists("backup") /\ want[p].ver # 0
    /\ pc[p] \in {"prompt", "promote"} => want[p].ver # 0
    /\ pc[p] = "extract" => want[p].genuine
    /\ pc[p] = "finalize" => dir["stage"].genuine
    /\ pc[p] \in {"finalize", "preserve", "mark", "swap", "promote"} =>
          dir["stage"].ver = want[p].ver
    /\ pc[p] \in {"preserve", "mark", "swap", "promote"} =>
          dir["stage"].form = "bundle" /\ dir["stage"].genuine
    /\ pc[p] \in {"swap", "promote"} => dir["stage"].marked
    /\ pc[p] \in {"promote", "rollback"} => ~Exists("install")
    /\ pc[p] = "dropBackup" => Exists("install")

IInv == TypeOK /\ HolderOnly /\ Bundles /\ \A p \in Launchers : Phase(p)

-----------------------------------------------------------------------------
(* The abstract specification: the working browser is the install, or the   *)
(* backup while the install is away or not complete.                        *)

Build(d) == [ver |-> dir[d].ver, tgt |-> dir[d].tgt, ext |-> dir[d].ext]

Working ==
    IF dir["install"].form = "bundle" THEN Build("install")
    ELSE IF dir["backup"].form = "bundle" THEN Build("backup")
    ELSE [ver |-> 0, tgt |-> NoTarget, ext |-> FALSE]

Slot == INSTANCE BrowserSlot WITH copy <- Working

\* The transaction implements an atomic, never older, extension-preserving
\* replacement of the working browser, crashes and failures at any call
\* included, as long as every launcher of the folder checks for updates.
ImplementsSlot == Slot!Spec

-----------------------------------------------------------------------------
(* What holds besides when every launcher recovers before it does anything. *)

CheckedOnly == Modes \subseteq {"check", "headless"}

\* Install, and the backup while the install is away, are never half there.
Complete ==
    /\ dir["install"].form # "scraps"
    /\ ~Exists("install") => dir["backup"].form # "scraps" /\ ~dir["install"].ext

\* What the holder knows of the browser it is about to replace or to start.
Carried(p) ==
    /\ pc[p] # "idle" => mode[p] \in {"check", "headless"}
    /\ pc[p] # "remind"
    /\ pc[p] \in Launching \cup {"dropBackup"} => Installed
    /\ pc[p] \in Staging \cup {"prompt", "promote"} =>
          /\ want[p].ver \in Versions /\ want[p].tgt \in Targets
          /\ Working.ver <= want[p].ver
          /\ <<Working.ver, Working.tgt>> # <<want[p].ver, want[p].tgt>>
    /\ pc[p] \in {"finalize", "preserve"} => ~dir["stage"].ext
    /\ pc[p] \in {"mark", "swap", "promote"} => dir["stage"].ext = Working.ext
    /\ pc[p] \in {"swap", "promote"} => dir["stage"].tgt = want[p].tgt

\* The invariant the refinement rests on, in a folder of checking launchers.
CheckedInv == IInv /\ CheckedOnly /\ Complete /\ \A p \in Launchers : Carried(p)
=============================================================================
