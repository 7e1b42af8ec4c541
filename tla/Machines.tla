----------------------------- MODULE Machines -------------------------------
(***************************************************************************)
(* The launcher's smaller parts that keep state, side by side: a profile    *)
(* through launches (Profiles), one settings file (SettingsFile), a         *)
(* cleaning among other programs (HostTraces), the thread that watches for  *)
(* self-registrations (SelfRegWatch), download and extraction (Unpack) and  *)
(* the overlay of a build (Branding).  They share nothing: each steps when  *)
(* it does, and says one property of its own.                               *)
(***************************************************************************)
EXTENDS Integers, Sequences

CONSTANTS
    MaxSaves, MaxFileFaults,                                \* SettingsFile
    Reports, Attachments, RecentLinks, Thumbs, MaxEvents,   \* HostTraces
    WatchedKeys,                                            \* SelfRegWatch
    MaxBytes, MaxAttempts,                                  \* Unpack
    IconPrograms, LogoPaks, MaxOverlay, MaxRounds           \* Branding

ASSUME MachinesAssumption ==
    /\ MaxSaves \in Nat /\ MaxFileFaults \in Nat
    /\ Reports \cap RecentLinks = {}
    /\ MaxBytes \in Nat \ {0} /\ MaxAttempts \in Nat \ {0}
    /\ IconPrograms \in Seq(STRING) /\ LogoPaks \in Seq(STRING)
    /\ \A i \in DOMAIN IconPrograms, j \in DOMAIN LogoPaks : IconPrograms[i] # LogoPaks[j]

VARIABLES family, settings, build, initial, profile, start,
          file, own, left, host, write, saved, raced, spent,
          reports, links, thumbs, handles, cleaner, owed, doomed, events,
          commands, notice, thread, session, alive, stop, waits, covered, spared,
          attempt, at, stage, reply, child, size, written, unkilled,
          dirs, overlay, place, phase, turn, complete, open, round, undisturbed

PR == INSTANCE Profiles
SF == INSTANCE SettingsFile
SR == INSTANCE SafeReplacement WITH content <- SF!Content, kept <- left, failures <- spent
HT == INSTANCE HostTraces WITH Links <- RecentLinks
SW == INSTANCE SelfRegWatch WITH Keys <- WatchedKeys
UP == INSTANCE Unpack
BR == INSTANCE Branding WITH Targets <- IconPrograms, Paks <- LogoPaks

profileVars == <<family, settings, build, initial, profile, start>>
fileVars == <<file, own, left, host, write, saved, raced, spent>>
hostVars == <<reports, links, thumbs, handles, cleaner, owed, doomed, events>>
watchVars == <<commands, notice, thread, session, alive, stop, waits, covered, spared>>
unpackVars == <<attempt, at, stage, reply, child, size, written, unkilled>>
brandingVars == <<dirs, overlay, place, phase, turn, complete, open, round, undisturbed>>
machines == <<profileVars, fileVars, hostVars, watchVars, unpackVars, brandingVars>>

MachinesInit ==
    /\ PR!ProfilesInit
    /\ SF!FileInit
    /\ HT!HostInit
    /\ SW!WatchInit
    /\ UP!UnpackInit
    /\ BR!BrandingInit

ProfileStep == PR!ProfilesNext /\ UNCHANGED <<fileVars, hostVars, watchVars, unpackVars, brandingVars>>
FileStep == SF!FileNext /\ UNCHANGED <<profileVars, hostVars, watchVars, unpackVars, brandingVars>>
HostStep == HT!HostNext /\ UNCHANGED <<profileVars, fileVars, watchVars, unpackVars, brandingVars>>
WatchStep == SW!WatchNext /\ UNCHANGED <<profileVars, fileVars, hostVars, unpackVars, brandingVars>>
UnpackStep == UP!UnpackNext /\ UNCHANGED <<profileVars, fileVars, hostVars, watchVars, brandingVars>>
BrandingStep == BR!BrandingNext /\ UNCHANGED <<profileVars, fileVars, hostVars, watchVars, unpackVars>>

MachinesNext == ProfileStep \/ FileStep \/ HostStep \/ WatchStep \/ UnpackStep \/ BrandingStep

MachinesSpec == MachinesInit /\ [][MachinesNext]_machines

-----------------------------------------------------------------------------
(* One property to a machine, as a conjunction of those its module states.  *)

\* A profile through launches, builds and changing settings: it is always
\* stored the same way, is never opened before it was prepared, and Helium is
\* only updated in builds that were reviewed.
ProfileKept ==
    /\ PR!StorageStable
    /\ PR!FirstRunSeeded
    /\ PR!NoUnreviewedUpdater

\* What the user said no to is only allowed again by the user, or with a new
\* profile (Profiles).
ConsentKept == PR!ConsentKept

\* A settings file through launches, failures and deaths at any call: the
\* user's lines are somewhere, the file is never torn, and a browser starts
\* only with the managed lines its configuration asks for.
SettingsKept ==
    /\ SF!LinesNeverLost
    /\ SF!NeverTorn
    /\ SF!StartedAsConfigured

\* To the user the file is edited in single steps that leave their lines
\* alone: whatever fails or dies, it is the old one, the new one, or kept whole
\* at a path nothing removes (StagedFile::commit, "retained").
FileReplaced == SR!Spec

\* A cleaning among other programs at work removes nothing that names another
\* program at that moment, and nothing in use (HostTraces).
OthersKept == [][HT!ForeignReportsKept /\ HT!OpenFilesKept]_hostVars

\* What a cleaning leaves says whose it is, and one that calls itself complete
\* left nothing it could have found.
TracesOwn ==
    /\ HT!StillAttributed
    /\ HT!CompleteIsClean

\* Self-registrations while the browser runs: none is missed by the waiting
\* thread, which stops when it is told to, and none is left by a last sweep.
RegistrationsWatched ==
    /\ SW!NoneMissed
    /\ SW!StopsSoon
    /\ SW!NoneLeft

\* From a reply to a stage: a whole package, unpacked within its limits and by
\* this attempt alone, with nothing left running.
PackagesContained ==
    /\ UP!PackageIsWhole
    /\ UP!UnpackedAlone
    /\ UP!WithinLimit
    /\ UP!NoneLeftRunning

\* The overlay of a build: its marker is true, nothing without it replaces the
\* browser, archives stay whole and retries complete.
OverlayTrue ==
    /\ BR!MarkerTellsOverlay
    /\ BR!PromotedWhole
    /\ BR!PaksWhole
    /\ BR!RetryCompletes
=============================================================================
