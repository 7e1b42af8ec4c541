------------------------------ MODULE Branding ------------------------------
(***************************************************************************)
(* The overlay of a Chromium build: applied to a stage before it may        *)
(* replace the browser, and to the install before a launch, where it may    *)
(* fail; a marker says what was applied (core/src/branding.rs).  What one   *)
(* file's overlay writes is module Overlay's.  The lock is Install's: one   *)
(* launcher at a time, which may die at any step.                           *)
(***************************************************************************)
EXTENDS Integers, Sequences, SequencesExt

CONSTANTS Targets,      \* the programs that get icons, in their order
          Paks,         \* the archives that get logos, in their order
          MaxOverlay,   \* overlays that launchers have shipped
          MaxRounds     \* updates and launches

-----------------------------------------------------------------------------

Files == Targets \o Paks
Names == ToSet(Files)
Places == {"stage", "install"}

\* What a file has: an overlay, by its number, or
Stock == 0
Odd == -1      \* not what upstream ships: other groups, other logos
Torn == -2     \* part of a write
Absent == -3

VARIABLES
    dirs,         \* of each place: its files, its marker, temporary files beside archives
    overlay,      \* the overlay of the launcher in use
    place,        \* the directory worked on
    phase,        \* where the launcher is
    turn,         \* the file it is at
    complete,     \* no file of this pass has failed
    open,         \* a browser of the install runs
    round,        \* updates and launches so far
    undisturbed   \* history: this pass met files it knows, and nothing else

brandingVars == <<dirs, overlay, place, phase, turn, complete, open, round, undisturbed>>

NoMarker == <<>>
PartMarker == <<0>>   \* a write of it that broke off

\* A program with an overlay may be as large as one without.
SizeOf(content) == IF content \in {Torn, Absent} THEN 0 ELSE 1

\* branding_fingerprint: the overlay, and the size of every file.
Fingerprint(dir) == <<overlay, [f \in Names |-> SizeOf(dir.files[f])]>>

Fresh(files, marker) == [files |-> files, marker |-> marker, tmp |-> {}]
Upstream == [f \in Names |-> Stock]

BrandingInit ==
    /\ dirs = [p \in Places |-> Fresh(Upstream, NoMarker)]
    /\ overlay = 1
    /\ place = "install" /\ phase = "idle" /\ turn = 1
    /\ complete = FALSE /\ open = FALSE /\ round = 0 /\ undisturbed = FALSE

Here == dirs[place]
Goto(next) == phase' = next
Idle == <<overlay, open, round>>

-----------------------------------------------------------------------------
(* An update: a stage, and what it must be to replace the browser.          *)

\* Upstream's archive may lack a file, have changed one, or hold a marker.
Fetch ==
    /\ phase = "idle" /\ round < MaxRounds
    /\ \E so \in {Stock, Odd, Absent}, f \in Names, marker \in {NoMarker, Fingerprint(Fresh(Upstream, NoMarker))} :
          dirs' = [dirs EXCEPT !["stage"] = Fresh([Upstream EXCEPT ![f] = so], marker)]
    /\ place' = "stage" /\ round' = round + 1 /\ undisturbed' = FALSE
    /\ Goto("fetched")
    /\ UNCHANGED <<overlay, turn, complete, open>>

\* validate_chromium_stage: first, no marker of another's.
RemoveMarker ==
    /\ phase = "fetched"
    /\ \/ dirs' = [dirs EXCEPT ![place].marker = NoMarker] /\ Goto("check")
       \/ Goto("idle") /\ UNCHANGED dirs
    /\ UNCHANGED <<Idle, place, turn, complete, undisturbed>>

\* Mutant: a logo already in place is not recognised.
ReplaceableStock(content) == content = Stock

\* apply_logo_patches: upstream's logos, or the ones of this overlay.
Replaceable(content) == content \in {Stock, overlay}

\* The files are all there and have what the overlay replaces.
CheckStage ==
    /\ phase = "check"
    /\ \/ /\ \A f \in Names : Replaceable(Here.files[f])
          /\ Goto("ensure")
       \/ Goto("idle")
    /\ UNCHANGED <<Idle, dirs, place, turn, complete, undisturbed>>

\* What was written is there; if not, the marker goes.
Readback ==
    /\ phase = "readback"
    /\ \/ (\A f \in ToSet(Paks) : Here.files[f] = overlay) /\ Goto("promote") /\ UNCHANGED dirs
       \/ Goto("idle") /\ dirs' \in {dirs, [dirs EXCEPT ![place].marker = NoMarker]}
    /\ UNCHANGED <<Idle, place, turn, complete, undisturbed>>

\* The rest of the update, which may fail: ensure_branding once more, which
\* finds its marker, state to carry over, and the swap, which no running
\* browser allows.
Promote ==
    /\ phase = "promote"
    /\ \/ ~open /\ dirs' = [dirs EXCEPT !["install"] = Here]
       \/ UNCHANGED dirs
    /\ Goto("idle")
    /\ UNCHANGED <<Idle, place, turn, complete, undisturbed>>

-----------------------------------------------------------------------------
(* A launch.                                                                *)

Known(f) == IF f \in ToSet(Paks) THEN dirs["install"].files[f] \in {Stock, overlay}
            ELSE dirs["install"].files[f] \notin {Torn, Absent}

\* apply_branding.
Launch ==
    /\ phase = "idle" /\ round < MaxRounds
    /\ place' = "install" /\ round' = round + 1
    /\ undisturbed' = (~open /\ \A f \in Names : Known(f))
    /\ Goto("ensure")
    /\ UNCHANGED <<dirs, overlay, turn, complete, open>>

-----------------------------------------------------------------------------
(* ensure_branding.                                                         *)

IsPending == Here.marker # Fingerprint(Here)

\* A path that is no ordinary file is refused.
Begin ==
    /\ phase = "ensure"
    /\ \/ ~IsPending /\ complete' = TRUE /\ Goto("result") /\ UNCHANGED <<turn, undisturbed>>
       \/ IsPending /\ complete' = TRUE /\ turn' = 1 /\ Goto("patch") /\ UNCHANGED undisturbed
       \/ complete' = FALSE /\ undisturbed' = FALSE /\ Goto("result") /\ UNCHANGED turn
    /\ UNCHANGED <<Idle, dirs, place>>

At(f) == turn <= Len(Files) /\ f = Files[turn]
Locked == open /\ place = "install"

\* patch_pe_icons: absent, locked and torn programs fail; any may, and what
\* Windows leaves of a program then is not known.
PatchTarget ==
    /\ phase = "patch"
    /\ \E f \in ToSet(Targets) :
          /\ At(f)
          /\ \/ /\ Here.files[f] \notin {Absent, Torn} /\ ~Locked
                /\ dirs' = [dirs EXCEPT ![place].files[f] = overlay]
                /\ UNCHANGED <<complete, undisturbed>>
             \/ /\ Here.files[f] \in {Absent, Torn} \/ Locked
                /\ complete' = FALSE /\ UNCHANGED <<dirs, undisturbed>>
             \/ /\ complete' = FALSE /\ undisturbed' = FALSE
                /\ dirs' \in {dirs, IF Here.files[f] = Absent THEN dirs ELSE [dirs EXCEPT ![place].files[f] = Torn]}
    /\ turn' = turn + 1
    /\ UNCHANGED <<Idle, place, phase>>

\* Mutant: an archive is written where it is.
WritePakInPlace ==
    /\ phase = "patch"
    /\ \E f \in ToSet(Paks) :
          /\ At(f) /\ Replaceable(Here.files[f])
          /\ dirs' = [dirs EXCEPT ![place].files[f] = Torn]
    /\ Goto("rename")
    /\ UNCHANGED <<Idle, place, turn, complete, undisturbed>>

\* apply_pak_patches: the whole archive goes to a file beside it.
WritePak ==
    /\ phase = "patch"
    /\ \E f \in ToSet(Paks) :
          /\ At(f) /\ Replaceable(Here.files[f])
          /\ dirs' = [dirs EXCEPT ![place].tmp = @ \cup {f}]
    /\ Goto("rename")
    /\ UNCHANGED <<Idle, place, turn, complete, undisturbed>>

\* Logos that are not found, or a file that cannot be read or written.
PakFails ==
    /\ phase \in {"patch", "rename"}
    /\ \E f \in ToSet(Paks) :
          /\ At(f)
          /\ undisturbed' = (undisturbed /\ phase = "patch" /\ ~Replaceable(Here.files[f]))
          /\ dirs' \in {dirs, [dirs EXCEPT ![place].tmp = @ \ {f}]}
    /\ complete' = FALSE /\ turn' = turn + 1 /\ Goto("patch")
    /\ UNCHANGED <<Idle, place>>

RenamePak ==
    /\ phase = "rename"
    /\ \E f \in ToSet(Paks) :
          At(f) /\ dirs' = [dirs EXCEPT ![place].files[f] = overlay, ![place].tmp = @ \ {f}]
    /\ turn' = turn + 1 /\ Goto("patch")
    /\ UNCHANGED <<Idle, place, complete, undisturbed>>

\* Mutant: the marker says what was tried.
MarkTried ==
    /\ phase = "patch" /\ turn > Len(Files)
    /\ dirs' = [dirs EXCEPT ![place].marker = Fingerprint(Here)]
    /\ Goto("result")
    /\ UNCHANGED <<Idle, place, turn, complete, undisturbed>>

\* The marker is for a pass that no file failed in; its own write may fail.
Mark ==
    /\ phase = "patch" /\ turn > Len(Files)
    /\ \/ complete /\ dirs' = [dirs EXCEPT ![place].marker = Fingerprint(Here)] /\ UNCHANGED <<complete, undisturbed>>
       \/ ~complete /\ UNCHANGED <<dirs, complete, undisturbed>>
       \/ /\ complete /\ complete' = FALSE /\ undisturbed' = FALSE
          /\ dirs' \in {dirs, [dirs EXCEPT ![place].marker = PartMarker]}
    /\ Goto("result")
    /\ UNCHANGED <<Idle, place, turn>>

\* Mutant: a stage is used like an install.
ResultAnyway ==
    /\ phase = "result"
    /\ Goto(IF place = "stage" THEN "readback" ELSE "idle")
    /\ UNCHANGED <<Idle, dirs, place, turn, complete, undisturbed>>

\* A stage without its overlay is refused, a launch goes on.
Result ==
    /\ phase = "result"
    /\ Goto(IF place = "stage" /\ complete THEN "readback" ELSE "idle")
    /\ UNCHANGED <<Idle, dirs, place, turn, complete, undisturbed>>

-----------------------------------------------------------------------------
(* What happens besides.                                                    *)

\* The launcher dies: Windows may be in the middle of a program's resources,
\* the launcher in that of its marker.
Die ==
    /\ phase # "idle" /\ Goto("idle")
    /\ \/ UNCHANGED dirs
       \/ /\ phase = "patch"
          /\ \E f \in ToSet(Targets) : At(f) /\ dirs' = [dirs EXCEPT ![place].files[f] = Torn]
       \/ phase = "patch" /\ turn > Len(Files) /\ complete /\ dirs' = [dirs EXCEPT ![place].marker = PartMarker]
    /\ UNCHANGED <<Idle, place, turn, complete, undisturbed>>

\* A newer launcher, with other icons and logos.
Ship ==
    /\ phase = "idle" /\ overlay < MaxOverlay
    /\ overlay' = overlay + 1
    /\ UNCHANGED <<dirs, place, phase, turn, complete, open, round, undisturbed>>

\* The browser itself, which needs no launcher to be started.
OpenOrClose ==
    /\ open' = ~open
    /\ undisturbed' = (undisturbed /\ phase \notin {"ensure", "patch", "rename"})
    /\ UNCHANGED <<dirs, overlay, place, phase, turn, complete, round>>

BrandingNext ==
    \/ Fetch \/ RemoveMarker \/ CheckStage \/ Readback \/ Promote
    \/ Launch
    \/ Begin \/ PatchTarget \/ WritePak \/ PakFails \/ RenamePak \/ Mark \/ Result
    \/ Die \/ Ship \/ OpenOrClose

-----------------------------------------------------------------------------

\* A marker that makes the launcher leave a directory alone is true: every
\* program and archive of it has this launcher's overlay, through deaths,
\* locked files and launchers that ship another one (is_pending,
\* ensure_branding).  A stage counts from where its own marker is gone to where
\* it is given up.
MarkerTellsOverlay ==
    \A p \in Places :
        dirs[p].marker = Fingerprint(dirs[p]) /\ (p = "stage" => place = p /\ phase \notin {"fetched", "idle"}) =>
            \A f \in Names : dirs[p].files[f] = overlay

\* What replaces the browser has the whole overlay in every file: a stage that
\* lacks a file, has changed one or cannot be given its overlay replaces
\* nothing (validate_chromium_stage).
PromotedWhole ==
    phase = "promote" => \A f \in Names : Here.files[f] = overlay

\* No archive is ever part of one ("leaves a corrupt PAK that never
\* self-heals", apply_pak_patches).
PaksWhole == \A p \in Places, f \in ToSet(Paks) : dirs[p].files[f] # Torn

\* A pass over an install that no browser runs from, and that nothing
\* disturbs, completes whatever became of the passes before it: "a partial
\* failure is retried on the next launch" (ensure_branding).
RetryCompletes ==
    phase = "result" /\ place = "install" /\ undisturbed => complete /\ Here.marker = Fingerprint(Here)
=============================================================================
