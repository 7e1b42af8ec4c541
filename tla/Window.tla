------------------------------- MODULE Window -------------------------------
(***************************************************************************)
(* The status window and the launch pipeline (core/src/ui/mod.rs, the       *)
(* pipeline thread and its helpers in core/src/lib.rs): two threads of one  *)
(* process that talk through one phase under a mutex, a condition variable  *)
(* that only the pipeline waits on, and repaint requests that only the      *)
(* window obeys.  What the phases of the pipeline do to the folder is in    *)
(* module Install; here they succeed or fail.                               *)
(***************************************************************************)
EXTENDS Integers

CONSTANTS Origins,    \* how the launcher is started: "direct", "link", "remind"
          MaxFaults   \* failures of the pipeline's phases

ASSUME WindowAssumption ==
    /\ Origins \subseteq {"direct", "link", "remind"}
    /\ MaxFaults \in Nat

VARIABLES
    origin,     \* direct start, link, or link with the reminder switched on
    installed,  \* is there a usable install
    phase,      \* WindowPhase: what is shown, or what was answered
    pc,         \* where the pipeline thread is
    asleep,     \* is it inside Condvar::wait
    owed,       \* has it changed the phase and not yet asked for a repaint
    fallback,   \* handle_error's has_fallback
    reminded,   \* pipeline_thread's reminded
    started,    \* browsers started
    repaint,    \* is a repaint of the window requested
    frame,      \* the phase of the frame in progress, or "none"
    window,     \* "open" or "closed"
    alive,      \* does the process still run
    asked,      \* "unseen", "seen" or "answered": the question now asked
    faults      \* failures so far

pipeline == <<pc, asleep, owed, fallback, reminded>>
painting == <<repaint, frame, window>>
world    == <<origin, installed, started, faults>>
vars == <<phase, pipeline, painting, world, alive, asked>>

Questions == {"maintenance", "prompt", "error", "errorAnyway"}
Answers   == {"continue", "update", "skip", "retry", "anyway"}

\* Where the pipeline waits, and what wakes it up for good.
Waits == {"refused", "reminding", "deciding", "failed"}
Accepted(at) ==
    CASE at = "reminding" -> {"continue", "done"}
      [] at = "deciding"  -> {"update", "skip", "done"}
      [] OTHER            -> {"retry", "anyway", "done"}

TypeOK ==
    /\ origin \in Origins /\ installed \in BOOLEAN
    /\ phase \in Questions \cup Answers \cup {"running", "done"}
    /\ pc \in Waits \cup {"restart", "acquire", "check", "download", "launch",
                          "spawn", "fallback", "started", "ended"}
    /\ asleep \in BOOLEAN /\ (asleep => pc \in Waits)
    /\ owed \in BOOLEAN /\ fallback \in BOOLEAN
    /\ reminded \in BOOLEAN /\ (reminded => origin = "remind")
    /\ started \in 0..1
    /\ repaint \in BOOLEAN /\ alive \in BOOLEAN
    /\ asked \in {"unseen", "seen", "answered"}
    /\ frame \in Questions \cup Answers \cup {"none", "running", "done"}
    /\ window \in {"open", "closed"}
    /\ faults \in 0..MaxFaults

Init ==
    /\ origin \in Origins
    /\ installed \in BOOLEAN /\ (origin # "direct" => installed)
    /\ phase = "running" /\ pc = "restart"
    /\ asleep = FALSE /\ owed = FALSE /\ fallback = FALSE /\ reminded = FALSE
    /\ started = 0
    /\ repaint = TRUE /\ frame = "none" /\ window = "open"
    /\ alive = TRUE /\ asked = "unseen" /\ faults = 0

-----------------------------------------------------------------------------
(* The pipeline thread.  It has every phase written and its repaint          *)
(* requested in two steps, between which the window may paint.              *)

Awake(at) == alive /\ pc = at /\ ~asleep /\ ~owed

Fault == faults < MaxFaults /\ faults' = faults + 1

Post(new) == phase' = new /\ owed' = TRUE /\ asked' = "unseen"

Quiet == UNCHANGED <<phase, owed, asked>>

Taken == asked' = "unseen" /\ UNCHANGED <<phase, owed>>

\* Mutant: the window is not told that there is something new.
RepaintForgotten ==
    /\ alive /\ owed
    /\ owed' = FALSE
    /\ UNCHANGED <<phase, pc, asleep, fallback, reminded, painting, world, alive, asked>>

RequestRepaint ==
    /\ alive /\ owed
    /\ owed' = FALSE /\ repaint' = TRUE
    /\ UNCHANGED <<phase, pc, asleep, fallback, reminded, frame, window, world, alive, asked>>

Restart ==
    /\ Awake("restart")
    /\ Post("running")
    /\ pc' = "acquire"
    /\ UNCHANGED <<asleep, fallback, reminded, painting, world, alive>>

\* The lock is taken, missed cleanup is replayed, and a link may be reminded
\* of an overdue update check: the question is put under the mutex, with its
\* repaint, and the wait for its answer begins before the mutex is free.
Acquire ==
    /\ Awake("acquire")
    /\ \/ /\ origin = "remind" /\ ~reminded
          /\ phase' = "maintenance" /\ asked' = "unseen"
          /\ asleep' = TRUE /\ repaint' = TRUE
          /\ pc' = "reminding"
          /\ UNCHANGED reminded
       \/ /\ pc' = "check"
          /\ reminded' = (reminded \/ origin = "remind")
          /\ UNCHANGED <<phase, asked, asleep, repaint>>
    /\ UNCHANGED <<owed, fallback, frame, window, world, alive>>

\* A busy folder: no fallback, that would touch somebody's transaction.
Refuse ==
    /\ Awake("acquire")
    /\ Fault
    /\ Post("error")
    /\ pc' = "refused"
    /\ UNCHANGED <<asleep, fallback, reminded, painting, origin, installed, started, alive>>

AfterRefusal ==
    /\ Awake("refused") /\ phase \in Accepted(pc)
    /\ pc' = IF phase = "retry" THEN "restart" ELSE "ended"
    /\ Taken
    /\ UNCHANGED <<asleep, fallback, reminded, painting, world, alive>>

AfterReminder ==
    /\ Awake("reminding") /\ phase \in Accepted(pc)
    /\ IF phase = "continue" THEN pc' = "check" /\ reminded' = TRUE
       ELSE pc' = "ended" /\ UNCHANGED reminded
    /\ Taken
    /\ UNCHANGED <<asleep, fallback, painting, world, alive>>

\* handle_error: the message and its buttons.
Fails(usable) ==
    /\ fallback' = usable
    /\ Post(IF usable THEN "errorAnyway" ELSE "error")
    /\ pc' = "failed"

\* update_check_phase; only a direct start may be offered an update.
Check ==
    /\ Awake("check")
    /\ \/ pc' = "launch" /\ Quiet /\ UNCHANGED <<fallback, faults>>
       \/ origin = "direct" /\ pc' = "download" /\ Quiet /\ UNCHANGED <<fallback, faults>>
       \/ /\ origin = "direct"
          /\ Post("prompt") /\ pc' = "deciding"
          /\ UNCHANGED <<fallback, faults>>
       \/ Fault /\ Fails(installed)
    /\ UNCHANGED <<asleep, reminded, painting, origin, installed, started, alive>>

AfterPrompt ==
    /\ Awake("deciding") /\ phase \in Accepted(pc)
    /\ CASE phase = "update" -> pc' = "download" /\ Taken
         [] phase # "update" /\ installed -> pc' = "launch" /\ Taken
         [] OTHER -> pc' = "ended" /\ Post("done")
    /\ UNCHANGED <<asleep, fallback, reminded, painting, world, alive>>

\* A failed transaction leaves the install as it was, or none.
Download ==
    /\ Awake("download")
    /\ \/ installed' = TRUE /\ pc' = "launch" /\ Quiet /\ UNCHANGED <<fallback, faults>>
       \/ Fault /\ installed' \in {installed, FALSE} /\ Fails(installed')
    /\ UNCHANGED <<asleep, reminded, painting, origin, started, alive>>

\* A failed preparation must not be bypassed by launching anyway.
Launch ==
    /\ Awake("launch")
    /\ \/ pc' = "spawn" /\ Quiet /\ UNCHANGED <<fallback, faults>>
       \/ Fault /\ Fails(FALSE)
    /\ UNCHANGED <<asleep, reminded, painting, origin, installed, started, alive>>

Spawn ==
    /\ Awake("spawn")
    /\ \/ /\ installed
          /\ started' = started + 1 /\ pc' = "started"
          /\ Quiet /\ UNCHANGED <<fallback, faults>>
       \/ /\ Fault \/ (~installed /\ UNCHANGED faults)
          /\ Fails(installed) /\ UNCHANGED started
    /\ UNCHANGED <<asleep, reminded, painting, origin, installed, alive>>

AfterError ==
    /\ Awake("failed") /\ phase \in Accepted(pc)
    /\ CASE phase = "retry" -> pc' = "restart" /\ Taken
         [] phase = "anyway" /\ fallback -> pc' = "fallback" /\ Taken
         [] phase = "anyway" /\ ~fallback -> Post("error") /\ UNCHANGED pc
         [] OTHER -> pc' = "ended" /\ Taken
    /\ UNCHANGED <<asleep, fallback, reminded, painting, world, alive>>

\* Launch anyway: prepare, arm and spawn; what fails now has no fallback.
Fallback ==
    /\ Awake("fallback")
    /\ \/ /\ started' = started + 1 /\ pc' = "started"
          /\ Quiet /\ UNCHANGED <<fallback, faults>>
       \/ Fault /\ Fails(FALSE) /\ UNCHANGED started
    /\ UNCHANGED <<asleep, reminded, painting, origin, installed, alive>>

\* The watcher is spawned and success is signalled.
SignalDone ==
    /\ Awake("started")
    /\ Post("done")
    /\ pc' = "ended"
    /\ UNCHANGED <<asleep, fallback, reminded, painting, world, alive>>

\* wait_for_decision, wait_for_pipeline_action, confirm_protocol_maintenance:
\* the phase is looked at and the thread put to sleep under one mutex.
Sleep ==
    /\ pc \in Waits /\ Awake(pc) /\ phase \notin Accepted(pc)
    /\ asleep' = TRUE
    /\ UNCHANGED <<phase, pc, owed, fallback, reminded, painting, world, alive, asked>>

-----------------------------------------------------------------------------
(* The window thread: a frame takes a snapshot of the phase, draws it       *)
(* without the mutex, and at most one of its buttons is clicked.            *)

Showing == alive /\ window = "open"

Paint ==
    /\ Showing /\ frame = "none" /\ repaint
    /\ frame' = phase /\ repaint' = FALSE
    /\ asked' = IF asked = "unseen" THEN "seen" ELSE asked
    /\ UNCHANGED <<phase, pipeline, window, world, alive>>

\* Mutant: Launch anyway is drawn whether or not there is a fallback.
ButtonsAlways(shown) ==
    CASE shown = "maintenance"              -> {"continue", "done"}
      [] shown = "prompt"                   -> {"update", "skip"}
      [] shown \in {"error", "errorAnyway"} -> {"retry", "anyway"}
      [] OTHER                              -> {}

Buttons(shown) ==
    CASE shown = "maintenance" -> {"continue", "done"}
      [] shown = "prompt"      -> {"update", "skip"}
      [] shown = "error"       -> {"retry"}
      [] shown = "errorAnyway" -> {"retry", "anyway"}
      [] OTHER                 -> {}

\* Mutant: the phase is set and the condition variable not notified.
ClickUnnotified ==
    /\ Showing
    /\ \E b \in Buttons(frame) : phase' = b
    /\ asked' = IF phase = frame THEN "answered" ELSE "unseen"
    /\ repaint' = TRUE /\ frame' = "none"
    /\ UNCHANGED <<pc, asleep, owed, fallback, reminded, window, world, alive>>

\* signal_phase: the answer replaces whatever the phase is, the pipeline is
\* woken, and the window system paints again after the input.
Click ==
    /\ Showing
    /\ \E b \in Buttons(frame) : phase' = b
    /\ asked' = IF phase = frame THEN "answered" ELSE "unseen"
    /\ asleep' = FALSE
    /\ repaint' = TRUE /\ frame' = "none"
    /\ UNCHANGED <<pc, owed, fallback, reminded, window, world, alive>>

\* Mutant: a request that comes while the frame is drawn goes with it.
EndFrameForgets ==
    /\ Showing /\ frame # "none"
    /\ window' = IF frame = "done" THEN "closed" ELSE window
    /\ frame' = "none" /\ repaint' = FALSE
    /\ UNCHANGED <<phase, pipeline, world, alive, asked>>

EndFrame ==
    /\ Showing /\ frame # "none"
    /\ window' = IF frame = "done" THEN "closed" ELSE window
    /\ frame' = "none"
    /\ UNCHANGED <<phase, pipeline, repaint, world, alive, asked>>

\* Mutant: closing tells the pipeline that it is done.
CloseSignalled ==
    /\ Showing /\ (frame = "none" \/ frame \in {"error", "errorAnyway"})
    /\ window' = "closed" /\ frame' = "none"
    /\ phase' = "done" /\ asleep' = FALSE
    /\ UNCHANGED <<pc, owed, fallback, reminded, repaint, world, alive, asked>>

\* The Close button of an error, or the title bar at any time: the window
\* goes, and nothing is said to the pipeline.
Close ==
    /\ Showing /\ (frame = "none" \/ frame \in {"error", "errorAnyway"})
    /\ window' = "closed" /\ frame' = "none"
    /\ UNCHANGED <<phase, pipeline, repaint, world, alive, asked>>

\* The mouse, or another window, has the window painted.
Nudge ==
    /\ Showing /\ ~repaint
    /\ repaint' = TRUE
    /\ UNCHANGED <<phase, pipeline, frame, window, world, alive, asked>>

\* A closed window lets main return, which ends the pipeline wherever it is.
Exit ==
    /\ alive /\ window = "closed"
    /\ alive' = FALSE
    /\ UNCHANGED <<phase, pipeline, painting, world, asked>>

-----------------------------------------------------------------------------

PipelineStep ==
    \/ RequestRepaint \/ Restart \/ Acquire \/ Refuse \/ AfterRefusal
    \/ AfterReminder \/ Check \/ AfterPrompt \/ Download \/ Launch \/ Spawn
    \/ AfterError \/ Fallback \/ SignalDone \/ Sleep

WindowStep == Paint \/ EndFrame

Next ==
    \/ PipelineStep
    \/ WindowStep
    \/ Click \/ Close \/ Nudge
    \/ Exit

Spec == Init /\ [][Next]_vars

-----------------------------------------------------------------------------
(* Properties                                                               *)

\* A window is never left open over a pipeline that has ended: whichever way
\* it ended, the window has been told that it is done and has a frame to come
\* in which it notices.
NeverStranded ==
    pc = "ended" /\ ~owed /\ window = "open"
    => phase = "done" /\ (repaint \/ frame = "done")

\* The pipeline goes on from a question only with an answer that was clicked
\* in a frame showing that very question: one phase serves for questions and
\* answers, no older answer is ever taken for a new question, and a window
\* closed over a question has not answered it: nothing is downloaded, and no
\* browser started, in the time the process has left.
Consent ==
    [][(pc \in Waits /\ pc' # pc) => asked = "answered"]_vars

\* Two threads that run, and a window system that paints what it is asked to.
FairSpec == Spec /\ WF_vars(PipelineStep) /\ WF_vars(WindowStep)

\* Every question the pipeline waits on is put on the screen, without a nudge
\* from the user: no phase change loses its repaint to a frame in progress.
Shown ==
    (pc \in Waits) ~> (asked # "unseen" \/ window = "closed")

\* An answered question is left: the click wakes the pipeline, or comes before
\* it looked at the phase and went to sleep.
Resumes ==
    (pc \in Waits /\ asked = "answered")
        ~> (pc \notin Waits \/ asked # "answered" \/ window = "closed")

\* No question is lost: it is shown, and left when it is answered.
Answered == Shown /\ Resumes

\* "Auto-close: once the browser process is spawned ... the window closes
\* itself automatically.  No user interaction is required."
Closes == (started = 1) ~> (window = "closed")
=============================================================================
