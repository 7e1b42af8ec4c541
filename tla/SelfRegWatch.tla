---------------------------- MODULE SelfRegWatch ----------------------------
(***************************************************************************)
(* Repair of self-registrations while the browser runs                      *)
(* (core/src/selfreg_watch.rs, and the watcher of core/src/lib.rs that      *)
(* starts and stops it).  A thread is told by Windows that something below  *)
(* Software\Classes changed, waits until it is quiet and sweeps; the        *)
(* watcher stops it when the browser has gone, and sweeps once more.  What  *)
(* a sweep does to one command is module RegistryRepair's.                  *)
(***************************************************************************)
EXTENDS Naturals, FiniteSets

CONSTANT Keys   \* open commands a browser writes when it makes itself the default

VARIABLES
    commands,  \* whom each command runs
    notice,    \* the notification: asked for, given and not yet taken, or neither
    thread,    \* where the thread is, keys its sweep has still to look at, a failure seen
    session,   \* where the watcher that started it is
    alive,     \* a process of the browser tree is there
    stop,      \* the flag the watcher sets
    waits,     \* history: waits begun since it was set
    covered,   \* history: keys the browser wrote while the thread was watching
    spared     \* history: keys whose repair failed since they were written

watchVars == <<commands, notice, thread, session, alive, stop, waits, covered, spared>>

WatchInit ==
    /\ commands = [k \in Keys |-> "launcher"]
    /\ notice = "none"
    /\ thread = [at |-> "claim", todo |-> {}, failed |-> FALSE]
    /\ session = [at |-> "browsing", todo |-> {}]
    /\ alive = TRUE /\ stop = FALSE
    /\ waits = 0
    /\ covered = {} /\ spared = {}

-----------------------------------------------------------------------------
(* Windows: one change is enough for a notification, which is given once.   *)

Changed == IF notice = "armed" THEN "given" ELSE notice

Go(label) == [thread EXCEPT !.at = label]

\* claim: one thread of the machine watches for an install; another session's
\* leaves it all to the sweep after it.
Claim ==
    /\ thread.at = "claim"
    /\ thread' \in {Go("open"), Go("ended")}
    /\ UNCHANGED <<commands, notice, session, alive, stop, waits, covered, spared>>

\* RegistryChangeSource::open: the thread begins to watch, or a call fails.
OpenWatch ==
    /\ thread.at = "open"
    /\ \/ thread' = Go("check") /\ notice' = "armed"
       \/ thread' = Go("ended") /\ UNCHANGED notice
    /\ UNCHANGED <<commands, session, alive, stop, waits, covered, spared>>

Wait(label) ==
    /\ thread' = Go(label)
    /\ waits' = IF stop /\ waits < 3 THEN waits + 1 ELSE waits

\* run_repair_loop: the flag is looked at before each wait for a first change.
Check ==
    /\ thread.at = "check"
    /\ IF stop THEN thread' = Go("ended") /\ notice' = "none" /\ UNCHANGED waits
       ELSE Wait("poll") /\ UNCHANGED notice
    /\ UNCHANGED <<commands, session, alive, stop, covered, spared>>

\* No change within the time allowed.
TimedOut ==
    /\ \/ thread.at = "poll" /\ thread' = Go("check")
       \/ thread.at = "drain" /\ thread' = [Go("sweep") EXCEPT !.todo = Keys]
    /\ UNCHANGED <<commands, notice, session, alive, stop, waits, covered, spared>>

\* RegistryChangeSource::wait: the notification is taken, and the next one is
\* asked for at once, before anything is done about this one.
Notified ==
    /\ thread.at \in {"poll", "drain"} /\ notice = "given"
    /\ notice' = "none"
    /\ thread' = Go(IF thread.at = "poll" THEN "arm first" ELSE "arm next")
    /\ UNCHANGED <<commands, session, alive, stop, waits, covered, spared>>

Sweep(failed) == [at |-> "sweep", todo |-> Keys, failed |-> failed]

\* Mutant: a burst is drained to its end, however long it is.
AnotherAlways ==
    /\ thread.at = "arm next"
    /\ notice' = "armed"
    /\ Wait("drain")

\* In a burst the flag decides whether to wait for its next change.
Another ==
    /\ thread.at = "arm next"
    /\ notice' = "armed"
    /\ IF stop THEN thread' = Sweep(FALSE) /\ UNCHANGED waits ELSE Wait("drain")

First ==
    /\ thread.at = "arm first"
    /\ notice' = "armed"
    /\ Wait("drain")

\* No further notification is to be had: what was seen is still repaired, if
\* a burst had begun.
Fails ==
    /\ thread.at \in {"arm first", "arm next"}
    /\ thread' = IF thread.at = "arm first" THEN Go("ended") ELSE Sweep(TRUE)
    /\ UNCHANGED <<notice, waits>>

Arm == (First \/ Another \/ Fails) /\ UNCHANGED <<commands, session, alive, stop, covered, spared>>

\* repair_self_registration: a browser's own command is rerouted, which is a
\* change like any other, or its repair fails and it stays.
Repair(k) ==
    \/ /\ commands[k] = "browser"
       /\ commands' = [commands EXCEPT ![k] = "launcher"]
       /\ notice' = Changed
       /\ UNCHANGED spared
    \/ /\ commands[k] = "browser"
       /\ spared' = spared \cup {k}
       /\ UNCHANGED <<commands, notice>>
    \/ commands[k] = "launcher" /\ UNCHANGED <<commands, notice, spared>>

LiveSweep(k) ==
    /\ thread.at = "sweep" /\ k \in thread.todo
    /\ Repair(k)
    /\ thread' = [thread EXCEPT !.todo = @ \ {k}]
    /\ UNCHANGED <<session, alive, stop, waits, covered>>

\* Mutant: the changes the sweep itself made are waited for and dropped.
SweepEndsQuiet ==
    /\ thread.at = "sweep" /\ thread.todo = {}
    /\ thread' = Go(IF thread.failed THEN "ended" ELSE "check")
    /\ notice' = IF thread.failed THEN "none" ELSE "armed"
    /\ UNCHANGED <<commands, session, alive, stop, waits, covered, spared>>

SweepEnds ==
    /\ thread.at = "sweep" /\ thread.todo = {}
    /\ thread' = Go(IF thread.failed THEN "ended" ELSE "check")
    /\ notice' = IF thread.failed THEN "none" ELSE notice
    /\ UNCHANGED <<commands, session, alive, stop, waits, covered, spared>>

-----------------------------------------------------------------------------
(* The watcher.                                                             *)

\* wait_for_pid, wait_for_browser_tree_exit, LiveRepair::stop: the browser
\* tree has gone, or did not go in time.
StopThread ==
    /\ session.at = "browsing"
    /\ stop' = TRUE
    /\ session' = [session EXCEPT !.at = "join"]
    /\ UNCHANGED <<commands, notice, thread, alive, waits, covered, spared>>

\* Mutant: the browser is not looked for again.
GoneAssumed == TRUE

\* cleanup_process::probe, under the install lock: Idle.
Gone == ~alive

\* handle_cleanup_flag: the thread has ended; the sweep follows if nothing of
\* the browser is left, and nothing can start one.
Join ==
    /\ session.at = "join" /\ thread.at = "ended"
    /\ session' = IF Gone THEN [at |-> "sweep", todo |-> Keys] ELSE [at |-> "refused", todo |-> {}]
    /\ UNCHANGED <<commands, notice, thread, alive, stop, waits, covered, spared>>

\* repair_registration_after_exit.
LastSweep(k) ==
    /\ session.at = "sweep" /\ k \in session.todo
    /\ Repair(k)
    /\ session' = [at |-> IF session.todo = {k} THEN "done" ELSE "sweep", todo |-> session.todo \ {k}]
    /\ UNCHANGED <<thread, alive, stop, waits, covered>>

-----------------------------------------------------------------------------
(* The browser and other programs.                                          *)

MakeDefault(k) ==
    /\ alive
    /\ commands' = [commands EXCEPT ![k] = "browser"]
    /\ notice' = Changed
    /\ covered' = IF thread.at \in {"claim", "open", "ended"} THEN covered \ {k} ELSE covered \cup {k}
    /\ spared' = spared \ {k}
    /\ UNCHANGED <<thread, session, alive, stop, waits>>

OtherChange ==
    /\ notice' = Changed
    /\ UNCHANGED <<commands, thread, session, alive, stop, waits, covered, spared>>

Exit ==
    /\ alive' = FALSE
    /\ UNCHANGED <<commands, notice, thread, session, stop, waits, covered, spared>>

ThreadStep == Claim \/ OpenWatch \/ Check \/ TimedOut \/ Notified \/ Arm \/ (\E k \in Keys : LiveSweep(k)) \/ SweepEnds
WatcherStep == StopThread \/ Join \/ \E k \in Keys : LastSweep(k)
Elsewhere == (\E k \in Keys : MakeDefault(k)) \/ OtherChange \/ Exit

WatchNext ==
    \/ ThreadStep
    \/ WatcherStep
    \/ Elsewhere

-----------------------------------------------------------------------------

\* While the thread waits and nothing wakes it, every command the browser
\* wrote since it began to watch has been seen to: a change that comes during
\* a sweep, or between a notification and the request for the next, is not
\* lost (run_repair_loop).
NoneMissed ==
    thread.at \in {"check", "poll"} /\ notice = "armed" =>
        \A k \in covered : commands[k] = "browser" => k \in spared

\* Once told to stop the thread ends the wait it is in and begins one more at
\* most, however busy the registry is: the watcher gets on with its work
\* within about one poll (LiveRepair::stop).
StopsSoon == waits <= 1

\* A session that ended with its last sweep left no link to go past the
\* launcher, other than what could not be repaired (handle_cleanup_flag).
NoneLeft ==
    session.at = "done" => \A k \in Keys : commands[k] = "browser" => k \in spared
=============================================================================
