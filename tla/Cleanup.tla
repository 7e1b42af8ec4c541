------------------------------ MODULE Cleanup ------------------------------
(***************************************************************************)
(* Post-exit cleanup of host traces and its recovery journal, for one      *)
(* portable folder (core/src/cleanup.rs, core/src/cleanup_recovery.rs,     *)
(* core/src/cleanup_process.rs and the watcher of core/src/lib.rs).        *)
(*                                                                         *)
(* Launchers record the intent to clean before they start a browser, and   *)
(* leave a detached watcher behind each browser.  Launchers and watchers   *)
(* meet at two files locked without waiting: install.lock and              *)
(* cleanup.lock.  The folder is portable: it can be pulled out at any      *)
(* moment and plugged into another computer, where records made for this   *)
(* one cannot be opened.                                                   *)
(***************************************************************************)
EXTENDS Integers, FiniteSets

CONSTANTS Launchers,    \* launcher processes
          Hosts,        \* computer-and-user contexts the folder meets
          NoOne,        \* no process: a lock that is free
          Recovering,   \* values of hardening.recover_missed_cleanup in use
          MaxRecords,   \* record budget of the journal (32 in the code)
          MaxSessions,  \* how many browsers are started
          MaxFaults     \* how many failures, deaths and moves may happen

Sessions == 1..MaxSessions

ASSUME CleanupAssumption ==
    /\ NoOne \notin Launchers \cup Sessions
    /\ Launchers \cap Sessions = {}
    /\ Recovering \subseteq BOOLEAN
    /\ MaxRecords \in Nat /\ MaxSessions \in Nat /\ MaxFaults \in Nat

VARIABLES
    host,         \* where the folder is plugged in
    installLock,  \* the process whose handle holds Nomad/install.lock
    cleanupLock,  \* the process whose handle holds Nomad/cleanup.lock
    pc,           \* where each launcher is
    recover,      \* its hardening.recover_missed_cleanup
    anyway,       \* launchers told to launch the existing install anyway
    started,      \* how many browsers have been started
    watcher,      \* where the watcher of each session is
    running,      \* sessions whose browser tree is alive
    traces,       \* attributed host traces: where, and of which session
    husks,        \* hosts with a report directory that lost its Report.wer only
    pending,      \* contexts with a readable record in Nomad/cleanup-pending
    torn,         \* records cut short by the death of their writer
    armed,        \* sessions started with a record in place
    told,         \* sessions whose watcher was told to retire the records
    faults        \* failures, deaths and moves so far

launching == <<installLock, cleanupLock, pc, recover, anyway>>
browsing  == <<host, started, running, armed, told>>
journal   == <<pending, torn>>
leftovers == <<traces, husks>>
vars == <<launching, browsing, journal, watcher, leftovers, faults>>

-----------------------------------------------------------------------------

Replaying == {"probe", "clean", "retire"}
Attempt   == Replaying \cup {"replay", "prepare", "arm", "spawn", "watch", "error", "refused"}
Finishing == {"probe", "clean", "retire"}

TypeOK ==
    /\ host \in Hosts
    /\ installLock \in Launchers \cup Sessions \cup {NoOne}
    /\ cleanupLock \in Launchers \cup Sessions \cup {NoOne}
    /\ pc \in [Launchers -> Attempt \cup {"off"}]
    /\ recover \in [Launchers -> BOOLEAN]
    /\ anyway \subseteq Launchers
    /\ started \in 0..MaxSessions
    /\ watcher \in [Sessions -> Finishing \cup {"none", "start", "wait", "lock"}]
    /\ running \subseteq Sessions
    /\ traces \subseteq [at : Hosts, of : Sessions] /\ husks \subseteq Hosts
    /\ pending \subseteq Hosts
    /\ torn \in 0..MaxRecords
    /\ armed \subseteq Sessions /\ told \subseteq Sessions
    /\ faults \in 0..MaxFaults

Init ==
    /\ host \in Hosts
    /\ installLock = NoOne /\ cleanupLock = NoOne
    /\ pc = [p \in Launchers |-> "off"]
    /\ recover = [p \in Launchers |-> FALSE]
    /\ anyway = {}
    /\ started = 0
    /\ watcher = [s \in Sessions |-> "none"]
    /\ running = {} /\ traces = {} /\ husks = {}
    /\ pending = {} /\ torn = 0
    /\ armed = {} /\ told = {}
    /\ faults = 0

Fault == faults < MaxFaults /\ faults' = faults + 1

Freed(lock, owner) == IF lock = owner THEN NoOne ELSE lock

Here == {t \in traces : t.at = host}

Full == Cardinality(pending) + torn >= MaxRecords

Goto(p, label) == pc' = [pc EXCEPT ![p] = label]

-----------------------------------------------------------------------------
(* A launch attempt.  Checking for updates, installing and preparing are    *)
(* module Install's; here they are the step Prepare, which may fail: before *)
(* the required settings the existing install can be offered, in them not.  *)

Begin(p) ==
    /\ pc[p] = "off"
    /\ installLock = NoOne
    /\ installLock' = p
    /\ \E on \in Recovering :
          /\ recover' = [recover EXCEPT ![p] = on]
          /\ Goto(p, IF on THEN "replay" ELSE "prepare")
    /\ anyway' = anyway \ {p}
    /\ UNCHANGED <<cleanupLock, browsing, journal, watcher, leftovers, faults>>

\* Mutant: pending records are not looked for at start-up.
ReplayNothing(p) ==
    /\ pc[p] = "replay"
    /\ Goto(p, "prepare")
    /\ UNCHANGED <<installLock, cleanupLock, recover, anyway, browsing, journal, watcher, leftovers, faults>>

\* cleanup_recovery::recover: the record of this context, if there is one,
\* and if no watcher coordinates; records of other contexts do not open.
Replay(p) ==
    /\ pc[p] = "replay"
    /\ \/ /\ host \in pending /\ cleanupLock = NoOne
          /\ cleanupLock' = p
          /\ Goto(p, "probe")
          /\ UNCHANGED faults
       \/ /\ ((host \notin pending \/ cleanupLock # NoOne) /\ UNCHANGED faults) \/ Fault
          /\ Goto(p, "prepare")
          /\ UNCHANGED cleanupLock
    /\ UNCHANGED <<installLock, recover, anyway, browsing, journal, watcher, leftovers>>

\* The end of replay_with for a record: the coordinator is dropped.
Replayed(p) ==
    /\ Goto(p, "prepare")
    /\ cleanupLock' = Freed(cleanupLock, p)

\* Mutant: an unknown presence counts as idle.
ProbeBlind(p) ==
    /\ pc[p] = "probe"
    /\ Goto(p, "clean")
    /\ UNCHANGED <<installLock, cleanupLock, recover, anyway, browsing, journal, watcher, leftovers, faults>>

\* A failed or ambiguous enumeration is no proof that the browser is gone.
Probe(p) ==
    /\ pc[p] = "probe"
    /\ \/ running = {} /\ Goto(p, "clean") /\ UNCHANGED <<cleanupLock, faults>>
       \/ running # {} /\ Replayed(p) /\ UNCHANGED faults
       \/ Fault /\ Replayed(p)
    /\ UNCHANGED <<installLock, recover, anyway, browsing, journal, watcher, leftovers>>

\* scrub_host_traces: all attributed traces, and completed.
ScrubAll == host \notin husks /\ traces' = traces \ Here /\ UNCHANGED husks

\* A report directory without Report.wer makes every scan incomplete, whatever
\* else the scan removes; it names no browser, so no scan removes it.
ScrubRest == host \in husks /\ traces' = traces \ Here /\ UNCHANGED husks

\* A part of it, by a failure or by the end of the process: between the removal
\* of Report.wer and that of its directory, the directory stays.
ScrubSome ==
    /\ \E kept \in SUBSET Here : traces' = (traces \ Here) \cup kept
    /\ husks' \in IF Here = {} THEN {husks} ELSE {husks, husks \cup {host}}

\* What the end of processes does that may have been scrubbing.
CutShort(scrubbing) == (scrubbing /\ ScrubSome) \/ UNCHANGED leftovers

Clean(p) ==
    /\ pc[p] = "clean"
    /\ \/ ScrubAll /\ Goto(p, "retire") /\ UNCHANGED <<cleanupLock, faults>>
       \/ ScrubRest /\ Replayed(p) /\ UNCHANGED faults
       \/ Fault /\ ScrubSome /\ Replayed(p)
    /\ UNCHANGED <<installLock, recover, anyway, browsing, journal, watcher>>

Retire(p) ==
    /\ pc[p] = "retire"
    /\ \/ pending' = pending \ {host} /\ UNCHANGED faults
       \/ Fault /\ UNCHANGED pending
    /\ Replayed(p)
    /\ UNCHANGED <<installLock, recover, anyway, browsing, torn, watcher, leftovers>>

Prepare(p) ==
    /\ pc[p] = "prepare"
    /\ \/ Goto(p, "arm") /\ UNCHANGED faults
       \/ Fault /\ p \notin anyway /\ Goto(p, "error")
       \/ Fault /\ Goto(p, "refused")
    /\ UNCHANGED <<installLock, cleanupLock, recover, anyway, browsing, journal, watcher, leftovers>>

\* Mutant: the journal's budget is not looked at.
ArmUnbounded(p) ==
    /\ pc[p] = "arm"
    /\ pending' = IF recover[p] THEN pending \cup {host} ELSE pending
    /\ Goto(p, "spawn")
    /\ UNCHANGED <<installLock, cleanupLock, recover, anyway, browsing, torn, watcher, leftovers, faults>>

\* Mutant: the record is begun before the listing is counted.
TearUncounted(p) ==
    /\ pc[p] = "arm" /\ recover[p] /\ host \notin pending
    /\ torn' = torn + 1

\* A record that this launcher was writing is cut short and stays.
Tear(p) ==
    /\ pc[p] = "arm" /\ recover[p] /\ host \notin pending /\ ~Full
    /\ torn' = torn + 1

\* Best effort: a launch whose record cannot be written goes on without one.
Arm(p) ==
    /\ pc[p] = "arm"
    /\ \/ pending' = (IF recover[p] /\ ~Full THEN pending \cup {host} ELSE pending)
          /\ UNCHANGED faults
          /\ UNCHANGED torn
       \/ recover[p] /\ Fault /\ UNCHANGED pending /\ (Tear(p) \/ UNCHANGED torn)
    /\ Goto(p, "spawn")
    /\ UNCHANGED <<installLock, cleanupLock, recover, anyway, browsing, watcher, leftovers>>

\* A browser that is already running takes over the request of a new one.
Spawn(p) ==
    /\ pc[p] = "spawn"
    /\ \/ /\ started < MaxSessions
          /\ started' = started + 1
          /\ armed' = IF recover[p] /\ host \in pending THEN armed \cup {started'} ELSE armed
          /\ told' = IF recover[p] THEN told \cup {started'} ELSE told
          /\ running' = IF running = {} THEN {started'} ELSE running
          /\ Goto(p, "watch")
          /\ UNCHANGED faults
       \/ /\ (started = MaxSessions /\ UNCHANGED faults) \/ Fault
          /\ Goto(p, IF p \in anyway THEN "refused" ELSE "error")
          /\ UNCHANGED <<started, armed, told, running>>
    /\ UNCHANGED <<installLock, cleanupLock, recover, anyway, host, journal, watcher, leftovers>>

\* spawn_cleanup_watcher; the lock is given back when the thread is done.
SpawnWatcher(p) ==
    /\ pc[p] = "watch"
    /\ \/ watcher' = [watcher EXCEPT ![started] = "start"] /\ UNCHANGED faults
       \/ Fault /\ UNCHANGED watcher
    /\ Goto(p, "off")
    /\ installLock' = NoOne
    /\ UNCHANGED <<cleanupLock, recover, anyway, browsing, journal, leftovers>>

\* The error screen: Retry and Close drop the lock, Launch anyway prepares
\* and arms again.  It is offered once: never after required settings failed
\* and never after the browser it started failed as well.
Answer(p) ==
    /\ \/ /\ pc[p] \in {"error", "refused"}
          /\ Goto(p, "off") /\ installLock' = NoOne
          /\ UNCHANGED anyway
       \/ /\ pc[p] = "error"
          /\ anyway' = anyway \cup {p}
          /\ Goto(p, "prepare")
          /\ UNCHANGED installLock
    /\ UNCHANGED <<cleanupLock, recover, browsing, journal, watcher, leftovers, faults>>

\* The launcher ends anywhere, while it writes its record or scrubs as well.
Die(p) ==
    /\ pc[p] # "off"
    /\ Fault
    /\ Tear(p) \/ UNCHANGED torn
    /\ Goto(p, "off")
    /\ installLock' = Freed(installLock, p)
    /\ cleanupLock' = Freed(cleanupLock, p)
    /\ CutShort(pc[p] = "clean")
    /\ UNCHANGED <<recover, anyway, browsing, pending, watcher>>

-----------------------------------------------------------------------------
(* The watcher of a session: handle_cleanup_flag.                           *)

Leave(s) ==
    /\ watcher' = [watcher EXCEPT ![s] = "none"]
    /\ installLock' = Freed(installLock, s)
    /\ cleanupLock' = Freed(cleanupLock, s)

\* One coordinator for the folder; a duplicate ends at once.
Coordinate(s) ==
    /\ watcher[s] = "start"
    /\ \/ /\ cleanupLock = NoOne
          /\ cleanupLock' = s
          /\ watcher' = [watcher EXCEPT ![s] = "wait"]
          /\ UNCHANGED <<installLock, faults>>
       \/ cleanupLock # NoOne /\ Leave(s) /\ UNCHANGED faults
       \/ Fault /\ Leave(s)
    /\ UNCHANGED <<pc, recover, anyway, browsing, journal, leftovers>>

\* wait_for_pid and wait_for_browser_tree_exit; an enumeration that fails
\* finds no process to wait for.
Wait(s) ==
    /\ watcher[s] = "wait"
    /\ (running = {} /\ UNCHANGED faults) \/ Fault
    /\ watcher' = [watcher EXCEPT ![s] = "lock"]
    /\ UNCHANGED <<launching, browsing, journal, leftovers>>

\* Mutant: the watcher cleans without the install lock.
TakeNoInstallLock(s) ==
    /\ watcher[s] = "lock"
    /\ watcher' = [watcher EXCEPT ![s] = "probe"]
    /\ UNCHANGED <<launching, browsing, journal, leftovers, faults>>

TakeInstallLock(s) ==
    /\ watcher[s] = "lock"
    /\ \/ /\ installLock = NoOne
          /\ installLock' = s
          /\ watcher' = [watcher EXCEPT ![s] = "probe"]
          /\ UNCHANGED <<cleanupLock, faults>>
       \/ installLock # NoOne /\ Leave(s) /\ UNCHANGED faults
       \/ Fault /\ Leave(s)
    /\ UNCHANGED <<pc, recover, anyway, browsing, journal, leftovers>>

FinalProbe(s) ==
    /\ watcher[s] = "probe"
    /\ \/ /\ running = {}
          /\ watcher' = [watcher EXCEPT ![s] = "clean"]
          /\ UNCHANGED <<installLock, cleanupLock, faults>>
       \/ running # {} /\ Leave(s) /\ UNCHANGED faults
       \/ Fault /\ Leave(s)
    /\ UNCHANGED <<pc, recover, anyway, browsing, journal, leftovers>>

\* Mutant: the result of scrub_host_traces is not looked at.
ScrubAndRetire(s) ==
    /\ watcher[s] = "clean"
    /\ ((ScrubAll \/ ScrubRest) /\ UNCHANGED faults) \/ (Fault /\ ScrubSome)
    /\ watcher' = [watcher EXCEPT ![s] = "retire"]
    /\ UNCHANGED <<launching, browsing, journal>>

\* The records are left alone when the launch had recovery turned off, which
\* the watcher was told on its command line.
Scrub(s) ==
    /\ watcher[s] = "clean"
    /\ \/ /\ ScrubAll /\ s \in told
          /\ watcher' = [watcher EXCEPT ![s] = "retire"]
          /\ UNCHANGED <<installLock, cleanupLock, faults>>
       \/ (ScrubRest \/ (ScrubAll /\ s \notin told)) /\ Leave(s) /\ UNCHANGED faults
       \/ Fault /\ ScrubSome /\ Leave(s)
    /\ UNCHANGED <<pc, recover, anyway, browsing, journal>>

\* cleanup_recovery::complete
Complete(s) ==
    /\ watcher[s] = "retire"
    /\ \/ pending' = pending \ {host} /\ UNCHANGED faults
       \/ Fault /\ UNCHANGED pending
    /\ Leave(s)
    /\ UNCHANGED <<pc, recover, anyway, browsing, torn, leftovers>>

WatcherDies(s) ==
    /\ watcher[s] # "none"
    /\ Fault
    /\ Leave(s)
    /\ CutShort(watcher[s] = "clean")
    /\ UNCHANGED <<pc, recover, anyway, browsing, journal>>

-----------------------------------------------------------------------------
(* The browsers, and the user with the drive in hand.                       *)

\* The system files a Recent shortcut or an error report for the browser.
LeaveTrace ==
    /\ \E s \in running : traces' = traces \cup {[at |-> host, of |-> s]}
    /\ UNCHANGED <<launching, browsing, journal, watcher, husks, faults>>

Exit(s) ==
    /\ s \in running
    /\ running' = running \ {s}
    /\ UNCHANGED <<launching, host, started, armed, told, journal, watcher, leftovers, faults>>

\* The folder is pulled out of one computer and plugged into another, or the
\* computer restarts: every process and every lock is gone.
Replug ==
    /\ Fault
    /\ host' \in Hosts
    /\ installLock' = NoOne /\ cleanupLock' = NoOne
    /\ (\E p \in Launchers : Tear(p)) \/ UNCHANGED torn
    /\ pc' = [p \in Launchers |-> "off"]
    /\ watcher' = [s \in Sessions |-> "none"]
    /\ running' = {}
    /\ CutShort((\E p \in Launchers : pc[p] = "clean") \/ (\E s \in Sessions : watcher[s] = "clean"))
    /\ UNCHANGED <<recover, anyway, started, armed, told, pending>>

-----------------------------------------------------------------------------

LauncherStep(p) ==
    \/ Replay(p) \/ Probe(p) \/ Clean(p) \/ Retire(p)
    \/ Prepare(p) \/ Arm(p) \/ Spawn(p) \/ SpawnWatcher(p) \/ Answer(p)

WatcherStep(s) ==
    \/ Coordinate(s) \/ Wait(s) \/ TakeInstallLock(s)
    \/ FinalProbe(s) \/ Scrub(s) \/ Complete(s)

Next ==
    \/ \E p \in Launchers : Begin(p) \/ LauncherStep(p) \/ Die(p)
    \/ \E s \in Sessions : WatcherStep(s) \/ WatcherDies(s) \/ Exit(s)
    \/ LeaveTrace
    \/ Replug

Spec == Init /\ [][Next]_vars

-----------------------------------------------------------------------------
(* Properties                                                               *)

\* Traces are only deleted, and records only retired, while no browser of the
\* folder runs: the last look and the deletion happen under the install lock
\* that every start of a browser needs ("Never clean in the gap between a
\* launcher's quiescence check and its process creation").
QuietCleaning ==
    (\/ \E p \in Launchers : pc[p] \in {"clean", "retire"}
     \/ \E s \in Sessions : watcher[s] \in {"clean", "retire"})
    => running = {}

\* What an armed browser leaves on a computer is either cleaned up or still
\* recorded for that computer, whichever processes died, lost their locks,
\* were duplicates or were pulled out with the drive.
Covered == \A t \in traces : t.of \in armed => t.at \in pending

\* A record goes away only in its own context and only after every trace it
\* stands for: foreign records are neither used nor evicted.
RetiredClean ==
    [][\A h \in pending \ pending' : h = host /\ Here = {}]_vars

\* The journal never outgrows the budget that a later listing accepts.
WithinBudget == Cardinality(pending) + torn <= MaxRecords

\* Every thread goes on, every browser is closed, and where the folder can be
\* used again and again it is, also with recovery switched on.
FairSpec ==
    /\ Spec
    /\ \A p \in Launchers : WF_vars(LauncherStep(p))
    /\ \A p \in Launchers : SF_vars(Begin(p) /\ recover'[p])
    /\ \A s \in Sessions : WF_vars(WatcherStep(s)) /\ WF_vars(Exit(s))

\* Intent is acted upon: a record of the computer the folder stays in is
\* retired by some later attempt, once failures and browsers end.  This is what
\* remove_attributed_report keeps the metadata to the last for ("so a normal
\* partial deletion failure can be retried on a later completed session"), and
\* what a failure after the removal of the metadata ends.
Retried == \A h \in Hosts : (h = host /\ h \in pending) ~> (h # host \/ h \notin pending)

\* It is retired wherever no report directory has been left without metadata:
\* no other failure, death, busy lock or duplicate keeps it from that.
RetriedUnlessHusk ==
    \A h \in Hosts :
        (h = host /\ h \in pending) ~> (h # host \/ h \notin pending \/ h \in husks)
=============================================================================
