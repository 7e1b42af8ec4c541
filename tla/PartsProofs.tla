---------------------------- MODULE PartsProofs ----------------------------
(***************************************************************************)
(* Proofs about the machines of module Machines, each for any values of its *)
(* constants: of the specification of all of them together, and first of    *)
(* the specification of each.                                               *)
(***************************************************************************)
EXTENDS Machines, FiniteSetTheorems, SequenceTheorems, WellFoundedInduction, TLAPS

\* Each machine keeps to its own next-state relation, whichever steps.
LEMMA Apart ==
    [MachinesNext]_machines =>
        /\ [PR!ProfilesNext]_profileVars /\ [SF!FileNext]_fileVars /\ [HT!HostNext]_hostVars
        /\ [SW!WatchNext]_watchVars /\ [UP!UnpackNext]_unpackVars /\ [BR!BrandingNext]_brandingVars
  BY Zenon DEF MachinesNext, machines, ProfileStep, FileStep, HostStep, WatchStep, UnpackStep, BrandingStep

\* A set of numbers has a least one.
LEMMA Least == ASSUME NEW S \in SUBSET Nat, S # {} PROVE \E n \in S : \A m \in S : n <= m
<1> DEFINE R == OpToRel(<, Nat)
<1>1. IsWellFoundedOn(R, Nat)
  BY NatLessThanWellFounded
<1>2. \A m, n \in Nat : m < n => <<m, n>> \in R
  BY DEF OpToRel
<1> HIDE DEF R
<1>3. PICK n \in S : \A m \in S : ~(<<m, n>> \in R)
  BY <1>1, WFMin
<1>4. \A m \in S : ~(m < n)
  BY <1>2, <1>3
<1>5. QED
  BY <1>3, <1>4

-----------------------------------------------------------------------------
(* The watching thread.                                                     *)

Places == {"claim", "open", "check", "poll", "drain", "arm first", "arm next", "sweep", "ended"}

Threads == [at : Places, todo : SUBSET WatchedKeys, failed : BOOLEAN]

Typed ==
    /\ commands \in [WatchedKeys -> {"launcher", "browser"}]
    /\ notice \in {"none", "armed", "given"}
    /\ thread \in Threads
    /\ session \in [at : {"browsing", "join", "sweep", "refused", "done"}, todo : SUBSET WatchedKeys]
    /\ alive \in BOOLEAN /\ stop \in BOOLEAN /\ waits \in 0..3
    /\ covered \subseteq WatchedKeys /\ spared \subseteq WatchedKeys

\* A command to be seen to: the browser's, and not one whose repair failed.
Open(k) == commands[k] = "browser" /\ k \notin spared

\* While the thread watches, a notification is asked for or was given.
Listening ==
    thread.at \in {"check", "poll", "drain"} \/ (thread.at = "sweep" /\ ~thread.failed)
    => notice \in {"armed", "given"}

\* What was written while it watched is before its sweep, or has notified it.
Heard ==
    /\ thread.at \in {"claim", "open"} => covered = {}
    /\ \A k \in covered : Open(k) =>
          /\ thread.at \in {"check", "poll"} => notice = "given"
          /\ thread.at = "sweep" /\ ~thread.failed => k \in thread.todo \/ notice = "given"

\* After the flag is set one more wait is begun, and only for a burst that
\* had begun before.
OneMore ==
    /\ waits <= 1 /\ (waits > 0 => stop)
    /\ thread.at \in {"claim", "open", "poll", "arm first"} => waits = 0

\* The last sweep follows the browser's end, and has yet to see to what is open.
Last ==
    session.at \in {"sweep", "done"} =>
        /\ ~alive
        /\ \A k \in WatchedKeys : Open(k) => session.at = "sweep" /\ k \in session.todo

WInv == Typed /\ Listening /\ Heard /\ OneMore /\ Last

Swept(label) == [SW!Go(label) EXCEPT !.todo = WatchedKeys]

\* Where the thread goes, it takes the rest along.
LEMMA Going ==
    ASSUME thread \in Threads, NEW label \in Places
    PROVE  /\ SW!Go(label) \in Threads /\ SW!Go(label).at = label
           /\ SW!Go(label).todo = thread.todo /\ SW!Go(label).failed = thread.failed
           /\ Swept(label) \in Threads /\ Swept(label).at = label /\ Swept(label).todo = WatchedKeys
  BY DEF Threads, SW!Go, Swept

\* What the thread may do that is no repair.
LEMMA Moves ==
    ASSUME WInv, SW!Claim \/ SW!OpenWatch \/ SW!Check \/ SW!TimedOut \/ SW!Notified \/ SW!Arm \/ SW!SweepEnds
    PROVE  /\ UNCHANGED <<commands, session, alive, stop, covered, spared>>
           /\ thread' \in Threads /\ notice' \in {"none", "armed", "given"}
           /\ \/ thread.at = "claim" /\ thread'.at \in {"open", "ended"} /\ UNCHANGED <<notice, waits>>
              \/ thread.at = "open" /\ thread'.at = "check" /\ notice' = "armed" /\ UNCHANGED waits
              \/ thread.at # "claim" /\ thread'.at = "ended" /\ UNCHANGED waits
              \/ thread.at = "check" /\ ~stop /\ thread'.at = "poll" /\ UNCHANGED <<notice, waits>>
              \/ thread.at = "poll" /\ thread'.at = "check" /\ UNCHANGED <<notice, waits>>
              \/ /\ thread.at = "drain" /\ thread'.at = "sweep" /\ thread'.todo = WatchedKeys
                 /\ UNCHANGED <<notice, waits>>
              \/ thread.at = "poll" /\ thread'.at = "arm first" /\ notice' = "none" /\ UNCHANGED waits
              \/ thread.at = "drain" /\ thread'.at = "arm next" /\ notice' = "none" /\ UNCHANGED waits
              \/ /\ thread.at = "arm first" /\ thread'.at = "drain" /\ notice' = "armed"
                 /\ waits' = waits \/ (stop /\ waits < 3 /\ waits' = waits + 1)
              \/ thread.at = "arm next" /\ ~stop /\ thread'.at = "drain" /\ notice' = "armed" /\ UNCHANGED waits
              \/ /\ thread.at = "arm next" /\ thread'.at = "sweep" /\ thread'.todo = WatchedKeys
                 /\ ~thread'.failed => notice' = "armed"
                 /\ UNCHANGED waits
              \/ /\ thread.at = "sweep" /\ thread.todo = {} /\ ~thread.failed /\ thread'.at = "check"
                 /\ UNCHANGED <<notice, waits>>
<1>1. UNCHANGED <<commands, session, alive, stop, covered, spared>>
  BY DEF SW!Claim, SW!OpenWatch, SW!Check, SW!TimedOut, SW!Notified, SW!Arm, SW!SweepEnds
<1>2. thread \in Threads /\ notice \in {"none", "armed", "given"}
  BY DEF WInv, Typed
<1>3. \A label \in Places :
         /\ SW!Go(label) \in Threads /\ SW!Go(label).at = label
         /\ SW!Go(label).todo = thread.todo /\ SW!Go(label).failed = thread.failed
         /\ Swept(label) \in Threads /\ Swept(label).at = label /\ Swept(label).todo = WatchedKeys
  BY <1>2, Going
<1>4. \A failed \in BOOLEAN : /\ SW!Sweep(failed) \in Threads /\ SW!Sweep(failed).at = "sweep"
                              /\ SW!Sweep(failed).todo = WatchedKeys /\ SW!Sweep(failed).failed = failed
  BY DEF SW!Sweep, Threads, Places
<1>5. thread.failed \in BOOLEAN
  BY <1>2 DEF Threads
<1>6. CASE SW!Claim \/ SW!OpenWatch
  BY <1>1, <1>2, <1>3, <1>6 DEF SW!Claim, SW!OpenWatch, Places
<1>7. CASE SW!Check
  BY <1>1, <1>2, <1>3, <1>7 DEF SW!Check, SW!Wait, Places
<1>8. CASE SW!TimedOut
  <2>1. CASE thread.at = "poll" /\ thread' = SW!Go("check")
    BY <1>1, <1>2, <1>3, <1>8, <2>1 DEF SW!TimedOut, Places
  <2>2. CASE thread.at = "drain" /\ thread' = [SW!Go("sweep") EXCEPT !.todo = WatchedKeys]
    <3>1. thread' = Swept("sweep") /\ "sweep" \in Places
      BY <2>2 DEF Places, Swept
    <3>2. QED
      BY <1>1, <1>2, <1>3, <1>8, <2>2, <3>1 DEF SW!TimedOut
  <2>3. QED
    BY <1>8, <2>1, <2>2 DEF SW!TimedOut
<1>9. CASE SW!Notified
  BY <1>1, <1>2, <1>3, <1>9 DEF SW!Notified, Places
<1>10. CASE SW!Arm
  <2>1. CASE SW!First
    BY <1>1, <1>3, <2>1 DEF SW!First, SW!Wait, Places
  <2>2. CASE SW!Another
    BY <1>1, <1>3, <1>4, <2>2 DEF SW!Another, SW!Wait, Places
  <2>3. CASE SW!Fails
    BY <1>1, <1>2, <1>3, <1>4, <2>3 DEF SW!Fails, Places
  <2>4. QED
    BY <1>10, <2>1, <2>2, <2>3 DEF SW!Arm
<1>11. CASE SW!SweepEnds
  BY <1>1, <1>2, <1>3, <1>5, <1>11 DEF SW!SweepEnds, Places
<1>12. QED
  BY <1>6, <1>7, <1>8, <1>9, <1>10, <1>11

\* None of it loses a change, begins a second wait or touches a command.
LEMMA ThreadSteps ==
    ASSUME WInv, SW!Claim \/ SW!OpenWatch \/ SW!Check \/ SW!TimedOut \/ SW!Notified \/ SW!Arm \/ SW!SweepEnds
    PROVE  WInv'
<1>1. UNCHANGED <<commands, session, alive, stop, covered, spared>>
  BY Moves
<1>2. \A k : Open(k)' <=> Open(k)
  BY <1>1 DEF Open
<1>3. Last'
  BY <1>1, <1>2 DEF WInv, Last
<1>4. waits \in 0..3 /\ waits' \in 0..3
  <2>1. waits \in 0..3
    BY DEF WInv, Typed
  <2>2. waits' = waits \/ (waits < 3 /\ waits' = waits + 1)
    BY Moves
  <2>3. QED
    BY <2>1, <2>2
<1>5. Typed'
  BY <1>1, <1>4, Moves DEF WInv, Typed
<1>6. OneMore'
  <2>1. CASE UNCHANGED waits
    <3>1. thread'.at \in {"claim", "open", "poll", "arm first"} =>
             thread.at \in {"claim", "poll"} \/ (thread.at = "check" /\ ~stop)
      BY Moves
    <3>2. thread.at = "check" /\ ~stop => waits = 0
      BY <1>4 DEF WInv, OneMore
    <3>3. thread'.at \in {"claim", "open", "poll", "arm first"} => waits = 0
      BY <3>1, <3>2 DEF WInv, OneMore
    <3>4. QED
      BY <1>1, <2>1, <3>3 DEF WInv, OneMore
  <2>2. CASE waits' # waits
    <3>1. thread.at = "arm first" /\ thread'.at = "drain" /\ stop /\ waits' = waits + 1
      BY <2>2, Moves
    <3>2. waits = 0 /\ waits' = waits + 1
      BY <3>1 DEF WInv, OneMore
    <3>3. waits' = 1 /\ waits' <= 1
      BY <3>2
    <3>4. stop'
      BY <1>1, <3>1, Zenon
    <3>5. thread'.at \notin {"claim", "open", "poll", "arm first"}
      BY <3>1
    <3>6. QED
      BY <3>3, <3>4, <3>5, Zenon DEF OneMore
  <2>3. QED
    BY <2>1, <2>2
<1>7. Listening'
  BY Moves DEF WInv, Listening
<1>8. Heard'
  <2>1. thread'.at \in {"claim", "open"} => covered = {}
    BY Moves DEF WInv, Heard
  <2>2. ASSUME NEW k \in covered, Open(k)
        PROVE  /\ thread'.at \in {"check", "poll"} => notice' = "given"
               /\ thread'.at = "sweep" /\ ~thread'.failed => k \in thread'.todo \/ notice' = "given"
    BY <2>2, Moves DEF WInv, Heard, Typed
  <2>3. QED
    BY <1>1, <1>2, <2>1, <2>2 DEF Heard
<1>9. QED
  BY <1>3, <1>5, <1>6, <1>7, <1>8 DEF WInv

\* What a repair does to one command, and to the others.
LEMMA Repairs ==
    ASSUME WInv, NEW k \in WatchedKeys, SW!Repair(k)
    PROVE  /\ commands' \in [WatchedKeys -> {"launcher", "browser"}] /\ spared' \subseteq WatchedKeys
           /\ notice' \in {"none", "armed", "given"}
           /\ notice \in {"armed", "given"} => notice' \in {"armed", "given"}
           /\ notice = "given" => notice' = "given"
           /\ ~Open(k)' /\ \A l \in WatchedKeys : Open(l)' => Open(l)
<1>1. /\ commands \in [WatchedKeys -> {"launcher", "browser"}] /\ spared \subseteq WatchedKeys
      /\ notice \in {"none", "armed", "given"}
  BY DEF WInv, Typed
<1>2. CASE commands[k] = "browser" /\ commands' = [commands EXCEPT ![k] = "launcher"] /\ UNCHANGED spared
           /\ notice' = SW!Changed
  BY <1>1, <1>2 DEF SW!Changed, Open
<1>3. CASE UNCHANGED <<commands, notice>> /\ spared' = spared \cup {k}
  BY <1>1, <1>3 DEF Open
<1>4. CASE commands[k] = "launcher" /\ UNCHANGED <<commands, notice, spared>>
  BY <1>1, <1>4 DEF Open
<1>5. QED
  BY <1>2, <1>3, <1>4 DEF SW!Repair

\* The sweep of the thread, and the one after the browser.
LEMMA Sweeps ==
    ASSUME WInv, NEW k \in WatchedKeys, SW!LiveSweep(k) \/ SW!LastSweep(k)
    PROVE  WInv'
<1>1. /\ SW!Repair(k) /\ UNCHANGED <<alive, stop, waits, covered>>
      /\ thread \in Threads
      /\ session \in [at : {"browsing", "join", "sweep", "refused", "done"}, todo : SUBSET WatchedKeys]
      /\ waits \in 0..3 /\ covered \subseteq WatchedKeys
  BY DEF SW!LiveSweep, SW!LastSweep, WInv, Typed
<1>2. ~Open(k)' /\ \A l \in WatchedKeys : Open(l)' => Open(l)
  BY <1>1, Repairs
<1>3. CASE SW!LiveSweep(k)
  <2>1. /\ thread.at = "sweep" /\ thread' \in Threads /\ thread'.at = "sweep"
        /\ thread'.todo = thread.todo \ {k} /\ thread'.failed = thread.failed
        /\ UNCHANGED session
    BY <1>1, <1>3 DEF SW!LiveSweep, Threads
  <2>2. Typed'
    BY <1>1, <2>1, Repairs DEF WInv, Typed
  <2>3. Listening'
    BY <1>1, <2>1, Repairs DEF WInv, Listening
  <2>4. Heard'
    BY <1>1, <1>2, <2>1, Repairs DEF WInv, Heard
  <2>5. OneMore'
    BY <1>1, <2>1 DEF WInv, OneMore
  <2>6. Last'
    BY <1>1, <1>2, <2>1 DEF WInv, Last
  <2>7. QED
    BY <2>2, <2>3, <2>4, <2>5, <2>6 DEF WInv
<1>4. CASE SW!LastSweep(k)
  <2>1. /\ session.at = "sweep" /\ UNCHANGED thread
        /\ session'.at = IF session.todo = {k} THEN "done" ELSE "sweep"
        /\ session'.todo = session.todo \ {k}
        /\ session' \in [at : {"browsing", "join", "sweep", "refused", "done"}, todo : SUBSET WatchedKeys]
    BY <1>1, <1>4 DEF SW!LastSweep
  <2>2. Typed'
    BY <1>1, <2>1, Repairs DEF WInv, Typed
  <2>3. Listening'
    BY <1>1, <2>1, Repairs DEF WInv, Listening
  <2>4. Heard'
    BY <1>1, <1>2, <2>1, Repairs DEF WInv, Heard
  <2>5. OneMore'
    BY <1>1, <2>1 DEF WInv, OneMore
  <2>6. Last'
    BY <1>1, <1>2, <2>1 DEF WInv, Last
  <2>7. QED
    BY <2>2, <2>3, <2>4, <2>5, <2>6 DEF WInv
<1>5. QED
  BY <1>3, <1>4

\* The watcher stops the thread and goes on when it has ended and the browser
\* has gone.
LEMMA Stopping ==
    ASSUME WInv, SW!StopThread \/ SW!Join
    PROVE  WInv'
<1>1. /\ UNCHANGED <<commands, notice, thread, alive, waits, covered, spared>>
      /\ session' \in [at : {"browsing", "join", "sweep", "refused", "done"}, todo : SUBSET WatchedKeys]
      /\ stop' \in BOOLEAN
  <2>1. /\ session \in [at : {"browsing", "join", "sweep", "refused", "done"}, todo : SUBSET WatchedKeys]
        /\ stop \in BOOLEAN
    BY DEF WInv, Typed
  <2>2. CASE SW!StopThread
    <3>1. [session EXCEPT !.at = "join"]
             \in [at : {"browsing", "join", "sweep", "refused", "done"}, todo : SUBSET WatchedKeys]
      BY <2>1
    <3>2. stop' \in BOOLEAN
      BY <2>2, Zenon DEF SW!StopThread
    <3>3. QED
      BY <2>2, <3>1, <3>2 DEF SW!StopThread
  <2>3. CASE SW!Join
    <3>1. stop' \in BOOLEAN
      BY <2>1, <2>3, Zenon DEF SW!Join
    <3>2. session' \in {[at |-> "sweep", todo |-> WatchedKeys], [at |-> "refused", todo |-> {}]}
      BY <2>3 DEF SW!Join
    <3>3. QED
      BY <2>3, <3>1, <3>2 DEF SW!Join
  <2>4. QED
    BY <2>2, <2>3
<1>2. \A k : Open(k)' <=> Open(k)
  BY <1>1 DEF Open
<1>3. Typed' /\ Listening' /\ Heard'
  BY <1>1, <1>2 DEF WInv, Typed, Listening, Heard
<1>4. stop => stop'
  BY DEF SW!StopThread, SW!Join
<1>5. OneMore'
  BY <1>1, <1>4 DEF WInv, OneMore
<1>6. session'.at \in {"sweep", "done"} => ~alive /\ session'.at = "sweep" /\ session'.todo = WatchedKeys
  BY DEF SW!StopThread, SW!Join, SW!Gone, WInv, Typed
<1>7. Last'
  BY <1>1, <1>6 DEF Last
<1>8. QED
  BY <1>3, <1>5, <1>7 DEF WInv

\* The browser's writes, other changes, and the browser's end.
LEMMA Elsewheres ==
    ASSUME WInv, SW!Elsewhere
    PROVE  WInv'
<1>1. UNCHANGED <<thread, session, stop, waits>> /\ notice' \in {notice, SW!Changed}
  BY DEF SW!Elsewhere, SW!MakeDefault, SW!OtherChange, SW!Exit
<1>2. /\ notice' \in {"none", "armed", "given"} /\ (notice = "given" => notice' = "given")
      /\ notice \in {"armed", "given"} => notice' \in {"armed", "given"}
  BY <1>1 DEF SW!Changed, WInv, Typed
<1>3. Listening'
  BY <1>1, <1>2 DEF WInv, Listening
<1>4. OneMore'
  BY <1>1 DEF WInv, OneMore
<1>5. CASE SW!OtherChange \/ SW!Exit
  <2>1. UNCHANGED <<commands, covered, spared>> /\ (~alive => ~alive') /\ alive' \in BOOLEAN
    <3>1. alive \in BOOLEAN
      BY DEF WInv, Typed
    <3>2. CASE SW!OtherChange
      BY <3>1, <3>2, Zenon DEF SW!OtherChange
    <3>3. CASE SW!Exit
      BY <3>3, Zenon DEF SW!Exit
    <3>4. QED
      BY <1>5, <3>2, <3>3
  <2>2. \A k : Open(k)' <=> Open(k)
    BY <2>1 DEF Open
  <2>3. Typed'
    BY <1>1, <1>2, <2>1 DEF WInv, Typed
  <2>4. Heard'
    BY <1>1, <1>2, <2>1, <2>2 DEF WInv, Heard
  <2>5. Last'
    BY <1>1, <2>1, <2>2 DEF WInv, Last
  <2>6. QED
    BY <1>3, <1>4, <2>3, <2>4, <2>5 DEF WInv
<1>6. ASSUME NEW k \in WatchedKeys, SW!MakeDefault(k) PROVE WInv'
  <2>1. /\ alive /\ UNCHANGED alive
        /\ commands' = [commands EXCEPT ![k] = "browser"] /\ spared' = spared \ {k}
        /\ notice' = SW!Changed
        /\ covered' = IF thread.at \in {"claim", "open", "ended"} THEN covered \ {k} ELSE covered \cup {k}
    BY <1>6 DEF SW!MakeDefault
  <2>2. \A l \in WatchedKeys : l # k => (Open(l)' => Open(l))
    BY <2>1 DEF Open, WInv, Typed
  <2>3. Typed'
    BY <1>1, <1>2, <2>1 DEF WInv, Typed
  <2>4. thread.at \in {"claim", "open"} => covered' = {}
    BY <2>1 DEF WInv, Heard
  <2>5. ASSUME NEW l \in covered', Open(l)', l # k
        PROVE  /\ thread.at \in {"check", "poll"} => notice' = "given"
               /\ thread.at = "sweep" /\ ~thread.failed => l \in thread.todo \/ notice' = "given"
    <3>1. l \in covered /\ Open(l)
      BY <2>1, <2>2, <2>3, <2>5 DEF Typed
    <3>2. QED
      BY <1>2, <3>1 DEF WInv, Heard
  <2>6. /\ thread.at \in {"check", "poll"} => notice' = "given"
        /\ thread.at = "sweep" /\ ~thread.failed => notice' = "given"
    BY <2>1 DEF WInv, Listening, SW!Changed
  <2>7. Heard'
    BY <1>1, <2>4, <2>5, <2>6 DEF Heard
  <2>8. Last'
    BY <1>1, <2>1 DEF WInv, Last
  <2>9. QED
    BY <1>3, <1>4, <2>3, <2>7, <2>8 DEF WInv
<1>7. QED
  BY <1>5, <1>6 DEF SW!Elsewhere

\* No change the browser makes while it is watched is lost, a stopped thread
\* begins at most one more wait, and a session that ends with its last sweep
\* leaves nothing open but what could not be repaired.
THEOREM Watching == MachinesSpec => []RegistrationsWatched
<1>1. SW!WatchInit => WInv
  <2> SUFFICES ASSUME SW!WatchInit PROVE WInv
    OBVIOUS
  <2>1. alive \in BOOLEAN /\ stop \in BOOLEAN
    BY Zenon DEF SW!WatchInit
  <2>2. /\ commands \in [WatchedKeys -> {"launcher", "browser"}] /\ notice \in {"none", "armed", "given"}
        /\ thread \in Threads /\ thread.at = "claim"
        /\ session \in [at : {"browsing", "join", "sweep", "refused", "done"}, todo : SUBSET WatchedKeys]
        /\ session.at = "browsing"
    BY DEF SW!WatchInit, Threads, Places
  <2>3. waits = 0 /\ covered = {} /\ spared = {}
    BY DEF SW!WatchInit
  <2>4. QED
    BY <2>1, <2>2, <2>3 DEF WInv, Typed, Listening, Heard, OneMore, Last
<1>2. WInv /\ [SW!WatchNext]_watchVars => WInv'
  <2> SUFFICES ASSUME WInv, [SW!WatchNext]_watchVars PROVE WInv'
    OBVIOUS
  <2>1. CASE UNCHANGED watchVars
    BY <2>1 DEF watchVars, WInv, Typed, Listening, Heard, OneMore, Last, Open
  <2>2. CASE SW!WatchNext
    BY <2>2, ThreadSteps, Sweeps, Stopping, Elsewheres DEF SW!WatchNext, SW!ThreadStep, SW!WatcherStep
  <2>3. QED
    BY <2>1, <2>2
<1>3. WInv => RegistrationsWatched
  <2> SUFFICES ASSUME WInv PROVE RegistrationsWatched
    OBVIOUS
  <2>1. SW!NoneMissed
    BY DEF WInv, Typed, Heard, Open, SW!NoneMissed
  <2>2. SW!StopsSoon
    BY DEF WInv, OneMore, SW!StopsSoon
  <2>3. SW!NoneLeft
    BY DEF WInv, Last, Open, SW!NoneLeft
  <2>4. QED
    BY <2>1, <2>2, <2>3 DEF RegistrationsWatched
<1>4. MachinesInit => WInv
  BY <1>1 DEF MachinesInit
<1>5. WInv /\ [MachinesNext]_machines => WInv'
  BY <1>2, Apart
<1>6. QED
  BY <1>3, <1>4, <1>5, PTL DEF MachinesSpec

-----------------------------------------------------------------------------
(* The settings file.                                                       *)

Steps == {"idle", "spawn", "remove", "stage", "commit", "replace", "rollback"}
Launches == [step : Steps, enabled : BOOLEAN, target : SF!Whole]
Directories == [there : BOOLEAN, replacement : SF!Whole, previous : SF!Whole]

FTyped ==
    /\ file \in SF!Whole /\ own \in Directories /\ write \in Launches
    /\ saved \in 0..MaxSaves /\ raced \in BOOLEAN

\* What a launch is about to write has the managed lines its configuration
\* asks for; once staged, it is what is in the directory.
Aimed ==
    /\ ~SF!At("idle") /\ ~SF!At("spawn") => write.target.managed = write.enabled
    /\ SF!At("remove") => write.target = SF!Missing
    /\ SF!At("commit") \/ SF!At("replace") \/ SF!At("rollback") => own.replacement = write.target

\* Unless somebody wrote in between, it has the user's lines that were read,
\* which are in the file until it has been moved away.
Same ==
    /\ SF!At("stage") \/ SF!At("remove") \/ SF!At("commit") => write.target.user = file.user
    /\ SF!At("replace") \/ SF!At("rollback") =>
          /\ file = SF!Missing /\ own.previous # SF!Missing
          /\ write.target.user = own.previous.user

\* Where the last lines the user saved are.
Lines ==
    \/ \E content \in left : content.user = saved
    \/ IF SF!At("replace") \/ SF!At("rollback") THEN own.previous.user = saved ELSE file.user = saved

FInv == FTyped /\ Aimed /\ (~raced => Same /\ Lines) /\ SF!StartedAsConfigured

\* Contents of a file that is there in part.
LEMMA Parts == /\ SF!Missing \in SF!Whole /\ SF!Missing.user = 0 /\ ~SF!Missing.managed
               /\ SF!Torn \notin SF!Whole /\ SF!NoDirectory \in Directories /\ SF!NoWrite \in Launches
               /\ SF!NoWrite.step = "idle"
<1>1. SF!Missing \in SF!Whole /\ SF!Missing.user = 0 /\ ~SF!Missing.managed
  BY MachinesAssumption DEF SF!Missing, SF!Whole
<1>2. SF!Torn.user = -1 /\ \A content \in SF!Whole : content.user \in 0..MaxSaves
  BY MachinesAssumption DEF SF!Torn, SF!Whole
<1>3. SF!NoDirectory \in Directories /\ SF!NoWrite \in Launches /\ SF!NoWrite.step = "idle"
  BY <1>1 DEF SF!NoDirectory, Directories, SF!NoWrite, Launches, Steps
<1>4. QED
  BY <1>1, <1>2, <1>3

\* A label changes nothing else of the launch.
LEMMA Labelled ==
    ASSUME FInv, NEW l \in Steps, SF!Goto(l)
    PROVE  /\ write' \in Launches /\ write'.step = l
           /\ write'.enabled = write.enabled /\ write'.target = write.target
  BY DEF SF!Goto, FInv, FTyped, Launches

\* A launch that starts its browser, or is over.
LEMMA Ending ==
    ASSUME FInv, write' \in Launches, write'.step \in {"idle", "spawn"},
           UNCHANGED <<saved, raced>>, file' \in SF!Whole, own' \in Directories,
           ~raced => (\E content \in left' : content.user = saved) \/ file'.user = saved,
           write'.step = "spawn" /\ ~raced => file'.managed = write'.enabled
    PROVE  FInv'
<1>1. FTyped'
  BY DEF FInv, FTyped
<1>2. Aimed' /\ (~raced => Same')
  BY DEF Aimed, Same, SF!At
<1>3. ~raced => Lines'
  BY DEF Lines, SF!At
<1>4. SF!StartedAsConfigured'
  BY DEF SF!StartedAsConfigured, SF!At
<1>5. QED
  BY <1>1, <1>2, <1>3, <1>4 DEF FInv

\* Where the user's lines are when the launch ends at each of its steps.
LEMMA Whereabouts ==
    ASSUME FInv, ~raced
    PROVE  /\ ~(SF!At("replace") \/ SF!At("rollback")) =>
                 (\E content \in left : content.user = saved) \/ file.user = saved
           /\ SF!At("replace") \/ SF!At("rollback") =>
                 /\ (\E content \in left : content.user = saved) \/ own.previous.user = saved
                 /\ own.previous \in {own.previous} \ {SF!Missing}
                 /\ file = SF!Missing /\ write.target.user = own.previous.user
           /\ SF!At("stage") \/ SF!At("remove") \/ SF!At("commit") => write.target.user = file.user
  BY DEF FInv, Same, Lines

\* Reading the file, and deciding what it shall be.
LEMMA ReadStep ==
    ASSUME FInv, SF!Read
    PROVE  FInv'
<1>1. SF!At("idle") /\ UNCHANGED <<file, own, left, saved, raced>>
  BY DEF SF!Read
<1>2. CASE UNCHANGED write
  BY <1>1, <1>2 DEF FInv, FTyped, Aimed, Same, Lines, SF!StartedAsConfigured, SF!At
<1>3. CASE write' # write
  <2>1. PICK enabled \in BOOLEAN :
           write' = [step |-> IF SF!Target(file, enabled) = file THEN "spawn"
                              ELSE IF SF!Target(file, enabled) = SF!Missing THEN "remove" ELSE "stage",
                     enabled |-> enabled, target |-> SF!Target(file, enabled)]
    BY <1>3 DEF SF!Read
  <2>2. PICK target : target = SF!Target(file, enabled)
    OBVIOUS
  <2>3. target \in SF!Whole /\ target.user = file.user /\ target.managed = enabled
    BY <2>2 DEF SF!Target, FInv, FTyped, SF!Whole
  <2>4. write' \in Launches /\ write'.enabled = enabled /\ write'.target = target
    BY <2>1, <2>2, <2>3 DEF Launches, Steps
  <2>5. /\ write'.step \in {"spawn", "remove", "stage"}
        /\ write'.step = "spawn" => target = file
        /\ write'.step = "remove" => target = SF!Missing
    BY <2>1, <2>2
  <2>6. FTyped'
    BY <1>1, <2>4 DEF FInv, FTyped
  <2>7. Aimed'
    BY <2>3, <2>4, <2>5 DEF Aimed, SF!At
  <2>8. ~raced => Same' /\ Lines'
    BY <1>1, <2>3, <2>4, <2>5 DEF FInv, Same, Lines, SF!At
  <2>9. SF!StartedAsConfigured'
    BY <1>1, <2>3, <2>4, <2>5 DEF SF!StartedAsConfigured, SF!At
  <2>10. QED
    BY <1>1, <2>6, <2>7, <2>8, <2>9 DEF FInv
<1>4. QED
  BY <1>2, <1>3

\* Removing it, and staging another.
LEMMA StageSteps ==
    ASSUME FInv, SF!Remove \/ SF!Stage
    PROVE  FInv'
<1>1. /\ file \in SF!Whole /\ own \in Directories /\ write \in Launches /\ UNCHANGED raced
      /\ SF!Missing \in SF!Whole /\ SF!NoDirectory \in Directories
  BY Parts DEF FInv, FTyped, SF!Remove, SF!Stage
<1>2. CASE SF!Remove
  <2>1. SF!At("remove") /\ UNCHANGED <<own, left, saved>> /\ write.target = SF!Missing
        /\ write.target.managed = write.enabled
    BY <1>2 DEF SF!Remove, SF!Refuse, FInv, Aimed, SF!At
  <2>2. CASE SF!Goto("spawn") /\ file' = SF!Missing
    <3>1. write' \in Launches /\ write'.step = "spawn" /\ write'.enabled = write.enabled
      BY <2>2, Labelled DEF Steps
    <3>2. ~raced => (\E content \in left' : content.user = saved) \/ file'.user = saved
      BY <2>1, <2>2, Whereabouts DEF SF!At
    <3>3. file'.managed = write'.enabled
      BY <2>1, <2>2, <3>1
    <3>4. QED
      BY <1>1, <2>1, <2>2, <3>1, <3>2, <3>3, Ending
  <2>3. CASE SF!Refuse /\ UNCHANGED file
    <3>1. write' \in Launches /\ write'.step = "idle"
      BY <2>3, Labelled DEF SF!Refuse, Steps
    <3>2. ~raced => (\E content \in left' : content.user = saved) \/ file'.user = saved
      BY <2>1, <2>3, Whereabouts DEF SF!At
    <3>3. QED
      BY <1>1, <2>1, <2>3, <3>1, <3>2, Ending
  <2>4. QED
    BY <1>2, <2>2, <2>3 DEF SF!Remove
<1>3. CASE SF!Stage
  <2>1. SF!At("stage") /\ UNCHANGED <<file, left, saved>>
    BY <1>3 DEF SF!Stage, SF!Refuse, SF!Drop
  <2>2. CASE own' = [SF!NoDirectory EXCEPT !.there = TRUE, !.replacement = write.target] /\ SF!Goto("commit")
    <3>1. /\ write' \in Launches /\ write'.step = "commit" /\ write'.enabled = write.enabled
          /\ write'.target = write.target
      BY <2>2, Labelled DEF Steps
    <3>2. own' \in Directories /\ own'.replacement = write.target
      BY <1>1, <2>2 DEF Directories, Launches, SF!NoDirectory
    <3>3. FTyped'
      BY <1>1, <2>1, <3>1, <3>2 DEF FInv, FTyped
    <3>4. Aimed'
      BY <2>1, <3>1, <3>2 DEF FInv, Aimed, SF!At
    <3>5. ~raced => Same' /\ Lines'
      BY <2>1, <3>1 DEF FInv, Same, Lines, SF!At
    <3>6. SF!StartedAsConfigured'
      BY <3>1 DEF SF!StartedAsConfigured, SF!At
    <3>7. QED
      BY <1>1, <3>3, <3>4, <3>5, <3>6 DEF FInv
  <2>3. CASE SF!Drop /\ SF!Refuse
    <3>1. write' \in Launches /\ write'.step = "idle"
      BY <2>3, Labelled DEF SF!Refuse, Steps
    <3>2. ~raced => (\E content \in left' : content.user = saved) \/ file'.user = saved
      BY <2>1, Whereabouts DEF SF!At
    <3>3. QED
      BY <1>1, <2>1, <2>3, <3>1, <3>2, Ending DEF SF!Drop
  <2>4. QED
    BY <1>3, <2>2, <2>3 DEF SF!Stage
<1>4. QED
  BY <1>2, <1>3

\* Putting it in place of the old one, and back.
LEMMA ReplaceSteps ==
    ASSUME FInv, SF!Commit \/ SF!Replace \/ SF!Rollback
    PROVE  FInv'
<1>1. /\ file \in SF!Whole /\ own \in Directories /\ write \in Launches /\ UNCHANGED <<raced, saved>>
      /\ own.replacement \in SF!Whole /\ own.previous \in SF!Whole
      /\ SF!Missing \in SF!Whole /\ SF!NoDirectory \in Directories
  BY Parts DEF FInv, FTyped, Directories, SF!Commit, SF!Replace, SF!Rollback, SF!Refuse
<1>2. /\ own.replacement = write.target /\ write.target.managed = write.enabled
  BY DEF FInv, Aimed, SF!At, SF!Commit, SF!Replace, SF!Rollback
<1>3. ASSUME SF!Refuse, own' \in Directories, file' \in SF!Whole,
             ~raced => (\E content \in left' : content.user = saved) \/ file'.user = saved
      PROVE  FInv'
  <2>1. write' \in Launches /\ write'.step = "idle"
    BY <1>3, Labelled DEF SF!Refuse, Steps
  <2>2. QED
    BY <1>1, <1>3, <2>1, Ending
<1>4. CASE SF!Commit
  <2>1. SF!At("commit")
    BY <1>4 DEF SF!Commit
  <2>2. CASE file = SF!Missing /\ file' = own.replacement /\ SF!Goto("spawn") /\ SF!Drop
    <3>1. write' \in Launches /\ write'.step = "spawn" /\ write'.enabled = write.enabled
      BY <2>2, Labelled DEF Steps
    <3>2. ~raced => (\E content \in left' : content.user = saved) \/ file'.user = saved
      BY <1>2, <2>1, <2>2, Whereabouts DEF SF!At, SF!Drop
    <3>3. file'.managed = write'.enabled
      BY <1>2, <2>2, <3>1
    <3>4. QED
      BY <1>1, <2>2, <3>1, <3>2, <3>3, Ending DEF SF!Drop
  <2>3. CASE SF!Refuse /\ SF!Drop /\ UNCHANGED file
    <3>1. ~raced => (\E content \in left' : content.user = saved) \/ file'.user = saved
      BY <2>1, <2>3, Whereabouts DEF SF!At, SF!Drop
    <3>2. QED
      BY <1>1, <1>3, <2>3, <3>1 DEF SF!Drop
  <2>4. CASE /\ file # SF!Missing /\ own' = [own EXCEPT !.previous = file] /\ file' = SF!Missing
             /\ SF!Goto("replace") /\ UNCHANGED left
    <3>1. /\ write' \in Launches /\ write'.step = "replace" /\ write'.enabled = write.enabled
          /\ write'.target = write.target
      BY <2>4, Labelled DEF Steps
    <3>2. /\ own' \in Directories /\ own'.replacement = own.replacement /\ own'.previous = file
      BY <1>1, <2>4 DEF Directories
    <3>3. FTyped'
      BY <1>1, <2>4, <3>1, <3>2 DEF FInv, FTyped
    <3>4. Aimed'
      BY <1>2, <3>1, <3>2 DEF Aimed, SF!At
    <3>5. ~raced => Same'
      BY <2>1, <2>4, <3>1, <3>2, Whereabouts DEF Same, SF!At
    <3>6. ~raced => Lines'
      BY <1>1, <2>1, <2>4, <3>1, <3>2, Whereabouts DEF Lines, SF!At
    <3>7. SF!StartedAsConfigured'
      BY <3>1 DEF SF!StartedAsConfigured, SF!At
    <3>8. QED
      BY <1>1, <3>3, <3>4, <3>5, <3>6, <3>7 DEF FInv
  <2>5. QED
    BY <1>4, <2>2, <2>3, <2>4 DEF SF!Commit
<1>5. CASE SF!Replace
  <2>1. SF!At("replace")
    BY <1>5 DEF SF!Replace
  <2>2. CASE file' = own.replacement /\ SF!Goto("spawn") /\ SF!Drop
    <3>1. write' \in Launches /\ write'.step = "spawn" /\ write'.enabled = write.enabled
      BY <2>2, Labelled DEF Steps
    <3>2. ~raced => (\E content \in left' : content.user = saved) \/ file'.user = saved
      BY <1>2, <2>1, <2>2, Whereabouts DEF SF!At, SF!Drop
    <3>3. file'.managed = write'.enabled
      BY <1>2, <2>2, <3>1
    <3>4. QED
      BY <1>1, <2>2, <3>1, <3>2, <3>3, Ending DEF SF!Drop
  <2>3. CASE SF!Goto("rollback") /\ UNCHANGED <<file, own, left>>
    <3>1. /\ write' \in Launches /\ write'.step = "rollback" /\ write'.enabled = write.enabled
          /\ write'.target = write.target
      BY <2>3, Labelled DEF Steps
    <3>2. FTyped'
      BY <1>1, <2>3, <3>1 DEF FInv, FTyped
    <3>3. Aimed'
      BY <1>2, <2>3, <3>1 DEF Aimed, SF!At
    <3>4. ~raced => Same' /\ Lines'
      BY <1>1, <2>1, <2>3, <3>1 DEF FInv, Same, Lines, SF!At
    <3>5. SF!StartedAsConfigured'
      BY <3>1 DEF SF!StartedAsConfigured, SF!At
    <3>6. QED
      BY <1>1, <3>2, <3>3, <3>4, <3>5 DEF FInv
  <2>4. QED
    BY <1>5, <2>2, <2>3 DEF SF!Replace
<1>6. CASE SF!Rollback
  <2>1. SF!At("rollback") /\ SF!Refuse
    BY <1>6 DEF SF!Rollback
  <2>2. CASE file' = own.previous /\ SF!Drop
    <3>1. ~raced => (\E content \in left' : content.user = saved) \/ file'.user = saved
      BY <2>1, <2>2, Whereabouts DEF SF!At, SF!Drop
    <3>2. QED
      BY <1>1, <1>3, <2>1, <2>2, <3>1 DEF SF!Drop
  <2>3. CASE SF!Leave /\ UNCHANGED file
    <3>1. ~raced => (\E content \in left' : content.user = saved) \/ file'.user = saved
      BY <2>1, <2>3, Whereabouts DEF SF!At, SF!Leave
    <3>2. QED
      BY <1>1, <1>3, <2>1, <2>3, <3>1 DEF SF!Leave
  <2>4. QED
    BY <1>6, <2>2, <2>3 DEF SF!Rollback
<1>7. QED
  BY <1>4, <1>5, <1>6

\* The user's lines, the browser's start, and a death.
LEMMA OtherFileSteps ==
    ASSUME FInv, SF!Save \/ SF!Rearrange \/ SF!Spawn \/ SF!Die
    PROVE  FInv'
<1>1. file \in SF!Whole /\ own \in Directories /\ write \in Launches /\ saved \in 0..MaxSaves /\ raced \in BOOLEAN
  BY DEF FInv, FTyped
<1>2. CASE SF!Save
  <2>1. /\ saved < MaxSaves /\ saved' = saved + 1 /\ file' = [file EXCEPT !.user = saved + 1]
        /\ UNCHANGED <<own, left, write>>
    BY <1>2 DEF SF!Save
  <2>2. saved' \in 0..MaxSaves
    BY <1>1, <2>1, MachinesAssumption
  <2>3. file' \in SF!Whole /\ file'.user = saved' /\ file'.managed = file.managed
    BY <1>1, <2>1, <2>2 DEF SF!Whole
  <2>4. raced' \in BOOLEAN /\ (~raced' => ~raced /\ (SF!At("idle") \/ SF!At("spawn")))
    BY <1>1, <1>2, Zenon DEF SF!Save
  <2>5. FTyped'
    BY <1>1, <2>1, <2>2, <2>3, <2>4 DEF FTyped
  <2>6. Aimed'
    BY <2>1 DEF FInv, Aimed, SF!At
  <2>7. ~raced' => Same' /\ Lines'
    BY <2>1, <2>3, <2>4 DEF Same, Lines, SF!At
  <2>8. SF!StartedAsConfigured'
    BY <2>1, <2>3, <2>4 DEF FInv, SF!StartedAsConfigured, SF!At
  <2>9. QED
    BY <2>5, <2>6, <2>7, <2>8 DEF FInv
<1>3. CASE SF!Rearrange
  <2>1. UNCHANGED <<file, own, left, write, saved, raced>>
    BY <1>3 DEF SF!Rearrange
  <2>2. QED
    BY <2>1 DEF FInv, FTyped, Aimed, Same, Lines, SF!StartedAsConfigured, SF!At
<1>4. CASE SF!Spawn
  <2>1. SF!At("spawn") /\ write' = SF!NoWrite /\ UNCHANGED <<file, own, left, saved, raced>>
    BY <1>4 DEF SF!Spawn
  <2>2. ~raced => (\E content \in left' : content.user = saved) \/ file'.user = saved
    BY <2>1, Whereabouts DEF SF!At
  <2>3. QED
    BY <1>1, <2>1, <2>2, Parts, Ending
<1>5. CASE SF!Die
  <2>1. write' = SF!NoWrite /\ SF!Leave /\ UNCHANGED <<file, saved, raced>>
    BY <1>5 DEF SF!Die
  <2>2. ~raced => (\E content \in left' : content.user = saved) \/ file'.user = saved
    <3>1. CASE SF!At("replace") \/ SF!At("rollback")
      BY <2>1, <3>1, Whereabouts DEF SF!Leave
    <3>2. CASE ~(SF!At("replace") \/ SF!At("rollback"))
      BY <2>1, <3>2, Whereabouts DEF SF!Leave
    <3>3. QED
      BY <3>1, <3>2
  <2>3. own' = SF!NoDirectory
    BY <2>1 DEF SF!Leave
  <2>4. QED
    BY <1>1, <2>1, <2>2, <2>3, Parts, Ending
<1>6. QED
  BY <1>2, <1>3, <1>4, <1>5

LEMMA FileBegins == MachinesInit => FInv
<1>1. SF!FileInit => FInv
  <2> SUFFICES ASSUME SF!FileInit PROVE FInv
    OBVIOUS
  <2>1. file = SF!Missing /\ own = SF!NoDirectory /\ write = SF!NoWrite /\ saved = 0
    BY DEF SF!FileInit
  <2>2. raced \in BOOLEAN
    BY Zenon DEF SF!FileInit
  <2>3. QED
    BY <2>1, <2>2, Parts, MachinesAssumption DEF FInv, FTyped, Aimed, Same, Lines, SF!StartedAsConfigured, SF!At
<1>2. QED
  BY <1>1 DEF MachinesInit

LEMMA FileSteps == FInv /\ [MachinesNext]_machines => FInv'
<1>1. FInv /\ [SF!FileNext]_fileVars => FInv'
  <2> SUFFICES ASSUME FInv, [SF!FileNext]_fileVars PROVE FInv'
    OBVIOUS
  <2>1. CASE UNCHANGED fileVars
    BY <2>1 DEF fileVars, FInv, FTyped, Aimed, Same, Lines, SF!StartedAsConfigured, SF!At
  <2>2. CASE SF!FileNext
    BY <2>2, ReadStep, StageSteps, ReplaceSteps, OtherFileSteps DEF SF!FileNext
  <2>3. QED
    BY <2>1, <2>2
<1>2. QED
  BY <1>1, Apart

\* Whatever fails and whoever dies, the user's lines are whole in the file or
\* in a directory that stays, no part of a file is left, and a browser starts
\* with the managed lines exactly when its configuration asks for them.
THEOREM Saving == MachinesSpec => []SettingsKept
<1>1. FInv => SettingsKept
  <2> SUFFICES ASSUME FInv PROVE SF!LinesNeverLost /\ SF!NeverTorn
    BY DEF FInv, SettingsKept
  <2>1. SF!NeverTorn
    BY Parts DEF FInv, FTyped, SF!NeverTorn
  <2>2. ~raced => \E content \in {file, own.previous} \cup left : content.user = saved
    BY Whereabouts
  <2>3. QED
    BY <2>1, <2>2 DEF SF!LinesNeverLost
<1>2. QED
  BY FileBegins, FileSteps, <1>1, PTL DEF MachinesSpec

\* The backup name of a private directory is only used by its replacement.
Vacant == ~SF!At("replace") /\ ~SF!At("rollback") => own.previous = SF!Missing

LEMMA VacantStep ==
    ASSUME FInv, Vacant, SF!FileNext
    PROVE  Vacant'
<1> USE DEF Vacant, SF!At
<1>1. SF!NoDirectory.previous = SF!Missing
  BY DEF SF!NoDirectory
<1>2. write \in Launches /\ own \in Directories
  BY DEF FInv, FTyped
<1>3. CASE SF!Save \/ SF!Rearrange
  BY <1>3 DEF SF!Save, SF!Rearrange
<1>4. CASE SF!Read \/ SF!Remove \/ SF!Spawn
  BY <1>2, <1>4 DEF SF!Read, SF!Remove, SF!Spawn, SF!Refuse, SF!Goto, Launches
<1>5. CASE SF!Stage
  BY <1>1, <1>2, <1>5 DEF SF!Stage, SF!Drop, SF!NoDirectory
<1>6. CASE SF!Commit
  BY <1>1, <1>2, <1>6 DEF SF!Commit, SF!Drop, SF!Goto, Launches
<1>7. CASE SF!Replace
  BY <1>1, <1>2, <1>7 DEF SF!Replace, SF!Drop, SF!Goto, Launches
<1>8. CASE SF!Rollback \/ SF!Die
  BY <1>1, <1>8 DEF SF!Rollback, SF!Die, SF!Drop, SF!Leave
<1>9. QED
  BY <1>3, <1>4, <1>5, <1>6, <1>7, <1>8 DEF SF!FileNext

\* What the refinement maps to is a whole file.
LEMMA WholeContent ==
    /\ FInv => SF!Content \in SR!Whole
    /\ FInv' => SF!Content' \in SR!Whole
<1>1. FInv => SF!Content \in SR!Whole
  BY DEF FInv, FTyped, Directories, SF!Content, SF!Whole, SR!Whole
<1>2. FInv' => SF!Content' \in SR!Whole
  BY DEF FInv, FTyped, Directories, SF!Content, SF!Whole, SR!Whole
<1>3. QED
  BY <1>1, <1>2

\* When nobody raced a launch, the mapped file is the one at the path, or the
\* one at the backup name while the path is empty.
LEMMA Mapped ==
    ASSUME FInv, ~raced
    PROVE  /\ ~(SF!At("replace") \/ SF!At("rollback")) => SF!Content = file
           /\ SF!At("replace") \/ SF!At("rollback") => SF!Content = own.previous
  BY DEF FInv, Same, SF!Content

\* A step of a launch that is not raced replaces at most the managed lines.
LEMMA Managed ==
    ASSUME FInv, FInv', SF!Content'.user = SF!Content.user, UNCHANGED <<left, saved, raced, spent>>
    PROVE  SR!Manage
<1>1. SF!Content \in SR!Whole /\ SF!Content' \in SR!Whole
  BY WholeContent
<1>2. PICK old, new \in SR!Whole : old = SF!Content /\ new = SF!Content'
  BY <1>1
<1>3. new = [old EXCEPT !.managed = new.managed] /\ new.managed \in BOOLEAN
  BY <1>2 DEF SR!Whole
<1>4. QED
  BY <1>2, <1>3 DEF SR!Manage

\* After a race nothing but wholeness is promised, and that nothing kept goes.
LEMMA Overtaken ==
    ASSUME FInv', raced, left \subseteq left', spent' \in {spent, spent + 1},
           UNCHANGED <<saved, raced>>
    PROVE  SR!Overtake
<1>1. SF!Content' \in SR!Whole
  BY WholeContent
<1>2. QED
  BY <1>1 DEF SR!Overtake

LEMMA SaveMaps ==
    ASSUME FInv, FInv', SF!Save
    PROVE  SR!Save
<1>1. /\ file' = [file EXCEPT !.user = saved + 1] /\ saved' = saved + 1
      /\ raced' = (raced \/ ~(SF!At("idle") \/ SF!At("spawn")))
      /\ UNCHANGED <<own, left, write, spent>>
  BY DEF SF!Save
<1>2. file \in SF!Whole /\ saved \in Nat /\ raced \in BOOLEAN
  BY MachinesAssumption DEF FInv, FTyped
<1>3. file'.user = saved + 1 /\ file'.managed = file.managed /\ file' # SF!Missing
  BY <1>1, <1>2 DEF SF!Whole, SF!Missing
<1>4. SF!Content' = file'
  BY <1>3 DEF SF!Content
<1>5. SF!Content' \in SR!Whole
  BY WholeContent
<1>6. raced' \in {raced, TRUE}
  BY <1>1, <1>2
<1>7. ASSUME ~raced' PROVE SF!Content = file
  <2>1. SF!At("idle") \/ SF!At("spawn")
    BY <1>1, <1>7
  <2>2. ~SF!At("replace") /\ ~SF!At("rollback")
    BY <2>1 DEF SF!At
  <2>3. QED
    BY <2>2 DEF SF!Content
<1>8. QED
  BY <1>1, <1>3, <1>4, <1>5, <1>6, <1>7 DEF SR!Save

\* The path is empty while the launch is at the gap; a failure there leaves
\* the old file where it is kept.
LEMMA GapMaps ==
    ASSUME FInv, FInv', ~raced, SF!Replace \/ SF!Rollback
    PROVE  SR!Next \/ UNCHANGED <<SF!Content, left, saved, raced, spent>>
<1>1. /\ SF!Content = own.previous /\ file = SF!Missing /\ own.previous # SF!Missing
      /\ own.replacement.user = own.previous.user
      /\ UNCHANGED <<saved, raced>> /\ write \in Launches
  BY Mapped DEF FInv, FTyped, Same, Aimed, SF!At, SF!Replace, SF!Rollback, SF!Refuse
<1>2. ASSUME SF!Goto("idle") \/ SF!Goto("spawn") PROVE SF!Content' = file'
  BY <1>1, <1>2 DEF SF!Goto, SF!Content, SF!At, Launches
<1>3. CASE SF!Replace
  <2>1. CASE file' = own.replacement /\ SF!Goto("spawn") /\ SF!Drop /\ UNCHANGED spent
    BY <1>1, <1>2, <2>1, Managed DEF SF!Drop, SR!Next
  <2>2. CASE SF!Fault /\ SF!Goto("rollback") /\ UNCHANGED <<file, own, left>>
    <3>1. SF!Content' = SF!Content
      BY <1>1, <2>2 DEF SF!Goto, SF!Content, SF!At, Launches
    <3>2. QED
      BY <1>1, <2>2, <3>1 DEF SF!Fault, SR!Fail, SR!Next
  <2>3. QED
    BY <1>3, <2>1, <2>2 DEF SF!Replace
<1>4. CASE SF!Rollback
  <2>1. SF!Content' = file'
    BY <1>2, <1>4 DEF SF!Rollback, SF!Refuse
  <2>2. CASE file' = own.previous /\ SF!Drop /\ UNCHANGED spent
    BY <1>1, <2>1, <2>2 DEF SF!Drop
  <2>3. CASE SF!Fault /\ SF!Leave /\ UNCHANGED file
    BY <1>1, <2>1, <2>3 DEF SF!Fault, SF!Leave, SF!Missing, SR!Empty, SR!Fail, SR!Next
  <2>4. QED
    BY <1>4, <2>2, <2>3 DEF SF!Rollback
<1>5. QED
  BY <1>3, <1>4

LEMMA CommitMaps ==
    ASSUME FInv, FInv', ~raced, SF!Commit
    PROVE  SR!Next \/ UNCHANGED <<SF!Content, left, saved, raced, spent>>
<1>1. /\ SF!Content = file /\ own.replacement.user = file.user /\ UNCHANGED <<saved, raced>>
      /\ write \in Launches /\ own \in Directories
  BY Mapped DEF FInv, FTyped, Same, Aimed, SF!At, SF!Commit, SF!Refuse
<1>2. ASSUME SF!Goto("idle") \/ SF!Goto("spawn") PROVE SF!Content' = file'
  BY <1>1, <1>2 DEF SF!Goto, SF!Content, SF!At, Launches
<1>3. CASE file' = own.replacement /\ SF!Goto("spawn") /\ SF!Drop /\ UNCHANGED spent
  BY <1>1, <1>2, <1>3, Managed DEF SF!Drop, SR!Next
<1>4. CASE SF!Refuse /\ SF!Drop /\ UNCHANGED <<file, spent>>
  BY <1>1, <1>2, <1>4 DEF SF!Refuse, SF!Drop
<1>5. CASE /\ own' = [own EXCEPT !.previous = file] /\ file' = SF!Missing
           /\ SF!Goto("replace") /\ UNCHANGED <<left, spent>>
  <2>1. SF!Content' = file
    BY <1>1, <1>5 DEF SF!Goto, SF!Content, SF!At, Launches, Directories
  <2>2. QED
    BY <1>1, <1>5, <2>1
<1>6. CASE SF!Fault /\ SF!Refuse /\ SF!Drop /\ UNCHANGED file
  BY <1>1, <1>2, <1>6 DEF SF!Fault, SF!Refuse, SF!Drop, SR!Fail, SR!Next
<1>7. QED
  BY <1>3, <1>4, <1>5, <1>6 DEF SF!Commit

LEMMA EarlyMaps ==
    ASSUME FInv, FInv', ~raced, SF!Read \/ SF!Remove \/ SF!Stage \/ SF!Spawn \/ SF!Rearrange
    PROVE  SR!Next \/ UNCHANGED <<SF!Content, left, saved, raced, spent>>
<1>1. /\ SF!Content = file /\ UNCHANGED <<saved, raced>> /\ write \in Launches
  BY Mapped
  DEF FInv, FTyped, SF!At, SF!Read, SF!Remove, SF!Stage, SF!Spawn, SF!Rearrange, SF!Refuse
<1>2. ASSUME write'.step \notin {"replace", "rollback"} PROVE SF!Content' = file'
  BY <1>2 DEF SF!Content, SF!At
<1>3. \A step \in Steps : SF!Goto(step) => write'.step = step
  BY <1>1 DEF SF!Goto, Launches
<1>4. CASE SF!Read \/ SF!Spawn \/ SF!Rearrange
  <2>1. write'.step \notin {"replace", "rollback"}
    BY <1>4 DEF SF!Read, SF!Spawn, SF!Rearrange, SF!At, SF!NoWrite
  <2>2. QED
    BY <1>1, <1>2, <1>4, <2>1 DEF SF!Read, SF!Spawn, SF!Rearrange
<1>5. CASE SF!Remove
  <2>1. file.user = 0
    BY <1>5, Parts DEF SF!Remove, FInv, Same, Aimed
  <2>2. CASE SF!Goto("spawn") /\ file' = SF!Missing /\ UNCHANGED <<left, spent>>
    <3>1. SF!Content' = SF!Missing
      BY <1>2, <1>3, <2>2 DEF Steps
    <3>2. QED
      BY <1>1, <2>1, <2>2, <3>1, Parts, Managed DEF SR!Next
  <2>3. CASE SF!Fault /\ SF!Refuse /\ UNCHANGED <<file, left>>
    <3>1. SF!Content' = file
      BY <1>2, <1>3, <2>3 DEF Steps, SF!Refuse
    <3>2. QED
      BY <1>1, <2>3, <3>1 DEF SF!Fault, SR!Fail, SR!Next
  <2>4. QED
    BY <1>5, <2>2, <2>3 DEF SF!Remove
<1>6. CASE SF!Stage
  <2>1. CASE SF!Goto("commit") /\ UNCHANGED <<file, left, spent>>
    BY <1>1, <1>2, <1>3, <2>1 DEF Steps
  <2>2. CASE SF!Fault /\ SF!Drop /\ SF!Refuse /\ UNCHANGED file
    <3>1. SF!Content' = file
      BY <1>2, <1>3, <2>2 DEF Steps, SF!Refuse
    <3>2. QED
      BY <1>1, <2>2, <3>1 DEF SF!Fault, SF!Drop, SR!Fail, SR!Next
  <2>3. QED
    BY <1>6, <2>1, <2>2 DEF SF!Stage
<1>7. QED
  BY <1>4, <1>5, <1>6

LEMMA DieMaps ==
    ASSUME FInv, Vacant, ~raced, SF!Die
    PROVE  SR!Fail
<1>1. /\ UNCHANGED <<file, saved, raced>> /\ spent' = spent + 1
      /\ left' = left \cup ({own.previous} \ {SF!Missing}) /\ write' = SF!NoWrite
  BY DEF SF!Die, SF!Leave, SF!Fault
<1>2. SF!Content' = file
  BY <1>1, Parts DEF SF!Content, SF!At
<1>3. CASE SF!At("replace") \/ SF!At("rollback")
  <2>1. SF!Content = own.previous /\ file = SF!Missing /\ own.previous # SF!Missing
    BY <1>3, Mapped DEF FInv, Same
  <2>2. QED
    BY <1>1, <1>2, <2>1 DEF SF!Missing, SR!Empty, SR!Fail
<1>4. CASE ~(SF!At("replace") \/ SF!At("rollback"))
  BY <1>1, <1>2, <1>4, Mapped DEF Vacant, SR!Fail
<1>5. QED
  BY <1>3, <1>4

\* Every step of the file is one of the abstract file, or invisible in it.
LEMMA FileMaps ==
    ASSUME FInv, FInv', Vacant, SF!FileNext
    PROVE  [SR!Next]_<<SF!Content, left, saved, raced, spent>>
<1>1. CASE SF!Save
  BY <1>1, SaveMaps DEF SR!Next
<1>2. CASE raced /\ ~SF!Save
  <2>1. left \subseteq left' /\ UNCHANGED <<saved, raced>>
    BY <1>2
    DEF SF!FileNext, SF!Rearrange, SF!Read, SF!Remove, SF!Stage, SF!Commit, SF!Replace, SF!Rollback,
        SF!Spawn, SF!Die, SF!Refuse, SF!Drop, SF!Leave
  <2>2. spent' \in {spent, spent + 1}
    BY <1>2
    DEF SF!FileNext, SF!Rearrange, SF!Read, SF!Remove, SF!Stage, SF!Commit, SF!Replace, SF!Rollback,
        SF!Spawn, SF!Die, SF!Fault
  <2>3. QED
    BY <1>2, <2>1, <2>2, Overtaken DEF SR!Next
<1>3. CASE ~raced /\ ~SF!Save
  BY <1>3, EarlyMaps, CommitMaps, GapMaps, DieMaps DEF SF!FileNext, SR!Next
<1>4. QED
  BY <1>1, <1>2, <1>3

\* The launcher's edits of a file are single steps to its user, who keeps the
\* old file whole whatever fails (StagedFile::commit).
THEOREM Replacing == MachinesSpec => FileReplaced
<1>1. MachinesInit => FInv /\ Vacant
  BY FileBegins DEF MachinesInit, SF!FileInit, Vacant, SF!NoDirectory
<1>2. MachinesInit => SR!Init
  <2> SUFFICES ASSUME SF!FileInit PROVE SR!Init
    BY DEF MachinesInit
  <2>1. SF!Content = SF!Missing
    BY DEF SF!FileInit, SF!NoDirectory, SF!Content
  <2>2. QED
    BY <2>1 DEF SF!FileInit, SF!Missing, SR!Empty, SR!Init
<1>3. FInv /\ Vacant /\ [MachinesNext]_machines => FInv' /\ Vacant'
  <2> SUFFICES ASSUME FInv, Vacant, [SF!FileNext]_fileVars PROVE Vacant'
    BY FileSteps, Apart
  <2>1. CASE UNCHANGED fileVars
    BY <2>1 DEF fileVars, Vacant, SF!At
  <2>2. QED
    BY <2>1, VacantStep
<1>4. FInv /\ Vacant /\ [MachinesNext]_machines => [SR!Next]_<<SF!Content, left, saved, raced, spent>>
  <2> SUFFICES ASSUME FInv, FInv', Vacant, [SF!FileNext]_fileVars
               PROVE  [SR!Next]_<<SF!Content, left, saved, raced, spent>>
    BY FileSteps, Apart
  <2>1. CASE UNCHANGED fileVars
    BY <2>1 DEF fileVars, SF!Content, SF!At
  <2>2. QED
    BY <2>1, FileMaps
<1>5. QED
  BY <1>1, <1>2, <1>3, <1>4, PTL DEF MachinesSpec, FileReplaced, SR!Spec

-----------------------------------------------------------------------------
(* The cleaning.                                                            *)

ReportFiles == Attachments \cup {HT!Metadata}
Entries == Reports \cup RecentLinks
AtReport == {"preflight", "remove", "directory"}

ReportStates == [there : BOOLEAN, files : SUBSET ReportFiles, apps : HT!Named]
Cleaners == [at : {"off", "next", "link", "done"} \cup AtReport, entry : Entries \cup {"none"},
             todo : SUBSET Entries, held : SUBSET (Reports \X ReportFiles), whole : BOOLEAN]

HTyped ==
    /\ reports \in [Reports -> ReportStates] /\ \A r \in Reports : ~reports[r].there => reports[r].files = {}
    /\ links \in [RecentLinks -> {"ours", "other", "none"}]
    /\ cleaner \in Cleaners
    /\ owed \subseteq Entries /\ doomed \in [Reports -> SUBSET ReportFiles]

\* Where the cleaner is tells what it works on, which it does not look at
\* again; it holds files only to remove them.
Employed ==
    /\ HT!At("link") => cleaner.entry \in RecentLinks
    /\ cleaner.at \in AtReport => cleaner.entry \in Reports
    /\ cleaner.at \in AtReport \cup {"link"} => cleaner.entry \notin cleaner.todo
    /\ ~HT!At("remove") => cleaner.held = {}

\* Of a report whose removal began, what was there then and has not been
\* removed is still there, the metadata with it.
Dooming ==
    \A r \in Reports : doomed[r] \subseteq reports[r].files /\ (doomed[r] # {} => HT!Metadata \in doomed[r])

\* What is held is what is still to be removed, of a report that is ours, and
\* no one else has it open.
Holding ==
    HT!At("remove") =>
        /\ cleaner.held = {<<cleaner.entry, f>> : f \in doomed[cleaner.entry]} /\ cleaner.held # {}
        /\ cleaner.held \cap handles = {}
        /\ HT!Attributed(reports[cleaner.entry].apps)

Cleaned(x) == IF x \in Reports THEN ~reports[x].there ELSE links[x] = "none"

Found(x) == IF x \in Reports THEN HT!HasMetadata(x) /\ HT!Attributed(reports[x].apps) ELSE links[x] = "ours"

\* As long as nothing was passed over, what was ours when the cleaning began
\* and nobody changed is gone, or worked on, or still to be looked at.
Owing ==
    cleaner.whole /\ ~HT!At("off") =>
        \A x \in owed :
            \/ Cleaned(x)
            \/ cleaner.at \in AtReport \cup {"link"} /\ cleaner.entry = x
            \/ ~HT!At("done") /\ x \in cleaner.todo /\ Found(x)

HInv == HTyped /\ Employed /\ Dooming /\ Holding /\ Owing

\* What the cleaner becomes: on to an entry, or on to the next one.
LEMMA Cleanings ==
    ASSUME cleaner \in Cleaners, NEW x \in Entries, NEW label \in AtReport \cup {"link"}
    PROVE  /\ HT!Take(x, label) \in Cleaners /\ HT!Take(x, label).at = label /\ HT!Take(x, label).entry = x
           /\ HT!Take(x, label).todo = cleaner.todo \ {x} /\ HT!Take(x, label).held = cleaner.held
           /\ HT!Take(x, label).whole = cleaner.whole
           /\ HT!Skip(x) \in Cleaners /\ HT!Skip(x).at = "next" /\ HT!Skip(x).todo = cleaner.todo \ {x}
           /\ HT!Skip(x).held = {} /\ HT!Skip(x).whole = cleaner.whole
           /\ HT!Incomplete(x) \in Cleaners /\ HT!Incomplete(x).at = "next" /\ HT!Incomplete(x).held = {}
           /\ HT!Incomplete(x).whole = FALSE
<1>1. /\ HT!Take(x, label) \in Cleaners /\ HT!Take(x, label).at = label /\ HT!Take(x, label).entry = x
      /\ HT!Take(x, label).todo = cleaner.todo \ {x} /\ HT!Take(x, label).held = cleaner.held
      /\ HT!Take(x, label).whole = cleaner.whole
  BY DEF Cleaners, HT!Take
<1>2. /\ HT!Skip(x) \in Cleaners /\ HT!Skip(x).at = "next" /\ HT!Skip(x).todo = cleaner.todo \ {x}
      /\ HT!Skip(x).held = {} /\ HT!Skip(x).whole = cleaner.whole
  BY DEF Cleaners, HT!Skip
<1>3. /\ HT!Incomplete(x) \in Cleaners /\ HT!Incomplete(x).at = "next" /\ HT!Incomplete(x).held = {}
      /\ HT!Incomplete(x).whole = FALSE
  BY <1>2 DEF Cleaners, HT!Incomplete
<1>4. QED
  BY <1>1, <1>2, <1>3

\* An entry that is passed over: nothing of the computer changes.
LEMMA Passing ==
    ASSUME HInv, NEW x \in Entries, cleaner' = HT!Incomplete(x),
           UNCHANGED <<reports, links, owed, doomed>>
    PROVE  HInv'
<1>1. /\ cleaner' \in Cleaners /\ cleaner'.at = "next" /\ cleaner'.held = {} /\ cleaner'.whole = FALSE
  BY Cleanings DEF HInv, HTyped
<1>2. QED
  BY <1>1 DEF HInv, HTyped, Employed, Dooming, Holding, Owing, HT!At, AtReport

\* An entry that is not ours, or no longer there: on to the next.
LEMMA Skipping ==
    ASSUME HInv, NEW x \in Entries, cleaner' = HT!Skip(x), UNCHANGED <<reports, links, owed, doomed>>,
           ~HT!At("off"), ~HT!At("done"), x \in owed => Cleaned(x) \/ (~Found(x) /\ HT!At("next")),
           cleaner.at \in AtReport \cup {"link"} => cleaner.entry = x
    PROVE  HInv'
<1>1. /\ cleaner' \in Cleaners /\ cleaner'.at = "next" /\ cleaner'.held = {} /\ cleaner'.whole = cleaner.whole
      /\ cleaner'.todo = cleaner.todo \ {x}
  BY Cleanings DEF HInv, HTyped
<1>2. Owing'
  <2> SUFFICES ASSUME cleaner.whole, NEW y \in owed PROVE Cleaned(y) \/ (y \in cleaner'.todo /\ Found(y))
    BY <1>1 DEF Owing, HT!At, Cleaned, Found, HT!HasMetadata
  <2>1. CASE y = x
    BY <2>1 DEF HInv, Owing, HT!At, AtReport
  <2>2. CASE y # x
    BY <1>1, <2>2 DEF HInv, Owing, HT!At
  <2>3. QED
    BY <2>1, <2>2
<1>3. QED
  BY <1>1, <1>2 DEF HInv, HTyped, Employed, Dooming, Holding, HT!At, AtReport

\* A cleaning begins: what is ours now is in the listing of a whole cleaning.
LEMMA Beginning == ASSUME MachinesAssumption, HInv, HT!Begin PROVE HInv'
<1> DEFINE seen == cleaner'.todo
<1>1. /\ cleaner' \in Cleaners /\ cleaner'.at = "next" /\ cleaner'.held = {}
      /\ cleaner'.whole => cleaner'.todo = HT!Listed
  <2>1. HT!Listed \in SUBSET Entries
    BY DEF HT!Listed, Entries
  <2>2. PICK s \in SUBSET Entries : cleaner' = [HT!Idle EXCEPT !.at = "next", !.todo = s, !.whole = (s = HT!Listed)]
    BY <2>1 DEF HT!Begin
  <2>3. /\ cleaner'.at = "next" /\ cleaner'.entry = "none" /\ cleaner'.todo = s /\ cleaner'.held = {}
        /\ cleaner'.whole = (s = HT!Listed)
        /\ cleaner' = [at |-> "next", entry |-> "none", todo |-> s, held |-> {}, whole |-> (s = HT!Listed)]
    BY <2>2, Zenon DEF HT!Idle
  <2>4. cleaner' \in Cleaners
    BY <2>3 DEF Cleaners
  <2>5. QED
    BY <2>3, <2>4
<1>2. HTyped'
  BY <1>1 DEF HInv, HTyped, HT!Begin, HT!Ours, Entries
<1>3. Owing'
  <2> SUFFICES ASSUME cleaner'.whole, NEW x \in HT!Ours PROVE x \in cleaner'.todo /\ Found(x)
    BY <1>1 DEF Owing, HT!Begin, HT!At, Found, HT!HasMetadata
  <2>1. CASE x \in Reports
    BY <1>1, <2>1 DEF MachinesAssumption, HT!Ours, HT!Listed, Found, HT!HasMetadata
  <2>2. CASE x \notin Reports
    BY <1>1, <2>2 DEF HT!Ours, HT!Listed, Found
  <2>3. QED
    BY <2>1, <2>2
<1>4. QED
  BY <1>1, <1>2, <1>3 DEF HInv, Employed, Dooming, Holding, HT!Begin, HT!At, AtReport

\* On to an entry, which is ours: it is the one that is worked on.
LEMMA Taking ==
    ASSUME HInv, NEW x \in Entries, NEW label \in {"preflight", "link"},
           label = "link" => x \in RecentLinks, label = "preflight" => x \in Reports,
           HT!At("next"), cleaner' = HT!Take(x, label), UNCHANGED <<reports, links, owed, doomed>>
    PROVE  HInv'
<1>1. /\ cleaner' \in Cleaners /\ cleaner'.at = label /\ cleaner'.entry = x
      /\ cleaner'.todo = cleaner.todo \ {x} /\ cleaner'.held = {} /\ cleaner'.whole = cleaner.whole
  <2>1. cleaner \in Cleaners /\ label \in AtReport \cup {"link"} /\ cleaner.held = {}
    BY DEF HInv, HTyped, Employed, HT!At, AtReport
  <2>2. QED
    BY <2>1, Cleanings
<1>2. Owing'
  <2> SUFFICES ASSUME cleaner.whole, NEW y \in owed, y # x PROVE Cleaned(y) \/ (y \in cleaner'.todo /\ Found(y))
    BY <1>1 DEF Owing, HT!At, Cleaned, Found, HT!HasMetadata, AtReport
  <2>1. QED
    BY <1>1 DEF HInv, Owing, HT!At, AtReport
<1>3. QED
  BY <1>1, <1>2 DEF HInv, HTyped, Employed, Dooming, Holding, HT!At, AtReport

LEMMA Reading == ASSUME MachinesAssumption, HInv, NEW l \in RecentLinks, HT!ReadLink(l) PROVE HInv'
<1> USE DEF Entries
<1>1. CASE cleaner' = HT!Incomplete(l)
  BY <1>1, Passing DEF HT!ReadLink
<1>2. CASE links[l] = "ours" /\ cleaner' = HT!Take(l, "link")
  BY <1>2, Taking DEF HT!ReadLink
<1>3. CASE links[l] # "ours" /\ cleaner' = HT!Skip(l)
  BY <1>3, Skipping DEF HT!ReadLink, HT!At, AtReport, Found, MachinesAssumption
<1>4. QED
  BY <1>1, <1>2, <1>3 DEF HT!ReadLink

LEMMA Scanning == ASSUME HInv, NEW r \in Reports, HT!Scan(r) PROVE HInv'
<1> USE DEF Entries
<1>1. CASE cleaner' = HT!Incomplete(r)
  BY <1>1, Passing DEF HT!Scan
<1>2. CASE cleaner' = HT!Take(r, "preflight")
  BY <1>2, Taking DEF HT!Scan
<1>3. CASE ~HT!Attributed(reports[r].apps) /\ cleaner' = HT!Skip(r)
  BY <1>3, Skipping DEF HT!Scan, HT!At, AtReport, Found
<1>4. QED
  BY <1>1, <1>2, <1>3 DEF HT!Scan

LEMMA Unlinking == ASSUME MachinesAssumption, HInv, NEW l \in RecentLinks, HT!RemoveLink(l) PROVE HInv'
<1> USE DEF Entries
<1>0. l \notin Reports
  BY DEF MachinesAssumption
<1>1. CASE cleaner' = HT!Incomplete(l) /\ UNCHANGED links
  BY <1>1, Passing DEF HT!RemoveLink
<1>2. CASE links' = [links EXCEPT ![l] = "none"] /\ cleaner' = HT!Skip(l)
  <2>1. /\ cleaner' \in Cleaners /\ cleaner'.at = "next" /\ cleaner'.held = {} /\ cleaner'.whole = cleaner.whole
        /\ cleaner'.todo = cleaner.todo \ {l}
    BY <1>2, Cleanings DEF HInv, HTyped
  <2>2. UNCHANGED <<reports, owed, doomed>> /\ HT!At("link") /\ cleaner.entry = l
    BY DEF HT!RemoveLink, HT!Of
  <2>3. HTyped'
    BY <1>2, <2>1, <2>2 DEF HInv, HTyped
  <2>4. Owing'
    <3> SUFFICES ASSUME cleaner.whole, NEW y \in owed
                 PROVE  Cleaned(y)' \/ (y \in cleaner'.todo /\ Found(y)')
      BY <2>1, <2>2, Zenon DEF Owing, HT!At
    <3>0. y \in Entries
      BY DEF HInv, HTyped
    <3>1. CASE y = l
      BY <1>0, <1>2, <3>1 DEF HInv, HTyped, Cleaned
    <3>2. CASE y # l
      <4>1. Cleaned(y) \/ (y \in cleaner.todo /\ Found(y))
        BY <2>2, <3>2 DEF HInv, Owing, HT!At
      <4>2. y \notin Reports => links'[y] = links[y]
        BY <1>2, <3>0, <3>2 DEF HInv, HTyped
      <4>3. QED
        BY <2>1, <2>2, <3>2, <4>1, <4>2 DEF Cleaned, Found, HT!HasMetadata
    <3>3. QED
      BY <3>1, <3>2
  <2>5. QED
    BY <2>1, <2>2, <2>3, <2>4 DEF HInv, Employed, Dooming, Holding, HT!At, AtReport
<1>3. QED
  BY <1>1, <1>2 DEF HT!RemoveLink

\* The files of a report that is still ours are held: what is doomed now.
LEMMA Preparing == ASSUME HInv, NEW r \in Reports, HT!Preflight(r) PROVE HInv'
<1> USE DEF Entries
<1>1. CASE cleaner' = HT!Incomplete(r) /\ UNCHANGED doomed
  BY <1>1, Passing DEF HT!Preflight
<1>2. CASE /\ HT!Idlers(r) # {} /\ HT!Attributed(reports[r].apps)
           /\ cleaner' = [cleaner EXCEPT !.at = "remove", !.held = HT!Idlers(r)]
           /\ doomed' = [doomed EXCEPT ![r] = reports[r].files]
  <2>1. UNCHANGED <<reports, links, handles, owed>> /\ HT!At("preflight") /\ cleaner.entry = r
    BY DEF HT!Preflight, HT!Of
  <2>2. HT!HasMetadata(r) /\ HT!Idlers(r) = HT!FilesOf(r) /\ HT!FilesOf(r) \cap handles = {}
    BY <1>2 DEF HT!Idlers
  <2>3. reports[r].files \subseteq ReportFiles /\ cleaner \in Cleaners /\ doomed \in [Reports -> SUBSET ReportFiles]
    BY DEF HInv, HTyped, ReportStates
  <2>4. HT!FilesOf(r) \in SUBSET (Reports \X ReportFiles)
    BY <2>3 DEF HT!FilesOf
  <2>5. /\ cleaner' \in Cleaners /\ cleaner'.at = "remove" /\ cleaner'.entry = r
        /\ cleaner'.held = HT!FilesOf(r) /\ cleaner'.todo = cleaner.todo /\ cleaner'.whole = cleaner.whole
    BY <1>2, <2>1, <2>2, <2>3, <2>4 DEF Cleaners, AtReport
  <2>6. HTyped'
    BY <1>2, <2>1, <2>3, <2>5 DEF HInv, HTyped
  <2>7. Employed'
    BY <2>1, <2>5 DEF HInv, Employed, HT!At, AtReport
  <2>8. Dooming'
    BY <1>2, <2>1, <2>2, <2>3 DEF HInv, Dooming, HT!HasMetadata
  <2>9. Holding'
    <3>1. doomed'[r] = reports[r].files
      BY <1>2, <2>3
    <3>2. QED
      BY <1>2, <2>1, <2>2, <2>5, <3>1 DEF Holding, HT!FilesOf, HT!Attributed
  <2>10. Owing'
    BY <2>1, <2>5 DEF HInv, Owing, HT!At, AtReport, Cleaned, Found, HT!HasMetadata
  <2>11. QED
    BY <2>6, <2>7, <2>8, <2>9, <2>10 DEF HInv
<1>3. QED
  BY <1>1, <1>2 DEF HT!Preflight

\* A file goes: an attachment, or the metadata when it is the last.
LEMMA Deleting == ASSUME HInv, NEW r \in Reports, HT!RemoveFile(r) PROVE HInv'
<1> USE DEF Entries
<1>0. /\ HT!At("remove") /\ cleaner.entry = r /\ UNCHANGED <<links, handles, owed>>
      /\ cleaner \in Cleaners /\ doomed \in [Reports -> SUBSET ReportFiles] /\ reports \in [Reports -> ReportStates]
      /\ cleaner.held = {<<r, f>> : f \in doomed[r]}
  BY DEF HT!RemoveFile, HT!Of, HInv, HTyped, Holding
<1>1. CASE cleaner' = HT!Incomplete(r) /\ UNCHANGED <<reports, doomed>>
  BY <1>0, <1>1, Passing
<1>2. ASSUME NEW x \in HT!NextToGo(cleaner.held),
             reports' = [reports EXCEPT ![r].files = @ \ {x[2]}],
             doomed' = [doomed EXCEPT ![r] = @ \ {x[2]}],
             cleaner' = [cleaner EXCEPT !.held = @ \ {x},
                                        !.at = IF cleaner.held = {x} THEN "directory" ELSE @]
      PROVE  HInv'
  <2>1. PICK f \in doomed[r] : x = <<r, f>>
    BY <1>0, <1>2 DEF HT!NextToGo
  <2>2. x[2] = f
    BY <2>1
  <2>3. f = HT!Metadata => doomed[r] = {f}
    <3> SUFFICES ASSUME f = HT!Metadata, NEW g \in doomed[r], g # f PROVE FALSE
      BY <2>1
    <3>1. <<r, g>> \in cleaner.held /\ <<r, g>>[2] = g
      BY <1>0
    <3>2. <<r, g>> \in {y \in cleaner.held : y[2] # HT!Metadata}
      BY <3>1
    <3>3. x \in {y \in cleaner.held : y[2] # HT!Metadata}
      BY <1>2, <3>2 DEF HT!NextToGo
    <3>4. QED
      BY <2>2, <3>3
  <2>4. /\ doomed'[r] = doomed[r] \ {f} /\ \A q \in Reports : q # r => doomed'[q] = doomed[q] /\ reports'[q] = reports[q]
        /\ reports'[r].files = reports[r].files \ {f} /\ reports'[r].apps = reports[r].apps
        /\ reports'[r].there = reports[r].there
    BY <1>0, <1>2, <2>2 DEF ReportStates
  <2>5. cleaner.held \ {x} = {<<r, g>> : g \in doomed'[r]}
    BY <1>0, <2>1, <2>4
  <2>6. /\ cleaner' \in Cleaners /\ cleaner'.held = {<<r, g>> : g \in doomed'[r]} /\ cleaner'.entry = r
        /\ cleaner'.todo = cleaner.todo /\ cleaner'.whole = cleaner.whole
        /\ cleaner'.at \in {"remove", "directory"}
        /\ (cleaner'.at = "remove") <=> (cleaner.held # {x})
    BY <1>0, <1>2, <2>5 DEF Cleaners, AtReport, HT!At
  <2>7. cleaner'.at = "remove" => cleaner'.held # {}
    BY <1>0, <2>1, <2>5, <2>6
  <2>8. cleaner'.at = "directory" => cleaner'.held = {}
    BY <2>5, <2>6
  <2>9. HTyped'
    <3>1. reports' \in [Reports -> ReportStates]
      BY <1>0, <1>2 DEF ReportStates
    <3>2. \A q \in Reports : ~reports'[q].there => reports'[q].files = {}
      BY <2>4 DEF HInv, HTyped
    <3>3. doomed' \in [Reports -> SUBSET ReportFiles]
      BY <1>0, <1>2
    <3>4. QED
      BY <1>0, <2>6, <3>1, <3>2, <3>3 DEF HInv, HTyped
  <2>10. Employed'
    BY <1>0, <2>6, <2>8 DEF HInv, Employed, HT!At, AtReport
  <2>11. Dooming'
    <3> SUFFICES ASSUME NEW q \in Reports
                 PROVE  doomed'[q] \subseteq reports'[q].files /\ (doomed'[q] # {} => HT!Metadata \in doomed'[q])
      BY DEF Dooming
    <3>1. doomed[q] \subseteq reports[q].files /\ (doomed[q] # {} => HT!Metadata \in doomed[q])
      BY DEF HInv, Dooming
    <3>2. CASE q = r
      BY <2>1, <2>3, <2>4, <3>1, <3>2
    <3>3. CASE q # r
      BY <2>4, <3>1, <3>3
    <3>4. QED
      BY <3>2, <3>3
  <2>12. Holding'
    <3>1. cleaner.held \cap handles = {} /\ HT!Attributed(reports[r].apps)
      BY <1>0 DEF HInv, Holding
    <3>2. cleaner'.held \cap handles = {}
      BY <2>5, <2>6, <3>1
    <3>3. QED
      BY <1>0, <2>4, <2>6, <2>7, <3>1, <3>2 DEF Holding, HT!At, HT!Attributed
  <2>13. Owing'
    <3> SUFFICES ASSUME cleaner'.whole, NEW y \in owed, y # r PROVE Cleaned(y)' \/ (y \in cleaner'.todo /\ Found(y)')
      BY <1>0, <2>6 DEF Owing, HT!At, AtReport
    <3>1. Cleaned(y) \/ (y \in cleaner.todo /\ Found(y))
      BY <1>0, <2>6 DEF HInv, Owing, HT!At
    <3>2. QED
      BY <1>0, <2>4, <2>6, <3>1 DEF Cleaned, Found, HT!HasMetadata, HT!Attributed
  <2>14. QED
    BY <2>9, <2>10, <2>11, <2>12, <2>13 DEF HInv
<1>3. QED
  BY <1>1, <1>2 DEF HT!RemoveFile

\* The directory is empty, and goes.
LEMMA Emptying == ASSUME HInv, NEW r \in Reports, HT!RemoveDirectory(r) PROVE HInv'
<1> USE DEF Entries
<1>1. CASE cleaner' = HT!Incomplete(r) /\ UNCHANGED reports
  BY <1>1, Passing DEF HT!RemoveDirectory
<1>2. CASE reports[r].files = {} /\ reports' = [reports EXCEPT ![r] = HT!Gone] /\ cleaner' = HT!Skip(r)
  <2>1. /\ cleaner' \in Cleaners /\ cleaner'.at = "next" /\ cleaner'.held = {} /\ cleaner'.whole = cleaner.whole
        /\ cleaner'.todo = cleaner.todo \ {r}
    BY <1>2, Cleanings DEF HInv, HTyped
  <2>2. UNCHANGED <<links, owed, doomed, handles>> /\ HT!At("directory") /\ cleaner.entry = r
    BY DEF HT!RemoveDirectory, HT!Of
  <2>3. reports \in [Reports -> ReportStates] /\ HT!Gone \in ReportStates /\ HT!Gone.files = {} /\ ~HT!Gone.there
    BY DEF HInv, HTyped, ReportStates, HT!Gone, HT!Named
  <2>4. reports'[r] = HT!Gone /\ \A q \in Reports : q # r => reports'[q] = reports[q]
    BY <1>2, <2>3
  <2>5. HTyped'
    <3>1. reports' \in [Reports -> ReportStates]
      BY <1>2, <2>3
    <3>2. \A q \in Reports : ~reports'[q].there => reports'[q].files = {}
      BY <2>3, <2>4 DEF HInv, HTyped
    <3>3. QED
      BY <2>1, <2>2, <3>1, <3>2 DEF HInv, HTyped
  <2>6. Dooming'
    BY <1>2, <2>2, <2>3, <2>4 DEF HInv, Dooming
  <2>7. Owing'
    <3> SUFFICES ASSUME cleaner.whole, NEW y \in owed PROVE Cleaned(y)' \/ (y \in cleaner'.todo /\ Found(y)')
      BY <2>1, <2>2, Zenon DEF Owing, HT!At
    <3>1. CASE y = r
      BY <2>3, <2>4, <3>1 DEF Cleaned
    <3>2. CASE y # r
      <4>1. Cleaned(y) \/ (y \in cleaner.todo /\ Found(y))
        BY <2>2, <3>2 DEF HInv, Owing, HT!At
      <4>2. QED
        BY <2>1, <2>2, <2>4, <3>2, <4>1 DEF Cleaned, Found, HT!HasMetadata, HT!Attributed
    <3>3. QED
      BY <3>1, <3>2
  <2>8. QED
    BY <2>1, <2>2, <2>5, <2>6, <2>7 DEF HInv, Employed, Holding, HT!At, AtReport
<1>3. QED
  BY <1>1, <1>2 DEF HT!RemoveDirectory

\* Nothing is left to look at; or the cleaner dies.
LEMMA Concluding == ASSUME HInv, HT!Finish \/ HT!Die PROVE HInv'
<1>1. CASE HT!Finish
  <2>1. UNCHANGED <<reports, links, owed, doomed>> /\ HT!At("next") /\ cleaner.todo = {} /\ cleaner \in Cleaners
        /\ cleaner' = [cleaner EXCEPT !.at = "done"]
    BY <1>1 DEF HT!Finish, HInv, HTyped
  <2>2. /\ cleaner' \in Cleaners /\ cleaner'.at = "done" /\ cleaner'.held = cleaner.held
        /\ cleaner'.whole = cleaner.whole
    BY <2>1 DEF Cleaners
  <2>3. Owing'
    BY <2>1, <2>2 DEF HInv, Owing, HT!At, AtReport, Cleaned
  <2>4. QED
    BY <2>1, <2>2, <2>3 DEF HInv, HTyped, Employed, Dooming, Holding, HT!At, AtReport
<1>2. CASE HT!Die
  <2>1. cleaner' = HT!Idle /\ HT!Idle \in Cleaners /\ HT!Idle.at = "off" /\ HT!Idle.held = {}
        /\ UNCHANGED <<reports, links, owed, doomed>>
    BY <1>2 DEF HT!Die, HT!Idle, Cleaners
  <2>2. QED
    BY <2>1 DEF HInv, HTyped, Employed, Dooming, Holding, Owing, HT!At, AtReport
<1>3. QED
  BY <1>1, <1>2

\* The rest of the computer goes on.  What it changes is no longer what the
\* cleaning found, and what the cleaning holds it cannot change.
LEMMA Elsewhere == ASSUME MachinesAssumption, HInv, HT!Others PROVE HInv'
<1> USE DEF Entries
<1>1. CASE HT!Open \/ HT!Close
  <2>1. UNCHANGED <<reports, links, owed, doomed, cleaner>> /\ cleaner.held \cap handles' \subseteq cleaner.held \cap handles
    BY <1>1 DEF HT!Open, HT!Close, HT!Denied
  <2>2. QED
    BY <2>1 DEF HInv, HTyped, Employed, Dooming, Holding, Owing, HT!At, AtReport, Cleaned, Found, HT!HasMetadata
<1>2. ASSUME NEW r \in Reports, HT!FileReport(r) PROVE HInv'
  <2>1. /\ UNCHANGED <<links, handles, cleaner, doomed>> /\ ~reports[r].there /\ owed' = owed \ {r}
        /\ reports' = [reports EXCEPT ![r] = [HT!Gone EXCEPT !.there = TRUE]]
        /\ reports \in [Reports -> ReportStates]
    BY <1>2 DEF HT!FileReport, HInv, HTyped
  <2>2. [HT!Gone EXCEPT !.there = TRUE] \in ReportStates
    BY DEF ReportStates, HT!Gone, HT!Named
  <2>3. [HT!Gone EXCEPT !.there = TRUE].files = {} /\ [HT!Gone EXCEPT !.there = TRUE].there
    BY DEF HT!Gone
  <2>4. reports'[r].files = {} /\ reports'[r].there /\ \A q \in Reports : q # r => reports'[q] = reports[q]
    BY <2>1, <2>3
  <2>5. doomed[r] = {} /\ ~(HT!At("remove") /\ cleaner.entry = r)
    BY <2>1 DEF HInv, HTyped, Dooming, Holding
  <2>6. HTyped'
    <3>1. reports' \in [Reports -> ReportStates]
      BY <2>1, <2>2
    <3>2. \A q \in Reports : ~reports'[q].there => reports'[q].files = {}
      BY <2>4 DEF HInv, HTyped
    <3>3. QED
      BY <2>1, <3>1, <3>2 DEF HInv, HTyped
  <2>7. Owing'
    BY <2>1, <2>4 DEF HInv, Owing, HT!At, Cleaned, Found, HT!HasMetadata, HT!Attributed
  <2>8. Dooming' /\ Employed'
    BY <2>1, <2>4, <2>5 DEF HInv, Dooming, Employed, HT!At
  <2>9. Holding'
    BY <2>1, <2>4, <2>5 DEF HInv, Holding, HT!At, HT!Attributed, Employed, AtReport
  <2>10. QED
    BY <2>6, <2>7, <2>8, <2>9 DEF HInv
<1>3. ASSUME NEW r \in Reports, HT!Attach(r) PROVE HInv'
  <2>1. /\ UNCHANGED <<links, handles, cleaner, owed, doomed>> /\ reports[r].there
        /\ reports \in [Reports -> ReportStates]
    BY <1>3 DEF HT!Attach, HInv, HTyped
  <2>2. PICK f \in Attachments \ reports[r].files : reports' = [reports EXCEPT ![r].files = @ \cup {f}]
    BY <1>3 DEF HT!Attach
  <2>3. /\ reports' \in [Reports -> ReportStates]
        /\ \A q \in Reports : /\ reports'[q].there = reports[q].there /\ reports'[q].apps = reports[q].apps
                              /\ reports[q].files \subseteq reports'[q].files
                              /\ q # r => reports'[q].files = reports[q].files
    BY <2>1, <2>2 DEF ReportStates, ReportFiles
  <2>4. HTyped'
    BY <2>1, <2>3 DEF HInv, HTyped
  <2>5. Owing'
    BY <2>1, <2>3 DEF HInv, Owing, HT!At, Cleaned, Found, HT!HasMetadata, HT!Attributed
  <2>6. Dooming' /\ Employed'
    BY <2>1, <2>3 DEF HInv, Dooming, Employed, HT!At
  <2>7. Holding'
    BY <2>1, <2>3 DEF HInv, Holding, HT!At, HT!Attributed, Employed, AtReport
  <2>8. QED
    BY <2>4, <2>5, <2>6, <2>7 DEF HInv
<1>4. ASSUME NEW r \in Reports, HT!Describe(r) PROVE HInv'
  <2>1. /\ UNCHANGED <<links, handles, cleaner, doomed>> /\ reports[r].there /\ owed' = owed \ {r}
        /\ <<r, HT!Metadata>> \notin cleaner.held /\ reports \in [Reports -> ReportStates]
    BY <1>4 DEF HT!Describe, HT!Denied, HInv, HTyped
  <2>2. PICK apps \in HT!Named :
          reports' = [reports EXCEPT ![r].files = @ \cup {HT!Metadata}, ![r].apps = apps]
    BY <1>4 DEF HT!Describe
  <2>3. /\ reports' \in [Reports -> ReportStates]
        /\ \A q \in Reports : /\ reports'[q].there = reports[q].there
                              /\ reports[q].files \subseteq reports'[q].files
                              /\ q # r => reports'[q] = reports[q]
    BY <2>1, <2>2 DEF ReportStates, ReportFiles
  <2>4. HTyped'
    BY <2>1, <2>3 DEF HInv, HTyped
  <2>5. Owing'
    BY <2>1, <2>3 DEF HInv, Owing, HT!At, Cleaned, Found, HT!HasMetadata, HT!Attributed
  <2>6. Dooming' /\ Employed'
    BY <2>1, <2>3 DEF HInv, Dooming, Employed, HT!At
  <2>7. HT!At("remove") => cleaner.entry # r
    BY <2>1 DEF HInv, Holding, Dooming
  <2>8. Holding'
    BY <2>1, <2>3, <2>7 DEF HInv, Holding, HT!At, HT!Attributed, Employed, AtReport
  <2>9. QED
    BY <2>4, <2>5, <2>6, <2>8 DEF HInv
<1>5. ASSUME NEW l \in RecentLinks, HT!Relink(l) PROVE HInv'
  <2>1. /\ UNCHANGED <<reports, handles, cleaner, doomed>> /\ owed' = owed \ {l} /\ links \in [RecentLinks -> {"ours", "other", "none"}]
    BY <1>5 DEF HT!Relink, HInv, HTyped
  <2>2. PICK what \in {"ours", "other"} : links' = [links EXCEPT ![l] = what]
    BY <1>5 DEF HT!Relink
  <2>3. links' \in [RecentLinks -> {"ours", "other", "none"}] /\ \A k \in RecentLinks : k # l => links'[k] = links[k]
    BY <2>1, <2>2
  <2>4. owed \subseteq Reports \cup RecentLinks
    BY DEF HInv, HTyped
  <2>5. Owing'
    BY <2>1, <2>3, <2>4 DEF HInv, Owing, HT!At, Cleaned, Found, HT!HasMetadata, HT!Attributed
  <2>6. QED
    BY <2>1, <2>3, <2>5 DEF HInv, HTyped, Employed, Dooming, Holding, HT!At, HT!Attributed
<1>6. QED
  BY <1>1, <1>2, <1>3, <1>4, <1>5 DEF HT!Others

LEMMA HostBegins == MachinesAssumption /\ HT!HostInit => HInv
<1> SUFFICES ASSUME HT!HostInit PROVE HInv
  OBVIOUS
<1>1. cleaner = HT!Idle /\ HT!Idle \in Cleaners /\ HT!Idle.at = "off" /\ HT!Idle.held = {}
  BY DEF HT!HostInit, HT!Idle, Cleaners
<1>2. reports \in [Reports -> ReportStates] /\ \A r \in Reports : reports[r].there
  BY DEF HT!HostInit, ReportStates, ReportFiles, HT!Named
<1>3. QED
  BY <1>1, <1>2 DEF HT!HostInit, HInv, HTyped, Employed, Dooming, Holding, Owing, HT!At, AtReport

LEMMA HostSteps == MachinesAssumption /\ HInv /\ [HT!HostNext]_hostVars => HInv'
<1> SUFFICES ASSUME MachinesAssumption, HInv, [HT!HostNext]_hostVars PROVE HInv'
  OBVIOUS
<1>1. CASE UNCHANGED hostVars
  BY <1>1 DEF hostVars, HInv, HTyped, Employed, Dooming, Holding, Owing, HT!At, HT!Attributed,
     Cleaned, Found, HT!HasMetadata
<1>2. ASSUME NEW r \in Reports, HT!CleanReport(r) PROVE HInv'
  BY <1>2, Scanning, Preparing, Deleting, Emptying DEF HT!CleanReport
<1>3. ASSUME NEW l \in RecentLinks, HT!CleanLink(l) PROVE HInv'
  BY <1>3, Reading, Unlinking DEF HT!CleanLink
<1>4. QED
  BY <1>1, <1>2, <1>3, Beginning, Concluding, Elsewhere DEF HT!HostNext

\* What is in use, by what it belongs to.
InReport(x) == \E r \in Reports : \E f \in reports[r].files : x = <<r, f>>
InLink(x) == \E l \in RecentLinks : links[l] # "none" /\ x = <<l, "link">>
InThumbs(x) == \E t \in thumbs : x = <<t, "thumbs">>

LEMMA Uses == \A x : x \in HT!InUse <=> InReport(x) \/ InLink(x) \/ InThumbs(x)
<1>1. \A x : x \in UNION {HT!FilesOf(r) : r \in Reports} <=> InReport(x)
  BY DEF HT!FilesOf, InReport
<1>2. \A x : x \in {<<l, "link">> : l \in {k \in RecentLinks : links[k] # "none"}} <=> InLink(x)
  BY Zenon DEF InLink
<1>3. \A x : x \in {<<t, "thumbs">> : t \in thumbs} <=> InThumbs(x)
  BY Zenon DEF InThumbs
<1>4. QED
  BY <1>1, <1>2, <1>3 DEF HT!InUse

\* What is held is ours, and no one else's.
LEMMA Spared ==
    MachinesAssumption /\ HInv /\ [HT!HostNext]_hostVars
        => [HT!ForeignReportsKept /\ HT!OpenFilesKept]_hostVars
<1> SUFFICES ASSUME MachinesAssumption, HInv, HT!HostNext PROVE HT!ForeignReportsKept /\ HT!OpenFilesKept
  OBVIOUS
<1> DEFINE Stays == /\ \A r \in Reports : reports[r].files \subseteq reports'[r].files
                    /\ \A l \in RecentLinks : links[l] # "none" => links'[l] # "none"
                    /\ thumbs \subseteq thumbs'
<1>0. /\ reports \in [Reports -> ReportStates] /\ \A r \in Reports : ~reports[r].there => reports[r].files = {}
      /\ links \in [RecentLinks -> {"ours", "other", "none"}]
  BY DEF HInv, HTyped
<1>x. /\ \A x : x \in HT!InUse <=> (InReport(x) \/ InLink(x) \/ InThumbs(x))
      /\ \A x : x \in HT!InUse' <=> (InReport(x)' \/ InLink(x)' \/ InThumbs(x)')
  <2>1. \A x : x \in HT!InUse <=> InReport(x) \/ InLink(x) \/ InThumbs(x)
    BY Uses
  <2>2. (\A x : x \in HT!InUse <=> InReport(x) \/ InLink(x) \/ InThumbs(x))'
    BY Uses, PTL
  <2>3. QED
    BY <2>1, <2>2
<1>1. Stays => HT!ForeignReportsKept /\ HT!OpenFilesKept
  <2> SUFFICES ASSUME Stays PROVE HT!ForeignReportsKept /\ HT!OpenFilesKept
    OBVIOUS
  <2>1. ASSUME NEW x PROVE /\ InReport(x) => InReport(x)'
                           /\ InLink(x) => InLink(x)'
                           /\ InThumbs(x) => InThumbs(x)'
    BY DEF InReport, InLink, InThumbs
  <2>2. ASSUME NEW x \in handles, x \in HT!InUse PROVE x \in HT!InUse'
    BY <2>1, <2>2, <1>x
  <2>3. HT!OpenFilesKept
    BY <2>2 DEF HT!OpenFilesKept
  <2>4. QED
    BY <2>3 DEF HT!ForeignReportsKept
<1>2. CASE HT!Begin \/ HT!Die \/ HT!Open \/ HT!Close
  <2>1. Stays
    BY <1>2 DEF HT!Begin, HT!Die, HT!Open, HT!Close
  <2>2. QED
    BY <1>1, <2>1
<1>3. ASSUME NEW r \in Reports, HT!Scan(r) \/ HT!Preflight(r) \/ HT!FileReport(r) \/ HT!Attach(r) \/ HT!Describe(r)
      PROVE  Stays
  <2>1. CASE HT!Scan(r) \/ HT!Preflight(r)
    BY <2>1 DEF HT!Scan, HT!Preflight
  <2>2. CASE HT!FileReport(r)
    BY <1>0, <2>2 DEF HT!FileReport, ReportStates
  <2>3. CASE HT!Attach(r)
    BY <1>0, <2>3 DEF HT!Attach, ReportStates
  <2>4. CASE HT!Describe(r)
    BY <1>0, <2>4 DEF HT!Describe, ReportStates
  <2>5. QED
    BY <1>3, <2>1, <2>2, <2>3, <2>4
<1>4. ASSUME NEW l \in RecentLinks, HT!ReadLink(l) \/ HT!Relink(l) PROVE Stays
  BY <1>0, <1>4 DEF HT!ReadLink, HT!Relink
<1>5. ASSUME NEW r \in Reports, HT!RemoveDirectory(r) PROVE Stays
  BY <1>0, <1>5 DEF HT!RemoveDirectory
<1>6. ASSUME NEW r \in Reports, HT!RemoveFile(r) PROVE HT!ForeignReportsKept /\ HT!OpenFilesKept
  <2>0. HT!At("remove") /\ cleaner.entry = r /\ UNCHANGED <<links, thumbs>>
        /\ HT!Attributed(reports[r].apps) /\ cleaner.held \cap handles = {}
        /\ cleaner.held = {<<r, f>> : f \in doomed[r]}
    BY <1>6 DEF HT!RemoveFile, HT!Of, HInv, Holding
  <2>1. CASE UNCHANGED reports
    BY <1>1, <2>0, <2>1
  <2>2. ASSUME NEW x \in HT!NextToGo(cleaner.held), reports' = [reports EXCEPT ![r].files = @ \ {x[2]}]
        PROVE  HT!ForeignReportsKept /\ HT!OpenFilesKept
    <3>1. PICK f \in doomed[r] : x = <<r, f>>
      BY <2>0, <2>2 DEF HT!NextToGo
    <3>2. x[2] = f /\ <<r, f>> \notin handles
      BY <2>0, <3>1
    <3>3. /\ reports'[r].files = reports[r].files \ {f}
          /\ \A q \in Reports : q # r => reports'[q].files = reports[q].files
      BY <1>0, <2>2, <3>2 DEF ReportStates
    <3>4. HT!ForeignReportsKept
      BY <2>0, <3>3 DEF HT!ForeignReportsKept
    <3>5. HT!OpenFilesKept
      <4> SUFFICES ASSUME NEW y \in handles, y \in HT!InUse PROVE y \in HT!InUse'
        BY DEF HT!OpenFilesKept
      <4>1. InReport(y) => InReport(y)'
        <5> SUFFICES ASSUME NEW q \in Reports, NEW g \in reports[q].files, y = <<q, g>> PROVE InReport(y)'
          BY DEF InReport
        <5>1. g \in reports'[q].files
          BY <3>2, <3>3
        <5>2. QED
          BY <5>1 DEF InReport
      <4>2. InLink(y) \/ InThumbs(y) => (InLink(y) \/ InThumbs(y))'
        BY <2>0 DEF InLink, InThumbs
      <4>3. QED
        BY <1>x, <4>1, <4>2
    <3>6. QED
      BY <3>4, <3>5
  <2>3. QED
    BY <1>6, <2>1, <2>2 DEF HT!RemoveFile
<1>7. ASSUME NEW l \in RecentLinks, HT!RemoveLink(l) PROVE HT!ForeignReportsKept /\ HT!OpenFilesKept
  <2>0. UNCHANGED <<reports, thumbs>>
    BY <1>7 DEF HT!RemoveLink
  <2>1. CASE UNCHANGED links
    BY <1>1, <2>0, <2>1
  <2>2. CASE <<l, "link">> \notin handles /\ links' = [links EXCEPT ![l] = "none"]
    <3>1. \A k \in RecentLinks : k # l => links'[k] = links[k]
      BY <1>0, <2>2
    <3>2. HT!OpenFilesKept
      <4> SUFFICES ASSUME NEW y \in handles, y \in HT!InUse PROVE y \in HT!InUse'
        BY DEF HT!OpenFilesKept
      <4>1. InLink(y) => InLink(y)'
        BY <2>2, <3>1 DEF InLink
      <4>2. InReport(y) \/ InThumbs(y) => (InReport(y) \/ InThumbs(y))'
        BY <2>0 DEF InReport, InThumbs
      <4>3. QED
        BY <1>x, <4>1, <4>2
    <3>3. QED
      BY <2>0, <3>2 DEF HT!ForeignReportsKept
  <2>3. QED
    BY <1>7, <2>1, <2>2 DEF HT!RemoveLink
<1>8. CASE HT!Finish
  <2>0. UNCHANGED <<reports, links>>
    BY <1>8 DEF HT!Finish
  <2>1. CASE UNCHANGED thumbs
    BY <1>1, <2>0, <2>1
  <2>2. CASE {t \in thumbs : <<t, "thumbs">> \in handles} \subseteq thumbs'
    <3>1. HT!OpenFilesKept
      <4> SUFFICES ASSUME NEW y \in handles, y \in HT!InUse PROVE y \in HT!InUse'
        BY DEF HT!OpenFilesKept
      <4>1. InThumbs(y) => InThumbs(y)'
        BY <2>2 DEF InThumbs
      <4>2. InReport(y) \/ InLink(y) => (InReport(y) \/ InLink(y))'
        BY <2>0 DEF InReport, InLink
      <4>3. QED
        BY <1>x, <4>1, <4>2
    <3>2. QED
      BY <2>0, <3>1 DEF HT!ForeignReportsKept
  <2>3. QED
    BY <1>8, <2>1, <2>2 DEF HT!Finish
<1>9. QED
  BY <1>1, <1>2, <1>3, <1>4, <1>5, <1>6, <1>7, <1>8
  DEF HT!HostNext, HT!CleanReport, HT!CleanLink, HT!Others

\* A cleaning that a death or a failure broke off leaves every report it had
\* begun on with the file that says whose it is; and one that calls itself
\* complete left nothing of this browser that was there when it began and that
\* nobody has changed since (scrub_host_traces_in, remove_attributed_report).
THEOREM Cleaning == MachinesSpec => []TracesOwn
<1>1. MachinesInit => HInv
  BY MachinesAssumption, HostBegins DEF MachinesInit
<1>2. HInv /\ [MachinesNext]_machines => HInv'
  BY MachinesAssumption, Apart, HostSteps
<1>3. HInv => TracesOwn
  BY DEF HInv, Employed, Dooming, Owing, TracesOwn, HT!StillAttributed, HT!CompleteIsClean,
     HT!HasMetadata, HT!At, AtReport, Cleaned, HTyped
<1>4. QED
  BY <1>1, <1>2, <1>3, PTL DEF MachinesSpec

\* No step removes a file of a report that names another program at that
\* moment, or anything another program has open: whatever they file, rewrite
\* or open between the cleaner's steps (idle_report_files).
THEOREM Sparing == MachinesSpec => OthersKept
<1>1. MachinesInit => HInv
  BY MachinesAssumption, HostBegins DEF MachinesInit
<1>2. HInv /\ [MachinesNext]_machines => HInv'
  BY MachinesAssumption, Apart, HostSteps
<1>3. HInv /\ [MachinesNext]_machines => [HT!ForeignReportsKept /\ HT!OpenFilesKept]_hostVars
  BY MachinesAssumption, Apart, Spared
<1>4. QED
  BY <1>1, <1>2, <1>3, PTL DEF MachinesSpec, OthersKept

-----------------------------------------------------------------------------
(* Download and extraction.                                                 *)

Phases == {"recover", "request", "stream", "spawn", "poll", "look", "stop", "flatten", "done", "failed"}
Unpacking == {"poll", "look", "stop", "flatten", "done"}

Stages == [there : BOOLEAN, tmp : {"none", "part"}, package : {"none", "whole"}, raw : Seq(UP!Attempts)]

UTyped ==
    /\ attempt \in UP!Attempts /\ at \in Phases
    /\ stage \in Stages
    /\ child \in [UP!Attempts -> {"none", "running", "ok", "bad"}]
    /\ size \in [UP!Attempts -> UP!Installers] /\ written \in [UP!Attempts -> Nat]

\* A 7-Zip is started once to an attempt and writes nothing before.  While an
\* attempt has the stage no other attempt's is running.
Started ==
    /\ \A a \in UP!Attempts :
          /\ a > attempt \/ (a = attempt /\ at \in {"recover", "request", "stream", "spawn"}) => child[a] = "none"
          /\ child[a] = "none" => written[a] = 0
          /\ child[a] = "ok" => written[a] = size[a]
    /\ at \notin {"recover", "failed"} => \A a \in UP!Attempts \ {attempt} : child[a] # "running"
    /\ at = "failed" => child[attempt] # "running" \/ attempt \in unkilled

\* What is unpacked was written by this attempt, all of it and nothing else;
\* once its 7-Zip has ended well and it was measured again, it stays.
Measured ==
    /\ at \in Unpacking => Len(stage.raw) = written[attempt] /\ \A i \in 1..Len(stage.raw) : stage.raw[i] = attempt
    /\ at \in {"flatten", "done"} => child[attempt] = "ok" /\ Len(stage.raw) <= MaxBytes

\* The download goes to a file of another name, which an attempt that failed
\* has removed; none is there while a 7-Zip runs.
Transferred ==
    /\ stage.tmp # "none" => at \in {"stream", "recover"} /\ \A a \in UP!Attempts : child[a] # "running"
    /\ at \in {"request", "stream", "done"} => stage.package = "none"
    /\ at \in {"spawn"} \cup Unpacking /\ stage.package = "whole" => reply.come = reply.length

UInv == UTyped /\ Started /\ Measured /\ Transferred

LEMMA Empty == <<>> \in Seq(UP!Attempts)
  OBVIOUS

\* Before a 7-Zip is started.
LEMMA Downloading ==
    ASSUME UInv, UP!Recover \/ UP!Request \/ UP!Stream \/ UP!Arrive
    PROVE  UInv'
<1> USE DEF Stages
<1>1. UNCHANGED <<attempt, child, size, written, unkilled>> /\ at \in {"recover", "request", "stream"}
  BY DEF UP!Recover, UP!Request, UP!Stream, UP!Arrive
<1>2. UTyped' /\ at' \in {"request", "stream", "spawn", "failed"}
  <2>1. CASE UP!Recover
    <3>1. stage \in Stages
      BY DEF UInv, UTyped
    <3>2. UP!NewStage \in Stages /\ [stage EXCEPT !.raw = <<>>, !.package = "none", !.tmp = "none"] \in Stages
      BY <3>1, Empty DEF UP!NewStage, UP!NoStage
    <3>3. stage' \in Stages /\ at' \in {"request", "failed"}
      BY <2>1, <3>1, <3>2 DEF UP!Recover
    <3>4. QED
      BY <1>1, <3>3 DEF UInv, UTyped, Phases
  <2>2. CASE UP!Request
    <3>1. stage \in Stages
      BY DEF UInv, UTyped
    <3>2. stage' \in Stages /\ at' \in {"stream", "failed"}
      BY <2>2, <3>1 DEF UP!Request
    <3>3. QED
      BY <1>1, <3>2 DEF UInv, UTyped, Phases
  <2>3. CASE UP!Stream \/ UP!Arrive
    BY <1>1, <2>3 DEF UP!Stream, UP!Arrive, UP!BrokenOff, UInv, UTyped, Phases
  <2>4. QED
    BY <2>1, <2>2, <2>3
<1>3. Started'
  <2>1. CASE at' \in {"failed"}
    BY <1>1, <2>1 DEF UInv, UTyped, Started
  <2>2. CASE at' # "failed"
    <3>1. at = "recover" => \A a \in UP!Attempts : child[a] # "running"
      BY <2>2 DEF UP!Recover, UP!HeldBy, UP!Running, UP!Request, UP!Stream, UP!Arrive
    <3>2. QED
      BY <1>1, <1>2, <2>2, <3>1 DEF UInv, UTyped, Started
  <2>3. QED
    BY <2>1, <2>2
<1>4. Measured'
  BY <1>2 DEF Measured, Unpacking
<1>5. Transferred'
  <2>1. CASE UP!Recover
    <3>1. CASE \A a \in UP!Attempts : child[a] # "running"
      <4>1. stage' = UP!NewStage /\ at' = "request"
        BY <2>1, <3>1 DEF UP!Recover, UP!HeldBy, UP!Running
      <4>2. QED
        BY <4>1 DEF Transferred, Unpacking, UP!NewStage, UP!NoStage
    <3>2. CASE ~\A a \in UP!Attempts : child[a] # "running"
      BY <1>1, <2>1, <3>2 DEF UP!Recover, UP!HeldBy, UP!Running, UInv, UTyped, Transferred, Unpacking
    <3>3. QED
      BY <3>1, <3>2
  <2>2. CASE UP!Request
    BY <1>1, <2>2 DEF UP!Request, UInv, UTyped, Started, Transferred, Unpacking
  <2>3. CASE UP!Stream
    BY <1>1, <2>3 DEF UP!Stream, UP!BrokenOff, UInv, UTyped, Started, Transferred, Unpacking
  <2>4. CASE UP!Arrive
    BY <1>1, <2>4 DEF UP!Arrive, UInv, UTyped, Started, Transferred, Unpacking
  <2>5. QED
    BY <2>1, <2>2, <2>3, <2>4
<1>6. QED
  BY <1>2, <1>3, <1>4, <1>5 DEF UInv

\* An empty directory, and a 7-Zip of its own.
LEMMA Spawning == ASSUME UInv, UP!Spawn PROVE UInv'
<1> USE DEF Stages
<1>1. UNCHANGED <<attempt, reply, written, unkilled>> /\ at = "spawn"
  BY DEF UP!Spawn
<1>2. CASE at' = "failed" /\ UNCHANGED <<child, size, stage>>
  BY <1>1, <1>2 DEF UInv, UTyped, Started, Measured, Transferred, Unpacking, Phases
<1>3. ASSUME NEW n \in UP!Installers, child' = [child EXCEPT ![attempt] = "running"],
             size' = [size EXCEPT ![attempt] = n], stage' = [stage EXCEPT !.raw = <<>>], at' = "poll"
      PROVE  UInv'
  <2>0. /\ stage' \in Stages /\ child' \in [UP!Attempts -> {"none", "running", "ok", "bad"}]
        /\ size' \in [UP!Attempts -> UP!Installers] /\ attempt \in UP!Attempts
        /\ child'[attempt] = "running"
        /\ \A a \in UP!Attempts \ {attempt} : child'[a] = child[a] /\ size'[a] = size[a]
    BY <1>3, Empty DEF UInv, UTyped
  <2>1. UTyped'
    BY <1>1, <1>3, <2>0 DEF UInv, UTyped, Phases
  <2>2. Started'
    <3>1. ASSUME NEW a \in UP!Attempts
          PROVE  /\ a > attempt => child'[a] = "none"
                 /\ child'[a] = "none" => written[a] = 0
                 /\ child'[a] = "ok" => written[a] = size'[a]
                 /\ a # attempt => child'[a] # "running"
      <4>1. CASE a = attempt
        BY <2>0, <4>1 DEF UP!Attempts
      <4>2. CASE a # attempt
        BY <1>1, <2>0, <4>2 DEF UInv, Started
      <4>3. QED
        BY <4>1, <4>2
    <3>2. QED
      BY <1>1, <1>3, <3>1 DEF Started
  <2>3. stage'.raw = <<>> /\ stage'.tmp = stage.tmp /\ stage'.package = stage.package
    BY <1>3 DEF UInv, UTyped
  <2>4. Measured'
    BY <1>1, <1>3, <2>3 DEF UInv, UTyped, Started, Measured
  <2>5. Transferred'
    BY <1>1, <1>3, <2>3 DEF UInv, UTyped, Transferred, Unpacking
  <2>6. QED
    BY <2>1, <2>2, <2>4, <2>5 DEF UInv
<1>4. QED
  BY <1>2, <1>3 DEF UP!Spawn

\* The tree is measured, the child is looked at, and stopped.
LEMMA Watched == ASSUME UInv, UP!Poll \/ UP!Look \/ UP!Stop \/ UP!Flattened PROVE UInv'
<1> USE DEF Stages
<1>1. CASE UP!Poll \/ UP!Look
  <2>1. UNCHANGED <<attempt, stage, reply, child, size, written, unkilled>> /\ at \in {"poll", "look"}
    BY <1>1 DEF UP!Poll, UP!Look
  <2>2. at' \in {"poll", "look", "stop", "flatten"}
        /\ (at' = "flatten" => child[attempt] = "ok" /\ Len(stage.raw) <= MaxBytes)
    BY <1>1 DEF UP!Poll, UP!Look, UP!WithinBudget
  <2>3. QED
    BY <2>1, <2>2 DEF UInv, UTyped, Started, Measured, Transferred, Unpacking, Phases
<1>2. CASE UP!Stop
  <2>1. UNCHANGED <<attempt, stage, reply, size, written>> /\ at = "stop" /\ at' = "failed"
    BY <1>2 DEF UP!Stop
  <2>2. child' \in [UP!Attempts -> {"none", "running", "ok", "bad"}]
        /\ (\A a \in UP!Attempts : child'[a] = child[a] \/ (child[a] = "running" /\ child'[a] = "bad"))
        /\ (child'[attempt] # "running" \/ attempt \in unkilled')
    BY <1>2 DEF UP!Stop, UInv, UTyped
  <2>3. QED
    BY <2>1, <2>2 DEF UInv, UTyped, Started, Measured, Transferred, Unpacking, Phases
<1>3. CASE UP!Flattened
  <2>1. UNCHANGED <<attempt, reply, child, size, written, unkilled>> /\ at = "flatten" /\ at' = "done"
        /\ stage' \in Stages /\ stage'.raw = stage.raw /\ stage'.tmp = stage.tmp /\ stage'.package = "none"
    BY <1>3 DEF UP!Flattened, UInv, UTyped
  <2>2. QED
    BY <2>1 DEF UInv, UTyped, Started, Measured, Transferred, Unpacking, Phases
<1>4. QED
  BY <1>1, <1>2, <1>3

\* The next launch.
LEMMA Retrying == ASSUME UInv, UP!Again PROVE UInv'
<1> USE DEF Stages
<1>1. attempt' = attempt + 1 /\ attempt < MaxAttempts /\ at' = "recover"
      /\ UNCHANGED <<reply, child, size, written, unkilled>>
  BY DEF UP!Again
<1>2. stage' \in Stages /\ (stage'.tmp = "none" \/ stage' = stage)
  BY DEF UP!Again, UP!NoStage, UInv, UTyped
<1>3. attempt' \in UP!Attempts /\ attempt < attempt'
  BY <1>1, MachinesAssumption DEF MachinesAssumption, UInv, UTyped, UP!Attempts
<1>4. UTyped'
  BY <1>1, <1>2, <1>3 DEF UInv, UTyped, Phases
<1>5. Started'
  BY <1>1, <1>3 DEF UInv, UTyped, Started, UP!Attempts
<1>6. Transferred'
  BY <1>1, <1>2 DEF UInv, UTyped, Transferred, Unpacking
<1>7. QED
  BY <1>1, <1>4, <1>5, <1>6 DEF UInv, Measured, Unpacking

\* A 7-Zip writes, or ends: this attempt's, or one that was left behind, which
\* writes only while no attempt has the stage.
LEMMA Extracting == ASSUME UInv, NEW a \in UP!Attempts, UP!Write(a) \/ UP!Exit(a) PROVE UInv'
<1> USE DEF Stages
<1>1. CASE UP!Write(a)
  <2>1. /\ child[a] = "running" /\ written[a] < size[a] /\ at # "done"
        /\ UNCHANGED <<attempt, at, reply, child, size, unkilled>>
        /\ stage' = [stage EXCEPT !.raw = Append(@, a)] /\ written' = [written EXCEPT ![a] = @ + 1]
    BY <1>1 DEF UP!Write
  <2>a. stage \in Stages /\ Append(stage.raw, a) \in Seq(UP!Attempts)
    BY DEF UInv, UTyped
  <2>2. /\ stage' \in Stages /\ stage'.raw = Append(stage.raw, a) /\ stage'.tmp = stage.tmp
        /\ stage'.package = stage.package /\ stage.raw \in Seq(UP!Attempts)
    BY <2>1, <2>a
  <2>3. Len(stage'.raw) = Len(stage.raw) + 1 /\ Len(stage.raw) \in Nat
        /\ \A i \in 1..Len(stage'.raw) : stage'.raw[i] = IF i <= Len(stage.raw) THEN stage.raw[i] ELSE a
    BY <2>2
  <2>4. /\ written' \in [UP!Attempts -> Nat] /\ written'[a] = written[a] + 1
        /\ \A b \in UP!Attempts \ {a} : written'[b] = written[b]
    BY <2>1 DEF UInv, UTyped
  <2>5. UTyped'
    BY <2>1, <2>2, <2>4 DEF UInv, UTyped
  <2>6. Started'
    BY <2>1, <2>4 DEF UInv, UTyped, Started
  <2>7. Measured'
    <3> SUFFICES ASSUME at \in Unpacking
                 PROVE  /\ Len(stage'.raw) = written'[attempt]
                        /\ \A i \in 1..Len(stage'.raw) : stage'.raw[i] = attempt
                        /\ at \notin {"flatten", "done"}
      BY <2>1 DEF Measured, Unpacking
    <3>1. a = attempt
      BY <2>1 DEF UInv, Started, Unpacking
    <3>2. at \notin {"flatten", "done"}
      BY <2>1, <3>1 DEF UInv, Measured
    <3>3. Len(stage.raw) = written[attempt] /\ \A i \in 1..Len(stage.raw) : stage.raw[i] = attempt
      BY DEF UInv, Measured
    <3>4. QED
      BY <2>3, <2>4, <3>1, <3>2, <3>3
  <2>8. Transferred'
    BY <2>1, <2>2 DEF UInv, Transferred
  <2>9. QED
    BY <2>5, <2>6, <2>7, <2>8 DEF UInv
<1>2. CASE UP!Exit(a)
  <2>1. /\ child[a] = "running"
        /\ UNCHANGED <<attempt, at, stage, reply, size, written, unkilled>>
    BY <1>2 DEF UP!Exit
  <2>2. PICK so \in (IF written[a] = size[a] THEN {"ok", "bad"} ELSE {"bad"}) : child' = [child EXCEPT ![a] = so]
    BY <1>2 DEF UP!Exit
  <2>3. /\ child' \in [UP!Attempts -> {"none", "running", "ok", "bad"}]
        /\ child'[a] \in {"ok", "bad"} /\ (child'[a] = "ok" => written[a] = size[a])
        /\ \A b \in UP!Attempts \ {a} : child'[b] = child[b]
    BY <2>2 DEF UInv, UTyped
  <2>4. QED
    BY <2>1, <2>3 DEF UInv, UTyped, Started, Measured, Transferred, Unpacking
<1>3. QED
  BY <1>1, <1>2

\* What is promoted was unpacked by this attempt's 7-Zip alone, is all of its
\* package and within the limit; the package's name stands for a transfer that
\* ended; a failed attempt leaves no file of it, and no 7-Zip that it could
\* stop: whenever launchers die, and whatever 7-Zip outlives them.
THEOREM Containing == MachinesSpec => []PackagesContained
<1>1. UP!UnpackInit => UInv
  <2> SUFFICES ASSUME UP!UnpackInit PROVE UInv
    OBVIOUS
  <2>1. stage \in Stages /\ stage.tmp = "none" /\ stage.package = "none"
    BY DEF UP!UnpackInit, Stages, UP!NoStage
  <2>2. 1 \in UP!Attempts /\ 1 \in UP!Installers
    BY MachinesAssumption DEF MachinesAssumption, UP!Attempts, UP!Installers
  <2>3. QED
    BY <2>1, <2>2 DEF UP!UnpackInit, UInv, UTyped, Started, Measured, Transferred, Unpacking, Phases
<1>2. UInv /\ [UP!UnpackNext]_unpackVars => UInv'
  <2> SUFFICES ASSUME UInv, [UP!UnpackNext]_unpackVars PROVE UInv'
    OBVIOUS
  <2>1. CASE UNCHANGED unpackVars
    BY <2>1 DEF unpackVars, UInv, UTyped, Started, Measured, Transferred
  <2>2. CASE UP!UnpackNext
    BY <2>2, Downloading, Spawning, Watched, Retrying, Extracting DEF UP!UnpackNext, UP!Attempting
  <2>3. QED
    BY <2>1, <2>2
<1>3. UInv => PackagesContained
  <2> SUFFICES ASSUME UInv PROVE PackagesContained
    OBVIOUS
  <2>1. stage.raw \in Seq(UP!Attempts) /\ DOMAIN stage.raw = 1..Len(stage.raw)
    BY DEF UInv, UTyped, Stages
  <2>2. UP!UnpackedAlone /\ UP!WithinLimit
    BY <2>1 DEF UInv, UTyped, Started, Measured, Unpacking, UP!UnpackedAlone, UP!WithinLimit
  <2>3. UP!NoneLeftRunning
    BY DEF UInv, Started, UP!NoneLeftRunning
  <2>4. UP!PackageIsWhole
    BY DEF UInv, UTyped, Stages, Transferred, Phases, Unpacking, UP!PackageIsWhole
  <2>5. QED
    BY <2>2, <2>3, <2>4 DEF PackagesContained
<1>4. MachinesInit => UInv
  BY <1>1 DEF MachinesInit
<1>5. UInv /\ [MachinesNext]_machines => UInv'
  BY <1>2, Apart
<1>6. QED
  BY <1>3, <1>4, <1>5, PTL DEF MachinesSpec

-----------------------------------------------------------------------------
(* The overlay.                                                             *)

Passes == {"idle", "fetched", "check", "readback", "promote", "ensure", "patch", "rename", "result"}

\* The marker of a whole overlay, and what a marker may be.
Full == [f \in BR!Names |-> 1]
Markers(last) == {BR!NoMarker, BR!PartMarker} \cup {<<o, Full>> : o \in 1..last}

Dirs(last) == [files : [BR!Names -> Int], marker : Markers(last), tmp : SUBSET BR!Names]

BTyped ==
    /\ overlay \in Nat \ {0} /\ turn \in Nat \ {0}
    /\ place \in BR!Places /\ phase \in Passes
    /\ complete \in BOOLEAN /\ open \in BOOLEAN /\ undisturbed \in BOOLEAN
    /\ dirs \in [BR!Places -> Dirs(overlay)]

Marked(p) == dirs[p].marker = <<overlay, Full>>
Whole(p) == \A f \in BR!Names : dirs[p].files[f] = overlay

\* Where a marker counts: a stage's own is gone before the stage is worked on.
Counts(p) == p = "stage" => place = p /\ phase \notin {"fetched", "idle"}

\* A marker that counts is true.  A pass goes over a directory without one,
\* and as long as it is complete every file before its turn has the overlay.
Truth ==
    /\ \A p \in BR!Places : Counts(p) /\ Marked(p) => Whole(p)
    /\ phase \in {"patch", "rename"} =>
          /\ ~Marked(place)
          /\ complete => \A i \in 1..Len(BR!Files) : i < turn => dirs[place].files[BR!Files[i]] = overlay
    /\ phase = "result" /\ complete => Marked(place)
    /\ phase \in {"fetched", "check", "readback", "promote"} => place = "stage"
    /\ phase \in {"readback", "promote"} => Whole(place)

\* A pass that nothing disturbs met files it knows, and has not failed.
Undisturbed ==
    undisturbed =>
        /\ place = "install"
        /\ phase \in {"ensure", "patch", "rename"} => ~open /\ \A f \in BR!Names : BR!Known(f)
        /\ phase \in {"patch", "rename", "result"} => complete

BInv == BTyped /\ Truth /\ Undisturbed /\ BR!PaksWhole

LEMMA FilesAreNames ==
    /\ BR!Files \in Seq(STRING) /\ DOMAIN BR!Files = 1..Len(BR!Files)
    /\ Len(BR!Files) \in Nat
    /\ BR!Names = {BR!Files[i] : i \in 1..Len(BR!Files)}
    /\ BR!ToSet(LogoPaks) \subseteq BR!Names
    /\ BR!ToSet(IconPrograms) \cap BR!ToSet(LogoPaks) = {}
<1>1. /\ BR!Files \in Seq(STRING) /\ Len(BR!Files) = Len(IconPrograms) + Len(LogoPaks)
      /\ \A i \in 1..Len(LogoPaks) : BR!Files[i + Len(IconPrograms)] = LogoPaks[i]
  BY MachinesAssumption, ConcatProperties DEF MachinesAssumption, BR!Files
<1>2. DOMAIN BR!Files = 1..Len(BR!Files) /\ Len(BR!Files) \in Nat
  BY <1>1
<1>3. BR!Names = {BR!Files[i] : i \in 1..Len(BR!Files)}
  BY <1>2 DEF BR!Names, BR!ToSet
<1>4. BR!ToSet(LogoPaks) \subseteq BR!Names
  <2> SUFFICES ASSUME NEW f \in BR!ToSet(LogoPaks) PROVE f \in BR!Names
    OBVIOUS
  <2>1. PICK i \in 1..Len(LogoPaks) : f = LogoPaks[i]
    BY MachinesAssumption DEF MachinesAssumption, BR!ToSet
  <2>2. f = BR!Files[i + Len(IconPrograms)] /\ i + Len(IconPrograms) \in 1..Len(BR!Files)
    BY <1>1, <2>1, MachinesAssumption DEF MachinesAssumption
  <2>3. QED
    BY <1>3, <2>2
<1>5. BR!ToSet(IconPrograms) \cap BR!ToSet(LogoPaks) = {}
  BY MachinesAssumption DEF MachinesAssumption, BR!ToSet
<1>6. QED
  BY <1>1, <1>2, <1>3, <1>4, <1>5

\* A marker is true of one overlay only.
LEMMA MarkersDiffer ==
    ASSUME NEW last \in Nat
    PROVE  /\ \A m \in Markers(last) : m # <<last + 1, Full>>
           /\ Markers(last) \subseteq Markers(last + 1)
           /\ BR!NoMarker \in Markers(last) /\ BR!PartMarker \in Markers(last)
           /\ \A o : BR!NoMarker # <<o, Full>> /\ BR!PartMarker # <<o, Full>>
<1>1. \A o : BR!NoMarker # <<o, Full>> /\ BR!PartMarker # <<o, Full>>
  <2> SUFFICES ASSUME NEW o PROVE BR!NoMarker # <<o, Full>> /\ BR!PartMarker # <<o, Full>>
    OBVIOUS
  <2>1. Len(BR!NoMarker) = 0 /\ Len(BR!PartMarker) = 1 /\ Len(<<o, Full>>) = 2
    BY DEF BR!NoMarker, BR!PartMarker
  <2>2. QED
    BY <2>1
<1>2. \A o \in 1..last : <<o, Full>> # <<last + 1, Full>>
  <2> SUFFICES ASSUME NEW o \in 1..last PROVE <<o, Full>> # <<last + 1, Full>>
    OBVIOUS
  <2>1. <<o, Full>>[1] = o /\ <<last + 1, Full>>[1] = last + 1
    OBVIOUS
  <2>2. QED
    BY <2>1
<1>3. QED
  BY <1>1, <1>2 DEF Markers

\* What the launcher compares a marker with.
LEMMA Prints ==
    ASSUME BInv, NEW p \in BR!Places
    PROVE  /\ Whole(p) => BR!Fingerprint(dirs[p]) = <<overlay, Full>>
           /\ dirs[p].marker = BR!Fingerprint(dirs[p]) => Marked(p)
<1>1. overlay \in Nat \ {0} /\ dirs[p].marker \in Markers(overlay)
  BY DEF BInv, BTyped, Dirs
<1>2. BR!SizeOf(overlay) = 1
  BY <1>1 DEF BR!SizeOf, BR!Torn, BR!Absent
<1>3. Whole(p) => [f \in BR!Names |-> BR!SizeOf(dirs[p].files[f])] = Full
  BY <1>2 DEF Whole, Full
<1>4. ASSUME dirs[p].marker = BR!Fingerprint(dirs[p]) PROVE Marked(p)
  <2> DEFINE sizes == [f \in BR!Names |-> BR!SizeOf(dirs[p].files[f])]
  <2>1. dirs[p].marker = <<overlay, sizes>>
    BY <1>4 DEF BR!Fingerprint
  <2> HIDE DEF sizes
  <2>2. Len(BR!NoMarker) = 0 /\ Len(BR!PartMarker) = 1 /\ Len(<<overlay, sizes>>) = 2
    BY DEF BR!NoMarker, BR!PartMarker
  <2>3. PICK o \in 1..overlay : dirs[p].marker = <<o, Full>>
    BY <1>1, <2>1, <2>2 DEF Markers
  <2>4. o = overlay
    BY <2>1, <2>3
  <2>5. QED
    BY <2>3, <2>4 DEF Marked
<1>5. QED
  BY <1>3, <1>4 DEF BR!Fingerprint

\* One file is written, or one marker.
LEMMA Writing ==
    ASSUME BInv, NEW p \in BR!Places, NEW f \in BR!Names, NEW c \in Int,
           dirs' = [dirs EXCEPT ![p].files[f] = c]
    PROVE  /\ dirs' \in [BR!Places -> Dirs(overlay)] /\ dirs'[p].files[f] = c
           /\ \A q \in BR!Places : /\ dirs'[q].marker = dirs[q].marker
                                   /\ q # p => dirs'[q] = dirs[q]
                                   /\ \A g \in BR!Names : g # f => dirs'[q].files[g] = dirs[q].files[g]
<1>1. dirs \in [BR!Places -> Dirs(overlay)]
  BY DEF BInv, BTyped
<1>2. [dirs[p].files EXCEPT ![f] = c] \in [BR!Names -> Int]
  BY <1>1 DEF Dirs
<1>3. dirs' = [dirs EXCEPT ![p] = [dirs[p] EXCEPT !.files = [dirs[p].files EXCEPT ![f] = c]]]
  BY <1>1 DEF Dirs
<1>4. [dirs[p] EXCEPT !.files = [dirs[p].files EXCEPT ![f] = c]] \in Dirs(overlay)
  BY <1>1, <1>2 DEF Dirs
<1>5. /\ dirs' \in [BR!Places -> Dirs(overlay)] /\ \A q \in BR!Places : q # p => dirs'[q] = dirs[q]
      /\ dirs'[p] = [dirs[p] EXCEPT !.files = [dirs[p].files EXCEPT ![f] = c]]
  BY <1>1, <1>3, <1>4
<1>6. dirs'[p].files = [dirs[p].files EXCEPT ![f] = c] /\ dirs'[p].marker = dirs[p].marker
  BY <1>1, <1>5 DEF Dirs
<1>7. dirs[p].files \in [BR!Names -> Int]
  BY <1>1 DEF Dirs
<1>8. QED
  BY <1>5, <1>6, <1>7

LEMMA Stamping ==
    ASSUME BInv, NEW p \in BR!Places, NEW m \in Markers(overlay), dirs' = [dirs EXCEPT ![p].marker = m]
    PROVE  /\ dirs' \in [BR!Places -> Dirs(overlay)] /\ dirs'[p].marker = m
           /\ \A q \in BR!Places : dirs'[q].files = dirs[q].files /\ (q # p => dirs'[q] = dirs[q])
  BY DEF BInv, BTyped, Dirs

LEMMA Scratching ==
    ASSUME BInv, NEW p \in BR!Places, NEW t \in SUBSET BR!Names, dirs' = [dirs EXCEPT ![p].tmp = t]
    PROVE  /\ dirs' \in [BR!Places -> Dirs(overlay)]
           /\ \A q \in BR!Places : dirs'[q].files = dirs[q].files /\ dirs'[q].marker = dirs[q].marker
  BY DEF BInv, BTyped, Dirs

\* A stage from upstream's archive: what it holds counts for nothing yet.
LEMMA Fetching == ASSUME BInv, BR!Fetch PROVE BInv'
<1>1. /\ UNCHANGED <<overlay, turn, complete, open>> /\ place' = "stage" /\ phase' = "fetched" /\ undisturbed' = FALSE
  BY DEF BR!Fetch, BR!Goto
<1>2. PICK so \in {BR!Stock, BR!Odd, BR!Absent}, f \in BR!Names,
           marker \in {BR!NoMarker, BR!Fingerprint(BR!Fresh(BR!Upstream, BR!NoMarker))} :
         dirs' = [dirs EXCEPT !["stage"] = BR!Fresh([BR!Upstream EXCEPT ![f] = so], marker)]
  BY DEF BR!Fetch
<1>3. overlay \in Nat \ {0} /\ dirs \in [BR!Places -> Dirs(overlay)]
  BY DEF BInv, BTyped
<1>4. BR!Fingerprint(BR!Fresh(BR!Upstream, BR!NoMarker)) = <<overlay, Full>>
  <2>1. [f1 \in BR!Names |-> BR!SizeOf(BR!Upstream[f1])] = Full
    BY DEF BR!SizeOf, BR!Upstream, BR!Stock, BR!Torn, BR!Absent, Full
  <2>2. QED
    BY <2>1 DEF BR!Fingerprint, BR!Fresh
<1>5. marker \in Markers(overlay)
  BY <1>2, <1>3, <1>4 DEF Markers
<1>6. [BR!Upstream EXCEPT ![f] = so] \in [BR!Names -> Int]
      /\ \A g \in BR!Names : [BR!Upstream EXCEPT ![f] = so][g] # BR!Torn
  BY DEF BR!Upstream, BR!Stock, BR!Odd, BR!Absent, BR!Torn
<1>7. BR!Fresh([BR!Upstream EXCEPT ![f] = so], marker) \in Dirs(overlay)
  BY <1>5, <1>6 DEF BR!Fresh, Dirs
<1>8. BTyped'
  BY <1>1, <1>2, <1>3, <1>7 DEF BInv, BTyped, BR!Places, Passes
<1>9. dirs'["install"] = dirs["install"] /\ dirs'["stage"].files = [BR!Upstream EXCEPT ![f] = so]
  BY <1>2, <1>3 DEF BR!Places, BR!Fresh
<1>10. Truth'
  BY <1>1, <1>9 DEF BInv, Truth, Counts, Marked, Whole, BR!Places
<1>11. BR!PaksWhole'
  BY <1>6, <1>9, FilesAreNames DEF BInv, BR!PaksWhole, BR!Places
<1>12. QED
  BY <1>1, <1>8, <1>10, <1>11 DEF BInv, Undisturbed

\* A step that leaves every file and marker where it does not work.
LEMMA Unmarking ==
    ASSUME BInv, dirs' \in {dirs, [dirs EXCEPT ![place].marker = BR!NoMarker]},
           phase' \in {"idle", "check"}, phase' = "check" => dirs' # dirs \/ dirs[place].marker = BR!NoMarker,
           phase' = "check" => place = "stage", UNCHANGED <<overlay, open, place, turn, complete, undisturbed>>
    PROVE  BInv'
<1>1. dirs' \in [BR!Places -> Dirs(overlay)] /\ \A q \in BR!Places : dirs'[q].files = dirs[q].files
      /\ (q # place => dirs'[q] = dirs[q]) /\ (dirs'[q].marker = dirs[q].marker \/ (q = place /\ dirs'[q].marker = BR!NoMarker))
      /\ (phase' = "check" => dirs'[place].marker = BR!NoMarker)
  <2>1. overlay \in Nat /\ place \in BR!Places /\ BR!NoMarker \in Markers(overlay) /\ dirs \in [BR!Places -> Dirs(overlay)]
    BY MarkersDiffer DEF BInv, BTyped
  <2>2. CASE dirs' = dirs
    BY <2>1, <2>2
  <2>3. CASE dirs' = [dirs EXCEPT ![place].marker = BR!NoMarker]
    BY <2>1, <2>3, Stamping
  <2>4. QED
    BY <2>2, <2>3
<1>2. BTyped'
  BY <1>1 DEF BInv, BTyped, Passes
<1>3. BR!PaksWhole'
  BY <1>1 DEF BInv, BR!PaksWhole
<1>4. overlay \in Nat /\ BR!NoMarker # <<overlay, Full>>
  BY MarkersDiffer DEF BInv, BTyped
<1>5. Truth'
  <2> SUFFICES ASSUME NEW p \in BR!Places, Counts(p)', Marked(p)' PROVE Whole(p)'
    BY DEF Truth
  <2>1. Marked(p)
    BY <1>1, <1>4 DEF Marked
  <2>2. Counts(p)
    BY <1>1, <1>4 DEF Counts, Marked
  <2>3. QED
    BY <1>1, <2>1, <2>2 DEF BInv, Truth, Whole
<1>6. Undisturbed'
  BY DEF BInv, Undisturbed
<1>7. QED
  BY <1>2, <1>3, <1>5, <1>6 DEF BInv

\* From a stage to the place of the browser.
LEMMA Staging == ASSUME BInv, BR!RemoveMarker \/ BR!CheckStage \/ BR!Readback \/ BR!Promote PROVE BInv'
<1>0. UNCHANGED <<overlay, open, place, turn, complete, undisturbed>>
  BY DEF BR!RemoveMarker, BR!CheckStage, BR!Readback, BR!Promote, BR!Idle
<1>1. CASE BR!RemoveMarker
  <2>0. place \in BR!Places /\ dirs \in [BR!Places -> Dirs(overlay)]
    BY DEF BInv, BTyped
  <2>1. CASE dirs' = [dirs EXCEPT ![place].marker = BR!NoMarker] /\ phase' = "check"
    <3>1. dirs'[place].marker = BR!NoMarker
      BY <2>0, <2>1 DEF Dirs
    <3>2. dirs' = dirs => dirs[place].marker = BR!NoMarker
      BY <3>1
    <3>3. place = "stage"
      BY <1>1 DEF BInv, Truth, BR!RemoveMarker
    <3>4. QED
      BY <1>0, <2>1, <3>2, <3>3, Unmarking
  <2>2. CASE UNCHANGED dirs /\ phase' = "idle"
    BY <1>0, <2>2, Unmarking
  <2>3. QED
    BY <1>1, <2>1, <2>2 DEF BR!RemoveMarker, BR!Goto
<1>2. CASE BR!CheckStage
  <2>1. CASE phase' = "idle"
    BY <1>0, <1>2, <2>1, Unmarking DEF BR!CheckStage
  <2>2. CASE phase' = "ensure"
    <3>1. UNCHANGED dirs /\ phase = "check" /\ \A f \in BR!Names : BR!Replaceable(BR!Here.files[f])
      BY <1>2, <2>2 DEF BR!CheckStage, BR!Goto
    <3>2. place = "stage" /\ ~undisturbed
      BY <3>1 DEF BInv, Truth, Undisturbed
    <3>3. QED
      BY <1>0, <2>2, <3>1, <3>2 DEF BInv, BTyped, Truth, Undisturbed, BR!PaksWhole, Counts, Marked, Whole, Passes
  <2>3. QED
    BY <1>2, <2>1, <2>2 DEF BR!CheckStage, BR!Goto
<1>3. CASE BR!Readback
  <2>1. CASE phase' = "idle"
    BY <1>0, <1>3, <2>1, Unmarking DEF BR!Readback, BR!Goto
  <2>2. CASE phase' = "promote" /\ UNCHANGED dirs
    <3>1. phase = "readback"
      BY <1>3 DEF BR!Readback
    <3>2. QED
      BY <1>0, <2>2, <3>1 DEF BInv, BTyped, Truth, Undisturbed, BR!PaksWhole, Counts, Marked, Whole, Passes
  <2>3. QED
    BY <1>3, <2>1, <2>2 DEF BR!Readback, BR!Goto
<1>4. CASE BR!Promote
  <2>1. CASE UNCHANGED dirs
    BY <1>0, <1>4, <2>1, Unmarking DEF BR!Promote, BR!Goto
  <2>2. CASE dirs' = [dirs EXCEPT !["install"] = dirs[place]]
    <3>1. phase = "promote" /\ phase' = "idle" /\ place = "stage" /\ dirs \in [BR!Places -> Dirs(overlay)]
      BY <1>4 DEF BR!Promote, BR!Goto, BInv, BTyped, Truth
    <3>2. dirs' \in [BR!Places -> Dirs(overlay)] /\ dirs'["install"] = dirs["stage"] /\ dirs'["stage"] = dirs["stage"]
      BY <2>2, <3>1 DEF BR!Places
    <3>3. QED
      BY <1>0, <3>1, <3>2
      DEF BInv, BTyped, Truth, Undisturbed, BR!PaksWhole, Counts, Marked, Whole, Passes, BR!Places
  <2>3. QED
    BY <1>4, <2>1, <2>2 DEF BR!Promote, BR!Here
<1>5. QED
  BY <1>1, <1>2, <1>3, <1>4

\* A pass begins, or is not needed, or is given up.
LEMMA Starting == ASSUME BInv, BR!Launch \/ BR!Begin \/ BR!Result PROVE BInv'
<1>1. CASE BR!Launch
  <2>1. UNCHANGED <<dirs, overlay, turn, complete, open>> /\ place' = "install" /\ phase' = "ensure"
        /\ phase = "idle"
        /\ undisturbed' = (~open /\ \A f \in BR!Names : BR!Known(f))
    BY <1>1 DEF BR!Launch, BR!Goto
  <2>2. (\A f \in BR!Names : BR!Known(f)) => (\A f \in BR!Names : BR!Known(f))'
    BY <2>1 DEF BR!Known, BR!Stock, BR!Torn, BR!Absent
  <2>3. undisturbed' \in BOOLEAN
    BY <2>1
  <2>4. undisturbed' => ~open' /\ (\A f \in BR!Names : BR!Known(f))'
    BY <2>1, <2>2
  <2>5. BTyped'
    BY <2>1, <2>3 DEF BInv, BTyped, BR!Places, Passes
  <2>6. Truth'
    BY <2>1 DEF BInv, Truth, Counts, Marked, Whole
  <2>7. Undisturbed' /\ BR!PaksWhole'
    BY <2>1, <2>4 DEF BInv, Undisturbed, BR!PaksWhole
  <2>8. QED
    BY <2>5, <2>6, <2>7 DEF BInv
<1>2. CASE BR!Begin
  <2>0. UNCHANGED <<overlay, open, round, dirs, place>> /\ phase = "ensure" /\ place \in BR!Places
    BY <1>2 DEF BR!Begin, BR!Idle, BInv, BTyped
  <2>k. \A f \in BR!Names : BR!Known(f)' <=> BR!Known(f)
    BY <2>0 DEF BR!Known
  <2>1. CASE ~BR!IsPending /\ complete' = TRUE /\ phase' = "result" /\ UNCHANGED <<turn, undisturbed>>
    <3>1. Marked(place)
      BY <2>0, <2>1, Prints DEF BR!IsPending, BR!Here
    <3>2. QED
      BY <2>0, <2>1, <3>1
      DEF BInv, BTyped, Truth, Undisturbed, BR!PaksWhole, Counts, Marked, Whole, Passes
  <2>2. CASE BR!IsPending /\ complete' = TRUE /\ turn' = 1 /\ phase' = "patch" /\ UNCHANGED undisturbed
    <3>1. ~Marked(place)
      <4>1. SUFFICES ASSUME Marked(place) PROVE FALSE
        OBVIOUS
      <4>2. Whole(place)
        BY <2>0, <4>1 DEF BInv, Truth, Counts
      <4>3. QED
        BY <2>0, <2>2, <4>1, <4>2, Prints DEF BR!IsPending, BR!Here, Marked
    <3>2. BTyped'
      BY <2>0, <2>2 DEF BInv, BTyped, Passes
    <3>3. Truth'
      BY <2>0, <2>2, <3>1 DEF BInv, BTyped, Truth, Counts, Marked, Whole
    <3>4. Undisturbed'
      BY <2>0, <2>2, <2>k DEF BInv, Undisturbed
    <3>5. QED
      BY <2>0, <3>2, <3>3, <3>4 DEF BInv, BR!PaksWhole
  <2>3. CASE complete' = FALSE /\ undisturbed' = FALSE /\ phase' = "result" /\ UNCHANGED turn
    BY <2>0, <2>3 DEF BInv, BTyped, Truth, Undisturbed, BR!PaksWhole, Counts, Marked, Whole, Passes
  <2>4. QED
    BY <1>2, <2>1, <2>2, <2>3 DEF BR!Begin, BR!Goto
<1>3. CASE BR!Result
  <2>1. UNCHANGED <<overlay, open, round, dirs, place, turn, complete, undisturbed>> /\ phase = "result"
        /\ phase' = IF place = "stage" /\ complete THEN "readback" ELSE "idle"
    BY <1>3 DEF BR!Result, BR!Idle, BR!Goto
  <2>2. place = "stage" /\ complete => Marked(place) /\ Counts(place) /\ place \in BR!Places
    BY <2>1 DEF BInv, BTyped, Truth, Counts
  <2>3. place = "stage" /\ complete => Whole(place)
    BY <2>2 DEF BInv, Truth
  <2>4. QED
    BY <2>1, <2>3 DEF BInv, BTyped, Truth, Undisturbed, BR!PaksWhole, Counts, Marked, Whole, Passes
<1>4. QED
  BY <1>1, <1>2, <1>3

\* A pass is done with a file: it has the overlay, or the pass has failed.
LEMMA Passed ==
    ASSUME BInv, phase \in {"patch", "rename"}, NEW f \in BR!Names, BR!At(f),
           dirs' \in [BR!Places -> Dirs(overlay)],
           \A q \in BR!Places : /\ dirs'[q].marker = dirs[q].marker
                                /\ q # place => dirs'[q].files = dirs[q].files,
           \A g \in BR!Names : g # f => dirs'[place].files[g] = dirs[place].files[g],
           complete' \in BOOLEAN, complete' => complete /\ dirs'[place].files[f] = overlay,
           undisturbed' \in BOOLEAN, turn' = turn + 1, phase' = "patch", UNCHANGED <<overlay, open, place>>
    PROVE  BTyped' /\ Truth'
<1>1. BTyped'
  BY DEF BInv, BTyped, Passes
<1>2. ~Marked(place)'
  BY DEF BInv, BTyped, Truth, Marked
<1>3. ASSUME NEW q \in BR!Places, Counts(q)', Marked(q)' PROVE Whole(q)'
  <2>1. q # place
    BY <1>2, <1>3
  <2>2. Counts(q) /\ Marked(q)
    BY <1>3, <2>1 DEF Counts, Marked
  <2>3. QED
    BY <2>1, <2>2 DEF BInv, Truth, Whole
<1>4. ASSUME complete', NEW i \in 1..Len(BR!Files), i < turn + 1
      PROVE  dirs'[place].files[BR!Files[i]] = overlay
  <2>1. turn \in Nat /\ i \in Int /\ BR!Files[i] \in BR!Names /\ Len(BR!Files) \in Nat
    BY FilesAreNames DEF BInv, BTyped
  <2>2. CASE BR!Files[i] = f
    BY <1>4, <2>2
  <2>3. CASE BR!Files[i] # f
    <3>1. i # turn
      BY <2>3 DEF BR!At
    <3>2. i < turn
      BY <1>4, <2>1, <3>1
    <3>3. dirs[place].files[BR!Files[i]] = overlay
      BY <1>4, <3>2 DEF BInv, Truth
    <3>4. QED
      BY <2>1, <2>3, <3>3
  <2>4. QED
    BY <2>2, <2>3
<1>5. QED
  BY <1>1, <1>2, <1>3, <1>4 DEF Truth

\* What a launcher knows, it knows after it gave a file its overlay.
LEMMA Knowing ==
    ASSUME BInv, undisturbed, phase \in {"patch", "rename"}, NEW f \in BR!Names, UNCHANGED overlay,
           dirs'[place].files[f] = overlay,
           \A g \in BR!Names : g # f => dirs'[place].files[g] = dirs[place].files[g]
    PROVE  (\A g \in BR!Names : BR!Known(g))'
<1>1. place = "install" /\ (\A g \in BR!Names : BR!Known(g)) /\ overlay \in Nat \ {0}
  BY DEF BInv, BTyped, Undisturbed
<1>2. overlay \notin {BR!Torn, BR!Absent}
  BY <1>1 DEF BR!Torn, BR!Absent
<1>3. QED
  BY <1>1, <1>2 DEF BR!Known

\* A program is given its icons, or is not.
LEMMA Targeting == ASSUME BInv, BR!PatchTarget PROVE BInv'
<1>1. PICK f \in BR!ToSet(IconPrograms) :
         /\ BR!At(f)
         /\ \/ /\ BR!Here.files[f] \notin {BR!Absent, BR!Torn} /\ ~BR!Locked
               /\ dirs' = [dirs EXCEPT ![place].files[f] = overlay]
               /\ UNCHANGED <<complete, undisturbed>>
            \/ /\ BR!Here.files[f] \in {BR!Absent, BR!Torn} \/ BR!Locked
               /\ complete' = FALSE /\ UNCHANGED <<dirs, undisturbed>>
            \/ /\ complete' = FALSE /\ undisturbed' = FALSE
               /\ dirs' \in {dirs, IF BR!Here.files[f] = BR!Absent THEN dirs
                                   ELSE [dirs EXCEPT ![place].files[f] = BR!Torn]}
  BY DEF BR!PatchTarget
<1>2. /\ UNCHANGED <<overlay, open, place, phase>> /\ turn' = turn + 1 /\ phase = "patch"
      /\ place \in BR!Places /\ overlay \in Nat \ {0} /\ turn \in Nat \ {0}
      /\ complete \in BOOLEAN /\ undisturbed \in BOOLEAN /\ dirs \in [BR!Places -> Dirs(overlay)]
  BY DEF BR!PatchTarget, BR!Idle, BInv, BTyped
<1>3. f \in BR!Names /\ f \notin BR!ToSet(LogoPaks)
  BY <1>1, <1>2, FilesAreNames DEF BR!At
<1>4. CASE /\ dirs' = [dirs EXCEPT ![place].files[f] = overlay]
           /\ UNCHANGED <<complete, undisturbed>>
  <2>1. /\ dirs' \in [BR!Places -> Dirs(overlay)] /\ dirs'[place].files[f] = overlay
        /\ \A q \in BR!Places : /\ dirs'[q].marker = dirs[q].marker
                                /\ q # place => dirs'[q] = dirs[q]
                                /\ \A g \in BR!Names : g # f => dirs'[q].files[g] = dirs[q].files[g]
    <3>1. overlay \in Int /\ dirs' = [dirs EXCEPT ![place].files[f] = overlay]
      BY <1>2, <1>4
    <3>2. QED
      BY <1>2, <1>3, <3>1, Writing
  <2>2. BTyped' /\ Truth'
    BY <1>1, <1>2, <1>3, <1>4, <2>1, Passed
  <2>3. Undisturbed'
    BY <1>2, <1>3, <1>4, <2>1, Knowing DEF BInv, Undisturbed
  <2>4. BR!PaksWhole'
    BY <1>3, <2>1, FilesAreNames DEF BInv, BR!PaksWhole
  <2>5. QED
    BY <2>2, <2>3, <2>4 DEF BInv
<1>5. CASE /\ BR!Here.files[f] \in {BR!Absent, BR!Torn} \/ BR!Locked
           /\ complete' = FALSE /\ UNCHANGED <<dirs, undisturbed>>
  <2>1. BTyped' /\ Truth'
    BY <1>1, <1>2, <1>3, <1>5, Passed
  <2>2. ~undisturbed
    <3>1. SUFFICES ASSUME undisturbed PROVE FALSE
      OBVIOUS
    <3>2. place = "install" /\ ~open /\ BR!Known(f)
      BY <1>2, <1>3, <3>1 DEF BInv, Undisturbed
    <3>3. QED
      BY <1>3, <1>5, <3>2 DEF BR!Locked, BR!Here, BR!Known
  <2>3. QED
    BY <1>5, <2>1, <2>2 DEF BInv, Undisturbed, BR!PaksWhole
<1>6. CASE /\ complete' = FALSE /\ undisturbed' = FALSE
           /\ dirs' \in {dirs, [dirs EXCEPT ![place].files[f] = BR!Torn]}
  <2>1. /\ dirs' \in [BR!Places -> Dirs(overlay)]
        /\ \A q \in BR!Places : /\ dirs'[q].marker = dirs[q].marker
                                /\ q # place => dirs'[q] = dirs[q]
                                /\ \A g \in BR!Names : g # f => dirs'[q].files[g] = dirs[q].files[g]
    <3>1. BR!Torn \in Int
      BY DEF BR!Torn
    <3>2. QED
      BY <1>2, <1>3, <1>6, <3>1, Writing
  <2>2. BTyped' /\ Truth'
    BY <1>1, <1>2, <1>3, <1>6, <2>1, Passed
  <2>3. BR!PaksWhole'
    BY <1>3, <2>1, FilesAreNames DEF BInv, BR!PaksWhole
  <2>4. QED
    BY <1>6, <2>2, <2>3 DEF BInv, Undisturbed
<1>7. QED
  BY <1>1, <1>4, <1>5, <1>6

\* An archive is written beside, and renamed; or is not.
LEMMA Archiving == ASSUME BInv, BR!WritePak \/ BR!PakFails \/ BR!RenamePak PROVE BInv'
<1>0. /\ place \in BR!Places /\ overlay \in Nat \ {0} /\ turn \in Nat \ {0}
      /\ complete \in BOOLEAN /\ undisturbed \in BOOLEAN /\ dirs \in [BR!Places -> Dirs(overlay)]
  BY DEF BInv, BTyped
<1>t. \A f : dirs[place].tmp \cup {f} \in SUBSET BR!Names \/ f \notin BR!Names
  BY <1>0 DEF Dirs
<1>s. \A f : dirs[place].tmp \ {f} \in SUBSET BR!Names
  BY <1>0 DEF Dirs
<1>1. CASE BR!WritePak
  <2>1. PICK f \in BR!ToSet(LogoPaks) : BR!At(f) /\ dirs' = [dirs EXCEPT ![place].tmp = @ \cup {f}]
    BY <1>1 DEF BR!WritePak
  <2>2. dirs' = [dirs EXCEPT ![place].tmp = dirs[place].tmp \cup {f}] /\ f \in BR!Names
    BY <2>1, <1>0, FilesAreNames
  <2>3. /\ dirs' \in [BR!Places -> Dirs(overlay)]
        /\ \A q \in BR!Places : dirs'[q].files = dirs[q].files /\ dirs'[q].marker = dirs[q].marker
    BY <1>0, <1>t, <2>2, Scratching
  <2>4. UNCHANGED <<overlay, open, place, turn, complete, undisturbed>> /\ phase = "patch" /\ phase' = "rename"
    BY <1>1 DEF BR!WritePak, BR!Idle, BR!Goto
  <2>5. BTyped'
    BY <2>3, <2>4 DEF BInv, BTyped, Passes
  <2>6. Truth'
    BY <1>0, <2>3, <2>4 DEF BInv, Truth, Counts, Marked, Whole
  <2>7. Undisturbed' /\ BR!PaksWhole'
    BY <1>0, <2>3, <2>4 DEF BInv, Undisturbed, BR!Known, BR!PaksWhole
  <2>8. QED
    BY <2>5, <2>6, <2>7 DEF BInv
<1>2. CASE BR!PakFails
  <2>1. PICK f \in BR!ToSet(LogoPaks) :
           /\ BR!At(f)
           /\ undisturbed' = (undisturbed /\ phase = "patch" /\ ~BR!Replaceable(BR!Here.files[f]))
           /\ dirs' \in {dirs, [dirs EXCEPT ![place].tmp = @ \ {f}]}
    BY <1>2 DEF BR!PakFails
  <2>2. f \in BR!Names /\ dirs' \in {dirs, [dirs EXCEPT ![place].tmp = dirs[place].tmp \ {f}]}
    BY <2>1, <1>0, FilesAreNames
  <2>3. /\ dirs' \in [BR!Places -> Dirs(overlay)]
        /\ \A q \in BR!Places : dirs'[q].files = dirs[q].files /\ dirs'[q].marker = dirs[q].marker
    BY <1>0, <1>s, <2>2, Scratching
  <2>4. UNCHANGED <<overlay, open, place>> /\ phase \in {"patch", "rename"} /\ phase' = "patch"
        /\ complete' = FALSE /\ turn' = turn + 1
    BY <1>2 DEF BR!PakFails, BR!Idle, BR!Goto
  <2>5. ~undisturbed'
    <3>1. SUFFICES ASSUME undisturbed, ~BR!Replaceable(BR!Here.files[f]) PROVE FALSE
      BY <2>1
    <3>2. place = "install" /\ BR!Known(f)
      BY <2>2, <2>4, <3>1 DEF BInv, Undisturbed
    <3>3. QED
      BY <2>1, <3>1, <3>2 DEF BR!Known, BR!Replaceable, BR!Here
  <2>6. undisturbed' \in BOOLEAN
    BY <2>1
  <2>7. BTyped' /\ Truth'
    BY <1>0, <2>1, <2>2, <2>3, <2>4, <2>6, Passed
  <2>8. QED
    BY <2>3, <2>5, <2>7 DEF BInv, Undisturbed, BR!PaksWhole
<1>3. CASE BR!RenamePak
  <2>1. PICK f \in BR!ToSet(LogoPaks) :
           BR!At(f) /\ dirs' = [dirs EXCEPT ![place].files[f] = overlay, ![place].tmp = @ \ {f}]
    BY <1>3 DEF BR!RenamePak
  <2>2. f \in BR!Names
    BY <2>1, FilesAreNames
  <2>3. /\ dirs' \in [BR!Places -> Dirs(overlay)] /\ dirs'[place].files[f] = overlay
        /\ \A q \in BR!Places : dirs'[q].marker = dirs[q].marker /\ (q # place => dirs'[q] = dirs[q])
        /\ \A g \in BR!Names : g # f => dirs'[place].files[g] = dirs[place].files[g]
    <3> DEFINE files == [dirs[place].files EXCEPT ![f] = overlay]
               dir == [dirs[place] EXCEPT !.files = files, !.tmp = dirs[place].tmp \ {f}]
    <3>1. dirs[place] \in Dirs(overlay) /\ dirs[place].files \in [BR!Names -> Int]
      BY <1>0 DEF Dirs
    <3>2. files \in [BR!Names -> Int] /\ files[f] = overlay
          /\ \A g \in BR!Names : g # f => files[g] = dirs[place].files[g]
      BY <1>0, <2>2, <3>1
    <3>3. dirs' = [dirs EXCEPT ![place] = dir]
      BY <1>0, <2>1, <3>1 DEF Dirs
    <3> HIDE DEF files
    <3>4. dir \in Dirs(overlay) /\ dir.files = files /\ dir.marker = dirs[place].marker
      BY <3>1, <3>2, <1>s DEF Dirs
    <3> HIDE DEF dir
    <3>5. QED
      BY <1>0, <3>2, <3>3, <3>4
  <2>4. UNCHANGED <<overlay, open, place, complete, undisturbed>> /\ phase = "rename" /\ phase' = "patch"
        /\ turn' = turn + 1
    BY <1>3 DEF BR!RenamePak, BR!Idle, BR!Goto
  <2>5. BTyped' /\ Truth'
    BY <1>0, <2>1, <2>2, <2>3, <2>4, Passed
  <2>6. Undisturbed'
    BY <2>2, <2>3, <2>4, Knowing DEF BInv, Undisturbed
  <2>7. BR!PaksWhole'
    BY <1>0, <2>2, <2>3, FilesAreNames DEF BInv, BR!PaksWhole, BR!Torn
  <2>8. QED
    BY <2>5, <2>6, <2>7 DEF BInv
<1>4. QED
  BY <1>1, <1>2, <1>3

\* The marker is for a pass in which every file got its overlay.
LEMMA Marking == ASSUME BInv, BR!Mark PROVE BInv'
<1>0. /\ place \in BR!Places /\ overlay \in Nat \ {0} /\ turn \in Nat \ {0}
      /\ complete \in BOOLEAN /\ undisturbed \in BOOLEAN /\ dirs \in [BR!Places -> Dirs(overlay)]
  BY DEF BInv, BTyped
<1>1. /\ UNCHANGED <<overlay, open, place, turn>> /\ phase = "patch" /\ turn > Len(BR!Files) /\ phase' = "result"
  BY DEF BR!Mark, BR!Idle, BR!Goto
<1>2. complete => Whole(place)
  <2> SUFFICES ASSUME complete, NEW f \in BR!Names PROVE dirs[place].files[f] = overlay
    BY DEF Whole
  <2>1. PICK i \in 1..Len(BR!Files) : f = BR!Files[i]
    BY FilesAreNames
  <2>2. i < turn
    BY <1>0, <1>1, <2>1, FilesAreNames
  <2>3. QED
    BY <1>1, <2>1, <2>2 DEF BInv, Truth
<1>3. CASE complete /\ dirs' = [dirs EXCEPT ![place].marker = BR!Fingerprint(BR!Here)]
           /\ UNCHANGED <<complete, undisturbed>>
  <2>1. BR!Fingerprint(BR!Here) = <<overlay, Full>> /\ <<overlay, Full>> \in Markers(overlay)
    BY <1>0, <1>2, <1>3, Prints DEF BR!Here, Markers
  <2>2. /\ dirs' \in [BR!Places -> Dirs(overlay)] /\ dirs'[place].marker = <<overlay, Full>>
        /\ \A q \in BR!Places : dirs'[q].files = dirs[q].files /\ (q # place => dirs'[q] = dirs[q])
    BY <1>0, <1>3, <2>1, Stamping
  <2>3. BTyped'
    BY <1>1, <1>3, <2>2 DEF BInv, BTyped, Passes
  <2>4. Truth'
    <3>1. ASSUME NEW q \in BR!Places, Counts(q)', Marked(q)' PROVE Whole(q)'
      <4>1. CASE q = place
        BY <1>0, <1>1, <1>2, <1>3, <2>2, <4>1 DEF Whole
      <4>2. CASE q # place
        <5>1. Counts(q) /\ Marked(q)
          BY <1>1, <2>2, <3>1, <4>2 DEF Counts, Marked
        <5>2. QED
          BY <1>1, <2>2, <5>1 DEF BInv, Truth, Whole
      <4>3. QED
        BY <4>1, <4>2
    <3>2. Marked(place)'
      BY <1>1, <2>2 DEF Marked
    <3>3. QED
      BY <1>1, <3>1, <3>2 DEF Truth
  <2>5. Undisturbed' /\ BR!PaksWhole'
    BY <1>1, <1>3, <2>2 DEF BInv, Undisturbed, BR!PaksWhole
  <2>6. QED
    BY <2>3, <2>4, <2>5 DEF BInv
<1>4. CASE ~complete /\ UNCHANGED <<dirs, complete, undisturbed>>
  BY <1>0, <1>1, <1>4 DEF BInv, BTyped, Truth, Undisturbed, BR!PaksWhole, Counts, Marked, Whole, Passes
<1>5. CASE complete' = FALSE /\ undisturbed' = FALSE
           /\ dirs' \in {dirs, [dirs EXCEPT ![place].marker = BR!PartMarker]}
  <2>1. BR!PartMarker \in Markers(overlay) /\ BR!PartMarker # <<overlay, Full>>
    BY <1>0, MarkersDiffer
  <2>2. /\ dirs' \in [BR!Places -> Dirs(overlay)]
        /\ \A q \in BR!Places : dirs'[q].files = dirs[q].files
                                /\ (dirs'[q].marker = dirs[q].marker \/ dirs'[q].marker = BR!PartMarker)
    BY <1>0, <1>5, <2>1, Stamping
  <2>3. BTyped'
    BY <1>1, <1>5, <2>2 DEF BInv, BTyped, Passes
  <2>4. Truth'
    BY <1>1, <1>5, <2>1, <2>2 DEF BInv, Truth, Counts, Marked, Whole
  <2>5. Undisturbed' /\ BR!PaksWhole'
    BY <1>5, <2>2 DEF BInv, Undisturbed, BR!PaksWhole
  <2>6. QED
    BY <2>3, <2>4, <2>5 DEF BInv
<1>6. QED
  BY <1>3, <1>4, <1>5 DEF BR!Mark

\* A death in the middle of a program or of the marker; a newer launcher; the
\* browser itself.
LEMMA Besides == ASSUME BInv, BR!Die \/ BR!Ship \/ BR!OpenOrClose PROVE BInv'
<1>0. /\ place \in BR!Places /\ overlay \in Nat \ {0} /\ dirs \in [BR!Places -> Dirs(overlay)]
      /\ phase \in Passes /\ open \in BOOLEAN /\ undisturbed \in BOOLEAN
  BY DEF BInv, BTyped
<1>1. CASE BR!Die
  <2>0. UNCHANGED <<overlay, open, place, turn, complete, undisturbed>> /\ phase' = "idle"
    BY <1>1 DEF BR!Die, BR!Idle, BR!Goto
  <2>1. CASE UNCHANGED dirs
    BY <2>0, <2>1, Unmarking
  <2>2. ASSUME phase = "patch", NEW f \in BR!ToSet(IconPrograms), BR!At(f),
               dirs' = [dirs EXCEPT ![place].files[f] = BR!Torn]
        PROVE  BInv'
    <3>1. f \in BR!Names /\ f \notin BR!ToSet(LogoPaks) /\ BR!Torn \in Int
      BY <2>2, FilesAreNames DEF BR!At, BInv, BTyped, BR!Torn
    <3>2. /\ dirs' \in [BR!Places -> Dirs(overlay)]
          /\ \A q \in BR!Places : /\ dirs'[q].marker = dirs[q].marker
                                  /\ q # place => dirs'[q] = dirs[q]
                                  /\ \A g \in BR!Names : g # f => dirs'[q].files[g] = dirs[q].files[g]
      BY <1>0, <2>2, <3>1, Writing
    <3>3. BTyped' /\ Undisturbed' /\ BR!PaksWhole'
      BY <2>0, <3>1, <3>2, FilesAreNames DEF BInv, BTyped, Undisturbed, BR!PaksWhole, Passes
    <3>4. Truth'
      BY <2>0, <2>2, <3>2 DEF BInv, Truth, Counts, Marked, Whole
    <3>5. QED
      BY <3>3, <3>4 DEF BInv
  <2>3. CASE phase = "patch" /\ dirs' = [dirs EXCEPT ![place].marker = BR!PartMarker]
    <3>1. BR!PartMarker \in Markers(overlay) /\ BR!PartMarker # <<overlay, Full>>
      BY <1>0, MarkersDiffer
    <3>2. /\ dirs' \in [BR!Places -> Dirs(overlay)] /\ dirs'[place].marker = BR!PartMarker
          /\ \A q \in BR!Places : dirs'[q].files = dirs[q].files /\ (q # place => dirs'[q] = dirs[q])
      BY <1>0, <2>3, <3>1, Stamping
    <3>3. BTyped' /\ Undisturbed' /\ BR!PaksWhole'
      BY <2>0, <3>2 DEF BInv, BTyped, Undisturbed, BR!PaksWhole, Passes
    <3>4. Truth'
      BY <2>0, <2>3, <3>1, <3>2 DEF BInv, Truth, Counts, Marked, Whole
    <3>5. QED
      BY <3>3, <3>4 DEF BInv
  <2>4. QED
    BY <1>1, <2>1, <2>2, <2>3 DEF BR!Die
<1>2. CASE BR!Ship
  <2>1. phase = "idle" /\ overlay' = overlay + 1
        /\ UNCHANGED <<dirs, place, phase, turn, complete, open, round, undisturbed>>
    BY <1>2 DEF BR!Ship
  <2>2. Markers(overlay) \subseteq Markers(overlay') /\ overlay' \in Nat \ {0}
        /\ \A m \in Markers(overlay) : m # <<overlay', Full>>
    BY <1>0, <2>1, MarkersDiffer
  <2>3. dirs' \in [BR!Places -> Dirs(overlay')] /\ \A p \in BR!Places : dirs[p].marker \in Markers(overlay)
    BY <1>0, <2>1, <2>2 DEF Dirs
  <2>4. BTyped'
    BY <2>1, <2>2, <2>3 DEF BInv, BTyped
  <2>5. Truth'
    BY <2>1, <2>2, <2>3 DEF Truth, Marked
  <2>6. Undisturbed' /\ BR!PaksWhole'
    BY <2>1 DEF BInv, Undisturbed, BR!PaksWhole
  <2>7. QED
    BY <2>4, <2>5, <2>6 DEF BInv
<1>3. CASE BR!OpenOrClose
  <2>1. UNCHANGED <<dirs, overlay, place, phase, turn, complete>> /\ open' = ~open
        /\ undisturbed' = (undisturbed /\ phase \notin {"ensure", "patch", "rename"})
    BY <1>3 DEF BR!OpenOrClose
  <2>2. open' \in BOOLEAN /\ undisturbed' \in BOOLEAN
        /\ (undisturbed' => undisturbed /\ phase \notin {"ensure", "patch", "rename"})
    BY <2>1
  <2>3. BTyped'
    BY <2>1, <2>2 DEF BInv, BTyped
  <2>4. Truth' /\ BR!PaksWhole'
    BY <2>1 DEF BInv, Truth, Counts, Marked, Whole, BR!PaksWhole
  <2>5. Undisturbed'
    BY <2>1, <2>2 DEF BInv, Undisturbed
  <2>6. QED
    BY <2>3, <2>4, <2>5 DEF BInv
<1>4. QED
  BY <1>1, <1>2, <1>3

\* Through deaths at any step, locked files and launchers that ship another
\* overlay: a marker that makes the launcher leave a directory alone is true,
\* what replaces the browser has the whole overlay, no archive is part of one,
\* and a pass that nothing disturbs completes (ensure_branding,
\* validate_chromium_stage).
THEOREM Overlaying == MachinesSpec => []OverlayTrue
<1>1. BR!BrandingInit => BInv
  <2> SUFFICES ASSUME BR!BrandingInit PROVE BInv
    OBVIOUS
  <2>1. BR!NoMarker \in Markers(1) /\ BR!NoMarker # <<1, Full>>
    BY MarkersDiffer
  <2>2. BR!Upstream \in [BR!Names -> Int] /\ \A f \in BR!Names : BR!Upstream[f] # BR!Torn
    BY DEF BR!Upstream, BR!Stock, BR!Torn
  <2>3. BR!Fresh(BR!Upstream, BR!NoMarker) \in Dirs(1)
    BY <2>1, <2>2 DEF Dirs, BR!Fresh
  <2>4. overlay = 1 /\ place = "install" /\ phase = "idle" /\ turn = 1
        /\ complete = FALSE /\ open = FALSE /\ undisturbed = FALSE
        /\ dirs = [p \in BR!Places |-> BR!Fresh(BR!Upstream, BR!NoMarker)]
    BY DEF BR!BrandingInit
  <2>5. \A p \in BR!Places : dirs[p].files = BR!Upstream /\ dirs[p].marker = BR!NoMarker
    BY <2>4 DEF BR!Fresh
  <2>6. BTyped
    <3>1. complete \in BOOLEAN /\ open \in BOOLEAN /\ undisturbed \in BOOLEAN
      BY <2>4
    <3>2. dirs \in [BR!Places -> Dirs(overlay)]
      BY <2>3, <2>4
    <3>3. overlay \in Nat \ {0} /\ turn \in Nat \ {0} /\ place \in BR!Places /\ phase \in Passes
      BY <2>4 DEF BR!Places, Passes
    <3>4. QED
      BY <3>1, <3>2, <3>3 DEF BTyped
  <2>7. Truth /\ Undisturbed
    BY <2>1, <2>4, <2>5 DEF Truth, Undisturbed, Marked
  <2>8. BR!PaksWhole
    BY <2>2, <2>5, FilesAreNames DEF BR!PaksWhole
  <2>9. QED
    BY <2>6, <2>7, <2>8 DEF BInv
<1>2. BInv /\ [BR!BrandingNext]_brandingVars => BInv'
  <2> SUFFICES ASSUME BInv, [BR!BrandingNext]_brandingVars PROVE BInv'
    OBVIOUS
  <2>1. CASE UNCHANGED brandingVars
    BY <2>1 DEF brandingVars, BInv, BTyped, Truth, Undisturbed, BR!PaksWhole, Counts, Marked, Whole, BR!Known
  <2>2. CASE BR!BrandingNext
    BY <2>2, Fetching, Staging, Starting, Targeting, Archiving, Marking, Besides DEF BR!BrandingNext
  <2>3. QED
    BY <2>1, <2>2
<1>3. BInv => OverlayTrue
  <2> SUFFICES ASSUME BInv PROVE OverlayTrue
    OBVIOUS
  <2>1. place \in BR!Places
    BY DEF BInv, BTyped
  <2>2. BR!MarkerTellsOverlay
    BY Prints DEF BInv, Truth, Counts, Whole, BR!MarkerTellsOverlay
  <2>3. BR!PromotedWhole
    BY DEF BInv, Truth, Whole, BR!PromotedWhole, BR!Here
  <2>4. BR!RetryCompletes
    <3> SUFFICES ASSUME phase = "result", place = "install", undisturbed
                 PROVE  complete /\ dirs[place].marker = BR!Fingerprint(dirs[place])
      BY DEF BR!RetryCompletes, BR!Here
    <3>1. complete /\ Marked(place) /\ Counts(place)
      BY DEF BInv, Truth, Undisturbed, Counts
    <3>2. Whole(place)
      BY <2>1, <3>1 DEF BInv, Truth
    <3>3. QED
      BY <2>1, <3>1, <3>2, Prints DEF Marked
  <2>5. QED
    BY <2>2, <2>3, <2>4 DEF OverlayTrue, BInv
<1>4. MachinesInit => BInv
  BY <1>1 DEF MachinesInit
<1>5. BInv /\ [MachinesNext]_machines => BInv'
  BY <1>2, Apart
<1>6. QED
  BY <1>3, <1>4, <1>5, PTL DEF MachinesSpec

-----------------------------------------------------------------------------
(* Profiles: first what a command line means, then the launches.            *)

Switches == {"profile", "machine-id", "encryption", "disable-features", "component-update", "webrtc",
             "features", "first-run"}
Words == {"Data", "off", "public", "DeviceBoundSessions", "JumpList", "MinimalReferrers", "U"}
Args == [switch : Switches, value : SUBSET Words]

\* The last switch of a name has this value.
Sets(args, name, value) ==
    \E k \in 1..Len(args) : /\ args[k].switch = name /\ args[k].value = value
                            /\ \A j \in 1..Len(args) : j > k => args[j].switch # name

\* The last one of a name counts, and none if it is not there.
LEMMA LastCounts ==
    ASSUME NEW S, NEW args \in Seq(S), NEW name
    PROVE  /\ \A value : Sets(args, name, value) => PR!Effective(args, name) = value
           /\ name \notin PR!Named(args) => PR!Effective(args, name) = {}
<1>1. ASSUME NEW value, Sets(args, name, value) PROVE PR!Effective(args, name) = value
  <2>1. PICK k \in 1..Len(args) : /\ args[k].switch = name /\ args[k].value = value
                                  /\ \A j \in 1..Len(args) : j > k => args[j].switch # name
    BY <1>1 DEF Sets
  <2> DEFINE I == {i \in 1..Len(args) : args[i].switch = name}
  <2>2. k \in I /\ \A j \in I : k >= j
    BY <2>1
  <2>3. \A x \in I : (\A y \in I : x >= y) => x = k
    BY <2>2
  <2>4. PR!Max(I) = k
    BY <2>2, <2>3 DEF PR!Max
  <2>5. PR!Effective(args, name) = IF I # {} THEN args[PR!Max(I)].value ELSE {}
    <3>1. Len(args) \in Nat /\ PR!Max(I) # 0
      BY <2>4
    <3>2. QED
      BY <2>2, <3>1 DEF PR!Effective, PR!SelectLastInSeq
  <2>6. QED
    BY <2>1, <2>2, <2>4, <2>5
<1>2. ASSUME name \notin PR!Named(args) PROVE PR!Effective(args, name) = {}
  BY <1>2 DEF PR!Effective, PR!SelectLastInSeq, PR!Named
<1>3. QED
  BY <1>1, <1>2

LEMMA Joins ==
    ASSUME NEW S, NEW s \in Seq(S), NEW t \in Seq(S)
    PROVE  /\ s \o t \in Seq(S) /\ PR!Named(s \o t) = PR!Named(s) \cup PR!Named(t)
           /\ \A name, value : Sets(t, name, value) => Sets(s \o t, name, value)
           /\ \A name, value : Sets(s, name, value) /\ name \notin PR!Named(t) => Sets(s \o t, name, value)
<1>1. /\ s \o t \in Seq(S) /\ Len(s \o t) = Len(s) + Len(t) /\ Len(s) \in Nat /\ Len(t) \in Nat
      /\ \A i \in 1..Len(s) : (s \o t)[i] = s[i]
      /\ \A i \in 1..Len(t) : (s \o t)[Len(s) + i] = t[i]
      /\ \A i \in 1..Len(s) + Len(t) : (s \o t)[i] = IF i <= Len(s) THEN s[i] ELSE t[i - Len(s)]
  BY ConcatProperties
<1> DEFINE u == s \o t
<1> HIDE DEF u
<1>2. PR!Named(u) = PR!Named(s) \cup PR!Named(t)
  <2>1. ASSUME NEW i \in 1..Len(u) PROVE u[i].switch \in PR!Named(s) \cup PR!Named(t)
    <3>1. i <= Len(s) => i \in 1..Len(s)
      BY <1>1 DEF u
    <3>2. i > Len(s) => i - Len(s) \in 1..Len(t)
      BY <1>1 DEF u
    <3>3. QED
      BY <1>1, <3>1, <3>2 DEF PR!Named, u
  <2>2. \A i \in 1..Len(s) : i \in 1..Len(u) /\ u[i] = s[i]
    BY <1>1 DEF u
  <2>3. \A i \in 1..Len(t) : Len(s) + i \in 1..Len(u) /\ u[Len(s) + i] = t[i]
    BY <1>1 DEF u
  <2>4. PR!Named(u) \subseteq PR!Named(s) \cup PR!Named(t)
    BY <2>1 DEF PR!Named
  <2>5. PR!Named(s) \subseteq PR!Named(u)
    BY <2>2 DEF PR!Named
  <2>6. PR!Named(t) \subseteq PR!Named(u)
    <3>1. ASSUME NEW i \in 1..Len(t) PROVE t[i].switch \in PR!Named(u)
      <4>1. Len(s) + i \in 1..Len(u) /\ u[Len(s) + i].switch = t[i].switch
        BY <2>3
      <4>2. QED
        BY <4>1 DEF PR!Named
    <3>2. QED
      BY <3>1 DEF PR!Named
  <2>7. QED
    BY <2>4, <2>5, <2>6
<1>3. ASSUME NEW name, NEW value, Sets(t, name, value) PROVE Sets(u, name, value)
  <2>1. PICK k \in 1..Len(t) : /\ t[k].switch = name /\ t[k].value = value
                               /\ \A j \in 1..Len(t) : j > k => t[j].switch # name
    BY <1>3 DEF Sets
  <2>2. Len(s) + k \in 1..Len(u) /\ u[Len(s) + k] = t[k]
    BY <1>1 DEF u
  <2>3. ASSUME NEW j \in 1..Len(u), j > Len(s) + k PROVE u[j].switch # name
    <3>1. j - Len(s) \in 1..Len(t) /\ j - Len(s) > k /\ u[j] = t[j - Len(s)]
      BY <1>1, <2>3 DEF u
    <3>2. QED
      BY <2>1, <3>1
  <2>4. QED
    BY <2>1, <2>2, <2>3 DEF Sets
<1>4. ASSUME NEW name, NEW value, Sets(s, name, value), name \notin PR!Named(t) PROVE Sets(u, name, value)
  <2>1. PICK k \in 1..Len(s) : /\ s[k].switch = name /\ s[k].value = value
                               /\ \A j \in 1..Len(s) : j > k => s[j].switch # name
    BY <1>4 DEF Sets
  <2>2. k \in 1..Len(u) /\ u[k] = s[k]
    BY <1>1 DEF u
  <2>3. ASSUME NEW j \in 1..Len(u), j > k PROVE u[j].switch # name
    <3>1. CASE j <= Len(s)
      BY <1>1, <2>1, <2>3, <3>1 DEF u
    <3>2. CASE j > Len(s)
      <4>1. j - Len(s) \in 1..Len(t) /\ u[j] = t[j - Len(s)]
        BY <1>1, <3>2 DEF u
      <4>2. QED
        BY <1>4, <4>1 DEF PR!Named
    <3>3. QED
      BY <1>1, <3>1, <3>2 DEF u
  <2>4. QED
    BY <2>1, <2>2, <2>3 DEF Sets
<1>5. QED
  BY <1>1, <1>2, <1>3, <1>4 DEF u

\* One switch, and the constant lists.
LEMMA Constant ==
    /\ <<>> \in Seq(Args) /\ PR!Named(<<>>) = {}
    /\ \A name \in Switches, value \in Words :
          /\ <<PR!Lone(name, value)>> \in Seq(Args) /\ PR!Named(<<PR!Lone(name, value)>>) = {name}
          /\ Sets(<<PR!Lone(name, value)>>, name, {value})
    /\ PR!PortabilityFlags \in Seq(Args)
    /\ PR!Named(PR!PortabilityFlags) = {"machine-id", "encryption", "disable-features"}
    /\ Sets(PR!PortabilityFlags, "machine-id", {"off"})
    /\ Sets(PR!PortabilityFlags, "encryption", {"off"})
    /\ Sets(PR!PortabilityFlags, "disable-features", {"DeviceBoundSessions"})
<1>1. <<>> \in Seq(Args) /\ PR!Named(<<>>) = {}
  BY DEF PR!Named
<1>2. ASSUME NEW name \in Switches, NEW value \in Words
      PROVE  /\ <<PR!Lone(name, value)>> \in Seq(Args) /\ PR!Named(<<PR!Lone(name, value)>>) = {name}
             /\ Sets(<<PR!Lone(name, value)>>, name, {value})
  <2> DEFINE a == PR!Lone(name, value)
  <2>1. a \in Args /\ a.switch = name /\ a.value = {value}
    BY DEF Args, PR!Lone, PR!Switch
  <2> HIDE DEF a
  <2>2. <<a>> \in Seq(Args) /\ Len(<<a>>) = 1 /\ <<a>>[1] = a
    BY <2>1
  <2>3. QED
    BY <2>1, <2>2 DEF PR!Named, Sets, a
<1>3. PICK a, b, c : a = PR!Lone("machine-id", "off") /\ b = PR!Lone("encryption", "off")
                     /\ c = PR!Switch("disable-features", {"DeviceBoundSessions"})
  OBVIOUS
<1>a. a \in Args /\ a.switch = "machine-id" /\ a.value = {"off"}
  BY <1>3 DEF Args, Switches, Words, PR!Lone, PR!Switch
<1>b. b \in Args /\ b.switch = "encryption" /\ b.value = {"off"}
  BY <1>3 DEF Args, Switches, Words, PR!Lone, PR!Switch
<1>4. c \in Args /\ c.switch = "disable-features" /\ c.value = {"DeviceBoundSessions"}
  BY <1>3 DEF Args, Switches, Words, PR!Switch
<1>5. /\ PR!PortabilityFlags = <<a, b, c>> /\ <<a, b, c>> \in Seq(Args) /\ Len(<<a, b, c>>) = 3
      /\ <<a, b, c>>[1] = a /\ <<a, b, c>>[2] = b /\ <<a, b, c>>[3] = c
  BY <1>3, <1>a, <1>b, <1>4 DEF PR!PortabilityFlags
<1>6. \A i \in 1..3 : i = 1 \/ i = 2 \/ i = 3
  OBVIOUS
<1>7. PR!Named(PR!PortabilityFlags) = {"machine-id", "encryption", "disable-features"}
  BY <1>a, <1>b, <1>4, <1>5, <1>6 DEF PR!Named
<1>8. /\ Sets(PR!PortabilityFlags, "machine-id", {"off"})
      /\ Sets(PR!PortabilityFlags, "encryption", {"off"})
      /\ Sets(PR!PortabilityFlags, "disable-features", {"DeviceBoundSessions"})
  BY <1>a, <1>b, <1>4, <1>5, <1>6 DEF Sets
<1>9. QED
  BY <1>1, <1>2, <1>5, <1>7, <1>8

LEMMA ConstantFlags ==
    /\ PR!UngoogledFlags \in Seq(Args) /\ PR!HeliumFlags \in Seq(Args)
    /\ PR!Named(PR!UngoogledFlags) = {"component-update", "disable-features", "webrtc", "features"}
    /\ PR!Named(PR!HeliumFlags) = {"disable-features", "webrtc", "features"}
    /\ Sets(PR!UngoogledFlags, "disable-features", {"JumpList", "DeviceBoundSessions"})
    /\ Sets(PR!HeliumFlags, "disable-features", {"JumpList", "DeviceBoundSessions"})
<1>1. PICK a, b, c, d : /\ a = PR!Lone("component-update", "off")
                        /\ b = PR!Switch("disable-features", {"JumpList", "DeviceBoundSessions"})
                        /\ c = PR!Lone("webrtc", "public") /\ d = PR!Switch("features", {"MinimalReferrers"})
  OBVIOUS
<1>a. a \in Args /\ a.switch = "component-update"
  BY <1>1 DEF Args, Switches, Words, PR!Lone, PR!Switch
<1>b. b \in Args /\ b.switch = "disable-features" /\ b.value = {"JumpList", "DeviceBoundSessions"}
  BY <1>1 DEF Args, Switches, Words, PR!Switch
<1>c. c \in Args /\ c.switch = "webrtc"
  BY <1>1 DEF Args, Switches, Words, PR!Lone, PR!Switch
<1>d. d \in Args /\ d.switch = "features"
  BY <1>1 DEF Args, Switches, Words, PR!Switch
<1>2. /\ PR!UngoogledFlags = <<a, b, c, d>> /\ <<a, b, c, d>> \in Seq(Args) /\ Len(<<a, b, c, d>>) = 4
      /\ <<a, b, c, d>>[1] = a /\ <<a, b, c, d>>[2] = b /\ <<a, b, c, d>>[3] = c /\ <<a, b, c, d>>[4] = d
  BY <1>1, <1>a, <1>b, <1>c, <1>d DEF PR!UngoogledFlags
<1>3. PR!HeliumFlags = <<b, c, d>>
  BY <1>2 DEF PR!HeliumFlags
<1>4. /\ <<b, c, d>> \in Seq(Args) /\ Len(<<b, c, d>>) = 3
      /\ <<b, c, d>>[1] = b /\ <<b, c, d>>[2] = c /\ <<b, c, d>>[3] = d
  BY <1>b, <1>c, <1>d
<1>5. (\A i \in 1..3 : i = 1 \/ i = 2 \/ i = 3) /\ (\A i \in 1..4 : i = 1 \/ i = 2 \/ i = 3 \/ i = 4)
  OBVIOUS
<1>6. /\ PR!Named(PR!UngoogledFlags) = {"component-update", "disable-features", "webrtc", "features"}
      /\ Sets(PR!UngoogledFlags, "disable-features", {"JumpList", "DeviceBoundSessions"})
  BY <1>a, <1>b, <1>c, <1>d, <1>2, <1>5 DEF PR!Named, Sets
<1>7. /\ PR!Named(PR!HeliumFlags) = {"disable-features", "webrtc", "features"}
      /\ Sets(PR!HeliumFlags, "disable-features", {"JumpList", "DeviceBoundSessions"})
  BY <1>b, <1>c, <1>d, <1>3, <1>4, <1>5 DEF PR!Named, Sets
<1>8. QED
  BY <1>2, <1>3, <1>4, <1>6, <1>7

LEMMA Extra ==
    ASSUME NEW extra \in PR!Extras
    PROVE  /\ extra \in Seq(Args) /\ PR!Named(extra) \subseteq {"features", "disable-features"}
           /\ (\A i \in DOMAIN extra : extra[i].switch # "disable-features") => "disable-features" \notin PR!Named(extra)
<1>1. PICK a, b : a = PR!Switch("features", {"U"}) /\ b = PR!Switch("disable-features", {"U"})
  OBVIOUS
<1>2. a \in Args /\ a.switch = "features" /\ b \in Args /\ b.switch = "disable-features"
  BY <1>1 DEF Args, Switches, Words, PR!Switch
<1>3. /\ <<a>> \in Seq(Args) /\ Len(<<a>>) = 1 /\ <<a>>[1] = a
      /\ <<b>> \in Seq(Args) /\ Len(<<b>>) = 1 /\ <<b>>[1] = b
  BY <1>2
<1>4. extra = <<>> \/ extra = <<a>> \/ extra = <<b>>
  BY <1>1 DEF PR!Extras
<1>5. extra \in Seq(Args) /\ PR!Named(extra) \subseteq {"features", "disable-features"}
  <2>1. CASE extra = <<>>
    BY <2>1, Constant
  <2>2. CASE extra = <<a>>
    BY <1>2, <1>3, <2>2 DEF PR!Named
  <2>3. CASE extra = <<b>>
    BY <1>2, <1>3, <2>3 DEF PR!Named
  <2>4. QED
    BY <1>4, <2>1, <2>2, <2>3
<1>6. DOMAIN extra = 1..Len(extra)
  BY <1>5
<1>7. QED
  BY <1>5, <1>6 DEF PR!Named

Families == {"gecko", "ungoogled", "helium"}
Built == PR!BuildLaunchArgs(PR!Browser, PR!Config)
UsersOwn == \E i \in DOMAIN settings.extra : settings.extra[i].switch = "disable-features"

\* The arguments that hardening and the user add, in their order.
LEMMA Building ==
    ASSUME family \in Families, settings \in [enabled : BOOLEAN, extra : PR!Extras]
    PROVE  /\ Built \in Seq(Args)
           /\ PR!Named(Built) \subseteq {"component-update", "disable-features", "webrtc", "features"}
           /\ family # "ungoogled" => "component-update" \notin PR!Named(Built)
           /\ ~UsersOwn => \/ "disable-features" \notin PR!Named(Built)
                           \/ \E value : "DeviceBoundSessions" \in value /\ Sets(Built, "disable-features", value)
<1> DEFINE flags == PR!When(settings.enabled /\ PR!Browser.engine = "chromium", PR!Browser.flags)
           extra == settings.extra
<1>1. Built = (((flags \o <<>>) \o <<>>) \o extra) \o <<>>
  <2>1. /\ PR!Config.enabled = settings.enabled /\ PR!Config.clearData = FALSE /\ PR!Config.reduceInfo = FALSE
        /\ PR!Config.noWebrtc = FALSE /\ PR!Config.incognito = FALSE /\ PR!Config.language = ""
        /\ PR!Config.extra = settings.extra
    BY DEF PR!Config
  <2>2. QED
    BY <2>1 DEF Built, PR!BuildLaunchArgs, PR!When
<1>2. /\ flags \in Seq(Args) /\ PR!Named(flags) \subseteq {"component-update", "disable-features", "webrtc", "features"}
      /\ family # "ungoogled" => "component-update" \notin PR!Named(flags)
      /\ \/ "disable-features" \notin PR!Named(flags)
         \/ Sets(flags, "disable-features", {"JumpList", "DeviceBoundSessions"})
  <2>1. flags = <<>> \/ flags = PR!Browser.flags
    BY DEF PR!When
  <2>2. PR!Browser.flags = CASE family = "ungoogled" -> PR!UngoogledFlags
                             [] family = "helium"    -> PR!HeliumFlags
                             [] OTHER                -> <<>>
    BY DEF PR!Browser
  <2>3. flags \in {<<>>, PR!HeliumFlags} \/ (family = "ungoogled" /\ flags = PR!UngoogledFlags)
    BY <2>1, <2>2 DEF Families
  <2> HIDE DEF flags
  <2>4. CASE flags = <<>>
    BY <2>4, Constant
  <2>5. CASE flags = PR!HeliumFlags
    BY <2>5, ConstantFlags
  <2>6. CASE family = "ungoogled" /\ flags = PR!UngoogledFlags
    BY <2>6, ConstantFlags
  <2>7. QED
    BY <2>3, <2>4, <2>5, <2>6
<1> HIDE DEF flags
<1>3. extra \in Seq(Args) /\ PR!Named(extra) \subseteq {"features", "disable-features"}
      /\ (~UsersOwn => "disable-features" \notin PR!Named(extra))
  BY Extra DEF UsersOwn
<1>4. Built = flags \o extra
  BY <1>1, <1>2, <1>3, ConcatEmptySeq, ConcatProperties
<1>5. /\ Built \in Seq(Args) /\ PR!Named(Built) = PR!Named(flags) \cup PR!Named(extra)
      /\ \A name, value : Sets(flags, name, value) /\ name \notin PR!Named(extra) => Sets(Built, name, value)
  BY <1>2, <1>3, <1>4, Joins
<1>6. ASSUME ~UsersOwn
      PROVE  \/ "disable-features" \notin PR!Named(Built)
             \/ Sets(Built, "disable-features", {"JumpList", "DeviceBoundSessions"})
  BY <1>2, <1>3, <1>5, <1>6
<1>7. /\ PR!Named(Built) \subseteq {"component-update", "disable-features", "webrtc", "features"}
      /\ family # "ungoogled" => "component-update" \notin PR!Named(Built)
  BY <1>2, <1>3, <1>5
<1>8. QED
  BY <1>5, <1>6, <1>7

Command == PR!LaunchCommand(Built)

\* The whole command line: where the profile is and how it is stored; a
\* Helium without support for components gets none; a first run is not
\* suppressed before it is over.
LEMMA Commanding ==
    ASSUME family \in Families, settings \in [enabled : BOOLEAN, extra : PR!Extras]
    PROVE  /\ Command \in Seq(Args) /\ Sets(Command, "profile", {"Data"})
           /\ family # "gecko" =>
                 /\ Sets(Command, "machine-id", {"off"}) /\ Sets(Command, "encryption", {"off"})
                 /\ ~UsersOwn => \E value : "DeviceBoundSessions" \in value /\ Sets(Command, "disable-features", value)
           /\ family = "helium" /\ ~PR!ComponentsSupported => Sets(Command, "component-update", {"off"})
           /\ family = "gecko" \/ ~PR!FirstRunOver => "first-run" \notin PR!Named(Command)
<1> DEFINE P == <<PR!Lone("profile", "Data")>>
           C == PR!When(~PR!ComponentsSupported, <<PR!Lone("component-update", "off")>>)
           F == PR!When(PR!FirstRunOver, <<PR!Lone("first-run", "off")>>)
           S == P \o PR!PortabilityFlags
<1>1. P \in Seq(Args) /\ PR!Named(P) = {"profile"} /\ Sets(P, "profile", {"Data"})
  BY Constant DEF Switches, Words
<1>2. /\ C \in Seq(Args) /\ PR!Named(C) \subseteq {"component-update"}
      /\ ~PR!ComponentsSupported => Sets(C, "component-update", {"off"})
  BY Constant DEF Switches, Words, PR!When
<1>3. /\ F \in Seq(Args) /\ PR!Named(F) \subseteq {"first-run"}
      /\ ~PR!FirstRunOver => PR!Named(F) = {}
  BY Constant DEF Switches, Words, PR!When
<1>4. /\ family = "gecko" => Command = P \o Built
      /\ family = "ungoogled" => Command = (S \o F) \o Built
      /\ family = "helium" => Command = ((S \o C) \o F) \o Built
  BY DEF Command, PR!LaunchCommand, PR!GeckoCommand, PR!UngoogledCommand, PR!HeliumCommand, PR!StorageArgs
<1>5. /\ Built \in Seq(Args)
      /\ PR!Named(Built) \subseteq {"component-update", "disable-features", "webrtc", "features"}
      /\ family # "ungoogled" => "component-update" \notin PR!Named(Built)
      /\ ~UsersOwn => \/ "disable-features" \notin PR!Named(Built)
                      \/ \E value : "DeviceBoundSessions" \in value /\ Sets(Built, "disable-features", value)
  BY Building
<1> HIDE DEF P, C, F
<1>6. /\ S \in Seq(Args) /\ PR!Named(S) = {"profile", "machine-id", "encryption", "disable-features"}
      /\ Sets(S, "profile", {"Data"}) /\ Sets(S, "machine-id", {"off"}) /\ Sets(S, "encryption", {"off"})
      /\ Sets(S, "disable-features", {"DeviceBoundSessions"})
  BY <1>1, Constant, Joins
<1> HIDE DEF S
\* Whatever comes between the storage switches and the rest.
<1>7. ASSUME NEW m \in Seq(Args), PR!Named(m) \subseteq {"component-update", "first-run"}
      PROVE  /\ (S \o m) \o Built \in Seq(Args)
             /\ PR!Named((S \o m) \o Built) = PR!Named(S) \cup PR!Named(m) \cup PR!Named(Built)
             /\ Sets((S \o m) \o Built, "profile", {"Data"})
             /\ Sets((S \o m) \o Built, "machine-id", {"off"}) /\ Sets((S \o m) \o Built, "encryption", {"off"})
             /\ ~UsersOwn => \E value : "DeviceBoundSessions" \in value
                                        /\ Sets((S \o m) \o Built, "disable-features", value)
             /\ "component-update" \notin PR!Named(Built) =>
                   \A value : Sets(m, "component-update", value) =>
                                 Sets((S \o m) \o Built, "component-update", value)
  <2>1. /\ S \o m \in Seq(Args) /\ PR!Named(S \o m) = PR!Named(S) \cup PR!Named(m)
        /\ Sets(S \o m, "profile", {"Data"}) /\ Sets(S \o m, "machine-id", {"off"})
        /\ Sets(S \o m, "encryption", {"off"}) /\ Sets(S \o m, "disable-features", {"DeviceBoundSessions"})
        /\ \A value : Sets(m, "component-update", value) => Sets(S \o m, "component-update", value)
    BY <1>6, <1>7, Joins
  <2> DEFINE T == S \o m
  <2> HIDE DEF T
  <2>2. /\ T \o Built \in Seq(Args) /\ PR!Named(T \o Built) = PR!Named(T) \cup PR!Named(Built)
        /\ \A name, value : Sets(Built, name, value) => Sets(T \o Built, name, value)
        /\ \A name, value : Sets(T, name, value) /\ name \notin PR!Named(Built) => Sets(T \o Built, name, value)
    BY <1>5, <2>1, Joins DEF T
  <2>3. "DeviceBoundSessions" \in {"DeviceBoundSessions"} /\ Sets(T, "disable-features", {"DeviceBoundSessions"})
    BY <2>1 DEF T
  <2>4. ~UsersOwn => \E value : "DeviceBoundSessions" \in value /\ Sets(T \o Built, "disable-features", value)
    BY <1>5, <2>2, <2>3
  <2>5. /\ Sets(T \o Built, "profile", {"Data"}) /\ Sets(T \o Built, "machine-id", {"off"})
        /\ Sets(T \o Built, "encryption", {"off"})
    BY <1>5, <2>1, <2>2 DEF T
  <2>6. "component-update" \notin PR!Named(Built) =>
           \A value : Sets(m, "component-update", value) => Sets(T \o Built, "component-update", value)
    BY <2>1, <2>2 DEF T
  <2>7. QED
    BY <2>1, <2>2, <2>4, <2>5, <2>6 DEF T
<1>8. CASE family = "gecko"
  <2>1. /\ P \o Built \in Seq(Args) /\ PR!Named(P \o Built) = PR!Named(P) \cup PR!Named(Built)
        /\ \A name, value : Sets(P, name, value) /\ name \notin PR!Named(Built) => Sets(P \o Built, name, value)
    BY <1>1, <1>5, Joins
  <2>2. "profile" \notin PR!Named(Built)
    BY <1>5
  <2>3. Sets(P \o Built, "profile", {"Data"})
    BY <1>1, <2>1, <2>2
  <2>4. "first-run" \notin PR!Named(P \o Built)
    BY <1>1, <1>5, <2>1
  <2>5. QED
    BY <1>4, <1>8, <2>1, <2>3, <2>4
<1>9. CASE family = "ungoogled"
  <2>1. Command = (S \o F) \o Built
    BY <1>4, <1>9
  <2>2. PR!Named(F) \subseteq {"component-update", "first-run"}
    BY <1>3
  <2>3. QED
    BY <1>3, <1>5, <1>6, <1>7, <1>9, <2>1, <2>2
<1>10. CASE family = "helium"
  <2>1. /\ C \o F \in Seq(Args) /\ PR!Named(C \o F) = PR!Named(C) \cup PR!Named(F)
        /\ ~PR!ComponentsSupported => Sets(C \o F, "component-update", {"off"})
    BY <1>2, <1>3, Joins
  <2>2. (S \o C) \o F = S \o (C \o F)
    BY <1>2, <1>3, <1>6, ConcatAssociative
  <2>3. Command = (S \o (C \o F)) \o Built
    BY <1>4, <1>10, <2>2
  <2>4. PR!Named(C \o F) \subseteq {"component-update", "first-run"} /\ "component-update" \notin PR!Named(Built)
    BY <1>2, <1>3, <1>5, <1>10, <2>1
  <2> DEFINE m == C \o F
  <2> HIDE DEF m
  <2>5. /\ m \in Seq(Args) /\ Command = (S \o m) \o Built /\ PR!Named(m) \subseteq {"component-update", "first-run"}
        /\ ~PR!ComponentsSupported => Sets(m, "component-update", {"off"})
        /\ ~PR!FirstRunOver => "first-run" \notin PR!Named(m)
    BY <1>2, <1>3, <2>1, <2>3, <2>4 DEF m
  <2>6. QED
    BY <1>5, <1>6, <1>7, <1>10, <2>4, <2>5
<1>11. QED
  BY <1>8, <1>9, <1>10 DEF Families

-----------------------------------------------------------------------------
(* A profile through its launches.                                          *)

PTyped ==
    /\ family \in Families
    /\ settings \in [enabled : BOOLEAN, extra : PR!Extras]
    /\ build \in [reviewed : BOOLEAN, layout : BOOLEAN]
    /\ initial \in [there : BOOLEAN, updates : {"absent", "on", "off"}]
    /\ profile \in [prefs : {"none", "there"}, updates : {"absent", "on", "off", "odd"},
                    devmode : BOOLEAN, fresh : BOOLEAN, apps : BOOLEAN]
    /\ start \in [phase : {"off", "seed", "initial", "existing", "spawn", "running"}, args : Seq(Args),
                  updates : {"absent", "on", "off", "odd"}, reviewed : BOOLEAN]

\* A profile without preferences is one no browser has opened, and one that
\* a browser has opened had its first run.
Unopened ==
    /\ profile.fresh => ~profile.apps
    /\ profile.prefs = "none" => profile.fresh /\ profile.updates = "absent"
    /\ PR!At("running") => profile.prefs = "there"
    /\ PR!FirstRunSeeded

\* Before the browser starts, what a new profile takes over says of updates
\* what the build demands, and so does an existing one of a blocked build.
Prepared ==
    /\ start.phase \in {"existing", "spawn"} =>
          /\ family # "gecko" => initial.there
          /\ family = "helium" /\ ~PR!ComponentsSupported => initial.updates = "off"
    /\ PR!At("spawn") /\ family = "helium" /\ ~PR!ComponentsSupported /\ profile.prefs = "there" =>
          profile.updates = "off"

PInv == PTyped /\ Unopened /\ Prepared /\ PR!StorageStable /\ PR!NoUnreviewedUpdater

LEMMA ProfileBegins == PR!ProfilesInit => PInv
<1> SUFFICES ASSUME PR!ProfilesInit PROVE PInv
  OBVIOUS
<1>1. <<>> \in Seq(Args)
  BY Constant
<1>2. /\ build = [reviewed |-> FALSE, layout |-> TRUE] /\ initial = PR!NoInitial
      /\ profile = PR!NewProfile /\ start = PR!NoStart
      /\ family \in Families /\ settings \in [enabled : BOOLEAN, extra : PR!Extras]
  BY DEF PR!ProfilesInit, Families
<1>3. PTyped
  BY <1>1, <1>2 DEF PTyped, PR!NoInitial, PR!NewProfile, PR!NoStart
<1>4. start.phase = "off" /\ profile.fresh /\ ~profile.apps /\ profile.updates = "absent"
  BY <1>2 DEF PR!NewProfile, PR!NoStart
<1>5. QED
  BY <1>3, <1>4 DEF PInv, Unopened, Prepared, PR!StorageStable, PR!NoUnreviewedUpdater, PR!FirstRunSeeded, PR!At

LaunchPhases == {"off", "seed", "initial", "existing", "spawn", "running"}
Starts == [phase : LaunchPhases, args : Seq(Args), updates : {"absent", "on", "off", "odd"}, reviewed : BOOLEAN]

\* Where a launch goes on, and where it is refused.
LEMMA GoesOn == ASSUME PTyped, NEW label \in LaunchPhases, PR!Goto(label)
               PROVE  start'.phase = label /\ start' \in Starts
<1>1. start \in Starts
  BY DEF PTyped, Starts, LaunchPhases
<1>2. start' = [start EXCEPT !.phase = label]
  BY DEF PR!Goto
<1>3. QED
  BY <1>1, <1>2 DEF Starts

LEMMA Refusing == ASSUME PR!Refuse PROVE start'.phase = "off" /\ start' \in Starts
<1>1. <<>> \in Seq(Args)
  BY Constant
<1>2. start' = [phase |-> "off", args |-> <<>>, updates |-> "absent", reviewed |-> FALSE]
  BY DEF PR!Refuse, PR!NoStart
<1>3. QED
  BY <1>1, <1>2 DEF Starts, LaunchPhases

\* Between launches.
LEMMA Between == ASSUME PInv, PR!Configure \/ PR!Update \/ PR!Disturb PROVE PInv'
<1>1. UNCHANGED <<family, start>> /\ start.phase = "off"
  BY DEF PR!Configure, PR!Update, PR!Disturb, PR!At
<1>2. PTyped /\ Unopened
  BY DEF PInv
<1> DEFINE Settled == [enabled : BOOLEAN, extra : PR!Extras]
           Builds == [reviewed : BOOLEAN, layout : BOOLEAN]
           Initials == [there : BOOLEAN, updates : {"absent", "on", "off"}]
           Kept == [prefs : {"none", "there"}, updates : {"absent", "on", "off", "odd"},
                    devmode : BOOLEAN, fresh : BOOLEAN, apps : BOOLEAN]
           Seeded == family # "gecko" /\ ~profile'.fresh => profile'.devmode
           Closed == /\ profile'.fresh => ~profile'.apps
                     /\ profile'.prefs = "none" => profile'.fresh /\ profile'.updates = "absent"
<1>3. settings \in Settled /\ build \in Builds /\ initial \in Initials /\ profile \in Kept
  BY <1>2 DEF PTyped
<1>4. /\ profile.fresh => ~profile.apps
      /\ profile.prefs = "none" => profile.fresh /\ profile.updates = "absent"
      /\ family # "gecko" /\ ~profile.fresh => profile.devmode
  BY <1>2 DEF Unopened, PR!FirstRunSeeded
<1>5. PR!NoInitial \in Initials
  BY DEF PR!NoInitial
<1>6. /\ PR!NewProfile \in Kept /\ PR!NewProfile.fresh /\ ~PR!NewProfile.apps
      /\ PR!NewProfile.updates = "absent"
  BY DEF PR!NewProfile
<1>7. settings' \in Settled /\ build' \in Builds /\ initial' \in Initials /\ profile' \in Kept /\ Closed /\ Seeded
  <2>1. CASE PR!Configure
    <3>1. settings' \in Settled
      BY <1>3, <2>1 DEF PR!Configure
    <3>2. UNCHANGED <<build, initial, profile>>
      BY <2>1 DEF PR!Configure
    <3>3. QED
      BY <1>3, <1>4, <3>1, <3>2
  <2>2. CASE PR!Update
    <3>1. build' \in Builds
      BY <2>2 DEF PR!Update
    <3>2. initial' = PR!NoInitial /\ UNCHANGED <<settings, profile>>
      BY <2>2 DEF PR!Update
    <3>3. QED
      BY <1>3, <1>4, <1>5, <3>1, <3>2
  <2>3. CASE PR!Disturb
    <3>1. UNCHANGED <<settings, initial>>
      BY <2>3 DEF PR!Disturb
    <3>2. CASE build' = [build EXCEPT !.layout = FALSE] /\ UNCHANGED profile
      <4>1. build' \in Builds
        BY <1>3, <3>2
      <4>2. QED
        BY <1>3, <1>4, <3>1, <3>2, <4>1
    <3>3. CASE profile' = PR!NewProfile /\ UNCHANGED build
      BY <1>3, <1>6, <3>1, <3>3
    <3>4. CASE /\ ~profile.fresh /\ UNCHANGED build
               /\ \E updates \in {"odd", "absent"} : profile' = [profile EXCEPT !.updates = updates]
      <4>1. PICK updates \in {"odd", "absent"} : profile' = [profile EXCEPT !.updates = updates]
        BY <3>4
      <4>2. /\ profile' \in Kept /\ profile'.fresh = profile.fresh /\ profile'.prefs = profile.prefs
            /\ profile'.devmode = profile.devmode
        BY <1>3, <4>1
      <4>3. QED
        BY <1>3, <1>4, <3>1, <3>4, <4>2
    <3>5. QED
      BY <2>3, <3>2, <3>3, <3>4 DEF PR!Disturb
  <2>4. QED
    BY <2>1, <2>2, <2>3
<1>8. PTyped'
  BY <1>1, <1>2, <1>7 DEF PTyped
<1>9. Unopened'
  BY <1>1, <1>7 DEF Unopened, PR!At, PR!FirstRunSeeded
<1>10. QED
  BY <1>1, <1>8, <1>9 DEF PInv, Prepared, PR!StorageStable, PR!NoUnreviewedUpdater, PR!At

\* A step of the preparation leaves the rest alone.
LEMMA PreparationStep ==
    ASSUME PInv, UNCHANGED <<family, settings, build>>, start' \in Starts, start'.phase # "running",
           initial' \in [there : BOOLEAN, updates : {"absent", "on", "off"}],
           profile' \in [prefs : {"none", "there"}, updates : {"absent", "on", "off", "odd"},
                         devmode : BOOLEAN, fresh : BOOLEAN, apps : BOOLEAN],
           profile'.devmode = profile.devmode, profile'.fresh = profile.fresh, profile'.apps = profile.apps,
           profile'.prefs = "none" => profile' = profile,
           Prepared'
    PROVE  PInv'
<1>1. PTyped /\ Unopened
  BY DEF PInv
<1>2. PTyped'
  BY <1>1 DEF PTyped, Starts, LaunchPhases
<1>3. Unopened'
  BY <1>1 DEF Unopened, PR!At, PR!FirstRunSeeded
<1>4. QED
  BY <1>2, <1>3 DEF PInv, PR!StorageStable, PR!NoUnreviewedUpdater, PR!At

LEMMA Preparation == ASSUME PInv, PR!Begin \/ PR!Seed \/ PR!WriteInitial \/ PR!ConfigureExisting PROVE PInv'
<1> DEFINE Initials == [there : BOOLEAN, updates : {"absent", "on", "off"}]
           Kept == [prefs : {"none", "there"}, updates : {"absent", "on", "off", "odd"},
                    devmode : BOOLEAN, fresh : BOOLEAN, apps : BOOLEAN]
<1>1. PTyped /\ Unopened /\ Prepared
  BY DEF PInv
<1>2. initial \in Initials /\ profile \in Kept /\ family \in Families
  BY <1>1 DEF PTyped
<1>3. /\ {"off", "seed", "initial", "existing", "spawn"} \subseteq LaunchPhases
      /\ UNCHANGED <<family, settings, build>>
  BY DEF LaunchPhases, PR!Begin, PR!Seed, PR!WriteInitial, PR!ConfigureExisting
<1>4. CASE PR!Refuse /\ UNCHANGED <<initial, profile>>
  <2>1. start'.phase = "off" /\ start' \in Starts
    BY <1>4, Refusing
  <2>2. Prepared'
    BY <2>1 DEF Prepared, PR!At
  <2>3. QED
    BY <1>2, <1>3, <1>4, <2>1, <2>2, PreparationStep
<1>5. CASE PR!Begin
  <2>1. PR!Goto("seed") /\ UNCHANGED <<initial, profile>>
    BY <1>5 DEF PR!Begin
  <2>2. start'.phase = "seed" /\ start' \in Starts
    BY <1>1, <2>1, GoesOn DEF LaunchPhases
  <2>3. Prepared'
    BY <2>2 DEF Prepared, PR!At
  <2>4. QED
    BY <1>2, <1>3, <2>1, <2>2, <2>3, PreparationStep
<1>6. CASE PR!Seed /\ PR!Goto("initial")
           /\ profile' = IF settings.enabled /\ family # "gecko" THEN [profile EXCEPT !.prefs = "there"] ELSE profile
  <2>1. start'.phase = "initial" /\ start' \in Starts
    BY <1>1, <1>6, GoesOn DEF LaunchPhases
  <2>2. UNCHANGED initial
    BY <1>6 DEF PR!Seed
  <2>3. Prepared'
    BY <2>1 DEF Prepared, PR!At
  <2>4. /\ profile' \in Kept /\ profile'.devmode = profile.devmode /\ profile'.fresh = profile.fresh
        /\ profile'.apps = profile.apps /\ (profile'.prefs = "none" => profile' = profile)
    BY <1>2, <1>6
  <2>5. QED
    BY <1>2, <1>3, <2>1, <2>2, <2>3, <2>4, PreparationStep
<1>7. CASE PR!WriteInitial /\ PR!Goto("existing")
           /\ initial' = CASE family = "gecko"     -> initial
                           [] family = "ungoogled" -> [there |-> TRUE, updates |-> "absent"]
                           [] OTHER -> [there |-> TRUE, updates |-> IF PR!ComponentsSupported THEN "on" ELSE "off"]
  <2>1. start'.phase = "existing" /\ start' \in Starts
    BY <1>1, <1>7, GoesOn DEF LaunchPhases
  <2>2. UNCHANGED profile
    BY <1>7 DEF PR!WriteInitial
  <2>3. /\ initial' \in Initials
        /\ family # "gecko" => initial'.there
        /\ family = "helium" /\ ~PR!ComponentsSupported => initial'.updates = "off"
    <3>1. CASE family = "gecko"
      BY <1>2, <1>7, <3>1
    <3>2. CASE family = "ungoogled"
      <4>1. initial' = [there |-> TRUE, updates |-> "absent"]
        BY <1>7, <3>2
      <4>2. QED
        BY <3>2, <4>1
    <3>3. CASE family = "helium"
      <4>1. initial' = [there |-> TRUE, updates |-> IF PR!ComponentsSupported THEN "on" ELSE "off"]
        BY <1>7, <3>3
      <4>2. CASE PR!ComponentsSupported
        BY <3>3, <4>1, <4>2
      <4>3. CASE ~PR!ComponentsSupported
        BY <3>3, <4>1, <4>3
      <4>4. QED
        BY <4>2, <4>3
    <3>4. QED
      BY <1>2, <3>1, <3>2, <3>3 DEF Families
  <2>4. Prepared'
    BY <1>3, <2>1, <2>3 DEF Prepared, PR!At, PR!ComponentsSupported
  <2>5. QED
    BY <1>2, <1>3, <2>1, <2>2, <2>3, <2>4, PreparationStep
<1>8. CASE PR!ConfigureExisting /\ PR!Goto("spawn")
  <2>1. start'.phase = "spawn" /\ start' \in Starts
    BY <1>1, <1>8, GoesOn DEF LaunchPhases
  <2>2. UNCHANGED initial /\ start.phase = "existing"
    BY <1>8 DEF PR!ConfigureExisting, PR!At
  <2>3. start # start' /\ ~PR!Refuse
    <3>1. ASSUME PR!Refuse PROVE FALSE
      BY <2>1, <3>1, Refusing
    <3>2. QED
      BY <2>1, <2>2, <3>1
  <2>4. \/ UNCHANGED profile /\ ~(family = "helium" /\ profile.prefs # "none" /\ ~PR!ComponentsSupported)
        \/ /\ family = "helium" /\ profile.prefs # "none" /\ ~PR!ComponentsSupported
           /\ profile' = [profile EXCEPT !.updates = "off"]
    BY <1>8, <2>3 DEF PR!ConfigureExisting
  <2>5. /\ profile' \in Kept /\ profile'.devmode = profile.devmode /\ profile'.fresh = profile.fresh
        /\ profile'.apps = profile.apps /\ (profile'.prefs = "none" => profile' = profile)
        /\ family = "helium" /\ ~PR!ComponentsSupported /\ profile'.prefs = "there" => profile'.updates = "off"
    BY <1>2, <2>4
  <2>6. Prepared'
    BY <1>1, <1>3, <2>1, <2>2, <2>5 DEF Prepared, PR!At, PR!ComponentsSupported
  <2>7. QED
    BY <1>2, <1>3, <2>1, <2>2, <2>5, <2>6, PreparationStep
<1>9. QED
  <2>1. CASE PR!Seed
    BY <1>4, <1>6, <2>1 DEF PR!Seed
  <2>2. CASE PR!WriteInitial
    BY <1>4, <1>7, <2>2 DEF PR!WriteInitial
  <2>3. CASE PR!ConfigureExisting
    BY <1>4, <1>8, <2>3 DEF PR!ConfigureExisting
  <2>4. QED
    BY <1>5, <2>1, <2>2, <2>3

\* What the command line does, once the browser has it.
LEMMA Heeding ==
    ASSUME PTyped
    PROVE  /\ Command \in Seq(Args) /\ PR!Effective(Command, "profile") = {"Data"}
           /\ family # "gecko" =>
                 /\ PR!Effective(Command, "machine-id") = {"off"} /\ PR!Effective(Command, "encryption") = {"off"}
                 /\ ~UsersOwn => "DeviceBoundSessions" \in PR!Effective(Command, "disable-features")
           /\ family = "helium" /\ ~PR!ComponentsSupported => PR!Effective(Command, "component-update") = {"off"}
           /\ family = "gecko" \/ ~PR!FirstRunOver => PR!Effective(Command, "first-run") = {}
<1>1. family \in Families /\ settings \in [enabled : BOOLEAN, extra : PR!Extras]
  BY DEF PTyped
<1>2. Command \in Seq(Args)
  BY <1>1, Commanding
<1>3. \A name : /\ \A value : Sets(Command, name, value) => PR!Effective(Command, name) = value
                /\ name \notin PR!Named(Command) => PR!Effective(Command, name) = {}
  BY <1>2, LastCounts
<1>4. family # "gecko" /\ ~UsersOwn => "DeviceBoundSessions" \in PR!Effective(Command, "disable-features")
  <2>1. SUFFICES ASSUME family # "gecko", ~UsersOwn
                 PROVE  "DeviceBoundSessions" \in PR!Effective(Command, "disable-features")
    OBVIOUS
  <2>2. PICK value : "DeviceBoundSessions" \in value /\ Sets(Command, "disable-features", value)
    BY <1>1, <2>1, Commanding
  <2>3. PR!Effective(Command, "disable-features") = value
    BY <1>3, <2>2
  <2>4. QED
    BY <2>2, <2>3
<1>5. /\ Sets(Command, "profile", {"Data"})
      /\ family # "gecko" => Sets(Command, "machine-id", {"off"}) /\ Sets(Command, "encryption", {"off"})
      /\ family = "helium" /\ ~PR!ComponentsSupported => Sets(Command, "component-update", {"off"})
      /\ family = "gecko" \/ ~PR!FirstRunOver => "first-run" \notin PR!Named(Command)
  BY <1>1, Commanding
<1>6. QED
  BY <1>2, <1>3, <1>4, <1>5

LEMMA BrowserStarts == ASSUME PInv, PR!Spawn PROVE PInv' /\ (profile.updates = "off" => profile'.updates # "on")
<1> DEFINE pipeline == PR!Effective(Command, "first-run") = {}
           takes == profile.fresh /\ pipeline /\ initial.there
           updates == IF takes /\ profile.updates = "absent" THEN initial.updates ELSE profile.updates
           Kept == [prefs : {"none", "there"}, updates : {"absent", "on", "off", "odd"},
                    devmode : BOOLEAN, fresh : BOOLEAN, apps : BOOLEAN]
<1>1. PTyped /\ Unopened /\ Prepared /\ PR!At("spawn")
  BY DEF PInv, PR!Spawn
<1>2. /\ initial.there \in BOOLEAN /\ initial.updates \in {"absent", "on", "off"} /\ profile \in Kept
      /\ family \in Families /\ PR!ComponentsSupported \in BOOLEAN
  BY <1>1 DEF PTyped, Families, PR!ComponentsSupported
<1>3. /\ start' = [phase |-> "running", args |-> Command, updates |-> updates, reviewed |-> PR!ComponentsSupported]
      /\ \E apps \in {profile.apps, profile.apps \/ pipeline} :
           profile' = [prefs |-> "there", updates |-> updates, devmode |-> profile.devmode \/ takes,
                       fresh |-> FALSE, apps |-> apps]
      /\ UNCHANGED <<family, settings, build, initial>>
  BY DEF PR!Spawn, Command, Built
<1>4. updates \in {"absent", "on", "off", "odd"} /\ takes \in BOOLEAN /\ pipeline \in BOOLEAN
  BY <1>2
<1>5. profile.updates = "off" => updates = "off"
  OBVIOUS
<1>6. profile.fresh /\ family # "gecko" => takes
  <2>1. SUFFICES ASSUME profile.fresh, family # "gecko" PROVE takes
    OBVIOUS
  <2>2. ~profile.apps /\ initial.there
    BY <1>1, <2>1 DEF Unopened, Prepared, PR!At
  <2>3. ~PR!FirstRunOver
    BY <2>1, <2>2 DEF PR!FirstRunOver
  <2>4. QED
    BY <1>1, <2>1, <2>2, <2>3, Heeding
<1>7. family = "helium" /\ ~PR!ComponentsSupported => updates = "off"
  <2>1. SUFFICES ASSUME family = "helium", ~PR!ComponentsSupported PROVE updates = "off"
    OBVIOUS
  <2>2. initial.updates = "off" /\ (profile.prefs = "there" => profile.updates = "off")
    BY <1>1, <2>1 DEF Prepared, PR!At
  <2>3. profile.prefs = "none" => takes /\ profile.updates = "absent"
    BY <1>1, <1>6, <2>1 DEF Unopened
  <2>4. profile.prefs = "none" \/ profile.prefs = "there"
    BY <1>2
  <2>5. QED
    BY <2>2, <2>3, <2>4
<1>8. profile.devmode \/ takes \/ family = "gecko"
  BY <1>1, <1>6 DEF Unopened, PR!FirstRunSeeded
<1> HIDE DEF pipeline, takes, updates
<1>9. PICK apps \in {profile.apps, profile.apps \/ pipeline} :
        profile' = [prefs |-> "there", updates |-> updates, devmode |-> profile.devmode \/ takes,
                    fresh |-> FALSE, apps |-> apps]
  BY <1>3
<1>10. apps \in BOOLEAN /\ (profile.devmode \/ takes) \in BOOLEAN
  BY <1>2, <1>4
<1>11. /\ profile'.prefs = "there" /\ profile'.updates = updates /\ profile'.devmode = (profile.devmode \/ takes)
       /\ profile'.fresh = FALSE /\ profile' \in Kept
  BY <1>4, <1>9, <1>10
<1>12. /\ start'.phase = "running" /\ start'.args = Command /\ start'.updates = updates
       /\ start'.reviewed = PR!ComponentsSupported /\ start' \in Starts
  BY <1>1, <1>2, <1>3, <1>4, Heeding DEF Starts, LaunchPhases
<1>13. PTyped'
  BY <1>1, <1>3, <1>11, <1>12 DEF PTyped, Starts, LaunchPhases
<1>14. Unopened'
  BY <1>3, <1>8, <1>11 DEF Unopened, PR!FirstRunSeeded
<1>15. Prepared'
  BY <1>12 DEF Prepared, PR!At
<1>16. PR!StorageStable'
  <2>1. (\A i \in DOMAIN settings.extra : settings.extra[i].switch # "disable-features") => ~UsersOwn
    BY DEF UsersOwn
  <2>2. settings' = settings /\ family' = family /\ start'.args = Command
    BY <1>3, <1>12
  <2>3. QED
    BY <1>1, <2>1, <2>2, Heeding DEF PR!StorageStable
<1>17. PR!NoUnreviewedUpdater'
  BY <1>1, <1>3, <1>7, <1>12, Heeding DEF PR!NoUnreviewedUpdater
<1>18. QED
  BY <1>5, <1>11, <1>13, <1>14, <1>15, <1>16, <1>17 DEF PInv, updates

\* The browser while it runs, and its end.
LEMMA Running == ASSUME PInv, PR!Choose \/ PR!Close \/ UNCHANGED PR!profileVars PROVE PInv'
<1>1. PTyped /\ Unopened
  BY DEF PInv
<1>2. CASE PR!Choose
  <2>1. PICK updates \in {"on", "off"} : profile' = [profile EXCEPT !.updates = updates]
    BY <1>2 DEF PR!Choose
  <2>2. UNCHANGED <<family, settings, build, initial, start>> /\ start.phase = "running"
    BY <1>2 DEF PR!Choose, PR!At
  <2>3. /\ profile' \in [prefs : {"none", "there"}, updates : {"absent", "on", "off", "odd"},
                         devmode : BOOLEAN, fresh : BOOLEAN, apps : BOOLEAN]
        /\ profile'.prefs = profile.prefs /\ profile'.devmode = profile.devmode
        /\ profile'.fresh = profile.fresh /\ profile'.apps = profile.apps
    BY <1>1, <2>1 DEF PTyped
  <2>4. profile.prefs = "there"
    BY <1>1, <2>2 DEF Unopened, PR!At
  <2>5. PTyped'
    BY <1>1, <2>2, <2>3 DEF PTyped
  <2>6. Unopened'
    BY <1>1, <2>2, <2>3, <2>4 DEF Unopened, PR!At, PR!FirstRunSeeded
  <2>7. Prepared'
    BY <2>2 DEF Prepared, PR!At
  <2>8. QED
    BY <2>2, <2>5, <2>6, <2>7 DEF PInv, PR!StorageStable, PR!NoUnreviewedUpdater, PR!At
<1>3. CASE PR!Close
  <2>1. PR!Refuse /\ UNCHANGED <<family, settings, build, initial, profile>>
    BY <1>3 DEF PR!Close
  <2>2. start'.phase = "off" /\ start' \in Starts
    BY <2>1, Refusing
  <2>3. Prepared'
    BY <2>2 DEF Prepared, PR!At
  <2>4. QED
    BY <1>1, <2>1, <2>2, <2>3, PreparationStep DEF PTyped
<1>4. CASE UNCHANGED PR!profileVars
  BY <1>4 DEF PInv, PTyped, Unopened, Prepared, PR!profileVars, PR!StorageStable, PR!NoUnreviewedUpdater, PR!At,
              PR!FirstRunSeeded, PR!ComponentsSupported
<1>5. QED
  BY <1>2, <1>3, <1>4

\* Only the user turns updates on again.
LEMMA Asking ==
    ASSUME PInv, PR!ProfilesNext, profile.updates = "off", profile'.updates = "on" PROVE PR!Choose
<1>1. profile \in [prefs : {"none", "there"}, updates : {"absent", "on", "off", "odd"},
                   devmode : BOOLEAN, fresh : BOOLEAN, apps : BOOLEAN]
  BY DEF PInv, PTyped
<1>2. profile' # profile
  OBVIOUS
<1>3. ~PR!Spawn
  BY BrowserStarts
<1>4. ~PR!Disturb
  BY <1>1, <1>2 DEF PR!Disturb, PR!NewProfile
<1>5. ~PR!Seed
  BY <1>1, <1>2 DEF PR!Seed
<1>6. ~PR!ConfigureExisting
  BY <1>1, <1>2 DEF PR!ConfigureExisting
<1>7. ~(PR!Configure \/ PR!Update \/ PR!Begin \/ PR!WriteInitial \/ PR!Close)
  BY <1>2 DEF PR!Configure, PR!Update, PR!Begin, PR!WriteInitial, PR!Close
<1>8. QED
  BY <1>3, <1>4, <1>5, <1>6, <1>7 DEF PR!ProfilesNext

LEMMA Launching == ASSUME PInv, PR!ProfilesNext \/ UNCHANGED PR!profileVars PROVE PInv'
<1>1. QED
  BY Between, Preparation, BrowserStarts, Running DEF PR!ProfilesNext

\* Whatever was toggled, updated, brought along or refused between launches,
\* the portable profile is stored the same way, its first run takes over what
\* was prepared for it, and a Helium that was not reviewed starts with its
\* updater off (storage_args, write_initial_preferences,
\* configure_existing_profile_updates).
THEOREM Storing == MachinesSpec => []ProfileKept
<1>1. MachinesInit => PInv
  BY ProfileBegins DEF MachinesInit
<1>2. PInv /\ [MachinesNext]_machines => PInv'
  BY Apart, Launching DEF profileVars, PR!profileVars
<1>3. PInv => ProfileKept
  BY DEF PInv, Unopened, ProfileKept
<1>4. QED
  BY <1>1, <1>2, <1>3, PTL DEF MachinesSpec

\* No launch, update or damage turns updates on again where the user, or a
\* blocked build, turned them off (configure_existing_profile_updates).
THEOREM Consenting == MachinesSpec => ConsentKept
<1>1. MachinesInit => PInv
  BY ProfileBegins DEF MachinesInit
<1>2. PInv /\ [MachinesNext]_machines => PInv'
  BY Apart, Launching DEF profileVars, PR!profileVars
<1>3. PInv /\ [MachinesNext]_machines
         => [profile.updates = "off" /\ profile'.updates = "on" => PR!Choose]_(PR!profileVars)
  BY Apart, Asking DEF profileVars, PR!profileVars
<1>4. QED
  BY <1>1, <1>2, <1>3, PTL DEF MachinesSpec, ConsentKept, PR!ConsentKept

-----------------------------------------------------------------------------
(* Algorithms, for every input: command lines.                              *)

\* The last one of a name that is there counts, and in two lists put together
\* the one of the second.
LEMMA LastThere ==
    ASSUME NEW S, NEW args \in Seq(S), NEW name \in PR!Named(args)
    PROVE  Sets(args, name, PR!Effective(args, name))
<1> DEFINE I == {i \in 1..Len(args) : args[i].switch = name}
           B == {Len(args) - i : i \in I}
<1>1. PICK k \in I : TRUE
  BY DEF PR!Named
<1>2. Len(args) - k \in B /\ B \in SUBSET Nat
  OBVIOUS
<1> HIDE DEF B
<1>3. PICK b \in B : \A c \in B : b <= c
  BY <1>2, Least
<1> USE DEF B
<1>4. PICK i \in I : b = Len(args) - i
  BY <1>3
<1>5. \A j \in I : Len(args) - j \in B
  OBVIOUS
<1>6. ASSUME NEW j \in I PROVE j <= i
  <2>1. b <= Len(args) - j
    BY <1>3, <1>5
  <2>2. j \in Int /\ i \in Int /\ Len(args) \in Int
    OBVIOUS
  <2>3. QED
    BY <1>4, <2>1, <2>2
<1>7. Sets(args, name, args[i].value)
  BY <1>4, <1>6 DEF Sets
<1>8. QED
  BY <1>7, LastCounts

LEMMA Lasts ==
    ASSUME NEW S, NEW s \in Seq(S), NEW t \in Seq(S), NEW name
    PROVE  PR!Effective(s \o t, name) = IF name \in PR!Named(t) THEN PR!Effective(t, name) ELSE PR!Effective(s, name)
<1>1. /\ s \o t \in Seq(S) /\ PR!Named(s \o t) = PR!Named(s) \cup PR!Named(t)
      /\ \A value : Sets(t, name, value) => Sets(s \o t, name, value)
      /\ \A value : Sets(s, name, value) /\ name \notin PR!Named(t) => Sets(s \o t, name, value)
  BY Joins
<1> DEFINE u == s \o t
<1> HIDE DEF u
<1>2. u \in Seq(S)
  BY <1>1 DEF u
<1>3. /\ \A value : Sets(u, name, value) => PR!Effective(u, name) = value
      /\ name \notin PR!Named(u) => PR!Effective(u, name) = {}
  BY <1>2, LastCounts
<1>4. CASE name \in PR!Named(t)
  <2>1. Sets(t, name, PR!Effective(t, name))
    BY <1>4, LastThere
  <2>2. QED
    BY <1>1, <1>3, <1>4, <2>1 DEF u
<1>5. CASE name \notin PR!Named(t) /\ name \in PR!Named(s)
  <2>1. Sets(s, name, PR!Effective(s, name))
    BY <1>5, LastThere
  <2>2. QED
    BY <1>1, <1>3, <1>5, <2>1 DEF u
<1>6. CASE name \notin PR!Named(t) /\ name \notin PR!Named(s)
  <2>1. PR!Effective(s, name) = {}
    BY <1>6, LastCounts
  <2>2. name \notin PR!Named(u)
    BY <1>1, <1>6 DEF u
  <2>3. QED
    BY <1>3, <1>6, <2>1, <2>2 DEF u
<1>7. QED
  BY <1>4, <1>5, <1>6

Line(Names, Values) == [switch : Names, value : SUBSET Values]

\* A list of one switch, or none.
LEMMA Single ==
    ASSUME NEW Names, NEW Values, NEW name \in Names, NEW value \in SUBSET Values,
           NEW list \in {<<>>, <<PR!Switch(name, value)>>}
    PROVE  list \in Seq(Line(Names, Values)) /\ PR!Named(list) \subseteq {name}
<1> DEFINE a == PR!Switch(name, value)
<1>1. a \in Line(Names, Values) /\ a.switch = name
  BY DEF Line, PR!Switch
<1>2. list = <<>> \/ list = <<a>>
  OBVIOUS
<1> HIDE DEF a
<1>3. <<a>> \in Seq(Line(Names, Values)) /\ Len(<<a>>) = 1 /\ <<a>>[1] = a
  BY <1>1
<1>4. <<>> \in Seq(Line(Names, Values)) /\ PR!Named(<<>>) = {}
  BY DEF PR!Named
<1>5. PR!Named(<<a>>) = {name}
  BY <1>1, <1>3 DEF PR!Named
<1>6. QED
  BY <1>2, <1>3, <1>4, <1>5

\* A feature is added to the switch there is, or in one of its own.
LEMMA Featured ==
    ASSUME NEW Names, NEW Values, "features" \in Names, NEW feature \in Values,
           NEW args \in Seq(Line(Names, Values)), PR!Once(args)
    PROVE  /\ PR!WithFeature(args, feature) \in Seq(Line(Names, Values))
           /\ PR!Once(PR!WithFeature(args, feature))
           /\ PR!Effective(PR!WithFeature(args, feature), "features") = PR!Effective(args, "features") \cup {feature}
<1> DEFINE I == {i \in 1..Len(args) : args[i].switch = "features"}
           found == IF I # {} THEN PR!Min(I) ELSE 0
           new == PR!WithFeature(args, feature)
           one == PR!Switch("features", {feature})
<1>1. new = IF found = 0 THEN Append(args, one) ELSE [args EXCEPT ![found].value = @ \cup {feature}]
  BY DEF PR!WithFeature, PR!SelectInSeq
<1>2. one \in Line(Names, Values) /\ one.switch = "features" /\ one.value = {feature}
  BY DEF Line, PR!Switch
<1>3. \A i \in 1..Len(args) : args[i] \in Line(Names, Values)
  OBVIOUS
<1> HIDE DEF new, one
<1>4. CASE I = {}
  <2>1. new = Append(args, one)
    BY <1>1, <1>4
  <2>2. /\ new \in Seq(Line(Names, Values)) /\ Len(new) = Len(args) + 1 /\ new[Len(args) + 1] = one
        /\ \A i \in 1..Len(args) : new[i] = args[i]
    BY <1>2, <2>1
  <2>3. \A i \in 1..Len(new) : new[i].switch = "features" => i = Len(args) + 1
    BY <1>4, <2>2
  <2>4. PR!Once(new)
    BY <2>3 DEF PR!Once
  <2>5. Sets(new, "features", {feature})
    BY <1>2, <2>2 DEF Sets
  <2>6. PR!Effective(new, "features") = {feature}
    BY <2>2, <2>5, LastCounts
  <2>7. PR!Effective(args, "features") = {}
    <3>1. "features" \notin PR!Named(args)
      BY <1>4 DEF PR!Named
    <3>2. QED
      BY <3>1, LastCounts
  <2>8. QED
    BY <2>2, <2>4, <2>6, <2>7 DEF new
<1>5. CASE I # {}
  <2>1. found \in I
    <3>1. I \in SUBSET Nat
      OBVIOUS
    <3>2. \E n \in I : \A m \in I : n <= m
      <4> HIDE DEF I
      <4>1. QED
        BY <1>5, <3>1, Least
    <3>3. QED
      BY <1>5, <3>2 DEF PR!Min
  <2>2. found \in 1..Len(args) /\ found # 0 /\ args[found].switch = "features"
    BY <2>1
  <2> HIDE DEF found
  <2>3. new = [args EXCEPT ![found].value = @ \cup {feature}]
    BY <1>1, <2>2
  <2> DEFINE e == [args[found] EXCEPT !.value = @ \cup {feature}]
  <2>4. e \in Line(Names, Values) /\ e.switch = "features" /\ e.value = args[found].value \cup {feature}
    BY <1>3, <2>2 DEF Line
  <2>5. new = [args EXCEPT ![found] = e]
    BY <2>3
  <2> HIDE DEF e
  <2>6. /\ new \in Seq(Line(Names, Values)) /\ Len(new) = Len(args) /\ new[found] = e
        /\ \A i \in 1..Len(args) : i # found => new[i] = args[i]
    BY <2>2, <2>4, <2>5
  <2>7. \A i \in 1..Len(args) : args[i].switch = "features" => i = found
    BY <2>2 DEF PR!Once
  <2>8. \A i \in 1..Len(new) : new[i].switch = "features" => i = found
    BY <2>6, <2>7
  <2>9. PR!Once(new)
    BY <2>8 DEF PR!Once
  <2>10. Sets(args, "features", args[found].value)
    BY <2>2, <2>7 DEF Sets
  <2>11. Sets(new, "features", args[found].value \cup {feature})
    BY <2>2, <2>4, <2>6, <2>8 DEF Sets
  <2>12. /\ PR!Effective(args, "features") = args[found].value
         /\ PR!Effective(new, "features") = args[found].value \cup {feature}
    BY <2>6, <2>10, <2>11, LastCounts
  <2>13. QED
    BY <2>6, <2>9, <2>12 DEF new
<1>6. QED
  BY <1>4, <1>5

\* For any adapter that states its features in one switch, any configuration
\* and any number of arguments of the user's: every feature that is asked for
\* is in effect, and every switch of the user's own (build_launch_args,
\* with_feature).
THEOREM Heeded ==
    ASSUME NEW Names, {"features", "webrtc", "lang", "incognito", "target"} \subseteq Names,
           NEW Values, {"ClearDataOnExit", "ReducedSystemInfo", "disabled", "on"} \subseteq Values,
           NEW browser \in [engine : {"chromium", "gecko"}, noise : BOOLEAN, flags : Seq(Line(Names, Values))],
           PR!Once(browser.flags),
           NEW config \in [enabled : BOOLEAN, clearData : BOOLEAN, reduceInfo : BOOLEAN, noWebrtc : BOOLEAN,
                           incognito : BOOLEAN, language : Values, extra : Seq(Line(Names, Values))],
           NEW target \in Seq(Values)
    PROVE  PR!AllInEffect(browser, config, target) /\ PR!UsersInEffect(browser, config, target)
<1> DEFINE L == Line(Names, Values)
           chromium == browser.engine = "chromium"
           flags == PR!When(config.enabled /\ chromium, browser.flags)
           cleared == IF config.enabled /\ config.clearData /\ chromium
                      THEN PR!WithFeature(flags, "ClearDataOnExit") ELSE flags
           reduced == IF config.enabled /\ config.reduceInfo /\ chromium /\ ~browser.noise
                      THEN PR!WithFeature(cleared, "ReducedSystemInfo") ELSE cleared
           rtc == PR!When(config.enabled /\ config.noWebrtc /\ chromium, <<PR!Switch("webrtc", {"disabled"})>>)
           lang == PR!When(chromium /\ config.language # "", <<PR!Switch("lang", {config.language})>>)
           extra == config.extra
           private == PR!When(chromium /\ config.incognito, <<PR!Switch("incognito", {"on"})>>)
           rest == [i \in DOMAIN target |-> PR!Switch("target", {target[i]})]
           all == PR!CommandArgs(browser, config, target)
           asked == IF config.enabled /\ chromium
                    THEN PR!Effective(browser.flags, "features")
                         \cup (IF config.clearData THEN {"ClearDataOnExit"} ELSE {})
                         \cup (IF config.reduceInfo /\ ~browser.noise THEN {"ReducedSystemInfo"} ELSE {})
                    ELSE {}
<1>1. all = ((((reduced \o rtc) \o lang) \o extra) \o private) \o rest
  BY DEF PR!CommandArgs, PR!BuildLaunchArgs
<1>2. <<>> \in Seq(L) /\ PR!Named(<<>>) = {} /\ PR!Once(<<>>) /\ PR!Effective(<<>>, "features") = {}
  <2>1. <<>> \in Seq(L) /\ PR!Named(<<>>) = {} /\ PR!Once(<<>>)
    BY DEF PR!Named, PR!Once
  <2>2. QED
    BY <2>1, LastCounts
<1>3. /\ flags \in Seq(L) /\ PR!Once(flags)
      /\ PR!Effective(flags, "features") = IF config.enabled /\ chromium THEN PR!Effective(browser.flags, "features") ELSE {}
  BY <1>2 DEF PR!When
<1>4. /\ cleared \in Seq(L) /\ PR!Once(cleared)
      /\ PR!Effective(cleared, "features") = PR!Effective(flags, "features")
            \cup (IF config.enabled /\ config.clearData /\ chromium THEN {"ClearDataOnExit"} ELSE {})
  <2> HIDE DEF flags
  <2>1. QED
    BY <1>3, Featured
<1>5. /\ reduced \in Seq(L)
      /\ PR!Effective(reduced, "features") = PR!Effective(cleared, "features")
            \cup (IF config.enabled /\ config.reduceInfo /\ chromium /\ ~browser.noise THEN {"ReducedSystemInfo"} ELSE {})
  <2> HIDE DEF cleared
  <2>1. QED
    BY <1>4, Featured
<1>6. PR!Effective(reduced, "features") = asked
  <2> HIDE DEF flags, cleared, reduced
  <2>1. QED
    BY <1>3, <1>4, <1>5
<1>7. /\ rtc \in Seq(L) /\ PR!Named(rtc) \subseteq {"webrtc"}
      /\ lang \in Seq(L) /\ PR!Named(lang) \subseteq {"lang"}
      /\ private \in Seq(L) /\ PR!Named(private) \subseteq {"incognito"}
  <2>1. {"webrtc", "lang", "incognito"} \subseteq Names
    OBVIOUS
  <2>0. {"disabled"} \in SUBSET Values /\ {config.language} \in SUBSET Values /\ {"on"} \in SUBSET Values
    OBVIOUS
  <2>2. /\ rtc \in {<<>>, <<PR!Switch("webrtc", {"disabled"})>>}
        /\ lang \in {<<>>, <<PR!Switch("lang", {config.language})>>}
        /\ private \in {<<>>, <<PR!Switch("incognito", {"on"})>>}
    BY DEF PR!When
  <2> HIDE DEF rtc, lang, private, L
  <2>3. \A name \in Names, value \in SUBSET Values : \A list \in {<<>>, <<PR!Switch(name, value)>>} :
           list \in Seq(Line(Names, Values)) /\ PR!Named(list) \subseteq {name}
    BY Single
  <2>4. rtc \in Seq(Line(Names, Values)) /\ PR!Named(rtc) \subseteq {"webrtc"}
    <3>1. "webrtc" \in Names /\ {"disabled"} \in SUBSET Values
      BY <2>0, <2>1
    <3>2. \A list \in {<<>>, <<PR!Switch("webrtc", {"disabled"})>>} :
             list \in Seq(Line(Names, Values)) /\ PR!Named(list) \subseteq {"webrtc"}
      BY <2>3, <3>1, Zenon
    <3>3. rtc \in {<<>>, <<PR!Switch("webrtc", {"disabled"})>>}
      BY <2>2
    <3>4. QED
      BY <3>2, <3>3, Zenon
  <2>5. lang \in Seq(Line(Names, Values)) /\ PR!Named(lang) \subseteq {"lang"}
    <3>1. "lang" \in Names /\ {config.language} \in SUBSET Values
      BY <2>0, <2>1
    <3>2. \A list \in {<<>>, <<PR!Switch("lang", {config.language})>>} :
             list \in Seq(Line(Names, Values)) /\ PR!Named(list) \subseteq {"lang"}
      BY <2>3, <3>1, Zenon
    <3>3. lang \in {<<>>, <<PR!Switch("lang", {config.language})>>}
      BY <2>2
    <3>4. QED
      BY <3>2, <3>3, Zenon
  <2>6. private \in Seq(Line(Names, Values)) /\ PR!Named(private) \subseteq {"incognito"}
    <3>1. "incognito" \in Names /\ {"on"} \in SUBSET Values
      BY <2>0, <2>1
    <3>2. \A list \in {<<>>, <<PR!Switch("incognito", {"on"})>>} :
             list \in Seq(Line(Names, Values)) /\ PR!Named(list) \subseteq {"incognito"}
      BY <2>3, <3>1, Zenon
    <3>3. private \in {<<>>, <<PR!Switch("incognito", {"on"})>>}
      BY <2>2
    <3>4. QED
      BY <3>2, <3>3, Zenon
  <2>7. QED
    BY <2>4, <2>5, <2>6 DEF L
<1>8. rest \in Seq(L) /\ PR!Named(rest) \subseteq {"target"}
  <2>1. \A i \in DOMAIN target : PR!Switch("target", {target[i]}) \in L /\ PR!Switch("target", {target[i]}).switch = "target"
    BY DEF Line, PR!Switch
  <2>2. DOMAIN target = 1..Len(target) /\ Len(target) \in Nat
    OBVIOUS
  <2>3. rest \in Seq(L) /\ Len(rest) = Len(target)
    BY <2>1, <2>2
  <2>4. \A i \in 1..Len(rest) : rest[i].switch = "target"
    BY <2>1, <2>2, <2>3
  <2>5. QED
    BY <2>3, <2>4 DEF PR!Named
<1>9. extra \in Seq(L)
  OBVIOUS
<1> HIDE DEF L, reduced, rtc, lang, extra, private, rest, asked, all
<1> DEFINE a == reduced \o rtc
           b == a \o lang
           c == b \o extra
           d == c \o private
<1>10. a \in Seq(L) /\ \A name : name # "webrtc" => PR!Effective(a, name) = PR!Effective(reduced, name)
  BY <1>5, <1>7, Joins, Lasts
<1> HIDE DEF a
<1>11. b \in Seq(L) /\ \A name : name # "lang" => PR!Effective(b, name) = PR!Effective(a, name)
  BY <1>7, <1>10, Joins, Lasts
<1> HIDE DEF b
<1>12. c \in Seq(L) /\ \A name : PR!Effective(c, name) = IF name \in PR!Named(extra) THEN PR!Effective(extra, name)
                                                        ELSE PR!Effective(b, name)
  BY <1>9, <1>11, Joins, Lasts
<1> HIDE DEF c
<1>13. d \in Seq(L) /\ \A name : name # "incognito" => PR!Effective(d, name) = PR!Effective(c, name)
  BY <1>7, <1>12, Joins, Lasts
<1> HIDE DEF d
<1>14. \A name : name # "target" => PR!Effective(all, name) = PR!Effective(d, name)
  <2>1. \A name : name # "target" => PR!Effective(d \o rest, name) = PR!Effective(d, name)
    BY <1>8, <1>13, Lasts
  <2>2. QED
    BY <1>1, <2>1 DEF a, b, c, d
<1>15. \A name \in PR!Named(extra) : name # "incognito" /\ name # "target" => PR!Effective(all, name) = PR!Effective(extra, name)
  BY <1>12, <1>13, <1>14
<1>16. PR!Effective(all, "features") = IF "features" \in PR!Named(extra) THEN PR!Effective(extra, "features") ELSE asked
  BY <1>6, <1>10, <1>11, <1>12, <1>13, <1>14
<1>17. QED
  BY <1>15, <1>16 DEF PR!AllInEffect, PR!UsersInEffect, all, extra, asked

\* However the link of a registered command is split into arguments, and
\* whatever those are: none becomes an operation of the launcher, and what is
\* opened is one target (run, validate_forwarded).
THEOREM Opening == ASSUME NEW S, NEW rest \in Seq(S), PR!Separator \in S PROVE PR!OpensOneTarget(<<PR!Separator>> \o rest)
<1> DEFINE argv == <<PR!Separator>> \o rest
<1>1. /\ argv \in Seq(S) /\ Len(argv) = Len(rest) + 1 /\ argv[1] = PR!Separator
      /\ 1 \in DOMAIN argv
  BY ConcatProperties
<1> HIDE DEF argv
<1>2. PR!Has(argv, PR!Separator) /\ PR!First(argv, PR!Separator) = 1
  <2> DEFINE I == {i \in 1..Len(argv) : argv[i] = PR!Separator}
  <2>1. 1 \in I /\ \A i \in I : i >= 1
    BY <1>1
  <2>2. \A n \in I : (\A m \in I : n <= m) => n = 1
    BY <2>1
  <2>3. PR!Min(I) = 1
    BY <2>1, <2>2 DEF PR!Min
  <2>4. PR!First(argv, PR!Separator) = IF I # {} THEN PR!Min(I) ELSE 0
    BY DEF PR!First, PR!SelectInSeq
  <2>5. QED
    BY <1>1, <2>1, <2>3, <2>4 DEF PR!Has
<1>3. PR!Own(argv) = <<>>
  <2>1. PR!Own(argv) = SubSeq(argv, 1, 0)
    BY <1>2 DEF PR!Own
  <2>2. QED
    BY <1>1, <2>1
<1>4. \A flag : ~PR!Has(<<>>, flag)
  BY DEF PR!Has
<1>5. PR!ParseCleanup(<<>>) = PR!NotCleanup
  BY <1>4 DEF PR!ParseCleanup
<1>6. PR!Dispatch(argv) = IF ~PR!ValidForwarded(PR!Forwarded(argv)) THEN [op |-> "refuse"]
                          ELSE [op |-> "launch", target |-> PR!Forwarded(argv)]
  BY <1>2, <1>3, <1>4, <1>5 DEF PR!Dispatch
<1>7. CASE ~PR!ValidForwarded(PR!Forwarded(argv))
  BY <1>6, <1>7 DEF PR!OpensOneTarget, argv
<1>8. CASE PR!ValidForwarded(PR!Forwarded(argv))
  BY <1>6, <1>8 DEF PR!OpensOneTarget, PR!ValidForwarded, argv
<1>9. QED
  BY <1>7, <1>8

-----------------------------------------------------------------------------
(* Algorithms, for every input: versions and releases.                      *)

CONSTANTS MaxPart, MaxParts
RL == INSTANCE Releases

\* Comparing from the front, missing components as zero.
LEMMA Lexical ==
    ASSUME NEW x \in Seq(Int), NEW y \in Seq(Int), NEW z \in Seq(Int)
    PROVE  /\ RL!LessParts(x, y) => ~RL!LessParts(y, x)
           /\ RL!LessParts(x, z) => RL!LessParts(x, y) \/ RL!LessParts(y, z)
<1> DEFINE P(s, i) == RL!Part(s, i)
           Below(s, t) == \E i \in Nat \ {0} : /\ P(s, i) < P(t, i)
                                               /\ \A j \in 1..i - 1 : P(s, j) = P(t, j)
<1>1. \A s \in Seq(Int) : \A i \in Nat \ {0} : P(s, i) \in Int /\ (i \notin DOMAIN s => P(s, i) = 0)
  BY DEF RL!Part
<1>2. ASSUME NEW s \in Seq(Int), NEW t \in Seq(Int) PROVE RL!LessParts(s, t) <=> Below(s, t)
  <2>1. DOMAIN s \cup DOMAIN t \subseteq Nat \ {0}
    OBVIOUS
  <2>2. \A i \in Nat \ {0} : P(s, i) < P(t, i) => i \in DOMAIN s \cup DOMAIN t
    BY <1>1
  <2>3. RL!LessParts(s, t) <=> \E i \in DOMAIN s \cup DOMAIN t :
                                   P(s, i) < P(t, i) /\ \A j \in 1..i - 1 : P(s, j) = P(t, j)
    BY DEF RL!LessParts
  <2> HIDE DEF P
  <2>4. QED
    BY <2>1, <2>2, <2>3
<1> HIDE DEF P
<1>3. ASSUME Below(x, y), Below(y, x) PROVE FALSE
  <2>1. PICK i \in Nat \ {0} : P(x, i) < P(y, i) /\ \A j \in 1..i - 1 : P(x, j) = P(y, j)
    BY <1>3
  <2>2. PICK k \in Nat \ {0} : P(y, k) < P(x, k) /\ \A j \in 1..k - 1 : P(y, j) = P(x, j)
    BY <1>3
  <2>3. i < k => i \in 1..k - 1
    OBVIOUS
  <2>4. k < i => k \in 1..i - 1
    OBVIOUS
  <2>5. P(x, i) \in Int /\ P(y, i) \in Int /\ P(x, k) \in Int /\ P(y, k) \in Int
    BY <1>1
  <2>6. QED
    BY <2>1, <2>2, <2>3, <2>4, <2>5
<1>4. ASSUME Below(x, z) PROVE Below(x, y) \/ Below(y, z)
  <2>1. PICK i \in Nat \ {0} : P(x, i) < P(z, i) /\ \A j \in 1..i - 1 : P(x, j) = P(z, j)
    BY <1>4
  <2> DEFINE Unlike == {k \in 1..i : P(x, k) # P(y, k)}
  <2>2. CASE Unlike = {}
    <3>1. \A k \in 1..i : P(x, k) = P(y, k)
      BY <2>2
    <3>2. P(y, i) < P(z, i) /\ \A j \in 1..i - 1 : P(y, j) = P(z, j)
      BY <2>1, <3>1
    <3>3. QED
      BY <3>2
  <2>3. CASE Unlike # {}
    <3>a. Unlike \in SUBSET Nat
      OBVIOUS
    <3> HIDE DEF Unlike
    <3>b. \E k \in Unlike : \A m \in Unlike : k <= m
      BY <2>3, <3>a, Least
    <3> USE DEF Unlike
    <3>1. PICK k \in Unlike : \A m \in Unlike : k <= m
      BY <3>b
    <3>2. k \in 1..i /\ P(x, k) # P(y, k) /\ P(x, k) \in Int /\ P(y, k) \in Int /\ P(z, k) \in Int
      BY <1>1, <3>1
    <3>3. \A j \in 1..k - 1 : P(x, j) = P(y, j)
      BY <3>1, <3>2
    <3>4. \A j \in 1..k - 1 : P(y, j) = P(z, j)
      BY <2>1, <3>2, <3>3
    <3>5. P(x, k) <= P(z, k)
      BY <2>1, <3>2
    <3>6. P(x, k) < P(y, k) \/ P(y, k) < P(z, k)
      BY <3>2, <3>5
    <3>7. QED
      BY <3>2, <3>3, <3>4, <3>6
  <2>4. QED
    BY <2>2, <2>3
<1>5. QED
  BY <1>2, <1>3, <1>4

LEMMA Ordered ==
    ASSUME NEW a \in [release : Seq(Int), revision : Seq(Int)], NEW b \in [release : Seq(Int), revision : Seq(Int)],
           NEW c \in [release : Seq(Int), revision : Seq(Int)]
    PROVE  /\ RL!Older(a, b) => ~RL!Older(b, a)
           /\ RL!Older(a, c) => RL!Older(a, b) \/ RL!Older(b, c)
<1> DEFINE L(x, y) == RL!LessParts(x, y)
<1>1. \A x, y, z \in Seq(Int) : (L(x, y) => ~L(y, x)) /\ (L(x, z) => L(x, y) \/ L(y, z))
  BY Lexical
<1>2. \A u, v \in {a, b, c} : RL!Older(u, v) <=>
         \/ L(u.release, v.release)
         \/ ~L(u.release, v.release) /\ ~L(v.release, u.release) /\ L(u.revision, v.revision)
  BY DEF RL!Older, RL!SameParts
<1> HIDE DEF L
<1>3. RL!Older(a, b) => ~RL!Older(b, a)
  BY <1>1, <1>2
<1>4. RL!Older(a, c) => RL!Older(a, b) \/ RL!Older(b, c)
  BY <1>1, <1>2
<1>5. QED
  BY <1>3, <1>4

\* No chain of updates, of any length and through whatever readable versions,
\* leads to an older one; and of two readable versions one may follow the
\* other (ensure_not_older, version_order.rs).
THEOREM Ordering ==
    ASSUME NEW Labels,
           NEW a \in [label : Labels, release : Seq(Int), revision : Seq(Int)],
           NEW b \in [label : Labels, release : Seq(Int), revision : Seq(Int)],
           NEW c \in [label : Labels, release : Seq(Int), revision : Seq(Int)]
    PROVE  RL!NoDowngrade(a, b, c)
<1> DEFINE V == [label : Labels, release : Seq(Int), revision : Seq(Int)]
           W == [release : Seq(Int), revision : Seq(Int)]
<1>1. RL!NoVersion \in W
  BY DEF RL!NoVersion
<1>2. \A v \in V : RL!Parse(v) \in W
  BY <1>1 DEF RL!Parse
<1>3. \A v \in V : v # RL!NoVersion
  <2>1. ASSUME NEW v \in V PROVE v # RL!NoVersion
    <3>1. "label" \in DOMAIN v
      OBVIOUS
    <3>2. "label" \notin DOMAIN RL!NoVersion
      BY DEF RL!NoVersion
    <3>3. QED
      BY <3>1, <3>2
  <2>2. QED
    BY <2>1
<1>4. \A u, v \in V : RL!MayFollow(u, v) <=>
         RL!Parse(v) # RL!NoVersion /\ RL!Parse(u) # RL!NoVersion /\ ~RL!Older(RL!Parse(v), RL!Parse(u))
  BY <1>3 DEF RL!MayFollow
<1>5. \A v \in V : RL!MayFollow(RL!NoVersion, v) <=> RL!Parse(v) # RL!NoVersion
  BY DEF RL!MayFollow
<1>6. /\ RL!Older(RL!Parse(c), RL!Parse(a)) => RL!Older(RL!Parse(c), RL!Parse(b)) \/ RL!Older(RL!Parse(b), RL!Parse(a))
      /\ RL!Older(RL!Parse(a), RL!Parse(b)) => ~RL!Older(RL!Parse(b), RL!Parse(a))
  BY <1>2, Ordered
<1>7. QED
  BY <1>4, <1>5, <1>6 DEF RL!NoDowngrade

\* The first one that matches, if there is one.
LEMMA Lowest == ASSUME NEW I \in SUBSET Nat, I # {} PROVE RL!Min(I) \in I
<1>1. \E n \in I : \A m \in I : n <= m
  BY Least
<1>2. QED
  BY <1>1 DEF RL!Min

PackageNames(Any) == [arch : Any, type : Any, installer : BOOLEAN]
Assets(Any) == [name : PackageNames(Any), digest : PackageNames(Any), signs : PackageNames(Any)]
HashLines(Any) == [name : PackageNames(Any), hash : PackageNames(Any)]

LEMMA FirstAsset ==
    ASSUME NEW Any, NEW release, release.assets \in Seq(Assets(Any)), NEW arch, NEW name
    PROVE  /\ RL!ZipAsset(release, arch) # 0 =>
                 /\ RL!ZipAsset(release, arch) \in DOMAIN release.assets
                 /\ release.assets[RL!ZipAsset(release, arch)].name.type = "zip"
                 /\ release.assets[RL!ZipAsset(release, arch)].name.arch = arch
                 /\ ~release.assets[RL!ZipAsset(release, arch)].name.installer
           /\ RL!NamedAsset(release, name) # 0 =>
                 /\ RL!NamedAsset(release, name) \in DOMAIN release.assets
                 /\ release.assets[RL!NamedAsset(release, name)].name = name
<1> DEFINE assets == release.assets
           Z == {i \in 1..Len(assets) : assets[i].name.type = "zip" /\ assets[i].name.arch = arch
                                        /\ ~assets[i].name.installer}
           N == {i \in 1..Len(assets) : assets[i].name = name}
<1>1. DOMAIN assets = 1..Len(assets)
  OBVIOUS
<1>2. RL!ZipAsset(release, arch) = IF Z # {} THEN RL!Min(Z) ELSE 0
  BY DEF RL!ZipAsset, RL!Find, RL!SelectInSeq
<1>3. RL!NamedAsset(release, name) = IF N # {} THEN RL!Min(N) ELSE 0
  BY DEF RL!NamedAsset, RL!Find, RL!SelectInSeq
<1>4. Z \in SUBSET Nat /\ N \in SUBSET Nat
  OBVIOUS
<1>5. (Z # {} => RL!Min(Z) \in Z) /\ (N # {} => RL!Min(N) \in N)
  BY <1>4, Lowest
<1>6. RL!ZipAsset(release, arch) # 0 => RL!ZipAsset(release, arch) \in Z
  BY <1>2, <1>5
<1>7. RL!NamedAsset(release, name) # 0 => RL!NamedAsset(release, name) \in N
  BY <1>3, <1>5
<1>8. QED
  BY <1>1, <1>6, <1>7

LEMMA FirstLine ==
    ASSUME NEW Any, NEW lines \in Seq(HashLines(Any)), NEW name
    PROVE  /\ RL!Listed(lines, name) # RL!None =>
                 \E i \in DOMAIN lines : lines[i].name = name /\ lines[i].hash = RL!Listed(lines, name)
           /\ RL!ListedHash(lines, name) # RL!None =>
                 \E i \in DOMAIN lines : lines[i].name = name /\ lines[i].hash = RL!ListedHash(lines, name)
<1> DEFINE L == {i \in 1..Len(lines) : lines[i].name = name}
           H == {i \in 1..Len(lines) : lines[i].name = name /\ lines[i].hash # RL!Garbage}
<1>1. DOMAIN lines = 1..Len(lines)
  OBVIOUS
<1>2. RL!Listed(lines, name) = LET found == IF L # {} THEN RL!Min(L) ELSE 0 IN
                               IF found = 0 THEN RL!None ELSE lines[found].hash
  BY DEF RL!Listed, RL!SelectInSeq
<1>3. RL!ListedHash(lines, name) = LET found == IF H # {} THEN RL!Min(H) ELSE 0 IN
                                   IF found = 0 THEN RL!None ELSE lines[found].hash
  BY DEF RL!ListedHash, RL!SelectInSeq
<1>4. L \in SUBSET Nat /\ H \in SUBSET Nat
  OBVIOUS
<1>5. (L # {} => RL!Min(L) \in L) /\ (H # {} => RL!Min(H) \in H)
  BY <1>4, Lowest
<1>6. RL!Listed(lines, name) # RL!None => \E i \in L : lines[i].hash = RL!Listed(lines, name)
  BY <1>2, <1>5
<1>7. RL!ListedHash(lines, name) # RL!None => \E i \in H : lines[i].hash = RL!ListedHash(lines, name)
  BY <1>3, <1>5
<1>8. QED
  BY <1>1, <1>6, <1>7

\* Names that are told apart.
LEMMA PackagesDiffer ==
    ASSUME NEW came \in RL!Genuine
    PROVE  /\ came # RL!None /\ came # RL!Garbage
           /\ \E arch \in RL!Arches : came = RL!InstallerName(arch) \/ came = RL!PortableName(arch)
           /\ \A Any : \A name \in PackageNames(Any), type \in {"sig", "asc"} :
                 RL!SignatureName(name, type) \in {RL!SignatureName(came, "sig"), RL!SignatureName(came, "asc")} =>
                    name.arch = came.arch /\ name.installer = came.installer
<1>1. PICK arch \in RL!Arches : came = RL!InstallerName(arch) \/ came = RL!PortableName(arch)
  BY DEF RL!Genuine
<1>2. came.arch = arch /\ arch # "none" /\ arch # "garbage"
  BY <1>1 DEF RL!Arches, RL!InstallerName, RL!PortableName, RL!Package
<1>3. came # RL!None /\ came # RL!Garbage
  <2>1. RL!None.arch = "none" /\ RL!Garbage.arch = "garbage"
    BY DEF RL!None, RL!Garbage, RL!Package
  <2>2. QED
    BY <1>2, <2>1
<1>4. ASSUME NEW Any, NEW name \in PackageNames(Any), NEW type \in {"sig", "asc"}, NEW other \in {"sig", "asc"},
             RL!SignatureName(name, type) = RL!SignatureName(came, other)
      PROVE  name.arch = came.arch /\ name.installer = came.installer
  <2>1. /\ RL!SignatureName(name, type).arch = name.arch
        /\ RL!SignatureName(name, type).installer = name.installer
    BY DEF RL!SignatureName, PackageNames
  <2>2. /\ RL!SignatureName(came, other).arch = came.arch
        /\ RL!SignatureName(came, other).installer = came.installer
    BY <1>1 DEF RL!SignatureName, RL!InstallerName, RL!PortableName, RL!Package
  <2>3. QED
    BY <1>4, <2>1, <2>2
<1>5. QED
  BY <1>1, <1>3, <1>4

\* For releases of any length, in any order, with any files beside the package
\* and any hash file of a sincere vendor: what passes verify_package is the
\* package the vendor's lookup chose, for the configured target, and signed
\* where the vendor has a key (browsers/*.rs, updater.rs).
THEOREM Trusting ==
    ASSUME NEW Any, NEW vendor \in RL!Families, NEW arch \in RL!Arches,
           NEW release, release.assets \in Seq(Assets(Any)),
           NEW hashes, hashes.lines \in Seq(HashLines(Any)),
           RL!Sincere(vendor, release, arch, hashes), NEW came \in RL!Genuine
    PROVE  RL!ChosenTrusted(vendor, release, arch, hashes, came)
<1> DEFINE info == RL!Lookup(vendor, release, arch, hashes)
           exe == RL!InstallerName(arch)
           zip == RL!PortableName(arch)
<1>1. came # RL!None /\ came # RL!Garbage
      /\ exe.arch = arch /\ zip.arch = arch
  BY PackagesDiffer DEF RL!InstallerName, RL!PortableName, RL!Package
<1>2. /\ \A i \in DOMAIN release.assets :
            /\ release.assets[i] \in Assets(Any)
            /\ release.assets[i].digest = came => release.assets[i].name = came
            /\ release.assets[i].signs = came =>
                  release.assets[i].name \in {RL!SignatureName(came, "sig"), RL!SignatureName(came, "asc")}
      /\ \A i \in DOMAIN hashes.lines : hashes.lines[i].hash = came => hashes.lines[i].name = came
      /\ vendor = "waterfox" => \A i \in DOMAIN hashes.lines : hashes.lines[i].name = exe
  BY <1>1 DEF RL!Sincere
<1>a. /\ RL!ZipAsset(release, arch) # 0 =>
            /\ RL!ZipAsset(release, arch) \in DOMAIN release.assets
            /\ release.assets[RL!ZipAsset(release, arch)].name.type = "zip"
            /\ release.assets[RL!ZipAsset(release, arch)].name.arch = arch
            /\ ~release.assets[RL!ZipAsset(release, arch)].name.installer
      /\ \A name : RL!NamedAsset(release, name) # 0 =>
            /\ RL!NamedAsset(release, name) \in DOMAIN release.assets
            /\ release.assets[RL!NamedAsset(release, name)].name = name
  BY FirstAsset
<1>b. ASSUME NEW name
      PROVE  /\ RL!Listed(hashes.lines, name) # RL!None =>
                   \E i \in DOMAIN hashes.lines : /\ hashes.lines[i].name = name
                                                  /\ hashes.lines[i].hash = RL!Listed(hashes.lines, name)
             /\ RL!ListedHash(hashes.lines, name) # RL!None =>
                   \E i \in DOMAIN hashes.lines : /\ hashes.lines[i].name = name
                                                  /\ hashes.lines[i].hash = RL!ListedHash(hashes.lines, name)
  BY FirstLine
\* What may stand for the chosen package of each vendor.
<1>3. ASSUME NEW name, RL!Listed(hashes.lines, name) = came \/ RL!ListedHash(hashes.lines, name) = came
      PROVE  name = came
  BY <1>1, <1>2, <1>3, <1>b
<1>4. ASSUME RL!ZipAsset(release, arch) # 0
      PROVE  release.assets[RL!ZipAsset(release, arch)].name = zip
             /\ RL!ZipAsset(release, arch) \in DOMAIN release.assets
  <2> DEFINE found == RL!ZipAsset(release, arch)
  <2>1. /\ found \in DOMAIN release.assets /\ release.assets[found].name.type = "zip"
        /\ release.assets[found].name.arch = arch /\ ~release.assets[found].name.installer
    BY <1>4, <1>a
  <2>2. release.assets[found].name \in PackageNames(Any)
    BY <1>2, <2>1 DEF Assets
  <2>3. QED
    BY <2>1, <2>2 DEF PackageNames, RL!PortableName, RL!Package
<1>5. ASSUME NEW name \in {exe, zip}, NEW type \in {"sig", "asc"},
             RL!SignatureOf(release, RL!SignatureName(name, type)) = came
      PROVE  name = came
  <2> DEFINE found == RL!NamedAsset(release, RL!SignatureName(name, type))
  <2>1. found # 0 /\ release.assets[found].signs = came
    BY <1>1, <1>5 DEF RL!SignatureOf
  <2>2. found \in DOMAIN release.assets /\ release.assets[found].name = RL!SignatureName(name, type)
    BY <2>1, <1>a
  <2>3. RL!SignatureName(name, type) \in {RL!SignatureName(came, "sig"), RL!SignatureName(came, "asc")}
    BY <1>2, <2>1, <2>2
  <2>4. name \in PackageNames({arch, "exe", "zip"})
    <3>1. exe \in PackageNames({arch, "exe", "zip"}) /\ zip \in PackageNames({arch, "exe", "zip"})
      BY DEF PackageNames, RL!InstallerName, RL!PortableName, RL!Package
    <3>2. QED
      BY <3>1
  <2>5. name.arch = came.arch /\ name.installer = came.installer
    BY <2>3, <2>4, PackagesDiffer
  <2>6. PICK a \in RL!Arches : came = RL!InstallerName(a) \/ came = RL!PortableName(a)
    BY PackagesDiffer
  <2>7. QED
    BY <2>5, <2>6 DEF RL!InstallerName, RL!PortableName, RL!Package
<1>6. SUFFICES ASSUME info.ok, RL!Verified(vendor, info, came)
               PROVE  info.name = came /\ came.arch = arch /\ (RL!HasKey(vendor) => info.signature = came)
  BY DEF RL!ChosenTrusted
<1> HIDE DEF exe, zip
<1>7. CASE vendor = "ungoogled"
  <2> DEFINE found == RL!ZipAsset(release, arch)
  <2>1. info = IF found = 0 THEN RL!LookupFails
               ELSE RL!Info(release.assets[found].name, RL!None, RL!Sha256(release.assets[found]), RL!None)
    BY <1>7 DEF RL!Lookup, RL!LookupUngoogled
  <2>2. found # 0
    BY <1>6, <2>1 DEF RL!LookupFails
  <2>3. /\ info.name = release.assets[found].name /\ info.sha256 = RL!Sha256(release.assets[found])
        /\ info.sha512 = RL!None
    BY <2>1, <2>2 DEF RL!Info
  <2>4. ~RL!HasKey(vendor)
    BY <1>7 DEF RL!HasKey, RL!Signed
  <2>5. info.sha256 = came
    BY <1>6, <2>3, <2>4 DEF RL!Verified, RL!Material
  <2>6. release.assets[found].digest = came
    BY <1>1, <2>3, <2>5 DEF RL!Sha256
  <2>7. QED
    BY <1>1, <1>2, <1>4, <2>2, <2>3, <2>4, <2>6
<1>8. CASE vendor = "helium"
  <2> DEFINE found == RL!ZipAsset(release, arch)
  <2>1. info = IF found = 0 THEN RL!LookupFails
               ELSE RL!Info(release.assets[found].name,
                            RL!SignatureOf(release, RL!SignatureName(release.assets[found].name, "sig")),
                            RL!Sha256(release.assets[found]), RL!None)
    BY <1>8 DEF RL!Lookup, RL!LookupHelium
  <2>2. found # 0
    BY <1>6, <2>1 DEF RL!LookupFails
  <2>3. /\ info.name = release.assets[found].name
        /\ info.signature = RL!SignatureOf(release, RL!SignatureName(release.assets[found].name, "sig"))
    BY <2>1, <2>2 DEF RL!Info
  <2>4. info.signature = came
    BY <1>6, <1>8 DEF RL!Verified, RL!HasKey, RL!Signed
  <2>5. QED
    BY <1>1, <1>4, <1>5, <2>2, <2>3, <2>4
<1>9. CASE vendor = "mullvad"
  <2>1. info = IF RL!NamedAsset(release, exe) = 0 \/ ~RL!Supported("mullvad", arch) THEN RL!LookupFails
               ELSE RL!Info(exe, RL!SignatureOf(release, RL!SignatureName(exe, "asc")),
                            RL!Sha256(release.assets[RL!NamedAsset(release, exe)]), RL!None)
    BY <1>9 DEF RL!Lookup, RL!LookupMullvad, exe
  <2>2. info.name = exe /\ info.signature = RL!SignatureOf(release, RL!SignatureName(exe, "asc"))
    BY <1>6, <2>1 DEF RL!LookupFails, RL!Info
  <2>3. info.signature = came
    BY <1>6, <1>9 DEF RL!Verified, RL!HasKey, RL!Signed
  <2>4. QED
    BY <1>1, <1>5, <2>2, <2>3
<1>10. CASE vendor = "floorp"
  <2> DEFINE listed == RL!NamedAsset(release, RL!HashList) # 0
  <2>1. info = IF RL!NamedAsset(release, exe) = 0 \/ (listed /\ ~hashes.reached) THEN RL!LookupFails
               ELSE RL!Info(exe, RL!None, IF listed THEN RL!ListedHash(hashes.lines, exe) ELSE RL!None, RL!None)
    BY <1>10 DEF RL!Lookup, RL!LookupFloorp, exe
  <2>2. /\ info.name = exe /\ info.sha512 = RL!None
        /\ info.sha256 = IF listed THEN RL!ListedHash(hashes.lines, exe) ELSE RL!None
    BY <1>6, <2>1 DEF RL!LookupFails, RL!Info
  <2>3. ~RL!HasKey(vendor)
    BY <1>10 DEF RL!HasKey, RL!Signed
  <2>4. info.sha256 = came
    BY <1>6, <2>2, <2>3 DEF RL!Verified, RL!Material
  <2>5. QED
    BY <1>1, <1>3, <2>2, <2>3, <2>4
<1>11. CASE vendor = "librewolf"
  <2>1. info = IF ~RL!Supported("librewolf", arch) THEN RL!LookupFails
               ELSE RL!Info(zip, RL!None, IF hashes.reached THEN RL!Listed(hashes.lines, zip) ELSE RL!None, RL!None)
    BY <1>11 DEF RL!Lookup, RL!LookupLibrewolf, zip
  <2>2. /\ info.name = zip /\ info.sha512 = RL!None
        /\ info.sha256 = IF hashes.reached THEN RL!Listed(hashes.lines, zip) ELSE RL!None
    BY <1>6, <2>1 DEF RL!LookupFails, RL!Info
  <2>3. ~RL!HasKey(vendor)
    BY <1>11 DEF RL!HasKey, RL!Signed
  <2>4. info.sha256 = came
    BY <1>6, <2>2, <2>3 DEF RL!Verified, RL!Material
  <2>5. QED
    BY <1>1, <1>3, <2>2, <2>3, <2>4
<1>12. CASE vendor = "waterfox"
  <2>1. info = RL!Info(exe, RL!None, RL!None, IF hashes.reached THEN RL!OnlyHash(hashes.lines) ELSE RL!None)
    BY <1>12 DEF RL!Lookup, RL!LookupWaterfox, exe
  <2>2. /\ info.name = exe /\ info.sha256 = RL!None
        /\ info.sha512 = IF hashes.reached THEN RL!OnlyHash(hashes.lines) ELSE RL!None
    BY <2>1 DEF RL!Info
  <2>3. ~RL!HasKey(vendor)
    BY <1>12 DEF RL!HasKey, RL!Signed
  <2>4. RL!OnlyHash(hashes.lines) = came
    BY <1>1, <1>6, <2>2, <2>3 DEF RL!Verified, RL!Material
  <2>5. hashes.lines # <<>> /\ hashes.lines[1].hash = came
    BY <1>1, <2>4 DEF RL!OnlyHash
  <2>6. 1 \in DOMAIN hashes.lines
    BY <2>5
  <2>7. QED
    BY <1>1, <1>2, <1>12, <2>2, <2>3, <2>5, <2>6
<1>13. QED
  BY <1>7, <1>8, <1>9, <1>10, <1>11, <1>12 DEF RL!Families

-----------------------------------------------------------------------------
(* Folds.  The function a fold from the left is defined by is built position *)
(* by position; from it, the values along the sequence.                      *)

\* Induction up to a number, for a set of numbers.
LEMMA Climb ==
    ASSUME NEW n \in Nat, NEW Good \in SUBSET (0..n), 0 \in Good,
           \A k \in 1..n : k - 1 \in Good => k \in Good
    PROVE  Good = 0..n
<1> SUFFICES ASSUME (0..n) \ Good # {} PROVE FALSE
  OBVIOUS
<1>1. PICK k \in (0..n) \ Good : \A m \in (0..n) \ Good : k <= m
  <2> DEFINE Bad == (0..n) \ Good
  <2>1. Bad \in SUBSET Nat /\ Bad # {}
    OBVIOUS
  <2> HIDE DEF Bad
  <2>2. \E k \in Bad : \A m \in Bad : k <= m
    BY <2>1, Least
  <2>3. QED
    BY <2>2 DEF Bad
<1>2. k \in 1..n /\ k - 1 \in 0..n
  BY <1>1
<1>3. k - 1 \in Good
  BY <1>1, <1>2
<1>4. QED
  BY <1>1, <1>2, <1>3

\* The last of the positions that are left, for any of them.
LastOf(n, top) == \A s \in SUBSET (1..n) : s # {} => top[s] \in s /\ \A m \in s : m <= top[s]

\* The function a fold from the left is defined by.
FoldsBy(n, base, F, top, iter) ==
    /\ iter[{}] = base
    /\ \A s \in SUBSET (1..n) : s # {} => iter[s] = F[top[s]][iter[s \ {top[s]}]]

\* The function a fold is defined by exists: by a step for each position, on
\* the sets of positions that are left, the last one taken first.
LEMMA Iterates ==
    ASSUME NEW n \in Nat, NEW A, NEW base \in A, NEW F \in [1..n -> [A -> A]], NEW top, LastOf(n, top)
    PROVE  \E iter \in [SUBSET (1..n) -> A] : FoldsBy(n, base, F, top, iter)
<1> DEFINE Works(k, iter) ==
      \A s \in SUBSET (1..k) : iter[s] = IF s = {} THEN base ELSE F[top[s]][iter[s \ {top[s]}]]
    Good == {k \in 0..n : \E iter \in [SUBSET (1..k) -> A] : Works(k, iter)}
<1>1. 0 \in Good
  <2>1. Works(0, [s \in SUBSET (1..0) |-> base])
    <3>1. 1..0 = {}
      OBVIOUS
    <3>2. QED
      BY <3>1
  <2>2. [s \in SUBSET (1..0) |-> base] \in [SUBSET (1..0) -> A]
    OBVIOUS
  <2> HIDE DEF Works
  <2>3. \E iter \in [SUBSET (1..0) -> A] : Works(0, iter)
    BY <2>1, <2>2
  <2>4. 0 \in 0..n
    OBVIOUS
  <2>5. QED
    BY <2>3, <2>4, Zenon
<1>2. ASSUME NEW k \in 1..n, k - 1 \in Good PROVE k \in Good
  <2>1. PICK iter \in [SUBSET (1..(k - 1)) -> A] : Works(k - 1, iter)
    BY <1>2
  <2> DEFINE next == [s \in SUBSET (1..k) |-> IF k \in s THEN F[k][iter[s \ {k}]] ELSE iter[s]]
  <2>2. \A s \in SUBSET (1..k) : s \ {k} \in SUBSET (1..(k - 1))
    OBVIOUS
  <2>3. \A s \in SUBSET (1..k) : k \notin s => s \in SUBSET (1..(k - 1))
    OBVIOUS
  <2>4. \A s \in SUBSET (1..k) : s \in SUBSET (1..n)
    OBVIOUS
  <2>5. next \in [SUBSET (1..k) -> A]
    <3>1. F[k] \in [A -> A]
      OBVIOUS
    <3>2. \A s \in SUBSET (1..k) : iter[s \ {k}] \in A
      BY <2>2
    <3>3. \A s \in SUBSET (1..k) : k \notin s => iter[s] \in A
      BY <2>3
    <3>4. QED
      BY <3>1, <3>2, <3>3
  <2>6. ASSUME NEW s \in SUBSET (1..k)
        PROVE  next[s] = IF s = {} THEN base ELSE F[top[s]][next[s \ {top[s]}]]
    <3>1. CASE k \in s
      <4>1. top[s] \in s /\ k <= top[s] /\ top[s] \in 1..k
        BY <2>4, <3>1 DEF LastOf
      <4>2. top[s] = k
        BY <4>1
      <4>3. s \ {k} \in SUBSET (1..k) /\ k \notin s \ {k}
        OBVIOUS
      <4>4. next[s \ {k}] = iter[s \ {k}]
        BY <4>3
      <4>5. QED
        BY <3>1, <4>2, <4>4
    <3>2. CASE k \notin s
      <4>1. s \in SUBSET (1..(k - 1)) /\ next[s] = iter[s]
        BY <2>3, <3>2
      <4>2. iter[s] = IF s = {} THEN base ELSE F[top[s]][iter[s \ {top[s]}]]
        BY <2>1, <4>1
      <4>3. s \ {top[s]} \in SUBSET (1..k) /\ k \notin s \ {top[s]}
        BY <3>2
      <4>4. next[s \ {top[s]}] = iter[s \ {top[s]}]
        BY <4>3
      <4>5. QED
        BY <4>1, <4>2, <4>4
    <3>3. QED
      BY <3>1, <3>2
  <2>7. Works(k, next)
    BY <2>6
  <2> HIDE DEF Works, next
  <2>8. \E it \in [SUBSET (1..k) -> A] : Works(k, it)
    BY <2>5, <2>7
  <2>9. QED
    BY <2>8
<1> HIDE DEF Works
<1>3. Good \in SUBSET (0..n)
  OBVIOUS
<1>4. \A k \in 1..n : k - 1 \in Good => k \in Good
  BY <1>2
<1> HIDE DEF Good
<1>5. Good = 0..n
  BY <1>1, <1>3, <1>4, Climb
<1>6. n \in Good
  BY <1>5
<1>7. PICK iter \in [SUBSET (1..n) -> A] : Works(n, iter)
  BY <1>6 DEF Good
<1> USE DEF Works
<1>8. FoldsBy(n, base, F, top, iter)
  BY <1>7 DEF FoldsBy
<1>9. QED
  BY <1>8

\* A set of positions has a last one.
LEMMA Greatest ==
    ASSUME NEW n \in Nat, NEW s \in SUBSET (1..n), s # {}
    PROVE  \E x \in s : \A y \in s : x >= y
<1> DEFINE Mirror == {n - x : x \in s}
<1>1. Mirror \in SUBSET Nat
  OBVIOUS
<1>2. PICK some \in s : TRUE
  OBVIOUS
<1>3. n - some \in Mirror
  OBVIOUS
<1> HIDE DEF Mirror
<1>4. PICK m \in Mirror : \A k \in Mirror : m <= k
  BY <1>1, <1>3, Least
<1> USE DEF Mirror
<1>5. PICK x \in s : m = n - x
  BY <1>4
<1>6. \A y \in s : n - x <= n - y
  BY <1>4, <1>5
<1>7. QED
  BY <1>5, <1>6

\* The first positions of a sequence, and what is left without the last.
LEMMA Segments ==
    ASSUME NEW n \in Nat, NEW k \in 1..n
    PROVE  /\ 1..k \in SUBSET (1..n) /\ 1..k # {} /\ (1..k) \ {k} = 1..(k - 1)
           /\ k - 1 \in 0..n /\ k \in 0..n /\ k \in 1..k /\ \A m \in 1..k : m <= k
<1>1. k \in 1..k
  OBVIOUS
<1>2. (1..k) \ {k} = 1..(k - 1)
  OBVIOUS
<1>3. QED
  BY <1>1, <1>2

-----------------------------------------------------------------------------
(* Replies and redirects.                                                   *)

CONSTANT MaxRedirects   \* redirects a client follows (10 in the code)
RP == INSTANCE Replies

\* A chunk of a body, and an address a client is sent to.
Chunk(so, chunk, limit) ==
    IF ~so.ok \/ chunk > limit - so.kept THEN [so EXCEPT !.ok = FALSE]
    ELSE [so EXCEPT !.kept = @ + chunk]

Hop(so, next) ==
    IF so.ok /\ RP!MayFollow(next, so.made) THEN [so EXCEPT !.made = Append(@, next)]
    ELSE [so EXCEPT !.ok = FALSE]

Bodies == [ok : BOOLEAN, kept : Nat]
NoBody == [ok |-> TRUE, kept |-> 0]

Schemes == {"http", "https"}
Journeys == [ok : BOOLEAN, made : Seq(Schemes)]

LEMMA ChunkType == ASSUME NEW so \in Bodies, NEW chunk \in Nat, NEW limit \in Nat PROVE Chunk(so, chunk, limit) \in Bodies
<1>1. so.kept \in Nat /\ so.kept + chunk \in Nat
  BY DEF Bodies
<1>2. [so EXCEPT !.ok = FALSE] \in Bodies /\ [so EXCEPT !.kept = @ + chunk] \in Bodies
  BY <1>1 DEF Bodies
<1>3. QED
  BY <1>2 DEF Chunk

LEMMA HopType == ASSUME NEW so \in Journeys, NEW next \in Schemes PROVE Hop(so, next) \in Journeys
<1>1. so.made \in Seq(Schemes) /\ Append(so.made, next) \in Seq(Schemes)
  BY DEF Journeys
<1>2. [so EXCEPT !.ok = FALSE] \in Journeys /\ [so EXCEPT !.made = Append(@, next)] \in Journeys
  BY <1>1 DEF Journeys
<1>3. QED
  BY <1>2 DEF Hop

\* The sum of a sequence, chunk by chunk.
LEMMA SummingSteps ==
    ASSUME NEW chunks \in Seq(Nat)
    PROVE  \E R : /\ R[0] = 0
                  /\ \A k \in 1..Len(chunks) : R[k] = R[k - 1] + chunks[k]
                  /\ RP!Sum(chunks) = R[Len(chunks)]
<1> DEFINE n == Len(chunks)
           Final(s) == RP!Max(s)
           Step(s, it) == it[s \ {Final(s)}] + chunks[Final(s)]
           Eq(it) == it = [s \in SUBSET (DOMAIN chunks) |-> IF s = {} THEN 0 ELSE Step(s, it)]
           It == CHOOSE it : Eq(it)
           F == [i \in 1..n |-> [so \in Nat |-> so + chunks[i]]]
           top == [s \in SUBSET (1..n) |-> Final(s)]
<1>1. n \in Nat /\ DOMAIN chunks = 1..n
  OBVIOUS
<1>2. RP!Sum(chunks) = It[DOMAIN chunks]
  BY DEF RP!Sum, RP!FoldLeft, RP!MapThenFoldSet
<1>3. \A s \in SUBSET (1..n) : s # {} => Final(s) \in s /\ \A m \in s : m <= Final(s)
  <2> SUFFICES ASSUME NEW s \in SUBSET (1..n), s # {} PROVE Final(s) \in s /\ \A m \in s : m <= Final(s)
    OBVIOUS
  <2> HIDE DEF n
  <2>1. \E x \in s : \A y \in s : x >= y
    BY <1>1, Greatest
  <2>2. QED
    BY <1>1, <2>1 DEF RP!Max
<1> HIDE DEF Final
<1>4. 0 \in Nat /\ F \in [1..n -> [Nat -> Nat]]
  <2>1. \A i \in 1..n : chunks[i] \in Nat
    OBVIOUS
  <2>2. \A so \in Nat, e \in Nat : so + e \in Nat
    OBVIOUS
  <2>3. 0 \in Nat
    OBVIOUS
  <2> HIDE DEF n
  <2>4. QED
    BY <2>1, <2>2, <2>3
<1>5. \E it : Eq(it)
  <2>1. LastOf(n, top)
    BY <1>3 DEF LastOf
  <2> HIDE DEF n, F, top
  <2>2. \E it \in [SUBSET (1..n) -> Nat] : FoldsBy(n, 0, F, top, it)
    BY <1>1, <1>4, <2>1, Iterates
  <2>3. PICK it \in [SUBSET (1..n) -> Nat] : FoldsBy(n, 0, F, top, it)
    BY <2>2
  <2>4. ASSUME NEW s \in SUBSET (1..n), s # {} PROVE it[s] = Step(s, it)
    <3>1. top[s] = Final(s) /\ top[s] \in 1..n /\ s \ {top[s]} \in SUBSET (1..n)
      BY <2>1, <2>4 DEF top, LastOf
    <3>2. it[s \ {top[s]}] \in Nat
      BY <3>1
    <3>3. it[s] = F[top[s]][it[s \ {top[s]}]]
      BY <2>3, <2>4 DEF FoldsBy
    <3>4. QED
      BY <3>1, <3>2, <3>3 DEF F
  <2>5. Eq(it)
    BY <1>1, <2>3, <2>4 DEF FoldsBy
  <2>6. QED
    BY <2>5
<1> HIDE DEF F, top
<1>6. Eq(It)
  BY <1>5
<1> HIDE DEF It
<1> DEFINE R == [k \in 0..n |-> It[1..k]]
<1>7. R[0] = 0
  BY <1>1, <1>6
<1>8. ASSUME NEW k \in 1..n PROVE R[k] = R[k - 1] + chunks[k]
  <2> HIDE DEF n
  <2>1. /\ 1..k \in SUBSET (1..n) /\ 1..k # {} /\ (1..k) \ {k} = 1..(k - 1)
        /\ k - 1 \in 0..n /\ k \in 0..n /\ k \in 1..k /\ \A m \in 1..k : m <= k
    BY <1>1, Segments
  <2>2. Final(1..k) \in 1..k /\ k <= Final(1..k)
    BY <1>3, <2>1
  <2>3. Final(1..k) = k
    BY <1>1, <2>2
  <2>4. It[1..k] = Step(1..k, It)
    BY <1>1, <1>6, <2>1
  <2>5. QED
    BY <2>1, <2>3, <2>4
<1>9. RP!Sum(chunks) = R[n]
  BY <1>1, <1>2
<1>10. QED
  BY <1>7, <1>8, <1>9

\* A body whose declared size is allowed, chunk by chunk.
LEMMA ReadingSteps ==
    ASSUME NEW chunks \in Seq(Nat), NEW limit \in Nat, NEW declared \in Int, declared <= limit
    PROVE  \E R : /\ R[0] = NoBody
                  /\ \A k \in 1..Len(chunks) : R[k] = Chunk(R[k - 1], chunks[k], limit)
                  /\ RP!ReadBody(chunks, declared, limit) = R[Len(chunks)]
<1> DEFINE n == Len(chunks)
           Final(s) == RP!Max(s)
           Step(s, it) == Chunk(it[s \ {Final(s)}], chunks[Final(s)], limit)
           Eq(it) == it = [s \in SUBSET (DOMAIN chunks) |-> IF s = {} THEN NoBody ELSE Step(s, it)]
           It == CHOOSE it : Eq(it)
           F == [i \in 1..n |-> [so \in Bodies |-> Chunk(so, chunks[i], limit)]]
           top == [s \in SUBSET (1..n) |-> Final(s)]
<1>1. n \in Nat /\ DOMAIN chunks = 1..n
  OBVIOUS
<1>2. RP!ReadBody(chunks, declared, limit) = It[DOMAIN chunks]
  BY DEF RP!ReadBody, RP!FoldLeft, RP!MapThenFoldSet, Chunk, NoBody
<1>3. \A s \in SUBSET (1..n) : s # {} => Final(s) \in s /\ \A m \in s : m <= Final(s)
  <2> SUFFICES ASSUME NEW s \in SUBSET (1..n), s # {} PROVE Final(s) \in s /\ \A m \in s : m <= Final(s)
    OBVIOUS
  <2> HIDE DEF n
  <2>1. \E x \in s : \A y \in s : x >= y
    BY <1>1, Greatest
  <2>2. QED
    BY <1>1, <2>1 DEF RP!Max
<1> HIDE DEF Final
<1>4. NoBody \in Bodies /\ F \in [1..n -> [Bodies -> Bodies]]
  <2>1. \A i \in 1..n : chunks[i] \in Nat
    OBVIOUS
  <2>2. \A so \in Bodies, e \in Nat : Chunk(so, e, limit) \in Bodies
    BY ChunkType
  <2>3. NoBody \in Bodies
    BY DEF NoBody, Bodies
  <2> HIDE DEF n
  <2>4. QED
    BY <2>1, <2>2, <2>3
<1>5. \E it : Eq(it)
  <2>1. LastOf(n, top)
    BY <1>3 DEF LastOf
  <2> HIDE DEF n, F, top
  <2>2. \E it \in [SUBSET (1..n) -> Bodies] : FoldsBy(n, NoBody, F, top, it)
    BY <1>1, <1>4, <2>1, Iterates
  <2>3. PICK it \in [SUBSET (1..n) -> Bodies] : FoldsBy(n, NoBody, F, top, it)
    BY <2>2
  <2>4. ASSUME NEW s \in SUBSET (1..n), s # {} PROVE it[s] = Step(s, it)
    <3>1. top[s] = Final(s) /\ top[s] \in 1..n /\ s \ {top[s]} \in SUBSET (1..n)
      BY <2>1, <2>4 DEF top, LastOf
    <3>2. it[s \ {top[s]}] \in Bodies
      BY <3>1
    <3>3. it[s] = F[top[s]][it[s \ {top[s]}]]
      BY <2>3, <2>4 DEF FoldsBy
    <3>4. QED
      BY <3>1, <3>2, <3>3 DEF F
  <2>5. Eq(it)
    BY <1>1, <2>3, <2>4 DEF FoldsBy
  <2>6. QED
    BY <2>5
<1> HIDE DEF F, top
<1>6. Eq(It)
  BY <1>5
<1> HIDE DEF It
<1> DEFINE R == [k \in 0..n |-> It[1..k]]
<1>7. R[0] = NoBody
  BY <1>1, <1>6
<1>8. ASSUME NEW k \in 1..n PROVE R[k] = Chunk(R[k - 1], chunks[k], limit)
  <2> HIDE DEF n
  <2>1. /\ 1..k \in SUBSET (1..n) /\ 1..k # {} /\ (1..k) \ {k} = 1..(k - 1)
        /\ k - 1 \in 0..n /\ k \in 0..n /\ k \in 1..k /\ \A m \in 1..k : m <= k
    BY <1>1, Segments
  <2>2. Final(1..k) \in 1..k /\ k <= Final(1..k)
    BY <1>3, <2>1
  <2>3. Final(1..k) = k
    BY <1>1, <2>2
  <2>4. It[1..k] = Step(1..k, It)
    BY <1>1, <1>6, <2>1
  <2>5. QED
    BY <2>1, <2>3, <2>4
<1>9. RP!ReadBody(chunks, declared, limit) = R[n]
  BY <1>1, <1>2
<1>10. QED
  BY <1>7, <1>8, <1>9

\* A chain of addresses, redirect by redirect.
LEMMA FollowingSteps ==
    ASSUME NEW chain \in Seq(Schemes), chain # <<>>
    PROVE  \E R : /\ R[0] = [ok |-> TRUE, made |-> <<chain[1]>>]
                  /\ \A k \in 1..Len(Tail(chain)) : R[k] = Hop(R[k - 1], Tail(chain)[k])
                  /\ RP!Requests(chain) = R[Len(Tail(chain))]
<1> DEFINE n == Len(Tail(chain))
           Final(s) == RP!Max(s)
           Step(s, it) == Hop(it[s \ {Final(s)}], Tail(chain)[Final(s)])
           Eq(it) == it = [s \in SUBSET (DOMAIN Tail(chain)) |-> IF s = {} THEN [ok |-> TRUE, made |-> <<chain[1]>>] ELSE Step(s, it)]
           It == CHOOSE it : Eq(it)
           F == [i \in 1..n |-> [so \in Journeys |-> Hop(so, Tail(chain)[i])]]
           top == [s \in SUBSET (1..n) |-> Final(s)]
<1>1. n \in Nat /\ DOMAIN Tail(chain) = 1..n
  OBVIOUS
<1>2. RP!Requests(chain) = It[DOMAIN Tail(chain)]
  BY DEF RP!Requests, RP!FoldLeft, RP!MapThenFoldSet, Hop
<1>3. \A s \in SUBSET (1..n) : s # {} => Final(s) \in s /\ \A m \in s : m <= Final(s)
  <2> SUFFICES ASSUME NEW s \in SUBSET (1..n), s # {} PROVE Final(s) \in s /\ \A m \in s : m <= Final(s)
    OBVIOUS
  <2> HIDE DEF n
  <2>1. \E x \in s : \A y \in s : x >= y
    BY <1>1, Greatest
  <2>2. QED
    BY <1>1, <2>1 DEF RP!Max
<1> HIDE DEF Final
<1>4. [ok |-> TRUE, made |-> <<chain[1]>>] \in Journeys /\ F \in [1..n -> [Journeys -> Journeys]]
  <2>1. \A i \in 1..n : Tail(chain)[i] \in Schemes
    OBVIOUS
  <2>2. \A so \in Journeys, e \in Schemes : Hop(so, e) \in Journeys
    BY HopType
  <2>3. [ok |-> TRUE, made |-> <<chain[1]>>] \in Journeys
    BY DEF Journeys
  <2> HIDE DEF n
  <2>4. QED
    BY <2>1, <2>2, <2>3
<1>5. \E it : Eq(it)
  <2>1. LastOf(n, top)
    BY <1>3 DEF LastOf
  <2> HIDE DEF n, F, top
  <2>2. \E it \in [SUBSET (1..n) -> Journeys] : FoldsBy(n, [ok |-> TRUE, made |-> <<chain[1]>>], F, top, it)
    BY <1>1, <1>4, <2>1, Iterates
  <2>3. PICK it \in [SUBSET (1..n) -> Journeys] : FoldsBy(n, [ok |-> TRUE, made |-> <<chain[1]>>], F, top, it)
    BY <2>2
  <2>4. ASSUME NEW s \in SUBSET (1..n), s # {} PROVE it[s] = Step(s, it)
    <3>1. top[s] = Final(s) /\ top[s] \in 1..n /\ s \ {top[s]} \in SUBSET (1..n)
      BY <2>1, <2>4 DEF top, LastOf
    <3>2. it[s \ {top[s]}] \in Journeys
      BY <3>1
    <3>3. it[s] = F[top[s]][it[s \ {top[s]}]]
      BY <2>3, <2>4 DEF FoldsBy
    <3>4. QED
      BY <3>1, <3>2, <3>3 DEF F
  <2>5. Eq(it)
    BY <1>1, <2>3, <2>4 DEF FoldsBy
  <2>6. QED
    BY <2>5
<1> HIDE DEF F, top
<1>6. Eq(It)
  BY <1>5
<1> HIDE DEF It
<1> DEFINE R == [k \in 0..n |-> It[1..k]]
<1>7. R[0] = [ok |-> TRUE, made |-> <<chain[1]>>]
  BY <1>1, <1>6
<1>8. ASSUME NEW k \in 1..n PROVE R[k] = Hop(R[k - 1], Tail(chain)[k])
  <2> HIDE DEF n
  <2>1. /\ 1..k \in SUBSET (1..n) /\ 1..k # {} /\ (1..k) \ {k} = 1..(k - 1)
        /\ k - 1 \in 0..n /\ k \in 0..n /\ k \in 1..k /\ \A m \in 1..k : m <= k
    BY <1>1, Segments
  <2>2. Final(1..k) \in 1..k /\ k <= Final(1..k)
    BY <1>3, <2>1
  <2>3. Final(1..k) = k
    BY <1>1, <2>2
  <2>4. It[1..k] = Step(1..k, It)
    BY <1>1, <1>6, <2>1
  <2>5. QED
    BY <2>1, <2>3, <2>4
<1>9. RP!Requests(chain) = R[n]
  BY <1>1, <1>2
<1>10. QED
  BY <1>7, <1>8, <1>9

\* However a server cuts up its reply and whatever it declares: at most the
\* limit is kept, a reply within it whole (network.rs, read_body).
THEOREM Replying ==
    ASSUME NEW chunks \in Seq(Nat), NEW declared \in Int, NEW limit \in Nat
    PROVE  RP!Bounded(chunks, declared, limit)
<1> DEFINE n == Len(chunks)
<1>0. n \in Nat /\ \A k \in 1..n : chunks[k] \in Nat
  OBVIOUS
<1>1. PICK S : /\ S[0] = 0 /\ \A k \in 1..n : S[k] = S[k - 1] + chunks[k]
               /\ RP!Sum(chunks) = S[n]
  BY SummingSteps
<1>2. CASE declared > limit
  <2>1. RP!ReadBody(chunks, declared, limit) = [ok |-> FALSE, kept |-> 0]
    BY <1>2 DEF RP!ReadBody
  <2>2. QED
    BY <1>2, <2>1 DEF RP!Bounded
<1>3. CASE declared <= limit
  <2>1. PICK R : /\ R[0] = NoBody /\ \A k \in 1..n : R[k] = Chunk(R[k - 1], chunks[k], limit)
                 /\ RP!ReadBody(chunks, declared, limit) = R[n]
    BY <1>3, ReadingSteps
  <2> DEFINE Right(k) == /\ R[k] \in Bodies /\ S[k] \in Nat /\ R[k].kept <= limit
                         /\ R[k].ok <=> (S[k] <= limit)
                         /\ R[k].ok => R[k].kept = S[k]
             Good == {k \in 0..n : Right(k)}
  <2> HIDE DEF n
  <2>2. 0 \in Good
    <3>1. R[0] \in Bodies /\ R[0].kept = 0 /\ R[0].ok /\ S[0] = 0
      BY <1>1, <2>1 DEF NoBody, Bodies
    <3>2. Right(0)
      BY <3>1
    <3>3. 0 \in 0..n
      BY <1>0
    <3> HIDE DEF Right
    <3>4. QED
      BY <3>2, <3>3
  <2>3. ASSUME NEW k \in 1..n, k - 1 \in Good PROVE k \in Good
    <3>1. PICK chunk \in Nat : chunk = chunks[k]
      BY <1>0
    <3>2. PICK so \in Bodies : so = R[k - 1] /\ so.kept <= limit
      BY <2>3
    <3>3. PICK sum \in Nat : sum = S[k - 1] /\ (so.ok <=> (sum <= limit)) /\ (so.ok => so.kept = sum)
      BY <2>3, <3>2
    <3>4. S[k] = sum + chunk /\ R[k] = Chunk(so, chunk, limit) /\ R[k] \in Bodies
      BY <1>1, <2>1, <3>1, <3>2, <3>3, ChunkType
    <3>5. CASE so.ok /\ ~(chunk > limit - so.kept)
      <4>1. R[k] = [so EXCEPT !.kept = @ + chunk]
        BY <3>4, <3>5 DEF Chunk
      <4>2. R[k].kept = so.kept + chunk /\ R[k].ok
        BY <3>5, <4>1 DEF Bodies
      <4>3. Right(k)
        BY <3>3, <3>4, <3>5, <4>2 DEF Bodies
      <4>4. QED
        BY <1>0, <4>3
    <3>6. CASE ~so.ok \/ chunk > limit - so.kept
      <4>1. R[k] = [so EXCEPT !.ok = FALSE]
        BY <3>4, <3>6 DEF Chunk
      <4>2. R[k].kept = so.kept /\ ~R[k].ok
        BY <4>1 DEF Bodies
      <4>3. ~(S[k] <= limit)
        BY <3>3, <3>4, <3>6 DEF Bodies
      <4>4. Right(k)
        BY <3>2, <3>3, <3>4, <4>2, <4>3
      <4>5. QED
        BY <1>0, <4>4
    <3>7. QED
      BY <3>5, <3>6
  <2>4. Good \in SUBSET (0..n)
    OBVIOUS
  <2>5. \A k \in 1..n : k - 1 \in Good => k \in Good
    BY <2>3
  <2> HIDE DEF Good
  <2>6. Good = 0..n
    BY <1>0, <2>2, <2>4, <2>5, Climb
  <2>7. Right(n)
    BY <1>0, <2>6 DEF Good
  <2>8. QED
    BY <1>1, <1>3, <2>1, <2>7 DEF RP!Bounded
<1>4. declared > limit \/ declared <= limit
  OBVIOUS
<1>5. QED
  BY <1>2, <1>3, <1>4

\* No request of a chain is in the clear after an encrypted one, and a chain
\* is followed to its end exactly when it does not ask for that and is no
\* longer than the limit (network.rs, redirect_policy).
THEOREM Following ==
    ASSUME MaxRedirects \in Nat, NEW chain \in Seq(Schemes), chain # <<>>
    PROVE  RP!Followed(chain)
<1> DEFINE n == Len(Tail(chain))
           Base == [ok |-> TRUE, made |-> <<chain[1]>>]
<1>0. n \in Nat /\ Len(chain) = n + 1 /\ \A k \in 1..n : Tail(chain)[k] = chain[k + 1]
  OBVIOUS
<1>1. PICK R : /\ R[0] = Base /\ \A k \in 1..n : R[k] = Hop(R[k - 1], Tail(chain)[k])
               /\ RP!Requests(chain) = R[n]
  BY FollowingSteps
<1> DEFINE Sunk(k) == \E i, j \in 1..(k + 1) : i < j /\ chain[i] = "https" /\ chain[j] # "https"
           Right(k) == /\ R[k] \in Journeys /\ Len(R[k].made) \in 1..(MaxRedirects + 1)
                       /\ ~RP!Downgraded(R[k].made)
                       /\ R[k].ok <=> (~Sunk(k) /\ k <= MaxRedirects)
                       /\ R[k].ok => R[k].made = SubSeq(chain, 1, k + 1)
           Good == {k \in 0..n : Right(k)}
<1> HIDE DEF n
<1>2. 0 \in Good
  <2>1. Base \in Journeys /\ Len(Base.made) = 1 /\ Base.made = SubSeq(chain, 1, 1) /\ DOMAIN Base.made = 1..1
    BY DEF Journeys
  <2>2. ~RP!Downgraded(Base.made) /\ ~Sunk(0)
    BY <2>1 DEF RP!Downgraded
  <2>3. R[0] = Base /\ Base.ok
    BY <1>1
  <2> HIDE DEF Base
  <2>4. Right(0)
    <3>1. 1 \in 1..(MaxRedirects + 1) /\ 0 <= MaxRedirects /\ 0 + 1 = 1
      OBVIOUS
    <3>2. R[0] \in Journeys /\ Len(R[0].made) = 1 /\ R[0].made = SubSeq(chain, 1, 1) /\ R[0].ok
      BY <2>1, <2>3
    <3>3. ~RP!Downgraded(R[0].made)
      BY <2>2, <2>3
    <3>4. QED
      BY <2>2, <3>1, <3>2, <3>3
  <2>5. 0 \in 0..n
    BY <1>0
  <2> HIDE DEF Right
  <2>6. QED
    BY <2>4, <2>5
<1>3. ASSUME NEW k \in 1..n, k - 1 \in Good PROVE k \in Good
  <2>1. PICK next \in Schemes : next = Tail(chain)[k] /\ next = chain[k + 1]
    BY <1>0
  <2>2. PICK so \in Journeys : so = R[k - 1] /\ Len(so.made) \in 1..(MaxRedirects + 1) /\ ~RP!Downgraded(so.made)
    BY <1>3
  <2>3. /\ so.ok <=> (~Sunk(k - 1) /\ k - 1 <= MaxRedirects)
        /\ so.ok => so.made = SubSeq(chain, 1, k)
    BY <1>3, <2>2
  <2>4. R[k] = Hop(so, next) /\ R[k] \in Journeys /\ so.made \in Seq(Schemes)
    BY <1>1, <2>1, <2>2, HopType DEF Journeys
  <2>5. Sunk(k) <=> (Sunk(k - 1) \/ (next # "https" /\ \E i \in 1..k : chain[i] = "https"))
    <3>1. \A j \in 1..(k + 1) : j \in 1..((k - 1) + 1) \/ j = k + 1
      BY <1>0
    <3>2. 1..((k - 1) + 1) = 1..k /\ k + 1 \in 1..(k + 1) /\ 1..k \subseteq 1..(k + 1)
      BY <1>0
    <3>3. \A i \in 1..k : i < k + 1
      BY <1>0
    <3>4. QED
      BY <1>0, <2>1, <3>1, <3>2, <3>3
  <2>6. CASE so.ok
    <3>1. so.made = SubSeq(chain, 1, k) /\ Len(so.made) = k /\ DOMAIN so.made = 1..k
          /\ \A i \in 1..k : so.made[i] = chain[i]
      BY <1>0, <2>3, <2>6
    <3>2. RP!MayFollow(next, so.made) <=>
             k <= MaxRedirects /\ ~(next # "https" /\ \E i \in 1..k : chain[i] = "https")
      BY <3>1 DEF RP!MayFollow, RP!IsSchemeDowngrade
    <3>3. CASE RP!MayFollow(next, so.made)
      <4>1. R[k] = [so EXCEPT !.made = Append(@, next)]
        BY <2>4, <2>6, <3>3 DEF Hop
      <4>2. R[k].ok /\ R[k].made = Append(so.made, next)
        BY <2>6, <4>1 DEF Journeys
      <4>3. ~Sunk(k) /\ k <= MaxRedirects
        BY <2>3, <2>5, <2>6, <3>2, <3>3
      <4>4. Append(so.made, next) = SubSeq(chain, 1, k + 1)
        BY <1>0, <2>1, <3>1
      <4>5. ~RP!Downgraded(SubSeq(chain, 1, k + 1))
        BY <1>0, <4>3 DEF RP!Downgraded
      <4>6. Len(R[k].made) \in 1..(MaxRedirects + 1)
        BY <1>0, <3>1, <4>2, <4>3, <2>4
      <4>7. R[k].made = SubSeq(chain, 1, k + 1) /\ ~RP!Downgraded(R[k].made)
        BY <4>2, <4>4, <4>5
      <4>8. Right(k)
        BY <2>4, <4>2, <4>3, <4>6, <4>7
      <4>9. QED
        BY <1>0, <4>8
    <3>4. CASE ~RP!MayFollow(next, so.made)
      <4>1. R[k] = [so EXCEPT !.ok = FALSE]
        BY <2>4, <3>4 DEF Hop
      <4>2. ~R[k].ok /\ R[k].made = so.made
        BY <4>1 DEF Journeys
      <4>3. Sunk(k) \/ ~(k <= MaxRedirects)
        BY <2>5, <3>2, <3>4
      <4>4. QED
        BY <1>0, <2>2, <2>4, <4>2, <4>3
    <3>5. QED
      BY <3>3, <3>4
  <2>7. CASE ~so.ok
    <3>1. R[k] = [so EXCEPT !.ok = FALSE]
      BY <2>4, <2>7 DEF Hop
    <3>2. ~R[k].ok /\ R[k].made = so.made
      BY <3>1 DEF Journeys
    <3>3. Sunk(k) \/ ~(k <= MaxRedirects)
      BY <2>3, <2>5, <2>7
    <3>4. QED
      BY <1>0, <2>2, <2>4, <3>2, <3>3
  <2>8. QED
    BY <2>6, <2>7
<1>4. Good \in SUBSET (0..n)
  OBVIOUS
<1>5. \A k \in 1..n : k - 1 \in Good => k \in Good
  BY <1>3
<1> HIDE DEF Good
<1>6. Good = 0..n
  BY <1>0, <1>2, <1>4, <1>5, Climb
<1>7. Right(n)
  <2>1. n \in Good
    BY <1>0, <1>6
  <2> HIDE DEF Right
  <2>2. QED
    BY <2>1 DEF Good
<1>8. Sunk(n) <=> RP!Downgraded(chain)
  BY <1>0 DEF RP!Downgraded
<1>9. SubSeq(chain, 1, n + 1) = chain
  BY <1>0
<1>10. QED
  BY <1>0, <1>1, <1>7, <1>8, <1>9 DEF RP!Followed
-----------------------------------------------------------------------------
(* Archives.  An extraction is a fold over the entries; what it keeps of the *)
(* tree is kept by every entry.                                             *)

AR == INSTANCE Archive

\* What a name is made of, and what of it a path can have.
Of(name) == {name[i] : i \in DOMAIN name}
Solid(name) == Seq(Of(name) \ {AR!Empty})

Component(so, c) == IF c = AR!Empty THEN so ELSE Append(so, c)

LEMMA ComponentType ==
    ASSUME NEW name, NEW so \in Solid(name), NEW c \in Of(name)
    PROVE  Component(so, c) \in Solid(name)
<1> DEFINE S == Of(name) \ {AR!Empty}
<1>1. c # AR!Empty => c \in S
  OBVIOUS
<1> HIDE DEF S
<1>2. so \in Seq(S)
  BY DEF S, Solid
<1>3. c # AR!Empty => Append(so, c) \in Seq(S)
  BY <1>1, <1>2
<1>4. QED
  BY <1>2, <1>3 DEF S, Solid, Component

\* A path has no empty component, and none its name has not.
LEMMA PathType ==
    ASSUME NEW C, NEW name \in Seq(C)
    PROVE  AR!Path(name) \in Solid(name)
<1> DEFINE n == Len(name)
           Final(s) == AR!Max(s)
           Step(s, it) == Component(it[s \ {Final(s)}], name[Final(s)])
           Eq(it) == it = [s \in SUBSET (DOMAIN name) |-> IF s = {} THEN <<>> ELSE Step(s, it)]
           It == CHOOSE it : Eq(it)
           F == [i \in 1..n |-> [so \in Solid(name) |-> Component(so, name[i])]]
           top == [s \in SUBSET (1..n) |-> Final(s)]
<1>1. n \in Nat /\ DOMAIN name = 1..n
  OBVIOUS
<1>2. \A i \in 1..n : name[i] \in Of(name)
  BY DEF Of
<1>3. \A so \in Solid(name), e \in Of(name) : Component(so, e) \in Solid(name)
  BY ComponentType
<1>4. AR!Path(name) = It[DOMAIN name]
  BY DEF AR!Path, AR!FoldLeft, AR!MapThenFoldSet, Component
<1>5. \A s \in SUBSET (1..n) : s # {} => Final(s) \in s /\ \A m \in s : m <= Final(s)
  <2> SUFFICES ASSUME NEW s \in SUBSET (1..n), s # {} PROVE Final(s) \in s /\ \A m \in s : m <= Final(s)
    OBVIOUS
  <2> HIDE DEF n
  <2>1. \E x \in s : \A y \in s : x >= y
    BY <1>1, Greatest
  <2>2. QED
    BY <1>1, <2>1 DEF AR!Max
<1> HIDE DEF Final
<1>6. <<>> \in Solid(name) /\ F \in [1..n -> [Solid(name) -> Solid(name)]]
  <2>1. \A i \in 1..n : name[i] \in Of(name)
    BY DEF Of
  <2>2. \A so \in Solid(name), e \in Of(name) : Component(so, e) \in Solid(name)
    BY ComponentType
  <2>3. <<>> \in Solid(name)
    BY DEF Solid
  <2> HIDE DEF n
  <2>4. QED
    BY <2>1, <2>2, <2>3
<1>7. \E it : Eq(it)
  <2>1. LastOf(n, top)
    BY <1>5 DEF LastOf
  <2> HIDE DEF n, F, top
  <2>2. \E it \in [SUBSET (1..n) -> Solid(name)] : FoldsBy(n, <<>>, F, top, it)
    BY <1>1, <1>6, <2>1, Iterates
  <2>3. PICK it \in [SUBSET (1..n) -> Solid(name)] : FoldsBy(n, <<>>, F, top, it)
    BY <2>2
  <2>4. ASSUME NEW s \in SUBSET (1..n), s # {} PROVE it[s] = Step(s, it)
    <3>1. top[s] = Final(s) /\ top[s] \in 1..n /\ s \ {top[s]} \in SUBSET (1..n)
      BY <2>1, <2>4 DEF top, LastOf
    <3>2. it[s \ {top[s]}] \in Solid(name)
      BY <3>1
    <3>3. it[s] = F[top[s]][it[s \ {top[s]}]]
      BY <2>3, <2>4 DEF FoldsBy
    <3>4. QED
      BY <3>1, <3>2, <3>3 DEF F
  <2>5. Eq(it)
    BY <1>1, <2>3, <2>4 DEF FoldsBy
  <2>6. QED
    BY <2>5
<1> HIDE DEF F, top
<1>8. Eq(It)
  BY <1>7
<1> HIDE DEF It
<1> DEFINE R == [k \in 0..n |-> It[1..k]]
<1>9. R[0] = <<>>
  BY <1>1, <1>8
<1>10. ASSUME NEW k \in 1..n PROVE R[k] = Component(R[k - 1], name[k])
  <2> HIDE DEF n
  <2>1. /\ 1..k \in SUBSET (1..n) /\ 1..k # {} /\ (1..k) \ {k} = 1..(k - 1)
        /\ k - 1 \in 0..n /\ k \in 0..n /\ k \in 1..k /\ \A m \in 1..k : m <= k
    BY <1>1, Segments
  <2>2. Final(1..k) \in 1..k /\ k <= Final(1..k)
    BY <1>5, <2>1
  <2>3. Final(1..k) = k
    BY <1>1, <2>2
  <2>4. It[1..k] = Step(1..k, It)
    BY <1>1, <1>8, <2>1
  <2>5. QED
    BY <2>1, <2>3, <2>4
<1>11. AR!Path(name) = R[n]
  BY <1>1, <1>4
<1> DEFINE Good == {k \in 0..n : R[k] \in Solid(name)}
<1> HIDE DEF n, R
<1>12. 0 \in Good
  BY <1>1, <1>6, <1>9
<1>13. ASSUME NEW k \in 1..n, k - 1 \in Good PROVE k \in Good
  <2>1. R[k - 1] \in Solid(name) /\ name[k] \in Of(name) /\ k \in 0..n
    BY <1>1, <1>13, <1>2
  <2>2. QED
    BY <1>10, <1>3, <2>1
<1>14. Good \in SUBSET (0..n)
  OBVIOUS
<1>15. \A k \in 1..n : k - 1 \in Good => k \in Good
  BY <1>13
<1> HIDE DEF Good
<1>16. Good = 0..n
  BY <1>1, <1>12, <1>14, <1>15, Climb
<1>17. n \in Good
  BY <1>1, <1>16
<1>18. QED
  BY <1>11, <1>17 DEF Good

\* Archives over any set of components, and what an extraction has written.
Members(C) == [name : Seq(C) \ {<<>>}, size : Nat]
Nodes(C) == [kind : {"dir", "file"}, from : Seq(C)]
Trees(C) == UNION {[D -> Nodes(C)] : D \in SUBSET Seq(C)}
Results(C, budget) == [ok : BOOLEAN, tree : Trees(C), left : 0..budget]
Landings(C, budget) == {so \in Results(C, budget) : AR!Inside(so.tree) /\ AR!Nested(so.tree)}

Clean(path) == /\ path # <<>> /\ path[1] # AR!Drive
               /\ AR!ToSet(path) \cap {AR!Parent, AR!Empty} = {}

Grown(tree, path, node) == [q \in DOMAIN tree \cup {path} |-> IF q = path THEN node ELSE tree[q]]

LEMMA TreeGrows ==
    ASSUME NEW C, NEW tree \in Trees(C), NEW path \in Seq(C), NEW node \in Nodes(C)
    PROVE  Grown(tree, path, node) \in Trees(C)
<1>1. PICK D \in SUBSET Seq(C) : tree \in [D -> Nodes(C)]
  BY DEF Trees
<1>2. Grown(tree, path, node) \in [D \cup {path} -> Nodes(C)] /\ DOMAIN tree = D
  BY <1>1 DEF Grown
<1>3. D \cup {path} \in SUBSET Seq(C)
  OBVIOUS
<1>4. QED
  BY <1>1, <1>2, <1>3 DEF Trees

\* What is written at a clean path leaves every path inside, and files with
\* nothing below them.
LEMMA WrittenLands ==
    ASSUME NEW C, NEW budget \in Nat, NEW so \in Landings(C, budget), NEW entry \in Members(C),
           NEW path \in Seq(C), Clean(path)
    PROVE  AR!Written(so, entry, path) \in Landings(C, budget)
<1> DEFINE kind == IF AR!IsDirectory(entry.name) THEN "dir" ELSE "file"
           node == [kind |-> kind, from |-> entry.name]
           IsDir(q) == q \in DOMAIN so.tree => so.tree[q].kind = "dir"
           clash == \/ \E q \in DOMAIN so.tree : AR!IsStrictPrefix(q, path) /\ ~IsDir(q)
                    \/ kind = "dir" /\ ~IsDir(path)
                    \/ kind = "file" /\ AR!Under(so.tree, path) \ {path} # {}
                    \/ kind = "file" /\ path \in DOMAIN so.tree /\ IsDir(path)
           next == [q \in DOMAIN so.tree \cup {path} |-> IF q = path THEN node ELSE so.tree[q]]
           room == IF kind = "file" THEN so.left - entry.size ELSE so.left
<1>1. so \in Results(C, budget) /\ AR!Inside(so.tree) /\ AR!Nested(so.tree)
  BY DEF Landings
<1>2. kind \in {"dir", "file"} /\ node \in Nodes(C) /\ node.kind = kind
  BY DEF Members, Nodes
<1>3. CASE clash \/ (kind = "file" /\ entry.size > so.left)
  <2>1. AR!Written(so, entry, path) = [so EXCEPT !.ok = FALSE]
    BY <1>3 DEF AR!Written
  <2>2. [so EXCEPT !.ok = FALSE] \in Results(C, budget) /\ [so EXCEPT !.ok = FALSE].tree = so.tree
    BY <1>1 DEF Results
  <2>3. QED
    BY <1>1, <2>1, <2>2 DEF Landings
<1>4. CASE ~clash /\ ~(kind = "file" /\ entry.size > so.left)
  <2>1. AR!Written(so, entry, path) = [so EXCEPT !.tree = next, !.left = room]
    BY <1>4 DEF AR!Written
  <2>2. so.tree \in Trees(C) /\ so.left \in 0..budget /\ entry.size \in Nat
    BY <1>1 DEF Results, Members
  <2>3. room \in 0..budget
    BY <1>2, <1>4, <2>2
  <2>4. next \in Trees(C) /\ DOMAIN next = DOMAIN so.tree \cup {path}
    <3>1. next = Grown(so.tree, path, node)
      BY DEF Grown
    <3>2. DOMAIN next = DOMAIN so.tree \cup {path}
      OBVIOUS
    <3> HIDE DEF next, node
    <3>3. QED
      BY <1>2, <2>2, <3>1, <3>2, TreeGrows
  <2>5. AR!Inside(next)
    BY <1>1, <2>4 DEF AR!Inside, Clean
  <2>6. ASSUME NEW p \in DOMAIN next, NEW q \in DOMAIN next, AR!IsStrictPrefix(p, q)
        PROVE  next[p].kind = "dir"
    <3>1. p # q
      BY <2>6 DEF AR!IsStrictPrefix
    <3>2. CASE p # path /\ q # path
      BY <1>1, <2>4, <2>6, <3>2 DEF AR!Nested
    <3>3. CASE q = path
      BY <1>4, <2>4, <2>6, <3>1, <3>3
    <3>4. CASE p = path
      <4>1. q \in AR!Under(so.tree, path) \ {path}
        BY <2>4, <2>6, <3>1, <3>4 DEF AR!Under, AR!IsStrictPrefix
      <4>2. kind = "dir"
        BY <1>2, <1>4, <4>1
      <4>3. QED
        BY <1>2, <2>4, <3>4, <4>2
    <3>5. QED
      BY <3>2, <3>3, <3>4
  <2>7. AR!Nested(next)
    BY <2>6 DEF AR!Nested
  <2> HIDE DEF next, room
  <2>8. [so EXCEPT !.tree = next, !.left = room] \in Results(C, budget)
        /\ [so EXCEPT !.tree = next, !.left = room].tree = next
    BY <1>1, <2>3, <2>4 DEF Results
  <2>9. QED
    BY <2>1, <2>5, <2>7, <2>8 DEF Landings
<1>5. QED
  BY <1>3, <1>4

LEMMA StrippedType ==
    ASSUME NEW C, NEW name \in Seq(C), NEW prefix \in Seq(C)
    PROVE  AR!Stripped(name, prefix) \in Seq(C) /\ Of(AR!Stripped(name, prefix)) \subseteq Of(name)
<1>1. CASE AR!Stripped(name, prefix) = name
  BY <1>1
<1>2. CASE AR!Stripped(name, prefix) = SubSeq(name, Len(prefix) + 1, Len(name))
  BY <1>2 DEF Of
<1>3. QED
  BY <1>1, <1>2 DEF AR!Stripped

\* An entry that is not skipped has a clean path, whatever prefix is taken off.
LEMMA NotSkipped ==
    ASSUME NEW C, NEW name \in Seq(C), NEW prefix \in Seq(C), ~AR!Skipped(name, prefix)
    PROVE  /\ AR!Path(AR!Stripped(name, prefix)) \in Seq(C)
           /\ Clean(AR!Path(AR!Stripped(name, prefix)))
<1>1. PICK bare \in Seq(C) : bare = AR!Stripped(name, prefix) /\ Of(bare) \subseteq Of(name)
  BY StrippedType
<1>2. PICK path : path = AR!Path(bare) /\ path \in Solid(bare)
  BY PathType
<1>3. Of(bare) \subseteq C /\ AR!Parent \notin Of(name)
  <2>1. AR!Parent \notin Of(name)
    BY DEF Of, AR!Skipped, AR!ToSet
  <2>2. QED
    BY <2>1 DEF Of
<1>4. path \in Seq(C) /\ AR!ToSet(path) \subseteq Of(bare) \ {AR!Empty}
  <2>1. PICK S : S = Of(bare) \ {AR!Empty}
    OBVIOUS
  <2>2. path \in Seq(S) /\ S \subseteq C
    BY <1>2, <1>3, <2>1 DEF Solid
  <2>3. path \in Seq(C) /\ AR!ToSet(path) \subseteq S
    BY <2>2 DEF AR!ToSet
  <2>4. QED
    BY <2>1, <2>3
<1>5. path # <<>> /\ path[1] # AR!Drive
  BY <1>1, <1>2 DEF AR!Skipped
<1>6. QED
  BY <1>1, <1>2, <1>3, <1>4, <1>5 DEF Clean

LEMMA PrefixType ==
    ASSUME NEW C, NEW entries \in Seq(Members(C))
    PROVE  /\ AR!CommonTopDir(AR!Names(entries)) \in Seq(C)
           /\ AR!ExtensionPrefix(AR!Names(entries)) \in Seq(C)
<1>1. DOMAIN AR!Names(entries) = 1..Len(entries)
  BY DEF AR!Names
<1>2. \A i \in 1..Len(entries) : AR!Names(entries)[i] \in Seq(C) \ {<<>>}
  <2> TAKE i \in 1..Len(entries)
  <2>1. entries[i] \in Members(C)
    OBVIOUS
  <2>2. entries[i].name \in Seq(C) \ {<<>>}
    BY <2>1 DEF Members
  <2>3. QED
    BY <2>2 DEF AR!Names
<1>3. CASE entries = <<>>
  <2>1. AR!Names(entries) = <<>>
    BY <1>3 DEF AR!Names
  <2>2. QED
    BY <2>1 DEF AR!CommonTopDir, AR!ExtensionPrefix
<1>4. CASE entries # <<>>
  <2>1. AR!Names(entries)[1] \in Seq(C) \ {<<>>}
    BY <1>2, <1>4
  <2>2. AR!Names(entries)[1][1] \in C
    BY <2>1
  <2>3. AR!CommonTopDir(AR!Names(entries)) \in {<<>>, <<AR!Names(entries)[1][1]>>}
    BY DEF AR!CommonTopDir
  <2>4. <<>> \in Seq(C) /\ <<AR!Names(entries)[1][1]>> \in Seq(C)
    BY <2>2
  <2>5. QED
    BY <2>3, <2>4 DEF AR!ExtensionPrefix
<1>5. QED
  BY <1>3, <1>4

\* One entry of an archive of either kind.
Taken(so, entry, prefix) ==
    IF ~so.ok \/ AR!Skipped(entry.name, prefix) THEN so
    ELSE AR!Written(so, entry, AR!Path(AR!Stripped(entry.name, prefix)))

TakenRooted(so, entry, prefix) ==
    IF ~so.ok \/ (AR!Skipped(entry.name, prefix) \/ AR!Stripped(entry.name, prefix)[1] = AR!Empty) THEN so
    ELSE AR!Written(so, entry, AR!Path(AR!Stripped(entry.name, prefix)))

LEMMA TakenLands ==
    ASSUME NEW C, NEW budget \in Nat, NEW prefix \in Seq(C), NEW so \in Landings(C, budget), NEW entry \in Members(C)
    PROVE  /\ Taken(so, entry, prefix) \in Landings(C, budget)
           /\ TakenRooted(so, entry, prefix) \in Landings(C, budget)
<1>1. entry.name \in Seq(C)
  BY DEF Members
<1>2. CASE AR!Skipped(entry.name, prefix)
  BY <1>2 DEF Taken, TakenRooted
<1>3. CASE ~AR!Skipped(entry.name, prefix)
  <2>1. AR!Written(so, entry, AR!Path(AR!Stripped(entry.name, prefix))) \in Landings(C, budget)
    BY <1>1, <1>3, NotSkipped, WrittenLands
  <2>2. QED
    BY <2>1 DEF Taken, TakenRooted
<1>4. QED
  BY <1>2, <1>3

Untouched(budget) == [ok |-> TRUE, tree |-> <<>>, left |-> budget]

LEMMA UntouchedLands == ASSUME NEW C, NEW budget \in Nat PROVE Untouched(budget) \in Landings(C, budget)
<1>1. DOMAIN <<>> = {} /\ <<>> \in [{} -> Nodes(C)]
  OBVIOUS
<1>2. {} \in SUBSET Seq(C)
  OBVIOUS
<1>3. <<>> \in Trees(C)
  BY <1>1, <1>2 DEF Trees
<1>4. Untouched(budget) \in Results(C, budget) /\ Untouched(budget).tree = <<>>
  BY <1>3 DEF Untouched, Results
<1>5. AR!Inside(<<>>) /\ AR!Nested(<<>>)
  BY <1>1 DEF AR!Inside, AR!Nested
<1>6. QED
  BY <1>4, <1>5 DEF Landings

\* Extraction of a package.
LEMMA ZipLands ==
    ASSUME NEW C, NEW entries \in Seq(Members(C)), NEW budget \in Nat
    PROVE  AR!ExtractZip(entries, budget) \in Landings(C, budget)
<1> DEFINE n == Len(entries)
           Final(s) == AR!Max(s)
           Step(s, it) == Taken(it[s \ {Final(s)}], entries[Final(s)], AR!CommonTopDir(AR!Names(entries)))
           Eq(it) == it = [s \in SUBSET (DOMAIN entries) |-> IF s = {} THEN Untouched(budget) ELSE Step(s, it)]
           It == CHOOSE it : Eq(it)
           F == [i \in 1..n |-> [so \in Landings(C, budget) |-> Taken(so, entries[i], AR!CommonTopDir(AR!Names(entries)))]]
           top == [s \in SUBSET (1..n) |-> Final(s)]
<1>1. n \in Nat /\ DOMAIN entries = 1..n
  OBVIOUS
<1>2. \A i \in 1..n : entries[i] \in Members(C)
  OBVIOUS
<1>3. \A so \in Landings(C, budget), e \in Members(C) : Taken(so, e, AR!CommonTopDir(AR!Names(entries))) \in Landings(C, budget)
  BY PrefixType, TakenLands
<1>4. AR!ExtractZip(entries, budget) = It[DOMAIN entries]
  BY DEF AR!ExtractZip, AR!Extract, AR!FoldLeft, AR!MapThenFoldSet, Untouched, Taken
<1>5. \A s \in SUBSET (1..n) : s # {} => Final(s) \in s /\ \A m \in s : m <= Final(s)
  <2> SUFFICES ASSUME NEW s \in SUBSET (1..n), s # {} PROVE Final(s) \in s /\ \A m \in s : m <= Final(s)
    OBVIOUS
  <2> HIDE DEF n
  <2>1. \E x \in s : \A y \in s : x >= y
    BY <1>1, Greatest
  <2>2. QED
    BY <1>1, <2>1 DEF AR!Max
<1> HIDE DEF Final
<1>6. Untouched(budget) \in Landings(C, budget) /\ F \in [1..n -> [Landings(C, budget) -> Landings(C, budget)]]
  <2>1. \A i \in 1..n : entries[i] \in Members(C)
    OBVIOUS
  <2>2. \A so \in Landings(C, budget), e \in Members(C) : Taken(so, e, AR!CommonTopDir(AR!Names(entries))) \in Landings(C, budget)
    BY PrefixType, TakenLands
  <2>3. Untouched(budget) \in Landings(C, budget)
    BY UntouchedLands
  <2> HIDE DEF n
  <2>4. QED
    BY <2>1, <2>2, <2>3
<1>7. \E it : Eq(it)
  <2>1. LastOf(n, top)
    BY <1>5 DEF LastOf
  <2> HIDE DEF n, F, top
  <2>2. \E it \in [SUBSET (1..n) -> Landings(C, budget)] : FoldsBy(n, Untouched(budget), F, top, it)
    BY <1>1, <1>6, <2>1, Iterates
  <2>3. PICK it \in [SUBSET (1..n) -> Landings(C, budget)] : FoldsBy(n, Untouched(budget), F, top, it)
    BY <2>2
  <2>4. ASSUME NEW s \in SUBSET (1..n), s # {} PROVE it[s] = Step(s, it)
    <3>1. top[s] = Final(s) /\ top[s] \in 1..n /\ s \ {top[s]} \in SUBSET (1..n)
      BY <2>1, <2>4 DEF top, LastOf
    <3>2. it[s \ {top[s]}] \in Landings(C, budget)
      BY <3>1
    <3>3. it[s] = F[top[s]][it[s \ {top[s]}]]
      BY <2>3, <2>4 DEF FoldsBy
    <3>4. QED
      BY <3>1, <3>2, <3>3 DEF F
  <2>5. Eq(it)
    BY <1>1, <2>3, <2>4 DEF FoldsBy
  <2>6. QED
    BY <2>5
<1> HIDE DEF F, top
<1>8. Eq(It)
  BY <1>7
<1> HIDE DEF It
<1> DEFINE R == [k \in 0..n |-> It[1..k]]
<1>9. R[0] = Untouched(budget)
  BY <1>1, <1>8
<1>10. ASSUME NEW k \in 1..n PROVE R[k] = Taken(R[k - 1], entries[k], AR!CommonTopDir(AR!Names(entries)))
  <2> HIDE DEF n
  <2>1. /\ 1..k \in SUBSET (1..n) /\ 1..k # {} /\ (1..k) \ {k} = 1..(k - 1)
        /\ k - 1 \in 0..n /\ k \in 0..n /\ k \in 1..k /\ \A m \in 1..k : m <= k
    BY <1>1, Segments
  <2>2. Final(1..k) \in 1..k /\ k <= Final(1..k)
    BY <1>5, <2>1
  <2>3. Final(1..k) = k
    BY <1>1, <2>2
  <2>4. It[1..k] = Step(1..k, It)
    BY <1>1, <1>8, <2>1
  <2>5. QED
    BY <2>1, <2>3, <2>4
<1>11. AR!ExtractZip(entries, budget) = R[n]
  BY <1>1, <1>4
<1> DEFINE Good == {k \in 0..n : R[k] \in Landings(C, budget)}
<1> HIDE DEF n, R
<1>12. 0 \in Good
  BY <1>1, <1>6, <1>9
<1>13. ASSUME NEW k \in 1..n, k - 1 \in Good PROVE k \in Good
  <2>1. R[k - 1] \in Landings(C, budget) /\ entries[k] \in Members(C) /\ k \in 0..n
    BY <1>1, <1>13, <1>2
  <2>2. QED
    BY <1>10, <1>3, <2>1
<1>14. Good \in SUBSET (0..n)
  OBVIOUS
<1>15. \A k \in 1..n : k - 1 \in Good => k \in Good
  BY <1>13
<1> HIDE DEF Good
<1>16. Good = 0..n
  BY <1>1, <1>12, <1>14, <1>15, Climb
<1>17. n \in Good
  BY <1>1, <1>16
<1>18. QED
  BY <1>11, <1>17 DEF Good

\* Extraction of the extension.
LEMMA ExtensionLands ==
    ASSUME NEW C, NEW entries \in Seq(Members(C)), NEW budget \in Nat
    PROVE  AR!ExtractExtensionZip(entries, budget) \in Landings(C, budget)
<1> DEFINE n == Len(entries)
           Final(s) == AR!Max(s)
           Step(s, it) == TakenRooted(it[s \ {Final(s)}], entries[Final(s)], AR!ExtensionPrefix(AR!Names(entries)))
           Eq(it) == it = [s \in SUBSET (DOMAIN entries) |-> IF s = {} THEN Untouched(budget) ELSE Step(s, it)]
           It == CHOOSE it : Eq(it)
           F == [i \in 1..n |-> [so \in Landings(C, budget) |-> TakenRooted(so, entries[i], AR!ExtensionPrefix(AR!Names(entries)))]]
           top == [s \in SUBSET (1..n) |-> Final(s)]
<1>1. n \in Nat /\ DOMAIN entries = 1..n
  OBVIOUS
<1>2. \A i \in 1..n : entries[i] \in Members(C)
  OBVIOUS
<1>3. \A so \in Landings(C, budget), e \in Members(C) : TakenRooted(so, e, AR!ExtensionPrefix(AR!Names(entries))) \in Landings(C, budget)
  BY PrefixType, TakenLands
<1>4. AR!ExtractExtensionZip(entries, budget) = It[DOMAIN entries]
  BY DEF AR!ExtractExtensionZip, AR!Extract, AR!FoldLeft, AR!MapThenFoldSet, Untouched, TakenRooted
<1>5. \A s \in SUBSET (1..n) : s # {} => Final(s) \in s /\ \A m \in s : m <= Final(s)
  <2> SUFFICES ASSUME NEW s \in SUBSET (1..n), s # {} PROVE Final(s) \in s /\ \A m \in s : m <= Final(s)
    OBVIOUS
  <2> HIDE DEF n
  <2>1. \E x \in s : \A y \in s : x >= y
    BY <1>1, Greatest
  <2>2. QED
    BY <1>1, <2>1 DEF AR!Max
<1> HIDE DEF Final
<1>6. Untouched(budget) \in Landings(C, budget) /\ F \in [1..n -> [Landings(C, budget) -> Landings(C, budget)]]
  <2>1. \A i \in 1..n : entries[i] \in Members(C)
    OBVIOUS
  <2>2. \A so \in Landings(C, budget), e \in Members(C) : TakenRooted(so, e, AR!ExtensionPrefix(AR!Names(entries))) \in Landings(C, budget)
    BY PrefixType, TakenLands
  <2>3. Untouched(budget) \in Landings(C, budget)
    BY UntouchedLands
  <2> HIDE DEF n
  <2>4. QED
    BY <2>1, <2>2, <2>3
<1>7. \E it : Eq(it)
  <2>1. LastOf(n, top)
    BY <1>5 DEF LastOf
  <2> HIDE DEF n, F, top
  <2>2. \E it \in [SUBSET (1..n) -> Landings(C, budget)] : FoldsBy(n, Untouched(budget), F, top, it)
    BY <1>1, <1>6, <2>1, Iterates
  <2>3. PICK it \in [SUBSET (1..n) -> Landings(C, budget)] : FoldsBy(n, Untouched(budget), F, top, it)
    BY <2>2
  <2>4. ASSUME NEW s \in SUBSET (1..n), s # {} PROVE it[s] = Step(s, it)
    <3>1. top[s] = Final(s) /\ top[s] \in 1..n /\ s \ {top[s]} \in SUBSET (1..n)
      BY <2>1, <2>4 DEF top, LastOf
    <3>2. it[s \ {top[s]}] \in Landings(C, budget)
      BY <3>1
    <3>3. it[s] = F[top[s]][it[s \ {top[s]}]]
      BY <2>3, <2>4 DEF FoldsBy
    <3>4. QED
      BY <3>1, <3>2, <3>3 DEF F
  <2>5. Eq(it)
    BY <1>1, <2>3, <2>4 DEF FoldsBy
  <2>6. QED
    BY <2>5
<1> HIDE DEF F, top
<1>8. Eq(It)
  BY <1>7
<1> HIDE DEF It
<1> DEFINE R == [k \in 0..n |-> It[1..k]]
<1>9. R[0] = Untouched(budget)
  BY <1>1, <1>8
<1>10. ASSUME NEW k \in 1..n PROVE R[k] = TakenRooted(R[k - 1], entries[k], AR!ExtensionPrefix(AR!Names(entries)))
  <2> HIDE DEF n
  <2>1. /\ 1..k \in SUBSET (1..n) /\ 1..k # {} /\ (1..k) \ {k} = 1..(k - 1)
        /\ k - 1 \in 0..n /\ k \in 0..n /\ k \in 1..k /\ \A m \in 1..k : m <= k
    BY <1>1, Segments
  <2>2. Final(1..k) \in 1..k /\ k <= Final(1..k)
    BY <1>5, <2>1
  <2>3. Final(1..k) = k
    BY <1>1, <2>2
  <2>4. It[1..k] = Step(1..k, It)
    BY <1>1, <1>8, <2>1
  <2>5. QED
    BY <2>1, <2>3, <2>4
<1>11. AR!ExtractExtensionZip(entries, budget) = R[n]
  BY <1>1, <1>4
<1> DEFINE Good == {k \in 0..n : R[k] \in Landings(C, budget)}
<1> HIDE DEF n, R
<1>12. 0 \in Good
  BY <1>1, <1>6, <1>9
<1>13. ASSUME NEW k \in 1..n, k - 1 \in Good PROVE k \in Good
  <2>1. R[k - 1] \in Landings(C, budget) /\ entries[k] \in Members(C) /\ k \in 0..n
    BY <1>1, <1>13, <1>2
  <2>2. QED
    BY <1>10, <1>3, <2>1
<1>14. Good \in SUBSET (0..n)
  OBVIOUS
<1>15. \A k \in 1..n : k - 1 \in Good => k \in Good
  BY <1>13
<1> HIDE DEF Good
<1>16. Good = 0..n
  BY <1>1, <1>12, <1>14, <1>15, Climb
<1>17. n \in Good
  BY <1>1, <1>16
<1>18. QED
  BY <1>11, <1>17 DEF Good

\* Whatever an archive holds, and wherever its extraction stops, its files are
\* inside the stage, within the budget, and below directories alone
\* (extract.rs, extensions.rs).
THEOREM Landing ==
    ASSUME NEW C, NEW entries \in Seq(Members(C)), NEW budget \in Nat
    PROVE  AR!Landed(entries, budget)
<1>1. \A so \in Landings(C, budget) : AR!Inside(so.tree) /\ AR!Nested(so.tree) /\ so.left \in 0..budget
  BY DEF Landings, Results
<1>2. QED
  BY <1>1, ZipLands, ExtensionLands DEF AR!Landed
-----------------------------------------------------------------------------
(* Settings files, whatever the user and the browser left in them.          *)

ST == INSTANCE Settings

\* Lines between the markers of a fence.
Fence(payload) == <<ST!FenceBegin>> \o payload \o <<ST!FenceEnd>>

\* Lines none of which is the marker.
Free(lines, marker) == \A i \in DOMAIN lines : lines[i] # marker

LEMMA LeastIs ==
    ASSUME NEW I \in SUBSET Nat, NEW n \in I, \A m \in I : n <= m
    PROVE  ST!Min(I) = n
<1>1. \A x \in I : (\A y \in I : x <= y) => x = n
  OBVIOUS
<1>2. QED
  BY <1>1 DEF ST!Min

Framing(pre, payload, post) == pre \o Fence(payload) \o post

LEMMA FenceParts ==
    ASSUME NEW S, NEW p \in Seq(S), ST!FenceBegin \in S, ST!FenceEnd \in S
    PROVE  /\ Fence(p) \in Seq(S) /\ Len(Fence(p)) = Len(p) + 2
           /\ Fence(p)[1] = ST!FenceBegin /\ Fence(p)[Len(p) + 2] = ST!FenceEnd
           /\ \A i \in 1..Len(p) : Fence(p)[i + 1] = p[i]
  BY DEF Fence

\* A file with one fence in it is read as what stands before and after it.
LEMMA Framed ==
    ASSUME NEW S, ST!FenceBegin \in S, ST!FenceEnd \in S,
           NEW pre \in Seq(S), Free(pre, ST!FenceBegin),
           NEW p \in Seq(S), Free(p, ST!FenceEnd),
           NEW post \in Seq(S)
    PROVE  LET s == Framing(pre, p, post) IN
           /\ ST!BeginAt(s) = Len(pre) + 1 /\ ST!EndAt(s) = Len(pre) + Len(p) + 2
           /\ SubSeq(s, 1, ST!BeginAt(s) - 1) = pre
           /\ SubSeq(s, ST!EndAt(s) + 1, Len(s)) = post
<1> DEFINE s == Framing(pre, p, post)
           b == Len(pre) + 1
           e == Len(pre) + Len(p) + 2
           I == {i \in 1..Len(s) : s[i] = ST!FenceBegin}
           ends == {i \in b..Len(s) : s[i] = ST!FenceEnd}
<1>1. /\ Fence(p) \in Seq(S) /\ Len(Fence(p)) = Len(p) + 2
      /\ Fence(p)[1] = ST!FenceBegin /\ Fence(p)[Len(p) + 2] = ST!FenceEnd
      /\ \A i \in 1..Len(p) : Fence(p)[i + 1] = p[i]
  BY FenceParts
<1>2. /\ s \in Seq(S) /\ Len(s) = Len(pre) + Len(p) + 2 + Len(post)
      /\ \A i \in 1..Len(pre) : s[i] = pre[i]
      /\ \A i \in 1..(Len(p) + 2) : s[Len(pre) + i] = Fence(p)[i]
      /\ \A i \in 1..Len(post) : s[e + i] = post[i]
  <2> HIDE DEF Fence
  <2>1. PICK f \in Seq(S) : f = Fence(p)
    BY <1>1
  <2>2. PICK q \in Seq(S) : q = pre \o f
    <3>1. pre \o f \in Seq(S)
      BY ConcatProperties
    <3>2. QED
      BY <3>1
  <2>3. /\ Len(q) = Len(pre) + Len(f) /\ \A i \in 1..Len(pre) : q[i] = pre[i]
        /\ \A i \in 1..Len(f) : q[Len(pre) + i] = f[i]
    BY <2>2
  <2>4. s = q \o post
    BY <2>1, <2>2 DEF Framing
  <2>5. /\ s \in Seq(S) /\ Len(s) = Len(q) + Len(post) /\ \A i \in 1..Len(q) : s[i] = q[i]
        /\ \A i \in 1..Len(post) : s[Len(q) + i] = post[i]
    BY <2>4
  <2> HIDE DEF s
  <2>6. Len(f) = Len(p) + 2 /\ Len(pre) \in Nat /\ Len(p) \in Nat /\ Len(post) \in Nat
    BY <1>1, <2>1
  <2>7. \A i \in 1..Len(pre) : s[i] = pre[i]
    <3>1. Len(f) \in Nat /\ Len(q) \in Nat
      OBVIOUS
    <3>2. \A i \in 1..Len(pre) : i \in 1..Len(q)
      BY <2>3, <2>6, <3>1
    <3>3. QED
      BY <2>3, <2>5, <3>2
  <2>8. \A i \in 1..(Len(p) + 2) : s[Len(pre) + i] = Fence(p)[i]
    BY <2>1, <2>3, <2>5, <2>6
  <2>9. QED
    BY <2>3, <2>5, <2>6, <2>7, <2>8
<1> HIDE DEF s
<1>0. /\ \A i \in DOMAIN pre : pre[i] # ST!FenceBegin
      /\ \A i \in DOMAIN p : p[i] # ST!FenceEnd
  BY DEF Free
<1>3. Len(pre) \in Nat /\ Len(p) \in Nat /\ Len(post) \in Nat /\ Len(s) \in Nat
  BY <1>2
<1>4. b \in I /\ \A m \in I : b <= m
  <2>1. s[b] = ST!FenceBegin /\ b \in 1..Len(s)
    BY <1>1, <1>2, <1>3
  <2>2. \A m \in 1..Len(pre) : s[m] # ST!FenceBegin
    BY <1>0, <1>2
  <2>3. QED
    BY <1>3, <2>1, <2>2
<1>5. ST!BeginAt(s) = b
  <2>1. I \in SUBSET Nat /\ I # {}
    BY <1>3, <1>4
  <2>2. ST!BeginAt(s) = ST!Min(I)
    BY <2>1 DEF ST!BeginAt, ST!SelectInSeq
  <2> HIDE DEF I, b
  <2>3. QED
    BY <1>4, <2>1, <2>2, LeastIs
<1>6. e \in ends /\ \A m \in ends : e <= m
  <2>1. s[e] = ST!FenceEnd /\ e \in b..Len(s)
    <3>1. s[Len(pre) + (Len(p) + 2)] = Fence(p)[Len(p) + 2]
      BY <1>2, <1>3
    <3>2. QED
      BY <1>1, <1>2, <1>3, <3>1
  <2>2. ST!FenceBegin # ST!FenceEnd
    BY DEF ST!FenceBegin, ST!FenceEnd
  <2>3. \A m \in b..(e - 1) : s[m] # ST!FenceEnd
    <3> SUFFICES ASSUME NEW m \in b..(e - 1) PROVE s[m] # ST!FenceEnd
      OBVIOUS
    <3>1. CASE m = b
      BY <1>1, <1>2, <1>3, <2>2, <3>1
    <3>2. CASE m # b
      <4>1. PICK i \in 1..Len(p) : m = Len(pre) + (i + 1)
        <5>1. m - Len(pre) - 1 \in 1..Len(p) /\ m = Len(pre) + ((m - Len(pre) - 1) + 1)
          BY <1>3, <3>2
        <5>2. QED
          BY <5>1
      <4>2. i + 1 \in 1..(Len(p) + 2) /\ i \in DOMAIN p
        BY <1>3
      <4>3. s[Len(pre) + (i + 1)] = Fence(p)[i + 1] /\ Fence(p)[i + 1] = p[i]
        BY <1>1, <1>2, <4>2
      <4>4. QED
        BY <1>0, <4>1, <4>2, <4>3
    <3>3. QED
      BY <3>1, <3>2
  <2>4. QED
    BY <1>3, <2>1, <2>3
<1>7. ST!EndAt(s) = e
  <2>1. ST!EndAt(s) = CHOOSE i \in ends : \A j \in ends : i <= j
    BY <1>5, <1>6 DEF ST!EndAt
  <2>2. \A x \in ends : (\A y \in ends : x <= y) => x = e
    BY <1>3, <1>6
  <2> HIDE DEF ends, e
  <2>3. QED
    BY <1>6, <2>1, <2>2
<1>8. SubSeq(s, 1, b - 1) = pre
  <2>1. SubSeq(s, 1, Len(pre)) \in Seq(S) /\ Len(SubSeq(s, 1, Len(pre))) = Len(pre)
        /\ \A i \in 1..Len(pre) : SubSeq(s, 1, Len(pre))[i] = s[i]
    BY <1>2, <1>3
  <2>2. \A i \in 1..Len(pre) : SubSeq(s, 1, Len(pre))[i] = pre[i]
    BY <1>2, <2>1
  <2>3. SubSeq(s, 1, Len(pre)) = pre
    BY <2>1, <2>2, SeqEqual
  <2>4. QED
    BY <1>3, <2>3
<1>9. SubSeq(s, e + 1, Len(s)) = post
  <2>1. /\ SubSeq(s, e + 1, Len(s)) \in Seq(S) /\ Len(SubSeq(s, e + 1, Len(s))) = Len(post)
        /\ \A i \in 1..Len(post) : SubSeq(s, e + 1, Len(s))[i] = s[e + i]
    BY <1>2, <1>3
  <2>2. \A i \in 1..Len(post) : SubSeq(s, e + 1, Len(s))[i] = post[i]
    BY <1>2, <2>1
  <2> HIDE DEF e
  <2>3. QED
    BY <2>1, <2>2, SeqEqual
<1>10. QED
  BY <1>5, <1>7, <1>8, <1>9 DEF s

\* Where a fence begins, and where one ends, in any file.
LEMMA BeginIs ==
    ASSUME NEW S, NEW text \in Seq(S)
    PROVE  \/ ST!BeginAt(text) = 0 /\ \A i \in 1..Len(text) : text[i] # ST!FenceBegin
           \/ /\ ST!BeginAt(text) \in 1..Len(text)
              /\ \A i \in 1..(ST!BeginAt(text) - 1) : text[i] # ST!FenceBegin
<1> DEFINE I == {i \in 1..Len(text) : text[i] = ST!FenceBegin}
<1>1. ST!BeginAt(text) = IF I # {} THEN ST!Min(I) ELSE 0
  BY DEF ST!BeginAt, ST!SelectInSeq
<1>2. CASE I = {}
  BY <1>1, <1>2
<1>3. CASE I # {}
  <2>1. I \in SUBSET Nat
    OBVIOUS
  <2>2. PICK n \in I : \A m \in I : n <= m
    BY <1>3, <2>1, Least
  <2>3. ST!BeginAt(text) = n
    <3> HIDE DEF I
    <3>1. QED
      BY <1>1, <1>3, <2>1, <2>2, LeastIs
  <2>4. \A i \in 1..(n - 1) : i \notin I
    BY <2>1, <2>2
  <2>5. \A i \in 1..(n - 1) : i \in 1..Len(text)
    BY <2>2
  <2>6. QED
    BY <2>2, <2>3, <2>4, <2>5
<1>4. QED
  BY <1>2, <1>3

LEMMA EndIs ==
    ASSUME NEW S, NEW text \in Seq(S), ST!Fenced(text)
    PROVE  ST!EndAt(text) \in ST!BeginAt(text)..Len(text)
<1> DEFINE ends == {i \in ST!BeginAt(text)..Len(text) : text[i] = ST!FenceEnd}
<1>1. ST!BeginAt(text) \in 1..Len(text)
  BY BeginIs DEF ST!Fenced
<1>2. ST!EndAt(text) = IF ends = {} THEN Len(text) ELSE CHOOSE i \in ends : \A j \in ends : i <= j
  BY DEF ST!EndAt
<1>3. CASE ends = {}
  BY <1>1, <1>2, <1>3
<1>4. CASE ends # {}
  <2>1. ends \in SUBSET Nat
    BY <1>1
  <2>2. PICK n \in ends : \A m \in ends : n <= m
    BY <1>4, <2>1, Least
  <2>3. (CHOOSE i \in ends : \A j \in ends : i <= j) \in ends
    BY <2>2
  <2>4. QED
    BY <1>2, <1>4, <2>3
<1>5. QED
  BY <1>3, <1>4

\* What stands before and after the fence of the next write.
Before(text) == IF ST!Fenced(text) THEN SubSeq(text, 1, ST!BeginAt(text) - 1)
                ELSE IF text = <<>> THEN <<>> ELSE Append(text, ST!Blank)
Behind(text) == IF ST!Fenced(text) THEN SubSeq(text, ST!EndAt(text) + 1, Len(text)) ELSE <<>>

LEMMA Surroundings ==
    ASSUME NEW S, ST!Blank \in S, NEW text \in Seq(S)
    PROVE  /\ Before(text) \in Seq(S) /\ Behind(text) \in Seq(S)
           /\ Free(Before(text), ST!FenceBegin)
<1>1. CASE ST!Fenced(text)
  <2>1. PICK b, e \in Nat : /\ b = ST!BeginAt(text) /\ b \in 1..Len(text)
                            /\ e = ST!EndAt(text) /\ e \in b..Len(text)
    BY <1>1, BeginIs, EndIs DEF ST!Fenced
  <2>2. \A i \in 1..(b - 1) : text[i] # ST!FenceBegin
    BY <1>1, <2>1, BeginIs DEF ST!Fenced
  <2>3. SubSeq(text, 1, b - 1) \in Seq(S) /\ SubSeq(text, e + 1, Len(text)) \in Seq(S)
    BY <2>1
  <2>4. \A i \in DOMAIN SubSeq(text, 1, b - 1) : SubSeq(text, 1, b - 1)[i] # ST!FenceBegin
    BY <2>1, <2>2
  <2>5. QED
    BY <1>1, <2>1, <2>3, <2>4 DEF Before, Behind, Free
<1>2. CASE ~ST!Fenced(text) /\ text = <<>>
  BY <1>2 DEF Before, Behind, Free
<1>3. CASE ~ST!Fenced(text) /\ text # <<>>
  <2>1. \A i \in 1..Len(text) : text[i] # ST!FenceBegin
    BY <1>3, BeginIs DEF ST!Fenced
  <2>2. Append(text, ST!Blank) \in Seq(S) /\ DOMAIN Append(text, ST!Blank) = 1..(Len(text) + 1)
    OBVIOUS
  <2>3. ST!Blank # ST!FenceBegin
    BY DEF ST!Blank, ST!FenceBegin
  <2>4. \A i \in 1..(Len(text) + 1) : Append(text, ST!Blank)[i] # ST!FenceBegin
    BY <2>1, <2>3
  <2>5. QED
    BY <1>3, <2>2, <2>4 DEF Before, Behind, Free
<1>4. QED
  BY <1>1, <1>2, <1>3

LEMMA Written ==
    ASSUME NEW S, ST!Blank \in S, ST!FenceBegin \in S, ST!FenceEnd \in S, NEW text \in Seq(S), NEW p \in Seq(S)
    PROVE  ST!WriteUserJs(text, p) = Framing(Before(text), p, Behind(text))
<1>1. Fence(p) \in Seq(S)
  BY FenceParts
<1>2. ST!WriteUserJs(text, p) = IF ST!Fenced(text) THEN ST!ReplaceFenced(text, Fence(p))
                                ELSE IF text = <<>> THEN Fence(p) ELSE text \o <<ST!Blank>> \o Fence(p)
  BY DEF ST!WriteUserJs, Fence
<1>3. CASE ST!Fenced(text)
  BY <1>2, <1>3 DEF ST!ReplaceFenced, Framing, Before, Behind
<1> HIDE DEF Fence
<1>4. \A s \in Seq(S) : s \o <<>> = s /\ <<>> \o s = s
  BY ConcatEmptySeq
<1>5. CASE ~ST!Fenced(text) /\ text = <<>>
  BY <1>1, <1>2, <1>4, <1>5 DEF Framing, Before, Behind
<1>6. CASE ~ST!Fenced(text) /\ text # <<>>
  <2>1. PICK t \in Seq(S) : t = text \o <<ST!Blank>> /\ t = Append(text, ST!Blank)
    <3>1. Append(text, ST!Blank) \in Seq(S) /\ Append(text, ST!Blank) = text \o <<ST!Blank>>
      BY AppendIsConcat
    <3>2. QED
      BY <3>1
  <2>2. t \o Fence(p) \in Seq(S)
    BY <1>1, ConcatProperties
  <2>3. (t \o Fence(p)) \o <<>> = t \o Fence(p)
    BY <1>4, <2>2
  <2>4. QED
    BY <1>2, <1>6, <2>1, <2>3 DEF Framing, Before, Behind
<1>7. QED
  BY <1>3, <1>5, <1>6

\* Written again and again, with whatever lines, the user's stay (write_user_js).
THEOREM Fencing ==
    ASSUME NEW S, ST!Blank \in S, ST!FenceBegin \in S, ST!FenceEnd \in S, NEW text \in Seq(S),
           NEW old \in Seq(S \ {ST!FenceEnd}), NEW payload \in Seq(S \ {ST!FenceEnd})
    PROVE  ST!LinesKept(text, old, payload)
<1> DEFINE before == Before(text)
           behind == Behind(text)
           kept == IF ST!Fenced(text) \/ text = <<>> THEN ST!StripFenced(text) ELSE Append(text, ST!Blank)
<1>1. /\ before \in Seq(S) /\ behind \in Seq(S) /\ old \in Seq(S) /\ payload \in Seq(S)
      /\ Free(before, ST!FenceBegin) /\ Free(old, ST!FenceEnd) /\ Free(payload, ST!FenceEnd)
  BY Surroundings DEF Free
<1>2. kept = before \o <<>> \o behind
  <2>1. \A s \in Seq(S) : s \o <<>> = s /\ <<>> \o s = s
    BY ConcatEmptySeq
  <2>2. CASE ST!Fenced(text)
    BY <2>2 DEF ST!StripFenced, ST!ReplaceFenced, Before, Behind
  <2>3. CASE ~ST!Fenced(text)
    <3>1. behind = <<>> /\ kept = before
      BY <2>3 DEF ST!StripFenced, Before, Behind
    <3> HIDE DEF before, behind, kept
    <3>2. QED
      BY <1>1, <2>1, <3>1
  <2>4. QED
    BY <2>2, <2>3
<1> HIDE DEF before, behind, kept
<1>3. ASSUME NEW p \in Seq(S), Free(p, ST!FenceEnd)
      PROVE  LET s == Framing(before, p, behind) IN
             /\ s \in Seq(S) /\ ST!Fenced(s) /\ Before(s) = before /\ Behind(s) = behind
             /\ ST!StripFenced(s) = kept
  <2> DEFINE s == Framing(before, p, behind)
  <2>1. Fence(p) \in Seq(S)
    BY FenceParts
  <2>2. s \in Seq(S)
    <3>1. before \o Fence(p) \in Seq(S)
      BY <1>1, <2>1, ConcatProperties
    <3> HIDE DEF Fence
    <3>2. (before \o Fence(p)) \o behind \in Seq(S)
      BY <1>1, <3>1, ConcatProperties
    <3>3. QED
      BY <3>2 DEF Framing
  <2>3. /\ ST!BeginAt(s) = Len(before) + 1
        /\ SubSeq(s, 1, ST!BeginAt(s) - 1) = before
        /\ SubSeq(s, ST!EndAt(s) + 1, Len(s)) = behind
    <3>1. ST!BeginAt(s) = Len(before) + 1
      BY <1>1, <1>3, Framed
    <3>2. SubSeq(s, 1, ST!BeginAt(s) - 1) = before
      BY <1>1, <1>3, Framed
    <3>3. SubSeq(s, ST!EndAt(s) + 1, Len(s)) = behind
      BY <1>1, <1>3, Framed
    <3>4. QED
      BY <3>1, <3>2, <3>3
  <2> HIDE DEF s
  <2>4. ST!Fenced(s)
    BY <1>1, <2>3 DEF ST!Fenced
  <2>5. Before(s) = before /\ Behind(s) = behind
    BY <2>3, <2>4 DEF Before, Behind
  <2>6. ST!StripFenced(s) = kept
    BY <1>2, <2>3, <2>4 DEF ST!StripFenced, ST!ReplaceFenced
  <2>7. QED
    BY <2>2, <2>4, <2>5, <2>6 DEF s
<1>4. PICK once, was \in Seq(S) :
          /\ once = ST!WriteUserJs(text, payload) /\ was = ST!WriteUserJs(text, old)
          /\ once = Framing(before, payload, behind) /\ was = Framing(before, old, behind)
  <2>1. /\ ST!WriteUserJs(text, payload) = Framing(before, payload, behind)
        /\ ST!WriteUserJs(text, old) = Framing(before, old, behind)
    BY <1>1, Written DEF before, behind
  <2>2. Framing(before, payload, behind) \in Seq(S) /\ Framing(before, old, behind) \in Seq(S)
    BY <1>1, <1>3
  <2>3. QED
    BY <2>1, <2>2
<1>5. ST!Fenced(once) /\ ST!StripFenced(once) = kept
  BY <1>1, <1>3, <1>4
<1>6. Before(was) = before /\ Behind(was) = behind
  BY <1>1, <1>3, <1>4
<1>7. ST!WriteUserJs(was, payload) = once
  BY <1>1, <1>4, <1>6, Written
<1>8. ST!RemoveManagedUserJs(once) = IF \A i \in DOMAIN kept : kept[i] = ST!Blank THEN <<>> ELSE kept
  BY <1>5 DEF ST!RemoveManagedUserJs
<1>9. QED
  BY <1>4, <1>5, <1>7, <1>8 DEF ST!LinesKept, kept
-----------------------------------------------------------------------------
(* JSON settings files: what a merge leaves, and that it settles.           *)

\* Prefixes.
LEMMA PrefixMeans ==
    ASSUME NEW S, NEW s \in Seq(S), NEW t \in Seq(S)
    PROVE  ST!IsPrefix(s, t) <=> Len(s) <= Len(t) /\ \A i \in 1..Len(s) : s[i] = t[i]
<1>1. Len(s) \in Nat /\ Len(t) \in Nat
  OBVIOUS
<1>2. CASE ~(Len(s) <= Len(t))
  BY <1>2 DEF ST!IsPrefix
<1>3. CASE Len(s) <= Len(t)
  <2>1. PICK a \in Seq(S) : a = SubSeq(s, 1, Len(s)) /\ Len(a) = Len(s) /\ \A i \in 1..Len(s) : a[i] = s[i]
    BY <1>1
  <2>2. PICK b \in Seq(S) : b = SubSeq(t, 1, Len(s)) /\ Len(b) = Len(s) /\ \A i \in 1..Len(s) : b[i] = t[i]
    <3>1. PICK n \in Nat : n = Len(s) /\ n <= Len(t)
      BY <1>1, <1>3
    <3>2. /\ SubSeq(t, 1, n) \in Seq(S) /\ Len(SubSeq(t, 1, n)) = n
          /\ \A i \in 1..n : SubSeq(t, 1, n)[i] = t[i]
      BY <3>1
    <3>3. QED
      BY <3>1, <3>2
  <2>3. (\A i \in 1..Len(s) : s[i] = t[i]) => a = b
    BY <2>1, <2>2, SeqEqual
  <2>4. a = b => \A i \in 1..Len(s) : s[i] = t[i]
    BY <2>1, <2>2
  <2>5. QED
    BY <1>3, <2>1, <2>2, <2>3, <2>4 DEF ST!IsPrefix
<1>4. QED
  BY <1>2, <1>3

LEMMA PrefixSelf == ASSUME NEW S, NEW s \in Seq(S) PROVE ST!IsPrefix(s, s)
  BY PrefixMeans

LEMMA PrefixThrough ==
    ASSUME NEW S, NEW s \in Seq(S), NEW t \in Seq(S), NEW u \in Seq(S), ST!IsPrefix(s, t), ST!IsPrefix(t, u)
    PROVE  ST!IsPrefix(s, u)
<1>1. Len(s) \in Nat /\ Len(t) \in Nat /\ Len(u) \in Nat
  OBVIOUS
<1>2. Len(s) <= Len(t) /\ \A i \in 1..Len(s) : s[i] = t[i]
  BY PrefixMeans
<1>3. Len(t) <= Len(u) /\ \A i \in 1..Len(t) : t[i] = u[i]
  BY PrefixMeans
<1>4. Len(s) <= Len(u) /\ \A i \in 1..Len(s) : s[i] = u[i]
  BY <1>1, <1>2, <1>3
<1>5. QED
  BY <1>4, PrefixMeans

LEMMA PrefixEither ==
    ASSUME NEW S, NEW s \in Seq(S), NEW t \in Seq(S), NEW u \in Seq(S), ST!IsPrefix(s, u), ST!IsPrefix(t, u)
    PROVE  ST!IsPrefix(s, t) \/ ST!IsPrefix(t, s)
<1>1. Len(s) \in Nat /\ Len(t) \in Nat
  OBVIOUS
<1>2. \A i \in 1..Len(s) : s[i] = u[i]
  BY PrefixMeans
<1>3. \A i \in 1..Len(t) : t[i] = u[i]
  BY PrefixMeans
<1>4. CASE Len(s) <= Len(t)
  <2>1. \A i \in 1..Len(s) : s[i] = t[i]
    BY <1>1, <1>2, <1>3, <1>4
  <2>2. QED
    BY <1>4, <2>1, PrefixMeans
<1>5. CASE Len(t) <= Len(s)
  <2>1. \A i \in 1..Len(t) : t[i] = s[i]
    BY <1>1, <1>2, <1>3, <1>5
  <2>2. QED
    BY <1>5, <2>1, PrefixMeans
<1>6. QED
  BY <1>1, <1>4, <1>5

LEMMA PrefixGrows ==
    ASSUME NEW S, NEW s \in Seq(S), NEW t \in Seq(S)
    PROVE  s \o t \in Seq(S) /\ ST!IsPrefix(s, s \o t)
<1>1. PICK u \in Seq(S) : u = s \o t
  BY ConcatProperties
<1>2. Len(u) = Len(s) + Len(t) /\ \A i \in 1..Len(s) : u[i] = s[i]
  BY <1>1
<1>3. Len(s) \in Nat /\ Len(t) \in Nat
  OBVIOUS
<1>4. ST!IsPrefix(s, u)
  BY <1>2, <1>3, PrefixMeans
<1>5. QED
  BY <1>1, <1>4

\* One entry of the defaults.
Merging(key, existing, so, entry) ==
    IF ST!Holds(key, IF key = "labs" THEN existing ELSE existing \o so, entry) THEN so ELSE Append(so, entry)

LEMMA MergingType ==
    ASSUME NEW E, NEW key, NEW existing \in Seq(E), NEW so \in Seq(E), NEW entry \in E
    PROVE  Merging(key, existing, so, entry) \in Seq(E)
  BY DEF Merging

\* The entries that are missing, one by one.
LEMMA MissingSteps ==
    ASSUME NEW E, NEW key, NEW existing \in Seq(E), NEW items \in Seq(E)
    PROVE  \E R : /\ R[0] = <<>>
                  /\ \A k \in 1..Len(items) : R[k] = Merging(key, existing, R[k - 1], items[k])
                  /\ ST!Missing(key, existing, items) = R[Len(items)]
<1> DEFINE n == Len(items)
           Final(s) == ST!Max(s)
           Step(s, it) == Merging(key, existing, it[s \ {Final(s)}], items[Final(s)])
           Eq(it) == it = [s \in SUBSET (DOMAIN items) |-> IF s = {} THEN <<>> ELSE Step(s, it)]
           It == CHOOSE it : Eq(it)
           F == [i \in 1..n |-> [so \in Seq(E) |-> Merging(key, existing, so, items[i])]]
           top == [s \in SUBSET (1..n) |-> Final(s)]
<1>1. n \in Nat /\ DOMAIN items = 1..n
  OBVIOUS
<1>2. ST!Missing(key, existing, items) = It[DOMAIN items]
  BY DEF ST!Missing, ST!FoldLeft, ST!MapThenFoldSet, Merging
<1>3. \A s \in SUBSET (1..n) : s # {} => Final(s) \in s /\ \A m \in s : m <= Final(s)
  <2> SUFFICES ASSUME NEW s \in SUBSET (1..n), s # {} PROVE Final(s) \in s /\ \A m \in s : m <= Final(s)
    OBVIOUS
  <2> HIDE DEF n
  <2>1. \E x \in s : \A y \in s : x >= y
    BY <1>1, Greatest
  <2>2. QED
    BY <1>1, <2>1 DEF ST!Max
<1> HIDE DEF Final
<1>4. <<>> \in Seq(E) /\ F \in [1..n -> [Seq(E) -> Seq(E)]]
  <2>1. \A i \in 1..n : items[i] \in E
    OBVIOUS
  <2>2. \A so \in Seq(E), e \in E : Merging(key, existing, so, e) \in Seq(E)
    BY MergingType
  <2>3. <<>> \in Seq(E)
    OBVIOUS
  <2> HIDE DEF n
  <2>4. QED
    BY <2>1, <2>2, <2>3
<1>5. \E it : Eq(it)
  <2>1. LastOf(n, top)
    BY <1>3 DEF LastOf
  <2> HIDE DEF n, F, top
  <2>2. \E it \in [SUBSET (1..n) -> Seq(E)] : FoldsBy(n, <<>>, F, top, it)
    BY <1>1, <1>4, <2>1, Iterates
  <2>3. PICK it \in [SUBSET (1..n) -> Seq(E)] : FoldsBy(n, <<>>, F, top, it)
    BY <2>2
  <2>4. ASSUME NEW s \in SUBSET (1..n), s # {} PROVE it[s] = Step(s, it)
    <3>1. top[s] = Final(s) /\ top[s] \in 1..n /\ s \ {top[s]} \in SUBSET (1..n)
      BY <2>1, <2>4 DEF top, LastOf
    <3>2. it[s \ {top[s]}] \in Seq(E)
      BY <3>1
    <3>3. it[s] = F[top[s]][it[s \ {top[s]}]]
      BY <2>3, <2>4 DEF FoldsBy
    <3>4. QED
      BY <3>1, <3>2, <3>3 DEF F
  <2>5. Eq(it)
    BY <1>1, <2>3, <2>4 DEF FoldsBy
  <2>6. QED
    BY <2>5
<1> HIDE DEF F, top
<1>6. Eq(It)
  BY <1>5
<1> HIDE DEF It
<1> DEFINE R == [k \in 0..n |-> It[1..k]]
<1>7. R[0] = <<>>
  BY <1>1, <1>6
<1>8. ASSUME NEW k \in 1..n PROVE R[k] = Merging(key, existing, R[k - 1], items[k])
  <2> HIDE DEF n
  <2>1. /\ 1..k \in SUBSET (1..n) /\ 1..k # {} /\ (1..k) \ {k} = 1..(k - 1)
        /\ k - 1 \in 0..n /\ k \in 0..n /\ k \in 1..k /\ \A m \in 1..k : m <= k
    BY <1>1, Segments
  <2>2. Final(1..k) \in 1..k /\ k <= Final(1..k)
    BY <1>3, <2>1
  <2>3. Final(1..k) = k
    BY <1>1, <2>2
  <2>4. It[1..k] = Step(1..k, It)
    BY <1>1, <1>6, <2>1
  <2>5. QED
    BY <2>1, <2>3, <2>4
<1>9. ST!Missing(key, existing, items) = R[n]
  BY <1>1, <1>2
<1>10. QED
  BY <1>7, <1>8, <1>9


\* Entries of a list stay in longer ones.
LEMMA HoldsOn ==
    ASSUME NEW E, NEW key, NEW s \in Seq(E), NEW t \in Seq(E), NEW entry, ST!Holds(key, s, entry) \/ ST!Holds(key, t, entry)
    PROVE  ST!Holds(key, s \o t, entry)
<1>1. PICK u \in Seq(E) : u = s \o t
  BY ConcatProperties
<1>2. /\ Len(u) = Len(s) + Len(t) /\ Len(s) \in Nat /\ Len(t) \in Nat
      /\ \A i \in 1..Len(s) : u[i] = s[i]
      /\ \A i \in 1..Len(t) : u[Len(s) + i] = t[i]
  BY <1>1
<1>3. CASE ST!Holds(key, s, entry)
  <2>1. PICK i \in 1..Len(s) : IF key = "labs" THEN s[i].name = entry.name ELSE s[i] = entry
    BY <1>3 DEF ST!Holds
  <2>2. i \in DOMAIN u /\ u[i] = s[i]
    BY <1>2
  <2>3. ST!Holds(key, u, entry)
    BY <2>1, <2>2 DEF ST!Holds
  <2>4. QED
    BY <1>1, <2>3
<1>4. CASE ST!Holds(key, t, entry)
  <2>1. PICK i \in 1..Len(t) : IF key = "labs" THEN t[i].name = entry.name ELSE t[i] = entry
    BY <1>4 DEF ST!Holds
  <2>2. Len(s) + i \in 1..Len(u) /\ u[Len(s) + i] = t[i]
    BY <1>2
  <2>3. QED
    BY <1>1, <2>1, <2>2 DEF ST!Holds
<1>5. QED
  BY <1>3, <1>4

LEMMA HoldsAppended ==
    ASSUME NEW E, NEW key, NEW so \in Seq(E), NEW entry \in E
    PROVE  ST!Holds(key, Append(so, entry), entry)
<1>1. /\ Append(so, entry)[Len(so) + 1] = entry /\ Len(so) + 1 \in DOMAIN Append(so, entry)
  OBVIOUS
<1>2. QED
  BY <1>1 DEF ST!Holds

LEMMA HoldsStill ==
    ASSUME NEW E, NEW key, NEW so \in Seq(E), NEW entry \in E, NEW other, ST!Holds(key, so, other)
    PROVE  ST!Holds(key, Append(so, entry), other)
<1>1. \A i \in DOMAIN so : i \in DOMAIN Append(so, entry) /\ Append(so, entry)[i] = so[i]
  OBVIOUS
<1>2. PICK i \in DOMAIN so : IF key = "labs" THEN so[i].name = other.name ELSE so[i] = other
  BY DEF ST!Holds
<1>3. QED
  BY <1>1, <1>2 DEF ST!Holds

\* All entries of the defaults are in one of two lists.
Covering(key, existing, so, items, k) ==
    \A i \in 1..k : ST!Holds(key, existing, items[i]) \/ ST!Holds(key, so, items[i])

\* Every flag of a list is once in it, under a name that existing has not,
\* and comes from the first k of the defaults.
Fresh(existing, so, items, k) ==
    /\ ST!OneEach(so)
    /\ \A j \in DOMAIN so : ~ST!Holds("labs", existing, so[j]) /\ \E i \in 1..k : so[j] = items[i]

LEMMA MergingCovers ==
    ASSUME NEW E, NEW key, NEW existing \in Seq(E), NEW items \in Seq(E), NEW so \in Seq(E),
           NEW k \in 1..Len(items), Covering(key, existing, so, items, k - 1)
    PROVE  Covering(key, existing, Merging(key, existing, so, items[k]), items, k)
<1> DEFINE entry == items[k]
           to == Merging(key, existing, so, entry)
<1>1. entry \in E
  OBVIOUS
<1>2. \A i \in 1..k : i = k \/ i \in 1..(k - 1)
  OBVIOUS
<1>3. ST!Holds(key, existing, entry) \/ ST!Holds(key, to, entry)
  <2>1. CASE ST!Holds(key, IF key = "labs" THEN existing ELSE existing \o so, entry)
    <3>1. CASE key = "labs"
      BY <2>1, <3>1
    <3>2. CASE key # "labs"
      <4>1. to = so
        BY <2>1 DEF Merging
      <4>2. PICK i \in DOMAIN (existing \o so) : (existing \o so)[i] = entry
        BY <2>1, <3>2 DEF ST!Holds
      <4>3. PICK u \in Seq(E) : u = existing \o so
        BY ConcatProperties
      <4>4. /\ Len(u) = Len(existing) + Len(so) /\ i \in 1..Len(u) /\ u[i] = entry
            /\ \A x \in 1..Len(u) : u[x] = IF x <= Len(existing) THEN existing[x] ELSE so[x - Len(existing)]
        BY <4>2, <4>3, ConcatProperties
      <4>5. Len(existing) \in Nat /\ Len(so) \in Nat
        OBVIOUS
      <4>6. CASE i <= Len(existing)
        <5>1. i \in DOMAIN existing /\ existing[i] = entry
          BY <4>4, <4>5, <4>6
        <5>2. QED
          BY <3>2, <5>1 DEF ST!Holds
      <4>7. CASE ~(i <= Len(existing))
        <5>1. i - Len(existing) \in DOMAIN so /\ so[i - Len(existing)] = entry
          BY <4>4, <4>5, <4>7
        <5>2. QED
          BY <3>2, <4>1, <5>1 DEF ST!Holds
      <4>8. QED
        BY <4>6, <4>7
    <3>3. QED
      BY <3>1, <3>2
  <2>2. CASE ~ST!Holds(key, IF key = "labs" THEN existing ELSE existing \o so, entry)
    <3>1. to = Append(so, entry)
      BY <2>2 DEF Merging
    <3> HIDE DEF to, entry
    <3>2. QED
      BY <1>1, <3>1, HoldsAppended
  <2>3. QED
    BY <2>1, <2>2
<1>4. ASSUME NEW other, ST!Holds(key, so, other) PROVE ST!Holds(key, to, other)
  <2>1. to = so \/ to = Append(so, entry)
    BY DEF Merging
  <2> HIDE DEF to, entry
  <2>2. QED
    BY <1>1, <1>4, <2>1, HoldsStill
<1> HIDE DEF to
<1>5. \A i \in 1..k : ST!Holds(key, existing, items[i]) \/ ST!Holds(key, to, items[i])
  BY <1>2, <1>3, <1>4 DEF Covering
<1>6. QED
  BY <1>5 DEF Covering, to

LEMMA MergingFresh ==
    ASSUME NEW E, NEW existing \in Seq(E), NEW items \in Seq(E), ST!OneEach(items), NEW so \in Seq(E),
           NEW k \in 1..Len(items), Fresh(existing, so, items, k - 1)
    PROVE  Fresh(existing, Merging("labs", existing, so, items[k]), items, k)
<1> DEFINE entry == items[k]
           to == Merging("labs", existing, so, entry)
<1>1. entry \in E /\ \A i \in 1..(k - 1) : i \in 1..k /\ i \in DOMAIN items /\ i # k
  OBVIOUS
<1>2. \A j \in DOMAIN so : ~ST!Holds("labs", existing, so[j]) /\ \E i \in 1..(k - 1) : so[j] = items[i]
  BY DEF Fresh
<1>3. CASE ST!Holds("labs", existing, entry)
  <2>1. to = so
    BY <1>3 DEF Merging
  <2>2. \A j \in DOMAIN so : \E i \in 1..k : so[j] = items[i]
    BY <1>1, <1>2
  <2>3. QED
    BY <2>1, <2>2 DEF Fresh
<1>4. CASE ~ST!Holds("labs", existing, entry)
  <2>1. to = Append(so, entry)
    BY <1>4 DEF Merging
  <2>2. \A j \in DOMAIN to : (j \in DOMAIN so /\ to[j] = so[j]) \/ (j = Len(so) + 1 /\ to[j] = entry)
    <3>1. PICK x \in E : x = entry
      BY <1>1
    <3> HIDE DEF entry
    <3>2. PICK t : /\ t = Append(so, x)
                   /\ \A j \in DOMAIN t : (j \in DOMAIN so /\ t[j] = so[j]) \/ (j = Len(so) + 1 /\ t[j] = x)
      <4>1. PICK t \in Seq(E) : /\ t = Append(so, x) /\ Len(t) = Len(so) + 1 /\ t[Len(so) + 1] = x
                                 /\ \A i \in 1..Len(so) : t[i] = so[i]
        <5>1. Append(so, x) \in Seq(E) /\ Len(Append(so, x)) = Len(so) + 1
          BY AppendProperties
        <5>2. Append(so, x)[Len(so) + 1] = x
          BY AppendProperties
        <5>3. \A i \in 1..Len(so) : Append(so, x)[i] = so[i]
          BY AppendProperties
        <5>4. QED
          BY <5>1, <5>2, <5>3
      <4>2. Len(so) \in Nat /\ DOMAIN so = 1..Len(so) /\ DOMAIN t = 1..Len(t)
        OBVIOUS
      <4>3. \A j \in 1..Len(t) : j \in 1..Len(so) \/ j = Len(so) + 1
        BY <4>1, <4>2
      <4>4. \A j \in DOMAIN t : (j \in DOMAIN so /\ t[j] = so[j]) \/ (j = Len(so) + 1 /\ t[j] = x)
        BY <4>1, <4>2, <4>3
      <4>5. QED
        BY <4>1, <4>4
    <3>3. to = t
      BY <2>1, <3>1, <3>2
    <3> HIDE DEF to
    <3>4. QED
      BY <3>1, <3>2, <3>3
  <2>3. \A j \in DOMAIN so : so[j].name # entry.name
    <3> SUFFICES ASSUME NEW j \in DOMAIN so PROVE so[j].name # entry.name
      OBVIOUS
    <3>1. PICK i \in 1..(k - 1) : so[j] = items[i]
      BY <1>2
    <3>2. i \in DOMAIN items /\ k \in DOMAIN items /\ i # k
      BY <1>1
    <3>3. QED
      BY <3>1, <3>2 DEF ST!OneEach
  <2>4. ST!OneEach(so)
    BY DEF Fresh
  <2> HIDE DEF to
  <2>5. ST!OneEach(to)
    <3> SUFFICES ASSUME NEW i \in DOMAIN to, NEW j \in DOMAIN to, to[i].name = to[j].name PROVE i = j
      BY DEF ST!OneEach
    <3>1. CASE i \in DOMAIN so /\ to[i] = so[i] /\ j \in DOMAIN so /\ to[j] = so[j]
      BY <2>4, <3>1 DEF ST!OneEach
    <3>2. QED
      BY <2>2, <2>3, <3>1
  <2>6. ASSUME NEW j \in DOMAIN to
        PROVE  ~ST!Holds("labs", existing, to[j]) /\ \E i \in 1..k : to[j] = items[i]
    <3>1. CASE j \in DOMAIN so /\ to[j] = so[j]
      BY <1>1, <1>2, <3>1
    <3>2. CASE to[j] = entry
      BY <1>4, <3>2
    <3>3. QED
      BY <2>2, <3>1, <3>2
  <2>7. QED
    BY <2>5, <2>6 DEF Fresh, to
<1>5. QED
  BY <1>3, <1>4

\* What is missing, for any entries.
LEMMA MissingIs ==
    ASSUME NEW E, NEW key, NEW existing \in Seq(E), NEW items \in Seq(E)
    PROVE  LET missing == ST!Missing(key, existing, items) IN
           /\ missing \in Seq(E)
           /\ Covering(key, existing, missing, items, Len(items))
           /\ key = "labs" /\ ST!OneEach(items) => Fresh(existing, missing, items, Len(items))
           /\ (\A i \in 1..Len(items) : ST!Holds(key, existing, items[i])) => missing = <<>>
<1> DEFINE n == Len(items)
           all == \A i \in 1..n : ST!Holds(key, existing, items[i])
           once == key = "labs" /\ ST!OneEach(items)
<1>1. PICK R : /\ R[0] = <<>>
               /\ \A k \in 1..Len(items) : R[k] = Merging(key, existing, R[k - 1], items[k])
               /\ ST!Missing(key, existing, items) = R[Len(items)]
  BY MissingSteps
<1> DEFINE Right(k) == /\ R[k] \in Seq(E) /\ Covering(key, existing, R[k], items, k)
                       /\ once => Fresh(existing, R[k], items, k)
                       /\ all => R[k] = <<>>
           Good == {k \in 0..n : Right(k)}
<1>2. n \in Nat
  OBVIOUS
<1>3. Right(0)
  <2>1. ST!OneEach(<<>>) /\ <<>> \in Seq(E) /\ DOMAIN <<>> = {} /\ 1..0 = {}
    BY DEF ST!OneEach
  <2>2. QED
    BY <1>1, <2>1 DEF Covering, Fresh
<1>4. ASSUME NEW k \in 1..n, Right(k - 1) PROVE Right(k)
  <2>1. R[k] = Merging(key, existing, R[k - 1], items[k]) /\ items[k] \in E
    BY <1>1
  <2>2. R[k] \in Seq(E)
    BY <1>4, <2>1, MergingType
  <2>3. Covering(key, existing, R[k], items, k)
    BY <1>4, <2>1, MergingCovers
  <2>4. once => Fresh(existing, R[k], items, k)
    BY <1>4, <2>1, MergingFresh
  <2>5. ASSUME all PROVE R[k] = <<>>
    <3>1. ST!Holds(key, existing, items[k]) /\ R[k - 1] = <<>>
      BY <1>4, <2>5
    <3>2. existing \o <<>> = existing
      BY ConcatEmptySeq
    <3>3. QED
      BY <2>1, <3>1, <3>2 DEF Merging
  <2>6. QED
    BY <2>2, <2>3, <2>4, <2>5
<1>5. Good \in SUBSET (0..n) /\ 0 \in Good
  <2> HIDE DEF Right
  <2>1. QED
    BY <1>2, <1>3
<1>6. \A k \in 1..n : k - 1 \in Good => k \in Good
  <2> HIDE DEF Right
  <2>1. QED
    BY <1>2, <1>4
<1> HIDE DEF Good
<1>7. Good = 0..n
  BY <1>2, <1>5, <1>6, Climb
<1>8. Right(n)
  <2>1. n \in Good
    BY <1>2, <1>7
  <2> HIDE DEF Right
  <2>2. QED
    BY <2>1 DEF Good
<1>9. QED
  BY <1>1, <1>8

\* Leaves of a document, and documents, over any values, entries and names.
Leaves(V, E) == {ST!Scalar(v) : v \in V} \cup {ST!Array(items) : items \in Seq(E)}
Documents(C, V, E) == UNION {[D -> Leaves(V, E)] : D \in SUBSET Seq(C)}

LEMMA JoinedOnce ==
    ASSUME NEW E, NEW s \in Seq(E), NEW t \in Seq(E), NEW items, NEW k, ST!OneEach(s), Fresh(s, t, items, k)
    PROVE  ST!OneEach(s \o t)
<1>1. PICK u \in Seq(E) : u = s \o t
  BY ConcatProperties
<1>2. /\ Len(u) = Len(s) + Len(t) /\ Len(s) \in Nat /\ Len(t) \in Nat
      /\ \A i \in 1..Len(u) : u[i] = IF i <= Len(s) THEN s[i] ELSE t[i - Len(s)]
  BY <1>1, ConcatProperties
<1>3. ST!OneEach(t) /\ \A j \in DOMAIN t : \A i \in DOMAIN s : s[i].name # t[j].name
  BY DEF Fresh, ST!Holds
<1>4. SUFFICES ASSUME NEW i \in 1..Len(u), NEW j \in 1..Len(u), u[i].name = u[j].name PROVE i = j
  BY <1>1, <1>4 DEF ST!OneEach
<1>5. CASE i <= Len(s) /\ j <= Len(s)
  <2>1. i \in DOMAIN s /\ j \in DOMAIN s /\ u[i] = s[i] /\ u[j] = s[j]
    BY <1>2, <1>5
  <2>2. QED
    BY <1>4, <2>1 DEF ST!OneEach
<1>6. CASE ~(i <= Len(s)) /\ ~(j <= Len(s))
  <2>1. /\ i - Len(s) \in DOMAIN t /\ j - Len(s) \in DOMAIN t
        /\ u[i] = t[i - Len(s)] /\ u[j] = t[j - Len(s)]
    BY <1>2, <1>6
  <2>2. i - Len(s) = j - Len(s)
    BY <1>3, <1>4, <2>1 DEF ST!OneEach
  <2>3. QED
    BY <1>2, <2>2
<1>7. CASE i <= Len(s) /\ ~(j <= Len(s))
  <2>1. i \in DOMAIN s /\ j - Len(s) \in DOMAIN t /\ u[i] = s[i] /\ u[j] = t[j - Len(s)]
    BY <1>2, <1>7
  <2>2. QED
    BY <1>3, <1>4, <2>1
<1>8. CASE ~(i <= Len(s)) /\ j <= Len(s)
  <2>1. i - Len(s) \in DOMAIN t /\ j \in DOMAIN s /\ u[i] = t[i - Len(s)] /\ u[j] = s[j]
    BY <1>2, <1>8
  <2>2. QED
    BY <1>3, <1>4, <2>1
<1>9. QED
  BY <1>5, <1>6, <1>7, <1>8

LEMMA LeafKinds ==
    ASSUME NEW V, NEW E, NEW a \in Leaves(V, E)
    PROVE  \/ a.kind = "scalar"
           \/ a.kind = "array" /\ a.items \in Seq(E) /\ a = ST!Array(a.items)
  BY DEF Leaves, ST!Scalar, ST!Array

\* One leaf of the defaults over one that is there.
LEMMA LeafMerges ==
    ASSUME NEW V, NEW E, NEW a \in Leaves(V, E), NEW b \in Leaves(V, E), NEW key
    PROVE  LET m == ST!MergeLeaf(key, a, b) IN
           /\ m \in Leaves(V, E) /\ m.kind = a.kind
           /\ a.kind = "scalar" => m = a
           /\ a.kind = "array" => ST!IsPrefix(a.items, m.items)
           /\ ST!MergeLeaf(key, m, b) = m
           /\ ST!MergeLeaf(key, b, b) = b
           /\ key = "labs" /\ a.kind = "array" /\ ST!OneEach(a.items) /\ (b.kind = "array" => ST!OneEach(b.items))
                => ST!OneEach(m.items)
<1> DEFINE m == ST!MergeLeaf(key, a, b)
<1>1. ASSUME NEW c \in Leaves(V, E), c.kind = "array" PROVE c.items \in Seq(E) /\ c = ST!Array(c.items)
  BY <1>1, LeafKinds
<1>2. ASSUME NEW c \in Leaves(V, E), c.kind = "array", b.kind = "array",
             \A i \in 1..Len(b.items) : ST!Holds(key, c.items, b.items[i])
      PROVE  ST!MergeLeaf(key, c, b) = c
  <2>1. c.items \in Seq(E) /\ b.items \in Seq(E)
    BY <1>1, <1>2
  <2>2. ST!Missing(key, c.items, b.items) = <<>>
    BY <1>2, <2>1, MissingIs
  <2>3. c.items \o <<>> = c.items
    BY <2>1, ConcatEmptySeq
  <2>4. QED
    BY <1>1, <1>2, <2>2, <2>3 DEF ST!MergeLeaf
<1>3. ST!MergeLeaf(key, b, b) = b
  <2>1. CASE b.kind # "array"
    BY <2>1 DEF ST!MergeLeaf
  <2>2. CASE b.kind = "array"
    <3>1. b.items \in Seq(E)
      BY <1>1, <2>2
    <3>2. \A i \in 1..Len(b.items) : ST!Holds(key, b.items, b.items[i])
      BY <3>1 DEF ST!Holds
    <3>3. QED
      BY <1>2, <2>2, <3>2
  <2>3. QED
    BY <2>1, <2>2
<1>4. CASE ~(a.kind = "array" /\ b.kind = "array")
  <2>1. m = a
    BY <1>4 DEF ST!MergeLeaf
  <2>2. a.kind = "array" => ST!IsPrefix(a.items, a.items)
    BY <1>1, PrefixSelf
  <2>3. QED
    BY <1>3, <2>1, <2>2
<1>5. CASE a.kind = "array" /\ b.kind = "array"
  <2>1. PICK s, t \in Seq(E) : s = a.items /\ t = b.items
    BY <1>1, <1>5
  <2>2. PICK missing \in Seq(E) :
           /\ missing = ST!Missing(key, s, t) /\ Covering(key, s, missing, t, Len(t))
           /\ key = "labs" /\ ST!OneEach(t) => Fresh(s, missing, t, Len(t))
    <3>1. ST!Missing(key, s, t) \in Seq(E)
      BY MissingIs
    <3>2. Covering(key, s, ST!Missing(key, s, t), t, Len(t))
      BY MissingIs
    <3>3. key = "labs" /\ ST!OneEach(t) => Fresh(s, ST!Missing(key, s, t), t, Len(t))
      BY MissingIs
    <3>4. QED
      BY <3>1, <3>2, <3>3
  <2>3. m = ST!Array(s \o missing)
    BY <1>5, <2>1, <2>2 DEF ST!MergeLeaf
  <2>4. s \o missing \in Seq(E) /\ ST!IsPrefix(s, s \o missing)
    BY PrefixGrows
  <2>5. m.kind = "array" /\ m.items = s \o missing /\ m \in Leaves(V, E)
    <3>1. PICK u \in Seq(E) : u = s \o missing
      BY <2>4
    <3> HIDE DEF m
    <3>2. m = ST!Array(u)
      BY <2>3, <3>1
    <3>3. m \in Leaves(V, E)
      BY <3>2 DEF Leaves
    <3>4. m.kind = "array" /\ m.items = u
      BY <3>2 DEF ST!Array
    <3>5. QED
      BY <3>1, <3>3, <3>4
  <2>6. \A i \in 1..Len(t) : ST!Holds(key, s \o missing, t[i])
    BY <2>2, HoldsOn DEF Covering
  <2> HIDE DEF m
  <2>7. ST!MergeLeaf(key, m, b) = m
    BY <1>2, <1>5, <2>1, <2>5, <2>6
  <2>8. key = "labs" /\ ST!OneEach(s) /\ ST!OneEach(t) => ST!OneEach(s \o missing)
    BY <2>2, JoinedOnce
  <2>9. QED
    BY <1>3, <1>5, <2>1, <2>4, <2>5, <2>7, <2>8 DEF m
<1>6. QED
  BY <1>4, <1>5

LEMMA DocumentIs ==
    ASSUME NEW C, NEW V, NEW E, NEW doc \in Documents(C, V, E), NEW p \in DOMAIN doc
    PROVE  p \in Seq(C) /\ doc[p] \in Leaves(V, E)
  BY DEF Documents

\* The paths a merge adds.
Added(existing, defaults) ==
    {p \in DOMAIN defaults : ~ST!Present(existing, p) /\ ~ST!Blocked(existing, p)}

\* What a merge makes of each path.
LEMMA MergedIs ==
    ASSUME NEW C, NEW V, NEW E, NEW existing \in Documents(C, V, E), NEW defaults \in Documents(C, V, E)
    PROVE  LET merged == ST!MergeValue(existing, defaults) IN
           /\ merged \in Documents(C, V, E)
           /\ DOMAIN merged = DOMAIN existing \cup Added(existing, defaults)
           /\ \A p \in Added(existing, defaults) : p \notin DOMAIN existing /\ merged[p] = defaults[p]
           /\ \A p \in DOMAIN existing : merged[p] = IF p \in DOMAIN defaults
                                                     THEN ST!MergeLeaf(ST!Last(p), existing[p], defaults[p])
                                                     ELSE existing[p]
<1> DEFINE added == Added(existing, defaults)
           merged == ST!MergeValue(existing, defaults)
<1>1. merged = [p \in DOMAIN existing \cup added |->
                   IF p \in added THEN defaults[p]
                   ELSE IF p \in DOMAIN defaults THEN ST!MergeLeaf(ST!Last(p), existing[p], defaults[p])
                   ELSE existing[p]]
  BY DEF ST!MergeValue, Added
<1>2. ASSUME NEW p \in added PROVE p \notin DOMAIN existing
  <2>1. p \in DOMAIN defaults /\ ~ST!Present(existing, p)
    BY DEF Added
  <2>2. ST!IsPrefix(p, p)
    BY <2>1, DocumentIs, PrefixSelf
  <2>3. QED
    BY <2>1, <2>2 DEF ST!Present, ST!Below
<1>3. added \subseteq DOMAIN defaults
  BY DEF Added
<1>4. ASSUME NEW p \in DOMAIN existing \cup added PROVE p \in Seq(C) /\ merged[p] \in Leaves(V, E)
  <2>1. CASE p \in added
    BY <1>1, <1>3, <2>1, DocumentIs
  <2>2. CASE p \notin added /\ p \in DOMAIN defaults
    <3>1. p \in DOMAIN existing
      BY <2>2
    <3>2. p \in Seq(C) /\ existing[p] \in Leaves(V, E) /\ defaults[p] \in Leaves(V, E)
      BY <2>2, <3>1, DocumentIs
    <3>3. ST!MergeLeaf(ST!Last(p), existing[p], defaults[p]) \in Leaves(V, E)
      BY <3>2, LeafMerges
    <3>4. QED
      BY <1>1, <2>2, <3>2, <3>3
  <2>3. CASE p \notin added /\ p \notin DOMAIN defaults
    BY <1>1, <2>3, DocumentIs
  <2>4. QED
    BY <2>1, <2>2, <2>3
<1> DEFINE D == DOMAIN existing \cup added
<1>5. DOMAIN merged = D /\ D \in SUBSET Seq(C)
  BY <1>1, <1>4
<1>6. merged \in [D -> Leaves(V, E)]
  <2>1. merged = [p \in D |-> merged[p]]
    BY <1>1
  <2> HIDE DEF merged, D
  <2>2. \A p \in D : merged[p] \in Leaves(V, E)
    BY <1>4 DEF D
  <2>3. QED
    BY <2>1, <2>2
<1>7. merged \in Documents(C, V, E)
  <2> HIDE DEF merged, D
  <2>1. QED
    BY <1>5, <1>6 DEF Documents
<1>8. \A p \in added : p \notin DOMAIN existing /\ merged[p] = defaults[p]
  <2> HIDE DEF added
  <2>1. QED
    BY <1>1, <1>2
<1>9. \A p \in DOMAIN existing : merged[p] = IF p \in DOMAIN defaults
                                             THEN ST!MergeLeaf(ST!Last(p), existing[p], defaults[p])
                                             ELSE existing[p]
  <2>1. \A p \in DOMAIN existing : p \notin added
    BY <1>2
  <2> HIDE DEF added
  <2>2. QED
    BY <1>1, <2>1
<1>10. QED
  BY <1>5, <1>7, <1>8, <1>9

\* No value lies below another: what a file of JSON objects gives.
Tree(doc) == \A p, q \in DOMAIN doc : ~ST!IsStrictPrefix(p, q)

\* A settings file a launch can meet.
Files(C, V, E) == [state : {"missing", "bad"}] \cup [state : {"there"}, doc : Documents(C, V, E)]

\* The settings of the defaults that are locked.
LockedOf(defaults) == ST!LockedPaths \cap DOMAIN defaults
Clear(locked, p) == \A path \in locked : ~ST!IsPrefix(path, p)

\* The locked settings in a document, with nothing below them.
Hardened(hard, doc, locked, defaults) ==
    /\ DOMAIN hard = {q \in DOMAIN doc : Clear(locked, q)} \cup locked
    /\ \A p \in locked : hard[p] = defaults[p]
    /\ \A p \in DOMAIN hard : p \notin locked => hard[p] = doc[p]

LEMMA EnforcedIs ==
    ASSUME NEW C, NEW V, NEW E, NEW doc \in Documents(C, V, E), NEW defaults \in Documents(C, V, E),
           NEW locked \in SUBSET DOMAIN defaults
    PROVE  LET hard == ST!Enforced(doc, locked, defaults) IN
           /\ hard \in Documents(C, V, E)
           /\ Hardened(hard, doc, locked, defaults)
<1> DEFINE D == {q \in DOMAIN doc : Clear(locked, q)} \cup locked
           hard == ST!Enforced(doc, locked, defaults)
<1>1. hard = [p \in D |-> IF p \in locked THEN defaults[p] ELSE doc[p]]
  BY DEF ST!Enforced, Clear
<1>2. \A p \in D : p \in Seq(C) /\ (p \in locked \/ p \in DOMAIN doc)
  BY DocumentIs
<1>3. \A p \in D : (IF p \in locked THEN defaults[p] ELSE doc[p]) \in Leaves(V, E)
  BY DocumentIs
<1> HIDE DEF D, hard
<1>4. D \in SUBSET Seq(C) /\ hard \in [D -> Leaves(V, E)]
  BY <1>1, <1>2, <1>3
<1>5. hard \in Documents(C, V, E)
  BY <1>4 DEF Documents
<1>6. \A p \in locked : p \in D
  BY DEF D
<1>7. DOMAIN hard = D /\ \A p \in D : hard[p] = IF p \in locked THEN defaults[p] ELSE doc[p]
  BY <1>1
<1>8. Hardened(hard, doc, locked, defaults)
  BY <1>6, <1>7 DEF D, Hardened
<1>9. QED
  BY <1>5, <1>8 DEF hard

\* What a merge wrote has all the defaults, and nothing in their way.
LEMMA Complete ==
    ASSUME NEW C, NEW V, NEW E, NEW existing \in Documents(C, V, E), NEW defaults \in Documents(C, V, E),
           Tree(defaults), NEW p \in DOMAIN defaults
    PROVE  LET hard == ST!Enforced(ST!MergeValue(existing, defaults), LockedOf(defaults), defaults) IN
           ST!Present(hard, p) \/ ST!Blocked(hard, p)
<1> DEFINE merged == ST!MergeValue(existing, defaults)
           locked == LockedOf(defaults)
           hard == ST!Enforced(merged, locked, defaults)
<1> SUFFICES ST!Present(hard, p) \/ ST!Blocked(hard, p)
  OBVIOUS
<1>0. /\ merged \in Documents(C, V, E)
      /\ DOMAIN merged = DOMAIN existing \cup Added(existing, defaults)
      /\ \A q \in Added(existing, defaults) : q \notin DOMAIN existing /\ merged[q] = defaults[q]
      /\ \A q \in DOMAIN existing : merged[q] = IF q \in DOMAIN defaults
                                                THEN ST!MergeLeaf(ST!Last(q), existing[q], defaults[q])
                                                ELSE existing[q]
  BY MergedIs
<1>1. DOMAIN merged = DOMAIN existing \cup Added(existing, defaults)
  BY <1>0
<1>2. locked \in SUBSET DOMAIN defaults
  BY DEF LockedOf
<1> HIDE DEF merged, locked
<1>hardened. Hardened(hard, merged, locked, defaults)
  BY <1>0, <1>2, EnforcedIs
<1> HIDE DEF hard
<1>3. DOMAIN hard = {q \in DOMAIN merged : Clear(locked, q)} \cup locked
  BY <1>hardened DEF Hardened
<1>4. p \in Seq(C) /\ \A q \in locked : q \in Seq(C)
  BY <1>2, DocumentIs
<1>5. \A q \in locked : ST!IsPrefix(q, p) => q = p
  BY <1>2 DEF Tree, ST!IsStrictPrefix
<1>6. ASSUME NEW q \in DOMAIN hard, ST!IsPrefix(p, q) PROVE ST!Present(hard, p)
  BY <1>6 DEF ST!Present, ST!Below
<1>7. p \in DOMAIN hard => ST!Present(hard, p)
  BY <1>4, <1>6, PrefixSelf
<1>8. CASE p \in Added(existing, defaults)
  <2>1. p \in locked \/ Clear(locked, p)
    BY <1>5 DEF Clear
  <2>2. QED
    BY <1>1, <1>3, <1>7, <1>8, <2>1
<1>9. CASE ST!Present(existing, p)
  <2>1. PICK q \in DOMAIN existing : ST!IsPrefix(p, q)
    BY <1>9 DEF ST!Present, ST!Below
  <2>2. q \in Seq(C)
    BY DocumentIs
  <2>3. CASE Clear(locked, q)
    BY <1>1, <1>3, <1>6, <2>1, <2>3
  <2>4. CASE ~Clear(locked, q)
    <3>1. PICK l \in locked : ST!IsPrefix(l, q)
      BY <2>4 DEF Clear
    <3>2. ST!IsPrefix(l, p) \/ ST!IsPrefix(p, l)
      BY <1>4, <2>1, <2>2, <3>1, PrefixEither
    <3>3. l \in DOMAIN hard
      BY <1>3
    <3>4. QED
      BY <1>5, <1>6, <1>7, <3>2, <3>3
  <2>5. QED
    BY <2>3, <2>4
<1>10. CASE ST!Blocked(existing, p)
  <2>1. PICK q \in DOMAIN existing : ST!IsStrictPrefix(q, p)
    BY <1>10 DEF ST!Blocked
  <2>2. q \in Seq(C) /\ ST!IsPrefix(q, p)
    BY <2>1, DocumentIs DEF ST!IsStrictPrefix
  <2>3. CASE Clear(locked, q)
    <3>1. q \in DOMAIN hard
      BY <1>1, <1>3, <2>3
    <3>2. QED
      BY <2>1, <3>1 DEF ST!Blocked
  <2>4. CASE ~Clear(locked, q)
    <3>1. PICK l \in locked : ST!IsPrefix(l, q)
      BY <2>4 DEF Clear
    <3>2. ST!IsPrefix(l, p)
      BY <1>4, <2>2, <3>1, PrefixThrough
    <3>3. p \in DOMAIN hard
      BY <1>3, <1>5, <3>2
    <3>4. QED
      BY <1>7, <3>3
  <2>5. QED
    BY <2>3, <2>4
<1>11. QED
  BY <1>8, <1>9, <1>10 DEF Added

\* What a merge wrote is left alone by the next one.
LEMMA Settles ==
    ASSUME NEW C, NEW V, NEW E, NEW existing \in Documents(C, V, E), NEW defaults \in Documents(C, V, E),
           Tree(defaults),
           \A path \in LockedOf(defaults) : ~ST!Blocked(ST!MergeValue(existing, defaults), path)
    PROVE  LET hard == ST!Enforced(ST!MergeValue(existing, defaults), LockedOf(defaults), defaults) IN
           /\ ST!MergeValue(hard, defaults) = hard
           /\ \A path \in LockedOf(defaults) : ~ST!Blocked(hard, path)
           /\ ST!Enforced(hard, LockedOf(defaults), defaults) = hard
<1> DEFINE merged == ST!MergeValue(existing, defaults)
           locked == LockedOf(defaults)
           hard == ST!Enforced(merged, locked, defaults)
           again == ST!MergeValue(hard, defaults)
<1>1. /\ merged \in Documents(C, V, E)
      /\ DOMAIN merged = DOMAIN existing \cup Added(existing, defaults)
      /\ \A p \in Added(existing, defaults) : p \notin DOMAIN existing /\ merged[p] = defaults[p]
      /\ \A p \in DOMAIN existing : merged[p] = IF p \in DOMAIN defaults
                                                THEN ST!MergeLeaf(ST!Last(p), existing[p], defaults[p])
                                                ELSE existing[p]
  BY MergedIs
<1>2. locked \in SUBSET DOMAIN defaults
  BY DEF LockedOf
<1>3. \A p \in DOMAIN defaults : ST!Present(hard, p) \/ ST!Blocked(hard, p)
  BY Complete
<1>4. \A path \in locked : ~ST!Blocked(merged, path)
  OBVIOUS
<1> HIDE DEF merged, locked
<1>5. /\ hard \in Documents(C, V, E)
      /\ DOMAIN hard = {q \in DOMAIN merged : Clear(locked, q)} \cup locked
      /\ \A p \in locked : hard[p] = defaults[p]
      /\ \A p \in DOMAIN hard : p \notin locked => hard[p] = merged[p]
  <2>1. hard \in Documents(C, V, E)
    BY <1>1, <1>2, EnforcedIs
  <2>2. Hardened(hard, merged, locked, defaults)
    BY <1>1, <1>2, EnforcedIs
  <2> HIDE DEF hard
  <2>3. QED
    BY <2>1, <2>2 DEF Hardened
<1> HIDE DEF hard
<1>6. again = hard
  <2>1. Added(hard, defaults) = {}
    BY <1>3 DEF Added
  <2>2. /\ again \in Documents(C, V, E)
        /\ DOMAIN again = DOMAIN hard
        /\ \A p \in DOMAIN hard : again[p] = IF p \in DOMAIN defaults
                                             THEN ST!MergeLeaf(ST!Last(p), hard[p], defaults[p])
                                             ELSE hard[p]
    <3>1. again \in Documents(C, V, E)
      BY <1>5, MergedIs
    <3>2. DOMAIN again = DOMAIN hard \cup Added(hard, defaults)
      BY <1>5, MergedIs
    <3>3. \A p \in DOMAIN hard : again[p] = IF p \in DOMAIN defaults
                                            THEN ST!MergeLeaf(ST!Last(p), hard[p], defaults[p])
                                            ELSE hard[p]
      <4>1. hard \in Documents(C, V, E)
        BY <1>5
      <4>2. QED
        BY <4>1, MergedIs
    <3>4. QED
      BY <2>1, <3>1, <3>2, <3>3
  <2> HIDE DEF again
  <2>3. ASSUME NEW p \in DOMAIN hard, p \in DOMAIN defaults
        PROVE  ST!MergeLeaf(ST!Last(p), hard[p], defaults[p]) = hard[p]
    <3>1. defaults[p] \in Leaves(V, E)
      BY <2>3, DocumentIs
    <3>2. ST!MergeLeaf(ST!Last(p), defaults[p], defaults[p]) = defaults[p]
      BY <3>1, LeafMerges
    <3>3. CASE p \in locked
      BY <1>5, <3>2, <3>3
    <3>4. CASE p \notin locked /\ p \in Added(existing, defaults)
      BY <1>1, <1>5, <3>2, <3>4
    <3>5. CASE p \notin locked /\ p \notin Added(existing, defaults)
      <4>1. p \in DOMAIN existing
        BY <1>1, <1>5, <3>5
      <4>2. hard[p] = ST!MergeLeaf(ST!Last(p), existing[p], defaults[p])
        BY <1>1, <1>5, <2>3, <3>5, <4>1
      <4>3. existing[p] \in Leaves(V, E)
        BY <4>1, DocumentIs
      <4>4. ST!MergeLeaf(ST!Last(p), ST!MergeLeaf(ST!Last(p), existing[p], defaults[p]), defaults[p])
              = ST!MergeLeaf(ST!Last(p), existing[p], defaults[p])
        BY <3>1, <4>3, LeafMerges
      <4>5. QED
        BY <4>2, <4>4
    <3>6. QED
      BY <3>3, <3>4, <3>5
  <2>4. \A p \in DOMAIN hard : again[p] = hard[p]
    BY <2>2, <2>3
  <2>5. again = [p \in DOMAIN hard |-> again[p]] /\ hard = [p \in DOMAIN hard |-> hard[p]]
    BY <1>5, <2>2 DEF Documents
  <2>6. QED
    BY <2>4, <2>5
<1>7. \A path \in locked : ~ST!Blocked(hard, path)
  <2>1. SUFFICES ASSUME NEW path \in locked, NEW q \in DOMAIN hard, ST!IsStrictPrefix(q, path) PROVE FALSE
    BY DEF ST!Blocked
  <2>2. CASE q \in locked
    BY <1>2, <2>1, <2>2 DEF Tree
  <2>3. CASE q \in DOMAIN merged
    BY <1>4, <2>1, <2>3 DEF ST!Blocked
  <2>4. QED
    BY <1>5, <2>2, <2>3
<1>8. ST!Enforced(hard, locked, defaults) = hard
  <2> DEFINE hardened == ST!Enforced(hard, locked, defaults)
  <2>1. /\ hardened \in Documents(C, V, E)
        /\ DOMAIN hardened = {q \in DOMAIN hard : Clear(locked, q)} \cup locked
        /\ \A p \in locked : hardened[p] = defaults[p]
        /\ \A p \in DOMAIN hardened : p \notin locked => hardened[p] = hard[p]
    <3>1. hardened \in Documents(C, V, E)
      BY <1>2, <1>5, EnforcedIs
    <3>2. Hardened(hardened, hard, locked, defaults)
      BY <1>2, <1>5, EnforcedIs
    <3> HIDE DEF hardened
    <3>3. QED
      BY <3>1, <3>2 DEF Hardened
  <2> HIDE DEF hardened
  <2>2. DOMAIN hardened = DOMAIN hard
    BY <1>5, <2>1
  <2>3. \A p \in DOMAIN hard : hardened[p] = hard[p]
    BY <1>5, <2>1, <2>2
  <2>4. hardened = [p \in DOMAIN hardened |-> hardened[p]] /\ hard = [p \in DOMAIN hard |-> hard[p]]
    BY <1>5, <2>1 DEF Documents
  <2>5. QED
    BY <2>2, <2>3, <2>4 DEF hardened
<1>9. QED
  BY <1>6, <1>7, <1>8 DEF hard, merged, locked

\* The merge of a settings file with the defaults: those Nomad locks get its
\* value; all else the user chose is kept, through any number of launches;
\* and no experimental flag gets a second option.
THEOREM Combining ==
    ASSUME NEW C, NEW V, NEW E, NEW before \in Files(C, V, E), NEW defaults \in Documents(C, V, E), Tree(defaults)
    PROVE  ST!LockedHold(before, defaults) /\ ST!UserSettingsKept(before, defaults) /\ ST!OneOptionPerFlag(before, defaults)
<1> DEFINE result == ST!MergeJsonFile(before, defaults)
           existing == IF before.state = "missing" THEN <<>> ELSE before.doc
           merged == ST!MergeValue(existing, defaults)
           locked == LockedOf(defaults)
           hard == ST!Enforced(merged, locked, defaults)
           Barred(doc) == \E path \in locked : ST!Blocked(doc, path)
<1>1. \/ before.state = "bad"
      \/ before.state = "missing"
      \/ before.state = "there" /\ before.doc \in Documents(C, V, E)
  BY DEF Files
<1>2. <<>> \in Documents(C, V, E)
  <2>1. <<>> = [p \in {} |-> p] /\ {} \in SUBSET Seq(C)
    OBVIOUS
  <2>2. <<>> \in [{} -> Leaves(V, E)]
    BY <2>1
  <2>3. QED
    BY <2>1, <2>2 DEF Documents
<1>3. result = IF before.state = "bad" \/ Barred(merged) THEN ST!Failed ELSE ST!Done(hard)
  BY DEF ST!MergeJsonFile, LockedOf
<1>4. CASE before.state = "bad" \/ Barred(merged)
  <2>1. ~result.ok
    BY <1>3, <1>4 DEF ST!Failed
  <2>2. QED
    BY <2>1 DEF ST!LockedHold, ST!UserSettingsKept, ST!OneOptionPerFlag
<1>5. CASE ~(before.state = "bad" \/ Barred(merged))
  <2>1. existing \in Documents(C, V, E)
    BY <1>1, <1>2, <1>5
  <2>2. result = ST!Done(hard)
    BY <1>3, <1>5
  <2>3. result.ok /\ result.doc = hard
    BY <2>2 DEF ST!Done
  <2>4. ~Barred(merged)
    BY <1>5
  <2>5. locked \in SUBSET DOMAIN defaults
    BY DEF LockedOf
  <2> HIDE DEF existing, result
  <2>6. /\ merged \in Documents(C, V, E)
        /\ DOMAIN merged = DOMAIN existing \cup Added(existing, defaults)
        /\ \A p \in Added(existing, defaults) : p \notin DOMAIN existing /\ merged[p] = defaults[p]
        /\ \A p \in DOMAIN existing : merged[p] = IF p \in DOMAIN defaults
                                                  THEN ST!MergeLeaf(ST!Last(p), existing[p], defaults[p])
                                                  ELSE existing[p]
    BY <2>1, MergedIs
  <2>7. /\ ST!MergeValue(hard, defaults) = hard
        /\ \A path \in locked : ~ST!Blocked(hard, path)
        /\ ST!Enforced(hard, locked, defaults) = hard
    <3>1. \A path \in locked : ~ST!Blocked(merged, path)
      BY <2>4
    <3>2. QED
      BY <2>1, <3>1, Settles
  <2> HIDE DEF merged, locked
  <2>8. hard \in Documents(C, V, E)
    BY <2>5, <2>6, EnforcedIs
  <2>9. Hardened(hard, merged, locked, defaults)
    BY <2>5, <2>6, EnforcedIs
  <2> HIDE DEF hard
  <2>10. /\ DOMAIN hard = {q \in DOMAIN merged : Clear(locked, q)} \cup locked
         /\ \A p \in locked : hard[p] = defaults[p]
         /\ \A p \in DOMAIN hard : p \notin locked => hard[p] = merged[p]
    BY <2>9 DEF Hardened
  <2>11. ST!LockedHold(before, defaults)
    <3>1. \A path \in locked : path \in DOMAIN hard /\ hard[path] = defaults[path]
      BY <2>10
    <3>2. \A path \in ST!LockedPaths \cap DOMAIN defaults : path \in DOMAIN result.doc /\ result.doc[path] = defaults[path]
      BY <2>3, <3>1 DEF locked, LockedOf
    <3>3. QED
      BY <3>2 DEF ST!LockedHold, result
  \* A path of the file that no locked setting leads to.
  <2>12. ASSUME NEW p \in DOMAIN existing, Clear(locked, p)
         PROVE  /\ p \in DOMAIN hard
                /\ hard[p] = IF p \in DOMAIN defaults
                             THEN ST!MergeLeaf(ST!Last(p), existing[p], defaults[p])
                             ELSE existing[p]
    <3>1. p \in Seq(C)
      BY <2>1, DocumentIs
    <3>2. p \notin locked
      BY <2>12, <3>1, PrefixSelf DEF Clear
    <3>3. p \in DOMAIN hard /\ hard[p] = merged[p]
      BY <2>6, <2>10, <2>12, <3>2
    <3>4. QED
      BY <2>6, <3>3
  <2>13. ST!UserSettingsKept(before, defaults)
    <3>1. SUFFICES ASSUME before.state = "there" PROVE ST!UserSettingsKept(before, defaults)
      BY DEF ST!UserSettingsKept
    <3>2. existing = before.doc
      BY <3>1 DEF existing
    <3>3. ST!MergeJsonFile([state |-> "there", doc |-> hard], defaults) = ST!Done(hard)
      <4> DEFINE next == [state |-> "there", doc |-> hard]
      <4>1. next.state = "there" /\ next.doc = hard
        OBVIOUS
      <4> HIDE DEF next
      <4>2. QED
        BY <2>7, <4>1 DEF ST!MergeJsonFile, locked, LockedOf, next
    <3>4. ASSUME NEW p \in DOMAIN existing, Clear(locked, p)
          PROVE  /\ p \in DOMAIN hard
                 /\ IF existing[p].kind = "scalar" THEN hard[p] = existing[p]
                    ELSE ST!IsPrefix(existing[p].items, hard[p].items)
      <4>1. existing[p] \in Leaves(V, E)
        BY <2>1, DocumentIs
      <4>2. \/ existing[p].kind = "scalar"
            \/ existing[p].kind = "array" /\ existing[p].items \in Seq(E)
        BY <4>1, LeafKinds
      <4>3. CASE p \in DOMAIN defaults
        <5>1. defaults[p] \in Leaves(V, E)
          BY <4>3, DocumentIs
        <5>2. hard[p] = ST!MergeLeaf(ST!Last(p), existing[p], defaults[p])
          BY <2>12, <3>4, <4>3
        <5>3. /\ existing[p].kind = "scalar" => hard[p] = existing[p]
              /\ existing[p].kind = "array" => ST!IsPrefix(existing[p].items, hard[p].items)
          BY <4>1, <5>1, <5>2, LeafMerges
        <5>4. QED
          BY <2>12, <3>4, <4>2, <5>3
      <4>4. CASE p \notin DOMAIN defaults
        <5>1. p \in DOMAIN hard /\ hard[p] = existing[p]
          BY <2>12, <3>4, <4>4
        <5>2. existing[p].items \in Seq(E) => ST!IsPrefix(existing[p].items, existing[p].items)
          BY PrefixSelf
        <5>3. QED
          BY <4>2, <5>1, <5>2
      <4>5. QED
        BY <4>3, <4>4
    <3>5. \A p \in DOMAIN existing :
             ~(\E path \in ST!LockedPaths \cap DOMAIN defaults : ST!IsPrefix(path, p)) => Clear(locked, p)
      BY DEF Clear, locked, LockedOf
    <3>6. QED
      BY <2>2, <2>3, <3>1, <3>2, <3>3, <3>4, <3>5 DEF ST!UserSettingsKept, result
  <2>14. ST!OneOptionPerFlag(before, defaults)
    <3> DEFINE labs == <<"labs">>
               kept == IF before.state = "there" THEN before.doc ELSE <<>>
    <3>1. existing = kept
      BY <1>1, <1>5 DEF existing
    <3>2. SUFFICES ASSUME ST!OneEach(ST!Options(existing)), ST!OneEach(ST!Options(defaults))
                   PROVE  ST!OneEach(ST!Options(hard))
      BY <2>3, <3>1 DEF ST!OneOptionPerFlag, result
    <3>3. ST!Last(labs) = "labs"
      BY DEF ST!Last
    <3>4. labs \notin locked /\ Clear(locked, labs)
      <4> DEFINE mode == <<"dns", "mode">>
                 safe == <<"safe">>
                 S == {"labs", "dns", "mode", "safe"}
      <4>1. labs \in Seq(S) /\ Len(labs) = 1 /\ labs[1] = "labs"
        OBVIOUS
      <4>2. mode \in Seq(S) /\ Len(mode) = 2 /\ mode[1] = "dns"
        OBVIOUS
      <4>3. safe \in Seq(S) /\ Len(safe) = 1 /\ safe[1] = "safe"
        OBVIOUS
      <4> HIDE DEF labs, mode, safe, S
      <4>4. ~ST!IsPrefix(mode, labs)
        BY <4>1, <4>2, PrefixMeans
      <4>5. ~ST!IsPrefix(safe, labs)
        BY <4>1, <4>3, PrefixMeans
      <4>6. labs # mode /\ labs # safe
        BY <4>1, <4>2, <4>3
      <4>7. locked \subseteq {mode, safe}
        BY DEF locked, LockedOf, ST!LockedPaths, mode, safe
      <4>8. QED
        BY <4>4, <4>5, <4>6, <4>7 DEF Clear
    <3> HIDE DEF labs
    <3>5. CASE labs \notin DOMAIN hard \/ hard[labs].kind # "array"
      BY <3>5 DEF ST!Options, ST!OneEach, labs
    <3>6. CASE labs \in DOMAIN hard /\ hard[labs].kind = "array"
      <4>1. CASE labs \in DOMAIN existing /\ labs \in DOMAIN defaults
        <5>1. existing[labs] \in Leaves(V, E) /\ defaults[labs] \in Leaves(V, E)
          BY <2>1, <4>1, DocumentIs
        <5>2. hard[labs] = ST!MergeLeaf("labs", existing[labs], defaults[labs])
          BY <2>12, <3>3, <3>4, <4>1
        <5>3. existing[labs].kind = "array"
          BY <3>6, <5>1, <5>2, LeafMerges
        <5>4. /\ ST!OneEach(existing[labs].items)
              /\ defaults[labs].kind = "array" => ST!OneEach(defaults[labs].items)
          BY <3>2, <4>1, <5>3 DEF ST!Options, labs
        <5>5. ST!OneEach(hard[labs].items)
          BY <5>1, <5>2, <5>3, <5>4, LeafMerges
        <5>6. QED
          BY <3>6, <5>5 DEF ST!Options, labs
      <4>2. CASE labs \in DOMAIN existing /\ labs \notin DOMAIN defaults
        <5>1. hard[labs] = existing[labs]
          BY <2>12, <3>4, <4>2
        <5>2. QED
          BY <3>2, <3>6, <4>2, <5>1 DEF ST!Options, labs
      <4>3. CASE labs \notin DOMAIN existing
        <5>1. labs \in Added(existing, defaults) /\ hard[labs] = defaults[labs]
          BY <2>6, <2>10, <3>4, <3>6, <4>3
        <5>2. labs \in DOMAIN defaults
          BY <5>1 DEF Added
        <5>3. QED
          BY <3>2, <3>6, <5>1, <5>2 DEF ST!Options, labs
      <4>4. QED
        BY <4>1, <4>2, <4>3
    <3>7. QED
      BY <3>5, <3>6
  <2>15. QED
    BY <2>11, <2>13, <2>14
<1>6. QED
  BY <1>4, <1>5
-----------------------------------------------------------------------------
(* Shortcuts: what one that is attributed to the folder names.              *)

SL == INSTANCE ShellLink

\* Targets that corroborate each other are one.
LEMMA OneOwned ==
    ASSUME NEW P, NEW paths \in Seq(P), SL!Corroborate(paths) # SL!Nowhere
    PROVE  /\ paths # <<>>
           /\ \A i \in DOMAIN paths : SL!ExistingOwnedPath(paths[i]) = SL!Corroborate(paths)
<1> DEFINE n == Len(paths)
           owned == {SL!ExistingOwnedPath(paths[j]) : j \in DOMAIN paths}
           each == [j \in 1..n |-> SL!ExistingOwnedPath(paths[j])]
<1>1. SL!Cardinality(owned) = 1 /\ SL!Corroborate(paths) = CHOOSE path \in owned : TRUE
  BY DEF SL!Corroborate
<1>2. n \in Nat /\ DOMAIN paths = 1..n
  OBVIOUS
<1>3. IsFiniteSet(owned)
  <2>1. each \in Surjection(1..n, owned)
    BY <1>2 DEF Surjection
  <2>2. IsFiniteSet(1..n)
    BY <1>2, FS_Interval
  <2> HIDE DEF each, owned, n
  <2>3. QED
    BY <2>1, <2>2, FS_Surjection
<1>4. Cardinality(owned) = 1
  BY <1>1 DEF SL!Cardinality, Cardinality
<1>5. PICK x : owned = {x}
  <2> HIDE DEF owned
  <2>1. QED
    BY <1>3, <1>4, FS_Singleton
<1>6. \A i \in DOMAIN paths : SL!ExistingOwnedPath(paths[i]) \in owned
  OBVIOUS
<1>7. paths # <<>>
  <2>1. PICK j \in DOMAIN paths : SL!ExistingOwnedPath(paths[j]) = x
    BY <1>5
  <2>2. QED
    BY <2>1
<1>8. QED
  BY <1>1, <1>5, <1>6, <1>7

LEMMA OwnedIs ==
    ASSUME NEW path, SL!ExistingOwnedPath(path) # SL!Nowhere
    PROVE  LET target == SL!ExistingOwnedPath(path) IN
           /\ SL!LexicalPath(path) = target /\ target \in SL!Files
           /\ SL!IsStrictPrefix(SL!Root, target) /\ ~SL!Behind(target)
  BY DEF SL!ExistingOwnedPath

\* A shortcut, whatever it holds, is attributed to a file of the folder only if
\* all it states is that one file, which is there and inside.
THEOREM Attributing ==
    ASSUME NEW link
    PROVE  SL!OneFile(link)
<1> DEFINE info == link.info[1]
           ids == SL!IdListPath(link.ids[1])
           P == {info.ansi, info.unicode[1], ids, link.windows}
           text == IF link.info # <<>> THEN SL!LocalInfoPaths(info) ELSE <<>>
           read == IF link.ids # <<>> THEN <<ids>> ELSE <<>>
           all == IF SL!NativeRequired(link) THEN text \o (read \o <<link.windows>>) ELSE text
           target == SL!Corroborate(all)
<1>1. SUFFICES ASSUME SL!OwnedTarget(link) # SL!Nowhere PROVE SL!OneFile(link)
  BY DEF SL!OneFile
<1>2. /\ SL!OwnedTarget(link) = target /\ target # SL!Nowhere
      /\ link.ids # <<>> \/ link.info # <<>>
      /\ \A i \in DOMAIN link.relative : SL!ExistingOwnedPath(SL!LinkFolder \o link.relative[i]) = target
  BY <1>1 DEF SL!OwnedTarget, SL!Parses, SL!StoredPaths
<1>3. /\ text \in Seq(P)
      /\ link.info # <<>> => SL!ToSet(SL!LocalInfoPaths(info)) = {text[i] : i \in DOMAIN text}
  <2> DEFINE one == <<info.ansi>>
             two == <<info.ansi, info.unicode[1]>>
  <2>1. one \in Seq(P) /\ two \in Seq(P) /\ <<>> \in Seq(P)
    OBVIOUS
  <2> HIDE DEF one, two, P
  <2>2. SL!LocalInfoPaths(info) \in {one, two}
    BY DEF SL!LocalInfoPaths, one, two
  <2>3. QED
    BY <2>1, <2>2 DEF SL!ToSet
<1>4. PICK r \in Seq(P) : r = read
  <2>1. <<ids>> \in Seq(P) /\ <<>> \in Seq(P)
    OBVIOUS
  <2> HIDE DEF P
  <2>2. QED
    BY <2>1
<1>5. PICK w \in Seq(P) : w = <<link.windows>> /\ Len(w) = 1 /\ w[1] = link.windows
  <2>1. link.windows \in P
    OBVIOUS
  <2> HIDE DEF P
  <2>2. <<link.windows>> \in Seq(P) /\ Len(<<link.windows>>) = 1 /\ <<link.windows>>[1] = link.windows
    BY <2>1
  <2>3. QED
    BY <2>2
<1>6. link.ids # <<>> => Len(r) = 1 /\ r[1] = ids
  BY <1>4
<1> HIDE DEF P, text, read
<1>7. PICK m \in Seq(P) : m = r \o w
  BY ConcatProperties
<1>8. m[Len(m)] = link.windows /\ Len(m) >= 1 /\ (link.ids # <<>> => m[1] = ids)
  <2>1. Len(m) = Len(r) + Len(w) /\ \A i \in 1..Len(m) : m[i] = IF i <= Len(r) THEN r[i] ELSE w[i - Len(r)]
    BY <1>7, ConcatProperties
  <2>2. Len(r) \in Nat
    OBVIOUS
  <2>3. QED
    BY <1>5, <1>6, <2>1, <2>2
<1>9. PICK a \in Seq(P) : a = text \o m
  BY <1>3, ConcatProperties
<1>10. PICK every \in Seq(P) : every = all /\ every = IF SL!NativeRequired(link) THEN a ELSE text
  BY <1>3, <1>4, <1>5, <1>7, <1>9
<1>11. \A i \in DOMAIN text : \E j \in DOMAIN every : every[j] = text[i]
  <2>1. /\ Len(a) = Len(text) + Len(m) /\ Len(text) \in Nat /\ Len(m) \in Nat
        /\ \A i \in 1..Len(a) : a[i] = IF i <= Len(text) THEN text[i] ELSE m[i - Len(text)]
    BY <1>3, <1>9, ConcatProperties
  <2>2. ASSUME NEW i \in 1..Len(text) PROVE i \in 1..Len(a) /\ a[i] = text[i]
    BY <2>1
  <2>3. DOMAIN text = 1..Len(text) /\ DOMAIN a = 1..Len(a)
    BY <1>3
  <2>4. QED
    BY <1>10, <2>2, <2>3
<1>12. SL!NativeRequired(link) => \A i \in 1..Len(m) : \E j \in DOMAIN every : every[j] = m[i]
  <2>1. /\ Len(a) = Len(text) + Len(m) /\ Len(text) \in Nat /\ Len(m) \in Nat
        /\ \A i \in 1..Len(a) : a[i] = IF i <= Len(text) THEN text[i] ELSE m[i - Len(text)]
    BY <1>3, <1>9, ConcatProperties
  <2>2. ASSUME NEW i \in 1..Len(m) PROVE Len(text) + i \in 1..Len(a) /\ a[Len(text) + i] = m[i]
    <3>1. Len(text) + i \in 1..Len(a) /\ ~(Len(text) + i <= Len(text)) /\ Len(text) + i - Len(text) = i
      BY <2>1
    <3>2. QED
      BY <2>1, <3>1
  <2>3. DOMAIN a = 1..Len(a)
    OBVIOUS
  <2>4. QED
    BY <1>10, <2>2, <2>3
<1> HIDE DEF all
<1>13. every # <<>> /\ \A i \in DOMAIN every : SL!ExistingOwnedPath(every[i]) = target
  BY <1>2, <1>10, OneOwned
<1> HIDE DEF target
<1>14. PICK one \in DOMAIN every : TRUE
  BY <1>13
<1>15. target \in SL!Files /\ SL!IsStrictPrefix(SL!Root, target) /\ ~SL!Behind(target)
  BY <1>2, <1>13, <1>14, OwnedIs
<1>16. ASSUME NEW path, SL!ExistingOwnedPath(path) = target PROVE SL!LexicalPath(path) = target
  BY <1>2, <1>16, OwnedIs
<1>17. ASSUME NEW path \in SL!Stated(link) PROVE SL!ExistingOwnedPath(path) = target
  <2>1. CASE link.info # <<>> /\ path \in SL!ToSet(SL!LocalInfoPaths(info))
    BY <1>3, <1>11, <1>13, <2>1
  <2>2. CASE link.ids # <<>> /\ path = ids
    BY <1>7, <1>8, <1>12, <1>13, <2>2 DEF SL!NativeRequired
  <2>3. CASE SL!NativeRequired(link) /\ path = link.windows
    BY <1>7, <1>8, <1>12, <1>13, <2>3
  <2>4. CASE path \in {SL!LinkFolder \o link.relative[i] : i \in DOMAIN link.relative}
    BY <1>2, <2>4
  <2>5. QED
    BY <1>17, <2>1, <2>2, <2>3, <2>4 DEF SL!Stated
<1>18. SL!Stated(link) # {}
  <2>1. CASE link.ids # <<>>
    BY <2>1 DEF SL!Stated
  <2>2. CASE link.info # <<>>
    <3>1. SL!ToSet(SL!LocalInfoPaths(info)) # {}
      <4>1. SL!LocalInfoPaths(info) \in {<<info.ansi>>, <<info.ansi, info.unicode[1]>>}
        BY DEF SL!LocalInfoPaths
      <4>2. 1 \in DOMAIN SL!LocalInfoPaths(info)
        BY <4>1
      <4>3. QED
        BY <4>2 DEF SL!ToSet
    <3>2. QED
      BY <2>2, <3>1 DEF SL!Stated
  <2>3. QED
    BY <1>2, <2>1, <2>2
<1>19. QED
  BY <1>2, <1>15, <1>16, <1>17, <1>18 DEF SL!OneFile
=============================================================================
