---------------------------- MODULE CleanupProofs ----------------------------
(***************************************************************************)
(* Proofs about Cleanup, for any launchers, computers, sessions, records    *)
(* and failures: what its runs check of the journal and of the deletions,   *)
(* other than that pending intent is acted upon.                            *)
(***************************************************************************)
EXTENDS Cleanup, FiniteSetTheorems, TLAPS

-----------------------------------------------------------------------------
(* The inductive invariant.                                                 *)

\* The journal is finite and within its budget.
Budget == IsFiniteSet(pending) /\ WithinBudget

\* Whoever has got past the install lock is who holds it.
Held ==
    /\ \A p \in Launchers : pc[p] # "off" <=> installLock = p
    /\ \A s \in Sessions : watcher[s] \in Finishing <=> installLock = s

\* Nobody deletes or retires while a browser runs: QuietCleaning, one by one.
Quiet ==
    /\ \A p \in Launchers : pc[p] \in {"clean", "retire"} => running = {}
    /\ \A s \in Sessions : watcher[s] \in {"clean", "retire"} => running = {}

\* Who retires a record has left no trace on this computer.
Scrubbed ==
    /\ \A p \in Launchers : pc[p] = "retire" => Here = {}
    /\ \A s \in Sessions : watcher[s] = "retire" => Here = {}

\* Armed browsers that run, and traces of armed sessions, are recorded where
\* they are; sessions not yet started have neither, and none is armed.
Recorded ==
    /\ \A s \in armed : s <= started
    /\ \A s \in running : s <= started /\ (s \in armed => host \in pending)
    /\ \A t \in traces : t.of <= started /\ (t.of \in armed => t.at \in pending)

IInv == TypeOK /\ Budget /\ Held /\ Quiet /\ Scrubbed /\ Recorded

-----------------------------------------------------------------------------
(* The journal.                                                             *)

\* One record more counts for at most one, one record less for no more.
LEMMA Counting ==
    ASSUME NEW S, IsFiniteSet(S), NEW x
    PROVE  /\ Cardinality(S) \in Nat
           /\ IsFiniteSet(S \cup {x}) /\ Cardinality(S \cup {x}) <= Cardinality(S) + 1
           /\ IsFiniteSet(S \ {x}) /\ Cardinality(S \ {x}) <= Cardinality(S)
<1>1. Cardinality(S) \in Nat
  BY FS_CardinalityType
<1>2. IsFiniteSet(S \cup {x}) /\ Cardinality(S \cup {x}) <= Cardinality(S) + 1
  BY <1>1, FS_AddElement
<1>3. IsFiniteSet(S \ {x}) /\ Cardinality(S \ {x}) <= Cardinality(S)
  BY <1>1, FS_RemoveElement
<1>4. QED
  BY <1>1, <1>2, <1>3

\* What a step can do to the journal.
LEMMA JournalSteps ==
    ASSUME TypeOK, Next
    PROVE  \/ UNCHANGED <<pending, torn>>
           \/ ~Full /\ pending' = pending \cup {host} /\ torn' = torn
           \/ ~Full /\ pending' = pending /\ torn' = torn + 1
           \/ pending' = pending \ {host} /\ torn' = torn
<1>1. ASSUME NEW p \in Launchers, Begin(p) \/ LauncherStep(p) \/ Die(p)
      PROVE  \/ UNCHANGED <<pending, torn>>
             \/ ~Full /\ pending' = pending \cup {host} /\ torn' = torn
             \/ ~Full /\ pending' = pending /\ torn' = torn + 1
             \/ pending' = pending \ {host} /\ torn' = torn
  BY <1>1 DEF LauncherStep, Begin, Replay, Probe, Clean, Retire, Prepare, Arm, Spawn, SpawnWatcher,
     Answer, Die, Tear, journal
<1>2. ASSUME NEW s \in Sessions, WatcherStep(s) \/ WatcherDies(s) \/ Exit(s)
      PROVE  \/ UNCHANGED <<pending, torn>>
             \/ pending' = pending \ {host} /\ torn' = torn
  BY <1>2 DEF WatcherStep, WatcherDies, Coordinate, Wait, TakeInstallLock, FinalProbe, Scrub,
     Complete,
     Exit, journal
<1>3. CASE LeaveTrace \/ Replug
  BY <1>3 DEF LeaveTrace, Replug, Tear, journal
<1>4. QED
  BY <1>1, <1>2, <1>3 DEF Next

\* No step of any process takes the journal past its budget.
LEMMA BudgetStep ==
    ASSUME TypeOK, Budget, [Next]_vars
    PROVE  Budget' /\ torn' \in 0..MaxRecords
<1> USE CleanupAssumption
<1>1. /\ Cardinality(pending) \in Nat /\ torn \in Nat
      /\ IsFiniteSet(pending \cup {host}) /\ Cardinality(pending \cup {host}) <= Cardinality(pending) + 1
      /\ IsFiniteSet(pending \ {host}) /\ Cardinality(pending \ {host}) <= Cardinality(pending)
      /\ Cardinality(pending \cup {host}) \in Nat /\ Cardinality(pending \ {host}) \in Nat
  <2>1. IsFiniteSet(pending) /\ torn \in Nat
    BY DEF TypeOK, Budget
  <2>2. /\ Cardinality(pending) \in Nat
        /\ IsFiniteSet(pending \cup {host}) /\ Cardinality(pending \cup {host}) <= Cardinality(pending) + 1
        /\ IsFiniteSet(pending \ {host}) /\ Cardinality(pending \ {host}) <= Cardinality(pending)
    BY <2>1, Counting
  <2>3. Cardinality(pending \cup {host}) \in Nat
    BY <2>2, FS_CardinalityType
  <2>4. Cardinality(pending \ {host}) \in Nat
    BY <2>2, FS_CardinalityType
  <2>5. QED
    BY <2>1, <2>2, <2>3, <2>4
<1>2. CASE UNCHANGED <<pending, torn>>
  BY <1>2 DEF TypeOK, Budget, WithinBudget
<1>3. CASE ~Full /\ pending' = pending \cup {host} /\ torn' = torn
  BY <1>1, <1>3 DEF TypeOK, Budget, WithinBudget, Full
<1>4. CASE ~Full /\ pending' = pending /\ torn' = torn + 1
  BY <1>1, <1>4 DEF TypeOK, Budget, WithinBudget, Full
<1>5. CASE pending' = pending \ {host} /\ torn' = torn
  BY <1>1, <1>5 DEF TypeOK, Budget, WithinBudget
<1>6. CASE UNCHANGED vars
  BY <1>2, <1>6 DEF vars, journal
<1>7. QED
  BY <1>2, <1>3, <1>4, <1>5, <1>6, JournalSteps

-----------------------------------------------------------------------------
(* The steps.  A step that leaves the budget within its bound keeps the     *)
(* rest of the invariant.                                                   *)

Rest == TypeOK /\ Held /\ Quiet /\ Scrubbed /\ Recorded

\* A launcher's.
LEMMA LauncherSteps ==
    ASSUME IInv, torn' \in 0..MaxRecords, NEW q \in Launchers, Begin(q) \/ LauncherStep(q) \/ Die(q)
    PROVE  Rest'
<1> USE CleanupAssumption DEF Sessions, launching, browsing, journal, leftovers
<1>1. ASSUME NEW p \in Launchers, Begin(p) PROVE Rest'
  <2>1. TypeOK'
    BY <1>1 DEF IInv, TypeOK, Finishing, Attempt, Replaying, Here, Begin, Goto
  <2>2. Held'
    BY <1>1 DEF IInv, Held, TypeOK, Finishing, Begin, Goto
  <2>3. Quiet'
    BY <1>1 DEF IInv, Quiet, Held, TypeOK, Finishing, Begin, Goto
  <2>4. Scrubbed'
    BY <1>1 DEF IInv, Scrubbed, Quiet, Held, TypeOK, Here, Finishing, Begin, Goto
  <2>5. Recorded'
    BY <1>1 DEF IInv, Recorded, Scrubbed, Quiet, Held, TypeOK, Here, Finishing, Begin, Goto
  <2>6. QED
    BY <2>1, <2>2, <2>3, <2>4, <2>5 DEF Rest
<1>2. ASSUME NEW p \in Launchers, Replay(p) PROVE Rest'
  <2>1. TypeOK'
    BY <1>2 DEF IInv, TypeOK, Finishing, Attempt, Replaying, Here, Replay, Goto, Fault
  <2>2. Held'
    BY <1>2 DEF IInv, Held, TypeOK, Finishing, Replay, Goto, Fault
  <2>3. Quiet'
    BY <1>2 DEF IInv, Quiet, Held, TypeOK, Finishing, Replay, Goto, Fault
  <2>4. Scrubbed'
    BY <1>2 DEF IInv, Scrubbed, Quiet, Held, TypeOK, Here, Finishing, Replay, Goto, Fault
  <2>5. Recorded'
    BY <1>2 DEF IInv, Recorded, Scrubbed, Quiet, Held, TypeOK, Here, Finishing, Replay, Goto, Fault
  <2>6. QED
    BY <2>1, <2>2, <2>3, <2>4, <2>5 DEF Rest
<1>3. ASSUME NEW p \in Launchers, Probe(p) PROVE Rest'
  <2>1. TypeOK'
    BY <1>3 DEF IInv, TypeOK, Finishing, Attempt, Replaying, Here, Probe, Goto, Fault,
       Replayed, Freed
  <2>2. Held'
    BY <1>3 DEF IInv, Held, TypeOK, Finishing, Probe, Goto, Fault, Replayed, Freed
  <2>3. Quiet'
    BY <1>3 DEF IInv, Quiet, Held, TypeOK, Finishing, Probe, Goto, Fault, Replayed, Freed
  <2>4. Scrubbed'
    BY <1>3 DEF IInv, Scrubbed, Quiet, Held, TypeOK, Here, Finishing, Probe, Goto, Fault,
       Replayed, Freed
  <2>5. Recorded'
    BY <1>3 DEF IInv, Recorded, Scrubbed, Quiet, Held, TypeOK, Here, Finishing, Probe, Goto,
       Fault, Replayed, Freed
  <2>6. QED
    BY <2>1, <2>2, <2>3, <2>4, <2>5 DEF Rest
<1>4. ASSUME NEW p \in Launchers, Clean(p) PROVE Rest'
  <2>1. TypeOK'
    BY <1>4 DEF IInv, TypeOK, Finishing, Attempt, Replaying, Here, Clean, Goto, Fault,
       Replayed, Freed, ScrubAll, ScrubRest, ScrubSome
  <2>2. Held'
    BY <1>4 DEF IInv, Held, TypeOK, Finishing, Clean, Goto, Fault, Replayed, Freed, ScrubAll,
       ScrubRest, ScrubSome
  <2>3. Quiet'
    BY <1>4 DEF IInv, Quiet, Held, TypeOK, Finishing, Clean, Goto, Fault, Replayed, Freed,
       ScrubAll, ScrubRest, ScrubSome
  <2>4. Scrubbed'
    BY <1>4 DEF IInv, Scrubbed, Quiet, Held, TypeOK, Here, Finishing, Clean, Goto, Fault,
       Replayed, Freed, ScrubAll, ScrubRest, ScrubSome
  <2>5. Recorded'
    BY <1>4 DEF IInv, Recorded, Scrubbed, Quiet, Held, TypeOK, Here, Finishing, Clean, Goto,
       Fault, Replayed, Freed, ScrubAll, ScrubRest, ScrubSome
  <2>6. QED
    BY <2>1, <2>2, <2>3, <2>4, <2>5 DEF Rest
<1>5. ASSUME NEW p \in Launchers, Retire(p) PROVE Rest'
  <2>1. TypeOK'
    BY <1>5 DEF IInv, TypeOK, Finishing, Attempt, Replaying, Here, Retire, Goto, Fault,
       Replayed, Freed
  <2>2. Held'
    BY <1>5 DEF IInv, Held, TypeOK, Finishing, Retire, Goto, Fault, Replayed, Freed
  <2>3. Quiet'
    BY <1>5 DEF IInv, Quiet, Held, TypeOK, Finishing, Retire, Goto, Fault, Replayed, Freed
  <2>4. Scrubbed'
    BY <1>5 DEF IInv, Scrubbed, Quiet, Held, TypeOK, Here, Finishing, Retire, Goto, Fault,
       Replayed, Freed
  <2>5. Recorded'
    BY <1>5 DEF IInv, Recorded, Scrubbed, Quiet, Held, TypeOK, Here, Finishing, Retire, Goto,
       Fault, Replayed, Freed
  <2>6. QED
    BY <2>1, <2>2, <2>3, <2>4, <2>5 DEF Rest
<1>6. ASSUME NEW p \in Launchers, Prepare(p) PROVE Rest'
  <2>1. TypeOK'
    BY <1>6 DEF IInv, TypeOK, Finishing, Attempt, Replaying, Here, Prepare, Goto, Fault
  <2>2. Held'
    BY <1>6 DEF IInv, Held, TypeOK, Finishing, Prepare, Goto, Fault
  <2>3. Quiet'
    BY <1>6 DEF IInv, Quiet, Held, TypeOK, Finishing, Prepare, Goto, Fault
  <2>4. Scrubbed'
    BY <1>6 DEF IInv, Scrubbed, Quiet, Held, TypeOK, Here, Finishing, Prepare, Goto, Fault
  <2>5. Recorded'
    BY <1>6 DEF IInv, Recorded, Scrubbed, Quiet, Held, TypeOK, Here, Finishing, Prepare, Goto, Fault
  <2>6. QED
    BY <2>1, <2>2, <2>3, <2>4, <2>5 DEF Rest
<1>7. ASSUME NEW p \in Launchers, Arm(p) PROVE Rest'
  <2>1. TypeOK'
    BY <1>7 DEF IInv, TypeOK, Finishing, Attempt, Replaying, Here, Arm, Goto, Fault, Tear
  <2>2. Held'
    BY <1>7 DEF IInv, Held, TypeOK, Finishing, Arm, Goto, Fault, Tear
  <2>3. Quiet'
    BY <1>7 DEF IInv, Quiet, Held, TypeOK, Finishing, Arm, Goto, Fault, Tear
  <2>4. Scrubbed'
    BY <1>7 DEF IInv, Scrubbed, Quiet, Held, TypeOK, Here, Finishing, Arm, Goto, Fault, Tear
  <2>5. Recorded'
    BY <1>7 DEF IInv, Recorded, Scrubbed, Quiet, Held, TypeOK, Here, Finishing, Arm, Goto,
       Fault, Tear
  <2>6. QED
    BY <2>1, <2>2, <2>3, <2>4, <2>5 DEF Rest
<1>8. ASSUME NEW p \in Launchers, Spawn(p) PROVE Rest'
  <2>1. CASE UNCHANGED <<started, armed, told, running>>
    <3>1. UNCHANGED <<installLock, cleanupLock, recover, anyway, host, journal, watcher, leftovers>>
      BY <1>8 DEF Spawn
    <3>2. pc' \in {[pc EXCEPT ![p] = "error"], [pc EXCEPT ![p] = "refused"]} /\ pc[p] = "spawn"
      BY <1>8, <2>1 DEF IInv, TypeOK, Spawn, Goto
    <3>3. faults' \in 0..MaxFaults
      BY <1>8 DEF IInv, TypeOK, Spawn, Fault
    <3>4. TypeOK' /\ Held' /\ Quiet'
      BY <2>1, <3>1, <3>2, <3>3 DEF IInv, TypeOK, Attempt, Replaying, Held, Quiet
    <3>5. Scrubbed' /\ Recorded'
      BY <2>1, <3>1, <3>2 DEF IInv, TypeOK, Scrubbed, Recorded, Here
    <3>6. QED
      BY <3>4, <3>5 DEF Rest
  <2>2. CASE /\ started < MaxSessions
             /\ started' = started + 1
             /\ armed' = IF recover[p] /\ host \in pending THEN armed \cup {started'} ELSE armed
             /\ told' = IF recover[p] THEN told \cup {started'} ELSE told
             /\ running' = IF running = {} THEN {started'} ELSE running
             /\ Goto(p, "watch")
             /\ UNCHANGED faults
    <3>1. UNCHANGED <<installLock, cleanupLock, recover, anyway, host, journal, watcher, leftovers>>
      BY <1>8 DEF Spawn
    <3>2. pc' = [pc EXCEPT ![p] = "watch"] /\ pc[p] = "spawn"
      BY <1>8, <2>2 DEF Spawn, Goto
    <3>3. started \in Nat /\ started' \in Sessions /\ started' \in 0..MaxSessions
      BY <2>2 DEF IInv, TypeOK
    <3>4. armed' \subseteq Sessions /\ told' \subseteq Sessions /\ running' \subseteq Sessions
      BY <2>2, <3>3 DEF IInv, TypeOK
    <3>5. pc' \in [Launchers -> Attempt \cup {"off"}]
      BY <3>2 DEF IInv, TypeOK, Attempt, Replaying
    <3>6. TypeOK'
      BY <2>2, <3>1, <3>3, <3>4, <3>5 DEF IInv, TypeOK
    <3>7. \A s \in Sessions : ~(watcher[s] \in {"clean", "retire"})
      BY <3>2 DEF IInv, Held, Finishing, TypeOK
    <3>8. Held'
      BY <3>1, <3>2 DEF IInv, TypeOK, Held
    <3>9. \A q2 \in Launchers : pc'[q2] \notin {"clean", "retire"}
      BY <3>2 DEF IInv, Held, TypeOK
    <3>10. Quiet' /\ Scrubbed'
      BY <3>1, <3>7, <3>9 DEF Quiet, Scrubbed
    <3>11. \A s \in running' : s <= started' /\ (s \in armed' => host \in pending)
      <4>1. CASE running = {}
        <5>1. running' = {started'} /\ started' \notin armed
          BY <2>2, <3>3, <4>1 DEF IInv, Recorded
        <5>2. started' \in armed' => host \in pending
          BY <2>2, <5>1
        <5>3. QED
          BY <3>3, <5>1, <5>2
      <4>2. CASE running # {}
        <5>1. running' = running
          BY <2>2, <4>2
        <5>2. \A s \in running : s <= started /\ s # started' /\ s <= started'
          BY <2>2, <3>3 DEF IInv, Recorded, TypeOK
        <5>3. \A s \in running : s \in armed' => s \in armed
          BY <2>2, <5>2
        <5>4. QED
          BY <5>1, <5>2, <5>3 DEF IInv, Recorded
      <4>3. QED
        BY <4>1, <4>2
    <3>12. \A t \in traces : t.of <= started /\ t.of \in Sessions
      BY DEF IInv, Recorded, TypeOK
    <3>13. \A t \in traces : t.of # started' /\ t.of <= started'
      BY <2>2, <3>3, <3>12
    <3>14. \A t \in traces : t.of \in armed' => t.of \in armed
      BY <2>2, <3>13
    <3>15. \A s \in armed' : s <= started'
      BY <2>2, <3>3 DEF IInv, Recorded, TypeOK
    <3>16. Recorded'
      BY <3>1, <3>11, <3>13, <3>14, <3>15 DEF IInv, Recorded
    <3>17. QED
      BY <3>6, <3>8, <3>10, <3>16 DEF Rest
  <2>3. QED
    BY <1>8, <2>1, <2>2 DEF Spawn
<1>9. ASSUME NEW p \in Launchers, SpawnWatcher(p) PROVE Rest'
  <2>1. TypeOK'
    BY <1>9 DEF IInv, TypeOK, Finishing, Attempt, Replaying, Here, SpawnWatcher, Goto, Fault
  <2>2. Held'
    BY <1>9 DEF IInv, Held, TypeOK, Finishing, SpawnWatcher, Goto, Fault
  <2>3. Quiet'
    BY <1>9 DEF IInv, Quiet, Held, TypeOK, Finishing, SpawnWatcher, Goto, Fault
  <2>4. Scrubbed'
    BY <1>9 DEF IInv, Scrubbed, Quiet, Held, TypeOK, Here, Finishing, SpawnWatcher, Goto, Fault
  <2>5. Recorded'
    BY <1>9 DEF IInv, Recorded, Scrubbed, Quiet, Held, TypeOK, Here, Finishing, SpawnWatcher,
       Goto, Fault
  <2>6. QED
    BY <2>1, <2>2, <2>3, <2>4, <2>5 DEF Rest
<1>10. ASSUME NEW p \in Launchers, Answer(p) PROVE Rest'
  <2>1. TypeOK'
    BY <1>10 DEF IInv, TypeOK, Finishing, Attempt, Replaying, Here, Answer, Goto
  <2>2. Held'
    BY <1>10 DEF IInv, Held, TypeOK, Finishing, Answer, Goto
  <2>3. Quiet'
    BY <1>10 DEF IInv, Quiet, Held, TypeOK, Finishing, Answer, Goto
  <2>4. Scrubbed'
    BY <1>10 DEF IInv, Scrubbed, Quiet, Held, TypeOK, Here, Finishing, Answer, Goto
  <2>5. Recorded'
    BY <1>10 DEF IInv, Recorded, Scrubbed, Quiet, Held, TypeOK, Here, Finishing, Answer, Goto
  <2>6. QED
    BY <2>1, <2>2, <2>3, <2>4, <2>5 DEF Rest
<1>11. ASSUME NEW p \in Launchers, Die(p) PROVE Rest'
  <2>1. TypeOK'
    BY <1>11 DEF IInv, TypeOK, Finishing, Attempt, Replaying, Here, Die, CutShort, ScrubSome,
       Goto, Fault, Tear, Freed
  <2>2. Held'
    BY <1>11 DEF IInv, Held, TypeOK, Finishing, Die, CutShort, ScrubSome, Goto, Fault, Tear,
       Freed
  <2>3. Quiet'
    BY <1>11 DEF IInv, Quiet, Held, TypeOK, Finishing, Die, CutShort, ScrubSome, Goto, Fault,
       Tear, Freed
  <2>4. Scrubbed'
    BY <1>11 DEF IInv, Scrubbed, Quiet, Held, TypeOK, Here, Finishing, Die, CutShort, ScrubSome,
       Goto, Fault, Tear, Freed
  <2>5. Recorded'
    BY <1>11 DEF IInv, Recorded, Scrubbed, Quiet, Held, TypeOK, Here, Finishing, Die, CutShort,
       ScrubSome, Goto, Fault, Tear, Freed
  <2>6. QED
    BY <2>1, <2>2, <2>3, <2>4, <2>5 DEF Rest
<1>12. QED
  BY <1>1, <1>2, <1>3, <1>4, <1>5, <1>6, <1>7, <1>8, <1>9, <1>10, <1>11 DEF LauncherStep

\* A session's: its watcher and its browser.
LEMMA SessionSteps ==
    ASSUME IInv, torn' \in 0..MaxRecords, NEW r \in Sessions, WatcherStep(r) \/ WatcherDies(r) \/ Exit(r)
    PROVE  Rest'
<1> USE CleanupAssumption DEF Sessions, launching, browsing, journal, leftovers
<1>1. ASSUME NEW s \in Sessions, Coordinate(s) PROVE Rest'
  <2>1. TypeOK'
    BY <1>1 DEF IInv, TypeOK, Finishing, Attempt, Replaying, Here, Coordinate, Fault, Leave, Freed
  <2>2. Held'
    BY <1>1 DEF IInv, Held, TypeOK, Finishing, Coordinate, Fault, Leave, Freed
  <2>3. Quiet'
    BY <1>1 DEF IInv, Quiet, Held, TypeOK, Finishing, Coordinate, Fault, Leave, Freed
  <2>4. Scrubbed'
    BY <1>1 DEF IInv, Scrubbed, Quiet, Held, TypeOK, Here, Finishing, Coordinate, Fault,
       Leave, Freed
  <2>5. Recorded'
    BY <1>1 DEF IInv, Recorded, Scrubbed, Quiet, Held, TypeOK, Here, Finishing, Coordinate,
       Fault, Leave, Freed
  <2>6. QED
    BY <2>1, <2>2, <2>3, <2>4, <2>5 DEF Rest
<1>2. ASSUME NEW s \in Sessions, Wait(s) PROVE Rest'
  <2>1. TypeOK'
    BY <1>2 DEF IInv, TypeOK, Finishing, Attempt, Replaying, Here, Wait, Fault
  <2>2. Held'
    BY <1>2 DEF IInv, Held, TypeOK, Finishing, Wait, Fault
  <2>3. Quiet'
    BY <1>2 DEF IInv, Quiet, Held, TypeOK, Finishing, Wait, Fault
  <2>4. Scrubbed'
    BY <1>2 DEF IInv, Scrubbed, Quiet, Held, TypeOK, Here, Finishing, Wait, Fault
  <2>5. Recorded'
    BY <1>2 DEF IInv, Recorded, Scrubbed, Quiet, Held, TypeOK, Here, Finishing, Wait, Fault
  <2>6. QED
    BY <2>1, <2>2, <2>3, <2>4, <2>5 DEF Rest
<1>3. ASSUME NEW s \in Sessions, TakeInstallLock(s) PROVE Rest'
  <2>1. TypeOK'
    BY <1>3 DEF IInv, TypeOK, Finishing, Attempt, Replaying, Here, TakeInstallLock, Fault,
       Leave, Freed
  <2>2. Held'
    BY <1>3 DEF IInv, Held, TypeOK, Finishing, TakeInstallLock, Fault, Leave, Freed
  <2>3. Quiet'
    BY <1>3 DEF IInv, Quiet, Held, TypeOK, Finishing, TakeInstallLock, Fault, Leave, Freed
  <2>4. Scrubbed'
    BY <1>3 DEF IInv, Scrubbed, Quiet, Held, TypeOK, Here, Finishing, TakeInstallLock, Fault,
       Leave, Freed
  <2>5. Recorded'
    BY <1>3 DEF IInv, Recorded, Scrubbed, Quiet, Held, TypeOK, Here, Finishing,
       TakeInstallLock, Fault, Leave, Freed
  <2>6. QED
    BY <2>1, <2>2, <2>3, <2>4, <2>5 DEF Rest
<1>4. ASSUME NEW s \in Sessions, FinalProbe(s) PROVE Rest'
  <2>1. TypeOK'
    BY <1>4 DEF IInv, TypeOK, Finishing, Attempt, Replaying, Here, FinalProbe, Fault, Leave, Freed
  <2>2. Held'
    BY <1>4 DEF IInv, Held, TypeOK, Finishing, FinalProbe, Fault, Leave, Freed
  <2>3. Quiet'
    BY <1>4 DEF IInv, Quiet, Held, TypeOK, Finishing, FinalProbe, Fault, Leave, Freed
  <2>4. Scrubbed'
    BY <1>4 DEF IInv, Scrubbed, Quiet, Held, TypeOK, Here, Finishing, FinalProbe, Fault,
       Leave, Freed
  <2>5. Recorded'
    BY <1>4 DEF IInv, Recorded, Scrubbed, Quiet, Held, TypeOK, Here, Finishing, FinalProbe,
       Fault, Leave, Freed
  <2>6. QED
    BY <2>1, <2>2, <2>3, <2>4, <2>5 DEF Rest
<1>5. ASSUME NEW s \in Sessions, Scrub(s) PROVE Rest'
  <2>1. TypeOK'
    BY <1>5 DEF IInv, TypeOK, Finishing, Attempt, Replaying, Here, Scrub, Fault, Leave, Freed,
       ScrubAll, ScrubRest, ScrubSome
  <2>2. Held'
    BY <1>5 DEF IInv, Held, TypeOK, Finishing, Scrub, Fault, Leave, Freed, ScrubAll, ScrubRest,
       ScrubSome
  <2>3. Quiet'
    BY <1>5 DEF IInv, Quiet, Held, TypeOK, Finishing, Scrub, Fault, Leave, Freed, ScrubAll,
       ScrubRest, ScrubSome
  <2>4. Scrubbed'
    BY <1>5 DEF IInv, Scrubbed, Quiet, Held, TypeOK, Here, Finishing, Scrub, Fault, Leave,
       Freed, ScrubAll, ScrubRest, ScrubSome
  <2>5. Recorded'
    BY <1>5 DEF IInv, Recorded, Scrubbed, Quiet, Held, TypeOK, Here, Finishing, Scrub, Fault,
       Leave, Freed, ScrubAll, ScrubRest, ScrubSome
  <2>6. QED
    BY <2>1, <2>2, <2>3, <2>4, <2>5 DEF Rest
<1>6. ASSUME NEW s \in Sessions, Complete(s) PROVE Rest'
  <2>1. TypeOK'
    BY <1>6 DEF IInv, TypeOK, Finishing, Attempt, Replaying, Here, Complete, Fault, Leave, Freed
  <2>2. Held'
    BY <1>6 DEF IInv, Held, TypeOK, Finishing, Complete, Fault, Leave, Freed
  <2>3. Quiet'
    BY <1>6 DEF IInv, Quiet, Held, TypeOK, Finishing, Complete, Fault, Leave, Freed
  <2>4. Scrubbed'
    BY <1>6 DEF IInv, Scrubbed, Quiet, Held, TypeOK, Here, Finishing, Complete, Fault, Leave, Freed
  <2>5. Recorded'
    BY <1>6 DEF IInv, Recorded, Scrubbed, Quiet, Held, TypeOK, Here, Finishing, Complete,
       Fault, Leave, Freed
  <2>6. QED
    BY <2>1, <2>2, <2>3, <2>4, <2>5 DEF Rest
<1>7. ASSUME NEW s \in Sessions, WatcherDies(s) PROVE Rest'
  <2>1. TypeOK'
    BY <1>7 DEF IInv, TypeOK, Finishing, Attempt, Replaying, Here, WatcherDies, CutShort,
       ScrubSome, Fault, Leave, Freed
  <2>2. Held'
    BY <1>7 DEF IInv, Held, TypeOK, Finishing, WatcherDies, CutShort, ScrubSome, Fault, Leave,
       Freed
  <2>3. Quiet'
    BY <1>7 DEF IInv, Quiet, Held, TypeOK, Finishing, WatcherDies, CutShort, ScrubSome, Fault,
       Leave, Freed
  <2>4. Scrubbed'
    BY <1>7 DEF IInv, Scrubbed, Quiet, Held, TypeOK, Here, Finishing, WatcherDies, CutShort,
       ScrubSome, Fault, Leave, Freed
  <2>5. Recorded'
    BY <1>7 DEF IInv, Recorded, Scrubbed, Quiet, Held, TypeOK, Here, Finishing, WatcherDies,
       CutShort, ScrubSome, Fault, Leave, Freed
  <2>6. QED
    BY <2>1, <2>2, <2>3, <2>4, <2>5 DEF Rest
<1>8. ASSUME NEW s \in Sessions, Exit(s) PROVE Rest'
  <2>1. TypeOK'
    BY <1>8 DEF IInv, TypeOK, Finishing, Attempt, Replaying, Here, Exit
  <2>2. Held'
    BY <1>8 DEF IInv, Held, TypeOK, Finishing, Exit
  <2>3. Quiet'
    BY <1>8 DEF IInv, Quiet, Held, TypeOK, Finishing, Exit
  <2>4. Scrubbed'
    BY <1>8 DEF IInv, Scrubbed, Quiet, Held, TypeOK, Here, Finishing, Exit
  <2>5. Recorded'
    BY <1>8 DEF IInv, Recorded, Scrubbed, Quiet, Held, TypeOK, Here, Finishing, Exit
  <2>6. QED
    BY <2>1, <2>2, <2>3, <2>4, <2>5 DEF Rest
<1>9. QED
  BY <1>1, <1>2, <1>3, <1>4, <1>5, <1>6, <1>7, <1>8 DEF WatcherStep

\* The system's and the user's.
LEMMA OtherSteps ==
    ASSUME IInv, torn' \in 0..MaxRecords, LeaveTrace \/ Replug
    PROVE  Rest'
<1> USE CleanupAssumption DEF Sessions, launching, browsing, journal, leftovers
<1>1. ASSUME LeaveTrace PROVE Rest'
  <2>1. TypeOK'
    BY <1>1 DEF IInv, TypeOK, Finishing, Attempt, Replaying, Here, LeaveTrace
  <2>2. Held'
    BY <1>1 DEF IInv, Held, TypeOK, Finishing, LeaveTrace
  <2>3. Quiet'
    BY <1>1 DEF IInv, Quiet, Held, TypeOK, Finishing, LeaveTrace
  <2>4. Scrubbed'
    BY <1>1 DEF IInv, Scrubbed, Quiet, Held, TypeOK, Here, Finishing, LeaveTrace
  <2>5. Recorded'
    BY <1>1 DEF IInv, Recorded, Scrubbed, Quiet, Held, TypeOK, Here, Finishing, LeaveTrace
  <2>6. QED
    BY <2>1, <2>2, <2>3, <2>4, <2>5 DEF Rest
<1>2. ASSUME Replug PROVE Rest'
  <2>1. TypeOK'
    BY <1>2 DEF IInv, TypeOK, Finishing, Attempt, Replaying, Here, Replug, CutShort, ScrubSome,
       Fault, Tear
  <2>2. Held'
    BY <1>2 DEF IInv, Held, TypeOK, Finishing, Replug, CutShort, ScrubSome, Fault, Tear
  <2>3. Quiet'
    BY <1>2 DEF IInv, Quiet, Held, TypeOK, Finishing, Replug, CutShort, ScrubSome, Fault, Tear
  <2>4. Scrubbed'
    BY <1>2 DEF IInv, Scrubbed, Quiet, Held, TypeOK, Here, Finishing, Replug, CutShort,
       ScrubSome, Fault, Tear
  <2>5. Recorded'
    BY <1>2 DEF IInv, Recorded, Scrubbed, Quiet, Held, TypeOK, Here, Finishing, Replug,
       CutShort, ScrubSome, Fault, Tear
  <2>6. QED
    BY <2>1, <2>2, <2>3, <2>4, <2>5 DEF Rest
<1>3. QED
  BY <1>1, <1>2

\* The invariant holds of a folder that no process has touched.
LEMMA InvInit == Init => IInv
<1> USE CleanupAssumption DEF Sessions
<1>1. ASSUME Init PROVE TypeOK
  BY <1>1 DEF Init, TypeOK, Attempt
<1>2. ASSUME Init PROVE Budget
  BY <1>2, FS_EmptySet DEF Init, Budget, WithinBudget
<1>3. ASSUME Init PROVE Held /\ Quiet /\ Scrubbed /\ Recorded
  BY <1>3 DEF Init, Held, Quiet, Scrubbed, Recorded, Finishing
<1>4. QED
  BY <1>1, <1>2, <1>3 DEF IInv

\* Every step keeps it.
LEMMA InvStep == IInv /\ [Next]_vars => IInv'
<1> SUFFICES ASSUME IInv, [Next]_vars PROVE IInv'
  OBVIOUS
<1>1. Budget' /\ torn' \in 0..MaxRecords
  BY BudgetStep DEF IInv
<1>2. CASE Next
  <2>1. Rest'
    BY <1>1, <1>2, LauncherSteps, SessionSteps, OtherSteps DEF Next
  <2>2. QED
    BY <1>1, <2>1 DEF Rest, IInv
<1>3. CASE UNCHANGED vars
  BY <1>1, <1>3 DEF IInv, vars, launching, browsing, journal, leftovers, TypeOK, Held, Quiet,
     Scrubbed, Recorded, Here
<1>4. QED
  BY <1>2, <1>3

\* It holds always.
LEMMA Invariance == Spec => []IInv
  BY InvInit, InvStep, PTL DEF Spec

-----------------------------------------------------------------------------

\* Locks, labels, records and traces keep their types.
THEOREM Typing == Spec => []TypeOK
<1>1. IInv => TypeOK
  BY DEF IInv
<1>2. QED
  BY <1>1, Invariance, PTL

\* Nothing is deleted and no record retired while a browser of the folder
\* runs, however many launchers and watchers there are.
THEOREM Quietness == Spec => []QuietCleaning
<1>1. IInv => QuietCleaning
  BY DEF IInv, Quiet, QuietCleaning
<1>2. QED
  BY <1>1, Invariance, PTL

\* What an armed browser leaves is recorded until it has been removed.
THEOREM Coverage == Spec => []Covered
<1>1. IInv => Covered
  BY DEF IInv, Recorded, Covered
<1>2. QED
  BY <1>1, Invariance, PTL

\* The journal stays within what a listing accepts.
THEOREM Bounded == Spec => []WithinBudget
<1>1. IInv => WithinBudget
  BY DEF IInv, Budget
<1>2. QED
  BY <1>1, Invariance, PTL

\* Records are retired in their own context, and after their traces.
THEOREM Retirement == Spec => RetiredClean
<1>1. IInv /\ [Next]_vars => [\A h \in pending \ pending' : h = host /\ Here = {}]_vars
  <2> SUFFICES ASSUME IInv, Next, NEW h \in pending \ pending' PROVE h = host /\ Here = {}
    OBVIOUS
  <2>1. ASSUME NEW p \in Launchers, Begin(p) \/ LauncherStep(p) \/ Die(p)
        PROVE  h = host /\ Here = {}
    <3>1. CASE Retire(p)
      BY <3>1 DEF Retire, IInv, Scrubbed
    <3>2. CASE ~Retire(p)
      BY <2>1, <3>2 DEF LauncherStep, Begin, Replay, Probe, Clean, Prepare, Arm, Spawn,
         SpawnWatcher,
         Answer, Die, journal
    <3>3. QED
      BY <3>1, <3>2
  <2>2. ASSUME NEW s \in Sessions, WatcherStep(s) \/ WatcherDies(s) \/ Exit(s)
        PROVE  h = host /\ Here = {}
    <3>1. CASE Complete(s)
      BY <3>1 DEF Complete, IInv, Scrubbed
    <3>2. CASE ~Complete(s)
      BY <2>2, <3>2 DEF WatcherStep, WatcherDies, Coordinate, Wait, TakeInstallLock,
         FinalProbe, Scrub,
         Exit, journal
    <3>3. QED
      BY <3>1, <3>2
  <2>3. CASE LeaveTrace \/ Replug
    BY <2>3 DEF LeaveTrace, Replug, journal
  <2>4. QED
    BY <2>1, <2>2, <2>3 DEF Next
<1>2. QED
  BY <1>1, Invariance, PTL DEF Spec, RetiredClean
=============================================================================
