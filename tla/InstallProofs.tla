--------------------------- MODULE InstallProofs ---------------------------
(***************************************************************************)
(* Proofs about Install, for any number of launchers, releases, failures   *)
(* and crashes: its invariants, and, in a folder whose launchers all check *)
(* for updates, that it implements BrowserSlot and keeps a working browser. *)
(***************************************************************************)
EXTENDS Install, TLAPS

-----------------------------------------------------------------------------
(* Type correctness                                                        *)

LEMMA GotoType ==
    ASSUME TypeOK, NEW p \in Launchers, NEW label \in Labels, Goto(p, label)
    PROVE  /\ lock' \in Launchers \cup {NoOne}
           /\ pc' \in [Launchers -> Labels]
           /\ mode' \in [Launchers -> AllModes \cup {"none"}]
           /\ want' \in [Launchers -> Offers]
  BY DEF TypeOK, Goto

LEMMA LeaveType ==
    ASSUME TypeOK, NEW p \in Launchers, Leave(p)
    PROVE  /\ lock' \in Launchers \cup {NoOne}
           /\ pc' \in [Launchers -> Labels]
           /\ mode' \in [Launchers -> AllModes \cup {"none"}]
           /\ want' \in [Launchers -> Offers]
  BY DEF TypeOK, Leave, Labels, NoOffer, Offers

LEMMA FailType ==
    ASSUME TypeOK, NEW p \in Launchers, Fail(p)
    PROVE  /\ lock' \in Launchers \cup {NoOne}
           /\ pc' \in [Launchers -> Labels]
           /\ mode' \in [Launchers -> AllModes \cup {"none"}]
           /\ want' \in [Launchers -> Offers]
  BY GotoType, LeaveType DEF Fail, Labels, Holding

LEMMA ContentType == Nothing \in Content /\ Scraps \in Content
  BY DEF Nothing, Scraps, Content

LEMMA FaultType == ASSUME TypeOK, Fault PROVE faults' \in 0..MaxFaults
  BY InstallAssumption DEF TypeOK, Fault

LEMMA RenamedType ==
    ASSUME TypeOK, NEW a \in Dirs, NEW b \in Dirs
    PROVE  Renamed(a, b) \in [Dirs -> Content]
  BY ContentType DEF TypeOK, Renamed

LEMMA RemoveSomeType ==
    ASSUME TypeOK, NEW d \in Dirs, RemoveSome(d)
    PROVE  dir' \in [Dirs -> Content]
<1>1. PICK m \in BOOLEAN : dir' = [dir EXCEPT ![d].form = "scraps", ![d].marked = m]
  BY DEF RemoveSome, TypeOK, Content
<1>2. dir[d] \in Content
  BY DEF TypeOK
<1>3. dir' = [dir EXCEPT ![d] = [dir[d] EXCEPT !.form = "scraps", !.marked = m]]
  BY <1>1
<1>4. [dir[d] EXCEPT !.form = "scraps", !.marked = m] \in Content
  BY <1>2 DEF Content
<1>5. QED
  BY <1>3, <1>4 DEF TypeOK

LEMMA TypeInit == Init => TypeOK
<1> SUFFICES ASSUME Init PROVE TypeOK
  OBVIOUS
<1>1. dir \in [Dirs -> Content]
  <2>1. CASE dir = [d \in Dirs |-> Nothing]
    BY <2>1, ContentType
  <2>2. CASE dir # [d \in Dirs |-> Nothing]
    <3>1. PICK v \in Versions, t \in Targets \cup {NoTarget}, e \in BOOLEAN :
             dir = [d \in Dirs |->
                       IF d = "install"
                       THEN [form |-> "bundle", ver |-> v, tgt |-> t,
                             genuine |-> TRUE, marked |-> TRUE, ext |-> e]
                       ELSE Nothing]
      BY <2>2 DEF Init
    <3>2. [form |-> "bundle", ver |-> v, tgt |-> t,
           genuine |-> TRUE, marked |-> TRUE, ext |-> e] \in Content
      BY DEF Content
    <3>3. QED
      BY <3>1, <3>2, ContentType
  <2>3. QED
    BY <2>1, <2>2
<1>2. faults \in 0..MaxFaults
  BY InstallAssumption DEF Init
<1>3. QED
  BY <1>1, <1>2 DEF Init, TypeOK, Labels, NoOffer, Offers

\* Every step of the specification keeps the variables in their types.
LEMMA TypeStep == TypeOK /\ [Next]_vars => TypeOK'
<1> SUFFICES ASSUME TypeOK, [Next]_vars PROVE TypeOK'
  OBVIOUS
<1> USE GotoType, LeaveType, FailType, ContentType, FaultType, InstallAssumption
<1> USE DEF Labels, Holding, Recovering, Staging, Launching, Dirs
<1>1. ASSUME NEW p \in Launchers, Start(p) PROVE TypeOK'
  BY <1>1 DEF Start, TypeOK, AllModes
<1>2. ASSUME NEW p \in Launchers, Acquire(p) PROVE TypeOK'
  BY <1>2 DEF Acquire, TypeOK
<1>3. ASSUME NEW p \in Launchers, Refuse(p) PROVE TypeOK'
  BY <1>3 DEF Refuse, TypeOK
<1>4. ASSUME NEW p \in Launchers, RestoreBackup(p) PROVE TypeOK'
  BY <1>4, RenamedType DEF RestoreBackup, TypeOK
<1>5. ASSUME NEW p \in Launchers, SweepStage(p) PROVE TypeOK'
  BY <1>5, RemoveSomeType DEF SweepStage, TypeOK
<1>6. ASSUME NEW p \in Launchers, SweepBackup(p) PROVE TypeOK'
  BY <1>6, RemoveSomeType DEF SweepBackup, TypeOK
<1>7. ASSUME NEW p \in Launchers, Offline(p) PROVE TypeOK'
  BY <1>7 DEF Offline, TypeOK
<1>8. ASSUME NEW p \in Launchers, RefuseOlder(p) \/ UpToDate(p) \/ Defer(p) PROVE TypeOK'
  BY <1>8 DEF RefuseOlder, UpToDate, Defer, TypeOK
<1>9. ASSUME NEW p \in Launchers, CreateStage(p) PROVE TypeOK'
  BY <1>9 DEF CreateStage, TypeOK
<1>10. ASSUME NEW p \in Launchers, Download(p) PROVE TypeOK'
  BY <1>10 DEF Download, TypeOK, Offers
<1>11. ASSUME NEW p \in Launchers, Verify(p) PROVE TypeOK'
  BY <1>11 DEF Verify, TypeOK
<1>12. ASSUME NEW p \in Launchers, Extract(p) PROVE TypeOK'
  <2>1. ASSUME NEW f \in {"bundle", "scraps"}
        PROVE  [form |-> f, ver |-> want[p].ver, tgt |-> NoTarget,
                genuine |-> want[p].genuine, marked |-> FALSE, ext |-> FALSE] \in Content
    BY DEF TypeOK, Content, Offers
  <2>2. dir' \in [Dirs -> Content]
    BY <1>12, <2>1 DEF Extract, TypeOK
  <2>3. QED
    BY <1>12, <2>2 DEF Extract, TypeOK
<1>13. ASSUME NEW p \in Launchers, ValidateStage(p) PROVE TypeOK'
  BY <1>13 DEF ValidateStage, TypeOK
<1>14. ASSUME NEW p \in Launchers, Preserve(p) PROVE TypeOK'
  <2>1. dir["stage"] \in Content /\ dir["install"] \in Content
    BY DEF TypeOK
  <2>2. [dir["stage"] EXCEPT !.ext = dir["stage"].ext \/ dir["install"].ext] \in Content
    BY <2>1 DEF Content
  <2>3. dir' = [dir EXCEPT !["stage"] = [dir["stage"] EXCEPT !.ext = dir["stage"].ext \/ dir["install"].ext]]
    BY <1>14 DEF Preserve
  <2>4. dir' \in [Dirs -> Content]
    BY <2>2, <2>3 DEF TypeOK
  <2>5. QED
    BY <1>14, <2>4 DEF Preserve, TypeOK
<1>15. ASSUME NEW p \in Launchers, WriteMarker(p) PROVE TypeOK'
  BY <1>15 DEF WriteMarker, TypeOK, Content, Offers
<1>16. ASSUME NEW p \in Launchers, SetAside(p) PROVE TypeOK'
  BY <1>16, RenamedType DEF SetAside, TypeOK
<1>17. ASSUME NEW p \in Launchers, Promote(p) PROVE TypeOK'
  BY <1>17, RenamedType DEF Promote, TypeOK
<1>18. ASSUME NEW p \in Launchers, Rollback(p) PROVE TypeOK'
  BY <1>18, RenamedType DEF Rollback, TypeOK
<1>19. ASSUME NEW p \in Launchers, DropBackup(p) PROVE TypeOK'
  BY <1>19, RemoveSomeType DEF DropBackup, TypeOK
<1>20. ASSUME NEW p \in Launchers, Provision(p) PROVE TypeOK'
  <2>1. Touched("install") \in Content
    BY DEF Touched, TypeOK
  <2>2. [Touched("install") EXCEPT !.ext = TRUE] \in Content
    BY <2>1 DEF Content
  <2>3. dir' \in [Dirs -> Content]
    BY <1>20, <2>2 DEF Provision, TypeOK
  <2>4. QED
    BY <1>20, <2>3 DEF Provision, TypeOK
<1>21. ASSUME NEW p \in Launchers, Prepare(p) PROVE TypeOK'
  BY <1>21 DEF Prepare, Touched, TypeOK
<1>22. ASSUME NEW p \in Launchers, Spawn(p) PROVE TypeOK'
  BY <1>22 DEF Spawn, TypeOK
<1>23. ASSUME NEW p \in Launchers, StepFails(p) PROVE TypeOK'
  BY <1>23 DEF StepFails, TypeOK
<1>24. ASSUME NEW p \in Launchers, Remind(p) PROVE TypeOK'
  BY <1>24 DEF Remind, TypeOK
<1>25. ASSUME NEW p \in Launchers, Decide(p) PROVE TypeOK'
  BY <1>25 DEF Decide, TypeOK
<1>26. ASSUME NEW p \in Launchers, Retry(p) PROVE TypeOK'
  BY <1>26 DEF Retry, TypeOK, NoOffer, Offers
<1>27. ASSUME NEW p \in Launchers, CloseWindow(p) PROVE TypeOK'
  BY <1>27 DEF CloseWindow, TypeOK
<1>28. ASSUME NEW p \in Launchers, LaunchAnyway(p) PROVE TypeOK'
  BY <1>28 DEF LaunchAnyway, TypeOK
<1>29. ASSUME NEW p \in Launchers, Crash(p) PROVE TypeOK'
  BY <1>29 DEF Crash, TypeOK
<1>30. ASSUME NEW p \in Launchers, AcceptUpdate(p) PROVE TypeOK'
  <2>1. PICK v \in Versions, t \in Targets :
           want' = [want EXCEPT ![p] = [ver |-> v, tgt |-> t, genuine |-> FALSE]]
    BY <1>30 DEF AcceptUpdate
  <2>2. [ver |-> v, tgt |-> t, genuine |-> FALSE] \in Offers
    BY DEF Offers
  <2>3. QED
    BY <1>30, <2>1, <2>2 DEF AcceptUpdate, TypeOK
<1>31. CASE UNCHANGED vars
  BY <1>31 DEF vars, TypeOK
<1>32. QED
  BY <1>1, <1>2, <1>3, <1>4, <1>5, <1>6, <1>7, <1>8, <1>9, <1>10, <1>11, <1>12,
     <1>13, <1>14, <1>15, <1>16, <1>17, <1>18, <1>19, <1>20, <1>21, <1>22, <1>23,
     <1>24, <1>25, <1>26, <1>27, <1>28, <1>29, <1>30, <1>31
  DEF Next, Step, Answer

\* Type correctness: every reachable state of any folder is well typed.
THEOREM Typing == Spec => []TypeOK
  BY TypeInit, TypeStep, PTL DEF Spec

-----------------------------------------------------------------------------
(* The inductive invariant                                                 *)

\* Only the holder is past the lock, so a step of the holder that keeps it
\* among the holding labels leaves everybody else outside.
LEMMA GotoHolder ==
    ASSUME TypeOK, HolderOnly, NEW p \in Launchers, NEW label \in Holding,
           pc[p] \in Holding, Goto(p, label)
    PROVE  HolderOnly' /\ \A q \in Launchers \ {p} : pc'[q] \notin Holding
  BY InstallAssumption DEF TypeOK, HolderOnly, Goto

LEMMA StayHolder ==
    ASSUME TypeOK, HolderOnly, NEW p \in Launchers, NEW label \in Holding,
           pc[p] \in Holding, pc' \in {pc, [pc EXCEPT ![p] = label]}, UNCHANGED lock
    PROVE  HolderOnly' /\ \A q \in Launchers \ {p} : pc'[q] \notin Holding
  BY InstallAssumption DEF TypeOK, HolderOnly

LEMMA LeaveHolder ==
    ASSUME TypeOK, HolderOnly, NEW p \in Launchers, Leave(p)
    PROVE  /\ HolderOnly'
           /\ pc[p] \in Holding => \A q \in Launchers : pc'[q] \notin Holding
  BY InstallAssumption DEF TypeOK, HolderOnly, Leave, Holding, Recovering, Staging, Launching

LEMMA FailHolder ==
    ASSUME TypeOK, HolderOnly, NEW p \in Launchers, pc[p] \in Holding, Fail(p)
    PROVE  HolderOnly' /\ \A q \in Launchers \ {p} : pc'[q] \notin Holding
  BY GotoHolder, LeaveHolder DEF Fail, Holding

LEMMA FailPhase ==
    ASSUME TypeOK, NEW p \in Launchers, Fail(p) \/ Leave(p)
    PROVE  Phase(p)'
  BY DEF TypeOK, Fail, Leave, Goto, Phase, Staging

LEMMA OutsidePhase ==
    ASSUME NEW q \in Launchers, pc'[q] \notin Holding
    PROVE  Phase(q)'
  BY DEF Phase, Holding, Recovering, Staging

\* A launcher whose place and offer do not change keeps its phase while the
\* directories stay as they are.
LEMMA SamePhase ==
    ASSUME NEW q \in Launchers, Phase(q), UNCHANGED dir,
           pc'[q] = pc[q], want'[q] = want[q]
    PROVE  Phase(q)'
  BY DEF Phase, Exists

LEMMA InvInit == Init => IInv
<1> SUFFICES ASSUME Init PROVE IInv
  OBVIOUS
<1>1. TypeOK
  BY TypeInit
<1>2. HolderOnly
  BY InstallAssumption DEF Init, HolderOnly, Holding, Recovering, Staging, Launching
<1>3. Bundles
  BY InstallAssumption DEF Init, Bundles, Dirs, Nothing, Exists
<1>4. \A p \in Launchers : Phase(p)
  BY DEF Init, Phase, Staging
<1>5. QED
  BY <1>1, <1>2, <1>3, <1>4 DEF IInv

LEMMA InvStep == IInv /\ [Next]_vars => IInv'
<1> SUFFICES ASSUME IInv, [Next]_vars PROVE IInv'
  OBVIOUS
<1> USE DEF IInv, Holding, Recovering, Staging, Launching
<1>0. TypeOK'
  BY TypeStep
<1>00. ASSUME NEW p \in Launchers,
             HolderOnly', \A q \in Launchers \ {p} : pc'[q] \notin Holding,
             Bundles', Phase(p)'
      PROVE  IInv'
  <2>1. \A q \in Launchers : Phase(q)'
    BY <1>00, OutsidePhase
  <2>2. QED
    BY <1>0, <1>00, <2>1
<1>1. ASSUME NEW p \in Launchers, RestoreBackup(p) PROVE IInv'
  <2>1. HolderOnly' /\ \A q \in Launchers \ {p} : pc'[q] \notin Holding
    BY <1>1, GotoHolder, LeaveHolder, FailHolder DEF RestoreBackup
  <2>2. Bundles'
    BY <1>1 DEF RestoreBackup, TypeOK, Phase, Bundles, Exists, Renamed, Nothing, Dirs, Content
  <2>3. Phase(p)'
    BY <1>1, FailPhase DEF RestoreBackup, TypeOK, Phase, Goto, Exists, Renamed, Nothing, Dirs, Content
  <2>4. QED
    BY <1>00, <2>1, <2>2, <2>3
<1>2. ASSUME NEW p \in Launchers, SweepStage(p) PROVE IInv'
  <2>1. HolderOnly' /\ \A q \in Launchers \ {p} : pc'[q] \notin Holding
    <3>1. CASE UNCHANGED <<lock, pc>>
      BY <1>2, <3>1, StayHolder DEF SweepStage
    <3>2. CASE ~UNCHANGED <<lock, pc>>
      BY <1>2, <3>2, GotoHolder DEF SweepStage
    <3>3. QED
      BY <3>1, <3>2
  <2>2. Bundles'
    BY <1>2 DEF SweepStage, TypeOK, Phase, Bundles, Exists, RemoveSome, Nothing, Dirs, Content
  <2>3. Phase(p)'
    BY <1>2, FailPhase DEF SweepStage, TypeOK, Phase, Goto, Exists, RemoveSome, Nothing, Dirs, Content
  <2>4. QED
    BY <1>00, <2>1, <2>2, <2>3
<1>3. ASSUME NEW p \in Launchers, SweepBackup(p) PROVE IInv'
  <2>1. HolderOnly' /\ \A q \in Launchers \ {p} : pc'[q] \notin Holding
    <3>1. CASE UNCHANGED <<lock, pc>>
      BY <1>3, <3>1, StayHolder DEF SweepBackup
    <3>2. CASE ~UNCHANGED <<lock, pc>>
      BY <1>3, <3>2, GotoHolder DEF SweepBackup
    <3>3. QED
      BY <3>1, <3>2
  <2>2. Bundles'
    BY <1>3 DEF SweepBackup, TypeOK, Phase, Bundles, Exists, RemoveSome, Nothing, Dirs, Content
  <2>3. Phase(p)'
    <3>1. CASE pc'[p] = "sweepBackup"
      BY <1>3, <3>1 DEF SweepBackup, TypeOK, Phase, Exists, RemoveSome, Dirs, Content
    <3>2. CASE pc' = [pc EXCEPT ![p] = "resolve"]
      <4>1. dir["stage"].form = "missing" /\ dir'["stage"] = dir["stage"]
        BY <1>3, <3>2 DEF SweepBackup, TypeOK, Phase, Exists, RemoveSome, Dirs
      <4>2. dir'["backup"].form = "missing"
        BY <1>3, <3>2 DEF SweepBackup, TypeOK, Phase, Exists, RemoveSome, Nothing, Dirs
      <4>3. QED
        BY <3>2, <4>1, <4>2 DEF TypeOK, Phase, Exists
    <3>3. QED
      BY <1>3, <3>1, <3>2 DEF SweepBackup, Goto, TypeOK
  <2>4. QED
    BY <1>00, <2>1, <2>2, <2>3
<1>4. ASSUME NEW p \in Launchers, Offline(p) PROVE IInv'
  <2>1. HolderOnly' /\ \A q \in Launchers \ {p} : pc'[q] \notin Holding
    BY <1>4, GotoHolder, LeaveHolder, FailHolder DEF Offline
  <2>2. Bundles'
    BY <1>4 DEF Offline, TypeOK, Phase, Bundles, Exists
  <2>3. Phase(p)'
    BY <1>4, FailPhase DEF Offline, TypeOK, Phase, Goto, Exists
  <2>4. QED
    BY <1>00, <2>1, <2>2, <2>3
<1>5. ASSUME NEW p \in Launchers, RefuseOlder(p) PROVE IInv'
  <2>1. HolderOnly' /\ \A q \in Launchers \ {p} : pc'[q] \notin Holding
    BY <1>5, GotoHolder, LeaveHolder, FailHolder DEF RefuseOlder
  <2>2. Bundles'
    BY <1>5 DEF RefuseOlder, TypeOK, Phase, Bundles, Exists
  <2>3. Phase(p)'
    BY <1>5, FailPhase DEF RefuseOlder, TypeOK, Phase, Goto, Exists
  <2>4. QED
    BY <1>00, <2>1, <2>2, <2>3
<1>6. ASSUME NEW p \in Launchers, UpToDate(p) PROVE IInv'
  <2>1. HolderOnly' /\ \A q \in Launchers \ {p} : pc'[q] \notin Holding
    BY <1>6, GotoHolder, LeaveHolder, FailHolder DEF UpToDate
  <2>2. Bundles'
    BY <1>6 DEF UpToDate, TypeOK, Phase, Bundles, Exists
  <2>3. Phase(p)'
    BY <1>6, FailPhase DEF UpToDate, TypeOK, Phase, Goto, Exists
  <2>4. QED
    BY <1>00, <2>1, <2>2, <2>3
<1>7. ASSUME NEW p \in Launchers, Defer(p) PROVE IInv'
  <2>1. HolderOnly' /\ \A q \in Launchers \ {p} : pc'[q] \notin Holding
    BY <1>7, GotoHolder, LeaveHolder, FailHolder DEF Defer
  <2>2. Bundles'
    BY <1>7 DEF Defer, TypeOK, Phase, Bundles, Exists
  <2>3. Phase(p)'
    BY <1>7, FailPhase DEF Defer, TypeOK, Phase, Goto, Exists
  <2>4. QED
    BY <1>00, <2>1, <2>2, <2>3
<1>8. ASSUME NEW p \in Launchers, AcceptUpdate(p) PROVE IInv'
  <2>1. HolderOnly' /\ \A q \in Launchers \ {p} : pc'[q] \notin Holding
    BY <1>8, StayHolder DEF AcceptUpdate
  <2>2. Bundles'
    BY <1>8 DEF AcceptUpdate, TypeOK, Phase, Bundles, Exists
  <2>3. Phase(p)'
    BY <1>8, FailPhase, InstallAssumption DEF AcceptUpdate, TypeOK, Phase, Goto, Exists
  <2>4. QED
    BY <1>00, <2>1, <2>2, <2>3
<1>9. ASSUME NEW p \in Launchers, Decide(p) PROVE IInv'
  <2>1. HolderOnly' /\ \A q \in Launchers \ {p} : pc'[q] \notin Holding
    BY <1>9, GotoHolder, LeaveHolder, FailHolder DEF Decide
  <2>2. Bundles'
    BY <1>9 DEF Decide, TypeOK, Phase, Bundles, Exists
  <2>3. Phase(p)'
    BY <1>9, FailPhase DEF Decide, TypeOK, Phase, Goto, Exists
  <2>4. QED
    BY <1>00, <2>1, <2>2, <2>3
<1>10. ASSUME NEW p \in Launchers, Remind(p) PROVE IInv'
  <2>1. HolderOnly' /\ \A q \in Launchers \ {p} : pc'[q] \notin Holding
    BY <1>10, GotoHolder, LeaveHolder, FailHolder DEF Remind
  <2>2. Bundles'
    BY <1>10 DEF Remind, TypeOK, Phase, Bundles, Exists
  <2>3. Phase(p)'
    BY <1>10, FailPhase DEF Remind, TypeOK, Phase, Goto, Exists
  <2>4. QED
    BY <1>00, <2>1, <2>2, <2>3
<1>11. ASSUME NEW p \in Launchers, CreateStage(p) PROVE IInv'
  <2>1. HolderOnly' /\ \A q \in Launchers \ {p} : pc'[q] \notin Holding
    BY <1>11, GotoHolder, LeaveHolder, FailHolder DEF CreateStage
  <2>2. Bundles'
    BY <1>11 DEF CreateStage, TypeOK, Phase, Bundles, Exists, Scraps, Nothing, Dirs, Content
  <2>3. Phase(p)'
    BY <1>11, FailPhase DEF CreateStage, TypeOK, Phase, Goto, Exists, Scraps, Nothing, Dirs, Content
  <2>4. QED
    BY <1>00, <2>1, <2>2, <2>3
<1>12. ASSUME NEW p \in Launchers, Download(p) PROVE IInv'
  <2>1. HolderOnly' /\ \A q \in Launchers \ {p} : pc'[q] \notin Holding
    BY <1>12, StayHolder DEF Download
  <2>2. Bundles'
    BY <1>12 DEF Download, TypeOK, Phase, Bundles, Exists
  <2>3. Phase(p)'
    BY <1>12, FailPhase DEF Download, TypeOK, Phase, Goto, Exists
  <2>4. QED
    BY <1>00, <2>1, <2>2, <2>3
<1>13. ASSUME NEW p \in Launchers, Verify(p) PROVE IInv'
  <2>1. HolderOnly' /\ \A q \in Launchers \ {p} : pc'[q] \notin Holding
    BY <1>13, GotoHolder, LeaveHolder, FailHolder DEF Verify
  <2>2. Bundles'
    BY <1>13 DEF Verify, TypeOK, Phase, Bundles, Exists
  <2>3. Phase(p)'
    BY <1>13, FailPhase DEF Verify, TypeOK, Phase, Goto, Exists
  <2>4. QED
    BY <1>00, <2>1, <2>2, <2>3
<1>14. ASSUME NEW p \in Launchers, Extract(p) PROVE IInv'
  <2>1. HolderOnly' /\ \A q \in Launchers \ {p} : pc'[q] \notin Holding
    BY <1>14, GotoHolder, LeaveHolder, FailHolder DEF Extract
  <2>2. Bundles'
    BY <1>14 DEF Extract, TypeOK, Phase, Bundles, Exists, Dirs, Content
  <2>3. Phase(p)'
    BY <1>14, FailPhase DEF Extract, TypeOK, Phase, Goto, Exists, Dirs, Content
  <2>4. QED
    BY <1>00, <2>1, <2>2, <2>3
<1>15. ASSUME NEW p \in Launchers, ValidateStage(p) PROVE IInv'
  <2>1. HolderOnly' /\ \A q \in Launchers \ {p} : pc'[q] \notin Holding
    BY <1>15, GotoHolder, LeaveHolder, FailHolder DEF ValidateStage
  <2>2. Bundles'
    BY <1>15 DEF ValidateStage, TypeOK, Phase, Bundles, Exists
  <2>3. Phase(p)'
    BY <1>15, FailPhase DEF ValidateStage, TypeOK, Phase, Goto, Exists
  <2>4. QED
    BY <1>00, <2>1, <2>2, <2>3
<1>16. ASSUME NEW p \in Launchers, Preserve(p) PROVE IInv'
  <2>1. HolderOnly' /\ \A q \in Launchers \ {p} : pc'[q] \notin Holding
    BY <1>16, GotoHolder, LeaveHolder, FailHolder DEF Preserve
  <2>2. Bundles'
    BY <1>16 DEF Preserve, TypeOK, Phase, Bundles, Exists, Dirs, Content
  <2>3. Phase(p)'
    BY <1>16, FailPhase DEF Preserve, TypeOK, Phase, Goto, Exists, Dirs, Content
  <2>4. QED
    BY <1>00, <2>1, <2>2, <2>3
<1>17. ASSUME NEW p \in Launchers, WriteMarker(p) PROVE IInv'
  <2>1. HolderOnly' /\ \A q \in Launchers \ {p} : pc'[q] \notin Holding
    BY <1>17, GotoHolder, LeaveHolder, FailHolder DEF WriteMarker
  <2>2. Bundles'
    BY <1>17 DEF WriteMarker, TypeOK, Phase, Bundles, Exists, Dirs, Content
  <2>3. Phase(p)'
    BY <1>17, FailPhase DEF WriteMarker, TypeOK, Phase, Goto, Exists, Dirs, Content
  <2>4. QED
    BY <1>00, <2>1, <2>2, <2>3
<1>18. ASSUME NEW p \in Launchers, SetAside(p) PROVE IInv'
  <2>1. HolderOnly' /\ \A q \in Launchers \ {p} : pc'[q] \notin Holding
    BY <1>18, GotoHolder, LeaveHolder, FailHolder DEF SetAside
  <2>2. Bundles'
    BY <1>18 DEF SetAside, TypeOK, Phase, Bundles, Exists, Renamed, Nothing, Dirs, Content
  <2>3. Phase(p)'
    BY <1>18, FailPhase DEF SetAside, TypeOK, Phase, Goto, Exists, Renamed, Nothing, Dirs, Content
  <2>4. QED
    BY <1>00, <2>1, <2>2, <2>3
<1>19. ASSUME NEW p \in Launchers, Promote(p) PROVE IInv'
  <2>1. HolderOnly' /\ \A q \in Launchers \ {p} : pc'[q] \notin Holding
    BY <1>19, GotoHolder, LeaveHolder, FailHolder DEF Promote
  <2>2. Bundles'
    BY <1>19 DEF Promote, TypeOK, Phase, Bundles, Exists, Renamed, Nothing, Dirs, Content
  <2>3. Phase(p)'
    BY <1>19, FailPhase DEF Promote, TypeOK, Phase, Goto, Exists, Renamed, Nothing, Dirs, Content
  <2>4. QED
    BY <1>00, <2>1, <2>2, <2>3
<1>20. ASSUME NEW p \in Launchers, Rollback(p) PROVE IInv'
  <2>1. HolderOnly' /\ \A q \in Launchers \ {p} : pc'[q] \notin Holding
    BY <1>20, GotoHolder, LeaveHolder, FailHolder DEF Rollback
  <2>2. Bundles'
    BY <1>20 DEF Rollback, TypeOK, Phase, Bundles, Exists, Renamed, Nothing, Dirs, Content
  <2>3. Phase(p)'
    BY <1>20, FailPhase DEF Rollback, TypeOK, Phase, Goto, Exists, Renamed, Nothing, Dirs, Content
  <2>4. QED
    BY <1>00, <2>1, <2>2, <2>3
<1>21. ASSUME NEW p \in Launchers, DropBackup(p) PROVE IInv'
  <2>1. HolderOnly' /\ \A q \in Launchers \ {p} : pc'[q] \notin Holding
    <3>1. CASE UNCHANGED <<lock, pc>>
      BY <1>21, <3>1, StayHolder DEF DropBackup
    <3>2. CASE ~UNCHANGED <<lock, pc>>
      BY <1>21, <3>2, GotoHolder, LeaveHolder DEF DropBackup
    <3>3. QED
      BY <3>1, <3>2
  <2>2. Bundles'
    BY <1>21 DEF DropBackup, TypeOK, Phase, Bundles, Exists, RemoveSome, Nothing, Dirs, Content
  <2>3. Phase(p)'
    BY <1>21, FailPhase DEF DropBackup, TypeOK, Phase, Goto, Exists, RemoveSome, Nothing, Dirs, Content
  <2>4. QED
    BY <1>00, <2>1, <2>2, <2>3
<1>22. ASSUME NEW p \in Launchers, Provision(p) PROVE IInv'
  <2>1. HolderOnly' /\ \A q \in Launchers \ {p} : pc'[q] \notin Holding
    BY <1>22, GotoHolder, LeaveHolder, FailHolder DEF Provision
  <2>2. Bundles'
    BY <1>22 DEF Provision, TypeOK, Phase, Bundles, Exists, Touched, Scraps, Nothing, Dirs, Content
  <2>3. Phase(p)'
    BY <1>22, FailPhase DEF Provision, TypeOK, Phase, Goto, Exists, Touched, Scraps, Nothing, Dirs, Content
  <2>4. QED
    BY <1>00, <2>1, <2>2, <2>3
<1>23. ASSUME NEW p \in Launchers, Prepare(p) PROVE IInv'
  <2>1. HolderOnly' /\ \A q \in Launchers \ {p} : pc'[q] \notin Holding
    BY <1>23, GotoHolder, LeaveHolder, FailHolder DEF Prepare
  <2>2. Bundles'
    BY <1>23 DEF Prepare, TypeOK, Phase, Bundles, Exists, Touched, Scraps, Nothing, Dirs, Content
  <2>3. Phase(p)'
    BY <1>23, FailPhase DEF Prepare, TypeOK, Phase, Goto, Exists, Touched, Scraps, Nothing, Dirs, Content
  <2>4. QED
    BY <1>00, <2>1, <2>2, <2>3
<1>24. ASSUME NEW p \in Launchers, Spawn(p) PROVE IInv'
  <2>1. HolderOnly' /\ \A q \in Launchers \ {p} : pc'[q] \notin Holding
    BY <1>24, GotoHolder, LeaveHolder, FailHolder DEF Spawn
  <2>2. Bundles'
    BY <1>24 DEF Spawn, TypeOK, Phase, Bundles, Exists
  <2>3. Phase(p)'
    BY <1>24, FailPhase DEF Spawn, TypeOK, Phase, Goto, Exists
  <2>4. QED
    BY <1>00, <2>1, <2>2, <2>3
<1>25. ASSUME NEW p \in Launchers, StepFails(p) PROVE IInv'
  <2>1. HolderOnly' /\ \A q \in Launchers \ {p} : pc'[q] \notin Holding
    BY <1>25, GotoHolder, LeaveHolder, FailHolder DEF StepFails
  <2>2. Bundles'
    BY <1>25 DEF StepFails, TypeOK, Phase, Bundles, Exists
  <2>3. Phase(p)'
    BY <1>25, FailPhase DEF StepFails, TypeOK, Phase, Goto, Exists
  <2>4. QED
    BY <1>00, <2>1, <2>2, <2>3
<1>26. ASSUME NEW p \in Launchers, LaunchAnyway(p) PROVE IInv'
  <2>1. HolderOnly' /\ \A q \in Launchers \ {p} : pc'[q] \notin Holding
    BY <1>26, GotoHolder, LeaveHolder, FailHolder DEF LaunchAnyway
  <2>2. Bundles'
    BY <1>26 DEF LaunchAnyway, TypeOK, Phase, Bundles, Exists
  <2>3. Phase(p)'
    BY <1>26, FailPhase DEF LaunchAnyway, TypeOK, Phase, Goto, Exists
  <2>4. QED
    BY <1>00, <2>1, <2>2, <2>3
<1>27. ASSUME NEW p \in Launchers, Start(p) PROVE IInv'
  <2>1. HolderOnly'
    BY <1>27, LeaveHolder, InstallAssumption DEF Start, TypeOK, HolderOnly, Goto
  <2>2. Bundles'
    BY <1>27 DEF Start, Bundles, Exists
  <2>3. \A q \in Launchers : Phase(q)'
    BY <1>27, SamePhase, OutsidePhase DEF Start, TypeOK, Phase, Goto, Leave
  <2>4. QED
    BY <1>0, <2>1, <2>2, <2>3
<1>28. ASSUME NEW p \in Launchers, Acquire(p) PROVE IInv'
  <2>1. HolderOnly'
    BY <1>28, LeaveHolder, InstallAssumption DEF Acquire, TypeOK, HolderOnly, Goto
  <2>2. Bundles'
    BY <1>28 DEF Acquire, Bundles, Exists
  <2>3. \A q \in Launchers : Phase(q)'
    BY <1>28, SamePhase, OutsidePhase DEF Acquire, TypeOK, Phase, Goto, Leave
  <2>4. QED
    BY <1>0, <2>1, <2>2, <2>3
<1>29. ASSUME NEW p \in Launchers, Refuse(p) PROVE IInv'
  <2>1. HolderOnly'
    BY <1>29, LeaveHolder, InstallAssumption DEF Refuse, TypeOK, HolderOnly, Goto
  <2>2. Bundles'
    BY <1>29 DEF Refuse, Bundles, Exists
  <2>3. \A q \in Launchers : Phase(q)'
    BY <1>29, SamePhase, OutsidePhase DEF Refuse, TypeOK, Phase, Goto, Leave
  <2>4. QED
    BY <1>0, <2>1, <2>2, <2>3
<1>30. ASSUME NEW p \in Launchers, Retry(p) PROVE IInv'
  <2>1. HolderOnly'
    BY <1>30, LeaveHolder, InstallAssumption DEF Retry, TypeOK, HolderOnly, Goto
  <2>2. Bundles'
    BY <1>30 DEF Retry, Bundles, Exists
  <2>3. \A q \in Launchers : Phase(q)'
    BY <1>30, SamePhase, OutsidePhase DEF Retry, TypeOK, Phase, Goto, Leave
  <2>4. QED
    BY <1>0, <2>1, <2>2, <2>3
<1>31. ASSUME NEW p \in Launchers, CloseWindow(p) PROVE IInv'
  <2>1. HolderOnly'
    BY <1>31, LeaveHolder, InstallAssumption DEF CloseWindow, TypeOK, HolderOnly, Goto
  <2>2. Bundles'
    BY <1>31 DEF CloseWindow, Bundles, Exists
  <2>3. \A q \in Launchers : Phase(q)'
    BY <1>31, SamePhase, OutsidePhase DEF CloseWindow, TypeOK, Phase, Goto, Leave
  <2>4. QED
    BY <1>0, <2>1, <2>2, <2>3
<1>32. ASSUME NEW p \in Launchers, Crash(p) PROVE IInv'
  <2>1. HolderOnly'
    BY <1>32, LeaveHolder, InstallAssumption DEF Crash, TypeOK, HolderOnly, Goto
  <2>2. Bundles'
    BY <1>32 DEF Crash, Bundles, Exists
  <2>3. \A q \in Launchers : Phase(q)'
    BY <1>32, SamePhase, OutsidePhase DEF Crash, TypeOK, Phase, Goto, Leave
  <2>4. QED
    BY <1>0, <2>1, <2>2, <2>3
<1>33. CASE UNCHANGED vars
  <2>1. HolderOnly' /\ Bundles'
    BY <1>33 DEF vars, HolderOnly, Bundles, Exists
  <2>2. \A q \in Launchers : Phase(q)'
    BY <1>33, SamePhase DEF vars
  <2>3. QED
    BY <1>0, <2>1, <2>2
<1>34. QED
  BY <1>1, <1>2, <1>3, <1>4, <1>5, <1>6, <1>7, <1>8, <1>9, <1>10, <1>11, <1>12,
     <1>13, <1>14, <1>15, <1>16, <1>17, <1>18, <1>19, <1>20, <1>21, <1>22,
     <1>23, <1>24, <1>25, <1>26, <1>27, <1>28, <1>29, <1>30, <1>31, <1>32, <1>33
  DEF Next, Step, Answer

-----------------------------------------------------------------------------
(* The theorems: any folder                                                *)

LEMMA Inductive == Spec => []IInv
  BY InvInit, InvStep, PTL DEF Spec

\* The lock file is open exactly as long as an attempt is past it, and it is
\* never open twice: InstanceLock excludes, for any number of launchers.
THEOREM Exclusion == Spec => []HolderOnly
<1>1. IInv => HolderOnly
  BY DEF IInv
<1>2. QED
  BY Inductive, <1>1, PTL

\* The marker of the install directory is only ever found in a complete and
\* verified bundle, whatever fails or dies, and in every way to start.
THEOREM MarkerSafety == Spec => []MarkerTellsTruth
<1>1. IInv => MarkerTellsTruth
  BY DEF IInv, Bundles, MarkerTellsTruth
<1>2. QED
  BY Inductive, <1>1, PTL

\* Recovery has always emptied stage and backup before an attempt decides,
\* and what is promoted is complete, verified and marked.
THEOREM RecoveredFirst == Spec => []Recovered
<1>1. IInv => Recovered
  BY DEF IInv, Phase, Recovered
<1>2. QED
  BY Inductive, <1>1, PTL

-----------------------------------------------------------------------------
(* The working browser                                                     *)

\* Working reads nothing but the install and the backup.
LEMMA WorkingSame ==
    ASSUME dir'["install"] = dir["install"], dir'["backup"] = dir["backup"]
    PROVE  Working' = Working
  BY DEF Working, Build

\* A complete install is the working browser, whatever the backup is.
LEMMA WorkingInstalled ==
    ASSUME dir["install"].form = "bundle", dir'["install"] = dir["install"]
    PROVE  Working' = Working
  BY DEF Working, Build

\* A launcher that does not move keeps what it carries while the stage and
\* the working browser stay, and while it stays installed.
LEMMA SameCarried ==
    ASSUME NEW q \in Launchers, Carried(q), pc'[q] = pc[q], want'[q] = want[q],
           mode'[q] = mode[q], dir'["stage"] = dir["stage"],
           dir'["install"] = dir["install"], dir'["backup"] = dir["backup"]
    PROVE  Carried(q)'
  BY WorkingSame DEF Carried, Installed

\* Outside the lock there is nothing to carry but the way it was started.
LEMMA OutsideCarried ==
    ASSUME NEW q \in Launchers, pc'[q] \notin Holding,
           pc'[q] # "idle" => mode'[q] \in {"check", "headless"}
    PROVE  Carried(q)'
  BY DEF Carried, Holding, Staging, Launching

\* Nor is there up to the decision.
LEMMA UndecidedCarried ==
    ASSUME NEW q \in Launchers, pc'[q] \in Recovering \cup {"resolve"},
           mode'[q] \in {"check", "headless"}
    PROVE  Carried(q)'
  BY DEF Carried, Recovering, Staging, Launching

LEMMA CheckedInit == Init /\ CheckedOnly => CheckedInv
<1> SUFFICES ASSUME Init, CheckedOnly PROVE CheckedInv
  OBVIOUS
<1>1. Complete
  BY DEF Init, Complete, Dirs, Nothing, Exists
<1>2. \A p \in Launchers : Carried(p)
  BY DEF Init, Carried, Staging, Launching
<1>3. QED
  BY <1>1, <1>2, InvInit DEF CheckedInv

-----------------------------------------------------------------------------
(* The invariant of a checking folder is inductive                         *)

\* A step of the holder that keeps the folder complete and what the holder
\* carries is enough: nobody else is past the lock.
LEMMA HolderStep ==
    ASSUME CheckedInv, IInv', NEW p \in Launchers, pc[p] \in Holding,
           \A q \in Launchers \ {p} : pc'[q] = pc[q] /\ mode'[q] = mode[q],
           Complete', Carried(p)'
    PROVE  CheckedInv'
<1>1. ASSUME NEW q \in Launchers \ {p} PROVE Carried(q)'
  <2>1. pc'[q] \notin Holding
    BY InstallAssumption DEF CheckedInv, IInv, HolderOnly, TypeOK
  <2>2. pc'[q] # "idle" => mode'[q] \in {"check", "headless"}
    BY DEF CheckedInv, Carried
  <2>3. QED
    BY <2>1, <2>2, OutsideCarried
<1>2. QED
  BY <1>1 DEF CheckedInv, CheckedOnly

LEMMA CheckedStep == CheckedInv /\ [Next]_vars => CheckedInv'
<1> SUFFICES ASSUME CheckedInv, [Next]_vars PROVE CheckedInv'
  OBVIOUS
<1> USE DEF CheckedInv, Holding, Recovering, Staging, Launching
<1>0. IInv' /\ TypeOK
  BY InvStep DEF IInv
<1>1. ASSUME NEW p \in Launchers, RestoreBackup(p) PROVE CheckedInv'
  <2>1. pc[p] \in Holding /\ \A q \in Launchers \ {p} : pc'[q] = pc[q] /\ mode'[q] = mode[q]
    BY <1>0, <1>1 DEF TypeOK, RestoreBackup, Goto
  <2>2. Complete'
    BY <1>0, <1>1 DEF IInv, TypeOK, Bundles, Phase, Complete, Carried,
       RestoreBackup, Exists, Renamed, Nothing, Dirs, Content
  <2>3. Carried(p)'
    <3>1. pc'[p] \in {"sweepStage", "sweepBackup", "resolve"} /\ mode'[p] = mode[p] /\ pc[p] # "idle"
      BY <1>0, <1>1 DEF TypeOK, RestoreBackup, Goto
    <3>2. QED
      BY <3>1, UndecidedCarried DEF Carried
  <2>4. QED
    BY <1>0, <2>1, <2>2, <2>3, HolderStep
<1>2. ASSUME NEW p \in Launchers, SweepStage(p) PROVE CheckedInv'
  <2>1. pc[p] \in Holding /\ \A q \in Launchers \ {p} : pc'[q] = pc[q] /\ mode'[q] = mode[q]
    BY <1>0, <1>2 DEF TypeOK, SweepStage, Goto
  <2>2. Complete'
    BY <1>0, <1>2 DEF IInv, TypeOK, Bundles, Phase, Complete, Carried, SweepStage,
       Exists, RemoveSome, Nothing, Dirs, Content
  <2>3. Carried(p)'
    <3>1. pc'[p] \in {"sweepStage", "sweepBackup", "resolve"} /\ mode'[p] = mode[p] /\ pc[p] # "idle"
      BY <1>0, <1>2 DEF TypeOK, SweepStage, Goto
    <3>2. QED
      BY <3>1, UndecidedCarried DEF Carried
  <2>4. QED
    BY <1>0, <2>1, <2>2, <2>3, HolderStep
<1>3. ASSUME NEW p \in Launchers, SweepBackup(p) PROVE CheckedInv'
  <2>1. pc[p] \in Holding /\ \A q \in Launchers \ {p} : pc'[q] = pc[q] /\ mode'[q] = mode[q]
    BY <1>0, <1>3 DEF TypeOK, SweepBackup, Goto
  <2>2. Complete'
    BY <1>0, <1>3 DEF IInv, TypeOK, Bundles, Phase, Complete, Carried,
       SweepBackup, Exists, RemoveSome, Nothing, Dirs, Content
  <2>3. Carried(p)'
    <3>1. pc'[p] \in {"sweepStage", "sweepBackup", "resolve"} /\ mode'[p] = mode[p] /\ pc[p] # "idle"
      BY <1>0, <1>3 DEF TypeOK, SweepBackup, Goto
    <3>2. QED
      BY <3>1, UndecidedCarried DEF Carried
  <2>4. QED
    BY <1>0, <2>1, <2>2, <2>3, HolderStep
<1>4. ASSUME NEW p \in Launchers, Offline(p) PROVE CheckedInv'
  <2>1. pc[p] \in Holding /\ \A q \in Launchers \ {p} : pc'[q] = pc[q] /\ mode'[q] = mode[q]
    BY <1>0, <1>4 DEF TypeOK, Offline, Goto, Fail, Leave
  <2>2. Complete'
    BY <1>4 DEF Complete, Exists, Offline
  <2>3. Carried(p)'
    BY <1>0, <1>4, WorkingSame DEF IInv, TypeOK, Bundles, Complete, Carried,
       Offline, Goto, Fail, Leave, Installed
  <2>4. QED
    BY <1>0, <2>1, <2>2, <2>3, HolderStep
<1>5. ASSUME NEW p \in Launchers, RefuseOlder(p) PROVE CheckedInv'
  <2>1. pc[p] \in Holding /\ \A q \in Launchers \ {p} : pc'[q] = pc[q] /\ mode'[q] = mode[q]
    BY <1>0, <1>5 DEF TypeOK, RefuseOlder, Goto, Fail, Leave
  <2>2. Complete'
    BY <1>5 DEF Complete, Exists, RefuseOlder
  <2>3. Carried(p)'
    BY <1>0, <1>5, WorkingSame DEF IInv, TypeOK, Bundles, Complete, Carried,
       RefuseOlder, Goto, Fail, Leave
  <2>4. QED
    BY <1>0, <2>1, <2>2, <2>3, HolderStep
<1>6. ASSUME NEW p \in Launchers, UpToDate(p) PROVE CheckedInv'
  <2>1. pc[p] \in Holding /\ \A q \in Launchers \ {p} : pc'[q] = pc[q] /\ mode'[q] = mode[q]
    BY <1>0, <1>6 DEF TypeOK, UpToDate, Goto, Leave
  <2>2. Complete'
    BY <1>6 DEF Complete, Exists, UpToDate
  <2>3. Carried(p)'
    BY <1>0, <1>6, WorkingSame DEF IInv, TypeOK, Bundles, Complete, Carried,
       UpToDate, Goto, Leave, NeedsUpdate, Installed
  <2>4. QED
    BY <1>0, <2>1, <2>2, <2>3, HolderStep
<1>7. ASSUME NEW p \in Launchers, Defer(p) PROVE CheckedInv'
  <2>1. pc[p] \in Holding /\ \A q \in Launchers \ {p} : pc'[q] = pc[q] /\ mode'[q] = mode[q]
    BY <1>0, <1>7 DEF TypeOK, Defer, Leave
  <2>2. Complete'
    BY <1>7 DEF Complete, Exists, Defer
  <2>3. Carried(p)'
    BY <1>0, <1>7, WorkingSame DEF IInv, TypeOK, Bundles, Complete, Carried,
       Defer, Leave
  <2>4. QED
    BY <1>0, <2>1, <2>2, <2>3, HolderStep
<1>8. ASSUME NEW p \in Launchers, AcceptUpdate(p) PROVE CheckedInv'
  <2>1. pc[p] \in Holding /\ \A q \in Launchers \ {p} : pc'[q] = pc[q] /\ mode'[q] = mode[q]
    BY <1>0, <1>8 DEF TypeOK, AcceptUpdate
  <2>2. Complete'
    BY <1>8 DEF Complete, Exists, AcceptUpdate
  <2>3. Carried(p)'
    <3>1. PICK v \in Versions, t \in Targets :
             /\ ~Older(v) /\ NeedsUpdate(v, t)
             /\ want' = [want EXCEPT ![p] = [ver |-> v, tgt |-> t, genuine |-> FALSE]]
      BY <1>8 DEF AcceptUpdate
    <3>2. Working' = Working
      BY <1>8, WorkingSame DEF AcceptUpdate
    <3>3. Working.ver <= v /\ <<Working.ver, Working.tgt>> # <<v, t>>
      <4>1. CASE dir["install"].form = "bundle"
        BY <1>0, <3>1, <4>1, InstallAssumption
        DEF IInv, TypeOK, Content, Dirs, Bundles, Older, NeedsUpdate, Installed, Working, Build
      <4>2. CASE dir["install"].form # "bundle"
        <5>1. dir["backup"].form = "missing"
          BY <1>8 DEF IInv, AcceptUpdate, Phase, Exists
        <5>2. Working.ver = 0
          BY <4>2, <5>1 DEF Working
        <5>3. QED
          BY <3>1, <5>2, InstallAssumption
      <4>3. QED
        BY <4>1, <4>2
    <3>4. want'[p].ver = v /\ want'[p].tgt = t
      BY <1>0, <3>1 DEF TypeOK
    <3>5. QED
      BY <1>0, <1>8, <3>2, <3>3, <3>4 DEF TypeOK, Carried, AcceptUpdate
  <2>4. QED
    BY <1>0, <2>1, <2>2, <2>3, HolderStep
<1>9. ASSUME NEW p \in Launchers, Decide(p) PROVE CheckedInv'
  <2>1. pc[p] \in Holding /\ \A q \in Launchers \ {p} : pc'[q] = pc[q] /\ mode'[q] = mode[q]
    BY <1>0, <1>9 DEF TypeOK, Decide, Goto, Leave
  <2>2. Complete'
    BY <1>9 DEF Complete, Exists, Decide
  <2>3. Carried(p)'
    BY <1>0, <1>9, WorkingSame DEF IInv, TypeOK, Bundles, Complete, Carried,
       Decide, Goto, Leave, Installed
  <2>4. QED
    BY <1>0, <2>1, <2>2, <2>3, HolderStep
<1>10. ASSUME NEW p \in Launchers, Remind(p) PROVE CheckedInv'
  <2>1. pc[p] \in Holding /\ \A q \in Launchers \ {p} : pc'[q] = pc[q] /\ mode'[q] = mode[q]
    BY <1>0, <1>10 DEF TypeOK, Remind, Goto, Leave
  <2>2. Complete'
    BY <1>10 DEF Complete, Exists, Remind
  <2>3. Carried(p)'
    BY <1>0, <1>10, WorkingSame DEF IInv, TypeOK, Bundles, Complete, Carried,
       Remind, Goto, Leave
  <2>4. QED
    BY <1>0, <2>1, <2>2, <2>3, HolderStep
<1>11. ASSUME NEW p \in Launchers, CreateStage(p) PROVE CheckedInv'
  <2>1. pc[p] \in Holding /\ \A q \in Launchers \ {p} : pc'[q] = pc[q] /\ mode'[q] = mode[q]
    BY <1>0, <1>11 DEF TypeOK, CreateStage, Goto, Fail, Leave
  <2>2. Complete'
    BY <1>0, <1>11 DEF IInv, TypeOK, Bundles, Phase, Complete, Carried,
       CreateStage, Exists, Scraps, Nothing, Dirs, Content
  <2>3. Carried(p)'
    <3>1. dir'["install"] = dir["install"] /\ dir'["backup"] = dir["backup"]
      BY <1>0, <1>11 DEF TypeOK, CreateStage, Dirs
    <3>2. Working' = Working
      BY <3>1, WorkingSame
    <3>3. QED
      BY <1>0, <1>11, <3>1, <3>2 DEF IInv, TypeOK, Carried, Installed, CreateStage, Goto, Fail, Leave, Dirs
  <2>4. QED
    BY <1>0, <2>1, <2>2, <2>3, HolderStep
<1>12. ASSUME NEW p \in Launchers, Download(p) PROVE CheckedInv'
  <2>1. pc[p] \in Holding /\ \A q \in Launchers \ {p} : pc'[q] = pc[q] /\ mode'[q] = mode[q]
    BY <1>0, <1>12 DEF TypeOK, Download
  <2>2. Complete'
    BY <1>12 DEF Complete, Exists, Download
  <2>3. Carried(p)'
    BY <1>0, <1>12, WorkingSame DEF IInv, TypeOK, Bundles, Complete, Carried,
       Download, Offers
  <2>4. QED
    BY <1>0, <2>1, <2>2, <2>3, HolderStep
<1>13. ASSUME NEW p \in Launchers, Verify(p) PROVE CheckedInv'
  <2>1. pc[p] \in Holding /\ \A q \in Launchers \ {p} : pc'[q] = pc[q] /\ mode'[q] = mode[q]
    BY <1>0, <1>13 DEF TypeOK, Verify, Goto, Fail, Leave
  <2>2. Complete'
    BY <1>13 DEF Complete, Exists, Verify
  <2>3. Carried(p)'
    BY <1>0, <1>13, WorkingSame DEF IInv, TypeOK, Bundles, Complete, Carried,
       Verify, Goto, Fail, Leave
  <2>4. QED
    BY <1>0, <2>1, <2>2, <2>3, HolderStep
<1>14. ASSUME NEW p \in Launchers, Extract(p) PROVE CheckedInv'
  <2>1. pc[p] \in Holding /\ \A q \in Launchers \ {p} : pc'[q] = pc[q] /\ mode'[q] = mode[q]
    BY <1>0, <1>14 DEF TypeOK, Extract, Goto
  <2>2. Complete'
    BY <1>0, <1>14 DEF IInv, TypeOK, Bundles, Phase, Complete, Carried, Extract,
       Exists, Dirs, Content
  <2>3. Carried(p)'
    <3>1. dir'["install"] = dir["install"] /\ dir'["backup"] = dir["backup"]
      BY <1>0, <1>14 DEF TypeOK, Extract, Dirs
    <3>2. Working' = Working
      BY <3>1, WorkingSame
    <3>3. dir'["stage"].ext = FALSE
      BY <1>0, <1>14 DEF TypeOK, Extract, Dirs
    <3>4. QED
      BY <1>0, <1>14, <3>2, <3>3 DEF TypeOK, Carried, Extract, Goto
  <2>4. QED
    BY <1>0, <2>1, <2>2, <2>3, HolderStep
<1>15. ASSUME NEW p \in Launchers, ValidateStage(p) PROVE CheckedInv'
  <2>1. pc[p] \in Holding /\ \A q \in Launchers \ {p} : pc'[q] = pc[q] /\ mode'[q] = mode[q]
    BY <1>0, <1>15 DEF TypeOK, ValidateStage, Goto, Fail, Leave
  <2>2. Complete'
    BY <1>15 DEF Complete, Exists, ValidateStage
  <2>3. Carried(p)'
    BY <1>0, <1>15, WorkingSame DEF IInv, TypeOK, Bundles, Complete, Carried,
       ValidateStage, Goto, Fail, Leave
  <2>4. QED
    BY <1>0, <2>1, <2>2, <2>3, HolderStep
<1>16. ASSUME NEW p \in Launchers, Preserve(p) PROVE CheckedInv'
  <2>1. pc[p] \in Holding /\ \A q \in Launchers \ {p} : pc'[q] = pc[q] /\ mode'[q] = mode[q]
    BY <1>0, <1>16 DEF TypeOK, Preserve, Goto
  <2>2. Complete'
    BY <1>0, <1>16 DEF IInv, TypeOK, Bundles, Phase, Complete, Carried, Preserve,
       Exists, Dirs, Content
  <2>3. Carried(p)'
    BY <1>0, <1>16 DEF IInv, TypeOK, Bundles, Phase, Complete, Carried, Working,
       Build, Installed, Preserve, Goto, Exists, Dirs, Content
  <2>4. QED
    BY <1>0, <2>1, <2>2, <2>3, HolderStep
<1>17. ASSUME NEW p \in Launchers, WriteMarker(p) PROVE CheckedInv'
  <2>1. pc[p] \in Holding /\ \A q \in Launchers \ {p} : pc'[q] = pc[q] /\ mode'[q] = mode[q]
    BY <1>0, <1>17 DEF TypeOK, WriteMarker, Goto
  <2>2. Complete'
    BY <1>0, <1>17 DEF IInv, TypeOK, Bundles, Phase, Complete, Carried,
       WriteMarker, Exists, Dirs, Content
  <2>3. Carried(p)'
    <3>1. dir'["install"] = dir["install"] /\ dir'["backup"] = dir["backup"]
      BY <1>0, <1>17 DEF TypeOK, WriteMarker, Dirs
    <3>2. Working' = Working
      BY <3>1, WorkingSame
    <3>3. dir'["stage"].ext = dir["stage"].ext /\ dir'["stage"].tgt = want[p].tgt
      BY <1>0, <1>17 DEF TypeOK, Content, WriteMarker, Dirs
    <3>4. QED
      BY <1>0, <1>17, <3>2, <3>3 DEF TypeOK, Carried, WriteMarker, Goto
  <2>4. QED
    BY <1>0, <2>1, <2>2, <2>3, HolderStep
<1>18. ASSUME NEW p \in Launchers, SetAside(p) PROVE CheckedInv'
  <2>1. pc[p] \in Holding /\ \A q \in Launchers \ {p} : pc'[q] = pc[q] /\ mode'[q] = mode[q]
    BY <1>0, <1>18 DEF TypeOK, SetAside, Goto, Fail, Leave
  <2>2. Complete'
    BY <1>0, <1>18 DEF IInv, TypeOK, Bundles, Phase, Complete, Carried, SetAside,
       Exists, Renamed, Nothing, Dirs, Content
  <2>3. Carried(p)'
    <3>1. CASE pc'[p] # "promote"
      BY <1>0, <1>18, <3>1 DEF TypeOK, Carried, SetAside, Goto, Fail, Leave
    <3>2. CASE pc'[p] = "promote" /\ Exists("install")
      <4>1. dir'["install"] = Nothing /\ dir'["backup"] = dir["install"]
        BY <1>0, <1>18, <3>2 DEF TypeOK, SetAside, Renamed, Goto, Fail, Leave, Dirs
      <4>2. Working' = Working
        BY <3>2, <4>1 DEF Complete, Exists, Content, IInv, TypeOK, Dirs, Working, Build, Nothing
      <4>3. dir'["stage"] = dir["stage"]
        BY <1>0, <1>18, <3>2 DEF TypeOK, SetAside, Renamed, Goto, Fail, Leave, Dirs
      <4>4. QED
        BY <1>0, <1>18, <3>2, <4>2, <4>3 DEF TypeOK, Carried, SetAside, Goto, Fail, Leave
    <3>3. CASE pc'[p] = "promote" /\ ~Exists("install")
      <4>1. UNCHANGED dir
        BY <1>0, <1>18, <3>3 DEF TypeOK, SetAside, Goto, Fail, Leave
      <4>2. QED
        BY <1>0, <1>18, <3>3, <4>1, WorkingSame DEF TypeOK, Carried, SetAside, Goto, Fail, Leave
    <3>4. QED
      BY <3>1, <3>2, <3>3
  <2>4. QED
    BY <1>0, <2>1, <2>2, <2>3, HolderStep
<1>19. ASSUME NEW p \in Launchers, Promote(p) PROVE CheckedInv'
  <2>1. pc[p] \in Holding /\ \A q \in Launchers \ {p} : pc'[q] = pc[q] /\ mode'[q] = mode[q]
    BY <1>0, <1>19 DEF TypeOK, Promote, Goto
  <2>2. Complete'
    BY <1>0, <1>19 DEF IInv, TypeOK, Bundles, Phase, Complete, Carried, Promote,
       Exists, Renamed, Nothing, Dirs, Content
  <2>3. Carried(p)'
    <3>1. CASE pc'[p] = "dropBackup"
      <4>1. dir' = Renamed("stage", "install")
        BY <1>0, <1>19, <3>1 DEF TypeOK, Promote, Goto
      <4>2. Installed'
        BY <1>0, <1>19, <4>1 DEF IInv, TypeOK, Promote, Phase, Renamed, Installed, Dirs
      <4>3. QED
        BY <1>0, <1>19, <3>1, <4>2 DEF TypeOK, Carried, Promote, Goto
    <3>2. CASE pc'[p] # "dropBackup"
      BY <1>0, <1>19, <3>2 DEF TypeOK, Carried, Promote, Goto
    <3>3. QED
      BY <3>1, <3>2
  <2>4. QED
    BY <1>0, <2>1, <2>2, <2>3, HolderStep
<1>20. ASSUME NEW p \in Launchers, Rollback(p) PROVE CheckedInv'
  <2>1. pc[p] \in Holding /\ \A q \in Launchers \ {p} : pc'[q] = pc[q] /\ mode'[q] = mode[q]
    BY <1>0, <1>20 DEF TypeOK, Rollback, Goto, Fail, Leave
  <2>2. Complete'
    BY <1>0, <1>20 DEF IInv, TypeOK, Bundles, Phase, Complete, Carried, Rollback,
       Exists, Renamed, Nothing, Dirs, Content
  <2>3. Carried(p)'
    BY <1>0, <1>20 DEF TypeOK, Carried, Rollback, Goto, Fail, Leave
  <2>4. QED
    BY <1>0, <2>1, <2>2, <2>3, HolderStep
<1>21. ASSUME NEW p \in Launchers, DropBackup(p) PROVE CheckedInv'
  <2>1. pc[p] \in Holding /\ \A q \in Launchers \ {p} : pc'[q] = pc[q] /\ mode'[q] = mode[q]
    BY <1>0, <1>21 DEF TypeOK, DropBackup, Goto, Leave
  <2>2. Complete'
    BY <1>0, <1>21 DEF IInv, TypeOK, Bundles, Phase, Complete, Carried,
       DropBackup, Exists, RemoveSome, Nothing, Dirs, Content
  <2>3. Carried(p)'
    <3>1. dir'["install"] = dir["install"]
      BY <1>0, <1>21 DEF TypeOK, DropBackup, RemoveSome, Dirs
    <3>2. QED
      BY <1>0, <1>21, <3>1 DEF TypeOK, Carried, Installed, DropBackup, Goto, Leave
  <2>4. QED
    BY <1>0, <2>1, <2>2, <2>3, HolderStep
<1>22. ASSUME NEW p \in Launchers, Provision(p) PROVE CheckedInv'
  <2>1. pc[p] \in Holding /\ \A q \in Launchers \ {p} : pc'[q] = pc[q] /\ mode'[q] = mode[q]
    BY <1>0, <1>22 DEF TypeOK, Provision, Goto
  <2>2. Complete'
    BY <1>0, <1>22 DEF IInv, TypeOK, Bundles, Phase, Complete, Carried, Provision,
       Exists, Touched, Dirs, Installed, Content
  <2>3. Carried(p)'
    <3>1. Installed'
      BY <1>0, <1>22 DEF IInv, TypeOK, Content, Bundles, Carried, Installed, Exists,
         Provision, Touched, Dirs
    <3>2. QED
      BY <1>0, <1>22, <3>1 DEF TypeOK, Carried, Provision, Goto
  <2>4. QED
    BY <1>0, <2>1, <2>2, <2>3, HolderStep
<1>23. ASSUME NEW p \in Launchers, Prepare(p) PROVE CheckedInv'
  <2>1. pc[p] \in Holding /\ \A q \in Launchers \ {p} : pc'[q] = pc[q] /\ mode'[q] = mode[q]
    BY <1>0, <1>23 DEF TypeOK, Prepare, Goto
  <2>2. Complete'
    BY <1>0, <1>23 DEF IInv, TypeOK, Bundles, Phase, Complete, Carried, Prepare,
       Exists, Touched, Dirs, Installed, Content
  <2>3. Carried(p)'
    <3>1. Installed
      BY <1>0, <1>23 DEF Carried, Prepare, Launching
    <3>2. Installed' /\ mode' = mode
      BY <1>0, <1>23, <3>1 DEF IInv, TypeOK, Content, Bundles, Installed, Exists, Prepare,
         Goto, Touched, Dirs
    <3>3. pc'[p] \in {"spawn", "fallbackSpawn"}
      BY <1>0, <1>23 DEF IInv, TypeOK, Prepare, Goto
    <3>4. mode[p] \in {"check", "headless"}
      BY <1>0, <1>23 DEF Carried, Prepare
    <3>5. QED
      BY <3>2, <3>3, <3>4 DEF Carried, Launching, Staging
  <2>4. QED
    BY <1>0, <2>1, <2>2, <2>3, HolderStep
<1>24. ASSUME NEW p \in Launchers, Spawn(p) PROVE CheckedInv'
  <2>1. pc[p] \in Holding /\ \A q \in Launchers \ {p} : pc'[q] = pc[q] /\ mode'[q] = mode[q]
    BY <1>0, <1>24 DEF TypeOK, Spawn, Goto, Leave
  <2>2. Complete'
    BY <1>24 DEF Complete, Exists, Spawn
  <2>3. Carried(p)'
    BY <1>0, <1>24, WorkingSame DEF IInv, TypeOK, Bundles, Complete, Carried,
       Spawn, Goto, Leave, Installed
  <2>4. QED
    BY <1>0, <2>1, <2>2, <2>3, HolderStep
<1>25. ASSUME NEW p \in Launchers, StepFails(p) PROVE CheckedInv'
  <2>1. pc[p] \in Holding /\ \A q \in Launchers \ {p} : pc'[q] = pc[q] /\ mode'[q] = mode[q]
    BY <1>0, <1>25 DEF TypeOK, StepFails, Goto, Fail, Leave
  <2>2. Complete'
    BY <1>25 DEF Complete, Exists, StepFails
  <2>3. Carried(p)'
    BY <1>0, <1>25, WorkingSame DEF IInv, TypeOK, Bundles, Complete, Carried,
       StepFails, Goto, Fail, Leave
  <2>4. QED
    BY <1>0, <2>1, <2>2, <2>3, HolderStep
<1>26. ASSUME NEW p \in Launchers, LaunchAnyway(p) PROVE CheckedInv'
  <2>1. pc[p] \in Holding /\ \A q \in Launchers \ {p} : pc'[q] = pc[q] /\ mode'[q] = mode[q]
    BY <1>0, <1>26 DEF TypeOK, LaunchAnyway, Goto
  <2>2. Complete'
    BY <1>26 DEF Complete, Exists, LaunchAnyway
  <2>3. Carried(p)'
    BY <1>0, <1>26, WorkingSame DEF IInv, TypeOK, Bundles, Complete, Carried,
       LaunchAnyway, Goto, Installed
  <2>4. QED
    BY <1>0, <2>1, <2>2, <2>3, HolderStep
<1>27. ASSUME NEW p \in Launchers, Start(p) PROVE CheckedInv'
  <2>1. Complete'
    BY <1>27 DEF Complete, Exists, Start
  <2>2. ASSUME NEW q \in Launchers \ {p} PROVE Carried(q)'
    BY <1>0, <1>27, SameCarried DEF TypeOK, Start, Goto, Leave
  <2>3. Carried(p)'
    BY <1>0, <1>27, WorkingSame DEF CheckedOnly, TypeOK, Carried, Start, Goto, Leave
  <2>4. QED
    BY <1>0, <2>1, <2>2, <2>3 DEF CheckedOnly
<1>28. ASSUME NEW p \in Launchers, Acquire(p) PROVE CheckedInv'
  <2>1. Complete'
    BY <1>28 DEF Complete, Exists, Acquire
  <2>2. ASSUME NEW q \in Launchers \ {p} PROVE Carried(q)'
    BY <1>0, <1>28, SameCarried DEF TypeOK, Acquire, Goto, Leave
  <2>3. Carried(p)'
    BY <1>0, <1>28, WorkingSame DEF CheckedOnly, TypeOK, Carried, Acquire, Goto, Leave
  <2>4. QED
    BY <1>0, <2>1, <2>2, <2>3 DEF CheckedOnly
<1>29. ASSUME NEW p \in Launchers, Refuse(p) PROVE CheckedInv'
  <2>1. Complete'
    BY <1>29 DEF Complete, Exists, Refuse
  <2>2. ASSUME NEW q \in Launchers \ {p} PROVE Carried(q)'
    BY <1>0, <1>29, SameCarried DEF TypeOK, Refuse, Goto, Leave
  <2>3. Carried(p)'
    BY <1>0, <1>29, WorkingSame DEF CheckedOnly, TypeOK, Carried, Refuse, Goto, Leave
  <2>4. QED
    BY <1>0, <2>1, <2>2, <2>3 DEF CheckedOnly
<1>30. ASSUME NEW p \in Launchers, Retry(p) PROVE CheckedInv'
  <2>1. Complete'
    BY <1>30 DEF Complete, Exists, Retry
  <2>2. ASSUME NEW q \in Launchers \ {p} PROVE Carried(q)'
    BY <1>0, <1>30, SameCarried DEF TypeOK, Retry, Goto, Leave
  <2>3. Carried(p)'
    BY <1>0, <1>30, WorkingSame DEF CheckedOnly, TypeOK, Carried, Retry, Goto, Leave
  <2>4. QED
    BY <1>0, <2>1, <2>2, <2>3 DEF CheckedOnly
<1>31. ASSUME NEW p \in Launchers, CloseWindow(p) PROVE CheckedInv'
  <2>1. Complete'
    BY <1>31 DEF Complete, Exists, CloseWindow
  <2>2. ASSUME NEW q \in Launchers \ {p} PROVE Carried(q)'
    BY <1>0, <1>31, SameCarried DEF TypeOK, CloseWindow, Goto, Leave
  <2>3. Carried(p)'
    BY <1>0, <1>31, WorkingSame DEF CheckedOnly, TypeOK, Carried, CloseWindow, Goto, Leave
  <2>4. QED
    BY <1>0, <2>1, <2>2, <2>3 DEF CheckedOnly
<1>32. ASSUME NEW p \in Launchers, Crash(p) PROVE CheckedInv'
  <2>1. Complete'
    BY <1>32 DEF Complete, Exists, Crash
  <2>2. ASSUME NEW q \in Launchers \ {p} PROVE Carried(q)'
    BY <1>0, <1>32, SameCarried DEF TypeOK, Crash, Goto, Leave
  <2>3. Carried(p)'
    BY <1>0, <1>32, WorkingSame DEF CheckedOnly, TypeOK, Carried, Crash, Goto, Leave
  <2>4. QED
    BY <1>0, <2>1, <2>2, <2>3 DEF CheckedOnly
<1>33. CASE UNCHANGED vars
  <2>1. Complete'
    BY <1>33 DEF vars, Complete, Exists
  <2>2. \A q \in Launchers : Carried(q)'
    BY <1>33, SameCarried DEF vars
  <2>3. QED
    BY <1>0, <2>1, <2>2 DEF CheckedOnly
<1>34. QED
  BY <1>1, <1>2, <1>3, <1>4, <1>5, <1>6, <1>7, <1>8, <1>9, <1>10, <1>11, <1>12,
     <1>13, <1>14, <1>15, <1>16, <1>17, <1>18, <1>19, <1>20, <1>21, <1>22,
     <1>23, <1>24, <1>25, <1>26, <1>27, <1>28, <1>29, <1>30, <1>31, <1>32, <1>33
  DEF Next, Step, Answer

-----------------------------------------------------------------------------
(* Every step maps to a step of BrowserSlot or to a stutter                *)

LEMMA SlotInit == Init => Slot!Init
<1> SUFFICES ASSUME Init PROVE Slot!Init
  OBVIOUS
<1>1. CASE dir = [d \in Dirs |-> Nothing]
  BY <1>1 DEF Slot!Init, Slot!NoCopy, Working, Build, Nothing, Dirs
<1>2. CASE dir # [d \in Dirs |-> Nothing]
  <2>1. PICK v \in Versions, t \in Targets \cup {NoTarget}, e \in BOOLEAN :
           dir = [d \in Dirs |->
                     IF d = "install"
                     THEN [form |-> "bundle", ver |-> v, tgt |-> t,
                           genuine |-> TRUE, marked |-> TRUE, ext |-> e]
                     ELSE Nothing]
    BY <1>2 DEF Init
  <2>2. dir["install"] = [form |-> "bundle", ver |-> v, tgt |-> t,
                          genuine |-> TRUE, marked |-> TRUE, ext |-> e]
    BY <2>1 DEF Dirs
  <2>3. Working = [ver |-> v, tgt |-> t, ext |-> e]
    BY <2>2 DEF Working, Build
  <2>4. QED
    BY <2>3 DEF Slot!Init
<1>3. QED
  BY <1>1, <1>2

LEMMA SlotStep == CheckedInv /\ [Next]_vars => [Slot!Next]_Working
<1> SUFFICES ASSUME CheckedInv, [Next]_vars PROVE [Slot!Next]_Working
  OBVIOUS
<1> USE DEF CheckedInv, IInv
<1>1. CASE UNCHANGED dir
  BY <1>1, WorkingSame
<1>2. ASSUME NEW p \in Launchers,
             \/ SweepStage(p) \/ CreateStage(p) \/ Extract(p) \/ Preserve(p) \/ WriteMarker(p)
      PROVE  Working' = Working
  <2>1. dir'["install"] = dir["install"] /\ dir'["backup"] = dir["backup"]
    BY <1>2 DEF TypeOK, Dirs, RemoveSome, SweepStage, CreateStage, Extract, Preserve, WriteMarker
  <2>2. QED
    BY <2>1, WorkingSame
<1>3. ASSUME NEW p \in Launchers, RestoreBackup(p) PROVE Working' = Working
  BY <1>3 DEF TypeOK, Dirs, Exists, Complete, RestoreBackup, Renamed, Nothing, Working, Build
\* A backup only goes where the install is complete.
<1>4. ASSUME NEW p \in Launchers, SweepBackup(p) \/ DropBackup(p)
      PROVE  UNCHANGED dir \/ Working' = Working
  <2>1. UNCHANGED dir \/ dir["install"].form = "bundle"
    BY <1>4 DEF TypeOK, Content, Dirs, Exists, Complete, Phase, RemoveSome, SweepBackup, DropBackup
  <2>2. dir'["install"] = dir["install"]
    BY <1>4 DEF TypeOK, Dirs, RemoveSome, SweepBackup, DropBackup
  <2>3. QED
    BY <2>1, <2>2, WorkingInstalled
<1>5. ASSUME NEW p \in Launchers, SetAside(p) PROVE UNCHANGED dir \/ Working' = Working
  BY <1>5 DEF TypeOK, Content, Dirs, Exists, Complete, SetAside, Renamed, Nothing, Working, Build
<1>6. ASSUME NEW p \in Launchers, Rollback(p) PROVE UNCHANGED dir \/ Working' = Working
  BY <1>6 DEF TypeOK, Content, Dirs, Exists, Complete, Phase, Rollback, Renamed, Nothing,
     Working, Build
\* The second rename is where the browser is replaced.
<1>7. ASSUME NEW p \in Launchers, Promote(p)
      PROVE  UNCHANGED dir \/ Slot!Replace(want[p].ver, want[p].tgt)
  <2>1. CASE ~UNCHANGED dir
    <3>1. dir' = Renamed("stage", "install")
      BY <1>7, <2>1 DEF Promote
    <3>2. dir'["install"] = dir["stage"] /\ dir["stage"].form = "bundle"
      BY <1>7, <3>1 DEF TypeOK, Dirs, Renamed, Promote, Phase
    <3>3. /\ dir["stage"].ver = want[p].ver /\ dir["stage"].tgt = want[p].tgt
          /\ dir["stage"].ext = Working.ext
      BY <1>7 DEF Promote, Phase, Carried
    <3>4. Working' = [ver |-> want[p].ver, tgt |-> want[p].tgt, ext |-> Working.ext]
      BY <3>2, <3>3 DEF Working, Build
    <3>5. QED
      BY <1>7, <3>4 DEF Promote, Carried, Slot!Replace
  <2>2. QED
    BY <2>1
<1>8. ASSUME NEW p \in Launchers, Provision(p) PROVE UNCHANGED dir \/ Slot!Provision
  <2>1. CASE ~UNCHANGED dir
    <3>1. dir["install"].form = "bundle" /\ dir["install"].ver # 0
      BY <1>8 DEF Provision, Carried, Launching, Installed, Bundles
    <3>2. dir'["install"] = [dir["install"] EXCEPT !.ext = TRUE]
      BY <1>8, <2>1, <3>1 DEF TypeOK, Dirs, Provision, Touched, Exists
    <3>3. Working = Build("install")
      BY <3>1 DEF Working
    <3>4. Working' = [ver |-> dir["install"].ver, tgt |-> dir["install"].tgt, ext |-> TRUE]
      <4>1. dir["install"] \in Content
        BY DEF TypeOK, Dirs
      <4>2. QED
        BY <3>1, <3>2, <4>1 DEF Content, Working, Build
    <3>5. Working' = [ver |-> Working.ver, tgt |-> Working.tgt, ext |-> TRUE]
      BY <3>3, <3>4 DEF Build
    <3>6. Working # Slot!NoCopy
      BY <3>1, <3>3 DEF Build, Slot!NoCopy
    <3>7. QED
      BY <3>5, <3>6 DEF Slot!Provision
  <2>2. QED
    BY <2>1
<1>9. ASSUME NEW p \in Launchers, Prepare(p) PROVE UNCHANGED dir
  BY <1>9 DEF TypeOK, Content, Dirs, Prepare, Carried, Launching, Installed, Bundles,
     Touched, Exists
<1>10. ASSUME NEW p \in Launchers, Promote(p)
       PROVE  want[p].ver \in Versions /\ want[p].tgt \in Targets
  BY <1>10 DEF Promote, Carried
<1>11. UNCHANGED dir \/ Working' = Working \/ Slot!Next
  BY <1>2, <1>3, <1>4, <1>5, <1>6, <1>7, <1>8, <1>9, <1>10
  DEF Slot!Next, vars, Next, Step, Answer, Start, Acquire, Refuse, Offline, RefuseOlder,
      UpToDate, AcceptUpdate, Defer, Decide, Remind, Download, Verify, ValidateStage,
      Spawn, StepFails, Retry, CloseWindow, LaunchAnyway, Crash
<1>12. QED
  BY <1>1, <1>11

-----------------------------------------------------------------------------
(* The theorems: a folder of checking launchers                             *)

\* In a folder whose launchers all check for updates, the update transaction
\* is an atomic, never older, extension-preserving replacement of the browser.
THEOREM Refinement == CheckedOnly /\ Spec => ImplementsSlot
<1>1. CheckedInv /\ [Next]_vars => CheckedInv'
  BY CheckedStep
<1>2. QED
  BY CheckedInit, SlotInit, SlotStep, <1>1, PTL DEF Spec, ImplementsSlot, Slot!Spec

\* In such a folder the last working browser is never deleted: every step,
\* failed rename and crash leaves a complete bundle, or none was there.
THEOREM CopyKept == CheckedOnly /\ Spec => CopyNeverLost
<1>1. CheckedInv => (HasCopy <=> Working.ver # 0)
  BY DEF CheckedInv, IInv, TypeOK, Content, Dirs, Complete, Bundles, Exists, HasCopy,
     Working, Build
<1>2. CheckedInv' => (HasCopy' <=> Working'.ver # 0)
  BY DEF CheckedInv, IInv, TypeOK, Content, Dirs, Complete, Bundles, Exists, HasCopy,
     Working, Build
<1>3. [Slot!Next]_Working => (Working.ver # 0 => Working'.ver # 0)
  <2>1. Slot!Provision => Working'.ver = Working.ver
    BY DEF Slot!Provision, Working, Build
  <2>2. ASSUME NEW v \in Versions, NEW t \in Targets, Slot!Replace(v, t)
        PROVE  Working'.ver # 0
    BY <2>2, InstallAssumption DEF Slot!Replace
  <2>3. QED
    BY <2>1, <2>2 DEF Slot!Next
<1>4. CheckedInv /\ [Next]_vars => [HasCopy => HasCopy']_vars
  BY <1>1, <1>2, <1>3, CheckedStep, SlotStep
<1>5. QED
  BY CheckedInit, CheckedStep, <1>4, PTL DEF Spec, CopyNeverLost
=============================================================================
