---------------------------- MODULE WindowProofs ----------------------------
(* What Window promises for every kind of start and any number of failures. *)
EXTENDS Window, TLAPS

-----------------------------------------------------------------------------
(* The inductive invariant                                                  *)

\* The question that each wait has on the screen.
Asking ==
    asked # "answered" =>
        /\ pc = "refused" => phase = "error"
        /\ pc = "reminding" => phase = "maintenance"
        /\ pc = "deciding" => phase = "prompt"
        /\ pc = "failed" => phase = IF fallback THEN "errorAnyway" ELSE "error"

\* The answers that its buttons give.
Answering ==
    asked = "answered" =>
        /\ pc = "refused" => phase = "retry"
        /\ pc = "reminding" => phase \in {"continue", "done"}
        /\ pc = "deciding" => phase \in {"update", "skip"}
        /\ pc = "failed" => phase = "retry" \/ (phase = "anyway" /\ fallback)

\* Nothing is asked that nobody waits for, and no frame shows an old question.
Current ==
    /\ pc \notin Waits => phase \notin Questions
    /\ frame \in Questions => frame = phase

\* The end is told, and is on its way to the screen.
Telling ==
    /\ pc = "ended" => phase = "done"
    /\ phase = "done" /\ ~owed /\ window = "open" => repaint \/ frame = "done"

\* A click wakes the pipeline for good, the reminder is one of a start that
\* may have it, and a pipeline that has started a browser only has to tell.
Ordered ==
    /\ asleep => asked # "answered"
    /\ pc = "reminding" => origin = "remind"
    /\ started = 1 => pc \in {"started", "ended"}

IInv == TypeOK /\ Asking /\ Answering /\ Current /\ Telling /\ Ordered

-----------------------------------------------------------------------------

\* TypeOK in two halves.
Switches ==
    /\ installed \in BOOLEAN /\ asleep \in BOOLEAN /\ owed \in BOOLEAN
    /\ fallback \in BOOLEAN /\ reminded \in BOOLEAN
    /\ repaint \in BOOLEAN /\ alive \in BOOLEAN

Settings ==
    /\ origin \in Origins
    /\ phase \in Questions \cup Answers \cup {"running", "done"}
    /\ pc \in Waits \cup {"restart", "acquire", "check", "download", "launch",
                          "spawn", "fallback", "started", "ended"}
    /\ asleep => pc \in Waits
    /\ reminded => origin = "remind"
    /\ asked \in {"unseen", "seen", "answered"}
    /\ frame \in Questions \cup Answers \cup {"none", "running", "done"}
    /\ window \in {"open", "closed"}
    /\ started \in 0..1 /\ faults \in 0..MaxFaults

LEMMA Halves == TypeOK <=> Switches /\ Settings
<1>1. TypeOK => Switches
  BY DEF TypeOK, Switches
<1>2. TypeOK => Settings
  BY DEF TypeOK, Settings
<1>3. Switches /\ Settings => TypeOK
  BY DEF TypeOK, Switches, Settings
<1>4. QED
  BY <1>1, <1>2, <1>3

Promises == Asking /\ Answering /\ Current /\ Telling /\ Ordered

LEMMA InvInit == Init => IInv
<1> SUFFICES ASSUME Init PROVE IInv
  OBVIOUS
<1> USE WindowAssumption DEF Init, Questions, Answers, Waits
<1>1. Switches
  BY DEF Switches
<1>2. Settings
  BY DEF Settings
<1>3. Asking /\ Answering /\ Current /\ Telling /\ Ordered
  BY DEF Asking, Answering, Current, Telling, Ordered
<1>4. QED
  BY <1>1, <1>2, <1>3, Halves DEF IInv

LEMMA InvStep == IInv /\ [Next]_vars => IInv'
<1> SUFFICES ASSUME IInv, [Next]_vars PROVE IInv'
  OBVIOUS
<1>0. Switches /\ Settings /\ Promises
  BY Halves DEF IInv, Promises
<1>a. ASSUME Switches', Settings', Promises' PROVE IInv'
  BY <1>a DEF IInv, TypeOK, Switches, Settings, Promises
<1> USE WindowAssumption
    DEF Questions, Answers, Waits, Awake, painting, world, pipeline
<1>1. CASE RequestRepaint
  <2> USE <1>0, <1>1 DEF RequestRepaint
  <2>1. Switches'
    BY DEF Switches
  <2>2. Settings'
    BY DEF Settings, Switches, Promises, Ordered
  <2>3. Promises'
    BY DEF Promises, Asking, Answering, Current, Telling, Ordered, Switches, Settings
  <2>4. QED
    BY <2>1, <2>2, <2>3, <1>a
<1>2. CASE Restart
  <2> USE <1>0, <1>2 DEF Restart, Post
  <2>1. Switches'
    BY DEF Switches
  <2>2. Settings'
    BY DEF Settings, Switches, Promises, Ordered
  <2>3. Promises'
    BY DEF Promises, Asking, Answering, Current, Telling, Ordered, Switches, Settings
  <2>4. QED
    BY <2>1, <2>2, <2>3, <1>a
<1>3. CASE Acquire
  <2> USE <1>0, <1>3 DEF Acquire
  <2>1. Switches'
    BY DEF Switches
  <2>2. Settings'
    BY DEF Settings, Switches, Promises, Ordered
  <2>3. Promises'
    BY DEF Promises, Asking, Answering, Current, Telling, Ordered, Switches, Settings
  <2>4. QED
    BY <2>1, <2>2, <2>3, <1>a
<1>4. CASE Refuse
  <2> USE <1>0, <1>4 DEF Refuse, Fault, Post
  <2>1. Switches'
    BY DEF Switches
  <2>2. Settings'
    BY DEF Settings, Switches, Promises, Ordered
  <2>3. Promises'
    BY DEF Promises, Asking, Answering, Current, Telling, Ordered, Switches, Settings
  <2>4. QED
    BY <2>1, <2>2, <2>3, <1>a
<1>5. CASE AfterRefusal
  <2> USE <1>0, <1>5 DEF AfterRefusal, Accepted, Taken
  <2>1. Switches'
    BY DEF Switches
  <2>2. Settings'
    BY DEF Settings, Switches, Promises, Ordered
  <2>3. Promises'
    BY DEF Promises, Asking, Answering, Current, Telling, Ordered, Switches, Settings
  <2>4. QED
    BY <2>1, <2>2, <2>3, <1>a
<1>6. CASE AfterReminder
  <2> USE <1>0, <1>6 DEF AfterReminder, Accepted, Taken
  <2>1. Switches'
    BY DEF Switches
  <2>2. Settings'
    BY DEF Settings, Switches, Promises, Ordered
  <2>3. Promises'
    BY DEF Promises, Asking, Answering, Current, Telling, Ordered, Switches, Settings
  <2>4. QED
    BY <2>1, <2>2, <2>3, <1>a
<1>7. CASE Check
  <2> USE <1>0, <1>7 DEF Check, Quiet, Fault, Fails, Post
  <2>1. Switches'
    BY DEF Switches
  <2>2. Settings'
    BY DEF Settings, Switches, Promises, Ordered
  <2>3. Promises'
    BY DEF Promises, Asking, Answering, Current, Telling, Ordered, Switches, Settings
  <2>4. QED
    BY <2>1, <2>2, <2>3, <1>a
<1>8. CASE AfterPrompt
  <2> USE <1>0, <1>8 DEF AfterPrompt, Accepted, Taken, Post
  <2>1. Switches'
    BY DEF Switches
  <2>2. Settings'
    BY DEF Settings, Switches, Promises, Ordered
  <2>3. Promises'
    BY DEF Promises, Asking, Answering, Current, Telling, Ordered, Switches, Settings
  <2>4. QED
    BY <2>1, <2>2, <2>3, <1>a
<1>9. CASE Download
  <2>1. Switches'
    BY <1>0, <1>9 DEF Switches, Download, Quiet, Fault, Fails, Post
  <2>2. UNCHANGED <<asleep, reminded, painting, origin, started, alive>> /\ pc = "download"
    BY <1>9 DEF Download
  <2>3. CASE pc' = "launch" /\ Quiet /\ UNCHANGED <<fallback, faults>>
    <3>1. Settings'
      BY <1>0, <2>2, <2>3 DEF Settings, Quiet
    <3>2. Promises'
      BY <1>0, <2>2, <2>3
      DEF Promises, Asking, Answering, Current, Telling, Ordered, Settings, Quiet
    <3>3. QED
      BY <2>1, <3>1, <3>2, <1>a
  <2>4. ASSUME NEW usable \in BOOLEAN, Fault, Fails(usable) PROVE IInv'
    <3>1. Settings'
      BY <1>0, <2>2, <2>4 DEF Settings, Fault, Fails, Post
    <3>2. Promises'
      BY <1>0, <2>2, <2>4
      DEF Promises, Asking, Answering, Current, Telling, Ordered, Settings, Fails, Post
    <3>3. QED
      BY <2>1, <3>1, <3>2, <1>a
  <2>5. QED
    BY <1>9, <2>1, <2>3, <2>4 DEF Download, Switches
<1>10. CASE Launch
  <2> USE <1>0, <1>10 DEF Launch, Quiet, Fault, Fails, Post
  <2>1. Switches'
    BY DEF Switches
  <2>2. Settings'
    BY DEF Settings, Switches, Promises, Ordered
  <2>3. Promises'
    BY DEF Promises, Asking, Answering, Current, Telling, Ordered, Switches, Settings
  <2>4. QED
    BY <2>1, <2>2, <2>3, <1>a
<1>11. CASE Spawn
  <2> USE <1>0, <1>11 DEF Spawn, Quiet, Fault, Fails, Post
  <2>1. Switches'
    BY DEF Switches
  <2>2. Settings'
    BY DEF Settings, Switches, Promises, Ordered
  <2>3. Promises'
    BY DEF Promises, Asking, Answering, Current, Telling, Ordered, Switches, Settings
  <2>4. QED
    BY <2>1, <2>2, <2>3, <1>a
<1>12. CASE AfterError
  <2> USE <1>0, <1>12 DEF AfterError, Accepted, Taken, Post
  <2>1. Switches'
    BY DEF Switches
  <2>2. Settings'
    BY DEF Settings, Switches, Promises, Ordered
  <2>3. Promises'
    BY DEF Promises, Asking, Answering, Current, Telling, Ordered, Switches, Settings
  <2>4. QED
    BY <2>1, <2>2, <2>3, <1>a
<1>13. CASE Fallback
  <2> USE <1>0, <1>13 DEF Fallback, Quiet, Fault, Fails, Post
  <2>1. Switches'
    BY DEF Switches
  <2>2. Settings'
    BY DEF Settings, Switches, Promises, Ordered
  <2>3. Promises'
    BY DEF Promises, Asking, Answering, Current, Telling, Ordered, Switches, Settings
  <2>4. QED
    BY <2>1, <2>2, <2>3, <1>a
<1>14. CASE SignalDone
  <2> USE <1>0, <1>14 DEF SignalDone, Post
  <2>1. Switches'
    BY DEF Switches
  <2>2. Settings'
    BY DEF Settings, Switches, Promises, Ordered
  <2>3. Promises'
    BY DEF Promises, Asking, Answering, Current, Telling, Ordered, Switches, Settings
  <2>4. QED
    BY <2>1, <2>2, <2>3, <1>a
<1>15. CASE Sleep
  <2> USE <1>0, <1>15 DEF Sleep, Accepted
  <2>1. Switches'
    BY DEF Switches
  <2>2. Settings'
    BY DEF Settings, Switches, Promises, Ordered
  <2>3. Promises'
    BY DEF Promises, Asking, Answering, Current, Telling, Ordered, Switches, Settings
  <2>4. QED
    BY <2>1, <2>2, <2>3, <1>a
<1>16. CASE Paint
  <2> USE <1>0, <1>16 DEF Paint, Showing
  <2>1. Switches'
    BY DEF Switches
  <2>2. Settings'
    BY DEF Settings, Switches, Promises, Ordered
  <2>3. Promises'
    BY DEF Promises, Asking, Answering, Current, Telling, Ordered, Switches, Settings
  <2>4. QED
    BY <2>1, <2>2, <2>3, <1>a
<1>17. CASE EndFrame
  <2> USE <1>0, <1>17 DEF EndFrame, Showing
  <2>1. Switches'
    BY DEF Switches
  <2>2. Settings'
    BY DEF Settings, Switches, Promises, Ordered
  <2>3. Promises'
    BY DEF Promises, Asking, Answering, Current, Telling, Ordered, Switches, Settings
  <2>4. QED
    BY <2>1, <2>2, <2>3, <1>a
<1>18. CASE Click
  <2> USE <1>0, <1>18 DEF Click, Buttons, Showing
  <2>1. Switches'
    BY DEF Switches
  <2>2. Settings'
    BY DEF Settings, Switches, Promises, Ordered
  <2>3. Promises'
    BY DEF Promises, Asking, Answering, Current, Telling, Ordered, Switches, Settings
  <2>4. QED
    BY <2>1, <2>2, <2>3, <1>a
<1>19. CASE Close
  <2> USE <1>0, <1>19 DEF Close, Showing
  <2>1. Switches'
    BY DEF Switches
  <2>2. Settings'
    BY DEF Settings, Switches, Promises, Ordered
  <2>3. Promises'
    BY DEF Promises, Asking, Answering, Current, Telling, Ordered, Switches, Settings
  <2>4. QED
    BY <2>1, <2>2, <2>3, <1>a
<1>20. CASE Nudge
  <2> USE <1>0, <1>20 DEF Nudge, Showing
  <2>1. Switches'
    BY DEF Switches
  <2>2. Settings'
    BY DEF Settings, Switches, Promises, Ordered
  <2>3. Promises'
    BY DEF Promises, Asking, Answering, Current, Telling, Ordered, Switches, Settings
  <2>4. QED
    BY <2>1, <2>2, <2>3, <1>a
<1>21. CASE Exit
  <2> USE <1>0, <1>21 DEF Exit
  <2>1. Switches'
    BY DEF Switches
  <2>2. Settings'
    BY DEF Settings, Switches, Promises, Ordered
  <2>3. Promises'
    BY DEF Promises, Asking, Answering, Current, Telling, Ordered, Switches, Settings
  <2>4. QED
    BY <2>1, <2>2, <2>3, <1>a
<1>22. CASE UNCHANGED vars
  <2> USE <1>0, <1>22 DEF vars
  <2>1. Switches'
    BY DEF Switches
  <2>2. Settings'
    BY DEF Settings, Switches, Promises, Ordered
  <2>3. Promises'
    BY DEF Promises, Asking, Answering, Current, Telling, Ordered, Switches, Settings
  <2>4. QED
    BY <2>1, <2>2, <2>3, <1>a
<1>23. QED
  BY <1>1, <1>2, <1>3, <1>4, <1>5, <1>6, <1>7, <1>8, <1>9, <1>10, <1>11, <1>12, <1>13, <1>14, <1>15, <1>16, <1>17, <1>18, <1>19, <1>20, <1>21, <1>22
  DEF Next, PipelineStep, WindowStep

LEMMA Invariant == Spec => []IInv
  BY InvInit, InvStep, PTL DEF Spec

-----------------------------------------------------------------------------
(* The theorems                                                             *)

\* Phase, pipeline and window have the values their types allow; no launcher
\* starts two browsers.
THEOREM Typing == Spec => []TypeOK
<1>1. IInv => TypeOK
  BY DEF IInv
<1>2. QED
  BY Invariant, <1>1, PTL

\* The window is never left open over an ended pipeline: every way to end it
\* signals that it is done and asks for the frame that closes.
THEOREM Unstranded == Spec => []NeverStranded
<1>1. IInv => NeverStranded
  BY DEF IInv, Telling, NeverStranded
<1>2. QED
  BY Invariant, <1>1, PTL

\* A wait is left only with an answer given to the question it asks.
THEOREM Consenting == Spec => Consent
<1>1. IInv /\ [Next]_vars => [(pc \in Waits /\ pc' # pc) => asked = "answered"]_vars
  <2> SUFFICES ASSUME IInv, Next, pc \in Waits, pc' # pc
               PROVE  asked = "answered"
    OBVIOUS
  <2>1. AfterRefusal \/ AfterReminder \/ AfterPrompt \/ AfterError
    BY DEF Next, PipelineStep, WindowStep, RequestRepaint, Restart, Acquire, Refuse,
           Check, Download, Launch, Spawn, Fallback, SignalDone, Sleep, Paint,
           EndFrame, Click, Close, Nudge, Exit, Awake, Waits, pipeline
  <2>2. phase \in Accepted(pc)
    BY <2>1 DEF AfterRefusal, AfterReminder, AfterPrompt, AfterError
  <2>3. QED
    BY <2>2 DEF IInv, Asking, Waits, Accepted
<1>2. QED
  BY Invariant, <1>1, PTL DEF Spec, Consent

\* The safety half of Resumes: no answered question has its pipeline asleep.
THEOREM Woken == Spec => [](asleep => asked # "answered")
<1>1. IInv => (asleep => asked # "answered")
  BY DEF IInv, Ordered
<1>2. QED
  BY Invariant, <1>1, PTL
=============================================================================
