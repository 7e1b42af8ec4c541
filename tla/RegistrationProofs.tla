------------------------- MODULE RegistrationProofs -------------------------
(* What Registration promises for any folders, places, moves and failures. *)
EXTENDS Registration, TLAPS

-----------------------------------------------------------------------------
(* The inductive invariant                                                  *)

\* No two folders stand at one place.
Apart == \A f, g \in Folders : at[f] = at[g] /\ at[f] \in Places => f = g

\* What each command knows of the record of its folder at each of its steps.
Known ==
    \A f \in Folders :
        /\ pc[f] \in Unregistering \cup {"write"} => sidecar[f] = at[f]
        /\ pc[f] \in {"archive", "fill"} => sidecar[f] \notin {"none", at[f]}
        /\ pc[f] = "save" => sidecar[f] \in history[f] \cup {"none", at[f]}
        /\ at[f] = Nowhere => sidecar[f] = "none" /\ history[f] = {}

\* A registration that still runs has written all values up to the next.
Progress ==
    \A f \in Folders :
        /\ pc[f] \in {"archive", "fill", "save"} => next[f] = 1
        /\ pc[f] = "write" =>
              /\ next[f] > 1 => "class" \in entries[at[f]]
              /\ next[f] > 2 => "command" \in entries[at[f]]
              /\ next[f] > 3 => "capabilities" \in entries[at[f]]

\* A removal that has not failed has removed what it has been through.
Emptied ==
    \A f \in Folders : ~failed[f] =>
        /\ pc[f] \in {"capabilities", "value", "forget"} =>
              entries[at[f]] \cap {"class", "command"} = {}
        /\ pc[f] \in {"value", "forget"} => "capabilities" \notin entries[at[f]]
        /\ pc[f] = "forget" => "advertised" \notin entries[at[f]]

IInv == TypeOK /\ Apart /\ Known /\ Progress /\ Emptied /\ Covered

-----------------------------------------------------------------------------
(* Type correctness                                                         *)

LEMMA TypeInit == Init => TypeOK
  BY RegistrationAssumption
  DEF Init, TypeOK, Records, Registering, Unregistering, Entries

LEMMA TypeStep == TypeOK /\ Known /\ [Next]_vars => TypeOK'
<1> SUFFICES ASSUME TypeOK, Known, [Next]_vars PROVE TypeOK'
  OBVIOUS
<1> USE RegistrationAssumption DEF TypeOK, Records, Registering, Unregistering, Entries
<1>1. CASE UNCHANGED vars
  BY <1>1 DEF vars, record, command
<1>2. ASSUME NEW f \in Folders, NEW p \in Places, Move(f, p) PROVE TypeOK'
  BY <1>2 DEF Move, Idle, record, command
<1>3. ASSUME NEW f \in Folders, NEW g \in Folders, NEW p \in Places, Copy(f, g, p)
      PROVE  TypeOK'
  BY <1>3 DEF Copy, Idle, command
<1>4. ASSUME NEW f \in Folders, Step(f) PROVE TypeOK'
  <2> USE DEF Goto, Fault, Idle, record
  <2>1. CASE Register(f)
    BY <2>1 DEF Register
  <2>2. CASE Archive(f)
    BY <2>2 DEF Archive, Known
  <2>3. CASE Fill(f)
    <3>1. torn' \in [Folders -> SUBSET Records] /\ history' \in [Folders -> SUBSET Records]
      BY <2>3 DEF Fill, Known
    <3>2. QED
      BY <2>3, <3>1 DEF Fill
  <2>4. CASE Save(f)
    BY <2>4 DEF Save
  <2>5. CASE Write(f)
    <3>1. Values[next[f]] \in Entries
      BY DEF Values
    <3>2. entries' \in [Places -> SUBSET Entries]
      BY <2>5, <3>1 DEF Write, Written
    <3>3. next' \in [Folders -> 1..4]
      BY <2>5 DEF Write, Written
    <3>4. QED
      BY <2>5, <3>2, <3>3 DEF Write, Written
  <2>6. CASE Unregister(f)
    BY <2>6 DEF Unregister
  <2>7. ASSUME NEW what \in SUBSET Entries,
               NEW then \in {"capabilities", "value", "forget"},
               pc[f] # "off", Remove(f, what, then)
        PROVE  TypeOK'
    <3>1. entries' \in [Places -> SUBSET Entries]
      BY <2>7 DEF Remove
    <3>2. failed' \in [Folders -> BOOLEAN] /\ faults' \in 0..MaxFaults
      <4>1. CASE UNCHANGED <<failed, faults>>
        BY <4>1
      <4>2. CASE Fault /\ failed' = [failed EXCEPT ![f] = TRUE]
        BY <4>2
      <4>3. QED
        BY <2>7, <4>1, <4>2 DEF Remove
    <3>3. pc' = [pc EXCEPT ![f] = then] /\ UNCHANGED <<at, record, next, moves>>
      BY <2>7 DEF Remove
    <3>4. /\ pc' \in [Folders -> Registering \cup Unregistering \cup {"off"}]
          /\ \A g \in Folders : pc'[g] # "off" => at'[g] \in Places
      BY <2>7, <3>3
    <3>5. QED
      BY <3>1, <3>2, <3>3, <3>4
  <2>8. CASE RemoveClasses(f)
    BY <2>7, <2>8 DEF RemoveClasses
  <2>9. CASE RemoveCapabilities(f)
    BY <2>7, <2>9 DEF RemoveCapabilities
  <2>10. CASE RemoveValue(f)
    BY <2>7, <2>10 DEF RemoveValue
  <2>11. CASE Forget(f)
    BY <2>11 DEF Forget
  <2>12. CASE Die(f)
    BY <2>12 DEF Die
  <2>13. QED
    BY <1>4, <2>1, <2>2, <2>3, <2>4, <2>5, <2>6, <2>8, <2>9, <2>10, <2>11, <2>12 DEF Step
<1>5. QED
  BY <1>1, <1>2, <1>3, <1>4 DEF Next

-----------------------------------------------------------------------------
(* The inductive invariant: one lemma for each of its parts                 *)

LEMMA ApartStep == TypeOK /\ Apart /\ [Next]_vars => Apart'
<1> SUFFICES ASSUME TypeOK, Apart, [Next]_vars PROVE Apart'
  OBVIOUS
<1>1. CASE UNCHANGED at
  BY <1>1 DEF Apart
<1>2. ASSUME NEW f \in Folders, NEW p \in Places, Move(f, p) PROVE Apart'
  BY <1>2 DEF Move, Free, Apart, TypeOK
<1>3. ASSUME NEW f \in Folders, NEW g \in Folders, NEW p \in Places, Copy(f, g, p)
      PROVE  Apart'
  BY <1>3 DEF Copy, Free, Apart, TypeOK
<1>4. ASSUME NEW f \in Folders, Step(f) PROVE UNCHANGED at
  BY <1>4 DEF Step, Register, Archive, Fill, Save, Write, Unregister, Remove,
              RemoveClasses, RemoveCapabilities, RemoveValue, Forget, Die
<1>5. QED
  BY <1>1, <1>2, <1>3, <1>4 DEF Next, vars

LEMMA KnownStep == TypeOK /\ Known /\ [Next]_vars => Known'
<1> SUFFICES ASSUME TypeOK, Known, [Next]_vars PROVE Known'
  OBVIOUS
<1> USE DEF TypeOK, Known, Registering, Unregistering
<1>1. CASE UNCHANGED vars
  BY <1>1 DEF vars, record, command
<1>2. ASSUME NEW f \in Folders, NEW p \in Places, Move(f, p) PROVE Known'
  BY <1>2, RegistrationAssumption DEF Move, Idle, record, command
<1>3. ASSUME NEW f \in Folders, NEW g \in Folders, NEW p \in Places, Copy(f, g, p)
      PROVE  Known'
  BY <1>3, RegistrationAssumption DEF Copy, Idle, command
<1>4. ASSUME NEW f \in Folders, Step(f) PROVE Known'
  <2> USE DEF Goto, Idle, record
  <2>1. CASE Register(f)
    BY <2>1 DEF Register
  <2>2. CASE Archive(f)
    BY <2>2 DEF Archive
  <2>3. CASE Fill(f)
    <3>1. \A g \in Folders :
             /\ history[g] \subseteq history'[g]
             /\ g # f => pc'[g] = pc[g]
             /\ pc'[f] = "save" => sidecar[f] \in history'[f]
             /\ pc'[f] \in {"save", "off"}
      BY <2>3 DEF Fill
    <3>2. at[f] # Nowhere /\ \A g \in Folders : g # f => history'[g] = history[g]
      BY <2>3, RegistrationAssumption DEF Fill
    <3>3. UNCHANGED <<at, sidecar>>
      BY <2>3 DEF Fill
    <3>4. QED
      BY <3>1, <3>2, <3>3
  <2>4. CASE Save(f)
    BY <2>4, RegistrationAssumption DEF Save
  <2>5. CASE Write(f)
    BY <2>5 DEF Write, Written
  <2>6. CASE Unregister(f)
    BY <2>6 DEF Unregister
  <2>7. ASSUME NEW what, NEW then \in {"capabilities", "value", "forget"},
               pc[f] \in Unregistering, Remove(f, what, then)
        PROVE  Known'
    BY <2>7 DEF Remove
  <2>8. CASE RemoveClasses(f)
    BY <2>7, <2>8 DEF RemoveClasses
  <2>9. CASE RemoveCapabilities(f)
    BY <2>7, <2>9 DEF RemoveCapabilities
  <2>10. CASE RemoveValue(f)
    BY <2>7, <2>10 DEF RemoveValue
  <2>11. CASE Forget(f)
    BY <2>11 DEF Forget
  <2>12. CASE Die(f)
    BY <2>12 DEF Die
  <2>13. QED
    BY <1>4, <2>1, <2>2, <2>3, <2>4, <2>5, <2>6, <2>8, <2>9, <2>10, <2>11, <2>12 DEF Step
<1>5. QED
  BY <1>1, <1>2, <1>3, <1>4 DEF Next

\* A command changes the registry of its own place only, and nothing that the
\* commands of other folders rely on.
LEMMA OwnPlace ==
    ASSUME TypeOK, Known, NEW f \in Folders, Step(f)
    PROVE  /\ \A p \in Places :
                 entries'[p] # entries[p] => p = at[f] /\ pc[f] # "off"
           /\ \A g \in Folders \ {f} :
                 /\ at'[g] = at[g] /\ pc'[g] = pc[g] /\ sidecar'[g] = sidecar[g]
                 /\ next'[g] = next[g] /\ failed'[g] = failed[g]
                 /\ history'[g] = history[g]
           /\ at' = at
<1> USE DEF TypeOK, Known, Registering, Unregistering, Goto, record
<1>1. CASE Write(f)
  BY <1>1 DEF Write, Written
<1>2. ASSUME NEW what, NEW then, pc[f] \in Unregistering, Remove(f, what, then)
      PROVE  /\ \A p \in Places :
                   entries'[p] # entries[p] => p = at[f] /\ pc[f] # "off"
             /\ \A g \in Folders \ {f} :
                   /\ at'[g] = at[g] /\ pc'[g] = pc[g] /\ sidecar'[g] = sidecar[g]
                   /\ next'[g] = next[g] /\ failed'[g] = failed[g]
                   /\ history'[g] = history[g]
             /\ at' = at
  BY <1>2 DEF Remove
<1>3. CASE RemoveClasses(f)
  BY <1>2, <1>3 DEF RemoveClasses
<1>4. CASE RemoveCapabilities(f)
  BY <1>2, <1>4 DEF RemoveCapabilities
<1>5. CASE RemoveValue(f)
  BY <1>2, <1>5 DEF RemoveValue
<1>6. CASE Register(f) \/ Archive(f) \/ Fill(f) \/ Save(f) \/ Unregister(f) \/ Forget(f) \/ Die(f)
  BY <1>6 DEF Register, Archive, Fill, Save, Unregister, Forget, Die
<1>7. QED
  BY <1>1, <1>3, <1>4, <1>5, <1>6 DEF Step

\* What is true of every folder's command at its own place survives moves and
\* copies, which only idle folders make.
LEMMA IdleStep ==
    ASSUME TypeOK, NEW f \in Folders, pc'[f] # "off",
           \/ UNCHANGED vars
           \/ \E g \in Folders, p \in Places : Move(g, p)
           \/ \E g, h \in Folders, p \in Places : Copy(g, h, p)
    PROVE  at'[f] = at[f] /\ UNCHANGED <<entries, command>>
<1>1. UNCHANGED <<entries, command>>
  BY DEF vars, Move, Copy
<1>2. pc[f] # "off" /\ at[f] \in Places
  BY <1>1 DEF command, TypeOK
<1>3. CASE UNCHANGED vars
  BY <1>1, <1>3 DEF vars
<1>4. ASSUME NEW g \in Folders, NEW p \in Places, Move(g, p) PROVE at'[f] = at[f]
  BY <1>2, <1>4 DEF Move, Idle, TypeOK
<1>5. ASSUME NEW g \in Folders, NEW h \in Folders, NEW p \in Places, Copy(g, h, p)
      PROVE  at'[f] = at[f]
  BY <1>2, <1>5, RegistrationAssumption DEF Copy, TypeOK
<1>6. QED
  BY <1>1, <1>3, <1>4, <1>5

LEMMA ProgressStep ==
    TypeOK /\ Apart /\ Known /\ Progress /\ [Next]_vars => Progress'
<1> DEFINE Early(f) == pc[f] \in {"archive", "fill", "save"} => next[f] = 1
           Late(f)  == pc[f] = "write" =>
                          /\ next[f] > 1 => "class" \in entries[at[f]]
                          /\ next[f] > 2 => "command" \in entries[at[f]]
                          /\ next[f] > 3 => "capabilities" \in entries[at[f]]
<1> SUFFICES ASSUME TypeOK, Apart, Known, Progress, [Next]_vars, NEW g \in Folders
             PROVE  Early(g)' /\ Late(g)'
  BY DEF Progress
<1>1. CASE \/ UNCHANGED vars
           \/ \E f \in Folders, p \in Places : Move(f, p)
           \/ \E f, h \in Folders, p \in Places : Copy(f, h, p)
  BY <1>1, IdleStep DEF Progress, command
<1>2. ASSUME NEW f \in Folders, Step(f), f # g PROVE Early(g)' /\ Late(g)'
  <2>1. pc'[g] = pc[g] /\ at'[g] = at[g] /\ next'[g] = next[g]
    BY <1>2, OwnPlace
  <2>2. ASSUME pc[g] # "off" PROVE entries'[at[g]] = entries[at[g]]
    <3>1. at[g] \in Places /\ at[f] # at[g]
      BY <1>2, <2>2 DEF Apart, TypeOK
    <3>2. QED
      BY <1>2, <3>1, OwnPlace
  <2>3. QED
    BY <2>1, <2>2 DEF Progress
<1>3. ASSUME Step(g) PROVE Early(g)' /\ Late(g)'
  <2> USE DEF TypeOK, Goto, Progress
  <2>1. CASE Register(g)
    BY <2>1 DEF Register
  <2>2. CASE Archive(g) \/ Fill(g) \/ Save(g)
    BY <2>2 DEF Archive, Fill, Save
  <2>3. CASE Write(g)
    BY <2>3 DEF Write, Written, Values
  <2>4. QED
    BY <1>3, <2>1, <2>2, <2>3
    DEF Step, Unregister, Remove, RemoveClasses, RemoveCapabilities, RemoveValue, Forget, Die
<1>4. QED
  BY <1>1, <1>2, <1>3 DEF Next

LEMMA EmptiedStep ==
    TypeOK /\ Apart /\ Known /\ Emptied /\ [Next]_vars => Emptied'
<1> DEFINE Gone(f) == ~failed[f] =>
              /\ pc[f] \in {"capabilities", "value", "forget"} =>
                    entries[at[f]] \cap {"class", "command"} = {}
              /\ pc[f] \in {"value", "forget"} => "capabilities" \notin entries[at[f]]
              /\ pc[f] = "forget" => "advertised" \notin entries[at[f]]
<1> SUFFICES ASSUME TypeOK, Apart, Known, Emptied, [Next]_vars, NEW g \in Folders
             PROVE  Gone(g)'
  BY DEF Emptied
<1>1. CASE \/ UNCHANGED vars
           \/ \E f \in Folders, p \in Places : Move(f, p)
           \/ \E f, h \in Folders, p \in Places : Copy(f, h, p)
  BY <1>1, IdleStep DEF Emptied, command
<1>2. ASSUME NEW f \in Folders, Step(f), f # g PROVE Gone(g)'
  <2>1. pc'[g] = pc[g] /\ at'[g] = at[g] /\ failed'[g] = failed[g]
    BY <1>2, OwnPlace
  <2>2. ASSUME pc[g] # "off" PROVE entries'[at[g]] = entries[at[g]]
    <3>1. at[g] \in Places /\ at[f] # at[g]
      BY <1>2, <2>2 DEF Apart, TypeOK
    <3>2. QED
      BY <1>2, <3>1, OwnPlace
  <2>3. QED
    BY <2>1, <2>2 DEF Emptied
<1>3. ASSUME Step(g) PROVE Gone(g)'
  <2> USE DEF TypeOK, Goto, Emptied
  <2>1. CASE Register(g) \/ Archive(g) \/ Fill(g) \/ Save(g) \/ Write(g)
    BY <2>1 DEF Register, Archive, Fill, Save, Write, Written
  <2>2. CASE Unregister(g) \/ Forget(g) \/ Die(g)
    BY <2>2 DEF Unregister, Forget, Die
  <2>3. ASSUME NEW what, NEW then, pc[g] \in Unregistering, Remove(g, what, then), ~failed'[g]
        PROVE  /\ ~failed[g] /\ pc'[g] = then
               /\ entries'[at'[g]] = entries[at[g]] \ what
    <3>1. sidecar[g] = at[g] /\ at[g] \in Places
      BY <2>3 DEF Known, Unregistering
    <3>2. entries' = [entries EXCEPT ![sidecar[g]] = @ \ what] /\ UNCHANGED failed
      BY <2>3 DEF Remove
    <3>3. QED
      BY <2>3, <3>1, <3>2 DEF Remove, Unregistering
  <2>4. CASE RemoveClasses(g)
    BY <2>3, <2>4 DEF RemoveClasses, Unregistering
  <2>5. CASE RemoveCapabilities(g)
    BY <2>3, <2>5 DEF RemoveCapabilities, Unregistering
  <2>6. CASE RemoveValue(g)
    BY <2>3, <2>6 DEF RemoveValue, Unregistering
  <2>7. QED
    BY <1>3, <2>1, <2>2, <2>4, <2>5, <2>6 DEF Step
<1>4. QED
  BY <1>1, <1>2, <1>3 DEF Next

LEMMA CoveredStep == IInv /\ [Next]_vars => Covered'
<1> SUFFICES ASSUME IInv, [Next]_vars, NEW p \in Places, entries'[p] # {}
             PROVE  \E f \in Folders : p \in (history[f] \cup {sidecar[f]})'
  BY DEF Covered
<1> USE DEF IInv
<1>1. CASE UNCHANGED vars
  BY <1>1 DEF Covered, vars, record
<1>2. ASSUME NEW f \in Folders, NEW q \in Places, Move(f, q)
      PROVE  \E g \in Folders : p \in (history[g] \cup {sidecar[g]})'
  BY <1>2 DEF Move, Covered, record
<1>3. ASSUME NEW f \in Folders, NEW g \in Folders, NEW q \in Places, Copy(f, g, q)
      PROVE  \E h \in Folders : p \in (history[h] \cup {sidecar[h]})'
  <2>1. PICK h \in Folders : p \in history[h] \cup {sidecar[h]}
    BY <1>3 DEF Copy, Covered
  <2>2. h # g
    BY <1>3, <2>1, RegistrationAssumption DEF Copy, Known
  <2>3. QED
    BY <1>3, <2>1, <2>2 DEF Copy, TypeOK
<1>4. ASSUME NEW f \in Folders, Step(f)
      PROVE  \E h \in Folders : p \in (history[h] \cup {sidecar[h]})'
  <2>1. CASE entries[p] = {}
    <3>1. p = at[f] /\ Write(f)
      BY <1>4, <2>1, OwnPlace
      DEF Step, Register, Archive, Fill, Save, Unregister, Remove, RemoveClasses,
          RemoveCapabilities, RemoveValue, Forget, Die, TypeOK, record
    <3>2. sidecar'[f] = p
      BY <3>1 DEF Write, Known, record
    <3>3. QED
      BY <3>2
  <2>2. CASE entries[p] # {}
    <3>1. PICK g \in Folders : p \in history[g] \cup {sidecar[g]}
      BY <2>2 DEF Covered
    <3>2. CASE g # f
      BY <1>4, <3>1, <3>2, OwnPlace
    <3>3. CASE Save(f) /\ g = f
      BY <3>1, <3>3, RegistrationAssumption DEF Save, Known, TypeOK
    <3>4. CASE Forget(f) /\ g = f
      <4>1. sidecar[f] = at[f] /\ at[f] \in Places
        BY <3>4 DEF Forget, Known, Unregistering, TypeOK
      <4>2. ASSUME ~failed[f] PROVE entries[at[f]] = {}
        BY <3>4, <4>1, <4>2 DEF Forget, Emptied, TypeOK, Entries
      <4>3. QED
        BY <2>2, <3>1, <3>4, <4>1, <4>2 DEF Forget
    <3>5. CASE g = f /\ ~Save(f) /\ ~Forget(f)
      <4>1. sidecar' = sidecar /\ history[f] \subseteq history'[f]
        BY <1>4, <3>5
        DEF Step, Register, Archive, Fill, Write, Unregister, Remove, RemoveClasses,
            RemoveCapabilities, RemoveValue, Die, TypeOK, record
      <4>2. QED
        BY <3>1, <3>5, <4>1
    <3>6. QED
      BY <3>2, <3>3, <3>4, <3>5
  <2>3. QED
    BY <2>1, <2>2
<1>5. QED
  BY <1>1, <1>2, <1>3, <1>4 DEF Next

LEMMA InvInit == Init => IInv
<1> SUFFICES ASSUME Init PROVE IInv
  OBVIOUS
<1>1. TypeOK
  BY TypeInit
<1>2. Apart
  BY RegistrationAssumption DEF Init, Apart
<1>3. Known /\ Progress /\ Emptied /\ Covered
  BY RegistrationAssumption
  DEF Init, Known, Progress, Emptied, Covered, Registering, Unregistering
<1>4. QED
  BY <1>1, <1>2, <1>3 DEF IInv

LEMMA InvStep == IInv /\ [Next]_vars => IInv'
  BY TypeStep, ApartStep, KnownStep, ProgressStep, EmptiedStep, CoveredStep DEF IInv

LEMMA Invariant == Spec => []IInv
  BY InvInit, InvStep, PTL DEF Spec

-----------------------------------------------------------------------------
(* The theorems                                                             *)

\* The records, the registry and the commands have the values the code gives
\* them, whatever fails and wherever folders go.
THEOREM Typing == Spec => []TypeOK
<1>1. IInv => TypeOK
  BY DEF IInv
<1>2. QED
  BY Invariant, <1>1, PTL

\* Everything registered, complete or not, stays described by a record in some
\* folder: Plan::apply records first, persist archives what it replaces, and
\* finish_unregistration deletes last.
THEOREM Coverage == Spec => []Covered
<1>1. IInv => Covered
  BY DEF IInv
<1>2. QED
  BY Invariant, <1>1, PTL

\* No copy of a folder, wherever it goes with whatever records, changes what
\* another location has in the registry (owned_state).
THEOREM Intact == Spec => OthersIntact
<1>1. IInv /\ [Next]_vars =>
        [\A p \in Places : entries'[p] # entries[p] =>
            \E f \in Folders : at[f] = p /\ pc[f] # "off"]_vars
  <2> SUFFICES ASSUME IInv, Next, NEW p \in Places, entries'[p] # entries[p]
               PROVE  \E f \in Folders : at[f] = p /\ pc[f] # "off"
    OBVIOUS
  <2>1. PICK f \in Folders : Step(f)
    BY DEF Next, Move, Copy
  <2>2. QED
    BY <2>1, OwnPlace DEF IInv
<1>2. QED
  BY Invariant, <1>1, PTL DEF Spec, OthersIntact

\* A candidate is advertised when its capabilities and its open command are
\* there, whatever a failed registration or removal had left (Plan::apply).
THEOREM Advertising == Spec => AdvertisedLast
<1>1. IInv /\ [Next]_vars =>
        [\A p \in Places :
            "advertised" \in entries'[p] \ entries[p] => entries'[p] = Entries]_vars
  <2> SUFFICES ASSUME IInv, Next, NEW p \in Places, "advertised" \in entries'[p] \ entries[p]
               PROVE  entries'[p] = Entries
    OBVIOUS
  <2>1. PICK f \in Folders : Step(f)
    BY DEF Next, Move, Copy
  <2>2. p = at[f]
    BY <2>1, OwnPlace DEF IInv
  <2>3. Write(f)
    BY <2>1, <2>2
    DEF Step, Register, Archive, Fill, Save, Unregister, Remove, RemoveClasses,
        RemoveCapabilities, RemoveValue, Forget, Die, IInv, TypeOK, Known,
        Unregistering, record
  <2>4. entries'[p] = entries[p] \cup {Values[next[f]]}
    BY <2>2, <2>3 DEF Write, Written, IInv, TypeOK
  <2>5. Values[next[f]] = "advertised" /\ next[f] \in 1..4
    BY <2>4 DEF IInv, TypeOK
  <2>6. next[f] = 4
    BY <2>5 DEF Values
  <2>7. {"class", "command", "capabilities"} \subseteq entries[p]
    BY <2>2, <2>3, <2>6 DEF Write, IInv, Progress
  <2>8. QED
    BY <2>4, <2>5, <2>7 DEF IInv, TypeOK, Entries
<1>2. QED
  BY Invariant, <1>1, PTL DEF Spec, AdvertisedLast

\* A record is deleted only when nothing it describes is left
\* (finish_unregistration).
THEOREM Removal == Spec => RemovedFirst
<1>1. IInv /\ [Next]_vars =>
        [\A f \in Folders :
            sidecar[f] \in Places /\ sidecar'[f] = "none" => entries[sidecar[f]] = {}]_vars
  <2> SUFFICES ASSUME IInv, Next, NEW f \in Folders,
                      sidecar[f] \in Places, sidecar'[f] = "none"
               PROVE  entries[sidecar[f]] = {}
    OBVIOUS
  <2>1. sidecar'[f] # sidecar[f]
    BY RegistrationAssumption
  <2>2. CASE Forget(f)
    BY <2>1, <2>2 DEF Forget, IInv, Known, Emptied, Unregistering, TypeOK, Entries
  <2>3. ASSUME NEW g \in Folders, Step(g) PROVE Forget(f)
    <3>1. g = f
      BY <2>1, <2>3, OwnPlace DEF IInv
    <3>2. ~Save(f)
      BY RegistrationAssumption DEF Save, IInv, TypeOK
    <3>3. QED
      BY <2>1, <2>3, <3>1, <3>2
      DEF Step, Register, Archive, Fill, Write, Unregister, Remove, RemoveClasses,
          RemoveCapabilities, RemoveValue, Die, record
  <2>4. ASSUME NEW g \in Folders, NEW h \in Folders, NEW p \in Places, Copy(g, h, p)
        PROVE  FALSE
    BY <2>1, <2>4, RegistrationAssumption DEF Copy, IInv, Known, TypeOK
  <2>5. ASSUME NEW g \in Folders, NEW p \in Places, Move(g, p) PROVE FALSE
    BY <2>1, <2>5 DEF Move, record
  <2>6. QED
    BY <2>2, <2>3, <2>4, <2>5 DEF Next
<1>2. QED
  BY Invariant, <1>1, PTL DEF Spec, RemovedFirst

\* The record of a shared registration, or of another location, is replaced
\* only after the history has it whole (archive_record).
THEOREM Keeping == Spec => Archived
<1>1. IInv /\ [Next]_vars =>
        [\A f \in Folders :
            at[f] = at'[f] /\ sidecar[f] \notin {"none", at[f]} /\ sidecar'[f] # sidecar[f]
                => sidecar[f] \in history[f]]_vars
  <2> SUFFICES ASSUME IInv, Next, NEW f \in Folders, at[f] = at'[f],
                      sidecar[f] \notin {"none", at[f]}, sidecar'[f] # sidecar[f]
               PROVE  sidecar[f] \in history[f]
    OBVIOUS
  <2>1. ASSUME NEW g \in Folders, Step(g) PROVE sidecar[f] \in history[f]
    <3>1. g = f
      BY <2>1, OwnPlace DEF IInv
    <3>2. CASE Save(f)
      BY <3>2 DEF Save, IInv, Known
    <3>3. CASE Forget(f)
      BY <3>3 DEF Forget, IInv, Known, Unregistering
    <3>4. QED
      BY <2>1, <3>1, <3>2, <3>3
      DEF Step, Register, Archive, Fill, Write, Unregister, Remove, RemoveClasses,
          RemoveCapabilities, RemoveValue, Die, record
  <2>2. ASSUME NEW g \in Folders, NEW h \in Folders, NEW p \in Places, Copy(g, h, p)
        PROVE  FALSE
    BY <2>2, RegistrationAssumption DEF Copy, IInv, Known, TypeOK
  <2>3. ASSUME NEW g \in Folders, NEW p \in Places, Move(g, p) PROVE FALSE
    BY <2>3 DEF Move, record
  <2>4. QED
    BY <2>1, <2>2, <2>3 DEF Next
<1>2. QED
  BY Invariant, <1>1, PTL DEF Spec, Archived

\* A record outlives what it describes, or has a whole copy in the history, so
\* that a removal can always find the entries (remove_registration, archive).
THEOREM Recording == Spec => RecordsKept
  BY Removal, Keeping DEF RecordsKept
=============================================================================
