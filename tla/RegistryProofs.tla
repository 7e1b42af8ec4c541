--------------------------- MODULE RegistryProofs ---------------------------
(***************************************************************************)
(* Proofs about RegistryRepair, for any processes, keys, paths, browsers'   *)
(* commands, budgets and failures: everything its run checks of the journal *)
(* and the registry, other than that a command is rerouted in the end.      *)
(***************************************************************************)
EXTENDS RegistryRepair, FiniteSetTheorems, TLAPS

-----------------------------------------------------------------------------
(* Commands and journals.                                                   *)

\* Commands of a browser at different paths, of the launcher and of others
\* differ, and none of them is an absent entry.
LEMMA Distinct ==
    /\ \A a, b : \A c \in Own(a) : c # Ours(b) /\ c # NoEntry /\ (c \in Own(b) => a = b)
    /\ \A a, b : Ours(a) = Ours(b) => a = b
    /\ \A a : Ours(a) # NoEntry /\ Ours(a) # Custom /\ Ours(a) # Missing
<1>1. \A a, b : \A c \in Own(a) : c # Ours(b) /\ c # NoEntry /\ (c \in Own(b) => a = b)
  <2> SUFFICES ASSUME NEW a, NEW b, NEW c \in Own(a)
               PROVE  c # Ours(b) /\ c # NoEntry /\ (c \in Own(b) => a = b)
    OBVIOUS
  <2>1. c.by = "browser" /\ c.at = a
    BY DEF Own
  <2>2. Ours(b).by = "launcher" /\ NoEntry.by = "nothing"
    BY DEF Ours, NoEntry
  <2>3. c \in Own(b) => c.at = b
    BY DEF Own
  <2>4. QED
    BY <2>1, <2>2, <2>3
<1>2. \A a : Ours(a).by = "launcher" /\ Ours(a).at = a
  BY DEF Ours
<1>3. NoEntry.by = "nothing" /\ Custom.by = "other" /\ Missing.by = "nobody"
  BY DEF NoEntry, Custom, Missing
<1>4. QED
  BY <1>1, <1>2, <1>3

\* What anybody writes is a command, and what a browser writes can be recorded.
LEMMA Kinds ==
    /\ \A a \in Places : Own(a) \subseteq BrowserCommands /\ Own(a) \subseteq Commands
    /\ \A a \in Places : Ours(a) \in Commands
    /\ Custom \in Commands /\ Missing \in Commands
    /\ NoEntry \notin Commands
<1>1. \A c \in Commands : c.by \in {"browser", "launcher", "other", "nobody"}
  BY DEF Commands, BrowserCommands, Own, Ours, Custom, Missing
<1>2. NoEntry.by = "nothing"
  BY DEF NoEntry
<1>3. NoEntry \notin Commands
  BY <1>1, <1>2
<1>4. QED
  BY <1>3 DEF Commands, BrowserCommands

\* Writing one command of a host changes no other.
LEMMA Changed ==
    ASSUME NEW f \in [Hosts -> [Keys -> Commands]], NEW h \in Hosts, NEW k \in Keys, NEW c \in Commands
    PROVE  /\ [f EXCEPT ![h][k] = c] \in [Hosts -> [Keys -> Commands]]
           /\ [f EXCEPT ![h][k] = c][h][k] = c
           /\ \A g \in Hosts, l \in Keys :
                 g # h \/ l # k => [f EXCEPT ![h][k] = c][g][l] = f[g][l]
  OBVIOUS

\* A journal that can be opened where it says it is.
Within(j) ==
    /\ Cardinality(Recorded(j)) <= MaxEntries
    /\ \A k \in Recorded(j) : j.entries[k] \in Own(j.at)

\* A fresh or emptied journal is one.
LEMMA Empty ==
    /\ \A a \in Places : Fresh(a) \in Journals /\ Fresh(a).at = a /\ Fresh(a).enabled /\ Within(Fresh(a))
    /\ \A j \in Journals : /\ Emptied(j) \in Journals
                           /\ Emptied(j).at = j.at /\ Emptied(j).enabled = j.enabled
                           /\ Emptied(j).entries = [k \in Keys |-> NoEntry]
                           /\ Within(Emptied(j))
<1>1. \A j : j.entries = [k \in Keys |-> NoEntry] => Within(j)
  <2> SUFFICES ASSUME NEW j, j.entries = [k \in Keys |-> NoEntry] PROVE Within(j)
    OBVIOUS
  <2>1. Recorded(j) = {}
    BY DEF Recorded
  <2>2. Cardinality({}) = 0
    BY FS_EmptySet
  <2>3. QED
    BY <2>1, <2>2, RegistryRepairAssumption DEF Within
<1>2. \A a \in Places : /\ Fresh(a) \in Journals /\ Fresh(a).at = a /\ Fresh(a).enabled
                        /\ Fresh(a).entries = [k \in Keys |-> NoEntry]
  BY DEF Fresh, Journals
<1>3. \A j \in Journals : /\ Emptied(j) \in Journals
                          /\ Emptied(j).at = j.at /\ Emptied(j).enabled = j.enabled
                          /\ Emptied(j).entries = [k \in Keys |-> NoEntry]
  BY DEF Emptied, Journals
<1>4. QED
  BY <1>1, <1>2, <1>3

\* Taking a journal over keeps its entries, and opens it for this place.
LEMMA TakenOver ==
    ASSUME NEW j \in Journals, place \in Places, Opens(j), Within(j)
    PROVE  /\ Opened(j) \in Journals /\ Opened(j).at = place
           /\ Opened(j).enabled = j.enabled /\ Opened(j).entries = j.entries
           /\ Within(Opened(j))
<1>1. /\ Opened(j) \in Journals /\ Opened(j).at = place
      /\ Opened(j).enabled = j.enabled /\ Opened(j).entries = j.entries
  BY DEF Opened, Journals
<1>2. Recorded(Opened(j)) = Recorded(j)
  BY <1>1 DEF Recorded
<1>3. QED
  BY <1>1, <1>2 DEF Within, Opens

\* Turning repairs on or off touches no entry.
LEMMA Switched ==
    ASSUME NEW j \in Journals, NEW on \in BOOLEAN, Within(j)
    PROVE  LET s == [j EXCEPT !.enabled = on]
           IN  s \in Journals /\ s.at = j.at /\ s.enabled = on /\ s.entries = j.entries /\ Within(s)
<1> DEFINE s == [j EXCEPT !.enabled = on]
<1>1. s \in Journals /\ s.at = j.at /\ s.enabled = on /\ s.entries = j.entries
  BY DEF Journals
<1> HIDE DEF s
<1>2. Recorded(s) = Recorded(j)
  BY <1>1 DEF Recorded
<1>3. Within(s)
  BY <1>1, <1>2 DEF Within
<1>4. QED
  BY <1>1, <1>3 DEF s

\* A command entered where there is room, or over an older one, keeps the
\* journal within its budget.
LEMMA Entered ==
    ASSUME NEW j \in Journals, Within(j), j.at \in Places, NEW k \in Keys, NEW c \in Own(j.at),
           j.entries[k] # NoEntry \/ Cardinality(Recorded(j)) < MaxEntries,
           NEW w, w = With(j, k, c)
    PROVE  /\ w \in Journals /\ w.at = j.at /\ w.enabled = j.enabled
           /\ w.entries[k] = c /\ \A l \in Keys : l # k => w.entries[l] = j.entries[l]
           /\ Within(w)
<1>1. /\ w \in Journals /\ w.at = j.at /\ w.enabled = j.enabled
      /\ w.entries[k] = c /\ \A l \in Keys : l # k => w.entries[l] = j.entries[l]
  BY Kinds DEF With, Journals
<1>2. c # NoEntry
  BY Distinct
<1>3. Recorded(w) = Recorded(j) \cup {k}
  BY <1>1, <1>2 DEF Recorded
<1>4. IsFiniteSet(Recorded(j)) /\ Cardinality(Recorded(j)) \in Nat
  BY RegistryRepairAssumption, FS_Subset, FS_CardinalityType DEF Recorded
<1>5. Cardinality(Recorded(w)) <= MaxEntries
  <2>1. CASE k \in Recorded(j)
    BY <1>3, <2>1 DEF Within
  <2>2. CASE k \notin Recorded(j)
    <3>1. Cardinality(Recorded(w)) = Cardinality(Recorded(j)) + 1
      BY <1>3, <1>4, <2>2, FS_AddElement
    <3>2. Cardinality(Recorded(j)) < MaxEntries
      BY <2>2 DEF Recorded
    <3>3. QED
      BY <1>4, <3>1, <3>2, RegistryRepairAssumption
  <2>3. QED
    BY <2>1, <2>2
<1>6. \A l \in Recorded(w) : w.entries[l] \in Own(w.at)
  BY <1>1, <1>3 DEF Within, Recorded
<1>7. QED
  BY <1>1, <1>5, <1>6 DEF Within

-----------------------------------------------------------------------------
(* The inductive invariant.                                                 *)

\* Exactly who is in a session holds the lock.
Single == \A p \in Workers : pc[p] # "off" <=> lock = p

\* What the process in a session has established at each of its steps: its
\* journal belongs here and differs from the file in entries only, and in
\* none once it compares or undoes; what it is about to replace was recorded
\* first, and is what it found, if nobody wrote since.
Sound(p) ==
    /\ mem[p].at = place /\ mem[p].enabled = journal.enabled /\ Within(mem[p])
    /\ pc[p] \in {"disable", "enable"} => mem[p].entries = journal.entries
    /\ pc[p] \in {"save", "compare", "set"} =>
          /\ mem[p].enabled /\ key[p] \in Keys
          /\ seen[p] \in Own(place) /\ mem[p].entries[key[p]] = seen[p]
    /\ pc[p] \in {"compare", "set", "undo", "restore", "clear"} => journal = mem[p]
    /\ pc[p] \in {"undo", "restore", "clear"} => ~mem[p].enabled
    /\ pc[p] \in {"undo", "restore"} => todo[p] \subseteq Recorded(mem[p])
    /\ pc[p] = "restore" => key[p] \in Recorded(mem[p])
    /\ pc[p] = "set" /\ <<host, key[p]>> \notin raced => Now(key[p]) = seen[p]
    /\ pc[p] = "restore" /\ <<host, key[p]>> \notin raced => Now(key[p]) = Ours(place)

Steady == \A p \in Workers : pc[p] # "off" => Sound(p)

\* After a restored command repairs are disabled in the file.
Off == restored => ~journal.enabled

SInv == TypeOK /\ Single /\ Steady /\ Within(journal) /\ Off

\* A process in a session is the only one.
LEMMA Alone ==
    ASSUME SInv, NEW p \in Workers, pc[p] # "off"
    PROVE  lock = p /\ Sound(p) /\ \A q \in Workers \ {p} : pc[q] = "off"
  BY DEF SInv, Single, Steady

\* A session that closes, after whatever it wrote into the file.
LEMMA Closing ==
    ASSUME SInv, NEW p \in Workers, pc[p] # "off", Closed(p), place' = place
    PROVE  /\ lock' = NoOne /\ \A q \in Workers : pc'[q] = "off"
           /\ pc' \in [Workers -> Labels] /\ mem' \in [Workers -> Journals]
           /\ todo' \in [Workers -> SUBSET Keys] /\ key' \in [Workers -> Keys \cup {NoKey}]
           /\ seen' \in [Workers -> Commands]
           /\ Single' /\ Steady'
<1>1. lock = p /\ \A q \in Workers \ {p} : pc[q] = "off"
  BY Alone
<1>2. lock' = NoOne /\ \A q \in Workers : pc'[q] = "off"
  BY <1>1 DEF Closed, Goto, SInv, TypeOK
<1>3. Fresh(place) \in Journals /\ Missing \in Commands
  BY Empty, Kinds DEF SInv, TypeOK
<1>4. /\ pc' \in [Workers -> Labels] /\ mem' \in [Workers -> Journals]
      /\ todo' \in [Workers -> SUBSET Keys] /\ key' \in [Workers -> Keys \cup {NoKey}]
      /\ seen' \in [Workers -> Commands]
  BY <1>3 DEF Closed, Goto, SInv, TypeOK, Labels
<1>5. Single'
  BY <1>2, RegistryRepairAssumption DEF Single
<1>6. Steady'
  BY <1>2 DEF Steady
<1>7. QED
  BY <1>2, <1>4, <1>5, <1>6

\* A session that goes on: the steps below show its new label, that it keeps
\* the lock, and what it now knows.
LEMMA GoingOn ==
    ASSUME SInv, NEW p \in Workers, NEW l \in Labels \ {"off"},
           \A q \in Workers \ {p} : pc[q] = "off",
           pc' = [pc EXCEPT ![p] = l], lock' = p, Sound(p)'
    PROVE  pc' \in [Workers -> Labels] /\ Single' /\ Steady'
<1>1. pc' \in [Workers -> Labels] /\ pc'[p] = l /\ \A q \in Workers \ {p} : pc'[q] = "off"
  BY DEF SInv, TypeOK
<1>2. Single'
  BY <1>1 DEF Single
<1>3. Steady'
  BY <1>1 DEF Steady
<1>4. QED
  BY <1>1, <1>2, <1>3

-----------------------------------------------------------------------------
(* The steps.                                                               *)

\* A session opens with a journal that belongs here.
LEMMA Openings ==
    ASSUME SInv, NEW p \in Workers, Sweep(p) \/ Unregister(p) \/ Register(p)
    PROVE  SInv'
<1> PICK l \in {"sweep", "disable", "enable"} : Open(p, l)
  BY DEF Sweep, Unregister, Register
<1>1. /\ pc[p] = "off" /\ lock = NoOne /\ Opens(journal)
      /\ lock' = p /\ mem' = [mem EXCEPT ![p] = Opened(journal)] /\ pc' = [pc EXCEPT ![p] = l]
      /\ UNCHANGED <<host, place, cmd, journal, key, seen, overwritten, raced, restored>>
  BY DEF Open, Goto, folder, history
<1>2. /\ Opened(journal) \in Journals /\ Opened(journal).at = place
      /\ Opened(journal).enabled = journal.enabled /\ Opened(journal).entries = journal.entries
      /\ Within(Opened(journal))
  BY <1>1, TakenOver DEF SInv, TypeOK
<1>3. todo' \in [Workers -> SUBSET Keys] /\ acts' \in 0..MaxActs /\ faults' = faults
  BY RegistryRepairAssumption DEF Sweep, Unregister, Register, Act, SInv, TypeOK
<1>4. \A q \in Workers : pc[q] = "off"
  BY <1>1, RegistryRepairAssumption DEF SInv, Single
<1>5. mem' \in [Workers -> Journals] /\ mem'[p] = Opened(journal) /\ pc'[p] = l
  BY <1>1, <1>2 DEF SInv, TypeOK
<1>6. Sound(p)'
  BY <1>1, <1>2, <1>5 DEF Sound
<1>7. pc' \in [Workers -> Labels] /\ Single' /\ Steady'
  BY <1>1, <1>4, <1>6, GoingOn DEF Labels, Sweeping, Undoing
<1>8. TypeOK'
  BY <1>1, <1>3, <1>5, <1>7 DEF SInv, TypeOK
<1>9. Within(journal)' /\ Off'
  BY <1>1 DEF SInv, Off, Within, Recorded
<1>10. QED
  BY <1>7, <1>8, <1>9 DEF SInv

\* The sweep of one key: it is looked at, recorded, saved, compared, replaced.
LEMMA Sweeps ==
    ASSUME SInv, NEW p \in Workers,
           Look(p) \/ Save(p) \/ Compare(p) \/ Set(p) \/ SweepEnds(p)
    PROVE  SInv'
<1> USE RegistryRepairAssumption
<1>1. pc[p] # "off" /\ lock = p /\ Sound(p) /\ \A q \in Workers \ {p} : pc[q] = "off"
  BY Alone DEF Look, Save, Compare, Set, SweepEnds
<1>2. CASE Look(p)
  <2>1. PICK k \in todo[p] :
           /\ todo' = [todo EXCEPT ![p] = @ \ {k}]
           /\ \/ /\ Repairable(p, k)
                 /\ mem' = [mem EXCEPT ![p] = With(@, k, Now(k))]
                 /\ key' = [key EXCEPT ![p] = k]
                 /\ seen' = [seen EXCEPT ![p] = Now(k)]
                 /\ Goto(p, "save")
              \/ /\ ~Repairable(p, k)
                 /\ UNCHANGED <<mem, key, seen, pc>>
    BY <1>2 DEF Look
  <2>2. /\ UNCHANGED <<lock, host, place, cmd, journal, overwritten, raced, restored, acts, faults>>
        /\ k \in Keys /\ todo' \in [Workers -> SUBSET Keys] /\ pc[p] = "sweep"
    BY <1>2, <2>1 DEF Look, folder, history, SInv, TypeOK
  <2>3. Within(journal)' /\ Off'
    BY <2>2 DEF SInv, Off
  <2>4. CASE ~Repairable(p, k) /\ UNCHANGED <<mem, key, seen, pc>>
    <3>1. TypeOK' /\ Single'
      BY <2>2, <2>4 DEF SInv, TypeOK, Single
    <3>2. Sound(p)'
      BY <1>1, <2>2, <2>4 DEF Sound
    <3>3. Steady'
      BY <1>1, <2>4, <3>2 DEF Steady
    <3>4. QED
      BY <2>3, <3>1, <3>3 DEF SInv
  <2>5. CASE /\ Repairable(p, k)
             /\ mem' = [mem EXCEPT ![p] = With(@, k, Now(k))]
             /\ key' = [key EXCEPT ![p] = k]
             /\ seen' = [seen EXCEPT ![p] = Now(k)]
             /\ Goto(p, "save")
    <3>1. /\ mem[p] \in Journals /\ Within(mem[p]) /\ mem[p].at = place /\ place \in Places
          /\ Now(k) \in Own(place) /\ mem[p].enabled
          /\ mem[p].entries[k] # NoEntry \/ Cardinality(Recorded(mem[p])) < MaxEntries
      BY <1>1, <2>5 DEF Repairable, Sound, SInv, TypeOK
    <3>2. mem[p].at \in Places /\ Now(k) \in Own(mem[p].at)
      BY <3>1
    <3>3. PICK w : w = With(mem[p], k, Now(k))
      OBVIOUS
    <3>4. /\ w \in Journals /\ w.at = mem[p].at /\ w.enabled = mem[p].enabled
           /\ w.entries[k] = Now(k) /\ Within(w)
      <4>1. PICK j : j = mem[p]
        OBVIOUS
      <4>2. PICK c : c = Now(k)
        OBVIOUS
      <4>3. j \in Journals /\ Within(j) /\ j.at \in Places /\ k \in Keys /\ c \in Own(j.at)
        BY <2>2, <3>1, <3>2, <4>1, <4>2
      <4>4. j.entries[k] # NoEntry \/ Cardinality(Recorded(j)) < MaxEntries
        BY <3>1, <4>1
      <4>5. w = With(j, k, c)
        BY <3>3, <4>1, <4>2
      <4>6. QED
        BY <4>1, <4>2, <4>3, <4>4, <4>5, Entered
    <3>5. /\ mem' \in [Workers -> Journals] /\ mem'[p] = w
          /\ key' \in [Workers -> Keys \cup {NoKey}] /\ key'[p] = k
          /\ seen' \in [Workers -> Commands] /\ seen'[p] = Now(k)
      BY <2>2, <2>5, <3>1, <3>3, <3>4, Kinds DEF SInv, TypeOK
    <3>6. pc' = [pc EXCEPT ![p] = "save"] /\ pc'[p] = "save"
      BY <2>5 DEF Goto, SInv, TypeOK
    <3>7. Sound(p)'
      BY <1>1, <2>2, <3>1, <3>4, <3>5, <3>6 DEF Sound
    <3>8. pc' \in [Workers -> Labels] /\ Single' /\ Steady'
      BY <1>1, <2>2, <3>6, <3>7, GoingOn DEF Labels, Sweeping
    <3>9. TypeOK'
      BY <2>2, <3>5, <3>8 DEF SInv, TypeOK
    <3>10. QED
      BY <2>3, <3>8, <3>9 DEF SInv
  <2>6. QED
    BY <2>1, <2>4, <2>5
<1>3. CASE Save(p)
  <2>1. /\ UNCHANGED <<lock, mem, todo, key, seen, host, place, cmd, overwritten, raced, restored, acts>>
        /\ pc[p] = "save" /\ faults' \in 0..MaxFaults /\ mem[p] \in Journals
    BY <1>3 DEF Save, Fault, folder, history, SInv, TypeOK
  <2>2. CASE journal' = mem[p] /\ Goto(p, "compare")
    <3>1. pc' = [pc EXCEPT ![p] = "compare"] /\ pc'[p] = "compare"
      BY <2>2 DEF Goto, SInv, TypeOK
    <3>2. Sound(p)'
      BY <1>1, <2>1, <2>2, <3>1 DEF Sound
    <3>3. pc' \in [Workers -> Labels] /\ Single' /\ Steady'
      BY <1>1, <2>1, <3>1, <3>2, GoingOn DEF Labels, Sweeping
    <3>4. TypeOK'
      BY <2>1, <2>2, <3>3 DEF SInv, TypeOK
    <3>5. Within(journal)' /\ Off'
      BY <1>1, <2>1, <2>2 DEF SInv, Off, Sound
    <3>6. QED
      BY <3>3, <3>4, <3>5 DEF SInv
  <2>3. CASE Goto(p, "sweep") /\ UNCHANGED journal
    <3>1. pc' = [pc EXCEPT ![p] = "sweep"] /\ pc'[p] = "sweep"
      BY <2>3 DEF Goto, SInv, TypeOK
    <3>2. Sound(p)'
      BY <1>1, <2>1, <2>3, <3>1 DEF Sound
    <3>3. pc' \in [Workers -> Labels] /\ Single' /\ Steady'
      BY <1>1, <2>1, <3>1, <3>2, GoingOn DEF Labels, Sweeping
    <3>4. TypeOK'
      BY <2>1, <2>3, <3>3 DEF SInv, TypeOK
    <3>5. Within(journal)' /\ Off'
      BY <2>1, <2>3 DEF SInv, Off
    <3>6. QED
      BY <3>3, <3>4, <3>5 DEF SInv
  <2>4. QED
    BY <1>3, <2>2, <2>3 DEF Save
<1>4. CASE Compare(p)
  <2>1. /\ UNCHANGED <<lock, mem, todo, key, seen, host, place, cmd, journal, overwritten, raced,
                       restored, acts>>
        /\ pc[p] = "compare" /\ faults' \in 0..MaxFaults
    BY <1>4 DEF Compare, Fault, folder, history, SInv, TypeOK
  <2>2. PICK l \in {"set", "sweep"} : Goto(p, l) /\ (l = "set" => Now(key[p]) = seen[p])
    BY <1>4 DEF Compare
  <2>3. pc' = [pc EXCEPT ![p] = l] /\ pc'[p] = l
    BY <2>2 DEF Goto, SInv, TypeOK
  <2>4. Sound(p)'
    BY <1>1, <2>1, <2>2, <2>3 DEF Sound, Now
  <2>5. pc' \in [Workers -> Labels] /\ Single' /\ Steady'
    BY <1>1, <2>1, <2>3, <2>4, GoingOn DEF Labels, Sweeping
  <2>6. TypeOK'
    BY <2>1, <2>5 DEF SInv, TypeOK
  <2>7. Within(journal)' /\ Off'
    BY <2>1 DEF SInv, Off
  <2>8. QED
    BY <2>5, <2>6, <2>7 DEF SInv
<1>5. CASE Set(p)
  <2>1. /\ UNCHANGED <<lock, mem, todo, key, seen, host, place, journal, raced, restored, acts>>
        /\ pc[p] = "set" /\ faults' \in 0..MaxFaults /\ key[p] \in Keys
    BY <1>1, <1>5 DEF Set, Fault, folder, Sound, SInv, TypeOK
  <2>2. Ours(place) \in Commands /\ Now(key[p]) \in Commands
    BY <2>1, Kinds DEF SInv, TypeOK, Now
  <2>3. cmd' \in [Hosts -> [Keys -> Commands]] /\ overwritten' \in [Hosts -> [Keys -> Commands]]
    <3>1. cmd' \in {cmd, [cmd EXCEPT ![host][key[p]] = Ours(place)]}
      BY <1>5 DEF Set
    <3>2. overwritten' \in {overwritten, [overwritten EXCEPT ![host][key[p]] = Now(key[p])]}
      BY <1>5 DEF Set
    <3>3. host \in Hosts /\ {cmd, overwritten} \subseteq [Hosts -> [Keys -> Commands]]
      BY DEF SInv, TypeOK
    <3>4. /\ [cmd EXCEPT ![host][key[p]] = Ours(place)] \in [Hosts -> [Keys -> Commands]]
          /\ [overwritten EXCEPT ![host][key[p]] = Now(key[p])] \in [Hosts -> [Keys -> Commands]]
      BY <2>1, <2>2, <3>3, Changed
    <3>5. QED
      BY <3>1, <3>2, <3>3, <3>4
  <2>4. pc' = [pc EXCEPT ![p] = "sweep"] /\ pc'[p] = "sweep"
    BY <1>5 DEF Set, Goto, SInv, TypeOK
  <2>5. Sound(p)'
    BY <1>1, <2>1, <2>4 DEF Sound
  <2>6. pc' \in [Workers -> Labels] /\ Single' /\ Steady'
    BY <1>1, <2>1, <2>4, <2>5, GoingOn DEF Labels, Sweeping
  <2>7. TypeOK'
    BY <2>1, <2>3, <2>6 DEF SInv, TypeOK
  <2>8. Within(journal)' /\ Off'
    BY <2>1 DEF SInv, Off
  <2>9. QED
    BY <2>6, <2>7, <2>8 DEF SInv
<1>6. CASE SweepEnds(p)
  <2>1. /\ Closed(p)
        /\ UNCHANGED <<host, place, cmd, journal, overwritten, raced, restored, acts, faults>>
    BY <1>6 DEF SweepEnds, folder, history
  <2>2. TypeOK' /\ Single' /\ Steady'
    BY <1>1, <2>1, Closing DEF SInv, TypeOK
  <2>3. Within(journal)' /\ Off'
    BY <2>1 DEF SInv, Off
  <2>4. QED
    BY <2>2, <2>3 DEF SInv
<1>7. QED
  BY <1>2, <1>3, <1>4, <1>5, <1>6

\* An undo, a registration, and the death of either.
LEMMA Undoes ==
    ASSUME SInv, NEW p \in Workers,
           Disable(p) \/ Undo(p) \/ Restore(p) \/ Clear(p) \/ Enable(p) \/ Die(p)
    PROVE  SInv'
<1> USE RegistryRepairAssumption
<1>1. /\ pc[p] # "off" /\ lock = p /\ Sound(p) /\ \A q \in Workers \ {p} : pc[q] = "off"
      /\ mem[p] \in Journals
  BY Alone DEF Disable, Undo, Restore, Clear, Enable, Die, SInv, TypeOK
<1>2. ASSUME Closed(p), journal' \in Journals, Within(journal'), Off', faults' \in 0..MaxFaults,
             cmd' \in [Hosts -> [Keys -> Commands]], restored' \in BOOLEAN,
             UNCHANGED <<host, place, overwritten, raced, acts>>
      PROVE  SInv'
  <2>1. TypeOK' /\ Single' /\ Steady'
    BY <1>1, <1>2, Closing DEF SInv, TypeOK
  <2>2. QED
    BY <1>2, <2>1 DEF SInv
<1>3. ASSUME UNCHANGED <<host, place, journal, restored>>
      PROVE  journal' \in Journals /\ Within(journal') /\ Off'
  BY <1>3 DEF SInv, TypeOK, Off
<1>4. CASE Disable(p)
  <2>1. /\ UNCHANGED <<host, place, cmd, overwritten, raced, restored, acts>>
        /\ pc[p] = "disable" /\ faults' \in 0..MaxFaults
    BY <1>4 DEF Disable, Fault, folder, history, SInv, TypeOK
  <2>2. CASE Closed(p) /\ UNCHANGED journal
    BY <1>2, <1>3, <2>1, <2>2 DEF SInv, TypeOK
  <2>3. CASE /\ mem' = [mem EXCEPT ![p].enabled = FALSE]
             /\ journal' = mem'[p]
             /\ todo' = [todo EXCEPT ![p] = Recorded(mem[p])]
             /\ Goto(p, "undo")
             /\ UNCHANGED <<lock, key, seen, faults>>
    <3>1. PICK j : j = [mem[p] EXCEPT !.enabled = FALSE]
      OBVIOUS
    <3>2. j \in Journals /\ j.at = place /\ ~j.enabled /\ j.entries = mem[p].entries /\ Within(j)
      BY <1>1, <3>1, Switched DEF Sound
    <3>3. mem' \in [Workers -> Journals] /\ mem'[p] = j /\ journal' = j
      BY <2>3, <3>1, <3>2 DEF SInv, TypeOK
    <3>4. Recorded(mem[p]) = Recorded(j) /\ Recorded(j) \subseteq Keys
      BY <3>2 DEF Recorded
    <3>5. todo' \in [Workers -> SUBSET Keys] /\ todo'[p] = Recorded(j)
      BY <2>3, <3>4 DEF SInv, TypeOK
    <3>6. pc' = [pc EXCEPT ![p] = "undo"] /\ pc'[p] = "undo"
      BY <2>3 DEF Goto, SInv, TypeOK
    <3>7. Sound(p)'
      BY <1>1, <2>1, <2>3, <3>2, <3>3, <3>5, <3>6 DEF Sound
    <3>8. pc' \in [Workers -> Labels] /\ Single' /\ Steady'
      BY <1>1, <2>3, <3>6, <3>7, GoingOn DEF Labels, Undoing
    <3>9. TypeOK'
      BY <2>1, <2>3, <3>2, <3>3, <3>5, <3>8 DEF SInv, TypeOK
    <3>10. Within(journal)' /\ Off'
      BY <3>2, <3>3 DEF Off
    <3>11. QED
      BY <3>8, <3>9, <3>10 DEF SInv
  <2>4. QED
    BY <1>4, <2>2, <2>3 DEF Disable
<1>5. CASE Undo(p)
  <2>1. /\ UNCHANGED <<host, place, cmd, journal, overwritten, raced, restored, acts>>
        /\ pc[p] = "undo" /\ faults' \in 0..MaxFaults
    BY <1>5 DEF Undo, Fault, folder, history, SInv, TypeOK
  <2>2. CASE Closed(p)
    BY <1>2, <1>3, <2>1, <2>2 DEF SInv, TypeOK
  <2>3. CASE /\ UNCHANGED <<lock, mem, seen>>
             /\ \/ Goto(p, "clear") /\ UNCHANGED <<todo, key>>
                \/ \E k \in todo[p] :
                      /\ todo' = [todo EXCEPT ![p] = @ \ {k}]
                      /\ \/ Now(k) = Ours(place) /\ key' = [key EXCEPT ![p] = k] /\ Goto(p, "restore")
                         \/ UNCHANGED <<key, pc>>
    <3>1. todo[p] \subseteq Recorded(mem[p]) /\ todo[p] \subseteq Keys
      BY <1>1, <2>1 DEF Sound, Recorded
    <3>2. /\ key' \in [Workers -> Keys \cup {NoKey}] /\ todo' \in [Workers -> SUBSET Keys]
          /\ todo'[p] \subseteq Recorded(mem[p])
      <4>1. CASE Goto(p, "clear") /\ UNCHANGED <<todo, key>>
        BY <3>1, <4>1 DEF SInv, TypeOK
      <4>2. ASSUME NEW k \in todo[p], todo' = [todo EXCEPT ![p] = @ \ {k}],
                   UNCHANGED key \/ key' = [key EXCEPT ![p] = k]
            PROVE  /\ key' \in [Workers -> Keys \cup {NoKey}] /\ todo' \in [Workers -> SUBSET Keys]
                   /\ todo'[p] \subseteq Recorded(mem[p])
        BY <3>1, <4>2 DEF SInv, TypeOK
      <4>3. QED
        BY <2>3, <4>1, <4>2
    <3>3. PICK l \in {"undo", "restore", "clear"} :
             /\ pc' = [pc EXCEPT ![p] = l] /\ pc'[p] = l
             /\ l = "restore" => key'[p] \in Recorded(mem[p]) /\ Now(key'[p]) = Ours(place)
      BY <2>1, <2>3, <3>1 DEF Goto, SInv, TypeOK
    <3>4. Sound(p)'
      BY <1>1, <2>1, <2>3, <3>2, <3>3 DEF Sound, Now
    <3>5. pc' \in [Workers -> Labels] /\ Single' /\ Steady'
      BY <1>1, <2>3, <3>3, <3>4, GoingOn DEF Labels, Undoing
    <3>6. TypeOK'
      BY <2>1, <2>3, <3>2, <3>5 DEF SInv, TypeOK
    <3>7. QED
      BY <1>3, <2>1, <3>5, <3>6 DEF SInv
  <2>4. QED
    BY <1>5, <2>2, <2>3 DEF Undo
<1>6. CASE Restore(p)
  <2>1. /\ UNCHANGED <<host, place, journal, overwritten, raced, acts>>
        /\ pc[p] = "restore" /\ faults' \in 0..MaxFaults
    BY <1>6 DEF Restore, Fault, folder, SInv, TypeOK
  <2>2. CASE Closed(p) /\ UNCHANGED <<cmd, restored>>
    BY <1>2, <1>3, <2>1, <2>2 DEF SInv, TypeOK
  <2>3. CASE /\ cmd' = [cmd EXCEPT ![host][key[p]] = mem[p].entries[key[p]]]
             /\ restored' = TRUE
             /\ Goto(p, "undo")
             /\ UNCHANGED <<lock, mem, todo, key, seen, faults>>
    <3>1. key[p] \in Keys /\ mem[p].entries[key[p]] \in Own(place) /\ place \in Places
      BY <1>1, <2>1 DEF Sound, Within, Recorded, SInv, TypeOK
    <3>2. mem[p].entries[key[p]] \in Commands
      BY <3>1, Kinds
    <3>3. cmd \in [Hosts -> [Keys -> Commands]] /\ host \in Hosts
      BY DEF SInv, TypeOK
    <3>4. [cmd EXCEPT ![host][key[p]] = mem[p].entries[key[p]]] \in [Hosts -> [Keys -> Commands]]
      BY <3>1, <3>2, <3>3, Changed
    <3>5. pc' = [pc EXCEPT ![p] = "undo"] /\ pc'[p] = "undo"
      BY <2>3 DEF Goto, SInv, TypeOK
    <3>6. Sound(p)'
      BY <1>1, <2>1, <2>3, <3>5 DEF Sound
    <3>7. pc' \in [Workers -> Labels] /\ Single' /\ Steady'
      BY <1>1, <2>3, <3>5, <3>6, GoingOn DEF Labels, Undoing
    <3>8. TypeOK'
      BY <2>1, <2>3, <3>4, <3>7 DEF SInv, TypeOK
    <3>9. Within(journal)' /\ Off'
      BY <1>1, <2>1, <2>3 DEF SInv, Off, Sound
    <3>10. QED
      BY <3>7, <3>8, <3>9 DEF SInv
  <2>4. QED
    BY <1>6, <2>2, <2>3 DEF Restore
<1>7. CASE Clear(p)
  <2>1. /\ Closed(p) /\ UNCHANGED <<host, place, cmd, overwritten, raced, restored, acts>>
        /\ pc[p] = "clear" /\ faults' \in 0..MaxFaults
    BY <1>7 DEF Clear, Fault, folder, history, SInv, TypeOK
  <2>2. CASE UNCHANGED journal
    BY <1>2, <1>3, <2>1, <2>2 DEF SInv, TypeOK
  <2>3. CASE journal' = Emptied(mem[p])
    <3>1. journal' \in Journals /\ Within(journal') /\ ~journal'.enabled
      BY <1>1, <2>1, <2>3, Empty DEF Sound
    <3>2. QED
      BY <1>2, <2>1, <3>1 DEF SInv, TypeOK, Off
  <2>4. QED
    BY <1>7, <2>2, <2>3 DEF Clear
<1>8. CASE Enable(p)
  <2>1. /\ Closed(p) /\ UNCHANGED <<host, place, cmd, overwritten, raced, acts>>
        /\ pc[p] = "enable" /\ faults' \in 0..MaxFaults
    BY <1>8 DEF Enable, Fault, folder, SInv, TypeOK
  <2>2. CASE UNCHANGED <<journal, restored>>
    BY <1>2, <1>3, <2>1, <2>2 DEF SInv, TypeOK
  <2>3. CASE journal' = [mem[p] EXCEPT !.enabled = TRUE] /\ restored' = FALSE
    <3>1. PICK j : j = [mem[p] EXCEPT !.enabled = TRUE]
      OBVIOUS
    <3>2. j \in Journals /\ Within(j)
      BY <1>1, <3>1, Switched DEF Sound
    <3>3. QED
      BY <1>2, <2>1, <2>3, <3>1, <3>2 DEF SInv, TypeOK, Off
  <2>4. QED
    BY <1>8, <2>2, <2>3 DEF Enable
<1>9. CASE Die(p)
  <2>1. /\ Closed(p) /\ faults' \in 0..MaxFaults
        /\ UNCHANGED <<host, place, cmd, journal, overwritten, raced, restored, acts>>
    BY <1>9 DEF Die, Fault, folder, history, SInv, TypeOK
  <2>2. QED
    BY <1>2, <1>3, <2>1 DEF SInv, TypeOK
<1>10. QED
  BY <1>4, <1>5, <1>6, <1>7, <1>8, <1>9

\* Other programs, and the user with the folder in hand.
LEMMA Others ==
    ASSUME SInv, (\E k \in Keys : Write(k)) \/ Move
    PROVE  SInv'
<1> USE RegistryRepairAssumption
<1>1. ASSUME NEW k \in Keys, Write(k) PROVE SInv'
  <2>1. /\ UNCHANGED <<host, place, journal, lock, pc, mem, todo, key, seen, overwritten, restored, faults>>
        /\ acts' \in 0..MaxActs
    BY <1>1 DEF Write, Act, folder, session, SInv, TypeOK
  <2>2. PICK c \in Own(place) \cup {Custom, Missing} : cmd' = [cmd EXCEPT ![host][k] = c]
    BY <1>1 DEF Write
  <2>3. c \in Commands /\ cmd \in [Hosts -> [Keys -> Commands]] /\ host \in Hosts
    BY <2>2, Kinds DEF SInv, TypeOK
  <2>4. /\ cmd' \in [Hosts -> [Keys -> Commands]]
        /\ \A l \in Keys : l # k => cmd'[host][l] = cmd[host][l]
    BY <2>2, <2>3, Changed
  <2>5. raced' \subseteq Hosts \X Keys
    BY <1>1 DEF Write, SInv, TypeOK
  <2>6. TypeOK'
    BY <2>1, <2>4, <2>5 DEF SInv, TypeOK
  <2>7. ASSUME NEW p \in Workers, pc[p] # "off" PROVE Sound(p)'
    <3>1. Sound(p)
      BY <2>7, Alone
    <3>2. pc[p] \in {"set", "restore"} => key[p] \in Keys
      BY <3>1 DEF Sound, Recorded
    <3>3. pc[p] \in {"set", "restore"} /\ key[p] = k => <<host, key[p]>> \in raced'
      BY <1>1 DEF Write
    <3>4. key[p] # k /\ <<host, key[p]>> \in raced => <<host, key[p]>> \in raced'
      BY <1>1 DEF Write
    <3>5. key[p] \in Keys /\ key[p] # k => Now(key[p])' = Now(key[p])
      BY <2>1, <2>4 DEF Now
    <3>6. QED
      BY <2>1, <3>1, <3>2, <3>3, <3>4, <3>5 DEF Sound
  <2>8. Single' /\ Steady' /\ Within(journal)' /\ Off'
    BY <2>1, <2>7 DEF SInv, Single, Steady, Off
  <2>9. QED
    BY <2>6, <2>8 DEF SInv
<1>2. CASE Move
  <2>1. /\ UNCHANGED <<cmd, journal, overwritten, raced, restored, acts>>
        /\ host' \in Hosts /\ place' \in Places /\ lock' = NoOne
        /\ \A p \in Workers : pc'[p] = "off"
    BY <1>2 DEF Move, history
  <2>2. Fresh(place') \in Journals /\ Missing \in Commands
    BY <2>1, Empty, Kinds
  <2>3. TypeOK'
    <3>1. faults' \in 0..MaxFaults
      BY <1>2 DEF Move, Fault, SInv, TypeOK
    <3>2. /\ pc' \in [Workers -> Labels] /\ mem' \in [Workers -> Journals]
          /\ todo' \in [Workers -> SUBSET Keys] /\ key' \in [Workers -> Keys \cup {NoKey}]
          /\ seen' \in [Workers -> Commands]
      BY <1>2, <2>2 DEF Move, Labels
    <3>3. QED
      BY <2>1, <3>1, <3>2 DEF SInv, TypeOK
  <2>4. Single' /\ Steady' /\ Within(journal)' /\ Off'
    BY <2>1 DEF SInv, Single, Steady, Off
  <2>5. QED
    BY <2>3, <2>4 DEF SInv
<1>3. QED
  BY <1>1, <1>2

\* The invariant holds at the start.
LEMMA SInvInit == Init => SInv
<1> SUFFICES ASSUME Init PROVE SInv
  OBVIOUS
<1> USE RegistryRepairAssumption
<1>1. Fresh(place) \in Journals /\ Within(Fresh(place)) /\ Missing \in Commands
  BY Empty, Kinds DEF Init
<1>2. TypeOK
  <2>1. [h \in Hosts |-> [k \in Keys |-> Missing]] \in [Hosts -> [Keys -> Commands]]
    BY <1>1
  <2>2. /\ pc \in [Workers -> Labels] /\ mem \in [Workers -> Journals]
        /\ todo \in [Workers -> SUBSET Keys] /\ key \in [Workers -> Keys \cup {NoKey}]
        /\ seen \in [Workers -> Commands]
    BY <1>1 DEF Init, Labels
  <2>3. /\ host \in Hosts /\ place \in Places /\ journal \in Journals /\ lock \in Workers \cup {NoOne}
        /\ cmd \in [Hosts -> [Keys -> Commands]] /\ overwritten \in [Hosts -> [Keys -> Commands]]
    BY <1>1, <2>1 DEF Init
  <2>4. raced = {} /\ restored = FALSE /\ acts = 0 /\ faults = 0
    BY DEF Init
  <2>5. acts \in 0..MaxActs /\ faults \in 0..MaxFaults
    BY <2>4
  <2>6. raced \subseteq Hosts \X Keys /\ restored \in BOOLEAN
    BY <2>4
  <2>7. QED
    BY <2>2, <2>3, <2>5, <2>6 DEF TypeOK
<1>3. Single /\ Steady /\ Within(journal) /\ Off
  BY <1>1 DEF Init, Single, Steady, Off
<1>4. QED
  BY <1>2, <1>3 DEF SInv

\* Every step keeps it.
LEMMA SInvStep == SInv /\ [Next]_vars => SInv'
<1> SUFFICES ASSUME SInv, [Next]_vars PROVE SInv'
  OBVIOUS
<1>1. CASE UNCHANGED vars
  BY <1>1 DEF vars, folder, session, history, SInv, TypeOK, Single, Steady, Sound, Within, Recorded, Off, Now
<1>2. CASE Next
  BY <1>1, <1>2, Openings, Sweeps, Undoes, Others DEF Next, Step, Refuse
<1>3. QED
  BY <1>1, <1>2

\* It holds always.
LEMMA SInvariance == Spec => []SInv
  BY SInvInit, SInvStep, PTL DEF Spec

-----------------------------------------------------------------------------
(* What holds on any hosts.                                                 *)

\* Places, commands, journals and sessions keep their types.
THEOREM Typing == Spec => []TypeOK
<1>1. SInv => TypeOK
  BY DEF SInv
<1>2. QED
  BY <1>1, SInvariance, PTL

\* Every journal that was saved can be opened again where it was saved.
THEOREM Reopening == Spec => []Reopens
<1>1. SInv => Reopens
  BY DEF SInv, Within, Reopens
<1>2. QED
  BY <1>1, SInvariance, PTL

\* A command changes by a repair, a restoration or somebody else's write.
LEMMA Changes ==
    ASSUME SInv, Next, cmd' # cmd
    PROVE  \/ \E p \in Workers :
                /\ pc[p] = "set" /\ Sound(p) /\ Set(p)
                /\ cmd' = [cmd EXCEPT ![host][key[p]] = Ours(place)]
           \/ \E p \in Workers :
                /\ pc[p] = "restore" /\ Sound(p) /\ Restore(p)
                /\ cmd' = [cmd EXCEPT ![host][key[p]] = mem[p].entries[key[p]]]
           \/ \E k \in Keys : Write(k)
<1>1. ASSUME NEW p \in Workers, Refuse(p) \/ Step(p) \/ Die(p)
      PROVE  Set(p) \/ Restore(p)
  BY <1>1 DEF Refuse, vars, Step, Die, Look, Save, Compare, SweepEnds, Disable, Undo, Clear, Enable
<1>2. ASSUME NEW p \in Workers PROVE ~(Sweep(p) \/ Unregister(p) \/ Register(p))
  BY DEF Sweep, Unregister, Register, Open
<1>3. ~Move
  BY DEF Move
<1>4. ASSUME NEW p \in Workers, Set(p)
      PROVE  pc[p] = "set" /\ Sound(p) /\ cmd' = [cmd EXCEPT ![host][key[p]] = Ours(place)]
  BY <1>4, Alone DEF Set
<1>5. ASSUME NEW p \in Workers, Restore(p)
      PROVE  /\ pc[p] = "restore" /\ Sound(p)
             /\ cmd' = [cmd EXCEPT ![host][key[p]] = mem[p].entries[key[p]]]
  BY <1>5, Alone DEF Restore
<1>6. QED
  BY <1>1, <1>2, <1>3, <1>4, <1>5 DEF Next

\* What a repair or a restoration writes, and where.
LEMMA Replaced ==
    ASSUME SInv, NEW p \in Workers, Sound(p), pc[p] \in {"set", "restore"},
           NEW c \in Commands, cmd' = [cmd EXCEPT ![host][key[p]] = c]
    PROVE  /\ key[p] \in Keys /\ host \in Hosts /\ cmd'[host][key[p]] = c
           /\ \A g \in Hosts, l \in Keys : g # host \/ l # key[p] => cmd'[g][l] = cmd[g][l]
<1>1. key[p] \in Keys
  BY DEF Sound, Recorded
<1>2. host \in Hosts /\ cmd \in [Hosts -> [Keys -> Commands]]
  BY DEF SInv, TypeOK
<1>3. QED
  BY <1>1, <1>2, Changed

\* Outside the gap nothing is overwritten but the browser's command by the
\* launcher's and the launcher's by the recorded original.
THEOREM Sparing == Spec => Spared
<1>1. ASSUME SInv, Next
      PROVE  \A k \in Keys :
               (cmd' # cmd /\ pc' # pc /\ cmd'[host][k] # Now(k) /\ <<host, k>> \notin raced)
               => \/ Now(k) \in Own(place) /\ cmd'[host][k] = Ours(place)
                  \/ Now(k) = Ours(place) /\ cmd'[host][k] = journal.entries[k]
  <2> SUFFICES ASSUME NEW k \in Keys, cmd' # cmd, pc' # pc, cmd'[host][k] # Now(k),
                      <<host, k>> \notin raced
               PROVE  \/ Now(k) \in Own(place) /\ cmd'[host][k] = Ours(place)
                      \/ Now(k) = Ours(place) /\ cmd'[host][k] = journal.entries[k]
    OBVIOUS
  <2>1. place \in Places
    BY <1>1 DEF SInv, TypeOK
  <2>2. ASSUME NEW p \in Workers, pc[p] = "set", Sound(p),
               cmd' = [cmd EXCEPT ![host][key[p]] = Ours(place)]
        PROVE  Now(k) \in Own(place) /\ cmd'[host][k] = Ours(place)
    <3>1. k = key[p] /\ cmd'[host][k] = Ours(place)
      BY <1>1, <2>1, <2>2, Kinds, Replaced DEF Now
    <3>2. QED
      BY <2>2, <3>1 DEF Sound
  <2>3. ASSUME NEW p \in Workers, pc[p] = "restore", Sound(p),
               cmd' = [cmd EXCEPT ![host][key[p]] = mem[p].entries[key[p]]]
        PROVE  Now(k) = Ours(place) /\ cmd'[host][k] = journal.entries[k]
    <3>1. mem[p].entries[key[p]] \in Commands
      BY <2>1, <2>3, Kinds DEF Sound, Within
    <3>2. k = key[p] /\ cmd'[host][k] = mem[p].entries[key[p]]
      BY <1>1, <2>3, <3>1, Replaced DEF Now
    <3>3. QED
      BY <2>3, <3>2 DEF Sound
  <2>4. ASSUME NEW l \in Keys PROVE ~Write(l)
    BY DEF Write, session
  <2>5. QED
    BY <1>1, <2>2, <2>3, <2>4, Changes
<1>2. SInv /\ [Next]_vars =>
        [\A k \in Keys :
           (cmd' # cmd /\ pc' # pc /\ cmd'[host][k] # Now(k) /\ <<host, k>> \notin raced)
           => \/ Now(k) \in Own(place) /\ cmd'[host][k] = Ours(place)
              \/ Now(k) = Ours(place) /\ cmd'[host][k] = journal.entries[k]]_vars
  BY <1>1
<1>3. QED
  BY <1>2, SInvariance, PTL DEF Spec, Spared

\* From the first restored command on nothing is rewritten until somebody
\* registers, whoever was sweeping.
THEOREM StayingOff == Spec => StaysOff
<1>1. ASSUME SInv, Next
      PROVE  \A h \in Hosts, k \in Keys :
               (cmd'[h][k] # cmd[h][k] /\ cmd'[h][k] = Ours(place)) => ~restored
  <2> SUFFICES ASSUME NEW h \in Hosts, NEW k \in Keys, cmd'[h][k] # cmd[h][k],
                      cmd'[h][k] = Ours(place)
               PROVE  ~restored
    OBVIOUS
  <2>1. place \in Places /\ cmd' # cmd /\ host \in Hosts /\ cmd \in [Hosts -> [Keys -> Commands]]
    BY <1>1 DEF SInv, TypeOK
  <2>2. ASSUME NEW p \in Workers, pc[p] = "set", Sound(p) PROVE ~restored
    BY <1>1, <2>2 DEF Sound, SInv, Off
  <2>3. ASSUME NEW p \in Workers, pc[p] = "restore", Sound(p),
               cmd' = [cmd EXCEPT ![host][key[p]] = mem[p].entries[key[p]]]
        PROVE  FALSE
    <3>1. mem[p].entries[key[p]] \in Own(place)
      BY <2>3 DEF Sound, Within
    <3>2. mem[p].entries[key[p]] \in Commands /\ mem[p].entries[key[p]] # Ours(place)
      BY <2>1, <3>1, Kinds, Distinct
    <3>3. QED
      BY <1>1, <2>3, <3>2, Replaced
  <2>4. ASSUME NEW l \in Keys, Write(l) PROVE FALSE
    <3>1. PICK c \in Own(place) \cup {Custom, Missing} : cmd' = [cmd EXCEPT ![host][l] = c]
      BY <2>4 DEF Write
    <3>2. c \in Commands /\ c # Ours(place)
      BY <2>1, Kinds, Distinct
    <3>3. QED
      BY <2>1, <3>1, <3>2, Changed
  <2>5. QED
    BY <1>1, <2>1, <2>2, <2>3, <2>4, Changes
<1>2. SInv /\ [Next]_vars =>
        [\A h \in Hosts, k \in Keys :
           (cmd'[h][k] # cmd[h][k] /\ cmd'[h][k] = Ours(place)) => ~restored]_vars
  BY <1>1
<1>3. QED
  BY <1>2, SInvariance, PTL DEF Spec, StaysOff

-----------------------------------------------------------------------------
(* What holds on one host.  Entries name keys, not hosts: the same key on   *)
(* another host has its original recorded over this one's.                  *)

OneHost == \A g, h \in Hosts : g = h

\* Nomad's command at k was put there, for a folder at a, and nobody has
\* written since the comparison before.
Rewritten(k, a) == Now(k) = Ours(a) /\ <<host, k>> \notin raced

\* What it replaced is the browser's of that folder, and in the file.
Kept ==
    \A k \in Keys, a \in Places : Rewritten(k, a) =>
        journal.entries[k] = overwritten[host][k] /\ overwritten[host][k] \in Own(a)

\* A session is ahead of the file only for keys that are not rewritten.
Ahead ==
    \A p \in Workers : pc[p] # "off" =>
        \A k \in Keys, a \in Places : Rewritten(k, a) => mem[p].entries[k] = journal.entries[k]

\* An undo has every rewritten key still before it, or has dealt with it.
Undone ==
    \A p \in Workers :
        /\ pc[p] = "clear" => todo[p] = {}
        /\ pc[p] \in {"undo", "restore", "clear"} =>
              \A k \in Keys : Rewritten(k, place) =>
                  k \in todo[p] \/ (pc[p] = "restore" /\ k = key[p])

Traced == Kept /\ Ahead /\ Undone

\* A step that leaves registry, file and folder alone, for the process p that
\* takes it: what p then has in memory and still to do is all there is to show.
LEMMA Quietly ==
    ASSUME SInv, Traced, NEW p \in Workers, \A q \in Workers \ {p} : pc'[q] = "off",
           UNCHANGED <<host, place, cmd, raced, overwritten, journal>>,
           pc'[p] # "off" =>
              \A k \in Keys, a \in Places : Rewritten(k, a) => mem'[p].entries[k] = journal.entries[k],
           pc'[p] = "clear" => todo'[p] = {},
           pc'[p] \in {"undo", "restore", "clear"} =>
              \A k \in Keys : Rewritten(k, place) =>
                  k \in todo'[p] \/ (pc'[p] = "restore" /\ k = key'[p])
    PROVE  Traced'
<1>1. \A k, a : Rewritten(k, a)' <=> Rewritten(k, a)
  BY DEF Rewritten, Now
<1>2. Kept'
  BY <1>1 DEF Traced, Kept
<1>3. Ahead'
  BY <1>1 DEF Ahead
<1>4. Undone'
  BY <1>1 DEF Undone
<1>5. QED
  BY <1>2, <1>3, <1>4 DEF Traced

\* A session opens or closes.
LEMMA TracedEnds ==
    ASSUME SInv, Traced, NEW p \in Workers,
           Sweep(p) \/ Unregister(p) \/ Register(p) \/ SweepEnds(p) \/ Die(p)
    PROVE  Traced'
<1>1. CASE Sweep(p) \/ Unregister(p) \/ Register(p)
  <2>1. PICK l \in {"sweep", "disable", "enable"} : Open(p, l)
    BY <1>1 DEF Sweep, Unregister, Register
  <2>2. /\ lock = NoOne /\ Opens(journal)
        /\ UNCHANGED <<host, place, cmd, raced, overwritten, journal>>
        /\ mem' = [mem EXCEPT ![p] = Opened(journal)] /\ pc' = [pc EXCEPT ![p] = l]
    BY <2>1 DEF Open, Goto, folder, history
  <2>3. \A q \in Workers : pc[q] = "off"
    BY <2>2, RegistryRepairAssumption DEF SInv, Single
  <2>4. mem'[p].entries = journal.entries
    BY <2>2, TakenOver DEF SInv, TypeOK
  <2>5. pc'[p] = l /\ \A q \in Workers \ {p} : pc'[q] = "off"
    BY <2>2, <2>3 DEF SInv, TypeOK
  <2>6. QED
    BY <2>2, <2>4, <2>5, Quietly
<1>2. CASE SweepEnds(p) \/ Die(p)
  <2>1. pc[p] # "off" /\ Closed(p) /\ UNCHANGED <<host, place, cmd, raced, overwritten, journal>>
    BY <1>2 DEF SweepEnds, Die, folder, history
  <2>2. \A q \in Workers : pc'[q] = "off"
    BY <2>1, Closing
  <2>3. QED
    BY <2>1, <2>2, Quietly
<1>3. QED
  BY <1>1, <1>2

\* A sweep: the file catches up only where nothing was rewritten before.
LEMMA TracedSweeps ==
    ASSUME SInv, Traced, NEW p \in Workers, Look(p) \/ Save(p) \/ Compare(p) \/ Set(p)
    PROVE  Traced'
<1>1. /\ pc[p] # "off" /\ Sound(p) /\ \A q \in Workers \ {p} : pc[q] = "off"
      /\ mem[p] \in Journals /\ place \in Places
  BY Alone DEF Look, Save, Compare, Set, SInv, TypeOK
<1>2. \A k \in Keys, a \in Places : Rewritten(k, a) => mem[p].entries[k] = journal.entries[k]
  BY <1>1 DEF Traced, Ahead
<1>3. CASE Look(p)
  <2>1. UNCHANGED <<host, place, cmd, raced, overwritten, journal>>
    BY <1>3 DEF Look, folder, history
  <2>2. PICK k \in Keys :
           \/ /\ Repairable(p, k) /\ mem' = [mem EXCEPT ![p] = With(@, k, Now(k))]
              /\ pc' = [pc EXCEPT ![p] = "save"]
           \/ UNCHANGED <<mem, pc>>
    BY <1>3 DEF Look, Goto, SInv, TypeOK
  <2>3. CASE UNCHANGED <<mem, pc>>
    BY <1>1, <1>2, <1>3, <2>1, <2>3, Quietly DEF Look
  <2>4. CASE /\ Repairable(p, k) /\ mem' = [mem EXCEPT ![p] = With(@, k, Now(k))]
             /\ pc' = [pc EXCEPT ![p] = "save"]
    <3>1. mem'[p] = With(mem[p], k, Now(k)) /\ pc'[p] = "save" /\ \A q \in Workers \ {p} : pc'[q] = "off"
      BY <1>1, <2>4 DEF SInv, TypeOK
    <3>2. \A l \in Keys : l # k => mem'[p].entries[l] = mem[p].entries[l]
      BY <1>1, <3>1 DEF With, Journals
    <3>3. \A a \in Places : ~Rewritten(k, a)
      BY <2>4, Distinct DEF Repairable, Rewritten
    <3>4. QED
      BY <1>2, <2>1, <3>1, <3>2, <3>3, Quietly
  <2>5. QED
    BY <2>2, <2>3, <2>4
<1>4. CASE Save(p)
  <2>1. UNCHANGED <<host, place, cmd, raced, overwritten, mem, todo, key>>
    BY <1>4 DEF Save, folder, history
  <2>2. PICK l \in {"compare", "sweep"} : pc' = [pc EXCEPT ![p] = l]
    BY <1>4 DEF Save, Goto
  <2>3. pc'[p] = l /\ \A q \in Workers \ {p} : pc'[q] = "off"
    BY <1>1, <2>2 DEF SInv, TypeOK
  <2>4. journal' \in {mem[p], journal}
    BY <1>4 DEF Save
  <2>5. \A k \in Keys, a \in Places : Rewritten(k, a) => /\ journal'.entries[k] = journal.entries[k]
                                                       /\ journal'.entries[k] = mem[p].entries[k]
    BY <1>2, <2>4
  <2>6. \A k, a : Rewritten(k, a)' <=> Rewritten(k, a)
    BY <2>1 DEF Rewritten, Now
  <2>7. Kept' /\ Ahead' /\ Undone'
    BY <2>1, <2>3, <2>5, <2>6 DEF Traced, Kept, Ahead, Undone
  <2>8. QED
    BY <2>7 DEF Traced
<1>5. CASE Compare(p)
  <2>1. UNCHANGED <<host, place, cmd, raced, overwritten, journal, mem>>
    BY <1>5 DEF Compare, folder, history
  <2>2. PICK l \in {"set", "sweep"} : pc' = [pc EXCEPT ![p] = l]
    BY <1>5 DEF Compare, Goto
  <2>3. pc'[p] = l /\ \A q \in Workers \ {p} : pc'[q] = "off"
    BY <1>1, <2>2 DEF SInv, TypeOK
  <2>4. QED
    BY <1>2, <2>1, <2>3, Quietly
<1>6. CASE Set(p)
  <2>1. /\ UNCHANGED <<host, place, raced, journal, mem>> /\ pc[p] = "set"
        /\ pc' = [pc EXCEPT ![p] = "sweep"] /\ journal = mem[p]
    BY <1>1, <1>6 DEF Set, Goto, folder, Sound
  <2>2. pc'[p] = "sweep" /\ \A q \in Workers \ {p} : pc'[q] = "off"
    BY <1>1, <2>1 DEF SInv, TypeOK
  <2>3. Undone' /\ Ahead'
    BY <2>1, <2>2 DEF Undone, Ahead
  <2>4. CASE UNCHANGED <<cmd, overwritten>>
    <3>1. \A k, a : Rewritten(k, a)' <=> Rewritten(k, a)
      BY <2>1, <2>4 DEF Rewritten, Now
    <3>2. Kept'
      BY <2>1, <2>4, <3>1 DEF Traced, Kept
    <3>3. QED
      BY <2>3, <3>2 DEF Traced
  <2>5. CASE /\ cmd' = [cmd EXCEPT ![host][key[p]] = Ours(place)]
             /\ overwritten' = [overwritten EXCEPT ![host][key[p]] = Now(key[p])]
    <3>1. /\ key[p] \in Keys /\ host \in Hosts /\ Ours(place) \in Commands /\ Now(key[p]) \in Commands
          /\ {cmd, overwritten} \subseteq [Hosts -> [Keys -> Commands]]
      BY <1>1, <2>1, Kinds DEF Sound, SInv, TypeOK, Now
    <3>2. /\ cmd'[host][key[p]] = Ours(place)
          /\ \A k \in Keys : k # key[p] => cmd'[host][k] = cmd[host][k]
      BY <2>5, <3>1, Changed
    <3>3. /\ overwritten'[host][key[p]] = Now(key[p])
          /\ \A k \in Keys : k # key[p] => overwritten'[host][k] = overwritten[host][k]
      BY <2>5, <3>1, Changed
    <3>4. ASSUME NEW k \in Keys, NEW a \in Places, Rewritten(k, a)'
          PROVE  journal.entries[k] = overwritten'[host][k] /\ overwritten'[host][k] \in Own(a)
      <4>1. CASE k = key[p]
        <5>1. <<host, key[p]>> \notin raced /\ a = place
          BY <2>1, <3>2, <3>4, <4>1, Distinct DEF Rewritten, Now
        <5>2. Now(key[p]) = seen[p] /\ seen[p] \in Own(place) /\ mem[p].entries[key[p]] = seen[p]
          BY <1>1, <2>1, <5>1 DEF Sound
        <5>3. QED
          BY <2>1, <3>3, <4>1, <5>1, <5>2
      <4>2. CASE k # key[p]
        <5>1. Rewritten(k, a)
          BY <2>1, <3>2, <3>4, <4>2 DEF Rewritten, Now
        <5>2. QED
          BY <3>3, <4>2, <5>1 DEF Traced, Kept
      <4>3. QED
        BY <4>1, <4>2
    <3>5. Kept'
      BY <2>1, <3>4 DEF Kept
    <3>6. QED
      BY <2>3, <3>5 DEF Traced
  <2>6. QED
    BY <1>6, <2>4, <2>5 DEF Set
<1>7. QED
  BY <1>3, <1>4, <1>5, <1>6

\* Steps that end a session with nothing changed are Quietly's.
LEMMA GivenUp ==
    ASSUME SInv, Traced, NEW p \in Workers, pc[p] # "off", Closed(p),
           UNCHANGED <<host, place, cmd, raced, overwritten, journal>>
    PROVE  Traced'
<1>1. \A q \in Workers : pc'[q] = "off"
  BY Closing
<1>2. QED
  BY <1>1, Quietly

\* An undo and a registration: entries are cleared only when every rewritten
\* key has been restored, or rewritten by others.
LEMMA TracedUndoes ==
    ASSUME SInv, Traced, NEW p \in Workers,
           Disable(p) \/ Undo(p) \/ Restore(p) \/ Clear(p) \/ Enable(p)
    PROVE  Traced'
<1>1. /\ pc[p] # "off" /\ Sound(p) /\ \A q \in Workers \ {p} : pc[q] = "off"
      /\ mem[p] \in Journals /\ place \in Places
  BY Alone DEF Disable, Undo, Restore, Clear, Enable, SInv, TypeOK
<1>2. \A k \in Keys, a \in Places : Rewritten(k, a) => mem[p].entries[k] = journal.entries[k]
  BY <1>1 DEF Traced, Ahead
<1>3. \A k \in Keys, a \in Places : Rewritten(k, a) =>
         /\ journal.entries[k] = overwritten[host][k] /\ overwritten[host][k] \in Own(a)
         /\ k \in Recorded(journal)
  BY Distinct DEF Traced, Kept, Recorded
<1>4. CASE Disable(p)
  <2>1. /\ UNCHANGED <<host, place, cmd, raced, overwritten>> /\ pc[p] = "disable"
        /\ mem[p].entries = journal.entries
    BY <1>1, <1>4 DEF Disable, folder, history, Sound
  <2>2. CASE Closed(p) /\ UNCHANGED journal
    BY <1>1, <2>1, <2>2, GivenUp
  <2>3. CASE /\ mem' = [mem EXCEPT ![p].enabled = FALSE] /\ journal' = mem'[p]
             /\ todo' = [todo EXCEPT ![p] = Recorded(mem[p])] /\ Goto(p, "undo")
    <3>1. pc'[p] = "undo" /\ \A q \in Workers \ {p} : pc'[q] = "off"
      BY <1>1, <2>3 DEF Goto, SInv, TypeOK
    <3>2. journal'.entries = journal.entries /\ mem'[p] = journal'
      BY <1>1, <2>1, <2>3 DEF SInv, TypeOK, Journals
    <3>3. todo'[p] = Recorded(journal)
      BY <2>1, <2>3 DEF SInv, TypeOK, Recorded
    <3>4. \A k, a : Rewritten(k, a)' <=> Rewritten(k, a)
      BY <2>1 DEF Rewritten, Now
    <3>5. Kept'
      BY <1>3, <2>1, <3>2, <3>4 DEF Kept
    <3>6. Ahead' /\ Undone'
      BY <1>1, <1>3, <2>1, <3>1, <3>2, <3>3, <3>4 DEF Ahead, Undone
    <3>7. QED
      BY <3>5, <3>6 DEF Traced
  <2>4. QED
    BY <1>4, <2>2, <2>3 DEF Disable
<1>5. CASE Undo(p)
  <2>1. UNCHANGED <<host, place, cmd, raced, overwritten, journal>> /\ pc[p] = "undo"
    BY <1>5 DEF Undo, folder, history
  <2>2. \A k \in Keys : Rewritten(k, place) => k \in todo[p]
    BY <2>1 DEF Traced, Undone
  <2>3. CASE Closed(p)
    BY <1>1, <2>1, <2>3, GivenUp
  <2>4. CASE todo[p] = {} /\ Goto(p, "clear") /\ UNCHANGED <<mem, todo>>
    <3>1. pc'[p] = "clear" /\ \A q \in Workers \ {p} : pc'[q] = "off"
      BY <1>1, <2>4 DEF Goto, SInv, TypeOK
    <3>2. QED
      BY <1>2, <2>1, <2>2, <2>4, <3>1, Quietly
  <2>5. ASSUME NEW k \in todo[p], todo' = [todo EXCEPT ![p] = @ \ {k}], UNCHANGED mem,
               \/ Now(k) = Ours(place) /\ key' = [key EXCEPT ![p] = k] /\ Goto(p, "restore")
               \/ Now(k) # Ours(place) /\ UNCHANGED <<key, pc>>
        PROVE  Traced'
    <3>1. todo'[p] = todo[p] \ {k} /\ \A q \in Workers \ {p} : pc'[q] = "off"
      BY <1>1, <2>5 DEF Goto, SInv, TypeOK
    <3>2. \/ pc'[p] = "restore" /\ key'[p] = k
          \/ pc'[p] = "undo" /\ ~Rewritten(k, place)
      BY <2>1, <2>5 DEF Goto, SInv, TypeOK, Rewritten
    <3>3. QED
      BY <1>2, <2>1, <2>2, <2>5, <3>1, <3>2, Quietly
  <2>6. QED
    BY <1>5, <2>3, <2>4, <2>5 DEF Undo
<1>6. CASE Restore(p)
  <2>1. UNCHANGED <<host, place, raced, overwritten, journal>> /\ pc[p] = "restore"
    BY <1>6 DEF Restore, folder
  <2>2. CASE Closed(p) /\ UNCHANGED cmd
    BY <1>1, <2>1, <2>2, GivenUp
  <2>3. CASE /\ cmd' = [cmd EXCEPT ![host][key[p]] = mem[p].entries[key[p]]]
             /\ Goto(p, "undo") /\ UNCHANGED <<mem, todo>>
    <3>1. pc'[p] = "undo" /\ \A q \in Workers \ {p} : pc'[q] = "off"
      BY <1>1, <2>3 DEF Goto, SInv, TypeOK
    <3>2. mem[p].entries[key[p]] \in Own(place) /\ mem[p].entries[key[p]] \in Commands
      BY <1>1, <2>1, Kinds DEF Sound, Within
    <3>3. /\ key[p] \in Keys /\ cmd'[host][key[p]] = mem[p].entries[key[p]]
          /\ \A k \in Keys : k # key[p] => cmd'[host][k] = cmd[host][k]
      BY <1>1, <2>1, <2>3, <3>2, Replaced DEF SInv, TypeOK
    <3>4. \A k \in Keys, a \in Places : Rewritten(k, a)' => k # key[p] /\ Rewritten(k, a)
      BY <2>1, <3>2, <3>3, Distinct DEF Rewritten, Now
    <3>5. Kept' /\ Ahead'
      BY <1>2, <2>1, <2>3, <3>1, <3>4 DEF Traced, Kept, Ahead
    <3>6. \A k \in Keys : Rewritten(k, place)' => k \in todo'[p]
      BY <1>1, <2>1, <2>3, <3>4 DEF Traced, Undone
    <3>7. Undone'
      BY <2>1, <3>1, <3>6 DEF Undone, Rewritten
    <3>8. QED
      BY <3>5, <3>7 DEF Traced
  <2>4. QED
    BY <1>6, <2>2, <2>3 DEF Restore
<1>7. CASE Clear(p)
  <2>1. /\ UNCHANGED <<host, place, cmd, raced, overwritten>> /\ pc[p] = "clear" /\ Closed(p)
        /\ journal = mem[p]
    BY <1>1, <1>7 DEF Clear, folder, history, Sound
  <2>2. \A k \in Keys, a \in Places : ~Rewritten(k, a)
    <3> SUFFICES ASSUME NEW k \in Keys, NEW a \in Places, Rewritten(k, a) PROVE FALSE
      OBVIOUS
    <3>1. journal.entries[k] \in Own(a) /\ journal.entries[k] \in Own(place)
      BY <1>1, <1>3, <2>1 DEF Sound, Within
    <3>2. a = place
      BY <3>1, Distinct
    <3>3. k \in todo[p] /\ todo[p] = {}
      BY <2>1, <3>2 DEF Traced, Undone
    <3>4. QED
      BY <3>3
  <2>3. \A q \in Workers : pc'[q] = "off"
    BY <1>1, <2>1, Closing
  <2>4. \A k \in Keys, a \in Places : ~Rewritten(k, a)'
    BY <2>1, <2>2 DEF Rewritten, Now
  <2>5. Kept' /\ Ahead' /\ Undone'
    BY <2>3, <2>4 DEF Kept, Ahead, Undone
  <2>6. QED
    BY <2>5 DEF Traced
<1>8. CASE Enable(p)
  <2>1. /\ UNCHANGED <<host, place, cmd, raced, overwritten>> /\ pc[p] = "enable" /\ Closed(p)
        /\ mem[p].entries = journal.entries
    BY <1>1, <1>8 DEF Enable, folder, Sound
  <2>2. \A q \in Workers : pc'[q] = "off"
    BY <1>1, <2>1, Closing
  <2>3. journal'.entries = journal.entries
    BY <1>1, <1>8, <2>1 DEF Enable, Journals
  <2>4. \A k, a : Rewritten(k, a)' <=> Rewritten(k, a)
    BY <2>1 DEF Rewritten, Now
  <2>5. Kept' /\ Ahead' /\ Undone'
    BY <1>3, <2>1, <2>2, <2>3, <2>4 DEF Kept, Ahead, Undone
  <2>6. QED
    BY <2>5 DEF Traced
<1>9. QED
  BY <1>4, <1>5, <1>6, <1>7, <1>8

\* Others' writes undo what was rewritten, and a move takes nothing along.
LEMMA TracedOthers ==
    ASSUME OneHost, SInv, Traced, (\E k \in Keys : Write(k)) \/ Move
    PROVE  Traced'
<1>1. ASSUME NEW k \in Keys, Write(k) PROVE Traced'
  <2>1. UNCHANGED <<host, place, journal, pc, mem, todo, key, overwritten>>
    BY <1>1 DEF Write, folder, session
  <2>2. PICK c \in Own(place) \cup {Custom, Missing} : cmd' = [cmd EXCEPT ![host][k] = c]
    BY <1>1 DEF Write
  <2>3. /\ c \in Commands /\ cmd \in [Hosts -> [Keys -> Commands]] /\ host \in Hosts
        /\ \A a : c # Ours(a)
    BY <2>2, Kinds, Distinct DEF SInv, TypeOK
  <2>4. cmd'[host][k] = c /\ \A l \in Keys : l # k => cmd'[host][l] = cmd[host][l]
    BY <2>2, <2>3, Changed
  <2>5. \A l \in Keys : l # k => (<<host, l>> \in raced' <=> <<host, l>> \in raced)
    BY <1>1 DEF Write
  <2>6. \A l \in Keys, a \in Places : Rewritten(l, a)' => Rewritten(l, a)
    BY <2>1, <2>3, <2>4, <2>5 DEF Rewritten, Now
  <2>7. place \in Places
    BY DEF SInv, TypeOK
  <2>8. \A l \in Keys : Rewritten(l, place)' => Rewritten(l, place)
    BY <2>1, <2>6, <2>7 DEF Rewritten
  <2>9. Kept' /\ Ahead'
    BY <2>1, <2>6 DEF Traced, Kept, Ahead
  <2>10. Undone'
    BY <2>1, <2>8 DEF Traced, Undone
  <2>11. QED
    BY <2>9, <2>10 DEF Traced
<1>2. CASE Move
  <2>1. /\ UNCHANGED <<cmd, journal, raced, overwritten>>
        /\ host' = host /\ \A p \in Workers : pc'[p] = "off"
    BY <1>2 DEF Move, history, OneHost, SInv, TypeOK
  <2>2. \A k, a : Rewritten(k, a)' <=> Rewritten(k, a)
    BY <2>1 DEF Rewritten, Now
  <2>3. Kept' /\ Ahead' /\ Undone'
    BY <2>1, <2>2 DEF Traced, Kept, Ahead, Undone
  <2>4. QED
    BY <2>3 DEF Traced
<1>3. QED
  BY <1>1, <1>2

\* Every step keeps the trace of what was rewritten.
LEMMA TracedStep == OneHost /\ SInv /\ Traced /\ [Next]_vars => Traced'
<1> SUFFICES ASSUME OneHost, SInv, Traced, [Next]_vars PROVE Traced'
  OBVIOUS
<1>1. CASE UNCHANGED vars
  <2>1. UNCHANGED <<host, place, cmd, journal, pc, mem, todo, key, overwritten, raced>>
    BY <1>1 DEF vars, folder, session, history
  <2>2. \A k, a : Rewritten(k, a)' <=> Rewritten(k, a)
    BY <2>1 DEF Rewritten, Now
  <2>3. \A k : Rewritten(k, place)' <=> Rewritten(k, place)
    BY <2>1 DEF Rewritten, Now
  <2>4. QED
    BY <2>1, <2>2, <2>3 DEF Traced, Kept, Ahead, Undone
<1>2. CASE Next
  BY <1>1, <1>2, TracedEnds, TracedSweeps, TracedUndoes, TracedOthers DEF Next, Step, Refuse
<1>3. QED
  BY <1>1, <1>2

\* Through failed saves, deaths and moves between paths of one host: what Nomad
\* rewrote there and nobody changed since is in the journal, with exactly the
\* command it replaced.
THEOREM Restoration == ASSUME OneHost PROVE Spec => []Restorable
<1>1. Init => Traced
  <2> SUFFICES ASSUME Init PROVE Traced
    OBVIOUS
  <2>1. \A k \in Keys, a \in Places : ~Rewritten(k, a)
    BY Distinct DEF Init, Rewritten, Now
  <2>2. \A p \in Workers : pc[p] = "off"
    BY DEF Init
  <2>3. QED
    BY <2>1, <2>2 DEF Traced, Kept, Ahead, Undone
<1>2. SInv /\ Traced => Restorable
  BY DEF SInv, TypeOK, OneHost, Traced, Kept, Rewritten, Now, Restorable
<1>3. SInv /\ Traced /\ [Next]_vars => Traced'
  BY TracedStep
<1>4. QED
  BY <1>1, <1>2, <1>3, SInvariance, PTL DEF Spec
=============================================================================
