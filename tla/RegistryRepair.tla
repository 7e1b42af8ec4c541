--------------------------- MODULE RegistryRepair ---------------------------
(***************************************************************************)
(* Automatic repair of browser self-registrations and its undo             *)
(* (core/src/registry/repair_journal.rs, core/src/registry.rs).            *)
(*                                                                         *)
(* A browser that makes itself the default writes open commands that run   *)
(* the browser past its launcher.  A sweep - before a launch, while the    *)
(* browser runs, after it ended - replaces such commands by the launcher's *)
(* and first writes what it replaces into a journal in the portable        *)
(* folder; --unregister-default turns sweeps off and puts the originals    *)
(* back.  The registry is the host's and anyone may write it at any time,  *)
(* also between the last comparison and the write of a repair; the folder  *)
(* moves, to other paths and to other hosts.                               *)
(***************************************************************************)
EXTENDS Integers, FiniteSets

CONSTANTS Workers,     \* launchers, watchers and command-line runs
          NoOne,       \* no process: a lock that is free
          Hosts,       \* users' registries the folder meets
          Places,      \* absolute paths the folder is found at
          Keys,        \* names of open commands in the registry
          Forms,       \* ways a browser writes its own command
          MaxEntries,  \* entries a journal may have (4096 in the code)
          MaxActs,     \* writes by others, registrations and unregistrations
          MaxFaults    \* failed calls, deaths and moves

ASSUME RegistryRepairAssumption ==
    /\ NoOne \notin Workers
    /\ IsFiniteSet(Keys)
    /\ MaxEntries \in Nat /\ MaxActs \in Nat /\ MaxFaults \in Nat

VARIABLES
    host, place,  \* where the folder is
    cmd,          \* the open command of each key on each host
    journal,      \* nomad.registry-repairs.json
    lock,         \* the process whose handle holds registry-repair.lock
    pc,           \* where each process is
    mem,          \* the journal as each session has it in memory
    todo,         \* keys the session has still to look at
    key,          \* the key it works on
    seen,         \* the command it read there
    overwritten,  \* history: what the last repair of a key really replaced
    raced,        \* history: others wrote after the comparison of that repair
    restored,     \* history: a command was restored since the last registration
    acts, faults  \* how much has happened so far

folder  == <<host, place>>
session == <<lock, pc, mem, todo, key, seen>>
history == <<overwritten, raced, restored>>
vars == <<folder, cmd, journal, session, history, acts, faults>>

-----------------------------------------------------------------------------
(* Commands, as far as original_allowed and the comparisons tell them apart. *)

Own(a)  == [by : {"browser"}, at : {a}, form : Forms]
Ours(a) == [by |-> "launcher", at |-> a]
Custom  == [by |-> "other"]
Missing == [by |-> "nobody"]

BrowserCommands == UNION {Own(a) : a \in Places}
Commands == BrowserCommands \cup {Ours(a) : a \in Places} \cup {Custom, Missing}

NoEntry == [by |-> "nothing"]
NoKey == "none"
Journals == [at : Places, enabled : BOOLEAN, entries : [Keys -> BrowserCommands \cup {NoEntry}]]

Recorded(j) == {k \in Keys : j.entries[k] # NoEntry}
Emptied(j)  == [j EXCEPT !.entries = [k \in Keys |-> NoEntry]]
With(j, k, original) == [j EXCEPT !.entries[k] = original]

\* Session::open for the folder where it now is: a journal of another path
\* is taken over when nothing is outstanding, and refused otherwise.
Opens(j) == j.at = place \/ Recorded(j) = {}
Opened(j) == [j EXCEPT !.at = place]

Sweeping   == {"sweep", "save", "compare", "set"}
Undoing    == {"disable", "undo", "restore", "clear"}
Labels     == Sweeping \cup Undoing \cup {"off", "enable"}

TypeOK ==
    /\ host \in Hosts /\ place \in Places
    /\ cmd \in [Hosts -> [Keys -> Commands]]
    /\ journal \in Journals
    /\ lock \in Workers \cup {NoOne}
    /\ pc \in [Workers -> Labels]
    /\ mem \in [Workers -> Journals]
    /\ todo \in [Workers -> SUBSET Keys]
    /\ key \in [Workers -> Keys \cup {NoKey}]
    /\ seen \in [Workers -> Commands]
    /\ overwritten \in [Hosts -> [Keys -> Commands]]
    /\ raced \subseteq Hosts \X Keys /\ restored \in BOOLEAN
    /\ acts \in 0..MaxActs /\ faults \in 0..MaxFaults

\* An absent journal counts as an empty one that is enabled.
Fresh(a) == [at |-> a, enabled |-> TRUE, entries |-> [k \in Keys |-> NoEntry]]

Init ==
    /\ host \in Hosts /\ place \in Places
    /\ cmd = [h \in Hosts |-> [k \in Keys |-> Missing]]
    /\ journal = Fresh(place)
    /\ lock = NoOne
    /\ pc = [p \in Workers |-> "off"]
    /\ mem = [p \in Workers |-> Fresh(place)]
    /\ todo = [p \in Workers |-> {}]
    /\ key = [p \in Workers |-> NoKey]
    /\ seen = [p \in Workers |-> Missing]
    /\ overwritten = [h \in Hosts |-> [k \in Keys |-> Missing]]
    /\ raced = {} /\ restored = FALSE
    /\ acts = 0 /\ faults = 0

Fault == faults < MaxFaults /\ faults' = faults + 1
Act   == acts < MaxActs /\ acts' = acts + 1

Goto(p, label) == pc' = [pc EXCEPT ![p] = label]

Closed(p) ==
    /\ Goto(p, "off")
    /\ lock' = IF lock = p THEN NoOne ELSE lock
    /\ mem' = [mem EXCEPT ![p] = Fresh(place)]
    /\ todo' = [todo EXCEPT ![p] = {}]
    /\ key' = [key EXCEPT ![p] = NoKey]
    /\ seen' = [seen EXCEPT ![p] = Missing]

Now(k) == cmd[host][k]

-----------------------------------------------------------------------------
(* Session::open, for each of the three operations.                         *)

\* Mutant: outstanding records of another path are taken over.
OpenAnywhere(p, label) ==
    /\ pc[p] = "off" /\ lock = NoOne
    /\ lock' = p
    /\ mem' = [mem EXCEPT ![p] = Opened(journal)]
    /\ Goto(p, label)
    /\ UNCHANGED <<folder, cmd, journal, key, seen, history>>

Open(p, label) ==
    /\ pc[p] = "off" /\ lock = NoOne /\ Opens(journal)
    /\ lock' = p
    /\ mem' = [mem EXCEPT ![p] = Opened(journal)]
    /\ Goto(p, label)
    /\ UNCHANGED <<folder, cmd, journal, key, seen, history>>

\* A busy lock or a journal that does not belong here ends the operation.
Refuse(p) ==
    /\ pc[p] = "off"
    /\ lock # NoOne \/ ~Opens(journal)
    /\ UNCHANGED vars

Sweep(p) ==
    /\ Open(p, "sweep")
    /\ todo' = [todo EXCEPT ![p] = Keys]
    /\ UNCHANGED <<acts, faults>>

Unregister(p) ==
    /\ Open(p, "disable") /\ Act
    /\ UNCHANGED <<todo, faults>>

Register(p) ==
    /\ Open(p, "enable") /\ Act
    /\ UNCHANGED <<todo, faults>>

-----------------------------------------------------------------------------
(* Session::repair of one key after the other.                              *)

\* Mutant: whatever command is found is taken for the browser's.
RepairableAny(p, k) ==
    /\ mem[p].enabled
    /\ Now(k) # Ours(place)
    /\ mem[p].entries[k] # NoEntry \/ Cardinality(Recorded(mem[p])) < MaxEntries

Repairable(p, k) ==
    /\ mem[p].enabled
    /\ Now(k) \in Own(place)
    /\ mem[p].entries[k] # NoEntry \/ Cardinality(Recorded(mem[p])) < MaxEntries

\* The command is read and, if it is the browser's, entered in memory.
Look(p) ==
    /\ pc[p] = "sweep"
    /\ \E k \in todo[p] :
          /\ todo' = [todo EXCEPT ![p] = @ \ {k}]
          /\ \/ /\ Repairable(p, k)
                /\ mem' = [mem EXCEPT ![p] = With(@, k, Now(k))]
                /\ key' = [key EXCEPT ![p] = k]
                /\ seen' = [seen EXCEPT ![p] = Now(k)]
                /\ Goto(p, "save")
             \/ /\ ~Repairable(p, k)
                /\ UNCHANGED <<mem, key, seen, pc>>
    /\ UNCHANGED <<lock, folder, cmd, journal, history, acts, faults>>

\* Write ahead.  A save that fails leaves the entry in memory, where the save
\* of the next key finds it.
Save(p) ==
    /\ pc[p] = "save"
    /\ \/ journal' = mem[p] /\ Goto(p, "compare") /\ UNCHANGED faults
       \/ Fault /\ Goto(p, "sweep") /\ UNCHANGED journal
    /\ UNCHANGED <<lock, mem, todo, key, seen, folder, cmd, history, acts>>

\* Mutant: what was read when the sweep looked is not compared again.
CompareNothing(p) ==
    /\ pc[p] = "compare"
    /\ Goto(p, "set")
    /\ UNCHANGED <<lock, mem, todo, key, seen, folder, cmd, journal, history, acts, faults>>

Compare(p) ==
    /\ pc[p] = "compare"
    /\ \/ Now(key[p]) = seen[p] /\ Goto(p, "set") /\ UNCHANGED faults
       \/ Now(key[p]) # seen[p] /\ Goto(p, "sweep") /\ UNCHANGED faults
       \/ Fault /\ Goto(p, "sweep")
    /\ UNCHANGED <<lock, mem, todo, key, seen, folder, cmd, journal, history, acts>>

Set(p) ==
    /\ pc[p] = "set"
    /\ \/ /\ cmd' = [cmd EXCEPT ![host][key[p]] = Ours(place)]
          /\ overwritten' = [overwritten EXCEPT ![host][key[p]] = Now(key[p])]
          /\ UNCHANGED faults
       \/ Fault /\ UNCHANGED <<cmd, overwritten>>
    /\ Goto(p, "sweep")
    /\ UNCHANGED <<lock, mem, todo, key, seen, folder, journal, raced, restored, acts>>

SweepEnds(p) ==
    /\ pc[p] = "sweep" /\ todo[p] = {}
    /\ Closed(p)
    /\ UNCHANGED <<folder, cmd, journal, history, acts, faults>>

-----------------------------------------------------------------------------
(* unregister_launcher: ownership of the registration, then Session::undo.  *)

\* Mutant: sweeps stay enabled until the undo is complete.
DisableLater(p) ==
    /\ pc[p] = "disable"
    /\ todo' = [todo EXCEPT ![p] = Recorded(mem[p])]
    /\ Goto(p, "undo")
    /\ UNCHANGED <<lock, mem, key, seen, folder, cmd, journal, history, acts, faults>>

\* A registration of another launcher, or a save that fails, ends it here.
Disable(p) ==
    /\ pc[p] = "disable"
    /\ \/ /\ mem' = [mem EXCEPT ![p].enabled = FALSE]
          /\ journal' = mem'[p]
          /\ todo' = [todo EXCEPT ![p] = Recorded(mem[p])]
          /\ Goto(p, "undo")
          /\ UNCHANGED <<lock, key, seen, faults>>
       \/ Fault /\ Closed(p) /\ UNCHANGED journal
    /\ UNCHANGED <<folder, cmd, history, acts>>

\* Only a command that still is the recorded replacement is restored; the
\* first error ends the undo, with every entry retained.
Undo(p) ==
    /\ pc[p] = "undo"
    /\ \/ \E k \in todo[p] :
             /\ todo' = [todo EXCEPT ![p] = @ \ {k}]
             /\ \/ Now(k) = Ours(place) /\ key' = [key EXCEPT ![p] = k] /\ Goto(p, "restore")
                \/ Now(k) # Ours(place) /\ UNCHANGED <<key, pc>>
             /\ UNCHANGED <<lock, mem, seen, faults>>
       \/ Fault /\ Closed(p)
       \/ todo[p] = {} /\ Goto(p, "clear") /\ UNCHANGED <<lock, mem, todo, key, seen, faults>>
    /\ UNCHANGED <<folder, cmd, journal, history, acts>>

\* Mutant: the error of one key is passed over and the entries are cleared.
RestoreBestEffort(p) ==
    /\ pc[p] = "restore"
    /\ \/ cmd' = [cmd EXCEPT ![host][key[p]] = mem[p].entries[key[p]]]
          /\ restored' = TRUE /\ UNCHANGED faults
       \/ Fault /\ UNCHANGED <<cmd, restored>>
    /\ Goto(p, "undo")
    /\ UNCHANGED <<lock, mem, todo, key, seen, folder, journal, overwritten, raced, acts>>

Restore(p) ==
    /\ pc[p] = "restore"
    /\ \/ /\ cmd' = [cmd EXCEPT ![host][key[p]] = mem[p].entries[key[p]]]
          /\ restored' = TRUE
          /\ Goto(p, "undo")
          /\ UNCHANGED <<lock, mem, todo, key, seen, faults>>
       \/ Fault /\ Closed(p) /\ UNCHANGED <<cmd, restored>>
    /\ UNCHANGED <<folder, journal, overwritten, raced, acts>>

Clear(p) ==
    /\ pc[p] = "clear"
    /\ \/ journal' = Emptied(mem[p]) /\ UNCHANGED faults
       \/ Fault /\ UNCHANGED journal
    /\ Closed(p)
    /\ UNCHANGED <<folder, cmd, history, acts>>

\* register: the picker entries come first and may fail, then sweeps are
\* enabled again, with whatever entries an unfinished undo has left.
Enable(p) ==
    /\ pc[p] = "enable"
    /\ \/ journal' = [mem[p] EXCEPT !.enabled = TRUE] /\ restored' = FALSE /\ UNCHANGED faults
       \/ Fault /\ UNCHANGED <<journal, restored>>
    /\ Closed(p)
    /\ UNCHANGED <<folder, cmd, overwritten, raced, acts>>

\* Mutant: the lock is the presence of its file, which a death leaves behind.
DieLocked(p) ==
    /\ pc[p] # "off" /\ Fault
    /\ Goto(p, "off")
    /\ UNCHANGED <<lock, mem, todo, key, seen, folder, cmd, journal, history, acts>>

Die(p) ==
    /\ pc[p] # "off" /\ Fault
    /\ Closed(p)
    /\ UNCHANGED <<folder, cmd, journal, history, acts>>

-----------------------------------------------------------------------------
(* Everybody else.                                                          *)

\* A browser of this folder makes itself the default, or anyone writes or
\* deletes the command.  Between comparison and write nobody notices.
Write(k) ==
    /\ Act
    /\ \E c \in Own(place) \cup {Custom, Missing} :
          c # Now(k) /\ cmd' = [cmd EXCEPT ![host][k] = c]
    /\ raced' = IF \E p \in Workers : pc[p] \in {"set", "restore"} /\ key[p] = k
                THEN raced \cup {<<host, k>>} ELSE raced \ {<<host, k>>}
    /\ UNCHANGED <<folder, journal, session, overwritten, restored, faults>>

\* The folder is closed, and found at another path or on another host.
Move ==
    /\ Fault
    /\ host' \in Hosts /\ place' \in Places
    /\ <<host, place>>' # <<host, place>>
    /\ lock' = NoOne
    /\ pc' = [p \in Workers |-> "off"]
    /\ mem' = [p \in Workers |-> Fresh(place')]
    /\ todo' = [p \in Workers |-> {}]
    /\ key' = [p \in Workers |-> NoKey]
    /\ seen' = [p \in Workers |-> Missing]
    /\ UNCHANGED <<cmd, journal, history, acts>>

-----------------------------------------------------------------------------

Step(p) ==
    \/ Look(p) \/ Save(p) \/ Compare(p) \/ Set(p) \/ SweepEnds(p)
    \/ Disable(p) \/ Undo(p) \/ Restore(p) \/ Clear(p) \/ Enable(p)

Next ==
    \/ \E p \in Workers : Refuse(p) \/ Step(p) \/ Die(p)
    \/ \E p \in Workers : Sweep(p) \/ Unregister(p) \/ Register(p)
    \/ \E k \in Keys : Write(k)
    \/ Move

Spec == Init /\ [][Next]_vars

-----------------------------------------------------------------------------
(* Properties                                                               *)

\* "Restore recorded automatic repairs": through failed saves, deaths and
\* moves of the folder between paths of a computer, a command that Nomad rewrote
\* and nobody changed since has an entry in the journal, with exactly the
\* command it replaced - unless somebody wrote in the gap between its comparison
\* and its write, which the code cannot see.
Restorable ==
    \A h \in Hosts, k \in Keys :
        cmd[h][k] \in {Ours(a) : a \in Places} /\ <<h, k>> \notin raced
        => journal.entries[k] = overwritten[h][k]

\* Outside that gap Nomad's own steps overwrite nothing but a command of its
\* browser, by the launcher's, and the launcher's, by the recorded original:
\* edits of the user and other programs' commands are never lost.
Spared ==
    [][\A k \in Keys :
          (cmd' # cmd /\ pc' # pc /\ cmd'[host][k] # Now(k) /\ <<host, k>> \notin raced)
          => \/ Now(k) \in Own(place) /\ cmd'[host][k] = Ours(place)
             \/ Now(k) = Ours(place) /\ cmd'[host][k] = journal.entries[k]]_vars

\* From the first restored command on no sweep rewrites anything until an
\* explicit registration, a helper that was already sweeping included.
StaysOff ==
    [][\A h \in Hosts, k \in Keys :
          (cmd'[h][k] # cmd[h][k] /\ cmd'[h][k] = Ours(place)) => ~restored]_vars

\* Every journal that was saved can be opened again where it was saved:
\* within the budget, and with originals that belong to its own path.
Reopens ==
    /\ Cardinality(Recorded(journal)) <= MaxEntries
    /\ \A k \in Recorded(journal) : journal.entries[k] \in Own(journal.at)

\* A browser's own command is rerouted by some later sweep, as long as
\* repairs are enabled and the journal has room and is at home.
FairSpec ==
    /\ Spec
    /\ \A p \in Workers : WF_vars(Sweep(p)) /\ WF_vars(Step(p))

Rerouted ==
    \A k \in Keys :
        (Now(k) \in Own(place))
        ~> \/ Now(k) \notin Own(place) \/ ~journal.enabled \/ ~Opens(journal)
           \/ Cardinality(Recorded(journal)) >= MaxEntries
=============================================================================
