---------------------------- MODULE Registration ----------------------------
(***************************************************************************)
(* Explicit registration as a default-browser candidate and its removal     *)
(* (core/src/registry/registration.rs): a plan is recorded in the portable  *)
(* folder before the host's registry is written, value by value, and only   *)
(* the copy of the folder that stands where the record says may remove what *)
(* it lists.  Folders are moved and copied, with their records; commands    *)
(* fail, or end, between any two steps.  One computer; what happens to the  *)
(* commands browsers write themselves is in module RegistryRepair, and the  *)
(* sidecar is replaced atomically (fs_safety::atomic_write).                *)
(***************************************************************************)
EXTENDS Integers, Sequences

CONSTANTS Folders,    \* portable folders of one browser, copies of each other
          Places,     \* launcher paths they are found at
          Nowhere,    \* the place of a folder that does not exist yet
          MaxMoves,   \* moves and copies
          MaxFaults   \* failed calls and deaths

ASSUME RegistrationAssumption ==
    /\ Nowhere \notin Places
    /\ {"none", "legacy"} \cap Places = {}
    /\ MaxMoves \in Nat /\ MaxFaults \in Nat

VARIABLES
    at,       \* where each folder is
    sidecar,  \* Nomad/nomad.reg-state.json: "none", "legacy", or its place
    history,  \* records in Nomad/registration-history/
    torn,     \* records whose file there was created and not filled
    entries,  \* what the registry has for each place
    pc,       \* where the command run in each folder is
    next,     \* the value it writes next
    failed,   \* did one of its removals fail
    moves, faults

record == <<sidecar, history, torn>>
command == <<pc, next, failed>>
vars == <<at, record, entries, command, moves, faults>>

Records == Places \cup {"legacy"}

\* Plan::new, grouped: the ProgID with its icon, its open command, the
\* capabilities, and the RegisteredApplications value, always last.
Values == <<"class", "command", "capabilities", "advertised">>
Entries == {"class", "command", "capabilities", "advertised"}

Registering   == {"archive", "fill", "save", "write"}
Unregistering == {"classes", "capabilities", "value", "forget"}

TypeOK ==
    /\ at \in [Folders -> Places \cup {Nowhere}]
    /\ sidecar \in [Folders -> Records \cup {"none"}]
    /\ history \in [Folders -> SUBSET Records]
    /\ torn \in [Folders -> SUBSET Records]
    /\ entries \in [Places -> SUBSET Entries]
    /\ pc \in [Folders -> Registering \cup Unregistering \cup {"off"}]
    /\ \A f \in Folders : pc[f] # "off" => at[f] \in Places
    /\ next \in [Folders -> 1..4]
    /\ failed \in [Folders -> BOOLEAN]
    /\ moves \in 0..MaxMoves /\ faults \in 0..MaxFaults

Init ==
    /\ \E f \in Folders, p \in Places :
          /\ at = [g \in Folders |-> IF g = f THEN p ELSE Nowhere]
          /\ \E old \in {"none", "legacy"} :
                sidecar = [g \in Folders |-> IF g = f THEN old ELSE "none"]
    /\ history = [f \in Folders |-> {}] /\ torn = [f \in Folders |-> {}]
    /\ entries = [p \in Places |-> {}]
    /\ pc = [f \in Folders |-> "off"]
    /\ next = [f \in Folders |-> 1]
    /\ failed = [f \in Folders |-> FALSE]
    /\ moves = 0 /\ faults = 0

Goto(f, label) == pc' = [pc EXCEPT ![f] = label]

Fault == faults < MaxFaults /\ faults' = faults + 1

Idle(f) == pc[f] = "off" /\ at[f] \in Places

-----------------------------------------------------------------------------
(* --register-default                                                       *)

\* Plan::persist looks at the record the folder has.
Register(f) ==
    /\ Idle(f)
    /\ Goto(f, IF sidecar[f] \in {"none", at[f]} THEN "save" ELSE "archive")
    /\ next' = [next EXCEPT ![f] = 1]
    /\ UNCHANGED <<at, record, entries, failed, moves, faults>>

\* Mutant: a file of that name is taken for the record.
ArchiveByName(f) ==
    /\ pc[f] = "archive"
    /\ \/ /\ sidecar[f] \in torn[f] \cup history[f]
          /\ Goto(f, "save") /\ UNCHANGED torn
       \/ /\ sidecar[f] \notin torn[f] \cup history[f]
          /\ torn' = [torn EXCEPT ![f] = @ \cup {sidecar[f]}]
          /\ Goto(f, "fill")
    /\ UNCHANGED <<at, sidecar, history, entries, next, failed, moves, faults>>

\* archive_record: the file is named after its content, and one that has
\* the name must have the content; a new one is created first.
Archive(f) ==
    /\ pc[f] = "archive"
    /\ \/ sidecar[f] \in torn[f] /\ Goto(f, "off") /\ UNCHANGED torn
       \/ sidecar[f] \in history[f] /\ Goto(f, "save") /\ UNCHANGED torn
       \/ /\ sidecar[f] \notin torn[f] \cup history[f]
          /\ torn' = [torn EXCEPT ![f] = @ \cup {sidecar[f]}]
          /\ Goto(f, "fill")
    /\ UNCHANGED <<at, sidecar, history, entries, next, failed, moves, faults>>

\* write_new: a failed write removes its file, if it can.
Fill(f) ==
    /\ pc[f] = "fill"
    /\ \/ /\ history' = [history EXCEPT ![f] = @ \cup {sidecar[f]}]
          /\ torn' = [torn EXCEPT ![f] = @ \ {sidecar[f]}]
          /\ Goto(f, "save") /\ UNCHANGED faults
       \/ /\ Fault /\ Goto(f, "off")
          /\ torn' \in {torn, [torn EXCEPT ![f] = @ \ {sidecar[f]}]}
          /\ UNCHANGED history
    /\ UNCHANGED <<at, sidecar, entries, next, failed, moves>>

\* Mutant: the plan is not recorded before it is carried out.
SaveNothing(f) ==
    /\ pc[f] = "save"
    /\ Goto(f, "write")
    /\ UNCHANGED <<at, record, entries, next, failed, moves, faults>>

Save(f) ==
    /\ pc[f] = "save"
    /\ \/ /\ sidecar' = [sidecar EXCEPT ![f] = at[f]]
          /\ Goto(f, "write") /\ UNCHANGED faults
       \/ Fault /\ Goto(f, "off") /\ UNCHANGED sidecar
    /\ UNCHANGED <<at, history, torn, entries, next, failed, moves>>

\* The value is there; the next one follows, or the command has succeeded.
Written(f) ==
    /\ entries' = [entries EXCEPT ![at[f]] = @ \cup {Values[next[f]]}]
    /\ IF next[f] = 4 THEN Goto(f, "off") /\ UNCHANGED next
       ELSE next' = [next EXCEPT ![f] = @ + 1] /\ UNCHANGED pc

\* Mutant: the other values are written although one has failed.
WriteOn(f) ==
    /\ pc[f] = "write"
    /\ \/ Written(f) /\ UNCHANGED faults
       \/ /\ Fault /\ next[f] < 4
          /\ next' = [next EXCEPT ![f] = @ + 1]
          /\ UNCHANGED <<entries, pc>>
    /\ UNCHANGED <<at, record, failed, moves>>

\* Plan::apply: the first failure, before or after its value is there, ends
\* the command and leaves the record.
Write(f) ==
    /\ pc[f] = "write"
    /\ \/ Written(f) /\ UNCHANGED faults
       \/ /\ Fault /\ Goto(f, "off")
          /\ entries' \in {entries, [entries EXCEPT ![at[f]] = @ \cup {Values[next[f]]}]}
          /\ UNCHANGED next
    /\ UNCHANGED <<at, record, failed, moves>>

-----------------------------------------------------------------------------
(* --unregister-default                                                     *)

\* Mutant: a record is good wherever it is found.
UnregisterAnywhere(f) ==
    /\ Idle(f) /\ sidecar[f] \in Places
    /\ Goto(f, "classes")
    /\ failed' = [failed EXCEPT ![f] = FALSE]
    /\ UNCHANGED <<at, record, entries, next, moves, faults>>

\* owned_state: no record, a shared one, or one of another place is refused.
Unregister(f) ==
    /\ Idle(f) /\ sidecar[f] = at[f]
    /\ Goto(f, "classes")
    /\ failed' = [failed EXCEPT ![f] = FALSE]
    /\ UNCHANGED <<at, record, entries, next, moves, faults>>

\* One removal of remove_owned: it does all of it, or fails at any point,
\* is counted, and the next one follows all the same.
Remove(f, what, then) ==
    /\ \/ /\ entries' = [entries EXCEPT ![sidecar[f]] = @ \ what]
          /\ UNCHANGED <<failed, faults>>
       \/ /\ Fault /\ failed' = [failed EXCEPT ![f] = TRUE]
          /\ \E part \in SUBSET what :
                entries' = [entries EXCEPT ![sidecar[f]] = @ \ part]
    /\ Goto(f, then)
    /\ UNCHANGED <<at, record, next, moves>>

RemoveClasses(f)      == pc[f] = "classes" /\ Remove(f, {"class", "command"}, "capabilities")
RemoveCapabilities(f) == pc[f] = "capabilities" /\ Remove(f, {"capabilities"}, "value")
RemoveValue(f)        == pc[f] = "value" /\ Remove(f, {"advertised"}, "forget")

\* Mutant: failed removals are not counted.
ForgetAnyway(f) ==
    /\ pc[f] = "forget"
    /\ sidecar' = [sidecar EXCEPT ![f] = "none"]
    /\ Goto(f, "off")
    /\ UNCHANGED <<at, history, torn, entries, next, failed, moves, faults>>

\* finish_unregistration: only a removal without failures loses its record.
Forget(f) ==
    /\ pc[f] = "forget"
    /\ \/ failed[f] /\ UNCHANGED <<sidecar, faults>>
       \/ /\ ~failed[f]
          /\ sidecar' = [sidecar EXCEPT ![f] = "none"] /\ UNCHANGED faults
       \/ ~failed[f] /\ Fault /\ UNCHANGED sidecar
    /\ Goto(f, "off")
    /\ UNCHANGED <<at, history, torn, entries, next, failed, moves>>

-----------------------------------------------------------------------------
(* What happens to folders and commands                                     *)

Free(p) == \A g \in Folders : at[g] # p

\* A folder is moved, or its launcher renamed; its own programs do not run.
Move(f, p) ==
    /\ moves < MaxMoves /\ moves' = moves + 1
    /\ Idle(f) /\ Free(p)
    /\ at' = [at EXCEPT ![f] = p]
    /\ UNCHANGED <<record, entries, command, faults>>

Copy(f, g, p) ==
    /\ moves < MaxMoves /\ moves' = moves + 1
    /\ Idle(f) /\ at[g] = Nowhere /\ Free(p)
    /\ at' = [at EXCEPT ![g] = p]
    /\ sidecar' = [sidecar EXCEPT ![g] = sidecar[f]]
    /\ history' = [history EXCEPT ![g] = history[f]]
    /\ torn' = [torn EXCEPT ![g] = torn[f]]
    /\ UNCHANGED <<entries, command, faults>>

\* The command, the computer or the drive goes.
Die(f) ==
    /\ pc[f] # "off"
    /\ Fault
    /\ Goto(f, "off")
    /\ UNCHANGED <<at, record, entries, next, failed, moves>>

-----------------------------------------------------------------------------

Step(f) ==
    \/ Register(f) \/ Archive(f) \/ Fill(f) \/ Save(f) \/ Write(f)
    \/ Unregister(f)
    \/ RemoveClasses(f) \/ RemoveCapabilities(f) \/ RemoveValue(f) \/ Forget(f)
    \/ Die(f)

Next ==
    \/ \E f \in Folders : Step(f)
    \/ \E f \in Folders, p \in Places : Move(f, p)
    \/ \E f, g \in Folders, p \in Places : Copy(f, g, p)

Spec == Init /\ [][Next]_vars

-----------------------------------------------------------------------------
(* Properties                                                               *)

\* Whatever is on the computer, of a complete registration or of a part of
\* one, is described by a record in some folder: none is written before its
\* record, and no record is lost while anything it describes is left.
Covered ==
    \A p \in Places : entries[p] # {} =>
        \E f \in Folders : p \in history[f] \cup {sidecar[f]}

\* "Registering or unregistering one portable copy leaves other locations'
\* entries intact", with copied and moved records in the folders.
OthersIntact ==
    [][\A p \in Places : entries'[p] # entries[p] =>
          \E f \in Folders : at[f] = p /\ pc[f] # "off"]_vars

\* "Advertise the candidate only after its command/capabilities are written",
\* also when the registration completes one that failed or was half removed.
AdvertisedLast ==
    [][\A p \in Places :
          "advertised" \in entries'[p] \ entries[p] => entries'[p] = Entries]_vars

\* A record is deleted only when nothing it describes is left, through all
\* failures of this removal and the ones before it.
RemovedFirst ==
    [][\A f \in Folders :
          sidecar[f] \in Places /\ sidecar'[f] = "none" => entries[sidecar[f]] = {}]_vars

\* The record of a shared registration or of another location is replaced
\* only when the folder's history has it whole.
Archived ==
    [][\A f \in Folders :
          at[f] = at'[f] /\ sidecar[f] \notin {"none", at[f]} /\ sidecar'[f] # sidecar[f]
              => sidecar[f] \in history[f]]_vars

\* What tells a later removal where entries are is not lost before they are.
RecordsKept == RemovedFirst /\ Archived

\* "If registration fails or is interrupted, retry --register-default to
\* finish it": no registration is refused for what an earlier one left.
Retryable ==
    \A f \in Folders : pc[f] = "archive" => sidecar[f] \notin torn[f]
=============================================================================
