--------------------------- MODULE InstanceClaim ----------------------------
(***************************************************************************)
(* Ownership of a portable folder (core/src/instance.rs): every launcher    *)
(* calls ensure before it touches the folder; the first one to be run       *)
(* directly writes Nomad/instance.toml with its browser family, all others  *)
(* must match it.  The marker is created, written, synced and, when that    *)
(* fails, removed in steps that other launchers, failures and crashes fall  *)
(* between.                                                                 *)
(***************************************************************************)
EXTENDS Integers, FiniteSets

CONSTANTS Launchers,   \* launcher processes
          Ids,         \* browser identities launchers come with
          FamilyNames, \* those of them that are valid
          MaxClaimFaults \* failed writes and crashes

ASSUME InstanceClaimAssumption ==
    /\ MaxClaimFaults \in Nat
    /\ FamilyNames \subseteq Ids
    /\ FamilyNames \cap {"none", "torn"} = {}

VARIABLES
    marker,   \* Nomad/instance.toml: "none", "torn", or the family in it
    pc,       \* where each launcher is
    identity, \* the family each launcher comes with
    claims,   \* may it claim, or was it started by a link
    deserted, \* history: launchers in the folder whose marker was removed since
    faults    \* failures and crashes so far

claimVars == <<marker, pc, identity, claims, deserted, faults>>

Labels == {"off", "look", "read", "create", "write", "sync", "remove", "owner", "refused"}

ClaimTypeOK ==
    /\ marker \in FamilyNames \cup {"none", "torn"}
    /\ pc \in [Launchers -> Labels]
    /\ identity \in [Launchers -> Ids]
    /\ claims \in [Launchers -> BOOLEAN]
    /\ deserted \subseteq Launchers
    /\ faults \in 0..MaxClaimFaults

ClaimInit ==
    /\ marker = "none"
    /\ pc = [p \in Launchers |-> "off"]
    /\ identity \in [Launchers -> Ids]
    /\ claims = [p \in Launchers |-> FALSE]
    /\ deserted = {}
    /\ faults = 0

Goto(p, label) == pc' = [pc EXCEPT ![p] = label]

Fault == faults < MaxClaimFaults /\ faults' = faults + 1

-----------------------------------------------------------------------------

\* A direct start may claim, a link or --unregister-default may not.
Start(p) ==
    /\ pc[p] = "off"
    /\ \E may \in BOOLEAN : claims' = [claims EXCEPT ![p] = may]
    /\ Goto(p, "look")
    /\ UNCHANGED <<marker, identity, deserted, faults>>

\* Mutant: a link may claim the folder as well.
LookUnasked(p) ==
    /\ pc[p] = "look"
    /\ Goto(p, IF identity[p] \notin FamilyNames THEN "refused"
               ELSE IF marker = "none" THEN "create" ELSE "read")
    /\ UNCHANGED <<marker, identity, claims, deserted, faults>>

\* ensure: is the identity valid, does the marker exist, may it be made?
Look(p) ==
    /\ pc[p] = "look"
    /\ \/ identity[p] \notin FamilyNames /\ Goto(p, "refused")
       \/ identity[p] \in FamilyNames /\ marker # "none" /\ Goto(p, "read")
       \/ /\ identity[p] \in FamilyNames /\ marker = "none"
          /\ Goto(p, IF claims[p] THEN "create" ELSE "refused")
    /\ UNCHANGED <<marker, identity, claims, deserted, faults>>

\* validate_existing: unreadable, unknown or foreign is refused.
Read(p) ==
    /\ pc[p] = "read"
    /\ Goto(p, IF marker = identity[p] THEN "owner" ELSE "refused")
    /\ UNCHANGED <<marker, identity, claims, deserted, faults>>

\* Mutant: the file is opened whether or not somebody has made it.
CreateOver(p) ==
    /\ pc[p] = "create"
    /\ marker' = "torn" /\ Goto(p, "write")
    /\ UNCHANGED <<identity, claims, deserted, faults>>

\* create_new; the loser of the race validates what the winner wrote.
Create(p) ==
    /\ pc[p] = "create"
    /\ \/ marker = "none" /\ marker' = "torn" /\ Goto(p, "write") /\ UNCHANGED faults
       \/ marker # "none" /\ Goto(p, "read") /\ UNCHANGED <<marker, faults>>
       \/ Fault /\ Goto(p, "refused") /\ UNCHANGED marker
    /\ UNCHANGED <<identity, claims, deserted>>

\* write_all; a failure leaves a part of the bytes.
WriteAll(p) ==
    /\ pc[p] = "write"
    /\ \/ marker' = identity[p] /\ Goto(p, "sync") /\ UNCHANGED faults
       \/ Fault /\ Goto(p, "remove") /\ UNCHANGED marker
    /\ UNCHANGED <<identity, claims, deserted>>

\* sync_all; by now the marker can be read by others, whether or not it fails.
Sync(p) ==
    /\ pc[p] = "sync"
    /\ (Goto(p, "owner") /\ UNCHANGED faults) \/ (Goto(p, "remove") /\ Fault)
    /\ UNCHANGED <<marker, identity, claims, deserted>>

\* The claimer of a failed write or sync removes its file, if it can, also
\* from under those that were let in by it.
RemoveMarker(p) ==
    /\ pc[p] = "remove"
    /\ \/ /\ marker' = "none"
          /\ deserted' = deserted \cup {q \in Launchers : pc[q] = "owner"}
          /\ UNCHANGED faults
       \/ Fault /\ UNCHANGED <<marker, deserted>>
    /\ Goto(p, "refused")
    /\ UNCHANGED <<identity, claims>>

\* The launcher ends: its work is done, its message is read, or it dies.
End(p) ==
    /\ pc[p] # "off"
    /\ (pc[p] \in {"owner", "refused"} /\ UNCHANGED faults) \/ Fault
    /\ Goto(p, "off")
    /\ deserted' = deserted \ {p}
    /\ UNCHANGED <<marker, identity, claims>>

-----------------------------------------------------------------------------

Step(p) == Look(p) \/ Read(p) \/ Create(p) \/ WriteAll(p) \/ Sync(p) \/ RemoveMarker(p)

ClaimNext == \E p \in Launchers : Start(p) \/ Step(p) \/ End(p)

ClaimSpec == ClaimInit /\ [][ClaimNext]_claimVars

-----------------------------------------------------------------------------
(* Properties                                                               *)

\* Two launchers of different families never both use one folder.  This is
\* what the module is there for ("turns that silent collision into a
\* fail-closed error"), and what the code does not keep: a marker that others
\* were let in by is removed when the sync of its writer fails.
OneFamily ==
    \A p, q \in Launchers :
        pc[p] = "owner" /\ pc[q] = "owner" => identity[p] = identity[q]

\* What the code keeps of it: the removal of a claimer's own marker is the
\* only way for two families to meet.  Those whose marker has stayed in place
\* are of one family, however looks, creations, failures and deaths interleave.
KeptApart ==
    \A p, q \in Launchers :
        pc[p] = "owner" /\ pc[q] = "owner" /\ {p, q} \cap deserted = {}
        => identity[p] = identity[q]

-----------------------------------------------------------------------------
(* The abstract specification this one implements                           *)

\* Whose folder it is: a torn marker names nobody.
Owner == IF marker \in FamilyNames THEN marker ELSE "none"

\* What each launcher works in the folder for: its own family, once let in.
Inside == [p \in Launchers |-> IF pc[p] = "owner" THEN identity[p] ELSE "none"]

\* Whose claim can be read already, but may still be taken back.
Proposers == {p \in Launchers : pc[p] \in {"sync", "remove"} /\ marker \in FamilyNames}

Folder == INSTANCE FolderOwner
          WITH Nobody <- "none", owner <- Owner, inside <- Inside,
               proposers <- Proposers, stranded <- deserted

\* The folder is given away in one step, by a launcher that was started
\* directly ("a missing marker is claimed atomically only when claim_if_missing");
\* until that launcher has synced the marker or ended it alone may take the
\* folder back, under others it let in; after that nothing takes it back or
\* lets in another family.
ImplementsOwner == Folder!Spec
=============================================================================
