---------------------------- MODULE FolderOwner -----------------------------
(***************************************************************************)
(* What instance::ensure does about the ownership of a portable folder,     *)
(* without saying how: a launcher that may claim the folder proposes its    *)
(* browser family as the owner, and the folder lets in launchers of that    *)
(* family, and no others, from then on.  The proposer settles it, or it is  *)
(* confirmed by its end; until then the proposer may still withdraw, which  *)
(* strands those it let in: the folder may then go to another family while  *)
(* they work in it.  Settled or confirmed, the owner stays.                 *)
(* InstanceClaim implements this specification with one file that is looked *)
(* for, created, written, synced and, when that fails, removed.             *)
(***************************************************************************)

CONSTANTS Launchers,   \* launcher processes
          FamilyNames, \* browser families
          Nobody       \* the owner of an unclaimed folder

VARIABLES
    owner,     \* whose folder it is
    proposers, \* the launcher that may still withdraw, if there is one
    inside,    \* the family each launcher works in the folder for, or Nobody
    stranded,  \* launchers inside under an owner that was withdrawn
    claims     \* may the launcher claim an unclaimed folder

folderVars == <<owner, proposers, inside, stranded, claims>>

Init ==
    /\ owner = Nobody
    /\ proposers = {}
    /\ inside = [p \in Launchers |-> Nobody]
    /\ stranded = {}
    /\ claims = [p \in Launchers |-> FALSE]

Let(p, f) == inside' = [inside EXCEPT ![p] = f]

\* A launcher is started, by hand or by a link.
Arrive(p) ==
    /\ inside[p] = Nobody
    /\ \E may \in BOOLEAN : claims' = [claims EXCEPT ![p] = may]
    /\ UNCHANGED <<owner, proposers, inside, stranded>>

\* The folder is given to a family.
Propose(p) ==
    /\ owner = Nobody /\ inside[p] = Nobody /\ claims[p]
    /\ \E f \in FamilyNames : owner' = f
    /\ proposers' = {p}
    /\ UNCHANGED <<inside, stranded, claims>>

\* For good, with the proposer inside, or without it.
Settle(p) ==
    /\ p \in proposers /\ proposers' = {}
    /\ Let(p, owner)
    /\ UNCHANGED <<owner, stranded, claims>>

Confirm(p) ==
    /\ p \in proposers /\ proposers' = {}
    /\ UNCHANGED <<owner, inside, stranded, claims>>

Withdraw(p) ==
    /\ p \in proposers /\ proposers' = {}
    /\ owner' = Nobody
    /\ stranded' = stranded \cup {q \in Launchers : inside[q] # Nobody}
    /\ UNCHANGED <<inside, claims>>

Enter(p) ==
    /\ owner # Nobody /\ inside[p] = Nobody
    /\ Let(p, owner)
    /\ UNCHANGED <<owner, proposers, stranded, claims>>

Leave(p) ==
    /\ inside[p] # Nobody
    /\ Let(p, Nobody)
    /\ stranded' = stranded \ {p}
    /\ UNCHANGED <<owner, proposers, claims>>

Next ==
    \E p \in Launchers :
        \/ Arrive(p) \/ Propose(p) \/ Settle(p) \/ Confirm(p)
        \/ Withdraw(p) \/ Enter(p) \/ Leave(p)

Spec == Init /\ [][Next]_folderVars
=============================================================================
