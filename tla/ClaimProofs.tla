---------------------------- MODULE ClaimProofs ----------------------------
(* What InstanceClaim promises for any launchers, identities, failures and  *)
(* deaths, the sync that fails after a complete write included.             *)
EXTENDS InstanceClaim, TLAPS

-----------------------------------------------------------------------------
(* The inductive invariant                                                  *)

\* The claimer's labels: from the creation of the marker to its end.
Claiming == {"write", "sync", "remove"}

\* Only launchers with a valid identity get past the first look.
Valid ==
    \A p \in Launchers :
        pc[p] \in Claiming \cup {"read", "create", "owner"} => identity[p] \in FamilyNames

\* Who has been let in is who the marker names, unless it was removed since.
Named == \A p \in Launchers : pc[p] = "owner" /\ p \notin deserted => marker = identity[p]

\* Only launchers in the folder have a marker to lose.
Lost == \A p \in deserted : pc[p] = "owner"

\* What the marker of a claim in progress can say, and that there is one claimer.
OneClaimer ==
    /\ \A p \in Launchers : pc[p] = "write" => marker = "torn"
    /\ \A p \in Launchers : pc[p] = "sync" => marker = identity[p]
    /\ \A p \in Launchers : pc[p] = "remove" => marker \in {"torn", identity[p]}
    /\ \A p, q \in Launchers : pc[p] \in Claiming /\ pc[q] \in Claiming => p = q

\* Only a launcher that may claim is on the way to claiming.
Entitled == \A p \in Launchers : pc[p] \in Claiming \cup {"create"} => claims[p]

IInv == ClaimTypeOK /\ Valid /\ Named /\ Lost /\ OneClaimer /\ Entitled

-----------------------------------------------------------------------------

LEMMA InvInit == ClaimInit => IInv
  BY InstanceClaimAssumption
  DEF ClaimInit, IInv, ClaimTypeOK, Labels, Claiming, Valid, Named, Lost, OneClaimer, Entitled

LEMMA TypeStep ==
    ASSUME IInv, NEW p \in Launchers, Start(p) \/ Step(p) \/ End(p)
    PROVE  ClaimTypeOK'
<1> USE InstanceClaimAssumption DEF IInv, ClaimTypeOK, Labels, Goto, Fault
<1>1. CASE Start(p)
  BY <1>1 DEF Start
<1>2. CASE Look(p) \/ Read(p)
  BY <1>2 DEF Look, Read
<1>3. CASE Create(p)
  BY <1>3 DEF Create
<1>4. CASE WriteAll(p) \/ Sync(p)
  BY <1>4 DEF WriteAll, Sync, Valid, Claiming
<1>5. CASE RemoveMarker(p)
  BY <1>5 DEF RemoveMarker
<1>6. CASE End(p)
  BY <1>6 DEF End
<1>7. QED
  BY <1>1, <1>2, <1>3, <1>4, <1>5, <1>6 DEF Step

\* The marker is replaced by its claimer only, and removed by it only; those
\* that relied on it are then deserted.
LEMMA InvStep == IInv /\ [ClaimNext]_claimVars => IInv'
<1> SUFFICES ASSUME IInv, [ClaimNext]_claimVars PROVE IInv'
  OBVIOUS
<1>1. CASE UNCHANGED claimVars
  BY <1>1 DEF claimVars, IInv, ClaimTypeOK, Valid, Named, Lost, OneClaimer, Entitled
<1>2. ASSUME NEW p \in Launchers, Start(p) \/ Step(p) \/ End(p) PROVE IInv'
  <2>0. ClaimTypeOK'
    BY <1>2, TypeStep
  <2> USE InstanceClaimAssumption
      DEF IInv, ClaimTypeOK, Labels, Claiming, Goto, Valid, Named, Lost, OneClaimer, Entitled
  <2>1. CASE Start(p)
    BY <2>0, <2>1 DEF Start
  <2>2. CASE Look(p)
    BY <2>0, <2>2 DEF Look
  <2>3. CASE Read(p)
    BY <2>0, <2>3 DEF Read
  <2>4. CASE Create(p)
    BY <2>0, <2>4 DEF Create
  <2>5. CASE WriteAll(p)
    BY <2>0, <2>5 DEF WriteAll
  <2>6. CASE Sync(p)
    BY <2>0, <2>6 DEF Sync
  <2>7. CASE RemoveMarker(p)
    BY <2>0, <2>7 DEF RemoveMarker
  <2>8. CASE End(p)
    BY <2>0, <2>8 DEF End
  <2>9. QED
    BY <1>2, <2>1, <2>2, <2>3, <2>4, <2>5, <2>6, <2>7, <2>8 DEF Step
<1>3. QED
  BY <1>1, <1>2 DEF ClaimNext

-----------------------------------------------------------------------------
(* The theorem                                                              *)

\* Launchers of two families meet in a folder only after a claimer removed its
\* own marker under one of them (instance::ensure).
THEOREM Ownership == ClaimSpec => []KeptApart
<1>1. IInv /\ [ClaimNext]_claimVars => IInv'
  BY InvStep
<1>2. IInv => KeptApart
  BY DEF IInv, Named, KeptApart
<1>3. QED
  BY InvInit, <1>1, <1>2, PTL DEF ClaimSpec

-----------------------------------------------------------------------------
(* The refinement                                                           *)

folder == <<Owner, Proposers, Inside, deserted, claims>>

LEMMA FolderInit == ClaimInit => Folder!Init
  BY InstanceClaimAssumption DEF ClaimInit, Folder!Init, Owner, Inside, Proposers

\* A launcher that is not let in or out leaves the abstract folder alone.
LEMMA Outside ==
    ASSUME IInv, NEW p \in Launchers, NEW label \in Labels \ {"owner"}, Goto(p, label),
           pc[p] # "owner", UNCHANGED identity
    PROVE  Inside' = Inside
  BY DEF IInv, ClaimTypeOK, Goto, Inside

\* A launcher that is let in works for its family from then on, the others
\* for what they did.
LEMMA LetIn ==
    ASSUME IInv, NEW p \in Launchers, Goto(p, "owner"), pc[p] # "owner", UNCHANGED identity
    PROVE  Folder!Let(p, identity[p]) /\ Inside[p] = "none"
  BY DEF IInv, ClaimTypeOK, Goto, Inside, Folder!Let

\* As long as the marker stays, so does whose folder it is.
LEMMA SameOwner == ASSUME UNCHANGED marker PROVE Owner' = Owner
  BY DEF Owner

\* As long as the marker stays, only the claimer's own steps end its proposal.
LEMMA SameProposers ==
    ASSUME IInv, NEW p \in Launchers, NEW label \in Labels, Goto(p, label), UNCHANGED marker,
           (pc[p] \in {"sync", "remove"} <=> label \in {"sync", "remove"})
    PROVE  Proposers' = Proposers
  BY DEF IInv, ClaimTypeOK, Goto, Proposers

\* A claimer that ends its proposal was the only one to have one.
LEMMA EndsProposal ==
    ASSUME IInv, NEW p \in Launchers, NEW label \in Labels \ {"sync", "remove"}, Goto(p, label),
           pc[p] \in {"sync", "remove"}
    PROVE  Proposers' = {} /\ (marker \in FamilyNames => p \in Proposers)
  BY DEF IInv, ClaimTypeOK, Goto, Proposers, OneClaimer, Claiming

LEMMA StartStep ==
    ASSUME IInv, NEW p \in Launchers, Start(p)
    PROVE  Folder!Arrive(p)
<1>1. Inside' = Inside /\ Inside[p] = "none"
  BY Outside DEF Start, Labels, Inside
<1>2. Owner' = Owner /\ Proposers' = Proposers
  BY SameOwner, SameProposers DEF Start, Labels
<1>3. QED
  BY <1>1, <1>2 DEF Start, Folder!Arrive

LEMMA WriteStep ==
    ASSUME IInv, NEW p \in Launchers, WriteAll(p)
    PROVE  Folder!Propose(p) \/ UNCHANGED folder
<1>1. /\ marker = "torn" /\ Owner = "none" /\ claims[p] /\ identity[p] \in FamilyNames
      /\ UNCHANGED <<identity, claims, deserted>> /\ pc[p] = "write"
  BY InstanceClaimAssumption DEF WriteAll, IInv, OneClaimer, Entitled, Valid, Claiming, Owner
<1>2. Inside' = Inside /\ Inside[p] = "none"
  BY <1>1, Outside DEF WriteAll, Labels, Inside
<1>3. CASE marker' = identity[p] /\ Goto(p, "sync")
  <2>1. Owner' = identity[p]
    BY <1>1, <1>3 DEF Owner
  <2>2. \A q \in Launchers : pc'[q] \in {"sync", "remove"} <=> q = p
    BY <1>1, <1>3 DEF Goto, IInv, ClaimTypeOK, OneClaimer, Claiming
  <2>3. Proposers' = {p}
    BY <1>1, <1>3, <2>2 DEF Proposers
  <2>4. QED
    BY <1>1, <1>2, <2>1, <2>3 DEF Folder!Propose
<1>4. CASE marker' = marker /\ Goto(p, "remove")
  <2>1. Owner' = Owner
    BY <1>4, SameOwner
  <2>2. Proposers' = Proposers
    BY <1>1, <1>4, InstanceClaimAssumption DEF Proposers
  <2>3. QED
    BY <1>1, <1>2, <2>1, <2>2 DEF folder
<1>5. QED
  BY <1>3, <1>4 DEF WriteAll

LEMMA SyncStep ==
    ASSUME IInv, NEW p \in Launchers, Sync(p)
    PROVE  Folder!Settle(p) \/ UNCHANGED folder
<1>1. /\ marker = identity[p] /\ marker \in FamilyNames /\ pc[p] = "sync"
      /\ UNCHANGED <<marker, identity, claims, deserted>>
  BY DEF Sync, IInv, OneClaimer, Valid, Claiming
<1>2. Owner = identity[p] /\ Owner' = Owner
  BY <1>1 DEF Owner
<1>3. CASE Goto(p, "owner")
  <2>1. Folder!Let(p, identity[p])
    BY <1>1, <1>3, LetIn
  <2>2. Proposers' = {} /\ p \in Proposers
    BY <1>1, <1>3, EndsProposal DEF Labels
  <2>3. QED
    BY <1>1, <1>2, <2>1, <2>2 DEF Folder!Settle
<1>4. CASE Goto(p, "remove")
  <2>1. Inside' = Inside
    BY <1>1, <1>4, Outside DEF Labels
  <2>2. Proposers' = Proposers
    BY <1>1, <1>4, SameProposers DEF Labels
  <2>3. QED
    BY <1>1, <1>2, <2>1, <2>2 DEF folder
<1>5. QED
  BY <1>3, <1>4 DEF Sync

LEMMA ReadStep ==
    ASSUME IInv, NEW p \in Launchers, Read(p)
    PROVE  Folder!Enter(p) \/ UNCHANGED folder
<1>1. /\ identity[p] \in FamilyNames /\ pc[p] = "read"
      /\ UNCHANGED <<marker, identity, claims, deserted>>
  BY DEF Read, IInv, Valid
<1>2. Owner' = Owner
  BY <1>1, SameOwner
<1>3. Proposers' = Proposers
  BY <1>1, SameProposers DEF Read, Labels
<1>4. CASE marker = identity[p]
  <2>1. Owner = identity[p] /\ Owner # "none"
    BY <1>1, <1>4, InstanceClaimAssumption DEF Owner
  <2>2. Folder!Let(p, identity[p]) /\ Inside[p] = "none"
    BY <1>1, <1>4, LetIn DEF Read
  <2>3. QED
    BY <1>1, <1>2, <1>3, <2>1, <2>2 DEF Folder!Enter
<1>5. CASE marker # identity[p]
  BY <1>1, <1>2, <1>3, <1>5, Outside DEF Read, Labels, folder
<1>6. QED
  BY <1>4, <1>5

\* A claimer that gives up takes its proposal back, if it can.
LEMMA RemoveStep ==
    ASSUME IInv, NEW p \in Launchers, RemoveMarker(p)
    PROVE  Folder!Withdraw(p) \/ Folder!Confirm(p) \/ UNCHANGED folder
<1>1. pc[p] = "remove" /\ Goto(p, "refused") /\ UNCHANGED <<identity, claims>>
  BY DEF RemoveMarker
<1>2. Inside' = Inside
  BY <1>1, Outside DEF Labels
<1>3. Proposers' = {} /\ (marker \in FamilyNames => p \in Proposers)
  BY <1>1, EndsProposal DEF Labels
<1>4. {q \in Launchers : pc[q] = "owner"} = {q \in Launchers : Inside[q] # "none"}
  BY InstanceClaimAssumption DEF Inside, IInv, Valid
<1>5. CASE marker \in FamilyNames
  <2>1. CASE marker' = "none" /\ deserted' = deserted \cup {q \in Launchers : pc[q] = "owner"}
    <3>1. Owner' = "none"
      BY <2>1, InstanceClaimAssumption DEF Owner
    <3>2. QED
      BY <1>1, <1>2, <1>3, <1>4, <1>5, <2>1, <3>1 DEF Folder!Withdraw
  <2>2. CASE UNCHANGED <<marker, deserted>>
    BY <1>1, <1>2, <1>3, <1>5, <2>2, SameOwner DEF Folder!Confirm
  <2>3. QED
    BY <2>1, <2>2 DEF RemoveMarker
<1>6. CASE marker \notin FamilyNames
  <2>1. marker = "torn" /\ Owner = "none" /\ Proposers = {}
    BY <1>1, <1>6 DEF IInv, OneClaimer, Valid, Claiming, Owner, Proposers
  <2>2. Owner' = "none"
    BY <2>1, InstanceClaimAssumption DEF RemoveMarker, Owner
  <2>3. \A q \in Launchers : pc[q] = "owner" => q \in deserted
    BY <1>6 DEF IInv, Named, Valid
  <2>4. deserted' = deserted
    BY <2>3 DEF RemoveMarker
  <2>5. QED
    BY <1>1, <1>2, <1>3, <2>1, <2>2, <2>4 DEF folder
<1>7. QED
  BY <1>5, <1>6

LEMMA EndStep ==
    ASSUME IInv, NEW p \in Launchers, End(p)
    PROVE  Folder!Leave(p) \/ Folder!Confirm(p) \/ UNCHANGED folder
<1>1. /\ Owner' = Owner /\ UNCHANGED <<marker, identity, claims>> /\ Goto(p, "off")
      /\ deserted' = deserted \ {p}
  BY SameOwner DEF End
<1>2. CASE pc[p] = "owner"
  <2>1. Inside[p] = identity[p] /\ identity[p] # "none"
    BY <1>2, InstanceClaimAssumption DEF IInv, Valid, Inside
  <2>2. Folder!Let(p, "none")
    BY <1>1, <1>2 DEF IInv, ClaimTypeOK, Goto, Inside, Folder!Let
  <2>3. Proposers' = Proposers
    BY <1>1, <1>2, SameProposers DEF Labels
  <2>4. QED
    BY <1>1, <2>1, <2>2, <2>3 DEF Folder!Leave
<1>3. CASE pc[p] # "owner"
  <2>1. Inside' = Inside
    BY <1>1, <1>3, Outside DEF Labels
  <2>2. deserted' = deserted
    BY <1>1, <1>3 DEF IInv, Lost
  <2>3. CASE p \in Proposers
    <3>1. Proposers' = {}
      BY <1>1, <2>3, EndsProposal DEF Labels, Proposers
    <3>2. QED
      BY <1>1, <2>1, <2>2, <2>3, <3>1 DEF Folder!Confirm
  <2>4. CASE p \notin Proposers
    <3>1. Proposers' = Proposers
      BY <1>1, <2>4 DEF IInv, ClaimTypeOK, Goto, Proposers
    <3>2. QED
      BY <1>1, <2>1, <2>2, <3>1 DEF folder
  <2>5. QED
    BY <2>3, <2>4
<1>4. QED
  BY <1>2, <1>3

\* Looking and creating are invisible in the abstract folder: neither meets
\* or leaves a marker that it makes name a family.
LEMMA InvisibleStep ==
    ASSUME IInv, NEW p \in Launchers, Look(p) \/ Create(p)
    PROVE  UNCHANGED folder
<1>1. UNCHANGED <<identity, claims, deserted>> /\ pc[p] \in {"look", "create"}
  BY DEF Look, Create
<1>2. PICK label \in Labels \ {"owner", "sync", "remove"} : Goto(p, label)
  BY DEF Look, Create, Labels
<1>3. Inside' = Inside
  BY <1>1, <1>2, Outside
<1>4. Owner' = Owner /\ Proposers' = Proposers
  <2>1. CASE UNCHANGED marker
    BY <1>1, <1>2, <2>1, SameOwner, SameProposers
  <2>2. CASE marker = "none" /\ marker' = "torn"
    BY <2>2, InstanceClaimAssumption DEF Owner, Proposers
  <2>3. QED
    BY <2>1, <2>2 DEF Look, Create
<1>5. QED
  BY <1>1, <1>3, <1>4 DEF folder

LEMMA FolderStep == IInv /\ [ClaimNext]_claimVars => [Folder!Next]_folder
<1> SUFFICES ASSUME IInv, [ClaimNext]_claimVars PROVE [Folder!Next]_folder
  OBVIOUS
<1>1. CASE UNCHANGED claimVars
  BY <1>1 DEF claimVars, folder, Owner, Inside, Proposers
<1>2. ASSUME NEW p \in Launchers, Start(p) \/ Step(p) \/ End(p)
      PROVE  [Folder!Next]_folder
  <2>1. CASE Start(p)
    BY <2>1, StartStep DEF Folder!Next
  <2>2. CASE WriteAll(p) \/ Sync(p)
    BY <2>2, WriteStep, SyncStep DEF Folder!Next
  <2>3. CASE Read(p)
    BY <2>3, ReadStep DEF Folder!Next
  <2>4. CASE RemoveMarker(p) \/ End(p)
    BY <2>4, RemoveStep, EndStep DEF Folder!Next
  <2>5. CASE Look(p) \/ Create(p)
    BY <2>5, InvisibleStep
  <2>6. QED
    BY <1>2, <2>1, <2>2, <2>3, <2>4, <2>5 DEF Step
<1>3. QED
  BY <1>1, <1>2 DEF ClaimNext

\* Through any races, failures and deaths the folder behaves as one that is
\* given to a family in one step, by a launcher that may claim it, and that
\* only this launcher may take back, and only until it has settled or ended.
THEOREM Owning == ClaimSpec => ImplementsOwner
<1>1. IInv /\ [ClaimNext]_claimVars => IInv'
  BY InvStep
<1>2. IInv /\ [ClaimNext]_claimVars => [Folder!Next]_folder
  BY FolderStep
<1>3. QED
  BY InvInit, FolderInit, <1>1, <1>2, PTL DEF ClaimSpec, ImplementsOwner, Folder!Spec, Folder!folderVars, folder
=============================================================================
