----------------------------- MODULE MCParts --------------------------------
(***************************************************************************)
(* The launcher's smaller parts.  Algorithms: a step draws one input        *)
(* (module MCSamples).  Machines, and the claim of a folder by launchers:   *)
(* the first step chooses one, and the others stay as they are.             *)
(***************************************************************************)
EXTENDS Machines, MCSamples, InstanceClaim

TwoReports == {"r1", "r2"}
OneAttachment == {"dump"}
OneLink == {"l1"}
OneThumb == {"t1"}
TwoKeys == {"k1", "k2"}
ExeAndDll == <<"exe", "dll">>
OnePak == <<"pak">>
ThreeLaunchers == {"l1", "l2", "l3"}
TwoFamilies == {"chromium", "helium"}
ThreeIds == TwoFamilies \cup {"unnamed"}

Init == sample = NoSample /\ MachinesInit /\ ClaimInit

\* One of the initial states of the others is enough for each.
OneProfile == family = "gecko" /\ settings = [enabled |-> TRUE, extra |-> <<>>]
OneClaim == \A p \in Launchers : identity[p] = "chromium"
Canonical == OneProfile /\ OneClaim

Kinds == {"profile", "file", "host", "watch", "unpack", "branding", "claim"}
Choose ==
    \E kind \in Kinds :
        /\ kind # "profile" => OneProfile
        /\ kind # "claim" => OneClaim
        /\ sample' = [kind |-> kind]

Machine ==
    \/ Of("profile") /\ ProfileStep
    \/ Of("file") /\ FileStep
    \/ Of("host") /\ HostStep
    \/ Of("watch") /\ WatchStep
    \/ Of("unpack") /\ UnpackStep
    \/ Of("branding") /\ BrandingStep

Next ==
    \/ sample = NoSample /\ Canonical /\ Draw /\ UNCHANGED <<machines, claimVars>>
    \/ sample = NoSample /\ Choose /\ UNCHANGED <<machines, claimVars>>
    \/ Machine /\ UNCHANGED <<sample, claimVars>>
    \/ Of("claim") /\ ClaimNext /\ UNCHANGED <<sample, machines>>

vars == <<sample, machines, claimVars>>
Spec == Init /\ [][Next]_vars

-----------------------------------------------------------------------------
(* The properties of the algorithms, each stated in MCSamples.  Those of    *)
(* the machines are in Machines, those of the claim in InstanceClaim.       *)

\* From a release to a branded bundle.  The package is the chosen one, signed
\* where its family has a key, from a reply within its limits and without
\* requests in the clear, not an older version by any chain of updates, and
\* extracted inside a stage of one build; of its files only logos and the
\* reserved icons change; a link opens without a reminder only when all of it
\* is current.
ReleasesTrusted ==
    /\ TrustedIsChosen
    /\ SignedByKey
    /\ RevokedRefused
    /\ NoDowngradeThrough
    /\ QuietLinksAreCurrent
    /\ RepliesBounded
    /\ RedirectsFollowed
    /\ ExtractedInside
    /\ StageIsOneBuild
    /\ OnlyLogosChange
    /\ IconsReadBack

\* What users and other programs write.  Command lines: a link is never an
\* operation of the launcher or a switch of the browser, and every switch that
\* is asked for is in effect.  Settings: a merge keeps what the user has set,
\* holds what is locked, and an earlier launch leaves no difference; the
\* configuration names a folder of its own and means the same when a death cut
\* it short.  Registry and shortcuts: only the browser's own commands are
\* taken, and open what they did before; a shortcut is ours only if all that
\* it states is one file of ours.
InputsMean ==
    /\ LinkOpensOneTarget
    /\ WatcherUnderstood
    /\ FeaturesAddUp
    /\ UserSwitchWins
    /\ UserLinesKept
    /\ LockedHold
    /\ UserSettingsKept
    /\ OneOptionPerFlag
    /\ SettingsConverge
    /\ FolderIsAChild
    /\ TornDefaultsAgree
    /\ OnlyOwnCommands
    /\ RoutedAsBefore
    /\ LinkNamesOneFile
=============================================================================
