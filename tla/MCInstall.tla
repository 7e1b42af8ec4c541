----------------------------- MODULE MCInstall -----------------------------
(* Install on a small folder: the constants of its TLC runs.               *)
EXTENDS Install

CONSTANTS l1, l2, x64, arm64

MCLaunchers == {l1, l2}
MCVersions == 1..2
ThreeVersions == 1..3
MCTargets == {x64}
BothTargets == {x64, arm64}

\* Every launcher of the folder recovers before it decides.
CheckingModes == {"check", "headless"}

\* The user has turned update checks off, then on again.
ToggledModes == {"check", "unchecked"}
=============================================================================
