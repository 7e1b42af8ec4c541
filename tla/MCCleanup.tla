----------------------------- MODULE MCCleanup -----------------------------
(* Cleanup on a small folder: the constants of its TLC runs.               *)
EXTENDS Cleanup

CONSTANTS l1, h1, h2

OneLauncher == {l1}
TwoHosts == {h1, h2}
OneHost == {h1}
AlwaysOn == {TRUE}
Toggled == BOOLEAN
=============================================================================
