------------------------------ MODULE MCUpkeep ------------------------------
(* Upkeep on a small folder: the constants of its TLC run.                 *)
EXTENDS Upkeep

MCTargets == {"x64", "arm64"}
=============================================================================
