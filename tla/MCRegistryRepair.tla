-------------------------- MODULE MCRegistryRepair --------------------------
(* RegistryRepair on few keys: the constants of its TLC runs.              *)
EXTENDS RegistryRepair

CONSTANTS w1, w2, h1, h2, a1, a2, k1, k2, f1, f2

TwoWorkers == {w1, w2}
OneHost == {h1}
TwoHosts == {h1, h2}
OnePlace == {a1}
TwoPlaces == {a1, a2}
OneKey == {k1}
TwoKeys == {k1, k2}
OneForm == {f1}
TwoForms == {f1, f2}
=============================================================================
