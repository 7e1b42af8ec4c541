-------------------------- MODULE MCInstanceClaim ---------------------------
(* InstanceClaim for three launchers of two families.                      *)
EXTENDS InstanceClaim, TLC

CONSTANTS l1, l2, l3, chromium, helium, unnamed

ThreeLaunchers == {l1, l2, l3}
TwoFamilies == {chromium, helium}
ThreeIds == {chromium, helium, unnamed}
=============================================================================
