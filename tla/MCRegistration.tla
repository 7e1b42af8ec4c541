--------------------------- MODULE MCRegistration ---------------------------
(* Registration with two copies and three places: its TLC runs' constants.  *)
EXTENDS Registration, TLC

CONSTANTS f1, f2, here, there, elsewhere

TwoFolders == {f1, f2}
ThreePlaces == {here, there, elsewhere}
Symmetry == Permutations(TwoFolders) \cup Permutations(ThreePlaces)
=============================================================================
