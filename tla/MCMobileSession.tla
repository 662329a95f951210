--------------------------- MODULE MCMobileSession ---------------------------
(* One phone that changes hands: whatever runs on it is interchangeable, the  *)
(* people and what they asked are not.                                        *)
EXTENDS MobileSession, TLC

JobSymmetry == Permutations(Jobs)
=============================================================================
