---------------------------- MODULE MCSocialGraph ----------------------------
(* Members 1 and 2 about member 3, and member 3 about member 1. *)
EXTENDS SocialGraph, TLC

AboutThree == {<<1, 3>>, <<2, 3>>, <<3, 1>>}

RequestSymmetry == Permutations(Requests)
=============================================================================
