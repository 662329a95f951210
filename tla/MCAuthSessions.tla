---------------------------- MODULE MCAuthSessions ----------------------------
(* Small instances of AuthSessions for TLC. *)
EXTENDS AuthSessions, TLC

RequestSymmetry == Permutations(Requests)
===============================================================================
