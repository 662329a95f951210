---------------------------- MODULE MCEncryption ----------------------------
(* Two people, a browser they share and a phone. *)
EXTENDS Encryption, TLC

CONSTANTS web, phone

\* The browser changes hands once; the phone has one owner.
SessionsOfEach == (web :> 2) @@ (phone :> 1)
Symmetric == Permutations(Accounts)
=============================================================================
