---------------------------- MODULE MCWebSession ----------------------------
(* Two tabs of one browser, which one person uses. *)
EXTENDS WebSession
=============================================================================
