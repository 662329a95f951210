---------------------------- MODULE MCWatchState ----------------------------
(* Small instances of WatchState for TLC. *)
EXTENDS WatchState, TLC

\* All episodes out before the first day.
AiredLongAgo == [e \in Episodes |-> 0]

\* A special that comes out on day 2.
SpecialLater == [e \in Episodes |-> IF e \in Specials THEN 1 ELSE 0]

RequestSymmetry == Permutations(Requests)
=============================================================================
