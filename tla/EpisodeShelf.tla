----------------------------- MODULE EpisodeShelf -----------------------------
(***************************************************************************)
(* What a member is promised about the episodes of a show, whatever runs   *)
(* at the same time: an episode is either planned, watched or neither;     *)
(* planning one needs it unwatched, watching takes it off the plan at the  *)
(* same instant, and taking the viewing back does not plan it again.       *)
(***************************************************************************)
CONSTANT Episodes

VARIABLES planned, watched

shelf == <<planned, watched>>

Init == planned = {} /\ watched = {}

Plan(e) ==
    /\ e \notin watched
    /\ planned' = planned \cup {e}
    /\ UNCHANGED watched

Unplan(e) ==
    /\ planned' = planned \ {e}
    /\ UNCHANGED watched

\* One request may record many episodes: a season, a completion, an import.
Watch(S) ==
    /\ watched' = watched \cup S
    /\ planned' = planned \ S

Unwatch(e) ==
    /\ watched' = watched \ {e}
    /\ UNCHANGED planned

Next ==
    \/ \E e \in Episodes : Plan(e) \/ Unplan(e) \/ Unwatch(e)
    \/ \E S \in SUBSET Episodes : Watch(S)

Spec == Init /\ [][Next]_shelf
=============================================================================
