------------------------------- MODULE Screens -------------------------------
(* How the screens of a client are written down: a part of a screen shows     *)
(* some views and offers some writes, and is mounted with its route, or in a  *)
(* dialog of it.                                                              *)

\* useMutation behind a button: what it needs to be drawn, and the mutations
\* of the same component whose isPending keeps it off.
ButtonOn(does, needs, unless) == [does |-> does, needs |-> needs, unless |-> unless]
Button(does, unless) == ButtonOn(does, {}, unless)
Single(does) == Button(does, {does})
Buttons(writes, unless) == {Button(w, unless) : w \in writes}

\* Buttons drawn from one view, each off while any of its kind is pending.
Rows(writes, view, unless) == {ButtonOn(w, {view}, unless) : w \in writes}

\* useQuery in a component; "reload" is what its error state asks for again,
\* "pull" what can be asked for at any time; "holds": a dialog that cannot be
\* closed while a write of its own is pending.
Part(at, opens, shows, offers, reload, pull) ==
    [at |-> at, opens |-> opens, shows |-> shows, offers |-> offers,
     reload |-> reload, pull |-> pull, holds |-> FALSE]
Page(at, shows, offers, reload) == Part(at, "always", shows, offers, reload, {})
Dialog(at, opens, shows, offers, reload) == Part(at, opens, shows, offers, reload, {})
Held(at, opens, shows, offers, reload) == [Dialog(at, opens, shows, offers, reload) EXCEPT !.holds = TRUE]
PullPage(at, shows, offers) == Part(at, "always", shows, offers, shows, shows)
=============================================================================
