----------------------------- MODULE WebSession -----------------------------
(***************************************************************************)
(* The session of one browser: the refresh cookie and the logout marker    *)
(* that all its tabs share, and what each tab keeps for itself, its store, *)
(* its refresh in flight and its requests (lib/api.ts, store/auth.ts,      *)
(* hooks/useAuth.ts, App.tsx).  Refreshes take turns under a lock of the   *)
(* browser, where it has Web Locks; everything else the tabs do crosses    *)
(* freely on the network.                                                  *)
(*                                                                         *)
(* An access token is named by the refresh token it was handed out with.   *)
(***************************************************************************)
EXTENDS Naturals, Sequences, FiniteSets

CONSTANTS
  Tabs, Accounts,
  WebLocks,      \* the browser has navigator.locks
  MaxTokens,     \* bound: refresh tokens issued
  MaxLoads,      \* bound: pages loaded
  MaxLost,       \* bound: answers lost, tabs closed on one counting too
  MaxRequests    \* bound: requests made

ASSUME BoundsAssumption == {MaxTokens, MaxLoads, MaxLost, MaxRequests} \subseteq Nat
ASSUME TabsAssumption == IsFiniteSet(Tabs)
ASSUME LocksAssumption == WebLocks \in BOOLEAN

None == "none"
Tokens == 1..MaxTokens

VARIABLES
  cookie,      \* the refresh cookie of the browser, 0 without one
  marker,      \* cinetrack-logout-pending in its localStorage
  before,      \* the tabs each one that wants the rotation lock comes after
  tab,         \* the store of each tab
  main,        \* what a tab is at: hydrating, signing in, signing out
  refresh,     \* refreshPromise of each tab
  req,         \* a request of each tab, through the response interceptor
  issued,      \* refresh_tokens: owner and family, in order
  spent, ended, deleted,   \* consumed tokens, revoked families, deleted rows
  loads, lost, made,       \* the bounds' counters
  alarm        \* reuse detection has ended every session of an account

browser == <<cookie, marker, before>>
server  == <<issued, spent, ended, deleted, alarm>>
counts  == <<loads, lost, made>>
vars    == <<browser, tab, main, refresh, req, server, counts>>

Closed    == [up |-> FALSE, status |-> "loading", access |-> 0, rejected |-> FALSE,
              barred |-> FALSE]
NoMain    == [op |-> None, at |-> "idle", who |-> None, tok |-> 0, new |-> 0]
NoRefresh == [at |-> "idle", live |-> TRUE, tok |-> 0, sent |-> 0, new |-> 0]
NoReq     == [at |-> "idle", access |-> 0, retried |-> FALSE]

Init ==
  /\ cookie = 0 /\ marker = FALSE /\ before = [t \in Tabs |-> {}]
  /\ tab = [t \in Tabs |-> Closed] /\ main = [t \in Tabs |-> NoMain]
  /\ refresh = [t \in Tabs |-> NoRefresh] /\ req = [t \in Tabs |-> NoReq]
  /\ issued = <<>> /\ spent = {} /\ ended = {} /\ deleted = {}
  /\ loads = 0 /\ lost = 0 /\ made = 0 /\ alarm = FALSE

(***************************************************************************)
(* The server.                                                             *)
(***************************************************************************)
Held == DOMAIN issued
Owner(n) == issued[n].user
Family(n) == issued[n].family
Good(n) == n \in Held \ deleted /\ Family(n) \notin ended
Mint(u, f) == issued' = Append(issued, [user |-> u, family |-> f])
\* The bound on tokens stops whoever would ask for one, never the answer.
Room == Len(issued) + Cardinality({t \in Tabs : refresh[t].at \in {"waiting", "sent"}})
          + Cardinality({t \in Tabs : main[t].op = "login" /\ main[t].at = "sent"})
        < MaxTokens
EndFamily(n) == ended' = IF n \in Held \ deleted THEN ended \cup {Family(n)} ELSE ended

\* refresh: a fresh pair for a good token, and for a spent one inside the grace
\* window; one that is replayed later ends every session of its owner.
Rotate(t, n) ==
  /\ Good(n) /\ Mint(Owner(n), Family(n)) /\ spent' = spent \cup {n}
  /\ refresh' = [refresh EXCEPT ![t].at = "served", ![t].sent = 0,
                                 ![t].new = Len(issued) + 1]
  /\ UNCHANGED <<ended, deleted, alarm>>
Refuse(t) == refresh' = [refresh EXCEPT ![t].at = "served", ![t].sent = 0]
Alarm(t, n) ==
  /\ n \in spent \ deleted /\ alarm' = TRUE
  /\ deleted' = deleted \cup {m \in Held : Owner(m) = Owner(n)}
  /\ Refuse(t) /\ UNCHANGED <<issued, spent, ended>>

ServeRefresh(t) ==
  /\ refresh[t].at = "sent"
  /\ LET n == refresh[t].sent
     IN  \/ Rotate(t, n)
         \/ Alarm(t, n)
         \/ ~Good(n) /\ n \notin spent \ deleted /\ Refuse(t)
            /\ UNCHANGED <<issued, spent, ended, deleted, alarm>>
  /\ UNCHANGED <<browser, tab, main, req, counts>>

\* login and logout; the cookie that came along decides what a logout ends.
ServeMain(t) ==
  /\ main[t].at = "sent"
  /\ IF main[t].op = "login"
       THEN /\ Mint(main[t].who, Len(issued) + 1)
            /\ main' = [main EXCEPT ![t].at = "served", ![t].new = Len(issued) + 1]
            /\ UNCHANGED ended
       ELSE /\ EndFamily(main[t].tok)
            /\ main' = [main EXCEPT ![t].at = "served", ![t].tok = 0]
            /\ UNCHANGED issued
  /\ UNCHANGED <<browser, tab, refresh, req, spent, deleted, alarm, counts>>

\* The session is ended from another device.
EndElsewhere ==
  /\ \E n \in Held : Good(n) /\ ended' = ended \cup {Family(n)}
  /\ UNCHANGED <<browser, tab, main, refresh, req, issued, spent, deleted, alarm,
                 counts>>

(***************************************************************************)
(* The store, and the refresh that one tab has in flight.                  *)
(***************************************************************************)
\* logout(): the circuit stays as it is, and a refresh in flight is fenced off.
SignedOut(t) == [tab[t] EXCEPT !.status = "anonymous", !.access = 0]
\* setAuth: a new generation, unless it is the same session going on.
SameSession(t, n) == /\ tab[t].status = "authenticated"
                     /\ Owner(tab[t].access) = issued[n].user
SignedInWith(t, n) == [tab[t] EXCEPT !.status = "authenticated", !.access = n,
                                     !.rejected = FALSE]
Fence(t) == refresh' = [refresh EXCEPT ![t].live = @ /\ refresh[t].at = "idle"]

\* The lock is the browser's: first come, first served, and a tab that is gone
\* gives it up.
Queue(t) == before' = [before EXCEPT ![t] = {u \in Tabs : refresh[u].at # "idle"}]
Locked(t) == before[t] = {}
Release_Alive(t) ==
  before' = IF tab[t].up /\ ~tab'[t].up THEN [before EXCEPT ![t] = {}]
            ELSE [u \in Tabs |-> IF u = t THEN {} ELSE before[u] \ {t}]
Release(t) == before' = [u \in Tabs |-> IF u = t THEN {} ELSE before[u] \ {t}]

\* refreshAccessToken, joined by whoever comes while one is in flight.
Join(t) ==
  IF refresh[t].at = "idle"
    THEN /\ refresh' = [refresh EXCEPT ![t] = [NoRefresh EXCEPT !.at = "waiting",
                                                                !.tok = tab[t].access]]
         /\ Queue(t)
    ELSE UNCHANGED <<refresh, before>>

\* The refresh is over.  A refusal closes the circuit, and the hydration or the
\* request that awaited it ends the session, whichever session that is by now; the
\* event stream does not.  An outcome that was superseded belongs to nobody.
Settle(t, outcome, n) ==
  /\ refresh' = [refresh EXCEPT ![t] = NoRefresh]
  /\ LET booting == main[t].op = "boot"
         awaited == booting \/ req[t].at = "waiting"
     IN  /\ tab' = [tab EXCEPT ![t] =
              CASE outcome = "ok" /\ refresh[t].at = "served" -> SignedInWith(t, n)
                [] outcome = "rejected" ->
                     [(IF awaited THEN SignedOut(t) ELSE @) EXCEPT !.rejected = TRUE]
                [] outcome = "failed" /\ booting -> [@ EXCEPT !.status = "anonymous"]
                [] OTHER -> @]
         /\ main' = IF booting THEN [main EXCEPT ![t] = NoMain] ELSE main
         /\ req' = IF req[t].at # "waiting" THEN req
                   ELSE IF outcome = "ok"
                     THEN [req EXCEPT ![t].at = "sent", ![t].access = n, ![t].retried = TRUE]
                     ELSE [req EXCEPT ![t] = NoReq]
  /\ Release(t)

\* Inside the lock, or at once in a browser without Web Locks, whose tabs do not
\* wait for one another: a session that has changed meanwhile asks nothing, a token
\* that has is the answer (the store is the tab's own, and no step of it gets
\* there), and otherwise the cookie of now goes out.
TakeLock_NoLock(t) ==
  /\ refresh[t].at = "waiting"
  /\ refresh' = [refresh EXCEPT ![t].at = "sent", ![t].sent = cookie, ![t].tok = 0]
  /\ UNCHANGED <<browser, tab, main, req, server, counts>>
TakeLock(t) ==
  /\ refresh[t].at = "waiting" /\ (WebLocks => Locked(t))
  /\ \/ ~refresh[t].live /\ Settle(t, "superseded", 0)
     \/ /\ refresh[t].live /\ tab[t].access \notin {0, refresh[t].tok}
        /\ Settle(t, "ok", tab[t].access)
     \/ /\ refresh[t].live /\ tab[t].access \in {0, refresh[t].tok}
        /\ refresh' = [refresh EXCEPT ![t].at = "sent", ![t].sent = cookie, ![t].tok = 0]
        /\ UNCHANGED <<before, tab, main, req>>
  /\ UNCHANGED <<cookie, marker, server, counts>>

\* The browser keeps the cookie of any answer; the tab keeps the rest of it only
\* if it is still in the session that asked.
Outcome_Unfenced(t) == IF refresh[t].new = 0 THEN "rejected" ELSE "ok"
Outcome(t) == CASE refresh[t].new = 0 -> "rejected"
                [] refresh[t].new # 0 /\ ~refresh[t].live -> "superseded"
                [] OTHER -> "ok"
ReceiveRefresh(t) ==
  /\ refresh[t].at = "served"
  /\ cookie' = IF refresh[t].new = 0 THEN cookie ELSE refresh[t].new
  /\ Settle(t, Outcome(t), refresh[t].new)
  /\ UNCHANGED <<marker, server, counts>>

Losing == lost < MaxLost /\ lost' = lost + 1

LoseRefresh(t) ==
  /\ refresh[t].at \in {"sent", "served"} /\ Losing
  /\ Settle(t, "failed", 0)
  /\ UNCHANGED <<cookie, marker, server, loads, made>>

(***************************************************************************)
(* Loading a page, signing in and out.                                     *)
(***************************************************************************)
\* bootstrapSession: a logout that the server never heard about comes first.
Pending_Forgotten == FALSE
Pending == marker
Load(t) ==
  /\ ~tab[t].up /\ (Pending \/ Room) /\ loads < MaxLoads /\ loads' = loads + 1
  /\ tab' = [tab EXCEPT ![t] = [Closed EXCEPT !.up = TRUE, !.barred = marker]]
  /\ IF Pending
       THEN /\ main' = [main EXCEPT ![t] = [NoMain EXCEPT !.op = "finish", !.at = "sent",
                                                          !.tok = cookie]]
            /\ UNCHANGED <<refresh, before>>
       ELSE main' = [main EXCEPT ![t] = [NoMain EXCEPT !.op = "boot"]] /\ Join(t)
  /\ UNCHANGED <<cookie, marker, req, server, lost, made>>

\* The tab is closed, or left for another load, with all that it waited for.
Close(t) ==
  /\ tab[t].up
  /\ IF refresh[t].at \in {"sent", "served"} \/ main[t].at # "idle" THEN Losing
                                                                  ELSE UNCHANGED lost
  /\ tab' = [tab EXCEPT ![t] = Closed] /\ main' = [main EXCEPT ![t] = NoMain]
  /\ refresh' = [refresh EXCEPT ![t] = NoRefresh] /\ req' = [req EXCEPT ![t] = NoReq]
  /\ Release(t)
  /\ UNCHANGED <<cookie, marker, server, loads, made>>

Login(t, a) ==
  /\ tab[t].up /\ tab[t].status = "anonymous" /\ main[t] = NoMain
  /\ Room
  /\ main' = [main EXCEPT ![t] = [NoMain EXCEPT !.op = "login", !.at = "sent", !.who = a]]
  /\ UNCHANGED <<browser, tab, refresh, req, server, counts>>

\* endSession: the intent is on disk before the request goes out.
Logout(t) ==
  /\ tab[t].status = "authenticated" /\ main[t] = NoMain
  /\ marker' = TRUE
  /\ main' = [main EXCEPT ![t] = [NoMain EXCEPT !.op = "logout", !.at = "sent",
                                                !.tok = cookie]]
  /\ UNCHANGED <<cookie, before, tab, refresh, req, server, counts>>

\* The answer, with the cookie it sets or clears.
ReceiveMain(t) ==
  /\ main[t].at = "served"
  /\ marker' = FALSE
  /\ LET n == main[t].new
     IN  /\ cookie' = n
         /\ IF main[t].op = "login"
              THEN /\ tab' = [tab EXCEPT ![t] = [SignedInWith(t, n) EXCEPT !.barred = FALSE]]
                   /\ IF SameSession(t, n) THEN UNCHANGED refresh ELSE Fence(t)
              ELSE tab' = [tab EXCEPT ![t] = SignedOut(t)] /\ Fence(t)
  /\ main' = [main EXCEPT ![t] = NoMain]
  /\ UNCHANGED <<before, req, server, counts>>

\* Without an answer a login fails, and a logout ends the session here.
LoseMain(t) ==
  /\ main[t].at \in {"sent", "served"} /\ Losing
  /\ IF main[t].op = "login" THEN UNCHANGED <<tab, refresh>>
     ELSE tab' = [tab EXCEPT ![t] = SignedOut(t)] /\ Fence(t)
  /\ main' = [main EXCEPT ![t] = NoMain]
  /\ UNCHANGED <<browser, req, server, loads, made>>

(***************************************************************************)
(* A write, and what the response interceptor does when it is refused.     *)
(***************************************************************************)
Request(t) ==
  /\ tab[t].status = "authenticated" /\ req[t].at = "idle"
  /\ made < MaxRequests /\ made' = made + 1
  /\ req' = [req EXCEPT ![t] = [NoReq EXCEPT !.at = "sent", !.access = tab[t].access]]
  /\ UNCHANGED <<browser, tab, main, refresh, server, loads, lost>>

\* The access token of an ended session is refused; any may be past its fifteen
\* minutes.
ServeRequest(t) ==
  /\ req[t].at = "sent"
  /\ \/ Good(req[t].access) /\ req' = [req EXCEPT ![t] = NoReq]
     \/ req' = [req EXCEPT ![t].at = "refused"]
  /\ UNCHANGED <<browser, tab, main, refresh, server, counts>>

\* It gives up where a refresh cannot help, and is otherwise sent again with the
\* token the refresh brings.
Refused(t) ==
  /\ req[t].at = "refused" /\ (Room \/ refresh[t].at # "idle")
  /\ IF req[t].retried \/ tab[t].rejected \/ tab[t].status = "anonymous"
       THEN req' = [req EXCEPT ![t] = NoReq] /\ UNCHANGED <<refresh, before>>
       ELSE req' = [req EXCEPT ![t].at = "waiting"] /\ Join(t)
  /\ UNCHANGED <<cookie, marker, tab, main, server, counts>>

\* The event stream was answered 401, and asks for a refresh of its own.
StreamRefused(t) ==
  /\ tab[t].status = "authenticated" /\ ~tab[t].rejected
  /\ refresh[t].at = "idle" /\ Room /\ Join(t)
  /\ UNCHANGED <<cookie, marker, tab, main, req, server, counts>>

-----------------------------------------------------------------------------
TabStep(t) ==
  \/ Load(t) \/ Close(t) \/ (\E a \in Accounts : Login(t, a)) \/ Logout(t) \/ Request(t)
  \/ TakeLock(t) \/ ReceiveRefresh(t) \/ LoseRefresh(t)
  \/ ReceiveMain(t) \/ LoseMain(t) \/ Refused(t) \/ StreamRefused(t)

ServerStep(t) == ServeRefresh(t) \/ ServeMain(t) \/ ServeRequest(t)

Next == \/ \E t \in Tabs : TabStep(t) \/ ServerStep(t)
        \/ EndElsewhere

\* The server answers, the network delivers or gives up within its timeout, and
\* the browser hands the lock on; nobody has to click.
Fairness == \A t \in Tabs : /\ WF_vars(TakeLock(t)) /\ WF_vars(ServeRefresh(t))
                            /\ WF_vars(ReceiveRefresh(t)) /\ WF_vars(ServeMain(t))
                            /\ WF_vars(ReceiveMain(t))

Spec == Init /\ [][Next]_vars /\ Fairness

-----------------------------------------------------------------------------
Named == {0} \cup Held     \* the tokens there are, and none
TabSet(N) == [up : BOOLEAN, status : {"loading", "authenticated", "anonymous"},
              access : N, rejected : BOOLEAN, barred : BOOLEAN]
MainSet(N) == [op : {None, "boot", "finish", "login", "logout"},
               at : {"idle", "sent", "served"}, who : Accounts \cup {None}, tok : N, new : N]
RefreshSet(N) == [at : {"idle", "waiting", "sent", "served"}, live : BOOLEAN,
                  tok : N, sent : N, new : N]
ReqSet(N) == [at : {"idle", "sent", "refused", "waiting"}, access : N, retried : BOOLEAN]

(* Every variable keeps its type: whatever names a token names one that was
   issued, and a tab shows somebody exactly while it has an access token. *)
TypeOK ==
  /\ issued \in Seq([user : Accounts, family : Nat]) /\ ended \subseteq Nat
  /\ spent \subseteq Held /\ deleted \subseteq Held /\ alarm \in BOOLEAN
  /\ loads \in Nat /\ lost \in Nat /\ made \in Nat
  /\ cookie \in Named /\ marker \in BOOLEAN /\ before \in [Tabs -> SUBSET Tabs]
  /\ tab \in [Tabs -> TabSet(Named)] /\ main \in [Tabs -> MainSet(Named)]
  /\ refresh \in [Tabs -> RefreshSet(Named)] /\ req \in [Tabs -> ReqSet(Named)]
  /\ \A t \in Tabs : tab[t].status = "authenticated" <=> tab[t].access # 0

(* A tab that has been signed out is signed in again by a sign-in of its own and
   by nothing else: a refresh that was in flight comes back to a session that is
   over (the generation of store/auth.ts). *)
SignedOutStaysOut ==
  [][\A t \in Tabs : /\ tab[t].status = "anonymous" /\ tab'[t].status = "authenticated"
                     => main[t].op = "login"]_vars

(* A page that loads while a logout has yet to reach the server shows nobody,
   however many tabs there are and whatever becomes of its own attempt to finish
   that logout, until somebody signs in on it (bootstrapSession). *)
PendingLogoutResumesNothing ==
  \A t \in Tabs : tab[t].barred => tab[t].status # "authenticated"

(* Tabs that hydrate and refresh together do not look like a thief: the server
   takes a token for stolen only after an answer was lost (withRotationLock).
   So it is where the browser has Web Locks; without them two tabs may send the
   same cookie. *)
AlarmNeedsALoss == alarm => lost > 0

(* A page that is loading stops loading: nobody waits for ever for a lock, nor
   for a tab that was closed while it held it. *)
LoadingEnds == \A t \in Tabs : (tab[t].up /\ tab[t].status = "loading")
                                 ~> (~tab[t].up \/ tab[t].status # "loading")
=============================================================================
