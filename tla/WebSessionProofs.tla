-------------------------- MODULE WebSessionProofs --------------------------
(***************************************************************************)
(* Proofs about WebSession, for any number of tabs and any bounds.  A step *)
(* of the session is a step of one tab: Alone(t) says that the others keep *)
(* what is theirs, so that what holds of each tab by itself (TabInv) need  *)
(* be shown of that tab only.  The lock is taken by one tab at a time      *)
(* (LockInv), whence no token goes out twice unless an answer was lost     *)
(* (Unspent).  Who waits for it is behind others in one order (Line), so   *)
(* that somebody is first; a page that loads has what ends that under way  *)
(* (AllDriven).                                                            *)
(***************************************************************************)
EXTENDS WebSession, FiniteSetTheorems, WellFoundedInduction, TLAPS

-----------------------------------------------------------------------------
(* Types. *)

LEMMA Wider ==
    ASSUME NEW N, NEW M, N \subseteq M
    PROVE  /\ TabSet(N) \subseteq TabSet(M) /\ MainSet(N) \subseteq MainSet(M)
           /\ RefreshSet(N) \subseteq RefreshSet(M) /\ ReqSet(N) \subseteq ReqSet(M)
  BY DEF TabSet, MainSet, RefreshSet, ReqSet

LEMMA Blank ==
    ASSUME NEW N, 0 \in N
    PROVE  Closed \in TabSet(N) /\ NoMain \in MainSet(N) /\ NoRefresh \in RefreshSet(N) /\ NoReq \in ReqSet(N)
  BY DEF Closed, NoMain, NoRefresh, NoReq, TabSet, MainSet, RefreshSet, ReqSet, None

\* A token is issued: it is a new one.
LEMMA Minted ==
    ASSUME issued \in Seq([user : Accounts, family : Nat]), NEW u \in Accounts, NEW f \in Nat, Mint(u, f)
    PROVE  /\ issued' \in Seq([user : Accounts, family : Nat])
           /\ Len(issued) + 1 \notin Named /\ Held' = Held \cup {Len(issued) + 1}
           /\ Named \subseteq Named' /\ Len(issued) + 1 \in Named' /\ Len(issued) + 1 \in Nat
  BY DEF Mint, Held, Named

\* What the tabs keep, and how its parts fit together: a closed tab has nothing
\* under way, one that hydrates shows nobody yet, one that a pending logout has
\* barred asks for nothing, and a refresh that comes back to nobody is fenced off.
Tabular(N) == /\ tab \in [Tabs -> TabSet(N)] /\ main \in [Tabs -> MainSet(N)]
              /\ refresh \in [Tabs -> RefreshSet(N)] /\ req \in [Tabs -> ReqSet(N)]

Fits(x, m, r, q) ==
  /\ x.status = "authenticated" <=> x.access # 0
  /\ ~x.up => x.status = "loading" /\ ~x.barred /\ m.op = None /\ m.at = "idle" /\ r.at = "idle" /\ q.at = "idle"
  /\ m.op = "boot" => x.status = "loading" /\ m.at = "idle"
  /\ m.new # 0 => m.op = "login" /\ m.at = "served"
  /\ m.op = "login" => m.who \in Accounts /\ (m.at = "served" => m.new # 0)
  /\ x.barred => x.status # "authenticated" /\ m.op # "boot" /\ r.at = "idle" /\ q.at = "idle"
  /\ x.status = "anonymous" => r.at = "idle" \/ ~r.live
  /\ r.at \in {"waiting", "sent"} => r.new = 0
TabInv == \A t \in Tabs : Fits(tab[t], main[t], refresh[t], req[t])

Counting == loads \in Nat /\ lost \in Nat /\ made \in Nat
Browsing(N) == cookie \in N /\ marker \in BOOLEAN /\ before \in [Tabs -> SUBSET Tabs]
Serving == /\ issued \in Seq([user : Accounts, family : Nat]) /\ ended \subseteq Nat
           /\ spent \subseteq Held /\ deleted \subseteq Held /\ alarm \in BOOLEAN

Types == Tabular(Named) /\ TabInv /\ Counting /\ Browsing(Named) /\ Serving

LEMMA TypesAreOK == Types => TypeOK
  BY DEF Types, TypeOK, Tabular, TabInv, Fits, Counting, Browsing, Serving

LEMMA SameNames == ASSUME UNCHANGED issued PROVE Named' = Named /\ Held' = Held
  BY DEF Named, Held

\* A step in which nothing is issued.
LEMMA NothingIssued ==
    ASSUME Types, UNCHANGED server, Tabular(Named)', TabInv', Counting', Browsing(Named)'
    PROVE  Types'
  BY DEF Types, server, Serving, Held

\* A step of one tab.
LEMMA OneTab ==
    ASSUME NEW N, NEW M, N \subseteq M, Tabular(N), TabInv, NEW t \in Tabs,
           NEW x \in TabSet(M), NEW m \in MainSet(M), NEW r \in RefreshSet(M), NEW q \in ReqSet(M),
           Fits(x, m, r, q),
           tab' = [tab EXCEPT ![t] = x] \/ (UNCHANGED tab /\ x = tab[t]),
           main' = [main EXCEPT ![t] = m] \/ (UNCHANGED main /\ m = main[t]),
           refresh' = [refresh EXCEPT ![t] = r] \/ (UNCHANGED refresh /\ r = refresh[t]),
           req' = [req EXCEPT ![t] = q] \/ (UNCHANGED req /\ q = req[t])
    PROVE  Tabular(M)' /\ TabInv'
<1>1. tab \in [Tabs -> TabSet(M)] /\ main \in [Tabs -> MainSet(M)]
      /\ refresh \in [Tabs -> RefreshSet(M)] /\ req \in [Tabs -> ReqSet(M)]
  BY Wider DEF Tabular
<1>2. /\ tab' \in [Tabs -> TabSet(M)] /\ tab'[t] = x /\ \A u \in Tabs \ {t} : tab'[u] = tab[u]
      /\ main' \in [Tabs -> MainSet(M)] /\ main'[t] = m /\ \A u \in Tabs \ {t} : main'[u] = main[u]
  BY <1>1
<1>3. /\ refresh' \in [Tabs -> RefreshSet(M)] /\ refresh'[t] = r /\ \A u \in Tabs \ {t} : refresh'[u] = refresh[u]
      /\ req' \in [Tabs -> ReqSet(M)] /\ req'[t] = q /\ \A u \in Tabs \ {t} : req'[u] = req[u]
  BY <1>1
<1>4. \A u \in Tabs : Fits(tab'[u], main'[u], refresh'[u], req'[u])
  <2>1. Fits(tab'[t], main'[t], refresh'[t], req'[t])
    BY <1>2, <1>3
  <2>2. ASSUME NEW u \in Tabs \ {t} PROVE Fits(tab'[u], main'[u], refresh'[u], req'[u])
    BY <1>2, <1>3 DEF TabInv
  <2> QED BY <2>1, <2>2
<1> QED BY <1>2, <1>3, <1>4 DEF Tabular, TabInv

\* A step of one tab in which nothing is issued.
LEMMA TabStepTypes ==
    ASSUME Types, UNCHANGED server, Counting', Browsing(Named)', NEW t \in Tabs,
           NEW x \in TabSet(Named), NEW m \in MainSet(Named),
           NEW r \in RefreshSet(Named), NEW q \in ReqSet(Named), Fits(x, m, r, q),
           tab' = [tab EXCEPT ![t] = x] \/ (UNCHANGED tab /\ x = tab[t]),
           main' = [main EXCEPT ![t] = m] \/ (UNCHANGED main /\ m = main[t]),
           refresh' = [refresh EXCEPT ![t] = r] \/ (UNCHANGED refresh /\ r = refresh[t]),
           req' = [req EXCEPT ![t] = q] \/ (UNCHANGED req /\ q = req[t])
    PROVE  Types'
<1>1. Named' = Named
  BY SameNames DEF server
<1>2. Tabular(Named) /\ TabInv
  BY DEF Types
<1>3. PICK N : N = Named
  OBVIOUS
<1>4. Tabular(N)' /\ TabInv'
  BY <1>2, <1>3, OneTab
<1>5. Tabular(Named)'
  BY <1>1, <1>3, <1>4 DEF Tabular
<1> QED BY <1>4, <1>5, NothingIssued

\* What a tab has to start with.
LEMMA Here ==
    ASSUME Types, NEW t \in Tabs
    PROVE  /\ tab[t] \in TabSet(Named) /\ main[t] \in MainSet(Named)
           /\ refresh[t] \in RefreshSet(Named) /\ req[t] \in ReqSet(Named)
           /\ Fits(tab[t], main[t], refresh[t], req[t]) /\ 0 \in Named
           /\ Closed \in TabSet(Named) /\ NoMain \in MainSet(Named)
           /\ NoRefresh \in RefreshSet(Named) /\ NoReq \in ReqSet(Named)
<1>1. 0 \in Named
  BY DEF Named
<1> QED BY <1>1, Blank DEF Types, Tabular, TabInv

LEMMA BrowsingStays ==
    ASSUME Types, UNCHANGED server, UNCHANGED browser
    PROVE  Browsing(Named)'
<1>1. Named' = Named
  BY SameNames DEF server
<1> QED BY <1>1 DEF Types, Browsing, browser

LEMMA RequestTypes == ASSUME Types, NEW t \in Tabs, Request(t) PROVE Types'
<1>1. PICK q : q = [NoReq EXCEPT !.at = "sent", !.access = tab[t].access]
  OBVIOUS
<1>2. q \in ReqSet(Named)
  BY <1>1, Here DEF TabSet, ReqSet
<1>3. Fits(tab[t], main[t], refresh[t], q)
  BY Here DEF Request, Fits
<1>4. Counting'
  BY DEF Types, Counting, Request
<1> QED BY <1>1, <1>2, <1>3, <1>4, Here, TabStepTypes, BrowsingStays DEF Request

LEMMA ServeRequestTypes == ASSUME Types, NEW t \in Tabs, ServeRequest(t) PROVE Types'
<1>1. PICK q \in {NoReq, [req[t] EXCEPT !.at = "refused"]} : req' = [req EXCEPT ![t] = q]
  BY DEF ServeRequest
<1>2. q \in ReqSet(Named)
  BY <1>1, Here DEF ReqSet
<1>3. Fits(tab[t], main[t], refresh[t], q)
  BY Here DEF ServeRequest, Fits
<1>4. Counting' /\ UNCHANGED <<server, browser, tab, main, refresh>>
  BY DEF Types, Counting, counts, ServeRequest
<1> QED BY <1>1, <1>2, <1>3, <1>4, Here, TabStepTypes, BrowsingStays

LEMMA LockTypes ==
    ASSUME Types, UNCHANGED server, NEW t \in Tabs, cookie' \in Named, marker' \in BOOLEAN,
           Queue(t) \/ Release(t) \/ UNCHANGED before
    PROVE  Browsing(Named)'
<1>1. Named' = Named
  BY SameNames DEF server
<1>2. before' \in [Tabs -> SUBSET Tabs]
  BY DEF Types, Browsing, Queue, Release
<1> QED BY <1>1, <1>2 DEF Browsing

\* refreshAccessToken starts a refresh, or joins the one there is.
LEMMA Joins ==
    ASSUME Types, NEW t \in Tabs, Join(t)
    PROVE  \E r \in RefreshSet(Named) :
             /\ r.at # "idle"
             /\ \/ /\ refresh' = [refresh EXCEPT ![t] = r] /\ refresh[t].at = "idle" /\ Queue(t)
                   /\ r.at = "waiting" /\ r.live /\ r.new = 0
                \/ UNCHANGED <<refresh, before>> /\ r = refresh[t]
<1>1. CASE refresh[t].at # "idle"
  BY <1>1, Here DEF Join
<1>2. CASE refresh[t].at = "idle"
  <2>1. PICK r : r = [NoRefresh EXCEPT !.at = "waiting", !.tok = tab[t].access]
    OBVIOUS
  <2>2. r \in RefreshSet(Named) /\ r.at = "waiting" /\ r.live /\ r.new = 0
    BY <2>1, Here DEF TabSet, RefreshSet, NoRefresh
  <2> QED BY <1>2, <2>1, <2>2 DEF Join
<1> QED BY <1>1, <1>2

LEMMA StreamRefusedTypes == ASSUME Types, NEW t \in Tabs, StreamRefused(t) PROVE Types'
<1>1. PICK r \in RefreshSet(Named) :
        /\ r.at # "idle"
        /\ \/ /\ refresh' = [refresh EXCEPT ![t] = r] /\ refresh[t].at = "idle" /\ Queue(t)
              /\ r.at = "waiting" /\ r.live /\ r.new = 0
           \/ UNCHANGED <<refresh, before>> /\ r = refresh[t]
  BY Joins DEF StreamRefused
<1>2. Fits(tab[t], main[t], r, req[t])
  BY <1>1, Here DEF StreamRefused, Fits
<1>3. Counting' /\ Browsing(Named)'
  BY <1>1, LockTypes DEF Types, Counting, counts, Browsing, StreamRefused
<1> QED BY <1>1, <1>2, <1>3, Here, TabStepTypes DEF StreamRefused

LEMMA RefusedTypes == ASSUME Types, NEW t \in Tabs, Refused(t) PROVE Types'
<1>1. CASE req' = [req EXCEPT ![t] = NoReq] /\ UNCHANGED <<refresh, before>>
  <2>1. Fits(tab[t], main[t], refresh[t], NoReq)
    BY Here DEF Fits, NoReq
  <2>2. Counting' /\ Browsing(Named)'
    BY <1>1, LockTypes DEF Types, Counting, counts, Browsing, Refused
  <2> QED BY <1>1, <2>1, <2>2, Here, TabStepTypes DEF Refused
<1>2. CASE /\ req' = [req EXCEPT ![t].at = "waiting"] /\ Join(t)
           /\ ~(req[t].retried \/ tab[t].rejected \/ tab[t].status = "anonymous")
  <2>1. PICK r \in RefreshSet(Named) :
          /\ r.at # "idle"
          /\ \/ /\ refresh' = [refresh EXCEPT ![t] = r] /\ refresh[t].at = "idle" /\ Queue(t)
                /\ r.at = "waiting" /\ r.live /\ r.new = 0
             \/ UNCHANGED <<refresh, before>> /\ r = refresh[t]
    BY <1>2, Joins
  <2>2. PICK q : q = [req[t] EXCEPT !.at = "waiting"]
    OBVIOUS
  <2>3. q \in ReqSet(Named) /\ q.at = "waiting" /\ req' = [req EXCEPT ![t] = q]
    BY <1>2, <2>2, Here DEF ReqSet
  <2>4. Fits(tab[t], main[t], r, q)
    BY <1>2, <2>1, <2>3, Here DEF Refused, Fits
  <2>5. Counting' /\ Browsing(Named)'
    BY <2>1, LockTypes DEF Types, Counting, counts, Browsing, Refused
  <2> QED BY <2>1, <2>3, <2>4, <2>5, Here, TabStepTypes DEF Refused
<1> QED BY <1>1, <1>2 DEF Refused

LEMMA LoadTypes == ASSUME Types, NEW t \in Tabs, Load(t) PROVE Types'
<1>1. PICK x : x = [Closed EXCEPT !.up = TRUE, !.barred = marker]
  OBVIOUS
<1>2. marker \in BOOLEAN /\ cookie \in Named
  BY DEF Types, Browsing
<1>3. x \in TabSet(Named) /\ x.up /\ x.status = "loading" /\ x.access = 0 /\ x.barred = marker
  BY <1>1, <1>2, Here DEF TabSet, Closed
<1>4. Counting'
  BY DEF Types, Counting, Load
<1>5. CASE Pending /\ UNCHANGED <<refresh, before>>
           /\ main' = [main EXCEPT ![t] = [NoMain EXCEPT !.op = "finish", !.at = "sent", !.tok = cookie]]
  <2>1. PICK m : m = [NoMain EXCEPT !.op = "finish", !.at = "sent", !.tok = cookie]
    OBVIOUS
  <2>2. m \in MainSet(Named) /\ m.op = "finish" /\ m.new = 0
    BY <1>2, <2>1, Here DEF MainSet, NoMain
  <2>3. Fits(x, m, refresh[t], req[t])
    BY <1>3, <2>2, Here DEF Load, Fits
  <2>4. Browsing(Named)'
    BY <1>2, <1>5, LockTypes DEF Load
  <2> QED BY <1>1, <1>3, <1>4, <1>5, <2>1, <2>2, <2>3, <2>4, Here, TabStepTypes DEF Load
<1>6. CASE ~Pending /\ Join(t) /\ main' = [main EXCEPT ![t] = [NoMain EXCEPT !.op = "boot"]]
  <2>1. PICK m : m = [NoMain EXCEPT !.op = "boot"]
    OBVIOUS
  <2>2. m \in MainSet(Named) /\ m.op = "boot" /\ m.at = "idle" /\ m.new = 0
    BY <2>1, Here DEF MainSet, NoMain
  <2>3. PICK r \in RefreshSet(Named) :
          /\ r.at # "idle"
          /\ \/ /\ refresh' = [refresh EXCEPT ![t] = r] /\ refresh[t].at = "idle" /\ Queue(t)
                /\ r.at = "waiting" /\ r.live /\ r.new = 0
             \/ UNCHANGED <<refresh, before>> /\ r = refresh[t]
    BY <1>6, Joins
  <2>4. Fits(x, m, r, req[t])
    BY <1>3, <1>6, <2>2, <2>3, Here DEF Load, Pending, Fits
  <2>5. Browsing(Named)'
    BY <1>2, <2>3, LockTypes DEF Load
  <2> QED BY <1>1, <1>3, <1>4, <1>6, <2>1, <2>2, <2>3, <2>4, <2>5, Here, TabStepTypes DEF Load
<1> QED BY <1>5, <1>6 DEF Load

LEMMA LosingTypes == ASSUME Types, Losing \/ UNCHANGED lost PROVE lost' \in Nat
  BY DEF Types, Counting, Losing

LEMMA CloseTypes == ASSUME Types, NEW t \in Tabs, Close(t) PROVE Types'
<1>1. Fits(Closed, NoMain, NoRefresh, NoReq)
  BY DEF Fits, Closed, NoMain, NoRefresh, NoReq, None
<1>2. Counting' /\ Browsing(Named)'
  BY LosingTypes, LockTypes DEF Types, Counting, Browsing, Close
<1> QED BY <1>1, <1>2, Here, TabStepTypes DEF Close

LEMMA LoginTypes == ASSUME Types, NEW t \in Tabs, NEW a \in Accounts, Login(t, a) PROVE Types'
<1>1. PICK m : m = [NoMain EXCEPT !.op = "login", !.at = "sent", !.who = a]
  OBVIOUS
<1>2. m \in MainSet(Named) /\ m.op = "login" /\ m.at = "sent" /\ m.who = a /\ m.new = 0
  BY <1>1, Here DEF MainSet, NoMain
<1>3. Fits(tab[t], m, refresh[t], req[t])
  BY <1>2, Here DEF Login, Fits
<1>4. Counting' /\ Browsing(Named)'
  BY BrowsingStays DEF Types, Counting, Login, counts
<1> QED BY <1>1, <1>2, <1>3, <1>4, Here, TabStepTypes DEF Login

LEMMA LogoutTypes == ASSUME Types, NEW t \in Tabs, Logout(t) PROVE Types'
<1>1. PICK m : m = [NoMain EXCEPT !.op = "logout", !.at = "sent", !.tok = cookie]
  OBVIOUS
<1>2. m \in MainSet(Named) /\ m.op = "logout" /\ m.new = 0
  BY <1>1, Here DEF MainSet, Types, Browsing, NoMain
<1>3. Fits(tab[t], m, refresh[t], req[t])
  BY <1>2, Here DEF Logout, Fits
<1>4. Counting' /\ Browsing(Named)'
  BY LockTypes DEF Types, Counting, counts, Browsing, Logout
<1> QED BY <1>1, <1>2, <1>3, <1>4, Here, TabStepTypes DEF Logout

\* logout() and setAuth() in a tab.
LEMMA TabValues ==
    ASSUME Types, NEW t \in Tabs, NEW n \in Named
    PROVE  /\ SignedOut(t) \in TabSet(Named)
           /\ SignedOut(t).status = "anonymous" /\ SignedOut(t).access = 0
           /\ SignedOut(t).barred = tab[t].barred /\ SignedOut(t).up = tab[t].up
           /\ SignedInWith(t, n) \in TabSet(Named)
           /\ SignedInWith(t, n).status = "authenticated" /\ SignedInWith(t, n).access = n
           /\ SignedInWith(t, n).barred = tab[t].barred /\ SignedInWith(t, n).up = tab[t].up
  BY Here DEF TabSet, SignedOut, SignedInWith

LEMMA Fenced ==
    ASSUME Types, NEW t \in Tabs, Fence(t)
    PROVE  \E r \in RefreshSet(Named) : /\ refresh' = [refresh EXCEPT ![t] = r]
                                        /\ r.at = refresh[t].at /\ (r.at = "idle" \/ ~r.live)
                                        /\ r.sent = refresh[t].sent /\ r.new = refresh[t].new
<1>1. PICK r : r = [refresh[t] EXCEPT !.live = refresh[t].live /\ refresh[t].at = "idle"]
  OBVIOUS
<1>2. PICK b \in BOOLEAN : b = (refresh[t].live /\ refresh[t].at = "idle")
  OBVIOUS
<1>3. r = [refresh[t] EXCEPT !.live = b] /\ refresh[t] \in RefreshSet(Named)
  BY <1>1, <1>2, Here
<1>4. /\ r \in RefreshSet(Named) /\ r.at = refresh[t].at /\ r.live = b
      /\ r.sent = refresh[t].sent /\ r.new = refresh[t].new
  BY <1>3 DEF RefreshSet
<1>5. refresh' = [refresh EXCEPT ![t] = r]
  BY <1>1 DEF Fence
<1> QED BY <1>2, <1>4, <1>5

\* logout() in a tab whose own request is over.
LEMMA SignsOut ==
    ASSUME Types, UNCHANGED server, Counting', Browsing(Named)', NEW t \in Tabs, tab[t].up,
           tab' = [tab EXCEPT ![t] = SignedOut(t)], Fence(t), main' = [main EXCEPT ![t] = NoMain],
           UNCHANGED req
    PROVE  Types'
<1>1. PICK r \in RefreshSet(Named) : /\ refresh' = [refresh EXCEPT ![t] = r]
                                     /\ r.at = refresh[t].at /\ (r.at = "idle" \/ ~r.live)
                                     /\ r.new = refresh[t].new
  BY Fenced
<1>2. Fits(SignedOut(t), NoMain, r, req[t])
  BY <1>1, Here, TabValues DEF Fits, NoMain, None
<1> QED BY <1>1, <1>2, Here, TabValues, TabStepTypes

LEMMA ReceiveMainTypes == ASSUME Types, NEW t \in Tabs, ReceiveMain(t) PROVE Types'
<1>1. tab[t].up /\ main[t].new \in Named
  BY Here DEF ReceiveMain, Fits, MainSet
<1>2. UNCHANGED server /\ Counting' /\ Browsing(Named)'
  BY <1>1, LockTypes DEF Types, Counting, counts, Browsing, ReceiveMain
<1>3. CASE main[t].op # "login"
  BY <1>1, <1>2, <1>3, SignsOut DEF ReceiveMain
<1>4. CASE main[t].op = "login"
  <2>1. PICK x : x = [SignedInWith(t, main[t].new) EXCEPT !.barred = FALSE]
    OBVIOUS
  <2>2. x \in TabSet(Named) /\ x.status = "authenticated" /\ x.access = main[t].new /\ ~x.barred
          /\ x.up = tab[t].up
    <3>1. PICK y \in TabSet(Named) : y = SignedInWith(t, main[t].new)
      BY <1>1, TabValues
    <3>2. y.status = "authenticated" /\ y.access = main[t].new /\ y.up = tab[t].up
      BY <1>1, <3>1, TabValues
    <3> QED BY <2>1, <3>1, <3>2 DEF TabSet
  <2>3. \E r \in RefreshSet(Named) : /\ \/ refresh' = [refresh EXCEPT ![t] = r]
                                        \/ UNCHANGED refresh /\ r = refresh[t]
                                     /\ r.at = refresh[t].at /\ r.new = refresh[t].new
    BY <1>4, Fenced, Here DEF ReceiveMain
  <2>4. PICK r \in RefreshSet(Named) : /\ \/ refresh' = [refresh EXCEPT ![t] = r]
                                          \/ UNCHANGED refresh /\ r = refresh[t]
                                       /\ r.at = refresh[t].at /\ r.new = refresh[t].new
    BY <2>3
  <2>5. Fits(x, NoMain, r, req[t])
    BY <1>1, <1>4, <2>2, <2>4, Here DEF Fits, NoMain, None, ReceiveMain
  <2> QED BY <1>2, <1>4, <2>1, <2>2, <2>4, <2>5, Here, TabStepTypes DEF ReceiveMain
<1> QED BY <1>3, <1>4

LEMMA LoseMainTypes == ASSUME Types, NEW t \in Tabs, LoseMain(t) PROVE Types'
<1>1. tab[t].up /\ UNCHANGED <<server, browser>> /\ Counting' /\ Browsing(Named)'
  BY Here, LosingTypes, BrowsingStays DEF Types, Counting, LoseMain, Fits
<1>2. CASE main[t].op # "login"
  BY <1>1, <1>2, SignsOut DEF LoseMain
<1>3. CASE main[t].op = "login"
  <2>1. Fits(tab[t], NoMain, refresh[t], req[t])
    BY <1>1, Here DEF Fits, NoMain, None
  <2> QED BY <1>1, <1>3, <2>1, Here, TabStepTypes DEF LoseMain
<1> QED BY <1>2, <1>3

\* The refresh of a tab is over.
LEMMA SettleTypes ==
    ASSUME Types, UNCHANGED server, Counting', NEW t \in Tabs, NEW n \in Named, NEW outcome,
           refresh[t].at # "idle", outcome = "ok" /\ refresh[t].at = "served" => n # 0,
           Settle(t, outcome, n), cookie' \in Named, UNCHANGED marker
    PROVE  Types'
<1>1. Browsing(Named)'
  BY LockTypes DEF Settle, Types, Browsing
<1> DEFINE awaited == main[t].op = "boot" \/ req[t].at = "waiting"
<1>2. \E x \in TabSet(Named) :
        /\ tab' = [tab EXCEPT ![t] = x]
        /\ x.status = "authenticated" <=> x.access # 0
        /\ x.up /\ ~x.barred
  <2>1. tab[t].up /\ ~tab[t].barred
    BY Here DEF Fits
  <2>2. CASE outcome = "ok" /\ refresh[t].at = "served"
    <3>1. tab' = [tab EXCEPT ![t] = SignedInWith(t, n)]
      BY <2>2 DEF Settle
    <3>2. PICK x \in TabSet(Named) : x = SignedInWith(t, n)
      BY TabValues
    <3>3. x.status = "authenticated" /\ x.access = n /\ x.up /\ ~x.barred
      BY <2>1, <3>2, TabValues
    <3> QED BY <2>2, <3>1, <3>2, <3>3
  <2>3. CASE outcome = "rejected"
    <3>1. PICK y : y = IF awaited THEN SignedOut(t) ELSE tab[t]
      OBVIOUS
    <3>2. y \in TabSet(Named) /\ y.up /\ ~y.barred /\ (y.status = "authenticated" <=> y.access # 0)
      <4>1. CASE awaited
        BY <2>1, <3>1, <4>1, TabValues, Here
      <4>2. CASE ~awaited
        BY <2>1, <3>1, <4>2, Here DEF Fits
      <4> QED BY <4>1, <4>2
    <3>3. PICK x : x = [y EXCEPT !.rejected = TRUE]
      OBVIOUS
    <3>4. x \in TabSet(Named) /\ x.up /\ ~x.barred /\ (x.status = "authenticated" <=> x.access # 0)
      BY <3>2, <3>3 DEF TabSet
    <3>5. tab' = [tab EXCEPT ![t] = x]
      BY <2>3, <3>1, <3>3 DEF Settle
    <3> QED BY <3>4, <3>5
  <2>4. CASE outcome = "failed" /\ main[t].op = "boot"
    <3>1. PICK x : x = [tab[t] EXCEPT !.status = "anonymous"]
      OBVIOUS
    <3>2. x \in TabSet(Named) /\ x.up /\ ~x.barred /\ x.status = "anonymous" /\ x.access = 0
      BY <2>1, <2>4, <3>1, Here DEF TabSet, Fits
    <3>3. tab' = [tab EXCEPT ![t] = x]
      BY <2>4, <3>1 DEF Settle
    <3> QED BY <3>2, <3>3
  <2>5. CASE tab' = [tab EXCEPT ![t] = tab[t]]
    BY <2>1, <2>5, Here DEF Fits
  <2> QED BY <2>2, <2>3, <2>4, <2>5 DEF Settle
<1>3. PICK x \in TabSet(Named) :
        /\ tab' = [tab EXCEPT ![t] = x]
        /\ x.status = "authenticated" <=> x.access # 0
        /\ x.up /\ ~x.barred
  BY <1>2
<1>4. \E q \in ReqSet(Named) : req' = [req EXCEPT ![t] = q] \/ (UNCHANGED req /\ q = req[t])
  <2>1. [req[t] EXCEPT !.at = "sent", !.access = n, !.retried = TRUE] \in ReqSet(Named)
    BY Here DEF ReqSet
  <2> QED BY <2>1, Here DEF Settle
<1>5. PICK q \in ReqSet(Named) : req' = [req EXCEPT ![t] = q] \/ (UNCHANGED req /\ q = req[t])
  BY <1>4
<1>6. PICK m \in MainSet(Named) : /\ main' = [main EXCEPT ![t] = m] \/ (UNCHANGED main /\ m = main[t])
                                  /\ m = NoMain \/ (m = main[t] /\ m.op # "boot")
  BY Here DEF Settle
<1>7. Fits(x, m, NoRefresh, q)
  BY <1>3, <1>6, Here DEF Fits, NoMain, NoRefresh, None
<1>8. refresh' = [refresh EXCEPT ![t] = NoRefresh]
  BY DEF Settle
<1> QED BY <1>1, <1>3, <1>5, <1>6, <1>7, <1>8, Here, TabStepTypes

LEMMA TakeLockTypes == ASSUME Types, NEW t \in Tabs, TakeLock(t) PROVE Types'
<1>1. UNCHANGED server /\ Counting' /\ cookie' \in Named /\ 0 \in Named /\ tab[t].access \in Named
  BY Here DEF Types, Counting, counts, Browsing, TakeLock, TabSet
<1>2. CASE Settle(t, "superseded", 0) \/ Settle(t, "ok", tab[t].access)
  BY <1>1, <1>2, SettleTypes DEF TakeLock
<1>3. CASE /\ UNCHANGED <<before, tab, main, req>>
           /\ refresh' = [refresh EXCEPT ![t].at = "sent", ![t].sent = cookie, ![t].tok = 0]
  <2>1. PICK r : r = [refresh[t] EXCEPT !.at = "sent", !.sent = cookie, !.tok = 0]
    OBVIOUS
  <2>2. r \in RefreshSet(Named) /\ r.at = "sent" /\ r.live = refresh[t].live /\ r.new = refresh[t].new
    BY <1>1, <2>1, Here DEF RefreshSet, TakeLock
  <2>3. Fits(tab[t], main[t], r, req[t])
    BY <2>2, Here DEF TakeLock, Fits
  <2>4. refresh' = [refresh EXCEPT ![t] = r] /\ UNCHANGED browser
    BY <1>3, <2>1 DEF TakeLock, browser
  <2> QED BY <1>1, <1>3, <2>2, <2>3, <2>4, Here, TabStepTypes, BrowsingStays
<1> QED BY <1>2, <1>3 DEF TakeLock

LEMMA ReceiveRefreshTypes == ASSUME Types, NEW t \in Tabs, ReceiveRefresh(t) PROVE Types'
<1>1. UNCHANGED server /\ Counting' /\ cookie' \in Named /\ refresh[t].new \in Named
  BY Here DEF Types, Counting, counts, Browsing, ReceiveRefresh, RefreshSet
<1>2. Outcome(t) = "ok" => refresh[t].new # 0
  BY DEF Outcome
<1> QED BY <1>1, <1>2, SettleTypes DEF ReceiveRefresh

LEMMA LoseRefreshTypes == ASSUME Types, NEW t \in Tabs, LoseRefresh(t) PROVE Types'
<1>1. UNCHANGED server /\ Counting' /\ cookie' \in Named /\ 0 \in Named
  BY Here, LosingTypes DEF Types, Counting, Browsing, LoseRefresh
<1> QED BY <1>1, SettleTypes DEF LoseRefresh

LEMMA OwnerTypes ==
    ASSUME Types, NEW n \in Held PROVE Owner(n) \in Accounts /\ Family(n) \in Nat
<1>1. issued \in Seq([user : Accounts, family : Nat]) /\ n \in 1..Len(issued)
  BY DEF Types, Serving, Held
<1>2. PICK R : R = [user : Accounts, family : Nat]
  OBVIOUS
<1>3. issued \in Seq(R)
  BY <1>1, <1>2
<1>4. issued[n] \in R
  BY <1>1, <1>3
<1> QED BY <1>2, <1>4 DEF Owner, Family

\* What a minting step leaves of the rest.
LEMMA MintTypes ==
    ASSUME Types, NEW u \in Accounts, NEW f \in Nat, Mint(u, f), UNCHANGED browser, UNCHANGED counts,
           spent' \subseteq Held', UNCHANGED <<ended, deleted, alarm>>
    PROVE  /\ Serving' /\ Browsing(Named)' /\ Counting'
           /\ Named \subseteq Named' /\ Len(issued) + 1 \in Named' /\ Len(issued) + 1 # 0
<1>1. issued \in Seq([user : Accounts, family : Nat])
  BY DEF Types, Serving
<1>2. /\ Named \subseteq Named' /\ Len(issued) + 1 \in Named' /\ Held \subseteq Held'
      /\ issued' \in Seq([user : Accounts, family : Nat]) /\ Len(issued) + 1 \notin Named
  BY <1>1, Minted
<1>3. Serving'
  BY <1>2 DEF Types, Serving
<1>4. Browsing(Named)' /\ Counting'
  BY <1>2 DEF Types, Browsing, browser, Counting, counts
<1> QED BY <1>2, <1>3, <1>4 DEF Named

LEMMA RotateTypes ==
    ASSUME Types, NEW t \in Tabs, ServeRefresh(t), Rotate(t, refresh[t].sent) PROVE Types'
<1>1. PICK n \in Held : n = refresh[t].sent /\ Good(n)
  BY DEF Rotate, Good
<1>2. Owner(n) \in Accounts /\ Family(n) \in Nat /\ Mint(Owner(n), Family(n))
  BY <1>1, OwnerTypes DEF Rotate
<1>3. Held \subseteq Held'
  BY <1>2, Minted DEF Types, Serving
<1>4. spent' \subseteq Held' /\ UNCHANGED <<browser, counts, ended, deleted, alarm>>
  BY <1>1, <1>3 DEF Rotate, ServeRefresh, Types, Serving
<1>5. /\ Serving' /\ Browsing(Named)' /\ Counting'
      /\ Named \subseteq Named' /\ Len(issued) + 1 \in Named' /\ Len(issued) + 1 # 0
  BY <1>2, <1>4, MintTypes
<1>6. PICK M : M = Named'
  OBVIOUS
<1>7. PICK r : r = [refresh[t] EXCEPT !.at = "served", !.sent = 0, !.new = Len(issued) + 1]
  OBVIOUS
<1>8. 0 \in M /\ Len(issued) + 1 \in M /\ refresh[t] \in RefreshSet(M)
  BY <1>5, <1>6, Here, Wider
<1>9. r \in RefreshSet(M) /\ r.at = "served" /\ r.live = refresh[t].live
  BY <1>7, <1>8 DEF RefreshSet
<1>10. Fits(tab[t], main[t], r, req[t])
  BY <1>9, Here DEF ServeRefresh, Fits
<1>11. refresh' = [refresh EXCEPT ![t] = r] /\ UNCHANGED <<tab, main, req>>
  BY <1>7 DEF Rotate, ServeRefresh
<1>12. Named \subseteq M /\ Tabular(Named) /\ TabInv /\ tab[t] \in TabSet(M) /\ main[t] \in MainSet(M)
         /\ req[t] \in ReqSet(M)
  BY <1>5, <1>6, Here, Wider DEF Types
<1>13. Tabular(M)' /\ TabInv'
  BY <1>9, <1>10, <1>11, <1>12, OneTab
<1> QED BY <1>5, <1>6, <1>13 DEF Types, Tabular

LEMMA ServeRefreshTypes == ASSUME Types, NEW t \in Tabs, ServeRefresh(t) PROVE Types'
<1>1. CASE Rotate(t, refresh[t].sent)
  BY <1>1, RotateTypes
<1>2. CASE Refuse(t) /\ UNCHANGED <<issued, spent, ended>>
           /\ deleted' \subseteq Held /\ alarm' \in BOOLEAN
  <2>1. PICK r : r = [refresh[t] EXCEPT !.at = "served", !.sent = 0]
    OBVIOUS
  <2>2. r \in RefreshSet(Named) /\ r.at = "served" /\ r.live = refresh[t].live
    BY <2>1, Here DEF RefreshSet
  <2>3. Fits(tab[t], main[t], r, req[t])
    BY <2>2, Here DEF ServeRefresh, Fits
  <2>4. refresh' = [refresh EXCEPT ![t] = r] /\ UNCHANGED <<tab, main, req, browser, counts>>
    BY <1>2, <2>1 DEF Refuse, ServeRefresh
  <2>5. Named' = Named /\ Held' = Held
    BY <1>2, SameNames
  <2>6. PICK N : N = Named
    OBVIOUS
  <2>7. Tabular(N)' /\ TabInv'
    BY <2>2, <2>3, <2>4, <2>6, Here, OneTab DEF Types
  <2>8. Serving' /\ Browsing(Named)' /\ Counting'
    BY <1>2, <2>4, <2>5 DEF Types, Serving, Browsing, browser, Counting, counts
  <2> QED BY <2>5, <2>6, <2>7, <2>8 DEF Types, Tabular
<1> QED BY <1>1, <1>2 DEF ServeRefresh, Alarm, Types, Serving

LEMMA ServeMainTypes == ASSUME Types, NEW t \in Tabs, ServeMain(t) PROVE Types'
<1>1. CASE main[t].op = "login"
  <2>1. main[t].who \in Accounts /\ Mint(main[t].who, Len(issued) + 1) /\ Len(issued) + 1 \in Nat
    BY <1>1, Here DEF Fits, ServeMain, Types, Serving
  <2>2. Held \subseteq Held'
    BY <2>1, Minted DEF Types, Serving
  <2>3. /\ Serving' /\ Browsing(Named)' /\ Counting'
        /\ Named \subseteq Named' /\ Len(issued) + 1 \in Named' /\ Len(issued) + 1 # 0
    BY <1>1, <2>1, <2>2, MintTypes DEF ServeMain, Types, Serving
  <2>4. PICK M : M = Named'
    OBVIOUS
  <2>5. PICK m : m = [main[t] EXCEPT !.at = "served", !.new = Len(issued) + 1]
    OBVIOUS
  <2>6. Len(issued) + 1 \in M /\ main[t] \in MainSet(M)
    BY <2>3, <2>4, Here, Wider
  <2>7. m \in MainSet(M) /\ m.op = "login" /\ m.at = "served" /\ m.who = main[t].who /\ m.new = Len(issued) + 1
    BY <1>1, <2>5, <2>6 DEF MainSet
  <2>8. Fits(tab[t], m, refresh[t], req[t])
    BY <1>1, <2>1, <2>3, <2>7, Here DEF ServeMain, Fits
  <2>9. main' = [main EXCEPT ![t] = m] /\ UNCHANGED <<tab, refresh, req>>
    BY <1>1, <2>5 DEF ServeMain
  <2>10. Named \subseteq M /\ Tabular(Named) /\ TabInv /\ tab[t] \in TabSet(M) /\ refresh[t] \in RefreshSet(M)
           /\ req[t] \in ReqSet(M)
    BY <2>3, <2>4, Here, Wider DEF Types
  <2>11. Tabular(M)' /\ TabInv'
    BY <2>7, <2>8, <2>9, <2>10, OneTab
  <2> QED BY <2>3, <2>4, <2>11 DEF Types, Tabular
<1>2. CASE main[t].op # "login"
  <2>1. PICK m : m = [main[t] EXCEPT !.at = "served", !.tok = 0]
    OBVIOUS
  <2>2. m \in MainSet(Named) /\ m.op = main[t].op /\ m.at = "served" /\ m.new = main[t].new
    BY <2>1, Here DEF MainSet
  <2>3. Fits(tab[t], m, refresh[t], req[t])
    BY <1>2, <2>2, Here DEF ServeMain, Fits
  <2>4. main' = [main EXCEPT ![t] = m] /\ UNCHANGED <<tab, refresh, req, browser, counts, issued>>
    BY <1>2, <2>1 DEF ServeMain
  <2>5. Named' = Named /\ Held' = Held
    BY <2>4, SameNames
  <2>6. PICK N : N = Named
    OBVIOUS
  <2>7. Tabular(N)' /\ TabInv'
    BY <2>2, <2>3, <2>4, <2>6, Here, OneTab DEF Types
  <2>8. ended' \subseteq Nat
    BY <1>2, OwnerTypes DEF ServeMain, EndFamily, Types, Serving
  <2>9. Serving' /\ Browsing(Named)' /\ Counting'
    BY <2>4, <2>5, <2>8 DEF ServeMain, Types, Serving, Browsing, browser, Counting, counts
  <2> QED BY <2>5, <2>6, <2>7, <2>9 DEF Types, Tabular
<1> QED BY <1>1, <1>2

LEMMA EndElsewhereTypes == ASSUME Types, EndElsewhere PROVE Types'
<1>1. UNCHANGED issued /\ Named' = Named /\ Held' = Held
  BY SameNames DEF EndElsewhere
<1>2. Serving' /\ Browsing(Named)' /\ Counting'
  BY <1>1, OwnerTypes DEF EndElsewhere, Good, Types, Serving, Browsing, browser, Counting, counts
<1> QED BY <1>1, <1>2 DEF EndElsewhere, Types, Tabular, TabInv

LEMMA NextTypes == ASSUME Types, [Next]_vars PROVE Types'
<1>1. ASSUME NEW t \in Tabs, TabStep(t) PROVE Types'
  BY <1>1, LoadTypes, CloseTypes, LoginTypes, LogoutTypes, RequestTypes, TakeLockTypes,
     ReceiveRefreshTypes, LoseRefreshTypes, ReceiveMainTypes, LoseMainTypes, RefusedTypes,
     StreamRefusedTypes DEF TabStep
<1>2. ASSUME NEW t \in Tabs, ServerStep(t) PROVE Types'
  BY <1>2, ServeRefreshTypes, ServeMainTypes, ServeRequestTypes DEF ServerStep
<1>3. CASE UNCHANGED vars
  BY <1>3 DEF vars, browser, server, counts, Types, Tabular, TabInv, Counting, Browsing, Serving, Named, Held
<1> QED BY <1>1, <1>2, <1>3, EndElsewhereTypes DEF Next

LEMMA InitTypes == ASSUME Init PROVE Types
<1>1. issued \in Seq([user : Accounts, family : Nat]) /\ 0 \in Named
  BY DEF Init, Named
<1>2. Tabular(Named)
  BY <1>1, Blank DEF Init, Tabular
<1>3. TabInv
  BY DEF Init, TabInv, Fits, Closed, NoMain, NoRefresh, NoReq, None
<1> QED BY <1>1, <1>2, <1>3 DEF Init, Types, Counting, Browsing, Serving

LEMMA AlwaysTypes == Spec => []Types
  BY InitTypes, NextTypes, PTL DEF Spec

(* Every variable of WebSession keeps its type, for any tabs and any bounds. *)
THEOREM TypeCorrect == Spec => []TypeOK
  BY AlwaysTypes, TypesAreOK, PTL

(* A page that a pending logout has barred shows nobody until somebody signs in
   on it: it asks for nothing that could bring a session back. *)
THEOREM BarredShowsNobody == Spec => []PendingLogoutResumesNothing
<1>1. Types => PendingLogoutResumesNothing
  BY DEF Types, TabInv, Fits, PendingLogoutResumesNothing
<1> QED BY <1>1, AlwaysTypes, PTL

-----------------------------------------------------------------------------
(* A tab that is signed out. *)

\* A refresh that is over brings a session back only with the answer it was sent for.
LEMMA SettleStatus ==
    ASSUME Types, NEW t \in Tabs, NEW n \in Named, NEW outcome, Settle(t, outcome, n),
           NEW u \in Tabs, tab[u].status = "anonymous", tab'[u].status = "authenticated"
    PROVE  u = t /\ outcome = "ok" /\ refresh[t].at = "served"
<1>1. SUFFICES ASSUME u = t, ~(outcome = "ok" /\ refresh[t].at = "served") PROVE FALSE
  BY Here DEF Settle
<1>2. tab[t].status = "anonymous" /\ SignedOut(t).status = "anonymous" /\ 0 \in Named
        /\ tab[t] \in TabSet(Named) /\ SignedOut(t) \in TabSet(Named) /\ tab \in [Tabs -> TabSet(Named)]
  BY <1>1, Here, TabValues DEF Types, Tabular
<1>3. CASE outcome = "rejected"
  <2>1. PICK y \in TabSet(Named) : y = IF main[t].op = "boot" \/ req[t].at = "waiting" THEN SignedOut(t) ELSE tab[t]
    BY <1>2
  <2>2. tab' = [tab EXCEPT ![t] = [y EXCEPT !.rejected = TRUE]] /\ y.status = "anonymous"
    BY <1>2, <1>3, <2>1 DEF Settle
  <2>3. tab'[t].status = "anonymous"
    BY <1>2, <2>2 DEF TabSet
  <2> QED BY <1>1, <2>3
<1>4. CASE outcome # "rejected"
  <2>1. \/ tab' = [tab EXCEPT ![t] = [tab[t] EXCEPT !.status = "anonymous"]]
        \/ tab' = [tab EXCEPT ![t] = tab[t]]
    BY <1>1, <1>4 DEF Settle
  <2>2. tab'[t].status = "anonymous"
    BY <1>2, <2>1 DEF TabSet
  <2> QED BY <1>1, <2>2
<1> QED BY <1>3, <1>4

LEMMA OnlySignInSignsIn ==
    ASSUME Types, [Next]_vars, NEW u \in Tabs,
           tab[u].status = "anonymous", tab'[u].status = "authenticated"
    PROVE  main[u].op = "login"
<1>1. tab[u].up /\ (refresh[u].at = "idle" \/ ~refresh[u].live) /\ tab \in [Tabs -> TabSet(Named)]
  BY Here DEF Fits, Types, Tabular
<1>2. ASSUME NEW t \in Tabs, TakeLock(t) \/ ReceiveRefresh(t) \/ LoseRefresh(t) PROVE FALSE
  <2>1. 0 \in Named /\ tab[t].access \in Named /\ refresh[t].new \in Named
    BY Here DEF TabSet, RefreshSet
  <2>2. CASE TakeLock(t)
    BY <1>1, <2>1, <2>2, SettleStatus DEF TakeLock
  <2>3. CASE ReceiveRefresh(t)
    BY <1>1, <2>1, <2>3, SettleStatus DEF ReceiveRefresh, Outcome
  <2>4. CASE LoseRefresh(t)
    BY <2>1, <2>4, SettleStatus DEF LoseRefresh
  <2> QED BY <1>2, <2>2, <2>3, <2>4
<1>3. ASSUME NEW t \in Tabs, Load(t) \/ Close(t) PROVE FALSE
  <2>1. u # t \/ Close(t)
    BY <1>1, <1>3 DEF Load
  <2>2. tab'[u] = tab[u] \/ tab'[u] = Closed
    BY <1>1, <1>3, <2>1 DEF Load, Close
  <2> QED BY <2>2 DEF Closed
<1>4. ASSUME NEW t \in Tabs, ReceiveMain(t) \/ LoseMain(t) PROVE main[u].op = "login"
  <2>1. tab'[u] = tab[u] \/ u = t
    BY <1>1, <1>4 DEF ReceiveMain, LoseMain
  <2>2. main[t].op = "login" \/ tab'[t] = SignedOut(t)
    BY <1>1, <1>4 DEF ReceiveMain, LoseMain
  <2>3. SignedOut(t).status = "anonymous"
    BY TabValues, Here
  <2> QED BY <2>1, <2>2, <2>3
<1>5. ASSUME NEW t \in Tabs,
             \/ \E a \in Accounts : Login(t, a)
             \/ Logout(t) \/ Request(t) \/ Refused(t) \/ StreamRefused(t) \/ ServerStep(t) \/ EndElsewhere
      PROVE  FALSE
  BY <1>5 DEF Login, Logout, Request, Refused, StreamRefused, ServerStep, ServeRefresh, ServeMain, ServeRequest,
     EndElsewhere
<1>6. ASSUME EndElsewhere PROVE FALSE
  BY <1>6 DEF EndElsewhere
<1>7. CASE UNCHANGED vars
  BY <1>7 DEF vars
<1> QED BY <1>2, <1>3, <1>4, <1>5, <1>6, <1>7 DEF Next, TabStep

(* A tab that has been signed out is signed in again by a sign-in of its own and
   by nothing else, whatever refresh was in flight. *)
THEOREM SignedOutStays == Spec => SignedOutStaysOut
<1>1. Types /\ [Next]_vars =>
        [\A t \in Tabs : /\ tab[t].status = "anonymous" /\ tab'[t].status = "authenticated"
                         => main[t].op = "login"]_vars
  BY OnlySignInSignsIn
<1> QED BY <1>1, AlwaysTypes, PTL DEF Spec, SignedOutStaysOut

-----------------------------------------------------------------------------
(* In a browser with Web Locks, the lock is taken by one tab at a time, in the
   order in which they asked. *)

Busy(t) == refresh[t].at # "idle"
Asking(t) == refresh[t].at \in {"sent", "served"}
Ordered == \A t, u \in Tabs : t # u /\ Busy(t) /\ Busy(u) => t \in before[u] \/ u \in before[t]
Holders == \A t \in Tabs : Asking(t) => before[t] = {}
LockInv == Ordered /\ Holders

LEMMA OneHolder ==
    ASSUME LockInv, NEW t \in Tabs, NEW u \in Tabs, Asking(t), Busy(u), before[u] = {}
    PROVE  t = u
  BY DEF LockInv, Ordered, Holders, Busy, Asking

\* The lock is asked for, or given up, or kept.
LEMMA LockStays ==
    ASSUME LockInv, UNCHANGED before,
           \A u \in Tabs : /\ refresh'[u].at = "idle" <=> refresh[u].at = "idle"
                           /\ refresh'[u].at \in {"sent", "served"} => Asking(u) \/ before[u] = {}
    PROVE  LockInv'
  BY DEF LockInv, Ordered, Holders, Busy, Asking

LEMMA LockAsked ==
    ASSUME Types, LockInv, NEW t \in Tabs, NEW r \in RefreshSet(Named), r.at = "waiting",
           refresh' = [refresh EXCEPT ![t] = r], Queue(t), refresh[t].at = "idle"
    PROVE  LockInv'
<1>1. /\ \A u \in Tabs \ {t} : refresh'[u] = refresh[u] /\ before'[u] = before[u]
      /\ refresh'[t].at = "waiting" /\ before'[t] = {u \in Tabs : refresh[u].at # "idle"}
  BY DEF Types, Tabular, Browsing, Queue
<1> QED BY <1>1 DEF LockInv, Ordered, Holders, Busy, Asking

LEMMA LockGivenUp ==
    ASSUME Types, LockInv, NEW t \in Tabs, refresh' = [refresh EXCEPT ![t] = NoRefresh], Release(t)
    PROVE  LockInv'
<1>1. /\ \A u \in Tabs \ {t} : refresh'[u] = refresh[u] /\ before'[u] = before[u] \ {t}
      /\ refresh'[t].at = "idle"
  BY DEF Types, Tabular, Browsing, Release, NoRefresh
<1>2. Holders'
  BY <1>1 DEF LockInv, Holders, Asking
<1>3. Ordered'
  <2> SUFFICES ASSUME NEW u \in Tabs, NEW v \in Tabs, u # v, Busy(u)', Busy(v)'
               PROVE  u \in before'[v] \/ v \in before'[u]
    BY DEF Ordered
  <2>1. u # t /\ v # t /\ Busy(u) /\ Busy(v)
    BY <1>1 DEF Busy
  <2>2. u \in before[v] \/ v \in before[u]
    BY <2>1 DEF LockInv, Ordered
  <2> QED BY <1>1, <2>1, <2>2
<1> QED BY <1>2, <1>3 DEF LockInv

LEMMA JoinLock == ASSUME Types, LockInv, NEW t \in Tabs, Join(t) PROVE LockInv'
<1>1. PICK r \in RefreshSet(Named) :
        /\ r.at # "idle"
        /\ \/ /\ refresh' = [refresh EXCEPT ![t] = r] /\ refresh[t].at = "idle" /\ Queue(t)
              /\ r.at = "waiting" /\ r.live /\ r.new = 0
           \/ UNCHANGED <<refresh, before>> /\ r = refresh[t]
  BY Joins
<1> QED BY <1>1, LockAsked, LockStays DEF Asking

LEMMA NextLock == ASSUME WebLocks, Types, LockInv, [Next]_vars PROVE LockInv'
<1>1. CASE UNCHANGED <<refresh, before>>
  BY <1>1, LockStays DEF Asking
<1>2. ASSUME NEW t \in Tabs, TabStep(t) PROVE LockInv'
  <2>1. CASE Load(t) \/ Refused(t) \/ StreamRefused(t)
    BY <1>1, <2>1, JoinLock DEF Load, Refused, StreamRefused
  <2>2. CASE Close(t)
    BY <2>2, LockGivenUp DEF Close
  <2>3. CASE \E n, outcome : Settle(t, outcome, n)
    BY <2>3, LockGivenUp DEF Settle
  <2>4. CASE TakeLock(t) /\ UNCHANGED before
             /\ refresh' = [refresh EXCEPT ![t].at = "sent", ![t].sent = cookie, ![t].tok = 0]
    BY <2>4, LockStays DEF TakeLock, Locked, Types, Tabular, RefreshSet, Asking
  <2>5. CASE UNCHANGED before /\ Fence(t)
    BY <2>5, LockStays DEF Fence, Types, Tabular, RefreshSet, Asking
  <2>6. CASE (\E a \in Accounts : Login(t, a)) \/ Logout(t) \/ Request(t)
    BY <1>1, <2>6 DEF Login, Logout, Request, browser
  <2>7. CASE TakeLock(t) \/ ReceiveRefresh(t) \/ LoseRefresh(t)
    BY <2>3, <2>4, <2>7 DEF TakeLock, ReceiveRefresh, LoseRefresh
  <2>8. CASE ReceiveMain(t) \/ LoseMain(t)
    BY <1>1, <2>5, <2>8 DEF ReceiveMain, LoseMain, browser
  <2> QED BY <1>2, <2>1, <2>2, <2>6, <2>7, <2>8 DEF TabStep
<1>3. ASSUME NEW t \in Tabs, ServerStep(t) PROVE LockInv'
  <2>1. CASE ServeRefresh(t)
    <3>1. UNCHANGED before /\ Asking(t)
      BY <2>1 DEF ServeRefresh, browser, Asking
    <3>2. \/ refresh' = [refresh EXCEPT ![t].at = "served", ![t].sent = 0]
          \/ refresh' = [refresh EXCEPT ![t].at = "served", ![t].sent = 0, ![t].new = Len(issued) + 1]
      BY <2>1 DEF ServeRefresh, Rotate, Alarm, Refuse
    <3>3. \A u \in Tabs \ {t} : refresh'[u] = refresh[u]
      BY <3>2 DEF Types, Tabular
    <3>4. refresh'[t].at = "served"
      BY <3>2 DEF Types, Tabular, RefreshSet
    <3> QED BY <3>1, <3>3, <3>4, LockStays DEF Asking
  <2>2. CASE ServeMain(t) \/ ServeRequest(t)
    BY <1>1, <2>2 DEF ServeMain, ServeRequest, browser
  <2> QED BY <1>3, <2>1, <2>2 DEF ServerStep
<1>4. CASE EndElsewhere \/ UNCHANGED vars
  BY <1>1, <1>4 DEF EndElsewhere, browser, vars
<1> QED BY <1>2, <1>3, <1>4 DEF Next

-----------------------------------------------------------------------------
(* No token goes out twice, unless an answer was lost. *)

Brings(t) == refresh[t].at = "served" /\ refresh[t].new # 0
Signs(t) == main[t].at = "served" /\ main[t].new # 0

CookieFresh == cookie \notin spent \/ \E t \in Tabs : Brings(t)
RefreshFresh ==
  \A t \in Tabs : /\ refresh[t].at = "sent" => refresh[t].sent \notin spent
                  /\ Brings(t) => refresh[t].new \notin spent
\* The token that a sign-in has brought is known to nobody else yet.
SignInFresh ==
  \A t \in Tabs : Signs(t) =>
    /\ main[t].new \notin spent /\ main[t].new # cookie
    /\ \A u \in Tabs : /\ refresh[u].at = "sent" => refresh[u].sent # main[t].new
                       /\ Brings(u) => refresh[u].new # main[t].new
                       /\ u # t /\ Signs(u) => main[u].new # main[t].new
AllFresh == ~alarm /\ CookieFresh /\ RefreshFresh /\ SignInFresh
Unspent == lost = 0 => AllFresh

\* A step that brings no token anywhere.
LEMMA UnspentStays ==
    ASSUME Unspent, UNCHANGED <<cookie, spent, alarm>>, lost' = 0 => lost = 0,
           \A t \in Tabs : /\ main'[t].at = "served" => main'[t] = main[t]
                           /\ Asking(t)' => refresh'[t] = refresh[t]
                           /\ lost' = 0 /\ Brings(t) => refresh'[t] = refresh[t]
    PROVE  Unspent'
<1> SUFFICES ASSUME lost' = 0 PROVE AllFresh'
  BY DEF Unspent
<1>1. lost = 0 /\ AllFresh
  BY DEF Unspent
<1>2. CookieFresh' /\ ~alarm'
  BY <1>1 DEF AllFresh, CookieFresh, Brings
<1>3. RefreshFresh'
  BY <1>1 DEF AllFresh, RefreshFresh, Brings, Asking
<1>4. SignInFresh'
  BY <1>1 DEF AllFresh, SignInFresh, Brings, Asking, Signs
<1> QED BY <1>2, <1>3, <1>4 DEF AllFresh

LEMMA LostSome == ASSUME Types, Losing PROVE Unspent'
  BY DEF Types, Counting, Losing, Unspent

\* The refresh of a tab is over, and nothing of it is kept.
LEMMA UnspentSettles ==
    ASSUME Types, Unspent, NEW t \in Tabs, NEW n, NEW outcome, Settle(t, outcome, n),
           UNCHANGED <<cookie, spent, alarm, lost>>, ~Brings(t)
    PROVE  Unspent'
<1>1. \A u \in Tabs : /\ main'[u].at = "served" => main'[u] = main[u]
                      /\ Asking(u)' => refresh'[u] = refresh[u]
                      /\ Brings(u) => refresh'[u] = refresh[u]
  BY DEF Settle, Types, Tabular, NoMain, NoRefresh, Asking
<1> QED BY <1>1, UnspentStays

LEMMA QuietTabsUnspent ==
    ASSUME Types, Unspent, NEW t \in Tabs,
           \/ Load(t) \/ Refused(t) \/ StreamRefused(t) \/ Close(t) \/ Logout(t) \/ Request(t) \/ ServeRequest(t)
           \/ \E a \in Accounts : Login(t, a)
    PROVE  Unspent'
<1>1. CASE Logout(t) \/ Request(t) \/ ServeRequest(t) \/ \E a \in Accounts : Login(t, a)
  <2>1. \A u \in Tabs : main'[u].at = "served" => main'[u] = main[u]
    BY <1>1 DEF Logout, Request, ServeRequest, Login, Types, Tabular, NoMain
  <2> QED BY <1>1, <2>1, UnspentStays DEF Logout, Request, ServeRequest, Login, browser, server, counts, Asking
<1>2. CASE Load(t) \/ Refused(t) \/ StreamRefused(t)
  <2>1. \A u \in Tabs : main'[u].at = "served" => main'[u] = main[u]
    <3>1. CASE Load(t)
      <4>1. \/ main' = [main EXCEPT ![t] = [NoMain EXCEPT !.op = "finish", !.at = "sent", !.tok = cookie]]
            \/ main' = [main EXCEPT ![t] = [NoMain EXCEPT !.op = "boot"]]
        BY <3>1 DEF Load
      <4>2. main'[t].at # "served" /\ \A u \in Tabs \ {t} : main'[u] = main[u]
        BY <4>1 DEF Types, Tabular, NoMain
      <4> QED BY <4>2
    <3>2. CASE Refused(t) \/ StreamRefused(t)
      BY <3>2 DEF Refused, StreamRefused
    <3> QED BY <1>2, <3>1, <3>2
  <2>2. \A u \in Tabs : /\ Asking(u)' => refresh'[u] = refresh[u]
                        /\ Brings(u) => refresh'[u] = refresh[u]
    <3>1. UNCHANGED refresh \/ Join(t)
      BY <1>2 DEF Load, Refused, StreamRefused
    <3>2. CASE Join(t)
      BY <3>2, Joins DEF Types, Tabular, Asking, Brings
    <3> QED BY <3>1, <3>2 DEF Asking
  <2> QED BY <1>2, <2>1, <2>2, UnspentStays DEF Load, Refused, StreamRefused, server, counts
<1>3. CASE Close(t)
  <2>1. CASE Losing
    BY <2>1, LostSome
  <2>2. CASE UNCHANGED lost /\ ~(refresh[t].at \in {"sent", "served"} \/ main[t].at # "idle")
    <3>1. \A u \in Tabs : /\ main'[u].at = "served" => main'[u] = main[u]
                          /\ Asking(u)' => refresh'[u] = refresh[u]
                          /\ Brings(u) => refresh'[u] = refresh[u]
      BY <1>3, <2>2 DEF Close, Types, Tabular, NoMain, NoRefresh, Asking, Brings
    <3> QED BY <1>3, <2>2, <3>1, UnspentStays DEF Close, server
  <2> QED BY <1>3, <2>1, <2>2 DEF Close
<1> QED BY <1>1, <1>2, <1>3

LEMMA TakeLockUnspent ==
    ASSUME WebLocks, Types, LockInv, Unspent, NEW t \in Tabs, TakeLock(t) PROVE Unspent'
<1>1. CASE Settle(t, "superseded", 0) \/ Settle(t, "ok", tab[t].access)
  BY <1>1, UnspentSettles DEF TakeLock, server, counts, Brings
<1>2. CASE /\ UNCHANGED <<before, tab, main, req>>
           /\ refresh' = [refresh EXCEPT ![t].at = "sent", ![t].sent = cookie, ![t].tok = 0]
  <2> SUFFICES ASSUME lost = 0 PROVE AllFresh'
    BY DEF TakeLock, counts, Unspent
  <2>1. AllFresh /\ UNCHANGED <<cookie, spent, alarm, main>>
    BY <1>2 DEF TakeLock, Unspent, server
  <2>2. /\ \A u \in Tabs \ {t} : refresh'[u] = refresh[u]
        /\ refresh'[t].at = "sent" /\ refresh'[t].sent = cookie
    BY <1>2 DEF Types, Tabular, RefreshSet
  <2>3. \A u \in Tabs : ~Brings(u)
    BY OneHolder DEF TakeLock, Locked, Brings, Asking, Busy
  <2>4. cookie \notin spent
    BY <2>1, <2>3 DEF AllFresh, CookieFresh
  <2>5. CookieFresh' /\ RefreshFresh'
    BY <2>1, <2>2, <2>3, <2>4 DEF AllFresh, CookieFresh, RefreshFresh, Brings
  <2>6. SignInFresh'
    BY <2>1, <2>2 DEF AllFresh, SignInFresh, Brings, Signs
  <2> QED BY <2>1, <2>5, <2>6 DEF AllFresh
<1> QED BY <1>1, <1>2 DEF TakeLock

LEMMA ReceiveRefreshUnspent ==
    ASSUME Types, LockInv, Unspent, NEW t \in Tabs, ReceiveRefresh(t) PROVE Unspent'
<1>1. CASE refresh[t].new = 0
  BY <1>1, UnspentSettles DEF ReceiveRefresh, server, counts, Brings
<1>2. CASE refresh[t].new # 0
  <2> SUFFICES ASSUME lost = 0 PROVE AllFresh'
    BY DEF ReceiveRefresh, counts, Unspent
  <2>1. AllFresh /\ UNCHANGED <<spent, alarm>> /\ cookie' = refresh[t].new /\ Brings(t)
    BY <1>2 DEF ReceiveRefresh, Unspent, server, Brings
  <2>2. /\ \A u \in Tabs \ {t} : refresh'[u] = refresh[u]
        /\ refresh'[t].at = "idle"
        /\ \A u \in Tabs : main'[u] = main[u] \/ main'[u].at = "idle"
    BY DEF ReceiveRefresh, Settle, Types, Tabular, NoRefresh, NoMain
  <2>3. CookieFresh' /\ RefreshFresh'
    BY <2>1, <2>2 DEF AllFresh, CookieFresh, RefreshFresh, Brings
  <2>4. SignInFresh'
    BY <2>1, <2>2 DEF AllFresh, SignInFresh, Brings, Signs
  <2> QED BY <2>1, <2>3, <2>4 DEF AllFresh
<1> QED BY <1>1, <1>2

LEMMA ReceiveMainUnspent == ASSUME Types, Unspent, NEW t \in Tabs, ReceiveMain(t) PROVE Unspent'
<1> SUFFICES ASSUME lost = 0 PROVE AllFresh'
  BY DEF ReceiveMain, counts, Unspent
<1>1. AllFresh /\ UNCHANGED <<spent, alarm>> /\ cookie' = main[t].new
  BY DEF ReceiveMain, Unspent, server
<1>2. 0 \notin spent
  BY DEF Types, Serving, Held
<1>3. \A u \in Tabs : /\ refresh'[u].at = refresh[u].at /\ refresh'[u].sent = refresh[u].sent
                      /\ refresh'[u].new = refresh[u].new
  <2>1. CASE UNCHANGED refresh
    BY <2>1
  <2>2. CASE Fence(t)
    BY <2>2, Fenced DEF Types, Tabular
  <2> QED BY <2>1, <2>2 DEF ReceiveMain
<1>4. /\ \A u \in Tabs \ {t} : main'[u] = main[u]
      /\ main'[t].at = "idle" /\ main[t].at = "served"
  BY DEF ReceiveMain, Types, Tabular, NoMain
<1>5. CookieFresh' /\ RefreshFresh'
  BY <1>1, <1>2, <1>3, <1>4 DEF AllFresh, CookieFresh, RefreshFresh, SignInFresh, Brings, Signs
<1>6. SignInFresh'
  <2> SUFFICES ASSUME NEW u \in Tabs, Signs(u)'
               PROVE  /\ main'[u].new \notin spent' /\ main'[u].new # cookie'
                      /\ \A v \in Tabs : /\ refresh'[v].at = "sent" => refresh'[v].sent # main'[u].new
                                         /\ Brings(v)' => refresh'[v].new # main'[u].new
                                         /\ v # u /\ Signs(v)' => main'[v].new # main'[u].new
    BY DEF SignInFresh
  <2>1. u # t /\ Signs(u) /\ main'[u] = main[u]
    BY <1>4 DEF Signs
  <2>2. main[u].new \notin spent /\ main[u].new # main[t].new
    BY <1>1, <1>4, <2>1 DEF AllFresh, SignInFresh, Signs
  <2>3. ASSUME NEW v \in Tabs
        PROVE  /\ refresh'[v].at = "sent" => refresh'[v].sent # main[u].new
               /\ Brings(v)' => refresh'[v].new # main[u].new
               /\ v # u /\ Signs(v)' => main'[v].new # main[u].new
    <3>1. (Brings(v)' => Brings(v)) /\ (Signs(v)' => Signs(v) /\ main'[v] = main[v])
      BY <1>3, <1>4 DEF Brings, Signs
    <3> QED BY <1>1, <1>3, <2>1, <3>1 DEF AllFresh, SignInFresh
  <2> QED BY <1>1, <2>1, <2>2, <2>3
<1> QED BY <1>1, <1>5, <1>6 DEF AllFresh

LEMMA ServeMainUnspent == ASSUME Types, Unspent, NEW t \in Tabs, ServeMain(t) PROVE Unspent'
<1> SUFFICES ASSUME lost = 0 PROVE AllFresh'
  BY DEF ServeMain, counts, Unspent
<1>1. AllFresh /\ UNCHANGED <<spent, alarm, cookie, refresh>>
  BY DEF ServeMain, Unspent, browser
<1>2. /\ \A u \in Tabs \ {t} : main'[u] = main[u]
      /\ ~Signs(t)' \/ main'[t].new = Len(issued) + 1
  <2>1. CASE main[t].op = "login"
    BY <2>1 DEF ServeMain, Types, Tabular, MainSet
  <2>2. CASE main[t].op # "login"
    <3>1. main[t].new = 0
      BY <2>2, Here DEF Fits
    <3> QED BY <2>2, <3>1 DEF ServeMain, Types, Tabular, MainSet, Signs
  <2> QED BY <2>1, <2>2
<1>3. Len(issued) + 1 \notin Named /\ spent \subseteq Named /\ cookie \in Named
  BY DEF Types, Serving, Browsing, Held, Named
<1>4. CookieFresh' /\ RefreshFresh'
  BY <1>1 DEF AllFresh, CookieFresh, RefreshFresh, Brings
<1>5. SignInFresh'
  <2> SUFFICES ASSUME NEW u \in Tabs, Signs(u)'
               PROVE  /\ main'[u].new \notin spent /\ main'[u].new # cookie
                      /\ \A v \in Tabs : /\ refresh[v].at = "sent" => refresh[v].sent # main'[u].new
                                         /\ Brings(v) => refresh[v].new # main'[u].new
                                         /\ v # u /\ Signs(v)' => main'[v].new # main'[u].new
    BY <1>1 DEF SignInFresh, Brings
  <2>1. \A v \in Tabs : refresh[v].sent \in Named /\ refresh[v].new \in Named /\ main[v].new \in Named
    BY DEF Types, Tabular, RefreshSet, MainSet
  <2>2. \A v \in Tabs \ {t} : Signs(v)' <=> Signs(v)
    BY <1>2 DEF Signs
  <2>3. CASE u = t
    BY <1>2, <1>3, <2>1, <2>3
  <2>4. CASE u # t
    <3>1. main'[u] = main[u] /\ Signs(u)
      BY <1>2, <2>2, <2>4
    <3>2. ASSUME NEW v \in Tabs, v # u, Signs(v)' PROVE main'[v].new # main[u].new
      <4>1. CASE v = t
        BY <1>2, <1>3, <2>1, <3>2, <4>1
      <4>2. CASE v # t
        BY <1>1, <1>2, <2>2, <3>1, <3>2, <4>2 DEF AllFresh, SignInFresh
      <4> QED BY <4>1, <4>2
    <3> QED BY <1>1, <3>1, <3>2 DEF AllFresh, SignInFresh
  <2> QED BY <2>3, <2>4
<1> QED BY <1>1, <1>4, <1>5 DEF AllFresh

LEMMA ServeRefreshUnspent ==
    ASSUME Types, LockInv, Unspent, NEW t \in Tabs, ServeRefresh(t) PROVE Unspent'
<1> SUFFICES ASSUME lost = 0 PROVE AllFresh'
  BY DEF ServeRefresh, counts, Unspent
<1>1. AllFresh /\ UNCHANGED <<cookie, main>> /\ refresh[t].at = "sent"
  BY DEF ServeRefresh, Unspent, browser
<1>2. refresh[t].sent \notin spent /\ refresh[t].new = 0
  BY <1>1, Here DEF AllFresh, RefreshFresh, Fits
<1>3. \A u \in Tabs \ {t} : ~Asking(u)
  BY <1>1, OneHolder DEF Asking, Busy, LockInv, Holders
<1>4. CASE Rotate(t, refresh[t].sent)
  <2>1. PICK n : n = Len(issued) + 1
    OBVIOUS
  <2>2. n \notin Named /\ n # 0 /\ spent \subseteq Named /\ cookie \in Named /\ refresh[t].sent \in Named
    BY <2>1 DEF Types, Serving, Browsing, Held, Named, Tabular, RefreshSet
  <2>3. \A u \in Tabs : main[u].new \in Named
    BY DEF Types, Tabular, MainSet
  <2>4. /\ \A u \in Tabs \ {t} : refresh'[u] = refresh[u]
        /\ refresh'[t].at = "served" /\ refresh'[t].new = n
        /\ spent' = spent \cup {refresh[t].sent} /\ UNCHANGED alarm
    BY <1>4, <2>1 DEF Rotate, Types, Tabular, RefreshSet
  <2>5. CookieFresh' /\ RefreshFresh'
    BY <1>3, <2>2, <2>4 DEF CookieFresh, RefreshFresh, Brings, Asking
  <2>6. SignInFresh'
    <3>1. ASSUME NEW u \in Tabs, Signs(u)
          PROVE  /\ main[u].new \notin spent' /\ main[u].new # cookie /\ main[u].new # n
                 /\ \A v \in Tabs : v # u /\ Signs(v) => main[v].new # main[u].new
      BY <1>1, <2>2, <2>3, <2>4, <3>1 DEF AllFresh, SignInFresh
    <3>2. \A v \in Tabs : refresh'[v].at # "sent" /\ (Brings(v)' => refresh'[v].new = n)
      BY <1>3, <2>4 DEF Asking, Brings
    <3>3. \A u \in Tabs : Signs(u)' <=> Signs(u)
      BY <1>1 DEF Signs
    <3> QED BY <1>1, <3>1, <3>2, <3>3 DEF SignInFresh
  <2> QED BY <1>1, <2>4, <2>5, <2>6 DEF AllFresh
<1>5. CASE Refuse(t) /\ UNCHANGED <<spent, alarm>>
  <2>1. /\ \A u \in Tabs \ {t} : refresh'[u] = refresh[u]
        /\ refresh'[t].at = "served" /\ refresh'[t].new = 0
    BY <1>2, <1>5 DEF Refuse, Types, Tabular, RefreshSet
  <2>2. CookieFresh' /\ RefreshFresh'
    BY <1>1, <1>5, <2>1 DEF AllFresh, CookieFresh, RefreshFresh, Brings
  <2>3. SignInFresh'
    BY <1>1, <1>5, <2>1 DEF AllFresh, SignInFresh, Brings, Signs
  <2> QED BY <1>1, <1>5, <2>2, <2>3 DEF AllFresh
<1> QED BY <1>2, <1>4, <1>5 DEF ServeRefresh, Alarm

LEMMA NextUnspent == ASSUME WebLocks, Types, LockInv, Unspent, [Next]_vars PROVE Unspent'
<1>1. ASSUME NEW t \in Tabs, TabStep(t) PROVE Unspent'
  BY <1>1, QuietTabsUnspent, TakeLockUnspent, ReceiveRefreshUnspent, ReceiveMainUnspent, LostSome
     DEF TabStep, LoseRefresh, LoseMain
<1>2. ASSUME NEW t \in Tabs, ServerStep(t) PROVE Unspent'
  BY <1>2, QuietTabsUnspent, ServeMainUnspent, ServeRefreshUnspent DEF ServerStep
<1>3. CASE EndElsewhere \/ UNCHANGED vars
  BY <1>3, UnspentStays DEF EndElsewhere, vars, browser, server, counts, Asking
<1> QED BY <1>1, <1>2, <1>3 DEF Next

(* However many tabs hydrate and refresh at once, the server takes a token for
   stolen only after an answer was lost: the tabs take the lock in turn, and each
   one that has it sends the token that the last answer brought.  A browser
   without Web Locks (api.ts:119) is left out: its tabs take no turns. *)
THEOREM AlarmAfterALoss == WebLocks => (Spec => []AlarmNeedsALoss)
<1> SUFFICES ASSUME WebLocks PROVE Spec => []AlarmNeedsALoss
  OBVIOUS
<1>1. Init => LockInv /\ Unspent
  BY DEF Init, LockInv, Ordered, Holders, Busy, Asking, NoRefresh, NoMain, Unspent, AllFresh, CookieFresh,
     RefreshFresh, SignInFresh, Brings, Signs
<1>2. Types /\ LockInv /\ Unspent /\ [Next]_vars => (LockInv /\ Unspent)'
  BY NextLock, NextUnspent
<1>3. Types /\ Unspent => AlarmNeedsALoss
  BY DEF Types, Counting, Unspent, AllFresh, AlarmNeedsALoss
<1> QED BY <1>1, <1>2, <1>3, AlwaysTypes, PTL DEF Spec

-----------------------------------------------------------------------------
(* Nobody waits in vain. *)

\* Who waits is behind tabs that have a refresh in flight, and behind whoever
\* those are behind.
Line ==
  /\ \A t, u \in Tabs : u \in before[t] => Busy(t) /\ Busy(u) /\ u # t
  /\ \A t, u, v \in Tabs : u \in before[v] /\ v \in before[t] => u \in before[t]

LEMMA LineStays ==
    ASSUME Line, UNCHANGED before, \A u \in Tabs : Busy(u) => Busy(u)'
    PROVE  Line'
  BY DEF Line

LEMMA LineAsked ==
    ASSUME Types, Line, NEW t \in Tabs, NEW r \in RefreshSet(Named), r.at = "waiting",
           refresh' = [refresh EXCEPT ![t] = r], Queue(t), refresh[t].at = "idle"
    PROVE  Line'
<1>1. /\ \A u \in Tabs \ {t} : refresh'[u] = refresh[u] /\ before'[u] = before[u]
      /\ refresh'[t].at = "waiting" /\ before'[t] = {u \in Tabs : Busy(u)} /\ ~Busy(t)
  BY DEF Types, Tabular, Browsing, Queue, Busy
<1>2. /\ \A u \in Tabs : Busy(u) => Busy(u)'
      /\ Busy(t)' /\ \A u \in Tabs : t \notin before[u] /\ u \notin before[t]
  BY <1>1 DEF Line, Busy
<1>3. \A u, v \in Tabs : u \in before'[v] => Busy(v)' /\ Busy(u)' /\ u # v
  <2> SUFFICES ASSUME NEW u \in Tabs, NEW v \in Tabs, u \in before'[v]
               PROVE  Busy(v)' /\ Busy(u)' /\ u # v
    OBVIOUS
  <2>1. CASE v = t
    BY <1>1, <1>2, <2>1
  <2>2. CASE v # t
    BY <1>1, <1>2, <2>2 DEF Line
  <2> QED BY <2>1, <2>2
<1>4. \A u, v, w \in Tabs : u \in before'[v] /\ v \in before'[w] => u \in before'[w]
  <2> SUFFICES ASSUME NEW u \in Tabs, NEW v \in Tabs, NEW w \in Tabs,
                      u \in before'[v], v \in before'[w]
               PROVE  u \in before'[w]
    OBVIOUS
  <2>1. v # t
    BY <1>1, <1>2
  <2>2. CASE w = t
    BY <1>1, <2>1, <2>2 DEF Line
  <2>3. CASE w # t
    BY <1>1, <2>1, <2>3 DEF Line
  <2> QED BY <2>2, <2>3
<1> QED BY <1>3, <1>4 DEF Line

LEMMA LineGivenUp ==
    ASSUME Types, Line, NEW t \in Tabs, refresh' = [refresh EXCEPT ![t] = NoRefresh], Release(t)
    PROVE  Line'
<1>1. /\ \A u \in Tabs \ {t} : refresh'[u] = refresh[u] /\ before'[u] = before[u] \ {t}
      /\ before'[t] = {}
  BY DEF Types, Tabular, Browsing, Release
<1> QED BY <1>1 DEF Line, Busy

LEMMA JoinLine == ASSUME Types, Line, NEW t \in Tabs, Join(t) PROVE Line'
<1>1. PICK r \in RefreshSet(Named) :
        /\ r.at # "idle"
        /\ \/ /\ refresh' = [refresh EXCEPT ![t] = r] /\ refresh[t].at = "idle" /\ Queue(t)
              /\ r.at = "waiting" /\ r.live /\ r.new = 0
           \/ UNCHANGED <<refresh, before>> /\ r = refresh[t]
  BY Joins
<1> QED BY <1>1, LineAsked, LineStays DEF Busy

LEMMA NextLine == ASSUME Types, Line, [Next]_vars PROVE Line'
<1>1. CASE UNCHANGED <<refresh, before>>
  BY <1>1, LineStays DEF Busy
<1>2. ASSUME NEW t \in Tabs, TabStep(t) PROVE Line'
  <2>1. CASE Load(t) \/ Refused(t) \/ StreamRefused(t)
    BY <1>1, <2>1, JoinLine DEF Load, Refused, StreamRefused
  <2>2. CASE Close(t)
    BY <2>2, LineGivenUp DEF Close
  <2>3. CASE \E n, outcome : Settle(t, outcome, n)
    BY <2>3, LineGivenUp DEF Settle
  <2>4. CASE TakeLock(t) /\ UNCHANGED before
             /\ refresh' = [refresh EXCEPT ![t].at = "sent", ![t].sent = cookie, ![t].tok = 0]
    BY <2>4, LineStays DEF Types, Tabular, RefreshSet, Busy
  <2>5. CASE UNCHANGED before /\ Fence(t)
    BY <2>5, LineStays DEF Fence, Types, Tabular, RefreshSet, Busy
  <2>6. CASE (\E a \in Accounts : Login(t, a)) \/ Logout(t) \/ Request(t)
    BY <1>1, <2>6 DEF Login, Logout, Request, browser
  <2>7. CASE TakeLock(t) \/ ReceiveRefresh(t) \/ LoseRefresh(t)
    BY <2>3, <2>4, <2>7 DEF TakeLock, ReceiveRefresh, LoseRefresh
  <2>8. CASE ReceiveMain(t) \/ LoseMain(t)
    BY <1>1, <2>5, <2>8 DEF ReceiveMain, LoseMain, browser
  <2> QED BY <1>2, <2>1, <2>2, <2>6, <2>7, <2>8 DEF TabStep
<1>3. ASSUME NEW t \in Tabs, ServerStep(t) PROVE Line'
  <2>1. CASE ServeRefresh(t)
    <3>1. UNCHANGED before
      BY <2>1 DEF ServeRefresh, browser
    <3>2. \/ refresh' = [refresh EXCEPT ![t].at = "served", ![t].sent = 0]
          \/ refresh' = [refresh EXCEPT ![t].at = "served", ![t].sent = 0, ![t].new = Len(issued) + 1]
      BY <2>1 DEF ServeRefresh, Rotate, Alarm, Refuse
    <3> QED BY <3>1, <3>2, LineStays DEF Types, Tabular, RefreshSet, Busy
  <2>2. CASE ServeMain(t) \/ ServeRequest(t)
    BY <1>1, <2>2 DEF ServeMain, ServeRequest, browser
  <2> QED BY <1>3, <2>1, <2>2 DEF ServerStep
<1>4. CASE EndElsewhere \/ UNCHANGED vars
  BY <1>1, <1>4 DEF EndElsewhere, browser, vars
<1> QED BY <1>2, <1>3, <1>4 DEF Next

(* As long as a refresh is in flight in any tab, one of them waits for no other:
   however tabs queue, are closed and fail, the browser's lock can be handed on
   (withRotationLock). *)
SomebodyIsFirst == (\E t \in Tabs : Busy(t)) => \E t \in Tabs : Busy(t) /\ Locked(t)

(* The tabs before a tab that is not the first come after fewer tabs than it
   does, and there are finitely many. *)
THEOREM TheLockMovesOn == Spec => []SomebodyIsFirst
<1>1. ASSUME Types, Line PROVE SomebodyIsFirst
  <2> SUFFICES ASSUME NEW s \in Tabs, Busy(s), \A t \in Tabs : Busy(t) => before[t] # {}
               PROVE  FALSE
    BY DEF SomebodyIsFirst, Locked
  <2> DEFINE T == {before[t] : t \in {u \in Tabs : Busy(u)}}
  <2>1. before \in [Tabs -> SUBSET Tabs]
    BY <1>1 DEF Types, Browsing
  <2>2. T \subseteq SUBSET Tabs /\ T # {}
    BY <2>1
  <2>3. IsWellFoundedOn(StrictSubsetOrdering(Tabs), SUBSET Tabs)
    BY TabsAssumption, FS_StrictSubsetOrderingWellFounded, FS_FiniteSubsetsOfFinite
  <2>4. PICK A \in T : \A B \in T : <<B, A>> \notin StrictSubsetOrdering(Tabs)
    <3> HIDE DEF T
    <3> QED BY <2>2, <2>3, WFMin
  <2>5. PICK t \in Tabs : Busy(t) /\ A = before[t]
    OBVIOUS
  <2>6. PICK u \in Tabs : u \in before[t]
    BY <2>1, <2>5
  <2>7. Busy(u) /\ u \notin before[u] /\ before[u] \subseteq before[t]
    BY <1>1, <2>1, <2>6 DEF Line
  <2>8. before[u] \in T
    BY <2>7
  <2>9. <<before[u], A>> \in StrictSubsetOrdering(Tabs)
    BY <2>1, <2>5, <2>6, <2>7 DEF StrictSubsetOrdering
  <2> QED BY <2>4, <2>8, <2>9
<1>2. Init => Line
  BY DEF Init, Line
<1>3. Types /\ Line /\ [Next]_vars => Line'
  BY NextLine
<1> QED BY <1>1, <1>2, <1>3, AlwaysTypes, PTL DEF Spec

\* A page that loads has something under way that will tell what to show: its own
\* refresh, which nothing has fenced off, or the end of a pending logout.
Driven(t) ==
  tab[t].up /\ tab[t].status = "loading" =>
    \/ main[t].op = "boot" /\ Busy(t) /\ refresh[t].live
    \/ main[t].op = "finish" /\ main[t].at \in {"sent", "served"}
AllDriven == \A t \in Tabs : Driven(t)

LEMMA DrivenFrame ==
    ASSUME AllDriven, NEW t \in Tabs, Driven(t)',
           \A u \in Tabs \ {t} : tab'[u] = tab[u] /\ main'[u] = main[u] /\ refresh'[u] = refresh[u]
    PROVE  AllDriven'
<1>1. ASSUME NEW u \in Tabs \ {t} PROVE Driven(u)'
  BY DEF AllDriven, Driven, Busy
<1> QED BY <1>1 DEF AllDriven

LEMMA Hydrates ==
    ASSUME Types, AllDriven, NEW t \in Tabs, main[t].op = "boot"
    PROVE  /\ tab[t].up /\ tab[t].status = "loading" /\ tab[t].access = 0
           /\ Busy(t) /\ refresh[t].live
  BY Here DEF AllDriven, Driven, Fits, TabSet, None

\* The refresh of a tab that hydrates ends by signing it in or out.
LEMMA SettleDriven ==
    ASSUME Types, AllDriven, NEW t \in Tabs, NEW n \in Named, NEW outcome, Settle(t, outcome, n),
           main[t].op = "boot" =>
             outcome \in {"rejected", "failed"} \/ (outcome = "ok" /\ refresh[t].at = "served")
    PROVE  AllDriven'
<1>0. /\ tab \in [Tabs -> TabSet(Named)] /\ main \in [Tabs -> MainSet(Named)]
      /\ refresh \in [Tabs -> RefreshSet(Named)] /\ tab[t] \in TabSet(Named)
      /\ SignedOut(t) \in TabSet(Named) /\ SignedInWith(t, n) \in TabSet(Named)
      /\ SignedOut(t).status = "anonymous" /\ SignedInWith(t, n).status = "authenticated"
  BY Here, TabValues DEF Types, Tabular
<1>1. \A u \in Tabs \ {t} : tab'[u] = tab[u] /\ main'[u] = main[u] /\ refresh'[u] = refresh[u]
  BY <1>0 DEF Settle
<1>2. CASE main[t].op = "boot"
  <2>1. CASE outcome = "rejected"
    <3>1. PICK y \in TabSet(Named) : y = SignedOut(t)
      BY <1>0
    <3>2. tab' = [tab EXCEPT ![t] = [y EXCEPT !.rejected = TRUE]]
      BY <1>2, <2>1, <3>1 DEF Settle
    <3>3. tab'[t].status = "anonymous"
      BY <1>0, <3>1, <3>2 DEF TabSet
    <3> QED BY <1>1, <3>3, DrivenFrame DEF Driven
  <2>2. CASE outcome = "failed"
    <3>1. tab' = [tab EXCEPT ![t] = [tab[t] EXCEPT !.status = "anonymous"]]
      BY <1>2, <2>2 DEF Settle
    <3>2. tab'[t].status = "anonymous"
      BY <1>0, <3>1 DEF TabSet
    <3> QED BY <1>1, <3>2, DrivenFrame DEF Driven
  <2>3. CASE outcome = "ok" /\ refresh[t].at = "served"
    <3>1. tab' = [tab EXCEPT ![t] = SignedInWith(t, n)]
      BY <2>3 DEF Settle
    <3>2. tab'[t].status = "authenticated"
      BY <1>0, <3>1
    <3> QED BY <1>1, <3>2, DrivenFrame DEF Driven
  <2> QED BY <1>2, <2>1, <2>2, <2>3
<1>3. CASE main[t].op # "boot"
  <2>1. main' = main
    BY <1>3 DEF Settle
  <2>2. tab'[t].up /\ tab'[t].status = "loading" => tab[t].up /\ tab[t].status = "loading"
    <3>1. CASE outcome = "ok" /\ refresh[t].at = "served"
      BY <1>0, <3>1 DEF Settle
    <3>2. CASE outcome = "rejected"
      <4>1. PICK y \in TabSet(Named) : /\ y = SignedOut(t) \/ y = tab[t]
                                       /\ tab' = [tab EXCEPT ![t] = [y EXCEPT !.rejected = TRUE]]
        BY <1>0, <3>2 DEF Settle
      <4>2. tab'[t].up = y.up /\ tab'[t].status = y.status
        BY <1>0, <4>1 DEF TabSet
      <4> QED BY <1>0, <4>1, <4>2
    <3>3. CASE outcome # "rejected" /\ ~(outcome = "ok" /\ refresh[t].at = "served")
      <4>1. tab' = [tab EXCEPT ![t] = tab[t]]
        BY <1>3, <3>3 DEF Settle
      <4> QED BY <1>0, <4>1
    <3> QED BY <3>1, <3>2, <3>3
  <2>3. Driven(t)'
    BY <1>3, <2>1, <2>2 DEF AllDriven, Driven
  <2> QED BY <1>1, <2>3, DrivenFrame
<1> QED BY <1>2, <1>3

LEMMA LoadDriven == ASSUME Types, AllDriven, NEW t \in Tabs, Load(t) PROVE AllDriven'
<1>0. /\ tab \in [Tabs -> TabSet(Named)] /\ main \in [Tabs -> MainSet(Named)]
      /\ refresh \in [Tabs -> RefreshSet(Named)] /\ refresh[t].at = "idle"
  BY Here DEF Types, Tabular, Load, Fits
<1>1. CASE Pending /\ UNCHANGED <<refresh, before>>
           /\ main' = [main EXCEPT ![t] = [NoMain EXCEPT !.op = "finish", !.at = "sent", !.tok = cookie]]
  <2>1. main'[t].op = "finish" /\ main'[t].at = "sent"
    BY <1>0, <1>1 DEF NoMain
  <2>2. Driven(t)' /\ \A u \in Tabs \ {t} : tab'[u] = tab[u] /\ main'[u] = main[u] /\ refresh'[u] = refresh[u]
    BY <1>0, <1>1, <2>1 DEF Load, Driven
  <2> QED BY <2>2, DrivenFrame
<1>2. CASE ~Pending /\ Join(t) /\ main' = [main EXCEPT ![t] = [NoMain EXCEPT !.op = "boot"]]
  <2>1. PICK r \in RefreshSet(Named) : refresh' = [refresh EXCEPT ![t] = r] /\ r.at = "waiting" /\ r.live
    BY <1>0, <1>2, Joins
  <2>2. main'[t].op = "boot" /\ Busy(t)' /\ refresh'[t].live
    BY <1>0, <1>2, <2>1 DEF NoMain, Busy
  <2>3. Driven(t)' /\ \A u \in Tabs \ {t} : tab'[u] = tab[u] /\ main'[u] = main[u] /\ refresh'[u] = refresh[u]
    BY <1>0, <1>2, <2>1, <2>2 DEF Load, Driven
  <2> QED BY <2>3, DrivenFrame
<1> QED BY <1>1, <1>2 DEF Load

LEMMA ServeDriven == ASSUME Types, AllDriven, NEW t \in Tabs, ServerStep(t) PROVE AllDriven'
<1>0. /\ main \in [Tabs -> MainSet(Named)] /\ refresh \in [Tabs -> RefreshSet(Named)]
      /\ main[t] \in MainSet(Named) /\ refresh[t] \in RefreshSet(Named)
  BY Here DEF Types, Tabular
<1>1. CASE ServeRefresh(t)
  <2>1. \/ refresh' = [refresh EXCEPT ![t].at = "served", ![t].sent = 0]
        \/ refresh' = [refresh EXCEPT ![t].at = "served", ![t].sent = 0, ![t].new = Len(issued) + 1]
    BY <1>1 DEF ServeRefresh, Rotate, Alarm, Refuse
  <2>2. /\ refresh'[t].at = "served" /\ refresh'[t].live = refresh[t].live
        /\ \A u \in Tabs \ {t} : refresh'[u] = refresh[u]
    BY <1>0, <2>1 DEF RefreshSet
  <2>3. UNCHANGED <<tab, main>>
    BY <1>1 DEF ServeRefresh
  <2>4. Driven(t)'
    BY <2>2, <2>3 DEF AllDriven, Driven, Busy
  <2> QED BY <2>2, <2>3, <2>4, DrivenFrame
<1>2. CASE ServeMain(t)
  <2>1. \/ main' = [main EXCEPT ![t].at = "served", ![t].new = Len(issued) + 1]
        \/ main' = [main EXCEPT ![t].at = "served", ![t].tok = 0]
    BY <1>2 DEF ServeMain
  <2>2. /\ main'[t].at = "served" /\ main'[t].op = main[t].op
        /\ \A u \in Tabs \ {t} : main'[u] = main[u]
    BY <1>0, <2>1 DEF MainSet
  <2>3. UNCHANGED <<tab, refresh>>
    BY <1>2 DEF ServeMain
  <2>4. Driven(t)'
    BY <2>2, <2>3 DEF AllDriven, Driven, Busy
  <2> QED BY <2>2, <2>3, <2>4, DrivenFrame
<1>3. CASE ServeRequest(t)
  BY <1>3 DEF ServeRequest, AllDriven, Driven, Busy
<1> QED BY <1>1, <1>2, <1>3 DEF ServerStep

LEMMA TabDriven == ASSUME Types, AllDriven, NEW t \in Tabs, TabStep(t) PROVE AllDriven'
<1>0. /\ tab \in [Tabs -> TabSet(Named)] /\ main \in [Tabs -> MainSet(Named)]
      /\ refresh \in [Tabs -> RefreshSet(Named)] /\ 0 \in Named
      /\ tab[t].access \in Named /\ refresh[t].new \in Named /\ main[t].new \in Named
  BY Here DEF Types, Tabular, TabSet, RefreshSet, MainSet
<1>1. CASE Load(t)
  BY <1>1, LoadDriven
<1>2. CASE Close(t)
  <2>1. /\ ~tab'[t].up
        /\ \A u \in Tabs \ {t} : tab'[u] = tab[u] /\ main'[u] = main[u] /\ refresh'[u] = refresh[u]
    BY <1>0, <1>2 DEF Close, Closed
  <2> QED BY <2>1, DrivenFrame DEF Driven
<1>3. CASE (\E a \in Accounts : Login(t, a)) \/ Logout(t)
  <2>1. /\ tab' = tab /\ refresh' = refresh /\ tab[t].status # "loading"
        /\ \A u \in Tabs \ {t} : main'[u] = main[u]
    BY <1>0, <1>3 DEF Login, Logout
  <2> QED BY <2>1, DrivenFrame DEF Driven
<1>4. CASE Request(t)
  BY <1>4 DEF Request, AllDriven, Driven, Busy
<1>5. CASE TakeLock(t)
  <2>1. CASE Settle(t, "superseded", 0) /\ ~refresh[t].live
    BY <1>0, <2>1, Hydrates, SettleDriven
  <2>2. CASE Settle(t, "ok", tab[t].access) /\ tab[t].access \notin {0, refresh[t].tok}
    BY <1>0, <2>2, Hydrates, SettleDriven
  <2>3. CASE /\ UNCHANGED <<before, tab, main, req>>
             /\ refresh' = [refresh EXCEPT ![t].at = "sent", ![t].sent = cookie, ![t].tok = 0]
    <3>1. /\ refresh'[t].at = "sent" /\ refresh'[t].live = refresh[t].live
          /\ \A u \in Tabs \ {t} : refresh'[u] = refresh[u]
      BY <1>0, <2>3 DEF RefreshSet
    <3>2. Driven(t)'
      BY <2>3, <3>1 DEF AllDriven, Driven, Busy
    <3> QED BY <2>3, <3>1, <3>2, DrivenFrame
  <2> QED BY <1>5, <2>1, <2>2, <2>3 DEF TakeLock
<1>6. CASE ReceiveRefresh(t)
  <2>1. main[t].op = "boot" => Outcome(t) = "rejected" \/ (Outcome(t) = "ok" /\ refresh[t].at = "served")
    BY <1>6, Hydrates DEF Outcome, ReceiveRefresh
  <2>2. Settle(t, Outcome(t), refresh[t].new)
    BY <1>6 DEF ReceiveRefresh
  <2> QED BY <1>0, <2>1, <2>2, SettleDriven
<1>7. CASE LoseRefresh(t)
  BY <1>0, <1>7, SettleDriven DEF LoseRefresh
<1>8. CASE ReceiveMain(t) \/ LoseMain(t)
  <2>1. /\ \A u \in Tabs \ {t} : tab'[u] = tab[u] /\ main'[u] = main[u] /\ refresh'[u] = refresh[u]
        /\ main[t].op # "boot" /\ main[t].at # "idle"
    <3>1. main[t].at # "idle"
      BY <1>8 DEF ReceiveMain, LoseMain
    <3>2. main[t].op # "boot"
      BY <3>1, Here DEF Fits
    <3> QED BY <1>0, <1>8, <3>1, <3>2 DEF ReceiveMain, LoseMain, Fence
  <2>2. tab'[t].status # "loading" \/ (main[t].op = "login" /\ tab' = tab)
    <3>1. SignedOut(t).status = "anonymous"
      BY <1>0, TabValues
    <3>2. PICK y \in TabSet(Named) : y = SignedInWith(t, main[t].new) /\ y.status = "authenticated"
      BY <1>0, TabValues
    <3>3. [y EXCEPT !.barred = FALSE].status = "authenticated"
      BY <3>2 DEF TabSet
    <3> QED BY <1>0, <1>8, <3>1, <3>2, <3>3 DEF ReceiveMain, LoseMain
  <2>3. main[t].op = "login" => ~(tab[t].up /\ tab[t].status = "loading")
    BY <2>1 DEF AllDriven, Driven
  <2>4. Driven(t)'
    BY <2>2, <2>3 DEF Driven
  <2> QED BY <2>1, <2>4, DrivenFrame
<1>9. CASE Refused(t) \/ StreamRefused(t)
  <2>1. UNCHANGED <<tab, main>> /\ (Join(t) \/ UNCHANGED refresh)
    BY <1>9 DEF Refused, StreamRefused
  <2>2. CASE UNCHANGED refresh
    BY <2>1, <2>2 DEF AllDriven, Driven, Busy
  <2>3. CASE Join(t)
    <3>1. PICK r \in RefreshSet(Named) :
            \/ refresh' = [refresh EXCEPT ![t] = r] /\ r.at # "idle" /\ r.live
            \/ UNCHANGED refresh
      BY <2>3, Joins
    <3>2. Driven(t)' /\ \A u \in Tabs \ {t} : refresh'[u] = refresh[u]
      BY <1>0, <2>1, <3>1 DEF AllDriven, Driven, Busy
    <3> QED BY <2>1, <3>2, DrivenFrame
  <2> QED BY <2>1, <2>2, <2>3
<1> QED BY <1>1, <1>2, <1>3, <1>4, <1>5, <1>6, <1>7, <1>8, <1>9 DEF TabStep

(* A page never stays loading with nothing under way to end it, whatever it was
   told, closed or refused meanwhile: its refresh is in flight and is not fenced
   off, or the logout that it finishes first has yet to be answered
   (bootstrapSession). *)
THEOREM LoadingIsServed == Spec => []AllDriven
<1>1. Init => AllDriven
  BY DEF Init, AllDriven, Driven, Closed
<1>2. Types /\ AllDriven /\ [Next]_vars => AllDriven'
  <2> SUFFICES ASSUME Types, AllDriven, [Next]_vars PROVE AllDriven'
    OBVIOUS
  <2>1. CASE \E t \in Tabs : TabStep(t) \/ ServerStep(t)
    BY <2>1, TabDriven, ServeDriven
  <2>2. CASE EndElsewhere \/ UNCHANGED vars
    BY <2>2 DEF EndElsewhere, vars, AllDriven, Driven, Busy
  <2> QED BY <2>1, <2>2 DEF Next
<1> QED BY <1>1, <1>2, AlwaysTypes, PTL DEF Spec
=============================================================================
