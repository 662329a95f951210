----------------------------- MODULE ClientCache -----------------------------
(* One cached answer of a client (its view), the screens that show it, the    *)
(* requests that change what it should say, and the notices the server        *)
(* pushes.  Both clients keep their answers in TanStack Query; what that      *)
(* library does with them is modelled here, what each client asks of it comes *)
(* from the tables of WebClient and MobileClient.  The rows behind the view   *)
(* are a version, one up at every change.                                     *)
EXTENDS Integers, FiniteSets

CONSTANTS Clients,     \* the clients
          Views, Writes,
          Table,       \* by client: what its hooks and its screens do
          Subjects,    \* what one behaviour is about: the client, the view, the
                       \* writes, the requests in flight at a time, and
                       \* whether anything happens meanwhile
          Accounts,    \* who may sign in, one after the other
          MaxSlots,    \* bound: requests of one client in flight at a time
          MaxServer    \* bound: changes of the rows

None == -1
Versions == 0..MaxServer
Slots == 1..MaxSlots
Max2(a, b) == IF a >= b THEN a ELSE b

VARIABLES subject,   \* [client, view, writes, slots, busy]: does not change
          account,   \* who is signed in, or "nobody"
          place,     \* [route, below, dialog]: the screen in front, those
                     \* still mounted below it, the dialog that is open
          server,    \* the version of the rows behind the view
          query,     \* the client's entry for the view
          job,       \* the writes in flight, by slot
          due,       \* ghost: the newest own write the view was told to show
          news,      \* ghost: the newest change announced to this client
          stream     \* [open, waiting]: the event stream
vars == <<subject, account, place, server, query, job, due, news, stream>>

T == Table[subject.client]
View == subject.view

NoQuery == [data |-> None, of |-> "nobody", stale |-> FALSE, fetch |-> "idle", ver |-> 0,
            late |-> FALSE, overtaken |-> FALSE, failed |-> FALSE]
NoWrite == [does |-> "none", st |-> "free", ver |-> 0, here |-> FALSE, own |-> FALSE,
            kept |-> None, of |-> "nobody"]

----------------------------------------------------------------------------
(* Screens.  A part is mounted on its route, or on every route, and within    *)
(* the dialog it belongs to, if it belongs to one.  The mobile client leaves  *)
(* a screen mounted below the one opened from it.                             *)
Showing == [c \in Clients |-> [v \in Views |-> {x \in Table[c].parts : v \in x.shows}]]
Offering == [c \in Clients |-> [w \in Writes |-> {x \in Table[c].parts : \E o \in x.offers : o.does = w}]]
Pulling == [c \in Clients |-> [v \in Views |-> {x \in Table[c].parts : v \in x.reload \cup x.pull}]]

InFront(x, p) == x.at \in {p.route, "everywhere"} /\ x.opens \in {p.dialog, "always"}
Up(x, p) == InFront(x, p) \/ (x.at \in p.below /\ x.opens = "always")
ShowAt(p) == \E x \in Showing[subject.client][View] : Up(x, p)
SignedIn == account # "nobody"
Shown == SignedIn /\ ShowAt(place)
Start == [route |-> "home", below |-> {}, dialog |-> "closed"]

ASSUME SubjectsAssumption ==
    /\ MaxServer \in Nat /\ MaxSlots \in Nat
    /\ Subjects \subseteq [client : Clients, view : Views, writes : SUBSET Writes,
                          slots : Slots, busy : BOOLEAN]
    /\ \A x \in Subjects : Showing[x.client][x.view] # {}

\* What the callbacks of both clients have in common: what is shown ahead of an
\* answer is asked for again whatever the answer is, and an answer that is
\* written over a view which others change as well is followed by a load.
ASSUME HooksAssumption ==
    \A c \in Clients, w \in Writes :
        /\ Table[c].optimistic[w] \subseteq Table[c].always[w]
        /\ Table[c].always[w] \subseteq Table[c].follows[w]
        /\ Table[c].sets[w] \cap Table[c].announced \subseteq Table[c].follows[w]

\* What matters to the subject; the other screens differ in nothing.
Parts == UNION ({Showing[subject.client][View]} \cup {Offering[subject.client][w] : w \in subject.writes})
Routes == ({x.at : x \in Parts} \ {"everywhere"}) \cup {"home"}
Dialogs == {x.opens : x \in {x \in Parts : x.at \in {place.route, "everywhere"}}} \ {"always"}

\* What the view has to do with a write of the subject.
Follows(w) == View \in T.follows[w]
Sets(w) == View \in T.sets[w]
Promised(w) == /\ View \in T.changes[w]
               /\ <<w, View>> \notin T.gaps

----------------------------------------------------------------------------
(* TanStack Query.                                                            *)
Asked(q) == [q EXCEPT !.fetch = "asked", !.late = FALSE, !.failed = FALSE]

\* A component that starts to show the query: it is loaded when there is
\* nothing, or nothing current, and a request on its way is joined.
OnMount(q) == IF q.fetch = "idle" /\ (q.data = None \/ q.stale) THEN Asked(q) ELSE q

\* The last component is gone.  Only a query that hands on its abort signal
\* gives its request up.
OnUnmount(q) == IF View \in T.abortable THEN [q EXCEPT !.fetch = "idle", !.late = FALSE] ELSE q

\* A request on its way is joined instead of given up.
Invalidated_Joins(q) ==
    [q EXCEPT !.stale = TRUE, !.overtaken = FALSE,
              !.fetch = IF Shown /\ @ = "idle" THEN "asked" ELSE @, !.failed = FALSE]

\* invalidateQueries: the entry is out of date; if a component shows it, it is
\* asked for again, and an older request given up, unless that is the first
\* one and there is nothing to show yet.
Invalidated(q) ==
    LET first == q.data = None /\ q.fetch # "idle"
        again == Shown /\ ~first
    IN IF q.data = None /\ q.fetch = "idle" /\ ~Shown THEN q
       ELSE [q EXCEPT !.stale = TRUE, !.overtaken = FALSE,
                      !.fetch = IF again THEN "asked" ELSE @,
                      !.late = ~again /\ (q.late \/ q.fetch = "answered"),
                      !.failed = @ /\ ~again]

\* setQueryData: current from now on; a request on its way is not given up.
Written(q, data, who) ==
    [q EXCEPT !.data = data, !.of = who, !.stale = FALSE, !.overtaken = FALSE, !.failed = FALSE,
              !.late = q.late \/ q.fetch = "answered"]

\* What is written to the device of it.
Kept(q) == [q EXCEPT !.fetch = "idle", !.late = FALSE, !.overtaken = FALSE, !.failed = FALSE]

\* cancelQueries.
Cancelled(q) == [q EXCEPT !.fetch = "idle", !.late = FALSE]

----------------------------------------------------------------------------
(* The person.                                                                *)
\* A change of screen: what no longer shows unmounts, what comes up mounts;
\* the requests sent from a part that is gone are not known to the next one.
Move(p) ==
    /\ place' = p
    /\ query' = IF ShowAt(p) THEN OnMount(query)
                ELSE IF ShowAt(place) THEN OnUnmount(query) ELSE query
    /\ job' = [s \in Slots |->
                 [job[s] EXCEPT !.here = @ /\ \E x \in Offering[subject.client][job[s].does] :
                                                  Up(x, p) /\ Up(x, place)]]
    /\ UNCHANGED <<subject, account, server, due, news, stream>>

Go(r) == /\ SignedIn /\ r # place.route
         /\ Move([route |-> r, dialog |-> "closed",
                  below |-> IF T.stacked THEN (place.below \cup {place.route}) \ {r} ELSE {}])

Back(r) == /\ SignedIn /\ place.dialog = "closed" /\ r \in place.below
           /\ Move([route |-> r, dialog |-> "closed", below |-> place.below \ {r}])

Open(d) == /\ SignedIn /\ place.dialog = "closed"
           /\ Move([place EXCEPT !.dialog = d])

\* Most dialogs stay open while what was sent from them is pending.
Holding == \E x \in T.parts : /\ x.holds /\ x.at = place.route /\ x.opens = place.dialog
                             /\ \E s \in Slots : \E o \in x.offers : job[s].here /\ job[s].does = o.does

Close == /\ SignedIn /\ place.dialog # "closed" /\ ~Holding
         /\ Move([place EXCEPT !.dialog = "closed"])

\* A button of a mounted part: it needs what it is drawn from, and is off
\* while a request of this mounting that it waits for is pending.
Submit(s, w) ==
    /\ job[s].st = "free" /\ s <= subject.slots
    /\ \A t \in Slots : t < s => job[t].st # "free"
    /\ SignedIn
    /\ \E x \in Offering[subject.client][w] : \E o \in x.offers :
          /\ InFront(x, place) /\ o.does = w
          /\ View \in o.needs => query.data # None
          /\ ~\E t \in Slots : job[t].here /\ job[t].does \in o.unless
    /\ job' = [job EXCEPT ![s] = [does |-> w, st |-> "sent", ver |-> 0, here |-> TRUE, own |-> TRUE,
                                  kept |-> IF View \in T.optimistic[w] THEN query.data ELSE None,
                                  of |-> account]]
    \* onMutate: what is shown is changed ahead of the answer.  It awaits the
    \* library's cancelQueries before it writes; that promise is settled by the
    \* cancelling itself, so that no answer, notice, timer or touch is handled
    \* between the two, and they are one step here.
    /\ query' = IF View \in T.optimistic[w]
                THEN IF query.data = None THEN Cancelled(query)
                     ELSE Written(Cancelled(query), query.data, query.of)
                ELSE query
    /\ UNCHANGED <<subject, account, place, server, due, news, stream>>

\* "Try again" on a part whose load failed; pulling a list down reloads it at
\* any time.
Reload ==
    /\ SignedIn
    /\ \E x \in Pulling[subject.client][View] :
          InFront(x, place) /\ (query.failed \/ View \in x.pull)
    /\ query' = IF query.data = None /\ query.fetch # "idle" THEN query ELSE Asked(query)
    /\ UNCHANGED <<subject, account, place, server, job, due, news, stream>>

Gone(j) == [j EXCEPT !.own = FALSE, !.here = FALSE]
Closed == [open |-> FALSE, waiting |-> FALSE]

\* The store is emptied, and the cache with it; what was sent is not called
\* back.
EndSession ==
    /\ account' = "nobody"
    /\ place' = Start
    /\ query' = NoQuery
    /\ stream' = Closed
    /\ due' = 0 /\ news' = 0

SignOut ==
    /\ SignedIn
    /\ EndSession
    /\ job' = [s \in Slots |-> Gone(job[s])]
    /\ UNCHANGED <<subject, server>>

\* The program is ended and started again: of its answers there are those it
\* keeps on the device, as they were written there a moment ago.
Restart ==
    /\ SignedIn
    /\ place' = Start
    /\ \E q \in {NoQuery} \cup IF View \in T.persisted THEN {Kept(query)} ELSE {} :
          query' = IF ShowAt(Start) THEN OnMount(q) ELSE q
    /\ job' = [s \in Slots |-> NoWrite]
    /\ stream' = Closed
    /\ due' = 0 /\ news' = 0
    /\ UNCHANGED <<subject, account, server>>

SignIn(a) ==
    /\ ~SignedIn
    /\ account' = a
    /\ query' = IF ShowAt(place) THEN OnMount(query) ELSE query
    /\ UNCHANGED <<subject, place, server, job, due, news, stream>>

----------------------------------------------------------------------------
(* The requests.                                                              *)
Touch(w) == IF View \in T.changes[w] THEN server + 1 ELSE server

Commit(s) ==
    /\ job[s].st = "sent" /\ Touch(job[s].does) <= MaxServer
    /\ server' = Touch(job[s].does)
    /\ job' = [job EXCEPT ![s].st = "done", ![s].ver = server']
    /\ UNCHANGED <<subject, account, place, query, due, news, stream>>

\* The request is refused, or its answer is lost after the change was made.
Refuse(s) ==
    /\ job[s].st = "sent"
    /\ job' = [job EXCEPT ![s].st = "failed", ![s].ver = server]
    /\ UNCHANGED <<subject, account, place, server, query, due, news, stream>>

LoseAnswer(s) ==
    /\ job[s].st = "done"
    /\ job' = [job EXCEPT ![s].st = "failed"]
    /\ UNCHANGED <<subject, account, place, server, query, due, news, stream>>

\* The mobile client takes an answer that outlived its session for a failure;
\* the web client does not look.
Good(j) == j.st = "done" /\ (j.own \/ ~T.fenced)

\* onSuccess, or onError: what is shown ahead of the answer is taken back.
Called(j) ==
    IF Good(j)
    THEN IF View \in T.drops[j.does] THEN NoQuery
         ELSE IF Sets(j.does) THEN [Written(query, j.ver, j.of) EXCEPT !.overtaken = j.ver < due]
         ELSE query
    ELSE IF View \in T.optimistic[j.does] /\ j.kept # None
         THEN Written(query, j.kept, j.of) ELSE query

\* The answer reaches the mutation's callbacks.
Settle(s) ==
    /\ job[s].st \in {"done", "failed"}
    /\ ~(Good(job[s]) /\ job[s].does \in T.ends)
    /\ LET j == job[s]
           tells == Good(j) \/ View \in T.always[j.does]
       IN /\ query' = IF tells /\ Follows(j.does) THEN Invalidated(Called(j)) ELSE Called(j)
          /\ due' = IF j.own /\ tells /\ Promised(j.does) THEN Max2(due, j.ver) ELSE due
    /\ job' = [job EXCEPT ![s] = NoWrite]
    /\ UNCHANGED <<subject, account, place, server, news, stream>>

\* A write that ends the session on the server ends it here, whoever is signed
\* in by then.
SettleEnds(s) ==
    /\ job[s].st = "done" /\ Good(job[s]) /\ job[s].does \in T.ends
    /\ EndSession
    /\ job' = [t \in Slots |-> IF t = s THEN NoWrite ELSE Gone(job[t])]
    /\ UNCHANGED <<subject, server>>

----------------------------------------------------------------------------
(* Loading, and the passage of time.                                          *)
FetchRead ==
    /\ query.fetch = "asked" /\ SignedIn
    /\ query' = [query EXCEPT !.fetch = "answered", !.ver = server]
    /\ UNCHANGED <<subject, account, place, server, job, due, news, stream>>

FetchReceive ==
    /\ query.fetch = "answered"
    /\ query' = [NoQuery EXCEPT !.data = query.ver, !.of = account, !.ver = query.ver,
                                !.overtaken = query.late /\ query.ver < Max2(due, news)]
    /\ UNCHANGED <<subject, account, place, server, job, due, news, stream>>

FetchFail ==
    /\ query.fetch # "idle"
    /\ query' = [query EXCEPT !.fetch = "idle", !.late = FALSE, !.failed = TRUE, !.stale = TRUE]
    /\ UNCHANGED <<subject, account, place, server, job, due, news, stream>>

\* staleTime runs out; gcTime runs out for a query nothing shows.
Age ==
    /\ subject.busy /\ query.data # None /\ ~query.stale
    /\ query' = [query EXCEPT !.stale = TRUE]
    /\ UNCHANGED <<subject, account, place, server, job, due, news, stream>>

Collect ==
    /\ ~Shown /\ query.fetch = "idle" /\ query # NoQuery
    /\ query' = NoQuery
    /\ UNCHANGED <<subject, account, place, server, job, due, news, stream>>

\* The mobile client's screen is looked at again: what is not current is asked
\* for.
Refocus ==
    /\ T.stacked /\ Shown
    /\ OnMount(query) # query
    /\ query' = OnMount(query)
    /\ UNCHANGED <<subject, account, place, server, job, due, news, stream>>

\* A failed load ends the interval.
Poll_UntilFailed ==
    /\ View \in T.polled /\ Shown /\ query.fetch = "idle" /\ ~query.failed
    /\ query' = Asked(query)
    /\ UNCHANGED <<subject, account, place, server, job, due, news, stream>>

\* refetchInterval, while a component shows the query.
Poll ==
    /\ View \in T.polled /\ Shown /\ query.fetch = "idle"
    /\ query' = Asked(query)
    /\ UNCHANGED <<subject, account, place, server, job, due, news, stream>>

----------------------------------------------------------------------------
(* The event stream: a change elsewhere is announced to the connections there *)
(* are; a new connection, and one that lost a signal, is told to load again.  *)
Announced == View \in T.announced

Elsewhere ==
    /\ subject.busy /\ (Announced \/ View \in T.polled)
    /\ server < MaxServer
    /\ server' = server + 1
    /\ news' = IF stream.open THEN server' ELSE news
    /\ stream' = [stream EXCEPT !.waiting = stream.open]
    /\ UNCHANGED <<subject, account, place, query, job, due>>

Connect_Trusting ==
    /\ subject.busy /\ Announced /\ SignedIn /\ ~stream.open
    /\ stream' = [open |-> TRUE, waiting |-> FALSE]
    /\ news' = server
    /\ UNCHANGED <<subject, account, place, server, query, job, due>>

Connect ==
    /\ subject.busy /\ Announced /\ SignedIn /\ ~stream.open
    /\ stream' = [open |-> TRUE, waiting |-> TRUE]
    /\ news' = server
    /\ UNCHANGED <<subject, account, place, server, query, job, due>>

Disconnect ==
    /\ stream.open
    /\ stream' = Closed
    /\ news' = 0
    /\ UNCHANGED <<subject, account, place, server, query, job, due>>

Deliver ==
    /\ stream.waiting
    /\ stream' = [stream EXCEPT !.waiting = FALSE]
    /\ query' = Invalidated(query)
    /\ UNCHANGED <<subject, account, place, server, job, due, news>>

----------------------------------------------------------------------------
Init ==
    /\ subject \in Subjects
    /\ account = "nobody"
    /\ place = Start
    /\ server = 0 /\ query = NoQuery
    /\ job = [s \in Slots |-> NoWrite]
    /\ due = 0 /\ news = 0
    /\ stream = Closed

Next ==
    \/ \E r \in Routes : Go(r) \/ Back(r)
    \/ \E d \in Dialogs : Open(d)
    \/ Close
    \/ \E s \in Slots, w \in subject.writes : Submit(s, w)
    \/ Reload \/ Refocus
    \/ SignOut \/ Restart
    \/ \E a \in Accounts : SignIn(a)
    \/ \E s \in Slots : Commit(s) \/ Refuse(s) \/ LoseAnswer(s) \/ Settle(s) \/ SettleEnds(s)
    \/ FetchRead \/ FetchReceive \/ FetchFail \/ Age \/ Collect \/ Poll
    \/ Elsewhere \/ Connect \/ Disconnect \/ Deliver

\* Answers reach their callbacks; a poll comes round; a load that is tried
\* again and again gets through in the end.
Fairness == WF_vars(Poll) /\ SF_vars(FetchRead) /\ SF_vars(FetchReceive)

Spec == Init /\ [][Next]_vars
FairSpec == Spec /\ Fairness

----------------------------------------------------------------------------
(* Properties.                                                                *)
Query == [data : Versions \cup {None}, of : Accounts \cup {"nobody"}, stale : BOOLEAN,
          fetch : {"idle", "asked", "answered"}, ver : Versions, late : BOOLEAN,
          overtaken : BOOLEAN, failed : BOOLEAN]
Write == [does : Writes \cup {"none"}, st : {"free", "sent", "done", "failed"}, ver : Versions,
          here : BOOLEAN, own : BOOLEAN, kept : Versions \cup {None}, of : Accounts \cup {"nobody"}]

\* Every variable has its type.
TypeOK ==
    /\ subject \in Subjects
    /\ account \in Accounts \cup {"nobody"}
    /\ place \in [route : Routes, below : SUBSET Routes, dialog : {x.opens : x \in Parts} \cup {"closed"}]
    /\ place.route \notin place.below
    /\ server \in Versions /\ due \in Versions /\ news \in Versions
    /\ query \in Query /\ job \in [Slots -> Write]
    /\ stream \in [open : BOOLEAN, waiting : BOOLEAN]

\* What is shown as current: loaded, not out of date, nothing on its way, and
\* no change shown ahead of its answer.
Ahead == \E s \in Slots : job[s].own /\ job[s].st # "free" /\ View \in T.optimistic[job[s].does]
Current == /\ query.data # None /\ query.of = account
           /\ ~query.stale /\ query.fetch = "idle" /\ ~Ahead

\* Once the callback of a person's own write has run, every screen it was
\* meant to reach shows that write, or knows that it has to load again: none
\* of the interleavings with loads already on their way, with screens that
\* come and go, or with a second write that fails and is taken back, leaves an
\* older answer standing as current, other than a load or an answer of a write
\* that was overtaken by it.
OwnWritesShown == Current => query.data >= due \/ query.overtaken

\* A change the server announced to a connection of this client, or that was
\* made before that connection opened, is shown, or the answer that lacks it
\* is known to be out of date, from the moment the signal is delivered.
NewsReaches == Current /\ stream.open /\ ~stream.waiting => query.data >= news \/ query.overtaken

Forgotten == [c \in Clients |-> [v \in Views |->
    {w \in Writes : /\ Offering[c][w] # {} /\ Showing[c][v] # {}
                    /\ v \in Table[c].changes[w] /\ <<w, v>> \notin Table[c].gaps
                    /\ v \notin Table[c].follows[w] \cup Table[c].sets[w] \cup Table[c].drops[w]
                    /\ w \notin Table[c].ends}]]

\* What a write of either client makes out of date among the answers that
\* client shows is told to load again, written over or dropped by the write's
\* own callback, but for the pairs the tables name as left to time.
NothingForgotten == Forgotten[subject.client][View] = {}

\* A view that is polled and stays on screen comes to show the present state
\* again and again, even if no signal and no callback ever tells of a change.
ShownCatchesUp == <>[](Shown /\ View \in T.polled) => []<>(query.data = server)
=============================================================================
