-------------------------- MODULE ClientCacheProofs --------------------------
(* Theorems about ClientCache, for any tables whose callbacks do what          *)
(* HooksAssumption says, any views, writes, people and bounds.  The run checks *)
(* that the tables of the two clients are such, and that nothing is forgotten. *)
EXTENDS ClientCache, TLAPS

InFlight(s) == job[s].st # "free"

\* A write in flight was sent from a screen that offers it.
Sent == \A s \in Slots : InFlight(s) => /\ job[s].does \in Writes
                                        /\ Offering[subject.client][job[s].does] # {}
                                        /\ job[s].ver <= server

\* Nothing is expected of a cache that belongs to nobody, or of a stream that is
\* closed.
Owing == /\ due <= server /\ news <= server
         /\ ~SignedIn => /\ due = 0 /\ ~stream.open
                         /\ \A s \in Slots : InFlight(s) => ~job[s].own
         /\ stream.open => Announced

\* An entry q shows no less than the version n, or knows that it may not: an
\* answer on its way that is older was marked when n was told.
Owes(q, who, ahead, n) ==
    /\ q.fetch = "answered" /\ q.ver < n => q.late
    /\ q.data # None /\ q.of = who /\ ~q.stale /\ ~ahead => q.data >= n \/ q.overtaken

Told == Owes(query, account, Ahead, due)
Heard == stream.open /\ ~stream.waiting => Owes(query, account, Ahead, news)

Base == TypeOK /\ Sent /\ Owing

-----------------------------------------------------------------------------
(* What the operations of the query library return.                           *)

\* An entry that will be asked for again, or holds nothing.
Warned(q) == (q.data = None \/ q.stale) /\ (q.fetch = "answered" => q.late)

\* r is q but for loads and marks: nothing that was known of it is forgotten.
Follow(q, r) ==
    /\ r.data = q.data /\ r.of = q.of
    /\ q.stale => r.stale
    /\ q.overtaken => r.overtaken
    /\ r.fetch = "answered" => q.fetch = "answered" /\ r.ver = q.ver /\ (q.late => r.late)

LEMMA WarnedOwes ==
    ASSUME NEW q, Warned(q), NEW who, NEW ahead, NEW n PROVE Owes(q, who, ahead, n)
  BY DEF Warned, Owes

LEMMA FollowOwes ==
    ASSUME NEW q, NEW r, Follow(q, r), NEW who, NEW ahead, NEW later, ahead => later,
           NEW n, Owes(q, who, ahead, n)
    PROVE  Owes(r, who, later, n)
  BY DEF Follow, Owes

LEMMA NothingOwed ==
    ASSUME NEW q \in Query, NEW who, NEW ahead PROVE Owes(q, who, ahead, 0)
  BY SubjectsAssumption DEF Query, Owes, Versions, None

LEMMA EmptyEntry == NoQuery \in Query /\ Warned(NoQuery)
  BY SubjectsAssumption DEF NoQuery, Query, Versions, None, Warned

LEMMA LoadEntry ==
    ASSUME NEW q \in Query
    PROVE  /\ Asked(q) \in Query /\ OnMount(q) \in Query /\ OnUnmount(q) \in Query
           /\ Cancelled(q) \in Query /\ Kept(q) \in Query
           /\ Follow(q, Asked(q)) /\ Follow(q, OnMount(q)) /\ Follow(q, OnUnmount(q))
           /\ Follow(q, Cancelled(q))
<1>1. Asked(q) \in Query /\ Follow(q, Asked(q)) /\ Follow(q, q)
  BY DEF Query, Asked, Follow
<1>2. Cancelled(q) \in Query /\ Follow(q, Cancelled(q))
  BY DEF Query, Cancelled, Follow
<1>3. Kept(q) \in Query
  BY DEF Query, Kept
<1>4. OnUnmount(q) \in {q, Cancelled(q)} /\ OnMount(q) \in {q, Asked(q)}
  BY DEF OnUnmount, OnMount, Cancelled
<1> QED
  BY <1>1, <1>2, <1>3, <1>4

LEMMA ToldEntry ==
    ASSUME NEW q \in Query PROVE Invalidated(q) \in Query /\ Warned(Invalidated(q))
<1> DEFINE first == q.data = None /\ q.fetch # "idle"
           again == Shown /\ ~first
           late == ~again /\ (q.late \/ q.fetch = "answered")
           failed == q.failed /\ ~again
           r == [q EXCEPT !.stale = TRUE, !.overtaken = FALSE, !.fetch = IF again THEN "asked" ELSE @,
                          !.late = late, !.failed = failed]
<1>1. CASE q.data = None /\ q.fetch = "idle" /\ ~Shown
  BY <1>1 DEF Invalidated, Warned
<1>2. CASE ~(q.data = None /\ q.fetch = "idle" /\ ~Shown)
  <2>1. Invalidated(q) = r
    BY <1>2 DEF Invalidated
  <2>2. late \in BOOLEAN /\ failed \in BOOLEAN /\ (~again /\ q.fetch = "answered" => late)
    BY DEF Query
  <2> HIDE DEF again, late, failed
  <2>3. r \in Query /\ r.stale /\ r.late = late /\ (r.fetch = "answered" => ~again /\ q.fetch = "answered")
    BY <2>2 DEF Query
  <2> QED
    BY <2>1, <2>2, <2>3 DEF Warned
<1> QED
  BY <1>1, <1>2

LEMMA WrittenEntry ==
    ASSUME NEW q \in Query, NEW v \in Versions \cup {None}, NEW who \in Accounts \cup {"nobody"}
    PROVE  /\ Written(q, v, who) \in Query
           /\ Written(q, v, who).data = v
           /\ Written(q, v, who).fetch = "answered" => Written(q, v, who).late
  BY DEF Query, Written

-----------------------------------------------------------------------------
(* The parts of a step that several actions share.                            *)

\* Only the entry changes: what it owed, it owes.
LEMMA QueryStep ==
    ASSUME Base, query' \in Query,
           UNCHANGED <<subject, account, place, server, job, due, news, stream>>,
           \A n \in {due, news} : Owes(query, account, Ahead, n) => Owes(query', account, Ahead, n)
    PROVE  Base' /\ (Heard => Heard') /\ (Told => Told')
<1>1. TypeOK'
  BY DEF Base, TypeOK, Parts, Routes, View
<1>2. Sent' /\ Owing'
  BY DEF Base, Sent, InFlight, Owing, SignedIn, Announced, T, View
<1>3. Ahead' = Ahead
  BY DEF Ahead, T, View
<1> QED
  BY <1>1, <1>2, <1>3 DEF Base, Heard, Told

\* The entry changes by loads and marks alone.
LEMMA FollowStep ==
    ASSUME Base, query' \in Query, Follow(query, query'),
           UNCHANGED <<subject, account, place, server, job, due, news, stream>>
    PROVE  Base' /\ (Heard => Heard') /\ (Told => Told')
  BY FollowOwes, QueryStep

\* A change of screen.
LEMMA MoveStep ==
    ASSUME Base, NEW p \in [route : Routes, below : SUBSET Routes,
                            dialog : {x.opens : x \in Parts} \cup {"closed"}],
           p.route \notin p.below, Move(p)
    PROVE  Base' /\ (Heard => Heard') /\ (Told => Told')
<1>1. query' \in Query /\ Follow(query, query')
  BY LoadEntry DEF Base, TypeOK, Move, Follow
<1>2. /\ job' \in [Slots -> Write]
      /\ \A s \in Slots : /\ job'[s].does = job[s].does /\ job'[s].st = job[s].st
                         /\ job'[s].own = job[s].own /\ job'[s].ver = job[s].ver
  <2> DEFINE still(s) == \E x \in Offering[subject.client][job[s].does] : Up(x, p) /\ Up(x, place)
  <2>1. job' = [s \in Slots |-> [job[s] EXCEPT !.here = job[s].here /\ still(s)]]
    BY DEF Move
  <2>2. \A s \in Slots : job[s] \in Write /\ still(s) \in BOOLEAN
    BY DEF Base, TypeOK
  <2> HIDE DEF still
  <2> QED
    BY <2>1, <2>2 DEF Write
<1>0. place' = p /\ UNCHANGED <<subject, account, server, due, news, stream>>
  BY DEF Move
<1>3. TypeOK'
  <2>1. Parts' = Parts /\ Routes' = Routes
    BY <1>0 DEF Parts, Routes, View
  <2> QED
    BY <1>0, <1>1, <1>2, <2>1 DEF Base, TypeOK
<1>4. Sent' /\ Owing'
  BY <1>0, <1>2 DEF Base, Sent, InFlight, Owing, SignedIn, Announced, T, View
<1>5. Ahead' = Ahead
  BY <1>0, <1>2 DEF Ahead, T, View
<1> QED
  BY <1>0, <1>1, <1>3, <1>4, <1>5, FollowOwes DEF Base, Heard, Told

\* The four actions that change the screen.
LEMMA ScreenSteps ==
    ASSUME Base, (\E r \in Routes : Go(r) \/ Back(r)) \/ (\E d \in Dialogs : Open(d)) \/ Close
    PROVE  Base' /\ (Heard => Heard') /\ (Told => Told')
<1>1. CASE \E r \in Routes : Go(r)
  BY <1>1, MoveStep DEF Go, Base, TypeOK
<1>2. CASE \E r \in Routes : Back(r)
  BY <1>2, MoveStep DEF Back, Base, TypeOK
<1>3. CASE \E d \in Dialogs : Open(d)
  BY <1>3, MoveStep DEF Open, Dialogs, Base, TypeOK
<1>4. CASE Close
  BY <1>4, MoveStep DEF Close, Base, TypeOK
<1> QED
  BY <1>1, <1>2, <1>3, <1>4

\* The actions of which the entry is all that changes.
LEMMA LoadSteps ==
    ASSUME Base, Reload \/ Refocus \/ FetchRead \/ FetchReceive \/ FetchFail \/ Age \/ Collect \/ Poll
    PROVE  Base' /\ (Heard => Heard') /\ (Told => Told')
<1>0. query \in Query /\ server \in Versions /\ due \in Versions /\ news \in Versions
      /\ account \in Accounts \cup {"nobody"} /\ due <= server /\ news <= server
  BY DEF Base, TypeOK, Owing
<1>1. CASE Reload \/ Refocus \/ Poll
  <2>1. query' \in Query /\ Follow(query, query')
    BY <1>0, <1>1, LoadEntry DEF Reload, Refocus, Poll, Follow
  <2> QED
    BY <1>1, <2>1, FollowStep DEF Reload, Refocus, Poll
<1>2. CASE FetchFail \/ Age
  <2>1. query' \in Query /\ Follow(query, query')
    BY <1>0, <1>2 DEF FetchFail, Age, Query, Follow
  <2> QED
    BY <1>2, <2>1, FollowStep DEF FetchFail, Age
<1>3. CASE Collect
  BY <1>3, EmptyEntry, WarnedOwes, QueryStep DEF Collect
<1>4. CASE FetchRead
  <2>1. query' \in Query
    BY <1>0, <1>4 DEF FetchRead, Query
  <2>2. \A n \in {due, news} : Owes(query, account, Ahead, n) => Owes(query', account, Ahead, n)
    BY <1>0, <1>4 DEF FetchRead, Query, Owes, Versions
  <2> QED
    BY <1>4, <2>1, <2>2, QueryStep DEF FetchRead
<1>5. CASE FetchReceive
  <2>1. query' \in Query
    BY <1>0, <1>5 DEF FetchReceive, Query, NoQuery
  <2>2. \A n \in {due, news} : Owes(query, account, Ahead, n) => Owes(query', account, Ahead, n)
    BY <1>0, <1>5 DEF FetchReceive, Query, NoQuery, Owes, Versions, Max2
  <2> QED
    BY <1>5, <2>1, <2>2, QueryStep DEF FetchReceive
<1> QED
  BY <1>1, <1>2, <1>3, <1>4, <1>5

\* What is shown ahead of an answer does not stand as current until the answer
\* is there; what was on its way is given up.
LEMMA SubmitStep ==
    ASSUME Base, NEW s \in Slots, NEW w \in subject.writes, Submit(s, w)
    PROVE  Base' /\ (Heard => Heard') /\ (Told => Told')
<1>0. /\ query \in Query /\ job \in [Slots -> Write] /\ w \in Writes
      /\ account \in Accounts /\ account # "nobody" /\ server \in Versions
  BY SubjectsAssumption DEF Base, TypeOK, Submit, SignedIn
<1>1. query' \in Query
  <2>1. Written(Cancelled(query), query.data, query.of) \in Query
    BY <1>0, LoadEntry, WrittenEntry DEF Query
  <2> QED
    BY <1>0, <2>1, LoadEntry DEF Submit
<1>2. job' = [job EXCEPT ![s] = [does |-> w, st |-> "sent", ver |-> 0, here |-> TRUE, own |-> TRUE,
                                 kept |-> job'[s].kept, of |-> account]]
      /\ job'[s].kept \in Versions \cup {None}
  BY <1>0 DEF Submit, Query
<1>3. job' \in [Slots -> Write]
  <2> DEFINE sent == [does |-> w, st |-> "sent", ver |-> 0, here |-> TRUE, own |-> TRUE,
                      kept |-> job'[s].kept, of |-> account]
  <2>1. sent \in Write
    BY <1>0, <1>2, SubjectsAssumption DEF Write, Versions
  <2> HIDE DEF sent
  <2>2. job' = [job EXCEPT ![s] = sent]
    BY <1>2 DEF sent
  <2> QED
    BY <1>0, <2>1, <2>2
<1>4. TypeOK'
  <2>1. Parts' = Parts /\ Routes' = Routes
    BY DEF Submit, Parts, Routes, View
  <2> QED
    BY <1>1, <1>3, <2>1 DEF Base, TypeOK, Submit
<1>5. Sent'
  <2>1. Offering[subject.client][w] # {} /\ 0 <= server
    BY <1>0, SubjectsAssumption DEF Submit, Versions
  <2> QED
    BY <1>0, <1>2, <2>1 DEF Base, Sent, InFlight, Submit
<1>6. Owing'
  BY <1>0 DEF Base, Owing, SignedIn, Announced, T, View, Submit
<1>7. Ahead => Ahead'
  BY <1>0, <1>2 DEF Ahead, T, View, Submit
<1>8. CASE View \in T.optimistic[w]
  <2>1. Ahead'
    BY <1>0, <1>2, <1>8 DEF Ahead, T, View, Submit
  <2>2. query'.fetch = "idle"
    BY <1>0, <1>8 DEF Submit, Cancelled, Written, Query
  <2> QED
    BY <1>4, <1>5, <1>6, <2>1, <2>2 DEF Base, Heard, Told, Owes
<1>9. CASE View \notin T.optimistic[w]
  BY <1>4, <1>5, <1>6, <1>7, <1>9, FollowOwes DEF Base, Heard, Told, Submit, Follow
<1> QED
  BY <1>8, <1>9

\* Whatever ends the session, or the program, expects nothing of what is left.
LEMMA SessionSteps ==
    ASSUME Base, SignOut \/ Restart \/ (\E a \in Accounts : SignIn(a)) \/ (\E s \in Slots : SettleEnds(s))
    PROVE  Base' /\ Heard' /\ Told'
<1>0. /\ query \in Query /\ job \in [Slots -> Write] /\ NoQuery \in Query /\ NoWrite \in Write
      /\ server \in Versions /\ 0 \in Versions /\ 0 <= server
      /\ Start \in [route : Routes, below : SUBSET Routes, dialog : {x.opens : x \in Parts} \cup {"closed"}]
      /\ Start.route \notin Start.below
  BY EmptyEntry, SubjectsAssumption
  DEF Base, TypeOK, NoWrite, Write, Start, Routes, Versions, None
<1>1. /\ subject' = subject /\ server' = server /\ due' = 0 /\ ~stream'.open
      /\ news' \in Versions /\ news' <= server' /\ stream' \in [open : BOOLEAN, waiting : BOOLEAN]
      /\ account' \in Accounts \cup {"nobody"}
      /\ place' \in [route : Routes, below : SUBSET Routes, dialog : {x.opens : x \in Parts} \cup {"closed"}]
      /\ place'.route \notin place'.below
  <2>1. CASE SignOut \/ (\E s \in Slots : SettleEnds(s))
    <3>1. EndSession /\ UNCHANGED <<subject, server>>
      BY <2>1 DEF SignOut, SettleEnds
    <3>2. Closed \in [open : BOOLEAN, waiting : BOOLEAN] /\ ~Closed.open
      BY DEF Closed
    <3> QED
      BY <1>0, <3>1, <3>2 DEF EndSession
  <2>2. CASE Restart
    BY <1>0, <2>2 DEF Base, TypeOK, Restart, Closed
  <2>3. CASE \E a \in Accounts : SignIn(a)
    BY <1>0, <2>3 DEF Base, TypeOK, Owing, SignedIn, SignIn
  <2> QED
    BY <2>1, <2>2, <2>3
<1>2. query' \in Query
  BY <1>0, LoadEntry DEF SignOut, Restart, SignIn, SettleEnds, EndSession
<1>3. /\ job' \in [Slots -> Write]
      /\ \A s \in Slots : job'[s].st # "free" =>
             /\ job[s].st # "free" /\ job'[s].does = job[s].does /\ job'[s].ver = job[s].ver
             /\ account' = "nobody" => ~job'[s].own
  <2>1. \A s \in Slots : /\ Gone(job[s]) \in Write /\ Gone(job[s]).st = job[s].st /\ ~Gone(job[s]).own
                         /\ Gone(job[s]).does = job[s].does /\ Gone(job[s]).ver = job[s].ver
    BY <1>0 DEF Gone, Write
  <2>2. NoWrite.st = "free"
    BY DEF NoWrite
  <2>3. CASE SignOut
    BY <1>0, <2>1, <2>3 DEF SignOut
  <2>4. CASE Restart
    BY <1>0, <2>2, <2>4 DEF Restart
  <2>5. CASE \E a \in Accounts : SignIn(a)
    BY <1>0, <2>5 DEF SignIn, Base, Owing, InFlight, SignedIn
  <2>6. CASE \E s \in Slots : SettleEnds(s)
    BY <1>0, <2>1, <2>2, <2>6 DEF SettleEnds
  <2> QED
    BY <2>3, <2>4, <2>5, <2>6
<1>4. TypeOK'
  <2>1. Parts' = Parts /\ Routes' = Routes
    BY <1>1 DEF Parts, Routes, View
  <2> QED
    BY <1>0, <1>1, <1>2, <1>3, <2>1 DEF Base, TypeOK
<1>5. Sent' /\ Owing'
  BY <1>0, <1>1, <1>3 DEF Base, Sent, InFlight, Owing, SignedIn
<1>6. Heard' /\ Told'
  BY <1>1, <1>2, NothingOwed DEF Heard, Told
<1> QED
  BY <1>4, <1>5, <1>6 DEF Base

\* The server answers, or nothing does.
LEMMA ServerSteps ==
    ASSUME Base, NEW s \in Slots, Commit(s) \/ Refuse(s) \/ LoseAnswer(s)
    PROVE  Base' /\ (Heard => Heard') /\ (Told => Told')
<1>0. job \in [Slots -> Write] /\ server \in Versions /\ MaxServer \in Nat
  BY SubjectsAssumption DEF Base, TypeOK
<1>1. server' \in Versions /\ server <= server'
  BY <1>0 DEF Commit, Refuse, LoseAnswer, Touch, Versions
<1>2. /\ job' \in [Slots -> Write] /\ job[s].st # "free" /\ job'[s].st # "free" /\ job'[s].ver <= server'
      /\ job'[s].does = job[s].does /\ job'[s].own = job[s].own
      /\ \A t \in Slots : t # s => job'[t] = job[t]
  <2>1. CASE Commit(s)
    <3>1. [job[s] EXCEPT !.st = "done", !.ver = server'] \in Write
      BY <1>0, <1>1 DEF Write
    <3>2. job' = [job EXCEPT ![s] = [job[s] EXCEPT !.st = "done", !.ver = server']]
      BY <1>0, <2>1 DEF Commit
    <3>3. job[s].st # "free" /\ server' <= server'
      BY <1>1, <2>1 DEF Commit, Versions
    <3> QED
      BY <1>0, <3>1, <3>2, <3>3 DEF Write
  <2>2. CASE Refuse(s)
    <3>1. [job[s] EXCEPT !.st = "failed", !.ver = server] \in Write
      BY <1>0 DEF Write
    <3>3. server' = server /\ job[s].st # "free"
      BY <2>2 DEF Refuse
    <3>4. server <= server
      BY <1>0 DEF Versions
    <3>2. job' = [job EXCEPT ![s] = [job[s] EXCEPT !.st = "failed", !.ver = server]]
      BY <1>0, <2>2 DEF Refuse
    <3> QED
      BY <1>0, <3>1, <3>2, <3>3, <3>4 DEF Write
  <2>3. CASE LoseAnswer(s)
    <3>1. /\ [job[s] EXCEPT !.st = "failed"] \in Write
          /\ server' = server /\ job[s].ver <= server /\ job[s].st # "free"
      BY <1>0, <2>3 DEF LoseAnswer, Write, Base, Sent, InFlight
    <3>2. job' = [job EXCEPT ![s] = [job[s] EXCEPT !.st = "failed"]]
      BY <1>0, <2>3 DEF LoseAnswer
    <3> QED
      BY <1>0, <3>1, <3>2 DEF Write
  <2> QED
    BY <2>1, <2>2, <2>3
<1>3. UNCHANGED <<subject, account, place, query, due, news, stream>>
  BY DEF Commit, Refuse, LoseAnswer
<1>4. TypeOK'
  <2>1. Parts' = Parts /\ Routes' = Routes
    BY <1>3 DEF Parts, Routes, View
  <2> QED
    BY <1>1, <1>2, <1>3, <2>1 DEF Base, TypeOK
<1>5. Sent'
  <2>1. \A t \in Slots : InFlight(t)' => /\ InFlight(t) /\ job'[t].does = job[t].does
                                        /\ job'[t].ver <= server'
    BY <1>0, <1>1, <1>2 DEF Base, Sent, InFlight, Write, Versions
  <2> QED
    BY <1>3, <2>1 DEF Base, Sent
<1>6. Owing'
  BY <1>0, <1>1, <1>2, <1>3 DEF Base, TypeOK, Owing, InFlight, SignedIn, Announced, T, View, Versions
<1>7. Ahead' = Ahead
  BY <1>2, <1>3 DEF Ahead, T, View
<1> QED
  BY <1>3, <1>4, <1>5, <1>6, <1>7 DEF Base, Heard, Told

-----------------------------------------------------------------------------
(* The callbacks of a write, and the event stream.                            *)

LEMMA MarkedEntry ==
    ASSUME NEW q \in Query, NEW b \in BOOLEAN
    PROVE  /\ [q EXCEPT !.overtaken = b] \in Query /\ [q EXCEPT !.overtaken = b].overtaken = b
           /\ [q EXCEPT !.overtaken = b].data = q.data
           /\ [q EXCEPT !.overtaken = b].fetch = q.fetch /\ [q EXCEPT !.overtaken = b].late = q.late
  BY DEF Query

\* What onSuccess and onError leave is an entry.
LEMMA CalledEntry ==
    ASSUME NEW j \in Write, query \in Query, due \in Versions PROVE Called(j) \in Query
<1>1. Written(query, j.ver, j.of) \in Query /\ Written(query, j.kept, j.of) \in Query
  BY WrittenEntry DEF Write
<1>2. [Written(query, j.ver, j.of) EXCEPT !.overtaken = (j.ver < due)] \in Query
  <2>1. (j.ver < due) \in BOOLEAN
    OBVIOUS
  <2> QED
    BY <1>1, <2>1, MarkedEntry
<1> QED
  BY <1>1, <1>2, EmptyEntry DEF Called

LEMMA SettleBase ==
    ASSUME Base, NEW s \in Slots, Settle(s) PROVE Base'
<1>0. job \in [Slots -> Write] /\ query \in Query /\ job[s].ver <= server /\ due \in Versions /\ server \in Versions
  BY DEF Base, TypeOK, Sent, InFlight, Settle
<1>1. query' \in Query
  BY <1>0, CalledEntry, ToldEntry DEF Settle
<1>2. job' \in [Slots -> Write] /\ job'[s].st = "free" /\ \A t \in Slots : t # s => job'[t] = job[t]
  <2>1. NoWrite \in Write /\ NoWrite.st = "free"
    BY SubjectsAssumption DEF NoWrite, Write, Versions, None
  <2> QED
    BY <1>0, <2>1 DEF Settle
<1>3. due' \in Versions /\ due' <= server /\ (account = "nobody" => due' = due)
  <2>1. account = "nobody" => ~job[s].own
    BY DEF Base, Owing, SignedIn, InFlight, Settle
  <2>2. due' \in {due, Max2(due, job[s].ver)} /\ (~job[s].own => due' = due)
    BY DEF Settle
  <2> QED
    BY <1>0, <2>1, <2>2 DEF Max2, Versions, Write, Base, Owing
<1>4. UNCHANGED <<subject, account, place, server, news, stream>>
  BY DEF Settle
<1>5. TypeOK'
  <2>1. Parts' = Parts /\ Routes' = Routes
    BY <1>4 DEF Parts, Routes, View
  <2> QED
    BY <1>1, <1>2, <1>3, <1>4, <2>1 DEF Base, TypeOK
<1>6. Sent'
  BY <1>2, <1>4 DEF Base, Sent, InFlight
<1>7. Owing'
  BY <1>2, <1>3, <1>4 DEF Base, Owing, InFlight, SignedIn, Announced, T, View
<1> QED
  BY <1>5, <1>6, <1>7 DEF Base

\* A write that is not shown ahead of its answer leaves the others as they were.
LEMMA SettleAhead ==
    ASSUME NEW s \in Slots, Settle(s), job \in [Slots -> Write], View \notin T.optimistic[job[s].does], Ahead
    PROVE  Ahead'
<1>1. PICK t \in Slots : job[t].own /\ job[t].st # "free" /\ View \in T.optimistic[job[t].does]
  BY DEF Ahead
<1>2. t # s /\ job'[t] = job[t] /\ subject' = subject
  BY <1>1 DEF Settle
<1> QED
  BY <1>1, <1>2 DEF Ahead, T, View

\* The answer reaches the callbacks, and what was promised is kept: what is
\* told to load again cannot stand as current, what was not shown ahead of a
\* refusal was not touched, and an answer written over the entry is no older
\* than what it has to show, or says so.
LEMMA SettleStep ==
    ASSUME Base, NEW s \in Slots, Settle(s)
    PROVE  /\ Heard => Heard'
           /\ NothingForgotten /\ Told => Told'
<1> DEFINE j == job[s]
           tells == Good(j) \/ View \in T.always[j.does]
<1>0. /\ j \in Write /\ job \in [Slots -> Write] /\ query \in Query /\ j.does \in Writes
      /\ subject.client \in Clients /\ subject.view \in Views /\ Offering[subject.client][j.does] # {}
      /\ Showing[subject.client][View] # {}
      /\ due \in Versions /\ UNCHANGED <<subject, account, stream, news>>
  BY SubjectsAssumption DEF Base, TypeOK, Sent, InFlight, Settle, View
<1>1. /\ View \in T.optimistic[j.does] => View \in T.always[j.does]
      /\ View \in T.always[j.does] => Follows(j.does)
      /\ Sets(j.does) /\ Announced => Follows(j.does)
  BY <1>0, HooksAssumption DEF T, View, Follows, Sets, Announced
<1>2. CASE tells /\ Follows(j.does)
  <2>1. Warned(query')
    BY <1>0, <1>2, CalledEntry, ToldEntry DEF Settle
  <2> QED
    BY <2>1, WarnedOwes DEF Heard, Told
<1>3. CASE ~tells
  <2>1. query' = query /\ due' = due
    BY <1>1, <1>3 DEF Settle, Called
  <2>2. Ahead => Ahead'
    BY <1>0, <1>1, <1>3, SettleAhead
  <2> QED
    BY <1>0, <2>1, <2>2, FollowOwes DEF Heard, Told, Follow
<1>4. CASE tells /\ ~Follows(j.does)
  <2>1. Good(j) /\ (Ahead => Ahead')
    BY <1>0, <1>1, <1>4, SettleAhead
  <2>2. query' = Called(j) /\ (due' = due \/ due' = Max2(due, j.ver)) /\ (~Promised(j.does) => due' = due)
    BY <1>4 DEF Settle
  <2>3. CASE View \in T.drops[j.does]
    BY <2>1, <2>2, <2>3, EmptyEntry, WarnedOwes DEF Called, Heard, Told
  <2>4. CASE View \notin T.drops[j.does] /\ Sets(j.does)
    <3>1. query' = [Written(query, j.ver, j.of) EXCEPT !.overtaken = j.ver < due]
      BY <2>1, <2>2, <2>4 DEF Called
    <3>2. /\ query'.data = j.ver /\ (query'.fetch = "answered" => query'.late)
          /\ j.ver < due => query'.overtaken
      <4>1. (j.ver < due) \in BOOLEAN
        OBVIOUS
      <4>2. /\ Written(query, j.ver, j.of) \in Query /\ Written(query, j.ver, j.of).data = j.ver
            /\ Written(query, j.ver, j.of).fetch = "answered" => Written(query, j.ver, j.of).late
        BY <1>0, WrittenEntry DEF Write
      <4> QED
        BY <3>1, <4>1, <4>2, MarkedEntry
    <3>3. j.ver >= due' \/ j.ver < due
      BY <1>0, <2>2, SubjectsAssumption DEF Max2, Write, Versions
    <3>4. Told'
      BY <3>2, <3>3 DEF Told, Owes
    <3>5. ~stream'.open
      BY <1>0, <1>1, <1>4, <2>4 DEF Base, Owing
    <3> QED
      BY <3>4, <3>5 DEF Heard
  <2>5. CASE View \notin T.drops[j.does] /\ ~Sets(j.does)
    <3>1. query' = query
      BY <2>1, <2>2, <2>5 DEF Called
    <3>2. Heard => Heard'
      BY <1>0, <2>1, <3>1, FollowOwes DEF Heard, Follow
    <3>3. NothingForgotten => ~Promised(j.does)
      <4>1. j.does \notin T.ends
        BY <2>1 DEF Settle
      <4> QED
        BY <1>0, <1>4, <2>5, <4>1 DEF NothingForgotten, Forgotten, Promised, T, View, Follows, Sets
    <3> QED
      BY <1>0, <2>1, <2>2, <3>1, <3>2, <3>3, FollowOwes DEF Told, Follow
  <2> QED
    BY <2>3, <2>4, <2>5
<1> QED
  BY <1>2, <1>3, <1>4

\* A change elsewhere, and what the stream says of it.
LEMMA StreamSteps ==
    ASSUME Base, Elsewhere \/ Connect \/ Disconnect \/ Deliver
    PROVE  Base' /\ (Heard => Heard') /\ (Told => Told')
<1>0. /\ server \in Versions /\ news \in Versions /\ due \in Versions /\ query \in Query
      /\ stream \in [open : BOOLEAN, waiting : BOOLEAN] /\ MaxServer \in Nat
      /\ due <= server /\ news <= server
  BY SubjectsAssumption DEF Base, TypeOK, Owing
<1>1. /\ server' \in Versions /\ server <= server' /\ news' \in Versions /\ news' <= server'
      /\ stream' \in [open : BOOLEAN, waiting : BOOLEAN]
      /\ UNCHANGED <<subject, account, place, job, due>>
  <2>1. CASE Elsewhere
    BY <1>0, <2>1 DEF Elsewhere, Versions
  <2>2. CASE Connect
    BY <1>0, <2>2 DEF Connect, Versions
  <2>3. CASE Disconnect
    BY <1>0, <2>3 DEF Disconnect, Closed, Versions
  <2>4. CASE Deliver
    <3>1. stream' \in [open : BOOLEAN, waiting : BOOLEAN]
      BY <1>0, <2>4 DEF Deliver
    <3>2. UNCHANGED <<subject, account, place, server, job, due, news>>
      BY <2>4 DEF Deliver
    <3> QED
      BY <1>0, <3>1, <3>2 DEF Versions
  <2> QED
    BY <2>1, <2>2, <2>3, <2>4
<1>2. query' \in Query
  BY <1>0, ToldEntry DEF Elsewhere, Connect, Disconnect, Deliver
<1>3. TypeOK'
  <2>1. Parts' = Parts /\ Routes' = Routes
    BY <1>1 DEF Parts, Routes, View
  <2> QED
    BY <1>1, <1>2, <2>1 DEF Base, TypeOK
<1>4. Sent'
  BY <1>0, <1>1 DEF Base, TypeOK, Sent, InFlight, Write, Versions
<1>5. Owing'
  <2>1. stream'.open => stream.open \/ (Announced /\ SignedIn)
    BY <1>0 DEF Elsewhere, Connect, Disconnect, Deliver, Closed
  <2>2. due' <= server'
    BY <1>0, <1>1 DEF Versions
  <2> QED
    BY <1>0, <1>1, <2>1, <2>2 DEF Base, Owing, InFlight, SignedIn, Announced, T, View
<1>6. Ahead' = Ahead
  BY <1>1 DEF Ahead, T, View
<1>7. CASE Deliver
  <2>1. Warned(query')
    BY <1>0, <1>7, ToldEntry DEF Deliver
  <2> QED
    BY <1>3, <1>4, <1>5, <2>1, WarnedOwes DEF Base, Heard, Told
<1>8. CASE Elsewhere \/ Connect \/ Disconnect
  <2>1. query' = query /\ (stream'.open => stream'.waiting)
    BY <1>0, <1>8 DEF Elsewhere, Connect, Disconnect, Closed
  <2> QED
    BY <1>1, <1>3, <1>4, <1>5, <1>6, <2>1 DEF Base, Heard, Told
<1> QED
  BY <1>7, <1>8

-----------------------------------------------------------------------------
LEMMA HoldsAtFirst == ASSUME Init PROVE Base /\ Heard /\ Told
<1>1. NoWrite \in Write /\ NoWrite.st = "free" /\ 0 \in Versions
  BY SubjectsAssumption DEF NoWrite, Write, Versions, None
<1>2. TypeOK
  BY <1>1, EmptyEntry DEF Init, TypeOK, Start, Routes, Closed
<1>3. Sent /\ Owing
  BY <1>1 DEF Init, Sent, Owing, InFlight, Closed
<1>4. Heard /\ Told
  BY EmptyEntry, WarnedOwes DEF Init, Heard, Told
<1> QED
  BY <1>2, <1>3, <1>4 DEF Base

LEMMA HoldsOn ==
    ASSUME Base, [Next]_vars
    PROVE  Base' /\ (Heard => Heard') /\ (NothingForgotten /\ Told => Told')
<1>1. CASE UNCHANGED vars
  <2>1. Base' /\ (Heard => Heard') /\ (Told => Told')
    BY <1>1, FollowStep DEF vars, Base, TypeOK, Follow
  <2> QED
    BY <2>1
<1>2. CASE (\E r \in Routes : Go(r) \/ Back(r)) \/ (\E d \in Dialogs : Open(d)) \/ Close
  BY <1>2, ScreenSteps
<1>3. CASE \E s \in Slots, w \in subject.writes : Submit(s, w)
  BY <1>3, SubmitStep
<1>4. CASE Reload \/ Refocus \/ FetchRead \/ FetchReceive \/ FetchFail \/ Age \/ Collect \/ Poll
  BY <1>4, LoadSteps
<1>5. CASE SignOut \/ Restart \/ (\E a \in Accounts : SignIn(a)) \/ (\E s \in Slots : SettleEnds(s))
  BY <1>5, SessionSteps
<1>6. CASE \E s \in Slots : Commit(s) \/ Refuse(s) \/ LoseAnswer(s)
  BY <1>6, ServerSteps
<1>7. CASE \E s \in Slots : Settle(s)
  BY <1>7, SettleBase, SettleStep
<1>8. CASE Elsewhere \/ Connect \/ Disconnect \/ Deliver
  BY <1>8, StreamSteps
<1> QED
  BY <1>1, <1>2, <1>3, <1>4, <1>5, <1>6, <1>7, <1>8 DEF Next

\* What a behaviour is about is settled at its start.
LEMMA SubjectStays == ASSUME [Next]_vars PROVE subject' = subject
  BY DEF Next, vars, Go, Back, Open, Close, Move, Submit, Reload, Refocus, SignOut, Restart, SignIn,
         Commit, Refuse, LoseAnswer, Settle, SettleEnds, FetchRead, FetchReceive, FetchFail, Age, Collect,
         Poll, Elsewhere, Connect, Disconnect, Deliver

-----------------------------------------------------------------------------
\* Every variable keeps its type, for tables, views, writes and bounds of any
\* size: a request in flight is always one that a screen of the client offers.
THEOREM TypeCorrect == Spec => []TypeOK
<1>1. Init => Base
  BY HoldsAtFirst
<1>2. Base /\ [Next]_vars => Base'
  BY HoldsOn
<1>3. Base => TypeOK
  BY DEF Base
<1> QED
  BY <1>1, <1>2, <1>3, PTL DEF Spec

\* A change the server announced, or that was made before the connection was
\* opened, never stays hidden behind an answer that stands as current
\* (invalidateQueries after a notice): an older load that lands after the
\* signal was marked when the signal came.
THEOREM NewsArrives == Spec => []NewsReaches
<1>1. Init => Base /\ Heard
  BY HoldsAtFirst
<1>2. Base /\ Heard /\ [Next]_vars => (Base /\ Heard)'
  BY HoldsOn
<1>3. Base /\ Heard => NewsReaches
  BY DEF Heard, Owes, NewsReaches, Current
<1> QED
  BY <1>1, <1>2, <1>3, PTL DEF Spec

\* Where no callback forgets a view, which is what the run checks of both
\* clients, a person's own write is on every screen that stands as current from
\* its callback on (onMutate, onSuccess, onError, onSettled), in every
\* interleaving of any number of writes with loads, screens and refusals.
THEOREM OwnWrites == Spec /\ NothingForgotten => []OwnWritesShown
<1>1. Init => Base /\ Told
  BY HoldsAtFirst
<1>2. Base /\ Told /\ NothingForgotten /\ [Next]_vars => (Base /\ Told /\ NothingForgotten)'
  <2>1. SUFFICES ASSUME Base, Told, NothingForgotten, [Next]_vars PROVE NothingForgotten'
    BY HoldsOn
  <2>2. subject' = subject
    BY <2>1, SubjectStays
  <2> QED
    BY <2>1, <2>2 DEF NothingForgotten, View
<1>3. Base /\ Told => OwnWritesShown
  BY DEF Told, Owes, OwnWritesShown, Current
<1> QED
  BY <1>1, <1>2, <1>3, PTL DEF Spec
==============================================================================
