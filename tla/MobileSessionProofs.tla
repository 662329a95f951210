------------------------ MODULE MobileSessionProofs ------------------------
(***************************************************************************)
(* Proofs about MobileSession, for any number of accounts, calls, tokens,  *)
(* generations, faults and kills.                                          *)
(*                                                                         *)
(* Types      what every variable holds: a token named anywhere was issued,*)
(*            a step of a call fits its operation, a new token is of the   *)
(*            family sent, and only the head of the credential chain       *)
(*            writes.  Everything else rests on it.                        *)
(* Queued     the revocation chain, for RevocationNotLost: no token is     *)
(*            dropped between two of its steps.                            *)
(* Turns      at most one call belongs to the current generation, and what *)
(*            is on screen tells which.                                    *)
(* Kept       the tokens stored are of the session on screen, for          *)
(*            SignedInIsStored; it needs that the call between its two     *)
(*            writes, and a refresh under way, hold that session too.      *)
(* StaysOut   what is stored, on screen, or held by the call of this       *)
(*            generation is of no session signed out of, for               *)
(*            LoggedOutStaysOut.                                           *)
(* Asked      while a request of this generation is out, what is stored    *)
(*            and shown is of the account that asked, for                  *)
(*            AnswerReachesItsAccount.                                     *)
(*                                                                         *)
(* Each layer is inductive relative to those above it, and a new session   *)
(* generation is what keeps the last three: a transition leaves no call    *)
(* and no request of the generation before it current.                     *)
(***************************************************************************)
EXTENDS MobileSession, SequenceTheorems, TLAPS

\* The tokens issued, or none.
Named == Held \cup {0}

\* What a call, a request, a revocation and the auth store hold.
JobSet(N) ==
    [op : OpNames \cup {"none"}, gen : 0..MaxGen, user : Users \cup {None},
     tok : N, copy : N, new : N,
     reply : {"none", "ok", "rejected", "failed"}, remember : BOOLEAN, clean : BOOLEAN]
ApiSet(N) ==
    [pc : {"idle", "sent", "answered", "refreshing", "refreshed", "delivered", "failed"},
     gen : 0..MaxGen, user : Users \cup {None}, tok : N, retried : BOOLEAN,
     reply : {"none", "ok", "rejected", "failed"} \cup Jobs, all : BOOLEAN]
TaskSet(H) ==
    {x \in [by : Jobs \cup {None}, list : Seq(H), st : {"start", "sent", "gone", "kept"}] :
       x.by # None \/ x.st # "start" => x.list # <<>>}
StoreSet(N) == [status : Status, access : N, user : Users \cup {None}]

\* What call b holds at step p: the steps its operation has, and whether there
\* is a new token yet.
Asking == {"sent", "answered", "accept", "written", "copied", "reject", "unwritten", "unkept"}
HoldsLock == {"written", "copied", "reject", "unwritten", "unkept", "wiped"}
Fits(p, b) ==
    /\ p = "idle" <=> b.op = "none"
    /\ p = "read" => b.op \in {"hydrate", "refresh", "logout"}
    /\ p = "copy" => b.op = "hydrate"
    /\ p \in Asking => b.op \in {"hydrate", "refresh", "login"}
    /\ p = "join" => b.op = "logout"
    /\ b.op \in {"login", "logout", "clear"} => b.copy = 0
    /\ b.op = "login" => b.tok = 0 /\ b.user \in Users
    /\ p \in {"read", "copy", "sent"} => b.new = 0
    /\ b.op \in {"logout", "clear"} \/ (b.op = "login" /\ p \in {"clear", "wiped"}) => b.new = 0
    /\ b.reply = "ok" \/ p \in Asking \ {"sent", "answered"} => b.new # 0

\* A rotated token is of the family of the one sent.
Bred(is, b) ==
    b.op \in {"hydrate", "refresh"} /\ b.new # 0
    => b.tok # 0 /\ is[b.new].family = is[b.tok].family

Memory(N) ==
    /\ gen \in 0..MaxGen /\ persistent \in BOOLEAN /\ booted \in BOOLEAN
    /\ inFlight \in Jobs \cup {None} /\ volatile \in N /\ store \in StoreSet(N)
    /\ api \in ApiSet(N) /\ api.gen <= gen
    /\ disk \in N /\ cached \in N
Jobbing(N) ==
    /\ pc \in [Jobs -> Labels] /\ job \in [Jobs -> JobSet(N)]
    /\ \A j \in Jobs : Fits(pc[j], job[j]) /\ job[j].gen <= gen /\ Bred(issued, job[j])
    /\ credQ \in Seq(Jobs)
    /\ \A j \in Jobs : pc[j] \in HoldsLock => Turn(j)
Chain(H) ==
    /\ revQ \in Seq(TaskSet(H)) /\ pending \in Seq(H)
    /\ owed \subseteq H /\ left \subseteq H /\ forgotten \subseteq H
Serving ==
    /\ issued \in Seq([user : Users, family : Tokens]) /\ Len(issued) <= MaxTokens
    /\ spent \subseteq Held /\ deleted \subseteq Held /\ ended \subseteq Held
    /\ crashes \in 0..MaxCrashes /\ faults \in 0..MaxFaults
    /\ \A t \in Held : Family(t) \in Held /\ Owner(t) \in Users /\ Owner(Family(t)) = Owner(t)
Types == Memory(Named) /\ Jobbing(Named) /\ Chain(Held) /\ Serving

\* The call of the current generation.  A sign-out takes its generation only
\* when it has read the token, and until then it is nobody's.
Live(j) == pc[j] # "idle" /\ Current(j) /\ ~(job[j].op = "logout" /\ pc[j] = "read")

\* What the screen says while call j is the current one.  It may say anonymous
\* instead: an acceptance of an earlier generation clears the store late.
Shows(j) ==
    /\ job[j].op = "hydrate" => store.status \in {"loading", "anonymous"}
    /\ job[j].op = "refresh" =>
         \/ pc[j] \in {"clear", "wiped"} /\ store.status = "anonymous"
         \/ /\ pc[j] \notin {"clear", "wiped"} /\ inFlight = j
            /\ store.status \in {"authenticated", "offline", "anonymous"}
    /\ job[j].op \in {"login", "logout", "clear"} => store.status = "anonymous"
\* A restore or refresh of this generation shows no session under a sign-in.
Yields(j) ==
    Live(j) /\ job[j].op \in {"hydrate", "refresh"} /\ pc[j] \notin {"clear", "wiped"}
    => \A k \in Jobs : job[k].op # "login"
Turns ==
    /\ \A j \in Jobs : pc[j] # "idle" => booted
    /\ booted \/ store.status = "loading"
    /\ booted \/ api.pc = "idle"
    /\ \A j, k \in Jobs : Live(j) /\ Live(k) => j = k
    /\ \A j \in Jobs : Live(j) => Shows(j)
    /\ \A j, k \in Jobs : job[j].op = "login" /\ job[k].op = "login" => j = k
    /\ \A j \in Jobs : job[j].op = "login" => store.status = "anonymous"
    /\ \A j \in Jobs : Yields(j)

\* The steps between the first write of an acceptance and its end, where t is
\* the only token stored.
Storing == {"written", "copied"}
Stored(t) == IF persistent THEN volatile = 0 /\ disk = t ELSE volatile = t /\ disk = 0

\* Not only the token of the next rotation, the one it hides is of the session
\* shown as well: a write that fails leaves it to come back.  Only a call that
\* gives the session up takes the token away before the screen.
SignedIn ==
    /\ store.access # 0 /\ store.user = Owner(store.access)
    /\ CurrentToken # 0 \/ Giving
    /\ persistent => volatile = 0
    /\ \A t \in {disk, volatile} \ {0} : Family(t) = Family(store.access)
Kept ==
    /\ store.status = "authenticated" => SignedIn
    /\ store.status # "authenticated" => store.access = 0
    /\ \A j \in Jobs : pc[j] \in Storing =>
         IF Current(j) THEN Stored(job[j].new) ELSE store.status # "authenticated"
    /\ \A j \in Jobs :
         Live(j) /\ job[j].op = "refresh" /\ job[j].tok # 0 /\ store.status = "authenticated"
         => Family(job[j].tok) = Family(store.access)

\* A token of no session signed out of.  While one call empties the keychain no
\* other of its generation is past its place in the chain: it would write back
\* what is being left.
Away(t) == t = 0 \/ Family(t) \notin left
Past == {"clear", "wiped", "join"}
StoredAway == Away(disk) /\ Away(volatile) /\ Away(cached) /\ Away(store.access)
HoldsAway(j) ==
    Live(j) /\ pc[j] \notin Past => Away(job[j].tok) /\ Away(job[j].copy) /\ Away(job[j].new)
WipesAlone(j) ==
    pc[j] = "wiped" => /\ store.status \in {"loading", "anonymous"}
                       /\ \A k \in Jobs \ {j} : Live(k) => pc[k] = "clear"
StaysOut == StoredAway /\ \A j \in Jobs : HoldsAway(j) /\ WipesAlone(j)

\* While a request of this generation is out: every token is of the account that
\* asked, and the only call under way is a refresh that brings another of its own.
Asks == api.pc # "idle" /\ api.gen = gen
Ours(t) == t = 0 \/ Owner(t) = api.user
Helps(j) == Live(j) => job[j].op = "refresh" /\ pc[j] \notin {"clear", "wiped"} /\ Ours(job[j].tok)
Asked ==
    Asks => /\ store.user \in {api.user, None} /\ Ours(disk) /\ Ours(volatile)
            /\ \A j \in Jobs : Helps(j)

\* The tasks of the chain: one token for a call of its own, none for a flush
\* that waits, and all but the first wait.
Orderly(q) ==
    \A i \in 1..Len(q) :
      /\ q[i].by # None => Len(q[i].list) = 1
      /\ q[i].by = None /\ q[i].st = "start" => q[i].list = <<>>
      /\ i # 1 => q[i].st = "start"

\* A flush works on tokens that are on the list or worth nothing, and takes off
\* the list only one worth nothing; a token owed is accounted for.
InHand(q, t) == \E i \in 1..Len(q) : t \in ToSet(q[i].list)
Listed(q) ==
    q # <<>> =>
      /\ Head(q).by = None => \A t \in ToSet(Head(q).list) : t \in ToSet(pending) \/ ~Good(t)
      /\ Head(q).st = "gone" => ~Good(Head(Head(q).list))
Accounted(q) == \A t \in owed : ~Good(t) \/ t \in ToSet(pending) \/ t \in forgotten \/ InHand(q, t)
Queued == Orderly(revQ) /\ Listed(revQ) /\ Accounted(revQ)

-----------------------------------------------------------------------------
(* Every step keeps the types. *)

LEMMA TypesAreOK == Types => TypeOK
<1> SUFFICES ASSUME Types PROVE TypeOK
  OBVIOUS
<1>1. Held \subseteq Tokens /\ Named \subseteq Tokens \cup {0}
  BY DEF Held, Named
<1>2. job \in [Jobs -> JobType]
  <2>1. JobSet(Named) \subseteq JobType
    BY <1>1 DEF JobSet, JobType
  <2> QED BY <2>1 DEF Types, Jobbing
<1>3. store \in [status : Status, access : Tokens \cup {0}, user : Users \cup {None}]
  BY <1>1 DEF Types, Memory, StoreSet
<1>4. pending \in Seq(Tokens)
  BY <1>1 DEF Types, Chain
<1> QED BY <1>1, <1>2, <1>3, <1>4 DEF Types, TypeOK, Memory, Jobbing, Chain, Serving

\* The app starts with nothing.
LEMMA InitTypes == Init => Types
<1> SUFFICES ASSUME Init PROVE Types
  OBVIOUS
<1>1. Held = {} /\ Named = {0}
  BY DEF Init, Held, Named, Tokens
<1>2. NoJob \in JobSet({0}) /\ NoApi \in ApiSet({0})
  BY MobileSessionAssumption DEF NoJob, NoApi, JobSet, ApiSet
<1>3. Memory({0})
  <2>1. 0 \in 0..MaxGen
    BY MobileSessionAssumption
  <2>2. store \in StoreSet({0})
    BY DEF Init, StoreSet, Status
  <2>3. api \in ApiSet({0}) /\ api.gen = 0
    BY <1>2 DEF Init, NoApi
  <2>4. gen = 0 /\ gen \in 0..MaxGen /\ api.gen <= gen
    BY <2>1, <2>3 DEF Init
  <2>5. /\ persistent \in BOOLEAN /\ booted \in BOOLEAN /\ inFlight \in Jobs \cup {None}
        /\ volatile \in {0} /\ disk \in {0} /\ cached \in {0}
    BY DEF Init
  <2> QED BY <2>2, <2>3, <2>4, <2>5 DEF Memory
<1>4. Jobbing({0})
  <2>1. Fits("idle", NoJob) /\ Bred(issued, NoJob) /\ NoJob.gen = 0
    BY DEF Fits, Bred, NoJob, Asking
  <2>2. pc \in [Jobs -> Labels] /\ job \in [Jobs -> JobSet({0})]
    BY <1>2 DEF Init, Labels
  <2>3. \A j \in Jobs : pc[j] = "idle" /\ job[j] = NoJob
    BY DEF Init
  <2> QED BY <2>1, <2>2, <2>3 DEF Init, Jobbing, HoldsLock
<1>5. Chain({})
  BY DEF Init, Chain
<1>6. Serving
  BY <1>1, MobileSessionAssumption DEF Init, Serving, Held
<1> QED BY <1>1, <1>3, <1>4, <1>5, <1>6 DEF Types

\* The tokens issued and what they are do not change.
LEMMA SameIssued ==
    ASSUME UNCHANGED issued
    PROVE  /\ Held' = Held /\ Named' = Named
           /\ \A t : Family(t)' = Family(t) /\ Owner(t)' = Owner(t)
  BY DEF Held, Named, Family, Owner

\* A job takes, keeps or gives up its place in the credential chain.
Queues(j, p) ==
    \/ UNCHANGED credQ /\ (p \in HoldsLock => Turn(j))
    \/ Enter(j) /\ p \notin HoldsLock
    \/ Turn(j) /\ Leave /\ p \notin HoldsLock

\* Call j changes to b and goes to step p.
LEMMA JobStep ==
    ASSUME NEW N, NEW M, N \subseteq M, Jobbing(N), NEW j \in Jobs, NEW p \in Labels, NEW b \in JobSet(M),
           pc' = [pc EXCEPT ![j] = p],
           job' = [job EXCEPT ![j] = b] \/ (UNCHANGED job /\ b = job[j]),
           gen \in Int, gen' \in Int, gen <= gen', N \subseteq Named,
           \A t \in Held : Family(t)' = Family(t),
           Fits(p, b), b.gen <= gen', Bred(issued', b), Queues(j, p)
    PROVE  Jobbing(M)'
<1>1. /\ pc \in [Jobs -> Labels] /\ job \in [Jobs -> JobSet(N)] /\ job \in [Jobs -> JobSet(M)]
      /\ \A k \in Jobs : Fits(pc[k], job[k]) /\ job[k].gen <= gen /\ Bred(issued, job[k])
      /\ credQ \in Seq(Jobs) /\ \A k \in Jobs : pc[k] \in HoldsLock => Turn(k)
  <2>1. JobSet(N) \subseteq JobSet(M)
    BY DEF JobSet
  <2> QED BY <2>1 DEF Jobbing
<1>2. /\ pc' \in [Jobs -> Labels] /\ pc'[j] = p /\ \A k \in Jobs \ {j} : pc'[k] = pc[k]
      /\ job' \in [Jobs -> JobSet(M)] /\ job'[j] = b /\ \A k \in Jobs \ {j} : job'[k] = job[k]
  BY <1>1
<1>3. ASSUME NEW k \in Jobs \ {j}
      PROVE  Fits(pc'[k], job'[k]) /\ job'[k].gen <= gen' /\ Bred(issued', job'[k])
  <2>1. pc'[k] = pc[k] /\ job'[k] = job[k]
    BY <1>2
  <2>2. Fits(pc[k], job[k]) /\ job[k].gen <= gen /\ Bred(issued, job[k]) /\ job[k] \in JobSet(N)
    BY <1>1
  <2>3. PICK c \in JobSet(N) : c = job[k]
    BY <2>2
  <2>4. c.tok \in N /\ c.new \in N /\ c.gen \in Int
    BY <2>3 DEF JobSet
  <2>5. c.tok # 0 => Family(c.tok)' = Family(c.tok)
    BY <2>4 DEF Named
  <2>6. c.new # 0 => Family(c.new)' = Family(c.new)
    BY <2>4 DEF Named
  <2>7. Bred(issued', c)
    BY <2>2, <2>3, <2>5, <2>6 DEF Bred, Family
  <2>8. Bred(issued', job'[k])
    BY <2>7, <2>1, <2>3
  <2>9. job'[k].gen <= gen'
    BY <2>1, <2>2, <2>3, <2>4
  <2> QED BY <2>1, <2>2, <2>8, <2>9
<1>4. Fits(pc'[j], job'[j]) /\ job'[j].gen <= gen' /\ Bred(issued', job'[j])
  BY <1>2
<1>5. \A k \in Jobs : Fits(pc'[k], job'[k]) /\ job'[k].gen <= gen' /\ Bred(issued', job'[k])
  BY <1>3, <1>4
<1>6. credQ' \in Seq(Jobs) /\ \A k \in Jobs : pc'[k] \in HoldsLock => Turn(k)'
  <2>1. CASE UNCHANGED credQ /\ (p \in HoldsLock => Turn(j))
    BY <2>1, <1>1, <1>2 DEF Turn
  <2>2. CASE Enter(j) /\ p \notin HoldsLock
    <3>1. credQ' \in Seq(Jobs) /\ credQ' # <<>> /\ (credQ # <<>> => Head(credQ') = Head(credQ))
      BY <2>2, <1>1 DEF Enter
    <3> QED BY <2>2, <3>1, <1>1, <1>2 DEF Turn
  <2>3. CASE Turn(j) /\ Leave /\ p \notin HoldsLock
    BY <2>3, <1>1, <1>2 DEF Turn, Leave
  <2> QED BY <2>1, <2>2, <2>3 DEF Queues
<1> QED BY <1>2, <1>5, <1>6 DEF Jobbing

-----------------------------------------------------------------------------
(* Types, action by action. *)

\* A step of one job that issues nothing.
LEMMA JobStepTypes ==
    ASSUME Types, UNCHANGED issued, NEW j \in Jobs, NEW p \in Labels, NEW b \in JobSet(Named),
           pc' = [pc EXCEPT ![j] = p],
           job' = [job EXCEPT ![j] = b] \/ (UNCHANGED job /\ b = job[j]),
           gen <= gen', Fits(p, b), b.gen <= gen', Bred(issued, b), Queues(j, p),
           Memory(Named)', Chain(Held)', Serving'
    PROVE  Types'
<1>1. PICK N : N = Named
  OBVIOUS
<1>2. Jobbing(N) /\ gen \in Int
  BY <1>1 DEF Types, Memory
<1>3. gen' \in Int
  BY DEF Memory
<1>4. Jobbing(N)'
  BY <1>1, <1>2, <1>3, JobStep, SameIssued
<1> QED BY <1>1, <1>4, SameIssued DEF Types

\* What a job has to start with.
LEMMA Here ==
    ASSUME Types, NEW j \in Jobs
    PROVE  /\ pc[j] \in Labels /\ job[j] \in JobSet(Named) /\ Fits(pc[j], job[j])
           /\ job[j].gen <= gen /\ Bred(issued, job[j]) /\ (pc[j] \in HoldsLock => Turn(j))
           /\ 0 \in Named /\ gen \in 0..MaxGen /\ MaxGen \in Nat
  BY MobileSessionAssumption DEF Types, Jobbing, Memory, Named

\* Memory, the chains and the server where a step leaves them alone.
LEMMA ServingStays ==
    ASSUME Types, UNCHANGED <<issued, spent, deleted, ended, crashes, faults>>
    PROVE  Serving'
  BY SameIssued DEF Types, Serving

\* The revocation chain is left alone.
LEMMA ChainStays ==
    ASSUME Types, UNCHANGED <<issued, revQ, pending, owed, left, forgotten>>
    PROVE  Chain(Held)'
  BY SameIssued DEF Types, Chain

\* Types, one fact a name.
LEMMA Sworn ==
    ASSUME Types
    PROVE  /\ persistent \in BOOLEAN /\ booted \in BOOLEAN /\ inFlight \in Jobs \cup {None}
           /\ volatile \in Named /\ disk \in Named /\ cached \in Named /\ store \in StoreSet(Named)
           /\ gen \in 0..MaxGen /\ api \in ApiSet(Named) /\ api.gen <= gen
           /\ 0 \in Named /\ NoJob \in JobSet(Named) /\ NoApi \in ApiSet(Named)
           /\ SignedOut \in StoreSet(Named) /\ CurrentToken \in Named
           /\ Fits("idle", NoJob) /\ Bred(issued, NoJob) /\ NoJob.gen = 0
  BY MobileSessionAssumption DEF Types, Memory, NoJob, NoApi, SignedOut, StoreSet, Status, JobSet, ApiSet,
     CurrentToken, Fits, Bred, Asking, Named

\* What the step of a call writes in memory and in the keychain.
LEMMA MemoryStep ==
    ASSUME Types, UNCHANGED issued, gen' \in 0..MaxGen, gen <= gen', persistent' \in BOOLEAN,
           booted' \in BOOLEAN, inFlight' \in Jobs \cup {None}, volatile' \in Named,
           store' \in StoreSet(Named), api' \in ApiSet(Named), api'.gen <= gen',
           disk' \in Named, cached' \in Named
    PROVE  Memory(Named)'
  BY SameIssued DEF Memory

\* beginSessionTransition.
LEMMA TransitionStep ==
    ASSUME Types, UNCHANGED <<issued, disk, cached, volatile>>, NEW to \in StoreSet(Named),
           Transition(to), persistent' \in BOOLEAN, booted' \in BOOLEAN,
           api' \in ApiSet(Named), api'.gen <= gen
    PROVE  gen' = gen + 1 /\ gen' \in 0..MaxGen /\ gen <= gen' /\ Memory(Named)'
<1>1. gen' = gen + 1 /\ gen' \in 0..MaxGen /\ gen <= gen' /\ gen' \in Int
  BY MobileSessionAssumption DEF Transition, Types, Memory
<1>2. api'.gen <= gen'
  BY <1>1 DEF ApiSet, Types, Memory
<1> QED BY <1>1, <1>2, Sworn, MemoryStep DEF Transition

\* A call that begins.
Blank(b, o, g) ==
    /\ b \in JobSet(Named) /\ b.op = o /\ b.gen = g
    /\ b.tok = 0 /\ b.copy = 0 /\ b.new = 0 /\ b.reply = "none"
    /\ o = "login" => b.user \in Users

LEMMA Fresh ==
    ASSUME NEW o \in OpNames, NEW g \in 0..MaxGen, NEW b, Blank(b, o, g)
    PROVE  /\ Fits("clear", b) /\ Bred(issued, b)
           /\ o \in {"hydrate", "refresh", "logout"} => Fits("read", b)
           /\ "clear" \in Labels /\ "read" \in Labels /\ g \in Int
<1>1. Fits("clear", b) /\ (o \in {"hydrate", "refresh", "logout"} => Fits("read", b))
  BY DEF Blank, Fits, OpNames, Asking
<1> QED BY <1>1 DEF Bred, Labels, Blank

LEMMA Called ==
    ASSUME NEW o \in OpNames, NEW g \in 0..MaxGen
    PROVE  /\ o # "login" => Blank([NoJob EXCEPT !.op = o, !.gen = g], o, g)
           /\ \A u \in Users, keep \in BOOLEAN :
                Blank([NoJob EXCEPT !.op = o, !.gen = g, !.user = u, !.remember = keep], o, g)
<1>1. NoJob \in JobSet(Named) /\ 0 \in Named
  BY MobileSessionAssumption DEF NoJob, JobSet, Named
<1>2. NoJob.tok = 0 /\ NoJob.copy = 0 /\ NoJob.new = 0 /\ NoJob.reply = "none"
  BY DEF NoJob
<1>3. ASSUME NEW u \in Users, NEW keep \in BOOLEAN
      PROVE  Blank([NoJob EXCEPT !.op = o, !.gen = g, !.user = u, !.remember = keep], o, g)
  <2>1. PICK b : b = [NoJob EXCEPT !.op = o, !.gen = g, !.user = u, !.remember = keep]
    OBVIOUS
  <2>2. Blank(b, o, g)
    BY <1>1, <1>2, <2>1 DEF Blank, JobSet
  <2> QED BY <2>1, <2>2
<1>5. PICK c : c = [NoJob EXCEPT !.op = o, !.gen = g]
  OBVIOUS
<1>6. o # "login" => Blank(c, o, g)
  BY <1>1, <1>2, <1>5 DEF Blank, JobSet
<1> QED BY <1>3, <1>5, <1>6

LEMMA BeginStep ==
    ASSUME Types, UNCHANGED issued, NEW j \in Jobs, NEW o \in OpNames, NEW p \in {"read", "clear"},
           p = "read" => o \in {"hydrate", "refresh", "logout"}, gen <= gen',
           NEW b, Blank(b, o, gen'), pc' = [pc EXCEPT ![j] = p], job' = [job EXCEPT ![j] = b],
           UNCHANGED credQ \/ Enter(j), Memory(Named)', Chain(Held)', Serving'
    PROVE  Types'
<1>1. PICK g \in 0..MaxGen : g = gen' /\ g <= gen'
  BY DEF Memory
<1>2. b \in JobSet(Named) /\ b.gen <= gen' /\ Bred(issued, b) /\ p \in Labels /\ Fits(p, b)
  BY <1>1, Fresh DEF Blank
<1>3. Queues(j, p)
  BY DEF Queues, HoldsLock
<1> QED BY <1>2, <1>3, JobStepTypes

LEMMA LoginTypes == ASSUME Types, NEW j \in Jobs, Login(j) PROVE Types'
<1>1. PICK u \in Users, keep \in BOOLEAN :
        job' = [job EXCEPT ![j] = [NoJob EXCEPT !.op = "login", !.gen = gen + 1, !.user = u, !.remember = keep]]
  BY DEF Login
<1>2. PICK b : b = [NoJob EXCEPT !.op = "login", !.gen = gen + 1, !.user = u, !.remember = keep]
  OBVIOUS
<1>3. gen' = gen + 1 /\ gen' \in 0..MaxGen /\ gen <= gen' /\ Memory(Named)'
  <2>1. UNCHANGED <<issued, api, disk, cached, volatile, persistent, booted>> /\ Transition(SignedOut)
    BY DEF Login, keychain, server
  <2>2. persistent' \in BOOLEAN /\ booted' \in BOOLEAN
    BY <2>1, Sworn
  <2> QED BY <2>1, <2>2, Sworn, TransitionStep
<1>4. Blank(b, "login", gen') /\ "login" \in OpNames
  BY <1>2, <1>3, Called DEF OpNames
<1>5. job' = [job EXCEPT ![j] = b]
  BY <1>1, <1>2
<1>6. UNCHANGED <<issued, spent, deleted, ended, crashes, faults, revQ, pending, owed, left, forgotten>>
  BY DEF Login, keychain, server, ghosts
<1> QED BY <1>3, <1>4, <1>5, <1>6, BeginStep, ServingStays, ChainStays DEF Login, Begin, Goto

LEMMA FlushStep ==
    ASSUME NEW H, NEW q \in Seq(TaskSet(H))
    PROVE  Flush(q) \in Seq(TaskSet(H))
<1>1. Task(None, <<>>) \in TaskSet(H)
  BY DEF Task, TaskSet
<1> QED BY <1>1 DEF Flush

LEMMA HydrateTypes == ASSUME Types, NEW j \in Jobs, Hydrate(j) PROVE Types'
<1>1. PICK b : b = [NoJob EXCEPT !.op = "hydrate", !.gen = gen + 1]
  OBVIOUS
<1>2. PICK to : to = [status |-> "loading", access |-> 0, user |-> None]
  OBVIOUS
<1>3. gen' = gen + 1 /\ gen' \in 0..MaxGen /\ gen <= gen' /\ Memory(Named)'
  <2>1. UNCHANGED <<issued, api, disk, cached, volatile>> /\ Transition(to)
        /\ persistent' \in BOOLEAN /\ booted' \in BOOLEAN
    BY <1>2 DEF Hydrate, keychain, server
  <2>2. to \in StoreSet(Named)
    BY <1>2 DEF StoreSet, Status, Named
  <2> QED BY <2>1, <2>2, Sworn, TransitionStep
<1>4. Blank(b, "hydrate", gen') /\ "hydrate" \in OpNames
  BY <1>1, <1>3, Called DEF OpNames
<1>5. job' = [job EXCEPT ![j] = b]
  BY <1>1 DEF Hydrate
<1>6. UNCHANGED <<issued, spent, deleted, ended, crashes, faults, pending, owed, left, forgotten, credQ>>
  BY DEF Hydrate, keychain, server, ghosts
<1>7. Chain(Held)'
  BY <1>6, FlushStep, SameIssued DEF Types, Chain, Hydrate
<1> QED BY <1>3, <1>4, <1>5, <1>6, <1>7, BeginStep, ServingStays DEF Hydrate, Begin, Goto

LEMMA StartRefreshTypes ==
    ASSUME Types, NEW j \in Jobs, StartRefresh(j),
           UNCHANGED <<gen, persistent, store, volatile, booted, credQ, revQ, keychain, server, ghosts>>,
           api' \in ApiSet(Named), api'.gen <= gen
    PROVE  Types'
<1>1. PICK b : b = [NoJob EXCEPT !.op = "refresh", !.gen = gen]
  OBVIOUS
<1>2. gen' = gen /\ gen' \in 0..MaxGen /\ gen <= gen' /\ api'.gen <= gen'
  BY Sworn
<1>3. UNCHANGED <<issued, spent, deleted, ended, crashes, faults, revQ, pending, owed, left, forgotten, disk,
                  cached>>
  BY DEF keychain, server, ghosts
<1>4. Memory(Named)'
  <2>1. persistent' \in BOOLEAN /\ booted' \in BOOLEAN
    BY Sworn
  <2>2. inFlight' \in Jobs \cup {None}
    BY DEF StartRefresh
  <2> QED BY <1>2, <1>3, <2>1, <2>2, Sworn, MemoryStep
<1>5. Blank(b, "refresh", gen') /\ "refresh" \in OpNames
  BY <1>1, <1>2, Called DEF OpNames
<1>6. job' = [job EXCEPT ![j] = b]
  BY <1>1 DEF StartRefresh
<1> QED BY <1>2, <1>3, <1>4, <1>5, <1>6, BeginStep, ServingStays, ChainStays DEF StartRefresh, Begin, Goto

LEMMA StartClearTypes ==
    ASSUME Types, NEW j \in Jobs, StartClear(j),
           UNCHANGED <<persistent, volatile, booted, revQ, keychain, issued, ghosts>>,
           api' \in ApiSet(Named), api'.gen <= gen, Serving'
    PROVE  Types'
<1>1. PICK b : b = [NoJob EXCEPT !.op = "clear", !.gen = gen + 1]
  OBVIOUS
<1>2. UNCHANGED <<revQ, pending, owed, left, forgotten, disk, cached>>
  BY DEF keychain, ghosts
<1>3. gen' = gen + 1 /\ gen' \in 0..MaxGen /\ gen <= gen' /\ Memory(Named)'
  <2>1. persistent' \in BOOLEAN /\ booted' \in BOOLEAN
    BY Sworn
  <2>2. Transition(SignedOut)
    BY DEF StartClear
  <2> QED BY <1>2, <2>1, <2>2, Sworn, TransitionStep
<1>4. Blank(b, "clear", gen') /\ "clear" \in OpNames
  BY <1>1, <1>3, Called DEF OpNames
<1>5. job' = [job EXCEPT ![j] = b]
  BY <1>1 DEF StartClear
<1> QED BY <1>2, <1>3, <1>4, <1>5, BeginStep, ChainStays DEF StartClear, Begin, Goto

LEMMA LogoutTypes == ASSUME Types, NEW j \in Jobs, Logout(j) PROVE Types'
<1>1. PICK b : b = [NoJob EXCEPT !.op = "logout", !.gen = gen]
  OBVIOUS
<1>2. UNCHANGED <<issued, spent, deleted, ended, crashes, faults, revQ, pending, owed, left, forgotten, credQ>>
      /\ UNCHANGED <<gen, persistent, inFlight, store, volatile, booted, api, disk, cached>>
  BY DEF Logout, keychain, server, ghosts, memory
<1>3. gen <= gen' /\ gen' = gen
  BY <1>2, Sworn
<1>4. Memory(Named)'
  BY <1>2, SameIssued DEF Types, Memory
<1>5. Blank(b, "logout", gen') /\ "logout" \in OpNames
  BY <1>1, <1>3, Sworn, Called DEF OpNames
<1>6. job' = [job EXCEPT ![j] = b]
  BY <1>1 DEF Logout
<1> QED BY <1>2, <1>3, <1>4, <1>5, <1>6, BeginStep, ServingStays, ChainStays DEF Logout, Begin, Goto

\* Every session of an account is over.
LEMMA EndAllServing ==
    ASSUME Types, NEW u, EndAll(u), UNCHANGED <<issued, spent, deleted, crashes, faults>>
    PROVE  Serving'
<1>1. OwnedBy(u) \subseteq Held
  BY DEF OwnedBy
<1>2. ended' \subseteq Held
  BY <1>1 DEF EndAll, Types, Serving
<1> QED BY <1>2, SameIssued DEF Types, Serving

LEMMA ResetTypes == ASSUME Types, NEW j \in Jobs, Reset(j) PROVE Types'
<1>1. UNCHANGED <<persistent, volatile, booted, revQ, keychain, issued, ghosts>> /\ StartClear(j)
  BY DEF Reset
<1>2. Serving'
  BY EndAllServing DEF Reset, ghosts
<1>3. api' \in ApiSet(Named) /\ api'.gen <= gen
  BY Sworn DEF Reset
<1> QED BY <1>1, <1>2, <1>3, StartClearTypes

LEMMA StartTypes == ASSUME Types, NEW j \in Jobs, Start(j) PROVE Types'
<1>1. ASSUME Resume(j) PROVE Types'
  BY <1>1, Sworn, StartRefreshTypes DEF Resume
<1> QED BY <1>1, HydrateTypes, LoginTypes, LogoutTypes, ResetTypes DEF Start

\* A job that is over.
LEMMA SettleTypes ==
    ASSUME Types, NEW j \in Jobs, NEW tok \in Named, Settle(j, tok), UNCHANGED <<gen, issued>>,
           UNCHANGED credQ \/ (Turn(j) /\ Leave), persistent' \in BOOLEAN, booted' \in BOOLEAN,
           volatile' \in Named, disk' \in Named, cached' \in Named, store' \in StoreSet(Named),
           Chain(Held)', Serving'
    PROVE  Types'
<1>1. gen <= gen' /\ gen' \in 0..MaxGen /\ gen' = gen
  BY Sworn
<1>2. api' \in ApiSet(Named) /\ api'.gen = api.gen
  <2>1. api \in ApiSet(Named)
    BY Sworn
  <2>2. CASE api.pc = "refreshing" /\ api.reply = j
    BY <2>1, <2>2 DEF Settle, ApiSet
  <2>3. CASE ~(api.pc = "refreshing" /\ api.reply = j)
    BY <2>1, <2>3 DEF Settle
  <2> QED BY <2>2, <2>3
<1>3. inFlight' \in Jobs \cup {None}
  BY Sworn DEF Settle
<1>4. Memory(Named)'
  BY <1>1, <1>2, <1>3, Sworn, MemoryStep
<1>5. NoJob \in JobSet(Named) /\ Fits("idle", NoJob) /\ Bred(issued, NoJob) /\ NoJob.gen <= gen'
      /\ "idle" \in Labels
  BY <1>1, Sworn DEF Labels
<1>6. Queues(j, "idle")
  BY DEF Queues, HoldsLock
<1> QED BY <1>1, <1>4, <1>5, <1>6, JobStepTypes DEF Settle, Goto

\* A session that the server, or an empty keychain, says is over.
LEMMA InvalidateTypes ==
    ASSUME Types, NEW j \in Jobs, Invalidate(j), job[j].op \in {"hydrate", "refresh"},
           UNCHANGED <<persistent, booted, revQ, keychain, server, ghosts, volatile, api>>
    PROVE  Types'
<1>1. PICK b : b = [job[j] EXCEPT !.gen = gen + 1]
  OBVIOUS
<1>2. UNCHANGED <<issued, spent, deleted, ended, crashes, faults, revQ, pending, owed, left, forgotten, disk,
                  cached>>
  BY DEF keychain, server, ghosts
<1>3. gen' = gen + 1 /\ gen' \in 0..MaxGen /\ gen <= gen' /\ Memory(Named)'
  <2>1. persistent' \in BOOLEAN /\ booted' \in BOOLEAN
    BY Sworn
  <2>2. Transition(SignedOut)
    BY DEF Invalidate
  <2> QED BY <1>2, <2>1, <2>2, Sworn, TransitionStep
<1>4. job[j] \in JobSet(Named) /\ Fits(pc[j], job[j]) /\ Bred(issued, job[j])
  BY Here
<1>5. b \in JobSet(Named) /\ b.gen = gen'
      /\ b.op = job[j].op /\ b.tok = job[j].tok /\ b.copy = job[j].copy /\ b.new = job[j].new
         /\ b.reply = job[j].reply
  BY <1>1, <1>3, <1>4 DEF JobSet
<1>6. Fits("clear", b)
  BY <1>4, <1>5 DEF Fits, Asking
<1>7. Bred(issued, b) /\ b.gen <= gen' /\ "clear" \in Labels
  BY <1>3, <1>4, <1>5 DEF Bred, Labels
<1>8. Queues(j, "clear")
  BY DEF Invalidate, Queues, HoldsLock
<1>9. job' = [job EXCEPT ![j] = b]
  BY <1>1 DEF Invalidate
<1> QED BY <1>2, <1>3, <1>5, <1>6, <1>7, <1>8, <1>9, JobStepTypes, ServingStays, ChainStays DEF Invalidate, Goto

LEMMA ServingStep ==
    ASSUME Types, UNCHANGED <<issued, spent, deleted, ended, crashes>>, Fault \/ Sound
    PROVE  Serving'
<1>1. faults' \in 0..MaxFaults
  BY MobileSessionAssumption DEF Fault, Sound, Types, Serving
<1> QED BY <1>1, SameIssued DEF Types, Serving

\* A job goes on.
LEMMA MoveTypes ==
    ASSUME Types, UNCHANGED <<gen, issued, store, inFlight, booted, api>>, NEW j \in Jobs, NEW p \in Labels,
           NEW b \in JobSet(Named), pc' = [pc EXCEPT ![j] = p],
           job' = [job EXCEPT ![j] = b] \/ (UNCHANGED job /\ b = job[j]),
           Fits(p, b), b.gen <= gen, Bred(issued, b), Queues(j, p), persistent' \in BOOLEAN,
           volatile' \in Named, disk' \in Named, cached' \in Named, Chain(Held)', Serving'
    PROVE  Types'
<1>1. gen <= gen' /\ gen' \in 0..MaxGen /\ gen' = gen /\ booted' \in BOOLEAN
  BY Sworn
<1>2. Memory(Named)'
  BY <1>1, Sworn, MemoryStep
<1> QED BY <1>1, <1>2, JobStepTypes

LEMMA ReadTokenTypes == ASSUME Types, NEW j \in Jobs, ReadToken(j) PROVE Types'
<1>1. UNCHANGED <<persistent, booted, revQ, keychain, server, ghosts, volatile>>
      /\ UNCHANGED <<issued, spent, deleted, ended, crashes, faults, revQ, pending, owed, left, forgotten, disk,
                     cached>>
      /\ pc[j] = "read" /\ job[j].op \in {"hydrate", "refresh"}
  BY DEF ReadToken, Quiet, keychain, server, ghosts
<1>2. Chain(Held)' /\ Serving'
  BY <1>1, ChainStays, ServingStays
<1>3. CASE ~Current(j) /\ GiveUp(j)
  <2>1. Settle(j, 0) /\ UNCHANGED <<gen, store, credQ>>
    BY <1>3 DEF GiveUp
  <2> QED BY <1>1, <1>2, <2>1, Sworn, SettleTypes
<1>4. CASE Current(j) /\ CurrentToken = 0 /\ job[j].op = "hydrate" /\ Goto(j, "clear") /\ Enter(j)
           /\ UNCHANGED <<gen, inFlight, store, job, api>>
  <2>1. Fits("clear", job[j])
    BY <1>1, Here DEF Fits, Asking
  <2>2. Queues(j, "clear") /\ "clear" \in Labels
    BY <1>4 DEF Queues, HoldsLock, Labels
  <2> QED BY <1>1, <1>2, <1>4, <2>1, <2>2, Here, Sworn, MoveTypes DEF Goto
<1>5. CASE Invalidate(j) /\ UNCHANGED api
  BY <1>1, <1>5, InvalidateTypes
<1>6. CASE /\ CurrentToken # 0 /\ job' = [job EXCEPT ![j].tok = CurrentToken]
           /\ Goto(j, IF job[j].op = "hydrate" THEN "copy" ELSE "sent")
           /\ UNCHANGED <<gen, inFlight, store, credQ, api>>
  <2>1. PICK b : b = [job[j] EXCEPT !.tok = CurrentToken]
    OBVIOUS
  <2>2. PICK p \in {"copy", "sent"} : p = IF job[j].op = "hydrate" THEN "copy" ELSE "sent"
    OBVIOUS
  <2>3. job[j] \in JobSet(Named) /\ Fits(pc[j], job[j]) /\ CurrentToken \in Named
    BY Here, Sworn
  <2>4. b \in JobSet(Named) /\ b.gen = job[j].gen
        /\ b.op = job[j].op /\ b.user = job[j].user /\ b.copy = job[j].copy /\ b.new = job[j].new
           /\ b.reply = job[j].reply
    BY <2>1, <2>3 DEF JobSet
  <2>5. Fits(p, b) /\ b.new = 0
    BY <1>1, <2>2, <2>3, <2>4 DEF Fits, Asking
  <2>6. b.gen <= gen /\ Bred(issued, b) /\ p \in Labels /\ Queues(j, p)
    BY <1>6, <2>4, <2>5, Here DEF Bred, Labels, Queues, HoldsLock
  <2>7. job' = [job EXCEPT ![j] = b] /\ pc' = [pc EXCEPT ![j] = p]
    BY <1>6, <2>1, <2>2 DEF Goto
  <2> QED BY <1>1, <1>2, <1>6, <2>4, <2>5, <2>6, <2>7, Sworn, MoveTypes
<1> QED BY <1>3, <1>4, <1>5, <1>6 DEF ReadToken

LEMMA ReadTokenFailsTypes == ASSUME Types, NEW j \in Jobs, ReadTokenFails(j) PROVE Types'
<1>1. UNCHANGED <<gen, persistent, booted, volatile, credQ, issued, spent, deleted, ended, crashes, revQ,
                  pending, owed, left, forgotten, disk, cached>>
      /\ Fault /\ Settle(j, 0)
  BY DEF ReadTokenFails, keychain, server
<1>2. store' \in StoreSet(Named)
  BY Sworn DEF ReadTokenFails, StoreSet, Status
<1> QED BY <1>1, <1>2, Sworn, SettleTypes, ChainStays, ServingStep

LEMMA ReadCopyTypes == ASSUME Types, NEW j \in Jobs, ReadCopy(j) PROVE Types'
<1>1. UNCHANGED <<gen, store, inFlight, booted, persistent, volatile, credQ, api, issued, spent, deleted, ended,
                  crashes, revQ, pending, owed, left, forgotten, disk, cached>>
      /\ pc[j] = "copy" /\ pc' = [pc EXCEPT ![j] = "sent"] /\ (Fault \/ Sound)
  BY DEF ReadCopy, keychain, server, memory, Goto
<1>2. PICK b \in {job[j], [job[j] EXCEPT !.copy = cached]} :
        job' = [job EXCEPT ![j] = b] \/ (UNCHANGED job /\ b = job[j])
  BY DEF ReadCopy
<1>3. job[j] \in JobSet(Named) /\ Fits(pc[j], job[j]) /\ cached \in Named
  BY Here, Sworn
<1>4. b \in JobSet(Named) /\ b.gen = job[j].gen
      /\ b.op = job[j].op /\ b.user = job[j].user /\ b.tok = job[j].tok /\ b.new = job[j].new
         /\ b.reply = job[j].reply
  BY <1>2, <1>3 DEF JobSet
<1>5. Fits("sent", b) /\ b.new = 0
  BY <1>1, <1>3, <1>4 DEF Fits, Asking
<1>6. b.gen <= gen /\ Bred(issued, b) /\ "sent" \in Labels /\ Queues(j, "sent")
  BY <1>1, <1>4, <1>5, Here DEF Bred, Labels, Queues, HoldsLock
<1> QED BY <1>1, <1>2, <1>4, <1>5, <1>6, Sworn, MoveTypes, ChainStays, ServingStep

LEMMA LoseAnswerTypes == ASSUME Types, NEW j \in Jobs, LoseAnswer(j) PROVE Types'
<1>1. UNCHANGED <<gen, store, inFlight, booted, persistent, volatile, credQ, api, issued, spent, deleted, ended,
                  crashes, faults, revQ, pending, owed, left, forgotten, disk, cached>>
      /\ pc[j] = "answered" /\ UNCHANGED pc
  BY DEF LoseAnswer, keychain, server, memory, ghosts
<1>2. PICK b : b = [job[j] EXCEPT !.reply = "failed", !.new = 0]
  OBVIOUS
<1>3. job[j] \in JobSet(Named) /\ Fits(pc[j], job[j]) /\ 0 \in Named
  BY Here
<1>4. b \in JobSet(Named) /\ b.gen = job[j].gen
      /\ b.op = job[j].op /\ b.user = job[j].user /\ b.tok = job[j].tok /\ b.copy = job[j].copy /\ b.new = 0
         /\ b.reply = "failed"
  BY <1>2, <1>3 DEF JobSet
<1>5. Fits("answered", b)
  BY <1>1, <1>3, <1>4 DEF Fits, Asking
<1>6. b.gen <= gen /\ Bred(issued, b) /\ "answered" \in Labels /\ Queues(j, "answered")
  BY <1>1, <1>4, Here DEF Bred, Labels, Queues, HoldsLock
<1>7. pc' = [pc EXCEPT ![j] = "answered"]
  BY <1>1 DEF Types, Jobbing
<1>8. job' = [job EXCEPT ![j] = b]
  BY <1>2 DEF LoseAnswer
<1> QED BY <1>1, <1>4, <1>5, <1>6, <1>7, <1>8, Sworn, MoveTypes, ChainStays, ServingStays

\* The server issues a token.
LEMMA Minted ==
    ASSUME Types, NEW u \in Users, NEW f \in Tokens, Mint(u, f)
    PROVE  /\ issued' \in Seq([user : Users, family : Tokens]) /\ Len(issued') <= MaxTokens
           /\ Len(issued) + 1 \in Tokens \ Held /\ Held' = Held \cup {Len(issued) + 1}
           /\ Named' = Named \cup {Len(issued) + 1}
           /\ \A t \in Held : issued'[t] = issued[t]
           /\ issued'[Len(issued) + 1].user = u /\ issued'[Len(issued) + 1].family = f
<1>1. issued \in Seq([user : Users, family : Tokens]) /\ MaxTokens \in Nat
  BY MobileSessionAssumption DEF Types, Serving
<1>2. PICK r \in [user : Users, family : Tokens] : r = [user |-> u, family |-> f]
  OBVIOUS
<1>3. issued' = Append(issued, r) /\ Len(issued) < MaxTokens
  BY <1>2 DEF Mint
<1>4. /\ issued' \in Seq([user : Users, family : Tokens]) /\ Len(issued') = Len(issued) + 1
      /\ \A t \in 1..Len(issued) : issued'[t] = issued[t]
      /\ issued'[Len(issued) + 1] = r
  BY <1>1, <1>3
<1>5. \A t : t \in Held <=> t \in Tokens /\ t <= Len(issued)
  BY DEF Held
<1>6. \A t : t \in Held' <=> t \in Tokens /\ t <= Len(issued) + 1
  BY <1>4 DEF Held
<1>7. Len(issued) + 1 \in Tokens \ Held /\ \A t \in Held : t \in 1..Len(issued)
  BY <1>1, <1>3, <1>5 DEF Tokens
<1>8. Held' = Held \cup {Len(issued) + 1}
  BY <1>1, <1>5, <1>6, <1>7 DEF Tokens
<1> QED BY <1>1, <1>2, <1>3, <1>4, <1>7, <1>8 DEF Named

LEMMA Grown ==
    ASSUME Types, Held \subseteq Held', UNCHANGED <<memory, credQ, revQ, api, keychain, ghosts>>
    PROVE  Memory(Named)' /\ Chain(Held)' /\ crashes' \in 0..MaxCrashes /\ faults' \in 0..MaxFaults
<1>1. \A N, M : N \subseteq M => StoreSet(N) \subseteq StoreSet(M) /\ ApiSet(N) \subseteq ApiSet(M)
  BY DEF StoreSet, ApiSet
<1>2. \A N, M : N \subseteq M => Seq(N) \subseteq Seq(M)
  OBVIOUS
<1>3. \A N, M : N \subseteq M => TaskSet(N) \subseteq TaskSet(M)
  BY <1>2 DEF TaskSet
<1>4. Named \subseteq Named'
  BY DEF Named
<1>5. store \in StoreSet(Named') /\ api \in ApiSet(Named')
  BY <1>1, <1>4, Sworn
<1>6. Memory(Named)'
  BY <1>4, <1>5 DEF Types, Memory, memory, keychain
<1>7. revQ \in Seq(TaskSet(Held')) /\ pending \in Seq(Held')
  BY <1>2, <1>3 DEF Types, Chain
<1>8. Chain(Held)'
  BY <1>7 DEF Types, Chain, keychain, ghosts
<1> QED BY <1>6, <1>8 DEF Types, Serving, ghosts

\* A pair is issued to a job.
LEMMA PairIssued ==
    ASSUME Types, NEW j \in Jobs, NEW u \in Users, NEW f \in Tokens, Mint(u, f), pc[j] = "sent",
           (f \in Held /\ Owner(f) = u) \/ f = Len(issued) + 1,
           job[j].op \in {"hydrate", "refresh"} => job[j].tok \in Held /\ f = Family(job[j].tok),
           pc' = [pc EXCEPT ![j] = "answered"],
           job' = [job EXCEPT ![j].reply = "ok", ![j].new = Len(issued) + 1],
           spent' \subseteq Held', UNCHANGED <<deleted, ended>>,
           UNCHANGED <<memory, credQ, revQ, api, keychain, ghosts>>
    PROVE  Types'
<1> DEFINE n == Len(issued) + 1
<1>1. /\ issued' \in Seq([user : Users, family : Tokens]) /\ Len(issued') <= MaxTokens
      /\ n \in Tokens \ Held /\ Held' = Held \cup {n} /\ Named' = Named \cup {n}
      /\ \A t \in Held : issued'[t] = issued[t]
      /\ issued'[n].user = u /\ issued'[n].family = f
  BY Minted
<1>2. PICK m : m = n
  OBVIOUS
<1> HIDE DEF n
<1>3. PICK b : b = [job[j] EXCEPT !.reply = "ok", !.new = m]
  OBVIOUS
<1>4. job[j] \in JobSet(Named) /\ Fits(pc[j], job[j]) /\ job[j].gen <= gen
  BY Here
<1>5. m # 0 /\ m \in Tokens \ Held /\ Held' = Held \cup {m} /\ Named' = Named \cup {m}
  BY <1>1, <1>2 DEF Tokens
<1>6. b \in JobSet(Named') /\ b.gen = job[j].gen
      /\ b.op = job[j].op /\ b.user = job[j].user /\ b.tok = job[j].tok /\ b.copy = job[j].copy /\ b.new = m
         /\ b.reply = "ok"
  BY <1>3, <1>4, <1>5 DEF JobSet
<1>7. Fits("answered", b)
  BY <1>4, <1>5, <1>6 DEF Fits, Asking
<1>8. Bred(issued', b)
  <2>1. SUFFICES ASSUME b.op \in {"hydrate", "refresh"}
                 PROVE  b.tok # 0 /\ issued'[b.new].family = issued'[b.tok].family
    BY DEF Bred
  <2>2. PICK t \in Held : t = b.tok /\ f = Family(t)
    BY <1>6, <2>1
  <2>3. issued'[t] = issued[t] /\ issued'[b.new].family = f /\ t # 0
    BY <1>1, <1>2, <1>6, <2>2 DEF Held, Tokens
  <2> QED BY <2>2, <2>3 DEF Family
<1>9. job' = [job EXCEPT ![j] = b]
  BY <1>2, <1>3 DEF n
<1>10. Memory(Named)' /\ Chain(Held)' /\ crashes' \in 0..MaxCrashes /\ faults' \in 0..MaxFaults
  BY <1>5, Grown
<1>11. Queues(j, "answered") /\ "answered" \in Labels /\ gen' = gen /\ gen \in Int
  BY Sworn DEF Queues, HoldsLock, Labels, memory
<1>12. \A t \in Held : Family(t)' = Family(t)
  BY <1>1 DEF Family
<1>13. Jobbing(Named)'
  <2>1. PICK N : N = Named
    OBVIOUS
  <2>2. PICK M : M = Named'
    OBVIOUS
  <2>3. Jobbing(M)'
    <3>1. N \subseteq M /\ Jobbing(N) /\ b \in JobSet(M) /\ N \subseteq Named
      BY <1>5, <1>6, <2>1, <2>2 DEF Types
    <3>2. b.gen <= gen' /\ gen <= gen' /\ gen' \in Int
      BY <1>4, <1>6, <1>11
    <3> QED BY <3>1, <3>2, <1>7, <1>8, <1>9, <1>11, <1>12, JobStep
  <2> QED BY <2>2, <2>3
<1>14. \A t \in Held' : (Family(t) \in Held)' /\ (Owner(t) \in Users)' /\ (Owner(Family(t)) = Owner(t))'
  <2>1. \A t \in Held : Family(t) \in Held /\ Owner(t) \in Users /\ Owner(Family(t)) = Owner(t)
    BY DEF Types, Serving
  <2>2. \A t \in Held : Family(t)' = Family(t) /\ Owner(t)' = Owner(t)
    BY <1>1 DEF Family, Owner
  <2>3. ASSUME NEW t \in Held
        PROVE  (Family(t) \in Held)' /\ (Owner(t) \in Users)' /\ (Owner(Family(t)) = Owner(t))'
    BY <2>1, <2>2, <1>5, <1>1 DEF Family, Owner
  <2>4. (Family(m) \in Held)' /\ (Owner(m) \in Users)' /\ (Owner(Family(m)) = Owner(m))'
    <3>1. issued'[m].user = u /\ issued'[m].family = f /\ f \in Held'
      BY <1>1, <1>2, <1>5 DEF n
    <3>2. issued'[f].user = u
      <4>1. CASE f \in Held /\ Owner(f) = u
        BY <4>1, <1>1 DEF Owner
      <4>2. CASE f = Len(issued) + 1
        BY <4>2, <3>1, <1>2 DEF n
      <4> QED BY <4>1, <4>2
    <3> QED BY <3>1, <3>2 DEF Family, Owner
  <2> QED BY <2>3, <2>4, <1>5
<1>15. Serving'
  BY <1>1, <1>5, <1>10, <1>14 DEF Types, Serving
<1> QED BY <1>10, <1>13, <1>15 DEF Types

\* An answer without a pair.
LEMMA RefusedTypes ==
    ASSUME Types, NEW j \in Jobs, NEW r \in {"rejected", "failed"}, pc[j] = "sent",
           pc' = [pc EXCEPT ![j] = "answered"], job' = [job EXCEPT ![j].reply = r], Serving',
           UNCHANGED <<memory, credQ, revQ, api, keychain, ghosts, issued>>
    PROVE  Types'
<1>1. PICK b : b = [job[j] EXCEPT !.reply = r]
  OBVIOUS
<1>2. job[j] \in JobSet(Named) /\ Fits(pc[j], job[j])
  BY Here
<1>3. b \in JobSet(Named) /\ b.gen = job[j].gen
      /\ b.op = job[j].op /\ b.user = job[j].user /\ b.tok = job[j].tok /\ b.copy = job[j].copy
         /\ b.new = job[j].new /\ b.reply = r
  BY <1>1, <1>2 DEF JobSet
<1>4. Fits("answered", b) /\ b.new = 0
  BY <1>2, <1>3 DEF Fits, Asking
<1>5. b.gen <= gen /\ Bred(issued, b) /\ "answered" \in Labels /\ Queues(j, "answered")
  BY <1>3, <1>4, Here DEF Bred, Labels, Queues, HoldsLock
<1>6. UNCHANGED <<gen, store, inFlight, booted, persistent, volatile, disk, cached, revQ, pending, owed, left,
                  forgotten>>
  BY DEF memory, keychain, ghosts
<1>7. job' = [job EXCEPT ![j] = b]
  BY <1>1
<1> QED BY <1>3, <1>4, <1>5, <1>6, <1>7, Sworn, MoveTypes, ChainStays

LEMMA ServeTypes == ASSUME Types, NEW j \in Jobs, Serve(j) PROVE Types'
<1>1. UNCHANGED <<memory, credQ, revQ, api, keychain, ghosts>> /\ pc[j] = "sent"
      /\ pc' = [pc EXCEPT ![j] = "answered"]
      /\ UNCHANGED <<crashes, faults>>
  BY DEF Serve, Goto, ghosts
<1>2. \A t \in Held : Family(t) \in Held /\ Owner(t) \in Users /\ Owner(Family(t)) = Owner(t)
  BY DEF Types, Serving
<1>3. CASE job[j].op = "login" /\ ServeLogin(j)
  <2>1. CASE /\ Mint(job[j].user, Len(issued) + 1)
             /\ job' = [job EXCEPT ![j].reply = "ok", ![j].new = Len(issued) + 1]
             /\ UNCHANGED <<spent, deleted, ended>>
    <3>1. Len(issued) + 1 \in Tokens
      BY <2>1, MobileSessionAssumption DEF Mint, Tokens, Types, Serving
    <3>2. job[j].user \in Users
      BY <1>3, Here DEF Fits
    <3>3. spent' \subseteq Held'
      BY <2>1, <3>1, <3>2, Minted DEF Types, Serving
    <3> QED BY <1>1, <1>3, <2>1, <3>1, <3>2, <3>3, PairIssued
  <2>2. CASE job' = [job EXCEPT ![j].reply = "rejected"] /\ UNCHANGED server
    BY <1>1, <2>2, RefusedTypes, ServingStays DEF server
  <2> QED BY <1>3, <2>1, <2>2 DEF ServeLogin
<1>4. CASE job[j].op # "login" /\ ServeRefresh(j)
  <2>0. PICK t \in Named : t = job[j].tok
    BY Here DEF JobSet
  <2>1. CASE /\ Good(t) /\ Mint(Owner(t), Family(t)) /\ spent' = spent \cup {t}
             /\ job' = [job EXCEPT ![j].reply = "ok", ![j].new = Len(issued) + 1]
             /\ UNCHANGED <<deleted, ended>>
    <3>1. t \in Held /\ Held \subseteq Tokens
      BY <2>1 DEF Good, Held
    <3>2. Family(t) \in Tokens /\ Family(t) \in Held /\ Owner(t) \in Users /\ Owner(Family(t)) = Owner(t)
      BY <3>1, <1>2
    <3>3. spent' \subseteq Held'
      BY <2>1, <3>1, <3>2, Minted DEF Types, Serving
    <3> QED BY <1>1, <2>0, <2>1, <3>1, <3>2, <3>3, PairIssued
  <2>2. CASE /\ deleted' = deleted \cup OwnedBy(Owner(t)) /\ job' = [job EXCEPT ![j].reply = "rejected"]
             /\ UNCHANGED <<issued, spent, ended>>
    <3>1. deleted' \subseteq Held
      BY <2>2 DEF OwnedBy, Types, Serving
    <3>2. Serving'
      BY <1>1, <2>2, <3>1, SameIssued DEF Types, Serving
    <3> QED BY <1>1, <2>2, <3>2, RefusedTypes
  <2>3. CASE job' = [job EXCEPT ![j].reply = "rejected"] /\ UNCHANGED server
    BY <1>1, <2>3, RefusedTypes, ServingStays DEF server
  <2> QED BY <1>4, <2>0, <2>1, <2>2, <2>3 DEF ServeRefresh
<1>5. CASE job' = [job EXCEPT ![j].reply = "failed"] /\ UNCHANGED server
  BY <1>1, <1>5, RefusedTypes, ServingStays DEF server
<1> QED BY <1>3, <1>4, <1>5 DEF Serve

LEMMA RevokeTypes ==
    ASSUME Types, NEW j \in Jobs, NEW t \in Held, Revoke(j, t), UNCHANGED <<issued, pending, left, forgotten>>
    PROVE  Chain(Held)'
<1>1. Task(j, <<t>>) \in TaskSet(Held)
  BY DEF Task, TaskSet
<1>2. revQ' \in Seq(TaskSet(Held)) /\ owed' \subseteq Held
  BY <1>1 DEF Revoke, Types, Chain
<1> QED BY <1>2, SameIssued DEF Types, Chain

LEMMA RemoveStoredTypes ==
    ASSUME Types, RemoveStored
    PROVE  volatile' \in Named /\ disk' \in Named /\ cached' \in Named /\ (Fault \/ Sound)
  BY Sworn DEF RemoveStored

\* Under the lock a job has a pair.
LEMMA Paired ==
    ASSUME Types, NEW j \in Jobs, pc[j] \in {"accept", "written", "copied", "reject", "unwritten", "unkept"}
    PROVE  job[j].new \in Held /\ job[j].op \in {"hydrate", "refresh", "login"}
<1>1. job[j] \in JobSet(Named) /\ Fits(pc[j], job[j])
  BY Here
<1>2. job[j].new # 0 /\ job[j].op \in {"hydrate", "refresh", "login"}
  BY <1>1 DEF Fits, Asking
<1> QED BY <1>1, <1>2 DEF JobSet, Named

\* A job goes on with what it has.
LEMMA PassTypes ==
    ASSUME Types, UNCHANGED <<gen, issued, store, inFlight, booted, api, job>>, NEW j \in Jobs,
           NEW p \in Labels,
           pc' = [pc EXCEPT ![j] = p], Fits(p, job[j]), Queues(j, p), persistent' \in BOOLEAN,
           volatile' \in Named, disk' \in Named, cached' \in Named, Chain(Held)', Serving'
    PROVE  Types'
  BY Here, MoveTypes

\* What a failed restore shows.
LEMMA RestoredTypes ==
    ASSUME Types, NEW j \in Jobs, store' \in {store, SignedOut, Restored(j)}
    PROVE  store' \in StoreSet(Named)
<1>1. OfflineCopy(j) => Owner(job[j].copy) \in Users
  BY Here DEF OfflineCopy, JobSet, Named, Types, Serving
<1>2. \A s, u : s \in Status /\ u \in Users \cup {None}
      => [status |-> s, access |-> 0, user |-> u] \in StoreSet(Named)
  BY Here DEF StoreSet
<1>3. "offline" \in Status /\ "restore_error" \in Status
  BY DEF Status
<1> QED BY <1>1, <1>2, <1>3, Sworn DEF Restored

\* The end of an invalid session, of a failed call.
LEMMA FailsTypes ==
    ASSUME Types, NEW j \in Jobs, Fails(j), pc[j] = "answered", Quiet
    PROVE  Types'
<1>1. UNCHANGED <<persistent, booted, volatile, issued, spent, deleted, ended, crashes, faults, revQ, pending,
                  owed, left, forgotten, disk, cached>>
  BY DEF Quiet, keychain, server, ghosts
<1>2. Chain(Held)' /\ Serving'
  BY <1>1, ChainStays, ServingStays
<1>3. CASE GiveUp(j)
  BY <1>1, <1>2, <1>3, Sworn, SettleTypes DEF GiveUp
<1>4. CASE job[j].op # "login" /\ Invalidate(j) /\ UNCHANGED api
  <2>1. job[j].op \in {"hydrate", "refresh"}
    BY <1>4, Here DEF Fits, Asking
  <2> QED BY <1>4, <2>1, InvalidateTypes DEF Quiet
<1>5. CASE Settle(j, 0) /\ store' = Restored(j) /\ UNCHANGED <<gen, credQ>>
  <2>1. store' \in StoreSet(Named)
    BY <1>5, RestoredTypes
  <2> QED BY <1>1, <1>2, <1>5, <2>1, Sworn, SettleTypes
<1> QED BY <1>3, <1>4, <1>5 DEF Fails

LEMMA ReceiveTypes == ASSUME Types, NEW j \in Jobs, Receive(j) PROVE Types'
<1>1. UNCHANGED <<persistent, booted, volatile, issued, spent, deleted, ended, crashes, faults, revQ, pending,
                  owed, left, forgotten, disk, cached>>
      /\ pc[j] = "answered" /\ Quiet
  BY DEF Receive, Quiet, keychain, server, ghosts
<1>2. CASE job[j].reply = "ok" /\ Goto(j, "accept") /\ Enter(j) /\ UNCHANGED <<gen, inFlight, store, job, api>>
  <2>1. Fits("accept", job[j])
    BY <1>1, <1>2, Here DEF Fits, Asking
  <2>2. Queues(j, "accept") /\ "accept" \in Labels
    BY <1>2 DEF Queues, HoldsLock, Labels
  <2> QED BY <1>1, <1>2, <2>1, <2>2, Sworn, PassTypes, ChainStays, ServingStays DEF Goto
<1>3. CASE Fails(j)
  BY <1>1, <1>3, FailsTypes
<1> QED BY <1>2, <1>3 DEF Receive

LEMMA AcceptTypes == ASSUME Types, NEW j \in Jobs, Accept(j) PROVE Types'
<1>1. UNCHANGED <<gen, persistent, inFlight, store, booted, job, credQ, api, cached, pending, issued, spent,
                  deleted, ended, crashes, forgotten, left>>
      /\ pc[j] = "accept" /\ Turn(j)
  BY DEF Accept, server
<1>2. job[j].new \in Held /\ job[j].new \in Named
  BY <1>1, Paired DEF Named
<1>3. \A p \in {"written", "reject", "unwritten"} : Fits(p, job[j]) /\ p \in Labels /\ Queues(j, p)
  BY <1>1, Here DEF Fits, Asking, Labels, Queues
<1>4. CASE Revoke(j, job[j].new) /\ Goto(j, "reject") /\ UNCHANGED <<volatile, disk, faults>>
  BY <1>1, <1>2, <1>3, <1>4, RevokeTypes, Sworn, PassTypes, ServingStays DEF Goto
<1>5. CASE WriteToken(job[j].new) /\ Goto(j, "written") /\ UNCHANGED <<revQ, owed>>
  <2>1. volatile' \in Named /\ disk' \in Named /\ (Fault \/ Sound)
    BY <1>2, <1>5, Sworn DEF WriteToken
  <2>2. Chain(Held)' /\ Serving'
    BY <1>1, <1>5, <2>1, ChainStays, ServingStep
  <2> QED BY <1>1, <1>3, <1>5, <2>1, <2>2, Sworn, PassTypes DEF Goto
<1>6. CASE WriteTokenFails(job[j].new) /\ Revoke(j, job[j].new) /\ Goto(j, "unwritten")
  <2>1. volatile' \in Named /\ disk' \in Named /\ (Fault \/ Sound)
    BY <1>2, <1>6, Sworn DEF WriteTokenFails
  <2>2. Chain(Held)' /\ Serving'
    BY <1>1, <1>2, <1>6, <2>1, RevokeTypes, ServingStep
  <2> QED BY <1>1, <1>3, <1>6, <2>1, <2>2, Sworn, PassTypes DEF Goto
<1> QED BY <1>4, <1>5, <1>6 DEF Accept

LEMMA TakeBackTypes ==
    ASSUME Types, NEW j \in Jobs, TakeBack(j), pc[j] \in {"written", "copied"},
           UNCHANGED <<gen, persistent, inFlight, store, booted, job, credQ, api, pending, issued, spent,
                       deleted, ended, crashes, forgotten, left>>
    PROVE  Types'
<1>1. job[j].new \in Held
  BY Paired
<1>2. Fits("reject", job[j]) /\ "reject" \in Labels /\ Queues(j, "reject")
  BY Here DEF Fits, Asking, Labels, Queues, HoldsLock
<1>3. volatile' \in Named /\ disk' \in Named /\ cached' \in Named /\ (Fault \/ Sound)
  BY RemoveStoredTypes DEF TakeBack
<1>4. Chain(Held)' /\ Serving'
  BY <1>1, <1>3, RevokeTypes, ServingStep DEF TakeBack
<1> QED BY <1>2, <1>3, <1>4, Sworn, PassTypes DEF TakeBack, Goto

LEMMA WrittenTypes == ASSUME Types, NEW j \in Jobs, Written(j) PROVE Types'
<1>1. UNCHANGED <<gen, persistent, inFlight, store, booted, job, credQ, api, pending, issued, spent, deleted,
                  ended, crashes, forgotten, left>>
      /\ pc[j] = "written"
  BY DEF Written, server
<1>2. CASE Current(j)
  <2>1. WriteCached(job[j].new) /\ Goto(j, "copied") /\ UNCHANGED <<volatile, disk, revQ, owed>>
    BY <1>2 DEF Written
  <2>2. cached' \in Named /\ (Fault \/ Sound)
    <3>1. job[j].new \in Named /\ 0 \in Named
      BY <1>1, Paired DEF Named
    <3> QED BY <2>1, <3>1, Sworn DEF WriteCached
  <2>3. Fits("copied", job[j]) /\ "copied" \in Labels /\ Queues(j, "copied")
    BY <1>1, Here DEF Fits, Asking, Labels, Queues, HoldsLock
  <2>4. Chain(Held)' /\ Serving'
    BY <1>1, <2>1, <2>2, ChainStays, ServingStep
  <2> QED BY <1>1, <2>1, <2>2, <2>3, <2>4, Sworn, PassTypes DEF Goto
<1>3. CASE ~Current(j)
  BY <1>1, <1>3, TakeBackTypes DEF Written
<1> QED BY <1>2, <1>3

LEMMA CopiedTypes == ASSUME Types, NEW j \in Jobs, Copied(j) PROVE Types'
<1>1. UNCHANGED <<pending, issued, spent, deleted, ended, crashes, forgotten, left>> /\ pc[j] = "copied"
  BY DEF Copied, server
<1>2. CASE TakeBack(j) /\ UNCHANGED <<gen, persistent, inFlight, store, booted, job, credQ, api>>
  BY <1>1, <1>2, TakeBackTypes
<1>3. CASE /\ store' = [status |-> "authenticated", access |-> job[j].new, user |-> Owner(job[j].new)]
           /\ Settle(j, job[j].new) /\ Leave
           /\ revQ' = IF job[j].op = "hydrate" THEN Flush(revQ) ELSE revQ
           /\ UNCHANGED <<gen, persistent, volatile, booted, disk, cached, faults, owed>>
  <2>1. job[j].new \in Named /\ Owner(job[j].new) \in Users
    BY <1>1, Paired DEF Named, Types, Serving
  <2>2. store' \in StoreSet(Named)
    BY <1>3, <2>1 DEF StoreSet, Status
  <2>3. Turn(j)
    BY <1>1, Here DEF HoldsLock
  <2>4. Chain(Held)' /\ Serving'
    BY <1>1, <1>3, FlushStep, SameIssued, ServingStays DEF Types, Chain
  <2> QED BY <1>1, <1>3, <2>1, <2>2, <2>3, <2>4, Sworn, SettleTypes
<1> QED BY <1>2, <1>3 DEF Copied

LEMMA RejectTypes == ASSUME Types, NEW j \in Jobs, Reject(j) PROVE Types'
<1>1. UNCHANGED <<gen, store, persistent, booted, volatile, revQ, pending, disk, cached, issued, spent, deleted,
                  ended, crashes, faults, forgotten, owed, left>>
      /\ pc[j] = "reject" /\ Settle(j, 0) /\ Leave
  BY DEF Reject, keychain, server, ghosts
<1>2. Turn(j)
  BY <1>1, Here DEF HoldsLock
<1> QED BY <1>1, <1>2, Sworn, SettleTypes, ChainStays, ServingStays

LEMMA UnwrittenTypes == ASSUME Types, NEW j \in Jobs, Unwritten(j) PROVE Types'
<1>1. UNCHANGED <<gen, persistent, booted, revQ, pending, issued, spent, deleted, ended, crashes, forgotten,
                  owed, left>>
      /\ pc[j] = "unwritten"
  BY DEF Unwritten, server
<1>2. CASE RemoveStored /\ Goto(j, "unkept") /\ UNCHANGED <<inFlight, store, job, credQ, api>>
  <2>1. volatile' \in Named /\ disk' \in Named /\ cached' \in Named /\ (Fault \/ Sound)
    BY <1>2, RemoveStoredTypes
  <2>2. Fits("unkept", job[j]) /\ "unkept" \in Labels /\ Queues(j, "unkept")
    BY <1>1, <1>2, Here DEF Fits, Asking, Labels, Queues, HoldsLock
  <2>3. Chain(Held)' /\ Serving'
    BY <1>1, <2>1, ChainStays, ServingStep
  <2> QED BY <1>1, <1>2, <2>1, <2>2, <2>3, Sworn, PassTypes DEF Goto
<1>3. CASE /\ Settle(j, 0) /\ Leave /\ store' \in {store, Restored(j)}
           /\ UNCHANGED <<volatile, disk, cached, faults>>
  <2>1. Turn(j)
    BY <1>1, Here DEF HoldsLock
  <2>2. store' \in StoreSet(Named)
    BY <1>3, RestoredTypes
  <2> QED BY <1>1, <1>3, <2>1, <2>2, Sworn, SettleTypes, ChainStays, ServingStays
<1> QED BY <1>2, <1>3 DEF Unwritten

LEMMA UnkeptTypes == ASSUME Types, NEW j \in Jobs, Unkept(j) PROVE Types'
<1>1. UNCHANGED <<gen, persistent, booted, volatile, revQ, pending, disk, cached, issued, spent, deleted,
                  ended, crashes, faults, forgotten, owed, left>>
      /\ pc[j] = "unkept" /\ Settle(j, 0) /\ Leave
  BY DEF Unkept, keychain, server, ghosts
<1>2. Turn(j)
  BY <1>1, Here DEF HoldsLock
<1>3. store' \in StoreSet(Named)
  BY RestoredTypes DEF Unkept
<1> QED BY <1>1, <1>2, <1>3, Sworn, SettleTypes, ChainStays, ServingStays

\* What follows the clearing of the keychain.
LEMMA AfterClearTypes ==
    ASSUME Types, NEW j \in Jobs, AfterClear(j), pc[j] \in {"clear", "wiped"}, Turn(j), Leave,
           UNCHANGED <<gen, booted, volatile, revQ, pending, disk, cached, issued, spent, deleted, ended,
                       crashes, faults, forgotten, owed>>,
           store' \in StoreSet(Named), left' \subseteq Held
    PROVE  Types'
<1>1. Chain(Held)' /\ Serving'
  BY SameIssued, ServingStays DEF Types, Chain
<1>2. CASE job[j].op = "login" /\ Goto(j, "sent") /\ persistent' = job[j].remember
           /\ UNCHANGED <<inFlight, job, api>>
  <2>1. Fits("sent", job[j]) /\ "sent" \in Labels
    BY <1>2, Here DEF Fits, Asking, Labels
  <2>2. Queues(j, "sent")
    BY DEF Queues, HoldsLock
  <2>3. persistent' \in BOOLEAN
    BY <1>2, Here DEF JobSet
  <2>4. gen <= gen' /\ gen' \in 0..MaxGen /\ gen' = gen /\ booted' \in BOOLEAN /\ persistent' \in BOOLEAN
    BY <1>2, Sworn, <2>3
  <2>5. Memory(Named)'
    BY <1>2, <2>4, Sworn, MemoryStep
  <2> QED BY <1>1, <1>2, <2>1, <2>2, <2>4, <2>5, Here, JobStepTypes DEF Goto
<1>3. CASE job[j].op = "logout" /\ Goto(j, "join") /\ UNCHANGED <<persistent, inFlight, job, api>>
  <2>1. Fits("join", job[j]) /\ "join" \in Labels
    BY <1>3, Here DEF Fits, Asking, Labels
  <2>2. Queues(j, "join")
    BY DEF Queues, HoldsLock
  <2>4. gen <= gen' /\ gen' \in 0..MaxGen /\ gen' = gen /\ booted' \in BOOLEAN /\ persistent' \in BOOLEAN
    BY <1>3, Sworn
  <2>5. Memory(Named)'
    BY <1>3, <2>4, Sworn, MemoryStep
  <2> QED BY <1>1, <1>3, <2>1, <2>2, <2>4, <2>5, Here, JobStepTypes DEF Goto
<1>4. CASE Settle(j, 0) /\ UNCHANGED persistent
  BY <1>1, <1>4, Sworn, SettleTypes
<1> QED BY <1>2, <1>3, <1>4 DEF AfterClear

LEMMA ClearTypes == ASSUME Types, NEW j \in Jobs, Clear(j) PROVE Types'
<1>1. UNCHANGED <<gen, store, booted, revQ, pending, issued, spent, deleted, ended, crashes, forgotten, owed,
                  left>>
      /\ pc[j] = "clear" /\ Turn(j)
  BY DEF Clear, server
<1>2. CASE RemoveStored /\ Goto(j, "wiped") /\ UNCHANGED <<persistent, inFlight, job, credQ, api>>
  <2>1. Fits("wiped", job[j]) /\ "wiped" \in Labels /\ Queues(j, "wiped")
    BY <1>1, <1>2, Here DEF Fits, Asking, Labels, Queues
  <2>2. volatile' \in Named /\ disk' \in Named /\ cached' \in Named /\ (Fault \/ Sound)
    BY <1>2, RemoveStoredTypes
  <2> QED BY <1>1, <1>2, <2>1, <2>2, Sworn, PassTypes, ChainStays, ServingStep DEF Goto
<1>3. CASE Leave /\ AfterClear(j) /\ UNCHANGED <<volatile, disk, cached, faults>>
  <2>1. left' \subseteq Held /\ store' \in StoreSet(Named)
    BY <1>1, Sworn DEF Types, Chain
  <2> QED BY <1>1, <1>3, <2>1, AfterClearTypes
<1> QED BY <1>2, <1>3 DEF Clear

LEMMA WipedTypes == ASSUME Types, NEW j \in Jobs, Wiped(j) PROVE Types'
<1>1. UNCHANGED <<gen, booted, volatile, revQ, pending, disk, cached, issued, spent, deleted, ended, crashes,
                  faults, forgotten, owed>>
      /\ pc[j] = "wiped" /\ Leave /\ AfterClear(j)
  BY DEF Wiped, keychain, server
<1>2. left' \subseteq Held
  <2>1. job[j].tok # 0 => Family(job[j].tok) \in Held
    BY Here DEF JobSet, Named, Types, Serving
  <2> QED BY <2>1 DEF Wiped, Types, Chain
<1>3. store' \in StoreSet(Named)
  BY Sworn DEF Wiped
<1>4. Turn(j)
  BY <1>1, Here DEF HoldsLock
<1> QED BY <1>1, <1>2, <1>3, <1>4, AfterClearTypes

LEMMA JoinTypes == ASSUME Types, NEW j \in Jobs, Join(j) PROVE Types'
<1>1. UNCHANGED <<gen, persistent, store, volatile, booted, credQ, revQ, pending, disk, cached, issued, spent,
                  deleted, ended, crashes, faults, forgotten, owed, left>>
      /\ Settle(j, 0)
  BY DEF Join, keychain, server, ghosts
<1> QED BY <1>1, Sworn, SettleTypes, ChainStays, ServingStays

LEMMA LeaveSessionTypes == ASSUME Types, NEW j \in Jobs, LeaveSession(j) PROVE Types'
<1>1. UNCHANGED <<persistent, volatile, booted, api, disk, cached, pending, issued, spent, deleted, ended,
                  crashes, forgotten, left>>
      /\ pc[j] = "read" /\ job[j].op = "logout" /\ Transition(SignedOut) /\ Goto(j, "clear") /\ Enter(j)
  BY DEF LeaveSession, keychain, server
<1>2. PICK t \in {CurrentToken, 0} :
        /\ IF t = CurrentToken THEN Sound ELSE Fault
        /\ job' = [job EXCEPT ![j].gen = gen + 1, ![j].tok = t]
        /\ IF t # 0 THEN Revoke(j, t) ELSE UNCHANGED <<revQ, owed>>
  BY DEF LeaveSession
<1>3. t \in Named
  BY <1>2, Sworn
<1>4. gen' = gen + 1 /\ gen' \in 0..MaxGen /\ gen <= gen' /\ Memory(Named)'
  <2>1. persistent' \in BOOLEAN /\ booted' \in BOOLEAN
    BY <1>1, Sworn
  <2> QED BY <1>1, <2>1, Sworn, TransitionStep
<1>5. PICK b : b = [job[j] EXCEPT !.gen = gen + 1, !.tok = t]
  OBVIOUS
<1>6. job[j] \in JobSet(Named) /\ Fits(pc[j], job[j])
  BY Here
<1>7. b \in JobSet(Named) /\ b.gen = gen' /\ b.op = job[j].op /\ b.copy = job[j].copy /\ b.new = job[j].new
      /\ b.reply = job[j].reply
  BY <1>3, <1>4, <1>5, <1>6 DEF JobSet
<1>8. Fits("clear", b) /\ b.new = 0 /\ "clear" \in Labels
  BY <1>1, <1>6, <1>7 DEF Fits, Asking, Labels
<1>9. Queues(j, "clear") /\ Bred(issued, b) /\ b.gen <= gen'
  BY <1>1, <1>4, <1>7, <1>8 DEF Queues, HoldsLock, Bred
<1>10. Serving'
  BY <1>1, <1>2, ServingStep
<1>11. Chain(Held)'
  <2>1. CASE t # 0
    BY <1>1, <1>2, <1>3, <2>1, RevokeTypes DEF Named
  <2>2. CASE t = 0
    BY <1>1, <1>2, <2>2, ChainStays
  <2> QED BY <2>1, <2>2
<1>12. job' = [job EXCEPT ![j] = b]
  BY <1>2, <1>5
<1> QED BY <1>1, <1>4, <1>7, <1>8, <1>9, <1>10, <1>11, <1>12, JobStepTypes DEF Goto

LEMMA StepTypes == ASSUME Types, NEW j \in Jobs, Step(j) PROVE Types'
  BY ReadTokenTypes, ReadTokenFailsTypes, ReadCopyTypes, ServeTypes, LoseAnswerTypes, ReceiveTypes,
     AcceptTypes, WrittenTypes, CopiedTypes, RejectTypes, UnwrittenTypes, UnkeptTypes, ClearTypes, WipedTypes,
     LeaveSessionTypes, JoinTypes DEF Step

-----------------------------------------------------------------------------
(* Types, in the revocation chain. *)

LEMMA HeadTask ==
    ASSUME Types, Busy
    PROVE  /\ First \in TaskSet(Held) /\ First = revQ[1] /\ Len(revQ) \in Nat \ {0} /\ 1 \in 1..Len(revQ)
           /\ First.list \in Seq(Held) /\ First.by \in Jobs \cup {None}
           /\ First.st # "start" => First.list # <<>> /\ Head(First.list) \in Held
           /\ revQ \in Seq(TaskSet(Held)) /\ pending \in Seq(Held) /\ Tail(revQ) \in Seq(TaskSet(Held))
<1>1. revQ \in Seq(TaskSet(Held)) /\ revQ # <<>> /\ pending \in Seq(Held)
  BY DEF Types, Chain, Busy
<1>2. First \in TaskSet(Held) /\ First = revQ[1] /\ Len(revQ) \in Nat \ {0} /\ Tail(revQ) \in Seq(TaskSet(Held))
  BY <1>1 DEF First
<1>3. PICK x \in TaskSet(Held) : x = First
  BY <1>2
<1>4. x.list \in Seq(Held) /\ x.by \in Jobs \cup {None} /\ (x.st # "start" => x.list # <<>>)
  BY DEF TaskSet
<1>5. x.list # <<>> => Head(x.list) \in Held
  BY <1>4
<1> QED BY <1>1, <1>2, <1>3, <1>4, <1>5

\* A step of the chain leaves the rest of the app alone, but for a job's note
\* that its token could not be kept.
LEMMA RevokeFrame ==
    ASSUME Types, UNCHANGED <<memory, pc, credQ, api, disk, cached, issued, spent, deleted, crashes>>,
           UNCHANGED job \/ \E k \in Jobs : job' = [job EXCEPT ![k].clean = FALSE],
           ended' \subseteq Held, Fault \/ Sound, Chain(Held)'
    PROVE  Types'
<1>1. Memory(Named)'
  BY SameIssued DEF Types, Memory, memory
<1>2. Serving'
  <2>1. faults' \in 0..MaxFaults
    BY MobileSessionAssumption DEF Fault, Sound, Types, Serving
  <2> QED BY <2>1, SameIssued DEF Types, Serving
<1>3. gen <= gen' /\ gen' = gen
  BY Sworn DEF memory
<1>4. CASE UNCHANGED job
  BY <1>1, <1>2, <1>3, <1>4, SameIssued DEF Types, Jobbing, Turn
<1>5. ASSUME NEW k \in Jobs, job' = [job EXCEPT ![k].clean = FALSE]
      PROVE  Types'
  <2>1. PICK b : b = [job[k] EXCEPT !.clean = FALSE]
    OBVIOUS
  <2>2. job[k] \in JobSet(Named) /\ Fits(pc[k], job[k]) /\ Bred(issued, job[k]) /\ job[k].gen <= gen
    BY Here
  <2>3. b \in JobSet(Named) /\ b.gen = job[k].gen /\ b.op = job[k].op /\ b.user = job[k].user
        /\ b.tok = job[k].tok
        /\ b.copy = job[k].copy /\ b.new = job[k].new /\ b.reply = job[k].reply
    BY <2>1, <2>2 DEF JobSet
  <2>4. Fits(pc[k], b) /\ Bred(issued, b) /\ b.gen <= gen'
    BY <1>3, <2>2, <2>3 DEF Fits, Bred
  <2>5. pc[k] \in Labels /\ Queues(k, pc[k]) /\ pc' = [pc EXCEPT ![k] = pc[k]]
    BY Here DEF Queues, Types, Jobbing
  <2>6. job' = [job EXCEPT ![k] = b]
    BY <1>5, <2>1
  <2> QED BY <1>1, <1>2, <1>3, <2>3, <2>4, <2>5, <2>6, JobStepTypes
<1> QED BY <1>4, <1>5

LEMMA RevocationTypes ==
    ASSUME Types, Busy, First.st # "start", Revocation \/ UNCHANGED ended
    PROVE  ended' \subseteq Held
<1>1. Family(Head(First.list)) \in Held
  BY HeadTask DEF Types, Serving
<1> QED BY <1>1 DEF Revocation, Types, Serving

LEMMA NowTypes ==
    ASSUME Types, Busy, NEW st \in {"sent", "gone", "kept"}, First.st # "start", Now(st)
    PROVE  revQ' \in Seq(TaskSet(Held))
<1>1. PICK x : x = [First EXCEPT !.st = st]
  OBVIOUS
<1>2. x \in TaskSet(Held)
  BY <1>1, HeadTask DEF TaskSet
<1>3. revQ' = [revQ EXCEPT ![1] = x]
  BY <1>1, HeadTask DEF Now
<1> QED BY <1>2, <1>3, HeadTask

LEMMA RevokeStartTypes == ASSUME Types, RevokeStart PROVE Types'
<1>1. Busy /\ First.st = "start"
      /\ UNCHANGED <<memory, pc, job, credQ, api, disk, cached, issued, spent, deleted, ended, crashes>>
      /\ UNCHANGED <<pending, owed, left, forgotten>> /\ Sound
  BY DEF RevokeStart, jobs, keychain, server, ghosts, Sound
<1>2. revQ' \in Seq(TaskSet(Held))
  <2>1. CASE ~IsFlush
    <3>1. PICK x : x = [First EXCEPT !.st = "sent"]
      OBVIOUS
    <3>2. x \in TaskSet(Held)
      BY <1>1, <2>1, <3>1, HeadTask DEF TaskSet, IsFlush
    <3>3. revQ' = [revQ EXCEPT ![1] = x]
      BY <1>1, <2>1, <3>1, HeadTask DEF RevokeStart
    <3> QED BY <1>1, <3>2, <3>3, HeadTask
  <2>2. CASE IsFlush /\ pending = <<>>
    BY <1>1, <2>2, HeadTask DEF RevokeStart
  <2>3. CASE IsFlush /\ pending # <<>>
    <3>1. PICK x : x = [First EXCEPT !.st = "sent", !.list = pending]
      OBVIOUS
    <3>2. x \in TaskSet(Held)
      BY <1>1, <2>3, <3>1, HeadTask DEF TaskSet
    <3>3. revQ' = [revQ EXCEPT ![1] = x]
      BY <1>1, <2>3, <3>1, HeadTask DEF RevokeStart
    <3> QED BY <1>1, <3>2, <3>3, HeadTask
  <2> QED BY <2>1, <2>2, <2>3
<1>3. Chain(Held)' /\ ended' \subseteq Held
  BY <1>1, <1>2, SameIssued DEF Types, Chain, Serving
<1> QED BY <1>1, <1>3, RevokeFrame

\* What writing the list of revocations does: the token is on it, what falls
\* off is noted.
LEMMA Queueing ==
    ASSUME NEW H, pending \in Seq(H), NEW t \in H, Queue(t), forgotten \subseteq H
    PROVE  /\ pending' \in Seq(H) /\ forgotten' \subseteq H /\ forgotten \subseteq forgotten'
           /\ \A s : s \in ToSet(pending) \/ s = t => s \in ToSet(pending') \/ s \in forgotten'
<1>1. PICK list : list = IF Contains(pending, t) THEN pending ELSE Append(pending, t)
  OBVIOUS
<1>2. PICK kept : kept = IF Len(list) > MaxPending THEN Bounded(list) ELSE list
  OBVIOUS
<1>3. pending' = kept /\ forgotten' = forgotten \cup (ToSet(list) \ ToSet(kept))
  BY <1>1, <1>2 DEF Queue
<1>4. list \in Seq(H) /\ \A s : s \in ToSet(pending) \/ s = t => s \in ToSet(list)
  <2>1. CASE Contains(pending, t)
    BY <1>1, <2>1 DEF Contains, ToSet
  <2>2. CASE ~Contains(pending, t)
    <3>1. /\ list \in Seq(H) /\ Len(list) = Len(pending) + 1 /\ DOMAIN list = 1..Len(list)
          /\ \A i \in 1..Len(pending) : list[i] = pending[i]
          /\ list[Len(pending) + 1] = t /\ DOMAIN pending = 1..Len(pending) /\ Len(pending) \in Nat
      BY <1>1, <2>2
    <3>2. t \in ToSet(list)
      BY <3>1 DEF ToSet
    <3>3. ASSUME NEW i \in DOMAIN pending PROVE pending[i] \in ToSet(list)
      BY <3>1 DEF ToSet
    <3> QED BY <3>1, <3>2, <3>3 DEF ToSet
  <2> QED BY <2>1, <2>2
<1>5. kept \in Seq(H)
  <2>1. CASE Len(list) > MaxPending
    <3>0. Len(list) \in Nat /\ MaxPending \in Nat
      BY <1>4, MobileSessionAssumption
    <3>1. PICK m \in Int : m = Len(list) - MaxPending + 1
      BY <3>0
    <3>2. m >= 1 /\ Len(list) \in Int
      BY <3>0, <2>1, <3>1
    <3>3. \A i \in m..Len(list) : list[i] \in H
      BY <1>4, <3>2
    <3> QED BY <1>2, <2>1, <3>1, <3>2, <3>3, SubSeqProperties DEF Bounded
  <2> QED BY <1>2, <1>4, <2>1
<1>6. ToSet(list) \subseteq H
  BY <1>4 DEF ToSet
<1> QED BY <1>3, <1>4, <1>5, <1>6

\* What taking a token off it does.
LEMMA Unqueueing ==
    ASSUME NEW H, pending \in Seq(H), NEW t, Unqueue(t)
    PROVE  /\ pending' \in Seq(H)
           /\ \A s : s \in ToSet(pending) => s = t \/ s \in ToSet(pending')
<1>1. CASE UNCHANGED pending
  BY <1>1
<1>2. ASSUME NEW i \in 1..Len(pending), pending[i] = t, pending' = RemoveAt(pending, i)
      PROVE  /\ pending' \in Seq(H)
             /\ \A s : s \in ToSet(pending) => s = t \/ s \in ToSet(pending')
  <2>1. PICK n \in Nat : n = Len(pending) /\ i \in 1..n /\ DOMAIN pending = 1..n
    BY <1>2
  <2>2. PICK a : a = SubSeq(pending, 1, i - 1)
    OBVIOUS
  <2>3. PICK b : b = SubSeq(pending, i + 1, Len(pending))
    OBVIOUS
  <2>4. a \in Seq(H) /\ Len(a) = i - 1 /\ \A k \in 1..(i - 1) : a[k] = pending[k]
    <3>1. \A k \in 1..(i - 1) : pending[k] \in H
      BY <2>1
    <3>2. i - 1 \in Int /\ i >= 1
      BY <2>1
    <3> QED BY <2>2, <3>1, <3>2, SubSeqProperties
  <2>5. b \in Seq(H) /\ Len(b) = n - i /\ \A k \in 1..(n - i) : b[k] = pending[i + k]
    <3>1. \A k \in (i + 1)..n : pending[k] \in H
      BY <2>1
    <3>2. i + 1 \in Int /\ i <= n
      BY <2>1
    <3>3. b \in Seq(H) /\ Len(b) = (IF i + 1 <= n THEN n - (i + 1) + 1 ELSE 0)
          /\ \A k \in 1..(n - (i + 1) + 1) : b[k] = pending[i + 1 + k - 1]
      BY <2>1, <2>3, <3>1, <3>2, SubSeqProperties
    <3> QED BY <2>1, <3>2, <3>3
  <2>6. pending' = a \o b
    BY <1>2, <2>2, <2>3 DEF RemoveAt
  <2>7. /\ pending' \in Seq(H) /\ Len(pending') = n - 1 /\ DOMAIN pending' = 1..(n - 1)
        /\ \A k \in 1..(n - 1) : pending'[k] = IF k <= i - 1 THEN a[k] ELSE b[k - (i - 1)]
    <3>1. PICK c : c = a \o b
      OBVIOUS
    <3>2. /\ c \in Seq(H) /\ Len(c) = Len(a) + Len(b)
          /\ \A k \in 1..(Len(a) + Len(b)) : c[k] = IF k <= Len(a) THEN a[k] ELSE b[k - Len(a)]
      BY <2>4, <2>5, <3>1, ConcatProperties
    <3>3. Len(a) + Len(b) = n - 1
      BY <2>1, <2>4, <2>5
    <3>4. Len(c) = n - 1 /\ DOMAIN c = 1..(n - 1)
          /\ \A k \in 1..(n - 1) : c[k] = IF k <= i - 1 THEN a[k] ELSE b[k - (i - 1)]
      BY <2>4, <3>2, <3>3
    <3> QED BY <2>6, <3>1, <3>2, <3>4
  <2>8. ASSUME NEW k \in 1..n, k # i PROVE pending[k] \in ToSet(pending')
    <3>1. CASE k < i
      <4>1. k \in 1..(n - 1) /\ k \in 1..(i - 1) /\ k <= i - 1
        BY <2>1, <2>8, <3>1
      <4> QED BY <4>1, <2>4, <2>7 DEF ToSet
    <3>2. CASE k > i
      <4>1. k - 1 \in 1..(n - 1) /\ k - i \in 1..(n - i) /\ ~(k - 1 <= i - 1) /\ k - 1 - (i - 1) = k - i
            /\ i + (k - i) = k
        BY <2>1, <2>8, <3>2
      <4>2. pending'[k - 1] = pending[k]
        BY <4>1, <2>5, <2>7
      <4> QED BY <4>1, <4>2, <2>7 DEF ToSet
    <3> QED BY <2>1, <2>8, <3>1, <3>2
  <2>9. ASSUME NEW s \in ToSet(pending), s # t PROVE s \in ToSet(pending')
    <3>1. PICK k \in 1..n : s = pending[k]
      BY <2>1 DEF ToSet
    <3>2. k # i
      BY <1>2, <2>9, <3>1
    <3> QED BY <2>8, <3>1, <3>2
  <2>10. pending' \in Seq(H)
    BY <2>7
  <2> QED BY <2>9, <2>10
<1> QED BY <1>1, <1>2 DEF Unqueue

LEMMA NextTokenTypes ==
    ASSUME Types, Busy, First.st # "start", NextToken
    PROVE  revQ' \in Seq(TaskSet(Held))
<1>1. CASE Len(First.list) > 1
  <2>1. PICK x : x = [First EXCEPT !.list = Tail(First.list), !.st = "sent"]
    OBVIOUS
  <2>2. Tail(First.list) \in Seq(Held) /\ Tail(First.list) # <<>>
    <3>1. PICK l \in Seq(Held) : l = First.list /\ l # <<>>
      BY HeadTask
    <3>2. Tail(l) \in Seq(Held) /\ Len(Tail(l)) = Len(l) - 1 /\ Len(l) \in Nat /\ Len(l) > 1
      BY <1>1, <3>1, HeadTailProperties
    <3>3. Len(Tail(l)) # 0
      BY <3>2
    <3>4. Tail(l) # <<>>
      BY <3>3, EmptySeq
    <3> QED BY <3>1, <3>2, <3>4
  <2>3. x \in TaskSet(Held)
    BY <2>1, <2>2, HeadTask DEF TaskSet
  <2>4. revQ' = [revQ EXCEPT ![1] = x]
    BY <1>1, <2>1, HeadTask DEF NextToken
  <2> QED BY <2>3, <2>4, HeadTask
<1>2. CASE ~(Len(First.list) > 1)
  BY <1>2, HeadTask DEF NextToken
<1> QED BY <1>1, <1>2

LEMMA RevokeStepTypes == ASSUME Types, RevokeStep PROVE Types'
<1>1. ASSUME RevokeServed \/ RevokeUnsure PROVE Types'
  <2>1. /\ Busy /\ First.st = "sent" /\ (Now("gone") \/ Now("kept")) /\ (Revocation \/ UNCHANGED ended)
        /\ UNCHANGED <<memory, pc, job, credQ, api, disk, cached, issued, spent, deleted, crashes>>
        /\ UNCHANGED <<pending, owed, left, forgotten>> /\ Sound
    BY <1>1 DEF RevokeServed, RevokeUnsure, RevOnly, Sound
  <2>2. revQ' \in Seq(TaskSet(Held)) /\ ended' \subseteq Held
    BY <2>1, NowTypes, RevocationTypes
  <2>3. Chain(Held)'
    BY <2>1, <2>2, SameIssued DEF Types, Chain
  <2> QED BY <2>1, <2>2, <2>3, RevokeFrame
<1>2. ASSUME RevokeGone PROVE Types'
  <2>1. /\ Busy /\ First.st = "gone"
        /\ UNCHANGED <<memory, pc, job, credQ, api, disk, cached, issued, spent, deleted, ended, crashes>>
        /\ UNCHANGED <<owed, left, forgotten>>
    BY <1>2 DEF RevokeGone, RevOnly
  <2>2. CASE Unqueue(Head(First.list)) /\ NextToken /\ Sound
    <3>1. pending' \in Seq(Held) /\ revQ' \in Seq(TaskSet(Held))
      BY <2>1, <2>2, NextTokenTypes, Unqueueing, HeadTask
    <3>2. Chain(Held)' /\ ended' \subseteq Held
      BY <2>1, <3>1, SameIssued DEF Types, Chain, Serving
    <3> QED BY <2>1, <2>2, <3>2, RevokeFrame
  <2>3. CASE Fault /\ Now("kept") /\ UNCHANGED pending
    <3>1. Chain(Held)' /\ ended' \subseteq Held
      BY <2>1, <2>3, NowTypes, SameIssued DEF Types, Chain, Serving
    <3> QED BY <2>1, <2>3, <3>1, RevokeFrame
  <2> QED BY <1>2, <2>2, <2>3 DEF RevokeGone
<1>3. ASSUME RevokeKept PROVE Types'
  <2>1. /\ Busy /\ First.st = "kept" /\ Over
        /\ UNCHANGED <<memory, pc, credQ, api, disk, cached, issued, spent, deleted, ended, crashes>>
        /\ UNCHANGED <<owed, left>>
    BY <1>3 DEF RevokeKept, RevOnly
  <2>2. revQ' \in Seq(TaskSet(Held)) /\ Head(First.list) \in Held /\ pending \in Seq(Held)
        /\ forgotten \subseteq Held
    BY <2>1, HeadTask DEF Over, Types, Chain
  <2>3. ended' \subseteq Held /\ left \subseteq Held /\ owed \subseteq Held /\ Held' = Held
    BY <2>1, SameIssued DEF Types, Chain, Serving
  <2>4. CASE IsFlush /\ Sound /\ UNCHANGED <<pending, forgotten, job>>
    <3>1. Chain(Held)'
      BY <2>1, <2>2, <2>3, <2>4 DEF Chain
    <3> QED BY <2>1, <2>3, <2>4, <3>1, RevokeFrame
  <2>5. CASE Queue(Head(First.list)) /\ Sound /\ UNCHANGED job
    <3>1. pending' \in Seq(Held) /\ forgotten' \subseteq Held
      BY <2>2, <2>5, Queueing
    <3>2. Chain(Held)'
      BY <2>1, <2>2, <2>3, <3>1 DEF Chain
    <3> QED BY <2>1, <2>3, <2>5, <3>2, RevokeFrame
  <2>6. CASE /\ ~IsFlush /\ Fault /\ UNCHANGED pending
             /\ forgotten' = forgotten \cup {Head(First.list)}
             /\ job' = [job EXCEPT ![First.by].clean = FALSE]
    <3>1. Chain(Held)'
      BY <2>1, <2>2, <2>3, <2>6 DEF Chain
    <3>2. First.by \in Jobs
      BY <2>1, <2>6, HeadTask DEF IsFlush
    <3> QED BY <2>1, <2>3, <2>6, <3>1, <3>2, RevokeFrame
  <2> QED BY <1>3, <2>4, <2>5, <2>6 DEF RevokeKept
<1> QED BY <1>1, <1>2, <1>3, RevokeStartTypes DEF RevokeStep

-----------------------------------------------------------------------------
(* Types, in the requests and the rest. *)

LEMMA ForegroundTypes == ASSUME Types, Foreground PROVE Types'
<1>1. UNCHANGED <<memory, pc, job, credQ, api, disk, cached, issued, spent, deleted, ended, crashes, pending,
                  owed, left, forgotten>>
      /\ Sound /\ revQ' = Flush(revQ)
  BY DEF Foreground, jobs, keychain, server, ghosts, Sound
<1>2. Chain(Held)' /\ ended' \subseteq Held
  BY <1>1, FlushStep, SameIssued DEF Types, Chain, Serving
<1> QED BY <1>1, <1>2, RevokeFrame

LEMMA ApiFrame ==
    ASSUME Types, UNCHANGED <<memory, jobs, revQ, keychain, issued, spent, deleted, ghosts>>,
           ended' \subseteq Held,
           api' \in ApiSet(Named), api'.gen <= gen
    PROVE  Types'
<1>1. Memory(Named)'
  BY SameIssued DEF Types, Memory, memory, keychain
<1>2. Jobbing(Named)'
  BY SameIssued DEF Types, Jobbing, jobs, memory, Turn
<1>3. Chain(Held)'
  BY ChainStays DEF keychain, ghosts
<1>4. Serving'
  BY SameIssued DEF Types, Serving, ghosts
<1> QED BY <1>1, <1>2, <1>3, <1>4 DEF Types

LEMMA ApiChanges ==
    ASSUME Types, NEW p \in {"idle", "sent", "answered", "refreshing", "refreshed", "delivered", "failed"},
           NEW r \in {"none", "ok", "rejected", "failed"} \cup Jobs, NEW again \in BOOLEAN
    PROVE  /\ [api EXCEPT !.pc = p] \in ApiSet(Named) /\ [api EXCEPT !.pc = p].gen <= gen
           /\ [api EXCEPT !.pc = p, !.reply = r] \in ApiSet(Named)
              /\ [api EXCEPT !.pc = p, !.reply = r].gen <= gen
           /\ [api EXCEPT !.pc = p, !.retried = again] \in ApiSet(Named)
              /\ [api EXCEPT !.pc = p, !.retried = again].gen <= gen
<1>1. api \in ApiSet(Named) /\ api.gen <= gen
  BY Sworn
<1> QED BY <1>1 DEF ApiSet

LEMMA AskTypes == ASSUME Types, Ask PROVE Types'
<1>1. UNCHANGED <<memory, jobs, revQ, keychain, issued, spent, deleted, ended, ghosts>>
  BY DEF Ask, server
<1>2. PICK all \in BOOLEAN : api' = [NoApi EXCEPT !.pc = "sent", !.gen = gen, !.user = store.user,
                              !.tok = store.access, !.all = all]
  BY DEF Ask
<1>3. store.user \in Users \cup {None} /\ store.access \in Named /\ NoApi \in ApiSet(Named)
  BY Sworn DEF StoreSet
<1>4. api' \in ApiSet(Named) /\ api'.gen = gen
  BY <1>2, <1>3, Sworn DEF ApiSet
<1>5. ended' \subseteq Held /\ api'.gen <= gen
  BY <1>1, <1>4, Sworn DEF Types, Serving
<1> QED BY <1>1, <1>4, <1>5, ApiFrame

LEMMA ApiServeTypes == ASSUME Types, ApiServe PROVE Types'
<1>1. UNCHANGED <<memory, jobs, revQ, keychain, issued, spent, deleted, ghosts>>
  BY DEF ApiServe
<1>2. PICK r \in {"ok", "rejected", "failed"} : api' = [api EXCEPT !.pc = "answered", !.reply = r]
  BY DEF ApiServe
<1>3. ended' \subseteq Held
  <2>1. ended \subseteq Held
    BY DEF Types, Serving
  <2>2. OwnedBy(api.user) \subseteq Held /\ \A t \in Held : Family(t) \in Held
    BY DEF Types, Serving, OwnedBy
  <2>3. EndAll(api.user) => ended' \subseteq Held
    BY <2>1, <2>2 DEF EndAll
  <2> QED BY <2>1, <2>3 DEF ApiServe
<1> QED BY <1>1, <1>2, <1>3, ApiChanges, ApiFrame

LEMMA DeliverTypes == ASSUME Types, Deliver PROVE Types'
<1>1. UNCHANGED <<persistent, volatile, booted, revQ, keychain, issued, spent, deleted, ended, ghosts, crashes,
                  faults>>
      /\ api' = [api EXCEPT !.pc = "delivered"]
  BY DEF Deliver, ApiOnly, server, ghosts
<1>2. api' \in ApiSet(Named) /\ api'.gen <= gen
  BY <1>1, ApiChanges
<1>3. CASE api.all
  BY <1>1, <1>2, <1>3, StartClearTypes, ServingStays DEF Deliver
<1>4. CASE ~api.all
  <2>1. UNCHANGED <<memory, jobs>> /\ ended' \subseteq Held
    BY <1>1, <1>4 DEF Deliver, memory, Types, Serving
  <2> QED BY <1>1, <1>2, <2>1, ApiFrame
<1> QED BY <1>3, <1>4

LEMMA RefreshFirstTypes == ASSUME Types, RefreshFirst PROVE Types'
<1>1. UNCHANGED <<revQ, keychain, server, ghosts>>
  BY DEF RefreshFirst
<1>2. CASE inFlight # None /\ api' = [api EXCEPT !.pc = "refreshing", !.reply = inFlight]
           /\ UNCHANGED <<memory, jobs>>
  <2>1. inFlight \in Jobs
    BY <1>2, Sworn
  <2>2. api' \in ApiSet(Named) /\ api'.gen <= gen
    BY <1>2, <2>1, ApiChanges
  <2>3. UNCHANGED <<issued, spent, deleted>> /\ ended' \subseteq Held
    BY <1>1 DEF Types, Serving, server
  <2> QED BY <1>1, <1>2, <2>2, <2>3, ApiFrame
<1>3. ASSUME NEW j \in Jobs, StartRefresh(j), api' = [api EXCEPT !.pc = "refreshing", !.reply = j],
             UNCHANGED <<gen, persistent, store, volatile, booted, credQ>>
      PROVE  Types'
  BY <1>1, <1>3, ApiChanges, StartRefreshTypes
<1> QED BY <1>2, <1>3 DEF RefreshFirst

LEMMA ApiStepTypes == ASSUME Types, ApiStep PROVE Types'
<1>1. ASSUME Refuse \/ Retry \/ ApiDone PROVE Types'
  <2>1. UNCHANGED <<memory, jobs, revQ, keychain, issued, spent, deleted, ended, ghosts>>
    BY <1>1 DEF Refuse, Retry, ApiDone, server
  <2>2. api' \in ApiSet(Named) /\ api'.gen <= gen
    <3>1. CASE api' = NoApi
      <4>1. NoApi.gen = 0
        BY DEF NoApi
      <4> QED BY <3>1, <4>1, Sworn
    <3>2. CASE api' = [api EXCEPT !.pc = "sent", !.retried = TRUE]
      BY <3>2, ApiChanges
    <3>3. CASE ApiFails
      BY <3>3, ApiChanges DEF ApiFails
    <3> QED BY <1>1, <3>1, <3>2, <3>3 DEF Refuse, Retry, ApiDone
  <2>3. ended' \subseteq Held
    BY <2>1 DEF Types, Serving
  <2> QED BY <2>1, <2>2, <2>3, ApiFrame
<1> QED BY <1>1, AskTypes, ApiServeTypes, DeliverTypes, RefreshFirstTypes DEF ApiStep

LEMMA GoOfflineTypes == ASSUME Types, GoOffline PROVE Types'
<1>1. UNCHANGED <<gen, persistent, inFlight, volatile, booted, jobs, revQ, api, disk, cached, pending, issued,
                  spent, deleted, ended, crashes, faults, forgotten, owed, left>>
  BY DEF GoOffline, keychain, server, ghosts
<1>2. store' \in StoreSet(Named)
  BY Here, Sworn DEF GoOffline, StoreSet, Status
<1>3. Memory(Named)'
  BY <1>1, <1>2, SameIssued DEF Types, Memory
<1>4. Jobbing(Named)'
  BY <1>1, SameIssued DEF Types, Jobbing, jobs, Turn
<1> QED BY <1>1, <1>3, <1>4, ChainStays, ServingStays DEF Types

LEMMA EndElsewhereTypes == ASSUME Types, EndElsewhere PROVE Types'
<1>1. ended' \subseteq Held
  BY DEF EndElsewhere, Types, Serving
<1> QED BY <1>1, Sworn, ApiFrame DEF EndElsewhere

LEMMA CrashTypes == ASSUME Types, Crash PROVE Types'
<1>1. Named' = Named /\ Held' = Held /\ 0 \in Named /\ gen' = 0 /\ gen' \in 0..MaxGen
  BY SameIssued, MobileSessionAssumption DEF Crash, server, Named
<1>2. NoJob \in JobSet(Named) /\ NoApi \in ApiSet(Named) /\ NoJob.gen = 0 /\ NoApi.gen = 0
      /\ Fits("idle", NoJob) /\ Bred(issued', NoJob)
  <2>1. NoApi.gen = 0 /\ NoJob.new = 0
    BY DEF NoApi, NoJob
  <2> QED BY <2>1, Sworn DEF Bred
<1>3. Memory(Named)'
  <2>1. store' \in StoreSet(Named)
    BY <1>1 DEF Crash, StoreSet, Status
  <2>2. api' \in ApiSet(Named) /\ api'.gen <= gen'
    BY <1>1, <1>2 DEF Crash
  <2>3. persistent' \in BOOLEAN /\ booted' \in BOOLEAN /\ inFlight' \in Jobs \cup {None}
    BY DEF Crash
  <2>4. volatile' \in Named /\ disk' \in Named /\ cached' \in Named
    BY <1>1, Sworn DEF Crash, keychain
  <2> QED BY <1>1, <2>1, <2>2, <2>3, <2>4 DEF Memory
<1>4. Jobbing(Named)'
  <2>1. pc' \in [Jobs -> Labels] /\ job' \in [Jobs -> JobSet(Named)] /\ credQ' \in Seq(Jobs)
    BY <1>2 DEF Crash, Labels
  <2>2. \A j \in Jobs : pc'[j] = "idle" /\ job'[j] = NoJob
    BY DEF Crash
  <2> QED BY <1>1, <1>2, <2>1, <2>2 DEF Jobbing, HoldsLock
<1>5. Chain(Held)'
  <2>1. ASSUME NEW i \in 1..Len(revQ) PROVE ToSet(revQ[i].list) \subseteq Held
    <3>1. revQ[i] \in TaskSet(Held)
      BY DEF Types, Chain
    <3> QED BY <3>1 DEF TaskSet, ToSet
  <2>2. forgotten' \subseteq Held
    BY <2>1 DEF Crash, Types, Chain
  <2> QED BY <1>1, <2>2 DEF Crash, Types, Chain, keychain
<1>6. Serving'
  <2>1. crashes' \in 0..MaxCrashes
    BY MobileSessionAssumption DEF Crash, Types, Serving
  <2> QED BY <2>1, SameIssued DEF Crash, Types, Serving, server
<1> QED BY <1>1, <1>3, <1>4, <1>5, <1>6 DEF Types

\* The step of the induction.
LEMMA NextTypes == Types /\ [Next]_vars => Types'
<1> SUFFICES ASSUME Types, [Next]_vars PROVE Types'
  OBVIOUS
<1>1. CASE UNCHANGED vars
  <2>1. UNCHANGED <<memory, jobs, revQ, api, keychain, server, ghosts, issued, spent, deleted, ended>>
    BY <1>1 DEF vars, server
  <2>2. ended' \subseteq Held /\ api' \in ApiSet(Named) /\ api'.gen <= gen
    BY <2>1, Sworn DEF Types, Serving
  <2> QED BY <2>1, <2>2, ApiFrame
<1> QED BY <1>1, StartTypes, StepTypes, RevokeStepTypes, ForegroundTypes, ApiStepTypes,
     GoOfflineTypes, EndElsewhereTypes, CrashTypes DEF Next

\* Every variable keeps its type: a token that is stored, shown or sent was issued.
THEOREM TypeCorrect == Spec => []TypeOK
<1>1. Spec => []Types
  BY InitTypes, NextTypes, PTL DEF Spec
<1> QED BY <1>1, TypesAreOK, PTL

-----------------------------------------------------------------------------
(* Revocations are not lost. *)

LEMMA InTaskSet ==
    ASSUME NEW H, NEW x \in TaskSet(H)
    PROVE  /\ x.list \in Seq(H) /\ x.by \in Jobs \cup {None} /\ x.st \in {"start", "sent", "gone", "kept"}
           /\ (x.by # None \/ x.st # "start" => x.list # <<>>) /\ ToSet(x.list) \subseteq H
  BY DEF TaskSet, ToSet

LEMMA OneToken ==
    ASSUME NEW H, NEW l \in Seq(H), Len(l) = 1
    PROVE  \A t : t \in ToSet(l) <=> t = Head(l)
  BY DEF ToSet

LEMMA NoToken == ASSUME NEW t, t \in ToSet(<<>>) PROVE FALSE
  BY DEF ToSet

LEMMA ChainGrows ==
    ASSUME NEW H, NEW q \in Seq(TaskSet(H)), Orderly(q), NEW x \in TaskSet(H), x.st = "start",
           x.by # None => Len(x.list) = 1, x.by = None => x.list = <<>>
    PROVE  /\ Orderly(Append(q, x)) /\ Append(q, x) # <<>>
           /\ \A t : InHand(q, t) \/ t \in ToSet(x.list) => InHand(Append(q, x), t)
           /\ Head(Append(q, x)) = IF q = <<>> THEN x ELSE Head(q)
<1>1. PICK a : a = Append(q, x)
  OBVIOUS
<1>2. /\ a \in Seq(TaskSet(H)) /\ a # <<>> /\ Len(a) = Len(q) + 1 /\ Len(q) \in Nat
      /\ \A i \in 1..Len(q) : a[i] = q[i]
      /\ a[Len(q) + 1] = x
  BY <1>1, AppendProperties
<1>3. Orderly(a)
  <2>1. ASSUME NEW i \in 1..Len(a)
        PROVE  /\ a[i].by # None => Len(a[i].list) = 1
               /\ a[i].by = None /\ a[i].st = "start" => a[i].list = <<>>
               /\ i # 1 => a[i].st = "start"
    <3>1. CASE i \in 1..Len(q)
      <4>1. a[i] = q[i]
        BY <1>2, <3>1
      <4> QED BY <3>1, <4>1 DEF Orderly
    <3>2. CASE i = Len(q) + 1
      BY <1>2, <3>2
    <3> QED BY <1>2, <3>1, <3>2
  <2> QED BY <2>1 DEF Orderly
<1>4. ASSUME NEW t, InHand(q, t) \/ t \in ToSet(x.list) PROVE InHand(a, t)
  <2>1. CASE t \in ToSet(x.list)
    <3>1. Len(q) + 1 \in 1..Len(a) /\ t \in ToSet(a[Len(q) + 1].list)
      BY <1>2, <2>1
    <3> QED BY <3>1 DEF InHand
  <2>2. CASE InHand(q, t)
    <3>1. PICK i \in 1..Len(q) : t \in ToSet(q[i].list)
      BY <2>2 DEF InHand
    <3>2. i \in 1..Len(a) /\ t \in ToSet(a[i].list)
      BY <1>2, <3>1
    <3> QED BY <3>2 DEF InHand
  <2> QED BY <1>4, <2>1, <2>2
<1>5. Head(a) = IF q = <<>> THEN x ELSE Head(q)
  <2>1. CASE q = <<>>
    BY <1>1, <2>1
  <2>2. CASE q # <<>>
    BY <1>1, <2>2
  <2> QED BY <2>1, <2>2
<1> QED BY <1>1, <1>2, <1>3, <1>4, <1>5

LEMMA ChainShrinks ==
    ASSUME NEW H, NEW q \in Seq(TaskSet(H)), Orderly(q), q # <<>>
    PROVE  /\ Orderly(Tail(q))
           /\ \A t : InHand(q, t) => t \in ToSet(Head(q).list) \/ InHand(Tail(q), t)
           /\ Tail(q) # <<>> => /\ Head(Tail(q)).st = "start"
                                /\ Head(Tail(q)).by = None => Head(Tail(q)).list = <<>>
<1>1. PICK a : a = Tail(q)
  OBVIOUS
<1>2. /\ a \in Seq(TaskSet(H)) /\ Len(a) = Len(q) - 1 /\ Len(q) \in Nat \ {0} /\ Head(q) = q[1]
      /\ \A i \in 1..Len(a) : a[i] = q[i + 1]
  BY <1>1, HeadTailProperties
<1>3. ASSUME NEW i \in 1..Len(a)
      PROVE  /\ a[i].by # None => Len(a[i].list) = 1
             /\ a[i].by = None => a[i].list = <<>>
             /\ a[i].st = "start"
  <2>1. i + 1 \in 1..Len(q) /\ i + 1 # 1 /\ a[i] = q[i + 1]
    BY <1>2
  <2> QED BY <2>1 DEF Orderly
<1>4. ASSUME NEW t, InHand(q, t) PROVE t \in ToSet(Head(q).list) \/ InHand(a, t)
  <2>1. PICK i \in 1..Len(q) : t \in ToSet(q[i].list)
    BY <1>4 DEF InHand
  <2>2. CASE i = 1
    BY <1>2, <2>1, <2>2
  <2>3. CASE i # 1
    <3>1. i - 1 \in 1..Len(a) /\ i - 1 + 1 = i
      BY <1>2, <2>3
    <3>2. a[i - 1] = q[i]
      BY <1>2, <3>1
    <3> QED BY <2>1, <3>1, <3>2 DEF InHand
  <2> QED BY <2>2, <2>3
<1>5. a # <<>> => Head(a) = a[1] /\ 1 \in 1..Len(a)
  BY <1>2
<1> QED BY <1>1, <1>3, <1>4, <1>5 DEF Orderly

LEMMA FirstChanges ==
    ASSUME NEW H, NEW q \in Seq(TaskSet(H)), Orderly(q), q # <<>>, NEW x \in TaskSet(H),
           x.st # "start", x.by # None => Len(x.list) = 1, NEW a, a = [q EXCEPT ![1] = x]
    PROVE  /\ Orderly(a) /\ a # <<>> /\ Head(a) = x
           /\ \A t : InHand(q, t) => t \in ToSet(Head(q).list) \/ InHand(a, t)
           /\ \A t : t \in ToSet(x.list) => InHand(a, t)
<1>1. /\ a \in Seq(TaskSet(H)) /\ Len(a) = Len(q) /\ Len(q) \in Nat \ {0} /\ 1 \in 1..Len(q) /\ Head(q) = q[1]
      /\ a[1] = x /\ \A i \in 1..Len(q) : i # 1 => a[i] = q[i]
  OBVIOUS
<1>2. a # <<>> /\ Head(a) = x
  BY <1>1
<1>3. Orderly(a)
  BY <1>1 DEF Orderly
<1>4. ASSUME NEW t, InHand(q, t) PROVE t \in ToSet(Head(q).list) \/ InHand(a, t)
  BY <1>1, <1>4 DEF InHand
<1>5. ASSUME NEW t \in ToSet(x.list) PROVE InHand(a, t)
  BY <1>1, <1>5 DEF InHand
<1> QED BY <1>2, <1>3, <1>4, <1>5

\* The server never takes back what it has ended.
Fading ==
    /\ Held \subseteq Held' /\ deleted \subseteq deleted' /\ ended \subseteq ended'
    /\ \A t \in Held : Family(t)' = Family(t) /\ Owner(t)' = Owner(t)

\* The server only ever takes worth away from a token.
LEMMA ServerFades == ASSUME Types, [Next]_vars PROVE Fading
<1>1. ASSUME UNCHANGED issued, deleted \subseteq deleted', ended \subseteq ended' PROVE Fading
  BY <1>1, SameIssued DEF Fading
<1>2. ASSUME NEW j \in Jobs, Serve(j) PROVE Fading
  <2>1. ASSUME NEW u \in Users, NEW f \in Tokens, Mint(u, f), UNCHANGED <<deleted, ended>> PROVE Fading
    BY <2>1, Minted DEF Fading, Family, Owner
  <2>2. CASE job[j].op = "login" /\ ServeLogin(j)
    <3>1. CASE Mint(job[j].user, Len(issued) + 1) /\ UNCHANGED <<deleted, ended>>
      <4>1. Len(issued) + 1 \in Tokens
        BY <3>1, MobileSessionAssumption DEF Mint, Tokens, Types, Serving
      <4>2. job[j].user \in Users
        BY <2>2, Here DEF Fits
      <4> QED BY <2>1, <3>1, <4>1, <4>2
    <3>2. CASE UNCHANGED server
      BY <1>1, <3>2 DEF server
    <3> QED BY <2>2, <3>1, <3>2 DEF ServeLogin
  <2>3. CASE ServeRefresh(j)
    <3>0. PICK t : t = job[j].tok
      OBVIOUS
    <3>1. CASE Good(t) /\ Mint(Owner(t), Family(t)) /\ UNCHANGED <<deleted, ended>>
      <4>1. t \in Held /\ Held \subseteq Tokens
        BY <3>1 DEF Good, Held
      <4>2. Family(t) \in Tokens /\ Owner(t) \in Users
        BY <4>1 DEF Types, Serving
      <4> QED BY <2>1, <3>1, <4>2
    <3>2. CASE deleted' = deleted \cup OwnedBy(Owner(t)) /\ UNCHANGED <<issued, ended>>
      BY <1>1, <3>2
    <3>3. CASE UNCHANGED server
      BY <1>1, <3>3 DEF server
    <3> QED BY <2>3, <3>0, <3>1, <3>2, <3>3 DEF ServeRefresh
  <2>4. CASE UNCHANGED server
    BY <1>1, <2>4 DEF server
  <2> QED BY <1>2, <2>2, <2>3, <2>4 DEF Serve
<1>3. ASSUME NEW j \in Jobs, Start(j) \/ Step(j) PROVE Fading
  <2>1. CASE Reset(j)
    BY <1>1, <2>1 DEF Reset, EndAll
  <2>2. CASE Hydrate(j) \/ Resume(j) \/ Login(j) \/ Logout(j)
    BY <1>1, <2>2 DEF Hydrate, Resume, Login, Logout, server
  <2>3. CASE ReadToken(j) \/ ReadTokenFails(j) \/ ReadCopy(j) \/ LoseAnswer(j) \/ Receive(j)
    BY <1>1, <2>3 DEF ReadToken, ReadTokenFails, ReadCopy, LoseAnswer, Receive, Quiet, server
  <2>4. CASE Accept(j) \/ Written(j) \/ Copied(j) \/ Reject(j) \/ Unwritten(j) \/ Unkept(j)
    BY <1>1, <2>4 DEF Accept, Written, Copied, Reject, Unwritten, Unkept, server
  <2>5. CASE Clear(j) \/ Wiped(j) \/ LeaveSession(j) \/ Join(j)
    BY <1>1, <2>5 DEF Clear, Wiped, LeaveSession, Join, server
  <2> QED BY <1>2, <1>3, <2>1, <2>2, <2>3, <2>4, <2>5 DEF Start, Step
<1>4. CASE RevokeStep
  BY <1>1, <1>4 DEF RevokeStep, RevokeStart, RevokeServed, RevokeUnsure, RevokeGone, RevokeKept,
     RevOnly, Revocation, server
<1>5. CASE ApiStep
  BY <1>1, <1>5 DEF ApiStep, Ask, ApiServe, Deliver, Refuse, RefreshFirst, Retry, ApiDone, EndAll, server
<1>6. CASE Foreground \/ GoOffline \/ EndElsewhere \/ Crash
  BY <1>1, <1>6 DEF Foreground, GoOffline, EndElsewhere, Crash, server
<1>7. CASE UNCHANGED vars
  BY <1>1, <1>7 DEF vars, server
<1> QED BY <1>3, <1>4, <1>5, <1>6, <1>7 DEF Next

\* A token that is worth nothing stays so.
LEMMA GoodFades ==
    ASSUME Types, Fading, NEW t \in Held, ~Good(t)
    PROVE  ~Good(t)'
  BY DEF Fading, Good

LEMMA ListedHeld ==
    ASSUME Types, revQ # <<>>
    PROVE  /\ ToSet(Head(revQ).list) \subseteq Held /\ Head(revQ) \in TaskSet(Held)
           /\ Head(revQ).st = "gone" => Head(Head(revQ).list) \in Held
  BY HeadTask, InTaskSet DEF Busy, First

LEMMA ChainQuiet ==
    ASSUME Types, Fading, Queued, UNCHANGED <<revQ, pending, owed>>, forgotten \subseteq forgotten'
    PROVE  Queued'
<1>1. Accounted(revQ)'
  <2>1. ASSUME NEW t \in owed
        PROVE  ~Good(t)' \/ t \in ToSet(pending) \/ t \in forgotten' \/ InHand(revQ, t)
    <3>1. t \in Held
      BY DEF Types, Chain
    <3> QED BY <3>1, GoodFades DEF Queued, Accounted
  <2> QED BY <2>1 DEF Accounted
<1>2. Listed(revQ)'
  <2>1. SUFFICES ASSUME revQ # <<>> PROVE Listed(revQ)'
    BY DEF Listed
  <2>2. \A t \in ToSet(Head(revQ).list) : ~Good(t) => ~Good(t)'
    BY <2>1, ListedHeld, GoodFades
  <2>3. Head(revQ).st = "gone" => ~Good(Head(Head(revQ).list))'
    <3>1. PICK t : t = Head(Head(revQ).list)
      OBVIOUS
    <3>2. Head(revQ).st = "gone" => t \in Held /\ ~Good(t)
      BY <2>1, <3>1, ListedHeld DEF Queued, Listed
    <3>3. Head(revQ).st = "gone" => ~Good(t)'
      BY <3>2, GoodFades
    <3> QED BY <3>1, <3>3 DEF Good, Family, Held
  <2> QED BY <2>2, <2>3 DEF Queued, Listed
<1> QED BY <1>1, <1>2 DEF Queued, Orderly

LEMMA ChainAppends ==
    ASSUME Types, Fading, Queued, NEW x \in TaskSet(Held), x.st = "start",
           x.by # None => Len(x.list) = 1, x.by = None => x.list = <<>>,
           revQ' = Append(revQ, x), UNCHANGED pending, forgotten \subseteq forgotten',
           \A t \in owed' : t \in owed \/ t \in ToSet(x.list)
    PROVE  Queued'
<1>1. PICK a : a = Append(revQ, x)
  OBVIOUS
<1>2. revQ \in Seq(TaskSet(Held)) /\ Orderly(revQ)
  BY DEF Types, Chain, Queued
<1>3. /\ Orderly(a) /\ a # <<>> /\ \A t : InHand(revQ, t) \/ t \in ToSet(x.list) => InHand(a, t)
      /\ Head(a) = IF revQ = <<>> THEN x ELSE Head(revQ)
  BY <1>1, <1>2, ChainGrows
<1>4. ASSUME NEW t \in owed'
      PROVE  ~Good(t)' \/ t \in ToSet(pending) \/ t \in forgotten' \/ InHand(a, t)
  <2>1. CASE t \in owed
    <3>1. t \in Held
      BY <2>1 DEF Types, Chain
    <3> QED BY <2>1, <3>1, <1>3, GoodFades DEF Queued, Accounted
  <2>2. CASE t \in ToSet(x.list)
    BY <1>3, <2>2
  <2> QED BY <2>1, <2>2
<1>5. /\ Head(a).by = None => \A t \in ToSet(Head(a).list) : t \in ToSet(pending) \/ ~Good(t)'
      /\ Head(a).st = "gone" => ~Good(Head(Head(a).list))'
  <2>1. CASE revQ = <<>>
    BY <1>3, <2>1, NoToken
  <2>2. CASE revQ # <<>>
    <3>0. PICK y \in TaskSet(Held) : y = Head(revQ) /\ y = Head(a) /\ ToSet(y.list) \subseteq Held
          /\ (y.st = "gone" => Head(y.list) \in Held)
      BY <1>3, <2>2, ListedHeld
    <3>1. \A t \in ToSet(y.list) : ~Good(t) => ~Good(t)'
      BY <3>0, GoodFades
    <3>2. y.st = "gone" => ~Good(Head(y.list))'
      <4>1. PICK t : t = Head(y.list)
        OBVIOUS
      <4>2. y.st = "gone" => t \in Held /\ ~Good(t)
        BY <2>2, <3>0, <4>1 DEF Queued, Listed
      <4>3. y.st = "gone" => ~Good(t)'
        BY <4>2, GoodFades
      <4> QED BY <4>1, <4>3 DEF Good, Family, Held
    <3>3. y.by = None => \A t \in ToSet(y.list) : t \in ToSet(pending) \/ ~Good(t)
      BY <2>2, <3>0 DEF Queued, Listed
    <3>4. y.by = None => \A t \in ToSet(y.list) : t \in ToSet(pending) \/ ~Good(t)'
      BY <3>1, <3>3
    <3>5. Head(a).st = "gone" => ~Good(Head(Head(a).list))'
      BY <3>0, <3>2 DEF Good, Family, Held
    <3> QED BY <3>0, <3>4, <3>5
  <2> QED BY <2>1, <2>2
<1>6. Listed(revQ)'
  BY <1>1, <1>5 DEF Listed, Good, Family, Held
<1>7. Accounted(revQ)'
  BY <1>1, <1>4 DEF Accounted
<1>8. Orderly(revQ)'
  BY <1>1, <1>3 DEF Orderly
<1> QED BY <1>6, <1>7, <1>8 DEF Queued

LEMMA ChainFlushes ==
    ASSUME Types, Fading, Queued, revQ' = Flush(revQ), UNCHANGED <<pending, owed>>,
           forgotten \subseteq forgotten'
    PROVE  Queued'
<1>1. CASE UNCHANGED revQ
  BY <1>1, ChainQuiet
<1>2. CASE revQ' = Append(revQ, Task(None, <<>>))
  <2>1. PICK x : x = Task(None, <<>>)
    OBVIOUS
  <2>2. x \in TaskSet(Held) /\ x.st = "start" /\ x.by = None /\ x.list = <<>>
    BY <2>1 DEF Task, TaskSet
  <2> QED BY <1>2, <2>1, <2>2, ChainAppends
<1> QED BY <1>1, <1>2 DEF Flush

LEMMA ChainRevokes ==
    ASSUME Types, Fading, Queued, NEW j \in Jobs, NEW t \in Held, Revoke(j, t), UNCHANGED pending,
           forgotten \subseteq forgotten'
    PROVE  Queued'
<1>1. PICK x : x = Task(j, <<t>>)
  OBVIOUS
<1>2. x \in TaskSet(Held) /\ x.st = "start" /\ x.by = j /\ x.by # None /\ x.list = <<t>>
  BY <1>1, MobileSessionAssumption DEF Task, TaskSet
<1>3. Len(x.list) = 1 /\ t \in ToSet(x.list)
  BY <1>2 DEF ToSet
<1> QED BY <1>1, <1>2, <1>3, ChainAppends DEF Revoke

\* A step of the first task: it stays, with the tokens it still has to deliver.
LEMMA ChainFirst ==
    ASSUME Types, Fading, Queued, Busy, NEW x \in TaskSet(Held), revQ' = [revQ EXCEPT ![1] = x],
           x.st # "start", x.by = First.by, x.by # None => Len(x.list) = 1, UNCHANGED owed,
           \A t \in ToSet(First.list) : t \in ToSet(x.list) \/ ~Good(t)',
           \A t \in Held : t \in ToSet(pending) \/ t \in forgotten
                             => t \in ToSet(pending') \/ t \in forgotten' \/ ~Good(t)',
           x.by = None => \A t \in ToSet(x.list) : t \in ToSet(pending') \/ ~Good(t)',
           x.st = "gone" => ~Good(Head(x.list))'
    PROVE  Queued'
<1>1. PICK a : a = [revQ EXCEPT ![1] = x]
  OBVIOUS
<1>2. revQ \in Seq(TaskSet(Held)) /\ Orderly(revQ) /\ revQ # <<>>
  BY DEF Types, Chain, Queued, Busy
<1>3. /\ Orderly(a) /\ a # <<>> /\ Head(a) = x
      /\ \A t : InHand(revQ, t) => t \in ToSet(Head(revQ).list) \/ InHand(a, t)
      /\ \A t : t \in ToSet(x.list) => InHand(a, t)
  BY <1>1, <1>2, FirstChanges
<1>4. ASSUME NEW t \in owed
      PROVE  ~Good(t)' \/ t \in ToSet(pending') \/ t \in forgotten' \/ InHand(a, t)
  <2>1. t \in Held
    BY DEF Types, Chain
  <2>2. ~Good(t) \/ t \in ToSet(pending) \/ t \in forgotten \/ InHand(revQ, t)
    BY DEF Queued, Accounted
  <2> QED BY <1>3, <2>1, <2>2, GoodFades DEF First
<1>5. Listed(revQ)'
  <2>1. Head(revQ') = x /\ revQ' # <<>>
    BY <1>1, <1>3
  <2>2. x.st = "gone" => ~Good(Head(Head(revQ).list))'
    BY <2>1 DEF Good, Family, Held
  <2> QED BY <2>1, <2>2 DEF Listed
<1>6. Accounted(revQ)' /\ Orderly(revQ)'
  BY <1>1, <1>3, <1>4 DEF Accounted, Orderly
<1> QED BY <1>5, <1>6 DEF Queued

\* The first task is over, and what it had is delivered, on the list or noted.
LEMMA ChainOver ==
    ASSUME Types, Fading, Queued, Busy, revQ' = Tail(revQ), UNCHANGED owed,
           \A t \in Held : t \in ToSet(pending) \/ t \in forgotten \/ t \in ToSet(First.list)
                             => t \in ToSet(pending') \/ t \in forgotten' \/ ~Good(t)'
    PROVE  Queued'
<1>1. PICK a : a = Tail(revQ)
  OBVIOUS
<1>2. revQ \in Seq(TaskSet(Held)) /\ Orderly(revQ) /\ revQ # <<>>
  BY DEF Types, Chain, Queued, Busy
<1>3. /\ Orderly(a) /\ \A t : InHand(revQ, t) => t \in ToSet(Head(revQ).list) \/ InHand(a, t)
      /\ a # <<>> => Head(a).st = "start" /\ (Head(a).by = None => Head(a).list = <<>>)
  BY <1>1, <1>2, ChainShrinks
<1>4. ASSUME NEW t \in owed
      PROVE  ~Good(t)' \/ t \in ToSet(pending') \/ t \in forgotten' \/ InHand(a, t)
  <2>1. t \in Held
    BY DEF Types, Chain
  <2>2. ~Good(t) \/ t \in ToSet(pending) \/ t \in forgotten \/ InHand(revQ, t)
    BY DEF Queued, Accounted
  <2> QED BY <1>3, <2>1, <2>2, GoodFades DEF First
<1>5. Listed(revQ)'
  BY <1>1, <1>3, NoToken DEF Listed
<1>6. Accounted(revQ)' /\ Orderly(revQ)'
  BY <1>1, <1>3, <1>4 DEF Accounted, Orderly
<1> QED BY <1>5, <1>6 DEF Queued

\* The first task, where nothing is delivered or dropped.
LEMMA ChainNow ==
    ASSUME Types, Fading, Queued, Busy, First.st # "start", NEW st \in {"sent", "gone", "kept"}, Now(st),
           UNCHANGED <<owed, pending>>, forgotten \subseteq forgotten',
           NEW h, h = Head(First.list), st = "gone" => ~Good(h)'
    PROVE  Queued'
<1>1. PICK x : x = [First EXCEPT !.st = st]
  OBVIOUS
<1>2. x \in TaskSet(Held) /\ x.st = st /\ x.by = First.by /\ x.list = First.list
  BY <1>1, HeadTask DEF TaskSet
<1>3. revQ' = [revQ EXCEPT ![1] = x]
  BY <1>1, HeadTask DEF Now
<1>4. x.by # None => Len(x.list) = 1
  BY <1>2, HeadTask DEF Queued, Orderly
<1>5. ASSUME x.by = None, NEW t \in ToSet(x.list) PROVE t \in ToSet(pending') \/ ~Good(t)'
  <2>1. t \in Held
    BY <1>2, <1>5, HeadTask, InTaskSet
  <2>2. t \in ToSet(pending) \/ ~Good(t)
    BY <1>2, <1>5 DEF Queued, Listed, First, Busy
  <2> QED BY <2>1, <2>2, GoodFades
<1>6. x.st = "gone" => ~Good(Head(x.list))'
  <2>1. h = Head(x.list)
    BY <1>2
  <2>2. x.st = "gone" => ~Good(h)'
    BY <1>2
  <2> QED BY <2>1, <2>2 DEF Good, Family, Held
<1> QED BY <1>2, <1>3, <1>4, <1>5, <1>6, ChainFirst

LEMMA RevokeStepQueued == ASSUME Types, Fading, Queued, RevokeStep PROVE Queued'
<1>0. Busy
  BY DEF RevokeStep, RevokeStart, RevokeServed, RevokeUnsure, RevokeGone, RevokeKept
<1>1. \A t \in ToSet(First.list) : t \in Held
  BY <1>0, HeadTask DEF ToSet
<1>2. IsFlush => \A t \in ToSet(First.list) : t \in ToSet(pending) \/ ~Good(t)
  BY <1>0 DEF Queued, Listed, First, Busy, IsFlush
<1>3. /\ ~IsFlush => Len(First.list) = 1
      /\ IsFlush /\ First.st = "start" => First.list = <<>>
  BY <1>0, HeadTask DEF Queued, Orderly, IsFlush
<1>4. CASE RevokeStart
  <2>1. First.st = "start" /\ UNCHANGED <<owed, pending, forgotten>>
    BY <1>4 DEF RevokeStart, ghosts, keychain
  <2>2. CASE IsFlush /\ pending = <<>>
    <3>1. revQ' = Tail(revQ) /\ First.list = <<>>
      BY <1>3, <1>4, <2>1, <2>2 DEF RevokeStart
    <3>2. \A t \in Held : t \in ToSet(pending) \/ t \in forgotten \/ t \in ToSet(First.list)
                            => t \in ToSet(pending') \/ t \in forgotten' \/ ~Good(t)'
      BY <2>1, <3>1, NoToken
    <3> QED BY <1>0, <2>1, <3>1, <3>2, ChainOver
  <2>3. CASE ~(IsFlush /\ pending = <<>>)
    <3>1. PICK x : x = IF IsFlush THEN [First EXCEPT !.st = "sent", !.list = pending]
                       ELSE [First EXCEPT !.st = "sent"]
      OBVIOUS
    <3>2. x \in TaskSet(Held) /\ x.st = "sent" /\ x.by = First.by /\ (IsFlush => x.list = pending)
          /\ (~IsFlush => x.list = First.list)
      <4>1. CASE IsFlush
        <5>1. x = [First EXCEPT !.st = "sent", !.list = pending] /\ pending # <<>>
          BY <2>3, <3>1, <4>1
        <5> QED BY <1>0, <4>1, <5>1, HeadTask DEF TaskSet
      <4>2. CASE ~IsFlush
        <5>1. x = [First EXCEPT !.st = "sent"] /\ First.by # None
          BY <3>1, <4>2 DEF IsFlush
        <5> QED BY <1>0, <4>2, <5>1, HeadTask DEF TaskSet
      <4> QED BY <4>1, <4>2
    <3>3. revQ' = [revQ EXCEPT ![1] = x]
      <4>1. CASE IsFlush
        BY <1>0, <1>4, <2>3, <3>1, <4>1, HeadTask DEF RevokeStart
      <4>2. CASE ~IsFlush
        BY <1>0, <1>4, <3>1, <4>2, HeadTask DEF RevokeStart
      <4> QED BY <4>1, <4>2
    <3>4. \A t \in ToSet(First.list) : t \in ToSet(x.list) \/ ~Good(t)'
      BY <1>3, <2>1, <3>2, NoToken
    <3>5. x.by # None => Len(x.list) = 1
      BY <1>3, <3>2 DEF IsFlush
    <3>6. x.by = None => \A t \in ToSet(x.list) : t \in ToSet(pending') \/ ~Good(t)'
      BY <2>1, <3>2 DEF IsFlush
    <3> QED BY <1>0, <2>1, <3>2, <3>3, <3>4, <3>5, <3>6, ChainFirst
  <2> QED BY <2>2, <2>3
<1>5. CASE RevokeServed \/ RevokeUnsure
  <2>1. First.st = "sent" /\ UNCHANGED <<owed, pending, forgotten, deleted, issued>>
    BY <1>5 DEF RevokeServed, RevokeUnsure, RevOnly
  <2>2. PICK h \in Held : h = Head(First.list)
    BY <1>0, <2>1, HeadTask
  <2>3. Revocation => ~Good(h)'
    <3>1. CASE h \in deleted
      BY <2>1, <3>1 DEF Good
    <3>2. CASE h \notin deleted
      BY <2>1, <2>2, <3>2 DEF Good, Revocation, Family
    <3> QED BY <3>1, <3>2
  <2>4. CASE RevokeServed
    BY <1>0, <2>1, <2>2, <2>3, <2>4, ChainNow DEF RevokeServed
  <2>5. CASE RevokeUnsure
    BY <1>0, <2>1, <2>2, <2>5, ChainNow DEF RevokeUnsure
  <2> QED BY <1>5, <2>4, <2>5
<1>6. CASE RevokeGone
  <2>1. First.st = "gone" /\ UNCHANGED <<owed, forgotten>>
    BY <1>6 DEF RevokeGone, RevOnly
  <2>2. PICK h \in Held : h = Head(First.list) /\ ~Good(h)
    BY <1>0, <2>1, HeadTask DEF Queued, Listed, First, Busy
  <2>3. ~Good(h)'
    BY <2>2, GoodFades
  <2>4. CASE Unqueue(Head(First.list)) /\ NextToken
    <3>1. \A t : t \in ToSet(pending) => t = h \/ t \in ToSet(pending')
      BY <1>0, <2>2, <2>4, HeadTask, Unqueueing
    <3>2. PICK l \in Seq(Held) : l = First.list /\ l # <<>>
      BY <1>0, <2>1, HeadTask
    <3>3. CASE Len(l) > 1
      <4>1. PICK x : x = [First EXCEPT !.list = Tail(l), !.st = "sent"]
        OBVIOUS
      <4>2. Tail(l) \in Seq(Held) /\ Len(Tail(l)) = Len(l) - 1 /\ Len(l) \in Nat
            /\ \A i \in 1..Len(Tail(l)) : Tail(l)[i] = l[i + 1]
        BY <3>2, HeadTailProperties
      <4>3. Tail(l) # <<>>
        <5>1. Len(Tail(l)) # 0
          BY <3>3, <4>2
        <5> QED BY <5>1, EmptySeq
      <4>4. x \in TaskSet(Held) /\ x.st = "sent" /\ x.by = First.by /\ x.list = Tail(l)
        BY <1>0, <4>1, <4>2, <4>3, HeadTask DEF TaskSet
      <4>5. revQ' = [revQ EXCEPT ![1] = x]
        BY <1>0, <2>4, <3>2, <3>3, <4>1, HeadTask DEF NextToken
      <4>6. IsFlush
        <5>1. PICK n \in Nat \ {0} : n = Len(l)
          BY <3>2, EmptySeq
        <5>2. n # 1
          BY <3>3, <5>1
        <5>3. Len(First.list) # 1
          BY <3>2, <5>1, <5>2
        <5> QED BY <1>3, <5>3
      <4>7. \A t \in ToSet(l) : t = h \/ t \in ToSet(Tail(l))
        <5>1. PICK n \in Nat : n = Len(l) /\ DOMAIN l = 1..n /\ l[1] = h /\ DOMAIN Tail(l) = 1..(n - 1)
          BY <2>2, <3>2, <4>2
        <5>2. ASSUME NEW i \in 1..n, i # 1 PROVE l[i] \in ToSet(Tail(l))
          <6>1. i - 1 \in 1..(n - 1) /\ i - 1 + 1 = i
            BY <5>2
          <6>2. Tail(l)[i - 1] = l[i]
            BY <4>2, <5>1, <6>1
          <6> QED BY <5>1, <6>1, <6>2 DEF ToSet
        <5> QED BY <5>1, <5>2 DEF ToSet
      <4>8. \A t \in ToSet(Tail(l)) : t \in ToSet(l)
        <5>1. ASSUME NEW i \in DOMAIN Tail(l) PROVE Tail(l)[i] \in ToSet(l)
          <6>1. i \in 1..Len(Tail(l)) /\ i + 1 \in 1..Len(l) /\ DOMAIN l = 1..Len(l)
            BY <4>2
          <6> QED BY <4>2, <6>1 DEF ToSet
        <5> QED BY <5>1 DEF ToSet
      <4>9. \A t \in ToSet(First.list) : t \in ToSet(x.list) \/ ~Good(t)'
        BY <2>3, <3>2, <4>4, <4>7
      <4>10. ASSUME NEW t \in ToSet(x.list) PROVE t \in ToSet(pending') \/ ~Good(t)'
        <5>1. t \in ToSet(First.list) /\ t \in Held
          BY <1>1, <3>2, <4>4, <4>8
        <5> QED BY <1>2, <2>3, <3>1, <4>6, <5>1, GoodFades
      <4>11. x.by = None /\ x.st # "start" /\ x.st # "gone"
        BY <4>4, <4>6 DEF IsFlush
      <4>12. \A t \in Held : t \in ToSet(pending) \/ t \in forgotten
                              => t \in ToSet(pending') \/ t \in forgotten' \/ ~Good(t)'
        BY <2>1, <2>3, <3>1
      <4> QED BY <1>0, <2>1, <4>4, <4>5, <4>9, <4>10, <4>11, <4>12, ChainFirst
    <3>4. CASE ~(Len(l) > 1)
      <4>1. revQ' = Tail(revQ)
        BY <2>4, <3>2, <3>4 DEF NextToken
      <4>2. Len(l) = 1
        <5>1. PICK n \in Nat \ {0} : n = Len(l)
          BY <3>2, EmptySeq
        <5> QED BY <3>4, <5>1
      <4>3. \A t : t \in ToSet(First.list) => t = h
        BY <2>2, <3>2, <4>2, OneToken
      <4>4. \A t \in Held : t \in ToSet(pending) \/ t \in forgotten \/ t \in ToSet(First.list)
                              => t \in ToSet(pending') \/ t \in forgotten' \/ ~Good(t)'
        BY <2>1, <2>3, <3>1, <4>3
      <4> QED BY <1>0, <2>1, <4>1, <4>4, ChainOver
    <3> QED BY <3>3, <3>4
  <2>5. CASE Now("kept") /\ UNCHANGED pending
    BY <1>0, <2>1, <2>2, <2>5, ChainNow
  <2> QED BY <1>6, <2>4, <2>5 DEF RevokeGone
<1>7. CASE RevokeKept
  <2>1. First.st = "kept" /\ UNCHANGED owed /\ revQ' = Tail(revQ)
    BY <1>7 DEF RevokeKept, RevOnly, Over
  <2>2. PICK l \in Seq(Held) : l = First.list
    BY <1>0, HeadTask
  <2>3. CASE IsFlush /\ UNCHANGED <<pending, forgotten>>
    <3>1. \A t \in Held : t \in ToSet(pending) \/ t \in forgotten \/ t \in ToSet(First.list)
                            => t \in ToSet(pending') \/ t \in forgotten' \/ ~Good(t)'
      BY <1>2, <2>3, GoodFades
    <3> QED BY <1>0, <2>1, <3>1, ChainOver
  <2>4. CASE ~IsFlush /\ Queue(Head(First.list))
    <3>1. \A t : t \in ToSet(First.list) => t = Head(First.list)
      BY <1>3, <2>2, <2>4, OneToken
    <3>2. pending \in Seq(Held) /\ forgotten \subseteq Held /\ Head(First.list) \in Held
      BY <1>0, <2>1, HeadTask DEF Types, Chain
    <3>3. forgotten \subseteq forgotten' /\ \A t : t \in ToSet(pending) \/ t = Head(First.list)
          => t \in ToSet(pending') \/ t \in forgotten'
      BY <2>4, <3>2, Queueing
    <3>4. \A t \in Held : t \in ToSet(pending) \/ t \in forgotten \/ t \in ToSet(First.list)
                            => t \in ToSet(pending') \/ t \in forgotten' \/ ~Good(t)'
      BY <3>1, <3>3
    <3> QED BY <1>0, <2>1, <3>4, ChainOver
  <2>5. CASE ~IsFlush /\ UNCHANGED pending /\ forgotten' = forgotten \cup {Head(First.list)}
    <3>1. \A t : t \in ToSet(First.list) => t = Head(First.list)
      BY <1>3, <2>2, <2>5, OneToken
    <3>2. \A t \in Held : t \in ToSet(pending) \/ t \in forgotten \/ t \in ToSet(First.list)
                            => t \in ToSet(pending') \/ t \in forgotten' \/ ~Good(t)'
      BY <2>5, <3>1
    <3> QED BY <1>0, <2>1, <3>2, ChainOver
  <2> QED BY <1>7, <2>3, <2>4, <2>5 DEF RevokeKept
<1> QED BY <1>4, <1>5, <1>6, <1>7 DEF RevokeStep

LEMMA StartQueued == ASSUME Types, Fading, Queued, NEW j \in Jobs, Start(j) PROVE Queued'
<1>1. CASE Hydrate(j)
  <2>1. UNCHANGED <<pending, owed, forgotten>> /\ (UNCHANGED revQ \/ revQ' = Flush(revQ))
    BY <1>1 DEF Hydrate, keychain, ghosts
  <2>2. CASE UNCHANGED revQ
    BY <2>1, <2>2, ChainQuiet
  <2>3. CASE revQ' = Flush(revQ)
    BY <2>1, <2>3, ChainFlushes
  <2> QED BY <2>1, <2>2, <2>3
<1>2. CASE Resume(j) \/ Login(j) \/ Logout(j) \/ Reset(j)
  <2>1. UNCHANGED <<revQ, pending, owed, forgotten>>
    BY <1>2 DEF Resume, Login, Logout, Reset, keychain, ghosts
  <2> QED BY <2>1, ChainQuiet
<1> QED BY <1>1, <1>2 DEF Start

LEMMA StepQueued == ASSUME Types, Fading, Queued, NEW j \in Jobs, Step(j) PROVE Queued'
<1>1. ASSUME UNCHANGED <<revQ, pending, owed, forgotten>> PROVE Queued'
  BY <1>1, ChainQuiet
<1>2. ASSUME NEW t \in Held, Revoke(j, t), UNCHANGED <<pending, forgotten>> PROVE Queued'
  BY <1>2, ChainRevokes
<1>3. CASE ReadToken(j) \/ ReadTokenFails(j) \/ ReadCopy(j) \/ Serve(j) \/ LoseAnswer(j) \/ Receive(j)
  BY <1>1, <1>3 DEF ReadToken, ReadTokenFails, ReadCopy, Serve, LoseAnswer, Receive, Quiet, keychain, ghosts
<1>4. CASE Reject(j) \/ Unwritten(j) \/ Unkept(j) \/ Clear(j) \/ Wiped(j) \/ Join(j)
  BY <1>1, <1>4 DEF Reject, Unwritten, Unkept, Clear, Wiped, Join, keychain, ghosts
<1>5. CASE Accept(j)
  <2>1. job[j].new \in Held /\ UNCHANGED <<pending, forgotten>>
    BY <1>5, Paired DEF Accept
  <2>2. UNCHANGED <<revQ, owed>> \/ Revoke(j, job[j].new)
    BY <1>5 DEF Accept
  <2> QED BY <1>1, <1>2, <2>1, <2>2
<1>6. CASE Written(j)
  <2>1. job[j].new \in Held /\ UNCHANGED <<pending, forgotten>>
    BY <1>6, Paired DEF Written
  <2>2. UNCHANGED <<revQ, owed>> \/ Revoke(j, job[j].new)
    BY <1>6 DEF Written, TakeBack
  <2> QED BY <1>1, <1>2, <2>1, <2>2
<1>7. CASE Copied(j)
  <2>1. job[j].new \in Held /\ UNCHANGED <<pending, forgotten>>
    BY <1>7, Paired DEF Copied
  <2>2. \/ UNCHANGED <<revQ, owed>>
        \/ UNCHANGED owed /\ revQ' = Flush(revQ)
        \/ Revoke(j, job[j].new)
    BY <1>7 DEF Copied, TakeBack
  <2> QED BY <1>1, <1>2, <2>1, <2>2, ChainFlushes
<1>8. CASE LeaveSession(j)
  <2>1. UNCHANGED <<pending, forgotten>>
    BY <1>8 DEF LeaveSession, keychain
  <2>2. PICK t \in {CurrentToken, 0} : IF t # 0 THEN Revoke(j, t) ELSE UNCHANGED <<revQ, owed>>
    BY <1>8 DEF LeaveSession
  <2>3. t \in Named
    BY <2>2, Sworn
  <2>4. CASE t = 0
    BY <1>1, <2>1, <2>2, <2>4
  <2>5. CASE t # 0
    <3>1. t \in Held
      BY <2>3, <2>5 DEF Named
    <3> QED BY <1>2, <2>1, <2>2, <2>5, <3>1
  <2> QED BY <2>4, <2>5
<1> QED BY <1>3, <1>4, <1>5, <1>6, <1>7, <1>8 DEF Step

\* A kill: what a call of its own was to revoke is noted as forgotten, and a
\* flush worked through tokens that are still on the list or already revoked.
LEMMA CrashQueued == ASSUME Types, Fading, Queued, Crash PROVE Queued'
<1>1. revQ' = <<>> /\ UNCHANGED <<pending, owed>>
  BY DEF Crash, keychain
<1>2. forgotten' = forgotten \cup UNION {ToSet(revQ[i].list) : i \in {k \in 1..Len(revQ) : revQ[k].by # None}}
  BY DEF Crash
<1>3. ASSUME NEW t \in owed PROVE ~Good(t)' \/ t \in ToSet(pending) \/ t \in forgotten'
  <2>1. t \in Held /\ (~Good(t) => ~Good(t)')
    BY GoodFades DEF Types, Chain
  <2>2. CASE ~Good(t) \/ t \in ToSet(pending) \/ t \in forgotten
    BY <1>2, <2>1, <2>2
  <2>3. CASE InHand(revQ, t)
    <3>1. PICK i \in 1..Len(revQ) : t \in ToSet(revQ[i].list)
      BY <2>3 DEF InHand
    <3>2. CASE revQ[i].by # None
      BY <1>2, <3>1, <3>2
    <3>3. CASE revQ[i].by = None
      <4>1. revQ[i].list # <<>>
        BY <3>1, NoToken
      <4>2. revQ[i].st # "start"
        BY <3>3, <4>1 DEF Queued, Orderly
      <4>3. i = 1 /\ revQ # <<>> /\ Head(revQ) = revQ[1]
        BY <4>2 DEF Queued, Orderly, Types, Chain
      <4>4. Head(revQ).by = None /\ t \in ToSet(Head(revQ).list)
        BY <3>1, <3>3, <4>3
      <4> QED BY <2>1, <4>3, <4>4 DEF Queued, Listed
    <3> QED BY <3>2, <3>3
  <2> QED BY <2>2, <2>3 DEF Queued, Accounted
<1> QED BY <1>1, <1>3 DEF Queued, Orderly, Listed, Accounted

LEMMA InitQueued == Init => Queued
  BY DEF Init, Queued, Orderly, Listed, Accounted

\* The step of the induction.
LEMMA NextQueued == Types /\ Queued /\ [Next]_vars => Queued'
<1> SUFFICES ASSUME Types, Queued, [Next]_vars PROVE Queued'
  OBVIOUS
<1>0. Fading
  BY ServerFades
<1>1. ASSUME UNCHANGED <<revQ, pending, owed, forgotten>> PROVE Queued'
  BY <1>0, <1>1, ChainQuiet
<1>2. CASE RevokeStep
  BY <1>0, <1>2, RevokeStepQueued
<1>3. CASE Foreground
  <2>1. revQ' = Flush(revQ) /\ UNCHANGED <<pending, owed, forgotten>>
    BY <1>3 DEF Foreground, keychain, ghosts
  <2> QED BY <1>0, <2>1, ChainFlushes
<1>4. CASE ApiStep
  BY <1>1, <1>4 DEF ApiStep, Ask, ApiServe, Deliver, Refuse, RefreshFirst, Retry, ApiDone, ApiOnly, keychain,
     ghosts
<1>5. CASE GoOffline \/ EndElsewhere \/ UNCHANGED vars
  BY <1>1, <1>5 DEF GoOffline, EndElsewhere, vars, keychain, ghosts
<1>6. CASE Crash
  BY <1>0, <1>6, CrashQueued
<1> QED BY <1>0, <1>2, <1>3, <1>4, <1>5, <1>6, StartQueued, StepQueued DEF Next

\* A token that is to be revoked is never dropped without a trace: it is worth
\* nothing any more, on the list, in the hands of the chain, or counted as
\* forgotten, in every state of every run.
THEOREM RevocationsAreKept == Spec => []RevocationNotLost
<1>1. Queued => RevocationNotLost
  BY DEF Queued, Accounted, InHand, RevocationNotLost
<1>2. Init => Types /\ Queued
  BY InitTypes, InitQueued
<1>3. Types /\ Queued /\ [Next]_vars => Types' /\ Queued'
  BY NextTypes, NextQueued
<1> QED BY <1>1, <1>2, <1>3, PTL DEF Spec

-----------------------------------------------------------------------------
(* Whose turn it is. *)

Clearing == {"clear", "wiped"}

\* Only job j changes.
Elsewhere(j) == \A k \in Jobs \ {j} : pc'[k] = pc[k] /\ job'[k] = job[k]

\* Call j goes to step p, with what it has or with b.
LEMMA Goes ==
    ASSUME Types, NEW j \in Jobs, NEW p, Goto(j, p), UNCHANGED job
    PROVE  pc'[j] = p /\ job'[j] = job[j] /\ Elsewhere(j)
  BY DEF Types, Jobbing, Goto, Elsewhere

LEMMA GoesWith ==
    ASSUME Types, NEW j \in Jobs, NEW p, Goto(j, p), NEW b, job' = [job EXCEPT ![j] = b]
    PROVE  pc'[j] = p /\ job'[j] = b /\ Elsewhere(j)
  BY DEF Types, Jobbing, Goto, Elsewhere

\* An idle place has no job.
LEMMA Idle == ASSUME Types, NEW j \in Jobs PROVE pc[j] = "idle" <=> job[j].op = "none"
  BY Here DEF Fits

\* A call that begins, with nothing of its own yet.
Bare(b, o, g) == b.op = o /\ b.gen = g /\ b.tok = 0 /\ b.copy = 0 /\ b.new = 0
Anew(j, o, p, g) ==
    /\ pc[j] = "idle" /\ pc'[j] = p /\ Elsewhere(j)
    /\ Bare(job'[j], o, g)

LEMMA Blanks ==
    ASSUME NEW o, NEW g
    PROVE  /\ Bare([NoJob EXCEPT !.op = o, !.gen = g], o, g)
           /\ \A u, keep : Bare([NoJob EXCEPT !.op = o, !.gen = g, !.user = u, !.remember = keep], o, g)
<1>1. PICK c : c = [NoJob EXCEPT !.op = o, !.gen = g]
  OBVIOUS
<1>2. Bare(c, o, g)
  BY <1>1 DEF Bare, NoJob
<1>3. ASSUME NEW u, NEW keep PROVE Bare([NoJob EXCEPT !.op = o, !.gen = g, !.user = u, !.remember = keep], o, g)
  <2>1. PICK b : b = [NoJob EXCEPT !.op = o, !.gen = g, !.user = u, !.remember = keep]
    OBVIOUS
  <2>2. Bare(b, o, g)
    BY <2>1 DEF Bare, NoJob
  <2> QED BY <2>1, <2>2
<1> QED BY <1>1, <1>2, <1>3

\* How each call begins.
LEMMA Beginnings ==
    ASSUME Types, NEW j \in Jobs
    PROVE  /\ Hydrate(j) => Anew(j, "hydrate", "read", gen + 1)
           /\ StartRefresh(j) => Anew(j, "refresh", "read", gen)
           /\ Login(j) => Anew(j, "login", "clear", gen + 1)
           /\ Logout(j) => Anew(j, "logout", "read", gen)
           /\ StartClear(j) => Anew(j, "clear", "clear", gen + 1)
<1>1. ASSUME NEW o, NEW p, NEW g, NEW b, Bare(b, o, g), pc[j] = "idle", Goto(j, p), job' = [job EXCEPT ![j] = b]
      PROVE  Anew(j, o, p, g)
  BY <1>1, GoesWith DEF Anew
<1>3. ASSUME Hydrate(j) PROVE Anew(j, "hydrate", "read", gen + 1)
  BY <1>1, <1>3, Blanks DEF Hydrate, Begin
<1>4. ASSUME StartRefresh(j) PROVE Anew(j, "refresh", "read", gen)
  BY <1>1, <1>4, Blanks DEF StartRefresh, Begin
<1>5. ASSUME Login(j) PROVE Anew(j, "login", "clear", gen + 1)
  <2>1. PICK u \in Users, keep \in BOOLEAN :
          job' = [job EXCEPT ![j] = [NoJob EXCEPT !.op = "login", !.gen = gen + 1, !.user = u, !.remember = keep]]
    BY <1>5 DEF Login
  <2> QED BY <1>1, <1>5, <2>1, Blanks DEF Login, Begin
<1>6. ASSUME Logout(j) PROVE Anew(j, "logout", "read", gen)
  BY <1>1, <1>6, Blanks DEF Logout, Begin
<1>7. ASSUME StartClear(j) PROVE Anew(j, "clear", "clear", gen + 1)
  BY <1>1, <1>7, Blanks DEF StartClear, Begin
<1> QED BY <1>3, <1>4, <1>5, <1>6, <1>7

\* A new generation belongs to the call that began it.
LEMMA TurnsTransition ==
    ASSUME Types, Turns, NEW j \in Jobs, gen' = gen + 1, booted', Elsewhere(j),
           pc'[j] # "idle", job'[j].op # "none", job'[j].op \in OpNames,
           \/ /\ store'.status = "anonymous"
              /\ job'[j].op \in {"hydrate", "refresh"} => pc'[j] = "clear"
              /\ job'[j].op = "login" => \A k \in Jobs \ {j} : job[k].op # "login"
           \/ /\ store'.status = "loading" /\ job'[j].op = "hydrate"
              /\ \A k \in Jobs : job[k].op # "login"
    PROVE  Turns'
<1>1. \A k \in Jobs \ {j} : ~(job'[k].gen = gen')
  <2>1. ASSUME NEW k \in Jobs \ {j} PROVE ~(job'[k].gen = gen')
    <3>1. PICK g \in 0..MaxGen : g = job[k].gen /\ g <= gen
      BY Here DEF JobSet
    <3>2. job'[k].gen = g
      BY <3>1 DEF Elsewhere
    <3> QED BY <3>1, <3>2, Sworn
  <2> QED BY <2>1
<1>2. \A k \in Jobs : Live(k)' => k = j
  BY <1>1 DEF Live, Current
<1>3. Shows(j)'
  BY DEF Shows
<1>4. \A k, l \in Jobs : job'[k].op = "login" /\ job'[l].op = "login" => k = l
  BY DEF Elsewhere, Turns
<1>5. \A k \in Jobs : job'[k].op = "login" => store'.status = "anonymous"
  BY DEF Elsewhere
<1>6. \A k \in Jobs : Yields(k)'
  <2>1. Yields(j)'
    BY DEF Yields, Elsewhere, Clearing
  <2> QED BY <1>2, <2>1 DEF Yields
<1> QED BY <1>2, <1>3, <1>4, <1>5, <1>6 DEF Turns

\* A call goes on in its generation.
LEMMA TurnsPass ==
    ASSUME Types, Turns, NEW j \in Jobs, pc[j] # "idle", pc'[j] # "idle", Elsewhere(j),
           job'[j].op = job[j].op, job'[j].gen = job[j].gen, UNCHANGED <<gen, inFlight, booted, api>>,
           store'.status = store.status, ~(job[j].op = "logout" /\ pc[j] = "read"),
           job[j].op = "hydrate" /\ pc[j] \in Clearing => pc'[j] \in Clearing,
           job[j].op = "refresh" => (pc[j] \in Clearing <=> pc'[j] \in Clearing)
    PROVE  Turns'
<1>1. \A k \in Jobs : job'[k].op = job[k].op /\ job'[k].gen = job[k].gen
  BY DEF Elsewhere
<1>2. \A k \in Jobs : pc'[k] # "idle" <=> pc[k] # "idle"
  BY DEF Elsewhere
<1>3. \A k \in Jobs : Live(k)' => Live(k)
  BY <1>1, <1>2 DEF Live, Current, Elsewhere
<1>4. \A k \in Jobs : Live(k) => Shows(k)
  BY DEF Turns
<1>5. \A k \in Jobs \ {j} : Shows(k) => Shows(k)'
  BY <1>1 DEF Elsewhere, Shows
<1>6. Shows(j) => Shows(j)'
  BY DEF Shows, Clearing
<1>7. \A k \in Jobs : Live(k)' => Shows(k)'
  BY <1>3, <1>4, <1>5, <1>6
<1>8. \A k \in Jobs : Yields(k)'
  <2>1. ASSUME NEW k \in Jobs, Yields(k) PROVE Yields(k)'
    BY <1>1, <1>3, <2>1 DEF Yields, Elsewhere, Clearing
  <2> QED BY <2>1 DEF Turns
<1> QED BY <1>1, <1>2, <1>3, <1>7, <1>8 DEF Turns

\* A call is over.
LEMMA TurnsSettle ==
    ASSUME Types, Turns, NEW j \in Jobs, NEW tok, pc[j] # "idle", Settle(j, tok), UNCHANGED <<gen, booted>>,
           \/ store'.status \in {store.status, "anonymous"}
           \/ Live(j) /\ job[j].op \in {"hydrate", "refresh", "login"} /\ pc[j] \notin Clearing
    PROVE  Turns'
<1>1. pc'[j] = "idle" /\ job'[j].op = "none" /\ Elsewhere(j)
  <2>1. job' = [job EXCEPT ![j] = NoJob] /\ Goto(j, "idle")
    BY DEF Settle
  <2>2. NoJob.op = "none"
    BY DEF NoJob
  <2> QED BY <2>1, <2>2, GoesWith
<1>2. booted /\ booted'
  BY DEF Turns
<1>3. \A k \in Jobs : Live(k)' => k # j /\ Live(k)
  BY <1>1 DEF Live, Current, Elsewhere
<1>4. ASSUME NEW k \in Jobs \ {j}, Live(k)' PROVE Shows(k)'
  <2>1. Live(k) /\ Shows(k) /\ ~Live(j)
    BY <1>3, <1>4 DEF Turns
  <2>2. store'.status \in {store.status, "anonymous"}
    BY <2>1
  <2>3. inFlight = k => inFlight' = k
    BY DEF Settle
  <2> QED BY <1>1, <2>1, <2>2, <2>3 DEF Shows, Elsewhere
<1>5. ASSUME NEW k \in Jobs, job'[k].op = "login" PROVE store'.status = "anonymous"
  <2>1. k # j /\ job[k].op = "login" /\ store.status = "anonymous"
    BY <1>1, <1>5 DEF Elsewhere, Turns
  <2>2. CASE store'.status \in {store.status, "anonymous"}
    BY <2>1, <2>2
  <2>3. CASE Live(j) /\ job[j].op \in {"hydrate", "refresh", "login"} /\ pc[j] \notin Clearing
    <3>1. Yields(j)
      BY DEF Turns
    <3>2. job[j].op = "login"
      BY <2>1, <2>3, <3>1 DEF Yields, Clearing
    <3> QED BY <2>1, <3>2 DEF Turns
  <2> QED BY <2>2, <2>3
<1>6. \A k, l \in Jobs : job'[k].op = "login" /\ job'[l].op = "login" => k = l
  BY <1>1 DEF Elsewhere, Turns
<1>7. \A k \in Jobs : Live(k)' => Shows(k)'
  BY <1>3, <1>4
<1>8. \A k \in Jobs : Yields(k)'
  <2>1. ASSUME NEW k \in Jobs, Yields(k) PROVE Yields(k)'
    BY <1>1, <1>3, <2>1 DEF Yields, Elsewhere
  <2> QED BY <2>1 DEF Turns
<1> QED BY <1>2, <1>3, <1>5, <1>6, <1>7, <1>8 DEF Turns

\* No call moves.
LEMMA TurnsStay ==
    ASSUME Types, Turns, UNCHANGED <<gen, pc, inFlight, booted>>, api'.pc # "idle" => booted,
           \A k \in Jobs : job'[k].op = job[k].op /\ job'[k].gen = job[k].gen,
           store'.status = store.status
    PROVE  Turns'
<1>1. \A k \in Jobs : (Live(k)' <=> Live(k)) /\ (Shows(k)' <=> Shows(k))
  BY DEF Live, Current, Shows
<1>2. \A k \in Jobs : Yields(k)' <=> Yields(k)
  BY <1>1 DEF Yields
<1> QED BY <1>1, <1>2 DEF Turns

\* One refresh, for an app that shows a session.
LEMMA TurnsRefresh ==
    ASSUME Types, Turns, NEW j \in Jobs, StartRefresh(j), store.status \in {"authenticated", "offline"},
           UNCHANGED <<gen, booted, store>>
    PROVE  Turns'
<1>1. pc[j] = "idle" /\ pc'[j] = "read" /\ job'[j].op = "refresh" /\ Elsewhere(j) /\ inFlight = None
      /\ inFlight' = j
  BY Beginnings DEF Anew, Bare, StartRefresh
<1>2. booted
  BY DEF Turns
<1>3. \A k \in Jobs : ~Live(k)
  <2>1. ASSUME NEW k \in Jobs, Live(k) PROVE FALSE
    <3>1. Shows(k) /\ job[k].op # "none"
      BY <2>1, Idle DEF Turns, Live
    <3>2. job[k].op \in OpNames
      BY <3>1, Here DEF JobSet
    <3>3. inFlight # k
      BY <1>1, MobileSessionAssumption
    <3> QED BY <3>1, <3>2, <3>3 DEF Shows, OpNames
  <2> QED BY <2>1
<1>4. \A k \in Jobs : Live(k)' => k = j
  BY <1>1, <1>3 DEF Live, Current, Elsewhere
<1>5. Shows(j)'
  BY <1>1 DEF Shows
<1>6. \A k \in Jobs : job'[k].op # "login"
  BY <1>1 DEF Turns, Elsewhere
<1> QED BY <1>2, <1>4, <1>5, <1>6 DEF Turns, Yields

\* The job keeps its call and its generation.
Same(j) == job'[j].op = job[j].op /\ job'[j].gen = job[j].gen /\ Elsewhere(j)

LEMMA ReadTokenGoes ==
    ASSUME Types, NEW j \in Jobs, NEW p, NEW t, Goto(j, p), job' = [job EXCEPT ![j].tok = t]
    PROVE  pc'[j] = p /\ Same(j) /\ job'[j].tok = t /\ job'[j].copy = job[j].copy /\ job'[j].new = job[j].new
<1>1. PICK b : b = [job[j] EXCEPT !.tok = t]
  OBVIOUS
<1>2. job' = [job EXCEPT ![j] = b] /\ job[j] \in JobSet(Named)
  BY <1>1, Here
<1>3. pc'[j] = p /\ job'[j] = b /\ Elsewhere(j)
  BY <1>2, GoesWith
<1>4. b.tok = t /\ b.op = job[j].op /\ b.gen = job[j].gen /\ b.copy = job[j].copy /\ b.new = job[j].new
  BY <1>1, <1>2 DEF JobSet
<1> QED BY <1>3, <1>4 DEF Same

LEMMA ReadCopyGoes ==
    ASSUME Types, NEW j \in Jobs, ReadCopy(j)
    PROVE  /\ pc'[j] = "sent" /\ Same(j) /\ job'[j].tok = job[j].tok /\ job'[j].new = job[j].new
           /\ job'[j].copy \in {job[j].copy, cached}
<1>0. Goto(j, "sent") /\ job[j] \in JobSet(Named)
  BY Here DEF ReadCopy
<1>1. CASE job' = [job EXCEPT ![j].copy = cached]
  <2>1. PICK b : b = [job[j] EXCEPT !.copy = cached]
    OBVIOUS
  <2>2. job' = [job EXCEPT ![j] = b]
    BY <1>1, <2>1
  <2>3. pc'[j] = "sent" /\ job'[j] = b /\ Elsewhere(j)
    BY <1>0, <2>2, GoesWith
  <2>4. b.copy = cached /\ b.op = job[j].op /\ b.gen = job[j].gen /\ b.tok = job[j].tok /\ b.new = job[j].new
    BY <1>0, <2>1 DEF JobSet
  <2> QED BY <2>3, <2>4 DEF Same
<1>2. CASE UNCHANGED job
  BY <1>0, <1>2, Goes DEF Same
<1> QED BY <1>1, <1>2 DEF ReadCopy

LEMMA LoseAnswerGoes ==
    ASSUME Types, NEW j \in Jobs, LoseAnswer(j)
    PROVE  /\ UNCHANGED pc /\ Same(j) /\ job'[j].tok = job[j].tok /\ job'[j].copy = job[j].copy
              /\ job'[j].new = 0
<1>1. PICK b : b = [job[j] EXCEPT !.reply = "failed", !.new = 0]
  OBVIOUS
<1>2. job' = [job EXCEPT ![j] = b] /\ UNCHANGED pc /\ job[j] \in JobSet(Named)
  BY <1>1, Here DEF LoseAnswer
<1>3. job'[j] = b /\ Elsewhere(j)
  BY <1>2 DEF Types, Jobbing, Elsewhere
<1>4. b.new = 0 /\ b.op = job[j].op /\ b.gen = job[j].gen /\ b.tok = job[j].tok /\ b.copy = job[j].copy
  BY <1>1, <1>2 DEF JobSet
<1> QED BY <1>2, <1>3, <1>4 DEF Same

LEMMA InvalidateGoes ==
    ASSUME Types, NEW j \in Jobs, Invalidate(j)
    PROVE  /\ pc'[j] = "clear" /\ Elsewhere(j) /\ job'[j].op = job[j].op /\ job'[j].gen = gen + 1
           /\ gen' = gen + 1 /\ inFlight' = None /\ store' = SignedOut /\ Enter(j)
           /\ job'[j].tok = job[j].tok /\ job'[j].copy = job[j].copy /\ job'[j].new = job[j].new
<1>1. PICK b : b = [job[j] EXCEPT !.gen = gen + 1]
  OBVIOUS
<1>2. job' = [job EXCEPT ![j] = b] /\ Goto(j, "clear") /\ job[j] \in JobSet(Named)
  BY <1>1, Here DEF Invalidate
<1>3. pc'[j] = "clear" /\ job'[j] = b /\ Elsewhere(j)
  BY <1>2, GoesWith
<1>4. b.gen = gen + 1 /\ b.op = job[j].op /\ b.tok = job[j].tok /\ b.copy = job[j].copy /\ b.new = job[j].new
  BY <1>1, <1>2 DEF JobSet
<1> QED BY <1>3, <1>4 DEF Invalidate, Transition

LEMMA LeaveSessionGoes ==
    ASSUME Types, NEW j \in Jobs, LeaveSession(j)
    PROVE  /\ pc'[j] = "clear" /\ Elsewhere(j) /\ job'[j].op = "logout" /\ job'[j].gen = gen + 1
           /\ gen' = gen + 1 /\ inFlight' = None /\ store' = SignedOut
           /\ job'[j].tok \in {CurrentToken, 0} /\ job'[j].copy = job[j].copy /\ job'[j].new = job[j].new
<1>0. PICK t \in {CurrentToken, 0} : job' = [job EXCEPT ![j].gen = gen + 1, ![j].tok = t]
  BY DEF LeaveSession
<1>1. PICK b : b = [job[j] EXCEPT !.gen = gen + 1, !.tok = t]
  OBVIOUS
<1>2. job' = [job EXCEPT ![j] = b] /\ Goto(j, "clear") /\ job[j] \in JobSet(Named) /\ job[j].op = "logout"
  BY <1>0, <1>1, Here DEF LeaveSession
<1>3. pc'[j] = "clear" /\ job'[j] = b /\ Elsewhere(j)
  BY <1>2, GoesWith
<1>4. b.gen = gen + 1 /\ b.op = job[j].op /\ b.tok = t /\ b.copy = job[j].copy /\ b.new = job[j].new
  BY <1>1, <1>2 DEF JobSet
<1> QED BY <1>0, <1>2, <1>3, <1>4 DEF LeaveSession, Transition

LEMMA SettleGoes ==
    ASSUME Types, NEW j \in Jobs, NEW tok, Settle(j, tok)
    PROVE  /\ pc'[j] = "idle" /\ Bare(job'[j], "none", 0) /\ Elsewhere(j)
           /\ (inFlight' = inFlight \/ inFlight = j) /\ api'.gen = api.gen /\ api'.user = api.user
           /\ (api.pc = "idle" <=> api'.pc = "idle") /\ (api'.pc = "delivered" <=> api.pc = "delivered")
<1>1. pc'[j] = "idle" /\ job'[j] = NoJob /\ Elsewhere(j)
  BY GoesWith DEF Settle
<1>2. Bare(NoJob, "none", 0)
  BY DEF Bare, NoJob
<1>3. api \in ApiSet(Named)
  BY Sworn
<1>4. /\ api'.gen = api.gen /\ api'.user = api.user
      /\ (api.pc = "idle" <=> api'.pc = "idle") /\ (api'.pc = "delivered" <=> api.pc = "delivered")
  <2>1. CASE api.pc = "refreshing" /\ api.reply = j
    <3>1. PICK q \in {"failed", "refreshed"} : q = IF tok = 0 THEN "failed" ELSE "refreshed"
      OBVIOUS
    <3>2. api' = [api EXCEPT !.pc = q, !.tok = tok, !.reply = "none"]
      BY <2>1, <3>1 DEF Settle
    <3> QED BY <1>3, <2>1, <3>1, <3>2 DEF ApiSet
  <2>2. CASE ~(api.pc = "refreshing" /\ api.reply = j)
    BY <2>2 DEF Settle
  <2> QED BY <2>1, <2>2
<1>5. inFlight' = inFlight \/ inFlight = j
  BY DEF Settle
<1> QED BY <1>1, <1>2, <1>4, <1>5

\* What an answer brings: a token of the family sent, or of a new sign-in.
LEMMA ServeGoes ==
    ASSUME Types, NEW j \in Jobs, Serve(j)
    PROVE  /\ pc'[j] = "answered" /\ Same(j) /\ job'[j].tok = job[j].tok /\ job'[j].copy = job[j].copy
           /\ \/ job'[j].new = job[j].new
              \/ /\ job'[j].new = Len(issued) + 1
                 /\ \E u \in Users, f \in Tokens : Mint(u, f) /\
                      IF job[j].op = "login" THEN f = Len(issued) + 1
                      ELSE job[j].tok \in Held /\ f = Family(job[j].tok)
<1>0. Goto(j, "answered") /\ job[j] \in JobSet(Named) /\ (job[j].op = "login" => job[j].user \in Users)
  BY Here DEF Serve, Fits
<1>1. ASSUME NEW r, job' = [job EXCEPT ![j].reply = r]
      PROVE  /\ pc'[j] = "answered" /\ Same(j) /\ job'[j].tok = job[j].tok /\ job'[j].copy = job[j].copy
             /\ job'[j].new = job[j].new
  <2>1. PICK b : b = [job[j] EXCEPT !.reply = r]
    OBVIOUS
  <2>2. job' = [job EXCEPT ![j] = b]
    BY <1>1, <2>1
  <2>3. pc'[j] = "answered" /\ job'[j] = b /\ Elsewhere(j)
    BY <1>0, <2>2, GoesWith
  <2>4. b.new = job[j].new /\ b.op = job[j].op /\ b.gen = job[j].gen /\ b.tok = job[j].tok
        /\ b.copy = job[j].copy
    BY <1>0, <2>1 DEF JobSet
  <2> QED BY <2>3, <2>4 DEF Same
<1>2. ASSUME NEW n, job' = [job EXCEPT ![j].reply = "ok", ![j].new = n]
      PROVE  /\ pc'[j] = "answered" /\ Same(j) /\ job'[j].tok = job[j].tok /\ job'[j].copy = job[j].copy
             /\ job'[j].new = n
  <2>1. PICK b : b = [job[j] EXCEPT !.reply = "ok", !.new = n]
    OBVIOUS
  <2>2. job' = [job EXCEPT ![j] = b]
    BY <1>2, <2>1
  <2>3. pc'[j] = "answered" /\ job'[j] = b /\ Elsewhere(j)
    BY <1>0, <2>2, GoesWith
  <2>4. b.new = n /\ b.op = job[j].op /\ b.gen = job[j].gen /\ b.tok = job[j].tok /\ b.copy = job[j].copy
    BY <1>0, <2>1 DEF JobSet
  <2> QED BY <2>3, <2>4 DEF Same
<1>3. CASE job[j].op = "login" /\ Mint(job[j].user, Len(issued) + 1)
           /\ job' = [job EXCEPT ![j].reply = "ok", ![j].new = Len(issued) + 1]
  <2>1. Len(issued) + 1 \in Tokens
    BY <1>3, MobileSessionAssumption DEF Mint, Tokens, Types, Serving
  <2> QED BY <1>0, <1>2, <1>3, <2>1
<1>4. CASE job[j].op # "login" /\ Good(job[j].tok) /\ Mint(Owner(job[j].tok), Family(job[j].tok))
           /\ job' = [job EXCEPT ![j].reply = "ok", ![j].new = Len(issued) + 1]
  <2>1. job[j].tok \in Held
    BY <1>4 DEF Good
  <2>2. Owner(job[j].tok) \in Users /\ Family(job[j].tok) \in Tokens
    BY <2>1 DEF Types, Serving, Held
  <2> QED BY <1>2, <1>4, <2>1, <2>2
<1>5. CASE \E r : job' = [job EXCEPT ![j].reply = r]
  BY <1>1, <1>5
<1> QED BY <1>3, <1>4, <1>5 DEF Serve, ServeLogin, ServeRefresh

-----------------------------------------------------------------------------
(* Turns, action by action. *)

LEMMA StartTurns == ASSUME Types, Turns, NEW j \in Jobs, Start(j) PROVE Turns'
<1>1. CASE Hydrate(j)
  <2>1. Anew(j, "hydrate", "read", gen + 1)
    BY <1>1, Beginnings
  <2>2. gen' = gen + 1 /\ booted' /\ store'.status = "loading"
    BY <1>1 DEF Hydrate, Transition
  <2>3. \A k \in Jobs : job[k].op # "login"
    <3>1. CASE ~booted
      BY <3>1, Idle DEF Turns
    <3>2. CASE CanRetry
      BY <3>2 DEF Turns, CanRetry
    <3> QED BY <1>1, <3>1, <3>2 DEF Hydrate
  <2> QED BY <2>1, <2>2, <2>3, TurnsTransition DEF Anew, Bare, OpNames
<1>2. CASE Resume(j)
  BY <1>2, TurnsRefresh DEF Resume
<1>3. CASE Login(j)
  <2>1. Anew(j, "login", "clear", gen + 1)
    BY <1>3, Beginnings
  <2>2. gen' = gen + 1 /\ booted' /\ store'.status = "anonymous" /\ \A k \in Jobs : job[k].op # "login"
    BY <1>3 DEF Login, Transition, SignedOut
  <2> QED BY <2>1, <2>2, TurnsTransition DEF Anew, Bare, OpNames
<1>4. CASE Logout(j)
  <2>1. Anew(j, "logout", "read", gen)
    BY <1>4, Beginnings
  <2>2. UNCHANGED <<gen, inFlight, store, booted, api>> /\ store.status \in {"authenticated", "offline"}
    BY <1>4 DEF Logout, memory
  <2>3. \A k \in Jobs : Live(k)' => Live(k) /\ k # j
    BY <2>1, <2>2 DEF Live, Current, Anew, Bare, Elsewhere
  <2>4. \A k \in Jobs \ {j} : Shows(k)' <=> Shows(k)
    BY <2>1, <2>2 DEF Shows, Anew, Elsewhere
  <2>5. \A k \in Jobs : job'[k].op = "login" => job[k].op = "login"
    BY <2>1 DEF Anew, Bare, Elsewhere
  <2>6. booted /\ booted'
    BY <2>2 DEF Turns
  <2>7. \A k \in Jobs : Yields(k)'
    <3>1. ASSUME NEW k \in Jobs, Yields(k) PROVE Yields(k)'
      BY <2>1, <2>3, <2>5, <3>1 DEF Yields, Anew, Elsewhere
    <3> QED BY <3>1 DEF Turns
  <2> QED BY <2>2, <2>3, <2>4, <2>5, <2>6, <2>7 DEF Turns
<1>5. CASE Reset(j)
  <2>1. Anew(j, "clear", "clear", gen + 1)
    BY <1>5, Beginnings DEF Reset
  <2>2. gen' = gen + 1 /\ booted' /\ store'.status = "anonymous"
    BY <1>5 DEF Reset, StartClear, Transition, SignedOut
  <2> QED BY <2>1, <2>2, TurnsTransition DEF Anew, Bare, OpNames
<1> QED BY <1>1, <1>2, <1>3, <1>4, <1>5 DEF Start

LEMMA InvalidateTurns ==
    ASSUME Types, Turns, NEW j \in Jobs, Invalidate(j), job[j].op \in {"hydrate", "refresh"}, UNCHANGED booted
    PROVE  Turns'
<1>1. booted'
  BY Idle DEF Turns
<1>2. store'.status = "anonymous"
  BY InvalidateGoes DEF SignedOut
<1> QED BY <1>1, <1>2, InvalidateGoes, TurnsTransition DEF OpNames

LEMMA ReadTokenTurns == ASSUME Types, Turns, NEW j \in Jobs, ReadToken(j) PROVE Turns'
<1>1. pc[j] = "read" /\ job[j].op \in {"hydrate", "refresh"} /\ UNCHANGED booted
  BY DEF ReadToken, Quiet
<1>2. CASE GiveUp(j)
  BY <1>1, <1>2, TurnsSettle DEF GiveUp
<1>3. CASE job[j].op = "hydrate" /\ Goto(j, "clear") /\ UNCHANGED <<gen, inFlight, store, job, api>>
  BY <1>1, <1>3, Goes, TurnsPass DEF Clearing
<1>4. CASE Invalidate(j)
  BY <1>1, <1>4, InvalidateTurns
<1>5. CASE job' = [job EXCEPT ![j].tok = CurrentToken]
           /\ Goto(j, IF job[j].op = "hydrate" THEN "copy" ELSE "sent")
           /\ UNCHANGED <<gen, inFlight, store, credQ, api>>
  <2>1. PICK p \in {"copy", "sent"} : p = IF job[j].op = "hydrate" THEN "copy" ELSE "sent"
    OBVIOUS
  <2>2. pc'[j] = p /\ Same(j)
    BY <1>5, <2>1, ReadTokenGoes
  <2> QED BY <1>1, <1>5, <2>1, <2>2, TurnsPass DEF Same, Clearing
<1> QED BY <1>2, <1>3, <1>4, <1>5 DEF ReadToken

LEMMA FailsTurns ==
    ASSUME Types, Turns, NEW j \in Jobs, Fails(j), pc[j] = "answered", UNCHANGED booted
    PROVE  Turns'
<1>1. job[j].op \in {"hydrate", "refresh", "login"}
  BY Here DEF Fits, Asking
<1>2. CASE GiveUp(j)
  BY <1>2, TurnsSettle DEF GiveUp
<1>3. CASE job[j].op # "login" /\ Invalidate(j)
  BY <1>1, <1>3, InvalidateTurns
<1>4. CASE Current(j) /\ Settle(j, 0) /\ UNCHANGED <<gen, credQ>>
  BY <1>1, <1>4, TurnsSettle DEF Live, Clearing
<1> QED BY <1>2, <1>3, <1>4 DEF Fails

LEMMA AskingTurns ==
    ASSUME Types, Turns, NEW j \in Jobs,
           ReadTokenFails(j) \/ ReadCopy(j) \/ Serve(j) \/ LoseAnswer(j) \/ Receive(j)
    PROVE  Turns'
<1>1. CASE ReadTokenFails(j)
  <2>1. pc[j] = "read" /\ job[j].op \in {"hydrate", "refresh"} /\ Settle(j, 0) /\ UNCHANGED <<gen, booted>>
    BY <1>1 DEF ReadTokenFails
  <2>2. store' = store \/ Current(j)
    BY <1>1 DEF ReadTokenFails
  <2>3. store'.status = store.status \/ Live(j)
    BY <2>1, <2>2 DEF Live
  <2> QED BY <2>1, <2>3, TurnsSettle DEF Clearing
<1>2. CASE ReadCopy(j)
  <2>1. UNCHANGED <<gen, inFlight, booted, api, store>> /\ pc[j] = "copy"
    BY <1>2 DEF ReadCopy, memory
  <2> QED BY <1>2, <2>1, ReadCopyGoes, TurnsPass DEF Same, Clearing
<1>3. CASE Serve(j)
  <2>1. UNCHANGED <<gen, inFlight, booted, api, store>> /\ pc[j] = "sent"
    BY <1>3 DEF Serve, memory
  <2> QED BY <1>3, <2>1, ServeGoes, TurnsPass DEF Same, Clearing
<1>4. CASE LoseAnswer(j)
  <2>1. UNCHANGED <<gen, inFlight, booted, api, store>> /\ pc[j] = "answered"
    BY <1>4 DEF LoseAnswer, memory
  <2> QED BY <1>4, <2>1, LoseAnswerGoes, TurnsPass DEF Same, Clearing
<1>5. CASE Receive(j)
  <2>1. pc[j] = "answered" /\ UNCHANGED booted
    BY <1>5 DEF Receive, Quiet
  <2>2. CASE Goto(j, "accept") /\ UNCHANGED <<gen, inFlight, store, job, api>>
    BY <2>1, <2>2, Goes, TurnsPass DEF Clearing
  <2>3. CASE Fails(j)
    BY <2>1, <2>3, FailsTurns
  <2> QED BY <1>5, <2>2, <2>3 DEF Receive
<1> QED BY <1>1, <1>2, <1>3, <1>4, <1>5

LEMMA AcceptingTurns ==
    ASSUME Types, Turns, NEW j \in Jobs,
           Accept(j) \/ Written(j) \/ Copied(j) \/ Reject(j) \/ Unwritten(j) \/ Unkept(j)
    PROVE  Turns'
<1>0. pc[j] \in {"accept", "written", "copied", "reject", "unwritten", "unkept"}
  BY DEF Accept, Written, Copied, Reject, Unwritten, Unkept
<1>1. job[j].op \in {"hydrate", "refresh", "login"}
  BY <1>0, Paired
<1>2. ASSUME UNCHANGED <<gen, persistent, inFlight, store, booted, job, api>>,
             NEW p \in {"written", "copied", "reject", "unwritten", "unkept"}, Goto(j, p)
      PROVE  Turns'
  BY <1>0, <1>2, Goes, TurnsPass DEF Clearing
<1>3. CASE Accept(j)
  BY <1>2, <1>3 DEF Accept
<1>4. CASE Written(j)
  BY <1>2, <1>4 DEF Written, TakeBack
<1>5. CASE Copied(j)
  <2>1. CASE TakeBack(j) /\ UNCHANGED <<gen, persistent, inFlight, store, booted, job, credQ, api>>
    BY <1>2, <2>1 DEF TakeBack
  <2>2. CASE Current(j) /\ Settle(j, job[j].new) /\ UNCHANGED <<gen, booted>>
    BY <1>0, <1>1, <2>2, TurnsSettle DEF Live, Clearing
  <2> QED BY <1>5, <2>1, <2>2 DEF Copied
<1>6. CASE Reject(j)
  BY <1>0, <1>6, TurnsSettle DEF Reject
<1>7. CASE Unwritten(j)
  <2>1. CASE Goto(j, "unkept") /\ UNCHANGED <<inFlight, store, job, credQ, api>>
    BY <1>2, <1>7, <2>1 DEF Unwritten
  <2>2. CASE Settle(j, 0) /\ (store' = store \/ Current(j))
    <3>1. store'.status = store.status \/ Live(j)
      BY <1>0, <2>2 DEF Live
    <3> QED BY <1>0, <1>1, <1>7, <2>2, <3>1, TurnsSettle DEF Unwritten, Clearing
  <2> QED BY <1>7, <2>1, <2>2 DEF Unwritten
<1>8. CASE Unkept(j)
  <2>1. Settle(j, 0) /\ UNCHANGED <<gen, booted>> /\ (store' = SignedOut \/ Current(j))
    BY <1>8 DEF Unkept
  <2>2. store'.status = "anonymous" \/ Live(j)
    BY <1>0, <2>1 DEF Live, SignedOut
  <2> QED BY <1>0, <1>1, <2>1, <2>2, TurnsSettle DEF Clearing
<1> QED BY <1>3, <1>4, <1>5, <1>6, <1>7, <1>8

LEMMA AfterClearTurns ==
    ASSUME Types, Turns, NEW j \in Jobs, pc[j] \in Clearing, AfterClear(j), UNCHANGED <<gen, booted>>,
           store' = store \/ (Current(j) /\ store' = SignedOut)
    PROVE  Turns'
<1>1. CASE job[j].op \in {"login", "logout"} /\ UNCHANGED <<inFlight, job, api>>
           /\ (Goto(j, "sent") \/ Goto(j, "join"))
  <2>1. PICK p \in {"sent", "join"} : Goto(j, p)
    BY <1>1
  <2>2. store'.status = store.status
    <3>1. CASE Current(j) /\ store' = SignedOut
      <4>1. Live(j) /\ Shows(j)
        BY <3>1 DEF Live, Clearing, Turns
      <4> QED BY <1>1, <3>1, <4>1 DEF Shows, SignedOut
    <3> QED BY <3>1
  <2> QED BY <1>1, <2>1, <2>2, Goes, TurnsPass DEF Clearing
<1>2. CASE job[j].op \notin {"login", "logout"} /\ Settle(j, 0)
  <2>1. CASE store' = store
    BY <1>2, <2>1, TurnsSettle DEF Clearing
  <2>2. CASE Current(j) /\ store' = SignedOut
    <3>1. Live(j) /\ Shows(j) /\ store'.status = "anonymous"
      BY <2>2 DEF Live, Clearing, Turns, SignedOut
    <3>2. job[j].op \in {"hydrate", "refresh", "clear"}
      <4>1. job[j].op \in OpNames
        BY <3>1, Here, Idle DEF Live, JobSet
      <4> QED BY <1>2, <4>1 DEF OpNames
    <3>3. CASE job[j].op = "clear"
      <4>1. store'.status = store.status
        BY <3>1, <3>3 DEF Shows
      <4> QED BY <1>2, <4>1, TurnsSettle DEF Clearing
    <3>4. CASE job[j].op \in {"hydrate", "refresh"}
      BY <1>2, <3>1, <3>4, TurnsSettle DEF Clearing
    <3> QED BY <3>2, <3>3, <3>4
  <2> QED BY <2>1, <2>2
<1> QED BY <1>1, <1>2 DEF AfterClear

LEMMA ClearingTurns ==
    ASSUME Types, Turns, NEW j \in Jobs, Clear(j) \/ Wiped(j) \/ LeaveSession(j) \/ Join(j)
    PROVE  Turns'
<1>1. CASE Clear(j)
  <2>1. UNCHANGED <<gen, store, booted>> /\ pc[j] = "clear"
    BY <1>1 DEF Clear
  <2>2. CASE Goto(j, "wiped") /\ UNCHANGED <<persistent, inFlight, job, credQ, api>>
    BY <2>1, <2>2, Goes, TurnsPass DEF Clearing
  <2>3. CASE AfterClear(j)
    BY <2>1, <2>3, AfterClearTurns DEF Clearing
  <2> QED BY <1>1, <2>2, <2>3 DEF Clear
<1>2. CASE Wiped(j)
  <2>1. UNCHANGED <<gen, booted>> /\ pc[j] = "wiped" /\ AfterClear(j)
        /\ (store' = store \/ (Current(j) /\ store' = SignedOut))
    BY <1>2 DEF Wiped
  <2> QED BY <2>1, AfterClearTurns DEF Clearing
<1>3. CASE LeaveSession(j)
  <2>1. pc[j] = "read" /\ UNCHANGED booted
    BY <1>3 DEF LeaveSession
  <2>2. booted'
    BY <2>1 DEF Turns
  <2>3. store'.status = "anonymous"
    BY <1>3, LeaveSessionGoes DEF SignedOut
  <2> QED BY <1>3, <2>2, <2>3, LeaveSessionGoes, TurnsTransition DEF OpNames
<1>4. CASE Join(j)
  BY <1>4, TurnsSettle DEF Join
<1> QED BY <1>1, <1>2, <1>3, <1>4

LEMMA ApiStepTurns == ASSUME Types, Turns, ApiStep PROVE Turns'
<1>0. api.pc # "idle" \/ store.status = "authenticated" => booted
  BY DEF Turns
<1>1. ASSUME UNCHANGED <<memory, jobs>>, booted PROVE Turns'
  BY <1>1, TurnsStay DEF memory, jobs
<1>2. CASE Ask \/ ApiServe \/ Refuse \/ Retry \/ ApiDone
  BY <1>0, <1>1, <1>2 DEF Ask, ApiServe, Refuse, Retry, ApiDone
<1>3. CASE Deliver
  <2>1. booted /\ UNCHANGED booted
    BY <1>0, <1>3 DEF Deliver, ApiOnly
  <2>2. CASE UNCHANGED <<gen, inFlight, store, jobs>>
    BY <2>1, <2>2, TurnsStay DEF jobs
  <2>3. ASSUME NEW j \in Jobs, StartClear(j) PROVE Turns'
    <3>1. Anew(j, "clear", "clear", gen + 1) /\ booted'
      BY <2>1, <2>3, Beginnings
    <3>2. gen' = gen + 1 /\ store'.status = "anonymous"
      BY <2>3 DEF StartClear, Transition, SignedOut
    <3> QED BY <3>1, <3>2, TurnsTransition DEF Anew, Bare, OpNames
  <2> QED BY <1>3, <2>2, <2>3 DEF Deliver
<1>4. CASE RefreshFirst
  <2>1. CASE UNCHANGED <<memory, jobs>>
    BY <1>0, <1>1, <1>4, <2>1 DEF RefreshFirst
  <2>2. ASSUME NEW j \in Jobs, StartRefresh(j), UNCHANGED <<gen, persistent, store, volatile, booted, credQ>>
        PROVE  Turns'
    BY <1>4, <2>2, TurnsRefresh DEF RefreshFirst, MayRefresh
  <2> QED BY <1>4, <2>1, <2>2 DEF RefreshFirst
<1> QED BY <1>2, <1>3, <1>4 DEF ApiStep

\* A revocation notes a call whose keychain is no longer to be cleared.
LEMMA RevokeStepGoes ==
    ASSUME Types, RevokeStep
    PROVE  /\ UNCHANGED <<memory, pc, credQ, api, disk, cached, issued, left>>
           /\ \A k \in Jobs : /\ job'[k].op = job[k].op /\ job'[k].gen = job[k].gen /\ job'[k].tok = job[k].tok
                              /\ job'[k].copy = job[k].copy /\ job'[k].new = job[k].new
<1>1. UNCHANGED <<memory, pc, credQ, api, disk, cached, issued, left>>
  BY DEF RevokeStep, RevokeStart, RevokeServed, RevokeUnsure, RevokeGone, RevokeKept, RevOnly, jobs, keychain,
     server, ghosts
<1>2. UNCHANGED job \/ (~IsFlush /\ job' = [job EXCEPT ![First.by].clean = FALSE])
  BY DEF RevokeStep, RevokeStart, RevokeServed, RevokeUnsure, RevokeGone, RevokeKept, RevOnly, jobs
<1>3. ASSUME NEW i, job' = [job EXCEPT ![i].clean = FALSE], NEW k \in Jobs
      PROVE  /\ job'[k].op = job[k].op /\ job'[k].gen = job[k].gen /\ job'[k].tok = job[k].tok
             /\ job'[k].copy = job[k].copy /\ job'[k].new = job[k].new
  <2>1. job[k] \in JobSet(Named) /\ job \in [Jobs -> JobSet(Named)]
    BY Here DEF Types, Jobbing
  <2>2. CASE k = i
    <3>1. PICK b : b = [job[k] EXCEPT !.clean = FALSE]
      OBVIOUS
    <3>2. job'[k] = b
      BY <1>3, <2>1, <2>2, <3>1
    <3> QED BY <2>1, <3>1, <3>2 DEF JobSet
  <2>3. CASE k # i
    BY <1>3, <2>1, <2>3
  <2> QED BY <2>2, <2>3
<1> QED BY <1>1, <1>2, <1>3

LEMMA CrashGoes ==
    ASSUME Crash
    PROVE  \A k \in Jobs : pc'[k] = "idle" /\ Bare(job'[k], "none", 0)
<1>1. Bare(NoJob, "none", 0)
  BY DEF Bare, NoJob
<1> QED BY <1>1 DEF Crash

LEMMA InitTurns == Init => Turns
<1>1. NoJob.op = "none" /\ NoApi.pc = "idle"
  BY DEF NoJob, NoApi
<1> QED BY <1>1 DEF Init, Turns, Live, Yields

\* The step of the induction.
LEMMA NextTurns == Types /\ Turns /\ [Next]_vars => Turns'
<1> SUFFICES ASSUME Types, Turns, [Next]_vars PROVE Turns'
  OBVIOUS
<1>1. CASE \E j \in Jobs : Start(j)
  BY <1>1, StartTurns
<1>2. CASE \E j \in Jobs : Step(j)
  BY <1>2, ReadTokenTurns, AskingTurns, AcceptingTurns, ClearingTurns DEF Step
<1>3. CASE RevokeStep
  <2>1. UNCHANGED <<gen, pc, inFlight, booted, api, store>>
    BY <1>3, RevokeStepGoes DEF memory
  <2>2. api'.pc # "idle" => booted
    BY <2>1 DEF Turns
  <2> QED BY <1>3, <2>1, <2>2, RevokeStepGoes, TurnsStay
<1>4. CASE ApiStep
  BY <1>4, ApiStepTurns
<1>5. CASE Foreground \/ EndElsewhere \/ UNCHANGED vars
  <2>1. UNCHANGED <<memory, jobs, api>>
    BY <1>5 DEF Foreground, EndElsewhere, vars
  <2> QED BY <2>1, TurnsStay DEF memory, jobs, Turns
<1>6. CASE GoOffline
  <2>1. UNCHANGED <<gen, inFlight, booted, pc, job, api>> /\ store.status = "authenticated"
        /\ store'.status = "offline"
    BY <1>6, Sworn DEF GoOffline, jobs, StoreSet
  <2>2. \A k \in Jobs : (Live(k)' <=> Live(k)) /\ (Live(k) => Shows(k))
    BY <2>1 DEF Live, Current, Turns
  <2>3. \A k \in Jobs : Live(k) => Shows(k)'
    BY <2>1, <2>2 DEF Shows
  <2>4. \A k \in Jobs : job[k].op # "login"
    BY <2>1 DEF Turns
  <2>5. \A k \in Jobs : Yields(k)'
    BY <2>1, <2>4 DEF Yields
  <2> QED BY <2>1, <2>2, <2>3, <2>4, <2>5 DEF Turns
<1>7. CASE Crash
  <2>1. NoApi.pc = "idle"
    BY DEF NoApi
  <2> QED BY <1>7, <2>1, CrashGoes DEF Crash, Turns, Live, Bare, Yields
<1> QED BY <1>1, <1>2, <1>3, <1>4, <1>5, <1>6, <1>7 DEF Next

-----------------------------------------------------------------------------
(* What is shown is what is stored. *)

\* A new generation leaves every other call behind.
LEMMA OldGenerations ==
    ASSUME Types, NEW j \in Jobs, gen' = gen + 1, Elsewhere(j), NEW k \in Jobs \ {j}
    PROVE  job'[k].gen # gen' /\ ~Live(k)'
<1>1. PICK g \in 0..MaxGen : g = job[k].gen /\ g <= gen
  BY Here DEF JobSet
<1>2. job'[k].gen = g
  BY <1>1 DEF Elsewhere
<1>3. job'[k].gen # gen'
  BY <1>1, <1>2, Sworn
<1> QED BY <1>3 DEF Live, Current

\* One call at a time is in the credential chain.
LEMMA Alone ==
    ASSUME Types, NEW j \in Jobs, NEW k \in Jobs, Turn(j), pc[k] \in HoldsLock
    PROVE  k = j
  BY Here DEF Turn

\* A token's family and account are for good.
LEMMA Lineage ==
    ASSUME Types, Fading, NEW t \in Named, t # 0
    PROVE  /\ t \in Held /\ t \in Named' /\ Family(t)' = Family(t) /\ Owner(t)' = Owner(t)
           /\ Family(t) \in Held /\ Owner(t) \in Users /\ Owner(Family(t)) = Owner(t)
<1>1. t \in Held
  BY DEF Named
<1> QED BY <1>1 DEF Fading, Named, Types, Serving

\* Nobody is on screen.
LEMMA KeptDark ==
    ASSUME Types, store'.status # "authenticated", store'.access = 0,
           \A k \in Jobs : pc'[k] \in Storing => job'[k].gen # gen' \/ Stored(job[k].new)'
    PROVE  Kept'
  BY DEF Kept, Current

\* A new generation starts with nobody on screen.
LEMMA KeptTransition ==
    ASSUME Types, NEW j \in Jobs, gen' = gen + 1, Elsewhere(j), pc'[j] \notin Storing,
           store'.status # "authenticated", store'.access = 0
    PROVE  Kept'
  BY OldGenerations, KeptDark

\* Under the lock, with no session on screen.
LEMMA KeptLocked ==
    ASSUME Types, NEW j \in Jobs, Turn(j), Elsewhere(j), pc'[j] \notin Storing,
           store'.status # "authenticated", store'.access = 0
    PROVE  Kept'
<1>1. \A k \in Jobs \ {j} : pc'[k] \notin Storing
  BY Alone DEF Elsewhere, Storing, HoldsLock
<1> QED BY <1>1, KeptDark

\* The screen and the keychain stay, and no call takes up another token.
LEMMA KeptStays ==
    ASSUME Types, Fading, Kept, UNCHANGED <<gen, store, persistent, volatile, disk>>, Giving => Giving',
           \A k \in Jobs : pc'[k] \in Storing =>
             pc[k] \in Storing /\ job'[k].gen = job[k].gen /\ job'[k].new = job[k].new,
           \A k \in Jobs : Live(k)' /\ job'[k].op = "refresh" /\ job'[k].tok # 0 =>
             \/ Live(k) /\ job[k].op = "refresh" /\ job'[k].tok = job[k].tok
             \/ job'[k].tok = CurrentToken
    PROVE  Kept'
<1>0. volatile \in Named /\ disk \in Named /\ store \in StoreSet(Named) /\ store.access \in Named
  BY Sworn DEF StoreSet
<1>1. store.status = "authenticated" => SignedIn'
  <2>1. SUFFICES ASSUME store.status = "authenticated" PROVE SignedIn'
    OBVIOUS
  <2>2. SignedIn
    BY <2>1 DEF Kept
  <2>3. PICK a \in Named : a = store.access /\ a # 0
    BY <1>0, <2>2 DEF SignedIn
  <2>4. Family(a)' = Family(a) /\ Owner(a)' = Owner(a)
    BY <2>3, Lineage
  <2>5. \A t \in {disk, volatile} \ {0} : Family(t)' = Family(t)
    BY <1>0, Lineage
  <2>6. \A t \in {disk, volatile} \ {0} : Family(t)' = Family(a)'
    BY <2>2, <2>3, <2>4, <2>5 DEF SignedIn
  <2>7. store'.access = a /\ store'.user = Owner(a)'
    BY <2>2, <2>3, <2>4 DEF SignedIn
  <2>8. \A t \in {disk', volatile'} \ {0} : Family(t)' = Family(store.access)'
    <3>1. Family(store.access)' = Family(a)'
      BY <2>7 DEF Family
    <3> QED BY <2>6, <3>1
  <2>9. store'.user = Owner(store.access)'
    BY <2>7 DEF Owner
  <2> QED BY <2>2, <2>3, <2>7, <2>8, <2>9 DEF SignedIn, CurrentToken
<1>2. ASSUME NEW k \in Jobs, pc'[k] \in Storing
      PROVE  IF Current(k)' THEN Stored(job[k].new)' ELSE store'.status # "authenticated"
  <2>1. IF Current(k) THEN Stored(job[k].new) ELSE store.status # "authenticated"
    BY <1>2 DEF Kept
  <2> QED BY <1>2, <2>1 DEF Current, Stored
<1>3. ASSUME NEW k \in Jobs, Live(k)', job'[k].op = "refresh", job'[k].tok # 0, store.status = "authenticated"
      PROVE  Family(job[k].tok)' = Family(store.access)'
  <2>1. SignedIn
    BY <1>3 DEF Kept
  <2>2. PICK a \in Named : a = store.access /\ a # 0 /\ Family(a)' = Family(a)
    BY <1>0, <2>1, Lineage DEF SignedIn
  <2>3. PICK t \in Named : t = job'[k].tok /\ Family(t) = Family(a)
    <3>1. CASE Live(k) /\ job[k].op = "refresh" /\ job'[k].tok = job[k].tok
      <4>1. job[k].tok \in Named
        BY Here DEF JobSet
      <4> QED BY <1>3, <2>2, <3>1, <4>1 DEF Kept
    <3>2. CASE job'[k].tok = CurrentToken
      <4>1. CurrentToken \in {disk, volatile} \ {0}
        BY <1>3, <3>2 DEF CurrentToken
      <4> QED BY <1>0, <2>1, <2>2, <3>2, <4>1 DEF SignedIn
    <3> QED BY <1>3, <3>1, <3>2
  <2>4. Family(t)' = Family(t)
    BY <1>3, <2>3, Lineage
  <2>5. Family(job[k].tok)' = Family(t)' /\ Family(store.access)' = Family(a)'
    BY <2>2, <2>3 DEF Family
  <2> QED BY <2>2, <2>3, <2>4, <2>5
<1> QED BY <1>1, <1>2, <1>3 DEF Kept

\* A call goes on, or is over, and the keychain is as it was.
LEMMA KeptMoves ==
    ASSUME Types, Fading, Kept, UNCHANGED <<gen, store, persistent, volatile, disk>>, NEW j \in Jobs,
           Elsewhere(j), pc[j] # "unkept",
           pc'[j] \in Storing => pc[j] \in Storing /\ job'[j].gen = job[j].gen /\ job'[j].new = job[j].new,
           \/ pc'[j] = "idle" \/ job'[j].op # "refresh" \/ job'[j].tok \in {0, CurrentToken}
           \/ /\ pc[j] # "idle"
              /\ job'[j].op = job[j].op /\ job'[j].gen = job[j].gen /\ job'[j].tok = job[j].tok
    PROVE  Kept'
<1>1. ASSUME NEW k \in Jobs, pc'[k] \in Storing
      PROVE  pc[k] \in Storing /\ job'[k].gen = job[k].gen /\ job'[k].new = job[k].new
  BY <1>1 DEF Elsewhere
<1>2. ASSUME NEW k \in Jobs, Live(k)', job'[k].op = "refresh", job'[k].tok # 0
      PROVE  \/ Live(k) /\ job[k].op = "refresh" /\ job'[k].tok = job[k].tok
             \/ job'[k].tok = CurrentToken
  BY <1>2 DEF Elsewhere, Live, Current
<1>3. Giving => Giving'
  BY DEF Giving, Elsewhere
<1> QED BY <1>1, <1>2, <1>3, KeptStays

\* No call moves.
LEMMA KeptQuiet ==
    ASSUME Types, Fading, Kept, UNCHANGED <<gen, store, persistent, volatile, disk, pc>>,
           \A k \in Jobs : /\ job'[k].op = job[k].op /\ job'[k].gen = job[k].gen
                           /\ job'[k].tok = job[k].tok /\ job'[k].new = job[k].new
    PROVE  Kept'
<1>1. (\A k \in Jobs : Live(k)' <=> Live(k)) /\ (Giving' <=> Giving)
  BY DEF Live, Current, Giving
<1> QED BY <1>1, KeptStays

\* Somebody leaves the screen.
LEMMA KeptDims ==
    ASSUME Types, Kept, NEW j \in Jobs, Elsewhere(j), pc'[j] \notin Storing,
           UNCHANGED <<gen, persistent, volatile, disk>>,
           store'.status # "authenticated", store'.access = 0
    PROVE  Kept'
<1>1. ASSUME NEW k \in Jobs, pc'[k] \in Storing PROVE job'[k].gen # gen' \/ Stored(job[k].new)'
  <2>1. pc[k] \in Storing /\ job'[k] = job[k]
    BY <1>1 DEF Elsewhere
  <2>2. Current(k) => Stored(job[k].new)
    BY <2>1 DEF Kept
  <2> QED BY <2>1, <2>2 DEF Current, Stored
<1> QED BY <1>1, KeptDark

\* The screen of nobody.
LEMMA Dark ==
    /\ SignedOut.status # "authenticated" /\ SignedOut.access = 0 /\ SignedOut.status = "anonymous"
    /\ SignedOut.user = None
    /\ \A j : Restored(j).status # "authenticated" /\ Restored(j).access = 0
  BY DEF SignedOut, Restored

LEMMA StartKept == ASSUME Types, Fading, Kept, NEW j \in Jobs, Start(j) PROVE Kept'
<1>1. CASE Hydrate(j)
  <2>1. Anew(j, "hydrate", "read", gen + 1)
    BY <1>1, Beginnings
  <2>2. gen' = gen + 1 /\ store'.status # "authenticated" /\ store'.access = 0
    BY <1>1 DEF Hydrate, Transition
  <2> QED BY <2>1, <2>2, KeptTransition DEF Anew, Storing
<1>2. CASE Resume(j)
  <2>1. Anew(j, "refresh", "read", gen) /\ UNCHANGED <<gen, store, persistent, volatile, disk>>
    BY <1>2, Beginnings DEF Resume, keychain
  <2> QED BY <2>1, KeptMoves DEF Anew, Bare, Storing
<1>3. CASE Login(j)
  <2>1. Anew(j, "login", "clear", gen + 1)
    BY <1>3, Beginnings
  <2>2. gen' = gen + 1 /\ store' = SignedOut
    BY <1>3 DEF Login, Transition
  <2> QED BY <2>1, <2>2, Dark, KeptTransition DEF Anew, Storing
<1>4. CASE Logout(j)
  <2>1. Anew(j, "logout", "read", gen) /\ UNCHANGED <<gen, store, persistent, volatile, disk>>
    BY <1>4, Beginnings DEF Logout, keychain, memory
  <2> QED BY <2>1, KeptMoves DEF Anew, Bare, Storing
<1>5. CASE Reset(j)
  <2>1. Anew(j, "clear", "clear", gen + 1)
    BY <1>5, Beginnings DEF Reset
  <2>2. gen' = gen + 1 /\ store' = SignedOut
    BY <1>5 DEF Reset, StartClear, Transition
  <2> QED BY <2>1, <2>2, Dark, KeptTransition DEF Anew, Storing
<1> QED BY <1>1, <1>2, <1>3, <1>4, <1>5 DEF Start

LEMMA InvalidateKept == ASSUME Types, NEW j \in Jobs, Invalidate(j) PROVE Kept'
  BY InvalidateGoes, Dark, KeptTransition DEF Storing

LEMMA SettleKept ==
    ASSUME Types, Fading, Kept, NEW j \in Jobs, NEW tok, Settle(j, tok), pc[j] # "unkept",
           UNCHANGED <<gen, store, persistent, volatile, disk>>
    PROVE  Kept'
  BY SettleGoes, KeptMoves DEF Storing

LEMMA ReadTokenKept == ASSUME Types, Fading, Kept, NEW j \in Jobs, ReadToken(j) PROVE Kept'
<1>1. pc[j] = "read" /\ job[j].op \in {"hydrate", "refresh"} /\ UNCHANGED <<persistent, volatile, disk>>
  BY DEF ReadToken, Quiet, keychain
<1>2. CASE GiveUp(j)
  BY <1>1, <1>2, SettleKept DEF GiveUp
<1>3. CASE job[j].op = "hydrate" /\ Goto(j, "clear") /\ UNCHANGED <<gen, inFlight, store, job, api>>
  BY <1>1, <1>3, Goes, KeptMoves DEF Storing
<1>4. CASE Invalidate(j)
  BY <1>1, <1>4, InvalidateKept
<1>5. CASE job' = [job EXCEPT ![j].tok = CurrentToken]
           /\ Goto(j, IF job[j].op = "hydrate" THEN "copy" ELSE "sent")
           /\ UNCHANGED <<gen, inFlight, store, credQ, api>>
  <2>1. PICK p \in {"copy", "sent"} : p = IF job[j].op = "hydrate" THEN "copy" ELSE "sent"
    OBVIOUS
  <2>2. PICK c : c = CurrentToken
    OBVIOUS
  <2>3. pc'[j] = p /\ Elsewhere(j) /\ job'[j].tok = CurrentToken
    <3>1. Goto(j, p) /\ job' = [job EXCEPT ![j].tok = c]
      BY <1>5, <2>1, <2>2
    <3>2. pc'[j] = p /\ Same(j) /\ job'[j].tok = c
      BY <3>1, ReadTokenGoes
    <3> QED BY <2>2, <3>2 DEF Same
  <2> QED BY <1>1, <1>5, <2>1, <2>3, KeptMoves DEF Storing
<1> QED BY <1>2, <1>3, <1>4, <1>5 DEF ReadToken

LEMMA FailsKept ==
    ASSUME Types, Fading, Kept, NEW j \in Jobs, Fails(j), pc[j] = "answered",
           UNCHANGED <<persistent, volatile, disk>>
    PROVE  Kept'
<1>1. CASE GiveUp(j)
  BY <1>1, SettleKept DEF GiveUp
<1>2. CASE Invalidate(j)
  BY <1>2, InvalidateKept
<1>3. CASE Settle(j, 0) /\ UNCHANGED <<gen, credQ>> /\ store' = Restored(j)
  BY <1>3, SettleGoes, Dark, KeptDims DEF Storing
<1> QED BY <1>1, <1>2, <1>3 DEF Fails

LEMMA AskingKept ==
    ASSUME Types, Fading, Kept, NEW j \in Jobs,
           ReadTokenFails(j) \/ ReadCopy(j) \/ Serve(j) \/ LoseAnswer(j) \/ Receive(j)
    PROVE  Kept'
<1>1. CASE ReadTokenFails(j)
  <2>1. Settle(j, 0) /\ UNCHANGED <<gen, persistent, volatile, disk>> /\ pc[j] = "read"
    BY <1>1 DEF ReadTokenFails, keychain
  <2>2. CASE store' = store
    BY <2>1, <2>2, SettleKept
  <2>3. CASE store' = [status |-> "restore_error", access |-> 0, user |-> None]
    BY <2>1, <2>3, SettleGoes, KeptDims DEF Storing
  <2> QED BY <1>1, <2>2, <2>3 DEF ReadTokenFails
<1>2. CASE ReadCopy(j)
  <2>1. UNCHANGED <<gen, store, persistent, volatile, disk>> /\ pc[j] = "copy"
    BY <1>2 DEF ReadCopy, memory, keychain
  <2> QED BY <1>2, <2>1, ReadCopyGoes, KeptMoves DEF Same, Storing
<1>3. CASE Serve(j)
  <2>1. UNCHANGED <<gen, store, persistent, volatile, disk>> /\ pc[j] = "sent"
    BY <1>3 DEF Serve, memory, keychain
  <2> QED BY <1>3, <2>1, ServeGoes, KeptMoves DEF Same, Storing
<1>4. CASE LoseAnswer(j)
  <2>1. UNCHANGED <<gen, store, persistent, volatile, disk>> /\ pc[j] = "answered"
    BY <1>4 DEF LoseAnswer, memory, keychain
  <2> QED BY <1>4, <2>1, LoseAnswerGoes, KeptMoves DEF Same, Storing
<1>5. CASE Receive(j)
  <2>1. pc[j] = "answered" /\ UNCHANGED <<persistent, volatile, disk>>
    BY <1>5 DEF Receive, Quiet, keychain
  <2>2. CASE Goto(j, "accept") /\ UNCHANGED <<gen, inFlight, store, job, api>>
    BY <2>1, <2>2, Goes, KeptMoves DEF Storing
  <2>3. CASE Fails(j)
    BY <2>1, <2>3, FailsKept
  <2> QED BY <1>5, <2>2, <2>3 DEF Receive
<1> QED BY <1>1, <1>2, <1>3, <1>4, <1>5

\* A pair that is accepted while a session is on screen renews that session.
LEMMA Renews ==
    ASSUME Types, Turns, Kept, NEW j \in Jobs, pc[j] = "accept", Current(j), store.status = "authenticated"
    PROVE  /\ job[j].op = "refresh" /\ job[j].new \in Held /\ job[j].new # 0
           /\ Family(job[j].new) = Family(store.access)
<1>1. Live(j) /\ Shows(j) /\ job[j].new \in Held /\ job[j].op \in {"hydrate", "refresh", "login"}
  BY Paired DEF Turns, Live
<1>2. job[j].op = "refresh"
  BY <1>1 DEF Shows
<1>3. job[j].new # 0
  BY Here DEF Fits, Asking
<1>4. job[j].tok # 0 /\ Family(job[j].new) = Family(job[j].tok)
  BY <1>2, <1>3, Here DEF Bred, Family
<1>5. Family(job[j].tok) = Family(store.access)
  BY <1>1, <1>2, <1>4 DEF Kept
<1> QED BY <1>1, <1>2, <1>3, <1>4, <1>5

LEMMA AcceptKept == ASSUME Types, Turns, Fading, Kept, NEW j \in Jobs, Accept(j) PROVE Kept'
<1>0. UNCHANGED <<gen, persistent, store, job, issued>> /\ pc[j] = "accept" /\ Turn(j)
  BY DEF Accept, server
<1>1. PICK t \in Held : t = job[j].new /\ t # 0
  BY <1>0, Paired, Here DEF Fits, Asking
<1>2. CASE ~Current(j) /\ Goto(j, "reject") /\ UNCHANGED <<volatile, disk>>
  BY <1>0, <1>2, Goes, KeptMoves DEF Storing
<1>3. CASE /\ Current(j)
           /\ \/ WriteToken(t) /\ Goto(j, "written")
              \/ WriteTokenFails(t) /\ Goto(j, "unwritten")
  <2>1. PICK p \in {"written", "unwritten"} : Goto(j, p) /\ (p = "written" => WriteToken(t))
    BY <1>3
  <2>2. pc'[j] = p /\ Elsewhere(j)
    BY <1>0, <2>1, Goes
  <2>0. ~Giving
    BY <1>0, Alone DEF Giving, HoldsLock
  <2>3. /\ \A x \in {disk', volatile'} \ {0} : x = t \/ x = disk
        /\ persistent => volatile' = 0
        /\ WriteToken(t) => Stored(t)'
        /\ CurrentToken # 0 /\ (persistent => volatile = 0) => CurrentToken' # 0
    BY <1>0, <1>1, <1>3 DEF WriteToken, WriteTokenFails, Stored, CurrentToken
  <2>4. ASSUME NEW k \in Jobs, pc'[k] \in Storing PROVE Stored(job[k].new)' /\ Current(k)'
    <3>1. k = j
      BY <1>0, <2>2, <2>4, Alone DEF Elsewhere, Storing, HoldsLock
    <3>2. p = "written"
      BY <2>2, <2>4, <3>1 DEF Storing
    <3> QED BY <1>0, <1>1, <1>3, <2>1, <2>3, <3>1, <3>2 DEF Stored, Current
  <2>5. CASE store.status # "authenticated"
    BY <1>0, <2>4, <2>5, KeptDark DEF Kept
  <2>6. CASE store.status = "authenticated"
    <3>1. job[j].op = "refresh" /\ Family(t) = Family(store.access)
      BY <1>0, <1>1, <1>3, <2>6, Renews
    <3>2. SignedIn
      BY <2>6 DEF Kept
    <3>3. \A x \in {disk', volatile'} \ {0} : Family(x) = Family(store.access)
      BY <2>3, <3>1, <3>2 DEF SignedIn
    <3>4. SignedIn'
      BY <1>0, <2>0, <2>3, <3>2, <3>3 DEF SignedIn, Family, Owner
    <3>5. ASSUME NEW k \in Jobs, Live(k)', job[k].op = "refresh", job[k].tok # 0
          PROVE  Family(job[k].tok) = Family(store.access)
      <4>1. Live(k)
        BY <1>0, <2>2, <3>5 DEF Live, Current, Elsewhere
      <4> QED BY <2>6, <3>5, <4>1 DEF Kept
    <3>6. \A k \in Jobs : Live(k)' /\ job'[k].op = "refresh" /\ job'[k].tok # 0
          => Family(job[k].tok)' = Family(store.access)'
      BY <1>0, <3>5 DEF Family
    <3> QED BY <1>0, <2>4, <2>6, <3>4, <3>6 DEF Kept
  <2> QED BY <2>5, <2>6
<1>4. \/ ~Current(j) /\ Goto(j, "reject") /\ UNCHANGED <<volatile, disk>>
      \/ Current(j) /\ WriteToken(t) /\ Goto(j, "written")
      \/ Current(j) /\ WriteTokenFails(t) /\ Goto(j, "unwritten")
  BY <1>1 DEF Accept
<1> QED BY <1>2, <1>3, <1>4

\* Nothing is on screen while a superseded pair is taken back.
LEMMA TakeBackKept ==
    ASSUME Types, Kept, NEW j \in Jobs, pc[j] \in Storing, ~Current(j), TakeBack(j), UNCHANGED <<store, job>>
    PROVE  Kept'
<1>1. store.status # "authenticated" /\ store.access = 0
  BY DEF Kept
<1>2. Turn(j)
  BY Here DEF Storing, HoldsLock
<1>3. pc'[j] = "reject" /\ Elsewhere(j)
  BY Goes DEF TakeBack
<1> QED BY <1>1, <1>2, <1>3, KeptLocked DEF Storing

LEMMA CopiedKept == ASSUME Types, Turns, Fading, Kept, NEW j \in Jobs, Copied(j) PROVE Kept'
<1>0. pc[j] = "copied" /\ UNCHANGED issued
  BY DEF Copied, server
<1>1. CASE ~Current(j) /\ TakeBack(j) /\ UNCHANGED <<store, job>>
  BY <1>0, <1>1, TakeBackKept DEF Storing
<1>2. CASE /\ Current(j)
           /\ store' = [status |-> "authenticated", access |-> job[j].new, user |-> Owner(job[j].new)]
           /\ Settle(j, job[j].new) /\ UNCHANGED <<gen, persistent, volatile, disk>>
  <2>1. PICK t \in Held : t = job[j].new /\ t # 0
    BY <1>0, Paired, Here DEF Fits, Asking
  <2>2. Stored(t)
    BY <1>0, <1>2, <2>1 DEF Kept, Storing
  <2>3. store'.status = "authenticated" /\ store'.access = t /\ store'.user = Owner(t)
    BY <1>2, <2>1
  <2>4. /\ CurrentToken' # 0 /\ (persistent' => volatile' = 0) /\ \A x \in {disk', volatile'} \ {0} : x = t
    BY <1>2, <2>1, <2>2 DEF Stored, CurrentToken
  <2>5. SignedIn'
    <3>1. store'.user = Owner(store.access)'
      BY <1>0, <2>3 DEF Owner
    <3>2. \A x \in {disk', volatile'} \ {0} : Family(x)' = Family(store.access)'
      BY <1>0, <2>3, <2>4 DEF Family
    <3> QED BY <2>1, <2>3, <2>4, <3>1, <3>2 DEF SignedIn
  <2>6. pc'[j] = "idle" /\ Elsewhere(j)
    BY <1>2, SettleGoes
  <2>7. Live(j) /\ Turn(j)
    BY <1>0, <1>2, Here DEF Live, HoldsLock
  <2>8. \A k \in Jobs : ~Live(k)' /\ pc'[k] \notin Storing
    <3>1. pc'[j] \notin Storing /\ ~Live(j)'
      BY <2>6 DEF Storing, Live
    <3>2. ASSUME NEW k \in Jobs \ {j} PROVE ~Live(k)' /\ pc'[k] \notin Storing
      <4>1. ~Live(k) /\ pc[k] \notin Storing
        BY <2>7, Alone DEF Turns, Storing, HoldsLock
      <4> QED BY <1>2, <2>6, <4>1 DEF Live, Current, Elsewhere
    <3> QED BY <3>1, <3>2
  <2> QED BY <2>3, <2>5, <2>8 DEF Kept
<1> QED BY <1>1, <1>2 DEF Copied

\* A call whose write failed gives the session up: first the keychain, then the
\* screen.
LEMMA UnwrittenKept == ASSUME Types, Turns, Fading, Kept, NEW j \in Jobs, Unwritten(j) PROVE Kept'
<1>1. UNCHANGED <<gen, persistent, issued>> /\ pc[j] = "unwritten" /\ Turn(j)
  <2>1. UNCHANGED <<gen, persistent, issued>> /\ pc[j] = "unwritten"
    BY DEF Unwritten, server
  <2> QED BY <2>1, Here DEF HoldsLock
<1>2. CASE RemoveStored /\ Goto(j, "unkept") /\ UNCHANGED <<store, job>>
  <2>1. pc'[j] = "unkept" /\ Elsewhere(j)
    BY <1>2, Goes
  <2>2. CASE store.status # "authenticated"
    <3>1. store.access = 0
      BY <2>2 DEF Kept
    <3> QED BY <1>1, <1>2, <2>1, <2>2, <3>1, KeptLocked DEF Storing
  <2>3. CASE store.status = "authenticated"
    <3>1. SignedIn /\ volatile' = 0 /\ disk' \in {0, disk} /\ Giving'
      BY <1>2, <2>1, <2>3 DEF Kept, RemoveStored, Giving
    <3>2. SignedIn'
      BY <1>1, <1>2, <3>1 DEF SignedIn, Family, Owner
    <3>3. \A k \in Jobs : pc'[k] \notin Storing
      <4>1. ASSUME NEW k \in Jobs \ {j} PROVE pc'[k] \notin Storing
        BY <1>1, <2>1, Alone DEF Elsewhere, Storing, HoldsLock
      <4> QED BY <2>1, <4>1 DEF Storing
    <3>4. ASSUME NEW k \in Jobs, Live(k)', job[k].op = "refresh", job[k].tok # 0
          PROVE  Family(job[k].tok) = Family(store.access)
      <4>1. Live(k)
        BY <1>1, <1>2, <2>1, <3>4 DEF Live, Current, Elsewhere
      <4> QED BY <2>3, <3>4, <4>1 DEF Kept
    <3>5. \A k \in Jobs : Live(k)' /\ job'[k].op = "refresh" /\ job'[k].tok # 0
          => Family(job[k].tok)' = Family(store.access)'
      BY <1>1, <1>2, <3>4 DEF Family
    <3> QED BY <1>2, <2>3, <3>2, <3>3, <3>5 DEF Kept
  <2> QED BY <2>2, <2>3
<1>3. CASE Settle(j, 0) /\ UNCHANGED <<volatile, disk>> /\ store' \in {store, Restored(j)}
  <2>1. CASE store' = store
    BY <1>1, <1>3, <2>1, SettleKept
  <2>2. CASE store' = Restored(j)
    BY <1>1, <1>3, <2>2, SettleGoes, Dark, KeptLocked DEF Storing
  <2> QED BY <1>3, <2>1, <2>2
<1> QED BY <1>2, <1>3 DEF Unwritten

LEMMA AcceptingKept ==
    ASSUME Types, Turns, Fading, Kept, NEW j \in Jobs, Written(j) \/ Reject(j) \/ Unkept(j)
    PROVE  Kept'
<1>1. CASE Written(j)
  <2>1. UNCHANGED <<gen, persistent, store, job>> /\ pc[j] = "written"
    BY <1>1 DEF Written
  <2>2. CASE Goto(j, "copied") /\ UNCHANGED <<volatile, disk>>
    BY <2>1, <2>2, Goes, KeptMoves DEF Storing
  <2>3. CASE ~Current(j) /\ TakeBack(j)
    BY <2>1, <2>3, TakeBackKept DEF Storing
  <2> QED BY <1>1, <2>2, <2>3 DEF Written
<1>2. CASE Reject(j)
  BY <1>2, SettleKept DEF Reject, keychain
<1>3. CASE Unkept(j)
  <2>1. Settle(j, 0) /\ pc[j] = "unkept" /\ store' \in {SignedOut, Restored(j)}
    BY <1>3 DEF Unkept
  <2>2. pc'[j] = "idle" /\ Elsewhere(j) /\ Turn(j)
    BY <2>1, SettleGoes, Here DEF HoldsLock
  <2> QED BY <2>1, <2>2, Dark, KeptLocked DEF Storing
<1> QED BY <1>1, <1>2, <1>3

LEMMA AfterClearKept ==
    ASSUME Types, Turns, Fading, Kept, NEW j \in Jobs, Turn(j), AfterClear(j),
           UNCHANGED <<gen, volatile, disk>>,
           store' = store \/ store' = SignedOut, pc[j] \in Clearing
    PROVE  Kept'
<1>1. pc'[j] \notin Storing /\ Elsewhere(j)
  <2>1. CASE UNCHANGED job /\ (Goto(j, "sent") \/ Goto(j, "join"))
    BY <2>1, Goes DEF Storing
  <2>2. CASE Settle(j, 0)
    BY <2>2, SettleGoes DEF Storing
  <2> QED BY <2>1, <2>2 DEF AfterClear
<1>2. CASE store' = SignedOut
  BY <1>1, <1>2, Dark, KeptLocked
<1>3. CASE store' = store /\ job[j].op = "login"
  <2>1. store'.status # "authenticated" /\ store'.access = 0
    BY <1>3 DEF Turns, Kept
  <2> QED BY <1>1, <2>1, KeptLocked
<1>4. CASE store' = store /\ job[j].op # "login"
  <2>1. UNCHANGED persistent
    BY <1>4 DEF AfterClear
  <2>2. CASE UNCHANGED job /\ Goto(j, "join")
    BY <1>1, <1>4, <2>1, <2>2, Goes, KeptMoves DEF Storing, Clearing
  <2>3. CASE Settle(j, 0)
    BY <1>4, <2>1, <2>3, SettleKept DEF Clearing
  <2> QED BY <1>4, <2>2, <2>3 DEF AfterClear
<1> QED BY <1>2, <1>3, <1>4

LEMMA ClearingKept ==
    ASSUME Types, Turns, Fading, Kept, NEW j \in Jobs, Clear(j) \/ Wiped(j) \/ LeaveSession(j) \/ Join(j)
    PROVE  Kept'
<1>1. CASE Clear(j)
  <2>1. UNCHANGED <<gen, store>> /\ pc[j] = "clear" /\ Turn(j)
    BY <1>1 DEF Clear
  <2>2. CASE Current(j) /\ Goto(j, "wiped") /\ UNCHANGED job
    <3>1. Live(j) /\ Shows(j) /\ job[j].op \in OpNames
      <4>1. Live(j)
        BY <2>1, <2>2 DEF Live
      <4>2. job[j].op # "none" /\ job[j] \in JobSet(Named)
        BY <2>1, Idle, Here
      <4> QED BY <4>1, <4>2 DEF Turns, JobSet
    <3>2. store.status # "authenticated" /\ store.access = 0
      BY <2>1, <3>1 DEF Shows, OpNames, Kept
    <3> QED BY <2>1, <2>2, <3>2, Goes, KeptLocked DEF Storing
  <2>3. CASE AfterClear(j) /\ UNCHANGED <<volatile, disk>>
    BY <2>1, <2>3, AfterClearKept DEF Clearing
  <2> QED BY <1>1, <2>2, <2>3 DEF Clear
<1>2. CASE Wiped(j)
  <2>1. UNCHANGED <<gen, volatile, disk>> /\ pc[j] = "wiped" /\ AfterClear(j)
        /\ (store' = store \/ store' = SignedOut)
    BY <1>2 DEF Wiped, keychain
  <2>2. Turn(j)
    BY <2>1, Here DEF HoldsLock
  <2> QED BY <2>1, <2>2, AfterClearKept DEF Clearing
<1>3. CASE LeaveSession(j)
  BY <1>3, LeaveSessionGoes, Dark, KeptTransition DEF Storing
<1>4. CASE Join(j)
  BY <1>4, SettleKept DEF Join, keychain
<1> QED BY <1>1, <1>2, <1>3, <1>4

LEMMA ApiStepKept == ASSUME Types, Turns, Fading, Kept, ApiStep PROVE Kept'
<1>1. CASE Ask \/ ApiServe \/ Refuse \/ Retry \/ ApiDone
  <2>1. UNCHANGED <<memory, jobs, keychain>>
    BY <1>1 DEF Ask, ApiServe, Refuse, Retry, ApiDone
  <2> QED BY <2>1, KeptQuiet DEF memory, jobs, keychain
<1>2. CASE Deliver
  <2>1. UNCHANGED <<persistent, volatile, disk>>
    BY <1>2 DEF Deliver, ApiOnly, keychain
  <2>2. CASE UNCHANGED <<gen, inFlight, store, jobs>>
    BY <2>1, <2>2, KeptQuiet DEF jobs
  <2>3. ASSUME NEW j \in Jobs, StartClear(j) PROVE Kept'
    <3>1. Anew(j, "clear", "clear", gen + 1)
      BY <2>3, Beginnings
    <3>2. gen' = gen + 1 /\ store' = SignedOut
      BY <2>3 DEF StartClear, Transition
    <3> QED BY <3>1, <3>2, Dark, KeptTransition DEF Anew, Storing
  <2> QED BY <1>2, <2>2, <2>3 DEF Deliver
<1>3. CASE RefreshFirst
  <2>1. UNCHANGED keychain
    BY <1>3 DEF RefreshFirst
  <2>2. CASE UNCHANGED <<memory, jobs>>
    BY <2>1, <2>2, KeptQuiet DEF memory, jobs, keychain
  <2>3. ASSUME NEW j \in Jobs, StartRefresh(j), UNCHANGED <<gen, persistent, store, volatile, booted, credQ>>
        PROVE  Kept'
    <3>1. Anew(j, "refresh", "read", gen)
      BY <2>3, Beginnings
    <3> QED BY <2>1, <2>3, <3>1, KeptMoves DEF Anew, Bare, Storing, keychain
  <2> QED BY <1>3, <2>2, <2>3 DEF RefreshFirst
<1> QED BY <1>1, <1>2, <1>3 DEF ApiStep

LEMMA InitKept == Init => Kept
<1>1. NoJob.op = "none"
  BY DEF NoJob
<1> QED BY <1>1 DEF Init, Kept, Storing

\* The step of the induction.
LEMMA NextKept == Types /\ Turns /\ Kept /\ [Next]_vars => Kept'
<1> SUFFICES ASSUME Types, Turns, Kept, [Next]_vars PROVE Kept'
  OBVIOUS
<1>0. Fading
  BY ServerFades
<1>1. CASE \E j \in Jobs : Start(j)
  BY <1>0, <1>1, StartKept
<1>2. CASE \E j \in Jobs : Step(j)
  BY <1>0, <1>2, ReadTokenKept, AskingKept, AcceptKept, CopiedKept, UnwrittenKept, AcceptingKept,
     ClearingKept DEF Step
<1>3. CASE RevokeStep
  <2>1. UNCHANGED <<gen, store, persistent, volatile, disk, pc>>
    BY <1>3, RevokeStepGoes DEF memory
  <2> QED BY <1>0, <1>3, <2>1, RevokeStepGoes, KeptQuiet
<1>4. CASE ApiStep
  BY <1>0, <1>4, ApiStepKept
<1>5. CASE Foreground \/ EndElsewhere \/ UNCHANGED vars
  <2>1. UNCHANGED <<memory, jobs, keychain>>
    BY <1>5 DEF Foreground, EndElsewhere, vars
  <2> QED BY <1>0, <2>1, KeptQuiet DEF memory, jobs, keychain
<1>6. CASE GoOffline
  <2>1. UNCHANGED <<gen, persistent, volatile, disk, pc, job>>
    BY <1>6 DEF GoOffline, jobs, keychain
  <2>2. store'.status # "authenticated" /\ store'.access = 0
    BY <1>6, Sworn DEF GoOffline, StoreSet
  <2>3. \A k \in Jobs : pc'[k] \in Storing => job'[k].gen # gen' \/ Stored(job[k].new)'
    BY <2>1 DEF Kept, Current, Stored
  <2> QED BY <2>2, <2>3, KeptDark
<1>7. CASE Crash
  <2>1. store'.status # "authenticated" /\ store'.access = 0 /\ \A k \in Jobs : pc'[k] \notin Storing
    BY <1>7, CrashGoes DEF Crash, Storing
  <2> QED BY <2>1, KeptDark
<1> QED BY <1>1, <1>2, <1>3, <1>4, <1>5, <1>6, <1>7 DEF Next

\* Whoever is on screen, the token of the next rotation is of the same sign-in.
THEOREM ShownIsStored == Spec => []SignedInIsStored
<1>1. Types /\ Kept => SignedInIsStored
  <2> SUFFICES ASSUME Types, Kept, store.status = "authenticated", ~Giving
               PROVE  /\ CurrentToken # 0 /\ store.access # 0
                      /\ Family(CurrentToken) = Family(store.access) /\ store.user = Owner(store.access)
    BY DEF SignedInIsStored
  <2>1. SignedIn
    BY DEF Kept
  <2> QED BY <2>1 DEF SignedIn, CurrentToken
<1>2. Init => Types /\ Turns /\ Kept
  BY InitTypes, InitTurns, InitKept
<1>3. Types /\ Turns /\ Kept /\ [Next]_vars => Types' /\ Turns' /\ Kept'
  BY NextTypes, NextTurns, NextKept
<1> QED BY <1>1, <1>2, <1>3, PTL DEF Spec

-----------------------------------------------------------------------------
(* A session signed out of stays out. *)

\* A family is for good.
LEMMA AwayStays ==
    ASSUME Types, Fading, UNCHANGED left, NEW t \in Named, Away(t)
    PROVE  Away(t)'
  BY Lineage DEF Away

\* A call with nothing of its own.
LEMMA BareAway ==
    ASSUME NEW j \in Jobs, job'[j].tok = 0, job'[j].copy = 0, job'[j].new = 0
    PROVE  Away(job[j].tok)' /\ Away(job[j].copy)' /\ Away(job[j].new)'
  BY DEF Away

\* What is in the keychain and on screen, where a step writes nothing new.
StoresNothingNew ==
    /\ disk' \in {disk, 0} /\ volatile' \in {volatile, 0} /\ cached' \in {cached, 0}
    /\ store'.access \in {store.access, 0}

\* What a step does not write it cannot bring back.
LEMMA NothingNew ==
    ASSUME Types, Fading, StaysOut, UNCHANGED left, StoresNothingNew
    PROVE  StoredAway'
<1>1. \A t \in {disk, volatile, cached, store.access} : t \in Named /\ Away(t)
  BY Sworn DEF StaysOut, StoredAway, StoreSet
<1>2. \A t \in {disk, volatile, cached, store.access, 0} : Away(t)'
  <2>1. \A t \in {disk, volatile, cached, store.access} : Away(t)'
    BY <1>1, AwayStays
  <2>2. \A t : t = 0 => Away(t)'
    BY DEF Away
  <2> QED BY <2>1, <2>2
<1>3. \A t \in {disk', volatile', cached', store'.access} : Away(t)'
  BY <1>2 DEF StoresNothingNew
<1> QED BY <1>3 DEF StoredAway, Away

\* What a call holds.
LEMMA HeldAway ==
    ASSUME Types, Fading, StaysOut, UNCHANGED left, NEW k \in Jobs, Live(k)' => Live(k),
           pc'[k] = pc[k] \/ pc[k] \notin Past \/ pc'[k] \in Past,
           job'[k].tok = job[k].tok, job'[k].copy = job[k].copy, job'[k].new = job[k].new
    PROVE  HoldsAway(k)'
<1> SUFFICES ASSUME Live(k)', pc'[k] \notin Past
             PROVE  Away(job[k].tok)' /\ Away(job[k].copy)' /\ Away(job[k].new)'
  BY DEF HoldsAway
<1>1. \A t \in {job[k].tok, job[k].copy, job[k].new} : t \in Named /\ Away(t)
  BY Here DEF StaysOut, HoldsAway, JobSet
<1>2. \A t \in {job[k].tok, job[k].copy, job[k].new} : Away(t)'
  BY <1>1, AwayStays
<1> QED BY <1>2 DEF Away

\* While one call empties the keychain no other one of this generation is past
\* its place in the chain.
LEMMA WipedAlone ==
    ASSUME Types, StaysOut, NEW j \in Jobs, NEW k \in Jobs \ {j}, pc[k] = "wiped", Turn(j) \/ pc[j] # "clear"
    PROVE  ~Live(j)
<1>1. Turn(j) => k = j
  BY Alone DEF HoldsLock
<1> QED BY <1>1 DEF StaysOut, WipesAlone

\* A step of a call, in its generation.
LEMMA OutMoves ==
    ASSUME Types, Fading, StaysOut, UNCHANGED <<left, gen>>, NEW j \in Jobs, Elsewhere(j), pc'[j] # "wiped",
           StoredAway', HoldsAway(j)',
           \/ \A k \in Jobs : pc[k] # "wiped"
           \/ /\ Live(j)' => Live(j)
              /\ Turn(j) \/ pc[j] # "clear"
              /\ store'.status \in {store.status, "anonymous"} \/ Live(j)
    PROVE  StaysOut'
<1>1. \A k \in Jobs \ {j} : (Live(k)' <=> Live(k)) /\ pc'[k] = pc[k] /\ job'[k] = job[k]
  BY DEF Live, Current, Elsewhere
<1>2. \A k \in Jobs : HoldsAway(k)'
  BY <1>1, HeldAway
<1>3. ASSUME NEW k \in Jobs, pc'[k] = "wiped"
      PROVE  /\ store'.status \in {"loading", "anonymous"}
             /\ \A l \in Jobs \ {k} : Live(l)' => pc'[l] = "clear"
  <2>1. k # j /\ pc[k] = "wiped"
    BY <1>1, <1>3
  <2>2. ~Live(j) /\ ~Live(j)' /\ store'.status \in {store.status, "anonymous"}
    BY <2>1, WipedAlone
  <2> QED BY <1>1, <2>1, <2>2 DEF StaysOut, WipesAlone
<1> QED BY <1>2, <1>3 DEF StaysOut, WipesAlone

\* A call that is over.
LEMMA OutSettles ==
    ASSUME Types, Fading, StaysOut, UNCHANGED <<left, gen>>, NEW j \in Jobs, NEW tok, Settle(j, tok),
           StoredAway', Turn(j) \/ pc[j] # "clear",
           store'.status \in {store.status, "anonymous"} \/ Live(j)
    PROVE  StaysOut'
<1>1. pc'[j] = "idle" /\ Elsewhere(j) /\ ~Live(j)'
  BY SettleGoes DEF Live
<1> QED BY <1>1, OutMoves DEF HoldsAway

\* A new generation holds nothing.
LEMMA OutTransition ==
    ASSUME Types, Fading, StaysOut, UNCHANGED left, NEW j \in Jobs, gen' = gen + 1, Elsewhere(j),
           StoresNothingNew, store'.status \in {"loading", "anonymous"},
           \/ pc'[j] = "clear"
           \/ /\ \A k \in Jobs : pc[k] # "wiped"
              /\ pc'[j] = "read" /\ job'[j].tok = 0 /\ job'[j].copy = 0 /\ job'[j].new = 0
    PROVE  StaysOut'
<1>1. \A k \in Jobs \ {j} : ~Live(k)'
  BY OldGenerations
<1>2. \A k \in Jobs : HoldsAway(k)'
  BY <1>1, BareAway DEF HoldsAway, Past
<1>3. ASSUME NEW k \in Jobs, pc'[k] = "wiped"
      PROVE  \A l \in Jobs \ {k} : Live(l)' => pc'[l] = "clear"
  BY <1>1, <1>3 DEF Elsewhere
<1>4. StoredAway'
  BY NothingNew
<1> QED BY <1>2, <1>3, <1>4 DEF StaysOut, WipesAlone

\* No call moves.
LEMMA OutQuiet ==
    ASSUME Types, Fading, StaysOut, UNCHANGED <<left, gen, pc>>, StoresNothingNew,
           store'.status = store.status \/ store.status \notin {"loading", "anonymous"},
           \A k \in Jobs : /\ job'[k].op = job[k].op /\ job'[k].gen = job[k].gen /\ job'[k].tok = job[k].tok
                           /\ job'[k].copy = job[k].copy /\ job'[k].new = job[k].new
    PROVE  StaysOut'
<1>1. \A k \in Jobs : Live(k)' <=> Live(k)
  BY DEF Live, Current
<1>2. \A k \in Jobs : HoldsAway(k)'
  BY <1>1, HeldAway
<1>3. ASSUME NEW k \in Jobs, pc[k] = "wiped"
      PROVE  /\ store'.status \in {"loading", "anonymous"}
             /\ \A l \in Jobs \ {k} : Live(l)' => pc'[l] = "clear"
  BY <1>1, <1>3 DEF StaysOut, WipesAlone
<1>4. StoredAway'
  BY NothingNew
<1> QED BY <1>2, <1>3, <1>4 DEF StaysOut, WipesAlone

\* A call does not become current by going on.
LEMMA LiveBefore ==
    ASSUME NEW j \in Jobs, UNCHANGED gen, job'[j].op = job[j].op, job'[j].gen = job[j].gen,
           pc[j] # "idle", ~(job[j].op = "logout" /\ pc[j] = "read")
    PROVE  Live(j)' => Live(j)
  BY DEF Live, Current

\* A call before its acceptance is decided goes on with what it has.
LEMMA OutPass ==
    ASSUME Types, Fading, StaysOut, UNCHANGED <<left, gen, store>>, NEW j \in Jobs, Elsewhere(j),
           pc[j] \notin Past \cup {"idle"}, job[j].op # "logout", pc'[j] # "wiped",
           job'[j].op = job[j].op, job'[j].gen = job[j].gen, job'[j].tok = job[j].tok,
           job'[j].copy = job[j].copy, job'[j].new = job[j].new, StoredAway'
    PROVE  StaysOut'
<1>1. Live(j)' => Live(j)
  BY LiveBefore
<1>2. HoldsAway(j)'
  BY <1>1, HeldAway
<1> QED BY <1>1, <1>2, OutMoves DEF Past

LEMMA StartOut == ASSUME Types, Turns, Kept, Fading, StaysOut, NEW j \in Jobs, Start(j) PROVE StaysOut'
<1>0. store.status \notin {"loading", "anonymous"} \/ ~booted => \A k \in Jobs : pc[k] # "wiped"
  BY DEF StaysOut, WipesAlone, Turns
<1>1. CASE Hydrate(j)
  <2>1. Anew(j, "hydrate", "read", gen + 1)
    BY <1>1, Beginnings
  <2>2. /\ UNCHANGED <<left, disk, volatile, cached>> /\ gen' = gen + 1 /\ store'.status = "loading"
           /\ store'.access = 0
        /\ ~booted \/ CanRetry
    BY <1>1 DEF Hydrate, Transition, keychain, ghosts
  <2>3. \A k \in Jobs : pc[k] # "wiped"
    BY <1>0, <2>2 DEF CanRetry
  <2> QED BY <2>1, <2>2, <2>3, OutTransition DEF Anew, Bare, StoresNothingNew
<1>2. CASE Resume(j)
  <2>1. Anew(j, "refresh", "read", gen)
    BY <1>2, Beginnings DEF Resume
  <2>2. UNCHANGED <<left, gen, store, disk, volatile, cached>> /\ \A k \in Jobs : pc[k] # "wiped"
    BY <1>0, <1>2 DEF Resume, keychain, ghosts
  <2>3. StoredAway'
    BY <2>2, NothingNew DEF StoresNothingNew
  <2> QED BY <2>1, <2>2, <2>3, BareAway, OutMoves DEF Anew, Bare, HoldsAway
<1>3. CASE Login(j)
  <2>1. Anew(j, "login", "clear", gen + 1)
    BY <1>3, Beginnings
  <2>2. UNCHANGED <<left, disk, volatile, cached>> /\ gen' = gen + 1 /\ store' = SignedOut
    BY <1>3 DEF Login, Transition, keychain, ghosts
  <2> QED BY <2>1, <2>2, Dark, OutTransition DEF Anew, StoresNothingNew
<1>4. CASE Logout(j)
  <2>1. Anew(j, "logout", "read", gen)
    BY <1>4, Beginnings
  <2>2. UNCHANGED <<left, gen, store, disk, volatile, cached>> /\ \A k \in Jobs : pc[k] # "wiped"
    BY <1>0, <1>4 DEF Logout, keychain, ghosts, memory
  <2>3. StoredAway'
    BY <2>2, NothingNew DEF StoresNothingNew
  <2> QED BY <2>1, <2>2, <2>3, BareAway, OutMoves DEF Anew, Bare, HoldsAway
<1>5. CASE Reset(j)
  <2>1. Anew(j, "clear", "clear", gen + 1)
    BY <1>5, Beginnings DEF Reset
  <2>2. UNCHANGED <<left, disk, volatile, cached>> /\ gen' = gen + 1 /\ store' = SignedOut
    BY <1>5 DEF Reset, StartClear, Transition, keychain, ghosts
  <2> QED BY <2>1, <2>2, Dark, OutTransition DEF Anew, StoresNothingNew
<1> QED BY <1>1, <1>2, <1>3, <1>4, <1>5 DEF Start

LEMMA InvalidateOut ==
    ASSUME Types, Fading, StaysOut, NEW j \in Jobs, Invalidate(j), UNCHANGED <<left, disk, volatile, cached>>
    PROVE  StaysOut'
  BY InvalidateGoes, Dark, OutTransition DEF StoresNothingNew

LEMMA ReadTokenOut == ASSUME Types, Fading, StaysOut, NEW j \in Jobs, ReadToken(j) PROVE StaysOut'
<1>1. pc[j] = "read" /\ job[j].op \in {"hydrate", "refresh"} /\ UNCHANGED <<left, disk, volatile, cached>>
  BY DEF ReadToken, Quiet, keychain, ghosts
<1>2. store' = store => StoredAway'
  BY <1>1, NothingNew DEF StoresNothingNew
<1>3. CASE GiveUp(j)
  BY <1>1, <1>2, <1>3, OutSettles DEF GiveUp
<1>4. CASE Goto(j, "clear") /\ UNCHANGED <<gen, inFlight, store, job, api>>
  BY <1>1, <1>2, <1>4, Goes, OutPass DEF Past
<1>5. CASE Invalidate(j)
  BY <1>1, <1>5, InvalidateOut
<1>6. CASE job' = [job EXCEPT ![j].tok = CurrentToken]
           /\ Goto(j, IF job[j].op = "hydrate" THEN "copy" ELSE "sent")
           /\ UNCHANGED <<gen, inFlight, store, credQ, api>>
  <2>1. PICK p \in {"copy", "sent"} : p = IF job[j].op = "hydrate" THEN "copy" ELSE "sent"
    OBVIOUS
  <2>2. PICK c \in Named : c = CurrentToken
    BY Sworn
  <2>3. pc'[j] = p /\ Same(j) /\ job'[j].tok = c /\ job'[j].copy = job[j].copy /\ job'[j].new = job[j].new
    <3>1. Goto(j, p) /\ job' = [job EXCEPT ![j].tok = c]
      BY <1>6, <2>1, <2>2
    <3> QED BY <3>1, ReadTokenGoes
  <2>4. Away(c)'
    <3>1. Away(c)
      BY <2>2 DEF StaysOut, StoredAway, CurrentToken
    <3> QED BY <1>1, <3>1, AwayStays
  <2>5. Live(j)' => Live(j)
    BY <1>1, <1>6, <2>3, LiveBefore DEF Same
  <2>6. Live(j) => Away(job[j].copy)' /\ Away(job[j].new)'
    <3>1. \A t \in {job[j].copy, job[j].new} : t \in Named
      BY Here DEF JobSet
    <3>2. Live(j) => \A t \in {job[j].copy, job[j].new} : Away(t)
      BY <1>1 DEF StaysOut, HoldsAway, Past
    <3>3. Live(j) => \A t \in {job[j].copy, job[j].new} : Away(t)'
      BY <1>1, <3>1, <3>2, AwayStays
    <3> QED BY <2>3, <3>3 DEF Away
  <2>7. HoldsAway(j)'
    BY <2>3, <2>4, <2>5, <2>6 DEF HoldsAway, Away
  <2> QED BY <1>1, <1>2, <1>6, <2>3, <2>5, <2>7, OutMoves DEF Same
<1> QED BY <1>3, <1>4, <1>5, <1>6 DEF ReadToken

LEMMA FailsOut ==
    ASSUME Types, Fading, StaysOut, NEW j \in Jobs, Fails(j), UNCHANGED <<left, disk, volatile, cached>>,
           pc[j] = "answered"
    PROVE  StaysOut'
<1>1. store'.access \in {store.access, 0} => StoredAway'
  BY NothingNew DEF StoresNothingNew
<1>2. CASE GiveUp(j)
  BY <1>1, <1>2, OutSettles DEF GiveUp
<1>3. CASE Invalidate(j)
  BY <1>3, InvalidateOut
<1>4. CASE /\ Current(j) /\ job[j].op = "hydrate" /\ Settle(j, 0) /\ UNCHANGED <<gen, credQ>>
           /\ store' = Restored(j)
  <2>1. Live(j) /\ store'.access = 0
    BY <1>4, Dark DEF Live
  <2> QED BY <1>1, <1>4, <2>1, OutSettles
<1> QED BY <1>2, <1>3, <1>4 DEF Fails

\* What the server hands out is of no session signed out of, if what was sent is not.
LEMMA ServeOut == ASSUME Types, Fading, StaysOut, NEW j \in Jobs, Serve(j) PROVE StaysOut'
<1>1. UNCHANGED <<left, gen, store, disk, volatile, cached>> /\ pc[j] = "sent" /\ StoredAway'
  <2>1. UNCHANGED <<left, gen, store, disk, volatile, cached>> /\ pc[j] = "sent"
    BY DEF Serve, memory, keychain, ghosts
  <2> QED BY <2>1, NothingNew DEF StoresNothingNew
<1>2. pc'[j] = "answered" /\ Same(j) /\ job'[j].tok = job[j].tok /\ job'[j].copy = job[j].copy
  BY ServeGoes
<1>3. Live(j)' => Live(j)
  BY <1>1, <1>2, LiveBefore DEF Same
<1>4. ASSUME Live(j) PROVE Away(job[j].tok) /\ Away(job[j].tok)' /\ Away(job[j].copy)'
  <2>1. \A t \in {job[j].tok, job[j].copy} : t \in Named
    BY Here DEF JobSet
  <2>2. \A t \in {job[j].tok, job[j].copy} : Away(t)
    BY <1>1, <1>4 DEF StaysOut, HoldsAway, Past
  <2>3. \A t \in {job[j].tok, job[j].copy} : Away(t)'
    BY <1>1, <2>1, <2>2, AwayStays
  <2> QED BY <1>2, <2>2, <2>3 DEF Away
<1>5. ASSUME Live(j) PROVE Away(job[j].new)'
  <2>1. CASE job'[j].new = job[j].new
    <3>1. PICK t \in Named : t = job[j].new
      BY Here DEF JobSet
    <3>2. Away(t)
      BY <1>1, <1>5, <3>1 DEF StaysOut, HoldsAway, Past
    <3>3. Away(t)'
      BY <1>1, <3>2, AwayStays
    <3> QED BY <2>1, <3>1, <3>3 DEF Away
  <2>2. CASE job'[j].new # job[j].new
    <3>1. PICK u \in Users, f \in Tokens :
            /\ job'[j].new = Len(issued) + 1 /\ Mint(u, f)
            /\ IF job[j].op = "login" THEN f = Len(issued) + 1
               ELSE job[j].tok \in Held /\ f = Family(job[j].tok)
      BY <2>2, ServeGoes
    <3>2. Family(job[j].new)' = f /\ Len(issued) + 1 \notin Held
      BY <3>1, Minted DEF Family
    <3>3. f \notin left
      <4>1. CASE job[j].op = "login"
        BY <3>1, <3>2, <4>1 DEF Types, Chain
      <4>2. CASE job[j].op # "login"
        <5>1. Away(job[j].tok) /\ job[j].tok \in Held /\ f = Family(job[j].tok)
          BY <1>4, <1>5, <3>1, <4>2
        <5> QED BY <5>1 DEF Away, Held, Tokens
      <4> QED BY <4>1, <4>2
    <3> QED BY <1>1, <3>2, <3>3 DEF Away
  <2> QED BY <2>1, <2>2
<1>6. HoldsAway(j)'
  BY <1>3, <1>4, <1>5 DEF HoldsAway
<1> QED BY <1>1, <1>2, <1>3, <1>6, OutMoves DEF Same

LEMMA AskingOut ==
    ASSUME Types, Fading, StaysOut, NEW j \in Jobs,
           ReadTokenFails(j) \/ ReadCopy(j) \/ LoseAnswer(j) \/ Receive(j)
    PROVE  StaysOut'
<1>0. UNCHANGED <<left, disk, volatile, cached>>
  BY DEF ReadTokenFails, ReadCopy, LoseAnswer, Receive, Quiet, memory, keychain, ghosts
<1>1. store'.access \in {store.access, 0} => StoredAway'
  BY <1>0, NothingNew DEF StoresNothingNew
<1>2. CASE ReadTokenFails(j)
  <2>1. Settle(j, 0) /\ UNCHANGED gen /\ pc[j] = "read" /\ job[j].op \in {"hydrate", "refresh"}
    BY <1>2 DEF ReadTokenFails
  <2>2. store' = store \/ (Current(j) /\ store' = [status |-> "restore_error", access |-> 0, user |-> None])
    BY <1>2 DEF ReadTokenFails
  <2>3. store'.access \in {store.access, 0} /\ (store'.status = store.status \/ Live(j))
    BY <2>1, <2>2 DEF Live
  <2> QED BY <1>0, <1>1, <2>1, <2>3, OutSettles
<1>3. CASE ReadCopy(j)
  <2>1. UNCHANGED <<gen, store>> /\ pc[j] = "copy" /\ StoredAway'
    BY <1>1, <1>3 DEF ReadCopy, memory
  <2>2. /\ pc'[j] = "sent" /\ Same(j) /\ job'[j].tok = job[j].tok /\ job'[j].new = job[j].new
        /\ job'[j].copy \in {job[j].copy, cached}
    BY <1>3, ReadCopyGoes
  <2>3. Live(j)' => Live(j)
    BY <2>1, <2>2, LiveBefore DEF Same
  <2>4. Live(j) => \A t \in {job[j].tok, job[j].copy, job[j].new, cached} : t \in Named /\ Away(t)
    BY <2>1, Here, Sworn DEF JobSet, StaysOut, StoredAway, HoldsAway, Past
  <2>5. Live(j) => \A t \in {job[j].tok, job[j].copy, job[j].new, cached} : Away(t)'
    BY <1>0, <2>4, AwayStays
  <2>6. HoldsAway(j)'
    BY <2>2, <2>3, <2>5 DEF HoldsAway, Away
  <2> QED BY <1>0, <2>1, <2>2, <2>3, <2>6, OutMoves DEF Same
<1>4. CASE LoseAnswer(j)
  <2>1. UNCHANGED <<gen, store>> /\ pc[j] = "answered" /\ StoredAway'
    BY <1>1, <1>4 DEF LoseAnswer, memory
  <2>2. UNCHANGED pc /\ Same(j) /\ job'[j].tok = job[j].tok /\ job'[j].copy = job[j].copy /\ job'[j].new = 0
    BY <1>4, LoseAnswerGoes
  <2>3. Live(j)' => Live(j)
    BY <2>1, <2>2, LiveBefore DEF Same
  <2>4. Live(j) => \A t \in {job[j].tok, job[j].copy} : t \in Named /\ Away(t)
    BY <2>1, Here DEF JobSet, StaysOut, HoldsAway, Past
  <2>5. Live(j) => \A t \in {job[j].tok, job[j].copy} : Away(t)'
    BY <1>0, <2>4, AwayStays
  <2>6. HoldsAway(j)'
    BY <2>2, <2>3, <2>5 DEF HoldsAway, Away
  <2> QED BY <1>0, <2>1, <2>2, <2>3, <2>6, OutMoves DEF Same
<1>5. CASE Receive(j)
  <2>1. pc[j] = "answered"
    BY <1>5 DEF Receive
  <2>2. CASE Goto(j, "accept") /\ UNCHANGED <<gen, inFlight, store, job, api>>
    <3>1. job[j].op # "logout"
      BY <2>1, Here DEF Fits, Asking
    <3> QED BY <1>0, <1>1, <2>1, <2>2, <3>1, Goes, OutPass DEF Past
  <2>3. CASE Fails(j)
    BY <1>0, <2>1, <2>3, FailsOut
  <2> QED BY <1>5, <2>2, <2>3 DEF Receive
<1> QED BY <1>2, <1>3, <1>4, <1>5

LEMMA RemovedOut ==
    ASSUME Types, Fading, StaysOut, UNCHANGED left, RemoveStored \/ UNCHANGED <<volatile, disk, cached>>,
           store'.access \in {store.access, 0}
    PROVE  StoredAway'
<1>1. StoresNothingNew
  BY DEF StoresNothingNew, RemoveStored
<1> QED BY <1>1, NothingNew

\* What is accepted in its generation is of no session signed out of.
LEMMA NewAway ==
    ASSUME Types, Fading, StaysOut, UNCHANGED left, NEW j \in Jobs, pc[j] \in Asking, Current(j)
    PROVE  Live(j) /\ job[j].new \in Named /\ Away(job[j].new)
<1>1. Live(j)
  BY DEF Live, Asking
<1>2. PICK t \in Named : t = job[j].new
  BY Here DEF JobSet
<1>3. Away(t)
  BY <1>1, <1>2 DEF StaysOut, HoldsAway, Asking, Past
<1> QED BY <1>1, <1>2, <1>3

\* The keychain and the screen after a write of t.
LEMMA WrittenAway ==
    ASSUME Types, Fading, StaysOut, UNCHANGED left, NEW t \in Named, Away(t),
           disk' \in {disk, 0, t}, volatile' \in {volatile, 0, t}, cached' \in {cached, 0, t},
           store'.access \in {store.access, 0, t}
    PROVE  StoredAway'
<1>1. \A x \in {disk, volatile, cached, store.access, t} : x \in Named /\ Away(x)
  BY Sworn DEF StaysOut, StoredAway, StoreSet
<1>2. \A x \in {disk, volatile, cached, store.access, t} : Away(x)'
  BY <1>1, AwayStays
<1>3. \A x : x = 0 => Away(x)'
  BY DEF Away
<1>4. \A x \in {disk', volatile', cached', store'.access} : Away(x)'
  BY <1>2, <1>3
<1> QED BY <1>4 DEF StoredAway, Away

LEMMA AcceptOut == ASSUME Types, Fading, StaysOut, NEW j \in Jobs, Accept(j) PROVE StaysOut'
<1>1. UNCHANGED <<left, gen, persistent, store, job, cached>> /\ pc[j] = "accept"
      /\ job[j].op \in {"hydrate", "refresh", "login"}
  BY Paired DEF Accept
<1>2. PICK p \in {"reject", "written", "unwritten"} : Goto(j, p)
  BY DEF Accept
<1>3. pc'[j] = p /\ Elsewhere(j) /\ job'[j] = job[j]
  BY <1>1, <1>2, Goes
<1>4. StoredAway'
  <2>1. CASE UNCHANGED <<volatile, disk>>
    BY <1>1, <2>1, NothingNew DEF StoresNothingNew
  <2>2. CASE Current(j) /\ (WriteToken(job[j].new) \/ WriteTokenFails(job[j].new))
    <3>1. PICK t \in Named : t = job[j].new /\ Away(t)
      BY <1>1, <2>2, NewAway DEF Asking
    <3>2. disk' \in {disk, 0, t} /\ volatile' \in {volatile, 0, t}
      BY <2>2, <3>1 DEF WriteToken, WriteTokenFails
    <3> QED BY <1>1, <3>1, <3>2, WrittenAway
  <2> QED BY <2>1, <2>2 DEF Accept
<1> QED BY <1>1, <1>3, <1>4, OutPass DEF Past

LEMMA WrittenOut == ASSUME Types, Fading, StaysOut, NEW j \in Jobs, Written(j) PROVE StaysOut'
<1>1. UNCHANGED <<left, gen, store, job>> /\ pc[j] = "written" /\ job[j].op \in {"hydrate", "refresh", "login"}
  BY Paired DEF Written
<1>2. PICK p \in {"copied", "reject"} : Goto(j, p)
  BY DEF Written, TakeBack
<1>3. pc'[j] = p /\ Elsewhere(j) /\ job'[j] = job[j]
  BY <1>1, <1>2, Goes
<1>4. StoredAway'
  <2>1. CASE ~Current(j)
    BY <1>1, <2>1, RemovedOut DEF Written, TakeBack
  <2>2. CASE Current(j)
    <3>1. PICK t \in Named : t = job[j].new /\ Away(t)
      BY <1>1, <2>2, NewAway DEF Asking
    <3>2. UNCHANGED <<disk, volatile>> /\ cached' \in {cached, 0, t}
      BY <2>2, <3>1 DEF Written, WriteCached
    <3> QED BY <1>1, <3>1, <3>2, WrittenAway
  <2> QED BY <2>1, <2>2
<1> QED BY <1>1, <1>3, <1>4, OutPass DEF Past

LEMMA CopiedOut == ASSUME Types, Fading, StaysOut, NEW j \in Jobs, Copied(j) PROVE StaysOut'
<1>1. UNCHANGED <<left, gen>> /\ pc[j] = "copied" /\ job[j].op \in {"hydrate", "refresh", "login"}
  BY Paired DEF Copied
<1>2. CASE TakeBack(j) /\ UNCHANGED <<store, job>>
  <2>1. pc'[j] = "reject" /\ Elsewhere(j) /\ job'[j] = job[j]
    BY <1>2, Goes DEF TakeBack
  <2>2. StoredAway'
    BY <1>1, <1>2, RemovedOut DEF TakeBack
  <2> QED BY <1>1, <1>2, <2>1, <2>2, OutPass DEF Past
<1>3. CASE /\ Current(j)
           /\ store' = [status |-> "authenticated", access |-> job[j].new, user |-> Owner(job[j].new)]
           /\ Settle(j, job[j].new) /\ UNCHANGED <<volatile, disk, cached>>
  <2>1. PICK t \in Named : t = job[j].new /\ Away(t) /\ Live(j)
    BY <1>1, <1>3, NewAway DEF Asking
  <2>2. store'.access = t
    BY <1>3, <2>1
  <2>3. StoredAway'
    BY <1>1, <1>3, <2>1, <2>2, WrittenAway
  <2> QED BY <1>1, <1>3, <2>1, <2>3, OutSettles
<1> QED BY <1>2, <1>3 DEF Copied

LEMMA AcceptingOut ==
    ASSUME Types, Fading, StaysOut, NEW j \in Jobs, Reject(j) \/ Unwritten(j) \/ Unkept(j)
    PROVE  StaysOut'
<1>1. CASE Reject(j)
  <2>1. UNCHANGED <<left, gen, store, disk, volatile, cached>> /\ pc[j] = "reject" /\ Settle(j, 0)
    BY <1>1 DEF Reject, keychain, ghosts
  <2>2. StoredAway'
    BY <2>1, NothingNew DEF StoresNothingNew
  <2> QED BY <2>1, <2>2, OutSettles
<1>2. CASE Unwritten(j)
  <2>1. UNCHANGED <<left, gen>> /\ pc[j] = "unwritten" /\ job[j].op \in {"hydrate", "refresh", "login"}
    BY <1>2, Paired DEF Unwritten
  <2>2. CASE RemoveStored /\ Goto(j, "unkept") /\ UNCHANGED <<store, job>>
    <3>1. pc'[j] = "unkept" /\ Elsewhere(j) /\ job'[j] = job[j]
      BY <2>2, Goes
    <3>2. StoredAway'
      BY <2>1, <2>2, RemovedOut
    <3> QED BY <2>1, <2>2, <3>1, <3>2, OutPass DEF Past
  <2>3. CASE /\ Settle(j, 0) /\ UNCHANGED <<volatile, disk, cached>>
             /\ store' = IF Current(j) /\ job[j].op = "hydrate" THEN Restored(j) ELSE store
    <3>1. store' = store \/ (Live(j) /\ store'.access = 0)
      BY <2>1, <2>3, Dark DEF Live
    <3>2. StoredAway'
      BY <2>1, <2>3, <3>1, RemovedOut
    <3> QED BY <2>1, <2>3, <3>1, <3>2, OutSettles
  <2> QED BY <1>2, <2>2, <2>3 DEF Unwritten
<1>3. CASE Unkept(j)
  <2>1. UNCHANGED <<left, gen, disk, volatile, cached>> /\ pc[j] = "unkept" /\ Settle(j, 0)
    BY <1>3 DEF Unkept, keychain, ghosts
  <2>2. store' = SignedOut \/ (Live(j) /\ store'.access = 0)
    BY <1>3, <2>1, Dark DEF Unkept, Live
  <2>3. StoredAway'
    BY <2>1, <2>2, Dark, RemovedOut
  <2> QED BY <2>1, <2>2, <2>3, Dark, OutSettles
<1> QED BY <1>1, <1>2, <1>3

\* A sign-in goes on with nothing of its own, a sign-out has only to wait.
LEMMA AfterClearGoes ==
    ASSUME Types, NEW j \in Jobs, pc[j] \in Clearing, AfterClear(j)
    PROVE  /\ Elsewhere(j) /\ pc'[j] \in {"sent", "join", "idle"}
           /\ pc'[j] # "idle" => job'[j] = job[j]
           /\ pc'[j] = "sent" => job[j].tok = 0 /\ job[j].copy = 0 /\ job[j].new = 0
           /\ job[j].op = "logout" => pc'[j] = "join"
<1>1. CASE job[j].op = "login" /\ Goto(j, "sent") /\ UNCHANGED job
  <2>1. job[j].tok = 0 /\ job[j].copy = 0 /\ job[j].new = 0
    BY <1>1, Here DEF Fits, Clearing
  <2> QED BY <1>1, <2>1, Goes
<1>2. CASE job[j].op = "logout" /\ Goto(j, "join") /\ UNCHANGED job
  BY <1>2, Goes
<1>3. CASE job[j].op \notin {"login", "logout"} /\ Settle(j, 0)
  BY <1>3, SettleGoes
<1> QED BY <1>1, <1>2, <1>3 DEF AfterClear

LEMMA AfterClearOut ==
    ASSUME Types, Fading, StaysOut, UNCHANGED <<left, gen>>, NEW j \in Jobs, pc[j] \in Clearing, Turn(j),
           AfterClear(j),
           StoredAway', store'.status = store.status \/ Live(j)
    PROVE  StaysOut'
<1>1. Elsewhere(j) /\ pc'[j] # "wiped"
  BY AfterClearGoes
<1>2. Live(j)' => Live(j)
  BY AfterClearGoes DEF Live, Current, Clearing
<1>3. HoldsAway(j)'
  <2>1. CASE pc'[j] = "sent"
    BY <2>1, AfterClearGoes, BareAway DEF HoldsAway
  <2>2. CASE pc'[j] \in {"join", "idle"}
    BY <2>2 DEF HoldsAway, Live, Past
  <2> QED BY <2>1, <2>2, AfterClearGoes
<1> QED BY <1>1, <1>2, <1>3, OutMoves

\* The keychain emptied by a sign-out holds nothing of the session it ends, and
\* no other call of this generation holds anything.
LEMMA LeftOut ==
    ASSUME Types, Kept, Fading, StaysOut, NEW j \in Jobs, Wiped(j), job[j].op = "logout", Empty
    PROVE  StaysOut'
<1>1. UNCHANGED <<gen, volatile, disk, cached>> /\ pc[j] = "wiped" /\ AfterClear(j) /\ Turn(j)
  <2>1. UNCHANGED <<gen, volatile, disk, cached>> /\ pc[j] = "wiped" /\ AfterClear(j)
    BY DEF Wiped, keychain
  <2> QED BY <2>1, Here DEF HoldsLock
<1>2. pc'[j] = "join" /\ Elsewhere(j)
  BY <1>1, AfterClearGoes DEF Clearing
<1>3. StoredAway'
  <2>1. store'.access = 0
    <3>1. store.status # "authenticated"
      BY <1>1 DEF StaysOut, WipesAlone
    <3>2. store.access = 0 /\ (store' = store \/ store' = SignedOut)
      BY <3>1 DEF Kept, Wiped
    <3> QED BY <3>2, Dark
  <2> QED BY <1>1, <2>1 DEF StoredAway, Empty, Away
<1>4. ASSUME NEW k \in Jobs PROVE pc'[k] # "wiped"
  BY <1>1, <1>2, <1>4, Alone DEF Elsewhere, HoldsLock
<1>5. ASSUME NEW k \in Jobs, Live(k)' PROVE pc'[k] \in Past
  <2>1. CASE k = j
    BY <1>2, <2>1 DEF Past
  <2>2. CASE k # j
    <3>1. Live(k) /\ pc'[k] = pc[k]
      BY <1>1, <1>2, <1>5, <2>2 DEF Elsewhere, Live, Current
    <3> QED BY <1>1, <2>2, <3>1 DEF StaysOut, WipesAlone, Past
  <2> QED BY <2>1, <2>2
<1> QED BY <1>3, <1>4, <1>5 DEF StaysOut, HoldsAway, WipesAlone

LEMMA ClearOut == ASSUME Types, Turns, Fading, StaysOut, NEW j \in Jobs, Clear(j) PROVE StaysOut'
<1>1. UNCHANGED <<left, gen, store>> /\ pc[j] = "clear" /\ Turn(j)
  BY DEF Clear
<1>2. CASE Current(j) /\ RemoveStored /\ Goto(j, "wiped") /\ UNCHANGED job
  <2>1. Live(j) /\ Shows(j) /\ job[j].op \in OpNames
    <3>1. Live(j)
      BY <1>1, <1>2 DEF Live
    <3>2. job[j].op # "none" /\ job[j] \in JobSet(Named)
      BY <1>1, Idle, Here
    <3> QED BY <3>1, <3>2 DEF Turns, JobSet
  <2>2. store.status \in {"loading", "anonymous"}
    BY <1>1, <2>1 DEF Shows, OpNames
  <2>3. pc'[j] = "wiped" /\ Elsewhere(j) /\ job'[j] = job[j]
    BY <1>2, Goes
  <2>4. StoredAway'
    BY <1>1, <1>2, RemovedOut
  <2>5. ASSUME NEW k \in Jobs \ {j} PROVE ~Live(k)' /\ pc'[k] # "wiped"
    <3>1. ~Live(k) /\ pc[k] # "wiped"
      BY <1>1, <2>1, Alone DEF Turns, HoldsLock
    <3> QED BY <1>1, <2>3, <3>1 DEF Elsewhere, Live, Current
  <2>6. \A k \in Jobs : HoldsAway(k)'
    BY <2>3, <2>5 DEF HoldsAway, Past
  <2>7. \A k \in Jobs : WipesAlone(k)'
    BY <1>1, <2>2, <2>5 DEF WipesAlone
  <2> QED BY <2>4, <2>6, <2>7 DEF StaysOut
<1>3. CASE AfterClear(j) /\ UNCHANGED <<volatile, disk, cached>>
  <2>1. StoredAway'
    BY <1>1, <1>3, NothingNew DEF StoresNothingNew
  <2> QED BY <1>1, <1>3, <2>1, AfterClearOut DEF Clearing
<1> QED BY <1>2, <1>3 DEF Clear

LEMMA ClearingOut ==
    ASSUME Types, Turns, Kept, Fading, StaysOut, NEW j \in Jobs, Wiped(j) \/ LeaveSession(j) \/ Join(j)
    PROVE  StaysOut'
<1>1. CASE Wiped(j)
  <2>1. CASE job[j].op = "logout" /\ job[j].tok # 0 /\ Empty
    BY <1>1, <2>1, LeftOut
  <2>2. CASE ~(job[j].op = "logout" /\ job[j].tok # 0 /\ Empty)
    <3>1. UNCHANGED <<left, gen, volatile, disk, cached>> /\ pc[j] = "wiped" /\ AfterClear(j)
      BY <1>1, <2>2 DEF Wiped, keychain
    <3>2. store' = store \/ (Live(j) /\ store' = SignedOut)
      BY <1>1, <3>1 DEF Wiped, Live
    <3>3. StoredAway'
      BY <3>1, <3>2, Dark, NothingNew DEF StoresNothingNew
    <3>4. Turn(j)
      BY <3>1, Here DEF HoldsLock
    <3> QED BY <3>1, <3>2, <3>3, <3>4, AfterClearOut DEF Clearing
  <2> QED BY <2>1, <2>2
<1>2. CASE LeaveSession(j)
  <2>1. UNCHANGED <<left, disk, volatile, cached>>
    BY <1>2 DEF LeaveSession, keychain
  <2> QED BY <1>2, <2>1, LeaveSessionGoes, Dark, OutTransition DEF StoresNothingNew
<1>3. CASE Join(j)
  <2>1. UNCHANGED <<left, gen, store, disk, volatile, cached>> /\ pc[j] = "join" /\ Settle(j, 0)
    BY <1>3 DEF Join, keychain, ghosts
  <2>2. StoredAway'
    BY <2>1, NothingNew DEF StoresNothingNew
  <2> QED BY <2>1, <2>2, OutSettles
<1> QED BY <1>1, <1>2, <1>3

LEMMA ApiStepOut == ASSUME Types, Turns, Kept, Fading, StaysOut, ApiStep PROVE StaysOut'
<1>1. CASE Ask \/ ApiServe \/ Refuse \/ Retry \/ ApiDone
  <2>1. UNCHANGED <<memory, jobs, keychain, ghosts>>
    BY <1>1 DEF Ask, ApiServe, Refuse, Retry, ApiDone
  <2> QED BY <2>1, OutQuiet DEF memory, jobs, keychain, ghosts, StoresNothingNew
<1>2. CASE Deliver
  <2>1. UNCHANGED <<left, volatile, disk, cached>>
    BY <1>2 DEF Deliver, ApiOnly, keychain, ghosts
  <2>2. CASE UNCHANGED <<gen, inFlight, store, jobs>>
    BY <2>1, <2>2, OutQuiet DEF jobs, StoresNothingNew
  <2>3. ASSUME NEW j \in Jobs, StartClear(j) PROVE StaysOut'
    <3>1. Anew(j, "clear", "clear", gen + 1)
      BY <2>3, Beginnings
    <3>2. gen' = gen + 1 /\ store' = SignedOut
      BY <2>3 DEF StartClear, Transition
    <3> QED BY <2>1, <3>1, <3>2, Dark, OutTransition DEF Anew, StoresNothingNew
  <2> QED BY <1>2, <2>2, <2>3 DEF Deliver
<1>3. CASE RefreshFirst
  <2>1. UNCHANGED <<left, keychain>> /\ store.status = "authenticated"
    BY <1>3 DEF RefreshFirst, MayRefresh, ghosts
  <2>2. CASE UNCHANGED <<memory, jobs>>
    BY <2>1, <2>2, OutQuiet DEF memory, jobs, keychain, StoresNothingNew
  <2>3. ASSUME NEW j \in Jobs, StartRefresh(j), UNCHANGED <<gen, persistent, store, volatile, booted, credQ>>
        PROVE  StaysOut'
    <3>1. Anew(j, "refresh", "read", gen)
      BY <2>3, Beginnings
    <3>2. \A k \in Jobs : pc[k] # "wiped"
      BY <2>1 DEF StaysOut, WipesAlone
    <3>3. StoredAway'
      BY <2>1, <2>3, NothingNew DEF StoresNothingNew, keychain
    <3> QED BY <2>1, <2>3, <3>1, <3>2, <3>3, BareAway, OutMoves DEF Anew, Bare, HoldsAway
  <2> QED BY <1>3, <2>2, <2>3 DEF RefreshFirst
<1> QED BY <1>1, <1>2, <1>3 DEF ApiStep

LEMMA CrashOut == ASSUME Types, Fading, StaysOut, Crash PROVE StaysOut'
<1>1. UNCHANGED <<left, disk, cached>> /\ volatile' = 0 /\ store'.access = 0
  BY DEF Crash, keychain
<1>2. StoredAway'
  BY <1>1, NothingNew DEF StoresNothingNew
<1> QED BY <1>2, CrashGoes DEF StaysOut, HoldsAway, WipesAlone, Live

LEMMA InitOut == Init => StaysOut
  BY DEF Init, StaysOut, StoredAway, HoldsAway, WipesAlone, Live, Away

\* The step of the induction.
LEMMA NextOut == Types /\ Turns /\ Kept /\ StaysOut /\ [Next]_vars => StaysOut'
<1> SUFFICES ASSUME Types, Turns, Kept, StaysOut, [Next]_vars PROVE StaysOut'
  OBVIOUS
<1>0. Fading
  BY ServerFades
<1>1. CASE \E j \in Jobs : Start(j)
  BY <1>0, <1>1, StartOut
<1>2. CASE \E j \in Jobs : Step(j)
  BY <1>0, <1>2, ReadTokenOut, AskingOut, ServeOut, AcceptOut, WrittenOut, CopiedOut, AcceptingOut,
     ClearOut, ClearingOut DEF Step
<1>3. CASE RevokeStep
  <2>1. UNCHANGED <<left, gen, store, volatile, disk, cached, pc>>
    BY <1>3, RevokeStepGoes DEF memory
  <2> QED BY <1>0, <1>3, <2>1, RevokeStepGoes, OutQuiet DEF StoresNothingNew
<1>4. CASE ApiStep
  BY <1>0, <1>4, ApiStepOut
<1>5. CASE Foreground \/ EndElsewhere \/ UNCHANGED vars
  <2>1. UNCHANGED <<memory, jobs, keychain, ghosts>>
    BY <1>5 DEF Foreground, EndElsewhere, vars
  <2> QED BY <1>0, <2>1, OutQuiet DEF memory, jobs, keychain, ghosts, StoresNothingNew
<1>6. CASE GoOffline
  <2>1. UNCHANGED <<left, gen, volatile, disk, cached, pc, job>> /\ store.status = "authenticated"
    BY <1>6 DEF GoOffline, jobs, keychain, ghosts
  <2>2. store'.access = 0
    BY <1>6, Sworn DEF GoOffline, StoreSet
  <2> QED BY <1>0, <2>1, <2>2, OutQuiet DEF StoresNothingNew
<1>7. CASE Crash
  BY <1>0, <1>7, CrashOut
<1> QED BY <1>1, <1>2, <1>3, <1>4, <1>5, <1>6, <1>7 DEF Next

\* A session signed out of with the keychain emptied never comes back.
THEOREM SignedOutStaysOut == Spec => []LoggedOutStaysOut
<1>1. StaysOut => LoggedOutStaysOut
  BY DEF StaysOut, StoredAway, Away, LoggedOutStaysOut
<1>2. Init => Types /\ Turns /\ Kept /\ StaysOut
  BY InitTypes, InitTurns, InitKept, InitOut
<1>3. Types /\ Turns /\ Kept /\ StaysOut /\ [Next]_vars => Types' /\ Turns' /\ Kept' /\ StaysOut'
  BY NextTypes, NextTurns, NextKept, NextOut
<1> QED BY <1>1, <1>2, <1>3, PTL DEF Spec

-----------------------------------------------------------------------------
(* An answer reaches the account that asked. *)

Answers == api'.pc = "delivered" /\ api.pc # "delivered"
KeepsCall == api'.gen = api.gen /\ api'.user = api.user /\ (api'.pc # "idle" => api.pc # "idle")

\* An owner is for good.
LEMMA OursStays ==
    ASSUME Types, Fading, KeepsCall, NEW t \in Named, Ours(t)
    PROVE  Ours(t)'
  BY Lineage DEF Ours, KeepsCall

\* A session transition parts the call from the generation.
LEMMA AskedTransition == ASSUME Types, gen' = gen + 1, KeepsCall PROVE Asked'
<1>1. PICK g \in 0..MaxGen : g = api.gen /\ g <= gen
  BY Sworn DEF ApiSet
<1>2. api'.gen # gen'
  BY <1>1, Sworn DEF KeepsCall
<1> QED BY <1>2 DEF Asked, Asks

\* The tokens after a write of t.
LEMMA OursWritten ==
    ASSUME Types, Fading, Asked, Asks, KeepsCall, NEW t \in Named, Ours(t),
           disk' \in {disk, 0, t}, volatile' \in {volatile, 0, t}
    PROVE  Ours(disk)' /\ Ours(volatile)'
<1>1. \A x \in {disk, volatile, t} : x \in Named /\ Ours(x)
  BY Sworn DEF Asked
<1>2. \A x \in {disk, volatile, t} : Ours(x)'
  BY <1>1, OursStays
<1>3. \A x : x = 0 => Ours(x)'
  BY DEF Ours
<1>4. \A x \in {disk', volatile'} : Ours(x)'
  BY <1>2, <1>3
<1> QED BY <1>4 DEF Ours

LEMMA OursLeft ==
    ASSUME Types, Fading, Asked, Asks, KeepsCall, disk' \in {disk, 0}, volatile' \in {volatile, 0}
    PROVE  Ours(disk)' /\ Ours(volatile)'
<1>1. Ours(0)
  BY DEF Ours
<1> QED BY <1>1, Sworn, OursWritten

\* A call that keeps what it sends.
LEMMA HelpsStill ==
    ASSUME Types, Fading, Asked, Asks, KeepsCall, NEW k \in Jobs, Live(k)' => Live(k),
           job'[k].op = job[k].op, job'[k].tok = job[k].tok, pc'[k] = pc[k] \/ pc'[k] \notin {"clear", "wiped"}
    PROVE  Helps(k)'
<1> SUFFICES ASSUME Live(k)' PROVE Helps(k)'
  BY DEF Helps
<1>1. PICK t \in Named : t = job[k].tok
  BY Here DEF JobSet
<1>2. job[k].op = "refresh" /\ pc[k] \notin {"clear", "wiped"} /\ Ours(t)
  BY <1>1 DEF Asked, Helps
<1>3. Ours(t)'
  BY <1>2, OursStays
<1>4. Ours(job[k].tok)'
  BY <1>1, <1>3 DEF Ours
<1> QED BY <1>2, <1>4 DEF Helps

\* A step of a call, in its generation.
LEMMA AskedMoves ==
    ASSUME Types, Fading, Asked, UNCHANGED gen, KeepsCall, NEW j \in Jobs, Elsewhere(j),
           Asks => /\ store'.user \in {store.user, api.user, None} /\ Ours(disk)' /\ Ours(volatile)'
                   /\ Helps(j)'
    PROVE  Asked'
<1> SUFFICES ASSUME Asks'
             PROVE  /\ store'.user \in {api'.user, None} /\ Ours(disk)' /\ Ours(volatile)'
                    /\ \A k \in Jobs : Helps(k)'
  BY DEF Asked
<1>1. Asks
  BY DEF Asks, KeepsCall
<1>2. ASSUME NEW k \in Jobs \ {j} PROVE Helps(k)'
  <2>1. (Live(k)' => Live(k)) /\ pc'[k] = pc[k] /\ job'[k] = job[k]
    BY DEF Live, Current, Elsewhere
  <2> QED BY <1>1, <2>1, HelpsStill
<1> QED BY <1>1, <1>2 DEF Asked, KeepsCall

\* No call moves.
LEMMA AskedQuiet ==
    ASSUME Types, Fading, Asked, UNCHANGED <<gen, pc>>, KeepsCall, disk' \in {disk, 0},
           volatile' \in {volatile, 0},
           store'.user \in {store.user, None},
           \A k \in Jobs : job'[k].op = job[k].op /\ job'[k].gen = job[k].gen /\ job'[k].tok = job[k].tok
    PROVE  Asked'
<1> SUFFICES ASSUME Asks'
             PROVE  /\ store'.user \in {api'.user, None} /\ Ours(disk)' /\ Ours(volatile)'
                    /\ \A k \in Jobs : Helps(k)'
  BY DEF Asked
<1>1. Asks
  BY DEF Asks, KeepsCall
<1>2. ASSUME NEW k \in Jobs PROVE Helps(k)'
  <2>1. Live(k)' => Live(k)
    BY DEF Live, Current
  <2> QED BY <1>1, <2>1, HelpsStill
<1> QED BY <1>1, <1>2, OursLeft DEF Asked, KeepsCall

\* A call that is over, or that holds no session of this generation.
LEMMA AskedSettles ==
    ASSUME Types, Fading, Asked, UNCHANGED gen, NEW j \in Jobs, NEW tok, Settle(j, tok),
           Asks => store'.user \in {store.user, api.user, None},
           disk' \in {disk, 0}, volatile' \in {volatile, 0}
    PROVE  Asked'
<1>1. KeepsCall /\ Elsewhere(j) /\ pc'[j] = "idle"
  BY SettleGoes DEF KeepsCall
<1>2. Helps(j)'
  BY <1>1 DEF Helps, Live
<1> QED BY <1>1, <1>2, OursLeft, AskedMoves

\* A call goes on with the token it sends.
LEMMA AskedPass ==
    ASSUME Types, Fading, Asked, UNCHANGED <<gen, store, api>>, NEW j \in Jobs, Elsewhere(j),
           pc[j] # "idle", ~(job[j].op = "logout" /\ pc[j] = "read"),
           job'[j].op = job[j].op, job'[j].gen = job[j].gen, job'[j].tok = job[j].tok,
           pc'[j] \notin {"clear", "wiped"},
           Asks => Ours(disk)' /\ Ours(volatile)'
    PROVE  Asked'
<1>1. KeepsCall
  BY DEF KeepsCall
<1>2. Live(j)' => Live(j)
  BY LiveBefore
<1>3. Asks => Helps(j)'
  BY <1>1, <1>2, HelpsStill
<1> QED BY <1>1, <1>3, AskedMoves

LEMMA StartAsked == ASSUME Types, Fading, Asked, NEW j \in Jobs, Start(j) PROVE Asked'
<1>0. UNCHANGED <<api, disk, volatile>> /\ KeepsCall
  <2>1. UNCHANGED <<api, disk, volatile>>
    BY DEF Start, Hydrate, Resume, Login, Logout, Reset, keychain, memory
  <2> QED BY <2>1 DEF KeepsCall
<1>1. CASE Hydrate(j) \/ Login(j) \/ Reset(j)
  <2>1. gen' = gen + 1
    BY <1>1 DEF Hydrate, Login, Reset, StartClear, Transition
  <2> QED BY <1>0, <2>1, AskedTransition
<1>2. CASE Resume(j) \/ Logout(j)
  <2>1. UNCHANGED <<gen, store>>
    BY <1>2 DEF Resume, Logout, memory
  <2>2. Anew(j, "refresh", "read", gen) \/ Anew(j, "logout", "read", gen)
    BY <1>2, Beginnings DEF Resume
  <2>3. Elsewhere(j) /\ Helps(j)'
    BY <2>2 DEF Anew, Bare, Helps, Live, Ours
  <2> QED BY <1>0, <2>1, <2>3, OursLeft, AskedMoves
<1> QED BY <1>1, <1>2 DEF Start

LEMMA ReadTokenAsked == ASSUME Types, Fading, Asked, NEW j \in Jobs, ReadToken(j) PROVE Asked'
<1>1. pc[j] = "read" /\ job[j].op \in {"hydrate", "refresh"} /\ UNCHANGED <<disk, volatile>>
  BY DEF ReadToken, Quiet, keychain
<1>2. CASE GiveUp(j)
  BY <1>1, <1>2, AskedSettles DEF GiveUp
<1>3. CASE Invalidate(j) /\ UNCHANGED api
  BY <1>3, InvalidateGoes, AskedTransition DEF KeepsCall
<1>4. CASE /\ Current(j) /\ job[j].op = "hydrate" /\ Goto(j, "clear")
           /\ UNCHANGED <<gen, inFlight, store, job, api>>
  <2>1. KeepsCall /\ Elsewhere(j) /\ Live(j)
    BY <1>1, <1>4, Goes DEF KeepsCall, Live
  <2>2. ~Asks
    BY <1>4, <2>1 DEF Asked, Helps
  <2> QED BY <1>4, <2>1, <2>2, AskedMoves
<1>5. CASE job' = [job EXCEPT ![j].tok = CurrentToken]
           /\ Goto(j, IF job[j].op = "hydrate" THEN "copy" ELSE "sent")
           /\ UNCHANGED <<gen, inFlight, store, credQ, api>>
  <2>1. PICK p \in {"copy", "sent"} : p = IF job[j].op = "hydrate" THEN "copy" ELSE "sent"
    OBVIOUS
  <2>2. PICK c \in Named : c = CurrentToken
    BY Sworn
  <2>3. pc'[j] = p /\ Same(j) /\ job'[j].tok = c
    <3>1. Goto(j, p) /\ job' = [job EXCEPT ![j].tok = c]
      BY <1>5, <2>1, <2>2
    <3> QED BY <3>1, ReadTokenGoes
  <2>4. KeepsCall
    BY <1>5 DEF KeepsCall
  <2>5. Asks => Ours(c)'
    <3>1. Asks => Ours(c)
      BY <2>2 DEF Asked, CurrentToken
    <3> QED BY <2>4, <3>1, OursStays
  <2>6. Live(j)' => Live(j)
    BY <1>1, <1>5, <2>3, LiveBefore DEF Same
  <2>7. Asks => Helps(j)'
    BY <2>3, <2>5, <2>6 DEF Asked, Helps, Same, Ours
  <2> QED BY <1>1, <1>5, <2>3, <2>4, <2>7, OursLeft, AskedMoves DEF Same
<1> QED BY <1>2, <1>3, <1>4, <1>5 DEF ReadToken

LEMMA FailsAsked ==
    ASSUME Types, Fading, Asked, NEW j \in Jobs, Fails(j), UNCHANGED <<disk, volatile>>, pc[j] = "answered"
    PROVE  Asked'
<1>1. CASE GiveUp(j)
  BY <1>1, AskedSettles DEF GiveUp
<1>2. CASE Invalidate(j) /\ UNCHANGED api
  BY <1>2, InvalidateGoes, AskedTransition DEF KeepsCall
<1>3. CASE Current(j) /\ job[j].op = "hydrate" /\ Settle(j, 0) /\ UNCHANGED <<gen, credQ>>
  <2>1. ~Asks
    BY <1>3 DEF Asked, Helps, Live
  <2> QED BY <1>3, <2>1, AskedSettles
<1> QED BY <1>1, <1>2, <1>3 DEF Fails

LEMMA AskingAsked ==
    ASSUME Types, Fading, Asked, NEW j \in Jobs,
           ReadTokenFails(j) \/ ReadCopy(j) \/ Serve(j) \/ LoseAnswer(j) \/ Receive(j)
    PROVE  Asked'
<1>0. UNCHANGED <<disk, volatile>>
  BY DEF ReadTokenFails, ReadCopy, Serve, LoseAnswer, Receive, Quiet, memory, keychain
<1>1. UNCHANGED api => KeepsCall
  BY DEF KeepsCall
<1>2. CASE ReadTokenFails(j)
  <2>1. Settle(j, 0) /\ UNCHANGED gen /\ store'.user \in {store.user, None}
    BY <1>2 DEF ReadTokenFails
  <2> QED BY <1>0, <2>1, AskedSettles
<1>3. CASE ReadCopy(j)
  <2>1. UNCHANGED <<gen, store, api>> /\ pc[j] = "copy"
    BY <1>3 DEF ReadCopy, memory
  <2> QED BY <1>0, <1>1, <1>3, <2>1, ReadCopyGoes, OursLeft, AskedPass DEF Same
<1>4. CASE Serve(j)
  <2>1. UNCHANGED <<gen, store, api>> /\ pc[j] = "sent"
    BY <1>4 DEF Serve, memory
  <2> QED BY <1>0, <1>1, <1>4, <2>1, ServeGoes, OursLeft, AskedPass DEF Same
<1>5. CASE LoseAnswer(j)
  <2>1. UNCHANGED <<gen, store, api>> /\ pc[j] = "answered"
    BY <1>5 DEF LoseAnswer, memory
  <2> QED BY <1>0, <1>1, <1>5, <2>1, LoseAnswerGoes, OursLeft, AskedPass DEF Same
<1>6. CASE Receive(j)
  <2>1. pc[j] = "answered"
    BY <1>6 DEF Receive
  <2>2. CASE Goto(j, "accept") /\ UNCHANGED <<gen, inFlight, store, job, api>>
    BY <1>0, <1>1, <2>1, <2>2, Goes, OursLeft, AskedPass
  <2>3. CASE Fails(j)
    BY <1>0, <2>1, <2>3, FailsAsked
  <2> QED BY <1>6, <2>2, <2>3 DEF Receive
<1> QED BY <1>2, <1>3, <1>4, <1>5, <1>6

\* A pair accepted under the call's generation is of its account.
LEMMA NewIsOurs ==
    ASSUME Types, Asked, Asks, NEW j \in Jobs, pc[j] \in {"accept", "written", "copied"}, Current(j)
    PROVE  job[j].new \in Named /\ Ours(job[j].new) /\ Owner(job[j].new) = api.user
<1>1. Live(j)
  BY DEF Live
<1>2. job[j].op = "refresh" /\ Ours(job[j].tok)
  BY <1>1 DEF Asked, Helps
<1>3. PICK n \in Held : n = job[j].new /\ n # 0
  BY Paired, Here DEF Fits, Asking
<1>4. PICK t \in Named : t = job[j].tok /\ t # 0 /\ Family(n) = Family(t)
  BY <1>2, <1>3, Here DEF Bred, Family, JobSet
<1>5. Owner(n) = Owner(Family(n)) /\ Owner(t) = Owner(Family(t)) /\ n \in Named
  BY <1>4 DEF Types, Serving, Named
<1>6. Owner(t) = api.user
  BY <1>2, <1>4 DEF Ours
<1> QED BY <1>3, <1>4, <1>5, <1>6 DEF Ours

LEMMA AcceptAsked == ASSUME Types, Fading, Asked, NEW j \in Jobs, Accept(j) PROVE Asked'
<1>1. UNCHANGED <<gen, store, api, job>> /\ pc[j] = "accept" /\ job[j].op \in {"hydrate", "refresh", "login"}
      /\ KeepsCall
  BY Paired DEF Accept, KeepsCall
<1>2. PICK p \in {"reject", "written", "unwritten"} : Goto(j, p)
  BY DEF Accept
<1>3. pc'[j] = p /\ Elsewhere(j) /\ job'[j] = job[j]
  BY <1>1, <1>2, Goes
<1>4. ASSUME Asks PROVE Ours(disk)' /\ Ours(volatile)'
  <2>1. CASE UNCHANGED <<volatile, disk>>
    BY <1>1, <1>4, <2>1, OursLeft
  <2>2. CASE Current(j) /\ (WriteToken(job[j].new) \/ WriteTokenFails(job[j].new))
    <3>1. PICK t \in Named : t = job[j].new /\ Ours(t)
      BY <1>1, <1>4, <2>2, NewIsOurs
    <3>2. disk' \in {disk, 0, t} /\ volatile' \in {volatile, 0, t}
      BY <2>2, <3>1 DEF WriteToken, WriteTokenFails
    <3> QED BY <1>1, <1>4, <3>1, <3>2, OursWritten
  <2> QED BY <2>1, <2>2 DEF Accept
<1> QED BY <1>1, <1>3, <1>4, AskedPass

LEMMA Removes == ASSUME RemoveStored \/ UNCHANGED <<volatile, disk, cached>>
    PROVE  disk' \in {disk, 0} /\ volatile' \in {volatile, 0}
  BY DEF RemoveStored

LEMMA AcceptingAsked ==
    ASSUME Types, Fading, Asked, NEW j \in Jobs,
           Written(j) \/ Copied(j) \/ Reject(j) \/ Unwritten(j) \/ Unkept(j)
    PROVE  Asked'
<1>1. CASE Written(j) \/ (Copied(j) /\ TakeBack(j) /\ UNCHANGED <<store, job, api>>)
  <2>1. /\ UNCHANGED <<gen, store, api, job>> /\ pc[j] \in {"written", "copied"} /\ KeepsCall
        /\ job[j].op \in {"hydrate", "refresh", "login"}
    BY <1>1, Paired DEF Written, Copied, KeepsCall
  <2>2. PICK p \in {"copied", "reject"} : Goto(j, p)
    BY <1>1 DEF Written, TakeBack
  <2>3. pc'[j] = p /\ Elsewhere(j) /\ job'[j] = job[j]
    BY <2>1, <2>2, Goes
  <2>4. disk' \in {disk, 0} /\ volatile' \in {volatile, 0}
    BY <1>1, Removes DEF Written, TakeBack
  <2> QED BY <2>1, <2>3, <2>4, OursLeft, AskedPass
<1>2. CASE /\ pc[j] = "copied" /\ Current(j) /\ Settle(j, job[j].new) /\ UNCHANGED <<gen, volatile, disk>>
           /\ store' = [status |-> "authenticated", access |-> job[j].new, user |-> Owner(job[j].new)]
  <2>1. Asks => store'.user = api.user
    BY <1>2, NewIsOurs
  <2> QED BY <1>2, <2>1, AskedSettles
<1>3. CASE Reject(j)
  BY <1>3, AskedSettles DEF Reject, keychain
<1>4. CASE Unwritten(j)
  <2>1. UNCHANGED gen /\ pc[j] = "unwritten" /\ job[j].op \in {"hydrate", "refresh", "login"}
    BY <1>4, Paired DEF Unwritten
  <2>2. CASE RemoveStored /\ Goto(j, "unkept") /\ UNCHANGED <<store, job, api>>
    <3>1. pc'[j] = "unkept" /\ Elsewhere(j) /\ job'[j] = job[j] /\ KeepsCall
      BY <2>2, Goes DEF KeepsCall
    <3>2. disk' \in {disk, 0} /\ volatile' \in {volatile, 0}
      BY <2>2, Removes
    <3> QED BY <2>1, <2>2, <3>1, <3>2, OursLeft, AskedPass
  <2>3. CASE /\ Settle(j, 0) /\ UNCHANGED <<volatile, disk, cached>>
             /\ store' = IF Current(j) /\ job[j].op = "hydrate" THEN Restored(j) ELSE store
    <3>1. Asks => store' = store
      BY <2>1, <2>3 DEF Asked, Helps, Live
    <3> QED BY <2>1, <2>3, <3>1, AskedSettles
  <2> QED BY <1>4, <2>2, <2>3 DEF Unwritten
<1>5. CASE Unkept(j)
  <2>1. UNCHANGED <<gen, volatile, disk>> /\ Settle(j, 0) /\ pc[j] = "unkept"
    BY <1>5 DEF Unkept, keychain
  <2>2. Asks => store' = SignedOut
    BY <1>5, <2>1 DEF Unkept, Asked, Helps, Live
  <2> QED BY <2>1, <2>2, Dark, AskedSettles
<1> QED BY <1>1, <1>2, <1>3, <1>4, <1>5 DEF Copied

LEMMA AfterClearAsked ==
    ASSUME Types, Fading, Asked, UNCHANGED <<gen, volatile, disk>>, NEW j \in Jobs,
           pc[j] \in {"clear", "wiped"}, AfterClear(j),
           store' = store \/ store' = SignedOut
    PROVE  Asked'
<1>1. store'.user \in {store.user, None}
  BY DEF SignedOut
<1>2. CASE UNCHANGED <<inFlight, job, api>> /\ (Goto(j, "sent") \/ Goto(j, "join"))
  <2>1. pc'[j] \in {"sent", "join"} /\ Elsewhere(j) /\ job'[j] = job[j] /\ KeepsCall
    BY <1>2, Goes DEF KeepsCall
  <2>2. Live(j)' => Live(j)
    BY <2>1 DEF Live, Current
  <2>3. Asks => Helps(j)'
    BY <2>1, <2>2, HelpsStill
  <2> QED BY <1>1, <2>1, <2>3, OursLeft, AskedMoves
<1>3. CASE Settle(j, 0)
  BY <1>1, <1>3, AskedSettles
<1> QED BY <1>2, <1>3 DEF AfterClear

LEMMA ClearingAsked ==
    ASSUME Types, Fading, Asked, NEW j \in Jobs, Clear(j) \/ Wiped(j) \/ LeaveSession(j) \/ Join(j)
    PROVE  Asked'
<1>1. CASE Clear(j)
  <2>1. UNCHANGED <<gen, store>> /\ pc[j] = "clear"
    BY <1>1 DEF Clear
  <2>2. CASE Current(j) /\ Goto(j, "wiped") /\ UNCHANGED <<job, api>>
    <3>1. KeepsCall /\ Elsewhere(j) /\ Live(j)
      BY <2>1, <2>2, Goes DEF KeepsCall, Live
    <3>2. ~Asks
      BY <2>1, <3>1 DEF Asked, Helps
    <3> QED BY <2>1, <3>1, <3>2, AskedMoves
  <2>3. CASE AfterClear(j) /\ UNCHANGED <<volatile, disk>>
    BY <2>1, <2>3, AfterClearAsked
  <2> QED BY <1>1, <2>2, <2>3 DEF Clear
<1>2. CASE Wiped(j)
  <2>1. UNCHANGED <<gen, volatile, disk>> /\ pc[j] = "wiped" /\ AfterClear(j)
        /\ (store' = store \/ store' = SignedOut)
    BY <1>2 DEF Wiped, keychain
  <2> QED BY <2>1, AfterClearAsked
<1>3. CASE LeaveSession(j)
  <2>1. UNCHANGED api
    BY <1>3 DEF LeaveSession
  <2> QED BY <1>3, <2>1, LeaveSessionGoes, AskedTransition DEF KeepsCall
<1>4. CASE Join(j)
  BY <1>4, AskedSettles DEF Join, keychain
<1> QED BY <1>1, <1>2, <1>3, <1>4

\* The account that asks is the one on screen, and every token is its own.
LEMMA AskAsked == ASSUME Types, Turns, Fading, Kept, Ask PROVE Asked'
<1>1. UNCHANGED <<memory, jobs, keychain, server>> /\ store.status = "authenticated"
  BY DEF Ask
<1>2. api'.user = store.user
  <2>1. PICK all \in BOOLEAN : api' = [NoApi EXCEPT !.pc = "sent", !.gen = gen, !.user = store.user,
                                       !.tok = store.access, !.all = all]
    BY DEF Ask
  <2> QED BY <2>1 DEF NoApi
<1>3. PICK a \in Named : a = store.access /\ a # 0 /\ store.user = Owner(a) /\ Owner(a) = Owner(Family(a))
  BY <1>1, Sworn, Lineage DEF Kept, SignedIn, StoreSet
<1>4. ASSUME NEW t \in Named, t = 0 \/ Family(t) = Family(a) PROVE Ours(t)'
  <2>1. t = 0 \/ Owner(t) = Owner(Family(t))
    BY Lineage
  <2>2. t = 0 \/ Owner(t) = store.user
    BY <1>3, <1>4, <2>1
  <2> QED BY <1>1, <1>2, <2>2 DEF Ours, Owner, server
<1>5. Ours(disk)' /\ Ours(volatile)'
  <2>1. \A t \in {disk, volatile} : t \in Named /\ (t = 0 \/ Family(t) = Family(a))
    BY <1>1, <1>3, Sworn DEF Kept, SignedIn
  <2>2. \A t \in {disk, volatile} : Ours(t)'
    BY <1>4, <2>1
  <2> QED BY <1>1, <2>2 DEF Ours, keychain, memory
<1>6. ASSUME NEW j \in Jobs PROVE Helps(j)'
  <2> SUFFICES ASSUME Live(j) PROVE Helps(j)'
    BY <1>1 DEF Helps, Live, Current, jobs, memory
  <2>1. Shows(j) /\ job[j].op \in OpNames /\ job[j] \in JobSet(Named)
    <3>1. job[j].op # "none" /\ job[j] \in JobSet(Named)
      BY Idle, Here DEF Live
    <3> QED BY <3>1 DEF Turns, JobSet
  <2>2. job[j].op = "refresh" /\ pc[j] \notin {"clear", "wiped"}
    BY <1>1, <2>1 DEF Shows, OpNames
  <2>3. PICK t \in Named : t = job[j].tok /\ (t = 0 \/ Family(t) = Family(a))
    BY <1>1, <1>3, <2>1, <2>2 DEF Kept, JobSet
  <2>4. Ours(t)'
    BY <1>4, <2>3
  <2>5. Ours(job[j].tok)'
    BY <1>1, <2>3, <2>4 DEF Ours, jobs
  <2> QED BY <1>1, <2>2, <2>5 DEF Helps, jobs
<1> QED BY <1>1, <1>2, <1>5, <1>6 DEF Asked, memory

LEMMA ApiStepAsked == ASSUME Types, Turns, Fading, Kept, Asked, ApiStep PROVE Asked'
<1>0. api \in ApiSet(Named)
  BY Sworn
<1>1. CASE ApiServe \/ Refuse \/ Retry \/ ApiDone
  <2>1. UNCHANGED <<memory, jobs, keychain>>
    BY <1>1 DEF ApiServe, Refuse, Retry, ApiDone
  <2>2. CASE ApiDone
    <3>1. api'.pc = "idle"
      BY <2>2 DEF ApiDone, NoApi
    <3> QED BY <3>1 DEF Asked, Asks
  <2>3. CASE ApiServe \/ Refuse \/ Retry
    <3>1. \/ \E r : api' = [api EXCEPT !.pc = "answered", !.reply = r]
          \/ api' = [api EXCEPT !.pc = "failed", !.reply = "none"]
          \/ api' = [api EXCEPT !.pc = "sent", !.retried = TRUE]
      BY <2>3 DEF ApiServe, Refuse, Retry, ApiFails
    <3>2. api.pc # "idle"
      BY <2>3 DEF ApiServe, Refuse, Retry
    <3>3. KeepsCall
      BY <1>0, <3>1, <3>2 DEF KeepsCall, ApiSet
    <3> QED BY <2>1, <3>3, AskedQuiet DEF memory, jobs, keychain
  <2> QED BY <1>1, <2>2, <2>3
<1>2. CASE Deliver
  <2>1. UNCHANGED <<volatile, disk>> /\ api' = [api EXCEPT !.pc = "delivered"] /\ api.pc = "answered"
    BY <1>2 DEF Deliver, ApiOnly, keychain
  <2>2. KeepsCall
    BY <1>0, <2>1 DEF KeepsCall, ApiSet
  <2>3. CASE UNCHANGED <<gen, inFlight, store, jobs>>
    BY <2>1, <2>2, <2>3, AskedQuiet DEF jobs
  <2>4. CASE \E j \in Jobs : StartClear(j)
    <3>1. gen' = gen + 1
      BY <2>4 DEF StartClear, Transition
    <3> QED BY <2>2, <3>1, AskedTransition
  <2> QED BY <1>2, <2>3, <2>4 DEF Deliver
<1>3. CASE RefreshFirst
  <2>1. UNCHANGED keychain /\ api.pc = "answered" /\ \E r : api' = [api EXCEPT !.pc = "refreshing", !.reply = r]
    BY <1>3 DEF RefreshFirst
  <2>2. KeepsCall
    BY <1>0, <2>1 DEF KeepsCall, ApiSet
  <2>3. CASE UNCHANGED <<memory, jobs>>
    BY <2>1, <2>2, <2>3, AskedQuiet DEF memory, jobs, keychain
  <2>4. ASSUME NEW j \in Jobs, StartRefresh(j), UNCHANGED <<gen, persistent, store, volatile, booted, credQ>>
        PROVE  Asked'
    <3>1. Anew(j, "refresh", "read", gen)
      BY <2>4, Beginnings
    <3>2. Elsewhere(j) /\ Helps(j)'
      BY <3>1 DEF Anew, Bare, Helps, Ours
    <3> QED BY <2>1, <2>2, <2>4, <3>2, OursLeft, AskedMoves DEF keychain
  <2> QED BY <1>3, <2>3, <2>4 DEF RefreshFirst
<1> QED BY <1>1, <1>2, <1>3, AskAsked DEF ApiStep

LEMMA InitAsked == Init => Asked
  BY DEF Init, Asked, Asks, NoApi

\* The step of the induction.
LEMMA NextAsked == Types /\ Turns /\ Kept /\ Asked /\ [Next]_vars => Asked'
<1> SUFFICES ASSUME Types, Turns, Kept, Asked, [Next]_vars PROVE Asked'
  OBVIOUS
<1>0. Fading
  BY ServerFades
<1>1. CASE \E j \in Jobs : Start(j)
  BY <1>0, <1>1, StartAsked
<1>2. CASE \E j \in Jobs : Step(j)
  BY <1>0, <1>2, ReadTokenAsked, AskingAsked, AcceptAsked, AcceptingAsked, ClearingAsked DEF Step
<1>3. CASE RevokeStep
  <2>1. UNCHANGED <<gen, store, volatile, disk, pc, api>>
    BY <1>3, RevokeStepGoes DEF memory
  <2> QED BY <1>0, <1>3, <2>1, RevokeStepGoes, AskedQuiet DEF KeepsCall
<1>4. CASE ApiStep
  BY <1>0, <1>4, ApiStepAsked
<1>5. CASE Foreground \/ EndElsewhere \/ UNCHANGED vars
  <2>1. UNCHANGED <<memory, jobs, keychain, api>>
    BY <1>5 DEF Foreground, EndElsewhere, vars
  <2> QED BY <1>0, <2>1, AskedQuiet DEF memory, jobs, keychain, KeepsCall
<1>6. CASE GoOffline
  <2>1. UNCHANGED <<gen, volatile, disk, pc, job, api>>
    BY <1>6 DEF GoOffline, jobs, keychain
  <2>2. store'.user = store.user
    BY <1>6, Sworn DEF GoOffline, StoreSet
  <2> QED BY <1>0, <2>1, <2>2, AskedQuiet DEF KeepsCall
<1>7. CASE Crash
  <2>1. api'.pc = "idle"
    BY <1>7 DEF Crash, NoApi
  <2> QED BY <2>1 DEF Asked, Asks
<1> QED BY <1>1, <1>2, <1>3, <1>4, <1>5, <1>6, <1>7 DEF Next

\* Nothing but the delivery of an answer of this generation delivers one.
LEMMA OnlyDelivers ==
    ASSUME Types, [Next]_vars, Answers
    PROVE  Asks
<1>0. api \in ApiSet(Named)
  BY Sworn
<1>1. CASE Deliver
  BY <1>1 DEF Deliver, SameGeneration, Asks
<1>2. CASE Ask \/ ApiServe \/ Refuse \/ RefreshFirst \/ Retry \/ ApiDone
  <2>1. CASE Ask
    <3>1. PICK all \in BOOLEAN : api' = [NoApi EXCEPT !.pc = "sent", !.gen = gen, !.user = store.user,
                                         !.tok = store.access, !.all = all]
      BY <2>1 DEF Ask
    <3> QED BY <3>1 DEF Answers, NoApi
  <2>2. CASE ApiDone
    BY <2>2 DEF ApiDone, Answers, NoApi
  <2>3. CASE ApiServe \/ Refuse \/ RefreshFirst \/ Retry
    <3>1. \/ \E r : api' = [api EXCEPT !.pc = "answered", !.reply = r]
          \/ \E r : api' = [api EXCEPT !.pc = "refreshing", !.reply = r]
          \/ api' = [api EXCEPT !.pc = "failed", !.reply = "none"]
          \/ api' = [api EXCEPT !.pc = "sent", !.retried = TRUE]
      BY <2>3 DEF ApiServe, Refuse, RefreshFirst, Retry, ApiFails
    <3> QED BY <1>0, <3>1 DEF ApiSet, Answers
  <2> QED BY <1>2, <2>1, <2>2, <2>3
<1>3. CASE Crash
  BY <1>3 DEF Crash, Answers, NoApi
<1>4. ASSUME NEW j \in Jobs, NEW tok, Settle(j, tok) PROVE FALSE
  BY <1>4, SettleGoes DEF Answers
<1>5. ASSUME UNCHANGED api PROVE FALSE
  BY <1>5 DEF Answers
<1>6. CASE \E j \in Jobs : Start(j)
  BY <1>5, <1>6 DEF Start, Hydrate, Resume, Login, Logout, Reset
<1>7. ASSUME NEW j \in Jobs, Step(j) PROVE FALSE
  <2>1. CASE ReadCopy(j) \/ Serve(j) \/ LoseAnswer(j) \/ Accept(j) \/ Written(j) \/ LeaveSession(j)
    BY <1>5, <2>1 DEF ReadCopy, Serve, LoseAnswer, Accept, Written, LeaveSession
  <2>2. CASE ReadTokenFails(j) \/ Copied(j) \/ Reject(j) \/ Unwritten(j) \/ Unkept(j) \/ Join(j)
    BY <1>4, <1>5, <2>2 DEF ReadTokenFails, Copied, Reject, Unwritten, Unkept, Join
  <2>3. CASE ReadToken(j)
    BY <1>4, <1>5, <2>3 DEF ReadToken, GiveUp
  <2>4. CASE Receive(j)
    BY <1>4, <1>5, <2>4 DEF Receive, Fails, GiveUp
  <2>5. CASE Clear(j) \/ Wiped(j)
    BY <1>4, <1>5, <2>5 DEF Clear, Wiped, AfterClear
  <2> QED BY <1>7, <2>1, <2>2, <2>3, <2>4, <2>5 DEF Step
<1>8. CASE RevokeStep
  BY <1>5, <1>8, RevokeStepGoes
<1>9. CASE Foreground \/ GoOffline \/ EndElsewhere \/ UNCHANGED vars
  BY <1>5, <1>9 DEF Foreground, GoOffline, EndElsewhere, vars
<1> QED BY <1>1, <1>2, <1>3, <1>6, <1>7, <1>8, <1>9 DEF Next, ApiStep

\* No answer is handed over while another account than the one that asked is on
\* screen.
THEOREM AnswersStayHome == Spec => AnswerReachesItsAccount
<1>1. Init => Types /\ Turns /\ Kept /\ Asked
  BY InitTypes, InitTurns, InitKept, InitAsked
<1>2. Types /\ Turns /\ Kept /\ Asked /\ [Next]_vars => Types' /\ Turns' /\ Kept' /\ Asked'
  BY NextTypes, NextTurns, NextKept, NextAsked
<1>3. Types /\ Asked /\ [Next]_vars
        => [api'.pc = "delivered" /\ api.pc # "delivered" => store.user \in {api.user, None}]_vars
  BY OnlyDelivers DEF Asked, Answers
<1> QED BY <1>1, <1>2, <1>3, PTL DEF Spec, AnswerReachesItsAccount
=============================================================================
