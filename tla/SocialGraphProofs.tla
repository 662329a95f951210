------------------------- MODULE SocialGraphProofs -------------------------
(***************************************************************************)
(* Proofs about SocialGraph, for any number of members, requests, nonces   *)
(* and pairs.  That a block severs, that a public profile leaves nobody    *)
(* pending and that messages pass between mutual followers only are not    *)
(* inductive: they need that what a request read is still true when it     *)
(* commits (ReadHolds, DecisionHolds), which rests on the locks excluding  *)
(* each other (RowExclusive, LocksExclusive).                              *)
(***************************************************************************)
EXTENDS SocialGraph, FiniteSetTheorems, TLAPS

Data == <<public, follows, blocks, asked, messages>>

Paired ==
    \A r \in Requests :
      req[r].at # "idle" /\ req[r].op \notin Profile => req[r].me # req[r].peer

Routed == \A r \in Requests : req[r].op \in Profile => req[r].at \in {"idle", "row", "write"}

RowExclusive ==
    \A r, s \in Requests, u \in Users :
      r # s /\ HoldsRow(r, u) => ~HoldsRow(s, u) /\ ~HoldsRowShare(s, u)

LocksExclusive ==
    \A r, s \in Requests, u \in Users :
      r # s /\ HoldsAdvisory(r, u) => ~HoldsAdvisory(s, u)

ReadHolds ==
    \A r \in Requests :
      req[r].op = "follow" /\ req[r].at \in {"first", "second", "body", "write"}
      => req[r].seen = public[req[r].peer]

DecisionHolds ==
    \A r \in Requests :
      req[r].at = "write" /\ req[r].op \in {"follow", "accept", "send"}
      => /\ ~Blocked(req[r].me, req[r].peer)
         /\ req[r].op = "send" => /\ Mutual(req[r].me, req[r].peer)
                                  /\ ~NonceUsed(req[r].me, req[r].nonce)

Locks == Paired /\ Routed /\ RowExclusive /\ LocksExclusive
Facts == ReadHolds /\ DecisionHolds /\ BlockSevers /\ PublicHasNoPending /\ AskedIsPending
IInv  == TypeOK /\ Locks /\ Facts

\* An idle request is a request.
LEMMA IdleType == Idle \in Request /\ Idle.at = "idle" /\ Idle.op = "hide" /\ Idle.nonce \in Nonces
  BY SocialAssumption DEF Idle, Request, Ops, Profile, Shares, Places

\* Both members' locks are named by the pair, in either order.
LEMMA LockPair ==
    ASSUME NEW u \in Users, NEW v \in Users
    PROVE  /\ LockOrder(u, v) = LockOrder(v, u)
           /\ LockOrder(u, v)[1] \in Users /\ LockOrder(u, v)[2] \in Users
           /\ {LockOrder(u, v)[1], LockOrder(u, v)[2]} = {u, v}
  BY SocialAssumption, SMT DEF LockOrder

\* Two members' locks are taken in the order of their ids.
LEMMA LockClimb ==
    ASSUME NEW u \in Users, NEW v \in Users, u # v
    PROVE  LockOrder(u, v)[2] > LockOrder(u, v)[1]
<1>1. u \in Nat /\ v \in Nat
  BY SocialAssumption
<1> QED BY <1>1, SMT DEF LockOrder

-----------------------------------------------------------------------------
(* Types *)

\* The initial state satisfies the invariant.
LEMMA InitIInv == ASSUME Init PROVE IInv
<1>1. \A r \in Requests : req[r] = Idle
  BY DEF Init
<1>2. TypeOK
  BY IdleType DEF Init, TypeOK
<1>3. Locks
  BY <1>1, IdleType DEF Locks, Paired, Routed, RowExclusive, LocksExclusive, HoldsRow,
     HoldsAdvisory
<1>4. Facts
  BY <1>1, IdleType DEF Facts, ReadHolds, DecisionHolds, BlockSevers, PublicHasNoPending,
     AskedIsPending, Init, Pending, Edges
<1> QED BY <1>2, <1>3, <1>4 DEF IInv

\* A commit leaves its request idle and is one of the nine operations.
LEMMA CommitCases ==
    ASSUME TypeOK, NEW r \in Requests, Commit(r)
    PROVE  /\ req[r].at = "write" /\ Granted(r)
           /\ req' = [req EXCEPT ![r] = Idle]
           /\ \E u, v \in Users :
                /\ u = req[r].me /\ v = req[r].peer
                /\ \/ Follow(r, u, v) \/ Unfollow(r, u, v) \/ Accept(r, u, v) \/ Reject(r, u, v)
                   \/ Block(r, u, v) \/ Unblock(r, u, v) \/ Send(r, u, v)
                   \/ u = v /\ (Publish(r, u) \/ Hide(r, u))
<1>1. PICK u \in Users, v \in Users :
          \/ Follow(r, u, v) \/ Unfollow(r, u, v) \/ Accept(r, u, v) \/ Reject(r, u, v)
          \/ Block(r, u, v) \/ Unblock(r, u, v) \/ Send(r, u, v)
          \/ u = v /\ (Publish(r, u) \/ Hide(r, u))
  BY Zenon DEF Commit
<1>2. \E op \in Ops : Commits(r, op, u, v)
  BY <1>1 DEF Follow, Unfollow, Accept, Reject, Block, Unblock, Send, Publish, Hide,
     Ops, Shares, Profile
<1>3. /\ req[r].at = "write" /\ Granted(r)
      /\ u = req[r].me /\ v = req[r].peer
      /\ req' = [req EXCEPT ![r] = Idle]
  BY <1>2 DEF Commits
<1> QED BY <1>1, <1>3

\* What a step that is no commit does: it moves one request and writes nothing.
LEMMA MoveCases ==
    ASSUME TypeOK, NEW r \in Requests,
           Arrive(r) \/ LockTarget(r) \/ LockProfile(r) \/ LockFirst(r) \/ LockSecond(r)
             \/ Decide(r) \/ Abort(r)
    PROVE  \E x \in Request : req' = [req EXCEPT ![r] = x] /\ UNCHANGED Data
<1>1. CASE Arrive(r)
  <2>1. \E op \in Ops, me \in Users, peer \in Users, n \in Nonces : Begin(r, op, me, peer, n)
    <3>1. \A p \in Pairs : p[1] \in Users /\ p[2] \in Users
      BY SocialAssumption
    <3>2. Ops \ (Profile \cup {"send"}) \subseteq Ops /\ "send" \in Ops /\ Profile \subseteq Ops
      BY DEF Ops, Shares
    <3>3. CASE \E p \in Pairs, op \in Ops \ (Profile \cup {"send"}) :
                 Begin(r, op, p[1], p[2], Idle.nonce)
      BY <3>1, <3>2, <3>3, IdleType
    <3>4. CASE \E p \in Pairs, n \in Nonces : Begin(r, "send", p[1], p[2], n)
      BY <3>1, <3>2, <3>4
    <3>5. CASE \E p \in Pairs, op \in Profile : Begin(r, op, p[2], p[2], Idle.nonce)
      BY <3>1, <3>2, <3>5, IdleType
    <3> QED BY <1>1, <3>3, <3>4, <3>5 DEF Arrive
  <2>0. PICK op \in Ops, me \in Users, peer \in Users, n \in Nonces : Begin(r, op, me, peer, n)
    BY <2>1
  <2>2. [op |-> op, me |-> me, peer |-> peer, nonce |-> n, seen |-> FALSE,
         at |-> IF op \in Shares \cup Profile THEN "row" ELSE "first"] \in Request
    BY DEF Request, Places
  <2> QED BY <2>0, <2>2 DEF Begin, Data
<1>2. CASE LockTarget(r)
  <2> DEFINE x == [req[r] EXCEPT !.at = "first", !.seen = public[req[r].peer]]
  <2>1. x \in Request
    BY DEF TypeOK, Request, Places
  <2>2. req' = [req EXCEPT ![r] = x] /\ UNCHANGED Data
    BY <1>2 DEF LockTarget, Data, TypeOK
  <2> QED BY <2>1, <2>2
<1>3. CASE LockProfile(r) \/ Decide(r)
  <2> DEFINE x == [req[r] EXCEPT !.at = "write"]
  <2>1. x \in Request
    BY DEF TypeOK, Request, Places
  <2>2. req' = [req EXCEPT ![r] = x] /\ UNCHANGED Data
    BY <1>3 DEF LockProfile, Decide, Data, TypeOK
  <2> QED BY <2>1, <2>2
<1>4. CASE LockFirst(r)
  <2> DEFINE x == [req[r] EXCEPT !.at = "second"]
  <2>1. x \in Request
    BY DEF TypeOK, Request, Places
  <2>2. req' = [req EXCEPT ![r] = x] /\ UNCHANGED Data
    BY <1>4 DEF LockFirst, Data, TypeOK
  <2> QED BY <2>1, <2>2
<1>5. CASE LockSecond(r)
  <2> DEFINE x == [req[r] EXCEPT !.at = "body"]
  <2>1. x \in Request
    BY DEF TypeOK, Request, Places
  <2>2. req' = [req EXCEPT ![r] = x] /\ UNCHANGED Data
    BY <1>5 DEF LockSecond, Data, TypeOK
  <2> QED BY <2>1, <2>2
<1>6. CASE Abort(r)
  BY <1>6, IdleType DEF Abort, Data
<1> QED BY <1>1, <1>2, <1>3, <1>4, <1>5, <1>6

\* The requests keep their type.
LEMMA ReqType ==
    ASSUME TypeOK, NEW r \in Requests, Arrive(r) \/ Step(r)
    PROVE  /\ req' \in [Requests -> Request]
           /\ \A s \in Requests : s # r => req'[s] = req[s]
  BY MoveCases, CommitCases, IdleType DEF Step, TypeOK

\* What the members own keeps its type.
LEMMA CommitType ==
    ASSUME TypeOK, Paired, NEW r \in Requests, Commit(r)
    PROVE  TypeOK'
<1>1. PICK u \in Users, v \in Users :
          /\ u = req[r].me /\ v = req[r].peer
          /\ \/ Follow(r, u, v) \/ Unfollow(r, u, v) \/ Accept(r, u, v) \/ Reject(r, u, v)
             \/ Block(r, u, v) \/ Unblock(r, u, v) \/ Send(r, u, v)
             \/ u = v /\ (Publish(r, u) \/ Hide(r, u))
  BY CommitCases
<1>2. req' \in [Requests -> Request]
  BY ReqType DEF Step
<1>3. req[r].op \notin Profile => u # v
  BY <1>1, CommitCases DEF Paired
<1>4. CASE Follow(r, u, v)
  BY <1>1, <1>2, <1>3, <1>4 DEF Follow, Commits, Status, TypeOK, Edges, Profile
<1>5. CASE Unfollow(r, u, v) \/ Accept(r, u, v) \/ Reject(r, u, v)
  BY <1>1, <1>2, <1>3, <1>5 DEF Unfollow, Accept, Reject, Commits, TypeOK, Edges, Profile
<1>6. CASE Block(r, u, v) \/ Unblock(r, u, v)
  BY <1>1, <1>2, <1>3, <1>6 DEF Block, Unblock, Commits, TypeOK, Edges, Profile
<1>7. CASE Send(r, u, v)
  <2>1. req[r].nonce \in Nonces
    BY DEF TypeOK, Request
  <2>2. [from |-> u, to |-> v, nonce |-> req[r].nonce] \in Message
    BY <1>1, <2>1 DEF Message
  <2>3. messages' \in [Message -> Nat]
    BY <1>7, <2>2 DEF Send, TypeOK
  <2> QED BY <1>2, <1>7, <2>3 DEF Send, TypeOK
<1>8. CASE Publish(r, u)
  BY <1>1, <1>2, <1>8 DEF Publish, TypeOK
<1>9. CASE Hide(r, u)
  BY <1>1, <1>2, <1>9 DEF Hide, TypeOK
<1> QED BY <1>1, <1>4, <1>5, <1>6, <1>7, <1>8, <1>9

\* Every step keeps the types.
LEMMA StepType ==
    ASSUME TypeOK, Paired, NEW r \in Requests, Arrive(r) \/ Step(r)
    PROVE  TypeOK'
<1>1. CASE Commit(r)
  BY <1>1, CommitType
<1>2. CASE ~Commit(r)
  BY <1>2, MoveCases, ReqType DEF Step, TypeOK, Data
<1> QED BY <1>1, <1>2

-----------------------------------------------------------------------------
(* Locks *)

Held == {"first", "second", "body", "write"}

\* Where a step leaves its request: at most one place further, its row or its
\* lock granted, or nowhere.
LEMMA Places1 ==
    ASSUME TypeOK, NEW r \in Requests, Arrive(r) \/ Step(r)
    PROVE  \/ req'[r].at \in {"idle", "row"}
           \/ /\ req'[r].op = req[r].op /\ req'[r].me = req[r].me /\ req'[r].peer = req[r].peer
              /\ \/ /\ req[r].at = "row" /\ req'[r].at = "first" /\ Granted(r)
                    /\ req[r].op \in Shares /\ req'[r].seen = public[req[r].peer]
                 \/ /\ req[r].at = "row" /\ req'[r].at = "write" /\ Granted(r)
                    /\ req[r].op \in Profile
                 \/ /\ req'[r].seen = req[r].seen /\ req'[r].nonce = req[r].nonce
                    /\ \/ req[r].at = "first" /\ req'[r].at = "second" /\ Granted(r)
                       \/ req[r].at = "second" /\ req'[r].at = "body" /\ Granted(r)
                       \/ /\ req[r].at = "body" /\ req'[r].at = "write"
                          /\ Allowed(r, req[r].me, req[r].peer) /\ UNCHANGED Data
           \/ req[r].at # "row" /\ req'[r].at = "first" /\ req'[r].op \notin Shares \cup Profile
<1> USE DEF TypeOK, Request
<1>1. CASE Arrive(r)
  <2>1. PICK op, me, peer, n : op \in Ops /\ Begin(r, op, me, peer, n)
    BY <1>1 DEF Arrive, Ops, Shares
  <2>2. req'[r] = [op |-> op, me |-> me, peer |-> peer, nonce |-> n, seen |-> FALSE,
                   at |-> IF op \in Shares \cup Profile THEN "row" ELSE "first"]
    BY <2>1 DEF Begin
  <2>3. req[r].at = "idle"
    BY <2>1 DEF Begin
  <2> QED BY <2>2, <2>3
<1>2. CASE LockTarget(r)
  <2>1. req'[r] = [req[r] EXCEPT !.at = "first", !.seen = public[req[r].peer]]
    BY <1>2 DEF LockTarget
  <2> QED BY <1>2, <2>1 DEF LockTarget
<1>3. CASE LockProfile(r)
  <2>1. req'[r] = [req[r] EXCEPT !.at = "write"]
    BY <1>3 DEF LockProfile
  <2> QED BY <1>3, <2>1 DEF LockProfile
<1>4. CASE LockFirst(r)
  <2>1. req'[r] = [req[r] EXCEPT !.at = "second"]
    BY <1>4 DEF LockFirst
  <2> QED BY <1>4, <2>1 DEF LockFirst
<1>5. CASE LockSecond(r)
  <2>1. req'[r] = [req[r] EXCEPT !.at = "body"]
    BY <1>5 DEF LockSecond
  <2> QED BY <1>5, <2>1 DEF LockSecond
<1>6. CASE Decide(r)
  <2>1. req'[r] = [req[r] EXCEPT !.at = "write"]
    BY <1>6 DEF Decide
  <2> QED BY <1>6, <2>1 DEF Decide, Data
<1>7. CASE Commit(r) \/ Abort(r)
  <2>1. req' = [req EXCEPT ![r] = Idle]
    BY <1>7, CommitCases DEF Abort
  <2> QED BY <2>1, IdleType
<1> QED BY <1>1, <1>2, <1>3, <1>4, <1>5, <1>6, <1>7 DEF Step

\* The requests a lock excludes keep excluding each other.
LEMMA StepLocks ==
    ASSUME IInv, NEW q \in Requests, Arrive(q) \/ Step(q)
    PROVE  Locks'
<1>1. TypeOK /\ Locks
  BY DEF IInv
<1>2. /\ req' \in [Requests -> Request]
      /\ \A s \in Requests : s # q => req'[s] = req[s]
  BY <1>1, ReqType
<1>3. Paired'
  <2>1. CASE Arrive(q)
    <3>1. PICK op, me, peer, n :
              /\ Begin(q, op, me, peer, n)
              /\ op \notin Profile => me # peer
      <4>1. \A p \in Pairs : p[1] # p[2]
        BY SocialAssumption
      <4> QED BY <2>1, <4>1 DEF Arrive, Ops, Shares, Profile
    <3>2. req'[q].op = op /\ req'[q].me = me /\ req'[q].peer = peer
      BY <1>1, <3>1 DEF Begin, TypeOK
    <3> QED BY <1>1, <1>2, <3>1, <3>2 DEF Locks, Paired
  <2>2. CASE Step(q)
    <3>1. \/ req'[q].at = "idle"
          \/ /\ req[q].at # "idle"
             /\ req'[q].op = req[q].op /\ req'[q].me = req[q].me /\ req'[q].peer = req[q].peer
      <4>1. CASE Commit(q) \/ Abort(q)
        BY <1>1, <4>1, CommitCases, IdleType DEF Abort, TypeOK
      <4>2. CASE ~(Commit(q) \/ Abort(q))
        BY <1>1, <2>2, <4>2 DEF Step, LockTarget, LockProfile, LockFirst, LockSecond, Decide,
           TypeOK, Request
      <4> QED BY <4>1, <4>2
    <3> QED BY <1>1, <1>2, <3>1 DEF Locks, Paired
  <2> QED BY <2>1, <2>2
<1>4. ASSUME NEW r \in Requests, NEW s \in Requests, NEW u \in Users, r # s, HoldsRow(r, u)'
      PROVE  ~HoldsRow(s, u)' /\ ~HoldsRowShare(s, u)'
  <2>1. CASE r # q /\ s # q
    BY <1>1, <1>2, <1>4, <2>1 DEF HoldsRow, HoldsRowShare, Locks, RowExclusive
  <2>2. CASE r = q
    <3>1. req'[s] = req[s]
      BY <1>2, <1>4, <2>2
    <3>2. req'[q].at = "write" /\ req'[q].op \in Profile /\ u = req'[q].me
      BY <1>4, <2>2 DEF HoldsRow
    <3>3. HoldsRow(q, u) \/ (Granted(q) /\ req[q].at = "row" /\ req[q].op \in Profile /\ u = req[q].me)
      BY <1>1, <3>2, Places1 DEF HoldsRow, Locks, Routed
    <3>4. CASE HoldsRow(q, u)
      BY <1>1, <1>4, <2>2, <3>1, <3>4 DEF HoldsRow, HoldsRowShare, Locks, RowExclusive
    <3>5. CASE Granted(q) /\ req[q].at = "row" /\ req[q].op \in Profile /\ u = req[q].me
      <4>1. ~HoldsRow(s, u) /\ ~HoldsRowShare(s, u)
        BY <1>4, <2>2, <3>5 DEF Granted, Waits
      <4> QED BY <3>1, <4>1 DEF HoldsRow, HoldsRowShare
    <3> QED BY <3>3, <3>4, <3>5
  <2>3. CASE s = q
    <3>1. req'[r] = req[r] /\ HoldsRow(r, u)
      BY <1>2, <1>4, <2>3 DEF HoldsRow
    <3>2. ~HoldsRow(q, u) /\ ~HoldsRowShare(q, u)
      BY <1>1, <1>4, <2>3, <3>1 DEF Locks, RowExclusive
    <3>3. Granted(q) => ~(req[q].at = "row" /\ req[q].op \in Shares /\ u = req[q].peer)
      BY <1>4, <2>3, <3>1 DEF Granted, Waits
    <3>4. Granted(q) => ~(req[q].at = "row" /\ req[q].op \in Profile /\ u = req[q].me)
      BY <1>4, <2>3, <3>1 DEF Granted, Waits
    <3>5. req[q].op \in Profile => req[q].at \in {"idle", "row", "write"}
      BY <1>1 DEF Locks, Routed
    <3>6. ~HoldsRow(q, u)'
      BY <1>1, <3>2, <3>4, <3>5, Places1 DEF HoldsRow
    <3>7. ~HoldsRowShare(q, u)'
      BY <1>1, <3>2, <3>3, Places1 DEF HoldsRowShare, Shares
    <3> QED BY <2>3, <3>6, <3>7
  <2> QED BY <2>1, <2>2, <2>3
<1>5. ASSUME NEW s \in Requests, NEW u \in Users, s # q, HoldsAdvisory(q, u)'
      PROVE  ~HoldsAdvisory(s, u)'
  <2>1. req'[s] = req[s]
    BY <1>2, <1>5
  <2>2. HoldsAdvisory(s, u)' <=> HoldsAdvisory(s, u)
    BY <2>1 DEF HoldsAdvisory, FirstLock, SecondLock
  <2>3. \/ HoldsAdvisory(q, u)
        \/ Granted(q) /\ req[q].at = "first" /\ u = FirstLock(q)
        \/ Granted(q) /\ req[q].at = "second" /\ u = SecondLock(q)
    BY <1>1, <1>5, Places1 DEF HoldsAdvisory, FirstLock, SecondLock, Shares, Profile
  <2>4. Granted(q) /\ req[q].at = "first" /\ u = FirstLock(q) => ~HoldsAdvisory(s, u)
    BY <1>5 DEF Granted, Waits
  <2>5. Granted(q) /\ req[q].at = "second" /\ u = SecondLock(q) => ~HoldsAdvisory(s, u)
    BY <1>5 DEF Granted, Waits
  <2>6. HoldsAdvisory(q, u) => ~HoldsAdvisory(s, u)
    BY <1>1, <1>5 DEF Locks, LocksExclusive
  <2> QED BY <2>2, <2>3, <2>4, <2>5, <2>6
<1>6. ASSUME NEW r \in Requests, NEW s \in Requests, NEW u \in Users, r # s, HoldsAdvisory(r, u)'
      PROVE  ~HoldsAdvisory(s, u)'
  <2>1. CASE r # q /\ s # q
    <3>1. req'[r] = req[r] /\ req'[s] = req[s]
      BY <1>2, <2>1
    <3> QED BY <1>1, <1>6, <3>1 DEF HoldsAdvisory, FirstLock, SecondLock, Locks, LocksExclusive
  <2> QED BY <1>5, <1>6, <2>1
<1>7. Routed'
  <2>1. req'[q].op \in Profile => req'[q].at \in {"idle", "row", "write"}
    BY <1>1, Places1 DEF Locks, Routed, Shares, Profile
  <2> QED BY <1>1, <1>2, <2>1 DEF Locks, Routed
<1> QED BY <1>3, <1>4, <1>6, <1>7 DEF Locks, RowExclusive, LocksExclusive

-----------------------------------------------------------------------------
(* Facts *)

\* A request at its commit holds the locks of both its members.
LEMMA HoldsBoth ==
    ASSUME TypeOK, NEW r \in Requests, req[r].at = "write", req[r].op \notin Profile
    PROVE  HoldsAdvisory(r, req[r].me) /\ HoldsAdvisory(r, req[r].peer)
<1>1. req[r].me \in Users /\ req[r].peer \in Users
  BY DEF TypeOK, Request
<1> QED BY <1>1, SocialAssumption, SMT DEF HoldsAdvisory, FirstLock, SecondLock, LockOrder

\* What two members own jointly is written under both locks, and only a
\* profile's owner writes it and turns who waits for him into followers.
Jointly(q) ==
    /\ req[q].op \notin Profile
    /\ public' = public
    /\ \A p \in Edges : p \notin {<<req[q].me, req[q].peer>>, <<req[q].peer, req[q].me>>}
         => follows'[p] = follows[p] /\ (p \in blocks' <=> p \in blocks)
    /\ \A m \in Message : messages'[m] # messages[m] =>
         m.from = req[q].me /\ m.to = req[q].peer /\ m.nonce = req[q].nonce

Alone(q) ==
    /\ req[q].op \in Profile
    /\ blocks' = blocks /\ messages' = messages
    /\ \A u \in Users : u # req[q].me => public'[u] = public[u]
    /\ \A p \in Edges :
         \/ follows'[p] = follows[p]
         \/ follows[p] = "pending" /\ follows'[p] = "accepted"

LEMMA CommitWrites ==
    ASSUME TypeOK, Locks, NEW q \in Requests, Commit(q)
    PROVE  req[q].at = "write" /\ (Jointly(q) \/ Alone(q))
<1>1. PICK u \in Users, v \in Users :
          /\ u = req[q].me /\ v = req[q].peer
          /\ \/ Follow(q, u, v) \/ Unfollow(q, u, v) \/ Accept(q, u, v) \/ Reject(q, u, v)
             \/ Block(q, u, v) \/ Unblock(q, u, v) \/ Send(q, u, v)
             \/ u = v /\ (Publish(q, u) \/ Hide(q, u))
  BY CommitCases
<1>2. req[q].at = "write"
  BY CommitCases
<1>3. CASE Follow(q, u, v)
  BY <1>1, <1>2, <1>3 DEF Follow, Commits, Jointly, Profile, TypeOK
<1>4. CASE Unfollow(q, u, v) \/ Accept(q, u, v) \/ Reject(q, u, v)
  BY <1>1, <1>2, <1>4 DEF Unfollow, Accept, Reject, Commits, Jointly, Profile, TypeOK
<1>5. CASE Block(q, u, v) \/ Unblock(q, u, v)
  BY <1>1, <1>2, <1>5 DEF Block, Unblock, Commits, Jointly, Profile, TypeOK
<1>6. CASE Send(q, u, v)
  BY <1>1, <1>2, <1>6 DEF Send, Commits, Jointly, Profile, TypeOK
<1>7. CASE Publish(q, u)
  BY <1>1, <1>2, <1>7 DEF Publish, Commits, Alone, Profile, TypeOK, Pending
<1>8. CASE Hide(q, u)
  BY <1>1, <1>2, <1>8 DEF Hide, Commits, Alone, Profile, TypeOK
<1> QED BY <1>1, <1>2, <1>3, <1>4, <1>5, <1>6, <1>7, <1>8

\* A step that commits nothing leaves the facts, and grounds the new ones.
LEMMA MoveFacts ==
    ASSUME IInv, NEW q \in Requests, Arrive(q) \/ Step(q), ~Commit(q)
    PROVE  Facts'
<1>1. TypeOK /\ Locks /\ Facts
  BY DEF IInv
<1>2. /\ req' \in [Requests -> Request]
      /\ \A s \in Requests : s # q => req'[s] = req[s]
  BY <1>1, ReqType
<1>3. UNCHANGED Data
  BY <1>1, MoveCases DEF Step
<1>4. ReadHolds'
  <2>1. req'[q].op = "follow" /\ req'[q].at \in {"first", "second", "body", "write"}
        => req'[q].seen = public[req'[q].peer]
    <3>1. req[q].op = "follow" /\ req[q].at \in {"first", "second", "body", "write"}
          => req[q].seen = public[req[q].peer]
      BY <1>1 DEF Facts, ReadHolds
    <3> QED BY <1>1, <3>1, Places1 DEF Shares, Profile
  <2> QED BY <1>1, <1>2, <1>3, <2>1 DEF Facts, ReadHolds, Data
<1>5. DecisionHolds'
  <2>1. ASSUME req'[q].at = "write", req'[q].op \in {"follow", "accept", "send"}
        PROVE  /\ ~Blocked(req'[q].me, req'[q].peer)
               /\ req'[q].op = "send" => /\ Mutual(req'[q].me, req'[q].peer)
                                         /\ ~NonceUsed(req'[q].me, req'[q].nonce)
    <3>1. /\ req'[q].op = req[q].op /\ req'[q].me = req[q].me /\ req'[q].peer = req[q].peer
          /\ req'[q].nonce = req[q].nonce
          /\ Allowed(q, req[q].me, req[q].peer)
      BY <1>1, <2>1, Places1 DEF Profile
    <3> QED BY <2>1, <3>1 DEF Allowed
  <2>2. \A r \in Requests : r # q => req'[r] = req[r]
    BY <1>2
  <2> QED BY <1>1, <1>3, <2>1, <2>2 DEF Facts, DecisionHolds, Blocked, Mutual, NonceUsed, Data
<1>6. BlockSevers' /\ PublicHasNoPending' /\ AskedIsPending'
  BY <1>1, <1>3 DEF Facts, BlockSevers, PublicHasNoPending, AskedIsPending, Pending, Data
<1> QED BY <1>4, <1>5, <1>6 DEF Facts

\* What another request read and decided on is still true after a commit.
LEMMA CommitKeepsRead ==
    ASSUME IInv, NEW q \in Requests, Commit(q)
    PROVE  ReadHolds' /\ DecisionHolds'
<1>1. TypeOK /\ Locks /\ Facts
  BY DEF IInv
<1>2. /\ req'[q].at = "idle"
      /\ \A s \in Requests : s # q => req'[s] = req[s]
  BY <1>1, CommitCases, IdleType DEF TypeOK
<1>3. req[q].at = "write" /\ (Jointly(q) \/ Alone(q))
  BY <1>1, CommitWrites
<1>4. ASSUME NEW r \in Requests, r # q, req[r].op = "follow",
             req[r].at \in {"first", "second", "body", "write"}
      PROVE  public'[req[r].peer] = public[req[r].peer]
  <2>1. req[r].peer \in Users /\ req[q].me \in Users
    BY <1>1 DEF TypeOK, Request
  <2>2. CASE Jointly(q)
    BY <2>2 DEF Jointly
  <2>3. CASE Alone(q)
    <3>1. HoldsRow(q, req[q].me)
      BY <1>3, <2>3 DEF HoldsRow, Alone
    <3>2. HoldsRowShare(r, req[r].peer)
      BY <1>4 DEF HoldsRowShare, Shares
    <3>3. req[r].peer # req[q].me
      BY <1>1, <1>4, <2>1, <3>1, <3>2 DEF Locks, RowExclusive
    <3> QED BY <2>1, <2>3, <3>3 DEF Alone
  <2> QED BY <1>3, <2>2, <2>3
<1>5. ReadHolds'
  BY <1>1, <1>2, <1>4 DEF Facts, ReadHolds
<1>6. ASSUME NEW r \in Requests, r # q, req[r].at = "write",
             req[r].op \in {"follow", "accept", "send"}
      PROVE  /\ ~Blocked(req[r].me, req[r].peer)'
             /\ req[r].op = "send" => /\ Mutual(req[r].me, req[r].peer)'
                                      /\ ~NonceUsed(req[r].me, req[r].nonce)'
  <2>0. req'[r] = req[r]
    BY <1>2, <1>6
  <2> DEFINE a == req[r].me
             b == req[r].peer
  <2>1. a \in Users /\ b \in Users /\ req[q].me \in Users /\ req[q].peer \in Users
    BY <1>1 DEF TypeOK, Request
  <2>2. a # b
    BY <1>1, <1>6 DEF Locks, Paired, Profile
  <2>3. <<a, b>> \in Edges /\ <<b, a>> \in Edges
    BY <2>1, <2>2 DEF Edges
  <2>4. /\ ~Blocked(a, b)
        /\ req[r].op = "send" => Mutual(a, b) /\ ~NonceUsed(a, req[r].nonce)
    BY <1>1, <1>6 DEF Facts, DecisionHolds
  <2>5. CASE Jointly(q)
    <3>1. HoldsAdvisory(q, req[q].me) /\ HoldsAdvisory(q, req[q].peer)
      BY <1>1, <1>3, <2>5, HoldsBoth DEF Jointly
    <3>2. HoldsAdvisory(r, a) /\ HoldsAdvisory(r, b)
      BY <1>1, <1>6, HoldsBoth DEF Profile
    <3>3. a \notin {req[q].me, req[q].peer} /\ b \notin {req[q].me, req[q].peer}
      BY <1>1, <1>6, <2>1, <3>1, <3>2 DEF Locks, LocksExclusive
    <3>4. /\ <<a, b>> \notin {<<req[q].me, req[q].peer>>, <<req[q].peer, req[q].me>>}
          /\ <<b, a>> \notin {<<req[q].me, req[q].peer>>, <<req[q].peer, req[q].me>>}
      BY <3>3
    <3>5. /\ follows'[<<a, b>>] = follows[<<a, b>>] /\ follows'[<<b, a>>] = follows[<<b, a>>]
          /\ <<a, b>> \in blocks' <=> <<a, b>> \in blocks
          /\ <<b, a>> \in blocks' <=> <<b, a>> \in blocks
      BY <2>3, <2>5, <3>4 DEF Jointly
    <3>6. \A m \in Message : messages'[m] # messages[m] => m.from # a
      BY <2>5, <3>3 DEF Jointly
    <3> HIDE DEF a, b
    <3>7. ~(<<a, b>> \in blocks' \/ <<b, a>> \in blocks')
      BY <2>4, <3>5 DEF Blocked
    <3>8. req[r].op = "send" => /\ follows'[<<a, b>>] = "accepted" /\ follows'[<<b, a>>] = "accepted"
                                /\ ~\E m \in Message : m.from = a /\ m.nonce = req[r].nonce /\ messages'[m] > 0
      BY <2>4, <3>5, <3>6 DEF Mutual, NonceUsed
    <3> QED BY <2>0, <3>7, <3>8 DEF a, b, Blocked, Mutual, NonceUsed
  <2>6. CASE Alone(q)
    <3>1. /\ blocks' = blocks /\ messages' = messages
          /\ follows[<<a, b>>] = "accepted" => follows'[<<a, b>>] = "accepted"
          /\ follows[<<b, a>>] = "accepted" => follows'[<<b, a>>] = "accepted"
      BY <2>3, <2>6 DEF Alone
    <3> HIDE DEF a, b
    <3>2. ~(<<a, b>> \in blocks' \/ <<b, a>> \in blocks')
      BY <2>4, <3>1 DEF Blocked
    <3>3. req[r].op = "send" => /\ follows'[<<a, b>>] = "accepted" /\ follows'[<<b, a>>] = "accepted"
                                /\ ~\E m \in Message : m.from = a /\ m.nonce = req[r].nonce /\ messages'[m] > 0
      BY <2>4, <3>1 DEF Mutual, NonceUsed
    <3> QED BY <2>0, <3>2, <3>3 DEF a, b, Blocked, Mutual, NonceUsed
  <2> QED BY <1>3, <2>5, <2>6
<1>7. DecisionHolds'
  <2>1. ASSUME NEW r \in Requests, req'[r].at = "write",
               req'[r].op \in {"follow", "accept", "send"}
        PROVE  /\ ~Blocked(req[r].me, req[r].peer)'
               /\ req'[r].op = "send" => /\ Mutual(req[r].me, req[r].peer)'
                                         /\ ~NonceUsed(req[r].me, req[r].nonce)'
    BY <1>2, <1>6, <2>1
  <2> QED BY <2>1 DEF DecisionHolds
<1> QED BY <1>5, <1>7

\* A commit leaves the relationships of the members sound.
LEMMA CommitKeepsGraph ==
    ASSUME IInv, NEW q \in Requests, Commit(q)
    PROVE  BlockSevers' /\ PublicHasNoPending' /\ AskedIsPending'
<1>1. TypeOK /\ BlockSevers /\ PublicHasNoPending /\ AskedIsPending
  BY DEF IInv, Facts
<1>2. PICK u \in Users, v \in Users :
          /\ u = req[q].me /\ v = req[q].peer
          /\ \/ Follow(q, u, v) \/ Unfollow(q, u, v) \/ Accept(q, u, v) \/ Reject(q, u, v)
             \/ Block(q, u, v) \/ Unblock(q, u, v) \/ Send(q, u, v)
             \/ u = v /\ (Publish(q, u) \/ Hide(q, u))
  BY <1>1, CommitCases
<1>3. req[q].at = "write"
  BY <1>1, CommitCases
<1>4. req[q].op \notin Profile => u # v /\ <<u, v>> \in Edges /\ <<v, u>> \in Edges
  BY <1>2, <1>3 DEF IInv, Locks, Paired, Edges
<1>5. req[q].op \in {"follow", "accept"} => <<u, v>> \notin blocks /\ <<v, u>> \notin blocks
  BY <1>2, <1>3 DEF IInv, Facts, DecisionHolds, Blocked
<1>6. req[q].op = "follow" => req[q].seen = public[v]
  BY <1>2, <1>3 DEF IInv, Facts, ReadHolds
<1>7. CASE Follow(q, u, v)
  <2>1. /\ public \in [Users -> BOOLEAN] /\ follows \in [Edges -> {"none", "pending", "accepted"}]
        /\ blocks \subseteq Edges /\ asked \subseteq Edges
    BY <1>1 DEF TypeOK
  <2> QED
    BY <1>1, <1>4, <1>5, <1>6, <1>7, <2>1 DEF Follow, Commits, Status, BlockSevers,
       PublicHasNoPending, AskedIsPending, Pending, Edges, Profile
<1>8. CASE Unfollow(q, u, v)
  BY <1>1, <1>4, <1>8 DEF Unfollow, Commits, BlockSevers, PublicHasNoPending,
     AskedIsPending, Pending, TypeOK, Edges, Profile
<1>9. CASE Accept(q, u, v)
  BY <1>1, <1>4, <1>5, <1>9 DEF Accept, Commits, BlockSevers, PublicHasNoPending,
     AskedIsPending, Pending, TypeOK, Edges, Profile
<1>10. CASE Reject(q, u, v)
  BY <1>1, <1>4, <1>10 DEF Reject, Commits, BlockSevers, PublicHasNoPending,
     AskedIsPending, Pending, TypeOK, Edges, Profile
<1>11. CASE Block(q, u, v)
  <2>1. /\ <<u, v>> \in Edges /\ <<v, u>> \in Edges /\ u # v
        /\ u \in Users /\ v \in Users
    BY <1>4, <1>11 DEF Block, Commits, Profile
  <2>2. /\ blocks' = blocks \cup {<<u, v>>} /\ public' = public
        /\ asked' = asked \ {<<u, v>>, <<v, u>>}
        /\ follows' = [follows EXCEPT ![<<u, v>>] = "none", ![<<v, u>>] = "none"]
    BY <1>11 DEF Block
  <2>3. \A p \in Edges : follows'[p] = IF p \in {<<u, v>>, <<v, u>>} THEN "none" ELSE follows[p]
    BY <1>1, <2>1, <2>2 DEF TypeOK
  <2>4. \A p \in Edges : p = <<p[1], p[2]>> /\ <<p[2], p[1]>> \in Edges
    BY DEF Edges
  <2>5. BlockSevers'
    <3> SUFFICES ASSUME NEW p \in blocks'
                 PROVE  /\ follows'[p] = "none" /\ follows'[<<p[2], p[1]>>] = "none"
                        /\ p \notin asked' /\ <<p[2], p[1]>> \notin asked'
      BY DEF BlockSevers
    <3>1. CASE p = <<u, v>>
      BY <2>1, <2>2, <2>3, <3>1
    <3>2. CASE p \in blocks
      <4>1. /\ follows[p] = "none" /\ follows[<<p[2], p[1]>>] = "none"
            /\ p \notin asked /\ <<p[2], p[1]>> \notin asked
        BY <1>1, <3>2 DEF BlockSevers
      <4>2. p \in Edges /\ <<p[2], p[1]>> \in Edges
        BY <1>1, <2>4, <3>2 DEF TypeOK
      <4> QED BY <2>2, <2>3, <4>1, <4>2
    <3> QED BY <2>2, <3>1, <3>2
  <2>6. PublicHasNoPending'
    <3>1. \A w \in Users, p \in Edges : public[w] /\ p[2] = w => follows[p] # "pending"
      <4>1. ASSUME NEW w \in Users, NEW p \in Edges, public[w], p[2] = w, follows[p] = "pending"
            PROVE  FALSE
        <5>1. p \in Pending(w)
          BY <4>1 DEF Pending
        <5> QED BY <1>1, <4>1, <5>1 DEF PublicHasNoPending
      <4> QED BY <4>1
    <3>2. \A w \in Users, p \in Edges : public'[w] /\ p[2] = w => follows'[p] # "pending"
      <4>1. \A p \in Edges : follows'[p] = "pending" => follows[p] = "pending"
        BY <2>3
      <4> QED BY <2>2, <3>1, <4>1
    <3>3. \A w \in Users : public'[w] => {p \in Edges : p[2] = w /\ follows'[p] = "pending"} = {}
      BY <3>2
    <3> QED BY <3>3 DEF PublicHasNoPending, Pending, Edges
  <2>7. AskedIsPending'
    <3> SUFFICES ASSUME NEW p \in asked' PROVE follows'[<<p[2], p[1]>>] = "pending"
      BY DEF AskedIsPending
    <3>1. p \in asked /\ p # <<u, v>> /\ p # <<v, u>> /\ p \in Edges
      BY <1>1, <2>2 DEF TypeOK
    <3>2. <<p[2], p[1]>> # <<u, v>> /\ <<p[2], p[1]>> # <<v, u>>
      BY <2>4, <3>1
    <3> QED BY <1>1, <2>3, <2>4, <3>1, <3>2 DEF AskedIsPending
  <2> QED BY <2>5, <2>6, <2>7
<1>12. CASE Unblock(q, u, v) \/ Send(q, u, v)
  BY <1>1, <1>12 DEF Unblock, Send, BlockSevers, PublicHasNoPending, AskedIsPending, Pending
<1>13. CASE Publish(q, u)
  BY <1>1, <1>13 DEF Publish, BlockSevers, PublicHasNoPending, AskedIsPending, Pending, TypeOK,
     Edges
<1>14. CASE Hide(q, u)
  BY <1>1, <1>14 DEF Hide, BlockSevers, PublicHasNoPending, AskedIsPending, Pending, TypeOK
<1> QED BY <1>2, <1>7, <1>8, <1>9, <1>10, <1>11, <1>12, <1>13, <1>14

-----------------------------------------------------------------------------
(* Theorems *)

\* The invariant is inductive.
LEMMA NextIInv == ASSUME IInv, [Next]_vars PROVE IInv'
<1>1. CASE Next
  <2>1. PICK q \in Requests : Arrive(q) \/ Step(q)
    BY <1>1 DEF Next
  <2>2. TypeOK'
    BY <2>1, StepType DEF IInv, Locks
  <2>3. Locks'
    BY <2>1, StepLocks
  <2>4. Facts'
    BY <2>1, MoveFacts, CommitKeepsRead, CommitKeepsGraph DEF Facts
  <2> QED BY <2>2, <2>3, <2>4 DEF IInv
<1>2. CASE UNCHANGED vars
  BY <1>2 DEF vars, IInv, TypeOK, Locks, Paired, Routed, RowExclusive, LocksExclusive, HoldsRow,
     HoldsRowShare, HoldsAdvisory, FirstLock, SecondLock, Facts, ReadHolds, DecisionHolds, Blocked,
     Mutual, NonceUsed, BlockSevers, PublicHasNoPending, AskedIsPending, Pending
<1> QED BY <1>1, <1>2

\* The inductive invariant holds throughout.
LEMMA Inductive == Spec => []IInv
  BY InitIInv, NextIInv, PTL DEF Spec

\* Every variable keeps its type.
THEOREM TypeCorrect == Spec => []TypeOK
  BY Inductive, PTL DEF IInv

\* users.rs, block_user: no follow, request or notification survives a block, nor
\* is one of them made by a request that was in flight when the block was.
THEOREM BlocksSever == Spec => []BlockSevers
<1>1. IInv => BlockSevers
  BY DEF IInv, Facts
<1> QED BY <1>1, Inductive, PTL

\* users.rs, follow_user and update_profile: a request for acceptance and the
\* profile turning public do not miss each other.
THEOREM NobodyLeftPending == Spec => []PublicHasNoPending
<1>1. IInv => PublicHasNoPending
  BY DEF IInv, Facts
<1> QED BY <1>1, Inductive, PTL

\* services/notifications.rs: a notification that asks for a decision has a
\* pending request behind it.
THEOREM AskedArePending == Spec => []AskedIsPending
<1>1. IInv => AskedIsPending
  BY DEF IInv, Facts
<1> QED BY <1>1, Inductive, PTL

\* messages.rs, send_message: what it checked under its locks holds when the
\* message is stored.
THEOREM MutualsOnly == Spec => MessagesBetweenMutuals
<1>1. ASSUME IInv, [Next]_vars, NEW m \in Message, messages'[m] # messages[m]
      PROVE  /\ follows[<<m.from, m.to>>] = "accepted" /\ follows[<<m.to, m.from>>] = "accepted"
             /\ <<m.from, m.to>> \notin blocks /\ <<m.to, m.from>> \notin blocks
             /\ \A k \in Message : k.from = m.from /\ k.nonce = m.nonce => messages[k] = 0
  <2>1. Next
    BY <1>1 DEF vars
  <2>2. PICK q \in Requests : Arrive(q) \/ Step(q)
    BY <2>1 DEF Next
  <2>3. Commit(q)
    BY <1>1, <2>2, MoveCases DEF IInv, Step, Data
  <2>4. PICK u \in Users, v \in Users : u = req[q].me /\ v = req[q].peer /\ Send(q, u, v)
    <3>1. PICK u \in Users, v \in Users :
              /\ u = req[q].me /\ v = req[q].peer
              /\ \/ Follow(q, u, v) \/ Unfollow(q, u, v) \/ Accept(q, u, v) \/ Reject(q, u, v)
                 \/ Block(q, u, v) \/ Unblock(q, u, v) \/ Send(q, u, v)
                 \/ u = v /\ (Publish(q, u) \/ Hide(q, u))
      BY <1>1, <2>3, CommitCases DEF IInv
    <3> QED BY <1>1, <3>1 DEF Follow, Unfollow, Accept, Reject, Block, Unblock, Publish, Hide
  <2>5. m = [from |-> u, to |-> v, nonce |-> req[q].nonce]
    BY <1>1, <2>4 DEF Send, IInv, Locks, TypeOK
  <2>6. req[q].at = "write" /\ req[q].op = "send"
    BY <2>4 DEF Send, Commits
  <2>7. ~Blocked(u, v) /\ Mutual(u, v) /\ ~NonceUsed(u, req[q].nonce)
    BY <1>1, <2>4, <2>6 DEF IInv, Facts, DecisionHolds
  <2>8. messages \in [Message -> Nat]
    BY <1>1 DEF IInv, TypeOK
  <2> QED BY <2>5, <2>7, <2>8 DEF Blocked, Mutual, NonceUsed
<1>2. ASSUME IInv, [Next]_vars
      PROVE  [\A m \in Message : messages'[m] # messages[m] =>
                /\ follows[<<m.from, m.to>>] = "accepted" /\ follows[<<m.to, m.from>>] = "accepted"
                /\ <<m.from, m.to>> \notin blocks /\ <<m.to, m.from>> \notin blocks
                /\ \A k \in Message : k.from = m.from /\ k.nonce = m.nonce => messages[k] = 0]_vars
  BY <1>1, <1>2
<1> QED BY <1>2, Inductive, PTL DEF Spec, MessagesBetweenMutuals

-----------------------------------------------------------------------------
(* Waiting *)

\* Requests each of which waits for another of them are not at work: none of
\* them has come to its writes, so none waits for a profile's update.
LEMMA NobodyAtWork ==
    ASSUME Locks, NEW S \in SUBSET Requests, \A r \in S : \E s \in S : Waits(r, s)
    PROVE  \A r \in S : req[r].at \in {"row", "first", "second"}
<1>1. \A r \in S : req[r].at \in {"row", "first", "second", "write"}
  BY DEF Waits
<1>2. ASSUME NEW r \in S, req[r].at = "write" PROVE FALSE
  <2>1. PICK s \in S : Waits(r, s)
    OBVIOUS
  <2>2. req[s].at = "write" /\ req[s].op \notin Profile
    BY <1>2, <2>1 DEF Waits, Written
  <2>3. PICK t \in S : Waits(s, t)
    OBVIOUS
  <2> QED BY <2>2, <2>3 DEF Waits, Profile
<1> QED BY <1>1, <1>2

\* Each of them leads to one that has its first lock and waits for its second,
\* and that one to another of the kind whose second lock is a later member's.
LEMMA WaitsClimb ==
    ASSUME TypeOK, Locks, NEW S \in SUBSET Requests, \A r \in S : \E s \in S : Waits(r, s)
    PROVE  /\ \A r \in S : req[r].at # "second" =>
                \E s \in S : req[s].at \in {"first", "second"} /\ (req[r].at = "first" => req[s].at = "second")
           /\ \A r \in S : req[r].at = "second" =>
                \E s \in S : req[s].at = "second" /\ SecondLock(s) > SecondLock(r)
<1>1. \A r \in S : req[r].at \in {"row", "first", "second"}
  BY NobodyAtWork
<1>2. ASSUME NEW r \in S, req[r].at # "second"
      PROVE  \E s \in S : req[s].at \in {"first", "second"} /\ (req[r].at = "first" => req[s].at = "second")
  <2>1. PICK s \in S : Waits(r, s)
    OBVIOUS
  <2>2. req[r].at \in {"row", "first"} /\ req[s].at \in {"row", "first", "second"}
    BY <1>1, <1>2
  <2> QED BY <2>1, <2>2 DEF Waits, HoldsRow, HoldsRowShare, HoldsAdvisory
<1>3. ASSUME NEW r \in S, req[r].at = "second"
      PROVE  \E s \in S : req[s].at = "second" /\ SecondLock(s) > SecondLock(r)
  <2>1. PICK s \in S : Waits(r, s)
    OBVIOUS
  <2>2. HoldsAdvisory(s, SecondLock(r))
    BY <1>3, <2>1 DEF Waits
  <2>3. req[s].at = "second" /\ req[s].op \notin Profile /\ FirstLock(s) = SecondLock(r)
    BY <1>1, <2>2 DEF HoldsAdvisory
  <2>4. req[s].me # req[s].peer /\ req[s].me \in Users /\ req[s].peer \in Users
    BY <2>3 DEF Locks, Paired, TypeOK, Request
  <2>5. SecondLock(s) > FirstLock(s)
    BY <2>4, LockClimb, Zenon DEF FirstLock, SecondLock
  <2> QED BY <2>3, <2>5
<1> QED BY <1>2, <1>3

\* services/community_safety.rs, lock_social_relationship_writes, and the users
\* row a share locks before it: whatever the requests in flight, some of them
\* can always go on.
THEOREM NobodyDeadlocks == Spec => []NoDeadlock
<1>1. ASSUME IInv PROVE NoDeadlock
  <2>1. SUFFICES ASSUME NEW S \in SUBSET Requests, S # {}, \A r \in S : \E s \in S : Waits(r, s)
                 PROVE  FALSE
    BY DEF NoDeadlock
  <2>2. TypeOK /\ Locks
    BY <1>1 DEF IInv
  <2>3. \A r \in S : req[r].at \in {"row", "first", "second"}
    BY <2>1, <2>2, NobodyAtWork
  <2>4. \E r \in S : req[r].at = "second"
    BY <2>1, <2>2, <2>3, WaitsClimb
  <2> DEFINE Above(x) == {u \in Users : u > x}
             T == {Above(SecondLock(r)) : r \in {q \in S : req[q].at = "second"}}
  <2>5. IsWellFoundedOn(StrictSubsetOrdering(Users), SUBSET Users)
    BY SocialAssumption, FS_StrictSubsetOrderingWellFounded, FS_FiniteSubsetsOfFinite
  <2>6. T \subseteq SUBSET Users /\ T # {}
    BY <2>4
  <2>7. PICK A \in T : \A B \in T : <<B, A>> \notin StrictSubsetOrdering(Users)
    <3> HIDE DEF T
    <3> QED BY <2>5, <2>6, WFMin
  <2>8. PICK r \in S : req[r].at = "second" /\ A = Above(SecondLock(r))
    OBVIOUS
  <2>9. PICK s \in S : req[s].at = "second" /\ SecondLock(s) > SecondLock(r)
    BY <2>1, <2>2, <2>8, WaitsClimb
  <2>10. SecondLock(s) \in Users /\ SecondLock(r) \in Users
    BY <2>2, LockPair DEF TypeOK, Request, SecondLock
  <2>11. Above(SecondLock(s)) \subseteq Above(SecondLock(r)) /\ SecondLock(s) \in Above(SecondLock(r))
         /\ SecondLock(s) \notin Above(SecondLock(s))
    <3>1. ASSUME NEW x \in Users, NEW y \in Users, y > x
          PROVE  Above(y) \subseteq Above(x) /\ y \in Above(x) /\ y \notin Above(y)
      <4>1. \A u \in Users : u \in Nat
        BY SocialAssumption
      <4> QED BY <3>1, <4>1, SMT
    <3> HIDE DEF Above
    <3> QED BY <2>9, <2>10, <3>1
  <2>12. Above(SecondLock(s)) \in T
    BY <2>9
  <2>13. <<Above(SecondLock(s)), A>> \in StrictSubsetOrdering(Users)
    BY <2>8, <2>11 DEF StrictSubsetOrdering
  <2> QED BY <2>7, <2>12, <2>13
<1> QED BY <1>1, Inductive, PTL

=============================================================================
