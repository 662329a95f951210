---------------------------- MODULE SocialGraph ----------------------------
(***************************************************************************)
(* Follows, blocks, profile visibility and direct messages:                *)
(* backend/src/routes/users.rs (follow_user ... reject_follow_request,     *)
(* update_profile), routes/messages.rs (send_message), services/quota.rs,  *)
(* services/community_safety.rs and services/notifications.rs.             *)
(*                                                                         *)
(* A request is a process.  Its transaction may lock the target's users    *)
(* row (FOR SHARE), takes the advisory locks of the two members in the     *)
(* order of their ids, reads and decides (Decide), and commits what it     *)
(* wrote (Commit); what others commit in between is theirs to see only if  *)
(* the locks let them.  update_profile takes no advisory lock: it keeps    *)
(* the users row from its UPDATE to its commit, and waits for the follows  *)
(* rows others have written.  Any request may end early (an error, a       *)
(* client that went away, a deadlock's victim) and is rolled back.         *)
(*                                                                         *)
(* Left out: the e-mail and terms checks, the message's form and its rate, *)
(* the kinds of notification that ask for nothing, and their pruning.      *)
(***************************************************************************)
EXTENDS Integers, FiniteSets

CONSTANTS Users,        \* members, in the byte order of their ids
          Requests,     \* concurrent requests
          Pairs,        \* the <<member, peer>> pairs requests are about
          Nonces,       \* client_nonce values
          MaxFollows,   \* MAX_SOCIAL_RELATIONSHIPS_PER_USER
          MaxPending,   \* MAX_PENDING_FOLLOW_REQUESTS_PER_USER
          MaxBlocks     \* MAX_BLOCKS_PER_USER

ASSUME SocialAssumption ==
    /\ Users \subseteq Nat /\ IsFiniteSet(Users) /\ Users # {}
    /\ Nonces # {}
    /\ Pairs \subseteq {p \in Users \X Users : p[1] # p[2]}
    /\ MaxFollows \in Nat /\ MaxPending \in Nat /\ MaxBlocks \in Nat

VARIABLES
    public,    \* users.is_public
    follows,   \* per ordered pair: "none", "pending" or "accepted"
    blocks,    \* user_blocks: <<blocker, blocked>>
    asked,     \* follow_request notifications: <<recipient, actor>>
    messages,  \* [message -> the rows direct_messages has for it]
    req        \* per request: what it does, for whom, and where it stands

vars == <<public, follows, blocks, asked, messages, req>>

Edges   == {p \in Users \X Users : p[1] # p[2]}
Shares  == {"follow", "block", "unblock", "send"}
Profile == {"publish", "hide"}
Ops     == Shares \cup Profile \cup {"unfollow", "accept", "reject"}
Message == [from : Users, to : Users, nonce : Nonces]
Places  == {"idle", "row", "first", "second", "body", "write"}
Request == [op : Ops, me : Users, peer : Users, nonce : Nonces, seen : BOOLEAN, at : Places]

TypeOK ==
    /\ public \in [Users -> BOOLEAN]
    /\ follows \in [Edges -> {"none", "pending", "accepted"}]
    /\ blocks \subseteq Edges
    /\ asked \subseteq Edges
    /\ messages \in [Message -> Nat]
    /\ req \in [Requests -> Request]

Idle == [op |-> "hide", me |-> CHOOSE u \in Users : TRUE, peer |-> CHOOSE u \in Users : TRUE,
         nonce |-> CHOOSE n \in Nonces : TRUE, seen |-> FALSE, at |-> "idle"]

Init ==
    /\ public = [u \in Users |-> FALSE]
    /\ follows = [p \in Edges |-> "none"]
    /\ blocks = {}
    /\ asked = {}
    /\ messages = [m \in Message |-> 0]
    /\ req = [r \in Requests |-> Idle]

-----------------------------------------------------------------------------
(* Locks *)

\* Mutant: the caller's lock first, whoever the other is.
LockOrder_CallerFirst(u, v) == <<u, v>>

\* lock_social_relationship_writes: both members' locks, in the order of their ids.
LockOrder(u, v) == IF u <= v THEN <<u, v>> ELSE <<v, u>>

FirstLock(r)  == LockOrder(req[r].me, req[r].peer)[1]
SecondLock(r) == LockOrder(req[r].me, req[r].peer)[2]

HoldsAdvisory(r, u) ==
    /\ req[r].op \notin Profile
    /\ \/ req[r].at \in {"second", "body", "write"} /\ u = FirstLock(r)
       \/ req[r].at \in {"body", "write"} /\ u = SecondLock(r)

\* Mutant: the target is read without FOR SHARE.
HoldsRowShare_None(r, u) == FALSE

\* The users row of the target, from the SELECT ... FOR SHARE to the end.
HoldsRowShare(r, u) ==
    req[r].op \in Shares /\ req[r].at \in {"first", "second", "body", "write"} /\ u = req[r].peer

\* The caller's users row, from update_profile's UPDATE to the end.
HoldsRow(r, u) == req[r].op \in Profile /\ req[r].at = "write" /\ u = req[r].me

\* The follows rows a decided request has written.
Written(r) ==
    IF req[r].at # "write" \/ req[r].op \in Profile \cup {"unblock", "send"} THEN {}
    ELSE {<<req[r].me, req[r].peer>>, <<req[r].peer, req[r].me>>}

\* What keeps r from its next step.
Waits(r, s) ==
    /\ r # s
    /\ \/ req[r].at = "row" /\ req[r].op \in Shares /\ HoldsRow(s, req[r].peer)
       \/ req[r].at = "row" /\ req[r].op \in Profile
            /\ (HoldsRow(s, req[r].me) \/ HoldsRowShare(s, req[r].me))
       \/ req[r].at = "first" /\ HoldsAdvisory(s, FirstLock(r))
       \/ req[r].at = "second" /\ HoldsAdvisory(s, SecondLock(r))
       \/ req[r].at = "write" /\ req[r].op = "publish"
            /\ \E p \in Written(s) : p[2] = req[r].me

Granted(r) == \A s \in Requests : ~Waits(r, s)

Begin(r, op, me, peer, n) ==
    /\ req[r].at = "idle"
    /\ req' = [req EXCEPT ![r] =
                 [op |-> op, me |-> me, peer |-> peer, nonce |-> n, seen |-> FALSE,
                  at |-> IF op \in Shares \cup Profile THEN "row" ELSE "first"]]
    /\ UNCHANGED <<public, follows, blocks, asked, messages>>

\* SELECT ... FOR SHARE: is_public is read here, and decides the status asked for.
LockTarget(r) ==
    /\ req[r].at = "row" /\ req[r].op \in Shares /\ Granted(r)
    /\ req' = [req EXCEPT ![r].at = "first", ![r].seen = public[req[r].peer]]
    /\ UNCHANGED <<public, follows, blocks, asked, messages>>

\* UPDATE users SET is_public: the row's new version waits for the commit.
LockProfile(r) ==
    /\ req[r].at = "row" /\ req[r].op \in Profile /\ Granted(r)
    /\ req' = [req EXCEPT ![r].at = "write"]
    /\ UNCHANGED <<public, follows, blocks, asked, messages>>

LockFirst(r) ==
    /\ req[r].at = "first" /\ Granted(r)
    /\ req' = [req EXCEPT ![r].at = "second"]
    /\ UNCHANGED <<public, follows, blocks, asked, messages>>

LockSecond(r) ==
    /\ req[r].at = "second" /\ Granted(r)
    /\ req' = [req EXCEPT ![r].at = "body"]
    /\ UNCHANGED <<public, follows, blocks, asked, messages>>

-----------------------------------------------------------------------------
(* Under the locks *)

\* Mutant: only the caller's own blocks are looked at, by route and trigger.
Blocked_Mine(u, v) == <<u, v>> \in blocks

\* interaction_is_blocked_in_tx, and the triggers that repeat it at an insert.
Blocked(u, v) == <<u, v>> \in blocks \/ <<v, u>> \in blocks

\* Mutant: following is enough, for route and trigger.
Mutual_OneWay(u, v) == follows[<<u, v>>] = "accepted"

\* mutual_follow_exists_in_tx, and the trigger that repeats both checks at the insert.
Mutual(u, v) == follows[<<u, v>>] = "accepted" /\ follows[<<v, u>>] = "accepted"

Outgoing(u) == {p \in Edges : p[1] = u /\ follows[p] # "none"}
Pending(u)  == {p \in Edges : p[2] = u /\ follows[p] = "pending"}
BlocksOf(u) == {p \in blocks : p[1] = u}

\* A new relationship fits the follower's quota, and a request the target's.
FollowFits(r, u, v) ==
    /\ Cardinality(Outgoing(u)) < MaxFollows
    /\ req[r].seen \/ Cardinality(Pending(v)) < MaxPending

\* A nonce the sender already used is answered with the stored message, or
\* refused when that went to somebody else: nothing is written either way.
NonceUsed(u, n) == \E m \in Message : m.from = u /\ m.nonce = n /\ messages[m] > 0

\* What r read under its locks lets it write.
Allowed(r, u, v) ==
    CASE req[r].op = "follow" ->
            ~Blocked(u, v) /\ (follows[<<u, v>>] = "none" => FollowFits(r, u, v))
      [] req[r].op = "accept" -> ~Blocked(u, v) /\ follows[<<v, u>>] = "pending"
      [] req[r].op = "reject" -> follows[<<v, u>>] = "pending"
      [] req[r].op = "block" -> <<u, v>> \in blocks \/ Cardinality(BlocksOf(u)) < MaxBlocks
      [] req[r].op = "send" -> ~Blocked(u, v) /\ Mutual(u, v) /\ ~NonceUsed(u, req[r].nonce)
      [] OTHER -> TRUE

Decide(r) ==
    /\ req[r].at = "body"
    /\ Allowed(r, req[r].me, req[r].peer)
    /\ req' = [req EXCEPT ![r].at = "write"]
    /\ UNCHANGED <<public, follows, blocks, asked, messages>>

-----------------------------------------------------------------------------
(* Commits *)

\* r commits what it wrote, on behalf of u about v.
Commits(r, op, u, v) ==
    /\ req[r].at = "write" /\ req[r].op = op /\ Granted(r)
    /\ u = req[r].me /\ v = req[r].peer
    /\ req' = [req EXCEPT ![r] = Idle]

\* Mutant: a status the table does not know.
Status_Typo(seen) == IF seen THEN "accepted" ELSE "requested"

Status(seen) == IF seen THEN "accepted" ELSE "pending"

\* follow_user: a relationship that exists keeps "accepted", or takes the new status.
Follow(r, u, v) ==
    /\ Commits(r, "follow", u, v)
    /\ LET new == IF follows[<<u, v>>] = "accepted" THEN "accepted" ELSE Status(req[r].seen)
       IN  /\ follows' = [follows EXCEPT ![<<u, v>>] = new]
           /\ asked' = IF new = follows[<<u, v>>] THEN asked
                       ELSE IF new = "accepted" THEN asked \ {<<v, u>>}
                       ELSE asked \cup {<<v, u>>}
    /\ UNCHANGED <<public, blocks, messages>>

\* unfollow_user
Unfollow(r, u, v) ==
    /\ Commits(r, "unfollow", u, v)
    /\ follows' = [follows EXCEPT ![<<u, v>>] = "none"]
    /\ asked' = IF follows[<<u, v>>] = "pending" THEN asked \ {<<v, u>>} ELSE asked
    /\ UNCHANGED <<public, blocks, messages>>

\* accept_follow_request: v asked, u accepts.
Accept(r, u, v) ==
    /\ Commits(r, "accept", u, v)
    /\ follows' = [follows EXCEPT ![<<v, u>>] = "accepted"]
    /\ asked' = asked \ {<<u, v>>}
    /\ UNCHANGED <<public, blocks, messages>>

\* reject_follow_request
Reject(r, u, v) ==
    /\ Commits(r, "reject", u, v)
    /\ follows' = [follows EXCEPT ![<<v, u>>] = "none"]
    /\ asked' = asked \ {<<u, v>>}
    /\ UNCHANGED <<public, blocks, messages>>

\* block_user: both directions of following end, and what they notified of.
Block(r, u, v) ==
    /\ Commits(r, "block", u, v)
    /\ blocks' = blocks \cup {<<u, v>>}
    /\ follows' = [follows EXCEPT ![<<u, v>>] = "none", ![<<v, u>>] = "none"]
    /\ asked' = asked \ {<<u, v>>, <<v, u>>}
    /\ UNCHANGED <<public, messages>>

\* unblock_user
Unblock(r, u, v) ==
    /\ Commits(r, "unblock", u, v)
    /\ blocks' = blocks \ {<<u, v>>}
    /\ UNCHANGED <<public, follows, asked, messages>>

\* send_message
Send(r, u, v) ==
    /\ Commits(r, "send", u, v)
    /\ messages' = [messages EXCEPT ![[from |-> u, to |-> v, nonce |-> req[r].nonce]] = @ + 1]
    /\ UNCHANGED <<public, follows, blocks, asked>>

\* update_profile with is_public = true accepts what is pending; with false it
\* only writes the row.
Publish(r, u) ==
    /\ Commits(r, "publish", u, u)
    /\ public' = [public EXCEPT ![u] = TRUE]
    /\ follows' = [p \in Edges |-> IF p \in Pending(u) THEN "accepted" ELSE follows[p]]
    /\ asked' = asked \ {<<u, p[1]>> : p \in Pending(u)}
    /\ UNCHANGED <<blocks, messages>>

Hide(r, u) ==
    /\ Commits(r, "hide", u, u)
    /\ public' = [public EXCEPT ![u] = FALSE]
    /\ UNCHANGED <<follows, blocks, asked, messages>>

\* Every refusal, error and lost client: the transaction rolls back.
Abort(r) ==
    /\ req[r].at # "idle"
    /\ req' = [req EXCEPT ![r] = Idle]
    /\ UNCHANGED <<public, follows, blocks, asked, messages>>

-----------------------------------------------------------------------------

Commit(r) ==
    \E u, v \in Users :
      \/ Follow(r, u, v) \/ Unfollow(r, u, v) \/ Accept(r, u, v) \/ Reject(r, u, v)
      \/ Block(r, u, v) \/ Unblock(r, u, v) \/ Send(r, u, v)
      \/ u = v /\ (Publish(r, u) \/ Hide(r, u))

Step(r) == LockTarget(r) \/ LockProfile(r) \/ LockFirst(r) \/ LockSecond(r) \/ Decide(r) \/ Commit(r) \/ Abort(r)

Arrive(r) ==
    \/ \E p \in Pairs, op \in Ops \ (Profile \cup {"send"}) :
         Begin(r, op, p[1], p[2], Idle.nonce)
    \/ \E p \in Pairs, n \in Nonces : Begin(r, "send", p[1], p[2], n)
    \/ \E p \in Pairs, op \in Profile : Begin(r, op, p[2], p[2], Idle.nonce)

Next == \E r \in Requests : Arrive(r) \/ Step(r)

Spec == Init /\ [][Next]_vars

-----------------------------------------------------------------------------
(* Properties *)

\* A block severs: while it stands neither member follows, asks to follow or is
\* notified of the other, whatever was in flight when it was made.
BlockSevers ==
    \A p \in blocks :
      /\ follows[p] = "none" /\ follows[<<p[2], p[1]>>] = "none"
      /\ p \notin asked /\ <<p[2], p[1]>> \notin asked

\* A public account has nobody waiting for an acceptance its owner is no longer
\* asked for: the follow that read it private and the profile that turned public
\* do not miss each other.
PublicHasNoPending == \A u \in Users : public[u] => Pending(u) = {}

\* A notification that asks for a decision has a request to decide on.
AskedIsPending == \A p \in asked : follows[<<p[2], p[1]>>] = "pending"

\* No request waits for one that waits, in the end, for it.
NoDeadlock ==
    ~\E S \in SUBSET Requests :
       S # {} /\ \A r \in S : \E s \in S : Waits(r, s)

\* A message is stored only where, at its commit, both members follow each other
\* and neither has blocked the other; and a retry stores nothing again: one nonce
\* of a sender is one row, whoever the retry names.
MessagesBetweenMutuals ==
    [][\A m \in Message : messages'[m] # messages[m] =>
         /\ follows[<<m.from, m.to>>] = "accepted" /\ follows[<<m.to, m.from>>] = "accepted"
         /\ <<m.from, m.to>> \notin blocks /\ <<m.to, m.from>> \notin blocks
         /\ \A k \in Message : k.from = m.from /\ k.nonce = m.nonce => messages[k] = 0]_vars

=============================================================================
