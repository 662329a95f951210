----------------------------- MODULE AuthSessions -----------------------------
(***************************************************************************)
(* The sessions of one account: refresh tokens that rotate within a        *)
(* family, the several ways of ending sessions, and the in-process cache   *)
(* that refuses access tokens of ended sessions before they expire.        *)
(*                                                                         *)
(* A request is a process and one transaction.  What it has written stays  *)
(* in job[r] until its Commit; the row locks it holds meanwhile are the    *)
(* fields acct (the users row, in PostgreSQL's four lock modes) and tlock. *)
(* A statement that changes several rows takes its snapshot in one step    *)
(* and changes the rows in a later one, when nobody else has them locked:  *)
(* a row inserted in between is not among them.  The cache is not part of  *)
(* the transaction: it is written before the Commit and no Abort undoes it.*)
(*                                                                         *)
(* Every transaction that issues a refresh token mints one access token    *)
(* with it, so both carry the same number; numbers grow in minting order,  *)
(* and an account-wide cutoff is the next number.  One unit of now is more *)
(* than the 60 s reuse grace.                                              *)
(***************************************************************************)
EXTENDS Naturals, FiniteSets, FiniteSetsExt

CONSTANTS
    Requests,      \* concurrent requests
    MaxTokens,     \* bound on tokens ever minted
    MaxNow,        \* bound on the clock
    MaxRequests,   \* bound on the requests clients ever send
    Life,          \* ticks an access token is accepted after its own
    RevocationTTL, \* ticks a revocation is retained in cache and table
    RefreshLife,   \* ticks a refresh token is valid after its own
    Keep,          \* ticks a consumed or revoked row is kept (7 days)
    Cap,           \* families with a live token an account may have (5)
    Ops,           \* the operations clients use in this instance
    CanFail,       \* transactions may be rolled back, the process restarted
    Free           \* no request

Tokens   == 1..MaxTokens
Families == Tokens               \* a family is named by its first token
Fams0    == Families \cup {0}     \* 0 names none
OpNames  == {"login", "refresh", "logout", "revoke", "logoutAll", "password"}
OneSession  == {"logout", "revoke"}

ASSUME LifetimesAssumption ==
    /\ MaxTokens \in Nat /\ MaxNow \in Nat \ {0}
    /\ MaxRequests \in Nat /\ Cap \in Nat \ {0}
    /\ Life \in Nat /\ RefreshLife \in Nat /\ Keep \in Nat
    /\ RevocationTTL \in Nat /\ RevocationTTL > Life
    /\ Ops \subseteq OpNames /\ CanFail \in BOOLEAN
    /\ Free \notin Requests

VARIABLES
    row,     \* refresh_tokens: [token -> committed row]; fam = 0 is no row
    verdict, \* revoked_refresh_families: [family -> expiry], 0 is no row
    table,   \* access_token_revocations, committed
    cache,   \* the process's RevocationCache
    now,     \* the clock
    minted,  \* tokens minted so far, committed or not
    access,  \* [token -> family and time of the access token minted with it]
    held,    \* tokens whose transaction committed: clients have them
    consumed, \* tokens some committed rotation has consumed
    sent,    \* requests clients have sent
    acct,    \* [request -> mode in which it has the users row locked]
    tlock,   \* [token -> request that has its row locked, or Free]
    pc, job,
    ended,   \* families some client was told are signed out
    reused   \* families signed out by the detection of a reused token

dbVars   == <<row, verdict, table>>
told     == <<sent, ended, reused>>
mintVars == <<minted, access, held, consumed>>
vars == <<row, verdict, table, cache, now, minted, access, held, consumed,
          acct, tlock, pc, job, sent, ended, reused>>

NoRow == [fam |-> 0, made |-> 0, spent |-> 0, dead |-> 0]
Job(op, t, f) ==
    [op |-> op, tok |-> t, fam |-> f, new |-> 0, spend |-> 0, cut |-> 0,
     seen |-> {}, gone |-> {}, kill |-> {}, over |-> {}, link |-> FALSE]
NoJob == Job("none", 0, 0)
NoRevocations == [fam |-> [f \in Families |-> 0], cut |-> 0, cutExp |-> 0]

Rows == [fam : Fams0, made : 0..MaxNow, spent : 0..MaxNow,
         dead : 0..MaxNow]
Revocations == [fam : [Families -> Nat], cut : 0..(MaxTokens + 1), cutExp : Nat]
Labels == {"idle", "issue", "link", "account", "token", "verdict", "rotate", "scan", "apply", "revoke", "commit"}

TypeOK ==
    /\ row \in [Tokens -> Rows]
    /\ verdict \in [Families -> Nat]
    /\ table \in Revocations /\ cache \in Revocations
    /\ now \in 1..MaxNow
    /\ minted \in 0..MaxTokens /\ held \subseteq Tokens /\ consumed \subseteq Tokens
    /\ access \in [Tokens -> [fam : Fams0, at : 0..MaxNow]]
    /\ acct \in [Requests -> {"none", "key", "share", "nokey", "update"}]
    /\ tlock \in [Tokens -> Requests \cup {Free}]
    /\ pc \in [Requests -> Labels]
    /\ job \in [Requests -> [op : OpNames \cup {"none"}, tok : Tokens \cup {0},
           fam : Fams0, new : Tokens \cup {0},
           spend : Tokens \cup {0}, cut : 0..(MaxTokens + 1),
           seen : SUBSET Tokens, gone : SUBSET Tokens, kill : SUBSET Tokens,
           over : SUBSET Fams0, link : BOOLEAN]]
    /\ sent \in 0..MaxRequests
    /\ ended \subseteq Fams0 /\ reused \subseteq Fams0

Init ==
    /\ row = [t \in Tokens |-> NoRow]
    /\ verdict = [f \in Families |-> 0]
    /\ table = NoRevocations /\ cache = NoRevocations
    /\ now = 1 /\ minted = 0 /\ held = {} /\ consumed = {}
    /\ access = [t \in Tokens |-> [fam |-> 0, at |-> 0]]
    /\ acct = [r \in Requests |-> "none"]
    /\ tlock = [t \in Tokens |-> Free]
    /\ pc = [r \in Requests |-> "idle"] /\ job = [r \in Requests |-> NoJob]
    /\ sent = 0 /\ ended = {} /\ reused = {}

-----------------------------------------------------------------------------
(* What the statements read. *)

Exists(t)  == row[t].fam # 0
Live(t)    == Exists(t) /\ row[t].spent = 0 /\ row[t].dead = 0
Expired(t) == row[t].made + RefreshLife < now

WithinGrace(since) == since = now

\* Mutant: history is kept only for its own sake.
DeadRows_WholeFamilyForgotten ==
    {t \in Tokens :
        /\ Exists(t)
        /\ \/ Expired(t)
           \/ row[t].spent # 0 /\ row[t].spent + Keep < now
           \/ row[t].dead # 0 /\ row[t].dead + Keep < now}

\* Rows both the sign-in and the retention sweep remove: useless ones whose
\* whole family has nothing live left.
DeadRows ==
    {t \in Tokens :
        /\ Exists(t)
        /\ \/ Expired(t)
           \/ row[t].spent # 0 /\ row[t].spent + Keep < now
           \/ row[t].dead # 0 /\ row[t].dead + Keep < now
        /\ ~\E u \in Tokens : row[u].fam = row[t].fam /\ Live(u) /\ ~Expired(u)}

\* The tokens cap_active_refresh_tokens may delete when a request adds a token
\* of family f and has consumed token old: those of all but the Cap families
\* with the newest live token.  Ties are broken either way.
LiveBut(old) == {t \in Tokens \ {old} : Live(t)}
KeptFamilies(f, old) ==
    LET fams   == {row[t].fam : t \in LiveBut(old)} \cup {f}
        newest == [g \in fams |-> Max({row[t].made : t \in {u \in LiveBut(old) : row[u].fam = g}}
                                      \cup (IF g = f THEN {now} ELSE {}))]
    IN {k \in SUBSET fams :
           /\ Cardinality(k) = Min({Cap, Cardinality(fams)})
           /\ \A g \in k, h \in fams \ k : newest[g] >= newest[h]}
CapChoices(f, old) ==
    {{t \in LiveBut(old) : row[t].fam \notin k} : k \in KeptFamilies(f, old)}

\* is_revoked: does the process refuse the access token minted with t?
Refused(t) ==
    \/ cache.fam[access[t].fam] > now
    \/ cache.cutExp > now /\ t < cache.cut
Accepted(t) == t \in held /\ now <= access[t].at + Life /\ ~Refused(t)

SomeoneSignedIn == \E t \in Tokens : Accepted(t)

\* PostgreSQL's row-lock conflicts on the users row.
Conflicts == [none   |-> {},
              key    |-> {"update"},
              share  |-> {"nokey", "update"},
              nokey  |-> {"share", "nokey", "update"},
              update |-> {"key", "share", "nokey", "update"}]
CanLockAccount(r, mode) == \A q \in Requests \ {r} : acct[q] \notin Conflicts[mode]
Unlocked(r, toks) == \A t \in toks : tlock[t] \in {Free, r}
LockRows(r, toks) == tlock' = [t \in Tokens |-> IF t \in toks THEN r ELSE tlock[t]]

Goto(r, label) == pc' = [pc EXCEPT ![r] = label]
Send == sent < MaxRequests /\ sent' = sent + 1
Begin(r, op, label, t, f) ==
    /\ pc[r] = "idle" /\ op \in Ops /\ Send
    /\ Goto(r, label) /\ job' = [job EXCEPT ![r] = Job(op, t, f)]
    /\ UNCHANGED <<dbVars, cache, now, mintVars, acct, tlock, ended, reused>>
Finish(r) ==
    /\ Goto(r, "idle") /\ job' = [job EXCEPT ![r] = NoJob]
    /\ acct' = [acct EXCEPT ![r] = "none"]
    /\ tlock' = [t \in Tokens |-> IF tlock[t] = r THEN Free ELSE tlock[t]]

-----------------------------------------------------------------------------
(* Sign-in, with the password and second factor found right. *)

\* It first removes the dead rows, an autocommitted statement of its own.
BeginLogin(r) ==
    /\ pc[r] = "idle" /\ "login" \in Ops /\ Send /\ Unlocked(r, DeadRows)
    /\ row' = [t \in Tokens |-> IF t \in DeadRows THEN NoRow ELSE row[t]]
    /\ Goto(r, "issue") /\ job' = [job EXCEPT ![r] = Job("login", 0, 0)]
    /\ UNCHANGED <<verdict, table, cache, now, mintVars, acct, tlock, ended, reused>>

Mint(fam) ==
    /\ minted < MaxTokens
    /\ minted' = minted + 1
    /\ access' = [access EXCEPT ![minted + 1] = [fam |-> fam, at |-> now]]
    /\ UNCHANGED <<held, consumed>>

\* issue_token_pair: the foreign key locks the users row FOR KEY SHARE only.
Issue(r) ==
    /\ pc[r] = "issue" /\ CanLockAccount(r, "key")
    /\ Mint(minted + 1)
    /\ \E capped \in CapChoices(minted + 1, 0) :
         job' = [job EXCEPT ![r].new = minted + 1, ![r].seen = capped]
    /\ acct' = [acct EXCEPT ![r] = "key"]
    /\ Goto(r, "apply")
    /\ UNCHANGED <<dbVars, cache, now, tlock, told>>

-----------------------------------------------------------------------------
(* Rotation. *)

\* The client presents any refresh token it was ever given; the owner lookup
\* finds the row or the answer is 401.
BeginRefresh(r) ==
    \E t \in held :
        /\ Exists(t)
        /\ Begin(r, "refresh", "account", t, 0)

\* SELECT ... FOR UPDATE of the presented token, after the account row.
LockToken(r) ==
    /\ pc[r] = "token"
    /\ LET t == job[r].tok IN
       /\ Unlocked(r, {t})
       /\ IF Exists(t)
          THEN /\ LockRows(r, {t})
               /\ job' = [job EXCEPT ![r].fam = row[t].fam]
               /\ Goto(r, IF job[r].op = "refresh" THEN "verdict" ELSE "scan")
               /\ UNCHANGED acct
          ELSE Finish(r)
    /\ UNCHANGED <<dbVars, cache, now, mintVars, told>>

\* The family's verdict is read, and what to do with the token decided.
ReadVerdict(r) ==
    /\ pc[r] = "verdict"
    /\ LET t == job[r].tok
           familyRevoked == verdict[job[r].fam] # 0
           reuse == row[t].spent # 0 /\ (familyRevoked \/ ~WithinGrace(row[t].spent))
       IN \/ /\ reuse
             /\ Goto(r, "scan") /\ UNCHANGED <<job, acct, tlock>>
          \/ /\ ~reuse /\ row[t].dead # 0
             /\ Finish(r)
          \/ /\ ~reuse /\ row[t].dead = 0 /\ familyRevoked
             /\ Goto(r, "commit") /\ job' = [job EXCEPT ![r].kill = {t}]
             /\ UNCHANGED <<acct, tlock>>
          \/ /\ ~reuse /\ row[t].dead = 0 /\ ~familyRevoked /\ Expired(t)
             /\ Goto(r, "commit") /\ job' = [job EXCEPT ![r].gone = {t}]
             /\ UNCHANGED <<acct, tlock>>
          \/ /\ ~reuse /\ row[t].dead = 0 /\ ~familyRevoked /\ ~Expired(t)
             /\ Goto(r, "rotate") /\ UNCHANGED <<job, acct, tlock>>
    /\ UNCHANGED <<dbVars, cache, now, mintVars, told>>

\* Live siblings of t that no client keeps any more.
Orphans(t) == {u \in Tokens \ {t} : /\ Live(u) /\ row[u].fam = row[t].fam
                                     /\ ~WithinGrace(row[u].made)}

\* Consume the token, insert its successor, choose what to delete.
Rotate(r) ==
    /\ pc[r] = "rotate"
    /\ LET t == job[r].tok IN
       /\ Mint(row[t].fam)
       /\ \E capped \in CapChoices(row[t].fam, t) :
            job' = [job EXCEPT ![r].new = minted + 1,
                        ![r].spend = IF row[t].spent = 0 THEN t ELSE 0,
                        ![r].seen = capped \cup IF row[t].spent = 0 THEN Orphans(t) ELSE {}]
    /\ Goto(r, "apply")
    /\ UNCHANGED <<dbVars, cache, now, acct, tlock, told>>

-----------------------------------------------------------------------------
(* Ending sessions. *)

BeginLogout(r) ==
    \E t \in held :
        /\ Exists(t)
        /\ Begin(r, "logout", "account", t, 0)
BeginLogoutAll(r) == SomeoneSignedIn /\ Begin(r, "logoutAll", "account", 0, 0)
\* A change, with the current password found right.
BeginNewPassword(r) == Begin(r, "password", "account", 0, 0)
\* A reset, with the link of an e-mail, which is still good.
BeginReset(r) == Begin(r, "password", "link", 0, 0)

\* The account's row of password_reset_tokens: reset_password has it locked before
\* the account, cancel_pending_credential_actions after.
LinkFree(r) == \A q \in Requests \ {r} : ~job[q].link
LockLink(r) ==
    /\ pc[r] = "link" /\ LinkFree(r)
    /\ job' = [job EXCEPT ![r].link = TRUE]
    /\ Goto(r, "account")
    /\ UNCHANGED <<dbVars, cache, now, mintVars, acct, tlock, told>>

\* The account row: shared by a rotation, FOR UPDATE by the sign-outs, and as
\* the UPDATE of the password leaves it.
AccountModes == [refresh |-> "share", logout |-> "update",
                 logoutAll |-> "update", password |-> "nokey"]

\* Mutant: rotation does not hold the account row.
AccountMode_NoRotationLock(op) == IF op = "refresh" THEN "none" ELSE AccountModes[op]
AccountMode(op) == AccountModes[op]

LockAccount(r) ==
    /\ pc[r] = "account"
    /\ LET op == job[r].op IN
       /\ CanLockAccount(r, AccountMode(op))
       /\ acct' = [acct EXCEPT ![r] = AccountMode(op)]
       /\ Goto(r, IF op \in {"refresh", "logout"} THEN "token" ELSE "scan")
    /\ UNCHANGED <<dbVars, cache, now, mintVars, tlock, job, told>>

\* revoke_session addresses a row of the session list, however old, and takes
\* no lock on the account.
BeginRevokeSession(r) ==
    /\ SomeoneSignedIn
    /\ \E t \in Tokens :
        /\ Exists(t) /\ verdict[row[t].fam] = 0
        /\ Begin(r, "revoke", "scan", 0, row[t].fam)

\* The snapshot of the statement that revokes (a reused token: deletes) rows,
\* and the sessions the caller is entitled to think it covers.
Scan(r) ==
    /\ pc[r] = "scan"
    /\ LET f == job[r].fam
           one == job[r].op \in OneSession
           reuse == job[r].op = "refresh"
           all == {t \in Tokens : Exists(t) /\ (reuse \/ row[t].dead = 0)}
       IN job' = [job EXCEPT
              ![r].seen = IF one THEN {t \in all : row[t].fam = f} ELSE all,
              ![r].over = IF one THEN {f} ELSE {access[t].fam : t \in held}]
    /\ Goto(r, "apply")
    /\ UNCHANGED <<dbVars, cache, now, mintVars, acct, tlock, told>>

\* The statement has every row of its snapshot locked, looks at each again and
\* changes those that still qualify.
Apply(r) ==
    /\ pc[r] = "apply" /\ Unlocked(r, job[r].seen)
    /\ LET seen  == job[r].seen
           issues == job[r].new # 0
           reuse == job[r].op = "refresh" /\ ~issues
           hit   == {t \in seen : IF issues THEN Live(t)
                                  ELSE Exists(t) /\ (reuse \/ row[t].dead = 0)}
       IN /\ LockRows(r, hit)
          /\ job' = [job EXCEPT ![r].seen = {},
                         ![r].gone = IF issues \/ reuse THEN hit ELSE {},
                         ![r].kill = IF issues \/ reuse THEN {} ELSE hit]
          /\ Goto(r, IF issues THEN "commit" ELSE "revoke")
    /\ UNCHANGED <<dbVars, cache, now, mintVars, acct, told>>

\* A revocation as the table and the cache record it; a cutoff never moves back.
WithSession(c, f) == [c EXCEPT !.fam[f] = now + RevocationTTL]

\* Mutant: the instant is rounded up to a whole second.
WithCutoff_RoundedUp(c, cut) ==
    [c EXCEPT !.cut = IF @ < cut + 1 THEN cut + 1 ELSE @,
              !.cutExp = now + RevocationTTL]
WithCutoff(c, cut) ==
    [c EXCEPT !.cut = IF @ < cut THEN cut ELSE @, !.cutExp = now + RevocationTTL]

\* Mutant: only account-wide revocations reach the cache before the Commit.
Cached_AccountsOnly(r) ==
    IF job[r].op \in OneSession THEN cache ELSE WithCutoff(cache, minted + 1)
Cached(r) ==
    IF job[r].op \in OneSession THEN WithSession(cache, job[r].fam)
    ELSE WithCutoff(cache, minted + 1)

\* What a stolen or an old credential has asked for is cancelled first.
Cancels(r) == job[r].op \in {"refresh", "password"}

\* cancel_pending_credential_actions, then revocation::revoke_sessions or
\* revoke_user: the cache has it at once.  The foreign key of
\* revoked_refresh_families locks the account before it, and so does the UPDATE
\* that puts out the address of the calendar feed, for an account that has one.
Revoke(r) ==
    /\ pc[r] = "revoke"
    /\ Cancels(r) => LinkFree(r)
    /\ \/ job[r].op # "revoke" /\ UNCHANGED acct
       \/ job[r].op = "revoke" /\ CanLockAccount(r, "key") /\ acct' = [acct EXCEPT ![r] = "key"]
       \/ job[r].op = "refresh" /\ CanLockAccount(r, "nokey") /\ acct' = [acct EXCEPT ![r] = "nokey"]
    /\ cache' = Cached(r)
    /\ job' = [job EXCEPT ![r].cut = IF job[r].op \in OneSession THEN 0 ELSE minted + 1,
                          ![r].link = @ \/ Cancels(r)]
    /\ Goto(r, "commit")
    /\ UNCHANGED <<dbVars, now, mintVars, tlock, told>>

-----------------------------------------------------------------------------
(* Ends of transactions. *)

\* The row of t once r has committed.
Committed(r, t) ==
    LET j == job[r] IN
    IF t = j.new THEN [fam |-> access[t].fam, made |-> now, spent |-> 0, dead |-> 0]
    ELSE IF t \in j.gone THEN NoRow
    ELSE IF t \in j.kill THEN [row[t] EXCEPT !.dead = now]
    ELSE IF t = j.spend THEN [row[t] EXCEPT !.spent = now]
    ELSE row[t]

Commit(r) ==
    /\ pc[r] = "commit"
    /\ row' = [t \in Tokens |-> Committed(r, t)]
    /\ verdict' = IF job[r].op = "revoke"
                  THEN [verdict EXCEPT ![job[r].fam] = now + RefreshLife] ELSE verdict
    /\ table' = IF job[r].op \in OneSession THEN WithSession(table, job[r].fam)
                ELSE IF job[r].cut # 0 THEN WithCutoff(table, job[r].cut) ELSE table
    /\ held' = held \cup ({job[r].new} \ {0})
    /\ consumed' = consumed \cup ({job[r].spend} \ {0})
    /\ IF job[r].op = "refresh"
       THEN reused' = reused \cup job[r].over /\ UNCHANGED ended
       ELSE ended' = ended \cup job[r].over /\ UNCHANGED reused
    /\ Finish(r)
    /\ UNCHANGED <<cache, now, minted, access, sent>>

\* A statement fails, the client goes away, or PostgreSQL ends a deadlock.
Abort(r) ==
    /\ CanFail /\ pc[r] # "idle"
    /\ Finish(r)
    /\ UNCHANGED <<dbVars, cache, now, mintVars, told>>

-----------------------------------------------------------------------------
(* The rest of the process. *)

Unexpired(c) ==
    [fam    |-> [f \in Families |-> IF c.fam[f] > now THEN c.fam[f] ELSE 0],
     cut    |-> IF c.cutExp > now THEN c.cut ELSE 0,
     cutExp |-> IF c.cutExp > now THEN c.cutExp ELSE 0]

Prune ==
    /\ <<table, cache>> # <<Unexpired(table), Unexpired(cache)>>
    /\ table' = Unexpired(table) /\ cache' = Unexpired(cache)
    /\ UNCHANGED <<row, verdict, now, mintVars, acct, tlock, pc, job, told>>

\* The process dies with its open transactions; load rebuilds the cache before
\* the listener binds.
Restart ==
    /\ CanFail
    /\ table' = Unexpired(table) /\ cache' = Unexpired(table)
    /\ acct' = [r \in Requests |-> "none"] /\ tlock' = [t \in Tokens |-> Free]
    /\ pc' = [r \in Requests |-> "idle"] /\ job' = [r \in Requests |-> NoJob]
    /\ UNCHANGED <<row, verdict, now, mintVars, told>>

\* prune_security_artifacts: dead refresh rows, then the verdicts that can
\* refuse nothing any more.
RetentionSweep ==
    /\ \A t \in DeadRows : tlock[t] = Free
    /\ row' = [t \in Tokens |-> IF t \in DeadRows THEN NoRow ELSE row[t]]
    /\ verdict' = [f \in Families |->
           IF verdict[f] < now /\ ~\E t \in Tokens \ DeadRows : row[t].fam = f /\ ~Expired(t)
           THEN 0 ELSE verdict[f]]
    /\ UNCHANGED <<table, cache, now, mintVars, acct, tlock, pc, job, told>>

\* No transaction lasts a tick.
Tick ==
    /\ now < MaxNow
    /\ \A r \in Requests : pc[r] \in {"idle", "issue"}
    /\ now' = now + 1
    /\ UNCHANGED <<dbVars, cache, mintVars, acct, tlock, pc, job, told>>

-----------------------------------------------------------------------------

Start(r) ==
    \/ BeginLogin(r) \/ BeginRefresh(r) \/ BeginLogout(r) \/ BeginLogoutAll(r)
    \/ BeginNewPassword(r) \/ BeginReset(r) \/ BeginRevokeSession(r)
Step(r) ==
    \/ Issue(r) \/ LockLink(r) \/ LockAccount(r) \/ LockToken(r) \/ ReadVerdict(r)
    \/ Rotate(r) \/ Scan(r) \/ Apply(r) \/ Revoke(r) \/ Commit(r)

Next ==
    \/ \E r \in Requests : Start(r) \/ Step(r) \/ Abort(r)
    \/ Prune \/ Restart \/ RetentionSweep \/ Tick

Spec == Init /\ [][Next]_vars

-----------------------------------------------------------------------------
(* Safety. *)

\* No row of the family can be rotated into another token pair.
SignedOut(f) == \A t \in Tokens :
    row[t].fam = f => row[t].dead # 0 \/ verdict[f] # 0 \/ Expired(t)

\* A session its owner has ended - by signing out of it, revoking it, signing
\* out everywhere, changing or resetting the password - can never be renewed,
\* even by a rotation that was running at the time.
EndedSessionsStayEnded == \A f \in ended : SignedOut(f)

\* The access tokens of an ended session are refused until they expire, those
\* minted while it was being ended included, across restarts and pruning.
EndedSessionsAreRefused == \A t \in Tokens : access[t].fam \in ended => ~Accepted(t)

\* An ended session is over: neither its rows nor its access tokens are of use.
EndedSessionsAreOver == EndedSessionsStayEnded /\ EndedSessionsAreRefused

\* Every revocation in the table that can still refuse a token is in the cache.
CacheCoversTable ==
    /\ \A f \in Families : table.fam[f] > now => cache.fam[f] >= table.fam[f]
    /\ table.cutExp > now => cache.cut >= table.cut /\ cache.cutExp >= table.cutExp

\* The rows of consumed tokens, by which presenting one of them again is
\* recognised as reuse, stay while their session has a token to renew it with:
\* no step of anybody removes one, save the detection of reuse, which removes
\* them all and ends the sessions.
ReplayHistoryKept ==
    [][\A u \in consumed :
         Exists(u) /\ ~Exists(u)' =>
           \/ access[u].fam \in reused'
           \/ ~\E t \in Tokens : row[t].fam = row[u].fam /\ Live(t) /\ ~Expired(t)]_vars
=============================================================================
