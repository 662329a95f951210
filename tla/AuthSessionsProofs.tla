------------------------- MODULE AuthSessionsProofs -------------------------
(***************************************************************************)
(* Type correctness of AuthSessions, that the revocation cache never falls *)
(* behind the table, that an ended session is over, and that the rows of   *)
(* consumed tokens stay while their session lives, for any number of       *)
(* requests and tokens and any lifetimes; and which requests may wait for  *)
(* one another in a circle.                                                *)
(*                                                                         *)
(* The cache covers the table only because of what it already holds for    *)
(* transactions that have not committed: IInv adds to the invariant what   *)
(* each of them has put there (Ahead), that only they carry a cutoff, and  *)
(* which operations wait for the account row.                              *)
(***************************************************************************)
EXTENDS AuthSessions, TLAPS

\* The revocation a request is about to commit is in the cache already.
Ahead == \A r \in Requests : pc[r] = "commit" =>
    /\ job[r].op \in OneSession =>
         \A f \in Families : f = job[r].fam => cache.fam[f] >= now + RevocationTTL
    /\ job[r].cut # 0 =>
         /\ cache.cut >= job[r].cut /\ cache.cut >= table.cut
         /\ cache.cutExp >= now + RevocationTTL

\* No revocation in the table outlasts one made now, no cutoff is to come.
NoFuture ==
    /\ \A f \in Families : table.fam[f] <= now + RevocationTTL
    /\ table.cutExp <= now + RevocationTTL /\ table.cut <= minted + 1
    /\ \A r \in Requests : job[r].cut <= minted + 1

\* A cutoff is carried by a request only from its Revoke to its Commit.
CutoffCarried == \A r \in Requests : job[r].cut # 0 => pc[r] = "commit"

\* The operations that wait for the account row, and the token a rotation or a
\* sign-out is about; a request that issues a token ends no single session.
AccountWaiters == \A r \in Requests :
    /\ pc[r] = "account" =>
         /\ job[r].op \in {"refresh", "logout", "logoutAll", "password"}
         /\ job[r].op \in {"refresh", "logout"} => job[r].tok \in Tokens
    /\ pc[r] = "link" => job[r].op = "password"
    /\ pc[r] \in {"token", "verdict", "rotate"} => job[r].tok \in Tokens
    /\ \/ pc[r] \in {"verdict", "rotate", "issue"}
       \/ job[r].new # 0
       => job[r].op \notin OneSession

IInv == TypeOK /\ AccountWaiters /\ CutoffCarried /\ Ahead /\ NoFuture
        /\ CacheCoversTable

Modes == {"none", "key", "share", "nokey", "update"}
JobSet == [op : OpNames \cup {"none"}, tok : Tokens \cup {0},
           fam : Fams0, new : Tokens \cup {0},
           spend : Tokens \cup {0}, cut : 0..(MaxTokens + 1),
           seen : SUBSET Tokens, gone : SUBSET Tokens, kill : SUBSET Tokens,
           over : SUBSET Fams0, link : BOOLEAN]

\* No capped row is anything but a token.
LEMMA CapIsTokens == \A f, old : \A c \in CapChoices(f, old) : c \subseteq Tokens
  <1> TAKE f, old
  <1> TAKE c \in CapChoices(f, old)
  <1>1. PICK k \in KeptFamilies(f, old) : c = {t \in LiveBut(old) : row[t].fam \notin k}
    BY DEF CapChoices
  <1>2. LiveBut(old) \subseteq Tokens
    BY DEF LiveBut
  <1>3. QED BY <1>1, <1>2

\* A revocation recorded keeps the shape of the record.
LEMMA RecordedType ==
    ASSUME TypeOK, NEW c \in Revocations
    PROVE  /\ \A f \in Fams0 : WithSession(c, f) \in Revocations
           /\ \A k \in 0..(MaxTokens + 1) : WithCutoff(c, k) \in Revocations
           /\ Unexpired(c) \in Revocations
  <1>1. now \in Nat /\ RevocationTTL \in Nat /\ MaxTokens \in Nat
    BY LifetimesAssumption DEF TypeOK
  <1>2. ASSUME NEW f \in Fams0 PROVE WithSession(c, f) \in Revocations
    BY <1>1, <1>2 DEF WithSession, Revocations, Fams0
  <1>3. ASSUME NEW k \in 0..(MaxTokens + 1) PROVE WithCutoff(c, k) \in Revocations
    <2> DEFINE x == IF c.cut < k THEN k ELSE c.cut
    <2>1. WithCutoff(c, k) = [c EXCEPT !.cut = x, !.cutExp = now + RevocationTTL]
      BY DEF WithCutoff
    <2>2. x \in 0..(MaxTokens + 1)
      BY <1>3 DEF Revocations
    <2>3. now + RevocationTTL \in Nat
      BY <1>1
    <2> HIDE DEF x
    <2>4. [c EXCEPT !.cut = x] \in Revocations
      BY <2>2 DEF Revocations
    <2>5. QED BY <2>1, <2>3, <2>4 DEF Revocations
  <1>4. Unexpired(c) \in Revocations
    BY <1>1 DEF Unexpired, Revocations
  <1>5. QED BY <1>2, <1>3, <1>4

\* The initial states satisfy the inductive invariant.
THEOREM InitIInv == Init => IInv
  <1> SUFFICES ASSUME Init PROVE IInv
    OBVIOUS
  <1> USE DEF Fams0
  <1>1. MaxTokens \in Nat /\ MaxNow \in Nat \ {0} /\ MaxRequests \in Nat
    BY LifetimesAssumption
  <1>2. NoJob \in JobSet /\ NoRow \in Rows /\ NoRevocations \in Revocations
    BY <1>1 DEF NoJob, Job, JobSet, NoRow, Rows, NoRevocations, Revocations, OpNames
  <1>3. TypeOK
    <2>1. NoJob \in JobSet /\ [r \in Requests |-> NoJob] \in [Requests -> JobSet]
      BY <1>2
    <2>2. job \in [Requests -> JobSet]
      BY <2>1 DEF Init
    <2>3. [f \in Families |-> 0] \in [Families -> Nat]
      OBVIOUS
    <2>4. QED
      BY <1>1, <1>2, <2>2, <2>3 DEF TypeOK, Init, JobSet, Labels
  <1>4. AccountWaiters /\ CutoffCarried /\ Ahead /\ NoFuture
    <2>1. \A r \in Requests : pc[r] = "idle" /\ job[r].cut = 0 /\ job[r].new = 0
      BY DEF Init, NoJob, Job
    <2>2. /\ now = 1 /\ minted = 0 /\ RevocationTTL \in Nat /\ table = NoRevocations
      BY LifetimesAssumption DEF Init
    <2>3. NoFuture
      BY <2>1, <2>2 DEF NoFuture, NoRevocations
    <2>4. QED BY <2>1, <2>3 DEF AccountWaiters, CutoffCarried, Ahead
  <1>5. CacheCoversTable
    BY DEF CacheCoversTable, Init, NoRevocations
  <1>6. QED BY <1>3, <1>4, <1>5 DEF IInv

\* Every step of every request keeps the types.
LEMMA StepType ==
    ASSUME IInv, NEW r \in Requests, Start(r) \/ Step(r) \/ Abort(r)
    PROVE  TypeOK'
  <1>0. MaxTokens \in Nat /\ MaxNow \in Nat /\ MaxRequests \in Nat /\ RevocationTTL \in Nat
        /\ RefreshLife \in Nat /\ now \in Nat /\ now \in 1..MaxNow /\ job[r] \in JobSet
    BY LifetimesAssumption DEF IInv, TypeOK, JobSet
  <1> USE DEF IInv, Fams0
  <1>a. ASSUME Finish(r) PROVE /\ pc' \in [Requests -> Labels]
                               /\ job' \in [Requests -> JobSet]
                               /\ acct' \in [Requests -> Modes]
                               /\ tlock' \in [Tokens -> Requests \cup {Free}]
    <2>1. NoJob \in JobSet
      BY <1>0 DEF NoJob, Job, JobSet, OpNames
    <2>2. QED BY <1>a, <2>1 DEF Finish, Goto, TypeOK, JobSet, Labels, Modes
  <1>b. ASSUME NEW op \in OpNames, NEW label \in Labels, NEW t \in Tokens \cup {0},
               NEW f \in Fams0,
               Begin(r, op, label, t, f)
        PROVE  TypeOK'
    <2>1. Job(op, t, f) \in JobSet
      BY <1>0 DEF Job, JobSet
    <2>2. job' \in [Requests -> JobSet]
      BY <1>b, <2>1 DEF Begin, TypeOK, JobSet
    <2>3. QED BY <1>b, <2>2, <1>0 DEF Begin, Send, Goto, TypeOK, JobSet, dbVars, mintVars
  <1>1. CASE \/ BeginRefresh(r) \/ BeginLogout(r) \/ BeginLogoutAll(r)
             \/ BeginNewPassword(r) \/ BeginReset(r) \/ BeginRevokeSession(r)
    <2>1. \E op \in OpNames, label \in Labels, t \in Tokens \cup {0},
            f \in Fams0 : Begin(r, op, label, t, f)
      <3>1. \A t \in Tokens : row[t].fam \in Fams0
        BY DEF TypeOK, Rows
      <3>2. held \subseteq Tokens
        BY DEF TypeOK
      <3>3. CASE BeginRefresh(r)
        BY <3>2, <3>3 DEF BeginRefresh, OpNames, Labels
      <3>4. CASE BeginLogout(r)
        BY <3>2, <3>4 DEF BeginLogout, OpNames, Labels
      <3>5. CASE BeginLogoutAll(r)
        BY <3>5 DEF BeginLogoutAll, OpNames, Labels
      <3>6. CASE BeginNewPassword(r) \/ BeginReset(r)
        BY <3>6 DEF BeginNewPassword, BeginReset, OpNames, Labels
      <3>7. CASE BeginRevokeSession(r)
        BY <3>1, <3>7 DEF BeginRevokeSession, OpNames, Labels
      <3>8. QED BY <1>1, <3>3, <3>4, <3>5, <3>6, <3>7
    <2>2. QED BY <1>b, <2>1
  <1>2. CASE BeginLogin(r)
    <2>1. Job("login", 0, 0) \in JobSet
      BY <1>0 DEF Job, JobSet, OpNames
    <2>2. row' \in [Tokens -> Rows]
      BY <1>0, <1>2 DEF BeginLogin, TypeOK, Rows, NoRow
    <2>3. job' \in [Requests -> JobSet]
      BY <1>2, <2>1 DEF BeginLogin, TypeOK, JobSet
    <2>4. QED
      BY <1>2, <2>2, <2>3, <1>0 DEF BeginLogin, Send, Goto, TypeOK, JobSet, Labels, mintVars
  <1>c. ASSUME NEW f \in Fams0, Mint(f)
        PROVE  /\ minted' \in 0..MaxTokens /\ held' \subseteq Tokens
               /\ consumed' \subseteq Tokens /\ minted + 1 \in Tokens
               /\ access' \in [Tokens -> [fam : Fams0, at : 0..MaxNow]]
    BY <1>0, <1>c DEF Mint, TypeOK, Tokens
  <1>3. CASE Issue(r)
    <2>1. minted + 1 \in Families
      BY <1>0, <1>3 DEF Issue, Mint, TypeOK, Families, Tokens
    <2>2. PICK capped \in CapChoices(minted + 1, 0) :
            job' = [job EXCEPT ![r].new = minted + 1, ![r].seen = capped]
      BY <1>3 DEF Issue
    <2>3. capped \subseteq Tokens
      BY CapIsTokens
    <2>4. job' \in [Requests -> JobSet]
      BY <1>0, <2>1, <2>2, <2>3, ZenonT(60) DEF TypeOK, JobSet, Families
    <2>5. QED
      BY <1>0, <1>3, <1>c, <2>1, <2>4
      DEF Issue, Goto, TypeOK, JobSet, Labels, dbVars, told
  <1>l. CASE LockLink(r)
    <2>1. job' = [job EXCEPT ![r].link = TRUE] /\ Goto(r, "account")
          /\ UNCHANGED <<dbVars, cache, now, mintVars, acct, tlock, told>>
      BY <1>l DEF LockLink
    <2>2. job' \in [Requests -> JobSet]
      BY <1>0, <2>1 DEF TypeOK, JobSet
    <2>3. QED BY <2>1, <2>2 DEF Goto, TypeOK, JobSet, Labels, dbVars, mintVars, told
  <1>4. CASE LockAccount(r)
    <2>1. AccountMode(job[r].op) \in Modes
      BY <1>4 DEF LockAccount, AccountWaiters, AccountMode, AccountModes, Modes
    <2>2. QED
      BY <1>4, <2>1 DEF LockAccount, Goto, TypeOK, Labels, Modes, dbVars, mintVars, told
  <1>5. CASE LockToken(r)
    <2> DEFINE t == job[r].tok
    <2>1. t \in Tokens /\ pc[r] = "token"
      BY <1>5 DEF AccountWaiters, LockToken
    <2>2. row[t].fam \in Fams0
      BY <2>1 DEF TypeOK, Rows
    <2>3. CASE Exists(t)
      <3> DEFINE x == row[t].fam
      <3>1. job' = [job EXCEPT ![r].fam = x] /\ x \in Fams0
        BY <1>5, <2>2, <2>3 DEF LockToken
      <3> HIDE DEF x
      <3>2. job' \in [Requests -> JobSet]
        BY <1>0, <3>1 DEF TypeOK, JobSet
      <3>3. tlock' \in [Tokens -> Requests \cup {Free}]
        BY <1>5, <2>3 DEF LockToken, LockRows, TypeOK
      <3>4. QED
        BY <1>5, <2>3, <3>2, <3>3
        DEF LockToken, Goto, TypeOK, JobSet, Labels, dbVars, mintVars, told
    <2>4. CASE ~Exists(t)
      BY <1>0, <1>5, <1>a, <2>4
      DEF LockToken, TypeOK, JobSet, Modes, dbVars, mintVars, told
    <2>5. QED BY <2>3, <2>4
  <1>6. CASE ReadVerdict(r)
    <2> DEFINE t == job[r].tok
    <2>1. t \in Tokens
      BY <1>6 DEF AccountWaiters, ReadVerdict
    <2>2. \/ Finish(r)
          \/ /\ pc' \in [Requests -> Labels] /\ job' \in [Requests -> JobSet]
             /\ UNCHANGED <<acct, tlock>>
      <3>1. ASSUME job' = [job EXCEPT ![r].kill = {t}] \/ job' = [job EXCEPT ![r].gone = {t}]
                    \/ job' = job
            PROVE  job' \in [Requests -> JobSet]
        <4> HIDE DEF t
        <4>1. {t} \in SUBSET Tokens /\ job \in [Requests -> JobSet]
          BY <2>1 DEF TypeOK, JobSet
        <4>2. QED BY <3>1, <4>1, <1>0 DEF JobSet
      <3>2. \A l \in Labels : Goto(r, l) => pc' \in [Requests -> Labels]
        BY DEF Goto, TypeOK
      <3>3. \/ Finish(r)
            \/ /\ \E l \in Labels : Goto(r, l)
               /\ UNCHANGED <<acct, tlock>>
               /\ job' = [job EXCEPT ![r].kill = {t}] \/ job' = [job EXCEPT ![r].gone = {t}]
                  \/ job' = job
        BY <1>6 DEF ReadVerdict, Labels
      <3>4. QED BY <3>1, <3>2, <3>3
    <2>3. CASE Finish(r)
      BY <1>0, <1>6, <1>a, <2>3 DEF ReadVerdict, TypeOK, JobSet, Modes, dbVars, mintVars, told
    <2>4. CASE /\ pc' \in [Requests -> Labels] /\ job' \in [Requests -> JobSet]
               /\ UNCHANGED <<acct, tlock>>
      BY <1>6, <2>4 DEF ReadVerdict, TypeOK, JobSet, dbVars, mintVars, told
    <2>5. QED BY <2>2, <2>3, <2>4
  <1>7. CASE Rotate(r)
    <2> DEFINE t == job[r].tok
    <2>1. t \in Tokens
      BY <1>7 DEF AccountWaiters, Rotate
    <2>2. row[t].fam \in Fams0
      BY <2>1 DEF TypeOK, Rows
    <2>3. PICK capped \in CapChoices(row[t].fam, t) :
            job' = [job EXCEPT ![r].new = minted + 1,
                        ![r].spend = IF row[t].spent = 0 THEN t ELSE 0,
                        ![r].seen = capped \cup IF row[t].spent = 0 THEN Orphans(t) ELSE {}]
      BY <1>7 DEF Rotate
    <2>4. capped \subseteq Tokens /\ Orphans(t) \subseteq Tokens
      BY CapIsTokens DEF Orphans
    <2>5. Mint(row[t].fam)
      BY <1>7 DEF Rotate
    <2>6. minted + 1 \in Tokens
      BY <1>c, <2>2, <2>5
    <2>7. job' \in [Requests -> JobSet]
      <3> DEFINE sp == IF row[t].spent = 0 THEN t ELSE 0
                 se == capped \cup IF row[t].spent = 0 THEN Orphans(t) ELSE {}
      <3>1. sp \in Tokens \cup {0} /\ se \in SUBSET Tokens
        BY <2>1, <2>4
      <3>2. job' = [job EXCEPT ![r].new = minted + 1, ![r].spend = sp, ![r].seen = se]
        BY <2>3
      <3> HIDE DEF sp, se
      <3>3. QED BY <1>0, <2>6, <3>1, <3>2, ZenonT(60) DEF TypeOK, JobSet
    <2>8. pc' \in [Requests -> Labels] /\ minted' \in 0..MaxTokens
          /\ access' \in [Tokens -> [fam : Fams0, at : 0..MaxNow]]
      BY <1>0, <1>7, <1>c, <2>2, <2>5 DEF Rotate, Goto, TypeOK, Labels
    <2>9. UNCHANGED <<row, verdict, table, cache, now, held, consumed, acct, tlock, told>>
      BY <1>7, <2>5 DEF Rotate, Mint, dbVars
    <2>10. QED BY <2>7, <2>8, <2>9 DEF TypeOK, JobSet, told
  <1>8. CASE Scan(r)
    <2>1. PICK se \in SUBSET Tokens, ov \in SUBSET Fams0 :
            job' = [job EXCEPT ![r].seen = se, ![r].over = ov]
      <3> DEFINE f   == job[r].fam
                 one == job[r].op \in OneSession
                 all == {t \in Tokens : Exists(t) /\ (job[r].op = "refresh" \/ row[t].dead = 0)}
                 s1  == IF one THEN {t \in all : row[t].fam = f} ELSE all
                 o1  == IF one THEN {f} ELSE {access[t].fam : t \in held}
      <3>1. job' = [job EXCEPT ![r].seen = s1, ![r].over = o1]
        BY <1>8 DEF Scan
      <3>2. s1 \in SUBSET Tokens
        OBVIOUS
      <3>3. f \in Fams0
        BY <1>0 DEF JobSet
      <3>4. \A t \in held : access[t].fam \in Fams0
        BY DEF TypeOK
      <3>5. o1 \in SUBSET Fams0
        BY <3>3, <3>4
      <3>6. QED BY <3>1, <3>2, <3>5
    <2>2. job' \in [Requests -> JobSet]
      BY <1>0, <2>1, ZenonT(60) DEF TypeOK, JobSet
    <2>3. pc' \in [Requests -> Labels]
      BY <1>8 DEF Scan, Goto, TypeOK, Labels
    <2>4. UNCHANGED <<dbVars, cache, now, mintVars, acct, tlock, told>>
      BY <1>8 DEF Scan
    <2>5. QED BY <2>2, <2>3, <2>4 DEF TypeOK, JobSet, dbVars, mintVars, told
  <1>9. CASE Apply(r)
    <2>1. PICK hit \in SUBSET Tokens, go \in SUBSET Tokens, ki \in SUBSET Tokens :
            /\ job' = [job EXCEPT ![r].seen = {}, ![r].gone = go, ![r].kill = ki]
            /\ LockRows(r, hit)
      <3> DEFINE issues == job[r].new # 0
                 reuse  == job[r].op = "refresh" /\ ~issues
                 hit    == {t \in job[r].seen : IF issues THEN Live(t)
                                ELSE Exists(t) /\ (reuse \/ row[t].dead = 0)}
      <3>1. hit \in SUBSET Tokens
        BY <1>0 DEF JobSet
      <3>2. LockRows(r, hit)
        BY <1>9 DEF Apply
      <3>3. job' = [job EXCEPT ![r].seen = {},
                         ![r].gone = IF issues \/ reuse THEN hit ELSE {},
                         ![r].kill = IF issues \/ reuse THEN {} ELSE hit]
        BY <1>9 DEF Apply
      <3> HIDE DEF hit
      <3>4. (IF issues \/ reuse THEN hit ELSE {}) \in SUBSET Tokens
            /\ (IF issues \/ reuse THEN {} ELSE hit) \in SUBSET Tokens
        BY <3>1
      <3>5. QED BY <3>1, <3>2, <3>3, <3>4
    <2>2. job' \in [Requests -> JobSet]
      BY <1>0, <2>1, ZenonT(60) DEF TypeOK, JobSet
    <2>3. tlock' \in [Tokens -> Requests \cup {Free}]
      BY <2>1 DEF LockRows, TypeOK
    <2>4. pc' \in [Requests -> Labels]
      BY <1>9 DEF Apply, Goto, TypeOK, Labels
    <2>5. UNCHANGED <<dbVars, cache, now, mintVars, acct, told>>
      BY <1>9 DEF Apply
    <2>6. QED BY <2>2, <2>3, <2>4, <2>5 DEF TypeOK, JobSet, dbVars, mintVars, told
  <1>10. CASE Revoke(r)
    <2>1. minted + 1 \in 0..(MaxTokens + 1)
      BY <1>0 DEF TypeOK
    <2>2. cache' \in Revocations
      BY <1>0, <1>10, <2>1, RecordedType DEF Revoke, Cached, TypeOK, JobSet
    <2>3. job' \in [Requests -> JobSet]
      <3> DEFINE x == IF job[r].op \in OneSession THEN 0 ELSE minted + 1
                 y == job[r].link \/ Cancels(r)
      <3>1. job' = [job EXCEPT ![r].cut = x, ![r].link = y]
        BY <1>0, <1>10 DEF Revoke, TypeOK
      <3>2. x \in 0..(MaxTokens + 1) /\ y \in BOOLEAN
        <4>1. x \in 0..(MaxTokens + 1)
          BY <1>0, <2>1
        <4>2. y \in BOOLEAN
          BY <1>0 DEF JobSet, Cancels
        <4>3. QED BY <4>1, <4>2
      <3> HIDE DEF x, y
      <3>3. [job[r] EXCEPT !.cut = x, !.link = y] \in JobSet
        BY <1>0, <3>2 DEF JobSet
      <3>4. job' = [job EXCEPT ![r] = [job[r] EXCEPT !.cut = x, !.link = y]]
        BY <1>0, <3>1 DEF TypeOK
      <3>5. QED BY <3>3, <3>4 DEF TypeOK, JobSet
    <2>4. pc' \in [Requests -> Labels]
      BY <1>10 DEF Revoke, Goto, TypeOK, Labels
    <2>5. /\ UNCHANGED <<dbVars, now, mintVars, tlock, told>>
          /\ acct' \in [Requests -> {"none", "key", "share", "nokey", "update"}]
      BY <1>10 DEF Revoke, TypeOK
    <2>6. QED BY <2>2, <2>3, <2>4, <2>5 DEF TypeOK, JobSet, dbVars, mintVars, told
  <1>11. CASE Commit(r)
    <2>1. \A t \in Tokens : Committed(r, t) \in Rows
      <3> TAKE t \in Tokens
      <3>1. row[t] \in Rows /\ access[t].fam \in Fams0
        BY DEF TypeOK
      <3>2. NoRow \in Rows /\ [fam |-> access[t].fam, made |-> now, spent |-> 0, dead |-> 0] \in Rows
        BY <1>0, <3>1 DEF NoRow, Rows
      <3>3. [row[t] EXCEPT !.dead = now] \in Rows /\ [row[t] EXCEPT !.spent = now] \in Rows
        BY <1>0, <3>1 DEF Rows
      <3>4. QED BY <3>1, <3>2, <3>3 DEF Committed
    <2>2. row' \in [Tokens -> Rows]
      BY <1>11, <2>1 DEF Commit
    <2>3. table' \in Revocations
      BY <1>0, <1>11, RecordedType DEF Commit, TypeOK, JobSet
    <2>4. verdict' \in [Families -> Nat]
      <3> DEFINE x == now + RefreshLife
      <3>1. x \in Nat
        BY <1>0
      <3>2. verdict' = verdict \/ verdict' = [verdict EXCEPT ![job[r].fam] = x]
        BY <1>11 DEF Commit
      <3> HIDE DEF x
      <3>3. QED BY <3>1, <3>2 DEF TypeOK
    <2>5. held' \subseteq Tokens /\ consumed' \subseteq Tokens
      BY <1>0, <1>11 DEF Commit, TypeOK, JobSet
    <2>6. ended' \subseteq Fams0 /\ reused' \subseteq Fams0
      BY <1>0, <1>11 DEF Commit, TypeOK, JobSet
    <2>7. QED
      BY <1>11, <1>a, <2>2, <2>3, <2>4, <2>5, <2>6 DEF Commit, TypeOK, JobSet, Modes
  <1>12. CASE Abort(r)
    BY <1>12, <1>a DEF Abort, TypeOK, JobSet, Modes, dbVars, mintVars, told
  <1>13. QED
    BY <1>1, <1>2, <1>3, <1>l, <1>4, <1>5, <1>6, <1>7, <1>8, <1>9, <1>10, <1>11, <1>12
    DEF Start, Step

\* What waits where, and who carries a cutoff, after a step of a request.
LEMMA StepProgress ==
    ASSUME IInv, NEW r \in Requests, Start(r) \/ Step(r) \/ Abort(r)
    PROVE  AccountWaiters' /\ CutoffCarried'
  <1> USE DEF IInv
  <1>0. job \in [Requests -> JobSet] /\ pc \in [Requests -> Labels] /\ job[r] \in JobSet
    BY DEF TypeOK, JobSet
  <1>1. \A q \in Requests \ {r} : job'[q] = job[q] /\ pc'[q] = pc[q]
    BY <1>0 DEF Start, Step, Abort, Finish, Goto, Begin, BeginLogin, BeginRefresh,
       BeginLogout, BeginLogoutAll, BeginNewPassword, BeginReset, BeginRevokeSession, Issue,
       LockLink, LockAccount, LockToken, ReadVerdict, Rotate, Scan, Apply, Revoke, Commit
  <1> DEFINE Mine == /\ pc[r] = "account" =>
                          /\ job[r].op \in {"refresh", "logout", "logoutAll", "password"}
                          /\ job[r].op \in {"refresh", "logout"} => job[r].tok \in Tokens
                     /\ pc[r] = "link" => job[r].op = "password"
                     /\ pc[r] \in {"token", "verdict", "rotate"} => job[r].tok \in Tokens
                     /\ \/ pc[r] \in {"verdict", "rotate", "issue"}
                        \/ job[r].new # 0
                        => job[r].op \notin OneSession
                     /\ job[r].cut # 0 => pc[r] = "commit"
  <1>m. Mine
    BY DEF AccountWaiters, CutoffCarried
  <1>2. SUFFICES Mine'
    BY <1>1 DEF AccountWaiters, CutoffCarried
  <1>a. ASSUME Finish(r) PROVE Mine'
    BY <1>0, <1>a DEF Finish, Goto, NoJob, Job
  <1>b. ASSUME NEW op, NEW label, NEW t, NEW f, Begin(r, op, label, t, f),
               label \in {"account", "link", "scan"}, op \in {"refresh", "logout"} => t \in Tokens,
               label = "link" => op = "password",
               label = "account" => op \in {"refresh", "logout", "logoutAll", "password"}
        PROVE  Mine'
    BY <1>0, <1>b DEF Begin, Goto, Job
  <1>3. CASE BeginRefresh(r) \/ BeginLogout(r)
    <2>1. held \subseteq Tokens
      BY DEF TypeOK
    <2>2. QED BY <1>3, <1>b, <2>1 DEF BeginRefresh, BeginLogout
  <1>4. CASE BeginLogoutAll(r) \/ BeginNewPassword(r) \/ BeginReset(r)
    BY <1>4, <1>b DEF BeginLogoutAll, BeginNewPassword, BeginReset
  <1>5. CASE BeginRevokeSession(r)
    BY <1>5, <1>b DEF BeginRevokeSession
  <1>6. CASE BeginLogin(r)
    BY <1>0, <1>6 DEF BeginLogin, Goto, Job, OneSession
  <1>7. CASE Issue(r)
    <2>1. PICK c : job' = [job EXCEPT ![r].new = minted + 1, ![r].seen = c]
      BY <1>7 DEF Issue
    <2>2. job'[r].op = job[r].op /\ job'[r].tok = job[r].tok /\ job'[r].cut = job[r].cut
      BY <1>0, <2>1 DEF JobSet
    <2>3. QED BY <1>0, <1>7, <1>m, <2>2 DEF Issue, Goto
  <1>l. CASE LockLink(r)
    <2>1. job' = [job EXCEPT ![r].link = TRUE]
      BY <1>l DEF LockLink
    <2>2. /\ job'[r].op = job[r].op /\ job'[r].tok = job[r].tok
          /\ job'[r].cut = job[r].cut /\ job'[r].new = job[r].new
      BY <1>0, <2>1 DEF JobSet
    <2>3. QED BY <1>0, <1>l, <1>m, <2>2 DEF LockLink, Goto
  <1>8. CASE LockAccount(r)
    BY <1>0, <1>8, <1>m DEF LockAccount, Goto
  <1>9. CASE LockToken(r)
    <2>1. CASE Exists(job[r].tok)
      <3>1. /\ job'[r].op = job[r].op /\ job'[r].tok = job[r].tok
            /\ job'[r].cut = job[r].cut /\ job'[r].new = job[r].new
        BY <1>0, <1>9, <2>1 DEF LockToken, JobSet
      <3>2. QED BY <1>0, <1>9, <1>m, <2>1, <3>1 DEF LockToken, Goto, OneSession
    <2>2. CASE ~Exists(job[r].tok)
      BY <1>9, <1>a, <2>2 DEF LockToken
    <2>3. QED BY <2>1, <2>2
  <1>10. CASE ReadVerdict(r)
    <2>1. \/ Finish(r)
          \/ /\ pc'[r] \in {"scan", "commit", "rotate"}
             /\ job'[r].op = job[r].op /\ job'[r].tok = job[r].tok
             /\ job'[r].cut = job[r].cut /\ job'[r].new = job[r].new
      BY <1>0, <1>10 DEF ReadVerdict, Goto, JobSet
    <2>2. pc[r] = "verdict"
      BY <1>10 DEF ReadVerdict
    <2>3. QED BY <1>a, <1>m, <2>1, <2>2
  <1>11. CASE Rotate(r)
    <2>1. PICK sp, se : job' = [job EXCEPT ![r].new = minted + 1, ![r].spend = sp, ![r].seen = se]
      BY <1>11 DEF Rotate
    <2>2. job'[r].op = job[r].op /\ job'[r].tok = job[r].tok /\ job'[r].cut = job[r].cut
      BY <1>0, <2>1 DEF JobSet
    <2>3. QED BY <1>0, <1>11, <1>m, <2>2 DEF Rotate, Goto
  <1>12. CASE Scan(r)
    <2>1. PICK se, ov : job' = [job EXCEPT ![r].seen = se, ![r].over = ov]
      BY <1>12 DEF Scan
    <2>2. /\ job'[r].op = job[r].op /\ job'[r].tok = job[r].tok
          /\ job'[r].cut = job[r].cut /\ job'[r].new = job[r].new
      BY <1>0, <2>1 DEF JobSet
    <2>3. QED BY <1>0, <1>12, <1>m, <2>2 DEF Scan, Goto
  <1>13. CASE Apply(r)
    <2>1. PICK se, go, ki : job' = [job EXCEPT ![r].seen = se, ![r].gone = go, ![r].kill = ki]
      BY <1>13 DEF Apply
    <2>2. /\ job'[r].op = job[r].op /\ job'[r].tok = job[r].tok
          /\ job'[r].cut = job[r].cut /\ job'[r].new = job[r].new
      BY <1>0, <2>1 DEF JobSet
    <2>3. QED BY <1>0, <1>13, <1>m, <2>2 DEF Apply, Goto
  <1>14. CASE Revoke(r)
    <2>1. PICK x, y : job' = [job EXCEPT ![r].cut = x, ![r].link = y]
      BY <1>0, <1>14 DEF Revoke
    <2>2. /\ job'[r].op = job[r].op /\ job'[r].tok = job[r].tok /\ job'[r].new = job[r].new
      BY <1>0, <2>1 DEF JobSet
    <2>3. QED BY <1>0, <1>14, <1>m, <2>2 DEF Revoke, Goto
  <1>15. CASE Commit(r) \/ Abort(r)
    BY <1>15, <1>a DEF Commit, Abort
  <1>16. QED
    BY <1>3, <1>4, <1>5, <1>6, <1>7, <1>l, <1>8, <1>9, <1>10, <1>11, <1>12, <1>13, <1>14, <1>15
    DEF Start, Step

\* The cache stays ahead of every revocation under way, and of the table.
LEMMA StepCovers ==
    ASSUME IInv, NEW r \in Requests, Start(r) \/ Step(r) \/ Abort(r)
    PROVE  Ahead' /\ NoFuture' /\ CacheCoversTable'
  <1> USE DEF IInv
  <1>0. /\ job \in [Requests -> JobSet] /\ pc \in [Requests -> Labels]
        /\ now \in Nat /\ RevocationTTL \in Nat /\ minted \in Nat
        /\ table \in Revocations /\ cache \in Revocations /\ MaxTokens \in Nat
    BY LifetimesAssumption DEF TypeOK, JobSet
  <1>t. /\ table.fam \in [Families -> Nat] /\ table.cut \in Nat /\ table.cutExp \in Nat
        /\ cache.fam \in [Families -> Nat] /\ cache.cut \in Nat /\ cache.cutExp \in Nat
    BY <1>0 DEF Revocations
  <1>1. now' = now
    BY DEF Start, Step, Abort, Begin, BeginLogin, BeginRefresh, BeginLogout,
       BeginLogoutAll, BeginNewPassword, BeginReset, BeginRevokeSession, Issue, LockLink, LockAccount,
       LockToken, ReadVerdict, Rotate, Scan, Apply, Revoke, Commit
  <1>2. \A q \in Requests \ {r} : job'[q] = job[q] /\ pc'[q] = pc[q]
    BY <1>0 DEF Start, Step, Abort, Finish, Goto, Begin, BeginLogin, BeginRefresh,
       BeginLogout, BeginLogoutAll, BeginNewPassword, BeginReset, BeginRevokeSession, Issue,
       LockLink, LockAccount, LockToken, ReadVerdict, Rotate, Scan, Apply, Revoke, Commit
  <1>m. minted' \in Nat /\ minted' >= minted
    <2>1. minted' = minted \/ minted' = minted + 1
      <3>1. CASE Start(r) \/ Abort(r)
        BY <3>1 DEF Start, Abort, Begin, BeginLogin, BeginRefresh, BeginLogout,
           BeginLogoutAll, BeginNewPassword, BeginReset, BeginRevokeSession, mintVars
      <3>2. CASE Issue(r) \/ Rotate(r)
        BY <3>2 DEF Issue, Rotate, Mint
      <3>3. CASE LockLink(r) \/ LockAccount(r) \/ LockToken(r) \/ ReadVerdict(r) \/ Scan(r)
        BY <3>3 DEF LockLink, LockAccount, LockToken, ReadVerdict, Scan, mintVars
      <3>4. CASE Apply(r) \/ Revoke(r) \/ Commit(r)
        BY <3>4 DEF Apply, Revoke, Commit, mintVars
      <3>5. QED BY <3>1, <3>2, <3>3, <3>4 DEF Step
    <2>2. QED BY <1>0, <2>1
  <1>c. \A q \in Requests : job[q].cut \in Nat /\ job[q].cut <= minted + 1
    BY <1>0 DEF NoFuture, JobSet
  <1> DEFINE soon == now + RevocationTTL
  <1>s. soon \in Nat /\ soon' = soon
    BY <1>0, <1>1
  <1>3. CASE Revoke(r)
    <2>1. table' = table /\ cache' = Cached(r) /\ pc[r] = "revoke" /\ minted' = minted
      BY <1>3 DEF Revoke, dbVars, mintVars
    <2>2. /\ job'[r].op = job[r].op /\ job'[r].fam = job[r].fam
          /\ job'[r].cut = IF job[r].op \in OneSession THEN 0 ELSE minted + 1
      BY <1>0, <1>3 DEF Revoke, JobSet
    <2>3. NoFuture'
      BY <1>0, <1>1, <1>2, <1>c, <2>1, <2>2 DEF NoFuture
    <2>4. CASE job[r].op \in OneSession
      <3>1. /\ cache'.cut = cache.cut /\ cache'.cutExp = cache.cutExp
            /\ \A f \in Families : cache'.fam[f] = IF f = job[r].fam THEN soon ELSE cache.fam[f]
        BY <1>t, <1>0, <2>1, <2>4 DEF Cached, WithSession, Revocations
      <3>2. Ahead'
        BY <1>0, <1>1, <1>2, <1>t, <2>1, <2>2, <2>4, <3>1 DEF Ahead
      <3>3. CacheCoversTable'
        BY <1>0, <1>1, <1>t, <2>1, <3>1 DEF CacheCoversTable, NoFuture
      <3>4. QED BY <2>3, <3>2, <3>3
    <2>5. CASE job[r].op \notin OneSession
      <3>1. /\ cache'.cut = IF cache.cut < minted + 1 THEN minted + 1 ELSE cache.cut
            /\ cache'.cutExp = soon /\ cache'.fam = cache.fam
        BY <1>t, <1>0, <2>1, <2>5 DEF Cached, WithCutoff, Revocations
      <3>2. Ahead'
        <4>1. cache'.cut >= cache.cut /\ cache'.cut >= minted + 1
          BY <1>0, <1>t, <3>1
        <4>2. cache'.cut >= table.cut
          BY <1>0, <1>t, <3>1 DEF NoFuture
        <4>3. cache'.cut \in Nat
          BY <1>0, <1>t, <3>1
        <4>4. QED
          BY <1>0, <1>1, <1>2, <1>t, <1>c, <1>s, <2>1, <2>2, <2>5, <3>1, <4>1, <4>2, <4>3
          DEF Ahead
      <3>3. CacheCoversTable'
        BY <1>0, <1>1, <1>t, <2>1, <3>1 DEF CacheCoversTable, NoFuture
      <3>4. QED BY <2>3, <3>2, <3>3
    <2>6. QED BY <2>4, <2>5
  <1>4. CASE Commit(r)
    <2>1. /\ cache' = cache /\ pc[r] = "commit" /\ minted' = minted
          /\ table' = IF job[r].op \in OneSession THEN WithSession(table, job[r].fam)
                      ELSE IF job[r].cut # 0 THEN WithCutoff(table, job[r].cut) ELSE table
      BY <1>4 DEF Commit
    <2>2. pc'[r] = "idle" /\ job'[r].cut = 0
      BY <1>0, <1>4 DEF Commit, Finish, Goto, NoJob, Job
    <2>3. CASE job[r].op \in OneSession
      <3>1. /\ table'.cut = table.cut /\ table'.cutExp = table.cutExp
            /\ \A f \in Families : table'.fam[f] = IF f = job[r].fam THEN soon ELSE table.fam[f]
        BY <1>t, <1>0, <2>1, <2>3 DEF WithSession, Revocations
      <3>2. Ahead'
        BY <1>1, <1>2, <2>1, <2>2, <3>1 DEF Ahead
      <3>3. NoFuture'
        BY <1>0, <1>1, <1>2, <1>t, <1>c, <2>1, <2>2, <3>1 DEF NoFuture
      <3>4. CacheCoversTable'
        BY <1>0, <1>1, <1>t, <2>1, <2>3, <3>1 DEF CacheCoversTable, Ahead
      <3>5. QED BY <3>2, <3>3, <3>4
    <2>4. CASE job[r].op \notin OneSession /\ job[r].cut # 0
      <3>1. /\ table'.cut = IF table.cut < job[r].cut THEN job[r].cut ELSE table.cut
            /\ table'.cutExp = soon /\ table'.fam = table.fam
        BY <1>t, <1>0, <2>1, <2>4 DEF WithCutoff, Revocations
      <3>2. cache.cut >= job[r].cut /\ cache.cut >= table.cut /\ cache.cutExp >= soon
        BY <2>1, <2>4 DEF Ahead
      <3>3. Ahead'
        BY <1>1, <1>2, <1>s, <2>1, <2>2, <3>1, <3>2 DEF Ahead
      <3>4. NoFuture'
        BY <1>0, <1>1, <1>2, <1>t, <1>c, <2>1, <2>2, <3>1 DEF NoFuture
      <3>5. CacheCoversTable'
        BY <1>0, <1>1, <1>t, <1>s, <2>1, <3>1, <3>2 DEF CacheCoversTable
      <3>6. QED BY <3>3, <3>4, <3>5
    <2>5. CASE job[r].op \notin OneSession /\ job[r].cut = 0
      <3>1. table' = table
        BY <2>1, <2>5
      <3>2. Ahead'
        BY <1>1, <1>2, <2>1, <2>2, <3>1 DEF Ahead
      <3>3. NoFuture'
        BY <1>0, <1>1, <1>2, <2>1, <2>2, <3>1 DEF NoFuture
      <3>4. CacheCoversTable'
        BY <1>1, <2>1, <3>1 DEF CacheCoversTable
      <3>5. QED BY <3>2, <3>3, <3>4
    <2>6. QED BY <2>3, <2>4, <2>5
  <1>5. CASE ~Revoke(r) /\ ~Commit(r)
    <2>1. table' = table /\ cache' = cache
      BY <1>5 DEF Start, Step, Abort, Begin, BeginLogin, BeginRefresh, BeginLogout,
         BeginLogoutAll, BeginNewPassword, BeginReset, BeginRevokeSession, Issue, LockLink, LockAccount,
         LockToken, ReadVerdict, Rotate, Scan, Apply, dbVars
    <2>2. CacheCoversTable'
      BY <1>1, <2>1 DEF CacheCoversTable
    <2>3. /\ pc'[r] = "commit" => job'[r].op \notin OneSession
          /\ job'[r].cut = 0
      <3>1. CASE Start(r)
        BY <1>0, <3>1 DEF Start, Begin, BeginLogin, BeginRefresh, BeginLogout, Goto,
           BeginLogoutAll, BeginNewPassword, BeginReset, BeginRevokeSession, Job
      <3>2. CASE Issue(r) \/ LockLink(r) \/ LockAccount(r) \/ Rotate(r) \/ Scan(r)
        <4>1. pc[r] # "commit" /\ pc'[r] # "commit"
          BY <1>0, <3>2 DEF Issue, LockLink, LockAccount, Rotate, Scan, Goto
        <4>2. job'[r].cut = job[r].cut
          BY <1>0, <3>2 DEF Issue, LockLink, LockAccount, Rotate, Scan, JobSet
        <4>3. QED BY <4>1, <4>2 DEF CutoffCarried
      <3>3. CASE LockToken(r) \/ ReadVerdict(r) \/ Apply(r)
        <4>1. pc[r] # "commit" /\ job[r].cut = 0
          BY <3>3 DEF LockToken, ReadVerdict, Apply, CutoffCarried
        <4>2. \/ Finish(r)
              \/ job'[r].cut = job[r].cut /\ job'[r].op = job[r].op
          <5>1. CASE LockToken(r)
            BY <1>0, <5>1 DEF LockToken, JobSet
          <5>2. CASE ReadVerdict(r)
            BY <1>0, <5>2 DEF ReadVerdict, JobSet
          <5>3. CASE Apply(r)
            <6>1. PICK go, ki :
                    job' = [job EXCEPT ![r].seen = {}, ![r].gone = go, ![r].kill = ki]
              BY <5>3, Zenon DEF Apply
            <6>2. job[r] \in JobSet
              BY <1>0
            <6>3. job'[r] = [job[r] EXCEPT !.seen = {}, !.gone = go, !.kill = ki]
              BY <1>0, <6>1
            <6>4. QED BY <6>2, <6>3 DEF JobSet
          <5>4. QED BY <3>3, <5>1, <5>2, <5>3
        <4>3. pc'[r] = "commit" => pc[r] = "verdict" \/ job[r].new # 0
          BY <1>0, <3>3 DEF LockToken, ReadVerdict, Apply, Goto, Finish
        <4>4. QED
          BY <1>0, <4>1, <4>2, <4>3 DEF AccountWaiters, Finish, Goto, NoJob, Job
      <3>4. CASE Abort(r)
        BY <1>0, <3>4 DEF Abort, Finish, Goto, NoJob, Job
      <3>5. QED BY <1>5, <3>1, <3>2, <3>3, <3>4 DEF Step
    <2>4. Ahead'
      BY <1>1, <1>2, <2>1, <2>3 DEF Ahead
    <2>5. NoFuture'
      BY <1>0, <1>1, <1>2, <1>t, <1>m, <1>c, <2>1, <2>3 DEF NoFuture
    <2>6. QED BY <2>2, <2>4, <2>5
  <1>6. QED BY <1>3, <1>4, <1>5

\* The pruners, the restart and the clock keep the inductive invariant.
LEMMA ProcessStep ==
    ASSUME IInv, Prune \/ Restart \/ RetentionSweep \/ Tick
    PROVE  IInv'
  <1> USE DEF IInv, Fams0
  <1>0. /\ now \in Nat /\ RevocationTTL \in Nat /\ RevocationTTL > 0 /\ minted \in Nat
        /\ table \in Revocations /\ cache \in Revocations /\ MaxNow \in Nat
        /\ job \in [Requests -> JobSet] /\ now \in 1..MaxNow /\ MaxTokens \in Nat
    BY LifetimesAssumption DEF TypeOK, JobSet
  <1>t. /\ table.fam \in [Families -> Nat] /\ table.cut \in Nat /\ table.cutExp \in Nat
        /\ cache.fam \in [Families -> Nat] /\ cache.cut \in Nat /\ cache.cutExp \in Nat
    BY <1>0 DEF Revocations
  <1>u. ASSUME NEW c \in Revocations
        PROVE  /\ Unexpired(c).cut = IF c.cutExp > now THEN c.cut ELSE 0
               /\ Unexpired(c).cutExp = IF c.cutExp > now THEN c.cutExp ELSE 0
               /\ \A f \in Families :
                    Unexpired(c).fam[f] = IF c.fam[f] > now THEN c.fam[f] ELSE 0
    BY DEF Unexpired
  <1>1. CASE Prune
    <2>1. /\ table' = Unexpired(table) /\ cache' = Unexpired(cache)
          /\ now' = now /\ pc' = pc /\ job' = job /\ minted' = minted
      BY <1>1 DEF Prune, mintVars
    <2>2. TypeOK'
      BY <1>1, <2>1, <1>0, RecordedType DEF Prune, TypeOK, mintVars, told
    <2>3. AccountWaiters' /\ CutoffCarried'
      BY <2>1 DEF AccountWaiters, CutoffCarried
    <2>4. Ahead'
      BY <1>0, <1>t, <1>u, <2>1 DEF Ahead
    <2>5. NoFuture'
      BY <1>0, <1>t, <1>u, <2>1 DEF NoFuture
    <2>6. CacheCoversTable'
      BY <1>0, <1>t, <1>u, <2>1 DEF CacheCoversTable
    <2>7. QED BY <2>2, <2>3, <2>4, <2>5, <2>6
  <1>2. CASE Restart
    <2>1. /\ table' = Unexpired(table) /\ cache' = Unexpired(table)
          /\ now' = now /\ minted' = minted
          /\ \A r \in Requests : pc'[r] = "idle" /\ job'[r].cut = 0 /\ job'[r].new = 0
      BY <1>2 DEF Restart, mintVars, NoJob, Job
    <2>2. TypeOK'
      <3>1. NoJob \in JobSet
        BY <1>0 DEF NoJob, Job, JobSet, OpNames
      <3>2. job' \in [Requests -> JobSet]
        BY <1>2, <3>1 DEF Restart
      <3>3. QED
        BY <1>2, <2>1, <1>0, <3>2, RecordedType
        DEF Restart, TypeOK, mintVars, told, Labels, JobSet
    <2>3. AccountWaiters' /\ CutoffCarried' /\ Ahead'
      BY <2>1 DEF AccountWaiters, CutoffCarried, Ahead
    <2>4. NoFuture'
      BY <1>0, <1>t, <1>u, <2>1 DEF NoFuture
    <2>5. CacheCoversTable'
      BY <1>0, <1>t, <1>u, <2>1 DEF CacheCoversTable
    <2>6. QED BY <2>2, <2>3, <2>4, <2>5
  <1>3. CASE RetentionSweep
    <2>1. /\ table' = table /\ cache' = cache
          /\ now' = now /\ pc' = pc /\ job' = job /\ minted' = minted
      BY <1>3 DEF RetentionSweep, mintVars
    <2>2. row' \in [Tokens -> Rows] /\ verdict' \in [Families -> Nat]
      <3>1. NoRow \in Rows
        BY <1>0 DEF NoRow, Rows
      <3>2. QED BY <1>3, <3>1 DEF RetentionSweep, TypeOK
    <2>3. TypeOK'
      BY <1>3, <2>1, <2>2 DEF RetentionSweep, TypeOK, mintVars, told, JobSet
    <2>4. QED
      BY <2>1, <2>3 DEF AccountWaiters, CutoffCarried, Ahead, NoFuture, CacheCoversTable
  <1>4. CASE Tick
    <2>1. /\ table' = table /\ cache' = cache /\ now' = now + 1
          /\ pc' = pc /\ job' = job /\ minted' = minted
          /\ \A r \in Requests : pc[r] \in {"idle", "issue"}
      BY <1>4 DEF Tick, mintVars, dbVars
    <2>2. TypeOK'
      BY <1>0, <1>4, <2>1 DEF Tick, TypeOK, mintVars, dbVars, told, JobSet
    <2>3. AccountWaiters' /\ CutoffCarried' /\ Ahead'
      BY <2>1 DEF AccountWaiters, CutoffCarried, Ahead
    <2>4. NoFuture'
      BY <1>0, <1>t, <2>1 DEF NoFuture
    <2>5. CacheCoversTable'
      BY <1>0, <1>t, <2>1 DEF CacheCoversTable
    <2>6. QED BY <2>2, <2>3, <2>4, <2>5
  <1>5. QED BY <1>1, <1>2, <1>3, <1>4

\* The invariant is inductive.
THEOREM Inductive == IInv /\ [Next]_vars => IInv'
  <1> SUFFICES ASSUME IInv, [Next]_vars PROVE IInv'
    OBVIOUS
  <1>1. ASSUME NEW r \in Requests, Start(r) \/ Step(r) \/ Abort(r) PROVE IInv'
    BY <1>1, StepType, StepProgress, StepCovers DEF IInv
  <1>2. CASE Prune \/ Restart \/ RetentionSweep \/ Tick
    BY <1>2, ProcessStep
  <1>3. CASE UNCHANGED vars
    BY <1>3 DEF vars, IInv, TypeOK, AccountWaiters, CutoffCarried, Ahead, NoFuture,
       CacheCoversTable
  <1>4. QED BY <1>1, <1>2, <1>3 DEF Next

\* Every variable of AuthSessions keeps its type.
THEOREM TypeCorrect == Spec => []TypeOK
  <1>1. IInv => TypeOK
    BY DEF IInv
  <1>2. QED BY InitIInv, Inductive, <1>1, PTL DEF Spec

\* No revocation is ever lost from the cache while the table has it and it can
\* still refuse a token: not while it commits, not by a restart or the pruner.
THEOREM CacheNeverBehind == Spec => []CacheCoversTable
  <1>1. IInv => CacheCoversTable
    BY DEF IInv
  <1>2. QED BY InitIInv, Inductive, <1>1, PTL DEF Spec

-----------------------------------------------------------------------------
(* An ended session is over.                                               *)
(*                                                                         *)
(* No invariant of the rows alone shows it: a sign-out works on a snapshot *)
(* of the rows, and a rotation decides on a row it read before.  The       *)
(* inductive invariant says what each request may still rely on: which     *)
(* lock on the account keeps rotations and endings apart (Account, Apart), *)
(* that the row a rotation decided on cannot leave (Locked), that tokens   *)
(* and families not yet committed are nobody's (FreshJob), what an ending  *)
(* has yet to kill (Ends), and that a rotation which a revocation of its   *)
(* session overtook runs under a verdict of this very moment (Renewal).    *)


Ending == {"logout", "logoutAll", "password"}

\* How a request has the account row locked once it was granted: a rotation that
\* found its token used before may lock it harder in the end.
Account(r) ==
    /\ pc[r] = "idle" => job[r] = NoJob
    /\ pc[r] \notin {"link", "account"} =>
         /\ job[r].op = "refresh" =>
              acct[r] = "share" \/ (acct[r] = "nokey" /\ pc[r] = "commit" /\ job[r].new = 0)
         /\ job[r].op \in {"logout", "logoutAll"} => acct[r] = "update"
         /\ job[r].op = "password" => acct[r] = "nokey"

\* Only rotations share the account row: an ending overlaps none of them and no
\* other ending.  No token is minted twice.
Apart == \A r, q \in Requests : r # q =>
    /\ acct[r] \in {"share", "nokey", "update"} => acct[q] \notin {"nokey", "update"}
    /\ job[r].new # 0 => job[r].new # job[q].new

\* Which operation passes where.
Shape(r) ==
    /\ pc[r] \in {"verdict", "rotate"} => job[r].op = "refresh"
    /\ pc[r] = "token" => job[r].op \in {"refresh", "logout"}
    /\ pc[r] = "issue" => job[r].op = "login"
    /\ job[r].op = "login" => job[r].over = {} /\ pc[r] # "scan"
    /\ job[r].op = "none" => pc[r] = "idle"
    /\ job[r].new # 0 => job[r].op \in {"login", "refresh"} /\ pc[r] \in {"apply", "commit"}
    /\ job[r].op \in OneSession =>
         /\ pc[r] \in {"scan", "apply", "revoke", "commit"} => job[r].fam # 0
         /\ pc[r] \in {"apply", "revoke", "commit"} => job[r].over = {job[r].fam}

\* The rows a request read for good are locked.
Locked(r) ==
    /\ \A t \in job[r].gone : tlock[t] = r
    /\ pc[r] \in {"verdict", "rotate"} => /\ tlock[job[r].tok] = r
                                          /\ row[job[r].tok].fam = job[r].fam /\ job[r].fam # 0

\* What a request mints is nobody's until it commits; what it names was issued.
FreshJob(r) ==
    /\ job[r].fam \in held \cup {0} /\ job[r].over \subseteq held
    /\ job[r].new # 0 =>
         /\ job[r].new \in 1..minted /\ job[r].new \notin held
         /\ access[job[r].new].fam = IF job[r].op = "login" THEN job[r].new ELSE job[r].fam
         /\ access[job[r].new].fam # 0

\* What an ending claims, it has seen or will kill, and will cut off.
Ends(r) ==
    /\ pc[r] = "apply" /\ job[r].op \in Ending =>
         \A t \in Tokens : row[t].fam \in job[r].over => row[t].dead # 0 \/ t \in job[r].seen
    /\ pc[r] \in {"revoke", "commit"} /\ job[r].op \in Ending =>
         \A t \in Tokens : row[t].fam \in job[r].over => row[t].dead # 0 \/ t \in job[r].kill
    /\ pc[r] = "commit" /\ job[r].op \in {"logoutAll", "password"} =>
         /\ job[r].cut # 0
         /\ \A t \in 1..minted : access[t].fam \in job[r].over => t < job[r].cut

Renewing(r) == pc[r] = "rotate" \/ (job[r].op = "refresh" /\ job[r].new # 0)
Renewal(r) == Renewing(r) /\ job[r].fam \in ended =>
    /\ verdict[job[r].fam] >= now
    /\ table.fam[job[r].fam] >= now + RevocationTTL

Holds(r) == Account(r) /\ Shape(r) /\ Locked(r) /\ FreshJob(r) /\ Ends(r) /\ Renewal(r)

\* Rows and families are those of tokens that clients have.
Issued ==
    /\ held \subseteq 1..minted /\ ended \subseteq held
    /\ \A t \in held : access[t].fam \in held
    /\ \A t \in Tokens : /\ access[t].at <= now
                         /\ row[t].fam # 0 => t \in held /\ row[t].fam = access[t].fam

\* The access token minted with t is refused for as long as it would be good.
TableRefuses(t) ==
    LET last == access[t].at + Life
    IN \/ now > last
       \/ table.fam[access[t].fam] > last
       \/ table.cutExp > last /\ t < table.cut
Refusals == \A t \in held : access[t].fam \in ended => TableRefuses(t)

World == Issued /\ EndedSessionsStayEnded /\ Refusals

EInv == World /\ Apart /\ \A r \in Requests : Holds(r)

-----------------------------------------------------------------------------
(* What a step of one request leaves of the others.                          *)

LEMMA Numbers ==
    ASSUME TypeOK
    PROVE  /\ now \in Nat /\ now # 0 /\ minted \in Nat /\ MaxTokens \in Nat
           /\ RevocationTTL \in Nat /\ Life \in Nat /\ RefreshLife \in Nat /\ RevocationTTL > Life
           /\ held \subseteq Tokens /\ ended \subseteq Fams0 /\ 0 \notin Tokens
  BY LifetimesAssumption DEF TypeOK, Tokens

\* Neither rows nor tokens change, and no lock of q is lost.
LEMMA OthersHold ==
    ASSUME IInv, EInv, NEW q \in Requests, pc'[q] = pc[q], job'[q] = job[q], acct'[q] = acct[q],
           \A t \in Tokens : tlock[t] = q => tlock'[t] = q,
           UNCHANGED <<row, verdict, table, now, minted, access, held, ended>>
    PROVE  Holds(q)'
  <1>1. Account(q)' /\ Shape(q)' /\ FreshJob(q)' /\ Ends(q)' /\ Renewal(q)'
    BY DEF EInv, Holds, Account, Shape, FreshJob, Ends, Renewal, Renewing
  <1>2. Locked(q)'
    <2>1. job[q].gone \subseteq Tokens
      BY DEF IInv, TypeOK
    <2>2. pc[q] \in {"verdict", "rotate"} => job[q].tok \in Tokens
      BY DEF IInv, AccountWaiters
    <2>3. QED BY <2>1, <2>2 DEF EInv, Holds, Locked
  <1>3. QED BY <1>1, <1>2 DEF Holds

LEMMA WorldStays ==
    ASSUME IInv, EInv, UNCHANGED <<row, verdict, table, now, minted, access, held, ended>>
    PROVE  World'
  BY DEF EInv, World, Issued, EndedSessionsStayEnded, SignedOut, Expired, Refusals, TableRefuses

\* A step of r that changes nothing but r's job and locks.
LEMMA LocalStep ==
    ASSUME IInv, EInv, NEW r \in Requests, Holds(r)',
           UNCHANGED <<row, verdict, table, now, minted, access, held, ended>>,
           \A q \in Requests \ {r} : pc'[q] = pc[q] /\ job'[q] = job[q] /\ acct'[q] = acct[q],
           \A q \in Requests \ {r} : \A t \in Tokens : tlock[t] = q => tlock'[t] = q,
           acct'[r] # acct[r] => \A q \in Requests \ {r} :
               /\ acct'[r] = "share" => acct[q] \notin {"nokey", "update"}
               /\ acct'[r] \in {"nokey", "update"} => acct[q] \notin {"share", "nokey", "update"},
           job'[r].new # 0 => job'[r].new = job[r].new
    PROVE  EInv'
  <1>1. World'
    BY WorldStays
  <1>2. \A q \in Requests : Holds(q)'
    BY OthersHold
  <1>3. Apart'
    BY DEF EInv, Apart
  <1>4. QED BY <1>1, <1>2, <1>3 DEF EInv

-----------------------------------------------------------------------------
(* Steps that change no row.                                                  *)

\* A request that has answered promises nothing.
LEMMA FinishHolds ==
    ASSUME IInv, NEW r \in Requests, Finish(r)
    PROVE  /\ Holds(r)' /\ pc'[r] = "idle" /\ acct'[r] = "none" /\ job'[r].new = 0
           /\ \A q \in Requests \ {r} : pc'[q] = pc[q] /\ job'[q] = job[q] /\ acct'[q] = acct[q]
           /\ \A q \in Requests \ {r} : \A t \in Tokens : tlock[t] = q => tlock'[t] = q
  <1>1. /\ pc'[r] = "idle" /\ job'[r] = NoJob /\ acct'[r] = "none"
        /\ \A q \in Requests \ {r} : pc'[q] = pc[q] /\ job'[q] = job[q] /\ acct'[q] = acct[q]
        /\ \A q \in Requests \ {r} : \A t \in Tokens : tlock[t] = q => tlock'[t] = q
    BY DEF Finish, Goto, IInv, TypeOK
  <1>2. NoJob.op = "none" /\ NoJob.new = 0 /\ NoJob.fam = 0 /\ NoJob.over = {} /\ NoJob.gone = {}
    BY DEF NoJob, Job
  <1>3. Account(r)' /\ Shape(r)'
    BY <1>1, <1>2 DEF Account, Shape, OneSession
  <1>4. Locked(r)' /\ FreshJob(r)' /\ Ends(r)' /\ Renewal(r)'
    BY <1>1, <1>2 DEF Locked, FreshJob, Ends, Renewal, Renewing
  <1>5. QED BY <1>1, <1>2, <1>3, <1>4 DEF Holds

LEMMA FinishStep ==
    ASSUME IInv, EInv, NEW r \in Requests, Finish(r),
           UNCHANGED <<row, verdict, table, now, minted, access, held, ended>>
    PROVE  EInv'
  BY FinishHolds, LocalStep

\* A request is sent: nothing is locked, seen or promised yet.
LEMMA BeginKeeps ==
    ASSUME IInv, EInv, NEW r \in Requests, NEW op \in {"refresh", "logout", "logoutAll", "password", "revoke"},
           NEW t, NEW f \in held \cup {0}, NEW label \in {"account", "link", "scan"},
           op = "revoke" <=> label = "scan", label = "scan" => f # 0, Begin(r, op, label, t, f)
    PROVE  EInv'
  <1>1. /\ pc'[r] = label /\ job'[r] = Job(op, t, f) /\ acct' = acct /\ tlock' = tlock
        /\ \A q \in Requests \ {r} : pc'[q] = pc[q] /\ job'[q] = job[q]
        /\ UNCHANGED <<row, verdict, table, now, minted, access, held, ended>>
    BY DEF Begin, Goto, dbVars, mintVars, IInv, TypeOK
  <1>2. LET j == Job(op, t, f) IN
        /\ j.op = op /\ j.new = 0 /\ j.fam = f /\ j.over = {} /\ j.gone = {}
    BY DEF Job
  <1>3. Account(r)' /\ Shape(r)'
    BY <1>1, <1>2 DEF Account, Shape, OneSession
  <1>4. Locked(r)' /\ FreshJob(r)' /\ Ends(r)' /\ Renewal(r)'
    BY <1>1, <1>2 DEF Locked, FreshJob, Ends, Renewal, Renewing
  <1>5. Holds(r)'
    BY <1>3, <1>4 DEF Holds
  <1>6. QED BY <1>1, <1>2, <1>5, LocalStep

LEMMA StartKeeps ==
    ASSUME IInv, EInv, NEW r \in Requests,
           BeginRefresh(r) \/ BeginLogout(r) \/ BeginLogoutAll(r) \/ BeginNewPassword(r)
           \/ BeginReset(r) \/ BeginRevokeSession(r)
    PROVE  EInv'
  <1>1. CASE BeginRefresh(r) \/ BeginLogout(r) \/ BeginLogoutAll(r) \/ BeginNewPassword(r) \/ BeginReset(r)
    BY <1>1, BeginKeeps DEF BeginRefresh, BeginLogout, BeginLogoutAll, BeginNewPassword, BeginReset
  <1>2. CASE BeginRevokeSession(r)
    <2>1. PICK t \in Tokens : Exists(t) /\ Begin(r, "revoke", "scan", 0, row[t].fam)
      BY <1>2 DEF BeginRevokeSession
    <2>2. row[t].fam \in held /\ row[t].fam # 0
      BY <2>1, Numbers DEF Exists, EInv, World, Issued, IInv
    <2>3. QED BY <2>1, <2>2, BeginKeeps
  <1>3. QED BY <1>1, <1>2

\* A reset takes the row of its link before it has anything else.
LEMMA LinkKeeps ==
    ASSUME IInv, EInv, NEW r \in Requests, LockLink(r)
    PROVE  EInv'
  <1>0. /\ UNCHANGED <<row, verdict, table, now, minted, access, held, ended, acct, tlock>>
        /\ pc[r] = "link" /\ job[r].op = "password" /\ Holds(r)
    BY DEF LockLink, dbVars, mintVars, told, EInv, IInv, AccountWaiters
  <1>1. /\ pc'[r] = "account" /\ job'[r] = [job[r] EXCEPT !.link = TRUE]
        /\ \A q \in Requests \ {r} : pc'[q] = pc[q] /\ job'[q] = job[q]
    BY DEF LockLink, Goto, IInv, TypeOK
  <1>2. /\ job'[r].op = job[r].op /\ job'[r].gone = job[r].gone /\ job'[r].new = job[r].new
        /\ job'[r].fam = job[r].fam /\ job'[r].over = job[r].over
    BY <1>1 DEF IInv, TypeOK
  <1>3. Account(r)' /\ Shape(r)' /\ Locked(r)'
    BY <1>0, <1>1, <1>2 DEF Holds, Account, Shape, Locked, OneSession
  <1>4. Ends(r)' /\ FreshJob(r)' /\ Renewal(r)'
    BY <1>0, <1>1, <1>2 DEF Holds, Shape, Ends, FreshJob, Renewal, Renewing
  <1>5. QED BY <1>0, <1>1, <1>2, <1>3, <1>4, LocalStep DEF Holds

\* The lock on the account is granted against the modes it conflicts with.
LEMMA AccountKeeps ==
    ASSUME IInv, EInv, NEW r \in Requests, LockAccount(r)
    PROVE  EInv'
  <1> DEFINE op == job[r].op
             mode == AccountMode(op)
  <1>1. op \in {"refresh", "logout", "logoutAll", "password"} /\ pc[r] = "account"
    BY DEF IInv, AccountWaiters, LockAccount
  <1>2. mode = IF op = "refresh" THEN "share" ELSE IF op = "password" THEN "nokey" ELSE "update"
    BY <1>1 DEF AccountMode, AccountModes
  <1>3. /\ acct'[r] = mode /\ pc'[r] = (IF op \in {"refresh", "logout"} THEN "token" ELSE "scan")
        /\ CanLockAccount(r, mode) /\ job' = job /\ tlock' = tlock
        /\ \A q \in Requests \ {r} : pc'[q] = pc[q] /\ acct'[q] = acct[q]
        /\ UNCHANGED <<row, verdict, table, now, minted, access, held, ended>>
    BY DEF LockAccount, Goto, dbVars, mintVars, told, IInv, TypeOK
  <1>4. \A q \in Requests \ {r} : /\ acct'[r] = "share" => acct[q] \notin {"nokey", "update"}
                                  /\ acct'[r] \in {"nokey", "update"} =>
                                       acct[q] \notin {"share", "nokey", "update"}
    BY <1>2, <1>3 DEF CanLockAccount, Conflicts
  <1>5. Account(r)' /\ Shape(r)'
    BY <1>1, <1>2, <1>3 DEF EInv, Holds, Account, Shape, OneSession
  <1>6. Locked(r)' /\ FreshJob(r)' /\ Ends(r)' /\ Renewal(r)'
    BY <1>1, <1>3 DEF EInv, Holds, Shape, Locked, FreshJob, Ends, Renewal, Renewing
  <1>7. Holds(r)'
    BY <1>5, <1>6 DEF Holds
  <1>8. QED BY <1>3, <1>4, <1>7, LocalStep

\* The token's row is locked, and names a session that was issued.
LEMMA TokenKeeps ==
    ASSUME IInv, EInv, NEW r \in Requests, LockToken(r)
    PROVE  EInv'
  <1> DEFINE t == job[r].tok
  <1>0. UNCHANGED <<row, verdict, table, now, minted, access, held, ended>> /\ pc[r] = "token"
        /\ t \in Tokens /\ Unlocked(r, {t})
    BY DEF LockToken, dbVars, mintVars, told, IInv, AccountWaiters
  <1>1. CASE ~Exists(t)
    <2>1. Finish(r)
      BY <1>1 DEF LockToken
    <2>2. QED BY <1>0, <2>1, FinishStep
  <1>2. CASE Exists(t)
    <2>1. /\ job'[r] = [job[r] EXCEPT !.fam = row[t].fam] /\ acct' = acct
          /\ pc'[r] = (IF job[r].op = "refresh" THEN "verdict" ELSE "scan") /\ tlock'[t] = r
          /\ \A q \in Requests \ {r} : pc'[q] = pc[q] /\ job'[q] = job[q]
      BY <1>0, <1>2 DEF LockToken, LockRows, Goto, IInv, TypeOK
    <2>2. \A q \in Requests : \A u \in Tokens : tlock[u] = q => tlock'[u] = q
      BY <1>0, <1>2, LifetimesAssumption DEF LockToken, LockRows, Unlocked
    <2>3. /\ job'[r].fam = row[t].fam /\ job'[r].op = job[r].op /\ job'[r].new = job[r].new
          /\ job'[r].over = job[r].over /\ job'[r].gone = job[r].gone /\ job'[r].tok = t
      BY <2>1 DEF IInv, TypeOK
    <2>4. row[t].fam \in held /\ row[t].fam # 0 /\ job[r].gone \subseteq Tokens
      BY <1>0, <1>2 DEF Exists, EInv, World, Issued, IInv, TypeOK
    <2>5. job[r].op \in {"refresh", "logout"}
      BY <1>0 DEF EInv, Holds, Shape
    <2>6. job[r].new = 0
      BY <1>0 DEF EInv, Holds, Shape
    <2>7. Account(r)' /\ Shape(r)' /\ Locked(r)'
      BY <1>0, <2>1, <2>2, <2>3, <2>4, <2>5 DEF EInv, Holds, Account, Shape, Locked, OneSession
    <2>8. FreshJob(r)' /\ Ends(r)' /\ Renewal(r)'
      BY <1>0, <2>1, <2>3, <2>4, <2>5, <2>6 DEF EInv, Holds, Shape, FreshJob, Ends, Renewal, Renewing
    <2>9. QED BY <1>0, <2>1, <2>2, <2>3, <2>7, <2>8, LocalStep DEF Holds
  <1>3. QED BY <1>1, <1>2

\* A rotation goes on only where the session was not ended.
LEMMA VerdictKeeps ==
    ASSUME IInv, EInv, NEW r \in Requests, ReadVerdict(r)
    PROVE  EInv'
  <1> DEFINE t == job[r].tok
             f == job[r].fam
  <1>0. /\ UNCHANGED <<row, verdict, table, now, minted, access, held, ended>> /\ pc[r] = "verdict"
        /\ t \in Tokens /\ job[r].op = "refresh" /\ row[t].fam = f /\ f # 0 /\ tlock[t] = r
        /\ job[r].new = 0 /\ Holds(r)
    BY DEF ReadVerdict, dbVars, mintVars, told, IInv, AccountWaiters, EInv, Holds, Shape, Locked
  <1>1. CASE Finish(r)
    BY <1>0, <1>1, FinishStep
  <1>2. CASE /\ UNCHANGED <<acct, tlock>>
             /\ \/ UNCHANGED job /\ Goto(r, "scan")
                \/ job' = [job EXCEPT ![r].kill = {t}] /\ Goto(r, "commit")
                \/ job' = [job EXCEPT ![r].gone = {t}] /\ Goto(r, "commit")
    <2>1. \A q \in Requests \ {r} : pc'[q] = pc[q] /\ job'[q] = job[q] /\ acct'[q] = acct[q]
      BY <1>2 DEF Goto, IInv, TypeOK
    <2>2. /\ pc'[r] \in {"scan", "commit"} /\ job'[r].op = "refresh" /\ job'[r].new = 0
          /\ job'[r].fam = f /\ job'[r].over = job[r].over
          /\ job'[r].gone \in {job[r].gone, {t}}
      BY <1>0, <1>2 DEF Goto, IInv, TypeOK
    <2>3. Account(r)' /\ Shape(r)' /\ Locked(r)'
      BY <1>0, <1>2, <2>2 DEF Holds, Account, Shape, Locked, OneSession
    <2>4. FreshJob(r)' /\ Ends(r)' /\ Renewal(r)'
      BY <1>0, <2>2 DEF Holds, FreshJob, Ends, Renewal, Renewing, Ending
    <2>5. QED BY <1>0, <1>2, <2>1, <2>2, <2>3, <2>4, LocalStep DEF Holds
  <1>3. CASE /\ row[t].dead = 0 /\ verdict[f] = 0 /\ ~Expired(t)
             /\ Goto(r, "rotate") /\ UNCHANGED <<job, acct, tlock>>
    <2>1. f \notin ended
      BY <1>0, <1>3 DEF EInv, World, EndedSessionsStayEnded, SignedOut
    <2>2. pc'[r] = "rotate" /\ \A q \in Requests \ {r} : pc'[q] = pc[q]
      BY <1>3 DEF Goto, IInv, TypeOK
    <2>3. Account(r)' /\ Shape(r)' /\ Locked(r)'
      BY <1>0, <1>3, <2>2 DEF Holds, Account, Shape, Locked, OneSession
    <2>4. FreshJob(r)' /\ Ends(r)' /\ Renewal(r)'
      BY <1>0, <1>3, <2>1, <2>2 DEF Holds, FreshJob, Ends, Renewal, Renewing, Ending
    <2>5. QED BY <1>0, <1>3, <2>2, <2>3, <2>4, LocalStep DEF Holds
  <1>4. QED BY <1>1, <1>2, <1>3 DEF ReadVerdict

\* The snapshot covers every session the ending claims.
LEMMA ScanKeeps ==
    ASSUME IInv, EInv, NEW r \in Requests, Scan(r)
    PROVE  EInv'
  <1> DEFINE f == job[r].fam
             one == job[r].op \in OneSession
             all == {t \in Tokens : Exists(t) /\ (job[r].op = "refresh" \/ row[t].dead = 0)}
             seen == IF one THEN {t \in all : row[t].fam = f} ELSE all
             over == IF one THEN {f} ELSE {access[t].fam : t \in held}
  <1>0. /\ UNCHANGED <<row, verdict, table, now, minted, access, held, ended, acct, tlock>> /\ pc[r] = "scan"
        /\ job[r].new = 0 /\ job[r].op # "login" /\ Holds(r) /\ (one => f # 0)
    BY DEF Scan, dbVars, mintVars, told, EInv, Holds, Shape
  <1>1. /\ pc'[r] = "apply" /\ job'[r] = [job[r] EXCEPT !.seen = seen, !.over = over]
        /\ \A q \in Requests \ {r} : pc'[q] = pc[q] /\ job'[q] = job[q] /\ acct'[q] = acct[q]
    BY <1>0 DEF Scan, Goto, IInv, TypeOK
  <1>2. /\ job'[r].seen = seen /\ job'[r].over = over /\ job'[r].op = job[r].op /\ job'[r].new = 0
        /\ job'[r].fam = f /\ job'[r].gone = job[r].gone
    BY <1>0, <1>1 DEF IInv, TypeOK
  <1>3. over \subseteq held /\ 0 \notin over
    <2>1. f \in held \cup {0} /\ 0 \notin held
      BY <1>0, Numbers DEF Holds, FreshJob, IInv
    <2>2. \A t \in held : access[t].fam \in held
      BY DEF EInv, World, Issued
    <2>3. QED BY <1>0, <2>1, <2>2
  <1>4. Account(r)' /\ Shape(r)' /\ Locked(r)'
    BY <1>0, <1>1, <1>2 DEF Holds, Account, Shape, Locked, OneSession
  <1>5. Ends(r)'
    <2>1. ASSUME job[r].op \in Ending, NEW t \in Tokens, row[t].fam \in over
          PROVE  row[t].dead # 0 \/ t \in seen
      BY <1>0, <1>3, <2>1 DEF Exists
    <2>2. QED BY <1>0, <1>1, <1>2, <2>1 DEF Ends
  <1>6. FreshJob(r)' /\ Renewal(r)'
    BY <1>0, <1>1, <1>2, <1>3 DEF Holds, FreshJob, Renewal, Renewing
  <1>7. QED BY <1>0, <1>1, <1>2, <1>4, <1>5, <1>6, LocalStep DEF Holds

\* What was seen and still qualifies is locked, to be killed or removed.
LEMMA ApplyKeeps ==
    ASSUME IInv, EInv, NEW r \in Requests, Apply(r)
    PROVE  EInv'
  <1> DEFINE issues == job[r].new # 0
             reuse == job[r].op = "refresh" /\ ~issues
             hit == {t \in job[r].seen : IF issues THEN Live(t)
                                         ELSE Exists(t) /\ (reuse \/ row[t].dead = 0)}
             gone == IF issues \/ reuse THEN hit ELSE {}
             kill == IF issues \/ reuse THEN {} ELSE hit
  <1>0. /\ UNCHANGED <<row, verdict, table, now, minted, access, held, ended, acct>> /\ pc[r] = "apply"
        /\ Holds(r) /\ Unlocked(r, job[r].seen) /\ hit \subseteq Tokens /\ job[r].seen \subseteq Tokens
    BY DEF Apply, dbVars, mintVars, told, EInv, IInv, TypeOK
  <1>1. /\ pc'[r] = (IF issues THEN "commit" ELSE "revoke")
        /\ job'[r] = [job[r] EXCEPT !.seen = {}, !.gone = gone, !.kill = kill]
        /\ \A q \in Requests \ {r} : pc'[q] = pc[q] /\ job'[q] = job[q] /\ acct'[q] = acct[q]
        /\ tlock' = [t \in Tokens |-> IF t \in hit THEN r ELSE tlock[t]]
    BY <1>0 DEF Apply, Goto, LockRows, IInv, TypeOK
  <1>2. /\ job'[r].gone = gone /\ job'[r].kill = kill /\ job'[r].op = job[r].op
        /\ job'[r].new = job[r].new /\ job'[r].fam = job[r].fam /\ job'[r].over = job[r].over
    BY <1>0, <1>1 DEF IInv, TypeOK
  <1>3. /\ \A q \in Requests \ {r} : \A t \in Tokens : tlock[t] = q => tlock'[t] = q
        /\ \A t \in gone : tlock'[t] = r
    BY <1>0, <1>1, LifetimesAssumption DEF Unlocked
  <1>4. Account(r)' /\ Shape(r)' /\ Locked(r)'
    BY <1>0, <1>1, <1>2, <1>3 DEF Holds, Account, Shape, Locked, OneSession
  <1>5. Ends(r)'
    <2>1. CASE job[r].op \in Ending
      <3>1. ~issues /\ ~reuse /\ job[r].over \subseteq held /\ 0 \notin held
        BY <1>0, <2>1, Numbers DEF Holds, Shape, FreshJob, Ending, IInv
      <3>2. ASSUME NEW t \in Tokens, row[t].fam \in job[r].over PROVE row[t].dead # 0 \/ t \in kill
        BY <1>0, <2>1, <3>1, <3>2 DEF Holds, Ends, Exists
      <3>3. QED BY <1>0, <1>1, <1>2, <3>1, <3>2 DEF Ends
    <2>2. CASE job[r].op \notin Ending
      BY <1>2, <2>2 DEF Ends, Ending
    <2>3. QED BY <2>1, <2>2
  <1>6. FreshJob(r)' /\ Renewal(r)'
    BY <1>0, <1>1, <1>2 DEF Holds, FreshJob, Renewal, Renewing
  <1>7. QED BY <1>0, <1>1, <1>2, <1>3, <1>4, <1>5, <1>6, LocalStep DEF Holds

\* The cutoff is dated after every token minted so far.
LEMMA RevokeKeeps ==
    ASSUME IInv, EInv, NEW r \in Requests, Revoke(r)
    PROVE  EInv'
  <1> DEFINE cut == IF job[r].op \in OneSession THEN 0 ELSE minted + 1
             link == job[r].link \/ Cancels(r)
  <1>0. /\ UNCHANGED <<row, verdict, table, now, minted, access, held, ended, tlock>> /\ pc[r] = "revoke"
        /\ Holds(r)
    BY DEF Revoke, dbVars, mintVars, told, EInv
  <1>1. /\ pc'[r] = "commit" /\ job'[r] = [job[r] EXCEPT !.cut = cut, !.link = link]
        /\ \A q \in Requests \ {r} : pc'[q] = pc[q] /\ job'[q] = job[q] /\ acct'[q] = acct[q]
    BY <1>0 DEF Revoke, Goto, IInv, TypeOK
  <1>a. \/ job[r].op # "revoke" /\ acct'[r] = acct[r]
        \/ job[r].op = "revoke" /\ acct'[r] = "key"
        \/ job[r].op = "refresh" /\ acct'[r] = "nokey" /\ CanLockAccount(r, "nokey")
    BY <1>0 DEF Revoke, IInv, TypeOK
  <1>b. acct'[r] = "nokey" /\ acct'[r] # acct[r] =>
          \A q \in Requests \ {r} : acct[q] \notin {"share", "nokey", "update"}
    BY <1>a DEF CanLockAccount, Conflicts
  <1>2. /\ job'[r].cut = cut /\ job'[r].kill = job[r].kill /\ job'[r].op = job[r].op /\ job'[r].gone = job[r].gone
        /\ job'[r].new = job[r].new /\ job'[r].fam = job[r].fam /\ job'[r].over = job[r].over
    BY <1>0, <1>1 DEF IInv, TypeOK
  <1>3. Account(r)' /\ Shape(r)' /\ Locked(r)'
    <2>1. job[r].new = 0
      BY <1>0 DEF Holds, Shape
    <2>2. QED BY <1>0, <1>1, <1>2, <1>a, <2>1 DEF Holds, Account, Shape, Locked, OneSession
  <1>4. Ends(r)'
    <2>1. job[r].op \in {"logoutAll", "password"} => cut # 0 /\ \A t \in 1..minted : t < cut
      BY Numbers DEF OneSession, IInv
    <2>2. QED BY <1>0, <1>1, <1>2, <2>1 DEF Holds, Ends
  <1>5. FreshJob(r)' /\ Renewal(r)'
    BY <1>0, <1>1, <1>2 DEF Holds, FreshJob, Renewal, Renewing
  <1>6. acct'[r] # acct[r] => acct'[r] \in {"key", "nokey"}
    BY <1>a
  <1>7. Holds(r)'
    BY <1>3, <1>4, <1>5 DEF Holds
  <1>8. QED BY <1>0, <1>1, <1>2, <1>b, <1>6, <1>7, LocalStep

LEMMA AbortKeeps ==
    ASSUME IInv, EInv, NEW r \in Requests, Abort(r)
    PROVE  EInv'
  <1>1. Finish(r) /\ UNCHANGED <<row, verdict, table, now, minted, access, held, ended>>
    BY DEF Abort, dbVars, mintVars, told
  <1>2. QED BY <1>1, FinishStep

-----------------------------------------------------------------------------
(* Steps that mint.                                                          *)

LEMMA Minted ==
    ASSUME IInv, EInv, NEW f, Mint(f)
    PROVE  /\ minted + 1 \in Tokens /\ minted' = minted + 1 /\ held' = held /\ minted \in Nat
           /\ access'[minted + 1] = [fam |-> f, at |-> now]
           /\ \A t \in Tokens : t # minted + 1 => access'[t] = access[t]
           /\ minted + 1 \notin held /\ minted + 1 # 0
           /\ minted + 1 \in 1..minted'
           /\ \A t \in 1..minted' : t \in Tokens /\ (t = minted + 1 \/ t \in 1..minted)
  <1>1. minted < MaxTokens /\ minted' = minted + 1 /\ held' = held
        /\ access' = [access EXCEPT ![minted + 1] = [fam |-> f, at |-> now]]
    BY DEF Mint
  <1>2. minted \in Nat /\ MaxTokens \in Nat /\ held \subseteq 1..minted
    BY Numbers DEF IInv, EInv, World, Issued
  <1>3. minted + 1 \in Tokens /\ minted + 1 \notin held /\ minted + 1 # 0
    BY <1>1, <1>2 DEF Tokens
  <1>4. DOMAIN access = Tokens /\ access = [t \in Tokens |-> access[t]]
    BY DEF IInv, TypeOK
  <1>5. /\ access'[minted + 1] = [fam |-> f, at |-> now]
        /\ \A t \in Tokens : t # minted + 1 => access'[t] = access[t]
    <2> DEFINE x == [fam |-> f, at |-> now]
    <2> HIDE DEF x
    <2>1. access' = [access EXCEPT ![minted + 1] = x]
      BY <1>1 DEF x
    <2>2. access'[minted + 1] = x /\ \A t \in Tokens : t # minted + 1 => access'[t] = access[t]
      BY <1>3, <1>4, <2>1
    <2>3. QED BY <2>2 DEF x
  <1>6. /\ minted + 1 \in 1..minted'
        /\ \A t \in 1..minted' : t \in Tokens /\ (t = minted + 1 \/ t \in 1..minted)
    BY <1>1, <1>2 DEF Tokens
  <1>7. QED BY <1>1, <1>2, <1>3, <1>5, <1>6

\* A token minted is nobody's, and comes before the cutoffs still to be made.
LEMMA MintStep ==
    ASSUME IInv, EInv, NEW r \in Requests, NEW f, Mint(f),
           UNCHANGED <<row, verdict, table, now, ended, tlock>>,
           Holds(r)', job'[r].new = minted + 1, acct'[r] \in {acct[r], "key"},
           \A q \in Requests \ {r} : pc'[q] = pc[q] /\ job'[q] = job[q] /\ acct'[q] = acct[q],
           \A q \in Requests \ {r} : pc[q] = "commit" /\ job[q].op \in {"logoutAll", "password"}
               => f \notin job[q].over
    PROVE  EInv'
  <1>1. /\ minted + 1 \in Tokens /\ minted' = minted + 1 /\ held' = held /\ minted \in Nat
        /\ access'[minted + 1] = [fam |-> f, at |-> now]
        /\ \A t \in Tokens : t # minted + 1 => access'[t] = access[t]
    BY Minted
  <1>2. held \subseteq Tokens /\ \A t \in held : t \in 1..minted /\ t # minted + 1
    BY <1>1, Numbers DEF EInv, World, Issued, IInv
  <1>3. World'
    <2>1. Issued'
      <3>1. held' \subseteq 1..minted' /\ ended' \subseteq held'
        BY <1>1, <1>2 DEF EInv, World, Issued
      <3>2. \A t \in held' : access'[t].fam \in held'
        BY <1>1, <1>2 DEF EInv, World, Issued
      <3>3. \A t \in Tokens : access'[t].at <= now'
        BY <1>1, Numbers DEF EInv, World, Issued, IInv
      <3>4. \A t \in Tokens : row'[t].fam # 0 => t \in held' /\ row'[t].fam = access'[t].fam
        BY <1>1, <1>2 DEF EInv, World, Issued
      <3>5. QED BY <3>1, <3>2, <3>3, <3>4 DEF Issued
    <2>2. EndedSessionsStayEnded'
      BY DEF EInv, World, EndedSessionsStayEnded, SignedOut, Expired
    <2>3. Refusals'
      BY <1>1, <1>2 DEF EInv, World, Refusals, TableRefuses
    <2>4. QED BY <2>1, <2>2, <2>3 DEF World
  <1>4. ASSUME NEW q \in Requests, q # r PROVE Holds(q)'
    <2>1. Holds(q) /\ (job[q].new # 0 => job[q].new \in 1..minted /\ job[q].new # minted + 1)
          /\ job[q].new \in Tokens \cup {0}
      BY <1>1 DEF EInv, Holds, FreshJob, IInv, TypeOK
    <2>2. Account(q)' /\ Shape(q)' /\ Locked(q)' /\ Renewal(q)'
      BY <1>4, <2>1 DEF Holds, Account, Shape, Locked, Renewal, Renewing
    <2>3. FreshJob(q)'
      BY <1>1, <1>4, <2>1 DEF Holds, FreshJob
    <2>4. Ends(q)'
      <3>1. \A t \in 1..minted' : t \in Tokens /\ (t = minted + 1 \/ t \in 1..minted)
        BY Minted
      <3>2. pc[q] = "commit" /\ job[q].op \in {"logoutAll", "password"} =>
              \A t \in 1..minted' : access'[t].fam \in job[q].over => t < job[q].cut
        BY <1>1, <1>4, <2>1, <3>1 DEF Holds, Ends
      <3>3. QED BY <1>4, <2>1, <3>2 DEF Holds, Ends
    <2>5. QED BY <2>2, <2>3, <2>4 DEF Holds
  <1>5. Apart'
    <2>1. \A q \in Requests : job[q].new # 0 => job[q].new # minted + 1
      BY <1>1 DEF EInv, Holds, FreshJob
    <2>2. QED BY <2>1 DEF EInv, Apart
  <1>6. QED BY <1>3, <1>4, <1>5 DEF EInv

\* A sign-in starts a session of its own.
LEMMA IssueKeeps ==
    ASSUME IInv, EInv, NEW r \in Requests, Issue(r)
    PROVE  EInv'
  <1>0. /\ UNCHANGED <<row, verdict, table, now, ended, tlock>> /\ pc[r] = "issue" /\ Mint(minted + 1)
        /\ Holds(r) /\ job[r].op = "login"
    BY DEF Issue, dbVars, told, EInv, Holds, Shape
  <1>1. /\ pc'[r] = "apply" /\ acct'[r] = "key"
        /\ \A q \in Requests \ {r} : pc'[q] = pc[q] /\ job'[q] = job[q] /\ acct'[q] = acct[q]
    BY DEF Issue, Goto, IInv, TypeOK
  <1>2. PICK c : job' = [job EXCEPT ![r].new = minted + 1, ![r].seen = c]
    BY DEF Issue
  <1>3. /\ job'[r].op = "login" /\ job'[r].new = minted + 1 /\ job'[r].fam = job[r].fam
        /\ job'[r].over = job[r].over /\ job'[r].gone = job[r].gone
    BY <1>0, <1>2 DEF IInv, TypeOK
  <1>4. /\ minted + 1 \in 1..minted' /\ minted + 1 \notin held /\ minted + 1 # 0 /\ held' = held
        /\ access'[minted + 1].fam = minted + 1
    <2>1. access'[minted + 1] = [fam |-> minted + 1, at |-> now]
      BY <1>0, Minted, Zenon
    <2>2. /\ minted + 1 \in 1..minted' /\ minted + 1 \notin held /\ minted + 1 # 0 /\ held' = held
      BY <1>0, Minted, Zenon
    <2>3. QED BY <2>1, <2>2
  <1>5. Account(r)' /\ Shape(r)' /\ Locked(r)'
    BY <1>0, <1>1, <1>3 DEF Holds, Account, Shape, Locked, OneSession
  <1>6. FreshJob(r)' /\ Ends(r)' /\ Renewal(r)'
    BY <1>0, <1>1, <1>3, <1>4 DEF Holds, FreshJob, Ends, Renewal, Renewing, Ending
  <1>7. \A q \in Requests : minted + 1 \notin job[q].over
    BY <1>4 DEF EInv, Holds, FreshJob
  <1>8. QED BY <1>0, <1>1, <1>3, <1>5, <1>6, <1>7, MintStep DEF Holds

\* A rotation mints into the session of the token it consumes, and none that
\* ends all sessions is under way.
LEMMA RotateKeeps ==
    ASSUME IInv, EInv, NEW r \in Requests, Rotate(r)
    PROVE  EInv'
  <1> DEFINE t == job[r].tok
             f == row[t].fam
  <1>0. /\ UNCHANGED <<row, verdict, table, now, ended, tlock, acct>> /\ pc[r] = "rotate" /\ Mint(f)
        /\ Holds(r) /\ job[r].op = "refresh" /\ f = job[r].fam /\ f # 0 /\ acct[r] = "share"
    BY DEF Rotate, dbVars, told, EInv, Holds, Shape, Locked, Account
  <1>1. /\ pc'[r] = "apply"
        /\ \A q \in Requests \ {r} : pc'[q] = pc[q] /\ job'[q] = job[q] /\ acct'[q] = acct[q]
    BY <1>0 DEF Rotate, Goto, IInv, TypeOK
  <1>2. PICK c, s : job' = [job EXCEPT ![r].new = minted + 1, ![r].spend = s, ![r].seen = c]
    BY DEF Rotate
  <1>3. /\ job'[r].op = "refresh" /\ job'[r].new = minted + 1 /\ job'[r].fam = f
        /\ job'[r].over = job[r].over /\ job'[r].gone = job[r].gone
    BY <1>0, <1>2 DEF IInv, TypeOK
  <1>4. /\ minted + 1 \in 1..minted' /\ minted + 1 \notin held /\ minted + 1 # 0 /\ held' = held
        /\ access'[minted + 1].fam = f
    <2> HIDE DEF f
    <2>1. access'[minted + 1] = [fam |-> f, at |-> now]
      BY <1>0, Minted, Zenon
    <2>2. /\ minted + 1 \in 1..minted' /\ minted + 1 \notin held /\ minted + 1 # 0 /\ held' = held
      BY <1>0, Minted, Zenon
    <2>3. QED BY <2>1, <2>2
  <1>5. Account(r)' /\ Shape(r)' /\ Locked(r)'
    BY <1>0, <1>1, <1>3 DEF Holds, Account, Shape, Locked, OneSession
  <1>6. FreshJob(r)' /\ Ends(r)' /\ Renewal(r)'
    BY <1>0, <1>1, <1>3, <1>4 DEF Holds, FreshJob, Ends, Renewal, Renewing, Ending
  <1>7. \A q \in Requests \ {r} : ~(pc[q] = "commit" /\ job[q].op \in {"logoutAll", "password"})
    BY <1>0 DEF EInv, Apart, Holds, Account
  <1>8. QED BY <1>0, <1>1, <1>3, <1>5, <1>6, <1>7, MintStep DEF Holds

-----------------------------------------------------------------------------
(* The end of a transaction.                                                 *)

\* What a Commit makes of the rows: a removed one is gone, the others keep
\* session and age, none comes back to life, and the request's own token is new.
LEMMA CommitRows ==
    ASSUME IInv, EInv, NEW r \in Requests, Commit(r), NEW t \in Tokens
    PROVE  /\ t = job[r].new => /\ row'[t].fam = access[t].fam /\ row'[t].fam # 0
                                /\ row'[t].dead = 0
           /\ t # job[r].new /\ row'[t].fam # 0 =>
                /\ row'[t].fam = row[t].fam /\ row'[t].made = row[t].made
                /\ row[t].dead # 0 => row'[t].dead # 0
                /\ t \in job[r].kill => row'[t].dead # 0
           /\ t # job[r].new /\ t \notin job[r].gone => row'[t].fam = row[t].fam
  <1>1. row'[t] = Committed(r, t) /\ row[t] \in Rows /\ now # 0
    BY Numbers DEF Commit, IInv, TypeOK
  <1>2. CASE t = job[r].new
    <2>1. row'[t] = [fam |-> access[t].fam, made |-> now, spent |-> 0, dead |-> 0]
      BY <1>1, <1>2 DEF Committed
    <2>2. access[t].fam # 0
      BY <1>2, Numbers DEF EInv, Holds, FreshJob, IInv
    <2>3. QED BY <1>2, <2>1, <2>2
  <1>3. CASE t # job[r].new /\ t \in job[r].gone
    <2>1. row'[t].fam = 0
      BY <1>1, <1>3 DEF Committed, NoRow
    <2>2. QED BY <1>3, <2>1
  <1>4. CASE t # job[r].new /\ t \notin job[r].gone
    <2>1. row'[t] = IF t \in job[r].kill THEN [row[t] EXCEPT !.dead = now]
                    ELSE IF t = job[r].spend THEN [row[t] EXCEPT !.spent = now] ELSE row[t]
      BY <1>1, <1>4 DEF Committed
    <2>2. QED BY <1>1, <1>4, <2>1 DEF Rows
  <1>5. QED BY <1>2, <1>3, <1>4

\* What it makes of the verdicts and the table: revocations last only longer.
LEMMA CommitRevokes ==
    ASSUME IInv, EInv, NEW r \in Requests, Commit(r)
    PROVE  /\ \A g \in Families : verdict'[g] = verdict[g] \/ verdict'[g] = now + RefreshLife
           /\ job[r].op # "revoke" => verdict' = verdict
           /\ job[r].op = "revoke" => verdict'[job[r].fam] = now + RefreshLife
           /\ \A g \in Families : table'.fam[g] >= table.fam[g]
           /\ table'.cut >= table.cut /\ table'.cutExp >= table.cutExp
           /\ job[r].op \in OneSession => table'.fam[job[r].fam] = now + RevocationTTL
           /\ job[r].op \notin OneSession /\ job[r].cut # 0 =>
                table'.cut >= job[r].cut /\ table'.cutExp = now + RevocationTTL
  <1>0. /\ table \in Revocations /\ table.fam \in [Families -> Nat] /\ table.cut \in Nat
        /\ table.cutExp \in Nat /\ job[r].cut \in Nat /\ now \in Nat /\ RevocationTTL \in Nat
        /\ MaxTokens \in Nat /\ pc[r] = "commit" /\ verdict \in [Families -> Nat]
        /\ \A g \in Families : table.fam[g] <= now + RevocationTTL
        /\ table.cutExp <= now + RevocationTTL
    BY Numbers DEF IInv, TypeOK, Revocations, NoFuture, Commit
  <1>1. job[r].op \in OneSession => job[r].fam \in Families
    BY <1>0 DEF EInv, Holds, Shape, IInv, TypeOK, Fams0
  <1>2. /\ job[r].op # "revoke" => verdict' = verdict
        /\ job[r].op = "revoke" => verdict'[job[r].fam] = now + RefreshLife
        /\ \A g \in Families : verdict'[g] = verdict[g] \/ verdict'[g] = now + RefreshLife
    BY <1>0, <1>1 DEF Commit, OneSession
  <1>3. CASE job[r].op \in OneSession
    <2>1. table' = WithSession(table, job[r].fam)
      BY <1>3 DEF Commit
    <2>2. /\ table'.cut = table.cut /\ table'.cutExp = table.cutExp
          /\ \A g \in Families : table'.fam[g] = IF g = job[r].fam THEN now + RevocationTTL ELSE table.fam[g]
      BY <1>0, <2>1 DEF WithSession, Revocations
    <2>3. QED BY <1>0, <1>1, <1>2, <1>3, <2>2
  <1>4. CASE job[r].op \notin OneSession /\ job[r].cut # 0
    <2>1. table' = WithCutoff(table, job[r].cut)
      BY <1>4 DEF Commit
    <2>2. /\ table'.cut = (IF table.cut < job[r].cut THEN job[r].cut ELSE table.cut)
          /\ table'.cutExp = now + RevocationTTL /\ table'.fam = table.fam
      BY <1>0, <2>1 DEF WithCutoff, Revocations
    <2>3. QED BY <1>0, <1>2, <1>4, <2>2
  <1>5. CASE job[r].op \notin OneSession /\ job[r].cut = 0
    <2>1. table' = table
      BY <1>5 DEF Commit
    <2>2. QED BY <1>0, <1>2, <1>5, <2>1
  <1>6. QED BY <1>3, <1>4, <1>5

\* Who commits what: a sign-in a session nobody ended, a rotation a token of its
\* own session, an ending the sessions it has killed.
LEMMA CommitKinds ==
    ASSUME IInv, EInv, NEW r \in Requests, Commit(r)
    PROVE  /\ pc[r] = "commit" /\ now' = now /\ minted' = minted /\ access' = access
           /\ held' = held \cup ({job[r].new} \ {0})
           /\ ended' = (IF job[r].op = "refresh" THEN ended ELSE ended \cup job[r].over)
           /\ job[r].op \in {"login", "refresh", "revoke"} \cup Ending
           /\ job[r].new # 0 => job[r].op \in {"login", "refresh"}
           /\ job[r].op = "login" => job[r].over = {}
           /\ job[r].op = "refresh" => acct[r] \in {"share", "nokey"}
           /\ job[r].op \in Ending => acct[r] \in {"update", "nokey"}
           /\ job[r].op \in OneSession => job[r].over = {job[r].fam} /\ job[r].fam \in Families
           /\ job[r].over \subseteq held
  <1>1. /\ pc[r] = "commit" /\ now' = now /\ minted' = minted /\ access' = access
        /\ held' = held \cup ({job[r].new} \ {0})
        /\ ended' = (IF job[r].op = "refresh" THEN ended ELSE ended \cup job[r].over)
    BY DEF Commit
  <1>2. Holds(r) /\ job[r].op \in OpNames \cup {"none"} /\ job[r].fam \in Fams0
    BY DEF EInv, IInv, TypeOK
  <1>3. QED BY <1>1, <1>2 DEF Holds, Account, Shape, FreshJob, Ending, OpNames, OneSession, Fams0

LEMMA CommitIssued ==
    ASSUME IInv, EInv, NEW r \in Requests, Commit(r)
    PROVE  Issued'
  <1> DEFINE new == job[r].new
  <1>1. new # 0 => new \in 1..minted /\ (access[new].fam \in held \/ access[new].fam = new)
    BY DEF EInv, Holds, FreshJob
  <1>i. /\ held \subseteq 1..minted /\ ended \subseteq held /\ \A t \in held : access[t].fam \in held
    BY DEF EInv, World, Issued
  <1>k. /\ held \subseteq held' /\ (new # 0 => new \in held') /\ \A t \in held' : t \in held \/ (t = new /\ new # 0)
        /\ \A g \in ended' : g \in ended \/ g \in job[r].over
        /\ minted' = minted /\ access' = access /\ job[r].over \subseteq held
    BY CommitKinds
  <1>2. held' \subseteq 1..minted' /\ ended' \subseteq held'
    <2>1. held' \subseteq 1..minted
      BY <1>1, <1>i, <1>k, Zenon
    <2>2. ended' \subseteq held'
      BY <1>i, <1>k, Zenon
    <2>3. QED BY <1>k, <2>1, <2>2
  <1>3. \A t \in held' : access'[t].fam \in held'
    BY <1>1, <1>i, <1>k, Zenon
  <1>4. \A t \in Tokens : row'[t].fam # 0 => t \in held' /\ row'[t].fam = access'[t].fam
    <2>1. held \subseteq Tokens /\ \A t \in Tokens : row[t].fam # 0 => t \in held /\ row[t].fam = access[t].fam
      BY Numbers DEF EInv, World, Issued, IInv
    <2>2. SUFFICES ASSUME NEW t \in Tokens, row'[t].fam # 0
                   PROVE  t \in held' /\ row'[t].fam = access[t].fam
      BY <1>k
    <2>3. CASE t = new
      <3>1. new # 0
        BY <2>3, Numbers DEF IInv
      <3>2. QED BY <1>k, <2>3, <3>1, CommitRows
    <2>4. CASE t # new
      <3>1. row'[t].fam = row[t].fam
        BY <2>2, <2>4, CommitRows
      <3>2. QED BY <1>k, <2>1, <2>2, <3>1
    <2>5. QED BY <2>3, <2>4
  <1>5. \A t \in Tokens : access'[t].at <= now'
    BY CommitKinds DEF EInv, World, Issued
  <1>6. QED BY <1>2, <1>3, <1>4, <1>5 DEF Issued

\* No row outlives the end of its session, the one a rotation inserts included.
LEMMA CommitEnded ==
    ASSUME IInv, EInv, NEW r \in Requests, Commit(r)
    PROVE  EndedSessionsStayEnded'
  <1> DEFINE new == job[r].new
  <1> SUFFICES ASSUME NEW g \in ended', NEW t \in Tokens, row'[t].fam = g
               PROVE  row'[t].dead # 0 \/ verdict'[g] # 0 \/ Expired(t)'
    BY DEF EndedSessionsStayEnded, SignedOut
  <1>0. /\ g \in Families /\ now \in Nat /\ now # 0 /\ RefreshLife \in Nat /\ now + RefreshLife # 0
        /\ ended \subseteq held /\ held \subseteq Tokens /\ 0 \notin Tokens
        /\ verdict \in [Families -> Nat]
    <2>1. job[r].over \subseteq held /\ ended \subseteq held /\ held \subseteq Tokens /\ 0 \notin Tokens
      BY Numbers, CommitKinds DEF EInv, World, Issued, IInv
    <2>2. g \in held
      BY <2>1, CommitKinds
    <2>3. QED BY <2>1, <2>2, Numbers DEF IInv, TypeOK, Families
  <1>1. CASE g \in ended /\ t # new
    <2>1. row[t].fam = g /\ row'[t].made = row[t].made /\ (row[t].dead # 0 => row'[t].dead # 0)
      BY <1>0, <1>1, CommitRows
    <2>2. row[t].dead # 0 \/ verdict[g] # 0 \/ Expired(t)
      BY <1>1, <2>1 DEF EInv, World, EndedSessionsStayEnded, SignedOut
    <2>3. verdict[g] # 0 => verdict'[g] # 0
      BY <1>0, CommitRevokes
    <2>4. Expired(t) => Expired(t)'
      BY <2>1, CommitKinds DEF Expired
    <2>5. QED BY <2>1, <2>2, <2>3, <2>4
  <1>2. CASE g \in ended /\ t = new
    <2>1. new # 0 /\ g = access[new].fam
      BY <1>0, <1>2, CommitRows
    <2>2. job[r].op = "refresh" /\ g = job[r].fam
      BY <1>0, <1>2, <2>1, CommitKinds DEF EInv, Holds, FreshJob
    <2>3. verdict[g] >= now
      BY <1>2, <2>1, <2>2 DEF EInv, Holds, Renewal, Renewing
    <2>4. verdict'[g] # 0
      BY <1>0, <2>2, <2>3, CommitRevokes
    <2>5. QED BY <2>4
  <1>3. CASE g \notin ended
    <2>1. g \in job[r].over /\ job[r].op \in {"revoke"} \cup Ending
      BY <1>3, CommitKinds
    <2>2. CASE job[r].op = "revoke"
      <3>1. g = job[r].fam
        BY <2>1, <2>2, CommitKinds DEF OneSession
      <3>2. verdict'[g] = now + RefreshLife
        BY <2>2, <3>1, CommitRevokes
      <3>3. QED BY <1>0, <3>2
    <2>3. CASE job[r].op \in Ending
      <3>1. new = 0
        BY <2>3, CommitKinds DEF Ending
      <3>2. row[t].fam = g /\ t # new
        <4>1. t # new /\ row'[t].fam # 0
          BY <1>0, <3>1 DEF Families, Tokens
        <4>2. QED BY <4>1, CommitRows
      <3>3. row[t].dead # 0 \/ t \in job[r].kill
        BY <2>1, <2>3, <3>2, CommitKinds DEF EInv, Holds, Ends
      <3>4. row'[t].fam # 0
        BY <1>0 DEF Families, Tokens
      <3>5. QED BY <3>2, <3>3, <3>4, CommitRows
    <2>4. QED BY <2>1, <2>2, <2>3
  <1>4. QED BY <1>1, <1>2, <1>3

\* Nor is an access token of it good, the one a rotation minted included.
LEMMA CommitRefusals ==
    ASSUME IInv, EInv, NEW r \in Requests, Commit(r)
    PROVE  Refusals'
  <1> DEFINE new == job[r].new
  <1> SUFFICES ASSUME NEW t \in held', access'[t].fam \in ended'
               PROVE  TableRefuses(t)'
    BY DEF Refusals
  <1> DEFINE g == access[t].fam
             last == access[t].at + Life
  <1>0. /\ t \in Tokens /\ g \in Families /\ last \in Nat /\ now \in Nat /\ RevocationTTL \in Nat
        /\ now + RevocationTTL > last /\ access'[t] = access[t] /\ now' = now
        /\ table.fam[g] \in Nat /\ table.cut \in Nat /\ table.cutExp \in Nat /\ t \in 1..minted
    <2>1. t \in 1..minted /\ t \in Tokens /\ g \in Families /\ access' = access /\ now' = now
      <3>1. Issued'
        BY CommitIssued
      <3>2. t \in 1..minted /\ access'[t].fam \in 1..minted
        BY <3>1, CommitKinds DEF Issued
      <3>3. 1..minted \subseteq Tokens
        <4>1. minted \in 0..MaxTokens /\ MaxTokens \in Nat
          BY Numbers DEF IInv, TypeOK
        <4>2. QED BY <4>1 DEF Tokens
      <3>4. QED BY <3>2, <3>3, CommitKinds DEF Families
    <2>2. access[t].at \in Nat /\ access[t].at <= now /\ table \in Revocations
      BY <2>1 DEF IInv, TypeOK, EInv, World, Issued
    <2>3. Life \in Nat /\ RevocationTTL \in Nat /\ RevocationTTL > Life /\ now \in Nat /\ MaxTokens \in Nat
      BY Numbers DEF IInv
    <2>4. table.fam[g] \in Nat /\ table.cut \in Nat /\ table.cutExp \in Nat
      BY <2>1, <2>2, <2>3 DEF Revocations
    <2>5. QED BY <2>1, <2>2, <2>3, <2>4
  <1>m. TableRefuses(t)' <=> \/ now > last
                            \/ table'.fam[g] > last
                            \/ (table'.cutExp > last /\ t < table'.cut)
    BY <1>0 DEF TableRefuses
  <1>n. /\ table'.fam[g] \in Nat /\ table'.cut \in Nat /\ table'.cutExp \in Nat
    <2>1. table' \in Revocations
      BY Inductive DEF IInv, TypeOK, Next, Step
    <2>2. QED BY <1>0, <2>1, Numbers DEF Revocations, IInv
  <1>1. CASE t \in held /\ g \in ended
    <2>1. \/ now > last
          \/ table.fam[g] > last
          \/ table.cutExp > last /\ t < table.cut
      BY <1>1 DEF EInv, World, Refusals, TableRefuses
    <2>2. table'.fam[g] >= table.fam[g] /\ table'.cut >= table.cut /\ table'.cutExp >= table.cutExp
      BY <1>0, CommitRevokes
    <2>3. t \in Nat
      BY <1>0, Numbers DEF IInv
    <2>4. QED BY <1>0, <1>m, <1>n, <2>1, <2>2, <2>3
  <1>2. CASE t \notin held /\ g \in ended
    <2>1. t = new /\ new # 0
      BY <1>2, CommitKinds
    <2>2. job[r].op = "refresh" /\ g = job[r].fam
      BY <1>2, <2>1, CommitKinds DEF EInv, Holds, FreshJob, World, Issued
    <2>3. table.fam[g] >= now + RevocationTTL
      BY <1>2, <2>1, <2>2 DEF EInv, Holds, Renewal, Renewing
    <2>4. table'.fam[g] >= table.fam[g]
      BY <1>0, CommitRevokes
    <2>5. QED BY <1>0, <1>m, <1>n, <2>3, <2>4
  <1>3. CASE g \notin ended
    <2>1. g \in job[r].over /\ job[r].op \in {"revoke"} \cup Ending
      BY <1>0, <1>3, CommitKinds
    <2>2. CASE job[r].op \in OneSession
      <3>1. table'.fam[g] = now + RevocationTTL
        BY <2>1, <2>2, CommitKinds, CommitRevokes
      <3>2. QED BY <1>0, <1>m, <1>n, <3>1
    <2>3. CASE job[r].op \in {"logoutAll", "password"}
      <3>1. job[r].cut # 0 /\ t < job[r].cut
        BY <1>0, <2>1, <2>3, CommitKinds DEF EInv, Holds, Ends
      <3>2. table'.cut >= job[r].cut /\ table'.cutExp = now + RevocationTTL
        BY <2>3, <3>1, CommitRevokes DEF OneSession
      <3>3. job[r].cut \in Nat /\ t \in Nat
        BY <1>0, Numbers DEF IInv, TypeOK
      <3>4. QED BY <1>0, <1>m, <1>n, <3>1, <3>2, <3>3
    <2>4. QED BY <2>1, <2>2, <2>3 DEF Ending, OneSession
  <1>4. QED BY <1>1, <1>2, <1>3

\* Nothing another request relies on is lost to a Commit: the rows it reads for
\* good are locked against it, and what it could not survive, its lock excludes.
LEMMA CommitOthers ==
    ASSUME IInv, EInv, NEW r \in Requests, Commit(r), NEW q \in Requests, q # r
    PROVE  Holds(q)'
  <1> DEFINE new == job[r].new
  <1>0. /\ pc'[q] = pc[q] /\ job'[q] = job[q] /\ acct'[q] = acct[q]
        /\ \A t \in Tokens : tlock[t] = q => tlock'[t] = q
        /\ Holds(q) /\ Holds(r) /\ 0 \notin Tokens /\ held \subseteq Tokens
    BY FinishHolds, Numbers DEF Commit, EInv, IInv
  <1>1. /\ new # 0 => /\ new \notin held /\ new # job[q].new
                      /\ access[new].fam = IF job[r].op = "login" THEN new ELSE job[r].fam
        /\ job[q].over \subseteq held /\ job[q].gone \subseteq Tokens
    BY DEF EInv, Apart, Holds, FreshJob, IInv, TypeOK
  <1>2. Account(q)' /\ Shape(q)'
    BY <1>0 DEF Holds, Account, Shape
  <1>3. Locked(q)'
    <2>1. \A t \in job'[q].gone : tlock'[t] = q
      BY <1>0, <1>1 DEF Holds, Locked
    <2>2. CASE pc[q] \in {"verdict", "rotate"}
      <3> DEFINE t == job[q].tok
      <3>1. t \in Tokens /\ tlock[t] = q /\ row[t].fam = job[q].fam /\ job[q].fam # 0
        BY <1>0, <2>2 DEF IInv, AccountWaiters, Holds, Locked
      <3>2. t \in held
        BY <3>1 DEF EInv, World, Issued
      <3>3. t # new /\ t \notin job[r].gone
        BY <1>0, <1>1, <3>1, <3>2 DEF Holds, Locked
      <3>4. row'[t].fam = job[q].fam
        BY <3>1, <3>3, CommitRows
      <3>5. QED BY <1>0, <2>1, <2>2, <3>1, <3>4 DEF Locked
    <2>3. CASE pc[q] \notin {"verdict", "rotate"}
      BY <1>0, <2>1, <2>3 DEF Locked
    <2>4. QED BY <2>2, <2>3
  <1>4. FreshJob(q)'
    <2>1. /\ held \subseteq held' /\ (\A t \in held' : t \in held \/ (t = new /\ new # 0))
          /\ minted' = minted /\ access' = access
      BY CommitKinds
    <2>2. job[q].fam \in held' \cup {0} /\ job[q].over \subseteq held'
      BY <1>0, <2>1 DEF Holds, FreshJob
    <2>3. job[q].new # 0 => job[q].new \notin held'
      BY <1>0, <1>1, <2>1 DEF Holds, FreshJob
    <2>4. QED BY <1>0, <2>1, <2>2, <2>3 DEF Holds, FreshJob
  <1>5. Ends(q)'
    <2>1. ASSUME pc[q] \notin {"link", "account"}, job[q].op \in Ending, NEW t \in Tokens, row'[t].fam \in job[q].over
          PROVE  row[t].fam = row'[t].fam /\ (row[t].dead # 0 => row'[t].dead # 0)
      <3>1. row'[t].fam \in held /\ row'[t].fam # 0
        BY <1>0, <1>1, <2>1
      <3>2. job[r].op # "refresh"
        <4>1. acct[q] \in {"update", "nokey"}
          BY <1>0, <2>1 DEF Holds, Account, Ending
        <4>2. QED BY <2>1, <4>1, CommitKinds DEF EInv, Apart
      <3>3. t # new
        <4>1. ASSUME t = new PROVE FALSE
          <5>1. new # 0 /\ row'[t].fam = access[new].fam
            BY <1>0, <4>1, CommitRows
          <5>2. job[r].op = "login"
            BY <3>2, <5>1, CommitKinds
          <5>3. QED BY <1>1, <3>1, <5>1, <5>2
        <4>2. QED BY <4>1
      <3>4. QED BY <3>1, <3>3, CommitRows
    <2>2. pc[q] = "apply" /\ job[q].op \in Ending =>
            \A t \in Tokens : row'[t].fam \in job[q].over => row'[t].dead # 0 \/ t \in job[q].seen
      BY <1>0, <2>1 DEF Holds, Ends
    <2>3. pc[q] \in {"revoke", "commit"} /\ job[q].op \in Ending =>
            \A t \in Tokens : row'[t].fam \in job[q].over => row'[t].dead # 0 \/ t \in job[q].kill
      BY <1>0, <2>1 DEF Holds, Ends
    <2>4. minted' = minted /\ access' = access
      BY CommitKinds
    <2>5. QED BY <1>0, <2>2, <2>3, <2>4 DEF Holds, Ends
  <1>6. Renewal(q)'
    <2> DEFINE g == job[q].fam
    <2> SUFFICES ASSUME Renewing(q), g \in ended'
                 PROVE  verdict'[g] >= now' /\ table'.fam[g] >= now' + RevocationTTL
      BY <1>0 DEF Renewal, Renewing
    <2>1. acct[q] = "share" /\ now' = now
      BY <1>0, CommitKinds DEF Renewing, Holds, Shape, Account
    <2>2. /\ g \in Families /\ now \in Nat /\ RefreshLife \in Nat /\ RevocationTTL \in Nat
          /\ verdict[g] \in Nat /\ table.fam[g] \in Nat /\ table'.fam[g] \in Nat
      <3>1. Issued'
        BY CommitIssued
      <3>2. g \in held'
        BY <3>1 DEF Issued
      <3>3. g \in Families
        BY <3>2, <1>0, <1>1, CommitKinds DEF Families, IInv, TypeOK
      <3>4. table' \in Revocations
        BY Inductive DEF IInv, TypeOK, Next, Step
      <3>5. QED BY <3>3, <3>4, Numbers DEF IInv, TypeOK, Revocations
    <2>3. CASE g \in ended
      <3>1. verdict[g] >= now /\ table.fam[g] >= now + RevocationTTL
        BY <1>0, <2>3 DEF Holds, Renewal
      <3>2. verdict'[g] = verdict[g] \/ verdict'[g] = now + RefreshLife
        BY <2>2, CommitRevokes
      <3>3. table'.fam[g] >= table.fam[g]
        BY <2>2, CommitRevokes
      <3>4. QED BY <2>1, <2>2, <3>1, <3>2, <3>3
    <2>4. CASE g \notin ended
      <3>1. g \in job[r].over /\ job[r].op # "refresh" /\ job[r].op \notin Ending
        BY <2>1, <2>4, CommitKinds DEF EInv, Apart
      <3>2. job[r].op = "revoke" /\ g = job[r].fam
        BY <3>1, CommitKinds DEF OneSession
      <3>3. verdict'[g] = now + RefreshLife /\ table'.fam[g] = now + RevocationTTL
        BY <3>2, CommitRevokes DEF OneSession
      <3>4. QED BY <2>1, <2>2, <3>3
    <2>5. QED BY <2>3, <2>4
  <1>7. QED BY <1>2, <1>3, <1>4, <1>5, <1>6 DEF Holds

LEMMA CommitKeeps ==
    ASSUME IInv, EInv, NEW r \in Requests, Commit(r)
    PROVE  EInv'
  <1>1. Finish(r)
    BY DEF Commit
  <1>2. \A q \in Requests : Holds(q)'
    BY <1>1, FinishHolds, CommitOthers
  <1>3. Apart'
    BY <1>1, FinishHolds DEF EInv, Apart
  <1>4. World'
    BY CommitIssued, CommitEnded, CommitRefusals DEF World
  <1>5. QED BY <1>2, <1>3, <1>4 DEF EInv

-----------------------------------------------------------------------------
(* Rows removed, pruning, restarts, the clock.                               *)

\* Removing rows nobody has locked, and verdicts of this moment's past that no
\* row needs any more, brings no session back and takes nothing from a request.
LEMMA RowsRemoved ==
    ASSUME IInv, EInv, NEW D, D \subseteq Tokens,
           row' = [t \in Tokens |-> IF t \in D THEN NoRow ELSE row[t]],
           \A f \in Families : \/ verdict'[f] = verdict[f]
                               \/ /\ verdict[f] < now
                                  /\ \A t \in Tokens \ D : row[t].fam = f => Expired(t),
           UNCHANGED <<table, now, minted, access, held, ended>>
    PROVE  /\ World'
           /\ \A q \in Requests :
                /\ pc'[q] = pc[q] /\ job'[q] = job[q] /\ acct'[q] = acct[q] /\ tlock' = tlock
                /\ \A t \in D : tlock[t] # q
                => Holds(q)'
  <1>1. \A t \in Tokens : /\ t \notin D => row'[t] = row[t]
                          /\ t \in D => row'[t].fam = 0
    BY DEF NoRow
  <1>2. 0 \notin held /\ held \subseteq Families /\ now \in Nat /\ verdict \in [Families -> Nat]
    BY Numbers DEF IInv, TypeOK, Families
  <1>3. World'
    <2>1. Issued'
      BY <1>1 DEF EInv, World, Issued
    <2>2. Refusals'
      BY DEF EInv, World, Refusals, TableRefuses
    <2>3. EndedSessionsStayEnded'
      <3> SUFFICES ASSUME NEW g \in ended, NEW t \in Tokens, row'[t].fam = g
                   PROVE  row'[t].dead # 0 \/ verdict'[g] # 0 \/ Expired(t)'
        BY DEF EndedSessionsStayEnded, SignedOut
      <3>1. g \in Families /\ g # 0
        BY <1>2 DEF EInv, World, Issued
      <3>2. t \notin D /\ row'[t] = row[t] /\ row[t].fam = g
        BY <1>1, <3>1
      <3>3. row[t].dead # 0 \/ verdict[g] # 0 \/ Expired(t)
        BY <3>2 DEF EInv, World, EndedSessionsStayEnded, SignedOut
      <3>4. Expired(t)' <=> Expired(t)
        BY <3>2 DEF Expired
      <3>5. QED BY <3>1, <3>2, <3>3, <3>4
    <2>4. QED BY <2>1, <2>2, <2>3 DEF World
  <1>4. ASSUME NEW q \in Requests, pc'[q] = pc[q], job'[q] = job[q], acct'[q] = acct[q], tlock' = tlock,
               \A t \in D : tlock[t] # q
        PROVE  Holds(q)'
    <2>0. Holds(q) /\ job[q].over \subseteq held
      BY DEF EInv, Holds, FreshJob
    <2>1. Account(q)' /\ Shape(q)' /\ FreshJob(q)'
      BY <1>4, <2>0 DEF Holds, Account, Shape, FreshJob
    <2>2. Locked(q)'
      <3>1. pc[q] \in {"verdict", "rotate"} => job[q].tok \in Tokens \ D
        BY <1>4, <2>0 DEF IInv, AccountWaiters, Holds, Locked
      <3>2. QED BY <1>1, <1>4, <2>0, <3>1 DEF Holds, Locked
    <2>3. Ends(q)'
      <3>1. \A t \in Tokens : row'[t].fam \in job[q].over => row'[t] = row[t]
        BY <1>1, <1>2, <2>0
      <3>2. QED BY <1>4, <2>0, <3>1 DEF Holds, Ends
    <2>4. Renewal(q)'
      <3>1. Renewing(q)' /\ job[q].fam \in ended => verdict'[job[q].fam] >= now
        <4>1. SUFFICES ASSUME Renewing(q), job[q].fam \in ended PROVE verdict'[job[q].fam] >= now
          BY <1>4 DEF Renewing
        <4>2. verdict[job[q].fam] >= now /\ job[q].fam \in Families
          BY <1>2, <2>0, <4>1 DEF Holds, Renewal, EInv, World, Issued
        <4>3. ~(verdict[job[q].fam] < now)
          BY <1>2, <4>2
        <4>4. QED BY <4>2, <4>3
      <3>2. QED BY <1>4, <2>0, <3>1 DEF Holds, Renewal, Renewing
    <2>5. QED BY <2>1, <2>2, <2>3, <2>4 DEF Holds
  <1>5. QED BY <1>3, <1>4

LEMMA LoginKeeps ==
    ASSUME IInv, EInv, NEW r \in Requests, BeginLogin(r)
    PROVE  EInv'
  <1>1. PICK D : D = DeadRows
    OBVIOUS
  <1>2. /\ D \subseteq Tokens /\ row' = [t \in Tokens |-> IF t \in D THEN NoRow ELSE row[t]]
        /\ Unlocked(r, D) /\ pc[r] = "idle" /\ pc'[r] = "issue" /\ job'[r] = Job("login", 0, 0)
        /\ \A q \in Requests \ {r} : pc'[q] = pc[q] /\ job'[q] = job[q]
        /\ UNCHANGED <<verdict, table, now, minted, access, held, ended, acct, tlock>>
    BY <1>1 DEF BeginLogin, Goto, mintVars, DeadRows, IInv, TypeOK
  <1>3. World'
    BY <1>2, RowsRemoved
  <1>4. ASSUME NEW q \in Requests \ {r} PROVE Holds(q)'
    <2>1. \A t \in D : tlock[t] # q
      BY <1>2, LifetimesAssumption DEF Unlocked
    <2>2. QED BY <1>2, <2>1, RowsRemoved
  <1>5. Holds(r)'
    <2>1. LET j == Job("login", 0, 0) IN
          j.op = "login" /\ j.new = 0 /\ j.fam = 0 /\ j.over = {} /\ j.gone = {}
      BY DEF Job
    <2>2. Account(r)' /\ Shape(r)'
      BY <1>2, <2>1 DEF Account, Shape, OneSession
    <2>3. Locked(r)' /\ FreshJob(r)' /\ Ends(r)' /\ Renewal(r)'
      BY <1>2, <2>1 DEF Locked, FreshJob, Ends, Renewal, Renewing, Ending
    <2>4. QED BY <2>2, <2>3 DEF Holds
  <1>6. Apart'
    <2>1. job'[r].new = 0
      BY <1>2 DEF Job
    <2>2. QED BY <1>2, <2>1 DEF EInv, Apart
  <1>7. QED BY <1>3, <1>4, <1>5, <1>6 DEF EInv

LEMMA SweepKeeps ==
    ASSUME IInv, EInv, RetentionSweep
    PROVE  EInv'
  <1>1. PICK D : D = DeadRows
    OBVIOUS
  <1>2. /\ D \subseteq Tokens /\ row' = [t \in Tokens |-> IF t \in D THEN NoRow ELSE row[t]]
        /\ \A t \in D : tlock[t] = Free
        /\ UNCHANGED <<table, now, minted, access, held, ended, acct, tlock, pc, job>>
        /\ \A f \in Families : \/ verdict'[f] = verdict[f]
                              \/ /\ verdict[f] < now
                                 /\ \A t \in Tokens \ D : row[t].fam = f => Expired(t)
    BY <1>1 DEF RetentionSweep, mintVars, told, DeadRows
  <1>3. World'
    BY <1>2, RowsRemoved
  <1>4. \A q \in Requests : Holds(q)'
    <2>1. \A q \in Requests : \A t \in D : tlock[t] # q
      BY <1>2, LifetimesAssumption
    <2>2. QED BY <1>2, <2>1, RowsRemoved
  <1>5. Apart'
    BY <1>2 DEF EInv, Apart
  <1>6. QED BY <1>3, <1>4, <1>5 DEF EInv

\* What no longer refuses anything is dropped from the table, and nothing else.
LEMMA PrunedRefuses ==
    ASSUME IInv, EInv, table' = Unexpired(table), UNCHANGED <<row, verdict, now, minted, access, held, ended>>
    PROVE  /\ World'
           /\ \A f \in Families : table.fam[f] >= now + RevocationTTL => table'.fam[f] = table.fam[f]
  <1>0. /\ table.fam \in [Families -> Nat] /\ table.cut \in Nat /\ table.cutExp \in Nat /\ now \in Nat
        /\ RevocationTTL \in Nat /\ RevocationTTL > Life /\ Life \in Nat /\ held \subseteq Families
    BY Numbers DEF IInv, TypeOK, Revocations, Families
  <1>1. /\ \A f \in Families : table'.fam[f] = IF table.fam[f] > now THEN table.fam[f] ELSE 0
        /\ table.cutExp > now => table'.cut = table.cut /\ table'.cutExp = table.cutExp
    BY DEF Unexpired
  <1>2. Refusals'
    <2> SUFFICES ASSUME NEW t \in held, access[t].fam \in ended PROVE TableRefuses(t)'
      BY DEF Refusals
    <2> DEFINE g == access[t].fam
               last == access[t].at + Life
    <2>1. g \in Families /\ last \in Nat /\ t \in Nat
      <3>1. t \in Tokens /\ g \in held
        BY <1>0 DEF EInv, World, Issued, Families
      <3>2. access[t].at \in Nat /\ MaxTokens \in Nat
        BY <3>1, Numbers DEF IInv, TypeOK
      <3>3. g \in Families
        BY <1>0, <3>1
      <3>4. last \in Nat
        BY <1>0, <3>2
      <3>5. t \in Nat
        BY <3>1, <3>2 DEF Tokens
      <3>6. QED BY <3>3, <3>4, <3>5
    <2>2. TableRefuses(t)
      BY DEF EInv, World, Refusals
    <2>3. CASE now > last
      BY <2>3 DEF TableRefuses
    <2>4. CASE ~(now > last) /\ table.fam[g] > last
      <3>1. table'.fam[g] = table.fam[g]
        <4>1. table.fam[g] \in Nat
          BY <1>0, <2>1
        <4>2. table.fam[g] > now
          BY <1>0, <2>1, <2>4, <4>1
        <4>3. QED BY <1>1, <2>1, <4>2
      <3>2. QED BY <2>4, <3>1 DEF TableRefuses
    <2>5. CASE ~(now > last) /\ table.cutExp > last /\ t < table.cut
      <3>1. table'.cut = table.cut /\ table'.cutExp = table.cutExp
        BY <1>0, <1>1, <2>1, <2>5
      <3>2. QED BY <2>5, <3>1 DEF TableRefuses
    <2>6. QED BY <2>2, <2>3, <2>4, <2>5 DEF TableRefuses
  <1>3. Issued' /\ EndedSessionsStayEnded'
    BY DEF EInv, World, Issued, EndedSessionsStayEnded, SignedOut, Expired
  <1>4. \A f \in Families : table.fam[f] >= now + RevocationTTL => table'.fam[f] = table.fam[f]
    BY <1>0, <1>1
  <1>5. QED BY <1>2, <1>3, <1>4 DEF World

LEMMA PruneKeeps ==
    ASSUME IInv, EInv, Prune
    PROVE  EInv'
  <1>1. /\ table' = Unexpired(table)
        /\ UNCHANGED <<row, verdict, now, minted, access, held, ended, acct, tlock, pc, job>>
    BY DEF Prune, mintVars, told
  <1>2. ASSUME NEW q \in Requests PROVE Holds(q)'
    <2>1. Holds(q)
      BY DEF EInv
    <2>2. Account(q)' /\ Shape(q)' /\ Locked(q)' /\ FreshJob(q)' /\ Ends(q)'
      BY <1>1, <2>1 DEF Holds, Account, Shape, Locked, FreshJob, Ends
    <2>3. Renewal(q)'
      <3>1. Renewing(q)' = Renewing(q)
        BY <1>1 DEF Renewing
      <3>2. SUFFICES ASSUME Renewing(q), job[q].fam \in ended
                     PROVE  verdict[job[q].fam] >= now /\ table'.fam[job[q].fam] >= now + RevocationTTL
        BY <1>1, <3>1 DEF Renewal
      <3>3. verdict[job[q].fam] >= now /\ table.fam[job[q].fam] >= now + RevocationTTL
        BY <2>1, <3>2 DEF Holds, Renewal
      <3>4. job[q].fam \in Families
        BY <3>2, Numbers DEF EInv, World, Issued, IInv, Families
      <3>5. table'.fam[job[q].fam] = table.fam[job[q].fam]
        BY <1>1, <3>3, <3>4, PrunedRefuses
      <3>6. QED BY <3>3, <3>5
    <2>4. QED BY <2>2, <2>3 DEF Holds
  <1>3. Apart'
    BY <1>1 DEF EInv, Apart
  <1>4. QED BY <1>1, <1>2, <1>3, PrunedRefuses DEF EInv

LEMMA IdleHolds ==
    ASSUME NEW r \in Requests, pc[r] = "idle", job[r] = NoJob
    PROVE  Holds(r) /\ job[r].new = 0
  <1>1. NoJob.op = "none" /\ NoJob.new = 0 /\ NoJob.fam = 0 /\ NoJob.over = {} /\ NoJob.gone = {}
    BY DEF NoJob, Job
  <1>2. Account(r) /\ Shape(r)
    BY <1>1 DEF Account, Shape, OneSession
  <1>3. Locked(r) /\ FreshJob(r) /\ Ends(r) /\ Renewal(r)
    BY <1>1 DEF Locked, FreshJob, Ends, Renewal, Renewing
  <1>4. QED BY <1>1, <1>2, <1>3 DEF Holds

LEMMA RestartKeeps ==
    ASSUME IInv, EInv, Restart
    PROVE  EInv'
  <1>1. /\ table' = Unexpired(table) /\ UNCHANGED <<row, verdict, now, minted, access, held, ended>>
        /\ \A q \in Requests : pc'[q] = "idle" /\ job'[q] = NoJob /\ acct'[q] = "none"
    BY DEF Restart, mintVars, told
  <1>2. NoJob.op = "none" /\ NoJob.new = 0 /\ NoJob.fam = 0 /\ NoJob.over = {} /\ NoJob.gone = {}
    BY DEF NoJob, Job
  <1>3. ASSUME NEW q \in Requests PROVE Holds(q)'
    <2>1. Account(q)' /\ Shape(q)'
      BY <1>1, <1>2 DEF Account, Shape, OneSession
    <2>2. Locked(q)' /\ FreshJob(q)' /\ Ends(q)' /\ Renewal(q)'
      BY <1>1, <1>2 DEF Locked, FreshJob, Ends, Renewal, Renewing
    <2>3. QED BY <2>1, <2>2 DEF Holds
  <1>4. Apart'
    BY <1>1, <1>2 DEF Apart
  <1>5. QED BY <1>1, <1>3, <1>4, PrunedRefuses DEF EInv

\* No transaction lasts a tick, so nothing still to come is older than now.
LEMMA TickKeeps ==
    ASSUME IInv, EInv, Tick
    PROVE  EInv'
  <1>1. /\ now' = now + 1 /\ now \in Nat /\ \A q \in Requests : pc[q] \in {"idle", "issue"}
        /\ UNCHANGED <<row, verdict, table, minted, access, held, ended, acct, tlock, pc, job>>
    BY Numbers DEF Tick, dbVars, mintVars, told, IInv
  <1>2. World'
    <2>1. Issued'
      BY <1>1 DEF EInv, World, Issued, IInv, TypeOK
    <2>2. EndedSessionsStayEnded'
      <3>1. \A t \in Tokens : Expired(t) => Expired(t)'
        <4>1. \A t \in Tokens : row[t].made \in Nat
          BY DEF IInv, TypeOK, Rows
        <4>2. RefreshLife \in Nat
          BY LifetimesAssumption
        <4>3. QED BY <1>1, <4>1, <4>2 DEF Expired
      <3>2. QED BY <1>1, <3>1 DEF EInv, World, EndedSessionsStayEnded, SignedOut
    <2>3. Refusals'
      <3>1. \A t \in Tokens : access[t].at + Life \in Nat
        BY LifetimesAssumption DEF IInv, TypeOK
      <3>2. \A t \in Tokens : TableRefuses(t) => TableRefuses(t)'
        BY <1>1, <3>1 DEF TableRefuses
      <3>3. QED BY <1>1, <3>2, Numbers DEF EInv, World, Refusals, IInv
    <2>4. QED BY <2>1, <2>2, <2>3 DEF World
  <1>3. ASSUME NEW q \in Requests PROVE Holds(q)'
    <2>1. Holds(q) /\ ~Renewing(q)
      <3>1. Holds(q)
        BY DEF EInv
      <3>2. NoJob.op = "none"
        BY DEF NoJob, Job
      <3>3. QED BY <1>1, <3>1, <3>2 DEF Holds, Account, Shape, Renewing
    <2>2. Account(q)' /\ Shape(q)' /\ Locked(q)' /\ FreshJob(q)'
      BY <1>1, <2>1 DEF Holds, Account, Shape, Locked, FreshJob
    <2>3. Ends(q)' /\ Renewal(q)'
      BY <1>1, <2>1 DEF Ends, Renewal, Renewing
    <2>4. QED BY <2>2, <2>3 DEF Holds
  <1>4. Apart'
    BY <1>1 DEF EInv, Apart
  <1>5. QED BY <1>2, <1>3, <1>4 DEF EInv

-----------------------------------------------------------------------------

LEMMA InitEInv == Init => EInv
  <1> SUFFICES ASSUME Init PROVE EInv
    OBVIOUS
  <1>1. IInv
    BY InitIInv
  <1>2. \A q \in Requests : Holds(q) /\ job[q].new = 0 /\ acct[q] = "none"
    BY IdleHolds DEF Init
  <1>3. Apart
    BY <1>2 DEF Apart
  <1>4. World
    <2>1. now = 1 /\ held = {} /\ ended = {} /\ \A t \in Tokens : access[t].at = 0 /\ row[t].fam = 0
      BY DEF Init, NoRow
    <2>2. QED BY <2>1 DEF World, Issued, EndedSessionsStayEnded, Refusals
  <1>5. QED BY <1>2, <1>3, <1>4 DEF EInv

LEMMA NextKeeps == IInv /\ EInv /\ [Next]_vars => EInv'
  <1> SUFFICES ASSUME IInv, EInv, [Next]_vars PROVE EInv'
    OBVIOUS
  <1>1. ASSUME NEW r \in Requests, Start(r) PROVE EInv'
    BY <1>1, LoginKeeps, StartKeeps DEF Start
  <1>2. ASSUME NEW r \in Requests, Step(r) \/ Abort(r) PROVE EInv'
    BY <1>2, IssueKeeps, LinkKeeps, AccountKeeps, TokenKeeps, VerdictKeeps, RotateKeeps, ScanKeeps,
       ApplyKeeps, RevokeKeeps, CommitKeeps, AbortKeeps DEF Step
  <1>3. CASE Prune \/ Restart \/ RetentionSweep \/ Tick
    BY <1>3, PruneKeeps, RestartKeeps, SweepKeeps, TickKeeps
  <1>4. CASE UNCHANGED vars
    <2>1. UNCHANGED <<row, verdict, table, now, minted, access, held, ended, pc, job, acct, tlock>>
      BY <1>4 DEF vars
    <2>2. \A q \in Requests : Holds(q)'
      BY <2>1, OthersHold
    <2>3. World'
      BY <2>1, WorldStays
    <2>4. Apart'
      BY <2>1 DEF EInv, Apart
    <2>5. QED BY <2>2, <2>3, <2>4 DEF EInv
  <1>5. QED BY <1>1, <1>2, <1>3, <1>4 DEF Next

\* What the table still refuses, the process refuses.
LEMMA RefusedInTime ==
    ASSUME IInv, EInv
    PROVE  EndedSessionsAreRefused
  <1> SUFFICES ASSUME NEW t \in Tokens, access[t].fam \in ended, t \in held, now <= access[t].at + Life
               PROVE  Refused(t)
    BY DEF EndedSessionsAreRefused, Accepted
  <1> DEFINE g == access[t].fam
             last == access[t].at + Life
  <1>1. /\ g \in Families /\ last \in Nat /\ now \in Nat /\ t \in Nat
        /\ table.fam[g] \in Nat /\ table.cut \in Nat /\ table.cutExp \in Nat
        /\ cache.fam[g] \in Nat /\ cache.cut \in Nat /\ cache.cutExp \in Nat
    <2>1. g \in Families
      BY Numbers DEF EInv, World, Issued, IInv, Families
    <2>2. now \in Nat /\ Life \in Nat /\ MaxTokens \in Nat /\ access[t].at \in Nat
      BY Numbers DEF IInv, TypeOK
    <2>3. table \in Revocations /\ cache \in Revocations
      BY DEF IInv, TypeOK
    <2>4. QED BY <2>1, <2>2, <2>3 DEF Revocations, Tokens
  <1>2. ~(now > last)
    BY <1>1
  <1>3. TableRefuses(t)
    BY DEF EInv, World, Refusals
  <1>4. CASE table.fam[g] > last
    BY <1>1, <1>2, <1>4 DEF IInv, CacheCoversTable, Refused
  <1>5. CASE table.cutExp > last /\ t < table.cut
    BY <1>1, <1>2, <1>5 DEF IInv, CacheCoversTable, Refused
  <1>6. QED BY <1>2, <1>3, <1>4, <1>5 DEF TableRefuses

\* A session its owner has ended is over: no rotation, not even one that was
\* running, renews it, and its access tokens are refused until they expire, the
\* ones minted meanwhile included, across restarts, pruning and retention.
THEOREM EndedAreOver == Spec => []EndedSessionsAreOver
  <1>1. IInv /\ EInv => EndedSessionsAreOver
    BY RefusedInTime DEF EInv, World, EndedSessionsAreOver
  <1>2. QED BY InitIInv, Inductive, InitEInv, NextKeeps, <1>1, PTL DEF Spec

-----------------------------------------------------------------------------
(* The rows of consumed tokens stay.                                         *)
(*                                                                           *)
(* Only a Commit and the two sweeps remove rows, and the sweeps look.  That  *)
(* a Commit removes no consumed row needs to know of each request what its   *)
(* decision left behind: the rows it will remove were found unconsumed and   *)
(* are locked against every other rotation, and the token it consumes has    *)
(* not expired, so no later sight of it within the grace takes it for an     *)
(* expired one.                                                              *)

\* A consumed token's row, while it stays, says that it was consumed, and when:
\* within the token's life.
Consumption ==
    /\ consumed \subseteq held
    /\ \A t \in consumed : Exists(t) => row[t].spent # 0
    /\ \A t \in Tokens : row[t].spent # 0 => row[t].spent <= row[t].made + RefreshLife

\* What a request will consume, it may, and nobody else will; what it removes
\* was never consumed, but where it found a token reused.
Keeps(r) ==
    /\ pc[r] \notin {"revoke", "commit"} => job[r].gone = {} /\ job[r].kill = {}
    /\ job[r].new = 0 => job[r].spend = 0
    /\ job[r].new # 0 => job[r].kill = {}
    /\ pc[r] = "rotate" => ~Expired(job[r].tok)
    /\ job[r].spend # 0 => /\ tlock[job[r].spend] = r /\ job[r].spend \in held
                           /\ ~Expired(job[r].spend)
    /\ pc[r] = "apply" /\ job[r].op = "refresh" /\ job[r].new = 0 =>
         \A t \in job[r].seen : t \in held /\ access[t].fam \in job[r].over
    /\ \A t \in job[r].gone :
         /\ t \in held
         /\ t \in consumed => job[r].op = "refresh" /\ access[t].fam \in job[r].over

HInv == Consumption /\ \A r \in Requests : Keeps(r)

\* A request keeps its word while its rows stay locked.
LEMMA OthersKeep ==
    ASSUME IInv, EInv, NEW q \in Requests, Keeps(q), pc'[q] = pc[q], job'[q] = job[q], now' = now,
           \A t \in held : tlock[t] = q =>
               /\ tlock'[t] = q /\ row'[t].made = row[t].made
               /\ t \in consumed' => t \in consumed,
           held \subseteq held', \A t \in held : access'[t] = access[t]
    PROVE  Keeps(q)'
  <1>1. /\ pc[q] = "rotate" => job[q].tok \in held /\ tlock[job[q].tok] = q
        /\ \A t \in job[q].gone : tlock[t] = q
    BY DEF EInv, World, Issued, Holds, Locked, IInv, AccountWaiters
  <1>2. pc'[q] = "rotate" => ~Expired(job[q].tok)'
    BY <1>1 DEF Keeps, Expired
  <1>3. job[q].spend # 0 => /\ tlock'[job[q].spend] = q /\ job[q].spend \in held'
                            /\ ~Expired(job[q].spend)'
    BY <1>1 DEF Keeps, Expired
  <1>4. pc'[q] = "apply" /\ job[q].op = "refresh" /\ job[q].new = 0 =>
          \A t \in job[q].seen : t \in held' /\ access'[t].fam \in job[q].over
    BY DEF Keeps
  <1>5. \A t \in job[q].gone :
          /\ t \in held'
          /\ t \in consumed' => job[q].op = "refresh" /\ access'[t].fam \in job[q].over
    BY <1>1 DEF Keeps
  <1>6. QED BY <1>2, <1>3, <1>4, <1>5 DEF Keeps, Expired

\* A step that leaves rows and tokens alone leaves the record of consumption.
LEMMA RowsKept ==
    ASSUME HInv, UNCHANGED <<row, held, consumed>>
    PROVE  Consumption'
  BY DEF HInv, Consumption, Exists

\* A step of r that changes nothing but r's job and locks.
LEMMA OwnStep ==
    ASSUME IInv, EInv, HInv, NEW r \in Requests, Keeps(r)',
           UNCHANGED <<row, now, access, held, consumed>>,
           \A q \in Requests \ {r} : pc'[q] = pc[q] /\ job'[q] = job[q],
           \A q \in Requests \ {r} : \A t \in Tokens : tlock[t] = q => tlock'[t] = q
    PROVE  HInv'
  <1>1. held \subseteq Tokens /\ held' = held
    BY Numbers DEF IInv
  <1>2. ASSUME NEW q \in Requests, q # r PROVE Keeps(q)'
    BY <1>1, <1>2, OthersKeep DEF HInv
  <1>3. QED BY <1>2, RowsKept DEF HInv

\* A request that has not begun, or has answered, will do nothing.
LEMMA NothingToDo ==
    ASSUME NEW r \in Requests, pc[r] = "idle", job[r] = NoJob
    PROVE  Keeps(r)
  <1>1. NoJob.op = "none" /\ NoJob.new = 0 /\ NoJob.spend = 0 /\ NoJob.gone = {} /\ NoJob.kill = {}
    BY DEF NoJob, Job
  <1>2. QED BY <1>1 DEF Keeps

LEMMA FinishKept ==
    ASSUME IInv, EInv, HInv, NEW r \in Requests, Finish(r),
           UNCHANGED <<row, now, access, held, consumed>>
    PROVE  HInv'
  <1>1. pc'[r] = "idle" /\ job'[r] = NoJob
    BY DEF Finish, Goto, IInv, TypeOK
  <1>2. Keeps(r)'
    <2>1. NoJob.op = "none" /\ NoJob.new = 0 /\ NoJob.spend = 0 /\ NoJob.gone = {} /\ NoJob.kill = {}
      BY DEF NoJob, Job
    <2>2. QED BY <1>1, <2>1 DEF Keeps
  <1>3. QED BY <1>2, FinishHolds, OwnStep

\* Nothing decided yet is nothing to keep.
LEMMA UndecidedKept ==
    ASSUME IInv, EInv, HInv, NEW r \in Requests,
           pc[r] \notin {"revoke", "commit"}, job[r].new = 0,
           pc'[r] \in {"account", "token", "verdict", "scan", "issue"},
           job'[r].new = job[r].new, job'[r].spend = job[r].spend,
           job'[r].gone = job[r].gone, job'[r].kill = job[r].kill,
           UNCHANGED <<row, now, access, held, consumed>>,
           \A q \in Requests \ {r} : pc'[q] = pc[q] /\ job'[q] = job[q],
           \A q \in Requests \ {r} : \A t \in Tokens : tlock[t] = q => tlock'[t] = q
    PROVE  HInv'
  <1>1. Keeps(r)'
    BY DEF HInv, Keeps
  <1>2. QED BY <1>1, OwnStep

LEMMA StartKept ==
    ASSUME IInv, EInv, HInv, NEW r \in Requests,
           BeginRefresh(r) \/ BeginLogout(r) \/ BeginLogoutAll(r) \/ BeginNewPassword(r)
           \/ BeginReset(r) \/ BeginRevokeSession(r)
    PROVE  HInv'
  <1>1. PICK label \in {"account", "link", "scan"} : \E op, t, f : Begin(r, op, label, t, f)
    <2>1. CASE BeginRefresh(r)
      BY <2>1, Zenon DEF BeginRefresh
    <2>2. CASE BeginLogout(r)
      BY <2>2, Zenon DEF BeginLogout
    <2>3. CASE BeginLogoutAll(r) \/ BeginNewPassword(r) \/ BeginReset(r)
      BY <2>3, Zenon DEF BeginLogoutAll, BeginNewPassword, BeginReset
    <2>4. CASE BeginRevokeSession(r)
      BY <2>4, Zenon DEF BeginRevokeSession
    <2>5. QED BY <2>1, <2>2, <2>3, <2>4
  <1>a. PICK op, t, f : Begin(r, op, label, t, f)
    BY <1>1
  <1>2. /\ pc[r] = "idle" /\ pc'[r] = label /\ job'[r] = Job(op, t, f) /\ tlock' = tlock
        /\ \A q \in Requests \ {r} : pc'[q] = pc[q] /\ job'[q] = job[q]
        /\ UNCHANGED <<row, now, access, held, consumed>>
    BY <1>a DEF Begin, Goto, dbVars, mintVars, IInv, TypeOK
  <1>3. /\ Job(op, t, f).new = 0 /\ Job(op, t, f).spend = 0
        /\ Job(op, t, f).gone = {} /\ Job(op, t, f).kill = {}
    BY DEF Job
  <1>4. Keeps(r)'
    BY <1>2, <1>3 DEF Keeps
  <1>5. QED BY <1>2, <1>4, OwnStep

LEMMA LinkKept ==
    ASSUME IInv, EInv, HInv, NEW r \in Requests, LockLink(r)
    PROVE  HInv'
  <1>1. /\ pc[r] = "link" /\ pc'[r] = "account" /\ tlock' = tlock
        /\ job'[r] = [job[r] EXCEPT !.link = TRUE]
        /\ \A q \in Requests \ {r} : pc'[q] = pc[q] /\ job'[q] = job[q]
        /\ UNCHANGED <<row, now, access, held, consumed>>
    BY DEF LockLink, Goto, dbVars, mintVars, IInv, TypeOK
  <1>2. /\ job'[r].new = job[r].new /\ job'[r].spend = job[r].spend
        /\ job'[r].gone = job[r].gone /\ job'[r].kill = job[r].kill
    BY <1>1 DEF IInv, TypeOK
  <1>3. job[r].new = 0
    BY <1>1 DEF EInv, Holds, Shape
  <1>4. QED BY <1>1, <1>2, <1>3, UndecidedKept

LEMMA AccountKept ==
    ASSUME IInv, EInv, HInv, NEW r \in Requests, LockAccount(r)
    PROVE  HInv'
  <1>1. /\ pc[r] = "account" /\ pc'[r] \in {"token", "scan"} /\ job' = job /\ tlock' = tlock
        /\ \A q \in Requests \ {r} : pc'[q] = pc[q]
        /\ UNCHANGED <<row, now, access, held, consumed>>
    BY DEF LockAccount, Goto, dbVars, mintVars, IInv, TypeOK
  <1>2. job[r].new = 0
    BY <1>1 DEF EInv, Holds, Shape
  <1>3. QED BY <1>1, <1>2, UndecidedKept

LEMMA TokenKept ==
    ASSUME IInv, EInv, HInv, NEW r \in Requests, LockToken(r)
    PROVE  HInv'
  <1> DEFINE t == job[r].tok
  <1>0. UNCHANGED <<row, now, access, held, consumed>> /\ pc[r] = "token" /\ t \in Tokens /\ Unlocked(r, {t})
    BY DEF LockToken, dbVars, mintVars, IInv, AccountWaiters
  <1>1. CASE ~Exists(t)
    <2>1. Finish(r)
      BY <1>1 DEF LockToken
    <2>2. QED BY <1>0, <2>1, FinishKept
  <1>2. CASE Exists(t)
    <2>1. /\ job'[r] = [job[r] EXCEPT !.fam = row[t].fam] /\ pc'[r] \in {"verdict", "scan"}
          /\ \A q \in Requests \ {r} : pc'[q] = pc[q] /\ job'[q] = job[q]
      BY <1>0, <1>2 DEF LockToken, LockRows, Goto, IInv, TypeOK
    <2>2. \A q \in Requests : \A u \in Tokens : tlock[u] = q => tlock'[u] = q
      BY <1>0, <1>2, LifetimesAssumption DEF LockToken, LockRows, Unlocked
    <2>3. /\ job'[r].new = job[r].new /\ job'[r].spend = job[r].spend
          /\ job'[r].gone = job[r].gone /\ job'[r].kill = job[r].kill
      BY <2>1 DEF IInv, TypeOK
    <2>4. job[r].new = 0
      BY <1>0 DEF EInv, Holds, Shape
    <2>5. QED BY <1>0, <2>1, <2>2, <2>3, <2>4, UndecidedKept
  <1>3. QED BY <1>1, <1>2

\* A token found expired was never consumed: within the grace it had life left.
LEMMA VerdictKept ==
    ASSUME IInv, EInv, HInv, NEW r \in Requests, ReadVerdict(r)
    PROVE  HInv'
  <1> DEFINE t == job[r].tok
             f == job[r].fam
             reuse == row[t].spent # 0 /\ (verdict[f] # 0 \/ ~WithinGrace(row[t].spent))
  <1>0. /\ UNCHANGED <<row, now, access, held, consumed>> /\ pc[r] = "verdict"
        /\ t \in Tokens /\ row[t].fam = f /\ f # 0 /\ job[r].new = 0
        /\ job[r].gone = {} /\ job[r].kill = {} /\ job[r].spend = 0
    BY DEF ReadVerdict, dbVars, mintVars, IInv, AccountWaiters, EInv, HInv, Holds, Shape, Locked, Keeps
  <1>1. CASE Finish(r)
    BY <1>0, <1>1, FinishKept
  <1>2. CASE Goto(r, "scan") /\ UNCHANGED <<job, acct, tlock>>
    <2>1. pc'[r] = "scan" /\ \A q \in Requests \ {r} : pc'[q] = pc[q]
      BY <1>2 DEF Goto, IInv, TypeOK
    <2>2. QED BY <1>0, <1>2, <2>1, UndecidedKept
  <1>3. CASE Goto(r, "commit") /\ job' = [job EXCEPT ![r].kill = {t}] /\ UNCHANGED <<acct, tlock>>
    <2>1. /\ pc'[r] = "commit" /\ \A q \in Requests \ {r} : pc'[q] = pc[q] /\ job'[q] = job[q]
          /\ job'[r].new = 0 /\ job'[r].spend = 0 /\ job'[r].gone = {}
      BY <1>0, <1>3 DEF Goto, IInv, TypeOK
    <2>2. Keeps(r)'
      BY <2>1 DEF Keeps
    <2>3. QED BY <1>0, <1>3, <2>1, <2>2, OwnStep
  <1>4. CASE /\ ~reuse /\ verdict[f] = 0 /\ Expired(t)
             /\ Goto(r, "commit") /\ job' = [job EXCEPT ![r].gone = {t}] /\ UNCHANGED <<acct, tlock>>
    <2>1. /\ pc'[r] = "commit" /\ \A q \in Requests \ {r} : pc'[q] = pc[q] /\ job'[q] = job[q]
          /\ job'[r].new = 0 /\ job'[r].spend = 0 /\ job'[r].gone = {t}
      BY <1>0, <1>4 DEF Goto, IInv, TypeOK
    <2>2. Exists(t) /\ t \in held
      BY <1>0 DEF Exists, EInv, World, Issued
    <2>3. row[t].spent = 0
      <3>1. SUFFICES ASSUME row[t].spent # 0 PROVE FALSE
        OBVIOUS
      <3>2. row[t].spent = now
        BY <1>4, <3>1 DEF WithinGrace
      <3>3. now <= row[t].made + RefreshLife
        BY <1>0, <3>1, <3>2 DEF HInv, Consumption
      <3>4. now \in Nat /\ row[t].made + RefreshLife \in Nat
        BY <1>0, Numbers DEF IInv, TypeOK, Rows
      <3>5. QED BY <1>4, <3>3, <3>4 DEF Expired
    <2>4. t \notin consumed
      BY <2>2, <2>3 DEF HInv, Consumption
    <2>5. Keeps(r)'
      BY <1>0, <2>1, <2>2, <2>4 DEF Keeps
    <2>6. QED BY <1>0, <1>4, <2>1, <2>5, OwnStep
  <1>5. CASE ~Expired(t) /\ Goto(r, "rotate") /\ UNCHANGED <<job, acct, tlock>>
    <2>1. pc'[r] = "rotate" /\ \A q \in Requests \ {r} : pc'[q] = pc[q]
      BY <1>5 DEF Goto, IInv, TypeOK
    <2>2. ~Expired(t)'
      BY <1>0, <1>5 DEF Expired
    <2>3. Keeps(r)'
      BY <1>0, <1>5, <2>1, <2>2 DEF Keeps, Expired
    <2>4. QED BY <1>0, <1>5, <2>1, <2>3, OwnStep
  <1>6. QED BY <1>1, <1>2, <1>3, <1>4, <1>5 DEF ReadVerdict

\* Every row in the snapshot of a detected reuse is of a session it ends.
LEMMA ScanKept ==
    ASSUME IInv, EInv, HInv, NEW r \in Requests, Scan(r)
    PROVE  HInv'
  <1> DEFINE all == {t \in Tokens : Exists(t) /\ (job[r].op = "refresh" \/ row[t].dead = 0)}
             one == job[r].op \in OneSession
             seen == IF one THEN {t \in all : row[t].fam = job[r].fam} ELSE all
             over == IF one THEN {job[r].fam} ELSE {access[t].fam : t \in held}
  <1>0. /\ UNCHANGED <<row, now, access, held, consumed, tlock>> /\ pc[r] = "scan" /\ job[r].new = 0
        /\ job[r].gone = {} /\ job[r].kill = {} /\ job[r].spend = 0
    BY DEF Scan, dbVars, mintVars, EInv, HInv, Holds, Shape, Keeps
  <1>1. /\ pc'[r] = "apply" /\ job'[r] = [job[r] EXCEPT !.seen = seen, !.over = over]
        /\ \A q \in Requests \ {r} : pc'[q] = pc[q] /\ job'[q] = job[q]
    BY <1>0 DEF Scan, Goto, IInv, TypeOK
  <1>2. /\ job'[r].seen = seen /\ job'[r].over = over /\ job'[r].op = job[r].op /\ job'[r].new = 0
        /\ job'[r].spend = 0 /\ job'[r].gone = {} /\ job'[r].kill = {}
    BY <1>0, <1>1 DEF IInv, TypeOK
  <1>3. ASSUME job[r].op = "refresh", NEW t \in seen PROVE t \in held /\ access[t].fam \in over
    <2>1. ~one
      BY <1>3 DEF OneSession
    <2>2. t \in Tokens /\ Exists(t)
      BY <1>3, <2>1
    <2>3. t \in held
      BY <2>2 DEF Exists, EInv, World, Issued
    <2>4. QED BY <2>1, <2>3
  <1>4. Keeps(r)'
    BY <1>0, <1>1, <1>2, <1>3 DEF Keeps
  <1>5. QED BY <1>0, <1>1, <1>4, OwnStep

\* What an issuing request removes is live; what a reuse removes, it ends.
LEMMA ApplyKept ==
    ASSUME IInv, EInv, HInv, NEW r \in Requests, Apply(r)
    PROVE  HInv'
  <1> DEFINE issues == job[r].new # 0
             reuse == job[r].op = "refresh" /\ ~issues
             hit == {t \in job[r].seen : IF issues THEN Live(t)
                                         ELSE Exists(t) /\ (reuse \/ row[t].dead = 0)}
             gone == IF issues \/ reuse THEN hit ELSE {}
             kill == IF issues \/ reuse THEN {} ELSE hit
  <1>0. /\ UNCHANGED <<row, now, access, held, consumed>> /\ pc[r] = "apply"
        /\ Unlocked(r, job[r].seen) /\ hit \subseteq job[r].seen /\ job[r].seen \subseteq Tokens /\ Keeps(r)
    BY DEF Apply, dbVars, mintVars, HInv, IInv, TypeOK
  <1>1. /\ pc'[r] = (IF issues THEN "commit" ELSE "revoke")
        /\ job'[r] = [job[r] EXCEPT !.seen = {}, !.gone = gone, !.kill = kill]
        /\ \A q \in Requests \ {r} : pc'[q] = pc[q] /\ job'[q] = job[q]
        /\ tlock' = [t \in Tokens |-> IF t \in hit THEN r ELSE tlock[t]]
    BY <1>0 DEF Apply, Goto, LockRows, IInv, TypeOK
  <1>2. /\ job'[r].gone = gone /\ job'[r].kill = kill /\ job'[r].op = job[r].op /\ job'[r].seen = {}
        /\ job'[r].new = job[r].new /\ job'[r].spend = job[r].spend /\ job'[r].over = job[r].over
    BY <1>0, <1>1 DEF IInv, TypeOK
  <1>3. /\ \A q \in Requests \ {r} : \A t \in Tokens : tlock[t] = q => tlock'[t] = q
        /\ \A t \in Tokens : tlock[t] = r => tlock'[t] = r
    BY <1>0, <1>1, LifetimesAssumption DEF Unlocked
  <1>4. ASSUME NEW t \in gone
        PROVE  /\ t \in held
               /\ t \in consumed => job[r].op = "refresh" /\ access[t].fam \in job[r].over
    <2>1. t \in hit /\ t \in Tokens /\ (issues \/ reuse) /\ Exists(t)
      BY <1>0, <1>4 DEF Live
    <2>2. t \in held
      BY <2>1 DEF Exists, EInv, World, Issued
    <2>3. CASE issues
      BY <2>1, <2>2, <2>3 DEF Live, HInv, Consumption
    <2>4. CASE reuse
      BY <1>0, <2>1, <2>2, <2>4 DEF Keeps
    <2>5. QED BY <2>1, <2>3, <2>4, <2>2
  <1>5. job[r].spend # 0 => /\ tlock'[job[r].spend] = r /\ job[r].spend \in held
                            /\ ~Expired(job[r].spend) /\ issues
    <2>1. job[r].spend \in Tokens \cup {0}
      BY DEF IInv, TypeOK
    <2>2. QED BY <1>0, <1>3, <2>1 DEF Keeps, Expired
  <1>6. Keeps(r)'
    <2>1. issues => kill = {}
      OBVIOUS
    <2> HIDE DEF gone, kill, hit
    <2>2. pc'[r] \in {"revoke", "commit"}
      BY <1>1
    <2>3. job[r].new = 0 => job[r].spend = 0
      BY <1>0 DEF Keeps
    <2>4. QED BY <1>0, <1>2, <1>4, <1>5, <2>1, <2>2, <2>3 DEF Keeps, Expired
  <1>7. QED BY <1>0, <1>1, <1>3, <1>6, OwnStep

LEMMA RevokeKept ==
    ASSUME IInv, EInv, HInv, NEW r \in Requests, Revoke(r)
    PROVE  HInv'
  <1> DEFINE cut == IF job[r].op \in OneSession THEN 0 ELSE minted + 1
             link == job[r].link \/ Cancels(r)
  <1>0. /\ UNCHANGED <<row, now, access, held, consumed, tlock>> /\ pc[r] = "revoke" /\ Keeps(r)
    BY DEF Revoke, dbVars, mintVars, HInv
  <1>1. /\ pc'[r] = "commit" /\ job'[r] = [job[r] EXCEPT !.cut = cut, !.link = link]
        /\ \A q \in Requests \ {r} : pc'[q] = pc[q] /\ job'[q] = job[q]
    BY <1>0 DEF Revoke, Goto, IInv, TypeOK
  <1>2. /\ job'[r].kill = job[r].kill /\ job'[r].op = job[r].op /\ job'[r].gone = job[r].gone
        /\ job'[r].new = job[r].new /\ job'[r].spend = job[r].spend /\ job'[r].over = job[r].over
    BY <1>0, <1>1 DEF IInv, TypeOK
  <1>3. Keeps(r)'
    BY <1>0, <1>1, <1>2 DEF Keeps, Expired
  <1>4. QED BY <1>0, <1>1, <1>3, OwnStep

\* A step that mints: what clients have is as it was.
LEMMA MintKept ==
    ASSUME IInv, EInv, HInv, NEW r \in Requests, NEW f, Mint(f), Keeps(r)',
           UNCHANGED <<row, now, tlock>>,
           \A q \in Requests \ {r} : pc'[q] = pc[q] /\ job'[q] = job[q]
    PROVE  HInv'
  <1>1. held' = held /\ consumed' = consumed /\ held \subseteq Tokens
    BY Numbers DEF Mint, IInv
  <1>2. \A t \in held : access'[t] = access[t]
    BY <1>1, Minted, Zenon
  <1>3. \A q \in Requests : Keeps(q)'
    BY <1>1, <1>2, OthersKeep DEF HInv
  <1>4. QED BY <1>1, <1>3, RowsKept DEF HInv

LEMMA IssueKept ==
    ASSUME IInv, EInv, HInv, NEW r \in Requests, Issue(r)
    PROVE  HInv'
  <1>0. /\ UNCHANGED <<row, now, tlock>> /\ pc[r] = "issue" /\ Mint(minted + 1) /\ Keeps(r)
        /\ job[r].new = 0 /\ minted + 1 # 0
    BY Numbers DEF Issue, dbVars, EInv, HInv, Holds, Shape, IInv
  <1>1. /\ pc'[r] = "apply" /\ \A q \in Requests \ {r} : pc'[q] = pc[q] /\ job'[q] = job[q]
    BY DEF Issue, Goto, IInv, TypeOK
  <1>2. PICK c : job' = [job EXCEPT ![r].new = minted + 1, ![r].seen = c]
    BY DEF Issue
  <1>3. /\ job'[r].new = minted + 1 /\ job'[r].spend = job[r].spend
        /\ job'[r].gone = job[r].gone /\ job'[r].kill = job[r].kill
    BY <1>2 DEF IInv, TypeOK
  <1>4. job'[r].spend = 0 /\ job'[r].gone = {} /\ job'[r].kill = {}
    BY <1>0, <1>3 DEF Keeps
  <1>5. Keeps(r)'
    BY <1>0, <1>1, <1>3, <1>4 DEF Keeps
  <1>6. QED BY <1>0, <1>1, <1>5, MintKept

\* A rotation consumes the token it holds, which has not expired.
LEMMA RotateKept ==
    ASSUME IInv, EInv, HInv, NEW r \in Requests, Rotate(r)
    PROVE  HInv'
  <1> DEFINE t == job[r].tok
             f == row[t].fam
             spend == IF row[t].spent = 0 THEN t ELSE 0
  <1>0. /\ UNCHANGED <<row, now, tlock>> /\ pc[r] = "rotate" /\ Mint(f) /\ Keeps(r)
        /\ t \in Tokens /\ tlock[t] = r /\ f # 0 /\ job[r].new = 0
    BY DEF Rotate, dbVars, EInv, HInv, Holds, Shape, Locked, IInv, AccountWaiters
  <1>1. /\ pc'[r] = "apply" /\ \A q \in Requests \ {r} : pc'[q] = pc[q] /\ job'[q] = job[q]
    BY <1>0 DEF Rotate, Goto, IInv, TypeOK
  <1>2. PICK c : job' = [job EXCEPT ![r].new = minted + 1, ![r].spend = spend, ![r].seen = c]
    BY DEF Rotate
  <1>3. /\ job'[r].new = minted + 1 /\ job'[r].spend = spend
        /\ job'[r].gone = job[r].gone /\ job'[r].kill = job[r].kill
    BY <1>2 DEF IInv, TypeOK
  <1>4. job'[r].gone = {} /\ job'[r].kill = {} /\ minted + 1 # 0
    BY <1>0, <1>3, Numbers DEF Keeps, IInv
  <1>5. held' = held /\ t \in held /\ ~Expired(t)
    BY <1>0 DEF Mint, EInv, World, Issued, Keeps
  <1>6. Keeps(r)'
    <2>1. spend # 0 => spend = t
      OBVIOUS
    <2> HIDE DEF spend
    <2>2. spend # 0 => tlock'[spend] = r /\ spend \in held' /\ ~Expired(spend)
      BY <1>0, <1>5, <2>1
    <2>3. QED BY <1>0, <1>1, <1>3, <1>4, <2>2 DEF Keeps, Expired
  <1>7. QED BY <1>0, <1>1, <1>6, MintKept

-----------------------------------------------------------------------------
(* Steps that change rows.                                                    *)

\* What a Commit leaves a row that it neither inserts nor removes.
LEMMA CommitSpends ==
    ASSUME IInv, EInv, HInv, NEW r \in Requests, Commit(r), NEW t \in Tokens, t # job[r].new
    PROVE  /\ t \notin job[r].gone => row'[t].made = row[t].made
           /\ row'[t].spent \in {0, row[t].spent, now}
           /\ row'[t].spent # 0 => row'[t].made = row[t].made
           /\ row'[t].spent # 0 /\ row'[t].spent # row[t].spent => t = job[r].spend
           /\ Exists(t)' => /\ t \notin job[r].gone /\ Exists(t)
                            /\ row[t].spent # 0 => row'[t].spent # 0
                            /\ t = job[r].spend => row'[t].spent # 0
  <1>1. row'[t] = Committed(r, t) /\ row[t] \in Rows /\ now # 0 /\ pc[r] = "commit"
    BY Numbers DEF Commit, IInv, TypeOK
  <1>2. CASE t \in job[r].gone
    <2>1. row'[t].fam = 0 /\ row'[t].spent = 0
      BY <1>1, <1>2 DEF Committed, NoRow
    <2>2. QED BY <1>2, <2>1 DEF Exists
  <1>3. CASE t \notin job[r].gone /\ t \in job[r].kill
    <2>1. row'[t] = [row[t] EXCEPT !.dead = now]
      BY <1>1, <1>3 DEF Committed
    <2>2. row'[t].fam = row[t].fam /\ row'[t].made = row[t].made /\ row'[t].spent = row[t].spent
      BY <1>1, <2>1 DEF Rows
    <2>3. t # job[r].spend
      BY <1>3 DEF HInv, Keeps, EInv, IInv, TypeOK
    <2>4. QED BY <1>3, <2>2, <2>3 DEF Exists
  <1>4. CASE t \notin job[r].gone /\ t \notin job[r].kill /\ t = job[r].spend
    <2>1. row'[t] = [row[t] EXCEPT !.spent = now]
      BY <1>1, <1>4 DEF Committed
    <2>2. row'[t].fam = row[t].fam /\ row'[t].made = row[t].made /\ row'[t].spent = now
      BY <1>1, <2>1 DEF Rows
    <2>3. QED BY <1>1, <1>4, <2>2 DEF Exists
  <1>5. CASE t \notin job[r].gone /\ t \notin job[r].kill /\ t # job[r].spend
    <2>1. row'[t] = row[t]
      BY <1>1, <1>5 DEF Committed
    <2>2. QED BY <1>5, <2>1 DEF Exists
  <1>6. QED BY <1>2, <1>3, <1>4, <1>5

LEMMA CommitKept ==
    ASSUME IInv, EInv, HInv, NEW r \in Requests, Commit(r)
    PROVE  HInv'
  <1> DEFINE new == job[r].new
             spend == job[r].spend
  <1>0. /\ now' = now /\ access' = access /\ held' = held \cup ({new} \ {0})
        /\ consumed' = consumed \cup ({spend} \ {0}) /\ Keeps(r) /\ Finish(r)
        /\ new \in Tokens \cup {0} /\ spend \in Tokens \cup {0} /\ held \subseteq Tokens
        /\ new \notin held /\ 0 \notin Tokens
        /\ \A t \in job[r].gone : tlock[t] = r
    BY Numbers DEF Commit, HInv, EInv, Holds, Locked, FreshJob, IInv, TypeOK
  <1>1. spend # 0 => spend \in held /\ tlock[spend] = r /\ ~Expired(spend) /\ spend # new
    BY <1>0 DEF Keeps
  <1>2. new # 0 => row'[new].spent = 0
    <2>1. new # 0 => row'[new] = Committed(r, new)
      BY <1>0 DEF Commit
    <2>2. Committed(r, new) = [fam |-> access[new].fam, made |-> now, spent |-> 0, dead |-> 0]
      BY DEF Committed
    <2>3. QED BY <2>1, <2>2
  <1>3. Consumption'
    <2>1. consumed' \subseteq held'
      BY <1>0, <1>1 DEF HInv, Consumption
    <2>2. ASSUME NEW t \in consumed', Exists(t)' PROVE row'[t].spent # 0
      <3>1. t \in held /\ t # new /\ t \in Tokens /\ (t \in consumed \/ t = spend)
        BY <1>0, <1>1, <2>2 DEF HInv, Consumption
      <3>2. CASE t \in consumed
        BY <2>2, <3>1, <3>2, CommitSpends DEF HInv, Consumption
      <3>3. CASE t = spend
        BY <2>2, <3>1, <3>3, CommitSpends
      <3>4. QED BY <3>1, <3>2, <3>3
    <2>3. ASSUME NEW t \in Tokens, row'[t].spent # 0 PROVE row'[t].spent <= row'[t].made + RefreshLife
      <3>1. t # new /\ row'[t].made = row[t].made
        BY <1>0, <1>2, <2>3, CommitSpends
      <3>2. CASE row'[t].spent = row[t].spent
        BY <2>3, <3>1, <3>2 DEF HInv, Consumption
      <3>3. CASE row'[t].spent # row[t].spent
        <4>1. row'[t].spent = now /\ t = spend
          BY <2>3, <3>1, <3>3, CommitSpends
        <4>2. ~(row[t].made + RefreshLife < now)
          BY <1>1, <4>1, Numbers DEF Expired, IInv
        <4>3. row[t].made \in Nat /\ now \in Nat /\ RefreshLife \in Nat
          BY Numbers DEF IInv, TypeOK, Rows
        <4>4. QED BY <3>1, <4>1, <4>2, <4>3
      <3>4. QED BY <3>2, <3>3
    <2>4. QED BY <2>1, <2>2, <2>3 DEF Consumption
  <1>4. \A q \in Requests : Keeps(q)'
    <2>1. Keeps(r)'
      <3>1. pc'[r] = "idle" /\ job'[r] = NoJob
        BY <1>0 DEF Finish, Goto, IInv, TypeOK
      <3>2. NoJob.op = "none" /\ NoJob.new = 0 /\ NoJob.spend = 0 /\ NoJob.gone = {} /\ NoJob.kill = {}
        BY DEF NoJob, Job
      <3>3. QED BY <3>1, <3>2 DEF Keeps
    <2>2. ASSUME NEW q \in Requests, q # r PROVE Keeps(q)'
      <3>1. pc'[q] = pc[q] /\ job'[q] = job[q] /\ \A t \in Tokens : tlock[t] = q => tlock'[t] = q
        BY <1>0, <2>2, FinishHolds
      <3>2. ASSUME NEW t \in held, tlock[t] = q
            PROVE  row'[t].made = row[t].made /\ (t \in consumed' => t \in consumed)
        <4>1. t \in Tokens /\ t \notin job[r].gone /\ t # spend /\ t # new
          BY <1>0, <1>1, <2>2, <3>2, Numbers DEF IInv
        <4>2. QED BY <1>0, <4>1, CommitSpends
      <3>3. QED BY <1>0, <3>1, <3>2, OthersKeep DEF HInv
    <2>3. QED BY <2>1, <2>2
  <1>5. QED BY <1>3, <1>4 DEF HInv

\* Removing rows that nobody has locked takes nothing from a request.
LEMMA RowsSwept ==
    ASSUME IInv, EInv, HInv, NEW D, D \subseteq Tokens,
           row' = [t \in Tokens |-> IF t \in D THEN NoRow ELSE row[t]],
           UNCHANGED <<now, access, held, consumed, tlock>>
    PROVE  /\ Consumption'
           /\ \A q \in Requests :
                /\ pc'[q] = pc[q] /\ job'[q] = job[q]
                /\ \A t \in D : tlock[t] # q
                => Keeps(q)'
  <1>1. \A t \in Tokens : /\ t \notin D => row'[t] = row[t]
                          /\ t \in D => row'[t].fam = 0 /\ row'[t].spent = 0
    BY DEF NoRow
  <1>2. held \subseteq Tokens
    BY Numbers DEF IInv
  <1>3. Consumption'
    BY <1>1, <1>2 DEF HInv, Consumption, Exists
  <1>4. ASSUME NEW q \in Requests, pc'[q] = pc[q], job'[q] = job[q], \A t \in D : tlock[t] # q
        PROVE  Keeps(q)'
    BY <1>1, <1>2, <1>4, OthersKeep DEF HInv
  <1>5. QED BY <1>3, <1>4

LEMMA LoginKept ==
    ASSUME IInv, EInv, HInv, NEW r \in Requests, BeginLogin(r)
    PROVE  HInv'
  <1>1. PICK D : D = DeadRows
    OBVIOUS
  <1>2. /\ D \subseteq Tokens /\ row' = [t \in Tokens |-> IF t \in D THEN NoRow ELSE row[t]]
        /\ Unlocked(r, D) /\ pc'[r] = "issue" /\ job'[r] = Job("login", 0, 0)
        /\ \A q \in Requests \ {r} : pc'[q] = pc[q] /\ job'[q] = job[q]
        /\ UNCHANGED <<now, access, held, consumed, tlock>>
    BY <1>1 DEF BeginLogin, Goto, mintVars, DeadRows, IInv, TypeOK
  <1>3. ASSUME NEW q \in Requests \ {r} PROVE Keeps(q)'
    <2>1. \A t \in D : tlock[t] # q
      BY <1>2, LifetimesAssumption DEF Unlocked
    <2>2. QED BY <1>2, <2>1, RowsSwept
  <1>4. Keeps(r)'
    <2>1. LET j == Job("login", 0, 0) IN j.new = 0 /\ j.spend = 0 /\ j.gone = {} /\ j.kill = {}
      BY DEF Job
    <2>2. QED BY <1>2, <2>1 DEF Keeps
  <1>5. QED BY <1>2, <1>3, <1>4, RowsSwept DEF HInv

LEMMA SweepKept ==
    ASSUME IInv, EInv, HInv, RetentionSweep
    PROVE  HInv'
  <1>1. PICK D : D = DeadRows
    OBVIOUS
  <1>2. /\ D \subseteq Tokens /\ row' = [t \in Tokens |-> IF t \in D THEN NoRow ELSE row[t]]
        /\ \A t \in D : tlock[t] = Free
        /\ UNCHANGED <<now, access, held, consumed, tlock, pc, job>>
    BY <1>1 DEF RetentionSweep, mintVars, DeadRows
  <1>3. \A q \in Requests : \A t \in D : tlock[t] # q
    BY <1>2, LifetimesAssumption
  <1>4. QED BY <1>2, <1>3, RowsSwept DEF HInv

LEMMA PruneKept ==
    ASSUME IInv, EInv, HInv, Prune
    PROVE  HInv'
  <1>1. UNCHANGED <<row, now, access, held, consumed, tlock, pc, job>>
    BY DEF Prune, mintVars
  <1>2. \A q \in Requests : Keeps(q)'
    BY <1>1, OthersKeep DEF HInv
  <1>3. QED BY <1>1, <1>2, RowsKept DEF HInv

LEMMA RestartKept ==
    ASSUME IInv, EInv, HInv, Restart
    PROVE  HInv'
  <1>1. UNCHANGED <<row, now, access, held, consumed>> /\ \A q \in Requests : pc'[q] = "idle" /\ job'[q] = NoJob
    BY DEF Restart, mintVars
  <1>2. NoJob.op = "none" /\ NoJob.new = 0 /\ NoJob.spend = 0 /\ NoJob.gone = {} /\ NoJob.kill = {}
    BY DEF NoJob, Job
  <1>3. \A q \in Requests : Keeps(q)'
    BY <1>1, <1>2 DEF Keeps
  <1>4. QED BY <1>1, <1>3, RowsKept DEF HInv

\* Nobody has decided anything when the clock moves.
LEMMA TickKept ==
    ASSUME IInv, EInv, HInv, Tick
    PROVE  HInv'
  <1>1. UNCHANGED <<row, access, held, consumed, pc, job>> /\ \A q \in Requests : pc[q] \in {"idle", "issue"}
    BY DEF Tick, dbVars, mintVars
  <1>2. ASSUME NEW q \in Requests PROVE Keeps(q)'
    <2>1. job[q].new = 0 /\ job[q].spend = 0 /\ job[q].gone = {} /\ job[q].kill = {}
      BY <1>1 DEF EInv, Holds, Shape, HInv, Keeps
    <2>2. QED BY <1>1, <2>1 DEF Keeps
  <1>3. QED BY <1>1, <1>2, RowsKept DEF HInv

-----------------------------------------------------------------------------

LEMMA InitHInv == Init => HInv
  <1> SUFFICES ASSUME Init PROVE HInv
    OBVIOUS
  <1>1. \A q \in Requests : Keeps(q)
    BY NothingToDo DEF Init
  <1>2. Consumption
    BY DEF Init, Consumption, NoRow
  <1>3. QED BY <1>1, <1>2 DEF HInv

LEMMA HistoryKept == IInv /\ EInv /\ HInv /\ [Next]_vars => HInv'
  <1> SUFFICES ASSUME IInv, EInv, HInv, [Next]_vars PROVE HInv'
    OBVIOUS
  <1>1. ASSUME NEW r \in Requests, Start(r) PROVE HInv'
    BY <1>1, LoginKept, StartKept DEF Start
  <1>2. ASSUME NEW r \in Requests, Abort(r) PROVE HInv'
    <2>1. Finish(r) /\ UNCHANGED <<row, now, access, held, consumed>>
      BY <1>2 DEF Abort, dbVars, mintVars
    <2>2. QED BY <2>1, FinishKept
  <1>3. ASSUME NEW r \in Requests, Step(r) PROVE HInv'
    BY <1>3, IssueKept, LinkKept, AccountKept, TokenKept, VerdictKept, RotateKept, ScanKept,
       ApplyKept, RevokeKept, CommitKept DEF Step
  <1>4. CASE Prune \/ Restart \/ RetentionSweep \/ Tick
    BY <1>4, PruneKept, RestartKept, SweepKept, TickKept
  <1>5. CASE UNCHANGED vars
    <2>1. UNCHANGED <<row, now, access, held, consumed, pc, job, tlock>>
      BY <1>5 DEF vars
    <2>2. \A q \in Requests : Keeps(q)'
      BY <2>1, OthersKeep DEF HInv
    <2>3. QED BY <2>1, <2>2, RowsKept DEF HInv
  <1>6. QED BY <1>1, <1>2, <1>3, <1>4, <1>5 DEF Next

\* Who removes the row of a consumed token: a sweep that finds nothing left in
\* its session to renew, or the detection of reuse, which ends the session.
LEMMA HistoryRemoved ==
    ASSUME IInv, EInv, HInv, [Next]_vars, NEW u \in consumed, Exists(u), ~Exists(u)'
    PROVE  \/ access[u].fam \in reused'
           \/ ~\E t \in Tokens : row[t].fam = row[u].fam /\ Live(t) /\ ~Expired(t)
  <1>0. u \in held /\ u \in Tokens
    BY Numbers DEF HInv, Consumption, IInv
  <1>1. PICK D : D = DeadRows
    OBVIOUS
  <1>2. CASE row' = [t \in Tokens |-> IF t \in D THEN NoRow ELSE row[t]]
    <2>1. u \in DeadRows
      BY <1>0, <1>1, <1>2 DEF Exists
    <2>2. QED BY <2>1 DEF DeadRows
  <1>3. ASSUME NEW r \in Requests, Commit(r) PROVE access[u].fam \in reused'
    <2>1. row'[u] = Committed(r, u) /\ row[u] \in Rows /\ row[u].fam # 0
      BY <1>0, <1>3 DEF Commit, IInv, TypeOK, Exists
    <2>2. u # job[r].new
      BY <1>0, <1>3, Numbers DEF EInv, Holds, FreshJob, IInv
    <2>3. u \in job[r].gone
      BY <1>0, <1>3, <2>1, <2>2, CommitRows DEF Exists
    <2>4. job[r].op = "refresh" /\ access[u].fam \in job[r].over
      BY <2>3 DEF HInv, Keeps
    <2>5. QED BY <1>3, <2>4 DEF Commit
  <1>4. CASE row' = row
    BY <1>4 DEF Exists
  <1>5. \/ row' = row
        \/ row' = [t \in Tokens |-> IF t \in DeadRows THEN NoRow ELSE row[t]]
        \/ \E r \in Requests : Commit(r)
    <2>1. ASSUME NEW r \in Requests, Start(r)
          PROVE  row' = row \/ row' = [t \in Tokens |-> IF t \in DeadRows THEN NoRow ELSE row[t]]
      BY <2>1 DEF Start, Begin, BeginLogin, BeginRefresh, BeginLogout, BeginLogoutAll,
         BeginNewPassword, BeginReset, BeginRevokeSession, dbVars
    <2>2. ASSUME NEW r \in Requests, Step(r) \/ Abort(r) PROVE row' = row \/ Commit(r)
      BY <2>2 DEF Step, Abort, Issue, LockLink, LockAccount, LockToken, ReadVerdict, Rotate, Scan, Apply,
         Revoke, dbVars
    <2>3. CASE Prune \/ Restart \/ RetentionSweep \/ Tick
      BY <2>3 DEF Prune, Restart, RetentionSweep, Tick, dbVars
    <2>4. CASE UNCHANGED vars
      BY <2>4 DEF vars
    <2>5. QED BY <2>1, <2>2, <2>3, <2>4 DEF Next
  <1>6. QED BY <1>1, <1>2, <1>3, <1>4, <1>5

\* While a session has a token to renew it with, the rows by which presenting
\* one of its consumed tokens is recognised as reuse stay, whoever else signs
\* in, rotates, sweeps or rolls back meanwhile; only the detection of reuse
\* removes them, and it ends the session.
THEOREM HistoryStays == Spec => ReplayHistoryKept
  <1>1. ASSUME IInv, EInv, HInv, [Next]_vars
        PROVE  [\A u \in consumed :
                 Exists(u) /\ ~Exists(u)' =>
                   \/ access[u].fam \in reused'
                   \/ ~\E t \in Tokens : row[t].fam = row[u].fam /\ Live(t) /\ ~Expired(t)]_vars
    BY <1>1, HistoryRemoved
  <1>2. QED BY InitIInv, Inductive, InitEInv, NextKeeps, InitHInv, HistoryKept, <1>1, PTL
           DEF Spec, ReplayHistoryKept

-----------------------------------------------------------------------------
(* Who waits for whom.  Rotations lock the account before the token, "the    *)
(* same order the revocations use, so the two cannot deadlock" (comment in   *)
(* refresh_token): a circle of waiting requests with an ending in it has a   *)
(* request of another order in it too (OtherOrder).                          *)

\* The rows and the link a request has locked, or may have: a statement that
\* changes several rows locks one after the other.
MayHold(q, t)  == tlock[t] = q \/ (pc[q] = "apply" /\ t \in job[q].seen)
MayHoldLink(q) == job[q].link \/ (pc[q] = "revoke" /\ Cancels(q))

\* The next statement of r asks for a lock that q has, or may have.
WaitsFor(r, q) ==
    /\ q # r
    /\ \/ pc[r] = "issue" /\ acct[q] \in Conflicts["key"]
       \/ pc[r] = "link" /\ MayHoldLink(q)
       \/ pc[r] = "account" /\ acct[q] \in Conflicts[AccountMode(job[r].op)]
       \/ pc[r] = "token" /\ MayHold(q, job[r].tok)
       \/ pc[r] = "apply" /\ \E t \in job[r].seen : MayHold(q, t)
       \/ /\ pc[r] = "revoke"
          /\ \/ Cancels(r) /\ MayHoldLink(q)
             \/ job[r].op = "revoke" /\ acct[q] \in Conflicts["key"]
             \/ job[r].op = "refresh" /\ acct[q] \in Conflicts["nokey"]

\* Requests that wait for one another: nobody outside can help them.
Circle(D) == \A r \in D : (\E q \in D : WaitsFor(r, q)) /\ (\E q \in D : WaitsFor(q, r))

\* Who does not lock the account before everything else: a sign-in, the end of
\* one session, and a reset that has the row of its link first.
OtherOrder(r) == job[r].op \in {"login", "revoke"} \/ (pc[r] = "account" /\ job[r].link)

(* Requests that wait for one another are all rotations, or one of them is of
   another order: a sign-out, a sign-out everywhere or a change of the password
   never deadlocks with rotations (refresh_token, lock_account_for_revocation). *)
AccountFirst ==
    \A D \in SUBSET Requests : Circle(D) =>
        \/ \E r \in D : OtherOrder(r)
        \/ \A r \in D : job[r].op = "refresh"

\* What a request has locked before it was granted the account, or its token.
Empty(r) ==
    /\ pc[r] \in {"idle", "issue", "link", "account"} => acct[r] = "none"
    /\ pc[r] \in {"idle", "issue", "link", "account", "token"} => \A t \in Tokens : tlock[t] # r
    /\ job[r].link => /\ Cancels(r) /\ pc[r] \notin {"idle", "issue", "link"}
                      /\ job[r].op = "refresh" => pc[r] = "commit"
AllEmpty == \A r \in Requests : Empty(r)

LEMMA EmptyStays ==
    ASSUME AllEmpty, NEW q \in Requests,
           pc'[q] = pc[q], job'[q] = job[q], acct'[q] = acct[q],
           \A t \in Tokens : tlock'[t] = q => tlock[t] = q
    PROVE  Empty(q)'
  BY DEF AllEmpty, Empty, Cancels

LEMMA EmptyStep ==
    ASSUME AllEmpty, NEW r \in Requests, Empty(r)',
           \A q \in Requests \ {r} : pc'[q] = pc[q] /\ job'[q] = job[q] /\ acct'[q] = acct[q],
           \A q \in Requests \ {r}, t \in Tokens : tlock'[t] = q => tlock[t] = q
    PROVE  AllEmpty'
  <1>1. ASSUME NEW q \in Requests, q # r PROVE Empty(q)'
    BY <1>1, EmptyStays
  <1>2. QED BY <1>1 DEF AllEmpty

LEMMA EmptyFinish == ASSUME IInv, AllEmpty, NEW r \in Requests, Finish(r) PROVE AllEmpty'
  <1>1. /\ pc'[r] = "idle" /\ job'[r] = NoJob /\ acct'[r] = "none" /\ NoJob.link = FALSE
        /\ \A t \in Tokens : tlock'[t] # r /\ (tlock'[t] = tlock[t] \/ tlock'[t] = Free)
        /\ \A q \in Requests \ {r} : pc'[q] = pc[q] /\ job'[q] = job[q] /\ acct'[q] = acct[q]
    BY LifetimesAssumption DEF Finish, Goto, IInv, TypeOK, NoJob, Job
  <1>2. Empty(r)'
    BY <1>1 DEF Empty
  <1>3. QED BY <1>1, <1>2, EmptyStep, LifetimesAssumption

\* A step of r that ends none of its locks leaves the others where they are.
LEMMA EmptyMoves ==
    ASSUME IInv, EInv, AllEmpty, NEW r \in Requests, Start(r) \/ Step(r)
    PROVE  AllEmpty'
  <1>0. job \in [Requests -> JobSet] /\ pc \in [Requests -> Labels] /\ acct \in [Requests -> Modes]
        /\ tlock \in [Tokens -> Requests \cup {Free}] /\ job[r] \in JobSet /\ Empty(r)
        /\ Account(r) /\ Shape(r)
    BY DEF IInv, TypeOK, JobSet, Modes, AllEmpty, EInv, Holds
  <1>1. CASE Finish(r)
    BY <1>1, EmptyFinish
  <1>2. CASE /\ pc[r] = "idle" /\ acct' = acct /\ tlock' = tlock /\ pc' = [pc EXCEPT ![r] = pc'[r]]
             /\ pc'[r] \in {"issue", "link", "account", "scan"}
             /\ \E op, t, f : job' = [job EXCEPT ![r] = Job(op, t, f)]
    <2>1. job'[r].link = FALSE
      BY <1>0, <1>2 DEF Job
    <2>2. /\ acct'[r] = "none" /\ \A t \in Tokens : tlock'[t] # r
          /\ \A q \in Requests \ {r} : pc'[q] = pc[q] /\ job'[q] = job[q] /\ acct'[q] = acct[q]
      BY <1>0, <1>2 DEF Empty
    <2>3. QED BY <1>2, <2>1, <2>2, EmptyStep DEF Empty
  <1>3. CASE Issue(r)
    <2>1. /\ pc[r] = "issue" /\ pc'[r] = "apply" /\ tlock' = tlock /\ job'[r].link = job[r].link
          /\ \A q \in Requests \ {r} : pc'[q] = pc[q] /\ job'[q] = job[q] /\ acct'[q] = acct[q]
      BY <1>0, <1>3 DEF Issue, Goto, JobSet
    <2>2. QED BY <1>0, <2>1, EmptyStep DEF Empty
  <1>4. CASE LockLink(r)
    <2>1. /\ pc[r] = "link" /\ pc'[r] = "account" /\ tlock' = tlock /\ acct' = acct
          /\ job'[r].op = job[r].op /\ job[r].op = "password"
          /\ \A q \in Requests \ {r} : pc'[q] = pc[q] /\ job'[q] = job[q]
      BY <1>0, <1>4 DEF LockLink, Goto, JobSet, IInv, AccountWaiters
    <2>2. QED BY <1>0, <2>1, EmptyStep DEF Empty, Cancels
  <1>5. CASE LockAccount(r)
    <2>1. /\ pc[r] = "account" /\ pc'[r] \in {"token", "scan"} /\ tlock' = tlock /\ job' = job
          /\ \A q \in Requests \ {r} : pc'[q] = pc[q] /\ acct'[q] = acct[q]
      BY <1>0, <1>5 DEF LockAccount, Goto
    <2>2. QED BY <1>0, <2>1, EmptyStep DEF Empty, Cancels
  <1>6. CASE /\ pc[r] \notin {"idle", "issue", "link", "account"} /\ acct' = acct
             /\ pc'[r] \in {"verdict", "rotate", "scan", "apply", "revoke", "commit"}
             /\ pc' = [pc EXCEPT ![r] = pc'[r]] /\ \A q \in Requests \ {r} : job'[q] = job[q]
             /\ job'[r].op = job[r].op /\ job'[r].link = job[r].link /\ pc[r] # "commit"
             /\ \A t \in Tokens : tlock'[t] \in {r, tlock[t]}
    <2>1. \A q \in Requests \ {r} : pc'[q] = pc[q] /\ acct'[q] = acct[q]
      BY <1>0, <1>6
    <2>2. Empty(r)'
      BY <1>0, <1>6 DEF Empty, Cancels
    <2>3. QED BY <1>6, <2>1, <2>2, EmptyStep
  <1>7. CASE Revoke(r)
    <2>1. /\ pc[r] = "revoke" /\ pc'[r] = "commit" /\ tlock' = tlock
          /\ job'[r].op = job[r].op /\ (job'[r].link => job[r].link \/ Cancels(r))
          /\ \A q \in Requests \ {r} : pc'[q] = pc[q] /\ job'[q] = job[q] /\ acct'[q] = acct[q]
      BY <1>0, <1>7 DEF Revoke, Goto, JobSet
    <2>2. QED BY <1>0, <2>1, EmptyStep DEF Empty, Cancels
  <1>8. CASE Start(r)
    <2>1. CASE BeginLogin(r)
      BY <1>0, <1>2, <2>1 DEF BeginLogin, Goto
    <2>2. ASSUME NEW op, NEW t, NEW f, NEW label \in {"link", "account", "scan"}, Begin(r, op, label, t, f)
          PROVE  AllEmpty'
      <3>1. pc[r] = "idle" /\ acct' = acct /\ tlock' = tlock
            /\ pc' = [pc EXCEPT ![r] = label] /\ job' = [job EXCEPT ![r] = Job(op, t, f)]
        BY <2>2 DEF Begin, Goto
      <3>2. pc'[r] = label
        BY <1>0, <3>1
      <3>3. QED BY <1>2, <3>1, <3>2
    <2>3. CASE BeginRefresh(r) \/ BeginLogout(r)
      BY <2>2, <2>3, Zenon DEF BeginRefresh, BeginLogout
    <2>4. CASE BeginLogoutAll(r) \/ BeginNewPassword(r) \/ BeginReset(r)
      BY <2>2, <2>4, Zenon DEF BeginLogoutAll, BeginNewPassword, BeginReset
    <2>5. CASE BeginRevokeSession(r)
      BY <2>2, <2>5, Zenon DEF BeginRevokeSession
    <2>6. QED BY <1>8, <2>1, <2>3, <2>4, <2>5 DEF Start
  <1>9. CASE LockToken(r)
    <2>1. CASE Exists(job[r].tok)
      BY <1>0, <1>6, <1>9, <2>1 DEF LockToken, LockRows, Goto, JobSet
    <2>2. QED BY <1>1, <1>9, <2>1 DEF LockToken
  <1>10. CASE ReadVerdict(r)
    <2>1. \/ Finish(r)
          \/ /\ acct' = acct /\ tlock' = tlock
             /\ \E l \in {"scan", "commit", "rotate"} : Goto(r, l)
             /\ \/ job' = job
                \/ job' = [job EXCEPT ![r].kill = {job[r].tok}]
                \/ job' = [job EXCEPT ![r].gone = {job[r].tok}]
      BY <1>10 DEF ReadVerdict
    <2>2. QED BY <1>0, <1>1, <1>6, <1>10, <2>1 DEF ReadVerdict, Goto, JobSet
  <1>11. CASE Rotate(r)
    <2>1. PICK n, sp, se : job' = [job EXCEPT ![r].new = n, ![r].spend = sp, ![r].seen = se]
      BY <1>11 DEF Rotate
    <2>2. QED BY <1>0, <1>6, <1>11, <2>1 DEF Rotate, Goto, JobSet
  <1>12. CASE Scan(r)
    <2>1. PICK se, ov : job' = [job EXCEPT ![r].seen = se, ![r].over = ov]
      BY <1>12 DEF Scan
    <2>2. QED BY <1>0, <1>6, <1>12, <2>1 DEF Scan, Goto, JobSet
  <1>13. CASE Apply(r)
    <2>1. PICK se, go, ki : job' = [job EXCEPT ![r].seen = se, ![r].gone = go, ![r].kill = ki]
      BY <1>13 DEF Apply
    <2>2. PICK hit : LockRows(r, hit)
      BY <1>13 DEF Apply
    <2>3. \E l \in {"commit", "revoke"} : Goto(r, l)
      BY <1>13 DEF Apply
    <2>4. pc[r] = "apply" /\ acct' = acct
      BY <1>13 DEF Apply
    <2>5. QED BY <1>0, <1>6, <2>1, <2>2, <2>3, <2>4 DEF LockRows, Goto, JobSet
  <1>14. CASE Commit(r)
    BY <1>1, <1>14 DEF Commit
  <1>15. QED
    BY <1>3, <1>4, <1>5, <1>7, <1>8, <1>9, <1>10, <1>11, <1>12, <1>13, <1>14 DEF Step

LEMMA EmptyNext == IInv /\ EInv /\ AllEmpty /\ [Next]_vars => AllEmpty'
  <1> SUFFICES ASSUME IInv, EInv, AllEmpty, [Next]_vars PROVE AllEmpty'
    OBVIOUS
  <1>1. CASE UNCHANGED <<pc, job, acct, tlock>>
    BY <1>1, EmptyStays DEF AllEmpty
  <1>2. ASSUME NEW r \in Requests, Start(r) \/ Step(r) \/ Abort(r) PROVE AllEmpty'
    BY <1>2, EmptyMoves, EmptyFinish DEF Abort
  <1>3. CASE Restart
    <2>1. \A r \in Requests : /\ pc'[r] = "idle" /\ job'[r] = NoJob /\ acct'[r] = "none"
                              /\ \A t \in Tokens : tlock'[t] # r
      BY <1>3, LifetimesAssumption DEF Restart
    <2>2. QED BY <2>1 DEF AllEmpty, Empty, NoJob, Job
  <1>4. CASE Prune \/ RetentionSweep \/ Tick \/ UNCHANGED vars
    BY <1>1, <1>4 DEF Prune, RetentionSweep, Tick, vars
  <1>5. QED BY <1>2, <1>3, <1>4 DEF Next

\* What locks the account first and is past it shares the account with nobody but,
\* if it is a rotation, other rotations.
LEMMA PastTheAccount ==
    ASSUME IInv, EInv, AllEmpty, NEW r \in Requests, ~OtherOrder(r),
           \/ pc[r] \in {"verdict", "rotate", "apply", "revoke", "commit"}
           \/ \E t \in Tokens : MayHold(r, t)
           \/ MayHoldLink(r)
    PROVE  acct[r] \in {"share", "nokey", "update"}
  <1>1. Empty(r) /\ Account(r) /\ Shape(r) /\ job[r].op \in OpNames \cup {"none"} /\ pc[r] \in Labels
    BY DEF AllEmpty, EInv, Holds, IInv, TypeOK
  <1>2. pc[r] \in {"verdict", "rotate", "scan", "apply", "revoke", "commit"} \/ (pc[r] = "token" /\ job[r].link)
    BY <1>1 DEF Empty, MayHold, MayHoldLink, OtherOrder, Labels
  <1>3. pc[r] \notin {"idle", "link", "account"} /\ job[r].op \in {"refresh", "logout", "logoutAll", "password"}
    BY <1>1, <1>2 DEF OtherOrder, OpNames, Shape
  <1>4. QED BY <1>1, <1>3 DEF Account

\* What another request waits for is the account, a row or the link.
LEMMA Blocking ==
    ASSUME IInv, NEW r \in Requests, NEW q \in Requests, WaitsFor(r, q)
    PROVE  /\ acct[q] # "none" \/ (\E t \in Tokens : MayHold(q, t)) \/ MayHoldLink(q)
           /\ pc[r] \in {"token", "apply"} => \E t \in Tokens : MayHold(q, t)
  <1>1. job[r].seen \subseteq Tokens /\ (pc[r] = "token" => job[r].tok \in Tokens)
    BY DEF IInv, TypeOK, AccountWaiters
  <1>2. \A m \in Modes : "none" \notin Conflicts[m]
    BY DEF Conflicts, Modes
  <1>3. pc[r] = "account" => AccountMode(job[r].op) \in Modes
    BY DEF IInv, AccountWaiters, AccountMode, AccountModes, Modes
  <1>4. {"key", "nokey"} \subseteq Modes
    BY DEF Modes
  <1>5. pc[r] \in {"token", "apply"} => \E t \in Tokens : MayHold(q, t)
    BY <1>1 DEF WaitsFor
  <1>6. QED BY <1>2, <1>3, <1>4, <1>5 DEF WaitsFor

LEMMA NoCircle ==
    ASSUME IInv, EInv, AllEmpty, NEW D \in SUBSET Requests, Circle(D), \A r \in D : ~OtherOrder(r),
           NEW e \in D, job[e].op # "refresh"
    PROVE  FALSE
  <1>1. D \subseteq Requests /\ e \in Requests /\ ~OtherOrder(e)
    OBVIOUS
  <1>0. Empty(e) /\ Account(e) /\ Shape(e) /\ job[e].op \in OpNames \cup {"none"}
    BY <1>1 DEF AllEmpty, EInv, Holds, IInv, TypeOK
  <1>2. PICK q \in D : WaitsFor(e, q)
    BY DEF Circle
  <1>3. PICK p \in D : WaitsFor(p, e)
    BY DEF Circle
  <1>4. q \in Requests /\ p \in Requests /\ ~OtherOrder(q)
    BY <1>1
  <1>5. job[e].op \in Ending /\ job[e].op # "revoke"
    <2>1. job[e].op # "none"
      BY <1>0, <1>2 DEF WaitsFor, Shape
    <2> QED BY <1>0, <1>1, <2>1 DEF OtherOrder, OpNames, Ending
  <1>6. acct[e] # "none"
    <2>1. acct[e] # "none" \/ (\E t \in Tokens : MayHold(e, t)) \/ MayHoldLink(e)
      BY <1>1, <1>3, <1>4, Blocking
    <2> QED BY <1>1, <2>1, PastTheAccount
  <1>7. pc[e] \notin {"issue", "link", "account"}
    BY <1>0, <1>6 DEF Empty
  <1>8. acct[e] \in {"nokey", "update"}
    BY <1>0, <1>5, <1>6, <1>7 DEF Account, Ending
  <1>9. (\E t \in Tokens : MayHold(q, t)) \/ MayHoldLink(q)
    <2>1. job[e].op # "refresh"
      OBVIOUS
    <2>2. pc[e] \in {"token", "apply"} => \E t \in Tokens : MayHold(q, t)
      BY <1>1, <1>2, <1>4, Blocking
    <2> QED BY <1>2, <1>5, <1>7, <2>1, <2>2 DEF WaitsFor
  <1>10. acct[q] \in {"share", "nokey", "update"}
    BY <1>4, <1>9, PastTheAccount
  <1>11. q # e
    BY <1>2 DEF WaitsFor
  <1> QED BY <1>1, <1>4, <1>8, <1>10, <1>11 DEF EInv, Apart

\* Of the requests that wait for one another, all are rotations or one is of
\* another order: a sign-out, a sign-out everywhere or a change of the password
\* never deadlocks with rotations (refresh_token, lock_account_for_revocation).
THEOREM TheTwoCannotDeadlock == Spec => []AccountFirst
  <1>1. ASSUME IInv, EInv, AllEmpty PROVE AccountFirst
    BY <1>1, NoCircle DEF AccountFirst
  <1>2. Init => AllEmpty
    BY LifetimesAssumption DEF Init, AllEmpty, Empty, NoJob, Job
  <1>3. QED
    BY <1>1, <1>2, InitIInv, Inductive, InitEInv, NextKeeps, EmptyNext, PTL DEF Spec
=============================================================================
