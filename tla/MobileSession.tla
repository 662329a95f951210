---------------------------- MODULE MobileSession ----------------------------
(* The signed-in session of the mobile app: refresh token in the keychain (or *)
(* in memory), its cached copy for offline starts, the auth store the screens *)
(* read, the session generation that tells a late answer from a current one,  *)
(* and the queue of revocations a sign-out could not deliver.                 *)
(*                                                                            *)
(* Every exported function of lib/session.ts is an asynchronous job whose     *)
(* awaits are its steps.  Credential writes and revocations each wait in a    *)
(* promise chain of their own.  The server is what routes/auth.rs does with a *)
(* refresh token.  A token stands for the access token issued with it.        *)
EXTENDS Integers, Sequences, FiniteSets, SequencesExt

CONSTANTS
    Users,        \* accounts that sign in on this device
    Jobs,         \* asynchronous calls that may be running at once
    None,         \* nobody, nothing
    Ops,          \* the operations this instance starts
    MaxTokens,    \* bound: refresh tokens the server issues
    MaxGen,       \* bound: session transitions in one run of the app
    MaxPending,   \* MAX_LOGOUT_REVOCATIONS
    MaxCrashes,   \* bound: times the process is killed
    MaxFaults,    \* bound: steps in which the keychain fails
    LateReplays   \* may a spent token be presented after the grace window?

ASSUME MobileSessionAssumption ==
    /\ MaxTokens \in Nat \ {0} /\ MaxGen \in Nat \ {0} /\ MaxPending \in Nat \ {0}
    /\ MaxCrashes \in Nat /\ MaxFaults \in Nat /\ LateReplays \in BOOLEAN
    /\ None \notin Users /\ None \notin Jobs

Tokens == 1..MaxTokens
OpNames == {"hydrate", "refresh", "login", "logout", "clear"}
Status == {"loading", "authenticated", "offline", "anonymous", "restore_error"}

VARIABLES
    \* memory of the running app
    gen, persistent, inFlight, store, volatile, booted,
    pc, job, credQ, revQ, api,
    \* the keychain
    disk, cached, pending,
    \* the server
    issued, spent, deleted, ended,
    \* bookkeeping of the model: owed, the tokens to be revoked; forgotten, those
    \* the app dropped; left, the sessions signed out of with nothing kept
    crashes, faults, forgotten, owed, left

memory == <<gen, persistent, inFlight, store, volatile, booted>>
jobs == <<pc, job, credQ>>
keychain == <<disk, cached, pending>>
server == <<issued, spent, deleted, ended>>
ghosts == <<crashes, faults, forgotten, owed, left>>
vars == <<memory, jobs, revQ, api, keychain, server, ghosts>>

NoJob == [op |-> "none", gen |-> 0, user |-> None, tok |-> 0, copy |-> 0, new |-> 0,
          reply |-> "none", remember |-> TRUE, clean |-> TRUE]
NoApi == [pc |-> "idle", gen |-> 0, user |-> None, tok |-> 0, retried |-> FALSE,
          reply |-> "none", all |-> FALSE]
SignedOut == [status |-> "anonymous", access |-> 0, user |-> None]

Init ==
    /\ gen = 0 /\ persistent = TRUE /\ inFlight = None /\ volatile = 0 /\ booted = FALSE
    /\ store = [status |-> "loading", access |-> 0, user |-> None]
    /\ pc = [j \in Jobs |-> "idle"] /\ job = [j \in Jobs |-> NoJob]
    /\ credQ = <<>> /\ revQ = <<>> /\ api = NoApi
    /\ disk = 0 /\ cached = 0 /\ pending = <<>>
    /\ issued = <<>> /\ spent = {} /\ deleted = {} /\ ended = {}
    /\ crashes = 0 /\ faults = 0 /\ forgotten = {} /\ owed = {} /\ left = {}

-----------------------------------------------------------------------------
(* The server. *)

Family(t) == issued[t].family
Owner(t) == issued[t].user
Held == {t \in Tokens : t <= Len(issued)}
OwnedBy(u) == {t \in Held : Owner(t) = u}
Good(t) == t \in Held \ deleted /\ Family(t) \notin ended

Mint(u, f) ==
    /\ Len(issued) < MaxTokens
    /\ issued' = Append(issued, [user |-> u, family |-> f])

\* mobile_refresh of t.  A spent token of a healthy family is answered with a
\* fresh pair inside the grace window; later, or on an ended family, it ends
\* every session of the account.
Reuse(t) == t \in spent /\ (Family(t) \in ended \/ LateReplays)
ServeRefresh(j) ==
    LET t == job[j].tok IN
    \/ /\ Good(t) /\ Mint(Owner(t), Family(t))
       /\ spent' = spent \cup {t}
       /\ job' = [job EXCEPT ![j].reply = "ok", ![j].new = Len(issued) + 1]
       /\ UNCHANGED <<deleted, ended>>
    \/ /\ t \notin deleted /\ Reuse(t)
       /\ deleted' = deleted \cup OwnedBy(Owner(t))
       /\ job' = [job EXCEPT ![j].reply = "rejected"]
       /\ UNCHANGED <<issued, spent, ended>>
    \/ /\ ~Good(t) /\ (t \in deleted \/ ~Reuse(t))
       /\ job' = [job EXCEPT ![j].reply = "rejected"]
       /\ UNCHANGED server

\* mobile_login and mobile_register, with the credentials right or not.
ServeLogin(j) ==
    \/ /\ Mint(job[j].user, Len(issued) + 1)
       /\ job' = [job EXCEPT ![j].reply = "ok", ![j].new = Len(issued) + 1]
       /\ UNCHANGED <<spent, deleted, ended>>
    \/ /\ job' = [job EXCEPT ![j].reply = "rejected"]
       /\ UNCHANGED server

\* The session is ended on another device, or expires.
EndElsewhere ==
    /\ "elsewhere" \in Ops
    /\ \E t \in Held : Good(t) /\ ended' = ended \cup {Family(t)}
    /\ UNCHANGED <<memory, jobs, revQ, api, keychain, issued, spent, deleted, ghosts>>

-----------------------------------------------------------------------------
(* The keychain. *)

Fault == faults < MaxFaults /\ faults' = faults + 1
Sound == UNCHANGED faults

\* readRefreshToken: the token held in memory hides the one on disk.
CurrentToken == IF volatile # 0 THEN volatile ELSE disk

\* writeRefreshToken: memory changes first, so a call that fails has still
\* changed it.
WriteToken(t) ==
    /\ volatile' = IF persistent THEN 0 ELSE t
    /\ disk' = IF persistent THEN t ELSE 0
    /\ Sound
WriteTokenFails(t) ==
    /\ volatile' = IF persistent THEN 0 ELSE t
    /\ Fault /\ UNCHANGED disk

\* removeRefreshToken and removeCachedSession, side by side, each failure
\* swallowed; both may fail.
RemoveStored ==
    /\ volatile' = 0
    /\ \/ disk' = 0 /\ cached' = 0 /\ Sound
       \/ Fault /\ disk' \in {0, disk} /\ UNCHANGED cached
       \/ Fault /\ cached' = 0 /\ UNCHANGED disk

\* writeCachedSession, which removes the copy of a session not to be kept.  When
\* the write fails the old copy is removed instead, and a removal that fails, of
\* either kind, leaves it.
WriteCached(t) ==
    \/ cached' = (IF persistent THEN t ELSE 0) /\ Sound
    \/ persistent /\ cached' = 0 /\ Fault
    \/ Fault /\ UNCHANGED cached

\* writeLogoutRevocations keeps the newest few.
Bounded(list) == SubSeq(list, Len(list) - MaxPending + 1, Len(list))
Queue(t) ==
    LET list == IF Contains(pending, t) THEN pending ELSE Append(pending, t)
        kept == IF Len(list) > MaxPending THEN Bounded(list) ELSE list
    IN /\ pending' = kept
       /\ forgotten' = forgotten \cup (ToSet(list) \ ToSet(kept))
\* removePendingLogoutRevocation; a token is on the list once.
Unqueue(t) ==
    \/ ~Contains(pending, t) /\ UNCHANGED pending
    \/ \E i \in 1..Len(pending) : pending[i] = t /\ pending' = RemoveAt(pending, i)

-----------------------------------------------------------------------------
(* Generations, the two promise chains, and the end of a job. *)

\* Mutant: an old generation goes on as if it were the current one.
Current_Assumed(j) == TRUE
Current(j) == job[j].gen = gen
Goto(j, label) == pc' = [pc EXCEPT ![j] = label]

\* beginSessionTransition, with what it does to the store in the same turn.
Transition(to) ==
    /\ gen < MaxGen /\ gen' = gen + 1
    /\ inFlight' = None
    /\ store' = to

\* withRevocationLock: one task of the chain.  by is None for a flush, which
\* works through a copy of the pending list.
Task(by, list) == [by |-> by, list |-> list, st |-> "start"]
Revoke(j, t) == revQ' = Append(revQ, Task(j, <<t>>)) /\ owed' = owed \cup {t}
Flushing == \E i \in 1..Len(revQ) : revQ[i].by = None
\* Mutant: nobody flushes.
Flush_Never(q) == q

Flush(q) == IF Flushing THEN q ELSE Append(q, Task(None, <<>>))
Revoked(j) == \A i \in 1..Len(revQ) : revQ[i].by # j

\* withCredentialLock: a call runs when those before it are over.
Enter(j) == credQ' = Append(credQ, j)
Turn(j) == credQ # <<>> /\ Head(credQ) = j
Leave == credQ' = Tail(credQ)

\* The job is over; a request that waits for its refresh hears of it.
Settle(j, tok) ==
    /\ Goto(j, "idle") /\ job' = [job EXCEPT ![j] = NoJob]
    /\ api' = IF api.pc = "refreshing" /\ api.reply = j
              THEN [api EXCEPT !.pc = IF tok = 0 THEN "failed" ELSE "refreshed",
                               !.tok = tok, !.reply = "none"]
              ELSE api
    /\ inFlight' = IF inFlight = j THEN None ELSE inFlight

\* What only the job itself and its place in the credential chain touch.
Quiet == UNCHANGED <<persistent, booted, revQ, keychain, server, ghosts, volatile>>

Begin(j, op, label) ==
    /\ pc[j] = "idle" /\ op \in Ops
    /\ Goto(j, label)

-----------------------------------------------------------------------------
(* Starting a job. *)

\* hydrateSession, when the app starts and from the Retry of an error screen or
\* of a screen that needs the network.
CanRetry == store.status \in {"restore_error", "offline"}
Hydrate(j) ==
    /\ ~booted \/ CanRetry
    /\ Begin(j, "hydrate", "read")
    /\ Transition([status |-> "loading", access |-> 0, user |-> None])
    /\ job' = [job EXCEPT ![j] = [NoJob EXCEPT !.op = "hydrate", !.gen = gen + 1]]
    /\ persistent' = TRUE /\ booted' = TRUE
    \* mounting the providers also flushes the revocations left by earlier runs
    /\ revQ' = IF booted THEN revQ ELSE Flush(revQ)
    /\ UNCHANGED <<volatile, credQ, api, keychain, server, ghosts>>

\* refreshSession for a caller of this generation: join the call in flight or
\* make one.
StartRefresh(j) ==
    /\ inFlight = None
    /\ Begin(j, "refresh", "read")
    /\ job' = [job EXCEPT ![j] = [NoJob EXCEPT !.op = "refresh", !.gen = gen]]
    /\ inFlight' = j

\* resumeOfflineSession: the network is back, or the banner is tapped.
Resume(j) ==
    /\ store.status = "offline"
    /\ StartRefresh(j)
    /\ UNCHANGED <<gen, persistent, store, volatile, booted, credQ, revQ, api,
                   keychain, server, ghosts>>

\* The network is gone: a signed-in user stays, read-only.
GoOffline ==
    /\ store.status = "authenticated" /\ "offline" \in Ops
    /\ store' = [store EXCEPT !.status = "offline", !.access = 0]
    /\ UNCHANGED <<gen, persistent, inFlight, volatile, booted, jobs, revQ, api,
                   keychain, server, ghosts>>

\* beginAuthentication, for a sign-in or a registration: one form, disabled
\* while its call is pending.
Login(j) ==
    /\ booted /\ store.status \in {"anonymous", "restore_error"}
    /\ \A k \in Jobs : job[k].op # "login"
    /\ Begin(j, "login", "clear")
    /\ Transition(SignedOut)
    /\ \E u \in Users, keep \in BOOLEAN :
         job' = [job EXCEPT ![j] = [NoJob EXCEPT !.op = "login", !.gen = gen + 1,
                                                 !.user = u, !.remember = keep]]
    /\ Enter(j)
    /\ UNCHANGED <<persistent, volatile, booted, revQ, api, keychain, server, ghosts>>

\* logoutSession reads the token it will revoke before anything changes.
Logout(j) ==
    /\ store.status \in {"authenticated", "offline"}
    /\ \A k \in Jobs : job[k].op # "logout"
    /\ Begin(j, "logout", "read")
    /\ job' = [job EXCEPT ![j] = [NoJob EXCEPT !.op = "logout", !.gen = gen]]
    /\ UNCHANGED <<memory, credQ, revQ, api, keychain, server, ghosts>>

-----------------------------------------------------------------------------
(* The steps of hydrate, refresh and login up to the answer. *)

\* A job whose session is ended: the store and the generation in one turn, the
\* keychain once the chain lets it.  (invalidateAndClear, clearLocalSession)
Invalidate(j) ==
    /\ Transition(SignedOut)
    /\ job' = [job EXCEPT ![j].gen = gen + 1]
    /\ Goto(j, "clear") /\ Enter(j)

\* A hydrate that lost the generation simply stops; a refresh rejects.
GiveUp(j) ==
    /\ Settle(j, 0)
    /\ UNCHANGED <<gen, store, credQ>>

\* The await of readRefreshToken.
ReadToken(j) ==
    /\ pc[j] = "read" /\ job[j].op \in {"hydrate", "refresh"}
    /\ Quiet
    /\ LET t == CurrentToken IN
       \/ ~Current(j) /\ GiveUp(j)
       \/ /\ Current(j) /\ t = 0 /\ job[j].op = "hydrate"
          /\ Goto(j, "clear") /\ Enter(j)
          /\ UNCHANGED <<gen, inFlight, store, job, api>>
       \/ /\ Current(j) /\ t = 0 /\ job[j].op = "refresh"
          /\ Invalidate(j) /\ UNCHANGED api
       \/ /\ Current(j) /\ t # 0
          /\ job' = [job EXCEPT ![j].tok = t]
          /\ Goto(j, IF job[j].op = "hydrate" THEN "copy" ELSE "sent")
          /\ UNCHANGED <<gen, inFlight, store, credQ, api>>

\* readRefreshToken throws: hydrate reports it, refresh leaves things as they are.
ReadTokenFails(j) ==
    /\ pc[j] = "read" /\ job[j].op \in {"hydrate", "refresh"}
    /\ Fault /\ Settle(j, 0)
    /\ store' = IF Current(j) /\ job[j].op = "hydrate"
                THEN [status |-> "restore_error", access |-> 0, user |-> None]
                ELSE store
    /\ UNCHANGED <<gen, persistent, booted, volatile, credQ, revQ, keychain, server,
                   crashes, forgotten, owed, left>>

\* readCachedSession, whose failure counts as no copy.
ReadCopy(j) ==
    /\ pc[j] = "copy" /\ Goto(j, "sent")
    /\ \/ job' = [job EXCEPT ![j].copy = cached] /\ Sound
       \/ UNCHANGED job /\ Fault
    /\ UNCHANGED <<memory, credQ, revQ, api, keychain, server, crashes, forgotten, owed, left>>

\* The request reaches the server, whose answer may be lost on the way, or it
\* is lost itself (status 0, 429 or 5xx).
Serve(j) ==
    /\ pc[j] = "sent" /\ Goto(j, "answered")
    /\ \/ IF job[j].op = "login" THEN ServeLogin(j) ELSE ServeRefresh(j)
       \/ job' = [job EXCEPT ![j].reply = "failed"] /\ UNCHANGED server
    /\ UNCHANGED <<memory, credQ, revQ, api, keychain, ghosts>>
LoseAnswer(j) ==
    /\ pc[j] = "answered" /\ job[j].reply = "ok"
    /\ job' = [job EXCEPT ![j].reply = "failed", ![j].new = 0]
    /\ UNCHANGED <<memory, pc, credQ, revQ, api, keychain, server, ghosts>>

\* The failure branches of hydrateSession, refreshSession and loginSession.
OfflineCopy(j) == job[j].copy # 0 /\ job[j].copy = job[j].tok
Restored(j) == [status |-> IF OfflineCopy(j) THEN "offline" ELSE "restore_error",
                access |-> 0,
                user |-> IF OfflineCopy(j) THEN Owner(job[j].copy) ELSE None]
Fails(j) ==
    \/ ~Current(j) /\ GiveUp(j)
    \/ Current(j) /\ job[j].op = "login" /\ GiveUp(j)
    \/ /\ Current(j) /\ job[j].op # "login" /\ job[j].reply = "rejected"
       /\ Invalidate(j) /\ UNCHANGED api
    \/ /\ Current(j) /\ job[j].op = "refresh" /\ job[j].reply # "rejected"
       /\ GiveUp(j)
    \/ /\ Current(j) /\ job[j].op = "hydrate" /\ job[j].reply # "rejected"
       /\ Settle(j, 0) /\ store' = Restored(j)
       /\ UNCHANGED <<gen, credQ>>

Receive(j) ==
    /\ pc[j] = "answered" /\ Quiet
    /\ \/ /\ job[j].reply = "ok"
          /\ Goto(j, "accept") /\ Enter(j)
          /\ UNCHANGED <<gen, inFlight, store, job, api>>
       \/ job[j].reply # "ok" /\ Fails(j)

-----------------------------------------------------------------------------
(* acceptSession, under the credential lock. *)

\* A pair that came too late is revoked, never stored.
Accept(j) ==
    /\ pc[j] = "accept" /\ Turn(j)
    /\ LET t == job[j].new IN
       \/ /\ ~Current(j) /\ Revoke(j, t) /\ Goto(j, "reject")
          /\ UNCHANGED <<volatile, disk, faults>>
       \/ /\ Current(j) /\ WriteToken(t) /\ Goto(j, "written") /\ UNCHANGED <<revQ, owed>>
       \/ /\ Current(j) /\ WriteTokenFails(t) /\ Revoke(j, t) /\ Goto(j, "unwritten")
    /\ UNCHANGED <<gen, persistent, inFlight, store, booted, job, credQ, api, cached,
                   pending, server, crashes, forgotten, left>>

\* rejectSupersededSession: nothing of the late pair stays, here or there.
TakeBack(j) == RemoveStored /\ Revoke(j, job[j].new) /\ Goto(j, "reject")

\* The token is stored: is it still the session's?
Written(j) ==
    /\ pc[j] = "written"
    /\ IF Current(j)
       THEN /\ WriteCached(job[j].new) /\ Goto(j, "copied")
            /\ UNCHANGED <<volatile, disk, revQ, owed>>
       ELSE TakeBack(j)
    /\ UNCHANGED <<gen, persistent, inFlight, store, booted, job, credQ, api, pending,
                   server, crashes, forgotten, left>>

\* Mutant: the generation is not looked at again after the second write.
Copied_Unchecked(j) ==
    /\ pc[j] = "copied"
    /\ store' = [status |-> "authenticated", access |-> job[j].new, user |-> Owner(job[j].new)]
    /\ Settle(j, job[j].new) /\ Leave
    /\ revQ' = IF job[j].op = "hydrate" THEN Flush(revQ) ELSE revQ
    /\ UNCHANGED <<gen, persistent, volatile, booted, disk, cached, faults, owed,
                   pending, server, crashes, forgotten, left>>

\* The copy is stored as well: show the session, or take it back.
Copied(j) ==
    /\ pc[j] = "copied"
    /\ LET t == job[j].new IN
       \/ /\ ~Current(j) /\ TakeBack(j)
          /\ UNCHANGED <<gen, persistent, inFlight, store, booted, job, credQ, api>>
       \/ /\ Current(j)
          /\ store' = [status |-> "authenticated", access |-> t, user |-> Owner(t)]
          /\ Settle(j, t) /\ Leave
          /\ revQ' = IF job[j].op = "hydrate" THEN Flush(revQ) ELSE revQ
          /\ UNCHANGED <<gen, persistent, volatile, booted, disk, cached, faults, owed>>
    /\ UNCHANGED <<pending, server, crashes, forgotten, left>>

\* The revocation of a superseded pair is over, delivered or queued.
Reject(j) ==
    /\ pc[j] = "reject" /\ Revoked(j)
    /\ Settle(j, 0) /\ Leave
    /\ UNCHANGED <<gen, store, persistent, booted, revQ, keychain, server, ghosts, volatile>>

\* The keychain refused the token and its revocation is over: without it there
\* is no session, and what the keychain holds goes.  A revocation that threw
\* leaves things as they are, and so does a session already superseded.
Unwritten(j) ==
    /\ pc[j] = "unwritten" /\ Revoked(j)
    /\ IF Current(j) /\ job[j].clean
       THEN /\ RemoveStored /\ Goto(j, "unkept")
            /\ UNCHANGED <<inFlight, store, job, credQ, api>>
       ELSE /\ Settle(j, 0) /\ Leave
            /\ store' = IF Current(j) /\ job[j].op = "hydrate" THEN Restored(j) ELSE store
            /\ UNCHANGED <<volatile, disk, cached, faults>>
    /\ UNCHANGED <<gen, persistent, booted, revQ, pending, server, crashes, forgotten, owed, left>>

\* After the removals the store is cleared without another look at the
\* generation.  A hydrate that is still current then falls back on the copy it
\* read before.
Unkept(j) ==
    /\ pc[j] = "unkept"
    /\ Settle(j, 0) /\ Leave
    /\ store' = IF Current(j) /\ job[j].op = "hydrate" THEN Restored(j) ELSE SignedOut
    /\ UNCHANGED <<gen, persistent, booted, volatile, revQ, keychain, server, ghosts>>

-----------------------------------------------------------------------------
(* clearStoredSession, and signing out. *)

\* After the keychain is cleared: a sign-in goes on to the server, whatever has
\* become of its generation; a sign-out waits for its revocation.
AfterClear(j) ==
    \/ /\ job[j].op = "login" /\ Goto(j, "sent")
       /\ persistent' = job[j].remember
       /\ UNCHANGED <<inFlight, job, api>>
    \/ /\ job[j].op = "logout" /\ Goto(j, "join")
       /\ UNCHANGED <<persistent, inFlight, job, api>>
    \/ /\ job[j].op \notin {"login", "logout"} /\ Settle(j, 0)
       /\ UNCHANGED persistent

Clear(j) ==
    /\ pc[j] = "clear" /\ Turn(j)
    /\ \/ /\ Current(j) /\ RemoveStored /\ Goto(j, "wiped")
          /\ UNCHANGED <<persistent, inFlight, job, credQ, api>>
       \/ /\ ~Current(j) /\ Leave /\ AfterClear(j)
          /\ UNCHANGED <<volatile, disk, cached, faults>>
    /\ UNCHANGED <<gen, store, booted, revQ, pending, server, crashes, forgotten, owed, left>>

Empty == volatile = 0 /\ disk = 0 /\ cached = 0
Wiped(j) ==
    /\ pc[j] = "wiped"
    /\ Leave /\ AfterClear(j)
    /\ store' = IF Current(j) THEN SignedOut ELSE store
    /\ left' = IF job[j].op = "logout" /\ job[j].tok # 0 /\ Empty
               THEN left \cup {Family(job[j].tok)} ELSE left
    /\ UNCHANGED <<gen, booted, volatile, revQ, keychain, server, crashes, faults,
                   forgotten, owed>>

\* logoutSession, once it has the token (none, if the keychain would not say).
LeaveSession(j) ==
    /\ pc[j] = "read" /\ job[j].op = "logout"
    /\ Transition(SignedOut)
    /\ \E t \in {CurrentToken, 0} :
         /\ IF t = CurrentToken THEN Sound ELSE Fault
         /\ job' = [job EXCEPT ![j].gen = gen + 1, ![j].tok = t]
         /\ IF t # 0 THEN Revoke(j, t) ELSE UNCHANGED <<revQ, owed>>
    /\ Goto(j, "clear") /\ Enter(j)
    /\ UNCHANGED <<persistent, volatile, booted, api, keychain, server, crashes,
                   forgotten, left>>

Join(j) ==
    /\ pc[j] = "join" /\ Revoked(j)
    /\ Settle(j, 0)
    /\ UNCHANGED <<gen, persistent, store, volatile, booted, credQ, revQ, keychain,
                   server, ghosts>>

\* clearLocalSession, after a password reset whose link ended every session of
\* its account.
EndAll(u) == ended' = ended \cup {Family(t) : t \in OwnedBy(u)}
StartClear(j) ==
    /\ Begin(j, "clear", "clear") /\ Transition(SignedOut) /\ Enter(j)
    /\ job' = [job EXCEPT ![j] = [NoJob EXCEPT !.op = "clear", !.gen = gen + 1]]
Reset(j) ==
    /\ booted /\ "reset" \in Ops /\ StartClear(j)
    /\ \E u \in Users : EndAll(u)
    /\ UNCHANGED <<persistent, volatile, booted, revQ, api, keychain, issued, spent,
                   deleted, ghosts>>

-----------------------------------------------------------------------------
(* The revocation chain: revokeOrQueue and flushPendingLogoutRevocations. *)

Busy == revQ # <<>>
First == Head(revQ)
IsFlush == First.by = None
Now(st) == revQ' = [revQ EXCEPT ![1].st = st]
NextToken ==
    revQ' = IF Len(First.list) > 1
            THEN [revQ EXCEPT ![1].list = Tail(@), ![1].st = "sent"]
            ELSE Tail(revQ)
Over == revQ' = Tail(revQ)
RevOnly == UNCHANGED <<memory, pc, credQ, api, disk, cached, issued, spent, deleted,
                       crashes, owed, left>>

\* A flush reads the list when its turn comes.
RevokeStart ==
    /\ Busy /\ First.st = "start"
    /\ revQ' = IF ~IsFlush THEN [revQ EXCEPT ![1].st = "sent"]
               ELSE IF pending = <<>> THEN Tail(revQ)
               ELSE [revQ EXCEPT ![1].st = "sent", ![1].list = pending]
    /\ UNCHANGED <<memory, jobs, api, keychain, server, ghosts>>

\* mobile_logout answers 200 whatever the token is worth.
Revocation == LET t == Head(First.list) IN
    ended' = IF t \in deleted THEN ended ELSE ended \cup {Family(t)}
RevokeServed ==
    /\ Busy /\ First.st = "sent" /\ Revocation /\ Now("gone")
    /\ RevOnly /\ UNCHANGED <<job, pending, faults, forgotten>>
\* Mutant: a failed call counts as delivered.
RevokeUnsure_Assumed ==
    /\ Busy /\ First.st = "sent" /\ Now("gone")
    /\ Revocation \/ UNCHANGED ended
    /\ RevOnly /\ UNCHANGED <<job, pending, faults, forgotten>>

RevokeUnsure ==
    /\ Busy /\ First.st = "sent" /\ Now("kept")
    /\ Revocation \/ UNCHANGED ended
    /\ RevOnly /\ UNCHANGED <<job, pending, faults, forgotten>>

\* Delivered: take it off the list.  A keychain that fails counts as a failed
\* delivery.
RevokeGone ==
    /\ Busy /\ First.st = "gone"
    /\ \/ Unqueue(Head(First.list)) /\ NextToken /\ Sound
       \/ Fault /\ Now("kept") /\ UNCHANGED pending
    /\ RevOnly /\ UNCHANGED <<job, ended, forgotten>>

\* Not delivered, as far as the app knows: put it on the list, or stop the flush.
RevokeKept ==
    /\ Busy /\ First.st = "kept" /\ Over
    /\ \/ IsFlush /\ Sound /\ UNCHANGED <<pending, forgotten, job>>
       \/ ~IsFlush /\ Queue(Head(First.list)) /\ Sound /\ UNCHANGED job
       \/ /\ ~IsFlush /\ Fault /\ UNCHANGED pending
          /\ forgotten' = forgotten \cup {Head(First.list)}
          /\ job' = [job EXCEPT ![First.by].clean = FALSE]
    /\ RevOnly /\ UNCHANGED ended

\* The app comes to the foreground, or its connection comes back.
Foreground ==
    /\ booted /\ "foreground" \in Ops /\ ~Flushing
    /\ revQ' = Flush(revQ)
    /\ UNCHANGED <<memory, jobs, api, keychain, server, ghosts>>

-----------------------------------------------------------------------------
(* apiRequest. *)

ApiOnly == UNCHANGED <<persistent, volatile, booted, revQ, keychain, ghosts>>

\* A call of the signed-in user; all is a password change, an account deletion
\* or a sign-out everywhere.
Ask ==
    /\ api.pc = "idle" /\ "api" \in Ops /\ store.status = "authenticated"
    /\ \E all \in BOOLEAN :
         api' = [NoApi EXCEPT !.pc = "sent", !.gen = gen, !.user = store.user,
                              !.tok = store.access, !.all = all]
    /\ UNCHANGED <<memory, jobs, revQ, keychain, server, ghosts>>

\* An access token dies with its session, or of age.
ApiServe ==
    /\ api.pc = "sent"
    /\ \/ /\ Good(api.tok)
          /\ \E r \in {"ok", "failed"} : api' = [api EXCEPT !.pc = "answered", !.reply = r]
          /\ IF api.all THEN EndAll(api.user) ELSE UNCHANGED ended
       \/ /\ \E r \in {"rejected", "failed"} : api' = [api EXCEPT !.pc = "answered", !.reply = r]
          /\ UNCHANGED ended
    /\ UNCHANGED <<memory, jobs, revQ, keychain, issued, spent, deleted, ghosts>>

\* Mutant: an answer is taken without asking whose it is.
SameGeneration_Unasked == TRUE

SameGeneration == api.gen = gen
ApiFails == api' = [api EXCEPT !.pc = "failed", !.reply = "none"]
MayRefresh == /\ SameGeneration /\ ~api.retried /\ api.reply = "rejected"
              /\ store.status = "authenticated"

\* The answer is handed to its caller, or refused as another session's.
Deliver ==
    /\ api.pc = "answered" /\ api.reply = "ok" /\ SameGeneration
    /\ api' = [api EXCEPT !.pc = "delivered"]
    /\ IF api.all THEN \E j \in Jobs : StartClear(j)
                  ELSE UNCHANGED <<gen, inFlight, store, jobs>>
    /\ ApiOnly /\ UNCHANGED server
Refuse ==
    /\ api.pc = "answered" /\ ~(api.reply = "ok" /\ SameGeneration) /\ ~MayRefresh
    /\ ApiFails
    /\ UNCHANGED <<memory, jobs, revQ, keychain, server, ghosts>>

\* One refresh, shared with whoever asked for it first.
RefreshFirst ==
    /\ api.pc = "answered" /\ MayRefresh
    /\ \/ /\ inFlight # None
          /\ api' = [api EXCEPT !.pc = "refreshing", !.reply = inFlight]
          /\ UNCHANGED <<memory, jobs>>
       \/ \E j \in Jobs :
            /\ StartRefresh(j)
            /\ api' = [api EXCEPT !.pc = "refreshing", !.reply = j]
            /\ UNCHANGED <<gen, persistent, store, volatile, booted, credQ>>
    /\ UNCHANGED <<revQ, keychain, server, ghosts>>

Retry ==
    /\ api.pc = "refreshed"
    /\ IF SameGeneration THEN api' = [api EXCEPT !.pc = "sent", !.retried = TRUE]
                         ELSE ApiFails
    /\ UNCHANGED <<memory, jobs, revQ, keychain, server, ghosts>>

\* The caller has the outcome.
ApiDone ==
    /\ api.pc \in {"delivered", "failed"}
    /\ api' = NoApi
    /\ UNCHANGED <<memory, jobs, revQ, keychain, server, ghosts>>

-----------------------------------------------------------------------------

\* The process is killed: what was in memory is gone.
Crash ==
    /\ crashes < MaxCrashes /\ crashes' = crashes + 1
    /\ gen' = 0 /\ persistent' = TRUE /\ inFlight' = None /\ volatile' = 0 /\ booted' = FALSE
    /\ store' = [status |-> "loading", access |-> 0, user |-> None]
    /\ pc' = [j \in Jobs |-> "idle"] /\ job' = [j \in Jobs |-> NoJob]
    /\ credQ' = <<>> /\ revQ' = <<>> /\ api' = NoApi
    /\ forgotten' = forgotten \cup
         UNION {ToSet(revQ[i].list) : i \in {k \in 1..Len(revQ) : revQ[k].by # None}}
    /\ UNCHANGED <<keychain, server, faults, owed, left>>

Start(j) == Hydrate(j) \/ Resume(j) \/ Login(j) \/ Logout(j) \/ Reset(j)
Step(j) ==
    \/ ReadToken(j) \/ ReadTokenFails(j) \/ ReadCopy(j) \/ Serve(j) \/ LoseAnswer(j)
    \/ Receive(j) \/ Accept(j) \/ Written(j) \/ Copied(j) \/ Reject(j) \/ Unwritten(j)
    \/ Unkept(j) \/ Clear(j) \/ Wiped(j) \/ LeaveSession(j) \/ Join(j)
RevokeStep == RevokeStart \/ RevokeServed \/ RevokeUnsure \/ RevokeGone \/ RevokeKept
ApiStep == Ask \/ ApiServe \/ Deliver \/ Refuse \/ RefreshFirst \/ Retry \/ ApiDone

Next ==
    \/ \E j \in Jobs : Start(j) \/ Step(j)
    \/ RevokeStep \/ Foreground \/ ApiStep
    \/ GoOffline \/ EndElsewhere \/ Crash

Spec == Init /\ [][Next]_vars

\* The user opens the app again and again, and a request sent again and again
\* is answered.
FairSpec ==
    /\ Spec
    /\ WF_vars(\E j \in Jobs : ~booted /\ Hydrate(j)) /\ WF_vars(Foreground)
    /\ WF_vars(RevokeStep) /\ SF_vars(RevokeServed)

-----------------------------------------------------------------------------
(* Properties. *)

JobType ==
    [op : OpNames \cup {"none"}, gen : 0..MaxGen, user : Users \cup {None},
     tok : Tokens \cup {0}, copy : Tokens \cup {0}, new : Tokens \cup {0},
     reply : {"none", "ok", "rejected", "failed"}, remember : BOOLEAN, clean : BOOLEAN]
Labels == {"idle", "read", "copy", "sent", "answered", "accept", "written", "copied",
           "reject", "unwritten", "unkept", "clear", "wiped", "join"}

\* Every variable keeps its type: the stores, the jobs of session.ts, the two
\* chains, the keychain and the server.
TypeOK ==
    /\ gen \in 0..MaxGen /\ persistent \in BOOLEAN /\ booted \in BOOLEAN
    /\ inFlight \in Jobs \cup {None} /\ volatile \in Tokens \cup {0}
    /\ store \in [status : Status, access : Tokens \cup {0}, user : Users \cup {None}]
    /\ pc \in [Jobs -> Labels] /\ job \in [Jobs -> JobType]
    /\ credQ \in Seq(Jobs)
    /\ disk \in Tokens \cup {0} /\ cached \in Tokens \cup {0} /\ pending \in Seq(Tokens)
    /\ issued \in Seq([user : Users, family : Tokens]) /\ Len(issued) <= MaxTokens
    /\ spent \subseteq Tokens /\ deleted \subseteq Tokens /\ ended \subseteq Tokens
    /\ crashes \in 0..MaxCrashes /\ faults \in 0..MaxFaults
    /\ forgotten \subseteq Tokens /\ owed \subseteq Tokens /\ left \subseteq Tokens

\* A signed-in app can renew what it shows: the refresh token the next rotation
\* sends is of the sign-in on screen, whatever sign-ins, sign-outs, refreshes,
\* restores, kills and keychain failures have overlapped.  The one exception is
\* the moment in which acceptSession, its own write refused, has emptied the
\* keychain and is about to clear the store.
Giving == \E j \in Jobs : pc[j] = "unkept"
SignedInIsStored ==
    store.status = "authenticated" /\ ~Giving =>
        /\ CurrentToken # 0 /\ store.access # 0
        /\ Family(CurrentToken) = Family(store.access)
        /\ store.user = Owner(store.access)

\* A session signed out of, with the keychain emptied, is never on screen or in
\* the keychain again, not by a refresh that was under way, a restore that had
\* read the old copy, or a restart.
LoggedOutStaysOut ==
    /\ store.access # 0 => Family(store.access) \notin left
    /\ \A t \in {disk, volatile, cached} \ {0} : Family(t) \notin left

\* A token the app has to revoke (a sign-out's, or a pair that came too late) is
\* revoked on the server, in the hands of the revocation chain, on the list for
\* the next start, or one of those the bounded list, a kill or a keychain
\* failure made the app forget.
RevocationNotLost ==
    \A t \in owed :
        \/ ~Good(t) \/ t \in ToSet(pending) \/ t \in forgotten
        \/ \E i \in 1..Len(revQ) : t \in ToSet(revQ[i].list)

\* An answer reaches its caller only while the account that asked is the one
\* on screen, or nobody is.
AnswerReachesItsAccount ==
    [][api'.pc = "delivered" /\ api.pc # "delivered"
         => store.user \in {api.user, None}]_vars

\* A revocation on the list is delivered or dropped in the end.
QueuedIsRevoked ==
    \A t \in Tokens : t \in ToSet(pending) ~> t \notin ToSet(pending)

=============================================================================
