----------------------------- MODULE Encryption -----------------------------
(***************************************************************************)
(* The end-to-end identities of the accounts: the directory and the sealed *)
(* backup the server keeps (routes/encryption.rs), the device that makes,  *)
(* stores, restores and re-seals an identity (lib/crypto/session.ts,       *)
(* hooks/useEncryption.ts, store/encryption.ts and their mobile twins),    *)
(* and the rule by which a message is sealed (useSendMessage,              *)
(* routes/messages.rs).                                                    *)
(*                                                                         *)
(* Cryptography is ideal: an identity and a recovery code are numbers, a   *)
(* backup opens with its own code and with no other, a signature names the *)
(* identity that made it. A browser derives the wrapping key in a worker,  *)
(* so the person can sign out meanwhile; a phone derives it in one turn.   *)
(***************************************************************************)
EXTENDS Naturals, FiniteSets

CONSTANTS
  Accounts,      \* the people
  Devices,       \* browsers and phones, each used by anybody
  Phones,        \* the devices running the mobile client
  MaxMade,       \* bound: identities and codes ever generated
  MaxSessions,   \* bound: sign-ins and restarts of each device
  MaxMessages    \* bound: messages ever stored

ASSUME BoundsAssumption == /\ Phones \subseteq Devices
                           /\ MaxMade \in Nat /\ MaxSessions \in [Devices -> Nat]
                           /\ MaxMessages \in Nat

None == "none"
Ids == 0..MaxMade                      \* 0 is no identity, or one wiped from memory

VARIABLES
  listed,      \* user_identity_keys: the identity the directory lists
  backup,      \* user_key_backups: the identity sealed, the code that opens it
  messages,    \* direct_messages, with what the server knew when it took them
  who,         \* the session of each device
  sessions,    \* sessions begun so far on each device
  due,         \* useKeyStatus is to be asked
  status, loaded,   \* useEncryptionStore
  stored,      \* the identities kept on the device, by account
  job,         \* the mutation a device is running
  made,        \* identities and codes generated so far
  knows,       \* the recovery codes each person has been shown
  everListed,  \* the identities each account has listed
  authorised,  \* the identities published with the password
  strayed      \* the identities published by another session than their own

server  == <<listed, backup, messages, everListed, authorised, strayed>>
device  == <<who, sessions, due, status, loaded>>
history == <<made, knows>>
vars    == <<server, device, stored, job, history>>

NoJob == [op |-> None, acct |-> None, as |-> None, live |-> TRUE, at |-> "idle",
          id |-> 0, code |-> 0, seen |-> {}, box |-> {}, during |-> {},
          to |-> None, both |-> FALSE]
NoBackup == [id |-> 0, code |-> 0]

Init ==
  /\ listed = [a \in Accounts |-> 0] /\ backup = [a \in Accounts |-> NoBackup]
  /\ messages = {} /\ who = [d \in Devices |-> None]
  /\ sessions = [d \in Devices |-> 0]
  /\ due = [d \in Devices |-> TRUE]
  /\ status = [d \in Devices |-> "loading"] /\ loaded = [d \in Devices |-> 0]
  /\ stored = [d \in Devices |-> [a \in Accounts |-> 0]]
  /\ job = [d \in Devices |-> NoJob]
  /\ made = 0 /\ knows = [a \in Accounts |-> {}]
  /\ everListed = [a \in Accounts |-> {}] /\ authorised = {} /\ strayed = {}

(***************************************************************************)
(* The session of a device and what its encryption store makes of it.      *)
(***************************************************************************)
SignedIn(d) == who[d] # None
Idle(d) == job[d].op = None
\* A phone derives the wrapping key in one turn of its event loop.
Deriving(d) == d \in Phones /\ job[d].at = "derive"
SetJob(d, j) == job' = [job EXCEPT ![d] = j]
EndJob(d) == SetJob(d, NoJob)

\* Nothing of the session before survives in memory; an answer that is due is
\* not called off, and an identity a rotation holds is wiped under it.
DropMemory(d) ==
  /\ due' = [due EXCEPT ![d] = TRUE]
  /\ status' = [status EXCEPT ![d] = "loading"] /\ loaded' = [loaded EXCEPT ![d] = 0]

NewSession(d) == /\ sessions[d] < MaxSessions[d]
                 /\ sessions' = [sessions EXCEPT ![d] = @ + 1]

SignIn(d, a) ==
  /\ ~SignedIn(d) /\ NewSession(d)
  /\ who' = [who EXCEPT ![d] = a]
  /\ UNCHANGED <<server, due, status, loaded, stored, job, history>>

\* Forgetting the keys with the session is offered by the browser alone.
SignOut(d, forget) ==
  /\ SignedIn(d) /\ ~Deriving(d)
  /\ forget => d \notin Phones
  /\ DropMemory(d) /\ who' = [who EXCEPT ![d] = None]
  /\ stored' = IF forget THEN [stored EXCEPT ![d][who[d]] = 0] ELSE stored
  /\ SetJob(d, [job[d] EXCEPT !.live = Idle(d),
                              !.id = IF job[d].op = "rotate" /\ job[d].at = "derive"
                                     THEN 0 ELSE @])
  /\ UNCHANGED <<server, sessions, history>>

\* The tab or the app is closed and opened again: the session is restored.
Restart(d) ==
  /\ SignedIn(d) /\ NewSession(d)
  /\ DropMemory(d) /\ EndJob(d)
  /\ UNCHANGED <<server, who, stored, history>>

\* useKeyStatus is asked once a session, and again when a mutation says so; its
\* answer runs the effect of useEncryptionSession. A device that turns out locked
\* keeps the identity it had loaded.
Decide(d) ==
  /\ SignedIn(d) /\ due[d]
  /\ LET a == who[d]
         kept == stored[d][a]
         usable == kept # 0 /\ listed[a] \in {0, kept}
     IN  /\ loaded' = IF usable THEN [loaded EXCEPT ![d] = kept] ELSE loaded
         /\ status' = [status EXCEPT ![d] = IF usable THEN "ready"
                                            ELSE IF listed[a] = 0 THEN "absent"
                                            ELSE "locked"]
  /\ due' = [due EXCEPT ![d] = FALSE]
  /\ UNCHANGED <<server, who, sessions, stored, job, history>>

(***************************************************************************)
(* What the server writes.                                                 *)
(***************************************************************************)
\* Publishing: the directory entry and the backup, in one transaction.
List(a, id, code) ==
  /\ listed' = [listed EXCEPT ![a] = id]
  /\ backup' = [backup EXCEPT ![a] = [id |-> id, code |-> code]]
  /\ everListed' = [everListed EXCEPT ![a] = @ \cup {id}]

\* Jobs that are reading while the directory changes will have seen both.
Witnessed(a, id) ==
  [e \in Devices |-> IF job[e].op = "restore" /\ job[e].as = a
                     THEN [job[e] EXCEPT !.during = @ \cup {id}] ELSE job[e]]

\* The person replaces the keys with the password, on a client that asks for it.
Replace(a) ==
  /\ listed[a] # 0 /\ made < MaxMade
  /\ made' = made + 1
  /\ List(a, made', made')
  /\ authorised' = authorised \cup {made'}
  /\ knows' = [knows EXCEPT ![a] = @ \cup {made'}]
  /\ job' = Witnessed(a, made')
  /\ UNCHANGED <<messages, strayed, device, stored>>

(***************************************************************************)
(* Setting up: a request that looks whether there are keys before it       *)
(* writes, the save on the device, and the two callbacks of the mutation.  *)
(***************************************************************************)
StartSetup(d) ==
  /\ SignedIn(d) /\ status[d] = "absent" /\ Idle(d) /\ made < MaxMade
  /\ made' = made + 1
  /\ SetJob(d, [NoJob EXCEPT !.op = "setup", !.acct = who[d], !.at = "derive",
                             !.id = made', !.code = made'])
  /\ UNCHANGED <<server, device, stored, knows>>

\* A new code for the identity in the store, whoever's it is.
StartRotate(d) ==
  /\ SignedIn(d) /\ status[d] = "ready" /\ loaded[d] # 0 /\ Idle(d) /\ made < MaxMade
  /\ made' = made + 1
  /\ SetJob(d, [NoJob EXCEPT !.op = "rotate", !.acct = who[d], !.at = "derive",
                             !.id = loaded[d], !.code = made'])
  /\ UNCHANGED <<server, device, stored, knows>>

\* The wrapping key is derived and the request goes out in the session of now.
Put(d) ==
  /\ job[d].at = "derive" /\ job[d].op # "restore"
  /\ IF SignedIn(d)
       THEN SetJob(d, [job[d] EXCEPT !.as = who[d], !.live = TRUE, !.at = "ask"])
       ELSE EndJob(d)
  /\ UNCHANGED <<server, device, stored, history>>

\* `replacing`, read before the transaction: the client never sends a password
\* with a publication, so one that would replace is turned away.
Ask(d) ==
  /\ job[d].at = "ask" /\ job[d].op = "setup"
  /\ IF listed[job[d].as] = 0 THEN SetJob(d, [job[d] EXCEPT !.at = "publish"]) ELSE EndJob(d)
  /\ UNCHANGED <<server, device, stored, history>>

\* Without `WHERE $5` the upsert replaces whatever row is there.
Publish_Upserts(d) ==
  /\ job[d].at = "publish"
  /\ List(job[d].as, job[d].id, job[d].code)
  /\ strayed' = IF job[d].as = job[d].acct THEN strayed ELSE strayed \cup {job[d].id}
  /\ SetJob(d, [job[d] EXCEPT !.at = "answer"])
  /\ UNCHANGED <<messages, authorised, device, stored, history>>

\* The upsert writes nothing where a row has appeared since, and the loser is
\* told to start again.
Publish(d) ==
  /\ job[d].at = "publish"
  /\ LET a == job[d].as
     IN  IF listed[a] = 0
           THEN /\ List(a, job[d].id, job[d].code)
                /\ strayed' = IF a = job[d].acct THEN strayed ELSE strayed \cup {job[d].id}
                /\ SetJob(d, [job[d] EXCEPT !.at = "answer"])
           ELSE EndJob(d) /\ UNCHANGED <<listed, backup, everListed, strayed>>
  /\ UNCHANGED <<messages, authorised, device, stored, history>>

\* Re-sealing asks for the password of the account it is made in, and for a
\* backup to replace. What the blob holds the server cannot see.
Rewrap(d) ==
  /\ job[d].at = "ask" /\ job[d].op = "rotate"
  /\ LET a == job[d].as
     IN  IF a = job[d].acct /\ backup[a] # NoBackup
           THEN /\ backup' = [backup EXCEPT ![a] = [id |-> job[d].id, code |-> job[d].code]]
                /\ SetJob(d, [job[d] EXCEPT !.at = "answer"])
           ELSE EndJob(d) /\ UNCHANGED backup
  /\ UNCHANGED <<listed, messages, everListed, authorised, strayed, device, stored, history>>

\* A request or its answer is lost, or the write to the device's storage fails.
Lose(d) ==
  /\ job[d].at \in {"ask", "publish", "answer", "read", "save", "deliver"}
  /\ EndJob(d)
  /\ UNCHANGED <<server, device, stored, history>>

\* A phone throws an answer away when the session it was asked in has ended.
Heard(d) == d \in Phones => job[d].live

\* The new code of a rotation is shown on the settings card, if it is still there.
Rotated(d) ==
  /\ job[d].at = "answer" /\ job[d].op = "rotate"
  /\ EndJob(d)
  /\ knows' = IF job[d].live
                THEN [knows EXCEPT ![job[d].acct] = @ \cup {job[d].code}] ELSE knows
  /\ UNCHANGED <<server, device, stored, made>>

\* saveIdentity is under way once setupIdentity has its answer, or restoreIdentity
\* has opened the backup.
Saving(d) == \/ job[d].at = "save"
             \/ job[d].at = "answer" /\ job[d].op = "setup" /\ Heard(d)

\* The account is read from the store when the identity is saved.
Save_UnderTheSession(d) ==
  /\ Saving(d) /\ SignedIn(d)
  /\ stored' = [stored EXCEPT ![d][who[d]] = job[d].id]
  /\ SetJob(d, [job[d] EXCEPT !.at = "saved"])
  /\ UNCHANGED <<server, device, history>>

\* It saves under the account the job was started for.
Save(d) ==
  /\ Saving(d)
  /\ stored' = [stored EXCEPT ![d][job[d].acct] = job[d].id]
  /\ SetJob(d, [job[d] EXCEPT !.at = "saved"])
  /\ UNCHANGED <<server, device, history>>

\* onSuccess of the hook: the identity goes into the store of the session of
\* now, and the key status is asked for again.
Saved(d) ==
  /\ job[d].at = "saved"
  /\ loaded' = [loaded EXCEPT ![d] = job[d].id]
  /\ status' = [status EXCEPT ![d] = "ready"]
  /\ due' = [due EXCEPT ![d] = TRUE]
  /\ IF job[d].op = "setup" THEN SetJob(d, [job[d] EXCEPT !.at = "report"]) ELSE EndJob(d)
  /\ UNCHANGED <<server, who, sessions, stored, history>>

\* onSuccess of the form, which is there as long as the gate draws it.
Report(d) ==
  /\ job[d].at = "report"
  /\ EndJob(d)
  /\ knows' = IF status[d] = "absent"
                THEN [knows EXCEPT ![job[d].acct] = @ \cup {job[d].code}] ELSE knows
  /\ UNCHANGED <<server, device, stored, made>>

(***************************************************************************)
(* Restoring: the backup and the key status are read at the same time.     *)
(***************************************************************************)
StartRestore(d, code) ==
  /\ SignedIn(d) /\ status[d] = "locked" /\ Idle(d)
  /\ code \in knows[who[d]] \cup {0}
  /\ SetJob(d, [NoJob EXCEPT !.op = "restore", !.acct = who[d], !.as = who[d],
                             !.at = "read", !.code = code,
                             !.during = {listed[who[d]]}])
  /\ UNCHANGED <<server, device, stored, history>>

ReadBackup(d) ==
  /\ job[d].at = "read" /\ job[d].box = {}
  /\ IF backup[job[d].as] = NoBackup THEN EndJob(d)
     ELSE SetJob(d, [job[d] EXCEPT !.box = {backup[job[d].as]}])
  /\ UNCHANGED <<server, device, stored, history>>

ReadStatus(d) ==
  /\ job[d].at = "read" /\ job[d].seen = {}
  /\ SetJob(d, [job[d] EXCEPT !.seen = {listed[job[d].as]}])
  /\ UNCHANGED <<server, device, stored, history>>

\* The copy opens with its own code, and must be of the keys that are listed.
Opens_Trusting(j) == \E box \in j.box : box.code = j.code
Opens(j) == \E box \in j.box : box.code = j.code /\ j.seen \subseteq {0, box.id}

Unwrap(d) ==
  /\ job[d].at = "read" /\ job[d].box # {} /\ job[d].seen # {}
  /\ IF Heard(d) /\ Opens(job[d])
       THEN \E box \in job[d].box : SetJob(d, [job[d] EXCEPT !.at = "save", !.id = box.id])
       ELSE EndJob(d)
  /\ UNCHANGED <<server, device, stored, history>>

(***************************************************************************)
(* Sending.                                                                *)
(***************************************************************************)
\* What usePeerKeys may hold: the keys of now, an answer up to five minutes old,
\* or, where the lookup failed, "no keys".
PeerKeys(a) == everListed[a] \cup {0}

\* Sealed when the peer has keys, with whatever identity is loaded, which must
\* not be the peer's; in the clear when the peer has none; not at all without an
\* identity.
\* `seen` is the peer's key, `id` the key that signs.
Compose(d, a) ==
  /\ SignedIn(d) /\ who[d] # a /\ Idle(d)
  /\ \E peer \in PeerKeys(a) :
       /\ peer # 0 => loaded[d] \notin {peer, 0}
       /\ SetJob(d, [NoJob EXCEPT !.op = "send", !.acct = who[d], !.as = who[d], !.to = a,
                                  !.at = "deliver", !.seen = {peer} \ {0},
                                  !.id = IF peer = 0 THEN 0 ELSE loaded[d],
                                  !.both = listed[who[d]] # 0 /\ listed[a] # 0])
  /\ UNCHANGED <<server, device, stored, history>>

\* The server keeps the signature without checking it.
Accepts_Unchecked(j) ==
  IF j.seen = {} THEN listed[j.as] = 0 \/ listed[j.to] = 0 ELSE listed[j.as] # 0

\* Plain text is refused once both have keys, and an envelope whose signature
\* is not by the key the sender lists.
Accepts(j) ==
  IF j.seen = {} THEN listed[j.as] = 0 \/ listed[j.to] = 0
                 ELSE listed[j.as] # 0 /\ j.id = listed[j.as]

Deliver(d) ==
  /\ job[d].at = "deliver" /\ Cardinality(messages) < MaxMessages
  /\ EndJob(d)
  /\ messages' = IF Accepts(job[d])
                   THEN messages \cup {[from |-> job[d].as, to |-> job[d].to,
                                        sealed |-> job[d].seen, signer |-> job[d].id,
                                        both |-> job[d].both]}
                   ELSE messages
  /\ UNCHANGED <<listed, backup, everListed, authorised, strayed, device, stored, history>>

-----------------------------------------------------------------------------
DeviceStep(d) ==
  \/ \E a \in Accounts : SignIn(d, a) \/ Compose(d, a)
  \/ \E forget \in BOOLEAN : SignOut(d, forget)
  \/ Restart(d) \/ Decide(d)
  \/ StartSetup(d) \/ StartRotate(d) \/ Put(d) \/ Rotated(d)
  \/ Save(d) \/ Saved(d) \/ Report(d) \/ Lose(d)
  \/ \E code \in Ids : StartRestore(d, code)
  \/ ReadBackup(d) \/ ReadStatus(d) \/ Unwrap(d)

ServerStep(d) == Ask(d) \/ Publish(d) \/ Rewrap(d) \/ Deliver(d)

Next == \/ \E d \in Devices : DeviceStep(d) \/ ServerStep(d)
        \/ \E a \in Accounts : Replace(a)

Spec == Init /\ [][Next]_vars

-----------------------------------------------------------------------------
JobSet == [op : {None, "setup", "rotate", "restore", "send"},
           acct : Accounts \cup {None}, as : Accounts \cup {None}, live : BOOLEAN,
           at : {"idle", "derive", "ask", "publish", "answer", "read", "save", "saved",
                 "report", "deliver"},
           id : Ids, code : Ids, seen : SUBSET Ids, box : SUBSET [id : Ids, code : Ids],
           during : SUBSET Ids, to : Accounts \cup {None}, both : BOOLEAN]
MessageSet == [from : Accounts, to : Accounts, sealed : SUBSET Ids, signer : Ids,
               both : BOOLEAN]

ServerTypes ==
  /\ listed \in [Accounts -> Ids] /\ backup \in [Accounts -> [id : Ids, code : Ids]]
  /\ messages \subseteq MessageSet
  /\ IsFiniteSet(messages) /\ Cardinality(messages) <= MaxMessages
  /\ everListed \in [Accounts -> SUBSET Ids]
  /\ authorised \subseteq Ids /\ strayed \subseteq Ids
DeviceTypes ==
  /\ who \in [Devices -> Accounts \cup {None}]
  /\ sessions \in [Devices -> Nat] /\ \A d \in Devices : sessions[d] <= MaxSessions[d]
  /\ due \in [Devices -> BOOLEAN]
  /\ status \in [Devices -> {"loading", "ready", "locked", "absent"}]
  /\ loaded \in [Devices -> Ids] /\ stored \in [Devices -> [Accounts -> Ids]]
  /\ made \in Ids /\ knows \in [Accounts -> SUBSET Ids]

(* Every variable keeps its type, a session that has ended leaves no answer of
   its own in the cache, and a job belongs to somebody. *)
TypeOK ==
  /\ ServerTypes /\ DeviceTypes
  /\ job \in [Devices -> JobSet]
  /\ \A d \in Devices : /\ job[d].op = None <=> job[d].acct = None
                        /\ who[d] = None => due[d]

(* Keys that an account lists are replaced by a publication that carried the
   password and by no other, though the handler looks for them before its
   transaction and several devices may be setting up at once
   (publish_keys, encryption.rs:122). *)
OnlyThePasswordReplaces ==
  [][\A a \in Accounts : listed[a] # 0 /\ listed'[a] # listed[a]
                           => listed'[a] \in authorised']_vars

(* The identity a device keeps for an account is the one the account lists,
   unless the person has since replaced it or another session's request
   published it: a job that outlives its session stores nothing in the name
   of the next one (saveIdentity is given the account the job began with). *)
StoredIsListed ==
  \A d \in Devices, a \in Accounts :
    \/ stored[d][a] \in {0, listed[a]} \cup strayed
    \/ listed[a] \in authorised

(* What a restore saves was listed while it ran, however the backup has been
   re-sealed, and replaced, between its two reads (the comparison at the end
   of restoreIdentity). *)
RestoredWasListed ==
  \A d \in Devices : job[d].op = "restore" /\ job[d].at \in {"save", "saved"}
                       => job[d].id \in job[d].during

(* A message that the server keeps is in the clear only if one of its two
   accounts had no keys when it was written, and is otherwise signed by an
   identity of its sender and sealed to one of its recipient's: though the
   sender's copy of the peer's keys may be old, their lookup may have failed and
   been taken for "no keys", and a late callback may have left another identity
   in the store. *)
SealedBySender ==
  \A m \in messages : /\ m.both => m.sealed # {}
                      /\ m.sealed # {} => /\ m.signer \in everListed[m.from]
                                          /\ m.sealed \subseteq everListed[m.to]

(* The recovery code of a first set-up that has succeeded has been shown to
   the person: "The recovery code, shown exactly once" (EncryptionGate.tsx:25). *)
RecoveryCodeIsShown ==
  [][\A d \in Devices : Report(d) => job[d].code \in knows'[job[d].acct]]_vars

=============================================================================
