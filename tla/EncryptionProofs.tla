-------------------------- MODULE EncryptionProofs --------------------------
(***************************************************************************)
(* Proofs about Encryption, for any accounts, devices and bounds. Types    *)
(* says what a job may be in each of its places as well as its type. The   *)
(* directory only grows (Grows), so that what a job may rely on (JobHolds) *)
(* goes on holding for it whatever the other devices do (JobCarries); a    *)
(* step of a device then has only to show that its new job holds. IInv     *)
(* adds what the devices keep and what the server has taken.               *)
(***************************************************************************)
EXTENDS Encryption, FiniteSetTheorems, TLAPS

\* A message on its way has a sender and a recipient, and what is read is somebody's.
Addressed(j) == /\ j.at \in {"deliver", "read"} => j.as \in Accounts
                /\ j.at = "deliver" => j.to \in Accounts

\* A job is somebody's.
Owned(j) == j.op = None <=> j.acct = None

Job == {j \in JobSet : Addressed(j) /\ Owned(j)}
NotAnswered == \A d \in Devices : who[d] = None => due[d]

Types == ServerTypes /\ DeviceTypes /\ NotAnswered /\ job \in [Devices -> Job]

LEMMA NoJobType == NoJob \in Job /\ NoJob.op = None /\ NoJob.at = "idle" /\ 0 \in Ids
  BY BoundsAssumption DEF NoJob, Job, JobSet, Addressed, Owned, Ids

LEMMA TypesAreOK == Types => TypeOK
  BY DEF Types, TypeOK, NotAnswered, Job, Owned

LEMMA InitTypes == ASSUME Init PROVE Types
<1>1. IsFiniteSet(messages) /\ Cardinality(messages) <= MaxMessages
  BY FS_EmptySet, BoundsAssumption DEF Init
<1>2. NoBackup \in [id : Ids, code : Ids] /\ 0 \in Ids
  BY BoundsAssumption DEF NoBackup, Ids
<1>3. ServerTypes
  BY <1>1, <1>2 DEF Init, ServerTypes
<1>4. DeviceTypes
  BY <1>2, BoundsAssumption DEF Init, DeviceTypes
<1>5. NotAnswered /\ job \in [Devices -> Job]
  BY NoJobType DEF Init, NotAnswered
<1> QED BY <1>3, <1>4, <1>5 DEF Types

-----------------------------------------------------------------------------
(* Types: what a step writes is of its type. *)

\* One job is set.
LEMMA OneJob ==
    ASSUME job \in [Devices -> Job], NEW d \in Devices, NEW j \in Job, SetJob(d, j)
    PROVE  job' \in [Devices -> Job] /\ job'[d] = j /\ \A e \in Devices : e # d => job'[e] = job[e]
  BY DEF SetJob

LEMMA JobEnds ==
    ASSUME job \in [Devices -> Job], NEW d \in Devices, EndJob(d)
    PROVE  job' \in [Devices -> Job] /\ job'[d] = NoJob /\ \A e \in Devices : e # d => job'[e] = job[e]
  BY OneJob, NoJobType DEF EndJob

\* A step that sets a job and nothing else.
LEMMA JobOnly ==
    ASSUME Types, UNCHANGED <<server, device, stored, history>>, job' \in [Devices -> Job]
    PROVE  Types'
<1>1. ServerTypes'
  BY DEF Types, ServerTypes, server
<1>2. DeviceTypes'
  BY DEF Types, DeviceTypes, device, history
<1> QED BY <1>1, <1>2 DEF Types, NotAnswered, device

LEMMA NewSessionTypes ==
    ASSUME DeviceTypes, NEW d \in Devices, NewSession(d)
    PROVE  sessions' \in [Devices -> Nat] /\ \A e \in Devices : sessions'[e] <= MaxSessions[e]
<1>1. sessions[d] \in Nat /\ MaxSessions[d] \in Nat
  BY BoundsAssumption DEF DeviceTypes
<1> QED BY <1>1 DEF DeviceTypes, NewSession

\* An account lists an identity.
LEMMA ListTypes ==
    ASSUME ServerTypes, NEW a, NEW id \in Ids, NEW code \in Ids, List(a, id, code)
    PROVE  /\ listed' \in [Accounts -> Ids] /\ backup' \in [Accounts -> [id : Ids, code : Ids]]
           /\ everListed' \in [Accounts -> SUBSET Ids]
  BY DEF ServerTypes, List

\* An identity or a code is made.
LEMMA MadeType ==
    ASSUME DeviceTypes, made < MaxMade, made' = made + 1
    PROVE  made' \in Ids /\ made' # 0
  BY BoundsAssumption DEF DeviceTypes, Ids

LEMMA PutTypes ==
    ASSUME Types, NEW d \in Devices, Put(d)
    PROVE  Types'
<1>1. job' \in [Devices -> Job]
  <2>1. job[d] \in JobSet /\ Addressed(job[d]) /\ Owned(job[d])
    BY DEF Types, Job
  <2> DEFINE j == [job[d] EXCEPT !.as = who[d], !.live = TRUE, !.at = "ask"]
  <2>2. j \in Job
    BY <2>1 DEF Job, JobSet, Addressed, Owned, Types, DeviceTypes
  <2> QED BY <2>2, OneJob, JobEnds DEF Types, Put
<1> QED BY <1>1, JobOnly DEF Put

LEMMA AskTypes ==
    ASSUME Types, NEW d \in Devices, Ask(d)
    PROVE  Types'
<1>1. job' \in [Devices -> Job]
  <2>1. job[d] \in JobSet /\ Addressed(job[d]) /\ Owned(job[d])
    BY DEF Types, Job
  <2> DEFINE j == [job[d] EXCEPT !.at = "publish"]
  <2>2. j \in Job
    BY <2>1 DEF Job, JobSet, Addressed, Owned
  <2> QED BY <2>2, OneJob, JobEnds DEF Types, Ask
<1> QED BY <1>1, JobOnly DEF Ask

LEMMA LoseTypes ==
    ASSUME Types, NEW d \in Devices, Lose(d)
    PROVE  Types'
<1>1. job' \in [Devices -> Job]
  BY JobEnds DEF Types, Lose
<1> QED BY <1>1, JobOnly DEF Lose

LEMMA StartRestoreTypes ==
    ASSUME Types, NEW d \in Devices, NEW code \in Ids, StartRestore(d, code)
    PROVE  Types'
<1>1. job' \in [Devices -> Job]
  <2> DEFINE j == [NoJob EXCEPT !.op = "restore", !.acct = who[d], !.as = who[d], !.at = "read",
                            !.code = code, !.during = {listed[who[d]]}]
  <2>1. who[d] \in Accounts /\ who[d] # None /\ listed[who[d]] \in Ids
    BY DEF Types, DeviceTypes, ServerTypes, StartRestore, SignedIn
  <2>2. j \in JobSet
    BY <2>1, NoJobType DEF JobSet, Job
  <2>3. j.op = "restore" /\ j.acct = who[d] /\ j.as = who[d] /\ j.at = "read"
    BY NoJobType DEF JobSet, Job
  <2>4. j \in Job
    BY <2>1, <2>2, <2>3 DEF Job, Addressed, Owned, None
  <2> QED BY <2>4, OneJob DEF Types, StartRestore
<1> QED BY <1>1, JobOnly DEF StartRestore

LEMMA ReadBackupTypes ==
    ASSUME Types, NEW d \in Devices, ReadBackup(d)
    PROVE  Types'
<1>1. job' \in [Devices -> Job]
  <2>1. job[d] \in JobSet /\ Addressed(job[d]) /\ Owned(job[d])
    BY DEF Types, Job
  <2> DEFINE j == [job[d] EXCEPT !.box = {backup[job[d].as]}]
  <2>3. backup[job[d].as] \in [id : Ids, code : Ids]
    BY <2>1 DEF Types, ServerTypes, ReadBackup, Addressed
  <2>2. j \in Job
    BY <2>1, <2>3 DEF Job, JobSet, Addressed, Owned
  <2> QED BY <2>2, OneJob, JobEnds DEF Types, ReadBackup
<1> QED BY <1>1, JobOnly DEF ReadBackup

LEMMA ReadStatusTypes ==
    ASSUME Types, NEW d \in Devices, ReadStatus(d)
    PROVE  Types'
<1>1. job' \in [Devices -> Job]
  <2>1. job[d] \in JobSet /\ Addressed(job[d]) /\ Owned(job[d])
    BY DEF Types, Job
  <2> DEFINE j == [job[d] EXCEPT !.seen = {listed[job[d].as]}]
  <2>3. listed[job[d].as] \in Ids
    BY <2>1 DEF Types, ServerTypes, ReadStatus, Addressed
  <2>2. j \in Job
    BY <2>1, <2>3 DEF Job, JobSet, Addressed, Owned
  <2> QED BY <2>2, OneJob, JobEnds DEF Types, ReadStatus
<1> QED BY <1>1, JobOnly DEF ReadStatus

LEMMA UnwrapTypes ==
    ASSUME Types, NEW d \in Devices, Unwrap(d)
    PROVE  Types'
<1>1. job' \in [Devices -> Job]
  <2>1. job[d] \in JobSet /\ Addressed(job[d]) /\ Owned(job[d])
    BY DEF Types, Job
  <2>2. CASE EndJob(d)
    BY <2>2, JobEnds DEF Types
  <2>3. CASE \E box \in job[d].box : SetJob(d, [job[d] EXCEPT !.at = "save", !.id = box.id])
    <3>1. PICK box \in job[d].box : SetJob(d, [job[d] EXCEPT !.at = "save", !.id = box.id])
      BY <2>3
    <3>2. box.id \in Ids
      BY <2>1 DEF JobSet
    <3>3. [job[d] EXCEPT !.at = "save", !.id = box.id] \in Job
      BY <2>1, <3>2 DEF Job, JobSet, Addressed, Owned
    <3> QED BY <3>1, <3>3, OneJob DEF Types
  <2> QED BY <2>2, <2>3 DEF Unwrap
<1> QED BY <1>1, JobOnly DEF Unwrap

LEMMA ComposeTypes ==
    ASSUME Types, NEW d \in Devices, NEW a \in Accounts, Compose(d, a)
    PROVE  Types'
<1>1. job' \in [Devices -> Job]
  <2>1. PICK peer \in PeerKeys(a) :
          SetJob(d, [NoJob EXCEPT !.op = "send", !.acct = who[d], !.as = who[d], !.to = a,
                                  !.at = "deliver", !.seen = {peer} \ {0},
                                  !.id = IF peer = 0 THEN 0 ELSE loaded[d],
                                  !.both = listed[who[d]] # 0 /\ listed[a] # 0])
    BY DEF Compose
  <2> DEFINE i == IF peer = 0 THEN 0 ELSE loaded[d]
             s == {peer} \ {0}
             b == listed[who[d]] # 0 /\ listed[a] # 0
             j == [NoJob EXCEPT !.op = "send", !.acct = who[d], !.as = who[d], !.to = a,
                                !.at = "deliver", !.seen = s, !.id = i, !.both = b]
  <2>2. who[d] \in Accounts /\ who[d] # None
    BY DEF Types, DeviceTypes, Compose, SignedIn
  <2>3. peer \in Ids /\ i \in Ids /\ s \in SUBSET Ids /\ b \in BOOLEAN
    BY NoJobType DEF Types, DeviceTypes, ServerTypes, PeerKeys
  <2>4. j \in Job
    <3> HIDE DEF i, s, b
    <3>1. j \in JobSet
      <4>1. PICK n \in JobSet : n = NoJob
        BY NoJobType DEF Job
      <4>2. [n EXCEPT !.op = "send", !.acct = who[d], !.as = who[d], !.to = a] \in JobSet
        BY <2>2 DEF JobSet
      <4>3. PICK h \in JobSet : h = [n EXCEPT !.op = "send", !.acct = who[d], !.as = who[d], !.to = a]
        BY <4>2
      <4>4. [h EXCEPT !.at = "deliver", !.seen = s, !.id = i, !.both = b] \in JobSet
        BY <2>3 DEF JobSet
      <4> QED BY <4>1, <4>3, <4>4
    <3>2. j.op = "send" /\ j.acct = who[d] /\ j.as = who[d] /\ j.to = a
      BY NoJobType DEF JobSet, Job
    <3> QED BY <2>2, <3>1, <3>2 DEF Job, Addressed, Owned, None
  <2> QED BY <2>1, <2>4, OneJob DEF Types
<1> QED BY <1>1, JobOnly DEF Compose

LEMMA SignInTypes ==
    ASSUME Types, NEW d \in Devices, NEW a \in Accounts, SignIn(d, a)
    PROVE  Types'
<1>1. ServerTypes'
  BY DEF Types, ServerTypes, SignIn, server
<1>2. DeviceTypes'
  BY NewSessionTypes DEF Types, DeviceTypes, SignIn, history
<1>3. NotAnswered'
  BY DEF Types, DeviceTypes, NotAnswered, SignIn, SignedIn
<1>4. job' \in [Devices -> Job]
  BY DEF Types, SignIn
<1> QED BY <1>1, <1>2, <1>3, <1>4 DEF Types

LEMMA SignOutTypes ==
    ASSUME Types, NEW d \in Devices, NEW forget \in BOOLEAN, SignOut(d, forget)
    PROVE  Types'
<1>1. ServerTypes'
  BY DEF Types, ServerTypes, SignOut, server
<1>2. DeviceTypes'
  BY NoJobType DEF Types, DeviceTypes, SignOut, DropMemory, SignedIn, history
<1>3. NotAnswered'
  BY DEF Types, DeviceTypes, NotAnswered, SignOut, DropMemory
<1>4. job' \in [Devices -> Job]
  <2>1. job[d] \in JobSet /\ Addressed(job[d]) /\ Owned(job[d])
    BY DEF Types, Job
  <2> DEFINE i == IF job[d].op = "rotate" /\ job[d].at = "derive" THEN 0 ELSE job[d].id
             j == [job[d] EXCEPT !.live = Idle(d), !.id = i]
  <2>2. i \in Ids /\ Idle(d) \in BOOLEAN
    BY <2>1, NoJobType DEF JobSet, Idle
  <2>3. j \in Job
    <3> HIDE DEF i
    <3> QED BY <2>1, <2>2 DEF Job, JobSet, Addressed, Owned
  <2> QED BY <2>3, OneJob DEF Types, SignOut
<1> QED BY <1>1, <1>2, <1>3, <1>4 DEF Types

LEMMA RestartTypes ==
    ASSUME Types, NEW d \in Devices, Restart(d)
    PROVE  Types'
<1>1. ServerTypes'
  BY DEF Types, ServerTypes, Restart, server
<1>2. DeviceTypes'
  BY NewSessionTypes, NoJobType DEF Types, DeviceTypes, Restart, DropMemory, history
<1>3. NotAnswered'
  BY DEF Types, DeviceTypes, NotAnswered, Restart, DropMemory
<1>4. job' \in [Devices -> Job]
  BY JobEnds DEF Types, Restart
<1> QED BY <1>1, <1>2, <1>3, <1>4 DEF Types

LEMMA DecideTypes ==
    ASSUME Types, NEW d \in Devices, Decide(d)
    PROVE  Types'
<1>1. ServerTypes'
  BY DEF Types, ServerTypes, Decide, server
<1>2. DeviceTypes'
  <2>1. stored[d][who[d]] \in Ids
    BY DEF Types, DeviceTypes, Decide, SignedIn
  <2> QED BY <2>1 DEF Types, DeviceTypes, Decide, history
<1>3. NotAnswered'
  BY DEF Types, DeviceTypes, NotAnswered, Decide, SignedIn
<1>4. job' \in [Devices -> Job]
  BY DEF Types, Decide
<1> QED BY <1>1, <1>2, <1>3, <1>4 DEF Types

LEMMA ReplaceTypes ==
    ASSUME Types, NEW a \in Accounts, Replace(a)
    PROVE  Types'
<1>1. ServerTypes'
  BY MadeType DEF Types, ServerTypes, Replace, List
<1>2. DeviceTypes'
  BY MadeType DEF Types, DeviceTypes, Replace, device
<1>3. NotAnswered'
  BY DEF Types, NotAnswered, Replace, device
<1>4. job' \in [Devices -> Job]
  <2>1. made' \in Ids
    BY MadeType DEF Types, Replace
  <2>2. ASSUME NEW k \in Job, NEW n \in Ids
        PROVE  [k EXCEPT !.during = @ \cup {n}] \in Job
    <3>1. k \in JobSet /\ k.during \cup {n} \in SUBSET Ids
      BY DEF Job, JobSet
    <3>2. [k EXCEPT !.during = @ \cup {n}] \in JobSet
      BY <3>1 DEF JobSet
    <3> QED BY <3>1, <3>2 DEF Job, JobSet, Addressed, Owned
  <2>3. \A e \in Devices : job'[e] \in Job
    BY <2>1, <2>2 DEF Types, Replace, Witnessed
  <2> QED BY <2>3 DEF Replace, Witnessed
<1> QED BY <1>1, <1>2, <1>3, <1>4 DEF Types

LEMMA StartSetupTypes ==
    ASSUME Types, NEW d \in Devices, StartSetup(d)
    PROVE  Types'
<1>1. ServerTypes'
  BY DEF Types, ServerTypes, StartSetup, server
<1>2. DeviceTypes'
  BY MadeType DEF Types, DeviceTypes, StartSetup, device
<1>3. NotAnswered'
  BY DEF Types, NotAnswered, StartSetup, device
<1>4. job' \in [Devices -> Job]
  <2> DEFINE j == [NoJob EXCEPT !.op = "setup", !.acct = who[d], !.at = "derive",
                             !.id = made', !.code = made']
  <2>1. made' \in Ids /\ who[d] \in Accounts /\ who[d] # None
    BY MadeType DEF Types, DeviceTypes, StartSetup, SignedIn
  <2>2. j \in JobSet
    BY <2>1, NoJobType DEF JobSet, Job
  <2>3. j.op = "setup" /\ j.acct = who[d] /\ j.at = "derive"
    BY NoJobType DEF JobSet, Job
  <2>4. j \in Job
    BY <2>1, <2>2, <2>3 DEF Job, Addressed, Owned, None
  <2> QED BY <2>4, OneJob DEF Types, StartSetup
<1> QED BY <1>1, <1>2, <1>3, <1>4 DEF Types

LEMMA StartRotateTypes ==
    ASSUME Types, NEW d \in Devices, StartRotate(d)
    PROVE  Types'
<1>1. ServerTypes'
  BY DEF Types, ServerTypes, StartRotate, server
<1>2. DeviceTypes'
  BY MadeType DEF Types, DeviceTypes, StartRotate, device
<1>3. NotAnswered'
  BY DEF Types, NotAnswered, StartRotate, device
<1>4. job' \in [Devices -> Job]
  <2> DEFINE j == [NoJob EXCEPT !.op = "rotate", !.acct = who[d], !.at = "derive",
                             !.id = loaded[d], !.code = made']
  <2>1. made' \in Ids /\ loaded[d] \in Ids /\ who[d] \in Accounts /\ who[d] # None
    BY MadeType DEF Types, DeviceTypes, StartRotate, SignedIn
  <2>2. j \in JobSet
    BY <2>1, NoJobType DEF JobSet, Job
  <2>3. j.op = "rotate" /\ j.acct = who[d] /\ j.at = "derive"
    BY NoJobType DEF JobSet, Job
  <2>4. j \in Job
    BY <2>1, <2>2, <2>3 DEF Job, Addressed, Owned, None
  <2> QED BY <2>4, OneJob DEF Types, StartRotate
<1> QED BY <1>1, <1>2, <1>3, <1>4 DEF Types

LEMMA PublishTypes ==
    ASSUME Types, NEW d \in Devices, Publish(d)
    PROVE  Types'
<1>1. ServerTypes'
  <2>1. job[d] \in JobSet /\ Addressed(job[d]) /\ Owned(job[d])
    BY DEF Types, Job
  <2>2. job[d].id \in Ids /\ job[d].code \in Ids
    BY <2>1 DEF JobSet
  <2>3. /\ listed' \in [Accounts -> Ids] /\ backup' \in [Accounts -> [id : Ids, code : Ids]]
        /\ everListed' \in [Accounts -> SUBSET Ids]
    BY <2>2, ListTypes DEF Types, ServerTypes, Publish
  <2>4. strayed' \subseteq Ids
    BY <2>2 DEF Types, ServerTypes, Publish
  <2> QED BY <2>3, <2>4 DEF Types, ServerTypes, Publish
<1>2. DeviceTypes'
  BY DEF Types, DeviceTypes, Publish, device, history
<1>3. NotAnswered'
  BY DEF Types, NotAnswered, Publish, device
<1>4. job' \in [Devices -> Job]
  <2>1. job[d] \in JobSet /\ Addressed(job[d]) /\ Owned(job[d])
    BY DEF Types, Job
  <2>2. [job[d] EXCEPT !.at = "answer"] \in Job
    BY <2>1 DEF Job, JobSet, Addressed, Owned
  <2> QED BY <2>2, OneJob, JobEnds DEF Types, Publish
<1> QED BY <1>1, <1>2, <1>3, <1>4 DEF Types

LEMMA RewrapTypes ==
    ASSUME Types, NEW d \in Devices, Rewrap(d)
    PROVE  Types'
<1>1. ServerTypes'
  <2>1. job[d] \in JobSet /\ Addressed(job[d]) /\ Owned(job[d])
    BY DEF Types, Job
  <2>2. job[d].id \in Ids /\ job[d].code \in Ids
    BY <2>1 DEF JobSet
  <2> QED BY <2>2 DEF Types, ServerTypes, Rewrap
<1>2. DeviceTypes'
  BY DEF Types, DeviceTypes, Rewrap, device, history
<1>3. NotAnswered'
  BY DEF Types, NotAnswered, Rewrap, device
<1>4. job' \in [Devices -> Job]
  <2>1. job[d] \in JobSet /\ Addressed(job[d]) /\ Owned(job[d])
    BY DEF Types, Job
  <2>2. [job[d] EXCEPT !.at = "answer"] \in Job
    BY <2>1 DEF Job, JobSet, Addressed, Owned
  <2> QED BY <2>2, OneJob, JobEnds DEF Types, Rewrap
<1> QED BY <1>1, <1>2, <1>3, <1>4 DEF Types

LEMMA RotatedTypes ==
    ASSUME Types, NEW d \in Devices, Rotated(d)
    PROVE  Types'
<1>1. ServerTypes'
  BY DEF Types, ServerTypes, Rotated, server
<1>2. DeviceTypes'
  <2>1. job[d].code \in Ids
    BY DEF Types, Job, JobSet
  <2> QED BY <2>1 DEF Types, DeviceTypes, Rotated, device
<1>3. NotAnswered'
  BY DEF Types, NotAnswered, Rotated, device
<1>4. job' \in [Devices -> Job]
  BY JobEnds DEF Types, Rotated
<1> QED BY <1>1, <1>2, <1>3, <1>4 DEF Types

LEMMA ReportTypes ==
    ASSUME Types, NEW d \in Devices, Report(d)
    PROVE  Types'
<1>1. ServerTypes'
  BY DEF Types, ServerTypes, Report, server
<1>2. DeviceTypes'
  <2>1. job[d].code \in Ids
    BY DEF Types, Job, JobSet
  <2> QED BY <2>1 DEF Types, DeviceTypes, Report, device
<1>3. NotAnswered'
  BY DEF Types, NotAnswered, Report, device
<1>4. job' \in [Devices -> Job]
  BY JobEnds DEF Types, Report
<1> QED BY <1>1, <1>2, <1>3, <1>4 DEF Types

LEMMA SaveTypes ==
    ASSUME Types, NEW d \in Devices, Save(d)
    PROVE  Types'
<1>1. ServerTypes'
  BY DEF Types, ServerTypes, Save, server
<1>2. DeviceTypes'
  <2>1. job[d].id \in Ids
    BY DEF Types, Job, JobSet
  <2> QED BY <2>1 DEF Types, DeviceTypes, Save, device, history
<1>3. NotAnswered'
  BY DEF Types, NotAnswered, Save, device
<1>4. job' \in [Devices -> Job]
  <2>1. job[d] \in JobSet /\ Addressed(job[d]) /\ Owned(job[d])
    BY DEF Types, Job
  <2>2. [job[d] EXCEPT !.at = "saved"] \in Job
    BY <2>1 DEF Job, JobSet, Addressed, Owned
  <2> QED BY <2>2, OneJob DEF Types, Save
<1> QED BY <1>1, <1>2, <1>3, <1>4 DEF Types

LEMMA SavedTypes ==
    ASSUME Types, NEW d \in Devices, Saved(d)
    PROVE  Types'
<1>1. ServerTypes'
  BY DEF Types, ServerTypes, Saved, server
<1>2. DeviceTypes'
  <2>1. job[d].id \in Ids
    BY DEF Types, Job, JobSet
  <2> QED BY <2>1 DEF Types, DeviceTypes, Saved, history
<1>3. NotAnswered'
  BY DEF Types, DeviceTypes, NotAnswered, Saved
<1>4. job' \in [Devices -> Job]
  <2>1. job[d] \in JobSet /\ Addressed(job[d]) /\ Owned(job[d])
    BY DEF Types, Job
  <2>2. [job[d] EXCEPT !.at = "report"] \in Job
    BY <2>1 DEF Job, JobSet, Addressed, Owned
  <2> QED BY <2>2, OneJob, JobEnds DEF Types, Saved
<1> QED BY <1>1, <1>2, <1>3, <1>4 DEF Types

LEMMA DeliverTypes ==
    ASSUME Types, NEW d \in Devices, Deliver(d)
    PROVE  Types'
<1>1. ServerTypes'
  <2> DEFINE m == [from |-> job[d].as, to |-> job[d].to, sealed |-> job[d].seen,
                  signer |-> job[d].id, both |-> job[d].both]
  <2>1. job[d] \in JobSet /\ job[d].as \in Accounts /\ job[d].to \in Accounts
    BY DEF Types, Job, Addressed, Deliver
  <2>2. m \in MessageSet
    BY <2>1 DEF MessageSet, JobSet
  <2>3. messages' = messages \/ messages' = messages \cup {m}
    BY DEF Deliver
  <2>4. IsFiniteSet(messages \cup {m}) /\ Cardinality(messages \cup {m}) <= Cardinality(messages) + 1
    <3> HIDE DEF m
    <3>1. IsFiniteSet(messages) /\ Cardinality(messages) \in Nat
      BY FS_CardinalityType DEF Types, ServerTypes
    <3>2. IsFiniteSet(messages \cup {m})
      BY <3>1, FS_AddElement
    <3>3. CASE m \in messages
      <4>1. messages \cup {m} = messages
        BY <3>3
      <4> QED BY <3>1, <4>1
    <3>4. CASE m \notin messages
      <4>1. Cardinality(messages \cup {m}) = Cardinality(messages) + 1
        BY <3>1, <3>4, FS_AddElement
      <4> QED BY <3>1, <3>2, <4>1
    <3> QED BY <3>3, <3>4
  <2>5. Cardinality(messages) < MaxMessages /\ Cardinality(messages) \in Nat
    BY FS_CardinalityType DEF Types, ServerTypes, Deliver
  <2>6. IsFiniteSet(messages') /\ Cardinality(messages') <= MaxMessages
    <3> HIDE DEF m
    <3>1. CASE messages' = messages
      BY <3>1, <2>5 DEF Types, ServerTypes
    <3>2. CASE messages' = messages \cup {m}
      <4>1. Cardinality(messages \cup {m}) \in Nat
        BY <2>4, FS_CardinalityType
      <4> QED BY <3>2, <4>1, <2>4, <2>5, BoundsAssumption
    <3> QED BY <2>3, <3>1, <3>2
  <2>7. messages' \subseteq MessageSet
    BY <2>2, <2>3 DEF Types, ServerTypes
  <2> QED BY <2>6, <2>7 DEF Types, ServerTypes, Deliver
<1>2. DeviceTypes'
  BY DEF Types, DeviceTypes, Deliver, device, history
<1>3. NotAnswered'
  BY DEF Types, NotAnswered, Deliver, device
<1>4. job' \in [Devices -> Job]
  BY JobEnds DEF Types, Deliver
<1> QED BY <1>1, <1>2, <1>3, <1>4 DEF Types

LEMMA NextTypes == ASSUME Types, [Next]_vars PROVE Types'
<1>1. ASSUME NEW d \in Devices, DeviceStep(d) PROVE Types'
  BY <1>1, SignInTypes, ComposeTypes, SignOutTypes, RestartTypes, DecideTypes, StartSetupTypes,
     StartRotateTypes, PutTypes, RotatedTypes, SaveTypes, SavedTypes, ReportTypes, LoseTypes,
     StartRestoreTypes, ReadBackupTypes, ReadStatusTypes, UnwrapTypes DEF DeviceStep
<1>2. ASSUME NEW d \in Devices, ServerStep(d) PROVE Types'
  BY <1>2, AskTypes, PublishTypes, RewrapTypes, DeliverTypes DEF ServerStep
<1>3. CASE UNCHANGED vars
  BY <1>3 DEF vars, server, device, history, Types, ServerTypes, DeviceTypes, NotAnswered
<1> QED BY <1>1, <1>2, <1>3, ReplaceTypes DEF Next

(* Every variable of Encryption keeps its type, for any accounts, devices and
   bounds. *)
THEOREM TypeCorrect == Spec => []TypeOK
<1>1. Init => Types
  BY InitTypes
<1>2. Types /\ [Next]_vars => Types'
  BY NextTypes
<1> QED BY <1>1, <1>2, TypesAreOK, PTL DEF Spec

-----------------------------------------------------------------------------
(* What a job may rely on. *)

\* An identity that a device may keep for an account.
Kept(a, id) == id \in {0, listed[a]} \cup strayed \/ listed[a] \in authorised

Sending(j) ==
  j.at = "deliver" => /\ j.seen \subseteq everListed[j.to]
                      /\ j.both => listed[j.as] # 0 /\ listed[j.to] # 0
SettingUp(j) ==
  /\ j.at = "publish" => j.op = "setup"
  /\ j.op = "setup" /\ j.at = "answer" => Kept(j.acct, j.id)

\* A restore belongs to the account of its session, which has keys; what it has
\* seen of them was listed while it ran, and is still unless they were replaced.
Restoring(j) ==
  /\ j.at \in {"read", "save"} => j.op = "restore"
  /\ j.op = "restore" =>
       /\ j.at \in {"read", "save", "saved"} /\ j.as = j.acct
       /\ listed[j.as] # 0 /\ listed[j.as] \in j.during /\ j.seen \subseteq j.during \ {0}
       /\ j.seen \subseteq {listed[j.as]} \/ listed[j.as] \in authorised
       /\ \A x, y \in j.box : x = y
       /\ j.at \in {"save", "saved"} => j.id \in j.during /\ Kept(j.acct, j.id)

JobHolds(j) == Sending(j) /\ SettingUp(j) /\ Restoring(j)

Keys == 0 \notin authorised /\ \A a \in Accounts : listed[a] # 0 => listed[a] \in everListed[a]
Jobs == \A d \in Devices : JobHolds(job[d])
Locked == \A d \in Devices : status[d] = "locked" => who[d] # None /\ listed[who[d]] # 0
Stored == \A d \in Devices, a \in Accounts : Kept(a, stored[d][a])

IInv == Types /\ Keys /\ Jobs /\ Locked /\ Stored /\ SealedBySender

LEMMA IdleHolds == JobHolds(NoJob)
  BY DEF JobHolds, Sending, SettingUp, Restoring, NoJob, None

LEMMA InitIInv == ASSUME Init PROVE IInv
<1>1. Keys /\ Locked /\ Stored /\ SealedBySender
  BY DEF Init, Keys, Locked, Stored, Kept, SealedBySender
<1>2. Jobs
  BY IdleHolds DEF Init, Jobs
<1> QED BY <1>1, <1>2, InitTypes DEF IInv

LEMMA Consequences == ASSUME IInv PROVE StoredIsListed /\ RestoredWasListed
<1>1. StoredIsListed
  BY DEF IInv, Stored, Kept, StoredIsListed
<1>2. RestoredWasListed
  BY DEF IInv, Jobs, JobHolds, Restoring, RestoredWasListed
<1> QED BY <1>1, <1>2

\* Who runs a job is an account.
LEMMA Somebody == ASSUME NEW j \in Job, j.op # None PROVE j.acct \in Accounts
  BY DEF Job, JobSet, Owned

-----------------------------------------------------------------------------
(* The directory only grows, and only the password changes what is listed. *)

Grows ==
  /\ \A a \in Accounts :
       /\ everListed[a] \subseteq everListed'[a]
       /\ listed[a] # 0 => listed'[a] # 0
       /\ listed[a] # 0 /\ listed'[a] # listed[a] => listed'[a] \in authorised'
  /\ authorised \subseteq authorised' /\ strayed \subseteq strayed'

LEMMA QuietGrows == ASSUME UNCHANGED <<listed, everListed, authorised, strayed>> PROVE Grows
  BY DEF Grows

LEMMA PublishGrows == ASSUME Types, NEW d \in Devices, Publish(d) PROVE Grows
<1>1. CASE listed[job[d].as] = 0
  BY <1>1 DEF Types, ServerTypes, Publish, List, Grows
<1>2. CASE listed[job[d].as] # 0
  BY <1>2 DEF Publish, Grows
<1> QED BY <1>1, <1>2

LEMMA ReplaceGrows == ASSUME Types, NEW a \in Accounts, Replace(a) PROVE Grows
<1>1. made' # 0
  BY MadeType DEF Types, Replace
<1> QED BY <1>1 DEF Types, ServerTypes, Replace, List, Grows

\* A step that lists nothing.
Quiet == UNCHANGED <<listed, everListed, authorised, strayed>>

LEMMA MostlyQuiet ==
    ASSUME [Next]_vars
    PROVE  Quiet \/ (\E d \in Devices : Publish(d)) \/ \E a \in Accounts : Replace(a)
<1>1. ASSUME NEW d \in Devices, DeviceStep(d) PROVE Quiet
  BY <1>1 DEF DeviceStep, SignIn, Compose, SignOut, Restart, Decide, StartSetup, StartRotate, Put,
     Rotated, Save, Saved, Report, Lose, StartRestore, ReadBackup, ReadStatus, Unwrap, server, Quiet
<1>2. ASSUME NEW d \in Devices, ServerStep(d) PROVE Quiet \/ Publish(d)
  BY <1>2 DEF ServerStep, Ask, Rewrap, Deliver, server, Quiet
<1>3. CASE UNCHANGED vars
  BY <1>3 DEF vars, server, Quiet
<1> QED BY <1>1, <1>2, <1>3 DEF Next

LEMMA NextGrows == ASSUME Types, [Next]_vars PROVE Grows
  BY MostlyQuiet, QuietGrows, PublishGrows, ReplaceGrows DEF Quiet

LEMMA NextKeys == ASSUME Types, Keys, [Next]_vars PROVE Keys'
<1>1. CASE Quiet
  BY <1>1 DEF Quiet, Keys
<1>2. ASSUME NEW d \in Devices, Publish(d) PROVE Keys'
  BY <1>2 DEF Types, ServerTypes, Publish, List, Keys
<1>3. ASSUME NEW a \in Accounts, Replace(a) PROVE Keys'
  <2>1. made' # 0
    BY <1>3, MadeType DEF Types, Replace
  <2> QED BY <1>3, <2>1 DEF Types, ServerTypes, Replace, List, Keys
<1> QED BY <1>1, <1>2, <1>3, MostlyQuiet

(* Keys that are listed are replaced only by a publication that carried the
   password, however many devices set up at once. *)
THEOREM PasswordReplaces == Spec => OnlyThePasswordReplaces
<1>1. Types /\ [Next]_vars => [\A a \in Accounts : listed[a] # 0 /\ listed'[a] # listed[a]
                                   => listed'[a] \in authorised']_vars
  BY NextGrows DEF Grows
<1>2. Init => Types
  BY InitTypes
<1>3. Types /\ [Next]_vars => Types'
  BY NextTypes
<1> QED BY <1>1, <1>2, <1>3, PTL DEF Spec, OnlyThePasswordReplaces

-----------------------------------------------------------------------------
(* What held goes on holding while the directory grows. *)

LEMMA KeptCarries ==
    ASSUME Keys, Grows, NEW a \in Accounts, NEW id, Kept(a, id)
    PROVE  Kept(a, id)'
<1>1. CASE listed[a] = 0
  BY <1>1 DEF Keys, Grows, Kept
<1>2. CASE listed[a] # 0
  BY <1>2 DEF Keys, Grows, Kept
<1> QED BY <1>1, <1>2

LEMMA JobCarries ==
    ASSUME Keys, Grows, NEW j \in Job, JobHolds(j),
           j.op = "restore" => listed'[j.as] \in j.during
    PROVE  JobHolds(j)'
<1>1. Sending(j)'
  BY DEF JobHolds, Sending, Grows, Job, Addressed
<1>2. SettingUp(j)'
  <2>1. CASE j.op = "setup" /\ j.at = "answer"
    <3>1. j.acct \in Accounts /\ Kept(j.acct, j.id)
      BY <2>1, Somebody DEF JobHolds, SettingUp, None
    <3> QED BY <3>1, KeptCarries DEF JobHolds, SettingUp
  <2>2. CASE ~(j.op = "setup" /\ j.at = "answer")
    BY <2>2 DEF JobHolds, SettingUp
  <2> QED BY <2>1, <2>2
<1>3. Restoring(j)'
  <2>1. CASE j.op # "restore"
    BY <2>1 DEF JobHolds, Restoring
  <2>2. CASE j.op = "restore"
    <3>1. j.acct \in Accounts /\ j.as = j.acct /\ listed[j.as] # 0
      BY <2>2, Somebody DEF JobHolds, Restoring, None
    <3>2. listed'[j.as] # 0 /\ (listed'[j.as] = listed[j.as] \/ listed'[j.as] \in authorised')
      BY <3>1 DEF Grows
    <3>3. j.seen \subseteq {listed'[j.as]} \/ listed'[j.as] \in authorised'
      BY <2>2, <3>2 DEF JobHolds, Restoring, Grows
    <3>4. j.at \in {"save", "saved"} => Kept(j.acct, j.id)'
      BY <2>2, <3>1, KeptCarries DEF JobHolds, Restoring
    <3> QED BY <2>2, <3>1, <3>2, <3>3, <3>4 DEF JobHolds, Restoring
  <2> QED BY <2>1, <2>2
<1> QED BY <1>1, <1>2, <1>3 DEF JobHolds

LEMMA MessagesCarry == ASSUME Types, Grows, SealedBySender, UNCHANGED messages PROVE SealedBySender'
  BY DEF Types, ServerTypes, MessageSet, Grows, SealedBySender

LEMMA StoredCarries == ASSUME Keys, Grows, Stored, UNCHANGED stored PROVE Stored'
  BY KeptCarries DEF Stored

LEMMA LockedCarries ==
    ASSUME Types, Grows, Locked, UNCHANGED <<who, status>> PROVE Locked'
<1>1. ASSUME NEW d \in Devices, status[d] = "locked" PROVE who[d] \in Accounts
  BY <1>1 DEF Types, DeviceTypes, Locked
<1> QED BY <1>1 DEF Locked, Grows

\* A step of one device that lists nothing: its new job has to be shown to hold.
LEMMA QuietJobs ==
    ASSUME IInv, Quiet, NEW d \in Devices, NEW j \in Job, JobHolds(j), SetJob(d, j)
    PROVE  Jobs'
<1>1. \A i : JobHolds(i)' <=> JobHolds(i)
  BY DEF Quiet, JobHolds, Sending, SettingUp, Restoring, Kept
<1>2. job'[d] = j /\ \A e \in Devices : e # d => job'[e] = job[e]
  BY OneJob DEF IInv, Types
<1> QED BY <1>1, <1>2 DEF IInv, Jobs

LEMMA QuietJobsSame == ASSUME IInv, Quiet, UNCHANGED job PROVE Jobs'
  BY DEF IInv, Jobs, Quiet, JobHolds, Sending, SettingUp, Restoring, Kept

LEMMA QuietEnds == ASSUME IInv, Quiet, NEW d \in Devices, EndJob(d) PROVE Jobs'
  BY QuietJobs, IdleHolds, NoJobType DEF EndJob

\* A step that only sets a job, to one that holds.
LEMMA JobStep ==
    ASSUME IInv, [Next]_vars, Jobs', UNCHANGED <<messages, who, status, stored>>
    PROVE  IInv'
<1>1. Types' /\ Grows /\ Keys'
  BY NextTypes, NextGrows, NextKeys DEF IInv
<1> QED BY <1>1, MessagesCarry, StoredCarries, LockedCarries DEF IInv

-----------------------------------------------------------------------------
(* Every action keeps the invariant. *)

LEMMA SessionsHold ==
    ASSUME IInv, [Next]_vars, NEW d \in Devices, NEW a \in Accounts, NEW forget \in BOOLEAN,
           SignIn(d, a) \/ SignOut(d, forget) \/ Restart(d) \/ Decide(d)
    PROVE  IInv'
<1>1. Types' /\ Grows /\ Keys' /\ Types
  BY NextTypes, NextGrows, NextKeys DEF IInv
<1>2. Quiet /\ UNCHANGED messages
  BY DEF SignIn, SignOut, Restart, Decide, server, Quiet
<1>3. Jobs'
  <2>1. CASE UNCHANGED job
    BY <1>2, <2>1, QuietJobsSame
  <2>2. CASE Restart(d)
    BY <1>2, <2>2, QuietEnds DEF Restart
  <2>3. CASE SignOut(d, forget)
    <3> DEFINE i == IF job[d].op = "rotate" /\ job[d].at = "derive" THEN 0 ELSE job[d].id
               l == Idle(d)
               j == [job[d] EXCEPT !.live = l, !.id = i]
    <3>1. job[d] \in Job /\ JobHolds(job[d]) /\ i \in Ids /\ l \in BOOLEAN
      BY <1>1, NoJobType DEF IInv, Types, Jobs, Job, JobSet, Idle
    <3>2. j \in Job /\ /\ j.op = job[d].op /\ j.acct = job[d].acct /\ j.at = job[d].at
                       /\ j.as = job[d].as /\ j.to = job[d].to /\ j.seen = job[d].seen
                       /\ j.box = job[d].box /\ j.during = job[d].during /\ j.both = job[d].both
                       /\ j.op # "rotate" => j.id = job[d].id
      <4>1. j.op # "rotate" => i = job[d].id
        BY <3>1 DEF Job, JobSet
      <4>2. PICK k \in Job : k = job[d]
        BY <3>1
      <4> HIDE DEF i, l
      <4>3. k \in JobSet /\ j = [k EXCEPT !.live = l, !.id = i]
        BY <4>2 DEF Job
      <4>4. j \in JobSet
        BY <3>1, <4>3 DEF JobSet
      <4>5. /\ j.op = k.op /\ j.acct = k.acct /\ j.at = k.at /\ j.as = k.as /\ j.to = k.to
            /\ j.seen = k.seen /\ j.box = k.box /\ j.during = k.during /\ j.both = k.both
            /\ j.id = i
        BY <4>3 DEF JobSet
      <4> QED BY <4>1, <4>2, <4>4, <4>5 DEF Job, Addressed, Owned
    <3>3. JobHolds(j)
      <4> HIDE DEF j
      <4> QED BY <3>1, <3>2 DEF JobHolds, Sending, SettingUp, Restoring
    <3> QED BY <1>2, <3>2, <3>3, <2>3, QuietJobs DEF SignOut
  <2> QED BY <2>1, <2>2, <2>3 DEF SignIn, Decide
<1>4. Locked'
  <2>1. CASE SignIn(d, a)
    BY <1>1, <1>2, <2>1 DEF IInv, Locked, Quiet, SignIn, SignedIn, Types, DeviceTypes
  <2>2. CASE SignOut(d, forget) \/ Restart(d)
    BY <1>1, <1>2, <2>2 DEF IInv, Locked, Quiet, SignOut, Restart, DropMemory, Types, DeviceTypes
  <2>3. CASE Decide(d)
    BY <1>1, <1>2, <2>3 DEF IInv, Locked, Quiet, Decide, SignedIn, Types, DeviceTypes
  <2> QED BY <2>1, <2>2, <2>3
<1>5. Stored'
  <2>1. CASE UNCHANGED stored
    BY <1>1, <2>1, StoredCarries DEF IInv
  <2>2. CASE stored' = [stored EXCEPT ![d][who[d]] = 0]
    BY <1>1, <1>2, <2>2 DEF IInv, Stored, Kept, Quiet, Types, DeviceTypes
  <2> QED BY <2>1, <2>2 DEF SignIn, SignOut, Restart, Decide
<1>6. SealedBySender'
  BY <1>1, <1>2, MessagesCarry DEF IInv
<1> QED BY <1>1, <1>3, <1>4, <1>5, <1>6 DEF IInv

LEMMA EndsHold ==
    ASSUME IInv, [Next]_vars, NEW d \in Devices, Lose(d) \/ Rotated(d) \/ Report(d)
    PROVE  IInv'
  BY QuietEnds, JobStep DEF Lose, Rotated, Report, server, device, Quiet

LEMMA StartsHold ==
    ASSUME IInv, [Next]_vars, NEW d \in Devices, StartSetup(d) \/ StartRotate(d)
    PROVE  IInv'
<1>1. Quiet /\ UNCHANGED <<messages, who, status, stored>> /\ Types'
  BY NextTypes DEF IInv, StartSetup, StartRotate, server, device, Quiet
<1>2. PICK j \in {[NoJob EXCEPT !.op = "setup", !.acct = who[d], !.at = "derive", !.id = made', !.code = made'],
                  [NoJob EXCEPT !.op = "rotate", !.acct = who[d], !.at = "derive", !.id = loaded[d], !.code = made']} :
          SetJob(d, j)
  BY DEF StartSetup, StartRotate
<1>3. j = job'[d] /\ j \in Job /\ job' \in [Devices -> Job]
  BY <1>1, <1>2 DEF IInv, Types, SetJob
<1>4. j.at = "derive" /\ j.op \in {"setup", "rotate"}
  BY <1>2, NoJobType DEF Job, JobSet
<1>5. JobHolds(j)
  BY <1>4 DEF JobHolds, Sending, SettingUp, Restoring
<1> QED BY <1>1, <1>2, <1>3, <1>5, QuietJobs, JobStep

\* A step that changes the place of a job and, it may be, the fields that follow.
LEMMA ServerJobsHold ==
    ASSUME IInv, [Next]_vars, NEW d \in Devices, Put(d) \/ Ask(d) \/ Rewrap(d)
    PROVE  IInv'
<1>1. Quiet /\ UNCHANGED <<messages, who, status, stored>> /\ job[d] \in Job /\ job[d] \in JobSet
  BY DEF IInv, Types, Put, Ask, Rewrap, server, device, Quiet, Job
<1>2. CASE EndJob(d)
  BY <1>1, <1>2, QuietEnds, JobStep
<1>3. CASE SetJob(d, [job[d] EXCEPT !.as = who[d], !.live = TRUE, !.at = "ask"])
  <2> DEFINE j == [job[d] EXCEPT !.as = who[d], !.live = TRUE, !.at = "ask"]
  <2>1. j \in Job
    BY <1>1 DEF IInv, Types, DeviceTypes, Job, JobSet, Addressed, Owned
  <2>2. j.at = "ask" /\ j.op = job[d].op
    BY <1>1 DEF JobSet
  <2>3. job[d].op # "restore"
    BY <1>1, <1>3, OneJob, NoJobType, <2>1, <2>2 DEF IInv, Jobs, JobHolds, Restoring, Types, Put, Ask, Rewrap
  <2>4. JobHolds(j)
    BY <2>2, <2>3 DEF JobHolds, Sending, SettingUp, Restoring
  <2> QED BY <1>1, <1>3, <2>1, <2>4, QuietJobs, JobStep
<1>4. CASE Ask(d) /\ SetJob(d, [job[d] EXCEPT !.at = "publish"])
  <2> DEFINE j == [job[d] EXCEPT !.at = "publish"]
  <2>1. j \in Job /\ j.at = "publish" /\ j.op = "setup"
    BY <1>1, <1>4 DEF Ask, Job, JobSet, Addressed, Owned
  <2>2. JobHolds(j)
    BY <2>1 DEF JobHolds, Sending, SettingUp, Restoring
  <2> QED BY <1>1, <1>4, <2>1, <2>2, QuietJobs, JobStep
<1>5. CASE Rewrap(d) /\ SetJob(d, [job[d] EXCEPT !.at = "answer"])
  <2> DEFINE j == [job[d] EXCEPT !.at = "answer"]
  <2>1. j \in Job /\ j.at = "answer" /\ j.op = "rotate"
    BY <1>1, <1>5 DEF Rewrap, Job, JobSet, Addressed, Owned
  <2>2. JobHolds(j)
    BY <2>1 DEF JobHolds, Sending, SettingUp, Restoring
  <2> QED BY <1>1, <1>5, <2>1, <2>2, QuietJobs, JobStep
<1> QED BY <1>2, <1>3, <1>4, <1>5 DEF Put, Ask, Rewrap

\* A job that did not change holds, unless it is a restore that missed something.
LEMMA SameJob ==
    ASSUME Types, Jobs, Keys, Grows, NEW e \in Devices, job'[e] = job[e],
           job[e].op = "restore" => listed'[job[e].as] \in job[e].during
    PROVE  JobHolds(job[e])'
<1>1. PICK k \in Job : k = job[e]
  BY DEF Types
<1>2. JobHolds(k)'
  BY <1>1, JobCarries DEF Jobs
<1> QED BY <1>1, <1>2

LEMMA PublishHolds ==
    ASSUME IInv, [Next]_vars, NEW d \in Devices, Publish(d)
    PROVE  IInv'
<1>1. Types /\ Types' /\ Keys /\ Keys' /\ Grows /\ Jobs
  BY NextTypes, NextGrows, NextKeys DEF IInv
<1>2. PICK k \in Job : k = job[d]
  BY <1>1 DEF Types
<1>3. PICK a : a = k.as
  OBVIOUS
<1>4. k.op = "setup" /\ k.acct \in Accounts /\ k \in JobSet
  BY <1>1, <1>2, Somebody DEF Publish, Jobs, JobHolds, SettingUp, Job, None
<1>5. \A b \in Accounts : listed[b] # 0 => listed'[b] = listed[b]
  <2>1. CASE listed[a] = 0
    BY <1>1, <1>2, <1>3, <2>1 DEF Publish, List, Types, ServerTypes
  <2>2. CASE listed[a] # 0
    BY <1>2, <1>3, <2>2 DEF Publish
  <2> QED BY <2>1, <2>2
<1>6. ASSUME NEW e \in Devices, job'[e] = job[e] PROVE JobHolds(job[e])'
  <2>1. job[e].op = "restore" => listed'[job[e].as] \in job[e].during
    BY <1>1, <1>5, Somebody DEF Types, Jobs, JobHolds, Restoring, None
  <2> QED BY <1>1, <1>6, <2>1, SameJob
<1>7. Jobs'
  <2>1. CASE listed[a] = 0
    <3>1. PICK j : j = [k EXCEPT !.at = "answer"]
      OBVIOUS
    <3>2. j \in Job /\ j.at = "answer" /\ j.op = "setup" /\ j.acct = k.acct /\ j.id = k.id
      BY <1>4, <3>1 DEF Job, JobSet, Addressed, Owned
    <3>3. Kept(j.acct, j.id)'
      <4>1. CASE a = k.acct
        BY <1>1, <1>2, <1>3, <1>4, <2>1, <3>2, <4>1 DEF Publish, List, Kept, Types, ServerTypes
      <4>2. CASE a # k.acct
        BY <1>2, <1>3, <2>1, <3>2, <4>2 DEF Publish, Kept
      <4> QED BY <4>1, <4>2
    <3>4. JobHolds(j)'
      BY <3>2, <3>3 DEF JobHolds, Sending, SettingUp, Restoring
    <3>5. job'[d] = j /\ \A e \in Devices : e # d => job'[e] = job[e]
      BY <1>1, <1>2, <1>3, <2>1, <3>1, <3>2, OneJob DEF Publish, Types
    <3> QED BY <1>6, <3>4, <3>5 DEF Jobs
  <2>2. CASE listed[a] # 0
    <3>1. job'[d] = NoJob /\ \A e \in Devices : e # d => job'[e] = job[e]
      BY <1>1, <1>2, <1>3, <2>2, JobEnds DEF Publish, Types
    <3>2. JobHolds(NoJob)'
      BY DEF JobHolds, Sending, SettingUp, Restoring, NoJob, None
    <3> QED BY <1>6, <3>1, <3>2 DEF Jobs
  <2> QED BY <2>1, <2>2
<1> QED BY <1>7, JobStep DEF Publish, device

LEMMA ReplaceHolds ==
    ASSUME IInv, [Next]_vars, NEW a \in Accounts, Replace(a)
    PROVE  IInv'
<1>1. Types /\ Types' /\ Keys /\ Keys' /\ Grows /\ Jobs
  BY NextTypes, NextGrows, NextKeys DEF IInv
<1>2. PICK n : n = made'
  OBVIOUS
<1>3. listed'[a] = n /\ n \in authorised' /\ n # 0
        /\ \A b \in Accounts : b # a => listed'[b] = listed[b]
  BY <1>1, <1>2, MadeType DEF Replace, List, Types, ServerTypes
<1>4. ASSUME NEW e \in Devices PROVE JobHolds(job[e])'
  <2>1. PICK k \in Job : k = job[e]
    BY <1>1 DEF Types
  <2>2. k \in JobSet /\ JobHolds(k)
    BY <1>1, <2>1 DEF Jobs, Job
  <2>3. CASE ~(k.op = "restore" /\ k.as = a)
    <3>1. job'[e] = job[e]
      BY <2>1, <2>3 DEF Replace, Witnessed
    <3>2. k.op = "restore" => listed'[k.as] \in k.during
      BY <1>3, <2>2, <2>3, Somebody DEF JobHolds, Restoring, None
    <3> QED BY <1>1, <2>1, <3>1, <3>2, SameJob
  <2>4. CASE k.op = "restore" /\ k.as = a
    <3>1. PICK j : j = [k EXCEPT !.during = @ \cup {n}]
      OBVIOUS
    <3>2. job'[e] = j
      BY <1>2, <2>1, <2>4, <3>1 DEF Replace, Witnessed
    <3>3. /\ j.op = k.op /\ j.acct = k.acct /\ j.at = k.at /\ j.as = k.as /\ j.to = k.to
          /\ j.seen = k.seen /\ j.box = k.box /\ j.both = k.both
          /\ j.during = k.during \cup {n} /\ j.id = k.id
      BY <2>2, <3>1 DEF JobSet
    <3>4. Kept(j.acct, j.id)'
      BY <1>3, <2>2, <2>4, <3>3 DEF JobHolds, Restoring, Kept
    <3>5. j.at \in {"read", "save", "saved"}
      BY <2>2, <2>4, <3>3 DEF JobHolds, Restoring
    <3>6. JobHolds(j)'
      BY <1>3, <2>2, <2>4, <3>3, <3>4, <3>5 DEF JobHolds, Sending, SettingUp, Restoring
    <3> QED BY <3>2, <3>6
  <2> QED BY <2>3, <2>4
<1> QED BY <1>4, JobStep DEF Jobs, Replace, device

LEMMA SaveHolds ==
    ASSUME IInv, [Next]_vars, NEW d \in Devices, Save(d)
    PROVE  IInv'
<1>1. Types /\ Types' /\ Keys /\ Keys' /\ Grows /\ Quiet /\ UNCHANGED <<messages, who, status>>
  BY NextTypes, NextGrows, NextKeys DEF IInv, Save, server, device, Quiet
<1>2. job[d] \in Job /\ job[d] \in JobSet /\ JobHolds(job[d])
  BY <1>1 DEF IInv, Types, Jobs, Job
<1>3. job[d].acct \in Accounts /\ Kept(job[d].acct, job[d].id)
  BY <1>2, Somebody DEF Save, Saving, JobHolds, SettingUp, Restoring, None
<1>4. Jobs'
  <2>1. PICK j : j = [job[d] EXCEPT !.at = "saved"]
    OBVIOUS
  <2>2. /\ j \in Job /\ j.at = "saved" /\ j.op = job[d].op /\ j.acct = job[d].acct
        /\ j.id = job[d].id /\ j.as = job[d].as /\ j.seen = job[d].seen /\ j.box = job[d].box
        /\ j.during = job[d].during
    BY <1>2, <2>1 DEF Job, JobSet, Addressed, Owned
  <2>3. job[d].at = "save" \/ job[d].op # "restore"
    BY DEF Save, Saving
  <2>4. JobHolds(j)
    BY <1>2, <2>2, <2>3 DEF JobHolds, Sending, SettingUp, Restoring
  <2> QED BY <1>1, <2>1, <2>2, <2>4, QuietJobs DEF Save
<1>5. Stored'
  <2>1. \A e \in Devices, a \in Accounts :
          stored'[e][a] = stored[e][a] \/ (a = job[d].acct /\ stored'[e][a] = job[d].id)
    BY <1>1, <1>3 DEF Save, Types, DeviceTypes
  <2>2. \A a, i : Kept(a, i)' <=> Kept(a, i)
    BY <1>1 DEF Quiet, Kept
  <2> QED BY <1>3, <2>1, <2>2 DEF IInv, Stored
<1> QED BY <1>1, <1>4, <1>5, MessagesCarry, LockedCarries DEF IInv

LEMMA SavedHolds ==
    ASSUME IInv, [Next]_vars, NEW d \in Devices, Saved(d)
    PROVE  IInv'
<1>1. Types /\ Types' /\ Keys /\ Keys' /\ Grows /\ Quiet /\ UNCHANGED <<messages, who, stored>>
  BY NextTypes, NextGrows, NextKeys DEF IInv, Saved, server, Quiet
<1>2. Jobs'
  <2>1. CASE EndJob(d)
    BY <1>1, <2>1, QuietEnds
  <2>2. CASE job[d].op = "setup" /\ SetJob(d, [job[d] EXCEPT !.at = "report"])
    <3>1. PICK j : j = [job[d] EXCEPT !.at = "report"]
      OBVIOUS
    <3>2. j \in Job /\ j.at = "report" /\ j.op = "setup"
      BY <1>1, <2>2, <3>1 DEF Types, Job, JobSet, Addressed, Owned
    <3>3. JobHolds(j)
      BY <3>2 DEF JobHolds, Sending, SettingUp, Restoring
    <3> QED BY <1>1, <2>2, <3>1, <3>2, <3>3, QuietJobs
  <2> QED BY <2>1, <2>2 DEF Saved
<1>3. Locked'
  BY <1>1 DEF IInv, Locked, Quiet, Saved, Types, DeviceTypes
<1> QED BY <1>1, <1>2, <1>3, MessagesCarry, StoredCarries DEF IInv

LEMMA RestoresHold ==
    ASSUME IInv, [Next]_vars, NEW d \in Devices, NEW code \in Ids,
           StartRestore(d, code) \/ ReadBackup(d) \/ ReadStatus(d) \/ Unwrap(d)
    PROVE  IInv'
<1>1. Types /\ Quiet /\ UNCHANGED <<messages, who, status, stored>>
  BY DEF IInv, StartRestore, ReadBackup, ReadStatus, Unwrap, server, device, Quiet
<1>2. PICK k \in Job : k = job[d]
  BY <1>1 DEF Types
<1>3. k \in JobSet /\ JobHolds(k)
  BY <1>2 DEF IInv, Jobs, Job
<1>4. SUFFICES ASSUME ~EndJob(d) PROVE \E j \in Job : SetJob(d, j) /\ JobHolds(j)
  BY <1>1, QuietEnds, QuietJobs, JobStep
<1>5. job' \in [Devices -> Job]
  BY NextTypes DEF IInv, Types
<1>6. CASE StartRestore(d, code)
  <2>1. PICK j : j = [NoJob EXCEPT !.op = "restore", !.acct = who[d], !.as = who[d], !.at = "read",
                                   !.code = code, !.during = {listed[who[d]]}]
    OBVIOUS
  <2>2. SetJob(d, j) /\ j \in Job
    BY <1>1, <1>5, <1>6, <2>1 DEF StartRestore, SetJob, Types
  <2>3. /\ j.op = "restore" /\ j.acct = who[d] /\ j.as = who[d] /\ j.at = "read"
        /\ j.during = {listed[who[d]]} /\ j.seen = {} /\ j.box = {}
    <3>1. NoJob \in JobSet /\ NoJob.seen = {} /\ NoJob.box = {}
      BY NoJobType DEF NoJob, Job
    <3> QED BY <2>1, <3>1 DEF JobSet
  <2>4. listed[who[d]] # 0
    BY <1>6 DEF IInv, Locked, StartRestore
  <2>5. JobHolds(j)
    BY <2>3, <2>4 DEF JobHolds, Sending, SettingUp, Restoring
  <2> QED BY <2>2, <2>5
<1>7. CASE ReadBackup(d)
  <2>1. PICK j : j = [k EXCEPT !.box = {backup[k.as]}]
    OBVIOUS
  <2>2. SetJob(d, j) /\ j \in Job
    BY <1>1, <1>2, <1>4, <1>5, <1>7, <2>1 DEF ReadBackup, SetJob, Types
  <2>3. /\ j.op = k.op /\ j.acct = k.acct /\ j.as = k.as /\ j.at = "read"
        /\ j.during = k.during /\ j.seen = k.seen /\ j.box = {backup[k.as]}
    BY <1>2, <1>3, <1>7, <2>1 DEF ReadBackup, JobSet
  <2>4. JobHolds(j)
    BY <1>2, <1>3, <1>7, <2>3 DEF ReadBackup, JobHolds, Sending, SettingUp, Restoring
  <2> QED BY <2>2, <2>4
<1>8. CASE ReadStatus(d)
  <2>1. PICK j : j = [k EXCEPT !.seen = {listed[k.as]}]
    OBVIOUS
  <2>2. SetJob(d, j) /\ j \in Job
    BY <1>1, <1>2, <1>5, <1>8, <2>1 DEF ReadStatus, SetJob, Types
  <2>3. /\ j.op = k.op /\ j.acct = k.acct /\ j.as = k.as /\ j.at = "read"
        /\ j.during = k.during /\ j.seen = {listed[k.as]} /\ j.box = k.box
    BY <1>2, <1>3, <1>8, <2>1 DEF ReadStatus, JobSet
  <2>4. JobHolds(j)
    BY <1>2, <1>3, <1>8, <2>3 DEF ReadStatus, JobHolds, Sending, SettingUp, Restoring
  <2> QED BY <2>2, <2>4
<1>9. CASE Unwrap(d)
  <2>1. PICK box \in k.box : SetJob(d, [k EXCEPT !.at = "save", !.id = box.id]) /\ Opens(k)
    BY <1>2, <1>4, <1>9 DEF Unwrap
  <2>2. PICK j : j = [k EXCEPT !.at = "save", !.id = box.id]
    OBVIOUS
  <2>3. SetJob(d, j) /\ j \in Job
    BY <1>1, <1>5, <2>1, <2>2 DEF SetJob, Types
  <2>4. /\ j.op = k.op /\ j.acct = k.acct /\ j.as = k.as /\ j.at = "save" /\ j.id = box.id
        /\ j.during = k.during /\ j.seen = k.seen /\ j.box = k.box
    BY <1>3, <2>2 DEF JobSet
  <2>5. k.op = "restore" /\ k.at = "read" /\ k.seen # {}
    BY <1>2, <1>3, <1>9 DEF Unwrap, JobHolds, Restoring
  <2>6. k.seen \subseteq {0, box.id} /\ k.seen \subseteq k.during \ {0}
    BY <1>3, <2>1, <2>5 DEF Opens, JobHolds, Restoring
  <2>7. k.seen = {box.id} /\ box.id \in k.during
    BY <2>5, <2>6
  <2>8. Kept(k.acct, box.id)
    BY <1>3, <2>5, <2>7 DEF JobHolds, Restoring, Kept
  <2>9. JobHolds(j)
    BY <1>3, <2>4, <2>5, <2>7, <2>8 DEF JobHolds, Sending, SettingUp, Restoring
  <2> QED BY <2>3, <2>9
<1> QED BY <1>6, <1>7, <1>8, <1>9

LEMMA ComposeHolds ==
    ASSUME IInv, [Next]_vars, NEW d \in Devices, NEW a \in Accounts, Compose(d, a)
    PROVE  IInv'
<1>1. Types /\ Quiet /\ UNCHANGED <<messages, who, status, stored>> /\ job' \in [Devices -> Job]
  BY NextTypes DEF IInv, Types, Compose, server, device, Quiet
<1>2. PICK peer \in PeerKeys(a) :
        SetJob(d, [NoJob EXCEPT !.op = "send", !.acct = who[d], !.as = who[d], !.to = a,
                                !.at = "deliver", !.seen = {peer} \ {0},
                                !.id = IF peer = 0 THEN 0 ELSE loaded[d],
                                !.both = listed[who[d]] # 0 /\ listed[a] # 0])
  BY DEF Compose
<1>3. PICK j : j = [NoJob EXCEPT !.op = "send", !.acct = who[d], !.as = who[d], !.to = a,
                                 !.at = "deliver", !.seen = {peer} \ {0},
                                 !.id = IF peer = 0 THEN 0 ELSE loaded[d],
                                 !.both = listed[who[d]] # 0 /\ listed[a] # 0]
  OBVIOUS
<1>4. SetJob(d, j) /\ j \in Job
  BY <1>1, <1>2, <1>3 DEF SetJob, Types
<1>5. /\ j.op = "send" /\ j.as = who[d] /\ j.to = a /\ j.at = "deliver"
      /\ j.seen = {peer} \ {0} /\ j.both = (listed[who[d]] # 0 /\ listed[a] # 0)
  BY <1>3, NoJobType DEF Job, JobSet
<1>6. JobHolds(j)
  BY <1>5 DEF JobHolds, Sending, SettingUp, Restoring, PeerKeys
<1> QED BY <1>1, <1>4, <1>6, QuietJobs, JobStep

LEMMA DeliverHolds ==
    ASSUME IInv, [Next]_vars, NEW d \in Devices, Deliver(d)
    PROVE  IInv'
<1>1. Types' /\ Grows /\ Keys' /\ Types /\ Keys /\ Quiet /\ UNCHANGED <<who, status, stored>>
  BY NextTypes, NextGrows, NextKeys DEF IInv, Deliver, device, Quiet
<1>2. PICK k \in Job : k = job[d]
  BY <1>1 DEF Types
<1>3. k \in JobSet /\ Sending(k) /\ k.as \in Accounts /\ k.to \in Accounts /\ k.at = "deliver"
  BY <1>2 DEF IInv, Jobs, JobHolds, Job, Addressed, Deliver
<1>4. SealedBySender'
  <2>1. CASE messages' = messages
    BY <1>1, <2>1, MessagesCarry DEF IInv
  <2>2. CASE Accepts(k) /\ messages' = messages \cup {[from |-> k.as, to |-> k.to, sealed |-> k.seen,
                                                     signer |-> k.id, both |-> k.both]}
    <3>1. PICK m : m = [from |-> k.as, to |-> k.to, sealed |-> k.seen, signer |-> k.id, both |-> k.both]
      OBVIOUS
    <3>2. m.both => m.sealed # {}
      BY <1>3, <2>2, <3>1 DEF Accepts, Sending
    <3>3. m.sealed # {} => m.signer \in everListed[m.from] /\ m.sealed \subseteq everListed[m.to]
      BY <1>1, <1>3, <2>2, <3>1 DEF Accepts, Sending, Keys
    <3> QED BY <1>1, <2>2, <3>1, <3>2, <3>3 DEF IInv, SealedBySender, Quiet
  <2> QED BY <1>2, <2>1, <2>2 DEF Deliver
<1> QED BY <1>1, <1>4, QuietEnds, StoredCarries, LockedCarries DEF IInv, Deliver

LEMMA NextIInv == ASSUME IInv, [Next]_vars PROVE IInv'
<1>1. ASSUME NEW d \in Devices, DeviceStep(d) PROVE IInv'
  <2>1. CASE \E a \in Accounts : SignIn(d, a)
    BY <2>1, SessionsHold
  <2>2. CASE \/ \E forget \in BOOLEAN : SignOut(d, forget)
             \/ Restart(d) \/ Decide(d)
    <3>1. who[d] \in Accounts
      BY <2>2 DEF IInv, Types, DeviceTypes, SignOut, Restart, Decide, SignedIn
    <3> QED BY <2>2, <3>1, SessionsHold
  <2>3. CASE \E a \in Accounts : Compose(d, a)
    BY <2>3, ComposeHolds
  <2>4. CASE StartSetup(d) \/ StartRotate(d) \/ Put(d) \/ Rotated(d) \/ Report(d) \/ Lose(d)
    BY <2>4, StartsHold, ServerJobsHold, EndsHold
  <2>5. CASE Save(d) \/ Saved(d)
    BY <2>5, SaveHolds, SavedHolds
  <2>6. CASE \/ \E code \in Ids : StartRestore(d, code)
             \/ ReadBackup(d) \/ ReadStatus(d) \/ Unwrap(d)
    <3>1. 0 \in Ids
      BY NoJobType
    <3> QED BY <2>6, <3>1, RestoresHold
  <2> QED BY <1>1, <2>1, <2>2, <2>3, <2>4, <2>5, <2>6 DEF DeviceStep
<1>2. ASSUME NEW d \in Devices, ServerStep(d) PROVE IInv'
  BY <1>2, ServerJobsHold, PublishHolds, DeliverHolds DEF ServerStep
<1>3. CASE UNCHANGED vars
  <2>1. Quiet /\ UNCHANGED <<job, messages, who, status, stored>>
    BY <1>3 DEF vars, server, device, Quiet
  <2> QED BY <2>1, QuietJobsSame, JobStep
<1> QED BY <1>1, <1>2, <1>3, ReplaceHolds DEF Next

LEMMA Invariant == Spec => []IInv
  BY InitIInv, NextIInv, PTL DEF Spec

(* The identity a device keeps for an account is the one listed, unless it has
   been replaced with the password or another session's request listed it. *)
THEOREM StoredIdentity == Spec => []StoredIsListed
  BY Invariant, Consequences, PTL

(* What a restore saves was listed while the restore ran. *)
THEOREM RestoredIdentity == Spec => []RestoredWasListed
  BY Invariant, Consequences, PTL

(* A kept message is in the clear only where one of its accounts had no keys, and
   is otherwise signed by its sender's identity and sealed to its recipient's. *)
THEOREM MessagesAreSealed == Spec => []SealedBySender
<1>1. IInv => SealedBySender
  BY DEF IInv
<1> QED BY <1>1, Invariant, PTL

=============================================================================
