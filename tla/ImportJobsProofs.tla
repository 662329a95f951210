-------------------------- MODULE ImportJobsProofs --------------------------
(***************************************************************************)
(* Proofs about ImportJobs, for any number of accounts, jobs, requests and *)
(* permits.  The invariant of the runs is not inductive alone: that two    *)
(* tasks of one account do not meet follows from the partial unique index  *)
(* (IndexHolds) only because a running task's row is unfinished until it   *)
(* is overdue (LiveIsUnfinished), which needs that a row found stale       *)
(* belongs to a task already counted overdue (StaleIsOverdue) and that a   *)
(* start finds no task (DownIsIdle).                                       *)
(***************************************************************************)
EXTENDS ImportJobs, FiniteSetTheorems, TLAPS

Holders == {r \in Requests : Holding(r)}
Tasks   == {j \in Jobs : Live(j)}

RowsOK ==
    /\ up \in BOOLEAN
    /\ req \in [Requests -> [by : Users, at : {"idle", "reading", "reserving"}]]
    /\ job \in [Jobs -> [owner : Users, status : Statuses, stale : BOOLEAN]]
    /\ task \in [Jobs -> Phases]
    /\ library \in [Users -> 0 .. MaxCopies]
    /\ overdue \subseteq Jobs

IndexHolds ==
    \A j, k \in Jobs :
      j # k /\ job[j].owner = job[k].owner
      => ~(job[j].status \in NonFailed /\ job[k].status \in NonFailed)

LiveIsUnfinished == \A j \in Jobs : Live(j) /\ j \notin overdue => job[j].status \in Unfinished
StaleIsOverdue   == \A j \in Jobs : Live(j) /\ job[j].stale => j \in overdue
DownIsIdle       == ~up => \A j \in Jobs : ~Live(j)

Rows == RowsOK /\ IndexHolds /\ LiveIsUnfinished /\ StaleIsOverdue /\ DownIsIdle
Permits == free \in 0 .. Slots /\ SlotsAccounted
IInv == Rows /\ Permits

\* An idle request names an account.
LEMMA IdleType == Idle \in [by : Users, at : {"idle"}]
  BY ImportAssumption DEF Idle

\* The holders of permits are finite sets.
LEMMA FiniteHolders ==
    /\ IsFiniteSet(Holders) /\ Cardinality(Holders) \in Nat
    /\ IsFiniteSet(Tasks) /\ Cardinality(Tasks) \in Nat
<1>1. Holders \subseteq Requests /\ Tasks \subseteq Jobs
  BY DEF Holders, Tasks
<1> QED BY <1>1, ImportAssumption, FS_Subset, FS_CardinalityType

\* The initial state satisfies the invariant.
LEMMA InitIInv == ASSUME Init PROVE IInv
<1>1. RowsOK
  BY IdleType, ImportAssumption DEF Init, RowsOK, Statuses, NonFailed, Unfinished, Phases, MaxCopies
<1>2. IndexHolds /\ LiveIsUnfinished /\ StaleIsOverdue /\ DownIsIdle
  BY DEF Init, IndexHolds, LiveIsUnfinished, StaleIsOverdue, DownIsIdle, Live, NonFailed, Unfinished
<1>3. Holders = {} /\ Tasks = {}
  BY DEF Init, Holders, Tasks, Holding, Live, Idle
<1>4. Permits
  <2>1. Cardinality({r \in Requests : Holding(r)}) = 0 /\ Cardinality({j \in Jobs : Live(j)}) = 0
    BY <1>3, FS_EmptySet DEF Holders, Tasks
  <2> QED BY <2>1, ImportAssumption DEF Permits, SlotsAccounted, Init
<1> QED BY <1>1, <1>2, <1>4 DEF IInv, Rows

-----------------------------------------------------------------------------
(* Rows and tasks *)

\* A status write the index accepts, or none, keeps the rows in order.
LEMMA WriteStatus ==
    ASSUME Rows, NEW j \in Jobs, NEW s \in Statuses, SetStatus(j, s) \/ UNCHANGED job
    PROVE  /\ job' \in [Jobs -> [owner : Users, status : Statuses, stale : BOOLEAN]]
           /\ IndexHolds'
           /\ \A k \in Jobs : k # j => job'[k] = job[k]
           /\ job'[j] = job[j] \/ job'[j] = Row(j, s)
<1>1. CASE UNCHANGED job
  BY <1>1 DEF Rows, RowsOK, IndexHolds
<1>2. CASE SetStatus(j, s)
  <2> DEFINE x == Row(j, s)
  <2>1. x \in [owner : Users, status : Statuses, stale : BOOLEAN]
          /\ x.owner = job[j].owner /\ x.status = s
    BY DEF Row, Rows, RowsOK
  <2>2. job' = [job EXCEPT ![j] = x] /\ Accepts(j, s)
    BY <1>2 DEF SetStatus
  <2> HIDE DEF x
  <2>3. job' \in [Jobs -> [owner : Users, status : Statuses, stale : BOOLEAN]]
          /\ job'[j] = x /\ \A k \in Jobs : k # j => job'[k] = job[k]
    BY <2>1, <2>2 DEF Rows, RowsOK
  <2>4. IndexHolds'
    BY <2>1, <2>2, <2>3 DEF IndexHolds, Accepts, Reserved, Rows, RowsOK
  <2> QED BY <2>3, <2>4 DEF x
<1> QED BY <1>1, <1>2

\* A release keeps them too: it only fails unfinished rows.
LEMMA Released ==
    ASSUME Rows, NEW S \in SUBSET Jobs, Release(S)
    PROVE  /\ job' \in [Jobs -> [owner : Users, status : Statuses, stale : BOOLEAN]]
           /\ IndexHolds'
           /\ \A k \in Jobs \ S : job'[k] = job[k]
           /\ \A k \in S : job'[k].stale = FALSE
<1>1. \A k \in Jobs : job'[k] = IF k \in S THEN Row(k, "failed") ELSE job[k]
  BY DEF Release
<1>2. \A k \in Jobs : Row(k, "failed") = [owner |-> job[k].owner, status |-> "failed", stale |-> FALSE]
  BY DEF Row
<1>3. job' \in [Jobs -> [owner : Users, status : Statuses, stale : BOOLEAN]]
  <2> DEFINE y(k) == IF k \in S THEN Row(k, "failed") ELSE job[k]
  <2>1. ASSUME NEW k \in Jobs PROVE y(k) \in [owner : Users, status : Statuses, stale : BOOLEAN]
    <3>1. job[k] \in [owner : Users, status : Statuses, stale : BOOLEAN]
      BY DEF Rows, RowsOK
    <3>2. Row(k, "failed") \in [owner : Users, status : Statuses, stale : BOOLEAN]
      BY <3>1 DEF Row, Statuses
    <3> QED BY <3>1, <3>2
  <2>2. job' = [k \in Jobs |-> y(k)]
    BY DEF Release
  <2> HIDE DEF y
  <2> QED BY <2>1, <2>2
<1>4. \A k \in Jobs : /\ job'[k].owner = job[k].owner
                      /\ job'[k].status \in NonFailed => job[k].status \in NonFailed
  BY <1>1, <1>2 DEF NonFailed, Unfinished
<1>5. IndexHolds'
  <2> SUFFICES ASSUME NEW j \in Jobs, NEW k \in Jobs, j # k, job'[j].owner = job'[k].owner,
                      job'[j].status \in NonFailed, job'[k].status \in NonFailed
               PROVE  FALSE
    BY DEF IndexHolds
  <2>1. /\ job[j].owner = job[k].owner
        /\ job[j].status \in NonFailed /\ job[k].status \in NonFailed
    BY <1>4
  <2>2. IndexHolds
    BY DEF Rows
  <2> QED BY <2>1, <2>2 DEF IndexHolds
<1> QED BY <1>1, <1>2, <1>3, <1>5

\* A new row of an account that has none the index holds.
LEMMA Inserted ==
    ASSUME Rows, NEW r \in Requests, NEW j \in Jobs, Insert(r, j)
    PROVE  /\ job' \in [Jobs -> [owner : Users, status : Statuses, stale : BOOLEAN]]
           /\ IndexHolds'
           /\ \A k \in Jobs : k # j => job'[k] = job[k]
           /\ job'[j].status = "pending" /\ job'[j].stale = FALSE
           /\ req' \in [Requests -> [by : Users, at : {"idle", "reading", "reserving"}]]
<1> DEFINE x == [owner |-> req[r].by, status |-> "pending", stale |-> FALSE]
<1>1. x \in [owner : Users, status : Statuses, stale : BOOLEAN]
        /\ x.owner = req[r].by /\ x.status = "pending" /\ x.stale = FALSE
  BY DEF Rows, RowsOK, Statuses, NonFailed, Unfinished
<1>2. job' = [job EXCEPT ![j] = x] /\ Reserved(req[r].by) = {} /\ req' = [req EXCEPT ![r] = Idle]
  BY DEF Insert
<1> HIDE DEF x
<1>3. job' \in [Jobs -> [owner : Users, status : Statuses, stale : BOOLEAN]]
        /\ job'[j] = x /\ \A k \in Jobs : k # j => job'[k] = job[k]
  BY <1>1, <1>2 DEF Rows, RowsOK
<1>4. IndexHolds'
  BY <1>1, <1>2, <1>3 DEF IndexHolds, Reserved, Rows, RowsOK
<1>5. req' \in [Requests -> [by : Users, at : {"idle", "reading", "reserving"}]]
  BY <1>2, IdleType DEF Rows, RowsOK
<1> QED BY <1>1, <1>3, <1>4, <1>5

-----------------------------------------------------------------------------
(* Each step keeps the rows in order *)

\* Steps of a request.
LEMMA HandleRows ==
    ASSUME Rows, NEW r \in Requests,
           \/ \E u \in Users : Admit(r, u)
           \/ Handle(r)
    PROVE  Rows'
<1> USE DEF Rows
<1>1. CASE \E u \in Users : Admit(r, u)
  <2>1. PICK u \in Users : Admit(r, u)
    BY <1>1
  <2> DEFINE x == [by |-> u, at |-> "reading"]
  <2>2. x \in [by : Users, at : {"idle", "reading", "reserving"}]
    OBVIOUS
  <2>3. req' = [req EXCEPT ![r] = x]
    BY <2>1 DEF Admit
  <2> HIDE DEF x
  <2>4. RowsOK'
    BY <2>1, <2>2, <2>3 DEF Admit, RowsOK
  <2> QED BY <2>1, <2>4 DEF Admit, IndexHolds, LiveIsUnfinished, StaleIsOverdue, DownIsIdle, Live
<1>2. CASE Refuse(r)
  <2>1. RowsOK'
    BY <1>2, IdleType DEF Refuse, RowsOK
  <2> QED BY <1>2, <2>1 DEF Refuse, IndexHolds, LiveIsUnfinished, StaleIsOverdue, DownIsIdle, Live
<1>3. CASE ReleaseFails(r)
  <2>1. RowsOK'
    BY <1>3 DEF ReleaseFails, RowsOK
  <2> QED BY <1>3, <2>1 DEF ReleaseFails, IndexHolds, LiveIsUnfinished, StaleIsOverdue, DownIsIdle, Live
<1>4. CASE ReleaseStale(r)
  <2> DEFINE S == Stale(req[r].by)
  <2>1. S \in SUBSET Jobs /\ \A k \in S : job[k].stale
    BY DEF Stale, Interrupted
  <2>2. Release(S)
    BY <1>4 DEF ReleaseStale
  <2> HIDE DEF S
  <2>3. /\ job' \in [Jobs -> [owner : Users, status : Statuses, stale : BOOLEAN]]
        /\ IndexHolds'
        /\ \A k \in Jobs \ S : job'[k] = job[k]
        /\ \A k \in S : job'[k].stale = FALSE
    BY <2>1, <2>2, Released
  <2>4. RowsOK'
    BY <1>4, <2>2, <2>3 DEF ReleaseStale, RowsOK
  <2>5. LiveIsUnfinished' /\ StaleIsOverdue' /\ DownIsIdle'
    BY <1>4, <2>1, <2>3 DEF ReleaseStale, LiveIsUnfinished, StaleIsOverdue, DownIsIdle, Live
  <2> QED BY <2>3, <2>4, <2>5
<1>5. ASSUME NEW j \in Jobs, Reserve(r, j) \/ ReserveAndVanish(r, j)
      PROVE  Rows'
  <2>1. Insert(r, j)
    BY <1>5 DEF Reserve, ReserveAndVanish
  <2>2. /\ job' \in [Jobs -> [owner : Users, status : Statuses, stale : BOOLEAN]]
        /\ IndexHolds'
        /\ \A k \in Jobs : k # j => job'[k] = job[k]
        /\ job'[j].status = "pending" /\ job'[j].stale = FALSE
        /\ req' \in [Requests -> [by : Users, at : {"idle", "reading", "reserving"}]]
    BY <2>1, Inserted
  <2>3. up /\ ~Live(j) /\ UNCHANGED <<up, library, overdue>>
    BY <1>5 DEF Reserve, ReserveAndVanish, Insert, Spare
  <2>4. CASE Reserve(r, j)
    <3>1. task' = [task EXCEPT ![j] = "starting"]
      BY <2>4 DEF Reserve
    <3>2. RowsOK'
      BY <2>2, <2>3, <3>1 DEF RowsOK, Phases
    <3>3. LiveIsUnfinished' /\ StaleIsOverdue' /\ DownIsIdle'
      BY <2>2, <2>3, <3>1 DEF RowsOK, LiveIsUnfinished, StaleIsOverdue, DownIsIdle, Live, Unfinished
    <3> QED BY <2>2, <3>2, <3>3
  <2>5. CASE ReserveAndVanish(r, j)
    <3>1. UNCHANGED task
      BY <2>5 DEF ReserveAndVanish
    <3>2. RowsOK'
      BY <2>2, <2>3, <3>1 DEF RowsOK
    <3>3. LiveIsUnfinished' /\ StaleIsOverdue' /\ DownIsIdle'
      BY <2>2, <2>3, <3>1 DEF RowsOK, LiveIsUnfinished, StaleIsOverdue, DownIsIdle, Live, Unfinished
    <3> QED BY <2>2, <3>2, <3>3
  <2> QED BY <1>5, <2>4, <2>5
<1> QED BY <1>1, <1>2, <1>3, <1>4, <1>5 DEF Handle

\* The end of a task: its own row changes, and it is no longer live.
LEMMA EndRows ==
    ASSUME Rows, NEW j \in Jobs, NEW s \in Statuses, up, End(j, s)
    PROVE  Rows'
<1> USE DEF Rows
<1>1. task' = [task EXCEPT ![j] = "none"] /\ overdue' = overdue \ {j} /\ UNCHANGED <<up, req, library>>
  BY DEF End
<1>2. SetStatus(j, s) \/ UNCHANGED job
  BY DEF End
<1>3. /\ job' \in [Jobs -> [owner : Users, status : Statuses, stale : BOOLEAN]]
      /\ IndexHolds'
      /\ \A k \in Jobs : k # j => job'[k] = job[k]
  BY <1>2, WriteStatus
<1>5. RowsOK'
  BY <1>1, <1>3 DEF RowsOK, Phases
<1>6. LiveIsUnfinished' /\ StaleIsOverdue' /\ DownIsIdle'
  BY <1>1, <1>3 DEF RowsOK, LiveIsUnfinished, StaleIsOverdue, DownIsIdle, Live
<1> QED BY <1>3, <1>5, <1>6

\* Steps of a task.
LEMMA RunRows == ASSUME Rows, NEW j \in Jobs, Run(j) PROVE Rows'
<1> USE DEF Rows
<1>1. CASE Start(j)
  <2>1. up /\ Live(j) /\ task' = [task EXCEPT ![j] = "resolving"] /\ UNCHANGED <<up, req, library, overdue>>
    BY <1>1 DEF Start, Live
  <2>2. /\ job' \in [Jobs -> [owner : Users, status : Statuses, stale : BOOLEAN]]
        /\ IndexHolds'
        /\ \A k \in Jobs : k # j => job'[k] = job[k]
        /\ job'[j] = job[j] \/ job'[j] = Row(j, "running")
    <3>1. SetStatus(j, "running") \/ UNCHANGED job
      BY <1>1 DEF Start
    <3>2. "running" \in Statuses
      BY DEF Statuses, NonFailed, Unfinished
    <3> QED BY <3>1, <3>2, WriteStatus
  <2>3. RowsOK'
    BY <2>1, <2>2 DEF RowsOK, Phases
  <2>4. Row(j, "running").status \in Unfinished /\ Row(j, "running").stale = FALSE
    BY DEF Row, Unfinished
  <2>5. LiveIsUnfinished' /\ StaleIsOverdue' /\ DownIsIdle'
    BY <2>1, <2>2, <2>4 DEF RowsOK, LiveIsUnfinished, StaleIsOverdue, DownIsIdle, Live
  <2> QED BY <2>2, <2>3, <2>5
<1>2. CASE Progress(j)
  <2>1. job' = [job EXCEPT ![j].stale = FALSE] /\ UNCHANGED <<up, req, task, library, overdue>>
    BY <1>2 DEF Progress
  <2>2. \A k \in Jobs : job'[k].owner = job[k].owner /\ job'[k].status = job[k].status
                        /\ (job'[k].stale => job[k].stale)
    BY <2>1 DEF RowsOK
  <2>3. RowsOK'
    BY <2>1 DEF RowsOK
  <2> QED BY <2>1, <2>2, <2>3 DEF IndexHolds, LiveIsUnfinished, StaleIsOverdue, DownIsIdle, Live
<1>3. CASE Import(j)
  <2>1. /\ Live(j) /\ task' = [task EXCEPT ![j] = "wrote"]
        /\ UNCHANGED <<up, req, job, overdue>>
    BY <1>3 DEF Import, Live
  <2>2. library' \in [Users -> 0 .. MaxCopies]
    BY <1>3 DEF Import, RowsOK, MaxCopies
  <2>3. RowsOK'
    BY <2>1, <2>2 DEF RowsOK, Phases
  <2> QED BY <2>1, <2>3 DEF RowsOK, IndexHolds, LiveIsUnfinished, StaleIsOverdue, DownIsIdle, Live
<1>4. CASE Err(j)
  <2>1. /\ Live(j) /\ task' = [task EXCEPT ![j] = "failing"]
        /\ UNCHANGED <<up, req, job, library, overdue>>
    BY <1>4 DEF Err, Live
  <2>2. RowsOK'
    BY <2>1 DEF RowsOK, Phases
  <2> QED BY <2>1, <2>2 DEF RowsOK, IndexHolds, LiveIsUnfinished, StaleIsOverdue, DownIsIdle, Live
<1>5. CASE Complete(j)
  BY <1>5, EndRows DEF Complete, Statuses, NonFailed
<1>6. CASE Fail(j)
  BY <1>6, EndRows DEF Fail, Statuses
<1> QED BY <1>1, <1>2, <1>3, <1>4, <1>5, <1>6 DEF Run

\* Time, crashes and starts.
LEMMA WorldRows ==
    ASSUME Rows, Crash \/ Boot \/ \E j \in Jobs : Age(j)
    PROVE  Rows'
<1> USE DEF Rows
<1>1. CASE Crash
  <2>1. RowsOK'
    BY <1>1, IdleType DEF Crash, RowsOK, Phases
  <2> QED BY <1>1, <2>1 DEF Crash, IndexHolds, LiveIsUnfinished, StaleIsOverdue, DownIsIdle, Live
<1>2. CASE Boot
  <2>1. Interrupted \in SUBSET Jobs /\ Release(Interrupted)
    BY <1>2 DEF Boot, Interrupted
  <2>2. job' \in [Jobs -> [owner : Users, status : Statuses, stale : BOOLEAN]] /\ IndexHolds'
    BY <2>1, Released
  <2>3. RowsOK'
    BY <1>2, <2>2 DEF Boot, RowsOK
  <2>4. \A j \in Jobs : ~Live(j)'
    BY <1>2 DEF Boot, DownIsIdle, Live
  <2> QED BY <1>2, <2>2, <2>3, <2>4 DEF Boot, LiveIsUnfinished, StaleIsOverdue, DownIsIdle
<1>3. ASSUME NEW j \in Jobs, Age(j) PROVE Rows'
  <2>1. /\ job' = [job EXCEPT ![j].stale = TRUE]
        /\ overdue' = IF Live(j) THEN overdue \cup {j} ELSE overdue
        /\ UNCHANGED <<up, req, task, library>>
    BY <1>3 DEF Age
  <2>2. \A k \in Jobs : job'[k].owner = job[k].owner /\ job'[k].status = job[k].status
                        /\ (k # j => job'[k] = job[k])
    BY <2>1 DEF RowsOK
  <2>3. RowsOK'
    BY <2>1 DEF RowsOK
  <2> QED BY <2>1, <2>2, <2>3 DEF IndexHolds, LiveIsUnfinished, StaleIsOverdue, DownIsIdle, Live
<1> QED BY <1>1, <1>2, <1>3

-----------------------------------------------------------------------------
(* Permits *)

\* One request or one task fewer, or more, counts one permit.
LEMMA CountHolders ==
    ASSUME RowsOK
    PROVE  /\ \A r \in Requests : r \in Holders =>
                Cardinality(Holders \ {r}) = Cardinality(Holders) - 1
           /\ \A r \in Requests : r \notin Holders =>
                Cardinality(Holders \cup {r}) = Cardinality(Holders) + 1
           /\ \A j \in Jobs : j \in Tasks =>
                Cardinality(Tasks \ {j}) = Cardinality(Tasks) - 1
           /\ \A j \in Jobs : j \notin Tasks =>
                Cardinality(Tasks \cup {j}) = Cardinality(Tasks) + 1
<1>1. \A r \in Holders : Cardinality(Holders \ {r}) = Cardinality(Holders) - 1
  BY FiniteHolders, FS_RemoveElement
<1>2. \A j \in Tasks : Cardinality(Tasks \ {j}) = Cardinality(Tasks) - 1
  BY FiniteHolders, FS_RemoveElement
<1>3. \A r : r \notin Holders => Cardinality(Holders \cup {r}) = Cardinality(Holders) + 1
  BY FiniteHolders, FS_AddElement
<1>4. \A j : j \notin Tasks => Cardinality(Tasks \cup {j}) = Cardinality(Tasks) + 1
  BY FiniteHolders, FS_AddElement
<1> QED BY <1>1, <1>2, <1>3, <1>4

\* The permits add up again when the holders change by what `free' changes.
LEMMA PermitsKept ==
    ASSUME Permits, free' \in Int, Cardinality(Holders') \in Nat, Cardinality(Tasks') \in Nat,
           free' + Cardinality(Holders') + Cardinality(Tasks')
             = free + Cardinality(Holders) + Cardinality(Tasks),
           free' >= 0
    PROVE  Permits'
<1>1. free + Cardinality(Holders) + Cardinality(Tasks) = Slots
  BY DEF Permits, SlotsAccounted, Holders, Tasks
<1>2. free' + Cardinality(Holders') + Cardinality(Tasks') = Slots /\ free' \in 0 .. Slots
  BY <1>1, ImportAssumption
<1> QED BY <1>2 DEF Permits, SlotsAccounted, Holders, Tasks

\* Every step accounts for the permits.
LEMMA StepPermits == ASSUME IInv, [Next]_vars PROVE Permits'
<1> USE DEF IInv, Rows
<1>1. free \in Nat /\ Cardinality(Holders) \in Nat /\ Cardinality(Tasks) \in Nat
  BY FiniteHolders, ImportAssumption DEF Permits
<1>2. ASSUME NEW r \in Requests, NEW u \in Users, Admit(r, u) PROVE Permits'
  <2>1. r \notin Holders /\ Holders' = Holders \cup {r} /\ Tasks' = Tasks
    BY <1>2 DEF Admit, Holders, Holding, Tasks, Live, RowsOK
  <2>2. Cardinality(Holders') = Cardinality(Holders) + 1
    BY <2>1, CountHolders
  <2> QED BY <1>1, <1>2, <2>1, <2>2, PermitsKept DEF Admit
<1>3. ASSUME NEW r \in Requests, Refuse(r) PROVE Permits'
  <2>1. r \in Holders /\ Holders' = Holders \ {r} /\ Tasks' = Tasks
    BY <1>3 DEF Refuse, Holders, Holding, Tasks, Live, RowsOK, Idle
  <2>2. Cardinality(Holders') = Cardinality(Holders) - 1 /\ Cardinality(Holders') \in Nat
    BY <1>1, <2>1, CountHolders, FiniteHolders, FS_Subset, FS_CardinalityType
  <2> QED BY <1>1, <1>3, <2>1, <2>2, PermitsKept DEF Refuse
<1>4. ASSUME NEW r \in Requests, ReleaseStale(r) \/ ReleaseFails(r) PROVE Permits'
  <2>1. Holders' = Holders /\ Tasks' = Tasks /\ free' = free
    BY <1>4 DEF ReleaseStale, ReleaseFails, Holders, Holding, Tasks, Live, RowsOK
  <2> QED BY <1>1, <2>1, PermitsKept
<1>5. ASSUME NEW r \in Requests, NEW j \in Jobs, Reserve(r, j) PROVE Permits'
  <2>1. r \in Holders /\ Holders' = Holders \ {r}
    BY <1>5 DEF Reserve, Insert, Holders, Holding, RowsOK, Idle
  <2>2. j \notin Tasks /\ Tasks' = Tasks \cup {j}
    BY <1>5 DEF Reserve, Insert, Spare, Tasks, Live, RowsOK
  <2>3. Cardinality(Holders') = Cardinality(Holders) - 1 /\ Cardinality(Holders') \in Nat
    BY <1>1, <2>1, CountHolders, FiniteHolders, FS_Subset, FS_CardinalityType
  <2>4. Cardinality(Tasks') = Cardinality(Tasks) + 1
    BY <2>2, CountHolders
  <2> QED BY <1>1, <1>5, <2>3, <2>4, PermitsKept DEF Reserve
<1>6. ASSUME NEW r \in Requests, NEW j \in Jobs, ReserveAndVanish(r, j) PROVE Permits'
  <2>1. r \in Holders /\ Holders' = Holders \ {r} /\ Tasks' = Tasks
    BY <1>6 DEF ReserveAndVanish, Insert, Holders, Holding, Tasks, Live, RowsOK, Idle
  <2>2. Cardinality(Holders') = Cardinality(Holders) - 1 /\ Cardinality(Holders') \in Nat
    BY <1>1, <2>1, CountHolders, FiniteHolders, FS_Subset, FS_CardinalityType
  <2> QED BY <1>1, <1>6, <2>1, <2>2, PermitsKept DEF ReserveAndVanish
<1>7. ASSUME NEW j \in Jobs, Start(j) \/ Progress(j) \/ Import(j) \/ Err(j) PROVE Permits'
  <2>1. Holders' = Holders /\ free' = free
    BY <1>7 DEF Start, Progress, Import, Err, Holders, Holding
  <2>2. Tasks' = Tasks
    BY <1>7 DEF Start, Progress, Import, Err, Tasks, Live, RowsOK
  <2> QED BY <1>1, <2>1, <2>2, PermitsKept
<1>8. ASSUME NEW j \in Jobs, Complete(j) \/ Fail(j) PROVE Permits'
  <2>1. /\ task' = [task EXCEPT ![j] = "none"] /\ free' = free + 1 /\ req' = req
        /\ task[j] # "none"
    BY <1>8 DEF Complete, Fail, End
  <2>2. j \in Tasks /\ Tasks' = Tasks \ {j} /\ Holders' = Holders
    BY <2>1 DEF Tasks, Live, Holders, Holding, RowsOK
  <2>3. Cardinality(Tasks') = Cardinality(Tasks) - 1 /\ Cardinality(Tasks') \in Nat
    BY <1>1, <2>2, CountHolders, FiniteHolders, FS_Subset, FS_CardinalityType
  <2> QED BY <1>1, <2>1, <2>2, <2>3, PermitsKept
<1>9. CASE (\E j \in Jobs : Age(j)) \/ Boot \/ UNCHANGED vars
  <2>1. Holders' = Holders /\ Tasks' = Tasks /\ free' = free
    BY <1>9 DEF Age, Boot, vars, Holders, Holding, Tasks, Live
  <2> QED BY <1>1, <2>1, PermitsKept
<1>10. CASE Crash
  <2>1. Holders' = {} /\ Tasks' = {} /\ free' = Slots
    BY <1>10 DEF Crash, Holders, Holding, Tasks, Live, Idle
  <2>2. Cardinality(Holders') = 0 /\ Cardinality(Tasks') = 0
    BY <2>1, FS_EmptySet
  <2>3. free' + Cardinality(Holders') + Cardinality(Tasks') = Slots
    BY <2>1, <2>2, ImportAssumption
  <2> QED BY <2>1, <2>3, ImportAssumption DEF Permits, SlotsAccounted, Holders, Tasks
<1> QED BY <1>2, <1>3, <1>4, <1>5, <1>6, <1>7, <1>8, <1>9, <1>10 DEF Next, Handle, Run

-----------------------------------------------------------------------------
(* Theorems *)

\* The invariant is inductive.
THEOREM Inductive == Spec => []IInv
<1>1. Init => IInv
  BY InitIInv
<1>2. IInv /\ [Next]_vars => IInv'
  <2> SUFFICES ASSUME IInv, [Next]_vars PROVE IInv'
    OBVIOUS
  <2>1. Permits'
    BY StepPermits
  <2>2. Rows'
    <3>1. CASE Next
      BY <3>1, HandleRows, RunRows, WorldRows DEF IInv, Next
    <3>2. CASE UNCHANGED vars
      BY <3>2 DEF IInv, Rows, vars, RowsOK, IndexHolds, LiveIsUnfinished, StaleIsOverdue, DownIsIdle, Live
    <3> QED BY <3>1, <3>2
  <2> QED BY <2>1, <2>2 DEF IInv
<1> QED BY <1>1, <1>2, PTL DEF Spec

\* Every variable keeps its type (start_import, run_import and the sweeps).
THEOREM TypeCorrect == Spec => []TypeOK
<1>1. IInv => TypeOK
  BY DEF IInv, Rows, RowsOK, Permits, TypeOK
<1> QED BY <1>1, Inductive, PTL

\* No path of the handler or of the task keeps a permit of IMPORT_SLOTS or gives
\* one back twice.
THEOREM PermitsAddUp == Spec => []SlotsAccounted
<1>1. IInv => SlotsAccounted
  BY DEF IInv, Permits
<1> QED BY <1>1, Inductive, PTL

\* An account never has two tasks importing at once, unless one of them let six
\* hours pass without a write to its row.
THEOREM NoTwoTasks == Spec => []OneTaskPerAccount
<1>1. IInv => OneTaskPerAccount
  <2> SUFFICES ASSUME IInv, NEW j \in Jobs, NEW k \in Jobs, Live(j), Live(k), j # k,
                      job[j].owner = job[k].owner, j \notin overdue, k \notin overdue
               PROVE  FALSE
    BY DEF OneTaskPerAccount
  <2>1. job[j].status \in NonFailed /\ job[k].status \in NonFailed
    BY DEF IInv, Rows, LiveIsUnfinished, NonFailed
  <2> QED BY <2>1 DEF IInv, Rows, IndexHolds
<1> QED BY <1>1, Inductive, PTL

\* Nothing is imported into an account whose import was completed, unless by a
\* task that let six hours pass without a write to its row and was given up.
THEOREM CompletedFinal == Spec => CompletedImportIsFinal
<1>1. ASSUME IInv, [Next]_vars, NEW j \in Jobs, job[j].status = "completed",
             library'[job[j].owner] # library[job[j].owner]
      PROVE  \E k \in overdue : Live(k) /\ job[k].owner = job[j].owner
  <2>1. PICK k \in Jobs : Import(k)
    <3>1. library' # library
      BY <1>1
    <3> QED
      BY <1>1, <3>1 DEF Next, vars, Handle, Run, Admit, Refuse, ReleaseStale, ReleaseFails, Reserve,
         ReserveAndVanish, Start, Progress, Err, Complete, Fail, End, Age, Crash, Boot
  <2>2. Live(k)
    BY <2>1 DEF Import, Live
  <2>3. job[k].owner = job[j].owner
    <3>1. job[j].owner \in Users /\ library \in [Users -> 0 .. MaxCopies]
      BY <1>1 DEF IInv, Rows, RowsOK
    <3> QED
      BY <1>1, <2>1, <3>1 DEF Import
  <2>4. k \in overdue
    <3> SUFFICES ASSUME k \notin overdue PROVE FALSE
      OBVIOUS
    <3>1. job[k].status \in Unfinished
      BY <1>1, <2>2 DEF IInv, Rows, LiveIsUnfinished
    <3>2. k # j /\ job[k].status \in NonFailed /\ job[j].status \in NonFailed
      BY <1>1, <3>1 DEF Unfinished, NonFailed
    <3> QED
      BY <1>1, <2>3, <3>2 DEF IInv, Rows, IndexHolds
  <2> QED
    BY <2>2, <2>3, <2>4
<1>2. IInv /\ [Next]_vars =>
        [\A j \in Jobs :
           /\ job[j].status = "completed"
           /\ library'[job[j].owner] # library[job[j].owner]
           => \E k \in overdue : Live(k) /\ job[k].owner = job[j].owner]_vars
  BY <1>1
<1> QED
  BY <1>2, Inductive, PTL DEF Spec, CompletedImportIsFinal

=============================================================================
