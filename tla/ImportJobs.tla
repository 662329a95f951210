----------------------------- MODULE ImportJobs -----------------------------
(***************************************************************************)
(* The admission and the life of a TV Time import:                         *)
(* backend/src/routes/import.rs (start_import), services/importer.rs       *)
(* (run_import, import_all, release_interrupted_jobs, release_stale_jobs)  *)
(* and the sweep at the start of main.rs.                                  *)
(*                                                                         *)
(* A request takes a permit of IMPORT_SLOTS, reads and validates its       *)
(* upload, releases the account's stale jobs, and reserves the account by  *)
(* inserting a job row under the partial unique index; the task it spawns  *)
(* inherits the permit.  The task's transaction is one step, its status    *)
(* writes are others, and each of them may be lost.  A crash takes every   *)
(* request and every task; the rows stay.                                  *)
(*                                                                         *)
(* A failed row is read by no decision, so its identity is used again for  *)
(* a later job once its task has ended.  The titles of a library, the      *)
(* parsing of the upload and the progress figures are left out.            *)
(***************************************************************************)
EXTENDS Integers, FiniteSets

CONSTANTS Users,     \* accounts
          Jobs,      \* identities of import_jobs rows
          Requests,  \* concurrent POST /import/tvtime
          Slots,     \* MAX_CONCURRENT_IMPORTS
          SlowTasks  \* whether a running task may pass six hours without a write

ASSUME ImportAssumption ==
    /\ Slots \in Nat \ {0} /\ SlowTasks \in BOOLEAN
    /\ Users # {} /\ IsFiniteSet(Jobs) /\ IsFiniteSet(Requests)

VARIABLES
    up,       \* the process is running
    free,     \* permits of the semaphore nobody holds
    req,      \* per request: whose it is and where it stands
    job,      \* import_jobs: owner, status and whether updated_at is over six hours old
    task,     \* per job: where its spawned task stands, "none" when there is none
    library,  \* per account: how many times an import's transaction was committed
    overdue   \* jobs whose running task let six hours pass without a write

vars == <<up, free, req, job, task, library, overdue>>

Unfinished == {"pending", "running"}
NonFailed  == Unfinished \cup {"completed"}
Statuses   == NonFailed \cup {"none", "failed"}
Phases     == {"none", "starting", "resolving", "wrote", "failing"}

\* Copies of the history beyond the second are not told apart.
MaxCopies == 2

TypeOK ==
    /\ up \in BOOLEAN
    /\ free \in 0 .. Slots
    /\ req \in [Requests -> [by : Users, at : {"idle", "reading", "reserving"}]]
    /\ job \in [Jobs -> [owner : Users, status : Statuses, stale : BOOLEAN]]
    /\ task \in [Jobs -> Phases]
    /\ library \in [Users -> 0 .. MaxCopies]
    /\ overdue \subseteq Jobs

\* A request that holds nothing.
Idle == [by |-> CHOOSE u \in Users : TRUE, at |-> "idle"]

Init ==
    /\ up = TRUE
    /\ free = Slots
    /\ req = [r \in Requests |-> Idle]
    /\ job = [j \in Jobs |-> [owner |-> Idle.by, status |-> "none", stale |-> FALSE]]
    /\ task = [j \in Jobs |-> "none"]
    /\ library = [u \in Users |-> 0]
    /\ overdue = {}

Live(j) == task[j] # "none"
Holding(r) == req[r].at # "idle"

\* Mutant: the index covers unfinished jobs only.
Reserved_Unfinished(u) == {j \in Jobs : job[j].owner = u /\ job[j].status \in Unfinished}

\* The rows the partial unique index holds against another row of the account.
Reserved(u) == {j \in Jobs : job[j].owner = u /\ job[j].status \in NonFailed}

\* An identity a new row may take: nothing reads its row and no task runs under it.
Spare(j) == job[j].status \in {"none", "failed"} /\ ~Live(j)

\* UPDATE import_jobs SET status = s, updated_at = NOW(), which the index may refuse.
Row(j, s) == [owner |-> job[j].owner, status |-> s, stale |-> FALSE]
Accepts(j, s) == s \in NonFailed => Reserved(job[j].owner) \subseteq {j}
SetStatus(j, s) == Accepts(j, s) /\ job' = [job EXCEPT ![j] = Row(j, s)]

\* The rows a release gives up: release_interrupted_jobs and release_stale_jobs.
Release(S) == job' = [j \in Jobs |-> IF j \in S THEN Row(j, "failed") ELSE job[j]]

Interrupted == {j \in Jobs : job[j].status \in Unfinished}
\* Mutants: the release takes young jobs too; it takes none.
Stale_Any(u)  == {j \in Interrupted : job[j].owner = u}
Stale_None(u) == {}

Stale(u) == {j \in Interrupted : job[j].owner = u /\ job[j].stale}

-----------------------------------------------------------------------------
(* start_import *)

\* try_acquire_owned, before a byte of the body is read; with no permit the
\* request is answered 429 and changes nothing.
Admit(r, u) ==
    /\ up /\ ~Holding(r) /\ free > 0
    /\ free' = free - 1
    /\ req' = [req EXCEPT ![r] = [by |-> u, at |-> "reading"]]
    /\ UNCHANGED <<up, job, task, library, overdue>>

\* Mutants: an early return that keeps the permit; one that gives it back twice.
Refuse_Leak(r) ==
    /\ up /\ Holding(r)
    /\ req' = [req EXCEPT ![r] = Idle]
    /\ UNCHANGED <<up, free, job, task, library, overdue>>

Refuse_Twice(r) ==
    /\ up /\ Holding(r)
    /\ free' = free + 2
    /\ req' = [req EXCEPT ![r] = Idle]
    /\ UNCHANGED <<up, job, task, library, overdue>>

\* Every early return of the handler, and the end of its future when the client
\* goes away, drops the permit.
Refuse(r) ==
    /\ up /\ Holding(r)
    /\ free' = free + 1
    /\ req' = [req EXCEPT ![r] = Idle]
    /\ UNCHANGED <<up, job, task, library, overdue>>

\* The upload is valid and fits the quotas; the account's stale jobs are released.
ReleaseStale(r) ==
    /\ up /\ req[r].at = "reading"
    /\ Release(Stale(req[r].by))
    /\ req' = [req EXCEPT ![r].at = "reserving"]
    /\ UNCHANGED <<up, free, task, library, overdue>>

\* The release failed: it is logged and the request goes on.
ReleaseFails(r) ==
    /\ up /\ req[r].at = "reading"
    /\ req' = [req EXCEPT ![r].at = "reserving"]
    /\ UNCHANGED <<up, free, job, task, library, overdue>>

\* INSERT ... ON CONFLICT DO NOTHING, seen by the partial unique index.
Insert(r, j) ==
    /\ up /\ req[r].at = "reserving"
    /\ Reserved(req[r].by) = {}
    /\ Spare(j)
    /\ job' = [job EXCEPT ![j] = [owner |-> req[r].by, status |-> "pending", stale |-> FALSE]]
    /\ req' = [req EXCEPT ![r] = Idle]

\* The row is in and its task is spawned, without an await between the two.  A
\* conflict is a Refuse (409).
Reserve(r, j) ==
    /\ Insert(r, j)
    /\ task' = [task EXCEPT ![j] = "starting"]
    /\ UNCHANGED <<up, free, library, overdue>>

\* The row is in, and the handler ends before it learns so: no task is spawned.
ReserveAndVanish(r, j) ==
    /\ Insert(r, j)
    /\ free' = free + 1
    /\ UNCHANGED <<up, task, library, overdue>>

-----------------------------------------------------------------------------
(* run_import, on the spawned task *)

\* The first UPDATE; its error is ignored.
Start(j) ==
    /\ up /\ task[j] = "starting"
    /\ task' = [task EXCEPT ![j] = "resolving"]
    /\ SetStatus(j, "running") \/ UNCHANGED job
    /\ UNCHANGED <<up, free, req, library, overdue>>

\* After every 25 shows: totals and updated_at, whatever the status says by now.
Progress(j) ==
    /\ up /\ task[j] = "resolving"
    /\ job[j].stale
    /\ job' = [job EXCEPT ![j].stale = FALSE]
    /\ UNCHANGED <<up, free, req, task, library, overdue>>

\* The transaction of import_all: tracking and history become visible together,
\* and nothing keeps a viewing the account already has from being inserted again.
Import(j) ==
    /\ up /\ task[j] = "resolving"
    /\ task' = [task EXCEPT ![j] = "wrote"]
    /\ library' = [library EXCEPT ![job[j].owner] = IF @ < MaxCopies THEN @ + 1 ELSE @]
    /\ UNCHANGED <<up, free, req, job, overdue>>

\* An error of import_all, or a panic of the task, before or after its commit
\* (an answer to the commit that never arrived is the second).
Err(j) ==
    /\ up /\ task[j] \in {"starting", "resolving", "wrote"}
    /\ task' = [task EXCEPT ![j] = "failing"]
    /\ UNCHANGED <<up, free, req, job, library, overdue>>

\* The last UPDATE, which may be refused or never arrive: logged, and the task
\* ends.  The permit goes with it.
End(j, s) ==
    /\ task' = [task EXCEPT ![j] = "none"]
    /\ free' = free + 1
    /\ SetStatus(j, s) \/ UNCHANGED job
    /\ overdue' = overdue \ {j}
    /\ UNCHANGED <<up, req, library>>

Complete(j) == up /\ task[j] = "wrote" /\ End(j, "completed")

Fail(j) == up /\ task[j] = "failing" /\ End(j, "failed")

-----------------------------------------------------------------------------
(* Time and restarts *)

\* STALE_IMPORT_AFTER passes since the row's last write.
Age(j) ==
    /\ job[j].status \in Unfinished /\ ~job[j].stale
    /\ Live(j) => SlowTasks
    /\ job' = [job EXCEPT ![j].stale = TRUE]
    /\ overdue' = IF Live(j) THEN overdue \cup {j} ELSE overdue
    /\ UNCHANGED <<up, free, req, task, library>>

Crash ==
    /\ up
    /\ up' = FALSE
    /\ free' = Slots
    /\ req' = [r \in Requests |-> Idle]
    /\ task' = [j \in Jobs |-> "none"]
    /\ overdue' = {}
    /\ UNCHANGED <<job, library>>

\* main.rs, before it serves: a process that cannot release the rows does not start.
Boot ==
    /\ ~up
    /\ up' = TRUE
    /\ Release(Interrupted)
    /\ UNCHANGED <<free, req, task, library, overdue>>

-----------------------------------------------------------------------------

Run(j) == Start(j) \/ Progress(j) \/ Import(j) \/ Err(j) \/ Complete(j) \/ Fail(j)

Handle(r) ==
    \/ Refuse(r) \/ ReleaseStale(r) \/ ReleaseFails(r)
    \/ \E j \in Jobs : Reserve(r, j) \/ ReserveAndVanish(r, j)

Next ==
    \/ \E r \in Requests, u \in Users : Admit(r, u)
    \/ \E r \in Requests : Handle(r)
    \/ \E j \in Jobs : Run(j) \/ Age(j)
    \/ Crash
    \/ Boot

Spec == Init /\ [][Next]_vars

\* A started task and a started request go on (the runtime polls them), a stopped
\* process is started again, time passes, and a member whose job is stuck keeps
\* trying with a valid file until the database answers the release.
Fairness ==
    /\ \A j \in Jobs : WF_vars(Start(j) \/ Import(j) \/ Err(j) \/ Complete(j) \/ Fail(j)) /\ WF_vars(Age(j))
    /\ \A r \in Requests : WF_vars(Handle(r))
    /\ WF_vars(Boot)
    /\ \A u \in Users :
         /\ SF_vars(\E r \in Requests : Admit(r, u))
         /\ SF_vars(\E r \in Requests : req[r].by = u /\ ReleaseStale(r))

FairSpec == Spec /\ Fairness

-----------------------------------------------------------------------------
(* Properties *)

\* Every permit is free, held by a request that has not answered, or carried by a
\* task: no early return, refusal, cancelled request write or panic keeps
\* one, and none is given back twice.
SlotsAccounted ==
    free + Cardinality({r \in Requests : Holding(r)}) + Cardinality({j \in Jobs : Live(j)}) = Slots

\* Two tasks never import into one account at the same time, but where the first
\* of them ran for six hours without writing its row.
OneTaskPerAccount ==
    \A j, k \in Jobs :
      /\ Live(j) /\ Live(k) /\ j # k
      /\ job[j].owner = job[k].owner
      => j \in overdue \/ k \in overdue

\* Once an account's import is completed no other import adds to its library,
\* but one that was given up as stale while it was still running.
CompletedImportIsFinal ==
    [][\A j \in Jobs :
         /\ job[j].status = "completed"
         /\ library'[job[j].owner] # library[job[j].owner]
         => \E k \in overdue : Live(k) /\ job[k].owner = job[j].owner]_vars

\* A job that is pending or running does not stay so: it ends, a restart gives it
\* up, or its owner's next attempt does, and the account is not locked out.
NoImportStuck ==
    \A j \in Jobs : (j \in Interrupted) ~> (j \notin Interrupted)

=============================================================================
