------------------------------ MODULE WatchState ------------------------------
(***************************************************************************)
(* What one member has recorded about one title: the tracking row          *)
(* (user_media), the viewings (watch_history) and the planned episodes     *)
(* (episode_plans), as the request handlers of the tracking, history,      *)
(* calendar and import routes change them concurrently.                    *)
(*                                                                         *)
(* A request is a process.  Each of its steps ends where the code waits    *)
(* for a lock or where one of its statements becomes visible to others: a  *)
(* transaction's writes appear at its commit, its locks are released       *)
(* there.  The post-commit promotion and demotion of the show are          *)
(* statements of their own that hold no advisory lock: each reads a        *)
(* snapshot and writes later, after waiting for the row.                   *)
(***************************************************************************)
EXTENDS Naturals, FiniteSets

CONSTANTS
    Requests,      \* concurrent HTTP requests and import tasks of the member
    Regular,       \* numbers of the episodes of the seasons after season 0
    Specials,      \* numbers of the season-0 episodes
    AirDay,        \* [episode -> its air date], 0 when the date is unknown
    IsTv,          \* the title is a show (a film has no episodes)
    Ended,         \* its state at the provider is Ended or Canceled
    MaxDay,        \* bound on the calendar
    ExportDays,    \* the days an export may name, those to come included
    MaxHistory,    \* rows the member's history quota leaves to this title
    MaxPlans,      \* plans the member's plan quota leaves to this title
    OtherTitles,   \* other titles the member tracks
    MaxTracking,   \* the tracking quota
    Ops,           \* the operations clients use in this instance
    CanDrop,       \* requests may be cut off (client gone, process restart)
    Free           \* no request

Episodes == Regular \cup Specials
Title    == 0      \* target of a viewing of the title as a whole
Targets  == Episodes \cup {Title}
Statuses == {"plan_to_watch", "watching", "completed", "on_hold", "dropped"}
OpNames  == {"track", "update", "untrack", "watch", "mark", "rewatch", "bulk",
             "bulkAgain", "calmark", "plan", "unplan", "unmark", "delete",
             "import"}
LockNames == {"media", "tracking", "row", "history", "plan"}

ASSUME EpisodesAssumption ==
    /\ Regular \subseteq Nat \ {0} /\ Specials \subseteq Nat \ {0}
    /\ Regular \cap Specials = {}
    /\ IsFiniteSet(Episodes)
    /\ AirDay \in [Episodes -> Nat]
    /\ IsTv \in BOOLEAN /\ Ended \in BOOLEAN /\ CanDrop \in BOOLEAN
    /\ ~IsTv => Episodes = {}

ASSUME BoundsAssumption ==
    /\ ExportDays \subseteq Nat \ {0}
    /\ MaxDay \in Nat \ {0} /\ MaxHistory \in Nat /\ MaxPlans \in Nat
    /\ OtherTitles \in Nat /\ MaxTracking \in Nat
    /\ Ops \subseteq OpNames
    /\ Free \notin Requests

VARIABLES
    um,        \* the tracking row, NoRow when the title is not tracked
    hist,      \* [target -> how many rows watch_history has for it]
    plans,     \* episodes with a row in episode_plans
    day,       \* today
    lock,      \* [lock name -> the request that holds it, or Free]
    stateLock, \* [episode -> holder of its episode-state lock, or Free]
    pc,        \* [request -> the statement it is about to run]
    job,       \* [request -> what it was asked to do]
    pend,      \* [request -> tracking row it has read or written uncommitted]
    result     \* [request -> its last answer]

data  == <<um, hist, plans>>
locks == <<lock, stateLock>>
vars  == <<um, hist, plans, day, lock, stateLock, pc, job, pend, result>>

NoRow == [status |-> "none", started |-> 0, completed |-> 0]
NoJob == [op |-> "none", ep |-> 0, status |-> "none", start |-> 0, comp |-> 0,
          set |-> {}, today |-> 0]
Rows  == [status : Statuses \cup {"none"}, started : Nat, completed : Nat]
Jobs  == [op : OpNames \cup {"none"}, ep : Targets,
          status : Statuses \cup {"none"}, start : Nat, comp : Nat,
          set : SUBSET Targets, today : Nat]
Labels == {"idle", "media", "state", "tracking", "row", "history", "insert",
           "remove", "plan", "planInsert", "promote", "promoting", "demote",
           "demoting"}

TypeOK ==
    /\ um \in Rows
    /\ hist \in [Targets -> Nat]
    /\ plans \subseteq Episodes
    /\ day \in 1..MaxDay
    /\ lock \in [LockNames -> Requests \cup {Free}]
    /\ stateLock \in [Episodes -> Requests \cup {Free}]
    /\ pc \in [Requests -> Labels]
    /\ job \in [Requests -> Jobs]
    /\ pend \in [Requests -> Rows]
    /\ result \in [Requests -> {"none", "ok", "refused", "error"}]

Init ==
    /\ um = NoRow
    /\ hist = [t \in Targets |-> 0]
    /\ plans = {}
    /\ day = 1
    /\ lock = [l \in LockNames |-> Free]
    /\ stateLock = [e \in Episodes |-> Free]
    /\ pc = [r \in Requests |-> "idle"]
    /\ job = [r \in Requests |-> NoJob]
    /\ pend = [r \in Requests |-> NoRow]
    /\ result = [r \in Requests |-> "none"]

-----------------------------------------------------------------------------
(* Predicates and expressions of the SQL statements. *)

Tracked == um # NoRow
Watched == {e \in Episodes : hist[e] > 0}
Coalesce(a, b) == IF a # 0 THEN a ELSE b
Later(a, b) == IF a >= b THEN a ELSE b

\* episode_has_aired: a broadcast episode has aired once its air date is over.
Aired(e, today) == AirDay[e] = 0 \/ AirDay[e] < today

\* The rule of the single-episode history routes: its air date is not after today.
Dated(e, today) == AirDay[e] <= today

FullyWatched(today) ==
    \A e \in Regular : Aired(e, today) => hist[e] > 0

\* The CHECK constraints on a tracking row.
RowAllowed(u) ==
    /\ u.started # 0 /\ u.completed # 0 => u.completed >= u.started
    /\ u.completed # 0 => u.status = "completed"

\* The rows of watch_history, and how many there are.
Viewings     == UNION {{t} \X (1..hist[t]) : t \in Targets}
HistoryCount == Cardinality(Viewings)
TrackingRoom(u) == OtherTitles + 1 <= MaxTracking \/ u # NoRow

\* Mutant: leaving "completed" keeps its date.
CreateUpsert_KeepsDate(u, s, today) ==
    [status |-> s, started |-> Coalesce(u.started, today),
     completed |-> IF s = "completed" THEN Coalesce(u.completed, today)
                   ELSE u.completed]

\* Row that POST /tracking leaves for status s.
CreateUpsert(u, s, today) ==
    [status    |-> s,
     started   |-> Coalesce(u.started,
                            IF s \in {"watching", "completed"} THEN today ELSE 0),
     completed |-> IF s = "completed" THEN Coalesce(u.completed, today) ELSE 0]

\* Row that recording a watch through the history routes leaves.
WatchUpsert(u, today) ==
    [status    |-> IF u.status \in {"watching", "completed"}
                   THEN u.status ELSE "watching",
     started   |-> Coalesce(u.started, Coalesce(u.completed, today)),
     completed |-> u.completed]

\* Row that PATCH /tracking writes for the status and dates supplied in j.
UpdatedRow(u, j) ==
    LET s == IF j.status = "none" THEN u.status ELSE j.status IN
    [status    |-> s,
     started   |-> Coalesce(j.start, Coalesce(u.started,
                     IF s \in {"watching", "completed"} THEN j.today ELSE 0)),
     completed |-> IF s = "completed"
                   THEN Coalesce(j.comp, Coalesce(u.completed, j.today)) ELSE 0]

\* Row that the calendar's mark leaves.
CalendarUpsert(u, today) ==
    [u EXCEPT !.status  = IF @ = "plan_to_watch" THEN "watching" ELSE @,
              !.started = Coalesce(@, today)]

\* Rows that the promotion and the demotion leave.
PromotedRow(u, today) ==
    [u EXCEPT !.status = "completed", !.completed = Later(today, u.started)]

\* Mutant: the show is reopened and keeps its completion date.
ReopenedRow_KeepsDate(u) == [u EXCEPT !.status = "watching"]

ReopenedRow(u) == [u EXCEPT !.status = "watching", !.completed = 0]

Unwatched(S) == {t \in S : hist[t] = 0}

\* Mutant: no trigger.
PlansAfter_NoTrigger(rows) == plans

\* Mutant: the trigger clears the plans of the whole show.
PlansAfter_WholeShow(rows) == {}

\* The trigger watch_history_clears_episode_plan, for one INSERT.
PlansAfter(rows) == plans \ rows

PlanRoom(e) == Cardinality(plans \cup {e}) <= MaxPlans

\* Aired regular episodes that entering "completed" still has to record.
Missing(today) == {e \in Unwatched(Regular) : Aired(e, today)}
NoHistory == \A t \in Targets : hist[t] = 0

\* Targets that entering "completed" adds a row for.
CompletionRows(today) ==
    IF ~IsTv THEN Unwatched({Title})
    ELSE IF Missing(today) # {} THEN Missing(today)
    ELSE {t \in {Title} : NoHistory}

\* Rows the quota check of the same path reserves.
CompletionReserve(today) ==
    IF ~IsTv THEN Cardinality(CompletionRows(today))
    ELSE Cardinality(Missing(today)) +
         (IF Regular = {} /\ NoHistory THEN 1 ELSE 0)

\* Statement-level tests of the completion service.
PromotionDue ==
    /\ IsTv /\ Ended /\ Tracked /\ um.status # "completed"
    /\ Regular # {} /\ FullyWatched(day)

\* Mutant: removing a viewing does not look at the tracking row again.
DemotionDue_Never == FALSE

DemotionDue == IsTv /\ um.status = "completed" /\ ~FullyWatched(day)

-----------------------------------------------------------------------------
(* How a request starts, waits, commits and answers. *)

Ask(op, e) == [NoJob EXCEPT !.op = op, !.ep = e]

Begin(r, j, first) ==
    /\ pc[r] = "idle" /\ j.op \in Ops
    /\ pc' = [pc EXCEPT ![r] = first]
    /\ job' = [job EXCEPT ![r] = [j EXCEPT !.today = day]]
    /\ result' = [result EXCEPT ![r] = "none"]
    /\ UNCHANGED <<data, day, locks, pend>>

\* Mutant: advisory locks taken for the session outlive the transaction.
Release_SessionLocks(r) ==
    /\ lock' = [lock EXCEPT !["row"] = IF @ = r THEN Free ELSE @]
    /\ UNCHANGED stateLock

Release(r) ==
    /\ lock' = [l \in LockNames |-> IF lock[l] = r THEN Free ELSE lock[l]]
    /\ stateLock' = [e \in Episodes |->
                        IF stateLock[e] = r THEN Free ELSE stateLock[e]]

\* The transaction is over, nothing is left to do: answer a.
Answer(r, a) ==
    /\ Release(r)
    /\ pc' = [pc EXCEPT ![r] = "idle"]
    /\ job' = [job EXCEPT ![r] = NoJob]
    /\ pend' = [pend EXCEPT ![r] = NoRow]
    /\ result' = [result EXCEPT ![r] = a]

\* Roll back.
Abort(r, a) == Answer(r, a) /\ UNCHANGED data

\* Commit and go on to the post-commit statement at label l.
CommitThen(r, l) ==
    /\ Release(r)
    /\ pc' = [pc EXCEPT ![r] = l]
    /\ pend' = [pend EXCEPT ![r] = NoRow]
    /\ UNCHANGED <<job, result>>

\* Keep lock l and go on, still inside the transaction.
HoldThen(r, l, next) ==
    /\ lock' = [lock EXCEPT ![l] = r]
    /\ pc' = [pc EXCEPT ![r] = next]
    /\ UNCHANGED <<data, stateLock, job, result>>

-----------------------------------------------------------------------------
(* Requests, with what each route checks before its transaction. *)

BeginCreateTracking(r) ==
    \E s \in Statuses :
        /\ TrackingRoom(um)
        /\ Begin(r, [Ask("track", Title) EXCEPT !.status = s], "media")

BeginUpdateTracking(r) ==
    \E s \in Statuses \cup {"none"}, a, b \in 0..day :
        Begin(r, [Ask("update", Title) EXCEPT
                    !.status = s, !.start = a, !.comp = b], "tracking")

BeginDeleteTracking(r) == Begin(r, Ask("untrack", Title), "tracking")

BeginCreateHistory(r) ==
    \E t \in Targets :
        /\ t # Title => Aired(t, day)
        /\ Begin(r, Ask("watch", t), "history")

BeginMarkEpisode(r) ==
    \E e \in Episodes :
        /\ TrackingRoom(um) /\ Dated(e, day)
        /\ Begin(r, Ask("mark", e), "tracking")

BeginRewatchEpisode(r) ==
    \E e \in Episodes :
        /\ TrackingRoom(um) /\ Dated(e, day)
        /\ Begin(r, Ask("rewatch", e), "tracking")

BeginRewatchMovie(r) == ~IsTv /\ Begin(r, Ask("rewatch", Title), "tracking")

\* The episodes of a season (the regular ones or the specials) that have aired.
AiredOf(S) == {e \in S : Aired(e, day)}

\* The bulk routes: an empty selection is refused before the transaction.
BeginBulk(r, op, S) ==
    /\ TrackingRoom(um) /\ S # {}
    /\ Begin(r, [Ask(op, Title) EXCEPT !.set = S], "tracking")

BeginMarkSeason(r) ==
    \E season \in {Regular, Specials} : BeginBulk(r, "bulk", AiredOf(season))

\* Everything up to an episode that has aired, without the specials unless it
\* is one.
BeginMarkThrough(r) ==
    \E season \in {Regular, Specials} : \E e \in AiredOf(season) :
        BeginBulk(r, "bulk", AiredOf({x \in season : x <= e}))

BeginRewatchSeason(r) ==
    \E season \in {Regular, Specials} : BeginBulk(r, "bulkAgain", AiredOf(season))

BeginRewatchShow(r) == BeginBulk(r, "bulkAgain", AiredOf(Episodes))

BeginCalendarMark(r) == \E e \in Episodes : Begin(r, Ask("calmark", e), "state")
BeginPlan(r)         == \E e \in Episodes : Begin(r, Ask("plan", e), "state")
BeginUnplan(r)       == \E e \in Episodes : Begin(r, Ask("unplan", e), "state")

BeginUnmark(r) == \E e \in Episodes : Begin(r, Ask("unmark", e), "history")

BeginDeleteHistory(r) ==
    \E t \in Targets : hist[t] > 0 /\ Begin(r, Ask("delete", t), "history")

\* What an export can say of a title: status, first and last watch, viewings.
Imported(s, a, b, S) ==
    [Ask("import", Title) EXCEPT !.status = s, !.start = a, !.comp = b, !.set = S]

\* A show nobody has watched may still come with rewatches.  The dates are those
\* of the export: nothing compares them with today.
BeginImportShow(r) ==
    \E S \in SUBSET Targets, a, b \in ExportDays :
        /\ IsTv /\ a <= b
        /\ \/ Begin(r, Imported("plan_to_watch", 0, 0, S), "tracking")
           \/ S # {} /\ Begin(r, Imported("watching", a, 0, S), "tracking")
           \/ S # {} /\ Begin(r, Imported("completed", a, b, S), "tracking")

BeginImportMovie(r) ==
    /\ ~IsTv
    /\ \/ Begin(r, Imported("plan_to_watch", 0, 0, {}), "tracking")
       \/ \E a \in ExportDays :
            Begin(r, Imported("completed", a, a, {Title}), "tracking")

-----------------------------------------------------------------------------
(* The steps of the transactions. *)

Asked(r, ops) == job[r].op \in ops

\* Mutant: the history lock is not waited for.
LockFree_NoHistoryLock(l) == l = "history" \/ lock[l] = Free

LockFree(l) == lock[l] = Free

\* pg_advisory_xact_lock on (user, media), which only POST /tracking takes.
LockMedia(r) ==
    /\ pc[r] = "media" /\ LockFree("media")
    /\ HoldThen(r, "media", "tracking")
    /\ UNCHANGED <<day, pend>>

\* The calendar's lock on (user, episode); unplan has nothing else to wait for.
LockEpisodeState(r) ==
    LET e == job[r].ep IN
    /\ pc[r] = "state" /\ stateLock[e] = Free
    /\ IF Asked(r, {"unplan"})
       THEN /\ plans' = plans \ {e}
            /\ Answer(r, "ok")
            /\ UNCHANGED <<um, hist, day>>
       ELSE /\ stateLock' = [stateLock EXCEPT ![e] = r]
            /\ pc' = [pc EXCEPT ![r] = "tracking"]
            /\ UNCHANGED <<data, day, lock, job, pend, result>>

\* The per-member tracking lock, and what is read under it at once.
LockTracking(r) ==
    LET j == job[r]
        onTrackedShow == Tracked /\ um.status # "dropped"
        admitted == CASE j.op \in {"update", "untrack"} -> TRUE
                      [] j.op = "calmark" -> onTrackedShow /\ Aired(j.ep, j.today)
                      [] j.op = "plan"    -> onTrackedShow
                      [] OTHER            -> TrackingRoom(um)
    IN
    /\ pc[r] = "tracking" /\ LockFree("tracking")
    /\ IF ~admitted THEN Abort(r, "refused")
       ELSE /\ HoldThen(r, "tracking",
                       IF Asked(r, {"calmark", "plan", "import"})
                       THEN "history" ELSE "row")
            /\ pend' = [pend EXCEPT ![r] = um]
    /\ UNCHANGED day

\* Write row u and either commit it now or hold it until the viewings are in.
StageRow(r, u, needsHistory) ==
    IF ~RowAllowed(u) THEN Abort(r, "error")
    ELSE IF needsHistory
    THEN HoldThen(r, "row", "history") /\ pend' = [pend EXCEPT ![r] = u]
    ELSE um' = u /\ Answer(r, "ok") /\ UNCHANGED <<hist, plans>>

CreateTracking(r) ==
    /\ pc[r] = "row" /\ Asked(r, {"track"}) /\ LockFree("row")
    /\ StageRow(r, CreateUpsert(um, job[r].status, job[r].today),
                job[r].status = "completed" /\ pend[r].status # "completed")
    /\ UNCHANGED day

UpdateTracking(r) ==
    LET u == UpdatedRow(um, job[r])
        invalid == \/ job[r].comp # 0 /\ u.status # "completed"
                   \/ u.started # 0 /\ u.completed # 0 /\ u.completed < u.started
    IN
    /\ pc[r] = "row" /\ Asked(r, {"update"}) /\ LockFree("row")
    /\ IF ~Tracked \/ invalid THEN Abort(r, "refused")
       ELSE StageRow(r, u, um.status # "completed" /\ u.status = "completed")
    /\ UNCHANGED day

DeleteTracking(r) ==
    /\ pc[r] = "row" /\ Asked(r, {"untrack"}) /\ LockFree("row")
    /\ IF Tracked THEN um' = NoRow /\ Answer(r, "ok") /\ UNCHANGED <<hist, plans>>
       ELSE Abort(r, "refused")
    /\ UNCHANGED day

EnsureTracking(r) ==
    /\ pc[r] = "row" /\ Asked(r, {"mark", "rewatch", "bulk", "bulkAgain"})
    /\ LockFree("row")
    /\ StageRow(r, WatchUpsert(um, job[r].today), TRUE)
    /\ UNCHANGED day

\* Targets that request r adds one row each for, as its INSERT decides it.
NewRows(r) ==
    LET j == job[r] IN
    CASE j.op \in {"watch", "rewatch"}    -> {j.ep}
      [] j.op \in {"mark", "calmark"}     -> Unwatched({j.ep})
      [] j.op = "bulk"                    -> Unwatched(j.set)
      [] j.op \in {"bulkAgain", "import"} -> j.set
      [] OTHER                            -> CompletionRows(j.today)

\* Rows its quota check counts.
Reserve(r) ==
    IF Asked(r, {"track", "update"}) THEN CompletionReserve(job[r].today)
    ELSE Cardinality(NewRows(r))

\* Both single marks look for an existing viewing before they ask the quota.
AlreadyWatched(r) == Asked(r, {"mark", "calmark"}) /\ hist[job[r].ep] > 0

\* Mutant: a full quota is waited for.
QuotaRefused_Waits(r) ==
    UNCHANGED <<data, locks, pc, job, pend, result>>

\* A full quota is answered at once.
QuotaRefused(r) == Abort(r, "refused")

\* The per-member history lock, and what is read under it at once.
LockHistory(r) ==
    /\ pc[r] = "history" /\ LockFree("history")
    /\ CASE Asked(r, {"plan"}) ->
              IF hist[job[r].ep] > 0 THEN Abort(r, "refused")
              ELSE HoldThen(r, "history", "plan") /\ UNCHANGED pend
         [] Asked(r, {"unmark", "delete"}) ->
              HoldThen(r, "history", "remove") /\ UNCHANGED pend
         [] Asked(r, {"mark"}) /\ AlreadyWatched(r) ->
              um' = pend[r] /\ Answer(r, "ok") /\ UNCHANGED <<hist, plans>>
         [] OTHER ->
              IF AlreadyWatched(r) \/ HistoryCount + Reserve(r) <= MaxHistory
              THEN HoldThen(r, "history", "insert") /\ UNCHANGED pend
              ELSE QuotaRefused(r)
    /\ UNCHANGED day

\* Tracking row that r commits together with its viewings.
FinalRow(r) ==
    LET j == job[r] IN
    CASE j.op = "watch"   -> um
      [] j.op = "calmark" -> CalendarUpsert(um, j.today)
      [] j.op = "import"  -> [status |-> j.status, started |-> j.start,
                              completed |-> j.comp]
      [] OTHER            -> pend[r]

\* INSERT INTO watch_history and its trigger, then COMMIT.
RecordWatch(r) ==
    LET rows == NewRows(r) IN
    /\ pc[r] = "insert"
    /\ Asked(r, {"calmark", "import"}) => LockFree("row")
    /\ IF ~RowAllowed(FinalRow(r)) THEN Abort(r, "error")
       ELSE /\ um' = FinalRow(r)
            /\ hist' = [t \in Targets |-> hist[t] + IF t \in rows THEN 1 ELSE 0]
            /\ plans' = PlansAfter(rows) \
                        (IF Asked(r, {"calmark"}) THEN {job[r].ep} ELSE {})
            /\ IF Asked(r, {"watch", "mark", "bulk", "bulkAgain", "calmark"})
               THEN CommitThen(r, "promote") ELSE Answer(r, "ok")
    /\ UNCHANGED day

NothingToRemove(e) == hist[e] = 0

\* DELETE FROM watch_history, then COMMIT.
RemoveWatch(r) ==
    LET e == job[r].ep IN
    /\ pc[r] = "remove"
    /\ IF NothingToRemove(e)
       THEN Abort(r, IF Asked(r, {"unmark"}) THEN "ok" ELSE "refused")
       ELSE /\ hist' = [hist EXCEPT ![e] = IF Asked(r, {"unmark"}) THEN 0 ELSE @ - 1]
            /\ CommitThen(r, "demote")
            /\ UNCHANGED <<um, plans>>
    /\ UNCHANGED day

\* The plan quota, under the last of plan_episode's four locks.
ReservePlan(r) ==
    /\ pc[r] = "plan" /\ LockFree("plan")
    /\ IF PlanRoom(job[r].ep)
       THEN HoldThen(r, "plan", "planInsert") /\ UNCHANGED pend
       ELSE QuotaRefused(r)
    /\ UNCHANGED day

InsertPlan(r) ==
    /\ pc[r] = "planInsert"
    /\ plans' = plans \cup {job[r].ep}
    /\ Answer(r, "ok")
    /\ UNCHANGED <<um, hist, day>>

-----------------------------------------------------------------------------
(* The completion service, after the commit and outside every advisory lock. *)

\* The statement's snapshot: tracking row, viewings and date are read here.
ReadForPromotion(r) ==
    /\ pc[r] = "promote"
    /\ IF PromotionDue
       THEN /\ pc' = [pc EXCEPT ![r] = "promoting"]
            /\ job' = [job EXCEPT ![r].today = day]
            /\ UNCHANGED <<locks, pend, result>>
       ELSE Answer(r, "ok")
    /\ UNCHANGED <<data, day>>

\* The row is written once no transaction holds it; only its own columns are
\* looked at again.
Promote(r) ==
    /\ pc[r] = "promoting" /\ LockFree("row")
    /\ um' = IF Tracked /\ um.status # "completed"
             THEN PromotedRow(um, job[r].today) ELSE um
    /\ Answer(r, "ok")
    /\ UNCHANGED <<hist, plans, day>>

ReadForDemotion(r) ==
    /\ pc[r] = "demote"
    /\ IF DemotionDue
       THEN pc' = [pc EXCEPT ![r] = "demoting"] /\ UNCHANGED <<locks, job, pend, result>>
       ELSE Answer(r, "ok")
    /\ UNCHANGED <<data, day>>

Demote(r) ==
    /\ pc[r] = "demoting" /\ LockFree("row")
    /\ um' = IF um.status = "completed" THEN ReopenedRow(um) ELSE um
    /\ Answer(r, "ok")
    /\ UNCHANGED <<hist, plans, day>>

\* The client goes away or the process restarts: the open transaction is rolled
\* back, a post-commit statement that has not run never will.
DropRequest(r) ==
    /\ CanDrop /\ pc[r] # "idle"
    /\ Abort(r, "none")
    /\ UNCHANGED day

NextDay ==
    /\ day < MaxDay
    /\ day' = day + 1
    /\ UNCHANGED <<data, locks, pc, job, pend, result>>

-----------------------------------------------------------------------------

Start(r) ==
    \/ BeginCreateTracking(r) \/ BeginUpdateTracking(r) \/ BeginDeleteTracking(r)
    \/ BeginCreateHistory(r) \/ BeginMarkEpisode(r) \/ BeginRewatchEpisode(r)
    \/ BeginRewatchMovie(r) \/ BeginMarkSeason(r) \/ BeginMarkThrough(r)
    \/ BeginRewatchSeason(r) \/ BeginRewatchShow(r)
    \/ BeginCalendarMark(r) \/ BeginPlan(r) \/ BeginUnplan(r)
    \/ BeginUnmark(r) \/ BeginDeleteHistory(r)
    \/ BeginImportShow(r) \/ BeginImportMovie(r)

Step(r) ==
    \/ LockMedia(r) \/ LockEpisodeState(r) \/ LockTracking(r)
    \/ CreateTracking(r) \/ UpdateTracking(r) \/ DeleteTracking(r)
    \/ EnsureTracking(r) \/ LockHistory(r) \/ RecordWatch(r) \/ RemoveWatch(r)
    \/ ReservePlan(r) \/ InsertPlan(r)
    \/ ReadForPromotion(r) \/ Promote(r) \/ ReadForDemotion(r) \/ Demote(r)

Next ==
    \/ \E r \in Requests : Start(r) \/ Step(r) \/ DropRequest(r)
    \/ NextDay

Spec == Init /\ [][Next]_vars

\* PostgreSQL grants a lock to its waiters in the order they asked, and every
\* statement between two waits ends; nothing makes a client send a request.
FairSpec == Spec /\ \A r \in Requests : SF_vars(Step(r))

-----------------------------------------------------------------------------
(* Safety. *)

\* No episode is at once planned and watched, whichever of the calendar, the
\* history routes, completion and import got there first.
PlanWatchExclusive == plans \cap Watched = {}

\* The history quota: rows are never more than the quota leaves room for, with
\* every writer counting and inserting under the same lock.
HistoryWithinQuota == HistoryCount <= MaxHistory

\* No handler trips a CHECK constraint of user_media: none answers 500.
NoInternalError == \A r \in Requests : result[r] # "error"

\* The ways to an internal error, and no others, however requests interleave,
\* days pass and imports come in: the title was completed without a start and is
\* given a later one; it was started after the day that this request, begun
\* before midnight, takes for today; or an import says it starts after today.
Unstarted       == um.completed # 0 /\ um.started = 0
StartedSince(r) == job[r].today < um.started /\ um.started <= day
Foretold        == "import" \in Ops /\ um.started \in ExportDays /\ day < um.started
ErrorExplained ==
    [][\A r \in Requests : result'[r] = "error" /\ result[r] # "error"
                             => Unstarted \/ StartedSince(r) \/ Foretold]_vars

\* A tracking row has a completion date exactly while it is completed.
CompletionDated == um.status = "completed" <=> um.completed # 0

Quiet == \A r \in Requests : pc[r] = "idle"

\* Once no request is running, a show that is completed has no unwatched aired
\* episode: removing a viewing has reopened it.
CompletedShowIsWatched ==
    Quiet /\ IsTv /\ um.status = "completed" => FullyWatched(day)

\* r waits for a lock somebody holds.
Blocked(r) ==
    \/ pc[r] \in {"media", "tracking", "row", "history", "plan"} /\ lock[pc[r]] # Free
    \/ pc[r] = "state" /\ stateLock[job[r].ep] # Free
    \/ pc[r] \in {"promoting", "demoting"} /\ lock["row"] # Free
    \/ pc[r] = "insert" /\ Asked(r, {"calmark", "import"}) /\ lock["row"] # Free

\* Requests never all wait for one another.
NoLockCycle == ~Quiet => \E r \in Requests : pc[r] # "idle" /\ ~Blocked(r)

\* Every request is answered.
EveryRequestAnswered == \A r \in Requests : pc[r] # "idle" ~> pc[r] = "idle"

-----------------------------------------------------------------------------
(* What this module implements: see EpisodeShelf. *)

Shelf == INSTANCE EpisodeShelf WITH planned <- plans, watched <- Watched

\* The planned and watched episodes a member sees move only as EpisodeShelf
\* allows: every commit of every route is one of its steps or none.
ImplementsShelf == Shelf!Spec
=============================================================================
