--------------------------- MODULE WatchStateProofs ---------------------------
(***************************************************************************)
(* Theorems about WatchState, for any number of requests and episodes, any *)
(* quotas and any calendar: types, the exclusion of planned and watched,   *)
(* completion dates, lock cycles, the history quota, the refinement of     *)
(* EpisodeShelf, why a handler may trip a CHECK constraint, and what holds *)
(* besides when a member's requests do not overlap.                        *)
(*                                                                         *)
(* The inductive invariant says why plan_episode may trust what it read:   *)
(* from the moment it has seen the episode unwatched until it commits, it  *)
(* holds the history lock that every writer of watch_history needs.        *)
(***************************************************************************)
EXTENDS WatchState, FiniteSetTheorems, TLAPS

Answers  == {"none", "ok", "refused", "error"}
Writing  == {"insert", "remove", "plan", "planInsert"}
Planning == {"plan", "planInsert"}

\* Requests that count or change viewings hold the history lock.
HistoryLockHeld ==
    \A r \in Requests : pc[r] \in Writing => lock["history"] = r

\* The calendar's requests are about an episode.
CalendarNamesEpisode ==
    \A r \in Requests :
        job[r].op \in {"plan", "unplan", "calmark"} => job[r].ep \in Episodes

\* A request about to plan an episode has seen it unwatched, and it still is.
PlanStillValid ==
    \A r \in Requests : pc[r] \in Planning =>
        job[r].op = "plan" /\ hist[job[r].ep] = 0

IInv ==
    /\ TypeOK
    /\ HistoryLockHeld
    /\ CalendarNamesEpisode
    /\ PlanStillValid
    /\ PlanWatchExclusive

-----------------------------------------------------------------------------
(* Types of the rows and the row sets. *)

LEMMA TargetsNat == Targets \subseteq Nat
BY EpisodesAssumption DEF Targets, Title, Episodes

LEMMA RowTypes ==
    ASSUME NEW u \in Rows, NEW s \in Statuses, NEW d \in Nat, NEW j \in Jobs
    PROVE  /\ CreateUpsert(u, s, d) \in Rows
           /\ WatchUpsert(u, d) \in Rows
           /\ CalendarUpsert(u, d) \in Rows
           /\ PromotedRow(u, d) \in Rows
           /\ ReopenedRow(u) \in Rows
<1>1. CreateUpsert(u, s, d) \in Rows
  BY DEF Rows, CreateUpsert, Coalesce, Statuses
<1>2. WatchUpsert(u, d) \in Rows
  BY DEF Rows, WatchUpsert, Coalesce, Statuses
<1>3. CalendarUpsert(u, d) \in Rows
  BY DEF Rows, CalendarUpsert, Coalesce, Statuses
<1>4. PromotedRow(u, d) \in Rows
  BY DEF Rows, PromotedRow, Later, Statuses
<1>5. ReopenedRow(u) \in Rows
  BY DEF Rows, ReopenedRow, Statuses
<1> QED BY <1>1, <1>2, <1>3, <1>4, <1>5

LEMMA UpdatedRowType ==
    ASSUME NEW u \in Rows, NEW j \in Jobs
    PROVE  UpdatedRow(u, j) \in Rows
BY DEF Rows, Jobs, UpdatedRow, Coalesce, Statuses

LEMMA NewRowsType ==
    ASSUME TypeOK, NEW r \in Requests
    PROVE  NewRows(r) \subseteq Targets
<1>1. job[r] \in Jobs
  BY DEF TypeOK
<1>2. job[r].ep \in Targets /\ job[r].set \subseteq Targets
  BY <1>1 DEF Jobs
<1>3. \A S : S \subseteq Targets => Unwatched(S) \subseteq Targets
  BY DEF Unwatched
<1>4. CompletionRows(job[r].today) \subseteq Targets
  BY DEF CompletionRows, Missing, Unwatched, Targets, Episodes
<1> QED BY <1>2, <1>3, <1>4 DEF NewRows

LEMMA FinalRowType ==
    ASSUME TypeOK, NEW r \in Requests
    PROVE  FinalRow(r) \in Rows
<1>1. job[r] \in Jobs /\ um \in Rows /\ pend[r] \in Rows
  BY DEF TypeOK
<1>2. job[r].today \in Nat
  BY <1>1 DEF Jobs
<1>3. CalendarUpsert(um, job[r].today) \in Rows
  BY <1>1, <1>2 DEF Rows, CalendarUpsert, Coalesce, Statuses
<1>4. [status |-> job[r].status, started |-> job[r].start,
       completed |-> job[r].comp] \in Rows
  BY <1>1 DEF Jobs, Rows
<1> QED BY <1>1, <1>3, <1>4 DEF FinalRow

-----------------------------------------------------------------------------
(* The shapes that the steps of every request have. *)

\* Releasing its locks, a request takes nothing from the others.
LEMMA ReleaseKeepsOthers ==
    ASSUME TypeOK, NEW r \in Requests, Release(r)
    PROVE  /\ lock' \in [LockNames -> Requests \cup {Free}]
           /\ stateLock' \in [Episodes -> Requests \cup {Free}]
           /\ \A q \in Requests \ {r} :
                lock["history"] = q => lock'["history"] = q
BY DEF TypeOK, Release, LockNames

\* A request is taken in.
LEMMA BeginStep ==
    ASSUME IInv, NEW r \in Requests, NEW j \in Jobs,
           NEW first \in {"media", "tracking", "history", "state"},
           j.op \in {"plan", "unplan", "calmark"} => j.ep \in Episodes,
           Begin(r, j, first)
    PROVE  IInv'
<1> DEFINE j2 == [j EXCEPT !.today = day]
<1>1. j2 \in Jobs /\ j2.op = j.op /\ j2.ep = j.ep
  <2>1. j \in Jobs /\ day \in Nat
    BY DEF IInv, TypeOK
  <2> QED BY <2>1 DEF Jobs
<1>2. /\ pc' = [pc EXCEPT ![r] = first]
      /\ job' = [job EXCEPT ![r] = j2]
      /\ result' = [result EXCEPT ![r] = "none"]
      /\ UNCHANGED <<um, hist, plans, day, lock, stateLock, pend>>
  BY DEF Begin, data, locks
<1>3. TypeOK'
  BY <1>1, <1>2 DEF IInv, TypeOK, Labels
<1>4. \A q \in Requests : pc'[q] \in Writing => q # r /\ pc[q] \in Writing
  BY <1>2 DEF IInv, TypeOK, Writing
<1>5. HistoryLockHeld'
  BY <1>2, <1>4 DEF IInv, HistoryLockHeld
<1>6. CalendarNamesEpisode'
  BY <1>1, <1>2 DEF IInv, TypeOK, CalendarNamesEpisode
<1>7. PlanStillValid'
  BY <1>2, <1>4 DEF IInv, TypeOK, PlanStillValid, Writing, Planning
<1>8. PlanWatchExclusive'
  BY <1>2 DEF IInv, PlanWatchExclusive, Watched
<1> QED BY <1>3, <1>5, <1>6, <1>7, <1>8 DEF IInv

\* A transaction ends, with a commit or without one.
LEMMA EndStep ==
    ASSUME IInv, NEW r \in Requests, Release(r),
           NEW l \in Labels \ Writing,
           pc' = [pc EXCEPT ![r] = l],
           job' = job \/ job' = [job EXCEPT ![r] = NoJob],
           pend' = [pend EXCEPT ![r] = NoRow],
           result' \in [Requests -> Answers],
           um' \in Rows,
           hist' \in [Targets -> Nat], plans' \subseteq Episodes,
           day' \in 1..MaxDay,
           PlanWatchExclusive',
           \A q \in Requests \ {r} :
              pc[q] \in Planning => hist'[job[q].ep] = 0
    PROVE  IInv'
<1>1. NoJob \in Jobs /\ NoJob.op = "none" /\ NoRow \in Rows
  BY DEF NoJob, Jobs, NoRow, Rows, Targets, Title
<1>2. TypeOK'
  BY <1>1, ReleaseKeepsOthers DEF IInv, TypeOK, Answers
<1>3. \A q \in Requests : pc'[q] \in Writing => q # r /\ pc[q] \in Writing
  BY DEF IInv, TypeOK
<1>4. HistoryLockHeld'
  BY <1>3, ReleaseKeepsOthers DEF IInv, HistoryLockHeld
<1>5. CalendarNamesEpisode'
  BY <1>1 DEF IInv, TypeOK, CalendarNamesEpisode
<1>6. \A q \in Requests \ {r} : job'[q] = job[q] /\ pc'[q] = pc[q]
  BY DEF IInv, TypeOK
<1>7. PlanStillValid'
  BY <1>3, <1>6 DEF IInv, PlanStillValid, Writing, Planning
<1> QED BY <1>2, <1>4, <1>5, <1>7 DEF IInv

\* A transaction takes lock l and goes on at next.
LEMMA HoldStep ==
    ASSUME IInv, NEW r \in Requests, NEW l \in LockNames, NEW next \in Labels,
           HoldThen(r, l, next), day' = day,
           pend' \in [Requests -> Rows],
           lock[l] = Free,
           next \in Writing => l = "history" \/ lock["history"] = r,
           next \in Planning => job[r].op = "plan" /\ hist[job[r].ep] = 0
    PROVE  IInv'
<1>1. /\ lock' = [lock EXCEPT ![l] = r]
      /\ pc' = [pc EXCEPT ![r] = next]
      /\ UNCHANGED <<um, hist, plans, stateLock, job, result>>
  BY DEF HoldThen, data
<1>2. TypeOK'
  BY <1>1 DEF IInv, TypeOK
<1>3. HistoryLockHeld'
  BY <1>1, BoundsAssumption DEF IInv, TypeOK, HistoryLockHeld, LockNames
<1>4. CalendarNamesEpisode'
  BY <1>1 DEF IInv, CalendarNamesEpisode
<1>5. PlanStillValid'
  BY <1>1 DEF IInv, TypeOK, PlanStillValid
<1>6. PlanWatchExclusive'
  BY <1>1 DEF IInv, PlanWatchExclusive, Watched
<1> QED BY <1>2, <1>3, <1>4, <1>5, <1>6 DEF IInv

-----------------------------------------------------------------------------
(* The actions. *)

LEMMA AskTypes ==
    ASSUME NEW op \in OpNames, NEW e \in Targets
    PROVE  /\ Ask(op, e) \in Jobs /\ Ask(op, e).op = op /\ Ask(op, e).ep = e
           /\ Ask(op, e).start = 0 /\ Ask(op, e).comp = 0
BY DEF Ask, NoJob, Jobs

\* Writers of the history alone: they touch neither the tracking lock nor the row.
Bare == {"watch", "unmark", "delete"}

\* The dates that a request brings are past, except an import's; an import
\* brings a date for what is completed, and says when it was begun.
BringsDates(j) ==
    /\ j.op # "import" => j.start <= day /\ j.comp <= day
    /\ j.op = "import" => /\ {j.start, j.comp} \subseteq ExportDays \cup {0}
                          /\ j.status = "completed" <=> j.comp # 0
                          /\ j.comp # 0 => j.start # 0 /\ j.start <= j.comp

\* A request is taken in as some job that the routes can ask for: a calendar
\* route names an episode, and only the bare writers begin with the history lock.
Taken(r) ==
    \E j \in Jobs, first \in {"media", "tracking", "history", "state"} :
        /\ j.op \in {"plan", "unplan", "calmark"} => j.ep \in Episodes
        /\ BringsDates(j)
        /\ first = "history" => j.op \in Bare
        /\ first = "state" => j.ep \in Episodes
        /\ Begin(r, j, first)

LEMMA TakenAs ==
    ASSUME NEW r \in Requests, NEW j \in Jobs,
           NEW first \in {"media", "tracking", "history", "state"},
           j.op \in {"plan", "unplan", "calmark"} => j.ep \in Episodes,
           BringsDates(j),
           first = "history" => j.op \in Bare,
           first = "state" => j.ep \in Episodes,
           Begin(r, j, first)
    PROVE  Taken(r)
BY DEF Taken

LEMMA StartTakes ==
    ASSUME TypeOK, NEW r \in Requests, Start(r)
    PROVE  Taken(r)
<1> USE DEF OpNames, Bare
<1>0. /\ Title \in Targets /\ Episodes \subseteq Targets
      /\ Regular \subseteq Episodes /\ Specials \subseteq Episodes
      /\ day \in Nat /\ \A S : AiredOf(S) \subseteq S
  BY BoundsAssumption DEF Targets, Episodes, TypeOK, AiredOf
<1> DEFINE Plain(j) == j.start = 0 /\ j.comp = 0 /\ j.op # "import"
<1>p. \A j : Plain(j) => BringsDates(j)
  BY <1>0 DEF BringsDates
<1>1. CASE BeginCreateTracking(r)
  <2>1. PICK s \in Statuses :
          Begin(r, [Ask("track", Title) EXCEPT !.status = s], "media")
    BY <1>1 DEF BeginCreateTracking
  <2> DEFINE x == Ask("track", Title)
             j == [x EXCEPT !.status = s]
  <2>2. x \in Jobs /\ x.op = "track" /\ x.start = 0 /\ x.comp = 0
    BY <1>0, AskTypes
  <2>3. j \in Jobs /\ j.op = "track" /\ BringsDates(j)
    <3> HIDE DEF x
    <3> QED BY <1>0, <2>2 DEF Jobs, BringsDates
  <2>4. Begin(r, j, "media")
    BY <2>1
  <2> HIDE DEF j
  <2> QED BY <2>3, <2>4, TakenAs
<1>2. CASE BeginUpdateTracking(r)
  <2>1. PICK s \in Statuses \cup {"none"}, a \in 0..day, b \in 0..day :
          Begin(r, [Ask("update", Title) EXCEPT
                      !.status = s, !.start = a, !.comp = b], "tracking")
    BY <1>2 DEF BeginUpdateTracking
  <2> DEFINE x == Ask("update", Title)
             j == [x EXCEPT !.status = s, !.start = a, !.comp = b]
  <2>2. x \in Jobs /\ x.op = "update"
    BY <1>0, AskTypes
  <2>3. j \in Jobs /\ j.op = "update" /\ BringsDates(j)
    <3>1. a \in Nat /\ b \in Nat /\ a <= day /\ b <= day
      BY <1>0
    <3> HIDE DEF x
    <3> QED BY <2>2, <3>1 DEF Jobs, BringsDates
  <2>4. Begin(r, j, "tracking")
    BY <2>1
  <2> HIDE DEF j
  <2> QED BY <2>3, <2>4, TakenAs
<1>3. CASE BeginDeleteTracking(r) \/ BeginRewatchMovie(r)
  BY <1>0, <1>p, <1>3, AskTypes, TakenAs
     DEF BeginDeleteTracking, BeginRewatchMovie
<1>4. CASE BeginCreateHistory(r) \/ BeginDeleteHistory(r)
  BY <1>p, <1>4, AskTypes, TakenAs DEF BeginCreateHistory, BeginDeleteHistory
<1>5. CASE BeginMarkEpisode(r) \/ BeginRewatchEpisode(r) \/ BeginUnmark(r)
  BY <1>0, <1>p, <1>5, AskTypes, TakenAs
     DEF BeginMarkEpisode, BeginRewatchEpisode, BeginUnmark
<1>6. CASE BeginCalendarMark(r) \/ BeginPlan(r) \/ BeginUnplan(r)
  BY <1>0, <1>p, <1>6, AskTypes, TakenAs DEF BeginCalendarMark, BeginPlan, BeginUnplan
<1>7. CASE \/ BeginMarkSeason(r) \/ BeginMarkThrough(r)
           \/ BeginRewatchSeason(r) \/ BeginRewatchShow(r)
  <2>1. PICK op \in {"bulk", "bulkAgain"}, S \in SUBSET Targets : BeginBulk(r, op, S)
    <3>1. CASE BeginMarkSeason(r)
      BY <1>0, <3>1 DEF BeginMarkSeason
    <3>2. CASE BeginMarkThrough(r)
      <4>1. PICK season \in {Regular, Specials} : \E e \in AiredOf(season) :
              BeginBulk(r, "bulk", AiredOf({x \in season : x <= e}))
        BY <3>2 DEF BeginMarkThrough
      <4>2. \A e : AiredOf({x \in season : x <= e}) \subseteq Targets
        BY <1>0
      <4> QED BY <4>1, <4>2
    <3>3. CASE BeginRewatchSeason(r)
      BY <1>0, <3>3 DEF BeginRewatchSeason
    <3>4. CASE BeginRewatchShow(r)
      BY <1>0, <3>4 DEF BeginRewatchShow
    <3> QED BY <1>7, <3>1, <3>2, <3>3, <3>4
  <2> DEFINE x == Ask(op, Title)
             j == [x EXCEPT !.set = S]
  <2>2. x \in Jobs /\ x.op = op /\ x.start = 0 /\ x.comp = 0
    BY <1>0, AskTypes
  <2>3. j \in Jobs /\ j.op = op /\ BringsDates(j)
    <3> HIDE DEF x
    <3> QED BY <1>p, <2>2 DEF Jobs
  <2>4. Begin(r, j, "tracking")
    BY <2>1 DEF BeginBulk
  <2> HIDE DEF j
  <2> QED BY <2>3, <2>4, TakenAs
<1>8. CASE BeginImportShow(r) \/ BeginImportMovie(r)
  <2>1. PICK s \in Statuses, a \in Nat, b \in Nat, S \in SUBSET Targets :
          /\ s = "completed" <=> b # 0
          /\ b # 0 => a # 0 /\ a <= b
          /\ {a, b} \subseteq ExportDays \cup {0}
          /\ Begin(r, Imported(s, a, b, S), "tracking")
    <3>1. "plan_to_watch" \in Statuses /\ "watching" \in Statuses
          /\ "completed" \in Statuses /\ 0 \in Nat
          /\ \A a \in ExportDays : a \in Nat /\ a # 0 /\ a <= a
      BY BoundsAssumption DEF Statuses
    <3>2. CASE BeginImportShow(r)
      BY <3>1, <3>2 DEF BeginImportShow
    <3>3. CASE BeginImportMovie(r)
      BY <1>0, <3>1, <3>3 DEF BeginImportMovie
    <3> QED BY <1>8, <3>2, <3>3
  <2>2. /\ Imported(s, a, b, S) \in Jobs /\ Imported(s, a, b, S).op = "import"
        /\ Imported(s, a, b, S).status = s /\ Imported(s, a, b, S).comp = b
        /\ Imported(s, a, b, S).start = a
    BY <1>0 DEF Imported, Ask, NoJob, Jobs
  <2> QED BY <2>1, <2>2, TakenAs DEF BringsDates
<1> QED
  BY <1>1, <1>2, <1>3, <1>4, <1>5, <1>6, <1>7, <1>8 DEF Start

LEMMA StartPreserves ==
    ASSUME IInv, NEW r \in Requests, Start(r)
    PROVE  IInv'
BY StartTakes, BeginStep DEF Taken, IInv

\* An answer, and a roll-back, in terms of EndStep.
LEMMA AnswerStep ==
    ASSUME IInv, NEW r \in Requests, NEW a \in Answers, Answer(r, a),
           um' \in Rows,
           hist' \in [Targets -> Nat], plans' \subseteq Episodes,
           day' = day,
           PlanWatchExclusive',
           \A q \in Requests \ {r} :
              pc[q] \in Planning => hist'[job[q].ep] = 0
    PROVE  IInv'
<1>1. "idle" \in Labels \ Writing
  BY DEF Labels, Writing
<1>2. result' \in [Requests -> Answers] /\ day' \in 1..MaxDay
  BY DEF Answer, IInv, TypeOK, Answers
<1> QED BY <1>1, <1>2, EndStep DEF Answer

LEMMA OthersStillValid ==
    ASSUME IInv, NEW r \in Requests, UNCHANGED hist
    PROVE  \A q \in Requests \ {r} :
              pc[q] \in Planning => hist'[job[q].ep] = 0
BY DEF IInv, PlanStillValid

LEMMA AbortStep ==
    ASSUME IInv, NEW r \in Requests, NEW a \in Answers, Abort(r, a), day' = day
    PROVE  IInv'
<1>1. Answer(r, a) /\ UNCHANGED <<um, hist, plans>>
  BY DEF Abort, data
<1>2. um' \in Rows /\ hist' \in [Targets -> Nat] /\ plans' \subseteq Episodes
  BY <1>1 DEF IInv, TypeOK
<1>3. PlanWatchExclusive'
  BY <1>1 DEF IInv, PlanWatchExclusive, Watched
<1> QED BY <1>1, <1>2, <1>3, AnswerStep, OthersStillValid

LEMMA StageStep ==
    ASSUME IInv, NEW r \in Requests, NEW u \in Rows, NEW b \in BOOLEAN,
           StageRow(r, u, b), LockFree("row"), day' = day
    PROVE  IInv'
<1>1. CASE ~RowAllowed(u)
  BY <1>1, AbortStep DEF StageRow, Answers
<1>2. CASE RowAllowed(u) /\ b
  <2>1. HoldThen(r, "row", "history") /\ pend' = [pend EXCEPT ![r] = u]
    BY <1>2 DEF StageRow
  <2>2. pend' \in [Requests -> Rows]
    BY <2>1 DEF IInv, TypeOK
  <2>3. /\ "history" \in Labels /\ "history" \notin Writing
        /\ "history" \notin Planning /\ "row" \in LockNames
    BY DEF Labels, Writing, Planning, LockNames
  <2> QED BY <2>1, <2>2, <2>3, HoldStep DEF LockFree
<1>3. CASE RowAllowed(u) /\ ~b
  <2>1. um' = u /\ Answer(r, "ok") /\ UNCHANGED <<hist, plans>>
    BY <1>3 DEF StageRow
  <2>2. hist' \in [Targets -> Nat] /\ plans' \subseteq Episodes
    BY <2>1 DEF IInv, TypeOK
  <2>3. PlanWatchExclusive'
    BY <2>1 DEF IInv, PlanWatchExclusive, Watched
  <2> QED BY <2>1, <2>2, <2>3, AnswerStep, OthersStillValid DEF Answers
<1> QED BY <1>1, <1>2, <1>3

\* While r holds the history lock nobody else is planning.
LEMMA AloneWithHistory ==
    ASSUME IInv, NEW r \in Requests, pc[r] \in Writing
    PROVE  /\ lock["history"] = r
           /\ \A q \in Requests \ {r} : pc[q] \notin Planning
BY DEF IInv, HistoryLockHeld, Writing, Planning

LEMMA LockPreserves ==
    ASSUME IInv, NEW r \in Requests,
           \/ LockMedia(r) \/ LockEpisodeState(r) \/ LockTracking(r)
           \/ LockHistory(r) \/ ReservePlan(r)
    PROVE  IInv'
<1>0. /\ "ok" \in Answers /\ "refused" \in Answers
      /\ pend \in [Requests -> Rows] /\ job[r] \in Jobs
      /\ um \in Rows /\ hist \in [Targets -> Nat] /\ plans \subseteq Episodes
  BY DEF Answers, IInv, TypeOK
<1>1. CASE LockMedia(r)
  <2>1. /\ "tracking" \in Labels /\ "tracking" \notin Writing
        /\ "tracking" \notin Planning /\ "media" \in LockNames
    BY DEF Labels, Writing, Planning, LockNames
  <2> QED BY <1>0, <1>1, <2>1, HoldStep DEF LockMedia, LockFree
<1>2. CASE LockEpisodeState(r)
  <2> DEFINE e == job[r].ep
  <2>1. CASE Asked(r, {"unplan"})
    <3>1. /\ plans' = plans \ {e} /\ Answer(r, "ok")
          /\ UNCHANGED <<um, hist, day>>
      BY <1>2, <2>1 DEF LockEpisodeState
    <3>2. PlanWatchExclusive'
      BY <3>1 DEF IInv, PlanWatchExclusive, Watched
    <3>3. um' \in Rows /\ hist' \in [Targets -> Nat] /\ plans' \subseteq Episodes
      BY <1>0, <3>1
    <3> QED BY <1>0, <3>1, <3>2, <3>3, AnswerStep, OthersStillValid
  <2>2. CASE ~Asked(r, {"unplan"})
    <3>1. /\ stateLock' = [stateLock EXCEPT ![e] = r]
          /\ pc' = [pc EXCEPT ![r] = "tracking"]
          /\ UNCHANGED <<um, hist, plans, day, lock, job, pend, result>>
      BY <1>2, <2>2 DEF LockEpisodeState, data
    <3>2. TypeOK'
      BY <3>1 DEF IInv, TypeOK, Labels
    <3>3. \A q \in Requests : pc'[q] \in Writing => pc[q] \in Writing /\ pc'[q] = pc[q]
      BY <3>1 DEF IInv, TypeOK, Writing
    <3>4. HistoryLockHeld' /\ CalendarNamesEpisode'
      BY <3>1, <3>3 DEF IInv, HistoryLockHeld, CalendarNamesEpisode
    <3>5. PlanStillValid'
      BY <3>1, <3>3 DEF IInv, PlanStillValid, Writing, Planning
    <3>6. PlanWatchExclusive'
      BY <3>1 DEF IInv, PlanWatchExclusive, Watched
    <3> QED BY <3>2, <3>4, <3>5, <3>6 DEF IInv
  <2> QED BY <2>1, <2>2
<1>3. CASE LockTracking(r)
  <2>1. CASE Abort(r, "refused")
    BY <1>0, <1>3, <2>1, AbortStep DEF LockTracking
  <2>2. CASE ~Abort(r, "refused")
    <3>1. PICK next \in {"history", "row"} :
            HoldThen(r, "tracking", next) /\ pend' = [pend EXCEPT ![r] = um]
      BY <1>3, <2>2 DEF LockTracking
    <3>2. pend' \in [Requests -> Rows]
      BY <1>0, <3>1
    <3>3. /\ next \in Labels /\ next \notin Writing /\ next \notin Planning
          /\ "tracking" \in LockNames
      BY DEF Labels, Writing, Planning, LockNames
    <3> QED BY <1>3, <3>1, <3>2, <3>3, HoldStep DEF LockTracking, LockFree
  <2> QED BY <2>1, <2>2
<1>4. CASE LockHistory(r)
  <2>1. lock["history"] = Free /\ day' = day
    BY <1>4 DEF LockHistory, LockFree
  <2>2. CASE Abort(r, "refused")
    BY <1>0, <2>1, <2>2, AbortStep
  <2>3. CASE um' = pend[r] /\ Answer(r, "ok") /\ UNCHANGED <<hist, plans>>
    <3>1. PlanWatchExclusive'
      BY <2>3 DEF IInv, PlanWatchExclusive, Watched
    <3>2. um' \in Rows /\ hist' \in [Targets -> Nat] /\ plans' \subseteq Episodes
      BY <1>0, <2>3
    <3> QED BY <1>0, <2>1, <2>3, <3>1, <3>2, AnswerStep, OthersStillValid
  <2>4. CASE \E next \in {"remove", "insert"} :
               HoldThen(r, "history", next) /\ UNCHANGED pend
    <3>1. /\ {"remove", "insert"} \subseteq Labels \ Planning
          /\ "history" \in LockNames
      BY DEF Labels, Planning, LockNames
    <3> QED BY <1>0, <2>1, <2>4, <3>1, HoldStep
  <2>5. CASE /\ Asked(r, {"plan"}) /\ ~(hist[job[r].ep] > 0)
             /\ HoldThen(r, "history", "plan") /\ UNCHANGED pend
    <3>1. job[r].op = "plan" /\ hist[job[r].ep] = 0
      <4>1. job[r].ep \in Targets
        BY <1>0 DEF Jobs
      <4> QED BY <1>0, <2>5, <4>1 DEF Asked
    <3>2. "plan" \in Labels /\ "history" \in LockNames
      BY DEF Labels, LockNames
    <3> QED BY <1>0, <2>1, <2>5, <3>1, <3>2, HoldStep
  <2> QED
    BY <1>4, <2>2, <2>3, <2>4, <2>5 DEF LockHistory, QuotaRefused
<1>5. CASE ReservePlan(r)
  <2>1. CASE Abort(r, "refused")
    BY <1>0, <1>5, <2>1, AbortStep DEF ReservePlan
  <2>2. CASE ~Abort(r, "refused")
    <3>1. /\ HoldThen(r, "plan", "planInsert") /\ UNCHANGED <<pend, day>>
          /\ pc[r] = "plan" /\ lock["plan"] = Free
      BY <1>5, <2>2 DEF ReservePlan, QuotaRefused, LockFree
    <3>2. "planInsert" \in Labels /\ "plan" \in LockNames
      BY DEF Labels, LockNames
    <3>3. lock["history"] = r /\ job[r].op = "plan" /\ hist[job[r].ep] = 0
      BY <3>1 DEF IInv, HistoryLockHeld, PlanStillValid, Writing, Planning
    <3> QED BY <1>0, <3>1, <3>2, <3>3, HoldStep
  <2> QED BY <2>1, <2>2
<1> QED BY <1>1, <1>2, <1>3, <1>4, <1>5

LEMMA RowPreserves ==
    ASSUME IInv, NEW r \in Requests,
           \/ CreateTracking(r) \/ UpdateTracking(r) \/ DeleteTracking(r)
           \/ EnsureTracking(r)
    PROVE  IInv'
<1>0. /\ "ok" \in Answers /\ "refused" \in Answers
      /\ job[r] \in Jobs /\ job[r].today \in Nat
      /\ um \in Rows /\ hist \in [Targets -> Nat] /\ plans \subseteq Episodes
  BY DEF Answers, IInv, TypeOK, Jobs
<1>1. CASE CreateTracking(r)
  <2>1. CreateUpsert(um, job[r].status, job[r].today) \in Rows
    BY <1>0 DEF Jobs, Rows, CreateUpsert, Coalesce
  <2> DEFINE b == job[r].status = "completed" /\ pend[r].status # "completed"
             u == CreateUpsert(um, job[r].status, job[r].today)
  <2>2. StageRow(r, u, b) /\ LockFree("row") /\ day' = day /\ b \in BOOLEAN
    BY <1>1 DEF CreateTracking
  <2> HIDE DEF b, u
  <2>3. u \in Rows
    BY <2>1 DEF u
  <2> QED BY <2>2, <2>3, StageStep
<1>2. CASE UpdateTracking(r)
  <2> DEFINE u == UpdatedRow(um, job[r])
             b == um.status # "completed" /\ u.status = "completed"
  <2>1. u \in Rows
    BY <1>0, UpdatedRowType
  <2>2. CASE Abort(r, "refused")
    BY <1>0, <1>2, <2>2, AbortStep DEF UpdateTracking
  <2>3. CASE ~Abort(r, "refused")
    <3>1. StageRow(r, u, b) /\ LockFree("row") /\ day' = day /\ b \in BOOLEAN
      BY <1>2, <2>3 DEF UpdateTracking
    <3> HIDE DEF b, u
    <3> QED BY <2>1, <3>1, StageStep
  <2> QED BY <2>2, <2>3
<1>3. CASE DeleteTracking(r)
  <2>1. CASE Abort(r, "refused")
    BY <1>0, <1>3, <2>1, AbortStep DEF DeleteTracking
  <2>2. CASE ~Abort(r, "refused")
    <3>1. /\ um' = NoRow /\ Answer(r, "ok")
          /\ UNCHANGED <<hist, plans, day>>
      BY <1>3, <2>2 DEF DeleteTracking
    <3>2. /\ um' \in Rows /\ hist' \in [Targets -> Nat]
          /\ plans' \subseteq Episodes
      BY <1>0, <3>1 DEF NoRow, Rows
    <3>3. PlanWatchExclusive'
      BY <3>1 DEF IInv, PlanWatchExclusive, Watched
    <3> QED BY <1>0, <3>1, <3>2, <3>3, AnswerStep, OthersStillValid
  <2> QED BY <2>1, <2>2
<1>4. CASE EnsureTracking(r)
  <2>1. WatchUpsert(um, job[r].today) \in Rows
    BY <1>0 DEF Rows, WatchUpsert, Coalesce, Statuses
  <2> QED BY <1>4, <2>1, StageStep DEF EnsureTracking
<1> QED BY <1>1, <1>2, <1>3, <1>4

LEMMA RecordPreserves ==
    ASSUME IInv, NEW r \in Requests, RecordWatch(r)
    PROVE  IInv'
<1> DEFINE rows == NewRows(r)
<1>0. /\ pc[r] \in Writing /\ pc[r] \notin Planning /\ day' = day
      /\ um \in Rows /\ hist \in [Targets -> Nat] /\ plans \subseteq Episodes
      /\ job[r] \in Jobs /\ rows \subseteq Targets /\ FinalRow(r) \in Rows
  BY NewRowsType, FinalRowType DEF RecordWatch, Writing, Planning, IInv, TypeOK
<1>1. CASE ~RowAllowed(FinalRow(r))
  BY <1>0, <1>1, AbortStep DEF RecordWatch, Answers
<1>2. CASE RowAllowed(FinalRow(r))
  <2>1. /\ um' = FinalRow(r)
        /\ hist' = [t \in Targets |-> hist[t] + IF t \in rows THEN 1 ELSE 0]
        /\ plans' \subseteq plans \ rows
        /\ CommitThen(r, "promote") \/ Answer(r, "ok")
    BY <1>2 DEF RecordWatch, PlansAfter
  <2>2. um' \in Rows /\ hist' \in [Targets -> Nat] /\ plans' \subseteq Episodes
    <3> HIDE DEF rows
    <3> QED BY <1>0, <2>1
  <2>3. PlanWatchExclusive'
    <3>1. SUFFICES ASSUME NEW e \in plans'
                   PROVE  e \in Episodes /\ hist'[e] = 0
      BY <2>2 DEF PlanWatchExclusive, Watched
    <3>2. e \in plans /\ e \notin rows /\ e \in Episodes /\ e \in Targets
      BY <1>0, <2>1 DEF Targets
    <3>3. hist[e] = 0
      BY <1>0, <3>2 DEF IInv, PlanWatchExclusive, Watched
    <3> QED BY <2>1, <3>2, <3>3
  <2>4. \A q \in Requests \ {r} : pc[q] \in Planning => hist'[job[q].ep] = 0
    BY <1>0, AloneWithHistory
  <2>5. CASE Answer(r, "ok")
    BY <1>0, <2>1, <2>2, <2>3, <2>4, <2>5, AnswerStep DEF Answers
  <2>6. CASE CommitThen(r, "promote")
    <3>1. "promote" \in Labels \ Writing
      BY DEF Labels, Writing
    <3>2. result' \in [Requests -> Answers] /\ day' \in 1..MaxDay
      BY <1>0, <2>6 DEF CommitThen, IInv, TypeOK, Answers
    <3> QED BY <2>2, <2>3, <2>4, <2>6, <3>1, <3>2, EndStep DEF CommitThen
  <2> QED BY <2>1, <2>5, <2>6
<1> QED BY <1>1, <1>2

LEMMA RemovePreserves ==
    ASSUME IInv, NEW r \in Requests, RemoveWatch(r)
    PROVE  IInv'
<1> DEFINE e == job[r].ep
<1>0. /\ pc[r] \in Writing /\ day' = day
      /\ um \in Rows /\ hist \in [Targets -> Nat] /\ plans \subseteq Episodes
      /\ e \in Targets
  BY DEF RemoveWatch, Writing, IInv, TypeOK, Jobs
<1>1. CASE NothingToRemove(e)
  BY <1>0, <1>1, AbortStep DEF RemoveWatch, Answers
<1>2. CASE ~NothingToRemove(e)
  <2>1. /\ hist' = [hist EXCEPT ![e] = IF Asked(r, {"unmark"}) THEN 0 ELSE @ - 1]
        /\ CommitThen(r, "demote") /\ UNCHANGED <<um, plans>>
    BY <1>2 DEF RemoveWatch
  <2>2. /\ hist' \in [Targets -> Nat]
        /\ \A t \in Targets : hist'[t] <= hist[t]
    BY <1>0, <1>2, <2>1 DEF NothingToRemove
  <2>3. um' \in Rows /\ plans' \subseteq Episodes /\ Episodes \subseteq Targets
    BY <1>0, <2>1 DEF Targets
  <2>4. Watched' \subseteq Watched
    BY <1>0, <2>2, <2>3 DEF Watched
  <2>5. PlanWatchExclusive'
    BY <2>1, <2>4 DEF IInv, PlanWatchExclusive
  <2>6. \A q \in Requests \ {r} : pc[q] \in Planning => hist'[job[q].ep] = 0
    BY <1>0, AloneWithHistory
  <2>7. "demote" \in Labels \ Writing
    BY DEF Labels, Writing
  <2>8. result' \in [Requests -> Answers] /\ day' \in 1..MaxDay
    BY <1>0, <2>1 DEF CommitThen, IInv, TypeOK, Answers
  <2> QED BY <2>1, <2>2, <2>3, <2>5, <2>6, <2>7, <2>8, EndStep DEF CommitThen
<1> QED BY <1>1, <1>2

LEMMA InsertPreserves ==
    ASSUME IInv, NEW r \in Requests, InsertPlan(r)
    PROVE  IInv'
<1>1. /\ pc[r] = "planInsert" /\ plans' = plans \cup {job[r].ep}
      /\ Answer(r, "ok") /\ UNCHANGED <<um, hist, day>>
  BY DEF InsertPlan
<1>2. job[r].ep \in Episodes /\ hist[job[r].ep] = 0
  BY <1>1 DEF IInv, PlanStillValid, Planning, CalendarNamesEpisode
<1>3. PlanWatchExclusive'
  BY <1>1, <1>2 DEF IInv, PlanWatchExclusive, Watched
<1>4. um' \in Rows /\ hist' \in [Targets -> Nat] /\ plans' \subseteq Episodes
  BY <1>1, <1>2 DEF IInv, TypeOK
<1> QED BY <1>1, <1>3, <1>4, AnswerStep, OthersStillValid DEF Answers

\* The completion service reads and writes the tracking row only.
LEMMA CompletionPreserves ==
    ASSUME IInv, NEW r \in Requests,
           \/ ReadForPromotion(r) \/ Promote(r)
           \/ ReadForDemotion(r) \/ Demote(r)
    PROVE  IInv'
<1>0. /\ um \in Rows /\ day \in Nat /\ job[r].today \in Nat
      /\ "ok" \in Answers
  BY BoundsAssumption DEF IInv, TypeOK, Jobs, Answers
<1>1. UNCHANGED <<hist, plans, day>>
  BY DEF ReadForPromotion, Promote, ReadForDemotion, Demote, data
<1>2. um' \in Rows
  <2>1. PromotedRow(um, job[r].today) \in Rows /\ ReopenedRow(um) \in Rows
    BY <1>0 DEF Rows, PromotedRow, ReopenedRow, Later, Statuses
  <2> QED BY <1>0, <2>1 DEF ReadForPromotion, Promote, ReadForDemotion, Demote, data
<1>3. hist' \in [Targets -> Nat] /\ plans' \subseteq Episodes
  BY <1>1 DEF IInv, TypeOK
<1>4. PlanWatchExclusive'
  BY <1>1 DEF IInv, PlanWatchExclusive, Watched
<1>5. CASE Answer(r, "ok")
  BY <1>0, <1>1, <1>2, <1>3, <1>4, <1>5, AnswerStep, OthersStillValid
<1>6. CASE ~Answer(r, "ok")
  <2>1. PICK l \in {"promoting", "demoting"} :
          /\ pc' = [pc EXCEPT ![r] = l]
          /\ job' = job \/ job' = [job EXCEPT ![r].today = day]
          /\ UNCHANGED <<lock, stateLock, pend, result, um>>
    BY <1>6 DEF ReadForPromotion, Promote, ReadForDemotion, Demote, locks, data
  <2>2. job' \in [Requests -> Jobs]
    <3>1. job \in [Requests -> Jobs] /\ job[r] \in Jobs
      BY DEF IInv, TypeOK
    <3>2. [job[r] EXCEPT !.today = day] \in Jobs
      BY <1>0, <3>1 DEF Jobs
    <3> QED BY <2>1, <3>1, <3>2
  <2>3. \A q \in Requests : job'[q].op = job[q].op /\ job'[q].ep = job[q].ep
    BY <2>1 DEF IInv, TypeOK, Jobs
  <2>4. TypeOK'
    BY <1>1, <2>1, <2>2 DEF IInv, TypeOK, Labels
  <2>5. \A q \in Requests : pc'[q] \in Writing => pc[q] = pc'[q]
    BY <2>1 DEF IInv, TypeOK, Writing
  <2>6. HistoryLockHeld' /\ CalendarNamesEpisode'
    BY <2>1, <2>3, <2>5 DEF IInv, HistoryLockHeld, CalendarNamesEpisode
  <2>7. PlanStillValid'
    BY <1>1, <2>3, <2>5 DEF IInv, PlanStillValid, Writing, Planning
  <2> QED BY <1>4, <2>4, <2>6, <2>7 DEF IInv
<1> QED BY <1>5, <1>6

LEMMA NextDayPreserves == ASSUME IInv, NextDay PROVE IInv'
<1>1. /\ UNCHANGED <<um, hist, plans, lock, stateLock, pc, job, pend, result>>
      /\ day' \in 1..MaxDay
  BY BoundsAssumption DEF NextDay, data, locks, IInv, TypeOK
<1> QED
  BY <1>1 DEF IInv, TypeOK, HistoryLockHeld, CalendarNamesEpisode,
              PlanStillValid, PlanWatchExclusive, Watched

-----------------------------------------------------------------------------
(* The theorems. *)

LEMMA InitIInv == ASSUME Init PROVE IInv
<1>1. TypeOK
  BY BoundsAssumption DEF Init, TypeOK, NoRow, NoJob, Rows, Jobs, Labels,
                          Targets, Title
<1> QED
  BY <1>1 DEF Init, IInv, HistoryLockHeld, CalendarNamesEpisode, PlanStillValid,
              PlanWatchExclusive, NoJob, Writing, Planning

LEMMA StepPreserves == ASSUME IInv, NEW r \in Requests, Step(r) PROVE IInv'
BY LockPreserves, RowPreserves, RecordPreserves, RemovePreserves,
   InsertPreserves, CompletionPreserves DEF Step

LEMMA NextPreserves == ASSUME IInv, [Next]_vars PROVE IInv'
<1>1. CASE \E r \in Requests : Start(r)
  BY <1>1, StartPreserves
<1>2. CASE \E r \in Requests : Step(r)
  BY <1>2, StepPreserves
<1>3. CASE \E r \in Requests : DropRequest(r)
  BY <1>3, AbortStep DEF DropRequest, Answers
<1>4. CASE NextDay
  BY <1>4, NextDayPreserves
<1>5. CASE UNCHANGED vars
  BY <1>5 DEF vars, IInv, TypeOK, HistoryLockHeld, CalendarNamesEpisode,
              PlanStillValid, PlanWatchExclusive, Watched
<1> QED BY <1>1, <1>2, <1>3, <1>4, <1>5 DEF Next

\* The strengthened invariant: whoever counts, changes or rules out viewings
\* holds the history lock, and a plan about to be written is still valid.
THEOREM Inductive == Spec => []IInv
BY InitIInv, NextPreserves, PTL DEF Spec

\* Every variable keeps its type, whatever the requests do.
THEOREM TypeCorrect == Spec => []TypeOK
<1>1. IInv => TypeOK
  BY DEF IInv
<1> QED BY <1>1, Inductive, PTL

\* No episode is ever both planned and watched, for any number of concurrent
\* requests of the calendar, history, tracking and import routes.
THEOREM PlannedNeverWatched == Spec => []PlanWatchExclusive
<1>1. IInv => PlanWatchExclusive
  BY DEF IInv
<1> QED BY <1>1, Inductive, PTL

-----------------------------------------------------------------------------
(* The completion date of a tracking row.                                     *)

DatedRow(u) == u.status = "completed" <=> u.completed # 0

\* A request that has begun knows what day it is, an import brings a date
\* exactly for what is completed, and what a transaction is about to write is
\* dated like the row it read.
DatesHold ==
    /\ DatedRow(um)
    /\ \A r \in Requests : DatedRow(pend[r])
    /\ \A r \in Requests : pc[r] # "idle" => job[r].today # 0
    /\ \A r \in Requests : job[r].op = "import" =>
                              (job[r].status = "completed" <=> job[r].comp # 0)

\* The rows that the statements leave.
LEMMA DatedRows ==
    ASSUME NEW u \in Rows, DatedRow(u), NEW s \in Statuses, NEW d \in Nat, d # 0
    PROVE  /\ DatedRow(CreateUpsert(u, s, d)) /\ DatedRow(WatchUpsert(u, d))
           /\ DatedRow(CalendarUpsert(u, d)) /\ DatedRow(PromotedRow(u, d))
           /\ DatedRow(ReopenedRow(u)) /\ DatedRow(NoRow)
<1>1. DatedRow(CreateUpsert(u, s, d)) /\ DatedRow(WatchUpsert(u, d))
  BY DEF Rows, DatedRow, CreateUpsert, WatchUpsert, Coalesce
<1>2. DatedRow(CalendarUpsert(u, d))
  BY DEF Rows, DatedRow, CalendarUpsert, Coalesce
<1>3. DatedRow(PromotedRow(u, d))
  BY DEF Rows, DatedRow, PromotedRow, Later
<1>4. DatedRow(ReopenedRow(u)) /\ DatedRow(NoRow)
  BY DEF Rows, DatedRow, ReopenedRow, NoRow
<1> QED BY <1>1, <1>2, <1>3, <1>4

LEMMA DatedUpdate ==
    ASSUME NEW u \in Rows, NEW j \in Jobs, j.today # 0
    PROVE  DatedRow(UpdatedRow(u, j))
<1> DEFINE s == IF j.status = "none" THEN u.status ELSE j.status
           c == IF s = "completed" THEN Coalesce(j.comp, Coalesce(u.completed, j.today)) ELSE 0
<1>1. UpdatedRow(u, j).status = s /\ UpdatedRow(u, j).completed = c
  BY DEF UpdatedRow
<1>2. Coalesce(j.comp, Coalesce(u.completed, j.today)) # 0
  BY DEF Coalesce
<1> QED BY <1>1, <1>2 DEF DatedRow

\* A step of one request: the others' parts of the invariant stay.
LEMMA DatesFrame ==
    ASSUME DatesHold, NEW r \in Requests, DatedRow(um'), DatedRow(pend'[r]),
           \A q \in Requests \ {r} : pend'[q] = pend[q] /\ pc'[q] = pc[q] /\ job'[q] = job[q],
           pc'[r] # "idle" => job'[r].today # 0,
           job'[r].op = "import" => (job'[r].status = "completed" <=> job'[r].comp # 0)
    PROVE  DatesHold'
BY DEF DatesHold

LEMMA AnswerDates ==
    ASSUME TypeOK, DatesHold, NEW r \in Requests, NEW a, Answer(r, a), DatedRow(um')
    PROVE  DatesHold'
<1>1. /\ pc'[r] = "idle" /\ job'[r] = NoJob /\ pend'[r] = NoRow
      /\ \A q \in Requests \ {r} : pend'[q] = pend[q] /\ pc'[q] = pc[q] /\ job'[q] = job[q]
  BY DEF Answer, TypeOK
<1>2. DatedRow(NoRow) /\ NoJob.op # "import"
  BY DEF DatedRow, NoRow, NoJob
<1> QED BY <1>1, <1>2, DatesFrame

LEMMA AbortDates ==
    ASSUME TypeOK, DatesHold, NEW r \in Requests, NEW a, Abort(r, a)
    PROVE  DatesHold'
<1>1. um' = um /\ Answer(r, a)
  BY DEF Abort, data
<1> QED BY <1>1, AnswerDates DEF DatesHold

\* The request keeps what it was asked to do, and writes or holds dated rows.
LEMMA GoOnDates ==
    ASSUME TypeOK, DatesHold, NEW r \in Requests, pc[r] # "idle", NEW l, pc' = [pc EXCEPT ![r] = l],
           UNCHANGED job, DatedRow(um'), NEW u, DatedRow(u), pend' = [pend EXCEPT ![r] = u]
    PROVE  DatesHold'
<1>1. /\ pend'[r] = u /\ job'[r] = job[r]
      /\ \A q \in Requests \ {r} : pend'[q] = pend[q] /\ pc'[q] = pc[q] /\ job'[q] = job[q]
  BY DEF TypeOK
<1> QED BY <1>1, DatesFrame DEF DatesHold

LEMMA HoldDates ==
    ASSUME TypeOK, DatesHold, NEW r \in Requests, pc[r] # "idle", NEW l, NEW next, HoldThen(r, l, next),
           \/ UNCHANGED pend
           \/ \E u : DatedRow(u) /\ pend' = [pend EXCEPT ![r] = u]
    PROVE  DatesHold'
<1>1. um' = um /\ pc' = [pc EXCEPT ![r] = next] /\ UNCHANGED job
  BY DEF HoldThen, data
<1>2. CASE UNCHANGED pend
  <2>1. pend' = [pend EXCEPT ![r] = pend[r]]
    BY <1>2 DEF TypeOK
  <2> QED BY <1>1, <2>1, GoOnDates DEF DatesHold
<1>3. CASE \E u : DatedRow(u) /\ pend' = [pend EXCEPT ![r] = u]
  BY <1>1, <1>3, GoOnDates DEF DatesHold
<1> QED BY <1>2, <1>3

LEMMA StageDates ==
    ASSUME TypeOK, DatesHold, NEW r \in Requests, pc[r] # "idle", NEW u \in Rows, DatedRow(u),
           NEW more \in BOOLEAN, StageRow(r, u, more)
    PROVE  DatesHold'
<1>1. CASE ~RowAllowed(u)
  BY <1>1, AbortDates DEF StageRow
<1>2. CASE RowAllowed(u) /\ more
  <2>1. HoldThen(r, "row", "history") /\ pend' = [pend EXCEPT ![r] = u]
    BY <1>2 DEF StageRow
  <2> QED BY <2>1, HoldDates
<1>3. CASE RowAllowed(u) /\ ~more
  <2>1. um' = u /\ Answer(r, "ok")
    BY <1>3 DEF StageRow
  <2> QED BY <2>1, AnswerDates
<1> QED BY <1>1, <1>2, <1>3

LEMMA StartDates ==
    ASSUME TypeOK, DatesHold, NEW r \in Requests, Start(r)
    PROVE  DatesHold'
<1>1. PICK j \in Jobs, first \in {"media", "tracking", "history", "state"} :
        BringsDates(j) /\ Begin(r, j, first)
  BY StartTakes DEF Taken
<1> DEFINE j2 == [j EXCEPT !.today = day]
<1>2. j2.today # 0 /\ j2.op = j.op /\ j2.status = j.status /\ j2.comp = j.comp
  BY DEF TypeOK, Jobs
<1>3. job' = [job EXCEPT ![r] = j2] /\ pc' = [pc EXCEPT ![r] = first] /\ UNCHANGED <<um, pend>>
  BY <1>1 DEF Begin, data
<1> HIDE DEF j2
<1>4. /\ job'[r] = j2 /\ pend'[r] = pend[r]
      /\ \A q \in Requests \ {r} : pend'[q] = pend[q] /\ pc'[q] = pc[q] /\ job'[q] = job[q]
  BY <1>3 DEF TypeOK
<1> QED BY <1>1, <1>2, <1>3, <1>4, DatesFrame DEF DatesHold, BringsDates

\* Taking the locks before the row.
LEMMA LockDates ==
    ASSUME TypeOK, DatesHold, NEW r \in Requests,
           LockMedia(r) \/ LockEpisodeState(r) \/ LockTracking(r)
    PROVE  DatesHold'
<1>1. CASE LockMedia(r)
  BY <1>1, HoldDates DEF LockMedia
<1>2. CASE LockEpisodeState(r)
  <2>1. CASE Asked(r, {"unplan"})
    BY <1>2, <2>1, AnswerDates DEF LockEpisodeState, DatesHold
  <2>2. CASE ~Asked(r, {"unplan"})
    <3>1. /\ pc[r] = "state" /\ pc' = [pc EXCEPT ![r] = "tracking"]
          /\ um' = um /\ UNCHANGED <<job, pend>>
      BY <1>2, <2>2 DEF LockEpisodeState, data
    <3>2. pend' = [pend EXCEPT ![r] = pend[r]]
      BY <3>1 DEF TypeOK
    <3> QED BY <3>1, <3>2, GoOnDates DEF DatesHold
  <2> QED BY <2>1, <2>2
<1>3. CASE LockTracking(r)
  <2>1. \/ Abort(r, "refused")
        \/ \E next : HoldThen(r, "tracking", next) /\ pend' = [pend EXCEPT ![r] = um]
    BY <1>3 DEF LockTracking
  <2>2. pc[r] # "idle"
    BY <1>3 DEF LockTracking
  <2> QED BY <2>1, <2>2, AbortDates, HoldDates DEF DatesHold
<1> QED BY <1>1, <1>2, <1>3

\* Writing the row, now or with the viewings.
LEMMA RowDates ==
    ASSUME TypeOK, DatesHold, NEW r \in Requests,
           CreateTracking(r) \/ UpdateTracking(r) \/ DeleteTracking(r) \/ EnsureTracking(r)
    PROVE  DatesHold'
<1>0. /\ um \in Rows /\ DatedRow(um) /\ job[r] \in Jobs /\ job[r].today \in Nat
      /\ pc[r] # "idle" /\ job[r].today # 0
  BY DEF TypeOK, DatesHold, Jobs, CreateTracking, UpdateTracking, DeleteTracking, EnsureTracking
<1>1. CASE CreateTracking(r)
  <2>1. CASE job[r].status \in Statuses
    <3>1. CreateUpsert(um, job[r].status, job[r].today) \in Rows
          /\ DatedRow(CreateUpsert(um, job[r].status, job[r].today))
      BY <1>0, <2>1, RowTypes, DatedRows
    <3> QED BY <1>0, <1>1, <3>1, StageDates DEF CreateTracking
  <2>2. CASE job[r].status = "none"
    <3>1. LET u == CreateUpsert(um, job[r].status, job[r].today) IN u \in Rows /\ DatedRow(u)
      BY <1>0, <2>2 DEF Rows, CreateUpsert, Coalesce, DatedRow
    <3> QED BY <1>0, <1>1, <3>1, StageDates DEF CreateTracking
  <2> QED BY <1>0, <2>1, <2>2 DEF Jobs
<1>2. CASE UpdateTracking(r)
  <2>1. UpdatedRow(um, job[r]) \in Rows /\ DatedRow(UpdatedRow(um, job[r]))
    BY <1>0, UpdatedRowType, DatedUpdate
  <2> QED BY <1>0, <1>2, <2>1, AbortDates, StageDates DEF UpdateTracking
<1>3. CASE DeleteTracking(r)
  <2>1. DatedRow(NoRow)
    BY DEF DatedRow, NoRow
  <2> QED BY <1>3, <2>1, AnswerDates, AbortDates DEF DeleteTracking
<1>4. CASE EnsureTracking(r)
  <2>1. WatchUpsert(um, job[r].today) \in Rows /\ DatedRow(WatchUpsert(um, job[r].today))
    BY <1>0, RowTypes, DatedRows DEF Statuses
  <2> QED BY <1>0, <1>4, <2>1, StageDates DEF EnsureTracking
<1> QED BY <1>1, <1>2, <1>3, <1>4

\* The history lock and what is decided under it.
LEMMA HistoryDates ==
    ASSUME TypeOK, DatesHold, NEW r \in Requests, LockHistory(r) \/ RemoveWatch(r)
                                                  \/ ReservePlan(r) \/ InsertPlan(r)
    PROVE  DatesHold'
<1>1. CASE LockHistory(r)
  <2>1. \/ Abort(r, "refused")
        \/ \E next : HoldThen(r, "history", next) /\ UNCHANGED pend
        \/ um' = pend[r] /\ Answer(r, "ok")
    <3>1. CASE Asked(r, {"plan"})
      BY <1>1, <3>1 DEF LockHistory
    <3>2. CASE ~Asked(r, {"plan"}) /\ Asked(r, {"unmark", "delete"})
      BY <1>1, <3>2 DEF LockHistory
    <3>3. CASE ~Asked(r, {"plan"}) /\ ~Asked(r, {"unmark", "delete"})
      BY <1>1, <3>3 DEF LockHistory, QuotaRefused
    <3> QED BY <3>1, <3>2, <3>3
  <2>2. pc[r] # "idle"
    BY <1>1 DEF LockHistory
  <2> QED BY <2>1, <2>2, AbortDates, HoldDates, AnswerDates DEF DatesHold
<1>2. CASE RemoveWatch(r)
  <2>1. CASE NothingToRemove(job[r].ep)
    BY <1>2, <2>1, AbortDates DEF RemoveWatch
  <2>2. CASE ~NothingToRemove(job[r].ep)
    <3>1. /\ pc[r] # "idle" /\ um' = um /\ UNCHANGED job
          /\ pc' = [pc EXCEPT ![r] = "demote"] /\ pend' = [pend EXCEPT ![r] = NoRow]
      BY <1>2, <2>2 DEF RemoveWatch, CommitThen
    <3>2. DatedRow(NoRow)
      BY DEF DatedRow, NoRow
    <3> QED BY <3>1, <3>2, GoOnDates DEF DatesHold
  <2> QED BY <2>1, <2>2
<1>3. CASE ReservePlan(r)
  BY <1>3, AbortDates, HoldDates DEF ReservePlan, QuotaRefused
<1>4. CASE InsertPlan(r)
  BY <1>4, AnswerDates DEF InsertPlan, DatesHold
<1> QED BY <1>1, <1>2, <1>3, <1>4

\* The commit of the viewings, together with the row read before them.
LEMMA RecordDates ==
    ASSUME TypeOK, DatesHold, NEW r \in Requests, RecordWatch(r)
    PROVE  DatesHold'
<1>0. /\ um \in Rows /\ DatedRow(um) /\ job[r] \in Jobs /\ job[r].today \in Nat
      /\ pc[r] # "idle" /\ job[r].today # 0 /\ DatedRow(pend[r])
      /\ job[r].op = "import" => (job[r].status = "completed" <=> job[r].comp # 0)
  BY DEF TypeOK, DatesHold, Jobs, RecordWatch
<1>1. DatedRow(FinalRow(r))
  <2>1. DatedRow(CalendarUpsert(um, job[r].today))
    BY <1>0, DatedRows DEF Statuses
  <2>2. job[r].op = "import" =>
          DatedRow([status |-> job[r].status, started |-> job[r].start, completed |-> job[r].comp])
    BY <1>0 DEF DatedRow
  <2> QED BY <1>0, <2>1, <2>2 DEF FinalRow
<1>2. CASE ~RowAllowed(FinalRow(r))
  BY <1>2, AbortDates DEF RecordWatch
<1>3. CASE RowAllowed(FinalRow(r))
  <2>1. um' = FinalRow(r) /\ (CommitThen(r, "promote") \/ Answer(r, "ok"))
    BY <1>3 DEF RecordWatch
  <2>2. CASE CommitThen(r, "promote")
    <3>1. UNCHANGED job /\ pc' = [pc EXCEPT ![r] = "promote"] /\ pend' = [pend EXCEPT ![r] = NoRow]
      BY <2>2 DEF CommitThen
    <3>2. DatedRow(NoRow)
      BY DEF DatedRow, NoRow
    <3> QED BY <1>0, <1>1, <2>1, <3>1, <3>2, GoOnDates
  <2> QED BY <1>1, <2>1, <2>2, AnswerDates
<1> QED BY <1>2, <1>3

\* The completion service: the promotion dates the row, the demotion undates it.
LEMMA CompletionDates ==
    ASSUME TypeOK, DatesHold, NEW r \in Requests,
           ReadForPromotion(r) \/ Promote(r) \/ ReadForDemotion(r) \/ Demote(r)
    PROVE  DatesHold'
<1>0. /\ um \in Rows /\ DatedRow(um) /\ job[r] \in Jobs /\ job[r].today \in Nat
      /\ pc[r] # "idle" /\ job[r].today # 0 /\ day # 0
  BY DEF TypeOK, DatesHold, Jobs, ReadForPromotion, Promote, ReadForDemotion, Demote
<1>1. CASE ReadForPromotion(r)
  <2>1. um' = um
    BY <1>1 DEF ReadForPromotion, data
  <2>2. CASE PromotionDue
    <3> DEFINE j2 == [job[r] EXCEPT !.today = day]
    <3>1. j2.today = day /\ j2.op = job[r].op /\ j2.status = job[r].status /\ j2.comp = job[r].comp
      BY <1>0 DEF Jobs
    <3>2. pc' = [pc EXCEPT ![r] = "promoting"] /\ job' = [job EXCEPT ![r] = j2] /\ UNCHANGED pend
      BY <1>1, <2>2 DEF ReadForPromotion, TypeOK
    <3> HIDE DEF j2
    <3>3. /\ job'[r] = j2 /\ pend'[r] = pend[r]
          /\ \A q \in Requests \ {r} : pend'[q] = pend[q] /\ pc'[q] = pc[q] /\ job'[q] = job[q]
      BY <3>2 DEF TypeOK
    <3> QED BY <1>0, <2>1, <3>1, <3>3, DatesFrame DEF DatesHold
  <2>3. CASE ~PromotionDue
    BY <1>0, <1>1, <2>1, <2>3, AnswerDates DEF ReadForPromotion
  <2> QED BY <2>2, <2>3
<1>2. CASE Promote(r)
  <2>1. DatedRow(PromotedRow(um, job[r].today))
    BY <1>0, DatedRows DEF Statuses
  <2> QED BY <1>0, <1>2, <2>1, AnswerDates DEF Promote
<1>3. CASE ReadForDemotion(r)
  <2>1. um' = um
    BY <1>3 DEF ReadForDemotion, data
  <2>2. CASE DemotionDue
    <3>1. pc' = [pc EXCEPT ![r] = "demoting"] /\ UNCHANGED <<job, pend>>
      BY <1>3, <2>2 DEF ReadForDemotion
    <3>2. pend' = [pend EXCEPT ![r] = pend[r]]
      BY <3>1 DEF TypeOK
    <3> QED BY <1>0, <2>1, <3>1, <3>2, GoOnDates DEF DatesHold
  <2>3. CASE ~DemotionDue
    BY <1>0, <1>3, <2>1, <2>3, AnswerDates DEF ReadForDemotion
  <2> QED BY <2>2, <2>3
<1>4. CASE Demote(r)
  <2>1. DatedRow(ReopenedRow(um))
    BY <1>0, DatedRows DEF Statuses
  <2> QED BY <1>0, <1>4, <2>1, AnswerDates DEF Demote
<1> QED BY <1>1, <1>2, <1>3, <1>4

LEMMA NextDates == ASSUME TypeOK, DatesHold, [Next]_vars PROVE DatesHold'
<1>1. CASE \E r \in Requests : Start(r)
  BY <1>1, StartDates
<1>2. CASE \E r \in Requests : Step(r)
  BY <1>2, LockDates, RowDates, HistoryDates, RecordDates, CompletionDates DEF Step
<1>3. CASE \E r \in Requests : DropRequest(r)
  BY <1>3, AbortDates DEF DropRequest
<1>4. CASE NextDay \/ UNCHANGED vars
  BY <1>4 DEF NextDay, vars, data, DatesHold
<1> QED BY <1>1, <1>2, <1>3, <1>4 DEF Next

\* A tracking row has a completion date exactly while it is completed, whatever
\* requests of the tracking, history, calendar and import routes and statements
\* of the completion service interleave, and wherever they are cut off.
THEOREM CompletedIsDated == Spec => []CompletionDated
<1>1. Init => DatesHold
  BY DEF Init, DatesHold, DatedRow, NoRow, NoJob
<1>2. TypeOK /\ DatesHold /\ [Next]_vars => DatesHold'
  BY NextDates
<1>3. DatesHold => CompletionDated
  BY DEF DatesHold, DatedRow, CompletionDated
<1> QED BY <1>1, <1>2, <1>3, TypeCorrect, PTL DEF Spec

-----------------------------------------------------------------------------
(* Lock cycles.                                                              *)

RowWriters == {"track", "update", "untrack", "mark", "rewatch", "bulk", "bulkAgain"}

\* Where a request that holds each of the locks can be; which requests hold the
\* tracking lock on their way to the history; and whose state lock is asked for.
HoldsAt(r) ==
    /\ lock["media"] = r =>
         pc[r] \in {"tracking", "row", "history", "insert", "remove", "plan", "planInsert"}
    /\ lock["tracking"] = r => pc[r] \in {"row", "history", "insert", "remove", "plan", "planInsert"}
    /\ lock["row"] = r => pc[r] \in {"history", "insert"} /\ job[r].op \in RowWriters
    /\ lock["history"] = r => pc[r] \in Writing
    /\ lock["plan"] = r => pc[r] = "planInsert"
    /\ \A e \in Episodes : stateLock[e] = r =>
         pc[r] \in {"tracking", "row", "history", "insert", "remove", "plan", "planInsert"}

Placed(r) ==
    /\ \/ pc[r] = "row"
       \/ pc[r] \in {"history", "insert"} /\ job[r].op \notin Bare
       => lock["tracking"] = r
    /\ pc[r] = "state" => job[r].ep \in Episodes

LocksInPlace == \A r \in Requests : HoldsAt(r) /\ Placed(r)

\* A step of one request: the others hold what they held.
LEMMA LocksFrame ==
    ASSUME LocksInPlace, NEW r \in Requests, HoldsAt(r)', Placed(r)',
           \A q \in Requests \ {r} : pc'[q] = pc[q] /\ job'[q] = job[q],
           \A q \in Requests \ {r}, l \in LockNames : lock'[l] = q <=> lock[l] = q,
           \A q \in Requests \ {r}, e \in Episodes : stateLock'[e] = q <=> stateLock[e] = q
    PROVE  LocksInPlace'
<1>1. ASSUME NEW q \in Requests \ {r} PROVE HoldsAt(q)' /\ Placed(q)'
  <2>1. HoldsAt(q) /\ Placed(q)
    BY DEF LocksInPlace
  <2>2. \A l \in LockNames : lock'[l] = q <=> lock[l] = q
    OBVIOUS
  <2>3. HoldsAt(q)'
    BY <2>1, <2>2 DEF HoldsAt, LockNames
  <2>4. Placed(q)'
    BY <2>1, <2>2 DEF Placed, LockNames
  <2> QED BY <2>3, <2>4
<1> QED BY <1>1 DEF LocksInPlace

\* A transaction that ends holds nothing.
LEMMA EndLocks ==
    ASSUME TypeOK, LocksInPlace, NEW r \in Requests, Release(r),
           NEW l \in {"idle", "promote", "demote"}, pc' = [pc EXCEPT ![r] = l],
           job' = job \/ job' = [job EXCEPT ![r] = NoJob]
    PROVE  LocksInPlace'
<1>1. \A k \in LockNames : lock'[k] # r /\ \A q \in Requests \ {r} : lock'[k] = q <=> lock[k] = q
  BY BoundsAssumption DEF Release
<1>2. \A e \in Episodes :
        stateLock'[e] # r /\ \A q \in Requests \ {r} : stateLock'[e] = q <=> stateLock[e] = q
  BY BoundsAssumption DEF Release
<1>3. pc'[r] = l /\ \A q \in Requests \ {r} : pc'[q] = pc[q] /\ job'[q] = job[q]
  BY DEF TypeOK
<1>4. HoldsAt(r)'
  BY <1>1, <1>2 DEF HoldsAt, LockNames
<1>5. Placed(r)'
  BY <1>3 DEF Placed
<1> QED BY <1>1, <1>2, <1>3, <1>4, <1>5, LocksFrame

LEMMA AnswerLocks ==
    ASSUME TypeOK, LocksInPlace, NEW r \in Requests, NEW a, Answer(r, a)
    PROVE  LocksInPlace'
BY EndLocks DEF Answer

\* A transaction takes one more lock.
LEMMA HoldLocks ==
    ASSUME TypeOK, LocksInPlace, NEW r \in Requests, NEW k \in LockNames, NEW next,
           lock[k] = Free, HoldThen(r, k, next), HoldsAt(r)', Placed(r)'
    PROVE  LocksInPlace'
<1>1. \A q \in Requests \ {r} : pc'[q] = pc[q] /\ job'[q] = job[q]
  BY DEF HoldThen, TypeOK
<1>2. \A q \in Requests \ {r}, m \in LockNames : lock'[m] = q <=> lock[m] = q
  BY BoundsAssumption DEF HoldThen, TypeOK
<1>3. \A q \in Requests \ {r}, e \in Episodes : stateLock'[e] = q <=> stateLock[e] = q
  BY DEF HoldThen
<1> QED BY <1>1, <1>2, <1>3, LocksFrame

\* What a step that takes lock k leaves its own request with.
LEMMA OwnLocks ==
    ASSUME TypeOK, NEW r \in Requests, NEW k \in LockNames, NEW next, HoldThen(r, k, next)
    PROVE  /\ pc'[r] = next /\ job'[r] = job[r] /\ stateLock' = stateLock /\ lock'[k] = r
           /\ \A m \in LockNames \ {k} : lock'[m] = lock[m]
BY DEF HoldThen, TypeOK

LEMMA StartLocks ==
    ASSUME TypeOK, LocksInPlace, NEW r \in Requests, Start(r)
    PROVE  LocksInPlace'
<1>1. PICK j \in Jobs, first \in {"media", "tracking", "history", "state"} :
        /\ first = "history" => j.op \in Bare
        /\ first = "state" => j.ep \in Episodes
        /\ Begin(r, j, first)
  BY StartTakes DEF Taken
<1> DEFINE j2 == [j EXCEPT !.today = day]
<1>2. j2.op = j.op /\ j2.ep = j.ep
  BY DEF Jobs
<1>3. /\ pc[r] = "idle" /\ job' = [job EXCEPT ![r] = j2] /\ pc' = [pc EXCEPT ![r] = first]
      /\ lock' = lock /\ stateLock' = stateLock
  BY <1>1 DEF Begin, locks
<1> HIDE DEF j2
<1>4. /\ job'[r] = j2 /\ pc'[r] = first
      /\ \A q \in Requests \ {r} : pc'[q] = pc[q] /\ job'[q] = job[q]
  BY <1>3 DEF TypeOK
<1>5. HoldsAt(r)'
  BY <1>3 DEF LocksInPlace, HoldsAt, Writing
<1>6. Placed(r)'
  BY <1>1, <1>2, <1>4 DEF Placed
<1> QED BY <1>3, <1>4, <1>5, <1>6, LocksFrame

\* The locks before the row.
LEMMA FirstLocks ==
    ASSUME TypeOK, LocksInPlace, NEW r \in Requests,
           LockMedia(r) \/ LockEpisodeState(r) \/ LockTracking(r)
    PROVE  LocksInPlace'
<1>0. HoldsAt(r) /\ Placed(r)
  BY DEF LocksInPlace
<1>1. CASE LockMedia(r)
  <2>1. pc[r] = "media" /\ lock["media"] = Free /\ HoldThen(r, "media", "tracking")
    BY <1>1 DEF LockMedia, LockFree
  <2>2. /\ pc'[r] = "tracking" /\ stateLock' = stateLock
        /\ \A m \in LockNames \ {"media"} : lock'[m] = lock[m]
    BY <2>1, OwnLocks DEF LockNames
  <2>3. HoldsAt(r)'
    BY <1>0, <2>1, <2>2 DEF HoldsAt, Writing, LockNames
  <2>4. Placed(r)'
    BY <2>2 DEF Placed
  <2> QED BY <2>1, <2>3, <2>4, HoldLocks DEF LockNames
<1>2. CASE LockEpisodeState(r) /\ Asked(r, {"unplan"})
  BY <1>2, AnswerLocks DEF LockEpisodeState
<1>3. CASE LockEpisodeState(r) /\ ~Asked(r, {"unplan"})
  <2> DEFINE e == job[r].ep
  <2>1. /\ pc[r] = "state" /\ stateLock[e] = Free
        /\ stateLock' = [stateLock EXCEPT ![e] = r]
        /\ pc' = [pc EXCEPT ![r] = "tracking"] /\ lock' = lock /\ job' = job
    BY <1>3 DEF LockEpisodeState
  <2> HIDE DEF e
  <2>2. pc'[r] = "tracking" /\ \A q \in Requests \ {r} : pc'[q] = pc[q]
    BY <2>1 DEF TypeOK
  <2>3. \A q \in Requests \ {r}, x \in Episodes : stateLock'[x] = q <=> stateLock[x] = q
    BY <2>1, BoundsAssumption DEF TypeOK
  <2>4. HoldsAt(r)'
    BY <1>0, <2>1, <2>2 DEF HoldsAt, Writing
  <2>5. Placed(r)'
    BY <2>2 DEF Placed
  <2> QED BY <2>1, <2>2, <2>3, <2>4, <2>5, LocksFrame
<1>4. CASE LockTracking(r)
  <2>1. \/ Abort(r, "refused")
        \/ \E next \in {"history", "row"} : HoldThen(r, "tracking", next)
    BY <1>4 DEF LockTracking
  <2>2. pc[r] = "tracking" /\ lock["tracking"] = Free
    BY <1>4 DEF LockTracking, LockFree
  <2>3. ASSUME NEW next \in {"history", "row"}, HoldThen(r, "tracking", next) PROVE LocksInPlace'
    <3>1. /\ pc'[r] = next /\ stateLock' = stateLock /\ lock'["tracking"] = r
          /\ \A m \in LockNames \ {"tracking"} : lock'[m] = lock[m]
      BY <2>3, OwnLocks DEF LockNames
    <3>2. HoldsAt(r)'
      BY <1>0, <2>2, <3>1 DEF HoldsAt, Writing, LockNames
    <3>3. Placed(r)'
      BY <3>1 DEF Placed
    <3> QED BY <2>2, <2>3, <3>2, <3>3, HoldLocks DEF LockNames
  <2> QED BY <2>1, <2>3, AnswerLocks DEF Abort
<1> QED BY <1>1, <1>2, <1>3, <1>4

LEMMA StageLocks ==
    ASSUME TypeOK, LocksInPlace, NEW r \in Requests, NEW u, NEW more \in BOOLEAN,
           StageRow(r, u, more), pc[r] = "row", LockFree("row"), Asked(r, RowWriters)
    PROVE  LocksInPlace'
<1>1. CASE ~HoldThen(r, "row", "history")
  BY <1>1, AnswerLocks DEF StageRow, Abort
<1>2. CASE HoldThen(r, "row", "history")
  <2>1. HoldsAt(r) /\ Placed(r)
    BY DEF LocksInPlace
  <2>2. /\ pc'[r] = "history" /\ job'[r] = job[r] /\ stateLock' = stateLock /\ lock'["row"] = r
        /\ \A m \in LockNames \ {"row"} : lock'[m] = lock[m]
    BY <1>2, OwnLocks DEF LockNames
  <2>3. HoldsAt(r)'
    BY <2>1, <2>2 DEF HoldsAt, Writing, LockNames, Asked
  <2>4. Placed(r)'
    BY <2>1, <2>2 DEF Placed, LockNames
  <2> QED BY <1>2, <2>3, <2>4, HoldLocks DEF LockNames, LockFree
<1> QED BY <1>1, <1>2

LEMMA RowLocks ==
    ASSUME TypeOK, LocksInPlace, NEW r \in Requests,
           CreateTracking(r) \/ UpdateTracking(r) \/ DeleteTracking(r) \/ EnsureTracking(r)
    PROVE  LocksInPlace'
<1>0. pc[r] = "row" /\ LockFree("row") /\ Asked(r, RowWriters)
  BY DEF CreateTracking, UpdateTracking, DeleteTracking, EnsureTracking, Asked, RowWriters
<1>1. \/ \E a : Answer(r, a)
      \/ \E u : \E more \in BOOLEAN : StageRow(r, u, more)
  <2>1. CASE CreateTracking(r)
    BY <2>1 DEF CreateTracking
  <2>2. CASE UpdateTracking(r)
    BY <2>2 DEF UpdateTracking, Abort
  <2>3. CASE DeleteTracking(r)
    BY <2>3 DEF DeleteTracking, Abort
  <2>4. CASE EnsureTracking(r)
    BY <2>4 DEF EnsureTracking
  <2> QED BY <2>1, <2>2, <2>3, <2>4
<1> QED BY <1>0, <1>1, AnswerLocks, StageLocks

\* The history lock, the plan lock and what is decided under them.
LEMMA HistoryLocks ==
    ASSUME TypeOK, LocksInPlace, NEW r \in Requests, LockHistory(r) \/ ReservePlan(r)
    PROVE  LocksInPlace'
<1>0. HoldsAt(r) /\ Placed(r)
  BY DEF LocksInPlace
<1>1. CASE LockHistory(r)
  <2>1. \/ \E a : Answer(r, a)
        \/ Asked(r, {"plan"}) /\ HoldThen(r, "history", "plan")
        \/ Asked(r, {"unmark", "delete"}) /\ HoldThen(r, "history", "remove")
        \/ ~Asked(r, {"plan"}) /\ ~Asked(r, {"unmark", "delete"}) /\ HoldThen(r, "history", "insert")
    <3>1. CASE Asked(r, {"plan"})
      BY <1>1, <3>1 DEF LockHistory, Abort
    <3>2. CASE ~Asked(r, {"plan"}) /\ Asked(r, {"unmark", "delete"})
      BY <1>1, <3>2 DEF LockHistory
    <3>3. CASE ~Asked(r, {"plan"}) /\ ~Asked(r, {"unmark", "delete"})
      BY <1>1, <3>3 DEF LockHistory, QuotaRefused, Abort
    <3> QED BY <3>1, <3>2, <3>3
  <2>2. pc[r] = "history" /\ lock["history"] = Free
    BY <1>1 DEF LockHistory, LockFree
  <2>3. ASSUME NEW next \in {"plan", "remove", "insert"}, HoldThen(r, "history", next),
               next \in {"plan", "remove"} => job[r].op \in {"plan", "unmark", "delete"},
               next = "insert" => job[r].op \notin {"plan", "unmark", "delete"}
        PROVE  LocksInPlace'
    <3>1. /\ pc'[r] = next /\ job'[r] = job[r] /\ stateLock' = stateLock
          /\ \A m \in LockNames \ {"history"} : lock'[m] = lock[m]
      BY <2>3, OwnLocks DEF LockNames
    <3>2. HoldsAt(r)'
      <4>1. lock["row"] = r => next = "insert" /\ job[r].op \in RowWriters
        BY <1>0, <2>3 DEF HoldsAt, RowWriters
      <4>2. lock["plan"] # r
        BY <1>0, <2>2 DEF HoldsAt
      <4> QED BY <1>0, <2>2, <3>1, <4>1, <4>2 DEF HoldsAt, Writing, LockNames
    <3>3. Placed(r)'
      BY <1>0, <2>2, <3>1 DEF Placed, LockNames
    <3> QED BY <2>2, <2>3, <3>2, <3>3, HoldLocks DEF LockNames
  <2> QED BY <2>1, <2>3, AnswerLocks DEF Asked
<1>2. CASE ReservePlan(r)
  <2>1. CASE HoldThen(r, "plan", "planInsert")
    <3>1. pc[r] = "plan" /\ lock["plan"] = Free
      BY <1>2 DEF ReservePlan, LockFree
    <3>2. /\ pc'[r] = "planInsert" /\ stateLock' = stateLock
          /\ \A m \in LockNames \ {"plan"} : lock'[m] = lock[m]
      BY <2>1, OwnLocks DEF LockNames
    <3>3. HoldsAt(r)'
      BY <1>0, <3>1, <3>2 DEF HoldsAt, Writing, LockNames
    <3>4. Placed(r)'
      BY <3>2 DEF Placed
    <3> QED BY <2>1, <3>1, <3>3, <3>4, HoldLocks DEF LockNames
  <2>2. CASE ~HoldThen(r, "plan", "planInsert")
    BY <1>2, <2>2, AnswerLocks DEF ReservePlan, QuotaRefused, Abort
  <2> QED BY <2>1, <2>2
<1> QED BY <1>1, <1>2

\* Commits, and the statements after them, which hold no lock.
LEMMA CommitLocks ==
    ASSUME TypeOK, LocksInPlace, NEW r \in Requests,
           \/ RecordWatch(r) \/ RemoveWatch(r) \/ InsertPlan(r)
           \/ ReadForPromotion(r) \/ Promote(r) \/ ReadForDemotion(r) \/ Demote(r)
    PROVE  LocksInPlace'
<1>1. \/ \E a : Answer(r, a)
      \/ CommitThen(r, "promote") \/ CommitThen(r, "demote")
      \/ /\ pc[r] \in {"promote", "demote"} /\ UNCHANGED locks
         /\ pc' \in {[pc EXCEPT ![r] = "promoting"], [pc EXCEPT ![r] = "demoting"]}
         /\ job' = job \/ job' = [job EXCEPT ![r].today = day]
  <2>1. CASE RecordWatch(r)
    BY <2>1 DEF RecordWatch, Abort
  <2>2. CASE RemoveWatch(r)
    BY <2>2 DEF RemoveWatch, Abort
  <2>3. CASE InsertPlan(r) \/ Promote(r) \/ Demote(r)
    BY <2>3 DEF InsertPlan, Promote, Demote
  <2>4. CASE ReadForPromotion(r)
    BY <2>4 DEF ReadForPromotion
  <2>5. CASE ReadForDemotion(r)
    BY <2>5 DEF ReadForDemotion
  <2> QED BY <2>1, <2>2, <2>3, <2>4, <2>5
<1>2. CASE CommitThen(r, "promote") \/ CommitThen(r, "demote")
  BY <1>2, EndLocks DEF CommitThen
<1>3. CASE /\ pc[r] \in {"promote", "demote"} /\ UNCHANGED locks
           /\ pc' \in {[pc EXCEPT ![r] = "promoting"], [pc EXCEPT ![r] = "demoting"]}
           /\ job' = job \/ job' = [job EXCEPT ![r].today = day]
  <2>1. pc'[r] \in {"promoting", "demoting"} /\ \A q \in Requests \ {r} : pc'[q] = pc[q]
    BY <1>3 DEF TypeOK
  <2>2. \A q \in Requests \ {r} : job'[q] = job[q]
    BY <1>3 DEF TypeOK
  <2>3. lock' = lock /\ stateLock' = stateLock
    BY <1>3 DEF locks
  <2>4. HoldsAt(r)'
    BY <1>3, <2>3 DEF LocksInPlace, HoldsAt, Writing
  <2>5. Placed(r)'
    BY <2>1 DEF Placed
  <2> QED BY <2>1, <2>2, <2>3, <2>4, <2>5, LocksFrame
<1> QED BY <1>1, <1>2, <1>3, AnswerLocks

LEMMA NextLocks == ASSUME TypeOK, LocksInPlace, [Next]_vars PROVE LocksInPlace'
<1>1. CASE \E r \in Requests : Start(r)
  BY <1>1, StartLocks
<1>2. CASE \E r \in Requests : Step(r)
  BY <1>2, FirstLocks, RowLocks, HistoryLocks, CommitLocks DEF Step
<1>3. CASE \E r \in Requests : DropRequest(r)
  BY <1>3, AnswerLocks DEF DropRequest, Abort
<1>4. CASE NextDay \/ UNCHANGED vars
  <2>1. UNCHANGED <<lock, stateLock, pc, job>>
    BY <1>4 DEF NextDay, vars, locks
  <2> QED BY <2>1 DEF LocksInPlace, HoldsAt, Placed
<1> QED BY <1>1, <1>2, <1>3, <1>4 DEF Next

\* The locks are taken in one order: while every request that is running waits,
\* each lock in turn, from the last of them to the first, is found free.
LEMMA LocksOrdered ==
    ASSUME TypeOK, LocksInPlace, \A r \in Requests : pc[r] # "idle" => Blocked(r)
    PROVE  \A r \in Requests : pc[r] = "idle"
<1>1. \A r \in Requests : HoldsAt(r) /\ Placed(r)
  BY DEF LocksInPlace
<1>2. \A l \in LockNames : lock[l] # Free => lock[l] \in Requests
  BY DEF TypeOK
<1>3. \A r \in Requests : pc[r] \notin {"remove", "planInsert", "promote", "demote"}
  BY DEF Blocked
<1>4. lock["plan"] = Free
  BY <1>1, <1>2, <1>3 DEF HoldsAt, LockNames
<1>5. lock["history"] = Free
  <2>1. SUFFICES ASSUME lock["history"] # Free PROVE FALSE
    OBVIOUS
  <2>2. PICK h \in Requests : h = lock["history"]
    BY <1>2, <2>1 DEF LockNames
  <2>3. pc[h] = "insert"
    BY <1>1, <1>3, <1>4, <2>2 DEF HoldsAt, Writing, Blocked
  <2>4. job[h].op \in {"calmark", "import"} /\ lock["row"] # Free
    BY <2>3 DEF Blocked, Asked
  <2>5. PICK s \in Requests : s = lock["row"]
    BY <1>2, <2>4 DEF LockNames
  <2>6. pc[s] \in {"history", "insert"} /\ job[s].op \in RowWriters
    BY <1>1, <2>5 DEF HoldsAt
  <2>7. lock["tracking"] = h /\ lock["tracking"] = s
    BY <1>1, <2>3, <2>4, <2>6 DEF Placed, RowWriters, Bare
  <2> QED BY <2>4, <2>6, <2>7 DEF RowWriters
<1>6. lock["row"] = Free
  <2>1. SUFFICES ASSUME lock["row"] # Free PROVE FALSE
    OBVIOUS
  <2>2. PICK s \in Requests : s = lock["row"]
    BY <1>2, <2>1 DEF LockNames
  <2>3. pc[s] \in {"history", "insert"} /\ job[s].op \in RowWriters
    BY <1>1, <2>2 DEF HoldsAt
  <2> QED BY <1>5, <2>3 DEF Blocked, Asked, RowWriters
<1>7. \A r \in Requests : pc[r] \notin {"row", "history", "insert", "plan", "promoting", "demoting"}
  BY <1>4, <1>5, <1>6 DEF Blocked
<1>8. lock["tracking"] = Free
  BY <1>1, <1>2, <1>3, <1>7 DEF HoldsAt, LockNames
<1>9. \A r \in Requests : pc[r] # "tracking"
  BY <1>8 DEF Blocked
<1>10. lock["media"] = Free /\ \A e \in Episodes : stateLock[e] = Free
  BY <1>1, <1>2, <1>3, <1>7, <1>9 DEF HoldsAt, LockNames, TypeOK
<1>11. ASSUME NEW r \in Requests, pc[r] # "idle" PROVE FALSE
  <2>1. pc[r] \in {"media", "state"}
    BY <1>3, <1>7, <1>9, <1>11 DEF TypeOK, Labels
  <2>2. pc[r] = "state" /\ stateLock[job[r].ep] # Free
    BY <1>10, <1>11, <2>1 DEF Blocked
  <2> QED BY <1>1, <1>10, <2>2 DEF Placed
<1> QED BY <1>11

\* Requests of the tracking, history, calendar and import routes never all wait
\* for one another: whatever locks they hold, one of them can go on.
THEOREM NobodyWaitsForAll == Spec => []NoLockCycle
<1>1. Init => LocksInPlace
  <2>1. ASSUME Init PROVE \A r \in Requests : HoldsAt(r) /\ Placed(r)
    BY <2>1, BoundsAssumption DEF Init, HoldsAt, Placed, LockNames
  <2> QED BY <2>1 DEF LocksInPlace
<1>2. TypeOK /\ LocksInPlace /\ [Next]_vars => LocksInPlace'
  BY NextLocks
<1>3. TypeOK /\ LocksInPlace => NoLockCycle
  BY LocksOrdered DEF NoLockCycle, Quiet
<1> QED BY <1>1, <1>2, <1>3, TypeCorrect, PTL DEF Spec

-----------------------------------------------------------------------------
(* The history quota.                                                        *)

\* A show none of whose regular episodes counts as aired from the first day.
NothingAired == IsTv /\ Regular # {} /\ \A e \in Regular : AirDay[e] # 0

\* What a request about to insert has been granted: its rows fit, or it has
\* none, or it marks a show nobody watched and nothing of which has aired.
Granted(r) ==
    LET rows == NewRows(r) IN
    \/ rows = {}
    \/ HistoryCount + Cardinality(rows) <= MaxHistory
    \/ NothingAired /\ HistoryCount = 0 /\ Cardinality(rows) = 1

QuotaHolds ==
    /\ IsFiniteSet(Viewings)
    /\ HistoryCount <= MaxHistory \/ (NothingAired /\ HistoryCount <= 1)
    /\ \A r \in Requests : pc[r] = "insert" => Granted(r)

LEMMA TargetsFinite == IsFiniteSet(Targets)
BY EpisodesAssumption, FS_AddElement, FS_Union, FS_Singleton DEF Targets

LEMMA RowsFinite ==
    ASSUME TypeOK, NEW r \in Requests
    PROVE  IsFiniteSet(NewRows(r)) /\ Cardinality(NewRows(r)) \in Nat
BY NewRowsType, TargetsFinite, FS_Subset, FS_CardinalityType

\* One more viewing of each of some targets.
LEMMA ViewingsGrow ==
    ASSUME NEW S \in SUBSET Targets, hist \in [Targets -> Nat], IsFiniteSet(Viewings),
           hist' = [t \in Targets |-> hist[t] + IF t \in S THEN 1 ELSE 0]
    PROVE  IsFiniteSet(Viewings') /\ HistoryCount' <= HistoryCount + Cardinality(S)
<1> DEFINE f == [t \in S |-> <<t, hist[t] + 1>>]
           new == {<<t, hist[t] + 1>> : t \in S}
<1>1. Viewings' \subseteq Viewings \cup new
  <2>1. SUFFICES ASSUME NEW t \in Targets, NEW i \in 1..hist'[t]
                 PROVE  i \in 1..hist[t] \/ (t \in S /\ i = hist[t] + 1)
    BY DEF Viewings
  <2>2. hist[t] \in Nat /\ hist'[t] = hist[t] + IF t \in S THEN 1 ELSE 0
    OBVIOUS
  <2> QED BY <2>1, <2>2, SMT
<1>2. IsFiniteSet(S) /\ Cardinality(S) \in Nat
  BY TargetsFinite, FS_Subset, FS_CardinalityType
<1>3. IsFiniteSet(new) /\ Cardinality(new) <= Cardinality(S)
  <2>1. f \in [S -> new] /\ \A y \in new : \E t \in S : f[t] = y
    OBVIOUS
  <2>2. f \in Surjection(S, new)
    BY <2>1, Zenon DEF Surjection
  <2> HIDE DEF f, new
  <2> QED BY <1>2, <2>2, FS_Surjection
<1> HIDE DEF new
<1>4. /\ IsFiniteSet(Viewings \cup new)
      /\ Cardinality(Viewings \cup new) =
           Cardinality(Viewings) + Cardinality(new) - Cardinality(Viewings \cap new)
  BY <1>3, FS_Union
<1>5. /\ Cardinality(Viewings) \in Nat /\ Cardinality(new) \in Nat
      /\ Cardinality(Viewings \cap new) \in Nat /\ Cardinality(Viewings \cup new) \in Nat
  BY <1>3, <1>4, FS_Intersection, FS_CardinalityType
<1>6. /\ IsFiniteSet(Viewings') /\ Cardinality(Viewings') \in Nat
      /\ Cardinality(Viewings') <= Cardinality(Viewings \cup new)
  BY <1>1, <1>4, FS_Subset, FS_CardinalityType
<1> QED BY <1>2, <1>3, <1>4, <1>5, <1>6 DEF HistoryCount

\* Fewer viewings.
LEMMA ViewingsShrink ==
    ASSUME hist \in [Targets -> Nat], hist' \in [Targets -> Nat], IsFiniteSet(Viewings),
           \A t \in Targets : hist'[t] <= hist[t]
    PROVE  IsFiniteSet(Viewings') /\ HistoryCount' <= HistoryCount
<1>1. Viewings' \subseteq Viewings
  <2>1. SUFFICES ASSUME NEW t \in Targets, NEW i \in 1..hist'[t]
                 PROVE  i \in 1..hist[t]
    BY DEF Viewings
  <2>2. hist[t] \in Nat /\ hist'[t] \in Nat /\ hist'[t] <= hist[t]
    OBVIOUS
  <2> QED BY <2>1, <2>2, SMT
<1> QED BY <1>1, FS_Subset DEF HistoryCount

LEMMA NobodyWatched ==
    ASSUME NoHistory
    PROVE  Viewings = {} /\ HistoryCount = 0
<1>1. \A t \in Targets : 1..hist[t] = {}
  BY DEF NoHistory
<1>2. Viewings = {}
  BY <1>1 DEF Viewings
<1> QED BY <1>2, FS_EmptySet DEF HistoryCount

\* What the quota check of a request lets it insert.
LEMMA CheckGrants ==
    ASSUME TypeOK, IsFiniteSet(Viewings), NEW r \in Requests,
           AlreadyWatched(r) \/ HistoryCount + Reserve(r) <= MaxHistory
    PROVE  Granted(r)
<1>0. /\ HistoryCount \in Nat /\ Cardinality(NewRows(r)) \in Nat /\ MaxHistory \in Nat
      /\ hist \in [Targets -> Nat] /\ job[r] \in Jobs /\ job[r].ep \in Targets
  BY RowsFinite, FS_CardinalityType, BoundsAssumption DEF TypeOK, HistoryCount, Jobs
<1>1. CASE AlreadyWatched(r)
  <2>1. hist[job[r].ep] # 0 /\ job[r].op \in {"mark", "calmark"}
    BY <1>0, <1>1 DEF AlreadyWatched, Asked
  <2>2. NewRows(r) = {}
    BY <2>1 DEF NewRows, Unwatched
  <2> QED BY <2>2 DEF Granted
<1>2. CASE ~Asked(r, {"track", "update"}) /\ HistoryCount + Reserve(r) <= MaxHistory
  BY <1>2 DEF Reserve, Granted
<1>3. CASE Asked(r, {"track", "update"}) /\ HistoryCount + Reserve(r) <= MaxHistory
  <2> DEFINE d == job[r].today
  <2>1. NewRows(r) = CompletionRows(d) /\ HistoryCount + CompletionReserve(d) <= MaxHistory
    BY <1>3 DEF Reserve, NewRows, Asked
  <2>2. CASE ~IsTv
    BY <2>1, <2>2 DEF CompletionReserve, Granted
  <2>3. CASE IsTv /\ Missing(d) # {}
    <3>1. NewRows(r) = Missing(d)
      BY <2>1, <2>3 DEF CompletionRows
    <3>2. CompletionReserve(d) \in {Cardinality(NewRows(r)), Cardinality(NewRows(r)) + 1}
      BY <1>0, <2>3, <3>1 DEF CompletionReserve
    <3>3. HistoryCount + Cardinality(NewRows(r)) <= MaxHistory
      BY <1>0, <2>1, <3>2
    <3> QED BY <3>3 DEF Granted
  <2>4. CASE IsTv /\ Missing(d) = {} /\ ~NoHistory
    BY <2>1, <2>4 DEF CompletionRows, Granted
  <2>5. CASE IsTv /\ Missing(d) = {} /\ NoHistory
    <3>1. NewRows(r) = {Title} /\ Cardinality(NewRows(r)) = 1
      BY <2>1, <2>5, FS_Singleton DEF CompletionRows, Targets
    <3>2. CASE Regular = {}
      <4>1. CompletionReserve(d) = 1
        BY <2>5, <3>2, FS_EmptySet DEF CompletionReserve
      <4> QED BY <2>1, <3>1, <4>1 DEF Granted
    <3>3. CASE Regular # {}
      <4>1. \A e \in Regular : ~Aired(e, d)
        BY <2>5 DEF Missing, Unwatched, NoHistory, Targets, Episodes
      <4>2. NothingAired
        BY <2>5, <3>3, <4>1 DEF NothingAired, Aired
      <4>3. HistoryCount = 0
        BY <2>5, NobodyWatched
      <4> QED BY <3>1, <4>2, <4>3 DEF Granted
    <3> QED BY <3>2, <3>3
  <2> QED BY <2>2, <2>3, <2>4, <2>5
<1> QED BY <1>1, <1>2, <1>3

\* A step that neither changes the history nor brings a request to its insert.
LEMMA QuotaFrame ==
    ASSUME QuotaHolds, hist' = hist,
           \A q \in Requests : pc'[q] = "insert" => pc[q] = "insert" /\ job'[q] = job[q]
    PROVE  QuotaHolds'
<1>1. Viewings' = Viewings /\ HistoryCount' = HistoryCount
  BY DEF Viewings, HistoryCount
<1>2. ASSUME NEW q \in Requests, pc'[q] = "insert" PROVE Granted(q)'
  <2>1. Granted(q) /\ job'[q] = job[q]
    BY <1>2 DEF QuotaHolds
  <2>2. NewRows(q)' = NewRows(q)
    BY <2>1 DEF NewRows, Unwatched, CompletionRows, Missing, NoHistory
  <2> QED BY <1>1, <2>1, <2>2 DEF Granted
<1> QED BY <1>1, <1>2 DEF QuotaHolds

LEMMA AnswerQuota ==
    ASSUME TypeOK, QuotaHolds, NEW r \in Requests, NEW a, Answer(r, a), hist' = hist
    PROVE  QuotaHolds'
<1>1. \A q \in Requests : pc'[q] = "insert" => pc[q] = "insert" /\ job'[q] = job[q]
  BY DEF Answer, TypeOK
<1> QED BY <1>1, QuotaFrame

LEMMA AbortQuota ==
    ASSUME TypeOK, QuotaHolds, NEW r \in Requests, NEW a, Abort(r, a)
    PROVE  QuotaHolds'
BY AnswerQuota DEF Abort, data

LEMMA GoOnQuota ==
    ASSUME TypeOK, QuotaHolds, NEW r \in Requests, NEW l \in Labels \ {"insert"},
           pc' = [pc EXCEPT ![r] = l], hist' = hist, \A q \in Requests \ {r} : job'[q] = job[q]
    PROVE  QuotaHolds'
<1>1. \A q \in Requests : pc'[q] = "insert" => pc[q] = "insert" /\ job'[q] = job[q]
  BY DEF TypeOK
<1> QED BY <1>1, QuotaFrame

\* While r holds the history lock nobody else has been granted anything.
LEMMA AloneAtInsert ==
    ASSUME IInv, NEW r \in Requests, lock["history"] \in {r, Free}
    PROVE  \A q \in Requests \ {r} : pc[q] # "insert"
BY BoundsAssumption DEF IInv, HistoryLockHeld, Writing

\* All steps but three leave the history and the grants alone.
LEMMA OtherQuota ==
    ASSUME TypeOK, QuotaHolds, NEW r \in Requests,
           \/ Start(r) \/ DropRequest(r)
           \/ LockMedia(r) \/ LockEpisodeState(r) \/ LockTracking(r)
           \/ CreateTracking(r) \/ UpdateTracking(r) \/ DeleteTracking(r) \/ EnsureTracking(r)
           \/ ReservePlan(r) \/ InsertPlan(r)
           \/ ReadForPromotion(r) \/ Promote(r) \/ ReadForDemotion(r) \/ Demote(r)
    PROVE  QuotaHolds'
<1> USE DEF Labels
<1>1. CASE Start(r)
  <2>1. PICK j \in Jobs, first \in {"media", "tracking", "history", "state"} : Begin(r, j, first)
    BY <1>1, StartTakes DEF Taken
  <2>2. /\ hist' = hist /\ pc' = [pc EXCEPT ![r] = first]
        /\ \A q \in Requests \ {r} : job'[q] = job[q]
    BY <2>1 DEF Begin, data, TypeOK
  <2> QED BY <2>2, GoOnQuota
<1>2. CASE DropRequest(r)
  BY <1>2, AbortQuota DEF DropRequest
<1>3. CASE LockMedia(r) \/ LockTracking(r) \/ ReservePlan(r)
  <2>1. \/ \E a : Abort(r, a)
        \/ \E k : \E l \in {"tracking", "history", "row", "planInsert"} : HoldThen(r, k, l)
    <3>1. CASE LockMedia(r)
      BY <3>1 DEF LockMedia
    <3>2. CASE LockTracking(r)
      BY <3>2 DEF LockTracking
    <3>3. CASE ReservePlan(r)
      BY <3>3 DEF ReservePlan, QuotaRefused
    <3> QED BY <1>3, <3>1, <3>2, <3>3
  <2>2. ASSUME NEW k, NEW l \in {"tracking", "history", "row", "planInsert"}, HoldThen(r, k, l)
        PROVE  QuotaHolds'
    BY <2>2, GoOnQuota DEF HoldThen, data
  <2> QED BY <2>1, <2>2, AbortQuota
<1>4. CASE LockEpisodeState(r)
  <2>1. CASE Asked(r, {"unplan"})
    BY <1>4, <2>1, AnswerQuota DEF LockEpisodeState
  <2>2. CASE ~Asked(r, {"unplan"})
    <3>1. pc' = [pc EXCEPT ![r] = "tracking"] /\ hist' = hist /\ job' = job
      BY <1>4, <2>2 DEF LockEpisodeState, data
    <3> QED BY <3>1, GoOnQuota
  <2> QED BY <2>1, <2>2
<1>5. CASE CreateTracking(r) \/ UpdateTracking(r) \/ DeleteTracking(r) \/ EnsureTracking(r)
  <2>1. \/ \E a : Answer(r, a) /\ hist' = hist
        \/ HoldThen(r, "row", "history")
    <3>1. CASE CreateTracking(r)
      BY <3>1 DEF CreateTracking, StageRow, Abort, data
    <3>2. CASE UpdateTracking(r)
      BY <3>2 DEF UpdateTracking, StageRow, Abort, data
    <3>3. CASE DeleteTracking(r)
      BY <3>3 DEF DeleteTracking, Abort, data
    <3>4. CASE EnsureTracking(r)
      BY <3>4 DEF EnsureTracking, StageRow, Abort, data
    <3> QED BY <1>5, <3>1, <3>2, <3>3, <3>4
  <2>2. CASE HoldThen(r, "row", "history")
    BY <2>2, GoOnQuota DEF HoldThen, data
  <2> QED BY <2>1, <2>2, AnswerQuota
<1>6. CASE InsertPlan(r) \/ Promote(r) \/ Demote(r)
  BY <1>6, AnswerQuota DEF InsertPlan, Promote, Demote
<1>7. CASE ReadForPromotion(r)
  <2>1. CASE PromotionDue
    <3>1. /\ pc' = [pc EXCEPT ![r] = "promoting"] /\ hist' = hist
          /\ \A q \in Requests \ {r} : job'[q] = job[q]
      BY <1>7, <2>1 DEF ReadForPromotion, data, TypeOK
    <3> QED BY <3>1, GoOnQuota
  <2>2. CASE ~PromotionDue
    BY <1>7, <2>2, AnswerQuota DEF ReadForPromotion, data
  <2> QED BY <2>1, <2>2
<1>8. CASE ReadForDemotion(r)
  <2>1. CASE DemotionDue
    <3>1. pc' = [pc EXCEPT ![r] = "demoting"] /\ hist' = hist /\ job' = job
      BY <1>8, <2>1 DEF ReadForDemotion, data
    <3> QED BY <3>1, GoOnQuota
  <2>2. CASE ~DemotionDue
    BY <1>8, <2>2, AnswerQuota DEF ReadForDemotion, data
  <2> QED BY <2>1, <2>2
<1> QED BY <1>1, <1>2, <1>3, <1>4, <1>5, <1>6, <1>7, <1>8

\* The check under the history lock.
LEMMA CheckQuota ==
    ASSUME IInv, QuotaHolds, NEW r \in Requests, LockHistory(r)
    PROVE  QuotaHolds'
<1>0. TypeOK
  BY DEF IInv
<1>1. \/ \E a : Answer(r, a) /\ hist' = hist
      \/ \E l \in {"plan", "remove"} : HoldThen(r, "history", l)
      \/ /\ HoldThen(r, "history", "insert")
         /\ AlreadyWatched(r) \/ HistoryCount + Reserve(r) <= MaxHistory
  <2>1. CASE Asked(r, {"plan"})
    BY <2>1 DEF LockHistory, Abort, data
  <2>2. CASE ~Asked(r, {"plan"}) /\ Asked(r, {"unmark", "delete"})
    BY <2>2 DEF LockHistory
  <2>3. CASE ~Asked(r, {"plan"}) /\ ~Asked(r, {"unmark", "delete"})
    BY <2>3 DEF LockHistory, QuotaRefused, Abort, data
  <2> QED BY <2>1, <2>2, <2>3
<1>2. CASE \E l \in {"plan", "remove"} : HoldThen(r, "history", l)
  BY <1>0, <1>2, GoOnQuota DEF HoldThen, data, Labels
<1>3. CASE /\ HoldThen(r, "history", "insert")
           /\ AlreadyWatched(r) \/ HistoryCount + Reserve(r) <= MaxHistory
  <2>1. hist' = hist /\ job' = job
    BY <1>3 DEF HoldThen, data
  <2>2. Viewings' = Viewings /\ HistoryCount' = HistoryCount
    BY <2>1 DEF Viewings, HistoryCount
  <2>3. Granted(r)
    BY <1>0, <1>3, CheckGrants DEF QuotaHolds
  <2>4. NewRows(r)' = NewRows(r)
    BY <2>1 DEF NewRows, Unwatched, CompletionRows, Missing, NoHistory
  <2>5. Granted(r)'
    BY <2>2, <2>3, <2>4 DEF Granted
  <2>6. \A q \in Requests \ {r} : pc[q] # "insert" /\ pc'[q] = pc[q]
    BY <1>0, <1>3, AloneAtInsert DEF LockHistory, LockFree, HoldThen, TypeOK
  <2> QED BY <2>2, <2>5, <2>6 DEF QuotaHolds
<1> QED BY <1>0, <1>1, <1>2, <1>3, AnswerQuota

\* The rows that go in were granted; rows that go out leave room.
LEMMA WriteQuota ==
    ASSUME IInv, QuotaHolds, NEW r \in Requests, RecordWatch(r) \/ RemoveWatch(r)
    PROVE  QuotaHolds'
<1>0. /\ TypeOK /\ hist \in [Targets -> Nat] /\ IsFiniteSet(Viewings) /\ HistoryCount \in Nat
      /\ MaxHistory \in Nat /\ job[r].ep \in Targets
  BY FS_CardinalityType, BoundsAssumption DEF IInv, TypeOK, QuotaHolds, HistoryCount, Jobs
<1>1. \A q \in Requests \ {r} : pc[q] # "insert"
  BY AloneAtInsert DEF RecordWatch, RemoveWatch, IInv, HistoryLockHeld, Writing
<1>2. CASE Abort(r, "error") \/ Abort(r, "ok") \/ Abort(r, "refused")
  BY <1>0, <1>2, AbortQuota
<1>3. CASE RecordWatch(r) /\ ~Abort(r, "error")
  <2> DEFINE rows == NewRows(r)
  <2>1. /\ hist' = [t \in Targets |-> hist[t] + IF t \in rows THEN 1 ELSE 0]
        /\ CommitThen(r, "promote") \/ Answer(r, "ok")
    BY <1>3 DEF RecordWatch
  <2>2. rows \in SUBSET Targets /\ Cardinality(rows) \in Nat
    BY <1>0, NewRowsType, RowsFinite
  <2>3. \A q \in Requests : pc'[q] # "insert"
    BY <1>0, <1>1, <2>1 DEF CommitThen, Answer, TypeOK
  <2>4. Granted(r)
    BY <1>3 DEF QuotaHolds, RecordWatch
  <2>5. IsFiniteSet(Viewings') /\ HistoryCount' <= HistoryCount + Cardinality(rows)
    <3> HIDE DEF rows
    <3> QED BY <1>0, <2>1, <2>2, ViewingsGrow
  <2>6. HistoryCount' \in Nat
    BY <2>5, FS_CardinalityType DEF HistoryCount
  <2>7. CASE rows = {}
    <3>1. Cardinality(rows) = 0
      BY <2>7, FS_EmptySet
    <3> HIDE DEF rows
    <3> QED BY <1>0, <2>3, <2>5, <2>6, <3>1 DEF QuotaHolds
  <2>8. CASE HistoryCount + Cardinality(rows) <= MaxHistory
    <3> HIDE DEF rows
    <3> QED BY <1>0, <2>2, <2>3, <2>5, <2>6, <2>8 DEF QuotaHolds
  <2>9. CASE NothingAired /\ HistoryCount = 0 /\ Cardinality(rows) = 1
    <3> HIDE DEF rows
    <3> QED BY <2>3, <2>5, <2>6, <2>9 DEF QuotaHolds
  <2> QED BY <2>4, <2>7, <2>8, <2>9 DEF Granted
<1>4. CASE RemoveWatch(r) /\ ~Abort(r, "ok") /\ ~Abort(r, "refused")
  <2> DEFINE e == job[r].ep
  <2>1. /\ hist' = [hist EXCEPT ![e] = IF Asked(r, {"unmark"}) THEN 0 ELSE @ - 1]
        /\ CommitThen(r, "demote") /\ hist[e] # 0
    BY <1>4 DEF RemoveWatch, NothingToRemove
  <2>2. e \in Targets
    BY <1>0
  <2> HIDE DEF e
  <2>3. hist' \in [Targets -> Nat] /\ \A t \in Targets : hist'[t] <= hist[t]
    BY <1>0, <2>1, <2>2
  <2>4. IsFiniteSet(Viewings') /\ HistoryCount' <= HistoryCount
    BY <1>0, <2>3, ViewingsShrink
  <2>5. HistoryCount' \in Nat
    BY <2>4, FS_CardinalityType DEF HistoryCount
  <2>6. \A q \in Requests : pc'[q] # "insert"
    BY <1>0, <1>1, <2>1 DEF CommitThen, TypeOK
  <2> QED BY <1>0, <2>4, <2>5, <2>6 DEF QuotaHolds
<1> QED BY <1>2, <1>3, <1>4

LEMMA NextQuota == ASSUME IInv, QuotaHolds, [Next]_vars PROVE QuotaHolds'
<1>0. TypeOK
  BY DEF IInv
<1>1. CASE \E r \in Requests : Start(r) \/ Step(r) \/ DropRequest(r)
  BY <1>0, <1>1, OtherQuota, CheckQuota, WriteQuota DEF Step
<1>2. CASE NextDay \/ UNCHANGED vars
  <2>1. hist' = hist /\ pc' = pc /\ job' = job
    BY <1>2 DEF NextDay, vars, data
  <2> QED BY <2>1, QuotaFrame
<1> QED BY <1>1, <1>2 DEF Next

LEMMA QuotaAlways == Spec => []QuotaHolds
<1>1. ASSUME Init PROVE QuotaHolds
  <2>1. NoHistory /\ \A r \in Requests : pc[r] # "insert"
    BY <1>1 DEF Init, NoHistory
  <2> QED BY <2>1, NobodyWatched, FS_EmptySet, BoundsAssumption DEF QuotaHolds
<1>2. IInv /\ QuotaHolds /\ [Next]_vars => QuotaHolds'
  BY NextQuota
<1> QED BY <1>1, <1>2, Inductive, PTL DEF Spec

\* The history quota holds for any number of concurrent requests, except for
\* the one title row of a show that is completed before anything of it aired
\* and that nobody has watched (tracking.rs, record_completion_history).
THEOREM QuotaNearlyKept ==
    Spec => [](HistoryWithinQuota \/ (NothingAired /\ HistoryCount <= 1))
BY QuotaAlways, PTL DEF QuotaHolds, HistoryWithinQuota

\* So it holds without exception for a film, for a show without a catalogue, for
\* one that has aired, and wherever the quota leaves room for one viewing.
THEOREM QuotaKept ==
    ASSUME MaxHistory > 0 \/ ~NothingAired
    PROVE  Spec => []HistoryWithinQuota
<1>1. QuotaHolds => HistoryWithinQuota
  <2>1. ASSUME QuotaHolds PROVE HistoryWithinQuota
    <3>1. HistoryCount \in Nat
      BY <2>1, FS_CardinalityType DEF QuotaHolds, HistoryCount
    <3> QED BY <2>1, <3>1, BoundsAssumption DEF QuotaHolds, HistoryWithinQuota
  <2> QED BY <2>1
<1> QED BY <1>1, QuotaAlways, PTL

-----------------------------------------------------------------------------
(* WatchState implements EpisodeShelf. *)

\* All but four of the steps leave plans and viewings alone.
LEMMA OthersLeaveShelf ==
    ASSUME NEW r \in Requests,
           \/ Start(r) \/ DropRequest(r)
           \/ LockMedia(r) \/ LockTracking(r) \/ LockHistory(r) \/ ReservePlan(r)
           \/ CreateTracking(r) \/ UpdateTracking(r) \/ DeleteTracking(r)
           \/ EnsureTracking(r) \/ ReadForPromotion(r) \/ Promote(r)
           \/ ReadForDemotion(r) \/ Demote(r)
    PROVE  UNCHANGED <<hist, plans>>
<1>1. CASE Start(r)
  <2>1. \E j, first : Begin(r, j, first)
    BY <1>1 DEF Start, BeginCreateTracking, BeginUpdateTracking,
       BeginDeleteTracking, BeginCreateHistory, BeginMarkEpisode,
       BeginRewatchEpisode, BeginRewatchMovie, BeginMarkSeason,
       BeginMarkThrough, BeginRewatchSeason, BeginRewatchShow, BeginBulk,
       BeginCalendarMark, BeginPlan, BeginUnplan, BeginUnmark,
       BeginDeleteHistory, BeginImportShow, BeginImportMovie
  <2> QED BY <2>1 DEF Begin, data
<1>2. CASE DropRequest(r)
  BY <1>2 DEF DropRequest, Abort, data
<1>3. CASE LockMedia(r) \/ LockTracking(r)
  BY <1>3 DEF LockMedia, LockTracking, HoldThen, Abort, data
<1>4. CASE LockHistory(r) \/ ReservePlan(r)
  BY <1>4 DEF LockHistory, ReservePlan, QuotaRefused, HoldThen, Abort, data
<1>5. CASE CreateTracking(r) \/ EnsureTracking(r)
  BY <1>5 DEF CreateTracking, EnsureTracking, StageRow, HoldThen, Abort, data
<1>6. CASE UpdateTracking(r) \/ DeleteTracking(r)
  BY <1>6 DEF UpdateTracking, DeleteTracking, StageRow, HoldThen, Abort, data
<1>7. CASE ReadForPromotion(r) \/ Promote(r) \/ ReadForDemotion(r) \/ Demote(r)
  BY <1>7 DEF ReadForPromotion, Promote, ReadForDemotion, Demote, data
<1> QED BY <1>1, <1>2, <1>3, <1>4, <1>5, <1>6, <1>7

LEMMA RecordIsWatch ==
    ASSUME IInv, NEW r \in Requests, RecordWatch(r)
    PROVE  (\E S \in SUBSET Episodes : Shelf!Watch(S)) \/ UNCHANGED <<hist, plans>>
<1> DEFINE rows == NewRows(r)
           e == job[r].ep
           cleared == IF Asked(r, {"calmark"}) THEN {e} ELSE {}
<1>1. CASE ~RowAllowed(FinalRow(r))
  BY <1>1 DEF RecordWatch, Abort, data
<1>2. CASE RowAllowed(FinalRow(r))
  <2>1. /\ hist' = [t \in Targets |-> hist[t] + IF t \in rows THEN 1 ELSE 0]
        /\ plans' = (plans \ rows) \ cleared
    BY <1>2 DEF RecordWatch, PlansAfter
  <2>2. /\ hist \in [Targets -> Nat] /\ plans \subseteq Episodes
        /\ Episodes \subseteq Targets /\ job[r] \in Jobs
    BY DEF IInv, TypeOK, Targets
  <2>3. cleared \cap plans \subseteq rows
    <3>1. SUFFICES ASSUME Asked(r, {"calmark"}), e \in plans
                   PROVE  e \in rows
      OBVIOUS
    <3>2. hist[e] = 0
      BY <2>2, <3>1 DEF IInv, PlanWatchExclusive, Watched
    <3>3. rows = Unwatched({e})
      BY <3>1 DEF Asked, NewRows
    <3> QED BY <3>2, <3>3 DEF Unwatched
  <2>4. plans' = plans \ (rows \cap Episodes)
    BY <2>1, <2>2, <2>3
  <2>5. Watched' = Watched \cup (rows \cap Episodes)
    <3> HIDE DEF rows
    <3>1. \A x \in Episodes : hist'[x] > 0 <=> hist[x] > 0 \/ x \in rows
      BY <2>1, <2>2
    <3> QED BY <3>1 DEF Watched
  <2> QED BY <2>4, <2>5 DEF Shelf!Watch
<1> QED BY <1>1, <1>2

LEMMA RemoveIsUnwatch ==
    ASSUME IInv, NEW r \in Requests, RemoveWatch(r)
    PROVE  \/ \E e \in Episodes : Shelf!Unwatch(e)
           \/ UNCHANGED <<plans, Watched>>
<1> DEFINE e == job[r].ep
<1>1. CASE NothingToRemove(e)
  BY <1>1 DEF RemoveWatch, Abort, data, Watched
<1>2. CASE ~NothingToRemove(e)
  <2>1. /\ hist' = [hist EXCEPT ![e] = IF Asked(r, {"unmark"}) THEN 0 ELSE @ - 1]
        /\ plans' = plans
    BY <1>2 DEF RemoveWatch
  <2>2. /\ hist \in [Targets -> Nat] /\ Episodes \subseteq Targets
        /\ e \in Targets
    BY DEF IInv, TypeOK, Jobs, Targets
  <2>3. \A x \in Episodes \ {e} : hist'[x] = hist[x]
    BY <2>1, <2>2
  <2>4. hist[e] > 0 /\ hist'[e] \in Nat
    BY <1>2, <2>1, <2>2 DEF NothingToRemove
  <2>5. CASE e \in Episodes /\ hist'[e] = 0
    <3>1. Watched' = Watched \ {e}
      BY <2>3, <2>5 DEF Watched
    <3> QED BY <2>1, <2>5, <3>1 DEF Shelf!Unwatch
  <2>6. CASE ~(e \in Episodes /\ hist'[e] = 0)
    <3>1. \A x \in Episodes : hist'[x] > 0 <=> hist[x] > 0
      BY <2>3, <2>4, <2>6
    <3> QED BY <2>1, <3>1 DEF Watched
  <2> QED BY <2>5, <2>6
<1> QED BY <1>1, <1>2

LEMMA NextIsShelfStep ==
    ASSUME IInv, [Next]_vars
    PROVE  [Shelf!Next]_(Shelf!shelf)
<1>0. ASSUME UNCHANGED <<hist, plans>> PROVE UNCHANGED Shelf!shelf
  BY <1>0 DEF Shelf!shelf, Watched
<1>1. CASE UNCHANGED vars \/ NextDay
  BY <1>0, <1>1 DEF vars, NextDay, data
<1>2. ASSUME NEW r \in Requests, LockEpisodeState(r)
      PROVE  [Shelf!Next]_(Shelf!shelf)
  <2> DEFINE e == job[r].ep
  <2>1. CASE UNCHANGED <<hist, plans>>
    BY <1>0, <2>1
  <2>2. CASE ~UNCHANGED <<hist, plans>>
    <3>1. Asked(r, {"unplan"}) /\ plans' = plans \ {e} /\ UNCHANGED hist
      BY <1>2, <2>2 DEF LockEpisodeState, data
    <3>2. e \in Episodes
      BY <3>1 DEF Asked, IInv, CalendarNamesEpisode
    <3>3. UNCHANGED Watched
      BY <3>1 DEF Watched
    <3> QED BY <3>1, <3>2, <3>3 DEF Shelf!Next, Shelf!Unplan
  <2> QED BY <2>1, <2>2
<1>3. ASSUME NEW r \in Requests, RecordWatch(r)
      PROVE  [Shelf!Next]_(Shelf!shelf)
  BY <1>0, <1>3, RecordIsWatch DEF Shelf!Next
<1>4. ASSUME NEW r \in Requests, RemoveWatch(r)
      PROVE  [Shelf!Next]_(Shelf!shelf)
  BY <1>4, RemoveIsUnwatch DEF Shelf!Next, Shelf!shelf
<1>5. ASSUME NEW r \in Requests, InsertPlan(r)
      PROVE  [Shelf!Next]_(Shelf!shelf)
  <2> DEFINE e == job[r].ep
  <2>1. pc[r] = "planInsert" /\ plans' = plans \cup {e} /\ UNCHANGED hist
    BY <1>5 DEF InsertPlan
  <2>2. e \in Episodes /\ hist[e] = 0
    BY <2>1 DEF IInv, PlanStillValid, Planning, CalendarNamesEpisode
  <2>3. e \notin Watched /\ UNCHANGED Watched
    BY <2>1, <2>2 DEF Watched
  <2> QED BY <2>1, <2>2, <2>3 DEF Shelf!Next, Shelf!Plan
<1>6. ASSUME NEW r \in Requests, Start(r) \/ Step(r) \/ DropRequest(r)
      PROVE  [Shelf!Next]_(Shelf!shelf)
  BY <1>0, <1>2, <1>3, <1>4, <1>5, <1>6, OthersLeaveShelf DEF Step
<1> QED BY <1>1, <1>6 DEF Next

\* Every commit of every route is a step that EpisodeShelf allows, or none: the
\* plan goes in the same commit that records the viewing.
THEOREM Refinement == Spec => ImplementsShelf
<1>1. Init => Shelf!Init
  BY DEF Init, Shelf!Init, Watched, Targets
<1>2. IInv /\ [Next]_vars => [Shelf!Next]_(Shelf!shelf)
  BY NextIsShelfStep
<1> QED BY <1>1, <1>2, Inductive, PTL DEF Spec, ImplementsShelf, Shelf!Spec

-----------------------------------------------------------------------------
(* What a step of a request does to the tracking row, the viewings and the   *)
(* request itself: the locks and the plans are left out.                     *)

Ensuring == {"mark", "rewatch", "bulk", "bulkAgain"}
Held     == <<um, hist>>

\* The request is over, and was not answered with an internal error; or it goes
\* on at l with what it was asked.
Ends(r)    == pc'[r] = "idle" /\ job'[r] = NoJob /\ pend'[r] = NoRow /\ result'[r] # "error"
Goes(r, l) == pc'[r] = l /\ job'[r] = job[r] /\ result'[r] = result[r]

\* The row that the statement of r leaves.
Chosen(r, u) ==
    \/ Asked(r, {"track"}) /\ u = CreateUpsert(um, job[r].status, job[r].today)
    \/ Asked(r, {"update"}) /\ u = UpdatedRow(um, job[r])
    \/ Asked(r, Ensuring) /\ u = WatchUpsert(um, job[r].today)

\* Nothing is written, and the service that looks for a demotion had none to make.
Over(r) == /\ Ends(r) /\ UNCHANGED Held
           /\ ~CanDrop => pc[r] # "demoting" /\ (pc[r] = "demote" => ~DemotionDue)

Failed(r) == /\ result'[r] = "error" /\ UNCHANGED Held
             /\ pc'[r] = "idle" /\ job'[r] = NoJob /\ pend'[r] = NoRow
             /\ \/ \E u : pc[r] = "row" /\ Chosen(r, u) /\ ~Asked(r, {"update"}) /\ ~RowAllowed(u)
                \/ pc[r] = "insert" /\ ~RowAllowed(FinalRow(r))

Moved(r) == /\ pend'[r] = pend[r] /\ UNCHANGED Held
            /\ \/ pc[r] = "demote" /\ Goes(r, "demoting")
               \/ pc[r] = "history" /\ Goes(r, "insert")
               \/ \E l \in {"tracking", "remove", "plan", "planInsert"} :
                    pc[r] \in {"media", "state", "history", "plan"} /\ Goes(r, l)

RowRead(r) == /\ pc[r] = "tracking" /\ pend'[r] = um /\ UNCHANGED Held
              /\ \/ Goes(r, "row")
                 \/ Asked(r, {"calmark", "plan", "import"}) /\ Goes(r, "history")

Staged(r) == /\ pc[r] = "row" /\ Goes(r, "history") /\ UNCHANGED Held
             /\ \E u : Chosen(r, u) /\ RowAllowed(u) /\ pend'[r] = u

Written(r) == /\ pc[r] = "row" /\ Ends(r) /\ UNCHANGED hist
              /\ \/ Asked(r, {"untrack"}) /\ um' = NoRow
                 \/ /\ Chosen(r, um') /\ RowAllowed(um')
                    /\ Asked(r, {"track"}) =>
                         ~(job[r].status = "completed" /\ pend[r].status # "completed")
                    /\ Asked(r, {"update"}) =>
                         ~(um.status # "completed" /\ um'.status = "completed")
                    /\ ~Asked(r, Ensuring)

\* The episode to be marked has been watched before.
Noted(r) == /\ pc[r] = "history" /\ Asked(r, {"mark"})
            /\ um' = pend[r] /\ Ends(r) /\ UNCHANGED hist

Recorded(r) == /\ pc[r] = "insert" /\ RowAllowed(FinalRow(r)) /\ um' = FinalRow(r)
               /\ hist' = [t \in Targets |-> hist[t] + IF t \in NewRows(r) THEN 1 ELSE 0]
               /\ \/ Ends(r)
                  \/ /\ Asked(r, {"watch", "mark", "bulk", "bulkAgain", "calmark"})
                     /\ Goes(r, "promote") /\ pend'[r] = NoRow

Removed(r) == pc[r] = "remove" /\ Goes(r, "demote") /\ pend'[r] = NoRow /\ UNCHANGED um

PromotionRead(r) ==
    /\ pc[r] = "promote" /\ pc'[r] = "promoting" /\ PromotionDue
    /\ job'[r] = [job[r] EXCEPT !.today = day]
    /\ pend'[r] = pend[r] /\ result'[r] = result[r] /\ UNCHANGED Held

Promoted(r) == /\ pc[r] = "promoting" /\ Ends(r) /\ UNCHANGED hist
               /\ um' = IF Tracked /\ um.status # "completed"
                        THEN PromotedRow(um, job[r].today) ELSE um

Demoted(r) == /\ pc[r] = "demoting" /\ Ends(r) /\ UNCHANGED hist
              /\ um' = IF um.status = "completed" THEN ReopenedRow(um) ELSE um

OthersWait(r) ==
    \A q \in Requests \ {r} : /\ pc'[q] = pc[q] /\ job'[q] = job[q]
                              /\ pend'[q] = pend[q] /\ result'[q] = result[q]

Shape(r) ==
    \/ Over(r) \/ Failed(r) \/ Moved(r) \/ RowRead(r) \/ Staged(r) \/ Written(r) \/ Noted(r)
    \/ Recorded(r) \/ Removed(r) \/ PromotionRead(r) \/ Promoted(r) \/ Demoted(r)

LEMMA AnswerShape ==
    ASSUME TypeOK, NEW r \in Requests, NEW a, Answer(r, a)
    PROVE  /\ pc'[r] = "idle" /\ job'[r] = NoJob /\ pend'[r] = NoRow /\ result'[r] = a
           /\ OthersWait(r)
  BY DEF Answer, TypeOK, OthersWait

LEMMA AbortShape ==
    ASSUME TypeOK, NEW r \in Requests, NEW a \in {"none", "ok", "refused"}, Abort(r, a),
           pc[r] \notin {"demote", "demoting"} \/ CanDrop
    PROVE  Shape(r) /\ OthersWait(r)
<1>1. Answer(r, a) /\ UNCHANGED <<um, hist, plans>>
  BY DEF Abort, data
<1>2. Over(r)
  BY <1>1, AnswerShape DEF Over, Ends, Held
<1> QED BY <1>1, <1>2, AnswerShape DEF Shape

LEMMA HoldShape ==
    ASSUME TypeOK, NEW r \in Requests, NEW l, NEW next, HoldThen(r, l, next),
           NEW u, pend' = [pend EXCEPT ![r] = u]
    PROVE  Goes(r, next) /\ pend'[r] = u /\ OthersWait(r) /\ UNCHANGED Held
  BY DEF HoldThen, TypeOK, Goes, OthersWait, data, Held

LEMMA StageShape ==
    ASSUME TypeOK, NEW r \in Requests, pc[r] = "row", NEW u, NEW more \in BOOLEAN, StageRow(r, u, more),
           Chosen(r, u), Asked(r, {"update"}) => RowAllowed(u),
           ~more => /\ Asked(r, {"track"}) =>
                         ~(job[r].status = "completed" /\ pend[r].status # "completed")
                    /\ Asked(r, {"update"}) => ~(um.status # "completed" /\ u.status = "completed")
                    /\ ~Asked(r, Ensuring)
    PROVE  Shape(r) /\ OthersWait(r)
<1>1. CASE ~RowAllowed(u)
  <2>1. Answer(r, "error") /\ UNCHANGED <<um, hist, plans>>
    BY <1>1 DEF StageRow, Abort, data
  <2>2. Failed(r)
    BY <1>1, <2>1, AnswerShape DEF Failed, Held
  <2> QED BY <2>1, <2>2, AnswerShape DEF Shape
<1>2. CASE RowAllowed(u) /\ more
  <2>1. HoldThen(r, "row", "history") /\ pend' = [pend EXCEPT ![r] = u]
    BY <1>2 DEF StageRow
  <2>2. Staged(r)
    BY <1>2, <2>1, HoldShape DEF Staged
  <2> QED BY <2>1, <2>2, HoldShape DEF Shape
<1>3. CASE RowAllowed(u) /\ ~more
  <2>1. um' = u /\ Answer(r, "ok") /\ UNCHANGED hist
    BY <1>3 DEF StageRow
  <2>2. Written(r)
    BY <1>3, <2>1, AnswerShape DEF Written, Ends
  <2> QED BY <2>1, <2>2, AnswerShape DEF Shape
<1> QED BY <1>1, <1>2, <1>3

LEMMA FirstShapes ==
    ASSUME TypeOK, NEW r \in Requests, LockMedia(r) \/ LockEpisodeState(r) \/ LockTracking(r)
    PROVE  Shape(r) /\ OthersWait(r)
<1>1. CASE LockMedia(r)
  <2>1. pc[r] = "media" /\ HoldThen(r, "media", "tracking") /\ pend' = [pend EXCEPT ![r] = pend[r]]
    BY <1>1 DEF LockMedia, TypeOK
  <2>2. Moved(r)
    BY <2>1, HoldShape DEF Moved
  <2> QED BY <2>1, <2>2, HoldShape DEF Shape
<1>2. CASE LockEpisodeState(r)
  <2>1. CASE Asked(r, {"unplan"})
    <3>1. Answer(r, "ok") /\ UNCHANGED Held /\ pc[r] = "state"
      BY <1>2, <2>1 DEF LockEpisodeState, Held
    <3>2. Over(r)
      BY <3>1, AnswerShape DEF Over, Ends
    <3> QED BY <3>1, <3>2, AnswerShape DEF Shape
  <2>2. CASE ~Asked(r, {"unplan"})
    <3>1. /\ pc[r] = "state" /\ pc' = [pc EXCEPT ![r] = "tracking"]
          /\ UNCHANGED <<um, hist, job, pend, result>>
      BY <1>2, <2>2 DEF LockEpisodeState, data
    <3>2. Moved(r) /\ OthersWait(r)
      BY <3>1 DEF Moved, Goes, Held, OthersWait, TypeOK
    <3> QED BY <3>2 DEF Shape
  <2> QED BY <2>1, <2>2
<1>3. CASE LockTracking(r)
  <2>1. CASE Abort(r, "refused")
    BY <1>3, <2>1, AbortShape DEF LockTracking
  <2>2. CASE ~Abort(r, "refused")
    <3>1. /\ pc[r] = "tracking" /\ pend' = [pend EXCEPT ![r] = um]
          /\ HoldThen(r, "tracking", IF Asked(r, {"calmark", "plan", "import"})
                                     THEN "history" ELSE "row")
      BY <1>3, <2>2 DEF LockTracking
    <3>2. RowRead(r)
      BY <3>1, HoldShape DEF RowRead
    <3> QED BY <3>1, <3>2, HoldShape DEF Shape
  <2> QED BY <2>1, <2>2
<1> QED BY <1>1, <1>2, <1>3

LEMMA RowShapes ==
    ASSUME TypeOK, NEW r \in Requests,
           CreateTracking(r) \/ UpdateTracking(r) \/ DeleteTracking(r) \/ EnsureTracking(r)
    PROVE  Shape(r) /\ OthersWait(r)
<1>1. CASE CreateTracking(r)
  <2> DEFINE u == CreateUpsert(um, job[r].status, job[r].today)
             more == job[r].status = "completed" /\ pend[r].status # "completed"
  <2>1. pc[r] = "row" /\ Asked(r, {"track"}) /\ StageRow(r, u, more)
    BY <1>1 DEF CreateTracking
  <2>2. Chosen(r, u) /\ ~Asked(r, {"update"}) /\ ~Asked(r, Ensuring)
    BY <2>1 DEF Chosen, Asked, Ensuring
  <2>3. more \in BOOLEAN /\ (~more => ~(job[r].status = "completed" /\ pend[r].status # "completed"))
    OBVIOUS
  <2> HIDE DEF u, more
  <2> QED BY <2>1, <2>2, <2>3, StageShape
<1>2. CASE UpdateTracking(r)
  <2> DEFINE u == UpdatedRow(um, job[r])
             more == um.status # "completed" /\ u.status = "completed"
  <2>1. CASE Abort(r, "refused")
    BY <1>2, <2>1, AbortShape DEF UpdateTracking
  <2>2. CASE ~Abort(r, "refused")
    <3>1. /\ pc[r] = "row" /\ Asked(r, {"update"}) /\ StageRow(r, u, more)
          /\ ~(u.started # 0 /\ u.completed # 0 /\ u.completed < u.started)
      BY <1>2, <2>2 DEF UpdateTracking
    <3>2. RowAllowed(u)
      <4>1. u \in Rows
        BY UpdatedRowType DEF TypeOK
      <4>2. u.completed # 0 => u.status = "completed"
        BY DEF UpdatedRow
      <4> HIDE DEF u
      <4> QED BY <3>1, <4>1, <4>2 DEF RowAllowed, Rows
    <3>3. Chosen(r, u) /\ ~Asked(r, {"track"}) /\ ~Asked(r, Ensuring)
      BY <3>1 DEF Chosen, Asked, Ensuring
    <3>4. more \in BOOLEAN /\ (~more => ~(um.status # "completed" /\ u.status = "completed"))
      OBVIOUS
    <3> HIDE DEF u, more
    <3> QED BY <3>1, <3>2, <3>3, <3>4, StageShape
  <2> QED BY <2>1, <2>2
<1>3. CASE DeleteTracking(r)
  <2>1. CASE Abort(r, "refused")
    BY <1>3, <2>1, AbortShape DEF DeleteTracking
  <2>2. CASE ~Abort(r, "refused")
    <3>1. /\ pc[r] = "row" /\ Asked(r, {"untrack"}) /\ um' = NoRow
          /\ Answer(r, "ok") /\ UNCHANGED hist
      BY <1>3, <2>2 DEF DeleteTracking
    <3>2. Written(r)
      BY <3>1, AnswerShape DEF Written, Ends
    <3> QED BY <3>1, <3>2, AnswerShape DEF Shape
  <2> QED BY <2>1, <2>2
<1>4. CASE EnsureTracking(r)
  <2> DEFINE u == WatchUpsert(um, job[r].today)
  <2>1. pc[r] = "row" /\ Asked(r, Ensuring) /\ StageRow(r, u, TRUE)
    BY <1>4 DEF EnsureTracking, Ensuring
  <2>2. Chosen(r, u) /\ ~Asked(r, {"track"}) /\ ~Asked(r, {"update"})
    BY <2>1 DEF Chosen, Asked, Ensuring
  <2> HIDE DEF u
  <2> QED BY <2>1, <2>2, StageShape
<1> QED BY <1>1, <1>2, <1>3, <1>4

LEMMA HistoryShapes ==
    ASSUME TypeOK, NEW r \in Requests,
           LockHistory(r) \/ RecordWatch(r) \/ RemoveWatch(r) \/ ReservePlan(r) \/ InsertPlan(r)
    PROVE  Shape(r) /\ OthersWait(r)
<1>1. CASE LockHistory(r)
  <2>0. pc[r] = "history"
    BY <1>1 DEF LockHistory
  <2>1. \/ Abort(r, "refused")
        \/ \E next \in {"plan", "remove", "insert"} :
             HoldThen(r, "history", next) /\ UNCHANGED pend
        \/ Asked(r, {"mark"}) /\ um' = pend[r] /\ Answer(r, "ok") /\ UNCHANGED hist
    <3>1. CASE Asked(r, {"plan"})
      BY <1>1, <3>1 DEF LockHistory
    <3>2. CASE ~Asked(r, {"plan"}) /\ Asked(r, {"unmark", "delete"})
      BY <1>1, <3>2 DEF LockHistory
    <3>3. CASE ~Asked(r, {"plan"}) /\ ~Asked(r, {"unmark", "delete"})
      BY <1>1, <3>3 DEF LockHistory, QuotaRefused
    <3> QED BY <3>1, <3>2, <3>3
  <2>2. CASE Abort(r, "refused")
    BY <2>0, <2>2, AbortShape
  <2>3. CASE \E next \in {"plan", "remove", "insert"} :
               HoldThen(r, "history", next) /\ UNCHANGED pend
    <3>1. PICK next \in {"plan", "remove", "insert"} :
            HoldThen(r, "history", next) /\ pend' = [pend EXCEPT ![r] = pend[r]]
      BY <2>3 DEF TypeOK
    <3>2. Moved(r)
      BY <2>0, <3>1, HoldShape DEF Moved
    <3> QED BY <3>1, <3>2, HoldShape DEF Shape
  <2>4. CASE Asked(r, {"mark"}) /\ um' = pend[r] /\ Answer(r, "ok") /\ UNCHANGED hist
    <3>1. Noted(r)
      BY <2>0, <2>4, AnswerShape DEF Noted, Ends
    <3> QED BY <2>4, <3>1, AnswerShape DEF Shape
  <2> QED BY <2>1, <2>2, <2>3, <2>4
<1>2. CASE RecordWatch(r)
  <2>0. pc[r] = "insert"
    BY <1>2 DEF RecordWatch
  <2>1. CASE ~RowAllowed(FinalRow(r))
    <3>1. Answer(r, "error") /\ UNCHANGED <<um, hist, plans>>
      BY <1>2, <2>1 DEF RecordWatch, Abort, data
    <3>2. Failed(r)
      BY <2>0, <2>1, <3>1, AnswerShape DEF Failed, Held
    <3> QED BY <3>1, <3>2, AnswerShape DEF Shape
  <2>2. CASE RowAllowed(FinalRow(r))
    <3>1. /\ um' = FinalRow(r)
          /\ hist' = [t \in Targets |-> hist[t] + IF t \in NewRows(r) THEN 1 ELSE 0]
          /\ \/ Answer(r, "ok")
             \/ /\ Asked(r, {"watch", "mark", "bulk", "bulkAgain", "calmark"})
                /\ CommitThen(r, "promote")
      BY <1>2, <2>2 DEF RecordWatch
    <3>2. CASE Answer(r, "ok")
      <4>1. Recorded(r)
        BY <2>0, <2>2, <3>1, <3>2, AnswerShape DEF Recorded, Ends
      <4> QED BY <3>2, <4>1, AnswerShape DEF Shape
    <3>3. CASE /\ Asked(r, {"watch", "mark", "bulk", "bulkAgain", "calmark"})
               /\ CommitThen(r, "promote")
      <4>1. Goes(r, "promote") /\ pend'[r] = NoRow /\ OthersWait(r)
        BY <3>3 DEF CommitThen, Goes, OthersWait, TypeOK
      <4>2. Recorded(r)
        BY <2>0, <2>2, <3>1, <3>3, <4>1 DEF Recorded
      <4> QED BY <4>1, <4>2 DEF Shape
    <3> QED BY <3>1, <3>2, <3>3
  <2> QED BY <2>1, <2>2
<1>3. CASE RemoveWatch(r)
  <2>0. pc[r] = "remove"
    BY <1>3 DEF RemoveWatch
  <2>1. CASE NothingToRemove(job[r].ep)
    BY <1>3, <2>0, <2>1, AbortShape DEF RemoveWatch
  <2>2. CASE ~NothingToRemove(job[r].ep)
    <3>1. CommitThen(r, "demote") /\ UNCHANGED um
      BY <1>3, <2>2 DEF RemoveWatch
    <3>2. Removed(r) /\ OthersWait(r)
      BY <2>0, <3>1 DEF Removed, CommitThen, Goes, OthersWait, TypeOK
    <3> QED BY <3>2 DEF Shape
  <2> QED BY <2>1, <2>2
<1>4. CASE ReservePlan(r)
  <2>0. pc[r] = "plan"
    BY <1>4 DEF ReservePlan
  <2>1. CASE Abort(r, "refused")
    BY <2>0, <2>1, AbortShape
  <2>2. CASE ~Abort(r, "refused")
    <3>1. HoldThen(r, "plan", "planInsert") /\ pend' = [pend EXCEPT ![r] = pend[r]]
      BY <1>4, <2>2 DEF ReservePlan, QuotaRefused, TypeOK
    <3>2. Moved(r)
      BY <2>0, <3>1, HoldShape DEF Moved
    <3> QED BY <3>1, <3>2, HoldShape DEF Shape
  <2> QED BY <2>1, <2>2
<1>5. CASE InsertPlan(r)
  <2>1. pc[r] = "planInsert" /\ Answer(r, "ok") /\ UNCHANGED Held
    BY <1>5 DEF InsertPlan, Held
  <2>2. Over(r)
    BY <2>1, AnswerShape DEF Over, Ends
  <2> QED BY <2>1, <2>2, AnswerShape DEF Shape
<1> QED BY <1>1, <1>2, <1>3, <1>4, <1>5

LEMMA CompletionShapes ==
    ASSUME TypeOK, NEW r \in Requests,
           ReadForPromotion(r) \/ Promote(r) \/ ReadForDemotion(r) \/ Demote(r)
    PROVE  Shape(r) /\ OthersWait(r)
<1>1. CASE ReadForPromotion(r)
  <2>1. CASE PromotionDue
    <3>1. PromotionRead(r) /\ OthersWait(r)
      BY <1>1, <2>1 DEF ReadForPromotion, PromotionRead, OthersWait, TypeOK, Held, data
    <3> QED BY <3>1 DEF Shape
  <2>2. CASE ~PromotionDue
    <3>1. pc[r] = "promote" /\ Answer(r, "ok") /\ UNCHANGED Held
      BY <1>1, <2>2 DEF ReadForPromotion, data, Held
    <3>2. Over(r)
      BY <3>1, AnswerShape DEF Over, Ends
    <3> QED BY <3>1, <3>2, AnswerShape DEF Shape
  <2> QED BY <2>1, <2>2
<1>2. CASE Promote(r)
  <2>1. Promoted(r)
    BY <1>2, AnswerShape DEF Promote, Promoted, Ends
  <2> QED BY <1>2, <2>1, AnswerShape DEF Promote, Shape
<1>3. CASE ReadForDemotion(r)
  <2>1. CASE DemotionDue
    <3>1. Moved(r) /\ OthersWait(r)
      BY <1>3, <2>1 DEF ReadForDemotion, Moved, Goes, OthersWait, TypeOK, Held, data
    <3> QED BY <3>1 DEF Shape
  <2>2. CASE ~DemotionDue
    <3>1. pc[r] = "demote" /\ Answer(r, "ok") /\ UNCHANGED Held
      BY <1>3, <2>2 DEF ReadForDemotion, data, Held
    <3>2. Over(r)
      BY <2>2, <3>1, AnswerShape DEF Over, Ends
    <3> QED BY <3>1, <3>2, AnswerShape DEF Shape
  <2> QED BY <2>1, <2>2
<1>4. CASE Demote(r)
  <2>1. Demoted(r)
    BY <1>4, AnswerShape DEF Demote, Demoted, Ends
  <2> QED BY <1>4, <2>1, AnswerShape DEF Demote, Shape
<1> QED BY <1>1, <1>2, <1>3, <1>4

\* Every step of a request has one of the shapes.
LEMMA Shapes ==
    ASSUME TypeOK, NEW r \in Requests, Step(r) \/ DropRequest(r)
    PROVE  Shape(r) /\ OthersWait(r) /\ day' = day /\ pc[r] # "idle"
<1>1. CASE Step(r)
  <2>1. Shape(r) /\ OthersWait(r)
    BY <1>1, FirstShapes, RowShapes, HistoryShapes, CompletionShapes DEF Step
  <2>2. day' = day
    BY <1>1 DEF Step, LockMedia, LockEpisodeState, LockTracking, CreateTracking, UpdateTracking,
                DeleteTracking, EnsureTracking, LockHistory, RecordWatch, RemoveWatch, ReservePlan,
                InsertPlan, ReadForPromotion, Promote, ReadForDemotion, Demote
  <2>3. pc[r] # "idle"
    BY <1>1 DEF Step, LockMedia, LockEpisodeState, LockTracking, CreateTracking, UpdateTracking,
                DeleteTracking, EnsureTracking, LockHistory, RecordWatch, RemoveWatch, ReservePlan,
                InsertPlan, ReadForPromotion, Promote, ReadForDemotion, Demote
  <2> QED BY <2>1, <2>2, <2>3
<1>2. CASE DropRequest(r)
  BY <1>2, AbortShape DEF DropRequest
<1> QED BY <1>1, <1>2

-----------------------------------------------------------------------------
(* Internal errors.                                                          *)

ImportedRow(j) == [status |-> j.status, started |-> j.start, completed |-> j.comp]
Within(u, D)   == u.started \in D /\ u.completed \in D

\* The days that dates may name on day d: those up to it, and those of exports.
Known(d) == (0..d) \cup {e \in ExportDays : "import" \in Ops}

\* The row is allowed and says nothing of the future that no export said, and so
\* are the rows that the transactions hold and what the requests bring.
SoundFor(r) ==
    /\ RowAllowed(pend[r]) /\ Within(pend[r], Known(day))
    /\ job[r].start \in Known(day) /\ job[r].comp \in Known(day) /\ job[r].today <= day
    /\ job[r].op = "import" => RowAllowed(ImportedRow(job[r]))
Sound ==
    RowAllowed(um) /\ Within(um, Known(day)) /\ \A r \in Requests : SoundFor(r)

LEMMA KnownDays ==
    ASSUME NEW d \in Nat
    PROVE  /\ 0 \in Known(d) /\ 0 \in 0..d /\ d \in 0..d
           /\ \A e \in Nat : e <= d => e \in Known(d)
           /\ \A e \in Nat : d <= e => Known(d) \subseteq Known(e)
  BY DEF Known

\* The statements leave rows that are allowed, but for two: a title completed
\* without a start and started later, and one started after the day the
\* transaction takes for today.
LEMMA SoundRows ==
    ASSUME NEW u \in Rows, DatedRow(u), RowAllowed(u), NEW s \in Statuses \cup {"none"},
           NEW d \in Nat, d # 0
    PROVE  /\ RowAllowed(CreateUpsert(u, s, d)) \/ (u.completed # 0 /\ u.started = 0) \/ d < u.started
           /\ RowAllowed(WatchUpsert(u, d)) /\ RowAllowed(PromotedRow(u, d))
           /\ RowAllowed(ReopenedRow(u)) /\ RowAllowed(NoRow)
           /\ RowAllowed(CalendarUpsert(u, d)) \/ (u.completed # 0 /\ u.started = 0)
<1>1. RowAllowed(CreateUpsert(u, s, d)) \/ (u.completed # 0 /\ u.started = 0) \/ d < u.started
  BY DEF Rows, RowAllowed, CreateUpsert, Coalesce
<1>2. RowAllowed(WatchUpsert(u, d))
  BY DEF Rows, DatedRow, RowAllowed, WatchUpsert, Coalesce
<1>3. RowAllowed(PromotedRow(u, d))
  BY DEF Rows, RowAllowed, PromotedRow, Later
<1>4. RowAllowed(ReopenedRow(u)) /\ RowAllowed(NoRow)
  BY DEF Rows, RowAllowed, ReopenedRow, NoRow
<1>5. RowAllowed(CalendarUpsert(u, d)) \/ (u.completed # 0 /\ u.started = 0)
  BY DEF Rows, DatedRow, RowAllowed, CalendarUpsert, Coalesce
<1> QED BY <1>1, <1>2, <1>3, <1>4, <1>5

LEMMA WithinRows ==
    ASSUME NEW u \in Rows, NEW s \in Statuses \cup {"none"}, NEW D, NEW d \in D \cap Nat,
           0 \in D, Within(u, D)
    PROVE  /\ Within(CreateUpsert(u, s, d), D) /\ Within(WatchUpsert(u, d), D)
           /\ Within(CalendarUpsert(u, d), D) /\ Within(PromotedRow(u, d), D)
           /\ Within(ReopenedRow(u), D) /\ Within(NoRow, D)
<1>1. Within(CreateUpsert(u, s, d), D) /\ Within(WatchUpsert(u, d), D)
  BY DEF Rows, Within, CreateUpsert, WatchUpsert, Coalesce
<1>2. Within(CalendarUpsert(u, d), D) /\ Within(PromotedRow(u, d), D)
  BY DEF Rows, Within, CalendarUpsert, PromotedRow, Coalesce, Later
<1>3. Within(ReopenedRow(u), D) /\ Within(NoRow, D)
  BY DEF Rows, Within, ReopenedRow, NoRow
<1> QED BY <1>1, <1>2, <1>3

LEMMA WithinUpdate ==
    ASSUME NEW u \in Rows, NEW j \in Jobs, NEW D, 0 \in D, Within(u, D),
           j.start \in D, j.comp \in D, j.today \in D
    PROVE  Within(UpdatedRow(u, j), D)
<1>1. \A a, b : a \in D /\ b \in D => Coalesce(a, b) \in D
  BY DEF Coalesce
<1> DEFINE s == IF j.status = "none" THEN u.status ELSE j.status
           first == IF s \in {"watching", "completed"} THEN j.today ELSE 0
<1>2. first \in D
  OBVIOUS
<1> HIDE DEF first
<1>3. UpdatedRow(u, j).started = Coalesce(j.start, Coalesce(u.started, first))
  BY DEF UpdatedRow, first
<1>4. UpdatedRow(u, j).completed = IF s = "completed"
                                   THEN Coalesce(j.comp, Coalesce(u.completed, j.today)) ELSE 0
  BY DEF UpdatedRow
<1>5. UpdatedRow(u, j).started \in D
  BY <1>1, <1>2, <1>3 DEF Within
<1>6. UpdatedRow(u, j).completed \in D
  <2>1. Coalesce(j.comp, Coalesce(u.completed, j.today)) \in D
    BY <1>1 DEF Within
  <2> HIDE DEF s
  <2> QED BY <1>4, <2>1
<1> QED BY <1>5, <1>6 DEF Within

LEMMA SoundNothing == RowAllowed(NoRow) /\ \A D : 0 \in D => Within(NoRow, D)
  BY DEF NoRow, RowAllowed, Within

\* The row that a statement leaves names days that its request or the row named.
LEMMA ChosenWithin ==
    ASSUME TypeOK, NEW r \in Requests, NEW u, Chosen(r, u), NEW D, 0 \in D, Within(um, D),
           job[r].start \in D, job[r].comp \in D, job[r].today \in D
    PROVE  u \in Rows /\ Within(u, D)
<1>0. um \in Rows /\ job[r] \in Jobs /\ job[r].today \in Nat /\ job[r].status \in Statuses \cup {"none"}
  BY DEF TypeOK, Jobs
<1>1. CASE u = CreateUpsert(um, job[r].status, job[r].today)
  <2>1. CreateUpsert(um, job[r].status, job[r].today) \in Rows
    BY <1>0 DEF Rows, CreateUpsert, Coalesce
  <2> QED BY <1>0, <1>1, <2>1, WithinRows
<1>2. CASE u = UpdatedRow(um, job[r])
  BY <1>0, <1>2, UpdatedRowType, WithinUpdate
<1>3. CASE u = WatchUpsert(um, job[r].today)
  <2>1. WatchUpsert(um, job[r].today) \in Rows
    BY <1>0, RowTypes DEF Statuses
  <2> QED BY <1>0, <1>3, <2>1, WithinRows
<1> QED BY <1>1, <1>2, <1>3 DEF Chosen

LEMMA FinalWithin ==
    ASSUME TypeOK, NEW r \in Requests, NEW D, 0 \in D, Within(um, D), Within(pend[r], D),
           job[r].start \in D, job[r].comp \in D, job[r].today \in D
    PROVE  Within(FinalRow(r), D)
<1>0. um \in Rows /\ job[r].today \in Nat
  BY DEF TypeOK, Jobs
<1>1. Within(CalendarUpsert(um, job[r].today), D)
  BY <1>0, WithinRows DEF Statuses
<1>2. Within(ImportedRow(job[r]), D)
  BY DEF Within, ImportedRow
<1> QED BY <1>1, <1>2 DEF FinalRow, ImportedRow

\* A step of one request: what it leaves is sound.
LEMMA SoundFrame ==
    ASSUME Sound, NEW r \in Requests, OthersWait(r), day' = day,
           RowAllowed(um'), Within(um', Known(day)), SoundFor(r)'
    PROVE  Sound'
<1>1. ASSUME NEW q \in Requests \ {r} PROVE SoundFor(q)'
  BY DEF Sound, SoundFor, OthersWait
<1> QED BY <1>1 DEF Sound

\* A request that ends brings and holds nothing any more.
LEMMA SoundEnd ==
    ASSUME TypeOK, NEW r \in Requests, job'[r] = NoJob, pend'[r] = NoRow, day' = day
    PROVE  SoundFor(r)'
<1>1. 0 \in Known(day') /\ 0 <= day'
  BY KnownDays DEF TypeOK
<1>2. NoJob.start = 0 /\ NoJob.comp = 0 /\ NoJob.today = 0 /\ NoJob.op # "import"
  BY DEF NoJob
<1>3. RowAllowed(NoRow) /\ Within(NoRow, Known(day'))
  BY <1>1, SoundNothing
<1> QED BY <1>1, <1>2, <1>3 DEF SoundFor

LEMMA SoundGoes ==
    ASSUME TypeOK, Sound, NEW r \in Requests, job'[r] = job[r], day' = day,
           RowAllowed(pend'[r]), Within(pend'[r], Known(day))
    PROVE  SoundFor(r)'
  BY DEF Sound, SoundFor

LEMMA StepSound ==
    ASSUME TypeOK, DatesHold, Sound, NEW r \in Requests, Shape(r), OthersWait(r), day' = day,
           pc[r] # "idle"
    PROVE  Sound'
<1>0. /\ um \in Rows /\ day \in Nat /\ job[r] \in Jobs /\ job[r].today \in Nat /\ job[r].today # 0
      /\ DatedRow(um) /\ job[r].status \in Statuses \cup {"none"} /\ pend[r] \in Rows
  BY DEF TypeOK, DatesHold, Jobs
<1>1. /\ RowAllowed(um) /\ Within(um, Known(day)) /\ RowAllowed(pend[r]) /\ Within(pend[r], Known(day))
      /\ job[r].start \in Known(day) /\ job[r].comp \in Known(day) /\ job[r].today <= day
      /\ 0 \in Known(day) /\ job[r].today \in Known(day)
  BY <1>0, KnownDays DEF Sound, SoundFor
<1>2. RowAllowed(NoRow) /\ Within(NoRow, Known(day))
  BY <1>1, SoundNothing
<1>3. CASE Over(r) \/ Failed(r)
  <2>1. um' = um /\ job'[r] = NoJob /\ pend'[r] = NoRow
    BY <1>3 DEF Over, Failed, Ends, Held
  <2> QED BY <1>1, <2>1, SoundEnd, SoundFrame
<1>4. CASE Moved(r) \/ RowRead(r)
  BY <1>1, <1>4, SoundGoes, SoundFrame DEF Moved, RowRead, Goes, Held
<1>5. CASE Staged(r)
  <2>1. Within(pend'[r], Known(day)) /\ RowAllowed(pend'[r])
    BY <1>0, <1>1, <1>5, ChosenWithin DEF Staged
  <2> QED BY <1>1, <1>5, <2>1, SoundGoes, SoundFrame DEF Staged, Goes, Held
<1>6. CASE Written(r)
  <2>1. Within(um', Known(day)) /\ RowAllowed(um')
    BY <1>0, <1>1, <1>2, <1>6, ChosenWithin DEF Written
  <2> QED BY <1>6, <2>1, SoundEnd, SoundFrame DEF Written, Ends
<1>7. CASE Noted(r)
  BY <1>1, <1>7, SoundEnd, SoundFrame DEF Noted, Ends
<1>8. CASE Recorded(r)
  <2>1. Within(um', Known(day)) /\ RowAllowed(um')
    BY <1>0, <1>1, <1>8, FinalWithin DEF Recorded
  <2>2. SoundFor(r)'
    BY <1>2, <1>8, SoundEnd, SoundGoes DEF Recorded, Ends, Goes
  <2> QED BY <2>1, <2>2, SoundFrame
<1>9. CASE Removed(r)
  BY <1>1, <1>2, <1>9, SoundGoes, SoundFrame DEF Removed, Goes
<1>10. CASE PromotionRead(r)
  <2> DEFINE j == [job[r] EXCEPT !.today = day]
  <2>1. /\ j.start = job[r].start /\ j.comp = job[r].comp /\ j.today = day /\ j.op = job[r].op
        /\ j.status = job[r].status
    BY <1>0 DEF Jobs
  <2>2. job'[r] = j /\ pend'[r] = pend[r] /\ um' = um
    BY <1>10 DEF PromotionRead, Held
  <2> HIDE DEF j
  <2>3. SoundFor(r)'
    BY <1>0, <1>1, <2>1, <2>2 DEF Sound, SoundFor, ImportedRow
  <2> QED BY <1>1, <2>2, <2>3, SoundFrame
<1>11. CASE Promoted(r)
  <2>1. Within(um', Known(day)) /\ RowAllowed(um')
    BY <1>0, <1>1, <1>11, SoundRows, WithinRows DEF Promoted
  <2> QED BY <1>11, <2>1, SoundEnd, SoundFrame DEF Promoted, Ends
<1>12. CASE Demoted(r)
  <2>1. Within(um', Known(day)) /\ RowAllowed(um')
    BY <1>0, <1>1, <1>12, SoundRows, WithinRows DEF Demoted
  <2> QED BY <1>12, <2>1, SoundEnd, SoundFrame DEF Demoted, Ends
<1> QED
  BY <1>3, <1>4, <1>5, <1>6, <1>7, <1>8, <1>9, <1>10, <1>11, <1>12 DEF Shape

\* A request that is taken in: it has begun today, and nothing else changes.
TakenIn(r, j) ==
    /\ pc[r] = "idle" /\ pc'[r] \in {"media", "tracking", "history", "state"}
    /\ pc'[r] = "history" => j.op \in Bare
    /\ job'[r] = j /\ j \in Jobs /\ j.op \in Ops /\ j.today = day /\ BringsDates(j)
    /\ pend'[r] = pend[r] /\ result'[r] = "none" /\ UNCHANGED <<um, hist, day>>

LEMMA StartShape ==
    ASSUME TypeOK, NEW r \in Requests, Start(r)
    PROVE  OthersWait(r) /\ \E j : TakenIn(r, j)
<1>1. PICK i \in Jobs, first \in {"media", "tracking", "history", "state"} :
        BringsDates(i) /\ (first = "history" => i.op \in Bare) /\ Begin(r, i, first)
  BY StartTakes DEF Taken
<1> DEFINE j == [i EXCEPT !.today = day]
<1>2a. day \in Nat
  BY DEF TypeOK
<1>2b. /\ j.today = day /\ j.op = i.op /\ j.start = i.start /\ j.comp = i.comp
      /\ j.status = i.status
  BY DEF Jobs
<1>2c. j \in Jobs
  BY <1>2a DEF Jobs
<1>2. /\ j \in Jobs /\ j.today = day /\ j.op = i.op /\ j.start = i.start /\ j.comp = i.comp
      /\ j.status = i.status
  BY <1>2b, <1>2c
<1>3. /\ pc[r] = "idle" /\ i.op \in Ops /\ pc' = [pc EXCEPT ![r] = first]
      /\ job' = [job EXCEPT ![r] = j] /\ result' = [result EXCEPT ![r] = "none"]
      /\ UNCHANGED <<um, hist, day, pend>>
  BY <1>1 DEF Begin, data
<1> HIDE DEF j
<1>4. BringsDates(j)
  BY <1>1, <1>2 DEF BringsDates
<1>5. TakenIn(r, j) /\ OthersWait(r)
  BY <1>1, <1>2, <1>3, <1>4 DEF TakenIn, OthersWait, TypeOK
<1> QED BY <1>5

LEMMA StartSound ==
    ASSUME TypeOK, Sound, NEW r \in Requests, Start(r)
    PROVE  Sound'
<1>1. PICK j : TakenIn(r, j)
  BY StartShape
<1>2. /\ job'[r].today = day /\ day \in Nat
      /\ job'[r].start \in Known(day) /\ job'[r].comp \in Known(day)
  BY <1>1 DEF TakenIn, BringsDates, TypeOK, Jobs, Known
<1>3. job'[r].op = "import" => RowAllowed(ImportedRow(job'[r]))
  BY <1>1 DEF TakenIn, BringsDates, RowAllowed, ImportedRow, Jobs
<1>4. SoundFor(r)'
  BY <1>1, <1>2, <1>3 DEF Sound, SoundFor, TakenIn
<1> QED BY <1>1, <1>4, StartShape, SoundFrame DEF TakenIn, Sound

LEMMA TimeSound ==
    ASSUME TypeOK, Sound, NextDay \/ UNCHANGED vars
    PROVE  Sound'
<1>1. UNCHANGED <<um, job, pend>> /\ day \in Nat /\ day' \in Nat /\ day <= day'
  BY DEF NextDay, vars, data, TypeOK
<1>2. Known(day) \subseteq Known(day') /\ \A u : Within(u, Known(day)) => Within(u, Known(day'))
  BY <1>1, KnownDays DEF Within
<1>3. ASSUME NEW r \in Requests PROVE SoundFor(r)'
  <2>1. pend[r] \in Rows /\ job[r].today \in Nat
    BY DEF TypeOK, Jobs
  <2> QED BY <1>1, <1>2, <2>1 DEF Sound, SoundFor
<1>4. um \in Rows
  BY DEF TypeOK
<1> QED BY <1>1, <1>2, <1>3, <1>4 DEF Sound

LEMMA NextSound == ASSUME TypeOK, DatesHold, Sound, [Next]_vars PROVE Sound'
<1>1. CASE \E r \in Requests : Start(r)
  BY <1>1, StartSound
<1>2. CASE \E r \in Requests : Step(r) \/ DropRequest(r)
  BY <1>2, Shapes, StepSound
<1>3. CASE NextDay \/ UNCHANGED vars
  BY <1>3, TimeSound
<1> QED BY <1>1, <1>2, <1>3 DEF Next

LEMMA SoundAlways == Spec => [](TypeOK /\ DatesHold /\ Sound)
<1>1. Init => DatesHold /\ Sound
  BY SoundNothing, KnownDays, BoundsAssumption
     DEF Init, DatesHold, DatedRow, NoRow, NoJob, Sound, SoundFor
<1>2. TypeOK /\ DatesHold /\ Sound /\ [Next]_vars => DatesHold' /\ Sound'
  BY NextDates, NextSound
<1> QED BY <1>1, <1>2, TypeCorrect, PTL DEF Spec

LEMMA FailedWhy ==
    ASSUME TypeOK, DatesHold, Sound, NEW r \in Requests, pc[r] # "idle", Failed(r)
    PROVE  /\ Unstarted \/ StartedSince(r) \/ Foretold
           /\ Asked(r, {"track", "calmark"})
<1>0. /\ um \in Rows /\ job[r].today \in Nat /\ job[r].today # 0 /\ DatedRow(um)
      /\ job[r].status \in Statuses \cup {"none"} /\ RowAllowed(um) /\ Within(um, Known(day))
      /\ SoundFor(r) /\ day \in Nat
  BY DEF TypeOK, DatesHold, Jobs, Sound
<1>1. CASE \E u : Chosen(r, u) /\ ~Asked(r, {"update"}) /\ ~RowAllowed(u)
  <2>1. \/ ~RowAllowed(WatchUpsert(um, job[r].today))
        \/ Asked(r, {"track"}) /\ ~RowAllowed(CreateUpsert(um, job[r].status, job[r].today))
    BY <1>1 DEF Chosen
  <2>2. /\ Asked(r, {"track"}) /\ ~RowAllowed(CreateUpsert(um, job[r].status, job[r].today))
    BY <1>0, <2>1, SoundRows
  <2>3. Unstarted \/ job[r].today < um.started
    BY <1>0, <2>2, SoundRows DEF Unstarted
  <2>4. um.started \in 0..day \/ ("import" \in Ops /\ um.started \in ExportDays)
    BY <1>0 DEF Within, Known
  <2>5. um.started \in Nat
    BY <1>0 DEF Rows
  <2> QED BY <1>0, <2>2, <2>3, <2>4, <2>5 DEF StartedSince, Foretold, Asked
<1>2. CASE ~RowAllowed(FinalRow(r))
  <2>1. RowAllowed(pend[r]) /\ (job[r].op = "import" => RowAllowed(ImportedRow(job[r])))
    BY <1>0 DEF SoundFor
  <2>2. job[r].op = "calmark" /\ ~RowAllowed(CalendarUpsert(um, job[r].today))
    BY <1>0, <1>2, <2>1 DEF FinalRow, ImportedRow
  <2> QED BY <1>0, <2>2, SoundRows DEF Unstarted, Asked, Statuses
<1> QED BY <1>1, <1>2 DEF Failed

\* Only a step that fails answers with an error.
LEMMA ErrorIsFailed ==
    ASSUME NEW r \in Requests, Shape(r), result'[r] = "error", result[r] # "error"
    PROVE  Failed(r)
<1>1. ~Ends(r) /\ \A l : ~Goes(r, l)
  BY DEF Ends, Goes
<1>2. ~(Over(r) \/ Written(r) \/ Noted(r) \/ Promoted(r) \/ Demoted(r))
  BY <1>1 DEF Over, Written, Noted, Promoted, Demoted
<1>3. ~(Moved(r) \/ RowRead(r) \/ Staged(r) \/ Removed(r))
  BY <1>1 DEF Moved, RowRead, Staged, Removed
<1>4. ~(Recorded(r) \/ PromotionRead(r))
  BY <1>1 DEF Recorded, PromotionRead
<1> QED BY <1>2, <1>3, <1>4 DEF Shape

\* However the requests of a member interleave, days pass and connections break,
\* a handler trips a CHECK constraint of user_media in three cases only: its title
\* was promoted without a start date (completion.rs:27-29), midnight passed
\* between its transaction and a start that committed before it
\* (tracking.rs:215-221), or an import has given the title a start that is still
\* to come (importer.rs:350-358).
THEOREM ErrorsExplained == Spec => ErrorExplained
<1>1. ASSUME TypeOK, DatesHold, Sound, [Next]_vars, NEW r \in Requests,
             result'[r] = "error", result[r] # "error"
      PROVE  Unstarted \/ StartedSince(r) \/ Foretold
  <2>1. CASE \E q \in Requests : Start(q)
    <3>1. PICK q \in Requests : OthersWait(q) /\ \E j : TakenIn(q, j)
      BY <1>1, <2>1, StartShape
    <3> QED BY <1>1, <3>1 DEF TakenIn, OthersWait
  <2>2. CASE \E q \in Requests : Step(q) \/ DropRequest(q)
    <3>1. PICK q \in Requests : Shape(q) /\ OthersWait(q) /\ pc[q] # "idle"
      BY <1>1, <2>2, Shapes
    <3>2. q = r
      BY <1>1, <3>1 DEF OthersWait
    <3> QED BY <1>1, <3>1, <3>2, ErrorIsFailed, FailedWhy
  <2>3. CASE NextDay \/ UNCHANGED vars
    BY <1>1, <2>3 DEF NextDay, vars
  <2> QED BY <1>1, <2>1, <2>2, <2>3 DEF Next
<1>2. TypeOK /\ DatesHold /\ Sound /\ [Next]_vars =>
        [\A r \in Requests : result'[r] = "error" /\ result[r] # "error"
                               => Unstarted \/ StartedSince(r) \/ Foretold]_vars
  BY <1>1
<1> QED BY <1>2, SoundAlways, PTL DEF Spec, ErrorExplained

-----------------------------------------------------------------------------
(* Requests that do not overlap.                                             *)

\* The member's requests are handled one after the other.
OneAtATime == \A r, s \in Requests : pc[r] # "idle" /\ pc[s] # "idle" => r = s

\* The imports say nothing of days to come.
NothingForetold ==
    \A r \in Requests : job[r].op = "import" => {job[r].start, job[r].comp} \subseteq 0..job[r].today

\* What is completed has been started.
Begun(u) == u.completed # 0 => u.started # 0

\* The request under way knows the day of all that has been recorded; the row it
\* holds is begun, and the title is started when its promotion is looked for.
BegunFor(r) ==
    /\ Begun(pend[r]) /\ Within(pend[r], 0..job[r].today)
    /\ {job[r].start, job[r].comp} \subseteq 0..job[r].today
    /\ pc[r] # "idle" => Within(um, 0..job[r].today)
    /\ pc[r] \in {"promote", "promoting"} => um.started # 0
    /\ pc[r] \in {"history", "insert"} /\ Asked(r, Ensuring) => pend[r].started # 0
    /\ job[r].op # "watch"
    /\ job[r].op = "import" => Begun(ImportedRow(job[r]))
    /\ result[r] # "error"
AllBegun == Begun(um) /\ Within(um, 0..day) /\ \A r \in Requests : BegunFor(r)

LEMMA OthersIdle ==
    ASSUME OneAtATime, NEW r \in Requests, pc[r] # "idle"
    PROVE  \A q \in Requests \ {r} : pc[q] = "idle"
  BY DEF OneAtATime

LEMMA BegunFrame ==
    ASSUME AllBegun, NEW r \in Requests, OthersWait(r), \A q \in Requests \ {r} : pc'[q] = "idle",
           day' = day, Begun(um'), Within(um', 0..day), BegunFor(r)'
    PROVE  AllBegun'
<1>1. ASSUME NEW q \in Requests \ {r} PROVE BegunFor(q)'
  BY DEF AllBegun, BegunFor, OthersWait, Asked
<1> QED BY <1>1 DEF AllBegun

LEMMA BegunNothing == Begun(NoRow) /\ \A d \in Nat : Within(NoRow, 0..d)
  BY SoundNothing, KnownDays DEF Begun, NoRow

LEMMA BegunEnd ==
    ASSUME NEW r \in Requests, Ends(r)
    PROVE  BegunFor(r)'
<1>1. NoJob.today = 0 /\ NoJob.start = 0 /\ NoJob.comp = 0 /\ NoJob.op = "none"
  BY DEF NoJob
<1>2. 0 \in 0..0 /\ Begun(NoRow) /\ Within(NoRow, 0..0)
  BY DEF Begun, Within, NoRow
<1>3. /\ pc'[r] = "idle" /\ job'[r] = NoJob /\ pend'[r] = NoRow /\ result'[r] # "error"
  BY DEF Ends
<1> QED BY <1>1, <1>2, <1>3 DEF BegunFor, Asked, Ensuring

\* The rows that the statements leave are begun.
LEMMA ChosenBegun ==
    ASSUME TypeOK, NEW r \in Requests, job[r].today # 0, Begun(um), NEW u, Chosen(r, u)
    PROVE  Begun(u) /\ (Asked(r, Ensuring) => u.started # 0)
<1>0. um \in Rows /\ job[r] \in Jobs /\ job[r].today \in Nat
  BY DEF TypeOK, Jobs
<1>1. CASE Asked(r, {"track"}) /\ u = CreateUpsert(um, job[r].status, job[r].today)
  BY <1>0, <1>1 DEF Begun, CreateUpsert, Coalesce, Asked, Ensuring
<1>2. CASE Asked(r, {"update"}) /\ u = UpdatedRow(um, job[r])
  <2>1. \A a, b : b # 0 => Coalesce(a, b) # 0
    BY DEF Coalesce
  <2> DEFINE s == IF job[r].status = "none" THEN um.status ELSE job[r].status
  <2>2. u.completed # 0 => s = "completed"
    BY <1>2 DEF UpdatedRow
  <2>3. u.started = Coalesce(job[r].start, Coalesce(um.started,
                      IF s \in {"watching", "completed"} THEN job[r].today ELSE 0))
    BY <1>2 DEF UpdatedRow
  <2> HIDE DEF s
  <2>4. s = "completed" => u.started # 0
    BY <2>1, <2>3
  <2> QED BY <1>2, <2>2, <2>4 DEF Begun, Asked, Ensuring
<1>3. CASE Asked(r, Ensuring) /\ u = WatchUpsert(um, job[r].today)
  BY <1>0, <1>3 DEF Begun, WatchUpsert, Coalesce
<1> QED BY <1>1, <1>2, <1>3 DEF Chosen

LEMMA FinalBegun ==
    ASSUME TypeOK, NEW r \in Requests, job[r].today # 0, Begun(um), BegunFor(r)
    PROVE  Begun(FinalRow(r)) /\ (job[r].op = "calmark" => FinalRow(r).started # 0)
<1>0. um \in Rows /\ job[r].today \in Nat
  BY DEF TypeOK, Jobs
<1>1. Begun(CalendarUpsert(um, job[r].today)) /\ CalendarUpsert(um, job[r].today).started # 0
  BY <1>0 DEF Rows, Begun, CalendarUpsert, Coalesce
<1> QED BY <1>1 DEF FinalRow, BegunFor, ImportedRow

LEMMA StepBegun ==
    ASSUME TypeOK, DatesHold, Sound, AllBegun, OneAtATime, NEW r \in Requests,
           Shape(r), OthersWait(r), day' = day, pc[r] # "idle"
    PROVE  AllBegun'
<1>0. /\ um \in Rows /\ day \in Nat /\ job[r] \in Jobs /\ job[r].today \in Nat /\ job[r].today # 0
      /\ pend[r] \in Rows
  BY DEF TypeOK, DatesHold, Jobs
<1> DEFINE D == 0..job[r].today
<1>1. /\ Begun(um) /\ Within(um, D) /\ BegunFor(r) /\ SoundFor(r) /\ Within(um, 0..day)
      /\ Begun(pend[r]) /\ Within(pend[r], D)
      /\ job[r].start \in D /\ job[r].comp \in D
  BY DEF AllBegun, BegunFor, Sound
<1>d. /\ 0 \in D /\ job[r].today \in D /\ job[r].today \in D \cap Nat
      /\ \A u : Within(u, D) => Within(u, 0..day)
  BY <1>0, <1>1 DEF SoundFor, Within
<1>2. \A q \in Requests \ {r} : pc'[q] = "idle"
  BY OthersIdle DEF OthersWait
<1>3. CASE Over(r)
  BY <1>1, <1>2, <1>3, BegunEnd, BegunFrame DEF Over, Held
<1>4. CASE Failed(r)
  <2>1. job[r].today < um.started
    BY <1>0, <1>1, <1>4, FailedWhy DEF Unstarted, StartedSince, Foretold, Begun, SoundFor, Rows
  <2> QED BY <1>0, <1>1, <2>1 DEF Within
<1>5. CASE Moved(r)
  <2>1. um' = um /\ job'[r] = job[r] /\ pend'[r] = pend[r] /\ result'[r] = result[r]
    BY <1>5 DEF Moved, Goes, Held
  <2>2. pc'[r] \notin {"promote", "promoting"} /\ (pc'[r] \in {"history", "insert"} => pc[r] = "history")
    BY <1>5 DEF Moved, Goes
  <2>3. BegunFor(r)'
    BY <1>1, <2>1, <2>2 DEF BegunFor, Asked
  <2> QED BY <1>1, <1>2, <2>1, <2>3, BegunFrame
<1>6. CASE RowRead(r)
  <2>1. /\ um' = um /\ job'[r] = job[r] /\ pend'[r] = um /\ result'[r] = result[r]
        /\ pc'[r] \in {"row", "history"}
        /\ pc'[r] = "history" => ~Asked(r, Ensuring)
    BY <1>6 DEF RowRead, Goes, Held, Asked, Ensuring
  <2>2. BegunFor(r)'
    BY <1>1, <2>1 DEF BegunFor, Asked
  <2> QED BY <1>1, <1>2, <2>1, <2>2, BegunFrame
<1>7. CASE Staged(r)
  <2>1. PICK u : Chosen(r, u) /\ pend'[r] = u
    BY <1>7 DEF Staged
  <2>2. Begun(u) /\ (Asked(r, Ensuring) => u.started # 0) /\ Within(u, D)
    <3> HIDE DEF D
    <3> QED BY <1>0, <1>1, <1>d, <2>1, ChosenBegun, ChosenWithin
  <2>3. um' = um /\ job'[r] = job[r] /\ result'[r] = result[r] /\ pc'[r] = "history"
    BY <1>7 DEF Staged, Goes, Held
  <2>4. BegunFor(r)'
    BY <1>1, <2>1, <2>2, <2>3 DEF BegunFor, Asked
  <2> QED BY <1>1, <1>2, <2>3, <2>4, BegunFrame
<1>8. CASE Written(r)
  <2>1. Begun(um') /\ Within(um', 0..day)
    <3> HIDE DEF D
    <3> QED
      BY <1>0, <1>1, <1>d, <1>8, ChosenBegun, ChosenWithin, BegunNothing DEF Written
  <2> QED BY <1>2, <1>8, <2>1, BegunEnd, BegunFrame DEF Written
<1>9. CASE Noted(r)
  <2>1. Begun(um') /\ Within(um', 0..day)
    <3> HIDE DEF D
    <3> QED BY <1>1, <1>d, <1>9 DEF Noted
  <2> QED BY <1>2, <1>9, <2>1, BegunEnd, BegunFrame DEF Noted
<1>10. CASE Recorded(r)
  <2>1. um' = FinalRow(r) /\ Begun(um') /\ (job[r].op = "calmark" => um'.started # 0)
    BY <1>0, <1>1, <1>10, FinalBegun DEF Recorded
  <2>0. Within(um', D) /\ Within(um', 0..day)
    <3> HIDE DEF D
    <3> QED BY <1>1, <1>d, <2>1, FinalWithin
  <2>2. CASE Ends(r)
    BY <1>2, <2>0, <2>1, <2>2, BegunEnd, BegunFrame
  <2>3. CASE /\ Asked(r, {"watch", "mark", "bulk", "bulkAgain", "calmark"})
             /\ Goes(r, "promote") /\ pend'[r] = NoRow
    <3>1. um'.started # 0
      BY <1>1, <1>10, <2>1, <2>3 DEF Recorded, BegunFor, Asked, Ensuring, FinalRow
    <3>2. BegunFor(r)'
      BY <1>0, <1>1, <2>0, <2>3, <3>1, BegunNothing DEF BegunFor, Goes
    <3> QED BY <1>2, <2>0, <2>1, <3>2, BegunFrame
  <2> QED BY <1>10, <2>2, <2>3 DEF Recorded
<1>11. CASE Removed(r)
  <2>1. BegunFor(r)'
    BY <1>0, <1>1, <1>11, BegunNothing DEF BegunFor, Removed, Goes
  <2> QED BY <1>1, <1>2, <1>11, <2>1, BegunFrame DEF Removed
<1>12. CASE PromotionRead(r)
  <2> DEFINE j == [job[r] EXCEPT !.today = day]
  <2>1. /\ j.today = day /\ j.op = job[r].op /\ j.start = job[r].start /\ j.comp = job[r].comp
        /\ j.status = job[r].status
    BY <1>0 DEF Jobs
  <2>2. /\ job'[r] = j /\ pend'[r] = pend[r] /\ um' = um /\ result'[r] = result[r]
        /\ pc'[r] = "promoting" /\ pc[r] = "promote"
    BY <1>12 DEF PromotionRead, Held
  <2> HIDE DEF j
  <2>3. \A u : Within(u, D) => Within(u, 0..day)
    BY <1>d
  <2>4. job[r].start \in 0..day /\ job[r].comp \in 0..day
    BY <1>0, <1>1 DEF SoundFor
  <2>5. BegunFor(r)'
    <3> HIDE DEF D
    <3> QED BY <1>1, <2>1, <2>2, <2>3, <2>4 DEF BegunFor, ImportedRow
  <2> QED BY <1>1, <1>2, <2>2, <2>5, BegunFrame
<1>13. CASE Promoted(r)
  <2>1. Begun(um')
    BY <1>1, <1>13 DEF Promoted, PromotedRow, Begun, BegunFor
  <2>2. Within(um', 0..day)
    <3> HIDE DEF D
    <3> QED BY <1>0, <1>1, <1>d, <1>13, WithinRows DEF Promoted, Statuses
  <2> QED BY <1>2, <1>13, <2>1, <2>2, BegunEnd, BegunFrame DEF Promoted
<1>14. CASE Demoted(r)
  <2>1. Begun(um')
    BY <1>1, <1>14 DEF Demoted, ReopenedRow, Begun
  <2>2. Within(um', 0..day)
    <3> HIDE DEF D
    <3> QED BY <1>0, <1>1, <1>d, <1>14, WithinRows DEF Demoted, Statuses
  <2> QED BY <1>2, <1>14, <2>1, <2>2, BegunEnd, BegunFrame DEF Demoted
<1> QED
  BY <1>3, <1>4, <1>5, <1>6, <1>7, <1>8, <1>9, <1>10, <1>11, <1>12, <1>13, <1>14 DEF Shape

LEMMA StartBegun ==
    ASSUME TypeOK, Sound, AllBegun, OneAtATime', NothingForetold', "watch" \notin Ops,
           NEW r \in Requests, Start(r)
    PROVE  AllBegun'
<1>1. PICK j : TakenIn(r, j)
  BY StartShape
<1>2. OthersWait(r) /\ \A q \in Requests \ {r} : pc'[q] = "idle"
  BY <1>1, StartShape DEF TakenIn, OneAtATime
<1>3. Within(pend[r], 0..day) /\ Within(um, 0..day) /\ Begun(pend[r]) /\ Begun(um)
  <2>1. job[r].today \in Nat /\ job[r].today <= day /\ day \in Nat
    BY DEF Sound, SoundFor, TypeOK, Jobs
  <2> QED BY <2>1 DEF AllBegun, BegunFor, Within
<1>4. job'[r].op = "import" => Begun(ImportedRow(job'[r]))
  BY <1>1 DEF TakenIn, BringsDates, Begun, ImportedRow
<1>5. /\ pend'[r] = pend[r] /\ um' = um /\ job'[r].today = day /\ result'[r] = "none"
      /\ job'[r].op # "watch" /\ pc'[r] \notin {"promote", "promoting", "insert"}
      /\ ~(pc'[r] = "history" /\ Asked(r, Ensuring)')
  BY <1>1 DEF TakenIn, Asked, Ensuring, Bare
<1>d. {job'[r].start, job'[r].comp} \subseteq 0..day
  <2>1. job'[r].start \in Nat /\ job'[r].comp \in Nat /\ day \in Nat
    BY <1>1 DEF TakenIn, TypeOK, Jobs
  <2>2. CASE job'[r].op = "import"
    BY <1>5, <2>2 DEF NothingForetold
  <2>3. CASE job'[r].op # "import"
    BY <1>1, <2>1, <2>3 DEF TakenIn, BringsDates
  <2> QED BY <2>2, <2>3
<1>6. BegunFor(r)'
  BY <1>3, <1>4, <1>5, <1>d DEF BegunFor
<1> QED BY <1>1, <1>2, <1>3, <1>5, <1>6, BegunFrame DEF TakenIn

LEMMA NextBegun ==
    ASSUME TypeOK, DatesHold, Sound, AllBegun, OneAtATime, OneAtATime', NothingForetold',
           "watch" \notin Ops, [Next]_vars
    PROVE  AllBegun'
<1>1. CASE \E r \in Requests : Start(r)
  BY <1>1, StartBegun
<1>2. CASE \E r \in Requests : Step(r) \/ DropRequest(r)
  BY <1>2, Shapes, StepBegun
<1>3. CASE NextDay \/ UNCHANGED vars
  <2>1. /\ UNCHANGED <<um, pc, job, pend, result>>
        /\ day \in Nat /\ day' \in Nat /\ day <= day'
    BY <1>3 DEF NextDay, vars, data, TypeOK
  <2>2. Within(um', 0..day')
    BY <2>1 DEF AllBegun, Within
  <2>3. ASSUME NEW r \in Requests PROVE BegunFor(r)'
    BY <2>1 DEF AllBegun, BegunFor, Asked
  <2> QED BY <2>1, <2>2, <2>3 DEF AllBegun
<1> QED BY <1>1, <1>2, <1>3 DEF Next

\* As long as the requests of a member do not overlap and its imports say nothing
\* of days to come, none answers with an internal error, over any sequence of
\* them, any days and any lost connections; except where POST /history, which
\* leaves the row alone, is among them: it can have a title promoted that was
\* never started.
THEOREM AloneNoError ==
    "watch" \notin Ops =>
        (Spec /\ []OneAtATime /\ []NothingForetold => []NoInternalError)
<1> SUFFICES ASSUME "watch" \notin Ops
             PROVE  Spec /\ []OneAtATime /\ []NothingForetold => []NoInternalError
  OBVIOUS
<1>1. Init => AllBegun
  <2>1. NoJob.today = 0 /\ NoJob.start = 0 /\ NoJob.comp = 0 /\ NoJob.op = "none"
    BY DEF NoJob
  <2>2. 0 \in 0..0 /\ Begun(NoRow) /\ Within(NoRow, 0..0) /\ Within(NoRow, 0..1)
    BY DEF Begun, Within, NoRow
  <2>3. Init => \A r \in Requests : /\ job[r] = NoJob /\ pend[r] = NoRow
                                   /\ pc[r] = "idle" /\ result[r] = "none"
    BY DEF Init
  <2>4. Init => um = NoRow /\ day = 1
    BY DEF Init
  <2>5. ASSUME Init, NEW r \in Requests PROVE BegunFor(r)
    <3>1. {job[r].start, job[r].comp} \subseteq 0..job[r].today /\ Within(pend[r], 0..job[r].today)
      BY <2>1, <2>2, <2>3, <2>5
    <3> QED BY <2>1, <2>2, <2>3, <2>5, <3>1 DEF BegunFor, Asked
  <2> QED BY <2>2, <2>4, <2>5 DEF AllBegun
<1>2. TypeOK /\ DatesHold /\ Sound /\ AllBegun /\ OneAtATime /\ OneAtATime'
        /\ NothingForetold' /\ [Next]_vars => AllBegun'
  BY NextBegun
<1>3. AllBegun => NoInternalError
  BY DEF AllBegun, BegunFor, NoInternalError
<1> QED BY <1>1, <1>2, <1>3, SoundAlways, PTL DEF Spec

\* What the one request under way has read still holds: its transaction comes to
\* write the row as it read it, only POST and PATCH /tracking hold a completed row
\* before they have recorded the viewings, and a promotion about to be written
\* concerns a show of which everything aired has been watched.
StillRead(r) ==
    /\ pc[r] = "promoting" => FullyWatched(job[r].today)
    /\ pc[r] = "row" => pend[r] = um
    /\ pc[r] = "idle" => pend[r] = NoRow
    /\ pend[r].status = "completed" => Asked(r, {"track", "update"}) \/ um.status = "completed"
    /\ job[r].op # "import"
AllStillRead == \A r \in Requests : StillRead(r)

LEMMA StillFrame ==
    ASSUME AllStillRead, NEW r \in Requests, OthersWait(r), \A q \in Requests \ {r} : pc'[q] = "idle",
           StillRead(r)'
    PROVE  AllStillRead'
<1>1. ASSUME NEW q \in Requests \ {r} PROVE StillRead(q)'
  <2>1. pend'[q] = NoRow /\ job'[q].op # "import" /\ pc'[q] = "idle"
    BY DEF AllStillRead, StillRead, OthersWait
  <2> QED BY <2>1 DEF StillRead, NoRow
<1> QED BY <1>1 DEF AllStillRead

LEMMA StillEnd ==
    ASSUME NEW r \in Requests, pc'[r] = "idle", job'[r] = NoJob, pend'[r] = NoRow
    PROVE  StillRead(r)'
  BY DEF StillRead, NoJob, NoRow

LEMMA StepStill ==
    ASSUME TypeOK, AllStillRead, OneAtATime, NEW r \in Requests,
           Shape(r), OthersWait(r), pc[r] # "idle"
    PROVE  AllStillRead'
<1>0. /\ job[r] \in Jobs /\ StillRead(r)
  BY DEF TypeOK, AllStillRead
<1>1. \A q \in Requests \ {r} : pc'[q] = "idle"
  BY OthersIdle DEF OthersWait
<1>2. CASE pc'[r] = "idle" /\ job'[r] = NoJob /\ pend'[r] = NoRow
  BY <1>1, <1>2, StillEnd, StillFrame
<1>3. CASE Over(r) \/ Failed(r) \/ Written(r) \/ Noted(r) \/ Promoted(r) \/ Demoted(r)
  BY <1>2, <1>3 DEF Over, Failed, Written, Noted, Promoted, Demoted, Ends
<1>4. CASE Moved(r)
  <2>1. /\ um' = um /\ job'[r] = job[r] /\ pend'[r] = pend[r]
        /\ pc'[r] \notin {"promoting", "row", "idle"}
    BY <1>4 DEF Moved, Goes, Held
  <2>2. StillRead(r)'
    BY <1>0, <2>1 DEF StillRead, Asked
  <2> QED BY <1>1, <2>2, StillFrame
<1>5. CASE RowRead(r)
  <2>1. um' = um /\ job'[r] = job[r] /\ pend'[r] = um /\ pc'[r] \in {"row", "history"}
    BY <1>5 DEF RowRead, Goes, Held
  <2>2. StillRead(r)'
    BY <1>0, <2>1 DEF StillRead, Asked
  <2> QED BY <1>1, <2>2, StillFrame
<1>6. CASE Staged(r)
  <2>1. PICK u : Chosen(r, u) /\ pend'[r] = u
    BY <1>6 DEF Staged
  <2>2. um' = um /\ job'[r] = job[r] /\ pc'[r] = "history"
    BY <1>6 DEF Staged, Goes, Held
  <2>3. u.status = "completed" => Asked(r, {"track", "update"}) \/ um.status = "completed"
    BY <2>1 DEF Chosen, Asked, WatchUpsert
  <2>4. StillRead(r)'
    BY <1>0, <2>1, <2>2, <2>3 DEF StillRead, Asked
  <2> QED BY <1>1, <2>4, StillFrame
<1>7. CASE Recorded(r)
  <2>1. CASE Goes(r, "promote") /\ pend'[r] = NoRow
    <3>1. StillRead(r)'
      BY <1>0, <2>1 DEF StillRead, Goes, NoRow
    <3> QED BY <1>1, <3>1, StillFrame
  <2> QED BY <1>2, <1>7, <2>1 DEF Recorded, Ends
<1>8. CASE Removed(r)
  <2>1. pc'[r] = "demote" /\ pend'[r] = NoRow /\ job'[r] = job[r]
    BY <1>8 DEF Removed, Goes
  <2>2. StillRead(r)'
    BY <1>0, <2>1 DEF StillRead, NoRow
  <2> QED BY <1>1, <2>2, StillFrame
<1>9. CASE PromotionRead(r)
  <2>1. /\ um' = um /\ hist' = hist /\ pend'[r] = pend[r] /\ job'[r] = [job[r] EXCEPT !.today = day]
        /\ pc'[r] = "promoting" /\ FullyWatched(day)
    BY <1>9 DEF PromotionRead, Held, PromotionDue
  <2>2. job'[r].op = job[r].op /\ job'[r].today = day
    BY <1>0, <2>1 DEF Jobs
  <2>3. FullyWatched(job[r].today)'
    BY <2>1, <2>2 DEF FullyWatched
  <2>4. StillRead(r)'
    BY <1>0, <2>1, <2>2, <2>3 DEF StillRead, Asked
  <2> QED BY <1>1, <2>4, StillFrame
<1> QED BY <1>3, <1>4, <1>5, <1>6, <1>7, <1>8, <1>9 DEF Shape

LEMMA NextStill ==
    ASSUME TypeOK, AllStillRead, OneAtATime, OneAtATime', "import" \notin Ops, [Next]_vars
    PROVE  AllStillRead'
<1>1. CASE \E r \in Requests : Start(r)
  <2>1. PICK r \in Requests : OthersWait(r) /\ \E j : TakenIn(r, j)
    BY <1>1, StartShape
  <2>2. /\ pend'[r] = NoRow /\ job'[r].op # "import" /\ pc'[r] \notin {"promoting", "row", "idle"}
        /\ \A q \in Requests \ {r} : pc'[q] = "idle"
    BY <2>1 DEF TakenIn, AllStillRead, StillRead, OneAtATime, OthersWait
  <2>3. StillRead(r)'
    BY <2>2 DEF StillRead, NoRow
  <2> QED BY <2>1, <2>2, <2>3, StillFrame
<1>2. CASE \E r \in Requests : Step(r) \/ DropRequest(r)
  BY <1>2, Shapes, StepStill
<1>3. CASE NextDay \/ UNCHANGED vars
  BY <1>3 DEF NextDay, vars, data, AllStillRead, StillRead, Asked, FullyWatched
<1> QED BY <1>1, <1>2, <1>3 DEF Next

LEMMA StillAlways ==
    ASSUME "import" \notin Ops
    PROVE  Spec /\ []OneAtATime => [](TypeOK /\ AllStillRead)
<1>1. Init => AllStillRead
  BY DEF Init, AllStillRead, StillRead, NoJob, NoRow
<1>2. TypeOK /\ AllStillRead /\ OneAtATime /\ OneAtATime' /\ [Next]_vars => AllStillRead'
  BY NextStill
<1> QED BY <1>1, <1>2, TypeCorrect, PTL DEF Spec

\* Entering "completed" records every episode that has aired and has no viewing;
\* nothing else that records leaves a row completed that was not.
LEMMA CompletionRecords ==
    ASSUME TypeOK, IsTv, NEW r \in Requests, StillRead(r), Recorded(r), um'.status = "completed",
           um.status # "completed" \/ Asked(r, {"track", "update"}), NEW e \in Regular,
           Aired(e, job[r].today)
    PROVE  hist'[e] > 0
<1>0. /\ e \in Targets /\ hist[e] \in Nat /\ job[r].op \in OpNames \cup {"none"}
  BY DEF Targets, Episodes, TypeOK, Jobs
<1>1. hist'[e] = hist[e] + IF e \in NewRows(r) THEN 1 ELSE 0
  BY <1>0 DEF Recorded
<1>2. Asked(r, {"track", "update"})
  <2>1. um' = FinalRow(r) /\ job[r].op # "import"
    BY DEF Recorded, StillRead
  <2>2. CASE job[r].op = "calmark"
    BY <2>1, <2>2 DEF FinalRow, CalendarUpsert, TypeOK, Rows
  <2>3. CASE job[r].op = "watch"
    BY <2>1, <2>3 DEF FinalRow
  <2>4. CASE job[r].op \notin {"calmark", "watch"}
    BY <2>1, <2>4 DEF FinalRow, StillRead
  <2> QED BY <2>2, <2>3, <2>4
<1>3. NewRows(r) = CompletionRows(job[r].today)
  BY <1>2 DEF NewRows, Asked
<1>4. hist[e] = 0 => e \in Missing(job[r].today)
  BY DEF Missing, Unwatched
<1>5. hist[e] = 0 => e \in NewRows(r)
  BY <1>3, <1>4 DEF CompletionRows
<1> QED BY <1>0, <1>1, <1>5

\* As long as the requests of a member do not overlap, a show becomes completed,
\* by POST or PATCH /tracking or by promotion, only in a step that leaves every
\* episode watched that has aired by the day of the request; lost connections
\* included, and whatever airs later.
CompletedWhenWatched ==
    [][IsTv /\ um.status # "completed" /\ um'.status = "completed" =>
         \A r \in Requests, e \in Regular :
            pc[r] # "idle" /\ Aired(e, job[r].today) => hist'[e] > 0]_vars

\* However a show comes to be completed (tracking.rs:233 and :343 record its
\* episodes, completion.rs:44-61 finds them watched), while requests do not overlap
\* nothing that had aired is missing; an import says what its export says.
THEOREM AloneCompletes ==
    "import" \notin Ops => (Spec /\ []OneAtATime => CompletedWhenWatched)
<1> SUFFICES ASSUME "import" \notin Ops
             PROVE  Spec /\ []OneAtATime => CompletedWhenWatched
  OBVIOUS
<1>1. ASSUME TypeOK, AllStillRead, OneAtATime, [Next]_vars, IsTv, um.status # "completed",
             um'.status = "completed", NEW r \in Requests, NEW e \in Regular,
             pc[r] # "idle", Aired(e, job[r].today)
      PROVE  hist'[e] > 0
  <2>1. \E q \in Requests : Step(q) \/ DropRequest(q)
    <3>1. um' # um
      BY <1>1
    <3>2. ~(NextDay \/ UNCHANGED vars)
      BY <3>1 DEF NextDay, vars, data
    <3>3. ~\E q \in Requests : Start(q)
      BY <1>1, <3>1, StartShape DEF TakenIn
    <3> QED BY <1>1, <3>2, <3>3 DEF Next
  <2>2. Shape(r) /\ StillRead(r) /\ um \in Rows
    BY <1>1, <2>1, Shapes DEF OneAtATime, AllStillRead, TypeOK
  <2>3. CASE Recorded(r)
    BY <1>1, <2>2, <2>3, CompletionRecords
  <2>4. CASE Promoted(r)
    BY <1>1, <2>2, <2>4 DEF Promoted, StillRead, FullyWatched
  <2>5. CASE Written(r)
    <3>1. pend[r] = um
      BY <2>2, <2>5 DEF Written, StillRead
    <3>2. um' # NoRow
      BY <1>1 DEF NoRow
    <3>3. ~Asked(r, {"update"})
      BY <1>1, <2>5, <3>2 DEF Written
    <3>4. CASE Asked(r, {"track"}) /\ um' = CreateUpsert(um, job[r].status, job[r].today)
      <4>1. job[r].status = "completed"
        BY <1>1, <3>4 DEF CreateUpsert
      <4> QED BY <1>1, <2>5, <3>1, <3>2, <3>4, <4>1 DEF Written
    <3> QED BY <2>5, <3>2, <3>3, <3>4 DEF Written, Chosen
  <2>6. CASE Noted(r)
    BY <1>1, <2>2, <2>6 DEF Noted, StillRead, Asked
  <2>7. CASE Demoted(r)
    BY <1>1, <2>7 DEF Demoted
  <2>8. CASE Over(r) \/ Failed(r) \/ Moved(r) \/ RowRead(r) \/ Staged(r) \/ Removed(r)
             \/ PromotionRead(r)
    BY <1>1, <2>8 DEF Over, Failed, Moved, RowRead, Staged, Removed, PromotionRead, Held
  <2> QED BY <2>2, <2>3, <2>4, <2>5, <2>6, <2>7, <2>8 DEF Shape
<1>2. TypeOK /\ AllStillRead /\ OneAtATime /\ [Next]_vars =>
        [IsTv /\ um.status # "completed" /\ um'.status = "completed" =>
           \A r \in Requests, e \in Regular :
              pc[r] # "idle" /\ Aired(e, job[r].today) => hist'[e] > 0]_vars
  BY <1>1
<1> QED BY <1>2, StillAlways, PTL DEF Spec, CompletedWhenWatched

\* The episodes that are out before the first day.
Out == {e \in Regular : AirDay[e] = 0}

\* The title says completed only if episode e has been watched, or the request
\* that removed its viewing has still to reopen the show.
Reopening(r) == pc[r] \in {"demote", "demoting"}
Seen(e) == um.status = "completed" => hist[e] > 0 \/ \E r \in Requests : Reopening(r)
AllSeen == IsTv => \A e \in Out : Seen(e)

LEMMA StepSeen ==
    ASSUME TypeOK, IsTv, ~CanDrop, AllStillRead, OneAtATime, NEW e \in Out, Seen(e),
           NEW r \in Requests, Shape(r), OthersWait(r), pc[r] # "idle"
    PROVE  Seen(e)'
<1>0. /\ um \in Rows /\ StillRead(r) /\ e \in Regular /\ \A d \in Nat : Aired(e, d)
      /\ hist[e] \in Nat /\ job[r].today \in Nat /\ day \in Nat
  BY DEF TypeOK, Out, Targets, Episodes, AllStillRead, Aired, Jobs
<1>1. \A q \in Requests \ {r} : pc[q] = "idle"
  BY OthersIdle
<1>2. ~Reopening(r) /\ um.status = "completed" => hist[e] > 0
  BY <1>1 DEF Seen, Reopening
<1>3. \A d \in Nat : FullyWatched(d) => hist[e] > 0
  BY <1>0 DEF FullyWatched
<1> SUFFICES um'.status = "completed" => hist'[e] > 0 \/ Reopening(r)'
  BY DEF Seen
<1>4. CASE Over(r)
  BY <1>0, <1>2, <1>3, <1>4 DEF Over, Held, DemotionDue, Reopening
<1>5. CASE Failed(r) \/ RowRead(r) \/ Staged(r)
  BY <1>2, <1>5 DEF Failed, RowRead, Staged, Held, Reopening
<1>6. CASE Moved(r)
  BY <1>2, <1>6 DEF Moved, Goes, Held, Reopening
<1>7. CASE Written(r)
  <2>1. pc[r] = "row" /\ pend[r] = um /\ hist' = hist
    BY <1>0, <1>7 DEF Written, StillRead
  <2>2. um'.status = "completed" => um.status = "completed"
    <3>1. CASE um' = NoRow
      BY <3>1 DEF NoRow
    <3>2. CASE um' # NoRow /\ Asked(r, {"track"}) /\ um' = CreateUpsert(um, job[r].status, job[r].today)
      BY <1>7, <2>1, <3>2 DEF Written, CreateUpsert
    <3>3. CASE um' # NoRow /\ Asked(r, {"update"})
      BY <1>7, <3>3 DEF Written
    <3> QED BY <1>7, <3>1, <3>2, <3>3 DEF Written, Chosen
  <2> QED BY <1>2, <2>1, <2>2 DEF Reopening
<1>8. CASE Noted(r)
  BY <1>0, <1>2, <1>8 DEF Noted, StillRead, Asked, Reopening
<1>9. CASE Recorded(r)
  <2>1. CASE um.status # "completed" \/ Asked(r, {"track", "update"})
    BY <1>0, <1>9, <2>1, CompletionRecords
  <2>2. CASE um.status = "completed"
    <3>1. e \in Targets /\ (hist'[e] = hist[e] + IF e \in NewRows(r) THEN 1 ELSE 0)
      BY <1>0, <1>9 DEF Recorded, Targets, Episodes
    <3> QED BY <1>0, <1>2, <1>9, <2>2, <3>1 DEF Recorded, Reopening
  <2> QED BY <2>1, <2>2
<1>10. CASE Removed(r)
  BY <1>10 DEF Removed, Goes, Reopening
<1>11. CASE PromotionRead(r)
  BY <1>2, <1>11 DEF PromotionRead, Held, Reopening
<1>12. CASE Promoted(r)
  BY <1>0, <1>3, <1>12 DEF Promoted, StillRead
<1>13. CASE Demoted(r)
  BY <1>0, <1>13 DEF Demoted, ReopenedRow, Rows
<1> QED BY <1>4, <1>5, <1>6, <1>7, <1>8, <1>9, <1>10, <1>11, <1>12, <1>13 DEF Shape

LEMMA NextSeen ==
    ASSUME TypeOK, AllStillRead, AllSeen, OneAtATime, OneAtATime', ~CanDrop, [Next]_vars
    PROVE  AllSeen'
<1> SUFFICES ASSUME IsTv, NEW e \in Out PROVE Seen(e)'
  BY DEF AllSeen
<1>0. Seen(e)
  BY DEF AllSeen
<1>1. CASE \E r \in Requests : Start(r)
  <2>1. PICK r \in Requests : OthersWait(r) /\ \E j : TakenIn(r, j)
    BY <1>1, StartShape
  <2>2. um' = um /\ hist' = hist /\ \A q \in Requests : pc[q] = "idle"
    BY <2>1 DEF TakenIn, OneAtATime, OthersWait
  <2> QED BY <1>0, <2>2 DEF Seen, Reopening
<1>2. CASE \E r \in Requests : Step(r) \/ DropRequest(r)
  BY <1>0, <1>2, Shapes, StepSeen
<1>3. CASE NextDay \/ UNCHANGED vars
  BY <1>0, <1>3 DEF NextDay, vars, data, Seen, Reopening
<1> QED BY <1>1, <1>2, <1>3 DEF Next

LEMMA SeenAlways ==
    ASSUME ~CanDrop, "import" \notin Ops
    PROVE  Spec /\ []OneAtATime => []AllSeen
<1>1. Init => AllSeen
  BY DEF Init, AllSeen, Seen, NoRow
<1>2. TypeOK /\ AllStillRead /\ AllSeen /\ OneAtATime /\ OneAtATime' /\ [Next]_vars => AllSeen'
  BY NextSeen
<1> QED BY <1>1, <1>2, StillAlways, PTL DEF Spec

\* As long as the requests of a member do not overlap and none is cut off, a show
\* that rests completed has no unwatched episode among those that were out before
\* the first day: every way of removing a viewing has reopened the show,
\* every way of completing it has recorded the episodes or found them watched.
\* An import writes what the export says, so it is left out.
THEOREM AloneOutIsWatched ==
    ~CanDrop /\ "import" \notin Ops =>
        (Spec /\ []OneAtATime
           => [](Quiet /\ IsTv /\ um.status = "completed" => FullyWatched(1)))
<1> SUFFICES ASSUME ~CanDrop, "import" \notin Ops
             PROVE  Spec /\ []OneAtATime
                      => [](Quiet /\ IsTv /\ um.status = "completed" => FullyWatched(1))
  OBVIOUS
<1>1. AllSeen => (Quiet /\ IsTv /\ um.status = "completed" => FullyWatched(1))
  <2> SUFFICES ASSUME AllSeen, Quiet, IsTv, um.status = "completed", NEW e \in Regular, Aired(e, 1)
               PROVE  hist[e] > 0
    BY DEF FullyWatched
  <2>1. AirDay[e] \in Nat
    BY EpisodesAssumption DEF Episodes
  <2>2. e \in Out
    BY <2>1 DEF Aired, Out
  <2> QED BY <2>2 DEF AllSeen, Seen, Quiet, Reopening
<1> QED BY <1>1, SeenAlways, PTL

\* No episode airs meanwhile: each is out before the first day or still to come
\* after the last.
NoneAirs == \A e \in Regular : AirDay[e] = 0 \/ AirDay[e] >= MaxDay

\* The same of every episode that has aired: a show at rest and completed has been
\* watched (completion.rs:105-148 reopens it after each removal).
THEOREM AloneCompleted ==
    ~CanDrop /\ "import" \notin Ops /\ NoneAirs =>
        (Spec /\ []OneAtATime => []CompletedShowIsWatched)
<1> SUFFICES ASSUME ~CanDrop, "import" \notin Ops, NoneAirs
             PROVE  Spec /\ []OneAtATime => []CompletedShowIsWatched
  OBVIOUS
<1>1. TypeOK /\ AllSeen => CompletedShowIsWatched
  <2> SUFFICES ASSUME TypeOK, AllSeen, Quiet, IsTv, um.status = "completed",
                      NEW e \in Regular, Aired(e, day)
               PROVE  hist[e] > 0
    BY DEF FullyWatched, CompletedShowIsWatched
  <2>1. AirDay[e] \in Nat /\ day \in 1..MaxDay /\ MaxDay \in Nat
    BY EpisodesAssumption, BoundsAssumption DEF Episodes, TypeOK
  <2>2. e \in Out
    BY <2>1 DEF Aired, Out, NoneAirs
  <2> QED BY <2>2 DEF AllSeen, Seen, Quiet, Reopening
<1> QED BY <1>1, SeenAlways, TypeCorrect, PTL
=============================================================================
