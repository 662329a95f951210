# A verification model of cineTrack

cineTrack is a film and series tracker: an Actix/PostgreSQL backend, a React web
client, a React Native client and scheduled jobs. This directory holds TLA+
models of the parts whose correctness depends on the order in which requests,
background tasks, screens, failures and time interleave, the TLC configurations
that check them, and TLAPS proofs of the results that matter most.

Backend paths below are relative to `src/backend/src/`; `web` stands for
`src/frontend/src`, `mobile` for `src/mobile/src`.

## The system and its parts

| Part | State | Operations | Interacts through | What is hard |
|---|---|---|---|---|
| Watch state: `routes/tracking.rs`, `routes/history.rs`, `routes/calendar.rs`, `services/completion.rs`, `services/quota.rs` | `user_media`, `watch_history`, `episode_plans` | track, update, untrack, watch, mark, rewatch, plan, unplan, unmark, delete | advisory locks, a trigger that clears plans, statements after the commit; the import writes the same tables | five kinds of lock in different orders; quotas counted and spent in one transaction; promotion and demotion of shows outside the locks; dates |
| Sessions: `services/auth.rs`, `services/revocation.rs`, `services/retention.rs` | `refresh_tokens`, `revoked_refresh_families`, `access_token_revocations`, an in-process cache | sign in, rotate, sign out, revoke, change or reset the password | row locks in four modes; the cache, which no roll-back undoes | a rotation racing a revocation, late retries, reuse, restarts, pruning, the resolution of `iat` |
| Imports: `routes/import.rs`, `services/importer.rs`, `main.rs` | `import_jobs`, a semaphore, spawned tasks | admit, reserve, run, finish, release stale or interrupted jobs | a partial unique index; the permit travels from handler to task | lost writes, panics, restarts, lost clients, tasks longer than the staleness limit |
| Social graph and messages: `routes/users.rs`, `routes/messages.rs`, `services/notifications.rs`, `services/community_safety.rs` | `users.is_public`, `follows`, `user_blocks`, `notifications`, `direct_messages` | follow, unfollow, accept, reject, block, unblock, publish, hide, send | pairwise advisory locks, row locks, triggers | requests in flight against blocks and visibility; lock order |
| End-to-end keys: `routes/encryption.rs`, `routes/messages.rs`, `{web,mobile}/lib/crypto`, their hooks, stores and gates | `user_identity_keys`, `user_key_backups`; the identity a device stores and the one in memory | set up, publish, replace, restore, re-seal, seal and send | two clients, one directory; a worker and several requests between a click and its effect | two devices setting up at once, a session ending under its own job, old or failed look-ups |
| Web session: `web/lib/api.ts`, `store/auth.ts`, `hooks/useAuth.ts`, `lib/events.ts` | one cookie and one marker per browser; a store, a generation, a refresh in flight per tab | hydrate, refresh, sign in, sign out, retry | the shared cookie, a browser-wide lock | tabs that rotate one token, answers that outlive their session, a tab closed while it holds the lock |
| Mobile session: `mobile/lib/session.ts`, `secure-session.ts`, `api.ts`, `store/auth-store.ts` | keychain, memory, session generation, list of owed revocations | restore, refresh, resume, sign in, sign out, reset, API calls | two promise chains; the keychain, which fails | awaits between every read and write, kills, failed keychain calls |
| Client caches and screens: the query hooks, mutations, pages and components of both clients | the TanStack Query cache, mounted screens | every query and every mutation of both clients, polling, the event stream | callbacks that invalidate, set, drop or roll back other hooks' entries | loads on their way when a write lands, optimistic changes, screens that come and go, lost signals |
| Login throttle: `services/auth.rs` | failure count and lock on `users` | failed and successful sign-in | one statement per failure | concurrent failures at the threshold |
| One-time tokens and two factors: `services/auth.rs` | three token tables, recovery codes | issue, consume, replace, cancel | the account's row lock | a token used twice |
| Release notifications: `services/push.rs` | `release_push_deliveries`, `push_devices` | enqueue, submit, receipts, retry | the provider; the job lock | duplicates after a crash |
| Catalogue: `services/tmdb.rs`, `catalog_*.rs`, `release_schedule.rs`, `discovery.rs` | `media`, `episodes`, hydration state | fetch, hydrate, back off, repair | the job lock; a rate-limited API | failures part way |
| Storage: `services/storage.rs`, `avatar_rekey.rs`, `media_cache.rs`, `routes/assets.rs` | object store, `users.avatar_url`, cached media | upload, re-key, sweep, delete | two stores changed one after the other | a crash or an upload in between |
| Lists, badges, events, moderation, export, feeds, statistics, pages | one table or none each | one transaction each, or read-only | | little |

What makes each modelled part correct: an episode is never planned and watched at
once, a quota is never passed by requests that each respected it, status, dates
and history of a title agree; an ended session is never renewed and its access
tokens are refused; a permit is never lost and an account never locked out of
importing; a block severs whatever was in flight; keys are replaced only with the
password, and a message between two members with keys is never in the clear; a
person who has signed out stays signed out, on the screen, in the keychain and in
every other tab; what a person has written shows on every screen that is about it.
`PROJECT.json` lists every part with its status, and the hazards with the line
where each bites.

## Modules

| Module | What it is |
|---|---|
| `WatchState` | one member and one title: every write to tracking, history and plans |
| `EpisodeShelf` | the abstract promise about planned and watched episodes, which `WatchState` implements |
| `AuthSessions` | the sessions of one account and the revocation cache of one process |
| `ImportJobs` | admission, reservation and life of import tasks, over restarts |
| `SocialGraph` | follows, blocks, visibility and messages between members |
| `Encryption` | identities, their directory and backups, the devices that make and restore them, and the rule a message is sealed by |
| `WebSession` | the tabs of one browser and the server's refresh, sign-in and sign-out |
| `MobileSession` | the signed-in session of the phone, its keychain and its revocations |
| `ClientCache` | one cached answer, the screens that show it, the writes that touch it, the event stream |
| `Screens`, `WebScreens`, `MobileScreens` | how a screen is written down; every screen of the two clients |
| `WebClient`, `MobileClient` | every hook of the two clients: what it caches and what its callbacks do |
| `ApiFacts` | what each request changes behind the cached answers, from the backend's handlers |
| `MC...` | definitions TLC needs to instantiate a module |
| `...Proofs` | the theorems about a module, with their proofs |

The five backend modules share a convention. A request is a process; one step ends
where the code waits for a lock or where a statement becomes visible to others, and
what a transaction wrote appears at its commit, where its locks are released.
PostgreSQL runs at READ COMMITTED (the server's default, which no code here changes
for these paths), so a statement sees what was committed when it began. In the
client modules a step ends at an `await`, at a callback of the query library, or at
a request's arrival and its answer's.

### WatchState

`um` is the row of `user_media`; `hist` counts the rows of `watch_history` per
episode, `Title` (0) standing for the title as a whole; `plans` is
`episode_plans`; `lock` and `stateLock` are the advisory and row locks; `pc`, `job`
and `pend` are the request's place, what it was asked and the row it has read or
written uncommitted. `Begin...` actions are the handlers up to their first lock, early
returns included. `CreateTracking`, `UpdateTracking`, `DeleteTracking`,
`EnsureTracking`, `RecordWatch`, `RemoveWatch` and `InsertPlan` are the writes;
`ReadForPromotion`/`Promote` and `ReadForDemotion`/`Demote` are the two halves of
the statements of `completion.rs`, which read a snapshot and write after waiting
for the row. `PlansAfter` is the trigger on `watch_history`. Requests of the
import take the same locks.

Abstractions: time is a number of days and a request fixes today's date when it
begins; an air date is a day (`Aired` is `episode_has_aired` for a broadcast
show, the rule for streaming titles differs by hours); rewatching a whole show is
modelled without its demand that the show have a regular season; an import has at
most one viewing per target; catalogue rows do not change during a behaviour. The
dates an import brings are any of `ExportDays`, those to come included: the importer
stores what the export says (`services/importer.rs:352`, `:388`).

### AuthSessions

Tokens are numbered in minting order; a family is named by its first token. Every
transaction that issues a refresh token mints one access token with it, so an
account-wide cut-off (`not_before`) is the next number. `acct` is the lock mode
each request has on the `users` row, with PostgreSQL's conflict table; `tlock` the row
locks on tokens. Statements that change several rows take a snapshot (`Scan`) and
write later (`Apply`), so a row inserted in between is missed, as it is in the
database. `Revoke` writes `cache` before `Commit` writes `table`; `Abort` undoes only
the transaction. `Restart` empties the cache and loads it from the table; `Prune` and
`RetentionSweep` are the two cleanings; a tick is longer than the 60 s grace, so a
retry within it happens in the same tick.

Changing and resetting the password are one operation but for the row of the link,
which a reset locks before the account (`LockLink`); whoever cancels what is pending
waits for it (`Revoke`), and one who does so under a rotation's lock may have to lock
the account harder, to put out the address of its calendar feed. Failed sign-ins, the
second factor, the rows of e-mail changes and account deletion are left out; sign-in is
a single step up to the insertion of its token. A wait that cannot end is an `Abort`.

### ImportJobs

`free` is the semaphore, `req` a request's place while it holds a permit, `job` the
rows, `task` the spawned tasks, `library` how often an account's import was
committed. `overdue` is a history variable: tasks that passed six hours without a
write. A commit whose acknowledgement is lost is an `Import` followed by `Err`. A
failed row influences no decision, so its identity is used again.

### SocialGraph

`follows`, `blocks`, `asked` (notifications of a follow request) and `messages` are
the tables, of the last the number of rows for each sender, recipient and nonce, so
that storing one twice shows; `req` holds a request's operation, its two members, the visibility it
read (`seen`) and the place it has reached. `LockTarget` is the `SELECT ... FOR
SHARE` of the target, `LockFirst` and `LockSecond` are
`lock_social_relationship_writes`, `Decide` is what the handler checks under its
locks (`Allowed`), and `Follow` ... `Hide` are the commits. `update_profile` takes no
advisory lock: `LockProfile` is its UPDATE of the row, and its commit waits for the
`follows` rows other transactions have written.

Abstractions: the triggers of the migrations repeat the checks of the routes under
the same locks and add nothing to them, so one predicate stands for both; what
update_profile writes after its row lock appears at once; the key-share locks of
foreign-key checks are left out (see the deadlock hazard at `routes/users.rs:320`);
message rate, message capacity and the pruning of notifications are left out.

### Encryption

`listed` and `backup` are the two tables, `messages` the stored messages with what
the server knew when it took them; per device, `who` is its session, `stored` the
identities it keeps by account, `status` and `loaded` the encryption store, `job` the
one mutation it runs. A job keeps the account it began with (`acct`) and the session
its requests travel under (`as`), which differ once somebody else has signed in.
`StartSetup`, `StartRotate`, `StartRestore` and `Compose` begin a job; `Put`, `Ask`,
`Publish`, `Rewrap`, `ReadBackup`, `ReadStatus`, `Unwrap`, `Save`, `Saved`, `Heard`,
`Rotated`, `Report` and `Deliver` are its steps; `Lose` is a request or answer
lost. `everListed`, `authorised` and `strayed` are history variables: what was ever
listed, what was published with the password, and what a session published for
another one's job.

Cryptography is ideal: an identity and a code are numbers, a backup opens with its
own code and no other. Left out: the older copy sealed with the password, devices
without storage, reading and verifying received messages, pinned peer keys (their
absence and their staleness are the arbitrary `box` of a composed message), franking.

### WebSession

`cookie`, `marker` (the pending sign-out in localStorage) and `before` (who comes
after whom in the browser's rotation lock) belong to the browser; `tab`, `main`,
`refresh` and `req` to each tab: its store, its hydration, sign-in or sign-out, its
`refreshPromise`, and one request through the response interceptor. The server's
part is `ServeRefresh`, `ServeMain` and `ServeRequest`; an access token is named by the
refresh token it came with. `Close` ends a tab with all it waited for and releases
its lock. `WebLocks` says whether the browser has that lock: without it
(`web/lib/api.ts:119`) a tab sends its cookie at once. Left out: sign-out everywhere and
the change of password, which end the session the way a sign-out does.

### MobileSession

Every exported function of `session.ts` is a job whose awaits are its steps (`pc`,
`job`); `gen` is the session generation, `credQ` and `revQ` the two promise chains,
`disk`, `cached` and `pending` the keychain, `volatile` the token kept in memory only,
`api` one call through `apiRequest`. Any keychain call may fail, and the two removals
that are awaited together may both fail (`MaxFaults` counts the steps in which the
keychain fails); the process may be killed at any step (`Crash`). A call whose own
write is refused empties the keychain if it is still current, and after that has been
awaited clears the store without asking again (`Unwritten`, `Unkept`). `owed`,
`forgotten` and `left` are history variables: tokens to be revoked, those dropped, sessions signed out of.

### ClientCache and the tables

One behaviour is about one client and one view (`subject`), possibly with one or two
writes: the entries of the cache do not influence each other, except through
writes, so each view is checked against everything that can happen to it. `query` is
the entry as TanStack Query keeps it, `place` the screen in front, the screens below
it and the dialog, `job` the writes in flight, `stream` the event stream. `server` is
the version of the rows behind the view; `due` and `news` are history variables: the
newest own write whose callback ran, and the newest change announced. `onMutate`
awaits `cancelQueries` before it writes ahead of the answer (`web/hooks/useNotifications.ts:126`);
the library settles that promise in the cancelling itself, so that no answer, notice,
timer or touch is handled in between, and `Submit` takes the two as one step.

`Table` says for each client which part of which screen shows and offers what
(`WebScreens`, `MobileScreens`: about sixty parts each), what each mutation's
callback invalidates, sets, drops or rolls back (`WebClient`, `MobileClient`), and
what each request changes on the server (`ApiFacts`). `NothingForgotten` compares the
last two: whatever a write makes out of date among the answers its client shows is
told to load again, but for the pairs listed in `WebGaps` and `MobileGaps`, which the
code leaves to time.

## Runs

| Run | Question | Bounds |
|---|---|---|
| `watch_plans` | two requests, cut off anywhere: are plans and viewings exclusive, the locks acyclic, and is every commit a step of `EpisodeShelf`? | one day, a regular episode and a special, 2 viewings, 1 plan |
| `watch_member` | can a sequence of one client's requests, over every route but the import, leave a stray completion date or a completed show unwatched, or trip the CHECK on dates in a way not known? | three days, a special that airs on the second |
| `watch_film` | is the history quota kept by all routes together, do dates trip their CHECK in the known ways only, and is every request answered? | a film, two days, exports that name either, room for one viewing, two requests, every route but PATCH |
| `auth_sessions` | do ended sessions stay ended and refused, does the cache cover the table, is a late retry still recognised? | five requests, two at once, three tokens, three ticks |
| `import_jobs` | do permits add up, is there one task per account, is a completed import final, and does no account stay stuck? | two accounts, two jobs, two uploads, two permits |
| `social_graph` | do blocks sever, does turning public leave nobody pending, are messages between mutuals, can the locks deadlock? | three members, two requests, room for one pending request |
| `encryption` | is what a device keeps, restores and seals with the identity listed, and are keys replaced with the password only? | two people, a browser that changes hands and a phone, three identities or codes, one message |
| `recovery_code` | (violated) is the recovery code of a first set-up shown? | as `encryption` |
| `web_session` | does a sign-out stay, do tabs never look like a thief, does no page hang? | a browser with Web Locks, two tabs, three tokens, two page loads, one lost answer, one request |
| `mobile_session` | does the phone keep the session it shows, and no other? | two people, two jobs at once, two tokens, four generations, one step in which the keychain fails |
| `mobile_sign_out` | is every revocation delivered or remembered, over kills and failures? | one person, two tokens, three generations, a list of one, one kill, one step in which the keychain fails |
| `client_cache` | does every view of both clients show its own writes, announced news and polled changes? | every view alone, and ten views with the writes that change them; two changes of the rows, two requests in flight |

Every property of a passing run has a mutant in `PROJECT.json`: a plausible bug in
one definition, defined beside it, under which TLC finds the property violated.

### Why the bounds are enough

The conflicts of the backend are between two requests: all locks are exclusive per
member or per pair, and the statements outside the locks race with one other
statement. Two requests give every pair of operations every interleaving. Quotas
are 1 or 2 so that the limit is reached by one request and contested by two. Two
episodes separate "this episode", "another one" and, with a special, "one that does
not count towards completion"; three days let an air date, a start and a completion
differ. `MaxTokens` = 3 gives a session, its successor and a second session. In
`ImportJobs`, `MaxCopies` = 2 stops telling further copies apart. In `SocialGraph`
members 1 and 2 act towards 3 and 3 towards 1, which gives mutual pairs, two
followers of one member, and both orders of ids. `watch_plans` and `watch_film` split
the operations: a title with episodes and without. `ErrorExplained` is checked twice: on a show, where promotions complete it without a start (`watch_member`
reaches `Unstarted`), and on a film, with overlapping requests and exports that look
ahead (`watch_film` reaches `StartedSince` and `Foretold`); the two at once, and PATCH
overlapping, are left to the proof, `ErrorsExplained`. `TypeOK` of `WatchState` is
proved for every instance and no run repeats it. `CanDrop`, `CanFail` and
`SlowTasks` switch the faults on; the runs that do without them check questions the
faults would only make larger.

In `Encryption` three numbers make a set-up, a re-sealing and a replacement, and a
browser with two sessions gives a job its successor's session to end in; its
properties are proved for any numbers. `WebSession`'s tabs are alike, so two show
what one does to another; one loss and two loads give a lost answer with a tab
closed and opened again; the safety properties are proved without bounds. The same
instance with `WebLocks = FALSE` satisfies the other three properties too, and violates
`AlarmNeedsALoss` in a few steps: without the lock two tabs send one cookie. In
`MobileSession` two jobs are a call and the one that overtakes it, two tokens a
session and its successor or another account's, and a list of one is full at the
second revocation; its safety properties are proved for any numbers. In `ClientCache`
two versions tell an old answer from a new one; the proofs cover any number of
versions and requests, so that the run spends its states on the two clients' tables.

`MaxDay`, `ExportDays` (the days an export may name), `MaxHistory` (the quota itself),
`MaxTokens`, `MaxNow`, `MaxRequests`,
`MaxLoads`, `MaxLost`, `MaxMade`, `MaxSessions`, `MaxMessages`, `MaxGen`, `MaxCrashes`,
`MaxFaults`, `MaxSlots` and `MaxServer` are the only caps on counters; `MaxPending` is
the code's own.

## Fairness

`WatchState`: strong fairness of each request's own steps. PostgreSQL queues the
waiters of a lock in the order they asked, so a request that is granted its lock
again and again takes it; nothing makes a client send a request, and
`EveryRequestAnswered` says only that a request that was sent ends.

`ImportJobs`: weak fairness of started tasks and handlers (the runtime polls them),
of the restart of a stopped process (the container's restart policy) and of time
passing; strong fairness of a member's retries, and of the release of stale jobs
within them. `NoImportStuck` needs both: a row left behind by a lost write is given
up by its owner's next attempt, as the comment at `services/importer.rs:572` says,
and by nothing else while the process stays up.

`WebSession`: weak fairness of a tab taking the lock it is first in line for (the
browser hands it on), of the server answering and of the answer arriving or timing
out. Nobody has to click, load or close anything for `LoadingEnds`.

`MobileSession` (`mobile_sign_out` only): the user opens the app and brings it to the
front again and again, the revocation chain runs, and of a revocation that is sent
again and again one is answered.

`ClientCache`: the interval of a polled query comes round while a screen shows it,
and a load that is tried again and again gets through. Settling of writes, screens
and signals are not assumed fair: `ShownCatchesUp` says that polling needs none of
them.

## Findings

One disagreement between the code and what it says of itself is kept as a violation
run, with the quoted line in `PROJECT.json`. `recovery_code`: the code of a first
set-up is handed to a form that its own mutation's first callback has unmounted, so
the member never sees it (web and mobile alike), though the comment says it is shown
exactly once.

Others were met while modelling and follow from the models as they stand.

Backend:
- The reuse branch deletes the account's tokens under the lock mode that rotations
  share (`services/auth.rs:395`): the successor a concurrent rotation is about to
  insert survives the detected theft.
- The comment at `services/auth.rs:341-345` says that a rotation locks the account
  before the token, "the same order the revocations use, so the two cannot deadlock".
  It is not the order of all: `reset_password` (`:724`) locks its link before the
  account, while the detection of reuse (`:403`) has the account and asks for the link;
  `revoke_session` (`:1883`) locks tokens and then, by a foreign key, the account; and
  rotations, which share the account, cap and prune one another's rows (`:465`, `:513`).
  TLC reaches each of these circles in the instance of `auth_sessions`. PostgreSQL ends one of the transactions with an error:
  a reset or a detected theft may be answered 500 and rolled back, and has to be tried
  again. `TheTwoCannotDeadlock` says for which requests the comment is true.
- A session whose newest token newer sign-ins have capped within the grace of its last
  rotation is dead to the sweeps, which remove the rows of its tokens consumed longer
  than `Keep` ago; the retry that the grace allows then renews it. Those tokens are
  still refused, but no longer recognised as reused; hence `ReplayHistoryKept` speaks of
  the step that removes a row and of the session as it is then.
- `services/revocation.rs:181` writes the cache inside a transaction that may roll
  back: the access tokens of a session that was not revoked stay refused until they
  expire.
- `services/importer.rs:226`: the rows of an import are committed before its outcome
  is recorded; if that write is lost, the account may import the same library again,
  which the comment at `routes/import.rs:392` excludes.
- `services/completion.rs:27-29`: a show promoted without a start date can be given
  one later than its completion by a legal request, which then fails on a CHECK.
- `routes/tracking.rs:219-221`: a POST that completes a title, begun before midnight
  and still waiting for its lock when a request of the next day starts the title,
  writes a completion older than the start and answers 500.
- `services/importer.rs:350-358`, `:388-412`: an import takes any date for the start of a
  title being watched, one to come included (`parse_dt`; `routes/import.rs:148` checks
  lengths only). A request that then completes the title before that day answers 500.
  `ErrorsExplained` proves that these three (`Unstarted`, `StartedSince`, `Foretold`) are
  the only ways to that CHECK.
- `services/completion.rs:23`: a promotion that read before an unmark and writes after
  its demotion leaves a completed show with an unwatched episode; hence
  `CompletedShowIsWatched` is checked for one client's sequence of requests.
- `routes/tracking.rs:474` inserts a title row whenever it inserted no episode row,
  but reserves room (`:446`) only for an empty catalogue: a show with a catalogue and
  nothing aired passes the history quota by one.
- `routes/history.rs:926` compares the air date with today's date where the bulk
  routes ask `episode_has_aired`: on its air date an episode can be marked alone before
  it counts as aired elsewhere.

Clients:
- An optimistic change that fails after a sign-out writes the former account's
  notifications into the cleared cache (`web/hooks/useNotifications.ts:136`,
  `mobile/hooks/use-notifications.ts:110`). `Current` therefore asks whose answer is shown.
- A write refused as too old is repeated with whatever session the refresh brings
  (`web/lib/api.ts:289`); the mobile client compares generations.
- A refused refresh of the event stream (`web/lib/events.ts:79`) closes the refresh
  circuit without ending the session: the tab shows a member whose requests all fail
  until it is reloaded.
- `mobile/lib/session.ts:193`: the Retry of a restore and the resumption of an offline
  session are two refreshes of one token; past the grace window the second ends every
  session of the account.
- A tab closed during its refresh and opened again after the grace window presents a
  spent token: the one way, with other lost answers, for `AlarmNeedsALoss` to allow an
  alarm.
- A set-up whose answer is lost, or whose identity cannot be saved, leaves keys listed
  of which nobody holds identity or code. A browser's derivation that ends after
  another account has signed in publishes the identity under that account
  (`strayed`), and its late callbacks set it in that account's store; `StoredIsListed`
  names the exception.
- `mobile/app/import-tvtime.tsx:77` invalidates a key no query uses, and the web
  client's import invalidates nothing; `markCalendar` leaves the watched episodes and
  the progress of its show to time (`web/hooks/useCalendar.ts:207`). These and the
  other pairs left to time are listed in `WebGaps` and `MobileGaps`.

## Proofs

TLAPS proves the following for every value of the constants, from the named
assumptions of each module (finite or non-empty sets, natural numbers, a retention
of revocations longer than the life of an access token, callbacks that invalidate
what they show ahead of an answer), which TLC evaluates in
every run.

- `WatchStateProofs`: `TypeCorrect`; `PlannedNeverWatched`; `Refinement` (`Spec =>
  Shelf!Spec`); `CompletedIsDated`; `NobodyWaitsForAll`; `QuotaNearlyKept` and
  `QuotaKept`. The exclusion is not inductive: it needs that a planner which has seen
  its episode unwatched holds the history lock until it commits (`HistoryLockHeld`), so
  nobody wrote the history since (`PlanStillValid`). Completion dates need that staged
  rows are dated too, that a running request knows its day and that an import brings a
  date exactly for what it calls completed (`DatesHold`). No requests wait for one
  another in a circle because whoever holds the last locks of the order does not wait
  (`LocksInPlace`: what each holds at each step, and that the calendar and the import
  reach the rows only with the tracking lock, so nobody else has one). The quota is what
  each request was granted under the history lock and what is still true of it when it
  inserts (`QuotaHolds`); it is passed, by one title row, only where a show has a
  catalogue and nothing aired (`NothingAired`) and the quota leaves no room for it at
  all: the case of `routes/tracking.rs:474` above.

  `ErrorsExplained`; `AloneNoError`; `AloneCompletes`; `AloneOutIsWatched`;
  `AloneCompleted`. They rest on what a step of a request can do to the row, the
  viewings and the request itself (`Shapes`: twelve outcomes, locks and plans left out).
  However requests overlap, every row recorded, held or brought is allowed and names no
  day but those that have come and those an export may name (`Sound`), which leaves a
  handler three ways to an internal error: a completed title without a start, one started
  after the transaction's day, and one an import has started on a day to come. The
  other four assume that the member's requests do not overlap (`[]OneAtATime`), which
  the code does not enforce: without it they are false, by the interleavings of
  `services/completion.rs:23` and `routes/tracking.rs:219` above. Then what is
  completed has been started (`AllBegun`: also the row a request holds, and a title
  about to be promoted); POST /history is excluded, because it leaves the row alone and
  may have a title promoted that was never started, and so are imports that name a day
  to come (`[]NothingForetold`). And the row, and the viewings a
  promotion has looked at, are still what the request read (`AllStillRead`), so a show
  becomes completed only with every aired episode watched, over any calendar; imports
  are excluded, they write what the export says. That it stays so (`AllSeen`) needs that
  no request is cut off between removing a viewing and reopening the show, and is said
  of the episodes out before the first day, or of all while none airs: the code reopens
  no show because an episode airs.
- `AuthSessionsProofs`: `TypeCorrect`; `CacheNeverBehind`; `EndedAreOver`;
  `HistoryStays`; `TheTwoCannotDeadlock`. The cache covers the table because each transaction about to commit a
  revocation has already put it there (`Ahead`), none is dated later than one made now
  (`NoFuture`), and a cut-off is carried only from its `Revoke` to its `Commit`. That an
  ended session is over rests on what each request may rely on at each of its steps
  (`EInv`): the lock on the account keeps rotations and endings apart, the row a
  rotation decided on is locked, an ending kills or has seen every row of what it claims
  and cuts off every token minted before, and a rotation overtaken by a revocation of
  its session commits under a verdict of this very moment. That no Commit removes the
  row of a consumed token rests on what its decision left behind (`HInv`): the rows it
  will remove were found unconsumed and stay locked against every other rotation, and a
  token is consumed only within its life, so one presented again within the grace is
  never taken for an expired one. `TheTwoCannotDeadlock` counts as held every row that
  a statement under way is going to change, and rests on `AllEmpty`: who has not been
  granted the account holds nothing but a link. Whoever keeps to that order and makes
  another wait is past the account, so that one with the account to itself waits for
  nobody of that order.
- `ImportJobsProofs`: `TypeCorrect`; `PermitsAddUp`; `NoTwoTasks`; `CompletedFinal`. One
  task per account follows from the partial unique index only with: a running task's
  row is unfinished until it is overdue, a row found stale belongs to an overdue task,
  and no task exists while the process is down.
- `SocialGraphProofs`: `TypeCorrect`; `BlocksSever`; `NobodyLeftPending`;
  `AskedArePending`; `MutualsOnly`; `NobodyDeadlocks`. What a request read (`ReadHolds`)
  and decided on (`DecisionHolds`) is still true when it commits, because a profile's
  update and a share of its row exclude each other (`RowExclusive`) and two requests
  never hold one member's social lock (`LocksExclusive`). In a circle of waiting
  requests one waits for a second social lock, whose holder waits for its own second
  lock, of a higher member still: the members being finitely many, some climb ends.
- `EncryptionProofs`: `TypeCorrect`; `PasswordReplaces`; `StoredIdentity`;
  `RestoredIdentity`; `MessagesAreSealed`. The invariant says what each job may rely on
  at each of its awaits (`JobHolds`): the identity it carries was listed for its
  account, or strayed, or has not been sent yet; what a directory ever listed only
  grows, so a box sealed with an old copy was still sealed to its owner.
- `WebSessionProofs`: `TypeCorrect`; `BarredShowsNobody`; `SignedOutStays`;
  `AlarmAfterALoss`. Types carry the link between a tab's status, its access token and
  its barrier (`TabInv`). That no spent token goes out needs, besides, that one tab at
  most is between the lock and the arrival of its answer (`LockInv`), and that the
  cookie, the token on its way and the tokens being brought are unspent and distinct
  while nothing was lost (`Unspent`). `AlarmAfterALoss` is about browsers with Web Locks
  only (`WebLocks`), the other theorems about all. `TheLockMovesOn` and `LoadingIsServed` are what
  `LoadingEnds` needs of safety. The tabs that wait for the lock stand behind one
  another in a strict order (`Line`: who waits is behind a busy tab, and behind whoever
  that one is behind), and tabs are finitely many, so one of them is first. A page that
  hydrates has its refresh in flight, and nothing fences that off (`AllDriven`): only a
  sign-in or a sign-out of the same tab would, and a page that is still loading offers
  neither.
- `ClientCacheProofs`: `TypeCorrect`; `NewsArrives`; `OwnWrites`, for any tables that
  satisfy `HooksAssumption` (what is shown ahead of an answer is always invalidated, an
  answer written over a view that others change too is followed by a load). The
  invariant says what an entry owes a version it was told of (`Owes`): it shows it, is
  marked out of date, or the older answer on its way is marked late; every operation
  of the query library either keeps that debt (`Follow`) or marks the entry
  (`Warned`). `OwnWrites` assumes `NothingForgotten`, which the run checks of the
  tables of both clients.

- `MobileSessionProofs`: `TypeCorrect`; `RevocationsAreKept`; `ShownIsStored`;
  `SignedOutStaysOut`; `AnswersStayHome`. All rest on `Types` (which step an operation
  may be at, that a new token is of the family sent, that only the head of the
  credential chain is past the lock). `SignedInIsStored` excepts one step: a call whose
  write of the token was refused has emptied the keychain, and clears the store next
  (`Giving`). It does so whatever has begun since, so a restore under way may be shown
  anonymous until it is answered (`Shows`); a sign-in begun then takes over from it
  (`Yields`). A revocation is not lost because only the first
  task of the chain is at work, and a token is taken off the list only when it is worth
  nothing any more (`Queued`). The other three rest on `Turns`: at most one call
  is of the current generation, and the status on screen says which operation it is. To
  that `Kept` adds what a sign-in on screen may rely on (both places a token may be are
  of its family, for a failed write uncovers the other one) and what the call between
  its two writes knows; `StaysOut` that whatever is stored or held by the current call
  is of no session left, and that while one call empties the keychain no other one of
  its generation is past its own place in the chain; `Asked` that while a request of this
  generation is out, what is stored and what a refresh brings is of the account that
  asked. A transition to a new generation is what re-establishes them: it leaves nothing
  of the old one current.

Only model-checked: all liveness (out of the prover's reach; `TheLockMovesOn`,
`LoadingIsServed` and the three theorems on circles of waiting requests prove that no
state is stuck, and leave to TLC that the wait ends under fairness), and
`NothingForgotten`, a fact about the tables the run gives `ClientCache`.
`CompletedShowIsWatched` is a theorem under the conditions above only: a run with one
client has no others, and it does not hold of every instance. `NoInternalError` is proved
under its conditions and checked by no run, since the code breaks it without them.

## Not modelled

The parts of the inventory without a module.
- The login throttle, one-time tokens, second factors, lists, moderation and reports
  are one statement or one transaction under one row's lock: nothing interleaves
  within them, and what they promise is that statement.
- Release notifications run one at a time under the job lock. A crash between the
  provider's acceptance and the row's update sends twice, which no order of the two
  avoids.
- Catalogue, media cache and storage are two stores changed one after the other by
  one run at a time; a failure in between costs a picture or a repeated fetch.
- Parsing of archives and provider answers, SQL over windows of time (badges,
  statistics), rendering and operations scripts are data or wording, not control.
- In the modelled parts: what a password or a second factor must match, reading and
  verifying received messages, pinned peer keys, franking, the mobile client's web
  build, sign-out everywhere on the web, and whatever is listed under a module's
  abstractions above.
