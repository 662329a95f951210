------------------------------ MODULE WebClient ------------------------------
(* What the web client's hooks do to its cached answers, and which of its     *)
(* screens show an answer or offer a write: the tables ClientCache runs on.   *)
EXTENDS ApiFacts

----------------------------------------------------------------------------
(* Hooks: the answers they cache, by the key they cache them under.           *)
TrackingQueries == {"tracking"}
WatchQueries == {"watchedEpisodes", "showProgress"}
CalendarQueries == {"calendar", "calendarSummary", "preferences"}
FeedQueries == {"calendarFeed"}
MediaQueries == {"search", "discovery", "media", "watchProviders", "communityRating",
                 "seasons", "episodes", "episode"}
PeopleQueries == {"user", "userActivity", "activity", "userSearch"}
ConnectionQueries == {"connections", "followRequests"}
BlockQueries == {"blocks"}
NoticeQueries == Notices
MessageQueries == {"thread", "conversations", "messageSummary"}
ListQueries == {"myLists", "list"}
ReportQueries == {"moderatorStatus", "moderation"}
NumberQueries == {"stats"}
BadgeQueries == {"badges"}
ImportQueries == {"importJobs", "importJob"}
AccountQueries == {"me"}
SecurityQueries == {"sessions", "securityActivity"}
KeyQueries == {"keyStatus", "peerKeys"}
BackupQueries == {"keyBackup"}
WebQueries ==
    UNION {TrackingQueries, WatchQueries, CalendarQueries, FeedQueries, MediaQueries, PeopleQueries,
           ConnectionQueries, BlockQueries, NoticeQueries, MessageQueries, ListQueries, ReportQueries,
           NumberQueries, BadgeQueries, ImportQueries, AccountQueries, SecurityQueries, KeyQueries,
           BackupQueries}

----------------------------------------------------------------------------
(* The answers a write's callback invalidates.                                *)
CalendarViews == {"calendar", "calendarSummary", "preferences", "calendarFeed"}

\* useTracking: one list for a change of status, one for a viewing; they are
\* the same but for being about one show.
TrackingState == CalendarViews \cup {"tracking", "stats", "activity", "userActivity", "discovery"}
EpisodeWatchState == TrackingState \cup {"watchedEpisodes", "showProgress"}

FollowTracking(w) ==
    IF w \in {"createTracking", "updateTracking", "deleteTracking"} THEN EpisodeWatchState ELSE {}

FollowWatching(w) ==
    IF w \in {"markEpisode", "unmarkEpisode", "markSeason", "markThrough",
              "rewatchSeason", "rewatchShow", "rewatchMovie"}
    THEN EpisodeWatchState ELSE {}

FollowCalendar(w) ==
    CASE w = "setPlanned" -> CalendarViews \cup {"episode"}
      [] w = "markCalendar" -> TrackingState \cup {"episode"}
      [] w = "updatePreferences" -> CalendarViews
      [] OTHER -> {}

FollowMedia(w) ==
    CASE w = "dismiss" -> {"discovery"}
      [] w = "setReaction" -> {"episode"}
      [] OTHER -> {}

FollowFriends(w) == IF w \in {"follow", "unfollow"} THEN {"user", "userSearch", "activity"} ELSE {}

FollowRequests(w) ==
    IF w \in {"acceptRequest", "rejectRequest"} THEN {"followRequests", "user"} \cup Notices ELSE {}

\* The keys "followers" and "following" are no query's key.
FollowBlocks(w) ==
    CASE w = "block" -> {"blocks", "user", "userSearch", "activity", "userActivity",
                         "followRequests"} \cup Notices
      [] w = "unblock" -> {"blocks", "user", "userSearch"}
      [] OTHER -> {}

\* Reading a notification is shown ahead of the answer, taken back when it
\* fails, and loaded again either way.
FollowNotices(w) == IF w \in {"readNotice", "readAllNotices"} THEN Notices ELSE {}

FollowMessages(w) ==
    IF w \in {"sendMessage", "readThread"} THEN {"thread", "conversations", "messageSummary"} ELSE {}

FollowLists(w) ==
    CASE w \in {"createList", "deleteList"} -> {"myLists"}
      [] w \in {"updateList", "addListItem", "removeListItem"} -> {"myLists", "list"}
      [] OTHER -> {}

DropLists(w) == IF w = "deleteList" THEN {"list"} ELSE {}

FollowReports(w) == IF w = "moderate" THEN {"moderation", "moderatorStatus"} ELSE {}

FollowImport(w) == IF w = "startImport" THEN {"importJobs"} ELSE {}

FollowAccount(w) ==
    CASE w = "updatePrivacy" -> {"followRequests", "user"} \cup Notices
      [] w \in {"enableTwoFactor", "disableTwoFactor", "changeEmail"} -> {"securityActivity"}
      [] w = "revokeSession" -> {"sessions", "securityActivity"}
      [] w \in {"uploadAvatar", "deleteAvatar"} -> {"me"}
      [] OTHER -> {}

FollowKeys(w) ==
    CASE w \in {"setupKeys", "restoreKeys"} -> {"keyStatus"}
      [] w = "rotateRecovery" -> {"keyBackup"}
      [] OTHER -> {}

WebFollows(w) == UNION {FollowTracking(w), FollowWatching(w), FollowCalendar(w), FollowMedia(w),
                        FollowFriends(w), FollowRequests(w), FollowBlocks(w), FollowNotices(w), FollowMessages(w),
                        FollowLists(w), FollowReports(w), FollowImport(w), FollowAccount(w),
                        FollowKeys(w)}

\* Answers written from the answer of the write itself.
SetCalendar(w) ==
    CASE w = "updatePreferences" -> {"preferences"}
      [] w \in {"enableFeed", "disableFeed"} -> {"calendarFeed"}
      [] OTHER -> {}

SetAccount(w) ==
    IF w \in {"acceptTerms", "updatePrivacy", "enableTwoFactor", "disableTwoFactor"} THEN {"me"} ELSE {}

WebSets(w) == SetCalendar(w) \cup SetAccount(w)

\* Told on failure too: onSettled instead of onSuccess.
SettlePlans(w) == IF w = "setPlanned" THEN CalendarViews \cup {"episode"} ELSE {}
SettleNotices(w) == FollowNotices(w)
WebAlways(w) == SettlePlans(w) \cup SettleNotices(w)

\* Queries that are asked for again at an interval.
PollCalendar == {"calendarSummary"}
PollRequests == {"followRequests"}
PollNotices == {"noticeSummary"}
PollMessages == {"thread", "conversations", "messageSummary"}
WebPolled == PollCalendar \cup PollRequests \cup PollNotices \cup PollMessages

\* What the event stream's two kinds of event, and a resync, invalidate.
WebAnnounced == Notices \cup {"thread", "conversations", "messageSummary"}

\* What the callbacks above leave out of what the writes change: known, and
\* left to staleTime.
WebGaps ==
    {<<"markCalendar", v>> : v \in {"watchedEpisodes", "showProgress"}}
    \cup {<<w, "episode">> : w \in {"createTracking", "updateTracking", "deleteTracking",
             "markEpisode", "unmarkEpisode", "markSeason", "markThrough",
             "rewatchSeason", "rewatchShow", "rewatchMovie"}}
    \cup {<<w, "badges">> : w \in {"createTracking", "updateTracking",
             "markEpisode", "unmarkEpisode", "markSeason", "markThrough",
             "rewatchSeason", "rewatchShow", "rewatchMovie", "markCalendar"}}
    \cup {<<w, "communityRating">> : w \in {"updateTracking", "deleteTracking"}}
    \cup {<<"updatePreferences", "watchProviders">>}
    \cup {<<w, v>> : w \in {"follow", "unfollow"},
                     v \in {"connections", "thread", "conversations", "userActivity"}}
    \cup {<<"acceptRequest", v>> : v \in {"connections", "thread", "conversations", "userSearch"}}
    \cup {<<"block", v>> : v \in {"connections", "thread", "conversations"}}
    \cup {<<"unblock", v>> : v \in {"connections", "thread", "conversations"} \cup Notices}
    \cup {<<"updatePrivacy", v>> : v \in {"connections", "userSearch", "thread", "conversations"}}
    \cup {<<w, v>> : w \in {"uploadAvatar", "deleteAvatar"}, v \in {"user", "userSearch"}}
    \cup {<<w, "securityActivity">> : w \in {"setupKeys", "rotateRecovery"}}
    \cup {<<"setupKeys", "keyBackup">>}
=============================================================================
