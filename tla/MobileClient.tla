----------------------------- MODULE MobileClient -----------------------------
(* What the mobile client's hooks do to its cached answers: with the screens  *)
(* of MobileScreens, the table ClientCache runs on.                           *)
EXTENDS ApiFacts

----------------------------------------------------------------------------
(* Hooks: the answers they cache, by the key they cache them under.           *)
TrackingQueries == {"tracking"}
WatchQueries == {"watchedEpisodes", "showProgress"}
CalendarQueries == {"calendar", "calendarSummary"}
PreferenceQueries == {"preferences", "calendarFeed"}
HistoryQueries == {"history"}
MediaQueries == {"search", "discovery", "media", "watchProviders", "communityRating",
                 "seasons", "episodes", "episode"}
PeopleQueries == {"activity", "userSearch", "user", "userActivity", "followRequests", "connections"}
BlockQueries == {"blocks"}
NoticeQueries == Notices
MessageQueries == {"messageSummary", "conversations", "thread"}
ListQueries == {"myLists", "list"}
NumberQueries == {"stats"}
BadgeQueries == {"badges"}
ImportQueries == {"importJobs", "importJob"}
SecurityQueries == {"sessions", "securityActivity"}
KeyQueries == {"keyStatus", "peerKeys"}
BackupQueries == {"keyBackup"}
MobileQueries ==
    UNION {TrackingQueries, WatchQueries, CalendarQueries, PreferenceQueries, HistoryQueries, MediaQueries,
           PeopleQueries, BlockQueries, NoticeQueries, MessageQueries, ListQueries, NumberQueries,
           BadgeQueries, ImportQueries, SecurityQueries, KeyQueries, BackupQueries}

----------------------------------------------------------------------------
(* The answers a write's callback invalidates.  "social", "messages", "lists" *)
(* and "calendar" are roots of the keys below them.                           *)
CalendarViews == {"calendar", "calendarSummary", "preferences", "calendarFeed"}
SocialViews == {"user", "userSearch", "activity", "userActivity", "connections", "followRequests"}
MessageViews == {"thread", "conversations", "messageSummary"}
ListViews == {"myLists", "list"}

\* use-tracking: the list for a viewing, and the one for a change of status,
\* which is told about every show.
WatchStateViews ==
    CalendarViews \cup {"watchedEpisodes", "showProgress", "tracking", "stats", "discovery"}
TrackingStateViews == WatchStateViews

FollowTracking(w) ==
    IF w \in {"createTracking", "updateTracking", "deleteTracking"} THEN TrackingStateViews ELSE {}

FollowWatching_CalendarLeft(w) ==
    IF w \in {"markEpisode", "markSeason", "markThrough", "rewatchSeason", "rewatchShow", "rewatchMovie"}
    THEN WatchStateViews \ CalendarViews ELSE {}

FollowWatching(w) ==
    IF w \in {"markEpisode", "markSeason", "markThrough", "rewatchSeason", "rewatchShow", "rewatchMovie"}
    THEN WatchStateViews ELSE {}

FollowCalendar(w) ==
    CASE w = "setPlanned" -> CalendarViews \cup {"episode"}
      [] w = "markCalendar" -> WatchStateViews \cup {"episode"}
      [] w = "updatePreferences" -> CalendarViews
      [] OTHER -> {}

FollowHistory(w) ==
    IF w \in {"createHistory", "deleteHistory"}
    THEN CalendarViews \cup SocialViews
         \cup {"history", "stats", "tracking", "watchedEpisodes", "showProgress"}
    ELSE {}

FollowMedia(w) ==
    CASE w = "dismiss" -> {"discovery"}
      [] w = "setReaction" -> {"episode"}
      [] OTHER -> {}

FollowPeople(w) ==
    IF w \in {"follow", "unfollow", "acceptRequest", "rejectRequest"}
    THEN SocialViews \cup MessageViews \cup Notices ELSE {}

FollowSafety(w) ==
    IF w \in {"block", "unblock"}
    THEN {"blocks"} \cup SocialViews \cup MessageViews \cup Notices \cup ListViews ELSE {}

\* Reading a notification is shown ahead of the answer, taken back when it
\* fails, and loaded again either way.
FollowNotices(w) == IF w \in {"readNotice", "readAllNotices"} THEN Notices ELSE {}

FollowMessages(w) == IF w \in {"sendMessage", "readThread"} THEN MessageViews ELSE {}

FollowLists(w) ==
    CASE w \in {"createList", "deleteList"} -> {"myLists"}
      [] w \in {"updateList", "addListItem", "removeListItem"} -> ListViews
      [] OTHER -> {}

DropLists(w) == IF w = "deleteList" THEN {"list"} ELSE {}

FollowImport(w) == IF w = "startImport" THEN {"importJobs", "importJob"} ELSE {}

\* The account itself is in a store of its own.
FollowAccount(w) ==
    CASE w \in {"enableTwoFactor", "disableTwoFactor", "changeEmail", "exportData"} -> {"securityActivity"}
      [] w = "revokeSession" -> {"sessions", "securityActivity"}
      [] OTHER -> {}

FollowKeys(w) ==
    CASE w \in {"setupKeys", "restoreKeys"} -> {"keyStatus"}
      [] w = "rotateRecovery" -> {"keyBackup"}
      [] OTHER -> {}

MobileFollows(w) ==
    UNION {FollowTracking(w), FollowWatching(w), FollowCalendar(w), FollowHistory(w), FollowMedia(w),
           FollowPeople(w), FollowSafety(w), FollowNotices(w), FollowMessages(w), FollowLists(w),
           FollowImport(w), FollowAccount(w), FollowKeys(w)}

\* Answers written from the answer of the write itself.
MobileSets(w) ==
    CASE w = "updatePreferences" -> {"preferences"}
      [] w \in {"enableFeed", "disableFeed"} -> {"calendarFeed"}
      [] OTHER -> {}

\* Told on failure too: onSettled instead of onSuccess.
SettlePlans(w) == IF w = "setPlanned" THEN CalendarViews \cup {"episode"} ELSE {}
MobileAlways(w) == SettlePlans(w) \cup FollowNotices(w)

\* Queries that are asked for again at an interval while a screen shows them.
MobilePolled == {"calendarSummary", "noticeSummary", "importJob"} \cup MessageViews

\* What the event stream's two kinds of event, and a resync, invalidate.
MobileAnnounced == Notices \cup MessageViews

\* Queries that hand the abort signal on, and are given up when the last
\* screen that shows them goes.
MobileAbortable == MessageViews \cup {"connections"}

\* Answers kept on the device.
MobilePersisted ==
    CalendarViews \cup {"discovery", "episode", "episodes", "media", "seasons", "showProgress",
                        "tracking", "watchedEpisodes"}

\* What the callbacks above leave out of what the writes change: known, and
\* left to staleTime and to pulling the list down.
Viewing == {"createTracking", "updateTracking", "markEpisode", "markSeason", "markThrough",
            "rewatchSeason", "rewatchShow", "rewatchMovie", "markCalendar"}

MobileGaps ==
    (Viewing \X {"history", "activity", "userActivity", "badges"})
    \cup ((Viewing \ {"markCalendar"}) \X {"episode"})
    \cup ({"createHistory", "deleteHistory"} \X {"episode", "badges", "discovery"})
    \cup ({"updateTracking", "deleteTracking"} \X {"communityRating"})
    \cup {<<"deleteTracking", "episode">>, <<"updatePreferences", "watchProviders">>}
    \cup ({"updateProfile"} \X {"user", "userSearch", "connections", "followRequests", "thread", "conversations"})
    \cup ({"uploadAvatar", "deleteAvatar"} \X {"user", "userSearch"})
    \cup ({"setupKeys", "rotateRecovery"} \X {"securityActivity"})
    \cup {<<"setupKeys", "keyBackup">>}
=============================================================================
