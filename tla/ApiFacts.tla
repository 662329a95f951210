------------------------------- MODULE ApiFacts -------------------------------
(* What the server's answers depend on, and what its write routes change, by  *)
(* the kind of row: enough to say when an answer a client holds is out of     *)
(* date.  A view is an answer a client caches (or a family of them under one  *)
(* query key); a write is a request one of its mutations sends.               *)

\* Which rows the answer behind a view is computed from.
WatchRows(view) ==
    CASE view = "tracking" -> {"status", "rating"}
      [] view = "stats" -> {"status", "viewings"}
      [] view \in {"history", "watchedEpisodes", "showProgress"} -> {"viewings"}
      [] view \in {"calendar", "calendarSummary"} -> {"status", "viewings", "plans", "country"}
      [] view = "badges" -> {"viewings"}
      [] view = "discovery" -> {"status", "rating", "dismissed"}
      [] view = "episode" -> {"status", "viewings", "plans", "reaction"}
      [] view = "communityRating" -> {"rating"}
      [] view \in {"preferences", "watchProviders"} -> {"country"}
      [] view = "calendarFeed" -> {"feedLink"}
      [] view = "myLists" -> {"shelf", "lists"}
      [] view = "list" -> {"lists"}
      [] view = "importJobs" -> {"imports"}
      [] OTHER -> {}

\* The list of notifications and the count with the newest few.
Notices == {"notifications", "noticeSummary"}

PeopleRows(view) ==
    CASE view = "activity" -> {"viewings", "following"}
      [] view = "userActivity" -> {"viewings", "following"}
      [] view \in {"user", "userSearch"} -> {"following", "followers", "blocks", "profile"}
      [] view = "connections" -> {"following", "followers", "blocks"}
      [] view = "followRequests" -> {"requests"}
      [] view = "blocks" -> {"blocks"}
      [] view \in Notices -> {"notices", "blocks"}
      [] view \in {"thread", "conversations"} -> {"messages", "following", "followers", "blocks"}
      [] view = "messageSummary" -> {"messages"}
      [] view = "moderation" -> {"reports"}
      [] view = "me" -> {"profile", "account"}
      [] view = "sessions" -> {"sessions"}
      [] view = "securityActivity" -> {"securityLog"}
      [] view = "keyStatus" -> {"keys"}
      [] view = "keyBackup" -> {"keyBackup"}
      [] OTHER -> {}

Reads(view) == WatchRows(view) \cup PeopleRows(view)

\* Which rows a write changes.
TrackingWrites(w) ==
    CASE w = "createTracking" -> {"status", "viewings", "plans"}
      [] w = "updateTracking" -> {"status", "rating", "viewings", "plans"}
      [] w = "deleteTracking" -> {"status", "rating"}
      [] OTHER -> {}

\* Every way of recording a viewing, or of taking one back.
HistoryWrites(w) ==
    IF w \in {"markEpisode", "unmarkEpisode", "markSeason", "markThrough", "rewatchSeason",
              "rewatchShow", "rewatchMovie", "createHistory", "deleteHistory", "markCalendar"}
    THEN {"viewings", "status", "plans"} ELSE {}

OtherWrites(w) ==
    CASE w = "setPlanned" -> {"plans"}
      [] w = "updatePreferences" -> {"country"}
      [] w \in {"enableFeed", "disableFeed"} -> {"feedLink"}
      [] w = "setReaction" -> {"reaction"}
      [] w = "dismiss" -> {"dismissed"}
      [] w = "createList" -> {"shelf"}
      [] w \in {"updateList", "deleteList", "addListItem", "removeListItem"} -> {"lists"}
      [] w = "startImport" -> {"imports"}
      [] w \in {"follow", "unfollow"} -> {"following"}
      [] w = "acceptRequest" -> {"requests", "followers", "notices"}
      [] w = "rejectRequest" -> {"requests", "notices"}
      [] w = "block" -> {"blocks", "following", "followers", "requests", "notices"}
      [] w = "unblock" -> {"blocks"}
      [] w \in {"readNotice", "readAllNotices"} -> {"notices"}
      [] w \in {"sendMessage", "readThread"} -> {"messages"}
      [] w = "moderate" -> {"reports"}
      [] OTHER -> {}

\* The writes that end every session of the account.
EndWrites == {"changePassword", "logoutAll", "deleteAccount"}

AccountWrites(w) ==
    CASE w = "updatePrivacy" -> {"profile", "followers", "requests"}
      [] w = "updateProfile" -> {"profile", "followers", "requests"}
      [] w \in {"uploadAvatar", "deleteAvatar"} -> {"profile"}
      [] w = "acceptTerms" -> {"account"}
      [] w \in {"enableTwoFactor", "disableTwoFactor"} -> {"account", "securityLog"}
      [] w \in {"changeEmail", "exportData"} -> {"securityLog"}
      [] w \in EndWrites -> {"sessions", "securityLog"}
      [] w = "revokeSession" -> {"sessions", "securityLog"}
      [] w = "setupKeys" -> {"keys", "keyBackup", "securityLog"}
      [] w = "rotateRecovery" -> {"keyBackup", "securityLog"}
      [] OTHER -> {}

Changes(w) == TrackingWrites(w) \cup HistoryWrites(w) \cup OtherWrites(w) \cup AccountWrites(w)

\* What a write makes out of date.
OutOfDate(w, views) == {v \in views : Changes(w) \cap Reads(v) # {}}
=============================================================================
