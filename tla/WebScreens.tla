----------------------------- MODULE WebScreens ------------------------------
(* The web client's pages and the components they mount, as far as they show  *)
(* cached answers and send writes.                                            *)
EXTENDS Screens

----------------------------------------------------------------------------
(* On every page while signed in.                                             *)
Navbar == Dialog("everywhere", "always", {"noticeSummary", "messageSummary", "calendarSummary"}, {}, {})
NavbarNotices == Dialog("everywhere", "notices", {},
                        {ButtonOn("readNotice", {"noticeSummary"}, {}), Single("readAllNotices")}, {})
MobileTabBar == Page("everywhere", {"calendarSummary"}, {}, {})
TermsAcceptanceGate == Page("everywhere", {}, {Single("acceptTerms")}, {})

----------------------------------------------------------------------------
(* Home.                                                                      *)
Dashboard == Page("home", {"discovery", "stats", "activity", "tracking"},
                  {ButtonOn("dismiss", {"discovery"}, {})}, {"discovery"})
UpNextEpisodes == Page("home", {"calendar"}, {}, {"calendar"})

\* The two buttons of a row are off while either is pending for its episode.
UpNextRow == Page("home", {}, {ButtonOn(w, {"calendar"}, {"setPlanned", "markCalendar"}) :
                                 w \in {"setPlanned", "markCalendar"}}, {})
MediaCard(at) == Page(at, {}, {Single("createTracking")}, {})

----------------------------------------------------------------------------
(* Titles and episodes.                                                       *)
MediaDetailHeader ==
    Page("media", {"media", "tracking"},
         {Single("createTracking"), Button("rewatchShow", {"rewatchShow", "rewatchMovie"}),
          Button("rewatchMovie", {"rewatchShow", "rewatchMovie"})}, {})

BulkWatch == {"markSeason", "markThrough"}

MediaDetailSeasons ==
    Page("media", {"seasons", "episodes", "watchedEpisodes", "showProgress"},
         {Button("rewatchSeason", BulkWatch \cup {"rewatchSeason"}),
          Button("markEpisode", BulkWatch \cup {"markEpisode", "unmarkEpisode"})}, {})

WatchConfirmation ==
    Held("media", "confirm", {},
           Buttons({"markEpisode", "markThrough", "unmarkEpisode", "markSeason"},
                   BulkWatch \cup {"markEpisode", "unmarkEpisode"}), {})

AddToListDialog == Held("media", "lists", {"myLists"},
                          {ButtonOn("addListItem", {"myLists"}, {"addListItem"})}, {"myLists"})
CommunityRating == Page("media", {"communityRating"}, {}, {})
WatchProviders == Page("media", {"watchProviders"}, {}, {})

EpisodeDetail ==
    Page("episode", {"episode"},
         {ButtonOn("setPlanned", {"episode"}, {"setPlanned"}),
          ButtonOn("markCalendar", {"episode"}, {"markCalendar"})}, {"episode"})
EpisodeReactions == Page("episode", {}, {ButtonOn("setReaction", {"episode"}, {"setReaction"})}, {})

----------------------------------------------------------------------------
(* Calendar, library, search.                                                 *)
CalendarPage ==
    Page("calendar", {"calendarSummary", "calendar", "preferences"},
         {ButtonOn("updatePreferences", {"preferences"}, {"updatePreferences"})}, {"calendar"})
CalendarRows == Page("calendar", {}, {ButtonOn(w, {"calendar"}, {"setPlanned", "markCalendar"}) :
                                        w \in {"setPlanned", "markCalendar"}}, {})

\* Neither the status menu, the star nor the bin waits for anything.
TrackingPage == Page("tracking", {"tracking"},
                     {ButtonOn(w, {"tracking"}, {}) : w \in {"updateTracking", "deleteTracking"}},
                     {"tracking"})
TrackingFeedbackDialog == Held("tracking", "feedback", {}, {Single("updateTracking")}, {})

SearchPage == Page("search", {"search", "tracking", "userSearch"}, {}, {})
UserSearchResults == Page("search", {},
                          {ButtonOn(w, {"userSearch"}, {"follow", "unfollow"}) :
                             w \in {"follow", "unfollow"}}, {})

----------------------------------------------------------------------------
(* Lists.                                                                     *)
ListsPage == Page("lists", {"myLists"}, {ButtonOn("deleteList", {"myLists"}, {"deleteList"})}, {"myLists"})
ListEditorDialog(at) == Held(at, "editor", {},
                               IF at = "lists" THEN {Single("createList"), Single("updateList")}
                               ELSE {Single("updateList")}, {})
ListDetailPage == Page("list", {"list"},
                       {ButtonOn(w, {"list"}, {w}) : w \in {"deleteList", "removeListItem"}}, {"list"})
AddFromLibrary == Page("list", {"tracking"},
                       {ButtonOn("addListItem", {"tracking"}, {"addListItem"})}, {})

----------------------------------------------------------------------------
(* People.                                                                    *)
ProfilePage ==
    Page("profile", {"user", "userActivity"},
         {ButtonOn(w, {"user"}, {"follow", "unfollow"}) : w \in {"follow", "unfollow"}}
         \cup {ButtonOn("block", {"user"}, {"block"})}, {})
BadgeShelf == Page("profile", {"badges"}, {}, {})
ConnectionsDialog == Dialog("profile", "connections", {"connections"}, {}, {"connections"})
ReportDialog(at) == Held(at, "report", {}, {Single("report")}, {})

NotificationsPage ==
    Page("notifications", {"notifications", "noticeSummary"}, {Single("readAllNotices")}, {})
NotificationList ==
    Page("notifications", {}, {ButtonOn("readNotice", {"notifications"}, {})}, {})

\* The newest unread message is reported read as soon as it is shown, unless
\* a report is pending.
Conversation == Page("messages", {"conversations", "thread", "peerKeys"},
                     {ButtonOn("readThread", {"thread"}, {"readThread"})}, {})
Composer == Page("messages", {}, {Single("sendMessage")}, {})

ModerationPage == Page("moderation", {"moderation"}, {}, {"moderation"})
ReportCard == Page("moderation", {}, {ButtonOn("moderate", {"moderation"}, {"moderate"})}, {})

----------------------------------------------------------------------------
(* Numbers.                                                                   *)
StatsPage == Page("stats", {"stats"}, {}, {})
WrappedPage == Page("wrapped", {"stats"}, {}, {})

----------------------------------------------------------------------------
(* Settings.                                                                  *)
ModerationCard == Page("settings", {"moderatorStatus"}, {}, {})
PrivacyCard == Page("settings", {"me"}, {ButtonOn("updatePrivacy", {"me"}, {"updatePrivacy"})}, {})
FollowRequestsCard ==
    Page("settings", {"followRequests"},
         {ButtonOn(w, {"followRequests"}, {"acceptRequest", "rejectRequest"}) :
            w \in {"acceptRequest", "rejectRequest"}}, {})
ProfilePictureCard == Page("settings", {"me"}, {Single("uploadAvatar"), Single("deleteAvatar")}, {})
ImportCard == Page("settings", {"importJobs", "importJob"}, {Single("startImport")}, {})
ChangePasswordCard == Page("settings", {}, {Single("changePassword")}, {})
DangerZoneCard == Page("settings", {}, {Single("deleteAccount")}, {})
ChangeEmailCard == Page("settings", {}, {Single("changeEmail")}, {})
TwoFactorCard == Page("settings", {}, {Single("enableTwoFactor"), Single("disableTwoFactor")}, {})
SessionsCard == Page("settings", {"sessions"},
                     {ButtonOn("revokeSession", {"sessions"}, {"revokeSession"}), Single("logoutAll")}, {})
SecurityActivityCard == Page("settings", {"securityActivity"}, {}, {})
BlockedUsersCard == Page("settings", {"blocks"}, {ButtonOn("unblock", {"blocks"}, {"unblock"})}, {"blocks"})

\* A feed whose status is still loading looks like one that is off.
CalendarFeedCard == Page("settings", {"calendarFeed"},
                         {Single("enableFeed"), ButtonOn("disableFeed", {"calendarFeed"}, {"disableFeed"})}, {})
EncryptionSettingsCard == Page("settings", {"keyBackup"},
                               {ButtonOn("rotateRecovery", {"keyStatus"}, {"rotateRecovery"})}, {})
EncryptionSession == Page("everywhere", {"keyStatus"}, {}, {})
EncryptionGate(at) == Page(at, {"keyBackup"}, Rows({"setupKeys"}, "keyStatus", {"setupKeys"})
                                              \cup Rows({"restoreKeys"}, "keyStatus", {"restoreKeys"}), {})

----------------------------------------------------------------------------
WebParts ==
    {Navbar, NavbarNotices, MobileTabBar, TermsAcceptanceGate,
     Dashboard, UpNextEpisodes, UpNextRow, MediaCard("home"), MediaCard("search"),
     MediaDetailHeader, MediaDetailSeasons, WatchConfirmation, AddToListDialog,
     CommunityRating, WatchProviders, EpisodeDetail, EpisodeReactions,
     CalendarPage, CalendarRows, TrackingPage, TrackingFeedbackDialog,
     SearchPage, UserSearchResults,
     ListsPage, ListEditorDialog("lists"), ListDetailPage, ListEditorDialog("list"), AddFromLibrary,
     ProfilePage, BadgeShelf, ConnectionsDialog, ReportDialog("profile"), ReportDialog("list"),
     ReportDialog("messages"), NotificationsPage, NotificationList, Conversation, Composer,
     ModerationPage, ReportCard, StatsPage, WrappedPage,
     ModerationCard, PrivacyCard, FollowRequestsCard, ProfilePictureCard, ImportCard,
     ChangeEmailCard, ChangePasswordCard, DangerZoneCard, TwoFactorCard, SessionsCard, SecurityActivityCard, BlockedUsersCard,
     CalendarFeedCard, EncryptionSettingsCard, EncryptionSession, EncryptionGate("settings"), EncryptionGate("messages")}
=============================================================================
