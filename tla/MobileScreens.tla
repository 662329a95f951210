---------------------------- MODULE MobileScreens ----------------------------
(* The mobile client's screens and the components they mount, as far as they  *)
(* show cached answers and send writes.  A screen is left mounted below the   *)
(* one opened from it.                                                        *)
EXTENDS Screens

----------------------------------------------------------------------------
(* Home.                                                                      *)
TabsLayout == Page("everywhere", {"noticeSummary", "messageSummary"}, {}, {})

HomeScreen == PullPage("home", {"calendar", "stats", "discovery", "tracking", "noticeSummary"}, {})

\* A row's button is off while it is pending for that row's episode; the other
\* button of the row is not.
HomeUpNext == Page("home", {}, Rows({"setPlanned"}, "calendar", {"setPlanned"})
                               \cup Rows({"markCalendar"}, "calendar", {"markCalendar"}), {})
HomeShelves == Page("home", {}, Rows({"dismiss"}, "discovery", {}), {})

----------------------------------------------------------------------------
(* Titles and episodes.                                                       *)
MediaScreen == Page("media", {"media", "seasons", "tracking", "episodes", "watchedEpisodes", "showProgress"},
                    {}, {"media"})

\* Either choice of the question "only this one, or those before it too?" is
\* pressed after the list's own buttons were last looked at.
MediaChoices ==
    Page("media", {}, {Single("createTracking")} \cup Rows({"markThrough", "markSeason"}, "episodes", {}), {})
MediaHeader == Page("media", {}, Buttons({"rewatchShow", "rewatchMovie"}, {"rewatchShow", "rewatchMovie"}), {})
MediaSeasonHeader ==
    Page("media", {}, Rows({"rewatchSeason"}, "seasons", {"markSeason", "markThrough", "rewatchSeason"}), {"seasons"})
MediaEpisodes ==
    Page("media", {}, Rows({"markEpisode"}, "episodes", {"markEpisode", "markSeason", "markThrough"}), {"episodes"})
MediaFeedback == Held("media", "feedback", {}, Rows({"updateTracking"}, "tracking", {"updateTracking"}), {})
AddToListSheet == Dialog("media", "lists", {"myLists"}, Rows({"addListItem"}, "myLists", {"addListItem"}), {"myLists"})
CommunityRating == Page("media", {"communityRating"}, {}, {})
WatchProviders == Page("media", {"watchProviders"}, {}, {})

EpisodeScreen ==
    Page("episode", {"episode"}, {ButtonOn(w, {"episode"}, {w}) : w \in {"setPlanned", "markCalendar"}}, {"episode"})
EpisodeReactions == Page("episode", {}, Rows({"setReaction"}, "episode", {"setReaction"}), {})

----------------------------------------------------------------------------
(* Calendar, library, search, history.                                        *)
CalendarScreen == PullPage("calendar", {"calendar", "calendarSummary"}, {})
CalendarRows ==
    Page("calendar", {}, Rows({"setPlanned"}, "calendar", {"setPlanned"})
                         \cup Rows({"markCalendar"}, "calendar", {"markCalendar"}), {})

LibraryScreen == PullPage("library", {"tracking"}, Rows({"deleteTracking"}, "tracking", {}))
LibraryMenu == Dialog("library", "menu", {}, Rows({"updateTracking"}, "tracking", {}), {})
FeedbackSheet == Held("library", "feedback", {}, Rows({"updateTracking"}, "tracking", {"updateTracking"}), {})

\* KeyedTaskGate: one addition of a title at a time.
SearchScreen == PullPage("search", {"search", "tracking"}, {Single("createTracking")})

HistoryScreen == PullPage("history", {"history"}, Rows({"deleteHistory"}, "history", {"deleteHistory"}))
HistoryPicker == Held("history", "picker", {"tracking"}, Rows({"createHistory"}, "tracking", {"createHistory"}),
                        {"tracking"})

----------------------------------------------------------------------------
(* Lists.                                                                     *)
ListsScreen == PullPage("lists", {"myLists"}, Rows({"deleteList"}, "myLists", {"deleteList"}))
ListsEditor == Held("lists", "editor", {}, {Single("createList"), Single("updateList")}, {})
ListScreen == PullPage("list", {"list"}, {ButtonOn(w, {"list"}, {w}) : w \in {"deleteList", "removeListItem"}})
ListEditorSheet == Held("list", "editor", {}, Rows({"updateList"}, "list", {"updateList"}), {})

----------------------------------------------------------------------------
(* People.                                                                    *)
SocialScreen ==
    Page("social", {"activity", "userSearch", "followRequests", "connections"},
         {Single("follow"), Single("unfollow")}, {})
SocialTabs ==
    Page("social", {}, Rows({"acceptRequest"}, "followRequests", {"acceptRequest"})
                       \cup Rows({"rejectRequest"}, "followRequests", {"rejectRequest"})
                       \cup Rows({"unfollow"}, "connections", {"unfollow"}),
         {"activity", "userSearch", "followRequests", "connections"})

PersonScreen ==
    Page("person", {"user", "userActivity"},
         Rows({"follow", "unfollow", "block"}, "user", {"follow", "unfollow", "block"}), {"user", "userActivity"})
ConnectionsScreen == PullPage("connections", {"connections"}, {})
ReportSheet(at) == Held(at, "report", {}, {Single("report")}, {})

\* Pressing a row that is unread reads it.
NotificationsScreen ==
    PullPage("notifications", {"notifications", "noticeSummary"},
             {Single("readAllNotices"), ButtonOn("readNotice", {"notifications"}, {})})

MessagesScreen == PullPage("messages", {"conversations", "messageSummary"}, {})

\* The newest unread message is reported read as soon as it is shown, once,
\* unless a report is pending.
ThreadScreen == Page("thread", {"thread", "peerKeys"}, Rows({"readThread"}, "thread", {"readThread"}), {"thread"})
Composer == Page("thread", {}, Rows({"sendMessage"}, "thread", {"sendMessage"}), {})

----------------------------------------------------------------------------
(* Numbers, the profile, imports.                                             *)
StatisticsScreen == PullPage("statistics", {"stats"}, {})
WrappedScreen == PullPage("wrapped", {"stats"}, {})
ProfileScreen == Page("profile", {"stats", "noticeSummary", "messageSummary"}, {}, {})
BadgeShelf == Page("profile", {"badges"}, {}, {})
ImportScreen == Page("import", {"importJobs", "importJob"}, {Single("startImport")}, {"importJobs"})

----------------------------------------------------------------------------
(* Settings.                                                                  *)
SettingsScreen ==
    Page("settings", {"preferences", "sessions", "securityActivity"}, {}, {})
AvatarWrites == {"uploadAvatar", "deleteAvatar"}
ProfileSettings == Page("settings", {}, {Single("updateProfile")} \cup Buttons(AvatarWrites, AvatarWrites), {})
RegionSettings == Page("settings", {}, Rows({"updatePreferences"}, "preferences", {"updatePreferences"}), {})

TwoFactorWrites == {"enableTwoFactor", "disableTwoFactor"}
TwoFactorSettings == Page("settings", {}, {Single(w) : w \in TwoFactorWrites}, {})

EmailSettings == Page("settings", {}, {Single("changeEmail")}, {})
PasswordSettings == Page("settings", {}, {Single("changePassword")}, {})
SessionSettings ==
    Part("settings", "always", {}, Rows({"revokeSession"}, "sessions", {}) \cup {Single("logoutAll")},
         {"sessions"}, {"sessions", "securityActivity"})
DataSettings == Page("settings", {}, {Single("exportData")}, {})
DangerSettings == Page("settings", {}, {Single("deleteAccount")}, {})
BlockedUsersCard == Page("settings", {"blocks"}, Rows({"unblock"}, "blocks", {"unblock"}), {"blocks"})
CalendarFeedSection ==
    Page("settings", {"calendarFeed"},
         {Single("enableFeed"), ButtonOn("disableFeed", {"calendarFeed"}, {"disableFeed"})}, {})
EncryptionSettingsCard ==
    Page("settings", {"keyBackup"}, Rows({"rotateRecovery"}, "keyStatus", {"rotateRecovery"}), {})
EncryptionSession == Page("everywhere", {"keyStatus"}, {}, {})
EncryptionGate(at) == Page(at, {"keyBackup"}, Rows({"setupKeys"}, "keyStatus", {"setupKeys"})
                                              \cup Rows({"restoreKeys"}, "keyStatus", {"restoreKeys"}), {})

----------------------------------------------------------------------------
MobileParts ==
    {TabsLayout, HomeScreen, HomeUpNext, HomeShelves,
     MediaScreen, MediaChoices, MediaHeader, MediaSeasonHeader, MediaEpisodes, MediaFeedback,
     AddToListSheet, CommunityRating, WatchProviders, EpisodeScreen, EpisodeReactions,
     CalendarScreen, CalendarRows, LibraryScreen, LibraryMenu, FeedbackSheet, SearchScreen,
     HistoryScreen, HistoryPicker, ListsScreen, ListsEditor, ListScreen, ListEditorSheet,
     SocialScreen, SocialTabs, PersonScreen, ConnectionsScreen, ReportSheet("person"), ReportSheet("list"),
     ReportSheet("thread"), NotificationsScreen, MessagesScreen, ThreadScreen, Composer,
     StatisticsScreen, WrappedScreen, ProfileScreen, BadgeShelf, ImportScreen,
     SettingsScreen, ProfileSettings, RegionSettings, TwoFactorSettings, EmailSettings,
     PasswordSettings, SessionSettings, DataSettings, DangerSettings,
     BlockedUsersCard, CalendarFeedSection, EncryptionSettingsCard,
     EncryptionSession, EncryptionGate("settings"), EncryptionGate("thread")}
=============================================================================
