---------------------------- MODULE MCClientCache ----------------------------
(* The two clients' tables, and which view each behaviour is about.           *)
EXTENDS ClientCache

Web == INSTANCE WebClient
WebUI == INSTANCE WebScreens
Mobile == INSTANCE MobileClient
MobileUI == INSTANCE MobileScreens
LOCAL Facts == INSTANCE ApiFacts

MCClients == {"web", "mobile"}

\* Comprehensions: TLC keeps their value, and would walk a UNION every time.
Flat(sets) == {e \in UNION sets : TRUE}
AllViews ==
  LET both == {Web!WebQueries, Mobile!MobileQueries} IN Flat(both)
AllWrites ==
  LET parts == WebUI!WebParts \cup MobileUI!MobileParts
  IN  Flat({{o.does : o \in x.offers} : x \in parts})
Ahead0 == [w \in AllWrites |-> IF w \in {"readNotice", "readAllNotices"} THEN Facts!Notices ELSE {}]
Change0 == [w \in AllWrites |-> Facts!OutOfDate(w, AllViews)]

MCTable ==
  LET web == [parts |-> WebUI!WebParts,
              follows |-> [w \in AllWrites |-> Web!WebFollows(w)],
              sets |-> [w \in AllWrites |-> Web!WebSets(w)],
              drops |-> [w \in AllWrites |-> Web!DropLists(w)],
              always |-> [w \in AllWrites |-> Web!WebAlways(w)],
              optimistic |-> Ahead0, ends |-> Facts!EndWrites, changes |-> Change0, gaps |-> Web!WebGaps,
              polled |-> Web!WebPolled, announced |-> Web!WebAnnounced,
              abortable |-> {}, persisted |-> {}, fenced |-> FALSE, stacked |-> FALSE]
      mobile == [parts |-> MobileUI!MobileParts,
              follows |-> [w \in AllWrites |-> Mobile!MobileFollows(w)],
              sets |-> [w \in AllWrites |-> Mobile!MobileSets(w)],
              drops |-> [w \in AllWrites |-> Mobile!DropLists(w)],
              always |-> [w \in AllWrites |-> Mobile!MobileAlways(w)],
              optimistic |-> Ahead0, ends |-> Facts!EndWrites, changes |-> Change0, gaps |-> Mobile!MobileGaps,
              polled |-> Mobile!MobilePolled, announced |-> Mobile!MobileAnnounced,
              abortable |-> Mobile!MobileAbortable, persisted |-> Mobile!MobilePersisted,
              fenced |-> TRUE, stacked |-> TRUE]
  IN  [web |-> web, mobile |-> mobile]

Offered(c) == Flat({{o.does : o \in x.offers} : x \in MCTable[c].parts})
ShownBy(c) == Flat({x.shows : x \in MCTable[c].parts})

\* Every view on its own, with all that happens without a write of this client.
Alone == Flat({{[client |-> c, view |-> v, writes |-> {}, slots |-> 1, busy |-> TRUE] : v \in ShownBy(c)} :
                 c \in MCClients})

\* Writes that change one view, from one part of a screen or from several.
On(v, ws, slots, busy) ==
    {[client |-> c, view |-> v, writes |-> ws, slots |-> slots, busy |-> busy] : c \in MCClients}
Of(c, subjects) == {x \in subjects : x.client = c}
Meeting ==
    Of("web", On("notifications", {"readNotice"}, 2, FALSE))
    \cup Of("mobile", On("notifications", {"readAllNotices"}, 1, TRUE))
    \cup Of("mobile", On("calendarFeed", {"enableFeed", "disableFeed"}, 2, FALSE))
    \cup On("calendar", {"setPlanned", "markCalendar"}, 1, FALSE)
    \cup On("preferences", {"updatePreferences"}, 1, TRUE)
    \cup On("list", {"removeListItem", "deleteList"}, 1, TRUE)
    \cup On("watchedEpisodes", {"markEpisode", "markSeason"}, 1, TRUE)
    \cup On("user", {"follow", "block"}, 1, TRUE)
    \cup On("sessions", {"revokeSession", "changePassword"}, 1, FALSE)
    \cup On("thread", {"sendMessage"}, 1, TRUE)

MCSubjects == Alone \cup Meeting
=============================================================================
