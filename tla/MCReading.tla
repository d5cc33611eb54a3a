----------------------------- MODULE MCReading -----------------------------
(***************************************************************************)
(* What readers are shown: searches on other servers and the sign-ins they *)
(* are made with (RemoteSearch, which this module extends, so that its     *)
(* properties are those its theorems state), lists of tags, people and     *)
(* announcements (Social), filters (Filters), every feed and its pages     *)
(* (Timelines), feeds of other servers (RemoteFeeds) and what subscribers  *)
(* of the cloud's hub read (MqttHub).  A behaviour is a behaviour of one   *)
(* part: "on" names it, its variables move by the part's own Next, and     *)
(* those of every other part stay.  The parts share no state, so running   *)
(* them under one specification checks each as it would alone.             *)
(***************************************************************************)
EXTENDS RemoteSearch, TLC

CONSTANTS Parts,           \* the parts that are run
          TimelineScenes   \* what timelines and posts part "timelines" has

NeverEnds == 9
FilteredText == ("p1" :> {"w1"}) @@ ("p2" :> {"w2"})
FilterTerms == {[on |-> {"home"}, until |-> NeverEnds], [on |-> {"home", "thread"}, until |-> 1]}

Post(by, vis, to, reply) ==
  [what |-> "post", by |-> by, vis |-> vis, to |-> to, tag |-> FALSE, reply |-> reply]
Tagged(by, vis, to) == [Post(by, vis, to, FALSE) EXCEPT !.tag = TRUE]
Boost(by) == [what |-> "boost", by |-> by]
Fav == [what |-> "fav"]
Note(kind, from) == [what |-> "note", kind |-> kind, from |-> from]
Remote == [what |-> "remote"]

NoList == [members |-> {}, exclusive |-> FALSE, policy |-> "none"]
Reads(feed, drafts, changing) ==
  [feed |-> feed, drafts |-> drafts, changing |-> changing, list |-> NoList,
   tagged |-> FALSE, whose |-> "a", mutes |-> FALSE, marks |-> {TRUE}, clock |-> FALSE]
ListOf(policy, exclusive) == [members |-> {"a"}, exclusive |-> exclusive, policy |-> policy]

AllScenes ==
  {Reads("home", {Post("a", "unlisted", {}, FALSE), Boost("b"), Remote}, {"a", "b"}),
   Reads("home", {Post("a", "public", {"v"}, FALSE), Post("v", "public", {"b"}, TRUE), Post("b", "public", {}, TRUE)}, {"a"}),
   [Reads("home", {Tagged("a", "public", {"b"}), Post("b", "direct", {"v"}, FALSE)}, {"a"}) EXCEPT !.tagged = TRUE],
   [Reads("home", {Post("a", "unlisted", {}, FALSE), Post("b", "unlisted", {}, FALSE)}, {"a"})
      EXCEPT !.list = ListOf("none", TRUE)],
   Reads("public", {Post("a", "public", {"b"}, FALSE), Post("b", "public", {}, FALSE), Post("a", "unlisted", {}, FALSE)}, {"b"}),
   Reads("home", {Post("a", "private", {}, FALSE), Post("b", "private", {"v"}, FALSE)}, {"a"}),
   Reads("tag", {Tagged("a", "public", {"b"}), Post("a", "public", {}, FALSE)}, {"a", "b"}),
   Reads("direct", {Post("a", "direct", {"v"}, TRUE), Post("b", "direct", {"a"}, FALSE), Post("v", "direct", {"a"}, TRUE)}, {"a"}),
   [Reads("list", {Post("a", "public", {}, TRUE), Post("b", "public", {}, FALSE), Boost("a")}, {"a"})
      EXCEPT !.list = ListOf("followed", FALSE)],
   [Reads("list", {Post("a", "private", {"b"}, TRUE), Post("b", "private", {}, FALSE)}, {"b"})
      EXCEPT !.list = ListOf("list", FALSE)],
   Reads("account", {Post("a", "private", {}, TRUE), Boost("a"), Post("b", "public", {}, FALSE)}, {"a"}),
   Reads("plain", {Post("a", "public", {}, TRUE), Post("b", "public", {}, FALSE)}, {"a"}),
   Reads("favourites", {Post("a", "private", {}, FALSE), Fav}, {"a"}),
   [Reads("notifications", {Post("v", "public", {}, FALSE), Note("follow", "a"), Note("favourite", "b")}, {"b"})
      EXCEPT !.mutes = TRUE],
   [Reads("groups", {Post("v", "public", {}, FALSE), Note("favourite", "a"), Note("follow", "b")}, {"b"})
      EXCEPT !.mutes = TRUE],
   Reads("conversations", {Post("a", "direct", {"v"}, TRUE)}, {}),
   Reads("search", {Post("a", "private", {"v"}, FALSE), Post("b", "public", {}, FALSE)}, {"a"}),
   Reads("thread", {Post("a", "public", {}, TRUE), Post("b", "private", {"v"}, TRUE)}, {"a", "b"})}

ListScenes == {s \in AllScenes : s.feed = "list"}
TalkScenes == {[s EXCEPT !.marks = BOOLEAN] : s \in {t \in AllScenes : t.feed = "conversations"}}
\* A clock that stands behind the newest record after a restart.
ClockBehind == {[Reads("public", {Post("a", "public", {}, FALSE)}, {}) EXCEPT !.clock = TRUE]}

FeedScenes ==
  {[interests |-> {<<1, 1>>, <<2, 1>>}, posts |-> <<3, 0>>,
    pictures |-> {<<1, 1>>, <<1, 2>>}, quotas |-> {1, 2}],
   [interests |-> {<<2, 1>>, <<2, 2>>}, posts |-> <<1, 1>>,
    pictures |-> {<<1, 1>>, <<2, 0>>}, quotas |-> {1}]}

VARIABLES on,  \* the part at work
          topic,
          now, wanted,
          rows, rel, quiet, last, time, behind, talk, stats, reader, changes, reboots,
          shows, bots, torn,
          phase, name, turn, removed, filters, output, overflow, retained, delivered,
          packets, received, owed,
          next,
          scene

Shared == INSTANCE Social WITH
  Slots <- {1, 2}, Owner <- 1, Places <- {1}, Tags <- {"t1", "t2"}, MaxTags <- 1,
  Topics <- {"tags", "people", "news"}, MaxId <- 4, MaxFaults <- 2
Hiding == INSTANCE Filters WITH
  Places <- {0, 1}, Words <- {"w1", "w2"}, Posts <- {"p1", "p2"},
  Text <- FilteredText, MaxWords <- 2, MaxPosts <- 1, Contexts <- {"home", "thread"}, Terms <- FilterTerms,
  Never <- NeverEnds, MaxId <- 4, MaxFaults <- 1
Reading == INSTANCE Timelines WITH
  Viewer <- "v", Others <- {"a", "b"}, Scenes <- TimelineScenes, Limit <- 1,
  MaxId <- 3, MaxChanges <- 1, MaxReboots <- 1
Feeds == INSTANCE RemoteFeeds WITH
  MaxFaults <- 1,
  Slots <- {1, 2}, Owner <- 1, Feeds <- {1, 2}, PerFeed <- 2, MaxFeeds <- 2, MaxPending <- 1,
  Scenes <- FeedScenes, MaxId <- 3
Hub == INSTANCE MqttHub WITH
  Name <- {"m1"}, Topic <- {"t1", "t2"}, MaxClients <- 2, OutputLimit <- 2, MaxFilters <- 1,
  MaxRetained <- 1, MaxConns <- 2, MaxSent <- 2, MaxPackets <- 4, None <- Nothing,
  sent <- delivered

suiteVars == <<on, home, approved, sent, topic, now, wanted, rows, rel, quiet, last, time,
               behind, talk, stats, reader, changes, reboots, shows, bots, torn, phase,
               name, turn, removed, filters, output, overflow, retained, delivered,
               packets, received, owed, disk, up, todo, doing, faults, next, scene>>
Unused == "unused"
OthersOff ==
  /\ IF on = "search" THEN TRUE ELSE home = <<>> /\ sent = {}
  /\ IF on = "search" THEN TRUE ELSE approved = Unused
  /\ IF on = "social" THEN TRUE ELSE topic = Unused
  /\ IF on = "filters" THEN TRUE ELSE now = Unused /\ wanted = Unused
  /\ IF on = "timelines" THEN TRUE ELSE rows = Unused /\ rel = Unused /\ quiet = Unused /\
       last = Unused /\ time = Unused /\ behind = Unused /\ talk = Unused /\
       stats = Unused /\ reader = Unused /\ changes = Unused /\ reboots = Unused
  /\ IF on = "feeds" THEN TRUE ELSE shows = Unused /\ bots = Unused /\ torn = Unused
  /\ IF on = "hub" THEN TRUE ELSE phase = Unused /\ name = Unused /\ turn = Unused /\
       removed = Unused /\ filters = Unused /\ output = Unused /\ overflow = Unused /\
       retained = Unused /\ delivered = Unused /\ packets = Unused /\ received = Unused /\
       owed = Unused
  /\ IF on \in {"search", "social", "filters", "feeds"} THEN TRUE ELSE disk = Unused /\
       up = Unused /\ todo = Unused /\ doing = Unused /\ faults = Unused
  /\ IF on \in {"social", "filters", "feeds"} THEN TRUE ELSE next = Unused
  /\ IF on \in {"timelines", "feeds"} THEN TRUE ELSE scene = Unused
OthersStay ==
  /\ IF on = "search" THEN TRUE ELSE UNCHANGED <<home, approved, sent>>
  /\ IF on = "social" THEN TRUE ELSE UNCHANGED <<topic>>
  /\ IF on = "filters" THEN TRUE ELSE UNCHANGED <<now, wanted>>
  /\ IF on = "timelines" THEN TRUE ELSE UNCHANGED <<rows, rel, quiet, last, time, behind,
       talk, stats, reader, changes, reboots>>
  /\ IF on = "feeds" THEN TRUE ELSE UNCHANGED <<shows, bots, torn>>
  /\ IF on = "hub" THEN TRUE ELSE UNCHANGED <<phase, name, turn, removed, filters, output,
       overflow, retained, delivered, packets, received, owed>>
  /\ IF on \in {"search", "social", "filters", "feeds"} THEN TRUE ELSE UNCHANGED <<disk,
       up, todo, doing, faults>>
  /\ IF on \in {"social", "filters", "feeds"} THEN TRUE ELSE UNCHANGED <<next>>
  /\ IF on \in {"timelines", "feeds"} THEN TRUE ELSE UNCHANGED <<scene>>

SuiteInit ==
  /\ on \in Parts
  /\ \/ on = "search" /\ Init
     \/ on = "social" /\ Shared!Init
     \/ on = "filters" /\ Hiding!Init
     \/ on = "timelines" /\ Reading!Init
     \/ on = "feeds" /\ Feeds!Init
     \/ on = "hub" /\ Hub!Init
  /\ OthersOff
SuiteNext ==
  \/ on = "search" /\ Next /\ OthersStay /\ UNCHANGED on
  \/ on = "social" /\ Shared!Next /\ OthersStay /\ UNCHANGED on
  \/ on = "filters" /\ Hiding!Next /\ OthersStay /\ UNCHANGED on
  \/ on = "timelines" /\ Reading!Next /\ OthersStay /\ UNCHANGED on
  \/ on = "feeds" /\ Feeds!Next /\ OthersStay /\ UNCHANGED on
  \/ on = "hub" /\ Hub!Next /\ OthersStay /\ UNCHANGED on
SuiteSpec == SuiteInit /\ [][SuiteNext]_suiteVars

-----------------------------------------------------------------------------
ASSUME /\ SearchAssumption /\ Shared!SocialAssumption /\ Hiding!FiltersAssumption
       /\ Feeds!FeedsAssumption /\ Hub!HubAssumption

\* Every stored record stays one that load_social starts with, and speaks of
\* nobody who is gone, after any deletions, reused slots and cuts (social.rs).
SocialHolds == on = "social" => Shared!SocialHolds

\* A keyword or post given to a filter stays in it until it is taken away, and
\* marks every row that shows it while the filter applies (filters.rs).
FiltersHold == on = "filters" => Hiding!TypeOK /\ Hiding!PartsHeld /\ Hiding!RowsMarked

\* A client that follows the Link headers misses no row that stays, and no
\* timeline shows what blocks, mutes, suspensions and audiences keep from its
\* reader (paginate and can_see of query.rs).
NoneMissed == on = "timelines" => Reading!TypeOK /\ Reading!NoneMissed /\ Reading!CutOff

\* The posts of a followed account are held once, in order and all there when
\* the validators say so; follows are their makers'; the card holds exactly the
\* pictures that are named (remote.rs).
FeedHeld == on = "feeds" => Feeds!FeedHeld /\ Feeds!FollowsAreTheirOwn /\ Feeds!PicturesCounted

\* What a subscriber reads is what was sent to it with no gap; a retained message
\* reaches who subscribes while it is published; an id has one connection
\* (minicloud broker.rs).
NoGap == on = "hub" => Hub!TypeOK /\ Hub!NoGap /\ Hub!RetainedArrives /\ Hub!OneSession
=============================================================================
