----------------------------- MODULE MCWorkers ------------------------------
(***************************************************************************)
(* What works through a clock, a mission, a feed or a thread of mentions   *)
(* and must get to the end of it: restarts of boards (SreActions, which    *)
(* this module extends, so that its properties are those its theorems      *)
(* state), the rover (MarsRover), the economy's news (NanaNews), answers   *)
(* to mentions (LlmReplies), lost things (LostThings) and the profiles of  *)
(* the bots (BotSite).  A behaviour is a behaviour of one part: "on" names *)
(* it, its variables move by the part's own Next, and those of every other *)
(* part stay.  The parts share no state, so running them under one         *)
(* specification checks each as it would alone.                            *)
(***************************************************************************)
EXTENDS SreActions, Sequences, TLC

CONSTANT Parts   \* the parts that are run

\* The quiet windows the settings may name.
TwoWindows == {[from |-> 1, until |-> 3], [from |-> 2, until |-> 3]}
\* Four sites: the landing, a crater, a cliff and dust.
FourSites == [site \in 0..3 |-> <<"basalt", "crater", "cliff", "dust">>[site + 1]]
Says(by, level, all) == [by |-> by, level |-> level, thread |-> 1, allPublic |-> all]
Mentioning ==
  {Says("ana", 3, TRUE), Says("ana", 3, FALSE), Says("ana", 1, FALSE), Says("bot", 3, TRUE), Says("ana", 0, FALSE)}

\* Two conversations of before.
OldTalks == {<<1, "ana", 8>>, <<1, "ana", 9>>}

VARIABLES on,  \* the part at work
          save,
          feed, era, posted, told, excuse,
          keys, answers, dailies, given, forgot,
          claims, gone, posts, verdicts, lost,
          sessions, wrong, rt, running, job, shown, patched, guesses,
          run,
          mentions,
          today,
          known,
          mem

Rover == INSTANCE MarsRover WITH
  Wide <- 2, High <- 2, Landing <- 0, Terrain <- FourSites, Storms <- {2},
  Drift <- <<"north", "east", "south", "west">>, Commands <- {"sample", "name", "east", "chat"}, PerRun <- 1,
  MaxDay <- 2, MaxMentions <- 2, MaxFaults <- 2
News == INSTANCE NanaNews WITH
  Ticked <- <<"sale">>, Kinds <- {"sale", "art"}, Counted <- {"sale"}, SummaryOn <- TRUE,
  MaxPosts <- 3, RollUpOver <- 1, PageSize <- 1, Pages <- 2, FeedKeeps <- 3, MaxEvents <- 3, MaxFaults <- 1
Talk == INSTANCE LlmReplies WITH
  MentionKinds <- Mentioning, Levels <- {1, 3}, Direct <- 0, Setting <- 3, ReplyToBots <- FALSE,
  RepliesPerRun <- 1, Fetch <- 2, KeptNotes <- 1, NoteSizes <- {6}, LineSize <- 6, CursorSize <- 3,
  StampSize <- 2, DateSize <- 1, NameSize <- 4, Room <- 20, Left <- OldTalks, MaxMentions <- 2, MaxDay <- 2, MaxFaults <- 1
Things == INSTANCE LostThings WITH
  OpenItems <- 1, Fetch <- 2, MaxClaims <- 2, MaxDay <- 2, MaxFaults <- 1, MaxGone <- 1
Site == INSTANCE BotSite WITH
  Bots <- {"b1"}, Passwords <- {"p1", "p2"}, Accounts <- {"a1"}, Origins <- {"o1", "o2"},
  MaxSessions <- 2, LockoutFailures <- 2, SessionTime <- 2, LockTime <- 1, RetryTime <- 1, MaxFaults <- 1, MaxChanges <- 4

suiteVars == <<on, now, item, work, cfg, outage, replies, sent, checked, approved,
               cancelled, save, feed, era, posted, told, excuse, keys, answers, dailies,
               given, forgot, claims, gone, posts, verdicts, lost, sessions, wrong, rt,
               running, job, shown, patched, guesses, faults, disk, changes, run,
               mentions, today, known, mem>>
Unused == "unused"
OthersOff ==
  /\ IF on = "actions" THEN TRUE ELSE sent = [i \in Ids |-> 0]
  /\ IF on = "actions" THEN TRUE ELSE now = Unused /\ item = Unused /\ work = Unused /\
       cfg = Unused /\ outage = Unused /\ replies = Unused /\ checked = Unused /\
       approved = Unused /\ cancelled = Unused
  /\ IF on = "mars" THEN TRUE ELSE save = Unused
  /\ IF on = "news" THEN TRUE ELSE feed = Unused /\ era = Unused /\ posted = Unused /\
       told = Unused /\ excuse = Unused
  /\ IF on = "llm" THEN TRUE ELSE keys = Unused /\ answers = Unused /\ dailies = Unused /\
       given = Unused /\ forgot = Unused
  /\ IF on = "lost" THEN TRUE ELSE claims = Unused /\ gone = Unused /\ posts = Unused /\
       verdicts = Unused /\ lost = Unused
  /\ IF on = "site" THEN TRUE ELSE sessions = Unused /\ wrong = Unused /\ rt = Unused /\
       running = Unused /\ job = Unused /\ shown = Unused /\ patched = Unused /\
       guesses = Unused
  /\ IF on \in {"actions", "mars", "news", "llm", "lost", "site"} THEN TRUE ELSE
       faults = Unused
  /\ IF on \in {"actions", "news", "llm", "lost", "site"} THEN TRUE ELSE disk = Unused
  /\ IF on \in {"actions", "site"} THEN TRUE ELSE changes = Unused
  /\ IF on \in {"mars", "news", "llm", "lost"} THEN TRUE ELSE run = Unused
  /\ IF on \in {"mars", "llm"} THEN TRUE ELSE mentions = Unused
  /\ IF on \in {"mars", "llm", "lost"} THEN TRUE ELSE today = Unused
  /\ IF on \in {"mars", "lost", "site"} THEN TRUE ELSE known = Unused
  /\ IF on \in {"news", "llm", "lost"} THEN TRUE ELSE mem = Unused
OthersStay ==
  /\ IF on = "actions" THEN TRUE ELSE UNCHANGED <<now, item, work, cfg, outage, replies,
       sent, checked, approved, cancelled>>
  /\ IF on = "mars" THEN TRUE ELSE UNCHANGED <<save>>
  /\ IF on = "news" THEN TRUE ELSE UNCHANGED <<feed, era, posted, told, excuse>>
  /\ IF on = "llm" THEN TRUE ELSE UNCHANGED <<keys, answers, dailies, given, forgot>>
  /\ IF on = "lost" THEN TRUE ELSE UNCHANGED <<claims, gone, posts, verdicts, lost>>
  /\ IF on = "site" THEN TRUE ELSE UNCHANGED <<sessions, wrong, rt, running, job, shown,
       patched, guesses>>
  /\ IF on \in {"actions", "mars", "news", "llm", "lost", "site"} THEN TRUE ELSE UNCHANGED <<
       faults>>
  /\ IF on \in {"actions", "news", "llm", "lost", "site"} THEN TRUE ELSE UNCHANGED <<disk>>
  /\ IF on \in {"actions", "site"} THEN TRUE ELSE UNCHANGED <<changes>>
  /\ IF on \in {"mars", "news", "llm", "lost"} THEN TRUE ELSE UNCHANGED <<run>>
  /\ IF on \in {"mars", "llm"} THEN TRUE ELSE UNCHANGED <<mentions>>
  /\ IF on \in {"mars", "llm", "lost"} THEN TRUE ELSE UNCHANGED <<today>>
  /\ IF on \in {"mars", "lost", "site"} THEN TRUE ELSE UNCHANGED <<known>>
  /\ IF on \in {"news", "llm", "lost"} THEN TRUE ELSE UNCHANGED <<mem>>

SuiteInit ==
  /\ on \in Parts
  /\ \/ on = "actions" /\ Init
     \/ on = "mars" /\ Rover!Init
     \/ on = "news" /\ News!Init
     \/ on = "llm" /\ Talk!Init
     \/ on = "lost" /\ Things!Init
     \/ on = "site" /\ Site!Init
  /\ OthersOff
SuiteNext ==
  \/ on = "actions" /\ Next /\ OthersStay /\ UNCHANGED on
  \/ on = "mars" /\ Rover!Next /\ OthersStay /\ UNCHANGED on
  \/ on = "news" /\ News!Next /\ OthersStay /\ UNCHANGED on
  \/ on = "llm" /\ Talk!Next /\ OthersStay /\ UNCHANGED on
  \/ on = "lost" /\ Things!Next /\ OthersStay /\ UNCHANGED on
  \/ on = "site" /\ Site!Next /\ OthersStay /\ UNCHANGED on

(***************************************************************************)
(* Fairness is that of the modules: threads that come round, runs that end *)
(* and the clock; of people and faults there is none.  As on never         *)
(* changes, fairness for one of these actions is fairness for each action  *)
(* of the part that is at work.                                            *)
(***************************************************************************)
Turn(n) ==
  CASE n = 1 -> \/ on = "actions" /\ Retire
                \/ on = "mars" /\ Rover!Works
                \/ on = "news" /\ News!Works
                \/ on = "llm" /\ Talk!Works
                \/ on = "lost" /\ Things!Works
                \/ on = "site" /\ Site!Recorded
    [] n = 2 -> \/ on = "actions" /\ Start
                \/ on = "mars" /\ Rover!NewDay
                \/ on = "site" /\ Site!Publish("ok")
    [] n = 3 -> \/ on = "actions" /\ Answered
                \/ on = "site" /\ Site!Ticks
    [] n = 4 -> \/ on = "actions" /\ Report
                \/ on = "site" /\ "b1" \in running /\ Site!Runs("b1")
    [] n = 5 -> on = "actions" /\ Mentioned
    [] n = 6 -> on = "actions" /\ Tick
\* What is met again and again, though not all the time, until it is done.
Chance ==
  \/ on = "news" /\ News!NextSlot
  \/ on = "lost" /\ Things!Discover
  \/ on = "site" /\ Site!Take

SuiteSpec ==
  /\ SuiteInit /\ [][SuiteNext]_suiteVars
  /\ \A n \in 1..6 : WF_suiteVars(Turn(n) /\ OthersStay /\ UNCHANGED on)
  /\ SF_suiteVars(Chance /\ OthersStay /\ UNCHANGED on)

-----------------------------------------------------------------------------
ASSUME /\ ActionAssumption /\ Rover!MarsAssumption /\ News!NewsAssumption
       /\ Talk!LlmAssumption /\ Things!LostAssumption /\ Site!SiteAssumption

\* The newest save can be read and has obeyed each command once, in order
\* (mars_rover.rs).
SaveHolds == on = "mars" => Rover!SaveHolds

\* No event is told twice, alone or in a roll-up (nana_news.rs).
NewsToldOnce == on = "news" => News!ToldOnce

\* A mention since the bot last began to watch that is behind the cursor is answered
\* once, skipped by a rule or refused; an answer is no more public than what it
\* answers; what a save leaves of the memory fits its record (llm.rs, service.rs).
AnsweredInTurn == on = "llm" => Talk!AnsweredInTurn /\ Talk!NothingLeaks /\ Talk!MemoryFits

\* An item has one claimant and a claim one verdict (lost_things.rs).
OneClaimant == on = "lost" => Things!OneClaimant /\ Things!MemoryBounded

\* A profile recorded as published was given to that account; sessions are of the
\* password in force (profiles.rs, auth.rs).
PublishedWasGiven == on = "site" => Site!TypeOK /\ Site!OneAdmin /\ Site!PublishedWasGiven

\* Each comes to the end of its work, over and over: proposals are carried out or
\* expire, commands are obeyed, the news and the mentions pass, items appear,
\* links follow.  Mentions pass unless the record has no room left for the cursor, and
\* items appear unless the post of one is gone: neither bot recovers from that.
Through(n) ==
  CASE on = "actions" -> Settled
    [] on = "mars" -> n < 3 => Rover!Answered(n)
    [] on = "news" -> News!Passed(n)
    [] on = "llm" -> n < 3 => Talk!Passed(n)
    [] on = "lost" -> n < 3 => Things!Appeared(n) \/ gone # {}
    [] on = "site" -> Site!Linked("b1")
WorkEnds == \A n \in 1..3 : []<>Through(n)

\* "A strange item appears daily" (lost_things.rs:15), as it stands.  It does not
\* hold: a claim on an item whose post is gone stops every later run.
ItemsAppearDaily == \A d \in 1..2 : []<>(on = "lost" => Things!Appeared(d))
=============================================================================
