---------------------------- MODULE MCDeliveries ----------------------------
(***************************************************************************)
(* What is done once however often it is tried, and is done in the end:    *)
(* the slots of the bots' schedule (BotRuns, which this module extends, so *)
(* that its properties are those its theorems state) and the cloud's jobs  *)
(* and notices (CloudQueue).  A behaviour is a behaviour of one part: "on" *)
(* names it, its variables move by the part's own Next, and those of every *)
(* other part stay.  The parts share no state, so running them under one   *)
(* specification checks each as it would alone.                            *)
(***************************************************************************)
EXTENDS BotRuns, TLC

CONSTANTS Parts,   \* the parts that are run
          NoValue

\* The settings of the bot: three slots or two, and two waits for a retry.
TwoSchedules == {{1, 3, 5}, {1, 4}}
TwoWaits == <<1, 2>>
\* Two notices about n1, its reading, and a row for the database.
JobTopics == ("e1" :> "notify") @@ ("e2" :> "notify") @@ ("e3" :> "read") @@ ("e4" :> "insert")
JobNotices == ("e1" :> "n1") @@ ("e2" :> "n1") @@ ("e3" :> "n1") @@ ("e4" :> "n2")
Replaces == ("n1" :> {"n2"}) @@ ("n2" :> {})

VARIABLES on,  \* the part at work
          synced, cloud, doubt, rows, owed, read

Jobs == INSTANCE CloudQueue WITH
  Event <- {"e1", "e2", "e3", "e4"}, Topic <- JobTopics, Id <- {"n1", "n2"},
  About <- JobNotices, Supersedes <- Replaces, MaxJobs <- 2, MaxNotices <- 1, MaxReceipts <- 2,
  MaxDismissed <- 1, None <- NoValue, MaxRetries <- 1, Lifetime <- 1, MaxNow <- 2, MaxFaults <- 1

suiteVars == <<on, clock, rec, rt, job, keys, posts, forgot, since, busy, settled,
               changes, synced, cloud, doubt, rows, owed, read, now, disk, faults>>
Unused == "unused"
OthersOff ==
  /\ IF on = "runs" THEN TRUE ELSE job = NoJob /\ posts = [s \in Slots |-> 0] /\
       forgot = [s \in Slots |-> 0] /\ busy = FALSE /\ settled = {}
  /\ IF on = "runs" THEN TRUE ELSE clock = Unused /\ rec = Unused /\ rt = Unused /\
       keys = Unused /\ since = Unused /\ changes = Unused
  /\ IF on = "queue" THEN TRUE ELSE synced = Unused /\ cloud = Unused /\ doubt = Unused /\
       rows = Unused /\ owed = Unused /\ read = Unused
  /\ IF on \in {"runs", "queue"} THEN TRUE ELSE now = Unused /\ disk = Unused /\
       faults = Unused
OthersStay ==
  /\ IF on = "runs" THEN TRUE ELSE UNCHANGED <<clock, rec, rt, job, keys, posts, forgot,
       since, busy, settled, changes>>
  /\ IF on = "queue" THEN TRUE ELSE UNCHANGED <<synced, cloud, doubt, rows, owed, read>>
  /\ IF on \in {"runs", "queue"} THEN TRUE ELSE UNCHANGED <<now, disk, faults>>

SuiteInit ==
  /\ on \in Parts
  /\ \/ on = "runs" /\ Init
     \/ on = "queue" /\ Jobs!Init
  /\ OthersOff
SuiteNext ==
  \/ on = "runs" /\ Next /\ OthersStay /\ UNCHANGED on
  \/ on = "queue" /\ Jobs!Next /\ OthersStay /\ UNCHANGED on

(***************************************************************************)
(* Fairness is that of the modules: the scheduler's thread and the board's *)
(* worker come round, and the clock runs; of people and faults there is    *)
(* none.  As on never changes, fairness for one of these actions is        *)
(* fairness for each action of the part that is at work.                   *)
(***************************************************************************)
Turn(n) ==
  CASE n = 1 -> (on = "queue" /\ Jobs!Boot) \/ (on = "runs" /\ Due)
    [] n = 2 -> (on = "queue" /\ Jobs!Work) \/ (on = "runs" /\ Execute)
    [] n = 3 -> (on = "queue" /\ Jobs!Expire) \/ (on = "runs" /\ \E ok \in BOOLEAN : Finish(ok))
    [] n = 4 -> on = "runs" /\ Tick
    [] n = 5 -> on = "runs" /\ SetClock

SuiteSpec ==
  /\ SuiteInit /\ [][SuiteNext]_suiteVars
  /\ \A n \in 1..5 : WF_suiteVars(Turn(n) /\ OthersStay /\ UNCHANGED on)

-----------------------------------------------------------------------------
ASSUME BotAssumption /\ Jobs!QueueAssumption

\* An accepted event waits or has its receipt, a done insert is in the database,
\* a dismissed notice stays so and none is extended by a second delivery
\* (minicloud lib.rs).
NothingLost ==
  /\ [](on = "queue" => Jobs!TypeOK /\ Jobs!NothingLost /\ Jobs!StaysRead)
  /\ [][on = "queue" => Jobs!NeverExtendedStep]_suiteVars

\* Each comes to the end of its work, over and over: every job ends and the board
\* is on again, and every slot of a bot that is on is run or recorded as missed.
Through(n) ==
  CASE on = "queue" -> n < 5 => Jobs!Served(<<"e1", "e2", "e3", "e4">>[n])
    [] on = "runs" -> LET slot == <<3, 5, 4, 1, 1>>[n]
                      IN ~Pending(slot, IF n \in {3, 4} THEN {1, 4} ELSE {1, 3, 5})
WorkEnds == \A n \in 1..5 : []<>Through(n)
=============================================================================
