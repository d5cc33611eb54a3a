------------------------------- MODULE MCBots -------------------------------
(***************************************************************************)
(* The bots' connections and books: enrollment with the household          *)
(* (Enrollment, which this module extends, so that its properties are      *)
(* those its theorems state), kept connections of the client               *)
(* (KeptConnections), the trader (Trader), the weekly digest of findings   *)
(* (SreDigest), the shoebox game (Shoebox) and local time (LocalTime).  A  *)
(* behaviour is a behaviour of one part: "on" names it, its variables move *)
(* by the part's own Next, and those of every other part stay.  The parts  *)
(* share no state, so running them under one specification checks each as  *)
(* it would alone.                                                         *)
(***************************************************************************)
EXTENDS Enrollment, Integers, Sequences, TLC

CONSTANTS Parts,           \* the parts that are run
          KeptFaults,      \* faults in part "connections"
          TraderScenes,    \* the traders of part "trader" and their markets
          TraderFaults,
          DigestRuns, DigestChanges

BoardServers == {<<"board", 443>>, <<"board", 8443>>, <<"cloud", 443>>, <<"site", 443>>}
NoAsking == [to |-> <<"site", 443>>, method |-> "GET", reused |-> FALSE, tries |-> 1,
             phase |-> "done", arrived |-> 0, clean |-> TRUE, calm |-> FALSE]
ResetsTold == [r \in {"reset.fault"} |-> 2]

\* One trader of each strategy, with what will turn up on its market.
Quote(id, side, rate, coins, maker) ==
  [what |-> "quote", is |-> [id |-> id, side |-> side, rate |-> rate, coins |-> coins, maker |-> maker]]
Loterie(id, price) == [what |-> "lotto", is |-> [id |-> id, price |-> price, mine |-> 0, house |-> "ann"]]
Loan(id, lender, borrower, amount, apr, status) ==
  [what |-> "loan", is |-> [id |-> id, lender |-> lender, borrower |-> borrower, amount |-> amount, apr |-> apr, status |-> status]]
Common == [strategy |-> "band", dry |-> FALSE, bots |-> FALSE, buying |-> TRUE, mode |-> "take", buy |-> 2, sell |-> 3,
           size |-> 2, most |-> 9, band |-> 10, window |-> 3, run |-> 3, day |-> [nc |-> 4, cents |-> 8],
           reserve |-> [nc |-> 1, cents |-> 1]]
Trade(settings, nc, cents, trades, market) == [s |-> settings, nc |-> nc, cents |-> cents, trades |-> trades, market |-> market]
Book == {Quote(1, "ASK", 2, 2, "ann"), Quote(2, "BID", 3, 2, "ann"), Quote(3, "ASK", 1, 2, "bot"), Quote(4, "BID", 4, 2, "bob")}
AllTraders ==
  { Trade(Common, 6, 9, <<>>, Book),
    Trade([Common EXCEPT !.mode = "both", !.bots = TRUE], 6, 9, <<>>, {Quote(1, "ASK", 2, 2, "ann")}),
    Trade([Common EXCEPT !.strategy = "lotto", !.size = 3], 9, 1, <<>>, {Loterie(1, 1), Loterie(2, 2), Loterie(3, 3)}),
    Trade([Common EXCEPT !.strategy = "borrow", !.buy = 5, !.size = 2, !.most = 4], 2, 1, <<>>,
          {Loan(1, "ann", "me", 2, 3, "OFFERED"), Loan(2, "bob", "me", 3, 2, "OFFERED"), Loan(3, "ann", "me", 1, 6, "OFFERED")}),
    Trade([Common EXCEPT !.strategy = "lend", !.sell = 4, !.size = 3, !.most = 4], 8, 1, <<>>,
          {Loan(1, "no one", "ann", 2, 4, "REQUESTED"), Loan(2, "no one", "ann", 1, 6, "REQUESTED"),
           Loan(3, "no one", "bob", 3, 5, "REQUESTED")}),
    Trade([Common EXCEPT !.strategy = "dca"], 2, 9, <<>>, {Quote(1, "ASK", 2, 1, "ann"), Quote(2, "ASK", 1, 2, "bob")}),
    Trade([Common EXCEPT !.strategy = "rebalance", !.most = 50], 6, 2, <<>>, Book),
    Trade([Common EXCEPT !.strategy = "revert"], 4, 9, <<3, 3, 2>>, Book) }
SteadyBuyer == {x \in AllTraders : x.s.strategy = "dca"}
NoSummer == [start |-> [month |-> 1, week |-> 1, day |-> 0, at |-> 0],
            end |-> [month |-> 1, week |-> 1, day |-> 0, at |-> 0]]
Rule(m, w, d, at) == [month |-> m, week |-> w, day |-> d, at |-> at]
Zone(std, start, end) == [std |-> std, dst |-> [start |-> start, end |-> end]]
ZoneTable ==
  ("us_eastern" :> Zone(-10, Rule(3, 2, 0, 4), Rule(11, 1, 0, 4))) @@
  ("uk" :> Zone(0, Rule(3, 5, 0, 2), Rule(10, 5, 0, 4))) @@
  ("central_europe" :> Zone(2, Rule(3, 5, 0, 4), Rule(10, 5, 0, 6))) @@
  ("eastern_europe" :> Zone(4, Rule(3, 5, 0, 6), Rule(10, 5, 0, 8))) @@
  ("india" :> [std |-> 11, dst |-> NoSummer]) @@
  ("australia_east" :> Zone(20, Rule(10, 1, 0, 4), Rule(4, 1, 0, 6))) @@
  ("us_hawaii" :> [std |-> -20, dst |-> NoSummer])
From(z, day, date, weekday, dst) ==
  [zone |-> z, day |-> day, date |-> [y |-> date[1], m |-> date[2], d |-> date[3]],
   weekday |-> weekday, summer |-> dst]
ClockStarts == {
  From("us_eastern", 21182, <<2027, 12, 30>>, 4, FALSE),
  From("us_eastern", 21242, <<2028, 2, 28>>, 1, FALSE),
  From("us_eastern", 20519, <<2026, 3, 7>>, 6, FALSE),
  From("us_eastern", 20757, <<2026, 10, 31>>, 6, TRUE),
  From("us_eastern", 20890, <<2027, 3, 13>>, 6, FALSE),
  From("us_eastern", 21128, <<2027, 11, 6>>, 6, TRUE),
  From("uk", 21182, <<2027, 12, 30>>, 4, FALSE),
  From("uk", 20540, <<2026, 3, 28>>, 6, FALSE),
  From("uk", 20750, <<2026, 10, 24>>, 6, TRUE),
  From("uk", 20904, <<2027, 3, 27>>, 6, FALSE),
  From("uk", 21121, <<2027, 10, 30>>, 6, TRUE),
  From("central_europe", 21182, <<2027, 12, 30>>, 4, FALSE),
  From("central_europe", 20540, <<2026, 3, 28>>, 6, FALSE),
  From("central_europe", 20750, <<2026, 10, 24>>, 6, TRUE),
  From("central_europe", 20904, <<2027, 3, 27>>, 6, FALSE),
  From("central_europe", 21121, <<2027, 10, 30>>, 6, TRUE),
  From("eastern_europe", 21182, <<2027, 12, 30>>, 4, FALSE),
  From("eastern_europe", 20540, <<2026, 3, 28>>, 6, FALSE),
  From("eastern_europe", 20750, <<2026, 10, 24>>, 6, TRUE),
  From("eastern_europe", 20904, <<2027, 3, 27>>, 6, FALSE),
  From("eastern_europe", 21121, <<2027, 10, 30>>, 6, TRUE),
  From("india", 21182, <<2027, 12, 30>>, 4, FALSE),
  From("india", 21242, <<2028, 2, 28>>, 1, FALSE),
  From("australia_east", 21182, <<2027, 12, 30>>, 4, TRUE),
  From("australia_east", 21242, <<2028, 2, 28>>, 1, TRUE),
  From("australia_east", 20729, <<2026, 10, 3>>, 6, FALSE),
  From("australia_east", 20547, <<2026, 4, 4>>, 6, TRUE),
  From("australia_east", 21093, <<2027, 10, 2>>, 6, FALSE),
  From("australia_east", 20911, <<2027, 4, 3>>, 6, TRUE),
  From("us_hawaii", 21182, <<2027, 12, 30>>, 4, FALSE)}
Daily(times) == [times |-> times, every |-> 0]
SlotSchedules ==
  {Daily({5}), Daily({3, 16}), Daily({5, 7}), Daily({0, 47}), Daily({4, 6, 15, 40}), [times |-> {}, every |-> 3]}

VARIABLES on,  \* the part at work
          at, clients, closed, resolved, old, req, calm,
          scene, nana, coming, memory, slot, day, left,
          truth, st, retry, held, admin, tracker, told, named, torn, runs, changes,
          posts, mem, today, known, lost,
          zone, schedule, wall, summer, skipped, shown, last, since,
          failures,
          run,
          stored,
          now

Kept == INSTANCE KeptConnections WITH
  Servers <- BoardServers, LocalHosts <- {"board", "cloud"},
  Addresses <- {"a1", "a2", "a3"}, NoAddress <- "none", NoRequest <- NoAsking, MaxKept <- 2, MaxFaults <- KeptFaults,
  faults <- failures
Trading == INSTANCE Trader WITH
  Scenes <- TraderScenes, RatesKept <- 4, MaxSlots <- 3, MaxFaults <- TraderFaults,
  faults <- failures
Digest == INSTANCE SreDigest WITH
  Boards <- {"b"}, Kinds <- {"crash"}, Gauges <- {"heap"}, Readings <- {2, 8},
  Overrides <- ResetsTold, Samples <- 3, Learning <- 1, Resets <- 3, SameBoot <- 1, Jitter <- 1,
  Day <- 3, Week <- 3, FirstLook <- 1, QuietHours <- {2}, Renotify <- 2, Cap <- 2, Entries <- 1,
  Queue <- 1, PerRun <- 1, MaxReplies <- 1, CloseAfter <- 2, MaxNow <- 3, MaxRuns <- DigestRuns, MaxChanges <- DigestChanges,
  MaxFaults <- 1,
  disk <- stored, keys <- held, faults <- failures
Box == INSTANCE Shoebox WITH
  MaxDay <- 4, MaxFaults <- 2,
  disk <- stored, faults <- failures
Clock == INSTANCE LocalTime WITH
  Zones <- ZoneTable, NoDst <- NoSummer, Starts <- ClockStarts, Schedules <- SlotSchedules, Days <- 3

suiteVars == <<on, pc, draft, disk, cfg, account, keys, fresh, passes, faults, at,
               clients, closed, resolved, old, req, calm, scene, nana, coming, memory,
               slot, day, left, truth, st, retry, held, admin, tracker, told, named, torn,
               runs, changes, posts, mem, today, known, lost, zone, schedule, wall,
               summer, skipped, shown, last, since, failures, run, stored, now>>
Unused == "unused"
OthersOff ==
  /\ IF on = "enrollment" THEN TRUE ELSE pc = [step |-> "idle", at |-> "nc"] /\
       draft = NoDraft /\ disk = NoDraft /\ cfg = [s \in Servers |-> None] /\
       account = [s \in Servers |-> Absent] /\ keys = [s \in Servers |-> {}] /\
       fresh = [pw |-> 0, key |-> 0] /\ passes = 0 /\ faults = 0
  /\ IF on = "connections" THEN TRUE ELSE at = Unused /\ clients = Unused /\
       closed = Unused /\ resolved = Unused /\ old = Unused /\ req = Unused /\
       calm = Unused
  /\ IF on = "trader" THEN TRUE ELSE scene = Unused /\ nana = Unused /\ coming = Unused /\
       memory = Unused /\ slot = Unused /\ day = Unused /\ left = Unused
  /\ IF on = "digest" THEN TRUE ELSE truth = Unused /\ st = Unused /\ retry = Unused /\
       held = Unused /\ admin = Unused /\ tracker = Unused /\ told = Unused /\
       named = Unused /\ torn = Unused /\ runs = Unused /\ changes = Unused
  /\ IF on = "shoebox" THEN TRUE ELSE posts = Unused /\ mem = Unused /\ today = Unused /\
       known = Unused /\ lost = Unused
  /\ IF on = "time" THEN TRUE ELSE zone = Unused /\ schedule = Unused /\ wall = Unused /\
       summer = Unused /\ skipped = Unused /\ shown = Unused /\ last = Unused /\
       since = Unused
  /\ IF on \in {"connections", "trader", "digest", "shoebox"} THEN TRUE ELSE
       failures = Unused
  /\ IF on \in {"trader", "digest"} THEN TRUE ELSE run = Unused
  /\ IF on \in {"digest", "shoebox"} THEN TRUE ELSE stored = Unused
  /\ IF on \in {"digest", "time"} THEN TRUE ELSE now = Unused
OthersStay ==
  /\ IF on = "enrollment" THEN TRUE ELSE UNCHANGED <<pc, draft, disk, cfg, account, keys,
       fresh, passes, faults>>
  /\ IF on = "connections" THEN TRUE ELSE UNCHANGED <<at, clients, closed, resolved, old,
       req, calm>>
  /\ IF on = "trader" THEN TRUE ELSE UNCHANGED <<scene, nana, coming, memory, slot, day,
       left>>
  /\ IF on = "digest" THEN TRUE ELSE UNCHANGED <<truth, st, retry, held, admin, tracker,
       told, named, torn, runs, changes>>
  /\ IF on = "shoebox" THEN TRUE ELSE UNCHANGED <<posts, mem, today, known, lost>>
  /\ IF on = "time" THEN TRUE ELSE UNCHANGED <<zone, schedule, wall, summer, skipped,
       shown, last, since>>
  /\ IF on \in {"connections", "trader", "digest", "shoebox"} THEN TRUE ELSE UNCHANGED <<
       failures>>
  /\ IF on \in {"trader", "digest"} THEN TRUE ELSE UNCHANGED <<run>>
  /\ IF on \in {"digest", "shoebox"} THEN TRUE ELSE UNCHANGED <<stored>>
  /\ IF on \in {"digest", "time"} THEN TRUE ELSE UNCHANGED <<now>>

SuiteInit ==
  /\ on \in Parts
  /\ \/ on = "enrollment" /\ Init
     \/ on = "connections" /\ Kept!Init
     \/ on = "trader" /\ Trading!Init
     \/ on = "digest" /\ Digest!Init
     \/ on = "shoebox" /\ Box!Init
     \/ on = "time" /\ Clock!Init
  /\ OthersOff
SuiteNext ==
  \/ on = "enrollment" /\ Next /\ OthersStay /\ UNCHANGED on
  \/ on = "connections" /\ Kept!Next /\ OthersStay /\ UNCHANGED on
  \/ on = "trader" /\ Trading!Next /\ OthersStay /\ UNCHANGED on
  \/ on = "digest" /\ Digest!Next /\ OthersStay /\ UNCHANGED on
  \/ on = "shoebox" /\ Box!Next /\ OthersStay /\ UNCHANGED on
  \/ on = "time" /\ Clock!Tick /\ OthersStay /\ UNCHANGED on
SuiteSpec == SuiteInit /\ [][SuiteNext]_suiteVars

-----------------------------------------------------------------------------
ASSUME /\ Kept!KeptConnectionsAssumption /\ EnrollmentAssumption /\ Trading!TraderAssumption
       /\ Digest!DigestAssumption /\ Box!ShoeboxAssumption /\ Clock!LocalTimeAssumption

\* What may change something is sent once, and a read over a dropped kept
\* connection is tried again; a failed request met a fault of its own
\* (esp32/client.rs).
NeverTwice ==
  on = "connections" => Kept!TypeOK /\ Kept!NeverTwice /\ Kept!ReadsSurvive /\ Kept!FailuresForgotten

\* Daily caps, reserves, one loan a member and a bank's total hold over lost
\* answers and power cuts (trader/mod.rs, strategy.rs).
MoneyRules == on = "trader" => Trading!MoneyRules
\* "a retried run never moves money twice" (nanacoin.rs:9-11): a steady buyer
\* takes one quote in a slot.  It does not hold.
RetryMovesOnce == on = "trader" => Trading!RetryMovesOnce

\* A person hears of a condition or a reset once until it is worse or due again,
\* or its boot is read as another minute; no reset the memory passes goes unnamed,
\* and a week's two lines agree (sre.rs).
DigestHolds ==
  /\ [](on = "digest" => Digest!WeekAgrees)
  /\ [][on = "digest" => Digest!ToldOnceStep /\ Digest!NothingSlipsStep]_suiteVars

\* "a retried digest never notifies twice" (sre.rs:382), as it stands.  It does not
\* hold: the retry may read the boot of a reset as another minute.
RetryTellsOnce == [][on = "digest" => Digest!RetryTellsOnceStep]_suiteVars

\* What the bot remembers of its last turn is what the household shows; turns
\* come in order, one a date (shoebox.rs).
TurnsHold == on = "shoebox" => Box!TurnsHold

\* Local time follows the wall clock over every change of the hour, and no slot
\* is skipped or comes twice (tz.rs, schedule.rs).
SlotsAgree ==
  /\ [](on = "time" => Clock!ClockAgrees)
  /\ [][on = "time" => Clock!SlotsAgreeStep]_suiteVars
=============================================================================
