------------------------------- MODULE Trader -------------------------------
(***************************************************************************)
(* The NanaCoin trader (bots/trader): a run reads the market, asks its     *)
(* strategy what to do, keeps what the money limits allow and does it, one *)
(* request after another.  A request carries a key made of the slot and    *)
(* what it does, and NanaCoin does each key once.  An answer may be lost,  *)
(* and power may go before the run's memory is saved; the schedule (see    *)
(* BotRuns) then runs the slot again.                                      *)
(*                                                                         *)
(* Amounts are whole NC and cents; a rate is cents for one NC.  Posts      *)
(* about trades are left out.                                              *)
(***************************************************************************)
EXTENDS Integers, Sequences, SequencesExt, FiniteSets, FiniteSetsExt

CONSTANTS Scenes,      \* the settings of a trader with the market it meets
          RatesKept,   \* RATES_KEPT
          MaxSlots, MaxFaults   \* bounds: runs, and lost answers and power cuts

\* A scene: s, the settings (size stands for the size, spend or ask of the
\* strategy and most for what it may hold, owe or lend), and market, what
\* the members will put up.
TraderAssumption == {RatesKept, MaxSlots, MaxFaults} \subseteq Nat

VARIABLES scene,
          nana,      \* NanaCoin: the bot's money, quotes, lottos, loans, keys, trades
          coming,    \* what the members have still to put up
          memory,    \* the bot's stored memory
          run,       \* the run under way
          slot, day, \* the newest slot, whether it is still to be done, and its day
          left,      \* what left the bot that day, and what of it was not written down
          faults

vars == <<scene, nana, coming, memory, run, slot, day, left, faults>>

s == scene.s
Zero == [nc |-> 0, cents |-> 0]
Plus(a, b) == [nc |-> a.nc + b.nc, cents |-> a.cents + b.cents]

(***************************************************************************)
(* Actions and what could leave the bot's accounts (Action::outflow, key). *)
(***************************************************************************)
Action(kind, id, side, rate, coins, with) ==
  [kind |-> kind, id |-> id, side |-> side, rate |-> rate, coins |-> coins, with |-> with]
Take(q) == Action("take", q.id, q.side, q.rate, q.coins, q.maker)
Post(side, rate, coins) == Action("post", 0, side, rate, coins, "no one")
Cancel(q) == Action("cancel", q.id, q.side, 0, 0, "no one")
Outflow(a) ==
  CASE \/ a.kind = "take" /\ a.side = "BID"
       \/ a.kind = "post" /\ a.side = "ASK"
       \/ a.kind \in {"tickets", "lend"}      -> [nc |-> a.coins, cents |-> 0]
    [] \/ a.kind = "take" /\ a.side = "ASK"
       \/ a.kind = "post" /\ a.side = "BID"   -> [nc |-> 0, cents |-> a.coins * a.rate]
    [] OTHER                                  -> Zero
\* For a post the key names its side and rate, for the others what they act on.
Key(a) == IF a.kind = "post" THEN <<a.side, a.rate>> ELSE <<a.kind, a.id>>

(***************************************************************************)
(* The strategies.  m is what the run has read.                            *)
(***************************************************************************)
Open(m, side, most) == {q \in m.quotes : q.side = side /\ q.maker # "me" /\ q.coins <= most}
BestAsk(m, most) ==
  {p \in Open(m, "ASK", most) : \A q \in Open(m, "ASK", most) : p.rate < q.rate \/ (p.rate = q.rate /\ p.id <= q.id)}
BestBid(m, most) ==
  {p \in Open(m, "BID", most) : \A q \in Open(m, "BID", most) : p.rate > q.rate \/ (p.rate = q.rate /\ p.id <= q.id)}
Own(m, side) == {q \in m.quotes : q.maker = "me" /\ q.side = side}
Taken(quotes) == SetToSeq({Take(q) : q \in quotes})
Perhaps(p, a) == IF p THEN <<a>> ELSE <<>>

Band(m) ==
  LET takes == IF s.mode = "make" THEN <<>>
               ELSE Taken({q \in BestAsk(m, s.size) : q.rate <= s.buy /\ m.nc + q.coins <= s.most})
                    \o Taken({q \in BestBid(m, s.size) : q.rate >= s.sell})
      Fits(q, rate) == q.rate = rate /\ q.coins = s.size
      Off(side, rate) == SetToSeq({Cancel(q) : q \in {p \in Own(m, side) : ~Fits(p, rate)}})
      Has(side, rate) == \E q \in Own(m, side) : Fits(q, rate)
      makes == IF s.mode = "take" THEN <<>>
               ELSE Off("BID", s.buy) \o Off("ASK", s.sell)
                    \o Perhaps(~Has("BID", s.buy) /\ m.nc + s.size <= s.most, Post("BID", s.buy, s.size))
                    \o Perhaps(~Has("ASK", s.sell), Post("ASK", s.sell, s.size))
  IN takes \o makes

\* Every open lotto once, for what the spend buys.
Lotto(m) ==
  SetToSeq({Action("tickets", l.id, "", 0, (s.size \div l.price) * l.price, l.house) :
              l \in {k \in m.lottos : k.mine = 0 /\ k.house # "me" /\ s.size \div k.price > 0}})

SumOf(loans) == FoldSet(LAMBDA l, n : n + l.amount, 0, loans)
Owed(m) == SumOf({l \in m.loans : l.borrower = "me" /\ l.status = "ACTIVE"})
\* In the order of their rates, as many as there is room for, and one for
\* each borrower other than the bot.
Sorted(loans, dear) ==
  SetToSortSeq(loans, LAMBDA k, l : IF k.apr = l.apr THEN k.id < l.id ELSE dear = (k.apr > l.apr))
Greedy(loans, room, dear) ==
  FoldLeft(LAMBDA acc, l : IF l.amount <= acc.room /\ (\A k \in acc.got : k.borrower # l.borrower \/ k.borrower = "me")
                           THEN [room |-> acc.room - l.amount, got |-> acc.got \cup {l}] ELSE acc,
           [room |-> room, got |-> {}], Sorted(loans, dear))
Borrow(m) ==
  LET offers == {l \in m.loans : l.status = "OFFERED" /\ l.borrower = "me" /\ l.apr < s.buy}
      took == Greedy(offers, s.most - Owed(m), FALSE)
      asking == \E l \in m.loans : l.status = "REQUESTED" /\ l.borrower = "me"
  IN SetToSeq({Action("accept", l.id, "", 0, 0, l.lender) : l \in took.got})
     \o Perhaps(s.size \in 1..took.room /\ ~asking /\ took.got = {}, Action("ask", 0, "", 0, s.size, "no one"))

MyLoans(m) == {l \in m.loans : l.lender = "me" /\ l.status \in {"ACTIVE", "OFFERED"}}
Lend(m) ==
  LET busy == {l.borrower : l \in MyLoans(m)}
      asked == {l \in m.loans : /\ l.status = "REQUESTED" /\ l.borrower \notin busy \cup {"me"}
                                /\ l.apr >= s.sell /\ l.amount <= s.size}
  IN SetToSeq({Action("lend", l.id, "", 0, l.amount, l.borrower) :
                 l \in Greedy(asked, s.most - SumOf(MyLoans(m)), TRUE).got})

Dca(m) ==
  LET quote == IF s.buying THEN {q \in BestAsk(m, s.size) : q.rate <= s.buy}
               ELSE {q \in BestBid(m, s.size) : q.rate >= s.buy}
      side == IF s.buying THEN "BID" ELSE "ASK"
  IN IF quote # {} THEN Taken(quote) ELSE Perhaps(Own(m, side) = {}, Post(side, s.buy, s.size))

Rates(quotes) == {q.rate : q \in quotes}
Price(m) ==
  LET ask == Rates(BestAsk(m, 99)) bid == Rates(BestBid(m, 99))
  IN IF m.rates # <<>> THEN Last(m.rates)
     ELSE IF ask # {} /\ bid # {} THEN (Max(ask) + Max(bid)) \div 2
     ELSE Max(ask \cup bid \cup {0})
Rebalance(m) ==
  LET coins == Max({m.nc, 0}) * Price(m)  total == coins + Max({m.cents, 0})
      share == (coins * 100) \div total
  IN IF Price(m) = 0 \/ total = 0 THEN <<>>
     ELSE Taken(IF share > s.most + s.band THEN BestBid(m, s.size)
                ELSE IF share < s.most - s.band THEN BestAsk(m, s.size) ELSE {})

Tail3(rates) == SubSeq(rates, Max({1, Len(rates) - s.window + 1}), Len(rates))
Revert(m) ==
  LET recent == Tail3(m.rates)
      avg == FoldLeft(LAMBDA n, r : n + r, 0, recent) \div Len(recent)
  IN IF Len(m.rates) < 3 THEN <<>>
     ELSE Taken({q \in BestAsk(m, s.size) : q.rate * 100 <= avg * (100 - s.band)})
          \o Taken({q \in BestBid(m, s.size) : q.rate * 100 >= avg * (100 + s.band)})

Decide(m) ==
  CASE s.strategy = "band" -> Band(m)           [] s.strategy = "lotto" -> Lotto(m)
    [] s.strategy = "borrow" -> Borrow(m)       [] s.strategy = "lend" -> Lend(m)
    [] s.strategy = "dca" -> Dca(m)             [] s.strategy = "rebalance" -> Rebalance(m)
    [] s.strategy = "revert" -> Revert(m)

(***************************************************************************)
(* The money limits (guard).                                               *)
(***************************************************************************)
Allowed(a, purse) ==
  LET out == Outflow(a)
  IN /\ a.with # "me" /\ (a.with = "bot" => s.bots)
     /\ purse.nc - out.nc >= s.reserve.nc /\ purse.cents - out.cents >= s.reserve.cents
     /\ out.nc <= purse.run /\ out.nc <= purse.day.nc /\ out.cents <= purse.day.cents
\* Mutant: each action is held against the whole of the day's cap.
PaidOnce(purse, out) == [purse EXCEPT !.nc = @ - out.nc, !.cents = @ - out.cents, !.run = @ - out.nc]
Paid(purse, out) ==
  [purse EXCEPT !.nc = @ - out.nc, !.cents = @ - out.cents, !.run = @ - out.nc,
                !.day = [nc |-> @.nc - out.nc, cents |-> @.cents - out.cents]]
Guard(actions, m, spent) ==
  FoldLeft(LAMBDA p, a : IF Allowed(a, p) THEN [Paid(p, Outflow(a)) EXCEPT !.list = Append(@, a)] ELSE p,
           [nc |-> m.nc, cents |-> m.cents, run |-> s.run, list |-> <<>>,
            day |-> [nc |-> s.day.nc - spent.nc, cents |-> s.day.cents - spent.cents]],
           actions).list

(***************************************************************************)
(* NanaCoin, as the bot uses it.                                           *)
(***************************************************************************)
Sum(p, nc, cents) == [p EXCEPT !.nc = @ + nc, !.cents = @ + cents]
Find(set, id) == {x \in set : x.id = id}
NewId(n) == 1 + Cardinality(n.loans) + 10
Can(n, a) ==
  LET out == Outflow(a)
  IN /\ a.kind \in {"take", "tickets"} => n.nc >= out.nc /\ n.cents >= out.cents
     /\ a.kind \in {"take", "cancel"} => Find(n.quotes, a.id) # {}
     /\ a.kind = "post" => Cardinality({q \in n.quotes : q.maker = "me"}) < 2
     /\ a.kind \in {"accept", "lend"} => \E l \in Find(n.loans, a.id) : l.status \in {"OFFERED", "REQUESTED"}
Act(n, a) ==
  LET gone == [n EXCEPT !.quotes = @ \ Find(@, a.id)]
  IN CASE a.kind = "take" -> [Sum(gone, IF a.side = "BID" THEN -a.coins ELSE a.coins,
                                        IF a.side = "BID" THEN a.coins * a.rate ELSE -(a.coins * a.rate))
                              EXCEPT !.trades = Append(@, a.rate)]
       [] a.kind = "cancel" -> gone
       [] a.kind = "post" -> [n EXCEPT !.quotes = @ \cup {[id |-> Len(n.trades) + 20 + Cardinality(@), side |-> a.side,
                                                           rate |-> a.rate, coins |-> a.coins, maker |-> "me"]}]
       [] a.kind = "tickets" -> [Sum(n, -a.coins, 0) EXCEPT
                                   !.lottos = {IF l.id = a.id THEN [l EXCEPT !.mine = @ + a.coins] ELSE l : l \in @}]
       [] a.kind = "accept" -> [n EXCEPT !.nc = @ + SumOf(Find(n.loans, a.id)),
                                         !.loans = {IF l.id = a.id THEN [l EXCEPT !.status = "ACTIVE"] ELSE l : l \in @}]
       [] a.kind = "lend" -> [n EXCEPT !.loans = {IF l.id = a.id THEN [l EXCEPT !.status = "OFFERED", !.lender = "me"]
                                                  ELSE l : l \in @}]
       [] a.kind = "ask" -> [n EXCEPT !.loans = @ \cup {[id |-> NewId(n), lender |-> "no one", borrower |-> "me",
                                                         amount |-> a.coins, apr |-> s.buy - 1, status |-> "REQUESTED"]}]
Keyed(a) == <<slot.n, Key(a)>>

\* The members: they put things up, and take what the bot has put up.
Arrives(x) ==
  /\ x \in coming /\ coming' = coming \ {x}
  /\ nana' = CASE x.what = "quote" -> [nana EXCEPT !.quotes = @ \cup {x.is}]
               [] x.what = "lotto" -> [nana EXCEPT !.lottos = @ \cup {x.is}]
               [] x.what = "loan" -> [nana EXCEPT !.loans = @ \cup {x.is}]
  /\ UNCHANGED <<scene, memory, run, slot, day, left, faults>>
TakeOurs(q) ==
  /\ q \in Own(nana, "BID") \cup Own(nana, "ASK")
  /\ nana' = [Sum(nana, IF q.side = "BID" THEN q.coins ELSE -q.coins, IF q.side = "BID" THEN -(q.coins * q.rate) ELSE q.coins * q.rate)
              EXCEPT !.quotes = @ \ {q}, !.trades = Append(@, q.rate)]
  /\ nana'.nc >= 0 /\ nana'.cents >= 0
  /\ UNCHANGED <<scene, coming, memory, run, slot, day, left, faults>>
TakeUp(l) ==
  /\ l \in nana.loans /\ l.lender = "me" /\ l.status = "OFFERED" /\ nana.nc >= l.amount
  /\ nana' = [nana EXCEPT !.nc = @ - l.amount, !.loans = (@ \ {l}) \cup {[l EXCEPT !.status = "ACTIVE"]}]
  /\ UNCHANGED <<scene, coming, memory, run, slot, day, left, faults>>

(***************************************************************************)
(* A run.                                                                  *)
(***************************************************************************)
NoRun == [at |-> "idle", purse |-> Zero, plan |-> <<>>, out |-> Zero, rates |-> <<>>, cursor |-> 0]
Spent == IF memory.day = day THEN memory.spent ELSE Zero
\* The account is read first, the market after it.
ReadMe ==
  /\ run.at = "idle" /\ slot.open
  /\ run' = [NoRun EXCEPT !.at = "read", !.purse = [nc |-> nana.nc, cents |-> nana.cents]]
  /\ UNCHANGED <<scene, nana, coming, memory, slot, day, left, faults>>
Kept(rates) == SubSeq(rates, Max({1, Len(rates) - RatesKept + 1}), Len(rates))
ReadMarket ==
  /\ run.at = "read"
  /\ LET follows == s.strategy \in {"rebalance", "revert"}
         rates == IF follows THEN Kept(memory.rates \o SubSeq(nana.trades, memory.cursor + 1, Len(nana.trades)))
                  ELSE memory.rates
         m == [nc |-> run.purse.nc, cents |-> run.purse.cents, quotes |-> nana.quotes, lottos |-> nana.lottos,
               loans |-> nana.loans, rates |-> rates]
     IN run' = [run EXCEPT !.at = "acts", !.plan = IF s.dry THEN <<>> ELSE Guard(Decide(m), m, Spent),
                           !.rates = rates, !.cursor = IF follows THEN Len(nana.trades) ELSE memory.cursor]
  /\ UNCHANGED <<scene, nana, coming, memory, slot, day, left, faults>>
Remember(out, open) ==
  /\ memory' = [day |-> day, spent |-> Plus(Spent, out), rates |-> run.rates, cursor |-> run.cursor]
  /\ run' = NoRun
  /\ slot' = [slot EXCEPT !.open = open]
Does(a) == nana' = IF Keyed(a) \in nana.keys THEN nana ELSE [Act(nana, a) EXCEPT !.keys = @ \cup {Keyed(a)}]
Left(a) == IF Keyed(a) \in nana.keys THEN Zero ELSE Outflow(a)
Does1 ==
  /\ run.at = "acts" /\ run.plan # <<>>
  /\ LET a == Head(run.plan)
     IN /\ Keyed(a) \in nana.keys \/ Can(nana, a)
        /\ Does(a)
        /\ run' = [run EXCEPT !.plan = Tail(@), !.out = Plus(@, Outflow(a))]
        /\ left' = [left EXCEPT !.all = Plus(@, Left(a))]
  /\ UNCHANGED <<scene, coming, memory, slot, day, faults>>
\* An answer that no retry will change: the run is over.
Refused ==
  /\ run.at = "acts" /\ run.plan # <<>>
  /\ Keyed(Head(run.plan)) \notin nana.keys /\ ~Can(nana, Head(run.plan))
  /\ Remember(run.out, FALSE)
  /\ UNCHANGED <<scene, nana, coming, day, left, faults>>
\* No answer, whether or not NanaCoin did it: the slot is tried again.
Lost ==
  /\ run.at = "acts" /\ run.plan # <<>> /\ faults < MaxFaults /\ faults' = faults + 1
  /\ LET a == Head(run.plan)
     IN \/ UNCHANGED <<nana, left>>
        \/ /\ Keyed(a) \notin nana.keys /\ Can(nana, a)
           /\ Does(a)
           /\ left' = [all |-> Plus(left.all, Outflow(a)), hidden |-> Plus(left.hidden, Outflow(a))]
  /\ Remember(run.out, TRUE)
  /\ UNCHANGED <<scene, coming, day>>
Finish ==
  /\ run.at = "acts" /\ run.plan = <<>>
  /\ Remember(run.out, FALSE)
  /\ UNCHANGED <<scene, nana, coming, day, left, faults>>
PowerCut ==
  /\ run.at # "idle" /\ faults < MaxFaults /\ faults' = faults + 1
  /\ run' = NoRun
  /\ left' = [left EXCEPT !.hidden = Plus(@, run.out)]
  /\ UNCHANGED <<scene, nana, coming, memory, slot, day>>
\* The next slot comes, on the same day or the next.
NextSlot ==
  /\ run.at = "idle" /\ slot.n < MaxSlots
  /\ slot' = [n |-> slot.n + 1, open |-> TRUE]
  /\ \/ UNCHANGED <<day, left>>
     \/ day' = day + 1 /\ left' = [all |-> Zero, hidden |-> Zero]
  /\ UNCHANGED <<scene, nana, coming, memory, run, faults>>

Init ==
  /\ scene \in Scenes
  /\ nana = [nc |-> scene.nc, cents |-> scene.cents, quotes |-> {}, lottos |-> {}, loans |-> {}, keys |-> {},
             trades |-> scene.trades]
  /\ coming = scene.market
  /\ memory = [day |-> 0, spent |-> Zero, rates |-> <<>>, cursor |-> 0]
  /\ run = NoRun /\ slot = [n |-> 1, open |-> TRUE] /\ day = 1
  /\ left = [all |-> Zero, hidden |-> Zero] /\ faults = 0

Next ==
  \/ \E x \in coming : Arrives(x)
  \/ \E q \in nana.quotes : TakeOurs(q)
  \/ \E l \in nana.loans : TakeUp(l)
  \/ ReadMe \/ ReadMarket \/ Does1 \/ Refused \/ Lost \/ Finish \/ PowerCut
  \/ NextSlot

Spec == Init /\ [][Next]_vars

-----------------------------------------------------------------------------
\* Whatever answers are lost and wherever power goes: no more leaves in a
\* day than the day's caps and what went unwritten; a trader that puts up
\* nothing of its own never goes under its reserves; a lotto is paid for
\* once; and a bank lends each member one loan, and no more than its total
\* in all (settings of trader/mod.rs, "Money limits").
MoneyRules ==
  /\ left.all.nc <= s.day.nc + left.hidden.nc /\ left.all.cents <= s.day.cents + left.hidden.cents
  /\ (s.strategy \in {"lotto", "rebalance", "revert"} \/ (s.strategy = "band" /\ s.mode = "take"))
       => nana.nc >= s.reserve.nc /\ nana.cents >= s.reserve.cents
  /\ \A l \in nana.lottos : l.mine <= s.size
  /\ s.strategy = "lend" => /\ SumOf(MyLoans(nana)) <= s.most
                            /\ \A k, l \in MyLoans(nana) : k.borrower = l.borrower => k = l
  /\ s.strategy = "borrow" => Owed(nana) <= s.most

\* "a retried run never moves money twice" (nanacoin.rs:9-11): a steady
\* buyer takes one quote in a slot.
RetryMovesOnce ==
  s.strategy = "dca" => \A n \in 1..MaxSlots : Cardinality({k \in nana.keys : k[1] = n /\ k[2][1] = "take"}) <= 1
=============================================================================
