------------------------------- MODULE NanaNews -------------------------------
(***************************************************************************)
(* The NanaCoin news bot (bots/nana_news): it reads NanaCoin's activity    *)
(* feed after the cursor it remembers, makes its posts of it, posts them   *)
(* under keys the household does once, and moves the cursor.  Its memory   *)
(* is saved when a run ends, also when it fails; a power cut in a run      *)
(* loses what the run had put there.                                       *)
(*                                                                         *)
(* An event is its number in the feed, a text the set of events it tells.  *)
(* What the settings leave out, as they may the bots' own activity, is a   *)
(* kind of its own.  The slot in the memory is kept as "is it this slot".  *)
(***************************************************************************)
EXTENDS Naturals, Sequences, SequencesExt, FiniteSets, FiniteSetsExt

CONSTANTS Ticked,      \* the ticked categories, in posting order
          Kinds,       \* what may happen in the economy
          Counted,     \* the kinds the summary line counts
          SummaryOn, MaxPosts,   \* the other settings
          RollUpOver, PageSize, Pages,     \* 3, 50 and 4 in the code
          FeedKeeps,   \* how many events NanaCoin keeps
          MaxEvents, MaxFaults   \* bounds

NewsAssumption ==
  /\ {MaxPosts, PageSize, Pages, FeedKeeps} \subseteq Nat \ {0}
  /\ {RollUpOver, MaxEvents, MaxFaults} \subseteq Nat
  /\ Range(Ticked) \cup Counted \subseteq Kinds

VARIABLES feed,     \* the economy's events, oldest first
          era,      \* its incarnation
          mem,      \* the bot's memory in the record, disk: as last saved
          disk,
          run,      \* the run under way
          posted,   \* the keys the household remembers
          told,     \* history: how many posts tell an event of this era
          excuse,   \* history: the household or NanaCoin forgot what a run had used
          faults

vars == <<feed, era, mem, disk, run, posted, told, excuse, faults>>

NoMemory == [known |-> FALSE, cursor |-> 0, era |-> 0, thisSlot |-> FALSE, upto |-> 0]
NoRun    == [on |-> FALSE, mem |-> NoMemory, drafts |-> <<>>, reached |-> 0]

(***************************************************************************)
(* What a run reads and makes of it.                                       *)
(***************************************************************************)
Gone == IF Len(feed) > FeedKeeps THEN Len(feed) - FeedKeeps ELSE 0
Events(cursor, upto) ==
  LET from == Max({cursor, Gone})
      last == Min({Len(feed), from + Pages * PageSize})
  IN [k \in 1..(IF Min({last, upto}) > from THEN Min({last, upto}) - from ELSE 0) |-> from + k]
\* The page cap was reached before upto: the next run goes on from there.
Reached(events, upto) ==
  IF events # <<>> /\ Last(events) < upto /\ Len(events) >= Pages * PageSize THEN Last(events) ELSE upto

OfCategory(c, events) == SelectSeq(events, LAMBDA n : feed[n] = c)
\* Mutant: a crowded category goes under the key of its last event.
DraftsByLast(c, events) ==
  LET these == OfCategory(c, events)
  IN IF Len(these) > RollUpOver THEN <<[key |-> <<c, Last(these)>>, tells |-> Range(these)]>>
     ELSE [k \in 1..Len(these) |-> [key |-> <<c, these[k]>>, tells |-> {these[k]}]]
\* A crowded category is one line, under the key of its first event.
DraftsOf(c, events) ==
  LET these == OfCategory(c, events)
  IN IF Len(these) > RollUpOver THEN <<[key |-> <<c, Head(these)>>, tells |-> Range(these)]>>
     ELSE [k \in 1..Len(these) |-> [key |-> <<c, these[k]>>, tells |-> {these[k]}]]
Summary(events) ==
  IF SummaryOn /\ \E n \in Range(events) : feed[n] \in Counted
  THEN <<[key |-> <<"summary", Last(events)>>, tells |-> {}]>> ELSE <<>>
Compose(events) ==
  LET lines == FlattenSeq([k \in 1..Len(Ticked) |-> DraftsOf(Ticked[k], events)])
      room == MaxPosts - Len(Summary(events))
  IN SubSeq(lines, 1, Min({room, Len(lines)})) \o Summary(events)

(***************************************************************************)
(* A run.                                                                  *)
(***************************************************************************)
Unpinned(m) == [m EXCEPT !.thisSlot = FALSE, !.upto = 0]
\* The end of a run: the memory is in the record, saved or not.
Ends(m, ok) ==
  /\ run' = NoRun /\ mem' = m
  /\ \/ ok /\ disk' = m
     \/ ~ok /\ disk' = disk

\* The first run, and the first after a reset, watch from now.
Watch ==
  /\ ~run.on /\ (~mem.known \/ mem.era # era)
  /\ Ends([known |-> TRUE, cursor |-> Len(feed), era |-> era, thisSlot |-> FALSE, upto |-> 0], TRUE)
  /\ UNCHANGED <<feed, era, posted, told, excuse, faults>>

\* The first attempt at a slot fixes how far the slot reaches.
Upto == IF mem.thisSlot THEN mem.upto ELSE Len(feed)
Start ==
  /\ ~run.on /\ mem.known /\ mem.era = era
  /\ LET events == Events(mem.cursor, Upto)
     IN run' = [on |-> TRUE, mem |-> [mem EXCEPT !.thisSlot = TRUE, !.upto = Upto],
                drafts |-> Compose(events), reached |-> Reached(events, Upto)]
  /\ UNCHANGED <<feed, era, mem, disk, posted, told, excuse, faults>>

\* The household posts once for a key it remembers.
Lands(d) ==
  IF d.key \in posted THEN UNCHANGED <<posted, told>>
  ELSE /\ posted' = posted \cup {d.key}
       /\ told' = [n \in DOMAIN told |-> IF n \in d.tells /\ run.mem.era = era THEN told[n] + 1 ELSE told[n]]
PostDraft ==
  /\ run.on /\ run.drafts # <<>> /\ Lands(Head(run.drafts))
  /\ run' = [run EXCEPT !.drafts = Tail(@)]
  /\ UNCHANGED <<feed, era, mem, disk, excuse, faults>>
\* Mutant: a run that had nothing to post leaves the cursor.
FinishUnmoved ==
  /\ run.on /\ run.drafts = <<>>
  /\ Ends(Unpinned(IF Compose(Events(run.mem.cursor, run.mem.upto)) = <<>> THEN run.mem ELSE [run.mem EXCEPT !.cursor = run.reached]), TRUE)
  /\ UNCHANGED <<feed, era, posted, told, excuse, faults>>
Finish ==
  /\ run.on /\ run.drafts = <<>>
  /\ Ends(Unpinned([run.mem EXCEPT !.cursor = run.reached]), TRUE)
  /\ UNCHANGED <<feed, era, posted, told, excuse, faults>>

\* A post is refused, or its answer is lost: the run fails and keeps its memory.
PostFails ==
  /\ run.on /\ run.drafts # <<>> /\ faults < MaxFaults /\ faults' = faults + 1
  /\ Lands(Head(run.drafts)) \/ UNCHANGED <<posted, told>>
  /\ \E ok \in BOOLEAN : Ends(run.mem, ok)
  /\ UNCHANGED <<feed, era, excuse>>
PowerCut ==
  /\ faults < MaxFaults /\ faults' = faults + 1
  /\ run' = NoRun /\ mem' = disk
  /\ UNCHANGED <<feed, era, disk, posted, told, excuse>>

\* The next slot comes; one given up leaves its pin behind.
NextSlot ==
  /\ ~run.on /\ mem' = Unpinned(mem) /\ disk' = Unpinned(disk)
  /\ UNCHANGED <<feed, era, run, posted, told, excuse, faults>>

(***************************************************************************)
(* NanaCoin and the household.                                             *)
(***************************************************************************)
Happens(kind) ==
  /\ Len(feed) < MaxEvents /\ feed' = Append(feed, kind)
  /\ excuse' = (excuse \/ Len(feed') > FeedKeeps + mem.cursor)
  /\ UNCHANGED <<era, mem, disk, run, posted, told, faults>>
Reset ==
  /\ faults < MaxFaults /\ faults' = faults + 1
  /\ feed' = <<>> /\ era' = era + 1 /\ told' = [n \in 1..MaxEvents |-> 0]
  /\ UNCHANGED <<mem, disk, run, posted, excuse>>
HouseholdForgets ==
  /\ posted # {} /\ faults < MaxFaults /\ faults' = faults + 1
  /\ posted' = {} /\ excuse' = TRUE
  /\ UNCHANGED <<feed, era, mem, disk, run, told>>

Init ==
  /\ feed = <<>> /\ era = 0 /\ mem = NoMemory /\ disk = NoMemory /\ run = NoRun
  /\ posted = {} /\ told = [n \in 1..MaxEvents |-> 0] /\ excuse = FALSE /\ faults = 0
Works == Watch \/ Start \/ PostDraft \/ Finish
Next ==
  \/ Works \/ PostFails \/ PowerCut \/ NextSlot \/ Reset \/ HouseholdForgets
  \/ \E kind \in Kinds : Happens(kind)
\* The schedule runs the bot, and runs it again after a failure or in a later slot.
Spec == Init /\ [][Next]_vars /\ WF_vars(Works) /\ SF_vars(NextSlot)

-----------------------------------------------------------------------------
\* "Retries are safe" (nana_news.rs:9): through failed runs, lost answers and
\* power cuts no event is told twice, in a line of its own and in a roll-up or in
\* two of them, while the household remembers its keys and NanaCoin its events.
ToldOnce == ~excuse => \A n \in 1..MaxEvents : told[n] <= 1
Passed(n) == Len(feed) < n \/ (mem.era = era /\ mem.cursor >= n)
\* The cursor passes every event of an economy in the end.
NewsMovesOn == \A n \in 1..MaxEvents : []<>Passed(n)
\* "the cursor moves only once every post is out" (nana_news.rs:9-11), of the
\* events a line was made for and the max per run did not leave out.
EveryPostIsOut ==
  (run.on /\ run.drafts = <<>> /\ run.mem.era = era /\ ~excuse) =>
    \A d \in Range(Compose(Events(mem.cursor, run.mem.upto))) : \A n \in d.tells : told[n] >= 1
=============================================================================
