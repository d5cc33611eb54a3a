------------------------------- MODULE Shoebox -------------------------------
(***************************************************************************)
(* Civilization in a Shoebox (bots/shoebox): a game of one turn a day, led *)
(* by the poll under the last turn and told by a language model.  Its      *)
(* memory is saved when a run ends, also when it fails; a power cut in a   *)
(* run loses what the run had put there.  The household posts once for a   *)
(* key it remembers.                                                       *)
(*                                                                         *)
(* Of a turn only how it ends matters: PLAY has a poll, WIN and LOSS none. *)
(***************************************************************************)
EXTENDS Naturals, Sequences, FiniteSets

CONSTANTS MaxDay, MaxFaults   \* bounds: dates, failures

ShoeboxAssumption == {MaxDay, MaxFaults} \subseteq Nat

Endings == {"PLAY", "WIN", "LOSS"}

VARIABLES posts,      \* the turns in the household, oldest first
          mem, disk,  \* the bot's memory in the record, and as last saved
          today,      \* the date of the slot
          known,      \* the keys the household remembers: key -> post
          lost,       \* history: a run's memory was lost, or a key forgotten
          faults

vars == <<posts, mem, disk, today, known, lost, faults>>

NoTurn   == [day |-> 0, ending |-> "PLAY"]
NoMemory == [date |-> 0, day |-> 0, ending |-> "PLAY", generation |-> 0, post |-> 0, pending |-> NoTurn]

DayOfGame(m) == IF m.ending # "PLAY" THEN 1 ELSE m.day + 1
\* Is there something to do: the last poll is closed, or a game begins.
Ready(m) == m.ending # "PLAY" \/ m.post = 0 \/ (posts[m.post].ending = "PLAY" /\ posts[m.post].closed)
\* The turn to post: the one of an earlier attempt, or what the model makes.
Turns(m) ==
  IF m.pending # NoTurn THEN {m.pending}
  ELSE IF ~Ready(m) THEN {}
  ELSE {[day |-> DayOfGame(m), ending |-> e] : e \in (IF DayOfGame(m) = 1 THEN {"PLAY"} ELSE Endings)}

Key(m, turn) == <<m.generation, turn.day>>
Lands(m, turn) ==
  IF Key(m, turn) \in DOMAIN known THEN UNCHANGED <<posts, known>>
  ELSE /\ posts' = Append(posts, [date |-> today, game |-> m.generation, day |-> turn.day, ending |-> turn.ending, closed |-> FALSE])
       /\ known' = [k \in DOMAIN known \cup {Key(m, turn)} |-> IF k = Key(m, turn) THEN Len(posts') ELSE known[k]]
Saved(m, ok) == mem' = m /\ disk' = IF ok THEN m ELSE disk

\* A run that comes through.
Turn ==
  /\ mem.date # today
  /\ \E turn \in Turns(mem) :
       /\ Lands(mem, turn)
       /\ Saved([date |-> today, day |-> turn.day, ending |-> turn.ending, post |-> known'[Key(mem, turn)],
                 generation |-> mem.generation + (IF turn.ending # "PLAY" THEN 1 ELSE 0), pending |-> NoTurn], TRUE)
  /\ UNCHANGED <<today, lost, faults>>
\* Mutant: what the model made is not kept for the next attempt.
KeepNothing(m, turn) == m
Keep(m, turn) == [m EXCEPT !.pending = turn]
\* The post lands or not, its answer is lost; or the save after it, or power
\* before it.
Fails(ok, cut) ==
  /\ mem.date # today /\ faults < MaxFaults /\ faults' = faults + 1
  /\ \E turn \in Turns(mem) :
       /\ Lands(mem, turn) \/ UNCHANGED <<posts, known>>
       /\ IF cut THEN mem' = disk /\ UNCHANGED disk ELSE Saved(Keep(mem, turn), ok)
  /\ lost' = (lost \/ cut)
  /\ UNCHANGED today
NextDate == today < MaxDay /\ today' = today + 1 /\ UNCHANGED <<posts, mem, disk, known, lost, faults>>
PollCloses(p) ==
  /\ ~posts[p].closed /\ posts' = [posts EXCEPT ![p].closed = TRUE]
  /\ UNCHANGED <<mem, disk, today, known, lost, faults>>
HouseholdForgets ==
  /\ DOMAIN known # {} /\ faults < MaxFaults /\ faults' = faults + 1
  /\ known' = <<>> /\ lost' = (lost \/ mem.pending # NoTurn)
  /\ UNCHANGED <<posts, mem, disk, today>>
PowerCut ==
  /\ mem # disk /\ mem' = disk /\ lost' = TRUE
  /\ UNCHANGED <<posts, disk, today, known, faults>>

Init == posts = <<>> /\ mem = NoMemory /\ disk = NoMemory /\ today = 1 /\ known = <<>> /\ lost = FALSE /\ faults = 0
Next ==
  \/ Turn \/ NextDate \/ HouseholdForgets \/ PowerCut
  \/ \E ok, cut \in BOOLEAN : Fails(ok, cut)
  \/ \E p \in DOMAIN posts : PollCloses(p)
Spec == Init /\ [][Next]_vars

-----------------------------------------------------------------------------
\* "bounded durable memory" (shoebox.rs:1) and "A victory or extinction starts a
\* new game next day" (:14): what the bot remembers of the last turn is what the
\* household shows, so there is a poll to wait for; the turns are in order, one
\* a date, and a game follows a finished one.  A lost save or a forgotten key
\* breaks each.
TurnsHold ==
  ~lost =>
    /\ mem.post # 0 => posts[mem.post].ending = mem.ending /\ posts[mem.post].day = mem.day
    /\ mem.post # 0 /\ mem.ending = "PLAY" /\ mem.pending = NoTurn => mem.post = Len(posts)
    /\ \A p \in 1..(Len(posts) - 1) :
         /\ posts[p].date < posts[p + 1].date
         /\ IF posts[p].ending = "PLAY"
            THEN posts[p + 1].game = posts[p].game /\ posts[p + 1].day = posts[p].day + 1 /\ posts[p].closed
            ELSE posts[p + 1].game = posts[p].game + 1 /\ posts[p + 1].day = 1
=============================================================================
