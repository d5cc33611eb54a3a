------------------------------ MODULE MarsRover ------------------------------
(***************************************************************************)
(* Mars Expedition (bots/mars_rover): the members of a household steer one *)
(* rover.  The bot keeps nothing on its board: each run finds the newest   *)
(* save among its own posts, lets the rover live up to today, obeys some   *)
(* of the commands that came since, and posts what happened and then the   *)
(* new save, each under a key the household does once.                     *)
(*                                                                         *)
(* Texts, names and the two cursors' width are left out; a mention is the  *)
(* number it came with, and a long tale is one post.  did and from are     *)
(* kept to say what a save has obeyed: they are not in the post.           *)
(***************************************************************************)
EXTENDS Integers, Sequences, SequencesExt, FiniteSets, FiniteSetsExt

CONSTANTS Wide, High,       \* the map is 8 x 8
          Landing,          \* the site of landing
          Terrain, Storms, Drift,   \* what mix draws from the seed: the ground
                            \* of each site, the days of storm, each day's way
          Commands,         \* what a mention may say, "chat" outside the mission
          PerRun,           \* commands_per_run
          MaxDay, MaxMentions, MaxFaults   \* bounds

Sites == 0..(Wide * High - 1)
MarsAssumption ==
  /\ {Wide, High, PerRun, MaxDay, MaxMentions, MaxFaults} \subseteq Nat
  /\ Landing \in Sites /\ Terrain[Landing] = "basalt" /\ Storms \subseteq Nat

VARIABLES save,       \* the newest save in the thread, or none
          known,      \* the keys the household remembers
          mentions,   \* what the members said, oldest first
          today,      \* the date at the board
          run,        \* the run under way
          faults

vars == <<save, known, mentions, today, run, faults>>

Nowhere == -1
NoSave == [day |-> 0, pos |-> Nowhere, battery |-> 0, scanned |-> {}, samples |-> {}, cursor |-> 0,
           charged |-> 0, named |-> Nowhere, from |-> 0, did |-> <<>>]
NewRover(cursor) ==
  [NoSave EXCEPT !.day = 1, !.pos = Landing, !.battery = 100, !.scanned = {Landing}, !.cursor = cursor, !.from = cursor]

(***************************************************************************)
(* The rover.                                                              *)
(***************************************************************************)
Away(way) == CASE way = "north" -> <<0, -1>> [] way = "south" -> <<0, 1>>
               [] way = "east" -> <<1, 0>>   [] way = "west" -> <<-1, 0>>
X(pos) == pos % Wide
Y(pos) == pos \div Wide
OnMap(x, y) == x \in 0..(Wide - 1) /\ y \in 0..(High - 1)
Move(r, way) ==
  LET x == X(r.pos) + Away(way)[1]  y == Y(r.pos) + Away(way)[2]
      next == y * Wide + x
      cost == IF Terrain[next] = "crater" THEN 15 ELSE 10
  IN IF ~OnMap(x, y) THEN r
     ELSE IF Terrain[next] = "cliff" \/ r.battery < cost THEN r
     ELSE [r EXCEPT !.pos = next, !.battery = @ - cost, !.scanned = @ \cup {next}]
Least(a, b) == IF a < b THEN a ELSE b
OneDay(r) ==
  LET day == r.day + 1
  IN Move([r EXCEPT !.day = day, !.battery = Least(100, @ + (IF day \in Storms THEN 5 ELSE 20))], Drift[day])
Advance(r, day) == FoldLeft(LAMBDA q, d : OneDay(q), r, [k \in 1..(day - r.day) |-> k])
Around(pos) == {q \in Sites : X(q) - X(pos) \in -1..1 /\ Y(q) - Y(pos) \in -1..1}
Scan(r) == IF r.battery < 8 THEN r ELSE [r EXCEPT !.battery = @ - 8, !.scanned = @ \cup Around(r.pos)]
Sample(r) ==
  IF r.pos \in r.samples \/ r.battery < 15 THEN r
  ELSE [r EXCEPT !.battery = @ - 15, !.samples = @ \cup {r.pos}]
Charge(r) ==
  IF r.charged = r.day \/ r.battery = 100 THEN r
  ELSE [r EXCEPT !.charged = r.day, !.battery = Least(100, @ + (IF r.day \in Storms THEN 5 ELSE 25))]
Name(r) == IF r.pos \in r.samples THEN [r EXCEPT !.named = r.pos] ELSE r
Command(r, c) ==
  CASE c = "scan" -> Scan(r) [] c = "sample" -> Sample(r) [] c = "charge" -> Charge(r) [] c = "name" -> Name(r)
    [] c \in {"north", "south", "east", "west"} -> Move(r, c)
    [] OTHER -> r
\* Rover::parse: a save that fails one of these stops the mission for good.
Parses(r) ==
  /\ r.day \in 1..MaxDay /\ r.pos \in Sites /\ r.battery \in 0..100 /\ r.charged <= r.day
  /\ r.samples \subseteq r.scanned /\ r.pos \in r.scanned
  /\ r.named # Nowhere => r.named \in r.samples

(***************************************************************************)
(* A run: at "day" it may advance the rover, at "list" it reads the        *)
(* mentions, at "each" it takes the next; rover is as saved, next is what  *)
(* the posts under way will save, under key, and then is where it goes on. *)
(***************************************************************************)
Idle == [at |-> "idle", rover |-> NoSave, next |-> NoSave, key |-> <<>>, then |-> "idle", todo |-> <<>>, handled |-> 0, dirty |-> FALSE]
Posting(r, next, key, then) == [r EXCEPT !.at = "tale", !.next = next, !.key = key, !.then = then]
Land ==
  /\ run = Idle /\ save = NoSave
  /\ run' = Posting(Idle, Advance(NewRover(Len(mentions)), today), <<"land", 0>>, "idle")
  /\ UNCHANGED <<save, known, mentions, today, faults>>
\* recover; a save from a day to come is refused.
Recover ==
  /\ run = Idle /\ save # NoSave /\ Parses(save) /\ save.day <= today
  /\ run' = [Idle EXCEPT !.at = "day", !.rover = save]
  /\ UNCHANGED <<save, known, mentions, today, faults>>
\* The daily checkpoint, if the hour has come.
Daily ==
  /\ run.at = "day"
  /\ \/ run.rover.day < today /\ run' = Posting(run, Advance(run.rover, today), <<"sol", today>>, "list")
     \/ run' = [run EXCEPT !.at = "list"]
  /\ UNCHANGED <<save, known, mentions, today, faults>>
List ==
  /\ run.at = "list"
  /\ run' = [run EXCEPT !.at = "each",
                        !.todo = [k \in 1..(Len(mentions) - run.rover.cursor) |-> run.rover.cursor + k]]
  /\ UNCHANGED <<save, known, mentions, today, faults>>
\* Mutant: a command's save keeps the cursor it had.
ObeyAgain(r, id) == [Command(r, mentions[id]) EXCEPT !.did = Append(@, id)]
Obey(r, id) == [Command(r, mentions[id]) EXCEPT !.cursor = id, !.did = Append(@, id)]
Each ==
  /\ run.at = "each" /\ run.todo # <<>> /\ run.handled < PerRun
  /\ LET id == Head(run.todo)  rest == [run EXCEPT !.todo = Tail(@)]
     IN run' = IF mentions[id] = "chat" THEN [rest EXCEPT !.rover.cursor = id, !.dirty = TRUE]
               ELSE Posting(rest, Obey(run.rover, id), <<"cmd", id>>, "each")
  /\ UNCHANGED <<save, known, mentions, today, faults>>
\* What was passed over since the last save is saved too.
Done ==
  /\ run.at = "each" /\ (run.todo = <<>> \/ run.handled = PerRun)
  /\ run' = IF run.dirty THEN [Posting(run, run.rover, <<"cursor", run.rover.cursor>>, "idle") EXCEPT !.at = "save"] ELSE Idle
  /\ UNCHANGED <<save, known, mentions, today, faults>>

\* checkpoint: the tale, then the save.
Told == known' = known \cup {<<"tale", run.key>>}
Saved ==
  /\ known' = known \cup {<<"save", run.key>>}
  /\ save' = IF <<"save", run.key>> \in known THEN save ELSE run.next
PostTale ==
  /\ run.at = "tale" /\ Told
  /\ run' = [run EXCEPT !.at = "save"]
  /\ UNCHANGED <<save, mentions, today, faults>>
PostSave ==
  /\ run.at = "save" /\ Saved
  /\ run' = IF run.then = "idle" THEN Idle
            ELSE [run EXCEPT !.at = run.then, !.rover = run.next, !.dirty = FALSE,
                             !.handled = @ + (IF run.key[1] = "cmd" THEN 1 ELSE 0)]
  /\ UNCHANGED <<mentions, today, faults>>
\* A request fails or its answer is lost, or power goes: the run ends there.
Fails ==
  /\ run # Idle /\ faults < MaxFaults /\ faults' = faults + 1 /\ run' = Idle
  /\ \/ UNCHANGED <<save, known>>
     \/ run.at = "tale" /\ Told /\ UNCHANGED save
     \/ run.at = "save" /\ Saved
  /\ UNCHANGED <<mentions, today>>

\* Around the bot: members, midnight, a clock put back, a household restart.
Mention(c) ==
  /\ Len(mentions) < MaxMentions /\ mentions' = Append(mentions, c)
  /\ UNCHANGED <<save, known, today, run, faults>>
NewDay == today < MaxDay /\ today' = today + 1 /\ UNCHANGED <<save, known, mentions, run, faults>>
ClockBack ==
  /\ today > 1 /\ faults < MaxFaults /\ faults' = faults + 1 /\ today' = today - 1
  /\ UNCHANGED <<save, known, mentions, run>>
HouseholdRestart ==
  /\ known # {} /\ faults < MaxFaults /\ faults' = faults + 1 /\ known' = {}
  /\ UNCHANGED <<save, mentions, today, run>>

Init == save = NoSave /\ known = {} /\ mentions = <<>> /\ today = 1 /\ run = Idle /\ faults = 0

Works == Land \/ Recover \/ Daily \/ List \/ Each \/ Done \/ PostTale \/ PostSave
Next == Works \/ Fails \/ (\E c \in Commands : Mention(c)) \/ NewDay \/ ClockBack \/ HouseholdRestart

\* The schedule runs the bot again and again, and days go by.
Spec == Init /\ [][Next]_vars /\ WF_vars(Works) /\ WF_vars(NewDay)

-----------------------------------------------------------------------------
\* Through lost answers, power cuts and forgotten keys the newest save is one
\* the next run can read (else it is "refusing to reset or roll back"), and it
\* has obeyed each command since the landing once, in the order they came.
SaveHolds ==
  save # NoSave =>
    /\ Parses(save)
    /\ save.did = SelectSeq([k \in 1..(save.cursor - save.from) |-> save.from + k], LAMBDA id : mentions[id] # "chat")
Answered(id) == save # NoSave /\ Len(mentions) >= id => save.cursor >= id
\* What a member asks after the landing is obeyed in the end.
AllAnswered == \A id \in 1..MaxMentions : []<>Answered(id)
=============================================================================
