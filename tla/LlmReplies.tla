------------------------------ MODULE LlmReplies ------------------------------
(***************************************************************************)
(* The bot that writes with a language model (bots/llm) in its reply mode: *)
(* it answers the mentions after the cursor it remembers, oldest first,    *)
(* keeps notes of the conversations, and once a day also posts.  Its       *)
(* memory is saved when a run ends, also when it fails; a power cut in a   *)
(* run loses what the run had put there.  The household posts once for a   *)
(* key it remembers.                                                       *)
(*                                                                         *)
(* A record has RECORD_MAX bytes, so the save may forget: the longest      *)
(* values of the memory go first, whatever they are.  Eight notes never    *)
(* fit, so a note goes that the order still names, or the order goes and   *)
(* its notes and their times stay, and nothing ever removes those times.   *)
(* When they fill the record the cursor goes too, and the next run starts  *)
(* from the newest mention as if it were the first.                        *)
(*                                                                         *)
(* Prompts and texts are left out: what matters of a conversation is whose *)
(* notes it reaches, how long they are, and who may see the answer.        *)
(***************************************************************************)
EXTENDS Naturals, Sequences, SequencesExt, FiniteSets, FiniteSetsExt, Functions

CONSTANTS MentionKinds, \* mentions: by whom ("bot" and "self" are two), how visible,
                        \* in which thread, is all of the thread public
          Levels,       \* Visibility: 1 private, 2 unlisted, 3 public
          Direct,       \* the level of a direct message
          Setting,      \* the setting "visibility"
          ReplyToBots, RepliesPerRun,
          Fetch,        \* FETCH: mentions a request asks for
          KeptNotes,    \* 8 in the code
          NoteSizes,    \* how long a note may come out
          LineSize, CursorSize, StampSize, DateSize,  \* how long the other values are
          NameSize,     \* what the name of a conversation adds to its note and its time
          Room,         \* RECORD_MAX less settings, counters and what a record adds
          Left,         \* conversations whose times earlier orders left behind
          MaxMentions, MaxDay, MaxFaults   \* bounds

LlmAssumption ==
  /\ MentionKinds \subseteq [by : STRING, level : Levels \cup {Direct}, thread : Nat, allPublic : BOOLEAN]
  /\ Setting \in Levels /\ Levels \subseteq Nat /\ Direct \notin Levels
  /\ {Fetch, KeptNotes, RepliesPerRun} \subseteq Nat \ {0}
  /\ NoteSizes \cup {LineSize, CursorSize, StampSize, DateSize, NameSize, Room} \subseteq Nat
  /\ 0 \notin NoteSizes
  /\ {MaxMentions, MaxDay, MaxFaults} \subseteq Nat

VARIABLES mentions,   \* the notifications, oldest first
          mem, disk,  \* the bot's memory in the record, and as last saved
          run,        \* the run under way
          today,      \* the date of the slot
          keys,       \* what the household remembers
          answers,    \* history: the posts that answer each mention
          dailies,    \* history: the daily posts of each date
          given,      \* history: mentions whose answer failed for good
          forgot,     \* history: the household forgot a key
          faults

vars == <<mentions, mem, disk, run, today, keys, answers, dailies, given, forgot, faults>>

\* The cursor is there when watching; from, where the bot began to watch, is
\* history; the stamps are the "_at" of the conversations.
NoMemory == [cursor |-> 0, watching |-> FALSE, from |-> 0, date |-> 0, order |-> <<>>,
             notes |-> [k \in {} |-> {}], stamps |-> {}]
NoRun    == [at |-> "off", mem |-> NoMemory, todo |-> <<>>, answered |-> 0]

Public == Max(Levels)
PublicNotes == <<>>
AtMost(a, b) == Min({a, b})

-----------------------------------------------------------------------------
(* Mentions and notes. *)

\* skip_reason.
Skipped(m) ==
  \/ mentions[m].by = "self"
  \/ mentions[m].by = "bot" /\ ~ReplyToBots
  \/ mentions[m].level = Direct

\* The notes a conversation reads and writes: the public ones only if all of it
\* is known to be public, else its own.
NotesOf(m, known) ==
  IF mentions[m].level = Public /\ Setting = Public /\ known /\ mentions[m].allPublic THEN PublicNotes
  ELSE <<mentions[m].level, mentions[m].by, IF known THEN mentions[m].thread ELSE m>>

\* remember: the notes are written anew from the dated ones there were and this
\* thread; of more than eight in the order the one longest untouched goes.
Remember(mm, key, m, size) ==
  LET order == Append(SelectSeq(mm.order, LAMBDA k : k # key), key)
      gone  == IF Len(order) > KeptNotes THEN {Head(order)} ELSE {}
      before == IF key \in DOMAIN mm.notes /\ key \in mm.stamps THEN mm.notes[key].of ELSE {}
  IN [mm EXCEPT !.order = IF gone # {} THEN Tail(order) ELSE order,
                !.notes = [k \in (DOMAIN @ \cup {key}) \ gone |->
                             IF k = key THEN [of |-> before \cup {m}, size |-> size] ELSE mm.notes[k]],
                !.stamps = (@ \cup {key}) \ gone]

-----------------------------------------------------------------------------
(* What a save forgets. *)

Held(m) == {v \in {<<"cursor">>, <<"date">>, <<"order">>} :
              CASE v[1] = "cursor" -> m.watching [] v[1] = "date" -> m.date # 0 [] OTHER -> m.order # <<>>}
           \cup {"note"} \X DOMAIN m.notes \cup {"stamp"} \X m.stamps
Length(m, v) == CASE v[1] = "cursor" -> CursorSize
                  [] v[1] = "date"   -> DateSize
                  [] v[1] = "order"  -> Len(m.order) * LineSize
                  [] v[1] = "note"   -> m.notes[v[2]].size
                  [] OTHER           -> StampSize
Bytes(m) ==
  (IF m.watching THEN CursorSize ELSE 0) + (IF m.date # 0 THEN DateSize ELSE 0)
  + Len(m.order) * LineSize + Cardinality(m.stamps) * (StampSize + NameSize)
  + MapThenSumSet(LAMBDA k : m.notes[k].size + NameSize, DOMAIN m.notes)

Without(m, v) ==
  CASE v[1] = "cursor" -> [m EXCEPT !.watching = FALSE, !.cursor = 0]
    [] v[1] = "date"   -> [m EXCEPT !.date = 0]
    [] v[1] = "order"  -> [m EXCEPT !.order = <<>>]
    [] v[1] = "note"   -> [m EXCEPT !.notes = Restrict(@, DOMAIN @ \ {v[2]})]
    [] OTHER           -> [m EXCEPT !.stamps = @ \ {v[2]}]
\* save: the longest value goes, whichever of two as long, until the record fits.
RECURSIVE Saved(_)
Saved(m) ==
  IF Bytes(m) <= Room \/ Held(m) = {} THEN {m}
  ELSE LET longest == Max({Length(m, v) : v \in Held(m)})
       IN UNION {Saved(Without(m, v)) : v \in {x \in Held(m) : Length(m, x) = longest}}

-----------------------------------------------------------------------------
(* A run. *)

\* finish: the memory is kept, less what the save forgets, in RAM too; the write
\* may fail.
Ends(m, ok) == \E s \in Saved(m) : run' = NoRun /\ mem' = s /\ disk' = IF ok THEN s ELSE disk

\* A run without a cursor starts from now, not from every mention there ever was.
Watch ==
  /\ run.at = "off" /\ ~mem.watching
  /\ run' = [NoRun EXCEPT !.at = "daily",
               !.mem = [mem EXCEPT !.watching = TRUE, !.cursor = Len(mentions), !.from = Len(mentions)]]
  /\ UNCHANGED <<mentions, mem, disk, today, keys, answers, dailies, given, forgot, faults>>
Start ==
  /\ run.at = "off" /\ mem.watching
  /\ LET new == [k \in 1..(Len(mentions) - mem.cursor) |-> mem.cursor + k]
     IN run' = [at |-> "mentions", mem |-> mem, answered |-> 0, todo |-> SubSeq(new, 1, Min({Fetch, Len(new)}))]
  /\ UNCHANGED <<mentions, mem, disk, today, keys, answers, dailies, given, forgot, faults>>

Here == run.at = "mentions" /\ run.todo # <<>> /\ run.answered < RepliesPerRun
Past(r) == [r EXCEPT !.todo = Tail(@), !.mem.cursor = Head(r.todo)]
PassOver ==
  /\ Here /\ Skipped(Head(run.todo)) /\ run' = Past(run)
  /\ UNCHANGED <<mentions, mem, disk, today, keys, answers, dailies, given, forgot, faults>>

\* The household's side of post_keyed.
Lands(m, level) ==
  IF <<"reply", m>> \in keys THEN UNCHANGED <<keys, answers>>
  ELSE keys' = keys \cup {<<"reply", m>>} /\ answers' = [answers EXCEPT ![m] = Append(@, level)]
LevelOf(m) == AtMost(mentions[m].level, Setting)
\* answer: it is posted, and the notes follow; a summary that fails leaves them.
AnswerIt(known, notes) ==
  /\ Here /\ ~Skipped(Head(run.todo))
  /\ LET m == Head(run.todo)
     IN /\ Lands(m, LevelOf(m))
        /\ run' = [Past(run) EXCEPT !.answered = @ + 1,
                     !.mem = IF notes > 0 THEN Remember(Past(run).mem, NotesOf(m, known), m, notes) ELSE Past(run).mem]
  /\ UNCHANGED <<mentions, mem, disk, today, dailies, given, forgot, faults>>
\* The model or the household refuses this one for good: the next is taken up.
GiveUp ==
  /\ Here /\ ~Skipped(Head(run.todo)) /\ faults < MaxFaults /\ faults' = faults + 1
  /\ run' = Past(run) /\ given' = given \cup {Head(run.todo)}
  /\ UNCHANGED <<mentions, mem, disk, today, keys, answers, dailies, forgot>>
\* Mutant: the mention counts as done before its answer is out.
FailPast ==
  /\ Here /\ ~Skipped(Head(run.todo)) /\ faults < MaxFaults /\ faults' = faults + 1
  /\ Lands(Head(run.todo), LevelOf(Head(run.todo))) \/ UNCHANGED <<keys, answers>>
  /\ \E ok \in BOOLEAN : Ends(Past(run).mem, ok)
  /\ UNCHANGED <<mentions, today, dailies, given, forgot>>
\* A failure that may pass ends the run before this mention.
Fail ==
  /\ Here /\ ~Skipped(Head(run.todo)) /\ faults < MaxFaults /\ faults' = faults + 1
  /\ Lands(Head(run.todo), LevelOf(Head(run.todo))) \/ UNCHANGED <<keys, answers>>
  /\ \E ok \in BOOLEAN : Ends(run.mem, ok)
  /\ UNCHANGED <<mentions, today, dailies, given, forgot>>
RepliesDone ==
  /\ run.at = "mentions" /\ (run.todo = <<>> \/ run.answered = RepliesPerRun)
  /\ run' = [run EXCEPT !.at = "daily"]
  /\ UNCHANGED <<mentions, mem, disk, today, keys, answers, dailies, given, forgot, faults>>

DailyLands ==
  IF <<"daily", today>> \in keys THEN UNCHANGED <<keys, dailies>>
  ELSE keys' = keys \cup {<<"daily", today>>} /\ dailies' = [dailies EXCEPT ![today] = @ + 1]
\* The hour has not come, the date is done, or the post is made.
Daily ==
  /\ run.at = "daily"
  /\ \/ Ends(run.mem, TRUE) /\ UNCHANGED <<keys, dailies>>
     \/ run.mem.date # today /\ Ends([run.mem EXCEPT !.date = today], TRUE) /\ DailyLands
  /\ UNCHANGED <<mentions, today, answers, given, forgot, faults>>
DailyFails ==
  /\ run.at = "daily" /\ run.mem.date # today /\ faults < MaxFaults /\ faults' = faults + 1
  /\ DailyLands \/ UNCHANGED <<keys, dailies>>
  /\ \E ok \in BOOLEAN : Ends(run.mem, ok)
  /\ UNCHANGED <<mentions, today, answers, given, forgot>>

-----------------------------------------------------------------------------
(* Around it. *)

PowerCut ==
  /\ faults < MaxFaults /\ faults' = faults + 1 /\ run' = NoRun /\ mem' = disk
  /\ UNCHANGED <<mentions, disk, today, keys, answers, dailies, given, forgot>>
Mentioned(kind) ==
  /\ Len(mentions) < MaxMentions
  /\ mentions' = Append(mentions, kind)
  /\ UNCHANGED <<mem, disk, run, today, keys, answers, dailies, given, forgot, faults>>
NextDay ==
  /\ run.at = "off" /\ today < MaxDay /\ today' = today + 1
  /\ UNCHANGED <<mentions, mem, disk, run, keys, answers, dailies, given, forgot, faults>>
HouseholdForgets ==
  /\ keys # {} /\ faults < MaxFaults /\ faults' = faults + 1 /\ keys' = {} /\ forgot' = TRUE
  /\ UNCHANGED <<mentions, mem, disk, run, today, answers, dailies, given>>

Init ==
  /\ mentions = <<>> /\ run = NoRun /\ today = 1 /\ keys = {}
  /\ \E old \in {{}, Left} : mem = [NoMemory EXCEPT !.stamps = old, !.watching = old # {}]
  /\ disk = mem
  /\ answers = [m \in 1..MaxMentions |-> <<>>] /\ dailies = [d \in 1..MaxDay |-> 0]
  /\ given = {} /\ forgot = FALSE /\ faults = 0
Works == Watch \/ Start \/ PassOver \/ RepliesDone \/ Daily \/ (\E known \in BOOLEAN, notes \in NoteSizes \cup {0} : AnswerIt(known, notes))
Next ==
  \/ Works \/ GiveUp \/ Fail \/ DailyFails \/ PowerCut \/ NextDay \/ HouseholdForgets
  \/ \E kind \in MentionKinds : Mentioned(kind)
\* The schedule runs the bot again and again.
Spec == Init /\ [][Next]_vars /\ WF_vars(Works)

-----------------------------------------------------------------------------
\* "Try this mention again next run; the cursor stays before it" (llm.rs:330):
\* of the mentions since the bot last began to watch, those behind the cursor of
\* a run that is over are answered, skipped by the rules or refused for good; one
\* is answered twice, or a date posted twice, only after the household forgot.
\* A bot whose save forgot the cursor begins to watch anew, at the newest mention:
\* what was still to be tried again before that is passed over without an answer.
AnsweredInTurn ==
  /\ \A m \in 1..MaxMentions :
       /\ mem.watching /\ m \in (mem.from + 1)..mem.cursor => answers[m] # <<>> \/ Skipped(m) \/ m \in given
       /\ ~forgot => Len(answers[m]) <= 1
  /\ ~forgot => \A d \in 1..MaxDay : dailies[d] <= 1
\* "Replies are no more public than the post they answer" (llm.rs:21), and notes
\* that may shape a public post come from threads that are public throughout
\* ("Everything else is scoped to this exact thread AND visibility"), also those
\* that outlive the order they were in.
NothingLeaks ==
  /\ \A m \in 1..Len(mentions) : \A k \in DOMAIN answers[m] : answers[m][k] <= mentions[m].level
  /\ \A k \in DOMAIN mem.notes : \A m \in mem.notes[k].of :
       IF k = PublicNotes THEN mentions[m].level = Public /\ mentions[m].allPublic
       ELSE k[1] = mentions[m].level /\ k[2] = mentions[m].by
\* What is saved fits its record (service.rs:297), and the order has its bound;
\* the notes and their times have none but the record's.
MemoryFits ==
  /\ \A m \in {mem, disk} : Bytes(m) <= Room
  /\ Len(mem.order) <= KeptNotes
\* The values that are left take the room of the cursor: while they do, every save
\* forgets it, and every run is a first run.
Crowded == ~mem.watching /\ Bytes(mem) + CursorSize > Room
\* "Try this mention again next run; the cursor stays before it" (llm.rs:330), as
\* it stands: but for a power cut the cursor stays or goes on.  It does not hold:
\* the save of a crowded record forgets it.
CursorStaysStep == mem.watching /\ mem' # disk => mem'.watching /\ mem'.cursor >= mem.cursor
CursorStays == [][CursorStaysStep]_vars
Passed(m) == Len(mentions) >= m => (mem.watching /\ mem.cursor >= m) \/ Crowded
\* Every mention is behind the cursor in the end, unless the record has no room
\* for a cursor.
MentionsPass == \A m \in 1..MaxMentions : []<>Passed(m)
=============================================================================
