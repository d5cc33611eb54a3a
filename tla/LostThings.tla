------------------------------ MODULE LostThings ------------------------------
(***************************************************************************)
(* The Bureau of Lost Things (bots/lost_things): an item a day, and the    *)
(* claims members make by replying to one, judged by a language model.     *)
(* Its memory is saved when a run ends, also when it fails; a power cut in *)
(* a run loses what the run had put there.  The household posts once for a *)
(* key it remembers.                                                       *)
(*                                                                         *)
(* An item is the id of its post; a claim is the mention's number and the  *)
(* item it answers.  What the model says is a verdict, taken from nowhere. *)
(***************************************************************************)
EXTENDS Naturals, Sequences, SequencesExt, FiniteSets, FiniteSetsExt

CONSTANTS OpenItems,     \* 7 in the code
          Fetch,         \* mentions a request asks for
          MaxClaims, MaxDay, MaxFaults, MaxGone   \* bounds

LostAssumption ==
  {OpenItems, Fetch} \subseteq Nat \ {0} /\ {MaxClaims, MaxDay, MaxFaults, MaxGone} \subseteq Nat

VARIABLES claims,     \* the mentions, oldest first: the item each answers
          gone,       \* item posts the household has deleted or evicted
          mem, disk,  \* the bot's memory in the record, and as last saved
          run,        \* the run under way
          today,      \* the date of the slot
          posts,      \* the item posts of the household, by number of item
          verdicts,   \* what the household was told of each claim
          known,      \* the keys it remembers
          lost,       \* history: a verdict or a key was lost with power
          faults

vars == <<claims, gone, mem, disk, run, today, posts, verdicts, known, lost, faults>>

NoMemory == [watching |-> FALSE, cursor |-> 0, items |-> <<>>, claimed |-> {}, pending |-> [c \in {} |-> "reject"],
             number |-> 0, date |-> 0]
NoRun == [at |-> "off", mem |-> NoMemory, todo |-> <<>>]

Ends(m, ok) == run' = NoRun /\ mem' = m /\ disk' = IF ok THEN m ELSE disk

-----------------------------------------------------------------------------
(* A run. *)

\* The mentions after the cursor; the first run takes those from now on.
Start ==
  /\ run.at = "off"
  /\ LET from == IF mem.watching THEN mem.cursor ELSE Len(claims)
         new  == [k \in 1..(Len(claims) - from) |-> from + k]
     IN run' = [at |-> "claims", todo |-> SubSeq(new, 1, Min({Fetch, Len(new)})),
                mem |-> [mem EXCEPT !.watching = TRUE, !.cursor = from]]
  /\ UNCHANGED <<claims, gone, mem, disk, today, posts, verdicts, known, lost, faults>>

Here == run.at = "claims" /\ run.todo # <<>>
Claim == Head(run.todo)
Past(r) == [r EXCEPT !.todo = Tail(@), !.mem.cursor = Head(r.todo)]
\* A reply to something else, or to an item whose time is over.
PassOver ==
  /\ Here /\ claims[Claim] \notin Range(run.mem.items) /\ run' = Past(run)
  /\ UNCHANGED <<claims, gone, mem, disk, today, posts, verdicts, known, lost, faults>>

Judged == Here /\ claims[Claim] \in Range(run.mem.items) /\ claims[Claim] \notin gone
\* A released item, the verdict of an earlier attempt, or the model's.
Verdict(r, c, model) ==
  IF claims[c] \in r.mem.claimed THEN "reject"
  ELSE IF c \in DOMAIN r.mem.pending THEN r.mem.pending[c] ELSE model
\* Mutant: the verdict is not kept for the next attempt.
PendNothing(r, c, v) == r
Pend(r, c, v) ==
  IF claims[c] \in r.mem.claimed THEN r
  ELSE [r EXCEPT !.mem.pending = [x \in DOMAIN @ \cup {c} |-> IF x = c THEN v ELSE @[x]]]
Lands(c, v) ==
  IF <<"claim", c>> \in known THEN UNCHANGED <<verdicts, known>>
  ELSE known' = known \cup {<<"claim", c>>} /\ verdicts' = [verdicts EXCEPT ![c] = @ \cup {v}]
Judge(model) ==
  /\ Judged
  /\ LET v == Verdict(run, Claim, model)
     IN /\ Lands(Claim, v)
        /\ run' = [Past(run) EXCEPT !.mem.pending = [c \in DOMAIN @ \ {Claim} |-> @[c]],
                     !.mem.claimed = IF v = "accept" THEN @ \cup {claims[Claim]} ELSE @]
  /\ UNCHANGED <<claims, gone, mem, disk, today, posts, lost, faults>>
\* The verdict lands or not and no answer comes; the next attempt gives it again.
JudgeFails(model) ==
  /\ Judged /\ faults < MaxFaults /\ faults' = faults + 1
  /\ LET v == Verdict(run, Claim, model)
     IN /\ Lands(Claim, v) \/ UNCHANGED <<verdicts, known>>
        /\ \E ok \in BOOLEAN : Ends(Pend(run, Claim, v).mem, ok)
  /\ UNCHANGED <<claims, gone, today, posts, lost>>
\* The item's post is gone: it cannot be read, and the run ends here.
Stuck ==
  /\ Here /\ claims[Claim] \in Range(run.mem.items) \cap gone /\ Ends(run.mem, TRUE)
  /\ UNCHANGED <<claims, gone, today, posts, verdicts, known, lost, faults>>
ClaimsDone ==
  /\ run.at = "claims" /\ run.todo = <<>> /\ run' = [run EXCEPT !.at = "item"]
  /\ UNCHANGED <<claims, gone, mem, disk, today, posts, verdicts, known, lost, faults>>

\* The day's item: its number is its key, its post its id.
Number == run.mem.number + 1
ItemLands == IF <<"item", Number>> \in known THEN UNCHANGED <<posts, known>>
             ELSE posts' = Append(posts, Number) /\ known' = known \cup {<<"item", Number>>}
IdOf(number, all) == Max({k \in 1..Len(all) : all[k] = number})
Open(mm, id) ==
  LET all == Append(mm.items, id)
      old == IF Len(all) > OpenItems THEN {Head(all)} ELSE {}
  IN [mm EXCEPT !.items = IF old # {} THEN Tail(all) ELSE all, !.claimed = @ \ old]
NoItem ==
  /\ run.at = "item" /\ Ends(run.mem, TRUE)
  /\ UNCHANGED <<claims, gone, today, posts, verdicts, known, lost, faults>>
Discover ==
  /\ run.at = "item" /\ run.mem.date # today /\ ItemLands
  /\ Ends([Open(run.mem, IdOf(Number, posts')) EXCEPT !.number = Number, !.date = today], TRUE)
  /\ UNCHANGED <<claims, gone, today, verdicts, lost, faults>>
DiscoverFails ==
  /\ run.at = "item" /\ run.mem.date # today /\ faults < MaxFaults /\ faults' = faults + 1
  /\ ItemLands \/ UNCHANGED <<posts, known>>
  /\ \E ok \in BOOLEAN : Ends(run.mem, ok)
  /\ UNCHANGED <<claims, gone, today, verdicts, lost>>

-----------------------------------------------------------------------------
(* Around it. *)

PowerCut ==
  /\ faults < MaxFaults /\ faults' = faults + 1 /\ lost' = (lost \/ run.at # "off" \/ mem # disk)
  /\ run' = NoRun /\ mem' = disk
  /\ UNCHANGED <<claims, gone, disk, today, posts, verdicts, known>>
Reply(item) ==
  /\ Len(claims) < MaxClaims /\ claims' = Append(claims, item)
  /\ UNCHANGED <<gone, mem, disk, run, today, posts, verdicts, known, lost, faults>>
ItemGoes(item) ==
  /\ Cardinality(gone) < MaxGone /\ gone' = gone \cup {item}
  /\ UNCHANGED <<claims, mem, disk, run, today, posts, verdicts, known, lost, faults>>
NextDay ==
  /\ run.at = "off" /\ today < MaxDay /\ today' = today + 1
  /\ UNCHANGED <<claims, gone, mem, disk, run, posts, verdicts, known, lost, faults>>
HouseholdForgets ==
  /\ known # {} /\ faults < MaxFaults /\ faults' = faults + 1 /\ known' = {} /\ lost' = TRUE
  /\ UNCHANGED <<claims, gone, mem, disk, run, today, posts, verdicts>>

Init ==
  /\ claims = <<>> /\ gone = {} /\ mem = NoMemory /\ disk = NoMemory /\ run = NoRun /\ today = 1 /\ posts = <<>>
  /\ verdicts = [c \in 1..MaxClaims |-> {}] /\ known = {} /\ lost = FALSE /\ faults = 0
Works == Start \/ PassOver \/ Stuck \/ ClaimsDone \/ NoItem \/ Discover \/ \E v \in {"accept", "reject"} : Judge(v)
Next ==
  \/ Works \/ DiscoverFails \/ PowerCut \/ NextDay \/ HouseholdForgets
  \/ \E v \in {"accept", "reject"} : JudgeFails(v)
  \/ \E item \in 0..Len(posts) : Reply(item) \/ (item > 0 /\ ItemGoes(item))
\* The schedule runs the bot again and again, past the hour in the end.
Spec == Init /\ [][Next]_vars /\ WF_vars(Works) /\ SF_vars(Discover)

-----------------------------------------------------------------------------
\* "one successful claimant per item" (lost_things.rs:1): with lost answers and
\* failed runs no item is released twice, and each claim hears one verdict, the
\* one the memory goes by, unless a save was lost or the household forgot.
OneClaimant ==
  ~lost => \A c, d \in 1..MaxClaims :
    /\ Cardinality(verdicts[c]) <= 1
    /\ c # d /\ "accept" \in verdicts[c] /\ "accept" \in verdicts[d] => claims[c] # claims[d]
\* The memory keeps what belongs to the open items and no more of them than seven.
MemoryBounded == Len(mem.items) <= OpenItems /\ mem.claimed \subseteq Range(mem.items)
Appeared(d) == today = d => mem.date = d
\* "A strange item appears daily" (lost_things.rs:15): the next item comes in the
\* end, unless an open item's post is gone.
ItemsAppear == \A d \in 1..MaxDay : []<>(Appeared(d) \/ gone # {})
\* As it stands: a claim on an item whose post is gone stops every later run.
ItemsAppearDaily == \A d \in 1..MaxDay : []<>Appeared(d)
=============================================================================
