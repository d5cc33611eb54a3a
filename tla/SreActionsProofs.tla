-------------------------- MODULE SreActionsProofs --------------------------
(***************************************************************************)
(* Proofs about SreActions, for any quiet windows, boards, clock, number   *)
(* of proposals, failures and changes of the settings: a proposal restarts *)
(* a board at most once, and only after its review.                        *)
(***************************************************************************)
EXTENDS SreActions, TLAPS

-----------------------------------------------------------------------------
(* The inductive invariant. *)

\* Memory holds the record of the store, or what a start made of it.
Kept == item = disk \/ item = Loaded(disk)

\* While a worker checks or executes, the record is the one it marked.
Marked == work.op \in Busy => item = disk /\ work.item = disk /\ disk.stage = work.op

\* Only an execution gets past its dry run.
Phases ==
  /\ work.op \notin Busy => work.at = None
  /\ work.at \in {"survey", "health", "grant", "restart"} => work.op = "executing"

\* What the record's stage says about the review it went through.
Reviewed ==
  /\ disk.stage \in {"pending", "approved", "executing"} => disk.id \in checked
  /\ disk.stage \in {"approved", "executing"} => disk.id \in approved
  /\ work.op = "checking" /\ work.at = "ok" => disk.id \in checked
  /\ \A i \in cancelled : i <= disk.id /\ (i = disk.id => disk.stage = "cancelled")

\* The window was open when the health of the board was asked for.
InTime == work.op = "executing" /\ work.at \in {"health", "grant", "restart"} => work.item.from <= now

\* A record whose restart was sent never comes to wait for it again, and an
\* execution that has not got to its restart has sent none.
Once ==
  /\ \A i \in Ids : sent[i] > 0 =>
       /\ sent[i] = 1 /\ i <= disk.id
       /\ i = disk.id => disk.stage \in {"executing", "accepted", "uncertain", "cancelled"}
  /\ work.op = "executing" /\ work.at \in {"survey", "catalog", "dryrun", "health", "grant"} =>
       sent[disk.id] = 0

Inv == TypeOK /\ Kept /\ Marked /\ Phases /\ Reviewed /\ InTime /\ Once

-----------------------------------------------------------------------------
(* Records, and the ends of a window. *)

\* Max and Min of two numbers are one of the two, and bound both.
LEMMA Ends ==
  ASSUME NEW a \in Nat, NEW b \in Nat
  PROVE  /\ Max({a, b}) \in {a, b} /\ a <= Max({a, b}) /\ b <= Max({a, b})
         /\ Min({a, b}) \in {a, b} /\ Min({a, b}) <= a /\ Min({a, b}) <= b
<1>1. \E x \in {a, b} : \A y \in {a, b} : x >= y
  OBVIOUS
<1>2. \E x \in {a, b} : \A y \in {a, b} : x <= y
  OBVIOUS
<1>3. Max({a, b}) \in {a, b} /\ \A y \in {a, b} : Max({a, b}) >= y
  BY <1>1 DEF Max
<1>4. Min({a, b}) \in {a, b} /\ \A y \in {a, b} : Min({a, b}) <= y
  BY <1>2 DEF Min
<1> QED BY <1>3, <1>4

\* A record that moves to another stage stays the record it was.
LEMMA Restaged ==
  ASSUME NEW p \in Item, NEW s \in Stages
  PROVE  LET q == [p EXCEPT !.stage = s]
         IN  q \in Item /\ q.id = p.id /\ q.stage = s /\ q.from = p.from /\ q.until = p.until
BY DEF Item

\* Loading ends a check or a restart under way, and nothing else.
LEMMA LoadedKeeps ==
  ASSUME NEW p \in Item \cup {NoItem}
  PROVE  /\ Loaded(p) \in Item \cup {NoItem} /\ Loaded(p).id = p.id
         /\ Loaded(p).stage = IF p.stage \in Busy THEN "uncertain" ELSE p.stage
         /\ p.stage \notin Busy => Loaded(p) = p
         /\ Loaded(Loaded(p)) = Loaded(p)
BY DEF Loaded, Busy, Item, NoItem, Stages, None

\* A proposed item is a new one, with the next id, in the store at once.
LEMMA Proposed ==
  ASSUME Inv, ActionAssumption,
         NEW w \in Windows, NEW deadline \in 1..MaxNow, Proposes(w, deadline)
  PROVE  /\ item' \in Item /\ disk' = item' /\ faults' = faults
         /\ item'.id = disk.id + 1 /\ item'.stage = "new" /\ item.stage \notin Busy
<1>1. w.from \in 0..MaxNow /\ w.until \in 0..MaxNow /\ now \in 0..MaxNow /\ MaxNow \in Nat
  BY DEF ActionAssumption, Inv, TypeOK
<1>2. Max({w.from, now}) \in {w.from, now} /\ Min({w.until, deadline}) \in {w.until, deadline}
  BY <1>1, Ends
<1>3. Max({w.from, now}) \in 0..MaxNow /\ Min({w.until, deadline}) \in 0..MaxNow
  BY <1>1, <1>2
<1>4. item.id + 1 \in Ids
  <2>1. CASE item = NoItem
    BY <2>1 DEF NoItem, Ids, Proposes, ActionAssumption
  <2>2. CASE item \in Item
    BY <2>2 DEF Item, Ids, Proposes, ActionAssumption
  <2> QED BY <2>1, <2>2 DEF Inv, TypeOK
<1>5. cfg.board \in Boards
  BY DEF Inv, TypeOK, Proposes
<1>6. NewItem(w, deadline) \in Item
  BY <1>3, <1>4, <1>5 DEF NewItem, Item, Stages
<1>7. item.stage \notin Busy
  BY DEF Proposes, Proposable, Busy
<1>8. NewItem(w, deadline).id = item.id + 1 /\ NewItem(w, deadline).stage = "new"
  BY DEF NewItem
<1>9. item' = NewItem(w, deadline) /\ disk' = NewItem(w, deadline) /\ faults' = faults
  BY DEF Proposes, Save
<1>10. item.id = disk.id
  BY DEF Inv, TypeOK
<1> QED BY <1>6, <1>7, <1>8, <1>9, <1>10

-----------------------------------------------------------------------------
(* It holds at the start. *)

LEMMA InitInv == ASSUME ActionAssumption, Init PROVE Inv
<1>1. TypeOK
  <2>1. MaxNow \in Nat
    BY DEF ActionAssumption
  <2>2. now \in 0..MaxNow
    BY <2>1 DEF Init
  <2>3. sent \in [Ids -> 0..MaxNow + 1]
    BY <2>1 DEF Init
  <2>4. cfg \in [on : BOOLEAN, board : Boards \cup {None}]
    BY DEF Init
  <2> QED BY <2>2, <2>3, <2>4 DEF Init, TypeOK, NoItem, Idle, None
<1>2. Kept /\ Marked /\ Phases
  BY DEF Init, Kept, Marked, Phases, Busy, Idle, NoItem, None
<1>3. Reviewed /\ InTime /\ Once
  BY DEF Init, Reviewed, InTime, Once, Idle, NoItem, None
<1> QED BY <1>1, <1>2, <1>3 DEF Inv
-----------------------------------------------------------------------------
(* One step of each action. *)

\* What memory shows: a record that is not under way, nor left by a cut, is the
\* one of the store, and no worker is at it.
LEMMA Current ==
  ASSUME Inv
  PROVE  /\ item.id = disk.id
         /\ item.stage \notin Busy => work.op \notin Busy
         /\ item.stage \notin Busy \cup {"uncertain"} => item = disk
         /\ item.stage # None => item \in Item
         /\ disk.id \in Nat
<1>1. item \in Item \cup {NoItem} /\ disk \in Item \cup {NoItem} /\ item.id = disk.id
  BY DEF Inv, TypeOK
<1>2. item.stage \notin Busy => work.op \notin Busy
  BY DEF Inv, Marked
<1>3. item.stage \notin Busy \cup {"uncertain"} => item = disk
  BY <1>1, LoadedKeeps DEF Inv, Kept
<1>4. item.stage # None => item \in Item
  BY <1>1 DEF NoItem
<1>5. disk.id \in Nat
  BY <1>1 DEF Item, NoItem, Ids
<1> QED BY <1>1, <1>2, <1>3, <1>4, <1>5

\* A step that touches neither the record nor the worker nor the history.
LEMMA QuietKeepsInv ==
  ASSUME Inv, UNCHANGED <<now, item, disk, work, history>>,
         outage' \in BOOLEAN, replies' \subseteq Ids,
         cfg' \in [on : BOOLEAN, board : Boards \cup {None}]
  PROVE  Inv'
<1>1. TypeOK'
  BY DEF Inv, TypeOK, history
<1>2. Kept' /\ Marked' /\ Phases' /\ InTime'
  BY DEF Inv, Kept, Loaded, Marked, Phases, InTime
<1>3. Reviewed' /\ Once'
  BY DEF Inv, Reviewed, Once, history
<1> QED BY <1>1, <1>2, <1>3 DEF Inv

\* The record goes to a stage that no worker is at.  It was under review so far,
\* or its restart was sent and it cannot wait for another.
LEMMA SavedKeepsInv ==
  ASSUME Inv, NEW q \in Item, NEW s \in Stages \ Busy,
         item.stage \notin Busy, q.id = item.id, q.stage = s, Save(q),
         work' \in {work, Idle},
         UNCHANGED <<now, cfg, outage, replies, sent, checked>>,
         s # "pending",
         s = "approved" => item.stage = "pending" /\ approved' = approved \cup {item.id},
         s # "approved" => approved' = approved,
         s = "cancelled" => cancelled' \in {cancelled, cancelled \cup {item.id}},
         s # "cancelled" => cancelled' = cancelled /\ item.stage \in {"new", "pending", "approved"}
  PROVE  Inv'
<1>1. q.id = disk.id /\ item' = q /\ disk' = q
  BY Current DEF Save
<1>2. work.op \notin Busy /\ work'.op \notin Busy /\ disk.id \in Ids
  BY <1>1, Current DEF Busy, Idle, None, Item
<1>3. TypeOK'
  <2>1. approved' \subseteq Ids /\ cancelled' \subseteq Ids
    BY <1>1, <1>2, Current DEF Inv, TypeOK
  <2>2. Idle \in [op : {None, "mention", "checking", "executing"}, item : Item \cup {NoItem},
                  at : {None, "survey", "catalog", "dryrun", "health", "grant", "restart",
                        "ok", "failed"}]
    BY DEF Idle
  <2> QED BY <1>1, <2>1, <2>2 DEF Inv, TypeOK
<1>4. Kept' /\ Marked' /\ InTime'
  BY <1>1, <1>2 DEF Kept, Marked, InTime, Busy
<1>5. Phases'
  BY <1>2 DEF Inv, Phases, Idle, None, Busy
<1>6. Reviewed'
  <2>1. s = "approved" => disk.id \in checked' /\ disk.id \in approved'
    BY Current DEF Inv, Reviewed, Busy
  <2>2. ASSUME NEW i \in cancelled' PROVE i <= disk.id /\ (i = disk.id => s = "cancelled")
    <3>1. CASE i \in cancelled
      <4>1. i <= disk.id /\ (i = disk.id => disk.stage = "cancelled")
        BY <3>1 DEF Inv, Reviewed
      <4>2. s # "cancelled" => item = disk /\ item.stage # "cancelled"
        BY Current DEF Busy
      <4> QED BY <4>1, <4>2
    <3>2. CASE i = item.id /\ s = "cancelled"
      BY <3>2, Current
    <3> QED BY <2>2, <3>1, <3>2
  <2> QED BY <1>1, <1>2, <2>1, <2>2 DEF Reviewed, Busy
<1>7. Once'
  <2>1. ASSUME NEW i \in Ids, sent[i] > 0
        PROVE  sent[i] = 1 /\ i <= disk.id /\ (i = disk.id => s = "cancelled")
    <3>1. sent[i] = 1 /\ i <= disk.id
          /\ (i = disk.id => disk.stage \in {"executing", "accepted", "uncertain", "cancelled"})
      BY <2>1 DEF Inv, Once
    <3>2. s # "cancelled" => item = disk /\ item.stage \in {"new", "pending", "approved"}
      BY Current DEF Busy
    <3> QED BY <3>1, <3>2
  <2> QED BY <1>1, <1>2, <2>1 DEF Once, Busy
<1> QED BY <1>3, <1>4, <1>5, <1>6, <1>7 DEF Inv

\* The worker gives up what it was at, with the record as it is.
LEMMA LeftKeepsInv ==
  ASSUME Inv, work' = Idle, UNCHANGED <<now, item, disk, cfg, outage, replies, history>>
  PROVE  Inv'
<1>1. TypeOK'
  BY DEF Inv, TypeOK, history, Idle, NoItem, None
<1>2. Kept' /\ Marked' /\ Phases' /\ InTime'
  BY DEF Inv, Kept, Loaded, Marked, Phases, InTime, Idle, None, Busy
<1>3. Reviewed' /\ Once'
  BY DEF Inv, Reviewed, Once, history, Idle, None
<1> QED BY <1>1, <1>2, <1>3 DEF Inv

LEMMA ProposeInv == ASSUME ActionAssumption, Inv, Propose \/ Suggest PROVE Inv'
<1>1. PICK w \in Windows, deadline \in 1..MaxNow : Proposes(w, deadline)
  BY DEF Propose, Suggest
<1>2. UNCHANGED <<now, work, cfg, outage, replies, changes, sent, checked, approved, cancelled>>
  BY DEF Propose, Suggest, history
<1>3. /\ item' \in Item /\ disk' = item' /\ item'.id = disk.id + 1 /\ item'.stage = "new"
      /\ work.op \notin Busy /\ disk.id \in Nat
  BY <1>1, Proposed, Current
<1>4. TypeOK'
  BY <1>2, <1>3 DEF Inv, TypeOK, Busy
<1>5. Kept' /\ Marked' /\ Phases' /\ InTime'
  BY <1>2, <1>3 DEF Inv, Kept, Marked, Phases, InTime, Busy
<1>6. Reviewed'
  <2>1. \A i \in cancelled : i <= disk.id /\ i \in Nat
    BY DEF Inv, Reviewed, TypeOK, Ids
  <2> QED BY <1>2, <1>3, <2>1 DEF Reviewed, Busy
<1>7. Once'
  BY <1>2, <1>3 DEF Inv, Once, Busy, Ids
<1> QED BY <1>4, <1>5, <1>6, <1>7 DEF Inv

LEMMA ApproveInv == ASSUME ActionAssumption, Inv, Approve PROVE Inv'
<1> DEFINE q == [item EXCEPT !.stage = "approved"]
<1>1. item \in Item /\ item.stage = "pending" /\ Save(q)
  BY Current DEF Approve, None
<1>2. q \in Item /\ q.id = item.id /\ q.stage = "approved"
  BY <1>1, Restaged DEF Stages
<1> HIDE DEF q
<1> QED BY <1>1, <1>2, SavedKeepsInv DEF Approve, Stages, Busy

LEMMA CancelInv == ASSUME ActionAssumption, Inv, Cancel PROVE Inv'
<1> DEFINE q == [item EXCEPT !.stage = "cancelled"]
<1>1. item \in Item /\ item.stage \notin Busy /\ Save(q)
  BY DEF Cancel, Inv, TypeOK
<1>2. q \in Item /\ q.id = item.id /\ q.stage = "cancelled"
  BY <1>1, Restaged DEF Stages
<1> HIDE DEF q
<1> QED BY <1>1, <1>2, SavedKeepsInv DEF Cancel, Stages, Busy

\* What was asked about is approved only as the item that still waits.
LEMMA MentionedInv == ASSUME ActionAssumption, Inv, Mentioned PROVE Inv'
<1>1. work.op = "mention" /\ work' = Idle
      /\ UNCHANGED <<now, cfg, outage, replies, sent, checked, cancelled>>
  BY DEF Mentioned
<1>2. CASE work.item.id \in replies /\ StillAsked
           /\ Save([work.item EXCEPT !.stage = "approved"])
           /\ approved' = approved \cup {item.id}
  <2> DEFINE q == [work.item EXCEPT !.stage = "approved"]
  <2>1. item \in Item /\ item.stage = "pending" /\ item.id = work.item.id /\ Save(q)
    BY <1>2, Current DEF StillAsked, None
  <2>2. work.item \in Item
    BY <2>1 DEF Inv, TypeOK, Item, NoItem, Ids
  <2>3. q \in Item /\ q.id = item.id /\ q.stage = "approved"
    BY <2>1, <2>2, Restaged DEF Stages
  <2> HIDE DEF q
  <2> QED BY <1>1, <1>2, <2>1, <2>3, SavedKeepsInv DEF Stages, Busy
<1>3. CASE UNCHANGED <<item, disk, approved>>
  BY <1>1, <1>3, LeftKeepsInv DEF history
<1> QED BY <1>2, <1>3 DEF Mentioned, SaveFails

LEMMA AskMentionsInv == ASSUME ActionAssumption, Inv, AskMentions PROVE Inv'
<1>1. item \in Item /\ work.op \notin Busy
  BY Current DEF AskMentions, None, Busy
<1>2. TypeOK'
  BY <1>1 DEF AskMentions, Inv, TypeOK, history, None
<1>3. Kept' /\ Marked' /\ Phases' /\ InTime'
  BY DEF AskMentions, Inv, Kept, Loaded, Marked, Phases, InTime, Busy, None
<1>4. Reviewed' /\ Once'
  BY DEF AskMentions, Inv, Reviewed, Once, history
<1> QED BY <1>2, <1>3, <1>4 DEF Inv

LEMMA MentionsFailInv == ASSUME ActionAssumption, Inv, MentionsFail PROVE Inv'
BY LeftKeepsInv DEF MentionsFail

LEMMA RetireInv == ASSUME ActionAssumption, Inv, Retire PROVE Inv'
<1>1. item \in Item /\ item.stage \in {"new", "approved"}
      /\ UNCHANGED <<now, work, cfg, outage, replies, changes, history>>
  BY Current DEF Retire, Due, None
<1>2. ASSUME NEW s \in {"expired", "cancelled"}, Save([item EXCEPT !.stage = s])
      PROVE  Inv'
  <2> DEFINE q == [item EXCEPT !.stage = s]
  <2>1. s \in Stages \ Busy
    BY DEF Stages, Busy
  <2>2. q \in Item /\ q.id = item.id /\ q.stage = s /\ Save(q)
    BY <1>1, <1>2, <2>1, Restaged
  <2> HIDE DEF q
  <2> QED BY <1>1, <2>1, <2>2, SavedKeepsInv DEF Busy, history
<1>3. CASE SaveFails
  BY <1>1, <1>3, QuietKeepsInv DEF SaveFails, Inv, TypeOK
<1> QED BY <1>2, <1>3 DEF Retire

\* The marker of a check, or of a restart whose proposal was reviewed and which
\* has sent nothing.
LEMMA StartInv == ASSUME ActionAssumption, Inv, Start PROVE Inv'
<1> DEFINE op == IF item.stage = "new" THEN "checking" ELSE "executing"
           q  == [item EXCEPT !.stage = op]
<1>1. item \in Item /\ item.stage \in {"new", "approved"} /\ item = disk
  BY Current DEF Start, Due, None, Busy
<1>2. q \in Item /\ q.id = disk.id /\ q.stage = op /\ disk.id \in Ids
  BY <1>1, Restaged DEF Stages, Item
<1>3. /\ item' = q /\ disk' = q
      /\ work' = [op |-> op, item |-> q, at |-> IF op = "checking" THEN "catalog" ELSE "survey"]
      /\ UNCHANGED <<now, cfg, outage, replies, sent, checked, approved, cancelled>>
  BY DEF Start, Save, history
<1>4. op \in Busy /\ (op = "executing" => disk.stage = "approved") /\ disk.stage \in {"new", "approved"}
  BY <1>1 DEF Busy
<1> HIDE DEF op, q
<1>5. TypeOK'
  BY <1>2, <1>3, <1>4 DEF Inv, TypeOK, Busy
<1>6. Kept' /\ Marked' /\ Phases' /\ InTime'
  BY <1>2, <1>3, <1>4 DEF Kept, Marked, Phases, InTime, Busy
<1>7. Reviewed'
  BY <1>2, <1>3, <1>4 DEF Inv, Reviewed, Busy
<1>8. Once'
  <2>1. \A i \in Ids : sent[i] > 0 => sent[i] = 1 /\ i <= disk.id /\ i # disk.id
    BY <1>4 DEF Inv, Once
  <2>2. sent[disk.id] = 0
    BY <1>2, <2>1 DEF Inv, TypeOK
  <2> QED BY <1>2, <1>3, <1>4, <2>1, <2>2 DEF Once
<1> QED BY <1>5, <1>6, <1>7, <1>8 DEF Inv

\* An answer: the check is passed with its dry run, and a restart is sent once,
\* from its grant.
LEMMA AnsweredInv == ASSUME ActionAssumption, Inv, Answered PROVE Inv'
<1>1. /\ work.op \in Busy /\ item = disk /\ work.item = disk /\ disk.stage = work.op
      /\ disk.id \in Ids
  BY DEF Answered, Calling, Inv, Phases, Marked, TypeOK, Item, NoItem, None, Busy
<1> DEFINE next == Follows(work.at)
<1>2. /\ work.at \in {"survey", "catalog", "dryrun", "health", "grant", "restart"}
      /\ next \in {"catalog", "dryrun", "health", "grant", "restart", "ok", "failed"}
      /\ next = "restart" => work.at = "grant"
      /\ next = "grant" => work.at = "health"
      /\ next \in {"survey", "catalog", "dryrun", "health"} => work.at \in {"survey", "catalog", "dryrun"}
      /\ work.op = "checking" => next \in {"dryrun", "ok"} /\ work.at \in {"catalog", "dryrun"}
      /\ work.op = "executing" => next # "ok" \/ work.at = "restart"
      /\ next = "health" => InWindow(work.item)
      /\ next = "ok" /\ work.op = "checking" => work.at = "dryrun"
  BY <1>1 DEF Answered, Calling, Inv, TypeOK, Phases, Follows, None, Busy
<1>3. /\ work' = [work EXCEPT !.at = next]
      /\ checked' = IF work.at = "dryrun" THEN checked \cup {disk.id} ELSE checked
      /\ sent' = IF work'.at = "restart" THEN [sent EXCEPT ![disk.id] = @ + 1] ELSE sent
      /\ UNCHANGED <<now, item, disk, cfg, outage, replies, approved, cancelled>>
  BY <1>1 DEF Answered
<1> HIDE DEF next
<1>4. work'.op = work.op /\ work'.item = disk /\ work'.at = next
  BY <1>1, <1>3 DEF Inv, TypeOK
<1>5. sent[disk.id] = 0 \/ work'.at # "restart"
  BY <1>1, <1>2, <1>4 DEF Inv, Once, Phases
<1>6. TypeOK'
  <2>1. work' \in [op : {None, "mention", "checking", "executing"}, item : Item \cup {NoItem},
                   at : {None, "survey", "catalog", "dryrun", "health", "grant", "restart",
                         "ok", "failed"}]
    BY <1>2, <1>3 DEF Inv, TypeOK
  <2>2. checked' \subseteq Ids
    BY <1>1, <1>3 DEF Inv, TypeOK
  <2>3. sent' \in [Ids -> 0..MaxNow + 1]
    BY <1>1, <1>3, <1>5 DEF Inv, TypeOK, ActionAssumption
  <2> QED BY <1>3, <2>1, <2>2, <2>3 DEF Inv, TypeOK
<1>7. Kept' /\ Marked'
  BY <1>1, <1>3, <1>4 DEF Kept, Marked
<1>8. Phases'
  BY <1>1, <1>2, <1>4 DEF Phases, Busy
<1>9. InTime'
  <2>1. work.op = "executing" /\ work.at \in {"health", "grant", "restart"} => disk.from <= now
    BY <1>1 DEF Inv, InTime
  <2>2. next \in {"health", "grant", "restart"} => work.at \in {"health", "grant"} \/ InWindow(disk)
    BY <1>1, <1>2
  <2> QED BY <1>3, <1>4, <2>1, <2>2 DEF InTime, InWindow
<1>10. Reviewed'
  BY <1>1, <1>2, <1>3, <1>4 DEF Inv, Reviewed
<1>11. Once'
  <2>1. ASSUME NEW i \in Ids, sent'[i] > 0
        PROVE  /\ sent'[i] = 1 /\ i <= disk.id
               /\ i = disk.id => disk.stage \in {"executing", "accepted", "uncertain", "cancelled"}
    <3>1. CASE sent'[i] = sent[i]
      BY <2>1, <3>1 DEF Inv, Once
    <3>2. CASE i = disk.id /\ sent[i] = 0 /\ sent'[i] = sent[i] + 1 /\ next = "restart"
      BY <1>1, <1>2, <3>2 DEF Ids, Busy
    <3> QED BY <1>1, <1>3, <1>4, <1>5, <3>1, <3>2 DEF Inv, TypeOK
  <2>2. work.op = "executing" /\ next \in {"survey", "catalog", "dryrun", "health", "grant"} =>
          sent'[disk.id] = 0
    <3>1. next \in {"survey", "catalog", "dryrun", "health", "grant"} =>
            work.at \in {"survey", "catalog", "dryrun", "health"}
      BY <1>2
    <3> QED BY <1>1, <1>3, <1>4, <3>1 DEF Inv, Once
  <2> QED BY <1>3, <1>4, <2>1, <2>2 DEF Once
<1> QED BY <1>6, <1>7, <1>8, <1>9, <1>10, <1>11 DEF Inv

LEMMA UnansweredInv == ASSUME ActionAssumption, Inv, Unanswered PROVE Inv'
<1>1. work.op \in Busy
  BY DEF Unanswered, Calling, Inv, Phases
<1>2. /\ work' = [work EXCEPT !.at = "failed"] /\ work'.op = work.op /\ work'.item = work.item
      /\ work'.at = "failed"
      /\ UNCHANGED <<now, item, disk, cfg, outage, replies, sent, checked, approved, cancelled>>
  BY DEF Unanswered, Inv, TypeOK, history
<1>3. TypeOK'
  BY <1>2 DEF Inv, TypeOK
<1>4. Kept' /\ Marked' /\ Phases' /\ InTime'
  BY <1>1, <1>2 DEF Inv, Kept, Loaded, Marked, Phases, InTime
<1>5. Reviewed' /\ Once'
  BY <1>2 DEF Inv, Reviewed, Once
<1> QED BY <1>3, <1>4, <1>5 DEF Inv

\* The outcome is saved over the marker, or the marker stays.
LEMMA ReportInv == ASSUME ActionAssumption, Inv, Report PROVE Inv'
<1>1. /\ work.op \in Busy /\ item = disk /\ work.item = disk /\ disk.stage = work.op
      /\ disk \in Item /\ disk.id \in Ids
  BY DEF Report, Inv, Phases, Marked, TypeOK, Item, NoItem, None, Busy
<1>2. work' = Idle /\ UNCHANGED <<now, cfg, outage, replies, sent, checked, approved, cancelled>>
  BY DEF Report, history
<1>3. CASE Save([work.item EXCEPT !.stage = Outcome])
  <2> DEFINE s == Outcome
             q == [disk EXCEPT !.stage = s]
  <2>1. /\ s \in {"pending", "accepted", "failed", "uncertain"}
        /\ s = "pending" => work.op = "checking" /\ work.at = "ok"
        /\ work.op = "executing" => s \in {"accepted", "uncertain"}
    BY <1>1 DEF Outcome, Report, Busy
  <2> HIDE DEF s
  <2>2. s \in Stages /\ s \notin Busy
    BY <2>1 DEF Stages, Busy
  <2>3. q \in Item /\ q.id = disk.id /\ q.stage = s /\ item' = q /\ disk' = q
    BY <1>1, <1>3, <2>2, Restaged DEF Save, s
  <2> HIDE DEF q
  <2>4. TypeOK'
    BY <1>2, <2>3 DEF Inv, TypeOK, Idle
  <2>5. Kept' /\ Marked' /\ Phases' /\ InTime'
    BY <1>2, <2>3 DEF Kept, Marked, Phases, InTime, Idle, None, Busy
  <2>6. Reviewed'
    BY <1>1, <1>2, <2>1, <2>3 DEF Inv, Reviewed, Idle, None, Busy
  <2>7. Once'
    BY <1>1, <1>2, <2>1, <2>3 DEF Inv, Once, Idle, None, Busy
  <2> QED BY <2>4, <2>5, <2>6, <2>7 DEF Inv
<1>4. CASE SaveFails
  BY <1>2, <1>4, LeftKeepsInv DEF SaveFails, history
<1> QED BY <1>3, <1>4 DEF Report

LEMMA TickInv == ASSUME ActionAssumption, Inv, Tick PROVE Inv'
<1>1. now \in 0..MaxNow /\ MaxNow \in Nat /\ now' = now + 1 /\ now' \in 0..MaxNow
  BY DEF ActionAssumption, Inv, TypeOK, Tick
<1>2. TypeOK'
  BY <1>1 DEF Tick, Inv, TypeOK, history
<1>3. Kept' /\ Marked' /\ Phases'
  BY DEF Tick, Inv, Kept, Loaded, Marked, Phases
<1>4. InTime'
  <2>1. work.item.from \in Nat
    BY <1>1 DEF Inv, TypeOK, Item, NoItem
  <2> QED BY <1>1, <2>1 DEF Tick, Inv, InTime
<1>5. Reviewed' /\ Once'
  BY DEF Tick, Inv, Reviewed, Once, history
<1> QED BY <1>2, <1>3, <1>4, <1>5 DEF Inv

\* The start after a cut ends in memory what the store says was under way.
LEMMA PowerCutInv == ASSUME ActionAssumption, Inv, PowerCut PROVE Inv'
<1>1. /\ item' = Loaded(disk) /\ disk' = disk /\ work' = Idle
      /\ UNCHANGED <<now, cfg, outage, replies, sent, checked, approved, cancelled>>
  BY DEF PowerCut, history
<1>2. disk \in Item \cup {NoItem} /\ Loaded(disk) \in Item \cup {NoItem} /\ Loaded(disk).id = disk.id
  BY LoadedKeeps DEF Inv, TypeOK
<1>3. TypeOK'
  BY <1>1, <1>2 DEF Inv, TypeOK, Idle
<1>4. Kept' /\ Marked' /\ Phases' /\ InTime'
  BY <1>1 DEF Kept, Loaded, Marked, Phases, InTime, Idle, None, Busy
<1>5. Reviewed' /\ Once'
  BY <1>1 DEF Inv, Reviewed, Once, Idle, None
<1> QED BY <1>3, <1>4, <1>5 DEF Inv

LEMMA NextInv == ASSUME ActionAssumption, Inv, [Next]_vars PROVE Inv'
<1>1. CASE Configure \/ Reply \/ Digest \/ StartFails
  <2>1. UNCHANGED <<now, item, disk, work, history>>
    BY <1>1 DEF Configure, Reply, Digest, StartFails, SaveFails
  <2>2. outage' \in BOOLEAN
    BY <1>1 DEF Configure, Reply, Digest, StartFails, Inv, TypeOK
  <2>3. replies' \subseteq Ids
    <3>1. Reply => item.id \in Ids
      BY Current DEF Reply, Item, None
    <3> QED BY <1>1, <3>1 DEF Configure, Reply, Digest, StartFails, Inv, TypeOK
  <2>4. cfg' \in [on : BOOLEAN, board : Boards \cup {None}]
    BY <1>1 DEF Configure, Reply, Digest, StartFails, Inv, TypeOK
  <2> QED BY <2>1, <2>2, <2>3, <2>4, QuietKeepsInv
<1>2. CASE UNCHANGED vars
  BY <1>2, QuietKeepsInv DEF vars, history, Inv, TypeOK
<1> QED
  BY <1>1, <1>2, ProposeInv, ApproveInv, CancelInv, AskMentionsInv, MentionedInv,
     MentionsFailInv, RetireInv, StartInv, AnsweredInv, UnansweredInv, ReportInv, TickInv,
     PowerCutInv DEF Next

\* Inv is an invariant: every step of the worker, the admin and the clock keeps it.
THEOREM InvHolds == ASSUME ActionAssumption PROVE Spec => []Inv
<1>1. Init => Inv
  BY InitInv
<1>2. Inv /\ [Next]_vars => Inv'
  BY NextInv
<1> QED BY <1>1, <1>2, PTL DEF Spec

-----------------------------------------------------------------------------
(* What it gives. *)

\* Every variable keeps its type, and memory and store hold the same proposal.
THEOREM TypeCorrect == ASSUME ActionAssumption PROVE Spec => []TypeOK
<1>1. Inv => TypeOK
  BY DEF Inv
<1> QED BY <1>1, InvHolds, PTL

\* A proposal restarts a board at most once (sre_actions.rs:2).
THEOREM RestartedOnce == ASSUME ActionAssumption PROVE Spec => []AtMostOnce
<1>1. Inv => AtMostOnce
  BY DEF Inv, Once, TypeOK, AtMostOnce
<1> QED BY <1>1, InvHolds, PTL

\* A restart goes out only for a proposal that was checked, approved and not
\* cancelled, inside its window, with its marker in the store.
LEMMA SentAfterReview == ASSUME Inv, [Next]_vars PROVE OnlyReviewedStep
<1> SUFFICES ASSUME NEW i \in Ids, sent'[i] > sent[i]
             PROVE  /\ i \in checked /\ i \in approved /\ i \notin cancelled
                    /\ InWindow(work.item)
                    /\ disk.id = i /\ disk.stage = "executing"
  BY DEF OnlyReviewedStep
<1>1. sent[i] \in Nat
  BY DEF Inv, TypeOK
<1>2. Answered
  <2>1. sent' # sent
    BY <1>1
  <2> QED
    BY <2>1 DEF Next, vars, history, Propose, Approve, Cancel, Configure, Reply, Suggest, AskMentions,
       Mentioned, MentionsFail, Retire, Start, StartFails, Unanswered, Report, Tick, Digest, PowerCut
<1>3. work.op \in Busy /\ work.item = disk /\ disk.stage = work.op
  BY <1>2 DEF Answered, Calling, Inv, Phases, Marked
<1>4. i = disk.id /\ Follows(work.at) = "restart"
  BY <1>1, <1>2, <1>3 DEF Answered, Inv, TypeOK
<1>5. work.at = "grant" /\ now < work.item.until
  <2>1. work.at \in {"survey", "catalog", "dryrun", "health", "grant", "restart"}
    BY <1>2 DEF Answered, Calling, Inv, TypeOK, None
  <2> QED BY <1>4, <2>1 DEF Follows
<1>6. work.op = "executing" /\ InWindow(work.item)
  BY <1>5 DEF Inv, Phases, InTime, InWindow
<1>7. i \in checked /\ i \in approved /\ i \notin cancelled
  BY <1>3, <1>4, <1>6 DEF Inv, Reviewed
<1> QED BY <1>3, <1>4, <1>6, <1>7

\* A restart goes out only for a proposal that was checked and approved, not
\* cancelled, and in its window (sre_actions.rs, perform).
THEOREM RestartsReviewed == ASSUME ActionAssumption PROVE Spec => [][OnlyReviewedStep]_vars
<1>1. Inv /\ [Next]_vars => OnlyReviewedStep
  BY SentAfterReview
<1> QED BY <1>1, InvHolds, PTL DEF Spec

\* Both, as the runs check them.
THEOREM ReviewedOnceEver == ASSUME ActionAssumption PROVE Spec => OnceEver
<1>1. Spec => []AtMostOnce /\ [][OnlyReviewedStep]_vars
  BY RestartedOnce, RestartsReviewed
<1> QED BY <1>1 DEF OnceEver
=============================================================================
