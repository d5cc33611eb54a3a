----------------------------- MODULE SreActions -----------------------------
(***************************************************************************)
(* The planned restart of the SRE bot (sre_actions.rs): one durable item   *)
(* that the admin site or a heap trend proposes, the worker checks with a  *)
(* dry run, the admin approves on the site or by a reply, and the worker   *)
(* carries out inside its quiet window.  The admin site runs between any   *)
(* two steps of the worker, which holds no lock while it waits for a board *)
(* or for the bot's Mastodon server.                                       *)
(*                                                                         *)
(* An item is named by its random id, and its code by the item: the code   *)
(* is there exactly while the item waits to be approved, and both are      *)
(* compared together.                                                      *)
(***************************************************************************)
EXTENDS Naturals, FiniteSetsExt

CONSTANTS Windows,     \* quiet windows that settings may name: [from, until]
          Boards,      \* boards that can be the action board
          MaxNow,      \* bound: the clock
          MaxIds,      \* bound: proposals
          MaxFaults,   \* bound: failed saves, lost answers, power cuts
          MaxChanges   \* bound: changes of the bot's settings

ActionAssumption ==
    /\ Windows # {} /\ Windows \subseteq [from : 0..MaxNow, until : 0..MaxNow]
    /\ {MaxNow, MaxIds, MaxFaults, MaxChanges} \subseteq Nat

None == "none"
Ids  == 1..MaxIds

VARIABLES now, item, disk, work, cfg, outage, replies, faults, changes,
          sent,       \* history: restart requests sent for each id
          checked,    \* history: ids whose dry run passed
          approved,   \* history: ids the admin approved
          cancelled   \* history: ids the admin cancelled

vars == <<now, item, disk, work, cfg, outage, replies, faults, changes, sent, checked,
          approved, cancelled>>
history == <<sent, checked, approved, cancelled>>

Stages == {"new", "checking", "pending", "approved", "executing", "accepted",
           "failed", "uncertain", "cancelled", "expired"}
Item   == [id : Ids, board : Boards, stage : Stages, from : 0..MaxNow, until : 0..MaxNow]
NoItem == [id |-> 0, board |-> None, stage |-> None, from |-> 0, until |-> 0]
Idle   == [op |-> None, item |-> NoItem, at |-> None]

TypeOK ==
    /\ now \in 0..MaxNow /\ outage \in BOOLEAN /\ replies \subseteq Ids
    /\ {item, disk} \subseteq Item \cup {NoItem} /\ item.id = disk.id
    /\ work \in [op : {None, "mention", "checking", "executing"}, item : Item \cup {NoItem},
                 at : {None, "survey", "catalog", "dryrun", "health", "grant", "restart",
                       "ok", "failed"}]
    /\ cfg \in [on : BOOLEAN, board : Boards \cup {None}]
    /\ sent \in [Ids -> 0..MaxNow + 1]
    /\ checked \subseteq Ids /\ approved \subseteq Ids /\ cancelled \subseteq Ids

Init ==
    /\ now = 0 /\ item = NoItem /\ disk = NoItem /\ work = Idle
    /\ cfg \in [on : BOOLEAN, board : Boards]
    /\ outage = FALSE /\ replies = {} /\ faults = 0 /\ changes = 0
    /\ sent = [i \in Ids |-> 0] /\ checked = {} /\ approved = {} /\ cancelled = {}

-----------------------------------------------------------------------------
(* The record. *)

Busy == {"checking", "executing"}

\* load: a restart or a check that power interrupted is not taken up again.
Loaded(p) == IF p.stage \in Busy THEN [p EXCEPT !.stage = "uncertain"] ELSE p

Fault == faults < MaxFaults /\ faults' = faults + 1

\* save: in the store first, and in memory only when that succeeded.
Save(p) == item' = p /\ disk' = p /\ UNCHANGED faults
SaveFails == Fault /\ UNCHANGED <<item, disk>>

InWindow(p) == p.from <= now /\ now < p.until

-----------------------------------------------------------------------------
(* The admin site. *)

\* api, propose: a live item is not displaced, one under way never is.
Proposable == \/ item.stage \notin {"new", "checking", "pending", "approved", "executing"}
              \/ (item.stage \notin Busy /\ item.until <= now)

NewItem(w, deadline) ==
    [id |-> item.id + 1, board |-> cfg.board, stage |-> "new",
     from |-> Max({w.from, now}), until |-> Min({w.until, deadline})]

Proposes(w, deadline) ==
    /\ Proposable /\ cfg.board # None /\ item.id < MaxIds
    /\ w.until > now /\ NewItem(w, deadline).from < NewItem(w, deadline).until
    /\ Save(NewItem(w, deadline))

Propose == /\ \E w \in Windows, deadline \in 1..MaxNow : Proposes(w, deadline)
           /\ UNCHANGED <<now, work, cfg, outage, replies, changes, history>>

\* api, approve and cancel: the page names the item, which must be current.
Approve == /\ item.stage = "pending" /\ now < item.until
           /\ Save([item EXCEPT !.stage = "approved"])
           /\ approved' = approved \cup {item.id}
           /\ UNCHANGED <<now, work, cfg, outage, replies, changes, sent, checked, cancelled>>

Cancel == /\ item # NoItem /\ now < item.until /\ item.stage \notin Busy
          /\ Save([item EXCEPT !.stage = "cancelled"])
          /\ cancelled' = cancelled \cup {item.id}
          /\ UNCHANGED <<now, work, cfg, outage, replies, changes, sent, checked, approved>>

Configure == /\ changes < MaxChanges /\ changes' = changes + 1
             /\ cfg' \in [on : BOOLEAN, board : Boards \cup {None}]
             /\ UNCHANGED <<now, item, disk, work, outage, replies, faults, history>>

\* The admin replies to the digest with the code the page shows.
Reply == /\ item.stage = "pending" /\ replies' = replies \cup {item.id}
         /\ UNCHANGED <<now, item, disk, work, cfg, outage, faults, changes, history>>

-----------------------------------------------------------------------------
(* The worker. *)

\* suggest: a trend proposes, when nothing was ever proposed.
Suggest == /\ work = Idle /\ item = NoItem /\ cfg.on
           /\ \E w \in Windows, deadline \in 1..MaxNow : Proposes(w, deadline)
           /\ UNCHANGED <<now, work, cfg, outage, replies, changes, history>>

\* mentions: the item is copied, the lock released, the server asked.
AskMentions == /\ work = Idle /\ cfg.on /\ item.stage = "pending" /\ now < item.until
               /\ work' = [op |-> "mention", item |-> item, at |-> None]
               /\ UNCHANGED <<now, item, disk, cfg, outage, replies, faults, changes, history>>

StillAsked == item.id = work.item.id /\ item.stage = "pending"

\* mentions, after the answer: only the item that was asked about, and only
\* if it still waits.
Mentioned ==
    /\ work.op = "mention" /\ work' = Idle
    /\ \/ /\ work.item.id \in replies /\ StillAsked
          /\ Save([work.item EXCEPT !.stage = "approved"])
          /\ approved' = approved \cup {item.id}
       \/ /\ work.item.id \in replies /\ StillAsked /\ SaveFails /\ UNCHANGED approved
       \/ /\ ~(work.item.id \in replies /\ StillAsked)
          /\ UNCHANGED <<item, disk, faults, approved>>
    /\ UNCHANGED <<now, cfg, outage, replies, changes, sent, checked, cancelled>>

MentionsFail == /\ work.op = "mention" /\ Fault /\ work' = Idle
                /\ UNCHANGED <<now, item, disk, cfg, outage, replies, changes, history>>

Due == item.stage = "new" \/ (item.stage = "approved" /\ now >= item.from)

\* tick, the items it ends without any request.
Expires(p)    == now >= p.until
Suppressed(p) == p.stage = "approved" /\ cfg.on /\ cfg.board = p.board /\ outage

Retire ==
    /\ work = Idle /\ Due
    /\ \/ /\ Expires(item) /\ (Save([item EXCEPT !.stage = "expired"]) \/ SaveFails)
       \/ /\ ~Expires(item) /\ Suppressed(item)
          /\ (Save([item EXCEPT !.stage = "cancelled"]) \/ SaveFails)
    /\ UNCHANGED <<now, work, cfg, outage, replies, changes, history>>

\* tick: the marker is in the store before anything is sent.
Start ==
    /\ work = Idle /\ Due /\ ~Expires(item) /\ ~Suppressed(item)
    /\ item.stage = "approved" => cfg.on
    /\ cfg.board = item.board
    /\ LET op     == IF item.stage = "new" THEN "checking" ELSE "executing"
           marked == [item EXCEPT !.stage = op]
       IN  /\ Save(marked)
           /\ work' = [op |-> op, item |-> marked,
                       at |-> IF op = "checking" THEN "catalog" ELSE "survey"]
    /\ UNCHANGED <<now, cfg, outage, replies, changes, history>>

StartFails == /\ work = Idle /\ Due /\ SaveFails
              /\ UNCHANGED <<now, work, cfg, outage, replies, changes, history>>

\* Mutant: the window is not looked at again once the grant is there.
FollowsWithoutLook(at) ==
    CASE at = "survey"  -> "catalog"
      [] at = "catalog" -> "dryrun"
      [] at = "dryrun"  -> IF work.op = "checking" THEN "ok"
                           ELSE IF InWindow(work.item) THEN "health" ELSE "failed"
      [] at = "health"  -> IF now < work.item.until THEN "grant" ELSE "failed"
      [] at = "grant"   -> "restart"
      [] at = "restart" -> "ok"

\* perform: what follows each answer; the window is looked at three times.
Follows(at) ==
    CASE at = "survey"  -> "catalog"
      [] at = "catalog" -> "dryrun"
      [] at = "dryrun"  -> IF work.op = "checking" THEN "ok"
                           ELSE IF InWindow(work.item) THEN "health" ELSE "failed"
      [] at = "health"  -> IF now < work.item.until THEN "grant" ELSE "failed"
      [] at = "grant"   -> IF now < work.item.until THEN "restart" ELSE "failed"
      [] at = "restart" -> "ok"

Calling == work.at \notin {None, "ok", "failed"}

\* A board answers; after the grant the restart request goes out.
Answered ==
    /\ Calling /\ work' = [work EXCEPT !.at = Follows(work.at)]
    /\ checked' = IF work.at = "dryrun" THEN checked \cup {work.item.id} ELSE checked
    /\ sent' = IF work'.at = "restart" THEN [sent EXCEPT ![work.item.id] = @ + 1] ELSE sent
    /\ UNCHANGED <<now, item, disk, cfg, outage, replies, faults, changes, approved, cancelled>>

\* No answer, a refusal, or two boards that do not answer the survey.
Unanswered == /\ Calling /\ Fault /\ work' = [work EXCEPT !.at = "failed"]
              /\ UNCHANGED <<now, item, disk, cfg, outage, replies, changes, history>>

Outcome == CASE work.at = "ok" /\ work.op = "checking"      -> "pending"
             [] work.at = "ok" /\ work.op = "executing"     -> "accepted"
             [] work.at = "failed" /\ work.op = "checking"  -> "failed"
             [] work.at = "failed" /\ work.op = "executing" -> "uncertain"

\* tick, at the end: if this save fails the marker stays.
Report == /\ work.at \in {"ok", "failed"} /\ work' = Idle
          /\ (Save([work.item EXCEPT !.stage = Outcome]) \/ SaveFails)
          /\ UNCHANGED <<now, cfg, outage, replies, changes, history>>

-----------------------------------------------------------------------------
(* The world. *)

Tick == /\ now < MaxNow /\ now' = now + 1
        /\ UNCHANGED <<item, disk, work, cfg, outage, replies, faults, changes, history>>

\* A digest finds, or no longer finds, several boards down at once.
Digest == /\ work = Idle /\ outage' = ~outage /\ changes < MaxChanges /\ changes' = changes + 1
          /\ UNCHANGED <<now, item, disk, work, cfg, replies, faults, history>>

PowerCut == /\ Fault /\ item' = Loaded(disk) /\ work' = Idle
            /\ UNCHANGED <<now, disk, cfg, outage, replies, changes, history>>

Next == \/ Propose \/ Approve \/ Cancel \/ Configure \/ Reply
        \/ Suggest \/ AskMentions \/ Mentioned \/ MentionsFail
        \/ Retire \/ Start \/ StartFails \/ Answered \/ Unanswered \/ Report
        \/ Tick \/ Digest \/ PowerCut

Spec == Init /\ [][Next]_vars

\* The worker is a thread that passes every second, and the clock runs.
Fairness == /\ WF_vars(Retire) /\ WF_vars(Start) /\ WF_vars(Answered) /\ WF_vars(Report)
            /\ WF_vars(Mentioned) /\ WF_vars(Tick)
LiveSpec == Spec /\ Fairness

-----------------------------------------------------------------------------
\* sre_actions.rs:2, "A persisted `executing` record is never retried after a
\* crash or lost reply": one proposal restarts a board at most once, whatever
\* saves fail, answers are lost or power is cut.
AtMostOnce == \A i \in Ids : sent[i] <= 1

\* A restart goes out only for a proposal whose dry run passed, that the admin
\* approved and did not cancel, inside its window, with the marker that stops
\* a second attempt already in the store.
OnlyReviewedStep ==
  \A i \in Ids : sent'[i] > sent[i] =>
      /\ i \in checked /\ i \in approved /\ i \notin cancelled
      /\ InWindow(work.item)
      /\ disk.id = i /\ disk.stage = "executing"

\* Both, the promise of the module to whoever owns a board.
OnceEver == []AtMostOnce /\ [][OnlyReviewedStep]_vars

Settled == item.stage \notin {"new", "approved"}
\* No proposal stays behind: one that waits for its check or its restart is
\* carried out or expires, though the bot is off or its board changed.
EveryActionEnds == []<>Settled
=============================================================================
