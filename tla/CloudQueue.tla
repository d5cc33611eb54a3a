----------------------------- MODULE CloudQueue -----------------------------
(***************************************************************************)
(* minicloud's durable jobs and the notices on its screen (Cloud in        *)
(* minicloud_rs/src/lib.rs, plugins/screen.rs, plugins/sql_insert.rs).     *)
(*                                                                         *)
(* Requests and the worker take turns under one lock.  A commit replaces   *)
(* the whole state and is atomic, as CloudStore shows of its two slots:    *)
(* one that reports an error has left the state in RAM as it was, and may  *)
(* still be what the next start finds.                                     *)
(***************************************************************************)
EXTENDS Naturals, Sequences, FiniteSets, SequencesExt

CONSTANTS
  Event,        \* event ids, each delivered any number of times
  Topic,        \* Event -> "notify", "read" or "insert"
  Id,           \* identities of notices
  About,        \* Event -> Id, what it notifies of or marks as read
  Supersedes,   \* Id -> the notices that showing it removes (statistics cards)
  MaxJobs,      \* 12
  MaxNotices,   \* 24
  MaxReceipts,  \* 32
  MaxDismissed, \* 64
  MaxRetries,   \* 2
  Lifetime,     \* NOTICE_LIFETIME
  MaxNow,       \* bound: time
  MaxFaults,    \* bound: power cuts and failed commits or plugin runs
  None

QueueAssumption ==
  /\ Topic \in [Event -> {"notify", "read", "insert"}]
  /\ About \in [Event -> Id] /\ Supersedes \in [Id -> SUBSET Id]
  /\ {MaxJobs, MaxNotices, MaxReceipts, MaxDismissed, Lifetime, MaxNow} \subseteq Nat \ {0}
  /\ MaxFaults \in Nat /\ MaxRetries \in Nat

Time == 1..(MaxNow + Lifetime)

VARIABLES
  now, synced,  \* the time, and whether the board has learnt it since it started
  cloud,        \* Cloud.state, or None while the board is off
  disk,         \* the state last committed
  doubt,        \* a state whose commit failed and may be found at the next start
  rows,         \* events in the desktop's database
  faults,
  owed,         \* history: events answered 202 whose receipt is not yet dropped
  read          \* history: notices dismissed, by a tap or a job, and not yet dropped

vars == <<now, synced, cloud, disk, doubt, rows, faults, owed, read>>

Job     == [event : Event, expires : Time \cup {None}, attempts : 0..MaxRetries]
Receipt == [event : Event, status : {"done", "failed"}]

NoJobs == [jobs |-> <<>>, receipts |-> <<>>, notices |-> [i \in Id |-> None],
           dismissed |-> <<>>]

On == cloud # None
Shown(s) == {i \in Id : s.notices[i] # None}
Expired == {i \in Shown(cloud) : synced /\ cloud.notices[i] <= now}
Waiting(s) == {s.jobs[k].event : k \in DOMAIN s.jobs}
Ended(s) == {s.receipts[k].event : k \in DOMAIN s.receipts}
Fault == faults < MaxFaults /\ faults' = faults + 1

-----------------------------------------------------------------------------
(***************************************************************************)
(* State transformers.                                                     *)
(***************************************************************************)
\* A ring drops its oldest entry when it is full.
Push(ring, x, limit) == Append(IF Len(ring) = limit THEN Tail(ring) ELSE ring, x)

\* dismiss_state
Dismiss(s, i) ==
  [s EXCEPT !.notices[i] = None,
            !.dismissed = IF Contains(@, i) THEN @ ELSE Push(@, i, MaxDismissed)]

Earlier(old, new) == IF old = None \/ new < old THEN new ELSE old

\* The screen plugin, for a notice; None when the inbox is full.
Show(s, i, expires) ==
  LET cleared == [s EXCEPT !.notices = [j \in Id |->
                    IF j \in Supersedes[i] THEN None ELSE s.notices[j]]]
  IN IF Contains(s.dismissed, i) THEN cleared
     ELSE IF i \notin Shown(s) /\ Cardinality(Shown(cleared)) = MaxNotices THEN None
     ELSE [cleared EXCEPT !.notices[i] = Earlier(@, expires)]

\* What running the job makes of the state.
Run(s, job) ==
  CASE Topic[job.event] = "read"   -> Dismiss(s, About[job.event])
    [] Topic[job.event] = "insert" -> s
    [] OTHER -> IF synced /\ job.expires <= now THEN s
                ELSE Show(s, About[job.event], job.expires)

\* Mutant: a failed job goes without a receipt.
EndedSilently(s, status) ==
  IF status = "failed" THEN [s EXCEPT !.jobs = Tail(@)]
  ELSE [s EXCEPT !.jobs = Tail(@),
                 !.receipts = Push(@, [event |-> Head(s.jobs).event, status |-> status],
                                   MaxReceipts)]

WithReceipt(s, status) ==
  [s EXCEPT !.jobs = Tail(@),
            !.receipts = Push(@, [event |-> Head(s.jobs).event, status |-> status],
                              MaxReceipts)]

Retried(s) ==
  [s EXCEPT !.jobs = Append(Tail(@), [Head(@) EXCEPT !.attempts = @ + 1])]

-----------------------------------------------------------------------------
(***************************************************************************)
(* Commits.                                                                *)
(***************************************************************************)
Commit(next, accepted, dismissed) ==
  /\ cloud' = next /\ disk' = next /\ doubt' = None
  /\ owed' = (owed \cup accepted) \ (Ended(cloud) \ Ended(next))
  /\ read' = (read \cup dismissed) \ (ToSet(cloud.dismissed) \ ToSet(next.dismissed))
  /\ UNCHANGED faults

CommitFails(next) ==
  /\ Fault
  /\ doubt' \in {None, next}
  /\ UNCHANGED <<cloud, disk, owed, read>>

\* Every request and every turn of the worker begins by dismissing what is over.
Expire ==
  LET next == FoldSet(LAMBDA i, s : Dismiss(s, i), cloud, Expired) IN
  /\ On /\ Expired # {}
  /\ Commit(next, {}, {}) \/ CommitFails(next)
  /\ UNCHANGED <<now, synced, rows>>

Turn == On /\ Expired = {}

-----------------------------------------------------------------------------
(***************************************************************************)
(* Requests.                                                               *)
(***************************************************************************)
\* A screen job is stamped with its end when it is accepted.
Stamp(e, requested) ==
  IF Topic[e] # "notify" THEN None
  ELSE IF requested = None \/ requested > now + Lifetime THEN now + Lifetime
  ELSE requested

Enqueue(e, requested) ==
  LET job  == [event |-> e, expires |-> Stamp(e, requested), attempts |-> 0]
      next == [cloud EXCEPT !.jobs = Append(@, job)]
      known == e \in Waiting(cloud) \cup Ended(cloud)
  IN /\ Turn
     /\ IF Topic[e] = "notify" THEN synced ELSE requested = None
     /\ \/ /\ known
           /\ owed' = owed \cup {e}
           /\ UNCHANGED <<cloud, disk, doubt, faults, read>>
        \/ /\ ~known /\ Len(cloud.jobs) < MaxJobs
           /\ Commit(next, {e}, {}) \/ CommitFails(next)
     /\ UNCHANGED <<now, synced, rows>>

DismissNotice(i) ==
  /\ Turn
  /\ \/ /\ Contains(cloud.dismissed, i)
        /\ read' = read \cup {i}
        /\ UNCHANGED <<cloud, disk, doubt, faults, owed>>
     \/ /\ ~Contains(cloud.dismissed, i)
        /\ Commit(Dismiss(cloud, i), {}, {i}) \/ CommitFails(Dismiss(cloud, i))
  /\ UNCHANGED <<now, synced, rows>>

-----------------------------------------------------------------------------
(***************************************************************************)
(* The worker, Cloud::work_once.                                           *)
(***************************************************************************)
Working == Turn /\ cloud.jobs # <<>>
NextJob == Head(cloud.jobs)

Finish(next, dismissed) ==
  /\ Commit(next, {}, dismissed) \/ CommitFails(next)
  /\ UNCHANGED <<now, synced>>

\* The row is in before the commit; a repeated run finds its key there.
JobDone ==
  LET next == Run(cloud, NextJob) IN
  /\ Working /\ next # None
  /\ rows' = IF Topic[NextJob.event] = "insert" THEN rows \cup {NextJob.event} ELSE rows
  /\ Finish(WithReceipt(next, "done"),
            IF Topic[NextJob.event] = "read" THEN {About[NextJob.event]} ELSE {})

\* The inbox is full, the image is gone, the record is not valid.
JobFails ==
  /\ Working /\ Topic[NextJob.event] # "read"
  /\ Topic[NextJob.event] = "notify" => ~(synced /\ NextJob.expires <= now)
  /\ Finish(WithReceipt(cloud, "failed"), {})
  /\ UNCHANGED rows

\* A storage error: a job has three attempts.
JobErrs ==
  LET next == IF NextJob.attempts < MaxRetries THEN Retried(cloud)
              ELSE WithReceipt(cloud, "failed")
  IN /\ Working /\ Topic[NextJob.event] = "insert"
     /\ Finish(next, {})
     /\ UNCHANGED rows

-----------------------------------------------------------------------------
(***************************************************************************)
(* Power and time.                                                         *)
(***************************************************************************)
PowerCut ==
  /\ On /\ Fault
  /\ cloud' = None /\ synced' = FALSE
  /\ UNCHANGED <<now, disk, doubt, rows, owed, read>>

Boot ==
  /\ ~On
  /\ cloud' \in {disk, doubt} \ {None}
  /\ disk' = cloud' /\ doubt' = None
  /\ owed' = owed \ (Ended(disk) \ Ended(cloud'))
  /\ read' = read \ (ToSet(disk.dismissed) \ ToSet(cloud'.dismissed))
  /\ UNCHANGED <<now, synced, rows, faults>>

SyncClock ==
  /\ On /\ ~synced /\ synced' = TRUE
  /\ UNCHANGED <<now, cloud, disk, doubt, rows, faults, owed, read>>

Tick ==
  /\ now < MaxNow /\ now' = now + 1
  /\ UNCHANGED <<synced, cloud, disk, doubt, rows, faults, owed, read>>

Init ==
  /\ now = 1 /\ synced = FALSE
  /\ cloud = None /\ disk = NoJobs /\ doubt = None
  /\ rows = {} /\ faults = 0
  /\ owed = {} /\ read = {}

Requests == \/ \E e \in Event, t \in (1..MaxNow) \cup {None} : Enqueue(e, t)
            \/ \E i \in Id : DismissNotice(i)
Work == JobDone \/ JobFails \/ JobErrs

Next == Requests \/ Work \/ Expire \/ PowerCut \/ Boot \/ SyncClock \/ Tick

\* The board starts again when it is off, and its worker loop runs: a worker's
\* turn either dismisses what is over or takes the front job.
Fairness == WF_vars(Boot) /\ WF_vars(Work) /\ WF_vars(Expire)

Spec == Init /\ [][Next]_vars /\ Fairness

-----------------------------------------------------------------------------
(***************************************************************************)
(* Properties.                                                             *)
(***************************************************************************)
StateOK(s) ==
  /\ s.jobs \in Seq(Job) /\ Len(s.jobs) <= MaxJobs
  /\ s.receipts \in Seq(Receipt) /\ Len(s.receipts) <= MaxReceipts
  /\ s.notices \in [Id -> Time \cup {None}] /\ Cardinality(Shown(s)) <= MaxNotices
  /\ s.dismissed \in Seq(Id) /\ Len(s.dismissed) <= MaxDismissed
  /\ Cardinality(Waiting(s)) = Len(s.jobs)

\* Types, the limits that Store::load enforces, and no event queued twice.
TypeOK ==
  /\ now \in 1..MaxNow /\ synced \in BOOLEAN /\ faults \in 0..MaxFaults
  /\ StateOK(disk) /\ cloud \in {disk, None} /\ (doubt = None \/ StateOK(doubt))
  /\ rows \subseteq Event /\ owed \subseteq Event /\ read \subseteq Id

\* An event that was accepted is waiting or has its receipt, unless later ones
\* have pushed the receipt out; an insert reported as done is in the database.
NothingLost ==
  /\ owed \subseteq Waiting(disk) \cup Ended(disk)
  /\ \A k \in DOMAIN disk.receipts :
       disk.receipts[k].status = "done" /\ Topic[disk.receipts[k].event] = "insert"
         => disk.receipts[k].event \in rows

\* A notice that was dismissed is not shown again, whatever is delivered again or
\* out of order and wherever power is cut, while the ring remembers it.
StaysRead ==
  On => \A i \in read : Contains(cloud.dismissed, i) /\ cloud.notices[i] = None

\* A notice that is delivered again, or updated, never stays longer for it.
NeverExtendedStep ==
  On /\ cloud' # None =>
    \A i \in Shown(cloud) \cap Shown(cloud') : cloud'.notices[i] <= cloud.notices[i]
NeverExtended == [][NeverExtendedStep]_vars

Served(e) == On /\ e \notin Waiting(cloud)
\* Every accepted job ends: no event waits for ever, and the board comes back on.
EveryJobEnds == \A e \in Event : []<>Served(e)
=============================================================================
