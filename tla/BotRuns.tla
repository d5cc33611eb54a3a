------------------------------- MODULE BotRuns -------------------------------
(***************************************************************************)
(* One bot of mastomini_bots: the schedule its settings choose, the        *)
(* scheduler thread that takes due jobs under the lock, runs them without  *)
(* it and reports under it again (runner.rs, service.rs), the record kept  *)
(* in the store, and the household's idempotency keys that keep a repeated *)
(* request from posting twice (statuses.rs).                               *)
(*                                                                         *)
(* Time is counted in steps of the clock.  A schedule is the set of its    *)
(* slots, with one that has passed from the start (a daily or periodic     *)
(* schedule has a slot in any two days); 0 stands for "none".              *)
(***************************************************************************)
EXTENDS Naturals, Sequences, FiniteSetsExt

CONSTANTS Schedules,   \* the sets of slots the settings can choose
          Grace,       \* grace_minutes
          Waits,       \* RETRY_MINUTES
          KeyLife,     \* IDEMPOTENCY_MS
          MaxNow,      \* bound: the clock
          MaxFaults,   \* bound: power cuts, failed saves, restarts of the household
          MaxChanges   \* bound: changes of settings and presses of a button

BotAssumption ==
    /\ Schedules # {} /\ \A s \in Schedules : 1 \in s /\ s \subseteq 1..MaxNow
    /\ {Grace, KeyLife, MaxNow, MaxFaults, MaxChanges} \subseteq Nat /\ KeyLife > 0
    /\ Waits \in Seq(1..MaxNow) /\ Waits # <<>>

None  == 0
Slots == UNION Schedules
Kinds == {"scheduled", "manual", "check"}

VARIABLES now,      \* the true time
          clock,    \* the device has internet time
          rec,      \* the bot's record in memory
          disk,     \* the record in the store
          rt,       \* Runtime: lost at a restart
          job,      \* the job the scheduler thread is running, if any
          keys,     \* the household's idempotency keys: slot -> expiry
          posts,    \* how many posts the household holds for each slot
          forgot,   \* history: how often the household forgot a slot's key
          since,    \* history: when the bot was last turned on or moved
          busy,     \* history: a run of the bot was under way at that moment
          settled,  \* history: slots whose end has reached the store
          changes, faults

vars == <<now, clock, rec, disk, rt, job, keys, posts, forgot, since, busy, settled,
          changes, faults>>

Records == [enabled : BOOLEAN, schedule : Schedules, last : {None} \cup Slots]
IdleRun == [running |-> FALSE, attempt |-> 0, retryAt |-> None,
            manual |-> FALSE, check |-> FALSE]
NoJob   == [kind |-> "none", slot |-> None, result |-> "none", from |-> 0]

TypeOK ==
    /\ now \in 1..MaxNow /\ clock \in BOOLEAN
    /\ rec \in Records /\ disk \in Records
    /\ rt \in [running : BOOLEAN, attempt : Nat, retryAt : Nat, manual : BOOLEAN, check : BOOLEAN]
    /\ job \in [kind : Kinds \cup {"none"}, slot : 0..MaxNow,
                result : {"none", "ok", "retry", "permanent"}, from : 0..MaxNow]
    /\ rt.running = (job.kind # "none")
    /\ keys \in [Slots -> 0..MaxNow + KeyLife] /\ posts \in [Slots -> Nat]
    /\ forgot \in [Slots -> Nat] /\ settled \subseteq Slots
    /\ since \in 0..now /\ busy \in BOOLEAN /\ changes \in Nat /\ faults \in Nat

Init ==
    /\ now = 1 /\ clock = FALSE
    /\ \E s \in Schedules : rec = [enabled |-> FALSE, schedule |-> s, last |-> None]
    /\ disk = rec /\ rt = IdleRun /\ job = NoJob
    /\ keys = [s \in Slots |-> 0] /\ posts = [s \in Slots |-> 0]
    /\ forgot = [s \in Slots |-> 0]
    /\ since = 0 /\ busy = FALSE /\ settled = {} /\ changes = 0 /\ faults = 0

-----------------------------------------------------------------------------
(* The schedule and the store. *)

\* Schedule::latest_at: the latest slot at or before t.
LatestAt(s, t) == LET passed == {x \in s : x <= t}
                  IN  IF passed = {} THEN None ELSE Max(passed)

\* Service::save with the new record in memory: what the store then holds.
\* Callers other than configure ignore a failure.
Saved(r, ok) ==
    /\ rec' = r
    /\ disk' = IF ok THEN r ELSE disk
    /\ faults' = IF ok THEN faults ELSE faults + 1
    /\ ok \/ faults < MaxFaults

-----------------------------------------------------------------------------
(* The admin. *)

\* Service::configure: the bot is turned on or off, its times change.  Turning
\* it on, or moving the times of a bot that is on, starts from the present slot.
\* A failed save puts the record back.
Configure(on, s, ok) ==
    /\ changes < MaxChanges /\ changes' = changes + 1
    /\ LET restart == on /\ (~rec.enabled \/ s # rec.schedule)
           r == [enabled |-> on, schedule |-> s,
                 last |-> IF ~restart THEN rec.last
                          ELSE IF clock THEN LatestAt(s, now) ELSE None]
       IN  /\ IF ok THEN Saved(r, TRUE)
                    ELSE faults < MaxFaults /\ faults' = faults + 1 /\ UNCHANGED <<rec, disk>>
           /\ rt' = IF restart THEN [rt EXCEPT !.attempt = 0, !.retryAt = None] ELSE rt
           /\ IF restart /\ ok THEN since' = now /\ busy' = rt.running ELSE UNCHANGED <<since, busy>>
    /\ UNCHANGED <<now, clock, job, keys, posts, forgot, settled>>

\* Service::request: Run now, or Check the key.
Request(kind) ==
    /\ changes < MaxChanges /\ changes' = changes + 1
    /\ rt' = IF kind = "manual" THEN [rt EXCEPT !.manual = TRUE]
                                ELSE [rt EXCEPT !.check = TRUE]
    /\ UNCHANGED <<now, clock, rec, disk, job, keys, posts, forgot, since, busy, settled, faults>>

-----------------------------------------------------------------------------
(* The scheduler thread. *)

\* A Job; "from" is a history field, the time of the last turn-on or move.
Take(kind, slot) == job' = [kind |-> kind, slot |-> slot, result |-> "none", from |-> since]

\* Service::due, a request of the admin: a check goes before a run.
TakeRequest ==
    /\ clock /\ ~rt.running /\ (rt.check \/ rt.manual)
    /\ IF rt.check
       THEN Take("check", now) /\ rt' = [rt EXCEPT !.running = TRUE, !.check = FALSE]
       ELSE Take("manual", now) /\ rt' = [rt EXCEPT !.running = TRUE, !.manual = FALSE]
    /\ UNCHANGED <<now, clock, rec, disk, keys, posts, forgot, since, busy, settled, changes, faults>>

Idle == clock /\ ~rt.running /\ ~rt.check /\ ~rt.manual /\ rec.enabled

\* Service::scheduled: the first look since the bot was turned on without a clock.
StartFromHere(ok) ==
    LET slot == LatestAt(rec.schedule, now)
    IN  /\ Idle /\ rec.last = None /\ slot # None
        /\ Saved([rec EXCEPT !.last = slot], ok)
        /\ UNCHANGED <<now, clock, rt, job, keys, posts, forgot, since, busy, settled, changes>>

\* Service::scheduled: the slot is past its grace and recorded as missed.
Miss(ok) ==
    LET slot == LatestAt(rec.schedule, now)
    IN  /\ Idle /\ rec.last # None /\ slot > rec.last /\ now - slot > Grace
        /\ Saved([rec EXCEPT !.last = slot], ok)
        /\ settled' = IF ok THEN settled \cup {slot} ELSE settled
        /\ rt' = [rt EXCEPT !.attempt = 0, !.retryAt = None]
        /\ UNCHANGED <<now, clock, job, keys, posts, forgot, since, busy, changes>>

\* Service::due, a scheduled run.
TakeSlot ==
    LET slot == LatestAt(rec.schedule, now)
    IN  /\ Idle /\ rec.last # None /\ slot > rec.last /\ now - slot <= Grace
        /\ rt.retryAt <= now
        /\ Take("scheduled", slot) /\ rt' = [rt EXCEPT !.running = TRUE]
        /\ UNCHANGED <<now, clock, rec, disk, keys, posts, forgot, since, busy, settled,
                       changes, faults>>

\* Mutant: every attempt has a key of its own.
AnswerFreshKey(result, landed) ==
    /\ job.kind # "none" /\ job.result = "none"
    /\ result = "ok" => landed
    /\ landed => result # "permanent"
    /\ job' = [job EXCEPT !.result = result]
    /\ IF landed /\ job.kind = "scheduled"
       THEN posts' = [posts EXCEPT ![job.slot] = @ + 1] /\ UNCHANGED keys
       ELSE UNCHANGED <<keys, posts>>
    /\ UNCHANGED <<now, clock, rec, disk, rt, forgot, since, busy, settled, changes, faults>>

\* execute, and the household's answer: the request lands or not, its answer
\* comes back or is lost, or the run fails for good.  The key of a scheduled
\* post names its slot (Run::idempotency_key), and a key that the household
\* still has posts nothing new.  A check only reads; a manual run has a key
\* that no other run has, so neither is counted here.
Answer(result, landed) ==
    /\ job.kind # "none" /\ job.result = "none"
    /\ result = "ok" => landed
    /\ landed => result # "permanent"
    /\ job' = [job EXCEPT !.result = result]
    /\ IF landed /\ job.kind = "scheduled" /\ keys[job.slot] <= now
       THEN /\ posts' = [posts EXCEPT ![job.slot] = @ + 1]
            /\ keys' = [keys EXCEPT ![job.slot] = now + KeyLife]
       ELSE UNCHANGED <<keys, posts>>
    /\ UNCHANGED <<now, clock, rec, disk, rt, forgot, since, busy, settled, changes, faults>>

Wait == Waits[IF rt.attempt < Len(Waits) THEN rt.attempt + 1 ELSE Len(Waits)]

Retries == job.kind = "scheduled" /\ job.result = "retry" /\ now + Wait <= job.slot + Grace

Settles == job.kind = "scheduled" /\ ~Retries

\* Mutant: a check, or a run the admin asked for, leaves the bot running.
AfterRunBusy ==
    IF Retries THEN [rt EXCEPT !.running = FALSE, !.attempt = @ + 1, !.retryAt = now + Wait]
    ELSE IF Settles THEN [rt EXCEPT !.running = FALSE, !.attempt = 0, !.retryAt = None]
    ELSE rt

\* finish and settle: a scheduled run that may pass waits for its next attempt,
\* one that ended clears it, any other run leaves it.
AfterRun ==
    IF Retries THEN [rt EXCEPT !.running = FALSE, !.attempt = @ + 1, !.retryAt = now + Wait]
    ELSE IF Settles THEN [rt EXCEPT !.running = FALSE, !.attempt = 0, !.retryAt = None]
    ELSE [rt EXCEPT !.running = FALSE]

\* Service::finish: a scheduled run that ended settles its slot.  The record is
\* saved either way.
Finish(ok) ==
    /\ job.result # "none" /\ job' = NoJob /\ rt' = AfterRun
    /\ Saved(IF Settles THEN [rec EXCEPT !.last = job.slot] ELSE rec, ok)
    /\ settled' = IF Settles /\ ok THEN settled \cup {job.slot} ELSE settled
    /\ UNCHANGED <<now, clock, keys, posts, forgot, since, busy, changes>>

-----------------------------------------------------------------------------
(* The world. *)

\* Time passes; the household drops the keys whose hour is over.
Tick ==
    /\ now < MaxNow /\ now' = now + 1
    /\ forgot' = [s \in Slots |-> IF keys[s] = now + 1 THEN forgot[s] + 1 ELSE forgot[s]]
    /\ UNCHANGED <<clock, rec, disk, rt, job, keys, posts, since, busy, settled, changes, faults>>

\* Internet time arrives.
SetClock ==
    /\ ~clock /\ clock' = TRUE
    /\ UNCHANGED <<now, rec, disk, rt, job, keys, posts, forgot, since, busy, settled, changes, faults>>

\* The device loses power and starts again (Service::open): only the record is left.
Restart ==
    /\ faults < MaxFaults /\ faults' = faults + 1
    /\ rec' = disk /\ rt' = IdleRun /\ job' = NoJob /\ clock' = FALSE
    /\ UNCHANGED <<now, disk, keys, posts, forgot, since, busy, settled, changes>>

\* The household restarts: its idempotency keys were in memory.
HouseholdRestart ==
    /\ faults < MaxFaults /\ faults' = faults + 1
    /\ keys' = [s \in Slots |-> 0]
    /\ forgot' = [s \in Slots |-> IF keys[s] > now THEN forgot[s] + 1 ELSE forgot[s]]
    /\ UNCHANGED <<now, clock, rec, disk, rt, job, posts, since, busy, settled, changes>>

Due == TakeRequest \/ TakeSlot \/ \E ok \in BOOLEAN : StartFromHere(ok) \/ Miss(ok)

Execute == \E result \in {"ok", "retry", "permanent"}, landed \in BOOLEAN :
               Answer(result, landed)

Next ==
    \/ \E on, ok \in BOOLEAN, s \in Schedules : Configure(on, s, ok)
    \/ \E kind \in {"manual", "check"} : Request(kind)
    \/ Due \/ Execute
    \/ \E ok \in BOOLEAN : Finish(ok)
    \/ Tick \/ SetClock \/ Restart \/ HouseholdRestart

\* The thread ticks once a second for ever, every network call has a timeout, and
\* a device on a network gets the time.
Spec == /\ Init /\ [][Next]_vars
        /\ WF_vars(Due) /\ WF_vars(Execute) /\ WF_vars(\E ok \in BOOLEAN : Finish(ok))
        /\ WF_vars(Tick) /\ WF_vars(SetClock)

-----------------------------------------------------------------------------
(* Properties. *)

\* "Retried with the same Idempotency-Key, so a post that did land is not
\* repeated" (service.rs:13-15): across retries, lost answers, failed saves and
\* restarts of the device, a slot is posted again only after the household
\* itself forgot the slot's key.
OncePerSlot == \A s \in Slots : posts[s] <= 1 + forgot[s]

\* "The last slot handled is stored, so a restart never repeats one"
\* (service.rs:9-10): a slot whose end was saved is never taken again, whatever
\* is turned off, on or moved afterwards and however often the device restarts.
SettledStaysSettledStep ==
  job'.kind = "scheduled" /\ job.kind = "none" => job'.slot \notin settled
SettledStaysSettled == [][SettledStaysSettledStep]_vars

\* "Only slots from now on: turning on at 07:40 (or moving the time to before
\* now) does not run a slot that has passed" (service.rs:431-432), when no run of
\* the bot was under way at that moment; also when the clock was not set yet, the
\* save failed later or the device restarted.
NothingFromBefore == job.kind = "scheduled" /\ ~busy => job.slot > job.from

\* What the scheduler promises of one bot's slots.
SlotsOnce == [](OncePerSlot /\ NothingFromBefore) /\ SettledStaysSettled

\* The comment as it stands.  A run under way at that moment writes its own, older
\* slot back when it ends, and the slots between come due.
NeverFromBefore == job.kind = "scheduled" => job.slot > job.from

Pending(s, sch) == rec.enabled /\ rec.schedule = sch /\ s \in sch /\ now >= s /\ rec.last < s
\* A slot of a bot that is on is run or recorded as missed in the end, unless the
\* bot is turned off or its times are changed: no failure, request or restart
\* leaves the bot waiting for ever.
SlotsAreSettled == \A s \in Slots, sch \in Schedules : []<>~Pending(s, sch)
=============================================================================
