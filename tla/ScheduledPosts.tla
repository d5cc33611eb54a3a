--------------------------- MODULE ScheduledPosts ---------------------------
(***************************************************************************)
(* The scheduled-post protocol.  A mastomini board keeps the drafts        *)
(* (mastomini_rs/src/domain/scheduled.rs) and hands each one's due time    *)
(* to a bots board (mastomini_rs/src/scheduler_bridge.rs).  The bots board *)
(* keeps one durable timer per draft (mastomini_bots/src/scheduler.rs) and *)
(* calls back when the timer is due; the callback publishes the draft.     *)
(*                                                                         *)
(* Both boards lose power at any moment, requests and replies are lost,    *)
(* and a request whose caller has given up may still be served later.      *)
(* Every handler of the mastomini board runs under the service mutex, so   *)
(* it is one action here; what interleaves inside it is power loss and     *)
(* storage failure, at each of the writes it makes.                        *)
(***************************************************************************)
EXTENDS Naturals, Sequences, FiniteSets

CONSTANTS
  Account,      \* members who schedule posts
  Bots,         \* bots boards the admin can pair with
  NoBoard,      \* "no scheduler configured"
  MaxJobs,      \* bound: jobs ever submitted
  AuthorOf,     \* the member who submits each job
  MaxRevision,  \* bound: the revision up to which a member may reschedule
  MaxEpoch,     \* bound: security resets per member
  MaxTime,      \* bound: the last clock reading
  Lead,         \* how far ahead a post must be scheduled (five minutes)
  Skew,         \* how far a bots clock may run ahead of the mastomini clock
  MaxScheduled, \* MAX_SCHEDULED, the drafts a mastomini board holds
  Capacity,     \* CAPACITY, the timers a bots board holds
  MaxLate,      \* bound: abandoned requests still in flight
  MaxFaults,    \* bound: power cuts, storage errors, lost messages
  FullFaults    \* may a write be refused because the flash is full?

Job  == 1..MaxJobs
Time == 0..MaxTime
Revision == 1..(MaxRevision + 1)

ASSUME BoundsAssumption ==
  /\ MaxJobs \in Nat \ {0}
  /\ {MaxRevision, MaxEpoch, MaxTime, Lead, Skew} \subseteq Nat
  /\ {MaxScheduled, Capacity, MaxLate, MaxFaults} \subseteq Nat
  /\ MaxRevision > 0
  /\ FullFaults \in BOOLEAN

ASSUME PartiesAssumption ==
  /\ AuthorOf \in [Job -> Account]
  /\ NoBoard \notin Bots

VARIABLES
  flash,      \* what the mastomini store holds
  ram,        \* the same state as the running service sees it
  mode,       \* "up"; "latched" after a storage error; "down"
  acked,      \* (job, revision) pairs a bots board has acknowledged; RAM only
  lastHandoff,\* the job handed over last; RAM only
  call,       \* the handoff in progress
  timers,     \* each bots board's durable timers
  todo,       \* the due timers a bots tick has still to report
  callback,   \* each bots board's publication call in progress
  backoff,    \* is the board waiting out retry_at?
  late,       \* abandoned requests that may still be served
  now,        \* the mastomini clock
  lastJob,    \* the last job id issued
  faults,     \* failures so far
  commits     \* history: statuses ever written for each job, at most 2 counted

boardVars == <<timers, todo, callback, backoff>>
vars == <<flash, ram, mode, acked, lastHandoff, call, timers, todo, callback,
          backoff, late, now, lastJob, faults, commits>>

(***************************************************************************)
(* Data.  A job's reserved status id is fresh for each revision, so it is  *)
(* named by the revision that reserved it; 0 is "none".  The record with   *)
(* revision 0 stands for an absent key.                                    *)
(***************************************************************************)
Scheduled == [at : Time, epoch : 0..MaxEpoch, revision : 0..(MaxRevision + 1),
              target : 0..(MaxRevision + 1), done : BOOLEAN,
              cancelled : BOOLEAN, failure : BOOLEAN]

NoJob == [at |-> 0, epoch |-> 0, revision |-> 0, target |-> 0, done |-> FALSE,
          cancelled |-> FALSE, failure |-> FALSE]

AccountState == [standing : {"ok", "barred", "gone"}, epoch : 0..MaxEpoch]

Household == [jobs : [Job -> Scheduled],
              posts : SUBSET (Job \X Revision),
              acct : [Account -> AccountState],
              bridge : Bots \cup {NoBoard}]

Timer   == [id : Job, revision : Revision, at : Time]
Handoff == [id : Job, revision : Revision, at : Time, cancelled : BOOLEAN]

\* HTTP answers to a callback; 0 is "none yet", 1 is "the call failed" (also
\* the 401 and 403 of a key that the route refuses before publish_scheduled).
Answer == {0, 1, 200, 404, 422, 429, 503}

NoCall     == [to |-> NoBoard, id |-> 0, revision |-> 0, at |-> 0,
               cancelled |-> FALSE, reply |-> "none"]
NoCallback == [id |-> 0, revision |-> 0, answer |-> 0]

Exists(job) == job.revision > 0

Live(s, j) == s.acct[AuthorOf[j]].standing # "gone"

HasPost(s, j) == s.jobs[j].target > 0 /\ <<j, s.jobs[j].target>> \in s.posts

WithJob(s, j, job) == [s EXCEPT !.jobs[j] = job]

\* Jobs of flash state s that transfer has still to hand over.
Pending(s, j) ==
  /\ Exists(s.jobs[j])
  /\ ~s.jobs[j].done
  /\ ~s.jobs[j].failure \/ s.jobs[j].cancelled
  /\ <<j, s.jobs[j].revision>> \notin acked

-----------------------------------------------------------------------------
(***************************************************************************)
(* Storage.  A handler writes its keys one at a time; images[k] is the     *)
(* household after k - 1 of the writes.  It reaches the last image, or the *)
(* write after image k fails: the flash is full (nothing written, the      *)
(* caller is told, the service stays writable), the store reports an I/O   *)
(* error (the write may or may not have reached the flash, and the service *)
(* refuses further writes), or the power goes.                             *)
(***************************************************************************)
Counted(n) == IF n < 2 THEN n + 1 ELSE 2

NewPost(j) == \E r \in Revision : <<j, r>> \in flash'.posts \ flash.posts

Fault == faults < MaxFaults /\ faults' = faults + 1

WriteAll(images) ==
  /\ flash' = images[Len(images)]
  /\ ram' = images[Len(images)]
  /\ UNCHANGED <<mode, faults>>

WriteFull(images) ==
  /\ FullFaults /\ Fault
  /\ \E k \in 1..(Len(images) - 1) : flash' = images[k] /\ ram' = images[k]
  /\ UNCHANGED mode

\* Mutant: an I/O error leaves the service writable.
UnlatchedBreak(images, m) ==
  /\ Fault
  /\ mode' = IF m = "latched" THEN "up" ELSE m
  /\ \E k \in 1..(Len(images) - 1) :
       /\ ram' = images[k]
       /\ flash' \in {images[k], images[k + 1]}

WriteBreaks(images, m) ==
  /\ Fault
  /\ mode' = m
  /\ \E k \in 1..(Len(images) - 1) :
       /\ ram' = images[k]
       /\ flash' \in {images[k], images[k + 1]}

Write(images, ok, answer) ==
  /\ mode = "up"
  /\ \/ answer = ok /\ WriteAll(images)
     \/ answer = 422 /\ WriteFull(images)
     \/ answer = 503 /\ WriteBreaks(images, "latched")
     \/ answer = 1 /\ WriteBreaks(images, "down")
  /\ commits' = [j \in Job |-> IF NewPost(j) THEN Counted(commits[j])
                                             ELSE commits[j]]

-----------------------------------------------------------------------------
(***************************************************************************)
(* Member and admin requests on the mastomini board.                       *)
(***************************************************************************)
Retired(j) ==
  LET job == ram.jobs[j] IN
  /\ Exists(job)
  /\ job.done \/ (job.cancelled /\ <<j, job.revision>> \in acked)

\* The household once the retired jobs with an id below c are erased.
RetireTo(c) ==
  [ram EXCEPT !.jobs = [j \in Job |-> IF Retired(j) /\ j < c THEN NoJob
                                                              ELSE ram.jobs[j]]]

KeepAcked == acked' = {a \in acked : Exists(ram'.jobs[a[1]])}

Queued(s) == {j \in Job : Exists(s.jobs[j])}

\* Mutant: the queue takes one draft too many.
QueueOverfull(s) == Cardinality(Queued(s)) > MaxScheduled

QueueFull(s) == Cardinality(Queued(s)) >= MaxScheduled

SchedulePost(at) ==
  LET j       == lastJob + 1
      retired == RetireTo(MaxJobs + 1)
      job     == [NoJob EXCEPT !.at = at, !.revision = 1,
                               !.epoch = ram.acct[AuthorOf[j]].epoch]
      erasing == [c \in 1..j |-> RetireTo(c)]
      saving  == [c \in 1..(j + 1) |-> IF c <= j THEN RetireTo(c)
                                       ELSE WithJob(retired, j, job)]
  IN /\ j \in Job
     /\ ram.bridge # NoBoard
     /\ Live(ram, j)
     /\ at >= now + Lead
     /\ \E answer \in Answer :
          IF QueueFull(retired)
          THEN Write(erasing, 422, answer) /\ UNCHANGED lastJob
          ELSE /\ Write(saving, 200, answer)
               /\ lastJob' = IF Exists(flash'.jobs[j]) THEN j ELSE lastJob
     /\ KeepAcked
     /\ UNCHANGED <<lastHandoff, call, boardVars, late, now>>

\* change_schedule up to its save: the caller may still change the job.
Changeable(j) ==
  /\ mode = "up"
  /\ Live(ram, j)
  /\ Exists(flash.jobs[j])
  /\ ~flash.jobs[j].done /\ ~flash.jobs[j].cancelled
  /\ ~HasPost(ram, j)

SaveChange(j, job) ==
  /\ \E answer \in Answer :
       /\ Write(<<ram, WithJob(ram, j, job)>>, 200, answer)
       /\ acked' = IF answer = 200 THEN {a \in acked : a[1] # j} ELSE acked
  /\ UNCHANGED <<lastHandoff, call, boardVars, late, now, lastJob>>

\* Mutant: a new time under the old revision.
RescheduleInPlace(j, at) ==
  /\ Changeable(j)
  /\ ~flash.jobs[j].failure
  /\ at >= now + Lead
  /\ SaveChange(j, [flash.jobs[j] EXCEPT !.target = 0, !.at = at])

Reschedule(j, at) ==
  /\ Changeable(j)
  /\ ~flash.jobs[j].failure
  /\ at >= now + Lead
  /\ flash.jobs[j].revision < MaxRevision
  /\ SaveChange(j, [flash.jobs[j] EXCEPT !.target = 0, !.at = at,
                                         !.revision = @ + 1])

Cancel(j) ==
  /\ Changeable(j)
  /\ SaveChange(j, [flash.jobs[j] EXCEPT !.target = 0, !.cancelled = TRUE,
                                         !.failure = FALSE, !.revision = @ + 1])

SetScheduler(b) ==
  /\ \E answer \in Answer :
       /\ Write(<<ram, [ram EXCEPT !.bridge = b]>>, 200, answer)
       /\ acked' = IF answer = 200 THEN {} ELSE acked
  /\ UNCHANGED <<lastHandoff, call, boardVars, late, now, lastJob>>

\* A published status is deleted by its author or evicted to make room.
RemoveStatus(j, r) ==
  /\ <<j, r>> \in ram.posts
  /\ \E answer \in Answer :
       Write(<<ram, [ram EXCEPT !.posts = @ \ {<<j, r>>}]>>, 200, answer)
  /\ UNCHANGED <<acked, lastHandoff, call, boardVars, late, now, lastJob>>

\* Disable, suspend or restore a member, or revoke all of a member's sessions.
ChangeAuthor(a, state) ==
  /\ ram.acct[a].standing # "gone" /\ state.standing # "gone"
  /\ state.epoch \in {ram.acct[a].epoch, ram.acct[a].epoch + 1}
  /\ state # ram.acct[a]
  /\ \E answer \in Answer :
       Write(<<ram, [ram EXCEPT !.acct[a] = state]>>, 200, answer)
  /\ UNCHANGED <<acked, lastHandoff, call, boardVars, late, now, lastJob>>

CancelledFor(job) ==
  [job EXCEPT !.cancelled = TRUE, !.failure = FALSE, !.revision = @ + 1]

\* Account a tombstoned, its jobs with an id below c cancelled.
CancelTo(s, a, c) ==
  [s EXCEPT
     !.acct[a].standing = "gone",
     !.jobs = [j \in Job |->
                 IF AuthorOf[j] = a /\ j < c /\ Exists(s.jobs[j])
                                   /\ ~s.jobs[j].cancelled
                 THEN CancelledFor(s.jobs[j]) ELSE s.jobs[j]]]

WithoutPostsOf(s, a) ==
  [s EXCEPT !.posts = {p \in @ : AuthorOf[p[1]] # a}]

\* An acknowledgement goes before its job's cancellation is saved, so the job
\* whose save fails loses its acknowledgement and keeps its revision.
AckedAfterPurge(a) ==
  LET open == {j \in Job : /\ AuthorOf[j] = a /\ Exists(ram'.jobs[j])
                           /\ ~ram'.jobs[j].cancelled}
  IN {x \in acked :
        \/ AuthorOf[x[1]] # a
        \/ ram'.acct[a].standing # "gone"
        \/ ram.jobs[x[1]].cancelled
        \/ x[1] \in open /\ \E j \in open : j < x[1]}

DeleteAccount(a) ==
  LET images == [c \in 0..(MaxJobs + 2) |->
                   IF c = 0 THEN ram
                   ELSE IF c <= MaxJobs + 1 THEN CancelTo(ram, a, c)
                   ELSE WithoutPostsOf(CancelTo(ram, a, MaxJobs + 1), a)]
  IN /\ ram.acct[a].standing # "gone"
     /\ \E answer \in Answer :
          Write([k \in 1..(MaxJobs + 3) |-> images[k - 1]], 200, answer)
     /\ acked' = AckedAfterPurge(a)
     /\ UNCHANGED <<lastHandoff, call, boardVars, late, now, lastJob>>

-----------------------------------------------------------------------------
(***************************************************************************)
(* The callback: POST /scheduler/publish/:id with the timer's revision.    *)
(***************************************************************************)
\* Mutant: the callback names a job by its id alone.
AnyRevision(job, r) == Exists(job)

\* The callback is for the job as it stands.
Current(job, r) == Exists(job) /\ ~job.cancelled /\ job.revision = r

\* Mutant: a job marked failed is tried again.
FinishedIfDone(job) == job.done

\* The callback repeats one that was carried out.
Finished(job) == job.done \/ job.failure

Refuse(answer, code) ==
  answer = code /\ UNCHANGED <<flash, ram, mode, faults, commits>>

PublishScheduled(j, r, answer) ==
  LET job      == flash.jobs[j]
      acct     == ram.acct[AuthorOf[j]]
      failed   == [job EXCEPT !.failure = TRUE]
      reserved == IF job.target > 0 THEN job ELSE [job EXCEPT !.target = r]
      s1       == WithJob(ram, j, reserved)
      s2       == [s1 EXCEPT !.posts = @ \cup {<<j, reserved.target>>}]
      s3       == WithJob(s2, j, [reserved EXCEPT !.done = TRUE])
  IN \/ mode = "latched" /\ Refuse(answer, 503)
     \/ /\ mode = "up"
        /\ \/ ~Current(job, r) /\ Refuse(answer, 404)
           \/ /\ Current(job, r)
              /\ \/ Finished(job) /\ Refuse(answer, 200)
                 \/ /\ ~Finished(job)
                    /\ \/ now < job.at /\ Refuse(answer, 503)
                       \/ /\ now >= job.at
                          /\ \/ /\ \/ acct.standing # "ok"
                                   \/ acct.epoch # job.epoch
                                /\ Write(<<ram, WithJob(ram, j, failed)>>, 200,
                                         answer)
                             \/ /\ acct.standing = "ok" /\ acct.epoch = job.epoch
                                /\ \* post_status_with_id succeeds,
                                   \/ Write(<<ram, s1, s2, s3>>, 200, answer)
                                   \* is refused for good,
                                   \/ Write(<<ram, s1, WithJob(s1, j,
                                              [reserved EXCEPT !.failure = TRUE])>>,
                                            200, answer)
                                   \* or meets the rate limit.
                                   \/ /\ answer = 429 /\ Fault
                                      /\ flash' = s1 /\ ram' = s1
                                      /\ UNCHANGED <<mode, commits>>

-----------------------------------------------------------------------------
(***************************************************************************)
(* Power on the mastomini board: boot repairs what the cut interrupted.    *)
(***************************************************************************)
\* Mutant: boot does not notice that the status was written.
RepairWithoutReceipt(s, j) ==
  LET job == s.jobs[j]
  IN IF Exists(job) /\ ~Live(s, j) /\ ~job.cancelled
     THEN CancelledFor(job) ELSE job

RepairJob(s, j) ==
  LET job    == s.jobs[j]
      closed == IF Exists(job) /\ ~Live(s, j) /\ ~job.cancelled
                THEN CancelledFor(job) ELSE job
  IN IF Exists(job) /\ HasPost(s, j) THEN [closed EXCEPT !.done = TRUE]
                                     ELSE closed

\* The household at boot, with the jobs whose id is below c repaired.
LoadTo(c) ==
  LET s == [flash EXCEPT !.posts = {p \in @ : Live(flash, p[1])}]
  IN [s EXCEPT !.jobs = [j \in Job |-> IF j < c THEN RepairJob(s, j)
                                                ELSE s.jobs[j]]]

Boot ==
  /\ mode = "down"
  /\ flash' = LoadTo(MaxJobs + 1)
  /\ ram' = LoadTo(MaxJobs + 1)
  /\ mode' = "up"
  /\ acked' = {}
  /\ lastHandoff' = 0
  /\ call' = NoCall
  /\ UNCHANGED <<boardVars, late, now, lastJob, faults, commits>>

BootFails ==
  /\ mode = "down"
  /\ Fault
  /\ \E c \in 1..(MaxJobs + 1) : flash' = LoadTo(c)
  /\ UNCHANGED <<ram, mode, acked, lastHandoff, call, boardVars, late, now,
                 lastJob, commits>>

PowerCut ==
  /\ mode # "down"
  /\ mode' = "down"
  /\ IF mode = "latched" THEN UNCHANGED faults ELSE Fault
  /\ UNCHANGED <<flash, ram, acked, lastHandoff, call, boardVars, late, now,
                 lastJob, commits>>

-----------------------------------------------------------------------------
(***************************************************************************)
(* transfer: one handoff at a time, outside the service mutex.             *)
(***************************************************************************)
\* Round robin: the first pending job after the last one handed over.
NextHandoff(j) ==
  LET pending == {i \in Job : Pending(ram, i)}
      after   == {i \in pending : i > lastHandoff}
      from    == IF after # {} THEN after ELSE pending
  IN j \in from /\ \A i \in from : j <= i

StartHandoff ==
  /\ mode # "down"
  /\ call = NoCall
  /\ ram.bridge # NoBoard
  /\ \E j \in Job :
       /\ NextHandoff(j)
       /\ call' = [to |-> ram.bridge, id |-> j, reply |-> "none",
                   revision |-> ram.jobs[j].revision, at |-> ram.jobs[j].at,
                   cancelled |-> ram.jobs[j].cancelled]
       /\ lastHandoff' = j
  /\ UNCHANGED <<flash, ram, mode, acked, boardVars, late, now, lastJob, faults,
                 commits>>

MessageOf(c) == [id |-> c.id, revision |-> c.revision, at |-> c.at,
                 cancelled |-> c.cancelled]

\* receive on bots board b, with its reply.
Receive(b, m, reply) ==
  LET old   == {t \in timers[b] : t.id = m.id}
      rest  == timers[b] \ old
      stale == \E t \in old : \/ t.revision > m.revision
                              \/ t.revision = m.revision /\ t.at # m.at
      full  == ~m.cancelled /\ Cardinality(rest) >= Capacity
      added == IF m.cancelled THEN {}
               ELSE {[id |-> m.id, revision |-> m.revision, at |-> m.at]}
  IN \/ (stale \/ full) /\ reply = "err" /\ UNCHANGED <<timers, faults>>
     \/ /\ ~stale /\ ~full
        /\ \/ /\ reply = "ok"
              /\ timers' = [timers EXCEPT ![b] = rest \cup added]
              /\ UNCHANGED faults
           \/ reply = "err" /\ Fault /\ UNCHANGED timers

ServeHandoff ==
  /\ call # NoCall /\ call.reply = "none"
  /\ \E reply \in {"ok", "err"} :
       /\ Receive(call.to, MessageOf(call), reply)
       /\ call' = [call EXCEPT !.reply = reply]
  /\ UNCHANGED <<flash, ram, mode, acked, lastHandoff, todo, callback, backoff,
                 late, now, lastJob, commits>>

\* The caller gives up: the request is lost, is served later, or was served
\* and its reply is lost.
LoseHandoff ==
  /\ call # NoCall
  /\ Fault
  /\ call' = [call EXCEPT !.reply = "err"]
  /\ \/ UNCHANGED late
     \/ /\ call.reply = "none" /\ Cardinality(late) < MaxLate
        /\ late' = late \cup {[kind |-> "handoff", to |-> call.to,
                               body |-> MessageOf(call)]}
  /\ UNCHANGED <<flash, ram, mode, acked, lastHandoff, boardVars, now, lastJob,
                 commits>>

\* Mutant: a reply counts for whichever board is paired now.
EndHandoffAnyBoard ==
  /\ mode # "down"
  /\ call # NoCall /\ call.reply # "none"
  /\ acked' = IF /\ call.reply = "ok"
                 /\ ram.jobs[call.id].revision = call.revision
              THEN acked \cup {<<call.id, call.revision>>} ELSE acked
  /\ call' = NoCall
  /\ UNCHANGED <<flash, ram, mode, lastHandoff, boardVars, late, now, lastJob,
                 faults, commits>>

EndHandoff ==
  /\ mode # "down"
  /\ call # NoCall /\ call.reply # "none"
  /\ acked' = IF /\ call.reply = "ok"
                 /\ ram.bridge = call.to
                 /\ ram.jobs[call.id].revision = call.revision
              THEN acked \cup {<<call.id, call.revision>>} ELSE acked
  /\ call' = NoCall
  /\ UNCHANGED <<flash, ram, mode, lastHandoff, boardVars, late, now, lastJob,
                 faults, commits>>

-----------------------------------------------------------------------------
(***************************************************************************)
(* tick on a bots board: report every due timer, one call at a time.       *)
(***************************************************************************)
Tick(b) ==
  LET due == {t \in timers[b] : t.at <= now + Skew} IN
  /\ ~backoff[b]
  /\ todo[b] = {} /\ callback[b] = NoCallback
  /\ due # {}
  /\ todo' = [todo EXCEPT ![b] = due]
  /\ UNCHANGED <<flash, ram, mode, acked, lastHandoff, call, timers, callback,
                 backoff, late, now, lastJob, faults, commits>>

SendCallback(b) ==
  /\ callback[b] = NoCallback
  /\ \E t \in todo[b] :
       /\ callback' = [callback EXCEPT ![b] = [id |-> t.id,
                                               revision |-> t.revision,
                                               answer |-> 0]]
       /\ todo' = [todo EXCEPT ![b] = @ \ {t}]
  /\ UNCHANGED <<flash, ram, mode, acked, lastHandoff, call, timers, backoff,
                 late, now, lastJob, faults, commits>>

ServeCallback(b) ==
  /\ callback[b] # NoCallback /\ callback[b].answer = 0
  /\ \E answer \in Answer \ {0} :
       /\ PublishScheduled(callback[b].id, callback[b].revision, answer)
       /\ callback' = [callback EXCEPT ![b].answer = answer]
  /\ UNCHANGED <<acked, lastHandoff, call, timers, todo, backoff, late, now,
                 lastJob>>

LoseCallback(b) ==
  /\ callback[b] # NoCallback
  /\ Fault
  /\ callback' = [callback EXCEPT ![b].answer = 1]
  /\ \/ UNCHANGED late
     \/ /\ callback[b].answer = 0 /\ Cardinality(late) < MaxLate
        /\ late' = late \cup {[kind |-> "callback", to |-> NoBoard,
                               body |-> [id |-> callback[b].id,
                                         revision |-> callback[b].revision]]}
  /\ UNCHANGED <<flash, ram, mode, acked, lastHandoff, call, timers, todo,
                 backoff, now, lastJob, commits>>

\* A refused connection: the mastomini board is down.
UnreachableCallback(b) ==
  /\ mode = "down"
  /\ callback[b] # NoCallback /\ callback[b].answer = 0
  /\ callback' = [callback EXCEPT ![b].answer = 1]
  /\ UNCHANGED <<flash, ram, mode, acked, lastHandoff, call, timers, todo,
                 backoff, late, now, lastJob, faults, commits>>

\* Mutant: "not due yet" drops the timer.
TerminalWhenEarly == {200, 404, 422, 503}

\* Mutant: an unknown job is retried for ever.
TerminalUnlessGone == {200, 422}

Terminal == {200, 404, 422}

EndCallback(b) ==
  LET c    == callback[b]
      mine == {t \in timers[b] : t.id = c.id /\ t.revision = c.revision}
  IN /\ c # NoCallback /\ c.answer # 0
     /\ callback' = [callback EXCEPT ![b] = NoCallback]
     /\ \/ mine = {} /\ UNCHANGED <<timers, backoff, faults>>
        \/ /\ mine # {} /\ c.answer \in Terminal
           /\ \/ /\ timers' = [timers EXCEPT ![b] = @ \ mine]
                 /\ UNCHANGED faults
              \/ Fault /\ UNCHANGED timers
           /\ UNCHANGED backoff
        \/ /\ mine # {} /\ c.answer \notin Terminal
           /\ backoff' = [backoff EXCEPT ![b] = TRUE]
           /\ UNCHANGED <<timers, faults>>
     /\ UNCHANGED <<flash, ram, mode, acked, lastHandoff, call, todo, late, now,
                    lastJob, commits>>

\* retry_at passes.
RetryDue(b) ==
  /\ backoff[b]
  /\ backoff' = [backoff EXCEPT ![b] = FALSE]
  /\ UNCHANGED <<flash, ram, mode, acked, lastHandoff, call, timers, todo,
                 callback, late, now, lastJob, faults, commits>>

\* A bots board loses power and restarts from its one durable record.
BotsRestart(b) ==
  /\ Fault
  /\ todo' = [todo EXCEPT ![b] = {}]
  /\ callback' = [callback EXCEPT ![b] = NoCallback]
  /\ backoff' = [backoff EXCEPT ![b] = FALSE]
  /\ UNCHANGED <<flash, ram, mode, acked, lastHandoff, call, timers, late, now,
                 lastJob, commits>>

-----------------------------------------------------------------------------
(***************************************************************************)
(* Requests served after their caller gave up; nobody reads the reply.     *)
(***************************************************************************)
ServeLate(m) ==
  /\ late' = late \ {m}
  /\ \/ /\ m.kind = "handoff"
        /\ \E reply \in {"ok", "err"} : Receive(m.to, m.body, reply)
        /\ UNCHANGED <<flash, ram, mode, commits>>
     \/ /\ m.kind = "callback"
        /\ \E answer \in Answer : PublishScheduled(m.body.id, m.body.revision, answer)
        /\ UNCHANGED timers
  /\ UNCHANGED <<acked, lastHandoff, call, todo, callback, backoff, now, lastJob>>

ClockTick ==
  /\ now < MaxTime
  /\ now' = now + 1
  /\ UNCHANGED <<flash, ram, mode, acked, lastHandoff, call, boardVars, late,
                 lastJob, faults, commits>>

-----------------------------------------------------------------------------
Init ==
  /\ \E b \in Bots \cup {NoBoard} :
       flash = [jobs |-> [j \in Job |-> NoJob], posts |-> {},
                acct |-> [a \in Account |-> [standing |-> "ok", epoch |-> 0]],
                bridge |-> b]
  /\ ram = flash
  /\ mode = "up"
  /\ acked = {}
  /\ lastHandoff = 0
  /\ call = NoCall
  /\ timers = [b \in Bots |-> {}]
  /\ todo = [b \in Bots |-> {}]
  /\ callback = [b \in Bots |-> NoCallback]
  /\ backoff = [b \in Bots |-> FALSE]
  /\ late = {}
  /\ now = 0
  /\ lastJob = 0
  /\ faults = 0
  /\ commits = [j \in Job |-> 0]

Member ==
  \/ \E at \in Time : SchedulePost(at)
  \/ \E j \in Job : Cancel(j) \/ \E at \in Time : Reschedule(j, at)
  \/ \E j \in Job, r \in Revision : RemoveStatus(j, r)

Admin ==
  \/ \E b \in Bots : SetScheduler(b)
  \/ \E a \in Account : DeleteAccount(a) \/ \E s \in AccountState : ChangeAuthor(a, s)

Mastomini == Boot \/ BootFails \/ PowerCut \/ StartHandoff \/ EndHandoff

Board(b) ==
  \/ Tick(b) \/ SendCallback(b) \/ EndCallback(b) \/ RetryDue(b) \/ BotsRestart(b)

Network ==
  \/ ServeHandoff \/ LoseHandoff
  \/ \E b \in Bots : ServeCallback(b) \/ LoseCallback(b) \/ UnreachableCallback(b)
  \/ \E m \in late : ServeLate(m)

Next ==
  \/ Member \/ Admin \/ Mastomini \/ Network \/ ClockTick
  \/ \E b \in Bots : Board(b)

Spec == Init /\ [][Next]_vars
Fairness ==
  /\ WF_vars(Boot) /\ WF_vars(mode = "latched" /\ PowerCut)
  /\ WF_vars(StartHandoff) /\ WF_vars(ServeHandoff) /\ WF_vars(EndHandoff)
  /\ WF_vars(ClockTick)
  /\ \A b \in Bots :
       /\ WF_vars(Tick(b)) /\ WF_vars(SendCallback(b)) /\ WF_vars(EndCallback(b))
       /\ WF_vars(ServeCallback(b)) /\ WF_vars(UnreachableCallback(b))
       /\ WF_vars(RetryDue(b))

FairSpec == Spec /\ Fairness

-----------------------------------------------------------------------------
(***************************************************************************)
(* Properties.                                                             *)
(***************************************************************************)

\* Every variable has its type; the RAM image of a writable service is the
\* flash image (put updates the map only after the store has accepted it).
TypeOK ==
  /\ flash \in Household /\ ram \in Household
  /\ \A s \in {flash, ram}, j \in Job :
       s.jobs[j].cancelled \/ s.jobs[j].revision <= MaxRevision
  /\ mode \in {"up", "latched", "down"}
  /\ mode = "up" => ram = flash
  /\ acked \subseteq Job \X Revision
  /\ lastHandoff \in 0..MaxJobs
  /\ call \in {NoCall} \cup [to : Bots, id : Job, revision : Revision, at : Time,
                             cancelled : BOOLEAN, reply : {"none", "ok", "err"}]
  /\ timers \in [Bots -> SUBSET Timer] /\ todo \in [Bots -> SUBSET Timer]
  /\ callback \in [Bots -> {NoCallback} \cup [id : Job, revision : Revision,
                                               answer : Answer]]
  /\ backoff \in [Bots -> BOOLEAN]
  /\ late \subseteq [kind : {"handoff"}, to : Bots, body : Handoff] \cup
                     [kind : {"callback"}, to : {NoBoard},
                      body : [id : Job, revision : Revision]]
  /\ now \in Time /\ lastJob \in 0..MaxJobs /\ faults \in 0..MaxFaults
  /\ commits \in [Job -> 0..2]

\* A draft becomes a status at most once: neither a repeated or late callback,
\* a second bots board, a power cut between the status write and the saved
\* receipt, nor deleting the status makes publish_scheduled post it again.
AtMostOnce == \A j \in Job : commits[j] <= 1

Closed(j) ==
  j <= lastJob /\ (~Exists(flash.jobs[j]) \/ flash.jobs[j].cancelled)

\* A cancelled or retired job stays so, and no timer or callback still in
\* flight for an earlier revision publishes it.
ClosedForGood ==
  [][\A j \in Job : Closed(j) => Closed(j)' /\ commits'[j] = commits[j]]_vars

Outcome(j) ==
  CASE commits[j] > 1 -> "published twice"
    [] commits[j] = 1 -> "published"
    [] commits[j] = 0 /\ j > lastJob -> "none"
    [] commits[j] = 0 /\ Closed(j) -> "cancelled"
    [] OTHER -> IF flash.jobs[j].failure THEN "failed" ELSE "pending"

Promise == INSTANCE ScheduledJob WITH outcome <- [j \in Job |-> Outcome(j)]

\* The two boards together implement the promise of ScheduledJob: what a draft
\* has become never changes against it, whatever fails and in whatever order
\* handoffs and callbacks are served.
KeepsPromise == Promise!Spec

QueuesFit ==
  /\ Cardinality(Queued(flash)) <= MaxScheduled
  /\ \A b \in Bots : Cardinality(timers[b]) <= Capacity

\* Neither board ever stores a queue its own boot refuses: load_scheduled takes
\* more than MAX_SCHEDULED jobs, and load more than CAPACITY timers, as corrupt,
\* and a board that finds that does not start.  What they store is well typed.
QueuesBoot == TypeOK /\ QueuesFit

\* mastomini stops handing a job over once it is acknowledged, so the paired
\* bots board must then hold its timer until publish_scheduled settles the job.
AckedIsHeld ==
  \A j \in Job :
    LET job == ram.jobs[j] IN
    (/\ mode # "down"
     /\ Exists(job) /\ ~job.done /\ ~job.cancelled /\ ~job.failure
     /\ <<j, job.revision>> \in acked)
    => [id |-> j, revision |-> job.revision, at |-> job.at] \in timers[ram.bridge]

\* Whatever power cuts do to the saving of a change, the timers held and the
\* handoffs in flight under a job's stored revision carry its stored due time:
\* receive's 409 for a revision with another time is never the live job's.
RevisionFixesTime ==
  \A j \in Job :
    LET job == flash.jobs[j]
        known == (UNION {timers[b] : b \in Bots})
                   \cup {x.body : x \in {y \in late : y.kind = "handoff"}}
                   \cup (IF call = NoCall THEN {} ELSE {MessageOf(call)})
    IN \A m \in known : m.id = j /\ Exists(job) =>
          /\ m.revision <= job.revision
          /\ m.revision = job.revision => m.at = job.at

Settled(j) ==
  LET job == flash.jobs[j] IN
  ~Exists(job) \/ job.done \/ job.cancelled \/ job.failure

\* Once failures stop, every job is published, cancelled or marked failed.
EventuallySettled == \A j \in Job : ~Settled(j) ~> Settled(j)

Timed(b, j) == \E t \in timers[b] : t.id = j

\* Once failures stop, no timer stays on a bots board for ever, whether its job
\* was published, cancelled, moved to another board or retired.
TimersDrain == \A b \in Bots, j \in Job : Timed(b, j) ~> ~Timed(b, j)
=============================================================================
