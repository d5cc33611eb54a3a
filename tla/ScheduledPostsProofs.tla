------------------------ MODULE ScheduledPostsProofs ------------------------
(***************************************************************************)
(* Proofs about the scheduled-post protocol, for any members, bots boards  *)
(* and bounds: the types, then what the messages between the two boards    *)
(* know of a job (RevisionFixesTime), what an acknowledgement is worth     *)
(* (AckedIsHeld), the queues that both boards store (QueuesBoot), and what *)
(* becomes of a draft (AtMostOnce, ClosedForGood, KeepsPromise).           *)
(***************************************************************************)
EXTENDS ScheduledPosts, TLAPS, FiniteSetTheorems

(***************************************************************************)
(* The typed part of TypeOK that storage changes: a live job's revision is *)
(* within the bound, so that a cancellation stays within Revision.         *)
(***************************************************************************)
GoodHousehold ==
  {s \in Household : \A j \in Job : \/ s.jobs[j].cancelled
                                    \/ s.jobs[j].revision <= MaxRevision}

GoodJob == {x \in Scheduled : x.cancelled \/ x.revision <= MaxRevision}

\* TypeOK in two halves: what a run of writes changes, and the rest.
StoreOK ==
  /\ flash \in GoodHousehold /\ ram \in GoodHousehold
  /\ mode \in {"up", "latched", "down"}
  /\ mode = "up" => ram = flash
  /\ faults \in 0..MaxFaults
  /\ commits \in [Job -> 0..2]

RestOK ==
  /\ acked \subseteq Job \X Revision
  /\ lastHandoff \in 0..MaxJobs
  /\ call \in {NoCall} \cup [to : Bots, id : Job, revision : Revision, at : Time,
                             cancelled : BOOLEAN, reply : {"none", "ok", "err"}]
  /\ timers \in [Bots -> SUBSET Timer] /\ todo \in [Bots -> SUBSET Timer]
  /\ callback \in [Bots -> {NoCallback} \cup [id : Job, revision : Revision,
                                               answer : Answer]]
  /\ backoff \in [Bots -> BOOLEAN]
  /\ late \subseteq [kind : {"handoff"}, to : Bots, body : Handoff] \cup
                     [kind : {"callback"}, to : {NoBoard},
                      body : [id : Job, revision : Revision]]
  /\ now \in Time /\ lastJob \in 0..MaxJobs

-----------------------------------------------------------------------------
(***************************************************************************)
(* Lemmas on sequences and on the household's update operators.            *)
(***************************************************************************)

\* The bounds, one by one.
LEMMA Bounds ==
  /\ MaxJobs \in Nat /\ MaxRevision \in Nat /\ MaxEpoch \in Nat
  /\ MaxTime \in Nat /\ Lead \in Nat /\ Skew \in Nat /\ MaxFaults \in Nat
  /\ MaxJobs > 0 /\ MaxRevision > 0
  /\ FullFaults \in BOOLEAN
  BY BoundsAssumption

\* A function on 1..n is a sequence of length n.
LEMMA FunctionIsSeq ==
  ASSUME NEW S, NEW n \in Nat, NEW f \in [1..n -> S]
  PROVE  f \in Seq(S) /\ Len(f) = n
  OBVIOUS

\* Storing one well-formed job keeps a household well formed.
LEMMA WithJobGood ==
  ASSUME NEW s \in GoodHousehold, NEW j \in Job, NEW x \in GoodJob
  PROVE  WithJob(s, j, x) \in GoodHousehold
  BY DEF WithJob, GoodHousehold, GoodJob, Household

\* The absent job is well formed.
LEMMA NoJobGood == NoJob \in GoodJob
  BY Bounds DEF NoJob, GoodJob, Scheduled, Time

\* Cancelling a live job (cancel_account_schedules, load_scheduled) keeps it
\* well formed.
LEMMA CancelledForGood ==
  ASSUME NEW x \in GoodJob, ~x.cancelled
  PROVE  CancelledFor(x) \in GoodJob
<1>1. x.revision + 1 \in 0..(MaxRevision + 1)
  BY Bounds DEF GoodJob, Scheduled
<1>2. CancelledFor(x) \in Scheduled
  BY <1>1 DEF CancelledFor, GoodJob, Scheduled
<1>3. CancelledFor(x).cancelled
  BY <1>2 DEF CancelledFor, GoodJob, Scheduled
<1>4. QED
  BY <1>2, <1>3 DEF GoodJob

LEMMA GoodJobs ==
  ASSUME NEW s \in GoodHousehold
  PROVE  \A j \in Job : s.jobs[j] \in GoodJob
  BY DEF GoodHousehold, GoodJob, Household

\* Replacing all of the jobs by well-formed ones.
LEMMA WithJobsGood ==
  ASSUME NEW s \in GoodHousehold, NEW f \in [Job -> GoodJob]
  PROVE  [s EXCEPT !.jobs = f] \in GoodHousehold
  BY DEF GoodHousehold, GoodJob, Household

\* What a run of writes leaves behind, whichever of them fails: one of the
\* images on flash, the RAM copy equal to it while the service is writable.
LEMMA WriteGood ==
  ASSUME StoreOK, NEW ok, NEW answer,
         NEW images \in Seq(GoodHousehold), Len(images) > 0,
         Write(images, ok, answer)
  PROVE  StoreOK'
<1>1. commits' \in [Job -> 0..2]
  BY DEF Write, Counted, StoreOK
<1>2. CASE WriteAll(images)
  BY <1>1, <1>2 DEF WriteAll, StoreOK, Write
<1>3. CASE WriteFull(images)
  BY <1>1, <1>3, Bounds DEF WriteFull, Fault, StoreOK, Write
<1>4. ASSUME NEW m \in {"latched", "down"}, WriteBreaks(images, m)
      PROVE  /\ flash' \in GoodHousehold /\ ram' \in GoodHousehold
             /\ mode' \in {"latched", "down"}
             /\ faults' \in 0..MaxFaults
  BY <1>4, Bounds DEF WriteBreaks, Fault, StoreOK
<1>5. QED
  BY <1>1, <1>2, <1>3, <1>4 DEF Write, StoreOK

-----------------------------------------------------------------------------
(***************************************************************************)
(* The images that the handlers write.                                     *)
(***************************************************************************)
LEMMA RetireToGood ==
  ASSUME ram \in GoodHousehold, NEW c
  PROVE  RetireTo(c) \in GoodHousehold
<1> DEFINE f == [j \in Job |-> IF Retired(j) /\ j < c THEN NoJob ELSE ram.jobs[j]]
<1>1. f \in [Job -> GoodJob]
  BY NoJobGood, GoodJobs
<1>2. [ram EXCEPT !.jobs = f] \in GoodHousehold
  BY <1>1, WithJobsGood
<1>3. QED
  BY <1>2 DEF RetireTo

LEMMA CancelToGood ==
  ASSUME NEW s \in GoodHousehold, NEW a \in Account, NEW c
  PROVE  CancelTo(s, a, c) \in GoodHousehold
<1> DEFINE f == [j \in Job |->
                 IF AuthorOf[j] = a /\ j < c /\ Exists(s.jobs[j])
                                   /\ ~s.jobs[j].cancelled
                 THEN CancelledFor(s.jobs[j]) ELSE s.jobs[j]]
           g == [s EXCEPT !.acct[a].standing = "gone"]
<1>1. f \in [Job -> GoodJob]
  BY CancelledForGood, GoodJobs
<1>2. g \in GoodHousehold
  BY DEF GoodHousehold, Household, AccountState
<1>3. [g EXCEPT !.jobs = f] \in GoodHousehold
  BY <1>1, <1>2, WithJobsGood
<1>4. QED
  BY <1>3 DEF CancelTo

LEMMA WithoutPostsOfGood ==
  ASSUME NEW s \in GoodHousehold, NEW a \in Account
  PROVE  WithoutPostsOf(s, a) \in GoodHousehold
  BY DEF WithoutPostsOf, GoodHousehold, Household

LEMMA RepairJobGood ==
  ASSUME NEW s \in GoodHousehold, NEW j \in Job
  PROVE  RepairJob(s, j) \in GoodJob
<1> DEFINE closed == IF Exists(s.jobs[j]) /\ ~Live(s, j) /\ ~s.jobs[j].cancelled
                     THEN CancelledFor(s.jobs[j]) ELSE s.jobs[j]
<1>1. closed \in GoodJob
  BY GoodJobs, CancelledForGood
<1>2. [closed EXCEPT !.done = TRUE] \in GoodJob
  BY <1>1 DEF GoodJob, Scheduled
<1>3. QED
  BY <1>1, <1>2 DEF RepairJob

LEMMA LoadToGood ==
  ASSUME flash \in GoodHousehold, NEW c
  PROVE  LoadTo(c) \in GoodHousehold
<1> DEFINE s == [flash EXCEPT !.posts = {p \in @ : Live(flash, p[1])}]
           f == [j \in Job |-> IF j < c THEN RepairJob(s, j) ELSE s.jobs[j]]
<1>1. s \in GoodHousehold
  BY DEF GoodHousehold, Household
<1>2. f \in [Job -> GoodJob]
  BY <1>1, RepairJobGood, GoodJobs
<1>3. [s EXCEPT !.jobs = f] \in GoodHousehold
  BY <1>1, <1>2, WithJobsGood
<1>4. QED
  BY <1>3 DEF LoadTo

-----------------------------------------------------------------------------
(***************************************************************************)
(* Each request of a member or of the admin keeps the store typed.         *)
(***************************************************************************)
LEMMA TypeParts == TypeOK <=> StoreOK /\ RestOK
  BY DEF TypeOK, StoreOK, RestOK, GoodHousehold

LEMMA NextTypeParts == TypeOK' <=> StoreOK' /\ RestOK'
  BY DEF TypeOK, StoreOK, RestOK, GoodHousehold

LEMMA SchedulePostType ==
  ASSUME TypeOK, NEW at \in Time, SchedulePost(at)
  PROVE  TypeOK'
<1> DEFINE j       == lastJob + 1
           retired == RetireTo(MaxJobs + 1)
           job     == [NoJob EXCEPT !.at = at, !.revision = 1,
                                    !.epoch = ram.acct[AuthorOf[j]].epoch]
           erasing == [c \in 1..j |-> RetireTo(c)]
           saving  == [c \in 1..(j + 1) |-> IF c <= j THEN RetireTo(c)
                                            ELSE WithJob(retired, j, job)]
<1>1. StoreOK /\ RestOK /\ j \in Job /\ j \in Nat /\ j > 0
  BY TypeParts, Bounds DEF SchedulePost, Job
<1>2. \A c : RetireTo(c) \in GoodHousehold
  BY <1>1, RetireToGood DEF StoreOK
<1>3. job \in GoodJob
  <2>1. ram.acct[AuthorOf[j]].epoch \in 0..MaxEpoch
    BY <1>1, PartiesAssumption DEF StoreOK, GoodHousehold, Household, AccountState
  <2>2. 0 \in 0..(MaxRevision + 1) /\ 1 \in 0..(MaxRevision + 1) /\ 1 <= MaxRevision
    BY Bounds
  <2>3. job \in Scheduled /\ job.revision <= MaxRevision
    BY <2>1, <2>2, NoJobGood DEF GoodJob, Scheduled
  <2>4. QED
    BY <2>3 DEF GoodJob
<1>4. erasing \in Seq(GoodHousehold) /\ Len(erasing) > 0
  BY <1>1, <1>2, FunctionIsSeq
<1>5. saving \in Seq(GoodHousehold) /\ Len(saving) > 0
  <2>1. WithJob(retired, j, job) \in GoodHousehold
    BY <1>1, <1>2, <1>3, WithJobGood
  <2>2. saving \in [1..(j + 1) -> GoodHousehold]
    BY <1>2, <2>1
  <2>3. QED
    BY <1>1, <2>2, FunctionIsSeq
<1>6. PICK answer \in Answer :
        IF QueueFull(retired)
        THEN Write(erasing, 422, answer) /\ UNCHANGED lastJob
        ELSE /\ Write(saving, 200, answer)
             /\ lastJob' = IF Exists(flash'.jobs[j]) THEN j ELSE lastJob
  BY DEF SchedulePost
<1>7. StoreOK'
  BY <1>1, <1>4, <1>5, <1>6, WriteGood
<1>8. RestOK'
  BY <1>1, <1>6, Bounds DEF SchedulePost, KeepAcked, RestOK, boardVars, Job
<1>9. QED
  BY <1>7, <1>8, NextTypeParts

LEMMA SaveChangeType ==
  ASSUME TypeOK, NEW j \in Job, NEW x \in GoodJob, SaveChange(j, x)
  PROVE  TypeOK'
<1>1. StoreOK /\ RestOK
  BY TypeParts
<1>2. PICK answer \in Answer :
        /\ Write(<<ram, WithJob(ram, j, x)>>, 200, answer)
        /\ acked' = IF answer = 200 THEN {a \in acked : a[1] # j} ELSE acked
  BY DEF SaveChange
<1>3. <<ram, WithJob(ram, j, x)>> \in Seq(GoodHousehold)
      /\ Len(<<ram, WithJob(ram, j, x)>>) > 0
  BY <1>1, WithJobGood DEF StoreOK
<1>4. StoreOK'
  BY <1>1, <1>2, <1>3, WriteGood
<1>5. RestOK'
  BY <1>1, <1>2 DEF SaveChange, RestOK, boardVars
<1>6. QED
  BY <1>4, <1>5, NextTypeParts

LEMMA MemberType ==
  ASSUME TypeOK, Member
  PROVE  TypeOK'
<1>1. StoreOK /\ RestOK /\ flash \in GoodHousehold /\ ram \in GoodHousehold
  BY TypeParts DEF StoreOK
<1>2. CASE \E at \in Time : SchedulePost(at)
  BY <1>2, SchedulePostType
<1>3. ASSUME NEW j \in Job, Cancel(j)
      PROVE  TypeOK'
  <2>1. flash.jobs[j] \in GoodJob /\ ~flash.jobs[j].cancelled
    BY <1>1, <1>3, GoodJobs DEF Cancel, Changeable
  <2>2. /\ flash.jobs[j].revision + 1 \in 0..(MaxRevision + 1)
        /\ 0 \in 0..(MaxRevision + 1)
    BY <2>1, Bounds DEF GoodJob, Scheduled
  <2> DEFINE x == [flash.jobs[j] EXCEPT !.target = 0, !.cancelled = TRUE,
                                         !.failure = FALSE, !.revision = @ + 1]
  <2>3. x \in Scheduled
    BY <2>1, <2>2 DEF GoodJob, Scheduled
  <2>4. x.cancelled
    BY <2>1 DEF GoodJob, Scheduled
  <2>5. x \in GoodJob
    BY <2>3, <2>4 DEF GoodJob
  <2>6. SaveChange(j, x)
    BY <1>3 DEF Cancel
  <2>7. QED
    BY <2>5, <2>6, SaveChangeType
<1>4. ASSUME NEW j \in Job, NEW at \in Time, Reschedule(j, at)
      PROVE  TypeOK'
  <2>1. flash.jobs[j] \in GoodJob /\ flash.jobs[j].revision < MaxRevision
    BY <1>1, <1>4, GoodJobs DEF Reschedule
  <2> DEFINE x == [flash.jobs[j] EXCEPT !.target = 0, !.at = at,
                                         !.revision = @ + 1]
  <2>2. x \in GoodJob
    <3>1. /\ flash.jobs[j].revision + 1 \in 0..(MaxRevision + 1)
          /\ flash.jobs[j].revision + 1 <= MaxRevision
          /\ 0 \in 0..(MaxRevision + 1)
      BY <2>1, Bounds DEF GoodJob, Scheduled
    <3>2. x \in Scheduled /\ x.revision <= MaxRevision
      BY <2>1, <3>1 DEF GoodJob, Scheduled
    <3>3. QED
      BY <3>2 DEF GoodJob
  <2>3. SaveChange(j, x)
    BY <1>4 DEF Reschedule
  <2>4. QED
    BY <2>2, <2>3, SaveChangeType
<1>5. ASSUME NEW j \in Job, NEW r \in Revision, RemoveStatus(j, r)
      PROVE  TypeOK'
  <2>1. PICK answer \in Answer :
          Write(<<ram, [ram EXCEPT !.posts = @ \ {<<j, r>>}]>>, 200, answer)
    BY <1>5 DEF RemoveStatus
  <2>2. [ram EXCEPT !.posts = @ \ {<<j, r>>}] \in GoodHousehold
    BY <1>1 DEF GoodHousehold, Household
  <2>3. /\ <<ram, [ram EXCEPT !.posts = @ \ {<<j, r>>}]>> \in Seq(GoodHousehold)
        /\ Len(<<ram, [ram EXCEPT !.posts = @ \ {<<j, r>>}]>>) > 0
    BY <1>1, <2>2
  <2>4. StoreOK'
    BY <1>1, <2>1, <2>3, WriteGood
  <2>5. RestOK'
    BY <1>1, <1>5 DEF RemoveStatus, RestOK, boardVars
  <2>6. QED
    BY <2>4, <2>5, NextTypeParts
<1>6. QED
  BY <1>2, <1>3, <1>4, <1>5 DEF Member

LEMMA DeleteAccountType ==
  ASSUME TypeOK, NEW a \in Account, DeleteAccount(a)
  PROVE  TypeOK'
<1> DEFINE images == [c \in 0..(MaxJobs + 2) |->
                        IF c = 0 THEN ram
                        ELSE IF c <= MaxJobs + 1 THEN CancelTo(ram, a, c)
                        ELSE WithoutPostsOf(CancelTo(ram, a, MaxJobs + 1), a)]
           writes == [k \in 1..(MaxJobs + 3) |-> images[k - 1]]
<1>1. StoreOK /\ RestOK /\ ram \in GoodHousehold
  BY TypeParts DEF StoreOK
<1>2. \A c \in 0..(MaxJobs + 2) : images[c] \in GoodHousehold
  BY <1>1, CancelToGood, WithoutPostsOfGood
<1>3. writes \in [1..(MaxJobs + 3) -> GoodHousehold]
  BY <1>2, Bounds
<1>4. writes \in Seq(GoodHousehold) /\ Len(writes) > 0
  BY <1>3, FunctionIsSeq, Bounds
<1>5. PICK answer \in Answer : Write(writes, 200, answer)
  BY DEF DeleteAccount
<1>6. StoreOK'
  BY <1>1, <1>4, <1>5, WriteGood
<1>7. RestOK'
  BY <1>1 DEF DeleteAccount, AckedAfterPurge, RestOK, boardVars
<1>8. QED
  BY <1>6, <1>7, NextTypeParts

LEMMA AdminType ==
  ASSUME TypeOK, Admin
  PROVE  TypeOK'
<1>1. StoreOK /\ RestOK /\ ram \in GoodHousehold
  BY TypeParts DEF StoreOK
<1>2. ASSUME NEW b \in Bots, SetScheduler(b)
      PROVE  TypeOK'
  <2> DEFINE next == [ram EXCEPT !.bridge = b]
  <2>1. PICK answer \in Answer :
          /\ Write(<<ram, next>>, 200, answer)
          /\ acked' = IF answer = 200 THEN {} ELSE acked
    BY <1>2 DEF SetScheduler
  <2>2. next \in GoodHousehold
    BY <1>1 DEF GoodHousehold, Household
  <2>3. <<ram, next>> \in Seq(GoodHousehold) /\ Len(<<ram, next>>) > 0
    BY <1>1, <2>2
  <2>4. StoreOK'
    BY <1>1, <2>1, <2>3, WriteGood
  <2>5. RestOK'
    BY <1>1, <1>2, <2>1 DEF SetScheduler, RestOK, boardVars
  <2>6. QED
    BY <2>4, <2>5, NextTypeParts
<1>3. ASSUME NEW a \in Account, NEW state \in AccountState, ChangeAuthor(a, state)
      PROVE  TypeOK'
  <2> DEFINE next == [ram EXCEPT !.acct[a] = state]
  <2>1. PICK answer \in Answer : Write(<<ram, next>>, 200, answer)
    BY <1>3 DEF ChangeAuthor
  <2>2. next \in GoodHousehold
    BY <1>1 DEF GoodHousehold, Household
  <2>3. <<ram, next>> \in Seq(GoodHousehold) /\ Len(<<ram, next>>) > 0
    BY <1>1, <2>2
  <2>4. StoreOK'
    BY <1>1, <2>1, <2>3, WriteGood
  <2>5. RestOK'
    BY <1>1, <1>3 DEF ChangeAuthor, RestOK, boardVars
  <2>6. QED
    BY <2>4, <2>5, NextTypeParts
<1>4. QED
  BY <1>2, <1>3, DeleteAccountType DEF Admin

(***************************************************************************)
(* The callback, and what the network and the bots boards do.              *)
(***************************************************************************)
LEMMA PublishType ==
  ASSUME StoreOK, NEW j \in Job, NEW r \in Revision, NEW answer \in Answer,
         PublishScheduled(j, r, answer)
  PROVE  StoreOK'
<1> DEFINE job      == flash.jobs[j]
           failed   == [job EXCEPT !.failure = TRUE]
           reserved == IF job.target > 0 THEN job ELSE [job EXCEPT !.target = r]
           s1       == WithJob(ram, j, reserved)
           s2       == [s1 EXCEPT !.posts = @ \cup {<<j, reserved.target>>}]
           s3       == WithJob(s2, j, [reserved EXCEPT !.done = TRUE])
           s4       == WithJob(s1, j, [reserved EXCEPT !.failure = TRUE])
<1>1. flash \in GoodHousehold /\ ram \in GoodHousehold /\ job \in GoodJob
  BY GoodJobs DEF StoreOK
<1>2. reserved \in GoodJob /\ failed \in GoodJob
  <2>1. r \in 0..(MaxRevision + 1)
    BY Bounds DEF Revision
  <2>2. [job EXCEPT !.target = r] \in GoodJob /\ failed \in GoodJob
    BY <1>1, <2>1 DEF GoodJob, Scheduled
  <2>3. QED
    BY <1>1, <2>2
<1>3. /\ [reserved EXCEPT !.done = TRUE] \in GoodJob
      /\ [reserved EXCEPT !.failure = TRUE] \in GoodJob
  BY <1>2 DEF GoodJob, Scheduled
<1>4. reserved.target \in Revision
  BY <1>1, Bounds DEF GoodJob, Scheduled, Revision
<1>5. s1 \in GoodHousehold
  BY <1>1, <1>2, WithJobGood
<1>6. s2 \in GoodHousehold
  <2>1. <<j, reserved.target>> \in Job \X Revision
    BY <1>4
  <2>2. QED
    BY <1>5, <2>1 DEF GoodHousehold, Household
<1>7. s3 \in GoodHousehold /\ s4 \in GoodHousehold
  BY <1>3, <1>5, <1>6, WithJobGood
<1>8. WithJob(ram, j, failed) \in GoodHousehold
  BY <1>1, <1>2, WithJobGood
<1> HIDE DEF s1, s2, s3, s4, reserved, failed
<1>9. /\ <<ram, s1, s2, s3>> \in Seq(GoodHousehold)
      /\ Len(<<ram, s1, s2, s3>>) > 0
      /\ <<ram, s1, s4>> \in Seq(GoodHousehold)
      /\ Len(<<ram, s1, s4>>) > 0
      /\ <<ram, WithJob(ram, j, failed)>> \in Seq(GoodHousehold)
      /\ Len(<<ram, WithJob(ram, j, failed)>>) > 0
  BY <1>1, <1>5, <1>6, <1>7, <1>8
<1>10. \/ UNCHANGED <<flash, ram, mode, faults, commits>>
       \/ Write(<<ram, WithJob(ram, j, failed)>>, 200, answer)
       \/ Write(<<ram, s1, s2, s3>>, 200, answer)
       \/ Write(<<ram, s1, s4>>, 200, answer)
       \/ Fault /\ flash' = s1 /\ ram' = s1 /\ UNCHANGED <<mode, commits>>
  BY DEF PublishScheduled, Refuse, s1, s2, s3, s4, reserved, failed
<1>11. CASE UNCHANGED <<flash, ram, mode, faults, commits>>
  BY <1>11 DEF StoreOK
<1>12. CASE Fault /\ flash' = s1 /\ ram' = s1 /\ UNCHANGED <<mode, commits>>
  BY <1>5, <1>12, Bounds DEF StoreOK, Fault
<1>13. QED
  BY <1>9, <1>10, <1>11, <1>12, WriteGood

\* receive keeps the timers of a bots board typed.
LEMMA ReceiveType ==
  ASSUME timers \in [Bots -> SUBSET Timer], faults \in 0..MaxFaults,
         NEW b \in Bots, NEW m \in Handoff, NEW reply \in {"ok", "err"},
         Receive(b, m, reply)
  PROVE  timers' \in [Bots -> SUBSET Timer] /\ faults' \in 0..MaxFaults
<1>1. [id |-> m.id, revision |-> m.revision, at |-> m.at] \in Timer
  BY DEF Handoff, Timer
<1>2. QED
  BY <1>1, Bounds DEF Receive, Fault

LEMMA CallType ==
  ASSUME RestOK, call # NoCall
  PROVE  /\ call \in [to : Bots, id : Job, revision : Revision, at : Time,
                      cancelled : BOOLEAN, reply : {"none", "ok", "err"}]
         /\ MessageOf(call) \in Handoff
  BY DEF RestOK, MessageOf, Handoff

LEMMA CallbackType ==
  ASSUME RestOK, NEW b \in Bots, callback[b] # NoCallback
  PROVE  callback[b] \in [id : Job, revision : Revision, answer : Answer]
  BY DEF RestOK

LEMMA NetworkType ==
  ASSUME TypeOK, Network
  PROVE  TypeOK'
<1>1. StoreOK /\ RestOK
  BY TypeParts
<1>2. CASE ServeHandoff
  <2>1. PICK reply \in {"ok", "err"} :
          /\ Receive(call.to, MessageOf(call), reply)
          /\ call' = [call EXCEPT !.reply = reply]
    BY <1>2 DEF ServeHandoff
  <2>2. timers' \in [Bots -> SUBSET Timer] /\ faults' \in 0..MaxFaults
    BY <1>1, <1>2, <2>1, CallType, ReceiveType DEF ServeHandoff, RestOK, StoreOK
  <2>3. call' \in [to : Bots, id : Job, revision : Revision, at : Time,
                   cancelled : BOOLEAN, reply : {"none", "ok", "err"}]
    BY <1>1, <1>2, <2>1, CallType DEF ServeHandoff
  <2>4. StoreOK' /\ RestOK'
    BY <1>1, <1>2, <2>2, <2>3 DEF ServeHandoff, StoreOK, RestOK
  <2>5. QED
    BY <2>4, NextTypeParts
<1>3. CASE LoseHandoff
  <2>1. call' \in [to : Bots, id : Job, revision : Revision, at : Time,
                   cancelled : BOOLEAN, reply : {"none", "ok", "err"}]
    BY <1>1, <1>3, CallType DEF LoseHandoff
  <2>2. [kind |-> "handoff", to |-> call.to, body |-> MessageOf(call)]
           \in [kind : {"handoff"}, to : Bots, body : Handoff]
    BY <1>1, <1>3, CallType DEF LoseHandoff
  <2>3. StoreOK' /\ RestOK'
    BY <1>1, <1>3, <2>1, <2>2, Bounds
    DEF LoseHandoff, Fault, StoreOK, RestOK, boardVars
  <2>4. QED
    BY <2>3, NextTypeParts
<1>4. ASSUME NEW b \in Bots, ServeCallback(b)
      PROVE  TypeOK'
  <2>1. PICK answer \in Answer \ {0} :
          /\ PublishScheduled(callback[b].id, callback[b].revision, answer)
          /\ callback' = [callback EXCEPT ![b].answer = answer]
    BY <1>4 DEF ServeCallback
  <2>2. callback[b] \in [id : Job, revision : Revision, answer : Answer]
    BY <1>1, <1>4, CallbackType DEF ServeCallback
  <2>3. StoreOK'
    BY <1>1, <2>1, <2>2, PublishType
  <2>4. RestOK'
    BY <1>1, <1>4, <2>1, <2>2 DEF ServeCallback, RestOK
  <2>5. QED
    BY <2>3, <2>4, NextTypeParts
<1>5. ASSUME NEW b \in Bots, LoseCallback(b)
      PROVE  TypeOK'
  <2>1. callback[b] \in [id : Job, revision : Revision, answer : Answer]
    BY <1>1, <1>5, CallbackType DEF LoseCallback
  <2>2. callback' \in [Bots -> {NoCallback} \cup [id : Job, revision : Revision,
                                                   answer : Answer]]
    BY <1>1, <1>5, <2>1 DEF LoseCallback, RestOK, Answer
  <2>3. [kind |-> "callback", to |-> NoBoard,
         body |-> [id |-> callback[b].id, revision |-> callback[b].revision]]
           \in [kind : {"callback"}, to : {NoBoard},
                body : [id : Job, revision : Revision]]
    BY <2>1
  <2>4. StoreOK' /\ RestOK'
    BY <1>1, <1>5, <2>2, <2>3, Bounds DEF LoseCallback, Fault, StoreOK, RestOK
  <2>5. QED
    BY <2>4, NextTypeParts
<1>6. ASSUME NEW b \in Bots, UnreachableCallback(b)
      PROVE  TypeOK'
  <2>1. callback[b] \in [id : Job, revision : Revision, answer : Answer]
    BY <1>1, <1>6, CallbackType DEF UnreachableCallback
  <2>2. callback' \in [Bots -> {NoCallback} \cup [id : Job, revision : Revision,
                                                   answer : Answer]]
    BY <1>1, <1>6, <2>1 DEF UnreachableCallback, RestOK, Answer
  <2>3. StoreOK' /\ RestOK'
    BY <1>1, <1>6, <2>2 DEF UnreachableCallback, StoreOK, RestOK
  <2>4. QED
    BY <2>3, NextTypeParts
<1>7. ASSUME NEW m \in late, ServeLate(m)
      PROVE  TypeOK'
  <2>1. m \in [kind : {"handoff"}, to : Bots, body : Handoff] \cup
              [kind : {"callback"}, to : {NoBoard},
               body : [id : Job, revision : Revision]]
    BY <1>1, <1>7 DEF RestOK
  <2>2. CASE m.kind = "handoff"
    <3>1. PICK reply \in {"ok", "err"} : Receive(m.to, m.body, reply)
      BY <1>7, <2>2 DEF ServeLate
    <3>2. m.to \in Bots /\ m.body \in Handoff
      BY <2>1, <2>2
    <3>3. timers' \in [Bots -> SUBSET Timer] /\ faults' \in 0..MaxFaults
      BY <1>1, <3>1, <3>2, ReceiveType DEF RestOK, StoreOK
    <3>4. StoreOK' /\ RestOK'
      BY <1>1, <1>7, <2>2, <3>3 DEF ServeLate, StoreOK, RestOK
    <3>5. QED
      BY <3>4, NextTypeParts
  <2>3. CASE m.kind = "callback"
    <3>1. PICK answer \in Answer :
            PublishScheduled(m.body.id, m.body.revision, answer)
      BY <1>7, <2>3 DEF ServeLate
    <3>2. m.body.id \in Job /\ m.body.revision \in Revision
      BY <2>1, <2>3
    <3>3. StoreOK'
      BY <1>1, <3>1, <3>2, PublishType
    <3>4. RestOK'
      BY <1>1, <1>7, <2>3 DEF ServeLate, RestOK
    <3>5. QED
      BY <3>3, <3>4, NextTypeParts
  <2>4. QED
    BY <2>1, <2>2, <2>3
<1>8. QED
  BY <1>2, <1>3, <1>4, <1>5, <1>6, <1>7 DEF Network

LEMMA MastominiType ==
  ASSUME TypeOK, Mastomini
  PROVE  TypeOK'
<1>1. StoreOK /\ RestOK /\ flash \in GoodHousehold /\ ram \in GoodHousehold
  BY TypeParts DEF StoreOK
<1>2. CASE Boot
  <2>1. StoreOK'
    BY <1>1, <1>2, LoadToGood DEF Boot, StoreOK
  <2>2. RestOK'
    BY <1>1, <1>2, Bounds DEF Boot, RestOK, boardVars
  <2>3. QED
    BY <2>1, <2>2, NextTypeParts
<1>3. CASE BootFails
  <2>1. StoreOK'
    BY <1>1, <1>3, LoadToGood, Bounds DEF BootFails, Fault, StoreOK
  <2>2. RestOK'
    BY <1>1, <1>3 DEF BootFails, RestOK, boardVars
  <2>3. QED
    BY <2>1, <2>2, NextTypeParts
<1>4. CASE PowerCut
  <2>1. StoreOK'
    BY <1>1, <1>4, Bounds DEF PowerCut, Fault, StoreOK
  <2>2. RestOK'
    BY <1>1, <1>4 DEF PowerCut, RestOK, boardVars
  <2>3. QED
    BY <2>1, <2>2, NextTypeParts
<1>5. CASE StartHandoff
  <2>1. PICK j \in Job :
          /\ NextHandoff(j)
          /\ call' = [to |-> ram.bridge, id |-> j, reply |-> "none",
                      revision |-> ram.jobs[j].revision, at |-> ram.jobs[j].at,
                      cancelled |-> ram.jobs[j].cancelled]
          /\ lastHandoff' = j
    BY <1>5 DEF StartHandoff
  <2>2. ram.jobs[j] \in Scheduled /\ ram.jobs[j].revision > 0
    BY <1>1, <2>1 DEF NextHandoff, Pending, Exists, GoodHousehold, Household
  <2>3. ram.jobs[j].revision \in Revision /\ ram.jobs[j].at \in Time
        /\ ram.jobs[j].cancelled \in BOOLEAN
    BY <2>2, Bounds DEF Scheduled, Revision
  <2>4. ram.bridge \in Bots
    BY <1>1, <1>5 DEF StartHandoff, GoodHousehold, Household
  <2>5. call' \in [to : Bots, id : Job, revision : Revision, at : Time,
                   cancelled : BOOLEAN, reply : {"none", "ok", "err"}]
    BY <2>1, <2>3, <2>4
  <2>6. lastHandoff' \in 0..MaxJobs
    BY <2>1, Bounds DEF Job
  <2>7. StoreOK' /\ RestOK'
    BY <1>1, <1>5, <2>5, <2>6 DEF StartHandoff, StoreOK, RestOK, boardVars
  <2>8. QED
    BY <2>7, NextTypeParts
<1>6. CASE EndHandoff
  <2>1. <<call.id, call.revision>> \in Job \X Revision
    BY <1>1, <1>6, CallType DEF EndHandoff
  <2>2. StoreOK' /\ RestOK'
    BY <1>1, <1>6, <2>1 DEF EndHandoff, StoreOK, RestOK, boardVars
  <2>3. QED
    BY <2>2, NextTypeParts
<1>7. QED
  BY <1>2, <1>3, <1>4, <1>5, <1>6 DEF Mastomini

LEMMA BoardType ==
  ASSUME TypeOK, NEW b \in Bots, Board(b)
  PROVE  TypeOK'
<1>1. StoreOK /\ RestOK
  BY TypeParts
<1>2. StoreOK'
  BY <1>1, Bounds DEF Board, Tick, SendCallback, EndCallback, RetryDue,
                      BotsRestart, Fault, StoreOK
<1>3. CASE Tick(b)
  BY <1>1, <1>2, <1>3, NextTypeParts DEF Tick, RestOK
<1>4. CASE SendCallback(b)
  <2>1. PICK t \in todo[b] :
          /\ callback' = [callback EXCEPT ![b] = [id |-> t.id,
                                                  revision |-> t.revision,
                                                  answer |-> 0]]
          /\ todo' = [todo EXCEPT ![b] = @ \ {t}]
    BY <1>4 DEF SendCallback
  <2>2. [id |-> t.id, revision |-> t.revision, answer |-> 0]
          \in [id : Job, revision : Revision, answer : Answer]
    BY <1>1, <2>1 DEF RestOK, Timer, Answer
  <2>3. RestOK'
    BY <1>1, <1>4, <2>1, <2>2 DEF SendCallback, RestOK
  <2>4. QED
    BY <1>2, <2>3, NextTypeParts
<1>5. CASE EndCallback(b)
  <2> DEFINE mine == {t \in timers[b] : /\ t.id = callback[b].id
                                        /\ t.revision = callback[b].revision}
  <2>1. timers' = timers \/ timers' = [timers EXCEPT ![b] = @ \ mine]
    BY <1>5 DEF EndCallback
  <2>2. backoff' = backoff \/ backoff' = [backoff EXCEPT ![b] = TRUE]
    BY <1>5 DEF EndCallback
  <2>3. callback' = [callback EXCEPT ![b] = NoCallback]
    BY <1>5 DEF EndCallback
  <2> HIDE DEF mine
  <2>4. /\ timers' \in [Bots -> SUBSET Timer]
        /\ backoff' \in [Bots -> BOOLEAN]
    <3>1. timers \in [Bots -> SUBSET Timer] /\ backoff \in [Bots -> BOOLEAN]
      BY <1>1 DEF RestOK
    <3>2. timers' \in [Bots -> SUBSET Timer]
      BY <2>1, <3>1
    <3>3. backoff' \in [Bots -> BOOLEAN]
      BY <2>2, <3>1
    <3>4. QED
      BY <3>2, <3>3
  <2>5. callback' \in [Bots -> {NoCallback} \cup [id : Job, revision : Revision,
                                                   answer : Answer]]
    BY <1>1, <2>3 DEF RestOK
  <2>6. RestOK'
    BY <1>1, <1>5, <2>4, <2>5 DEF EndCallback, RestOK
  <2>7. QED
    BY <1>2, <2>6, NextTypeParts
<1>6. CASE RetryDue(b)
  BY <1>1, <1>2, <1>6, NextTypeParts DEF RetryDue, RestOK
<1>7. CASE BotsRestart(b)
  BY <1>1, <1>2, <1>7, NextTypeParts DEF BotsRestart, RestOK
<1>8. QED
  BY <1>3, <1>4, <1>5, <1>6, <1>7 DEF Board

-----------------------------------------------------------------------------
LEMMA InitType == Init => TypeOK
<1> SUFFICES ASSUME Init PROVE TypeOK
  OBVIOUS
<1>1. PICK b \in Bots \cup {NoBoard} :
        flash = [jobs |-> [j \in Job |-> NoJob], posts |-> {},
                 acct |-> [a \in Account |-> [standing |-> "ok", epoch |-> 0]],
                 bridge |-> b]
  BY DEF Init
<1>2. [a \in Account |-> [standing |-> "ok", epoch |-> 0]]
        \in [Account -> AccountState]
  BY Bounds DEF AccountState
<1>3. [j \in Job |-> NoJob] \in [Job -> Scheduled]
  BY NoJobGood DEF GoodJob
<1>4. flash \in Household
  BY <1>1, <1>2, <1>3 DEF Household
<1>5. flash \in GoodHousehold
  BY <1>1, <1>4, NoJobGood DEF GoodHousehold, GoodJob
<1>6. StoreOK
  BY <1>5, Bounds DEF Init, StoreOK
<1>7. RestOK
  BY Bounds DEF Init, RestOK, Time
<1>8. QED
  BY <1>6, <1>7, TypeParts

LEMMA NextType == TypeOK /\ [Next]_vars => TypeOK'
<1> SUFFICES ASSUME TypeOK, [Next]_vars PROVE TypeOK'
  OBVIOUS
<1>1. StoreOK /\ RestOK
  BY TypeParts
<1>2. CASE ClockTick
  <2>1. StoreOK' /\ RestOK'
    BY <1>1, <1>2, Bounds DEF ClockTick, StoreOK, RestOK, boardVars, Time
  <2>2. QED
    BY <2>1, NextTypeParts
<1>3. CASE UNCHANGED vars
  <2>1. StoreOK' /\ RestOK'
    BY <1>1, <1>3 DEF vars, StoreOK, RestOK
  <2>2. QED
    BY <2>1, NextTypeParts
<1>4. QED
  BY <1>2, <1>3, MemberType, AdminType, MastominiType, NetworkType, BoardType
  DEF Next

\* Every state of the protocol is well typed, and while the service is
\* writable its RAM image is what put and erase have made durable.
THEOREM TypeCorrect == Spec => []TypeOK
  BY InitType, NextType, PTL DEF Spec

-----------------------------------------------------------------------------
(***************************************************************************)
(* How a stored job moves on.  What the handoffs, timers and callbacks say *)
(* of a job was true of it once; a job only moves on from there, on flash  *)
(* and in RAM, and flash is never behind RAM.                              *)
(***************************************************************************)
Over(x) == x.done \/ x.cancelled \/ x.failure

\* What a stored job x may become: erased, revised, or over in the same revision.
Follows(x, y) ==
  Exists(y) =>
    /\ Exists(x) /\ x.revision <= y.revision
    /\ x.revision = y.revision => /\ y.at = x.at
                                  /\ x.cancelled => y.cancelled
                                  /\ Over(x) => Over(y)

\* Every job but the new one, n, moves on from household s to household t, and
\* the bots board paired with it stays.
MovesOn(s, t, n) ==
  t.bridge = s.bridge /\ \A j \in Job : j # n => Follows(s.jobs[j], t.jobs[j])

\* The images of a run of writes, each moving on from ram and from the last.
MovingOn(images, n) ==
  /\ \A k \in 1..Len(images) : MovesOn(ram, images[k], n)
  /\ \A k \in 1..(Len(images) - 1) : MovesOn(images[k], images[k + 1], n)

\* What a run of writes leaves of its images.
Written(images) ==
  /\ mode = "up" /\ ram = flash
  /\ \/ ram' = flash' /\ mode' = "up" /\ \E k \in 1..Len(images) : flash' = images[k]
     \/ /\ mode' # "up"
        /\ \E k \in 1..(Len(images) - 1) :
             ram' = images[k] /\ flash' \in {images[k], images[k + 1]}

LEMMA FollowsItself ==
  ASSUME NEW x \in Scheduled
  PROVE  Follows(x, x)
  BY DEF Follows, Scheduled

LEMMA FollowsOn ==
  ASSUME NEW x \in Scheduled, NEW y \in Scheduled, NEW z \in Scheduled,
         Follows(x, y), Follows(y, z)
  PROVE  Follows(x, z)
  BY Bounds DEF Follows, Scheduled, Exists

LEMMA FollowsErased == ASSUME NEW x PROVE Follows(x, NoJob)
  BY DEF Follows, Exists, NoJob

\* A revision that was not there before.
LEMMA FollowsRevised ==
  ASSUME NEW x \in Scheduled, NEW y, Exists(x), y.revision = x.revision + 1
  PROVE  Follows(x, y)
  BY Bounds DEF Follows, Scheduled, Exists

LEMMA JobsTyped ==
  ASSUME NEW s \in GoodHousehold
  PROVE  \A j \in Job : s.jobs[j] \in Scheduled
  BY DEF GoodHousehold, Household

LEMMA MovesItself ==
  ASSUME NEW s \in GoodHousehold, NEW n
  PROVE  MovesOn(s, s, n)
  BY JobsTyped, FollowsItself DEF MovesOn

LEMMA WriteLeaves ==
  ASSUME TypeOK, NEW ok, NEW answer, NEW images \in Seq(GoodHousehold), Len(images) > 0,
         Write(images, ok, answer)
  PROVE  Written(images)
<1>1. mode = "up" /\ ram = flash /\ Len(images) \in Nat
  BY DEF Write, TypeOK
<1>2. CASE WriteAll(images)
  BY <1>1, <1>2 DEF WriteAll, Written
<1>3. CASE WriteFull(images)
  BY <1>1, <1>3 DEF WriteFull, Written
<1>4. ASSUME NEW m \in {"latched", "down"}, WriteBreaks(images, m)
      PROVE  Written(images)
  BY <1>1, <1>4 DEF WriteBreaks, Written
<1> QED BY <1>2, <1>3, <1>4 DEF Write

LEMMA WrittenMoves ==
  ASSUME NEW images \in Seq(GoodHousehold), Len(images) > 0, NEW n,
         MovingOn(images, n), Written(images)
  PROVE  /\ MovesOn(flash, flash', n) /\ MovesOn(ram, ram', n)
         /\ MovesOn(ram', flash', n)
<1>1. Len(images) \in Nat /\ \A k \in 1..Len(images) : images[k] \in GoodHousehold
  OBVIOUS
<1>2. \A k \in 1..Len(images) : MovesOn(images[k], images[k], n)
  BY <1>1, MovesItself
<1>3. \A k \in 1..(Len(images) - 1) : k \in 1..Len(images) /\ k + 1 \in 1..Len(images)
  BY <1>1
<1> QED BY <1>2, <1>3 DEF Written, MovingOn

-----------------------------------------------------------------------------
(***************************************************************************)
(* Each operation on the store moves the jobs on.                          *)
(***************************************************************************)
Moved(n) ==
  /\ mode = "up" /\ ram = flash
  /\ MovesOn(flash, flash', n) /\ MovesOn(ram, ram', n) /\ MovesOn(ram', flash', n)

\* One write after what there is.
LEMMA OneWriteMoves ==
  ASSUME TypeOK, NEW s \in GoodHousehold, NEW n, MovesOn(ram, s, n)
  PROVE  MovingOn(<<ram, s>>, n) /\ <<ram, s>> \in Seq(GoodHousehold) /\ Len(<<ram, s>>) > 0
<1>1. ram \in GoodHousehold /\ MovesOn(ram, ram, n)
  BY TypeParts, MovesItself DEF StoreOK
<1> QED BY <1>1 DEF MovingOn

LEMMA OneWriteMoved ==
  ASSUME TypeOK, NEW s \in GoodHousehold, NEW n, MovesOn(ram, s, n),
         NEW answer, Write(<<ram, s>>, 200, answer)
  PROVE  Moved(n)
<1>1. Written(<<ram, s>>)
  BY OneWriteMoves, WriteLeaves
<1> QED BY <1>1, OneWriteMoves, WrittenMoves DEF Moved, Written

\* A household with the same jobs.
LEMMA SameJobsMove ==
  ASSUME TypeOK, NEW s, s.jobs = ram.jobs, s.bridge = ram.bridge, NEW n
  PROVE  MovesOn(ram, s, n)
  BY TypeParts, JobsTyped, FollowsItself DEF MovesOn, StoreOK

\* A household with one job changed.
LEMMA WithJobMoves ==
  ASSUME NEW s \in GoodHousehold, NEW j \in Job, NEW x, NEW n,
         j # n => Follows(s.jobs[j], x)
  PROVE  MovesOn(s, WithJob(s, j, x), n)
<1>1. /\ \A i \in Job : WithJob(s, j, x).jobs[i] = IF i = j THEN x ELSE s.jobs[i]
      /\ WithJob(s, j, x).bridge = s.bridge
  BY DEF WithJob, GoodHousehold, Household
<1> QED BY <1>1, JobsTyped, FollowsItself DEF MovesOn

LEMMA SaveChangeMoves ==
  ASSUME TypeOK, NEW j \in Job, NEW x \in GoodJob, Follows(ram.jobs[j], x), SaveChange(j, x)
  PROVE  Moved(0)
<1>1. ram \in GoodHousehold
  BY TypeParts DEF StoreOK
<1>2. WithJob(ram, j, x) \in GoodHousehold /\ MovesOn(ram, WithJob(ram, j, x), 0)
  BY <1>1, WithJobGood, WithJobMoves
<1>3. PICK answer \in Answer : Write(<<ram, WithJob(ram, j, x)>>, 200, answer)
  BY DEF SaveChange
<1> QED BY <1>2, <1>3, OneWriteMoved

LEMMA CancelMoves ==
  ASSUME TypeOK, NEW j \in Job, Cancel(j)
  PROVE  Moved(0)
<1>1. flash.jobs[j] \in GoodJob /\ ~flash.jobs[j].cancelled /\ Exists(flash.jobs[j]) /\ ram = flash
  BY TypeParts, GoodJobs DEF Cancel, Changeable, StoreOK
<1> DEFINE x == [flash.jobs[j] EXCEPT !.target = 0, !.cancelled = TRUE,
                                       !.failure = FALSE, !.revision = @ + 1]
<1>2. /\ flash.jobs[j].revision + 1 \in 0..(MaxRevision + 1)
      /\ 0 \in 0..(MaxRevision + 1)
  BY <1>1, Bounds DEF GoodJob, Scheduled
<1>3. x \in Scheduled /\ x.cancelled /\ x.revision = flash.jobs[j].revision + 1
  BY <1>1, <1>2 DEF GoodJob, Scheduled
<1>4. x \in GoodJob /\ Follows(flash.jobs[j], x)
  BY <1>1, <1>3, FollowsRevised DEF GoodJob
<1>5. SaveChange(j, x)
  BY DEF Cancel
<1> QED BY <1>1, <1>4, <1>5, SaveChangeMoves

LEMMA RescheduleMoves ==
  ASSUME TypeOK, NEW j \in Job, NEW at \in Time, Reschedule(j, at)
  PROVE  Moved(0)
<1>1. /\ flash.jobs[j] \in GoodJob /\ flash.jobs[j].revision < MaxRevision
      /\ Exists(flash.jobs[j]) /\ ram = flash
  BY TypeParts, GoodJobs DEF Reschedule, Changeable, StoreOK
<1> DEFINE x == [flash.jobs[j] EXCEPT !.target = 0, !.at = at, !.revision = @ + 1]
<1>2. /\ flash.jobs[j].revision + 1 \in 0..(MaxRevision + 1)
      /\ flash.jobs[j].revision + 1 <= MaxRevision
      /\ 0 \in 0..(MaxRevision + 1)
  BY <1>1, Bounds DEF GoodJob, Scheduled
<1>3. x \in Scheduled /\ x.revision = flash.jobs[j].revision + 1
  BY <1>1, <1>2 DEF GoodJob, Scheduled
<1>4. x \in GoodJob /\ Follows(flash.jobs[j], x)
  BY <1>1, <1>2, <1>3, FollowsRevised DEF GoodJob
<1>5. SaveChange(j, x)
  BY DEF Reschedule
<1> QED BY <1>1, <1>4, <1>5, SaveChangeMoves

\* Requests that touch neither a job nor the pairing.
LEMMA OthersMove ==
  ASSUME TypeOK,
         \/ \E j \in Job, r \in Revision : RemoveStatus(j, r)
         \/ \E a \in Account, s \in AccountState : ChangeAuthor(a, s)
  PROVE  Moved(0)
<1>1. ram \in GoodHousehold
  BY TypeParts DEF StoreOK
<1>2. ASSUME NEW j \in Job, NEW r \in Revision, RemoveStatus(j, r)
      PROVE  Moved(0)
  <2> DEFINE s == [ram EXCEPT !.posts = @ \ {<<j, r>>}]
  <2>1. s \in GoodHousehold /\ s.jobs = ram.jobs /\ s.bridge = ram.bridge
    BY <1>1 DEF GoodHousehold, Household
  <2>2. PICK answer \in Answer : Write(<<ram, s>>, 200, answer)
    BY <1>2 DEF RemoveStatus
  <2> QED BY <2>1, <2>2, SameJobsMove, OneWriteMoved
<1>3. ASSUME NEW a \in Account, NEW state \in AccountState, ChangeAuthor(a, state)
      PROVE  Moved(0)
  <2> DEFINE s == [ram EXCEPT !.acct[a] = state]
  <2>1. s \in GoodHousehold /\ s.jobs = ram.jobs /\ s.bridge = ram.bridge
    BY <1>1 DEF GoodHousehold, Household
  <2>2. PICK answer \in Answer : Write(<<ram, s>>, 200, answer)
    BY <1>3 DEF ChangeAuthor
  <2> QED BY <2>1, <2>2, SameJobsMove, OneWriteMoved
<1> QED BY <1>2, <1>3

\* cancel_account_schedules: each image cancels one job more.
LEMMA CancelToMoves ==
  ASSUME NEW s \in GoodHousehold, NEW a \in Account, NEW c \in Int, NEW d \in Int, c <= d,
         NEW n
  PROVE  MovesOn(CancelTo(s, a, c), CancelTo(s, a, d), n) /\ MovesOn(s, CancelTo(s, a, c), n)
<1> DEFINE at(k, j) == IF AuthorOf[j] = a /\ j < k /\ Exists(s.jobs[j]) /\ ~s.jobs[j].cancelled
                       THEN CancelledFor(s.jobs[j]) ELSE s.jobs[j]
<1>1. \A k : /\ \A j \in Job : CancelTo(s, a, k).jobs[j] = at(k, j)
             /\ CancelTo(s, a, k).bridge = s.bridge
  BY DEF CancelTo, GoodHousehold, Household
<1>2. \A j \in Job : s.jobs[j] \in Scheduled /\ j \in Int
  BY JobsTyped, Bounds DEF Job
<1>3. ASSUME NEW x \in Scheduled, ~x.cancelled
      PROVE  /\ CancelledFor(x).revision = x.revision + 1 
             /\ Follows(CancelledFor(x), CancelledFor(x))
  BY <1>3, Bounds DEF CancelledFor, Scheduled, Follows, Exists
<1>4. \A j \in Job : Follows(s.jobs[j], at(c, j))
  BY <1>2, <1>3, FollowsItself, FollowsRevised
<1>5. \A j \in Job : Follows(at(c, j), at(d, j))
  BY <1>2, <1>3, FollowsItself, FollowsRevised
<1> QED BY <1>1, <1>4, <1>5 DEF MovesOn

LEMMA DeleteAccountMoves ==
  ASSUME TypeOK, NEW a \in Account, DeleteAccount(a)
  PROVE  Moved(0)
<1> DEFINE images == [c \in 0..(MaxJobs + 2) |->
                        IF c = 0 THEN ram
                        ELSE IF c <= MaxJobs + 1 THEN CancelTo(ram, a, c)
                        ELSE WithoutPostsOf(CancelTo(ram, a, MaxJobs + 1), a)]
           writes == [k \in 1..(MaxJobs + 3) |-> images[k - 1]]
           all    == CancelTo(ram, a, MaxJobs + 1)
<1>1. ram \in GoodHousehold
  BY TypeParts DEF StoreOK
<1>2. \A c \in 0..(MaxJobs + 2) : images[c] \in GoodHousehold
  BY <1>1, CancelToGood, WithoutPostsOfGood
<1>3. writes \in Seq(GoodHousehold) /\ Len(writes) = MaxJobs + 3
  <2>1. writes \in [1..(MaxJobs + 3) -> GoodHousehold]
    BY <1>2, Bounds
  <2> QED BY <2>1, FunctionIsSeq, Bounds
<1>4. \A c \in 1..(MaxJobs + 1) : images[c] = CancelTo(ram, a, c)
  BY Bounds
<1>5. /\ images[0] = ram /\ images[MaxJobs + 2].jobs = images[MaxJobs + 1].jobs
      /\ images[MaxJobs + 2].bridge = images[MaxJobs + 1].bridge
  <2>1. WithoutPostsOf(all, a).jobs = all.jobs /\ WithoutPostsOf(all, a).bridge = all.bridge
    BY <1>1, CancelToGood DEF WithoutPostsOf, GoodHousehold, Household
  <2> QED BY <2>1, Bounds
<1> HIDE DEF images
<1>6. \A c \in 0..(MaxJobs + 2) : MovesOn(ram, images[c], 0)
  <2>1. \A c \in 1..(MaxJobs + 1) : MovesOn(ram, images[c], 0)
    BY <1>1, <1>4, CancelToMoves, Bounds
  <2>2. MovesOn(ram, images[0], 0)
    BY <1>1, <1>5, MovesItself
  <2>3. MovesOn(ram, images[MaxJobs + 2], 0)
    BY <2>1, <1>5, Bounds DEF MovesOn
  <2> QED BY <2>1, <2>2, <2>3, Bounds
<1>7. \A c \in 0..(MaxJobs + 1) : MovesOn(images[c], images[c + 1], 0)
  <2>1. ASSUME NEW c \in 1..MaxJobs PROVE MovesOn(images[c], images[c + 1], 0)
    <3>1. c \in 1..(MaxJobs + 1) /\ c + 1 \in 1..(MaxJobs + 1) /\ c \in Int /\ c + 1 \in Int
      BY Bounds
    <3>2. MovesOn(CancelTo(ram, a, c), CancelTo(ram, a, c + 1), 0)
      BY <1>1, <3>1, CancelToMoves
    <3> QED BY <1>4, <3>1, <3>2
  <2>2. MovesOn(images[0], images[1], 0)
    BY <1>5, <1>6, Bounds
  <2>3. MovesOn(images[MaxJobs + 1], images[MaxJobs + 2], 0)
    <3>1. MovesOn(images[MaxJobs + 1], images[MaxJobs + 1], 0)
      BY <1>2, MovesItself, Bounds
    <3> QED BY <1>5, <3>1 DEF MovesOn
  <2> QED BY <2>1, <2>2, <2>3, Bounds
<1>8. MovingOn(writes, 0)
  <2>1. \A k \in 1..(MaxJobs + 3) : writes[k] = images[k - 1] /\ k - 1 \in 0..(MaxJobs + 2)
    BY Bounds
  <2>2. ASSUME NEW k \in 1..(Len(writes) - 1) PROVE MovesOn(writes[k], writes[k + 1], 0)
    <3>1. /\ k \in 1..(MaxJobs + 3) /\ k + 1 \in 1..(MaxJobs + 3)
          /\ k - 1 \in 0..(MaxJobs + 1) /\ (k - 1) + 1 = (k + 1) - 1
      BY <1>3, Bounds
    <3> QED BY <1>7, <2>1, <3>1
  <2> QED BY <1>3, <1>6, <2>1, <2>2 DEF MovingOn
<1>9. PICK answer \in Answer : Write(writes, 200, answer)
  BY DEF DeleteAccount, images
<1>10. Written(writes)
  BY <1>3, <1>9, WriteLeaves, Bounds
<1>11. Len(writes) > 0
  BY <1>3, Bounds
<1> HIDE DEF writes
<1> QED BY <1>3, <1>8, <1>10, <1>11, WrittenMoves DEF Moved, Written

\* publish_scheduled reserves, fails or finishes the job under its revision.
LEMMA PublishMoves ==
  ASSUME TypeOK, NEW j \in Job, NEW r \in Revision, NEW answer \in Answer,
         PublishScheduled(j, r, answer)
  PROVE  UNCHANGED <<flash, ram, mode>> \/ Moved(0)
<1> DEFINE job      == flash.jobs[j]
           failed   == [job EXCEPT !.failure = TRUE]
           reserved == IF job.target > 0 THEN job ELSE [job EXCEPT !.target = r]
           s1       == WithJob(ram, j, reserved)
           s2       == [s1 EXCEPT !.posts = @ \cup {<<j, reserved.target>>}]
           done     == [reserved EXCEPT !.done = TRUE]
           s3       == WithJob(s2, j, done)
           refused  == [reserved EXCEPT !.failure = TRUE]
           s4       == WithJob(s1, j, refused)
<1>1. flash \in GoodHousehold /\ ram \in GoodHousehold /\ job \in GoodJob
  BY TypeParts, GoodJobs DEF StoreOK
<1>2. reserved \in GoodJob /\ failed \in GoodJob /\ done \in GoodJob /\ refused \in GoodJob
  <2>1. r \in 0..(MaxRevision + 1)
    BY Bounds DEF Revision
  <2>2. [job EXCEPT !.target = r] \in GoodJob /\ failed \in GoodJob
    BY <1>1, <2>1 DEF GoodJob, Scheduled
  <2>3. reserved \in GoodJob
    BY <1>1, <2>2
  <2> HIDE DEF reserved
  <2>4. done \in GoodJob /\ refused \in GoodJob
    BY <2>3 DEF GoodJob, Scheduled
  <2> QED BY <2>2, <2>3, <2>4 
<1>3. /\ Follows(job, reserved) /\ Follows(job, failed)
      /\ Follows(reserved, done) /\ Follows(reserved, refused)
      /\ Follows(job, done) /\ Follows(job, refused)
  <2>1. job \in Scheduled
    BY <1>1 DEF GoodJob
  <2>2. /\ reserved.revision = job.revision /\ reserved.at = job.at
        /\ reserved.cancelled = job.cancelled /\ Over(reserved) = Over(job)
        /\ reserved \in Scheduled
    BY <1>2, <2>1 DEF GoodJob, Scheduled, Over
  <2>3. Follows(job, failed)
    BY <2>1 DEF Follows, Scheduled, Over, Exists
  <2> HIDE DEF reserved, job
  <2>4. /\ done.revision = reserved.revision /\ done.at = reserved.at
        /\ done.cancelled = reserved.cancelled /\ Over(done)
        /\ refused.revision = reserved.revision /\ refused.at = reserved.at
        /\ refused.cancelled = reserved.cancelled /\ Over(refused)
    BY <2>2 DEF Scheduled, Over
  <2> QED BY <2>1, <2>2, <2>3, <2>4 DEF Follows, Scheduled, Exists
<1>4. reserved.target \in Revision
  BY <1>1, Bounds DEF GoodJob, Scheduled, Revision
<1> HIDE DEF reserved, failed, done, refused, job
<1>5. s1 \in GoodHousehold /\ s1.jobs[j] = reserved /\ s1 = WithJob(ram, j, reserved)
  BY <1>1, <1>2, WithJobGood DEF WithJob, GoodHousehold, Household
<1> HIDE DEF s1
<1>6. s2 \in GoodHousehold /\ s2.jobs = s1.jobs /\ s2.bridge = s1.bridge
  <2>1. <<j, reserved.target>> \in Job \X Revision
    BY <1>4
  <2> QED BY <1>5, <2>1 DEF GoodHousehold, Household
<1> HIDE DEF s2
<1>7. s3 \in GoodHousehold /\ s4 \in GoodHousehold
  BY <1>2, <1>5, <1>6, WithJobGood
<1>8. WithJob(ram, j, failed) \in GoodHousehold
  BY <1>1, <1>2, WithJobGood
<1>9. CASE ram = flash
  <2>1. ram.jobs[j] = job
    BY <1>9 DEF job
  <2>2. /\ MovesOn(ram, ram, 0) /\ MovesOn(ram, s1, 0)
        /\ MovesOn(ram, WithJob(ram, j, failed), 0)
    BY <1>1, <1>3, <1>5, <2>1, WithJobMoves, MovesItself
  <2>3. MovesOn(ram, s2, 0) /\ MovesOn(s1, s2, 0)
    BY <1>5, <1>6, <2>2, MovesItself DEF MovesOn
  <2>4. MovesOn(s2, s3, 0) /\ MovesOn(s1, s4, 0)
    BY <1>3, <1>5, <1>6, WithJobMoves
  <2>5. MovesOn(ram, s3, 0) /\ MovesOn(ram, s4, 0)
    <3>1. /\ \A i \in Job : s3.jobs[i] = IF i = j THEN done ELSE ram.jobs[i]
          /\ s3.bridge = ram.bridge
      BY <1>1, <1>2, <1>5, <1>6 DEF WithJob, GoodHousehold, Household
    <3>2. /\ \A i \in Job : s4.jobs[i] = IF i = j THEN refused ELSE ram.jobs[i]
          /\ s4.bridge = ram.bridge
      BY <1>1, <1>2, <1>5 DEF WithJob, GoodHousehold, Household
    <3> QED BY <1>1, <1>3, <2>1, <3>1, <3>2, JobsTyped, FollowsItself DEF MovesOn
  <2> HIDE DEF s3, s4
  <2>6. /\ <<ram, s1, s2, s3>> \in Seq(GoodHousehold) /\ Len(<<ram, s1, s2, s3>>) > 0
        /\ <<ram, s1, s4>> \in Seq(GoodHousehold) /\ Len(<<ram, s1, s4>>) > 0
    BY <1>1, <1>5, <1>6, <1>7
  <2>7. MovingOn(<<ram, s1, s2, s3>>, 0) /\ MovingOn(<<ram, s1, s4>>, 0)
    BY <2>2, <2>3, <2>4, <2>5 DEF MovingOn
  <2>8. CASE Write(<<ram, WithJob(ram, j, failed)>>, 200, answer)
    BY <1>8, <2>2, <2>8, OneWriteMoved
  <2>9. CASE Write(<<ram, s1, s2, s3>>, 200, answer)
    BY <2>6, <2>7, <2>9, WriteLeaves, WrittenMoves DEF Moved, Written
  <2>10. CASE Write(<<ram, s1, s4>>, 200, answer)
    BY <2>6, <2>7, <2>10, WriteLeaves, WrittenMoves DEF Moved, Written
  <2>11. CASE mode = "up" /\ flash' = s1 /\ ram' = s1
    BY <1>9, <2>2, <2>11, <1>5, MovesItself DEF Moved
  <2> QED BY <2>8, <2>9, <2>10, <2>11 DEF PublishScheduled, Refuse, s1, s2, s3, s4,
            reserved, failed, done, refused, job
<1> QED BY <1>9 DEF PublishScheduled, Refuse, TypeOK

\* The jobs that are there have an issued id.
JobsIssued ==
  \A j \in Job : Exists(flash.jobs[j]) \/ (mode # "down" /\ Exists(ram.jobs[j])) => j <= lastJob

\* Flash is never behind RAM.
Behind ==
  mode # "down" => \A j \in Job : Exists(ram.jobs[j]) => Follows(ram.jobs[j], flash.jobs[j])

\* erase_retired: each image erases one job more.
LEMMA RetireToMoves ==
  ASSUME ram \in GoodHousehold, NEW c \in Int, NEW d \in Int, c <= d, NEW n
  PROVE  MovesOn(ram, RetireTo(c), n) /\ MovesOn(RetireTo(c), RetireTo(d), n)
<1>1. \A k :
        /\ \A j \in Job : RetireTo(k).jobs[j] = IF Retired(j) /\ j < k THEN NoJob ELSE ram.jobs[j]
        /\ RetireTo(k).bridge = ram.bridge
  BY DEF RetireTo, GoodHousehold, Household
<1>2. \A j \in Job : ram.jobs[j] \in Scheduled /\ j \in Int
  BY JobsTyped, Bounds DEF Job
<1> QED BY <1>1, <1>2, FollowsItself, FollowsErased DEF MovesOn

\* schedule_post: it erases the retired jobs and then, if the queue is not
\* full, writes the new one.
Erasing(j) == [c \in 1..j |-> RetireTo(c)]
Saving(j, job) == [c \in 1..(j + 1) |-> IF c <= j THEN RetireTo(c)
                                        ELSE WithJob(RetireTo(MaxJobs + 1), j, job)]

LEMMA SchedulePostWrites ==
  ASSUME TypeOK, NEW at \in Time, SchedulePost(at)
  PROVE  LET j == lastJob + 1 IN
         /\ j \in Job /\ acked' \subseteq acked
         /\ \/ /\ QueueFull(RetireTo(MaxJobs + 1)) /\ lastJob' = lastJob
               /\ Written(Erasing(j)) /\ Erasing(j) \in Seq(GoodHousehold)
               /\ Len(Erasing(j)) = j
            \/ /\ ~QueueFull(RetireTo(MaxJobs + 1))
               /\ lastJob' = IF Exists(flash'.jobs[j]) THEN j ELSE lastJob
               /\ \E job \in GoodJob :
                    /\ Written(Saving(j, job)) /\ Saving(j, job) \in Seq(GoodHousehold)
                    /\ Len(Saving(j, job)) = j + 1
<1> DEFINE j   == lastJob + 1
           job == [NoJob EXCEPT !.at = at, !.revision = 1,
                                !.epoch = ram.acct[AuthorOf[j]].epoch]
<1>1. StoreOK /\ RestOK /\ j \in Job /\ j \in Nat /\ j > 0
  BY TypeParts, Bounds DEF SchedulePost, Job
<1>2. \A c : RetireTo(c) \in GoodHousehold
  BY <1>1, RetireToGood DEF StoreOK
<1>3. job \in GoodJob
  <2>1. ram.acct[AuthorOf[j]].epoch \in 0..MaxEpoch
    BY <1>1, PartiesAssumption DEF StoreOK, GoodHousehold, Household, AccountState
  <2>2. 0 \in 0..(MaxRevision + 1) /\ 1 \in 0..(MaxRevision + 1) /\ 1 <= MaxRevision
    BY Bounds
  <2>3. job \in Scheduled /\ job.revision <= MaxRevision
    BY <2>1, <2>2, NoJobGood DEF GoodJob, Scheduled
  <2> QED BY <2>3 DEF GoodJob
<1>4. Erasing(j) \in Seq(GoodHousehold) /\ Len(Erasing(j)) = j
  BY <1>1, <1>2, FunctionIsSeq DEF Erasing
<1>5. Saving(j, job) \in Seq(GoodHousehold) /\ Len(Saving(j, job)) = j + 1
  <2>1. WithJob(RetireTo(MaxJobs + 1), j, job) \in GoodHousehold
    BY <1>1, <1>2, <1>3, WithJobGood
  <2>2. Saving(j, job) \in [1..(j + 1) -> GoodHousehold]
    BY <1>2, <2>1 DEF Saving
  <2> QED BY <1>1, <2>2, FunctionIsSeq
<1>6. PICK answer \in Answer :
        IF QueueFull(RetireTo(MaxJobs + 1))
        THEN Write(Erasing(j), 422, answer) /\ UNCHANGED lastJob
        ELSE /\ Write(Saving(j, job), 200, answer)
             /\ lastJob' = IF Exists(flash'.jobs[j]) THEN j ELSE lastJob
  BY DEF SchedulePost, Erasing, Saving
<1>7. acked' \subseteq acked
  BY DEF SchedulePost, KeepAcked
<1> HIDE DEF job, j
<1>8. QueueFull(RetireTo(MaxJobs + 1)) => Written(Erasing(j))
  BY <1>1, <1>4, <1>6, WriteLeaves
<1>9. ~QueueFull(RetireTo(MaxJobs + 1)) => Written(Saving(j, job))
  BY <1>1, <1>5, <1>6, WriteLeaves
<1> QED BY <1>1, <1>3, <1>4, <1>5, <1>6, <1>7, <1>8, <1>9 DEF j

LEMMA SchedulePostMoves ==
  ASSUME TypeOK, JobsIssued, NEW at \in Time, SchedulePost(at)
  PROVE  LET j == lastJob + 1 IN
         \/ Moved(0) /\ lastJob' = lastJob
         \/ /\ Moved(j) /\ lastJob' = IF Exists(flash'.jobs[j]) THEN j ELSE lastJob
            /\ Exists(ram'.jobs[j]) => ram' = flash'
<1> DEFINE j == lastJob + 1
<1>1. /\ ram \in GoodHousehold /\ j \in Job /\ lastJob \in Nat /\ j \in Nat /\ j > 0
      /\ ~Exists(ram.jobs[j]) /\ mode = "up"
  <2>1. ram \in GoodHousehold /\ j \in Job /\ lastJob \in Nat /\ mode = "up"
    BY TypeParts, Bounds, SchedulePostWrites DEF StoreOK, RestOK, Written
  <2> QED BY <2>1, Bounds DEF JobsIssued
<1>2. \A c \in Int : \A n : MovesOn(ram, RetireTo(c), n) /\ MovesOn(RetireTo(c), RetireTo(c + 1), n)
  BY <1>1, RetireToMoves
<1>3. CASE Written(Erasing(j)) /\ Erasing(j) \in Seq(GoodHousehold) /\ Len(Erasing(j)) = j
           /\ lastJob' = lastJob
  <2>1. \A k \in 1..j : Erasing(j)[k] = RetireTo(k)
    BY DEF Erasing
  <2>2. \A k \in 1..(j - 1) : k \in 1..j /\ k + 1 \in 1..j /\ k \in Int
    BY <1>1
  <2>3. \A k \in 1..j : k \in Int
    BY <1>1
  <2>4. MovingOn(Erasing(j), 0)
    BY <1>2, <1>3, <2>1, <2>2, <2>3 DEF MovingOn
  <2> QED BY <1>1, <1>3, <2>4, WrittenMoves DEF Moved, Written
<1>4. ASSUME NEW job \in GoodJob, Written(Saving(j, job)), Saving(j, job) \in Seq(GoodHousehold),
             Len(Saving(j, job)) = j + 1
      PROVE  Moved(j) /\ (Exists(ram'.jobs[j]) => ram' = flash')
  <2> DEFINE last == WithJob(RetireTo(MaxJobs + 1), j, job)
  <2>1. /\ \A k \in 1..j : Saving(j, job)[k] = RetireTo(k)
        /\ Saving(j, job)[j + 1] = last
    BY <1>1 DEF Saving
  <2>2. MovesOn(RetireTo(MaxJobs + 1), last, j) /\ RetireTo(MaxJobs + 1) \in GoodHousehold
    BY <1>1, WithJobMoves, RetireToGood
  <2>3. MovesOn(ram, last, j) /\ MovesOn(RetireTo(j), last, j)
    <3>1. j <= MaxJobs + 1 /\ MaxJobs + 1 \in Int /\ j \in Int
      BY <1>1, Bounds DEF Job
    <3>2. MovesOn(RetireTo(j), RetireTo(MaxJobs + 1), j)
      BY <1>1, <3>1, RetireToMoves
    <3>3. MovesOn(ram, RetireTo(MaxJobs + 1), j)
      BY <1>2, <3>1
    <3>4. /\ \A i \in Job : i # j => last.jobs[i] = RetireTo(MaxJobs + 1).jobs[i]
          /\ last.bridge = RetireTo(MaxJobs + 1).bridge
      BY <2>2 DEF WithJob, GoodHousehold, Household
    <3> QED BY <3>2, <3>3, <3>4 DEF MovesOn
  <2> HIDE DEF last
  <2>4. \A k \in 1..(j + 1) : MovesOn(ram, Saving(j, job)[k], j)
    BY <1>1, <1>2, <2>1, <2>3
  <2>5. \A k \in 1..j : MovesOn(Saving(j, job)[k], Saving(j, job)[k + 1], j)
    BY <1>1, <1>2, <2>1, <2>3
  <2>6. MovingOn(Saving(j, job), j)
    BY <1>1, <1>4, <2>4, <2>5 DEF MovingOn
  <2>7. Moved(j)
    BY <1>1, <1>4, <2>6, WrittenMoves DEF Moved, Written
  <2>8. \A k \in 1..j : ~Exists(Saving(j, job)[k].jobs[j])
    <3>1. \A k : ~Exists(RetireTo(k).jobs[j])
      BY <1>1 DEF RetireTo, GoodHousehold, Household, NoJob, Exists
    <3> QED BY <2>1, <3>1
  <2>9. ASSUME ram' # flash' PROVE ~Exists(ram'.jobs[j])
    <3>1. PICK k \in 1..(Len(Saving(j, job)) - 1) : ram' = Saving(j, job)[k]
      BY <1>4, <2>9 DEF Written
    <3>2. k \in 1..j
      BY <1>1, <1>4
    <3> QED BY <2>8, <3>1, <3>2
  <2> QED BY <2>7, <2>9
<1>5. \/ /\ lastJob' = lastJob /\ Written(Erasing(j)) /\ Erasing(j) \in Seq(GoodHousehold)
         /\ Len(Erasing(j)) = j
      \/ /\ lastJob' = IF Exists(flash'.jobs[j]) THEN j ELSE lastJob
         /\ \E job \in GoodJob :
              /\ Written(Saving(j, job)) /\ Saving(j, job) \in Seq(GoodHousehold)
              /\ Len(Saving(j, job)) = j + 1
  BY SchedulePostWrites
<1> QED BY <1>3, <1>4, <1>5

\* load_scheduled moves the jobs on as far as its last repair.
LEMMA LoadToMoves ==
  ASSUME flash \in GoodHousehold, NEW c, NEW n
  PROVE  MovesOn(flash, LoadTo(c), n)
<1> DEFINE s == [flash EXCEPT !.posts = {p \in @ : Live(flash, p[1])}]
<1>1. s.jobs = flash.jobs /\ s.bridge = flash.bridge /\ s \in GoodHousehold
  BY DEF GoodHousehold, Household
<1>2. /\ \A j \in Job : LoadTo(c).jobs[j] = IF j < c THEN RepairJob(s, j) ELSE s.jobs[j]
      /\ LoadTo(c).bridge = s.bridge
  BY <1>1 DEF LoadTo, GoodHousehold, Household
<1>3. ASSUME NEW j \in Job PROVE Follows(flash.jobs[j], RepairJob(s, j))
  <2> DEFINE job    == flash.jobs[j]
             closed == IF Exists(job) /\ ~Live(s, j) /\ ~job.cancelled
                       THEN CancelledFor(job) ELSE job
             done   == [closed EXCEPT !.done = TRUE]
  <2>1. job \in GoodJob /\ job \in Scheduled
    BY GoodJobs, JobsTyped
  <2>2. closed \in Scheduled /\ Follows(job, closed)
    <3>1. ~job.cancelled => CancelledFor(job) \in Scheduled
      BY <2>1, CancelledForGood DEF GoodJob
    <3>2. CancelledFor(job).revision = job.revision + 1
      BY <2>1 DEF CancelledFor, Scheduled
    <3> QED BY <2>1, <3>1, <3>2, FollowsItself, FollowsRevised
  <2>3. RepairJob(s, j) = IF Exists(job) /\ HasPost(s, j) THEN done ELSE closed
    BY <1>1 DEF RepairJob
  <2> HIDE DEF closed, job
  <2>4. done \in Scheduled /\ Follows(closed, done)
    <3>1. /\ done \in Scheduled /\ done.revision = closed.revision /\ done.at = closed.at
          /\ done.cancelled = closed.cancelled /\ done.done
      BY <2>2 DEF Scheduled
    <3> QED BY <2>2, <3>1, Bounds DEF Scheduled, Follows, Exists, Over
  <2>5. Follows(job, done)
    BY <2>1, <2>2, <2>4, FollowsOn
  <2> QED BY <2>2, <2>3, <2>5 DEF job
<1> QED BY <1>1, <1>2, <1>3, JobsTyped, FollowsItself DEF MovesOn

-----------------------------------------------------------------------------
(***************************************************************************)
(* Every step moves the store on.                                          *)
(***************************************************************************)
StoreStep ==
  /\ lastJob <= lastJob'
  /\ JobsIssued' /\ Behind'
  /\ \A j \in Job : j <= lastJob => Follows(flash.jobs[j], flash'.jobs[j])
  /\ mode' # "down" => IF mode = "down" THEN ram' = flash'
                       ELSE /\ \A j \in Job : j <= lastJob => Follows(ram.jobs[j], ram'.jobs[j])
                            /\ ram'.bridge = ram.bridge \/ acked' = {}

LEMMA StillStep ==
  ASSUME TypeOK, JobsIssued, Behind, UNCHANGED <<flash.jobs, ram.jobs, lastJob>>,
         mode' # "down" => mode # "down" /\ (ram'.bridge = ram.bridge \/ acked' = {})
  PROVE  StoreStep
<1>1. \A j \in Job : flash.jobs[j] \in Scheduled /\ ram.jobs[j] \in Scheduled
  BY TypeParts, JobsTyped DEF StoreOK
<1>2. lastJob \in Nat
  BY Bounds DEF TypeOK
<1>3. \A j \in Job : Follows(flash.jobs[j], flash.jobs[j]) /\ Follows(ram.jobs[j], ram.jobs[j])
  BY <1>1, FollowsItself
<1> QED BY <1>2, <1>3 DEF StoreStep, JobsIssued, Behind

LEMMA MovedStep ==
  ASSUME TypeOK, JobsIssued, Moved(0), lastJob' = lastJob
  PROVE  StoreStep
<1>1. \A j \in Job : j # 0
  BY Bounds DEF Job
<1>2. lastJob \in Nat
  BY Bounds DEF TypeOK
<1>3. \A j \in Job : /\ Follows(flash.jobs[j], flash'.jobs[j]) /\ Follows(ram.jobs[j], ram'.jobs[j])
                     /\ Follows(ram'.jobs[j], flash'.jobs[j])
  BY <1>1 DEF Moved, MovesOn
<1>4. mode = "up" /\ ram'.bridge = ram.bridge
  BY DEF Moved, MovesOn
<1> QED BY <1>2, <1>3, <1>4 DEF StoreStep, JobsIssued, Behind, Follows

LEMMA SchedulePostStep ==
  ASSUME TypeOK, TypeOK', JobsIssued, NEW at \in Time, SchedulePost(at)
  PROVE  StoreStep
<1> DEFINE n == lastJob + 1
<1>1. /\ lastJob \in Nat /\ \A j \in Job : j \in Nat
      /\ \A j \in Job : flash'.jobs[j] \in Scheduled
  BY Bounds, NextTypeParts, JobsTyped DEF TypeOK, Job, StoreOK
<1>2. CASE Moved(0) /\ lastJob' = lastJob
  BY <1>2, MovedStep
<1>3. CASE /\ Moved(n) /\ lastJob' = IF Exists(flash'.jobs[n]) THEN n ELSE lastJob
           /\ Exists(ram'.jobs[n]) => ram' = flash'
  <2>1. \A j \in Job : j # n =>
          /\ Follows(flash.jobs[j], flash'.jobs[j]) /\ Follows(ram.jobs[j], ram'.jobs[j])
          /\ Follows(ram'.jobs[j], flash'.jobs[j])
    BY <1>3 DEF Moved, MovesOn
  <2>2. /\ mode = "up" /\ lastJob <= lastJob' /\ \A j \in Job : j <= lastJob => j # n
        /\ ram'.bridge = ram.bridge
    BY <1>1, <1>3 DEF Moved, MovesOn
  <2>3. JobsIssued'
    BY <1>1, <1>3, <2>1, <2>2 DEF JobsIssued, Follows
  <2>4. Behind'
    BY <1>1, <1>3, <2>1, FollowsItself DEF Behind
  <2> QED BY <2>1, <2>2, <2>3, <2>4 DEF StoreStep
<1> QED BY <1>2, <1>3, SchedulePostMoves

\* set_scheduler forgets what the earlier bots board has acknowledged.
LEMMA SetSchedulerStep ==
  ASSUME TypeOK, JobsIssued, Behind, NEW b \in Bots, SetScheduler(b)
  PROVE  StoreStep
<1> DEFINE s == [ram EXCEPT !.bridge = b]
<1>1. ram \in GoodHousehold /\ s \in GoodHousehold /\ s.jobs = ram.jobs
  BY TypeParts DEF StoreOK, GoodHousehold, Household
<1>2. PICK answer \in Answer :
        /\ Write(<<ram, s>>, 200, answer)
        /\ acked' = IF answer = 200 THEN {} ELSE acked
  BY DEF SetScheduler
<1> HIDE DEF s
<1>3. /\ mode = "up" /\ ram = flash /\ lastJob' = lastJob
      /\ ram' \in {ram, s} /\ flash' \in {ram, s}
      /\ answer # 200 => ram' = ram
  BY <1>2 DEF Write, WriteAll, WriteFull, WriteBreaks, TypeOK, SetScheduler
<1>4. UNCHANGED <<flash.jobs, ram.jobs, lastJob>>
  BY <1>1, <1>3
<1> QED BY <1>2, <1>3, <1>4, StillStep

LEMMA BootStep ==
  ASSUME TypeOK, TypeOK', JobsIssued, Behind, Boot \/ BootFails
  PROVE  StoreStep
<1>1. /\ mode = "down" /\ lastJob' = lastJob /\ lastJob \in Nat
      /\ mode' # "down" => ram' = flash' /\ \E c : flash' = LoadTo(c)
  BY Bounds DEF Boot, BootFails, TypeOK
<1>2. MovesOn(flash, flash', 0) /\ \A j \in Job : j # 0
  BY TypeParts, LoadToMoves, Bounds DEF Boot, BootFails, StoreOK, Job
<1>3. \A j \in Job : Follows(flash.jobs[j], flash'.jobs[j])
  BY <1>2 DEF MovesOn
<1>4. \A j \in Job : flash'.jobs[j] \in Scheduled
  BY NextTypeParts, JobsTyped DEF StoreOK
<1>5. JobsIssued'
  BY <1>1, <1>3 DEF JobsIssued, Follows
<1>6. Behind'
  BY <1>1, <1>4, FollowsItself DEF Behind
<1> QED BY <1>1, <1>3, <1>5, <1>6 DEF StoreStep

LEMMA StoreMovesOn ==
  ASSUME TypeOK, JobsIssued, Behind, [Next]_vars
  PROVE  StoreStep
<1>1. TypeOK'
  BY NextType
<1>2. CASE Member
  <2>1. ASSUME NEW at \in Time, SchedulePost(at) PROVE StoreStep
    BY <1>1, <2>1, SchedulePostStep
  <2>2. ASSUME NEW j \in Job, Cancel(j) PROVE StoreStep
    BY <2>2, CancelMoves, MovedStep DEF Cancel, SaveChange
  <2>3. ASSUME NEW j \in Job, NEW at \in Time, Reschedule(j, at) PROVE StoreStep
    BY <2>3, RescheduleMoves, MovedStep DEF Reschedule, SaveChange
  <2>4. ASSUME NEW j \in Job, NEW r \in Revision, RemoveStatus(j, r) PROVE StoreStep
    BY <2>4, OthersMove, MovedStep DEF RemoveStatus
  <2> QED BY <1>2, <2>1, <2>2, <2>3, <2>4 DEF Member
<1>3. CASE Admin
  <2>1. ASSUME NEW b \in Bots, SetScheduler(b) PROVE StoreStep
    BY <2>1, SetSchedulerStep
  <2>2. ASSUME NEW a \in Account, DeleteAccount(a) PROVE StoreStep
    BY <2>2, DeleteAccountMoves, MovedStep DEF DeleteAccount
  <2>3. ASSUME NEW a \in Account, NEW s \in AccountState, ChangeAuthor(a, s) PROVE StoreStep
    BY <2>3, OthersMove, MovedStep DEF ChangeAuthor
  <2> QED BY <1>3, <2>1, <2>2, <2>3 DEF Admin
<1>4. ASSUME NEW j \in Job, NEW r \in Revision, NEW answer \in Answer,
             PublishScheduled(j, r, answer), lastJob' = lastJob
      PROVE  StoreStep
  BY <1>4, PublishMoves, StillStep, MovedStep
<1>5. CASE \E b \in Bots : ServeCallback(b)
  <2>1. PICK b \in Bots : ServeCallback(b)
    BY <1>5
  <2>2. callback[b].id \in Job /\ callback[b].revision \in Revision
    BY <2>1, TypeParts, CallbackType DEF ServeCallback
  <2> QED BY <1>4, <2>1, <2>2 DEF ServeCallback
<1>6. CASE \E m \in late : ServeLate(m)
  <2>1. PICK m \in late : ServeLate(m)
    BY <1>6
  <2>2. /\ lastJob' = lastJob
        /\ m.kind = "callback" => m.body.id \in Job /\ m.body.revision \in Revision
    BY <2>1 DEF TypeOK, ServeLate
  <2>3. CASE UNCHANGED <<flash, ram, mode>>
    BY <2>2, <2>3, StillStep
  <2>4. CASE m.kind = "callback" /\ \E answer \in Answer :
               PublishScheduled(m.body.id, m.body.revision, answer)
    BY <1>4, <2>2, <2>4
  <2> QED BY <2>1, <2>3, <2>4 DEF ServeLate
<1>7. CASE Boot \/ BootFails
  BY <1>1, <1>7, BootStep
<1>8. CASE PowerCut
  BY <1>8, StillStep DEF PowerCut
<1>9. CASE /\ UNCHANGED <<flash, ram, lastJob>> /\ mode' = mode
  BY <1>9, StillStep
<1>10. StartHandoff \/ EndHandoff \/ ServeHandoff \/ LoseHandoff \/ ClockTick \/ UNCHANGED vars =>
         UNCHANGED <<flash, ram, mode, lastJob>>
  BY DEF StartHandoff, EndHandoff, ServeHandoff, LoseHandoff, ClockTick, vars
<1>11. \A b \in Bots : Board(b) \/ LoseCallback(b) \/ UnreachableCallback(b) =>
         UNCHANGED <<flash, ram, mode, lastJob>>
  BY DEF Board, Tick, SendCallback, EndCallback, RetryDue, BotsRestart, LoseCallback,
         UnreachableCallback
<1> QED BY <1>2, <1>3, <1>5, <1>6, <1>7, <1>8, <1>9, <1>10, <1>11 DEF Next, Network, Mastomini

-----------------------------------------------------------------------------
(***************************************************************************)
(* The messages: handoffs under way, timers, callbacks.  Each says what    *)
(* was once stored of its job.                                             *)
(***************************************************************************)
\* t names job x as it is, or an earlier revision of it.
InTime(t, x) ==
  Exists(x) => t.revision <= x.revision /\ (t.revision = x.revision => t.at = x.at)

\* The same of a handoff, which may say that the job is cancelled.
Told(m, x) ==
  InTime(m, x) /\ (Exists(x) /\ m.revision = x.revision /\ m.cancelled => x.cancelled)

\* A callback names a revision only.
Asked(c, x) == Exists(x) => c.revision <= x.revision

\* The handoffs under way: the one in progress and the abandoned ones.
Heard == {x.body : x \in {y \in late : y.kind = "handoff"}}
           \cup (IF call = NoCall THEN {} ELSE {MessageOf(call)})

Handed(j) == [id |-> j, revision |-> ram.jobs[j].revision, at |-> ram.jobs[j].at,
              cancelled |-> ram.jobs[j].cancelled]

TimerOf(m) == [id |-> m.id, revision |-> m.revision, at |-> m.at]

\* Where the messages after a step come from.
MessageStep ==
  /\ \A m \in Heard' : \/ m \in Heard
                       \/ mode # "down" /\ \E j \in Job : Exists(ram.jobs[j]) /\ m = Handed(j)
  /\ \A b \in Bots :
       /\ \A t \in timers'[b] : t \in timers[b] \/ \E m \in Heard : t = TimerOf(m)
       /\ todo'[b] \subseteq todo[b] \cup timers[b]
       /\ callback'[b] # NoCallback =>
            \/ /\ callback[b] # NoCallback /\ callback'[b].id = callback[b].id
               /\ callback'[b].revision = callback[b].revision
            \/ \E t \in todo[b] : callback'[b].id = t.id /\ callback'[b].revision = t.revision

\* receive adds no timer but the one it is sent.
LEMMA ReceiveAdds ==
  ASSUME timers \in [Bots -> SUBSET Timer], NEW b \in Bots, NEW m \in Handoff, NEW reply,
         Receive(b, m, reply)
  PROVE  /\ \A i \in Bots \ {b} : timers'[i] = timers[i]
         /\ \A t \in timers'[b] : t \in timers[b] \/ t = TimerOf(m)
  BY DEF Receive, TimerOf

LEMMA MessagesStay ==
  ASSUME TypeOK, UNCHANGED <<timers, todo, callback>>,
         late' = late, call' \in {call, NoCall}
  PROVE  MessageStep
  BY DEF MessageStep, Heard

LEMMA ServeLateMessages ==
  ASSUME TypeOK, NEW m \in late, ServeLate(m)
  PROVE  MessageStep
<1>1. /\ late' \subseteq late /\ UNCHANGED <<call, todo, callback>>
      /\ timers \in [Bots -> SUBSET Timer]
  BY DEF ServeLate, TypeOK
<1>2. Heard' \subseteq Heard
  BY <1>1 DEF Heard
<1>3. CASE timers' = timers
  BY <1>1, <1>2, <1>3 DEF MessageStep
<1>4. CASE m.kind = "handoff" /\ \E reply \in {"ok", "err"} : Receive(m.to, m.body, reply)
  <2>1. m.to \in Bots /\ m.body \in Handoff
    BY <1>4 DEF TypeOK
  <2>2. m.body \in Heard
    BY <1>4 DEF Heard
  <2>3. \A b \in Bots : \A t \in timers'[b] : t \in timers[b] \/ t = TimerOf(m.body)
    BY <1>1, <1>4, <2>1, ReceiveAdds
  <2> QED BY <1>1, <1>2, <2>2, <2>3 DEF MessageStep
<1> QED BY <1>3, <1>4 DEF ServeLate

LEMMA HandoffMessages ==
  ASSUME TypeOK, StartHandoff \/ ServeHandoff \/ LoseHandoff
  PROVE  MessageStep
<1>1. RestOK
  BY TypeParts
<1>2. CASE StartHandoff
  <2>1. PICK j \in Job :
          /\ NextHandoff(j)
          /\ call' = [to |-> ram.bridge, id |-> j, reply |-> "none",
                      revision |-> ram.jobs[j].revision, at |-> ram.jobs[j].at,
                      cancelled |-> ram.jobs[j].cancelled]
    BY <1>2 DEF StartHandoff
  <2>2. Exists(ram.jobs[j]) /\ mode # "down" /\ UNCHANGED <<timers, todo, callback, late>>
    BY <1>2, <2>1 DEF StartHandoff, NextHandoff, Pending, boardVars
  <2>3. MessageOf(call') = Handed(j)
    BY <2>1 DEF MessageOf, Handed
  <2>4. \A m \in Heard' : m \in Heard \/ m = MessageOf(call')
    BY <2>2 DEF Heard
  <2> QED BY <2>2, <2>3, <2>4 DEF MessageStep
<1>3. CASE ServeHandoff
  <2>1. PICK reply \in {"ok", "err"} :
          /\ Receive(call.to, MessageOf(call), reply)
          /\ call' = [call EXCEPT !.reply = reply]
    BY <1>3 DEF ServeHandoff
  <2>2. call # NoCall /\ UNCHANGED <<todo, callback, late>>
    BY <1>3 DEF ServeHandoff
  <2>3. call.to \in Bots /\ MessageOf(call) \in Handoff /\ MessageOf(call') = MessageOf(call)
    BY <1>1, <2>1, <2>2, CallType DEF MessageOf
  <2>4. \A b \in Bots : \A t \in timers'[b] : t \in timers[b] \/ t = TimerOf(MessageOf(call))
    BY <2>1, <2>3, ReceiveAdds DEF TypeOK
  <2>5. MessageOf(call) \in Heard
    BY <2>2 DEF Heard
  <2>6. \A m \in Heard' : m \in Heard \/ m = MessageOf(call')
    BY <2>2 DEF Heard
  <2> QED BY <2>2, <2>3, <2>4, <2>5, <2>6 DEF MessageStep
<1>4. CASE LoseHandoff
  <2>1. /\ call # NoCall /\ UNCHANGED <<timers, todo, callback>>
        /\ call' = [call EXCEPT !.reply = "err"]
        /\ \A m \in late' : m \in late \/ m.body = MessageOf(call)
    BY <1>4 DEF LoseHandoff, boardVars
  <2>2. MessageOf(call') = MessageOf(call)
    BY <1>1, <2>1, CallType DEF MessageOf
  <2>3. MessageOf(call) \in Heard
    BY <2>1 DEF Heard
  <2>4. \A m \in Heard' : m \in Heard
    BY <2>1, <2>2, <2>3 DEF Heard
  <2> QED BY <2>1, <2>4 DEF MessageStep
<1> QED BY <1>2, <1>3, <1>4

LEMMA BoardMessages ==
  ASSUME TypeOK, NEW b \in Bots,
         Board(b) \/ ServeCallback(b) \/ LoseCallback(b) \/ UnreachableCallback(b)
  PROVE  MessageStep
<1>1. /\ timers \in [Bots -> SUBSET Timer] /\ todo \in [Bots -> SUBSET Timer]
      /\ callback \in [Bots -> {NoCallback} \cup [id : Job, revision : Revision, answer : Answer]]
  BY DEF TypeOK
<1>2. CASE Tick(b)
  BY <1>1, <1>2 DEF Tick, MessageStep, Heard
<1>3. CASE SendCallback(b)
  <2>1. PICK t \in todo[b] :
          /\ callback' = [callback EXCEPT ![b] = [id |-> t.id, revision |-> t.revision,
                                                  answer |-> 0]]
          /\ todo' = [todo EXCEPT ![b] = @ \ {t}]
    BY <1>3 DEF SendCallback
  <2>2. Heard' = Heard /\ timers' = timers
    BY <1>3 DEF SendCallback, Heard
  <2>3. \A i \in Bots : i # b => callback'[i] = callback[i]
    BY <1>1, <2>1
  <2>4. callback'[b].id = t.id /\ callback'[b].revision = t.revision
    BY <1>1, <2>1
  <2>5. \A i \in Bots : todo'[i] \subseteq todo[i]
    BY <1>1, <2>1
  <2> QED BY <2>2, <2>3, <2>4, <2>5 DEF MessageStep
<1>4. CASE EndCallback(b) \/ RetryDue(b) \/ BotsRestart(b)
  <2>1. /\ Heard' = Heard
        /\ \A i \in Bots : todo'[i] \subseteq todo[i]
        /\ \A i \in Bots : callback'[i] \in {callback[i], NoCallback}
        /\ \A i \in Bots : timers'[i] \subseteq timers[i]
    BY <1>1, <1>4 DEF EndCallback, RetryDue, BotsRestart, Heard
  <2> QED BY <2>1 DEF MessageStep
<1>5. CASE ServeCallback(b) \/ LoseCallback(b) \/ UnreachableCallback(b)
  <2>1. PICK answer : callback' = [callback EXCEPT ![b].answer = answer]
    BY <1>5 DEF ServeCallback, LoseCallback, UnreachableCallback
  <2>2. /\ callback[b] # NoCallback /\ UNCHANGED <<timers, todo, call>>
        /\ \A m \in late' : m \in late \/ m.kind = "callback"
    BY <1>5 DEF ServeCallback, LoseCallback, UnreachableCallback
  <2>3. \A i \in Bots : i # b => callback'[i] = callback[i]
    BY <1>1, <2>1
  <2>4. callback'[b].id = callback[b].id /\ callback'[b].revision = callback[b].revision
    BY <1>1, <2>1, <2>2
  <2>5. Heard' \subseteq Heard
    BY <2>2 DEF Heard
  <2> QED BY <2>2, <2>3, <2>4, <2>5 DEF MessageStep
<1> QED BY <1>2, <1>3, <1>4, <1>5 DEF Board

LEMMA MessagesMoveOn ==
  ASSUME TypeOK, [Next]_vars
  PROVE  MessageStep
<1>1. CASE Member \/ Admin \/ Boot \/ BootFails \/ PowerCut \/ EndHandoff \/ ClockTick
           \/ UNCHANGED vars
  BY <1>1, MessagesStay
  DEF Member, Admin, SchedulePost, Cancel, Reschedule, SaveChange, RemoveStatus, SetScheduler,
      DeleteAccount, ChangeAuthor, Boot, BootFails, PowerCut, EndHandoff, ClockTick, vars, boardVars
<1>2. CASE Network
  BY <1>2, HandoffMessages, BoardMessages, ServeLateMessages DEF Network
<1> QED BY <1>1, <1>2, HandoffMessages, BoardMessages DEF Next, Mastomini

-----------------------------------------------------------------------------
(***************************************************************************)
(* The invariant: no message is ahead of the store, on flash or in RAM.    *)
(***************************************************************************)
Known ==
  /\ \A m \in Heard : /\ m.id <= lastJob /\ Told(m, flash.jobs[m.id])
                      /\ mode # "down" => Told(m, ram.jobs[m.id])
  /\ \A b \in Bots :
       /\ \A t \in timers[b] \cup todo[b] : /\ t.id <= lastJob /\ InTime(t, flash.jobs[t.id])
                                            /\ mode # "down" => InTime(t, ram.jobs[t.id])
       /\ callback[b] # NoCallback =>
            /\ callback[b].id <= lastJob
            /\ Asked(callback[b], flash.jobs[callback[b].id])
            /\ mode # "down" => Asked(callback[b], ram.jobs[callback[b].id])

KnownInv == TypeOK /\ JobsIssued /\ Behind /\ Known

LEMMA ToldOn ==
  ASSUME NEW m \in Handoff, NEW x \in Scheduled, NEW y \in Scheduled, Follows(x, y), Told(m, x)
  PROVE  Told(m, y)
<1>1. m.revision \in Nat /\ x.revision \in Nat /\ y.revision \in Nat
  BY Bounds DEF Handoff, Scheduled, Revision
<1> QED BY <1>1 DEF Told, InTime, Follows

LEMMA InTimeOn ==
  ASSUME NEW t \in Timer, NEW x \in Scheduled, NEW y \in Scheduled, Follows(x, y), InTime(t, x)
  PROVE  InTime(t, y)
<1>1. t.revision \in Nat /\ x.revision \in Nat /\ y.revision \in Nat
  BY Bounds DEF Timer, Scheduled, Revision
<1> QED BY <1>1 DEF InTime, Follows

LEMMA AskedOn ==
  ASSUME NEW c, c.revision \in Revision, NEW x \in Scheduled, NEW y \in Scheduled,
         Follows(x, y), Asked(c, x)
  PROVE  Asked(c, y)
<1>1. c.revision \in Nat /\ x.revision \in Nat /\ y.revision \in Nat
  BY Bounds DEF Scheduled, Revision
<1> QED BY <1>1 DEF Asked, Follows

LEMMA StoredJobs ==
  ASSUME TypeOK
  PROVE  /\ \A j \in Job : flash.jobs[j] \in Scheduled /\ ram.jobs[j] \in Scheduled
         /\ lastJob \in Nat /\ \A j \in Job : j \in Nat
  BY TypeParts, JobsTyped, Bounds DEF StoreOK, RestOK, Job

LEMMA HeardTyped ==
  ASSUME TypeOK
  PROVE  Heard \subseteq Handoff
<1>1. call # NoCall => MessageOf(call) \in Handoff
  BY TypeParts, CallType
<1> QED BY <1>1 DEF TypeOK, Heard

LEMMA InitKnown == Init => KnownInv
<1> SUFFICES ASSUME Init PROVE KnownInv
  OBVIOUS
<1>1. TypeOK
  BY InitType
<1>2. \A j \in Job : flash.jobs[j] = NoJob
  BY DEF Init
<1>3. JobsIssued /\ Behind
  BY <1>2 DEF Init, JobsIssued, Behind, Exists, NoJob
<1>4. Known
  BY DEF Init, Known, Heard
<1> QED BY <1>1, <1>3, <1>4 DEF KnownInv

LEMMA NextKnown == KnownInv /\ [Next]_vars => KnownInv'
<1> SUFFICES ASSUME KnownInv, [Next]_vars PROVE KnownInv'
  OBVIOUS
<1>1. TypeOK /\ JobsIssued /\ Behind /\ Known /\ TypeOK'
  BY NextType DEF KnownInv
<1>2. StoreStep /\ MessageStep
  BY <1>1, StoreMovesOn, MessagesMoveOn
<1>3. /\ \A j \in Job : flash.jobs[j] \in Scheduled /\ ram.jobs[j] \in Scheduled
      /\ lastJob \in Nat /\ \A j \in Job : j \in Nat
  BY <1>1, StoredJobs
<1>4. /\ \A j \in Job : flash'.jobs[j] \in Scheduled /\ ram'.jobs[j] \in Scheduled
      /\ lastJob' \in Nat /\ lastJob <= lastJob'
  BY <1>1, <1>2, NextTypeParts, JobsTyped, Bounds DEF StoreOK, RestOK, StoreStep
<1>5. \A m \in Heard' : m \in Handoff /\ m.id \in Job
  <2>1. call' # NoCall => MessageOf(call') \in Handoff
    BY <1>1 DEF TypeOK, MessageOf, Handoff
  <2>2. \A m \in late' : m.kind = "handoff" => m.body \in Handoff
    BY <1>1 DEF TypeOK
  <2> QED BY <2>1, <2>2 DEF Heard, Handoff
<1>6. ASSUME NEW m \in Heard'
      PROVE  /\ m.id <= lastJob' /\ Told(m, flash'.jobs[m.id])
             /\ mode' # "down" => Told(m, ram'.jobs[m.id])
  <2>1. m \in Handoff /\ m.id \in Job
    BY <1>5
  <2>2. /\ m.id <= lastJob /\ Told(m, flash.jobs[m.id])
        /\ mode # "down" => Told(m, ram.jobs[m.id])
    <3>1. CASE m \in Heard
      BY <1>1, <3>1 DEF Known
    <3>2. ASSUME NEW j \in Job, mode # "down", Exists(ram.jobs[j]), m = Handed(j)
          PROVE  m.id <= lastJob /\ Told(m, flash.jobs[m.id]) /\ Told(m, ram.jobs[m.id])
      <4>1. m.id = j /\ j <= lastJob /\ Follows(ram.jobs[j], flash.jobs[j])
        BY <1>1, <3>2 DEF JobsIssued, Behind, Handed
      <4>2. Told(m, ram.jobs[j])
        BY <1>3, <3>2, Bounds DEF Handed, Told, InTime, Scheduled
      <4> QED BY <1>3, <2>1, <4>1, <4>2, ToldOn
    <3> QED BY <1>2, <3>1, <3>2 DEF MessageStep
  <2>3. m.id <= lastJob'
    BY <1>3, <1>4, <2>1, <2>2
  <2>4. Told(m, flash'.jobs[m.id])
    BY <1>2, <1>3, <1>4, <2>1, <2>2, ToldOn DEF StoreStep
  <2>5. ASSUME mode' # "down" PROVE Told(m, ram'.jobs[m.id])
    BY <1>2, <1>3, <1>4, <2>1, <2>2, <2>4, <2>5, ToldOn DEF StoreStep
  <2> QED BY <2>3, <2>4, <2>5
<1>7. ASSUME NEW b \in Bots, NEW t \in timers'[b] \cup todo'[b]
      PROVE  /\ t.id <= lastJob' /\ InTime(t, flash'.jobs[t.id])
             /\ mode' # "down" => InTime(t, ram'.jobs[t.id])
  <2>1. t \in Timer /\ t.id \in Job
    <3>1. timers'[b] \cup todo'[b] \subseteq Timer
      BY <1>1 DEF TypeOK
    <3> QED BY <3>1 DEF Timer
  <2>2. /\ t.id <= lastJob /\ InTime(t, flash.jobs[t.id])
        /\ mode # "down" => InTime(t, ram.jobs[t.id])
    <3>1. CASE t \in timers[b] \cup todo[b]
      BY <1>1, <3>1 DEF Known
    <3>2. ASSUME NEW m \in Heard, t = TimerOf(m)
          PROVE  /\ t.id <= lastJob /\ InTime(t, flash.jobs[t.id])
                 /\ mode # "down" => InTime(t, ram.jobs[t.id])
      <4>1. /\ m.id <= lastJob /\ Told(m, flash.jobs[m.id])
            /\ mode # "down" => Told(m, ram.jobs[m.id])
        BY <1>1, <3>2 DEF Known
      <4> QED BY <3>2, <4>1 DEF Told, InTime, TimerOf
    <3>3. t \in timers[b] \cup todo[b] \/ \E m \in Heard : t = TimerOf(m)
      BY <1>2 DEF MessageStep
    <3> QED BY <3>1, <3>2, <3>3
  <2>3. t.id <= lastJob'
    BY <1>3, <1>4, <2>1, <2>2
  <2>4. InTime(t, flash'.jobs[t.id])
    BY <1>2, <1>3, <1>4, <2>1, <2>2, InTimeOn DEF StoreStep
  <2>5. ASSUME mode' # "down" PROVE InTime(t, ram'.jobs[t.id])
    BY <1>2, <1>3, <1>4, <2>1, <2>2, <2>4, <2>5, InTimeOn DEF StoreStep
  <2> QED BY <2>3, <2>4, <2>5
<1>8. ASSUME NEW b \in Bots, callback'[b] # NoCallback
      PROVE  /\ callback'[b].id <= lastJob'
             /\ Asked(callback'[b], flash'.jobs[callback'[b].id])
             /\ mode' # "down" => Asked(callback'[b], ram'.jobs[callback'[b].id])
  <2> DEFINE c == callback'[b]
  <2>1. c.id \in Job /\ c.revision \in Revision
    BY <1>1, <1>8 DEF TypeOK
  <2>2. /\ c.id <= lastJob /\ Asked(c, flash.jobs[c.id])
        /\ mode # "down" => Asked(c, ram.jobs[c.id])
    <3>1. CASE /\ callback[b] # NoCallback /\ c.id = callback[b].id
               /\ c.revision = callback[b].revision
      <4>1. /\ callback[b].id <= lastJob /\ Asked(callback[b], flash.jobs[callback[b].id])
            /\ mode # "down" => Asked(callback[b], ram.jobs[callback[b].id])
        BY <1>1, <3>1 DEF Known
      <4> QED BY <3>1, <4>1 DEF Asked
    <3>2. ASSUME NEW t \in todo[b], c.id = t.id, c.revision = t.revision
          PROVE  /\ c.id <= lastJob /\ Asked(c, flash.jobs[c.id])
                 /\ mode # "down" => Asked(c, ram.jobs[c.id])
      <4>1. /\ t.id <= lastJob /\ InTime(t, flash.jobs[t.id])
            /\ mode # "down" => InTime(t, ram.jobs[t.id])
        BY <1>1, <3>2 DEF Known
      <4> QED BY <3>2, <4>1 DEF InTime, Asked
    <3> QED BY <1>2, <1>8, <3>1, <3>2 DEF MessageStep
  <2> HIDE DEF c
  <2>3. c.id <= lastJob'
    BY <1>3, <1>4, <2>1, <2>2
  <2>4. Asked(c, flash'.jobs[c.id])
    BY <1>2, <1>3, <1>4, <2>1, <2>2, AskedOn DEF StoreStep
  <2>5. ASSUME mode' # "down" PROVE Asked(c, ram'.jobs[c.id])
    BY <1>2, <1>3, <1>4, <2>1, <2>2, <2>4, <2>5, AskedOn DEF StoreStep
  <2> QED BY <2>3, <2>4, <2>5 DEF c
<1>9. Known'
  BY <1>6, <1>7, <1>8 DEF Known
<1> QED BY <1>1, <1>2, <1>9 DEF KnownInv, StoreStep

LEMMA KnownHolds == Spec => []KnownInv
  BY InitKnown, NextKnown, PTL DEF Spec

\* receive's 409 for another time under the same revision is never the stored
\* job's, whatever power cuts do to the saving of a change.
THEOREM RevisionsFixed == Spec => []RevisionFixesTime
<1>1. KnownInv => RevisionFixesTime
  <2> SUFFICES ASSUME KnownInv PROVE RevisionFixesTime
    OBVIOUS
  <2> DEFINE held  == UNION {timers[b] : b \in Bots}
             left  == {x.body : x \in {y \in late : y.kind = "handoff"}}
             mine  == IF call = NoCall THEN {} ELSE {MessageOf(call)}
             known == held \cup left \cup mine
  <2>1. \A w \in held : \E b \in Bots : w \in timers[b]
    OBVIOUS
  <2>2. Heard = left \cup mine
    BY DEF Heard
  <2> HIDE DEF held, left, mine
  <2>3. ASSUME NEW j \in Job, NEW m \in known, m.id = j, Exists(flash.jobs[j])
        PROVE  /\ m.revision <= flash.jobs[j].revision
               /\ m.revision = flash.jobs[j].revision => m.at = flash.jobs[j].at
    <3>1. m \in Heard \/ \E b \in Bots : m \in timers[b]
      BY <2>1, <2>2
    <3> QED BY <2>3, <3>1 DEF KnownInv, Known, Told, InTime
  <2> HIDE DEF known
  <2>4. \A j \in Job : \A m \in known : m.id = j /\ Exists(flash.jobs[j]) =>
          /\ m.revision <= flash.jobs[j].revision
          /\ m.revision = flash.jobs[j].revision => m.at = flash.jobs[j].at
    BY <2>3
  <2> QED BY <2>4 DEF RevisionFixesTime, known, held, left, mine
<1> QED BY <1>1, KnownHolds, PTL

-----------------------------------------------------------------------------
(***************************************************************************)
(* What an acknowledgement is worth.  A timer of an open job stays with    *)
(* its board: no handoff replaces it and no answer drops it.  This takes a *)
(* flash that is never full: publish_scheduled then answers 422, which the *)
(* bots board takes for the end of the job.                                *)
(***************************************************************************)
StillOpen(x) == Exists(x) /\ ~Over(x)

\* Nothing is left to publish of revision r.
Dead(x, r) == Exists(x) => x.revision > r \/ Over(x)

TimerFor(j, x) == [id |-> j, revision |-> x.revision, at |-> x.at]

\* A callback is answered for good only when its revision is over.
Answered ==
  \A b \in Bots : callback[b].answer \in Terminal =>
    /\ Dead(flash.jobs[callback[b].id], callback[b].revision)
    /\ mode # "down" => Dead(ram.jobs[callback[b].id], callback[b].revision)

\* A board that has accepted a handoff holds its timer.
Replied ==
  mode # "down" /\ call # NoCall /\ call.reply = "ok" =>
    LET x == ram.jobs[call.id]
    IN  StillOpen(x) /\ x.revision = call.revision => TimerFor(call.id, x) \in timers[call.to]

\* What is acknowledged was handed to the board that is paired.
Acks ==
  mode # "down" => \A a \in acked :
    /\ a[1] <= lastJob /\ ram.bridge \in Bots
    /\ Exists(ram.jobs[a[1]]) => a[2] <= ram.jobs[a[1]].revision

HeldInv == AckedIsHeld /\ Answered /\ Replied /\ Acks

LEMMA ReceiveKeeps ==
  ASSUME timers \in [Bots -> SUBSET Timer], NEW b \in Bots, NEW m \in Handoff, NEW reply,
         Receive(b, m, reply), NEW j \in Job, NEW x \in Scheduled, StillOpen(x),
         m.id = j => Told(m, x), NEW i \in Bots, TimerFor(j, x) \in timers[i]
  PROVE  TimerFor(j, x) \in timers'[i]
<1> DEFINE t == TimerFor(j, x)
           old == {u \in timers[b] : u.id = m.id}
           added == IF m.cancelled THEN {}
                    ELSE {[id |-> m.id, revision |-> m.revision, at |-> m.at]}
<1>1. CASE timers' = timers
  BY <1>1
<1>2. CASE /\ timers' = [timers EXCEPT ![b] = (timers[b] \ old) \cup added]
           /\ ~\E u \in old : \/ u.revision > m.revision
                              \/ u.revision = m.revision /\ u.at # m.at
  <2>1. t.id = j /\ t.revision = x.revision /\ t.at = x.at /\ x.revision \in Nat
        /\ m.revision \in Nat
    BY Bounds DEF TimerFor, Scheduled, Handoff, Revision
  <2>2. CASE m.id = j /\ i = b
    <3>1. t \in old
      BY <2>1, <2>2
    <3>2. ~(t.revision > m.revision) /\ (t.revision = m.revision => t.at = m.at)
      BY <1>2, <3>1
    <3>3. m.revision <= x.revision /\ (m.revision = x.revision /\ m.cancelled => x.cancelled)
      BY <2>2 DEF Told, InTime, StillOpen
    <3>4. m.revision = x.revision /\ m.at = x.at /\ ~m.cancelled
      BY <2>1, <3>2, <3>3 DEF StillOpen, Over
    <3>5. t \in added
      BY <2>2, <3>4 DEF TimerFor
    <3> HIDE DEF added, old, t
    <3> QED BY <1>2, <2>2, <3>5 DEF t
  <2>3. CASE m.id # j \/ i # b
    <3>1. i = b => t \notin old
      BY <2>1, <2>3
    <3> HIDE DEF added, old
    <3> QED BY <1>2, <3>1
  <2> QED BY <2>2, <2>3
<1> QED BY <1>1, <1>2 DEF Receive

\* Timers change in receive and at the end of a callback.
LEMMA TimersChange ==
  ASSUME TypeOK, [Next]_vars
  PROVE  \/ timers' = timers
         \/ \E b \in Bots, m \in Heard, reply \in {"ok", "err"} : Receive(b, m, reply)
         \/ \E b \in Bots : /\ callback[b] # NoCallback /\ callback[b].answer \in Terminal
                            /\ timers' = [timers EXCEPT ![b] =
                                 @ \ {t \in @ : /\ t.id = callback[b].id
                                                /\ t.revision = callback[b].revision}]
<1>1. CASE Member \/ Admin \/ Mastomini \/ ClockTick \/ UNCHANGED vars
  BY <1>1
  DEF Member, Admin, Mastomini, SchedulePost, Cancel, Reschedule, SaveChange, RemoveStatus,
      SetScheduler, DeleteAccount, ChangeAuthor, Boot, BootFails, PowerCut, StartHandoff,
      EndHandoff, ClockTick, vars, boardVars
<1>2. CASE ServeHandoff
  <2>1. call # NoCall /\ \E reply \in {"ok", "err"} : Receive(call.to, MessageOf(call), reply)
    BY <1>2 DEF ServeHandoff
  <2>2. call.to \in Bots /\ MessageOf(call) \in Heard
    BY <2>1 DEF TypeOK, Heard
  <2> QED BY <2>1, <2>2
<1>3. ASSUME NEW m \in late, ServeLate(m)
      PROVE  timers' = timers
             \/ \E b \in Bots, w \in Heard, reply \in {"ok", "err"} : Receive(b, w, reply)
  <2>1. CASE m.kind = "handoff" /\ \E reply \in {"ok", "err"} : Receive(m.to, m.body, reply)
    <3>1. m.to \in Bots
      BY <2>1 DEF TypeOK
    <3>2. m.body \in Heard
      BY <2>1 DEF Heard
    <3> QED BY <2>1, <3>1, <3>2
  <2> QED BY <1>3, <2>1 DEF ServeLate
<1>4. ASSUME NEW b \in Bots, Board(b)
      PROVE  \/ timers' = timers
             \/ /\ callback[b] # NoCallback /\ callback[b].answer \in Terminal
                /\ timers' = [timers EXCEPT ![b] =
                     @ \ {t \in @ : /\ t.id = callback[b].id
                                    /\ t.revision = callback[b].revision}]
  BY <1>4 DEF Board, Tick, SendCallback, EndCallback, RetryDue, BotsRestart
<1>5. CASE LoseHandoff
           \/ \E b \in Bots : ServeCallback(b) \/ LoseCallback(b) \/ UnreachableCallback(b)
  BY <1>5 DEF LoseHandoff, ServeCallback, LoseCallback, UnreachableCallback, boardVars
<1> QED BY <1>1, <1>2, <1>3, <1>4, <1>5 DEF Next, Network

LEMMA TimerStays ==
  ASSUME KnownInv, Answered, [Next]_vars, mode # "down", NEW j \in Job,
         StillOpen(ram.jobs[j]), NEW i \in Bots, TimerFor(j, ram.jobs[j]) \in timers[i]
  PROVE  TimerFor(j, ram.jobs[j]) \in timers'[i]
<1>1. /\ TypeOK /\ Known /\ ram.jobs[j] \in Scheduled
      /\ timers \in [Bots -> SUBSET Timer]
  BY StoredJobs DEF KnownInv, TypeOK
<1>2. ASSUME NEW b \in Bots, NEW m \in Heard, NEW reply, Receive(b, m, reply)
      PROVE  TimerFor(j, ram.jobs[j]) \in timers'[i]
  <2>1. m \in Handoff /\ Told(m, ram.jobs[m.id])
    BY <1>1, HeardTyped DEF Known
  <2> QED BY <1>1, <1>2, <2>1, ReceiveKeeps
<1>3. ASSUME NEW b \in Bots, callback[b] # NoCallback, callback[b].answer \in Terminal,
             timers' = [timers EXCEPT ![b] = @ \ {t \in @ : /\ t.id = callback[b].id
                                                            /\ t.revision = callback[b].revision}]
      PROVE  TimerFor(j, ram.jobs[j]) \in timers'[i]
  <2>1. Dead(ram.jobs[callback[b].id], callback[b].revision)
    BY <1>3 DEF Answered
  <2>2. ~(j = callback[b].id /\ ram.jobs[j].revision = callback[b].revision)
    BY <1>1, <2>1, Bounds DEF Dead, StillOpen, Scheduled
  <2>3. TimerFor(j, ram.jobs[j]).id = j /\ TimerFor(j, ram.jobs[j]).revision = ram.jobs[j].revision
    BY DEF TimerFor
  <2> QED BY <1>1, <1>3, <2>2, <2>3
<1> QED BY <1>1, <1>2, <1>3, TimersChange

\* publish_scheduled answers for good when the revision is over.
LEMMA PublishAnswers ==
  ASSUME TypeOK, ~FullFaults, NEW j \in Job, NEW r \in Revision, NEW answer \in Terminal,
         PublishScheduled(j, r, answer), Exists(flash.jobs[j]) => r <= flash.jobs[j].revision
  PROVE  ram' = flash' /\ Dead(flash'.jobs[j], r)
<1> DEFINE job      == flash.jobs[j]
           failed   == [job EXCEPT !.failure = TRUE]
           reserved == IF job.target > 0 THEN job ELSE [job EXCEPT !.target = r]
           s1       == WithJob(ram, j, reserved)
           s2       == [s1 EXCEPT !.posts = @ \cup {<<j, reserved.target>>}]
           done     == [reserved EXCEPT !.done = TRUE]
           s3       == WithJob(s2, j, done)
           refused  == [reserved EXCEPT !.failure = TRUE]
           s4       == WithJob(s1, j, refused)
<1>2. job.revision \in Nat /\ r \in Nat
  BY StoredJobs, Bounds DEF Scheduled, Revision
<1>3. job \in Scheduled /\ Over(failed) /\ Over(done) /\ Over(refused)
  <2>1. job \in Scheduled
    BY StoredJobs
  <2>2. reserved \in Scheduled
    BY <2>1, Bounds DEF Scheduled, Revision
  <2> HIDE DEF reserved, job
  <2> QED BY <2>1, <2>2 DEF Scheduled, Over
<1>4. mode = "up" /\ answer \notin {0, 1, 429, 503}
  BY DEF PublishScheduled, Refuse, Terminal, Write
<1>5. ram = flash /\ ram \in GoodHousehold
  BY <1>4, TypeParts DEF TypeOK, StoreOK
<1>6. CASE ~Current(job, r) /\ UNCHANGED <<flash, ram>>
  BY <1>2, <1>5, <1>6 DEF Current, Dead, Over
<1>7. CASE Finished(job) /\ UNCHANGED <<flash, ram>>
  BY <1>5, <1>7 DEF Finished, Dead, Over
<1>8. \A x : WithJob(ram, j, x).jobs[j] = x
  BY <1>5 DEF WithJob, GoodHousehold, Household
<1>9. s3.jobs[j] = done /\ s4.jobs[j] = refused
  BY <1>5 DEF WithJob, GoodHousehold, Household
<1> HIDE DEF s3, s4, done, refused, failed
<1>10. CASE Write(<<ram, WithJob(ram, j, failed)>>, 200, answer)
  <2>1. ram' = flash' /\ flash' = WithJob(ram, j, failed)
    BY <1>4, <1>10 DEF Write, WriteAll, WriteFull
  <2> QED BY <1>3, <1>8, <2>1 DEF Dead
<1>11. CASE Write(<<ram, s1, s2, s3>>, 200, answer)
  <2>1. ram' = flash' /\ flash' = s3
    BY <1>4, <1>11 DEF Write, WriteAll, WriteFull
  <2> QED BY <1>3, <1>9, <2>1 DEF Dead
<1>12. CASE Write(<<ram, s1, s4>>, 200, answer)
  <2>1. ram' = flash' /\ flash' = s4
    BY <1>4, <1>12 DEF Write, WriteAll, WriteFull
  <2> QED BY <1>3, <1>9, <2>1 DEF Dead
<1> QED BY <1>4, <1>6, <1>7, <1>10, <1>11, <1>12
        DEF PublishScheduled, Refuse, Terminal, s3, s4, done, refused, failed

\* A call is answered by publish_scheduled, or fails.
LEMMA CallbackAnswers ==
  ASSUME TypeOK, [Next]_vars, NEW b \in Bots, callback'[b].answer \in Terminal
  PROVE  callback'[b] = callback[b] \/ ServeCallback(b)
<1>1. callback \in [Bots -> {NoCallback} \cup [id : Job, revision : Revision, answer : Answer]]
  BY DEF TypeOK
<1>2. NoCallback.answer \notin Terminal /\ 0 \notin Terminal /\ 1 \notin Terminal
  BY DEF NoCallback, Terminal
<1>3. ASSUME NEW i \in Bots, Board(i) \/ LoseCallback(i) \/ UnreachableCallback(i)
      PROVE  callback'[b] = callback[b]
  <2>1. \/ callback' = callback
        \/ callback' = [callback EXCEPT ![i] = NoCallback]
        \/ \E t \in todo[i] : callback' = [callback EXCEPT ![i] = [id |-> t.id,
                                               revision |-> t.revision, answer |-> 0]]
        \/ callback' = [callback EXCEPT ![i].answer = 1] /\ callback[i] # NoCallback
    BY <1>3 DEF Board, Tick, SendCallback, EndCallback, RetryDue, BotsRestart, LoseCallback,
                UnreachableCallback
  <2> QED BY <1>1, <1>2, <2>1
<1>4. ASSUME NEW i \in Bots, ServeCallback(i), i # b
      PROVE  callback'[b] = callback[b]
  BY <1>1, <1>4 DEF ServeCallback
<1>5. CASE Member \/ Admin \/ Mastomini \/ ClockTick \/ UNCHANGED vars
           \/ ServeHandoff \/ LoseHandoff \/ \E m \in late : ServeLate(m)
  BY <1>5
  DEF Member, Admin, Mastomini, SchedulePost, Cancel, Reschedule, SaveChange, RemoveStatus,
      SetScheduler, DeleteAccount, ChangeAuthor, Boot, BootFails, PowerCut, StartHandoff,
      EndHandoff, ClockTick, vars, boardVars, ServeHandoff, LoseHandoff, ServeLate
<1> QED BY <1>3, <1>4, <1>5 DEF Next, Network

LEMMA DeadOn ==
  ASSUME NEW x \in Scheduled, NEW y \in Scheduled, NEW r \in Revision,
         Follows(x, y), Exists(x) => r <= x.revision, Dead(x, r)
  PROVE  Dead(y, r)
<1>1. x.revision \in Nat /\ y.revision \in Nat /\ r \in Nat
  BY Bounds DEF Scheduled, Revision
<1> QED BY <1>1 DEF Dead, Follows

LEMMA NextAnswered ==
  ASSUME KnownInv, Answered, ~FullFaults, [Next]_vars
  PROVE  Answered'
<1>1. TypeOK /\ Known /\ KnownInv' /\ TypeOK' /\ StoreStep /\ JobsIssued /\ Behind
  BY NextKnown, StoreMovesOn DEF KnownInv
<1>2. /\ \A j \in Job : flash.jobs[j] \in Scheduled /\ ram.jobs[j] \in Scheduled
      /\ \A j \in Job : flash'.jobs[j] \in Scheduled /\ ram'.jobs[j] \in Scheduled
  BY <1>1, StoredJobs, NextTypeParts, JobsTyped DEF StoreOK
<1> SUFFICES ASSUME NEW b \in Bots, callback'[b].answer \in Terminal
             PROVE  /\ Dead(flash'.jobs[callback'[b].id], callback'[b].revision)
                    /\ mode' # "down" => Dead(ram'.jobs[callback'[b].id], callback'[b].revision)
  BY DEF Answered
<1>3. CASE callback'[b] = callback[b]
  <2> DEFINE c == callback[b]
  <2>1. callback[b] # NoCallback
    BY <1>3 DEF NoCallback, Terminal
  <2>2. /\ c.id \in Job /\ c.revision \in Revision
        /\ c.id <= lastJob /\ Asked(c, flash.jobs[c.id])
        /\ mode # "down" => Asked(c, ram.jobs[c.id])
    BY <1>1, <2>1, TypeParts, CallbackType DEF Known
  <2>3. /\ Dead(flash.jobs[c.id], c.revision)
        /\ mode # "down" => Dead(ram.jobs[c.id], c.revision)
    BY <1>3 DEF Answered
  <2> HIDE DEF c
  <2>4. Dead(flash'.jobs[c.id], c.revision)
    BY <1>1, <1>2, <2>2, <2>3, DeadOn DEF StoreStep, Asked
  <2>5. ASSUME mode' # "down" PROVE Dead(ram'.jobs[c.id], c.revision)
    BY <1>1, <1>2, <2>2, <2>3, <2>4, <2>5, DeadOn DEF StoreStep, Asked
  <2> QED BY <1>3, <2>4, <2>5 DEF c
<1>4. CASE ServeCallback(b)
  <2>1. PICK answer \in Answer \ {0} :
          /\ PublishScheduled(callback[b].id, callback[b].revision, answer)
          /\ callback' = [callback EXCEPT ![b].answer = answer]
    BY <1>4 DEF ServeCallback
  <2>2. callback[b] # NoCallback
    BY <1>4 DEF ServeCallback
  <2>3. callback[b] \in [id : Job, revision : Revision, answer : Answer]
    BY <1>1, <2>2, TypeParts, CallbackType
  <2>4. callback'[b].answer = answer /\ callback'[b].id = callback[b].id
        /\ callback'[b].revision = callback[b].revision
    BY <1>1, <2>1, <2>3 DEF TypeOK
  <2>5. Asked(callback[b], flash.jobs[callback[b].id])
    BY <1>1, <2>2 DEF Known
  <2>6. ram' = flash' /\ Dead(flash'.jobs[callback[b].id], callback[b].revision)
    BY <1>1, <2>1, <2>3, <2>4, <2>5, PublishAnswers DEF Asked
  <2> QED BY <2>4, <2>6
<1> QED BY <1>1, <1>3, <1>4, CallbackAnswers

\* Where acknowledgements come from.
LEMMA AcksFrom ==
  ASSUME TypeOK, [Next]_vars
  PROVE  \/ acked' \subseteq acked
         \/ /\ mode # "down" /\ call # NoCall /\ call.reply = "ok" /\ ram.bridge = call.to
            /\ ram.jobs[call.id].revision = call.revision
            /\ acked' = acked \cup {<<call.id, call.revision>>} /\ call' = NoCall
            /\ UNCHANGED <<flash, ram, mode, lastJob, timers, callback>>
<1>1. CASE EndHandoff
  BY <1>1 DEF EndHandoff, boardVars
<1>2. CASE Member \/ Admin
  BY <1>2
  DEF Member, Admin, SchedulePost, KeepAcked, Cancel, Reschedule, SaveChange, RemoveStatus,
      SetScheduler, DeleteAccount, AckedAfterPurge, ChangeAuthor
<1>3. CASE Boot \/ BootFails \/ PowerCut \/ StartHandoff \/ Network \/ ClockTick
           \/ UNCHANGED vars \/ \E b \in Bots : Board(b)
  BY <1>3
  DEF Boot, BootFails, PowerCut, StartHandoff, Network, ServeHandoff, LoseHandoff, ServeCallback,
      LoseCallback, UnreachableCallback, ServeLate, ClockTick, vars, Board, Tick, SendCallback,
      EndCallback, RetryDue, BotsRestart
<1> QED BY <1>1, <1>2, <1>3 DEF Next, Mastomini

\* Boot starts from no acknowledgement and no handoff.
LEMMA BootForgets ==
  ASSUME [Next]_vars, mode = "down", mode' # "down", TypeOK
  PROVE  acked' = {} /\ call' = NoCall
<1>1. Boot \/ mode' = mode
  BY DEF Next, Member, Admin, Mastomini, Network, SchedulePost, Cancel, Reschedule, SaveChange,
         RemoveStatus, SetScheduler, DeleteAccount, ChangeAuthor, Write, BootFails, PowerCut,
         StartHandoff, EndHandoff, ServeHandoff, LoseHandoff, ServeCallback, LoseCallback,
         UnreachableCallback, ServeLate, PublishScheduled, Refuse, ClockTick, vars, Board, Tick,
         SendCallback, EndCallback, RetryDue, BotsRestart
<1> QED BY <1>1 DEF Boot

\* How a handoff gets its reply.
LEMMA CallFrom ==
  ASSUME TypeOK, [Next]_vars, call' # NoCall, call'.reply = "ok"
  PROVE  /\ call # NoCall /\ call'.to = call.to /\ MessageOf(call') = MessageOf(call)
         /\ \/ call.reply = "ok"
            \/ /\ Receive(call.to, MessageOf(call), "ok")
               /\ UNCHANGED <<flash, ram, mode, lastJob, callback>>
<1>1. CASE ServeHandoff
  <2>1. PICK reply \in {"ok", "err"} :
          /\ Receive(call.to, MessageOf(call), reply)
          /\ call' = [call EXCEPT !.reply = reply]
    BY <1>1 DEF ServeHandoff
  <2>2. call # NoCall /\ UNCHANGED <<flash, ram, mode, lastJob, callback>>
    BY <1>1 DEF ServeHandoff
  <2>3. /\ call'.to = call.to /\ MessageOf(call') = MessageOf(call)
        /\ call'.reply = reply
    BY <2>1, <2>2, TypeParts, CallType DEF MessageOf
  <2> QED BY <2>1, <2>2, <2>3
<1>2. CASE call' = call
  BY <1>2
<1>3. CASE StartHandoff
  BY <1>3 DEF StartHandoff
<1>4. CASE LoseHandoff
  <2>1. call # NoCall /\ call' = [call EXCEPT !.reply = "err"]
    BY <1>4 DEF LoseHandoff
  <2>2. call'.reply = "err"
    BY <2>1, TypeParts, CallType
  <2> QED BY <2>2
<1>5. CASE Member \/ Admin \/ Boot \/ BootFails \/ PowerCut \/ EndHandoff \/ ClockTick
           \/ UNCHANGED vars
  BY <1>2, <1>5
  DEF Member, Admin, SchedulePost, Cancel, Reschedule, SaveChange, RemoveStatus, SetScheduler,
      DeleteAccount, ChangeAuthor, Boot, BootFails, PowerCut, EndHandoff, ClockTick, vars
<1>6. CASE \/ \E m \in late : ServeLate(m)
           \/ \E b \in Bots : \/ ServeCallback(b) \/ LoseCallback(b) \/ UnreachableCallback(b)
                              \/ Board(b)
  BY <1>2, <1>6
  DEF ServeCallback, LoseCallback, UnreachableCallback, ServeLate, Board, Tick, SendCallback,
      EndCallback, RetryDue, BotsRestart
<1> QED BY <1>1, <1>3, <1>4, <1>5, <1>6 DEF Next, Network, Mastomini

\* An open job has not moved on from a revision it has not outgrown.
LEMMA SameRevision ==
  ASSUME NEW x \in Scheduled, NEW y \in Scheduled, Follows(x, y), StillOpen(y),
         y.revision <= x.revision
  PROVE  /\ StillOpen(x) /\ y.revision = x.revision
         /\ \A j : TimerFor(j, y) = TimerFor(j, x)
<1>1. x.revision \in Nat /\ y.revision \in Nat
  BY Bounds DEF Scheduled
<1>2. x.revision = y.revision /\ x.at = y.at /\ Exists(x) /\ ~Over(x)
  BY <1>1 DEF Follows, StillOpen
<1> QED BY <1>2 DEF StillOpen, TimerFor

LEMMA NextAcks ==
  ASSUME KnownInv, Acks, [Next]_vars
  PROVE  Acks'
<1>1. TypeOK /\ Known /\ TypeOK' /\ StoreStep
  BY NextKnown, StoreMovesOn DEF KnownInv
<1>2. /\ \A j \in Job : ram.jobs[j] \in Scheduled /\ ram'.jobs[j] \in Scheduled
      /\ lastJob \in Nat /\ lastJob' \in Nat /\ \A j \in Job : j \in Nat
      /\ acked \subseteq Job \X Revision /\ \A r \in Revision : r \in Nat
  <2>1. \A j \in Job : ram.jobs[j] \in Scheduled /\ ram'.jobs[j] \in Scheduled
    BY <1>1, StoredJobs, NextTypeParts, JobsTyped DEF StoreOK
  <2>2. lastJob \in Nat /\ lastJob' \in Nat /\ acked \subseteq Job \X Revision
    BY <1>1, Bounds DEF TypeOK
  <2> QED BY <2>1, <2>2, Bounds DEF Revision, Job
<1> SUFFICES ASSUME mode' # "down", NEW a \in acked'
             PROVE  /\ a[1] <= lastJob' /\ ram'.bridge \in Bots
                    /\ Exists(ram'.jobs[a[1]]) => a[2] <= ram'.jobs[a[1]].revision
  BY DEF Acks
<1>3. mode # "down"
  BY <1>1, BootForgets
<1>4. CASE acked' \subseteq acked
  <2>1. /\ a \in acked /\ a[1] <= lastJob /\ ram.bridge \in Bots
        /\ Exists(ram.jobs[a[1]]) => a[2] <= ram.jobs[a[1]].revision
    BY <1>3, <1>4 DEF Acks
  <2>2. a[1] \in Job /\ a[2] \in Nat
    BY <1>2, <2>1
  <2>3. /\ ram'.bridge = ram.bridge /\ lastJob <= lastJob'
        /\ Follows(ram.jobs[a[1]], ram'.jobs[a[1]])
    BY <1>1, <1>3, <2>1, <2>2 DEF StoreStep
  <2>4. ram.jobs[a[1]].revision \in Nat /\ ram'.jobs[a[1]].revision \in Nat
    BY <1>2, <2>2, Bounds DEF Scheduled
  <2> QED BY <1>2, <2>1, <2>2, <2>3, <2>4 DEF Follows
<1>5. CASE /\ call # NoCall /\ ram.bridge = call.to
           /\ ram.jobs[call.id].revision = call.revision
           /\ acked' = acked \cup {<<call.id, call.revision>>}
           /\ UNCHANGED <<ram, lastJob>>
  <2>1. CASE a \in acked
    BY <1>3, <1>5, <2>1 DEF Acks
  <2>2. CASE a = <<call.id, call.revision>>
    <3>1. call.to \in Bots /\ call.revision \in Nat
      BY <1>1, <1>2, <1>5 DEF TypeOK
    <3>2. MessageOf(call) \in Heard /\ MessageOf(call).id = call.id
      BY <1>5 DEF Heard, MessageOf
    <3>3. call.id <= lastJob
      BY <1>1, <3>2 DEF Known
    <3> QED BY <1>5, <2>2, <3>1, <3>3
  <2> QED BY <1>5, <2>1, <2>2
<1> QED BY <1>1, <1>4, <1>5, AcksFrom

LEMMA NextReplied ==
  ASSUME KnownInv, Answered, Replied, [Next]_vars
  PROVE  Replied'
<1>1. TypeOK /\ Known /\ TypeOK' /\ StoreStep
  BY NextKnown, StoreMovesOn DEF KnownInv
<1>2. \A j \in Job : ram.jobs[j] \in Scheduled /\ ram'.jobs[j] \in Scheduled
  BY <1>1, StoredJobs, NextTypeParts, JobsTyped DEF StoreOK
<1> DEFINE x == ram.jobs[call'.id]
           y == ram'.jobs[call'.id]
<1> SUFFICES ASSUME mode' # "down", call' # NoCall, call'.reply = "ok", StillOpen(y),
                    y.revision = call'.revision
             PROVE  TimerFor(call'.id, y) \in timers'[call'.to]
  BY DEF Replied
<1>3. mode # "down"
  BY <1>1, BootForgets
<1>4. /\ call # NoCall /\ call'.to = call.to /\ call'.id = call.id
      /\ call'.revision = call.revision
  <2>1. call # NoCall /\ call'.to = call.to /\ MessageOf(call') = MessageOf(call)
    BY <1>1, CallFrom
  <2> QED BY <2>1 DEF MessageOf
<1>5. /\ call.id \in Job /\ call.to \in Bots /\ MessageOf(call) \in Handoff
      /\ MessageOf(call) \in Heard /\ call.id = MessageOf(call).id
      /\ call.revision = MessageOf(call).revision /\ call.at = MessageOf(call).at
      /\ call.cancelled = MessageOf(call).cancelled
  BY <1>1, <1>4, TypeParts, CallType DEF Heard, MessageOf
<1>6. call.id <= lastJob /\ Told(MessageOf(call), x)
  BY <1>1, <1>3, <1>4, <1>5 DEF Known
<1>7. x \in Scheduled /\ y \in Scheduled /\ Follows(x, y)
  BY <1>1, <1>2, <1>3, <1>4, <1>5, <1>6 DEF StoreStep
<1> HIDE DEF x, y
<1>8. Exists(x) /\ y.revision <= x.revision
  BY <1>4, <1>5, <1>6, <1>7 DEF Follows, StillOpen, Told, InTime
<1>9. StillOpen(x) /\ y.revision = x.revision /\ TimerFor(call'.id, y) = TimerFor(call'.id, x)
  BY <1>7, <1>8, SameRevision
<1>10. CASE call.reply = "ok"
  <2>1. TimerFor(call.id, x) \in timers[call.to]
    BY <1>3, <1>4, <1>9, <1>10 DEF Replied, x
  <2> QED BY <1>3, <1>4, <1>5, <1>9, <2>1, TimerStays DEF x
<1>11. CASE Receive(call.to, MessageOf(call), "ok")
  <2>1. x.revision = call.revision /\ call.at = x.at /\ ~call.cancelled
    BY <1>4, <1>5, <1>6, <1>9 DEF Told, InTime, StillOpen, Over
  <2>2. [id |-> call.id, revision |-> call.revision, at |-> call.at] \in timers'[call.to]
    BY <1>1, <1>5, <1>11, <2>1 DEF Receive, TypeOK
  <2> QED BY <1>4, <1>9, <2>1, <2>2 DEF TimerFor
<1> QED BY <1>1, <1>10, <1>11, CallFrom

LEMMA NextAckedIsHeld ==
  ASSUME KnownInv, HeldInv, [Next]_vars
  PROVE  AckedIsHeld'
<1>1. TypeOK /\ Known /\ TypeOK' /\ StoreStep /\ AckedIsHeld /\ Answered /\ Replied /\ Acks
  BY NextKnown, StoreMovesOn DEF KnownInv, HeldInv
<1>2. \A j \in Job : ram.jobs[j] \in Scheduled /\ ram'.jobs[j] \in Scheduled
  BY <1>1, StoredJobs, NextTypeParts, JobsTyped DEF StoreOK
<1> SUFFICES ASSUME NEW j \in Job, mode' # "down", StillOpen(ram'.jobs[j]),
                    <<j, ram'.jobs[j].revision>> \in acked'
             PROVE  TimerFor(j, ram'.jobs[j]) \in timers'[ram'.bridge]
  BY DEF AckedIsHeld, StillOpen, Over, TimerFor
<1> DEFINE x == ram.jobs[j]
           y == ram'.jobs[j]
<1>3. mode # "down"
  BY <1>1, BootForgets
<1>4. CASE acked' \subseteq acked
  <2>1. /\ <<j, y.revision>> \in acked /\ j <= lastJob /\ ram.bridge \in Bots
        /\ Exists(x) => y.revision <= x.revision
    BY <1>1, <1>3, <1>4 DEF Acks
  <2>2. ram'.bridge = ram.bridge /\ Follows(x, y) /\ x \in Scheduled /\ y \in Scheduled
    BY <1>1, <1>2, <1>3, <2>1 DEF StoreStep
  <2> HIDE DEF y
  <2>3. /\ StillOpen(x) /\ y.revision = x.revision /\ TimerFor(j, y) = TimerFor(j, x)
    BY <2>1, <2>2, SameRevision DEF StillOpen, Follows, y
  <2>4. TimerFor(j, x) \in timers[ram.bridge]
    BY <1>1, <1>3, <2>1, <2>3 DEF AckedIsHeld, StillOpen, Over, TimerFor
  <2>5. TimerFor(j, x) \in timers'[ram.bridge]
    BY <1>1, <1>3, <2>1, <2>3, <2>4, TimerStays
  <2> QED BY <2>2, <2>3, <2>5 DEF y
<1>5. CASE /\ call # NoCall /\ call.reply = "ok" /\ ram.bridge = call.to
           /\ ram.jobs[call.id].revision = call.revision
           /\ acked' = acked \cup {<<call.id, call.revision>>}
           /\ UNCHANGED <<ram, timers>>
  <2>1. CASE <<j, y.revision>> \in acked
    BY <1>1, <1>3, <1>5, <2>1 DEF AckedIsHeld, StillOpen, Over, TimerFor
  <2>2. CASE j = call.id /\ y.revision = call.revision
    BY <1>1, <1>3, <1>5, <2>2 DEF Replied
  <2> QED BY <1>5, <2>1, <2>2
<1> QED BY <1>1, <1>4, <1>5, AcksFrom

LEMMA HeldHolds == ASSUME ~FullFaults PROVE Spec => []HeldInv
<1>1. Init => HeldInv
  BY DEF Init, HeldInv, AckedIsHeld, Answered, Replied, Acks, NoCallback, NoCall, Terminal
<1>2. KnownInv /\ HeldInv /\ [Next]_vars => HeldInv'
  BY NextAnswered, NextReplied, NextAcks, NextAckedIsHeld DEF HeldInv
<1> QED BY <1>1, <1>2, KnownHolds, PTL DEF Spec

\* mastomini stops handing an acknowledged job over, so the paired bots board
\* holds its timer until publish_scheduled has settled it: with a flash that
\* is never full, whose 422 the bots board takes for the end of the job.
THEOREM AcknowledgedHeld == ASSUME ~FullFaults PROVE Spec => []AckedIsHeld
<1>1. HeldInv => AckedIsHeld
  BY DEF HeldInv
<1> QED BY <1>1, HeldHolds, PTL

-----------------------------------------------------------------------------
(***************************************************************************)
(* Queues.  Neither board stores more than its boot accepts.               *)
(***************************************************************************)
TimersFinite == \A b \in Bots : IsFiniteSet(timers[b])

LEMMA QueuedFinite == ASSUME NEW s PROVE IsFiniteSet(Queued(s)) /\ Cardinality(Queued(s)) \in Nat
<1>1. IsFiniteSet(Job) /\ Queued(s) \in SUBSET Job
  BY Bounds, FS_Interval DEF Job, Queued
<1>2. IsFiniteSet(Queued(s))
  BY <1>1, FS_Subset
<1> QED BY <1>2, FS_CardinalityType

LEMMA OneMore ==
  ASSUME NEW S, NEW x, IsFiniteSet(S)
  PROVE  IsFiniteSet(S \cup {x}) /\ Cardinality(S \cup {x}) <= Cardinality(S) + 1
<1>1. Cardinality(S) \in Nat
  BY FS_CardinalityType
<1>2. IsFiniteSet(S \cup {x})
  BY FS_AddElement
<1>3. Cardinality(S \cup {x}) = IF x \in S THEN Cardinality(S) ELSE Cardinality(S) + 1
  BY FS_AddElement
<1>4. Cardinality(S \cup {x}) \in {Cardinality(S), Cardinality(S) + 1}
  BY <1>3
<1> QED BY <1>1, <1>2, <1>4

LEMMA FewerQueued ==
  ASSUME NEW s, NEW t, Queued(t) \subseteq Queued(s)
  PROVE  Cardinality(Queued(t)) <= Cardinality(Queued(s))
  BY QueuedFinite, FS_Subset

\* No operation but schedule_post adds a job.
LEMMA MovesQueued ==
  ASSUME NEW s, NEW t, NEW n, MovesOn(s, t, n)
  PROVE  Queued(t) \ {n} \subseteq Queued(s)
  BY DEF MovesOn, Follows, Queued

\* schedule_post counts the drafts after it has erased the retired ones.
LEMMA SchedulePostQueues ==
  ASSUME TypeOK, JobsIssued, NEW at \in Time, SchedulePost(at),
         Cardinality(Queued(flash)) <= MaxScheduled
  PROVE  Cardinality(Queued(flash')) <= MaxScheduled
<1> DEFINE j    == lastJob + 1
           kept == RetireTo(MaxJobs + 1)
<1>1. /\ ram \in GoodHousehold /\ ram = flash /\ j \in Job /\ j \in Nat /\ j > 0
      /\ MaxScheduled \in Nat
  BY TypeParts, Bounds, BoundsAssumption, SchedulePostWrites DEF StoreOK, Written, Job
<1>2. \A c \in Int : Queued(RetireTo(c)) \subseteq Queued(flash)
  <2>1. \A c \in Int : MovesOn(ram, RetireTo(c), 0)
    BY <1>1, RetireToMoves
  <2>2. \A i \in Job : i # 0
    BY Bounds DEF Job
  <2> QED BY <1>1, <2>1, <2>2 DEF MovesOn, Follows, Queued
<1>3. ASSUME NEW c \in Int, flash' = RetireTo(c)
      PROVE  Cardinality(Queued(flash')) <= MaxScheduled
  <2>1. Queued(flash') \subseteq Queued(flash)
    BY <1>2, <1>3
  <2>2. Cardinality(Queued(flash')) <= Cardinality(Queued(flash))
    BY <2>1, FewerQueued
  <2> QED BY <1>1, <2>2, QueuedFinite
<1>4. ASSUME ~QueueFull(kept), NEW job \in GoodJob, flash' = WithJob(kept, j, job)
      PROVE  Cardinality(Queued(flash')) <= MaxScheduled
  <2>1. kept \in GoodHousehold
    BY <1>1, RetireToGood
  <2>2. Queued(flash') \subseteq Queued(kept) \cup {j}
    BY <1>4, <2>1 DEF WithJob, Queued, GoodHousehold, Household
  <2>3. /\ IsFiniteSet(Queued(kept) \cup {j})
        /\ Cardinality(Queued(kept) \cup {j}) <= Cardinality(Queued(kept)) + 1
    BY QueuedFinite, OneMore
  <2>4. Cardinality(Queued(flash')) <= Cardinality(Queued(kept) \cup {j})
    BY <2>2, <2>3, FS_Subset
  <2>5. Cardinality(Queued(kept)) < MaxScheduled
    BY <1>1, <1>4, QueuedFinite DEF QueueFull
  <2>6. Cardinality(Queued(flash')) \in Nat /\ Cardinality(Queued(kept)) \in Nat
        /\ Cardinality(Queued(kept) \cup {j}) \in Nat
    BY <2>3, QueuedFinite, FS_CardinalityType
  <2> QED BY <1>1, <2>3, <2>4, <2>5, <2>6
<1>5. CASE Written(Erasing(j)) /\ Len(Erasing(j)) = j
  <2>1. \E k \in 1..j : flash' = Erasing(j)[k]
    BY <1>1, <1>5 DEF Written
  <2>2. \E k \in 1..j : flash' = RetireTo(k)
    BY <2>1 DEF Erasing
  <2> QED BY <1>1, <1>3, <2>2
<1>6. ASSUME ~QueueFull(kept), NEW job \in GoodJob, Written(Saving(j, job)),
             Len(Saving(j, job)) = j + 1
      PROVE  Cardinality(Queued(flash')) <= MaxScheduled
  <2>1. \E k \in 1..(j + 1) : flash' = Saving(j, job)[k]
    BY <1>1, <1>6 DEF Written
  <2>2. \/ \E k \in 1..j : flash' = RetireTo(k)
        \/ flash' = WithJob(kept, j, job)
    BY <1>1, <2>1 DEF Saving
  <2> QED BY <1>1, <1>3, <1>4, <1>6, <2>2
<1>7. \/ Written(Erasing(j)) /\ Len(Erasing(j)) = j
      \/ /\ ~QueueFull(kept)
         /\ \E job \in GoodJob : Written(Saving(j, job)) /\ Len(Saving(j, job)) = j + 1
  BY SchedulePostWrites
<1> QED BY <1>5, <1>6, <1>7

\* receive refuses a timer beyond CAPACITY.
LEMMA ReceiveQueues ==
  ASSUME timers \in [Bots -> SUBSET Timer], TimersFinite, NEW b \in Bots, NEW m, NEW reply,
         Receive(b, m, reply), NEW i \in Bots, Cardinality(timers[i]) <= Capacity
  PROVE  IsFiniteSet(timers'[i]) /\ Cardinality(timers'[i]) <= Capacity
<1> DEFINE rest == timers[b] \ {t \in timers[b] : t.id = m.id}
           t    == [id |-> m.id, revision |-> m.revision, at |-> m.at]
<1>1. /\ IsFiniteSet(rest) /\ Cardinality(rest) <= Cardinality(timers[b])
      /\ Cardinality(rest) \in Nat /\ Cardinality(timers[b]) \in Nat /\ Capacity \in Nat
  <2>1. IsFiniteSet(timers[b]) /\ rest \in SUBSET timers[b]
    BY DEF TimersFinite
  <2> QED BY <2>1, FS_Subset, FS_CardinalityType, BoundsAssumption
<1>2. \/ timers' = timers
      \/ m.cancelled /\ timers' = [timers EXCEPT ![b] = rest \cup {}]
      \/ Cardinality(rest) < Capacity /\ timers' = [timers EXCEPT ![b] = rest \cup {t}]
  BY <1>1 DEF Receive
<1> HIDE DEF rest, t
<1>3. CASE timers' = timers \/ i # b
  <2>1. timers'[i] = timers[i]
    BY <1>2, <1>3
  <2> QED BY <2>1 DEF TimersFinite
<1>4. CASE i = b /\ timers' = [timers EXCEPT ![b] = rest \cup {}]
  <2>1. timers'[i] = rest
    BY <1>4
  <2> QED BY <1>1, <1>4, <2>1
<1>5. CASE i = b /\ Cardinality(rest) < Capacity /\ timers' = [timers EXCEPT ![b] = rest \cup {t}]
  <2>1. timers'[i] = rest \cup {t}
    BY <1>5
  <2>2. /\ IsFiniteSet(rest \cup {t})
        /\ Cardinality(rest \cup {t}) <= Cardinality(rest) + 1
    BY <1>1, OneMore
  <2>3. Cardinality(rest \cup {t}) \in Nat
    BY <2>2, FS_CardinalityType
  <2> QED BY <1>1, <1>5, <2>1, <2>2, <2>3
<1> QED BY <1>2, <1>3, <1>4, <1>5

\* Only schedule_post adds a job.
LEMMA OthersQueue ==
  ASSUME TypeOK, JobsIssued, [Next]_vars, ~\E at \in Time : SchedulePost(at)
  PROVE  Queued(flash') \subseteq Queued(flash)
<1>1. \A j \in Job : j # 0
  BY Bounds DEF Job
<1>2. CASE MovesOn(flash, flash', 0)
  BY <1>1, <1>2, MovesQueued DEF Queued
<1>3. CASE flash'.jobs = flash.jobs
  BY <1>3 DEF Queued
<1>4. CASE Member
  BY <1>2, <1>4, CancelMoves, RescheduleMoves, OthersMove DEF Member, Moved
<1>5. CASE Admin
  <2>1. ASSUME NEW b \in Bots, SetScheduler(b) PROVE flash'.jobs = flash.jobs
    <3> DEFINE s == [ram EXCEPT !.bridge = b]
    <3>1. s.jobs = ram.jobs
      BY TypeParts DEF StoreOK, GoodHousehold, Household
    <3>2. PICK answer \in Answer : Write(<<ram, s>>, 200, answer)
      BY <2>1 DEF SetScheduler
    <3> HIDE DEF s
    <3>3. ram = flash /\ flash' \in {ram, s}
      BY <3>2 DEF Write, WriteAll, WriteFull, WriteBreaks, TypeOK
    <3> QED BY <3>1, <3>3
  <2> QED BY <1>2, <1>3, <1>5, <2>1, DeleteAccountMoves, OthersMove DEF Admin, Moved
<1>6. ASSUME NEW j \in Job, NEW r \in Revision, NEW answer \in Answer,
             PublishScheduled(j, r, answer)
      PROVE  Queued(flash') \subseteq Queued(flash)
  BY <1>2, <1>3, <1>6, PublishMoves DEF Moved
<1>7. ASSUME NEW b \in Bots, ServeCallback(b)
      PROVE  Queued(flash') \subseteq Queued(flash)
  <2>1. callback[b].id \in Job /\ callback[b].revision \in Revision
    BY <1>7, TypeParts, CallbackType DEF ServeCallback
  <2> QED BY <1>6, <1>7, <2>1 DEF ServeCallback
<1>8. ASSUME NEW m \in late, ServeLate(m)
      PROVE  Queued(flash') \subseteq Queued(flash)
  <2>1. m.kind = "callback" => m.body.id \in Job /\ m.body.revision \in Revision
    BY DEF TypeOK
  <2> QED BY <1>3, <1>6, <1>8, <2>1 DEF ServeLate
<1>9. CASE Boot \/ BootFails
  <2>1. \E c : flash' = LoadTo(c)
    BY <1>9 DEF Boot, BootFails
  <2> QED BY <1>2, <2>1, TypeParts, LoadToMoves DEF StoreOK
<1>10. CASE flash' = flash
  BY <1>10
<1>11. PowerCut \/ StartHandoff \/ EndHandoff \/ ServeHandoff \/ LoseHandoff \/ ClockTick
         \/ UNCHANGED vars => flash' = flash
  BY DEF PowerCut, StartHandoff, EndHandoff, ServeHandoff, LoseHandoff, ClockTick, vars
<1>12. \A b \in Bots : Board(b) \/ LoseCallback(b) \/ UnreachableCallback(b) => flash' = flash
  BY DEF Board, Tick, SendCallback, EndCallback, RetryDue, BotsRestart, LoseCallback,
         UnreachableCallback
<1> QED BY <1>4, <1>5, <1>7, <1>8, <1>9, <1>10, <1>11, <1>12 DEF Next, Network, Mastomini

\* Both boards start from what they stored: load_scheduled and load find no
\* queue longer than the one they accept.
THEOREM QueuesStayBounded == Spec => []QueuesBoot
<1>1. Init => QueuesFit /\ TimersFinite
  <2> SUFFICES ASSUME Init PROVE QueuesFit /\ TimersFinite
    OBVIOUS
  <2>1. Queued(flash) = {}
    BY DEF Init, Queued, NoJob, Exists
  <2>2. \A b \in Bots : timers[b] = {}
    BY DEF Init
  <2> QED BY <2>1, <2>2, FS_EmptySet, BoundsAssumption DEF QueuesFit, TimersFinite
<1>2. KnownInv /\ QueuesFit /\ TimersFinite /\ [Next]_vars => (QueuesFit /\ TimersFinite)'
  <2> SUFFICES ASSUME KnownInv, QueuesFit, TimersFinite, [Next]_vars
               PROVE  (QueuesFit /\ TimersFinite)'
    OBVIOUS
  <2>1. TypeOK /\ JobsIssued /\ timers \in [Bots -> SUBSET Timer] /\ MaxScheduled \in Nat
    BY BoundsAssumption DEF KnownInv, TypeOK
  <2>2. Cardinality(Queued(flash')) <= MaxScheduled
    <3>1. CASE \E at \in Time : SchedulePost(at)
      BY <2>1, <3>1, SchedulePostQueues DEF QueuesFit
    <3>2. CASE ~\E at \in Time : SchedulePost(at)
      <4>1. Cardinality(Queued(flash')) <= Cardinality(Queued(flash))
        BY <2>1, <3>2, OthersQueue, FewerQueued
      <4> QED BY <2>1, <4>1, QueuedFinite DEF QueuesFit
    <3> QED BY <3>1, <3>2
  <2>3. ASSUME NEW i \in Bots
        PROVE  IsFiniteSet(timers'[i]) /\ Cardinality(timers'[i]) <= Capacity
    <3>1. IsFiniteSet(timers[i]) /\ Cardinality(timers[i]) <= Capacity
          /\ Cardinality(timers[i]) \in Nat /\ Capacity \in Nat
      BY FS_CardinalityType, BoundsAssumption DEF QueuesFit, TimersFinite
    <3>2. CASE \E b \in Bots, m \in Heard, reply \in {"ok", "err"} : Receive(b, m, reply)
      BY <2>1, <3>1, <3>2, ReceiveQueues
    <3>3. CASE timers'[i] \subseteq timers[i]
      <4>1. /\ IsFiniteSet(timers'[i]) /\ Cardinality(timers'[i]) <= Cardinality(timers[i])
        BY <3>1, <3>3, FS_Subset
      <4> QED BY <3>1, <4>1, FS_CardinalityType
    <3>4. CASE \E b \in Bots : timers' = [timers EXCEPT ![b] =
                 @ \ {t \in @ : t.id = callback[b].id /\ t.revision = callback[b].revision}]
      BY <2>1, <3>3, <3>4
    <3> QED BY <2>1, <3>2, <3>3, <3>4, TimersChange
  <2> QED BY <2>2, <2>3 DEF QueuesFit, TimersFinite
<1>3. TypeOK /\ QueuesFit => QueuesBoot
  BY DEF QueuesBoot
<1> QED BY <1>1, <1>2, <1>3, KnownHolds, TypeCorrect, PTL DEF Spec

-----------------------------------------------------------------------------
(***************************************************************************)
(* What becomes of a draft: it is published at most once, a closed job     *)
(* stays closed, and the two boards keep the promise of ScheduledJob.      *)
(* Every step of the protocol has one of six shapes (NextShape), and an    *)
(* inductive invariant (OnceInv) ties the stored jobs and statuses to the  *)
(* history of publications.                                                *)
(***************************************************************************)
\* A published job cannot be published again: it has its receipt, or the power
\* failed before the receipt was saved and boot will find the status.
Receipt(j) ==
  LET job == flash.jobs[j] IN
  commits[j] = 1 /\ Exists(job) /\ ~job.cancelled =>
    job.done \/ (mode # "up" /\ HasPost(flash, j) /\ Live(flash, j))

OnceInv ==
  /\ AtMostOnce
  /\ \A j \in Job : Receipt(j)
  /\ \A j \in Job, r \in Revision : <<j, r>> \in flash.posts => commits[j] = 1
  /\ \A j \in Job : flash.jobs[j].done => commits[j] = 1
  /\ \A j \in Job : j > lastJob => flash.jobs[j] = NoJob /\ commits[j] = 0

-----------------------------------------------------------------------------
(***************************************************************************)
(* The shapes of a step.                                                   *)
(***************************************************************************)
Idle == UNCHANGED <<flash, mode, commits, lastJob>>

\* What a step that publishes nothing may do to job j.
QuietJob(j) ==
  LET x == flash.jobs[j]  y == flash'.jobs[j] IN
  \/ y = x
  \/ Exists(x) /\ (x.done \/ x.cancelled) /\ y = NoJob
  \/ Exists(x) /\ Exists(y) /\ y.cancelled /\ y.done = x.done
  \/ /\ Exists(x) /\ ~x.cancelled /\ ~x.done
     /\ Exists(y) /\ ~y.cancelled /\ ~y.done /\ (x.failure => y.failure)
  \/ /\ j = lastJob + 1 /\ lastJob' = j
     /\ Exists(y) /\ ~y.cancelled /\ ~y.done /\ ~y.failure

Quiet ==
  /\ mode = "up"
  /\ flash'.posts \subseteq flash.posts
  /\ commits' = commits
  /\ lastJob' \in {lastJob, lastJob + 1}
  /\ lastJob' # lastJob => Exists(flash'.jobs[lastJob'])
  /\ \A j \in Job : QuietJob(j)

\* The step that writes a status for job j.
Posting(j) ==
  LET x == flash.jobs[j]  y == flash'.jobs[j] IN
  /\ mode = "up"
  /\ Exists(x) /\ ~x.cancelled /\ ~x.done /\ ~x.failure /\ Live(flash, j)
  /\ y.target \in Revision
  /\ flash'.posts = flash.posts \cup {<<j, y.target>>}
  /\ flash'.acct = flash.acct
  /\ \A i \in Job \ {j} : flash'.jobs[i] = flash.jobs[i]
  /\ Exists(y) /\ ~y.cancelled
  /\ ~FullFaults => y.done \/ mode' # "up"
  /\ commits' = [i \in Job |-> IF NewPost(i) THEN Counted(commits[i])
                                             ELSE commits[i]]
  /\ lastJob' = lastJob

Shape ==
  \/ Idle \/ Quiet \/ \E j \in Job : Posting(j)
  \/ Boot \/ BootFails \/ PowerCut

-----------------------------------------------------------------------------
\* A run of writes leaves one of its images; short of the last one the service
\* is no longer writable, unless the flash may be full.
LEMMA WriteImage ==
  ASSUME StoreOK, NEW ok, NEW answer,
         NEW images \in Seq(GoodHousehold), Len(images) > 0,
         Write(images, ok, answer)
  PROVE  /\ mode = "up" /\ ram = flash
         /\ \E k \in 1..Len(images) :
              /\ flash' = images[k]
              /\ k = Len(images) \/ mode' # "up" \/ FullFaults
         /\ commits' = [j \in Job |-> IF NewPost(j) THEN Counted(commits[j])
                                                    ELSE commits[j]]
<1>1. /\ mode = "up" /\ ram = flash
      /\ commits' = [j \in Job |-> IF NewPost(j) THEN Counted(commits[j])
                                                 ELSE commits[j]]
  BY DEF Write, StoreOK
<1>2. CASE WriteAll(images)
  BY <1>1, <1>2 DEF WriteAll
<1>3. CASE WriteFull(images)
  BY <1>1, <1>3 DEF WriteFull
<1>4. ASSUME NEW m \in {"latched", "down"}, WriteBreaks(images, m)
      PROVE  \E k \in 1..Len(images) : flash' = images[k] /\ mode' # "up"
  BY <1>4 DEF WriteBreaks
<1>5. QED
  BY <1>1, <1>2, <1>3, <1>4 DEF Write

\* A write that adds no status leaves the history as it is.
LEMMA NoNewPost ==
  ASSUME StoreOK, flash'.posts \subseteq flash.posts,
         commits' = [j \in Job |-> IF NewPost(j) THEN Counted(commits[j])
                                                 ELSE commits[j]]
  PROVE  commits' = commits
  BY DEF NewPost, StoreOK

LEMMA SchedulePostShape ==
  ASSUME TypeOK, NEW at \in Time, SchedulePost(at)
  PROVE  Quiet
<1> DEFINE j       == lastJob + 1
           retired == RetireTo(MaxJobs + 1)
           job     == [NoJob EXCEPT !.at = at, !.revision = 1,
                                    !.epoch = ram.acct[AuthorOf[j]].epoch]
           erasing == [c \in 1..j |-> RetireTo(c)]
           saving  == [c \in 1..(j + 1) |-> IF c <= j THEN RetireTo(c)
                                            ELSE WithJob(retired, j, job)]
<1>1. StoreOK /\ RestOK /\ j \in Job /\ j \in Nat /\ j > 0
  BY TypeParts, Bounds DEF SchedulePost, Job
<1>2. \A c : RetireTo(c) \in GoodHousehold
  BY <1>1, RetireToGood DEF StoreOK
<1>3. job \in GoodJob /\ Exists(job) /\ ~job.cancelled /\ ~job.done /\ ~job.failure
  <2>1. ram.acct[AuthorOf[j]].epoch \in 0..MaxEpoch
    BY <1>1, PartiesAssumption DEF StoreOK, GoodHousehold, Household, AccountState
  <2>2. 1 \in 0..(MaxRevision + 1) /\ 1 <= MaxRevision
    BY Bounds
  <2>3. job \in Scheduled /\ job.revision = 1
    BY <2>1, <2>2, NoJobGood DEF GoodJob, Scheduled
  <2>4. ~job.cancelled /\ ~job.done /\ ~job.failure
    <3>1. ~NoJob.cancelled /\ ~NoJob.done /\ ~NoJob.failure
      BY DEF NoJob
    <3>2. QED
      BY <3>1, NoJobGood DEF GoodJob, Scheduled
  <2> HIDE DEF job
  <2>5. QED
    BY <2>2, <2>3, <2>4 DEF GoodJob, Exists
<1>4. WithJob(retired, j, job) \in GoodHousehold
  BY <1>1, <1>2, <1>3, WithJobGood
<1>5. erasing \in Seq(GoodHousehold) /\ Len(erasing) = j
  BY <1>1, <1>2, FunctionIsSeq
<1>6. saving \in Seq(GoodHousehold) /\ Len(saving) = j + 1
  <2>1. saving \in [1..(j + 1) -> GoodHousehold]
    BY <1>2, <1>4
  <2>2. QED
    BY <1>1, <2>1, FunctionIsSeq
<1>7. PICK answer \in Answer :
        IF QueueFull(retired)
        THEN Write(erasing, 422, answer) /\ UNCHANGED lastJob
        ELSE /\ Write(saving, 200, answer)
             /\ lastJob' = IF Exists(flash'.jobs[j]) THEN j ELSE lastJob
  BY DEF SchedulePost
<1>8. ASSUME NEW c
      PROVE  /\ RetireTo(c).posts = ram.posts
             /\ \A i \in Job : \/ RetireTo(c).jobs[i] = ram.jobs[i]
                               \/ /\ Exists(ram.jobs[i])
                                  /\ ram.jobs[i].done \/ ram.jobs[i].cancelled
                                  /\ RetireTo(c).jobs[i] = NoJob
  BY <1>1 DEF RetireTo, Retired, StoreOK, GoodHousehold, Household
<1>9. ASSUME NEW c, flash' = RetireTo(c), ram = flash
      PROVE  flash'.posts \subseteq flash.posts /\ \A i \in Job : QuietJob(i)
  BY <1>8, <1>9 DEF QuietJob
<1>10. ASSUME flash' = WithJob(retired, j, job), ram = flash, lastJob' = j
       PROVE  flash'.posts \subseteq flash.posts /\ \A i \in Job : QuietJob(i)
  <2>1. flash'.posts = retired.posts /\ flash'.jobs = [retired.jobs EXCEPT ![j] = job]
    BY <1>2, <1>10 DEF WithJob, GoodHousehold, Household
  <2>2. flash'.jobs[j] = job /\ \A i \in Job \ {j} : flash'.jobs[i] = retired.jobs[i]
    BY <1>1, <1>2, <2>1 DEF GoodHousehold, Household
  <2> HIDE DEF job, retired
  <2>3. QuietJob(j)
    BY <1>1, <1>3, <1>10, <2>2 DEF QuietJob
  <2>4. \A i \in Job \ {j} : QuietJob(i)
    BY <1>8, <1>10, <2>2 DEF QuietJob, retired
  <2>5. QED
    BY <1>8, <1>10, <2>1, <2>3, <2>4 DEF retired
<1>11. CASE QueueFull(retired)
  <2>1. Write(erasing, 422, answer) /\ lastJob' = lastJob
    BY <1>7, <1>11
  <2>2. /\ mode = "up" /\ ram = flash
        /\ \E k \in 1..j : flash' = erasing[k]
        /\ commits' = [i \in Job |-> IF NewPost(i) THEN Counted(commits[i])
                                                   ELSE commits[i]]
    BY <1>1, <1>5, <2>1, WriteImage
  <2>3. flash'.posts \subseteq flash.posts /\ \A i \in Job : QuietJob(i)
    BY <1>9, <2>2
  <2>4. QED
    BY <1>1, <2>1, <2>2, <2>3, NoNewPost DEF Quiet
<1>12. CASE ~QueueFull(retired)
  <2>1. /\ Write(saving, 200, answer)
        /\ lastJob' = IF Exists(flash'.jobs[j]) THEN j ELSE lastJob
    BY <1>7, <1>12
  <2>2. /\ mode = "up" /\ ram = flash
        /\ \E k \in 1..(j + 1) : flash' = saving[k]
        /\ commits' = [i \in Job |-> IF NewPost(i) THEN Counted(commits[i])
                                                   ELSE commits[i]]
    BY <1>1, <1>6, <2>1, WriteImage
  <2>3. \/ \E c : flash' = RetireTo(c)
        \/ flash' = WithJob(retired, j, job)
    BY <2>2
  <2>4. CASE \E c : flash' = RetireTo(c)
    BY <1>1, <1>9, <2>1, <2>2, <2>4, NoNewPost DEF Quiet
  <2>5. CASE flash' = WithJob(retired, j, job)
    <3>1. flash'.jobs[j] = job
      BY <1>1, <1>2, <2>5 DEF WithJob, GoodHousehold, Household
    <3>2. lastJob' = j
      BY <1>3, <2>1, <3>1
    <3>3. flash'.posts \subseteq flash.posts /\ \A i \in Job : QuietJob(i)
      BY <1>10, <2>2, <2>5, <3>2
    <3>4. QED
      BY <1>1, <1>3, <2>2, <3>1, <3>2, <3>3, NoNewPost DEF Quiet
  <2>6. QED
    BY <2>3, <2>4, <2>5
<1>13. QED
  BY <1>11, <1>12

\* A job saved by change_schedule or marked failed: the job was open.
LEMMA OpenJobShape ==
  ASSUME StoreOK, NEW j \in Job, NEW y \in GoodJob, NEW s,
         s \in {flash, WithJob(flash, j, y)}, flash' = s,
         mode = "up", lastJob' = lastJob,
         Exists(flash.jobs[j]), ~flash.jobs[j].cancelled, ~flash.jobs[j].done,
         Exists(y), ~y.done, ~y.cancelled => (flash.jobs[j].failure => y.failure),
         commits' = [i \in Job |-> IF NewPost(i) THEN Counted(commits[i])
                                                 ELSE commits[i]]
  PROVE  Quiet
<1>1. CASE s = flash
  BY <1>1, NoNewPost DEF Quiet, QuietJob
<1>2. CASE s = WithJob(flash, j, y)
  <2>1. flash'.posts = flash.posts /\ flash'.jobs = [flash.jobs EXCEPT ![j] = y]
    BY <1>2 DEF WithJob, StoreOK, GoodHousehold, Household
  <2>2. flash'.jobs[j] = y /\ \A i \in Job \ {j} : flash'.jobs[i] = flash.jobs[i]
    BY <2>1 DEF StoreOK, GoodHousehold, Household
  <2>3. QuietJob(j)
    <3>1. y.done = flash.jobs[j].done
      BY GoodJobs DEF GoodJob, Scheduled, StoreOK
    <3>2. QED
      BY <2>2, <3>1 DEF QuietJob
  <2>4. \A i \in Job \ {j} : QuietJob(i)
    BY <2>2 DEF QuietJob
  <2>5. QED
    BY <2>1, <2>3, <2>4, NoNewPost DEF Quiet
<1>3. QED
  BY <1>1, <1>2

\* The same for one write.
LEMMA OneWrite ==
  ASSUME StoreOK, NEW s \in GoodHousehold, NEW answer,
         Write(<<ram, s>>, 200, answer)
  PROVE  /\ mode = "up" /\ ram = flash /\ flash' \in {flash, s}
         /\ commits' = [i \in Job |-> IF NewPost(i) THEN Counted(commits[i])
                                                    ELSE commits[i]]
<1> DEFINE images == <<ram, s>>
<1>1. images \in Seq(GoodHousehold) /\ Len(images) = 2
  BY DEF StoreOK
<1>2. images[1] = ram /\ images[2] = s
  OBVIOUS
<1> HIDE DEF images
<1>3. Write(images, 200, answer)
  BY DEF images
<1>4. Len(images) > 0
  BY <1>1
<1>5. /\ mode = "up" /\ ram = flash
      /\ \E k \in 1..Len(images) : flash' = images[k]
      /\ commits' = [i \in Job |-> IF NewPost(i) THEN Counted(commits[i])
                                                 ELSE commits[i]]
  BY <1>1, <1>3, <1>4, WriteImage
<1>6. QED
  BY <1>1, <1>2, <1>5

LEMMA SaveChangeShape ==
  ASSUME TypeOK, NEW j \in Job, NEW y \in GoodJob, SaveChange(j, y),
         Changeable(j), Exists(y), ~y.done,
         ~y.cancelled => (flash.jobs[j].failure => y.failure)
  PROVE  Quiet
<1>1. StoreOK /\ RestOK /\ ram = flash
  BY TypeParts DEF StoreOK, Changeable
<1>2. PICK answer \in Answer : Write(<<ram, WithJob(ram, j, y)>>, 200, answer)
  BY DEF SaveChange
<1>3. WithJob(ram, j, y) \in GoodHousehold
  BY <1>1, WithJobGood DEF StoreOK
<1>4. /\ flash' \in {flash, WithJob(flash, j, y)}
      /\ commits' = [i \in Job |-> IF NewPost(i) THEN Counted(commits[i])
                                                 ELSE commits[i]]
  BY <1>1, <1>2, <1>3, OneWrite
<1>5. lastJob' = lastJob
  BY DEF SaveChange
<1>6. QED
  BY <1>1, <1>4, <1>5, OpenJobShape DEF Changeable

LEMMA CancelShape ==
  ASSUME TypeOK, NEW j \in Job, Cancel(j)
  PROVE  Quiet
<1> DEFINE x == flash.jobs[j]
           y == [x EXCEPT !.target = 0, !.cancelled = TRUE,
                          !.failure = FALSE, !.revision = @ + 1]
<1>1. x \in GoodJob /\ ~x.cancelled /\ ~x.done /\ Exists(x)
  BY TypeParts, GoodJobs DEF StoreOK, Cancel, Changeable
<1>2. /\ x.revision + 1 \in 0..(MaxRevision + 1) /\ x.revision + 1 > 0
      /\ 0 \in 0..(MaxRevision + 1)
  BY <1>1, Bounds DEF GoodJob, Scheduled
<1>3. y \in Scheduled /\ y.revision = x.revision + 1 /\ y.done = x.done
  BY <1>1, <1>2 DEF GoodJob, Scheduled
<1>4. y.cancelled
  BY <1>1 DEF GoodJob, Scheduled
<1> HIDE DEF x, y
<1>5. y \in GoodJob /\ Exists(y) /\ ~y.done
  BY <1>1, <1>2, <1>3, <1>4 DEF GoodJob, Exists
<1>6. SaveChange(j, y) /\ Changeable(j)
  BY DEF Cancel, x, y
<1>7. QED
  BY <1>4, <1>5, <1>6, SaveChangeShape

LEMMA RescheduleShape ==
  ASSUME TypeOK, NEW j \in Job, NEW at \in Time, Reschedule(j, at)
  PROVE  Quiet
<1> DEFINE x == flash.jobs[j]
           y == [x EXCEPT !.target = 0, !.at = at, !.revision = @ + 1]
<1>1. /\ x \in GoodJob /\ ~x.cancelled /\ ~x.done /\ ~x.failure /\ Exists(x)
      /\ x.revision < MaxRevision
  BY TypeParts, GoodJobs DEF StoreOK, Reschedule, Changeable
<1>2. /\ x.revision + 1 \in 0..(MaxRevision + 1) /\ x.revision + 1 > 0
      /\ x.revision + 1 <= MaxRevision /\ 0 \in 0..(MaxRevision + 1)
  BY <1>1, Bounds DEF GoodJob, Scheduled
<1>3. y \in Scheduled /\ y.revision = x.revision + 1 /\ y.done = x.done
  BY <1>1, <1>2 DEF GoodJob, Scheduled
<1>4. y \in GoodJob /\ Exists(y) /\ ~y.done
  BY <1>1, <1>2, <1>3 DEF GoodJob, Exists
<1>5. SaveChange(j, y) /\ Changeable(j)
  BY DEF Reschedule
<1>6. QED
  BY <1>1, <1>4, <1>5, SaveChangeShape

\* Requests that touch no job.
LEMMA OtherWriteShape ==
  ASSUME TypeOK, NEW s \in GoodHousehold, NEW answer \in Answer,
         Write(<<ram, s>>, 200, answer), lastJob' = lastJob,
         s.jobs = ram.jobs, s.posts \subseteq ram.posts
  PROVE  Quiet
<1>1. StoreOK
  BY TypeParts
<1>2. /\ mode = "up" /\ ram = flash /\ flash' \in {flash, s}
      /\ commits' = [i \in Job |-> IF NewPost(i) THEN Counted(commits[i])
                                                 ELSE commits[i]]
  BY <1>1, OneWrite
<1>3. flash'.posts \subseteq flash.posts /\ \A j \in Job : QuietJob(j)
  BY <1>2 DEF QuietJob
<1>4. QED
  BY <1>1, <1>2, <1>3, NoNewPost DEF Quiet

LEMMA DeleteAccountShape ==
  ASSUME TypeOK, NEW a \in Account, DeleteAccount(a)
  PROVE  Quiet
<1> DEFINE images == [c \in 0..(MaxJobs + 2) |->
                        IF c = 0 THEN ram
                        ELSE IF c <= MaxJobs + 1 THEN CancelTo(ram, a, c)
                        ELSE WithoutPostsOf(CancelTo(ram, a, MaxJobs + 1), a)]
           writes == [k \in 1..(MaxJobs + 3) |-> images[k - 1]]
<1>1. StoreOK /\ RestOK /\ ram \in GoodHousehold
  BY TypeParts DEF StoreOK
<1>2. \A c \in 0..(MaxJobs + 2) : images[c] \in GoodHousehold
  BY <1>1, CancelToGood, WithoutPostsOfGood
<1>3. writes \in [1..(MaxJobs + 3) -> GoodHousehold]
  BY <1>2, Bounds
<1>4. writes \in Seq(GoodHousehold) /\ Len(writes) = MaxJobs + 3
  BY <1>3, FunctionIsSeq, Bounds
<1>5. PICK answer \in Answer : Write(writes, 200, answer)
  BY DEF DeleteAccount
<1>6. /\ mode = "up" /\ ram = flash
      /\ \E k \in 1..(MaxJobs + 3) : flash' = writes[k]
      /\ commits' = [i \in Job |-> IF NewPost(i) THEN Counted(commits[i])
                                                 ELSE commits[i]]
  BY <1>1, <1>4, <1>5, WriteImage, Bounds
<1>7. \/ flash' = flash
      \/ \E c : flash' = CancelTo(flash, a, c)
      \/ \E c : flash' = WithoutPostsOf(CancelTo(flash, a, c), a)
  <2>1. PICK k \in 1..(MaxJobs + 3) : flash' = images[k - 1]
    BY <1>6
  <2>2. k - 1 \in 0..(MaxJobs + 2)
    BY Bounds
  <2>3. QED
    BY <1>6, <2>1, <2>2
<1>8. ASSUME NEW c
      PROVE  /\ CancelTo(flash, a, c).posts = flash.posts
             /\ \A j \in Job :
                  \/ CancelTo(flash, a, c).jobs[j] = flash.jobs[j]
                  \/ /\ Exists(flash.jobs[j]) /\ ~flash.jobs[j].cancelled
                     /\ CancelTo(flash, a, c).jobs[j] = CancelledFor(flash.jobs[j])
  BY <1>1, <1>6 DEF CancelTo, GoodHousehold, Household
<1>9. ASSUME NEW x \in GoodJob, Exists(x), ~x.cancelled
      PROVE  /\ Exists(CancelledFor(x)) /\ CancelledFor(x).cancelled
             /\ CancelledFor(x).done = x.done
  BY <1>9, Bounds DEF Exists, CancelledFor, GoodJob, Scheduled
<1>10. ASSUME NEW c, flash'.jobs = CancelTo(flash, a, c).jobs
       PROVE  \A j \in Job : QuietJob(j)
  BY <1>1, <1>6, <1>8, <1>9, <1>10, GoodJobs DEF QuietJob
<1>11. flash'.posts \subseteq flash.posts /\ \A j \in Job : QuietJob(j)
  <2>1. CASE flash' = flash
    BY <2>1 DEF QuietJob
  <2>2. ASSUME NEW c, flash' = CancelTo(flash, a, c)
        PROVE  flash'.posts \subseteq flash.posts /\ \A j \in Job : QuietJob(j)
    BY <1>8, <1>10, <2>2
  <2>3. ASSUME NEW c, flash' = WithoutPostsOf(CancelTo(flash, a, c), a)
        PROVE  flash'.posts \subseteq flash.posts /\ \A j \in Job : QuietJob(j)
    <3>1. CancelTo(flash, a, c) \in GoodHousehold
      BY <1>1, <1>6, CancelToGood
    <3>2. /\ flash'.jobs = CancelTo(flash, a, c).jobs
          /\ flash'.posts \subseteq CancelTo(flash, a, c).posts
      BY <2>3, <3>1 DEF WithoutPostsOf, GoodHousehold, Household
    <3>3. QED
      BY <1>8, <1>10, <3>2
  <2>4. QED
    BY <1>7, <2>1, <2>2, <2>3
<1>12. lastJob' = lastJob
  BY DEF DeleteAccount
<1>13. QED
  BY <1>1, <1>6, <1>11, <1>12, NoNewPost DEF Quiet

LEMMA PublishShape ==
  ASSUME TypeOK, NEW j \in Job, NEW r \in Revision, NEW answer \in Answer,
         PublishScheduled(j, r, answer), lastJob' = lastJob
  PROVE  Idle \/ Quiet \/ Posting(j)
<1> DEFINE job      == flash.jobs[j]
           acct     == ram.acct[AuthorOf[j]]
           failed   == [job EXCEPT !.failure = TRUE]
           reserved == IF job.target > 0 THEN job ELSE [job EXCEPT !.target = r]
           done     == [reserved EXCEPT !.done = TRUE]
           refused  == [reserved EXCEPT !.failure = TRUE]
           s1       == WithJob(ram, j, reserved)
           s2       == [s1 EXCEPT !.posts = @ \cup {<<j, reserved.target>>}]
           s3       == WithJob(s2, j, done)
           s4       == WithJob(s1, j, refused)
<1>1. StoreOK /\ flash \in GoodHousehold /\ ram \in GoodHousehold /\ job \in GoodJob
  BY TypeParts, GoodJobs DEF StoreOK
<1>2. /\ failed \in GoodJob /\ failed.failure
      /\ failed.revision = job.revision /\ failed.done = job.done
      /\ failed.cancelled = job.cancelled
  BY <1>1 DEF GoodJob, Scheduled
<1>3. /\ reserved \in GoodJob /\ reserved.target \in Revision
      /\ reserved.revision = job.revision /\ reserved.done = job.done
      /\ reserved.cancelled = job.cancelled /\ reserved.failure = job.failure
  <2>1. r \in 0..(MaxRevision + 1) /\ r > 0
    BY Bounds DEF Revision
  <2>2. CASE job.target > 0
    BY <1>1, <2>2, Bounds DEF GoodJob, Scheduled, Revision
  <2>3. CASE ~(job.target > 0)
    BY <1>1, <2>1, <2>3 DEF GoodJob, Scheduled
  <2>4. QED
    BY <2>2, <2>3
<1> HIDE DEF failed, reserved
<1>4. /\ done \in GoodJob /\ done.done /\ done.cancelled = reserved.cancelled
      /\ done.target = reserved.target /\ done.revision = reserved.revision
  BY <1>3 DEF GoodJob, Scheduled
<1>5. /\ refused \in GoodJob /\ refused.failure /\ refused.done = reserved.done
      /\ refused.cancelled = reserved.cancelled
      /\ refused.revision = reserved.revision
  BY <1>3 DEF GoodJob, Scheduled
<1> HIDE DEF done, refused
<1>6. s1 \in GoodHousehold /\ WithJob(ram, j, failed) \in GoodHousehold
  BY <1>1, <1>2, <1>3, WithJobGood
<1>7. s2 \in GoodHousehold
  <2>1. <<j, reserved.target>> \in Job \X Revision
    BY <1>3
  <2>2. QED
    BY <1>6, <2>1 DEF GoodHousehold, Household
<1>8. /\ s3 \in GoodHousehold /\ s4 \in GoodHousehold
      /\ s4 = WithJob(ram, j, refused)
  <2>1. s3 \in GoodHousehold /\ s4 \in GoodHousehold
    BY <1>4, <1>5, <1>6, <1>7, WithJobGood
  <2>2. s4 = WithJob(ram, j, refused)
    BY <1>1 DEF WithJob, GoodHousehold, Household
  <2>3. QED
    BY <2>1, <2>2
<1>9. \A i \in Job \ {j} : s1.jobs[i] = ram.jobs[i]
  BY <1>1 DEF WithJob, GoodHousehold, Household
<1>10. /\ s2.jobs[j] = reserved /\ s3.jobs[j] = done
       /\ \A i \in Job \ {j} : s2.jobs[i] = ram.jobs[i] /\ s3.jobs[i] = ram.jobs[i]
       /\ s2.posts = ram.posts \cup {<<j, reserved.target>>}
       /\ s3.posts = ram.posts \cup {<<j, reserved.target>>}
       /\ s2.acct = ram.acct /\ s3.acct = ram.acct
  BY <1>1 DEF WithJob, GoodHousehold, Household
<1> HIDE DEF s1, s2, s3, s4
<1> DEFINE Open == /\ mode = "up" /\ Exists(job) /\ ~job.cancelled
                   /\ ~job.done /\ ~job.failure
           Counts == commits' = [i \in Job |-> IF NewPost(i) THEN Counted(commits[i])
                                                             ELSE commits[i]]
<1>11. \/ UNCHANGED <<flash, ram, mode, faults, commits>>
       \/ Open /\ Write(<<ram, WithJob(ram, j, failed)>>, 200, answer)
       \/ /\ Open /\ acct.standing = "ok"
          /\ Write(<<ram, s1, s2, s3>>, 200, answer)
       \/ Open /\ Write(<<ram, s1, s4>>, 200, answer)
       \/ Open /\ flash' = s1 /\ UNCHANGED commits
  BY DEF PublishScheduled, Refuse, Current, Finished, s1, s2, s3, s4, done,
         refused, reserved, failed
<1>12. ASSUME NEW y \in {reserved, failed, refused}, Open, Counts,
              flash' \in {flash, WithJob(flash, j, y)}
       PROVE  Quiet
  <2>1. /\ y \in GoodJob /\ Exists(y) /\ ~y.done
        /\ ~y.cancelled => (job.failure => y.failure)
    BY <1>2, <1>3, <1>5, <1>12 DEF Exists
  <2>2. QED
    BY <1>1, <1>12, <2>1, OpenJobShape
<1>13. CASE UNCHANGED <<flash, ram, mode, faults, commits>>
  BY <1>13 DEF Idle
<1>14. CASE Open /\ Write(<<ram, WithJob(ram, j, failed)>>, 200, answer)
  <2>1. flash' \in {flash, WithJob(flash, j, failed)} /\ Counts
    BY <1>1, <1>6, <1>14, OneWrite
  <2>2. QED
    BY <1>12, <1>14, <2>1
<1>15. CASE Open /\ flash' = s1 /\ UNCHANGED commits
  <2>1. ram = flash /\ flash'.posts = flash.posts
    BY <1>1, <1>15 DEF s1, WithJob, StoreOK, GoodHousehold, Household
  <2>2. Counts
    BY <1>1, <1>15, <2>1 DEF NewPost, StoreOK
  <2>3. QED
    BY <1>12, <1>15, <2>1, <2>2 DEF s1
<1>16. CASE Open /\ Write(<<ram, s1, s4>>, 200, answer)
  <2> DEFINE images == <<ram, s1, s4>>
  <2>1. images \in Seq(GoodHousehold) /\ Len(images) = 3
    BY <1>1, <1>6, <1>8
  <2>2. images[1] = ram /\ images[2] = s1 /\ images[3] = s4
    OBVIOUS
  <2>3. Write(images, 200, answer)
    BY <1>16
  <2> HIDE DEF images
  <2>4. Len(images) > 0
    BY <2>1
  <2>5. ram = flash /\ Counts /\ \E k \in 1..Len(images) : flash' = images[k]
    BY <1>1, <2>1, <2>3, <2>4, WriteImage
  <2>6. flash' \in {flash, s1, s4}
    BY <2>1, <2>2, <2>5
  <2>7. QED
    BY <1>8, <1>12, <1>16, <2>5, <2>6 DEF s1
<1>17. CASE /\ Open /\ acct.standing = "ok"
            /\ Write(<<ram, s1, s2, s3>>, 200, answer)
  <2> DEFINE images == <<ram, s1, s2, s3>>
  <2>1. images \in Seq(GoodHousehold) /\ Len(images) = 4
    BY <1>1, <1>6, <1>7, <1>8
  <2>2. images[1] = ram /\ images[2] = s1 /\ images[3] = s2 /\ images[4] = s3
    OBVIOUS
  <2>3. Write(images, 200, answer)
    BY <1>17
  <2> HIDE DEF images
  <2>4. Len(images) > 0
    BY <2>1
  <2>5. /\ ram = flash /\ Counts
        /\ \E k \in 1..Len(images) :
             /\ flash' = images[k]
             /\ k = Len(images) \/ mode' # "up" \/ FullFaults
    BY <1>1, <2>1, <2>3, <2>4, WriteImage
  <2>6. \/ flash' \in {flash, s1}
        \/ flash' = s2 /\ (mode' # "up" \/ FullFaults)
        \/ flash' = s3
    BY <2>1, <2>2, <2>5
  <2>7. Live(flash, j)
    BY <1>17, <2>5 DEF Live
  <2>8. CASE flash' \in {flash, s1}
    BY <1>12, <1>17, <2>5, <2>8 DEF s1
  <2>9. CASE flash' = s2 /\ (mode' # "up" \/ FullFaults)
    BY <1>3, <1>10, <1>17, <2>5, <2>7, <2>9 DEF Posting, Exists
  <2>10. CASE flash' = s3
    BY <1>3, <1>4, <1>10, <1>17, <2>5, <2>7, <2>10 DEF Posting, Exists
  <2>11. QED
    BY <2>6, <2>8, <2>9, <2>10
<1>18. QED
  BY <1>11, <1>13, <1>14, <1>15, <1>16, <1>17

\* Every step has one of the shapes.
LEMMA NextShape ==
  ASSUME TypeOK, [Next]_vars
  PROVE  Shape
<1>1. StoreOK /\ RestOK /\ ram \in GoodHousehold
  BY TypeParts DEF StoreOK
<1>2. CASE Member
  <2>1. ASSUME NEW j \in Job, NEW r \in Revision, RemoveStatus(j, r)
        PROVE  Quiet
    <3> DEFINE s == [ram EXCEPT !.posts = @ \ {<<j, r>>}]
    <3>1. s \in GoodHousehold /\ s.jobs = ram.jobs /\ s.posts \subseteq ram.posts
      BY <1>1 DEF GoodHousehold, Household
    <3>2. PICK answer \in Answer : Write(<<ram, s>>, 200, answer)
      BY <2>1 DEF RemoveStatus
    <3>3. lastJob' = lastJob
      BY <2>1 DEF RemoveStatus
    <3> HIDE DEF s
    <3>4. QED
      BY <3>1, <3>2, <3>3, OtherWriteShape
  <2>2. QED
    BY <1>2, <2>1, SchedulePostShape, CancelShape, RescheduleShape DEF Member, Shape
<1>3. CASE Admin
  <2>1. ASSUME NEW b \in Bots, SetScheduler(b)
        PROVE  Quiet
    <3> DEFINE s == [ram EXCEPT !.bridge = b]
    <3>1. s \in GoodHousehold /\ s.jobs = ram.jobs /\ s.posts \subseteq ram.posts
      BY <1>1 DEF GoodHousehold, Household
    <3>2. PICK answer \in Answer : Write(<<ram, s>>, 200, answer)
      BY <2>1 DEF SetScheduler
    <3>3. lastJob' = lastJob
      BY <2>1 DEF SetScheduler
    <3> HIDE DEF s
    <3>4. QED
      BY <3>1, <3>2, <3>3, OtherWriteShape
  <2>2. ASSUME NEW a \in Account, NEW state \in AccountState, ChangeAuthor(a, state)
        PROVE  Quiet
    <3> DEFINE s == [ram EXCEPT !.acct[a] = state]
    <3>1. s \in GoodHousehold /\ s.jobs = ram.jobs /\ s.posts \subseteq ram.posts
      BY <1>1 DEF GoodHousehold, Household
    <3>2. PICK answer \in Answer : Write(<<ram, s>>, 200, answer)
      BY <2>2 DEF ChangeAuthor
    <3>3. lastJob' = lastJob
      BY <2>2 DEF ChangeAuthor
    <3> HIDE DEF s
    <3>4. QED
      BY <3>1, <3>2, <3>3, OtherWriteShape
  <2>3. QED
    BY <1>3, <2>1, <2>2, DeleteAccountShape DEF Admin, Shape
<1>4. CASE Mastomini
  <2>1. CASE StartHandoff
    BY <2>1 DEF StartHandoff, Idle, Shape
  <2>2. CASE EndHandoff
    BY <2>2 DEF EndHandoff, Idle, Shape
  <2>3. QED
    BY <1>4, <2>1, <2>2 DEF Mastomini, Shape
<1>5. CASE Network
  <2>1. CASE ServeHandoff
    BY <2>1 DEF ServeHandoff, Idle, Shape
  <2>2. CASE LoseHandoff
    BY <2>2 DEF LoseHandoff, Idle, Shape
  <2>3. ASSUME NEW b \in Bots, ServeCallback(b)
        PROVE  Shape
    <3>1. PICK answer \in Answer :
            PublishScheduled(callback[b].id, callback[b].revision, answer)
      BY <2>3 DEF ServeCallback
    <3>2. callback[b].id \in Job /\ callback[b].revision \in Revision
      BY <1>1, <2>3, CallbackType DEF ServeCallback
    <3>3. lastJob' = lastJob
      BY <2>3 DEF ServeCallback
    <3>4. QED
      BY <3>1, <3>2, <3>3, PublishShape DEF Shape
  <2>4. ASSUME NEW b \in Bots, LoseCallback(b) \/ UnreachableCallback(b)
        PROVE  Shape
    BY <2>4 DEF LoseCallback, UnreachableCallback, Idle, Shape
  <2>5. ASSUME NEW m \in late, ServeLate(m)
        PROVE  Shape
    <3>1. lastJob' = lastJob
      BY <2>5 DEF ServeLate
    <3>2. CASE m.kind = "handoff"
      BY <2>5, <3>1, <3>2 DEF ServeLate, Idle, Shape
    <3>3. CASE m.kind # "handoff"
      <4>1. PICK answer \in Answer :
              PublishScheduled(m.body.id, m.body.revision, answer)
        BY <2>5, <3>3 DEF ServeLate
      <4>2. m.body.id \in Job /\ m.body.revision \in Revision
        BY <1>1, <2>5, <3>3 DEF RestOK
      <4>3. QED
        BY <3>1, <4>1, <4>2, PublishShape DEF Shape
    <3>4. QED
      BY <3>2, <3>3
  <2>6. QED
    BY <1>5, <2>1, <2>2, <2>3, <2>4, <2>5 DEF Network
<1>6. ASSUME NEW b \in Bots, Board(b)
      PROVE  Shape
  BY <1>6 DEF Board, Tick, SendCallback, EndCallback, RetryDue, BotsRestart,
              Idle, Shape
<1>7. CASE ClockTick \/ UNCHANGED vars
  BY <1>7 DEF ClockTick, vars, Idle, Shape
<1>8. QED
  BY <1>2, <1>3, <1>4, <1>5, <1>6, <1>7 DEF Next

-----------------------------------------------------------------------------
(***************************************************************************)
(* What boot makes of the stored household.                                *)
(***************************************************************************)
LEMMA LoadShape ==
  ASSUME flash \in GoodHousehold, NEW c
  PROVE  /\ LoadTo(c).posts = {p \in flash.posts : Live(flash, p[1])}
         /\ LoadTo(c).acct = flash.acct
         /\ \A j \in Job : LET x == flash.jobs[j]  y == LoadTo(c).jobs[j] IN
              /\ y.target = x.target
              /\ Exists(y) <=> Exists(x)
              /\ x.done => y.done
              /\ x.cancelled => y.cancelled
              /\ x.failure => y.failure \/ y.cancelled
              /\ y.failure => x.failure
              /\ y.done => x.done \/ (HasPost(flash, j) /\ Exists(x))
              /\ ~Exists(x) => y = x
              /\ j < c /\ HasPost(flash, j) /\ Live(flash, j) /\ Exists(x) => y.done
<1> DEFINE s == [flash EXCEPT !.posts = {p \in @ : Live(flash, p[1])}]
           f == [j \in Job |-> IF j < c THEN RepairJob(s, j) ELSE s.jobs[j]]
<1>1. /\ s \in GoodHousehold /\ s.jobs = flash.jobs /\ s.acct = flash.acct
      /\ s.posts = {p \in flash.posts : Live(flash, p[1])}
  BY DEF GoodHousehold, Household
<1>2. LoadTo(c) = [s EXCEPT !.jobs = f]
  BY DEF LoadTo
<1>3. \A j \in Job : Live(s, j) = Live(flash, j)
  BY <1>1 DEF Live
<1>4. \A j \in Job : HasPost(s, j) <=> HasPost(flash, j) /\ Live(flash, j)
  BY <1>1 DEF HasPost
<1> HIDE DEF s
<1>5. /\ LoadTo(c).posts = s.posts /\ LoadTo(c).acct = s.acct
      /\ \A j \in Job : LoadTo(c).jobs[j] = IF j < c THEN RepairJob(s, j)
                                                     ELSE s.jobs[j]
  BY <1>1, <1>2 DEF GoodHousehold, Household
<1>6. ASSUME NEW j \in Job
      PROVE  LET x == flash.jobs[j]  y == LoadTo(c).jobs[j] IN
              /\ y.target = x.target
              /\ Exists(y) <=> Exists(x)
              /\ x.done => y.done
              /\ x.cancelled => y.cancelled
              /\ x.failure => y.failure \/ y.cancelled
              /\ y.failure => x.failure
              /\ y.done => x.done \/ (HasPost(flash, j) /\ Exists(x))
              /\ ~Exists(x) => y = x
              /\ j < c /\ HasPost(flash, j) /\ Live(flash, j) /\ Exists(x) => y.done
  <2> DEFINE x == flash.jobs[j]
             closed == IF Exists(x) /\ ~Live(s, j) /\ ~x.cancelled
                       THEN CancelledFor(x) ELSE x
  <2>1. x \in GoodJob
    BY GoodJobs
  <2>2. /\ closed \in GoodJob /\ closed.target = x.target
        /\ Exists(closed) <=> Exists(x)
        /\ closed.done = x.done
        /\ x.cancelled => closed.cancelled
        /\ x.failure => closed.failure \/ closed.cancelled
        /\ closed.failure => x.failure
        /\ ~Exists(x) => closed = x
    <3>1. CASE Exists(x) /\ ~Live(s, j) /\ ~x.cancelled
      <4>1. /\ CancelledFor(x) \in GoodJob /\ CancelledFor(x).target = x.target
            /\ CancelledFor(x).revision = x.revision + 1
            /\ CancelledFor(x).done = x.done /\ CancelledFor(x).cancelled
            /\ ~CancelledFor(x).failure
        BY <2>1, <3>1, CancelledForGood DEF CancelledFor, GoodJob, Scheduled
      <4>2. Exists(CancelledFor(x))
        BY <2>1, <3>1, <4>1, Bounds DEF Exists, GoodJob, Scheduled
      <4>3. QED
        BY <3>1, <4>1, <4>2
    <3>2. CASE ~(Exists(x) /\ ~Live(s, j) /\ ~x.cancelled)
      BY <2>1, <3>2
    <3>3. QED
      BY <3>1, <3>2
  <2>3. RepairJob(s, j) = IF Exists(x) /\ HasPost(s, j)
                          THEN [closed EXCEPT !.done = TRUE] ELSE closed
    BY <1>1 DEF RepairJob
  <2> HIDE DEF closed, x
  <2>4. LET y == [closed EXCEPT !.done = TRUE] IN
        /\ y.target = closed.target /\ y.revision = closed.revision
        /\ y.cancelled = closed.cancelled /\ y.failure = closed.failure /\ y.done
    BY <2>2 DEF GoodJob, Scheduled
  <2>5. LoadTo(c).jobs[j] = IF j < c THEN RepairJob(s, j) ELSE x
    BY <1>1, <1>5 DEF x
  <2>6. CASE j < c /\ Exists(x) /\ HasPost(s, j)
    BY <1>3, <1>4, <2>2, <2>3, <2>4, <2>5, <2>6 DEF Exists, x
  <2>7. CASE j < c /\ ~(Exists(x) /\ HasPost(s, j))
    BY <1>3, <1>4, <2>2, <2>3, <2>5, <2>7 DEF Exists, x
  <2>8. CASE ~(j < c)
    BY <2>5, <2>8 DEF x
  <2>9. QED
    BY <2>6, <2>7, <2>8
<1>7. QED
  BY <1>1, <1>5, <1>6

-----------------------------------------------------------------------------
(***************************************************************************)
(* The invariant is inductive where no write is refused as full.           *)
(***************************************************************************)
LEMMA InitOnce == Init => OnceInv
<1> SUFFICES ASSUME Init PROVE OnceInv
  OBVIOUS
<1>1. /\ \A j \in Job : flash.jobs[j] = NoJob /\ commits[j] = 0
      /\ flash.posts = {}
  BY DEF Init
<1>2. ~NoJob.done
  BY DEF NoJob
<1>3. QED
  BY <1>1, <1>2 DEF OnceInv, AtMostOnce, Receipt

LEMMA IdleOnce ==
  ASSUME OnceInv, Idle
  PROVE  OnceInv'
  BY DEF Idle, OnceInv, AtMostOnce, Receipt, HasPost, Live

LEMMA QuietOnce ==
  ASSUME TypeOK, OnceInv, Quiet
  PROVE  OnceInv'
<1>1. StoreOK /\ RestOK
  BY TypeParts
<1>2. /\ ~NoJob.done /\ ~Exists(NoJob)
      /\ \A j \in Job : commits[j] = 1 /\ Exists(flash.jobs[j])
                          /\ ~flash.jobs[j].cancelled => flash.jobs[j].done
  BY DEF NoJob, Exists, OnceInv, Receipt, Quiet
<1>3. AtMostOnce'
  BY DEF OnceInv, AtMostOnce, Quiet
<1>4. ASSUME NEW j \in Job
      PROVE  /\ Receipt(j)'
             /\ flash'.jobs[j].done => commits'[j] = 1
             /\ j > lastJob' => flash'.jobs[j] = NoJob /\ commits'[j] = 0
  <2> DEFINE x == flash.jobs[j]
             y == flash'.jobs[j]
  <2>1. QuietJob(j) /\ commits'[j] = commits[j] /\ lastJob' \in {lastJob, lastJob + 1}
    BY DEF Quiet
  <2>2. lastJob \in Nat /\ j \in Nat
    BY <1>1, Bounds DEF RestOK, Job
  <2>3. j > lastJob => x = NoJob /\ commits[j] = 0
    BY DEF OnceInv
  <2>4. x.done => commits[j] = 1
    BY DEF OnceInv
  <2>5. commits'[j] = 1 /\ Exists(y) /\ ~y.cancelled => y.done
    <3>1. commits[j] = 1 /\ Exists(x) /\ ~x.cancelled => x.done
      BY <1>2
    <3>2. commits[j] = 1 => j # lastJob + 1
      BY <2>2, <2>3
    <3>3. QED
      BY <1>2, <2>1, <3>1, <3>2 DEF QuietJob
  <2>6. y.done => commits'[j] = 1
    BY <1>2, <2>1, <2>4 DEF QuietJob
  <2>7. j > lastJob' => y = NoJob /\ commits'[j] = 0
    BY <1>2, <2>1, <2>2, <2>3 DEF QuietJob
  <2>8. QED
    BY <2>5, <2>6, <2>7 DEF Receipt
<1>5. \A j \in Job, r \in Revision : <<j, r>> \in flash'.posts => commits'[j] = 1
  BY DEF OnceInv, Quiet
<1>6. QED
  BY <1>3, <1>4, <1>5 DEF OnceInv

LEMMA PostingOnce ==
  ASSUME TypeOK, OnceInv, ~FullFaults, NEW j \in Job, Posting(j)
  PROVE  OnceInv'
<1>1. StoreOK /\ RestOK
  BY TypeParts
<1> DEFINE x == flash.jobs[j]
           y == flash'.jobs[j]
<1>2. commits[j] = 0
  <2>1. commits[j] \in 0..2 /\ commits[j] <= 1
    BY <1>1 DEF StoreOK, OnceInv, AtMostOnce
  <2>2. commits[j] # 1
    BY DEF OnceInv, Receipt, Posting
  <2>3. QED
    BY <2>1, <2>2
<1>3. \A i \in Job : NewPost(i) <=> i = j
  <2>1. <<j, y.target>> \notin flash.posts /\ y.target \in Revision
    BY <1>2 DEF OnceInv, Posting
  <2>2. QED
    BY <2>1 DEF NewPost, Posting
<1>4. commits'[j] = 1 /\ \A i \in Job \ {j} : commits'[i] = commits[i]
  BY <1>2, <1>3 DEF Posting, Counted
<1>5. AtMostOnce'
  BY <1>4 DEF OnceInv, AtMostOnce
<1>6. Receipt(j)'
  <2>1. y.done \/ mode' # "up"
    BY DEF Posting
  <2>2. HasPost(flash, j)' /\ Live(flash, j)'
    BY Bounds DEF Posting, HasPost, Live, Revision
  <2>3. QED
    BY <2>1, <2>2 DEF Receipt
<1>7. \A i \in Job \ {j} : Receipt(i)'
  BY <1>4 DEF OnceInv, Receipt, Posting
<1>8. \A i \in Job, r \in Revision : <<i, r>> \in flash'.posts => commits'[i] = 1
  BY <1>4 DEF OnceInv, Posting
<1>9. \A i \in Job : flash'.jobs[i].done => commits'[i] = 1
  BY <1>4 DEF OnceInv, Posting
<1>10. \A i \in Job : i > lastJob' => flash'.jobs[i] = NoJob /\ commits'[i] = 0
  <2>1. ~(j > lastJob)
    BY DEF OnceInv, Posting, Exists, NoJob
  <2>2. QED
    BY <1>4, <2>1 DEF OnceInv, Posting
<1>11. QED
  BY <1>5, <1>6, <1>7, <1>8, <1>9, <1>10 DEF OnceInv

LEMMA PowerOnce ==
  ASSUME TypeOK, OnceInv, Boot \/ BootFails \/ PowerCut
  PROVE  OnceInv'
<1>1. StoreOK /\ RestOK /\ flash \in GoodHousehold
  BY TypeParts DEF StoreOK
<1>2. CASE PowerCut
  <2>1. UNCHANGED <<flash, commits, lastJob>> /\ mode' = "down"
    BY <1>2 DEF PowerCut
  <2>2. QED
    BY <2>1 DEF OnceInv, AtMostOnce, Receipt, HasPost, Live
<1>3. ASSUME NEW c \in 1..(MaxJobs + 1), flash' = LoadTo(c),
             UNCHANGED <<commits, lastJob>>, mode = "down",
             mode' = "down" \/ c = MaxJobs + 1
      PROVE  OnceInv'
  <2>1. AtMostOnce'
    BY <1>3 DEF OnceInv, AtMostOnce
  <2>2. \A j \in Job, r \in Revision : <<j, r>> \in flash'.posts => commits'[j] = 1
    BY <1>1, <1>3, LoadShape DEF OnceInv
  <2>3. ASSUME NEW j \in Job
        PROVE  /\ Receipt(j)'
               /\ flash'.jobs[j].done => commits'[j] = 1
               /\ j > lastJob' => flash'.jobs[j] = NoJob /\ commits'[j] = 0
    <3> DEFINE x == flash.jobs[j]
               y == flash'.jobs[j]
    <3>1. /\ y.target = x.target
          /\ Exists(y) <=> Exists(x)
          /\ x.done => y.done
          /\ x.cancelled => y.cancelled
          /\ y.done => x.done \/ (HasPost(flash, j) /\ Exists(x))
          /\ ~Exists(x) => y = x
          /\ j < c /\ HasPost(flash, j) /\ Live(flash, j) /\ Exists(x) => y.done
          /\ flash'.posts = {p \in flash.posts : Live(flash, p[1])}
          /\ flash'.acct = flash.acct
      BY <1>1, <1>3, LoadShape
    <3>2. x.target \in 0..(MaxRevision + 1)
      BY <1>1 DEF GoodHousehold, Household, Scheduled
    <3>3. HasPost(flash, j) => commits[j] = 1
      BY <3>2, Bounds DEF OnceInv, HasPost, Revision
    <3>4. y.done => commits'[j] = 1
      BY <1>3, <3>1, <3>3 DEF OnceInv
    <3>5. j > lastJob' => y = NoJob /\ commits'[j] = 0
      BY <1>3, <3>1 DEF OnceInv, Exists, NoJob
    <3>6. HasPost(flash, j) /\ Live(flash, j) => HasPost(flash, j)' /\ Live(flash, j)'
      BY <3>1 DEF HasPost, Live
    <3>7. j < MaxJobs + 1
      BY Bounds DEF Job
    <3>8. Receipt(j)'
      <4>1. SUFFICES ASSUME commits[j] = 1, Exists(y), ~y.cancelled, ~y.done
                     PROVE  mode' # "up" /\ HasPost(flash, j)' /\ Live(flash, j)'
        BY <1>3 DEF Receipt
      <4>2. HasPost(flash, j) /\ Live(flash, j) /\ Exists(x)
        BY <3>1, <4>1 DEF OnceInv, Receipt
      <4>3. ~(j < c)
        BY <3>1, <4>1, <4>2
      <4>4. QED
        BY <1>3, <3>6, <3>7, <4>2, <4>3
    <3>9. QED
      BY <3>4, <3>5, <3>8
  <2>4. QED
    BY <2>1, <2>2, <2>3 DEF OnceInv
<1>4. CASE Boot
  <2>1. MaxJobs + 1 \in 1..(MaxJobs + 1)
    BY Bounds
  <2>2. QED
    BY <1>3, <1>4, <2>1 DEF Boot
<1>5. CASE BootFails
  <2>1. PICK c \in 1..(MaxJobs + 1) : flash' = LoadTo(c)
    BY <1>5 DEF BootFails
  <2>2. QED
    BY <1>3, <1>5, <2>1 DEF BootFails
<1>6. QED
  BY <1>2, <1>4, <1>5

LEMMA NextOnce ==
  ASSUME ~FullFaults
  PROVE  TypeOK /\ OnceInv /\ [Next]_vars => OnceInv'
  BY NextShape, IdleOnce, QuietOnce, PostingOnce, PowerOnce DEF Shape

\* Where no write is refused because the flash is full, a draft becomes a
\* status at most once, for any number of jobs, boards, failures and late
\* callbacks.
THEOREM PublishedAtMostOnce ==
  ASSUME ~FullFaults
  PROVE  Spec => []AtMostOnce
<1>1. Init => OnceInv
  BY InitOnce
<1>2. TypeOK /\ OnceInv /\ [Next]_vars => OnceInv'
  BY NextOnce
<1>3. OnceInv => AtMostOnce
  BY DEF OnceInv
<1>4. QED
  BY <1>1, <1>2, <1>3, TypeCorrect, PTL DEF Spec

-----------------------------------------------------------------------------
LEMMA ClosedStep ==
  ASSUME TypeOK, [Next]_vars
  PROVE  \A j \in Job : Closed(j) => Closed(j)' /\ commits'[j] = commits[j]
<1> SUFFICES ASSUME NEW j \in Job, Closed(j)
             PROVE  Closed(j)' /\ commits'[j] = commits[j]
  OBVIOUS
<1>1. StoreOK /\ RestOK /\ flash \in GoodHousehold /\ lastJob \in Nat /\ j \in Nat
  BY TypeParts, Bounds DEF StoreOK, RestOK, Job
<1>2. CASE Idle
  BY <1>2 DEF Idle, Closed
<1>3. CASE Quiet
  <2>1. QuietJob(j) /\ lastJob' \in {lastJob, lastJob + 1} /\ commits' = commits
    BY <1>3 DEF Quiet
  <2>2. ~Exists(NoJob)
    BY DEF NoJob, Exists
  <2>3. QED
    <3> DEFINE x == flash.jobs[j]
               y == flash'.jobs[j]
    <3>1. j <= lastJob /\ (~Exists(x) \/ x.cancelled)
      BY DEF Closed
    <3>2. j <= lastJob' /\ j # lastJob + 1
      BY <1>1, <2>1, <3>1
    <3>3. ~Exists(y) \/ y.cancelled
      BY <2>1, <2>2, <3>1, <3>2 DEF QuietJob
    <3>4. QED
      BY <2>1, <3>2, <3>3 DEF Closed
<1>4. ASSUME NEW i \in Job, Posting(i)
      PROVE  Closed(j)' /\ commits'[j] = commits[j]
  <2>1. i # j
    BY <1>4 DEF Posting, Closed
  <2>2. ~NewPost(j)
    BY <1>4, <2>1 DEF Posting, NewPost
  <2>3. QED
    BY <1>4, <2>1, <2>2 DEF Posting, Closed
<1>5. ASSUME NEW c, flash' = LoadTo(c), UNCHANGED <<commits, lastJob>>
      PROVE  Closed(j)' /\ commits'[j] = commits[j]
  BY <1>1, <1>5, LoadShape DEF Closed
<1>6. CASE Boot \/ BootFails
  BY <1>5, <1>6 DEF Boot, BootFails
<1>7. CASE PowerCut
  BY <1>7 DEF PowerCut, Closed
<1>8. QED
  BY <1>2, <1>3, <1>4, <1>6, <1>7, NextShape DEF Shape

\* Even where writes may be refused as full, no callback publishes a job after
\* it was cancelled or retired, and nothing reopens it.
THEOREM ClosedStaysClosed == Spec => ClosedForGood
<1>1. TypeOK /\ [Next]_vars =>
        [\A j \in Job : Closed(j) => Closed(j)' /\ commits'[j] = commits[j]]_vars
  BY ClosedStep
<1>2. QED
  BY <1>1, TypeCorrect, PTL DEF Spec, ClosedForGood

-----------------------------------------------------------------------------
(***************************************************************************)
(* The protocol implements ScheduledJob.                                   *)
(***************************************************************************)
LEMMA OutcomeIs ==
  ASSUME NEW j \in Job, commits[j] \in {0, 1}, j \in Nat, lastJob \in Nat
  PROVE  /\ commits[j] = 1 => Outcome(j) = "published"
         /\ commits[j] = 0 /\ j > lastJob => Outcome(j) = "none"
         /\ commits[j] = 0 /\ Closed(j) => Outcome(j) = "cancelled"
         /\ commits[j] = 0 /\ j <= lastJob /\ ~Closed(j) =>
              Outcome(j) = IF flash.jobs[j].failure THEN "failed" ELSE "pending"
<1>1. CASE commits[j] = 1
  BY <1>1 DEF Outcome
<1>2. CASE commits[j] = 0 /\ j > lastJob
  BY <1>2 DEF Outcome, Closed
<1>3. CASE commits[j] = 0 /\ Closed(j)
  BY <1>3 DEF Outcome, Closed
<1>4. CASE commits[j] = 0 /\ j <= lastJob /\ ~Closed(j)
  BY <1>4 DEF Outcome, Closed
<1>5. QED
  BY <1>1, <1>2, <1>3, <1>4 DEF Closed

LEMMA NextOutcomeIs ==
  ASSUME NEW j \in Job, commits'[j] \in {0, 1}, j \in Nat, lastJob' \in Nat
  PROVE  /\ commits'[j] = 1 => Outcome(j)' = "published"
         /\ commits'[j] = 0 /\ j > lastJob' => Outcome(j)' = "none"
         /\ commits'[j] = 0 /\ Closed(j)' => Outcome(j)' = "cancelled"
         /\ commits'[j] = 0 /\ j <= lastJob' /\ ~Closed(j)' =>
              Outcome(j)' = IF flash'.jobs[j].failure THEN "failed" ELSE "pending"
<1>1. CASE commits'[j] = 1
  BY <1>1 DEF Outcome
<1>2. CASE commits'[j] = 0 /\ j > lastJob'
  BY <1>2 DEF Outcome, Closed
<1>3. CASE commits'[j] = 0 /\ Closed(j)'
  BY <1>3 DEF Outcome, Closed
<1>4. CASE commits'[j] = 0 /\ j <= lastJob' /\ ~Closed(j)'
  BY <1>4 DEF Outcome, Closed
<1>5. QED
  BY <1>1, <1>2, <1>3, <1>4 DEF Closed

LEMMA OutcomeStep ==
  ASSUME ~FullFaults, TypeOK, TypeOK', OnceInv, OnceInv', [Next]_vars, NEW j \in Job
  PROVE  \/ Outcome(j)' = Outcome(j)
         \/ <<Outcome(j), Outcome(j)'>> \in Promise!Moves
<1> DEFINE x == flash.jobs[j]
           y == flash'.jobs[j]
<1>1. /\ StoreOK /\ RestOK /\ flash \in GoodHousehold
      /\ lastJob \in Nat /\ lastJob' \in Nat /\ j \in Nat
  BY TypeParts, NextTypeParts, Bounds DEF StoreOK, RestOK, Job
<1>2. commits[j] \in {0, 1} /\ commits'[j] \in {0, 1}
  BY TypeParts, NextTypeParts DEF StoreOK, OnceInv, AtMostOnce
<1>3. ~Exists(NoJob) /\ (j > lastJob => x = NoJob)
  BY DEF NoJob, Exists, OnceInv
<1>4. CASE Idle \/ PowerCut
  BY <1>4 DEF Idle, PowerCut, Outcome, Closed
<1>5. CASE Quiet
  <2>1. QuietJob(j) /\ lastJob' \in {lastJob, lastJob + 1} /\ commits'[j] = commits[j]
    BY <1>5 DEF Quiet
  <2>2. CASE commits[j] = 1
    BY <1>1, <1>2, <2>1, <2>2, OutcomeIs, NextOutcomeIs
  <2>3. CASE commits[j] = 0 /\ j > lastJob
    <3>1. Outcome(j) = "none"
      BY <1>1, <1>2, <2>3, OutcomeIs
    <3>2. CASE j > lastJob'
      BY <1>1, <1>2, <2>1, <2>3, <3>1, <3>2, NextOutcomeIs
    <3>3. CASE j <= lastJob'
      <4>1. j = lastJob + 1 /\ lastJob' = j
        BY <1>1, <2>1, <2>3, <3>3
      <4>2. Exists(y)
        BY <1>1, <1>5, <4>1 DEF Quiet
      <4>3. ~y.cancelled /\ ~y.failure
        BY <1>3, <2>1, <2>3, <4>2 DEF QuietJob
      <4>4. ~Closed(j)'
        BY <4>2, <4>3 DEF Closed
      <4>5. Outcome(j)' = "pending"
        BY <1>1, <1>2, <2>1, <2>3, <3>3, <4>3, <4>4, NextOutcomeIs
      <4>6. QED
        BY <3>1, <4>5 DEF Promise!Moves
    <3>4. QED
      BY <1>1, <3>2, <3>3
  <2>4. CASE commits[j] = 0 /\ Closed(j)
    <3>1. Closed(j)'
      BY <2>4, ClosedStep
    <3>2. QED
      BY <1>1, <1>2, <2>1, <2>4, <3>1, OutcomeIs, NextOutcomeIs
  <2>5. CASE commits[j] = 0 /\ j <= lastJob /\ ~Closed(j)
    <3>1. Outcome(j) = IF x.failure THEN "failed" ELSE "pending"
      BY <1>1, <1>2, <2>5, OutcomeIs
    <3>2. Exists(x) /\ ~x.cancelled /\ ~x.done /\ j # lastJob + 1 /\ j <= lastJob'
      BY <1>1, <2>1, <2>5 DEF Closed, OnceInv
    <3>3. \/ y = x
          \/ y.cancelled
          \/ Exists(y) /\ ~y.cancelled /\ (x.failure => y.failure)
      BY <2>1, <3>2 DEF QuietJob
    <3>4. CASE Closed(j)'
      BY <1>1, <1>2, <2>1, <2>5, <3>1, <3>4, NextOutcomeIs DEF Promise!Moves
    <3>5. CASE ~Closed(j)'
      <4>1. Outcome(j)' = IF y.failure THEN "failed" ELSE "pending"
        BY <1>1, <1>2, <2>1, <2>5, <3>2, <3>5, NextOutcomeIs
      <4>2. x.failure => y.failure
        BY <3>2, <3>3, <3>5 DEF Closed
      <4>3. QED
        BY <3>1, <4>1, <4>2 DEF Promise!Moves
    <3>6. QED
      BY <3>4, <3>5
  <2>6. QED
    BY <1>1, <1>2, <2>2, <2>3, <2>4, <2>5
<1>6. ASSUME NEW i \in Job, Posting(i)
      PROVE  \/ Outcome(j)' = Outcome(j)
             \/ <<Outcome(j), Outcome(j)'>> \in Promise!Moves
  <2>1. lastJob' = lastJob
    BY <1>6 DEF Posting
  <2>2. CASE i = j
    <3>1. commits[j] = 0
      BY <1>2, <1>6, <2>2 DEF OnceInv, Receipt, Posting
    <3>2. Exists(x) /\ ~x.cancelled /\ ~x.failure
      BY <1>6, <2>2 DEF Posting
    <3>3. j <= lastJob /\ ~Closed(j)
      BY <1>1, <1>3, <3>2 DEF Closed
    <3>4. Outcome(j) = "pending"
      BY <1>1, <1>2, <3>1, <3>2, <3>3, OutcomeIs
    <3>5. commits'[j] = 1
      <4>1. <<j, y.target>> \in flash'.posts /\ y.target \in Revision
        BY <1>6, <2>2 DEF Posting
      <4>2. QED
        BY <4>1 DEF OnceInv
    <3>6. Outcome(j)' = "published"
      BY <1>1, <1>2, <3>5, NextOutcomeIs
    <3>7. QED
      BY <3>4, <3>6 DEF Promise!Moves
  <2>3. CASE i # j
    <3>1. y = x /\ ~NewPost(j)
      BY <1>6, <2>3 DEF Posting, NewPost
    <3>2. commits'[j] = commits[j]
      BY <1>6, <3>1 DEF Posting
    <3>3. QED
      BY <2>1, <3>1, <3>2 DEF Outcome, Closed
  <2>4. QED
    BY <2>2, <2>3
<1>7. ASSUME NEW c, flash' = LoadTo(c), UNCHANGED <<commits, lastJob>>
      PROVE  \/ Outcome(j)' = Outcome(j)
             \/ <<Outcome(j), Outcome(j)'>> \in Promise!Moves
  <2>1. /\ Exists(y) <=> Exists(x)
        /\ x.failure => y.failure \/ y.cancelled
        /\ y.failure => x.failure
    BY <1>1, <1>7, LoadShape
  <2>2. CASE commits[j] = 1 \/ j > lastJob \/ Closed(j)
    <3>1. Closed(j) => Closed(j)'
      BY ClosedStep
    <3>2. QED
      BY <1>1, <1>2, <1>7, <2>2, <3>1, OutcomeIs, NextOutcomeIs
  <2>3. CASE commits[j] = 0 /\ j <= lastJob /\ ~Closed(j)
    <3>1. Outcome(j) = IF x.failure THEN "failed" ELSE "pending"
      BY <1>1, <1>2, <2>3, OutcomeIs
    <3>2. CASE Closed(j)'
      <4>1. Outcome(j)' = "cancelled"
        BY <1>1, <1>2, <1>7, <2>3, <3>2, NextOutcomeIs
      <4>2. QED
        BY <3>1, <4>1 DEF Promise!Moves
    <3>3. CASE ~Closed(j)'
      <4>1. Outcome(j)' = IF y.failure THEN "failed" ELSE "pending"
        BY <1>1, <1>2, <1>7, <2>3, <3>3, NextOutcomeIs
      <4>2. x.failure <=> y.failure
        BY <1>7, <2>1, <2>3, <3>3 DEF Closed
      <4>3. QED
        BY <3>1, <4>1, <4>2
    <3>4. QED
      BY <3>2, <3>3
  <2>4. QED
    BY <1>1, <1>2, <2>2, <2>3
<1>8. CASE Boot \/ BootFails
  BY <1>7, <1>8 DEF Boot, BootFails
<1>9. QED
  BY <1>4, <1>5, <1>6, <1>8, NextShape DEF Shape

\* Where no write is refused because the flash is full, the two boards
\* implement ScheduledJob: from submission on, every draft moves only along
\* pending, failed, cancelled and published, and the last two are final.
THEOREM PromiseKept ==
  ASSUME ~FullFaults
  PROVE  Spec => KeepsPromise
<1> DEFINE all == [j \in Job |-> Outcome(j)]
<1>1. Init => Promise!Init
  <2> SUFFICES ASSUME Init PROVE \A j \in Job : Outcome(j) = "none"
    BY DEF Promise!Init
  <2>1. \A j \in Job : commits[j] = 0 /\ j > lastJob /\ j \in Nat /\ lastJob \in Nat
    BY Bounds DEF Init, Job
  <2>2. QED
    BY <2>1, OutcomeIs
<1>2. TypeOK /\ TypeOK' /\ OnceInv /\ OnceInv' /\ [Next]_vars
        => [Promise!Next]_all
  BY OutcomeStep DEF Promise!Next
<1>3. Init => OnceInv
  BY InitOnce
<1>4. TypeOK /\ OnceInv /\ [Next]_vars => OnceInv'
  BY NextOnce
<1>5. QED
  BY <1>1, <1>2, <1>3, <1>4, TypeCorrect, PTL DEF Spec, KeepsPromise, Promise!Spec
=============================================================================
