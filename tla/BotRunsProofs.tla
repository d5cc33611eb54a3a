---------------------------- MODULE BotRunsProofs ----------------------------
(***************************************************************************)
(* Proofs about BotRuns, for any schedules, grace, waits and lifetime of a *)
(* key and any number of faults and changes of settings: the inductive     *)
(* invariant that ties the two records, the run under way and the          *)
(* household's keys to what was posted and settled, and from it that a     *)
(* slot is posted once, that one that was settled is never taken again and *)
(* that none is taken from before the bot was turned on.                   *)
(***************************************************************************)
EXTENDS BotRuns, WellFoundedInduction, SequenceTheorems, TLAPS

(***************************************************************************)
(* The inductive invariant.                                                *)
(***************************************************************************)
\* The household posts a slot once for each time that it knows no key of it.
Remembered == \A s \in Slots : posts[s] <= forgot[s] + (IF keys[s] > now THEN 1 ELSE 0)

\* What a record leaves to run came after the bot was turned on or moved, if no
\* run was under way then.
FromNow(r) ==
    r.enabled /\ r.last # None /\ ~busy => \A x \in r.schedule : x > r.last => x > since

\* What a record leaves to run is later than everything settled: also for a record
\* that an older run wrote back, or one from before a save that failed.
AfterSettled(r) ==
    r.enabled /\ r.last # None =>
        \A z \in r.schedule : z > r.last => \A x \in settled : z > x

\* The same of the run under way.
Running ==
    /\ job.kind # "none" /\ ~busy => job.from = since
    /\ job.kind = "scheduled" =>
           /\ job.slot \in Slots /\ job.slot <= now
           /\ \A x \in settled : x < job.slot
           /\ ~busy => job.slot > since

Past == \A x \in settled : x <= now

Inv == /\ TypeOK /\ Remembered /\ Past /\ Running
       /\ FromNow(rec) /\ FromNow(disk) /\ AfterSettled(rec) /\ AfterSettled(disk)

-----------------------------------------------------------------------------
(* Facts about the schedule and the constants. *)

\* A set of numbers up to n has a greatest element, which Max returns.
LEMMA MaxOf ==
  ASSUME NEW n \in Nat, NEW S, S \subseteq 0..n, S # {}
  PROVE  Max(S) \in S /\ \A x \in S : x <= Max(S)
<1> DEFINE T == {n - x : x \in S}
<1>1. T \subseteq Nat /\ T # {}
  <2>1. \A x \in S : n - x \in Nat
    OBVIOUS
  <2> QED BY <2>1
<1>2. PICK m \in T : \A k \in T : m <= k
  <2> DEFINE R == OpToRel(<, Nat)
  <2>1. IsWellFoundedOn(R, Nat)
    BY NatLessThanWellFounded
  <2>2. \A k, l \in Nat : k < l => <<k, l>> \in R
    BY DEF OpToRel
  <2> HIDE DEF R, T
  <2>3. PICK m \in T : \A k \in T : <<k, m>> \notin R
    BY <1>1, <2>1, WFMin, Zenon
  <2>4. \A k \in T : ~(k < m)
    BY <1>1, <2>2, <2>3
  <2> QED BY <1>1, <2>3, <2>4
<1>3. PICK y \in S : m = n - y
  OBVIOUS
<1>4. \A x \in S : y >= x
  <2>1. ASSUME NEW x \in S PROVE y >= x
    <3>1. n - x \in T
      OBVIOUS
    <3>2. m <= n - x
      BY <1>2, <3>1
    <3> QED BY <1>3, <3>2
  <2> QED BY <2>1
<1>5. \E z \in S : \A x \in S : z >= x
  BY <1>4
<1>6. Max(S) \in S /\ \A x \in S : Max(S) >= x
  <2> HIDE DEF T
  <2> QED BY <1>5, Zenon DEF Max
<1> QED BY <1>6

LEMMA Constants ==
  ASSUME BotAssumption
  PROVE  /\ MaxNow \in Nat /\ KeyLife \in Nat /\ KeyLife > 0 /\ Grace \in Nat /\ Slots \subseteq 1..MaxNow
         /\ \A s \in Schedules : s \subseteq Slots /\ 1 \in s
         /\ MaxNow >= 1
<1>1. \A s \in Schedules : 1 \in s /\ s \subseteq 1..MaxNow
  BY DEF BotAssumption
<1>2. MaxNow \in Nat /\ KeyLife \in Nat /\ Grace \in Nat /\ KeyLife > 0 /\ Schedules # {}
  BY DEF BotAssumption
<1>3. PICK s \in Schedules : 1 \in 1..MaxNow
  BY <1>1, <1>2
<1> QED
  BY <1>1, <1>2, <1>3 DEF Slots

\* The latest slot at a time is a slot, and no slot lies between it and that time.
LEMMA LatestAtIs ==
  ASSUME BotAssumption, NEW s \in Schedules, NEW t \in 1..MaxNow
  PROVE  /\ LatestAt(s, t) \in s /\ LatestAt(s, t) \in Slots /\ LatestAt(s, t) <= t
         /\ LatestAt(s, t) # None /\ LatestAt(s, t) \in 1..MaxNow
         /\ \A x \in s : x <= t => x <= LatestAt(s, t)
<1> DEFINE passed == {x \in s : x <= t}
<1>1. s \subseteq Slots /\ 1 \in s /\ Slots \subseteq 1..MaxNow /\ MaxNow \in Nat
  BY Constants
<1>2. passed \subseteq 0..MaxNow /\ passed # {}
  <2>1. 1 <= t
    OBVIOUS
  <2>2. 1 \in passed
    BY <1>1, <2>1
  <2>3. \A x \in s : x \in 0..MaxNow
    BY <1>1
  <2> QED BY <2>2, <2>3
<1>3. Max(passed) \in passed /\ \A x \in passed : x <= Max(passed)
  <2> HIDE DEF passed
  <2> QED BY <1>1, <1>2, MaxOf
<1>4. LatestAt(s, t) = Max(passed)
  BY <1>2 DEF LatestAt
<1>5. Max(passed) \in s /\ Max(passed) <= t
  BY <1>3
<1>6. Max(passed) \in Slots /\ Max(passed) \in 1..MaxNow
  BY <1>1, <1>5
<1>7. \A x \in s : x <= t => x <= Max(passed)
  BY <1>3
<1> HIDE DEF passed
<1> QED
  BY <1>4, <1>5, <1>6, <1>7 DEF None

LEMMA WaitIs ==
  ASSUME BotAssumption, TypeOK
  PROVE  Wait \in Nat /\ Wait > 0
<1>1. Waits \in Seq(1..MaxNow) /\ Waits # <<>> /\ rt.attempt \in Nat /\ MaxNow \in Nat
  BY DEF BotAssumption, TypeOK
<1>2. Len(Waits) \in Nat /\ Len(Waits) > 0
  BY <1>1, EmptySeq
<1>3. (IF rt.attempt < Len(Waits) THEN rt.attempt + 1 ELSE Len(Waits)) \in 1..Len(Waits)
  BY <1>1, <1>2
<1>4. \A i \in 1..Len(Waits) : Waits[i] \in 1..MaxNow
  BY <1>1
<1> QED
  BY <1>1, <1>3, <1>4 DEF Wait

-----------------------------------------------------------------------------
(* The initial states and the steps. *)

LEMMA InitInv ==
  ASSUME BotAssumption, Init
  PROVE  Inv
<1>1. TypeOK
  <2>1. now \in 1..MaxNow /\ since \in 0..now /\ rec \in Records /\ disk \in Records
    BY Constants DEF Init, Records
  <2>2. job \in [kind : Kinds \cup {"none"}, slot : 0..MaxNow,
                 result : {"none", "ok", "retry", "permanent"}, from : 0..MaxNow]
    BY Constants DEF Init, NoJob, None
  <2>3. rt \in [running : BOOLEAN, attempt : Nat, retryAt : Nat, manual : BOOLEAN, check : BOOLEAN]
    BY DEF Init, IdleRun, None
  <2>4. keys \in [Slots -> 0..MaxNow + KeyLife] /\ posts \in [Slots -> Nat] /\ forgot \in [Slots -> Nat]
    BY Constants DEF Init
  <2> QED
    BY <2>1, <2>2, <2>3, <2>4 DEF Init, TypeOK, IdleRun, NoJob
<1>2. Remembered /\ Past /\ Running
  BY DEF Init, Remembered, Past, Running, NoJob
<1>3. FromNow(rec) /\ FromNow(disk) /\ AfterSettled(rec) /\ AfterSettled(disk)
  BY DEF Init, FromNow, AfterSettled
<1> QED
  BY <1>1, <1>2, <1>3 DEF Inv

LEMMA ConfigureKeeps ==
  ASSUME BotAssumption, Inv, NEW on \in BOOLEAN, NEW ok \in BOOLEAN, NEW s \in Schedules, Configure(on, s, ok)
  PROVE  Inv'
<1>0. TypeOK /\ Remembered /\ Past /\ Running /\ MaxNow \in Nat /\ KeyLife \in Nat
  BY Constants DEF Inv
<1>a. FromNow(rec) /\ FromNow(disk) /\ AfterSettled(rec) /\ AfterSettled(disk)
  BY DEF Inv
<1>c. now \in 1..MaxNow
  BY <1>0 DEF TypeOK
<1>b. /\ LatestAt(s, now) \in s /\ LatestAt(s, now) \in Slots /\ LatestAt(s, now) <= now
      /\ \A x \in s : x <= now => x <= LatestAt(s, now)
      /\ s \subseteq Nat /\ Slots \subseteq Nat
  BY <1>c, LatestAtIs, Constants
<1>1. TypeOK'
  <2>1. now' \in 1..MaxNow /\ clock' \in BOOLEAN /\ changes' \in Nat /\ faults' \in Nat
    BY <1>0, <1>b DEF Configure, TypeOK, Saved, None
  <2>2. rec' \in Records /\ disk' \in Records
    BY <1>0, <1>b DEF Configure, TypeOK, Saved, None, Records
  <2>3. rt' \in [running : BOOLEAN, attempt : Nat, retryAt : Nat, manual : BOOLEAN, check : BOOLEAN]
    BY <1>0, <1>b DEF Configure, TypeOK, Saved, None
  <2>4. job' \in [kind : Kinds \cup {"none"}, slot : 0..MaxNow,
                   result : {"none", "ok", "retry", "permanent"}, from : 0..MaxNow]
    BY <1>0, <1>b DEF Configure, TypeOK, Saved, None
  <2>5. rt'.running = (job'.kind # "none")
    BY <1>0, <1>b DEF Configure, TypeOK, Saved, None
  <2>6. keys' \in [Slots -> 0..MaxNow + KeyLife] /\ posts' \in [Slots -> Nat] /\ forgot' \in [Slots -> Nat]
    BY <1>0, <1>b DEF Configure, TypeOK, Saved, None
  <2>7. settled' \subseteq Slots /\ since' \in 0..now' /\ busy' \in BOOLEAN
    BY <1>0, <1>b DEF Configure, TypeOK, Saved, None
  <2> QED
    BY <2>1, <2>2, <2>3, <2>4, <2>5, <2>6, <2>7 DEF TypeOK
<1>2. Remembered'
  BY <1>0, <1>b DEF Configure, Remembered, TypeOK, Saved, None
<1>3. Past'
  BY <1>0, <1>b DEF Configure, Past, TypeOK, Saved, None
<1>4. Running'
  BY <1>0, <1>b DEF Configure, Running, TypeOK, Saved, None
<1>5. FromNow(rec)'
  BY <1>0, <1>b, <1>a DEF Configure, FromNow, TypeOK, Saved, None
<1>6. FromNow(disk)'
  BY <1>0, <1>b, <1>a DEF Configure, FromNow, TypeOK, Saved, None
<1>7. AfterSettled(rec)'
  BY <1>0, <1>b, <1>a DEF Configure, AfterSettled, TypeOK, Saved, None, Past
<1>8. AfterSettled(disk)'
  BY <1>0, <1>b, <1>a DEF Configure, AfterSettled, TypeOK, Saved, None, Past
<1> QED
  BY <1>1, <1>2, <1>3, <1>4, <1>5, <1>6, <1>7, <1>8 DEF Inv

LEMMA RequestKeeps ==
  ASSUME BotAssumption, Inv, NEW kind \in {"manual", "check"}, Request(kind)
  PROVE  Inv'
<1>0. TypeOK /\ Remembered /\ Past /\ Running /\ MaxNow \in Nat /\ KeyLife \in Nat
  BY Constants DEF Inv
<1>a. FromNow(rec) /\ FromNow(disk) /\ AfterSettled(rec) /\ AfterSettled(disk)
  BY DEF Inv
<1>1. TypeOK'
  <2>1. now' \in 1..MaxNow /\ clock' \in BOOLEAN /\ changes' \in Nat /\ faults' \in Nat
    BY <1>0 DEF Request, TypeOK
  <2>2. rec' \in Records /\ disk' \in Records
    BY <1>0 DEF Request, TypeOK
  <2>3. rt' \in [running : BOOLEAN, attempt : Nat, retryAt : Nat, manual : BOOLEAN, check : BOOLEAN]
    BY <1>0 DEF Request, TypeOK
  <2>4. job' \in [kind : Kinds \cup {"none"}, slot : 0..MaxNow,
                   result : {"none", "ok", "retry", "permanent"}, from : 0..MaxNow]
    BY <1>0 DEF Request, TypeOK
  <2>5. rt'.running = (job'.kind # "none")
    BY <1>0 DEF Request, TypeOK
  <2>6. keys' \in [Slots -> 0..MaxNow + KeyLife] /\ posts' \in [Slots -> Nat] /\ forgot' \in [Slots -> Nat]
    BY <1>0 DEF Request, TypeOK
  <2>7. settled' \subseteq Slots /\ since' \in 0..now' /\ busy' \in BOOLEAN
    BY <1>0 DEF Request, TypeOK
  <2> QED
    BY <2>1, <2>2, <2>3, <2>4, <2>5, <2>6, <2>7 DEF TypeOK
<1>2. Remembered'
  BY <1>0 DEF Request, Remembered, TypeOK
<1>3. Past'
  BY <1>0 DEF Request, Past, TypeOK
<1>4. Running'
  BY <1>0 DEF Request, Running, TypeOK
<1>5. FromNow(rec)'
  BY <1>0, <1>a DEF Request, FromNow, TypeOK
<1>6. FromNow(disk)'
  BY <1>0, <1>a DEF Request, FromNow, TypeOK
<1>7. AfterSettled(rec)'
  BY <1>0, <1>a DEF Request, AfterSettled, TypeOK
<1>8. AfterSettled(disk)'
  BY <1>0, <1>a DEF Request, AfterSettled, TypeOK
<1> QED
  BY <1>1, <1>2, <1>3, <1>4, <1>5, <1>6, <1>7, <1>8 DEF Inv

LEMMA TakeRequestKeeps ==
  ASSUME BotAssumption, Inv, TakeRequest
  PROVE  Inv'
<1>0. TypeOK /\ Remembered /\ Past /\ Running /\ MaxNow \in Nat /\ KeyLife \in Nat
  BY Constants DEF Inv
<1>a. FromNow(rec) /\ FromNow(disk) /\ AfterSettled(rec) /\ AfterSettled(disk)
  BY DEF Inv
<1>1. TypeOK'
  <2>1. now' \in 1..MaxNow /\ clock' \in BOOLEAN /\ changes' \in Nat /\ faults' \in Nat
    BY <1>0 DEF TakeRequest, TypeOK, Take
  <2>2. rec' \in Records /\ disk' \in Records
    BY <1>0 DEF TakeRequest, TypeOK, Take
  <2>3. rt' \in [running : BOOLEAN, attempt : Nat, retryAt : Nat, manual : BOOLEAN, check : BOOLEAN]
    BY <1>0 DEF TakeRequest, TypeOK, Take
  <2>4. job' \in [kind : Kinds \cup {"none"}, slot : 0..MaxNow,
                   result : {"none", "ok", "retry", "permanent"}, from : 0..MaxNow]
    BY <1>0 DEF TakeRequest, TypeOK, Take, Kinds
  <2>5. rt'.running = (job'.kind # "none")
    <3>1. rt'.running = TRUE
      BY <1>0 DEF TakeRequest, Take, TypeOK
    <3>2. job'.kind # "none"
      BY <1>0 DEF TakeRequest, Take, TypeOK
    <3> QED BY <3>1, <3>2
  <2>6. keys' \in [Slots -> 0..MaxNow + KeyLife] /\ posts' \in [Slots -> Nat] /\ forgot' \in [Slots -> Nat]
    BY <1>0 DEF TakeRequest, TypeOK, Take
  <2>7. settled' \subseteq Slots /\ since' \in 0..now' /\ busy' \in BOOLEAN
    BY <1>0 DEF TakeRequest, TypeOK, Take
  <2> QED
    BY <2>1, <2>2, <2>3, <2>4, <2>5, <2>6, <2>7 DEF TypeOK
<1>2. Remembered'
  BY <1>0 DEF TakeRequest, Remembered, TypeOK, Take
<1>3. Past'
  BY <1>0 DEF TakeRequest, Past, TypeOK, Take
<1>4. Running'
  BY <1>0 DEF TakeRequest, Running, TypeOK, Take
<1>5. FromNow(rec)'
  BY <1>0, <1>a DEF TakeRequest, FromNow, TypeOK, Take
<1>6. FromNow(disk)'
  BY <1>0, <1>a DEF TakeRequest, FromNow, TypeOK, Take
<1>7. AfterSettled(rec)'
  BY <1>0, <1>a DEF TakeRequest, AfterSettled, TypeOK, Take
<1>8. AfterSettled(disk)'
  BY <1>0, <1>a DEF TakeRequest, AfterSettled, TypeOK, Take
<1> QED
  BY <1>1, <1>2, <1>3, <1>4, <1>5, <1>6, <1>7, <1>8 DEF Inv

LEMMA StartFromHereKeeps ==
  ASSUME BotAssumption, Inv, NEW ok \in BOOLEAN, StartFromHere(ok)
  PROVE  Inv'
<1>0. TypeOK /\ Remembered /\ Past /\ Running /\ MaxNow \in Nat /\ KeyLife \in Nat
  BY Constants DEF Inv
<1>a. FromNow(rec) /\ FromNow(disk) /\ AfterSettled(rec) /\ AfterSettled(disk)
  BY DEF Inv
<1>c. now \in 1..MaxNow /\ rec.schedule \in Schedules
  BY <1>0 DEF TypeOK, Records
<1>b. /\ LatestAt(rec.schedule, now) \in rec.schedule /\ LatestAt(rec.schedule, now) \in Slots
      /\ \A x \in rec.schedule : x <= now => x <= LatestAt(rec.schedule, now)
      /\ rec.schedule \subseteq Nat /\ Slots \subseteq Nat
  BY <1>c, LatestAtIs, Constants
<1>1. TypeOK'
  BY <1>0, <1>b DEF StartFromHere, TypeOK, Records, Kinds, Saved, None, Idle
<1>2. Remembered'
  BY <1>0, <1>b DEF StartFromHere, Remembered, TypeOK, Saved, None, Idle
<1>3. Past'
  BY <1>0, <1>b DEF StartFromHere, Past, TypeOK, Saved, None, Idle
<1>4. Running'
  BY <1>0, <1>b DEF StartFromHere, Running, TypeOK, Saved, None, Idle
<1>5. FromNow(rec)'
  BY <1>0, <1>b, <1>a DEF StartFromHere, FromNow, TypeOK, Saved, None, Idle
<1>6. FromNow(disk)'
  BY <1>0, <1>b, <1>a DEF StartFromHere, FromNow, TypeOK, Saved, None, Idle
<1>7. AfterSettled(rec)'
  BY <1>0, <1>b, <1>a DEF StartFromHere, AfterSettled, TypeOK, Saved, None, Idle, Past
<1>8. AfterSettled(disk)'
  BY <1>0, <1>b, <1>a DEF StartFromHere, AfterSettled, TypeOK, Saved, None, Idle, Past
<1> QED
  BY <1>1, <1>2, <1>3, <1>4, <1>5, <1>6, <1>7, <1>8 DEF Inv

LEMMA MissKeeps ==
  ASSUME BotAssumption, Inv, NEW ok \in BOOLEAN, Miss(ok)
  PROVE  Inv'
<1>0. TypeOK /\ Remembered /\ Past /\ Running /\ MaxNow \in Nat /\ KeyLife \in Nat
  BY Constants DEF Inv
<1>a. FromNow(rec) /\ FromNow(disk) /\ AfterSettled(rec) /\ AfterSettled(disk)
  BY DEF Inv
<1>c. now \in 1..MaxNow /\ rec.schedule \in Schedules
  BY <1>0 DEF TypeOK, Records
<1>b. /\ LatestAt(rec.schedule, now) \in rec.schedule /\ LatestAt(rec.schedule, now) \in Slots
      /\ LatestAt(rec.schedule, now) <= now
      /\ rec.schedule \subseteq Nat /\ Slots \subseteq Nat
  BY <1>c, LatestAtIs, Constants
<1>1. TypeOK'
  <2>1. now' \in 1..MaxNow /\ clock' \in BOOLEAN /\ changes' \in Nat /\ faults' \in Nat
    BY <1>0, <1>b DEF Miss, TypeOK, Saved, None
  <2>2. rec' \in Records /\ disk' \in Records
    BY <1>0, <1>b DEF Miss, TypeOK, Saved, None, Records
  <2>3. rt' \in [running : BOOLEAN, attempt : Nat, retryAt : Nat, manual : BOOLEAN, check : BOOLEAN]
    BY <1>0, <1>b DEF Miss, TypeOK, Saved, None
  <2>4. job' \in [kind : Kinds \cup {"none"}, slot : 0..MaxNow,
                   result : {"none", "ok", "retry", "permanent"}, from : 0..MaxNow]
    BY <1>0, <1>b DEF Miss, TypeOK, Saved, None
  <2>5. rt'.running = (job'.kind # "none")
    BY <1>0, <1>b DEF Miss, TypeOK, Saved, None
  <2>6. keys' \in [Slots -> 0..MaxNow + KeyLife] /\ posts' \in [Slots -> Nat] /\ forgot' \in [Slots -> Nat]
    BY <1>0, <1>b DEF Miss, TypeOK, Saved, None
  <2>7. settled' \subseteq Slots /\ since' \in 0..now' /\ busy' \in BOOLEAN
    BY <1>0, <1>b DEF Miss, TypeOK, Saved, None
  <2> QED
    BY <2>1, <2>2, <2>3, <2>4, <2>5, <2>6, <2>7 DEF TypeOK
<1>2. Remembered'
  BY <1>0, <1>b DEF Miss, Remembered, TypeOK, Saved, None, Idle
<1>3. Past'
  BY <1>0, <1>b DEF Miss, Past, TypeOK, Saved, None, Idle
<1>4. Running'
  BY <1>0, <1>b DEF Miss, Running, TypeOK, Saved, None, Idle
<1>5. FromNow(rec)'
  BY <1>0, <1>b, <1>a DEF Miss, FromNow, TypeOK, Saved, None, Idle
<1>6. FromNow(disk)'
  BY <1>0, <1>b, <1>a DEF Miss, FromNow, TypeOK, Saved, None, Idle
<1>7. AfterSettled(rec)'
  BY <1>0, <1>b, <1>a DEF Miss, AfterSettled, TypeOK, Saved, None, Idle
<1>8. AfterSettled(disk)'
  BY <1>0, <1>b, <1>a DEF Miss, AfterSettled, TypeOK, Saved, None, Idle
<1> QED
  BY <1>1, <1>2, <1>3, <1>4, <1>5, <1>6, <1>7, <1>8 DEF Inv

LEMMA TakeSlotKeeps ==
  ASSUME BotAssumption, Inv, TakeSlot
  PROVE  Inv'
<1>0. TypeOK /\ Remembered /\ Past /\ Running /\ MaxNow \in Nat /\ KeyLife \in Nat
  BY Constants DEF Inv
<1>a. FromNow(rec) /\ FromNow(disk) /\ AfterSettled(rec) /\ AfterSettled(disk)
  BY DEF Inv
<1>c. now \in 1..MaxNow /\ rec.schedule \in Schedules
  BY <1>0 DEF TypeOK, Records
<1>b. /\ LatestAt(rec.schedule, now) \in rec.schedule /\ LatestAt(rec.schedule, now) \in Slots
      /\ LatestAt(rec.schedule, now) \in 1..MaxNow /\ LatestAt(rec.schedule, now) <= now
  BY <1>c, LatestAtIs, Constants
<1>1. TypeOK'
  <2>1. now' \in 1..MaxNow /\ clock' \in BOOLEAN /\ changes' \in Nat /\ faults' \in Nat
    BY <1>0, <1>b DEF TakeSlot, TypeOK, Take
  <2>2. rec' \in Records /\ disk' \in Records
    BY <1>0, <1>b DEF TakeSlot, TypeOK, Take
  <2>3. rt' \in [running : BOOLEAN, attempt : Nat, retryAt : Nat, manual : BOOLEAN, check : BOOLEAN]
    BY <1>0, <1>b DEF TakeSlot, TypeOK, Take
  <2>4. job' \in [kind : Kinds \cup {"none"}, slot : 0..MaxNow,
                   result : {"none", "ok", "retry", "permanent"}, from : 0..MaxNow]
    BY <1>0, <1>b DEF TakeSlot, TypeOK, Take, Kinds
  <2>5. rt'.running = (job'.kind # "none")
    <3>1. rt'.running = TRUE
      BY <1>0 DEF TakeSlot, Take, TypeOK
    <3>2. job'.kind # "none"
      BY <1>0 DEF TakeSlot, Take, TypeOK
    <3> QED BY <3>1, <3>2
  <2>6. keys' \in [Slots -> 0..MaxNow + KeyLife] /\ posts' \in [Slots -> Nat] /\ forgot' \in [Slots -> Nat]
    BY <1>0, <1>b DEF TakeSlot, TypeOK, Take
  <2>7. settled' \subseteq Slots /\ since' \in 0..now' /\ busy' \in BOOLEAN
    BY <1>0, <1>b DEF TakeSlot, TypeOK, Take
  <2> QED
    BY <2>1, <2>2, <2>3, <2>4, <2>5, <2>6, <2>7 DEF TypeOK
<1>2. Remembered'
  BY <1>0, <1>b DEF TakeSlot, Remembered, TypeOK, Take, Idle
<1>3. Past'
  BY <1>0, <1>b DEF TakeSlot, Past, TypeOK, Take, Idle
<1>4. Running'
  BY <1>0, <1>b, <1>a DEF TakeSlot, Running, TypeOK, Take, Idle, FromNow, AfterSettled
<1>5. FromNow(rec)'
  BY <1>0, <1>b, <1>a DEF TakeSlot, FromNow, TypeOK, Take, Idle
<1>6. FromNow(disk)'
  BY <1>0, <1>b, <1>a DEF TakeSlot, FromNow, TypeOK, Take, Idle
<1>7. AfterSettled(rec)'
  BY <1>0, <1>b, <1>a DEF TakeSlot, AfterSettled, TypeOK, Take, Idle
<1>8. AfterSettled(disk)'
  BY <1>0, <1>b, <1>a DEF TakeSlot, AfterSettled, TypeOK, Take, Idle
<1> QED
  BY <1>1, <1>2, <1>3, <1>4, <1>5, <1>6, <1>7, <1>8 DEF Inv

LEMMA AnswerKeeps ==
  ASSUME BotAssumption, Inv, NEW result \in {"ok", "retry", "permanent"}, NEW landed \in BOOLEAN, Answer(result, landed)
  PROVE  Inv'
<1>0. TypeOK /\ Remembered /\ Past /\ Running /\ MaxNow \in Nat /\ KeyLife \in Nat
  BY Constants DEF Inv
<1>a. FromNow(rec) /\ FromNow(disk) /\ AfterSettled(rec) /\ AfterSettled(disk)
  BY DEF Inv
<1>1. TypeOK'
  BY <1>0 DEF Answer, TypeOK, Records, Kinds
<1>2. Remembered'
  <2>1. CASE UNCHANGED <<keys, posts>>
    BY <1>0, <2>1 DEF Answer, Remembered, TypeOK
  <2>2. CASE /\ keys[job.slot] <= now /\ posts' = [posts EXCEPT ![job.slot] = @ + 1]
             /\ keys' = [keys EXCEPT ![job.slot] = now + KeyLife]
    <3> SUFFICES ASSUME NEW s \in Slots
                 PROVE  posts'[s] <= forgot[s] + (IF keys'[s] > now THEN 1 ELSE 0)
      BY <1>0 DEF Answer, Remembered
    <3>1. CASE s = job.slot
      <4>1. posts'[s] = posts[s] + 1 /\ keys'[s] = now + KeyLife /\ posts[s] \in Nat /\ forgot[s] \in Nat
        BY <1>0, <2>2, <3>1 DEF TypeOK
      <4>2. now + KeyLife > now /\ posts[s] <= forgot[s] + 0
        BY <1>0, <2>2, <3>1, Constants DEF Remembered, TypeOK
      <4> QED BY <4>1, <4>2
    <3>2. CASE s # job.slot
      BY <1>0, <2>2, <3>2 DEF Remembered, TypeOK
    <3> QED BY <3>1, <3>2
  <2> QED BY <2>1, <2>2 DEF Answer
<1>3. Past'
  BY <1>0 DEF Answer, Past, TypeOK
<1>4. Running'
  BY <1>0 DEF Answer, Running, TypeOK
<1>5. FromNow(rec)'
  BY <1>0, <1>a DEF Answer, FromNow, TypeOK
<1>6. FromNow(disk)'
  BY <1>0, <1>a DEF Answer, FromNow, TypeOK
<1>7. AfterSettled(rec)'
  BY <1>0, <1>a DEF Answer, AfterSettled, TypeOK
<1>8. AfterSettled(disk)'
  BY <1>0, <1>a DEF Answer, AfterSettled, TypeOK
<1> QED
  BY <1>1, <1>2, <1>3, <1>4, <1>5, <1>6, <1>7, <1>8 DEF Inv

LEMMA FinishKeeps ==
  ASSUME BotAssumption, Inv, NEW ok \in BOOLEAN, Finish(ok)
  PROVE  Inv'
<1>0. TypeOK /\ Remembered /\ Past /\ Running /\ MaxNow \in Nat /\ KeyLife \in Nat
  BY Constants DEF Inv
<1>a. FromNow(rec) /\ FromNow(disk) /\ AfterSettled(rec) /\ AfterSettled(disk)
  BY DEF Inv
<1>b. Wait \in Nat /\ Slots \subseteq 1..MaxNow /\ (Settles => job.kind = "scheduled")
  BY <1>0, WaitIs, Constants DEF Settles
<1>c. /\ rec' = IF Settles THEN [rec EXCEPT !.last = job.slot] ELSE rec
      /\ disk' = IF ok THEN rec' ELSE disk
      /\ settled' = IF Settles /\ ok THEN settled \cup {job.slot} ELSE settled
      /\ job' = NoJob /\ job'.kind = "none" /\ UNCHANGED <<now, since, busy, keys, posts, forgot>>
  BY DEF Finish, Saved, NoJob
<1>d. ASSUME Settles
      PROVE  /\ job.slot \in Slots /\ job.slot \in Nat /\ job.slot <= now
             /\ \A x \in settled : x < job.slot
             /\ ~busy => job.slot > since
  <2>1. job.kind = "scheduled"
    BY <1>b, <1>d
  <2>2. /\ job.slot \in Slots /\ job.slot <= now
        /\ \A x \in settled : x < job.slot
        /\ ~busy => job.slot > since
    BY <1>0, <2>1 DEF Running
  <2>3. job.slot \in Nat
    BY <1>0, <1>b, <2>2 DEF TypeOK
  <2> QED BY <2>2, <2>3
<1>e. /\ rec'.enabled = rec.enabled /\ rec'.schedule = rec.schedule /\ rec.schedule \subseteq Nat
      /\ rec'.last = IF Settles THEN job.slot ELSE rec.last
      /\ settled \subseteq Nat /\ now \in Nat /\ since \in Nat
  BY <1>0, <1>b, <1>c, Constants DEF TypeOK, Records
<1>1. TypeOK'
  <2>1. now' \in 1..MaxNow /\ clock' \in BOOLEAN /\ changes' \in Nat /\ faults' \in Nat
    BY <1>0, <1>b DEF Finish, TypeOK, Saved, NoJob, None
  <2>2. rec' \in Records /\ disk' \in Records
    BY <1>0, <1>c, <1>d DEF Finish, TypeOK, Saved, NoJob, None, Records
  <2>3. rt' \in [running : BOOLEAN, attempt : Nat, retryAt : Nat, manual : BOOLEAN, check : BOOLEAN]
    <3>1. Wait \in Nat /\ rt.attempt \in Nat /\ now \in Nat
      BY <1>0, <1>b DEF TypeOK
    <3>2. \/ rt' = [rt EXCEPT !.running = FALSE, !.attempt = @ + 1, !.retryAt = now + Wait]
          \/ rt' = [rt EXCEPT !.running = FALSE, !.attempt = 0, !.retryAt = None]
          \/ rt' = [rt EXCEPT !.running = FALSE]
      BY DEF Finish, AfterRun
    <3>3. rt.attempt + 1 \in Nat /\ now + Wait \in Nat /\ None \in Nat
      BY <3>1 DEF None
    <3>4. rt \in [running : BOOLEAN, attempt : Nat, retryAt : Nat, manual : BOOLEAN, check : BOOLEAN]
      BY <1>0 DEF TypeOK
    <3>5. CASE rt' = [rt EXCEPT !.running = FALSE, !.attempt = @ + 1, !.retryAt = now + Wait]
      BY <3>3, <3>4, <3>5
    <3>6. CASE rt' = [rt EXCEPT !.running = FALSE, !.attempt = 0, !.retryAt = None]
      BY <3>3, <3>4, <3>6
    <3>7. CASE rt' = [rt EXCEPT !.running = FALSE]
      BY <3>4, <3>7
    <3> QED BY <3>2, <3>5, <3>6, <3>7
  <2>4. job' \in [kind : Kinds \cup {"none"}, slot : 0..MaxNow,
                   result : {"none", "ok", "retry", "permanent"}, from : 0..MaxNow]
    BY <1>0, <1>b DEF Finish, TypeOK, Saved, NoJob, None, Kinds
  <2>5. rt'.running = (job'.kind # "none")
    <3>1. rt'.running = FALSE
      BY <1>0 DEF Finish, AfterRun, TypeOK
    <3> QED BY <1>c, <3>1
  <2>6. keys' \in [Slots -> 0..MaxNow + KeyLife] /\ posts' \in [Slots -> Nat] /\ forgot' \in [Slots -> Nat]
    BY <1>0, <1>b DEF Finish, TypeOK, Saved, NoJob, None
  <2>7. settled' \subseteq Slots /\ since' \in 0..now' /\ busy' \in BOOLEAN
    BY <1>0, <1>c, <1>d DEF Finish, TypeOK, Saved, NoJob, None
  <2> QED
    BY <2>1, <2>2, <2>3, <2>4, <2>5, <2>6, <2>7 DEF TypeOK
<1>2. Remembered'
  BY <1>0, <1>b DEF Finish, Remembered, TypeOK, Saved, AfterRun, NoJob, None
<1>3. Past'
  BY <1>0, <1>c, <1>d DEF Past
<1>4. Running'
  BY <1>c DEF Running
<1>5. FromNow(rec)'
  BY <1>a, <1>c, <1>d, <1>e DEF FromNow
<1>6. FromNow(disk)'
  BY <1>a, <1>c, <1>5 DEF FromNow
<1>7. AfterSettled(rec)'
  BY <1>a, <1>c, <1>d, <1>e DEF AfterSettled
<1>8. AfterSettled(disk)'
  BY <1>a, <1>c, <1>7 DEF AfterSettled
<1> QED
  BY <1>1, <1>2, <1>3, <1>4, <1>5, <1>6, <1>7, <1>8 DEF Inv

LEMMA TickKeeps ==
  ASSUME BotAssumption, Inv, Tick
  PROVE  Inv'
<1>0. TypeOK /\ Remembered /\ Past /\ Running /\ MaxNow \in Nat /\ KeyLife \in Nat
  BY Constants DEF Inv
<1>a. FromNow(rec) /\ FromNow(disk) /\ AfterSettled(rec) /\ AfterSettled(disk)
  BY DEF Inv
<1>b. Slots \subseteq Nat
  BY Constants
<1>1. TypeOK'
  BY <1>0, <1>b DEF Tick, TypeOK, Records, Kinds
<1>2. Remembered'
  BY <1>0, <1>b DEF Tick, Remembered, TypeOK
<1>3. Past'
  BY <1>0, <1>b DEF Tick, Past, TypeOK
<1>4. Running'
  BY <1>0, <1>b DEF Tick, Running, TypeOK
<1>5. FromNow(rec)'
  BY <1>0, <1>b, <1>a DEF Tick, FromNow, TypeOK
<1>6. FromNow(disk)'
  BY <1>0, <1>b, <1>a DEF Tick, FromNow, TypeOK
<1>7. AfterSettled(rec)'
  BY <1>0, <1>b, <1>a DEF Tick, AfterSettled, TypeOK
<1>8. AfterSettled(disk)'
  BY <1>0, <1>b, <1>a DEF Tick, AfterSettled, TypeOK
<1> QED
  BY <1>1, <1>2, <1>3, <1>4, <1>5, <1>6, <1>7, <1>8 DEF Inv

LEMMA SetClockKeeps ==
  ASSUME BotAssumption, Inv, SetClock
  PROVE  Inv'
<1>0. TypeOK /\ Remembered /\ Past /\ Running /\ MaxNow \in Nat /\ KeyLife \in Nat
  BY Constants DEF Inv
<1>a. FromNow(rec) /\ FromNow(disk) /\ AfterSettled(rec) /\ AfterSettled(disk)
  BY DEF Inv
<1>1. TypeOK'
  BY <1>0 DEF SetClock, TypeOK, Records, Kinds
<1>2. Remembered'
  BY <1>0 DEF SetClock, Remembered, TypeOK
<1>3. Past'
  BY <1>0 DEF SetClock, Past, TypeOK
<1>4. Running'
  BY <1>0 DEF SetClock, Running, TypeOK
<1>5. FromNow(rec)'
  BY <1>0, <1>a DEF SetClock, FromNow, TypeOK
<1>6. FromNow(disk)'
  BY <1>0, <1>a DEF SetClock, FromNow, TypeOK
<1>7. AfterSettled(rec)'
  BY <1>0, <1>a DEF SetClock, AfterSettled, TypeOK
<1>8. AfterSettled(disk)'
  BY <1>0, <1>a DEF SetClock, AfterSettled, TypeOK
<1> QED
  BY <1>1, <1>2, <1>3, <1>4, <1>5, <1>6, <1>7, <1>8 DEF Inv

LEMMA RestartKeeps ==
  ASSUME BotAssumption, Inv, Restart
  PROVE  Inv'
<1>0. TypeOK /\ Remembered /\ Past /\ Running /\ MaxNow \in Nat /\ KeyLife \in Nat
  BY Constants DEF Inv
<1>a. FromNow(rec) /\ FromNow(disk) /\ AfterSettled(rec) /\ AfterSettled(disk)
  BY DEF Inv
<1>1. TypeOK'
  <2>1. now' \in 1..MaxNow /\ clock' \in BOOLEAN /\ changes' \in Nat /\ faults' \in Nat
    <3>1. now' = now /\ clock' = FALSE /\ changes' = changes /\ faults' = faults + 1
      BY DEF Restart
    <3>2. now \in 1..MaxNow /\ changes \in Nat /\ faults \in Nat
      BY <1>0 DEF TypeOK
    <3>3. now' \in 1..MaxNow /\ changes' \in Nat /\ faults' \in Nat
      BY <3>1, <3>2
    <3>4. clock' \in BOOLEAN
      BY <3>1
    <3> QED BY <3>3, <3>4
  <2>2. rec' \in Records /\ disk' \in Records
    BY <1>0 DEF Restart, TypeOK, IdleRun, NoJob, None
  <2>3. rt' \in [running : BOOLEAN, attempt : Nat, retryAt : Nat, manual : BOOLEAN, check : BOOLEAN]
    BY <1>0 DEF Restart, TypeOK, IdleRun, NoJob, None
  <2>4. job' \in [kind : Kinds \cup {"none"}, slot : 0..MaxNow,
                   result : {"none", "ok", "retry", "permanent"}, from : 0..MaxNow]
    BY <1>0 DEF Restart, TypeOK, IdleRun, NoJob, None, Kinds
  <2>5. rt'.running = (job'.kind # "none")
    <3>1. rt'.running = FALSE /\ job'.kind = "none"
      BY DEF Restart, IdleRun, NoJob
    <3> QED BY <3>1
  <2>6. keys' \in [Slots -> 0..MaxNow + KeyLife] /\ posts' \in [Slots -> Nat] /\ forgot' \in [Slots -> Nat]
    BY <1>0 DEF Restart, TypeOK, IdleRun, NoJob, None
  <2>7. settled' \subseteq Slots /\ since' \in 0..now' /\ busy' \in BOOLEAN
    BY <1>0 DEF Restart, TypeOK, IdleRun, NoJob, None
  <2> QED
    BY <2>1, <2>2, <2>3, <2>4, <2>5, <2>6, <2>7 DEF TypeOK
<1>2. Remembered'
  BY <1>0 DEF Restart, Remembered, TypeOK, IdleRun, NoJob, None
<1>3. Past'
  BY <1>0 DEF Restart, Past, TypeOK, IdleRun, NoJob, None
<1>4. Running'
  BY <1>0 DEF Restart, Running, TypeOK, IdleRun, NoJob, None
<1>5. FromNow(rec)'
  BY <1>0, <1>a DEF Restart, FromNow, TypeOK, IdleRun, NoJob, None
<1>6. FromNow(disk)'
  BY <1>0, <1>a DEF Restart, FromNow, TypeOK, IdleRun, NoJob, None
<1>7. AfterSettled(rec)'
  BY <1>0, <1>a DEF Restart, AfterSettled, TypeOK, IdleRun, NoJob, None
<1>8. AfterSettled(disk)'
  BY <1>0, <1>a DEF Restart, AfterSettled, TypeOK, IdleRun, NoJob, None
<1> QED
  BY <1>1, <1>2, <1>3, <1>4, <1>5, <1>6, <1>7, <1>8 DEF Inv

LEMMA HouseholdRestartKeeps ==
  ASSUME BotAssumption, Inv, HouseholdRestart
  PROVE  Inv'
<1>0. TypeOK /\ Remembered /\ Past /\ Running /\ MaxNow \in Nat /\ KeyLife \in Nat
  BY Constants DEF Inv
<1>a. FromNow(rec) /\ FromNow(disk) /\ AfterSettled(rec) /\ AfterSettled(disk)
  BY DEF Inv
<1>1. TypeOK'
  BY <1>0 DEF HouseholdRestart, TypeOK, Records, Kinds
<1>2. Remembered'
  BY <1>0 DEF HouseholdRestart, Remembered, TypeOK
<1>3. Past'
  BY <1>0 DEF HouseholdRestart, Past, TypeOK
<1>4. Running'
  BY <1>0 DEF HouseholdRestart, Running, TypeOK
<1>5. FromNow(rec)'
  BY <1>0, <1>a DEF HouseholdRestart, FromNow, TypeOK
<1>6. FromNow(disk)'
  BY <1>0, <1>a DEF HouseholdRestart, FromNow, TypeOK
<1>7. AfterSettled(rec)'
  BY <1>0, <1>a DEF HouseholdRestart, AfterSettled, TypeOK
<1>8. AfterSettled(disk)'
  BY <1>0, <1>a DEF HouseholdRestart, AfterSettled, TypeOK
<1> QED
  BY <1>1, <1>2, <1>3, <1>4, <1>5, <1>6, <1>7, <1>8 DEF Inv

LEMMA StutterKeeps ==
  ASSUME Inv, UNCHANGED vars
  PROVE  Inv'
<1>1. TypeOK'
  BY DEF vars, Inv, TypeOK
<1>2. Remembered' /\ Past' /\ Running'
  BY DEF vars, Inv, Remembered, Past, Running
<1>3. FromNow(rec)' /\ FromNow(disk)' /\ AfterSettled(rec)' /\ AfterSettled(disk)'
  BY DEF vars, Inv, FromNow, AfterSettled
<1> QED
  BY <1>1, <1>2, <1>3 DEF Inv

-----------------------------------------------------------------------------
(* Every behaviour. *)

\* Inv is an invariant: every step of the admin, of the scheduler, of the household
\* and of the clock keeps it.
THEOREM InvHolds ==
  ASSUME BotAssumption
  PROVE  Spec => []Inv
<1>1. Init => Inv
  BY InitInv
<1>2. Inv /\ [Next]_vars => Inv'
  <2> SUFFICES ASSUME Inv, [Next]_vars PROVE Inv'
    OBVIOUS
  <2>1. ASSUME NEW on \in BOOLEAN, NEW ok \in BOOLEAN, NEW s \in Schedules, Configure(on, s, ok) PROVE Inv'
    BY <2>1, ConfigureKeeps
  <2>2. ASSUME NEW kind \in {"manual", "check"}, Request(kind) PROVE Inv'
    BY <2>2, RequestKeeps
  <2>3. CASE Due
    <3>1. CASE TakeRequest
      BY <3>1, TakeRequestKeeps
    <3>2. CASE TakeSlot
      BY <3>2, TakeSlotKeeps
    <3>3. ASSUME NEW ok \in BOOLEAN, StartFromHere(ok) PROVE Inv'
      BY <3>3, StartFromHereKeeps
    <3>4. ASSUME NEW ok \in BOOLEAN, Miss(ok) PROVE Inv'
      BY <3>4, MissKeeps
    <3> QED
      BY <2>3, <3>1, <3>2, <3>3, <3>4 DEF Due
  <2>4. ASSUME NEW result \in {"ok", "retry", "permanent"}, NEW landed \in BOOLEAN, Answer(result, landed) PROVE Inv'
    BY <2>4, AnswerKeeps
  <2>5. ASSUME NEW ok \in BOOLEAN, Finish(ok) PROVE Inv'
    BY <2>5, FinishKeeps
  <2>6. CASE Tick \/ SetClock
    BY <2>6, TickKeeps, SetClockKeeps
  <2>7. CASE Restart \/ HouseholdRestart
    BY <2>7, RestartKeeps, HouseholdRestartKeeps
  <2>8. CASE UNCHANGED vars
    BY <2>8, StutterKeeps
  <2> QED
    BY <2>1, <2>2, <2>3, <2>4, <2>5, <2>6, <2>7, <2>8 DEF Next, Execute
<1> QED
  BY <1>1, <1>2, PTL DEF Spec

\* Every variable keeps its type, and a run is under way exactly while Runtime says so.
THEOREM TypeCorrect ==
  ASSUME BotAssumption
  PROVE  Spec => []TypeOK
<1>1. Inv => TypeOK
  BY DEF Inv
<1> QED
  BY <1>1, InvHolds, PTL

\* A slot is posted again only after the household itself forgot the slot's key.
THEOREM PostedOnce ==
  ASSUME BotAssumption
  PROVE  Spec => []OncePerSlot
<1>1. Inv => OncePerSlot
  <2> SUFFICES ASSUME Inv, NEW s \in Slots PROVE posts[s] <= 1 + forgot[s]
    BY DEF OncePerSlot
  <2>1. posts[s] \in Nat /\ forgot[s] \in Nat /\ posts[s] <= forgot[s] + (IF keys[s] > now THEN 1 ELSE 0)
    BY DEF Inv, TypeOK, Remembered
  <2> QED
    BY <2>1
<1> QED
  BY <1>1, InvHolds, PTL

\* A run that no turn-on or move met has a slot from after the last of them.
THEOREM OnlyFromNow ==
  ASSUME BotAssumption
  PROVE  Spec => []NothingFromBefore
<1>1. Inv => NothingFromBefore
  BY DEF Inv, Running, NothingFromBefore
<1> QED
  BY <1>1, InvHolds, PTL

\* A slot whose end was saved is never taken again.
THEOREM NeverAgain ==
  ASSUME BotAssumption
  PROVE  Spec => SettledStaysSettled
<1>1. Inv /\ [Next]_vars => [SettledStaysSettledStep]_vars
  <2> SUFFICES ASSUME Inv, Next PROVE SettledStaysSettledStep
    OBVIOUS
  <2>1. CASE TakeSlot
    <3>1. now \in 1..MaxNow /\ rec.schedule \in Schedules /\ rec.enabled /\ rec.last # None
      BY <2>1 DEF TakeSlot, Idle, Inv, TypeOK, Records
    <3>2. LatestAt(rec.schedule, now) \in rec.schedule /\ LatestAt(rec.schedule, now) \in Nat
      BY <3>1, LatestAtIs
    <3>3. \A x \in settled : LatestAt(rec.schedule, now) > x
      BY <2>1, <3>1, <3>2 DEF TakeSlot, Inv, AfterSettled
    <3>4. job'.slot = LatestAt(rec.schedule, now)
      BY <2>1 DEF TakeSlot, Take
    <3> QED
      BY <3>2, <3>3, <3>4 DEF SettledStaysSettledStep
  <2>2. CASE TakeRequest
    BY <2>2 DEF TakeRequest, Take, SettledStaysSettledStep
  <2>3. ASSUME NEW result \in {"ok", "retry", "permanent"}, NEW landed \in BOOLEAN, Answer(result, landed)
        PROVE  SettledStaysSettledStep
    BY <2>3 DEF Answer, SettledStaysSettledStep
  <2>4. ASSUME NEW ok \in BOOLEAN, Finish(ok) PROVE SettledStaysSettledStep
    BY <2>4 DEF Finish, NoJob, SettledStaysSettledStep
  <2>5. CASE Restart
    BY <2>5 DEF Restart, NoJob, SettledStaysSettledStep
  <2>6. CASE UNCHANGED job
    BY <2>6 DEF SettledStaysSettledStep
  <2>7. ASSUME NEW on \in BOOLEAN, NEW ok \in BOOLEAN, NEW s \in Schedules, Configure(on, s, ok) PROVE UNCHANGED job
    BY <2>7 DEF Configure
  <2>8. ASSUME NEW kind \in {"manual", "check"}, Request(kind) PROVE UNCHANGED job
    BY <2>8 DEF Request
  <2>9. ASSUME NEW ok \in BOOLEAN, StartFromHere(ok) \/ Miss(ok) PROVE UNCHANGED job
    BY <2>9 DEF StartFromHere, Miss
  <2>10. Tick \/ SetClock \/ HouseholdRestart => UNCHANGED job
    BY DEF Tick, SetClock, HouseholdRestart
  <2> QED
    BY <2>1, <2>2, <2>3, <2>4, <2>5, <2>6, <2>7, <2>8, <2>9, <2>10 DEF Next, Due, Execute
<1> QED
  BY <1>1, InvHolds, PTL DEF Spec, SettledStaysSettled

\* All three, the promise of the scheduler.
THEOREM SlotsAreOnce ==
  ASSUME BotAssumption
  PROVE  Spec => SlotsOnce
<1> QED
  BY PostedOnce, OnlyFromNow, NeverAgain, PTL DEF SlotsOnce
=============================================================================
