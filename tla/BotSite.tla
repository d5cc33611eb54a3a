------------------------------- MODULE BotSite -------------------------------
(***************************************************************************)
(* The admin site of the bots' board and the profiles it publishes         *)
(* (api.rs, auth.rs, profiles.rs, and the settings of service.rs): one     *)
(* admin password, sessions in RAM, a lock after wrong passwords, and for  *)
(* each bot an account whose profile is to link to the board's address.    *)
(* Requests run under the service lock; a profile is published without it, *)
(* so that settings change, and power goes, while a household answers.     *)
(*                                                                         *)
(* Times are kept as what is left of them.  A signature is what it is made *)
(* of: the account (its server and key) and the address of the board.      *)
(***************************************************************************)
EXTENDS Naturals, Sequences, SequencesExt

CONSTANTS Bots, Passwords, Accounts, Origins,
          MaxSessions, LockoutFailures,          \* MAX_SESSIONS, LOCKOUT_FAILURES
          SessionTime, LockTime, RetryTime,      \* SESSION_MS, LOCKOUT_MS, 30 minutes
          MaxFaults,   \* bound: power cuts, refused writes, lost and bad answers
          MaxChanges   \* bound: requests that change a setting or ask for a profile

SiteAssumption ==
  /\ {MaxFaults, MaxChanges} \subseteq Nat
  /\ {MaxSessions, LockoutFailures, SessionTime, LockTime, RetryTime} \subseteq Nat \ {0}

None == "none"
Never == RetryTime + 1

VARIABLES disk,      \* the store: the password, the settings, what was published
          known,     \* the same in memory
          sessions,  \* Sessions::live: for which password, and the time left
          wrong,     \* failures, and what is left of the lock
          rt,        \* profiles::Runtime of each bot
          running,   \* the bots with a run under way
          job,       \* the profile being published
          shown,     \* the households: what the profile of each account links to
          patched,   \* history: the signatures some account was given
          guesses,   \* history: wrong passwords judged since a right one
          changes, faults

vars == <<disk, known, sessions, wrong, rt, running, job, shown, patched, guesses, changes, faults>>

Records == [password : Passwords \cup {None}, origin : Origins,
            account : [Bots -> Accounts \cup {None}],
            published : [Bots -> (Accounts \X Bots \X Origins) \cup {<<>>}]]
Idle  == [requested |-> FALSE, attempted |-> <<>>, retry |-> 0]
NoJob == [bot |-> None, signature |-> <<>>, result |-> None]

TypeOK ==
  /\ known \in Records /\ disk \in Records
  /\ sessions \in Seq([password : Passwords, left : 1..SessionTime])
  /\ wrong \in [failures : 0..(LockoutFailures - 1), lock : 0..LockTime]
  /\ running \subseteq Bots /\ job.bot \in Bots \cup {None}
  /\ \A b \in Bots : rt[b].requested \in BOOLEAN /\ rt[b].retry \in 0..Never

\* signature: the bot, the board's address, and the account's server and key.
Signature(b) == <<known.account[b], b, known.origin>>

Fault  == faults < MaxFaults /\ faults' = faults + 1
Change == changes < MaxChanges /\ changes' = changes + 1

\* A setting is written, then taken; a refused write changes nothing.
Stores(new) ==
  \/ known' = new /\ disk' = new /\ UNCHANGED faults
  \/ Fault /\ UNCHANGED <<known, disk>>

-----------------------------------------------------------------------------
(* Passwords and sessions. *)

SignedIn == sessions # <<>>

\* Sessions::start: the expired ones are gone already, the oldest makes room.
Begins(live, p) ==
  /\ sessions' = Append(IF Len(live) >= MaxSessions THEN Tail(live) ELSE live, [password |-> p, left |-> SessionTime])
  /\ wrong' = [wrong EXCEPT !.failures = 0]
  /\ guesses' = 0

EndAll  == <<>>

\* set_password: the sessions end once the new password is stored.
SetPassword(p) ==
  /\ Change /\ Stores([known EXCEPT !.password = p])
  /\ UNCHANGED <<rt, running, job, shown, patched>>
Setup(p) ==
  /\ known.password = None
  /\ SetPassword(p)
  /\ IF known'.password = p THEN Begins(EndAll, p) ELSE UNCHANGED <<sessions, wrong, guesses>>
NewPassword(p) ==
  /\ SignedIn /\ SetPassword(p)
  /\ sessions' = IF known'.password = p /\ faults' = faults THEN EndAll ELSE sessions
  /\ UNCHANGED <<wrong, guesses>>

Locked == wrong.lock > 0
\* Sessions::failed
Failed ==
  wrong' = IF wrong.failures + 1 >= LockoutFailures THEN [failures |-> 0, lock |-> LockTime]
           ELSE [wrong EXCEPT !.failures = wrong.failures + 1]
Login(right) ==
  /\ known.password # None /\ ~Locked
  /\ IF right THEN Begins(sessions, known.password)
     ELSE Failed /\ guesses' = guesses + 1 /\ UNCHANGED sessions
  /\ UNCHANGED <<disk, known, rt, running, job, shown, patched, changes, faults>>
Logout(i) ==
  /\ sessions' = RemoveAt(sessions, i)
  /\ UNCHANGED <<disk, known, wrong, rt, running, job, shown, patched, guesses, changes, faults>>

-----------------------------------------------------------------------------
(* The settings of the board and its bots. *)

rest == <<sessions, wrong, running, job, shown, patched, guesses>>

Configure(b, a) ==
  /\ SignedIn /\ Change
  /\ Stores([known EXCEPT !.account[b] = a])
  /\ UNCHANGED <<rt, rest>>
SetPublicOrigin(o) ==
  /\ SignedIn /\ Change
  /\ Stores([known EXCEPT !.origin = o])
  /\ UNCHANGED <<rt, rest>>
RequestProfile(b) ==
  /\ SignedIn /\ Change /\ known.account[b] # None
  /\ rt' = [rt EXCEPT ![b].requested = TRUE]
  /\ UNCHANGED <<disk, known, rest, faults>>

Runs(b) ==
  /\ running' = IF b \in running THEN running \ {b} ELSE running \cup {b}
  /\ UNCHANGED <<disk, known, sessions, wrong, rt, job, shown, patched, guesses, changes, faults>>

-----------------------------------------------------------------------------
(* profiles::tick: a job is chosen under the lock, published without it, and *)
(* its end written under it.                                                *)

Waiting(b) ==
  /\ known.account[b] # None /\ b \notin running
  /\ \/ rt[b].requested
     \/ known.published[b] # Signature(b) /\ ~(rt[b].attempted = Signature(b) /\ rt[b].retry > 0)
Take ==
  /\ job = NoJob
  /\ \E b \in Bots : Waiting(b) /\ job' = [bot |-> b, signature |-> Signature(b), result |-> None]
  /\ UNCHANGED <<disk, known, sessions, wrong, rt, running, shown, patched, guesses, changes, faults>>

\* publish: the profile is read and written; the answer comes, or is lost, or
\* the key is refused.
Publish(result) ==
  /\ job.bot # None /\ job.result = None
  /\ \/ shown' = [shown EXCEPT ![job.signature[1]] = Tail(job.signature)]
        /\ patched' = patched \cup {job.signature} /\ result # "refused"
     \/ result # "ok" /\ UNCHANGED <<shown, patched>>
  /\ IF result = "ok" THEN UNCHANGED faults ELSE Fault
  /\ job' = [job EXCEPT !.result = result]
  /\ UNCHANGED <<disk, known, sessions, wrong, rt, running, guesses, changes>>

Published(b, sig) == [known EXCEPT !.published[b] = sig]
\* "A concurrent settings change must not mark the new account as published."
Current(b, sig) == Signature(b) = sig
\* Mutant: no answer counts as a good one.
AcceptedUnlessRefused(result) == result # "refused"
Accepted(result) == result = "ok"

Recorded ==
  LET b == job.bot
      sig == job.signature
      Waits(t) == rt' = [rt EXCEPT ![b] = [requested |-> FALSE, attempted |-> sig, retry |-> t]]
  IN  /\ b # None /\ job.result # None
      /\ job' = NoJob
      /\ IF ~Current(b, sig) THEN UNCHANGED <<rt, known, disk, faults>>
         ELSE IF Accepted(job.result)
         THEN \/ known' = Published(b, sig) /\ disk' = Published(b, sig) /\ Waits(0) /\ UNCHANGED faults
              \/ Waits(RetryTime) /\ Fault /\ UNCHANGED <<known, disk>>
         ELSE /\ Waits(IF job.result = "lost" THEN RetryTime ELSE Never)
              /\ UNCHANGED <<known, disk, faults>>
      /\ UNCHANGED <<sessions, wrong, running, shown, patched, guesses, changes>>

-----------------------------------------------------------------------------

Less(n) == IF n = 0 THEN 0 ELSE n - 1
Ticks ==
  /\ sessions' = SelectSeq([i \in DOMAIN sessions |-> [sessions[i] EXCEPT !.left = @ - 1]], LAMBDA s : s.left > 0)
  /\ wrong' = [wrong EXCEPT !.lock = Less(wrong.lock)]
  /\ guesses' = IF wrong.lock = 1 THEN 0 ELSE guesses
  /\ rt' = [b \in Bots |-> [rt[b] EXCEPT !.retry = IF rt[b].retry = Never THEN Never ELSE Less(rt[b].retry)]]
  /\ UNCHANGED <<disk, known, running, job, shown, patched, changes, faults>>

\* Service::open after a restart.
Restart ==
  /\ Fault
  /\ known' = disk /\ sessions' = <<>> /\ wrong' = [failures |-> 0, lock |-> 0]
  /\ rt' = [b \in Bots |-> Idle] /\ running' = {} /\ job' = NoJob /\ guesses' = 0
  /\ UNCHANGED <<disk, shown, patched, changes>>

Init ==
  /\ \E o \in Origins :
       known = [password |-> None, origin |-> o, account |-> [b \in Bots |-> None], published |-> [b \in Bots |-> <<>>]]
  /\ disk = known /\ sessions = <<>> /\ wrong = [failures |-> 0, lock |-> 0]
  /\ rt = [b \in Bots |-> Idle] /\ running = {} /\ job = NoJob
  /\ shown = [a \in Accounts |-> <<>>] /\ patched = {} /\ guesses = 0 /\ changes = 0 /\ faults = 0

Next ==
  \/ \E p \in Passwords : Setup(p) \/ NewPassword(p)
  \/ \E right \in BOOLEAN : Login(right)
  \/ \E i \in DOMAIN sessions : Logout(i)
  \/ \E b \in Bots : RequestProfile(b) \/ Runs(b) \/ \E a \in Accounts \cup {None} : Configure(b, a)
  \/ \E o \in Origins : SetPublicOrigin(o)
  \/ Take \/ Recorded \/ Ticks \/ Restart
  \/ \E result \in {"ok", "lost", "refused"} : Publish(result)

Spec == Init /\ [][Next]_vars
\* The profile thread comes round more often than a bot runs, a household
\* answers in the end, a run ends.
LiveSpec ==
  /\ Spec /\ SF_vars(Take) /\ WF_vars(Recorded) /\ WF_vars(Publish("ok")) /\ WF_vars(Ticks)
  /\ \A b \in Bots : WF_vars(b \in running /\ Runs(b))

-----------------------------------------------------------------------------
\* A session was begun with the password in force, also after a change of it and
\* a restart; there are never too many; and between two rests of a minute no
\* more than LOCKOUT_FAILURES wrong passwords are judged.
OneAdmin ==
  /\ \A i \in DOMAIN sessions : sessions[i].password = known.password
  /\ Len(sessions) <= MaxSessions
  /\ guesses <= LockoutFailures
  /\ known = disk

\* What the record calls published was given to the very account and link it
\* names ("A concurrent settings change must not mark the new account as
\* published", profiles.rs:158).
PublishedWasGiven == \A b \in Bots : known.published[b] # <<>> => known.published[b] \in patched

Linked(b) == known.account[b] = None \/ known.published[b] = Signature(b) \/ rt[b].retry = Never
\* "An address change triggers new profile links", "temporary failures retry
\* after 30 minutes" (README.md): an account keeps its old link for ever only if
\* its key was refused.
LinksFollow == \A b \in Bots : []<>Linked(b)

\* What README.md says of the addresses, taken at its word: a profile that is
\* recorded as published shows the board's address.  An address put back while
\* another one's profile is on its way leaves that one's link for good.
ShowsTheAddress ==
  \A b \in Bots :
    (job = NoJob /\ ~rt[b].requested /\ known.published[b] = Signature(b) /\ known.account[b] # None)
    => shown[known.account[b]] = <<b, known.origin>>
=============================================================================
