------------------------------ MODULE SreDigest ------------------------------
(***************************************************************************)
(* The SRE bot's digest (sre.rs): one run reads every board, turns the     *)
(* answers into findings (sre_findings.rs), files issues (sre_issues.rs),  *)
(* tells a person (notify.rs), posts a digest with a reply per board and,  *)
(* once a week, two admin lines (sre_admin.rs).  The run works on a copy   *)
(* of the bot's state, which the service keeps when the run ends, even     *)
(* when it failed; a failed run is tried again for the same slot.          *)
(*                                                                         *)
(* Time is counted in steps, and stands for minutes and days alike.  The   *)
(* boards, the tracker, the notification channels and the household's      *)
(* idempotency keys are outside; posts of a slot keep their keys for the   *)
(* retries of that slot.  The byte cap of the memory (MAX_BYTES), heap     *)
(* trends and the seven-day history are left out, and the record is taken  *)
(* to fit: Service::save would forget the longest values of one that does  *)
(* not (LlmReplies models that).                                           *)
(*                                                                         *)
(* The ledger knows an event by the minute its boot was read as, and the   *)
(* memory that makes later readings of one boot the same moves only after  *)
(* the posts: a run tried again may read another minute, and notify again. *)
(***************************************************************************)
EXTENDS Integers, Sequences, FiniteSets, FiniteSetsExt, SequencesExt, Functions

CONSTANTS Boards,
          Kinds,        \* causes of a reset that happen here
          Gauges,       \* readings judged against the board's own: heap, largest, wifi
          Readings,     \* values a reading takes
          Overrides,    \* runbook_rules: some rules -> 0..3
          Samples, Learning, Resets,   \* SAMPLES, LEARNING, RESETS
          SameBoot,     \* SAME_BOOT_MIN
          Jitter,       \* how far two readings of one boot time differ
          Day, Week, FirstLook,        \* a day, seven days, 26 hours
          QuietHours,   \* notify_quiet_from .. notify_quiet_to
          Renotify, Cap, Entries,      \* renotify_days, max_per_day, ENTRIES
          Queue, PerRun, MaxReplies,   \* QUEUE, PER_RUN, max_replies
          CloseAfter,   \* tracker_close_days
          MaxNow,       \* bound: the clock
          MaxRuns,      \* bound: runs
          MaxChanges,   \* bound: things that happen to boards
          MaxFaults     \* bound: lost requests, failed saves, power cuts

DigestAssumption ==
    /\ Boards # {} /\ Readings \subseteq Int /\ QuietHours \subseteq 0..Day - 1
    /\ {Samples, Learning, Resets, SameBoot, Jitter, Week, FirstLook, Renotify, Cap, Entries,
        Queue, PerRun, MaxReplies, CloseAfter, MaxNow, MaxRuns, MaxChanges, MaxFaults} \subseteq Nat
    /\ Day \in Nat \ {0} /\ Learning >= 1 /\ Resets >= 1

None == "none"

VARIABLES now,
          truth,    \* what each board would say of itself
          st,       \* the bot's state, as the service holds it
          disk,     \* the state in the store
          run,      \* the run under way
          retry,    \* the slot a failed run left to be tried again, or 0
          keys,     \* the household: lines posted, <<slot, what>>
          admin,    \* the household: <<week, line>> -> when its counts were taken
          tracker,  \* the tracker: fingerprint -> [open, seen]
          told,     \* history: finding or reset -> when a person was last told of it,
                    \* under which fingerprint, and was it read as another since
          named,    \* history: resets that a posted reply names
          torn,     \* history: weeks whose pending lines a power cut took
          runs, changes, faults

vars == <<now, truth, st, disk, run, retry, keys, admin, tracker, told, named, torn,
          runs, changes, faults>>

Forgetful == [boot |-> 0, resets |-> <<>>, allocs |-> 0, past |-> [g \in Gauges |-> <<>>]]
Healthy   == [net |-> "up", boot |-> 1, kind |-> "power", allocs |-> 0, checks |-> {},
              value |-> [g \in Gauges |-> Max(Readings)], off |-> {}]
Blank     == [mem |-> [b \in Boards |-> Forgetful], open |-> {},
              shown |-> [b \in Boards |-> None], sent |-> <<>>, day |-> <<0, 0>>,
              queue |-> <<>>, week |-> 0, pend |-> <<0, 0>>]
NoRun     == [at |-> None]

Init ==
    /\ now = 1 /\ truth = [b \in Boards |-> Healthy]
    /\ st = Blank /\ disk = Blank /\ run = NoRun /\ retry = 0
    /\ keys = {} /\ admin = <<>> /\ tracker = <<>>
    /\ told = <<>> /\ named = {} /\ torn = {} /\ runs = 0 /\ changes = 0 /\ faults = 0

Fault == faults < MaxFaults /\ faults' = faults + 1

-----------------------------------------------------------------------------
(* Findings. *)

Ignored == {"reset.power", "reset.planned", "heap.learning"}
Telling == {"down", "reset.hung", "reset.brownout", "heap.low", "check.fail"}
Filing  == {"reset.fault.repeat", "reset.hung.repeat", "heap.allocations"}

\* Rules::action: 0 ignore, 1 digest, 2 notify, 3 issue.
Level(rule) == IF rule \in DOMAIN Overrides THEN Overrides[rule]
               ELSE IF rule \in Ignored THEN 0
               ELSE IF rule \in Telling THEN 2
               ELSE IF rule \in Filing THEN 3 ELSE 1

Finding(rule, event) == [rule |-> rule, event |-> event, level |-> Level(rule)]

Median(s) == SortSeq(s, <)[(Len(s) \div 2) + 1]
Pushed(s, v, n) == LET t == Append(s, v) IN IF Len(t) > n THEN Tail(t) ELSE t

RuleOf == [heap |-> "heap.low", largest |-> "heap.fragmented", wifi |-> "wifi.weak"]

\* A reading that the board itself calls off and that is far from its usual.
GaugeFindings(g, a, past) ==
    IF g \notin a.off THEN {}
    ELSE IF Len(past) < Learning
         THEN IF g = "heap" THEN {Finding("heap.learning", FALSE)} ELSE {}
    ELSE IF \/ g = "wifi" /\ a.value[g] < Median(past) - 6
            \/ g # "wifi" /\ a.value[g] * 4 < Median(past) * 3
         THEN {Finding(RuleOf[g], FALSE)} ELSE {}

\* The kind of a reset: RST on a board last seen down ends a hang.
KindOf(a, b) == IF a.kind = "manual" /\ st.shown[b] = "down" THEN "hung" ELSE a.kind

ResetFinding(kind, resets) ==
    LET Count(ks) == Cardinality({i \in DOMAIN resets : resets[i][2] \in ks})
    IN  CASE kind \in {"crash", "watchdog"} ->
               IF Count({"crash", "watchdog"}) >= 2 THEN "reset.fault.repeat" ELSE "reset.fault"
          [] kind \in {"manual", "hung"} ->
               IF Count({"manual", "hung"}) >= 2 THEN "reset.hung.repeat"
               ELSE IF kind = "hung" THEN "reset.hung" ELSE "reset.manual"
          [] kind = "brownout" -> "reset.brownout"
          [] kind = "power"    -> "reset.power"
          [] kind = "planned"  -> "reset.planned"
          [] OTHER             -> "reset.other"

\* triage, whether the boot time moved: by more than two readings of one boot
\* may differ, or, at the first look, only lately.
IsNewBoot(a, m) == IF m.boot > 0
                   THEN a.boot > m.boot + SameBoot \/ m.boot > a.boot + SameBoot
                   ELSE now - a.boot < FirstLook

Kept(m) == SelectSeq(m.resets, LAMBDA r : now - r[1] < Week)

\* triage: what one board that answered means, and its new memory.
Remembered(b, a, m) ==
    [boot   |-> a.boot,
     resets |-> IF IsNewBoot(a, m) THEN Pushed(Kept(m), <<a.boot, KindOf(a, b)>>, Resets)
                ELSE Kept(m),
     allocs |-> a.allocs,
     past   |-> [g \in Gauges |-> Pushed(m.past[g], a.value[g], Samples)]]

Triage(b, a, m) ==
    LET new == Remembered(b, a, m)
    IN  (IF IsNewBoot(a, m) THEN {Finding(ResetFinding(KindOf(a, b), new.resets), TRUE)} ELSE {})
        \cup UNION {GaugeFindings(g, a, m.past[g]) : g \in Gauges}
        \cup (IF a.allocs > (IF IsNewBoot(a, m) THEN 0 ELSE m.allocs)
              THEN {Finding("heap.allocations", FALSE)} ELSE {})
        \cup {Finding(IF c = "fail" THEN "check.fail" ELSE "check.warn", FALSE) : c \in a.checks}

\* judge: what each board's answer a[b] adds up to.
Findings(a) == [b \in Boards |->
    IF a[b].net = "up" THEN Triage(b, a[b], st.mem[b])
    ELSE {Finding(IF a[b].net = "none" THEN "no-ops" ELSE "down", FALSE)}]

Memory(a) == [b \in Boards |->
    IF a[b].net = "up" THEN Remembered(b, a[b], st.mem[b]) ELSE st.mem[b]]

Worst(fs) == IF fs = {} THEN 0 ELSE Max({f.level : f \in fs})
Status(net, fs) == IF net # "up" THEN net
                   ELSE IF Worst(fs) >= 2 THEN "fail"
                   ELSE IF Worst(fs) = 1 THEN "warn" ELSE "ok"

\* A notice names an event by the boot it started.
Notices(fs, mem) ==
    UNION {{[fp |-> <<b, f.rule, IF f.event THEN mem[b].boot ELSE 0>>, level |-> f.level] :
              f \in {x \in fs[b] : x.level >= 2}} : b \in Boards}

\* What a notice is about, whatever minute its boot was read as: the condition,
\* or the reset that did happen.
About(fp) == <<fp[1], fp[2], IF fp[3] = 0 THEN 0 ELSE truth[fp[1]].boot>>

\* track: the conditions that stay open.
StillOpen(fs) == UNION {{<<b, f.rule>> : f \in {x \in fs[b] : ~x.event /\ x.level > 0}} : b \in Boards}

-----------------------------------------------------------------------------
(* A run. *)

\* read: a board that is up may still not answer.
Answers == {a \in [Boards -> UNION {{[truth[b] EXCEPT !.boot = @ + j] : j \in 0..Jitter}
                                     \cup {[truth[b] EXCEPT !.net = "down"]} : b \in Boards}] :
              \A b \in Boards : /\ a[b].net \in {truth[b].net, "down"}
                               /\ [a[b] EXCEPT !.net = None, !.boot = 0]
                                    = [truth[b] EXCEPT !.net = None, !.boot = 0]
                               /\ a[b].boot - truth[b].boot \in 0..Jitter}

Down(status) == {b \in Boards : status[b] = "down"}

\* Sre::run begins: the boards are read and judged (judge, correlated).
Begin ==
    /\ run = NoRun /\ runs < MaxRuns /\ runs' = runs + 1
    /\ \E slot \in {now} \cup ({retry} \ {0}), a \in Answers :
        LET fs     == Findings(a)
            status == [b \in Boards |-> Status(a[b].net, fs[b])]
            notes  == Notices(fs, Memory(a))
        IN  /\ run' = [at |-> "judged", slot |-> slot, now |-> now, new |-> st, ok |-> TRUE,
                       mem |-> Memory(a), open |-> StillOpen(fs), status |-> status,
                       notices |-> notes, shared |-> Cardinality(Down(status)) >= 2,
                       events |-> {b \in Boards : \E f \in fs[b] : f.event /\ f.level > 0},
                       answered |-> {b \in Boards : <<slot, b>> \in keys},
                       dropped |-> {}, closed |-> FALSE, held |-> FALSE]
            /\ told' = [x \in DOMAIN told \cap {About(n.fp) : n \in notes} |->
                         [told[x] EXCEPT !.moved = @ \/ \A n \in notes : n.fp # told[x].fp]]
    /\ UNCHANGED <<now, truth, st, disk, retry, keys, admin, tracker, named, torn, changes, faults>>

Family(rule) == CASE rule \in {"reset.fault", "reset.fault.repeat"} -> "crash"
                  [] rule \in {"reset.hung", "reset.hung.repeat"}   -> "hang"
                  [] OTHER -> rule
IssueOf(n)   == <<n.fp[1], Family(n.fp[2])>>

\* file: what waited first, then what is new, at most PerRun of them; what
\* found no tracker waits, at most Queue of them.
Todo     == LET filings == {IssueOf(n) : n \in {x \in run.notices : x.level = 3}}
            IN  SelectSeq(st.queue, LAMBDA f : f \notin filings) \o SetToSeq(filings)
Tried    == ToSet(SubSeq(Todo, 1, Min({PerRun, Len(Todo)})))
Waiting(later) == SubSeq(Todo, Min({PerRun, Len(Todo)}) + 1, Len(Todo))
                  \o SelectSeq(Todo, LAMBDA f : f \in later)

\* close_stale: open issues that are not firing and were not seen for long.
Stale(t) == {f \in DOMAIN t : /\ t[f].open /\ run.now - t[f].seen >= CloseAfter
                              /\ f \notin {IssueOf(n) : n \in run.notices}}

File ==
    /\ run.at = "judged"
    /\ \E later \in SUBSET Tried : \E refused \in SUBSET (Tried \ later) :
        LET filed == [f \in Tried \ (later \cup refused) |-> [open |-> TRUE, seen |-> run.now]]
                     @@ tracker
            wait  == Waiting(later)
            queue == SubSeq(wait, 1, Min({Queue, Len(wait)}))
        IN  \E closed \in SUBSET Stale(filed) :
              /\ faults' = faults + Cardinality(later \cup refused) /\ faults' <= MaxFaults
              /\ Cardinality(closed) <= PerRun /\ (CloseAfter = 0 => closed = {})
              /\ tracker' = [f \in DOMAIN filed |-> IF f \in closed
                             THEN [filed[f] EXCEPT !.open = FALSE] ELSE filed[f]]
              /\ run' = [run EXCEPT !.at = "filed", !.new.queue = queue,
                         !.closed = closed # {},
                         !.dropped = refused \cup (ToSet(wait) \ ToSet(queue))]
    /\ UNCHANGED <<now, truth, st, disk, retry, keys, admin, told, named, torn, runs, changes>>

\* Ledger: what is forgotten, due, and within the cap.
Current == {n.fp : n \in run.notices}
Ledger  == Restrict(run.new.sent, DOMAIN run.new.sent \cap Current)
IsDue(n) == \/ n.fp \notin DOMAIN Ledger
            \/ n.level > Ledger[n.fp].level
            \/ Renotify > 0 /\ run.now - Ledger[n.fp].at >= Renotify
Sending == {n \in run.notices : IsDue(n)}
Today   == run.now \div Day
Room    == run.new.day[1] # Today \/ run.new.day[2] < Cap
Hushed  == run.now % Day \in QuietHours

\* mark: the oldest entries go when there are too many.
Marked(kept) == Restrict([f \in {n.fp : n \in Sending} |->
                            [at |-> run.now, level |-> Max({n.level : n \in {x \in Sending : x.fp = f}})]]
                         @@ Ledger, kept)
AllMarked == Current \cap (DOMAIN Ledger \cup {n.fp : n \in Sending})
Oldest(kept) == \A f \in AllMarked \ kept, g \in kept : Marked(AllMarked)[f].at <= Marked(AllMarked)[g].at

\* notify, when nothing is due or may go out, or no channel takes it.
Hold ==
    /\ run.at = "filed"
    /\ \/ (Sending = {} \/ Hushed \/ ~Room) /\ UNCHANGED faults
       \/ Sending # {} /\ ~Hushed /\ Room /\ Fault
    /\ run' = [run EXCEPT !.at = "notified", !.new.sent = Ledger,
                          !.held = Sending # {} /\ Hushed]
    /\ UNCHANGED <<now, truth, st, disk, retry, keys, admin, tracker, told, named, torn, runs, changes>>

\* notify, deliver: one message for all of them.
Notify ==
    /\ run.at = "filed" /\ Sending # {} /\ ~Hushed /\ Room
    /\ \E kept \in kSubset(Min({Entries, Cardinality(AllMarked)}), AllMarked) :
        /\ Oldest(kept)
        /\ run' = [run EXCEPT !.at = "notified", !.new.sent = Marked(kept),
              !.new.day = IF @[1] = Today THEN <<Today, @[2] + 1>> ELSE <<Today, 1>>]
        /\ told' = [x \in {About(f) : f \in kept} |->
             LET f    == CHOOSE g \in kept : About(g) = x
                 sent == f \in {s.fp : s \in Sending}
             IN  Marked(kept)[f] @@
                 [fp |-> f, moved |-> ~sent /\ x \in DOMAIN told /\ told[x].moved,
                  n |-> (IF x \in DOMAIN told THEN told[x].n ELSE 0) + (IF sent THEN 1 ELSE 0)]]
    /\ UNCHANGED <<now, truth, st, disk, retry, keys, admin, tracker, named, torn, runs, changes, faults>>

-----------------------------------------------------------------------------
(* The posts, and what is remembered after them. *)

WeekOf(slot) == slot \div Week + 1
AdminDue == run.new.week # WeekOf(run.slot)
Seen     == run.closed \/ run.shared \/ st.open \ run.open # {}
Sick     == {b \in Boards : run.status[b] # "ok"}

Remember(r) == [r EXCEPT !.at = "done", !.new.mem = r.mem, !.new.open = r.open,
                         !.new.shown = r.status]

Fails(r)    == [r EXCEPT !.at = "done", !.ok = FALSE]

\* Sre::run, nothing to say: the memory moves, the statuses are the same.
SayNothing ==
    /\ run.at = "notified" /\ Sick = {} /\ st.shown = run.status /\ ~AdminDue /\ ~Seen
    /\ run' = Remember(run)
    /\ UNCHANGED <<now, truth, st, disk, retry, keys, admin, tracker, told, named, torn,
                   runs, changes, faults>>

Post ==
    /\ run.at = "notified" /\ (Sick # {} \/ st.shown # run.status \/ AdminDue \/ Seen)
    /\ \/ run' = [run EXCEPT !.at = "posted"] /\ UNCHANGED faults
       \/ Fault /\ run' = Fails(run)
    /\ UNCHANGED <<now, truth, st, disk, retry, keys, admin, tracker, told, named, torn, runs, changes>>

\* One reply per board that is not ok, in turn; a line of this slot that an
\* earlier attempt posted stands as it is.
Reply ==
    /\ run.at = "posted"
    /\ LET wanted == {b \in Sick : ~(run.shared /\ run.status[b] = "down")}
       IN  \E to \in kSubset(Min({MaxReplies, Cardinality(wanted)}), wanted), out \in SUBSET wanted :
            /\ out \subseteq to
            /\ keys' = keys \cup {<<run.slot, b>> : b \in out}
            /\ named' = named \cup {<<b, run.mem[b].boot>> :
                  b \in {x \in out \cap run.events : <<run.slot, x>> \notin keys}}
            /\ \/ /\ out = to /\ UNCHANGED faults
                  /\ run' = [run EXCEPT !.at = "replied",
                                        !.answered = @ \cup (wanted \ to)]
               \/ out # to /\ Fault /\ run' = Fails(run)
    /\ UNCHANGED <<now, truth, st, disk, retry, admin, tracker, told, torn, runs, changes>>

\* The week's two lines: their counts are taken once and kept for retries.
Admin ==
    /\ run.at = "replied" /\ AdminDue
    /\ \E sent \in 0..2 :
        LET week == WeekOf(run.slot)
            pend == IF run.new.pend[1] = week THEN run.new.pend ELSE <<week, now>>
        IN  /\ admin' = admin @@ [w \in {week} \X (1..sent) |-> pend[2]]
            /\ \/ /\ sent = 2 /\ UNCHANGED faults
                  /\ run' = [Remember(run) EXCEPT !.new.week = week, !.new.pend = <<0, 0>>]
               \/ /\ sent < 2 /\ Fault
                  /\ run' = [Fails(run) EXCEPT !.new.pend = pend]
    /\ UNCHANGED <<now, truth, st, disk, retry, keys, tracker, told, named, torn, runs, changes>>

NoAdmin ==
    /\ run.at = "replied" /\ ~AdminDue /\ run' = Remember(run)
    /\ UNCHANGED <<now, truth, st, disk, retry, keys, admin, tracker, told, named, torn,
                   runs, changes, faults>>

\* Mutant: a failed run leaves the state it began with.
KeptIfOk == IF run.ok THEN run.new ELSE st

\* Service::finish: the copy is kept, whether the run failed or not; a failed
\* slot is tried again or given up.
KeptState == run.new

Finish ==
    /\ run.at = "done" /\ run' = NoRun /\ st' = KeptState
    /\ (disk' = st' /\ UNCHANGED faults) \/ (Fault /\ UNCHANGED disk)
    /\ retry' \in IF run.ok THEN {0} ELSE {0, run.slot}
    /\ UNCHANGED <<now, truth, keys, admin, tracker, told, named, torn, runs, changes>>

-----------------------------------------------------------------------------
(* The world.  A run reads the boards and the clock when it begins, and the *)
(* clock again for the week's counts: nothing else of it can tell when the  *)
(* world moved, so the world moves where it is looked at.                   *)

Tick == /\ run = NoRun \/ (run.at = "replied" /\ AdminDue)
        /\ now < MaxNow /\ now' = now + 1
        /\ UNCHANGED <<truth, st, disk, run, retry, keys, admin, tracker, told, named, torn,
                       runs, changes, faults>>

Happens == \E b \in Boards :
    /\ run = NoRun /\ changes < MaxChanges /\ changes' = changes + 1
    /\ \/ \E k \in Kinds : truth' = [truth EXCEPT ![b] = [@ EXCEPT !.net = "up", !.boot = now,
                                                             !.kind = k, !.allocs = 0]]
       \/ \E n \in {"up", "down", "none"} \ {truth[b].net} : truth' = [truth EXCEPT ![b].net = n]
       \/ \E c \in {"warn", "fail"} : truth' = [truth EXCEPT ![b].checks =
                                                   IF c \in @ THEN @ \ {c} ELSE @ \cup {c}]
       \/ truth' = [truth EXCEPT ![b].allocs = @ + 1]
       \/ \E g \in Gauges, v \in Readings, o \in BOOLEAN :
             truth' = [truth EXCEPT ![b].value[g] = v,
                                    ![b].off = IF o THEN @ \cup {g} ELSE @ \ {g}]
    /\ UNCHANGED <<now, st, disk, run, retry, keys, admin, tracker, told, named, torn, runs, faults>>

\* The state of the last save that succeeded is what is left.
PowerCut ==
    /\ Fault /\ st' = disk /\ run' = NoRun
    /\ retry' \in {0, retry, IF run = NoRun THEN 0 ELSE run.slot}
    /\ told' = Restrict(told, {x \in DOMAIN told : LET f == told[x].fp
                                                  IN  /\ f \in DOMAIN disk.sent
                                                      /\ disk.sent[f].at = told[x].at
                                                      /\ disk.sent[f].level = told[x].level})
    /\ torn' = torn \cup {w \in {x[1] : x \in DOMAIN admin} : w # disk.pend[1]}
    /\ UNCHANGED <<now, truth, disk, keys, admin, tracker, named, runs, changes>>

Next == \/ Begin \/ File \/ Hold \/ Notify \/ SayNothing \/ Post \/ Reply \/ Admin \/ NoAdmin
        \/ Finish \/ Tick \/ Happens \/ PowerCut

Spec == Init /\ [][Next]_vars

-----------------------------------------------------------------------------
\* sre.rs:380, "Sends what is new, worse or due a reminder": a person hears of
\* one condition or one reset once until it gets worse, is due a reminder, was
\* missing from a run between, fell out of a full ledger or was lost to a power
\* cut, though runs fail and are tried again.  One more case is the code's and not
\* the comment's: of a reset a person hears again when its boot was since read as
\* another minute, which a run that failed before its posts leaves possible.
ToldOnceStep ==
  \A x \in DOMAIN told \cap DOMAIN told' : told'[x].n > told[x].n =>
      \/ told'[x].level > told[x].level
      \/ Renotify > 0 /\ told'[x].at - told[x].at >= Renotify
      \/ x[3] # 0 /\ told[x].moved
ToldOnce == [][ToldOnceStep]_vars
\* "a retried digest never notifies twice" (sre.rs:382), as it stands.  It does not
\* hold: the retry may read the boot of a reset as another minute.
RetryTellsOnceStep ==
  \A x \in DOMAIN told \cap DOMAIN told' : told'[x].n > told[x].n =>
      \/ told'[x].level > told[x].level
      \/ Renotify > 0 /\ told'[x].at - told[x].at >= Renotify

Committed(b) == /\ run.at = "done" /\ st' = run.new /\ b \in run.events
                /\ st'.mem[b].boot # st.mem[b].boot

\* sre.rs:30, "the remembered statuses and findings move only once every post
\* is out": a reset that the memory moves past is named by a reply, unless the
\* slot already had that board's line, and its issue is filed or waits.
NothingSlipsStep ==
  \A b \in Boards : Committed(b) =>
      /\ <<b, run.mem[b].boot>> \in named \/ b \in run.answered
      /\ \A n \in run.notices : n.fp[1] = b /\ n.level = 3 =>
           \/ IssueOf(n) \in DOMAIN tracker /\ tracker[IssueOf(n)].open
           \/ IssueOf(n) \in ToSet(st'.queue) \cup run.dropped
NothingSlips == [][NothingSlipsStep]_vars

\* The two admin lines of a week come from one count, however often the posts
\* are tried again.
WeekAgrees ==
    \A w \in {x[1] : x \in DOMAIN admin} \ torn :
        {<<w, 1>>, <<w, 2>>} \subseteq DOMAIN admin => admin[<<w, 1>>] = admin[<<w, 2>>]

\* notify.rs:71, "Notices found in the quiet hours wait for the first run
\* after them": a reset that the quiet hours held back is not forgotten.
NoticesWaitStep ==
  \A b \in Boards : Committed(b) /\ run.held =>
      \A n \in run.notices : n.fp[1] = b /\ n.fp[3] # 0 => About(n.fp) \in DOMAIN told
NoticesWait == [][NoticesWaitStep]_vars
=============================================================================
