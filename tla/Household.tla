----------------------------- MODULE Household -----------------------------
(***************************************************************************)
(* Members and what they post (mastomini_rs/src/domain: accounts.rs,       *)
(* statuses.rs, edits.rs, polls.rs, moderation.rs), with the boot that     *)
(* rebuilds all of it (mod.rs build).  A request runs under the service    *)
(* mutex and makes its writes one key at a time, changing RAM after each;  *)
(* power loss or a storage error stops it between any two of them.         *)
(*                                                                         *)
(* Records refer to a member by slot.  A slot is used again after its      *)
(* member is deleted, so each record also carries, as a history field, the *)
(* account id of whoever made it.                                          *)
(***************************************************************************)
EXTENDS Naturals, Sequences, FiniteSets, FiniteSetsExt, SequencesExt

CONSTANTS
  Slots,       \* bound: the number of account slots (MAX_ACCOUNTS)
  MaxAccount,  \* bound: accounts ever created
  MaxId,       \* bound: statuses ever posted
  MaxVersion,  \* bound: versions of a status
  Revisions,   \* MAX_REVISIONS_PER_STATUS
  Kinds,       \* bound: the marks members leave on a status
  Features,    \* bound: what a post may have
  MaxStatuses, \* MAX_STATUSES
  MaxHistory,  \* MAX_REVISIONS
  MaxBoosts,   \* MAX_BOOSTS
  MaxPins,     \* MAX_PINS
  MaxFaults,   \* bound: power cuts and storage errors
  FullFaults,  \* may a write be refused because the flash is full?
  None         \* no record

Slot    == 1..Slots
Account == 1..MaxAccount
Id      == 1..MaxId

VARIABLES
  disk,     \* the store
  ram,      \* State: the same records, with the masks and counts they give
  mode,     \* "booting", "up", "latched" or "down"
  todo,     \* the writes the request, or boot, has still to make
  lastId, lastAccount,  \* the last ids issued
  refused,  \* has the flash refused a write as full since boot?
  faults

vars == <<disk, ram, mode, todo, lastId, lastAccount, refused, faults>>

(***************************************************************************)
(* A store maps each kind of key to its records; 0 and None are absent.    *)
(* ver counts a status's versions (its edited_at_ms), and a poll's.        *)
(***************************************************************************)
AccountRec == [id : Account, deleted : BOOLEAN]
StatusRec  == [author : Slot, by : Account, mentions : SUBSET Account,
               parent : 0..MaxId, direct : BOOLEAN, ver : 1..MaxVersion]
PollRec    == [ver : 1..MaxVersion, votes : [Slot -> 0..MaxAccount]]

HouseholdAssumption ==
  /\ {Slots, MaxAccount, MaxId, MaxVersion} \subseteq Nat \ {0}
  /\ {Revisions, MaxStatuses, MaxHistory, MaxBoosts, MaxPins} \subseteq Nat \ {0}
  /\ Slots <= MaxAccount
  /\ Kinds \subseteq {"boost", "favourite", "pin"}
  /\ Features \subseteq {"mention", "reply", "poll", "direct"}
  /\ MaxFaults \in Nat /\ FullFaults \in BOOLEAN
  /\ None \notin AccountRec \cup StatusRec \cup PollRec

Mark == Kinds \X Id \X Slot

Records == [acct : [Slot -> AccountRec \cup {None}],
            stat : [Id -> StatusRec \cup {None}],
            poll : [Id -> PollRec \cup {None}],
            dm   : [Id -> 0..MaxVersion],
            hist : [Id \X (1..Revisions) -> 0..MaxVersion],
            mark : [Mark -> 0..MaxAccount]]

NoRecords == [acct |-> [s \in Slot |-> None], stat |-> [i \in Id |-> None],
              poll |-> [i \in Id |-> None], dm |-> [i \in Id |-> 0],
              hist |-> [h \in Id \X (1..Revisions) |-> 0],
              mark |-> [k \in Mark |-> 0]]

Put(f, k, v) == [f |-> f, k |-> k, v |-> v]
Erase(f, k)  == [f |-> f, k |-> k, v |-> NoRecords[f][k]]

IsErase(w) == w.v = NoRecords[w.f][w.k]

Live(r, s) == r.acct[s] # None /\ ~r.acct[s].deleted

\* mention_mask: the slots of those of the accounts that are members now.
MentionMask(r, ids) == {s \in Slot : Live(r, s) /\ r.acct[s].id \in ids}

-----------------------------------------------------------------------------
(***************************************************************************)
(* build: what boot loads from store d, and what it repairs.               *)
(***************************************************************************)
Kept(d, i) == d.stat[i] # None /\ Live(d, d.stat[i].author)

Tombstoned(d, s) == d.acct[s] # None /\ d.acct[s].deleted

VotesOfMembers(d, poll) ==
  [poll EXCEPT !.votes = [s \in Slot |-> IF Tombstoned(d, s) THEN 0 ELSE @[s]]]

RevisionKept(d, i, n) == Kept(d, i) /\ d.hist[<<i, n>>] < d.stat[i].ver

Loaded(d) ==
  [acct |-> [s \in Slot |-> IF Live(d, s) THEN d.acct[s] ELSE None],
   stat |-> [i \in Id |-> IF Kept(d, i) THEN d.stat[i] ELSE None],
   poll |-> [i \in Id |-> IF Kept(d, i) /\ d.poll[i] # None
                          THEN VotesOfMembers(d, d.poll[i]) ELSE None],
   dm   |-> [i \in Id |-> IF Kept(d, i) THEN d.dm[i] ELSE 0],
   hist |-> [h \in DOMAIN d.hist |->
               IF RevisionKept(d, h[1], h[2]) THEN d.hist[h] ELSE 0],
   mark |-> [k \in Mark |-> IF Kept(d, k[2]) /\ Live(d, k[3])
                            THEN d.mark[k] ELSE 0]]

Replies(r, i) ==
  IF r.stat[i] = None THEN 0
  ELSE Cardinality({j \in Id : r.stat[j] # None /\ r.stat[j].parent = i})

\* The loaded records with the fields derived from them.
Load(d) ==
  LET r == Loaded(d)
  IN [rec |-> r,
      mentions |-> [i \in Id |-> IF r.stat[i] = None THEN {}
                                 ELSE MentionMask(r, r.stat[i].mentions)],
      replies |-> [i \in Id |-> Replies(r, i)]]

Changed(d, r, f) == {k \in DOMAIN d[f] : d[f][k] # r[f][k]}

RepairsOf(d, r, f, ks) ==
  LET order == SetToSeq(ks)
  IN [n \in DOMAIN order |-> Put(f, order[n], r[f][order[n]])]

Rewritten(d) ==
  LET r == Loaded(d)
  IN RepairsOf(d, r, "poll", {i \in Changed(d, r, "poll") : r.poll[i] # None})

Orphans(d, f) ==
  LET r == Loaded(d)
  IN RepairsOf(d, r, f, {k \in Changed(d, r, f) : r[f][k] = NoRecords[f][k]})

\* Mutant: the tombstone goes first.
TombstoneFirst(d) ==
  Orphans(d, "acct") \o Orphans(d, "stat") \o Orphans(d, "dm") \o Orphans(d, "poll")
    \o Orphans(d, "hist") \o Orphans(d, "mark") \o Rewritten(d)

\* Polls are rewritten, orphans are erased, and the tombstone goes last.
Repairs(d) ==
  Rewritten(d) \o Orphans(d, "stat") \o Orphans(d, "dm") \o Orphans(d, "poll")
    \o Orphans(d, "hist") \o Orphans(d, "mark") \o Orphans(d, "acct")

-----------------------------------------------------------------------------
(***************************************************************************)
(* One write of a request: to the store, then to RAM.                      *)
(***************************************************************************)
Stored(d, w) == [d EXCEPT ![w.f][w.k] = w.v]

Counted(replies, i, n) ==
  [replies EXCEPT ![i] = IF n = 1 THEN @ + 1 ELSE @ - 1]

\* Mutant: an edit keeps the mentions of the version it replaces.
MaskAsPosted(m, w) ==
  IF w.v = None THEN {}
  ELSE IF m.rec.stat[w.k] # None THEN m.mentions[w.k] ELSE MentionMask(m.rec, w.v.mentions)

\* Whom the status is taken to mention.
MaskAfter(m, w) ==
  IF w.v = None THEN {} ELSE MentionMask(m.rec, w.v.mentions)

Applied(m, w) ==
  LET base == [m EXCEPT !.rec = Stored(m.rec, w)]
      old  == m.rec.stat[w.k]
      up   == IF old = None THEN w.v.parent
              ELSE IF w.v = None THEN old.parent ELSE 0
  IN IF w.f # "stat" THEN base
     ELSE [base EXCEPT
             !.mentions[w.k] = MaskAfter(m, w),
             !.replies =
               LET counts == IF up > 0 /\ m.rec.stat[up] # None
                             THEN Counted(@, up, IF w.v = None THEN 0 ELSE 1)
                             ELSE @
               IN IF w.v = None THEN [counts EXCEPT ![w.k] = 0] ELSE counts]

Ready == mode = "up" /\ todo = <<>>

Request(writes) ==
  /\ Ready
  /\ todo' = writes
  /\ UNCHANGED <<disk, ram, mode, refused, faults>>

KeepIds == UNCHANGED <<lastId, lastAccount>>

Step ==
  /\ todo # <<>>
  /\ disk' = Stored(disk, Head(todo))
  /\ ram' = IF mode = "up" THEN Applied(ram, Head(todo)) ELSE ram
  /\ todo' = Tail(todo)
  /\ UNCHANGED <<mode, lastId, lastAccount, refused, faults>>

Fault == faults < MaxFaults /\ faults' = faults + 1

\* An I/O error: the write may have been made, and the service latches, or, if
\* it was booting, does not start.
StepFails ==
  /\ todo # <<>>
  /\ Fault
  /\ disk' \in {disk, Stored(disk, Head(todo))}
  /\ todo' = <<>>
  /\ mode' = IF mode = "up" THEN "latched" ELSE "down"
  /\ UNCHANGED <<ram, refused>>
  /\ KeepIds

\* The flash is full: the request is refused with what it has written so far.
StepRefused ==
  /\ FullFaults
  /\ todo # <<>> /\ mode = "up" /\ ~IsErase(Head(todo))
  /\ Fault
  /\ todo' = <<>>
  /\ refused' = TRUE
  /\ UNCHANGED <<disk, ram, mode>>
  /\ KeepIds

-----------------------------------------------------------------------------
(***************************************************************************)
(* Statuses.                                                               *)
(***************************************************************************)
Statuses == {i \in Id : ram.rec.stat[i] # None}

\* can_see, for what is public and what is direct; blocks, suspensions and
\* followers-only posts only refuse more.
CanSee(s, i) ==
  LET rec == ram.rec.stat[i]
  IN rec.direct /\ rec.author # s => s \in ram.mentions[i]

Visible(s) == {i \in Statuses : CanSee(s, i)}

Erasures(f, ks) == {Erase(f, k) : k \in {k \in ks : ram.rec[f][k] # NoRecords[f][k]}}

\* Mutant: the marks on a status stay behind.
RemoveStatusOnly(i) ==
  Erasures("stat", {i}) \cup Erasures("dm", {i}) \cup Erasures("poll", {i})
    \cup Erasures("hist", {h \in DOMAIN ram.rec.hist : h[1] = i})

\* remove_status: the status record and what belongs to it.
RemoveStatus(i) ==
  Erasures("stat", {i}) \cup Erasures("dm", {i}) \cup Erasures("poll", {i})
    \cup Erasures("hist", {h \in DOMAIN ram.rec.hist : h[1] = i})
    \cup Erasures("mark", {k \in Mark : k[2] = i})

\* One status after another, the oldest first, its record first.
Turn(w) == CASE w.f = "stat" -> 5 * w.k
             [] w.f = "dm"   -> 5 * w.k + 1
             [] w.f = "poll" -> 5 * w.k + 2
             [] w.f = "hist" -> 5 * w.k[1] + 3
             [] w.f = "mark" -> 5 * w.k[2] + 4

\* Writes one after the other, those of the same turn in any order.
InTurn(writes) ==
  LET w == SetToSeq(writes)
      Earlier(n) == {m \in DOMAIN w : \/ Turn(w[m]) < Turn(w[n])
                                      \/ Turn(w[m]) = Turn(w[n]) /\ m < n}
  IN [n \in DOMAIN w |-> w[CHOOSE m \in DOMAIN w : Cardinality(Earlier(m)) = n - 1]]

EraseIf(f, ks) == SetToSeq(Erasures(f, ks))

RemoveAll(ids) == InTurn(UNION {RemoveStatus(i) : i \in ids})

Marked(kind) == {k \in Mark : k[1] = kind /\ ram.rec.mark[k] > 0}

\* make_room: the oldest statuses without a pin make way, one when the limit on
\* statuses is reached, more while the flash is above its low watermark; when
\* none is left the request is refused.
Evictable == {i \in Statuses : \A k \in Marked("pin") : k[2] # i}

MakeRoom(need) ==
  {v \in SUBSET Evictable : /\ Cardinality(v) >= need
                            /\ \A i \in v, j \in Evictable \ v : i < j}

NoRoom(first) == Request(first \o RemoveAll(Evictable)) /\ KeepIds

PostStatus(s, mentioned, parent, poll, direct) ==
  LET i   == lastId + 1
      rec == [author |-> s, by |-> ram.rec.acct[s].id,
              mentions |-> {ram.rec.acct[t].id : t \in mentioned},
              parent |-> parent, direct |-> direct, ver |-> 1]
  IN /\ i \in Id
     /\ Live(ram.rec, s) /\ \A t \in mentioned : Live(ram.rec, t)
     /\ parent \in Visible(s) \cup {0}
     /\ ~(poll /\ direct)
     /\ \/ NoRoom(<<>>)
        \/ \E v \in MakeRoom(IF Cardinality(Statuses) >= MaxStatuses THEN 1 ELSE 0) :
             /\ Request(RemoveAll(v)
                  \o (IF poll THEN <<Put("poll", i, [ver |-> 1,
                                       votes |-> [t \in Slot |-> 0]])>> ELSE <<>>)
                  \o (IF direct THEN <<Put("dm", i, 1)>> ELSE <<>>)
                  \o <<Put("stat", i, rec)>>)
             /\ lastId' = i
             /\ UNCHANGED lastAccount

\* keep_revision: the oldest revision of all makes way when there are too many
\* (each status's oldest may be that one), then an unused number, else the
\* status's oldest.
RevisionsOf(i) == {n \in 1..Revisions : ram.rec.hist[<<i, n>>] > 0}

OldestRevisions ==
  {h \in DOMAIN ram.rec.hist :
     /\ ram.rec.hist[h] > 0
     /\ \A n \in RevisionsOf(h[1]) : ram.rec.hist[h] <= ram.rec.hist[<<h[1], n>>]}

RevisionSlot(i, gone) ==
  LET used   == RevisionsOf(i) \ {n \in 1..Revisions : <<i, n>> \in gone}
      oldest == {n \in used : \A o \in used : ram.rec.hist[<<i, n>>] <= ram.rec.hist[<<i, o>>]}
  IN IF used # 1..Revisions THEN Min((1..Revisions) \ used) ELSE Min(oldest)

KeepRevision(i, gone) ==
  EraseIf("hist", gone)
    \o <<Put("hist", <<i, RevisionSlot(i, gone)>>, ram.rec.stat[i].ver)>>

\* What keep_revision erases first.
HistoryGone ==
  IF Cardinality({h \in DOMAIN ram.rec.hist : ram.rec.hist[h] > 0}) >= MaxHistory
  THEN {{h} : h \in OldestRevisions} ELSE {{}}

\* Mutant: the status is overwritten before its old version is kept.
EditCommitsFirst(i, mentioned, poll) ==
  LET old == ram.rec.stat[i]
      rec == [old EXCEPT !.ver = @ + 1,
                !.mentions = {ram.rec.acct[t].id : t \in mentioned}]
  IN /\ i \in Statuses /\ old.ver < MaxVersion
     /\ \A t \in mentioned : Live(ram.rec, t)
     /\ Request(<<Put("stat", i, rec)>>
                \o (IF old.direct THEN <<Put("dm", i, rec.ver)>>
                    ELSE KeepRevision(i, {})))
     /\ KeepIds

\* The author edits; the poll is kept, replaced (its votes start over) or
\* removed.
EditStatus(i, mentioned, poll) ==
  LET old == ram.rec.stat[i]
      rec == [old EXCEPT !.ver = @ + 1,
                !.mentions = {ram.rec.acct[t].id : t \in mentioned}]
      had == ram.rec.poll[i] # None
  IN /\ i \in Statuses /\ old.ver < MaxVersion
     /\ \A t \in mentioned : Live(ram.rec, t)
     /\ old.direct => poll = "none"
     /\ poll = "keep" => had
     /\ \E gone \in HistoryGone :
        Request((IF old.direct THEN <<>> ELSE KeepRevision(i, gone))
                \o (CASE poll = "keep" -> <<>>
                      [] poll = "new"  -> <<Put("poll", i, [ver |-> rec.ver,
                                             votes |-> [t \in Slot |-> 0]])>>
                      [] poll = "none" -> EraseIf("poll", {i}))
                \o (IF old.direct THEN <<Put("dm", i, rec.ver)>> ELSE <<>>)
                \o <<Put("stat", i, rec)>>)
     /\ KeepIds

DeleteStatus(i) == i \in Statuses /\ Request(RemoveAll({i})) /\ KeepIds

\* set_reaction and boost: room is made for the record, and the status itself
\* may be what makes way.  A boost over the limit displaces another.
SetMark(k) ==
  LET status == ram.rec.stat[k[2]]
      boosts == Marked("boost")
      over   == k[1] = "boost" /\ Cardinality(boosts) >= MaxBoosts
  IN /\ Live(ram.rec, k[3]) /\ k[2] \in Visible(k[3])
     /\ ram.rec.mark[k] = 0
     /\ k[1] = "pin" =>
          /\ status.author = k[3] /\ ~status.direct
          /\ Cardinality({p \in Marked("pin") : p[3] = k[3]}) < MaxPins
     /\ k[1] = "boost" => ~status.direct
     /\ \E b \in IF over THEN {<<Erase("mark", o)>> : o \in boosts} ELSE {<<>>} :
          \/ NoRoom(b)
          \/ \E v \in MakeRoom(0) :
               /\ Request(b \o RemoveAll(v)
                    \o (IF k[2] \in v THEN <<>>
                        ELSE <<Put("mark", k, ram.rec.acct[k[3]].id)>>))
               /\ KeepIds

UnsetMark(k) ==
  /\ Live(ram.rec, k[3]) /\ k[2] \in Visible(k[3])
  /\ ram.rec.mark[k] > 0
  /\ Request(EraseIf("mark", {k}))
  /\ KeepIds

Vote(s, i) ==
  /\ Live(ram.rec, s) /\ i \in Visible(s)
  /\ ram.rec.poll[i] # None /\ ram.rec.stat[i].author # s
  /\ ram.rec.poll[i].votes[s] = 0
  /\ Request(<<Put("poll", i, [ram.rec.poll[i] EXCEPT
                                 !.votes[s] = ram.rec.acct[s].id])>>)
  /\ KeepIds

-----------------------------------------------------------------------------
(***************************************************************************)
(* Members.                                                                *)
(***************************************************************************)
\* create_member takes the first free slot.
CreateMember ==
  LET free == {s \in Slot : ram.rec.acct[s] = None}
  IN /\ free # {} /\ lastAccount < MaxAccount
     /\ Request(<<Put("acct", Min(free), [id |-> lastAccount + 1,
                                          deleted |-> FALSE])>>)
     /\ lastAccount' = lastAccount + 1
     /\ UNCHANGED lastId

\* forget_votes, in the polls that are left.
ForgetVotes(s, gone) ==
  LET voted == SetToSeq({i \in Id \ gone : /\ ram.rec.poll[i] # None
                                           /\ ram.rec.poll[i].votes[s] > 0})
  IN [n \in DOMAIN voted |->
        Put("poll", voted[n], [ram.rec.poll[voted[n]] EXCEPT !.votes[s] = 0])]

\* The tombstone, then the member's statuses, marks and votes, then the account.
Purge(s) ==
  LET own == {i \in Statuses : ram.rec.stat[i].author = s}
  IN <<Put("acct", s, [ram.rec.acct[s] EXCEPT !.deleted = TRUE])>>
     \o RemoveAll(own)
     \o EraseIf("mark", {k \in Mark : k[3] = s /\ k[2] \notin own})
     \o ForgetVotes(s, own)
     \o <<Erase("acct", s)>>

\* An admin deletes any member but the owner, who has the first slot.
DeleteAccount(s) ==
  s # 1 /\ Live(ram.rec, s) /\ Request(Purge(s)) /\ KeepIds

-----------------------------------------------------------------------------
Off ==
  /\ mode' = "down" /\ todo' = <<>> /\ refused' = FALSE
  /\ ram' = Load(NoRecords)

\* Power is lost in the middle of a request or of boot's repairs.
PowerCut ==
  /\ todo # <<>>
  /\ Fault
  /\ Off
  /\ disk' \in {disk, Stored(disk, Head(todo))}
  /\ KeepIds

\* The restart of an idle service, which a latched one needs.
Restart ==
  /\ mode = "latched" \/ Ready
  /\ Off
  /\ UNCHANGED <<disk, faults>>
  /\ KeepIds

Boot ==
  /\ mode = "down"
  /\ mode' = "booting"
  /\ ram' = Load(disk)
  /\ todo' = Repairs(disk)
  /\ UNCHANGED <<disk, refused, faults>>
  /\ KeepIds

Booted ==
  /\ mode = "booting" /\ todo = <<>>
  /\ mode' = "up"
  /\ UNCHANGED <<disk, ram, todo, refused, faults>>
  /\ KeepIds

\* Every slot is taken.
Init ==
  /\ disk = [NoRecords EXCEPT !.acct = [s \in Slot |-> [id |-> s, deleted |-> FALSE]]]
  /\ ram = Load(disk)
  /\ mode = "up"
  /\ todo = <<>>
  /\ lastId = 0 /\ lastAccount = Slots
  /\ refused = FALSE /\ faults = 0

\* The inputs of a post or an edit.
Mentioned == IF "mention" \in Features THEN SUBSET Slot ELSE {{}}

Parents == IF "reply" \in Features THEN 0..MaxId ELSE {0}

Having(feature) == {FALSE} \cup {feature \in Features}

Member ==
  \/ \E s \in Slot, ms \in Mentioned, p \in Parents,
        poll \in Having("poll"), direct \in Having("direct") :
       PostStatus(s, ms, p, poll, direct)
  \/ \E i \in Id, ms \in Mentioned,
        poll \in {"none"} \cup (IF "poll" \in Features THEN {"keep", "new"} ELSE {}) :
       EditStatus(i, ms, poll)
  \/ \E i \in Id : DeleteStatus(i)
  \/ \E k \in Mark : SetMark(k)
  \/ \E k \in Mark : UnsetMark(k)
  \/ \E s \in Slot, i \in Id : Vote(s, i)

Admin == CreateMember \/ \E s \in Slot : DeleteAccount(s)

Next == \/ Member \/ Admin
        \/ Step \/ StepFails \/ StepRefused
        \/ PowerCut \/ Restart \/ Boot \/ Booted

Spec == Init /\ [][Next]_vars

-----------------------------------------------------------------------------
\* Every record and derived field is well formed, and a service that is off or
\* latched by a storage error writes nothing.
TypeOK ==
  /\ disk \in Records /\ ram.rec \in Records
  /\ ram.mentions \in [Id -> SUBSET Slot] /\ ram.replies \in [Id -> 0..MaxId]
  /\ mode \in {"booting", "up", "latched", "down"}
  /\ mode \in {"latched", "down"} => todo = <<>>
  /\ lastId \in 0..MaxId /\ lastAccount \in Account
  /\ refused \in BOOLEAN /\ faults \in 0..MaxFaults

\* The service's memory is its store, record for record, with the reply counts a
\* boot would compute, after any sequence of requests, power cuts and repairs;
\* and unless the flash has been full, boot would find nothing to repair in it.
Coherent ==
  Ready =>
    /\ ram.rec = disk
    /\ \A i \in Id : ram.replies[i] = Replies(ram.rec, i)
    /\ refused \/ Loaded(disk) = disk

\* A member in a slot used before inherits nothing from who had it: no status,
\* favourite, pin, boost or vote, whatever the purge and its repair went through.
NothingInherited ==
  Ready => \A s \in Slot : Live(ram.rec, s) =>
    LET id == ram.rec.acct[s].id IN
    /\ \A i \in Statuses : ram.rec.stat[i].author = s => ram.rec.stat[i].by = id
    /\ \A k \in Mark : k[3] = s => ram.rec.mark[k] \in {0, id}
    /\ \A i \in Id : ram.rec.poll[i] # None => ram.rec.poll[i].votes[s] \in {0, id}

\* A post's audience is fixed when it is written: the members it is taken to
\* mention are those whose account ids it holds.
AudienceFixed ==
  Ready => \A i \in Statuses, s \in Slot : Live(ram.rec, s) =>
    (s \in ram.mentions[i] <=> ram.rec.acct[s].id \in ram.rec.stat[i].mentions)

\* An edit overwrites a status only when the version it replaces is in the
\* history on the store, so that no power cut loses both; a direct message has
\* no history.
EditKeepsOldStep ==
  \A i \in Id :
    LET old == disk.stat[i]  new == disk'.stat[i]
    IN old # None /\ new # None /\ ~old.direct /\ new # old =>
         \E n \in 1..Revisions : disk.hist[<<i, n>>] = old.ver
EditKeepsOld == [][EditKeepsOldStep]_vars

\* What boot finds of an edit that was cut off is undone: every revision is
\* older than the status, and none is of a direct message (unless the flash was
\* full).
HistoryPrecedes ==
  Ready /\ ~refused => \A h \in DOMAIN ram.rec.hist : ram.rec.hist[h] > 0 =>
    /\ ram.rec.stat[h[1]] # None /\ ~ram.rec.stat[h[1]].direct
    /\ ram.rec.hist[h] < ram.rec.stat[h[1]].ver

\* The records are well formed and true, in memory and on the store, after any
\* sequence of requests, power cuts and repairs, and so is their history.
RecordsHold == TypeOK /\ Coherent /\ HistoryPrecedes
=============================================================================
