----------------------------- MODULE Relations -----------------------------
(***************************************************************************)
(* What members are to each other: follows, requests to locked accounts,   *)
(* blocks, mutes, lists, collections, reports and the notifications of all *)
(* of these, in domain/statuses.rs (set_follow), follow_requests.rs,       *)
(* moderation.rs, lists.rs, collections.rs, notifications.rs, and what     *)
(* build makes of their records at boot.  Requests are programs of single  *)
(* durable writes (see Writes).                                            *)
(* Records are stored by slot; a Person here is a slot with the account    *)
(* that had it when the record was written, so that it shows when a record *)
(* comes to mean somebody else.                                            *)
(***************************************************************************)
EXTENDS Writes

CONSTANTS Slots, Owner,      \* the slots and that of the owner
          Mutual,            \* the pairs of slots that deal with each other
          MaxNotes,          \* MAX_NOTIFICATIONS
          MaxReports,        \* MAX_REPORTS
          Kinds,             \* bound: the sets of requests made together
          MaxId              \* bound: ids drawn

RelationsAssumption ==
  /\ Owner \in Slots /\ Slots \subseteq Nat
  /\ Mutual \subseteq {p \in Slots \X Slots : p[1] # p[2]}
  /\ {MaxNotes, MaxReports, MaxId} \subseteq Nat \ {0}

VARIABLES kinds,       \* the requests that are made
          next,        \* the next id
          torn         \* owners an unfollow of whose was cut short or refused

vars == <<wvars, kinds, next, torn>>

NoOne == [id |-> 0, role |-> "none", locked |-> FALSE, dead |-> FALSE]
Account(d, s) == d.acct[s].id # 0 /\ ~d.acct[s].dead
Person(d, s) == [slot |-> s, id |-> d.acct[s].id]
Admin(d, s) == Account(d, s) /\ d.acct[s].role \in {"owner", "admin"}

Edge(d, a, b) == [from |-> Person(d, a), to |-> Person(d, b)]
Joins(e, a, b) == e.from.slot = a /\ e.to.slot = b
Has(edges, a, b) == \E e \in edges : Joins(e, a, b)
Without(edges, a, b) == {e \in edges : ~Joins(e, a, b)}
With(d, edges, a, b) == Without(edges, a, b) \cup {Edge(d, a, b)}
Touches(e, s) == s \in {e.from.slot, e.to.slot}
Blocked(d, a, b) == Has(d.blocks, a, b) \/ Has(d.blocks, b, a)

Draws == next <= MaxId /\ next' = next + 1 /\ UNCHANGED <<kinds, torn>>
Keeps == UNCHANGED <<kinds, next, torn>>

(***************************************************************************)
(* Notifications, oldest first.                                            *)
(***************************************************************************)
Wants(d, to, from) ==     \* wants_notification
  to # from /\ ~Blocked(d, to, from) /\ ~Has(d.mutes, to, from)
Note(d, kind, to, from, about) ==
  [kind |-> kind, to |-> Person(d, to), from |-> Person(d, from), about |-> about]
\* notify_about: the oldest goes first; an event that cannot be kept latches.
Notify(p, kind, to, from, about) ==
  LET d == End(p)
      room == IF Len(d.notes) < MaxNotes THEN p ELSE Erase(p, [d EXCEPT !.notes = Tail(@)])
      told == [End(room) EXCEPT !.notes = Append(@, Note(d, kind, to, from, about))]
  IN IF to = from \/ (kind # "report" /\ ~Wants(d, to, from)) THEN p
     ELSE Append(room, Writing(told, "latch"))
\* retain_notifications, one erasure at a time
Retain(p, gone) ==
  FoldLeft(LAMBDA q, n : Erase(q, [End(q) EXCEPT !.notes = SelectSeq(@, LAMBDA o : o # n)]),
           p, SetToSeq(gone))
NotesOf(d) == {d.notes[i] : i \in DOMAIN d.notes}
Between(n, a, b) == {n.to.slot, n.from.slot} = {a, b}
RequestOf(n, a, b) == n.kind = "request" /\ n.from.slot = a /\ n.to.slot = b
DropRequest(p, a, b) ==
  LET q == EraseOld(p, [End(p) EXCEPT !.requests = Without(@, a, b)])
  IN Retain(q, {n \in NotesOf(End(q)) : RequestOf(n, a, b)})

(***************************************************************************)
(* What build and load_notifications make of the records.                  *)
(***************************************************************************)
LiveEdge(d, e) == Account(d, e.from.slot) /\ Account(d, e.to.slot)
\* Mutant: the follows and requests that a block ended are left.
EdgesAsFound(d, edges) == {e \in edges : LiveEdge(d, e)}
Ended(d, edges) ==
  {e \in edges : LiveEdge(d, e) /\ \A b \in d.blocks :
     LiveEdge(d, b) => {b.from.slot, b.to.slot} # {e.from.slot, e.to.slot}}
NoteHolds(d, n) ==
  /\ Account(d, n.to.slot) /\ Person(d, n.to.slot) = n.to
  /\ Account(d, n.from.slot) /\ Person(d, n.from.slot) = n.from
  /\ ~Blocked(d, n.to.slot, n.from.slot)
  /\ n.kind = "request" => Has(d.requests, n.from.slot, n.to.slot)
  /\ n.kind = "report" => \E r \in d.reports : r.id = n.about
  /\ n.kind = "featured" => n.to.id \in d.featured[n.from.slot].items
LiveReport(d, r) == Account(d, r.reporter.slot) /\ Account(d, r.target.slot)
Owned(d, what, none) == [s \in Slots |-> IF Account(d, s) THEN what[s] ELSE none]
NoCollection == [items |-> {}, revoked |-> {}]
Featured(d, c) ==
  LET known == {d.acct[s].id : s \in {t \in Slots : Account(d, t)}}
  IN [items |-> c.items \cap known, revoked |-> c.revoked \cap known]
Booted(d) ==
  LET follows == Ended(d, d.follows)
      built == [d EXCEPT
        !.follows = follows,
        !.requests = {e \in Ended(d, @) : ~Has(follows, e.from.slot, e.to.slot)},
        !.blocks = {e \in @ : LiveEdge(d, e)}, !.mutes = {e \in @ : LiveEdge(d, e)},
        !.lists = Owned(d, @, {}), !.reports = {r \in @ : LiveReport(d, r)},
        !.featured = [s \in Slots |-> Featured(d, Owned(d, @, NoCollection)[s])],
        !.acct = [s \in Slots |-> IF Account(d, s) THEN @[s] ELSE NoOne]]
  IN [built EXCEPT !.notes = SelectSeq(@, LAMBDA n : NoteHolds(built, n))]

(***************************************************************************)
(* Follows and follow requests.                                            *)
(***************************************************************************)
Member(s, t) == Ready /\ <<s, t>> \in Mutual /\ Account(disk, s) /\ Account(disk, t)
Asks(name, s, p) == name \in kinds /\ Does([op |-> name, by |-> s], p)

Follow(s, t) ==
  /\ Member(s, t) /\ ~Blocked(disk, s, t) /\ ~Has(disk.follows, s, t)
  /\ IF disk.acct[t].locked
     THEN /\ ~Has(disk.requests, s, t)
          /\ Asks("request", s, Notify(Put(Begin, [disk EXCEPT !.requests = With(disk, @, s, t)]), "request", t, s, 0))
     ELSE Asks("follow", s, Notify(Put(Begin, [disk EXCEPT !.follows = With(disk, @, s, t)]), "follow", t, s, 0))
  /\ Keeps
\* leave_lists
LeaveLists(p, s, t) == PutNew(p, [End(p) EXCEPT !.lists[s] = @ \ {End(p).acct[t].id}])
EndFollow(p, s, t) ==
  IF Has(End(p).follows, s, t)
  THEN LeaveLists(Erase(p, [End(p) EXCEPT !.follows = Without(@, s, t)]), s, t) ELSE p
Unfollow(s, t) ==
  /\ Member(s, t) /\ (Has(disk.follows, s, t) \/ Has(disk.requests, s, t))
  /\ LET p == EndFollow(Begin, s, t)
     IN Asks("unfollow", s, IF Has(disk.requests, s, t) THEN DropRequest(p, s, t) ELSE p)
  /\ Keeps
\* Mutant: the request goes before the follow is written.
AdmitsLast(p, s, t) ==
  LET q == DropRequest(p, t, s) IN Put(q, [End(q) EXCEPT !.follows = With(End(q), @, t, s)])
Admits(p, s, t) ==
  DropRequest(Put(p, [End(p) EXCEPT !.follows = With(End(p), @, t, s)]), t, s)
Authorize(s, t) ==
  /\ Member(s, t) /\ Has(disk.requests, t, s)
  /\ Asks("authorize", s, Admits(Begin, s, t)) /\ Keeps
Reject(s, t) ==
  /\ Member(s, t) /\ Has(disk.requests, t, s)
  /\ Asks("reject", s, DropRequest(Begin, t, s)) /\ Keeps
\* update_profile: unlocking lets everyone in who waits.
SetLocked(s) ==
  /\ Ready /\ Account(disk, s) /\ <<Owner, s>> \notin Mutual
  /\ LET p == Put(Begin, [disk EXCEPT !.acct[s].locked = ~@])
         waiting == {t \in Slots : Has(disk.requests, t, s)}
     IN Asks("lock", s, IF disk.acct[s].locked
                     THEN FoldLeft(LAMBDA q, t : Admits(q, s, t), p, SetToSeq(waiting)) ELSE p)
  /\ Keeps

(***************************************************************************)
(* Blocks, mutes and lists.                                                *)
(***************************************************************************)
EndBoth(p, a, b) == DropRequest(EndFollow(p, a, b), a, b)
Block(s, t) ==
  /\ Member(s, t) /\ ~Has(disk.blocks, s, t)
  /\ LET p == Put(Begin, [disk EXCEPT !.blocks = With(disk, @, s, t)])
         q == EndBoth(EndBoth(p, s, t), t, s)
     IN Asks("block", s, Retain(q, {n \in NotesOf(End(q)) : Between(n, s, t)}))
  /\ Keeps
Unblock(s, t) ==
  /\ Member(s, t) /\ Has(disk.blocks, s, t)
  /\ Asks("unblock", s, Erase(Begin, [disk EXCEPT !.blocks = Without(@, s, t)])) /\ Keeps
SetMute(s, t) ==
  /\ Member(s, t)
  /\ Asks("mute", s, IF Has(disk.mutes, s, t) THEN Erase(Begin, [disk EXCEPT !.mutes = Without(@, s, t)])
                  ELSE Put(Begin, [disk EXCEPT !.mutes = With(disk, @, s, t)]))
  /\ Keeps
AddToList(s, t) ==
  /\ Member(s, t) /\ Has(disk.follows, s, t)
  /\ Asks("list", s, PutNew(Begin, [disk EXCEPT !.lists[s] = @ \cup {disk.acct[t].id}])) /\ Keeps
RemoveFromList(s, t) ==
  /\ Member(s, t)
  /\ Asks("list", s, PutNew(Begin, [disk EXCEPT !.lists[s] = @ \ {disk.acct[t].id}])) /\ Keeps
DeleteList(s) ==
  /\ Ready /\ Account(disk, s) /\ disk.lists[s] # {}
  /\ Asks("list", s, Erase(Begin, [disk EXCEPT !.lists[s] = {}])) /\ Keeps

(***************************************************************************)
(* A collection per member, of accounts that may take themselves out.  One *)
(* with nobody in it is not told from none at all.                         *)
(***************************************************************************)
\* featurable
Featurable(s, t) ==
  /\ Member(s, t) /\ ~Blocked(disk, s, t)
  /\ disk.acct[t].id \notin disk.featured[s].items \cup disk.featured[s].revoked
CreateCollection(s) ==
  /\ disk.featured[s] = NoCollection
  /\ \E others \in SUBSET Slots :
       /\ others # {} /\ \A t \in others : Featurable(s, t)
       /\ Asks("feature", s,
            FoldLeft(LAMBDA p, t : Notify(p, "featured", t, s, 0),
                     Put(Begin, [disk EXCEPT !.featured[s].items = {disk.acct[t].id : t \in others}]), SetToSeq(others)))
  /\ Keeps
DeleteCollection(s) ==
  /\ Ready /\ Account(disk, s) /\ disk.featured[s] # NoCollection
  /\ Asks("unfeature", s, Retain(Erase(Begin, [disk EXCEPT !.featured[s] = NoCollection]),
                                 {n \in NotesOf(disk) : n.kind = "featured" /\ n.from.slot = s}))
  /\ Keeps
Feature(s, t) ==
  /\ Featurable(s, t)
  /\ Asks("feature", s, Notify(Put(Begin, [disk EXCEPT !.featured[s].items = @ \cup {disk.acct[t].id}]), "featured", t, s, 0))
  /\ Keeps
RemoveItem(s, t) ==
  /\ Member(s, t) /\ disk.acct[t].id \in disk.featured[s].items
  /\ LET p == Put(Begin, [disk EXCEPT !.featured[s].items = @ \ {disk.acct[t].id}])
     IN Asks("unfeature", s, Retain(p, {n \in NotesOf(disk) : n.kind = "featured" /\ n.from.slot = s /\ n.to.slot = t}))
  /\ Keeps
RevokeItem(s, t) ==
  /\ Member(s, t) /\ ~Blocked(disk, s, t) /\ disk.acct[t].id \in disk.featured[s].items
  /\ Asks("revoke", t, Put(Begin, [disk EXCEPT !.featured[s] =
       [items |-> @.items \ {disk.acct[t].id}, revoked |-> @.revoked \cup {disk.acct[t].id}]]))
  /\ Keeps

(***************************************************************************)
(* Reports, roles and the end of an account.                               *)
(***************************************************************************)
Nobody == [slot |-> 0, id |-> 0]
Report(s, t) == [id |-> next, reporter |-> Person(disk, s), target |-> Person(disk, t),
                 done |-> FALSE, assigned |-> Nobody, by |-> Nobody]
Resolved(d) == {r \in d.reports : r.done}
FileReport(s, t) ==
  /\ Member(s, t)
  /\ LET full == Cardinality(disk.reports) >= MaxReports
         oldest == CHOOSE r \in Resolved(disk) : \A o \in Resolved(disk) : r.id <= o.id
         room == IF full THEN Erase(Begin, [disk EXCEPT !.reports = @ \ {oldest}]) ELSE Begin
         filed == Put(room, [End(room) EXCEPT !.reports = @ \cup {Report(s, t)}])
     IN /\ full => Resolved(disk) # {}
        /\ Asks("report", s, FoldLeft(LAMBDA p, a : Notify(p, "report", a, s, next), filed,
                                   SetToSortSeq({a \in Slots : Admin(disk, a)}, <)))
  /\ Draws
Rewrite(p, r, new) == PutNew(p, [End(p) EXCEPT !.reports = (@ \ {r}) \cup {new}])
\* assign_report: to the admin, or back to nobody
Assign(a, r) ==
  /\ Ready /\ Admin(disk, a) /\ r \in disk.reports
  /\ \E to \in {Person(disk, a), Nobody} \ {r.assigned} :
       Asks("assign", a, Rewrite(Begin, r, [r EXCEPT !.assigned = to]))
  /\ Keeps
\* resolve_report: closed, or opened again
Resolve(a, r) ==
  /\ Ready /\ Admin(disk, a) /\ r \in disk.reports
  /\ Asks("resolve", a, Rewrite(Begin, r,
       [r EXCEPT !.done = ~@, !.by = IF r.done THEN Nobody ELSE Person(disk, a)]))
  /\ Keeps
SetRole(s) ==
  /\ Ready /\ Account(disk, s) /\ s # Owner
  /\ Asks("role", Owner, Put(Begin, [disk EXCEPT !.acct[s].role = IF @ = "admin" THEN "member" ELSE "admin"]))
  /\ Keeps

\* purge_account, the part of these records, in its order
EraseEach(p, field, gone) ==
  FoldLeft(LAMBDA q, e : Erase(q, [End(q) EXCEPT ![field] = @ \ {e}]), p, SetToSeq(gone))
Names(r, s) == s \in {r.assigned.slot, r.by.slot}
Unnamed(r, s) == [r EXCEPT !.assigned = IF @.slot = s THEN Nobody ELSE @, !.by = IF @.slot = s THEN Nobody ELSE @]
PurgeEdges(p, s) ==
  LET of(edges) == {e \in edges : Touches(e, s)}
      follows == EraseEach(p, "follows", of(disk.follows))
      blocks == EraseEach(follows, "blocks", of(disk.blocks))
  IN EraseEach(blocks, "mutes", of(disk.mutes))
PurgeReports(p, s) ==
  LET about == {r \in disk.reports : s \in {r.reporter.slot, r.target.slot}}
      rest == {r \in disk.reports \ about : Names(r, s)}
  IN FoldLeft(LAMBDA q, r : Rewrite(q, r, Unnamed(r, s)), EraseEach(p, "reports", about), SetToSeq(rest))
PurgeCollections(p, s) ==
  LET own == EraseOld(p, [End(p) EXCEPT !.featured[s] = NoCollection])
      id == disk.acct[s].id
  IN FoldLeft(LAMBDA q, o : PutNew(q, [End(q) EXCEPT !.featured[o] =
                 [items |-> @.items \ {id}, revoked |-> @.revoked \ {id}]]),
              own, SetToSeq(Slots \ {s}))
Purge(p, s) ==
  LET left == PurgeCollections(PurgeReports(PurgeEdges(p, s), s), s)
      asked == EraseEach(left, "requests", {e \in disk.requests : Touches(e, s)})
      listed == EraseOld(asked, [End(asked) EXCEPT !.lists[s] = {}])
  IN Retain(listed, {n \in NotesOf(disk) : s \in {n.to.slot, n.from.slot}})
Tombstone(s) == Put(Begin, [disk EXCEPT !.acct[s].dead = TRUE])
DeleteAccount(s) ==
  /\ Ready /\ Account(disk, s) /\ s # Owner
  /\ LET p == Purge(Tombstone(s), s)
     IN Asks("delete", s, EraseOld(p, [End(p) EXCEPT !.acct[s] = NoOne]))
  /\ Keeps
CreateMember(s) ==
  /\ Ready /\ disk.acct[s] = NoOne
  /\ Asks("create", Owner, Put(Begin, [disk EXCEPT !.acct[s] = [NoOne EXCEPT !.id = next, !.role = "member"]]))
  /\ Draws

(***************************************************************************)
(* Writes, failures and boot.                                              *)
(***************************************************************************)
Tears == torn' = IF doing.op \in {"unfollow", "block"}
                 THEN torn \cup {doing.by} \cup {t \in Slots : <<doing.by, t>> \in Mutual} ELSE torn
Write == Step /\ Keeps
Refused == Full(Begin) /\ Tears /\ UNCHANGED <<kinds, next>>
Fails == Breaks /\ Tears /\ UNCHANGED <<kinds, next>>
Stops == PowerCut /\ Tears /\ UNCHANGED <<kinds, next>>
Boot ==
  /\ up = "off" /\ up' = "ready" /\ disk' = Booted(disk)
  /\ UNCHANGED <<todo, doing, faults>> /\ Keeps

Init ==
  /\ disk = [acct |-> [s \in Slots |-> [NoOne EXCEPT !.id = s, !.role = IF s = Owner THEN "owner" ELSE "member"]],
             follows |-> {}, requests |-> {}, blocks |-> {}, mutes |-> {}, lists |-> [s \in Slots |-> {}],
             featured |-> [s \in Slots |-> NoCollection], reports |-> {}, notes |-> <<>>]
  /\ up = "ready" /\ todo = <<>> /\ doing = Nothing /\ faults = 0
  /\ kinds \in Kinds /\ next = Cardinality(Slots) + 1 /\ torn = {}

Next ==
  \/ \E s, t \in Slots :
       \/ Follow(s, t) \/ Unfollow(s, t) \/ Authorize(s, t) \/ Reject(s, t)
       \/ Block(s, t) \/ Unblock(s, t) \/ SetMute(s, t) \/ AddToList(s, t) \/ RemoveFromList(s, t)
       \/ Feature(s, t) \/ RemoveItem(s, t) \/ RevokeItem(s, t) \/ FileReport(s, t)
  \/ \E s \in Slots : DeleteList(s) \/ CreateCollection(s) \/ DeleteCollection(s)
  \/ \E s \in Slots : SetLocked(s) \/ SetRole(s) \/ DeleteAccount(s) \/ CreateMember(s)
  \/ \E s \in Slots, r \in disk.reports : Assign(s, r) \/ Resolve(s, r)
  \/ Write \/ Refused \/ Fails \/ Stops \/ Boot

Spec == Init /\ [][Next]_vars

(***************************************************************************)
(* Properties.                                                             *)
(***************************************************************************)
TypeOK ==
  /\ up \in {"ready", "latched", "off"} /\ torn \subseteq Slots
  /\ Len(disk.notes) <= MaxNotes /\ Cardinality(disk.reports) <= MaxReports
  /\ \A s \in Slots : disk.lists[s] \subseteq 1..MaxId

\* A block that is durable ends the follows and the requests of the two, in
\* both directions, and no event between them is shown, wherever the power
\* went in set_block; an admin's notice of a report is the exception.  When a
\* write of the block is refused the rest is ended by the next boot.
BlockEnds(d, refused) ==
  \A b \in d.blocks : LET s == b.from.slot
                          t == b.to.slot IN
    s \in refused \/
    /\ \A e \in d.follows \cup d.requests : ~Joins(e, s, t) /\ ~Joins(e, t, s)
    /\ \A n \in NotesOf(d) : Between(n, s, t) => n.kind = "report"
BlocksEnd == (Ready => BlockEnds(disk, torn)) /\ BlockEnds(Booted(disk), {})

\* No record speaks of one member and comes to mean another who has the slot
\* now: neither edges nor reports, notifications, lists or collections.
SamePerson(d, p) == Person(d, p.slot) = p
NobodyElse(d) ==
  /\ \A e \in d.follows \cup d.requests \cup d.blocks \cup d.mutes :
       SamePerson(d, e.from) /\ SamePerson(d, e.to)
  /\ \A r \in d.reports : SamePerson(d, r.reporter) /\ SamePerson(d, r.target)
  /\ \A n \in NotesOf(d) : SamePerson(d, n.to) /\ SamePerson(d, n.from)
  /\ \A s \in Slots : d.acct[s].id = 0 => d.lists[s] = {} /\ d.featured[s] = NoCollection
EdgesKeepTheirPeople == NobodyElse(Booted(disk)) /\ (Ready /\ faults = 0 => NobodyElse(disk))

\* A request that an acceptance ended became a follow, be it one acceptance or
\* the unlocking that lets everybody in (authorize_all, follow_requests.rs:79):
\* nobody let in is left with neither, whatever write the power cut off.
AcceptedFollowsStep ==
  doing.op \in {"authorize", "lock"} /\ up = "ready"
  => \A e \in Booted(disk).requests :
       Account(disk', e.from.slot) /\ Account(disk', e.to.slot) =>
       e \in Booted(disk').requests \cup Booted(disk').follows
AcceptedFollows == [][AcceptedFollowsStep]_vars

\* Every notification of a follow request leads to a request that waits, and
\* one of a collection to the collection it was about (the events of evicted
\* reports and revoked items stay until the next boot).
NotesHold ==
  Ready => \A n \in NotesOf(disk) : LET c == disk.featured[n.from.slot] IN
    {n.from.slot, n.to.slot} \subseteq {s \in Slots : Account(disk, s)} =>
    /\ n.kind = "request" => Has(disk.requests, n.from.slot, n.to.slot)
    /\ n.kind = "featured" => n.to.id \in c.items \cup c.revoked

\* Unless an unfollow or a block was cut short, a list holds members whom its
\* owner follows.
ListsFollow ==
  Ready => \A s \in Slots \ torn, t \in Slots : Account(disk, s) /\ Account(disk, t) =>
             (disk.acct[t].id \in disk.lists[s] => Has(disk.follows, s, t))
=============================================================================
