------------------------------- MODULE Social -------------------------------
(***************************************************************************)
(* The small social records of domain/social.rs and their routes in        *)
(* api/social.rs: followed and featured tags, private notes, dismissed     *)
(* suggestions, and announcements with who read them and who reacted.      *)
(* They name accounts by id, never by slot.  Requests are programs of      *)
(* single writes (see Writes).  Texts, dates and the emoji themselves are  *)
(* left out; a new announcement takes the first free place, as no id is    *)
(* drawn twice.                                                            *)
(***************************************************************************)
EXTENDS Writes, FiniteSetsExt

CONSTANTS Slots, Owner,      \* the slots (MAX_ACCOUNTS of them) and the owner's
          MaxTags,           \* MAX_FOLLOWED_TAGS, MAX_FEATURED_TAGS
          Places,            \* MAX_ANNOUNCEMENTS of them
          Tags,              \* names of tags
          Topics,            \* bound: the kinds of record looked at one by one
          MaxId              \* bound: members ever

SocialAssumption ==
  /\ Owner \in Slots /\ Slots \subseteq Nat \ {0} /\ Places \subseteq Nat
  /\ {MaxTags, MaxId} \subseteq Nat

VARIABLES next,      \* the next member's account
          topic      \* the kind of record at play

vars == <<wvars, next, topic>>

NoOne == [id |-> 0, dead |-> FALSE]
NoPrefs == [id |-> 0, followed |-> {}, featured |-> {}, dismissed |-> {}]
NoNews == [open |-> "no", read |-> {}, likes |-> {}]
Account(d, s) == d.people[s].id # 0 /\ ~d.people[s].dead
IdOf(d, s) == d.people[s].id
Alive(d) == {IdOf(d, s) : s \in {t \in Slots : Account(d, t)}}
\* social: a member without a record has an empty one.
Prefs(d, s) == IF d.prefs[s] = NoPrefs THEN [NoPrefs EXCEPT !.id = IdOf(d, s)] ELSE d.prefs[s]

Asks(name, p) == Len(p) > 1 /\ Does([op |-> name], p)
\* save_social: nothing is written when nothing changes.
Save(s, rec) == Asks("social", IF rec = Prefs(disk, s) THEN Begin ELSE Put(Begin, [disk EXCEPT !.prefs[s] = rec]))

(***************************************************************************)
(* What members do.                                                        *)
(***************************************************************************)
Toggled(set, x) == IF x \in set THEN set \ {x} ELSE set \cup {x}
Fits(set) == Cardinality(set) <= MaxTags
FollowTag(s, t) ==
  /\ Ready /\ Account(disk, s)
  /\ LET rec == [Prefs(disk, s) EXCEPT !.followed = Toggled(@, t)]
     IN Fits(rec.followed) /\ Save(s, rec)
  /\ UNCHANGED <<next, topic>>
FeatureTag(s, t) ==
  /\ Ready /\ Account(disk, s)
  /\ LET rec == [Prefs(disk, s) EXCEPT !.featured = Toggled(@, t)]
     IN Fits(rec.featured) /\ Save(s, rec)
  /\ UNCHANGED <<next, topic>>
DismissSuggestion(s, t) ==
  /\ Ready /\ Account(disk, s) /\ Account(disk, t)
  /\ Save(s, [Prefs(disk, s) EXCEPT !.dismissed = @ \cup {IdOf(disk, t)}])
  /\ UNCHANGED <<next, topic>>
NoteOn(d, s, t) == [from |-> [slot |-> s, id |-> IdOf(d, s)], to |-> [slot |-> t, id |-> IdOf(d, t)]]
Between(n, s, t) == n.from.slot = s /\ n.to.slot = t
SetNote(s, t) ==
  /\ Ready /\ Account(disk, s) /\ Account(disk, t)
  /\ LET old == {n \in disk.notes : Between(n, s, t)}
     IN Asks("note", IF old = {} THEN Put(Begin, [disk EXCEPT !.notes = @ \cup {NoteOn(disk, s, t)}])
                     ELSE Erase(Begin, [disk EXCEPT !.notes = @ \ old]))
  /\ UNCHANGED <<next, topic>>

(***************************************************************************)
(* Announcements.  The owner stands for every admin.                       *)
(***************************************************************************)
Free == {a \in Places : disk.news[a] = NoNews}
Announce ==
  /\ Ready /\ Free # {}
  /\ Asks("announce", Put(Begin, [disk EXCEPT !.news[Min(Free)] = [@ EXCEPT !.open = "yes"]]))
  /\ UNCHANGED <<next, topic>>
\* publish and unpublish: who read it, and who reacted, stays.
Publish(a, open) ==
  /\ Ready /\ disk.news[a] # NoNews /\ disk.news[a].open # open
  /\ Asks("publish", Put(Begin, [disk EXCEPT !.news[a].open = open]))
  /\ UNCHANGED <<next, topic>>
DeleteAnnouncement(a) ==
  /\ Ready /\ disk.news[a] # NoNews
  /\ Asks("delete", Erase(Begin, [disk EXCEPT !.news[a] = NoNews]))
  /\ UNCHANGED <<next, topic>>
\* react_announcement: read, or react, or take the reaction back.
ReadNews(s, a) ==
  /\ Ready /\ Account(disk, s) /\ disk.news[a].open = "yes" /\ IdOf(disk, s) \notin disk.news[a].read
  /\ Asks("read", Put(Begin, [disk EXCEPT !.news[a].read = @ \cup {IdOf(disk, s)}]))
  /\ UNCHANGED <<next, topic>>
React(s, a) ==
  /\ Ready /\ Account(disk, s) /\ disk.news[a].open = "yes"
  /\ Asks("react", Put(Begin, [disk EXCEPT !.news[a].likes = Toggled(@, IdOf(disk, s))]))
  /\ UNCHANGED <<next, topic>>

(***************************************************************************)
(* Members come and go.                                                    *)
(***************************************************************************)
Clean(d, n) == [n EXCEPT !.read = @ \cap Alive(d), !.likes = @ \cap Alive(d)]
\* clean_announcement_accounts, one announcement at a time
CleanNews(p) ==
  FoldLeft(LAMBDA q, a : PutNew(q, [End(q) EXCEPT !.news[a] = Clean(End(q), @)]), p, SetToSeq(Places))
EraseNotes(p, s) ==
  FoldLeft(LAMBDA q, n : Erase(q, [End(q) EXCEPT !.notes = @ \ {n}]), p,
           SetToSeq({n \in End(p).notes : s \in {n.from.slot, n.to.slot}}))
\* Mutant: who was dismissed stays so.
KeepDismissed(p, id) == p
Undismiss(p, id) ==
  FoldLeft(LAMBDA q, s : PutNew(q, [End(q) EXCEPT !.prefs[s].dismissed = @ \ {id}]), p, SetToSeq(Slots))
PurgeSocial(p, s, id) ==
  CleanNews(Undismiss(EraseNotes(Erase(p, [End(p) EXCEPT !.prefs[s] = NoPrefs]), s), id))
DeleteMember(s) ==
  /\ Ready /\ Account(disk, s) /\ s # Owner
  /\ LET p == PurgeSocial(Put(Begin, [disk EXCEPT !.people[s].dead = TRUE]), s, IdOf(disk, s))
     IN Asks("delete", Erase(p, [End(p) EXCEPT !.people[s] = NoOne]))
  /\ UNCHANGED <<next, topic>>
CreateMember(s) ==
  /\ Ready /\ disk.people[s] = NoOne /\ next <= MaxId /\ next' = next + 1 /\ UNCHANGED topic
  /\ Asks("create", Put(Begin, [disk EXCEPT !.people[s] = [id |-> next, dead |-> FALSE]]))

\* load_social: a record beyond its bounds is corrupt and the board does not start.
Within(d) ==
  /\ \A s \in Slots : /\ Fits(d.prefs[s].followed) /\ Fits(d.prefs[s].featured)
                      /\ Cardinality(d.prefs[s].dismissed) <= Cardinality(Slots)
  /\ \A a \in Places : Cardinality(d.news[a].read) <= Cardinality(Slots) /\ Cardinality(d.news[a].likes) <= Cardinality(Slots)
Booted(d) ==
  LET people == [s \in Slots |-> IF Account(d, s) THEN d.people[s] ELSE NoOne]
  IN [d EXCEPT !.people = people,
               !.prefs = [s \in Slots |-> IF people[s].id # 0 /\ people[s].id = @[s].id
                                          THEN [@[s] EXCEPT !.dismissed = @ \cap Alive(d)] ELSE NoPrefs],
               !.notes = {n \in @ : people[n.from.slot].id = n.from.id /\ people[n.to.slot].id = n.to.id},
               !.news = [a \in Places |-> Clean(d, @[a])]]
Boot ==
  /\ up = "off" /\ Within(disk)
  /\ up' = "ready" /\ disk' = Booted(disk)
  /\ UNCHANGED <<todo, doing, faults, next, topic>>

Init ==
  /\ disk = [people |-> [s \in Slots |-> [id |-> s, dead |-> FALSE]],
             prefs |-> [s \in Slots |-> NoPrefs], notes |-> {}, news |-> [a \in Places |-> NoNews]]
  /\ up = "ready" /\ todo = <<>> /\ doing = Nothing /\ faults = 0 /\ next = Max(Slots) + 1 /\ topic \in Topics

Next ==
  \/ topic = "tags" /\ \E s \in Slots, t \in Tags : FollowTag(s, t) \/ FeatureTag(s, t)
  \/ topic = "people" /\ \E s, t \in Slots : DismissSuggestion(s, t) \/ SetNote(s, t)
  \/ topic = "news" /\ \E a \in Places : (\E open \in {"yes", "hidden"} : Publish(a, open)) \/ DeleteAnnouncement(a)
  \/ topic = "news" /\ \E s \in Slots, a \in Places : ReadNews(s, a) \/ React(s, a)
  \/ topic = "news" /\ Announce
  \/ \E s \in Slots : DeleteMember(s) \/ CreateMember(s)
  \/ (Step \/ Full(<<>>) \/ Breaks \/ PowerCut) /\ UNCHANGED <<next, topic>>
  \/ Boot

Spec == Init /\ [][Next]_vars

-----------------------------------------------------------------------------
\* After any deletions, reused slots, refused writes and power cuts, every
\* stored record is one the board starts with (load_social takes a record
\* with too many accounts in it for a corrupt store), and nothing a member
\* reads speaks of an account that is gone, nor is anybody else's.
SocialHolds ==
  /\ Within(disk)
  /\ Ready => LET held == {IdOf(disk, s) : s \in Slots}
              IN /\ \A s \in Slots : disk.prefs[s].id \in {0, IdOf(disk, s)} /\ disk.prefs[s].dismissed \subseteq held
                 /\ \A n \in disk.notes : n.from.id = IdOf(disk, n.from.slot) /\ n.to.id = IdOf(disk, n.to.slot)
                 /\ \A a \in Places : disk.news[a].read \cup disk.news[a].likes \subseteq held
=============================================================================
