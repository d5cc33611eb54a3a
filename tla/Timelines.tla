----------------------------- MODULE Timelines -----------------------------
(***************************************************************************)
(* What one member reads: the timelines, lists, notifications and          *)
(* conversations a board answers from its records (domain/query.rs,        *)
(* lists.rs, conversations.rs, api/timelines.rs, notification_groups.rs,   *)
(* conversations.rs), the pages a client walks through by the cursors of   *)
(* the Link header, and the ids those cursors rest on (ids.rs).            *)
(*                                                                         *)
(* A row of the flash is a post, a boost, a favourite, a notification or a *)
(* post from elsewhere, under its id; ids are the instants of the model,   *)
(* so that one tick passes with every record.  A scene says which timeline *)
(* is read, what may be written meanwhile and what changes between people. *)
(***************************************************************************)
EXTENDS Naturals, FiniteSets, FiniteSetsExt

CONSTANTS Viewer, Others,
          Scenes,          \* what is read, written and changed together
          Limit,           \* rows of a page
          MaxId,           \* bound: records ever made
          MaxChanges,      \* bound: changes of relationships and moderation
          MaxReboots       \* bound: restarts

VARIABLES scene,
          rows,        \* the records: id -> row
          rel,         \* what lies between the viewer and each other member
          quiet,       \* the posts that carry the viewer's conversation mute
          last,        \* the newest id the generator knows (RAM)
          time,        \* the instant of the newest record ever made
          behind,      \* the clock of this boot stands in the past
          talk,        \* conversations read and hidden, by their root (RAM)
          stats,       \* the cached numbers of posts (RAM)
          reader,      \* a client reading page after page
          changes, reboots

vars == <<scene, rows, rel, quiet, last, time, behind, talk, stats, reader,
          changes, reboots>>

NoOne == "nobody"
NoStats == [p \in {} |-> 0]
People == Others \cup {Viewer}
Ids == 1 .. MaxId
Of(what) == {i \in DOMAIN rows : rows[i].what = what}
Posts == Of("post")

(***************************************************************************)
(* Who may see what.                                                       *)
(***************************************************************************)
Follows(a) == a \in Others /\ rel[a].follow # "no"
BoostsFrom(a) == a \in Others /\ rel[a].follow = "all"
BlocksViewer(a) == a \in Others /\ "blocked" \in rel[a].cut
Blocked(a) == a \in Others /\ rel[a].cut \cap {"blocks", "blocked"} # {}
Hides(a) == a \in Others /\ rel[a].cut # {}
HiddenMask == {a \in Others : Hides(a)}
Suspended(a) == a \in Others /\ rel[a].standing = "suspended"
Silenced(a) == a \in Others /\ rel[a].standing = "silenced"

CanSee(s) ==
  /\ ~Suspended(s.by) /\ ~BlocksViewer(s.by)
  /\ \/ s.vis \in {"public", "unlisted"} \/ s.by = Viewer
     \/ s.vis = "private" /\ Follows(s.by)
     \/ Viewer \in s.to
Visible(i) == i \in Posts /\ CanSee(rows[i])

StatusId(i) == IF rows[i].what = "boost" THEN rows[i].of ELSE i
HiddenEntry(i, hidden) ==
  LET s == rows[StatusId(i)]
      booster == IF rows[i].what = "boost" THEN {rows[i].by} ELSE {}
  IN  ({s.by} \cup booster \cup s.to) \cap hidden # {}

OnPublic(s) ==
  /\ s.vis = "public" /\ CanSee(s)
  /\ s.by = Viewer \/ s.to \cap HiddenMask = {}
  /\ ~Hides(s.by)
  /\ ~Silenced(s.by) \/ Follows(s.by)

\* The rule of the home timeline.
InHome(i) ==
  LET e == rows[i]
      s == rows[StatusId(i)]
      own == e.what = "post" /\ e.by = Viewer
  IN  /\ Visible(StatusId(i))
      /\ own \/ ~HiddenEntry(i, HiddenMask)
      /\ IF e.what = "boost"
         THEN e.by = Viewer \/ BoostsFrom(e.by)
         ELSE IF ~own /\ ~Follows(s.by)
         THEN \/ s.vis = "direct" /\ Viewer \in s.to
              \/ scene.tagged /\ s.tag /\ OnPublic(s)
         ELSE s.replied \in {NoOne, s.by, Viewer} \/ own \/ Follows(s.replied)
ListMembers == {a \in scene.list.members : rel[a].listed}
ExclusiveMask == IF scene.list.exclusive THEN ListMembers ELSE {}
RemoteEntries == IF rel[CHOOSE a \in Others : TRUE].abroad THEN Of("remote") ELSE {}
Home == {i \in Posts \cup Of("boost") :
           InHome(i) /\ rows[i].by \notin ExclusiveMask} \cup RemoteEntries
Public == {i \in Posts : OnPublic(rows[i])}
TagTimeline == {i \in Posts : rows[i].tag /\ OnPublic(rows[i])}
Direct == {i \in Posts : /\ rows[i].vis = "direct" /\ CanSee(rows[i])
                         /\ ~Hides(rows[i].by)}

ListKeeps(i) ==
  LET e == rows[i]
      s == rows[StatusId(i)]
  IN  /\ Visible(StatusId(i))
      /\ e.by \in ListMembers
      /\ IF e.what = "boost" THEN {e.by, s.by} \cap HiddenMask = {}
         ELSE /\ s.to \cap HiddenMask = {}
              /\ \/ s.replied \in {NoOne, s.by}
                 \/ /\ scene.list.policy # "none" /\ s.replied = Viewer
                 \/ scene.list.policy = "followed" /\ Follows(s.replied)
                 \/ scene.list.policy = "list" /\ s.replied \in ListMembers
ListTimeline == {i \in Posts \cup Of("boost") : ListKeeps(i)}

\* The page of one account, whole or without replies and boosts.
AccountStatuses(a, plain) ==
  {i \in Posts \cup Of("boost") :
     /\ rows[i].by = a /\ Visible(StatusId(i))
     /\ plain => rows[i].what = "post" /\ rows[i].replied \in {NoOne, a}}
ReactionsOf == {i \in Of("fav") : Visible(rows[i].of)}
SearchStatuses == {i \in Posts : CanSee(rows[i]) /\ ~Hides(rows[i].by)}

(***************************************************************************)
(* Threads, conversations and notifications.                               *)
(***************************************************************************)
ThreadChain(i) ==
  LET chain[j \in 0 .. MaxId] ==
        IF j \in Posts THEN {j} \cup chain[rows[j].parent] ELSE {}
  IN  chain[i]
ThreadMuted(i) == ThreadChain(i) \cap quiet # {}

\* The thread shown around a post: what is visible above it, up to the
\* first that is not, and what is visible below it.
Context(i) ==
  LET up[j \in 0 .. MaxId] == IF Visible(j) THEN {j} \cup up[rows[j].parent] ELSE {}
      down[j \in 0 .. MaxId] ==
        j = i \/ (j > i /\ Visible(j) /\ rows[j].parent >= i /\ down[rows[j].parent])
  IN  {j \in up[rows[i].parent] \cup {d \in Ids : d # i /\ down[d]} :
         ~Hides(rows[j].by)}

ConversationRoot(i) ==
  LET root[j \in Ids] ==
        LET p == rows[j].parent
        IN  IF p \in Posts /\ rows[p].vis = "direct" THEN root[p] ELSE j
  IN  root[i]
Messages(root) == {i \in Direct : ConversationRoot(i) = root}
Newest(root) == Max(Messages(root))
TalkState(root) == IF root \in DOMAIN talk THEN talk[root] ELSE [read |-> 0, hidden |-> 0]
Conversations == {r \in {ConversationRoot(i) : i \in Direct} :
                    Newest(r) > TalkState(r).hidden}
ConversationRows == {Newest(r) : r \in Conversations}

WantsNotification(from, of) ==
  /\ from # Viewer /\ ~Blocked(from) /\ ~Suspended(from)
  /\ "muteall" \notin rel[from].cut
  /\ ~Silenced(from) \/ Follows(from)
  /\ of = 0 \/ ~ThreadMuted(of)
Notifications ==
  {i \in Of("note") : LET n == rows[i] IN
     /\ WantsNotification(n.from, n.of)
     /\ n.of = 0 \/ Visible(n.of)}
\* Favourites and boosts of one post, and follows, are grouped.
GroupKey(i) == CASE rows[i].kind \in {"favourite", "reblog"} -> <<rows[i].kind, rows[i].of>>
                 [] rows[i].kind = "follow" -> <<"follow">>
                 [] OTHER -> <<"ungrouped", i, i>>
Groups == {{i \in Notifications : GroupKey(i) = k} : k \in {GroupKey(i) : i \in Notifications}}
GroupRows == {Max(g) : g \in Groups}

\* The rows a request for the scene's timeline finds.
Timeline ==
  CASE scene.feed = "home" -> Home
    [] scene.feed = "public" -> Public
    [] scene.feed = "tag" -> TagTimeline
    [] scene.feed = "direct" -> Direct
    [] scene.feed = "list" -> ListTimeline
    [] scene.feed = "account" -> AccountStatuses(scene.whose, FALSE)
    [] scene.feed = "plain" -> AccountStatuses(scene.whose, TRUE)
    [] scene.feed = "favourites" -> ReactionsOf
    [] scene.feed = "notifications" -> Notifications
    [] scene.feed = "groups" -> GroupRows
    [] scene.feed = "conversations" -> ConversationRows
    [] scene.feed = "search" -> SearchStatuses
    [] scene.feed = "thread" -> UNION {Context(i) : i \in {p \in Posts : Visible(p)}}

(***************************************************************************)
(* Pages.  A row's place is its id; min_id asks for the page just above a  *)
(* cursor, max_id for the newest below it.  The header links to the next   *)
(* page only below a full one.                                             *)
(***************************************************************************)
Largest(S, k) == {i \in S : Cardinality({j \in S : j > i}) < k}
Smallest(S, k) == {i \in S : Cardinality({j \in S : j < i}) < k}
Within(S, lower, upper) == {i \in S : i > lower /\ (upper = 0 \/ i < upper)}
\* Mutant: min_id answers as since_id does, with the newest page.
PaginateSince(S, min, max) ==
  Largest(Within(S, min, max), Limit)
Paginate(S, min, max) ==
  IF min > 0 THEN Smallest(Within(S, min, max), Limit)
             ELSE Largest(Within(S, 0, max), Limit)
NextLink(page) == IF Cardinality(page) >= Limit THEN Min(page) ELSE 0
PrevLink(page, before) == IF page = {} THEN before ELSE Max(page)

Paged == scene.feed \notin {"search", "thread"}
Closed == [open |-> FALSE, next |-> 0, top |-> 0, shown |-> {}, steady |-> {}]
\* The rows the reader may count on: in the timeline since it opened, or
\* since they were made.
Watch(r) == reader' = [r EXCEPT !.steady = IF reader.open
                         THEN (r.steady \cap Timeline') \cup (Timeline' \ DOMAIN rows)
                         ELSE @]

Open ==
  /\ Paged /\ ~reader.open /\ Timeline # {}
  /\ LET page == Paginate(Timeline, 0, 0)
     IN  reader' = [open |-> TRUE, next |-> NextLink(page), top |-> Max(page),
                    shown |-> page, steady |-> Timeline]
  /\ UNCHANGED <<scene, rows, rel, quiet, last, time, behind, talk, stats, changes, reboots>>
Older ==
  /\ reader.next # 0
  /\ LET page == Paginate(Timeline, 0, reader.next)
     IN  reader' = [reader EXCEPT !.next = NextLink(page), !.shown = @ \cup page]
  /\ UNCHANGED <<scene, rows, rel, quiet, last, time, behind, talk, stats, changes, reboots>>
Newer ==
  /\ reader.open
  /\ LET page == Paginate(Timeline, reader.top, 0)
     IN  /\ page # {}
         /\ reader' = [reader EXCEPT !.top = PrevLink(page, @), !.shown = @ \cup page]
  /\ UNCHANGED <<scene, rows, rel, quiet, last, time, behind, talk, stats, changes, reboots>>

(***************************************************************************)
(* What is written meanwhile.                                              *)
(***************************************************************************)
MaxOf(a, b) == IF a > b THEN a ELSE b
\* No counter is stored: the clock, but never an id at or below the newest
\* the generator has seen.
NextId == MaxOf(IF behind THEN 0 ELSE time + 1, last + 1)
Stores(kept) == rows' = kept /\ quiet' = quiet \cap DOMAIN kept

Row(d, of) ==
  CASE d.what = "post" -> [what |-> "post", by |-> d.by, vis |-> d.vis, to |-> d.to,
                           tag |-> d.tag, parent |-> of,
                           replied |-> IF of = 0 THEN NoOne ELSE rows[of].by]
    [] d.what = "boost" -> [what |-> "boost", by |-> d.by, of |-> of]
    [] d.what = "fav" -> [what |-> "fav", of |-> of]
    [] d.what = "note" -> [what |-> "note", kind |-> d.kind, from |-> d.from, of |-> of]
    [] d.what = "remote" -> [what |-> "remote"]
\* What a draft may be about: 0 stands for nothing.
Targets(d) ==
  CASE d.what = "post" -> {0} \cup {i \in Posts : d.reply /\ rows[i].vis = d.vis}
    [] d.what = "boost" -> {i \in Posts : /\ \/ rows[i].vis \in {"public", "unlisted"}
                                             \/ rows[i].vis = "private" /\ rows[i].by = d.by
                                          /\ \A b \in Of("boost") : rows[b].by = d.by => rows[b].of # i}
    [] d.what = "fav" -> {i \in Posts : Visible(i) /\ \A f \in Of("fav") : rows[f].of # i}
    [] d.what = "note" -> {i \in Posts \cup {0} :
                             /\ (i = 0) = (d.kind = "follow")
                             /\ i # 0 => rows[i].by = (IF d.kind = "mention" THEN d.from ELSE Viewer)
                             /\ WantsNotification(d.from, i)}
    [] d.what = "remote" -> {0}
Cached(what) == IF what = "post" THEN NoStats ELSE stats
Write(d, of) ==
  /\ NextId <= MaxId
  /\ rows' = [i \in DOMAIN rows \cup {NextId} |-> IF i = NextId THEN Row(d, of) ELSE rows[i]]
  /\ last' = NextId /\ time' = MaxOf(time, NextId)
  /\ stats' = Cached(d.what)
  /\ UNCHANGED <<scene, rel, quiet, behind, talk, changes, reboots>>
  /\ Watch(reader)

\* A post goes with its boosts, its favourites and what was told of it.
About(i) == {j \in DOMAIN rows : rows[j].what \in {"boost", "fav", "note"} /\ rows[j].of = i}
Delete(i) ==
  /\ Stores([j \in DOMAIN rows \ ({i} \cup About(i)) |-> rows[j]])
  /\ stats' = Cached(rows[i].what)
  /\ UNCHANGED <<scene, rel, last, time, behind, talk, changes, reboots>>
  /\ Watch(reader)

MuteTarget(i) ==
  LET root == Min(ThreadChain(i)) IN IF Visible(root) THEN root ELSE i
SetConversationMute(i, on) ==
  /\ Visible(i) /\ scene.mutes
  /\ on # ThreadMuted(i)
  /\ quiet' = IF on THEN quiet \cup {MuteTarget(i)} ELSE quiet \ ThreadChain(i)
  /\ UNCHANGED <<scene, rows, rel, last, time, behind, talk, stats, changes, reboots>>
  /\ Watch(reader)

MarkConversation(root, hide) ==
  /\ root \in Conversations
  /\ talk' = [r \in DOMAIN talk \cup {root} |->
                IF r # root THEN talk[r]
                ELSE [read |-> Newest(root),
                      hidden |-> IF hide THEN Newest(root) ELSE TalkState(root).hidden]]
  /\ UNCHANGED <<scene, rows, rel, quiet, last, time, behind, stats, changes, reboots>>
  /\ Watch(reader)

\* Dismissing a group takes the notifications it shows, no others.
Dismissed(gone) == Stores([j \in DOMAIN rows \ gone |-> rows[j]])
Dismiss(g) ==
  /\ scene.feed \in {"notifications", "groups"} /\ g \in Groups
  /\ Dismissed(g)
  /\ UNCHANGED <<scene, rel, last, time, behind, talk, stats, changes, reboots>>
  /\ Watch(reader)

\* The numbers on a profile are counted once and kept until a post changes.
Counted == [p \in People |-> Cardinality({i \in Posts : rows[i].by = p /\ rows[i].vis # "direct"})]
AccountStats ==
  /\ scene.feed = "account" /\ stats = NoStats
  /\ stats' = Counted
  /\ UNCHANGED <<scene, rows, rel, quiet, last, time, behind, talk, reader, changes, reboots>>

\* One relationship changes; a block ends the follow and the list entry.
Changed(r) ==
  {[r EXCEPT !.follow = f] : f \in IF r.cut \cap {"blocks", "blocked"} = {} THEN {"no", "quiet", "all"} ELSE {"no"}}
  \cup {[r EXCEPT !.cut = @ \cup {c}] : c \in {"mute", "muteall"}}
  \cup {[r EXCEPT !.cut = @ \cup {c}, !.follow = "no", !.listed = FALSE] : c \in {"blocks", "blocked"}}
  \cup {[r EXCEPT !.cut = @ \ {c}] : c \in r.cut}
  \cup {[r EXCEPT !.standing = s] : s \in {"free", "silenced", "suspended"}}
  \cup {[r EXCEPT !.abroad = ~@]}
Relate(a, r) ==
  /\ changes < MaxChanges /\ changes' = changes + 1
  /\ r # rel[a]
  /\ rel' = [rel EXCEPT ![a] = IF r.follow = "no" THEN [r EXCEPT !.listed = FALSE] ELSE r]
  /\ UNCHANGED <<scene, rows, quiet, last, time, behind, talk, stats, reboots>>
  /\ Watch(reader)

\* At boot the generator observes every record; what was RAM is gone.  A
\* clock behind the newest record is one set by hand or not yet set.
Reboot ==
  /\ reboots < MaxReboots /\ reboots' = reboots + 1
  /\ last' = Max({0} \cup DOMAIN rows)
  /\ behind' \in {FALSE, scene.clock}
  /\ talk' = [r \in {} |-> 0] /\ stats' = NoStats
  /\ UNCHANGED <<scene, rows, rel, quiet, time, changes>>
  /\ Watch(reader)

Init ==
  /\ scene \in Scenes
  /\ rows = [i \in {} |-> 0] /\ quiet = {}
  /\ rel = [a \in Others |-> [follow |-> "all", cut |-> {}, standing |-> "free",
                              listed |-> TRUE, abroad |-> TRUE]]
  /\ last = 0 /\ time = 0 /\ behind = FALSE
  /\ talk = [r \in {} |-> 0] /\ stats = NoStats
  /\ reader = Closed /\ changes = 0 /\ reboots = 0

Next ==
  \/ Open \/ Older \/ Newer \/ AccountStats \/ Reboot
  \/ \E d \in scene.drafts : \E of \in Targets(d) : Write(d, of)
  \/ \E i \in DOMAIN rows : rows[i].what # "note" /\ Delete(i)
  \/ \E i \in Posts, on \in BOOLEAN : SetConversationMute(i, on)
  \/ \E r \in Conversations, hide \in scene.marks :
       scene.feed = "conversations" /\ MarkConversation(r, hide)
  \/ \E g \in Groups : Dismiss(g)
  \/ \E a \in scene.changing : \E r \in Changed(rel[a]) : Relate(a, r)

Spec == Init /\ [][Next]_vars

(***************************************************************************)
(* Properties                                                              *)
(***************************************************************************)
\* Every row lies under an id the generator knows, a boost, favourite or
\* notification has its post, and the numbers kept of a profile are those a
\* fresh count would give (account_stats of query.rs, put and erase).
TypeOK ==
  /\ DOMAIN rows \subseteq Ids /\ Max({0} \cup DOMAIN rows) <= last /\ last <= time
  /\ quiet \subseteq Posts
  /\ \A i \in DOMAIN rows : rows[i].what \in {"boost", "fav"} => rows[i].of \in Posts
  /\ stats \in {NoStats, Counted}

\* A client that follows the Link headers sees everything: a row that has
\* been in the timeline all along lies on a page already shown, below the
\* oldest page or above the newest (paginate of query.rs, link of api/mod.rs).
NoneMissed ==
  reader.open =>
    \A i \in reader.steady :
      reader.next <= i /\ i <= reader.top => i \in reader.shown

\* What of other people's posts a row of the timeline puts before the viewer.
Displayed ==
  UNION {CASE rows[i].what = "post" -> {i}
           [] rows[i].what = "remote" -> {}
           [] rows[i].what \in {"boost", "fav"} -> {rows[i].of}
           [] OTHER -> {rows[i].of} \ {0} : i \in Timeline}
Actors == {rows[i].by : i \in {j \in Timeline : rows[j].what \in {"post", "boost"}}}
          \cup {rows[i].from : i \in {j \in Timeline : rows[j].what = "note"}}

\* Whatever is read, in whatever order people followed, muted, blocked and
\* were moderated: nobody sees a suspended member's post, or one of a member
\* who blocks them, or a direct message to others (can_see of query.rs), and
\* the ones they block or mute are gone from timelines, threads and search
\* (spec/04, Blocks and Mutes).
CutOff ==
  /\ \A i \in Displayed :
       LET s == rows[i] IN
       /\ ~Suspended(s.by) /\ ~BlocksViewer(s.by)
       /\ s.vis = "direct" => Viewer \in s.to \cup {s.by}
       /\ s.vis = "private" => Viewer \in s.to \cup {s.by} \/ Follows(s.by)
       /\ scene.feed \in {"home", "public", "tag", "direct", "thread", "search",
                          "conversations"} => ~Hides(s.by)
  /\ scene.feed \in {"home", "public", "tag"} => Actors \cap HiddenMask = {}
  /\ scene.feed \in {"notifications", "groups"} => \A a \in Actors : ~Blocked(a)
  /\ scene.feed = "home" => Actors \cap ExclusiveMask = {}

\* "The muted member disappears from the muter's timelines" (spec/04): no
\* timeline has a row of a member the viewer mutes.
MutedDisappears ==
  scene.feed \in {"home", "public", "tag", "list"} => Actors \cap HiddenMask = {}

\* "A clock that steps backwards still yields increasing ids" (ids.rs:3-6).
IdsIncreaseStep == \A i \in DOMAIN rows' \ DOMAIN rows : i > time
IdsIncrease == [][IdsIncreaseStep]_vars

\* The messages of the conversations that are listed.
Listed == {i \in Direct : ConversationRoot(i) \in Conversations}
\* "A hidden conversation comes back when a new message arrives" (spec/04), not
\* before: while the board runs and nothing between people changes, one that is
\* put away shows again only with a message that was not there.
PutAwayStaysStep ==
  reboots' = reboots /\ rel' = rel =>
    \A i \in ConversationRows' : i \in Listed \/ i \notin DOMAIN rows
PutAwayStays == [][PutAwayStaysStep]_vars
=============================================================================
