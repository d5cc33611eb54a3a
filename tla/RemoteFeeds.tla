---------------------------- MODULE RemoteFeeds ----------------------------
(***************************************************************************)
(* Accounts on other servers: the household's followed feeds, their posts  *)
(* and pictures (domain/remote.rs), and the bots board's nightly run that  *)
(* fetches the feeds and hands in what is new (bots/feeds.rs).             *)
(* Requests are programs of single writes (see Writes); a follower is a    *)
(* slot with the account that followed, so that it shows when a follow     *)
(* comes to be somebody else's.  Posts of a feed are 1, 2, ... in the      *)
(* order of their publication, and its validators stand for its newest     *)
(* post.  Every picture has size 1.  Failures, dates and profiles of a     *)
(* feed are left out; so is MAX_REMOTE_ITEMS, which a board of at most     *)
(* BOARD_FEEDS_CEILING feeds cannot pass.                                  *)
(***************************************************************************)
EXTENDS Writes, FiniteSetsExt

CONSTANTS Slots, Owner,      \* the slots and that of the owner
          Feeds,             \* remote accounts that a search has shown, by id
          PerFeed,           \* ITEMS_PER_FEED, and the posts a feed shows
          MaxFeeds,          \* feeds_max_board
          MaxPending,        \* PENDING_MEDIA_MAX
          Scenes,            \* bound: the scenes looked at one by one
          MaxId              \* bound: members ever

(***************************************************************************)
(* A scene: who may follow what (pairs), the posts each feed will have,    *)
(* the pictures there are (of a post, or of the account as number 0) and   *)
(* the media quotas that an admin chooses between.                         *)
(***************************************************************************)
FeedsAssumption ==
  /\ Owner \in Slots /\ Slots \subseteq Nat \ {0} /\ Feeds \subseteq Nat
  /\ Scenes \subseteq [interests : SUBSET (Slots \X Feeds), posts : [Feeds -> 0..9],
                       pictures : SUBSET (Feeds \X (0..9)), quotas : SUBSET (0..9)]
  /\ {PerFeed, MaxFeeds, MaxPending} \subseteq Nat \ {0}

VARIABLES scene,     \* the scene
          shows,     \* the newest post of each feed on its server
          bots,      \* the bots board's run
          next,      \* the next member's account
          torn       \* a request was cut short: "no", "now" or "before" the boot

vars == <<wvars, scene, shows, bots, next, torn>>

NoOne == [id |-> 0, dead |-> FALSE]
NoFeed == [who |-> {}, etag |-> 0, avatar |-> 0]
Account(d, s) == d.people[s].id # 0 /\ ~d.people[s].dead
Person(d, s) == [slot |-> s, id |-> d.people[s].id]
Stored(d) == {a \in Feeds : d.feeds[a].who # {}}
ItemsOf(d, a) == SelectSeq(d.items, LAMBDA i : i.feed = a)
Posts(d, a) == {i.post : i \in Range(ItemsOf(d, a))}
Named(d) == UNION {i.media : i \in Range(d.items)} \cup ({d.feeds[a].avatar : a \in Feeds} \ {0})
Pending(d) == {m.file : m \in Range(d.pending)}
\* Ids are never drawn again; here a file of nobody's lends its number.
NewFile(d) == CHOOSE f \in 1..(Cardinality(Named(d) \cup d.files) + 1) : f \notin Named(d) \cup d.files
\* drop_media_file
Drop(d, files) == [d EXCEPT !.files = @ \ files,
                            !.bytes = IF @ < Cardinality(files) THEN 0 ELSE @ - Cardinality(files)]

Keeps == UNCHANGED <<scene, shows, next, torn>>
Asks(name, p) == Does([op |-> name], p)

(***************************************************************************)
(* Follows.  The last unfollow deletes the account and its posts.          *)
(***************************************************************************)
\* remove_remote_item
RemoveItem(p, i) == Erase(p, Drop([End(p) EXCEPT !.items = Remove(@, i)], i.media))
\* remove_remote_account
RemoveAccount(p, a) ==
  LET q == FoldLeft(RemoveItem, p, ItemsOf(End(p), a))
  IN Erase(q, Drop([End(q) EXCEPT !.feeds[a] = NoFeed], {End(q).feeds[a].avatar} \ {0}))
Follows(d, s, a) == \E w \in d.feeds[a].who : w.slot = s
Follow(s, a) ==
  /\ Ready /\ Account(disk, s) /\ ~Follows(disk, s, a)
  /\ a \in Stored(disk) \/ Cardinality(Stored(disk)) < MaxFeeds
  /\ Asks("follow", Put(Begin, [disk EXCEPT !.feeds[a].who = @ \cup {Person(disk, s)}]))
  /\ UNCHANGED bots /\ Keeps
Leave(p, s, a) ==
  LET left == {w \in End(p).feeds[a].who : w.slot # s}
  IN IF left = {} THEN RemoveAccount(p, a) ELSE Put(p, [End(p) EXCEPT !.feeds[a].who = left])
Unfollow(s, a) ==
  /\ Ready /\ Account(disk, s) /\ Follows(disk, s, a)
  /\ Asks("unfollow", Leave(Begin, s, a))
  /\ UNCHANGED bots /\ Keeps
\* remote_forget_slot
Forget(p, s) ==
  FoldLeft(LAMBDA q, a : Leave(q, s, a), p, SetToSeq({a \in Feeds : Follows(End(p), s, a)}))
DeleteMember(s) ==
  /\ Ready /\ Account(disk, s) /\ s # Owner
  /\ LET p == Forget(Put(Begin, [disk EXCEPT !.people[s].dead = TRUE]), s)
     IN Asks("delete", Erase(p, [End(p) EXCEPT !.people[s] = NoOne]))
  /\ UNCHANGED bots /\ Keeps
CreateMember(s) ==
  /\ Ready /\ disk.people[s] = NoOne /\ next <= MaxId /\ next' = next + 1
  /\ Asks("create", Put(Begin, [disk EXCEPT !.people[s] = [id |-> next, dead |-> FALSE]]))
  /\ UNCHANGED <<scene, shows, bots, torn>>

(***************************************************************************)
(* Pictures and what the bots board hands in.                              *)
(***************************************************************************)
Withheld(p, i) ==
  LET dropped == Drop(End(p), i.media)
  IN Put(Aside(p, dropped), [dropped EXCEPT !.items = ReplaceAll(@, i, [i EXCEPT !.media = {}])])
\* enforce_media_quota: the oldest posts' pictures go first.
Enforce(p) ==
  FoldLeft(LAMBDA q, i : IF End(q).bytes > End(q).quota /\ i.media # {} THEN Withheld(q, i) ELSE q,
           p, End(p).items)
SetQuota(n) ==
  /\ Ready /\ n \in scene.quotas \ {disk.quota}
  /\ Asks("settings", Enforce(Put(Begin, [disk EXCEPT !.quota = n])))
  /\ UNCHANGED bots /\ Keeps

\* feed_media_put; the oldest picture that nobody has named makes room.
Uploaded(d, a) ==
  LET saved == [d EXCEPT !.files = @ \cup {NewFile(d)}, !.bytes = @ + 1]
      room == IF Len(d.pending) < MaxPending THEN saved
              ELSE [Drop(saved, {Head(d.pending).file}) EXCEPT !.pending = Tail(@)]
  IN [room EXCEPT !.pending = Append(@, [feed |-> a, file |-> NewFile(d)])]
Waits(d, a, f) == [feed |-> a, file |-> f] \in Range(d.pending)
\* take_pending
Take(d, a, files) == [d EXCEPT !.pending = SelectSeq(@, LAMBDA m : m.feed # a \/ m.file \notin files)]

\* The profile and the feed's validators come first.
Profile(p, a, etag, avatar) ==
  LET taken == avatar # 0 /\ Waits(End(p), a, avatar)
      d == IF taken THEN Drop(Take(End(p), a, {avatar}), {End(p).feeds[a].avatar} \ {0}) ELSE End(p)
      q == IF taken THEN Aside(p, d) ELSE p
  IN Put(q, [d EXCEPT !.feeds[a].etag = etag, !.feeds[a].avatar = IF taken THEN avatar ELSE @])
Add(p, a, post, media) ==
  IF post \in Posts(End(p), a) THEN p
  ELSE LET files == {f \in media : Waits(End(p), a, f)}
           d == Take(End(p), a, files)
       IN Put(IF files = {} THEN p ELSE Aside(p, d),
              [d EXCEPT !.items = Append(@, [feed |-> a, post |-> post, media |-> files])])
DropUnused(p, a) ==
  LET unused == {m.file : m \in {n \in Range(End(p).pending) : n.feed = a}}
  IN IF unused = {} THEN p ELSE Aside(p, Drop(Take(End(p), a, unused), unused))
Trim(p, a) ==
  LET mine == ItemsOf(End(p), a)
  IN FoldLeft(RemoveItem, p, SubSeq(mine, 1, Len(mine) - PerFeed))
\* feed_result; media[post] are the uploaded pictures of a post.
Result(a, etag, avatar, media) ==
  LET p == Profile(Begin, a, etag, avatar)
      q == FoldLeft(LAMBDA r, post : Add(r, a, post, media[post]), p,
                    SetToSortSeq(DOMAIN media, LAMBDA x, y : x < y))
  IN Enforce(Trim(DropUnused(q, a), a))

(***************************************************************************)
(* The bots board's run over the feeds, one at a time.                     *)
(***************************************************************************)
AtRest == [at |-> "rest", list |-> <<>>, etag |-> 0, avatar |-> 0, media |-> <<>>, todo |-> {}, start |-> 0]
Shown(a) == {n \in 1..shows[a] : n > shows[a] - PerFeed}
\* feed_jobs
Job(a) == [feed |-> a, etag |-> disk.feeds[a].etag, avatar |-> disk.feeds[a].avatar = 0,
           newest |-> IF Posts(disk, a) = {} THEN 0 ELSE Max(Posts(disk, a))]
Turned(s, n) == [i \in 1..Len(s) |-> s[((i + n - 1) % Len(s)) + 1]]
StartRun ==
  /\ bots.at = "rest" /\ Ready /\ Stored(disk) # {}
  /\ LET jobs == SetToSortSeq({Job(a) : a \in Stored(disk)}, LAMBDA x, y : x.feed < y.feed)
         start == bots.start % Len(jobs)
     IN bots' = [bots EXCEPT !.at = "feed", !.start = start, !.list = Turned(jobs, start)]
  /\ UNCHANGED wvars /\ Keeps
Current == Head(bots.list)
\* The next feed, or the end of the run.
NextFeed == bots' = [AtRest EXCEPT !.at = IF Len(bots.list) = 1 THEN "rest" ELSE "feed",
                                   !.list = Tail(bots.list),
                                   !.start = IF Len(bots.list) = 1 THEN 0 ELSE bots.start + 1]
\* The longest run is over: the next one starts here.
OutOfTime ==
  /\ bots.at = "feed"
  /\ bots' = [AtRest EXCEPT !.start = bots.start]
  /\ UNCHANGED wvars /\ Keeps
\* The feed's server has something new, has nothing new, or does not answer.
FetchNew ==
  /\ bots.at = "feed" /\ shows[Current.feed] # 0 /\ shows[Current.feed] # Current.etag
  /\ bots' = [bots EXCEPT !.at = "pictures", !.etag = shows[Current.feed],
                          !.media = [n \in Shown(Current.feed) |-> {}],
                          !.todo = {n \in Shown(Current.feed) \cup {0} :
                                      /\ <<Current.feed, n>> \in scene.pictures
                                      /\ IF n = 0 THEN Current.avatar ELSE n > Current.newest}]
  /\ UNCHANGED wvars /\ Keeps
FetchOld ==
  /\ bots.at = "feed" /\ shows[Current.feed] = Current.etag
  /\ Ready /\ Current.feed \in Stored(disk)
  /\ Asks("result", Result(Current.feed, disk.feeds[Current.feed].etag, 0, <<>>))
  /\ NextFeed /\ Keeps
FetchFails == bots.at = "feed" /\ NextFeed /\ UNCHANGED wvars /\ Keeps
\* The avatar (0) and each fresh post's picture, newest first.
Picture == IF 0 \in bots.todo THEN 0 ELSE Max(bots.todo)
Upload ==
  /\ bots.at = "pictures" /\ bots.todo # {} /\ Ready /\ Current.feed \in Stored(disk)
  /\ disk' = Uploaded(disk, Current.feed) /\ UNCHANGED <<up, todo, doing, faults>>
  /\ LET file == NewFile(disk)
         got == IF Picture = 0 THEN [bots EXCEPT !.avatar = file] ELSE [bots EXCEPT !.media[Picture] = {file}]
     IN bots' = [got EXCEPT !.todo = @ \ {Picture}]
  /\ Keeps
UploadLost ==
  /\ bots.at = "pictures" /\ bots.todo # {} /\ Ready /\ Current.feed \in Stored(disk)
  /\ Fault /\ disk' = Uploaded(disk, Current.feed) /\ UNCHANGED <<up, todo, doing>>
  /\ NextFeed /\ Keeps
SkipPicture ==
  /\ bots.at = "pictures" /\ bots.todo # {}
  /\ bots' = [bots EXCEPT !.todo = @ \ {Picture}]
  /\ UNCHANGED wvars /\ Keeps
\* The account may be nobody's by now, or another's who followed it meanwhile.
HandIn ==
  /\ bots.at = "pictures" /\ bots.todo = {} /\ Ready
  /\ IF Current.feed \in Stored(disk)
     THEN Asks("result", Result(Current.feed, bots.etag, bots.avatar, bots.media))
     ELSE UNCHANGED wvars
  /\ NextFeed /\ Keeps
NoAnswer ==
  /\ bots.at # "rest" /\ up # "ready" /\ NextFeed
  /\ UNCHANGED wvars /\ Keeps
Publish(a) ==
  /\ shows[a] < scene.posts[a] /\ shows' = [shows EXCEPT ![a] = @ + 1]
  /\ UNCHANGED <<wvars, scene, bots, next, torn>>

(***************************************************************************)
(* load_remote and sweep_media_files, and the faults.                      *)
(***************************************************************************)
\* Mutant: the followers are taken as they are stored.
LiveAsFound(d, who) == who
Live(d, who) == {w \in who : Account(d, w.slot)}
Swept(d) == [d EXCEPT !.files = @ \cap Named(d), !.pending = <<>>,
                      !.bytes = Cardinality(Named(d))]
Booted(d) ==
  LET people == [s \in Slots |-> IF Account(d, s) THEN d.people[s] ELSE NoOne]
      feeds == [a \in Feeds |-> IF Live(d, d.feeds[a].who) = {} THEN NoFeed
                                ELSE [d.feeds[a] EXCEPT !.who = Live(d, @)]]
      kept == [d EXCEPT !.people = people, !.feeds = feeds,
                        !.items = SelectSeq(@, LAMBDA i : feeds[i.feed] # NoFeed)]
  IN Swept(kept)
Boot ==
  /\ up = "off" /\ up' = "ready" /\ disk' = Booted(disk)
  /\ torn' = IF torn = "no" THEN "no" ELSE "before"
  /\ UNCHANGED <<todo, doing, faults, scene, shows, bots, next>>
Cut == torn' = (IF todo = <<>> THEN torn ELSE "now") /\ UNCHANGED <<scene, shows, bots, next>>

Init ==
  /\ scene \in Scenes
  /\ disk = [people |-> [s \in Slots |-> [id |-> s, dead |-> FALSE]],
             feeds |-> [a \in Feeds |-> NoFeed], items |-> <<>>, quota |-> Max(scene.quotas),
             files |-> {}, pending |-> <<>>, bytes |-> 0]
  /\ up = "ready" /\ todo = <<>> /\ doing = Nothing /\ faults = 0
  /\ shows = [a \in Feeds |-> 0] /\ bots = AtRest /\ next = Max(Slots) + 1 /\ torn = "no"

Next ==
  \/ \E s \in Slots : CreateMember(s) \/ DeleteMember(s)
  \/ \E i \in scene.interests : Follow(i[1], i[2]) \/ Unfollow(i[1], i[2])
  \/ \E n \in scene.quotas : SetQuota(n)
  \/ \E a \in Feeds : Publish(a)
  \/ StartRun \/ OutOfTime \/ FetchNew \/ FetchOld \/ FetchFails
  \/ Upload \/ UploadLost \/ SkipPicture \/ HandIn \/ NoAnswer
  \/ Step /\ UNCHANGED bots /\ Keeps
  \/ Full(<<>>) /\ Cut
  \/ Breaks /\ Cut
  \/ PowerCut /\ Cut
  \/ Boot

Spec == Init /\ [][Next]_vars

-----------------------------------------------------------------------------
(***************************************************************************)
(* What the household may count on.                                        *)
(***************************************************************************)
\* An account's posts are in the timeline in the order they were published
\* and none is there twice, whatever was evicted, cut short or unfollowed
\* meanwhile; and when the stored validators say that there is nothing new,
\* every post that the feed shows is there (unless a request was cut short
\* between the validators and the posts: feed_result writes them first).
FeedHeld ==
  /\ \A i, j \in DOMAIN disk.items :
       i < j /\ disk.items[i].feed = disk.items[j].feed => disk.items[i].post < disk.items[j].post
  /\ Ready /\ torn = "no" =>
       \A a \in Stored(disk) : disk.feeds[a].etag = shows[a] => Posts(disk, a) = Shown(a)

\* Every follow is of the member who made it, never of the next one in the
\* slot, and nothing is kept of an account that nobody follows (load_remote:
\* a reused slot must not inherit them).
FollowsAreTheirOwn ==
  Ready => /\ \A a \in Feeds : \A w \in disk.feeds[a].who : disk.people[w.slot].id = w.id
           /\ \A i \in Range(disk.items) : i.feed \in Stored(disk)

\* Between requests the card holds exactly the pictures that a record names
\* or that wait for a result, and the quota is measured on those; what a
\* request cut short left over is gone with the next boot.
PicturesCounted ==
  Ready => /\ torn # "now" => disk.files \subseteq Named(disk) \cup Pending(disk)
           /\ torn = "no" => /\ Named(disk) \cup Pending(disk) \subseteq disk.files
                             /\ disk.bytes = Cardinality(disk.files)
                             /\ disk.bytes > disk.quota + Len(disk.pending) =>
                                  \A i \in Range(disk.items) : i.media = {}
=============================================================================
