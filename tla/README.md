# TLA+ models of mastomini

mastomini is a Fediverse server for one household, small enough for an ESP32
board. A second board runs bots and timers, and a third, minicloud, keeps files
and runs small functions. This directory holds models of the parts where
several actors, failures and restarts meet, the TLC runs that check them on
small instances, and proofs for every value of the constants.

To check a run: `tlc -config <cfg> <module>`. To check the proofs: `tlapm` on
each of the eight modules whose name ends in `Proofs`. Source paths below are
relative to `src/`.

## 1. The system

### Components, their state and their operations

| Component | Durable state | In memory only | Operations that change it | What is hard |
|---|---|---|---|---|
| **Household service** (`mastomini_rs/src/domain`) | one key/value store: accounts, statuses, revisions, reactions, polls, follows, jobs, apps, tokens, keys, settings | `State`, a decoded copy with masks by slot and counters; the write latch; rate limits; sessions | one call per request, under one mutex; each call is a sequence of single-key writes | power loss or a storage error between any two writes; repairs at boot; slots that are used again |
| **Stores** (`mastomini_rs/src/store`) | `FileStore`: an append-only log. NVS: the flash driver | `MemStore`, a map with a capacity count | `put`, `erase`, `open` (replay and compaction) | a machine that stops between a write and its sync; torn records; a rename that comes undone |
| **Setup, restore, boot** (`accounts.rs provision`, `transfer.rs import_archive`, `domain/mod.rs build`) | the schema record makes a store a household | -- | provision, restore, rollback at boot | half of a household on flash |
| **Members and statuses** (`statuses.rs`, `edits.rs`, `polls.rs`, `moderation.rs`) | account, status, revision, mark, poll and vote records | mention, favourite, pin and vote masks by slot; reply and boost counts | post, edit, delete, react, vote, create and delete a member | making room evicts what the request names; interrupted edits and purges; a new member in an old slot |
| **Scheduled posts** (`domain/scheduled.rs`, `scheduler_bridge.rs`) | jobs with revision, reserved id and receipt | the acknowledged revisions; the job handed over last | schedule, reschedule, cancel, publish (callback), hand over every five seconds | three writes per publication; lost and late calls; two boards |
| **Timer queue** (`mastomini_bots/src/scheduler.rs`) | one record with every timer | `retry_at` | receive, tick, answer, restart | answers that arrive after the timer changed; a full queue |
| **Passwords, codes, tokens** (`accounts.rs`, `codes.rs`, `oauth.rs`, `local_tokens.rs`) | account, key, tokens with their descriptions and seals, apps, codes | authorization codes, order of use | sign in, change password, issue, redeem and revoke | two records per password change; sign-out by an epoch before the tokens are erased; caps |
| **Relations** (`moderation.rs`, `follow_requests.rs`, `lists.rs`, `collections.rs`) | follows, requests, blocks, mutes, lists, collections, reports | -- | follow, authorize, block, feature, report | a commit point followed by erasures; the same slot for another member |
| **Notifications** | a ring of records | -- | delivered after the request that causes them | a failed delivery latches a store whose request succeeded |
| **Keys and direct messages** | sealed keys, envelopes | unlocked keys by session | seal, read, reset | cryptography; the envelope of a status lives with it |
| **Filters, tags, notes, announcements** (`filters.rs`, `social.rs`) | records by slot or account id | -- | single-record updates | two APIs over one record; clean-up with their owner |
| **Timelines and conversations** (`query.rs`, `api/timelines.rs`, `ids.rs`) | the rows themselves | the id generator, markers, put-away conversations | read, page, group | cursors over rows that change; who may see what; a clock that steps back |
| **Accounts on other servers** (`remote.rs`, `remote_search.rs`, bots `feeds.rs`) | a ring of fetched posts, picture files, the search server and its token | sign-ins under way, cached answers | follow, fetch, prune, search, sign in | quota, files without records; a token at the wrong server |
| **Bots** (`mastomini_bots/src/service.rs`, `runner.rs`) | slots with schedule and last run, the notice ledger | runs in progress | due, run without the lock, finish, settle, configure | a run that outlives a change of its schedule; a run repeated after a restart |
| **Enrollment** (`mastomini_bots/src/enrollment.rs`) | a resumable draft | -- | create accounts and keys on two servers | an answer lost after the account exists |
| **minicloud store** (`minicloud_rs/src/store.rs`) | two state slots, blobs | -- | save to slot `revision % 2`, load the newest valid, upload, collect | power loss inside a slot; a missing card |
| **Single bots** (`mastomini_bots/src/bots`) | a small memory in the bot's record; the rover's save is a post | -- | one run per slot | a memory lost with power while its posts are out |
| **SRE bot** (`sre*.rs`, `notify.rs`) | findings, ledger of notices, one proposed action | -- | digest, propose, approve, carry out | failed runs that kept or lost their memory; a restart that may have happened |
| **Admin site of the bots** (`api.rs`, `auth.rs`, `profiles.rs`) | password, settings, published profiles | sessions, lock | sign in, configure, publish a profile | a profile on its way while the settings change |
| **minicloud jobs** (`minicloud_rs/src/lib.rs`) | up to 12 jobs, 32 receipts | running job | publish, run, retry, receipt, notice | repeated events after the ring has turned |
| **MQTT hub** (`minicloud_rs/src/broker.rs`) | -- | 4 clients, 8 retained topics, 4096-byte outputs | connect, subscribe, publish | a client that does not read |
| **HTTP, TLS, pages, firmware, web interfaces** | -- | -- | parse, authorise, render | transport; they change no state of their own |

### How they interact

* **Every request** takes the service mutex, makes one domain call and releases
  it. Inside a call nothing else runs; what can come between two of its writes
  is power loss or a failed write. An I/O error *latches* the service: every
  later write is refused (503) until a restart. A write that does not fit is
  refused without a latch.
* **mastomini -> bots**: a thread takes the next unacknowledged job and the
  pairing under the mutex, releases it, sends the handoff, and applies the
  reply under the mutex again. Between the two the member may reschedule or
  cancel and the admin may pair another board.
* **bots -> mastomini**: a tick collects the due timers under the bots lock,
  releases it, calls back for each, and acts on each answer under the lock. 200,
  404 and 422 end a timer; anything else is retried after 30 s.
* **Either board** can restart at any moment, either message can be lost before
  or after it is served, and a request whose sender has given up may be served
  later still.
* **Bots post** to mastomini with idempotency keys; **enrollment** creates
  accounts on mastomini and NanaCoin; **minicloud** is reached over HTTP and MQTT.

### What makes each part correct

* *Scheduled posts*: a draft is posted at most once; what is cancelled stays
  cancelled; every draft settles; an acknowledged timer is really held.
* *Stores*: what was acknowledged survives, the write in doubt is all or
  nothing, and a store always opens.
* *Setup*: a board comes back with a whole household or empty, and it boots.
* *Members and statuses*: memory is the store; boot repairs what was cut off
  and nothing else; nothing of a deleted member reaches the next one in the
  slot; an edit never loses the version it replaces; an audience is fixed.
* *Tokens*: no token or code outlives the password or the member it was for, and
  a member's password always opens the member's key.
* *Relations*: after a block neither side follows the other, restart or not.
* *Reading*: a client that pages misses no row that stays, and no timeline shows
  what is kept from its reader; a feed has its posts once and in order; a token
  stays with the server that gave it.
* *Bots*: one post per scheduled run; the admin's last word stands; money limits
  hold over lost answers; a person is told once; a restart happens once at most.
* *minicloud*: the newest complete state is loaded; nothing accepted is lost; a
  subscriber never reads past a gap.

`PROJECT.json` lists every component with its status, and under `hazards` the
line where each difficulty bites and the properties about it.

## 2. Modules

| Module | Models | Checked by |
|---|---|---|
| `ScheduledJob` | what a draft may become: `none`, `pending`, `failed`, `cancelled`, `published` | abstract |
| `ScheduledPosts` | `scheduled.rs`, `scheduler_bridge.rs`, bots `scheduler.rs`; implements `ScheduledJob` | `MCScheduledPosts` |
| `ScheduledPostsProofs` | proofs about `ScheduledPosts` | `tlapm` |
| `DurableStore` | the `Store` trait: a map with atomic, durable operations | abstract |
| `FileStore` | `store/file.rs`, `store/mem.rs`; implements `DurableStore` | `MCStores` |
| `Provisioning` | setup, restore and the checks of boot | `MCStores`, `ProvisioningProofs` |
| `AtomicState` | a store of one state with an atomic commit | abstract |
| `CloudStore` | minicloud `store.rs`, `http.rs`, `registry.rs`; implements `AtomicState` | `MCStores`, `CloudStoreProofs` |
| `Writes` | how a request of the household writes: a helper the next six extend | -- |
| `Household` | members and what they post (its own form of `Writes`) | `MCHousehold`, `MCStores`, `HouseholdProofs` |
| `Access` | passwords, codes, tokens, keys | `MCStores` |
| `Relations` | follows, requests, blocks, mutes, lists, collections, reports, notifications | `MCStores` |
| `Social` | tags, notes, suggestions, announcements | `MCReading` |
| `Filters` | filters through both APIs | `MCReading` |
| `Timelines` | every timeline, threads, conversations, groups, pages, ids | `MCReading` |
| `RemoteFeeds` | followed accounts of other servers, and the bot that fetches them | `MCReading` |
| `RemoteSearch` | searches on another server and the sign-in there | `MCReading`, `RemoteSearchProofs` |
| `MqttHub` | minicloud `broker.rs` | `MCReading` |
| `KeptConnections` | the HTTP client of the bots board | `MCBots` |
| `Enrollment` | accounts and keys on two servers | `MCBots`, `EnrollmentProofs` |
| `Trader` | the NanaCoin trader with its seven strategies | `MCBots` |
| `SreDigest` | findings, issues, notices, digest | `MCBots` |
| `Shoebox` | a game of one turn a day | `MCBots` |
| `LocalTime` | time zones and slots | `MCBots` |
| `BotRuns` | schedule and runs of a bot | `MCDeliveries`, `BotRunsProofs` |
| `CloudQueue` | minicloud jobs, receipts, notices | `MCDeliveries` |
| `SreActions` | the restart that is proposed, approved, carried out | `MCWorkers`, `SreActionsProofs` |
| `MarsRover`, `NanaNews`, `LlmReplies`, `LostThings` | bots that obey, tell, answer, judge | `MCWorkers` |
| `BotSite` | admin site and published profiles | `MCWorkers` |

**Suites.** `MCStores`, `MCReading`, `MCBots`, `MCDeliveries` and `MCWorkers` each
run several components that share no state. `on` names the component a
behaviour is of and never changes; its variables move by the component's own
`Next`, and those of the others stay as they are (`OthersStay`), `Unused` or at a
fixed value. What a suite checks is therefore what each component alone would be
checked for, in one run. One component of each suite has proofs (of
`MCStores`, `Provisioning` too, as an instance): the suite
EXTENDS it, so that the property in its cfg is the very definition the theorem
states, and TLC evaluates its assumptions; the others are instances, their
property names the part it is about (`on = "log" => ...`), and their assumptions
are restated there as `ASSUME`. `Parts` in a cfg chooses the components, so that
one of them can be run alone. Where two components do share state, they are one
module: `ScheduledPosts` is both boards and the network, `RemoteFeeds` the
household and the bot that fetches for it, `BotRuns` the scheduler thread, the
store and the household's keys, `Enrollment` a worker and two servers.

`map` in `PROJECT.json` names the lines each definition models. A helper whose
lines lie inside those of the definition that uses it is not listed again.

### ScheduledPosts

`flash` is what the mastomini store holds and `ram` the service's copy: the jobs
(due time, security epoch, revision, reserved id `target`, `done`, `cancelled`,
`failure`), the statuses published from them, each author's standing, and the
pairing. `timers`, `todo`, `callback` and `backoff` are a bots board: the durable
timers, the due ones a tick has still to report, the call in progress and
`retry_at`. `call` is the handoff in progress and `late` the abandoned requests.

Every handler of mastomini is one action, because it holds the mutex, but its
writes are listed as the images they leave on flash (`Write(images, ok, answer)`):
the handler either makes them all, or a storage error latches the service or
power goes after any prefix. `PublishScheduled` is the callback: its guards in the code's order,
reservation, status, receipt. `LoadTo` is what boot repairs. On the bots board
the tick, the sending of each call and the handling of its answer are separate
actions, since the lock is released between them. `ServeHandoff`/`LoseHandoff`
and `ServeCallback`/`LoseCallback`/`UnreachableCallback` are the network.

Abstractions. Validation and rate limits appear as the refusals they cause. The
bots boards are given one API key; a 401 or 403 is a failed call. A repeated idempotency key returns the earlier job and changes
nothing. An eviction by `make_room` is a `RemoveStatus` before the publication.
A failed save on the bots board leaves its timers as they were. A reserved id is
named by the revision that reserved it, since each revision reserves afresh.
`commits` is a history variable: the statuses ever written for a job, counted to 2.

### FileStore

`file` is the log as a sequence of whole records and possibly a torn one,
`synced` the length known durable, `former` the logs a rename replaced while the
directory is not yet synced, `tmp` the `.compact` file. `Set`/`Erase` check the
capacity and begin a record; `AppendWrite` and `AppendSync` are `write_all` and
`sync_data`; `AppendFails` is an error in either, with any part of the record in
the file; `Open`, `CreateTmp`, `WriteTmp`, `SyncTmp`, `Rename` and `SyncDir` are
the steps of `open` and `compact_at`. `Crash` stops the machine: the log keeps its
synced prefix and any prefix of the rest, or is one of `former`. `Stop` ends the
process only. `Corrupt` says what replay reports as corruption, and what it
drops as a torn tail. The refinement maps `DurableStore`'s map to `promised`,
with the write in doubt decided by the next successful open.

Bytes, checksums and lengths are abstracted to "whole" and "torn"; the file
system is assumed to keep an ordered prefix of unsynced bytes. The lock file and
the directory sync that Windows does not have are not modelled.

### Provisioning

A record is named by what `build` tells apart: the schema record, server
settings, the owner, another member, an app, a status, a key. `op` is the
operation under way with the writes it has still to make, so that `Step`,
`StepFails` and `PowerCut` act at each of them: `Provision`, `RegisterApp` before
setup, `MemberWrite` after it, `Import` (clear, write, reload, and the undo if
anything fails), and `Boot` with the checks of `build` and its rollback.
`promised` and `archive` are history.

The flash of a board that is being set up is not full. Encryption of an export,
and build's repairs of a provisioned household, are not in this module; the
second are in `Household` and the modules that extend `Writes`.

### Household

`disk` holds the account, status, revision, mark, poll, vote and envelope records;
`ram` holds the same records with the masks and counts `build` computes from
them. A request computes its writes from `ram` at its start (`Request`) and then
makes them one at a time: `Step` stores one and applies it to memory,
`StepFails` latches, `StepRefused` is a full flash, `PowerCut` can come between any
two. `Boot` lists the repairs (`Repairs`) and makes them as writes too, so a
second power cut may interrupt the first one's repair.

Each record carries as a history field the account that made it, beside the
slot the code stores; that is what `NothingInherited` compares.

Abstractions. Bookmarks and conversation mutes behave as favourites do. Reading
a poll's totals (`hide_totals`) and `keep` change nothing. Evictions by watermark
pick any evictable status; the oldest boost is any boost; the oldest revision is
that of any status. Visibility is open or direct. A sealed message cannot be
read by a new member in the slot, so what `AudienceFixed` is about is who counts
as addressed. Tokens and keys are in `Access`, follows, blocks, lists and
notifications in `Relations`. Sessions and rate limits only refuse. `MCHousehold`
runs it with slots used twice, every mark, polls, direct messages and every
repair, on a board with room for one status; its part `posts` of `MCStores` with
two statuses that mention, reply and are pinned.

### Writes, Access, Relations, Social, Filters, RemoteFeeds, RemoteSearch

A request of the household runs alone under the mutex and is a *program*: `todo`
holds the disks its single writes lead through, `doing` the request. `Step` makes
the next write, `Full` has it refused (the handler then goes on as it does with
`StoreError::Full`), `Breaks` latches the service, `PowerCut` stops it. What is
in RAM is what is stored, apart from what a module keeps besides (`pending`
codes, the `recent` order of tokens, cached answers). `Access`, `Relations` and
`Filters` call the same four `Write`, `Refused`, `Fails` and `Stops`. Each module has its own
`Boot`, with the repairs build makes of its records (`Booted`).

*Access* is one slot: the account with its epoch and sealed key, the separate key
record, tokens with their descriptions and seals, apps, codes, authorization
codes. `Commits` is the account write of a password change, `KeyWrite` the
canonical key after it, `SignedOut` the epoch. `cut` and `spent` are history.
Verifiers, PKCE, scopes and the texts of profiles are left out.

*Relations* has three slots. Records are stored by slot, and each carries as
history the account of that slot when it was written (`Person`), so a record
that has come to mean somebody else is seen. `Ended` is what a block ends,
`Booted` what boot finishes. Some of what it says is weaker than one might wish,
because the code is: boot does not finish `leave_lists` after an unfollow that
was cut short (`torn`); it checks only reporter and target of a report; and a
notification that cannot be stored latches a service whose request succeeded
(`domain/mod.rs:1510`).

*Social* has three topics, chosen at the start: tags, notes and suggestions,
announcements. *Filters* is one member's filters: v2 changes a filter, v1 one
keyword of it; `wanted` is what was given and not asked to go. A v1 `PUT`
renames and moves the whole filter of its keyword, and `DELETE` keeps the filter
as long as posts or other keywords are in it.

*RemoteFeeds* is both sides of the nightly fetch: on the household follows, items,
pictures on the card and the quota; `bots` is the run that fetches each feed,
uploads pictures and hands in what is new, with lost answers. The validators are
saved before the items (`remote.rs:1282`), so `FeedHeld` asks for all posts only
where nothing was cut short. *RemoteSearch* keeps for each sign-in the server it
was begun at (`home`) and every token that left the board (`sent`); the cache of
answers is what lets a search go without a request.

### Timelines

`rows` are the records by id, `rel` what lies between the viewer and each other
member, `reader` a client that reads page after page: `Open` asks for a first
page, `Older` and `Newer` follow the Link header, while `Write`, `Delete`,
`Relate`, `Dismiss` and `MarkConversation` change what there is, and `Reboot`
forgets RAM. The eighteen scenes of `AllScenes` say which timeline is read, what
may be written and who may change; `Timeline` is the set of rows each
answers, `CanSee` and `HiddenEntry` the rules of who sees what, and `Paginate` the page. v1's unread count and
`last_status_at` ignore visibility rules of their own (`query.rs:598`) and are
only modelled as what the code does.

### KeptConnections, Enrollment, Trader, SreDigest, Shoebox, LocalTime

*KeptConnections*: `clients` are the connections kept, least recently used first,
`closed` those the server has closed meanwhile, `resolved` the addresses
remembered. `req` is the request under way with how often it reached a server.
Its header comment and the code agree: only a GET over a reused connection is
sent again (`MayRepeat`). `Move` gives a board another address.

*Enrollment*: `pc` walks the worker through preflight, account, proof, key and
saving on both servers; each request may be refused, done with its answer lost,
or done; `disk` is the journal a restart finds. `SomeoneElse` and `Clear` are
other users of the servers.

*Trader*: `nana` is NanaCoin's side, which does each key once; `run` holds the
market as read and what is still to do. `left` is history: what left the bot in a
day, and what of it its memory does not know because a save was lost.
`MoneyRules` therefore allows the day's cap plus that.

*SreDigest*: one run is `Begin` (read and judge), `File`, `Hold` or `Notify`,
`Post`, `Reply`, `Admin`, `Finish`; any may fail, and a failed run keeps its state
and is tried again for the slot. `told`, `named`, `admin` are history. The minute
at which a board says it booted may jitter by one (`Jitter`). The code allows for
that once its memory has the boot (`SAME_BOOT_MIN`), but the memory moves only
after the posts, and the ledger names a reset by the minute as read: a run tried
again may read another minute and notify of the same reset again. `told` is
therefore kept for each reset that happened (`About`), and `ToldOnce` lets a
person hear of one again only when it is worse, due, was missing from a run
between, forgotten by a full ledger or a power cut, or read as another minute
since. The record is taken to fit `RECORD_MAX`.

*Shoebox*: a run looks at the poll under the last turn and posts the next. *LocalTime*:
the code's arithmetic from one count of half hours, beside a clock on a wall that
only ticks and is put forward and back by hand.

### BotRuns, SreActions, CloudQueue, MarsRover, NanaNews, LlmReplies, LostThings, BotSite

*BotRuns*: `Due` takes a job under the lock, `Execute` posts without it, `Finish`
reports under it again; `Configure`, `Request` and restarts come in between.
`keys` are the household's idempotency keys with their expiry; grace and the waits
between retries are constants.

*SreActions*: `item` is the proposal through its stages; the mentions are read and
the boards called without the lock, so `Approve`, `Cancel` and `Configure` come in
between. `sent`, `checked`, `approved`, `cancelled` are history.

*CloudQueue* commits whole states, atomically, which is what `CloudStore` shows
of the layer below; a commit that reports an error leaves RAM as it was and may
be found at the next start (`doubt`). A job at the head whose end can never be
committed is tried again on every turn (`lib.rs:309`); faults are bounded, so in
the model they stop.

*NanaNews*, *LlmReplies* and *LostThings* (and *Shoebox*) share a shape: `mem` is
the memory in the record, `disk` the saved one, `run` the run under way; a run
that ends saves its memory, a failed one too, a power cut loses it. The household
posts once for a key it remembers. A save that would not fit the record forgets
the longest values of the memory first (`service.rs:297`). *LlmReplies* models
that (`Saved`, with the lengths as constants), because its eight notes of up to
1000 characters never fit: a note goes that the order still names, or the order
goes and the notes and their times (`_at`) stay, and no one removes those times
again. Once they fill the record the cursor goes as well (`Crowded`): the bot
begins to watch anew at the newest mention, passing over what it was still to
answer, and does so in every later run while its settings leave no more room. `Left` starts a
bot with two such times. A note is as long as the order there, so that either may
go first. The other bots' memory is taken to fit. The news fix how far a slot reaches at their
first attempt (`upto`), the lost things keep who claimed what. *MarsRover* keeps
nothing on its board: the newest save in its thread is its memory, and a retried
command reuses its keys (`mars_rover.rs:264-292`).

*BotSite*: `sessions` are in RAM, `Take` chooses the profile to publish, `Publish`
is what the household does, `Recorded` the check of the signature afterwards.

### CloudStore, MqttHub

*CloudStore*: `slot` are the two state files, each a whole state or torn, `files`
the contents on the board and on the card, `todo` the writes of the request under
way. `Latest` is the generation a load takes, `Collect` what goes before an
upload. It implements `AtomicState` with `committed`, `doubt` and "is it up".

*MqttHub*: the thread goes round: `Accept`, then each client in `turn` is read
(`Packet`, `HungUp`) and written (`Write`), then `EndRound` closes those given up.
`HttpPublish` comes between any two of its steps. `owed` is history: all that
was queued for a client, fitting or not, of which `received` must be a prefix.

## 3. Runs

| Run | Module, cfg | Distinct states | Checks |
|---|---|---|---|
| `scheduled_two_boards` | `MCScheduledPosts`, `ScheduledTwoBoards` | 2.25 million, up to symmetry | `RevisionFixesTime` `AckedIsHeld` `ClosedForGood` |
| `scheduled_live` | `MCScheduledPosts`, `ScheduledLive` | 433 thousand | `QueuesBoot` `AtMostOnce` `KeepsPromise` `EventuallySettled` `TimersDrain` |
| `household` | `MCHousehold` | 506 thousand | `RecordsHold` `NothingInherited` `EditKeepsOld` |
| `stores` | `MCStores` | 1.57 million | `PostsHold` `KeyOpens` `SignedOutStaysOut` `BlocksEnd` `KeepsStore` `AlwaysBoots` `StateHolds` |
| `reading` | `MCReading` | 2.39 million | `SocialHolds` `FiltersHold` `NoneMissed` `FeedHeld` `TokenStaysHome` `NoGap` |
| `bots` | `MCBots` | 827 thousand | `NeverTwice` `SetupHolds` `MoneyRules` `DigestHolds` `TurnsHold` `SlotsAgree` |
| `deliveries` | `MCDeliveries` | 214 thousand | `NothingLost` `SlotsOnce` `WorkEnds` |
| `workers` | `MCWorkers` | 503 thousand | `OnceEver` `SaveHolds` `NewsToldOnce` `AnsweredInTurn` `OneClaimant` `PublishedWasGiven` `WorkEnds` |
| `scheduled_full_twice` | `MCScheduledPosts`, `ScheduledFull` | violated | `AtMostOnce` |
| `early_app` | `MCStores`, `ProvisioningEarlyApp` | violated | `NeverCorrupt` |
| `household_reused` | `MCHousehold`, `HouseholdReused` | violated | `AudienceFixed` |
| `trader_retry` | `MCBots`, `TraderRetry` | violated | `RetryMovesOnce` |

What the passing runs show:

* **scheduled_two_boards.** One draft, submitted, rescheduled twice, cancelled, deleted
  after publication or purged with its author, while the pairing moves between two
  bots boards that are alike (`BoardSymmetry`), with a failure at any step and one
  late request. Two boards can hold the same timer; the one mastomini counts on
  holds it, no revision is ever known with two due times, and no callback of an
  earlier revision or a former board opens what is closed.
* **scheduled_live.** Two drafts compete for a queue of one on each side, with a
  password change and two failures: a callback that repeats after power went between the status and its
  receipt does not post again, and in the end every draft settles.
* **household.** Three accounts over two slots, their posts, edits, polls, votes,
  favourites, boosts and pins on a board with room for one status, with two
  failures, also inside the repair at boot, and refusals of a full flash. Memory stays the
  store, boot repairs what was cut off and nothing else, an edit keeps the version it
  replaces, and whoever takes a slot finds nothing in it.
* **stores.** Two statuses that mention, reply, are edited and evicted, with one
  failure: reply counts and audiences are right; one slot's passwords,
  codes, sessions and keys with two failures; three members who follow, block,
  feature, report and leave, with one failure. A
  password opens the key, what was signed out stays out, a block ends everything,
  and who was accepted follows or still waits. Under them, any two crashes or I/O
  errors at any step of append, open and compaction; any export restored, with
  two power cuts in setup; two failures of the cloud with a card that comes and goes.
* **reading.** Eighteen scenes of timelines changing while they are paged
  through; both filter APIs on one record; two feeds with pictures and a quota,
  cut anywhere; two search servers and sign-ins that overlap; two clients of the
  hub with small buffers.
* **bots.** A trader of each strategy with a lost answer; setup of an account
  on two servers cut five times; findings, issues and digests of a board over two
  runs; seven time zones over both changes of the hour, leap days and new year.
* **deliveries.** A bot with three slots or two, turned off and on and moved while
  its run is out; four events about three topics, delivered again after their
  receipt went. No slot is posted twice while the household knows its key, none
  is taken again, nothing the cloud accepted is lost, and both get to their end.
* **workers.** What works through a queue gets to the end of it, and does nothing
  twice, over lost answers, failed saves, restarts and forgetful households.

A suite property is the conjunction of what its component promises, each named
in the component's module with its own comment.

### The violated runs

Four runs check a sentence of the documentation or of a comment that the code
does not keep; `findings` quotes each.

* `scheduled_full_twice`: the status is committed, the receipt is refused
  because the flash is full. That error neither latches nor is repaired before
  a restart. If the status is then deleted, the retried callback posts it again.
* `early_app`: an app registered before setup makes the next boot refuse the store.
* `household_reused`: the mask of mentioned slots in memory is not cleared when
  a member is deleted, so until a restart the next member in that slot counts as
  mentioned.
* `trader_retry`: a steady buyer whose answer was lost decides anew, takes
  another quote under another key and buys twice in one slot.

### Other sentences that do not hold

These are weakened in the runs to what does hold, and not run as they stand.
A sentence that names a property of a component is seen to fail by a line in its
suite like those that are there (`P == on = "news" => News!EveryPostIsOut`, with
`Parts = {"news"}` in the cfg); the others by the constant named.

| Sentence | Definition | Why |
|---|---|---|
| "Any failure leaves the board empty again" (`transfer.rs:200`) | `KeepsStore` of `MCStores`, `Importing = TRUE`, `Parts = {"log"}` | the writes of a restore do not latch; a record may follow a torn one |
| "Network failures, rate limits and storage outages retry" (`docs/usage/scheduled-posts.md`) | `EventuallySettled`, `FullFaults = TRUE` | a full flash answers 422, which the bots board takes as final |
| "a clock that steps backwards still yields increasing ids" (`ids.rs:3`) | `Timelines!IdsIncrease`, scenes `ClockBehind` | ids are observed at boot from what is stored; the newest may be gone |
| "the cursor moves only once every post is out" (`nana_news.rs`) | `NanaNews!EveryPostIsOut` | the memory of a run is lost with power: the retry composes from a longer feed under a key that is already posted, so the second event is never told though the cursor passes it |
| "The muted member disappears from the muter's timelines" (`spec/04`) | `Timelines!MutedDisappears`, scenes `ListScenes` | lists show muted members |
| "a hidden conversation comes back when a new message arrives" (`spec/04`) | `Timelines!PutAwayStays`, scenes `TalkScenes` | deleting its first message gives a conversation another root, and it shows again |
| "Only slots from now on" (`service.rs:432`) | `BotRuns!NeverFromBefore` | a run under way writes its older slot back |
| "Notices found in the quiet hours wait for the first run after them" (`notify.rs:70`) | `SreDigest!NoticesWait` | a reset found in the quiet hours is counted in the memory at once, and is no finding any more at the first run after them |
| "a retried digest never notifies twice" (`sre.rs:382`) | `RetryTellsOnce` of `MCBots` | an event's fingerprint holds the minute its boot was read as (`sre.rs:300`), and a run tried again may read another before the memory has the boot |
| "Try this mention again next run; the cursor stays before it" (`llm.rs:330`) | `LlmReplies!CursorStays` | the save of a record that is over `RECORD_MAX` forgets the cursor when the times left of old notes are all that is left beside it (`service.rs:305`); the next run starts from the newest mention |
| a published profile shows the board's address (`mastomini_bots/README.md`) | `BotSite!ShowsTheAddress` | an address put back while the other's profile is on its way |
| "A strange item appears daily" (`lost_things.rs:13`) | `ItemsAppearDaily` of `MCWorkers` | a claim on an item whose post is gone fails every later run |
| the first commit of all (`store.rs:282`) | `KeepsState` of `MCStores`, `Fresh = TRUE`, `Parts = {"cloud"}` | a first save cut short leaves no slot that loads, and the store is refused |

### Bounds

Every bound is a CONSTANT marked `bound:` in its module, and the rest of the
constants are the code's own limits made small.

* *Failures*: two, where a failure and a failure during its repair are the
  interesting case; one where the state is large already (posts, relations,
  workers); five in enrollment, where each pass is short and each may be cut.
* *Jobs and revisions*: one draft with two changes of revision gives every race of
  a callback with a change of its own job; a second draft is needed only for the
  queues and the round of handoffs, which `scheduled_live` has. What two boards, a
  second failure and more revisions could do together is left to the proofs.
* *Late requests* (`MaxLate`): one. Late requests do not see each other, and a
  repeated callback by a timer adds a second stale call.
* *Clock*: `MaxTime` covers scheduling, falling due and, with `Skew`, a bots
  clock that runs ahead; `MaxNow` of a worker covers its expiry or its retries
  and one slot more.
* *Store*: one value of one entry and one of two, capacity three, so that a
  record can be refused and an overwrite can fit where an insertion cannot.
* *Slots, accounts, ids*: a slot that is used twice needs one account more than
  there are slots; an evicted parent or target needs two statuses; three
  members make a follower, a followed and one whose request waits.
* *Caps* (sessions, keys, codes, notices, receipts, pictures, packets): one or
  two, so that the cap is met and what it displaces is told from what stays.
* *Scenes*: where a product of choices would be too large, `Init` picks one of a
  list of scenes, each made for one rule of the code; `AllScenes`, `AllTraders`,
  `Wishes`, `ClockStarts` name them.

The five suites and the household set `CHECK_DEADLOCK FALSE`: their ids, days, requests or revisions
run out, and the component then rests. The scheduled posts are checked for deadlock.

### Fairness

Liveness of the scheduled posts is checked under `FairSpec` only, with weak
fairness of single steps:

* `Boot`, and the restart of a latched board: the code reports a latch (red light,
  "restart required") and leaves the restart to the household.
* `StartHandoff`, `ServeHandoff`, `EndHandoff`: the bridge thread loops every
  five seconds, and its HTTP client has a timeout.
* `Tick`, `SendCallback`, `ServeCallback`, `UnreachableCallback`,
  `EndCallback`, `RetryDue`: the bots main loop ticks every second, its client
  has a timeout, and `retry_at` passes.
* `ClockTick`: time passes.

`MCDeliveries` and `MCWorkers` have the fairness of their components: the worker thread of the cloud and
its start after a power cut, the scheduler thread of the bots with the end of each
run, the clock, a household that can be reached in the end. `Turn(n)` is the nth
such action of whichever component is at work; as `on` never changes, weak
fairness of `Turn(n)` is weak fairness of that action. Strong fairness (`Chance`)
is given to three: the next slot of the news and of the lost things, met again
and again between runs, and the profile taken when the board is idle.

`WorkEnds` excuses two things: a lost item whose post is gone, and mentions while a full
record leaves no room for the cursor (`Crowded`), where every run is a first run.

No fairness is assumed of members, of admins, of failures or of late requests.
Failures are bounded, so they stop: the liveness properties say what happens once
they have. `EventuallySettled` therefore excludes a network that is down for ever.

## 4. Proofs

Eight components are proved for every value of their constants: every number of
accounts, boards, servers, jobs, names, failures and every bound and capacity that
the named assumptions of the module allow. TLC evaluates these assumptions on a run.

| Module | Theorems | Assumes |
|---|---|---|
| `ScheduledPostsProofs` | `RevisionsFixed` (`RevisionFixesTime`), `AcknowledgedHeld` (`AckedIsHeld`), `QueuesStayBounded` (`QueuesBoot`, with `TypeCorrect`) | `BoundsAssumption`, `PartiesAssumption`; the second that no write is refused as full |
| | `PublishedAtMostOnce` (`AtMostOnce`), `ClosedStaysClosed` (`ClosedForGood`), `PromiseKept` (`KeepsPromise`: the boards implement `ScheduledJob`) | the same; the first and third that no write is refused as full |
| `CloudStoreProofs` | `CloudKept` (`StateHolds`), of which `Atomic` is the refinement of `AtomicState`, `NoFileLost`, `AlwaysOpens`, `OneRecordPerRevision`, `TypeCorrect` are parts | `CloudAssumption`, `~Fresh` |
| `BotRunsProofs` | `SlotsAreOnce` (`SlotsOnce`), with `PostedOnce`, `OnlyFromNow`, `NeverAgain`, `TypeCorrect` | `BotAssumption` |
| `EnrollmentProofs` | `SetupIsSafe` (`SetupHolds`), with `AlwaysResumable`, `KeysLive`, `OthersLeftAlone`, `TypeCorrect` | `EnrollmentAssumption` |
| `SreActionsProofs` | `ReviewedOnceEver` (`OnceEver`), with `RestartedOnce`, `RestartsReviewed`, `TypeCorrect` | `ActionAssumption` |
| `RemoteSearchProofs` | `TokenHome` (`TokenStaysHome`), `TypeCorrect` | `SearchAssumption` |
| `HouseholdProofs` | `SlotInheritsNothing` (`NothingInherited`), `RecordsAreTrue` (`RecordsHold`), of which `WellFormed` (`TypeOK`), `MemoryIsStore` (`Coherent`) and `HistoryIsOlder` (`HistoryPrecedes`) are parts, `EditsAreKept` (`EditKeepsOld`) | `HouseholdAssumption` |
| `ProvisioningProofs` | `StartsWhole` (`AlwaysBoots`, with `WholeHousehold`, `EmptyUntilProvisioned`, `TypeOK`) | `SetupAssumption`; no early app, no power cut in a restore, no undo that fails |

In each of the last seven modules `InvHolds` states the inductive invariant `Inv`,
a conjunction of named parts; one lemma per action shows that it is kept.

### ScheduledPosts

*Type correctness* is inductive as it stands, but needs one fact that looks like
more than a type: the service that is up has in memory what is on flash.

*At most once* is not inductive: nothing in it says why a callback cannot find
an open job whose status was already written. `OnceInv` adds it. `Receipt` says
that a job with a written status either carries its receipt, is closed, or still
has the status under its reserved id while the service is not up; so boot, which
looks for the status, puts the receipt back before any callback is served. The
other parts: a stored status was written exactly once; a receipt means a written
status; a job not yet issued has no record. `FullFaults` breaks `Receipt`, which is what `scheduled_full_twice` shows,
so `~FullFaults` is an assumption of the theorem and not a convenience.

The proof first classifies every step (`NextShape`): it leaves flash alone
(`Idle`), changes jobs without writing a status (`Quiet`), writes one
(`Posting`), or is a boot, a failed boot or a power cut. Each kind then has one
lemma per property. The refinement compares the outcome of a job before and
after each kind of step (`OutcomeStep`).

*What a message knows.* A stored job only moves on (`Follows`): it is erased, gets
a later revision, or ends in the one it has. `StoreMovesOn` shows this of every
step, at every image that a run of writes may leave; with `Behind`, flash is never
behind memory. `Known` then says that no handoff, timer or callback is ahead of the
job it names, and that under the same revision it has the same time; a new
message is made of the job or of another message (`MessageStep`). This holds with a
full flash too.

*What an acknowledgement is worth.* `AckedIsHeld` alone does not say why the timer
stays. `Answered`: an answer that drops a timer is for a revision that is over.
`Replied`: the board that accepted a handoff has the timer before the
acknowledgement is noted. `Acks`: what is noted was handed to the board paired now.
With `Known`, no late handoff can replace the timer of an open job by another. A
422 of a full flash breaks `Answered`, hence the assumption.

*Queues.* Only `schedule_post` adds a draft, after it has erased the retired
ones, and only `receive` adds a timer; both count first.

### CloudStore

A load takes the newest generation it can open, so it matters what the *other*
slot may hold. `Generations` says that: nothing, the generation before, or the one
after, which is the save in doubt or has the same content, passed over by a start
without its card. `Intact` says that both hold sane states whose files are in
place, `Numbered` that no number of a registry record is given twice. None of
this is kept by a request alone, as an upload collects files before it writes one
and a move commits twice; `Plan` lists what every request has still to do, step by
step, and what the state it is about to commit names. `~Fresh` excludes the very
first save, which may be cut short with no slot to fall back on: the properties
do not hold then, as section 3 says.

### BotRuns

`OncePerSlot` counts posts against the times the household forgot a slot's key;
`Remembered` ties both to the keys it still knows. That a settled slot is not
taken again rests on `AfterSettled`: whatever the record in memory *or the one on
flash* leaves to run is later than everything settled. It must hold of both,
as a failed save or a restart puts the other in force, and of a record that an
older run writes back. `FromNow` and `Running` say the same of the moment the bot
was turned on. `BotAssumption` asks that each schedule has a slot at the first
moment, which stands for the latest slot before the window modelled.

### Enrollment

`Journaled` ties what a pass holds in memory to the journal, up to the one answer
about to be saved; `Opens` says that every account a setup made opens with the
journal's password, `Wanted` that a key is made only where there is none and after
proof. Together they are why a pass cut anywhere can be taken up by the next.

### SreActions

The record says in its stage how far a restart has come, and a worker
acts on it without the lock. `Marked` says that the record is then the very one
the worker marked before it left; `Once` that a record whose restart was sent is
in no stage that leads to sending one, on flash either; `Reviewed` what each stage
says about the review; `Kept` that memory is the record on flash or what a start
makes of it.

### RemoteSearch

`Held` says that every sign-in on flash, in memory and in the writes a request has
still to make is honest: its token was given by the server it names. The property
itself speaks only of what was sent (`SentHome`); it is the programs of writes, of
which a cut leaves any prefix, that make the stronger one necessary.

### Provisioning

What makes a store fit to boot is one comparison: boot provisions what has no
owner, so the owner must never be there without the rest. `Inv` says of every
moment what the store holds and what is still to be written or erased: a setup
writes the owner before the schema, and a boot that finds no schema has left to erase
all that an interrupted setup stored; a restore has stored and to store what its
export holds, and its undo has left to erase all that is there. The order is `InOrder`, of which the proof uses
that it lists each record once. `Orderly` assumes what the model can also do
without: an app registered while setup runs (run `early_app` shows the owner kept
without a schema), power lost within a restore and an undo that fails (the hazard
at `backup.rs`). Under any of them the theorem is false.

### Household

A slot is used again, so what it holds must be gone before it is free; but a purge
is many writes, and is cut between any two of them. `Inv` says of the *store*, and
at every moment: what is in a slot was left there by the account in it (`Owned`),
deleted or not. Hence the tombstone: the account stays until last. `Planned` says it
of the writes a request, or boot, has still to make: what they add is owned, and
before one that frees a slot come writes of all that the slot holds (`Cleared`), with
nothing added to it after. Any first part of such a list leaves the rest of it a
plan (`WriteKeeps`), so it does not matter where power is lost. `Mirror` and `Toward`
say that a service that is up has in memory what it has stored, and that one that
boots is on its way there. Most requests free no slot (`Plain`); the purge and
boot's repairs are the two that do (`PlanEnds`).

That memory is the store when a request is done says nothing of what boot would
make of a request that was cut off. The second invariant, `Inv2`, does. `Sound` says
of a store that boot would leave it as it is: every record belongs to a status and to
a member who are there, every revision is older than its status. `Settles` says that
the writes still to make *end* in a sound store, though what lies between does not
look like one: `Ends` is the store as the last write of each key will leave it
(`LastAgrees`, `Covers`), so that nothing need be computed along the list. A list
that is cut off is replaced by boot's repairs, which end in what boot has loaded, and what it loads is
sound (`Repairs`, `Loaded`). A write that the full flash refuses leaves the store as it is: hence
`refused` in `Coherent`. `Commits` says that a status is written last and once in
a request, `Recorded` that by then its old version is stored or is still to
be; together they are why an edit never loses a version, wherever it stops. `Dated`
says that no direct message has a revision; `Counts`, that the reply counts, kept up
to date one write at a time, are those of the records (a status is counted at its
parent only while the parent is there, as in the code); `Bounds`, that ids and
failures stay in their ranges.

### What is only model-checked

Liveness (`EventuallySettled`, `TimersDrain`, `WorkEnds`), because the prover has no
rule for fairness and `ENABLED`. What a fold or a recursive definition computes for
every input needs induction over data, which the prover's backends do not do:
`Access`, `Relations`, `Social` and `RemoteFeeds` list their
writes by folding over sets put in some order, `FileStore` replays its log with a fold,
`MqttHub` queues, `CloudQueue` dismisses and `Trader` counts with one, and `Timelines`
climbs threads with a recursive function. Of `Household`, that audiences stay fixed
while no slot is used again (`PostsHold`). `LocalTime` is arithmetic with quotients over
a table of zones. The others are of the same kind as those proved and have not been
done: section 5 names the next. No module declares a RECURSIVE operator.

## 5. Plan

| Step | Modules | State |
|---|---|---|
| 1 | `ScheduledPosts` and its proofs | done |
| 2 | `CloudStore`, `BotRuns`, `Enrollment`, `SreActions`, `RemoteSearch` | checked and proved |
| 3 | `Provisioning`, `FileStore` | checked; `Provisioning` proved |
| 4 | `KeptConnections`, `MqttHub` | checked; to prove next, as its state is small: `NeverTwice` |
| 5 | `Household` | checked and proved; next, that audiences are fixed while no slot is used again |
| | `Access`, `Relations`, `Social`, `Filters` | checked |
| 6 | `CloudQueue`, the single bots, `Timelines`, `RemoteFeeds`, `LocalTime` | checked |

## 6. Not modelled

* *HTTP API, pages, HTTP servers, TLS, the captive portal, the board firmware,
  web interfaces*: transport, parsing, authorisation and rendering around one
  domain call, which is the step of the models.
* *Power loss during a restore*, and a restore whose undo fails as well.
  `Provisioning` has both (`RestoreCuts`, `UndoFails`), and with either of them
  `WholeHousehold` does not hold: the schema record is written first, and
  boot has no rollback for a store that has one; it is listed as a hazard.
* *Cryptography*: sealed keys and envelopes, password hashes, signatures.
* *Heap trends and the seven-day history* of the SRE bot, profiles of remote
  accounts, device keys, several lists and collections of one member, the record
  of strikes: single-record state beside what the models have.
* *Stateless bots* (`good_morning`, `daily_prompt`, `fishtank`) and the texts,
  previews and pictures of all: pure functions of a run.
* *Trust between the boards* (`household_trust.rs`, `api/trust.rs`): decided by
  certificate, without state.
* *Drivers*: NVS is taken to make each put and erase atomic and durable, as its
  documentation says and as the code relies on.
* *Tests, load generators, build scripts*: read as statements of intent.
