------------------------------ MODULE MCStores ------------------------------
(***************************************************************************)
(* What is kept over a loss of power.  The records of a household: posts   *)
(* that mention, reply and are pinned (Household, whose members come and   *)
(* go in MCHousehold), sign-in and keys (Access), and what members decide  *)
(* about each other (Relations).  The stores under them: the log of the    *)
(* desktop store (FileStore), setup and restore of a household             *)
(* (Provisioning), and the two slots of the cloud's state (CloudStore,     *)
(* which this module extends, so that its properties are those its         *)
(* theorems state).  A behaviour is a behaviour of one part: "on" names    *)
(* it, its variables move by the part's own Next, and those of every other *)
(* part stay.  The parts share no state, so running them under one         *)
(* specification checks each as it would alone.                            *)
(***************************************************************************)
EXTENDS CloudStore, TLC

CONSTANTS Parts,                \* the parts that are run
          Importing,            \* FileStore: are the writes those of import_archive?
          EarlyApps,            \* Provisioning: a client before the owner has set up
          Exported,             \* Provisioning: the records an export may hold
          PowerCuts, Errors     \* Provisioning: bounds

NoCode == [op |-> "none", code |-> 0]
NoWish == [op |-> "none", by |-> 0]
Wishes ==
  {{"follow", "request", "unfollow", "authorize", "reject", "lock", "block", "unblock", "list"},
   {"mute", "block", "feature", "unfeature", "revoke", "delete", "create"},
   {"report", "assign", "resolve", "role", "delete", "create"},
   {"follow", "request", "lock", "list", "delete", "create"}}
EntriesFor == ("small" :> 1) @@ ("large" :> 2)

VARIABLES on,  \* the part at work
          pending, recent, wrong, cut, spent,
          kinds, torn,
          mem, file, synced, former, tmp, written,
          cuts, errors, archive,
          lastId, lastAccount, refused,
          writes,
          failures,
          disk,
          phase,
          ram,
          up, doing, next,
          op, promised

Posting == INSTANCE Household WITH
  Slots <- 2, MaxAccount <- 2, MaxId <- 2, MaxVersion <- 2, Revisions <- 1,
  Kinds <- {"pin"}, MaxStatuses <- 2, MaxHistory <- 1, MaxBoosts <- 1, MaxPins <- 1,
  MaxFaults <- 1, FullFaults <- FALSE, Features <- {"mention", "direct", "reply"},
  mode <- phase, todo <- writes, faults <- failures
Entry == INSTANCE Access WITH
  Nothing <- NoCode, Passwords <- {"p", "q"}, Apps <- {"a"}, MaxApps <- 1,
  MaxSessions <- 1, MaxKeys <- 1, MaxCodes <- 2, Failures <- 1, MaxId <- 5, MaxEpoch <- 1, MaxFaults <- 2,
  todo <- writes, faults <- failures
Between == INSTANCE Relations WITH
  Nothing <- NoWish, Slots <- {1, 2, 3}, Owner <- 1,
  Mutual <- {<<2, 3>>, <<3, 2>>}, Kinds <- Wishes, MaxNotes <- 2, MaxReports <- 1, MaxId <- 4, MaxFaults <- 1,
  todo <- writes, faults <- failures
Log == INSTANCE FileStore WITH
  Key <- {"k1", "k2"}, Value <- {"small", "large"}, Entries <- EntriesFor,
  Total <- 3, MaxLog <- 4, MaxFaults <- 2,
  mode <- phase, faults <- failures
Setup == INSTANCE Provisioning WITH
  Exports <- SUBSET Exported, RestoreCuts <- FALSE, UndoFails <- FALSE,
  mode <- phase

suiteVars == <<on, pending, recent, wrong, cut, spent, kinds, torn, mem, file, synced,
               former, tmp, written, cuts, errors, archive, slot, files, card, mode,
               state, seen, todo, faults, committed, doubt, named, lastId, lastAccount,
               refused, writes, failures, disk, phase, ram, up, doing, next, op, promised>>
Unused == "unused"
OthersOff ==
  /\ IF on = "access" THEN TRUE ELSE pending = Unused /\ recent = Unused /\
       wrong = Unused /\ cut = Unused /\ spent = Unused
  /\ IF on = "relations" THEN TRUE ELSE kinds = Unused /\ torn = Unused
  /\ IF on = "log" THEN TRUE ELSE mem = Unused /\ file = Unused /\ synced = Unused /\
       former = Unused /\ tmp = Unused /\ written = Unused
  /\ IF on = "setup" THEN TRUE ELSE cuts = Unused /\ errors = Unused /\ archive = Unused
  /\ IF on = "cloud" THEN TRUE ELSE slot = [i \in 0..1 |-> Absent] /\
       files = [t \in Tier |-> {}] /\ card = TRUE /\ mode = "down" /\ state = Empty /\
       seen = TRUE /\ todo = <<>> /\ faults = 0 /\ committed = Empty /\ doubt = None /\
       named = [r \in Revision |-> None]
  /\ IF on = "posts" THEN TRUE ELSE lastId = Unused /\
       lastAccount = Unused /\ refused = Unused
  /\ IF on \in {"posts", "access", "relations"} THEN TRUE ELSE writes = Unused
  /\ IF on \in {"posts", "access", "relations", "log"} THEN TRUE ELSE
       failures = Unused
  /\ IF on \in {"posts", "access", "relations", "setup"} THEN TRUE ELSE
       disk = Unused
  /\ IF on \in {"posts", "log", "setup"} THEN TRUE ELSE phase = Unused
  /\ IF on \in {"posts", "setup"} THEN TRUE ELSE ram = Unused
  /\ IF on \in {"access", "relations"} THEN TRUE ELSE up = Unused /\ doing = Unused /\
       next = Unused
  /\ IF on \in {"log", "setup"} THEN TRUE ELSE op = Unused /\ promised = Unused
OthersStay ==
  /\ IF on = "access" THEN TRUE ELSE UNCHANGED <<pending, recent, wrong, cut, spent>>
  /\ IF on = "relations" THEN TRUE ELSE UNCHANGED <<kinds, torn>>
  /\ IF on = "log" THEN TRUE ELSE UNCHANGED <<mem, file, synced, former, tmp, written>>
  /\ IF on = "setup" THEN TRUE ELSE UNCHANGED <<cuts, errors, archive>>
  /\ IF on = "cloud" THEN TRUE ELSE UNCHANGED <<slot, files, card, mode, state, seen,
       todo, faults, committed, doubt, named>>
  /\ IF on = "posts" THEN TRUE ELSE UNCHANGED <<lastId, lastAccount,
       refused>>
  /\ IF on \in {"posts", "access", "relations"} THEN TRUE ELSE UNCHANGED <<
       writes>>
  /\ IF on \in {"posts", "access", "relations", "log"} THEN TRUE ELSE UNCHANGED <<
       failures>>
  /\ IF on \in {"posts", "access", "relations", "setup"} THEN TRUE ELSE UNCHANGED <<
       disk>>
  /\ IF on \in {"posts", "log", "setup"} THEN TRUE ELSE UNCHANGED <<phase>>
  /\ IF on \in {"posts", "setup"} THEN TRUE ELSE UNCHANGED <<ram>>
  /\ IF on \in {"access", "relations"} THEN TRUE ELSE UNCHANGED <<up, doing, next>>
  /\ IF on \in {"log", "setup"} THEN TRUE ELSE UNCHANGED <<op, promised>>

SuiteInit ==
  /\ on \in Parts
  /\ \/ on = "posts" /\ Posting!Init
     \/ on = "access" /\ Entry!Init
     \/ on = "relations" /\ Between!Init
     \/ on = "log" /\ Log!Init
     \/ on = "setup" /\ Setup!Init
     \/ on = "cloud" /\ Init
  /\ OthersOff
SuiteNext ==
  \/ on = "posts" /\ Posting!Next /\ OthersStay /\ UNCHANGED on
  \/ on = "access" /\ Entry!Next /\ OthersStay /\ UNCHANGED on
  \/ on = "relations" /\ Between!Next /\ OthersStay /\ UNCHANGED on
  \/ on = "log" /\ Log!Next /\ OthersStay /\ UNCHANGED on
  \/ on = "setup" /\ Setup!Next /\ OthersStay /\ UNCHANGED on
  \/ on = "cloud" /\ Next /\ OthersStay /\ UNCHANGED on
SuiteSpec == SuiteInit /\ [][SuiteNext]_suiteVars

-----------------------------------------------------------------------------
ASSUME /\ Posting!HouseholdAssumption
       /\ Entry!AccessAssumption /\ Between!RelationsAssumption
       /\ Log!StoreAssumption /\ Setup!SetupAssumption /\ CloudAssumption

\* Posts that mention, reply and are pinned: the service's memory is its store
\* with the reply counts a boot would compute, boot finds nothing to repair, and
\* "a post's audience is fixed when it is written" (records.rs:4-6), edits and
\* evictions included, as long as no slot is used again.
PostsHold ==
  on = "posts" => /\ Posting!TypeOK /\ Posting!Coherent
                  /\ Posting!HistoryPrecedes /\ Posting!AudienceFixed

\* A member's password opens the member's sealed key after every password
\* change, power cut and failed write, and nothing but that changes the key
\* (accounts.rs, the key record written beside the account record).
KeyOpens ==
  /\ [](on = "access" => Entry!TypeOK /\ Entry!KeyOpens /\ Entry!Paired)
  /\ [][on = "access" => Entry!SecretKeptStep]_suiteVars

\* What a password change, a revocation or a deletion signs out never works
\* again, after any restart; a code is redeemed once; an API key goes only when
\* it is revoked or replaced, or with all the member has (oauth.rs, codes.rs).
SignedOutStaysOut ==
  /\ [](on = "access" => Entry!SignedOutStaysOut /\ Entry!CodeOnce)
  /\ [][on = "access" => Entry!KeysStayStep]_suiteVars

\* A block ends follows, requests, list entries and notifications of the two,
\* whatever is interrupted; edges, notes and lists name members who are there; and
\* whoever is accepted is a follower or still waits, whatever write of the
\* acceptance the power cut off (moderation.rs, follow_requests.rs, relations in
\* domain/mod.rs).
BlocksEnd ==
  /\ [](on = "relations" => /\ Between!TypeOK /\ Between!BlocksEnd /\ Between!EdgesKeepTheirPeople
                            /\ Between!NotesHold /\ Between!ListsFollow)
  /\ [][on = "relations" => Between!AcceptedFollowsStep]_suiteVars

\* The log implements the Store trait, and no crash or I/O error makes open take
\* it for corrupt: whatever power cuts meet a write, a compaction or an open
\* brings back every acknowledged set and erase (store/file.rs).
KeepsStore ==
  /\ [](on = "log" => Log!TypeOK /\ Log!NeverRefused)
  /\ (on = "log" => Log!Trait!Init)
  /\ [][on = "log" => [Log!Trait!Next]_<<promised, op>>]_suiteVars

\* No interrupted setup, restore or rollback leaves a store that build refuses
\* (setup.rs, transfer.rs, domain/mod.rs).
NeverCorrupt == on = "setup" => Setup!AlwaysBoots
\* Nor one that is half a household: it always boots, with every record that was
\* acknowledged or restored, and empty as long as nobody owns it.
AlwaysBoots ==
  on = "setup" => /\ Setup!TypeOK /\ Setup!AlwaysBoots
                  /\ Setup!WholeHousehold /\ Setup!EmptyUntilProvisioned
=============================================================================
