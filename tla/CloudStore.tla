----------------------------- MODULE CloudStore -----------------------------
(***************************************************************************)
(* minicloud's storage (minicloud_rs/src/store.rs) under the requests that *)
(* change it (http.rs, and Cloud::commit in lib.rs).  The whole state is   *)
(* one JSON document, written to slot revision % 2 each time; the bytes of *)
(* the files it names lie beside it, on the board or on a card.            *)
(*                                                                         *)
(* A request runs under the lock of the cloud and makes its writes one at  *)
(* a time, so it is the list of what it has still to do; power may be cut, *)
(* and a write may fail, at each of them.                                  *)
(***************************************************************************)
EXTENDS Naturals, Sequences, FiniteSets

CONSTANTS
  Name,        \* the buckets and keys that files are stored under
  Hash,        \* the contents they may have
  Title,       \* what a copyright record may say
  MaxObjects,  \* 48, the files the state may name
  Budget,      \* BLOB_BUDGET, as a number of files on the board
  MaxRevision, \* bound: commits
  MaxFaults,   \* bound: power cuts and I/O errors
  Fresh,       \* does the first commit of all belong to the behaviour?
  Torn, Absent, None

Tier     == {"onboard", "card"}
Revision == 1..MaxRevision

VARIABLES
  slot,      \* state-0.json and state-1.json: a state, Torn or Absent
  files,     \* the contents whose bytes each tier holds
  card,      \* is the card in its socket?
  mode,      \* "down", "up" or "refused"
  state,     \* Cloud.state
  seen,      \* was there a card when the store was opened (Store.card)?
  todo,      \* what the request has still to do
  faults,
  committed, \* history: the state last committed or loaded
  doubt,     \* history: what a commit under way, or cut short, writes
  named      \* history: the record that each revision was first given to

vars == <<slot, files, card, mode, state, seen, todo, faults, committed, doubt, named>>

(***************************************************************************)
(* Data.  other stands for the jobs, notices and banks of the state: all   *)
(* that matters here is that it changes.                                   *)
(***************************************************************************)
Blob   == [hash : Hash, tier : Tier]
Record == [hash : Hash, title : Title, revision : Revision]
State  == [revision : 0..MaxRevision, blobs : [Name -> Blob \cup {None}],
           copyrights : [Name -> Record \cup {None}], other : {0, 1}]

Empty == [revision |-> 0, blobs |-> [n \in Name |-> None],
          copyrights |-> [n \in Name |-> None], other |-> 0]

\* What the household sees of a state: not its number, nor where the bytes lie.
Content(s) ==
  [files |-> [n \in Name |-> IF s.blobs[n] = None THEN None ELSE s.blobs[n].hash],
   copyrights |-> s.copyrights, other |-> s.other]

Contents == [files : [Name -> Hash \cup {None}],
             copyrights : [Name -> Record \cup {None}], other : {0, 1}]

CloudAssumption ==
  /\ {MaxObjects, Budget, MaxRevision} \subseteq Nat \ {0}
  /\ MaxFaults \in Nat /\ Fresh \in BOOLEAN /\ IsFiniteSet(Name)
  /\ \A mark \in {Torn, Absent, None} : mark \notin State /\ mark \notin Contents
  /\ None \notin Blob

Fault == faults < MaxFaults /\ faults' = faults + 1

Stored(s) == {n \in Name : s.blobs[n] # None}
Registered(s) == {n \in Name : s.copyrights[n] # None}
Onboard(s) == {n \in Stored(s) : s.blobs[n].tier = "onboard"}

-----------------------------------------------------------------------------
(***************************************************************************)
(* Requests.                                                               *)
(***************************************************************************)
Collect     == [do |-> "collect"]
Write(t, h) == [do |-> "write", tier |-> t, hash |-> h, card |-> FALSE]
Copy(t, h)  == [do |-> "write", tier |-> t, hash |-> h, card |-> TRUE]
Commit(s)   == [do |-> "commit", next |-> s]
Saving(s)   == [do |-> "saving", next |-> s]

Task == [do : {"collect"}] \cup [do : {"write"}, tier : Tier, hash : Hash, card : BOOLEAN]
          \cup [do : {"commit", "saving"}, next : State]

Commits(steps) == Cardinality({i \in DOMAIN steps : steps[i].do = "commit"})

Request(steps) ==
  /\ mode = "up" /\ todo = <<>>
  /\ state.revision + Commits(steps) <= MaxRevision
  /\ todo' = steps
  /\ UNCHANGED <<slot, files, card, mode, state, seen, faults, committed, doubt, named>>

\* PUT /api/blobs; a registered file is immutable, and files start on the board.
Put(n, h) ==
  LET others == Onboard(state) \ {n} IN
  /\ n \notin Registered(state)
  /\ Cardinality(others) + 1 <= Budget
  /\ n \in Stored(state) \/ Cardinality(Stored(state)) # MaxObjects
  /\ Request(<<Collect, Write("onboard", h),
               Commit([state EXCEPT !.blobs[n] = [hash |-> h, tier |-> "onboard"]])>>)

\* A file that a notice shows is not deleted either; notices are left out here.
Delete(n) ==
  /\ n \in Stored(state) \ Registered(state)
  /\ Request(<<Commit([state EXCEPT !.blobs[n] = None]), Collect>>)

\* POST /api/storage/migrate: the copy is verified and synced, both slots come
\* to name it, and only then may the source go.
Migrate(n, t) ==
  LET blob == state.blobs[n]
      moved == [state EXCEPT !.blobs[n].tier = t]
  IN /\ n \in Stored(state)
     /\ t = "onboard" /\ blob.tier # t => Cardinality(Onboard(state)) + 1 <= Budget
     /\ blob.tier # t => seen /\ card
     /\ Request(IF blob.tier = t THEN <<Commit(moved), Commit(moved), Collect>>
                ELSE <<Copy(t, blob.hash), Commit(moved), Commit(moved), Collect>>)

\* PUT and DELETE /api/copyrights.  The caller names the revision it has read;
\* the body's hash must be that of the stored file.
Register(n, title, revision) ==
  LET old == state.copyrights[n] IN
  /\ revision = IF old = None THEN 0 ELSE old.revision
  /\ n \in Stored(state)
  /\ \A m \in Registered(state) \ {n} : state.copyrights[m].hash # state.blobs[n].hash
  /\ Request(<<Commit([state EXCEPT !.copyrights[n] =
                 [hash |-> state.blobs[n].hash, title |-> title,
                  revision |-> state.revision + 1]])>>)

Unregister(n, revision) ==
  /\ n \in Registered(state) /\ revision = state.copyrights[n].revision
  /\ Request(<<Commit([state EXCEPT !.copyrights[n] = None])>>)

\* Everything else that commits: jobs, notices, banks.
Change == Request(<<Commit([state EXCEPT !.other = 1 - @])>>)

-----------------------------------------------------------------------------
(***************************************************************************)
(* The steps of a request.                                                 *)
(***************************************************************************)
Doing(what) == mode = "up" /\ todo # <<>> /\ Head(todo).do = what

Names(s, t) == {s.blobs[n].hash : n \in {m \in Stored(s) : s.blobs[m].tier = t}}

\* Store::collect keeps what the state or either slot refers to.
Referenced(t) ==
  UNION {Names(s, t) : s \in {state} \cup {slot[i] : i \in {j \in 0..1 : slot[j] \in State}}}

DoCollect ==
  /\ Doing("collect")
  /\ files' = [t \in Tier |-> IF t = "onboard" \/ (seen /\ card)
                              THEN files[t] \cap Referenced(t) ELSE files[t]]
  \* A card that was there at startup and cannot be read ends the request.
  /\ todo' = IF seen /\ ~card THEN <<>> ELSE Tail(todo)
  /\ UNCHANGED <<slot, card, mode, state, seen, faults, committed, doubt, named>>

\* Staged, synced and renamed: the bytes appear at once.
DoWrite ==
  LET w == Head(todo) IN
  /\ Doing("write")
  /\ \/ /\ w.card => card
        /\ files' = [files EXCEPT ![w.tier] = @ \cup {w.hash}]
        /\ todo' = Tail(todo)
     \/ /\ w.card /\ ~card
        /\ todo' = <<>> /\ UNCHANGED files
  /\ UNCHANGED <<slot, card, mode, state, seen, faults, committed, doubt, named>>

\* Cloud::commit numbers the state; Store::save truncates the older slot ...
SaveBegins ==
  LET next == [Head(todo).next EXCEPT !.revision = state.revision + 1] IN
  /\ Doing("commit")
  /\ slot' = [slot EXCEPT ![next.revision % 2] = Torn]
  /\ todo' = [todo EXCEPT ![1] = Saving(next)]
  /\ doubt' = next
  /\ UNCHANGED <<files, card, mode, state, seen, faults, committed, named>>

Given(s) ==
  [r \in Revision |->
     LET now == {n \in Registered(s) : s.copyrights[n].revision = r} IN
     IF named[r] # None \/ now = {} THEN named[r]
     ELSE LET n == CHOOSE m \in now : TRUE IN <<n, s.copyrights[n].title>>]

\* ... and it counts from when its digest is written.
SaveEnds ==
  LET next == Head(todo).next IN
  /\ Doing("saving")
  /\ slot' = [slot EXCEPT ![next.revision % 2] = next]
  /\ state' = next /\ committed' = next /\ doubt' = None
  /\ named' = Given(next)
  /\ todo' = Tail(todo)
  /\ UNCHANGED <<files, card, mode, seen, faults>>

\* An I/O error ends the request.  A collection may have removed part of what it
\* would; a state may have been written whole and not be known to be synced.
StepFails ==
  /\ mode = "up" /\ todo # <<>>
  /\ Fault
  /\ todo' = <<>>
  /\ \/ UNCHANGED <<slot, files>>
     \/ /\ Doing("collect")
        /\ \E gone \in SUBSET (files["onboard"] \ Referenced("onboard")) :
             files' = [files EXCEPT !["onboard"] = @ \ gone]
        /\ UNCHANGED slot
     \/ /\ Doing("saving")
        /\ slot' = [slot EXCEPT ![Head(todo).next.revision % 2] = Head(todo).next]
        /\ UNCHANGED files
  /\ UNCHANGED <<card, mode, state, seen, committed, doubt, named>>

-----------------------------------------------------------------------------
(***************************************************************************)
(* Power, the card, and Store::open and load.                              *)
(***************************************************************************)
PowerCut ==
  /\ mode = "up" /\ todo # <<>>
  /\ Fault
  /\ mode' = "down"
  /\ todo' = <<>>
  /\ state' = Empty /\ seen' = FALSE
  /\ \/ UNCHANGED slot
     \/ /\ Doing("saving")
        /\ slot' = [slot EXCEPT ![Head(todo).next.revision % 2] = Head(todo).next]
  /\ UNCHANGED <<files, card, committed, doubt, named>>

PullCard ==
  /\ card /\ card' = FALSE
  /\ UNCHANGED <<slot, files, mode, state, seen, todo, faults, committed, doubt, named>>

\* A card is put back with the power off.
InsertCard ==
  /\ ~card /\ mode = "down" /\ card' = TRUE
  /\ UNCHANGED <<slot, files, mode, state, seen, todo, faults, committed, doubt, named>>

Valid(s) ==
  /\ s \in State
  /\ Cardinality(Stored(s)) <= MaxObjects
  /\ \A n \in Stored(s) : /\ s.blobs[n].hash \in files[s.blobs[n].tier]
                          /\ s.blobs[n].tier = "card" => card
  /\ \A n \in Registered(s) :
       /\ s.blobs[n] # None /\ s.blobs[n].hash = s.copyrights[n].hash
       /\ s.copyrights[n].revision <= s.revision
       /\ \A m \in Registered(s) \ {n} : s.copyrights[m].hash # s.copyrights[n].hash

\* Mutant: the first that is valid.
FirstOf(valid) == IF slot[0] \in valid THEN slot[0] ELSE slot[1]

Latest(valid) == CHOOSE s \in valid : \A r \in valid : r.revision <= s.revision

Boot ==
  LET valid == {slot[i] : i \in {j \in 0..1 : Valid(slot[j])}} IN
  /\ mode = "down"
  /\ seen' = card
  /\ \/ /\ valid = {} /\ \E i \in 0..1 : slot[i] # Absent
        /\ mode' = "refused" /\ UNCHANGED <<state, committed, doubt, named>>
     \/ /\ valid # {} \/ \A i \in 0..1 : slot[i] = Absent
        /\ mode' = "up"
        /\ state' = IF valid = {} THEN Empty ELSE Latest(valid)
        /\ committed' = state' /\ doubt' = None
        /\ named' = Given(state')
  /\ UNCHANGED <<slot, files, card, todo, faults>>

\* Between requests the board may be switched off; one that refused to start
\* must be, to change the card.
SwitchOff ==
  /\ mode # "down" /\ todo = <<>>
  /\ mode' = "down" /\ state' = Empty /\ seen' = FALSE
  /\ UNCHANGED <<slot, files, card, todo, faults, committed, doubt, named>>

Init ==
  LET first == [Empty EXCEPT !.revision = 1] IN
  /\ slot = IF Fresh THEN [i \in 0..1 |-> Absent]
                     ELSE [i \in 0..1 |-> IF i = 1 THEN first ELSE Absent]
  /\ files = [t \in Tier |-> {}]
  /\ card \in BOOLEAN
  /\ mode = "down" /\ state = Empty /\ seen = FALSE
  /\ todo = <<>>
  /\ faults = 0
  /\ committed = IF Fresh THEN Empty ELSE first
  /\ doubt = None
  /\ named = [r \in Revision |-> None]

Files == \E n \in Name : \/ \E h \in Hash : Put(n, h)
                         \/ Delete(n)
                         \/ \E t \in Tier : Migrate(n, t)
Registry == \E n \in Name, r \in 0..MaxRevision :
              Unregister(n, r) \/ \E title \in Title : Register(n, title, r)
Step == DoCollect \/ DoWrite \/ SaveBegins \/ SaveEnds \/ StepFails
Power == PowerCut \/ PullCard \/ InsertCard \/ Boot \/ SwitchOff

Next == Files \/ Registry \/ Change \/ Step \/ Power

Spec == Init /\ [][Next]_vars

-----------------------------------------------------------------------------
(***************************************************************************)
(* Properties.                                                             *)
(***************************************************************************)

\* Every variable has its type, and the state in use is the one last committed
\* or loaded.
TypeOK ==
  /\ slot \in [0..1 -> State \cup {Torn, Absent}]
  /\ files \in [Tier -> SUBSET Hash]
  /\ card \in BOOLEAN /\ seen \in BOOLEAN
  /\ mode \in {"down", "up", "refused"}
  /\ state \in State /\ committed \in State /\ doubt \in State \cup {None}
  /\ mode = "up" => state = committed
  /\ todo \in Seq(Task)
  /\ faults \in 0..MaxFaults
  /\ named \in [Revision -> (Name \X Title) \cup {None}]

Promise == INSTANCE AtomicState WITH
             Value <- Contents, Nothing <- None, value <- Content(committed),
             doubt <- IF doubt = None THEN None ELSE Content(doubt),
             serving <- mode = "up"

\* The two slots implement one atomic state: no power cut, failed write or card
\* left out brings back, at the next start, anything but the content last
\* committed or that of the commit that was cut short.
KeepsState == Promise!Spec

\* The bytes of every file are in place that the state names, or a generation a
\* restart may fall back to: no failed upload, move or collection loses them.
FilesKept ==
  \A s \in {state} \cup {slot[i] : i \in {j \in 0..1 : slot[j] \in State}} :
    \A n \in Stored(s) : s.blobs[n].hash \in files[s.blobs[n].tier]

\* The store opens, unless its files lie on a card that is not there.
NeverRefused ==
  mode = "refused" =>
    ~seen /\ \E i \in 0..1 : slot[i] \in State /\ Names(slot[i], "card") # {}

\* A copyright revision is never given to two versions of a record, whatever
\* commits failed in between, so a caller who names the revision it has read
\* replaces what it has read.
RevisionNamesOne ==
  mode = "up" => \A n \in Registered(state) :
    named[state.copyrights[n].revision] = <<n, state.copyrights[n].title>>

\* All of it: what every request of the cloud, and every start, relies on.
StateHolds == [](TypeOK /\ FilesKept /\ NeverRefused /\ RevisionNamesOne) /\ KeepsState
=============================================================================
