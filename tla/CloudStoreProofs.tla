--------------------------- MODULE CloudStoreProofs ---------------------------
(***************************************************************************)
(* Proofs about CloudStore, for any names, contents, limits, card and      *)
(* failures, from the first commit on: the two slots implement one atomic  *)
(* state, every file that a state names is in place, the store opens       *)
(* unless its card is out, and a revision names one record.                *)
(***************************************************************************)
EXTENDS CloudStore, FiniteSetTheorems, TLAPS

-----------------------------------------------------------------------------
(* The inductive invariant. *)

\* What Valid asks of a state, as number r, besides its files; and that a number
\* is in one record only.
Sane(s, r) ==
  /\ Cardinality(Stored(s)) <= MaxObjects
  /\ \A n \in Registered(s) :
       /\ s.blobs[n] # None /\ s.blobs[n].hash = s.copyrights[n].hash
       /\ s.copyrights[n].revision <= r
       /\ \A m \in Registered(s) \ {n} : /\ s.copyrights[m].hash # s.copyrights[n].hash
                                         /\ s.copyrights[m].revision # s.copyrights[n].revision

\* Its bytes are in place; or will be, once h is written to tier t.
Kept(s) == \A n \in Stored(s) : s.blobs[n].hash \in files[s.blobs[n].tier]
KeptWith(s, t, h) ==
  \A n \in Stored(s) : s.blobs[n].hash \in files[s.blobs[n].tier] \/ s.blobs[n] = [hash |-> h, tier |-> t]

OnCard(s) == \E n \in Stored(s) : s.blobs[n].tier = "card"

\* A state reached by one commit: it moves to the card what it does not change,
\* and a record is what it was or has the new number.
OneCommit(s, q) ==
  /\ OnCard(q) /\ ~OnCard(s) => Content(q) = Content(s)
  /\ \A n \in Registered(q) : \/ q.copyrights[n] = s.copyrights[n]
                              \/ q.copyrights[n].revision = s.revision + 1

\* A commit that a request has still to make.
Leads(q) == /\ q \in State /\ Sane(q, state.revision + 1) /\ OneCommit(state, q)
            /\ state.revision < MaxRevision

\* The commit under way.
Saves(q) == /\ Leads(q) /\ Kept(q) /\ q.revision = state.revision + 1
            /\ doubt = q /\ slot[q.revision % 2] = Torn

\* What a request has still to do, from one of its steps on: a commit, before and
\* during its save ...
Committing == \E q \in State :
  todo \in {<<Commit(q)>>, <<Commit(q), Collect>>} /\ Leads(q) /\ Kept(q)
Ending == \E q \in State :
  todo \in {<<Saving(q)>>, <<Saving(q), Collect>>} /\ Saves(q)

\* ... an upload, which collects and writes first ...
Uploading == \E q \in State, h \in Hash :
  /\ todo = <<Collect, Write("onboard", h), Commit(q)>> /\ Leads(q)
  /\ \A n \in Stored(q) : \/ n \in Stored(state) /\ q.blobs[n] = state.blobs[n]
                          \/ q.blobs[n] = [hash |-> h, tier |-> "onboard"]
Uploaded == \E q \in State, h \in Hash :
  todo = <<Write("onboard", h), Commit(q)>> /\ Leads(q) /\ KeptWith(q, "onboard", h)

\* ... or a move, which copies the bytes and commits twice.
Twice(q) == Leads(q) /\ state.revision + 1 < MaxRevision /\ q.copyrights = state.copyrights
Copying == \E q \in State, t \in Tier, h \in Hash :
  todo = <<Copy(t, h), Commit(q), Commit(q), Collect>> /\ Twice(q) /\ KeptWith(q, t, h)
Moving == \E q \in State :
  todo = <<Commit(q), Commit(q), Collect>> /\ Twice(q) /\ Kept(q)
Moved == \E q, p \in State :
  /\ todo = <<Saving(q), Commit(p), Collect>> /\ Saves(q) /\ q.revision < MaxRevision
  /\ q = [p EXCEPT !.revision = q.revision] /\ p.copyrights = state.copyrights

Plan == \/ todo \in {<<>>, <<Collect>>}
        \/ Committing \/ Ending \/ Uploading \/ Uploaded \/ Copying \/ Moving \/ Moved

\* The slot that the committed state is not in.
Second == slot[(committed.revision + 1) % 2]

\* The committed state is in its slot.  The other slot is free, or holds the
\* generation before, or the one after: that of the commit in doubt, or one
\* that a start without the card passed over for the same content.
Generations ==
  /\ slot[committed.revision % 2] = committed
  /\ Second \in State =>
       \/ Second.revision + 1 = committed.revision /\ OneCommit(Second, committed)
       \/ /\ Second.revision = committed.revision + 1 /\ OneCommit(committed, Second)
          /\ Second = doubt \/ Content(Second) = Content(committed)

Intact == \A i \in 0..1 : slot[i] \in State => Sane(slot[i], slot[i].revision) /\ Kept(slot[i])

\* The numbers that records had are those of the committed state, and of no
\* state that a start may take for it.
Numbered ==
  /\ \A n \in Registered(committed) :
       named[committed.copyrights[n].revision] = <<n, committed.copyrights[n].title>>
  /\ \A r \in Revision : named[r] # None =>
       \A i \in 0..1 : slot[i] \in State /\ Content(slot[i]) = Content(committed) =>
         r <= slot[i].revision

Running ==
  /\ mode # "up" => todo = <<>> /\ state = Empty
  /\ mode = "refused" => ~seen /\ \E i \in 0..1 : slot[i] \in State /\ Names(slot[i], "card") # {}

Inv == TypeOK /\ Plan /\ Generations /\ Intact /\ Numbered /\ Running

-----------------------------------------------------------------------------
(* States. *)

\* A commit numbers a state and changes nothing else of it.
LEMMA Renumbered ==
  ASSUME NEW s \in State, NEW r \in 0..MaxRevision
  PROVE  LET q == [s EXCEPT !.revision = r]
         IN  /\ q \in State /\ q.revision = r /\ q.blobs = s.blobs
             /\ q.copyrights = s.copyrights /\ q.other = s.other
BY DEF State

\* States with the same files and records.
LEMMA SameData ==
  ASSUME NEW s \in State, NEW q \in State,
         q.blobs = s.blobs, q.copyrights = s.copyrights, q.other = s.other
  PROVE  /\ Stored(q) = Stored(s) /\ Registered(q) = Registered(s)
         /\ Content(q) = Content(s) /\ (OnCard(q) <=> OnCard(s)) /\ (Kept(q) <=> Kept(s))
         /\ \A r \in Nat : Sane(q, r) <=> Sane(s, r)
BY DEF Stored, Registered, Content, OnCard, Kept, Sane

LEMMA ContentOf ==
  ASSUME CloudAssumption, NEW s \in State
  PROVE  Content(s) \in Contents /\ Content(s) # None /\ s # None
<1>1. Content(s) \in Contents
  BY DEF Content, Contents, State, Blob
<1> QED BY <1>1 DEF CloudAssumption

\* States of one content have the same records.
LEMMA SameContent ==
  ASSUME NEW s \in State, NEW q \in State, Content(q) = Content(s)
  PROVE  q.copyrights = s.copyrights /\ Registered(q) = Registered(s)
BY DEF Content, Registered

LEMMA CardNames == ASSUME NEW s PROVE OnCard(s) <=> Names(s, "card") # {}
BY DEF OnCard, Names

\* A sane state whose bytes are in place is one that load takes, with its card.
LEMMA LoadTakes ==
  ASSUME NEW s \in State, Sane(s, s.revision), Kept(s)
  PROVE  Valid(s) <=> (OnCard(s) => card)
BY DEF Valid, Sane, Kept, OnCard

LEMMA StoredFinite ==
  ASSUME CloudAssumption, NEW s
  PROVE  IsFiniteSet(Stored(s)) /\ Cardinality(Stored(s)) \in Nat
<1>1. Stored(s) \subseteq Name
  BY DEF Stored
<1> QED BY <1>1, FS_Subset, FS_CardinalityType DEF CloudAssumption

\* What a commit, or a start, gives numbers to.
LEMMA GivenNumbers ==
  ASSUME NEW s \in State, NEW r \in 0..MaxRevision, Sane(s, r),
         named \in [Revision -> (Name \X Title) \cup {None}],
         \A n \in Registered(s) :
           named[s.copyrights[n].revision] \in {None, <<n, s.copyrights[n].title>>}
  PROVE  /\ Given(s) \in [Revision -> (Name \X Title) \cup {None}]
         /\ \A n \in Registered(s) : Given(s)[s.copyrights[n].revision] = <<n, s.copyrights[n].title>>
         /\ \A k \in Revision : Given(s)[k] # None =>
              named[k] # None \/ \E n \in Registered(s) : s.copyrights[n].revision = k
<1> DEFINE now(k) == {n \in Registered(s) : s.copyrights[n].revision = k}
<1>1. \A n \in Registered(s) : n \in Name /\ s.copyrights[n] \in Record
  BY DEF Registered, State
<1>2. \A n \in Registered(s) : s.copyrights[n].revision \in Revision /\ s.copyrights[n].title \in Title
  BY <1>1 DEF Record
<1>3. \A n \in Registered(s) : now(s.copyrights[n].revision) = {n}
  BY DEF Sane
<1>4. ASSUME NEW k \in Revision
      PROVE  /\ Given(s)[k] \in (Name \X Title) \cup {None}
             /\ Given(s)[k] # None => named[k] # None \/ now(k) # {}
             /\ named[k] # None => Given(s)[k] = named[k]
             /\ \A n : named[k] = None /\ now(k) = {n} => Given(s)[k] = <<n, s.copyrights[n].title>>
  <2>1. CASE named[k] # None \/ now(k) = {}
    BY <2>1 DEF Given
  <2>2. CASE named[k] = None /\ now(k) # {}
    <3>1. PICK n \in Registered(s) : s.copyrights[n].revision = k
      BY <2>2
    <3>2. now(k) = {n}
      BY <1>3, <3>1
    <3>3. Given(s)[k] = <<n, s.copyrights[n].title>>
      BY <2>2, <3>2 DEF Given
    <3> QED BY <1>1, <1>2, <2>2, <3>2, <3>3
  <2> QED BY <2>1, <2>2
<1>5. Given(s) \in [Revision -> (Name \X Title) \cup {None}]
  BY <1>4 DEF Given
<1>6. ASSUME NEW n \in Registered(s)
      PROVE  Given(s)[s.copyrights[n].revision] = <<n, s.copyrights[n].title>>
  BY <1>2, <1>3, <1>4, <1>6
<1> QED BY <1>4, <1>5, <1>6

-----------------------------------------------------------------------------
(* Requests.  The state is a sane one with its bytes in place. *)

LEMMA InitInv == ASSUME CloudAssumption, ~Fresh, Init PROVE Inv
<1> DEFINE first == [Empty EXCEPT !.revision = 1]
<1>1. Empty \in State /\ first \in State /\ first.revision = 1
      /\ first.blobs = [n \in Name |-> None] /\ first.copyrights = [n \in Name |-> None]
  BY DEF Empty, State, CloudAssumption
<1> HIDE DEF first
<1>2. slot[1] = first /\ slot[0] = Absent /\ slot \in [0..1 -> State \cup {Torn, Absent}]
      /\ Absent \notin State /\ committed = first
  BY <1>1 DEF Init, CloudAssumption, first
<1>3. TypeOK
  <2>1. files \in [Tier -> SUBSET Hash] /\ named \in [Revision -> (Name \X Title) \cup {None}]
        /\ todo \in Seq(Task)
    BY DEF Init
  <2>2. faults \in 0..MaxFaults
    BY DEF Init, CloudAssumption
  <2> QED BY <1>1, <1>2, <2>1, <2>2 DEF Init, TypeOK
<1>4. Plan /\ Running
  BY DEF Init, Plan, Running
<1>5. Generations
  BY <1>1, <1>2 DEF Generations, Second
<1>6. Stored(first) = {} /\ Registered(first) = {}
  BY <1>1 DEF Stored, Registered
<1>7. Intact
  <2>1. Sane(first, 1) /\ Kept(first)
    BY <1>6, FS_EmptySet DEF Sane, Kept, CloudAssumption
  <2> QED BY <1>1, <1>2, <2>1 DEF Intact
<1>8. Numbered
  BY <1>2, <1>6 DEF Numbered, Init
<1> QED BY <1>3, <1>4, <1>5, <1>7, <1>8 DEF Inv

\* What is known of the state while requests are served.
LEMMA InUse ==
  ASSUME CloudAssumption, Inv, mode = "up"
  PROVE  /\ state = committed /\ state \in State /\ Sane(state, state.revision) /\ Kept(state)
         /\ state.revision \in 0..MaxRevision /\ slot[state.revision % 2] = state
         /\ MaxRevision \in Nat /\ MaxObjects \in Nat /\ Cardinality(Stored(state)) \in Nat
<1>1. state = committed /\ state \in State /\ state.revision \in 0..MaxRevision
  BY DEF Inv, TypeOK, State
<1>2. slot[state.revision % 2] = state /\ state.revision % 2 \in 0..1
  BY <1>1 DEF Inv, Generations
<1>3. MaxRevision \in Nat /\ MaxObjects \in Nat /\ Cardinality(Stored(state)) \in Nat
  BY StoredFinite DEF CloudAssumption
<1> QED BY <1>1, <1>2, <1>3 DEF Inv, Intact

\* A request that is taken changes only what there is to do.
LEMMA TakenKeepsInv ==
  ASSUME Inv, mode = "up", Plan', todo' \in Seq(Task),
         UNCHANGED <<slot, files, card, mode, state, seen, faults, committed, doubt, named>>
  PROVE  Inv'
<1>1. TypeOK'
  BY DEF Inv, TypeOK
<1>2. Generations' /\ Intact'
  BY DEF Inv, Generations, Second, Intact, Kept
<1>3. Numbered' /\ Running'
  BY DEF Inv, Numbered, Running
<1> QED BY <1>1, <1>2, <1>3 DEF Inv

\* The commits that the requests hold.
LEMMA CommitsOf ==
  ASSUME NEW q, NEW t, NEW h
  PROVE  /\ Commits(<<Commit(q)>>) = 1
         /\ Commits(<<Commit(q), Collect>>) = 1
         /\ Commits(<<Collect, Write(t, h), Commit(q)>>) = 1
         /\ Commits(<<Commit(q), Commit(q), Collect>>) = 2
         /\ Commits(<<Copy(t, h), Commit(q), Commit(q), Collect>>) = 2
<1>1. {i \in DOMAIN <<Commit(q)>> : <<Commit(q)>>[i].do = "commit"} = {1}
  BY DEF Commit
<1>2. {i \in DOMAIN <<Commit(q), Collect>> : <<Commit(q), Collect>>[i].do = "commit"} = {1}
  BY DEF Commit, Collect
<1>3. {i \in DOMAIN <<Collect, Write(t, h), Commit(q)>> :
         <<Collect, Write(t, h), Commit(q)>>[i].do = "commit"} = {3}
  BY DEF Commit, Collect, Write
<1>4. {i \in DOMAIN <<Commit(q), Commit(q), Collect>> :
         <<Commit(q), Commit(q), Collect>>[i].do = "commit"} = {1} \cup {2}
  BY DEF Commit, Collect
<1>5. {i \in DOMAIN <<Copy(t, h), Commit(q), Commit(q), Collect>> :
         <<Copy(t, h), Commit(q), Commit(q), Collect>>[i].do = "commit"} = {2} \cup {3}
  BY DEF Commit, Collect, Copy
<1>6. \A a : Cardinality({a}) = 1 /\ IsFiniteSet({a})
  BY FS_Singleton
<1>7. ASSUME NEW a, NEW b, a # b PROVE Cardinality({a} \cup {b}) = 2
  <2>1. IsFiniteSet({a}) /\ Cardinality({a}) = 1 /\ b \notin {a}
    BY <1>6, <1>7
  <2>2. Cardinality({a} \cup {b}) = Cardinality({a}) + 1
    BY <2>1, FS_AddElement, Zenon
  <2> QED BY <2>1, <2>2
<1>8. Cardinality({1} \cup {2}) = 2 /\ Cardinality({2} \cup {3}) = 2
  <2>1. 1 # 2 /\ 2 # 3
    OBVIOUS
  <2> QED BY <1>7, <2>1, Zenon
<1>9. Cardinality({1}) = 1 /\ Cardinality({3}) = 1
  BY <1>6
<1> QED BY <1>1, <1>2, <1>3, <1>4, <1>5, <1>8, <1>9, Zenon DEF Commits

\* A plan that a request makes stays one while the state does.
LEMMA LeadsStays ==
  ASSUME NEW q, UNCHANGED state PROVE Leads(q)' <=> Leads(q)
BY DEF Leads, Sane, OneCommit, OnCard, Stored, Registered, Content

\* A change of the files alone: the records stay, each with its file.
LEMMA FilesLead ==
  ASSUME CloudAssumption, Inv, mode = "up", state.revision + 1 <= MaxRevision,
         NEW q \in State, q.copyrights = state.copyrights,
         Cardinality(Stored(q)) <= MaxObjects,
         \A n \in Registered(state) : q.blobs[n] # None /\ q.blobs[n].hash = state.blobs[n].hash,
         OnCard(q) /\ ~OnCard(state) => Content(q) = Content(state)
  PROVE  Leads(q)
<1>1. /\ Sane(state, state.revision) /\ state \in State
      /\ state.revision \in 0..MaxRevision /\ MaxRevision \in Nat
  BY InUse
<1>2. Registered(q) = Registered(state)
  BY DEF Registered
<1>3. ASSUME NEW m \in Registered(q)
      PROVE  /\ q.blobs[m] # None /\ q.blobs[m].hash = q.copyrights[m].hash
             /\ q.copyrights[m].revision <= state.revision + 1
             /\ \A k \in Registered(q) \ {m} : /\ q.copyrights[k].hash # q.copyrights[m].hash
                                               /\ q.copyrights[k].revision # q.copyrights[m].revision
  <2>1. m \in Registered(state) /\ state.copyrights[m].revision \in Nat
    BY <1>1, <1>2, <1>3 DEF State, Record, Registered, Revision
  <2> QED BY <1>1, <1>2, <2>1 DEF Sane
<1>4. Sane(q, state.revision + 1)
  BY <1>3 DEF Sane
<1>5. OneCommit(state, q)
  BY DEF OneCommit
<1> QED BY <1>1, <1>4, <1>5 DEF Leads

\* A file more, with the records as they are.
LEMMA PutInv ==
  ASSUME CloudAssumption, Inv, NEW n \in Name, NEW h \in Hash, Put(n, h)
  PROVE  Inv'
<1> DEFINE blob == [hash |-> h, tier |-> "onboard"]
<1>0. PICK q : q = [state EXCEPT !.blobs[n] = blob]
  OBVIOUS
<1>1. /\ n \notin Registered(state)
      /\ n \in Stored(state) \/ Cardinality(Stored(state)) # MaxObjects
      /\ Request(<<Collect, Write("onboard", h), Commit(q)>>)
  BY <1>0 DEF Put
<1>2. mode = "up" /\ todo' = <<Collect, Write("onboard", h), Commit(q)>>
      /\ state.revision + 1 <= MaxRevision
      /\ UNCHANGED <<slot, files, card, mode, state, seen, faults, committed, doubt, named>>
  BY <1>1, CommitsOf DEF Request
<1>3. state \in State /\ Sane(state, state.revision) /\ state.revision \in 0..MaxRevision
  BY <1>2, InUse
<1>4. q \in State /\ q.copyrights = state.copyrights
      /\ \A m \in Name : q.blobs[m] = IF m = n THEN blob ELSE state.blobs[m]
  BY <1>0, <1>3 DEF State, Blob, Tier
<1>5. Stored(q) \subseteq Stored(state) \cup {n}
  BY <1>4 DEF Stored
<1>6. Cardinality(Stored(q)) <= MaxObjects
  <2>1. IsFiniteSet(Stored(state)) /\ Cardinality(Stored(state)) \in Nat
        /\ Cardinality(Stored(state)) <= MaxObjects /\ MaxObjects \in Nat
    BY <1>3, StoredFinite DEF Sane, CloudAssumption
  <2>2. /\ IsFiniteSet(Stored(state) \cup {n})
        /\ Cardinality(Stored(state) \cup {n}) =
             IF n \in Stored(state) THEN Cardinality(Stored(state)) ELSE Cardinality(Stored(state)) + 1
    BY <2>1, FS_AddElement, Zenon
  <2>3. Cardinality(Stored(q)) <= Cardinality(Stored(state) \cup {n}) /\ Cardinality(Stored(q)) \in Nat
    BY <1>5, <2>2, FS_Subset, StoredFinite, Zenon
  <2> QED BY <1>1, <2>1, <2>2, <2>3
<1>7. Leads(q)
  <2>1. \A m \in Registered(state) : m \in Name /\ m # n /\ state.blobs[m] # None
    BY <1>1, <1>3 DEF Registered, Sane
  <2>2. OnCard(q) => OnCard(state)
    BY <1>4 DEF OnCard, Stored
  <2> QED BY <1>2, <1>4, <1>6, <2>1, <2>2, FilesLead
<1>8. Plan'
  <2>1. \A m \in Stored(q) : \/ m \in Stored(state) /\ q.blobs[m] = state.blobs[m]
                             \/ q.blobs[m] = blob
    BY <1>4 DEF Stored
  <2>2. Leads(q)' /\ Stored(state)' = Stored(state)
    BY <1>2, <1>7, LeadsStays DEF Stored
  <2> QED BY <1>2, <1>4, <2>1, <2>2 DEF Plan, Uploading
<1>9. todo' \in Seq(Task)
  BY <1>2, <1>4 DEF Task, Collect, Write, Commit, Tier
<1> QED BY <1>2, <1>8, <1>9, TakenKeepsInv

\* A file less, of those without a record.
LEMMA DeleteInv ==
  ASSUME CloudAssumption, Inv, NEW n \in Name, Delete(n)
  PROVE  Inv'
<1>0. PICK q : q = [state EXCEPT !.blobs[n] = None]
  OBVIOUS
<1>1. n \notin Registered(state) /\ Request(<<Commit(q), Collect>>)
  BY <1>0 DEF Delete
<1>2. mode = "up" /\ todo' = <<Commit(q), Collect>> /\ state.revision + 1 <= MaxRevision
      /\ UNCHANGED <<slot, files, card, mode, state, seen, faults, committed, doubt, named>>
  BY <1>1, CommitsOf DEF Request
<1>3. state \in State /\ Sane(state, state.revision) /\ Kept(state)
  BY <1>2, InUse
<1>4. q \in State /\ q.copyrights = state.copyrights
      /\ \A m \in Name : q.blobs[m] = IF m = n THEN None ELSE state.blobs[m]
  BY <1>0, <1>3 DEF State
<1>5. Stored(q) \subseteq Stored(state)
  BY <1>4 DEF Stored
<1>6. Cardinality(Stored(q)) <= MaxObjects
  <2>1. /\ Cardinality(Stored(q)) <= Cardinality(Stored(state))
        /\ Cardinality(Stored(q)) \in Nat /\ Cardinality(Stored(state)) \in Nat
    BY <1>5, FS_Subset, StoredFinite, Zenon
  <2> QED BY <1>2, <1>3, <2>1, InUse DEF Sane
<1>7. Leads(q)
  <2>1. \A m \in Registered(state) : m \in Name /\ m # n /\ state.blobs[m] # None
    BY <1>1, <1>3 DEF Registered, Sane
  <2>2. OnCard(q) => OnCard(state)
    BY <1>4 DEF OnCard, Stored
  <2> QED BY <1>2, <1>4, <1>6, <2>1, <2>2, FilesLead
<1>8. Kept(q)
  BY <1>3, <1>4 DEF Kept, Stored
<1>9. Plan'
  <2>1. Leads(q)' /\ Kept(q)'
    BY <1>2, <1>7, <1>8, LeadsStays DEF Kept
  <2> QED BY <1>2, <1>4, <2>1 DEF Plan, Committing
<1>10. todo' \in Seq(Task)
  BY <1>2, <1>4 DEF Task, Collect, Commit
<1> QED BY <1>2, <1>9, <1>10, TakenKeepsInv

\* A file on the other tier: the same content, committed twice.
LEMMA MigrateInv ==
  ASSUME CloudAssumption, Inv, NEW n \in Name, NEW t \in Tier, Migrate(n, t)
  PROVE  Inv'
<1> DEFINE h == state.blobs[n].hash
<1>0. PICK q : q = [state EXCEPT !.blobs[n].tier = t]
  OBVIOUS
<1>1. n \in Stored(state)
      /\ Request(IF state.blobs[n].tier = t THEN <<Commit(q), Commit(q), Collect>>
                 ELSE <<Copy(t, h), Commit(q), Commit(q), Collect>>)
  BY <1>0 DEF Migrate
<1>2. mode = "up"
      /\ UNCHANGED <<slot, files, card, mode, state, seen, faults, committed, doubt, named>>
  BY <1>1 DEF Request
<1>3. state \in State /\ Sane(state, state.revision) /\ Kept(state) /\ state.revision \in 0..MaxRevision
      /\ MaxRevision \in Nat
  BY <1>2, InUse
<1>4. n \in Name /\ state.blobs[n] \in Blob /\ h \in Hash
  BY <1>1, <1>3 DEF Stored, State, Blob
<1>5. PICK blob \in Blob : blob = [hash |-> h, tier |-> t]
  BY <1>4 DEF Blob
<1>6. q \in State /\ q.copyrights = state.copyrights /\ q.other = state.other
      /\ \A m \in Name : q.blobs[m] = IF m = n THEN blob ELSE state.blobs[m]
  BY <1>0, <1>3, <1>4, <1>5 DEF State, Blob
<1>7. blob # None /\ Stored(q) = Stored(state)
  <2>1. blob # None /\ state.blobs[n] # None
    BY <1>4 DEF CloudAssumption
  <2> QED BY <1>6, <2>1 DEF Stored
<1>8. Content(q) = Content(state)
  BY <1>3, <1>4, <1>5, <1>6, <1>7 DEF Content, CloudAssumption
<1>9. CASE state.blobs[n].tier = t
  <2>1. /\ todo' = <<Commit(q), Commit(q), Collect>> /\ state.revision + 2 <= MaxRevision
    BY <1>1, <1>9, CommitsOf DEF Request
  <2>2. Leads(q) /\ Kept(q)
    <3>1. Cardinality(Stored(q)) <= MaxObjects
      BY <1>3, <1>7 DEF Sane
    <3>2. \A m \in Registered(state) : q.blobs[m] # None /\ q.blobs[m].hash = state.blobs[m].hash
      BY <1>3, <1>5, <1>6, <1>7 DEF Registered, Sane
    <3>3. Leads(q)
      BY <1>2, <1>3, <1>6, <1>8, <2>1, <3>1, <3>2, FilesLead
    <3>4. Kept(q)
      BY <1>3, <1>4, <1>5, <1>6, <1>7, <1>9 DEF Kept, Stored
    <3> QED BY <3>3, <3>4
  <2>3. Plan'
    <3>1. Leads(q)' /\ Kept(q)'
      BY <1>2, <2>2, LeadsStays DEF Kept
    <3>2. state.revision + 1 < MaxRevision
      BY <1>3, <2>1
    <3> QED BY <1>2, <1>6, <2>1, <3>1, <3>2 DEF Plan, Moving, Twice
  <2>4. todo' \in Seq(Task)
    BY <1>6, <2>1 DEF Task, Collect, Commit
  <2> QED BY <1>2, <2>3, <2>4, TakenKeepsInv
<1>10. CASE state.blobs[n].tier # t
  <2>1. /\ todo' = <<Copy(t, h), Commit(q), Commit(q), Collect>> /\ state.revision + 2 <= MaxRevision
    BY <1>1, <1>10, CommitsOf DEF Request
  <2>2. Leads(q)
    <3>1. Cardinality(Stored(q)) <= MaxObjects
      BY <1>3, <1>7 DEF Sane
    <3>2. \A m \in Registered(state) : q.blobs[m] # None /\ q.blobs[m].hash = state.blobs[m].hash
      BY <1>3, <1>5, <1>6, <1>7 DEF Registered, Sane
    <3> QED BY <1>2, <1>3, <1>6, <1>8, <2>1, <3>1, <3>2, FilesLead
  <2>3. KeptWith(q, t, h)
    BY <1>3, <1>5, <1>6, <1>7 DEF Kept, KeptWith, Stored
  <2>4. PICK k \in Hash : k = h
    BY <1>4
  <2>5. Plan'
    <3>1. Leads(q)' /\ KeptWith(q, t, k)'
      BY <1>2, <2>2, <2>3, <2>4, LeadsStays DEF KeptWith
    <3>2. state.revision + 1 < MaxRevision
      BY <1>3, <2>1
    <3> QED BY <1>2, <1>6, <2>1, <2>4, <3>1, <3>2 DEF Plan, Copying, Twice
  <2>6. todo' \in Seq(Task)
    BY <1>4, <1>6, <2>1 DEF Task, Collect, Copy, Commit
  <2> QED BY <1>2, <2>5, <2>6, TakenKeepsInv
<1> QED BY <1>9, <1>10

\* One commit of a state with the files of now.
LEMMA CommitInv ==
  ASSUME CloudAssumption, Inv, NEW q \in State, q.blobs = state.blobs,
         \A n \in Registered(q) :
           \/ q.copyrights[n] = state.copyrights[n]
           \/ q.copyrights[n].revision = state.revision + 1,
         mode = "up" => Sane(q, state.revision + 1),
         Request(<<Commit(q)>>)
  PROVE  Inv'
<1>1. mode = "up" /\ todo' = <<Commit(q)>> /\ state.revision + 1 <= MaxRevision
      /\ UNCHANGED <<slot, files, card, mode, state, seen, faults, committed, doubt, named>>
  BY CommitsOf DEF Request
<1>2. Kept(state) /\ state.revision \in 0..MaxRevision /\ MaxRevision \in Nat
  BY <1>1, InUse
<1>3. Stored(q) = Stored(state)
  BY DEF Stored
<1>4. OneCommit(state, q)
  BY <1>3 DEF OneCommit, OnCard
<1>5. Leads(q) /\ Kept(q)
  BY <1>1, <1>2, <1>3, <1>4 DEF Leads, Kept
<1>6. Plan'
  <2>1. Leads(q)' /\ Kept(q)'
    BY <1>1, <1>5, LeadsStays DEF Kept
  <2> QED BY <1>1, <2>1 DEF Plan, Committing
<1>7. todo' \in Seq(Task)
  BY <1>1 DEF Task, Commit
<1> QED BY <1>1, <1>6, <1>7, TakenKeepsInv

LEMMA RegisterInv ==
  ASSUME CloudAssumption, Inv, NEW n \in Name, NEW title \in Title, NEW r \in 0..MaxRevision,
         Register(n, title, r)
  PROVE  Inv'
<1> DEFINE record == [hash |-> state.blobs[n].hash, title |-> title, revision |-> state.revision + 1]
<1>0. PICK q : q = [state EXCEPT !.copyrights[n] = record]
  OBVIOUS
<1>1. /\ n \in Stored(state) /\ Request(<<Commit(q)>>) /\ mode = "up"
      /\ \A m \in Registered(state) \ {n} : state.copyrights[m].hash # state.blobs[n].hash
  BY <1>0 DEF Register, Request
<1>2. /\ state \in State /\ Sane(state, state.revision) /\ state.revision \in 0..MaxRevision
      /\ MaxRevision \in Nat
  BY <1>1, InUse
<1>3. state.revision + 1 \in Revision
  <2>1. state.revision + 1 <= MaxRevision
    BY <1>1, CommitsOf DEF Request
  <2> QED BY <1>2, <2>1 DEF Revision
<1>4. record \in Record
  BY <1>1, <1>2, <1>3 DEF Record, Stored, State, Blob
<1>5. q \in State /\ q.blobs = state.blobs
      /\ \A m \in Name : q.copyrights[m] = IF m = n THEN record ELSE state.copyrights[m]
  BY <1>0, <1>2, <1>4 DEF State
<1>6. Stored(q) = Stored(state) /\ Registered(q) \subseteq Registered(state) \cup {n}
  BY <1>5 DEF Stored, Registered
<1>7. \A m \in Registered(state) : m \in Name /\ state.copyrights[m].revision \in Nat
  BY <1>2 DEF Registered, State, Record, Revision
<1>8. Sane(q, state.revision + 1)
  <2>1. ASSUME NEW m \in Registered(q)
        PROVE  /\ q.blobs[m] # None /\ q.blobs[m].hash = q.copyrights[m].hash
               /\ q.copyrights[m].revision <= state.revision + 1
               /\ \A k \in Registered(q) \ {m} : /\ q.copyrights[k].hash # q.copyrights[m].hash
                                                 /\ q.copyrights[k].revision # q.copyrights[m].revision
    <3>1. CASE m = n
      <4>1. q.copyrights[m] = record
        BY <1>5, <3>1
      <4>2. \A k \in Registered(q) \ {m} : k \in Registered(state) \ {n} /\ q.copyrights[k] = state.copyrights[k]
        BY <1>5, <1>6, <1>7, <3>1
      <4>3. \A k \in Registered(state) : state.copyrights[k].revision < state.revision + 1
        BY <1>2, <1>7 DEF Sane
      <4> QED BY <1>1, <1>2, <1>5, <3>1, <4>1, <4>2, <4>3 DEF Stored
    <3>2. CASE m # n
      <4>1. m \in Registered(state) /\ q.copyrights[m] = state.copyrights[m]
        BY <1>5, <1>6, <1>7, <2>1, <3>2
      <4>2. state.blobs[m] # None /\ state.blobs[m].hash = state.copyrights[m].hash
            /\ state.copyrights[m].revision < state.revision + 1
            /\ state.copyrights[m].revision <= state.revision + 1
        BY <1>2, <1>7, <4>1 DEF Sane
      <4>3. ASSUME NEW k \in Registered(q) \ {m}
            PROVE  /\ q.copyrights[k].hash # q.copyrights[m].hash
                   /\ q.copyrights[k].revision # q.copyrights[m].revision
        <5>1. CASE k = n
          BY <1>1, <1>5, <1>7, <3>2, <4>1, <4>2, <5>1
        <5>2. CASE k # n
          BY <1>2, <1>5, <1>6, <1>7, <4>1, <4>3, <5>2 DEF Sane
        <5> QED BY <5>1, <5>2
      <4> QED BY <1>2, <1>5, <4>1, <4>2, <4>3
    <3> QED BY <3>1, <3>2
  <2> QED BY <1>2, <1>6, <2>1 DEF Sane
<1>9. ASSUME NEW m \in Registered(q)
      PROVE  \/ q.copyrights[m] = state.copyrights[m]
             \/ q.copyrights[m].revision = state.revision + 1
  BY <1>5, <1>6, <1>7, <1>9
<1> QED BY <1>1, <1>5, <1>8, <1>9, CommitInv

LEMMA UnregisterInv ==
  ASSUME CloudAssumption, Inv, NEW n \in Name, NEW r \in 0..MaxRevision, Unregister(n, r)
  PROVE  Inv'
<1>0. PICK q : q = [state EXCEPT !.copyrights[n] = None]
  OBVIOUS
<1>1. Request(<<Commit(q)>>) /\ mode = "up"
  BY <1>0 DEF Unregister, Request
<1>2. state \in State /\ Sane(state, state.revision) /\ state.revision \in 0..MaxRevision
  BY <1>1, InUse
<1>3. q \in State /\ q.blobs = state.blobs
      /\ \A m \in Name : q.copyrights[m] = IF m = n THEN None ELSE state.copyrights[m]
  BY <1>0, <1>2 DEF State
<1>4. Stored(q) = Stored(state)
      /\ \A m \in Registered(q) : /\ m \in Registered(state) /\ q.copyrights[m] = state.copyrights[m]
                                 /\ state.copyrights[m].revision \in Nat
  BY <1>2, <1>3 DEF Stored, Registered, State, Record, Revision
<1>5. Sane(q, state.revision + 1)
  BY <1>2, <1>3, <1>4 DEF Sane
<1> QED BY <1>1, <1>3, <1>4, <1>5, CommitInv

LEMMA ChangeInv == ASSUME CloudAssumption, Inv, Change PROVE Inv'
<1>0. PICK q : q = [state EXCEPT !.other = 1 - @]
  OBVIOUS
<1>1. Request(<<Commit(q)>>) /\ mode = "up"
  BY <1>0 DEF Change, Request
<1>2. state \in State /\ Sane(state, state.revision) /\ state.revision \in 0..MaxRevision
  BY <1>1, InUse
<1>3. q \in State /\ q.blobs = state.blobs /\ q.copyrights = state.copyrights
  BY <1>0, <1>2 DEF State
<1>4. Stored(q) = Stored(state) /\ Registered(q) = Registered(state)
      /\ \A m \in Registered(state) : state.copyrights[m].revision \in Nat
  BY <1>2, <1>3 DEF Stored, Registered, State, Record, Revision
<1>5. Sane(q, state.revision + 1)
  BY <1>2, <1>3, <1>4 DEF Sane
<1> QED BY <1>1, <1>3, <1>4, <1>5, CommitInv

-----------------------------------------------------------------------------
(* The steps of a request. *)

\* Bytes that something still refers to are in place after a collection.
LEMMA CollectKeeps ==
  ASSUME CloudAssumption, Inv, mode = "up", UNCHANGED <<slot, state>>,
         files' \in [Tier -> SUBSET Hash],
         \A t \in Tier : files[t] \cap Referenced(t) \subseteq files'[t]
  PROVE  /\ Kept(state)' /\ \A i \in 0..1 : slot[i] \in State => Kept(slot[i])'
<1>1. ASSUME NEW s \in State, Kept(s), s = state \/ \E i \in 0..1 : s = slot[i],
             NEW n \in Stored(s)
      PROVE  s.blobs[n].hash \in files'[s.blobs[n].tier]
  <2>1. s.blobs[n].tier \in Tier /\ s.blobs[n].hash \in files[s.blobs[n].tier]
    BY <1>1 DEF Stored, State, Blob, Kept
  <2>2. s.blobs[n].hash \in Names(s, s.blobs[n].tier)
    BY <1>1 DEF Names
  <2>3. s \in {state} \cup {slot[i] : i \in {j \in 0..1 : slot[j] \in State}}
    BY <1>1
  <2>4. s.blobs[n].hash \in Referenced(s.blobs[n].tier)
    BY <2>2, <2>3 DEF Referenced
  <2> QED BY <2>1, <2>4
<1>2. state \in State /\ Kept(state)
  BY InUse
<1>3. Kept(state)'
  BY <1>1, <1>2 DEF Kept, Stored
<1>4. ASSUME NEW i \in 0..1, slot[i] \in State PROVE Kept(slot[i])'
  <2>1. Kept(slot[i])
    BY <1>4 DEF Inv, Intact
  <2> QED BY <1>1, <1>4, <2>1 DEF Kept, Stored
<1> QED BY <1>3, <1>4

\* A step that changes only the files and what there is to do.
LEMMA FilesStepKeepsInv ==
  ASSUME CloudAssumption, Inv, mode = "up", Plan', todo' \in Seq(Task),
         files' \in [Tier -> SUBSET Hash], faults' \in 0..MaxFaults,
         \A i \in 0..1 : slot[i] \in State => Kept(slot[i])',
         UNCHANGED <<slot, card, mode, state, seen, committed, doubt, named>>
  PROVE  Inv'
<1>1. TypeOK'
  BY DEF Inv, TypeOK
<1>2. Generations'
  BY DEF Inv, Generations, Second
<1>3. Intact'
  BY DEF Inv, Intact, Sane, Stored, Registered
<1>4. Numbered' /\ Running'
  BY DEF Inv, Numbered, Running
<1> QED BY <1>1, <1>2, <1>3, <1>4 DEF Inv

\* What is left of a request is a sequence of tasks.
LEMMA TailTask ==
  ASSUME Inv
  PROVE  <<>> \in Seq(Task) /\ (todo # <<>> => Tail(todo) \in Seq(Task) /\ Head(todo) \in Task)
BY DEF Inv, TypeOK

\* What each plan does next.
LEMMA NextTask ==
  /\ todo = <<Collect>> \/ Uploading => Head(todo).do = "collect"
  /\ Uploaded \/ Copying => Head(todo).do = "write"
  /\ Committing \/ Moving => Head(todo).do = "commit"
  /\ Ending \/ Moved => Head(todo).do = "saving"
<1>1. todo = <<Collect>> \/ Uploading => Head(todo).do = "collect"
  <2>1. Uploading => Head(todo) = Collect
    BY DEF Uploading
  <2> QED BY <2>1 DEF Collect
<1>2. Uploaded \/ Copying => Head(todo).do = "write"
  BY DEF Uploaded, Copying, Write, Copy
<1>3. Committing \/ Moving => Head(todo).do = "commit"
  BY DEF Committing, Moving, Commit
<1>4. Ending \/ Moved => Head(todo).do = "saving"
  BY DEF Ending, Moved, Saving
<1> QED BY <1>1, <1>2, <1>3, <1>4

LEMMA CollectInv == ASSUME CloudAssumption, Inv, DoCollect PROVE Inv'
<1>1. mode = "up" /\ todo # <<>> /\ Head(todo).do = "collect"
      /\ UNCHANGED <<slot, card, mode, state, seen, faults, committed, doubt, named>>
      /\ todo' \in {<<>>, Tail(todo)}
  BY DEF DoCollect, Doing
<1>2. files' \in [Tier -> SUBSET Hash] /\ \A t \in Tier : files[t] \cap Referenced(t) \subseteq files'[t]
  BY DEF DoCollect, Inv, TypeOK
<1>3. Kept(state)' /\ \A i \in 0..1 : slot[i] \in State => Kept(slot[i])'
  BY <1>1, <1>2, CollectKeeps
<1>4. todo = <<Collect>> \/ Uploading
  BY <1>1, NextTask DEF Inv, Plan
<1>5. Plan'
  <2>1. CASE todo' = <<>>
    BY <2>1 DEF Plan
  <2>2. CASE todo = <<Collect>>
    BY <1>1, <2>2 DEF Plan
  <2>3. CASE Uploading /\ todo' = Tail(todo)
    <3>1. PICK q \in State, h \in Hash :
            /\ todo = <<Collect, Write("onboard", h), Commit(q)>> /\ Leads(q)
            /\ \A n \in Stored(q) : \/ n \in Stored(state) /\ q.blobs[n] = state.blobs[n]
                                    \/ q.blobs[n] = [hash |-> h, tier |-> "onboard"]
      BY <2>3 DEF Uploading
    <3>2. KeptWith(q, "onboard", h)'
      BY <1>1, <1>3, <3>1 DEF KeptWith, Kept, Stored
    <3>3. Leads(q)'
      BY <1>1, <3>1, LeadsStays
    <3>4. todo' = <<Write("onboard", h), Commit(q)>>
      BY <2>3, <3>1
    <3> QED BY <3>2, <3>3, <3>4 DEF Plan, Uploaded
  <2> QED BY <1>1, <1>4, <2>1, <2>2, <2>3
<1>6. todo' \in Seq(Task)
  BY <1>1, TailTask
<1>7. faults' \in 0..MaxFaults
  BY <1>1 DEF Inv, TypeOK
<1> QED BY <1>1, <1>2, <1>3, <1>5, <1>6, <1>7, FilesStepKeepsInv

LEMMA WriteInv == ASSUME CloudAssumption, Inv, DoWrite PROVE Inv'
<1> DEFINE w == Head(todo)
<1>1. mode = "up" /\ todo # <<>> /\ w.do = "write"
      /\ UNCHANGED <<slot, card, mode, state, seen, faults, committed, doubt, named>>
  BY DEF DoWrite, Doing
<1>2. \/ files' = [files EXCEPT ![w.tier] = @ \cup {w.hash}] /\ todo' = Tail(todo)
      \/ files' = files /\ todo' = <<>>
  BY DEF DoWrite
<1>3. w \in Task /\ Tail(todo) \in Seq(Task)
  BY <1>1, TailTask
<1>4. w.tier \in Tier /\ w.hash \in Hash
  BY <1>1, <1>3 DEF Task
<1>5. /\ files' \in [Tier -> SUBSET Hash] /\ \A t \in Tier : files[t] \subseteq files'[t]
      /\ todo' = Tail(todo) => w.hash \in files'[w.tier] \/ todo' = <<>>
  BY <1>2, <1>4 DEF Inv, TypeOK
<1>6. ASSUME NEW s \in State, Kept(s) PROVE Kept(s)'
  BY <1>5, <1>6 DEF Kept, Stored, State, Blob
<1>7. ASSUME NEW s \in State, KeptWith(s, w.tier, w.hash), todo' # <<>> PROVE Kept(s)'
  BY <1>2, <1>5, <1>7 DEF Kept, KeptWith, Stored, State, Blob
<1>8. \A i \in 0..1 : slot[i] \in State => Kept(slot[i])'
  BY <1>1, <1>6 DEF Inv, Intact, Kept
<1>9. Plan'
  <2>1. CASE todo' = <<>>
    BY <2>1 DEF Plan
  <2>2. CASE todo' = Tail(todo) /\ todo' # <<>>
    <3>1. CASE Uploaded
      <4>1. PICK q \in State, h \in Hash :
              todo = <<Write("onboard", h), Commit(q)>> /\ Leads(q) /\ KeptWith(q, "onboard", h)
        BY <3>1 DEF Uploaded
      <4>2. todo' = <<Commit(q)>> /\ w.tier = "onboard" /\ w.hash = h
        BY <2>2, <4>1 DEF Write
      <4>3. Leads(q)' /\ Kept(q)'
        BY <1>1, <1>7, <2>2, <4>1, <4>2, LeadsStays
      <4> QED BY <4>2, <4>3 DEF Plan, Committing
    <3>2. CASE Copying
      <4>1. PICK q \in State, t \in Tier, h \in Hash :
              todo = <<Copy(t, h), Commit(q), Commit(q), Collect>> /\ Twice(q) /\ KeptWith(q, t, h)
        BY <3>2 DEF Copying
      <4>2. todo' = <<Commit(q), Commit(q), Collect>> /\ w.tier = t /\ w.hash = h
        BY <2>2, <4>1 DEF Copy
      <4>3. Twice(q)' /\ Kept(q)'
        BY <1>1, <1>7, <2>2, <4>1, <4>2, LeadsStays DEF Twice
      <4> QED BY <4>2, <4>3 DEF Plan, Moving
    <3> QED BY <1>1, <3>1, <3>2, NextTask DEF Inv, Plan
  <2> QED BY <1>2, <2>1, <2>2
<1>10. todo' \in Seq(Task) /\ faults' \in 0..MaxFaults
  BY <1>1, <1>2, <1>3, TailTask DEF Inv, TypeOK
<1> QED BY <1>1, <1>5, <1>8, <1>9, <1>10, FilesStepKeepsInv

\* The two slots of consecutive numbers are the two slots.
LEMMA Parity ==
  ASSUME NEW r \in Nat
  PROVE  /\ r % 2 \in 0..1 /\ (r + 1) % 2 \in 0..1 /\ r % 2 # (r + 1) % 2
         /\ (r + 2) % 2 = r % 2 /\ \A i \in 0..1 : i = r % 2 \/ i = (r + 1) % 2
OBVIOUS

\* Numbering a state that leads leaves it one.
LEMMA LeadsNumbered ==
  ASSUME CloudAssumption, Inv, mode = "up", NEW q \in State, Leads(q), NEW p,
         p = [q EXCEPT !.revision = state.revision + 1]
  PROVE  /\ p \in State /\ p.revision = state.revision + 1 /\ Leads(p) /\ (Kept(p) <=> Kept(q))
         /\ p.copyrights = q.copyrights
<1>1. state.revision \in 0..MaxRevision /\ MaxRevision \in Nat /\ state.revision < MaxRevision
  BY InUse DEF Leads
<1>2. state.revision + 1 \in 0..MaxRevision
  BY <1>1
<1>3. /\ p \in State /\ p.revision = state.revision + 1 /\ p.blobs = q.blobs
      /\ p.copyrights = q.copyrights /\ p.other = q.other
  BY <1>2, Renumbered
<1>4. /\ Registered(p) = Registered(q) /\ Content(p) = Content(q) /\ (OnCard(p) <=> OnCard(q))
      /\ (Kept(p) <=> Kept(q)) /\ (Sane(p, state.revision + 1) <=> Sane(q, state.revision + 1))
  <2>1. state.revision + 1 \in Nat
    BY <1>1
  <2> QED BY <1>3, <2>1, SameData
<1>5. Leads(p)
  BY <1>3, <1>4 DEF Leads, OneCommit
<1> QED BY <1>3, <1>4, <1>5

\* A save begins: the older slot is gone, the plan goes on with the numbered state.
LEMMA SaveBeginsInv == ASSUME CloudAssumption, Inv, SaveBegins PROVE Inv'
<1>0. PICK next : next = [Head(todo).next EXCEPT !.revision = state.revision + 1]
  OBVIOUS
<1>1. /\ mode = "up" /\ todo # <<>> /\ Head(todo).do = "commit"
      /\ slot' = [slot EXCEPT ![next.revision % 2] = Torn]
      /\ todo' = [todo EXCEPT ![1] = Saving(next)] /\ doubt' = next
      /\ UNCHANGED <<files, card, mode, state, seen, faults, committed, named>>
  BY <1>0 DEF SaveBegins, Doing
<1>2. /\ state = committed /\ state \in State /\ state.revision \in 0..MaxRevision
      /\ MaxRevision \in Nat
  BY <1>1, InUse
<1>3. Committing \/ Moving
  BY <1>1, NextTask DEF Inv, Plan
<1>4. PICK q \in State : Leads(q) /\ Kept(q) /\ Head(todo).next = q
  <2>1. CASE Committing
    BY <2>1 DEF Committing, Commit
  <2>2. CASE Moving
    BY <2>2 DEF Moving, Twice, Commit
  <2> QED BY <1>3, <2>1, <2>2
<1>5. /\ next \in State /\ next.revision = state.revision + 1 /\ Leads(next) /\ Kept(next)
      /\ next.copyrights = q.copyrights
  BY <1>0, <1>1, <1>4, LeadsNumbered
<1>6. /\ next.revision % 2 \in 0..1 /\ next.revision % 2 # committed.revision % 2
      /\ Torn \notin State /\ committed.revision % 2 \in 0..1
  BY <1>2, <1>5, Parity DEF CloudAssumption
<1>7. slot \in [0..1 -> State \cup {Torn, Absent}]
  BY DEF Inv, TypeOK
<1>8. Saves(next)'
  <2>1. Leads(next)' /\ Kept(next)'
    BY <1>1, <1>5, LeadsStays DEF Kept
  <2> QED BY <1>1, <1>5, <1>6, <1>7, <2>1 DEF Saves
<1>9. Plan' /\ todo' \in Seq(Task)
  <2>1. CASE Committing
    <3>1. PICK r \in State : todo \in {<<Commit(r)>>, <<Commit(r), Collect>>}
      BY <2>1 DEF Committing
    <3>2. todo' \in {<<Saving(next)>>, <<Saving(next), Collect>>}
      BY <1>1, <3>1
    <3>3. Plan'
      BY <1>5, <1>8, <3>2 DEF Plan, Ending
    <3>4. Saving(next) \in Task /\ Collect \in Task
      BY <1>5 DEF Task, Saving, Collect
    <3> QED BY <3>2, <3>3, <3>4
  <2>2. CASE Moving
    <3>1. PICK r \in State : /\ todo = <<Commit(r), Commit(r), Collect>> /\ Twice(r)
      BY <2>2 DEF Moving
    <3>2. r = q
      BY <1>4, <3>1 DEF Commit
    <3>3. todo' = <<Saving(next), Commit(q), Collect>>
      BY <1>1, <3>1, <3>2
    <3>4. next = [q EXCEPT !.revision = next.revision] /\ next.revision < MaxRevision
          /\ q.copyrights = state.copyrights
      BY <1>0, <1>4, <1>5, <3>1, <3>2 DEF Twice
    <3>5. Plan'
      BY <1>1, <1>5, <1>8, <3>3, <3>4 DEF Plan, Moved
    <3> QED BY <1>5, <3>3, <3>5 DEF Task, Saving, Commit, Collect
  <2> QED BY <1>3, <2>1, <2>2
<1>10. TypeOK'
  BY <1>1, <1>5, <1>6, <1>7, <1>9 DEF Inv, TypeOK
<1>11. /\ slot'[committed.revision % 2] = slot[committed.revision % 2]
       /\ \A i \in 0..1 : slot'[i] \in State => slot'[i] = slot[i]
       /\ slot'[(committed.revision + 1) % 2] = Torn
  BY <1>1, <1>2, <1>5, <1>6, <1>7
<1>12. Generations'
  BY <1>1, <1>6, <1>11 DEF Inv, Generations, Second
<1>13. Intact'
  <2> SUFFICES ASSUME NEW i \in 0..1, slot'[i] \in State
               PROVE  Sane(slot[i], slot[i].revision)' /\ Kept(slot[i])'
    BY DEF Intact
  <2>1. slot'[i] = slot[i] /\ Sane(slot[i], slot[i].revision) /\ Kept(slot[i])
    BY <1>11 DEF Inv, Intact
  <2> QED BY <1>1, <2>1 DEF Kept, Sane, Stored, Registered
<1>14. Numbered' /\ Running'
  BY <1>1, <1>11 DEF Inv, Numbered, Running
<1> QED BY <1>9, <1>10, <1>12, <1>13, <1>14 DEF Inv

\* The state under way is written, and may be found by a start.
LEMMA SavingState ==
  ASSUME CloudAssumption, Inv, mode = "up", todo # <<>>, Head(todo).do = "saving"
  PROVE  /\ Ending \/ Moved
         /\ Head(todo).next \in State /\ Saves(Head(todo).next)
<1>1. Ending \/ Moved
  BY NextTask DEF Inv, Plan
<1>2. CASE Ending
  BY <1>2 DEF Ending, Saving
<1>3. CASE Moved
  BY <1>3 DEF Moved, Saving
<1> QED BY <1>1, <1>2, <1>3

\* With the state under way in its slot the store is as it should be, before
\* anyone knows that it is there.
LEMMA WrittenKeeps ==
  ASSUME CloudAssumption, Inv, mode = "up", NEW q \in State, Saves(q),
         slot' = [slot EXCEPT ![q.revision % 2] = q],
         UNCHANGED <<files, committed, doubt, named>>
  PROVE  slot' \in [0..1 -> State \cup {Torn, Absent}] /\ Generations' /\ Intact' /\ Numbered'
<1>1. /\ state = committed /\ state \in State /\ state.revision \in 0..MaxRevision
      /\ slot \in [0..1 -> State \cup {Torn, Absent}] /\ slot[state.revision % 2] = state
  BY InUse DEF Inv, TypeOK
<1>2. /\ q.revision = state.revision + 1 /\ doubt = q /\ Kept(q) /\ OneCommit(state, q)
      /\ Sane(q, q.revision)
  BY DEF Saves, Leads
<1>3. /\ slot' \in [0..1 -> State \cup {Torn, Absent}]
      /\ slot'[(state.revision + 1) % 2] = q /\ slot'[state.revision % 2] = state
      /\ \A i \in 0..1 : slot'[i] = q \/ slot'[i] = slot[i]
      /\ state.revision % 2 \in 0..1
  BY <1>1, <1>2, Parity
<1>4. Generations'
  BY <1>1, <1>2, <1>3 DEF Generations, Second, OneCommit, OnCard, Content, Stored, Registered
<1>5. Intact'
  <2> SUFFICES ASSUME NEW i \in 0..1, slot'[i] \in State
               PROVE  Sane(slot[i], slot[i].revision)' /\ Kept(slot[i])'
    BY DEF Intact
  <2>1. Sane(slot'[i], slot'[i].revision) /\ Kept(slot'[i])
    BY <1>2, <1>3 DEF Inv, Intact
  <2> QED BY <2>1 DEF Kept, Sane, Stored, Registered
<1>6. Numbered'
  <2>1. ASSUME NEW k \in Revision, named[k] # None, NEW i \in 0..1, slot'[i] \in State,
               Content(slot'[i]) = Content(committed)
        PROVE  k <= slot'[i].revision
    <3>1. k <= state.revision
      BY <1>1, <1>3, <2>1 DEF Inv, Numbered
    <3>2. CASE slot'[i] = q
      BY <1>1, <1>2, <3>1, <3>2 DEF Revision
    <3>3. CASE slot'[i] = slot[i]
      BY <2>1, <3>3 DEF Inv, Numbered
    <3> QED BY <1>3, <3>2, <3>3
  <2> QED BY <2>1 DEF Inv, Numbered, Registered, Content
<1> QED BY <1>3, <1>4, <1>5, <1>6

\* The save counts: the state under way is the committed one.
LEMMA SaveEndsInv == ASSUME CloudAssumption, Inv, SaveEnds PROVE Inv'
<1>0. PICK q : q = Head(todo).next
  OBVIOUS
<1>1. /\ mode = "up" /\ todo # <<>> /\ Head(todo).do = "saving"
      /\ slot' = [slot EXCEPT ![q.revision % 2] = q]
      /\ state' = q /\ committed' = q /\ doubt' = None /\ named' = Given(q) /\ todo' = Tail(todo)
      /\ UNCHANGED <<files, card, mode, seen, faults>>
  BY <1>0 DEF SaveEnds, Doing
<1>2. /\ state = committed /\ state \in State /\ state.revision \in 0..MaxRevision
      /\ MaxRevision \in Nat /\ Sane(state, state.revision)
      /\ slot \in [0..1 -> State \cup {Torn, Absent}] /\ slot[state.revision % 2] = state
      /\ named \in [Revision -> (Name \X Title) \cup {None}]
  BY <1>1, InUse DEF Inv, TypeOK
<1>3. q \in State /\ Saves(q) /\ (Ending \/ Moved)
  BY <1>0, <1>1, SavingState
<1>4. /\ q.revision = state.revision + 1 /\ doubt = q /\ Kept(q) /\ OneCommit(state, q)
      /\ Sane(q, q.revision) /\ q.revision \in 0..MaxRevision /\ q.revision \in Nat
  BY <1>3 DEF Saves, Leads, State
<1>5. /\ slot' \in [0..1 -> State \cup {Torn, Absent}]
      /\ slot'[q.revision % 2] = q /\ slot'[(q.revision + 1) % 2] = state
      /\ \A i \in 0..1 : slot'[i] = q \/ slot'[i] = state
      /\ state.revision % 2 \in 0..1
  <2>1. /\ q.revision % 2 = (state.revision + 1) % 2 /\ (q.revision + 1) % 2 = state.revision % 2
        /\ state.revision % 2 \in 0..1 /\ (state.revision + 1) % 2 \in 0..1
        /\ state.revision % 2 # (state.revision + 1) % 2
        /\ \A i \in 0..1 : i = state.revision % 2 \/ i = (state.revision + 1) % 2
    BY <1>2, <1>4, Parity
  <2> QED BY <1>1, <1>2, <1>3, <2>1
<1>6. \A k \in Revision : named[k] # None => k <= state.revision
  BY <1>2, <1>5 DEF Inv, Numbered
<1>7. /\ Given(q) \in [Revision -> (Name \X Title) \cup {None}]
      /\ \A n \in Registered(q) : Given(q)[q.copyrights[n].revision] = <<n, q.copyrights[n].title>>
      /\ \A k \in Revision : Given(q)[k] # None =>
           named[k] # None \/ \E n \in Registered(q) : q.copyrights[n].revision = k
  <2>1. ASSUME NEW n \in Registered(q)
        PROVE  named[q.copyrights[n].revision] \in {None, <<n, q.copyrights[n].title>>}
    <3>1. CASE q.copyrights[n] = state.copyrights[n]
      BY <1>2, <2>1, <3>1 DEF Inv, Numbered, Registered
    <3>2. CASE q.copyrights[n].revision = state.revision + 1
      <4>1. q.copyrights[n].revision \in Revision
        BY <1>3, <2>1 DEF Registered, State, Record
      <4> QED BY <1>2, <1>6, <3>2, <4>1
    <3> QED BY <1>4, <2>1, <3>1, <3>2 DEF OneCommit
  <2> QED BY <1>2, <1>3, <1>4, <2>1, GivenNumbers
<1>8. Plan' /\ todo' \in Seq(Task)
  <2>1. CASE Ending
    <3>1. todo' \in {<<>>, <<Collect>>}
      <4>1. PICK r \in State : todo \in {<<Saving(r)>>, <<Saving(r), Collect>>}
        BY <2>1 DEF Ending
      <4>2. Tail(<<Saving(r)>>) = <<>> /\ Tail(<<Saving(r), Collect>>) = <<Collect>>
        OBVIOUS
      <4> QED BY <1>1, <4>1, <4>2
    <3> QED BY <1>1, <3>1, TailTask DEF Plan
  <2>2. CASE Moved
    <3>1. PICK r, p \in State :
            /\ todo = <<Saving(r), Commit(p), Collect>> /\ Saves(r) /\ r.revision < MaxRevision
            /\ r = [p EXCEPT !.revision = r.revision] /\ p.copyrights = state.copyrights
      BY <2>2 DEF Moved
    <3>2. r = q /\ todo' = <<Commit(p), Collect>>
      BY <1>0, <1>1, <3>1 DEF Saving
    <3>3. q.blobs = p.blobs /\ q.copyrights = p.copyrights /\ q.other = p.other
      <4>1. PICK v \in 0..MaxRevision : q = [p EXCEPT !.revision = v]
        BY <1>4, <3>1, <3>2
      <4> QED BY <3>1, <4>1 DEF State
    <3>4. /\ Registered(q) = Registered(p) /\ (OnCard(q) <=> OnCard(p)) /\ (Kept(q) <=> Kept(p))
          /\ (Sane(q, q.revision) <=> Sane(p, q.revision))
      BY <1>3, <1>4, <3>1, <3>3, SameData
    <3>5. Sane(p, q.revision + 1)
      <4>1. \A n \in Registered(p) : p.copyrights[n].revision \in Nat
        BY <3>1 DEF Registered, State, Record, Revision
      <4> QED BY <1>4, <3>4, <4>1 DEF Sane
    <3>6. OneCommit(q, p)
      BY <3>3, <3>4 DEF OneCommit
    <3>7. Leads(p)'
      BY <1>1, <3>1, <3>2, <3>5, <3>6 DEF Leads, Sane, OneCommit, OnCard, Content, Stored, Registered
    <3>8. Kept(p)'
      BY <1>1, <1>4, <3>4 DEF Kept, Stored
    <3> QED BY <1>1, <3>1, <3>2, <3>7, <3>8, TailTask DEF Plan, Committing
  <2> QED BY <1>3, <2>1, <2>2
<1>9. TypeOK'
  BY <1>1, <1>3, <1>5, <1>7, <1>8 DEF Inv, TypeOK
<1>10. Generations'
  <2>1. slot'[committed'.revision % 2] = committed' /\ Second' = state
    BY <1>1, <1>5 DEF Second
  <2>2. OneCommit(Second, committed)' /\ Second'.revision + 1 = committed'.revision
    BY <1>1, <1>4, <2>1 DEF OneCommit, OnCard, Content, Stored, Registered
  <2> QED BY <2>1, <2>2 DEF Generations
<1>11. Intact'
  <2> SUFFICES ASSUME NEW i \in 0..1, slot'[i] \in State
               PROVE  Sane(slot[i], slot[i].revision)' /\ Kept(slot[i])'
    BY DEF Intact
  <2>1. Sane(slot'[i], slot'[i].revision) /\ Kept(slot'[i])
    BY <1>1, <1>2, <1>4, <1>5, InUse
  <2> QED BY <1>1, <2>1 DEF Kept, Sane, Stored, Registered
<1>12. Numbered'
  <2>1. ASSUME NEW k \in Revision, named'[k] # None, NEW i \in 0..1, Content(slot'[i]) = Content(q)
        PROVE  k <= slot'[i].revision
    <3>1. CASE named[k] # None
      <4>1. k <= state.revision /\ k \in Nat
        BY <1>6, <3>1 DEF Revision
      <4> QED BY <1>2, <1>4, <1>5, <4>1
    <3>2. CASE \E n \in Registered(q) : q.copyrights[n].revision = k
      <4>1. PICK n \in Registered(q) : q.copyrights[n].revision = k
        BY <3>2
      <4>2. slot'[i] = state => n \in Registered(state) /\ state.copyrights[n].revision = k
        BY <1>2, <1>3, <2>1, <4>1, SameContent
      <4> QED BY <1>2, <1>4, <1>5, <4>1, <4>2 DEF Sane
    <3> QED BY <1>1, <1>7, <2>1, <3>1, <3>2
  <2> QED BY <1>1, <1>7, <2>1 DEF Numbered, Registered, Content
<1>13. Running'
  BY <1>1 DEF Inv, Running
<1> QED BY <1>8, <1>9, <1>10, <1>11, <1>12, <1>13 DEF Inv

\* A request that fails leaves the store as it was, or part of its collection
\* done, or the state it was saving written.
LEMMA StepFailsInv == ASSUME CloudAssumption, Inv, StepFails PROVE Inv'
<1>1. /\ mode = "up" /\ todo # <<>> /\ todo' = <<>> /\ faults' \in 0..MaxFaults
      /\ UNCHANGED <<card, mode, state, seen, committed, doubt, named>>
  BY DEF StepFails, Fault, Inv, TypeOK, CloudAssumption
<1>2. Plan' /\ todo' \in Seq(Task)
  BY <1>1, TailTask DEF Plan
<1>3. CASE UNCHANGED <<slot, files>>
  <2>1. files' \in [Tier -> SUBSET Hash] /\ \A i \in 0..1 : slot[i] \in State => Kept(slot[i])'
    BY <1>3 DEF Inv, TypeOK, Intact, Kept
  <2> QED BY <1>1, <1>2, <1>3, <2>1, FilesStepKeepsInv
<1>4. CASE /\ Doing("collect") /\ UNCHANGED slot
           /\ \E gone \in SUBSET (files["onboard"] \ Referenced("onboard")) :
                files' = [files EXCEPT !["onboard"] = @ \ gone]
  <2>1. /\ files' \in [Tier -> SUBSET Hash]
        /\ \A t \in Tier : files[t] \cap Referenced(t) \subseteq files'[t]
    BY <1>4 DEF Inv, TypeOK, Tier
  <2>2. \A i \in 0..1 : slot[i] \in State => Kept(slot[i])'
    BY <1>1, <1>4, <2>1, CollectKeeps
  <2> QED BY <1>1, <1>2, <1>4, <2>1, <2>2, FilesStepKeepsInv
<1>5. CASE /\ Doing("saving") /\ UNCHANGED files
           /\ slot' = [slot EXCEPT ![Head(todo).next.revision % 2] = Head(todo).next]
  <2>1. Head(todo).next \in State /\ Saves(Head(todo).next)
    BY <1>1, <1>5, SavingState DEF Doing
  <2>2. slot' \in [0..1 -> State \cup {Torn, Absent}] /\ Generations' /\ Intact' /\ Numbered'
    BY <1>1, <1>5, <2>1, WrittenKeeps
  <2>3. TypeOK'
    BY <1>1, <1>2, <1>5, <2>2 DEF Inv, TypeOK
  <2>4. Running'
    BY <1>1 DEF Inv, Running
  <2> QED BY <1>2, <2>2, <2>3, <2>4 DEF Inv
<1> QED BY <1>3, <1>4, <1>5 DEF StepFails

-----------------------------------------------------------------------------
(* Power and the card. *)

\* The memory is gone; the files and what was promised of them are not.
LEMMA DownKeepsInv ==
  ASSUME CloudAssumption, Inv, mode' = "down", todo' = <<>>, state' = Empty, seen' = FALSE,
         slot' \in [0..1 -> State \cup {Torn, Absent}], faults' \in 0..MaxFaults,
         Generations', Intact', Numbered', UNCHANGED <<files, card, committed, doubt, named>>
  PROVE  Inv'
<1>1. Empty \in State
  BY DEF Empty, State, CloudAssumption
<1>2. TypeOK'
  BY <1>1, TailTask DEF Inv, TypeOK
<1>3. Plan' /\ Running'
  BY DEF Plan, Running
<1> QED BY <1>2, <1>3 DEF Inv

LEMMA SameSlots ==
  ASSUME Inv, UNCHANGED <<slot, files, committed, doubt, named>>
  PROVE  Generations' /\ Intact' /\ Numbered'
BY DEF Inv, Generations, Second, Intact, Kept, Sane, Stored, Registered, Numbered, Content, OneCommit, OnCard

LEMMA PowerCutInv == ASSUME CloudAssumption, Inv, PowerCut PROVE Inv'
<1>1. /\ mode = "up" /\ todo # <<>> /\ todo' = <<>> /\ faults' \in 0..MaxFaults
      /\ mode' = "down" /\ state' = Empty /\ seen' = FALSE
      /\ UNCHANGED <<files, card, committed, doubt, named>>
  BY DEF PowerCut, Fault, Inv, TypeOK, CloudAssumption
<1>2. CASE UNCHANGED slot
  <2>1. slot' \in [0..1 -> State \cup {Torn, Absent}]
    BY <1>2 DEF Inv, TypeOK
  <2> QED BY <1>1, <1>2, <2>1, SameSlots, DownKeepsInv
<1>3. CASE /\ Doing("saving")
           /\ slot' = [slot EXCEPT ![Head(todo).next.revision % 2] = Head(todo).next]
  <2>1. Head(todo).next \in State /\ Saves(Head(todo).next)
    BY <1>1, <1>3, SavingState DEF Doing
  <2>2. slot' \in [0..1 -> State \cup {Torn, Absent}] /\ Generations' /\ Intact' /\ Numbered'
    BY <1>1, <1>3, <2>1, WrittenKeeps
  <2> QED BY <1>1, <2>2, DownKeepsInv
<1> QED BY <1>2, <1>3 DEF PowerCut

LEMMA SwitchOffInv == ASSUME CloudAssumption, Inv, SwitchOff PROVE Inv'
<1>1. slot' \in [0..1 -> State \cup {Torn, Absent}] /\ faults' \in 0..MaxFaults /\ todo' = <<>>
      /\ mode' = "down" /\ state' = Empty /\ seen' = FALSE
      /\ UNCHANGED <<slot, files, card, committed, doubt, named>>
  BY DEF SwitchOff, Inv, TypeOK
<1> QED BY <1>1, SameSlots, DownKeepsInv

LEMMA CardInv ==
  ASSUME Inv, card' \in BOOLEAN,
         UNCHANGED <<slot, files, mode, state, seen, todo, faults, committed, doubt, named>>
  PROVE  Inv'
<1>1. TypeOK' /\ Running'
  BY DEF Inv, TypeOK, Running, Names, Stored
<1>2. Generations' /\ Intact' /\ Numbered'
  BY SameSlots
<1>3. Plan'
  <2>1. ASSUME NEW q PROVE /\ Leads(q) => Leads(q)'
                           /\ Kept(q) => Kept(q)'
                           /\ Twice(q) => Twice(q)'
                           /\ Saves(q) => Saves(q)'
                           /\ \A t, h : KeptWith(q, t, h) => KeptWith(q, t, h)'
    <3>1. Leads(q) => Leads(q)'
      BY LeadsStays
    <3>2. Kept(q) => Kept(q)'
      BY DEF Kept
    <3> QED BY <3>1, <3>2 DEF Twice, Saves, KeptWith
  <2>2. Committing => Committing'
    BY <2>1 DEF Committing
  <2>3. Ending => Ending'
    BY <2>1 DEF Ending
  <2>4. Uploading => Uploading'
    BY <2>1 DEF Uploading, Stored
  <2>5. Uploaded => Uploaded'
    BY <2>1 DEF Uploaded
  <2>6. Copying => Copying'
    BY <2>1 DEF Copying
  <2>7. Moving => Moving'
    BY <2>1 DEF Moving
  <2>8. Moved => Moved'
    BY <2>1 DEF Moved
  <2> QED BY <2>2, <2>3, <2>4, <2>5, <2>6, <2>7, <2>8 DEF Inv, Plan
<1> QED BY <1>1, <1>2, <1>3 DEF Inv

\* What a start finds: the committed state, or the second slot.
LEMMA Found ==
  ASSUME CloudAssumption, Inv
  PROVE  /\ committed \in State /\ committed.revision \in Nat
         /\ slot[committed.revision % 2] = committed
         /\ committed.revision % 2 \in 0..1 /\ (committed.revision + 1) % 2 \in 0..1
         /\ \A i \in 0..1 : slot[i] = committed \/ slot[i] = Second
         /\ Sane(committed, committed.revision)
         /\ Valid(committed) <=> (OnCard(committed) => card)
         /\ Second \in State =>
              /\ Sane(Second, Second.revision) /\ Second.revision \in Nat
              /\ Valid(Second) <=> (OnCard(Second) => card)
<1>1. committed \in State /\ committed.revision \in Nat
  BY DEF Inv, TypeOK, State
<1>2. /\ committed.revision % 2 \in 0..1 /\ (committed.revision + 1) % 2 \in 0..1
      /\ \A i \in 0..1 : i = committed.revision % 2 \/ i = (committed.revision + 1) % 2
  BY <1>1, Parity
<1>3. slot[committed.revision % 2] = committed
  BY DEF Inv, Generations
<1>4. ASSUME NEW i \in 0..1, slot[i] \in State
      PROVE  Sane(slot[i], slot[i].revision) /\ (Valid(slot[i]) <=> (OnCard(slot[i]) => card))
  BY <1>4, LoadTakes DEF Inv, Intact
<1>5. Second \in State => Second.revision \in Nat
  BY DEF State
<1> QED BY <1>1, <1>2, <1>3, <1>4, <1>5 DEF Second

\* The generation that a start takes: the committed one, the one in doubt, or
\* one of the same content.
LEMMA Chosen ==
  ASSUME CloudAssumption, Inv, Boot, mode' = "up"
  PROVE  LET s == state' IN
         \/ s = committed /\ (Second \in State /\ Second.revision = s.revision + 1 => Content(Second) = Content(s))
         \/ /\ s = Second /\ s \in State /\ OneCommit(s, committed)
            /\ s.revision + 1 = committed.revision /\ Content(s) = Content(committed)
         \/ /\ s = Second /\ s \in State /\ OneCommit(committed, s)
            /\ s.revision = committed.revision + 1 /\ (s = doubt \/ Content(s) = Content(committed))
<1> DEFINE valid == {slot[i] : i \in {j \in 0..1 : Valid(slot[j])}}
<1>1. valid # {} /\ state' = Latest(valid)
  <2>1. slot[committed.revision % 2] # Absent /\ committed.revision % 2 \in 0..1
    BY Found DEF CloudAssumption
  <2> QED BY <2>1 DEF Boot
<1>2. \A r \in valid : r \in {committed, Second} /\ Valid(r) /\ r \in State
  BY Found DEF Valid
<1>3. /\ Valid(committed) => committed \in valid
      /\ Valid(Second) => Second \in valid
  BY Found DEF Second
<1> HIDE DEF valid
<1>4. \E s \in valid : \A r \in valid : r.revision <= s.revision
  <2>1. \A r \in valid : r.revision \in Nat
    BY <1>2 DEF State
  <2>2. PICK s \in valid : TRUE
    BY <1>1
  <2> QED BY <1>2, <2>1, <2>2
<1>5. state' \in valid /\ \A r \in valid : r.revision <= state'.revision
  BY <1>1, <1>4 DEF Latest
<1>6. /\ Second \in State =>
           \/ Second.revision + 1 = committed.revision /\ OneCommit(Second, committed)
           \/ /\ Second.revision = committed.revision + 1 /\ OneCommit(committed, Second)
              /\ Second = doubt \/ Content(Second) = Content(committed)
  BY DEF Inv, Generations
<1>7. CASE state' = committed
  <2>1. ASSUME Second \in State, Second.revision = committed.revision + 1
        PROVE  Content(Second) = Content(committed)
    <3>1. ~Valid(Second)
      BY <1>3, <1>5, <1>7, <2>1, Found
    <3>2. OnCard(Second) /\ ~OnCard(committed)
      BY <1>2, <1>5, <1>7, <2>1, <3>1, Found
    <3> QED BY <1>6, <2>1, <3>2, Found DEF OneCommit
  <2> QED BY <1>7, <2>1
<1>8. CASE state' = Second /\ state' # committed
  <2>1. Second \in State /\ Valid(Second)
    BY <1>2, <1>5, <1>8
  <2>2. CASE Second.revision + 1 = committed.revision /\ OneCommit(Second, committed)
    <3>1. ~Valid(committed)
      <4>1. Second.revision \in Nat /\ committed.revision \in Nat
        BY <2>1, Found
      <4>2. ~(committed.revision <= Second.revision)
        BY <2>2, <4>1
      <4> QED BY <1>3, <1>5, <1>8, <4>2
    <3>2. OnCard(committed) /\ ~card
      BY <3>1, Found
    <3>3. OnCard(Second) => card
      BY <2>1, Found
    <3> QED BY <1>8, <2>1, <2>2, <3>2, <3>3 DEF OneCommit
  <2> QED BY <1>6, <1>8, <2>1, <2>2
<1> QED BY <1>2, <1>5, <1>7, <1>8

LEMMA BootInv == ASSUME CloudAssumption, Inv, Boot PROVE Inv'
<1>1. /\ mode = "down" /\ todo = <<>> /\ seen' = card
      /\ UNCHANGED <<slot, files, card, todo, faults>>
  BY DEF Boot, Inv, Running
<1>2. CASE mode' = "refused"
  <2>1. UNCHANGED <<state, committed, doubt, named>>
        /\ {slot[i] : i \in {j \in 0..1 : Valid(slot[j])}} = {}
    BY <1>2 DEF Boot
  <2>2. TypeOK'
    BY <1>1, <1>2, <2>1 DEF Inv, TypeOK
  <2>3. Plan'
    BY <1>1 DEF Plan
  <2>4. ~Valid(committed)
    BY <2>1, Found
  <2>5. OnCard(committed) /\ ~card
    BY <2>4, Found
  <2>6. Names(committed, "card") # {}
    BY <2>5, CardNames
  <2>7. Running'
    <3>1. ~seen' /\ state' = Empty /\ todo' = <<>>
      BY <1>1, <2>1, <2>5 DEF Inv, Running
    <3>2. PICK i \in 0..1 : slot[i] \in State /\ Names(slot[i], "card") # {}
      BY <2>6, Found
    <3>3. slot'[i] \in State /\ Names(slot[i], "card")' # {}
      BY <1>1, <3>2 DEF Names, Stored
    <3> QED BY <3>1, <3>3 DEF Running
  <2> QED BY <1>1, <2>1, <2>2, <2>3, <2>7, SameSlots DEF Inv
<1>3. CASE mode' = "up"
  <2>0. PICK s : s = state'
    OBVIOUS
  <2>1. committed' = s /\ doubt' = None /\ named' = Given(s)
    BY <1>3, <2>0 DEF Boot
  <2>2. \/ s = committed /\ (Second \in State /\ Second.revision = s.revision + 1 => Content(Second) = Content(s))
        \/ /\ s = Second /\ s \in State /\ OneCommit(s, committed)
           /\ s.revision + 1 = committed.revision /\ Content(s) = Content(committed)
        \/ /\ s = Second /\ s \in State /\ OneCommit(committed, s)
           /\ s.revision = committed.revision + 1 /\ (s = doubt \/ Content(s) = Content(committed))
    BY <1>3, <2>0, Chosen
  <2>3. /\ s \in State /\ s.revision \in 0..MaxRevision /\ s.revision \in Nat /\ Sane(s, s.revision)
        /\ named \in [Revision -> (Name \X Title) \cup {None}]
    <3>1. s \in State /\ Sane(s, s.revision)
      <4>1. committed \in State /\ Sane(committed, committed.revision)
            /\ (Second \in State => Sane(Second, Second.revision))
        BY Found
      <4> QED BY <2>2, <4>1
    <3> QED BY <3>1 DEF State, Inv, TypeOK
  <2>4. \A k \in Revision : named[k] # None => k <= committed.revision
    BY Found DEF Inv, Numbered
  <2>5. /\ Given(s) \in [Revision -> (Name \X Title) \cup {None}]
        /\ \A n \in Registered(s) : Given(s)[s.copyrights[n].revision] = <<n, s.copyrights[n].title>>
        /\ \A k \in Revision : Given(s)[k] # None =>
             named[k] # None \/ \E n \in Registered(s) : s.copyrights[n].revision = k
    <3>1. ASSUME NEW n \in Registered(s)
          PROVE  named[s.copyrights[n].revision] \in {None, <<n, s.copyrights[n].title>>}
      <4>1. s.copyrights[n].revision \in Revision
        BY <2>3, <3>1 DEF Registered, State, Record
      <4>2. CASE s.copyrights[n] = committed.copyrights[n]
        BY <3>1, <4>2 DEF Inv, Numbered, Registered
      <4>3. CASE s.copyrights[n].revision = committed.revision + 1
        BY <2>4, <4>1, <4>3, Found
      <4>4. s.copyrights = committed.copyrights \/ OneCommit(committed, s)
        BY <2>2, <2>3, Found, SameContent
      <4> QED BY <3>1, <4>2, <4>3, <4>4 DEF OneCommit
    <3> QED BY <2>3, <3>1, GivenNumbers
  <2>6. TypeOK'
    BY <1>1, <1>3, <2>0, <2>1, <2>3, <2>5 DEF Inv, TypeOK
  <2>7. Plan' /\ Running'
    BY <1>1, <1>3 DEF Plan, Running
  <2>8. Generations'
    <3>1. CASE s = committed
      <4>1. Second' = Second
        BY <1>1, <2>1, <3>1 DEF Second
      <4>2. slot'[committed'.revision % 2] = committed'
        BY <1>1, <2>1, <3>1, Found
      <4>3. Second \in State =>
               \/ Second.revision + 1 = s.revision /\ OneCommit(Second, s)
               \/ /\ Second.revision = s.revision + 1 /\ OneCommit(s, Second)
                  /\ Content(Second) = Content(s)
        BY <2>2, <3>1, Found DEF Inv, Generations
      <4> QED BY <2>1, <4>1, <4>2, <4>3 DEF Generations, OneCommit, OnCard, Content, Stored, Registered
    <3>2. CASE s = Second /\ s.revision + 1 = committed.revision /\ s # committed
      <4>1. Second' = committed /\ slot'[committed'.revision % 2] = committed'
        <5>1. (committed.revision + 1) % 2 = s.revision % 2
          BY <2>3, <3>2, Parity
        <5> QED BY <1>1, <2>1, <3>2, <5>1, Found DEF Second
      <4>2. OneCommit(s, committed) /\ Content(s) = Content(committed)
        BY <2>2, <2>3, <3>2, Found
      <4> QED BY <2>1, <3>2, <4>1, <4>2 DEF Generations, OneCommit, OnCard, Content, Stored, Registered
    <3>3. CASE s = Second /\ s.revision = committed.revision + 1 /\ s # committed
      <4>1. Second' = committed /\ slot'[committed'.revision % 2] = committed'
        <5>1. (s.revision + 1) % 2 = committed.revision % 2
          BY <3>3, Parity, Found
        <5> QED BY <1>1, <2>1, <3>3, <5>1, Found DEF Second
      <4>2. OneCommit(committed, s)
        BY <2>2, <2>3, <3>3, Found
      <4> QED BY <2>1, <3>3, <4>1, <4>2 DEF Generations, OneCommit, OnCard, Content, Stored, Registered
    <3> QED BY <2>2, <3>1, <3>2, <3>3
  <2>9. Intact'
    BY <1>1 DEF Inv, Intact, Kept, Sane, Stored, Registered
  <2>10. Numbered'
    <3>1. ASSUME NEW k \in Revision, Given(s)[k] # None, NEW i \in 0..1, slot[i] \in State,
                 Content(slot[i]) = Content(s)
          PROVE  k <= slot[i].revision
      <4>1. CASE named[k] # None
        <5>1. CASE Content(s) = Content(committed)
          BY <3>1, <4>1, <5>1 DEF Inv, Numbered
        <5>2. CASE Content(s) # Content(committed)
          <6>1. s = Second /\ s.revision = committed.revision + 1 /\ slot[i] = s
            BY <2>2, <3>1, <5>2, Found
          <6> QED BY <2>3, <2>4, <4>1, <6>1, Found DEF Revision
        <5> QED BY <5>1, <5>2
      <4>2. CASE \E n \in Registered(s) : s.copyrights[n].revision = k
        <5>1. PICK n \in Registered(s) : s.copyrights[n].revision = k
          BY <4>2
        <5>2. n \in Registered(slot[i]) /\ slot[i].copyrights[n].revision = k
          BY <2>3, <3>1, <5>1, SameContent
        <5> QED BY <3>1, <5>2 DEF Inv, Intact, Sane
      <4> QED BY <2>5, <3>1, <4>1, <4>2
    <3> QED BY <1>1, <2>1, <2>5, <3>1 DEF Numbered, Registered, Content
  <2> QED BY <2>6, <2>7, <2>8, <2>9, <2>10 DEF Inv
<1> QED BY <1>2, <1>3 DEF Boot

LEMMA NextInv == ASSUME CloudAssumption, Inv, [Next]_vars PROVE Inv'
<1>1. CASE Files
  BY <1>1, PutInv, DeleteInv, MigrateInv DEF Files
<1>2. CASE Registry
  BY <1>2, RegisterInv, UnregisterInv DEF Registry
<1>3. CASE Step
  BY <1>3, CollectInv, WriteInv, SaveBeginsInv, SaveEndsInv, StepFailsInv DEF Step
<1>4. CASE Power
  <2>1. CASE PullCard \/ InsertCard
    BY <2>1, CardInv DEF PullCard, InsertCard
  <2> QED BY <1>4, <2>1, PowerCutInv, BootInv, SwitchOffInv DEF Power
<1>5. CASE UNCHANGED vars
  BY <1>5, CardInv DEF vars, Inv, TypeOK
<1> QED BY <1>1, <1>2, <1>3, <1>4, <1>5, ChangeInv DEF Next

\* Inv is an invariant: every change, commit, failure, cut and start keeps it.
THEOREM InvHolds == ASSUME CloudAssumption, ~Fresh PROVE Spec => []Inv
<1>1. Init => Inv
  BY InitInv
<1>2. Inv /\ [Next]_vars => Inv'
  BY NextInv
<1> QED BY <1>1, <1>2, PTL DEF Spec

-----------------------------------------------------------------------------
(* What it gives. *)

\* Every variable keeps its type.
THEOREM TypeCorrect == ASSUME CloudAssumption, ~Fresh PROVE Spec => []TypeOK
<1>1. Inv => TypeOK
  BY DEF Inv
<1> QED BY <1>1, InvHolds, PTL

\* The bytes of every file that the state or a generation names are in place
\* (store.rs, collect and migrate).
THEOREM NoFileLost == ASSUME CloudAssumption, ~Fresh PROVE Spec => []FilesKept
<1>1. ASSUME Inv PROVE FilesKept
  <2>1. ASSUME NEW s, s = state \/ \E i \in 0..1 : slot[i] \in State /\ s = slot[i]
        PROVE  Kept(s)
    <3>1. CASE mode # "up" /\ s = state
      BY <1>1, <3>1 DEF Inv, Running, Empty, Kept, Stored
    <3>2. CASE mode = "up" /\ s = state
      BY <1>1, <3>2, InUse
    <3>3. CASE \E i \in 0..1 : slot[i] \in State /\ s = slot[i]
      BY <1>1, <3>3 DEF Inv, Intact
    <3> QED BY <2>1, <3>1, <3>2, <3>3
  <2> QED BY <2>1 DEF FilesKept, Kept
<1>2. Inv => FilesKept
  BY <1>1
<1> QED BY <1>2, InvHolds, PTL

\* A start refuses the store only when files lie on a card that is not there
\* (store.rs, load).
THEOREM AlwaysOpens == ASSUME CloudAssumption, ~Fresh PROVE Spec => []NeverRefused
<1>1. Inv => NeverRefused
  BY DEF Inv, Running, NeverRefused
<1> QED BY <1>1, InvHolds, PTL

\* A copyright revision is one record (http.rs, put_copyright).
THEOREM OneRecordPerRevision == ASSUME CloudAssumption, ~Fresh PROVE Spec => []RevisionNamesOne
<1>1. Inv => RevisionNamesOne
  BY InUse DEF Inv, Numbered, RevisionNamesOne
<1> QED BY <1>1, InvHolds, PTL

-----------------------------------------------------------------------------
(* The refinement: the two slots are one atomic state. *)

LEMMA InitPromised == ASSUME CloudAssumption, ~Fresh, Init PROVE Promise!Init
<1>1. Inv
  BY InitInv
<1>2. Content(committed) \in Contents
  BY <1>1, ContentOf DEF Inv, TypeOK
<1>3. doubt = None /\ (mode = "up") \in BOOLEAN
  BY DEF Init
<1> QED BY <1>2, <1>3 DEF Promise!Init

\* A start is a recovery, or refuses.
LEMMA BootPromised ==
  ASSUME CloudAssumption, Inv, Boot
  PROVE  Promise!Recover \/ UNCHANGED <<committed, doubt, mode = "up">>
<1>1. CASE mode' = "refused"
  BY <1>1 DEF Boot
<1>2. CASE mode' = "up"
  <2>1. mode = "down" /\ committed' = state' /\ doubt' = None
    BY <1>2 DEF Boot
  <2>2. Content(committed') = Content(committed) \/ (committed' = doubt /\ doubt \in State)
    BY <1>2, <2>1, Chosen
  <2>3. Content(committed) # None /\ (doubt \in State => doubt # None /\ Content(doubt) # None)
    BY ContentOf DEF Inv, TypeOK
  <2>4. Content(committed)' = Content(committed')
    BY DEF Content
  <2>5. Content(committed') \in
          {Content(committed), IF doubt = None THEN None ELSE Content(doubt)} \ {None}
    BY <2>2, <2>3
  <2>6. (IF doubt = None THEN None ELSE Content(doubt))' = None
    BY <2>1
  <2> QED BY <1>2, <2>1, <2>4, <2>5, <2>6 DEF Promise!Recover
<1> QED BY <1>1, <1>2 DEF Boot

LEMMA NextPromised ==
  ASSUME CloudAssumption, Inv, Inv', [Next]_vars
  PROVE  [Promise!Next]_<<Content(committed), IF doubt = None THEN None ELSE Content(doubt), mode = "up">>
<1>1. CASE SaveBegins
  <2>1. doubt' \in State /\ committed' = committed /\ mode = "up" /\ mode' = "up"
    <3>1. doubt' # None
      <4>1. Committing \/ Moving
        BY <1>1, NextTask DEF SaveBegins, Doing, Inv, Plan
      <4>2. Head(todo).next \in State /\ Leads(Head(todo).next)
        BY <4>1 DEF Committing, Moving, Twice, Commit
      <4>3. mode = "up" /\ doubt' = [Head(todo).next EXCEPT !.revision = state.revision + 1]
        BY <1>1 DEF SaveBegins, Doing
      <4>4. doubt' \in State
        BY <4>2, <4>3, LeadsNumbered
      <4> QED BY <4>4 DEF CloudAssumption
    <3> QED BY <1>1, <3>1 DEF SaveBegins, Doing, Inv, TypeOK
  <2>2. doubt' # None /\ Content(doubt') \in Contents
    BY <2>1, ContentOf
  <2>3. Content(doubt)' = Content(doubt') /\ Content(committed)' = Content(committed)
    BY <2>1 DEF Content
  <2> QED BY <2>1, <2>2, <2>3 DEF Promise!Next, Promise!Begin
<1>2. CASE SaveEnds
  <2>1. /\ mode = "up" /\ mode' = mode /\ committed' = Head(todo).next /\ doubt' = None
        /\ todo # <<>> /\ Head(todo).do = "saving"
    BY <1>2 DEF SaveEnds, Doing
  <2>2. doubt = Head(todo).next /\ doubt \in State
    BY <2>1, SavingState DEF Saves
  <2>3. doubt # None /\ Content(doubt) \in Contents
    BY <2>2, ContentOf
  <2>4. Content(committed)' = Content(doubt)
    BY <2>1, <2>2 DEF Content
  <2> QED BY <2>1, <2>3, <2>4 DEF Promise!Next, Promise!Commit
<1>3. CASE PowerCut \/ SwitchOff
  <2>1. mode' = "down" /\ UNCHANGED <<committed, doubt>>
    BY <1>3 DEF PowerCut, SwitchOff
  <2>2. Content(committed)' = Content(committed) /\ Content(doubt)' = Content(doubt)
    BY <2>1 DEF Content
  <2> QED BY <2>1, <2>2 DEF Promise!Next, Promise!Crash
<1>4. CASE Boot
  <2>1. CASE UNCHANGED <<committed, doubt, mode = "up">>
    BY <2>1 DEF Content
  <2> QED BY <1>4, <2>1, BootPromised DEF Promise!Next
<1>5. CASE UNCHANGED <<committed, doubt, mode>>
  BY <1>5 DEF Content
<1>6. Files \/ Registry \/ Change => UNCHANGED <<committed, doubt, mode>>
  BY DEF Files, Registry, Change, Put, Delete, Migrate, Register, Unregister, Request
<1>7. DoCollect \/ DoWrite \/ StepFails \/ PullCard \/ InsertCard => UNCHANGED <<committed, doubt, mode>>
  BY DEF DoCollect, DoWrite, StepFails, PullCard, InsertCard
<1> QED BY <1>1, <1>2, <1>3, <1>4, <1>5, <1>6, <1>7 DEF Next, Step, Power, vars

\* The two slots implement one atomic state (AtomicState), whatever is cut, fails
\* or is left out between a commit and a start.
THEOREM Atomic == ASSUME CloudAssumption, ~Fresh PROVE Spec => KeepsState
<1>1. Init => Promise!Init
  BY InitPromised
<1>2. Inv /\ Inv' /\ [Next]_vars =>
        [Promise!Next]_<<Content(committed), IF doubt = None THEN None ELSE Content(doubt), mode = "up">>
  BY NextPromised
<1>3. Spec => Promise!Spec
  BY <1>1, <1>2, InvHolds, PTL DEF Spec, Promise!Spec
<1> QED BY <1>3 DEF KeepsState

\* The four invariants and the refinement: what a run checks on a small cloud, for
\* every size of one.
THEOREM CloudKept == ASSUME CloudAssumption, ~Fresh PROVE Spec => StateHolds
<1>1. Spec => [](TypeOK /\ FilesKept /\ NeverRefused /\ RevisionNamesOne)
  BY TypeCorrect, NoFileLost, AlwaysOpens, OneRecordPerRevision, PTL
<1> QED BY <1>1, Atomic DEF StateHolds
=============================================================================
