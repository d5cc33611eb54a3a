------------------------- MODULE ProvisioningProofs -------------------------
(***************************************************************************)
(* Proofs about Provisioning, for any exports, I/O errors and power cuts:  *)
(* however setup, restore and boot are interrupted, the board starts       *)
(* again, with a whole household or with an empty store.  No client        *)
(* registers before setup, power stays on during a restore, and undoing    *)
(* one meets no error of its own: without these it does not hold.          *)
(***************************************************************************)
EXTENDS Provisioning, TLAPS

Orderly == SetupAssumption /\ ~EarlyApps /\ ~RestoreCuts /\ ~UndoFails

-----------------------------------------------------------------------------
(* The inductive invariant. *)

SetsOnly(todo)   == \A i \in DOMAIN todo : todo[i].set
ErasesOnly(todo) == \A i \in DOMAIN todo : ~todo[i].set
Recs(todo)       == {todo[i].rec : i \in DOMAIN todo}

Restoring == op.kind \in {"clear", "restore", "undo"}

\* An operation belongs to its mode, and the store is never found corrupt.
Modes ==
  /\ op = Do(op.kind, op.todo)
  /\ op.kind = "idle" => op.todo = <<>>
  /\ op.kind \in {"write", "clear", "restore", "undo"} => mode = "up"
  /\ op.kind = "rollback" <=> mode = "booting"
  /\ mode # "refused"

\* A service that is up has in memory what it has stored.
Known == mode = "up" /\ op.kind \in {"idle", "write"} => ram = disk

\* Outside a restore, a boot would accept the store: a household with all that
\* was acknowledged, or no more than an interrupted setup leaves.
Sound == ~Restoring =>
  /\ ~Refuses(disk)
  /\ IF "schema" \in disk THEN promised \cup archive \subseteq disk ELSE promised = {}
  /\ mode = "up" /\ op.kind = "idle" /\ "schema" \notin disk => disk = {}

\* A setup writes the owner before the schema record, and the schema record in the end.
Setting == op.kind = "write" =>
  /\ SetsOnly(op.todo)
  /\ "schema" \in disk \cup Recs(op.todo)
  /\ "schema" \notin disk =>
       archive = {} /\ Recs(op.todo) \subseteq {"schema", "server", "owner", "key"}
  /\ \A i \in DOMAIN op.todo : op.todo[i].rec = "schema" =>
       "owner" \in disk \/ \E j \in 1..i - 1 : op.todo[j].rec = "owner"

\* A restore starts on an empty store and brings the records of its export; what
\* its undo has left to erase is all there is.
Replacing ==
  /\ Restoring => ram = {} /\ promised = {}
  /\ op.kind = "clear" => disk = {} /\ op.todo = <<>>
  /\ op.kind = "restore" => SetsOnly(op.todo) /\ disk \cup Recs(op.todo) = archive
  /\ op.kind = "undo" => ErasesOnly(op.todo) /\ disk \subseteq Recs(op.todo)

\* So with the rollback of an interrupted setup.
Clearing == op.kind = "rollback" =>
  "schema" \notin disk /\ ErasesOnly(op.todo) /\ disk \subseteq Recs(op.todo)

Inv == TypeOK /\ Modes /\ Known /\ Sound /\ Setting /\ Replacing /\ Clearing

-----------------------------------------------------------------------------
(* Lists of records and of writes. *)

Change == [rec : Record, set : BOOLEAN]

\* The records of a list are those of its two parts.
LEMMA PartsOf ==
  ASSUME NEW q \in Seq(Record), NEW p \in Seq(Record)
  PROVE  /\ q \o p \in Seq(Record)
         /\ {(q \o p)[i] : i \in DOMAIN (q \o p)}
              = {q[i] : i \in DOMAIN q} \cup {p[i] : i \in DOMAIN p}
<1> DEFINE b == q \o p
<1>1. b \in Seq(Record) /\ Len(b) = Len(q) + Len(p) /\ DOMAIN b = 1..Len(b)
      /\ DOMAIN q = 1..Len(q) /\ DOMAIN p = 1..Len(p) /\ Len(q) \in Nat /\ Len(p) \in Nat
  OBVIOUS
<1>2. ASSUME NEW i \in DOMAIN b
      PROVE  b[i] \in {q[k] : k \in DOMAIN q} \cup {p[k] : k \in DOMAIN p}
  <2>1. CASE i <= Len(q)
    BY <1>1, <2>1
  <2>2. CASE ~(i <= Len(q))
    <3>1. i - Len(q) \in DOMAIN p /\ b[i] = p[i - Len(q)]
      BY <1>1, <2>2
    <3> QED BY <3>1
  <2> QED BY <2>1, <2>2
<1>3. ASSUME NEW i \in DOMAIN q PROVE i \in DOMAIN b /\ b[i] = q[i]
  BY <1>1
<1>4. ASSUME NEW i \in DOMAIN p PROVE i + Len(q) \in DOMAIN b /\ b[i + Len(q)] = p[i]
  BY <1>1
<1>5. \A x \in {q[k] : k \in DOMAIN q} : x \in {b[i] : i \in DOMAIN b}
  BY <1>3
<1>6. \A x \in {p[k] : k \in DOMAIN p} : x \in {b[i] : i \in DOMAIN b}
  BY <1>4
<1> QED BY <1>1, <1>2, <1>5, <1>6

\* A record that may be there is listed if it is.
LEMMA FoundIs ==
  ASSUME NEW r \in Record, NEW S
  PROVE  /\ Found(r, S) \in Seq(Record)
         /\ {Found(r, S)[i] : i \in DOMAIN Found(r, S)} = S \cap {r}
<1>1. CASE r \in S
  BY <1>1 DEF Found
<1>2. CASE r \notin S
  BY <1>2 DEF Found
<1> QED BY <1>1, <1>2

\* The list of a set of records holds just these.
LEMMA InOrderIs ==
  ASSUME NEW S \in SUBSET Record
  PROVE  /\ InOrder(S) \in Seq(Record)
         /\ {InOrder(S)[i] : i \in DOMAIN InOrder(S)} = S
<1> DEFINE Of(q) == {q[i] : i \in DOMAIN q}
           q2 == Found("schema", S) \o Found("server", S)
           q3 == q2 \o Found("owner", S)
           q4 == q3 \o Found("member", S)
           q5 == q4 \o Found("app", S)
           q6 == q5 \o Found("status", S)
           q7 == q6 \o Found("key", S)
<1>1. ASSUME NEW r \in Record
      PROVE  Found(r, S) \in Seq(Record) /\ Of(Found(r, S)) = S \cap {r}
  BY FoundIs
<1>2. ASSUME NEW q \in Seq(Record), NEW r \in Record, NEW T, Of(q) = S \cap T
      PROVE  q \o Found(r, S) \in Seq(Record) /\ Of(q \o Found(r, S)) = S \cap (T \cup {r})
  <2>1. Found(r, S) \in Seq(Record) /\ Of(Found(r, S)) = S \cap {r}
    BY <1>1
  <2>2. q \o Found(r, S) \in Seq(Record)
        /\ Of(q \o Found(r, S)) = Of(q) \cup Of(Found(r, S))
    BY <2>1, PartsOf
  <2> QED BY <1>2, <2>1, <2>2
<1> HIDE DEF Of, q2, q3, q4, q5, q6, q7
<1>3. /\ "schema" \in Record /\ "server" \in Record /\ "owner" \in Record /\ "member" \in Record
      /\ "app" \in Record /\ "status" \in Record /\ "key" \in Record
  BY DEF Record, Cfg, Accounts, Others
<1>4. q2 \in Seq(Record) /\ Of(q2) = S \cap ({"schema"} \cup {"server"})
  <2>1. Found("schema", S) \in Seq(Record) /\ Of(Found("schema", S)) = S \cap {"schema"}
    BY <1>1, <1>3
  <2> QED BY <1>2, <1>3, <2>1 DEF q2
<1>5. q3 \in Seq(Record) /\ Of(q3) = S \cap ({"schema", "server"} \cup {"owner"})
  BY <1>2, <1>3, <1>4 DEF q3
<1>6. q4 \in Seq(Record) /\ Of(q4) = S \cap ({"schema", "server", "owner"} \cup {"member"})
  BY <1>2, <1>3, <1>5 DEF q4
<1>7. q5 \in Seq(Record)
      /\ Of(q5) = S \cap ({"schema", "server", "owner", "member"} \cup {"app"})
  BY <1>2, <1>3, <1>6 DEF q5
<1>8. q6 \in Seq(Record)
      /\ Of(q6) = S \cap ({"schema", "server", "owner", "member", "app"} \cup {"status"})
  BY <1>2, <1>3, <1>7 DEF q6
<1>9. q7 \in Seq(Record)
      /\ Of(q7) = S \cap ({"schema", "server", "owner", "member", "app", "status"} \cup {"key"})
  BY <1>2, <1>3, <1>8 DEF q7
<1>10. S \cap ({"schema", "server", "owner", "member", "app", "status"} \cup {"key"}) = S
  BY DEF Record, Cfg, Accounts, Others
<1>11. InOrder(S) = q7
  BY DEF InOrder, q2, q3, q4, q5, q6, q7
<1> QED BY <1>9, <1>10, <1>11 DEF Of

\* Writing or erasing a list of records.
LEMMA SetsIs ==
  ASSUME NEW q \in Seq(Record)
  PROVE  /\ Sets(q) \in Seq(Change) /\ SetsOnly(Sets(q)) /\ DOMAIN Sets(q) = DOMAIN q
         /\ Recs(Sets(q)) = {q[i] : i \in DOMAIN q}
         /\ \A i \in DOMAIN q : Sets(q)[i].rec = q[i]
<1>1. DOMAIN q = 1..Len(q) /\ Len(q) \in Nat /\ \A i \in DOMAIN q : q[i] \in Record
  OBVIOUS
<1>2. \A i \in DOMAIN q : Sets(q)[i] = [rec |-> q[i], set |-> TRUE]
  BY DEF Sets
<1>3. DOMAIN Sets(q) = 1..Len(q)
  BY <1>1 DEF Sets
<1>4. Sets(q) \in Seq(Change)
  BY <1>1 DEF Sets, Change
<1> QED BY <1>1, <1>2, <1>3, <1>4 DEF SetsOnly, Recs

LEMMA ErasesIs ==
  ASSUME NEW q \in Seq(Record)
  PROVE  /\ Erases(q) \in Seq(Change) /\ ErasesOnly(Erases(q))
         /\ Recs(Erases(q)) = {q[i] : i \in DOMAIN q}
<1>1. DOMAIN q = 1..Len(q) /\ Len(q) \in Nat /\ \A i \in DOMAIN q : q[i] \in Record
  OBVIOUS
<1>2. \A i \in DOMAIN q : Erases(q)[i] = [rec |-> q[i], set |-> FALSE]
  BY DEF Erases
<1>3. DOMAIN Erases(q) = 1..Len(q)
  BY <1>1 DEF Erases
<1>4. Erases(q) \in Seq(Change)
  BY <1>1 DEF Erases, Change
<1> QED BY <1>1, <1>2, <1>3, <1>4 DEF ErasesOnly, Recs

\* An undo or a rollback has the whole store to erase.
LEMMA ErasesAll ==
  ASSUME NEW S \in SUBSET Record
  PROVE  /\ Erases(InOrder(S)) \in Seq(Change) /\ ErasesOnly(Erases(InOrder(S)))
         /\ Recs(Erases(InOrder(S))) = S
BY InOrderIs, ErasesIs

\* What is left of a list of writes after its first.
LEMMA RestOf ==
  ASSUME NEW t \in Seq(Change), t # <<>>
  PROVE  /\ Head(t) = t[1] /\ Head(t) \in Change /\ 1 \in DOMAIN t
         /\ Tail(t) \in Seq(Change)
         /\ \A i \in DOMAIN Tail(t) : i + 1 \in DOMAIN t /\ Tail(t)[i] = t[i + 1]
         /\ \A i \in DOMAIN t : i # 1 => i - 1 \in DOMAIN Tail(t)
         /\ Recs(t) = Recs(Tail(t)) \cup {Head(t).rec}
<1>1. /\ Len(t) \in Nat /\ Len(t) > 0 /\ DOMAIN t = 1..Len(t)
      /\ Tail(t) \in Seq(Change) /\ DOMAIN Tail(t) = 1..Len(t) - 1
      /\ Head(t) = t[1] /\ t[1] \in Change
  OBVIOUS
<1>2. \A i \in 1..Len(t) - 1 : Tail(t)[i] = t[i + 1]
  OBVIOUS
<1>3. \A i \in DOMAIN t : i = 1 \/ (i - 1 \in 1..Len(t) - 1 /\ Tail(t)[i - 1] = t[i])
  BY <1>1, <1>2
<1>4. \A i \in DOMAIN Tail(t) : i + 1 \in DOMAIN t
  BY <1>1
<1>5. Recs(t) \subseteq Recs(Tail(t)) \cup {Head(t).rec}
  BY <1>1, <1>3 DEF Recs
<1>6. Recs(Tail(t)) \cup {Head(t).rec} \subseteq Recs(t)
  BY <1>1, <1>2, <1>4 DEF Recs
<1> QED BY <1>1, <1>2, <1>3, <1>4, <1>5, <1>6

-----------------------------------------------------------------------------
(* It holds at the start, and after each action. *)

LEMMA InitInv == ASSUME Orderly, Init PROVE Inv
<1>1. TypeOK
  BY DEF Orderly, SetupAssumption, Init, TypeOK, Idle, Kind, Ready, Provisioned
<1> QED BY <1>1 DEF Init, Inv, Modes, Known, Sound, Setting, Replacing, Clearing, Idle, Do,
  Restoring, Refuses, Others

\* What a request finds: the service has just the records of its store.
LEMMA AtRest ==
  ASSUME Inv, Ready
  PROVE  /\ ram = disk /\ ~Refuses(disk) /\ ~Restoring
         /\ ~Provisioned => disk = {} /\ promised = {}
         /\ Provisioned => promised \cup archive \subseteq disk
BY DEF Inv, Ready, Idle, Known, Sound, Restoring, Provisioned

\* A list of one record.
LEMMA JustOne ==
  ASSUME NEW r \in Record
  PROVE  /\ Sets(<<r>>) \in Seq(Change) /\ SetsOnly(Sets(<<r>>)) /\ Recs(Sets(<<r>>)) = {r}
         /\ \A i \in DOMAIN Sets(<<r>>) : Sets(<<r>>)[i].rec = r
<1> DEFINE q == <<r>>
<1>1. q \in Seq(Record) /\ DOMAIN q = {1} /\ q[1] = r
  OBVIOUS
<1> HIDE DEF q
<1>2. {q[i] : i \in DOMAIN q} = {r}
  BY <1>1
<1>3. /\ Sets(q) \in Seq(Change) /\ SetsOnly(Sets(q)) /\ Recs(Sets(q)) = {r}
      /\ \A i \in DOMAIN Sets(q) : Sets(q)[i].rec = r
  BY <1>1, <1>2, SetsIs
<1> QED BY <1>3 DEF q

\* The writes of a setup, with and without a title.
LEMMA SetupWrites ==
  ASSUME NEW q, q \in {<<"owner", "key", "schema">>, <<"server", "owner", "key", "schema">>}
  PROVE  /\ Sets(q) \in Seq(Change) /\ SetsOnly(Sets(q)) /\ "schema" \in Recs(Sets(q))
         /\ Recs(Sets(q)) \subseteq {"schema", "server", "owner", "key"}
         /\ \A i \in DOMAIN Sets(q) : Sets(q)[i].rec = "schema" =>
              \E j \in 1..i - 1 : Sets(q)[j].rec = "owner"
<1>1. q \in Seq(Record)
  <2>1. "schema" \in Record /\ "server" \in Record /\ "owner" \in Record /\ "key" \in Record
    BY DEF Record, Cfg, Accounts
  <2>2. CASE q = <<"owner", "key", "schema">>
    BY <2>1, <2>2
  <2>3. CASE q = <<"server", "owner", "key", "schema">>
    BY <2>1, <2>3
  <2> QED BY <2>2, <2>3
<1>2. CASE q = <<"owner", "key", "schema">>
  <2>1. DOMAIN q = 1..3 /\ q[1] = "owner" /\ q[2] = "key" /\ q[3] = "schema"
    BY <1>2
  <2>2. {q[i] : i \in DOMAIN q} = {"schema", "owner", "key"}
    BY <2>1
  <2>3. ASSUME NEW i \in DOMAIN Sets(q), Sets(q)[i].rec = "schema"
        PROVE  1 \in 1..i - 1 /\ Sets(q)[1].rec = "owner"
    BY <1>1, <2>1, <2>3, SetsIs
  <2> QED BY <1>1, <2>2, <2>3, SetsIs
<1>3. CASE q = <<"server", "owner", "key", "schema">>
  <2>1. DOMAIN q = 1..4 /\ q[1] = "server" /\ q[2] = "owner" /\ q[3] = "key" /\ q[4] = "schema"
    BY <1>3
  <2>2. {q[i] : i \in DOMAIN q} = {"schema", "server", "owner", "key"}
    BY <2>1
  <2>3. ASSUME NEW i \in DOMAIN Sets(q), Sets(q)[i].rec = "schema"
        PROVE  2 \in 1..i - 1 /\ Sets(q)[2].rec = "owner"
    BY <1>1, <2>1, <2>3, SetsIs
  <2> QED BY <1>1, <2>2, <2>3, SetsIs
<1> QED BY <1>2, <1>3

LEMMA ProvisionInv == ASSUME Orderly, Inv, Provision PROVE Inv'
<1>1. disk = {} /\ ram = {} /\ promised = {} /\ Ready /\ mode = "up"
  BY AtRest DEF Provision, Start, Ready
<1>2. PICK q \in {<<"owner", "key", "schema">>, <<"server", "owner", "key", "schema">>} :
        op' = Do("write", Sets(q))
  BY DEF Provision, Start
<1>3. /\ UNCHANGED <<disk, ram, mode, cuts, errors, promised>> /\ archive' = {}
  BY DEF Provision, Start
<1>4. op'.kind = "write" /\ op'.todo = Sets(q) /\ op' = Do(op'.kind, op'.todo)
  BY <1>2 DEF Do
<1>5. Sets(q) \in Seq(Change)
  BY SetupWrites
<1>6. TypeOK'
  BY <1>1, <1>3, <1>4, <1>5 DEF Inv, TypeOK, Change, Kind, Ready, Provisioned, Idle
<1>7. Setting'
  BY <1>1, <1>3, <1>4, SetupWrites DEF Setting
<1>8. Modes' /\ Known' /\ Replacing' /\ Clearing'
  BY <1>1, <1>3, <1>4 DEF Modes, Known, Replacing, Clearing, Restoring
<1>9. Sound'
  BY <1>1, <1>3, <1>4 DEF Sound, Refuses, Restoring
<1> QED BY <1>6, <1>7, <1>8, <1>9 DEF Inv

\* A household takes any record but the schema record.
LEMMA HouseholdWrites ==
  ASSUME Inv, Provisioned, NEW r \in Record \ {"schema"}, Start("write", Sets(<<r>>)),
         UNCHANGED archive
  PROVE  Inv'
<1>1. /\ ram = disk /\ ~Refuses(disk) /\ "schema" \in disk /\ promised \cup archive \subseteq disk
      /\ mode = "up"
  BY AtRest DEF Start, Provisioned, Ready
<1>2. op' = Do("write", Sets(<<r>>))
      /\ UNCHANGED <<disk, ram, mode, cuts, errors, promised, archive>>
  BY DEF Start
<1>3. op'.kind = "write" /\ op'.todo = Sets(<<r>>) /\ op' = Do(op'.kind, op'.todo)
  BY <1>2 DEF Do
<1>4. TypeOK'
  BY <1>1, <1>2, <1>3, JustOne DEF Inv, TypeOK, Change, Kind, Ready, Provisioned, Idle
<1>5. Setting'
  BY <1>1, <1>2, <1>3, JustOne DEF Setting
<1>6. Modes' /\ Known' /\ Replacing' /\ Clearing'
  BY <1>1, <1>2, <1>3 DEF Modes, Known, Replacing, Clearing, Restoring
<1>7. Sound'
  BY <1>1, <1>2, <1>3 DEF Sound, Refuses, Restoring
<1> QED BY <1>4, <1>5, <1>6, <1>7 DEF Inv

LEMMA RegisterAppInv == ASSUME Orderly, Inv, RegisterApp PROVE Inv'
<1>1. Provisioned /\ "app" \in Record \ {"schema"}
  BY DEF RegisterApp, Orderly, Record, Others
<1> QED BY <1>1, HouseholdWrites DEF RegisterApp

LEMMA MemberWriteInv == ASSUME Inv, MemberWrite PROVE Inv'
<1>1. "member" \in Record \ {"schema"} /\ "status" \in Record \ {"schema"}
  BY DEF Record, Accounts, Others
<1> QED BY <1>1, HouseholdWrites DEF MemberWrite

LEMMA ImportInv == ASSUME Orderly, Inv, Import PROVE Inv'
<1>1. disk = {} /\ ram = {} /\ promised = {} /\ mode = "up"
  BY AtRest DEF Import, Start, Ready
<1>2. archive' \in SUBSET Record
  BY DEF Import, Orderly, SetupAssumption
<1>3. InOrder({}) = <<>>
  BY DEF InOrder, Found
<1>4. Erases(<<>>) = <<>>
  BY DEF Erases
<1>5. op' = Do("clear", <<>>) /\ UNCHANGED <<disk, ram, mode, cuts, errors, promised>>
  BY <1>1, <1>3, <1>4 DEF Import, Start
<1>6. op'.kind = "clear" /\ op'.todo = <<>> /\ op' = Do(op'.kind, op'.todo)
  BY <1>5 DEF Do
<1>7. TypeOK'
  <2>1. op'.todo \in Seq([rec : Record, set : BOOLEAN]) /\ op'.kind \in Kind /\ op' # Idle
    BY <1>6 DEF Kind, Idle
  <2> QED BY <1>1, <1>2, <1>5, <2>1 DEF Inv, TypeOK, Ready, Provisioned
<1>8. Replacing'
  BY <1>1, <1>5, <1>6 DEF Replacing
<1> QED BY <1>1, <1>5, <1>6, <1>7, <1>8 DEF Inv, Modes, Known, Sound, Setting, Clearing, Restoring

\* The state after one of the writes under way.
LEMMA Shape ==
  ASSUME Inv
  PROVE  /\ op.todo \in Seq(Change) /\ disk \in SUBSET Record
         /\ op.todo # <<>> => /\ Tail(op.todo) \in Seq(Change)
                             /\ Head(op.todo) = op.todo[1] /\ 1 \in DOMAIN op.todo
                             /\ Head(op.todo) \in Change
                             /\ Written(disk, Head(op.todo)) \in SUBSET Record
<1>1. op.todo \in Seq(Change) /\ disk \in SUBSET Record
  BY DEF Inv, TypeOK, Change
<1>2. op.todo # <<>> => Head(op.todo) \in Change
  BY <1>1, RestOf
<1> QED BY <1>1, <1>2, RestOf DEF Written, Change

\* A setup is sound after each write, and so is a household that takes one.
LEMMA SetMakesSound ==
  ASSUME Inv, op.kind = "write", op.todo # <<>>
  PROVE  LET d == Written(disk, Head(op.todo))
         IN  /\ d = disk \cup {Head(op.todo).rec} /\ ~Refuses(d)
             /\ IF "schema" \in d THEN promised \cup archive \subseteq d ELSE promised = {}
<1> DEFINE r == Head(op.todo).rec
<1>1. /\ 1 \in DOMAIN op.todo /\ Head(op.todo) = op.todo[1] /\ r \in Recs(op.todo)
  BY Shape DEF Recs
<1>2. Written(disk, Head(op.todo)) = disk \cup {r}
  BY <1>1 DEF Inv, Setting, SetsOnly, Written
<1>3. /\ ~Refuses(disk)
      /\ IF "schema" \in disk THEN promised \cup archive \subseteq disk ELSE promised = {}
  BY DEF Inv, Sound, Restoring
<1>4. r = "schema" => "owner" \in disk
  BY <1>1 DEF Inv, Setting
<1>5. "schema" \notin disk => archive = {} /\ r \in {"schema", "server", "owner", "key"}
  BY <1>1 DEF Inv, Setting
<1>6. ~Refuses(disk \cup {r})
  BY <1>3, <1>4, <1>5 DEF Refuses, Others
<1>7. IF "schema" \in disk \cup {r} THEN promised \cup archive \subseteq disk \cup {r}
      ELSE promised = {}
  BY <1>3, <1>5
<1> QED BY <1>2, <1>6, <1>7

\* A step of an undo or a rollback leaves the rest to erase.
LEMMA ErasesOne ==
  ASSUME Inv, op.kind \in {"undo", "rollback"}, op.todo # <<>>
  PROVE  LET d == Written(disk, Head(op.todo))
         IN  d \subseteq disk /\ ErasesOnly(Tail(op.todo)) /\ d \subseteq Recs(Tail(op.todo))
<1>1. ErasesOnly(op.todo) /\ disk \subseteq Recs(op.todo)
  BY DEF Inv, Replacing, Clearing
<1>2. Written(disk, Head(op.todo)) = disk \ {Head(op.todo).rec}
  BY <1>1, Shape DEF ErasesOnly, Written
<1>3. Recs(op.todo) = Recs(Tail(op.todo)) \cup {Head(op.todo).rec}
  BY Shape, RestOf
<1>4. ErasesOnly(Tail(op.todo))
  BY <1>1, Shape, RestOf DEF ErasesOnly
<1> QED BY <1>1, <1>2, <1>3, <1>4

LEMMA StepInv == ASSUME Inv, Step PROVE Inv'
<1> DEFINE t == op.todo
           r == Head(t).rec
<1>1. /\ t # <<>> /\ op' = Do(op.kind, Tail(t)) /\ disk' = Written(disk, Head(t))
      /\ UNCHANGED <<mode, cuts, errors, promised, archive>>
  BY DEF Step
<1>2. op'.kind = op.kind /\ op'.todo = Tail(t) /\ op' = Do(op'.kind, op'.todo) /\ op.kind # "idle"
  BY <1>1 DEF Do, Inv, Modes
<1>3. /\ t \in Seq(Change) /\ Tail(t) \in Seq(Change) /\ disk' \in SUBSET Record
      /\ 1 \in DOMAIN t /\ Head(t) = t[1] /\ Head(t) \in Change
      /\ Recs(t) = Recs(Tail(t)) \cup {r}
      /\ \A i \in DOMAIN Tail(t) : i + 1 \in DOMAIN t /\ Tail(t)[i] = t[i + 1]
      /\ \A i \in DOMAIN t : i # 1 => i - 1 \in DOMAIN Tail(t)
  BY <1>1, Shape, RestOf
<1>4. TypeOK'
  <2>1. ram' \in SUBSET Record
    BY <1>1, <1>3 DEF Step, Inv, TypeOK, Written, Change
  <2>2. op' # Idle
    BY <1>2 DEF Idle
  <2>3. op'.todo \in Seq([rec : Record, set : BOOLEAN])
    BY <1>2, <1>3 DEF Change
  <2> QED BY <1>1, <1>2, <1>3, <2>1, <2>2, <2>3 DEF Inv, TypeOK, Ready, Provisioned
<1>5. Modes'
  BY <1>1, <1>2 DEF Inv, Modes
<1>6. Known'
  BY <1>1, <1>2 DEF Step, Inv, Known
<1>7. Sound'
  <2>1. CASE op.kind = "write"
    BY <1>1, <1>2, <2>1, SetMakesSound DEF Sound, Restoring
  <2>2. CASE op.kind = "rollback"
    <3>1. disk' \subseteq disk
      BY <1>1, <2>2, ErasesOne
    <3> QED BY <1>1, <1>2, <2>2, <3>1 DEF Inv, Sound, Clearing, Refuses, Restoring
  <2>3. CASE Restoring
    BY <1>2, <2>3 DEF Sound, Restoring
  <2> QED BY <1>2, <2>1, <2>2, <2>3 DEF Inv, TypeOK, Kind, Restoring
<1>8. Setting'
  <2> SUFFICES ASSUME op.kind = "write" PROVE Setting'
    BY <1>2 DEF Setting
  <2>1. disk' = disk \cup {r}
    BY <1>1, SetMakesSound
  <2>2. SetsOnly(Tail(t))
    BY <1>3 DEF Inv, Setting, SetsOnly
  <2>3. "schema" \in disk' \cup Recs(Tail(t))
    BY <1>3, <2>1 DEF Inv, Setting
  <2>4. "schema" \notin disk' =>
          archive = {} /\ Recs(Tail(t)) \subseteq {"schema", "server", "owner", "key"}
    BY <1>3, <2>1 DEF Inv, Setting
  <2>5. ASSUME NEW i \in DOMAIN Tail(t), Tail(t)[i].rec = "schema", "owner" \notin disk'
        PROVE  \E j \in 1..i - 1 : Tail(t)[j].rec = "owner"
    <3>1. i \in Nat /\ i >= 1 /\ i + 1 \in DOMAIN t /\ t[i + 1].rec = "schema"
          /\ "owner" \notin disk /\ r # "owner"
      BY <1>3, <2>1, <2>5
    <3>2. PICK j \in 1..i : t[j].rec = "owner"
      BY <3>1 DEF Inv, Setting
    <3>3. j # 1
      BY <1>3, <3>1, <3>2
    <3>4. j \in DOMAIN t /\ j - 1 \in DOMAIN Tail(t) /\ j - 1 \in 1..i - 1
      BY <1>3, <3>1, <3>2, <3>3
    <3>5. Tail(t)[j - 1] = t[j - 1 + 1] /\ j - 1 + 1 = j
      BY <1>3, <3>2, <3>4
    <3> QED BY <3>2, <3>4, <3>5
  <2> QED BY <1>1, <1>2, <2>2, <2>3, <2>4, <2>5 DEF Setting
<1>9. Replacing'
  <2>1. Restoring => ram' = {} /\ promised' = {}
    BY <1>1 DEF Step, Restoring, Inv, Replacing
  <2>2. op.kind # "clear"
    BY <1>1 DEF Inv, Replacing
  <2>3. ASSUME op.kind = "restore"
        PROVE  SetsOnly(Tail(t)) /\ disk' \cup Recs(Tail(t)) = archive
    <3>1. disk' = disk \cup {r}
      BY <1>1, <1>3, <2>3 DEF Inv, Replacing, SetsOnly, Written
    <3> QED BY <1>3, <2>3, <3>1 DEF Inv, Replacing, SetsOnly
  <2>4. ASSUME op.kind = "undo" PROVE ErasesOnly(Tail(t)) /\ disk' \subseteq Recs(Tail(t))
    BY <1>1, <2>4, ErasesOne
  <2> QED BY <1>1, <1>2, <2>1, <2>2, <2>3, <2>4 DEF Replacing, Restoring
<1>10. Clearing'
  <2> SUFFICES ASSUME op.kind = "rollback" PROVE Clearing'
    BY <1>2 DEF Clearing
  <2> QED BY <1>1, <1>2, ErasesOne DEF Inv, Clearing
<1> QED BY <1>4, <1>5, <1>6, <1>7, <1>8, <1>9, <1>10 DEF Inv

\* With nothing under way, all that matters is that a boot accepts the store.
LEMMA IdleInv ==
  ASSUME TypeOK', op' = Idle, mode' \notin {"booting", "refused"}, ~Refuses(disk'),
         mode' = "up" => ram' = disk' /\ ("schema" \notin disk' => disk' = {}),
         IF "schema" \in disk' THEN promised' \cup archive' \subseteq disk' ELSE promised' = {}
  PROVE  Inv'
<1>1. op'.kind = "idle" /\ op'.todo = <<>> /\ op' = Do(op'.kind, op'.todo)
  BY DEF Idle, Do
<1>2. Sound'
  BY DEF Sound
<1>3. Modes' /\ Known'
  BY <1>1 DEF Modes, Known
<1> QED BY <1>1, <1>2, <1>3 DEF Inv, Setting, Replacing, Clearing, Restoring

\* An undo that starts has the whole store to erase.
LEMMA UndoInv ==
  ASSUME Inv, Restoring, TypeOK', op' = Do("undo", Erases(InOrder(disk'))), disk' \in SUBSET Record,
         UNCHANGED <<mode, ram, promised>>
  PROVE  Inv'
<1>1. op'.kind = "undo" /\ op'.todo = Erases(InOrder(disk')) /\ op' = Do(op'.kind, op'.todo)
  BY DEF Do
<1>2. mode' = "up" /\ ram' = {} /\ promised' = {}
  BY DEF Inv, Modes, Replacing, Restoring
<1>3. ErasesOnly(op'.todo) /\ disk' \subseteq Recs(op'.todo)
  BY <1>1, ErasesAll
<1>4. Replacing'
  BY <1>1, <1>2, <1>3 DEF Replacing
<1>5. Modes' /\ Known' /\ Sound'
  BY <1>1, <1>2 DEF Modes, Known, Sound, Restoring
<1> QED BY <1>1, <1>4, <1>5 DEF Inv, Setting, Clearing

LEMMA StepFailsInv == ASSUME Orderly, Inv, StepFails PROVE Inv'
<1>1. /\ op.todo # <<>> /\ op.kind # "undo" /\ errors' \in 0..Errors
      /\ disk' \in {disk, Written(disk, Head(op.todo))}
      /\ op' = OnError(op.kind, disk') /\ mode' = ModeAfterError(op.kind)
      /\ UNCHANGED <<ram, cuts, promised, archive>>
  BY DEF StepFails, Orderly, SetupAssumption, Inv, TypeOK
<1>2. disk' \in SUBSET Record
  BY <1>1, Shape
<1>3. op.kind \in {"write", "restore", "rollback"}
  BY <1>1 DEF Inv, TypeOK, Kind, Modes, Replacing
<1>4. CASE op.kind = "write"
  <2>1. op' = Idle /\ mode' = "latched"
    BY <1>1, <1>4 DEF OnError, ModeAfterError
  <2>2. TypeOK'
    <3>1. <<>> \in Seq([rec : Record, set : BOOLEAN])
      OBVIOUS
    <3> QED BY <1>1, <1>2, <2>1, <3>1 DEF Inv, TypeOK, Idle, Kind, Ready
  <2>3. ~Refuses(disk')
    BY <1>1, <1>4, SetMakesSound DEF Inv, Sound, Restoring
  <2>4. IF "schema" \in disk' THEN promised' \cup archive' \subseteq disk' ELSE promised' = {}
    BY <1>1, <1>4, SetMakesSound DEF Inv, Sound, Restoring
  <2> QED BY <2>1, <2>2, <2>3, <2>4, IdleInv
<1>5. CASE op.kind = "rollback"
  <2>1. op' = Idle /\ mode' = "down"
    BY <1>1, <1>5 DEF OnError, ModeAfterError
  <2>2. TypeOK'
    <3>1. <<>> \in Seq([rec : Record, set : BOOLEAN])
      OBVIOUS
    <3> QED BY <1>1, <1>2, <2>1, <3>1 DEF Inv, TypeOK, Idle, Kind, Ready
  <2>3. disk' \subseteq disk /\ "schema" \notin disk
    BY <1>1, <1>5, ErasesOne DEF Inv, Clearing
  <2>4. ~Refuses(disk') /\ promised' = {}
    BY <1>1, <1>5, <2>3 DEF Inv, Sound, Restoring, Refuses
  <2> QED BY <2>1, <2>2, <2>3, <2>4, IdleInv
<1>6. CASE op.kind = "restore"
  <2>1. op' = Do("undo", Erases(InOrder(disk'))) /\ mode' = mode
    BY <1>1, <1>6 DEF OnError, ModeAfterError
  <2>2. TypeOK'
    <3>1. op'.todo \in Seq([rec : Record, set : BOOLEAN]) /\ op'.kind \in Kind /\ op' # Idle
      BY <1>2, <2>1, ErasesAll DEF Do, Change, Kind, Idle
    <3> QED BY <1>1, <1>2, <2>1, <3>1 DEF Inv, TypeOK, Ready
  <2> QED BY <1>1, <1>2, <1>6, <2>1, <2>2, UndoInv DEF Restoring
<1> QED BY <1>3, <1>4, <1>5, <1>6

LEMMA AcknowledgeInv == ASSUME Inv, Acknowledge PROVE Inv'
<1>1. /\ op.kind = "write" /\ op.todo = <<>> /\ op' = Idle /\ promised' = promised \cup ram
      /\ UNCHANGED <<disk, ram, mode, cuts, errors, archive>>
  BY DEF Acknowledge, Finished
<1>2. mode = "up" /\ ram = disk
  BY <1>1 DEF Inv, Modes, Known
<1>3. "schema" \in disk
  BY <1>1 DEF Inv, Setting, Recs
<1>4. ~Refuses(disk) /\ promised \cup archive \subseteq disk
  BY <1>1, <1>3 DEF Inv, Sound, Restoring
<1>5. TypeOK'
  BY <1>1, <1>2 DEF Inv, TypeOK, Idle, Kind
<1> QED BY <1>1, <1>2, <1>3, <1>4, <1>5, IdleInv

LEMMA WriteRecordsInv == ASSUME Inv, WriteRecords PROVE Inv'
<1>1. /\ op.kind = "clear" /\ op' = Do("restore", Sets(InOrder(archive)))
      /\ UNCHANGED <<disk, ram, mode, cuts, errors, promised, archive>>
  BY DEF WriteRecords, Finished
<1>2. op'.kind = "restore" /\ op'.todo = Sets(InOrder(archive)) /\ op' = Do(op'.kind, op'.todo)
  BY <1>1 DEF Do
<1>3. archive \in SUBSET Record
  BY DEF Inv, TypeOK
<1>4. op'.todo \in Seq(Change) /\ SetsOnly(op'.todo) /\ Recs(op'.todo) = archive
  BY <1>2, <1>3, InOrderIs, SetsIs
<1>5. mode = "up" /\ ram = {} /\ promised = {} /\ disk = {}
  BY <1>1 DEF Inv, Modes, Replacing, Restoring
<1>6. TypeOK'
  <2>1. op'.kind \in Kind /\ op' # Idle /\ op'.todo \in Seq([rec : Record, set : BOOLEAN])
    BY <1>2, <1>4 DEF Kind, Idle, Change
  <2> QED BY <1>1, <2>1 DEF Inv, TypeOK, Ready
<1>7. Replacing'
  BY <1>1, <1>2, <1>4, <1>5 DEF Replacing
<1> QED BY <1>1, <1>2, <1>5, <1>6, <1>7 DEF Inv, Modes, Known, Sound, Setting, Clearing, Restoring

LEMMA ReloadInv == ASSUME Inv, Reload PROVE Inv'
<1>1. op.kind = "restore" /\ op.todo = <<>> /\ UNCHANGED <<disk, mode, cuts, errors, archive>>
  BY DEF Reload, Finished
<1>2. disk \in SUBSET Record /\ mode = "up" /\ disk = archive
  <2>1. Recs(op.todo) = {}
    BY <1>1 DEF Recs
  <2> QED BY <1>1, <2>1 DEF Inv, TypeOK, Modes, Replacing
<1>3. CASE Refuses(disk) \/ "schema" \notin disk
  <2>1. op' = Do("undo", Erases(InOrder(disk'))) /\ UNCHANGED <<ram, promised>>
    BY <1>1, <1>3 DEF Reload
  <2>2. TypeOK'
    <3>1. op'.todo \in Seq([rec : Record, set : BOOLEAN]) /\ op'.kind \in Kind /\ op' # Idle
      BY <1>1, <1>2, <2>1, ErasesAll DEF Do, Change, Kind, Idle
    <3> QED BY <1>1, <2>1, <3>1 DEF Inv, TypeOK, Ready
  <2> QED BY <1>1, <1>2, <2>1, <2>2, UndoInv DEF Restoring
<1>4. CASE ~(Refuses(disk) \/ "schema" \notin disk)
  <2>1. op' = Idle /\ ram' = disk /\ promised' = disk
    BY <1>4 DEF Reload
  <2>2. TypeOK'
    <3>1. <<>> \in Seq([rec : Record, set : BOOLEAN])
      OBVIOUS
    <3> QED BY <1>1, <1>2, <2>1, <3>1 DEF Inv, TypeOK, Idle, Kind
  <2> QED BY <1>1, <1>2, <1>4, <2>1, <2>2, IdleInv
<1> QED BY <1>3, <1>4

\* Once all is erased there is no store to refuse.
LEMMA ErasedInv ==
  ASSUME Inv, op.kind \in {"undo", "rollback"}, op.todo = <<>>, mode' = "up",
         op' = Idle, ram' = disk, UNCHANGED <<disk, cuts, errors, promised, archive>>
  PROVE  Inv'
<1>1. disk = {}
  BY DEF Inv, Replacing, Clearing, Recs
<1>2. promised = {}
  BY <1>1 DEF Inv, Sound, Replacing, Restoring
<1>3. TypeOK'
  <2>1. <<>> \in Seq([rec : Record, set : BOOLEAN])
    OBVIOUS
  <2> QED BY <2>1 DEF Inv, TypeOK, Idle, Kind
<1> QED BY <1>1, <1>2, <1>3, IdleInv DEF Refuses

LEMMA UndoneInv == ASSUME Inv, Undone PROVE Inv'
<1>1. mode' = "up"
  BY DEF Undone, Finished, Inv, Modes
<1> QED BY <1>1, ErasedInv DEF Undone, Finished

LEMMA RolledBackInv == ASSUME Inv, RolledBack PROVE Inv'
BY ErasedInv DEF RolledBack, Finished

\* A board that is down has nothing under way.
LEMMA DownIdle == ASSUME Inv, mode = "down" PROVE op = Idle /\ ~Restoring
BY DEF Inv, TypeOK, Kind, Modes, Do, Idle, Restoring

LEMMA BootInv == ASSUME Inv, Boot PROVE Inv'
<1>1. /\ mode = "down" /\ op = Idle /\ ~Restoring
      /\ UNCHANGED <<disk, cuts, errors, promised, archive>>
  BY DownIdle DEF Boot
<1>2. /\ ~Refuses(disk) /\ disk \in SUBSET Record
      /\ IF "schema" \in disk THEN promised \cup archive \subseteq disk ELSE promised = {}
  BY <1>1 DEF Inv, Sound, TypeOK
<1>3. CASE "schema" \in disk
  <2>1. mode' = "up" /\ ram' = disk /\ op' = Idle
    BY <1>1, <1>2, <1>3 DEF Boot
  <2>2. TypeOK'
    BY <1>1, <2>1 DEF Inv, TypeOK
  <2> QED BY <1>1, <1>2, <1>3, <2>1, <2>2, IdleInv
<1>4. CASE "schema" \notin disk
  <2> DEFINE q == InOrder(disk \cap Accounts) \o InOrder(disk \cap {"key"})
                  \o InOrder(disk \cap Cfg)
             Of(p) == {p[i] : i \in DOMAIN p}
  <2>1. /\ mode' = "booting" /\ ram' = ram /\ op' = Do("rollback", Erases(q))
    BY <1>2, <1>4 DEF Boot, Leftovers
  <2>2. ASSUME NEW S
        PROVE  InOrder(disk \cap S) \in Seq(Record) /\ Of(InOrder(disk \cap S)) = disk \cap S
    BY <1>2, InOrderIs
  <2>3. q \in Seq(Record)
        /\ Of(q) = (disk \cap Accounts) \cup (disk \cap {"key"}) \cup (disk \cap Cfg)
    <3> DEFINE p == InOrder(disk \cap Accounts) \o InOrder(disk \cap {"key"})
    <3>1. p \in Seq(Record) /\ Of(p) = (disk \cap Accounts) \cup (disk \cap {"key"})
      <4>1. /\ InOrder(disk \cap Accounts) \in Seq(Record)
            /\ InOrder(disk \cap {"key"}) \in Seq(Record)
        BY <2>2
      <4>2. p \in Seq(Record)
            /\ Of(p) = Of(InOrder(disk \cap Accounts)) \cup Of(InOrder(disk \cap {"key"}))
        BY <4>1, PartsOf
      <4>3. Of(InOrder(disk \cap Accounts)) = disk \cap Accounts
        BY <2>2
      <4>4. Of(InOrder(disk \cap {"key"})) = disk \cap {"key"}
        BY <2>2
      <4> HIDE DEF Of, p
      <4> QED BY <4>2, <4>3, <4>4
    <3> HIDE DEF p
    <3>2. /\ p \o InOrder(disk \cap Cfg) \in Seq(Record)
          /\ Of(p \o InOrder(disk \cap Cfg)) = Of(p) \cup (disk \cap Cfg)
      BY <2>2, <3>1, PartsOf
    <3> QED BY <3>1, <3>2 DEF p
  <2>4. disk \subseteq Of(q)
    BY <1>2, <1>4, <2>3 DEF Refuses, Record, Accounts, Cfg, Others
  <2> HIDE DEF q
  <2>5. /\ op'.kind = "rollback" /\ op'.todo = Erases(q) /\ op' = Do(op'.kind, op'.todo)
        /\ op'.todo \in Seq(Change) /\ ErasesOnly(op'.todo) /\ disk \subseteq Recs(op'.todo)
    BY <2>1, <2>3, <2>4, ErasesIs DEF Do
  <2>6. TypeOK'
    <3>1. op'.todo \in Seq([rec : Record, set : BOOLEAN]) /\ op'.kind \in Kind /\ op' # Idle
      BY <2>5 DEF Change, Kind, Idle
    <3> QED BY <1>1, <2>1, <3>1 DEF Inv, TypeOK, Ready
  <2>7. Clearing'
    BY <1>1, <1>4, <2>5 DEF Clearing
  <2>8. Sound'
    BY <1>1, <1>2, <2>1, <2>5 DEF Sound, Restoring
  <2> QED BY <2>1, <2>5, <2>6, <2>7, <2>8 DEF Inv, Modes, Known, Setting, Replacing, Restoring
<1> QED BY <1>3, <1>4

LEMMA RestartInv == ASSUME Inv, Restart PROVE Inv'
<1>1. op = Idle /\ op' = Idle /\ mode' = "down" /\ ram' = {}
      /\ UNCHANGED <<disk, cuts, errors, promised, archive>>
  BY DEF Restart, Off
<1>2. ~Restoring
  BY <1>1 DEF Idle, Restoring
<1>3. TypeOK'
  BY <1>1 DEF Inv, TypeOK, Ready
<1> QED BY <1>1, <1>2, <1>3, IdleInv DEF Inv, Sound

LEMMA PowerCutInv == ASSUME Orderly, Inv, PowerCut PROVE Inv'
<1>1. /\ op # Idle /\ ~Restoring /\ cuts' \in 0..PowerCuts
      /\ op' = Idle /\ mode' = "down" /\ ram' = {}
      /\ disk' = disk \/ (op.todo # <<>> /\ disk' = Written(disk, Head(op.todo)))
      /\ UNCHANGED <<errors, promised, archive>>
  <2>1. ~Restoring
    BY DEF PowerCut, Orderly, Restoring
  <2>2. cuts' \in 0..PowerCuts
    BY DEF PowerCut, Orderly, SetupAssumption, Inv, TypeOK
  <2>3. /\ op # Idle /\ op' = Idle /\ mode' = "down" /\ ram' = {}
        /\ UNCHANGED <<errors, promised, archive>>
    BY DEF PowerCut, Off
  <2>4. disk' = disk \/ (op.todo # <<>> /\ disk' = Written(disk, Head(op.todo)))
    BY DEF PowerCut
  <2> QED BY <2>1, <2>2, <2>3, <2>4
<1>2. disk' \in SUBSET Record
  BY <1>1, Shape
<1>3. TypeOK'
  <2>1. <<>> \in Seq([rec : Record, set : BOOLEAN])
    OBVIOUS
  <2> QED BY <1>1, <1>2, <2>1 DEF Inv, TypeOK, Idle, Kind, Ready
<1>4. op.kind \in {"write", "rollback"}
  BY <1>1 DEF Inv, TypeOK, Kind, Modes, Restoring, Do, Idle
<1>5. CASE op.kind = "write"
  <2>1. ~Refuses(disk')
        /\ IF "schema" \in disk' THEN promised' \cup archive' \subseteq disk' ELSE promised' = {}
    BY <1>1, <1>5, SetMakesSound DEF Inv, Sound
  <2> QED BY <1>1, <1>3, <2>1, IdleInv
<1>6. CASE op.kind = "rollback"
  <2>1. disk' \subseteq disk /\ "schema" \notin disk
    BY <1>1, <1>6, ErasesOne DEF Inv, Clearing
  <2>2. ~Refuses(disk') /\ promised' = {}
    BY <1>1, <2>1 DEF Inv, Sound, Refuses
  <2> QED BY <1>1, <1>3, <2>1, <2>2, IdleInv
<1> QED BY <1>4, <1>5, <1>6

LEMMA NextInv == ASSUME Orderly, Inv, [Next]_vars PROVE Inv'
<1>1. CASE UNCHANGED vars
  BY <1>1 DEF vars, Inv, TypeOK, Modes, Known, Sound, Setting, Replacing, Clearing, Restoring,
     Ready, Provisioned
<1>2. CASE Next
  BY <1>2, ProvisionInv, RegisterAppInv, MemberWriteInv, ImportInv, StepInv, StepFailsInv,
     AcknowledgeInv, WriteRecordsInv, ReloadInv, UndoneInv, BootInv, RolledBackInv, RestartInv,
     PowerCutInv DEF Next, Request
<1> QED BY <1>1, <1>2

\* Inv is an invariant: every request, write, failure, boot and power cut keeps it.
THEOREM InvHolds == ASSUME Orderly PROVE Spec => []Inv
<1>1. Init => Inv
  BY InitInv
<1>2. Inv /\ [Next]_vars => Inv'
  BY NextInv
<1> QED BY <1>1, <1>2, PTL DEF Spec

-----------------------------------------------------------------------------
(* What it gives. *)

\* The board always starts again, its household is whole - what was acknowledged
\* or restored is there - and without one its store is empty, whatever setup,
\* restore or rollback was interrupted (accounts.rs provision, transfer.rs
\* import_archive, domain/mod.rs build).
THEOREM StartsWhole ==
  ASSUME Orderly
  PROVE  Spec => [](TypeOK /\ AlwaysBoots /\ WholeHousehold /\ EmptyUntilProvisioned)
<1>1. Inv => TypeOK /\ AlwaysBoots
  BY DEF Inv, Modes, AlwaysBoots
<1>2. Inv => WholeHousehold /\ EmptyUntilProvisioned
  BY AtRest DEF WholeHousehold, EmptyUntilProvisioned
<1> QED BY <1>1, <1>2, InvHolds, PTL
=============================================================================
