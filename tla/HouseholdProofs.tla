-------------------------- MODULE HouseholdProofs --------------------------
(***************************************************************************)
(* Proofs about Household, for any number of slots, accounts, statuses and *)
(* versions, and any failures: a member in a slot used before inherits     *)
(* nothing from the member who had it; memory is the store, of which a     *)
(* boot would change nothing; and an edit keeps the version it replaces.   *)
(***************************************************************************)
EXTENDS Household, FiniteSetTheorems, FunctionTheorems, SequenceTheorems,
        WellFoundedInduction, TLAPS

-----------------------------------------------------------------------------
(* The inductive invariant. *)

Field == {"acct", "stat", "poll", "dm", "hist", "mark"}

Write ==
  [f : {"acct"}, k : Slot, v : AccountRec \cup {None}]
    \cup [f : {"stat"}, k : Id, v : StatusRec \cup {None}]
    \cup [f : {"poll"}, k : Id, v : PollRec \cup {None}]
    \cup [f : {"dm"}, k : Id, v : 0..MaxVersion]
    \cup [f : {"hist"}, k : Id \X (1..Revisions), v : 0..MaxVersion]
    \cup [f : {"mark"}, k : Mark, v : 0..MaxAccount]

Typed ==
  /\ disk \in Records /\ ram.rec \in Records
  /\ ram = [rec |-> ram.rec, mentions |-> ram.mentions, replies |-> ram.replies]
  /\ mode \in {"booting", "up", "latched", "down"}
  /\ mode \in {"latched", "down"} => todo = <<>>
  /\ todo \in Seq(Write)
  /\ lastId \in 0..MaxId /\ lastAccount \in Account

\* The account in slot s is id, deleted or not.
OwnerIs(d, s, id) == d.acct[s] # None /\ d.acct[s].id = id

\* What a store holds of a slot was left there by the account in it.
Owned(d) ==
  /\ \A i \in Id : d.stat[i] # None => OwnerIs(d, d.stat[i].author, d.stat[i].by)
  /\ \A k \in Mark : d.mark[k] # 0 => OwnerIs(d, k[3], d.mark[k])
  /\ \A i \in Id : d.poll[i] # None =>
       \A s \in Slot : d.poll[i].votes[s] # 0 => OwnerIs(d, s, d.poll[i].votes[s])

\* So is what a write adds.
OwnedWrite(d, w) ==
  /\ w.f = "stat" /\ w.v # None => OwnerIs(d, w.v.author, w.v.by)
  /\ w.f = "mark" /\ w.v # 0 => OwnerIs(d, w.k[3], w.v)
  /\ w.f = "poll" /\ w.v # None =>
       \A s \in Slot : w.v.votes[s] # 0 => OwnerIs(d, s, w.v.votes[s])

\* A write that frees slot s, and one that adds nothing to it.
Frees(w, s) == w.f = "acct" /\ w.k = s /\ w.v = None
Leaves(w, s) ==
  /\ w.f = "stat" => w.v = None \/ w.v.author # s
  /\ w.f = "mark" => w.v = 0 \/ w.k[3] # s
  /\ w.f = "poll" => w.v = None \/ w.v.votes[s] = 0

Writes(W, f, k) == \E w \in W : w.f = f /\ w.k = k

\* All that a store holds of slot s is written anew by W.
Cleared(d, W, s) ==
  /\ \A i \in Id : d.stat[i] # None /\ d.stat[i].author = s => Writes(W, "stat", i)
  /\ \A k \in Mark : d.mark[k] # 0 /\ k[3] = s => Writes(W, "mark", k)
  /\ \A i \in Id : d.poll[i] # None /\ d.poll[i].votes[s] # 0 => Writes(W, "poll", i)

Before(t, n) == {t[m] : m \in 1..n - 1}

\* The writes still to make keep the store owned: a slot is freed when all that
\* was in it is gone, and nothing is added to it after.
Planned(d, t) ==
  /\ \A w \in Range(t) : OwnedWrite(d, w)
  /\ \A n \in DOMAIN t, s \in Slot : Frees(t[n], s) =>
       /\ \A w \in Range(t) : Leaves(w, s)
       /\ Cleared(d, Before(t, n), s)
       /\ \A m \in DOMAIN t : t[m].f = "acct" /\ t[m].k = s /\ t[m].v # None => m < n
  /\ \A n \in DOMAIN t : t[n].f = "acct" /\ t[n].v # None =>
       \/ OwnerIs(d, t[n].k, t[n].v.id)
       \/ d.acct[t[n].k] = None /\ Len(t) = 1

\* A service that is up knows its store; one that boots writes what it loaded.
Mirror == mode = "up" => ram.rec = disk
Toward == mode = "booting" =>
  /\ \A w \in Range(todo) : w.v = ram.rec[w.f][w.k]
  /\ \A f \in Field : \A k \in DOMAIN NoRecords[f] :
       disk[f][k] = ram.rec[f][k] \/ Writes(Range(todo), f, k)

Inv == Typed /\ Mirror /\ Toward /\ Owned(disk) /\ Planned(disk, todo)

-----------------------------------------------------------------------------
(* Sequences of the elements of a set. *)

\* What is in a list, and in two of them, and what is left after the first.
LEMMA RangeOf ==
  ASSUME NEW S, NEW t \in Seq(S)
  PROVE  /\ Range(t) \subseteq S
         /\ \A n \in DOMAIN t : t[n] \in Range(t)
         /\ \A x \in Range(t) : \E n \in DOMAIN t : t[n] = x
         /\ DOMAIN t = 1..Len(t) /\ Len(t) \in Nat
BY DEF Range

\* What is in two lists, one after the other.
LEMMA RangeConcat ==
  ASSUME NEW S, NEW p \in Seq(S), NEW q \in Seq(S)
  PROVE  p \o q \in Seq(S) /\ Range(p \o q) = Range(p) \cup Range(q)
<1> DEFINE b == p \o q
<1>1. b \in Seq(S) /\ Len(b) = Len(p) + Len(q) /\ DOMAIN b = 1..Len(b)
      /\ DOMAIN p = 1..Len(p) /\ DOMAIN q = 1..Len(q) /\ Len(p) \in Nat /\ Len(q) \in Nat
  OBVIOUS
<1>2. ASSUME NEW n \in DOMAIN b PROVE b[n] \in Range(p) \cup Range(q)
  <2>1. CASE n <= Len(p)
    BY <1>1, <2>1 DEF Range
  <2>2. CASE ~(n <= Len(p))
    <3>1. n - Len(p) \in DOMAIN q /\ b[n] = q[n - Len(p)]
      BY <1>1, <2>2
    <3> QED BY <3>1 DEF Range
  <2> QED BY <2>1, <2>2
<1>3. ASSUME NEW n \in DOMAIN p PROVE n \in DOMAIN b /\ b[n] = p[n]
  BY <1>1
<1>4. ASSUME NEW n \in DOMAIN q PROVE n + Len(p) \in DOMAIN b /\ b[n + Len(p)] = q[n]
  BY <1>1
<1>5. Range(p) \subseteq Range(b)
  BY <1>3 DEF Range
<1>6. Range(q) \subseteq Range(b)
  BY <1>4 DEF Range
<1>7. Range(b) \subseteq Range(p) \cup Range(q)
  BY <1>2 DEF Range
<1> QED BY <1>1, <1>5, <1>6, <1>7

\* What is left of a list after its first.
LEMMA RangeTail ==
  ASSUME NEW S, NEW t \in Seq(S), t # <<>>
  PROVE  /\ Head(t) = t[1] /\ 1 \in DOMAIN t /\ Tail(t) \in Seq(S)
         /\ Len(Tail(t)) = Len(t) - 1 /\ Len(t) \in Nat /\ DOMAIN t = 1..Len(t)
         /\ DOMAIN Tail(t) = 1..Len(t) - 1
         /\ \A n \in DOMAIN Tail(t) : n + 1 \in DOMAIN t /\ Tail(t)[n] = t[n + 1]
         /\ \A n \in DOMAIN t : n = 1 \/ (n - 1 \in DOMAIN Tail(t) /\ Tail(t)[n - 1] = t[n])
         /\ Range(t) = {Head(t)} \cup Range(Tail(t))
<1>1. /\ Len(t) \in Nat /\ Len(t) > 0 /\ DOMAIN t = 1..Len(t)
      /\ Tail(t) \in Seq(S) /\ DOMAIN Tail(t) = 1..Len(t) - 1 /\ Len(Tail(t)) = Len(t) - 1
      /\ Head(t) = t[1]
  OBVIOUS
<1>2. \A n \in 1..Len(t) - 1 : Tail(t)[n] = t[n + 1]
  OBVIOUS
<1>3. \A n \in DOMAIN t : n = 1 \/ (n - 1 \in 1..Len(t) - 1 /\ Tail(t)[n - 1] = t[n])
  BY <1>1, <1>2
<1>4. \A n \in DOMAIN Tail(t) : n + 1 \in DOMAIN t
  BY <1>1
<1>5. Range(t) \subseteq {Head(t)} \cup Range(Tail(t))
  BY <1>1, <1>3 DEF Range
<1>6. {Head(t)} \cup Range(Tail(t)) \subseteq Range(t)
  BY <1>1, <1>2, <1>4 DEF Range
<1> QED BY <1>1, <1>2, <1>3, <1>4, <1>5, <1>6

\* SetToSeq lists a finite set, each element once.
LEMMA Listed ==
  ASSUME NEW S, IsFiniteSet(S)
  PROVE  /\ SetToSeq(S) \in Seq(S) /\ SetToSeq(S) \in [1..Cardinality(S) -> S]
         /\ IsInjective(SetToSeq(S)) /\ Range(SetToSeq(S)) = S /\ Cardinality(S) \in Nat
<1> DEFINE n == Cardinality(S)
           q == SetToSeq(S)
<1>1. n \in Nat /\ ExistsBijection(1..n, S)
  BY FS_CardinalityType
<1>2. \E f \in [1..n -> S] : IsInjective(f)
  BY <1>1, Zenon DEF ExistsBijection, Bijection, Injection, IsInjective
<1>3. q \in [1..n -> S] /\ IsInjective(q)
  BY <1>2, Zenon DEF SetToSeq
<1>4. q \in Injection(1..n, S)
  BY <1>3 DEF Injection
<1>5. Cardinality(1..n) = n
  BY <1>1, FS_Interval
<1> HIDE DEF n, q
<1>6. q \in Surjection(1..n, S)
  BY <1>4, <1>5, FS_Injection DEF n
<1>7. Range(q) = S
  BY <1>3, <1>6 DEF Range, Surjection
<1>8. q \in Seq(S)
  BY <1>1, <1>3
<1> QED BY <1>1, <1>3, <1>7, <1>8 DEF n, q

\* A set of numbers that is not empty has a least one.
LEMMA Least ==
  ASSUME NEW S \in SUBSET Nat, S # {}
  PROVE  Min(S) \in S /\ \A x \in S : Min(S) <= x
<1> DEFINE R == OpToRel(<, Nat)
<1>1. \E x \in S : \A y \in S : ~(<<y, x>> \in R)
  <2>1. IsWellFoundedOn(R, Nat)
    BY NatLessThanWellFounded
  <2> HIDE DEF R
  <2> QED BY <2>1, WFMin, Zenon
<1>2. PICK x \in S : \A y \in S : ~(<<y, x>> \in R)
  BY <1>1
<1>3. \A y \in S : x <= y
  <2> TAKE y \in S
  <2>1. ~(y < x)
    BY <1>2 DEF OpToRel
  <2> QED BY <2>1
<1> QED BY <1>3 DEF Min

\* The writes in InTurn are those of the set.
LEMMA Turns == ASSUME NEW w \in Write, w.f # "acct" PROVE Turn(w) \in Nat
<1>1. CASE w.f = "hist"
  <2>1. w.k \in Id \X (1..Revisions)
    BY <1>1 DEF Write
  <2> QED BY <1>1, <2>1 DEF Turn, Id
<1>2. CASE w.f = "mark"
  <2>1. w.k \in Mark
    BY <1>2 DEF Write
  <2> QED BY <1>2, <2>1 DEF Turn, Id, Mark
<1>3. CASE w.f \in {"stat", "dm", "poll"}
  <2>1. w.k \in Id
    BY <1>3 DEF Write
  <2> QED BY <1>3, <2>1 DEF Turn, Id
<1> QED BY <1>1, <1>2, <1>3 DEF Write

\* InTurn lists a finite set of writes, each once.
LEMMA InTurnIs ==
  ASSUME NEW S \in SUBSET Write, IsFiniteSet(S), \A w \in S : w.f # "acct"
  PROVE  InTurn(S) \in Seq(S) /\ Range(InTurn(S)) = S /\ IsInjective(InTurn(S))
<1> DEFINE c == Cardinality(S)
           w == SetToSeq(S)
           Earlier(n) == {m \in DOMAIN w : \/ Turn(w[m]) < Turn(w[n])
                                           \/ Turn(w[m]) = Turn(w[n]) /\ m < n}
           rank == [n \in 1..c |-> Cardinality(Earlier(n)) + 1]
           t == [n \in DOMAIN w |-> w[CHOOSE m \in DOMAIN w : Cardinality(Earlier(m)) = n - 1]]
<1>1. c \in Nat /\ w \in [1..c -> S] /\ Range(w) = S /\ IsInjective(w)
  BY Listed
<1>2. \A n \in 1..c : Turn(w[n]) \in Nat
  BY <1>1, Turns
<1>3. IsFiniteSet(1..c) /\ Cardinality(1..c) = c
  BY <1>1, FS_Interval
<1>a. \A n \in 1..c : Earlier(n) \subseteq (1..c) \ {n}
  BY <1>1, <1>2
<1>b. \A x, y \in 1..c : x \in Earlier(y) => Earlier(x) \subseteq Earlier(y) \ {x}
  BY <1>1, <1>2
<1>c. \A n, m \in 1..c : n # m => n \in Earlier(m) \/ m \in Earlier(n)
  BY <1>1, <1>2
<1>d. InTurn(S) = t
  BY DEF InTurn
<1> HIDE DEF Earlier
<1>4. ASSUME NEW n \in 1..c
      PROVE  IsFiniteSet(Earlier(n)) /\ Cardinality(Earlier(n)) \in 0..c - 1
  <2>1. Earlier(n) \subseteq (1..c) \ {n}
    BY <1>a
  <2>2. IsFiniteSet((1..c) \ {n}) /\ Cardinality((1..c) \ {n}) = c - 1
    BY <1>3, FS_RemoveElement
  <2>3. IsFiniteSet(Earlier(n)) /\ Cardinality(Earlier(n)) <= c - 1
    BY <2>1, <2>2, FS_Subset
  <2>4. Cardinality(Earlier(n)) \in Nat
    BY <2>3, FS_CardinalityType
  <2> QED BY <1>1, <2>3, <2>4
<1>5. ASSUME NEW n \in 1..c, NEW m \in 1..c, n # m
      PROVE  Cardinality(Earlier(n)) # Cardinality(Earlier(m))
  <2>1. ASSUME NEW x \in 1..c, NEW y \in 1..c, x \in Earlier(y)
        PROVE  Cardinality(Earlier(x)) # Cardinality(Earlier(y))
    <3>1. Earlier(x) \subseteq Earlier(y) \ {x}
      BY <1>b, <2>1
    <3>2. IsFiniteSet(Earlier(y) \ {x}) /\ Cardinality(Earlier(y) \ {x}) = Cardinality(Earlier(y)) - 1
      BY <1>4, <2>1, FS_RemoveElement
    <3>3. Cardinality(Earlier(x)) <= Cardinality(Earlier(y) \ {x})
      BY <3>1, <3>2, FS_Subset
    <3>4. Cardinality(Earlier(x)) \in Nat /\ Cardinality(Earlier(y)) \in Nat
      BY <1>1, <1>4
    <3> QED BY <3>2, <3>3, <3>4
  <2> QED BY <1>c, <1>5, <2>1
<1>6. rank \in Injection(1..c, 1..c)
  <2>1. rank \in [1..c -> 1..c]
    BY <1>1, <1>4
  <2>2. \A n, m \in 1..c : rank[n] = rank[m] => n = m
    BY <1>1, <1>4, <1>5
  <2> QED BY <2>1, <2>2 DEF Injection, IsInjective
<1>7. rank \in Surjection(1..c, 1..c)
  <2> HIDE DEF rank, c
  <2> QED BY <1>3, <1>6, FS_Injection
<1>8. ASSUME NEW n \in 1..c
      PROVE  \E m \in DOMAIN w : Cardinality(Earlier(m)) = n - 1
  <2>1. PICK m \in 1..c : rank[m] = n
    BY <1>7 DEF Surjection
  <2> QED BY <1>1, <1>4, <2>1
<1> DEFINE at(n) == CHOOSE m \in DOMAIN w : Cardinality(Earlier(m)) = n - 1
<1>9. \A n \in 1..c : at(n) \in 1..c /\ Cardinality(Earlier(at(n))) = n - 1
  BY <1>1, <1>8
<1>10. t \in Seq(S)
  <2>1. DOMAIN w = 1..c
    BY <1>1
  <2>2. t = [n \in 1..c |-> w[at(n)]]
    BY <2>1
  <2>3. \A n \in 1..c : w[at(n)] \in S
    BY <1>1, <1>9
  <2> HIDE DEF at, t, c
  <2>4. t \in [1..c -> S]
    BY <2>2, <2>3
  <2> QED BY <1>1, <2>4
<1>11. ASSUME NEW x \in S PROVE x \in Range(t)
  <2>1. PICK m \in 1..c : w[m] = x
    BY <1>1 DEF Range
  <2>2. Cardinality(Earlier(m)) + 1 \in 1..c
    BY <1>1, <1>4
  <2>3. at(Cardinality(Earlier(m)) + 1) = m
    BY <1>1, <1>4, <1>5, <1>9, <2>2
  <2>4. t[Cardinality(Earlier(m)) + 1] = x
    BY <1>1, <2>1, <2>2, <2>3
  <2> QED BY <1>1, <2>2, <2>4 DEF Range
<1>12. Range(t) \subseteq S
  BY <1>1, <1>9 DEF Range
<1>13. IsInjective(t)
  <2>1. DOMAIN t = 1..c /\ \A n \in 1..c : t[n] = w[at(n)]
    BY <1>1
  <2> HIDE DEF at, t
  <2>2. ASSUME NEW n \in DOMAIN t, NEW m \in DOMAIN t, t[n] = t[m] PROVE n = m
    <3>1. at(n) = at(m)
      BY <1>1, <1>9, <2>1, <2>2 DEF IsInjective
    <3>2. n - 1 = m - 1
      BY <1>9, <2>1, <3>1
    <3> QED BY <1>1, <2>1, <3>2
  <2> QED BY <2>2 DEF IsInjective
<1> QED BY <1>10, <1>11, <1>12, <1>13, <1>d

-----------------------------------------------------------------------------
(* One write. *)

\* A write is of a field, under a key and with a value of it.
LEMMA WriteIs ==
  ASSUME NEW w \in Write
  PROVE  /\ w.f \in Field
         /\ w.f = "acct" => w.k \in Slot /\ w.v \in AccountRec \cup {None}
         /\ w.f = "stat" => w.k \in Id /\ w.v \in StatusRec \cup {None}
         /\ w.f = "poll" => w.k \in Id /\ w.v \in PollRec \cup {None}
         /\ w.f = "dm" => w.k \in Id /\ w.v \in 0..MaxVersion
         /\ w.f = "hist" => w.k \in Id \X (1..Revisions) /\ w.v \in 0..MaxVersion
         /\ w.f = "mark" => w.k \in Mark /\ w.v \in 0..MaxAccount
BY DEF Write, Field

\* What a store is after a write.
LEMMA StoredIs ==
  ASSUME NEW d \in Records, NEW w \in Write
  PROVE  /\ Stored(d, w) \in Records
         /\ \A s \in Slot : Stored(d, w).acct[s] =
              IF w.f = "acct" /\ w.k = s THEN w.v ELSE d.acct[s]
         /\ \A i \in Id : Stored(d, w).stat[i] =
              IF w.f = "stat" /\ w.k = i THEN w.v ELSE d.stat[i]
         /\ \A i \in Id : Stored(d, w).poll[i] =
              IF w.f = "poll" /\ w.k = i THEN w.v ELSE d.poll[i]
         /\ \A k \in Mark : Stored(d, w).mark[k] =
              IF w.f = "mark" /\ w.k = k THEN w.v ELSE d.mark[k]
         /\ \A f \in Field : \A k \in DOMAIN NoRecords[f] : Stored(d, w)[f][k] =
              IF w.f = f /\ w.k = k THEN w.v ELSE d[f][k]
<1>1. CASE w.f = "acct"
  BY <1>1, WriteIs DEF Stored, Records, NoRecords, Field
<1>2. CASE w.f = "stat"
  BY <1>2, WriteIs DEF Stored, Records, NoRecords, Field
<1>3. CASE w.f = "poll"
  BY <1>3, WriteIs DEF Stored, Records, NoRecords, Field
<1>4. CASE w.f = "dm"
  BY <1>4, WriteIs DEF Stored, Records, NoRecords, Field
<1>5. CASE w.f = "hist"
  BY <1>5, WriteIs DEF Stored, Records, NoRecords, Field
<1>6. CASE w.f = "mark"
  BY <1>6, WriteIs DEF Stored, Records, NoRecords, Field
<1> QED BY <1>1, <1>2, <1>3, <1>4, <1>5, <1>6, WriteIs DEF Field

\* The first of the writes to make keeps the store owned, and the plan.
LEMMA WriteKeeps ==
  ASSUME NEW d \in Records, NEW t \in Seq(Write), t # <<>>,
         Owned(d), Planned(d, t)
  PROVE  LET e == Stored(d, Head(t))
         IN e \in Records /\ Owned(e) /\ Planned(e, Tail(t)) /\ Tail(t) \in Seq(Write)
<1> DEFINE w == Head(t)
           e == Stored(d, w)
           u == Tail(t)
<1>1. /\ w = t[1] /\ 1 \in DOMAIN t /\ u \in Seq(Write)
      /\ Len(u) = Len(t) - 1 /\ Len(t) \in Nat /\ DOMAIN t = 1..Len(t)
      /\ DOMAIN u = 1..Len(t) - 1
      /\ \A n \in DOMAIN u : n + 1 \in DOMAIN t /\ u[n] = t[n + 1]
      /\ Range(t) = {w} \cup Range(u)
  BY RangeTail
<1>2. w \in Write
  BY <1>1, RangeOf
<1>3. /\ e \in Records
      /\ \A s \in Slot : e.acct[s] = IF w.f = "acct" /\ w.k = s THEN w.v ELSE d.acct[s]
      /\ \A i \in Id : e.stat[i] = IF w.f = "stat" /\ w.k = i THEN w.v ELSE d.stat[i]
      /\ \A i \in Id : e.poll[i] = IF w.f = "poll" /\ w.k = i THEN w.v ELSE d.poll[i]
      /\ \A k \in Mark : e.mark[k] = IF w.f = "mark" /\ w.k = k THEN w.v ELSE d.mark[k]
  BY <1>2, StoredIs
<1>4. /\ OwnedWrite(d, w)
      /\ \A x \in Range(u) : OwnedWrite(d, x)
      /\ \A s \in Slot : Frees(w, s) =>
           /\ \A x \in Range(u) : Leaves(x, s)
           /\ Cleared(d, Before(t, 1), s)
      /\ w.f = "acct" /\ w.v # None => OwnerIs(d, w.k, w.v.id) \/ (d.acct[w.k] = None /\ Len(t) = 1)
  BY <1>1 DEF Planned
<1> HIDE DEF w, e, u
<1>5. ASSUME NEW s \in Slot, NEW id, OwnerIs(d, s, id), ~Frees(w, s)
      PROVE  OwnerIs(e, s, id)
  BY <1>3, <1>4, <1>5 DEF OwnerIs, Frees
<1>6. Before(t, 1) = {}
  BY <1>1 DEF Before
<1>7. \A s \in Slot : Frees(w, s) =>
        /\ \A i \in Id : d.stat[i] # None => d.stat[i].author # s
        /\ \A k \in Mark : d.mark[k] # 0 => k[3] # s
        /\ \A i \in Id : d.poll[i] # None => d.poll[i].votes[s] = 0
  BY <1>4, <1>6 DEF Cleared, Writes
<1>8. Owned(e)
  <2>1. ASSUME NEW i \in Id, e.stat[i] # None
        PROVE  OwnerIs(e, e.stat[i].author, e.stat[i].by)
    <3>1. e.stat[i].author \in Slot
      BY <1>3, <2>1 DEF Records, StatusRec
    <3>2. CASE w.f = "stat" /\ w.k = i
      BY <1>3, <1>4, <1>5, <2>1, <3>1, <3>2 DEF OwnedWrite, Frees
    <3>3. CASE ~(w.f = "stat" /\ w.k = i)
      BY <1>3, <1>5, <1>7, <2>1, <3>1, <3>3 DEF Owned
    <3> QED BY <3>2, <3>3
  <2>2. ASSUME NEW k \in Mark, e.mark[k] # 0
        PROVE  OwnerIs(e, k[3], e.mark[k])
    <3>1. k[3] \in Slot
      BY DEF Mark
    <3>2. CASE w.f = "mark" /\ w.k = k
      BY <1>3, <1>4, <1>5, <2>2, <3>1, <3>2 DEF OwnedWrite, Frees
    <3>3. CASE ~(w.f = "mark" /\ w.k = k)
      BY <1>3, <1>5, <1>7, <2>2, <3>1, <3>3 DEF Owned
    <3> QED BY <3>2, <3>3
  <2>3. ASSUME NEW i \in Id, e.poll[i] # None, NEW s \in Slot, e.poll[i].votes[s] # 0
        PROVE  OwnerIs(e, s, e.poll[i].votes[s])
    <3>2. CASE w.f = "poll" /\ w.k = i
      BY <1>3, <1>4, <1>5, <2>3, <3>2 DEF OwnedWrite, Frees
    <3>3. CASE ~(w.f = "poll" /\ w.k = i)
      BY <1>3, <1>5, <1>7, <2>3, <3>3 DEF Owned
    <3> QED BY <3>2, <3>3
  <2> QED BY <2>1, <2>2, <2>3 DEF Owned
<1>9. ASSUME NEW x \in Range(u) PROVE OwnedWrite(e, x)
  <2>1. x \in Write
    BY <1>1, RangeOf
  <2>2. ASSUME x.f = "stat", x.v # None PROVE OwnerIs(e, x.v.author, x.v.by)
    <3>1. x.v.author \in Slot
      BY <2>1, <2>2, WriteIs DEF StatusRec
    <3> QED BY <1>4, <1>5, <1>9, <2>2, <3>1 DEF OwnedWrite, Leaves
  <2>3. ASSUME x.f = "mark", x.v # 0 PROVE OwnerIs(e, x.k[3], x.v)
    <3>1. x.k[3] \in Slot
      BY <2>1, <2>3, WriteIs DEF Mark
    <3> QED BY <1>4, <1>5, <1>9, <2>3, <3>1 DEF OwnedWrite, Leaves
  <2>4. ASSUME x.f = "poll", x.v # None, NEW s \in Slot, x.v.votes[s] # 0
        PROVE  OwnerIs(e, s, x.v.votes[s])
    BY <1>4, <1>5, <1>9, <2>4 DEF OwnedWrite, Leaves
  <2> QED BY <2>2, <2>3, <2>4 DEF OwnedWrite
<1>10. ASSUME NEW n \in DOMAIN u, NEW s \in Slot, Frees(u[n], s)
       PROVE  /\ \A x \in Range(u) : Leaves(x, s)
              /\ Cleared(e, Before(u, n), s)
              /\ \A m \in DOMAIN u : u[m].f = "acct" /\ u[m].k = s /\ u[m].v # None => m < n
  <2>1. n + 1 \in DOMAIN t /\ u[n] = t[n + 1] /\ n \in Nat
    BY <1>1
  <2>2. /\ \A x \in Range(t) : Leaves(x, s)
        /\ Cleared(d, Before(t, n + 1), s)
        /\ \A m \in DOMAIN t : t[m].f = "acct" /\ t[m].k = s /\ t[m].v # None => m < n + 1
    BY <1>10, <2>1 DEF Planned
  <2>3. Leaves(w, s)
    BY <1>1, <2>2
  <2>4. Before(t, n + 1) \subseteq {w} \cup Before(u, n)
    <3>1. ASSUME NEW m \in 1..(n + 1) - 1 PROVE t[m] \in {w} \cup Before(u, n)
      <4>1. CASE m = 1
        BY <1>1, <4>1
      <4>2. CASE m # 1
        <5>1. m - 1 \in 1..n - 1 /\ m - 1 \in DOMAIN u /\ (m - 1) + 1 = m
          BY <1>1, <2>1, <4>2
        <5>2. u[m - 1] = t[m]
          BY <1>1, <5>1
        <5> QED BY <5>1, <5>2 DEF Before
      <4> QED BY <4>1, <4>2
    <3> QED BY <3>1 DEF Before
  <2>5. \A f, k : Writes(Before(t, n + 1), f, k) =>
          Writes(Before(u, n), f, k) \/ (w.f = f /\ w.k = k)
    BY <2>4 DEF Writes
  <2>6. Cleared(e, Before(u, n), s)
    <3>1. ASSUME NEW i \in Id, e.stat[i] # None, e.stat[i].author = s
          PROVE  Writes(Before(u, n), "stat", i)
      BY <1>3, <2>2, <2>3, <2>5, <3>1 DEF Cleared, Leaves
    <3>2. ASSUME NEW k \in Mark, e.mark[k] # 0, k[3] = s
          PROVE  Writes(Before(u, n), "mark", k)
      BY <1>3, <2>2, <2>3, <2>5, <3>2 DEF Cleared, Leaves
    <3>3. ASSUME NEW i \in Id, e.poll[i] # None, e.poll[i].votes[s] # 0
          PROVE  Writes(Before(u, n), "poll", i)
      BY <1>3, <2>2, <2>3, <2>5, <3>3 DEF Cleared, Leaves
    <3> QED BY <3>1, <3>2, <3>3 DEF Cleared
  <2>7. ASSUME NEW m \in DOMAIN u, u[m].f = "acct", u[m].k = s, u[m].v # None
        PROVE  m < n
    <3>1. m + 1 \in DOMAIN t /\ u[m] = t[m + 1] /\ m \in Nat
      BY <1>1
    <3> QED BY <2>1, <2>2, <2>7, <3>1
  <2> QED BY <1>1, <2>2, <2>6, <2>7
<1>11. ASSUME NEW n \in DOMAIN u, u[n].f = "acct", u[n].v # None
       PROVE  \/ OwnerIs(e, u[n].k, u[n].v.id)
              \/ e.acct[u[n].k] = None /\ Len(u) = 1
  <2>1. n + 1 \in DOMAIN t /\ u[n] = t[n + 1] /\ n \in Nat /\ Len(t) > 1
    BY <1>1
  <2>2. OwnerIs(d, u[n].k, u[n].v.id)
    BY <1>11, <2>1 DEF Planned
  <2>3. u[n].k \in Slot
    BY <1>1, <1>11, WriteIs, RangeOf
  <2>4. ~Frees(w, u[n].k)
    <3>1. SUFFICES ASSUME Frees(t[1], u[n].k) PROVE FALSE
      BY <1>1
    <3>2. t[n + 1].f = "acct" /\ t[n + 1].k = u[n].k /\ t[n + 1].v # None
      BY <1>11, <2>1
    <3>3. n + 1 < 1
      BY <1>1, <2>1, <2>3, <3>1, <3>2 DEF Planned
    <3> QED BY <2>1, <3>3
  <2> QED BY <1>5, <2>2, <2>3, <2>4
<1>12. Planned(e, u)
  BY <1>9, <1>10, <1>11 DEF Planned
<1> QED BY <1>1, <1>3, <1>8, <1>12 DEF w, e, u

\* Without writes of accounts, a list is a plan if all it adds is owned; and so is
\* one that ends in freeing the slots it has cleared.
LEMMA PlanPlain ==
  ASSUME NEW d, NEW t \in Seq(Write),
         \A w \in Range(t) : w.f # "acct" /\ OwnedWrite(d, w)
  PROVE  Planned(d, t)
BY RangeOf DEF Planned, Frees

\* Or it ends in the writes that free the slots it has cleared.
LEMMA PlanEnds ==
  ASSUME NEW d, NEW p \in Seq(Write), NEW q \in Seq(Write),
         \A w \in Range(p) :
           OwnedWrite(d, w) /\ (w.f = "acct" => w.v # None /\ OwnerIs(d, w.k, w.v.id)),
         \A w \in Range(q) : w.f = "acct" /\ w.v = None,
         \A w \in Range(q) : (\A x \in Range(p) : Leaves(x, w.k)) /\ Cleared(d, Range(p), w.k)
  PROVE  Planned(d, p \o q)
<1> DEFINE t == p \o q
<1>1. /\ t \in Seq(Write) /\ Range(t) = Range(p) \cup Range(q)
      /\ DOMAIN t = 1..Len(t) /\ Len(t) = Len(p) + Len(q) /\ Len(p) \in Nat /\ Len(q) \in Nat
      /\ DOMAIN p = 1..Len(p) /\ DOMAIN q = 1..Len(q)
  BY RangeConcat
<1>2. \A n \in DOMAIN p : t[n] = p[n] /\ n \in DOMAIN t
  BY <1>1
<1>3. \A n \in DOMAIN t : n \in DOMAIN p \/ (n > Len(p) /\ t[n] \in Range(q))
  <2> TAKE n \in DOMAIN t
  <2>1. CASE n <= Len(p)
    BY <1>1, <2>1
  <2>2. CASE ~(n <= Len(p))
    <3>1. n - Len(p) \in DOMAIN q /\ t[n] = q[n - Len(p)]
      BY <1>1, <2>2
    <3> QED BY <1>1, <2>2, <3>1 DEF Range
  <2> QED BY <2>1, <2>2
<1>4. \A n \in DOMAIN p : p[n] \in Range(p)
  BY DEF Range
<1> HIDE DEF t
<1>5. \A w \in Range(t) : OwnedWrite(d, w)
  BY <1>1 DEF OwnedWrite
<1>6. ASSUME NEW n \in DOMAIN t, NEW s \in Slot, Frees(t[n], s)
      PROVE  /\ \A w \in Range(t) : Leaves(w, s)
             /\ Cleared(d, Before(t, n), s)
             /\ \A m \in DOMAIN t : t[m].f = "acct" /\ t[m].k = s /\ t[m].v # None => m < n
  <2>1. n > Len(p) /\ t[n] \in Range(q) /\ n \in Nat
    BY <1>1, <1>2, <1>3, <1>4, <1>6 DEF Frees
  <2>2. (\A x \in Range(p) : Leaves(x, s)) /\ Cleared(d, Range(p), s)
    BY <1>6, <2>1 DEF Frees
  <2>3. \A w \in Range(q) : Leaves(w, s)
    BY DEF Leaves
  <2>4. Range(p) \subseteq Before(t, n)
    <3>1. ASSUME NEW m \in DOMAIN p PROVE p[m] = t[m] /\ m \in 1..n - 1
      BY <1>1, <1>2, <2>1
    <3> QED BY <3>1 DEF Before, Range
  <2>5. Cleared(d, Before(t, n), s)
    BY <2>2, <2>4 DEF Cleared, Writes
  <2>6. ASSUME NEW m \in DOMAIN t, t[m].f = "acct", t[m].v # None PROVE m < n
    BY <1>1, <1>3, <2>1, <2>6
  <2> QED BY <1>1, <2>2, <2>3, <2>5, <2>6
<1>7. ASSUME NEW n \in DOMAIN t, t[n].f = "acct", t[n].v # None
      PROVE  OwnerIs(d, t[n].k, t[n].v.id)
  BY <1>2, <1>3, <1>4, <1>7
<1>8. Planned(d, t)
  BY <1>5, <1>6, <1>7 DEF Planned
<1> QED BY <1>8 DEF t

-----------------------------------------------------------------------------
(* The lists of writes a request is made of. *)

\* What a function takes the elements of a finite set to is a finite set.
LEMMA ImageFinite ==
  ASSUME NEW F, F = [x \in DOMAIN F |-> F[x]], IsFiniteSet(DOMAIN F)
  PROVE  IsFiniteSet(Range(F))
<1>1. F \in Surjection(DOMAIN F, Range(F))
  BY DEF Surjection, Range
<1> QED BY <1>1, FS_Surjection

\* The keys of every field are finitely many.
LEMMA KeysFinite ==
  ASSUME HouseholdAssumption
  PROVE  /\ \A f \in Field : IsFiniteSet(DOMAIN NoRecords[f])
         /\ IsFiniteSet(Id) /\ IsFiniteSet(Slot) /\ IsFiniteSet(Mark)
         /\ IsFiniteSet(Id \X (1..Revisions)) /\ IsFiniteSet(1..Revisions)
<1>1. IsFiniteSet(Id) /\ IsFiniteSet(Slot) /\ IsFiniteSet(1..Revisions)
  BY FS_Interval DEF HouseholdAssumption, Id, Slot
<1>2. IsFiniteSet(Kinds)
  <2>1. IsFiniteSet({"boost"} \cup {"favourite"} \cup {"pin"})
    BY FS_Singleton, FS_Union
  <2>2. Kinds \subseteq {"boost"} \cup {"favourite"} \cup {"pin"}
    BY DEF HouseholdAssumption
  <2> QED BY <2>1, <2>2, FS_Subset
<1>3. IsFiniteSet(Id \X (1..Revisions))
  BY <1>1, FS_Product
<1>4. IsFiniteSet(Id \X Slot) /\ IsFiniteSet(Kinds \X (Id \X Slot))
  BY <1>1, <1>2, FS_Product
<1>5. IsFiniteSet(Mark)
  <2> DEFINE F == [x \in Kinds \X (Id \X Slot) |-> <<x[1], x[2][1], x[2][2]>>]
  <2>1. ASSUME NEW k \in Mark PROVE k \in Range(F)
    <3>1. <<k[1], <<k[2], k[3]>>>> \in Kinds \X (Id \X Slot) /\ k = <<k[1], k[2], k[3]>>
      BY DEF Mark
    <3>2. F[<<k[1], <<k[2], k[3]>>>>] = k
      BY <3>1
    <3> QED BY <3>1, <3>2 DEF Range
  <2>2. IsFiniteSet(Range(F))
    <3>1. DOMAIN F = Kinds \X (Id \X Slot) /\ F = [x \in DOMAIN F |-> F[x]]
      OBVIOUS
    <3> HIDE DEF F
    <3> QED BY <1>4, <3>1, ImageFinite
  <2>3. Mark \subseteq Range(F)
    BY <2>1
  <2> QED BY <2>2, <2>3, FS_Subset
<1> QED BY <1>1, <1>3, <1>5 DEF Field, NoRecords

\* A list that frees no slot and adds only what is owned.
Plain(d, t) == t \in Seq(Write) /\ \A w \in Range(t) : w.f # "acct" /\ OwnedWrite(d, w)

\* A plain list is empty, has one plain write, or is two plain lists.
LEMMA PlainNone == ASSUME NEW d PROVE Plain(d, <<>>)
BY DEF Plain, Range

\* A plain list of one write.
LEMMA PlainOne ==
  ASSUME NEW d, NEW w \in Write, w.f # "acct", OwnedWrite(d, w)
  PROVE  Plain(d, <<w>>)
BY DEF Plain, Range

\* A plain list of two.
LEMMA PlainConcat ==
  ASSUME NEW d, NEW p, Plain(d, p), NEW q, Plain(d, q)
  PROVE  Plain(d, p \o q)
BY RangeConcat DEF Plain

\* An erase is a write, and adds nothing to any slot.
LEMMA EraseIs ==
  ASSUME HouseholdAssumption, NEW f \in Field, NEW k \in DOMAIN NoRecords[f]
  PROVE  /\ Erase(f, k).f = f /\ Erase(f, k).k = k /\ Erase(f, k).v = NoRecords[f][k]
         /\ Erase(f, k) \in Write
         /\ \A d : OwnedWrite(d, Erase(f, k))
         /\ \A s \in Slot : Leaves(Erase(f, k), s)
<1>1. Erase(f, k).f = f /\ Erase(f, k).k = k /\ Erase(f, k).v = NoRecords[f][k]
  BY DEF Erase
<1>2. NoRecords[f][k] = IF f \in {"acct", "stat", "poll"} THEN None ELSE 0
  BY DEF NoRecords, Field
<1>3. Erase(f, k) \in Write
  <2>1. 0 \in 0..MaxVersion /\ 0 \in 0..MaxAccount
    BY DEF HouseholdAssumption
  <2> QED BY <1>2, <2>1 DEF Erase, Write, NoRecords, Field
<1> QED BY <1>1, <1>2, <1>3 DEF OwnedWrite, Leaves, Field

\* The erases of what memory holds under some keys.
LEMMA ErasuresAre ==
  ASSUME HouseholdAssumption, NEW f \in Field, NEW ks \in SUBSET DOMAIN NoRecords[f]
  PROVE  /\ Erasures(f, ks) \subseteq Write /\ IsFiniteSet(Erasures(f, ks))
         /\ \A w \in Erasures(f, ks) :
              /\ w.f = f /\ w.k \in ks /\ w.v = NoRecords[f][w.k]
              /\ \A d : OwnedWrite(d, w)
              /\ \A s \in Slot : Leaves(w, s)
         /\ \A k \in ks : ram.rec[f][k] # NoRecords[f][k] => Writes(Erasures(f, ks), f, k)
<1> DEFINE K == {k \in ks : ram.rec[f][k] # NoRecords[f][k]}
           F == [k \in K |-> Erase(f, k)]
<1>1. Erasures(f, ks) = Range(F)
  BY DEF Erasures, Range
<1>2. IsFiniteSet(K)
  BY KeysFinite, FS_Subset
<1>3. DOMAIN F = K /\ F = [x \in DOMAIN F |-> F[x]]
  OBVIOUS
<1>4. IsFiniteSet(Range(F))
  <2> HIDE DEF F, K
  <2> QED BY <1>2, <1>3, ImageFinite
<1>5. \A k \in K : Erase(f, k) \in Erasures(f, ks) /\ Erase(f, k).f = f /\ Erase(f, k).k = k
  BY EraseIs DEF Erasures
<1>6. ASSUME NEW w \in Erasures(f, ks)
      PROVE  /\ w \in Write /\ w.f = f /\ w.k \in ks /\ w.v = NoRecords[f][w.k]
             /\ \A d : OwnedWrite(d, w)
             /\ \A s \in Slot : Leaves(w, s)
  <2>1. PICK k \in K : w = Erase(f, k)
    BY <1>6 DEF Erasures
  <2> QED BY <2>1, EraseIs
<1> QED BY <1>1, <1>4, <1>5, <1>6 DEF Writes

\* EraseIf lists the erases.
LEMMA EraseIfIs ==
  ASSUME HouseholdAssumption, NEW f \in Field, NEW ks \in SUBSET DOMAIN NoRecords[f]
  PROVE  /\ EraseIf(f, ks) \in Seq(Write) /\ Range(EraseIf(f, ks)) = Erasures(f, ks)
         /\ f # "acct" => Plain(disk, EraseIf(f, ks))
<1> DEFINE S == Erasures(f, ks)
<1>1. S \subseteq Write /\ IsFiniteSet(S) /\ \A w \in S : w.f = f /\ OwnedWrite(disk, w)
  BY ErasuresAre
<1> HIDE DEF S
<1>2. SetToSeq(S) \in Seq(S) /\ Range(SetToSeq(S)) = S
  BY <1>1, Listed
<1>3. SetToSeq(S) \in Seq(Write)
  BY <1>1, <1>2
<1> QED BY <1>1, <1>2, <1>3 DEF EraseIf, Plain, S

\* What removing a status erases, and removing several.
LEMMA RemovedIs ==
  ASSUME HouseholdAssumption, ram.rec \in Records, NEW i \in Id
  PROVE  /\ RemoveStatus(i) \subseteq Write /\ IsFiniteSet(RemoveStatus(i))
         /\ \A w \in RemoveStatus(i) : /\ w.f # "acct"
                                       /\ OwnedWrite(disk, w)
                                       /\ \A s \in Slot : Leaves(w, s)
         /\ ram.rec.stat[i] # None => Writes(RemoveStatus(i), "stat", i)
         /\ ram.rec.poll[i] # None => Writes(RemoveStatus(i), "poll", i)
         /\ \A k \in Mark : k[2] = i /\ ram.rec.mark[k] # 0 => Writes(RemoveStatus(i), "mark", k)
<1> DEFINE hs == {h \in DOMAIN ram.rec.hist : h[1] = i}
           ms == {k \in Mark : k[2] = i}
<1>1. /\ {i} \subseteq DOMAIN NoRecords["stat"] /\ {i} \subseteq DOMAIN NoRecords["dm"]
      /\ {i} \subseteq DOMAIN NoRecords["poll"] /\ hs \subseteq DOMAIN NoRecords["hist"]
      /\ ms \subseteq DOMAIN NoRecords["mark"]
      /\ {"stat", "dm", "poll", "hist", "mark"} \subseteq Field
      /\ NoRecords["stat"][i] = None /\ NoRecords["poll"][i] = None
      /\ \A k \in Mark : NoRecords["mark"][k] = 0
  BY DEF Records, NoRecords, Field
<1> DEFINE Fine(W) == /\ W \subseteq Write /\ IsFiniteSet(W)
                      /\ \A w \in W : /\ w.f # "acct" /\ OwnedWrite(disk, w)
                                      /\ \A s \in Slot : Leaves(w, s)
<1>2. ASSUME NEW f \in Field \ {"acct"}, NEW ks \in SUBSET DOMAIN NoRecords[f]
      PROVE  /\ Fine(Erasures(f, ks))
             /\ \A k \in ks : ram.rec[f][k] # NoRecords[f][k] => Writes(Erasures(f, ks), f, k)
  BY <1>2, ErasuresAre
<1>3. \A W, V : Fine(W) /\ Fine(V) => Fine(W \cup V)
  BY FS_Union
<1> HIDE DEF hs, ms
<1>4. /\ Fine(Erasures("stat", {i})) /\ Fine(Erasures("dm", {i})) /\ Fine(Erasures("poll", {i}))
      /\ Fine(Erasures("hist", hs)) /\ Fine(Erasures("mark", ms))
      /\ ram.rec.stat[i] # None => Writes(Erasures("stat", {i}), "stat", i)
      /\ ram.rec.poll[i] # None => Writes(Erasures("poll", {i}), "poll", i)
      /\ \A k \in ms : ram.rec.mark[k] # 0 => Writes(Erasures("mark", ms), "mark", k)
  <2> HIDE DEF Fine
  <2>1. Fine(Erasures("stat", {i})) /\ (ram.rec.stat[i] # None => Writes(Erasures("stat", {i}), "stat", i))
    BY <1>1, <1>2
  <2>2. Fine(Erasures("dm", {i}))
    BY <1>1, <1>2
  <2>3. Fine(Erasures("poll", {i})) /\ (ram.rec.poll[i] # None => Writes(Erasures("poll", {i}), "poll", i))
    BY <1>1, <1>2
  <2>4. Fine(Erasures("hist", hs))
    BY <1>1, <1>2
  <2>5. /\ Fine(Erasures("mark", ms))
        /\ \A k \in ms : ram.rec.mark[k] # 0 => Writes(Erasures("mark", ms), "mark", k)
    <3>1. \A k \in ms : k \in Mark
      BY DEF ms
    <3> QED BY <1>1, <1>2, <3>1
  <2> QED BY <2>1, <2>2, <2>3, <2>4, <2>5
<1>5. RemoveStatus(i) = Erasures("stat", {i}) \cup Erasures("dm", {i}) \cup Erasures("poll", {i})
                          \cup Erasures("hist", hs) \cup Erasures("mark", ms)
  BY DEF RemoveStatus, hs, ms
<1>6. Fine(RemoveStatus(i))
  <2> HIDE DEF Fine
  <2> QED BY <1>3, <1>4, <1>5
<1>7. \A W, V, f, k : Writes(W, f, k) /\ W \subseteq V => Writes(V, f, k)
  BY DEF Writes
<1>8. \A k \in Mark : k[2] = i => k \in ms
  BY DEF ms
<1> QED BY <1>4, <1>5, <1>6, <1>7, <1>8

\* RemoveAll lists what it takes to remove every one of the statuses.
LEMMA RemovesAll ==
  ASSUME HouseholdAssumption, ram.rec \in Records, NEW ids \in SUBSET Id
  PROVE  /\ Plain(disk, RemoveAll(ids))
         /\ \A w \in Range(RemoveAll(ids)) : \A s \in Slot : Leaves(w, s)
         /\ \A i \in ids :
              /\ ram.rec.stat[i] # None => Writes(Range(RemoveAll(ids)), "stat", i)
              /\ ram.rec.poll[i] # None => Writes(Range(RemoveAll(ids)), "poll", i)
              /\ \A k \in Mark : k[2] = i /\ ram.rec.mark[k] # 0 =>
                   Writes(Range(RemoveAll(ids)), "mark", k)
<1> DEFINE F == [i \in ids |-> RemoveStatus(i)]
           U == UNION {RemoveStatus(i) : i \in ids}
<1>1. \A i \in ids : i \in Id
  OBVIOUS
<1>2. IsFiniteSet(ids)
  BY KeysFinite, FS_Subset
<1>3. {RemoveStatus(i) : i \in ids} = Range(F)
  BY DEF Range
<1>4. IsFiniteSet(Range(F))
  <2>1. F = [x \in DOMAIN F |-> F[x]] /\ DOMAIN F = ids
    OBVIOUS
  <2> HIDE DEF F
  <2> QED BY <1>2, <2>1, ImageFinite
<1>5. \A W \in Range(F) : IsFiniteSet(W)
  BY <1>1, <1>3, RemovedIs
<1>6. IsFiniteSet(U)
  <2>1. IsFiniteSet(UNION Range(F))
    <3> HIDE DEF F
    <3> QED BY <1>4, <1>5, FS_UNION
  <2> QED BY <1>3, <2>1
<1>7. ASSUME NEW w \in U
      PROVE  w \in Write /\ w.f # "acct" /\ OwnedWrite(disk, w) /\ \A s \in Slot : Leaves(w, s)
  BY <1>1, <1>7, RemovedIs
<1>8. \A i \in ids : RemoveStatus(i) \subseteq U
  OBVIOUS
<1>9. RemoveAll(ids) = InTurn(U)
  BY DEF RemoveAll
<1> HIDE DEF U
<1>10. InTurn(U) \in Seq(U) /\ Range(InTurn(U)) = U
  BY <1>6, <1>7, InTurnIs
<1>11. InTurn(U) \in Seq(Write)
  BY <1>7, <1>10
<1>12. \A V, f, k, i : i \in ids /\ Writes(RemoveStatus(i), f, k) => Writes(U, f, k)
  BY <1>8 DEF Writes
<1>13. Plain(disk, RemoveAll(ids)) /\ \A w \in Range(RemoveAll(ids)) : \A s \in Slot : Leaves(w, s)
  BY <1>7, <1>9, <1>10, <1>11 DEF Plain
<1> QED BY <1>1, <1>9, <1>10, <1>12, <1>13, RemovedIs

-----------------------------------------------------------------------------
(* One lemma per action. *)

\* A request whose writes are a plan.
LEMMA RequestKeeps ==
  ASSUME Inv, NEW t, Request(t), t \in Seq(Write), Planned(disk, t),
         lastId' \in 0..MaxId, lastAccount' \in Account
  PROVE  Inv'
<1>1. /\ mode = "up" /\ todo' = t
      /\ disk' = disk /\ ram' = ram /\ mode' = mode
  BY DEF Request, Ready
<1>2. Typed'
  BY <1>1 DEF Inv, Typed
<1>3. Mirror' /\ Toward'
  BY <1>1 DEF Inv, Mirror, Toward
<1>4. Owned(disk)' /\ Planned(disk, todo)'
  BY <1>1 DEF Inv
<1> QED BY <1>2, <1>3, <1>4 DEF Inv

\* A request that keeps the ids, or issues one, and frees no slot.
LEMMA PlainKeeps ==
  ASSUME Inv, NEW t, Request(t), Plain(disk, t),
         KeepIds \/ (lastId' \in Id /\ UNCHANGED lastAccount)
  PROVE  Inv'
<1>1. t \in Seq(Write) /\ Planned(disk, t)
  BY PlanPlain DEF Plain
<1>2. lastId' \in 0..MaxId /\ lastAccount' \in Account
  BY DEF Inv, Typed, KeepIds, Id
<1> QED BY <1>1, <1>2, RequestKeeps

\* What a service that takes a request knows.
LEMMA ReadyKnows ==
  ASSUME Inv, Ready
  PROVE  /\ ram.rec = disk /\ disk \in Records /\ ram.rec \in Records /\ Owned(disk)
         /\ Statuses \subseteq Id
         /\ \A i \in Statuses : ram.rec.stat[i] \in StatusRec
         /\ \A s \in Slot : Live(ram.rec, s) =>
              ram.rec.acct[s] \in AccountRec /\ OwnerIs(disk, s, ram.rec.acct[s].id)
BY DEF Inv, Typed, Ready, Mirror, Statuses, Records, Live, OwnerIs

\* What makes way are statuses.
LEMMA EvictableIs == Evictable \subseteq Id /\ \A n : \A v \in MakeRoom(n) : v \subseteq Id
BY DEF Evictable, Statuses, MakeRoom

\* A post writes what its author owns.
LEMMA PostStatusKeeps ==
  ASSUME HouseholdAssumption, Inv,
         NEW s \in Slot, NEW mentioned \in SUBSET Slot, NEW parent \in 0..MaxId,
         NEW poll \in BOOLEAN, NEW direct \in BOOLEAN,
         PostStatus(s, mentioned, parent, poll, direct)
  PROVE  Inv'
<1> DEFINE i == lastId + 1
           rec == [author |-> s, by |-> ram.rec.acct[s].id,
                   mentions |-> {ram.rec.acct[t].id : t \in mentioned},
                   parent |-> parent, direct |-> direct, ver |-> 1]
           first == IF poll THEN <<Put("poll", i, [ver |-> 1, votes |-> [t \in Slot |-> 0]])>>
                    ELSE <<>>
           second == IF direct THEN <<Put("dm", i, 1)>> ELSE <<>>
<1>1. /\ i \in Id /\ Live(ram.rec, s)
      /\ \A t \in mentioned : Live(ram.rec, t)
      /\ \/ NoRoom(<<>>)
         \/ \E v \in MakeRoom(IF Cardinality(Statuses) >= MaxStatuses THEN 1 ELSE 0) :
              /\ Request(RemoveAll(v) \o first \o second \o <<Put("stat", i, rec)>>)
              /\ lastId' = i
              /\ UNCHANGED lastAccount
  BY DEF PostStatus
<1>2. Ready
  BY <1>1 DEF NoRoom, Request
<1>3. /\ ram.rec = disk /\ ram.rec \in Records /\ ram.rec.acct[s] \in AccountRec
      /\ OwnerIs(disk, s, ram.rec.acct[s].id)
      /\ \A t \in mentioned : ram.rec.acct[t] \in AccountRec
  BY <1>1, <1>2, ReadyKnows
<1>4. 1 \in 1..MaxVersion /\ 1 \in 0..MaxVersion /\ 0 \in 0..MaxAccount
  BY DEF HouseholdAssumption
<1>5. Plain(disk, first)
  <2>1. [ver |-> 1, votes |-> [t \in Slot |-> 0]] \in PollRec
    BY <1>4 DEF PollRec
  <2>2. Put("poll", i, [ver |-> 1, votes |-> [t \in Slot |-> 0]]) \in Write
    BY <1>1, <2>1 DEF Put, Write
  <2>3. OwnedWrite(disk, Put("poll", i, [ver |-> 1, votes |-> [t \in Slot |-> 0]]))
    BY DEF OwnedWrite, Put
  <2>4. Plain(disk, <<Put("poll", i, [ver |-> 1, votes |-> [t \in Slot |-> 0]])>>)
    BY <2>2, <2>3, PlainOne DEF Put
  <2> QED BY <2>4, PlainNone
<1>6. Plain(disk, second)
  <2>1. Put("dm", i, 1) \in Write /\ OwnedWrite(disk, Put("dm", i, 1)) /\ Put("dm", i, 1).f # "acct"
    BY <1>1, <1>4 DEF Put, Write, OwnedWrite
  <2> QED BY <2>1, PlainOne, PlainNone
<1>7. Plain(disk, <<Put("stat", i, rec)>>)
  <2>1. rec \in StatusRec
    BY <1>3, <1>4 DEF StatusRec, AccountRec
  <2>2. Put("stat", i, rec) \in Write
    BY <1>1, <2>1 DEF Put, Write
  <2>3. OwnedWrite(disk, Put("stat", i, rec))
    BY <1>3 DEF OwnedWrite, Put
  <2> QED BY <2>2, <2>3, PlainOne DEF Put
<1> HIDE DEF rec, first, second
<1>8. CASE NoRoom(<<>>)
  <2>1. Plain(disk, <<>> \o RemoveAll(Evictable))
    BY <1>3, EvictableIs, RemovesAll, PlainNone, PlainConcat
  <2> QED BY <1>8, <2>1, PlainKeeps DEF NoRoom
<1>9. CASE \E v \in MakeRoom(IF Cardinality(Statuses) >= MaxStatuses THEN 1 ELSE 0) :
              /\ Request(RemoveAll(v) \o first \o second \o <<Put("stat", i, rec)>>)
              /\ lastId' = i
              /\ UNCHANGED lastAccount
  <2>1. PICK v \in SUBSET Id :
              /\ Request(RemoveAll(v) \o first \o second \o <<Put("stat", i, rec)>>)
              /\ lastId' = i
              /\ UNCHANGED lastAccount
    BY <1>9, EvictableIs
  <2>2. Plain(disk, RemoveAll(v))
    BY <1>3, RemovesAll
  <2>3. Plain(disk, RemoveAll(v) \o first \o second \o <<Put("stat", i, rec)>>)
    BY <1>5, <1>6, <1>7, <2>2, PlainConcat
  <2> QED BY <1>1, <2>1, <2>3, PlainKeeps
<1> QED BY <1>1, <1>8, <1>9

\* A deletion only erases.
LEMMA DeleteStatusKeeps ==
  ASSUME HouseholdAssumption, Inv, NEW i \in Id, DeleteStatus(i)
  PROVE  Inv'
<1>1. Request(RemoveAll({i})) /\ KeepIds
  BY DEF DeleteStatus
<1>2. Plain(disk, RemoveAll({i}))
  BY <1>1, ReadyKnows, RemovesAll DEF Request
<1> QED BY <1>1, <1>2, PlainKeeps

\* So does taking back a mark.
LEMMA UnsetMarkKeeps ==
  ASSUME HouseholdAssumption, Inv, NEW k \in Mark, UnsetMark(k)
  PROVE  Inv'
<1>1. Request(EraseIf("mark", {k})) /\ KeepIds
  BY DEF UnsetMark
<1>2. Plain(disk, EraseIf("mark", {k}))
  BY EraseIfIs DEF Field, NoRecords
<1> QED BY <1>1, <1>2, PlainKeeps

\* A vote is owned by who casts it.
LEMMA VoteKeeps ==
  ASSUME HouseholdAssumption, Inv, NEW s \in Slot, NEW i \in Id, Vote(s, i)
  PROVE  Inv'
<1> DEFINE rec == [ram.rec.poll[i] EXCEPT !.votes[s] = ram.rec.acct[s].id]
<1>1. /\ Live(ram.rec, s) /\ ram.rec.poll[i] # None
      /\ Request(<<Put("poll", i, rec)>>) /\ KeepIds
  BY DEF Vote
<1>2. /\ ram.rec = disk /\ ram.rec \in Records /\ Owned(disk)
      /\ ram.rec.acct[s] \in AccountRec /\ OwnerIs(disk, s, ram.rec.acct[s].id)
  BY <1>1, ReadyKnows DEF Request
<1>3. ram.rec.poll[i] \in PollRec
  BY <1>1, <1>2 DEF Records
<1>4. /\ rec \in PollRec
      /\ \A t \in Slot : rec.votes[t] = IF t = s THEN ram.rec.acct[s].id ELSE disk.poll[i].votes[t]
  BY <1>2, <1>3 DEF PollRec, AccountRec, Account
<1>5. disk.poll[i] # None
  BY <1>1, <1>2
<1> HIDE DEF rec
<1>6. Put("poll", i, rec) \in Write
  BY <1>4 DEF Put, Write
<1>7. OwnedWrite(disk, Put("poll", i, rec))
  BY <1>2, <1>4, <1>5 DEF OwnedWrite, Put, Owned
<1>8. Plain(disk, <<Put("poll", i, rec)>>)
  BY <1>6, <1>7, PlainOne DEF Put
<1> QED BY <1>1, <1>8, PlainKeeps

\* So is a mark, and what makes way for it is erased.
LEMMA SetMarkKeeps ==
  ASSUME HouseholdAssumption, Inv, NEW k \in Mark, SetMark(k)
  PROVE  Inv'
<1> DEFINE id == ram.rec.acct[k[3]].id
           last(v) == IF k[2] \in v THEN <<>> ELSE <<Put("mark", k, id)>>
<1>1. PICK b : /\ b = <<>> \/ \E o \in Marked("boost") : b = <<Erase("mark", o)>>
               /\ \/ NoRoom(b)
                  \/ \E v \in MakeRoom(0) : Request(b \o RemoveAll(v) \o last(v)) /\ KeepIds
  BY DEF SetMark
<1>2. Ready /\ Live(ram.rec, k[3]) /\ k[3] \in Slot
  BY <1>1 DEF NoRoom, Request, SetMark, Mark
<1>3. /\ ram.rec \in Records
      /\ ram.rec.acct[k[3]] \in AccountRec /\ OwnerIs(disk, k[3], id)
  BY <1>2, ReadyKnows
<1>4. Plain(disk, b)
  <2>1. ASSUME NEW o \in Mark PROVE Plain(disk, <<Erase("mark", o)>>)
    <3>1. /\ Erase("mark", o) \in Write /\ OwnedWrite(disk, Erase("mark", o))
          /\ Erase("mark", o).f # "acct"
      <4>1. "mark" \in Field /\ o \in DOMAIN NoRecords["mark"]
        BY DEF Field, NoRecords
      <4> QED BY <4>1, EraseIs
    <3> QED BY <3>1, PlainOne
  <2> QED BY <1>1, <2>1, PlainNone DEF Marked
<1>5. \A v : Plain(disk, last(v))
  <2>1. Put("mark", k, id) \in Write
    BY <1>3 DEF Put, Write, AccountRec, Account, HouseholdAssumption
  <2>2. OwnedWrite(disk, Put("mark", k, id))
    BY <1>3 DEF OwnedWrite, Put
  <2>3. Plain(disk, <<Put("mark", k, id)>>)
    BY <2>1, <2>2, PlainOne DEF Put
  <2> QED BY <2>3, PlainNone
<1> HIDE DEF last
<1>6. CASE NoRoom(b)
  <2>1. Plain(disk, b \o RemoveAll(Evictable))
    BY <1>3, <1>4, EvictableIs, RemovesAll, PlainConcat
  <2> QED BY <1>6, <2>1, PlainKeeps DEF NoRoom
<1>7. CASE \E v \in MakeRoom(0) : Request(b \o RemoveAll(v) \o last(v)) /\ KeepIds
  <2>1. PICK v \in SUBSET Id : Request(b \o RemoveAll(v) \o last(v)) /\ KeepIds
    BY <1>7, EvictableIs
  <2>2. Plain(disk, b \o RemoveAll(v) \o last(v))
    BY <1>3, <1>4, <1>5, RemovesAll, PlainConcat
  <2> QED BY <2>1, <2>2, PlainKeeps
<1> QED BY <1>1, <1>6, <1>7

\* A revision has one of the numbers of a revision.
LEMMA RevisionSlotIs ==
  ASSUME HouseholdAssumption, ram.rec \in Records, NEW i \in Id, NEW gone
  PROVE  RevisionSlot(i, gone) \in 1..Revisions
<1> DEFINE used   == RevisionsOf(i) \ {n \in 1..Revisions : <<i, n>> \in gone}
           ages   == {ram.rec.hist[<<i, n>>] : n \in used}
           oldest == {n \in used : \A o \in used : ram.rec.hist[<<i, n>>] <= ram.rec.hist[<<i, o>>]}
<1>1. used \subseteq 1..Revisions /\ 1..Revisions \in SUBSET Nat /\ Revisions \in Nat \ {0}
  BY DEF RevisionsOf, HouseholdAssumption
<1>2. \A n \in 1..Revisions : ram.rec.hist[<<i, n>>] \in Nat
  BY DEF Records, HouseholdAssumption
<1>3. CASE used # 1..Revisions
  <2>1. (1..Revisions) \ used # {} /\ (1..Revisions) \ used \in SUBSET Nat
    BY <1>1, <1>3
  <2>2. Min((1..Revisions) \ used) \in (1..Revisions) \ used
    BY <2>1, Least
  <2> QED BY <1>3, <2>2 DEF RevisionSlot
<1>4. CASE used = 1..Revisions
  <2>0. ages \in SUBSET Nat /\ ages # {}
    <3> HIDE DEF used
    <3>1. 1 \in used
      BY <1>1, <1>4
    <3>2. ram.rec.hist[<<i, 1>>] \in ages
      BY <3>1
    <3>3. \A n \in used : ram.rec.hist[<<i, n>>] \in Nat
      BY <1>2, <1>4
    <3> QED BY <3>2, <3>3
  <2>2. Min(ages) \in ages /\ \A x \in ages : Min(ages) <= x
    <3> HIDE DEF ages
    <3> QED BY <2>0, Least
  <2>3. PICK n \in used : ram.rec.hist[<<i, n>>] = Min(ages)
    BY <2>2
  <2>4. n \in oldest
    BY <2>2, <2>3
  <2>5. oldest # {} /\ oldest \in SUBSET Nat
    BY <1>1, <2>4
  <2>6. Min(oldest) \in oldest
    <3> HIDE DEF oldest
    <3> QED BY <2>5, Least
  <2> QED BY <1>1, <1>4, <2>6 DEF RevisionSlot
<1> QED BY <1>3, <1>4

\* An edit leaves the author as it is.
LEMMA EditStatusKeeps ==
  ASSUME HouseholdAssumption, Inv,
         NEW i \in Id, NEW mentioned \in SUBSET Slot, NEW poll \in {"none", "keep", "new"},
         EditStatus(i, mentioned, poll)
  PROVE  Inv'
<1> DEFINE old == ram.rec.stat[i]
           rec == [old EXCEPT !.ver = @ + 1,
                     !.mentions = {ram.rec.acct[t].id : t \in mentioned}]
           first(gone) == IF old.direct THEN <<>> ELSE KeepRevision(i, gone)
           second == CASE poll = "keep" -> <<>>
                       [] poll = "new"  -> <<Put("poll", i, [ver |-> rec.ver,
                                               votes |-> [t \in Slot |-> 0]])>>
                       [] poll = "none" -> EraseIf("poll", {i})
           third == IF old.direct THEN <<Put("dm", i, rec.ver)>> ELSE <<>>
<1>1. /\ i \in Statuses /\ old.ver < MaxVersion
      /\ \A t \in mentioned : Live(ram.rec, t)
      /\ \E gone \in HistoryGone :
           Request(first(gone) \o second \o third \o <<Put("stat", i, rec)>>)
      /\ KeepIds
  BY DEF EditStatus
<1>2. /\ ram.rec = disk /\ ram.rec \in Records /\ Owned(disk)
      /\ old \in StatusRec /\ old # None
      /\ \A t \in mentioned : ram.rec.acct[t] \in AccountRec
  BY <1>1, ReadyKnows DEF Request, Statuses
<1>3. old.ver \in Nat /\ old.ver \in 0..MaxVersion /\ old.ver + 1 \in 1..MaxVersion
      /\ old.ver + 1 \in 0..MaxVersion /\ 0 \in 0..MaxAccount
  BY <1>1, <1>2 DEF StatusRec, HouseholdAssumption
<1>4. /\ rec \in StatusRec /\ rec.ver = old.ver + 1
      /\ rec.author = old.author /\ rec.by = old.by
  BY <1>2, <1>3 DEF StatusRec, AccountRec
<1>5. OwnerIs(disk, old.author, old.by)
  BY <1>2 DEF Owned
<1> HIDE DEF old, rec
<1>6. ASSUME NEW gone \in HistoryGone PROVE Plain(disk, first(gone))
  <2>1. gone \in SUBSET DOMAIN NoRecords["hist"] /\ "hist" \in Field
    <3>1. DOMAIN ram.rec.hist = Id \X (1..Revisions) /\ DOMAIN NoRecords["hist"] = Id \X (1..Revisions)
      BY <1>2 DEF Records, NoRecords
    <3>2. \A h \in OldestRevisions : h \in DOMAIN ram.rec.hist
      BY DEF OldestRevisions
    <3>3. gone = {} \/ \E h \in OldestRevisions : gone = {h}
      BY <1>6 DEF HistoryGone
    <3> QED BY <3>1, <3>2, <3>3 DEF Field
  <2>2. Plain(disk, EraseIf("hist", gone))
    BY <2>1, EraseIfIs
  <2>3. RevisionSlot(i, gone) \in 1..Revisions
    BY <1>2, RevisionSlotIs
  <2> DEFINE w == Put("hist", <<i, RevisionSlot(i, gone)>>, ram.rec.stat[i].ver)
  <2>4. w \in Write /\ OwnedWrite(disk, w) /\ w.f # "acct"
    BY <1>3, <2>3 DEF Put, Write, OwnedWrite, old
  <2>5. Plain(disk, <<w>>)
    BY <2>4, PlainOne
  <2>6. Plain(disk, KeepRevision(i, gone))
    BY <2>2, <2>5, PlainConcat DEF KeepRevision
  <2> QED BY <2>6, PlainNone
<1>7. Plain(disk, second)
  <2> DEFINE w == Put("poll", i, [ver |-> rec.ver, votes |-> [t \in Slot |-> 0]])
  <2>1. [ver |-> rec.ver, votes |-> [t \in Slot |-> 0]] \in PollRec
    BY <1>3, <1>4 DEF PollRec
  <2>2. w \in Write /\ OwnedWrite(disk, w) /\ w.f # "acct"
    BY <2>1 DEF Put, Write, OwnedWrite
  <2>3. Plain(disk, <<w>>)
    BY <2>2, PlainOne
  <2>4. Plain(disk, EraseIf("poll", {i}))
    BY EraseIfIs DEF Field, NoRecords
  <2> QED BY <2>3, <2>4, PlainNone
<1>8. Plain(disk, third)
  <2>1. Put("dm", i, rec.ver) \in Write /\ OwnedWrite(disk, Put("dm", i, rec.ver))
        /\ Put("dm", i, rec.ver).f # "acct"
    BY <1>3, <1>4 DEF Put, Write, OwnedWrite
  <2> QED BY <2>1, PlainOne, PlainNone
<1>9. Plain(disk, <<Put("stat", i, rec)>>)
  <2>1. Put("stat", i, rec) \in Write
    BY <1>4 DEF Put, Write
  <2>2. OwnedWrite(disk, Put("stat", i, rec))
    BY <1>4, <1>5 DEF Put, OwnedWrite
  <2> QED BY <2>1, <2>2, PlainOne DEF Put
<1>10. PICK gone \in HistoryGone :
         Request(first(gone) \o second \o third \o <<Put("stat", i, rec)>>)
  BY <1>1
<1>11. Plain(disk, first(gone))
  BY <1>6
<1> HIDE DEF first, second, third
<1>12. Plain(disk, first(gone) \o second \o third \o <<Put("stat", i, rec)>>)
  BY <1>7, <1>8, <1>9, <1>11, PlainConcat
<1> QED BY <1>1, <1>10, <1>12, PlainKeeps

\* A new member takes a free slot, of which the store holds nothing.
LEMMA CreateMemberKeeps ==
  ASSUME HouseholdAssumption, Inv, CreateMember
  PROVE  Inv'
<1> DEFINE free == {s \in Slot : ram.rec.acct[s] = None}
           rec == [id |-> lastAccount + 1, deleted |-> FALSE]
           t == <<Put("acct", Min(free), rec)>>
<1>1. /\ free # {} /\ lastAccount < MaxAccount /\ Request(t)
      /\ lastAccount' = lastAccount + 1 /\ UNCHANGED lastId
  BY DEF CreateMember
<1>2. ram.rec = disk
  BY <1>1, ReadyKnows DEF Request
<1>3. Min(free) \in free
  <2>1. free \in SUBSET Nat
    BY DEF Slot, HouseholdAssumption
  <2> HIDE DEF free
  <2> QED BY <1>1, <2>1, Least
<1>4. lastAccount' \in Account /\ lastId' \in 0..MaxId
  BY <1>1 DEF Inv, Typed, Account, HouseholdAssumption
<1>5. rec \in AccountRec
  BY <1>1, <1>4 DEF AccountRec
<1>6. Min(free) \in Slot /\ disk.acct[Min(free)] = None
  BY <1>2, <1>3
<1> HIDE DEF free, rec
<1> DEFINE w == Put("acct", Min(free), rec)
<1>7. w \in Write /\ w.f = "acct" /\ w.k = Min(free) /\ w.v = rec
  BY <1>5, <1>6 DEF Put, Write
<1>8. rec # None
  BY <1>5 DEF HouseholdAssumption
<1> HIDE DEF w
<1>9. <<w>> \in Seq(Write) /\ DOMAIN <<w>> = {1} /\ Len(<<w>>) = 1 /\ <<w>>[1] = w
      /\ Range(<<w>>) = {w}
  BY <1>7 DEF Range
<1>10. Planned(disk, <<w>>)
  BY <1>6, <1>7, <1>8, <1>9 DEF Planned, Frees, OwnedWrite
<1>11. t \in Seq(Write) /\ Planned(disk, t)
  BY <1>9, <1>10 DEF w
<1> HIDE DEF t
<1> QED BY <1>1, <1>4, <1>11, RequestKeeps

\* The votes of a member are taken out of the polls that are left.
LEMMA ForgetVotesIs ==
  ASSUME HouseholdAssumption, ram.rec \in Records, ram.rec = disk, Owned(disk),
         NEW s \in Slot, NEW gone \in SUBSET Id
  PROVE  /\ Plain(disk, ForgetVotes(s, gone))
         /\ \A w \in Range(ForgetVotes(s, gone)) : Leaves(w, s)
         /\ \A i \in Id \ gone : disk.poll[i] # None /\ disk.poll[i].votes[s] # 0 =>
              Writes(Range(ForgetVotes(s, gone)), "poll", i)
<1> DEFINE V == {i \in Id \ gone : ram.rec.poll[i] # None /\ ram.rec.poll[i].votes[s] > 0}
           voted == SetToSeq(V)
           w(i) == Put("poll", i, [ram.rec.poll[i] EXCEPT !.votes[s] = 0])
           t == [n \in DOMAIN voted |-> w(voted[n])]
<1>1. ForgetVotes(s, gone) = t
  BY DEF ForgetVotes
<1>2. V \subseteq Id /\ IsFiniteSet(V)
  BY KeysFinite, FS_Subset
<1>3. ASSUME NEW i \in V
      PROVE  w(i) \in Write /\ w(i).f = "poll" /\ w(i).k = i /\ OwnedWrite(disk, w(i)) /\ Leaves(w(i), s)
  <2> DEFINE r == [ram.rec.poll[i] EXCEPT !.votes[s] = 0]
  <2>1. ram.rec.poll[i] \in PollRec /\ disk.poll[i] # None /\ i \in Id
    BY <1>3 DEF Records
  <2>2. /\ r \in PollRec
        /\ \A u \in Slot : r.votes[u] = IF u = s THEN 0 ELSE disk.poll[i].votes[u]
    BY <2>1 DEF PollRec, HouseholdAssumption
  <2> HIDE DEF r
  <2>3. Put("poll", i, r) \in Write
    BY <2>1, <2>2 DEF Put, Write
  <2>4. OwnedWrite(disk, Put("poll", i, r)) /\ Leaves(Put("poll", i, r), s)
    BY <2>1, <2>2 DEF OwnedWrite, Leaves, Put, Owned
  <2> QED BY <2>3, <2>4 DEF r, Put
<1> HIDE DEF V
<1>4. voted \in Seq(V) /\ Range(voted) = V /\ voted \in [1..Cardinality(V) -> V]
      /\ Cardinality(V) \in Nat
  BY <1>2, Listed
<1> HIDE DEF voted, w
<1>5. DOMAIN t = 1..Cardinality(V) /\ \A n \in DOMAIN t : voted[n] \in V /\ t[n] = w(voted[n])
  BY <1>4
<1>6. t \in Seq(Write)
  <2>1. \A n \in 1..Cardinality(V) : t[n] \in Write
    BY <1>3, <1>5
  <2>2. t = [n \in 1..Cardinality(V) |-> t[n]]
    BY <1>5
  <2> HIDE DEF t
  <2>3. t \in [1..Cardinality(V) -> Write]
    BY <2>1, <2>2
  <2> QED BY <1>4, <2>3
<1>7. \A x \in Range(t) : \E i \in V : x = w(i)
  BY <1>5 DEF Range
<1>8. \A i \in V : w(i) \in Range(t)
  <2> TAKE i \in V
  <2>1. PICK n \in DOMAIN voted : voted[n] = i
    BY <1>4 DEF Range
  <2>2. n \in DOMAIN t /\ t[n] = w(i)
    BY <1>4, <1>5, <2>1
  <2> QED BY <2>2 DEF Range
<1> HIDE DEF t
<1>9. Plain(disk, t) /\ \A x \in Range(t) : Leaves(x, s)
  BY <1>3, <1>6, <1>7 DEF Plain
<1>10. ASSUME NEW i \in Id \ gone, disk.poll[i] # None, disk.poll[i].votes[s] # 0
       PROVE  Writes(Range(t), "poll", i)
  <2>1. disk.poll[i].votes[s] \in Nat
    BY <1>10 DEF Records, PollRec, HouseholdAssumption
  <2>2. i \in V
    BY <1>10, <2>1 DEF V
  <2> QED BY <1>3, <1>8, <2>2 DEF Writes
<1> QED BY <1>1, <1>9, <1>10

\* A purge frees the slot when all its member left is gone.
LEMMA DeleteAccountKeeps ==
  ASSUME HouseholdAssumption, Inv, NEW s \in Slot, DeleteAccount(s)
  PROVE  Inv'
<1> DEFINE own == {i \in Statuses : ram.rec.stat[i].author = s}
           ms == {k \in Mark : k[3] = s /\ k[2] \notin own}
           tomb == Put("acct", s, [ram.rec.acct[s] EXCEPT !.deleted = TRUE])
           last == Erase("acct", s)
           p == <<tomb>> \o RemoveAll(own) \o EraseIf("mark", ms) \o ForgetVotes(s, own)
<1>1. Request(p \o <<last>>) /\ KeepIds /\ Live(ram.rec, s)
  BY DEF DeleteAccount, Purge
<1>2. /\ ram.rec = disk /\ ram.rec \in Records /\ Owned(disk) /\ Statuses \subseteq Id
      /\ ram.rec.acct[s] \in AccountRec /\ OwnerIs(disk, s, ram.rec.acct[s].id)
  BY <1>1, ReadyKnows DEF Request
<1>3. own \subseteq Id /\ ms \subseteq Mark
  BY <1>2
<1>4. /\ tomb \in Write /\ tomb.f = "acct" /\ tomb.k = s /\ tomb.v # None
      /\ tomb.v.id = ram.rec.acct[s].id
      /\ OwnedWrite(disk, tomb) /\ Leaves(tomb, s)
  <2> DEFINE r == [ram.rec.acct[s] EXCEPT !.deleted = TRUE]
  <2>1. r \in AccountRec /\ r.id = ram.rec.acct[s].id
    BY <1>2 DEF AccountRec
  <2>2. r # None
    BY <2>1 DEF HouseholdAssumption
  <2> HIDE DEF r
  <2>3. Put("acct", s, r) \in Write
    BY <2>1 DEF Put, Write
  <2> QED BY <2>1, <2>2, <2>3 DEF Put, OwnedWrite, Leaves, r
<1>5. last \in Write /\ last.f = "acct" /\ last.k = s /\ last.v = None
  <2>1. "acct" \in Field /\ s \in DOMAIN NoRecords["acct"] /\ NoRecords["acct"][s] = None
    BY DEF Field, NoRecords
  <2> QED BY <2>1, EraseIs
<1>6. /\ Plain(disk, RemoveAll(own))
      /\ \A w \in Range(RemoveAll(own)) : Leaves(w, s)
      /\ \A i \in own :
           /\ disk.stat[i] # None => Writes(Range(RemoveAll(own)), "stat", i)
           /\ disk.poll[i] # None => Writes(Range(RemoveAll(own)), "poll", i)
           /\ \A k \in Mark : k[2] = i /\ disk.mark[k] # 0 => Writes(Range(RemoveAll(own)), "mark", k)
  BY <1>2, <1>3, RemovesAll
<1>7. /\ Plain(disk, EraseIf("mark", ms))
      /\ \A w \in Range(EraseIf("mark", ms)) : Leaves(w, s)
      /\ \A k \in ms : disk.mark[k] # 0 => Writes(Range(EraseIf("mark", ms)), "mark", k)
  <2>1. "mark" \in Field \ {"acct"} /\ DOMAIN NoRecords["mark"] = Mark
        /\ \A k \in Mark : NoRecords["mark"][k] = 0
    BY DEF Field, NoRecords
  <2> HIDE DEF ms
  <2> QED BY <1>2, <1>3, <2>1, EraseIfIs, ErasuresAre
<1>8. /\ Plain(disk, ForgetVotes(s, own))
      /\ \A w \in Range(ForgetVotes(s, own)) : Leaves(w, s)
      /\ \A i \in Id \ own : disk.poll[i] # None /\ disk.poll[i].votes[s] # 0 =>
           Writes(Range(ForgetVotes(s, own)), "poll", i)
  <2> HIDE DEF own
  <2> QED BY <1>2, <1>3, ForgetVotesIs
<1>9. \A i \in Id : disk.stat[i] # None /\ disk.stat[i].author = s => i \in own
  BY <1>2 DEF Statuses
<1>10. \A k \in Mark : k[3] = s /\ k[2] \notin own => k \in ms
  OBVIOUS
<1> DEFINE A == RemoveAll(own)
           B == EraseIf("mark", ms)
           C == ForgetVotes(s, own)
           T == <<tomb>>
<1>11. /\ Plain(disk, A) /\ Plain(disk, B) /\ Plain(disk, C)
       /\ \A w \in Range(A) \cup Range(B) \cup Range(C) : Leaves(w, s)
  BY <1>6, <1>7, <1>8
<1>12. /\ \A i \in Id : disk.stat[i] # None /\ disk.stat[i].author = s => Writes(Range(A), "stat", i)
       /\ \A k \in Mark : disk.mark[k] # 0 /\ k[3] = s => Writes(Range(A) \cup Range(B), "mark", k)
       /\ \A i \in Id : disk.poll[i] # None /\ disk.poll[i].votes[s] # 0 =>
            Writes(Range(A) \cup Range(C), "poll", i)
  BY <1>6, <1>7, <1>8, <1>9, <1>10 DEF Writes
<1> HIDE DEF tomb, last, own, ms, A, B, C, T
<1>13. p = T \o A \o B \o C
  BY DEF A, B, C, T
<1>14. T \in Seq(Write) /\ Range(T) = {tomb}
  BY <1>4 DEF Range, T
<1>15. p \in Seq(Write) /\ Range(p) = {tomb} \cup Range(A) \cup Range(B) \cup Range(C)
  <2>1. A \in Seq(Write) /\ B \in Seq(Write) /\ C \in Seq(Write)
    BY <1>11 DEF Plain
  <2> DEFINE TA == T \o A
             TAB == TA \o B
  <2>2. TA \in Seq(Write) /\ Range(TA) = {tomb} \cup Range(A)
    BY <1>14, <2>1, RangeConcat
  <2> HIDE DEF TA
  <2>3. TAB \in Seq(Write) /\ Range(TAB) = {tomb} \cup Range(A) \cup Range(B)
    BY <2>1, <2>2, RangeConcat
  <2> HIDE DEF TAB
  <2>4. TAB \o C \in Seq(Write)
        /\ Range(TAB \o C) = {tomb} \cup Range(A) \cup Range(B) \cup Range(C)
    BY <2>1, <2>3, RangeConcat
  <2>5. p = TAB \o C
    BY <1>13 DEF TA, TAB
  <2> QED BY <2>4, <2>5
<1>16. <<last>> \in Seq(Write) /\ Range(<<last>>) = {last}
  BY <1>5 DEF Range
<1> HIDE DEF p
<1>17. \A w \in Range(p) : OwnedWrite(disk, w) /\ (w.f = "acct" => w.v # None /\ OwnerIs(disk, w.k, w.v.id))
  BY <1>2, <1>4, <1>11, <1>15 DEF Plain
<1>18. \A w \in Range(p) : Leaves(w, s)
  BY <1>4, <1>11, <1>15
<1>19. Cleared(disk, Range(p), s)
  BY <1>12, <1>15 DEF Cleared, Writes
<1>20. Planned(disk, p \o <<last>>) /\ p \o <<last>> \in Seq(Write)
  <2>1. p \o <<last>> \in Seq(Write)
    BY <1>15, <1>16, RangeConcat
  <2> QED BY <1>5, <1>15, <1>16, <1>17, <1>18, <1>19, <2>1, PlanEnds
<1>21. lastId' \in 0..MaxId /\ lastAccount' \in Account
  BY <1>1 DEF KeepIds, Inv, Typed
<1> QED BY <1>1, <1>20, <1>21, RequestKeeps

\* A write: the service does to its memory what it does to the store, and one
\* that boots brings the store to what it has in memory.
LEMMA StepKeeps ==
  ASSUME HouseholdAssumption, Inv, Step
  PROVE  Inv'
<1> DEFINE w == Head(todo)
<1>1. /\ todo # <<>> /\ todo \in Seq(Write) /\ disk \in Records /\ ram.rec \in Records
      /\ disk' = Stored(disk, w) /\ todo' = Tail(todo)
      /\ ram' = IF mode = "up" THEN Applied(ram, w) ELSE ram
      /\ mode' = mode /\ lastId' = lastId /\ lastAccount' = lastAccount
  BY DEF Step, Inv, Typed
<1>2. w \in Range(todo) /\ w \in Write /\ Range(todo) = {w} \cup Range(todo')
  BY <1>1, RangeTail, RangeOf
<1>3. /\ disk' \in Records /\ Owned(disk') /\ Planned(disk', todo') /\ todo' \in Seq(Write)
  BY <1>1, WriteKeeps DEF Inv
<1>4. /\ Stored(ram.rec, w) \in Records
      /\ \A f \in Field : \A k \in DOMAIN NoRecords[f] : Stored(disk, w)[f][k] =
              IF w.f = f /\ w.k = k THEN w.v ELSE disk[f][k]
  BY <1>1, <1>2, StoredIs
<1> HIDE DEF w
<1>5. CASE mode = "up"
  <2>1. ram = [rec |-> ram.rec, mentions |-> ram.mentions, replies |-> ram.replies]
    BY DEF Inv, Typed
  <2>2. /\ Applied(ram, w).rec = Stored(ram.rec, w)
        /\ Applied(ram, w) = [rec |-> Applied(ram, w).rec, mentions |-> Applied(ram, w).mentions,
                              replies |-> Applied(ram, w).replies]
    BY <2>1 DEF Applied
  <2>3. Mirror'
    BY <1>1, <1>5, <2>2 DEF Mirror, Inv
  <2>4. Typed'
    BY <1>1, <1>3, <1>4, <1>5, <2>2 DEF Inv, Typed
  <2>5. Toward'
    BY <1>1, <1>5 DEF Toward
  <2> QED BY <1>3, <2>3, <2>4, <2>5 DEF Inv
<1>6. CASE mode # "up"
  <2>1. Typed' /\ Mirror'
    BY <1>1, <1>3, <1>6 DEF Inv, Typed, Mirror
  <2>2. Toward'
    <3> SUFFICES ASSUME mode = "booting" PROVE Toward'
      BY <1>1 DEF Toward
    <3>1. /\ \A x \in Range(todo) : x.v = ram.rec[x.f][x.k]
          /\ \A f \in Field : \A k \in DOMAIN NoRecords[f] :
               disk[f][k] = ram.rec[f][k] \/ Writes(Range(todo), f, k)
      BY DEF Inv, Toward
    <3>2. \A x \in Range(todo') : x.v = ram.rec[x.f][x.k]
      BY <1>2, <3>1
    <3>3. ASSUME NEW f \in Field, NEW k \in DOMAIN NoRecords[f]
          PROVE  disk'[f][k] = ram.rec[f][k] \/ Writes(Range(todo'), f, k)
      BY <1>1, <1>2, <1>4, <3>1 DEF Writes
    <3>4. ram' = ram
      BY <1>1, <1>6
    <3> QED BY <3>2, <3>3, <3>4 DEF Toward
  <2> QED BY <1>3, <2>1, <2>2 DEF Inv
<1> QED BY <1>5, <1>6

\* A list with nothing in it is a plan.
LEMMA NothingPlanned == ASSUME NEW d PROVE Planned(d, <<>>) /\ <<>> \in Seq(Write)
BY PlanPlain, PlainNone DEF Plain

\* A write cut short was made, or was not.
LEMMA CutKeeps ==
  ASSUME Inv, todo # <<>>, disk' \in {disk, Stored(disk, Head(todo))}
  PROVE  disk' \in Records /\ Owned(disk')
BY WriteKeeps DEF Inv, Typed

\* A write that fails leaves nothing to write.
LEMMA StepFailsKeeps == ASSUME Inv, StepFails PROVE Inv'
<1>1. /\ todo' = <<>> /\ mode' \in {"latched", "down"} /\ ram' = ram
      /\ lastId' = lastId /\ lastAccount' = lastAccount
      /\ disk' \in Records /\ Owned(disk')
  BY CutKeeps DEF StepFails, KeepIds
<1>2. Typed' /\ Mirror' /\ Toward'
  BY <1>1, NothingPlanned DEF Inv, Typed, Mirror, Toward
<1> QED BY <1>1, <1>2, NothingPlanned DEF Inv

\* A write refused by a full flash leaves nothing to write.
LEMMA StepRefusedKeeps == ASSUME Inv, StepRefused PROVE Inv'
<1>1. /\ todo' = <<>> /\ mode = "up" /\ mode' = mode /\ ram' = ram /\ disk' = disk
      /\ lastId' = lastId /\ lastAccount' = lastAccount
  BY DEF StepRefused, KeepIds
<1>2. Typed' /\ Mirror' /\ Toward'
  BY <1>1, NothingPlanned DEF Inv, Typed, Mirror, Toward
<1> QED BY <1>1, <1>2, NothingPlanned DEF Inv

-----------------------------------------------------------------------------
(* What boot loads, and the writes that repair the store. *)

\* What is loaded of a well-formed store is well formed.
LEMMA LoadedIs ==
  ASSUME HouseholdAssumption, NEW d \in Records
  PROVE  /\ Loaded(d) \in Records
         /\ \A i \in Id : Loaded(d).poll[i] # None =>
              /\ d.poll[i] # None /\ Kept(d, i)
              /\ \A s \in Slot : Loaded(d).poll[i].votes[s] =
                   IF Tombstoned(d, s) THEN 0 ELSE d.poll[i].votes[s]
         /\ \A i \in Id : /\ Loaded(d).stat[i] = IF Kept(d, i) THEN d.stat[i] ELSE None
                          /\ Loaded(d).dm[i] = IF Kept(d, i) THEN d.dm[i] ELSE 0
         /\ \A k \in Mark : Loaded(d).mark[k] =
              IF Kept(d, k[2]) /\ Live(d, k[3]) THEN d.mark[k] ELSE 0
         /\ \A s \in Slot : Loaded(d).acct[s] = IF Live(d, s) THEN d.acct[s] ELSE None
         /\ \A h \in Id \X (1..Revisions) : Loaded(d).hist[h] \in {0, d.hist[h]}
<1> DEFINE r == Loaded(d)
<1>1. 0 \in 0..MaxVersion /\ 0 \in 0..MaxAccount
  BY DEF HouseholdAssumption
<1>2. DOMAIN d.hist = Id \X (1..Revisions)
  BY DEF Records
<1>3. r = [acct |-> r.acct, stat |-> r.stat, poll |-> r.poll, dm |-> r.dm,
           hist |-> r.hist, mark |-> r.mark]
  BY DEF Loaded
<1>4. /\ r.acct \in [Slot -> AccountRec \cup {None}]
      /\ \A s \in Slot : r.acct[s] = IF Live(d, s) THEN d.acct[s] ELSE None
  BY DEF Loaded, Records
<1>5. /\ r.stat \in [Id -> StatusRec \cup {None}]
      /\ \A i \in Id : r.stat[i] = IF Kept(d, i) THEN d.stat[i] ELSE None
  BY DEF Loaded, Records
<1>6. /\ r.dm \in [Id -> 0..MaxVersion]
      /\ \A i \in Id : r.dm[i] = IF Kept(d, i) THEN d.dm[i] ELSE 0
  BY <1>1 DEF Loaded, Records
<1>7. /\ r.hist \in [Id \X (1..Revisions) -> 0..MaxVersion]
      /\ \A h \in Id \X (1..Revisions) : r.hist[h] \in {0, d.hist[h]}
  BY <1>1, <1>2 DEF Loaded, Records
<1>8. /\ r.mark \in [Mark -> 0..MaxAccount]
      /\ \A k \in Mark : r.mark[k] = IF Kept(d, k[2]) /\ Live(d, k[3]) THEN d.mark[k] ELSE 0
  BY <1>1 DEF Loaded, Records
<1>9. ASSUME NEW p \in PollRec
      PROVE  /\ VotesOfMembers(d, p) \in PollRec
             /\ \A s \in Slot : VotesOfMembers(d, p).votes[s] =
                  IF Tombstoned(d, s) THEN 0 ELSE p.votes[s]
  BY <1>1 DEF VotesOfMembers, PollRec
<1>10. /\ r.poll \in [Id -> PollRec \cup {None}]
       /\ \A i \in Id : r.poll[i] # None =>
              /\ d.poll[i] # None /\ Kept(d, i)
              /\ \A s \in Slot : r.poll[i].votes[s] =
                   IF Tombstoned(d, s) THEN 0 ELSE d.poll[i].votes[s]
  <2>1. r.poll = [i \in Id |-> IF Kept(d, i) /\ d.poll[i] # None
                               THEN VotesOfMembers(d, d.poll[i]) ELSE None]
    BY DEF Loaded
  <2>2. \A i \in Id : d.poll[i] # None => d.poll[i] \in PollRec
    BY DEF Records
  <2> HIDE DEF r
  <2> QED BY <1>9, <2>1, <2>2
<1> HIDE DEF r
<1>11. r \in Records
  BY <1>3, <1>4, <1>5, <1>6, <1>7, <1>8, <1>10 DEF Records
<1> QED BY <1>4, <1>5, <1>6, <1>7, <1>8, <1>10, <1>11 DEF r

\* A repair of each of some keys, to what boot loads.
LEMMA RepairsOfAre ==
  ASSUME HouseholdAssumption, NEW d, NEW r \in Records,
         NEW f \in Field, NEW ks \in SUBSET DOMAIN NoRecords[f]
  PROVE  /\ RepairsOf(d, r, f, ks) \in Seq(Write)
         /\ \A x \in Range(RepairsOf(d, r, f, ks)) : x.f = f /\ x.k \in ks /\ x.v = r[f][x.k]
         /\ \A k \in ks : Writes(Range(RepairsOf(d, r, f, ks)), f, k)
<1> DEFINE order == SetToSeq(ks)
           t == [n \in DOMAIN order |-> Put(f, order[n], r[f][order[n]])]
<1>1. RepairsOf(d, r, f, ks) = t
  BY DEF RepairsOf
<1>2. order \in [1..Cardinality(ks) -> ks] /\ Range(order) = ks /\ Cardinality(ks) \in Nat
  <2>1. IsFiniteSet(ks)
    BY KeysFinite, FS_Subset
  <2> QED BY <2>1, Listed
<1>3. \A k \in ks : Put(f, k, r[f][k]) \in Write
  BY DEF Put, Write, Records, NoRecords, Field
<1> HIDE DEF order
<1>4. DOMAIN t = 1..Cardinality(ks)
      /\ \A n \in DOMAIN t : order[n] \in ks /\ t[n] = Put(f, order[n], r[f][order[n]])
  BY <1>2
<1>5. t \in Seq(Write)
  <2>1. \A n \in 1..Cardinality(ks) : t[n] \in Write
    BY <1>3, <1>4
  <2>2. t = [n \in 1..Cardinality(ks) |-> t[n]]
    BY <1>4
  <2> HIDE DEF t
  <2>3. t \in [1..Cardinality(ks) -> Write]
    BY <2>1, <2>2
  <2> QED BY <1>2, <2>3
<1>6. \A x \in Range(t) : \E k \in ks : x = Put(f, k, r[f][k])
  BY <1>4 DEF Range
<1>7. \A k \in ks : Put(f, k, r[f][k]) \in Range(t)
  <2> TAKE k \in ks
  <2>1. PICK n \in DOMAIN order : order[n] = k
    BY <1>2 DEF Range
  <2>2. n \in DOMAIN t /\ t[n] = Put(f, k, r[f][k])
    BY <1>2, <1>4, <2>1
  <2> QED BY <2>2 DEF Range
<1> HIDE DEF t
<1>8. \A k : LET w == Put(f, k, r[f][k]) IN w.f = f /\ w.k = k /\ w.v = r[f][k]
  BY DEF Put
<1> QED BY <1>1, <1>5, <1>6, <1>7, <1>8 DEF Writes

\* Every change that boot finds is repaired, and a slot of a tombstone is freed
\* when nothing of it is left.
LEMMA RepairsPlanned ==
  ASSUME HouseholdAssumption, NEW d \in Records, Owned(d)
  PROVE  /\ Repairs(d) \in Seq(Write) /\ Planned(d, Repairs(d))
         /\ \A x \in Range(Repairs(d)) : x.v = Loaded(d)[x.f][x.k]
         /\ \A f \in Field : \A k \in DOMAIN NoRecords[f] :
              d[f][k] = Loaded(d)[f][k] \/ Writes(Range(Repairs(d)), f, k)
<1> DEFINE r == Loaded(d)
           R == Rewritten(d)
           O(f) == Orphans(d, f)
           ks(f) == {k \in Changed(d, r, f) : r[f][k] = NoRecords[f][k]}
           ps == {i \in Changed(d, r, "poll") : r.poll[i] # None}
<1>1. r \in Records
  BY LoadedIs
<1>2. /\ \A f \in Field : DOMAIN d[f] = DOMAIN NoRecords[f]
      /\ "poll" \in Field
  BY DEF Records, NoRecords, Field
<1>3. \A f \in Field : ks(f) \subseteq DOMAIN NoRecords[f] /\ ps \subseteq DOMAIN NoRecords["poll"]
  BY <1>2 DEF Changed
<1>4. R = RepairsOf(d, r, "poll", ps) /\ \A f : O(f) = RepairsOf(d, r, f, ks(f))
  BY DEF Rewritten, Orphans
<1> HIDE DEF r, R, O, ks, ps
<1>5. /\ R \in Seq(Write)
      /\ \A x \in Range(R) : x.f = "poll" /\ x.k \in ps /\ x.v = r["poll"][x.k]
      /\ \A k \in ps : Writes(Range(R), "poll", k)
  <2>1. ps \in SUBSET DOMAIN NoRecords["poll"] /\ "poll" \in Field
    BY <1>2, <1>3
  <2> DEFINE t == RepairsOf(d, r, "poll", ps)
  <2>2. /\ t \in Seq(Write)
        /\ \A x \in Range(t) : x.f = "poll" /\ x.k \in ps /\ x.v = r["poll"][x.k]
        /\ \A k \in ps : Writes(Range(t), "poll", k)
    BY <1>1, <2>1, RepairsOfAre
  <2>3. R = t
    BY <1>4
  <2> HIDE DEF t
  <2> QED BY <2>2, <2>3
<1>6. \A f \in Field :
        /\ O(f) \in Seq(Write)
        /\ \A x \in Range(O(f)) : x.f = f /\ x.k \in ks(f) /\ x.v = r[f][x.k]
        /\ \A k \in ks(f) : Writes(Range(O(f)), f, k)
  <2> TAKE f \in Field
  <2> DEFINE t == RepairsOf(d, r, f, ks(f))
  <2>1. ks(f) \in SUBSET DOMAIN NoRecords[f]
    BY <1>3
  <2>2. /\ t \in Seq(Write)
        /\ \A x \in Range(t) : x.f = f /\ x.k \in ks(f) /\ x.v = r[f][x.k]
        /\ \A k \in ks(f) : Writes(Range(t), f, k)
    BY <1>1, <2>1, RepairsOfAre
  <2>3. O(f) = t
    BY <1>4
  <2> HIDE DEF t
  <2> QED BY <2>2, <2>3
<1>7. \A f \in Field : \A k \in DOMAIN NoRecords[f] :
        d[f][k] # r[f][k] => k \in ks(f) \/ (f = "poll" /\ k \in ps)
  <2> SUFFICES ASSUME NEW f \in Field, NEW k \in DOMAIN NoRecords[f], d[f][k] # r[f][k]
               PROVE  k \in ks(f) \/ (f = "poll" /\ k \in ps)
    OBVIOUS
  <2>1. k \in Changed(d, r, f)
    BY <1>2 DEF Changed
  <2>2. r[f][k] = NoRecords[f][k] \/ (f = "poll" /\ r.poll[k] # None)
    BY LoadedIs DEF Field, NoRecords, r
  <2> QED BY <2>1, <2>2 DEF ks, ps
<1> DEFINE p1 == R \o O("stat")
           p2 == p1 \o O("dm")
           p3 == p2 \o O("poll")
           p4 == p3 \o O("hist")
           p == p4 \o O("mark")
           q == O("acct")
<1>8. Repairs(d) = p \o q
  BY DEF Repairs, R, O
<1>9. {"stat", "dm", "poll", "hist", "mark", "acct"} = Field
  BY DEF Field
<1>10. /\ p \in Seq(Write)
       /\ Range(p) = Range(R) \cup Range(O("stat")) \cup Range(O("dm")) \cup Range(O("poll"))
                       \cup Range(O("hist")) \cup Range(O("mark"))
  <2> DEFINE P == p
  <2>1. p1 \in Seq(Write) /\ Range(p1) = Range(R) \cup Range(O("stat"))
    BY <1>5, <1>6, <1>9, RangeConcat
  <2> HIDE DEF p1
  <2>2. p2 \in Seq(Write) /\ Range(p2) = Range(p1) \cup Range(O("dm"))
    BY <1>6, <1>9, <2>1, RangeConcat
  <2> HIDE DEF p2
  <2>3. p3 \in Seq(Write) /\ Range(p3) = Range(p2) \cup Range(O("poll"))
    BY <1>6, <1>9, <2>2, RangeConcat
  <2> HIDE DEF p3
  <2>4. p4 \in Seq(Write) /\ Range(p4) = Range(p3) \cup Range(O("hist"))
    BY <1>6, <1>9, <2>3, RangeConcat
  <2> HIDE DEF p4
  <2>5. p \in Seq(Write) /\ Range(p) = Range(p4) \cup Range(O("mark"))
    BY <1>6, <1>9, <2>4, RangeConcat
  <2> HIDE DEF p
  <2> QED BY <2>1, <2>2, <2>3, <2>4, <2>5
<1>11. q \in Seq(Write)
  BY <1>6, <1>9
<1> HIDE DEF p1, p2, p3, p4, p, q
<1>12. Repairs(d) \in Seq(Write) /\ Range(Repairs(d)) = Range(p) \cup Range(q)
  BY <1>8, <1>10, <1>11, RangeConcat
<1>13. \A x \in Range(p) : x.f \in Field \ {"acct"} /\ x.v = r[x.f][x.k] /\ x.k \in DOMAIN NoRecords[x.f]
  <2> TAKE x \in Range(p)
  <2>1. CASE x \in Range(R)
    BY <1>2, <1>3, <1>5, <2>1
  <2>2. ASSUME NEW f \in Field \ {"acct"}, x \in Range(O(f))
        PROVE  x.f = f /\ x.v = r[f][x.k] /\ x.k \in DOMAIN NoRecords[f]
    BY <1>3, <1>6, <2>2
  <2>3. {"stat", "dm", "poll", "hist", "mark"} = Field \ {"acct"}
    BY DEF Field
  <2> QED BY <1>10, <2>1, <2>2, <2>3
<1>14. \A x \in Range(q) : x.f = "acct" /\ x.v = r["acct"][x.k] /\ x.k \in ks("acct")
  BY <1>6, <1>9 DEF q
<1>15. /\ \A f \in Field \ {"acct"} : \A k \in ks(f) : Writes(Range(p), f, k)
       /\ \A k \in ps : Writes(Range(p), "poll", k)
       /\ \A k \in ks("acct") : Writes(Range(q), "acct", k)
  <2>1. \A W, V, f, k : Writes(W, f, k) /\ W \subseteq V => Writes(V, f, k)
    BY DEF Writes
  <2>2. \A f \in Field \ {"acct"} : Range(O(f)) \subseteq Range(p)
    BY <1>10 DEF Field
  <2>3. Range(R) \subseteq Range(p) /\ q = O("acct") /\ "acct" \in Field
    BY <1>10 DEF q, Field
  <2> QED BY <1>5, <1>6, <2>1, <2>2, <2>3
<1>16. \A f \in Field : \A k \in DOMAIN NoRecords[f] :
         d[f][k] = r[f][k] \/ Writes(Range(Repairs(d)), f, k)
  BY <1>7, <1>12, <1>15 DEF Writes
<1>17. \A x \in Range(Repairs(d)) : x.v = r[x.f][x.k]
  BY <1>12, <1>13, <1>14
<1>18. ASSUME NEW w \in Range(p) PROVE OwnedWrite(d, w)
  <2>1. w.f \in Field /\ w.v = r[w.f][w.k] /\ w.k \in DOMAIN NoRecords[w.f]
    BY <1>13, <1>18
  <2>2. w.f = "stat" => w.k \in Id /\ (w.v # None => d.stat[w.k] = w.v)
    BY <2>1, LoadedIs DEF NoRecords, r
  <2>3. w.f = "mark" => w.k \in Mark /\ (w.v # 0 => d.mark[w.k] = w.v)
    BY <2>1, LoadedIs DEF NoRecords, r
  <2>4. w.f = "poll" => w.k \in Id /\ (w.v # None =>
          d.poll[w.k] # None /\ \A s \in Slot : w.v.votes[s] \in {0, d.poll[w.k].votes[s]})
    BY <2>1, LoadedIs DEF NoRecords, r
  <2> QED BY <2>2, <2>3, <2>4 DEF OwnedWrite, Owned
<1>19. ASSUME NEW w \in Range(q)
       PROVE  w.f = "acct" /\ w.v = None /\ w.k \in Slot /\ Tombstoned(d, w.k)
  <2>1. w.k \in Slot /\ d.acct[w.k] # r.acct[w.k] /\ w.v = r.acct[w.k]
    BY <1>14, <1>19, <1>2, <1>9 DEF ks, Changed, NoRecords
  <2>2. r.acct[w.k] = IF Live(d, w.k) THEN d.acct[w.k] ELSE None
    BY <2>1, LoadedIs DEF r
  <2> QED BY <1>14, <2>1, <2>2 DEF Live, Tombstoned
<1>20. ASSUME NEW s \in Slot, Tombstoned(d, s)
       PROVE  (\A x \in Range(p) : Leaves(x, s)) /\ Cleared(d, Range(p), s)
  <2>1. ~Live(d, s)
    BY <1>20 DEF Live, Tombstoned
  <2>2. ASSUME NEW w \in Range(p) PROVE Leaves(w, s)
    <3>1. w.f \in Field /\ w.v = r[w.f][w.k] /\ w.k \in DOMAIN NoRecords[w.f]
      BY <1>13, <2>2
    <3>2. w.f = "stat" => w.v = None \/ w.v.author # s
      BY <2>1, <3>1, LoadedIs DEF NoRecords, r, Kept
    <3>3. w.f = "mark" => w.v = 0 \/ w.k[3] # s
      BY <2>1, <3>1, LoadedIs DEF NoRecords, r
    <3>4. w.f = "poll" => w.v = None \/ w.v.votes[s] = 0
      BY <1>20, <3>1, LoadedIs DEF NoRecords, r
    <3> QED BY <3>2, <3>3, <3>4 DEF Leaves
  <2>3. ASSUME NEW i \in Id, d.stat[i] # None, d.stat[i].author = s
        PROVE  Writes(Range(p), "stat", i)
    <3>1. r.stat[i] = None
      BY <2>1, <2>3, LoadedIs DEF r, Kept
    <3>2. i \in DOMAIN NoRecords["stat"] /\ d["stat"][i] # r["stat"][i]
      BY <2>3, <3>1 DEF NoRecords
    <3> QED BY <1>7, <1>9, <1>15, <3>2
  <2>4. ASSUME NEW k \in Mark, d.mark[k] # 0, k[3] = s
        PROVE  Writes(Range(p), "mark", k)
    <3>1. r.mark[k] = 0
      BY <2>1, <2>4, LoadedIs DEF r
    <3>2. k \in DOMAIN NoRecords["mark"] /\ d["mark"][k] # r["mark"][k]
      BY <2>4, <3>1 DEF NoRecords
    <3> QED BY <1>7, <1>9, <1>15, <3>2
  <2>5. ASSUME NEW i \in Id, d.poll[i] # None, d.poll[i].votes[s] # 0
        PROVE  Writes(Range(p), "poll", i)
    <3>1. r.poll[i] # d.poll[i]
      BY <1>20, <2>5, LoadedIs DEF r
    <3>2. i \in DOMAIN NoRecords["poll"] /\ d["poll"][i] # r["poll"][i]
      BY <3>1 DEF NoRecords
    <3> QED BY <1>7, <1>9, <1>15, <3>2
  <2> QED BY <2>2, <2>3, <2>4, <2>5 DEF Cleared
<1>21. Planned(d, p \o q)
  BY <1>10, <1>11, <1>13, <1>18, <1>19, <1>20, PlanEnds
<1> QED BY <1>8, <1>12, <1>16, <1>17, <1>21 DEF r

\* The empty store, and one loaded of a store that needs no repair.
LEMMA NoRecordsIs == ASSUME HouseholdAssumption PROVE NoRecords \in Records
BY DEF NoRecords, Records, HouseholdAssumption

\* What boot loads, with the fields derived from it.
LEMMA LoadIs ==
  ASSUME NEW d
  PROVE  /\ Load(d).rec = Loaded(d)
         /\ Load(d) = [rec |-> Load(d).rec, mentions |-> Load(d).mentions,
                       replies |-> Load(d).replies]
BY DEF Load

\* A service that goes off has nothing to write.
LEMMA OffKeeps ==
  ASSUME HouseholdAssumption, Inv, Off, KeepIds, disk' \in Records, Owned(disk')
  PROVE  Inv'
<1>1. /\ mode' = "down" /\ todo' = <<>> /\ ram' = Load(NoRecords)
      /\ lastId' = lastId /\ lastAccount' = lastAccount
  BY DEF Off, KeepIds
<1>2. Loaded(NoRecords) \in Records
  BY NoRecordsIs, LoadedIs
<1>3. Typed' /\ Mirror' /\ Toward'
  BY <1>1, <1>2, NothingPlanned, LoadIs DEF Inv, Typed, Mirror, Toward
<1> QED BY <1>1, <1>3, NothingPlanned DEF Inv

\* Power is lost.
LEMMA PowerCutKeeps == ASSUME HouseholdAssumption, Inv, PowerCut PROVE Inv'
BY CutKeeps, OffKeeps DEF PowerCut

\* An idle service is restarted.
LEMMA RestartKeeps == ASSUME HouseholdAssumption, Inv, Restart PROVE Inv'
BY OffKeeps DEF Restart, Inv, Typed

\* Boot plans the repairs of what it finds.
LEMMA BootKeeps == ASSUME HouseholdAssumption, Inv, Boot PROVE Inv'
<1>1. /\ mode' = "booting" /\ ram' = Load(disk) /\ todo' = Repairs(disk) /\ disk' = disk
      /\ lastId' = lastId /\ lastAccount' = lastAccount
      /\ disk \in Records /\ Owned(disk)
  BY DEF Boot, KeepIds, Inv, Typed
<1>2. /\ Repairs(disk) \in Seq(Write) /\ Planned(disk, Repairs(disk))
      /\ \A x \in Range(Repairs(disk)) : x.v = Loaded(disk)[x.f][x.k]
      /\ \A f \in Field : \A k \in DOMAIN NoRecords[f] :
           disk[f][k] = Loaded(disk)[f][k] \/ Writes(Range(Repairs(disk)), f, k)
  BY <1>1, RepairsPlanned
<1>3. Loaded(disk) \in Records
  BY <1>1, LoadedIs
<1>4. Typed'
  BY <1>1, <1>2, <1>3, LoadIs DEF Inv, Typed
<1>5. Mirror' /\ Toward'
  BY <1>1, <1>2, LoadIs DEF Mirror, Toward
<1> QED BY <1>1, <1>2, <1>4, <1>5 DEF Inv

\* Stores with the same records are the same.
LEMMA SameRecords ==
  ASSUME NEW d \in Records, NEW e \in Records,
         \A f \in Field : \A k \in DOMAIN NoRecords[f] : d[f][k] = e[f][k]
  PROVE  d = e
<1>1. d.acct = e.acct
  BY DEF Records, NoRecords, Field
<1>2. d.stat = e.stat
  BY DEF Records, NoRecords, Field
<1>3. d.poll = e.poll
  BY DEF Records, NoRecords, Field
<1>4. d.dm = e.dm
  BY DEF Records, NoRecords, Field
<1>5. d.hist = e.hist
  BY DEF Records, NoRecords, Field
<1>6. d.mark = e.mark
  BY DEF Records, NoRecords, Field
<1> QED BY <1>1, <1>2, <1>3, <1>4, <1>5, <1>6 DEF Records

\* The repairs made, memory is the store.
LEMMA BootedKeeps == ASSUME HouseholdAssumption, Inv, Booted PROVE Inv'
<1>1. /\ mode = "booting" /\ todo = <<>> /\ mode' = "up"
      /\ disk' = disk /\ ram' = ram /\ todo' = todo
      /\ lastId' = lastId /\ lastAccount' = lastAccount
      /\ disk \in Records /\ ram.rec \in Records
  BY DEF Booted, KeepIds, Inv, Typed
<1>2. Range(todo) = {}
  BY <1>1 DEF Range
<1>3. \A f \in Field : \A k \in DOMAIN NoRecords[f] : disk[f][k] = ram.rec[f][k]
  BY <1>1, <1>2 DEF Inv, Toward, Writes
<1>4. ram.rec = disk
  BY <1>1, <1>3, SameRecords
<1>5. Typed' /\ Mirror' /\ Toward'
  BY <1>1, <1>4 DEF Inv, Typed, Mirror, Toward
<1> QED BY <1>1, <1>5 DEF Inv

\* The invariant holds of a new household.
LEMMA InitInv == ASSUME HouseholdAssumption, Init PROVE Inv
<1>1. /\ disk = [NoRecords EXCEPT !.acct = [s \in Slot |-> [id |-> s, deleted |-> FALSE]]]
      /\ ram = Load(disk) /\ mode = "up" /\ todo = <<>>
      /\ lastId = 0 /\ lastAccount = Slots
  BY DEF Init
<1>2. /\ \A s \in Slot : disk.acct[s] = [id |-> s, deleted |-> FALSE]
      /\ \A f \in Field \ {"acct"} : disk[f] = NoRecords[f]
  BY <1>1 DEF NoRecords, Field
<1>3. \A s \in Slot : [id |-> s, deleted |-> FALSE] \in AccountRec
  BY DEF AccountRec, Slot, Account, HouseholdAssumption
<1>4. disk \in Records
  BY <1>1, <1>3, NoRecordsIs DEF Records
<1>5. \A s \in Slot : Live(disk, s)
  <2>1. ASSUME NEW s \in Slot
        PROVE  disk.acct[s] \in AccountRec /\ ~disk.acct[s].deleted
    <3>1. disk.acct[s] = [id |-> s, deleted |-> FALSE]
      BY <1>2
    <3>2. disk.acct[s] \in AccountRec
      BY <1>3, <3>1
    <3>3. disk.acct[s].deleted = FALSE
      BY <3>1
    <3> QED BY <3>2, <3>3
  <2>2. None \notin AccountRec
    BY DEF HouseholdAssumption
  <2> QED BY <2>1, <2>2 DEF Live
<1>6. \A i \in Id : ~Kept(disk, i) /\ disk.stat[i] = None /\ disk.poll[i] = None /\ disk.dm[i] = 0
  BY <1>2 DEF NoRecords, Kept, Field
<1>7. /\ \A k \in Mark : disk.mark[k] = 0
      /\ \A h \in Id \X (1..Revisions) : disk.hist[h] = 0
  BY <1>2 DEF NoRecords, Field
<1>8. Loaded(disk) = disk
  <2>1. Loaded(disk) \in Records
    BY <1>4, LoadedIs
  <2>2. \A f \in Field : \A k \in DOMAIN NoRecords[f] : Loaded(disk)[f][k] = disk[f][k]
    <3>1. \A s \in Slot : Loaded(disk).acct[s] = disk.acct[s]
      BY <1>4, <1>5, LoadedIs
    <3>2. \A i \in Id : /\ Loaded(disk).stat[i] = disk.stat[i]
                        /\ Loaded(disk).dm[i] = disk.dm[i]
                        /\ Loaded(disk).poll[i] = disk.poll[i]
      BY <1>4, <1>6, LoadedIs
    <3>3. /\ \A k \in Mark : Loaded(disk).mark[k] = disk.mark[k]
          /\ \A h \in Id \X (1..Revisions) : Loaded(disk).hist[h] = disk.hist[h]
      BY <1>4, <1>7, LoadedIs
    <3> QED BY <3>1, <3>2, <3>3 DEF Field, NoRecords
  <2> QED BY <1>4, <2>1, <2>2, SameRecords
<1>9. 0 \in 0..MaxId /\ Slots \in Account
  BY DEF Account, HouseholdAssumption
<1>10. Typed /\ Mirror /\ Toward
  BY <1>1, <1>4, <1>8, <1>9, NothingPlanned, LoadIs DEF Typed, Mirror, Toward
<1>11. Owned(disk)
  BY <1>6, <1>7 DEF Owned
<1> QED BY <1>1, <1>10, <1>11, NothingPlanned DEF Inv

\* Nothing breaks the invariant.
LEMMA NextInv == ASSUME HouseholdAssumption, Inv, [Next]_vars PROVE Inv'
<1>1. CASE Member
  <2>1. ASSUME NEW s \in Slot, NEW ms \in Mentioned, NEW p \in Parents,
               NEW poll \in Having("poll"), NEW direct \in Having("direct"),
               PostStatus(s, ms, p, poll, direct)
        PROVE  Inv'
    <3>1. ms \in SUBSET Slot
      BY DEF Mentioned
    <3>2. p \in 0..MaxId
      BY DEF Parents, HouseholdAssumption
    <3>3. poll \in BOOLEAN
      BY DEF Having
    <3>4. direct \in BOOLEAN
      BY DEF Having
    <3> QED BY <2>1, <3>1, <3>2, <3>3, <3>4, PostStatusKeeps
  <2>2. ASSUME NEW i \in Id, NEW ms \in Mentioned,
               NEW poll \in {"none"} \cup (IF "poll" \in Features THEN {"keep", "new"} ELSE {}),
               EditStatus(i, ms, poll)
        PROVE  Inv'
    <3>1. ms \in SUBSET Slot /\ poll \in {"none", "keep", "new"}
      BY DEF Mentioned
    <3> QED BY <2>2, <3>1, EditStatusKeeps
  <2>3. ASSUME NEW i \in Id, DeleteStatus(i) PROVE Inv'
    BY <2>3, DeleteStatusKeeps
  <2>4. ASSUME NEW k \in Mark, SetMark(k) PROVE Inv'
    BY <2>4, SetMarkKeeps
  <2>5. ASSUME NEW k \in Mark, UnsetMark(k) PROVE Inv'
    BY <2>5, UnsetMarkKeeps
  <2>6. ASSUME NEW s \in Slot, NEW i \in Id, Vote(s, i) PROVE Inv'
    BY <2>6, VoteKeeps
  <2> QED BY <1>1, <2>1, <2>2, <2>3, <2>4, <2>5, <2>6 DEF Member
<1>2. CASE Admin
  BY <1>2, CreateMemberKeeps, DeleteAccountKeeps DEF Admin
<1>3. CASE Step \/ StepFails \/ StepRefused
  BY <1>3, StepKeeps, StepFailsKeeps, StepRefusedKeeps
<1>4. CASE PowerCut \/ Restart \/ Boot \/ Booted
  BY <1>4, PowerCutKeeps, RestartKeeps, BootKeeps, BootedKeeps
<1>5. CASE UNCHANGED vars
  <2>1. Typed' /\ Mirror' /\ Toward'
    BY <1>5 DEF vars, Inv, Typed, Mirror, Toward
  <2> QED BY <1>5, <2>1 DEF vars, Inv
<1> QED BY <1>1, <1>2, <1>3, <1>4, <1>5 DEF Next

\* Every slot holds what its account left there, in every state, whatever is cut
\* off, refused or repaired.
THEOREM InvHolds == HouseholdAssumption => (Spec => []Inv)
<1> SUFFICES ASSUME HouseholdAssumption PROVE Spec => []Inv
  OBVIOUS
<1>1. Init => Inv
  BY InitInv
<1>2. Inv /\ [Next]_vars => Inv'
  BY NextInv
<1> QED BY <1>1, <1>2, PTL DEF Spec

-----------------------------------------------------------------------------
(* A slot used before. *)

\* Whatever a deleted member left, whatever cut the purge or its repair short, and
\* whatever was written meanwhile: when requests are taken, all that is in a
\* member's slot was made by the member's account.
THEOREM SlotInheritsNothing == HouseholdAssumption => (Spec => []NothingInherited)
<1> SUFFICES ASSUME HouseholdAssumption PROVE Spec => []NothingInherited
  OBVIOUS
<1>1. Inv => NothingInherited
  <2> SUFFICES ASSUME Inv, Ready, NEW s \in Slot, Live(ram.rec, s)
               PROVE  LET id == ram.rec.acct[s].id IN
                 /\ \A i \in Statuses : ram.rec.stat[i].author = s => ram.rec.stat[i].by = id
                 /\ \A k \in Mark : k[3] = s => ram.rec.mark[k] \in {0, id}
                 /\ \A i \in Id : ram.rec.poll[i] # None => ram.rec.poll[i].votes[s] \in {0, id}
    BY DEF NothingInherited
  <2>1. ram.rec = disk /\ Owned(disk) /\ Statuses \subseteq Id
        /\ \A i \in Statuses : ram.rec.stat[i] # None
    BY ReadyKnows DEF Statuses
  <2> QED BY <2>1 DEF Owned, OwnerIs
<1>2. Spec => []Inv
  BY InvHolds
<1> QED BY <1>1, <1>2, PTL

-----------------------------------------------------------------------------
(* A second invariant: what the writes still to make lead to. *)

\* Ids are given out in order, a reply comes after what it answers, and history
\* is kept of statuses that are not direct.
Dated(d, last) ==
  /\ \A i \in Id : d.stat[i] # None => i <= last /\ d.stat[i].parent < i
  /\ \A h \in DOMAIN d.hist : d.hist[h] # 0 =>
       h[1] <= last /\ (d.stat[h[1]] # None => ~d.stat[h[1]].direct)

\* A status is written over an earlier version of it, or is new: nothing answers
\* it and it has no history, and will not have.
Commit(d, W, w, last) ==
  /\ w.k <= last /\ w.v.parent < w.k
  /\ d.stat[w.k] # None =>
       w.v.parent = d.stat[w.k].parent /\ w.v.direct = d.stat[w.k].direct
  /\ d.stat[w.k] = None =>
       /\ \A j \in Id : d.stat[j] # None => d.stat[j].parent # w.k
       /\ \A h \in DOMAIN d.hist : h[1] = w.k => d.hist[h] = 0
       /\ \A x \in W : x.f = "hist" => x.k[1] # w.k

\* A status is written once: erased if it is there, or committed by the last write.
Commits(d, t, last) ==
  /\ \A m, n \in DOMAIN t :
       t[m].f = "stat" /\ t[n].f = "stat" /\ t[m].k = t[n].k => m = n
  /\ \A w \in Range(t) : w.f = "stat" /\ w.v = None => d.stat[w.k] # None
  /\ \A w \in Range(t) : w.f = "hist" /\ w.v # 0 =>
       w.k[1] <= last /\ (d.stat[w.k[1]] # None => ~d.stat[w.k[1]].direct)
  /\ \A n \in DOMAIN t : t[n].f = "stat" /\ t[n].v # None =>
       n = Len(t) /\ Commit(d, Range(t), t[n], last)

\* When it is, the version it replaces is in the history, or will be by then.
Recorded(d, t) ==
  \A w \in Range(t) :
    w.f = "stat" /\ w.v # None /\ d.stat[w.k] # None /\ ~d.stat[w.k].direct =>
      \E n \in 1..Revisions :
        \/ \E p \in DOMAIN t :
             /\ t[p].f = "hist" /\ t[p].k = <<w.k, n>> /\ t[p].v = d.stat[w.k].ver
             /\ \A q \in DOMAIN t : q > p => t[q].f # "hist"
        \/ /\ d.hist[<<w.k, n>>] = d.stat[w.k].ver
           /\ \A x \in Range(t) : x.f # "hist"

\* Writes t take store d to store e: of those of a key the last has what e has.
Covers(W, d, e) ==
  \A f \in Field : \A k \in DOMAIN NoRecords[f] : d[f][k] = e[f][k] \/ Writes(W, f, k)
Agrees(w, e) == w.v = e[w.f][w.k]
LastAgrees(t, e) ==
  \A n \in DOMAIN t : \/ Agrees(t[n], e)
                      \/ \E m \in DOMAIN t : m > n /\ t[m].f = t[n].f /\ t[m].k = t[n].k
Ends(d, t, e) == Covers(Range(t), d, e) /\ LastAgrees(t, e)

\* A store of which boot loads all, and so finds nothing to repair.
Sound(e) ==
  /\ \A s \in Slot : e.acct[s] # None => ~e.acct[s].deleted
  /\ \A i \in Id : /\ e.stat[i] # None => Live(e, e.stat[i].author)
                   /\ e.poll[i] # None => e.stat[i] # None
                   /\ e.dm[i] # 0 => e.stat[i] # None
  /\ \A h \in Id \X (1..Revisions) : e.hist[h] # 0 =>
       e.stat[h[1]] # None /\ e.hist[h] < e.stat[h[1]].ver
  /\ \A k \in Mark : e.mark[k] # 0 => e.stat[k[2]] # None /\ Live(e, k[3])

\* A request leads from a sound store to a sound one, if it is not refused; so
\* do the repairs of a boot, from any store.
Settles ==
  /\ mode = "booting" => Sound(ram.rec)
  /\ mode = "up" /\ ~refused => \E e \in Records : Ends(disk, todo, e) /\ Sound(e)

\* The reply counts in memory are those of the records in memory.
Counts == \A i \in Id : ram.replies[i] = Replies(ram.rec, i)

Bounds ==
  /\ ram.mentions \in [Id -> SUBSET Slot] /\ ram.replies \in [Id -> 0..MaxId]
  /\ refused \in BOOLEAN /\ faults \in 0..MaxFaults

Inv2 == /\ Bounds /\ Counts /\ Settles
        /\ Dated(disk, lastId) /\ Commits(disk, todo, lastId) /\ Recorded(disk, todo)


\* The first of the writes to make brings the store one write nearer to its end.
LEMMA StepEnds ==
  ASSUME NEW d \in Records, NEW t \in Seq(Write), t # <<>>, NEW e, Ends(d, t, e)
  PROVE  Ends(Stored(d, Head(t)), Tail(t), e)
<1> DEFINE w == Head(t)
           u == Tail(t)
           c == Stored(d, w)
<1>1. /\ w = t[1] /\ 1 \in DOMAIN t /\ u \in Seq(Write)
      /\ Len(t) \in Nat /\ DOMAIN t = 1..Len(t) /\ DOMAIN u = 1..Len(t) - 1
      /\ \A n \in DOMAIN u : n + 1 \in DOMAIN t /\ u[n] = t[n + 1]
      /\ \A n \in DOMAIN t : n = 1 \/ (n - 1 \in DOMAIN u /\ u[n - 1] = t[n])
      /\ Range(t) = {w} \cup Range(u)
  BY RangeTail
<1>2. w \in Write
  BY <1>1, RangeOf
<1>3. \A f \in Field : \A k \in DOMAIN NoRecords[f] :
        c[f][k] = IF w.f = f /\ w.k = k THEN w.v ELSE d[f][k]
  BY <1>2, StoredIs
<1> HIDE DEF w, u, c
<1>4. \A n \in DOMAIN u : u[n] \in Range(u)
  BY DEF Range
<1>5. Agrees(w, e) \/ Writes(Range(u), w.f, w.k)
  <2>1. CASE Agrees(t[1], e)
    BY <1>1, <2>1
  <2>2. CASE \E m \in DOMAIN t : m > 1 /\ t[m].f = t[1].f /\ t[m].k = t[1].k
    <3>1. PICK m \in DOMAIN t : m > 1 /\ t[m].f = t[1].f /\ t[m].k = t[1].k
      BY <2>2
    <3>2. m - 1 \in DOMAIN u /\ u[m - 1] = t[m]
      BY <1>1, <3>1
    <3> QED BY <1>1, <1>4, <3>1, <3>2 DEF Writes
  <2> QED BY <1>1, <2>1, <2>2 DEF Ends, LastAgrees
<1>6. Covers(Range(u), c, e)
  BY <1>1, <1>3, <1>5 DEF Covers, Ends, Writes, Agrees
<1>7. LastAgrees(u, e)
  <2> SUFFICES ASSUME NEW n \in DOMAIN u, ~Agrees(u[n], e)
               PROVE  \E m \in DOMAIN u : m > n /\ u[m].f = u[n].f /\ u[m].k = u[n].k
    BY DEF LastAgrees
  <2>1. n + 1 \in DOMAIN t /\ u[n] = t[n + 1] /\ n \in Nat
    BY <1>1
  <2>2. PICK m \in DOMAIN t : m > n + 1 /\ t[m].f = u[n].f /\ t[m].k = u[n].k
    BY <2>1 DEF Ends, LastAgrees
  <2>3. m - 1 \in DOMAIN u /\ u[m - 1] = t[m] /\ m - 1 > n
    BY <1>1, <2>1, <2>2
  <2> QED BY <2>2, <2>3
<1> QED BY <1>6, <1>7 DEF Ends, w, u, c

\* A store with nothing to write is at its end.
LEMMA EndsNone ==
  ASSUME NEW d \in Records
  PROVE  /\ Ends(d, <<>>, d)
         /\ \A e \in Records : Ends(d, <<>>, e) => e = d
<1>1. Range(<<>>) = {} /\ DOMAIN <<>> = {}
  BY DEF Range
<1>2. Ends(d, <<>>, d)
  BY <1>1 DEF Ends, Covers, LastAgrees
<1>3. ASSUME NEW e \in Records, Ends(d, <<>>, e) PROVE e = d
  <2>1. \A f \in Field : \A k \in DOMAIN NoRecords[f] : d[f][k] = e[f][k]
    BY <1>1, <1>3 DEF Ends, Covers, Writes
  <2> QED BY <2>1, SameRecords
<1> QED BY <1>2, <1>3

\* More writes lead from the end of the first to a later one.
LEMMA EndsConcat ==
  ASSUME NEW d, NEW p \in Seq(Write), NEW e, Ends(d, p, e),
         NEW q \in Seq(Write), NEW g,
         \A w \in Range(q) : Agrees(w, g), Covers(Range(q), e, g)
  PROVE  Ends(d, p \o q, g)
<1> DEFINE t == p \o q
<1>1. /\ t \in Seq(Write) /\ Range(t) = Range(p) \cup Range(q)
      /\ DOMAIN t = 1..Len(t) /\ Len(t) = Len(p) + Len(q) /\ Len(p) \in Nat /\ Len(q) \in Nat
      /\ DOMAIN p = 1..Len(p) /\ DOMAIN q = 1..Len(q)
  BY RangeConcat
<1>2. \A n \in DOMAIN p : t[n] = p[n] /\ n \in DOMAIN t /\ p[n] \in Range(p)
  BY <1>1 DEF Range
<1>3. \A n \in DOMAIN q : n + Len(p) \in DOMAIN t /\ t[n + Len(p)] = q[n] /\ q[n] \in Range(q)
  BY <1>1 DEF Range
<1>4. \A n \in DOMAIN t : n \in DOMAIN p \/ t[n] \in Range(q)
  <2> TAKE n \in DOMAIN t
  <2>1. CASE n <= Len(p)
    BY <1>1, <2>1
  <2>2. CASE ~(n <= Len(p))
    <3>1. n - Len(p) \in DOMAIN q /\ t[n] = q[n - Len(p)]
      BY <1>1, <2>2
    <3> QED BY <3>1 DEF Range
  <2> QED BY <2>1, <2>2
<1> HIDE DEF t
<1>5. \A w \in Range(p) : w.f \in Field /\ w.k \in DOMAIN NoRecords[w.f]
  BY RangeOf DEF Write, Field, NoRecords
<1>6. Covers(Range(t), d, g)
  BY <1>1 DEF Covers, Ends, Writes
<1>7. LastAgrees(t, g)
  <2> SUFFICES ASSUME NEW n \in DOMAIN t, ~Agrees(t[n], g)
               PROVE  \E m \in DOMAIN t : m > n /\ t[m].f = t[n].f /\ t[m].k = t[n].k
    BY DEF LastAgrees
  <2>1. n \in DOMAIN p /\ t[n] = p[n] /\ p[n] \in Range(p)
    BY <1>2, <1>4
  <2>2. CASE ~Agrees(p[n], e)
    <3>1. PICK m \in DOMAIN p : m > n /\ p[m].f = p[n].f /\ p[m].k = p[n].k
      BY <2>1, <2>2 DEF Ends, LastAgrees
    <3> QED BY <1>2, <2>1, <3>1
  <2>3. CASE Agrees(p[n], e)
    <3>1. Writes(Range(q), p[n].f, p[n].k)
      BY <1>5, <2>1, <2>3 DEF Agrees, Covers
    <3>2. PICK m \in DOMAIN q : q[m].f = p[n].f /\ q[m].k = p[n].k
      BY <3>1 DEF Writes, Range
    <3>3. m + Len(p) \in DOMAIN t /\ t[m + Len(p)] = q[m] /\ m + Len(p) > n
      BY <1>1, <1>3, <2>1
    <3> QED BY <2>1, <3>2, <3>3
  <2> QED BY <2>2, <2>3
<1> QED BY <1>6, <1>7 DEF Ends, t

\* One more write leads to the end of the others, with that write made.
LEMMA EndsMore ==
  ASSUME NEW d, NEW p \in Seq(Write), NEW e \in Records, Ends(d, p, e), NEW w \in Write
  PROVE  Ends(d, p \o <<w>>, Stored(e, w)) /\ Stored(e, w) \in Records
         /\ p \o <<w>> \in Seq(Write)
<1>1. <<w>> \in Seq(Write) /\ Range(<<w>>) = {w}
  BY DEF Range
<1>2. w.f \in Field /\ w.k \in DOMAIN NoRecords[w.f]
  BY DEF Write, Field, NoRecords
<1>3. /\ Stored(e, w) \in Records
      /\ \A f \in Field : \A k \in DOMAIN NoRecords[f] :
           Stored(e, w)[f][k] = IF w.f = f /\ w.k = k THEN w.v ELSE e[f][k]
  BY StoredIs
<1>4. Agrees(w, Stored(e, w)) /\ Covers({w}, e, Stored(e, w))
  BY <1>2, <1>3 DEF Agrees, Covers, Writes
<1>5. p \o <<w>> \in Seq(Write)
  BY <1>1, RangeConcat
<1> QED BY <1>1, <1>3, <1>4, <1>5, EndsConcat


\* What a store holds of statuses and their history after a write.
LEMMA StatAfter ==
  ASSUME NEW d \in Records, NEW w \in Write
  PROVE  /\ Stored(d, w) \in Records
         /\ \A i \in Id : Stored(d, w).stat[i] =
              IF w.f = "stat" /\ w.k = i THEN w.v ELSE d.stat[i]
         /\ DOMAIN Stored(d, w).hist = Id \X (1..Revisions)
         /\ DOMAIN d.hist = Id \X (1..Revisions)
         /\ \A h \in Id \X (1..Revisions) : Stored(d, w).hist[h] =
              IF w.f = "hist" /\ w.k = h THEN w.v ELSE d.hist[h]
         /\ \A h \in Id \X (1..Revisions) : h[1] \in Id /\ h[2] \in 1..Revisions
<1>1. Stored(d, w) \in Records
  BY StoredIs
<1>2. "hist" \in Field /\ DOMAIN NoRecords["hist"] = Id \X (1..Revisions)
  BY DEF Field, NoRecords
<1>3. \A h \in Id \X (1..Revisions) : Stored(d, w)["hist"][h] =
        IF w.f = "hist" /\ w.k = h THEN w.v ELSE d["hist"][h]
  BY <1>2, StoredIs
<1>4. \A e \in Records : DOMAIN e.hist = Id \X (1..Revisions)
  BY DEF Records
<1>5. \A h \in Id \X (1..Revisions) : h[1] \in Id /\ h[2] \in 1..Revisions
  OBVIOUS
<1> QED BY <1>1, <1>3, <1>4, <1>5, StoredIs

\* A store keeps its order by the writes of a plan.
LEMMA StepDated ==
  ASSUME NEW d \in Records, NEW t \in Seq(Write), t # <<>>, NEW last \in Nat,
         Dated(d, last), Commits(d, t, last)
  PROVE  Dated(Stored(d, Head(t)), last)
<1> DEFINE w == Head(t)
           c == Stored(d, w)
<1>1. w = t[1] /\ 1 \in DOMAIN t /\ w \in Range(t) /\ w \in Write
  BY RangeTail, RangeOf
<1>2. /\ \A i \in Id : c.stat[i] = IF w.f = "stat" /\ w.k = i THEN w.v ELSE d.stat[i]
      /\ DOMAIN c.hist = Id \X (1..Revisions) /\ DOMAIN d.hist = Id \X (1..Revisions)
      /\ \A h \in Id \X (1..Revisions) : h[1] \in Id /\ c.hist[h] =
           IF w.f = "hist" /\ w.k = h THEN w.v ELSE d.hist[h]
  BY <1>1, StatAfter
<1>3. /\ w.f = "stat" /\ w.v # None => Commit(d, Range(t), w, last)
      /\ w.f = "hist" /\ w.v # 0 =>
           w.k[1] <= last /\ (d.stat[w.k[1]] # None => ~d.stat[w.k[1]].direct)
  BY <1>1 DEF Commits
<1> HIDE DEF w, c
<1>4. \A i \in Id : c.stat[i] # None => i <= last /\ c.stat[i].parent < i
  BY <1>2, <1>3 DEF Dated, Commit
<1>5. ASSUME NEW h \in DOMAIN c.hist, c.hist[h] # 0
      PROVE  h[1] <= last /\ (c.stat[h[1]] # None => ~c.stat[h[1]].direct)
  <2>1. h \in Id \X (1..Revisions) /\ h[1] \in Id
    BY <1>2, <1>5
  <2>2. CASE w.f = "hist"
    BY <1>2, <1>3, <1>5, <2>1, <2>2 DEF Dated
  <2>3. CASE w.f # "hist"
    <3>1. d.hist[h] # 0 /\ h \in DOMAIN d.hist
      BY <1>2, <1>5, <2>1, <2>3
    <3>2. h[1] <= last /\ (d.stat[h[1]] # None => ~d.stat[h[1]].direct)
      BY <3>1 DEF Dated
    <3>3. w.f = "stat" /\ w.v # None /\ w.k = h[1] => d.stat[h[1]] # None /\ w.v.direct = d.stat[h[1]].direct
      BY <1>3, <3>1 DEF Commit
    <3> QED BY <1>2, <2>1, <3>2, <3>3
  <2> QED BY <2>2, <2>3
<1> QED BY <1>4, <1>5 DEF Dated, w, c

\* What is left of a plan of commits is one.
LEMMA StepCommits ==
  ASSUME NEW d \in Records, NEW t \in Seq(Write), t # <<>>, NEW last \in Nat,
         Commits(d, t, last)
  PROVE  Commits(Stored(d, Head(t)), Tail(t), last)
<1> DEFINE w == Head(t)
           c == Stored(d, w)
           u == Tail(t)
<1>1. /\ w = t[1] /\ 1 \in DOMAIN t /\ u \in Seq(Write) /\ Len(u) = Len(t) - 1
      /\ Len(t) \in Nat /\ DOMAIN t = 1..Len(t) /\ DOMAIN u = 1..Len(t) - 1
      /\ \A n \in DOMAIN u : n + 1 \in DOMAIN t /\ u[n] = t[n + 1]
      /\ Range(t) = {w} \cup Range(u)
  BY RangeTail
<1>2. w \in Write /\ w \in Range(t) /\ Range(u) \subseteq Write
  BY <1>1, RangeOf
<1>3. /\ \A i \in Id : c.stat[i] = IF w.f = "stat" /\ w.k = i THEN w.v ELSE d.stat[i]
      /\ DOMAIN c.hist = Id \X (1..Revisions) /\ DOMAIN d.hist = Id \X (1..Revisions)
      /\ \A h \in Id \X (1..Revisions) : h[1] \in Id /\ c.hist[h] =
           IF w.f = "hist" /\ w.k = h THEN w.v ELSE d.hist[h]
  BY <1>2, StatAfter
<1>4. \A x \in Write : (x.f = "stat" => x.k \in Id) /\ (x.f = "hist" => x.k \in Id \X (1..Revisions) /\ x.k[1] \in Id)
  BY DEF Write
<1> HIDE DEF w, c, u
<1>5. w.f = "stat" /\ w.v # None => u = <<>>
  <2>1. w.f = "stat" /\ w.v # None => 1 = Len(t)
    BY <1>1 DEF Commits
  <2> QED BY <1>1, <2>1
<1>6. \A x \in Range(u) : x.f = "stat" /\ w.f = "stat" => x.k # w.k
  <2> SUFFICES ASSUME NEW n \in DOMAIN u, u[n].f = "stat", w.f = "stat", u[n].k = w.k
               PROVE  FALSE
    BY DEF Range
  <2>1. n + 1 = 1
    BY <1>1 DEF Commits
  <2> QED BY <1>1, <2>1
<1>7. u = <<>> => Range(u) = {}
  BY DEF Range
<1>8. ASSUME NEW i \in Id, u # <<>>
      PROVE  c.stat[i] = None \/ c.stat[i] = d.stat[i]
  BY <1>3, <1>5, <1>8
<1>9. \A m, n \in DOMAIN u :
        u[m].f = "stat" /\ u[n].f = "stat" /\ u[m].k = u[n].k => m = n
  <2> SUFFICES ASSUME NEW m \in DOMAIN u, NEW n \in DOMAIN u,
                      u[m].f = "stat", u[n].f = "stat", u[m].k = u[n].k
               PROVE  m = n
    OBVIOUS
  <2>1. m + 1 = n + 1
    BY <1>1 DEF Commits
  <2> QED BY <1>1, <2>1
<1>10. ASSUME NEW x \in Range(u), x.f = "stat", x.v = None PROVE c.stat[x.k] # None
  <2>1. d.stat[x.k] # None /\ x.k \in Id
    BY <1>1, <1>2, <1>4, <1>10 DEF Commits
  <2> QED BY <1>3, <1>6, <1>10, <2>1
<1>11. ASSUME NEW x \in Range(u), x.f = "hist", x.v # 0
       PROVE  x.k[1] <= last /\ (c.stat[x.k[1]] # None => ~c.stat[x.k[1]].direct)
  <2>1. x.k[1] <= last /\ (d.stat[x.k[1]] # None => ~d.stat[x.k[1]].direct) /\ x.k[1] \in Id
    BY <1>1, <1>2, <1>4, <1>11 DEF Commits
  <2>2. u # <<>>
    BY <1>7, <1>11
  <2> QED BY <1>8, <2>1, <2>2
<1>12. ASSUME NEW n \in DOMAIN u, u[n].f = "stat", u[n].v # None
       PROVE  n = Len(u) /\ Commit(c, Range(u), u[n], last)
  <2>1. n + 1 \in DOMAIN t /\ u[n] = t[n + 1] /\ n \in Nat
    BY <1>1
  <2>2. n + 1 = Len(t) /\ Commit(d, Range(t), u[n], last)
    BY <1>12, <2>1 DEF Commits
  <2>3. u[n] \in Range(u) /\ u[n].k \in Id
    <3>1. u[n] \in Range(u)
      BY DEF Range
    <3> QED BY <1>2, <1>4, <1>12, <3>1
  <2>4. u # <<>> /\ c.stat[u[n].k] = d.stat[u[n].k]
    BY <1>3, <1>6, <1>7, <1>12, <2>3
  <2>5. ASSUME c.stat[u[n].k] = None
        PROVE  /\ \A j \in Id : c.stat[j] # None => c.stat[j].parent # u[n].k
               /\ \A h \in DOMAIN c.hist : h[1] = u[n].k => c.hist[h] = 0
               /\ \A x \in Range(u) : x.f = "hist" => x.k[1] # u[n].k
    <3>1. /\ \A j \in Id : d.stat[j] # None => d.stat[j].parent # u[n].k
          /\ \A h \in DOMAIN d.hist : h[1] = u[n].k => d.hist[h] = 0
          /\ \A x \in Range(t) : x.f = "hist" => x.k[1] # u[n].k
      BY <2>2, <2>4, <2>5 DEF Commit
    <3>2. \A j \in Id : c.stat[j] # None => c.stat[j].parent # u[n].k
      BY <1>8, <2>4, <3>1
    <3>3. \A h \in DOMAIN c.hist : h[1] = u[n].k => c.hist[h] = 0
      BY <1>2, <1>3, <3>1
    <3> QED BY <1>1, <3>1, <3>2, <3>3
  <2>6. Commit(c, Range(u), u[n], last)
    BY <2>2, <2>4, <2>5 DEF Commit
  <2> QED BY <1>1, <2>1, <2>2, <2>6
<1>13. Commits(c, u, last)
  BY <1>9, <1>10, <1>11, <1>12 DEF Commits
<1> QED BY <1>13 DEF c, u, w

\* The version to be replaced stays recorded, or is by the write.
LEMMA StepRecorded ==
  ASSUME NEW d \in Records, NEW t \in Seq(Write), t # <<>>, NEW last \in Nat,
         Commits(d, t, last), Recorded(d, t)
  PROVE  Recorded(Stored(d, Head(t)), Tail(t))
<1> DEFINE w == Head(t)
           c == Stored(d, w)
           u == Tail(t)
<1>1. /\ w = t[1] /\ 1 \in DOMAIN t /\ u \in Seq(Write) /\ Len(u) = Len(t) - 1
      /\ Len(t) \in Nat /\ DOMAIN t = 1..Len(t) /\ DOMAIN u = 1..Len(t) - 1
      /\ \A n \in DOMAIN u : n + 1 \in DOMAIN t /\ u[n] = t[n + 1]
      /\ \A n \in DOMAIN t : n = 1 \/ (n - 1 \in DOMAIN u /\ u[n - 1] = t[n])
      /\ Range(t) = {w} \cup Range(u)
  BY RangeTail
<1>2. w \in Write /\ w \in Range(t) /\ Range(u) \subseteq Write
  BY <1>1, RangeOf
<1>3. /\ \A i \in Id : c.stat[i] = IF w.f = "stat" /\ w.k = i THEN w.v ELSE d.stat[i]
      /\ \A h \in Id \X (1..Revisions) : c.hist[h] =
           IF w.f = "hist" /\ w.k = h THEN w.v ELSE d.hist[h]
  BY <1>2, StatAfter
<1> HIDE DEF w, c, u
<1>4. SUFFICES ASSUME NEW x \in Range(u), x.f = "stat", x.v # None,
                      c.stat[x.k] # None, ~c.stat[x.k].direct
      PROVE \E n \in 1..Revisions :
              \/ \E p \in DOMAIN u :
                   /\ u[p].f = "hist" /\ u[p].k = <<x.k, n>> /\ u[p].v = c.stat[x.k].ver
                   /\ \A q \in DOMAIN u : q > p => u[q].f # "hist"
              \/ /\ c.hist[<<x.k, n>>] = c.stat[x.k].ver
                 /\ \A y \in Range(u) : y.f # "hist"
  BY DEF Recorded, c, u, w
<1>5. x.k \in Id /\ c.stat[x.k] = d.stat[x.k]
  <2>1. x.k \in Id
    BY <1>2, <1>4 DEF Write
  <2>2. PICK n \in DOMAIN u : u[n] = x
    BY DEF Range
  <2>3. w.f = "stat" => x.k # w.k
    <3> SUFFICES ASSUME w.f = "stat", x.k = w.k PROVE FALSE
      OBVIOUS
    <3>1. n + 1 = 1
      BY <1>1, <1>4, <2>2 DEF Commits
    <3> QED BY <1>1, <3>1
  <2> QED BY <1>3, <2>1, <2>3
<1>6. PICK n \in 1..Revisions :
         \/ \E p \in DOMAIN t :
              /\ t[p].f = "hist" /\ t[p].k = <<x.k, n>> /\ t[p].v = d.stat[x.k].ver
              /\ \A q \in DOMAIN t : q > p => t[q].f # "hist"
         \/ /\ d.hist[<<x.k, n>>] = d.stat[x.k].ver
            /\ \A y \in Range(t) : y.f # "hist"
  <2>1. /\ x \in Range(t) /\ x.f = "stat" /\ x.v # None
        /\ d.stat[x.k] # None /\ ~d.stat[x.k].direct
    BY <1>1, <1>4, <1>5
  <2> QED BY <2>1, Zenon DEF Recorded
<1>7. <<x.k, n>> \in Id \X (1..Revisions)
  BY <1>5
<1>8. CASE /\ d.hist[<<x.k, n>>] = d.stat[x.k].ver
           /\ \A y \in Range(t) : y.f # "hist"
  BY <1>1, <1>2, <1>3, <1>5, <1>7, <1>8
<1>9. ASSUME NEW p \in DOMAIN t, t[p].f = "hist", t[p].k = <<x.k, n>>, t[p].v = d.stat[x.k].ver,
             \A q \in DOMAIN t : q > p => t[q].f # "hist"
      PROVE  \/ \E o \in DOMAIN u :
                  /\ u[o].f = "hist" /\ u[o].k = <<x.k, n>> /\ u[o].v = c.stat[x.k].ver
                  /\ \A q \in DOMAIN u : q > o => u[q].f # "hist"
             \/ /\ c.hist[<<x.k, n>>] = c.stat[x.k].ver
                /\ \A y \in Range(u) : y.f # "hist"
  <2>1. CASE p = 1
    <3>1. c.hist[<<x.k, n>>] = c.stat[x.k].ver
      BY <1>1, <1>3, <1>5, <1>7, <1>9, <2>1
    <3>2. \A q \in DOMAIN u : u[q].f # "hist"
      BY <1>1, <1>9, <2>1
    <3> QED BY <3>1, <3>2 DEF Range
  <2>2. CASE p # 1
    <3>1. p - 1 \in DOMAIN u /\ u[p - 1] = t[p] /\ p \in Nat
      BY <1>1, <2>2
    <3>2. \A q \in DOMAIN u : q > p - 1 => u[q].f # "hist"
      BY <1>1, <1>9, <3>1
    <3> QED BY <1>5, <1>9, <3>1, <3>2
  <2> QED BY <2>1, <2>2
<1> QED BY <1>6, <1>8, <1>9


\* The replies to a status, and how many they are.
Answers(r, i) == {j \in Id : r.stat[j] # None /\ r.stat[j].parent = i}

\* The answers to a status are counted, and are at most as many as there are ids.
LEMMA AnswersAre ==
  ASSUME HouseholdAssumption, NEW r, NEW i
  PROVE  /\ IsFiniteSet(Answers(r, i))
         /\ Cardinality(Answers(r, i)) \in Nat /\ Cardinality(Answers(r, i)) <= MaxId
         /\ Replies(r, i) = IF r.stat[i] = None THEN 0 ELSE Cardinality(Answers(r, i))
         /\ Replies(r, i) \in 0..MaxId
<1>1. IsFiniteSet(1..MaxId) /\ Cardinality(1..MaxId) = MaxId /\ MaxId \in Nat
  BY FS_Interval DEF HouseholdAssumption
<1>2. Answers(r, i) \subseteq 1..MaxId
  BY DEF Answers, Id
<1> DEFINE S == Answers(r, i)
<1>3. Replies(r, i) = IF r.stat[i] = None THEN 0 ELSE Cardinality(S)
  BY DEF Replies, Answers
<1> HIDE DEF S
<1>4. IsFiniteSet(S) /\ Cardinality(S) \in Nat /\ Cardinality(S) <= MaxId
  <2>1. S \subseteq 1..MaxId
    BY <1>2 DEF S
  <2>2. IsFiniteSet(S) /\ Cardinality(S) <= Cardinality(1..MaxId)
    BY <1>1, <2>1, FS_Subset
  <2> QED BY <1>1, <2>2, FS_CardinalityType
<1>5. Replies(r, i) \in 0..MaxId
  BY <1>1, <1>3, <1>4
<1> QED BY <1>3, <1>4, <1>5 DEF S

\* Memory counts, write by write, what boot would count.
LEMMA StepCounts ==
  ASSUME HouseholdAssumption, NEW m, NEW d \in Records, NEW last \in Nat,
         m = [rec |-> d, mentions |-> m.mentions, replies |-> m.replies],
         m.mentions \in [Id -> SUBSET Slot], m.replies \in [Id -> 0..MaxId],
         \A i \in Id : m.replies[i] = Replies(d, i),
         NEW t \in Seq(Write), t # <<>>, Dated(d, last), Commits(d, t, last)
  PROVE  LET a == Applied(m, Head(t)) IN
         /\ a.mentions \in [Id -> SUBSET Slot] /\ a.replies \in [Id -> 0..MaxId]
         /\ \A i \in Id : a.replies[i] = Replies(Stored(d, Head(t)), i)
<1> DEFINE w == Head(t)
           a == Applied(m, w)
           e == Stored(d, w)
           k == w.k
<1>1. w = t[1] /\ 1 \in DOMAIN t /\ w \in Range(t) /\ w \in Write
  BY RangeTail, RangeOf
<1>2. /\ e \in Records
      /\ \A i \in Id : e.stat[i] = IF w.f = "stat" /\ k = i THEN w.v ELSE d.stat[i]
  BY <1>1, StatAfter
<1>3. /\ w.f = "stat" /\ w.v = None => d.stat[k] # None
      /\ w.f = "stat" /\ w.v # None => Commit(d, Range(t), w, last)
      /\ w.f = "stat" => k \in Id /\ w.v \in StatusRec \cup {None}
  BY <1>1, WriteIs DEF Commits
<1>4. m.rec = d
  OBVIOUS
<1>5. Id \subseteq Nat \ {0} /\ \A i \in Id : d.stat[i] \in StatusRec \cup {None}
  <2>1. Id \subseteq Nat \ {0}
    BY DEF Id
  <2>2. \A i \in Id : d.stat[i] \in StatusRec \cup {None}
    BY DEF Records
  <2> QED BY <2>1, <2>2
<1>6. \A r \in StatusRec : r.parent \in 0..MaxId
  BY DEF StatusRec
<1>7. \A i \in Id : /\ IsFiniteSet(Answers(d, i)) /\ Cardinality(Answers(d, i)) \in Nat
                    /\ Replies(d, i) = IF d.stat[i] = None THEN 0 ELSE Cardinality(Answers(d, i))
                    /\ Replies(e, i) = IF e.stat[i] = None THEN 0 ELSE Cardinality(Answers(e, i))
                    /\ Replies(e, i) \in 0..MaxId
  BY AnswersAre
<1>8. \A i \in Id : d.stat[i] # None => d.stat[i].parent < i
  BY DEF Dated
<1>9. w.f # "stat" => a = [m EXCEPT !.rec = e]
  BY <1>4 DEF Applied
<1>10. ASSUME w.f = "stat"
       PROVE  LET up == IF d.stat[k] = None THEN w.v.parent
                        ELSE IF w.v = None THEN d.stat[k].parent ELSE 0
                  counts == IF up > 0 /\ d.stat[up] # None
                            THEN Counted(m.replies, up, IF w.v = None THEN 0 ELSE 1)
                            ELSE m.replies
              IN /\ a.mentions = [m.mentions EXCEPT ![k] = MaskAfter(m, w)]
                 /\ a.replies = IF w.v = None THEN [counts EXCEPT ![k] = 0] ELSE counts
  BY <1>4, <1>10 DEF Applied
<1> HIDE DEF w, a, e, k
<1>11. a.mentions \in [Id -> SUBSET Slot]
  <2>1. MaskAfter(m, w) \in SUBSET Slot
    BY DEF MaskAfter, MentionMask
  <2> QED BY <1>9, <1>10, <2>1
<1>12. CASE w.f # "stat"
  <2>1. \A i \in Id : e.stat[i] = d.stat[i]
    BY <1>2, <1>12
  <2>2. \A i \in Id : Answers(e, i) = Answers(d, i)
    BY <2>1 DEF Answers
  <2>3. a.replies = m.replies
    BY <1>9, <1>12
  <2>4. \A i \in Id : a.replies[i] = Replies(e, i)
    BY <1>7, <2>1, <2>2, <2>3
  <2> QED BY <1>11, <2>3, <2>4 DEF w, a, e
<1>13. CASE w.f = "stat" /\ w.v = None
  <2> DEFINE up == d.stat[k].parent
  <2>1. /\ k \in Id /\ d.stat[k] # None /\ up \in Nat /\ up < k
        /\ e.stat[k] = None /\ \A i \in Id : i # k => e.stat[i] = d.stat[i]
    BY <1>2, <1>3, <1>5, <1>6, <1>8, <1>13
  <2>2. \A i \in Id : Answers(e, i) = Answers(d, i) \ {k}
    BY <2>1 DEF Answers
  <2>3. \A i \in Id : k \in Answers(d, i) <=> i = up
    BY <2>1 DEF Answers
  <2>4. \A i \in Id : Cardinality(Answers(d, i) \ {k}) =
          IF i = up THEN Cardinality(Answers(d, i)) - 1 ELSE Cardinality(Answers(d, i))
    BY <1>7, <2>3, FS_RemoveElement
  <2>5. a.replies = [(IF up > 0 /\ d.stat[up] # None THEN Counted(m.replies, up, 0)
                      ELSE m.replies) EXCEPT ![k] = 0]
    BY <1>10, <1>13, <2>1
  <2> HIDE DEF up
  <2>6. ASSUME NEW i \in Id PROVE a.replies[i] = Replies(e, i)
    <3>1. CASE i = k
      BY <1>7, <2>1, <2>5, <3>1 DEF Counted
    <3>2. CASE i # k /\ i # up
      <4>1. a.replies[i] = m.replies[i]
        BY <2>5, <3>2 DEF Counted
      <4> QED BY <1>7, <2>1, <2>2, <2>4, <3>2, <4>1
    <3>3. CASE i # k /\ i = up /\ d.stat[up] = None
      <4>1. a.replies[i] = m.replies[i]
        BY <2>5, <3>3
      <4> QED BY <1>7, <2>1, <3>3, <4>1
    <3>4. CASE i # k /\ i = up /\ d.stat[up] # None
      <4>1. a.replies[i] = m.replies[i] - 1
        BY <1>5, <2>5, <3>4 DEF Counted
      <4> QED BY <1>7, <2>1, <2>2, <2>4, <3>4, <4>1
    <3> QED BY <3>1, <3>2, <3>3, <3>4
  <2>7. a.replies \in [Id -> 0..MaxId]
    <3>1. a.replies = [i \in Id |-> a.replies[i]]
      BY <2>5 DEF Counted
    <3>2. \A i \in Id : a.replies[i] \in 0..MaxId
      BY <1>7, <2>6
    <3> DEFINE g == a.replies
    <3> HIDE DEF g
    <3>3. g = [i \in Id |-> g[i]] /\ \A i \in Id : g[i] \in 0..MaxId
      BY <3>1, <3>2 DEF g
    <3>4. g \in [Id -> 0..MaxId]
      BY <3>3
    <3> QED BY <3>4 DEF g
  <2> QED BY <1>11, <2>6, <2>7 DEF w, a, e
<1>14. CASE w.f = "stat" /\ w.v # None /\ d.stat[k] # None
  <2>1. /\ k \in Id /\ e.stat[k] # None /\ e.stat[k].parent = d.stat[k].parent
        /\ \A i \in Id : i # k => e.stat[i] = d.stat[i]
    BY <1>2, <1>3, <1>14 DEF Commit, k
  <2>2. \A i \in Id : Answers(e, i) = Answers(d, i)
    BY <1>14, <2>1 DEF Answers
  <2>3. a.replies = m.replies
    BY <1>10, <1>14
  <2>4. \A i \in Id : a.replies[i] = Replies(e, i)
    BY <1>7, <1>14, <2>1, <2>2, <2>3
  <2> QED BY <1>11, <2>3, <2>4 DEF w, a, e
<1>15. CASE w.f = "stat" /\ w.v # None /\ d.stat[k] = None
  <2> DEFINE up == w.v.parent
  <2>1. /\ k \in Id /\ up \in Nat /\ up < k /\ e.stat[k] # None /\ e.stat[k].parent = up
        /\ \A i \in Id : i # k => e.stat[i] = d.stat[i]
        /\ \A j \in Id : d.stat[j] # None => d.stat[j].parent # k
    BY <1>2, <1>3, <1>5, <1>6, <1>15 DEF Commit, k
  <2>2. a.replies = IF up > 0 /\ d.stat[up] # None THEN Counted(m.replies, up, 1) ELSE m.replies
    BY <1>10, <1>15
  <2> HIDE DEF up
  <2>3. \A i \in Id : Answers(e, i) = IF i = up THEN Answers(d, i) \cup {k} ELSE Answers(d, i)
    BY <1>15, <2>1 DEF Answers
  <2>4. \A i \in Id : k \notin Answers(d, i)
    BY <1>15 DEF Answers
  <2>5. \A i \in Id : Cardinality(Answers(d, i) \cup {k}) = Cardinality(Answers(d, i)) + 1
    BY <1>7, <2>4, FS_AddElement
  <2>6. Answers(e, k) = {}
    BY <1>15, <2>1 DEF Answers
  <2>7. ASSUME NEW i \in Id PROVE a.replies[i] = Replies(e, i)
    <3>1. CASE i = k
      <4>1. a.replies[i] = m.replies[i] /\ m.replies[i] = 0
        BY <1>7, <1>15, <2>1, <2>2, <3>1 DEF Counted
      <4> QED BY <1>7, <2>1, <2>6, <3>1, <4>1, FS_EmptySet
    <3>2. CASE i # k /\ i # up
      <4>1. a.replies[i] = m.replies[i]
        BY <2>2, <3>2 DEF Counted
      <4> QED BY <1>7, <2>1, <2>3, <3>2, <4>1
    <3>3. CASE i # k /\ i = up /\ d.stat[up] = None
      <4>1. a.replies[i] = m.replies[i]
        BY <2>2, <3>3
      <4> QED BY <1>7, <2>1, <3>3, <4>1
    <3>4. CASE i # k /\ i = up /\ d.stat[up] # None
      <4>1. a.replies[i] = m.replies[i] + 1
        BY <1>5, <2>2, <3>4 DEF Counted
      <4> QED BY <1>7, <2>1, <2>3, <2>5, <3>4, <4>1
    <3> QED BY <3>1, <3>2, <3>3, <3>4
  <2>8. a.replies \in [Id -> 0..MaxId]
    <3> DEFINE g == a.replies
    <3>1. g = [i \in Id |-> g[i]]
      BY <2>2 DEF Counted
    <3> HIDE DEF g
    <3>2. \A i \in Id : g[i] \in 0..MaxId
      BY <1>7, <2>7 DEF g
    <3>3. g \in [Id -> 0..MaxId]
      BY <3>1, <3>2
    <3> QED BY <3>3 DEF g
  <2> QED BY <1>11, <2>7, <2>8 DEF w, a, e
<1> QED BY <1>12, <1>13, <1>14, <1>15


-----------------------------------------------------------------------------
(* The part of a request before it commits: what it writes of statuses is only *)
(* to erase them, each once, and the history it keeps is of old ones.          *)

Opens(d, t, last) ==
  /\ t \in Seq(Write)
  /\ \A m, n \in DOMAIN t :
       t[m].f = "stat" /\ t[n].f = "stat" /\ t[m].k = t[n].k => m = n
  /\ \A w \in Range(t) : w.f = "stat" => w.v = None /\ d.stat[w.k] # None
  /\ \A w \in Range(t) : w.f = "hist" /\ w.v # 0 =>
       w.k[1] <= last /\ (d.stat[w.k[1]] # None => ~d.stat[w.k[1]].direct)

\* It may be empty.
LEMMA OpensNone == ASSUME NEW d, NEW last PROVE Opens(d, <<>>, last)
BY DEF Opens, Range

\* A list that leaves statuses and history alone.
LEMMA OpensCalm ==
  ASSUME NEW d, NEW last, NEW t \in Seq(Write),
         \A w \in Range(t) : w.f # "stat" /\ (w.f = "hist" => w.v = 0)
  PROVE  Opens(d, t, last)
<1>1. \A n \in DOMAIN t : t[n].f # "stat"
  BY DEF Range
<1> QED BY <1>1 DEF Opens

\* It may be in two parts that erase different statuses.
LEMMA OpensConcat ==
  ASSUME NEW d, NEW last, NEW p, NEW q, Opens(d, p, last), Opens(d, q, last),
         \A x \in Range(p), y \in Range(q) : x.f = "stat" /\ y.f = "stat" => x.k # y.k
  PROVE  Opens(d, p \o q, last)
<1> DEFINE t == p \o q
<1>1. /\ t \in Seq(Write) /\ Range(t) = Range(p) \cup Range(q)
      /\ DOMAIN t = 1..Len(t) /\ Len(t) = Len(p) + Len(q) /\ Len(p) \in Nat /\ Len(q) \in Nat
      /\ DOMAIN p = 1..Len(p) /\ DOMAIN q = 1..Len(q)
  BY RangeConcat DEF Opens
<1>2. \A n \in DOMAIN t : \/ n \in DOMAIN p /\ t[n] = p[n] /\ p[n] \in Range(p)
                          \/ /\ n - Len(p) \in DOMAIN q /\ t[n] = q[n - Len(p)]
                             /\ q[n - Len(p)] \in Range(q)
  <2> TAKE n \in DOMAIN t
  <2>1. CASE n <= Len(p)
    <3>1. n \in DOMAIN p /\ t[n] = p[n]
      BY <1>1, <2>1 DEF Opens
    <3> QED BY <3>1 DEF Range
  <2>2. CASE ~(n <= Len(p))
    <3>1. n - Len(p) \in DOMAIN q /\ t[n] = q[n - Len(p)]
      BY <1>1, <2>2 DEF Opens
    <3> QED BY <3>1 DEF Range
  <2> QED BY <2>1, <2>2
<1> HIDE DEF t
<1>3. ASSUME NEW m \in DOMAIN t, NEW n \in DOMAIN t,
             t[m].f = "stat", t[n].f = "stat", t[m].k = t[n].k
      PROVE  m = n
  <2>1. CASE m \in DOMAIN p /\ t[m] = p[m] /\ p[m] \in Range(p)
    <3>1. n \in DOMAIN p /\ t[n] = p[n]
      BY <1>2, <1>3, <2>1
    <3> QED BY <1>3, <2>1, <3>1 DEF Opens
  <2>2. CASE /\ m - Len(p) \in DOMAIN q /\ t[m] = q[m - Len(p)]
             /\ q[m - Len(p)] \in Range(q)
    <3>1. n - Len(p) \in DOMAIN q /\ t[n] = q[n - Len(p)]
      BY <1>2, <1>3, <2>2
    <3>2. m - Len(p) = n - Len(p)
      BY <1>3, <2>2, <3>1 DEF Opens
    <3> QED BY <1>1, <3>2
  <2> QED BY <1>2, <2>1, <2>2
<1>4. Opens(d, t, last)
  <2>1. \A w \in Range(t) : w.f = "stat" => w.v = None /\ d.stat[w.k] # None
    BY <1>1 DEF Opens
  <2>2. \A w \in Range(t) : w.f = "hist" /\ w.v # 0 =>
          w.k[1] <= last /\ (d.stat[w.k[1]] # None => ~d.stat[w.k[1]].direct)
    BY <1>1 DEF Opens
  <2> QED BY <1>1, <1>3, <2>1, <2>2 DEF Opens
<1> QED BY <1>4 DEF t

\* It may be all of a request.
LEMMA OpensCommits ==
  ASSUME NEW d, NEW last, NEW t, Opens(d, t, last)
  PROVE  Commits(d, t, last) /\ Recorded(d, t)
<1>1. \A n \in DOMAIN t : t[n] \in Range(t)
  BY DEF Range
<1>2. Commits(d, t, last)
  BY <1>1 DEF Opens, Commits
<1>3. Recorded(d, t)
  BY DEF Opens, Recorded
<1> QED BY <1>2, <1>3

\* Or a status is committed last.
LEMMA OpensLast ==
  ASSUME NEW d, NEW last, NEW t, Opens(d, t, last),
         NEW x \in Write, x.f = "stat", x.v # None,
         \A w \in Range(t) : w.f = "stat" => w.k # x.k,
         Commit(d, Range(t), x, last)
  PROVE  t \o <<x>> \in Seq(Write) /\ Commits(d, t \o <<x>>, last)
<1> DEFINE u == t \o <<x>>
<1>1. /\ u \in Seq(Write) /\ Range(u) = Range(t) \cup {x} /\ Len(t) \in Nat
      /\ DOMAIN u = 1..Len(t) + 1 /\ DOMAIN t = 1..Len(t) /\ Len(u) = Len(t) + 1
      /\ u[Len(t) + 1] = x
      /\ \A n \in DOMAIN t : u[n] = t[n] /\ t[n] \in Range(t)
  <2>1. t \in Seq(Write) /\ <<x>> \in Seq(Write) /\ Range(<<x>>) = {x}
    BY DEF Opens, Range
  <2>2. \A n \in DOMAIN t : t[n] \in Range(t)
    BY DEF Range
  <2>3. u \in Seq(Write) /\ Range(u) = Range(t) \cup {x}
    <3> DEFINE q == <<x>>
    <3>1. t \in Seq(Write) /\ q \in Seq(Write) /\ Range(q) = {x} /\ u = t \o q
      BY <2>1
    <3> HIDE DEF q, u
    <3> QED BY <3>1, RangeConcat
  <2> QED BY <2>1, <2>2, <2>3
<1>2. \A n \in DOMAIN u : n \in DOMAIN t \/ n = Len(t) + 1
  BY <1>1
<1> HIDE DEF u
<1>3. \A m, n \in DOMAIN u :
        u[m].f = "stat" /\ u[n].f = "stat" /\ u[m].k = u[n].k => m = n
  <2> SUFFICES ASSUME NEW m \in DOMAIN u, NEW n \in DOMAIN u,
                      u[m].f = "stat", u[n].f = "stat", u[m].k = u[n].k
               PROVE  m = n
    OBVIOUS
  <2>1. CASE m \in DOMAIN t
    <3>1. n \in DOMAIN t
      BY <1>1, <1>2, <2>1
    <3> QED BY <1>1, <2>1, <3>1 DEF Opens
  <2>2. CASE m = Len(t) + 1
    BY <1>1, <1>2, <2>2
  <2> QED BY <1>2, <2>1, <2>2
<1>4. \A w \in Range(u) : w.f = "stat" /\ w.v = None => d.stat[w.k] # None
  BY <1>1 DEF Opens
<1>5. \A w \in Range(u) : w.f = "hist" /\ w.v # 0 =>
        w.k[1] <= last /\ (d.stat[w.k[1]] # None => ~d.stat[w.k[1]].direct)
  BY <1>1 DEF Opens
<1>6. Commit(d, Range(u), x, last)
  BY <1>1 DEF Commit
<1>7. \A n \in DOMAIN u : u[n].f = "stat" /\ u[n].v # None =>
        n = Len(u) /\ Commit(d, Range(u), u[n], last)
  BY <1>1, <1>2, <1>6 DEF Opens
<1>8. Commits(d, u, last)
  BY <1>3, <1>4, <1>5, <1>7 DEF Commits
<1> QED BY <1>1, <1>8 DEF u


-----------------------------------------------------------------------------
(* What boot repairs is sound. *)

\* A record that boot loads is one it keeps.
LEMMA LoadedHist ==
  ASSUME NEW d \in Records, NEW h \in Id \X (1..Revisions), Loaded(d).hist[h] # 0
  PROVE  /\ Kept(d, h[1]) /\ Loaded(d).hist[h] = d.hist[h]
         /\ d.hist[h] < d.stat[h[1]].ver
<1>1. h[1] \in Id /\ h[2] \in 1..Revisions /\ h = <<h[1], h[2]>>
  OBVIOUS
<1>2. DOMAIN d.hist = Id \X (1..Revisions)
  BY DEF Records
<1>3. Loaded(d).hist[h] = IF RevisionKept(d, h[1], h[2]) THEN d.hist[h] ELSE 0
  BY <1>2 DEF Loaded
<1> QED BY <1>1, <1>3 DEF RevisionKept

\* What boot loads is sound, whatever it loads it from.
LEMMA LoadedSound ==
  ASSUME HouseholdAssumption, NEW d \in Records
  PROVE  Sound(Loaded(d))
<1> DEFINE r == Loaded(d)
<1>1. /\ \A s \in Slot : r.acct[s] = IF Live(d, s) THEN d.acct[s] ELSE None
      /\ \A i \in Id : /\ r.stat[i] = IF Kept(d, i) THEN d.stat[i] ELSE None
                       /\ r.dm[i] = IF Kept(d, i) THEN d.dm[i] ELSE 0
                       /\ r.poll[i] # None => Kept(d, i)
      /\ \A k \in Mark : r.mark[k] = IF Kept(d, k[2]) /\ Live(d, k[3]) THEN d.mark[k] ELSE 0
  BY LoadedIs
<1>2. \A h \in Id \X (1..Revisions) : r.hist[h] # 0 =>
        Kept(d, h[1]) /\ r.hist[h] < d.stat[h[1]].ver
  BY LoadedHist
<1>3. \A i \in Id : d.stat[i] # None => d.stat[i].author \in Slot
  BY DEF Records, StatusRec
<1>4. /\ \A k \in Mark : k[2] \in Id /\ k[3] \in Slot
      /\ \A h \in Id \X (1..Revisions) : h[1] \in Id
  BY DEF Mark
<1> HIDE DEF r
<1>5. \A s \in Slot : Live(r, s) <=> Live(d, s)
  BY <1>1 DEF Live
<1>6. \A s \in Slot : r.acct[s] # None => ~r.acct[s].deleted
  BY <1>1 DEF Live
<1>7. \A i \in Id : /\ r.stat[i] # None => Live(r, r.stat[i].author)
                    /\ r.poll[i] # None => r.stat[i] # None
                    /\ r.dm[i] # 0 => r.stat[i] # None
  BY <1>1, <1>3, <1>5 DEF Kept
<1>8. \A h \in Id \X (1..Revisions) : r.hist[h] # 0 =>
        r.stat[h[1]] # None /\ r.hist[h] < r.stat[h[1]].ver
  BY <1>1, <1>2, <1>4 DEF Kept
<1>9. \A k \in Mark : r.mark[k] # 0 => r.stat[k[2]] # None /\ Live(r, k[3])
  BY <1>1, <1>4, <1>5 DEF Kept
<1> QED BY <1>6, <1>7, <1>8, <1>9 DEF Sound, r

\* And of a sound store boot loads all.
LEMMA SoundLoads ==
  ASSUME HouseholdAssumption, NEW e \in Records, Sound(e)
  PROVE  Loaded(e) = e
<1> DEFINE r == Loaded(e)
<1>1. /\ r \in Records
      /\ \A s \in Slot : r.acct[s] = IF Live(e, s) THEN e.acct[s] ELSE None
      /\ \A i \in Id : /\ r.stat[i] = IF Kept(e, i) THEN e.stat[i] ELSE None
                       /\ r.dm[i] = IF Kept(e, i) THEN e.dm[i] ELSE 0
      /\ \A k \in Mark : r.mark[k] = IF Kept(e, k[2]) /\ Live(e, k[3]) THEN e.mark[k] ELSE 0
  BY LoadedIs
<1>2. \A i \in Id : Kept(e, i) <=> e.stat[i] # None
  BY DEF Sound, Kept
<1>3. \A s \in Slot : e.acct[s] # None <=> Live(e, s)
  BY DEF Sound, Live
<1>4. \A s \in Slot : ~Tombstoned(e, s)
  BY DEF Sound, Tombstoned
<1>5. \A i \in Id : r.poll[i] = e.poll[i]
  <2> TAKE i \in Id
  <2>1. r.poll[i] = IF Kept(e, i) /\ e.poll[i] # None
                    THEN VotesOfMembers(e, e.poll[i]) ELSE None
    BY DEF Loaded
  <2>2. ASSUME e.poll[i] # None PROVE VotesOfMembers(e, e.poll[i]) = e.poll[i]
    <3>1. e.poll[i] \in PollRec
      BY <2>2 DEF Records
    <3> QED BY <1>4, <3>1 DEF VotesOfMembers, PollRec
  <2>3. e.poll[i] # None => Kept(e, i)
    BY <1>2 DEF Sound
  <2> HIDE DEF r
  <2> QED BY <2>1, <2>2, <2>3
<1>6. \A h \in Id \X (1..Revisions) : r.hist[h] = e.hist[h]
  <2> TAKE h \in Id \X (1..Revisions)
  <2>1. h[1] \in Id /\ h = <<h[1], h[2]>> /\ DOMAIN e.hist = Id \X (1..Revisions)
    BY DEF Records
  <2>2. r.hist[h] = IF RevisionKept(e, h[1], h[2]) THEN e.hist[h] ELSE 0
    BY <2>1 DEF Loaded
  <2>3. e.hist[h] # 0 => RevisionKept(e, h[1], h[2])
    BY <1>2, <2>1 DEF Sound, RevisionKept
  <2> QED BY <2>2, <2>3
<1>7. \A k \in Mark : r.mark[k] = e.mark[k]
  <2>1. \A k \in Mark : k[2] \in Id
    BY DEF Mark
  <2> QED BY <1>1, <1>2, <2>1 DEF Sound
<1>8. /\ \A s \in Slot : r.acct[s] = e.acct[s]
      /\ \A i \in Id : r.stat[i] = e.stat[i] /\ r.dm[i] = e.dm[i]
  <2>1. \A s \in Slot : r.acct[s] = e.acct[s]
    BY <1>1, <1>3
  <2>2. \A i \in Id : r.stat[i] = e.stat[i] /\ r.dm[i] = e.dm[i]
    BY <1>1, <1>2 DEF Sound
  <2> QED BY <2>1, <2>2
<1> HIDE DEF r
<1>9. \A f \in Field : \A k \in DOMAIN NoRecords[f] : r[f][k] = e[f][k]
  BY <1>5, <1>6, <1>7, <1>8 DEF Field, NoRecords
<1>10. r = e
  BY <1>1, <1>9, SameRecords
<1> QED BY <1>10 DEF r

\* The repairs of one field write each key once.
LEMMA RepairsOfOnce ==
  ASSUME HouseholdAssumption, NEW d, NEW r \in Records,
         NEW f \in Field, NEW ks \in SUBSET DOMAIN NoRecords[f]
  PROVE  LET t == RepairsOf(d, r, f, ks) IN
         \A m, n \in DOMAIN t : t[m].k = t[n].k => m = n
<1> DEFINE order == SetToSeq(ks)
           t == RepairsOf(d, r, f, ks)
<1>1. t = [n \in DOMAIN order |-> Put(f, order[n], r[f][order[n]])]
  BY DEF RepairsOf
<1>2. IsInjective(order)
  <2>1. IsFiniteSet(ks)
    BY KeysFinite, FS_Subset
  <2> QED BY <2>1, Listed
<1> HIDE DEF order, t
<1>3. DOMAIN t = DOMAIN order /\ \A n \in DOMAIN t : t[n].k = order[n]
  BY <1>1 DEF Put
<1>4. \A m, n \in DOMAIN t : t[m].k = t[n].k => m = n
  BY <1>2, <1>3 DEF IsInjective
<1> QED BY <1>4 DEF t

\* The repairs of a boot commit nothing.
LEMMA RepairsOpen ==
  ASSUME HouseholdAssumption, NEW d \in Records, NEW last
  PROVE  Opens(d, Repairs(d), last)
<1> DEFINE r == Loaded(d)
           R == Rewritten(d)
           O(f) == Orphans(d, f)
           ks(f) == {k \in Changed(d, r, f) : r[f][k] = NoRecords[f][k]}
           ps == {i \in Changed(d, r, "poll") : r.poll[i] # None}
<1>1. r \in Records
  BY LoadedIs
<1>2. /\ \A f \in Field : DOMAIN d[f] = DOMAIN NoRecords[f]
      /\ "poll" \in Field
  BY DEF Records, NoRecords, Field
<1>3. \A f \in Field : ks(f) \subseteq DOMAIN NoRecords[f] /\ ps \subseteq DOMAIN NoRecords["poll"]
  BY <1>2 DEF Changed
<1>4. R = RepairsOf(d, r, "poll", ps) /\ \A f : O(f) = RepairsOf(d, r, f, ks(f))
  BY DEF Rewritten, Orphans
<1>5. \A k \in ks("stat") : r["stat"][k] = None /\ d["stat"][k] # None
  <2>1. ks("stat") \subseteq Id
    BY <1>3 DEF Field, NoRecords
  <2>2. \A k \in Id : NoRecords["stat"][k] = None
    BY DEF NoRecords
  <2> QED BY <2>1, <2>2 DEF Changed
<1>6. \A k \in ks("hist") : r["hist"][k] = 0
  <2>1. ks("hist") \subseteq Id \X (1..Revisions)
    BY <1>3 DEF Field, NoRecords
  <2> QED BY <2>1 DEF NoRecords
<1> HIDE DEF r, R, O, ks, ps
<1> DEFINE Part(t, f) == t \in Seq(Write) /\ \A x \in Range(t) : x.f = f
<1>7. Part(R, "poll")
  <2> DEFINE t == RepairsOf(d, r, "poll", ps)
  <2>1. ps \in SUBSET DOMAIN NoRecords["poll"] /\ "poll" \in Field
    BY <1>2, <1>3
  <2>2. /\ t \in Seq(Write)
        /\ \A x \in Range(t) : x.f = "poll" /\ x.k \in ps /\ x.v = r["poll"][x.k]
        /\ \A k \in ps : Writes(Range(t), "poll", k)
    BY <1>1, <2>1, RepairsOfAre
  <2>3. R = t
    BY <1>4
  <2> HIDE DEF t
  <2> QED BY <2>2, <2>3
<1>8. ASSUME NEW f \in Field
      PROVE  /\ Part(O(f), f)
             /\ \A x \in Range(O(f)) : x.k \in ks(f) /\ x.v = r[f][x.k]
             /\ \A m, n \in DOMAIN O(f) : O(f)[m].k = O(f)[n].k => m = n
  <2> DEFINE t == RepairsOf(d, r, f, ks(f))
  <2>1. ks(f) \in SUBSET DOMAIN NoRecords[f]
    BY <1>3
  <2>2. /\ t \in Seq(Write)
        /\ \A x \in Range(t) : x.f = f /\ x.k \in ks(f) /\ x.v = r[f][x.k]
        /\ \A k \in ks(f) : Writes(Range(t), f, k)
    BY <1>1, <2>1, RepairsOfAre
  <2>3. \A m, n \in DOMAIN t : t[m].k = t[n].k => m = n
    BY <1>1, <2>1, RepairsOfOnce
  <2>4. O(f) = t
    BY <1>4
  <2> HIDE DEF t
  <2> QED BY <2>2, <2>3, <2>4
<1>9. {"stat", "dm", "poll", "hist", "mark", "acct"} = Field
  BY DEF Field
<1>10. Opens(d, O("stat"), last)
  <2>1. \A w \in Range(O("stat")) : w.f = "stat" /\ w.v = None /\ d.stat[w.k] # None
    BY <1>5, <1>8, <1>9
  <2>2. /\ O("stat") \in Seq(Write)
        /\ \A m, n \in DOMAIN O("stat") : O("stat")[m].k = O("stat")[n].k => m = n
    BY <1>8, <1>9
  <2> QED BY <2>1, <2>2 DEF Opens
<1>11. Opens(d, O("hist"), last)
  <2>1. \A w \in Range(O("hist")) : w.f = "hist" /\ w.v = 0
    BY <1>6, <1>8, <1>9
  <2>2. O("hist") \in Seq(Write)
    BY <1>8, <1>9
  <2> QED BY <2>1, <2>2, OpensCalm
<1>12. Opens(d, R, last)
  BY <1>7, OpensCalm
<1>13. ASSUME NEW f \in {"dm", "poll", "mark", "acct"} PROVE Opens(d, O(f), last)
  <2>1. Part(O(f), f)
    BY <1>8, <1>9
  <2> QED BY <2>1, OpensCalm
<1>14. ASSUME NEW p, Opens(d, p, last), NEW f \in Field \ {"stat"}
       PROVE  Opens(d, p \o O(f), last)
  <2>1. Opens(d, O(f), last)
    BY <1>9, <1>11, <1>13
  <2>2. \A y \in Range(O(f)) : y.f # "stat"
    BY <1>8
  <2> QED BY <1>14, <2>1, <2>2, OpensConcat
<1> DEFINE p1 == R \o O("stat")
           p2 == p1 \o O("dm")
           p3 == p2 \o O("poll")
           p4 == p3 \o O("hist")
           p5 == p4 \o O("mark")
           p6 == p5 \o O("acct")
<1>15. Repairs(d) = p6
  BY DEF Repairs, R, O
<1>16. Opens(d, p1, last)
  <2>1. \A x \in Range(R) : x.f # "stat"
    BY <1>7
  <2> QED BY <1>10, <1>12, <2>1, OpensConcat
<1> HIDE DEF p1, Part
<1>17. Opens(d, p2, last)
  BY <1>9, <1>14, <1>16
<1> HIDE DEF p2
<1>18. Opens(d, p3, last)
  BY <1>9, <1>14, <1>17
<1> HIDE DEF p3
<1>19. Opens(d, p4, last)
  BY <1>9, <1>14, <1>18
<1> HIDE DEF p4
<1>20. Opens(d, p5, last)
  BY <1>9, <1>14, <1>19
<1> HIDE DEF p5
<1>21. Opens(d, p6, last)
  BY <1>9, <1>14, <1>20
<1> QED BY <1>15, <1>21


-----------------------------------------------------------------------------
(* What each action does to it. *)

\* Nor does an empty list.
LEMMA NothingOpen ==
  ASSUME NEW d, NEW last
  PROVE  Commits(d, <<>>, last) /\ Recorded(d, <<>>)
BY OpensNone, OpensCommits

\* Counts that boot makes are in bounds.
LEMMA LoadCounts ==
  ASSUME HouseholdAssumption, NEW d
  PROVE  /\ Load(d).mentions \in [Id -> SUBSET Slot]
         /\ Load(d).replies \in [Id -> 0..MaxId]
         /\ Load(d).rec = Loaded(d)
         /\ \A i \in Id : Load(d).replies[i] = Replies(Load(d).rec, i)
<1> DEFINE r == Loaded(d)
           m == [i \in Id |-> IF r.stat[i] = None THEN {} ELSE MentionMask(r, r.stat[i].mentions)]
           c == [i \in Id |-> Replies(r, i)]
<1>1. Load(d) = [rec |-> r, mentions |-> m, replies |-> c]
  BY DEF Load
<1> HIDE DEF r
<1>2. m \in [Id -> SUBSET Slot]
  BY DEF MentionMask
<1>3. c \in [Id -> 0..MaxId]
  BY AnswersAre
<1>4. \A i \in Id : c[i] = Replies(r, i)
  OBVIOUS
<1> HIDE DEF m, c
<1> QED BY <1>1, <1>2, <1>3, <1>4 DEF r

\* A write brings the store nearer to its end, and memory counts it.
LEMMA StepKeeps2 ==
  ASSUME HouseholdAssumption, Inv, Inv', Inv2, Step
  PROVE  Inv2'
<1> DEFINE w == Head(todo)
<1>1. /\ todo # <<>> /\ todo \in Seq(Write) /\ disk \in Records /\ lastId \in Nat
      /\ disk' = Stored(disk, w) /\ todo' = Tail(todo)
      /\ ram' = IF mode = "up" THEN Applied(ram, w) ELSE ram
      /\ mode' = mode /\ lastId' = lastId /\ refused' = refused /\ faults' = faults
      /\ disk' \in Records
  BY DEF Step, Inv, Typed
<1>2. Dated(disk', lastId') /\ Commits(disk', todo', lastId') /\ Recorded(disk', todo')
  BY <1>1, StepDated, StepCommits, StepRecorded DEF Inv2
<1>3. Settles'
  <2>1. ASSUME NEW e, Ends(disk, todo, e) PROVE Ends(disk', todo', e)
    BY <1>1, <2>1, StepEnds
  <2>2. mode # "up" => ram' = ram
    BY <1>1
  <2> HIDE DEF w
  <2> QED BY <1>1, <2>1, <2>2 DEF Settles, Inv2
<1>4. Bounds' /\ Counts'
  <2>1. CASE mode = "up"
    <3>1. ram.rec = disk /\ ram'.rec = disk' /\ ram' = Applied(ram, w)
      BY <1>1, <2>1 DEF Inv, Mirror
    <3>2. ram = [rec |-> disk, mentions |-> ram.mentions, replies |-> ram.replies]
      BY <3>1 DEF Inv, Typed
    <3>3. /\ ram.mentions \in [Id -> SUBSET Slot] /\ ram.replies \in [Id -> 0..MaxId]
          /\ \A i \in Id : ram.replies[i] = Replies(disk, i)
      BY <3>1 DEF Inv2, Bounds, Counts
    <3>4. Dated(disk, lastId) /\ Commits(disk, todo, lastId)
      BY DEF Inv2
    <3> DEFINE a == Applied(ram, w)
    <3>5. /\ a.mentions \in [Id -> SUBSET Slot] /\ a.replies \in [Id -> 0..MaxId]
          /\ \A i \in Id : a.replies[i] = Replies(Stored(disk, w), i)
      BY <1>1, <3>2, <3>3, <3>4, StepCounts
    <3>6. ram' = a
      BY <3>1
    <3> HIDE DEF a, w
    <3> QED BY <1>1, <3>1, <3>5, <3>6 DEF Bounds, Counts, Inv2
  <2>2. CASE mode # "up"
    BY <1>1, <2>2 DEF Bounds, Counts, Inv2
  <2> QED BY <2>1, <2>2
<1> QED BY <1>2, <1>3, <1>4 DEF Inv2

\* A write cut short was made, or was not; the store is in order either way.
LEMMA CutKeeps2 ==
  ASSUME HouseholdAssumption, Inv, Inv2, todo # <<>>,
         disk' \in {disk, Stored(disk, Head(todo))}, todo' = <<>>, lastId' = lastId
  PROVE  Dated(disk, lastId)' /\ Commits(disk, todo, lastId)' /\ Recorded(disk, todo)'
<1>1. disk \in Records /\ todo \in Seq(Write) /\ lastId \in Nat
  BY DEF Inv, Typed
<1>2. Dated(disk', lastId')
  BY <1>1, StepDated DEF Inv2
<1> QED BY <1>2, NothingOpen

\* A write that fails.
LEMMA StepFailsKeeps2 ==
  ASSUME HouseholdAssumption, Inv, Inv2, StepFails
  PROVE  Inv2'
<1>1. /\ todo # <<>> /\ todo' = <<>> /\ mode' \in {"latched", "down"}
      /\ ram' = ram /\ refused' = refused /\ lastId' = lastId
      /\ disk' \in {disk, Stored(disk, Head(todo))}
      /\ faults < MaxFaults /\ faults' = faults + 1
  BY DEF StepFails, Fault, KeepIds
<1>2. Dated(disk, lastId)' /\ Commits(disk, todo, lastId)' /\ Recorded(disk, todo)'
  BY <1>1, CutKeeps2
<1>3. Bounds' /\ Counts' /\ Settles'
  BY <1>1 DEF Inv2, Bounds, Counts, Settles, HouseholdAssumption
<1> QED BY <1>2, <1>3 DEF Inv2

\* A write refused: the service remembers that its store may not be sound.
LEMMA StepRefusedKeeps2 ==
  ASSUME HouseholdAssumption, Inv, Inv2, StepRefused
  PROVE  Inv2'
<1>1. /\ todo # <<>> /\ todo' = <<>> /\ mode = "up" /\ mode' = mode
      /\ ram' = ram /\ refused' = TRUE /\ lastId' = lastId /\ disk' = disk
      /\ faults < MaxFaults /\ faults' = faults + 1
  BY DEF StepRefused, Fault, KeepIds
<1>2. Dated(disk, lastId)' /\ Commits(disk, todo, lastId)' /\ Recorded(disk, todo)'
  BY <1>1, CutKeeps2
<1>3. Bounds' /\ Counts' /\ Settles'
  BY <1>1 DEF Inv2, Bounds, Counts, Settles, HouseholdAssumption
<1> QED BY <1>2, <1>3 DEF Inv2

\* A service that goes off has nothing in memory.
LEMMA OffKeeps2 ==
  ASSUME HouseholdAssumption, Off, faults' \in 0..MaxFaults
  PROVE  Bounds' /\ Counts' /\ Settles'
<1>1. mode' = "down" /\ refused' = FALSE /\ ram' = Load(NoRecords)
  BY DEF Off
<1> QED BY <1>1, LoadCounts DEF Bounds, Counts, Settles

\* Power is lost: a boot will make the store sound.
LEMMA PowerCutKeeps2 ==
  ASSUME HouseholdAssumption, Inv, Inv2, PowerCut
  PROVE  Inv2'
<1>1. /\ todo # <<>> /\ todo' = <<>> /\ lastId' = lastId /\ Off
      /\ disk' \in {disk, Stored(disk, Head(todo))}
      /\ faults < MaxFaults /\ faults' = faults + 1
  BY DEF PowerCut, Off, Fault, KeepIds
<1>2. Dated(disk, lastId)' /\ Commits(disk, todo, lastId)' /\ Recorded(disk, todo)'
  BY <1>1, CutKeeps2
<1>3. faults' \in 0..MaxFaults
  BY <1>1 DEF Inv2, Bounds, HouseholdAssumption
<1> QED BY <1>1, <1>2, <1>3, OffKeeps2 DEF Inv2

\* An idle service is restarted.
LEMMA RestartKeeps2 ==
  ASSUME HouseholdAssumption, Inv, Inv2, Restart
  PROVE  Inv2'
<1>1. Off /\ todo' = <<>> /\ disk' = disk /\ faults' = faults /\ lastId' = lastId
  BY DEF Restart, Off, KeepIds
<1>2. Dated(disk, lastId)' /\ Commits(disk, todo, lastId)' /\ Recorded(disk, todo)'
  BY <1>1, NothingOpen DEF Inv2
<1>3. faults' \in 0..MaxFaults
  BY <1>1 DEF Inv2, Bounds
<1> QED BY <1>1, <1>2, <1>3, OffKeeps2 DEF Inv2

\* Boot loads a sound store, to which its repairs lead.
LEMMA BootKeeps2 ==
  ASSUME HouseholdAssumption, Inv, Inv2, Boot
  PROVE  Inv2'
<1>1. /\ mode' = "booting" /\ ram' = Load(disk) /\ todo' = Repairs(disk) /\ disk' = disk
      /\ lastId' = lastId /\ refused' = refused /\ faults' = faults /\ disk \in Records
  BY DEF Boot, KeepIds, Inv, Typed
<1>2. Commits(disk, Repairs(disk), lastId) /\ Recorded(disk, Repairs(disk))
  BY <1>1, RepairsOpen, OpensCommits
<1>3. Dated(disk, lastId)' /\ Commits(disk, todo, lastId)' /\ Recorded(disk, todo)'
  BY <1>1, <1>2 DEF Inv2
<1>4. Bounds' /\ Counts'
  BY <1>1, LoadCounts DEF Bounds, Counts, Inv2
<1>5. Settles'
  BY <1>1, LoadCounts, LoadedSound DEF Settles
<1> QED BY <1>3, <1>4, <1>5 DEF Inv2

\* The repairs made, the store is that sound one.
LEMMA BootedKeeps2 ==
  ASSUME HouseholdAssumption, Inv, Inv', Inv2, Booted
  PROVE  Inv2'
<1>1. /\ mode = "booting" /\ todo = <<>> /\ mode' = "up" /\ todo' = todo
      /\ disk' = disk /\ ram' = ram /\ refused' = refused /\ faults' = faults
      /\ lastId' = lastId
  BY DEF Booted, KeepIds
<1>2. ram.rec = disk /\ disk \in Records
  BY <1>1 DEF Inv, Mirror, Typed
<1>3. Settles'
  BY <1>1, <1>2, EndsNone DEF Settles, Inv2
<1>4. Bounds' /\ Counts'
  BY <1>1 DEF Bounds, Counts, Inv2
<1>5. Dated(disk, lastId)' /\ Commits(disk, todo, lastId)' /\ Recorded(disk, todo)'
  BY <1>1 DEF Inv2
<1> QED BY <1>3, <1>4, <1>5 DEF Inv2

\* A service that takes a request and has not refused one has a sound store.
LEMMA ReadySound ==
  ASSUME Inv, Inv2, Ready, ~refused
  PROVE  Sound(disk)
<1>1. mode = "up" /\ todo = <<>> /\ disk \in Records
  BY DEF Ready, Inv, Typed
<1>2. PICK e \in Records : Ends(disk, <<>>, e) /\ Sound(e)
  BY <1>1 DEF Inv2, Settles
<1>3. e = disk
  BY <1>1, <1>2, EndsNone
<1> QED BY <1>2, <1>3

\* What a request has to show.
LEMMA RequestKeeps2 ==
  ASSUME HouseholdAssumption, Inv, Inv2, NEW t, Request(t), lastId' \in Nat, lastId <= lastId',
         Commits(disk, t, lastId'), Recorded(disk, t),
         Sound(disk) => \E e \in Records : Ends(disk, t, e) /\ Sound(e)
  PROVE  Inv2'
<1>1. /\ Ready /\ mode' = mode /\ mode = "up" /\ todo' = t /\ disk' = disk /\ ram' = ram
      /\ refused' = refused /\ faults' = faults /\ disk \in Records /\ lastId \in Nat
  BY DEF Request, Ready, Inv, Typed
<1>2. Dated(disk, lastId')
  <2>1. DOMAIN disk.hist = Id \X (1..Revisions)
    BY <1>1 DEF Records
  <2>2. \A h \in DOMAIN disk.hist : h[1] \in Nat
    BY <2>1 DEF Id
  <2>3. Id \subseteq Nat
    BY DEF Id
  <2> QED BY <1>1, <2>2, <2>3 DEF Inv2, Dated
<1>3. Dated(disk, lastId)' /\ Commits(disk, todo, lastId)' /\ Recorded(disk, todo)'
  BY <1>1, <1>2
<1>4. Settles'
  BY <1>1, ReadySound DEF Settles
<1>5. Bounds' /\ Counts'
  BY <1>1 DEF Bounds, Counts, Inv2
<1> QED BY <1>3, <1>4, <1>5 DEF Inv2

\* One that writes statuses only to erase them.
LEMMA OpenKeeps2 ==
  ASSUME HouseholdAssumption, Inv, Inv2, NEW t, Request(t), KeepIds,
         Opens(disk, t, lastId),
         Sound(disk) => \E e \in Records : Ends(disk, t, e) /\ Sound(e)
  PROVE  Inv2'
<1>1. lastId' = lastId /\ lastId \in Nat
  BY DEF KeepIds, Inv, Typed
<1> QED BY <1>1, OpensCommits, RequestKeeps2


-----------------------------------------------------------------------------
(* Statuses are removed with all that belongs to them. *)

\* The status that a key is about.
About(f, k) == IF f = "hist" THEN k[1] ELSE IF f = "mark" THEN k[2] ELSE k

\* A store without some statuses.
Without(e, ids) ==
  [acct |-> e.acct,
   stat |-> [i \in Id |-> IF i \in ids THEN None ELSE e.stat[i]],
   poll |-> [i \in Id |-> IF i \in ids THEN None ELSE e.poll[i]],
   dm   |-> [i \in Id |-> IF i \in ids THEN 0 ELSE e.dm[i]],
   hist |-> [h \in Id \X (1..Revisions) |-> IF h[1] \in ids THEN 0 ELSE e.hist[h]],
   mark |-> [k \in Mark |-> IF k[2] \in ids THEN 0 ELSE e.mark[k]]]

\* It is a store, and has what it had of the other statuses.
LEMMA WithoutIs ==
  ASSUME HouseholdAssumption, NEW e \in Records, NEW ids \in SUBSET Id
  PROVE  /\ Without(e, ids) \in Records
         /\ Without(e, ids).acct = e.acct
         /\ \A f \in Field \ {"acct"} : \A k \in DOMAIN NoRecords[f] :
              Without(e, ids)[f][k] = IF About(f, k) \in ids THEN NoRecords[f][k] ELSE e[f][k]
<1> DEFINE g == Without(e, ids)
<1>1. g.acct = e.acct
  BY DEF Without
<1>2. \A i \in Id : /\ g.stat[i] = IF i \in ids THEN None ELSE e.stat[i]
                    /\ g.poll[i] = IF i \in ids THEN None ELSE e.poll[i]
                    /\ g.dm[i] = IF i \in ids THEN 0 ELSE e.dm[i]
  BY DEF Without
<1>3. \A h \in Id \X (1..Revisions) : g.hist[h] = IF h[1] \in ids THEN 0 ELSE e.hist[h]
  BY DEF Without
<1>4. \A k \in Mark : g.mark[k] = IF k[2] \in ids THEN 0 ELSE e.mark[k]
  BY DEF Without
<1>5. g \in Records
  <2>1. 0 \in 0..MaxVersion /\ 0 \in 0..MaxAccount
    BY DEF HouseholdAssumption
  <2>2. g.acct \in [Slot -> AccountRec \cup {None}]
    BY <1>1 DEF Records
  <2>3. g.stat \in [Id -> StatusRec \cup {None}]
    BY DEF Without, Records
  <2>4. g.poll \in [Id -> PollRec \cup {None}]
    BY DEF Without, Records
  <2>5. g.dm \in [Id -> 0..MaxVersion]
    BY <2>1 DEF Without, Records
  <2>6. g.hist \in [Id \X (1..Revisions) -> 0..MaxVersion]
    BY <2>1 DEF Without, Records
  <2>7. g.mark \in [Mark -> 0..MaxAccount]
    BY <2>1 DEF Without, Records
  <2>8. g = [acct |-> g.acct, stat |-> g.stat, poll |-> g.poll, dm |-> g.dm,
             hist |-> g.hist, mark |-> g.mark]
    BY DEF Without
  <2> HIDE DEF g
  <2> QED BY <2>2, <2>3, <2>4, <2>5, <2>6, <2>7, <2>8 DEF Records
<1> HIDE DEF g
<1>6. ASSUME NEW f \in Field \ {"acct"}, NEW k \in DOMAIN NoRecords[f]
      PROVE  g[f][k] = IF About(f, k) \in ids THEN NoRecords[f][k] ELSE e[f][k]
  <2>1. CASE f = "stat"
    BY <1>2, <2>1 DEF NoRecords, About
  <2>2. CASE f = "poll"
    BY <1>2, <2>2 DEF NoRecords, About
  <2>3. CASE f = "dm"
    BY <1>2, <2>3 DEF NoRecords, About
  <2>4. CASE f = "hist"
    BY <1>3, <2>4 DEF NoRecords, About
  <2>5. CASE f = "mark"
    BY <1>4, <2>5 DEF NoRecords, About
  <2> QED BY <2>1, <2>2, <2>3, <2>4, <2>5 DEF Field
<1> QED BY <1>1, <1>5, <1>6 DEF g

\* What is left of a sound store is sound: whatever is about a status goes with it.
LEMMA WithoutSound ==
  ASSUME HouseholdAssumption, NEW e \in Records, Sound(e), NEW ids \in SUBSET Id
  PROVE  Sound(Without(e, ids))
<1> DEFINE g == Without(e, ids)
<1>1. /\ g.acct = e.acct
      /\ \A i \in Id : /\ g.stat[i] = IF i \in ids THEN None ELSE e.stat[i]
                       /\ g.poll[i] = IF i \in ids THEN None ELSE e.poll[i]
                       /\ g.dm[i] = IF i \in ids THEN 0 ELSE e.dm[i]
      /\ \A h \in Id \X (1..Revisions) : g.hist[h] = IF h[1] \in ids THEN 0 ELSE e.hist[h]
      /\ \A k \in Mark : g.mark[k] = IF k[2] \in ids THEN 0 ELSE e.mark[k]
  BY DEF Without
<1>2. /\ \A k \in Mark : k[2] \in Id
      /\ \A h \in Id \X (1..Revisions) : h[1] \in Id
  BY DEF Mark
<1> HIDE DEF g
<1>3. \A s : Live(g, s) <=> Live(e, s)
  BY <1>1 DEF Live
<1>4. \A s \in Slot : g.acct[s] # None => ~g.acct[s].deleted
  BY <1>1 DEF Sound
<1>5. \A i \in Id : /\ g.stat[i] # None => Live(g, g.stat[i].author)
                    /\ g.poll[i] # None => g.stat[i] # None
                    /\ g.dm[i] # 0 => g.stat[i] # None
  BY <1>1, <1>3 DEF Sound
<1>6. \A h \in Id \X (1..Revisions) : g.hist[h] # 0 =>
        g.stat[h[1]] # None /\ g.hist[h] < g.stat[h[1]].ver
  BY <1>1, <1>2 DEF Sound
<1>7. \A k \in Mark : g.mark[k] # 0 => g.stat[k[2]] # None /\ Live(g, k[3])
  BY <1>1, <1>2, <1>3 DEF Sound
<1> QED BY <1>4, <1>5, <1>6, <1>7 DEF Sound, g

\* The erases of what memory holds, again: they erase just that, each once.
LEMMA ErasuresErase ==
  ASSUME HouseholdAssumption, NEW f \in Field, NEW ks \in SUBSET DOMAIN NoRecords[f]
  PROVE  \A w \in Erasures(f, ks) :
           /\ w \in Write /\ w.f = f /\ w.k \in ks /\ w.v = NoRecords[f][w.k]
           /\ ram.rec[f][w.k] # NoRecords[f][w.k]
<1> TAKE w \in Erasures(f, ks)
<1>1. PICK k \in ks : ram.rec[f][k] # NoRecords[f][k] /\ w = Erase(f, k)
  BY DEF Erasures
<1> QED BY <1>1, EraseIs

\* A write is what it is of, under which key and with which value.
LEMMA OneErase ==
  ASSUME NEW w \in Write, NEW x \in Write, w.f = x.f, w.k = x.k, w.v = x.v
  PROVE  w = x
BY DEF Write

\* Removing a status erases all that memory holds about it, and only that.
LEMMA RemoveStatusIs ==
  ASSUME HouseholdAssumption, ram.rec \in Records, NEW i \in Id
  PROVE  /\ \A w \in RemoveStatus(i) :
              /\ w \in Write /\ w.f \in Field \ {"acct"} /\ w.k \in DOMAIN NoRecords[w.f]
              /\ w.v = NoRecords[w.f][w.k] /\ About(w.f, w.k) = i
              /\ ram.rec[w.f][w.k] # NoRecords[w.f][w.k]
         /\ \A f \in Field \ {"acct"} : \A k \in DOMAIN NoRecords[f] :
              About(f, k) = i /\ ram.rec[f][k] # NoRecords[f][k] =>
                Writes(RemoveStatus(i), f, k)
<1> DEFINE ks(f) == {k \in DOMAIN NoRecords[f] : About(f, k) = i}
<1>1. RemoveStatus(i) = Erasures("stat", ks("stat")) \cup Erasures("dm", ks("dm"))
        \cup Erasures("poll", ks("poll")) \cup Erasures("hist", ks("hist"))
        \cup Erasures("mark", ks("mark"))
  <2>1. ks("stat") = {i} /\ ks("dm") = {i} /\ ks("poll") = {i}
    BY DEF NoRecords, About
  <2>2. ks("hist") = {h \in DOMAIN ram.rec.hist : h[1] = i}
    BY DEF NoRecords, About, Records
  <2>3. ks("mark") = {k \in Mark : k[2] = i}
    BY DEF NoRecords, About
  <2> HIDE DEF ks
  <2> QED BY <2>1, <2>2, <2>3 DEF RemoveStatus
<1>2. {"stat", "dm", "poll", "hist", "mark"} = Field \ {"acct"}
  BY DEF Field
<1>3. ASSUME NEW f \in Field \ {"acct"}
      PROVE  /\ Erasures(f, ks(f)) \subseteq RemoveStatus(i)
             /\ \A k \in ks(f) : ram.rec[f][k] # NoRecords[f][k] =>
                  Writes(Erasures(f, ks(f)), f, k)
             /\ \A w \in Erasures(f, ks(f)) :
                  /\ w \in Write /\ w.f = f /\ w.k \in ks(f) /\ w.v = NoRecords[f][w.k]
                  /\ ram.rec[f][w.k] # NoRecords[f][w.k]
  <2>1. ks(f) \in SUBSET DOMAIN NoRecords[f]
    OBVIOUS
  <2> HIDE DEF ks
  <2>2. Erasures(f, ks(f)) \subseteq RemoveStatus(i)
    BY <1>1, <1>2, <1>3
  <2>3. \A k \in ks(f) : ram.rec[f][k] # NoRecords[f][k] => Writes(Erasures(f, ks(f)), f, k)
    BY <2>1, ErasuresAre
  <2>4. \A w \in Erasures(f, ks(f)) :
          /\ w \in Write /\ w.f = f /\ w.k \in ks(f) /\ w.v = NoRecords[f][w.k]
          /\ ram.rec[f][w.k] # NoRecords[f][w.k]
    BY <2>1, ErasuresErase
  <2> QED BY <2>2, <2>3, <2>4
<1>4. \A f : \A k : k \in ks(f) <=> k \in DOMAIN NoRecords[f] /\ About(f, k) = i
  OBVIOUS
<1> HIDE DEF ks
<1>5. ASSUME NEW w \in RemoveStatus(i)
      PROVE  /\ w \in Write /\ w.f \in Field \ {"acct"} /\ w.k \in DOMAIN NoRecords[w.f]
             /\ w.v = NoRecords[w.f][w.k] /\ About(w.f, w.k) = i
             /\ ram.rec[w.f][w.k] # NoRecords[w.f][w.k]
  <2>1. PICK f \in Field \ {"acct"} : w \in Erasures(f, ks(f))
    BY <1>1, <1>2
  <2> QED BY <1>3, <1>4, <2>1
<1>6. ASSUME NEW f \in Field \ {"acct"}, NEW k \in DOMAIN NoRecords[f],
             About(f, k) = i, ram.rec[f][k] # NoRecords[f][k]
      PROVE  Writes(RemoveStatus(i), f, k)
  BY <1>3, <1>4, <1>6 DEF Writes
<1> QED BY <1>5, <1>6

\* So does removing several, each record once.
LEMMA RemoveAllIs ==
  ASSUME HouseholdAssumption, ram.rec \in Records, NEW ids \in SUBSET Id
  PROVE  /\ RemoveAll(ids) \in Seq(Write) /\ IsInjective(RemoveAll(ids))
         /\ \A w \in Range(RemoveAll(ids)) :
              /\ w \in Write /\ w.f \in Field \ {"acct"} /\ w.k \in DOMAIN NoRecords[w.f]
              /\ w.v = NoRecords[w.f][w.k] /\ About(w.f, w.k) \in ids
              /\ ram.rec[w.f][w.k] # NoRecords[w.f][w.k]
         /\ \A f \in Field \ {"acct"} : \A k \in DOMAIN NoRecords[f] :
              About(f, k) \in ids /\ ram.rec[f][k] # NoRecords[f][k] =>
                Writes(Range(RemoveAll(ids)), f, k)
<1> DEFINE F == [i \in ids |-> RemoveStatus(i)]
           U == UNION {RemoveStatus(i) : i \in ids}
<1>1. \A i \in ids : i \in Id
  OBVIOUS
<1>2. IsFiniteSet(ids)
  BY KeysFinite, FS_Subset
<1>3. {RemoveStatus(i) : i \in ids} = Range(F)
  BY DEF Range
<1>4. IsFiniteSet(Range(F))
  <2>1. F = [x \in DOMAIN F |-> F[x]] /\ DOMAIN F = ids
    OBVIOUS
  <2> HIDE DEF F
  <2> QED BY <1>2, <2>1, ImageFinite
<1>5. \A W \in Range(F) : IsFiniteSet(W)
  BY <1>1, <1>3, RemovedIs
<1>6. IsFiniteSet(U)
  <2>1. IsFiniteSet(UNION Range(F))
    <3> HIDE DEF F
    <3> QED BY <1>4, <1>5, FS_UNION
  <2> QED BY <1>3, <2>1
<1>7. ASSUME NEW w \in U
      PROVE  /\ w \in Write /\ w.f \in Field \ {"acct"} /\ w.k \in DOMAIN NoRecords[w.f]
             /\ w.v = NoRecords[w.f][w.k] /\ About(w.f, w.k) \in ids
             /\ ram.rec[w.f][w.k] # NoRecords[w.f][w.k]
  <2>1. PICK i \in ids : w \in RemoveStatus(i)
    BY <1>7
  <2> QED BY <1>1, <2>1, RemoveStatusIs
<1>8. \A i \in ids : RemoveStatus(i) \subseteq U
  OBVIOUS
<1>9. RemoveAll(ids) = InTurn(U)
  BY DEF RemoveAll
<1> HIDE DEF U
<1>10. InTurn(U) \in Seq(U) /\ Range(InTurn(U)) = U /\ IsInjective(InTurn(U))
  BY <1>6, <1>7, InTurnIs
<1>11. InTurn(U) \in Seq(Write)
  BY <1>7, <1>10
<1>12. ASSUME NEW f \in Field \ {"acct"}, NEW k \in DOMAIN NoRecords[f],
              About(f, k) \in ids, ram.rec[f][k] # NoRecords[f][k]
       PROVE  Writes(U, f, k)
  <2>1. Writes(RemoveStatus(About(f, k)), f, k)
    BY <1>1, <1>12, RemoveStatusIs
  <2> QED BY <1>8, <1>12, <2>1 DEF Writes
<1> QED BY <1>7, <1>9, <1>10, <1>11, <1>12

\* It may begin a request.
LEMMA RemoveOpens ==
  ASSUME HouseholdAssumption, ram.rec \in Records, NEW ids \in SUBSET Id, NEW last,
         ram.rec = disk
  PROVE  Opens(disk, RemoveAll(ids), last)
<1> DEFINE t == RemoveAll(ids)
<1>1. /\ t \in Seq(Write) /\ IsInjective(t)
      /\ \A w \in Range(t) :
           /\ w \in Write /\ w.f \in Field \ {"acct"} /\ w.k \in DOMAIN NoRecords[w.f]
           /\ w.v = NoRecords[w.f][w.k]
           /\ ram.rec[w.f][w.k] # NoRecords[w.f][w.k]
  BY RemoveAllIs
<1> HIDE DEF t
<1>2. \A w \in Range(t) : w.f = "stat" => w.v = None /\ disk.stat[w.k] # None
  BY <1>1 DEF NoRecords
<1>3. \A w \in Range(t) : w.f = "hist" => w.v = 0
  BY <1>1 DEF NoRecords
<1>4. ASSUME NEW m \in DOMAIN t, NEW n \in DOMAIN t,
             t[m].f = "stat", t[n].f = "stat", t[m].k = t[n].k
      PROVE  m = n
  <2>1. t[m] \in Range(t) /\ t[n] \in Range(t)
    BY DEF Range
  <2>2. t[m] = t[n]
    BY <1>1, <1>2, <1>4, <2>1, OneErase
  <2> QED BY <1>1, <2>2 DEF IsInjective
<1>5. Opens(disk, t, last)
  BY <1>1, <1>2, <1>3, <1>4 DEF Opens
<1> QED BY <1>5 DEF t

\* To a store that has of the statuses what memory has, or less, they are removed.
LEMMA RemoveEnds ==
  ASSUME HouseholdAssumption, ram.rec \in Records, NEW ids \in SUBSET Id,
         NEW e \in Records,
         \A f \in Field \ {"acct"} : \A k \in DOMAIN NoRecords[f] :
           e[f][k] = ram.rec[f][k] \/ e[f][k] = NoRecords[f][k],
         NEW d, NEW p \in Seq(Write), Ends(d, p, e)
  PROVE  /\ p \o RemoveAll(ids) \in Seq(Write) /\ Without(e, ids) \in Records
         /\ Ends(d, p \o RemoveAll(ids), Without(e, ids))
<1> DEFINE t == RemoveAll(ids)
           g == Without(e, ids)
<1>1. /\ t \in Seq(Write)
      /\ \A w \in Range(t) :
           /\ w.f \in Field \ {"acct"} /\ w.k \in DOMAIN NoRecords[w.f]
           /\ w.v = NoRecords[w.f][w.k] /\ About(w.f, w.k) \in ids
      /\ \A f \in Field \ {"acct"} : \A k \in DOMAIN NoRecords[f] :
              About(f, k) \in ids /\ ram.rec[f][k] # NoRecords[f][k] => Writes(Range(t), f, k)
  BY RemoveAllIs
<1>2. /\ g \in Records /\ g.acct = e.acct
      /\ \A f \in Field \ {"acct"} : \A k \in DOMAIN NoRecords[f] :
           g[f][k] = IF About(f, k) \in ids THEN NoRecords[f][k] ELSE e[f][k]
  BY WithoutIs
<1> HIDE DEF t, g
<1>3. \A w \in Range(t) : Agrees(w, g)
  BY <1>1, <1>2 DEF Agrees
<1>4. Covers(Range(t), e, g)
  <2> SUFFICES ASSUME NEW f \in Field, NEW k \in DOMAIN NoRecords[f]
               PROVE  e[f][k] = g[f][k] \/ Writes(Range(t), f, k)
    BY DEF Covers
  <2>1. CASE f = "acct"
    BY <1>2, <2>1
  <2>2. CASE f # "acct"
    BY <1>1, <1>2, <2>2
  <2> QED BY <2>1, <2>2
<1>5. Ends(d, p \o t, g) /\ p \o t \in Seq(Write)
  BY <1>1, <1>3, <1>4, EndsConcat, RangeConcat
<1> QED BY <1>2, <1>5 DEF t, g


-----------------------------------------------------------------------------
(* Requests that write no status but to remove it. *)

\* One write leads to the store with that write.
LEMMA EndsOne ==
  ASSUME NEW d \in Records, NEW w \in Write
  PROVE  Ends(d, <<w>>, Stored(d, w)) /\ Stored(d, w) \in Records /\ <<w>> \in Seq(Write)
<1>1. <<>> \o <<w>> = <<w>>
  OBVIOUS
<1>2. <<>> \in Seq(Write) /\ Ends(d, <<>>, d)
  BY EndsNone
<1> QED BY <1>1, <1>2, EndsMore

\* From the store itself, the statuses are removed.
LEMMA RemoveFromDisk ==
  ASSUME HouseholdAssumption, disk \in Records, ram.rec = disk, NEW ids \in SUBSET Id
  PROVE  /\ RemoveAll(ids) \in Seq(Write) /\ Without(disk, ids) \in Records
         /\ Ends(disk, RemoveAll(ids), Without(disk, ids))
<1> DEFINE t == RemoveAll(ids)
<1>1. t \in Seq(Write)
  BY RemoveAllIs
<1>2. <<>> \in Seq(Write) /\ Ends(disk, <<>>, disk)
  BY EndsNone
<1>3. Without(disk, ids) \in Records /\ Ends(disk, <<>> \o t, Without(disk, ids))
  BY <1>2, RemoveEnds
<1> HIDE DEF t
<1>4. <<>> \o t = t
  BY <1>1, ConcatEmptySeq
<1> QED BY <1>1, <1>3, <1>4 DEF t

\* One write to a sound store, of a mark on a status that is there, by a member
\* who is there; of a status's poll; of a member.
LEMMA MarkSound ==
  ASSUME NEW e \in Records, Sound(e), NEW w \in Write, w.f = "mark",
         w.v # 0 => e.stat[w.k[2]] # None /\ Live(e, w.k[3])
  PROVE  Sound(Stored(e, w))
<1> DEFINE g == Stored(e, w)
<1>1. /\ g.acct = e.acct /\ g.stat = e.stat /\ g.poll = e.poll /\ g.dm = e.dm /\ g.hist = e.hist
      /\ \A k \in Mark : g.mark[k] = IF w.k = k THEN w.v ELSE e.mark[k]
  BY StoredIs DEF Stored, Records
<1> HIDE DEF g
<1>2. \A s : Live(g, s) <=> Live(e, s)
  BY <1>1 DEF Live
<1>3. \A k \in Mark : g.mark[k] # 0 => g.stat[k[2]] # None /\ Live(g, k[3])
  BY <1>1, <1>2 DEF Sound
<1> QED BY <1>1, <1>2, <1>3 DEF Sound, g

\* A poll of a status that is there.
LEMMA PollSound ==
  ASSUME NEW e \in Records, Sound(e), NEW w \in Write, w.f = "poll",
         w.v # None => e.stat[w.k] # None
  PROVE  Sound(Stored(e, w))
<1> DEFINE g == Stored(e, w)
<1>1. /\ g.acct = e.acct /\ g.stat = e.stat /\ g.dm = e.dm /\ g.hist = e.hist
      /\ g.mark = e.mark
      /\ \A i \in Id : g.poll[i] = IF w.k = i THEN w.v ELSE e.poll[i]
  BY StoredIs DEF Stored, Records
<1> HIDE DEF g
<1>2. \A s : Live(g, s) <=> Live(e, s)
  BY <1>1 DEF Live
<1> QED BY <1>1, <1>2 DEF Sound, g

\* A member who is not deleted.
LEMMA MemberSound ==
  ASSUME NEW e \in Records, Sound(e), NEW w \in Write, w.f = "acct",
         w.v # None, ~w.v.deleted
  PROVE  Sound(Stored(e, w))
<1> DEFINE g == Stored(e, w)
<1>1. /\ g.stat = e.stat /\ g.poll = e.poll /\ g.dm = e.dm /\ g.hist = e.hist
      /\ g.mark = e.mark
      /\ \A s \in Slot : g.acct[s] = IF w.k = s THEN w.v ELSE e.acct[s]
  BY StoredIs DEF Stored, Records
<1>2. \A i \in Id : e.stat[i] # None => e.stat[i].author \in Slot
  BY DEF Records, StatusRec
<1>3. \A k \in Mark : k[3] \in Slot
  BY DEF Mark
<1> HIDE DEF g
<1>4. \A s \in Slot : Live(e, s) => Live(g, s)
  BY <1>1 DEF Live
<1>5. \A s \in Slot : g.acct[s] # None => ~g.acct[s].deleted
  BY <1>1 DEF Sound
<1>6. \A i \in Id : /\ g.stat[i] # None => Live(g, g.stat[i].author)
                    /\ g.poll[i] # None => g.stat[i] # None
                    /\ g.dm[i] # 0 => g.stat[i] # None
  BY <1>1, <1>2, <1>4 DEF Sound
<1>7. \A k \in Mark : g.mark[k] # 0 => g.stat[k[2]] # None /\ Live(g, k[3])
  BY <1>1, <1>3, <1>4 DEF Sound
<1>8. \A h \in Id \X (1..Revisions) : g.hist[h] # 0 =>
        g.stat[h[1]] # None /\ g.hist[h] < g.stat[h[1]].ver
  BY <1>1 DEF Sound
<1> QED BY <1>5, <1>6, <1>7, <1>8 DEF Sound, g

\* A deletion leaves a sound store without the status.
LEMMA DeleteStatusKeeps2 ==
  ASSUME HouseholdAssumption, Inv, Inv2, NEW i \in Id, DeleteStatus(i)
  PROVE  Inv2'
<1>1. Request(RemoveAll({i})) /\ KeepIds
  BY DEF DeleteStatus
<1>2. ram.rec = disk /\ disk \in Records /\ ram.rec \in Records
  BY <1>1, ReadyKnows DEF Request
<1>3. Opens(disk, RemoveAll({i}), lastId)
  BY <1>2, RemoveOpens
<1>4. /\ Without(disk, {i}) \in Records
      /\ Ends(disk, RemoveAll({i}), Without(disk, {i}))
      /\ Sound(disk) => Sound(Without(disk, {i}))
  <2>1. {i} \in SUBSET Id
    OBVIOUS
  <2>2. /\ Without(disk, {i}) \in Records
        /\ Ends(disk, RemoveAll({i}), Without(disk, {i}))
    BY <1>2, <2>1, RemoveFromDisk
  <2>3. Sound(disk) => Sound(Without(disk, {i}))
    BY <1>2, <2>1, WithoutSound
  <2> QED BY <2>2, <2>3
<1> QED BY <1>1, <1>3, <1>4, OpenKeeps2

\* A store without some records of a field.
Erased(e, f, ks) ==
  [e EXCEPT ![f] = [k \in DOMAIN NoRecords[f] |-> IF k \in ks THEN NoRecords[f][k] ELSE e[f][k]]]

\* It is a store, and has what it had under the other keys.
LEMMA ErasedIs ==
  ASSUME HouseholdAssumption, NEW e \in Records, NEW f \in {"poll", "hist", "mark"}, NEW ks
  PROVE  /\ Erased(e, f, ks) \in Records
         /\ Erased(e, f, ks).acct = e.acct /\ Erased(e, f, ks).stat = e.stat
         /\ Erased(e, f, ks).dm = e.dm
         /\ \A i \in Id : Erased(e, f, ks).poll[i] =
              IF f = "poll" /\ i \in ks THEN None ELSE e.poll[i]
         /\ \A h \in Id \X (1..Revisions) : Erased(e, f, ks).hist[h] =
              IF f = "hist" /\ h \in ks THEN 0 ELSE e.hist[h]
         /\ \A k \in Mark : Erased(e, f, ks).mark[k] =
              IF f = "mark" /\ k \in ks THEN 0 ELSE e.mark[k]
<1> DEFINE m == [k \in DOMAIN NoRecords[f] |-> IF k \in ks THEN NoRecords[f][k] ELSE e[f][k]]
<1>1. Erased(e, f, ks) = [e EXCEPT ![f] = m]
  BY DEF Erased
<1>2. \A k \in DOMAIN NoRecords[f] : m[k] = IF k \in ks THEN NoRecords[f][k] ELSE e[f][k]
  OBVIOUS
<1>3. DOMAIN m = DOMAIN NoRecords[f] /\ m = [k \in DOMAIN NoRecords[f] |-> m[k]]
  OBVIOUS
<1>4. 0 \in 0..MaxVersion /\ 0 \in 0..MaxAccount
  BY DEF HouseholdAssumption
<1> HIDE DEF m
<1>5. CASE f = "mark"
  <2>1. DOMAIN m = Mark /\ \A k \in Mark : m[k] = IF k \in ks THEN 0 ELSE e.mark[k]
    BY <1>2, <1>3, <1>5 DEF NoRecords
  <2>2. \A k \in Mark : m[k] \in 0..MaxAccount
    BY <1>4, <2>1 DEF Records
  <2>3. m = [k \in Mark |-> m[k]]
    BY <1>3, <2>1
  <2>4. m \in [Mark -> 0..MaxAccount]
    BY <2>2, <2>3
  <2> QED BY <1>1, <1>5, <2>1, <2>4 DEF Records
<1>6. CASE f = "hist"
  <2>1. DOMAIN m = Id \X (1..Revisions)
        /\ \A k \in Id \X (1..Revisions) : m[k] = IF k \in ks THEN 0 ELSE e.hist[k]
    BY <1>2, <1>3, <1>6 DEF NoRecords
  <2>2. \A k \in Id \X (1..Revisions) : m[k] \in 0..MaxVersion
    BY <1>4, <2>1 DEF Records
  <2>3. m = [k \in Id \X (1..Revisions) |-> m[k]]
    BY <1>3, <2>1
  <2>4. m \in [Id \X (1..Revisions) -> 0..MaxVersion]
    BY <2>2, <2>3
  <2> QED BY <1>1, <1>6, <2>1, <2>4 DEF Records
<1>7. CASE f = "poll"
  <2>1. DOMAIN m = Id /\ \A k \in Id : m[k] = IF k \in ks THEN None ELSE e.poll[k]
    BY <1>2, <1>3, <1>7 DEF NoRecords
  <2>2. \A k \in Id : m[k] \in PollRec \cup {None}
    BY <2>1 DEF Records
  <2>3. m = [k \in Id |-> m[k]]
    BY <1>3, <2>1
  <2>4. m \in [Id -> PollRec \cup {None}]
    BY <2>2, <2>3
  <2> QED BY <1>1, <1>7, <2>1, <2>4 DEF Records
<1> QED BY <1>5, <1>6, <1>7

\* Marks are taken off.
LEMMA UnmarkedSound ==
  ASSUME HouseholdAssumption, NEW e \in Records, Sound(e), NEW ks
  PROVE  Sound(Erased(e, "mark", ks))
<1> DEFINE g == Erased(e, "mark", ks)
<1>1. /\ g.acct = e.acct /\ g.stat = e.stat /\ g.dm = e.dm
      /\ \A i \in Id : g.poll[i] = e.poll[i]
      /\ \A h \in Id \X (1..Revisions) : g.hist[h] = e.hist[h]
      /\ \A k \in Mark : g.mark[k] = IF k \in ks THEN 0 ELSE e.mark[k]
  BY ErasedIs
<1> HIDE DEF g
<1>2. \A s : Live(g, s) <=> Live(e, s)
  BY <1>1 DEF Live
<1> QED BY <1>1, <1>2 DEF Sound, g

\* From a store that has under some keys what memory has, or less, they are erased.
LEMMA EraseEnds ==
  ASSUME HouseholdAssumption, NEW f \in {"poll", "hist", "mark"},
         NEW ks \in SUBSET DOMAIN NoRecords[f], NEW e \in Records,
         \A k \in ks : e[f][k] = ram.rec[f][k] \/ e[f][k] = NoRecords[f][k],
         NEW d, NEW p \in Seq(Write), Ends(d, p, e)
  PROVE  /\ p \o EraseIf(f, ks) \in Seq(Write) /\ Erased(e, f, ks) \in Records
         /\ Ends(d, p \o EraseIf(f, ks), Erased(e, f, ks))
<1> DEFINE t == EraseIf(f, ks)
           g == Erased(e, f, ks)
<1>1. f \in Field
  BY DEF Field
<1>2. t \in Seq(Write) /\ Range(t) = Erasures(f, ks)
  BY <1>1, EraseIfIs
<1>3. /\ \A w \in Range(t) : w.f = f /\ w.k \in ks /\ w.v = NoRecords[f][w.k]
      /\ \A k \in ks : ram.rec[f][k] # NoRecords[f][k] => Writes(Range(t), f, k)
  BY <1>1, <1>2, ErasuresAre
<1>4. g \in Records
  BY ErasedIs
<1>5. \A x \in Field : \A k \in DOMAIN NoRecords[x] :
        g[x][k] = IF x = f /\ k \in ks THEN NoRecords[f][k] ELSE e[x][k]
  <2>1. /\ g.acct = e.acct /\ g.stat = e.stat /\ g.dm = e.dm
        /\ \A i \in Id : g.poll[i] = IF f = "poll" /\ i \in ks THEN None ELSE e.poll[i]
        /\ \A h \in Id \X (1..Revisions) : g.hist[h] =
             IF f = "hist" /\ h \in ks THEN 0 ELSE e.hist[h]
        /\ \A k \in Mark : g.mark[k] = IF f = "mark" /\ k \in ks THEN 0 ELSE e.mark[k]
    BY ErasedIs
  <2> HIDE DEF g
  <2> QED BY <2>1 DEF Field, NoRecords
<1> HIDE DEF t, g
<1>6. \A w \in Range(t) : Agrees(w, g)
  BY <1>1, <1>3, <1>5 DEF Agrees
<1>7. Covers(Range(t), e, g)
  BY <1>3, <1>5 DEF Covers
<1>8. Ends(d, p \o t, g) /\ p \o t \in Seq(Write)
  BY <1>2, <1>6, <1>7, EndsConcat, RangeConcat
<1> QED BY <1>4, <1>8 DEF t, g

\* Erasing marks, polls or history may begin a request.
LEMMA EraseOpens ==
  ASSUME HouseholdAssumption, NEW f \in {"poll", "hist", "mark"},
         NEW ks \in SUBSET DOMAIN NoRecords[f], NEW d, NEW last
  PROVE  /\ EraseIf(f, ks) \in Seq(Write) /\ Opens(d, EraseIf(f, ks), last)
         /\ \A w \in Range(EraseIf(f, ks)) :
              w.f = f /\ w.k \in ks /\ w.v = NoRecords[f][w.k]
<1> DEFINE t == EraseIf(f, ks)
<1>1. f \in Field
  BY DEF Field
<1>2. t \in Seq(Write) /\ Range(t) = Erasures(f, ks)
  BY <1>1, EraseIfIs
<1>3. \A w \in Range(t) : w.f = f /\ w.k \in ks /\ w.v = NoRecords[f][w.k]
  BY <1>1, <1>2, ErasuresAre
<1> HIDE DEF t
<1>4. \A w \in Range(t) : w.f # "stat" /\ (w.f = "hist" => w.v = 0)
  BY <1>3 DEF NoRecords
<1>5. Opens(d, t, last)
  BY <1>2, <1>4, OpensCalm
<1> QED BY <1>2, <1>3, <1>5 DEF t

\* A mark is taken back.
LEMMA UnsetMarkKeeps2 ==
  ASSUME HouseholdAssumption, Inv, Inv2, NEW k \in Mark, UnsetMark(k)
  PROVE  Inv2'
<1> DEFINE t == EraseIf("mark", {k})
           e == Erased(disk, "mark", {k})
<1>1. Request(t) /\ KeepIds
  BY DEF UnsetMark
<1>2. ram.rec = disk /\ disk \in Records /\ ram.rec \in Records
  BY <1>1, ReadyKnows DEF Request
<1>3. Opens(disk, t, lastId)
  <2>1. {k} \in SUBSET DOMAIN NoRecords["mark"]
    BY DEF NoRecords
  <2> QED BY <2>1, EraseOpens
<1>4. e \in Records /\ Ends(disk, <<>> \o t, e)
  <2>1. <<>> \in Seq(Write) /\ Ends(disk, <<>>, disk)
    BY <1>2, EndsNone
  <2>2. {k} \in SUBSET DOMAIN NoRecords["mark"]
    BY DEF NoRecords
  <2> QED BY <1>2, <2>1, <2>2, EraseEnds
<1>5. Sound(disk) => Sound(e)
  BY <1>2, UnmarkedSound
<1> HIDE DEF t, e
<1>6. <<>> \o t = t
  <2>1. t \in Seq(Write)
    BY <1>3 DEF Opens
  <2> QED BY <2>1, ConcatEmptySeq
<1> QED BY <1>1, <1>3, <1>4, <1>5, <1>6, OpenKeeps2

\* A vote changes a poll that is there.
LEMMA VoteKeeps2 ==
  ASSUME HouseholdAssumption, Inv, Inv2, NEW s \in Slot, NEW i \in Id, Vote(s, i)
  PROVE  Inv2'
<1> DEFINE rec == [ram.rec.poll[i] EXCEPT !.votes[s] = ram.rec.acct[s].id]
           w == Put("poll", i, rec)
<1>1. /\ Live(ram.rec, s) /\ ram.rec.poll[i] # None /\ i \in Visible(s)
      /\ Request(<<w>>) /\ KeepIds
  BY DEF Vote
<1>2. /\ ram.rec = disk /\ disk \in Records /\ ram.rec.acct[s] \in AccountRec
  BY <1>1, ReadyKnows DEF Request
<1>3. rec \in PollRec
  <2>1. ram.rec.poll[i] \in PollRec
    BY <1>1, <1>2 DEF Records
  <2> QED BY <1>2, <2>1 DEF PollRec, AccountRec, Account
<1> HIDE DEF rec
<1>4. w \in Write /\ w.f = "poll" /\ w.k = i
  BY <1>3 DEF Put, Write
<1>5. disk.stat[i] # None
  BY <1>1, <1>2 DEF Visible, Statuses
<1> HIDE DEF w
<1>6. Opens(disk, <<w>>, lastId)
  <2>1. <<w>> \in Seq(Write) /\ Range(<<w>>) = {w}
    BY <1>4 DEF Range
  <2> QED BY <1>4, <2>1, OpensCalm
<1>7. /\ Stored(disk, w) \in Records /\ Ends(disk, <<w>>, Stored(disk, w))
      /\ Sound(disk) => Sound(Stored(disk, w))
  BY <1>2, <1>4, <1>5, EndsOne, PollSound
<1> QED BY <1>1, <1>6, <1>7, OpenKeeps2

\* A new member refers to nothing.
LEMMA CreateMemberKeeps2 ==
  ASSUME HouseholdAssumption, Inv, Inv2, CreateMember
  PROVE  Inv2'
<1> DEFINE free == {s \in Slot : ram.rec.acct[s] = None}
           rec == [id |-> lastAccount + 1, deleted |-> FALSE]
           w == Put("acct", Min(free), rec)
<1>1. /\ free # {} /\ lastAccount < MaxAccount /\ Request(<<w>>)
      /\ lastId' = lastId
  BY DEF CreateMember
<1>2. disk \in Records /\ lastId \in Nat
  BY DEF Inv, Typed
<1>3. Min(free) \in Slot
  <2>1. free \in SUBSET Nat
    BY DEF Slot, HouseholdAssumption
  <2>2. free \subseteq Slot
    OBVIOUS
  <2> HIDE DEF free
  <2> QED BY <1>1, <2>1, <2>2, Least
<1>4. rec \in AccountRec /\ ~rec.deleted
  <2>1. lastAccount + 1 \in Account
    BY <1>1 DEF Inv, Typed, Account, HouseholdAssumption
  <2> QED BY <2>1 DEF AccountRec
<1>5. rec # None
  BY <1>4 DEF HouseholdAssumption
<1> HIDE DEF free, rec
<1>6. w \in Write /\ w.f = "acct" /\ w.v = rec
  BY <1>3, <1>4 DEF Put, Write
<1> HIDE DEF w
<1>7. Opens(disk, <<w>>, lastId)
  <2>1. <<w>> \in Seq(Write) /\ Range(<<w>>) = {w}
    BY <1>6 DEF Range
  <2> QED BY <1>6, <2>1, OpensCalm
<1>8. /\ Stored(disk, w) \in Records /\ Ends(disk, <<w>>, Stored(disk, w))
      /\ Sound(disk) => Sound(Stored(disk, w))
  BY <1>2, <1>4, <1>5, <1>6, EndsOne, MemberSound
<1> QED BY <1>1, <1>2, <1>7, <1>8, OpensCommits, RequestKeeps2


\* One more write, that is not of a status.
LEMMA OneMore ==
  ASSUME NEW d, NEW last, NEW t, Opens(d, t, last), NEW e \in Records, Ends(d, t, e),
         NEW w \in Write, w.f # "stat",
         w.f = "hist" /\ w.v # 0 =>
           w.k[1] <= last /\ (d.stat[w.k[1]] # None => ~d.stat[w.k[1]].direct)
  PROVE  /\ t \o <<w>> \in Seq(Write) /\ Range(t \o <<w>>) = Range(t) \cup {w}
         /\ Opens(d, t \o <<w>>, last)
         /\ Ends(d, t \o <<w>>, Stored(e, w)) /\ Stored(e, w) \in Records
<1> DEFINE q == <<w>>
<1>1. q \in Seq(Write) /\ Range(q) = {w} /\ \A n \in DOMAIN q : q[n] = w
  BY DEF Range
<1>2. t \in Seq(Write)
  BY DEF Opens
<1>3. Ends(d, t \o q, Stored(e, w)) /\ Stored(e, w) \in Records
  BY <1>2, EndsMore
<1> HIDE DEF q
<1>4. Opens(d, q, last)
  BY <1>1 DEF Opens
<1>5. Opens(d, t \o q, last)
  BY <1>1, <1>4, OpensConcat
<1>6. t \o q \in Seq(Write) /\ Range(t \o q) = Range(t) \cup Range(q)
  BY <1>1, <1>2, RangeConcat
<1> QED BY <1>1, <1>3, <1>5, <1>6 DEF q

\* Room is made after some writes p that leave all statuses where they are.
LEMMA RoomEnds ==
  ASSUME HouseholdAssumption, disk \in Records, ram.rec = disk, NEW last,
         NEW p, Opens(disk, p, last), \A w \in Range(p) : w.f # "stat",
         NEW e \in Records, Ends(disk, p, e), Sound(disk) => Sound(e),
         \A f \in Field \ {"acct"} : \A k \in DOMAIN NoRecords[f] :
           e[f][k] = disk[f][k] \/ e[f][k] = NoRecords[f][k],
         NEW v \in SUBSET Id
  PROVE  LET t == p \o RemoveAll(v) IN
         /\ t \in Seq(Write) /\ Opens(disk, t, last)
         /\ Ends(disk, t, Without(e, v)) /\ Without(e, v) \in Records
         /\ Sound(disk) => Sound(Without(e, v))
<1> DEFINE q == RemoveAll(v)
<1>1. p \in Seq(Write)
  BY DEF Opens
<1>2. Opens(disk, q, last)
  BY RemoveOpens
<1>3. Opens(disk, p \o q, last)
  <2> HIDE DEF q
  <2> QED BY <1>2, OpensConcat
<1>4. /\ p \o q \in Seq(Write) /\ Without(e, v) \in Records
      /\ Ends(disk, p \o q, Without(e, v))
  BY <1>1, RemoveEnds
<1>5. Sound(disk) => Sound(Without(e, v))
  BY WithoutSound
<1> QED BY <1>3, <1>4, <1>5

\* A boost over the limit takes another one off first.
LEMMA DisplacedEnds ==
  ASSUME HouseholdAssumption, disk \in Records, NEW last, NEW o \in Mark
  PROVE  LET b == <<Erase("mark", o)>>
             e == Stored(disk, Erase("mark", o))
         IN /\ Opens(disk, b, last) /\ \A w \in Range(b) : w.f # "stat"
            /\ e \in Records /\ Ends(disk, b, e) /\ (Sound(disk) => Sound(e))
            /\ e.stat = disk.stat /\ e.acct = disk.acct
            /\ \A f \in Field \ {"acct"} : \A k \in DOMAIN NoRecords[f] :
                 e[f][k] = disk[f][k] \/ e[f][k] = NoRecords[f][k]
<1> DEFINE w == Erase("mark", o)
           e == Stored(disk, w)
<1>1. w \in Write /\ w.f = "mark" /\ w.k = o /\ w.v = NoRecords["mark"][o] /\ w.v = 0
  <2>1. "mark" \in Field /\ o \in DOMAIN NoRecords["mark"] /\ NoRecords["mark"][o] = 0
    BY DEF Field, NoRecords
  <2> QED BY <2>1, EraseIs
<1> HIDE DEF w
<1>2. <<w>> \in Seq(Write) /\ Range(<<w>>) = {w}
  BY <1>1 DEF Range
<1>3. Opens(disk, <<w>>, last)
  BY <1>1, <1>2, OpensCalm
<1>4. e \in Records /\ Ends(disk, <<w>>, e)
  BY <1>1, EndsOne
<1>5. Sound(disk) => Sound(e)
  BY <1>1, MarkSound
<1>6. e.stat = disk.stat /\ e.acct = disk.acct
  BY <1>1 DEF Stored, Records
<1>7. \A f \in Field \ {"acct"} : \A k \in DOMAIN NoRecords[f] :
        e[f][k] = disk[f][k] \/ e[f][k] = NoRecords[f][k]
  <2>1. \A f \in Field : \A k \in DOMAIN NoRecords[f] :
          e[f][k] = IF w.f = f /\ w.k = k THEN w.v ELSE disk[f][k]
    BY <1>1, StoredIs
  <2> HIDE DEF e
  <2> QED BY <1>1, <2>1
<1> HIDE DEF e
<1>8. \A x \in Range(<<w>>) : x.f # "stat"
  BY <1>1, <1>2
<1> QED BY <1>3, <1>4, <1>5, <1>6, <1>7, <1>8 DEF e, w

\* A mark is left on a status that has not made way for it.
LEMMA SetMarkKeeps2 ==
  ASSUME HouseholdAssumption, Inv, Inv2, NEW k \in Mark, SetMark(k)
  PROVE  Inv2'
<1> DEFINE x == Put("mark", k, ram.rec.acct[k[3]].id)
<1>1. /\ Ready /\ Live(ram.rec, k[3]) /\ k[2] \in Visible(k[3]) /\ KeepIds
  BY DEF SetMark, NoRoom, Request
<1>2. /\ ram.rec = disk /\ disk \in Records
      /\ k[2] \in Id /\ k[3] \in Slot /\ ram.rec.acct[k[3]] \in AccountRec
      /\ disk.stat[k[2]] # None
  <2>1. k[2] \in Id /\ k[3] \in Slot
    BY DEF Mark
  <2> QED BY <1>1, <2>1, ReadyKnows DEF Visible, Statuses
<1>3. x \in Write /\ x.f = "mark" /\ x.k = k
  BY <1>2 DEF Put, Write, AccountRec, Account
<1>4. PICK b \in {<<>>} \cup {<<Erase("mark", o)>> : o \in Mark} :
        \/ NoRoom(b)
        \/ \E v \in MakeRoom(0) :
             Request(b \o RemoveAll(v) \o (IF k[2] \in v THEN <<>> ELSE <<x>>))
  BY DEF SetMark, Marked
<1>5. PICK v \in SUBSET Id :
        \/ Request(b \o RemoveAll(v))
        \/ Request(b \o RemoveAll(v) \o (IF k[2] \in v THEN <<>> ELSE <<x>>))
  BY <1>4, EvictableIs DEF NoRoom
<1>6. PICK e \in Records :
        /\ Opens(disk, b, lastId) /\ \A w \in Range(b) : w.f # "stat"
        /\ Ends(disk, b, e) /\ (Sound(disk) => Sound(e))
        /\ e.stat = disk.stat /\ e.acct = disk.acct
        /\ \A f \in Field \ {"acct"} : \A j \in DOMAIN NoRecords[f] :
             e[f][j] = disk[f][j] \/ e[f][j] = NoRecords[f][j]
  <2>1. CASE b = <<>>
    <3>1. Opens(disk, <<>>, lastId) /\ Range(<<>>) = {}
      BY OpensNone DEF Range
    <3>2. Ends(disk, <<>>, disk)
      BY <1>2, EndsNone
    <3> QED BY <1>2, <2>1, <3>1, <3>2
  <2>2. CASE b # <<>>
    <3>1. PICK o \in Mark : b = <<Erase("mark", o)>>
      BY <2>2
    <3> QED BY <1>2, <3>1, DisplacedEnds
  <2> QED BY <2>1, <2>2
<1> DEFINE t == b \o RemoveAll(v)
           g == Without(e, v)
<1>7. /\ t \in Seq(Write) /\ Opens(disk, t, lastId) /\ Ends(disk, t, g) /\ g \in Records
      /\ Sound(disk) => Sound(g)
  BY <1>2, <1>6, RoomEnds
<1>8. CASE Request(t)
  BY <1>1, <1>7, <1>8, OpenKeeps2
<1>9. CASE Request(t \o (IF k[2] \in v THEN <<>> ELSE <<x>>))
  <2>1. CASE k[2] \in v
    <3>1. t \o <<>> = t
      BY <1>7, ConcatEmptySeq
    <3> QED BY <1>8, <1>9, <2>1, <3>1
  <2>2. CASE k[2] \notin v
    <3>1. Request(t \o <<x>>)
      BY <1>9, <2>2
    <3>2. g.stat[k[2]] # None /\ Live(g, k[3])
      BY <1>1, <1>2, <1>6, <2>2 DEF Without, Live
    <3> HIDE DEF t, g, x
    <3>3. /\ Opens(disk, t \o <<x>>, lastId) /\ Ends(disk, t \o <<x>>, Stored(g, x))
          /\ Stored(g, x) \in Records
      BY <1>3, <1>7, OneMore
    <3>4. Sound(disk) => Sound(Stored(g, x))
      BY <1>3, <1>7, <3>2, MarkSound
    <3> QED BY <1>1, <3>1, <3>3, <3>4, OpenKeeps2
  <2> QED BY <2>1, <2>2
<1> QED BY <1>5, <1>8, <1>9


-----------------------------------------------------------------------------
(* Requests that commit a status. *)

\* A status committed to a sound store, with its poll, message and history.
LEMMA CommitSound ==
  ASSUME NEW e \in Records, Sound(e), NEW g \in Records, NEW i \in Id,
         g.acct = e.acct, g.stat[i] # None, Live(e, g.stat[i].author),
         \A j \in Id \ {i} : g.stat[j] = e.stat[j] /\ g.poll[j] = e.poll[j] /\ g.dm[j] = e.dm[j],
         \A k \in Mark : g.mark[k] = e.mark[k],
         \A h \in Id \X (1..Revisions) : g.hist[h] # 0 =>
           IF h[1] = i THEN g.hist[h] < g.stat[i].ver ELSE g.hist[h] = e.hist[h]
  PROVE  Sound(g)
<1>1. \A s : Live(g, s) <=> Live(e, s)
  BY DEF Live
<1>2. \A k \in Mark : k[2] \in Id
  BY DEF Mark
<1>3. \A j \in Id : /\ g.stat[j] # None => Live(g, g.stat[j].author)
                    /\ g.poll[j] # None => g.stat[j] # None
                    /\ g.dm[j] # 0 => g.stat[j] # None
  BY <1>1 DEF Sound
<1>4. \A h \in Id \X (1..Revisions) : g.hist[h] # 0 =>
        g.stat[h[1]] # None /\ g.hist[h] < g.stat[h[1]].ver
  <2> SUFFICES ASSUME NEW h \in Id \X (1..Revisions), g.hist[h] # 0
               PROVE  g.stat[h[1]] # None /\ g.hist[h] < g.stat[h[1]].ver
    OBVIOUS
  <2>1. h[1] \in Id
    OBVIOUS
  <2> QED BY <2>1 DEF Sound
<1>5. \A k \in Mark : g.mark[k] # 0 => g.stat[k[2]] # None /\ Live(g, k[3])
  BY <1>1, <1>2 DEF Sound
<1>6. \A s \in Slot : g.acct[s] # None => ~g.acct[s].deleted
  BY DEF Sound
<1> QED BY <1>3, <1>4, <1>5, <1>6 DEF Sound

\* A request that makes no room, and is refused for that.
LEMMA NoRoomKeeps2 ==
  ASSUME HouseholdAssumption, Inv, Inv2, NoRoom(<<>>)
  PROVE  Inv2'
<1>1. Request(<<>> \o RemoveAll(Evictable)) /\ KeepIds /\ Evictable \in SUBSET Id
  BY EvictableIs DEF NoRoom
<1>2. ram.rec = disk /\ disk \in Records
  BY <1>1, ReadyKnows DEF Request
<1>3. Opens(disk, <<>>, lastId) /\ Ends(disk, <<>>, disk) /\ Range(<<>>) = {}
  BY <1>2, OpensNone, EndsNone DEF Range
<1> DEFINE t == <<>> \o RemoveAll(Evictable)
           g == Without(disk, Evictable)
<1>4. Opens(disk, t, lastId) /\ Ends(disk, t, g) /\ g \in Records /\ (Sound(disk) => Sound(g))
  BY <1>1, <1>2, <1>3, RoomEnds
<1> HIDE DEF g
<1> QED BY <1>1, <1>4, OpenKeeps2

\* A post commits a status under a new id, which nothing answers yet.
LEMMA PostStatusKeeps2 ==
  ASSUME HouseholdAssumption, Inv, Inv2,
         NEW s \in Slot, NEW mentioned \in SUBSET Slot, NEW parent \in 0..MaxId,
         NEW poll \in BOOLEAN, NEW direct \in BOOLEAN,
         PostStatus(s, mentioned, parent, poll, direct)
  PROVE  Inv2'
<1> DEFINE i == lastId + 1
           rec == [author |-> s, by |-> ram.rec.acct[s].id,
                   mentions |-> {ram.rec.acct[t].id : t \in mentioned},
                   parent |-> parent, direct |-> direct, ver |-> 1]
           x == Put("stat", i, rec)
           y == Put("poll", i, [ver |-> 1, votes |-> [t \in Slot |-> 0]])
           z == Put("dm", i, 1)
<1>1. /\ Ready /\ i \in Id /\ Live(ram.rec, s) /\ \A t \in mentioned : Live(ram.rec, t)
      /\ parent \in Visible(s) \cup {0}
  BY DEF PostStatus, NoRoom, Request
<1>2. /\ ram.rec = disk /\ disk \in Records /\ lastId \in Nat
      /\ \A t \in Slot : Live(ram.rec, t) => ram.rec.acct[t] \in AccountRec
      /\ Dated(disk, lastId)
  BY <1>1, ReadyKnows DEF Inv, Typed, Inv2
<1>3. rec \in StatusRec /\ rec # None
  <2>1. ram.rec.acct[s].id \in Account /\ \A t \in mentioned : ram.rec.acct[t].id \in Account
    BY <1>1, <1>2 DEF AccountRec
  <2>2. {ram.rec.acct[t].id : t \in mentioned} \in SUBSET Account
    BY <2>1
  <2>3. 1 \in 1..MaxVersion
    BY DEF HouseholdAssumption
  <2>4. rec \in StatusRec
    BY <2>1, <2>2, <2>3 DEF StatusRec
  <2> QED BY <2>4 DEF HouseholdAssumption
<1>4. x \in Write /\ x.f = "stat" /\ x.k = i /\ x.v = rec
  BY <1>1, <1>3 DEF Put, Write
<1>5. /\ y \in Write /\ y.f = "poll" /\ y.k = i
      /\ z \in Write /\ z.f = "dm" /\ z.k = i
  <2>1. 1 \in 1..MaxVersion /\ 1 \in 0..MaxVersion /\ 0 \in 0..MaxAccount
    BY DEF HouseholdAssumption
  <2>2. [ver |-> 1, votes |-> [t \in Slot |-> 0]] \in PollRec
    BY <2>1 DEF PollRec
  <2> QED BY <1>1, <2>1, <2>2 DEF Put, Write
<1>6. rec.author = s /\ rec.parent = parent /\ rec.ver = 1
  OBVIOUS
<1> HIDE DEF rec, x, y, z
<1>7. /\ i \in Nat /\ lastId < i /\ lastId <= i
      /\ \A j \in Id : disk.stat[j] # None => j <= lastId /\ j # i /\ disk.stat[j].parent # i
      /\ \A h \in Id \X (1..Revisions) : h[1] = i => disk.hist[h] = 0
      /\ parent < i
  <2>1. DOMAIN disk.hist = Id \X (1..Revisions) /\ Id \subseteq Nat /\ parent \in Nat
    BY <1>2 DEF Records, Id
  <2>2. \A j \in Id : disk.stat[j] # None => disk.stat[j].parent \in Nat
    BY <1>2 DEF Records, StatusRec
  <2>3. \A j \in Id : disk.stat[j] # None => j <= lastId /\ disk.stat[j].parent < j
    BY <1>2 DEF Dated
  <2>4. \A h \in Id \X (1..Revisions) : disk.hist[h] # 0 => h[1] <= lastId
    BY <1>2, <2>1 DEF Dated
  <2>5. parent = 0 \/ (parent \in Id /\ disk.stat[parent] # None)
    BY <1>1, <1>2 DEF Visible, Statuses
  <2> QED BY <1>2, <2>1, <2>2, <2>3, <2>4, <2>5
<1>8. CASE NoRoom(<<>>)
  BY <1>8, NoRoomKeeps2
<1>9. CASE \E v \in MakeRoom(IF Cardinality(Statuses) >= MaxStatuses THEN 1 ELSE 0) :
             /\ Request(RemoveAll(v) \o (IF poll THEN <<y>> ELSE <<>>)
                         \o (IF direct THEN <<z>> ELSE <<>>) \o <<x>>)
             /\ lastId' = i
  <2>1. PICK v \in MakeRoom(IF Cardinality(Statuses) >= MaxStatuses THEN 1 ELSE 0) :
             /\ Request(RemoveAll(v) \o (IF poll THEN <<y>> ELSE <<>>)
                         \o (IF direct THEN <<z>> ELSE <<>>) \o <<x>>)
             /\ lastId' = i
    BY <1>9
  <2>2. v \in SUBSET Id /\ \A j \in v : disk.stat[j] # None
    BY <1>2, EvictableIs DEF MakeRoom, Evictable, Statuses
  <2> DEFINE a == RemoveAll(v)
             e == Without(disk, v)
  <2>3. /\ a \in Seq(Write) /\ Opens(disk, a, i) /\ Ends(disk, a, e) /\ e \in Records
        /\ Sound(disk) => Sound(e)
        /\ \A w \in Range(a) : w.f \in {"stat", "hist"} => About(w.f, w.k) # i
    <3>1. \A w \in Range(a) : About(w.f, w.k) \in v
      BY <1>2, <2>2, RemoveAllIs
    <3> QED BY <1>2, <1>7, <2>2, <3>1, RemoveOpens, RemoveFromDisk, WithoutSound
  <2>4. /\ e.acct = disk.acct /\ e.stat[i] = None /\ Live(e, s)
        /\ \A h \in Id \X (1..Revisions) : h[1] = i => e.hist[h] = 0
    BY <1>1, <1>2, <1>7, <2>2 DEF Without, Live
  <2> HIDE DEF a, e, i
  <2> DEFINE b == a \o (IF poll THEN <<y>> ELSE <<>>)
             c == b \o (IF direct THEN <<z>> ELSE <<>>)
  <2>5. PICK f \in Records :
          /\ Opens(disk, b, i) /\ Ends(disk, b, f) /\ f.acct = e.acct /\ f.stat = e.stat
          /\ f.dm = e.dm /\ f.hist = e.hist /\ f.mark = e.mark
          /\ \A j \in Id \ {i} : f.poll[j] = e.poll[j]
          /\ \A w \in Range(b) : w.f \in {"stat", "hist"} => About(w.f, w.k) # i
    <3>1. CASE poll
      <4>1. /\ Opens(disk, a \o <<y>>, i) /\ Ends(disk, a \o <<y>>, Stored(e, y))
            /\ Stored(e, y) \in Records /\ Range(a \o <<y>>) = Range(a) \cup {y}
        BY <1>5, <2>3, OneMore
      <4>2. /\ Stored(e, y).acct = e.acct /\ Stored(e, y).stat = e.stat
            /\ Stored(e, y).dm = e.dm /\ Stored(e, y).hist = e.hist
            /\ Stored(e, y).mark = e.mark
        BY <1>5, <2>3 DEF Stored, Records
      <4>3. \A j \in Id \ {i} : Stored(e, y).poll[j] = e.poll[j]
        BY <1>5, <2>3, StoredIs
      <4>4. b = a \o <<y>>
        BY <3>1
      <4> HIDE DEF b
      <4> QED BY <1>5, <2>3, <4>1, <4>2, <4>3, <4>4
    <3>2. CASE ~poll
      <4>1. b = a
        BY <2>3, <3>2, ConcatEmptySeq
      <4> HIDE DEF b
      <4> QED BY <2>3, <4>1
    <3> QED BY <3>1, <3>2
  <2> HIDE DEF b
  <2>6. PICK g \in Records :
          /\ Opens(disk, c, i) /\ Ends(disk, c, g) /\ g.acct = e.acct /\ g.stat = e.stat
          /\ g.hist = e.hist /\ g.mark = e.mark
          /\ \A j \in Id \ {i} : g.poll[j] = e.poll[j] /\ g.dm[j] = e.dm[j]
          /\ \A w \in Range(c) : w.f \in {"stat", "hist"} => About(w.f, w.k) # i
    <3>1. CASE direct
      <4>1. /\ Opens(disk, b \o <<z>>, i) /\ Ends(disk, b \o <<z>>, Stored(f, z))
            /\ Stored(f, z) \in Records /\ Range(b \o <<z>>) = Range(b) \cup {z}
        BY <1>5, <2>5, OneMore
      <4>2. /\ Stored(f, z).acct = f.acct /\ Stored(f, z).stat = f.stat
            /\ Stored(f, z).poll = f.poll /\ Stored(f, z).hist = f.hist
            /\ Stored(f, z).mark = f.mark
        BY <1>5, <2>5 DEF Stored, Records
      <4>3. \A j \in Id \ {i} : Stored(f, z).dm[j] = f.dm[j]
        <5>1. "dm" \in Field /\ DOMAIN NoRecords["dm"] = Id
          BY DEF Field, NoRecords
        <5>2. \A j \in DOMAIN NoRecords["dm"] : Stored(f, z)["dm"][j] =
                IF z.f = "dm" /\ z.k = j THEN z.v ELSE f["dm"][j]
          BY <1>5, <2>5, <5>1, StoredIs
        <5> QED BY <1>5, <5>1, <5>2
      <4>4. c = b \o <<z>>
        BY <3>1
      <4> HIDE DEF c
      <4> QED BY <1>5, <2>5, <4>1, <4>2, <4>3, <4>4
    <3>2. CASE ~direct
      <4>1. b \in Seq(Write)
        BY <2>5 DEF Opens
      <4>2. c = b
        BY <3>2, <4>1, ConcatEmptySeq
      <4> HIDE DEF c
      <4> QED BY <2>5, <4>2
    <3> QED BY <3>1, <3>2
  <2>7. Request(c \o <<x>>)
    BY <2>1 DEF a, b
  <2> HIDE DEF c
  <2>8. c \in Seq(Write) /\ \A w \in Range(c) : w.f = "stat" => w.k # i /\ w.v = None
    BY <2>6 DEF Opens, About
  <2>9. Commit(disk, Range(c), x, i)
    <3>1. \A w \in Range(c) : w.f = "hist" => w.k[1] # i
      BY <2>6 DEF About
    <3>2. DOMAIN disk.hist = Id \X (1..Revisions)
      BY <1>2 DEF Records
    <3>3. disk.stat[i] = None
      BY <1>1, <1>7
    <3> QED BY <1>4, <1>6, <1>7, <3>1, <3>2, <3>3 DEF Commit
  <2>10. c \o <<x>> \in Seq(Write) /\ Commits(disk, c \o <<x>>, i)
    BY <1>3, <1>4, <2>6, <2>8, <2>9, OpensLast
  <2>11. Recorded(disk, c \o <<x>>)
    <3>1. Range(c \o <<x>>) = Range(c) \cup {x}
      <4> DEFINE q == <<x>>
      <4>1. q \in Seq(Write) /\ Range(q) = {x}
        BY <1>4 DEF Range
      <4> HIDE DEF q
      <4>2. Range(c \o q) = Range(c) \cup {x}
        BY <2>8, <4>1, RangeConcat
      <4> QED BY <4>2 DEF q
    <3>2. disk.stat[i] = None
      BY <1>1, <1>7
    <3>3. \A w \in Range(c \o <<x>>) :
            ~(w.f = "stat" /\ w.v # None /\ disk.stat[w.k] # None /\ ~disk.stat[w.k].direct)
      BY <1>4, <2>8, <3>1, <3>2
    <3> QED BY <3>3, Zenon DEF Recorded
  <2>12. Ends(disk, c \o <<x>>, Stored(g, x)) /\ Stored(g, x) \in Records
    BY <1>4, <2>6, <2>8, EndsMore
  <2>13. Sound(disk) => Sound(Stored(g, x))
    <3> DEFINE u == Stored(g, x)
    <3>1. /\ u.acct = e.acct /\ u.mark = e.mark /\ u.hist = e.hist /\ u.poll = g.poll
          /\ u.dm = g.dm
      BY <1>4, <2>6 DEF Stored, Records
    <3>2. u.stat[i] = rec /\ \A j \in Id \ {i} : u.stat[j] = e.stat[j]
      BY <1>1, <1>4, <2>6, StoredIs
    <3> HIDE DEF u
    <3>3. Live(e, u.stat[i].author) /\ u.stat[i] # None
      BY <1>3, <1>6, <2>4, <3>2
    <3>4. \A h \in Id \X (1..Revisions) : u.hist[h] # 0 =>
           IF h[1] = i THEN u.hist[h] < u.stat[i].ver ELSE u.hist[h] = e.hist[h]
      BY <2>4, <3>1
    <3>5. u \in Records
      BY <2>12 DEF u
    <3>6. Sound(disk) => Sound(u)
      BY <1>1, <2>3, <2>6, <3>1, <3>2, <3>3, <3>4, <3>5, CommitSound
    <3> QED BY <3>6 DEF u
  <2>14. lastId' \in Nat /\ lastId <= lastId' /\ lastId' = i
    BY <1>7, <2>1
  <2> QED BY <2>7, <2>10, <2>11, <2>12, <2>13, <2>14, RequestKeeps2
<1> QED BY <1>1, <1>8, <1>9, Zenon DEF PostStatus, x, y, z, rec


\* An edit of status i, before it commits: t leads from the store to e, which
\* differs in the poll and message of i, and in a revision of i and an old one.
Edits(i, t, e) ==
  /\ Opens(disk, t, lastId) /\ \A w \in Range(t) : w.f # "stat"
  /\ e \in Records /\ Ends(disk, t, e)
  /\ e.acct = disk.acct /\ \A j \in Id : e.stat[j] = disk.stat[j]
  /\ \A j \in Id \ {i} : e.poll[j] = disk.poll[j] /\ e.dm[j] = disk.dm[j]
  /\ \A k \in Mark : e.mark[k] = disk.mark[k]
  /\ \A h \in Id \X (1..Revisions) : e.hist[h] # 0 =>
       e.hist[h] = disk.hist[h] \/ (h[1] = i /\ e.hist[h] = disk.stat[i].ver)

\* Nothing written, the store is as it was.
LEMMA EditStarts ==
  ASSUME disk \in Records, NEW i
  PROVE  Edits(i, <<>>, disk)
BY OpensNone, EndsNone DEF Edits, Range

\* The poll, or an old revision, is erased.
LEMMA EditErases ==
  ASSUME HouseholdAssumption, ram.rec = disk, NEW i \in Id, NEW t, NEW e, Edits(i, t, e),
         NEW f \in {"poll", "hist"}, NEW ks \in SUBSET DOMAIN NoRecords[f],
         f = "poll" => ks = {i}, \A k \in ks : e[f][k] = disk[f][k]
  PROVE  /\ Edits(i, t \o EraseIf(f, ks), Erased(e, f, ks))
         /\ EraseIf(f, ks) \in Seq(Write) /\ \A w \in Range(EraseIf(f, ks)) : w.f = f
<1> DEFINE q == EraseIf(f, ks)
           g == Erased(e, f, ks)
<1>1. t \in Seq(Write) /\ e \in Records /\ Ends(disk, t, e) /\ Opens(disk, t, lastId)
  BY DEF Edits, Opens
<1>2. q \in Seq(Write) /\ Opens(disk, q, lastId) /\ \A w \in Range(q) : w.f = f
  BY EraseOpens
<1>3. Ends(disk, t \o q, g) /\ g \in Records
  BY <1>1, EraseEnds
<1>4. /\ g.acct = e.acct /\ g.stat = e.stat /\ g.dm = e.dm
      /\ \A j \in Id : g.poll[j] = IF f = "poll" /\ j \in ks THEN None ELSE e.poll[j]
      /\ \A h \in Id \X (1..Revisions) : g.hist[h] = IF f = "hist" /\ h \in ks THEN 0 ELSE e.hist[h]
      /\ \A k \in Mark : g.mark[k] = IF f = "mark" /\ k \in ks THEN 0 ELSE e.mark[k]
  BY <1>1, ErasedIs
<1> HIDE DEF q, g
<1>5. /\ Opens(disk, t \o q, lastId) /\ Range(t \o q) = Range(t) \cup Range(q)
  BY <1>1, <1>2, OpensConcat, RangeConcat
<1>6. Edits(i, t \o q, g)
  BY <1>2, <1>3, <1>4, <1>5 DEF Edits
<1> QED BY <1>2, <1>6 DEF q, g

\* The poll, the message or the version replaced is written.
LEMMA EditWrites ==
  ASSUME NEW i \in Id, NEW t, NEW e, Edits(i, t, e), NEW w \in Write,
         \/ w.f \in {"poll", "dm"} /\ w.k = i
         \/ /\ w.f = "hist" /\ w.k[1] = i /\ w.v = disk.stat[i].ver
            /\ i <= lastId /\ ~disk.stat[i].direct
  PROVE  Edits(i, t \o <<w>>, Stored(e, w))
<1> DEFINE g == Stored(e, w)
           u == t \o <<w>>
<1>1. Opens(disk, t, lastId) /\ e \in Records /\ Ends(disk, t, e)
  BY DEF Edits
<1>2. /\ u \in Seq(Write) /\ Range(u) = Range(t) \cup {w} /\ Opens(disk, u, lastId)
      /\ Ends(disk, u, g) /\ g \in Records
  BY <1>1, OneMore
<1>3. /\ g.acct = e.acct
      /\ \A j \in Id : g.stat[j] = e.stat[j]
      /\ \A j \in Id \ {i} : g.poll[j] = e.poll[j]
      /\ \A k \in Mark : g.mark[k] = e.mark[k]
  BY <1>1, StoredIs DEF Stored, Records
<1>4. \A j \in Id \ {i} : g.dm[j] = e.dm[j]
  <2>1. "dm" \in Field /\ DOMAIN NoRecords["dm"] = Id
    BY DEF Field, NoRecords
  <2>2. \A j \in DOMAIN NoRecords["dm"] : g["dm"][j] =
          IF w.f = "dm" /\ w.k = j THEN w.v ELSE e["dm"][j]
    BY <1>1, <2>1, StoredIs
  <2> HIDE DEF g
  <2> QED BY <2>1, <2>2
<1>5. \A h \in Id \X (1..Revisions) : g.hist[h] =
        IF w.f = "hist" /\ w.k = h THEN w.v ELSE e.hist[h]
  BY <1>1, StatAfter
<1> HIDE DEF g, u
<1>6. Edits(i, u, g)
  BY <1>2, <1>3, <1>4, <1>5 DEF Edits
<1> QED BY <1>6 DEF g, u

\* The last history that t writes is version ver of status i.
Keeps(t, i, ver) ==
  \E n \in 1..Revisions : \E p \in DOMAIN t :
    /\ t[p].f = "hist" /\ t[p].k = <<i, n>> /\ t[p].v = ver
    /\ \A q \in DOMAIN t : q > p => t[q].f # "hist"

\* It is when the version is what t ends in.
LEMMA KeepsLast ==
  ASSUME NEW t \in Seq(Write), NEW i, NEW n \in 1..Revisions, NEW ver,
         NEW w \in Write, w.f = "hist", w.k = <<i, n>>, w.v = ver
  PROVE  Keeps(t \o <<w>>, i, ver)
<1> DEFINE u == t \o <<w>>
<1>1. DOMAIN u = 1..Len(t) + 1 /\ Len(t) \in Nat /\ u[Len(t) + 1] = w
  OBVIOUS
<1> HIDE DEF u
<1>2. Keeps(u, i, ver)
  <2>1. Len(t) + 1 \in DOMAIN u
    BY <1>1
  <2>2. \A q \in DOMAIN u : ~(q > Len(t) + 1)
    BY <1>1
  <2> QED BY <1>1, <2>1, <2>2 DEF Keeps
<1> QED BY <1>2 DEF u

\* It still is after writes that are not of history.
LEMMA KeepsMore ==
  ASSUME NEW t \in Seq(Write), NEW i, NEW ver, Keeps(t, i, ver),
         NEW q \in Seq(Write), \A w \in Range(q) : w.f # "hist"
  PROVE  Keeps(t \o q, i, ver)
<1> DEFINE u == t \o q
<1>1. /\ DOMAIN u = 1..Len(t) + Len(q) /\ Len(t) \in Nat /\ Len(q) \in Nat
      /\ DOMAIN t = 1..Len(t) /\ DOMAIN q = 1..Len(q)
      /\ \A m \in DOMAIN t : u[m] = t[m]
      /\ \A m \in DOMAIN u : m <= Len(t) \/ (m - Len(t) \in DOMAIN q /\ u[m] = q[m - Len(t)])
  OBVIOUS
<1>2. \A m \in DOMAIN q : q[m].f # "hist"
  BY DEF Range
<1> HIDE DEF u
<1>3. PICK n \in 1..Revisions, p \in DOMAIN t :
        /\ t[p].f = "hist" /\ t[p].k = <<i, n>> /\ t[p].v = ver
        /\ \A o \in DOMAIN t : o > p => t[o].f # "hist"
  BY DEF Keeps
<1>4. p \in DOMAIN u /\ u[p] = t[p]
  BY <1>1
<1>5. \A o \in DOMAIN u : o > p => u[o].f # "hist"
  BY <1>1, <1>2, <1>3
<1>6. Keeps(u, i, ver)
  BY <1>3, <1>4, <1>5 DEF Keeps
<1> QED BY <1>6 DEF u


\* What an edit of status i writes before its poll: an old revision may go, and
\* the version it replaces is kept.
LEMMA RevisionKeptFirst ==
  ASSUME HouseholdAssumption, Inv, Inv2, Ready, NEW i \in Statuses, ~disk.stat[i].direct,
         NEW gone \in HistoryGone
  PROVE  /\ KeepRevision(i, gone) \in Seq(Write)
         /\ Keeps(KeepRevision(i, gone), i, disk.stat[i].ver)
         /\ \E e : Edits(i, KeepRevision(i, gone), e) /\ e.poll = disk.poll
<1> DEFINE n == RevisionSlot(i, gone)
           w == Put("hist", <<i, n>>, ram.rec.stat[i].ver)
           a == EraseIf("hist", gone)
           e == Erased(disk, "hist", gone)
<1>1. /\ ram.rec = disk /\ disk \in Records /\ i \in Id /\ disk.stat[i] \in StatusRec
      /\ i <= lastId
  BY ReadyKnows DEF Statuses, Inv2, Dated
<1>2. gone \in SUBSET DOMAIN NoRecords["hist"]
  <2>1. DOMAIN disk.hist = DOMAIN NoRecords["hist"]
    BY <1>1 DEF Records, NoRecords
  <2> QED BY <1>1, <2>1 DEF HistoryGone, OldestRevisions
<1>3. n \in 1..Revisions
  BY <1>1, RevisionSlotIs
<1>4. w \in Write /\ w.f = "hist" /\ w.k = <<i, n>> /\ w.v = disk.stat[i].ver /\ w.k[1] = i
  <2>1. disk.stat[i].ver \in 0..MaxVersion
    BY <1>1 DEF StatusRec, HouseholdAssumption
  <2> QED BY <1>1, <1>3, <2>1 DEF Put, Write
<1>5. Edits(i, <<>> \o a, e) /\ a \in Seq(Write)
  <2>1. Edits(i, <<>>, disk)
    BY <1>1, EditStarts
  <2> QED BY <1>1, <1>2, <2>1, EditErases
<1>6. e.poll = disk.poll
  BY DEF Erased
<1>7. KeepRevision(i, gone) = a \o <<w>>
  BY DEF KeepRevision
<1> HIDE DEF n, w, a, e
<1>8. <<>> \o a = a
  BY <1>5, ConcatEmptySeq
<1>9. Edits(i, a \o <<w>>, Stored(e, w))
  BY <1>1, <1>4, <1>5, <1>8, EditWrites
<1>10. a \o <<w>> \in Seq(Write)
  BY <1>9 DEF Edits, Opens
<1>11. Keeps(a \o <<w>>, i, disk.stat[i].ver)
  BY <1>3, <1>4, <1>5, KeepsLast
<1>12. Stored(e, w).poll = disk.poll
  <2>1. e \in Records
    BY <1>5 DEF Edits
  <2> QED BY <1>4, <1>6, <2>1 DEF Stored, Records
<1> QED BY <1>7, <1>9, <1>10, <1>11, <1>12

\* An edit commits a version whose predecessor is in the history.
LEMMA EditStatusKeeps2 ==
  ASSUME HouseholdAssumption, Inv, Inv2,
         NEW i \in Id, NEW mentioned \in SUBSET Slot, NEW poll \in {"none", "keep", "new"},
         EditStatus(i, mentioned, poll)
  PROVE  Inv2'
<1> DEFINE old == ram.rec.stat[i]
           rec == [old EXCEPT !.ver = @ + 1,
                     !.mentions = {ram.rec.acct[t].id : t \in mentioned}]
           x == Put("stat", i, rec)
           y == Put("poll", i, [ver |-> rec.ver, votes |-> [t \in Slot |-> 0]])
           z == Put("dm", i, rec.ver)
           A(gone) == IF old.direct THEN <<>> ELSE KeepRevision(i, gone)
           P == CASE poll = "keep" -> <<>>
                  [] poll = "new"  -> <<y>>
                  [] poll = "none" -> EraseIf("poll", {i})
           D == IF old.direct THEN <<z>> ELSE <<>>
<1>1. /\ Ready /\ i \in Statuses /\ old.ver < MaxVersion /\ KeepIds
      /\ \A t \in mentioned : Live(ram.rec, t)
      /\ old.direct => poll = "none"
      /\ \E gone \in HistoryGone : Request(A(gone) \o P \o D \o <<x>>)
  BY DEF EditStatus, Request
<1>2. /\ ram.rec = disk /\ disk \in Records /\ old \in StatusRec /\ old = disk.stat[i]
      /\ old # None /\ lastId \in Nat /\ Dated(disk, lastId)
      /\ \A t \in Slot : Live(ram.rec, t) => ram.rec.acct[t] \in AccountRec
  BY <1>1, ReadyKnows DEF Statuses, Inv, Typed, Inv2
<1>3. /\ rec \in StatusRec /\ rec # None /\ rec.ver = old.ver + 1
      /\ rec.author = old.author /\ rec.parent = old.parent /\ rec.direct = old.direct
      /\ rec.ver \in 1..MaxVersion /\ old.ver \in Nat
  <2>1. {ram.rec.acct[t].id : t \in mentioned} \in SUBSET Account
    BY <1>1, <1>2 DEF AccountRec
  <2>2. old.ver + 1 \in 1..MaxVersion /\ old.ver \in Nat
    BY <1>1, <1>2 DEF StatusRec, HouseholdAssumption
  <2>3. rec \in StatusRec
    BY <1>2, <2>1, <2>2 DEF StatusRec
  <2> QED BY <1>2, <2>2, <2>3 DEF StatusRec, HouseholdAssumption
<1>4. x \in Write /\ x.f = "stat" /\ x.k = i /\ x.v = rec
  BY <1>3 DEF Put, Write
<1>5. /\ y \in Write /\ y.f = "poll" /\ y.k = i
      /\ z \in Write /\ z.f = "dm" /\ z.k = i
  <2>1. rec.ver \in 0..MaxVersion /\ 0 \in 0..MaxAccount
    BY <1>3 DEF HouseholdAssumption
  <2>2. [ver |-> rec.ver, votes |-> [t \in Slot |-> 0]] \in PollRec
    BY <1>3, <2>1 DEF PollRec
  <2> QED BY <2>1, <2>2 DEF Put, Write
<1> HIDE DEF rec, x, y, z
<1>6. i <= lastId /\ old.parent < i
  BY <1>2 DEF Dated
<1>7. PICK gone \in HistoryGone : Request(A(gone) \o P \o D \o <<x>>)
  BY <1>1
<1> DEFINE a == A(gone)
<1>8. PICK e : /\ Edits(i, a, e) /\ a \in Seq(Write) /\ e.poll[i] = disk.poll[i]
               /\ old.direct \/ Keeps(a, i, old.ver)
  <2>1. CASE old.direct
    <3>1. a = <<>> /\ Edits(i, <<>>, disk) /\ <<>> \in Seq(Write)
      BY <1>2, <2>1, EditStarts
    <3> QED BY <2>1, <3>1
  <2>2. CASE ~old.direct
    <3>1. a = KeepRevision(i, gone)
      BY <2>2
    <3> HIDE DEF a
    <3> QED BY <1>1, <1>2, <2>2, <3>1, RevisionKeptFirst
  <2> QED BY <2>1, <2>2
<1> HIDE DEF A, a
<1> DEFINE b == a \o P
<1>9. PICK f : /\ Edits(i, b, f) /\ b \in Seq(Write)
               /\ old.direct \/ Keeps(b, i, old.ver)
  <2>1. CASE poll = "keep"
    <3>1. b = a
      BY <1>8, <2>1, ConcatEmptySeq
    <3> HIDE DEF b
    <3> QED BY <1>8, <3>1
  <2>2. CASE poll = "new"
    <3> DEFINE q == <<y>>
    <3>1. b = a \o q /\ q \in Seq(Write) /\ Range(q) = {y}
      BY <1>5, <2>2 DEF Range
    <3>2. Edits(i, a \o q, Stored(e, y))
      BY <1>5, <1>8, EditWrites
    <3> HIDE DEF q, b, P
    <3>3. old.direct \/ Keeps(a \o q, i, old.ver)
      BY <1>5, <1>8, <3>1, KeepsMore
    <3>4. a \o q \in Seq(Write)
      BY <3>2 DEF Edits, Opens
    <3> QED BY <3>1, <3>2, <3>3, <3>4
  <2>3. CASE poll = "none"
    <3> DEFINE q == EraseIf("poll", {i})
    <3>1. b = a \o q
      BY <2>3
    <3>2. {i} \in SUBSET DOMAIN NoRecords["poll"]
      BY DEF NoRecords
    <3>3. /\ Edits(i, a \o q, Erased(e, "poll", {i})) /\ q \in Seq(Write)
          /\ \A w \in Range(q) : w.f = "poll"
      BY <1>2, <1>8, <3>2, EditErases
    <3> HIDE DEF q, b, P
    <3>4. old.direct \/ Keeps(a \o q, i, old.ver)
      BY <1>8, <3>3, KeepsMore
    <3>5. a \o q \in Seq(Write)
      BY <3>3 DEF Edits, Opens
    <3> QED BY <3>1, <3>3, <3>4, <3>5
  <2> QED BY <2>1, <2>2, <2>3
<1> HIDE DEF b
<1> DEFINE c == b \o D
<1>10. PICK g : /\ Edits(i, c, g) /\ c \in Seq(Write)
                /\ old.direct \/ Keeps(c, i, old.ver)
  <2>1. CASE old.direct
    <3>1. c = b \o <<z>>
      BY <2>1
    <3>2. Edits(i, b \o <<z>>, Stored(f, z))
      BY <1>5, <1>9, EditWrites
    <3> HIDE DEF c
    <3>3. c \in Seq(Write)
      BY <3>1, <3>2 DEF Edits, Opens
    <3> QED BY <2>1, <3>1, <3>2, <3>3
  <2>2. CASE ~old.direct
    <3>1. c = b
      BY <1>9, <2>2, ConcatEmptySeq
    <3> HIDE DEF c
    <3> QED BY <1>9, <3>1
  <2> QED BY <2>1, <2>2
<1>11. Request(c \o <<x>>)
  BY <1>7 DEF a, b
<1> HIDE DEF c, D, P
<1>12. /\ Opens(disk, c, lastId) /\ \A w \in Range(c) : w.f # "stat"
       /\ g \in Records /\ Ends(disk, c, g)
  BY <1>10 DEF Edits
<1>13. Commits(disk, c \o <<x>>, lastId) /\ c \o <<x>> \in Seq(Write)
  <2>1. Commit(disk, Range(c), x, lastId)
    BY <1>2, <1>3, <1>4, <1>6 DEF Commit
  <2> QED BY <1>3, <1>4, <1>12, <2>1, OpensLast
<1>14. Recorded(disk, c \o <<x>>)
  <2> DEFINE u == c \o <<x>>
  <2>1. Range(u) = Range(c) \cup {x}
    <3> DEFINE q == <<x>>
    <3>1. q \in Seq(Write) /\ Range(q) = {x}
      BY <1>4 DEF Range
    <3> HIDE DEF q
    <3>2. Range(c \o q) = Range(c) \cup {x}
      BY <1>10, <3>1, RangeConcat
    <3> QED BY <3>2 DEF q
  <2>2. old.direct \/ Keeps(u, i, old.ver)
    <3> DEFINE q == <<x>>
    <3>1. q \in Seq(Write) /\ \A w \in Range(q) : w.f # "hist"
      BY <1>4 DEF Range
    <3> HIDE DEF q, u
    <3>2. old.direct \/ Keeps(c \o q, i, old.ver)
      BY <1>10, <3>1, KeepsMore
    <3> QED BY <3>2 DEF q, u
  <2> HIDE DEF u
  <2>3. ASSUME NEW w \in Range(u), w.f = "stat", ~disk.stat[w.k].direct
        PROVE  w.k = i /\ Keeps(u, w.k, disk.stat[w.k].ver)
    BY <1>2, <1>4, <1>12, <2>1, <2>2, <2>3
  <2>4. Recorded(disk, u)
    BY <2>3, Zenon DEF Recorded, Keeps
  <2> QED BY <2>4 DEF u
<1>15. Ends(disk, c \o <<x>>, Stored(g, x)) /\ Stored(g, x) \in Records
  BY <1>4, <1>10, <1>12, EndsMore
<1>16. Sound(disk) => Sound(Stored(g, x))
  <2> DEFINE u == Stored(g, x)
  <2>1. /\ u.acct = g.acct /\ u.mark = g.mark /\ u.hist = g.hist /\ u.poll = g.poll
        /\ u.dm = g.dm
    BY <1>4, <1>12 DEF Stored, Records
  <2>2. u.stat[i] = rec /\ \A j \in Id \ {i} : u.stat[j] = g.stat[j]
    BY <1>4, <1>12, StoredIs
  <2>3. u \in Records
    BY <1>15
  <2> HIDE DEF u
  <2> SUFFICES ASSUME Sound(disk) PROVE Sound(u)
    BY DEF u
  <2>4. /\ u.acct = disk.acct
        /\ \A j \in Id \ {i} : /\ u.stat[j] = disk.stat[j] /\ u.poll[j] = disk.poll[j]
                               /\ u.dm[j] = disk.dm[j]
        /\ \A k \in Mark : u.mark[k] = disk.mark[k]
    BY <1>10, <2>1, <2>2 DEF Edits
  <2>5. u.stat[i] # None /\ Live(disk, u.stat[i].author)
    BY <1>2, <1>3, <2>2 DEF Sound
  <2>6. ASSUME NEW h \in Id \X (1..Revisions), u.hist[h] # 0
        PROVE  IF h[1] = i THEN u.hist[h] < u.stat[i].ver ELSE u.hist[h] = disk.hist[h]
    <3>1. u.hist[h] = disk.hist[h] \/ (h[1] = i /\ u.hist[h] = old.ver)
      BY <1>2, <1>10, <2>1, <2>6 DEF Edits
    <3>2. disk.hist[h] # 0 /\ h[1] = i => disk.hist[h] < old.ver /\ disk.hist[h] \in Nat
      BY <1>2 DEF Sound, Records
    <3> QED BY <1>3, <2>2, <2>6, <3>1, <3>2
  <2> QED BY <1>2, <2>3, <2>4, <2>5, <2>6, CommitSound
<1>17. lastId' = lastId
  BY <1>1 DEF KeepIds
<1> QED BY <1>2, <1>11, <1>13, <1>14, <1>15, <1>16, <1>17, RequestKeeps2


-----------------------------------------------------------------------------
(* The purge of a member. *)

\* The votes of the member in slot s go from the polls that are left.
LEMMA ForgetEnds ==
  ASSUME HouseholdAssumption, disk \in Records, ram.rec = disk, Owned(disk),
         NEW s \in Slot, NEW gone \in SUBSET Id,
         NEW e \in Records, \A i \in Id \ gone : e.poll[i] = disk.poll[i],
         NEW d, NEW p \in Seq(Write), Ends(d, p, e)
  PROVE  /\ ForgetVotes(s, gone) \in Seq(Write)
         /\ \A w \in Range(ForgetVotes(s, gone)) : w.f = "poll"
         /\ \E g \in Records :
              /\ Ends(d, p \o ForgetVotes(s, gone), g)
              /\ g.acct = e.acct /\ g.stat = e.stat /\ g.dm = e.dm /\ g.hist = e.hist
              /\ g.mark = e.mark /\ \A i \in Id : g.poll[i] = None <=> e.poll[i] = None
<1> DEFINE V == {i \in Id \ gone : ram.rec.poll[i] # None /\ ram.rec.poll[i].votes[s] > 0}
           voted == SetToSeq(V)
           r == [i \in V |-> [disk.poll[i] EXCEPT !.votes[s] = 0]]
           t == ForgetVotes(s, gone)
           m == [i \in Id |-> IF i \in V THEN r[i] ELSE e.poll[i]]
           g == [e EXCEPT !.poll = m]
<1>1. V \subseteq Id /\ IsFiniteSet(V)
  BY KeysFinite, FS_Subset
<1>2. /\ t \in Seq(Write)
      /\ \A i \in Id \ gone : disk.poll[i] # None /\ disk.poll[i].votes[s] # 0 =>
           Writes(Range(t), "poll", i)
  BY ForgetVotesIs DEF Plain
<1>3. \A i \in V : i \in Id \ gone /\ disk.poll[i] # None /\ disk.poll[i].votes[s] # 0
  <2> TAKE i \in V
  <2>1. disk.poll[i].votes[s] > 0
    OBVIOUS
  <2>2. disk.poll[i].votes[s] # 0
    BY <2>1
  <2> QED BY <2>2
<1>4. \A i \in V : r[i] \in PollRec /\ r[i] # None
  <2> TAKE i \in V
  <2>1. disk.poll[i] \in PollRec
    BY <1>1, <1>3 DEF Records
  <2> DEFINE q == [disk.poll[i] EXCEPT !.votes[s] = 0]
  <2>2. q \in PollRec /\ r[i] = q
    <3>1. 0 \in 0..MaxAccount
      BY DEF HouseholdAssumption
    <3>2. q \in PollRec
      BY <2>1, <3>1 DEF PollRec
    <3>3. r[i] = q
      OBVIOUS
    <3> QED BY <3>2, <3>3
  <2> HIDE DEF q, r
  <2> QED BY <2>2 DEF HouseholdAssumption
<1>5. \A x \in Range(t) : x.f = "poll" /\ x.k \in V /\ x.v = r[x.k]
  <2>0. SUFFICES ASSUME NEW n \in DOMAIN t
                 PROVE  t[n].f = "poll" /\ t[n].k \in V /\ t[n].v = r[t[n].k]
    <3> HIDE DEF t, r, V
    <3> QED BY DEF Range
  <2>1. t = [j \in DOMAIN voted |->
               Put("poll", voted[j], [ram.rec.poll[voted[j]] EXCEPT !.votes[s] = 0])]
    BY DEF ForgetVotes
  <2>2. n \in DOMAIN voted
    BY <2>1
  <2>3. voted[n] \in V
    <3> HIDE DEF V
    <3>1. voted \in Seq(V)
      BY <1>1, Listed
    <3> QED BY <2>2, <3>1
  <2>4. t[n] = Put("poll", voted[n], r[voted[n]])
    BY <2>1, <2>2, <2>3
  <2> HIDE DEF r, t, V, voted
  <2> QED BY <2>3, <2>4 DEF Put
<1> HIDE DEF r, t, V, voted
<1>6. m \in [Id -> PollRec \cup {None}]
  <2>1. \A i \in Id : m[i] \in PollRec \cup {None}
    BY <1>4 DEF Records
  <2>2. m = [i \in Id |-> m[i]]
    OBVIOUS
  <2> HIDE DEF m
  <2> QED BY <2>1, <2>2
<1>7. /\ \A i \in V : m[i] = r[i]
      /\ \A i \in Id \ V : m[i] = e.poll[i]
  BY <1>1
<1> HIDE DEF m
<1>8. /\ g \in Records /\ g.acct = e.acct /\ g.stat = e.stat /\ g.dm = e.dm
      /\ g.hist = e.hist /\ g.mark = e.mark /\ g.poll = m
  BY <1>6 DEF Records
<1> HIDE DEF g
<1>9. \A i \in Id : g.poll[i] = None <=> e.poll[i] = None
  <2> TAKE i \in Id
  <2>1. CASE i \in V
    BY <1>3, <1>4, <1>7, <1>8, <2>1
  <2>2. CASE i \notin V
    BY <1>7, <1>8, <2>2
  <2> QED BY <2>1, <2>2
<1>10. \A w \in Range(t) : Agrees(w, g)
  BY <1>5, <1>7, <1>8 DEF Agrees
<1>11. Covers(Range(t), e, g)
  <2> SUFFICES ASSUME NEW f \in Field, NEW k \in DOMAIN NoRecords[f]
               PROVE  e[f][k] = g[f][k] \/ Writes(Range(t), f, k)
    BY DEF Covers
  <2>1. CASE f # "poll"
    BY <1>8, <2>1 DEF Field
  <2>2. CASE f = "poll"
    <3>1. k \in Id
      BY <2>2 DEF NoRecords
    <3>2. k \in V => Writes(Range(t), "poll", k)
      BY <1>2, <1>3
    <3> QED BY <1>7, <1>8, <2>2, <3>1, <3>2
  <2> QED BY <2>1, <2>2
<1>12. Ends(d, p \o t, g)
  BY <1>2, <1>10, <1>11, EndsConcat
<1> QED BY <1>2, <1>5, <1>8, <1>9, <1>12 DEF t

\* A purge leaves a sound store with nothing of the member.
LEMMA DeleteAccountKeeps2 ==
  ASSUME HouseholdAssumption, Inv, Inv2, NEW s \in Slot, DeleteAccount(s)
  PROVE  Inv2'
<1> DEFINE own == {i \in Statuses : ram.rec.stat[i].author = s}
           ms == {k \in Mark : k[3] = s /\ k[2] \notin own}
           tomb == Put("acct", s, [ram.rec.acct[s] EXCEPT !.deleted = TRUE])
           last == Erase("acct", s)
           T == <<tomb>>
           A == RemoveAll(own)
           B == EraseIf("mark", ms)
           C == ForgetVotes(s, own)
<1>1. Request(T \o A \o B \o C \o <<last>>) /\ KeepIds /\ Live(ram.rec, s)
  BY DEF DeleteAccount, Purge
<1>2. /\ ram.rec = disk /\ disk \in Records /\ Owned(disk) /\ Statuses \subseteq Id
      /\ ram.rec.acct[s] \in AccountRec
  BY <1>1, ReadyKnows DEF Request
<1>3. /\ own \in SUBSET Id /\ ms \in SUBSET DOMAIN NoRecords["mark"]
      /\ \A i \in Id : disk.stat[i] # None => (i \in own <=> disk.stat[i].author = s)
      /\ \A k \in Mark : k \in ms <=> k[3] = s /\ k[2] \notin own
  BY <1>2 DEF Statuses, NoRecords
<1>4. tomb \in Write /\ tomb.f = "acct" /\ tomb.k = s
  <2> DEFINE r == [ram.rec.acct[s] EXCEPT !.deleted = TRUE]
  <2>1. r \in AccountRec
    BY <1>2 DEF AccountRec
  <2> HIDE DEF r
  <2>2. Put("acct", s, r) \in Write
    BY <2>1 DEF Put, Write
  <2> QED BY <2>2 DEF Put, r
<1>5. last \in Write /\ last.f = "acct" /\ last.k = s /\ last.v = None
  <2>1. "acct" \in Field /\ s \in DOMAIN NoRecords["acct"] /\ NoRecords["acct"][s] = None
    BY DEF Field, NoRecords
  <2> QED BY <2>1, EraseIs
<1> HIDE DEF own, ms, tomb, last, A, B, C
<1> DEFINE e1 == Stored(disk, tomb)
           e2 == Without(e1, own)
           e3 == Erased(e2, "mark", ms)
<1>6. /\ e1 \in Records /\ Ends(disk, T, e1) /\ T \in Seq(Write) /\ Range(T) = {tomb}
      /\ Opens(disk, T, lastId)
  <2>1. T \in Seq(Write) /\ Range(T) = {tomb}
    BY <1>4 DEF Range
  <2> QED BY <1>2, <1>4, <2>1, EndsOne, OpensCalm
<1>7. /\ \A x \in Slot \ {s} : e1.acct[x] = disk.acct[x]
      /\ e1.stat = disk.stat /\ e1.poll = disk.poll /\ e1.dm = disk.dm
      /\ e1.hist = disk.hist /\ e1.mark = disk.mark
  <2>1. \A x \in Slot \ {s} : e1.acct[x] = disk.acct[x]
    BY <1>2, <1>4, StoredIs
  <2> QED BY <1>2, <1>4, <2>1 DEF Stored, Records
<1> HIDE DEF e1, T
<1> DEFINE TA == T \o A
           TAB == TA \o B
           TABC == TAB \o C
<1>8. TA \in Seq(Write) /\ e2 \in Records /\ Ends(disk, TA, e2) /\ Opens(disk, TA, lastId)
  <2>1. \A f \in Field \ {"acct"} : \A k \in DOMAIN NoRecords[f] :
          e1[f][k] = ram.rec[f][k] \/ e1[f][k] = NoRecords[f][k]
    BY <1>2, <1>7 DEF Field
  <2>2. TA \in Seq(Write) /\ e2 \in Records /\ Ends(disk, TA, e2)
    BY <1>2, <1>3, <1>6, <2>1, RemoveEnds DEF A
  <2>3. Opens(disk, A, lastId)
    BY <1>2, <1>3, RemoveOpens DEF A
  <2>4. Opens(disk, TA, lastId)
    BY <1>4, <1>6, <2>3, OpensConcat
  <2> QED BY <2>2, <2>4
<1>9. /\ e2.acct = e1.acct
      /\ \A i \in Id : /\ e2.stat[i] = IF i \in own THEN None ELSE disk.stat[i]
                       /\ e2.poll[i] = IF i \in own THEN None ELSE disk.poll[i]
                       /\ e2.dm[i] = IF i \in own THEN 0 ELSE disk.dm[i]
      /\ \A h \in Id \X (1..Revisions) : e2.hist[h] = IF h[1] \in own THEN 0 ELSE disk.hist[h]
      /\ \A k \in Mark : e2.mark[k] = IF k[2] \in own THEN 0 ELSE disk.mark[k]
  BY <1>7 DEF Without
<1> HIDE DEF TA, e2
<1>10. /\ TAB \in Seq(Write) /\ e3 \in Records /\ Ends(disk, TAB, e3)
       /\ Opens(disk, TAB, lastId)
  <2>1. ms \subseteq Mark
    BY <1>3 DEF NoRecords
  <2>2. \A k \in ms : e2["mark"][k] = ram.rec["mark"][k] \/ e2["mark"][k] = NoRecords["mark"][k]
    BY <1>2, <1>3, <1>9, <2>1
  <2>3. TAB \in Seq(Write) /\ e3 \in Records /\ Ends(disk, TAB, e3)
    BY <1>3, <1>8, <2>2, EraseEnds DEF B
  <2>4. Opens(disk, B, lastId) /\ \A w \in Range(B) : w.f = "mark"
    BY <1>3, EraseOpens DEF B
  <2>5. Opens(disk, TAB, lastId)
    BY <1>8, <2>4, OpensConcat
  <2> QED BY <2>3, <2>5
<1>11. /\ e3.acct = e2.acct /\ e3.stat = e2.stat /\ e3.dm = e2.dm
       /\ \A i \in Id : e3.poll[i] = e2.poll[i]
       /\ \A h \in Id \X (1..Revisions) : e3.hist[h] = e2.hist[h]
       /\ \A k \in Mark : e3.mark[k] = IF k \in ms THEN 0 ELSE e2.mark[k]
  BY <1>8, ErasedIs
<1> HIDE DEF TAB, e3
<1>12. /\ C \in Seq(Write) /\ \A w \in Range(C) : w.f = "poll"
       /\ \E g \in Records :
            /\ Ends(disk, TABC, g)
            /\ g.acct = e3.acct /\ g.stat = e3.stat /\ g.dm = e3.dm /\ g.hist = e3.hist
            /\ g.mark = e3.mark /\ \A i \in Id : g.poll[i] = None <=> e3.poll[i] = None
  <2>1. \A i \in Id \ own : e3.poll[i] = disk.poll[i]
    BY <1>9, <1>11
  <2> QED BY <1>2, <1>3, <1>10, <2>1, ForgetEnds DEF C
<1>13. PICK g \in Records :
            /\ Ends(disk, TABC, g)
            /\ g.acct = e3.acct /\ g.stat = e3.stat /\ g.dm = e3.dm /\ g.hist = e3.hist
            /\ g.mark = e3.mark /\ \A i \in Id : g.poll[i] = None <=> e3.poll[i] = None
  BY <1>12
<1>14. Opens(disk, TABC, lastId)
  <2>1. Opens(disk, C, lastId)
    BY <1>12, OpensCalm
  <2> QED BY <1>10, <1>12, <2>1, OpensConcat
<1>15. Request(TABC \o <<last>>)
  BY <1>1 DEF TA, TAB
<1> HIDE DEF TABC
<1> DEFINE e == Stored(g, last)
<1>16. Opens(disk, TABC \o <<last>>, lastId) /\ Ends(disk, TABC \o <<last>>, e) /\ e \in Records
  BY <1>5, <1>13, <1>14, OneMore
<1>17. Sound(disk) => Sound(e)
  <2> SUFFICES ASSUME Sound(disk) PROVE Sound(e)
    OBVIOUS
  <2>1. /\ e.stat = g.stat /\ e.poll = g.poll /\ e.dm = g.dm /\ e.hist = g.hist
        /\ e.mark = g.mark
    BY <1>5, <1>13 DEF Stored, Records
  <2>2. \A x \in Slot : e.acct[x] = IF x = s THEN None ELSE disk.acct[x]
    <3>1. \A x \in Slot : e.acct[x] = IF x = s THEN None ELSE g.acct[x]
      BY <1>5, <1>13, StoredIs
    <3> HIDE DEF e
    <3> QED BY <1>7, <1>9, <1>11, <1>13, <3>1
  <2>3. /\ \A i \in Id : /\ e.stat[i] = IF i \in own THEN None ELSE disk.stat[i]
                         /\ e.poll[i] # None => i \notin own /\ disk.poll[i] # None
                         /\ e.dm[i] = IF i \in own THEN 0 ELSE disk.dm[i]
        /\ \A h \in Id \X (1..Revisions) : e.hist[h] = IF h[1] \in own THEN 0 ELSE disk.hist[h]
        /\ \A k \in Mark : e.mark[k] # 0 => k \notin ms /\ k[2] \notin own /\ disk.mark[k] # 0
    <3> HIDE DEF e
    <3> QED BY <1>9, <1>11, <1>13, <2>1
  <2> HIDE DEF e
  <2>4. \A x \in Slot \ {s} : Live(e, x) <=> Live(disk, x)
    BY <2>2 DEF Live
  <2>5. \A x \in Slot : e.acct[x] # None => ~e.acct[x].deleted
    BY <2>2 DEF Sound
  <2>6. \A i \in Id : /\ e.stat[i] # None => Live(e, e.stat[i].author)
                      /\ e.poll[i] # None => e.stat[i] # None
                      /\ e.dm[i] # 0 => e.stat[i] # None
    <3> TAKE i \in Id
    <3>1. e.stat[i] # None => Live(e, e.stat[i].author)
      <4>1. disk.stat[i] # None => disk.stat[i].author \in Slot
        BY <1>2 DEF Records, StatusRec
      <4>2. e.stat[i] # None => disk.stat[i] # None /\ e.stat[i] = disk.stat[i] /\ disk.stat[i].author # s
        BY <1>3, <2>3
      <4> QED BY <2>4, <4>1, <4>2 DEF Sound
    <3> QED BY <2>3, <3>1 DEF Sound
  <2>7. \A h \in Id \X (1..Revisions) : e.hist[h] # 0 =>
          e.stat[h[1]] # None /\ e.hist[h] < e.stat[h[1]].ver
    <3> TAKE h \in Id \X (1..Revisions)
    <3>1. h[1] \in Id
      OBVIOUS
    <3> QED BY <2>3, <3>1 DEF Sound
  <2>8. \A k \in Mark : e.mark[k] # 0 => e.stat[k[2]] # None /\ Live(e, k[3])
    <3> TAKE k \in Mark
    <3>1. k[2] \in Id /\ k[3] \in Slot
      BY DEF Mark
    <3> QED BY <1>3, <2>3, <2>4, <3>1 DEF Sound
  <2> QED BY <2>5, <2>6, <2>7, <2>8 DEF Sound
<1> QED BY <1>1, <1>15, <1>16, <1>17, OpenKeeps2


-----------------------------------------------------------------------------
(* The second invariant holds. *)

\* The second invariant holds of a new household, which has no statuses.
LEMMA InitInv2 == ASSUME HouseholdAssumption, Init PROVE Inv2
<1>1. Inv
  BY InitInv
<1>2. /\ ram = Load(disk) /\ mode = "up" /\ todo = <<>> /\ refused = FALSE /\ faults = 0
      /\ lastId = 0 /\ disk \in Records /\ ram.rec = disk
      /\ disk = [NoRecords EXCEPT !.acct = [s \in Slot |-> [id |-> s, deleted |-> FALSE]]]
  BY <1>1 DEF Init, Inv, Typed, Mirror
<1>3. Bounds /\ Counts
  <2>1. /\ ram.mentions \in [Id -> SUBSET Slot] /\ ram.replies \in [Id -> 0..MaxId]
        /\ \A i \in Id : ram.replies[i] = Replies(ram.rec, i)
    BY <1>2, LoadCounts
  <2>2. refused \in BOOLEAN /\ faults \in 0..MaxFaults
    <3>1. 0 \in 0..MaxFaults
      BY DEF HouseholdAssumption
    <3>2. refused = FALSE /\ faults = 0
      BY <1>2
    <3>3. refused \in BOOLEAN
      BY <3>2, Zenon
    <3> QED BY <3>1, <3>2, <3>3
  <2> QED BY <2>1, <2>2 DEF Bounds, Counts
<1>4. Settles
  <2>1. Sound(disk)
    BY <1>2, LoadCounts, LoadedSound
  <2>2. Ends(disk, <<>>, disk)
    BY <1>2, EndsNone
  <2> QED BY <1>2, <2>1, <2>2 DEF Settles
<1>5. Dated(disk, lastId)
  <2>1. disk.stat = NoRecords.stat /\ disk.hist = NoRecords.hist
    BY <1>2 DEF NoRecords
  <2> QED BY <2>1 DEF Dated, NoRecords
<1> QED BY <1>2, <1>3, <1>4, <1>5, NothingOpen DEF Inv2

\* No action breaks it.
LEMMA NextInv2 == ASSUME HouseholdAssumption, Inv, Inv', Inv2, [Next]_vars PROVE Inv2'
<1>1. CASE Member
  <2>1. ASSUME NEW s \in Slot, NEW ms \in Mentioned, NEW p \in Parents,
               NEW poll \in Having("poll"), NEW direct \in Having("direct"),
               PostStatus(s, ms, p, poll, direct)
        PROVE  Inv2'
    <3>1. ms \in SUBSET Slot
      BY DEF Mentioned
    <3>2. p \in 0..MaxId
      BY DEF Parents, HouseholdAssumption
    <3>3. poll \in BOOLEAN
      BY DEF Having
    <3>4. direct \in BOOLEAN
      BY DEF Having
    <3> QED BY <2>1, <3>1, <3>2, <3>3, <3>4, PostStatusKeeps2
  <2>2. ASSUME NEW i \in Id, NEW ms \in Mentioned,
               NEW poll \in {"none"} \cup (IF "poll" \in Features THEN {"keep", "new"} ELSE {}),
               EditStatus(i, ms, poll)
        PROVE  Inv2'
    <3>1. ms \in SUBSET Slot /\ poll \in {"none", "keep", "new"}
      BY DEF Mentioned
    <3> QED BY <2>2, <3>1, EditStatusKeeps2
  <2>3. ASSUME NEW i \in Id, DeleteStatus(i) PROVE Inv2'
    BY <2>3, DeleteStatusKeeps2
  <2>4. ASSUME NEW k \in Mark, SetMark(k) PROVE Inv2'
    BY <2>4, SetMarkKeeps2
  <2>5. ASSUME NEW k \in Mark, UnsetMark(k) PROVE Inv2'
    BY <2>5, UnsetMarkKeeps2
  <2>6. ASSUME NEW s \in Slot, NEW i \in Id, Vote(s, i) PROVE Inv2'
    BY <2>6, VoteKeeps2
  <2> QED BY <1>1, <2>1, <2>2, <2>3, <2>4, <2>5, <2>6 DEF Member
<1>2. CASE Admin
  BY <1>2, CreateMemberKeeps2, DeleteAccountKeeps2 DEF Admin
<1>3. CASE Step \/ StepFails \/ StepRefused
  BY <1>3, StepKeeps2, StepFailsKeeps2, StepRefusedKeeps2
<1>4. CASE PowerCut \/ Restart \/ Boot \/ Booted
  BY <1>4, PowerCutKeeps2, RestartKeeps2, BootKeeps2, BootedKeeps2
<1>5. CASE UNCHANGED vars
  BY <1>5 DEF vars, Inv2, Bounds, Counts, Settles
<1> QED BY <1>1, <1>2, <1>3, <1>4, <1>5 DEF Next

\* Whatever is cut off, refused or repaired, the store is well formed and in order,
\* each slot holds what its account left, and the writes still to make lead to a
\* store that boot would leave as it is.
THEOREM BothHold == HouseholdAssumption => (Spec => [](Inv /\ Inv2))
<1> SUFFICES ASSUME HouseholdAssumption PROVE Spec => [](Inv /\ Inv2)
  OBVIOUS
<1>1. Init => Inv /\ Inv2
  BY InitInv, InitInv2
<1>2. (Inv /\ Inv2) /\ [Next]_vars => (Inv /\ Inv2)'
  BY NextInv, NextInv2
<1> QED BY <1>1, <1>2, PTL DEF Spec

-----------------------------------------------------------------------------
(* What follows from it. *)

\* When requests are taken, what the service has in memory is what it has stored,
\* with the reply counts that boot would make; and unless the flash was full, boot
\* would find nothing in it to repair.
THEOREM MemoryIsStore == HouseholdAssumption => (Spec => []Coherent)
<1> SUFFICES ASSUME HouseholdAssumption PROVE Spec => []Coherent
  OBVIOUS
<1>1. Inv /\ Inv2 => Coherent
  <2> SUFFICES ASSUME Inv, Inv2, Ready
               PROVE  /\ ram.rec = disk
                      /\ \A i \in Id : ram.replies[i] = Replies(ram.rec, i)
                      /\ refused \/ Loaded(disk) = disk
    BY DEF Coherent
  <2>1. ram.rec = disk /\ disk \in Records
    BY ReadyKnows
  <2>2. \A i \in Id : ram.replies[i] = Replies(ram.rec, i)
    BY DEF Inv2, Counts
  <2>3. ~refused => Loaded(disk) = disk
    BY <2>1, ReadySound, SoundLoads
  <2> QED BY <2>1, <2>2, <2>3
<1> QED BY <1>1, BothHold, PTL

\* Unless the flash was full, every revision in the history is of a status that is
\* there, is not direct, and has a later version: an edit that was cut off after
\* keeping a revision has been undone.
THEOREM HistoryIsOlder == HouseholdAssumption => (Spec => []HistoryPrecedes)
<1> SUFFICES ASSUME HouseholdAssumption PROVE Spec => []HistoryPrecedes
  OBVIOUS
<1>1. Inv /\ Inv2 => HistoryPrecedes
  <2> SUFFICES ASSUME Inv, Inv2, Ready, ~refused,
                      NEW h \in DOMAIN ram.rec.hist, ram.rec.hist[h] > 0
               PROVE  /\ ram.rec.stat[h[1]] # None /\ ~ram.rec.stat[h[1]].direct
                      /\ ram.rec.hist[h] < ram.rec.stat[h[1]].ver
    BY DEF HistoryPrecedes
  <2>1. ram.rec = disk /\ disk \in Records /\ Sound(disk)
    BY ReadyKnows, ReadySound
  <2>2. DOMAIN disk.hist = Id \X (1..Revisions) /\ disk.hist[h] # 0
    BY <2>1 DEF Records
  <2>3. disk.stat[h[1]] # None /\ disk.hist[h] < disk.stat[h[1]].ver
    BY <2>1, <2>2 DEF Sound
  <2>4. ~disk.stat[h[1]].direct
    BY <2>1, <2>2, <2>3 DEF Inv2, Dated
  <2> QED BY <2>1, <2>3, <2>4
<1> QED BY <1>1, BothHold, PTL

\* The store, memory and counts are well formed in every state, and a service that
\* is off or latched has nothing to write.
THEOREM WellFormed == HouseholdAssumption => (Spec => []TypeOK)
<1> SUFFICES ASSUME HouseholdAssumption PROVE Spec => []TypeOK
  OBVIOUS
<1>1. Inv /\ Inv2 => TypeOK
  BY DEF Inv, Typed, Inv2, Bounds, TypeOK
<1> QED BY <1>1, BothHold, PTL

\* All of these: the records are well formed and true, and so is their history.
THEOREM RecordsAreTrue == HouseholdAssumption => (Spec => []RecordsHold)
<1> SUFFICES ASSUME HouseholdAssumption PROVE Spec => []RecordsHold
  OBVIOUS
<1>1. TypeOK /\ Coherent /\ HistoryPrecedes => RecordsHold
  BY DEF RecordsHold
<1> QED BY <1>1, WellFormed, MemoryIsStore, HistoryIsOlder, PTL

\* The store changes by the first of the writes to make, or not at all.
LEMMA DiskChanges ==
  ASSUME [Next]_vars
  PROVE  disk' = disk \/ (todo # <<>> /\ disk' = Stored(disk, Head(todo)))
<1>1. CASE Member
  BY <1>1 DEF Member, PostStatus, EditStatus, DeleteStatus, SetMark, UnsetMark, Vote,
              NoRoom, Request
<1>2. CASE Admin
  BY <1>2 DEF Admin, CreateMember, DeleteAccount, Request
<1>3. CASE Step \/ StepFails \/ StepRefused
  BY <1>3 DEF Step, StepFails, StepRefused
<1>4. CASE PowerCut \/ Restart \/ Boot \/ Booted
  BY <1>4 DEF PowerCut, Restart, Boot, Booted
<1> QED BY <1>1, <1>2, <1>3, <1>4 DEF Next, vars

\* Whichever write overwrites a status, the version it replaces is by then in the
\* history on the store, so that power lost there loses neither.
THEOREM EditsAreKept == HouseholdAssumption => (Spec => EditKeepsOld)
<1> SUFFICES ASSUME HouseholdAssumption PROVE Spec => EditKeepsOld
  OBVIOUS
<1>1. Inv /\ Inv2 /\ [Next]_vars => [EditKeepsOldStep]_vars
  <2> SUFFICES ASSUME Inv, Inv2, [Next]_vars, NEW i \in Id,
                      disk.stat[i] # None, disk'.stat[i] # None, ~disk.stat[i].direct,
                      disk'.stat[i] # disk.stat[i]
               PROVE  \E n \in 1..Revisions : disk.hist[<<i, n>>] = disk.stat[i].ver
    BY DEF EditKeepsOldStep
  <2> DEFINE w == Head(todo)
  <2>1. todo # <<>> /\ disk' = Stored(disk, w) /\ disk \in Records /\ todo \in Seq(Write)
    BY DiskChanges DEF Inv, Typed
  <2>2. /\ w = todo[1] /\ 1 \in DOMAIN todo /\ w \in Range(todo) /\ w \in Write
        /\ DOMAIN todo = 1..Len(todo) /\ Len(todo) \in Nat
    BY <2>1, RangeTail, RangeOf
  <2> HIDE DEF w
  <2>3. w.f = "stat" /\ w.k = i /\ w.v # None
    BY <2>1, <2>2, StoredIs
  <2>4. 1 = Len(todo)
    BY <2>2, <2>3 DEF Inv2, Commits
  <2>5. \A p \in DOMAIN todo : todo[p].f # "hist"
    <3>0. DOMAIN todo = 1..1
      BY <2>2, <2>4
    <3>1. \A p \in DOMAIN todo : p = 1
      BY <3>0
    <3>2. todo[1].f # "hist"
      BY <2>2, <2>3
    <3> QED BY <3>1, <3>2
  <2>6. \E n \in 1..Revisions :
          \/ \E p \in DOMAIN todo :
               /\ todo[p].f = "hist" /\ todo[p].k = <<w.k, n>> /\ todo[p].v = disk.stat[w.k].ver
               /\ \A q \in DOMAIN todo : q > p => todo[q].f # "hist"
          \/ /\ disk.hist[<<w.k, n>>] = disk.stat[w.k].ver
             /\ \A x \in Range(todo) : x.f # "hist"
    <3>1. Recorded(disk, todo)
      BY DEF Inv2
    <3>2. w.f = "stat" /\ w.v # None /\ disk.stat[w.k] # None /\ ~disk.stat[w.k].direct
      BY <2>3
    <3> QED BY <2>2, <3>1, <3>2, Zenon DEF Recorded
  <2> QED BY <2>3, <2>5, <2>6
<1> QED BY <1>1, BothHold, PTL DEF Spec, EditKeepsOld
=============================================================================
