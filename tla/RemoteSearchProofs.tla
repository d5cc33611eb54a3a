------------------------- MODULE RemoteSearchProofs -------------------------
(***************************************************************************)
(* Proofs about RemoteSearch, for any servers and keys and any number of   *)
(* sign-ins and faults: every sign-in that a record, the memory or a write *)
(* still to be made holds is one of the server it names, and from it that  *)
(* a token is only ever sent to the server that gave it.                   *)
(***************************************************************************)
EXTENDS RemoteSearch, SequenceTheorems, TLAPS

\* The sign-ins that name the server that gave the token.
Honest == {a \in Auths : a.token # 0 => a.token \in DOMAIN home /\ home[a.token] = a.server}

Types ==
  /\ up \in {"ready", "latched", "off"}
  /\ doing \in {Nothing} \cup [op : {"callback", "sign out", "settings"}]
  /\ home \in Seq(Servers) /\ approved \subseteq DOMAIN home
  /\ sent \subseteq Nat \X Places /\ faults \in 0..MaxFaults

Held == disk \in Disks(Honest) /\ todo \in Programs(Honest)

SentHome == \A pair \in sent : pair[1] # 0 => pair[1] \in DOMAIN home /\ home[pair[1]] = pair[2]

Inv == Types /\ Held /\ SentHome

-----------------------------------------------------------------------------
(* Facts about the records and the programs of writes. *)

\* What the handlers put into a record.
LEMMA Fields ==
  ASSUME NEW A, NEW d \in Disks(A), NEW a \in A, NEW s \in Places, NEW r \in Rams(A)
  PROVE  /\ [d EXCEPT !.auth = a] \in Disks(A)
         /\ [d EXCEPT !.server = s] \in Disks(A)
         /\ [d EXCEPT !.ram = r] \in Disks(A)
         /\ [d EXCEPT !.ram.auth = a] \in Disks(A)
         /\ [d EXCEPT !.ram.server = s] \in Disks(A)
<1>1. d.ram \in Rams(A)
  BY DEF Disks
<1>2. [d.ram EXCEPT !.auth = a] \in Rams(A) /\ [d.ram EXCEPT !.server = s] \in Rams(A)
  BY <1>1 DEF Rams
<1>3. [d EXCEPT !.ram.auth = a] = [d EXCEPT !.ram = [d.ram EXCEPT !.auth = a]]
  BY DEF Disks
<1>4. [d EXCEPT !.ram.server = s] = [d EXCEPT !.ram = [d.ram EXCEPT !.server = s]]
  BY DEF Disks
<1>5. \A x \in Rams(A) : [d EXCEPT !.ram = x] \in Disks(A)
  BY DEF Disks
<1> QED
  BY <1>2, <1>3, <1>4, <1>5 DEF Disks

\* The memory's other fields.
LEMMA RamFields ==
  ASSUME NEW A, NEW d \in Disks(A), NEW n \in Nat, NEW apps \in SUBSET Servers,
         NEW cache \in Seq([key : Keys, token : Nat])
  PROVE  /\ [d EXCEPT !.ram.flow = n] \in Disks(A)
         /\ [d EXCEPT !.ram.apps = apps] \in Disks(A)
         /\ [d EXCEPT !.ram.cache = cache] \in Disks(A)
<1>1. d.ram \in Rams(A) /\ \A x \in Rams(A) : [d EXCEPT !.ram = x] \in Disks(A)
  BY DEF Disks
<1>2. /\ [d.ram EXCEPT !.flow = n] \in Rams(A) /\ [d.ram EXCEPT !.apps = apps] \in Rams(A)
      /\ [d.ram EXCEPT !.cache = cache] \in Rams(A)
  BY <1>1 DEF Rams
<1>3. /\ [d EXCEPT !.ram.flow = n] = [d EXCEPT !.ram = [d.ram EXCEPT !.flow = n]]
      /\ [d EXCEPT !.ram.apps = apps] = [d EXCEPT !.ram = [d.ram EXCEPT !.apps = apps]]
      /\ [d EXCEPT !.ram.cache = cache] = [d EXCEPT !.ram = [d.ram EXCEPT !.cache = cache]]
  BY DEF Disks
<1> QED
  BY <1>1, <1>2, <1>3

Modes == {"never", "stop", "aside", "undo"}

LEMMA Begins ==
  ASSUME NEW A, disk \in Disks(A)
  PROVE  Begin \in Programs(A) /\ Begin # <<>> /\ End(Begin) = disk
BY DEF Begin, Programs, Writing, End, Last

\* A program grows by a write, which is then its end.
LEMMA Grows ==
  ASSUME NEW A, NEW p \in Programs(A), NEW d \in Disks(A), NEW full \in Modes
  PROVE  LET q == Append(p, Writing(d, full))
         IN  q \in Programs(A) /\ q # <<>> /\ End(q) = d
<1> DEFINE W == [to : Disks(A), full : Modes]
           w == Writing(d, full)
<1>1. w \in W /\ w.to = d
  BY DEF Writing
<1>2. p \in Seq(W)
  BY DEF Programs, Modes
<1> HIDE DEF W, w
<1>3. Append(p, w) \in Seq(W) /\ Append(p, w) # <<>> /\ Append(p, w)[Len(Append(p, w))] = w
  BY <1>1, <1>2, AppendProperties
<1> USE DEF W, w
<1> QED
  BY <1>1, <1>3 DEF End, Last, Programs, Modes

\* ... by each kind of write.
LEMMA GrowsBy ==
  ASSUME NEW A, NEW p \in Programs(A), NEW d \in Disks(A)
  PROVE  /\ Put(p, d) \in Programs(A) /\ Put(p, d) # <<>>
         /\ Erase(p, d) \in Programs(A) /\ Erase(p, d) # <<>>
         /\ Aside(p, d) \in Programs(A) /\ Aside(p, d) # <<>>
BY Grows DEF Put, Erase, Aside, Modes

LEMMA Tails ==
  ASSUME NEW A, NEW p \in Programs(A), p # <<>>
  PROVE  Tail(p) \in Programs(A) /\ Head(p).to \in Disks(A)
<1> DEFINE W == [to : Disks(A), full : Modes]
<1>1. p \in Seq(W)
  BY DEF Programs, Modes
<1>2. \A w \in W : w.to \in Disks(A)
  OBVIOUS
<1> HIDE DEF W
<1>3. Tail(p) \in Seq(W) /\ Head(p) \in W
  BY <1>1, HeadTailProperties
<1> USE DEF W
<1> QED
  BY <1>2, <1>3 DEF Programs, Modes

LEMMA EndIs ==
  ASSUME NEW A, NEW p \in Programs(A), p # <<>>
  PROVE  End(p) \in Disks(A)
<1> DEFINE W == [to : Disks(A), full : Modes]
<1>1. p \in Seq(W)
  BY DEF Programs, Modes
<1>2. \A w \in W : w.to \in Disks(A)
  OBVIOUS
<1> HIDE DEF W
<1>3. Len(p) \in 1..Len(p)
  BY <1>1, EmptySeq, LenProperties
<1>4. p[Len(p)] \in W
  BY <1>1, <1>3, ElementOfSeq
<1> USE DEF W
<1> QED
  BY <1>2, <1>4 DEF End, Last

\* More sign-ins leave the honest ones honest.
LEMMA MoreHonest ==
  ASSUME NEW A, NEW B, A \subseteq B
  PROVE  Disks(A) \subseteq Disks(B) /\ Programs(A) \subseteq Programs(B)
<1>1. Rams(A) \subseteq Rams(B)
  BY DEF Rams
<1>2. Disks(A) \subseteq Disks(B)
  BY <1>1 DEF Disks
<1>3. [to : Disks(A), full : Modes] \subseteq [to : Disks(B), full : Modes]
  BY <1>2
<1>4. Programs(A) \subseteq Programs(B)
  BY <1>3, SeqMonotonic DEF Programs, Modes
<1> QED
  BY <1>2, <1>4

\* What a search is signed with was given by the server it goes to.
LEMMA TokenIsHome ==
  ASSUME disk \in Disks(Honest)
  PROVE  /\ Token(disk) \in Nat
         /\ Token(disk) # 0 => Token(disk) \in DOMAIN home /\ home[Token(disk)] = disk.ram.server
<1>1. disk.ram.auth \in Honest
  BY DEF Disks, Rams
<1>2. disk.ram.auth \in Auths
  BY <1>1 DEF Honest
<1> QED
  BY <1>1, <1>2 DEF Honest, Token, Auths

\* Nobody's sign-in is honest, and so is the one a server has just given.
LEMMA Given ==
  ASSUME home \in Seq(Servers)
  PROVE  /\ NoAuth \in Honest
         /\ \A n \in DOMAIN home : [server |-> home[n], token |-> n] \in Honest
<1>1. NoAuth \in Honest
  BY DEF NoAuth, Honest, Auths, Places
<1>2. ASSUME NEW n \in DOMAIN home PROVE [server |-> home[n], token |-> n] \in Honest
  <2>1. n \in Nat /\ home[n] \in Servers
    BY <1>2, ElementOfSeq, LenProperties
  <2> QED
    BY <2>1, <1>2 DEF Honest, Auths, Places
<1> QED
  BY <1>1, <1>2

-----------------------------------------------------------------------------
(* What keeps the invariant. *)

\* A step that starts no sign-in and sends nothing keeps the invariant when
\* it leaves honest records and writes.
LEMMA Keeps ==
  ASSUME Inv, UNCHANGED home, approved' \subseteq DOMAIN home, UNCHANGED sent,
         up' \in {"ready", "latched", "off"}, faults' \in 0..MaxFaults,
         doing' \in {Nothing} \cup [op : {"callback", "sign out", "settings"}],
         disk' \in Disks(Honest), todo' \in Programs(Honest)
  PROVE  Inv'
<1>1. Honest' = Honest
  BY DEF Honest
<1>2. Held'
  BY <1>1 DEF Held, Disks, Programs, Rams, Places
<1>3. Types'
  BY DEF Inv, Types, Places
<1>4. SentHome'
  BY DEF Inv, SentHome
<1> QED
  BY <1>2, <1>3, <1>4 DEF Inv

\* A change of the memory alone.
LEMMA Recalled ==
  ASSUME Inv, NEW ram \in Rams(Honest), Remembers(ram)
  PROVE  /\ disk' \in Disks(Honest) /\ todo' \in Programs(Honest)
         /\ UNCHANGED <<up, todo, doing, faults>>
<1>1. disk \in Disks(Honest) /\ todo \in Programs(Honest)
  BY DEF Inv, Held
<1>2. [disk EXCEPT !.ram = ram] \in Disks(Honest)
  BY <1>1 DEF Disks
<1> QED
  BY <1>1, <1>2 DEF Remembers

\* ... that starts no sign-in and sends nothing.
LEMMA RecalledKeeps ==
  ASSUME Inv, NEW ram \in Rams(Honest), Remembers(ram), UNCHANGED <<home, approved, sent>>
  PROVE  Inv'
<1>1. /\ disk' \in Disks(Honest) /\ todo' \in Programs(Honest)
      /\ UNCHANGED <<up, todo, doing, faults>>
  BY Recalled
<1> QED
  BY <1>1, Keeps DEF Inv, Types

\* A request that writes.
LEMMA AskedFor ==
  ASSUME Inv, NEW name \in {"callback", "sign out", "settings"}, NEW p \in Programs(Honest),
         p # <<>>, Asks(name, p)
  PROVE  /\ disk' \in Disks(Honest) /\ todo' \in Programs(Honest)
         /\ doing' \in {Nothing} \cup [op : {"callback", "sign out", "settings"}]
         /\ UNCHANGED <<up, faults>>
<1>1. disk \in Disks(Honest) /\ Tail(p) \in Programs(Honest)
  BY Tails DEF Inv, Held
<1>2. [op |-> name] \in [op : {"callback", "sign out", "settings"}]
  OBVIOUS
<1> QED
  BY <1>1, <1>2 DEF Asks, Does

LEMMA NoWrites ==
  ASSUME NEW A
  PROVE  <<>> \in Programs(A)
BY EmptySeq DEF Programs

LEMMA RamKept ==
  ASSUME NEW A, NEW d \in Disks(A)
  PROVE  d.ram \in Rams(A)
BY DEF Disks

\* The programs of writes: a sign-in,
LEMMA SignsIn ==
  ASSUME Inv, NEW n \in DOMAIN home
  PROVE  SignedIn(home[n], n) \in Programs(Honest) /\ SignedIn(home[n], n) # <<>>
<1> DEFINE s == home[n]
           auth == [server |-> s, token |-> n]
           first == [disk EXCEPT !.auth = auth]
           kept == Put(Begin, first)
           both == Append(kept, Writing([End(kept) EXCEPT !.server = s], "undo"))
           last == Ended([End(both) EXCEPT !.ram.auth = auth, !.ram.server = s, !.ram.apps = {},
                                           !.ram.cache = <<>>])
<1>1. disk \in Disks(Honest) /\ home \in Seq(Servers)
  BY DEF Inv, Held, Types
<1>2. auth \in Honest /\ s \in Places
  BY <1>1, Given, ElementOfSeq, LenProperties DEF Places
<1>3. Begin \in Programs(Honest)
  BY <1>1, Begins
<1>4. first \in Disks(Honest)
  BY <1>1, <1>2, RamKept, Fields
<1>5. kept \in Programs(Honest) /\ End(kept) = first
  BY <1>3, <1>4, Grows DEF Put, Modes
<1>6. [first EXCEPT !.server = s] \in Disks(Honest)
  BY <1>4, <1>2, RamKept, Fields
<1>7. both \in Programs(Honest) /\ End(both) = [first EXCEPT !.server = s]
  <2> HIDE DEF kept, first
  <2> QED
    BY <1>5, <1>6, Grows DEF Modes
<1>8. last \in Disks(Honest)
  <2> DEFINE e == End(both)
             r == [e.ram EXCEPT !.auth = auth, !.server = s, !.apps = {}, !.cache = <<>>, !.flow = NoFlow]
  <2>1. e \in Disks(Honest) /\ e.ram \in Rams(Honest)
    BY <1>6, <1>7 DEF Disks
  <2>2. <<>> \in Seq([key : Keys, token : Nat])
    BY EmptySeq
  <2>3. r \in Rams(Honest)
    BY <2>1, <2>2, <1>2 DEF Rams, NoFlow
  <2> HIDE DEF e
  <2>4. Ended([e EXCEPT !.ram.auth = auth, !.ram.server = s, !.ram.apps = {}, !.ram.cache = <<>>])
          = [e EXCEPT !.ram = r]
    BY <2>1 DEF Ended, Disks, Rams
  <2>5. [e EXCEPT !.ram = r] \in Disks(Honest)
    BY <2>1, <2>3 DEF Disks
  <2> USE DEF e
  <2> QED
    BY <2>4, <2>5
<1>9. Aside(both, last) \in Programs(Honest) /\ Aside(both, last) # <<>>
  <2> HIDE DEF both, last
  <2> QED
    BY <1>7, <1>8, GrowsBy
<1>10. SignedIn(home[n], n) = Aside(both, last)
  BY DEF SignedIn
<1> QED
  BY <1>9, <1>10

\* ... a sign-out,
LEMMA SignsOut ==
  ASSUME Inv
  PROVE  LET gone == [disk EXCEPT !.ram.auth = NoAuth]
             p == Erase(Aside(Begin, gone), [gone EXCEPT !.auth = NoAuth])
             q == Aside(p, [End(p) EXCEPT !.ram.cache = <<>>])
         IN  q \in Programs(Honest) /\ q # <<>>
<1> DEFINE gone == [disk EXCEPT !.ram.auth = NoAuth]
           erased == [gone EXCEPT !.auth = NoAuth]
           o == Aside(Begin, gone)
           p == Erase(o, erased)
           last == [erased EXCEPT !.ram.cache = <<>>]
<1>1. disk \in Disks(Honest) /\ NoAuth \in Honest /\ Off \in Places
  BY Given DEF Inv, Held, Types, Places
<1>2. disk.ram \in Rams(Honest)
  BY <1>1, RamKept
<1>3. gone \in Disks(Honest)
  BY <1>1, <1>2, Fields
<1>4. gone.ram \in Rams(Honest)
  BY <1>3, RamKept
<1>5. erased \in Disks(Honest)
  BY <1>1, <1>3, <1>4, Fields
<1>6. last \in Disks(Honest)
  BY <1>5, EmptySeq, RamFields
<1>7. o \in Programs(Honest)
  BY <1>1, <1>3, Begins, Grows DEF Aside, Modes
<1>8. p \in Programs(Honest) /\ End(p) = erased
  BY <1>7, <1>5, Grows DEF Erase, Modes
<1>9. Aside(p, last) \in Programs(Honest) /\ Aside(p, last) # <<>>
  <2> HIDE DEF p, last
  <2> QED
    BY <1>8, <1>6, GrowsBy
<1> QED
  BY <1>8, <1>9

\* ... the settings,
LEMMA Chooses ==
  ASSUME Inv, NEW s \in Places
  PROVE  LET p == Put(Begin, [disk EXCEPT !.server = s])
             q == Aside(p, [End(p) EXCEPT !.ram.server = s])
         IN  q \in Programs(Honest) /\ q # <<>>
<1> DEFINE chosen == [disk EXCEPT !.server = s]
           p == Put(Begin, chosen)
           last == [chosen EXCEPT !.ram.server = s]
<1>1. disk \in Disks(Honest) /\ NoAuth \in Honest
  BY Given DEF Inv, Held, Types
<1>2. disk.ram \in Rams(Honest)
  BY <1>1, RamKept
<1>3. chosen \in Disks(Honest)
  BY <1>1, <1>2, Fields
<1>4. chosen.ram \in Rams(Honest)
  BY <1>3, RamKept
<1>5. last \in Disks(Honest)
  BY <1>1, <1>3, <1>4, Fields
<1>6. p \in Programs(Honest) /\ End(p) = chosen
  BY <1>1, <1>3, Begins, Grows DEF Put, Modes
<1>7. Aside(p, last) \in Programs(Honest) /\ Aside(p, last) # <<>>
  <2> HIDE DEF p, last
  <2> QED
    BY <1>5, <1>6, GrowsBy
<1> QED
  BY <1>6, <1>7

\* ... and the end of a sign-in that no longer fits.
LEMMA Undoes ==
  ASSUME Inv
  PROVE  Tail(Aside(Begin, Ended(disk))) \in Programs(Honest)
<1>1. disk \in Disks(Honest)
  BY DEF Inv, Held
<1>2. Ended(disk) \in Disks(Honest)
  BY <1>1, EmptySeq, RamFields DEF Ended, NoFlow
<1>3. Begin \in Programs(Honest)
  BY <1>1, Begins
<1>4. Aside(Begin, Ended(disk)) \in Programs(Honest) /\ Aside(Begin, Ended(disk)) # <<>>
  BY <1>2, <1>3, Grows DEF Aside, Modes
<1> QED
  BY <1>4, Tails

-----------------------------------------------------------------------------
(* Each action keeps the invariant. *)

LEMMA InitInv == ASSUME SearchAssumption, Init PROVE Inv
<1>1. PICK s \in Servers : disk =
        [auth |-> NoAuth, server |-> s,
         ram |-> [auth |-> NoAuth, server |-> s, flow |-> NoFlow, apps |-> {}, cache |-> <<>>]]
  BY DEF Init
<1>2. home \in Seq(Servers) /\ todo \in Programs(Honest)
  BY EmptySeq, NoWrites DEF Init
<1>3. NoAuth \in Honest
  BY <1>2, Given
<1>4. [auth |-> NoAuth, server |-> s, flow |-> NoFlow, apps |-> {}, cache |-> <<>>] \in Rams(Honest)
  BY <1>3, EmptySeq DEF Rams, Places, NoFlow
<1>5. disk \in Disks(Honest)
  BY <1>1, <1>3, <1>4 DEF Disks, Places
<1>6. Types
  BY <1>2 DEF Init, Types, SearchAssumption
<1>7. SentHome
  BY DEF Init, SentHome
<1> QED
  BY <1>2, <1>5, <1>6, <1>7 DEF Inv, Held

LEMMA SearchKeeps ==
  ASSUME SearchAssumption, Inv, NEW k \in Keys, Search(k)
  PROVE  Inv'
<1> DEFINE E == [key : Keys, token : Nat]
           held == disk.ram.cache
           room == IF Len(held) < MaxCache THEN held ELSE Tail(held)
           found == [key |-> k, token |-> Token(disk)]
           ram == [disk.ram EXCEPT !.cache = Append(room, found)]
<1>1. disk \in Disks(Honest)
  BY DEF Inv, Held
<1>2. disk.ram \in Rams(Honest) /\ held \in Seq(E)
  BY <1>1, RamKept DEF Rams
<1>3. Token(disk) \in Nat /\ (Token(disk) # 0 => Token(disk) \in DOMAIN home
                                                  /\ home[Token(disk)] = disk.ram.server)
  BY <1>1, TokenIsHome
<1>4. found \in E
  BY <1>3
<1>5. room \in Seq(E)
  <2> HIDE DEF E
  <2>1. CASE Len(held) < MaxCache
    BY <2>1, <1>2
  <2>2. CASE ~(Len(held) < MaxCache)
    <3>1. Len(held) \in Nat /\ held # <<>>
      BY <2>2, <1>2, LenProperties, EmptySeq DEF SearchAssumption
    <3> QED
      BY <2>2, <3>1, <1>2, HeadTailProperties
  <2> QED
    BY <2>1, <2>2
<1>6. Append(room, found) \in Seq(E)
  <2> HIDE DEF E, room, found
  <2> QED
    BY <1>4, <1>5, AppendProperties
<1>7. ram \in Rams(Honest)
  <2> HIDE DEF room, found
  <2> QED
    BY <1>2, <1>6 DEF Rams
<1>8. Remembers(ram)
  BY DEF Search
<1>9. /\ disk' \in Disks(Honest) /\ todo' \in Programs(Honest)
      /\ UNCHANGED <<up, todo, doing, faults>>
  <2> HIDE DEF ram
  <2> QED
    BY <1>7, <1>8, Recalled
<1>10. /\ sent' = sent \cup {<<Token(disk), disk.ram.server>>}
       /\ UNCHANGED <<home, approved>>
  BY DEF Search
<1>11. disk.ram.server \in Places
  BY <1>2 DEF Rams
<1>12. Honest' = Honest
  BY <1>10 DEF Honest
<1>13. Held'
  BY <1>9, <1>12 DEF Held, Disks, Programs, Rams, Places
<1>14. Types'
  <2>0. <<Token(disk), disk.ram.server>> \in Nat \X Places
    BY <1>3, <1>11
  <2>1. sent' \subseteq Nat \X Places
    BY <2>0, <1>10 DEF Inv, Types
  <2> QED
    BY <2>1, <1>9, <1>10 DEF Inv, Types, Places
<1>15. SentHome'
  BY <1>10, <1>3 DEF Inv, SentHome
<1> QED
  BY <1>13, <1>14, <1>15 DEF Inv

LEMMA StaleKeeps ==
  ASSUME Inv, NEW k \in Keys, Stale(k)
  PROVE  Inv'
<1> DEFINE E == [key : Keys, token : Nat]
           held == disk.ram.cache
<1>1. PICK i \in DOMAIN held : Remembers([disk.ram EXCEPT !.cache = RemoveAt(@, i)])
  BY DEF Stale
<1>2. disk.ram \in Rams(Honest)
  BY RamKept DEF Inv, Held
<1>3. held \in Seq(E)
  BY <1>2 DEF Rams
<1>4. RemoveAt(held, i) \in Seq(E)
  <2> HIDE DEF E, held
  <2>1. i \in 1..Len(held) /\ Len(held) \in Nat /\ \A j \in 1..Len(held) : held[j] \in E
    BY <1>3, LenProperties, ElementOfSeq
  <2>2. SubSeq(held, 1, i - 1) \in Seq(E)
    <3>1. 1 \in Int /\ i - 1 \in Int /\ \A j \in 1..(i - 1) : held[j] \in E
      BY <2>1
    <3> QED
      BY <3>1, SubSeqProperties
  <2>3. SubSeq(held, i + 1, Len(held)) \in Seq(E)
    <3>1. i + 1 \in Int /\ Len(held) \in Int /\ \A j \in (i + 1)..Len(held) : held[j] \in E
      BY <2>1
    <3> QED
      BY <3>1, SubSeqProperties
  <2> QED
    BY <2>2, <2>3, ConcatProperties DEF RemoveAt
<1>5. [disk.ram EXCEPT !.cache = RemoveAt(@, i)] \in Rams(Honest)
  BY <1>2, <1>4 DEF Rams
<1>6. UNCHANGED <<home, approved, sent>>
  BY DEF Stale
<1> QED
  BY <1>1, <1>5, <1>6, RecalledKeeps

\* A sign-in that starts names its server; the ones before keep theirs.
LEMMA StartLoginKeeps ==
  ASSUME Inv, NEW s \in Servers, StartLogin(s)
  PROVE  Inv'
<1> DEFINE ram == [disk.ram EXCEPT !.flow = Len(home) + 1,
                                   !.apps = IF HasApp(disk, s) THEN @ ELSE {s}]
<1>1. home \in Seq(Servers) /\ disk.ram \in Rams(Honest)
  BY RamKept DEF Inv, Held, Types
<1>2. Len(home) \in Nat
  BY <1>1, LenProperties
<1>3. ram \in Rams(Honest)
  <2> DEFINE apps == IF HasApp(disk, s) THEN disk.ram.apps ELSE {s}
             flow == Len(home) + 1
  <2>1. apps \in SUBSET Servers /\ flow \in Nat
    BY <1>1, <1>2 DEF Rams
  <2>2. ram = [disk.ram EXCEPT !.flow = flow, !.apps = apps]
    BY <1>1 DEF Rams
  <2> HIDE DEF apps, flow
  <2>3. [disk.ram EXCEPT !.flow = flow, !.apps = apps] \in Rams(Honest)
    BY <1>1, <2>1 DEF Rams
  <2> QED
    BY <2>2, <2>3
<1>4. Remembers(ram) /\ home' = Append(home, s) /\ UNCHANGED <<approved, sent>>
  BY DEF StartLogin
<1>5. /\ disk' \in Disks(Honest) /\ todo' \in Programs(Honest)
      /\ UNCHANGED <<up, todo, doing, faults>>
  <2> HIDE DEF ram
  <2> QED
    BY <1>3, <1>4, Recalled
<1>6. home' \in Seq(Servers) /\ DOMAIN home \subseteq DOMAIN home'
      /\ \A n \in DOMAIN home : home'[n] = home[n]
  BY <1>1, <1>2, <1>4, AppendProperties, LenProperties
<1>7. Honest \subseteq Honest'
  BY <1>6 DEF Honest, Auths, Places
<1>8. Disks(Honest) \subseteq Disks(Honest') /\ Programs(Honest) \subseteq Programs(Honest')
  BY <1>7, MoreHonest
<1>9. Held'
  BY <1>5, <1>8 DEF Held, Disks, Programs, Rams, Places
<1>10. Types'
  BY <1>4, <1>5, <1>6 DEF Inv, Types, Places
<1>11. SentHome'
  BY <1>4, <1>6 DEF Inv, SentHome
<1> QED
  BY <1>9, <1>10, <1>11 DEF Inv

LEMMA RegisterFailsKeeps ==
  ASSUME Inv, NEW s \in Servers, RegisterFails(s)
  PROVE  Inv'
<1>1. disk.ram \in Rams(Honest)
  BY RamKept DEF Inv, Held
<1>2. [disk.ram EXCEPT !.apps = {}] \in Rams(Honest)
  BY <1>1 DEF Rams
<1> QED
  BY <1>2, RecalledKeeps DEF RegisterFails

LEMMA ApproveKeeps ==
  ASSUME Inv, NEW n \in DOMAIN home, Approve(n)
  PROVE  Inv'
BY Keeps DEF Approve, Inv, Types, Held, wvars

\* The code goes to the server of the sign-in, which gives the token.
LEMMA CallbackKeeps ==
  ASSUME Inv, NEW n \in DOMAIN home, Callback(n)
  PROVE  Inv'
<1>1. disk.ram \in Rams(Honest) /\ home \in Seq(Servers) /\ Flow(disk) = n
  BY RamKept DEF Inv, Held, Types, Callback, Current
<1>2. UNCHANGED <<home, approved>>
  BY DEF Callback
<1>3. CASE Asks("callback", SignedIn(home[n], n)) /\ sent' = sent \cup {<<n, home[n]>>}
  <2>1. /\ disk' \in Disks(Honest) /\ todo' \in Programs(Honest)
        /\ doing' \in {Nothing} \cup [op : {"callback", "sign out", "settings"}]
        /\ UNCHANGED <<up, faults>>
    BY <1>3, SignsIn, AskedFor
  <2>2. n \in Nat /\ home[n] \in Places
    BY <1>1, ElementOfSeq, LenProperties DEF Places
  <2>3. Honest' = Honest
    BY <1>2 DEF Honest
  <2>4. Held'
    BY <2>1, <2>3 DEF Held, Disks, Programs, Rams, Places
  <2>5. Types'
    <3>0. <<n, home[n]>> \in Nat \X Places
      BY <2>2
    <3>1. sent' \subseteq Nat \X Places
      BY <3>0, <1>3 DEF Inv, Types
    <3> QED
      BY <3>1, <2>1, <1>2 DEF Inv, Types, Places
  <2>6. SentHome'
    BY <1>2, <1>3 DEF Inv, SentHome
  <2> QED
    BY <2>4, <2>5, <2>6 DEF Inv
<1>4. CASE Remembers(Ended(disk).ram) /\ UNCHANGED sent
  <2>1. Ended(disk) \in Disks(Honest)
    BY EmptySeq, RamFields DEF Ended, NoFlow, Inv, Held
  <2>2. Ended(disk).ram \in Rams(Honest)
    BY <2>1, RamKept
  <2> QED
    BY <2>2, <1>2, <1>4, RecalledKeeps
<1> QED
  BY <1>1, <1>3, <1>4 DEF Callback

LEMMA LapseKeeps ==
  ASSUME Inv, Lapse
  PROVE  Inv'
<1>1. Ended(disk) \in Disks(Honest)
  BY EmptySeq, RamFields DEF Ended, NoFlow, Inv, Held
<1>2. Ended(disk).ram \in Rams(Honest)
  BY <1>1, RamKept
<1> QED
  BY <1>2, RecalledKeeps DEF Lapse

LEMMA SignOutKeeps ==
  ASSUME Inv, SignOut
  PROVE  Inv'
<1> DEFINE gone == [disk EXCEPT !.ram.auth = NoAuth]
           p == Erase(Aside(Begin, gone), [gone EXCEPT !.auth = NoAuth])
           q == Aside(p, [End(p) EXCEPT !.ram.cache = <<>>])
<1>1. q \in Programs(Honest) /\ q # <<>>
  BY SignsOut
<1>2. Asks("sign out", q) /\ UNCHANGED <<home, approved, sent>>
  BY DEF SignOut
<1> HIDE DEF q
<1>3. /\ disk' \in Disks(Honest) /\ todo' \in Programs(Honest)
      /\ doing' \in {Nothing} \cup [op : {"callback", "sign out", "settings"}]
      /\ UNCHANGED <<up, faults>>
  BY <1>1, <1>2, AskedFor
<1> QED
  BY <1>2, <1>3, Keeps DEF Inv, Types

LEMMA ChooseKeeps ==
  ASSUME Inv, NEW s \in Servers \cup {Off}, Choose(s)
  PROVE  Inv'
<1> DEFINE p == Put(Begin, [disk EXCEPT !.server = s])
           q == Aside(p, [End(p) EXCEPT !.ram.server = s])
<1>1. q \in Programs(Honest) /\ q # <<>>
  BY Chooses DEF Places
<1>2. Asks("settings", q) /\ UNCHANGED <<home, approved, sent>>
  BY DEF Choose
<1> HIDE DEF q
<1>3. /\ disk' \in Disks(Honest) /\ todo' \in Programs(Honest)
      /\ doing' \in {Nothing} \cup [op : {"callback", "sign out", "settings"}]
      /\ UNCHANGED <<up, faults>>
  BY <1>1, <1>2, AskedFor
<1> QED
  BY <1>2, <1>3, Keeps DEF Inv, Types

\* A start reads the records into a fresh memory.
LEMMA BootKeeps ==
  ASSUME Inv, Boot
  PROVE  Inv'
<1> DEFINE ram == [auth |-> disk.auth, server |-> disk.server, flow |-> NoFlow,
                   apps |-> {}, cache |-> <<>>]
<1>1. disk \in Disks(Honest)
  BY DEF Inv, Held
<1>2. ram \in Rams(Honest)
  BY <1>1, EmptySeq DEF Disks, Rams, NoFlow
<1>3. [disk EXCEPT !.ram = ram] \in Disks(Honest)
  <2> HIDE DEF ram
  <2> QED
    BY <1>1, <1>2 DEF Disks
<1>4. disk' = [disk EXCEPT !.ram = ram] /\ up' = "ready"
      /\ UNCHANGED <<todo, doing, faults, home, approved, sent>>
  BY DEF Boot
<1> HIDE DEF ram
<1> QED
  BY <1>3, <1>4, Keeps DEF Inv, Types, Held

\* A write, a full flash, a failed write and a power cut.
LEMMA WriteKeeps ==
  ASSUME SearchAssumption, Inv, UNCHANGED <<home, approved, sent>>,
         Step \/ Full(Aside(Begin, Ended(disk))) \/ Breaks \/ PowerCut
  PROVE  Inv'
<1>1. disk \in Disks(Honest) /\ todo \in Programs(Honest) /\ faults \in 0..MaxFaults
      /\ <<>> \in Programs(Honest)
  BY NoWrites DEF Inv, Held, Types
<1>2. todo # <<>> => Tail(todo) \in Programs(Honest) /\ Head(todo).to \in Disks(Honest)
  BY <1>1, Tails
<1>3. Fault => faults' \in 0..MaxFaults
  BY <1>1 DEF Fault, SearchAssumption
<1>4. CASE Step
  BY <1>1, <1>2, <1>4, Keeps DEF Step, Stepping, Inv, Types
<1>5. CASE Full(Aside(Begin, Ended(disk)))
  <2>1. disk' \in Disks(Honest) /\ todo' \in Programs(Honest)
    BY <1>1, <1>5, Undoes DEF Full, Ends
  <2>2. /\ doing' \in {Nothing, doing} /\ up' \in {up, "latched"}
        /\ faults' \in 0..MaxFaults
    BY <1>3, <1>5 DEF Full, Ends
  <2> QED
    BY <2>1, <2>2, Keeps DEF Inv, Types
<1>6. CASE Breaks
  BY <1>1, <1>2, <1>3, <1>6, Keeps DEF Breaks, Stepping, Ends, Inv, Types
<1>7. CASE PowerCut
  BY <1>1, <1>3, <1>7, Keeps DEF PowerCut, Ends, Inv, Types
<1> QED
  BY <1>4, <1>5, <1>6, <1>7

LEMMA StutterKeeps ==
  ASSUME Inv, UNCHANGED vars
  PROVE  Inv'
BY Keeps DEF vars, wvars, Inv, Types, Held

-----------------------------------------------------------------------------
(* Every behaviour. *)

\* The invariant holds in every state of a run.
THEOREM InvHolds == ASSUME SearchAssumption PROVE Spec => []Inv
<1>1. Init => Inv
  BY InitInv
<1>2. Inv /\ [Next]_vars => Inv'
  BY SearchKeeps, StaleKeeps, StartLoginKeeps, RegisterFailsKeeps, ApproveKeeps,
     CallbackKeeps, LapseKeeps, SignOutKeeps, ChooseKeeps, BootKeeps, WriteKeeps, StutterKeeps
     DEF Next
<1> QED
  BY <1>1, <1>2, PTL DEF Spec

\* The records, the memory and the writes still to be made have their types.
THEOREM TypeCorrect == ASSUME SearchAssumption PROVE Spec => []TypeOK
<1>1. Inv => TypeOK
  <2>1. Honest \subseteq Auths
    BY DEF Honest
  <2>2. Disks(Honest) \subseteq Disks(Auths) /\ Programs(Honest) \subseteq Programs(Auths)
    BY <2>1, MoreHonest
  <2> QED
    BY <2>2 DEF Inv, Held, Types, TypeOK
<1> QED
  BY <1>1, InvHolds, PTL

\* A token is only ever sent to the server that gave it (search_token,
\* login_done and the boot), for any servers, sign-ins and faults.
THEOREM TokenHome == ASSUME SearchAssumption PROVE Spec => []TokenStaysHome
<1>1. Inv => TokenStaysHome
  BY DEF Inv, SentHome, TokenStaysHome
<1> QED
  BY <1>1, InvHolds, PTL
=============================================================================
