------------------------------- MODULE Access -------------------------------
(***************************************************************************)
(* Passwords, keys, tokens and codes of one member slot of a household:    *)
(* domain/accounts.rs, codes.rs, oauth.rs, local_tokens.rs, dm.rs and what *)
(* build in domain/mod.rs makes of their records at boot.  A request is a  *)
(* program of single durable writes (see Writes).                          *)
(***************************************************************************)
EXTENDS Writes

CONSTANTS Passwords,     \* what a member may choose
          Apps,          \* clients that may register
          MaxApps,       \* MAX_APPS
          MaxSessions,   \* MAX_TOKENS_PER_ACCOUNT
          MaxKeys,       \* MAX_API_KEYS_PER_ACCOUNT
          MaxCodes,      \* MAX_CODES_LIVE
          Failures,      \* auth::LOCKOUT_FAILURES
          MaxId,         \* bound: ids, secrets and codes drawn
          MaxEpoch       \* bound: sign-outs of one account

AccessAssumption ==
  {MaxApps, MaxSessions, MaxKeys, MaxCodes, Failures, MaxId} \subseteq Nat \ {0}

VARIABLES pending,   \* authorization codes (RAM)
          recent,    \* the tokens, least recently used first (RAM)
          wrong,     \* failed sign-ins in a row (RAM); Failures locks the name
          next,      \* the next id
          cut,       \* tokens up to this id were signed out or belong to a deleted member
          spent      \* how often each code was redeemed

vars == <<wvars, pending, recent, wrong, next, cut, spent>>

Local == "local"     \* LOCAL_APP
NoKey == [id |-> 0, secret |-> 0, pw |-> ""]
NoAccount == [id |-> 0, pw |-> "", epoch |-> 0, dead |-> FALSE, sealed |-> NoKey]
Keys == [id : 0..MaxId, secret : 0..MaxId, pw : Passwords \cup {""}]

Exists(d) == d.acct.id # 0 /\ ~d.acct.dead
Target(c, d) == c.kind = "invite" \/ (Exists(d) /\ c.acct = d.acct.id)

\* The id of the tokens whose description says API key.
ApiKeys(d) == {l.id : l \in {l \in d.local : l.kind = "key"}}
Sessions(d) == {t \in d.toks : t.id \notin ApiKeys(d)}

(***************************************************************************)
(* What build makes of the records it finds.                               *)
(***************************************************************************)
KeyAt(d) == LET k == IF d.acct.sealed = NoKey THEN d.key ELSE d.acct.sealed
            IN IF Exists(d) /\ k.id = d.acct.id THEN k ELSE NoKey
Described(d) == {t \in d.toks : (t.app = Local) => \E l \in d.local : l.id = t.id}
Valid(d) == {t \in d.toks : /\ Exists(d) /\ t.epoch = d.acct.epoch
                            /\ t.app \in d.apps \cup {Local}}
Booted(d) ==
  LET kept == Described([d EXCEPT !.toks = Valid(d)])
      ids == {t.id : t \in kept}
      a == IF Exists(d) THEN d.acct ELSE NoAccount
  IN [acct |-> a, key |-> KeyAt(d), apps |-> d.apps, toks |-> kept,
      local |-> {l \in d.local : l.id \in {t.id : t \in {t \in kept : t.app = Local}}},
      seals |-> {s \in d.seals : s.tok \in ids},
      codes |-> {c \in d.codes : Target(c, d)}]

Forget(p, t) ==
  LET d1 == [End(p) EXCEPT !.toks = @ \ {t}]
      d2 == [d1 EXCEPT !.local = {l \in @ : l.id # t.id}]
      d3 == [d2 EXCEPT !.seals = {s \in @ : s.tok # t.id}]
      steps == <<d1>> \o (IF d2 = d1 THEN <<>> ELSE <<d2>>) \o (IF d3 = d2 THEN <<>> ELSE <<d3>>)
  IN FoldLeft(Erase, p, steps)
ForgetAll(p, ts) == FoldLeft(Forget, p, SetToSeq(ts))
ForgetStale(p) == ForgetAll(p, {t \in End(p).toks : t.epoch # End(p).acct.epoch})

Asks(name, p) == Does([op |-> name, code |-> 0], p)
Redeems(code, p) == Does([op |-> "redeem", code |-> code], p)
Draws(n) == next + n - 1 <= MaxId /\ next' = next + n
Rest == UNCHANGED <<cut, spent>>
Quiet == UNCHANGED wvars /\ Rest

\* check_password, told the right password: refused while the name is locked.
SignIn == /\ Ready /\ Exists(disk) /\ wrong < Failures
          /\ wrong' = 0
WrongPassword == /\ Ready /\ wrong < Failures
                 /\ wrong' = wrong + 1
                 /\ UNCHANGED <<pending, recent, next>> /\ Quiet

(***************************************************************************)
(* Passwords and the key pair.                                             *)
(***************************************************************************)
Sealed(secret, pw) == [id |-> disk.acct.id, secret |-> secret, pw |-> pw]

\* Mutant: a full flash after the commit leaves the service as it is.
KeyWriteStops(p, k) == Put(p, [End(p) EXCEPT !.key = k])
KeyWrite(p, k) == Append(p, Writing([End(p) EXCEPT !.key = k], "latch"))

Commits(p, pw, k) == Put(p, [End(p) EXCEPT !.acct.pw = pw, !.acct.epoch = @ + 1, !.acct.sealed = k])
ReplacePassword(p, pw, k) == ForgetStale(KeyWrite(Commits(p, pw, k), k))

\* prepare_password_key: the old password opens the secret.
SameSecret(k) == IF k = NoKey THEN next ELSE k.secret
ChangePassword(pw) ==
  /\ Ready /\ Exists(disk) /\ disk.acct.epoch < MaxEpoch
  /\ Asks("change", ReplacePassword(Begin, pw, Sealed(SameSecret(KeyAt(disk)), pw)))
  /\ Draws(1)
  /\ UNCHANGED <<pending, recent, wrong>> /\ Rest

\* Mutant: the tokens are forgotten one by one, without a new epoch.
OneByOne == ForgetAll(Begin, disk.toks)
SignedOut == ForgetStale(Put(Begin, [disk EXCEPT !.acct.epoch = @ + 1, !.acct.sealed = NoKey]))
SignOutEverywhere ==
  /\ Ready /\ Exists(disk) /\ disk.acct.epoch < MaxEpoch
  /\ Asks("sign out", SignedOut)
  /\ UNCHANGED <<pending, recent, wrong, next>> /\ Rest

UpdateProfile ==
  /\ Ready /\ Exists(disk)
  /\ Asks("profile", Put(Begin, [disk EXCEPT !.acct.sealed = NoKey]))
  /\ UNCHANGED <<pending, recent, wrong, next>> /\ Rest

(***************************************************************************)
(* Codes.  A code past its seven days has the flag old.                    *)
(***************************************************************************)
OldestCode(d) == CHOOSE c \in d.codes : \A o \in d.codes : c.id <= o.id
IssueCode(kind) ==
  /\ Ready /\ (kind = "reset" => Exists(disk))
  /\ LET a == IF kind = "reset" THEN disk.acct.id ELSE 0
         stale == {c \in disk.codes : c.old \/ (kind = "reset" /\ c.kind = kind /\ c.acct = a)}
         swept == FoldLeft(LAMBDA p, c : Erase(p, [End(p) EXCEPT !.codes = @ \ {c}]), Begin, SetToSeq(stale))
         roomy == IF Cardinality(End(swept).codes) < MaxCodes THEN swept
                  ELSE Erase(swept, [End(swept) EXCEPT !.codes = @ \ {OldestCode(End(swept))}])
     IN Asks("issue", Put(roomy, [End(roomy) EXCEPT !.codes =
               @ \cup {[id |-> next, kind |-> kind, acct |-> a, old |-> FALSE]}]))
  /\ Draws(1)
  /\ UNCHANGED <<pending, recent, wrong>> /\ Rest

Usable(c) == c \in disk.codes /\ ~c.old /\ Target(c, disk)
RevokeCode(c) ==
  /\ Ready /\ c \in disk.codes
  /\ Asks("revoke code", Erase(Begin, [disk EXCEPT !.codes = @ \ {c}]))
  /\ UNCHANGED <<pending, recent, wrong, next>> /\ Rest

Spends(c) == Erase(Begin, [disk EXCEPT !.codes = @ \ {c}])
NewAccount(pw) == [NoAccount EXCEPT !.id = next, !.pw = pw]
RedeemInvite(c, pw) ==
  /\ Ready /\ Usable(c) /\ c.kind = "invite"
  /\ disk.acct.id = 0     \* free_slot
  /\ LET p == Spends(c)
         made == Put(p, [End(p) EXCEPT !.acct = NewAccount(pw)])
     IN Redeems(c.id,
             Put(made, [End(made) EXCEPT !.key = [id |-> next, secret |-> next + 1, pw |-> pw]]))
  /\ Draws(2)
  /\ UNCHANGED <<pending, recent, wrong>> /\ Rest
RedeemReset(c, pw) ==
  /\ Ready /\ Usable(c) /\ c.kind = "reset"
  /\ Redeems(c.id, ReplacePassword(Spends(c), pw, Sealed(next, pw)))
  /\ Draws(1)
  /\ UNCHANGED <<pending, recent, wrong>> /\ Rest

(***************************************************************************)
(* Apps, authorization codes and tokens.                                   *)
(***************************************************************************)
Unused(d) == {a \in d.apps : \A t \in d.toks : t.app # a}
RegisterApp(a) ==
  /\ Ready /\ a \notin disk.apps
  /\ \/ /\ Cardinality(disk.apps) < MaxApps
        /\ Asks("register", Put(Begin, [disk EXCEPT !.apps = @ \cup {a}]))
     \/ /\ Cardinality(disk.apps) >= MaxApps
        /\ \E old \in Unused(disk) :
             LET p == Erase(Begin, [disk EXCEPT !.apps = @ \ {old}])
             IN Asks("register", Put(p, [End(p) EXCEPT !.apps = @ \cup {a}]))
  /\ UNCHANGED <<pending, recent, wrong, next>> /\ Rest

\* A sign-in opens the member's key, or makes one for a member without.
Authorize(a) ==
  /\ a \in disk.apps /\ SignIn
  /\ LET k == KeyAt(disk)
     IN \/ /\ k # NoKey
           /\ Asks("authorize", Begin)
           /\ pending' = pending \cup {[id |-> next, app |-> a, secret |-> k.secret]}
        \/ /\ k = NoKey
           /\ Asks("authorize", Put(Begin, [disk EXCEPT !.key = Sealed(next, disk.acct.pw)]))
           /\ pending' = pending \cup {[id |-> next, app |-> a, secret |-> next]}
  /\ Draws(1)
  /\ UNCHANGED recent /\ Rest

\* A code that ran out, or came with the wrong proof: spent for nothing.
WasteCode(c) ==
  /\ Ready /\ c \in pending
  /\ pending' = pending \ {c}
  /\ UNCHANGED <<recent, wrong, next>> /\ Quiet

Idlest(ts) == CHOOSE t \in ts : \E i \in DOMAIN recent :
                recent[i] = t.id /\ \A u \in ts : \E j \in DOMAIN recent : recent[j] = u.id /\ i <= j
RoomFor(p) == IF Cardinality(Sessions(disk)) < MaxSessions THEN p
              ELSE Forget(p, Idlest(Sessions(disk)))
NewToken(app) == [id |-> next, app |-> app, epoch |-> disk.acct.epoch]
WithToken(p, app) == Put(p, [End(p) EXCEPT !.toks = @ \cup {NewToken(app)}])
Uses(t) == recent' = Append(SelectSeq(recent, LAMBDA u : u # t), t)

ExchangeCode(c) ==
  /\ Ready /\ c \in pending /\ c.app \in disk.apps /\ Exists(disk)
  /\ pending' = pending \ {c}
  /\ LET p == WithToken(RoomFor(Begin), c.app)
     IN Asks("exchange",
             IF c.secret = 0 THEN p
             ELSE Put(p, [End(p) EXCEPT !.seals =
                            @ \cup {[tok |-> next, acct |-> disk.acct.id, secret |-> c.secret]}]))
  /\ Uses(next) /\ Draws(1)
  /\ UNCHANGED wrong /\ Rest

\* issue_local: the token, then its description; refused, the token goes.
WithLocal(p, kind) ==
  LET q == WithToken(p, Local)
  IN Append(q, Writing([End(q) EXCEPT !.local = @ \cup {[id |-> next, kind |-> kind]}], "undo"))
CreateKey ==
  /\ SignIn
  /\ Cardinality(ApiKeys(disk)) < MaxKeys
  /\ Asks("key", WithLocal(Begin, "key"))
  /\ Uses(next) /\ Draws(1) /\ UNCHANGED pending /\ Rest
\* create_bot_api_key: the key of the same name is replaced.
ReplaceKey ==
  /\ SignIn
  /\ Asks("replace", WithLocal(ForgetAll(Begin, {t \in disk.toks : t.id \in ApiKeys(disk)}), "key"))
  /\ Uses(next) /\ Draws(1) /\ UNCHANGED pending /\ Rest
BrowserSession ==
  /\ SignIn
  /\ Asks("browser", WithLocal(RoomFor(Begin), "web"))
  /\ Uses(next) /\ Draws(1) /\ UNCHANGED pending /\ Rest
Revoke(t) ==
  /\ Ready /\ t \in disk.toks
  /\ Asks("revoke", Forget(Begin, t))
  /\ UNCHANGED <<pending, recent, wrong, next>> /\ Rest

\* principal
Resolves(t, d) == t \in d.toks /\ Exists(d) /\ t.epoch = d.acct.epoch
UseToken(t) ==
  /\ Ready /\ Resolves(t, disk)
  /\ Uses(t.id) /\ recent' # recent
  /\ UNCHANGED <<pending, wrong, next>> /\ Quiet

\* delete_account: the tombstone, then purge_account's share of this slot.
DeleteMember ==
  /\ Ready /\ Exists(disk)
  /\ LET dead == Put(Begin, [disk EXCEPT !.acct.dead = TRUE, !.acct.sealed = NoKey])
         bare == ForgetAll(dead, disk.toks)
         keyless == Erase(bare, [End(bare) EXCEPT !.key = NoKey])
         coded == Erase(keyless, [End(keyless) EXCEPT !.codes = {c \in @ : c.kind = "invite"}])
     IN Asks("delete", Erase(coded, [End(coded) EXCEPT !.acct = NoAccount]))
  /\ UNCHANGED <<pending, recent, wrong, next>> /\ Rest

(***************************************************************************)
(* Writes and their failures.                                              *)
(***************************************************************************)
SignsOut == doing.op \in {"change", "sign out", "delete"} \/ disk.acct.epoch # Head(todo).to.acct.epoch
Creates == Head(todo).to.acct.id \notin {0, disk.acct.id} \/ Head(todo).to.acct.epoch > disk.acct.epoch
Write ==
  /\ Step
  /\ cut' = IF SignsOut /\ disk.acct.id # 0 THEN next - 1 ELSE cut
  /\ spent' = IF Creates /\ doing.op = "redeem"
              THEN [spent EXCEPT ![doing.code] = @ + 1] ELSE spent
  /\ UNCHANGED <<pending, recent, wrong, next>>

Keep == UNCHANGED <<wrong, next, cut, spent>>
Undescribed == {t \in disk.toks : t.app = Local /\ \A l \in disk.local : l.id # t.id}
Refused ==
  /\ Full(ForgetAll(Begin, Undescribed))
  /\ pending' = IF doing.op = "authorize" THEN {[c EXCEPT !.secret = 0] : c \in pending} ELSE pending
  /\ UNCHANGED recent /\ Keep
Fails == Breaks /\ UNCHANGED <<pending, recent>> /\ Keep
Stops ==
  /\ PowerCut
  /\ pending' = {} /\ recent' = <<>> /\ wrong' = 0
  /\ UNCHANGED <<next, cut, spent>>

\* A boot finishes its repairs, or is cut off after some of the erasures.
Boot ==
  /\ up = "off"
  /\ disk' = Booted(disk) /\ up' = "ready"
  /\ recent' = SetToSortSeq({t.id : t \in disk'.toks}, <)
  /\ UNCHANGED <<todo, doing, pending, faults>> /\ Keep
BootCut ==
  /\ up = "off" /\ Fault
  /\ \E gone \in SUBSET (disk.toks \ Booted(disk).toks) :
       disk' = [disk EXCEPT !.toks = @ \ gone,
                            !.key = IF KeyAt(disk) = NoKey THEN @ ELSE KeyAt(disk)]
  /\ UNCHANGED <<up, todo, doing, pending, recent>> /\ Keep

Unlock ==     \* the lockout runs out
  /\ Ready /\ wrong = Failures /\ wrong' = 0
  /\ UNCHANGED <<pending, recent, next>> /\ Quiet
Age ==        \* seven days pass
  /\ Ready /\ \E c \in disk.codes : ~c.old
  /\ disk' = [disk EXCEPT !.codes = {[c EXCEPT !.old = TRUE] : c \in @}]
  /\ UNCHANGED <<up, todo, doing, pending, recent, faults>> /\ Keep

Init ==
  /\ \E pw \in Passwords :
       disk = [acct |-> [NoAccount EXCEPT !.id = 1, !.pw = pw], key |-> [id |-> 1, secret |-> 2, pw |-> pw],
               apps |-> {}, toks |-> {}, local |-> {}, seals |-> {}, codes |-> {}]
  /\ up = "ready" /\ todo = <<>> /\ doing = Nothing /\ pending = {} /\ recent = <<>>
  /\ wrong = 0 /\ next = 3 /\ cut = 2 /\ spent = [i \in 1..MaxId |-> 0] /\ faults = 0

Next ==
  \/ WrongPassword \/ SignOutEverywhere \/ UpdateProfile \/ DeleteMember
  \/ \E pw \in Passwords : ChangePassword(pw) \/ \E c \in disk.codes : RedeemInvite(c, pw) \/ RedeemReset(c, pw)
  \/ \E kind \in {"invite", "reset"} : IssueCode(kind)
  \/ \E c \in disk.codes : RevokeCode(c)
  \/ \E a \in Apps : RegisterApp(a) \/ Authorize(a)
  \/ \E c \in pending : WasteCode(c) \/ ExchangeCode(c)
  \/ CreateKey \/ ReplaceKey \/ BrowserSession
  \/ \E t \in disk.toks : Revoke(t) \/ UseToken(t)
  \/ Write \/ Refused \/ Fails \/ Stops \/ Boot \/ BootCut \/ Unlock \/ Age

Spec == Init /\ [][Next]_vars

(***************************************************************************)
(* Properties.                                                             *)
(***************************************************************************)
TypeOK ==
  /\ up \in {"ready", "latched", "off"}
  /\ disk.acct.sealed \in Keys /\ disk.key \in Keys
  /\ Cardinality(Sessions(disk)) <= MaxSessions + 1
  /\ Cardinality(disk.codes) <= MaxCodes

\* Wherever the power goes, the key that a boot would load opens with the
\* password that it would accept: a change of password never locks a member out
\* of the direct messages (replace_password's two records and their repair).
KeyOpens ==
  LET d == Booted(disk) IN d.key # NoKey => d.key.pw = d.acct.pw /\ d.key.id = d.acct.id

\* The secret of a member is only replaced by redeeming a reset code.
SecretKeptStep ==
  LET d == Booted(disk)
      e == Booted(disk')
  IN /\ Exists(d) /\ Exists(e) /\ d.acct.id = e.acct.id /\ d.key # NoKey
     /\ doing.op # "redeem"
     => e.key.secret = d.key.secret
SecretKept == [][SecretKeptStep]_vars

\* Once any part of a sign-out, a change of password or a deletion is durable,
\* no token from before it is accepted, before or after a boot (the epoch in
\* the account record decides, whatever is left of the tokens).
SignedOutStaysOut ==
  Ready => \A t \in disk.toks : t.id <= cut => ~Resolves(t, disk)

\* A code makes one member or sets one password, wherever the power goes.
CodeOnce == \A i \in DOMAIN spent : spent[i] <= 1

\* While requests are served, each local token has its description, each
\* description and seal its token, and each token its app.
Paired ==
  Ready => LET ids == {t.id : t \in disk.toks} IN
    /\ Undescribed = {}
    /\ \A l \in disk.local : l.id \in ids
    /\ \A s \in disk.seals : s.tok \in ids /\ s.acct = disk.acct.id
    /\ \A t \in disk.toks : t.app \in disk.apps \cup {Local}

\* An API key is never evicted: it goes when it is revoked or replaced, or
\* with everything else the member has.
KeysStayStep ==
  \A t \in disk.toks : t.id \in ApiKeys(disk) /\ t \notin disk'.toks /\ up = "ready" /\ todo # <<>>
    => doing.op \in {"revoke", "replace", "change", "sign out", "delete", "redeem"}
KeysStay == [][KeysStayStep]_vars
=============================================================================
