----------------------------- MODULE Enrollment -----------------------------
(***************************************************************************)
(* Resumable setup of one trading bot on two servers (enrollment.rs of     *)
(* mastomini_bots): an account and an API key on NanaCoin, an account and  *)
(* an API key on the household.  The worker journals generated credentials *)
(* in a draft; every request or its answer may be lost, the draft may fail *)
(* to be saved, and the device may restart at any step.  The household's   *)
(* side is create_bot_member and create_bot_api_key; NanaCoin's is taken   *)
(* from the requests the worker makes.                                     *)
(***************************************************************************)
EXTENDS Naturals, FiniteSets

CONSTANTS MaxFaults,   \* bound: lost requests and answers, failed saves, restarts
          MaxPasses    \* bound: how often the admin starts or resumes the setup or removes a key

EnrollmentAssumption == {MaxFaults, MaxPasses} \subseteq Nat

Servers == {"nc", "mm"}

VARIABLES pc,      \* where the worker is; "idle" between passes
          draft,   \* the draft the worker holds
          disk,    \* the draft in the store
          cfg,     \* the keys in the bot's record: 0 if none
          account, \* the account with the bot's username on each server
          keys,    \* the live keys of that account that the setup created
          fresh,   \* the last password and the last key that were generated
          passes, faults

vars == <<pc, draft, disk, cfg, account, keys, fresh, passes, faults>>

\* A password or a key is a number.  Password 0 is another person's.
None     == 0
NoDraft  == [pw |-> None, id |-> [s \in Servers |-> FALSE], key |-> [s \in Servers |-> None]]
Absent   == [exists |-> FALSE, pw |-> None]
Others   == [exists |-> TRUE, pw |-> None]
Ours(pw) == [exists |-> TRUE, pw |-> pw]

Steps == {"idle", "preflight", "connect", "account", "accountSave", "proof", "key", "keySave", "verify"}

MaxFresh == 2 * MaxPasses + 1

TypeOK ==
    /\ pc \in [step : Steps, at : Servers]
    /\ {draft, disk} \subseteq [pw : 0..MaxPasses, id : [Servers -> BOOLEAN],
                                key : [Servers -> 0..MaxFresh]]
    /\ cfg \in [Servers -> 0..MaxFresh]
    /\ account \in [Servers -> [exists : BOOLEAN, pw : 0..MaxPasses]]
    /\ keys \in [Servers -> SUBSET (1..MaxFresh)]
    /\ \A s \in Servers : Cardinality(keys[s]) <= 1
    /\ fresh \in [pw : 0..MaxPasses, key : 0..MaxFresh]
    /\ passes \in 0..MaxPasses /\ faults \in 0..MaxFaults

Init ==
    /\ pc = [step |-> "idle", at |-> "nc"]
    /\ draft = NoDraft /\ disk = NoDraft
    /\ cfg = [s \in Servers |-> None]
    /\ account \in [Servers -> {Absent, Others}]
    /\ keys = [s \in Servers |-> {}]
    /\ fresh = [pw |-> 0, key |-> 0] /\ passes = 0 /\ faults = 0

Idle == [pc EXCEPT !.step = "idle"]
Go(step, s) == pc' = [step |-> step, at |-> s]

Fault == faults < MaxFaults /\ faults' = faults + 1

-----------------------------------------------------------------------------
(* A pass. *)

\* start: refused while a pass is under way.
Start ==
    /\ pc.step = "idle" /\ passes < MaxPasses /\ passes' = passes + 1
    /\ Go("preflight", "nc")
    /\ UNCHANGED <<draft, disk, cfg, account, keys, fresh, faults>>

\* execute: the username is taken on a server and no draft says it is ours.
Taken == \E s \in Servers : cfg[s] = None /\ account[s].exists /\ disk = NoDraft

\* execute: logins, member lists, capacities.  Any of these requests may fail.
Preflight ==
    /\ pc.step = "preflight"
    /\ \/ Taken /\ pc' = Idle /\ UNCHANGED faults
       \/ ~Taken /\ Go("connect", "nc") /\ UNCHANGED faults
       \/ Fault /\ pc' = Idle
    /\ UNCHANGED <<draft, disk, cfg, account, keys, fresh, passes>>

\* Mutant: the draft is first saved once the account exists.
ConnectUnsaved ==
    /\ pc.step = "connect"
    /\ draft' = IF disk = NoDraft THEN [NoDraft EXCEPT !.pw = fresh.pw + 1] ELSE disk
    /\ fresh' = IF disk = NoDraft THEN [fresh EXCEPT !.pw = @ + 1] ELSE fresh
    /\ Go("account", "nc") /\ UNCHANGED <<disk, faults, cfg, account, keys, passes>>

\* connect: the draft of an earlier pass, or one with a new password; it is
\* durable before the first request that creates anything.
Connect ==
    /\ pc.step = "connect"
    /\ draft' = IF disk = NoDraft THEN [NoDraft EXCEPT !.pw = fresh.pw + 1] ELSE disk
    /\ fresh' = IF disk = NoDraft THEN [fresh EXCEPT !.pw = @ + 1] ELSE fresh
    /\ \/ disk' = draft' /\ Go("account", "nc") /\ UNCHANGED faults
       \/ Fault /\ pc' = Idle /\ UNCHANGED disk
    /\ UNCHANGED <<cfg, account, keys, passes>>

\* Does the server still need a key?  Not if the record or the draft has one.
Needs(s) == draft.key[s] = None /\ cfg[s] = None

AfterServer(s) == IF s = "nc" THEN Go("account", "mm") ELSE Go("verify", "mm")

\* connect: a server that needs nothing is passed over.
Skip ==
    /\ pc.step = "account" /\ ~Needs(pc.at) /\ AfterServer(pc.at)
    /\ UNCHANGED <<draft, disk, cfg, account, keys, fresh, passes, faults>>

\* The login with the draft's password (nana_login), or the password check of
\* create_bot_member and create_bot_api_key.
Proof(s) == account[s].pw = draft.pw

\* connect: create the account, or recover one whose answer was lost by proving
\* its password.  The answer may be lost again.
MakeAccount ==
    LET s == pc.at
        ok == ~account[s].exists \/ Proof(s)
    IN  /\ pc.step = "account" /\ Needs(s) /\ ~draft.id[s]
        /\ \/ /\ account' = IF account[s].exists THEN account
                            ELSE [account EXCEPT ![s] = Ours(draft.pw)]
              /\ \/ /\ ok /\ draft' = [draft EXCEPT !.id[s] = TRUE]
                    /\ Go("accountSave", s) /\ UNCHANGED faults
                 \/ ~ok /\ pc' = Idle /\ UNCHANGED <<draft, faults>>
                 \/ Fault /\ pc' = Idle /\ UNCHANGED draft
           \/ Fault /\ pc' = Idle /\ UNCHANGED <<account, draft>>
        /\ UNCHANGED <<disk, cfg, keys, fresh, passes>>

\* An account the draft already names.
HaveAccount ==
    /\ pc.step = "account" /\ Needs(pc.at) /\ draft.id[pc.at] /\ Go("proof", pc.at)
    /\ UNCHANGED <<draft, disk, cfg, account, keys, fresh, passes, faults>>

Save(step, next) ==
    /\ pc.step = step
    /\ \/ disk' = draft /\ next /\ UNCHANGED faults
       \/ Fault /\ pc' = Idle /\ UNCHANGED disk
    /\ UNCHANGED <<draft, cfg, account, keys, fresh, passes>>

SaveAccount == Save("accountSave", Go("proof", pc.at))

\* connect: the account must still open with the draft's password.
Prove ==
    /\ pc.step = "proof"
    /\ \/ Proof(pc.at) /\ Go("key", pc.at) /\ UNCHANGED faults
       \/ ~Proof(pc.at) /\ pc' = Idle /\ UNCHANGED faults
       \/ Fault /\ pc' = Idle
    /\ UNCHANGED <<draft, disk, cfg, account, keys, fresh, passes>>

\* NanaCoin keeps one key per account; create_bot_api_key forgets the keys of
\* the enrollment's own name before it makes one.
WithKey(s, k) == [keys EXCEPT ![s] = {k}]

\* connect: a new key.  It is shown once: if the answer is lost, so is the key.
MakeKey ==
    LET s == pc.at
        k == fresh.key + 1
    IN  /\ pc.step = "key" /\ k <= MaxFresh
        /\ \/ /\ keys' = WithKey(s, k) /\ fresh' = [fresh EXCEPT !.key = k]
              /\ \/ draft' = [draft EXCEPT !.key[s] = k] /\ Go("keySave", s) /\ UNCHANGED faults
                 \/ Fault /\ pc' = Idle /\ UNCHANGED draft
           \/ Fault /\ pc' = Idle /\ UNCHANGED <<keys, fresh, draft>>
        /\ UNCHANGED <<disk, cfg, account, passes>>

SaveKey == Save("keySave", AfterServer(pc.at))

\* connect: the key the record already has, or the draft's.
KeyFor(s) == IF cfg[s] # None THEN cfg[s] ELSE draft.key[s]

\* connect: both keys are tried, then written to the bot's record with the bot
\* turned off, unless the record had both.
Finish ==
    /\ pc.step = "verify" /\ pc' = Idle
    /\ \/ /\ \A s \in Servers : KeyFor(s) \in keys[s]
          /\ cfg' = [s \in Servers |-> KeyFor(s)] /\ UNCHANGED faults
       \/ /\ \E s \in Servers : KeyFor(s) \notin keys[s]
          /\ UNCHANGED <<cfg, faults>>
       \/ Fault /\ UNCHANGED cfg
    /\ UNCHANGED <<draft, disk, account, keys, fresh, passes>>

\* The admin removes a key from the bot's record between two passes (the admin
\* site refuses it during one).
Clear(s) ==
    /\ pc.step = "idle" /\ cfg[s] # None /\ passes < MaxPasses /\ passes' = passes + 1
    /\ cfg' = [cfg EXCEPT ![s] = None]
    /\ UNCHANGED <<pc, draft, disk, account, keys, fresh, faults>>

\* The device restarts: the journal and the record are left.
Restart ==
    /\ Fault /\ pc' = Idle /\ draft' = NoDraft
    /\ UNCHANGED <<disk, cfg, account, keys, fresh, passes>>

\* Someone else takes the username on a server.
SomeoneElse(s) ==
    /\ ~account[s].exists /\ account' = [account EXCEPT ![s] = Others] /\ Fault
    /\ UNCHANGED <<pc, draft, disk, cfg, keys, fresh, passes>>

Next ==
    \/ Start \/ Preflight \/ Connect \/ Skip \/ MakeAccount \/ HaveAccount \/ SaveAccount
    \/ Prove \/ MakeKey \/ SaveKey \/ Finish \/ Restart
    \/ \E s \in Servers : SomeoneElse(s) \/ Clear(s)

Spec == Init /\ [][Next]_vars

-----------------------------------------------------------------------------
(* Properties. *)

\* "An intent durable before any remote write" (enrollment.rs:75): whatever was
\* lost, an account the setup created opens with the password in the draft, and
\* the next pass is not refused because the account exists.
Resumable ==
    \A s \in Servers : account[s].pw # None =>
        /\ disk.pw = account[s].pw
        /\ (\A t \in Servers : account[t] # Others) => ~Taken

\* A key that the record or the journal holds is the live one: a key replaced by
\* a later attempt is never the one that was kept, and no attempt leaves a second
\* key behind (TypeOK counts them).
KeptKeysLive ==
    \A s \in Servers : /\ cfg[s] # None => cfg[s] \in keys[s]
                       /\ disk.key[s] # None => disk.key[s] \in keys[s]

\* "Recover a successful create whose response was lost, proving ownership"
\* (enrollment.rs:569): the setup makes no key for an account that someone else
\* has under the bot's name, taken before the setup, between its steps or between
\* two passes.
OthersUntouched == \A s \in Servers : account[s] = Others => keys[s] = {}

\* What the setup promises of the bot's accounts and keys.
SetupHolds == TypeOK /\ Resumable /\ KeptKeysLive /\ OthersUntouched
=============================================================================
