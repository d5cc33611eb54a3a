-------------------------- MODULE EnrollmentProofs --------------------------
(***************************************************************************)
(* Proofs about Enrollment, for any number of faults and of passes: the    *)
(* inductive invariant that ties the worker's draft to the journal and to  *)
(* the accounts, and from it that a setup can always be resumed, that the  *)
(* kept keys are the live ones and that nobody else's account is used.     *)
(***************************************************************************)
EXTENDS Enrollment, TLAPS, FiniteSetTheorems

\* A draft names a password as soon as there is one.
Drafted == disk.pw = None => disk = NoDraft

\* What a pass holds is what the journal holds, up to the one answer that is
\* about to be saved.
Journaled ==
    /\ pc.step \in Steps \ {"idle", "preflight", "connect"} => disk.pw # None
    /\ pc.step \in {"account", "proof", "key", "verify"} => draft = disk
    /\ pc.step = "accountSave" => draft = [disk EXCEPT !.id = [@ EXCEPT ![pc.at] = TRUE]]
    /\ pc.step = "keySave" => /\ draft = [disk EXCEPT !.key = [@ EXCEPT ![pc.at] = fresh.key]]
                              /\ keys[pc.at] = {fresh.key}

\* An account the setup made opens with the password in the journal.
Opens ==
    \A s \in Servers :
        /\ account[s].pw # None => account[s].exists /\ account[s].pw = disk.pw
        /\ keys[s] # {} => account[s].pw # None

\* A key is made for a server that has none, and only after the account there
\* proved the journal's password.
Wanted ==
    /\ pc.step \in {"accountSave", "proof", "key", "keySave"} =>
           disk.key[pc.at] = None /\ cfg[pc.at] = None
    /\ pc.step \in {"key", "keySave"} => account[pc.at].pw # None

\* One key for each account.
OneKey == \A s \in Servers : keys[s] = {} \/ \E k \in 1..MaxFresh : keys[s] = {k}

\* One password for each pass that was started.
Counted ==
    /\ fresh.pw <= passes
    /\ pc.step \in {"preflight", "connect"} => fresh.pw < passes

Types ==
    /\ pc \in [step : Steps, at : Servers]
    /\ draft \in [pw : 0..MaxPasses, id : [Servers -> BOOLEAN], key : [Servers -> 0..MaxFresh]]
    /\ disk \in [pw : 0..MaxPasses, id : [Servers -> BOOLEAN], key : [Servers -> 0..MaxFresh]]
    /\ cfg \in [Servers -> 0..MaxFresh]
    /\ account \in [Servers -> [exists : BOOLEAN, pw : 0..MaxPasses]]
    /\ keys \in [Servers -> SUBSET (1..MaxFresh)]
    /\ fresh \in [pw : 0..MaxPasses, key : 0..MaxFresh]
    /\ passes \in 0..MaxPasses
    /\ faults \in 0..MaxFaults

Inv == Types /\ Drafted /\ Journaled /\ Opens /\ Wanted /\ OneKey /\ Counted /\ KeptKeysLive

-----------------------------------------------------------------------------
(* The initial states. *)

LEMMA InitInv ==
  ASSUME EnrollmentAssumption, Init
  PROVE  Inv
<1>0. MaxPasses \in Nat /\ MaxFaults \in Nat /\ 0 \in 0..MaxPasses /\ 0 \in 0..MaxFaults /\ 0 \in 0..MaxFresh
  BY DEF EnrollmentAssumption, MaxFresh
<1>1. Types
  <2>1. pc \in [step : Steps, at : Servers]
    BY DEF Init, Steps, Servers
  <2>2. /\ draft \in [pw : 0..MaxPasses, id : [Servers -> BOOLEAN], key : [Servers -> 0..MaxFresh]]
        /\ disk = draft
    BY <1>0 DEF Init, NoDraft, None
  <2>3. account \in [Servers -> [exists : BOOLEAN, pw : 0..MaxPasses]]
    <3>1. Absent \in [exists : BOOLEAN, pw : 0..MaxPasses] /\ Others \in [exists : BOOLEAN, pw : 0..MaxPasses]
      BY <1>0 DEF Absent, Others, None
    <3> QED
      BY <3>1 DEF Init
  <2>4. /\ cfg \in [Servers -> 0..MaxFresh] /\ keys \in [Servers -> SUBSET (1..MaxFresh)]
        /\ fresh \in [pw : 0..MaxPasses, key : 0..MaxFresh]
        /\ passes \in 0..MaxPasses /\ faults \in 0..MaxFaults
    BY <1>0 DEF Init, None
  <2> QED
    BY <2>1, <2>2, <2>3, <2>4 DEF Types
<1>2. Drafted /\ Journaled /\ Wanted /\ Counted
  BY <1>1 DEF Init, Types, Drafted, Journaled, Wanted, Counted
<1>3. Opens /\ OneKey /\ KeptKeysLive
  BY DEF Init, Opens, OneKey, KeptKeysLive, NoDraft, None, Absent, Others
<1> QED
  BY <1>1, <1>2, <1>3 DEF Inv

-----------------------------------------------------------------------------
(* The steps. *)

LEMMA StartKeeps ==
  ASSUME EnrollmentAssumption, Inv, Start
  PROVE  Inv'
<1>0. Types /\ Drafted /\ Journaled /\ Opens /\ Wanted /\ OneKey /\ Counted /\ KeptKeysLive
  BY DEF Inv
<1>1. Types'
  BY <1>0 DEF Start, Types, EnrollmentAssumption, MaxFresh, Go, Servers, Steps
<1>2. Drafted'
  BY <1>0 DEF Start, Drafted, Types, Go, Servers, Steps
<1>3. Journaled'
  BY <1>0 DEF Start, Journaled, Types, Go, Servers, Steps
<1>4. Opens'
  BY <1>0 DEF Start, Opens, Types, Go, Servers, Steps
<1>5. Wanted'
  BY <1>0 DEF Start, Wanted, Types, Go, Servers, Steps
<1>6. OneKey'
  BY <1>0 DEF Start, OneKey, Types, Go, Servers, Steps
<1>7. Counted'
  BY <1>0 DEF Start, Counted, Types, Go, Servers, Steps
<1>8. KeptKeysLive'
  BY <1>0 DEF Start, KeptKeysLive, Types, Go, Servers, Steps
<1> QED
  BY <1>1, <1>2, <1>3, <1>4, <1>5, <1>6, <1>7, <1>8 DEF Inv

LEMMA PreflightKeeps ==
  ASSUME EnrollmentAssumption, Inv, Preflight
  PROVE  Inv'
<1>0. Types /\ Drafted /\ Journaled /\ Opens /\ Wanted /\ OneKey /\ Counted /\ KeptKeysLive
  BY DEF Inv
<1>1. Types'
  BY <1>0 DEF Preflight, Types, EnrollmentAssumption, MaxFresh, Go, Idle, Fault, Servers, Steps
<1>2. Drafted'
  BY <1>0 DEF Preflight, Drafted, Types, Go, Idle, Fault, Servers, Steps
<1>3. Journaled'
  BY <1>0 DEF Preflight, Journaled, Types, Go, Idle, Fault, Servers, Steps
<1>4. Opens'
  BY <1>0 DEF Preflight, Opens, Types, Go, Idle, Fault, Servers, Steps
<1>5. Wanted'
  BY <1>0 DEF Preflight, Wanted, Types, Go, Idle, Fault, Servers, Steps
<1>6. OneKey'
  BY <1>0 DEF Preflight, OneKey, Types, Go, Idle, Fault, Servers, Steps
<1>7. Counted'
  BY <1>0 DEF Preflight, Counted, Types, Go, Idle, Fault, Servers, Steps
<1>8. KeptKeysLive'
  BY <1>0 DEF Preflight, KeptKeysLive, Types, Go, Idle, Fault, Servers, Steps
<1> QED
  BY <1>1, <1>2, <1>3, <1>4, <1>5, <1>6, <1>7, <1>8 DEF Inv

LEMMA ConnectKeeps ==
  ASSUME EnrollmentAssumption, Inv, Connect
  PROVE  Inv'
<1>0. Types /\ Drafted /\ Journaled /\ Opens /\ Wanted /\ OneKey /\ Counted /\ KeptKeysLive
  BY DEF Inv
<1>1. Types'
  <2>1. MaxPasses \in Nat /\ fresh.pw + 1 \in 0..MaxPasses
    BY <1>0 DEF Connect, Types, Counted, EnrollmentAssumption
  <2>7. 0 \in 0..MaxPasses /\ 0 \in 0..MaxFresh
    BY <2>1 DEF MaxFresh
  <2>2. /\ NoDraft \in [pw : 0..MaxPasses, id : [Servers -> BOOLEAN], key : [Servers -> 0..MaxFresh]]
        /\ [NoDraft EXCEPT !.pw = fresh.pw + 1] \in
             [pw : 0..MaxPasses, id : [Servers -> BOOLEAN], key : [Servers -> 0..MaxFresh]]
    BY <2>1, <2>7 DEF NoDraft, None
  <2>3. draft' \in [pw : 0..MaxPasses, id : [Servers -> BOOLEAN], key : [Servers -> 0..MaxFresh]]
    BY <1>0, <2>2 DEF Connect, Types
  <2>4. fresh' \in [pw : 0..MaxPasses, key : 0..MaxFresh]
    BY <1>0, <2>1 DEF Connect, Types
  <2>5. pc' \in [step : Steps, at : Servers]
    BY <1>0 DEF Connect, Types, Go, Idle, Steps, Servers
  <2>6. disk' \in {disk, draft'} /\ faults' \in 0..MaxFaults
    BY <1>0 DEF Connect, Types, Fault, EnrollmentAssumption
  <2> QED
    BY <1>0, <2>3, <2>4, <2>5, <2>6 DEF Connect, Types
<1>2. Drafted'
  BY <1>0 DEF Connect, Drafted, Types, Go, Idle, Fault, Servers, Steps, NoDraft, None, Counted, Opens
<1>3. Journaled'
  BY <1>0 DEF Connect, Journaled, Types, Go, Idle, Fault, Servers, Steps, NoDraft, None, Drafted, Counted, Opens
<1>4. Opens'
  BY <1>0 DEF Connect, Opens, Types, Go, Idle, Fault, Servers, Steps, NoDraft, None, Drafted, Counted
<1>5. Wanted'
  BY <1>0 DEF Connect, Wanted, Types, Go, Idle, Fault, Servers, Steps, NoDraft, None, Drafted, Counted, Opens
<1>6. OneKey'
  BY <1>0 DEF Connect, OneKey, Types, Go, Idle, Fault, Servers, Steps, NoDraft, None, Drafted, Counted, Opens
<1>7. Counted'
  BY <1>0 DEF Connect, Counted, Types, Go, Idle, Fault, Servers, Steps, NoDraft, None, Drafted, Opens
<1>8. KeptKeysLive'
  BY <1>0 DEF Connect, KeptKeysLive, Types, Go, Idle, Fault, Servers, Steps, NoDraft, None, Drafted, Counted, Opens
<1> QED
  BY <1>1, <1>2, <1>3, <1>4, <1>5, <1>6, <1>7, <1>8 DEF Inv

LEMMA SkipKeeps ==
  ASSUME EnrollmentAssumption, Inv, Skip
  PROVE  Inv'
<1>0. Types /\ Drafted /\ Journaled /\ Opens /\ Wanted /\ OneKey /\ Counted /\ KeptKeysLive
  BY DEF Inv
<1>1. Types'
  BY <1>0 DEF Skip, Types, EnrollmentAssumption, MaxFresh, Go, AfterServer, Servers, Steps
<1>2. Drafted'
  BY <1>0 DEF Skip, Drafted, Types, Go, AfterServer, Servers, Steps
<1>3. Journaled'
  BY <1>0 DEF Skip, Journaled, Types, Go, AfterServer, Servers, Steps
<1>4. Opens'
  BY <1>0 DEF Skip, Opens, Types, Go, AfterServer, Servers, Steps
<1>5. Wanted'
  BY <1>0 DEF Skip, Wanted, Types, Go, AfterServer, Servers, Steps
<1>6. OneKey'
  BY <1>0 DEF Skip, OneKey, Types, Go, AfterServer, Servers, Steps
<1>7. Counted'
  BY <1>0 DEF Skip, Counted, Types, Go, AfterServer, Servers, Steps
<1>8. KeptKeysLive'
  BY <1>0 DEF Skip, KeptKeysLive, Types, Go, AfterServer, Servers, Steps
<1> QED
  BY <1>1, <1>2, <1>3, <1>4, <1>5, <1>6, <1>7, <1>8 DEF Inv

LEMMA MakeAccountKeeps ==
  ASSUME EnrollmentAssumption, Inv, MakeAccount
  PROVE  Inv'
<1>0. Types /\ Drafted /\ Journaled /\ Opens /\ Wanted /\ OneKey /\ Counted /\ KeptKeysLive
  BY DEF Inv
<1>1. Types'
  <2>1. draft.pw \in 0..MaxPasses /\ pc.at \in Servers
    BY <1>0 DEF Types
  <2>2. account' \in [Servers -> [exists : BOOLEAN, pw : 0..MaxPasses]]
    <3>1. account' = account \/ account' = [account EXCEPT ![pc.at] = Ours(draft.pw)]
      BY DEF MakeAccount
    <3>2. Ours(draft.pw) \in [exists : BOOLEAN, pw : 0..MaxPasses]
      BY <2>1 DEF Ours
    <3> QED
      BY <1>0, <2>1, <3>1, <3>2 DEF Types
  <2>3. draft' \in [pw : 0..MaxPasses, id : [Servers -> BOOLEAN], key : [Servers -> 0..MaxFresh]]
    <3>1. draft' = draft \/ draft' = [draft EXCEPT !.id = [draft.id EXCEPT ![pc.at] = TRUE]]
      BY DEF MakeAccount
    <3>2. [draft.id EXCEPT ![pc.at] = TRUE] \in [Servers -> BOOLEAN]
      BY <1>0 DEF Types
    <3> QED
      BY <1>0, <3>1, <3>2 DEF Types
  <2>4. pc' \in [step : Steps, at : Servers] /\ faults' \in 0..MaxFaults
    BY <1>0, <2>1 DEF MakeAccount, Types, Go, Idle, Fault, Steps, EnrollmentAssumption
  <2> QED
    BY <1>0, <2>2, <2>3, <2>4 DEF MakeAccount, Types
<1>2. Drafted'
  BY <1>0 DEF MakeAccount, Drafted, Types, Go, Idle, Fault, Ours, Proof, Needs, None, Journaled, Servers, Steps
<1>3. Journaled'
  BY <1>0 DEF MakeAccount, Journaled, Types, Go, Idle, Fault, Ours, Proof, Needs, None, Servers, Steps
<1>4. Opens'
  BY <1>0 DEF MakeAccount, Opens, Types, Go, Idle, Fault, Ours, Proof, Needs, None, Journaled, Servers, Steps
<1>5. Wanted'
  BY <1>0 DEF MakeAccount, Wanted, Types, Go, Idle, Fault, Ours, Proof, Needs, None, Journaled, Servers, Steps
<1>6. OneKey'
  BY <1>0 DEF MakeAccount, OneKey, Types, Go, Idle, Fault, Ours, Proof, Needs, None, Journaled, Servers, Steps
<1>7. Counted'
  BY <1>0 DEF MakeAccount, Counted, Types, Go, Idle, Fault, Ours, Proof, Needs, None, Journaled, Servers, Steps
<1>8. KeptKeysLive'
  BY <1>0 DEF MakeAccount, KeptKeysLive, Types, Go, Idle, Fault, Ours, Proof, Needs, None, Journaled, Servers, Steps
<1> QED
  BY <1>1, <1>2, <1>3, <1>4, <1>5, <1>6, <1>7, <1>8 DEF Inv

LEMMA HaveAccountKeeps ==
  ASSUME EnrollmentAssumption, Inv, HaveAccount
  PROVE  Inv'
<1>0. Types /\ Drafted /\ Journaled /\ Opens /\ Wanted /\ OneKey /\ Counted /\ KeptKeysLive
  BY DEF Inv
<1>1. Types'
  BY <1>0 DEF HaveAccount, Types, EnrollmentAssumption, MaxFresh, Go, Needs, None, Servers, Steps, Journaled
<1>2. Drafted'
  BY <1>0 DEF HaveAccount, Drafted, Types, Go, Needs, None, Servers, Steps, Journaled
<1>3. Journaled'
  BY <1>0 DEF HaveAccount, Journaled, Types, Go, Needs, None, Servers, Steps
<1>4. Opens'
  BY <1>0 DEF HaveAccount, Opens, Types, Go, Needs, None, Servers, Steps, Journaled
<1>5. Wanted'
  BY <1>0 DEF HaveAccount, Wanted, Types, Go, Needs, None, Servers, Steps, Journaled
<1>6. OneKey'
  BY <1>0 DEF HaveAccount, OneKey, Types, Go, Needs, None, Servers, Steps, Journaled
<1>7. Counted'
  BY <1>0 DEF HaveAccount, Counted, Types, Go, Needs, None, Servers, Steps, Journaled
<1>8. KeptKeysLive'
  BY <1>0 DEF HaveAccount, KeptKeysLive, Types, Go, Needs, None, Servers, Steps, Journaled
<1> QED
  BY <1>1, <1>2, <1>3, <1>4, <1>5, <1>6, <1>7, <1>8 DEF Inv

LEMMA SaveAccountKeeps ==
  ASSUME EnrollmentAssumption, Inv, SaveAccount
  PROVE  Inv'
<1>0. Types /\ Drafted /\ Journaled /\ Opens /\ Wanted /\ OneKey /\ Counted /\ KeptKeysLive
  BY DEF Inv
<1>1. Types'
  BY <1>0 DEF SaveAccount, Types, EnrollmentAssumption, MaxFresh, Save, Go, Idle, Fault, None, NoDraft, Servers, Steps, Journaled
<1>2. Drafted'
  BY <1>0 DEF SaveAccount, Drafted, Types, Save, Go, Idle, Fault, None, NoDraft, Servers, Steps, Journaled
<1>3. Journaled'
  BY <1>0 DEF SaveAccount, Journaled, Types, Save, Go, Idle, Fault, None, NoDraft, Servers, Steps
<1>4. Opens'
  BY <1>0 DEF SaveAccount, Opens, Types, Save, Go, Idle, Fault, None, NoDraft, Servers, Steps, Journaled
<1>5. Wanted'
  BY <1>0 DEF SaveAccount, Wanted, Types, Save, Go, Idle, Fault, None, NoDraft, Servers, Steps, Journaled
<1>6. OneKey'
  BY <1>0 DEF SaveAccount, OneKey, Types, Save, Go, Idle, Fault, None, NoDraft, Servers, Steps, Journaled
<1>7. Counted'
  BY <1>0 DEF SaveAccount, Counted, Types, Save, Go, Idle, Fault, None, NoDraft, Servers, Steps, Journaled
<1>8. KeptKeysLive'
  BY <1>0 DEF SaveAccount, KeptKeysLive, Types, Save, Go, Idle, Fault, None, NoDraft, Servers, Steps, Journaled
<1> QED
  BY <1>1, <1>2, <1>3, <1>4, <1>5, <1>6, <1>7, <1>8 DEF Inv

LEMMA ProveKeeps ==
  ASSUME EnrollmentAssumption, Inv, Prove
  PROVE  Inv'
<1>0. Types /\ Drafted /\ Journaled /\ Opens /\ Wanted /\ OneKey /\ Counted /\ KeptKeysLive
  BY DEF Inv
<1>1. Types'
  BY <1>0 DEF Prove, Types, EnrollmentAssumption, MaxFresh, Go, Idle, Fault, Proof, None, Servers, Steps, Journaled
<1>2. Drafted'
  BY <1>0 DEF Prove, Drafted, Types, Go, Idle, Fault, Proof, None, Servers, Steps, Journaled
<1>3. Journaled'
  BY <1>0 DEF Prove, Journaled, Types, Go, Idle, Fault, Proof, None, Servers, Steps
<1>4. Opens'
  BY <1>0 DEF Prove, Opens, Types, Go, Idle, Fault, Proof, None, Servers, Steps, Journaled
<1>5. Wanted'
  BY <1>0 DEF Prove, Wanted, Types, Go, Idle, Fault, Proof, None, Servers, Steps, Journaled
<1>6. OneKey'
  BY <1>0 DEF Prove, OneKey, Types, Go, Idle, Fault, Proof, None, Servers, Steps, Journaled
<1>7. Counted'
  BY <1>0 DEF Prove, Counted, Types, Go, Idle, Fault, Proof, None, Servers, Steps, Journaled
<1>8. KeptKeysLive'
  BY <1>0 DEF Prove, KeptKeysLive, Types, Go, Idle, Fault, Proof, None, Servers, Steps, Journaled
<1> QED
  BY <1>1, <1>2, <1>3, <1>4, <1>5, <1>6, <1>7, <1>8 DEF Inv

LEMMA MakeKeyKeeps ==
  ASSUME EnrollmentAssumption, Inv, MakeKey
  PROVE  Inv'
<1>0. Types /\ Drafted /\ Journaled /\ Opens /\ Wanted /\ OneKey /\ Counted /\ KeptKeysLive
  BY DEF Inv
<1>1. Types'
  BY <1>0 DEF MakeKey, Types, EnrollmentAssumption, MaxFresh, Go, Idle, Fault, WithKey, None, Servers, Steps, Journaled, Wanted
<1>2. Drafted'
  BY <1>0 DEF MakeKey, Drafted, Types, Go, Idle, Fault, WithKey, None, Servers, Steps, Journaled, Wanted
<1>3. Journaled'
  BY <1>0 DEF MakeKey, Journaled, Types, Go, Idle, Fault, WithKey, None, Servers, Steps, Wanted
<1>4. Opens'
  BY <1>0 DEF MakeKey, Opens, Types, Go, Idle, Fault, WithKey, None, Servers, Steps, Journaled, Wanted
<1>5. Wanted'
  BY <1>0 DEF MakeKey, Wanted, Types, Go, Idle, Fault, WithKey, None, Servers, Steps, Journaled
<1>6. OneKey'
  BY <1>0 DEF MakeKey, OneKey, Types, Go, Idle, Fault, WithKey, None, Servers, Steps, Journaled, Wanted
<1>7. Counted'
  BY <1>0 DEF MakeKey, Counted, Types, Go, Idle, Fault, WithKey, None, Servers, Steps, Journaled, Wanted
<1>8. KeptKeysLive'
  BY <1>0 DEF MakeKey, KeptKeysLive, Types, Go, Idle, Fault, WithKey, None, Servers, Steps, Journaled, Wanted
<1> QED
  BY <1>1, <1>2, <1>3, <1>4, <1>5, <1>6, <1>7, <1>8 DEF Inv

LEMMA SaveKeyKeeps ==
  ASSUME EnrollmentAssumption, Inv, SaveKey
  PROVE  Inv'
<1>0. Types /\ Drafted /\ Journaled /\ Opens /\ Wanted /\ OneKey /\ Counted /\ KeptKeysLive
  BY DEF Inv
<1>1. Types'
  BY <1>0 DEF SaveKey, Types, EnrollmentAssumption, MaxFresh, Save, Go, AfterServer, Idle, Fault, None, NoDraft, Servers, Steps, Journaled, Wanted
<1>2. Drafted'
  BY <1>0 DEF SaveKey, Drafted, Types, Save, Go, AfterServer, Idle, Fault, None, NoDraft, Servers, Steps, Journaled, Wanted
<1>3. Journaled'
  BY <1>0 DEF SaveKey, Journaled, Types, Save, Go, AfterServer, Idle, Fault, None, NoDraft, Servers, Steps, Wanted
<1>4. Opens'
  BY <1>0 DEF SaveKey, Opens, Types, Save, Go, AfterServer, Idle, Fault, None, NoDraft, Servers, Steps, Journaled, Wanted
<1>5. Wanted'
  BY <1>0 DEF SaveKey, Wanted, Types, Save, Go, AfterServer, Idle, Fault, None, NoDraft, Servers, Steps, Journaled
<1>6. OneKey'
  BY <1>0 DEF SaveKey, OneKey, Types, Save, Go, AfterServer, Idle, Fault, None, NoDraft, Servers, Steps, Journaled, Wanted
<1>7. Counted'
  BY <1>0 DEF SaveKey, Counted, Types, Save, Go, AfterServer, Idle, Fault, None, NoDraft, Servers, Steps, Journaled, Wanted
<1>8. KeptKeysLive'
  BY <1>0 DEF SaveKey, KeptKeysLive, Types, Save, Go, AfterServer, Idle, Fault, None, NoDraft, Servers, Steps, Journaled, Wanted
<1> QED
  BY <1>1, <1>2, <1>3, <1>4, <1>5, <1>6, <1>7, <1>8 DEF Inv

LEMMA FinishKeeps ==
  ASSUME EnrollmentAssumption, Inv, Finish
  PROVE  Inv'
<1>0. Types /\ Drafted /\ Journaled /\ Opens /\ Wanted /\ OneKey /\ Counted /\ KeptKeysLive
  BY DEF Inv
<1>1. Types'
  BY <1>0 DEF Finish, Types, EnrollmentAssumption, MaxFresh, Idle, Fault, KeyFor, None, Servers, Steps, Journaled
<1>2. Drafted'
  BY <1>0 DEF Finish, Drafted, Types, Idle, Fault, KeyFor, None, Servers, Steps, Journaled
<1>3. Journaled'
  BY <1>0 DEF Finish, Journaled, Types, Idle, Fault, KeyFor, None, Servers, Steps
<1>4. Opens'
  BY <1>0 DEF Finish, Opens, Types, Idle, Fault, KeyFor, None, Servers, Steps, Journaled
<1>5. Wanted'
  BY <1>0 DEF Finish, Wanted, Types, Idle, Fault, KeyFor, None, Servers, Steps, Journaled
<1>6. OneKey'
  BY <1>0 DEF Finish, OneKey, Types, Idle, Fault, KeyFor, None, Servers, Steps, Journaled
<1>7. Counted'
  BY <1>0 DEF Finish, Counted, Types, Idle, Fault, KeyFor, None, Servers, Steps, Journaled
<1>8. KeptKeysLive'
  BY <1>0 DEF Finish, KeptKeysLive, Types, Idle, Fault, KeyFor, None, Servers, Steps, Journaled
<1> QED
  BY <1>1, <1>2, <1>3, <1>4, <1>5, <1>6, <1>7, <1>8 DEF Inv

LEMMA RestartKeeps ==
  ASSUME EnrollmentAssumption, Inv, Restart
  PROVE  Inv'
<1>0. Types /\ Drafted /\ Journaled /\ Opens /\ Wanted /\ OneKey /\ Counted /\ KeptKeysLive
  BY DEF Inv
<1>1. Types'
  BY <1>0 DEF Restart, Types, EnrollmentAssumption, MaxFresh, Idle, Fault, NoDraft, None, Servers, Steps
<1>2. Drafted'
  BY <1>0 DEF Restart, Drafted, Types, Idle, Fault, NoDraft, None, Servers, Steps
<1>3. Journaled'
  BY <1>0 DEF Restart, Journaled, Types, Idle, Fault, NoDraft, None, Servers, Steps
<1>4. Opens'
  BY <1>0 DEF Restart, Opens, Types, Idle, Fault, NoDraft, None, Servers, Steps
<1>5. Wanted'
  BY <1>0 DEF Restart, Wanted, Types, Idle, Fault, NoDraft, None, Servers, Steps
<1>6. OneKey'
  BY <1>0 DEF Restart, OneKey, Types, Idle, Fault, NoDraft, None, Servers, Steps
<1>7. Counted'
  BY <1>0 DEF Restart, Counted, Types, Idle, Fault, NoDraft, None, Servers, Steps
<1>8. KeptKeysLive'
  BY <1>0 DEF Restart, KeptKeysLive, Types, Idle, Fault, NoDraft, None, Servers, Steps
<1> QED
  BY <1>1, <1>2, <1>3, <1>4, <1>5, <1>6, <1>7, <1>8 DEF Inv

LEMMA SomeoneElseKeeps ==
  ASSUME EnrollmentAssumption, Inv, NEW s \in Servers, SomeoneElse(s)
  PROVE  Inv'
<1>0. Types /\ Drafted /\ Journaled /\ Opens /\ Wanted /\ OneKey /\ Counted /\ KeptKeysLive
  BY DEF Inv
<1>1. Types'
  BY <1>0 DEF SomeoneElse, Types, EnrollmentAssumption, MaxFresh, Fault, Others, None, Servers, Opens
<1>2. Drafted'
  BY <1>0 DEF SomeoneElse, Drafted, Types, Fault, Others, None, Servers, Opens
<1>3. Journaled'
  BY <1>0 DEF SomeoneElse, Journaled, Types, Fault, Others, None, Servers, Opens, Steps
<1>4. Opens'
  BY <1>0 DEF SomeoneElse, Opens, Types, Fault, Others, None, Servers
<1>5. Wanted'
  BY <1>0 DEF SomeoneElse, Wanted, Types, Fault, Others, None, Servers, Opens, Steps
<1>6. OneKey'
  BY <1>0 DEF SomeoneElse, OneKey, Types, Fault, Others, None, Servers, Opens
<1>7. Counted'
  BY <1>0 DEF SomeoneElse, Counted, Types, Fault, Others, None, Servers, Opens, Steps
<1>8. KeptKeysLive'
  BY <1>0 DEF SomeoneElse, KeptKeysLive, Types, Fault, Others, None, Servers, Opens
<1> QED
  BY <1>1, <1>2, <1>3, <1>4, <1>5, <1>6, <1>7, <1>8 DEF Inv

LEMMA ClearKeeps ==
  ASSUME EnrollmentAssumption, Inv, NEW s \in Servers, Clear(s)
  PROVE  Inv'
<1>0. Types /\ Drafted /\ Journaled /\ Opens /\ Wanted /\ OneKey /\ Counted /\ KeptKeysLive
  BY DEF Inv
<1>1. Types'
  BY <1>0 DEF Clear, Types, EnrollmentAssumption, MaxFresh, None, Servers
<1>2. Drafted'
  BY <1>0 DEF Clear, Drafted, Types, None, Servers
<1>3. Journaled'
  BY <1>0 DEF Clear, Journaled, Types, None, Servers, Steps
<1>4. Opens'
  BY <1>0 DEF Clear, Opens, Types, None, Servers
<1>5. Wanted'
  BY <1>0 DEF Clear, Wanted, Types, None, Servers, Steps
<1>6. OneKey'
  BY <1>0 DEF Clear, OneKey, Types, None, Servers
<1>7. Counted'
  BY <1>0 DEF Clear, Counted, Types, None, Servers, Steps
<1>8. KeptKeysLive'
  BY <1>0 DEF Clear, KeptKeysLive, Types, None, Servers
<1> QED
  BY <1>1, <1>2, <1>3, <1>4, <1>5, <1>6, <1>7, <1>8 DEF Inv

-----------------------------------------------------------------------------
(* Every behaviour. *)

LEMMA StutterKeeps ==
  ASSUME Inv, UNCHANGED vars
  PROVE  Inv'
BY DEF vars, Inv, Types, Drafted, Journaled, Opens, Wanted, OneKey, Counted, KeptKeysLive

\* Inv is an invariant: every step of the worker, of the admin, of the device and of
\* another person keeps it.
THEOREM InvHolds ==
  ASSUME EnrollmentAssumption
  PROVE  Spec => []Inv
<1>1. Init => Inv
  BY InitInv
<1>2. Inv /\ [Next]_vars => Inv'
  <2> SUFFICES ASSUME Inv, [Next]_vars PROVE Inv'
    OBVIOUS
  <2>1. CASE Start
    BY <2>1, StartKeeps
  <2>2. CASE Preflight
    BY <2>2, PreflightKeeps
  <2>3. CASE Connect
    BY <2>3, ConnectKeeps
  <2>4. CASE Skip
    BY <2>4, SkipKeeps
  <2>5. CASE MakeAccount
    BY <2>5, MakeAccountKeeps
  <2>6. CASE HaveAccount
    BY <2>6, HaveAccountKeeps
  <2>7. CASE SaveAccount
    BY <2>7, SaveAccountKeeps
  <2>8. CASE Prove
    BY <2>8, ProveKeeps
  <2>9. CASE MakeKey
    BY <2>9, MakeKeyKeeps
  <2>10. CASE SaveKey
    BY <2>10, SaveKeyKeeps
  <2>11. CASE Finish
    BY <2>11, FinishKeeps
  <2>12. CASE Restart
    BY <2>12, RestartKeeps
  <2>13. ASSUME NEW s \in Servers, SomeoneElse(s) PROVE Inv'
    BY <2>13, SomeoneElseKeeps
  <2>14. ASSUME NEW s \in Servers, Clear(s) PROVE Inv'
    BY <2>14, ClearKeeps
  <2>15. CASE UNCHANGED vars
    BY <2>15, StutterKeeps
  <2> QED
    BY <2>1, <2>2, <2>3, <2>4, <2>5, <2>6, <2>7, <2>8, <2>9, <2>10, <2>11, <2>12, <2>13, <2>14,
       <2>15 DEF Next
<1> QED
  BY <1>1, <1>2, PTL DEF Spec

\* TypeOK with its count of keys: an attempt to make a key never leaves a second
\* live key behind on either server.
THEOREM TypeCorrect ==
  ASSUME EnrollmentAssumption
  PROVE  Spec => []TypeOK
<1>1. Inv => TypeOK
  <2> SUFFICES ASSUME Inv PROVE TypeOK
    OBVIOUS
  <2>1. ASSUME NEW s \in Servers PROVE Cardinality(keys[s]) <= 1
    <3>1. CASE keys[s] = {}
      <4>1. Cardinality(keys[s]) = 0
        BY <3>1, FS_EmptySet, Zenon
      <4> QED
        BY <4>1
    <3>2. ASSUME NEW k \in 1..MaxFresh, keys[s] = {k} PROVE Cardinality(keys[s]) <= 1
      <4>1. Cardinality(keys[s]) = 1
        BY <3>2, FS_Singleton, Zenon
      <4> QED
        BY <4>1
    <3> QED
      BY <3>1, <3>2 DEF Inv, OneKey
  <2> QED
    BY <2>1 DEF Inv, Types, TypeOK
<1> QED
  BY <1>1, InvHolds, PTL

\* Whatever was lost, an account that the setup created opens with the password
\* in the journal and the next pass is not refused because of it.
THEOREM AlwaysResumable ==
  ASSUME EnrollmentAssumption
  PROVE  Spec => []Resumable
<1>1. Inv => Resumable
  BY DEF Inv, Types, Opens, Resumable, Taken, NoDraft, None
<1> QED
  BY <1>1, InvHolds, PTL

\* A key that the record or the journal holds is the live one.
THEOREM KeysLive ==
  ASSUME EnrollmentAssumption
  PROVE  Spec => []KeptKeysLive
<1>1. Inv => KeptKeysLive
  BY DEF Inv
<1> QED
  BY <1>1, InvHolds, PTL

\* Where someone else has an account under the bot's name, no key is ever made
\* on it: neither a pass nor any of its retries signs in there.
THEOREM OthersLeftAlone ==
  ASSUME EnrollmentAssumption
  PROVE  Spec => []OthersUntouched
<1>1. Inv => OthersUntouched
  BY DEF Inv, Types, Opens, OthersUntouched, Others
<1> QED
  BY <1>1, InvHolds, PTL

\* All four, the promise of the setup.
THEOREM SetupIsSafe ==
  ASSUME EnrollmentAssumption
  PROVE  Spec => []SetupHolds
<1>1. Spec => [](TypeOK /\ Resumable /\ KeptKeysLive /\ OthersUntouched)
  BY TypeCorrect, AlwaysResumable, KeysLive, OthersLeftAlone, PTL
<1> QED
  BY <1>1, PTL DEF SetupHolds
=============================================================================
