--------------------------- MODULE Provisioning ---------------------------
(***************************************************************************)
(* How a board comes to hold a household: the owner sets it up             *)
(* (mastomini_rs/src/domain/accounts.rs provision), or restores an export  *)
(* (domain/transfer.rs import_archive), or opens it from the store         *)
(* (domain/mod.rs reload, build).  The store writes one key at a time, and *)
(* the schema record is what makes a store a household.                    *)
(*                                                                         *)
(* Records are named by what build tells apart.  The flash of a board that *)
(* is being set up is not full, so a write either succeeds, fails with an  *)
(* I/O error, or is cut short by power loss.                               *)
(***************************************************************************)
EXTENDS Naturals, Sequences, FiniteSets

CONSTANTS
  EarlyApps,   \* may a client register before the owner has set up?
  Exports,     \* the exports that may be restored, as sets of records
  RestoreCuts, \* may power be lost during a restore?
  UndoFails,   \* may undoing a restore meet an I/O error of its own?
  PowerCuts,   \* bound: power cuts
  Errors       \* bound: I/O errors of the store

VARIABLES
  disk,     \* the records in the store
  ram,      \* the records the service knows
  mode,     \* "down", "booting", "up", "latched" or "refused"
  op,       \* the operation under way and the writes it has still to make
  cuts, errors,
  promised, \* history: records whose writing was acknowledged
  archive   \* history: the export last restored, {} when none was

vars == <<disk, ram, mode, op, cuts, errors, promised, archive>>

Cfg      == {"schema", "server"}
Accounts == {"owner", "member"}
Others   == {"app", "status"}
Record   == Cfg \cup Accounts \cup Others \cup {"key"}

SetupAssumption ==
  /\ {EarlyApps, RestoreCuts, UndoFails} \subseteq BOOLEAN
  /\ {PowerCuts, Errors} \subseteq Nat
  /\ Exports \subseteq SUBSET Record

Sets(recs)   == [i \in DOMAIN recs |-> [rec |-> recs[i], set |-> TRUE]]
Erases(recs) == [i \in DOMAIN recs |-> [rec |-> recs[i], set |-> FALSE]]

\* The records of S in the order of Ns::ALL, and by key within a namespace.
Found(r, S) == IF r \in S THEN <<r>> ELSE <<>>
InOrder(S) == Found("schema", S) \o Found("server", S) \o Found("owner", S) \o Found("member", S)
              \o Found("app", S) \o Found("status", S) \o Found("key", S)

Idle == [kind |-> "idle", todo |-> <<>>]
Do(kind, todo) == [kind |-> kind, todo |-> todo]

Ready == mode = "up" /\ op = Idle
Provisioned == "schema" \in ram

-----------------------------------------------------------------------------
(***************************************************************************)
(* Requests.                                                               *)
(***************************************************************************)
Start(kind, todo) ==
  /\ Ready
  /\ op' = Do(kind, todo)
  /\ UNCHANGED <<disk, ram, mode, cuts, errors, promised>>

\* Mutant: the schema record is written before the owner's.
ProvisionSchemaFirst ==
  /\ ~Provisioned
  /\ Start("write", Sets(<<"schema", "owner", "key">>))
  /\ archive' = {}

\* provision: the title is optional.
Provision ==
  /\ ~Provisioned
  /\ \E recs \in {<<"owner", "key", "schema">>, <<"server", "owner", "key", "schema">>} :
       Start("write", Sets(recs))
  /\ archive' = {}

\* register_app asks nobody, and does not ask whether there is a household.
RegisterApp ==
  /\ Provisioned \/ EarlyApps
  /\ Start("write", Sets(<<"app">>))
  /\ UNCHANGED archive

\* A member is created (create_member), or posts.
MemberWrite ==
  /\ Provisioned
  /\ \E rec \in {"member", "status"} : Start("write", Sets(<<rec>>))
  /\ UNCHANGED archive

\* import_archive: clear the store, write the records, reload.
Import ==
  /\ ~Provisioned
  /\ archive' \in Exports
  /\ Start("clear", Erases(InOrder(disk)))

-----------------------------------------------------------------------------
(***************************************************************************)
(* The writes of an operation, one at a time.                              *)
(***************************************************************************)
Written(d, w) == IF w.set THEN d \cup {w.rec} ELSE d \ {w.rec}

Step ==
  /\ op.todo # <<>>
  /\ disk' = Written(disk, Head(op.todo))
  /\ op' = Do(op.kind, Tail(op.todo))
  /\ ram' = IF op.kind = "write" THEN Written(ram, Head(op.todo)) ELSE ram
  /\ UNCHANGED <<mode, cuts, errors, promised, archive>>

\* What the caller does about an I/O error: only a failed restore is undone.
OnError(kind, d) ==
  IF kind = "restore" THEN Do("undo", Erases(InOrder(d))) ELSE Idle

\* put and erase latch the service, the writes of import_archive do not, and an
\* error while booting stops it.
ModeAfterError(kind) ==
  CASE kind = "write" -> "latched" [] kind = "rollback" -> "down" [] OTHER -> mode

\* The write may have reached the store all the same.
StepFails ==
  /\ op.todo # <<>>
  /\ op.kind = "undo" => UndoFails
  /\ errors < Errors /\ errors' = errors + 1
  /\ disk' \in {disk, Written(disk, Head(op.todo))}
  /\ op' = OnError(op.kind, disk')
  /\ mode' = ModeAfterError(op.kind)
  /\ UNCHANGED <<ram, cuts, promised, archive>>

Finished(kind) == op.kind = kind /\ op.todo = <<>>

Acknowledge ==
  /\ Finished("write")
  /\ op' = Idle
  /\ promised' = promised \cup ram
  /\ UNCHANGED <<disk, ram, mode, cuts, errors, archive>>

WriteRecords ==
  /\ Finished("clear")
  /\ op' = Do("restore", Sets(InOrder(archive)))
  /\ UNCHANGED <<disk, ram, mode, cuts, errors, promised, archive>>

-----------------------------------------------------------------------------
(***************************************************************************)
(* reload, at boot and after a restore.                                    *)
(***************************************************************************)
\* build and check_invariants reject the store: a household without an owner,
\* or without a schema record more than an interrupted provision leaves.
Refuses(d) ==
  IF "schema" \in d THEN "owner" \notin d
  ELSE d \cap (Others \cup {"member"}) # {}

\* The restored household is in use; or it was rejected, or there was none in
\* the export, and the store is cleared again.
Reload ==
  /\ Finished("restore")
  /\ IF Refuses(disk) \/ "schema" \notin disk
     THEN op' = Do("undo", Erases(InOrder(disk))) /\ UNCHANGED <<ram, promised>>
     ELSE op' = Idle /\ ram' = disk /\ promised' = disk
  /\ UNCHANGED <<disk, mode, cuts, errors, archive>>

Undone ==
  /\ Finished("undo")
  /\ op' = Idle
  /\ ram' = disk
  /\ UNCHANGED <<disk, mode, cuts, errors, promised, archive>>

\* What build erases of a store without a schema record.
Leftovers(d) ==
  InOrder(d \cap Accounts) \o InOrder(d \cap {"key"}) \o InOrder(d \cap Cfg)

Boot ==
  /\ mode = "down"
  /\ IF Refuses(disk) THEN mode' = "refused" /\ UNCHANGED <<op, ram>>
     ELSE IF "schema" \in disk
     THEN mode' = "up" /\ ram' = disk /\ UNCHANGED op
     ELSE /\ mode' = "booting"
          /\ op' = Do("rollback", Erases(Leftovers(disk)))
          /\ UNCHANGED ram
  /\ UNCHANGED <<disk, cuts, errors, promised, archive>>

RolledBack ==
  /\ Finished("rollback")
  /\ mode' = "up"
  /\ op' = Idle
  /\ ram' = disk
  /\ UNCHANGED <<disk, cuts, errors, promised, archive>>

Off == mode' = "down" /\ op' = Idle /\ ram' = {}

Restart ==
  /\ mode \in {"up", "latched", "refused"} /\ op = Idle
  /\ Off
  /\ UNCHANGED <<disk, cuts, errors, promised, archive>>

PowerCut ==
  /\ op # Idle
  /\ op.kind \in {"clear", "restore", "undo"} => RestoreCuts
  /\ cuts < PowerCuts /\ cuts' = cuts + 1
  /\ Off
  /\ disk' \in {disk} \cup (IF op.todo = <<>> THEN {}
                            ELSE {Written(disk, Head(op.todo))})
  /\ UNCHANGED <<errors, promised, archive>>

Init ==
  /\ disk = {} /\ ram = {}
  /\ mode = "down"
  /\ op = Idle
  /\ cuts = 0 /\ errors = 0
  /\ promised = {} /\ archive = {}

Request == Provision \/ RegisterApp \/ MemberWrite \/ Import

Next == \/ Request \/ Step \/ StepFails \/ Acknowledge \/ WriteRecords
        \/ Reload \/ Undone \/ Boot \/ RolledBack \/ Restart \/ PowerCut

Spec == Init /\ [][Next]_vars

-----------------------------------------------------------------------------
Kind == {"idle", "write", "clear", "restore", "undo", "rollback"}

\* Every state is well formed, and a service that takes writes for a household
\* knows exactly the records its store holds.
TypeOK ==
  /\ disk \subseteq Record /\ ram \subseteq Record
  /\ promised \subseteq Record /\ archive \subseteq Record
  /\ mode \in {"down", "booting", "up", "latched", "refused"}
  /\ op.kind \in Kind
  /\ op.todo \in Seq([rec : Record, set : BOOLEAN])
  /\ Ready /\ Provisioned => ram = disk
  /\ cuts \in 0..PowerCuts /\ errors \in 0..Errors

\* No interrupted setup, restore or rollback leaves a store that build refuses
\* as corrupt: the board always starts again.
AlwaysBoots == mode # "refused"

\* A household is whole: what was acknowledged is there once the board is up,
\* and a restored one has every record of its export.
WholeHousehold ==
  Ready /\ Provisioned => promised \cup archive \subseteq ram

\* Without a household the store is empty, so nothing of a setup or a restore
\* that failed can surface in the next one.
EmptyUntilProvisioned == Ready /\ ~Provisioned => disk = {}
=============================================================================
