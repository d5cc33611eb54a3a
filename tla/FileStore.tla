----------------------------- MODULE FileStore -----------------------------
(***************************************************************************)
(* The desktop store (mastomini_rs/src/store/file.rs): an append-only log  *)
(* replayed and compacted whenever it is opened, with the service's latch  *)
(* (domain/mod.rs map_store_error) on top of it.                           *)
(*                                                                         *)
(* A file is the sequence of its records; Torn stands for a record that is *)
(* cut short.  The operating system keeps a file's synced prefix, and any  *)
(* prefix of the rest, when the machine stops; it may also bring back the  *)
(* file a rename replaced until the directory itself is synced.            *)
(***************************************************************************)
EXTENDS Naturals, Sequences, FiniteSets, FiniteSetsExt, SequencesExt

CONSTANTS
  Key, Value,
  None,        \* no value: an absent key, or the value of an erase
  Torn,        \* a record cut short
  Entries,     \* entries_for: the capacity each value takes
  Total,       \* total_entries
  MaxLog,      \* bound: records in a log
  MaxFaults,   \* bound: crashes and I/O errors
  Importing    \* may the writes be those of import_archive?

StoreAssumption ==
  /\ None \notin Key \cup Value
  /\ Entries \in [Value -> Nat \ {0}]
  /\ Total \in Nat /\ MaxLog \in Nat /\ MaxFaults \in Nat
  /\ Importing \in BOOLEAN

VARIABLES
  mode,     \* where the process is
  mem,      \* MemStore
  file,     \* the log, as the operating system shows it
  synced,   \* how many of its records are known to be durable
  former,   \* the logs it replaced since the directory was last synced
  tmp,      \* the .compact file
  op,       \* the operation in progress, or in doubt after a failure
  written,  \* is its record in the file?
  faults,   \* failures so far
  promised  \* history: what the acknowledged operations add up to

vars == <<mode, mem, file, synced, former, tmp, op, written, faults, promised>>

Record == [key : Key, value : Value \cup {None}]
NoOp   == [key |-> None, value |-> None]
Map    == [Key -> Value \cup {None}]
Empty  == [k \in Key |-> None]

\* Process states: "down"; the steps of open; "up"; "latched" after an I/O
\* error, serving reads only; "refused" when open reports corruption.
Opening == {"replayed", "created", "written", "synced", "replaced"}
Mode == {"down", "up", "latched", "refused"} \cup Opening

-----------------------------------------------------------------------------
Used(m) ==
  MapThenSumSet(LAMBDA k : IF m[k] = None THEN 0 ELSE Entries[m[k]], Key)

Fits(m, k, v) == v = None \/ Used([m EXCEPT ![k] = v]) <= Total

Apply(m, rec) == [m EXCEPT ![rec.key] = rec.value]

\* Replaying the first n records, and whether each passed the capacity check.
ReplayTo(f, n) == FoldLeft(Apply, Empty, SubSeq(f, 1, n))

Replays(f, n) ==
  \A i \in 1..n : f[i] # Torn /\ Fits(ReplayTo(f, i - 1), f[i].key, f[i].value)

\* Every map the replay of f can return; none means that it reports corruption.
\* A torn record is dropped at the end of the file.  Before it, the bytes of the
\* next records are taken for its own: they fail its checksum, or do not reach
\* its length, and then the whole tail passes for one torn record.
Replayed(f) ==
  LET torn == {i \in DOMAIN f : f[i] = Torn}
  IN IF torn = {} THEN IF Replays(f, Len(f)) THEN {ReplayTo(f, Len(f))} ELSE {}
     ELSE LET i == Min(torn) IN
          IF Replays(f, i - 1) THEN {ReplayTo(f, i - 1)} ELSE {}

Corrupt(f) ==
  LET torn == {i \in DOMAIN f : f[i] = Torn}
  IN IF torn = {} THEN ~Replays(f, Len(f))
     ELSE Min(torn) < Len(f) \/ ~Replays(f, Min(torn) - 1)

\* The live keys, one record each.
Compacted(m) ==
  LET live == {k \in Key : m[k] # None}
  IN [i \in 1..Cardinality(live) |->
        LET k == SetToSeq(live)[i] IN [key |-> k, value |-> m[k]]]

\* What may be left of file f, s of whose records are durable.
Remains(f, s) ==
  {SubSeq(f, 1, n) : n \in s..Len(f)}
    \cup {Append(SubSeq(f, 1, n), Torn) : n \in s..(Len(f) - 1)}

Fault == faults < MaxFaults /\ faults' = faults + 1

-----------------------------------------------------------------------------
(***************************************************************************)
(* set, erase and append.                                                  *)
(***************************************************************************)

Begin(k, v) ==
  /\ mode = "up" /\ op = NoOp
  /\ Len(file) < MaxLog
  /\ op' = [key |-> k, value |-> v]
  /\ UNCHANGED <<mode, mem, file, synced, former, tmp, written, faults, promised>>

Set(k, v) == Fits(mem, k, v) /\ Begin(k, v)

Erase(k) == mem[k] # None /\ Begin(k, None)

AppendWrite ==
  /\ mode = "up" /\ op # NoOp /\ ~written
  /\ file' = Append(file, op)
  /\ written' = TRUE
  /\ UNCHANGED <<mode, mem, synced, former, tmp, op, faults, promised>>

Acknowledge ==
  /\ mem' = Apply(mem, op)
  /\ promised' = Apply(mem, op)
  /\ op' = NoOp
  /\ written' = FALSE

AppendSync ==
  /\ mode = "up" /\ written
  /\ synced' = Len(file)
  /\ Acknowledge
  /\ UNCHANGED <<mode, file, former, tmp, faults>>

\* map_store_error latches the service.  import_archive's clear_store and
\* write_records do not go through it: they write on, and reload unlatches.
Latch ==
  \/ mode' = "latched" /\ op' = op
  \/ Importing /\ mode' = "up" /\ op' = NoOp

\* write_all fails, having written some of the record, or sync_data fails.
AppendFails ==
  /\ mode = "up" /\ op # NoOp
  /\ Fault
  /\ file' \in IF written THEN {file} ELSE {file, Append(file, Torn)}
  /\ written' = FALSE
  /\ Latch
  /\ UNCHANGED <<mem, synced, former, tmp, promised>>

-----------------------------------------------------------------------------
(***************************************************************************)
(* open: replay, then compact through a temporary file.                    *)
(***************************************************************************)
Open ==
  /\ mode = "down"
  /\ \/ mode' = "replayed" /\ mem' \in Replayed(file)
     \/ mode' = "refused" /\ Corrupt(file) /\ UNCHANGED mem
  /\ UNCHANGED <<file, synced, former, tmp, op, written, faults, promised>>

CreateTmp ==
  /\ mode = "replayed"
  /\ mode' = "created"
  /\ tmp' = <<>>
  /\ UNCHANGED <<mem, file, synced, former, op, written, faults, promised>>

WriteTmp ==
  /\ mode = "created"
  /\ mode' = "written"
  /\ tmp' = Compacted(mem)
  /\ UNCHANGED <<mem, file, synced, former, op, written, faults, promised>>

SyncTmp ==
  /\ mode = "written"
  /\ mode' = "synced"
  /\ UNCHANGED <<mem, file, synced, former, tmp, op, written, faults, promised>>

\* rename: the new log replaces the old one, which may come back if the machine
\* stops before the directory is synced.
Rename ==
  /\ mode = "synced"
  /\ mode' = "replaced"
  /\ file' = tmp
  /\ synced' = Len(tmp)
  /\ former' = former \cup {[log |-> file, synced |-> synced]}
  /\ tmp' = <<>>
  /\ UNCHANGED <<mem, op, written, faults, promised>>

\* The store is open: whatever was in doubt is settled.
Opened ==
  /\ mode = "replaced"
  /\ mode' = "up"
  /\ op' = NoOp
  /\ promised' = mem
  /\ UNCHANGED <<mem, file, synced, tmp, written, faults>>

\* Mutant: the directory is not synced.
OpenedUnsynced == Opened /\ UNCHANGED former

SyncDir == Opened /\ former' = {}

\* The process ends, because open failed or it is restarted; the files stay as
\* the operating system shows them.
Stop ==
  /\ mode \notin {"down", "refused"}
  /\ mode' = "down"
  /\ mem' = Empty
  /\ written' = FALSE
  /\ UNCHANGED <<file, synced, former, tmp, op, faults, promised>>

\* The machine stops.
Crash ==
  /\ mode # "refused"
  /\ Fault
  /\ mode' = "down"
  /\ \E f \in {[log |-> file, synced |-> synced]} \cup former :
       /\ file' \in Remains(f.log, f.synced)
       /\ synced' = Len(file')
  /\ former' = {}
  /\ mem' = Empty
  /\ written' = FALSE
  /\ UNCHANGED <<tmp, op, promised>>

Init ==
  /\ mode = "down"
  /\ mem = Empty
  /\ file = <<>> /\ synced = 0
  /\ former = {}
  /\ tmp = <<>>
  /\ op = NoOp
  /\ written = FALSE
  /\ faults = 0
  /\ promised = Empty

Write == \/ \E k \in Key, v \in Value : Set(k, v)
         \/ \E k \in Key : Erase(k)

OpenStep == \/ Open \/ CreateTmp \/ WriteTmp \/ SyncTmp \/ Rename \/ SyncDir

Next == \/ Write \/ AppendWrite \/ AppendSync \/ AppendFails
        \/ OpenStep \/ Stop \/ Crash

Spec == Init /\ [][Next]_vars

-----------------------------------------------------------------------------
\* Every state is well formed, and what the process serves, also once latched, is
\* what it acknowledged.
TypeOK ==
  /\ mode \in Mode
  /\ mem \in Map /\ promised \in Map
  /\ mode \in {"up", "latched"} => mem = promised
  /\ file \in Seq(Record \cup {Torn}) /\ synced \in 0..Len(file)
  /\ \A f \in former : /\ f.log \in Seq(Record \cup {Torn})
                      /\ f.synced \in 0..Len(f.log)
  /\ tmp \in Seq(Record)
  /\ op \in Record \cup {NoOp}
  /\ written \in BOOLEAN
  /\ faults \in 0..MaxFaults

Trait == INSTANCE DurableStore WITH kv <- promised

\* The log implements the Store trait: whenever the machine stops, between
\* write_all and sync_data, inside compact_at or before the directory is synced,
\* open brings back every acknowledged set and erase, and of the one in progress
\* all or nothing.
KeepsStore == Trait!Spec

\* open never takes what a crash or an I/O error left of the log for corruption:
\* neither a torn record before its end nor a replay that outgrows the capacity.
NeverRefused == mode # "refused"
=============================================================================
