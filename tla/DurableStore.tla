---------------------------- MODULE DurableStore ----------------------------
(***************************************************************************)
(* What the Store trait promises (mastomini_rs/src/store/mod.rs): a set or *)
(* an erase of one key is atomic, and durable when it returns.  Only the   *)
(* operation that was in progress when the store failed is in doubt; a     *)
(* restart settles it one way or the other, and touches nothing else.      *)
(***************************************************************************)
CONSTANTS Key, Value, None

VARIABLES
  kv,  \* what every acknowledged operation adds up to
  op   \* the operation in progress or in doubt

NoOp == [key |-> None, value |-> None]
Op   == [key : Key, value : Value \cup {None}]

Done(o) == IF o = NoOp THEN kv ELSE [kv EXCEPT ![o.key] = o.value]

Init == kv = [k \in Key |-> None] /\ op = NoOp

Begin  == op = NoOp /\ op' \in Op /\ UNCHANGED kv
Settle == kv' \in {kv, Done(op)} /\ op' = NoOp
Next   == Begin \/ Settle

Spec == Init /\ [][Next]_<<kv, op>>
=============================================================================
