----------------------------- MODULE AtomicState -----------------------------
(***************************************************************************)
(* What a store of one state promises: a commit takes effect as a whole or *)
(* not at all, what was committed survives a crash, and a commit cut short *)
(* is decided, one way or the other, by the next recovery.                 *)
(***************************************************************************)
CONSTANTS Value, Nothing

VARIABLES
  value,    \* the state last committed
  doubt,    \* the commit under way or cut short, or Nothing
  serving   \* FALSE from a crash until recovery

Init == value \in Value /\ doubt = Nothing /\ serving \in BOOLEAN

Begin   == serving /\ doubt' \in Value /\ UNCHANGED <<value, serving>>
Commit  == serving /\ doubt \in Value /\ value' = doubt /\ doubt' = Nothing
                   /\ UNCHANGED serving
Crash   == serving /\ serving' = FALSE /\ UNCHANGED <<value, doubt>>
Recover == ~serving /\ serving' = TRUE /\ doubt' = Nothing
                    /\ value' \in {value, doubt} \ {Nothing}

Next == Begin \/ Commit \/ Crash \/ Recover

Spec == Init /\ [][Next]_<<value, doubt, serving>>
=============================================================================
