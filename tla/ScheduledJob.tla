---------------------------- MODULE ScheduledJob ----------------------------
(***************************************************************************)
(* What scheduling a post promises its author.  A submitted draft is       *)
(* pending until it is published once, cancelled, or marked failed; a      *)
(* failed draft can still be cancelled.  Published and cancelled are       *)
(* final.  One step of the system may settle several drafts (deleting an   *)
(* account cancels all of its jobs).                                       *)
(***************************************************************************)
CONSTANT Job
VARIABLE outcome

Moves == {<<"none", "pending">>,
          <<"pending", "published">>, <<"pending", "cancelled">>,
          <<"pending", "failed">>, <<"failed", "cancelled">>}

Init == outcome = [j \in Job |-> "none"]

Next == \A j \in Job : \/ outcome'[j] = outcome[j]
                       \/ <<outcome[j], outcome'[j]>> \in Moves

Spec == Init /\ [][Next]_outcome
=============================================================================
