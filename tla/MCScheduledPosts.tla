-------------------------- MODULE MCScheduledPosts --------------------------
(***************************************************************************)
(* ScheduledPosts for TLC: every job has the same author, and the bots     *)
(* boards are interchangeable.                                             *)
(***************************************************************************)
EXTENDS ScheduledPosts, TLC

MCAuthorOf == [j \in Job |-> CHOOSE a \in Account : TRUE]

BoardSymmetry == Permutations(Bots)
=============================================================================
