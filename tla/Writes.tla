------------------------------- MODULE Writes -------------------------------
(***************************************************************************)
(* How a request of the household changes the flash (put, erase, writable  *)
(* and map_store_error of domain/mod.rs).  It runs alone under the service *)
(* lock and is a program: the disks its single writes lead through, with   *)
(* what the handler does when a put is refused as full.  The records in    *)
(* RAM of a service that is ready are the stored ones, so that one copy    *)
(* stands for both; any other failure of a write latches the service.      *)
(***************************************************************************)
EXTENDS Naturals, Sequences, SequencesExt, FiniteSets

CONSTANTS Nothing,       \* no request
          MaxFaults      \* bound: power cuts and storage errors

VARIABLES disk,      \* the records
          up,        \* "ready", "latched" or "off"
          todo,      \* the writes the request under way has still to make
          doing,     \* that request
          faults

wvars == <<disk, up, todo, doing, faults>>

Writing(d, full) == [to |-> d, full |-> full]
Begin == <<Writing(disk, "never")>>
End(p) == Last(p).to
Put(p, d) == Append(p, Writing(d, "stop"))
Erase(p, d) == Append(p, Writing(d, "never"))
\* A change of what is not a record (a file of the card, a list in RAM).
Aside(p, d) == Append(p, Writing(d, "aside"))
\* A put that changes nothing is not made.
PutNew(p, d) == IF d = End(p) THEN p ELSE Put(p, d)
EraseOld(p, d) == IF d = End(p) THEN p ELSE Erase(p, d)

Ready == up = "ready" /\ todo = <<>>
Does(request, p) ==
  /\ todo' = Tail(p)
  /\ doing' = IF Len(p) = 1 THEN Nothing ELSE request
  /\ UNCHANGED <<disk, up, faults>>

Stepping == up = "ready" /\ todo # <<>>
Step ==
  /\ Stepping
  /\ disk' = Head(todo).to
  /\ todo' = Tail(todo)
  /\ doing' = IF Len(todo) = 1 THEN Nothing ELSE doing
  /\ UNCHANGED <<up, faults>>

Fault == faults < MaxFaults /\ faults' = faults + 1
Ends == todo' = <<>> /\ doing' = Nothing
\* A full flash: the handler gives up, or undoes what it did, or latches.
Full(undo) ==
  /\ Stepping /\ Fault
  /\ \/ Head(todo).full = "stop" /\ Ends /\ UNCHANGED up
     \/ Head(todo).full = "undo" /\ todo' = Tail(undo) /\ UNCHANGED <<doing, up>>
     \/ Head(todo).full = "latch" /\ Ends /\ up' = "latched"
  /\ UNCHANGED disk
Breaks ==
  /\ Stepping /\ Fault /\ Head(todo).full # "aside"
  /\ disk' \in {disk, Head(todo).to}
  /\ Ends /\ up' = "latched"
PowerCut ==
  /\ \/ up = "ready" /\ Fault
     \/ up = "latched" /\ UNCHANGED faults     \* the restart it asks for
  /\ up' = "off" /\ Ends
  /\ UNCHANGED disk
=============================================================================
