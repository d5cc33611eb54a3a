--------------------------- MODULE KeptConnections ---------------------------
(***************************************************************************)
(* The bots board's HTTP client (mastomini_bots bin/esp32/client.rs): the  *)
(* connections a worker keeps alive, the least recently used of them       *)
(* first, and the addresses of .local names it remembers.  Boards move to  *)
(* other addresses, servers close sockets that idle, requests and answers  *)
(* are lost.  A server is a host and a port; ESP-IDF's client, TLS and the *)
(* sizes of bodies are left out.                                           *)
(***************************************************************************)
EXTENDS Naturals, Sequences, SequencesExt, FiniteSets

CONSTANTS Servers,       \* pairs of a host and a port
          LocalHosts,    \* the hosts found over mDNS
          Addresses,     \* that they can have
          NoAddress, NoRequest,
          MaxKept,       \* MAX_KEPT
          MaxFaults      \* bound: moves, losses and errors of the network

KeptConnectionsAssumption == {MaxKept, MaxFaults} \subseteq Nat /\ MaxKept > 0

VARIABLES at,          \* where each local host is
          clients,     \* the servers a connection is kept to, least recently used first
          closed,      \* those among them whose sockets the server has closed
          resolved,    \* the address known of each local host
          old,         \* the hosts whose address has been known for TTL
          req,         \* the request at hand and how it went
          calm,        \* servers with no fault since a request to them failed
          faults

vars == <<at, clients, closed, resolved, old, req, calm, faults>>

Host(s) == s[1]
Kept(s) == s \in Range(clients)
Fault == faults < MaxFaults /\ faults' = faults + 1

(***************************************************************************)
(* One exchange.                                                           *)
(***************************************************************************)
\* handle: the least recently used goes.
Room(kept) == IF Len(kept) >= MaxKept THEN Tail(kept) ELSE kept
Newest(s) == Append(IF Kept(s) THEN Remove(clients, s) ELSE Room(clients), s)
\* resolve: asked only for a new client.
Asks(s) == ~Kept(s) /\ Host(s) \in LocalHosts /\ (resolved[Host(s)] = NoAddress \/ Host(s) \in old)
Known(s) == IF Asks(s) THEN [resolved EXCEPT ![Host(s)] = at[Host(s)]] ELSE resolved
\* A request goes to the address known; without one the name does not lead there.
Reaches(s) ==
  /\ s \notin closed \/ ~Kept(s)
  /\ Host(s) \in LocalHosts => Known(s)[Host(s)] = at[Host(s)]

\* forget: what is known of a server that failed
Forget(s) ==
  /\ clients' = SelectSeq(clients, LAMBDA c : c # s)
  /\ closed' = closed \ {s}
  /\ resolved' = IF Host(s) \in LocalHosts THEN [resolved EXCEPT ![Host(s)] = NoAddress] ELSE resolved
  /\ old' = old \ {Host(s)}
  /\ UNCHANGED <<at, faults>>

Opens(s) ==
  /\ clients' = Newest(s)
  /\ closed' = closed \cap Range(Newest(s))
  /\ resolved' = Known(s)
  /\ old' = IF Asks(s) THEN old \ {Host(s)} ELSE old

\* exchange, when it gets an answer, when the answer is lost, and when the
\* request does not arrive
Answered ==
  /\ req.phase = "try" /\ Reaches(req.to) /\ Opens(req.to)
  /\ req' = [req EXCEPT !.phase = "done", !.arrived = @ + 1]
  /\ calm' = calm \ {req.to}
  /\ UNCHANGED <<at, faults>>
AnswerLost ==
  /\ req.phase = "try" /\ Reaches(req.to) /\ Opens(req.to) /\ Fault
  /\ req' = [req EXCEPT !.phase = "error", !.arrived = @ + 1, !.clean = FALSE]
  /\ calm' = {} /\ UNCHANGED at
Unanswered ==
  /\ req.phase = "try" /\ Opens(req.to)
  /\ IF Reaches(req.to) THEN Fault /\ calm' = {} ELSE UNCHANGED <<faults, calm>>
  /\ req' = [req EXCEPT !.phase = "error", !.clean = @ /\ ~Reaches(req.to)]
  /\ UNCHANGED at
\* The name is not found: the connection that made room is gone all the same.
NotFound ==
  /\ req.phase = "try" /\ Asks(req.to) /\ Fault
  /\ clients' = Room(clients) /\ closed' = closed \cap Range(Room(clients))
  /\ req' = [req EXCEPT !.phase = "error", !.clean = FALSE]
  /\ calm' = {} /\ UNCHANGED <<at, resolved, old>>

(***************************************************************************)
(* A request: one that only reads is tried again on a fresh connection if  *)
(* it was made on a kept one.                                              *)
(***************************************************************************)
Send(s, method) ==
  /\ req.phase \in {"done", "failed"}
  /\ req' = [to |-> s, method |-> method, reused |-> Kept(s), tries |-> 1,
             phase |-> "try", arrived |-> 0, clean |-> TRUE, calm |-> FALSE]
  /\ UNCHANGED <<at, clients, closed, resolved, old, calm, faults>>
\* Mutant: whatever it does.
MayRepeatAny == req.reused /\ req.tries = 1
MayRepeat == req.reused /\ req.tries = 1 /\ req.method = "GET"
Repeat ==
  /\ req.phase = "error" /\ MayRepeat /\ Forget(req.to)
  /\ req' = [req EXCEPT !.phase = "try", !.tries = 2]
  /\ UNCHANGED calm
Fails ==
  /\ req.phase = "error" /\ ~MayRepeat /\ Forget(req.to)
  /\ req' = [req EXCEPT !.phase = "failed", !.calm = req.to \in calm]
  /\ calm' = calm \cup {req.to}

(***************************************************************************)
(* The world.                                                              *)
(***************************************************************************)
Move(h) ==
  /\ Fault /\ \E a \in Addresses \ Range(at) : at' = [at EXCEPT ![h] = a]
  /\ req' = [req EXCEPT !.clean = FALSE] /\ calm' = {}
  /\ UNCHANGED <<clients, closed, resolved, old>>
Closes(s) ==
  /\ Kept(s) /\ s \notin closed /\ closed' = closed \cup {s}
  /\ req' = [req EXCEPT !.clean = @ /\ (req.to # s \/ req.phase # "try" \/ req.tries = 1)]
  /\ UNCHANGED <<at, clients, resolved, old, calm, faults>>
Ages(h) ==
  /\ resolved[h] # NoAddress /\ h \notin old /\ old' = old \cup {h}
  /\ UNCHANGED <<at, clients, closed, resolved, req, calm, faults>>

Init ==
  /\ at \in [LocalHosts -> Addresses] /\ \A h, g \in LocalHosts : h # g => at[h] # at[g]
  /\ clients = <<>> /\ closed = {} /\ old = {} /\ calm = {} /\ faults = 0
  /\ resolved = [h \in LocalHosts |-> NoAddress]
  /\ req = [NoRequest EXCEPT !.phase = "done"]

Next ==
  \/ \E s \in Servers : Send(s, "GET") \/ Send(s, "POST") \/ Closes(s)
  \/ Answered \/ AnswerLost \/ Unanswered \/ NotFound \/ Repeat \/ Fails
  \/ \E h \in LocalHosts : Move(h) \/ Ages(h)

Spec == Init /\ [][Next]_vars

(***************************************************************************)
(* Properties.                                                             *)
(***************************************************************************)
\* The types of the state; at most MAX_KEPT connections are kept, each to
\* a server of its own.
TypeOK ==
  /\ Len(clients) <= MaxKept /\ IsInjective(clients) /\ Range(clients) \subseteq Servers
  /\ closed \subseteq Range(clients) /\ old \subseteq LocalHosts
  /\ resolved \in [LocalHosts -> Addresses \cup {NoAddress}]

\* A request that changes something reaches its server at most once, however
\* its answer is lost and whatever socket it went out on.
NeverTwice == req.method = "POST" => req.arrived <= 1

\* A read on a kept connection fails only by a fault that came while it was
\* made: neither a socket that the server closed meanwhile nor an address
\* that it has left is enough.
ReadsSurvive == req.phase = "failed" /\ req.method = "GET" /\ req.reused => ~req.clean

\* What made a request fail is not there for the next one to that server:
\* after a failure, one fails again only by a new fault.
FailuresForgotten == req.phase = "failed" => ~req.calm
=============================================================================
