------------------------------ MODULE MqttHub ------------------------------
(***************************************************************************)
(* minicloud's MQTT broker (minicloud_rs/src/broker.rs).  One thread goes  *)
(* round: it accepts a connection, then reads and writes each client in    *)
(* turn, then closes those it has given up.  The hub of filters, retained  *)
(* messages and bounded outputs is shared with the HTTP threads, which     *)
(* publish between any two of its steps.                                   *)
(*                                                                         *)
(* Outputs are counted in packets, not bytes; a message is its topic and   *)
(* the number of the publication.                                          *)
(***************************************************************************)
EXTENDS Naturals, Sequences, FiniteSets, SequencesExt

CONSTANTS
  Name,         \* client ids
  Topic,
  MaxClients,   \* 4
  OutputLimit,  \* 4096 bytes, as packets
  MaxFilters,   \* 8
  MaxRetained,  \* 8
  MaxConns,     \* bound: connections
  MaxSent,      \* bound: publications
  MaxPackets,   \* bound: other packets
  None

HubAssumption ==
  {MaxClients, OutputLimit, MaxFilters, MaxRetained, MaxConns, MaxSent, MaxPackets}
    \subseteq Nat \ {0}

Conn == 1..MaxConns

VARIABLES
  phase,    \* Conn -> "unborn", "new", "auth", "refused", "leaving" or "gone"
  name,     \* Conn -> the client id it gave
  turn,     \* the client being served, 0 before accept, MaxConns + 1 at the end
  removed,  \* clients given up in this round
  filters, output, overflow,   \* the hub's Subscriber of each client
  retained, \* Topic -> the last retained publication, or 0
  sent, packets,
  received, \* what each client has read from its socket
  owed      \* history: what was queued for each client, fitting or not

vars == <<phase, name, turn, removed, filters, output, overflow, retained, sent,
          packets, received, owed>>
hub  == <<filters, output, overflow, owed>>

Live == {c \in Conn : phase[c] \notin {"unborn", "gone"}}
Authenticated == {c \in Conn : phase[c] \in {"auth", "leaving"}}
Closing == {c \in Conn : phase[c] \in {"refused", "leaving"}}

Message(t, n) == [topic |-> t, number |-> n]
Ack == [topic |-> None, number |-> 0]

\* The clients in a round are served in the order they came.
After(c) == IF \E d \in Live : d > c THEN CHOOSE d \in Live : d > c /\ \A e \in Live : e > c => d <= e
            ELSE MaxConns + 1

-----------------------------------------------------------------------------
(***************************************************************************)
(* The hub.                                                                *)
(***************************************************************************)
\* Hub::queue: blocks go in whole or mark the client; what is queued later may fit.
Queue(c, blocks) ==
  LET Take(acc, b) == IF Len(acc.out) + Len(b) > OutputLimit
                      THEN [acc EXCEPT !.over = TRUE]
                      ELSE [acc EXCEPT !.out = @ \o b]
  IN FoldLeft(Take, [out |-> output[c], over |-> overflow[c]], blocks)

Queued(c, blocks) ==
  /\ output' = [output EXCEPT ![c] = Queue(c, blocks).out]
  /\ overflow' = [overflow EXCEPT ![c] = Queue(c, blocks).over]
  /\ owed' = [owed EXCEPT ![c] = @ \o FlattenSeq(blocks)]

\* Hub::publish.  Publications on a topic are either retained or not.
Room(t, retain) == retain /\ retained[t] = 0 =>
                     Cardinality({u \in Topic : retained[u] # 0}) < MaxRetained

Subscribed(t) == {c \in Live : t \in filters[c]}

\* To the subscribers, and then an acknowledgement to the client that published.
Publish(t, retain, acked) ==
  LET message == <<Message(t, sent + 1)>>
      blocks(c) == (IF c \in Subscribed(t) THEN <<message>> ELSE <<>>)
                     \o (IF c = acked THEN <<<<Ack>>>> ELSE <<>>)
  IN /\ sent < MaxSent /\ sent' = sent + 1
     /\ retained' = IF retain THEN [retained EXCEPT ![t] = sent'] ELSE retained
     /\ output' = [c \in Conn |-> Queue(c, blocks(c)).out]
     /\ overflow' = [c \in Conn |-> Queue(c, blocks(c)).over]
     /\ owed' = [c \in Conn |-> owed[c] \o FlattenSeq(blocks(c))]

\* POST /api/publish, and the results of jobs.
HttpPublish(t) ==
  /\ Publish(t, FALSE, None)
  /\ UNCHANGED <<phase, name, turn, removed, filters, packets, received>>

-----------------------------------------------------------------------------
(***************************************************************************)
(* Broker::step.                                                           *)
(***************************************************************************)
Accept ==
  /\ turn = 0
  /\ \/ /\ Cardinality(Live) < MaxClients
        /\ \E c \in Conn :
             /\ phase[c] = "unborn" /\ \A d \in 1..(c - 1) : phase[d] # "unborn"
             /\ phase' = [phase EXCEPT ![c] = "new"]
             /\ turn' = IF Live = {} THEN c ELSE After(0)
     \/ turn' = After(0) /\ UNCHANGED phase
  /\ UNCHANGED <<name, removed, hub, retained, sent, packets, received>>

\* Up to eight packets of a client are read in its turn, the lock being taken for
\* each.  One that is refused, a broken connection and a client idle for too long
\* are given up at the end of the round.
Reading(c) == turn = c /\ phase[c] \in {"new", "auth"} /\ c \notin removed
Counted == packets < MaxPackets /\ packets' = packets + 1
Kept == UNCHANGED <<turn, removed, retained, sent, received>>

Connect(c, n) ==
  /\ Reading(c) /\ Counted
  /\ phase[c] = "new"
  /\ name' = [name EXCEPT ![c] = n]
  /\ \E p \in {"auth", "refused"} : phase' = [phase EXCEPT ![c] = p]
  /\ Queued(c, <<<<Ack>>>>)
  /\ Kept /\ UNCHANGED filters

\* The acknowledgement, and the retained messages as one block.
Subscribe(c, t) ==
  /\ Reading(c) /\ Counted
  /\ phase[c] = "auth"
  /\ IF Cardinality(filters[c]) >= MaxFilters
     THEN Queued(c, <<<<Ack>>>>) /\ UNCHANGED filters
     ELSE /\ filters' = [filters EXCEPT ![c] = @ \cup {t}]
          /\ Queued(c, <<<<Ack>>>> \o IF retained[t] = 0 THEN <<>>
                                      ELSE <<<<Message(t, retained[t])>>>>)
  /\ Kept /\ UNCHANGED <<phase, name>>

Unsubscribe(c, t) ==
  /\ Reading(c) /\ Counted
  /\ phase[c] = "auth" /\ t \in filters[c]
  /\ filters' = [filters EXCEPT ![c] = @ \ {t}]
  /\ Queued(c, <<<<Ack>>>>)
  /\ Kept /\ UNCHANGED <<phase, name>>

\* A command is committed to the queue of jobs before anyone hears of it.
ClientPublish(c, t, retain) ==
  /\ Reading(c)
  /\ phase[c] = "auth" /\ Room(t, retain)
  /\ Publish(t, retain, c)
  /\ UNCHANGED <<phase, name, turn, removed, filters, packets, received>>

Disconnect(c) ==
  /\ Reading(c) /\ phase[c] = "auth"
  /\ phase' = [phase EXCEPT ![c] = "leaving"]
  /\ Kept /\ UNCHANGED <<name, hub, packets>>

\* A refused packet; what was queued for the client is still written.
Refused(c) ==
  /\ Reading(c) /\ removed' = removed \cup {c}
  /\ UNCHANGED <<phase, name, turn, hub, retained, sent, packets, received>>

\* An idle or broken connection.
HungUp(c) ==
  /\ turn = c /\ removed' = removed \cup {c} /\ turn' = After(c)
  /\ UNCHANGED <<phase, name, hub, retained, sent, packets, received>>

\* Mutant: an overflow is not looked at.
WriteAnyway(c) ==
  /\ turn = c /\ turn' = After(c)
  /\ \E k \in 0..Len(output[c]) :
       /\ received' = [received EXCEPT ![c] = @ \o SubSeq(output[c], 1, k)]
       /\ output' = [output EXCEPT ![c] = SubSeq(@, k + 1, Len(@))]
       /\ removed' = IF c \in Closing /\ k = Len(output[c])
                     THEN removed \cup {c} ELSE removed
  /\ UNCHANGED <<phase, name, filters, overflow, owed, retained, sent, packets>>

\* As much is written as the socket takes.
Write(c) ==
  /\ turn = c /\ turn' = After(c)
  /\ IF overflow[c] THEN removed' = removed \cup {c} /\ UNCHANGED <<received, output>>
     ELSE \E k \in 0..Len(output[c]) :
            /\ received' = [received EXCEPT ![c] = @ \o SubSeq(output[c], 1, k)]
            /\ output' = [output EXCEPT ![c] = SubSeq(@, k + 1, Len(@))]
            /\ removed' = IF c \in Closing /\ k = Len(output[c])
                          THEN removed \cup {c} ELSE removed
  /\ UNCHANGED <<phase, name, filters, overflow, owed, retained, sent, packets>>

\* The older of two connections of one client is given up.
Replaced(c) == c \in Authenticated /\ \E d \in Authenticated : name[c] = name[d] /\ c < d

EndRound ==
  LET gone == removed \cup {c \in Live : Replaced(c)} IN
  /\ turn = MaxConns + 1
  /\ phase' = [c \in Conn |-> IF c \in gone THEN "gone" ELSE phase[c]]
  /\ filters' = [c \in Conn |-> IF c \in gone THEN {} ELSE filters[c]]
  /\ output' = [c \in Conn |-> IF c \in gone THEN <<>> ELSE output[c]]
  /\ turn' = 0 /\ removed' = {}
  /\ UNCHANGED <<name, overflow, retained, sent, packets, received, owed>>

Init ==
  /\ phase = [c \in Conn |-> "unborn"] /\ name = [c \in Conn |-> None]
  /\ turn = 0 /\ removed = {}
  /\ filters = [c \in Conn |-> {}] /\ output = [c \in Conn |-> <<>>]
  /\ overflow = [c \in Conn |-> FALSE]
  /\ retained = [t \in Topic |-> 0]
  /\ sent = 0 /\ packets = 0
  /\ received = [c \in Conn |-> <<>>] /\ owed = [c \in Conn |-> <<>>]

Packet(c) == \/ \E n \in Name : Connect(c, n)
             \/ \E t \in Topic : Subscribe(c, t) \/ Unsubscribe(c, t)
             \/ \E t \in Topic, r \in BOOLEAN : ClientPublish(c, t, r)
             \/ Disconnect(c) \/ Refused(c)

Next == \/ Accept \/ EndRound
        \/ \E c \in Conn : Packet(c) \/ HungUp(c) \/ Write(c)
        \/ \E t \in Topic : HttpPublish(t)

Spec == Init /\ [][Next]_vars

-----------------------------------------------------------------------------
(***************************************************************************)
(* Properties.                                                             *)
(***************************************************************************)
\* Types and limits.
TypeOK ==
  /\ phase \in [Conn -> {"unborn", "new", "auth", "refused", "leaving", "gone"}]
  /\ name \in [Conn -> Name \cup {None}]
  /\ turn \in 0..(MaxConns + 1) /\ removed \subseteq Live
  /\ \A c \in Conn : filters[c] \subseteq Topic /\ Len(output[c]) <= OutputLimit
  /\ retained \in [Topic -> 0..sent]
  /\ Cardinality(Live) <= MaxClients

\* What a client reads is what was sent to it, in order and with nothing left out:
\* a client too slow for its buffer is dropped before it can see the gap.
NoGap == \A c \in Conn : IsPrefix(received[c], owed[c])

\* A subscriber has, or is about to be sent, the retained message of its topic or
\* a later one, even if it was published while it subscribed.
RetainedArrives ==
  \A c \in Live, t \in Topic :
    t \in filters[c] /\ retained[t] # 0 /\ ~overflow[c] =>
      \E k \in 1..(Len(received[c]) + Len(output[c])) :
        LET m == (received[c] \o output[c])[k] IN m.topic = t /\ m.number >= retained[t]

\* Between rounds a client id has one connection, the newest.
OneSession ==
  turn = 0 => \A c, d \in Authenticated : name[c] = name[d] => c = d
=============================================================================
