----------------------------- MODULE Datagrams -----------------------------
(***************************************************************************)
(* What the datagram objects have in common: senders with their queues,    *)
(* and a network that loses, duplicates and reorders datagrams.            *)
(*                                                                         *)
(* A sender is what SendPath promises of it: it takes chunks while it      *)
(* runs, writes them in order and drops the rest when it is destroyed.     *)
(***************************************************************************)
EXTENDS Net, Chunk, FiniteSets

CONSTANTS
  Lists,    \* messages with data: sequences of integers
  MaxQueue, \* bound: chunks in a queue
  MaxWire   \* bound: datagrams on the way

ASSUME ListsAssumption == Lists \subseteq Seq(Int)
ASSUME DatagramBounds == MaxQueue \in Nat /\ MaxWire \in Nat

VARIABLES
  wire,     \* datagrams on the way
  sent,     \* history: the messages that a sender has taken
  nosender  \* history: objects that got no sender for a socket

dgVars == <<wire, sent, nosender>>

ChunksOf == {ChunkCreateList(l) : l \in Lists} \ {NoChunk}

Off == [state |-> NULL, queue |-> <<>>]
Senders == [state : SenderStates, queue : UNION {[1 .. n -> ChunksOf] :
                                                   n \in 0 .. MaxQueue}]

DatagramsInit == wire = {} /\ sent = {} /\ nosender = {}

(* iemnet__sender_create *)
SenderMade(state) == [state |-> state, queue |-> <<>>]
NoteSender(o, state) ==
  nosender' = IF state = NULL THEN nosender \cup {o} ELSE nosender

(* Mutant: the fill state is read before the chunk is linked.              *)
SenderSendEarly(s, c) ==
  IF s.state = "stopped" THEN [sender |-> s, size |-> -1]
  ELSE [sender |-> [s EXCEPT !.queue = IF c = NoChunk THEN @ ELSE Append(@, c)],
        size |-> QueuedBytes(s.queue)]

(* iemnet__sender_send: -1 from a sender that has stopped, else the fill   *)
(* state after the push; no chunk is pushed for none.                      *)
SenderSend(s, c) ==
  LET q == IF c = NoChunk THEN s.queue ELSE Append(s.queue, c)
  IN  IF s.state = "stopped" THEN [sender |-> s, size |-> -1]
      ELSE [sender |-> [s EXCEPT !.queue = q], size |-> QueuedBytes(q)]

Room(s, c) == c = NoChunk \/ Len(s.queue) < MaxQueue

(* The send thread writes the oldest chunk to the socket fd ...            *)
SenderWrites(s, fd) ==
  /\ s.state = "running" /\ s.queue # <<>>
  /\ Cardinality(wire) < MaxWire
  /\ wire' = wire \cup {[port |-> net.remote[fd], data |-> Head(s.queue)]}

(* ... or fails and ends.                                                  *)
Written(s) == [s EXCEPT !.queue = Tail(@)]
SenderFails(s) == s.state = "running" /\ s.queue # <<>>
Failed(s) == [state |-> "stopped", queue |-> Tail(s.queue)]

(* A datagram gets lost; another one may overtake it.                      *)
Lose ==
  /\ \E d \in wire : wire' = wire \ {d}
  /\ UNCHANGED <<netVars, sent, nosender>>

(* One arrives at a socket bound to its port; a copy may still be on the   *)
(* way.                                                                    *)
Arrives(d, fd) ==
  /\ d \in wire /\ d.port = net.remote[fd]
  /\ wire' \in {wire, wire \ {d}}

DatagramsTypeOK ==
  /\ wire \subseteq [port : Ports, data : ChunksOf]
  /\ sent \subseteq Lists
============================================================================
