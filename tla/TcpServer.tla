----------------------------- MODULE TcpServer -----------------------------
(***************************************************************************)
(* The connection table of one [tcpserver] object (tcpserver.c): accepting *)
(* clients, addressing them by number, by socket and by default target,    *)
(* sending, disconnecting, changing port and capacity.                     *)
(*                                                                         *)
(* All of it runs on Pd's main thread, one message or poll callback at a   *)
(* time; only the send threads of the clients (module Sender) run beside   *)
(* it, and what the table sees of them is that iemnet__sender_send starts  *)
(* to return -1.  The two loops over clients are modelled client by client *)
(* because a send thread can stop between two iterations.                  *)
(***************************************************************************)
EXTENDS Integers, Sequences, FiniteSets

CONSTANTS
  MaxSlots,    \* bound: the largest capacity considered
  InitMax,     \* MAX_CONNECT, the initial capacity
  Capacities,  \* arguments of "maxconnections"
  TargetSocks, \* arguments of "targetsocket"
  Fds,         \* file descriptors the operating system hands out
  Ports,       \* TCP port numbers
  MaxClients   \* bound: connections accepted over the life of the object

ASSUME CapacityAssumption == /\ MaxSlots \in Nat
                             /\ InitMax \in 1 .. MaxSlots
                             /\ Capacities \subseteq 1 .. MaxSlots
ASSUME TargetsAssumption == TargetSocks \subseteq Int
ASSUME FdsAssumption == Fds \subseteq Nat \ {0}
ASSUME PortsAssumption == Ports \subseteq Nat \ {0}
ASSUME BoundAssumption == MaxClients \in Nat

VARIABLES
  x_sr,             \* the table: per slot a client or NoClient
  x_nconnections,
  x_maxconnections, \* slots 0 .. x_maxconnections - 1 are allocated
  x_accepting,
  x_connectsocket,  \* the listening socket or -1
  x_port,
  x_defaulttarget,  \* a socket, the negative of one, or 0 for broadcast
  openfds,          \* sockets open on behalf of the object
  polled,           \* sockets with a poll function registered at Pd
  stopped,          \* clients whose sender refuses data
  loop,             \* the loop over clients the main thread is in
  ub,               \* the object has accessed memory outside x_sr
  freed,            \* the object has been deleted
  accepted,         \* history: number of clients accepted so far
  chosen,           \* history: the client "target" selected, 0 if none
  got               \* history: clients that took the current broadcast

tableVars == <<x_sr, x_nconnections, x_maxconnections>>
netVars == <<x_accepting, x_connectsocket, x_port, openfds, polled>>
vars == <<tableVars, netVars, x_defaulttarget, stopped, loop, ub, freed,
          accepted, chosen, got>>

NoClient == [id |-> 0, fd |-> -1]
Slots == 0 .. MaxSlots - 1
ClientIds == 1 .. MaxClients
Clients == [id : ClientIds, fd : Fds]
Connected == {x_sr[i].id : i \in 0 .. x_nconnections - 1}

NoLoop == [op |-> "none", snap |-> <<>>, pos |-> 0]

(* The main thread is free to handle a message or a poll callback.         *)
Ready == loop = NoLoop /\ ~ub /\ ~freed

----------------------------------------------------------------------------
(* tcpserver_new, before it calls tcpserver_port.                          *)
Init ==
  /\ x_sr = [i \in Slots |-> NoClient]
  /\ x_nconnections = 0
  /\ x_maxconnections = InitMax
  /\ x_accepting = TRUE
  /\ x_connectsocket = -1
  /\ x_port = -1
  /\ x_defaulttarget = 0
  /\ openfds = {} /\ polled = {}
  /\ stopped = {}
  /\ loop = NoLoop
  /\ ub = FALSE /\ freed = FALSE
  /\ accepted = 0 /\ chosen = 0 /\ got = <<>>

(* Mutant: a client number, counted from 1, where an index is wanted.      *)
Socket2Number(fd) ==
  LET hits == {i \in 0 .. x_nconnections - 1 : x_sr[i].fd = fd}
  IN  IF hits = {} THEN -1 ELSE 1 + CHOOSE i \in hits : \A j \in hits : i <= j

(* tcpserver_socket2index; -1 if no client has the socket.                 *)
Socket2Index(fd) ==
  LET hits == {i \in 0 .. x_nconnections - 1 : x_sr[i].fd = fd}
  IN  IF hits = {} THEN -1 ELSE CHOOSE i \in hits : \A j \in hits : i <= j

(* Mutant: the number is not compared with x_nconnections.                 *)
FixIndexUnbounded(client) == IF client >= 1 THEN client - 1 ELSE -1

(* tcpserver_fixindex: from a client number to an index, -1 if invalid.    *)
FixIndex(client) == IF client \in 1 .. x_nconnections THEN client - 1 ELSE -1

(* tcpserver_port: a no-op for the current port; else close the listening  *)
(* socket and try to open a new one (port 0 lets the system choose).       *)
PortSame(p) == Ready /\ p = x_port /\ UNCHANGED vars

PortFails(p) ==
  /\ Ready /\ p # x_port
  /\ x_connectsocket' = -1
  /\ x_port' = -1
  /\ openfds' = openfds \ {x_connectsocket}
  /\ polled' = polled \ {x_connectsocket}
  /\ UNCHANGED <<tableVars, x_accepting, x_defaulttarget, stopped, loop, ub,
                 freed, accepted, chosen, got>>

PortOpens(p) ==
  /\ Ready /\ p # x_port
  /\ \E fd \in Fds \ (openfds \ {x_connectsocket}) :
       /\ x_connectsocket' = fd
       /\ openfds' = (openfds \ {x_connectsocket}) \cup {fd}
       /\ polled' = (polled \ {x_connectsocket}) \cup {fd}
  /\ x_port' \in IF p = 0 THEN Ports ELSE {p}
  /\ UNCHANGED <<tableVars, x_accepting, x_defaulttarget, stopped, loop, ub,
                 freed, accepted, chosen, got>>

(* tcpserver_socketreceiver_new; sr_client is only reported, never read.   *)
SocketReceiverNew(fd) == [id |-> accepted + 1, fd |-> fd]

(* Mutant: the receiver of the client is not destroyed.                    *)
SocketReceiverStaysPolled(c) ==
  /\ openfds' = openfds \ {c.fd}
  /\ stopped' = stopped \ {c.id}
  /\ UNCHANGED polled

(* tcpserver_socketreceiver_free: the sender, the receiver with its poll   *)
(* function, the socket.                                                   *)
SocketReceiverFree(c) ==
  /\ openfds' = openfds \ {c.fd}
  /\ polled' = polled \ {c.fd}
  /\ stopped' = stopped \ {c.id}

(* tcpserver_connectpoll, for a client that gets into the table: the slot  *)
(* after the last one, a sender, and a receiver polled by Pd.              *)
ConnectAdd ==
  /\ Ready /\ x_connectsocket # -1
  /\ x_accepting /\ x_nconnections < x_maxconnections
  /\ accepted < MaxClients
  /\ \E fd \in Fds \ openfds :
       /\ x_sr' = [x_sr EXCEPT ![x_nconnections] = SocketReceiverNew(fd)]
       /\ openfds' = openfds \cup {fd}
       /\ polled' = polled \cup {fd}
  /\ x_nconnections' = x_nconnections + 1
  /\ accepted' = accepted + 1
  /\ UNCHANGED <<x_maxconnections, x_accepting, x_connectsocket, x_port,
                 x_defaulttarget, stopped, loop, ub, freed, chosen, got>>

(* The new socket is closed again: not accepting, or the table is full.    *)
ConnectDrop ==
  /\ Ready /\ x_connectsocket # -1
  /\ ~x_accepting \/ x_nconnections >= x_maxconnections
  /\ UNCHANGED vars

(* A send thread ends because send(2) failed; the sender refuses data from *)
(* then on.  A client whose sender could not be created is in this state   *)
(* from the beginning.                                                     *)
SenderStops ==
  /\ ~ub /\ ~freed
  /\ \E c \in Connected \ stopped : stopped' = stopped \cup {c}
  /\ UNCHANGED <<tableVars, netVars, x_defaulttarget, loop, ub, freed,
                 accepted, chosen, got>>

----------------------------------------------------------------------------
(* Mutant: the last client moves into the gap.                             *)
DisconnectSwapsLast(i) ==
  /\ SocketReceiverFree(x_sr[i])
  /\ x_sr' = [x_sr EXCEPT ![i] = x_sr[x_nconnections - 1],
                          ![x_nconnections - 1] = NoClient]
  /\ ub' = FALSE
  /\ x_nconnections' = x_nconnections - 1
  /\ UNCHANGED <<x_maxconnections, x_accepting, x_connectsocket, x_port, freed,
                 accepted>>

(* tcpserver_disconnect: free the client and shift the rest of the table.  *)
(* The shift reads slot x_nconnections and clears the slot after it,       *)
(* whether allocated or not.                                               *)
Disconnect(i) ==
  /\ SocketReceiverFree(x_sr[i])
  /\ x_sr' = [k \in Slots |->
       IF k \in i .. x_nconnections - 1 /\ k + 1 \in Slots THEN x_sr[k + 1]
       ELSE IF k = x_nconnections + 1 THEN NoClient ELSE x_sr[k]]
  /\ ub' = (x_nconnections + 1 >= x_maxconnections)
  /\ x_nconnections' = x_nconnections - 1
  /\ UNCHANGED <<x_maxconnections, x_accepting, x_connectsocket, x_port, freed,
                 accepted>>

(* tcpserver_disconnect_client *)
DisconnectClient(client) ==
  /\ Ready
  /\ FixIndex(client) >= 0
  /\ Disconnect(FixIndex(client))
  /\ UNCHANGED <<x_defaulttarget, loop, chosen, got>>

(* tcpserver_disconnect_socket, from a message or because the receiver     *)
(* reported the end of the connection (tcpserver_receive_callback).        *)
DisconnectSocket(fd) ==
  /\ Ready
  /\ Socket2Index(fd) >= 0
  /\ DisconnectClient(Socket2Index(fd) + 1)

(* tcpserver_disconnect_all: one iteration per step.                       *)
DisconnectAllCall ==
  /\ Ready
  /\ loop' = [op |-> "disconnect", snap |-> <<>>, pos |-> 0]
  /\ UNCHANGED <<tableVars, netVars, x_defaulttarget, stopped, ub, freed,
                 accepted, chosen, got>>

DisconnectAllStep ==
  /\ loop.op = "disconnect" /\ ~ub
  /\ loop.pos < x_nconnections
  /\ Disconnect(loop.pos)
  /\ loop' = [loop EXCEPT !.pos = @ + 1]
  /\ UNCHANGED <<x_defaulttarget, chosen, got>>

DisconnectAllDone ==
  /\ loop.op = "disconnect" /\ ~ub
  /\ loop.pos >= x_nconnections
  /\ loop' = NoLoop
  /\ UNCHANGED <<tableVars, netVars, x_defaulttarget, stopped, ub, freed,
                 accepted, chosen, got>>

----------------------------------------------------------------------------
(* tcpserver_send_bytes_client to client c: queued, or disconnected if its *)
(* sender refuses.                                                         *)
SendBytesClient(c) ==
  IF c.id \in stopped /\ Socket2Index(c.fd) >= 0
  THEN Disconnect(Socket2Index(c.fd))
  ELSE UNCHANGED <<tableVars, netVars, stopped, ub, freed, accepted>>

SendToIndex(i) ==
  /\ SendBytesClient(x_sr[i])
  /\ UNCHANGED <<x_defaulttarget, loop, chosen, got>>

(* tcpserver_send_client and tcpserver_send_socket, with a payload.        *)
SendClient(client) ==
  Ready /\ FixIndex(client) >= 0 /\ SendToIndex(FixIndex(client))

SendSocket(fd) ==
  Ready /\ Socket2Index(fd) >= 0 /\ SendToIndex(Socket2Index(fd))

(* tcpserver_broadcast and tcpserver_send_butclient: a copy of the table,  *)
(* without the client at index "but", is walked by                         *)
(* tcpserver_send_bytes_clients.                                           *)
StartSend(but) ==
  /\ loop' = [op |-> "send",
              snap |-> [i \in 1 .. x_nconnections |->
                          IF i - 1 = but THEN NoClient ELSE x_sr[i - 1]],
              pos |-> 1]
  /\ got' = <<>>
  /\ UNCHANGED <<tableVars, netVars, stopped, ub, freed, accepted, chosen>>

Broadcast ==
  /\ Ready /\ x_nconnections > 0
  /\ StartSend(-1)
  /\ UNCHANGED x_defaulttarget

(* Mutant: the loop walks the table itself and not the copy.               *)
SendStepLive ==
  /\ loop.op = "send" /\ ~ub
  /\ loop.pos <= Len(loop.snap)
  /\ LET c == x_sr[loop.pos - 1] IN
     IF c = NoClient
     THEN UNCHANGED <<tableVars, netVars, stopped, ub, freed, accepted, got>>
     ELSE /\ SendBytesClient(c)
          /\ got' = IF c.id \in stopped THEN got ELSE Append(got, c.id)
  /\ loop' = [loop EXCEPT !.pos = @ + 1]
  /\ UNCHANGED <<x_defaulttarget, chosen>>

SendStep ==
  /\ loop.op = "send" /\ ~ub
  /\ loop.pos <= Len(loop.snap)
  /\ LET c == loop.snap[loop.pos] IN
     IF c = NoClient
     THEN UNCHANGED <<tableVars, netVars, stopped, ub, freed, accepted, got>>
     ELSE /\ SendBytesClient(c)
          /\ got' = IF c.id \in stopped THEN got ELSE Append(got, c.id)
  /\ loop' = [loop EXCEPT !.pos = @ + 1]
  /\ UNCHANGED <<x_defaulttarget, chosen>>

SendDone ==
  /\ loop.op = "send" /\ ~ub
  /\ loop.pos > Len(loop.snap)
  /\ loop' = NoLoop
  /\ got' = <<>>
  /\ UNCHANGED <<tableVars, netVars, x_defaulttarget, stopped, ub, freed,
                 accepted, chosen>>

(* tcpserver_defaultsend: to the target, to all but the target, or, when   *)
(* the target is gone, switching back to broadcast.                        *)
DefaultSendOne ==
  Ready /\ x_defaulttarget > 0 /\ SendSocket(x_defaulttarget)

DefaultSendBut ==
  /\ Ready /\ x_defaulttarget < 0
  /\ Socket2Index(-x_defaulttarget) >= 0
  /\ StartSend(Socket2Index(-x_defaulttarget))
  /\ UNCHANGED x_defaulttarget

DefaultSendAll ==
  /\ Ready
  /\ \/ x_defaulttarget = 0
     \/ x_defaulttarget > 0 /\ Socket2Index(x_defaulttarget) < 0
     \/ x_defaulttarget < 0 /\ Socket2Index(-x_defaulttarget) < 0
  /\ x_defaulttarget' = 0
  /\ IF x_nconnections > 0
     THEN StartSend(-1)
     ELSE UNCHANGED <<tableVars, netVars, stopped, loop, ub, freed, accepted,
                      chosen, got>>

(* Mutant: the target is the client number.                                *)
DefaultTargetNumber(client, sign) ==
  /\ Ready /\ client <= x_nconnections
  /\ x_defaulttarget' = sign * client
  /\ chosen' = IF client = 0 THEN 0 ELSE x_sr[client - 1].id
  /\ UNCHANGED <<tableVars, netVars, stopped, loop, ub, freed, accepted, got>>

(* tcpserver_defaulttarget: a client number (negative: all but that one)   *)
(* is turned into its socket.                                              *)
DefaultTarget(client, sign) ==
  /\ Ready /\ client <= x_nconnections
  /\ x_defaulttarget' = IF client = 0 THEN 0 ELSE sign * x_sr[client - 1].fd
  /\ chosen' = IF client = 0 THEN 0 ELSE x_sr[client - 1].id
  /\ UNCHANGED <<tableVars, netVars, stopped, loop, ub, freed, accepted, got>>

(* tcpserver_targetsocket: any number.                                     *)
TargetSocket(sock) ==
  /\ Ready
  /\ x_defaulttarget' = sock
  /\ chosen' = 0
  /\ UNCHANGED <<tableVars, netVars, stopped, loop, ub, freed, accepted, got>>

----------------------------------------------------------------------------
(* tcpserver_accept *)
AcceptFlag(doit) ==
  /\ Ready
  /\ x_accepting' = doit
  /\ UNCHANGED <<tableVars, x_connectsocket, x_port, openfds, polled,
                 x_defaulttarget, stopped, loop, ub, freed, accepted, chosen,
                 got>>

(* tcpserver_maxconnections: resizebytes keeps the common part and zeroes  *)
(* what it adds.                                                           *)
MaxConnections(maxconn) ==
  /\ Ready
  /\ maxconn >= 1 /\ maxconn >= x_nconnections /\ maxconn # x_maxconnections
  /\ x_maxconnections' = maxconn
  /\ x_sr' = [i \in Slots |-> IF i < maxconn /\ i < x_maxconnections
                              THEN x_sr[i] ELSE NoClient]
  /\ UNCHANGED <<x_nconnections, netVars, x_defaulttarget, stopped, loop, ub,
                 freed, accepted, chosen, got>>

(* tcpserver_free walks all allocated slots.                               *)
Free ==
  /\ Ready
  /\ LET fds == {x_sr[i].fd : i \in 0 .. x_maxconnections - 1}
                  \cup {x_connectsocket}
     IN  openfds' = openfds \ fds /\ polled' = polled \ fds
  /\ x_sr' = [i \in Slots |-> NoClient]
  /\ freed' = TRUE
  /\ UNCHANGED <<x_nconnections, x_maxconnections, x_accepting,
                 x_connectsocket, x_port, x_defaulttarget, stopped, loop, ub,
                 accepted, chosen, got>>

Next ==
  \/ \E p \in Ports \cup {0} : PortSame(p) \/ PortFails(p) \/ PortOpens(p)
  \/ ConnectAdd \/ ConnectDrop \/ SenderStops
  \/ \E k \in 1 .. MaxSlots : DisconnectClient(k) \/ SendClient(k)
  \/ \E fd \in Fds : DisconnectSocket(fd) \/ SendSocket(fd)
  \/ DisconnectAllCall \/ DisconnectAllStep \/ DisconnectAllDone
  \/ Broadcast \/ SendStep \/ SendDone
  \/ DefaultSendOne \/ DefaultSendBut \/ DefaultSendAll
  \/ \E k \in 0 .. MaxSlots, sign \in {1, -1} : DefaultTarget(k, sign)
  \/ \E s \in TargetSocks : TargetSocket(s)
  \/ \E doit \in BOOLEAN : AcceptFlag(doit)
  \/ \E m \in Capacities : MaxConnections(m)
  \/ Free

Spec == Init /\ [][Next]_vars

----------------------------------------------------------------------------
(* Type invariant of the object.                                           *)
TypeOK ==
  /\ x_sr \in [Slots -> Clients \cup {NoClient}]
  /\ x_nconnections \in 0 .. MaxSlots
  /\ x_maxconnections \in 1 .. MaxSlots
  /\ x_accepting \in BOOLEAN
  /\ x_connectsocket \in Fds \cup {-1}
  /\ x_port \in Ports \cup {-1}
  /\ x_defaulttarget \in Int
  /\ openfds \subseteq Fds /\ polled \subseteq Fds
  /\ stopped \subseteq ClientIds
  /\ loop.op \in {"none", "send", "disconnect"} /\ loop.pos \in Nat
  /\ loop.snap \in Seq(Clients \cup {NoClient})
  /\ ub \in BOOLEAN /\ freed \in BOOLEAN
  /\ accepted \in 0 .. MaxClients /\ chosen \in 0 .. MaxClients
  /\ got \in Seq(ClientIds)

(* As long as no access left the table, its first x_nconnections slots     *)
(* hold the clients in the order they connected and all others are empty,  *)
(* so that socket2index and tcpserver_defaulttarget never follow a NULL    *)
(* pointer, and client numbers only ever move down together.               *)
TableInOrder ==
  ~ub /\ ~freed =>
    /\ x_nconnections <= x_maxconnections
    /\ \A i \in 0 .. x_nconnections - 1 : x_sr[i] # NoClient
    /\ \A i \in Slots : i >= x_nconnections => x_sr[i] = NoClient
    /\ \A i, j \in 0 .. x_nconnections - 1 : i < j => x_sr[i].id < x_sr[j].id

(* No socket leaks and none is used after close: the open sockets are the  *)
(* listening one and one per client, no two clients share one, and exactly *)
(* these are polled; deleting the object closes them all.                  *)
SocketsAccounted ==
  ~ub => LET inUse == IF freed THEN {}
                      ELSE ({x_connectsocket} \ {-1})
                            \cup {x_sr[i].fd : i \in 0 .. x_nconnections - 1}
         IN  /\ openfds = inUse /\ polled = inUse
             /\ ~freed => Cardinality(openfds) = x_nconnections
                            + (IF x_connectsocket = -1 THEN 0 ELSE 1)

(* The copy of the table a broadcast walks holds no freed client: those    *)
(* still to be visited are connected, whatever was disconnected on the way *)
(* because its sender refused.                                             *)
CopyHoldsNoFreedClient ==
  loop.op = "send" /\ ~ub =>
    \A i \in loop.pos .. Len(loop.snap) :
      loop.snap[i] # NoClient => loop.snap[i].id \in Connected

(* A broadcast serves every client of the copy once, in table order:       *)
(* when it ends, each of them has taken the message or has been            *)
(* disconnected, and nobody else has got it.                               *)
BroadcastServesAll ==
  [][loop.op = "send" /\ loop' = NoLoop =>
      /\ \A i \in 1 .. Len(loop.snap) :
           LET c == loop.snap[i].id IN
           c # 0 => (\E j \in 1 .. Len(got) : got[j] = c) # (c \notin Connected')
      /\ \A j \in 1 .. Len(got) :
           /\ \E i \in 1 .. Len(loop.snap) : loop.snap[i].id = got[j]
           /\ \A k \in 1 .. Len(got) : j < k => got[j] < got[k]]_vars

(* tcpserver-help.pd on "disconnect": "disconnect all clients".            *)
DisconnectAllDisconnects ==
  [][loop.op = "disconnect" /\ loop' = NoLoop => x_nconnections' = 0]_vars

(* The table has room for x_maxconnections clients, the number             *)
(* tcpserver_connectpoll lets in, and disconnecting one of them stays      *)
(* inside it.                                                              *)
TableInBounds == ~ub

(* ChangeLog: "made target persistent, even if clients disconnect": a      *)
(* default target set by client number denotes that client and no other    *)
(* one for as long as it is connected, wherever it moves in the table.     *)
TargetStaysWithClient ==
  ~ub /\ ~freed /\ chosen \in Connected =>
    \A i \in 0 .. x_nconnections - 1 :
      x_sr[i].fd \in {x_defaulttarget, -x_defaulttarget} <=> x_sr[i].id = chosen
============================================================================
