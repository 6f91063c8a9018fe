----------------------------- MODULE UdpServer -----------------------------
(***************************************************************************)
(* The client table of one [udpserver] object (udpserver.c).  All clients  *)
(* share the socket the object is bound to; a client is added when a       *)
(* datagram comes from a new address, expires when it has been silent for  *)
(* x_timeout, and owns a sender (module Sender) that keeps the number of   *)
(* the socket it was created with.                                         *)
(*                                                                         *)
(* Everything runs on Pd's main thread; beside it only a send thread may   *)
(* stop, and the logical time advances between two messages.  ub records   *)
(* that the code followed a NULL pointer, which ends the program.          *)
(***************************************************************************)
EXTENDS Integers, Sequences, FiniteSets, SequencesExt

CONSTANTS
  MaxSlots,    \* bound: the largest capacity considered
  InitMax,     \* MAX_CONNECT, the initial capacity
  Capacities,  \* arguments of "maxconnections"
  Addrs,       \* host and port of a client
  Fds,         \* file descriptors the operating system hands out
  Ports,       \* UDP port numbers
  Targets,     \* arguments of "target"; negative: all but that client
  Ifs,         \* interface addresses, besides 0 for any
  Timeouts,    \* arguments of "timeout"; not positive: never
  MaxTime,     \* bound: logical time considered
  MaxClients,  \* bound: clients added over the life of the object
  MaxPolled    \* bound: receivers created over the life of the object

(* The largest unsigned short, the type of x_port and of port numbers.     *)
PortMax == 65535

ASSUME UdpCapacityAssumption == /\ MaxSlots \in Nat
                                /\ InitMax \in 1 .. MaxSlots
                                /\ Capacities \subseteq 1 .. MaxSlots
ASSUME UdpNumbersAssumption == /\ Fds \subseteq Nat \ {0}
                               /\ Ports \subseteq 1 .. PortMax
                               /\ Ifs \subseteq Nat \ {0}
                               /\ Timeouts \subseteq Int /\ Targets \subseteq Int
                               /\ MaxTime \in Nat /\ MaxClients \in Nat
                               /\ MaxPolled \in Nat

VARIABLES
  x_sr,             \* the table: per slot a client or NoClient
  x_nconnections,
  x_maxconnections, \* slots 0 .. x_maxconnections - 1 are allocated
  x_accept,
  x_timeout,
  x_lastchecked,
  x_connectsocket,  \* the bound socket or -1
  x_port, x_ifaddr, \* what it is bound to
  x_receiver,       \* the socket of the receiver, -1 for NULL
  x_defaulttarget,  \* sr_uniq of a client, its negative, or 0
  uniq,             \* the static counter sr_uniq is taken from
  now,              \* Pd's logical time
  openfds,          \* sockets open on behalf of the object
  polled,           \* Pd's list of poll functions, as sockets
  live,             \* sr_uniq of the clients allocated and not freed
  stopped,          \* those whose sender refuses data
  loop,             \* the loop over clients the main thread is in
  ub,               \* the code has followed a NULL pointer
  freed,            \* the object has been deleted
  checkedwith       \* history: x_timeout when x_lastchecked was set

tableVars == <<x_sr, x_nconnections, x_lastchecked, checkedwith, live, stopped,
               openfds>>
bindVars == <<x_connectsocket, x_port, x_ifaddr, x_receiver, polled>>
optVars == <<x_maxconnections, x_accept, x_timeout>>
vars == <<tableVars, bindVars, optVars, x_defaulttarget, uniq, now, loop, ub,
          freed>>

FirstUniq == 1000

(* Mutant: x_port is not unsigned.                                         *)
NoPortSigned == -1

(* -1 as an unsigned short, the type of x_port.                            *)
NoPort == (-1) % (PortMax + 1)
NoClient == [uniq |-> -1, addr |-> {}, seen |-> 0, fd |-> -1]
Slots == 0 .. MaxSlots - 1
Uniqs == FirstUniq .. FirstUniq + MaxClients - 1
Clients == [uniq : Uniqs, addr : Addrs, seen : 0 .. MaxTime, fd : Fds \cup {-1}]
Payloads == {"bytes", "empty"}

NoLoop == [op |-> "none", pos |-> 0, but |-> -1, data |-> "bytes"]
Ready == loop = NoLoop /\ ~ub /\ ~freed

----------------------------------------------------------------------------
(* udpserver_new, before it calls udpserver_port.                          *)
Init ==
  /\ x_sr = [i \in Slots |-> NoClient]
  /\ x_nconnections = 0 /\ x_maxconnections = InitMax
  /\ x_accept = TRUE /\ x_timeout = 0 /\ x_lastchecked = 0
  /\ x_connectsocket = -1 /\ x_port = NoPort /\ x_ifaddr = 0 /\ x_receiver = -1
  /\ x_defaulttarget = 0
  /\ uniq = FirstUniq
  /\ now = 0
  /\ openfds = {} /\ polled = <<>>
  /\ live = {} /\ stopped = {}
  /\ loop = NoLoop
  /\ ub = FALSE /\ freed = FALSE /\ checkedwith = 0

(* A search reads the slots below x_nconnections in order, up to the first *)
(* that matches or is empty.                                               *)
FirstAt(matching) ==
  LET hits == {i \in 0 .. x_nconnections - 1 : x_sr[i] = NoClient \/ i \in matching}
  IN  IF hits = {} THEN -1 ELSE CHOOSE i \in hits : \A j \in hits : i <= j

(* udpserver_socket2index does not test for NULL: -2 is a crash.           *)
Socket2Index(u) ==
  LET i == FirstAt({j \in Slots : x_sr[j].uniq = u})
  IN  IF i >= 0 /\ x_sr[i] = NoClient THEN -2 ELSE i

(* udpserver__find_sender gives up at the first NULL.                      *)
FindSender(a) ==
  LET i == FirstAt({j \in Slots : x_sr[j].addr = a})
  IN  IF i >= 0 /\ x_sr[i] = NoClient THEN -1 ELSE i

(* udpserver_fixindex *)
FixIndex(client) == IF client \in 1 .. x_nconnections THEN client - 1 ELSE -1

----------------------------------------------------------------------------
(* What the functions on the table return, as functions of it.             *)
Table == [sr |-> x_sr, n |-> x_nconnections, live |-> live,
          checked |-> x_lastchecked, with |-> checkedwith]

(* Mutant: freeing a client closes the socket of its sender.               *)
ClosesSocket(gone) == IF gone = {} THEN {} ELSE {x_connectsocket}

(* udpserver_sender_free closes the descriptor numbered sr_uniq.           *)
ClosedWith(gone) == gone

(* The new table; the sender of a freed client is destroyed.               *)
SetTable(t) ==
  /\ x_sr' = t.sr
  /\ x_nconnections' = t.n
  /\ x_lastchecked' = t.checked
  /\ checkedwith' = t.with
  /\ live' = t.live
  /\ stopped' = stopped \cap t.live
  /\ openfds' = openfds \ ClosedWith(live \ t.live)

(* Mutant: a client expires as soon as the time-out is reached.            *)
ExpiredAtOnce(c) == now - c.seen >= x_timeout

Expired(c) == now - c.seen > x_timeout

(* udpserver_sender_autoremove: free the expired clients among the first   *)
(* x_nconnections, move the others together, each behind those kept before *)
(* it, and clear the rest.                                                 *)
AutoRemove(t) ==
  IF x_timeout <= 0 \/ now <= t.checked THEN t
  ELSE LET known == {i \in 0 .. t.n - 1 : t.sr[i] # NoClient}
           kept == {i \in known : ~Expired(t.sr[i])}
           from(k) == {i \in kept : Cardinality({j \in kept : j < i}) = k}
       IN  [sr |-> [k \in Slots |-> IF from(k) = {} THEN NoClient
                                    ELSE t.sr[CHOOSE i \in from(k) : TRUE]],
            n |-> Cardinality(kept),
            live |-> t.live \ {t.sr[i].uniq : i \in known \ kept},
            checked |-> now,
            with |-> x_timeout]

(* Mutant: the slot of the freed client is not cleared.                    *)
SenderRemoveDangling(t, i) ==
  [t EXCEPT !.n = @ - 1, !.live = @ \ {t.sr[i].uniq}]

(* udpserver_sender_remove, of a client that is there: the loop that       *)
(* should shift the remaining clients copies the same slot again and again *)
(* and the slot is then cleared.                                           *)
SenderRemove(t, i) ==
  [t EXCEPT !.sr[i] = NoClient, !.n = @ - 1, !.live = @ \ {t.sr[i].uniq}]

(* Mutant: sr_lastseen is not initialised.                                 *)
SenderNewUnseen(a) ==
  [uniq |-> uniq, addr |-> a, seen |-> 0, fd |-> x_connectsocket]

(* udpserver_sender_new *)
SenderNew(a) ==
  [uniq |-> uniq, addr |-> a, seen |-> now, fd |-> x_connectsocket]

(* udpserver_sender_add *)
SenderAdd(a) ==
  LET i == FindSender(a) IN
  \/ /\ x_accept /\ i >= 0
     /\ SetTable([Table EXCEPT !.sr[i].seen = now])
     /\ UNCHANGED uniq
  \/ /\ x_accept /\ i < 0 /\ x_nconnections < x_maxconnections
     /\ uniq < FirstUniq + MaxClients
     /\ SetTable([Table EXCEPT !.sr[x_nconnections] = SenderNew(a),
                               !.n = @ + 1, !.live = @ \cup {uniq}])
     /\ uniq' = uniq + 1
  \/ /\ ~x_accept \/ (i < 0 /\ x_nconnections >= x_maxconnections)
     /\ UNCHANGED <<tableVars, uniq>>

(* udpserver_disconnect *)
Disconnect(i) ==
  IF i >= x_nconnections THEN UNCHANGED <<tableVars, ub>>
  ELSE IF x_sr[i] = NoClient THEN ub' = TRUE /\ UNCHANGED tableVars
  ELSE SetTable(AutoRemove(SenderRemove(Table, i))) /\ UNCHANGED ub

(* udpserver_send_bytes: writes the address into the chunk, which is NULL  *)
(* when the message was empty, and disconnects a client whose sender       *)
(* refuses.                                                                *)
SendBytes(i, data) ==
  IF x_sr[i] = NoClient THEN UNCHANGED <<tableVars, ub>>
  ELSE IF data = "empty" THEN ub' = TRUE /\ UNCHANGED tableVars
  ELSE IF x_sr[i].uniq \in stopped THEN Disconnect(i)
  ELSE UNCHANGED <<tableVars, ub>>

----------------------------------------------------------------------------
(* udpserver_receive_callback with a datagram, which a socket that is no   *)
(* longer open does not receive, and udpserver_add_client.                 *)
Receive(a) ==
  /\ Ready /\ x_connectsocket \in openfds
  /\ SenderAdd(a)
  /\ UNCHANGED <<bindVars, optVars, x_defaulttarget, now, loop, ub, freed>>

AddClient(a) ==
  /\ Ready
  /\ SenderAdd(a)
  /\ UNCHANGED <<bindVars, optVars, x_defaulttarget, now, loop, ub, freed>>

(* udpserver_info looks for expired clients first.                         *)
Info ==
  /\ Ready
  /\ SetTable(AutoRemove(Table))
  /\ UNCHANGED <<bindVars, optVars, x_defaulttarget, uniq, now, loop, ub, freed>>

(* udpserver_send_client, with a payload.                                  *)
SendClient(client, data) ==
  /\ Ready /\ FixIndex(client) >= 0
  /\ SendBytes(FixIndex(client), data)
  /\ UNCHANGED <<bindVars, optVars, x_defaulttarget, uniq, now, loop, freed>>

(* udpserver_broadcast and udpserver_send_butclient: a loop over the table *)
(* itself.                                                                 *)
StartSend(but, data) ==
  loop' = [op |-> "send", pos |-> 0, but |-> but, data |-> data]

Broadcast(data) ==
  /\ Ready
  /\ SetTable(AutoRemove(Table))
  /\ StartSend(-1, data)
  /\ UNCHANGED <<bindVars, optVars, x_defaulttarget, uniq, now, ub, freed>>

SendStep ==
  /\ loop.op = "send" /\ ~ub /\ loop.pos < x_nconnections
  /\ IF loop.pos = loop.but THEN UNCHANGED <<tableVars, ub>>
     ELSE SendBytes(loop.pos, loop.data)
  /\ loop' = [loop EXCEPT !.pos = @ + 1]
  /\ UNCHANGED <<bindVars, optVars, x_defaulttarget, uniq, now, freed>>

(* udpserver_defaultsend *)
TargetIndex ==
  Socket2Index(IF x_defaulttarget < 0 THEN -x_defaulttarget ELSE x_defaulttarget)

DefaultSendOne(data) ==
  /\ Ready /\ x_defaulttarget > 0 /\ TargetIndex >= 0
  /\ SendBytes(TargetIndex, data)
  /\ UNCHANGED <<bindVars, optVars, x_defaulttarget, uniq, now, loop, freed>>

DefaultSendBut(data) ==
  /\ Ready /\ x_defaulttarget < 0 /\ TargetIndex >= 0
  /\ StartSend(TargetIndex, data)
  /\ UNCHANGED <<tableVars, bindVars, optVars, x_defaulttarget, uniq, now, ub,
                 freed>>

DefaultSendAll(data) ==
  /\ Ready
  /\ x_defaulttarget = 0 \/ TargetIndex = -1
  /\ x_defaulttarget' = 0
  /\ SetTable(AutoRemove(Table))
  /\ StartSend(-1, data)
  /\ UNCHANGED <<bindVars, optVars, uniq, now, ub, freed>>

DefaultSendCrashes ==
  /\ Ready /\ x_defaulttarget # 0 /\ TargetIndex = -2
  /\ ub' = TRUE
  /\ UNCHANGED <<tableVars, bindVars, optVars, x_defaulttarget, uniq, now, loop,
                 freed>>

(* udpserver_defaulttarget *)
DefaultTarget(raw) ==
  LET client == IF raw < 0 THEN -raw ELSE raw IN
  /\ Ready /\ client <= x_nconnections
  /\ IF client > 0 /\ x_sr[client - 1] = NoClient
     THEN ub' = TRUE /\ UNCHANGED x_defaulttarget
     ELSE /\ x_defaulttarget' = IF raw = 0 THEN 0
                                ELSE IF raw > 0 THEN x_sr[client - 1].uniq
                                ELSE -x_sr[client - 1].uniq
          /\ UNCHANGED ub
  /\ UNCHANGED <<tableVars, bindVars, optVars, uniq, now, loop, freed>>

(* udpserver_disconnect_client and udpserver_disconnect_all.               *)
DisconnectClient(client) ==
  /\ Ready /\ FixIndex(client) >= 0
  /\ Disconnect(FixIndex(client))
  /\ UNCHANGED <<bindVars, optVars, x_defaulttarget, uniq, now, loop, freed>>

DisconnectAll ==
  /\ Ready
  /\ loop' = [NoLoop EXCEPT !.op = "disconnect"]
  /\ UNCHANGED <<tableVars, bindVars, optVars, x_defaulttarget, uniq, now, ub,
                 freed>>

DisconnectStep ==
  /\ loop.op = "disconnect" /\ ~ub /\ loop.pos < x_nconnections
  /\ Disconnect(loop.pos)
  /\ loop' = [loop EXCEPT !.pos = @ + 1]
  /\ UNCHANGED <<bindVars, optVars, x_defaulttarget, uniq, now, freed>>

LoopDone ==
  /\ loop # NoLoop /\ ~ub /\ loop.pos >= x_nconnections
  /\ loop' = NoLoop
  /\ UNCHANGED <<tableVars, bindVars, optVars, x_defaulttarget, uniq, now, ub,
                 freed>>

----------------------------------------------------------------------------
(* udpserver_do_bind, from "port" and "bind": nothing for what the object  *)
(* is bound to; else close the socket, keeping its poll function and the   *)
(* senders that use it, and try to open a new one.                         *)
BindSame(p, i) ==
  /\ Ready /\ p = x_port /\ i = x_ifaddr
  /\ UNCHANGED vars

BindFails(p, i) ==
  /\ Ready /\ ~(p = x_port /\ i = x_ifaddr)
  /\ openfds' = openfds \ {x_connectsocket}
  /\ IF x_connectsocket = -1 THEN UNCHANGED bindVars
     ELSE /\ x_connectsocket' = -1 /\ x_port' = NoPort /\ x_ifaddr' = 0
          /\ UNCHANGED <<x_receiver, polled>>
  /\ UNCHANGED <<x_sr, x_nconnections, x_lastchecked, checkedwith, live, stopped,
                 optVars, x_defaulttarget, uniq, now, loop, ub, freed>>

BindOpens(p, i) ==
  /\ Ready /\ ~(p = x_port /\ i = x_ifaddr)
  /\ Len(polled) < MaxPolled
  /\ \E fd \in Fds \ (openfds \ {x_connectsocket}) :
       /\ openfds' = (openfds \ {x_connectsocket}) \cup {fd}
       /\ x_connectsocket' = fd
       /\ x_receiver' = fd
       /\ polled' = Append(polled, fd)
  /\ x_port' \in IF p = 0 THEN Ports ELSE {p}
  /\ x_ifaddr' = i
  /\ UNCHANGED <<x_sr, x_nconnections, x_lastchecked, checkedwith, live, stopped,
                 optVars, x_defaulttarget, uniq, now, loop, ub, freed>>

(* udpserver_accept, udpserver_timeout, udpserver_maxconnections.          *)
Accept(on) ==
  /\ Ready
  /\ x_accept' = on
  /\ UNCHANGED <<tableVars, bindVars, x_maxconnections, x_timeout,
                 x_defaulttarget, uniq, now, loop, ub, freed>>

Timeout(ms) ==
  /\ Ready
  /\ x_timeout' = ms
  /\ UNCHANGED <<tableVars, bindVars, x_maxconnections, x_accept,
                 x_defaulttarget, uniq, now, loop, ub, freed>>

MaxConnections(m) ==
  /\ Ready
  /\ m >= 1 /\ m >= x_nconnections /\ m # x_maxconnections
  /\ x_maxconnections' = m
  /\ x_sr' = [i \in Slots |-> IF i < m THEN x_sr[i] ELSE NoClient]
  /\ UNCHANGED <<x_nconnections, x_lastchecked, checkedwith, live, stopped,
                 openfds, bindVars, x_accept, x_timeout, x_defaulttarget, uniq,
                 now, loop, ub, freed>>

(* udpserver_free: every client in an allocated slot, then the receiver    *)
(* and the socket.                                                         *)
Free ==
  /\ Ready
  /\ LET gone == {x_sr[i].uniq : i \in Slots} IN
     /\ live' = live \ gone
     /\ stopped' = stopped \ gone
     /\ openfds' = openfds \ (ClosedWith(live \cap gone) \cup {x_connectsocket})
  /\ x_sr' = [i \in Slots |-> NoClient]
  /\ polled' = RemoveFirst(polled, x_receiver)
  /\ x_receiver' = -1
  /\ x_connectsocket' = -1
  /\ freed' = TRUE
  /\ UNCHANGED <<x_nconnections, x_lastchecked, checkedwith, x_port, x_ifaddr,
                 optVars, x_defaulttarget, uniq, now, loop, ub>>

----------------------------------------------------------------------------
(* A send thread ends because sendto(2) failed.                            *)
SenderStops ==
  /\ ~ub /\ ~freed
  /\ \E u \in live \ stopped : stopped' = stopped \cup {u}
  /\ UNCHANGED <<x_sr, x_nconnections, x_lastchecked, checkedwith, live, openfds,
                 bindVars, optVars, x_defaulttarget, uniq, now, loop, ub, freed>>

(* Logical time advances between messages.                                 *)
Tick ==
  /\ Ready /\ now < MaxTime
  /\ now' = now + 1
  /\ UNCHANGED <<tableVars, bindVars, optVars, x_defaulttarget, uniq, loop, ub,
                 freed>>

Next ==
  \/ \E a \in Addrs : Receive(a) \/ AddClient(a)
  \/ Info
  \/ \E data \in Payloads :
       \/ Broadcast(data)
       \/ DefaultSendOne(data) \/ DefaultSendBut(data) \/ DefaultSendAll(data)
       \/ \E k \in 1 .. MaxSlots : SendClient(k, data)
  \/ SendStep \/ DefaultSendCrashes
  \/ \E raw \in Targets : DefaultTarget(raw)
  \/ \E k \in 1 .. MaxSlots : DisconnectClient(k)
  \/ DisconnectAll \/ DisconnectStep \/ LoopDone
  \/ \E p \in Ports \cup {0}, i \in Ifs \cup {0} :
       BindSame(p, i) \/ BindFails(p, i) \/ BindOpens(p, i)
  \/ \E on \in BOOLEAN : Accept(on)
  \/ \E ms \in Timeouts : Timeout(ms)
  \/ \E m \in Capacities : MaxConnections(m)
  \/ Free \/ SenderStops \/ Tick

Spec == Init /\ [][Next]_vars

----------------------------------------------------------------------------
(* Type invariant of the object.                                           *)
TypeOK ==
  /\ x_sr \in [Slots -> Clients \cup {NoClient}]
  /\ x_nconnections \in 0 .. MaxSlots /\ x_maxconnections \in 1 .. MaxSlots
  /\ x_accept \in BOOLEAN /\ x_timeout \in Timeouts \cup {0}
  /\ x_lastchecked \in 0 .. now /\ now \in 0 .. MaxTime
  /\ x_connectsocket \in Fds \cup {-1} /\ x_receiver \in Fds \cup {-1}
  /\ x_port \in 0 .. PortMax /\ x_ifaddr \in Ifs \cup {0}
  /\ x_defaulttarget \in {0} \cup Uniqs \cup {-u : u \in Uniqs}
  /\ uniq \in Uniqs \cup {FirstUniq + MaxClients}
  /\ openfds \subseteq Fds /\ polled \in Seq(Fds)
  /\ live \subseteq Uniqs /\ stopped \subseteq live
  /\ loop \in [op : {"none", "send", "disconnect"}, pos : Nat, but : Int,
               data : Payloads]
  /\ ub \in BOOLEAN /\ freed \in BOOLEAN /\ checkedwith \in Int

(* No slot of the table, in use or left over, points to a freed client,    *)
(* no client is in two slots, and x_nconnections stays within the table:   *)
(* so that neither udpserver_free nor a later removal frees anything       *)
(* twice, whatever sequence of removals made holes.                        *)
SlotsHoldLiveClients ==
  /\ x_nconnections <= x_maxconnections
  /\ \A i \in Slots : x_sr[i] # NoClient =>
       /\ i < x_maxconnections /\ x_sr[i].uniq \in live
       /\ \A j \in Slots : x_sr[j].uniq = x_sr[i].uniq => i = j

(* A second look for expired clients at the same logical time can be       *)
(* skipped, as udpserver_sender_autoremove does: after the first one no    *)
(* client in the table is expired, whatever was received, added or removed *)
(* since, as long as "timeout" was not changed.                            *)
CheckedIsFresh ==
  x_timeout > 0 /\ x_lastchecked = now /\ checkedwith = x_timeout =>
    \A i \in Slots : x_sr[i] # NoClient => now - x_sr[i].seen <= x_timeout

(* The client of slot i is disconnected, by a message or by the loop of    *)
(* udpserver_disconnect_all ...                                            *)
Disconnects(i) ==
  \/ \E k \in 1 .. MaxSlots : FixIndex(k) = i /\ DisconnectClient(k)
  \/ loop.pos = i /\ DisconnectStep

(* ... or its sender has stopped and refuses what is sent to it.           *)
Refuses(i) ==
  /\ x_sr[i].uniq \in stopped
  /\ \/ \E k \in 1 .. MaxSlots, data \in Payloads :
          FixIndex(k) = i /\ SendClient(k, data)
     \/ \E data \in Payloads : TargetIndex = i /\ DefaultSendOne(data)
     \/ loop.pos = i /\ loop.but # i /\ SendStep

(* Only expired clients are freed for their age: as long as the object is  *)
(* there, a client heard of within x_timeout is freed by no other step     *)
(* than the one that disconnects this client or is refused by its sender,  *)
(* whatever else the look for expired clients in the same step frees and   *)
(* however it moves the others.                                            *)
NobodyExpiresEarly ==
  [][~freed' =>
      \A i \in Slots :
        /\ x_sr[i].uniq \in live \ live'
        /\ x_timeout <= 0 \/ now - x_sr[i].seen <= x_timeout
        => Disconnects(i) \/ Refuses(i)]_vars

(* The numbers of the clients that have been freed.                        *)
FreedClients == (FirstUniq .. uniq - 1) \ live

(* The socket all clients share stays polled, and open, until the object   *)
(* is bound elsewhere or deleted, however many clients come and go, with   *)
(* one exception that the code makes: udpserver_sender_free closes the     *)
(* descriptor that has the number sr_uniq of the client, and so the socket *)
(* may be lost if its descriptor is the number of a freed client.          *)
BoundSocketOpen ==
  x_connectsocket # -1 =>
    /\ x_connectsocket \in openfds \cup FreedClients
    /\ x_connectsocket = x_receiver
    /\ \E k \in 1 .. Len(polled) : polled[k] = x_connectsocket

(* udpserver_sender_remove: "close the gap by shifting the remaining       *)
(* connections to the left".  The first x_nconnections slots hold clients. *)
GapClosed == \A i \in 0 .. x_nconnections - 1 : freed \/ x_sr[i] # NoClient

(* iemnet_sender.c on sockfd: "owned outside; must call                    *)
(* iemnet__sender_destroy() before freeing socket yourself".  The sender   *)
(* of every client has a socket that is still open, if it ever had one.    *)
SendersUseOpenSockets ==
  \A i \in 0 .. x_nconnections - 1 :
    x_sr[i].fd # -1 => x_sr[i].fd \in openfds
============================================================================
