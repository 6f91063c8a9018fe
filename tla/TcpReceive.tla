---------------------------- MODULE TcpReceive -----------------------------
(***************************************************************************)
(* [tcpreceive] (tcpreceive.c): a listening socket and a table of          *)
(* connections, each with a receiver.  Outlets are the last thing its      *)
(* functions call; the two of iemnet__numconnout are one step, since the   *)
(* count they report changes only in poll functions and on deletion, which *)
(* no outlet calls.                                                        *)
(*                                                                         *)
(* A slot is named by its index; -1 in its socket means that it is free    *)
(* (its port is then 0, and an accepted peer's port never is).             *)
(***************************************************************************)
EXTENDS Net

CONSTANT MaxConnections   \* MAX_CONNECTIONS

ASSUME MaxConnectionsAssumption == MaxConnections \in Nat

VARIABLE tr

TcpReceive == "tcpreceive"
Slots == 1 .. MaxConnections
Listener == 0   \* the argument of the listening socket's poll function

NoConnection == [socket |-> None, receiver |-> None]

UsedSlots(t) == {i \in Slots : t.x_connection[i].socket # None}

TcpReceiveTypeOK ==
  tr \in [x_connectsocket : Fds \cup {None}, x_port : Ports \cup {NoPort},
          x_nconnections : 0 .. MaxConnections, told : 0 .. MaxConnections,
          x_connection : [Slots -> [socket : Fds \cup {None},
                                    receiver : Fds \cup {None}]]]

(* tcpreceive_new, before it calls tcpreceive_port.                        *)
TcpReceiveNew ==
  [x_connectsocket |-> None, x_port |-> NoPort, x_nconnections |-> 0,
   told |-> 0, x_connection |-> [i \in Slots |-> NoConnection]]

(* tcpreceive_port after the test for the current port: the listening      *)
(* socket is closed; then there is a new one or, when bind or listen       *)
(* failed, none.                                                           *)
TcpReceiveListen(n, t, req) ==
  LET m == CloseSocket(RmPollFns(n, {t.x_connectsocket}), TcpReceive,
                       t.x_connectsocket)
  IN  \/ /\ net' = m
         /\ tr' = [t EXCEPT !.x_connectsocket = None, !.x_port = NoPort]
      \/ \E fd \in Unused(m), p \in Ports :
           /\ req \in {p, AnyPort}
           /\ net' = AddPollFn(Open(m, TcpReceive, fd, NULL), fd,
                               TcpReceive, Listener)
           /\ tr' = [t EXCEPT !.x_connectsocket = fd, !.x_port = p]

TcpReceiveCreate(req) ==
  /\ Idle /\ TcpReceive \notin live
  /\ live' = live \cup {TcpReceive}
  /\ TcpReceiveListen(net, TcpReceiveNew, req)
  /\ UNCHANGED stack

(* tcpreceive_port *)
TcpReceivePort(req) ==
  /\ Receives(TcpReceive)
  /\ req # tr.x_port
  /\ TcpReceiveListen(net, tr, req)
  /\ UNCHANGED <<live, stack>>

(* tcpreceive_connectpoll with tcpreceive_addconnection: the first free    *)
(* slot; without one the new socket is closed again.                       *)
TcpReceiveConnectPoll(fd) ==
  /\ Polled(fd, TcpReceive, Listener)
  /\ fd = tr.x_connectsocket
  /\ UsedSlots(tr) # Slots
  /\ LET i == CHOOSE i \in Slots \ UsedSlots(tr) :
                \A j \in Slots \ UsedSlots(tr) : i <= j
     IN  \E sock \in Unused(net) :
           /\ net' = ReceiverCreate(Open(net, TcpReceive, sock, "up"), sock,
                                    TcpReceive, i)
           /\ tr' = [tr EXCEPT
                       !.x_connection[i] = [socket |-> sock, receiver |-> sock],
                       !.x_nconnections = @ + 1,
                       !.told = tr.x_nconnections + 1]
  /\ UNCHANGED <<live, stack>>

(* tcpreceive_find_socket: the first slot with the socket.                 *)
TcpReceiveFindSocket(sock) ==
  CHOOSE i \in Slots :
    /\ tr.x_connection[i].socket = sock
    /\ \A j \in Slots : tr.x_connection[j].socket = sock => i <= j

(* Mutant: the receivers are not destroyed.                                *)
TcpReceiveCloseOnly(n, ids) ==
  CloseSockets(n, TcpReceive, {tr.x_connection[i].socket : i \in ids})

(* The receivers and sockets of the slots ids, as tcpreceive_disconnect    *)
(* gives them up.                                                          *)
TcpReceiveClose(n, ids) ==
  CloseSockets(
    ReceiversDestroy(n, {tr.x_connection[i].receiver : i \in ids}),
    TcpReceive, {tr.x_connection[i].socket : i \in ids})

(* Mutant: x_nconnections is not counted down.                             *)
TcpReceiveDisconnectUncounted(i) ==
  /\ i \in UsedSlots(tr)
  /\ net' = TcpReceiveClose(net, {i})
  /\ tr' = [tr EXCEPT !.x_connection[i] = NoConnection]

(* tcpreceive_disconnect, which does nothing for a free slot.              *)
TcpReceiveDisconnect(i) ==
  /\ i \in UsedSlots(tr)
  /\ net' = TcpReceiveClose(net, {i})
  /\ tr' = [tr EXCEPT !.x_connection[i] = NoConnection,
                      !.x_nconnections = @ - 1,
                      !.told = tr.x_nconnections - 1]

(* Mutant: the callback does nothing with a NULL chunk.                    *)
TcpReceiveReadIgnored(fd, y) ==
  ReceivesNull(fd, TcpReceive, y) /\ UNCHANGED <<net, tr, live, stack>>

(* tcpreceive_read_callback with a NULL chunk, for the receiver of slot y. *)
TcpReceiveReadNull(fd, y) ==
  /\ ReceivesNull(fd, TcpReceive, y)
  /\ TcpReceiveDisconnect(TcpReceiveFindSocket(tr.x_connection[y].socket))
  /\ UNCHANGED <<live, stack>>

(* tcpreceive_free with tcpreceive_disconnect_all: the listening socket,   *)
(* then every slot in use.                                                 *)
TcpReceiveFree ==
  /\ Idle /\ TcpReceive \in live
  /\ net' = TcpReceiveClose(
              CloseSocket(RmPollFns(net, {tr.x_connectsocket}), TcpReceive,
                          tr.x_connectsocket),
              UsedSlots(tr))
  /\ tr' = TcpReceiveNew
  /\ live' = live \ {TcpReceive}
  /\ UNCHANGED stack

TcpReceiveNext ==
  \/ \E req \in Ports \cup {AnyPort} : TcpReceiveCreate(req) \/ TcpReceivePort(req)
  \/ \E fd \in Fds :
       \/ TcpReceiveConnectPoll(fd)
       \/ \E y \in Slots : TcpReceiveReadNull(fd, y)
  \/ TcpReceiveFree
============================================================================
