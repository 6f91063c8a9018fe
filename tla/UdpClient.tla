----------------------------- MODULE UdpClient -----------------------------
(***************************************************************************)
(* [udpclient] (udpclient.c): a connected datagram socket with a sender    *)
(* and a receiver.  "said" is the number last sent to the status outlet    *)
(* with "connections"; "nested" is a history: a number has been reported   *)
(* inside another report that still has to reach the connection outlet.    *)
(* Port and host are only passed on to connect(2) and reported.            *)
(* Data that comes in is only put out (see UdpReceive for how).            *)
(***************************************************************************)
EXTENDS Datagrams

VARIABLE uc

UdpClient == "udpclient"

UdpClientTypeOK ==
  uc \in [x_fd : Fds \cup {None},
          x_connectstate : {0, 1}, x_sender : Senders,
          x_receiver : Fds \cup {None}, said : {0, 1}, nested : BOOLEAN]

(* udpclient_new *)
UdpClientNew ==
  [x_fd |-> None, x_connectstate |-> 0, x_sender |-> Off,
   x_receiver |-> None, said |-> 0, nested |-> FALSE]

UdpClientCreate ==
  /\ Idle /\ UdpClient \notin live
  /\ live' = live \cup {UdpClient}
  /\ uc' = UdpClientNew
  /\ UNCHANGED <<net, stack, dgVars>>

(* Mutant: does not look whether there is a sender already.                *)
UdpClientDoConnectAgain(p, rest) ==
  /\ \E fd \in Unused(net), s \in SenderCreate :
       /\ net' = ReceiverCreate(Open(net, UdpClient, fd, p), fd, UdpClient, 0)
       /\ uc' = [uc EXCEPT !.x_fd = fd, !.x_connectstate = 1,
                           !.x_sender = SenderMade(s), !.x_receiver = fd]
       /\ NoteSender(UdpClient, s)
       /\ Suspend(<<"udpclient_info", NULL>>, rest)
  /\ UNCHANGED <<live, wire, sent>>

(* udpclient_doconnect with what precedes it in udpclient_connect: a       *)
(* sender that is there, a missing host or socket, a failed connect end it *)
(* without a word; else udpclient_info puts out the address of the socket. *)
UdpClientDoConnect(p, rest) ==
  /\ \/ /\ uc' = [uc EXCEPT !.x_connectstate = 0]
        /\ stack' = rest
        /\ UNCHANGED <<net, nosender>>
     \/ /\ uc.x_sender.state = NULL
        /\ \E fd \in Unused(net), s \in SenderCreate :
             /\ net' = ReceiverCreate(Open(net, UdpClient, fd, p), fd,
                                      UdpClient, 0)
             /\ uc' = [uc EXCEPT !.x_fd = fd, !.x_connectstate = 1,
                                 !.x_sender = SenderMade(s), !.x_receiver = fd]
             /\ NoteSender(UdpClient, s)
             /\ Suspend(<<"udpclient_info", NULL>>, rest)
  /\ UNCHANGED <<live, wire, sent>>

(* The calls of iemnet__numconnout, with x_connectstate of the object x.   *)
UdpClientReports(x, rest) ==
  /\ uc' = [x EXCEPT !.said = x.x_connectstate,
                     !.nested = Reporting(UdpClient, stack)]
  /\ NumConnOut(UdpClient, x.x_connectstate, rest)

UdpClientConnectOut(num) ==
  /\ ConnectOut(UdpClient, num)
  /\ uc' = [uc EXCEPT !.nested = @ /\ Reporting(UdpClient, Tail(stack))]
  /\ UNCHANGED <<net, live, dgVars>>

(* Mutant: the receiver is not destroyed.                                  *)
UdpClientStaysPolled == CloseSocket(net, UdpClient, uc.x_fd)

(* udpclient_do_disconnect: the receiver, the sender, the socket.          *)
UdpClientDoneNet ==
  CloseSocket(ReceiversDestroy(net, {uc.x_receiver}), UdpClient, uc.x_fd)

(* Mutant: x_connectstate is not reset.                                    *)
UdpClientKeepsState ==
  [uc EXCEPT !.x_receiver = None, !.x_sender = Off, !.x_fd = None]

UdpClientDisconnected ==
  [uc EXCEPT !.x_receiver = None, !.x_sender = Off, !.x_connectstate = 0,
             !.x_fd = None]

(* udpclient_disconnect: a report if there was a socket to close.          *)
UdpClientDisconnects(rest) ==
  /\ net' = UdpClientDoneNet
  /\ IF uc.x_fd = None THEN uc' = UdpClientDisconnected /\ stack' = rest
     ELSE UdpClientReports(UdpClientDisconnected, rest)
  /\ UNCHANGED <<live, dgVars>>

(* udpclient_connect: disconnect first, and go on after the outlets.       *)
UdpClientConnect(p) ==
  /\ Receives(UdpClient)
  /\ IF uc.x_fd # None
     THEN UdpClientDisconnects(<<<<"udpclient_connect", p>>>> \o stack)
     ELSE UdpClientDoConnect(p, stack)

UdpClientConnectResume(p) ==
  /\ Resumes(<<"udpclient_connect", p>>)
  /\ UdpClientDoConnect(p, Tail(stack))

(* udpclient_disconnect, from a message ...                                *)
UdpClientDisconnect == Receives(UdpClient) /\ UdpClientDisconnects(stack)

(* ... or from udpclient_receive_callback with a NULL chunk: recvfrom      *)
(* returned 0, for an empty datagram, or failed.                           *)
UdpClientReceiveNull(fd) ==
  /\ Polled(fd, UdpClient, 0)
  /\ uc.x_fd # None
  /\ UdpClientDisconnects(stack)

(* udpclient_info, on "bang": first the address of a socket, then, as it   *)
(* is when that outlet returns, the connection state.                      *)
UdpClientInfo ==
  /\ Receives(UdpClient)
  /\ IF uc.x_fd = None THEN UdpClientReports(uc, stack)
     ELSE Suspend(<<"udpclient_info", NULL>>, stack) /\ UNCHANGED uc
  /\ UNCHANGED <<net, live, dgVars>>

UdpClientInfoResume ==
  /\ Resumes(<<"udpclient_info", NULL>>)
  /\ UdpClientReports(uc, Tail(stack))
  /\ UNCHANGED <<net, live, dgVars>>

(* udpclient_send: a refused message is only reported.                     *)
UdpClientSend(list) ==
  /\ Receives(UdpClient)
  /\ uc.x_sender.state # NULL /\ ChunkCreateList(list) # NoChunk
  /\ Room(uc.x_sender, ChunkCreateList(list))
  /\ LET r == SenderSend(uc.x_sender, ChunkCreateList(list))
     IN  /\ uc' = [uc EXCEPT !.x_sender = r.sender]
         /\ sent' = IF r.size < 0 THEN sent ELSE sent \cup {list}
  /\ UNCHANGED <<netVars, wire, nosender>>

(* udpclient_free *)
UdpClientFree ==
  /\ Idle /\ UdpClient \in live
  /\ net' = UdpClientDoneNet
  /\ uc' = UdpClientNew
  /\ live' = live \ {UdpClient}
  /\ UNCHANGED <<stack, dgVars>>

(* The send thread of the object.                                          *)
UdpClientWrites ==
  /\ SenderWrites(uc.x_sender, uc.x_fd)
  /\ uc' = [uc EXCEPT !.x_sender = Written(@)]
  /\ UNCHANGED <<netVars, sent, nosender>>

UdpClientFails ==
  /\ SenderFails(uc.x_sender)
  /\ uc' = [uc EXCEPT !.x_sender = Failed(@)]
  /\ UNCHANGED <<netVars, dgVars>>

UdpClientNext ==
  \/ UdpClientCreate \/ UdpClientFree
  \/ \E p \in Ports : UdpClientConnect(p) \/ UdpClientConnectResume(p)
  \/ UdpClientDisconnect \/ UdpClientInfo \/ UdpClientInfoResume
  \/ \E num \in {0, 1} : UdpClientConnectOut(num)
  \/ \E fd \in Fds : UdpClientReceiveNull(fd)
  \/ \E list \in Lists : UdpClientSend(list)
  \/ UdpClientWrites \/ UdpClientFails
============================================================================
