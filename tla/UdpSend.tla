------------------------------ MODULE UdpSend ------------------------------
(***************************************************************************)
(* [udpsend] (udpsend.c): a connected datagram socket with a sender.       *)
(* Outlets are the last thing its functions call.                          *)
(***************************************************************************)
EXTENDS Datagrams

VARIABLE us

UdpSend == "udpsend"

UdpSendTypeOK ==
  us \in [x_fd : Fds \cup {None}, x_sender : Senders, told : {0, 1}]

(* udpsend_new *)
UdpSendNew == [x_fd |-> None, x_sender |-> Off, told |-> 0]

UdpSendCreate ==
  /\ Idle /\ UdpSend \notin live
  /\ live' = live \cup {UdpSend}
  /\ us' = UdpSendNew
  /\ UNCHANGED <<net, stack, dgVars>>

(* udpsend_connect: nothing happens if there is a sender, or if there is   *)
(* no host, no socket or no connection.                                    *)
UdpSendConnect(p) ==
  /\ Receives(UdpSend)
  /\ us.x_sender.state = NULL
  /\ \E fd \in Unused(net), s \in SenderCreate :
       /\ net' = Open(net, UdpSend, fd, p)
       /\ us' = [x_fd |-> fd, x_sender |-> SenderMade(s), told |-> 1]
       /\ NoteSender(UdpSend, s)
  /\ UNCHANGED <<live, stack, wire, sent>>

(* udpsend_disconnect *)
UdpSendDisconnected ==
  [x_fd |-> None, x_sender |-> Off,
   told |-> IF us.x_fd = None THEN us.told ELSE 0]

UdpSendDisconnect ==
  /\ Receives(UdpSend)
  /\ net' = CloseSocket(net, UdpSend, us.x_fd)
  /\ us' = UdpSendDisconnected
  /\ UNCHANGED <<live, stack, dgVars>>

(* udpsend_send: a fill state below 1 counts as a broken connection.       *)
UdpSendSend(list) ==
  /\ Receives(UdpSend)
  /\ us.x_sender.state # NULL
  /\ Room(us.x_sender, ChunkCreateList(list))
  /\ LET r == SenderSend(us.x_sender, ChunkCreateList(list))
     IN  IF r.size < 1
         THEN /\ net' = CloseSocket(net, UdpSend, us.x_fd)
              /\ us' = UdpSendDisconnected
              /\ UNCHANGED sent
         ELSE /\ us' = [us EXCEPT !.x_sender = r.sender]
              /\ sent' = sent \cup ({list} \ {<<>>})
              /\ UNCHANGED net
  /\ UNCHANGED <<live, stack, wire, nosender>>

(* udpsend_free *)
UdpSendFree ==
  /\ Idle /\ UdpSend \in live
  /\ net' = CloseSocket(net, UdpSend, us.x_fd)
  /\ us' = UdpSendNew
  /\ live' = live \ {UdpSend}
  /\ UNCHANGED <<stack, dgVars>>

(* The send thread of the object.                                          *)
UdpSendWrites ==
  /\ SenderWrites(us.x_sender, us.x_fd)
  /\ us' = [us EXCEPT !.x_sender = Written(@)]
  /\ UNCHANGED <<netVars, sent, nosender>>

UdpSendFails ==
  /\ SenderFails(us.x_sender)
  /\ us' = [us EXCEPT !.x_sender = Failed(@)]
  /\ UNCHANGED <<netVars, dgVars>>

UdpSendNext ==
  \/ UdpSendCreate \/ UdpSendFree
  \/ \E p \in Ports : UdpSendConnect(p)
  \/ UdpSendDisconnect
  \/ \E list \in Lists : UdpSendSend(list)
  \/ UdpSendWrites \/ UdpSendFails
============================================================================
