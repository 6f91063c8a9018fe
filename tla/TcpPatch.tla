----------------------------- MODULE TcpPatch ------------------------------
(***************************************************************************)
(* A patch with a [tcpclient], a [tcpsend] and a [tcpreceive] in one       *)
(* process: they share the descriptors, Pd's poll list and Pd's thread.    *)
(***************************************************************************)
EXTENDS TcpClient, TcpSend, TcpReceive, FiniteSets

vars == <<netVars, tc, ts, tr>>

TcpObjects == {TcpClient, TcpSend, TcpReceive}

Init ==
  /\ NetInit /\ live = {}
  /\ tc = TcpClientNew /\ ts = TcpSendNew /\ tr = TcpReceiveNew

Next ==
  \/ TcpClientNext /\ UNCHANGED <<ts, tr>>
  \/ TcpSendNext /\ UNCHANGED <<tc, tr>>
  \/ TcpReceiveNext /\ UNCHANGED <<tc, ts>>
  \/ RemoteDies /\ UNCHANGED <<tc, ts, tr>>

Spec == Init /\ [][Next]_vars

(* An outlet returns, and Pd's scheduler polls every descriptor it has in  *)
(* its list before long.                                                   *)
Resume == TcpClientResume /\ UNCHANGED <<ts, tr>>
Poll(fd) ==
  \/ TcpClientReceiveNull(fd) /\ UNCHANGED <<ts, tr>>
  \/ \E y \in Slots : TcpReceiveReadNull(fd, y) /\ UNCHANGED <<tc, ts>>

FairSpec == Spec /\ WF_vars(Resume) /\ \A fd \in Fds : SF_vars(Poll(fd))

----------------------------------------------------------------------------
(* Type invariant of the three objects and of what they share.             *)
TypeOK ==
  /\ NetTypeOK(TcpObjects)
  /\ TcpClientTypeOK /\ TcpSendTypeOK /\ TcpReceiveTypeOK

(* iemnet__closesocket is called only with a descriptor that the calling   *)
(* object has open, although [tcpclient] keeps the number of a closed one  *)
(* in x_fd and the number may belong to another object by then.            *)
ClosesOnlyItsOwn == ~net.foul

(* The descriptors each object believes to have open.                      *)
Holds(o) ==
  {None} \cup
  CASE o = TcpClient  -> IF tc.x_receiver = None THEN {} ELSE {tc.x_fd}
    [] o = TcpSend    -> {ts.x_fd}
    [] o = TcpReceive -> {tr.x_connectsocket}
                           \cup {tr.x_connection[i].socket : i \in Slots}

Opened(o) == {fd \in Fds : net.owner[fd] = o}

(* No descriptor leaks and none is used after its close: at any moment     *)
(* each object has open exactly the descriptors it would use and close     *)
(* later, and a deleted object none.                                       *)
SocketsHeldByOwner ==
  \A o \in TcpObjects : Opened(o) = Holds(o) \ {None}

(* A send thread is alive only while its owner has the socket open that it *)
(* writes to ("must call iemnet__sender_destroy() before freeing socket").  *)
SendersUseOwnSocket ==
  /\ tc.x_sender # NULL => Opened(TcpClient) = {tc.x_fd}
  /\ ts.x_sender # NULL => Opened(TcpSend) = {ts.x_fd}

(* Pd calls back exactly the objects that wait for something, once per     *)
(* readable descriptor, and never a deleted one: a poll function belongs   *)
(* to the owner of its descriptor and knows the slot that holds it.        *)
PollsReachHolders ==
  \A fd \in Fds :
    net.polls[fd] =
      IF fd \in Opened(TcpClient) THEN <<<<TcpClient, 0>>>>
      ELSE IF fd \notin Opened(TcpReceive) THEN <<>>
      ELSE IF fd = tr.x_connectsocket THEN <<<<TcpReceive, Listener>>>>
      ELSE <<<<TcpReceive, TcpReceiveFindSocket(fd)>>>>

(* When no message is being handled, the numbers last sent to the          *)
(* connection outlets say what there is: one connection or none, and for   *)
(* [tcpreceive] as many as its table holds.                                *)
ReportedIsHeld ==
  Idle => /\ tc.told = Cardinality(Opened(TcpClient))
          /\ ts.told = Cardinality(Opened(TcpSend))
          /\ tr.told = Cardinality(UsedSlots(tr))

(* [tcpclient] finds out that the other end has gone, also when the        *)
(* connect with time-out took a refused connection for one.                *)
ClientDead == tc.x_receiver # None /\ net.remote[tc.x_fd] = "dead"
TcpClientNotices == ClientDead ~> (~ClientDead \/ net.crashed)

(* [tcpreceive] gives every slot back whose peer has gone.                 *)
SlotDead(i) ==
  i \in UsedSlots(tr) /\ net.remote[tr.x_connection[i].socket] = "dead"
TcpReceiveNotices ==
  \A i \in Slots : SlotDead(i) ~> (~SlotDead(i) \/ net.crashed)

(* tcpclient_connect: "first disconnect any active connection": when it is *)
(* done, the object has one connection at most.                            *)
TcpClientHoldsOne == Idle => Cardinality(Opened(TcpClient)) <= 1
============================================================================
