--------------------------- MODULE TcpPatchProofs --------------------------
(***************************************************************************)
(* Proofs about module TcpPatch, for any number of descriptors, ports and  *)
(* slots: no descriptor leaks, none is closed by an object that has not    *)
(* opened it, and Pd polls what is open.                                   *)
(*                                                                         *)
(* They hold as long as no message reaches [tcpclient] from inside one of  *)
(* its own outlets.                                                        *)
(***************************************************************************)
EXTENDS TcpPatch, NetProofs, FiniteSetTheorems

(* Types, with what they rest on: the slots in use are counted, and the    *)
(* functions suspended on the stack are those of [tcpclient].              *)
Frames == {"tcpclient_connect", "tcpclient_info", "tcpclient_send"}

StackType == stack \in Seq(Frames) /\ Len(stack) <= MaxNest + 1

SlotsCounted ==
  tr.x_nconnections = Cardinality(UsedSlots(tr)) /\ tr.told = tr.x_nconnections

TypeInv ==
  /\ IsNet(net, TcpObjects) /\ live \subseteq TcpObjects /\ StackType
  /\ TcpClientTypeOK /\ TcpSendTypeOK /\ TcpReceiveTypeOK /\ SlotsCounted

(* An object that does not exist is as new.                                *)
DeletedIsNew ==
  /\ TcpClient \notin live => tc = TcpClientNew
  /\ TcpSend \notin live => ts = TcpSendNew
  /\ TcpReceive \notin live => tr = TcpReceiveNew

(* Only functions of [tcpclient] are ever suspended, one at a time.        *)
StackInv ==
  /\ stack \in {<<>>, <<"tcpclient_connect">>, <<"tcpclient_info">>,
                <<"tcpclient_send">>}
  /\ stack # <<>> => TcpClient \in live

(* The receiver is the one of the socket in x_fd.  Where x_hostname says   *)
(* that there is a connection, there is one, or x_fd says that there is    *)
(* none, except between the two halves of tcpclient_connect.               *)
TcpClientInv ==
  /\ tc.x_receiver \in {None, tc.x_fd}
  /\ tc.x_hostname = NULL => tc.x_receiver = None
  /\ tc.x_hostname = Host =>
       tc.x_receiver = tc.x_fd \/ stack = <<"tcpclient_connect">>
  /\ tc.x_sender # NULL => tc.x_receiver # None
  /\ stack = <<"tcpclient_connect">> =>
       tc.x_receiver = None /\ tc.x_hostname = Host /\ tc.told = 0
  /\ tc.x_hostname = Host =>
       tc.x_connectstate = IF tc.x_receiver = None THEN 0 ELSE 1
  /\ tc.x_receiver # None => tc.told = 1
  /\ stack = <<>> /\ tc.x_receiver = None => net.crashed \/ tc.told = 0
  /\ stack = <<"tcpclient_info">> /\ tc.x_receiver = None =>
       tc.x_hostname = NULL

TcpSendInv ==
  /\ ts.x_sender # NULL => ts.x_fd # None
  /\ ts.told = IF ts.x_fd = None THEN 0 ELSE 1

(* Every slot has the receiver of its socket.                              *)
TcpReceiveInv ==
  \A i \in Slots : tr.x_connection[i].receiver = tr.x_connection[i].socket

(* Who has a descriptor open and what is polled, in "n", when the receiver *)
(* of [tcpclient] is c, the socket of [tcpsend] is s and the record of     *)
(* [tcpreceive] is t.  No two slots have the same socket, and none has the *)
(* listening one: their poll functions differ.                             *)
AgreesAt(n, c, s, t, fd) ==
  /\ n.owner[fd] = TcpClient <=> fd = c
  /\ n.owner[fd] = TcpSend <=> fd = s
  /\ n.owner[fd] = TcpReceive <=>
       \/ fd = t.x_connectsocket
       \/ \E i \in Slots : fd = t.x_connection[i].socket
  /\ n.owner[fd] \in {NoOne, TcpSend} => n.polls[fd] = <<>>
  /\ fd = c => n.polls[fd] = <<<<TcpClient, 0>>>>
  /\ fd = t.x_connectsocket => n.polls[fd] = <<<<TcpReceive, Listener>>>>
  /\ \A i \in Slots : fd = t.x_connection[i].socket =>
                        n.polls[fd] = <<<<TcpReceive, i>>>>

Agrees(n, c, s, t) == \A fd \in Fds : AgreesAt(n, c, s, t, fd)

HeldInv == ~net.foul /\ Agrees(net, tc.x_receiver, ts.x_fd, tr)

TcpInv ==
  /\ TypeInv /\ DeletedIsNew /\ StackInv
  /\ TcpClientInv /\ TcpSendInv /\ TcpReceiveInv /\ HeldInv

----------------------------------------------------------------------------
(* The count of the slots in use goes up by one when a free slot is taken, *)
(* down by one when a used slot is given back, and is within its bounds.   *)
LEMMA SlotsAreFinite ==
  ASSUME NEW t
  PROVE  /\ IsFiniteSet(UsedSlots(t))
         /\ Cardinality(UsedSlots(t)) \in 0 .. MaxConnections
         /\ UsedSlots(t) # Slots => Cardinality(UsedSlots(t)) < MaxConnections
<1>1. IsFiniteSet(Slots) /\ Cardinality(Slots) = MaxConnections
  BY MaxConnectionsAssumption, FS_Interval DEF Slots
<1>2. UsedSlots(t) \subseteq Slots
  BY DEF UsedSlots
<1>3. IsFiniteSet(UsedSlots(t)) /\ Cardinality(UsedSlots(t)) <= MaxConnections
  BY <1>1, <1>2, FS_Subset
<1>4. Cardinality(UsedSlots(t)) \in Nat
  BY <1>3, FS_CardinalityType
<1>5. UsedSlots(t) # Slots => Cardinality(UsedSlots(t)) < MaxConnections
  BY <1>1, <1>2, <1>3, <1>4, MaxConnectionsAssumption, FS_Subset
<1> QED
  BY <1>3, <1>4, <1>5, MaxConnectionsAssumption

(* tcpreceive_addconnection: one slot more is in use.                      *)
LEMMA SlotTaken ==
  ASSUME NEW t, NEW u, NEW i \in Slots \ UsedSlots(t),
         UsedSlots(u) = UsedSlots(t) \cup {i}
  PROVE  Cardinality(UsedSlots(u)) = Cardinality(UsedSlots(t)) + 1
BY SlotsAreFinite, FS_AddElement

(* tcpreceive_disconnect: one slot less is in use.                         *)
LEMMA SlotGivenBack ==
  ASSUME NEW t, NEW u, NEW i \in UsedSlots(t),
         UsedSlots(u) = UsedSlots(t) \ {i}
  PROVE  Cardinality(UsedSlots(u)) = Cardinality(UsedSlots(t)) - 1
BY SlotsAreFinite, FS_RemoveElement

(* A new [tcpreceive] uses no slot.                                        *)
LEMMA NoSlotUsed == Cardinality(UsedSlots(TcpReceiveNew)) = 0
<1>1. UsedSlots(TcpReceiveNew) = {}
  BY DEF UsedSlots, TcpReceiveNew, NoConnection
<1> QED
  BY <1>1, FS_EmptySet
----------------------------------------------------------------------------
(* Types.  What [tcpclient] makes of "net" is again such a record.         *)
LEMMA TcpClientNets ==
  ASSUME NEW n, IsNet(n, TcpObjects), NEW t, NEW fd \in Fds,
         NEW r \in {"up", "dead"}
  PROVE  /\ IsNet(TcpClientDoDisconnect(n, t), TcpObjects)
         /\ IsNet(ReceiverCreate(Open(n, TcpClient, fd, r), fd, TcpClient, 0),
                  TcpObjects)
<1>1. IsNet(ReceiversDestroy(n, {t.x_receiver}), TcpObjects)
  BY RmPollFnsEffect DEF ReceiversDestroy
<1>2. IsNet(TcpClientDoDisconnect(n, t), TcpObjects)
  BY <1>1, CloseSocketsEffect DEF TcpClientDoDisconnect, CloseSocket
<1>3. TcpClient \in TcpObjects
  BY DEF TcpObjects
<1>4. IsNet(Open(n, TcpClient, fd, r), TcpObjects)
  BY <1>3, OpenEffect
<1>5. IsNet(ReceiverCreate(Open(n, TcpClient, fd, r), fd, TcpClient, 0),
            TcpObjects)
  BY <1>3, <1>4, AddPollFnEffect DEF ReceiverCreate
<1> QED
  BY <1>2, <1>5

(* The second half of tcpclient_connect keeps the types.                   *)
LEMMA TcpClientDoConnectTypes ==
  ASSUME NEW n, IsNet(n, TcpObjects),
         NEW t, t \in [x_fd : Fds \cup {None}, x_hostname : {NULL, Host},
                       x_connectstate : {0, 1}, x_sender : SenderStates,
                       x_receiver : Fds \cup {None}, x_timeout : Timeouts,
                       told : {0, 1}],
         NEW rest \in Seq(Frames), Len(rest) <= MaxNest,
         TcpClientDoConnect(n, t, rest)
  PROVE  IsNet(net', TcpObjects) /\ TcpClientTypeOK' /\ StackType'
<1> USE NestAssumption
<1>1. CASE /\ net' = n
           /\ tc' = [t EXCEPT !.x_hostname = Host, !.x_connectstate = 0,
                              !.x_fd = None, !.told = 0]
           /\ stack' = rest
  <2>1. TcpClientTypeOK'
    BY <1>1 DEF TcpClientTypeOK
  <2>2. StackType'
    BY <1>1 DEF StackType
  <2> QED
    BY <1>1, <2>1, <2>2
<1>2. CASE \E fd \in Unused(n), r \in Connect(t.x_timeout),
              s \in SenderCreate :
             /\ net' = ReceiverCreate(Open(n, TcpClient, fd, r), fd,
                                      TcpClient, 0)
             /\ tc' = [t EXCEPT !.x_hostname = Host, !.x_connectstate = 1,
                                !.x_fd = fd, !.x_sender = s,
                                !.x_receiver = fd, !.told = 1]
             /\ Suspend("tcpclient_info", rest)
  <2>1. PICK fd \in Fds, r \in {"up", "dead"}, s \in {"running", NULL} :
          /\ net' = ReceiverCreate(Open(n, TcpClient, fd, r), fd,
                                   TcpClient, 0)
          /\ tc' = [t EXCEPT !.x_hostname = Host, !.x_connectstate = 1,
                             !.x_fd = fd, !.x_sender = s,
                             !.x_receiver = fd, !.told = 1]
          /\ Suspend("tcpclient_info", rest)
    BY <1>2 DEF Unused, Connect, SenderCreate
  <2>2. IsNet(net', TcpObjects)
    BY <2>1, TcpClientNets
  <2>3. TcpClientTypeOK'
    BY <2>1 DEF TcpClientTypeOK, SenderStates
  <2>4. StackType'
    BY <2>1, StackGrows DEF StackType, Suspend, Frames
  <2> QED
    BY <2>2, <2>3, <2>4
<1> QED
  BY <1>1, <1>2 DEF TcpClientDoConnect

(* Every step of [tcpclient] keeps the types.                              *)
LEMMA TcpClientKeepsTypes ==
  ASSUME TypeInv, TcpClientNext, UNCHANGED <<ts, tr>>
  PROVE  TypeInv'
<1> USE NestAssumption
<1>1. TcpSendTypeOK' /\ TcpReceiveTypeOK' /\ SlotsCounted'
  BY DEF TypeInv, TcpSendTypeOK, TcpReceiveTypeOK, SlotsCounted, UsedSlots
<1>2. TcpClientTypeOK /\ IsNet(net, TcpObjects) /\ live \subseteq TcpObjects
  BY DEF TypeInv
<1>3. /\ stack \in Seq(Frames) /\ Len(stack) \in Nat
      /\ Len(stack) <= MaxNest + 1
  BY DEF TypeInv, StackType
<1>4. Receives(TcpClient) => Len(stack) <= MaxNest
  BY <1>3 DEF Receives
<1>5. IsNet(TcpClientDoneNet, TcpObjects)
  BY <1>2, TcpClientNets, RmPollFnsEffect, CloseSocketsEffect
     DEF TcpClientDoneNet, TcpClientDoDisconnect, CloseSocket, ReceiversDestroy
<1>6. tc' = TcpClientDisconnected => TcpClientTypeOK'
  BY <1>2 DEF TcpClientTypeOK, TcpClientDisconnected, SenderStates
<1>7. tc' = TcpClientNew => TcpClientTypeOK'
  BY DEF TcpClientTypeOK, TcpClientNew, SenderStates, Timeouts
<1>8. UNCHANGED stack => StackType'
  BY <1>3 DEF StackType
<1>9. stack # <<>> /\ stack' = Tail(stack) => StackType'
  BY <1>3, StackShrinks DEF StackType
<1>10. CASE TcpClientCreate
  BY <1>10, <1>1, <1>2, <1>7, <1>8 DEF TcpClientCreate, TypeInv, TcpObjects
<1>11. CASE TcpClientFree
  BY <1>11, <1>1, <1>2, <1>5, <1>7, <1>8 DEF TcpClientFree, TypeInv
<1>12. CASE TcpClientConnect
  <2> DEFINE had == tc.x_hostname # NULL
             n == IF had THEN TcpClientDoDisconnect(net, tc) ELSE net
             t == IF had THEN [tc EXCEPT !.x_connectstate = 0,
                                         !.x_sender = NULL,
                                         !.x_receiver = None]
                  ELSE tc
  <2>1. IsNet(n, TcpObjects)
    BY <1>2, <1>5 DEF TcpClientDoneNet
  <2>2. t \in [x_fd : Fds \cup {None}, x_hostname : {NULL, Host},
               x_connectstate : {0, 1}, x_sender : SenderStates,
               x_receiver : Fds \cup {None}, x_timeout : Timeouts,
               told : {0, 1}]
    BY <1>2 DEF TcpClientTypeOK, SenderStates
  <2>3. UNCHANGED live /\ Len(stack) <= MaxNest
    BY <1>12, <1>4 DEF TcpClientConnect
  <2>4. CASE had /\ tc.x_fd # None
    <3>1. /\ net' = n /\ tc' = [t EXCEPT !.told = 0]
          /\ stack' = <<"tcpclient_connect">> \o stack
      BY <1>12, <2>4 DEF TcpClientConnect, Suspend
    <3>2. TcpClientTypeOK'
      BY <2>2, <3>1 DEF TcpClientTypeOK
    <3>3. StackType'
      BY <1>3, <2>3, <3>1, StackGrows DEF StackType, Frames
    <3> QED
      BY <1>1, <1>2, <2>1, <2>3, <3>1, <3>2, <3>3 DEF TypeInv
  <2>5. CASE ~(had /\ tc.x_fd # None)
    <3>1. TcpClientDoConnect(n, t, stack)
      BY <1>12, <2>5 DEF TcpClientConnect
    <3>2. IsNet(net', TcpObjects) /\ TcpClientTypeOK' /\ StackType'
      BY <1>3, <2>1, <2>2, <2>3, <3>1, TcpClientDoConnectTypes
    <3> QED
      BY <1>1, <1>2, <2>3, <3>2 DEF TypeInv
  <2> QED
    BY <2>4, <2>5
<1>13. CASE TcpClientConnectResume
  <2>1. /\ TcpClientDoConnect(net, tc, Tail(stack)) /\ UNCHANGED live
        /\ Tail(stack) \in Seq(Frames) /\ Len(Tail(stack)) <= MaxNest
    BY <1>3, <1>13, StackShrinks DEF TcpClientConnectResume, Resumes
  <2>2. IsNet(net', TcpObjects) /\ TcpClientTypeOK' /\ StackType'
    BY <1>2, <2>1, TcpClientDoConnectTypes DEF TcpClientTypeOK
  <2> QED
    BY <1>1, <1>2, <2>1, <2>2 DEF TypeInv
<1>14. CASE TcpClientInfo
  <2>1. TcpClientTypeOK'
    BY <1>2, <1>14 DEF TcpClientInfo, TcpClientTypeOK
  <2>2. StackType'
    <3>1. CASE stack' = <<"tcpclient_info">> \o stack
      <4>1. Len(stack) <= MaxNest
        BY <1>4, <1>14 DEF TcpClientInfo
      <4> QED
        BY <1>3, <3>1, <4>1, StackGrows DEF StackType, Frames
    <3> QED
      BY <1>8, <1>14, <3>1 DEF TcpClientInfo
  <2> QED
    BY <1>1, <1>2, <1>14, <2>1, <2>2 DEF TcpClientInfo, TypeInv
<1>15. CASE TcpClientInfoResume
  <2>1. IsNet(net', TcpObjects)
    BY <1>2, <1>15 DEF TcpClientInfoResume, IsNet
  <2>2. StackType'
    BY <1>9, <1>15 DEF TcpClientInfoResume, Resumes
  <2> QED
    BY <1>1, <1>2, <1>15, <2>1, <2>2
       DEF TcpClientInfoResume, TypeInv, TcpClientTypeOK
<1>16. CASE TcpClientDisconnect
  BY <1>1, <1>2, <1>5, <1>6, <1>8, <1>16 DEF TcpClientDisconnect, TypeInv
<1>17. CASE TcpClientSendRefused
  <2>1. StackType'
    BY <1>3, <1>4, <1>17, StackGrows
       DEF TcpClientSendRefused, Suspend, StackType, Frames
  <2> QED
    BY <1>1, <1>2, <1>17, <2>1
       DEF TcpClientSendRefused, TypeInv, TcpClientTypeOK
<1>18. CASE TcpClientSendResume
  BY <1>1, <1>2, <1>5, <1>6, <1>9, <1>18
     DEF TcpClientSendResume, Resumes, TypeInv
<1>19. CASE \E fd \in Fds : TcpClientReceiveNull(fd)
  BY <1>1, <1>2, <1>5, <1>6, <1>8, <1>19 DEF TcpClientReceiveNull, TypeInv
<1>20. CASE \E ms \in Timeouts : TcpClientTimeout(ms)
  <2>1. TcpClientTypeOK'
    BY <1>2, <1>20 DEF TcpClientTimeout, TcpClientTypeOK
  <2> QED
    BY <1>1, <1>2, <1>8, <1>20, <2>1 DEF TcpClientTimeout, TypeInv
<1>21. CASE TcpClientSenderStops
  <2>1. TcpClientTypeOK'
    BY <1>2, <1>21 DEF TcpClientSenderStops, TcpClientTypeOK, SenderStates
  <2> QED
    BY <1>1, <1>2, <1>8, <1>21, <2>1 DEF TcpClientSenderStops, TypeInv
<1> QED
  BY <1>10, <1>11, <1>12, <1>13, <1>14, <1>15, <1>16, <1>17, <1>18, <1>19,
     <1>20, <1>21 DEF TcpClientNext, TcpClientResume

(* So does every step of [tcpsend] ...                                     *)
LEMMA TcpSendKeepsTypes ==
  ASSUME TypeInv, TcpSendNext, UNCHANGED <<tc, tr>>
  PROVE  TypeInv'
<1>1. TcpClientTypeOK' /\ TcpReceiveTypeOK' /\ SlotsCounted'
  BY DEF TypeInv, TcpClientTypeOK, TcpReceiveTypeOK, SlotsCounted, UsedSlots
<1>2. /\ TcpSendTypeOK /\ IsNet(net, TcpObjects) /\ live \subseteq TcpObjects
      /\ TcpSend \in TcpObjects
  BY DEF TypeInv, TcpObjects
<1>3. UNCHANGED stack => StackType'
  BY DEF TypeInv, StackType
<1>4. IsNet(CloseSocket(net, TcpSend, ts.x_fd), TcpObjects)
  BY <1>2, CloseSocketsEffect DEF CloseSocket
<1>5. ts' = TcpSendNew => TcpSendTypeOK'
  BY DEF TcpSendTypeOK, TcpSendNew, SenderStates, Timeouts
<1>6. CASE TcpSendCreate
  BY <1>1, <1>2, <1>3, <1>5, <1>6 DEF TcpSendCreate, TypeInv
<1>7. CASE TcpSendFree
  BY <1>1, <1>2, <1>3, <1>4, <1>5, <1>7 DEF TcpSendFree, TypeInv
<1>8. CASE TcpSendConnect
  <2>1. PICK fd \in Fds, r \in {"up", "dead"}, s \in {"running", NULL} :
          /\ net' = Open(net, TcpSend, fd, r)
          /\ ts' = [ts EXCEPT !.x_fd = fd, !.x_sender = s, !.told = 1]
    BY <1>8 DEF TcpSendConnect, Unused, Connect, SenderCreate
  <2>2. IsNet(net', TcpObjects)
    BY <1>2, <2>1, OpenEffect
  <2>3. TcpSendTypeOK'
    BY <1>2, <2>1 DEF TcpSendTypeOK, SenderStates
  <2> QED
    BY <1>1, <1>2, <1>3, <1>8, <2>2, <2>3 DEF TcpSendConnect, TypeInv
<1>9. CASE TcpSendDisconnect
  <2>1. TcpSendTypeOK'
    BY <1>2, <1>9 DEF TcpSendDisconnect, TcpSendTypeOK, SenderStates
  <2> QED
    BY <1>1, <1>2, <1>3, <1>4, <1>9, <2>1 DEF TcpSendDisconnect, TypeInv
<1>10. CASE \E ms \in Timeouts : TcpSendTimeout(ms)
  <2>1. TcpSendTypeOK'
    BY <1>2, <1>10 DEF TcpSendTimeout, TcpSendTypeOK
  <2> QED
    BY <1>1, <1>2, <1>3, <1>10, <2>1 DEF TcpSendTimeout, TypeInv
<1> QED
  BY <1>6, <1>7, <1>8, <1>9, <1>10 DEF TcpSendNext

(* ... and of [tcpreceive], whose count of connections stays in its range. *)
LEMMA TcpReceiveListenTypes ==
  ASSUME IsNet(net, TcpObjects), NEW t, NEW req,
         t \in [x_connectsocket : Fds \cup {None}, x_port : Ports \cup {NoPort},
                x_nconnections : 0 .. MaxConnections,
                told : 0 .. MaxConnections,
                x_connection : [Slots -> [socket : Fds \cup {None},
                                          receiver : Fds \cup {None}]]],
         t.x_nconnections = Cardinality(UsedSlots(t)),
         t.told = t.x_nconnections,
         TcpReceiveListen(net, t, req)
  PROVE  IsNet(net', TcpObjects) /\ TcpReceiveTypeOK' /\ SlotsCounted'
<1> DEFINE m == CloseSocket(RmPollFns(net, {t.x_connectsocket}), TcpReceive,
                            t.x_connectsocket)
<1>1. IsNet(RmPollFns(net, {t.x_connectsocket}), TcpObjects)
  BY RmPollFnsEffect
<1>2. IsNet(m, TcpObjects)
  BY <1>1, CloseSocketsEffect DEF CloseSocket
<1>3. CASE /\ net' = m
           /\ tr' = [t EXCEPT !.x_connectsocket = None, !.x_port = NoPort]
  BY <1>2, <1>3 DEF TcpReceiveTypeOK, SlotsCounted, UsedSlots
<1>4. CASE \E fd \in Unused(m), p \in Ports :
             /\ req \in {p, AnyPort}
             /\ net' = AddPollFn(Open(m, TcpReceive, fd, NULL), fd,
                                 TcpReceive, Listener)
             /\ tr' = [t EXCEPT !.x_connectsocket = fd, !.x_port = p]
  <2>1. PICK fd \in Fds, p \in Ports :
          /\ net' = AddPollFn(Open(m, TcpReceive, fd, NULL), fd,
                              TcpReceive, Listener)
          /\ tr' = [t EXCEPT !.x_connectsocket = fd, !.x_port = p]
    BY <1>4 DEF Unused
  <2> HIDE DEF m
  <2>2. TcpReceive \in TcpObjects /\ Listener \in Nat
    BY DEF TcpObjects, Listener
  <2>3. IsNet(Open(m, TcpReceive, fd, NULL), TcpObjects)
    BY <1>2, <2>2, OpenEffect
  <2>4. IsNet(net', TcpObjects)
    BY <2>1, <2>2, <2>3, AddPollFnEffect
  <2>5. TcpReceiveTypeOK' /\ SlotsCounted'
    BY <2>1 DEF TcpReceiveTypeOK, SlotsCounted, UsedSlots
  <2> QED
    BY <2>4, <2>5
<1> QED
  BY <1>3, <1>4 DEF TcpReceiveListen

(* The slot that is taken is the first free one.                           *)
LEMMA FirstFreeSlot ==
  ASSUME UsedSlots(tr) # Slots
  PROVE  (CHOOSE i \in Slots \ UsedSlots(tr) :
            \A j \in Slots \ UsedSlots(tr) : i <= j) \in Slots \ UsedSlots(tr)
<1> DEFINE F == Slots \ UsedSlots(tr)
<1>1. F \in SUBSET Nat /\ F # {} 
  BY MaxConnectionsAssumption DEF Slots, UsedSlots
<1>2. \E i \in F : \A j \in F : i <= j
  BY <1>1, FirstOfNats
<1> QED
  BY <1>2

(* tcpreceive_find_socket finds the slot with the socket.                  *)
LEMMA FindSocketFinds ==
  ASSUME NEW sock, NEW k \in Slots, tr.x_connection[k].socket = sock
  PROVE  /\ TcpReceiveFindSocket(sock) \in Slots
         /\ tr.x_connection[TcpReceiveFindSocket(sock)].socket = sock
<1> DEFINE F == {i \in Slots : tr.x_connection[i].socket = sock}
<1>1. F \in SUBSET Nat /\ F # {}
  BY MaxConnectionsAssumption DEF Slots
<1>2. \E i \in F : \A j \in F : i <= j
  BY <1>1, FirstOfNats
<1>3. \E i \in Slots : /\ tr.x_connection[i].socket = sock
                       /\ \A j \in Slots : tr.x_connection[j].socket = sock
                                            => i <= j
  BY <1>2
<1> QED
  BY <1>3 DEF TcpReceiveFindSocket

(* Closing connections of [tcpreceive] keeps the types of the network.     *)
LEMMA TcpReceiveCloseNet ==
  ASSUME NEW n, IsNet(n, TcpObjects), NEW ids
  PROVE  IsNet(TcpReceiveClose(n, ids), TcpObjects)
<1>1. IsNet(ReceiversDestroy(n, {tr.x_connection[i].receiver : i \in ids}),
            TcpObjects)
  BY RmPollFnsEffect DEF ReceiversDestroy
<1> QED
  BY <1>1, CloseSocketsEffect DEF TcpReceiveClose

(* Every message to [tcpreceive] and every callback keeps the types.       *)
LEMMA TcpReceiveKeepsTypes ==
  ASSUME TypeInv, TcpReceiveNext, UNCHANGED <<tc, ts>>
  PROVE  TypeInv'
<1>1. TcpClientTypeOK' /\ TcpSendTypeOK'
  BY DEF TypeInv, TcpClientTypeOK, TcpSendTypeOK
<1>2. /\ TcpReceiveTypeOK /\ SlotsCounted
      /\ IsNet(net, TcpObjects) /\ live \subseteq TcpObjects
      /\ TcpReceive \in TcpObjects
  BY DEF TypeInv, TcpObjects
<1>3. UNCHANGED stack => StackType'
  BY DEF TypeInv, StackType
<1>4. /\ TcpReceiveNew \in
           [x_connectsocket : Fds \cup {None}, x_port : Ports \cup {NoPort},
            x_nconnections : 0 .. MaxConnections, told : 0 .. MaxConnections,
            x_connection : [Slots -> [socket : Fds \cup {None},
                                      receiver : Fds \cup {None}]]]
      /\ TcpReceiveNew.x_nconnections = Cardinality(UsedSlots(TcpReceiveNew))
      /\ TcpReceiveNew.told = TcpReceiveNew.x_nconnections
  BY NoSlotUsed, MaxConnectionsAssumption DEF TcpReceiveNew, NoConnection
<1>5. ASSUME NEW req, TcpReceiveCreate(req)
      PROVE  TypeInv'
  <2>1. IsNet(net', TcpObjects) /\ TcpReceiveTypeOK' /\ SlotsCounted'
    BY <1>2, <1>4, <1>5, TcpReceiveListenTypes DEF TcpReceiveCreate
  <2> QED
    BY <1>1, <1>2, <1>3, <1>5, <2>1 DEF TcpReceiveCreate, TypeInv
<1>6. ASSUME NEW req, TcpReceivePort(req)
      PROVE  TypeInv'
  <2>1. IsNet(net', TcpObjects) /\ TcpReceiveTypeOK' /\ SlotsCounted'
    BY <1>2, <1>6, TcpReceiveListenTypes
       DEF TcpReceivePort, TcpReceiveTypeOK, SlotsCounted
  <2> QED
    BY <1>1, <1>2, <1>3, <1>6, <2>1 DEF TcpReceivePort, TypeInv
<1>7. ASSUME NEW fd \in Fds, TcpReceiveConnectPoll(fd)
      PROVE  TypeInv'
  <2> DEFINE i == CHOOSE i \in Slots \ UsedSlots(tr) :
                    \A j \in Slots \ UsedSlots(tr) : i <= j
  <2>1. i \in Slots \ UsedSlots(tr) /\ UsedSlots(tr) # Slots
    BY <1>7, FirstFreeSlot DEF TcpReceiveConnectPoll
  <2>2. PICK sock \in Fds :
          /\ net' = ReceiverCreate(Open(net, TcpReceive, sock, "up"), sock,
                                   TcpReceive, i)
          /\ tr' = [tr EXCEPT
                      !.x_connection[i] = [socket |-> sock, receiver |-> sock],
                      !.x_nconnections = @ + 1,
                      !.told = tr.x_nconnections + 1]
    BY <1>7 DEF TcpReceiveConnectPoll, Unused
  <2> HIDE DEF i
  <2>3. IsNet(Open(net, TcpReceive, sock, "up"), TcpObjects)
    BY <1>2, OpenEffect
  <2>4. i \in Nat
    BY <2>1, MaxConnectionsAssumption DEF Slots
  <2>5. IsNet(net', TcpObjects)
    BY <1>2, <2>2, <2>3, <2>4, AddPollFnEffect DEF ReceiverCreate
  <2>6. UsedSlots(tr') = UsedSlots(tr) \cup {i}
    BY <1>2, <2>1, <2>2, FdsAssumption
       DEF UsedSlots, TcpReceiveTypeOK, None
  <2>7. Cardinality(UsedSlots(tr')) = Cardinality(UsedSlots(tr)) + 1
    BY <2>1, <2>6, SlotTaken
  <2>8. tr'.x_nconnections = tr.x_nconnections + 1 /\ tr'.told = tr'.x_nconnections
    BY <1>2, <2>2 DEF TcpReceiveTypeOK
  <2>9. SlotsCounted'
    BY <1>2, <2>7, <2>8 DEF SlotsCounted
  <2>10. tr.x_nconnections \in Nat /\ tr.x_nconnections < MaxConnections
    BY <1>2, <2>1, SlotsAreFinite DEF SlotsCounted, TcpReceiveTypeOK
  <2>11. TcpReceiveTypeOK'
    <3>1. tr.x_nconnections + 1 \in 0 .. MaxConnections
      BY <2>10, MaxConnectionsAssumption
    <3>2. [tr.x_connection EXCEPT ![i] = [socket |-> sock, receiver |-> sock]]
            \in [Slots -> [socket : Fds \cup {None},
                           receiver : Fds \cup {None}]]
      BY <1>2, <2>1 DEF TcpReceiveTypeOK
    <3> QED
      BY <1>2, <2>2, <3>1, <3>2 DEF TcpReceiveTypeOK
  <2> QED
    BY <1>1, <1>2, <1>3, <1>7, <2>5, <2>9, <2>11
       DEF TcpReceiveConnectPoll, TypeInv
<1>8. ASSUME NEW fd \in Fds, NEW y \in Slots, TcpReceiveReadNull(fd, y)
      PROVE  TypeInv'
  <2> DEFINE i == TcpReceiveFindSocket(tr.x_connection[y].socket)
  <2>1. TcpReceiveDisconnect(i) /\ UNCHANGED <<live, stack>>
    BY <1>8 DEF TcpReceiveReadNull
  <2> HIDE DEF i
  <2>2. i \in Slots /\ i \in UsedSlots(tr)
    BY <2>1 DEF TcpReceiveDisconnect, UsedSlots
  <2>3. /\ net' = TcpReceiveClose(net, {i})
        /\ tr' = [tr EXCEPT !.x_connection[i] = NoConnection,
                            !.x_nconnections = @ - 1,
                            !.told = tr.x_nconnections - 1]
    BY <2>1 DEF TcpReceiveDisconnect
  <2>4. IsNet(net', TcpObjects)
    BY <1>2, <2>3, TcpReceiveCloseNet
  <2>5. UsedSlots(tr') = UsedSlots(tr) \ {i}
    BY <1>2, <2>2, <2>3 DEF UsedSlots, TcpReceiveTypeOK, NoConnection
  <2>6. Cardinality(UsedSlots(tr')) = Cardinality(UsedSlots(tr)) - 1
    BY <2>2, <2>5, SlotGivenBack
  <2>7. tr'.x_nconnections = tr.x_nconnections - 1 /\ tr'.told = tr'.x_nconnections
    BY <1>2, <2>3 DEF TcpReceiveTypeOK
  <2>8. SlotsCounted'
    BY <1>2, <2>6, <2>7 DEF SlotsCounted
  <2>9. tr'.x_nconnections \in 0 .. MaxConnections
    BY <2>8, SlotsAreFinite DEF SlotsCounted
  <2>10. TcpReceiveTypeOK'
    BY <1>2, <2>2, <2>3, <2>7, <2>9
       DEF TcpReceiveTypeOK, NoConnection
  <2> QED
    BY <1>1, <1>2, <1>3, <2>1, <2>4, <2>8, <2>10 DEF TypeInv
<1>9. CASE TcpReceiveFree
  <2>1. IsNet(RmPollFns(net, {tr.x_connectsocket}), TcpObjects)
    BY <1>2, RmPollFnsEffect
  <2>2. IsNet(CloseSocket(RmPollFns(net, {tr.x_connectsocket}), TcpReceive,
                          tr.x_connectsocket), TcpObjects)
    BY <2>1, CloseSocketsEffect DEF CloseSocket
  <2>3. IsNet(net', TcpObjects)
    BY <1>9, <2>2, TcpReceiveCloseNet DEF TcpReceiveFree
  <2>4. TcpReceiveTypeOK' /\ SlotsCounted'
    BY <1>4, <1>9 DEF TcpReceiveFree, TcpReceiveTypeOK, SlotsCounted
  <2> QED
    BY <1>1, <1>2, <1>3, <1>9, <2>3, <2>4 DEF TcpReceiveFree, TypeInv
<1> QED
  BY <1>5, <1>6, <1>7, <1>8, <1>9 DEF TcpReceiveNext

(* The types are kept by every step of the patch.                          *)
LEMMA TypeInvInductive ==
  /\ Init => TypeInv
  /\ TypeInv /\ [Next]_vars => TypeInv'
<1>1. ASSUME Init PROVE TypeInv
  <2>1. IsNet(net, TcpObjects) /\ live \subseteq TcpObjects
    BY <1>1 DEF Init, NetInit, IsNet
  <2>2. StackType
    BY <1>1, NestAssumption DEF Init, NetInit, StackType
  <2>3. TcpClientTypeOK /\ TcpSendTypeOK
    BY <1>1 DEF Init, TcpClientTypeOK, TcpClientNew, TcpSendTypeOK, TcpSendNew,
                SenderStates, Timeouts
  <2>4. TcpReceiveTypeOK /\ SlotsCounted
    BY <1>1, NoSlotUsed, MaxConnectionsAssumption
       DEF Init, TcpReceiveTypeOK, SlotsCounted, TcpReceiveNew, NoConnection
  <2> QED
    BY <2>1, <2>2, <2>3, <2>4 DEF TypeInv
<1>2. ASSUME TypeInv, [Next]_vars PROVE TypeInv'
  <2>1. CASE RemoteDies /\ UNCHANGED <<tc, ts, tr>>
    <3>1. IsNet(net', TcpObjects)
      <4>1. PICK fd \in Fds : net' = [net EXCEPT !.remote[fd] = "dead"]
        BY <2>1 DEF RemoteDies
      <4> QED
        BY <1>2, <4>1 DEF TypeInv, IsNet
    <3> QED
      BY <1>2, <2>1, <3>1
         DEF RemoteDies, TypeInv, StackType, TcpClientTypeOK, TcpSendTypeOK,
             TcpReceiveTypeOK, SlotsCounted, UsedSlots
  <2>2. CASE UNCHANGED vars
    BY <1>2, <2>2
       DEF vars, netVars, TypeInv, StackType, TcpClientTypeOK, TcpSendTypeOK,
           TcpReceiveTypeOK, SlotsCounted, UsedSlots
  <2> QED
    BY <1>2, <2>1, <2>2, TcpClientKeepsTypes, TcpSendKeepsTypes,
       TcpReceiveKeepsTypes DEF Next
<1> QED
  BY <1>1, <1>2

(* The type invariant of the patch, whatever messages arrive from where:   *)
(* the objects' fields stay in their ranges, [tcpreceive] counts its       *)
(* connections within its table, and no more functions are suspended than  *)
(* the nesting allows.                                                     *)
THEOREM TcpTypes == Spec => []TypeOK
<1>1. TypeInv => TypeOK
  <2>1. StackType => Len(stack) <= MaxNest + 2
    BY NestAssumption DEF StackType
  <2> QED
    BY <2>1 DEF TypeInv, TypeOK, NetTypeOK, IsNet
<1> QED
  BY <1>1, TypeInvInductive, PTL DEF Spec
----------------------------------------------------------------------------
(* What an object gives up or takes leaves the others' descriptors and     *)
(* poll functions as they are: one lemma for each thing an object does.    *)
LEMMA NoneIsNoFd == None \notin Fds
BY FdsAssumption DEF None

(* A descriptor of [tcpreceive] is the listening one or that of one slot.  *)
LEMMA OneHolder ==
  ASSUME NEW n, NEW c, NEW s, NEW t, Agrees(n, c, s, t), NEW fd \in Fds
  PROVE  /\ \A i \in Slots : ~(fd = t.x_connectsocket
                                /\ fd = t.x_connection[i].socket)
         /\ \A i, j \in Slots :
              t.x_connection[i].socket = fd /\ t.x_connection[j].socket = fd
                => i = j
<1>1. \A i, j : <<<<TcpReceive, i>>>> = <<<<TcpReceive, j>>>> => i = j
  OBVIOUS
<1>2. Listener \notin Slots
  BY DEF Slots, Listener
<1>3. /\ fd = t.x_connectsocket => n.polls[fd] = <<<<TcpReceive, Listener>>>>
      /\ \A i \in Slots : fd = t.x_connection[i].socket =>
                            n.polls[fd] = <<<<TcpReceive, i>>>>
  BY DEF Agrees, AgreesAt
<1>4. ASSUME NEW i \in Slots, fd = t.x_connectsocket,
             fd = t.x_connection[i].socket
      PROVE  FALSE
  <2>1. <<<<TcpReceive, Listener>>>> = <<<<TcpReceive, i>>>>
    BY <1>3, <1>4
  <2> QED
    BY <1>1, <1>2, <2>1
<1>5. ASSUME NEW i \in Slots, NEW j \in Slots,
             fd = t.x_connection[i].socket, fd = t.x_connection[j].socket
      PROVE  i = j
  <2>1. <<<<TcpReceive, i>>>> = <<<<TcpReceive, j>>>>
    BY <1>3, <1>5
  <2> QED
    BY <1>1, <2>1
<1> QED
  BY <1>4, <1>5

(* [tcpclient] closes its connection: the others keep theirs.              *)
LEMMA ClientReleases ==
  ASSUME NEW n, NEW m, NEW c, NEW s, NEW t,
         Agrees(n, c, s, t), Released(n, m, {c})
  PROVE  Agrees(m, None, s, t)
<1> SUFFICES ASSUME NEW fd \in Fds PROVE AgreesAt(m, None, s, t, fd)
  BY DEF Agrees
<1>1. AgreesAt(n, c, s, t, fd) /\ fd # None
  BY NoneIsNoFd DEF Agrees
<1>2. CASE fd = c
  <2>1. m.owner[fd] = NoOne /\ m.polls[fd] = <<>>
    BY <1>2 DEF Released
  <2> QED
    BY <1>1, <1>2, <2>1 DEF AgreesAt, TcpClient, TcpSend, TcpReceive, NoOne
<1>3. CASE ~(fd = c)
  <2>1. m.owner[fd] = n.owner[fd] /\ m.polls[fd] = n.polls[fd]
    BY <1>3 DEF Released
  <2> QED
    BY <1>1, <1>3, <2>1 DEF AgreesAt
<1> QED
  BY <1>2, <1>3

(* [tcpclient] opens a connection: it is its only one.                     *)
LEMMA ClientAcquires ==
  ASSUME NEW n, NEW m, NEW s, NEW t, NEW sock \in Fds,
         Agrees(n, None, s, t),
         Acquired(n, m, sock, TcpClient, <<<<TcpClient, 0>>>>)
  PROVE  Agrees(m, sock, s, t)
<1> SUFFICES ASSUME NEW fd \in Fds PROVE AgreesAt(m, sock, s, t, fd)
  BY DEF Agrees
<1>1. AgreesAt(n, None, s, t, fd) /\ fd # None
  BY NoneIsNoFd DEF Agrees
<1>2. CASE fd = sock
  <2>1. n.owner[fd] = NoOne /\ m.owner[fd] = TcpClient /\
        m.polls[fd] = <<<<TcpClient, 0>>>>
    BY <1>2 DEF Acquired
  <2> QED
    BY <1>1, <1>2, <2>1 DEF AgreesAt, TcpClient, TcpSend, TcpReceive, NoOne
<1>3. CASE ~(fd = sock)
  <2>1. m.owner[fd] = n.owner[fd] /\ m.polls[fd] = n.polls[fd]
    BY <1>3 DEF Acquired
  <2> QED
    BY <1>1, <1>3, <2>1 DEF AgreesAt
<1> QED
  BY <1>2, <1>3

(* [tcpsend] closes its connection: the others keep theirs.                *)
LEMMA SendReleases ==
  ASSUME NEW n, NEW m, NEW c, NEW s, NEW t,
         Agrees(n, c, s, t), Released(n, m, {s})
  PROVE  Agrees(m, c, None, t)
<1> SUFFICES ASSUME NEW fd \in Fds PROVE AgreesAt(m, c, None, t, fd)
  BY DEF Agrees
<1>1. AgreesAt(n, c, s, t, fd) /\ fd # None
  BY NoneIsNoFd DEF Agrees
<1>2. CASE fd = s
  <2>1. m.owner[fd] = NoOne /\ m.polls[fd] = <<>>
    BY <1>2 DEF Released
  <2> QED
    BY <1>1, <1>2, <2>1 DEF AgreesAt, TcpClient, TcpSend, TcpReceive, NoOne
<1>3. CASE ~(fd = s)
  <2>1. m.owner[fd] = n.owner[fd] /\ m.polls[fd] = n.polls[fd]
    BY <1>3 DEF Released
  <2> QED
    BY <1>1, <1>3, <2>1 DEF AgreesAt
<1> QED
  BY <1>2, <1>3

(* [tcpsend] opens a connection: it is its only one.                       *)
LEMMA SendAcquires ==
  ASSUME NEW n, NEW m, NEW c, NEW t, NEW sock \in Fds,
         Agrees(n, c, None, t), Acquired(n, m, sock, TcpSend, <<>>)
  PROVE  Agrees(m, c, sock, t)
<1> SUFFICES ASSUME NEW fd \in Fds PROVE AgreesAt(m, c, sock, t, fd)
  BY DEF Agrees
<1>1. AgreesAt(n, c, None, t, fd) /\ fd # None
  BY NoneIsNoFd DEF Agrees
<1>2. CASE fd = sock
  <2>1. n.owner[fd] = NoOne /\ m.owner[fd] = TcpSend /\
        m.polls[fd] = <<>>
    BY <1>2 DEF Acquired
  <2> QED
    BY <1>1, <1>2, <2>1 DEF AgreesAt, TcpClient, TcpSend, TcpReceive, NoOne
<1>3. CASE ~(fd = sock)
  <2>1. m.owner[fd] = n.owner[fd] /\ m.polls[fd] = n.polls[fd]
    BY <1>3 DEF Acquired
  <2> QED
    BY <1>1, <1>3, <2>1 DEF AgreesAt
<1> QED
  BY <1>2, <1>3

(* [tcpreceive] stops listening: the connections stay.                     *)
LEMMA ListenerReleases ==
  ASSUME NEW n, NEW m, NEW c, NEW s, NEW t, NEW u,
         Agrees(n, c, s, t), Released(n, m, {t.x_connectsocket}),
         u.x_connectsocket = None, u.x_connection = t.x_connection
  PROVE  Agrees(m, c, s, u)
<1> SUFFICES ASSUME NEW fd \in Fds PROVE AgreesAt(m, c, s, u, fd)
  BY DEF Agrees
<1>1. AgreesAt(n, c, s, t, fd) /\ fd # None
  BY NoneIsNoFd DEF Agrees
<1>2. CASE fd = t.x_connectsocket
  <2>1. m.owner[fd] = NoOne /\ m.polls[fd] = <<>>
    BY <1>2 DEF Released
  <2> QED
    BY <1>1, <1>2, <2>1, OneHolder DEF AgreesAt, TcpClient, TcpSend, TcpReceive, NoOne
<1>3. CASE ~(fd = t.x_connectsocket)
  <2>1. m.owner[fd] = n.owner[fd] /\ m.polls[fd] = n.polls[fd]
    BY <1>3 DEF Released
  <2> QED
    BY <1>1, <1>3, <2>1, OneHolder DEF AgreesAt
<1> QED
  BY <1>2, <1>3

(* [tcpreceive] starts to listen: the connections stay.                    *)
LEMMA ListenerAcquires ==
  ASSUME NEW n, NEW m, NEW c, NEW s, NEW t, NEW u, NEW sock \in Fds,
         Agrees(n, c, s, t), t.x_connectsocket = None,
         Acquired(n, m, sock, TcpReceive, <<<<TcpReceive, Listener>>>>),
         u.x_connectsocket = sock, u.x_connection = t.x_connection
  PROVE  Agrees(m, c, s, u)
<1> SUFFICES ASSUME NEW fd \in Fds PROVE AgreesAt(m, c, s, u, fd)
  BY DEF Agrees
<1>1. AgreesAt(n, c, s, t, fd) /\ fd # None
  BY NoneIsNoFd DEF Agrees
<1>2. CASE fd = sock
  <2>1. n.owner[fd] = NoOne /\ m.owner[fd] = TcpReceive /\
        m.polls[fd] = <<<<TcpReceive, Listener>>>>
    BY <1>2 DEF Acquired
  <2> QED
    BY <1>1, <1>2, <2>1 DEF AgreesAt, TcpClient, TcpSend, TcpReceive, NoOne
<1>3. CASE ~(fd = sock)
  <2>1. m.owner[fd] = n.owner[fd] /\ m.polls[fd] = n.polls[fd]
    BY <1>3 DEF Acquired
  <2> QED
    BY <1>1, <1>3, <2>1 DEF AgreesAt
<1> QED
  BY <1>2, <1>3

(* [tcpreceive] closes one connection: the other slots stay.               *)
LEMMA SlotReleases ==
  ASSUME NEW n, NEW m, NEW c, NEW s, NEW t, NEW u, NEW i \in Slots,
         Agrees(n, c, s, t), Released(n, m, {t.x_connection[i].socket}),
         u.x_connectsocket = t.x_connectsocket,
         \A j \in Slots :
           u.x_connection[j] = IF j = i THEN NoConnection
                               ELSE t.x_connection[j]
  PROVE  Agrees(m, c, s, u)
<1> SUFFICES ASSUME NEW fd \in Fds PROVE AgreesAt(m, c, s, u, fd)
  BY DEF Agrees
<1>1. AgreesAt(n, c, s, t, fd) /\ fd # None
  BY NoneIsNoFd DEF Agrees
<1>2. CASE fd = t.x_connection[i].socket
  <2>1. m.owner[fd] = NoOne /\ m.polls[fd] = <<>>
    BY <1>2 DEF Released
  <2> QED
    BY <1>1, <1>2, <2>1, OneHolder DEF AgreesAt, TcpClient, TcpSend, TcpReceive, NoOne, NoConnection
<1>3. CASE ~(fd = t.x_connection[i].socket)
  <2>1. m.owner[fd] = n.owner[fd] /\ m.polls[fd] = n.polls[fd]
    BY <1>3 DEF Released
  <2> QED
    BY <1>1, <1>3, <2>1, OneHolder DEF AgreesAt, NoConnection
<1> QED
  BY <1>2, <1>3

(* [tcpreceive] accepts a connection into a free slot.                     *)
LEMMA SlotAcquires ==
  ASSUME NEW n, NEW m, NEW c, NEW s, NEW t, NEW u, NEW i \in Slots,
         NEW sock \in Fds,
         Agrees(n, c, s, t), t.x_connection[i].socket = None,
         Acquired(n, m, sock, TcpReceive, <<<<TcpReceive, i>>>>),
         u.x_connectsocket = t.x_connectsocket,
         \A j \in Slots :
           u.x_connection[j] = IF j = i
                               THEN [socket |-> sock, receiver |-> sock]
                               ELSE t.x_connection[j]
  PROVE  Agrees(m, c, s, u)
<1> SUFFICES ASSUME NEW fd \in Fds PROVE AgreesAt(m, c, s, u, fd)
  BY DEF Agrees
<1>1. AgreesAt(n, c, s, t, fd) /\ fd # None
  BY NoneIsNoFd DEF Agrees
<1>2. CASE fd = sock
  <2>1. n.owner[fd] = NoOne /\ m.owner[fd] = TcpReceive /\
        m.polls[fd] = <<<<TcpReceive, i>>>>
    BY <1>2 DEF Acquired
  <2> QED
    BY <1>1, <1>2, <2>1 DEF AgreesAt, TcpClient, TcpSend, TcpReceive, NoOne
<1>3. CASE ~(fd = sock)
  <2>1. m.owner[fd] = n.owner[fd] /\ m.polls[fd] = n.polls[fd]
    BY <1>3 DEF Acquired
  <2> QED
    BY <1>1, <1>3, <2>1 DEF AgreesAt
<1> QED
  BY <1>2, <1>3

(* tcpreceive_free: all it held is closed, the others keep theirs.         *)
LEMMA ReceiveReleasesAll ==
  ASSUME NEW n, NEW m, NEW c, NEW s, NEW t,
         Agrees(n, c, s, t),
         Released(n, m, {t.x_connectsocket} \cup
                          {t.x_connection[i].socket : i \in UsedSlots(t)})
  PROVE  Agrees(m, c, s, TcpReceiveNew)
<1> SUFFICES ASSUME NEW fd \in Fds PROVE AgreesAt(m, c, s, TcpReceiveNew, fd)
  BY DEF Agrees
<1>1. AgreesAt(n, c, s, t, fd) /\ fd # None
  BY NoneIsNoFd DEF Agrees
<1>2. CASE fd = t.x_connectsocket \/ \E i \in UsedSlots(t) : fd = t.x_connection[i].socket
  <2>1. m.owner[fd] = NoOne /\ m.polls[fd] = <<>>
    BY <1>2 DEF Released
  <2> QED
    BY <1>1, <1>2, <2>1 DEF AgreesAt, TcpClient, TcpSend, TcpReceive, NoOne, NoConnection, TcpReceiveNew, UsedSlots
<1>3. CASE ~(fd = t.x_connectsocket \/ \E i \in UsedSlots(t) : fd = t.x_connection[i].socket)
  <2>1. m.owner[fd] = n.owner[fd] /\ m.polls[fd] = n.polls[fd]
    BY <1>3 DEF Released
  <2> QED
    BY <1>1, <1>3, <2>1 DEF AgreesAt, NoConnection, TcpReceiveNew, UsedSlots
<1> QED
  BY <1>2, <1>3

----------------------------------------------------------------------------
(* What [tcpclient] gives up when it disconnects, and what it takes when   *)
(* it connects.                                                            *)
LEMMA ClientDisconnects ==
  ASSUME TcpInv, tc.x_receiver = tc.x_fd
  PROVE  LET m == TcpClientDoDisconnect(net, tc)
         IN  /\ IsNet(m, TcpObjects) /\ m.crashed = net.crashed /\ ~m.foul
             /\ Agrees(m, None, ts.x_fd, tr)
<1> DEFINE fds == {tc.x_fd}
           m == TcpClientDoDisconnect(net, tc)
<1>1. IsNet(net, TcpObjects) /\ tc.x_fd \in Fds \cup {None}
  BY DEF TcpInv, TypeInv, TcpClientTypeOK
<1>2. Agrees(net, tc.x_receiver, ts.x_fd, tr) /\ ~net.foul
  BY DEF TcpInv, HeldInv
<1>3. \A fd \in fds \ {None} :
        /\ fd \in Fds /\ net.owner[fd] = TcpClient
        /\ \E x : net.polls[fd] = <<x>>
  BY <1>1, <1>2 DEF Agrees, AgreesAt
<1>4. \A fd \in Fds : fd \in fds \ {None} <=> fd \in fds
  BY NoneIsNoFd
<1>5. m = CloseSockets(RmPollFns(net, fds \ {None}), TcpClient, fds)
  BY DEF TcpClientDoDisconnect, CloseSocket, ReceiversDestroy
<1>6. /\ IsNet(m, TcpObjects) /\ Released(net, m, fds)
      /\ m.foul = net.foul /\ m.crashed = net.crashed
  BY <1>1, <1>3, <1>4, <1>5, ReleaseEffect
<1> HIDE DEF m
<1>7. Agrees(m, None, ts.x_fd, tr)
  BY <1>2, <1>6, ClientReleases
<1> QED
  BY <1>2, <1>6, <1>7 DEF m

(* tcpclient_disconnect closes the connection and nothing else.            *)
LEMMA ClientDone ==
  ASSUME TcpInv, stack # <<"tcpclient_connect">>
  PROVE  LET m == TcpClientDoneNet
         IN  /\ IsNet(m, TcpObjects) /\ m.crashed = net.crashed /\ ~m.foul
             /\ Agrees(m, None, ts.x_fd, tr)
<1>1. CASE tc.x_hostname = NULL
  BY <1>1 DEF TcpInv, TypeInv, TcpClientInv, HeldInv, TcpClientDoneNet
<1>2. CASE tc.x_hostname # NULL
  <2>1. tc.x_receiver = tc.x_fd
    BY <1>2 DEF TcpInv, TypeInv, TcpClientTypeOK, TcpClientInv
  <2> QED
    BY <1>2, <2>1, ClientDisconnects DEF TcpClientDoneNet
<1> QED
  BY <1>1, <1>2

(* The second half of tcpclient_connect, when nothing was opened in        *)
(* between.                                                                *)
LEMMA ClientConnects ==
  ASSUME NEW n, IsNet(n, TcpObjects), ~n.foul,
         Agrees(n, None, ts.x_fd, tr),
         NEW t, t \in [x_fd : Fds \cup {None}, x_hostname : {NULL, Host},
                       x_connectstate : {0, 1}, x_sender : SenderStates,
                       x_receiver : Fds \cup {None}, x_timeout : Timeouts,
                       told : {0, 1}],
         t.x_receiver = None, t.x_sender = NULL,
         TcpClientDoConnect(n, t, <<>>), UNCHANGED <<ts, tr>>
  PROVE  /\ stack' \in {<<>>, <<"tcpclient_info">>}
         /\ TcpClientInv' /\ HeldInv'
<1>1. CASE /\ net' = n
           /\ tc' = [t EXCEPT !.x_hostname = Host, !.x_connectstate = 0,
                              !.x_fd = None, !.told = 0]
           /\ stack' = <<>>
  BY <1>1 DEF TcpClientInv, HeldInv, Host, NULL
<1>2. CASE \E fd \in Unused(n), r \in Connect(t.x_timeout),
              s \in SenderCreate :
             /\ net' = ReceiverCreate(Open(n, TcpClient, fd, r), fd,
                                      TcpClient, 0)
             /\ tc' = [t EXCEPT !.x_hostname = Host, !.x_connectstate = 1,
                                !.x_fd = fd, !.x_sender = s,
                                !.x_receiver = fd, !.told = 1]
             /\ Suspend("tcpclient_info", <<>>)
  <2>1. PICK fd \in Unused(n), r \in {"up", "dead"}, s \in {"running", NULL} :
          /\ net' = ReceiverCreate(Open(n, TcpClient, fd, r), fd,
                                   TcpClient, 0)
          /\ tc' = [t EXCEPT !.x_hostname = Host, !.x_connectstate = 1,
                             !.x_fd = fd, !.x_sender = s,
                             !.x_receiver = fd, !.told = 1]
          /\ Suspend("tcpclient_info", <<>>)
    BY <1>2 DEF Connect, SenderCreate
  <2>2. /\ fd \in Fds /\ fd # None /\ n.owner[fd] = NoOne
        /\ n.polls[fd] = <<>> /\ TcpClient \in TcpObjects
    BY NoneIsNoFd DEF Unused, Agrees, AgreesAt, TcpObjects
  <2>3. /\ Acquired(n, net', fd, TcpClient, <<<<TcpClient, 0>>>>)
        /\ net'.foul = n.foul
    BY <2>1, <2>2, AcquireEffect DEF ReceiverCreate
  <2>4. Agrees(net', fd, ts.x_fd, tr)
    BY <2>2, <2>3, ClientAcquires
  <2>5. stack' = <<"tcpclient_info">>
    BY <2>1 DEF Suspend
  <2>6. /\ tc'.x_receiver = fd /\ tc'.x_fd = fd /\ tc'.x_hostname = Host
        /\ tc'.x_connectstate = 1 /\ tc'.told = 1
    BY <2>1
  <2>7. HeldInv'
    BY <2>3, <2>4, <2>6 DEF HeldInv
  <2>8. TcpClientInv'
    BY <2>2, <2>5, <2>6 DEF TcpClientInv, Host, NULL
  <2> QED
    BY <2>5, <2>7, <2>8
<1> QED
  BY <1>1, <1>2 DEF TcpClientDoConnect
(* Every step of [tcpclient] keeps the invariant, as long as no message    *)
(* reaches it from inside its own outlets.                                 *)
LEMMA TcpClientKeepsInv ==
  ASSUME TcpInv, TcpClientNext, UNCHANGED <<ts, tr>>,
         TcpClient \notin Reentrant
  PROVE  TcpInv'
<1>1. TypeInv'
  BY TcpClientKeepsTypes DEF TcpInv
<1>2. TcpSendInv' /\ TcpReceiveInv'
  BY DEF TcpInv, TcpSendInv, TcpReceiveInv
<1>3. /\ DeletedIsNew /\ StackInv /\ TcpClientInv /\ HeldInv
      /\ TcpClientTypeOK /\ IsNet(net, TcpObjects)
  BY DEF TcpInv, TypeInv
<1>4. Receives(TcpClient) => stack = <<>> /\ ~net.crashed /\ TcpClient \in live
  BY DEF Receives
<1>5. ASSUME TcpClientInv', HeldInv', StackInv', DeletedIsNew'
      PROVE  TcpInv'
  BY <1>1, <1>2, <1>5 DEF TcpInv
<1>6. TcpClient \in live /\ UNCHANGED live => DeletedIsNew'
  BY <1>3 DEF DeletedIsNew
<1>7. \A f : Tail(<<f>>) = <<>> /\ <<f>> \o <<>> = <<f>> /\ Head(<<f>>) = f
  OBVIOUS
<1>8. tc' = TcpClientDisconnected =>
        /\ tc'.x_receiver = None /\ tc'.x_hostname = NULL
        /\ tc'.x_sender = NULL /\ tc'.told = 0
  BY <1>3 DEF TcpClientTypeOK, TcpClientDisconnected
<1>9. ASSUME net' = TcpClientDoneNet, tc' = TcpClientDisconnected,
             stack # <<"tcpclient_connect">>, stack' = <<>>
      PROVE  TcpClientInv' /\ HeldInv'
  <2>1. HeldInv'
    BY <1>8, <1>9, ClientDone DEF HeldInv
  <2>2. TcpClientInv'
    BY <1>8, <1>9 DEF TcpClientInv, Host, NULL
  <2> QED
    BY <2>1, <2>2
<1>10. CASE TcpClientCreate
  <2>1. tc = TcpClientNew /\ UNCHANGED <<net, tc, stack>>
    BY <1>3, <1>10 DEF TcpClientCreate, DeletedIsNew
  <2>2. DeletedIsNew' /\ StackInv'
    BY <1>3, <1>10, <2>1
       DEF TcpClientCreate, DeletedIsNew, StackInv, TcpClient, TcpSend,
           TcpReceive
  <2>3. TcpClientInv' /\ HeldInv'
    BY <1>3, <2>1 DEF TcpClientInv, HeldInv
  <2> QED
    BY <1>5, <2>2, <2>3
<1>11. CASE TcpClientFree
  <2>1. /\ stack = <<>> /\ stack' = <<>> /\ tc' = TcpClientNew
        /\ net' = TcpClientDoneNet
    BY <1>11 DEF TcpClientFree, Idle
  <2>2. HeldInv'
    BY <2>1, ClientDone DEF HeldInv, TcpClientNew
  <2>3. TcpClientInv'
    BY <2>1 DEF TcpClientInv, TcpClientNew, Host, NULL
  <2>4. DeletedIsNew' /\ StackInv'
    BY <1>3, <1>11, <2>1
       DEF TcpClientFree, DeletedIsNew, StackInv, TcpClient, TcpSend,
           TcpReceive
  <2> QED
    BY <1>5, <2>2, <2>3, <2>4
<1>12. CASE TcpClientConnect
  <2> DEFINE had == tc.x_hostname # NULL
             n == IF had THEN TcpClientDoDisconnect(net, tc) ELSE net
             t == IF had THEN [tc EXCEPT !.x_connectstate = 0,
                                         !.x_sender = NULL,
                                         !.x_receiver = None]
                  ELSE tc
  <2>1. stack = <<>> /\ TcpClient \in live /\ UNCHANGED live
    BY <1>4, <1>12 DEF TcpClientConnect
  <2>2. /\ IsNet(n, TcpObjects) /\ ~n.foul
        /\ Agrees(n, None, ts.x_fd, tr)
    BY <2>1, ClientDone DEF TcpClientDoneNet
  <2>3. t.x_receiver = None /\ t.x_sender = NULL
    BY <1>3 DEF TcpClientTypeOK, TcpClientInv
  <2>4. t \in [x_fd : Fds \cup {None}, x_hostname : {NULL, Host},
               x_connectstate : {0, 1}, x_sender : SenderStates,
               x_receiver : Fds \cup {None}, x_timeout : Timeouts,
               told : {0, 1}]
    BY <1>3 DEF TcpClientTypeOK, SenderStates
  <2>5. CASE had /\ tc.x_fd # None
    <3>1. /\ net' = n /\ tc' = [t EXCEPT !.told = 0]
          /\ stack' = <<"tcpclient_connect">>
      BY <1>7, <1>12, <2>1, <2>5 DEF TcpClientConnect, Suspend
    <3>2. /\ tc'.x_receiver = None /\ tc'.x_sender = NULL /\ tc'.told = 0
          /\ tc'.x_hostname = Host /\ tc'.x_connectstate = 0
      BY <1>3, <2>5, <3>1 DEF TcpClientTypeOK
    <3>3. TcpClientInv'
      BY <3>1, <3>2 DEF TcpClientInv, Host, NULL
    <3>4. HeldInv'
      BY <2>2, <3>1, <3>2 DEF HeldInv
    <3> QED
      BY <1>5, <1>6, <2>1, <3>1, <3>3, <3>4 DEF StackInv
  <2>6. CASE ~(had /\ tc.x_fd # None)
    <3>1. TcpClientDoConnect(n, t, <<>>)
      BY <1>12, <2>1, <2>6 DEF TcpClientConnect
    <3> HIDE DEF n, t, had
    <3>2. stack' \in {<<>>, <<"tcpclient_info">>} /\ TcpClientInv' /\ HeldInv'
      BY <2>2, <2>3, <2>4, <3>1, ClientConnects
    <3> QED
      BY <1>5, <1>6, <2>1, <3>2 DEF StackInv
  <2> QED
    BY <2>5, <2>6
<1>13. CASE TcpClientConnectResume
  <2>1. stack = <<"tcpclient_connect">> /\ Tail(stack) = <<>>
    BY <1>3, <1>7, <1>13 DEF TcpClientConnectResume, Resumes, StackInv
  <2>2. TcpClientDoConnect(net, tc, <<>>) /\ UNCHANGED live
    BY <1>13, <2>1 DEF TcpClientConnectResume
  <2>3. /\ tc.x_receiver = None /\ tc.x_sender = NULL /\ ~net.foul
        /\ Agrees(net, None, ts.x_fd, tr)
    BY <1>3, <2>1 DEF TcpClientInv, HeldInv
  <2>4. stack' \in {<<>>, <<"tcpclient_info">>} /\ TcpClientInv' /\ HeldInv'
    BY <1>3, <2>2, <2>3, ClientConnects DEF TcpClientTypeOK
  <2> QED
    BY <1>3, <1>5, <1>6, <2>1, <2>2, <2>4 DEF StackInv
<1>14. CASE TcpClientInfo
  <2>1. /\ stack = <<>> /\ TcpClient \in live /\ UNCHANGED <<net, live>>
        /\ tc' = [tc EXCEPT !.told = tc.x_connectstate]
        /\ stack' = IF tc.x_connectstate = 1 THEN <<"tcpclient_info">>
                    ELSE <<>>
        /\ ~net.crashed
    BY <1>4, <1>7, <1>14 DEF TcpClientInfo
  <2>2. HeldInv'
    BY <1>3, <2>1 DEF HeldInv, TcpClientTypeOK
  <2>3. TcpClientInv'
    BY <1>3, <2>1 DEF TcpClientInv, TcpClientTypeOK
  <2> QED
    BY <1>5, <1>6, <2>1, <2>2, <2>3 DEF StackInv
<1>15. CASE TcpClientInfoResume
  <2>1. stack = <<"tcpclient_info">> /\ stack' = <<>> /\ UNCHANGED <<tc, live>>
    BY <1>3, <1>7, <1>15 DEF TcpClientInfoResume, Resumes, StackInv
  <2>2. /\ net'.owner = net.owner /\ net'.polls = net.polls
        /\ net'.foul = net.foul /\ (tc.x_hostname = NULL => net'.crashed)
    BY <1>3, <1>15 DEF TcpClientInfoResume, IsNet
  <2>3. HeldInv'
    BY <1>3, <2>1, <2>2 DEF HeldInv, Agrees, AgreesAt
  <2>4. TcpClientInv'
    BY <1>3, <2>1, <2>2 DEF TcpClientInv
  <2> QED
    BY <1>3, <1>5, <1>6, <2>1, <2>3, <2>4 DEF StackInv
<1>16. CASE TcpClientDisconnect
  <2>1. /\ stack = <<>> /\ stack' = <<>> /\ TcpClient \in live
        /\ UNCHANGED live
    BY <1>4, <1>16 DEF TcpClientDisconnect
  <2> QED
    BY <1>5, <1>6, <1>9, <1>16, <2>1 DEF TcpClientDisconnect, StackInv
<1>17. CASE TcpClientSendRefused
  <2>1. /\ stack = <<>> /\ stack' = <<"tcpclient_send">> /\ TcpClient \in live
        /\ UNCHANGED <<net, tc, live>> /\ tc.x_sender = "stopped"
    BY <1>4, <1>7, <1>17 DEF TcpClientSendRefused, Suspend
  <2>2. HeldInv' /\ TcpClientInv'
    BY <1>3, <2>1 DEF HeldInv, TcpClientInv, NULL
  <2> QED
    BY <1>5, <1>6, <2>1, <2>2 DEF StackInv
<1>18. CASE TcpClientSendResume
  <2>1. stack = <<"tcpclient_send">> /\ stack' = <<>> /\ UNCHANGED live
    BY <1>3, <1>7, <1>18 DEF TcpClientSendResume, Resumes, StackInv
  <2> QED
    BY <1>3, <1>5, <1>6, <1>9, <1>18, <2>1 DEF TcpClientSendResume, StackInv
<1>19. CASE \E fd \in Fds : TcpClientReceiveNull(fd)
  <2>1. /\ stack = <<>> /\ stack' = <<>> /\ UNCHANGED live
        /\ net' = TcpClientDoneNet /\ tc' = TcpClientDisconnected
    BY <1>19 DEF TcpClientReceiveNull, ReceivesNull, Polled, Idle
  <2>2. ASSUME tc = TcpClientNew PROVE tc' = TcpClientNew
    <3>1. /\ tc'.x_fd = tc.x_fd /\ tc'.x_connectstate = tc.x_connectstate
          /\ tc'.x_timeout = tc.x_timeout
      BY <1>3, <2>1 DEF TcpClientTypeOK, TcpClientDisconnected
    <3>2. tc' = [x_fd |-> tc'.x_fd, x_hostname |-> tc'.x_hostname,
                 x_connectstate |-> tc'.x_connectstate,
                 x_sender |-> tc'.x_sender, x_receiver |-> tc'.x_receiver,
                 x_timeout |-> tc'.x_timeout, told |-> tc'.told]
      BY <1>1 DEF TypeInv, TcpClientTypeOK
    <3> QED
      BY <1>8, <2>1, <2>2, <3>1, <3>2 DEF TcpClientNew
  <2>3. DeletedIsNew'
    BY <1>3, <2>1, <2>2 DEF DeletedIsNew
  <2> QED
    BY <1>5, <1>9, <2>1, <2>3 DEF StackInv
<1>20. CASE \E ms \in Timeouts : TcpClientTimeout(ms)
  <2>1. PICK ms \in Timeouts :
          /\ tc' = [tc EXCEPT !.x_timeout = ms] /\ TcpClient \in live
          /\ UNCHANGED <<net, live, stack>>
    BY <1>20 DEF TcpClientTimeout, Receives
  <2>2. HeldInv' /\ TcpClientInv'
    BY <1>3, <2>1 DEF HeldInv, TcpClientInv, TcpClientTypeOK
  <2> QED
    BY <1>3, <1>5, <1>6, <2>1, <2>2 DEF StackInv
<1>21. CASE TcpClientSenderStops
  <2>1. /\ tc.x_sender = "running" /\ tc' = [tc EXCEPT !.x_sender = "stopped"]
        /\ UNCHANGED <<net, live, stack>>
    BY <1>21 DEF TcpClientSenderStops
  <2>2. HeldInv' /\ TcpClientInv'
    BY <1>3, <2>1 DEF HeldInv, TcpClientInv, TcpClientTypeOK, NULL
  <2>3. TcpClient \in live
    BY <1>3, <2>1 DEF DeletedIsNew, TcpClientNew, NULL
  <2> QED
    BY <1>3, <1>5, <1>6, <2>1, <2>2, <2>3 DEF StackInv
<1> QED
  BY <1>10, <1>11, <1>12, <1>13, <1>14, <1>15, <1>16, <1>17, <1>18, <1>19,
     <1>20, <1>21 DEF TcpClientNext, TcpClientResume
(* [tcpsend] closes the socket it has, if it has one.                      *)
LEMMA SendDisconnects ==
  ASSUME TcpInv
  PROVE  LET m == CloseSocket(net, TcpSend, ts.x_fd)
         IN  /\ m.crashed = net.crashed /\ ~m.foul
             /\ Agrees(m, tc.x_receiver, None, tr)
<1> DEFINE fds == {ts.x_fd}
           m == CloseSockets(net, TcpSend, fds)
<1>1. /\ IsNet(net, TcpObjects) /\ ts.x_fd \in Fds \cup {None}
      /\ Agrees(net, tc.x_receiver, ts.x_fd, tr) /\ ~net.foul
  BY DEF TcpInv, TypeInv, TcpSendTypeOK, HeldInv
<1>2. \A fd \in fds \ {None} :
        net.owner[fd] = TcpSend /\ net.polls[fd] = <<>>
  BY <1>1 DEF Agrees, AgreesAt
<1>3. Released(net, m, fds) /\ m.foul = net.foul /\ m.crashed = net.crashed
  BY <1>1, <1>2, CloseEffect
<1> HIDE DEF m
<1>4. Agrees(m, tc.x_receiver, None, tr)
  BY <1>1, <1>3, SendReleases
<1> QED
  BY <1>1, <1>3, <1>4 DEF m, CloseSocket

(* Every message to [tcpsend] keeps the invariant.                         *)
LEMMA TcpSendKeepsInv ==
  ASSUME TcpInv, TcpSendNext, UNCHANGED <<tc, tr>>
  PROVE  TcpInv'
<1>1. TypeInv'
  BY TcpSendKeepsTypes DEF TcpInv
<1>2. /\ DeletedIsNew /\ StackInv /\ TcpClientInv /\ HeldInv /\ TcpSendInv
      /\ TcpSendTypeOK /\ IsNet(net, TcpObjects)
  BY DEF TcpInv, TypeInv
<1>3. ASSUME TcpSendInv', HeldInv', UNCHANGED stack,
             net'.crashed = net.crashed, DeletedIsNew',
             TcpClient \in live <=> TcpClient \in live'
      PROVE  TcpInv'
  <2>1. StackInv' /\ TcpClientInv' /\ TcpReceiveInv'
    BY <1>2, <1>3 DEF StackInv, TcpClientInv, TcpReceiveInv, TcpInv
  <2> QED
    BY <1>1, <1>3, <2>1 DEF TcpInv
<1>4. CASE TcpSendCreate
  <2>1. ts = TcpSendNew /\ UNCHANGED <<net, ts, stack>>
    BY <1>2, <1>4 DEF TcpSendCreate, DeletedIsNew
  <2>2. /\ DeletedIsNew' /\ (TcpClient \in live <=> TcpClient \in live')
    BY <1>2, <1>4, <2>1
       DEF TcpSendCreate, DeletedIsNew, TcpClient, TcpSend, TcpReceive
  <2>3. TcpSendInv' /\ HeldInv'
    BY <1>2, <2>1 DEF TcpSendInv, HeldInv
  <2> QED
    BY <1>3, <2>1, <2>2, <2>3
<1>5. CASE TcpSendFree
  <2>1. /\ net' = CloseSocket(net, TcpSend, ts.x_fd) /\ ts' = TcpSendNew
        /\ UNCHANGED stack
    BY <1>5 DEF TcpSendFree
  <2>2. HeldInv' /\ net'.crashed = net.crashed
    BY <2>1, SendDisconnects DEF HeldInv, TcpSendNew
  <2>3. TcpSendInv'
    BY <2>1 DEF TcpSendInv, TcpSendNew
  <2>4. /\ DeletedIsNew' /\ (TcpClient \in live <=> TcpClient \in live')
    BY <1>2, <1>5, <2>1
       DEF TcpSendFree, DeletedIsNew, TcpClient, TcpSend, TcpReceive
  <2> QED
    BY <1>3, <2>1, <2>2, <2>3, <2>4
<1>6. CASE TcpSendConnect
  <2>1. PICK fd \in Unused(net), r \in {"up", "dead"}, s \in {"running", NULL} :
          /\ net' = Open(net, TcpSend, fd, r)
          /\ ts' = [ts EXCEPT !.x_fd = fd, !.x_sender = s, !.told = 1]
          /\ UNCHANGED <<live, stack>> /\ TcpSend \in live /\ ts.x_fd = None
    BY <1>6 DEF TcpSendConnect, Connect, SenderCreate, Receives
  <2>2. /\ fd \in Fds /\ fd # None /\ net.owner[fd] = NoOne
        /\ net.polls[fd] = <<>> /\ TcpSend \in TcpObjects
    BY <1>2, NoneIsNoFd DEF Unused, HeldInv, Agrees, AgreesAt, TcpObjects
  <2>3. /\ Acquired(net, net', fd, TcpSend, <<>>)
        /\ net'.foul = net.foul /\ net'.crashed = net.crashed
    BY <1>2, <2>1, <2>2, OpenOnlyEffect
  <2>4. Agrees(net', tc.x_receiver, fd, tr)
    BY <1>2, <2>1, <2>2, <2>3, SendAcquires DEF HeldInv
  <2>5. ts'.x_fd = fd /\ ts'.told = 1
    BY <1>2, <2>1 DEF TcpSendTypeOK
  <2>6. HeldInv' /\ TcpSendInv'
    BY <1>2, <2>2, <2>3, <2>4, <2>5 DEF HeldInv, TcpSendInv
  <2> QED
    BY <1>2, <1>3, <2>1, <2>3, <2>6 DEF DeletedIsNew
<1>7. CASE TcpSendDisconnect
  <2>1. /\ net' = CloseSocket(net, TcpSend, ts.x_fd)
        /\ ts'.x_fd = None /\ ts'.x_sender = NULL /\ ts'.told = 0
        /\ UNCHANGED <<live, stack>> /\ TcpSend \in live
    BY <1>2, <1>7 DEF TcpSendDisconnect, Receives, TcpSendTypeOK, TcpSendInv
  <2>2. HeldInv' /\ net'.crashed = net.crashed
    BY <2>1, SendDisconnects DEF HeldInv
  <2>3. TcpSendInv'
    BY <2>1 DEF TcpSendInv
  <2> QED
    BY <1>2, <1>3, <2>1, <2>2, <2>3 DEF DeletedIsNew
<1>8. CASE \E ms \in Timeouts : TcpSendTimeout(ms)
  <2>1. PICK ms \in Timeouts :
          /\ ts' = [ts EXCEPT !.x_timeout = ms] /\ TcpSend \in live
          /\ UNCHANGED <<net, live, stack>>
    BY <1>8 DEF TcpSendTimeout, Receives
  <2>2. HeldInv' /\ TcpSendInv'
    BY <1>2, <2>1 DEF HeldInv, TcpSendInv, TcpSendTypeOK
  <2> QED
    BY <1>2, <1>3, <2>1, <2>2 DEF DeletedIsNew
<1> QED
  BY <1>4, <1>5, <1>6, <1>7, <1>8 DEF TcpSendNext
(* [tcpreceive]: the listening socket goes, and a new one may come.        *)
LEMMA ListenerGoes ==
  ASSUME TcpInv
  PROVE  LET m == CloseSocket(RmPollFns(net, {tr.x_connectsocket}),
                              TcpReceive, tr.x_connectsocket)
             u == [tr EXCEPT !.x_connectsocket = None, !.x_port = NoPort]
         IN  /\ IsNet(m, TcpObjects) /\ m.crashed = net.crashed /\ ~m.foul
             /\ Released(net, m, {tr.x_connectsocket})
             /\ Agrees(m, tc.x_receiver, ts.x_fd, u)
<1> DEFINE fds == {tr.x_connectsocket}
           m == CloseSockets(RmPollFns(net, fds), TcpReceive, fds)
           u == [tr EXCEPT !.x_connectsocket = None, !.x_port = NoPort]
<1>1. /\ IsNet(net, TcpObjects) /\ tr.x_connectsocket \in Fds \cup {None}
      /\ Agrees(net, tc.x_receiver, ts.x_fd, tr) /\ ~net.foul
  BY DEF TcpInv, TypeInv, TcpReceiveTypeOK, HeldInv
<1>2. \A fd \in fds \ {None} :
        /\ fd \in Fds /\ net.owner[fd] = TcpReceive
        /\ \E x : net.polls[fd] = <<x>>
  BY <1>1 DEF Agrees, AgreesAt
<1>3. /\ IsNet(m, TcpObjects) /\ Released(net, m, fds)
      /\ m.foul = net.foul /\ m.crashed = net.crashed
  BY <1>1, <1>2, ReleaseEffect
<1>4. u.x_connectsocket = None /\ u.x_connection = tr.x_connection
  BY DEF TcpInv, TypeInv, TcpReceiveTypeOK
<1> HIDE DEF m, u
<1>5. Agrees(m, tc.x_receiver, ts.x_fd, u)
  BY <1>1, <1>3, <1>4, ListenerReleases
<1> QED
  BY <1>1, <1>3, <1>5 DEF m, u, CloseSocket

(* tcpreceive_port after the test for the current port.                    *)
LEMMA ListenerComes ==
  ASSUME TcpInv, NEW req, TcpReceiveListen(net, tr, req), UNCHANGED <<tc, ts>>
  PROVE  HeldInv' /\ TcpReceiveInv' /\ net'.crashed = net.crashed
<1> DEFINE m == CloseSocket(RmPollFns(net, {tr.x_connectsocket}), TcpReceive,
                            tr.x_connectsocket)
           u == [tr EXCEPT !.x_connectsocket = None, !.x_port = NoPort]
<1>1. /\ IsNet(m, TcpObjects) /\ m.crashed = net.crashed /\ ~m.foul
      /\ Agrees(m, tc.x_receiver, ts.x_fd, u)
  BY ListenerGoes
<1>2. \/ net' = m /\ tr' = u
      \/ \E fd \in Unused(m), p \in Ports :
           /\ net' = AddPollFn(Open(m, TcpReceive, fd, NULL), fd,
                               TcpReceive, Listener)
           /\ tr' = [tr EXCEPT !.x_connectsocket = fd, !.x_port = p]
  BY DEF TcpReceiveListen
<1>3. tr'.x_connection = tr.x_connection /\ u.x_connection = tr.x_connection
      /\ u.x_connectsocket = None
  BY <1>2 DEF TcpInv, TypeInv, TcpReceiveTypeOK
<1> HIDE DEF m, u
<1>4. TcpReceiveInv'
  BY <1>3 DEF TcpInv, TcpReceiveInv
<1>5. CASE net' = m /\ tr' = u
  BY <1>1, <1>4, <1>5 DEF HeldInv
<1>6. CASE \E fd \in Unused(m), p \in Ports :
             /\ net' = AddPollFn(Open(m, TcpReceive, fd, NULL), fd,
                                 TcpReceive, Listener)
             /\ tr' = [tr EXCEPT !.x_connectsocket = fd, !.x_port = p]
  <2>1. PICK fd \in Unused(m), p \in Ports :
          /\ net' = AddPollFn(Open(m, TcpReceive, fd, NULL), fd,
                              TcpReceive, Listener)
          /\ tr' = [tr EXCEPT !.x_connectsocket = fd, !.x_port = p]
    BY <1>6
  <2>2. /\ fd \in Fds /\ m.owner[fd] = NoOne /\ m.polls[fd] = <<>>
        /\ TcpReceive \in TcpObjects /\ Listener \in Nat
    BY <1>1 DEF Unused, Agrees, AgreesAt, TcpObjects, Listener
  <2>3. /\ Acquired(m, net', fd, TcpReceive, <<<<TcpReceive, Listener>>>>)
        /\ net'.foul = m.foul /\ net'.crashed = m.crashed
    BY <1>1, <2>1, <2>2, AcquireEffect
  <2>4. tr'.x_connectsocket = fd
    BY <2>1 DEF TcpInv, TypeInv, TcpReceiveTypeOK
  <2>5. Agrees(net', tc.x_receiver, ts.x_fd, tr')
    BY <1>1, <1>3, <2>2, <2>3, <2>4, ListenerAcquires
  <2> QED
    BY <1>1, <1>4, <2>3, <2>5 DEF HeldInv
<1> QED
  BY <1>2, <1>5, <1>6

(* tcpreceive_disconnect gives up the socket of one slot ...               *)
LEMMA SlotCloses ==
  ASSUME TcpInv, NEW ids \in SUBSET Slots, NEW n, IsNet(n, TcpObjects),
         \A i \in ids, fd \in Fds : fd = tr.x_connection[i].socket =>
           /\ n.owner[fd] = TcpReceive
           /\ n.polls[fd] = <<<<TcpReceive, i>>>>
  PROVE  LET m == TcpReceiveClose(n, ids)
         IN  /\ Released(n, m, {tr.x_connection[i].socket : i \in ids})
             /\ m.foul = n.foul /\ m.crashed = n.crashed
<1> DEFINE fds == {tr.x_connection[i].socket : i \in ids}
           recs == {tr.x_connection[i].receiver : i \in ids} \ {None}
<1>1. \A i \in Slots : /\ tr.x_connection[i].socket \in Fds \cup {None}
                       /\ tr.x_connection[i].receiver
                            = tr.x_connection[i].socket
  BY DEF TcpInv, TypeInv, TcpReceiveTypeOK, TcpReceiveInv
<1>2. \A fd \in Fds : fd \in recs <=> fd \in fds
  BY <1>1, NoneIsNoFd
<1>3. \A fd \in fds \ {None} : fd \in Fds /\ n.owner[fd] = TcpReceive
  BY <1>1
<1>4. \A fd \in fds \ {None} : \E x : n.polls[fd] = <<x>>
  BY <1>1
<1>5. TcpReceiveClose(n, ids) = CloseSockets(RmPollFns(n, recs), TcpReceive, fds)
  BY DEF TcpReceiveClose, ReceiversDestroy
<1> HIDE DEF fds, recs
<1> QED
  BY <1>2, <1>3, <1>4, <1>5, ReleaseEffect DEF fds

(* Every message to [tcpreceive] and every callback keeps the invariant.   *)
LEMMA TcpReceiveKeepsInv ==
  ASSUME TcpInv, TcpReceiveNext, UNCHANGED <<tc, ts>>
  PROVE  TcpInv'
<1>1. TypeInv'
  BY TcpReceiveKeepsTypes DEF TcpInv
<1>2. /\ DeletedIsNew /\ StackInv /\ TcpClientInv /\ HeldInv /\ TcpReceiveInv
      /\ TcpReceiveTypeOK /\ IsNet(net, TcpObjects)
      /\ Agrees(net, tc.x_receiver, ts.x_fd, tr) /\ ~net.foul
  BY DEF TcpInv, TypeInv, HeldInv
<1>3. ASSUME TcpReceiveInv', HeldInv', UNCHANGED stack,
             net'.crashed = net.crashed, DeletedIsNew',
             TcpClient \in live <=> TcpClient \in live'
      PROVE  TcpInv'
  <2>1. StackInv' /\ TcpClientInv' /\ TcpSendInv'
    BY <1>2, <1>3 DEF StackInv, TcpClientInv, TcpSendInv, TcpInv
  <2> QED
    BY <1>1, <1>3, <2>1 DEF TcpInv
<1>4. ASSUME NEW req, TcpReceiveCreate(req)
      PROVE  TcpInv'
  <2>1. tr = TcpReceiveNew /\ TcpReceiveListen(net, tr, req) /\ UNCHANGED stack
    BY <1>2, <1>4 DEF TcpReceiveCreate, DeletedIsNew
  <2>2. HeldInv' /\ TcpReceiveInv' /\ net'.crashed = net.crashed
    BY <2>1, ListenerComes
  <2>3. DeletedIsNew' /\ (TcpClient \in live <=> TcpClient \in live')
    BY <1>2, <1>4
       DEF TcpReceiveCreate, DeletedIsNew, TcpClient, TcpSend, TcpReceive
  <2> QED
    BY <1>3, <2>1, <2>2, <2>3
<1>5. ASSUME NEW req, TcpReceivePort(req)
      PROVE  TcpInv'
  <2>1. /\ TcpReceiveListen(net, tr, req) /\ UNCHANGED <<live, stack>>
        /\ TcpReceive \in live
    BY <1>5 DEF TcpReceivePort, Receives
  <2>2. HeldInv' /\ TcpReceiveInv' /\ net'.crashed = net.crashed
    BY <2>1, ListenerComes
  <2> QED
    BY <1>2, <1>3, <2>1, <2>2 DEF DeletedIsNew
<1>6. ASSUME NEW fd \in Fds, TcpReceiveConnectPoll(fd)
      PROVE  TcpInv'
  <2> DEFINE i == CHOOSE i \in Slots \ UsedSlots(tr) :
                    \A j \in Slots \ UsedSlots(tr) : i <= j
  <2>1. i \in Slots \ UsedSlots(tr)
    BY <1>6, FirstFreeSlot DEF TcpReceiveConnectPoll
  <2>2. PICK sock \in Unused(net) :
          /\ net' = ReceiverCreate(Open(net, TcpReceive, sock, "up"), sock,
                                   TcpReceive, i)
          /\ tr' = [tr EXCEPT
                      !.x_connection[i] = [socket |-> sock, receiver |-> sock],
                      !.x_nconnections = @ + 1,
                      !.told = tr.x_nconnections + 1]
    BY <1>6 DEF TcpReceiveConnectPoll
  <2>3. /\ UNCHANGED <<live, stack>> /\ TcpReceive \in live
    <3>1. tr.x_connectsocket # None /\ UNCHANGED <<live, stack>>
      BY <1>6, NoneIsNoFd DEF TcpReceiveConnectPoll
    <3> QED
      BY <1>2, <3>1 DEF DeletedIsNew, TcpReceiveNew
  <2> HIDE DEF i
  <2>4. /\ sock \in Fds /\ net.owner[sock] = NoOne /\ net.polls[sock] = <<>>
        /\ TcpReceive \in TcpObjects /\ i \in Nat
    BY <1>2, <2>1, MaxConnectionsAssumption
       DEF Unused, Agrees, AgreesAt, TcpObjects, Slots
  <2>5. /\ Acquired(net, net', sock, TcpReceive, <<<<TcpReceive, i>>>>)
        /\ net'.foul = net.foul /\ net'.crashed = net.crashed
    BY <1>2, <2>2, <2>4, AcquireEffect DEF ReceiverCreate
  <2>6. /\ tr'.x_connectsocket = tr.x_connectsocket
        /\ \A j \in Slots :
             tr'.x_connection[j] = IF j = i
                                   THEN [socket |-> sock, receiver |-> sock]
                                   ELSE tr.x_connection[j]
    BY <1>2, <2>1, <2>2 DEF TcpReceiveTypeOK
  <2>7. i \in Slots /\ tr.x_connection[i].socket = None
    BY <2>1 DEF UsedSlots
  <2>8. Agrees(net', tc.x_receiver, ts.x_fd, tr')
    BY <1>2, <2>4, <2>5, <2>6, <2>7, SlotAcquires
  <2>9. TcpReceiveInv'
    BY <1>2, <2>6 DEF TcpReceiveInv
  <2> QED
    BY <1>2, <1>3, <2>3, <2>5, <2>8, <2>9 DEF DeletedIsNew, HeldInv
<1>7. ASSUME NEW fd \in Fds, NEW y \in Slots, TcpReceiveReadNull(fd, y)
      PROVE  TcpInv'
  <2> DEFINE i == TcpReceiveFindSocket(tr.x_connection[y].socket)
  <2>1. TcpReceiveDisconnect(i) /\ UNCHANGED <<live, stack>>
    BY <1>7 DEF TcpReceiveReadNull
  <2> HIDE DEF i
  <2>2. /\ i \in Slots /\ tr.x_connection[i].socket # None
        /\ net' = TcpReceiveClose(net, {i})
        /\ tr' = [tr EXCEPT !.x_connection[i] = NoConnection,
                            !.x_nconnections = @ - 1,
                            !.told = tr.x_nconnections - 1]
    BY <2>1 DEF TcpReceiveDisconnect, UsedSlots
  <2>3. \A k \in {i}, f \in Fds : f = tr.x_connection[k].socket =>
          net.owner[f] = TcpReceive /\ net.polls[f] = <<<<TcpReceive, k>>>>
    BY <1>2, <2>2 DEF Agrees, AgreesAt
  <2>4. {tr.x_connection[k].socket : k \in {i}} = {tr.x_connection[i].socket}
    OBVIOUS
  <2>5. /\ Released(net, net', {tr.x_connection[i].socket})
        /\ net'.foul = net.foul /\ net'.crashed = net.crashed
    BY <1>2, <2>2, <2>3, <2>4, SlotCloses
  <2>6. /\ tr'.x_connectsocket = tr.x_connectsocket
        /\ \A j \in Slots :
             tr'.x_connection[j] = IF j = i THEN NoConnection
                                   ELSE tr.x_connection[j]
    BY <1>2, <2>2 DEF TcpReceiveTypeOK
  <2>7. Agrees(net', tc.x_receiver, ts.x_fd, tr')
    <3>1. i \in Slots /\ Agrees(net, tc.x_receiver, ts.x_fd, tr)
      BY <1>2, <2>2
    <3> QED
      BY <2>5, <2>6, <3>1, SlotReleases
  <2>8. TcpReceiveInv'
    BY <1>2, <2>6 DEF TcpReceiveInv, NoConnection
  <2>9. TcpReceive \in live
    BY <1>2, <2>2 DEF DeletedIsNew, TcpReceiveNew, NoConnection
  <2> QED
    BY <1>2, <1>3, <2>1, <2>5, <2>7, <2>8, <2>9 DEF DeletedIsNew, HeldInv
<1>8. CASE TcpReceiveFree
  <2> DEFINE n == CloseSocket(RmPollFns(net, {tr.x_connectsocket}),
                              TcpReceive, tr.x_connectsocket)
             ids == UsedSlots(tr)
  <2>1. /\ net' = TcpReceiveClose(n, ids) /\ tr' = TcpReceiveNew
        /\ UNCHANGED stack /\ live' = live \ {TcpReceive}
    BY <1>8 DEF TcpReceiveFree
  <2>2. /\ IsNet(n, TcpObjects) /\ n.crashed = net.crashed /\ ~n.foul
        /\ Released(net, n, {tr.x_connectsocket})
    BY ListenerGoes
  <2> HIDE DEF n
  <2>3. ids \in SUBSET Slots
    BY DEF UsedSlots
  <2>4. \A i \in ids, fd \in Fds : fd = tr.x_connection[i].socket =>
          n.owner[fd] = TcpReceive /\ n.polls[fd] = <<<<TcpReceive, i>>>>
    <3> SUFFICES ASSUME NEW i \in ids, NEW fd \in Fds,
                        fd = tr.x_connection[i].socket
                 PROVE  /\ n.owner[fd] = TcpReceive
                        /\ n.polls[fd] = <<<<TcpReceive, i>>>>
      OBVIOUS
    <3>1. i \in Slots /\ fd # tr.x_connectsocket
      BY <1>2, <2>3, OneHolder
    <3>2. /\ net.owner[fd] = TcpReceive
          /\ net.polls[fd] = <<<<TcpReceive, i>>>>
      BY <1>2, <3>1 DEF Agrees, AgreesAt
    <3> QED
      BY <2>2, <3>1, <3>2 DEF Released
  <2>5. /\ Released(n, net', {tr.x_connection[i].socket : i \in ids})
        /\ net'.foul = n.foul /\ net'.crashed = n.crashed
    BY <2>1, <2>2, <2>3, <2>4, SlotCloses
  <2>6. Released(net, net', {tr.x_connectsocket} \cup
                              {tr.x_connection[i].socket : i \in ids})
    BY <2>2, <2>5, ReleasedTwice
  <2>7. Agrees(net', tc.x_receiver, ts.x_fd, tr')
    BY <1>2, <2>1, <2>6, ReceiveReleasesAll
  <2>8. TcpReceiveInv'
    BY <2>1 DEF TcpReceiveInv, TcpReceiveNew, NoConnection
  <2>9. DeletedIsNew' /\ (TcpClient \in live <=> TcpClient \in live')
    BY <1>2, <2>1 DEF DeletedIsNew, TcpClient, TcpSend, TcpReceive
  <2> QED
    BY <1>3, <2>1, <2>2, <2>5, <2>7, <2>8, <2>9 DEF HeldInv
<1> QED
  BY <1>4, <1>5, <1>6, <1>7, <1>8 DEF TcpReceiveNext

(* The invariant is inductive.                                             *)
LEMMA TcpInvInductive ==
  ASSUME TcpClient \notin Reentrant
  PROVE  /\ Init => TcpInv
         /\ TcpInv /\ [Next]_vars => TcpInv'
<1>1. ASSUME Init PROVE TcpInv
  <2>1. TypeInv
    BY <1>1, TypeInvInductive
  <2>2. DeletedIsNew /\ StackInv
    BY <1>1 DEF Init, NetInit, DeletedIsNew, StackInv
  <2>3. TcpClientInv /\ TcpSendInv
    BY <1>1 DEF Init, NetInit, TcpClientInv, TcpClientNew, TcpSendInv,
                TcpSendNew, Host, NULL
  <2>4. TcpReceiveInv
    BY <1>1 DEF Init, TcpReceiveInv, TcpReceiveNew, NoConnection
  <2>5. HeldInv
    <3> SUFFICES ASSUME NEW fd \in Fds
                 PROVE  AgreesAt(net, tc.x_receiver, ts.x_fd, tr, fd)
      BY <1>1 DEF Init, NetInit, HeldInv, Agrees
    <3>1. /\ fd # tc.x_receiver /\ fd # ts.x_fd /\ fd # tr.x_connectsocket
          /\ \A i \in Slots : fd # tr.x_connection[i].socket
      BY <1>1, NoneIsNoFd
         DEF Init, TcpClientNew, TcpSendNew, TcpReceiveNew, NoConnection
    <3>2. net.owner[fd] = NoOne /\ net.polls[fd] = <<>>
      BY <1>1 DEF Init, NetInit
    <3> QED
      BY <3>1, <3>2 DEF AgreesAt, NoOne, TcpClient, TcpSend, TcpReceive
  <2> QED
    BY <2>1, <2>2, <2>3, <2>4, <2>5 DEF TcpInv
<1>2. ASSUME TcpInv, [Next]_vars PROVE TcpInv'
  <2>1. TypeInv'
    BY <1>2, TypeInvInductive DEF TcpInv
  <2>2. ASSUME UNCHANGED <<tc, ts, tr, live, stack>>,
               net'.owner = net.owner, net'.polls = net.polls,
               net'.foul = net.foul, net'.crashed = net.crashed
        PROVE  TcpInv'
    BY <1>2, <2>1, <2>2
       DEF TcpInv, DeletedIsNew, StackInv, TcpClientInv, TcpSendInv,
           TcpReceiveInv, HeldInv, Agrees, AgreesAt
  <2>3. CASE RemoteDies /\ UNCHANGED <<tc, ts, tr>>
    <3>1. PICK fd \in Fds : net' = [net EXCEPT !.remote[fd] = "dead"]
      BY <2>3 DEF RemoteDies
    <3>2. /\ net'.owner = net.owner /\ net'.polls = net.polls
          /\ net'.foul = net.foul /\ net'.crashed = net.crashed
      BY <1>2, <3>1 DEF TcpInv, TypeInv, IsNet
    <3> QED
      BY <2>2, <2>3, <3>2 DEF RemoteDies
  <2>4. CASE UNCHANGED vars
    BY <2>2, <2>4 DEF vars, netVars
  <2> QED
    BY <1>2, <2>3, <2>4, TcpClientKeepsInv, TcpSendKeepsInv,
       TcpReceiveKeepsInv DEF Next
<1> QED
  BY <1>1, <1>2
----------------------------------------------------------------------------
(* What the invariant says of the descriptors.                             *)
LEMMA WhoHasWhat ==
  ASSUME TcpInv
  PROVE  /\ Opened(TcpClient) = {tc.x_receiver} \ {None}
         /\ Opened(TcpSend) = {ts.x_fd} \ {None}
         /\ Opened(TcpReceive) =
              ({tr.x_connectsocket}
                 \cup {tr.x_connection[i].socket : i \in Slots}) \ {None}
<1>1. /\ tc.x_receiver \in Fds \cup {None} /\ ts.x_fd \in Fds \cup {None}
      /\ tr.x_connectsocket \in Fds \cup {None}
      /\ \A i \in Slots : tr.x_connection[i].socket \in Fds \cup {None}
  BY DEF TcpInv, TypeInv, TcpClientTypeOK, TcpSendTypeOK, TcpReceiveTypeOK
<1>2. \A fd \in Fds : /\ net.owner[fd] = TcpClient <=> fd = tc.x_receiver
                      /\ net.owner[fd] = TcpSend <=> fd = ts.x_fd
                      /\ net.owner[fd] = TcpReceive <=>
                           \/ fd = tr.x_connectsocket
                           \/ \E i \in Slots : fd = tr.x_connection[i].socket
  BY DEF TcpInv, HeldInv, Agrees, AgreesAt
<1> QED
  BY <1>1, <1>2, NoneIsNoFd DEF Opened

(* As long as no message reaches [tcpclient] from inside its own outlets,  *)
(* iemnet__closesocket is called only with descriptors that the calling    *)
(* object has open.                                                        *)
THEOREM TcpClosesOwn ==
  ASSUME TcpClient \notin Reentrant
  PROVE  Spec => []ClosesOnlyItsOwn
<1>1. TcpInv => ClosesOnlyItsOwn
  BY DEF TcpInv, HeldInv, ClosesOnlyItsOwn
<1> QED
  BY <1>1, TcpInvInductive, PTL DEF Spec

(* Under the same condition no descriptor leaks and none is used after its *)
(* close: each object has open exactly what it would use and close later.  *)
THEOREM TcpSocketsHeld ==
  ASSUME TcpClient \notin Reentrant
  PROVE  Spec => []SocketsHeldByOwner
<1>1. TcpInv => SocketsHeldByOwner
  <2> SUFFICES ASSUME TcpInv
               PROVE  \A o \in TcpObjects : Opened(o) = Holds(o) \ {None}
    BY DEF SocketsHeldByOwner
  <2>1. Opened(TcpClient) = Holds(TcpClient) \ {None}
    <3>1. Holds(TcpClient) =
            {None} \cup (IF tc.x_receiver = None THEN {} ELSE {tc.x_fd})
      BY DEF Holds, TcpClient, TcpSend, TcpReceive
    <3>2. tc.x_receiver \in {None, tc.x_fd}
      BY DEF TcpInv, TcpClientInv
    <3> QED
      BY <3>1, <3>2, WhoHasWhat
  <2>2. Opened(TcpSend) = Holds(TcpSend) \ {None}
    <3>1. Holds(TcpSend) = {None} \cup {ts.x_fd}
      BY DEF Holds, TcpClient, TcpSend, TcpReceive
    <3> QED
      BY <3>1, WhoHasWhat
  <2>3. Opened(TcpReceive) = Holds(TcpReceive) \ {None}
    <3>1. Holds(TcpReceive) =
            {None} \cup ({tr.x_connectsocket}
                           \cup {tr.x_connection[i].socket : i \in Slots})
      BY DEF Holds, TcpClient, TcpSend, TcpReceive
    <3> QED
      BY <3>1, WhoHasWhat
  <2> QED
    BY <2>1, <2>2, <2>3 DEF TcpObjects
<1> QED
  BY <1>1, TcpInvInductive, PTL DEF Spec

(* Under the same condition a send thread is alive only while its owner    *)
(* has the socket open that it writes to.                                  *)
THEOREM TcpSendersHaveSockets ==
  ASSUME TcpClient \notin Reentrant
  PROVE  Spec => []SendersUseOwnSocket
<1>1. TcpInv => SendersUseOwnSocket
  <2> SUFFICES ASSUME TcpInv PROVE SendersUseOwnSocket
    OBVIOUS
  <2>1. tc.x_sender # NULL => tc.x_receiver # None /\ tc.x_receiver = tc.x_fd
    BY DEF TcpInv, TcpClientInv
  <2>2. ts.x_sender # NULL => ts.x_fd # None
    BY DEF TcpInv, TcpSendInv
  <2> QED
    BY <2>1, <2>2, WhoHasWhat DEF SendersUseOwnSocket
<1> QED
  BY <1>1, TcpInvInductive, PTL DEF Spec

(* Under the same condition Pd calls back exactly the objects that wait    *)
(* for something, once per descriptor and with the slot that has it, and   *)
(* never a deleted one.                                                    *)
THEOREM TcpPollsReachHolders ==
  ASSUME TcpClient \notin Reentrant
  PROVE  Spec => []PollsReachHolders
<1>1. TcpInv => PollsReachHolders
  <2> SUFFICES ASSUME TcpInv, NEW fd \in Fds
               PROVE  net.polls[fd] =
                        IF fd \in Opened(TcpClient) THEN <<<<TcpClient, 0>>>>
                        ELSE IF fd \notin Opened(TcpReceive) THEN <<>>
                        ELSE IF fd = tr.x_connectsocket
                             THEN <<<<TcpReceive, Listener>>>>
                        ELSE <<<<TcpReceive, TcpReceiveFindSocket(fd)>>>>
    BY DEF PollsReachHolders
  <2>1. AgreesAt(net, tc.x_receiver, ts.x_fd, tr, fd)
    BY DEF TcpInv, HeldInv, Agrees
  <2>2. net.owner[fd] \in {NoOne, TcpClient, TcpSend, TcpReceive}
    BY DEF TcpInv, TypeInv, IsNet, TcpObjects
  <2>3. CASE net.owner[fd] = TcpClient
    BY <2>1, <2>3 DEF AgreesAt, Opened
  <2>4. CASE net.owner[fd] \in {NoOne, TcpSend}
    BY <2>1, <2>4
       DEF AgreesAt, Opened, NoOne, TcpClient, TcpSend, TcpReceive
  <2>5. CASE net.owner[fd] = TcpReceive /\ fd = tr.x_connectsocket
    BY <2>1, <2>5 DEF AgreesAt, Opened, TcpClient, TcpReceive
  <2>6. CASE net.owner[fd] = TcpReceive /\ fd # tr.x_connectsocket
    <3>1. PICK i \in Slots : fd = tr.x_connection[i].socket
      BY <2>1, <2>6 DEF AgreesAt
    <3>2. /\ TcpReceiveFindSocket(fd) \in Slots
          /\ tr.x_connection[TcpReceiveFindSocket(fd)].socket = fd
      BY <3>1, FindSocketFinds
    <3>3. net.polls[fd] = <<<<TcpReceive, TcpReceiveFindSocket(fd)>>>>
      BY <2>1, <3>2 DEF AgreesAt
    <3> QED
      BY <2>6, <3>3 DEF Opened, TcpClient, TcpReceive
  <2> QED
    BY <2>2, <2>3, <2>4, <2>5, <2>6
<1> QED
  BY <1>1, TcpInvInductive, PTL DEF Spec

(* Under the same condition the numbers last sent to the connection        *)
(* outlets are those of the connections there are, whenever no message is  *)
(* being handled.                                                          *)
THEOREM TcpReports ==
  ASSUME TcpClient \notin Reentrant
  PROVE  Spec => []ReportedIsHeld
<1>1. TcpInv => ReportedIsHeld
  <2> SUFFICES ASSUME TcpInv, Idle
               PROVE  /\ tc.told = Cardinality(Opened(TcpClient))
                      /\ ts.told = Cardinality(Opened(TcpSend))
                      /\ tr.told = Cardinality(UsedSlots(tr))
    BY DEF ReportedIsHeld
  <2>1. \A x : Cardinality({x} \ {None}) = IF x = None THEN 0 ELSE 1
    <3> SUFFICES ASSUME NEW x
                 PROVE  Cardinality({x} \ {None}) = IF x = None THEN 0 ELSE 1
      OBVIOUS
    <3>1. x = None => {x} \ {None} = {}
      OBVIOUS
    <3>2. x # None => {x} \ {None} = {x}
      OBVIOUS
    <3> QED
      BY <3>1, <3>2, FS_EmptySet, FS_Singleton
  <2>2. tc.told = IF tc.x_receiver = None THEN 0 ELSE 1
    BY DEF TcpInv, TcpClientInv, Idle
  <2>3. ts.told = IF ts.x_fd = None THEN 0 ELSE 1
    BY DEF TcpInv, TcpSendInv
  <2>4. tr.told = Cardinality(UsedSlots(tr))
    BY DEF TcpInv, TypeInv, SlotsCounted
  <2> QED
    BY <2>1, <2>2, <2>3, <2>4, WhoHasWhat
<1> QED
  BY <1>1, TcpInvInductive, PTL DEF Spec
============================================================================
