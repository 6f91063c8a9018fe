----------------------------- MODULE UdpReceive ----------------------------
(***************************************************************************)
(* [udpreceive] (udpreceive.c): a bound datagram socket with a receiver.   *)
(* "told" is the number last sent with "port", "out" the list last put     *)
(* out.  The reuse options only change how the socket is set up and are    *)
(* left out; a read that fails is only logged.                             *)
(***************************************************************************)
EXTENDS Datagrams

CONSTANT InitSize \* length of the float list of a new object

ASSUME InitSizeAssumption == InitSize \in Nat

VARIABLE ur

UdpReceive == "udpreceive"
Untold == "untold"

UdpReceiveTypeOK ==
  /\ DOMAIN ur = {"x_fd", "x_port", "x_receiver", "x_floatlist", "told", "out"}
  /\ ur.x_fd \in Fds \cup {None} /\ ur.x_receiver \in Fds \cup {None}
  /\ ur.x_port \in Ports \cup {NoPort}
  /\ ur.told \in Ports \cup {NoPort, Untold}
  /\ ur.x_floatlist.argc <= ur.x_floatlist.size
  /\ DOMAIN ur.x_floatlist.argv = 1 .. ur.x_floatlist.size

UdpReceiveNew ==
  [x_fd |-> None, x_port |-> NoPort, x_receiver |-> None,
   x_floatlist |-> FloatlistCreate(InitSize), told |-> Untold, out |-> <<>>]

(* Mutant: the port is not forgotten with its socket.                      *)
UdpReceiveKeepsPort(x) == [x EXCEPT !.x_receiver = None, !.x_fd = None]

(* udpreceive_setport up to the new socket: the old one is gone ...        *)
UdpReceiveCleanup(x) ==
  [x EXCEPT !.x_receiver = None, !.x_fd = None, !.x_port = NoPort]
UdpReceiveCleanupNet(n, x) ==
  CloseSocket(ReceiversDestroy(n, {x.x_receiver}), UdpReceive, x.x_fd)

(* ... and the new one bound to port p, or to any port for 0.              *)
UdpReceiveBound(x, fd, p) ==
  [x EXCEPT !.x_fd = fd, !.x_port = p, !.x_receiver = fd]
UdpReceiveBoundNet(n, fd, p) ==
  ReceiverCreate(Open(n, UdpReceive, fd, p), fd, UdpReceive, 0)

(* Mutant: the port of the socket is not asked for.                        *)
UdpReceiveSetPortUnasked(x, req, p) ==
  /\ req \in {p, AnyPort}
  /\ LET n == UdpReceiveCleanupNet(net, x)
     IN  \E fd \in Unused(n) :
           /\ net' = UdpReceiveBoundNet(n, fd, p)
           /\ ur' = UdpReceiveBound(UdpReceiveCleanup(x), fd, req)

(* udpreceive_setport: no socket or a failed bind leave nothing behind.    *)
UdpReceiveSetPortFails(x) ==
  net' = UdpReceiveCleanupNet(net, x) /\ ur' = UdpReceiveCleanup(x)
UdpReceiveSetPortOk(x, req, p) ==
  /\ req \in {p, AnyPort}
  /\ LET n == UdpReceiveCleanupNet(net, x)
     IN  \E fd \in Unused(n) :
           /\ net' = UdpReceiveBoundNet(n, fd, p)
           /\ ur' = UdpReceiveBound(UdpReceiveCleanup(x), fd, p)

(* udpreceive_new; nothing is said about the outcome.                      *)
UdpReceiveCreate(req) ==
  /\ Idle /\ UdpReceive \notin live
  /\ live' = live \cup {UdpReceive}
  /\ \/ UdpReceiveSetPortFails(UdpReceiveNew)
     \/ \E p \in Ports : UdpReceiveSetPortOk(UdpReceiveNew, req, p)
  /\ UNCHANGED <<stack, dgVars>>

(* udpreceive_port: the port it has already is kept, a new one is bound,   *)
(* and the port is reported;                                               *)
UdpReceivePort(req) ==
  /\ Receives(UdpReceive)
  /\ IF req = ur.x_port
     THEN ur' = [ur EXCEPT !.told = ur.x_port] /\ UNCHANGED net
     ELSE \E p \in Ports :
            UdpReceiveSetPortOk([ur EXCEPT !.told = p], req, p)
  /\ UNCHANGED <<live, stack, dgVars>>

(* if it cannot be bound, "port -1" comes first, and the report follows    *)
(* after that outlet.                                                      *)
UdpReceivePortFails(req) ==
  /\ Receives(UdpReceive)
  /\ req # ur.x_port
  /\ UdpReceiveSetPortFails([ur EXCEPT !.told = NoPort])
  /\ Suspend(<<"udpreceive_port">>, stack)
  /\ UNCHANGED <<live, dgVars>>

UdpReceivePortResume ==
  /\ Resumes(<<"udpreceive_port">>)
  /\ ur' = [ur EXCEPT !.told = ur.x_port]
  /\ stack' = Tail(stack)
  /\ UNCHANGED <<net, live, dgVars>>

(* udpreceive_read_callback: the address outlets come first, the data      *)
(* after them.                                                             *)
UdpReceiveRead(fd) ==
  /\ Polled(fd, UdpReceive, 0)
  /\ \E d \in wire :
       /\ Arrives(d, fd)
       /\ Suspend(<<"udpreceive_read", ChunkCreateData(Len(d.data), d.data)>>,
                  stack)
  /\ UNCHANGED <<net, live, sent, nosender, ur>>

UdpReceiveReadResume(c) ==
  /\ Resumes(<<"udpreceive_read", c>>)
  /\ LET cl == Chunk2List(c, ur.x_floatlist)
     IN  ur' = [ur EXCEPT !.x_floatlist = cl, !.out = Atoms(cl)]
  /\ stack' = Tail(stack)
  /\ UNCHANGED <<net, live, dgVars>>

(* udpreceive_free *)
UdpReceiveFree ==
  /\ Idle /\ UdpReceive \in live
  /\ net' = UdpReceiveCleanupNet(net, ur)
  /\ ur' = UdpReceiveNew
  /\ live' = live \ {UdpReceive}
  /\ UNCHANGED <<stack, dgVars>>

UdpReceiveNext ==
  \/ \E req \in Ports \cup {AnyPort} :
       \/ UdpReceiveCreate(req) \/ UdpReceivePort(req)
       \/ UdpReceivePortFails(req)
  \/ UdpReceivePortResume
  \/ \E fd \in Fds : UdpReceiveRead(fd)
  \/ \E c \in ChunksOf : UdpReceiveReadResume(c)
  \/ UdpReceiveFree
============================================================================
