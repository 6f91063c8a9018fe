------------------------------ MODULE UdpPatch -----------------------------
(***************************************************************************)
(* A patch with a [udpclient], a [udpsend] and a [udpreceive] in one       *)
(* process, and the network between them: the first two send to the ports  *)
(* the third one binds.                                                    *)
(***************************************************************************)
EXTENDS UdpClient, UdpSend, UdpReceive

vars == <<netVars, dgVars, uc, us, ur>>

UdpObjects == {UdpClient, UdpSend, UdpReceive}

Init ==
  /\ NetInit /\ live = {} /\ DatagramsInit
  /\ uc = UdpClientNew /\ us = UdpSendNew /\ ur = UdpReceiveNew

Next ==
  \/ UdpClientNext /\ UNCHANGED <<us, ur>>
  \/ UdpSendNext /\ UNCHANGED <<uc, ur>>
  \/ UdpReceiveNext /\ UNCHANGED <<uc, us>>
  \/ Lose /\ UNCHANGED <<uc, us, ur>>

Spec == Init /\ [][Next]_vars

----------------------------------------------------------------------------
(* Type invariant of the three objects and of what they share.             *)
TypeOK ==
  /\ NetTypeOK(UdpObjects) /\ DatagramsTypeOK
  /\ UdpClientTypeOK /\ UdpSendTypeOK /\ UdpReceiveTypeOK

Opened(o) == {fd \in Fds : net.owner[fd] = o}
Holds(o) == CASE o = UdpClient -> uc.x_fd
              [] o = UdpSend -> us.x_fd
              [] o = UdpReceive -> ur.x_fd

(* The descriptor an object goes by, and will close, is its own and open,  *)
(* in whatever order the patch sends its messages, also from inside the    *)
(* outlets.  It has no other one, unless a send thread could not be        *)
(* started once: connect looks at x_sender to find out whether there is a  *)
(* connection, and opens a second socket beside the first.                 *)
SocketsHeldByOwner ==
  \A o \in UdpObjects :
    /\ Holds(o) \in Opened(o) \cup {None}
    /\ o \notin nosender => Opened(o) \subseteq {Holds(o)}

(* Pd calls back the object that has the descriptor, and nobody once it is *)
(* closed (as above where no send thread could be started).                *)
PollsReachHolders ==
  \A fd \in Fds :
    LET o == net.owner[fd]
    IN  o \notin nosender =>
          net.polls[fd] = IF o \in {UdpClient, UdpReceive} THEN <<<<o, 0>>>>
                          ELSE <<>>

(* The 1 that [udpclient] sends to the status outlet with "connections",   *)
(* and the connection state that a "bang" would report, mean a socket that *)
(* is open and polled, also when a "connect" came in while another one was *)
(* under way.  The number that goes to the connection outlet next is the   *)
(* one last said, unless a report was made from inside another one's       *)
(* status outlet: the outer one then ends with a number that is out of     *)
(* date.  The 1 of [udpsend] means an open socket.                         *)
ReportedIsOpen ==
  /\ 1 \in {uc.x_connectstate, uc.said} =>
       uc.x_fd \in Opened(UdpClient) /\ net.polls[uc.x_fd] # <<>>
  /\ \A num \in {0, 1} :
       Resumes(<<UdpClient, num>>) /\ ~uc.nested => num = uc.said
  /\ us.told = 1 => us.x_fd \in Opened(UdpSend)

(* The port that [udpreceive] reports is the one its socket is bound to,   *)
(* also after a bind that failed, or a message that came in on the way.    *)
PortIsBound ==
  /\ ur.x_port = IF ur.x_fd = None THEN NoPort ELSE net.remote[ur.x_fd]
  /\ Idle => ur.told \in {ur.x_port, Untold}

(* What [udpreceive] puts out is one of the messages that were sent, byte  *)
(* for byte and in full length, whatever its list held before.             *)
SameBytes(out, list) ==
  /\ Len(out) = Len(list)
  /\ \A i \in DOMAIN out : out[i] \in 0 .. 255 /\ (list[i] - out[i]) % 256 = 0
ReceivedWasSent ==
  ur.out # <<>> => \E list \in sent : SameBytes(ur.out, list)

(* udpsend_send takes a fill state below 1 for a broken connection: as     *)
(* long as the send thread runs, a message with data never breaks it,      *)
(* however fast the thread empties the queue.                              *)
DataKeepsConnection ==
  [][\A list \in Lists \ {<<>>} :
       UdpSendSend(list) /\ us.x_sender.state = "running"
         => us'.x_fd = us.x_fd /\ us'.x_sender.state = "running"]_vars
============================================================================
