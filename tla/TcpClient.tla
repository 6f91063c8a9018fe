----------------------------- MODULE TcpClient -----------------------------
(***************************************************************************)
(* [tcpclient] (tcpclient.c): one stream connection with a sender and a    *)
(* receiver.                                                               *)
(*                                                                         *)
(* x_port is non-zero only together with x_hostname, so x_hostname stands  *)
(* for both.  "told" is the number last sent to the connection outlet.     *)
(*                                                                         *)
(* The two outlets of iemnet__numconnout (status, connection) are one step *)
(* here: as long as the patch sends this object no message from inside its *)
(* own outlets, nothing that happens between the two changes or reads what *)
(* is reported.                                                            *)
(***************************************************************************)
EXTENDS Net

VARIABLE tc

TcpClient == "tcpclient"
Host == "host"

TcpClientTypeOK ==
  tc \in [x_fd : Fds \cup {None}, x_hostname : {NULL, Host},
          x_connectstate : {0, 1}, x_sender : SenderStates,
          x_receiver : Fds \cup {None}, x_timeout : Timeouts, told : {0, 1}]

(* tcpclient_new *)
TcpClientNew ==
  [x_fd |-> None, x_hostname |-> NULL, x_connectstate |-> 0,
   x_sender |-> NULL, x_receiver |-> None, x_timeout |-> -1, told |-> 0]

TcpClientCreate ==
  /\ Idle /\ TcpClient \notin live
  /\ live' = live \cup {TcpClient}
  /\ tc' = TcpClientNew
  /\ UNCHANGED <<net, stack>>

(* tcpclient_do_disconnect: the sender, the receiver, the socket.          *)
TcpClientDoDisconnect(n, t) ==
  CloseSocket(ReceiversDestroy(n, {t.x_receiver}), TcpClient, t.x_fd)

(* tcpclient_do_connect with what follows in tcpclient_connect: no host,   *)
(* no socket or no connection leaves x_sender and x_receiver alone; either *)
(* way tcpclient_info reports, and goes on after its outlets if connected. *)
TcpClientDoConnect(n, t, rest) ==
  \/ /\ net' = n
     /\ tc' = [t EXCEPT !.x_hostname = Host, !.x_connectstate = 0,
                        !.x_fd = None, !.told = 0]
     /\ stack' = rest
  \/ \E fd \in Unused(n), r \in Connect(t.x_timeout), s \in SenderCreate :
       /\ net' = ReceiverCreate(Open(n, TcpClient, fd, r), fd, TcpClient, 0)
       /\ tc' = [t EXCEPT !.x_hostname = Host, !.x_connectstate = 1,
                          !.x_fd = fd, !.x_sender = s, !.x_receiver = fd,
                          !.told = 1]
       /\ Suspend("tcpclient_info", rest)

(* tcpclient_connect: first the active connection goes, with an outlet if  *)
(* there was a descriptor to close.                                        *)
TcpClientConnect ==
  /\ Receives(TcpClient)
  /\ LET had == tc.x_hostname # NULL
         n == IF had THEN TcpClientDoDisconnect(net, tc) ELSE net
         t == IF had THEN [tc EXCEPT !.x_connectstate = 0, !.x_sender = NULL,
                                     !.x_receiver = None]
              ELSE tc
     IN  IF had /\ tc.x_fd # None
         THEN /\ net' = n
              /\ tc' = [t EXCEPT !.told = 0]
              /\ Suspend("tcpclient_connect", stack)
         ELSE TcpClientDoConnect(n, t, stack)
  /\ UNCHANGED live

TcpClientConnectResume ==
  /\ Resumes("tcpclient_connect")
  /\ TcpClientDoConnect(net, tc, Tail(stack))
  /\ UNCHANGED live

(* tcpclient_info, on "bang", up to the connection outlet (the address of  *)
(* the socket, put out before, counts with it) ...                         *)
TcpClientInfo ==
  /\ Receives(TcpClient)
  /\ tc' = [tc EXCEPT !.told = tc.x_connectstate]
  /\ stack' = IF tc.x_connectstate = 1 THEN <<"tcpclient_info">> \o stack
              ELSE stack
  /\ UNCHANGED <<net, live>>

(* ... and after it: the host name is made into a symbol.                  *)
TcpClientInfoResume ==
  /\ Resumes("tcpclient_info")
  /\ net' = [net EXCEPT !.crashed = (tc.x_hostname = NULL)]
  /\ stack' = Tail(stack)
  /\ UNCHANGED <<tc, live>>

(* Mutant: the host name stays, as if there was a connection.              *)
TcpClientKeepsHost ==
  [tc EXCEPT !.x_sender = NULL, !.x_receiver = None, !.told = 0]

(* tcpclient_disconnect: x_fd and x_connectstate stay as they are.         *)
TcpClientDisconnected ==
  [tc EXCEPT !.x_hostname = NULL, !.x_sender = NULL, !.x_receiver = None,
             !.told = 0]

TcpClientDoneNet ==
  IF tc.x_hostname = NULL THEN net ELSE TcpClientDoDisconnect(net, tc)

TcpClientDisconnect ==
  /\ Receives(TcpClient)
  /\ net' = TcpClientDoneNet
  /\ tc' = TcpClientDisconnected
  /\ UNCHANGED <<live, stack>>

(* tcpclient_send when the sender refuses the data: the outlet, and then   *)
(* the disconnection.  A sender that takes the data changes nothing here.  *)
TcpClientSendRefused ==
  /\ Receives(TcpClient)
  /\ tc.x_sender = "stopped"
  /\ Suspend("tcpclient_send", stack)
  /\ UNCHANGED <<net, tc, live>>

TcpClientSendResume ==
  /\ Resumes("tcpclient_send")
  /\ net' = TcpClientDoneNet
  /\ tc' = TcpClientDisconnected
  /\ stack' = Tail(stack)
  /\ UNCHANGED live

(* Mutant: the callback does nothing with a NULL chunk.                    *)
TcpClientReceiveIgnored(fd) ==
  ReceivesNull(fd, TcpClient, 0) /\ UNCHANGED <<net, tc, live, stack>>

(* tcpclient_receive_callback with a NULL chunk.                           *)
TcpClientReceiveNull(fd) ==
  /\ ReceivesNull(fd, TcpClient, 0)
  /\ net' = TcpClientDoneNet
  /\ tc' = TcpClientDisconnected
  /\ UNCHANGED <<live, stack>>

(* tcpclient_timeout *)
TcpClientTimeout(ms) ==
  /\ Receives(TcpClient)
  /\ tc' = [tc EXCEPT !.x_timeout = ms]
  /\ UNCHANGED <<net, live, stack>>

(* tcpclient_free *)
TcpClientFree ==
  /\ Idle /\ TcpClient \in live
  /\ net' = TcpClientDoneNet
  /\ tc' = TcpClientNew
  /\ live' = live \ {TcpClient}
  /\ UNCHANGED stack

(* The send thread leaves its loop after an error.                         *)
TcpClientSenderStops ==
  /\ tc.x_sender = "running"
  /\ tc' = [tc EXCEPT !.x_sender = "stopped"]
  /\ UNCHANGED <<net, live, stack>>

TcpClientResume ==
  TcpClientConnectResume \/ TcpClientInfoResume \/ TcpClientSendResume

TcpClientNext ==
  \/ TcpClientCreate \/ TcpClientFree
  \/ TcpClientConnect \/ TcpClientInfo \/ TcpClientDisconnect
  \/ TcpClientSendRefused \/ TcpClientResume
  \/ \E fd \in Fds : TcpClientReceiveNull(fd)
  \/ \E ms \in Timeouts : TcpClientTimeout(ms)
  \/ TcpClientSenderStops
============================================================================
