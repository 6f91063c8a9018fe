------------------------------ MODULE TcpSend ------------------------------
(***************************************************************************)
(* [tcpsend] (tcpsend.c): a stream connection with a sender only.  Outlets *)
(* are the last thing its functions call.  What does not change the object *)
(* is left out: tcpsend_send, which ignores whether the sender took the    *)
(* data, and a "connect" that fails or finds a connection.                 *)
(***************************************************************************)
EXTENDS Net

VARIABLE ts

TcpSend == "tcpsend"

TcpSendTypeOK ==
  ts \in [x_fd : Fds \cup {None}, x_sender : SenderStates,
          x_timeout : Timeouts, told : {0, 1}]

(* tcpsend_new *)
TcpSendNew ==
  [x_fd |-> None, x_sender |-> NULL, x_timeout |-> -1, told |-> 0]

TcpSendCreate ==
  /\ Idle /\ TcpSend \notin live
  /\ live' = live \cup {TcpSend}
  /\ ts' = TcpSendNew
  /\ UNCHANGED <<net, stack>>

(* Mutant: tests the sender where the descriptor should be tested.         *)
TcpSendConnectIfNoSender ==
  /\ Receives(TcpSend)
  /\ ts.x_sender = NULL
  /\ \E fd \in Unused(net), r \in Connect(ts.x_timeout), s \in SenderCreate :
       /\ net' = Open(net, TcpSend, fd, r)
       /\ ts' = [ts EXCEPT !.x_fd = fd, !.x_sender = s, !.told = 1]
  /\ UNCHANGED <<live, stack>>

(* tcpsend_connect *)
TcpSendConnect ==
  /\ Receives(TcpSend)
  /\ ts.x_fd = None
  /\ \E fd \in Unused(net), r \in Connect(ts.x_timeout), s \in SenderCreate :
       /\ net' = Open(net, TcpSend, fd, r)
       /\ ts' = [ts EXCEPT !.x_fd = fd, !.x_sender = s, !.told = 1]
  /\ UNCHANGED <<live, stack>>

(* Mutant: the socket is closed under the sender.                          *)
TcpSendDisconnectKeepsSender ==
  /\ Receives(TcpSend)
  /\ net' = CloseSocket(net, TcpSend, ts.x_fd)
  /\ ts' = [ts EXCEPT !.x_fd = None, !.told = IF ts.x_fd = None THEN @ ELSE 0]
  /\ UNCHANGED <<live, stack>>

(* tcpsend_disconnect *)
TcpSendDisconnect ==
  /\ Receives(TcpSend)
  /\ net' = CloseSocket(net, TcpSend, ts.x_fd)
  /\ ts' = [ts EXCEPT !.x_fd = None, !.x_sender = NULL,
                      !.told = IF ts.x_fd = None THEN @ ELSE 0]
  /\ UNCHANGED <<live, stack>>

(* tcpsend_timeout *)
TcpSendTimeout(ms) ==
  /\ Receives(TcpSend)
  /\ ts' = [ts EXCEPT !.x_timeout = ms]
  /\ UNCHANGED <<net, live, stack>>

(* tcpsend_free *)
TcpSendFree ==
  /\ Idle /\ TcpSend \in live
  /\ net' = CloseSocket(net, TcpSend, ts.x_fd)
  /\ ts' = TcpSendNew
  /\ live' = live \ {TcpSend}
  /\ UNCHANGED stack

TcpSendNext ==
  \/ TcpSendCreate \/ TcpSendFree
  \/ TcpSendConnect \/ TcpSendDisconnect
  \/ \E ms \in Timeouts : TcpSendTimeout(ms)
============================================================================
