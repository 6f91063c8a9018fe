\* Three descriptors for a client, a sender and a server with two slots: a
\* closed one is handed out again to another object. Messages for the sender
\* and the receiver also arrive from inside the outlets of the client.
CONSTANTS
  Fds = {3, 4, 5}
  Ports = {p1, p2}
  Reentrant = {"tcpsend", "tcpreceive"}
  MaxNest = 2
  MaxConnections = 2
SPECIFICATION FairSpec
INVARIANTS
  TypeOK
  ClosesOnlyItsOwn
  SocketsHeldByOwner
  SendersUseOwnSocket
  PollsReachHolders
  ReportedIsHeld
PROPERTIES
  TcpClientNotices
  TcpReceiveNotices
\* a crash ends the model
CHECK_DEADLOCK FALSE
