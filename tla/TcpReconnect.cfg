\* A patch that answers the connection outlet of the client with a "connect".
CONSTANTS
  Fds = {3, 4, 5}
  Ports = {p1}
  Reentrant = {"tcpclient", "tcpsend"}
  MaxNest = 2
  MaxConnections = 1
SPECIFICATION Spec
INVARIANT TcpClientHoldsOne
CHECK_DEADLOCK FALSE
