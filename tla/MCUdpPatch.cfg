\* Three objects and two descriptors, so that one is handed from object to
\* object; a list that fits into the float list of a new object and one that
\* does not.
CONSTANTS
  Fds = {f1, f2}
  Ports = {p1, p2}
  Reentrant = {"udpclient", "udpreceive"}
  MaxNest = 2
  Lists <- MCLists
  MaxQueue = 1
  MaxWire = 1
  InitSize = 1
SPECIFICATION Spec
INVARIANTS
  TypeOK
  SocketsHeldByOwner
  PollsReachHolders
  ReportedIsOpen
  PortIsBound
  ReceivedWasSent
PROPERTY DataKeepsConnection
SYMMETRY MCSymmetry
CHECK_DEADLOCK FALSE
