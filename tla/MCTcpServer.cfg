\* Three clients in a table of five: the shift moves two of them and stays in
\* bounds. Four descriptors: a closed one is handed out again.
CONSTANTS
  MaxSlots = 5
  InitMax = 5
  Capacities = {2, 5}
  Fds = {3, 4, 5, 6}
  Ports = {1}
  MaxClients = 3
  TargetSocks = {4}
SPECIFICATION Spec
INVARIANTS
  TypeOK
  TableInOrder
  SocketsAccounted
  CopyHoldsNoFreedClient
  TargetStaysWithClient
PROPERTY BroadcastServesAll
\* a deleted object does nothing; an access outside the table ends the model
CHECK_DEADLOCK FALSE
