\* Three addresses and two slots: a removal leaves a hole with a client behind
\* it, and the table is full. Two ticks: one client expires while another does
\* not. Two sockets: the object is bound again with another one, and one of
\* them has the number of a client.
CONSTANTS
  MaxSlots = 2
  InitMax = 2
  Capacities = {1, 2}
  Addrs = {a1, a2, a3}
  Fds = {3, 1000}
  Ports = {1}
  Ifs = {}
  Targets <- MCTargets
  Timeouts = {1}
  MaxTime = 2
  MaxClients = 3
  MaxPolled = 2
SPECIFICATION Spec
SYMMETRY AddrSymmetry
INVARIANTS
  TypeOK
  SlotsHoldLiveClients
  CheckedIsFresh
  BoundSocketOpen
PROPERTY NobodyExpiresEarly
\* a deleted object does nothing; a NULL pointer ends the program
CHECK_DEADLOCK FALSE
