CONSTANTS
  MaxSlots = 3
  InitMax = 3
  Capacities = {1, 3}
  Addrs = {a1, a2, a3}
  Fds = {3}
  Ports = {1}
  Ifs = {}
  Targets <- MCTargets
  Timeouts = {1}
  MaxTime = 2
  MaxClients = 3
  MaxPolled = 1
SPECIFICATION Spec
INVARIANT GapClosed
CHECK_DEADLOCK FALSE
