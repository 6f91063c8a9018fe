CONSTANTS
  MaxSlots = 3
  InitMax = 3
  Capacities = {1, 3}
  Addrs = {a1, a2, a3}
  Fds = {3, 4}
  Ports = {1}
  Ifs = {}
  Targets <- MCTargets
  Timeouts = {1}
  MaxTime = 2
  MaxClients = 3
  MaxPolled = 2
SPECIFICATION Spec
INVARIANT SendersUseOpenSockets
CHECK_DEADLOCK FALSE
