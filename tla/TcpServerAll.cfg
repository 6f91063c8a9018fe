CONSTANTS
  MaxSlots = 5
  InitMax = 5
  Capacities = {5}
  Fds = {3, 4, 5}
  Ports = {1}
  MaxClients = 3
  TargetSocks = {4}
SPECIFICATION Spec
PROPERTY DisconnectAllDisconnects
CHECK_DEADLOCK FALSE
