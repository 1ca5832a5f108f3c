CONSTANTS
  NPROCS = 5
  NEssential = 3
  Data = {0, 1}
  Receivers = {0, 2}
  Servers = {0, 2}
  Clients = {3, 4}
  MaxPackets = 4
  Answer <- MCAnswer
SPECIFICATION WSpec
INVARIANT WindowsHit
PROPERTIES RpcSpec CallReturns
