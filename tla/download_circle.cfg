SPECIFICATION Spec
CONSTANTS
  c1 = c1
  c2 = c2
  Conns = {c1}
  Unasked <- ThreeChunks
  MaxRequests = 4
  Patient = FALSE
  MaxChunks = 7
  SocketCap = 1
  ToTunnelCap = 1
  ClientDataCap = 1
  ClientCap = 1
  ServerDataCap = 1
  BroadcastCap = 1
  AckCap = 1
  MaxInFlight = 1
  Faults = {}
INVARIANT NoCircularWait
CHECK_DEADLOCK FALSE
