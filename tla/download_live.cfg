SPECIFICATION FairSpec
CONSTANTS
  c1 = c1
  c2 = c2
  Conns = {c1}
  Unasked <- NoChunk
  MaxRequests = 2
  Patient = TRUE
  MaxChunks = 2
  SocketCap = 1
  ToTunnelCap = 1
  ClientDataCap = 1
  ClientCap = 1
  ServerDataCap = 1
  BroadcastCap = 1
  AckCap = 1
  MaxInFlight = 1
  Faults = {}
INVARIANT AckedNotLost
PROPERTY ImplementsFairStream
CHECK_DEADLOCK FALSE
