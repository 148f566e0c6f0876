SPECIFICATION Spec
CONSTANTS
  c1 = c1
  c2 = c2
  Conns = {c1, c2}
  Unasked <- TwoAndNone
  MaxRequests = 0
  Patient = TRUE
  MaxChunks = 2
  SocketCap = 1
  ToTunnelCap = 1
  ClientDataCap = 1
  ClientCap = 1
  ServerDataCap = 1
  BroadcastCap = 1
  AckCap = 1
  MaxInFlight = 1
  Faults = {"lag", "ackLag", "send", "close"}
INVARIANT TypeOK
INVARIANT StreamPrefix
PROPERTY ImplementsStream
CHECK_DEADLOCK FALSE
