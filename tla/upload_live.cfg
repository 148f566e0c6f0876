SPECIFICATION FairSpec
CONSTANTS
  c1 = c1
  c2 = c2
  p1 = p1
  p2 = p2
  k1 = k1
  k2 = k2
  NoClient = NoClient
  NoPort = NoPort
  Close = Close
  Conns = {c1}
  Ports = {p1}
  PortOf <- OwnPort
  Clients = {k1}
  MaxChunks = 2
  ToTunnelCap = 1
  ClientDataCap = 1
  ClientCap = 1
  AckCap = 1
  MaxInFlight = 1
  Faults = {}
INVARIANT AckedNotLost
PROPERTY ImplementsStream
PROPERTY ImplementsFairStream
CHECK_DEADLOCK FALSE
