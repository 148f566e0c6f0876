SPECIFICATION Spec
CONSTANTS
  p1 = p1
  p2 = p2
  k1 = k1
  k2 = k2
  Ports = {p1, p2}
  Clients = {k1, k2}
  NoClient = NoClient
  NoPort = NoPort
  Close = Close
  MaxDatagrams = 2
  MaxAnswers = 2
  PathCap = 2
  ClientCap = 1
  MaxMishaps = 1
  Faults = {"lose", "duplicate", "reorder", "empty", "refuse", "cleanup"}
SYMMETRY AnyClient
INVARIANT TypeOK
INVARIANT FlowsApart
CHECK_DEADLOCK FALSE
