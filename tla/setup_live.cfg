SPECIFICATION FairSpec
CONSTANTS
  a = a
  b = b
  Peers = {a, b}
  Inbound <- ServerInbound
  Outbound <- ServerOutbound
  IdleLimit = 2
  MaxWire = 3
  Mishaps = {"lose", "duplicate", "reorder"}
  MaxMishaps = 1
  Late = FALSE
  SendFails = FALSE
INVARIANT HandshakeAgreement
PROPERTY BothReachTunnel
CHECK_DEADLOCK FALSE
