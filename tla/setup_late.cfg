SPECIFICATION Spec
CONSTANTS
  a = a
  b = b
  Peers = {a, b}
  Inbound <- ServerInbound
  Outbound <- TooManyOutbound
  IdleLimit = 1
  MaxWire = 2
  Mishaps = {"lose", "duplicate", "reorder"}
  MaxMishaps = 0
  Late = TRUE
  SendFails = TRUE
INVARIANT TypeOK
INVARIANT HandshakeAgreement
INVARIANT MatchesAreReal
CHECK_DEADLOCK FALSE
