SPECIFICATION FairSpec
CONSTANTS
  a = a
  b = b
  c = c
  home = home
  away = away
  None = None
  Nodes = {a, b}
  Addresses = {home, away}
  AddressOf <- TwoAddresses
  Enters <- BothEnter
  TTL = 3
  MaxTime = 3
  Prompt = TRUE
  HttpFails = TRUE
PROPERTY NobodyWaitsAlone
CHECK_DEADLOCK FALSE
INVARIANT TypeOK
INVARIANT SourceIsSelf
