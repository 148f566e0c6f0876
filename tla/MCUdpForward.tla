---------------------------- MODULE MCUdpForward ----------------------------
EXTENDS UdpForward, TLC
CONSTANTS p1, p2, k1, k2

\* No action tells one unused InboundClient from another.
AnyClient == Permutations(Clients)
=============================================================================
