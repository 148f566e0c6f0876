---------------------------- MODULE MCTcpUpload ----------------------------
EXTENDS TcpUpload, TLC
CONSTANTS c1, c2, p1, p2, k1, k2

\* One connection; two from ports of their own; two, one after the other, from one.
OwnPort == c1 :> p1
OwnPorts == c1 :> p1 @@ c2 :> p2
SamePort == c1 :> p1 @@ c2 :> p1

\* No action tells one unused InboundClient from another.
AnyClient == Permutations(Clients)
=============================================================================
