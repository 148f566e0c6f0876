--------------------------- MODULE MCTunnelSetup ---------------------------
EXTENDS TunnelSetup
CONSTANTS a, b

Web == [protocol |-> "tcp", host |-> 8080, remote |-> 8081]
Dns == [protocol |-> "udp", host |-> 53, remote |-> 5353]
Ssh == [protocol |-> "tcp", host |-> 22, remote |-> 2222]

\* The README's example: one peer serves what the other one opens.
ServerInbound == [p \in Peers |-> IF p = a THEN <<Web>> ELSE <<>>]
ServerOutbound == [p \in Peers |-> IF p = b THEN {Mirror(Web)} ELSE {}]

\* b opens a port that a does not serve.
TooManyOutbound == [p \in Peers |-> IF p = b THEN {Mirror(Web), Mirror(Ssh)} ELSE {}]

\* Both serve and both open.
BothInbound == [p \in Peers |-> IF p = a THEN <<Web, Dns>> ELSE <<Ssh>>]
BothOutbound ==
  [p \in Peers |-> IF p = a THEN {Mirror(Ssh)} ELSE {Mirror(Web), Mirror(Dns)}]
=============================================================================
