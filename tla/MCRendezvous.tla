---------------------------- MODULE MCRendezvous ----------------------------
EXTENDS Rendezvous
CONSTANTS a, b, c, home, away

\* b enters a's id, as in the README; a may enter b's as well; c enters a's.
BothEnter == [n \in Nodes |-> IF n = a THEN b ELSE a]
OneEnters == [n \in Nodes |-> IF n = a THEN None ELSE a]

\* a and b are behind the same address.
OneAddress == [n \in Nodes |-> home]
TwoAddresses == [n \in Nodes |-> IF n = a THEN home ELSE away]
=============================================================================
