---------------------------- MODULE MCTcpDownload ----------------------------
EXTENDS TcpDownload
CONSTANTS c1, c2

\* Two chunks of one connection; the other one, on the same broadcast, has none.
TwoAndNone == [c \in Conns |-> IF c = c1 THEN 2 ELSE 0]
ThreeChunks == [c \in Conns |-> 3]
NoChunk == [c \in Conns |-> 0]
=============================================================================
