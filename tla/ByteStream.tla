----------------------------- MODULE ByteStream -----------------------------
(***************************************************************************)
(* What a forwarded TCP connection promises in one direction: the chunks   *)
(* the writing end puts in come out at the other end, each once, in order, *)
(* and in the end all of them.                                             *)
(***************************************************************************)
EXTENDS Naturals

CONSTANTS
  Conns,     \* the connections
  MaxChunks  \* chunks one connection carries (bounds the counters)

VARIABLES
  sent,      \* sent[c]: chunks taken from the writing end of c
  delivered  \* delivered[c]: chunks written to the reading end of c

vars == <<sent, delivered>>

Init ==
  /\ sent = [c \in Conns |-> 0]
  /\ delivered = [c \in Conns |-> 0]

Send(c) ==
  /\ sent[c] < MaxChunks
  /\ sent' = [sent EXCEPT ![c] = @ + 1]
  /\ UNCHANGED delivered

Deliver(c) ==
  /\ delivered[c] < sent[c]
  /\ delivered' = [delivered EXCEPT ![c] = @ + 1]
  /\ UNCHANGED sent

Next == \E c \in Conns : Send(c) \/ Deliver(c)

Spec == Init /\ [][Next]_vars

FairSpec == Spec /\ \A c \in Conns : WF_vars(Deliver(c))

=============================================================================
