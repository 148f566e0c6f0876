------------------------- MODULE TcpUploadAckProofs -------------------------
(***************************************************************************)
(* AckedNotLost, for every number of connections, clients and chunks and   *)
(* every capacity: what a sender has been told has arrived is not lost.    *)
(*                                                                         *)
(* An acknowledgement is given while the datagram is still four queues away*)
(* from the server, and three of the steps on that way throw datagrams     *)
(* away: the dispatcher's, of ports it does not know; the hand-over to a   *)
(* client that has ended; the writer's, of numbers it does not expect. The *)
(* first and the last never hit a chunk that is needed, because a chunk    *)
(* enters peer B only when the one before it is in peer B ahead of it:     *)
(* whatever the network does, the way through peer B keeps that order.     *)
(***************************************************************************)
EXTENDS TcpUploadProofs

\* The chunk before the one of a datagram.
Before(d) == <<d.chunk[1], d.sequence - 1>>

\* The chunks a queue carries.
Carried(q) == {q[i].chunk : i \in {j \in 1..Len(q) : q[j] # Close}}

\* Each datagram of q that is not the first of its connection has the one before
\* it in front of it in q, or else its chunk is in S.
Ordered(q, S) ==
  \A i \in 1..Len(q) : q[i] # Close /\ q[i].sequence > 0 =>
    \/ Before(q[i]) \in S
    \/ \E j \in 1..(i - 1) : q[j] # Close /\ q[j].chunk = Before(q[i])

(***************************************************************************)
(* Where a chunk is safe, from the server backwards. A connection whose    *)
(* server has gone has nothing more to lose.                               *)
(***************************************************************************)
Gone == {ch \in Chunks : ServerGone(PortOf[ch[1]])}
Written == UNION {Range(written[k]) : k \in Clients}
AtClient == Gone \cup Written
Queued == AtClient \cup UNION {Carried(clQueue[k]) : k \in Clients}
Dispatched == Queued \cup Carried(dispHold)
Forwarded == Dispatched \cup Carried(clientData)
Safe == Forwarded \cup Carried(rxHold)

InOrder ==
  /\ \A k \in Clients : Ordered(clQueue[k], AtClient)
  /\ Ordered(dispHold, Queued)
  /\ Ordered(clientData, Dispatched)
  /\ Ordered(rxHold, Forwarded)

\* What the dispatcher holds has an entry in the map.
HasTarget == dispHold # <<>> => inboundClients[Head(dispHold).port] # NoClient

\* Peer B has acknowledged chunk n of c, whether or not its reader knows yet.
Acked(c, n) ==
  \/ n < sequence[c]
  \/ n = sequence[c] /\ ackState[c] = "finished"
  \/ IdOf(PortOf[c], n) \in ackNet
  \/ \E e \in Conns : Contains(ackQueue[e], IdOf(PortOf[c], n))

NeverLagged == \A c \in Conns : ackState[c] # "lagged"

AckedSafe == \A c \in Conns : \A n \in Sequences : Acked(c, n) => <<c, n>> \in Safe

AckInv == StreamInv /\ InOrder /\ HasTarget /\ NeverLagged /\ AckedSafe

-----------------------------------------------------------------------------
(***************************************************************************)
(* Queues in order.                                                        *)
(***************************************************************************)
LEMMA CarriedNone == Carried(<<>>) = {}
<1>1. Len(<<>>) = 0 /\ 1..0 = {}
  BY EmptyChannel
<1> QED
  BY <1>1 DEF Carried

LEMMA CarriedOne ==
  ASSUME NEW x, x # Close
  PROVE  Carried(<<x>>) = {x.chunk}
BY DEF Carried

LEMMA CarriedAppend ==
  ASSUME NEW S, NEW q \in Seq(S), NEW x \in S, x # Close
  PROVE  Carried(Append(q, x)) = Carried(q) \cup {x.chunk}
<1>1. /\ Len(Append(q, x)) = Len(q) + 1 /\ Len(q) \in Nat
      /\ \A i \in 1..Len(q) : Append(q, x)[i] = q[i]
      /\ Append(q, x)[Len(q) + 1] = x
  OBVIOUS
<1>2. 1..(Len(q) + 1) = (1..Len(q)) \cup {Len(q) + 1}
  BY <1>1
<1> QED
  BY <1>1, <1>2 DEF Carried

\* A queue loses the chunk of its head, if the head has one, and no other.
LEMMA CarriedTail ==
  ASSUME NEW S, NEW q \in Seq(S), q # <<>>
  PROVE  Carried(q) \subseteq Carried(Tail(q)) \cup Carried(<<Head(q)>>)
<1> SUFFICES ASSUME NEW i \in 1..Len(q), q[i] # Close
             PROVE  q[i].chunk \in Carried(Tail(q)) \cup Carried(<<Head(q)>>)
  BY DEF Carried
<1>1. CASE i = 1
  <2>1. Head(q) = q[1]
    OBVIOUS
  <2> QED
    BY <1>1, <2>1, CarriedOne
<1>2. CASE i # 1
  <2>1. i - 1 \in 1..Len(Tail(q)) /\ Tail(q)[i - 1] = q[i]
    BY <1>2
  <2> QED
    BY <2>1 DEF Carried
<1> QED
  BY <1>1, <1>2

LEMMA OrderedNone ==
  ASSUME NEW S
  PROVE  Ordered(<<>>, S)
<1>1. Len(<<>>) = 0 /\ 1..0 = {}
  BY EmptyChannel
<1> QED
  BY <1>1 DEF Ordered

LEMMA OrderedOne ==
  ASSUME NEW S, NEW x, x.sequence > 0 => Before(x) \in S
  PROVE  Ordered(<<x>>, S)
BY DEF Ordered

LEMMA OrderedMore ==
  ASSUME NEW S, NEW T, NEW q, Ordered(q, S), S \subseteq T
  PROVE  Ordered(q, T)
BY DEF Ordered

LEMMA OrderedAppend ==
  ASSUME NEW D, NEW S, NEW q \in Seq(D), NEW x \in D, Ordered(q, S),
         x.sequence > 0 => Before(x) \in S \cup Carried(q)
  PROVE  Ordered(Append(q, x), S)
<1>1. /\ Len(Append(q, x)) = Len(q) + 1 /\ Len(q) \in Nat
      /\ \A i \in 1..Len(q) : Append(q, x)[i] = q[i]
      /\ Append(q, x)[Len(q) + 1] = x
  OBVIOUS
<1> SUFFICES ASSUME NEW i \in 1..(Len(q) + 1), Append(q, x)[i] # Close, Append(q, x)[i].sequence > 0
             PROVE  \/ Before(Append(q, x)[i]) \in S
                    \/ \E j \in 1..(i - 1) : /\ Append(q, x)[j] # Close
                                             /\ Append(q, x)[j].chunk = Before(Append(q, x)[i])
  BY <1>1 DEF Ordered
<1>2. CASE i \in 1..Len(q)
  <2>1. 1..(i - 1) \subseteq 1..Len(q)
    BY <1>2
  <2> QED
    BY <1>1, <1>2, <2>1 DEF Ordered
<1>3. CASE i = Len(q) + 1
  <2>1. i - 1 = Len(q) /\ Append(q, x)[i] = x
    BY <1>1, <1>3
  <2>2. CASE Before(x) \in S
    BY <2>1, <2>2
  <2>3. CASE Before(x) \in Carried(q)
    <3>1. PICK j \in 1..Len(q) : q[j] # Close /\ q[j].chunk = Before(x)
      BY <2>3 DEF Carried
    <3> QED
      BY <1>1, <2>1, <3>1
  <2> QED
    BY <2>1, <2>2, <2>3
<1> QED
  BY <1>2, <1>3

LEMMA OrderedHead ==
  ASSUME NEW D, NEW S, NEW q \in Seq(D), q # <<>>, Ordered(q, S),
         Head(q) # Close, Head(q).sequence > 0
  PROVE  Before(Head(q)) \in S
<1>1. 1 \in 1..Len(q) /\ q[1] = Head(q) /\ 1..(1 - 1) = {}
  OBVIOUS
<1> QED
  BY <1>1 DEF Ordered

\* When the head has left, what was behind it relies on where it has gone.
LEMMA OrderedTail ==
  ASSUME NEW D, NEW S, NEW q \in Seq(D), q # <<>>, Ordered(q, S)
  PROVE  Ordered(Tail(q), S \cup Carried(<<Head(q)>>))
<1> SUFFICES ASSUME NEW i \in 1..Len(Tail(q)), Tail(q)[i] # Close, Tail(q)[i].sequence > 0,
                    Before(Tail(q)[i]) \notin S
             PROVE  \/ Before(Tail(q)[i]) \in Carried(<<Head(q)>>)
                    \/ \E j \in 1..(i - 1) : Tail(q)[j] # Close /\ Tail(q)[j].chunk = Before(Tail(q)[i])
  BY DEF Ordered
<1>1. i + 1 \in 1..Len(q) /\ Tail(q)[i] = q[i + 1]
  OBVIOUS
<1>2. PICK j \in 1..(i + 1 - 1) : q[j] # Close /\ q[j].chunk = Before(Tail(q)[i])
  BY <1>1 DEF Ordered
<1>3. CASE j = 1
  <2>1. q[1] = Head(q)
    OBVIOUS
  <2> QED
    BY <1>2, <1>3, <2>1, CarriedOne
<1>4. CASE j # 1
  <2>1. j - 1 \in 1..(i - 1) /\ j - 1 \in 1..Len(Tail(q)) /\ Tail(q)[j - 1] = q[j]
    BY <1>4
  <2> QED
    BY <1>2, <2>1
<1> QED
  BY <1>3, <1>4

-----------------------------------------------------------------------------
(***************************************************************************)
(* What the steps do to the way through peer B. Every lemma concludes that *)
(* it stays in order, and that what is safe stays safe.                    *)
(***************************************************************************)
LEMMA QueueTypes ==
  ASSUME AckInv
  PROVE  /\ rxHold \in Seq(Datagrams) /\ Len(rxHold) <= 1
         /\ clientData \in Seq(Datagrams)
         /\ dispHold \in Seq(Datagrams) /\ Len(dispHold) <= 1
         /\ clQueue \in [Clients -> Seq(Datagrams \cup {Close})]
         /\ clState \in [Clients -> ClientStates]
         /\ clPort \in [Clients -> Ports \cup {NoPort}]
         /\ inboundClients \in [Ports -> Clients \cup {NoClient}]
         /\ written \in [Clients -> Seq(Chunks)]
BY DEF AckInv, StreamInv, PrefixInv, TypeInv, TypeOK

\* A channel with room for one, when it holds something, holds its head.
LEMMA HoldsOne ==
  ASSUME NEW S, NEW q \in Seq(S), Len(q) <= 1, q # <<>>
  PROVE  q = <<Head(q)>>
OBVIOUS

LEMMA ElsewhereKeepsOrder ==
  ASSUME AckInv, UNCHANGED <<rxHold, clientData, dispHold, inboundClients, clientVars>>
  PROVE  InOrder' /\ HasTarget' /\ Safe \subseteq Safe'
<1> USE DEF clientVars
<1>1. AtClient' = AtClient
  BY DEF AtClient, Gone, Written, ServerGone
<1>2. Queued' = Queued
  BY <1>1 DEF Queued
<1>3. Dispatched' = Dispatched /\ Forwarded' = Forwarded /\ Safe' = Safe
  BY <1>2 DEF Dispatched, Forwarded, Safe
<1>4. InOrder'
  BY <1>1, <1>2, <1>3 DEF AckInv, InOrder
<1> QED
  BY <1>3, <1>4 DEF AckInv, HasTarget

\* Before a reader sends a chunk it knows that the one before has arrived.
LEMMA PredecessorSafe ==
  ASSUME AckInv, NEW d \in Datagrams, OnItsWay(d), d.sequence > 0
  PROVE  Before(d) \in Safe
<1> DEFINE c == d.chunk[1]
<1>1. c \in Conns /\ d.sequence \in Sequences /\ sequence[c] \in Nat
  BY DatagramParts DEF AckInv, StreamInv, PrefixInv, TypeInv, TypeOK
<1>2. d.sequence < Sent(c)
  BY DEF AckInv, StreamInv, NothingEarly
<1>3. d.sequence - 1 \in Sequences /\ d.sequence - 1 < sequence[c]
  BY <1>1, <1>2, ConstantsAssumption DEF Sent, Sequences
<1> QED
  BY <1>1, <1>3 DEF AckInv, AckedSafe, Acked, Before

LEMMA RecvKeepsOrder ==
  ASSUME AckInv, NEW d \in Datagrams, TunnelRecv(d)
  PROVE  InOrder' /\ HasTarget' /\ Safe \subseteq Safe' /\ d.chunk \in Safe'
<1>1. /\ rxHold = <<>> /\ rxHold' = <<d>> /\ OnItsWay(d) /\ d # Close
      /\ UNCHANGED <<clientData, dispHold, inboundClients, clientVars>>
  BY DatagramParts DEF TunnelRecv, OnItsWay, mapVars
<1>2. AtClient' = AtClient
  BY <1>1 DEF AtClient, Gone, Written, ServerGone, clientVars
<1>3. Queued' = Queued /\ Dispatched' = Dispatched /\ Forwarded' = Forwarded
  BY <1>1, <1>2 DEF Queued, Dispatched, Forwarded, clientVars
<1>4. Safe = Forwarded /\ Safe' = Forwarded \cup {d.chunk}
  BY <1>1, <1>3, CarriedNone, CarriedOne DEF Safe
<1>5. d.sequence > 0 => Before(d) \in Forwarded
  BY <1>1, <1>4, PredecessorSafe
<1>6. Ordered(rxHold', Forwarded)
  BY <1>1, <1>5, OrderedOne
<1>7. InOrder'
  BY <1>1, <1>2, <1>3, <1>6 DEF AckInv, InOrder, clientVars
<1> QED
  BY <1>1, <1>4, <1>7 DEF AckInv, HasTarget

LEMMA PushKeepsOrder ==
  ASSUME AckInv, PushClientData
  PROVE  InOrder' /\ HasTarget' /\ Safe \subseteq Safe'
<1> DEFINE d == Head(rxHold)
<1>1. /\ rxHold = <<d>> /\ rxHold' = <<>> /\ clientData' = Append(clientData, d)
      /\ d \in Datagrams /\ d # Close /\ clientData \in Seq(Datagrams)
      /\ UNCHANGED <<dispHold, inboundClients, clientVars>>
  BY QueueTypes, HoldsOne, PopKeepsType, DatagramParts DEF PushClientData, mapVars
<1>2. AtClient' = AtClient
  BY <1>1 DEF AtClient, Gone, Written, ServerGone, clientVars
<1>3. Queued' = Queued /\ Dispatched' = Dispatched
  BY <1>1, <1>2 DEF Queued, Dispatched, clientVars
<1>4. Carried(rxHold) = {d.chunk} /\ Carried(clientData') = Carried(clientData) \cup {d.chunk}
  BY <1>1, CarriedOne, CarriedAppend
<1>5. Safe \subseteq Safe'
  BY <1>3, <1>4 DEF Safe, Forwarded
<1>6. Ordered(clientData', Dispatched)
  <2>1. Ordered(rxHold, Forwarded) /\ Ordered(clientData, Dispatched)
    BY DEF AckInv, InOrder
  <2>2. d.sequence > 0 => Before(d) \in Dispatched \cup Carried(clientData)
    BY <1>1, <2>1, QueueTypes, OrderedHead DEF Forwarded, PushClientData
  <2> QED
    BY <1>1, <2>1, <2>2, OrderedAppend
<1>7. Ordered(rxHold', Forwarded')
  BY <1>1, OrderedNone
<1>8. InOrder'
  BY <1>1, <1>2, <1>3, <1>6, <1>7 DEF AckInv, InOrder, clientVars
<1> QED
  BY <1>1, <1>5, <1>8 DEF AckInv, HasTarget

\* A port that is served, or was, has its entry in the map.
LEMMA KnownPort ==
  ASSUME AckInv, NEW k \in Clients, clState[k] # "unused"
  PROVE  inboundClients[clPort[k]] = k /\ k # NoClient
BY ConstantsAssumption DEF AckInv, StreamInv, MapComplete

\* Whose chunks a client can have.
LEMMA AtOneClient ==
  ASSUME AckInv, NEW ch \in Queued
  PROVE  \E k \in Clients :
           /\ clState[k] # "unused" /\ PortOf[ch[1]] = clPort[k]
           /\ ch \in AtClient \/ ch \in Carried(clQueue[k])
<1>1. CASE ch \in Gone
  BY <1>1 DEF Gone, ServerGone, AtClient
<1>2. CASE ch \in Written
  <2>1. PICK k \in Clients : ch \in Range(written[k])
    BY <1>2 DEF Written
  <2>2. PICK i \in 1..Len(written[k]) : written[k][i] = ch
    BY <2>1, QueueTypes DEF Range
  <2>3. PortOf[ch[1]] = clPort[k]
    BY <2>2 DEF AckInv, StreamInv, PrefixInv, WrittenOwn
  <2>4. written[k] # <<>>
    BY <2>2, EmptyChannel
  <2> QED
    BY <1>2, <2>3, <2>4 DEF AckInv, StreamInv, PrefixInv, Spawned, AtClient
<1>3. CASE \E k \in Clients : ch \in Carried(clQueue[k])
  <2>1. PICK k \in Clients : ch \in Carried(clQueue[k])
    BY <1>3
  <2>2. PICK i \in 1..Len(clQueue[k]) : clQueue[k][i] # Close /\ clQueue[k][i].chunk = ch
    BY <2>1 DEF Carried
  <2>3. clQueue[k][i] \in Datagrams /\ clQueue[k][i].port = clPort[k]
    <3>1. clQueue[k] \in Seq(Datagrams \cup {Close})
      BY QueueTypes
    <3> QED
      BY <2>2, <3>1 DEF AckInv, StreamInv, PrefixInv, QueuesOwn
  <2>4. PortOf[ch[1]] = clPort[k]
    BY <2>2, <2>3, DatagramParts
  <2>5. clQueue[k] # <<>>
    BY <2>2, EmptyChannel
  <2> QED
    BY <2>1, <2>4, <2>5 DEF AckInv, StreamInv, PrefixInv, Spawned
<1> QED
  BY <1>1, <1>2, <1>3 DEF Queued, AtClient

\* The connection of the chunk before is the same.
LEMMA BeforePort ==
  ASSUME NEW d \in Datagrams
  PROVE  PortOf[Before(d)[1]] = d.port
BY DatagramParts DEF Before

\* The dispatcher knows the port of everything it is given.
LEMMA NeverSkips ==
  ASSUME AckInv
  PROVE  ~SkipUnknown
<1> SUFFICES ASSUME SkipUnknown PROVE FALSE
  OBVIOUS
<1> DEFINE d == Head(clientData)
<1>1. /\ d \in Datagrams /\ d # Close /\ d.sequence > 0
      /\ clientData # <<>> /\ clientData \in Seq(Datagrams)
      /\ inboundClients[d.port] = NoClient
  BY QueueTypes, PopKeepsType, DatagramParts DEF SkipUnknown, Sequences
<1>2. Before(d) \in Dispatched
  BY <1>1, OrderedHead DEF AckInv, InOrder
<1>3. Before(d) \in Queued
  BY <1>2, CarriedNone DEF Dispatched, SkipUnknown
<1>4. PICK k \in Clients : clState[k] # "unused" /\ clPort[k] = d.port
  BY <1>1, <1>3, AtOneClient, BeforePort
<1> QED
  BY <1>1, <1>4, KnownPort

\* The dispatcher takes the next datagram, with or without a new client for it.
LEMMA TakeKeepsOrder ==
  ASSUME AckInv, FindClient \/ \E k \in Clients : SpawnClient(k)
  PROVE  InOrder' /\ HasTarget' /\ Safe \subseteq Safe'
<1> DEFINE d == Head(clientData)
<1>1. /\ dispHold = <<>> /\ dispHold' = <<d>> /\ clientData # <<>> /\ clientData' = Tail(clientData)
      /\ d \in Datagrams /\ d # Close /\ clientData \in Seq(Datagrams)
      /\ UNCHANGED <<rxHold, clQueue, written>>
  BY QueueTypes, PopKeepsType, DatagramParts DEF FindClient, SpawnClient, rxVars, clientVars
<1>2. \A p : ServerGone(p) = ServerGone(p)'
  BY QueueTypes DEF FindClient, SpawnClient, clientVars, ServerGone
<1>3. AtClient' = AtClient
  BY <1>1, <1>2 DEF AtClient, Gone, Written
<1>4. Queued' = Queued
  BY <1>1, <1>3 DEF Queued
<1>5. Dispatched = Queued /\ Dispatched' = Queued \cup {d.chunk}
  BY <1>1, <1>4, CarriedNone, CarriedOne DEF Dispatched
<1>6. Forwarded \subseteq Forwarded'
  <2>1. Carried(clientData) \subseteq Carried(Tail(clientData)) \cup Carried(<<d>>)
    BY <1>1, CarriedTail
  <2> QED
    BY <1>1, <1>5, <2>1, CarriedOne DEF Forwarded
<1>7. Safe \subseteq Safe'
  BY <1>1, <1>6 DEF Safe
<1>8. Ordered(dispHold', Queued)
  <2>1. d.sequence > 0 => Before(d) \in Queued
    BY <1>1, <1>5, OrderedHead DEF AckInv, InOrder
  <2> QED
    BY <1>1, <2>1, OrderedOne
<1>9. Ordered(clientData', Dispatched')
  BY <1>1, <1>5, OrderedTail, CarriedOne DEF AckInv, InOrder
<1>10. Ordered(rxHold', Forwarded')
  BY <1>1, <1>6, OrderedMore DEF AckInv, InOrder
<1>11. InOrder'
  BY <1>1, <1>3, <1>4, <1>8, <1>9, <1>10 DEF AckInv, InOrder
<1>12. HasTarget'
  <2>1. d.port \in Ports
    BY <1>1, DatagramParts
  <2>2. inboundClients'[d.port] # NoClient
    BY <2>1, QueueTypes, ConstantsAssumption DEF FindClient, SpawnClient, mapVars
  <2> QED
    BY <1>1, <2>2 DEF HasTarget
<1> QED
  BY <1>7, <1>11, <1>12

LEMMA HandOverKeepsOrder ==
  ASSUME AckInv, HandOver
  PROVE  InOrder' /\ HasTarget' /\ Safe \subseteq Safe'
<1> DEFINE d == Head(dispHold)
           t == Target
<1>1. /\ dispHold = <<d>> /\ dispHold' = <<>>
      /\ d \in Datagrams /\ d # Close /\ d.port \in Ports
      /\ UNCHANGED <<rxHold, clientData, inboundClients, clState, clPort, written>>
  <2>1. dispHold # <<>> /\ dispHold \in Seq(Datagrams) /\ Len(dispHold) <= 1
    BY QueueTypes DEF HandOver
  <2>2. dispHold = <<d>>
    BY <2>1, HoldsOne
  <2>3. d \in Datagrams
    BY <2>1
  <2> QED
    BY <2>2, <2>3, DatagramParts DEF HandOver, rxVars, mapVars
<1>2. t \in Clients /\ inboundClients[d.port] = t /\ clState[t] # "unused" /\ clPort[t] = d.port
  <2>1. t = inboundClients[d.port] /\ t # NoClient
    BY DEF AckInv, HasTarget, Target, HandOver
  <2>2. t \in Clients
    BY <1>1, <2>1, QueueTypes
  <2> QED
    BY <1>1, <2>1, <2>2 DEF AckInv, StreamInv, PrefixInv, MapOwn
<1>3. clQueue' = [clQueue EXCEPT ![t] = Append(@, d)] /\ clQueue[t] \in Seq(Datagrams \cup {Close})
  BY <1>2, QueueTypes DEF HandOver
<1>4. AtClient' = AtClient
  BY <1>1 DEF AtClient, Gone, Written, ServerGone
<1>5. Carried(clQueue'[t]) = Carried(clQueue[t]) \cup {d.chunk}
  <2>1. clQueue'[t] = Append(clQueue[t], d)
    BY <1>2, <1>3, QueueTypes
  <2>2. d \in Datagrams \cup {Close}
    BY <1>1
  <2> QED
    BY <1>1, <1>3, <2>1, <2>2, CarriedAppend
<1>6. \A k \in Clients : k # t => clQueue'[k] = clQueue[k]
  BY <1>3, QueueTypes
<1>7. Queued' = Queued \cup {d.chunk}
  BY <1>2, <1>4, <1>5, <1>6 DEF Queued
<1>8. Dispatched' = Dispatched /\ Forwarded' = Forwarded /\ Safe' = Safe
  BY <1>1, <1>7, CarriedNone, CarriedOne DEF Dispatched, Forwarded, Safe
<1>9. Ordered(clQueue'[t], AtClient)
  <2>1. Ordered(clQueue[t], AtClient)
    BY <1>2 DEF AckInv, InOrder
  <2>2. ASSUME d.sequence > 0
        PROVE  Before(d) \in AtClient \cup Carried(clQueue[t])
    <3>1. Before(d) \in Queued
      BY <1>1, <2>2, QueueTypes, OrderedHead DEF AckInv, InOrder, HandOver
    <3>2. PICK k \in Clients : /\ clState[k] # "unused" /\ clPort[k] = d.port
                               /\ Before(d) \in AtClient \cup Carried(clQueue[k])
      BY <1>1, <3>1, AtOneClient, BeforePort
    <3>3. k = t
      BY <1>2, <3>2, KnownPort
    <3> QED
      BY <3>2, <3>3
  <2> QED
    BY <1>1, <1>2, <1>3, <2>1, <2>2, QueueTypes, OrderedAppend
<1>10. InOrder'
  BY <1>1, <1>4, <1>6, <1>7, <1>8, <1>9, OrderedNone DEF AckInv, InOrder
<1>11. HasTarget'
  BY <1>1 DEF HasTarget
<1> QED
  BY <1>8, <1>10, <1>11

\* What is dropped here belongs to a connection whose server has gone.
LEMMA HandOverFailsKeepsOrder ==
  ASSUME AckInv, HandOverFails
  PROVE  InOrder' /\ HasTarget' /\ Safe \subseteq Safe'
<1> DEFINE d == Head(dispHold)
<1>1. /\ dispHold # <<>> /\ dispHold' = <<>>
      /\ UNCHANGED <<rxHold, clientData, inboundClients, clientVars>>
  BY DEF HandOverFails, rxVars, mapVars
<1>2. dispHold = <<d>> /\ d \in Datagrams
  <2>1. dispHold \in Seq(Datagrams) /\ Len(dispHold) <= 1
    BY QueueTypes
  <2> QED
    BY <1>1, <2>1, HoldsOne
<1>3. d # Close /\ d.port \in Ports /\ d.chunk \in Chunks /\ PortOf[d.chunk[1]] = d.port
  BY <1>2, DatagramParts
<1>4. d.chunk \in Gone
  <2>1. Target = inboundClients[d.port] /\ Target # NoClient /\ clState[Target] = "dead"
    BY <1>1 DEF AckInv, HasTarget, Target, HandOverFails
  <2>2. Target \in Clients
    BY <1>3, <2>1, QueueTypes
  <2>3. clPort[Target] = d.port
    BY <1>3, <2>1 DEF AckInv, StreamInv, PrefixInv, MapOwn
  <2> QED
    BY <1>3, <2>1, <2>2, <2>3 DEF Gone, ServerGone
<1>5. AtClient' = AtClient
  BY <1>1 DEF AtClient, Gone, Written, ServerGone, clientVars
<1>6. Queued' = Queued
  BY <1>1, <1>5 DEF Queued, clientVars
<1>7. Dispatched' = Dispatched
  <2>1. Carried(dispHold) = {d.chunk} /\ Carried(dispHold') = {}
    BY <1>1, <1>2, <1>3, CarriedOne, CarriedNone
  <2> QED
    BY <1>4, <1>6, <2>1 DEF Dispatched, Queued, AtClient
<1>8. Forwarded' = Forwarded /\ Safe' = Safe
  BY <1>1, <1>7 DEF Forwarded, Safe
<1>9. InOrder'
  BY <1>1, <1>5, <1>6, <1>7, <1>8, OrderedNone DEF AckInv, InOrder, clientVars
<1> QED
  BY <1>1, <1>8, <1>9 DEF HasTarget

-----------------------------------------------------------------------------
(***************************************************************************)
(* The steps of a client.                                                  *)
(***************************************************************************)
LEMMA ClientStepKeepsOrder ==
  ASSUME AckInv, NEW k \in Clients,
         UNCHANGED <<rxHold, clientData, dispHold, inboundClients>>,
         \A l \in Clients : l # k => clQueue'[l] = clQueue[l],
         AtClient \subseteq AtClient',
         Carried(clQueue[k]) \subseteq AtClient' \cup Carried(clQueue'[k]),
         Ordered(clQueue'[k], AtClient')
  PROVE  InOrder' /\ HasTarget' /\ Safe \subseteq Safe'
<1>1. Queued \subseteq Queued'
  <2> SUFFICES ASSUME NEW l \in Clients
               PROVE  Carried(clQueue[l]) \subseteq AtClient' \cup Carried(clQueue'[l])
    BY DEF Queued
  <2> QED
    BY DEF Queued
<1>2. Dispatched \subseteq Dispatched'
  BY <1>1 DEF Dispatched
<1>3. Forwarded \subseteq Forwarded'
  BY <1>2 DEF Forwarded
<1>4. Safe \subseteq Safe'
  BY <1>3 DEF Safe
<1>5. ASSUME NEW l \in Clients
      PROVE  Ordered(clQueue'[l], AtClient')
  <2>1. CASE l # k
    BY <2>1, OrderedMore DEF AckInv, InOrder
  <2> QED
    BY <2>1
<1>6. Ordered(dispHold', Queued') /\ Ordered(clientData', Dispatched') /\ Ordered(rxHold', Forwarded')
  BY <1>1, <1>2, <1>3, OrderedMore DEF AckInv, InOrder
<1>7. InOrder'
  BY <1>5, <1>6 DEF InOrder
<1> QED
  BY <1>4, <1>7 DEF AckInv, HasTarget

\* Who has written a chunk.
LEMMA WrittenByOne ==
  ASSUME AckInv, NEW ch \in Written
  PROVE  \E k \in Clients :
           /\ clState[k] # "unused" /\ PortOf[ch[1]] = clPort[k]
           /\ ch[2] < nextSequence[k]
<1>1. PICK k \in Clients : ch \in Range(written[k])
  BY DEF Written
<1>2. PICK i \in 1..Len(written[k]) : written[k][i] = ch
  BY <1>1, QueueTypes DEF Range
<1>3. /\ Len(written[k]) = nextSequence[k] /\ ch[2] = i - 1
      /\ PortOf[ch[1]] = clPort[k]
  BY <1>2 DEF AckInv, StreamInv, PrefixInv, WrittenOwn
<1>4. ch[2] < nextSequence[k]
  <2>1. nextSequence[k] \in Nat
    BY ConstantsAssumption DEF AckInv, StreamInv, PrefixInv, TypeInv, TypeOK
  <2> QED
    BY <1>2, <1>3, <2>1
<1>5. written[k] # <<>>
  BY <1>2, EmptyChannel
<1> QED
  BY <1>3, <1>4, <1>5 DEF AckInv, StreamInv, PrefixInv, Spawned

\* A writer that has got as far has written this chunk.
LEMMA WrittenBelow ==
  ASSUME OnePortEach, AckInv, NEW k \in Clients, NEW d \in Datagrams,
         d.port = clPort[k], d.sequence < nextSequence[k]
  PROVE  d.chunk \in Written
<1>1. d.sequence \in Nat /\ d.chunk \in Conns \X Sequences /\ d.chunk[2] = d.sequence
      /\ PortOf[d.chunk[1]] = clPort[k]
  BY DatagramParts DEF Sequences, Chunks
<1>2. Len(written[k]) = nextSequence[k] /\ written[k] \in Seq(Chunks)
  BY QueueTypes DEF AckInv, StreamInv, PrefixInv, WrittenOwn
<1> DEFINE i == d.sequence + 1
<1>3. i \in 1..Len(written[k]) /\ i - 1 = d.sequence
  BY <1>1, <1>2
<1>4. written[k][i] \in Conns \X Sequences
  BY <1>2, <1>3 DEF Chunks
<1>5. written[k][i][2] = d.sequence /\ PortOf[written[k][i][1]] = clPort[k]
  BY <1>3 DEF AckInv, StreamInv, PrefixInv, WrittenOwn
<1>6. written[k][i][1] = d.chunk[1]
  BY <1>1, <1>4, <1>5 DEF OnePortEach
<1>7. written[k][i] = d.chunk
  BY <1>1, <1>4, <1>5, <1>6
<1> QED
  BY <1>2, <1>3, <1>7 DEF Written, Range

\* What a working writer drops as out of sequence it has written before.
LEMMA DropsOnlyCopies ==
  ASSUME OnePortEach, AckInv, NEW k \in Clients, clState[k] = "open", clQueue[k] # <<>>,
         Head(clQueue[k]) # Close, Head(clQueue[k]).sequence # nextSequence[k]
  PROVE  Head(clQueue[k]).chunk \in Written
<1> DEFINE d == Head(clQueue[k])
<1>1. clQueue[k] \in Seq(Datagrams \cup {Close}) /\ d \in Datagrams
  <2>1. clQueue[k] \in Seq(Datagrams \cup {Close})
    BY QueueTypes
  <2>2. d \in Datagrams \cup {Close}
    BY <2>1
  <2> QED
    BY <2>1, <2>2
<1>2. d.port = clPort[k]
  <2>1. d = clQueue[k][1] /\ 1 \in 1..Len(clQueue[k])
    BY <1>1
  <2> QED
    BY <2>1 DEF AckInv, StreamInv, PrefixInv, QueuesOwn
<1>3. d.sequence \in Nat /\ nextSequence[k] \in Nat
  BY <1>1, DatagramParts, ConstantsAssumption DEF Sequences, AckInv, StreamInv, PrefixInv, TypeInv, TypeOK
<1>4. CASE d.sequence > nextSequence[k]
  <2>1. Before(d) \in AtClient
    BY <1>1, <1>3, <1>4, OrderedHead DEF AckInv, InOrder
  <2>2. Before(d) \notin Gone
    <3> SUFFICES ASSUME NEW l \in Clients, clPort[l] = d.port, clState[l] \in {"writerDone", "dead"}
                 PROVE  FALSE
      BY <1>1, BeforePort DEF Gone, ServerGone
    <3> QED
      BY <1>2, KnownPort
  <2>3. PICK l \in Clients : /\ clState[l] # "unused" /\ clPort[l] = d.port
                             /\ d.sequence - 1 < nextSequence[l]
    BY <1>1, <2>1, <2>2, WrittenByOne, BeforePort DEF AtClient, Before
  <2>4. l = k
    BY <1>2, <2>3, KnownPort
  <2> QED
    BY <1>3, <1>4, <2>3, <2>4
<1>5. CASE d.sequence < nextSequence[k]
  BY <1>1, <1>2, <1>5, WrittenBelow
<1> QED
  BY <1>3, <1>4, <1>5

\* What a step of a client is, as far as order is concerned.
LEMMA ClientStepShape ==
  ASSUME AckInv, NEW k \in Clients, InboundClient(k)
  PROVE  /\ UNCHANGED <<rxHold, clientData, dispHold, inboundClients, clPort>>
         /\ clState[k] # "unused"
         /\ clState[k] \in {"writerDone", "dead"} => clState'[k] \in {"writerDone", "dead"}
         /\ \A l \in Clients : l # k => clState'[l] = clState[l] /\ clQueue'[l] = clQueue[l]
         /\ \/ clQueue'[k] = clQueue[k] \/ clQueue'[k] = <<>>
            \/ clQueue[k] # <<>> /\ clQueue'[k] = Tail(clQueue[k])
<1> USE QueueTypes DEF rxVars, mapVars
<1>1. CASE Connect(k) \/ ConnectFails(k) \/ ServerCloses(k)
  BY <1>1 DEF Connect, ConnectFails, ServerCloses
<1>2. CASE WriteChunk(k) \/ DropOutOfSequence(k)
  BY <1>2 DEF WriteChunk, DropOutOfSequence, AfterIteration, Writing
<1>3. CASE WriteFails(k) \/ RecvClose(k)
  BY <1>3 DEF WriteFails, RecvClose, WriterEnds, Writing
<1> QED
  BY <1>1, <1>2, <1>3 DEF InboundClient

LEMMA AtClientGrows ==
  ASSUME AckInv, NEW k \in Clients, InboundClient(k)
  PROVE  AtClient \subseteq AtClient'
<1>1. Gone \subseteq Gone'
  BY ClientStepShape DEF Gone, ServerGone
<1>2. \A l \in Clients : Range(written[l]) \subseteq Range(written'[l])
  <2>1. CASE WriteChunk(k)
    <3> SUFFICES ASSUME NEW l \in Clients
                 PROVE  Range(written[l]) \subseteq Range(written'[l])
      OBVIOUS
    <3>1. written[l] \in Seq(Chunks)
      BY QueueTypes
    <3>2. \/ written'[l] = written[l]
          \/ \E ch : written'[l] = Append(written[l], ch)
      BY <2>1, QueueTypes DEF WriteChunk
    <3>3. ASSUME NEW i \in 1..Len(written[l])
          PROVE  i \in DOMAIN written'[l] /\ written'[l][i] = written[l][i]
      BY <3>1, <3>2
    <3>4. DOMAIN written[l] = 1..Len(written[l])
      BY <3>1
    <3> QED
      BY <3>3, <3>4 DEF Range
  <2>2. CASE ~WriteChunk(k)
    BY <2>2 DEF InboundClient, Connect, ConnectFails, DropOutOfSequence, WriteFails, RecvClose,
                ServerCloses
  <2> QED
    BY <2>1, <2>2
<1>3. Written \subseteq Written'
  BY <1>2 DEF Written
<1> QED
  BY <1>1, <1>3 DEF AtClient

\* A client that ends takes nothing with it but what its server does not want.
LEMMA EndKeepsOrder ==
  ASSUME AckInv, NEW k \in Clients, InboundClient(k), clState'[k] \in {"writerDone", "dead"}
  PROVE  InOrder' /\ HasTarget' /\ Safe \subseteq Safe'
<1>1. ASSUME NEW ch \in Chunks, PortOf[ch[1]] = clPort[k]
      PROVE  ch \in AtClient'
  BY <1>1, ClientStepShape DEF AtClient, Gone, ServerGone
<1>2. clQueue[k] \in Seq(Datagrams \cup {Close})
  BY QueueTypes
<1>3. ASSUME NEW i \in 1..Len(clQueue[k]), clQueue[k][i] # Close
      PROVE  clQueue[k][i] \in Datagrams /\ clQueue[k][i].port = clPort[k]
  BY <1>2, <1>3 DEF AckInv, StreamInv, PrefixInv, QueuesOwn
<1>4. Carried(clQueue[k]) \subseteq AtClient'
  BY <1>1, <1>3, DatagramParts DEF Carried
<1>5. ASSUME NEW d \in Datagrams, d.port = clPort[k], d.sequence > 0
      PROVE  Before(d) \in AtClient'
  <2>1. d.chunk[1] \in Conns /\ d.sequence - 1 \in Sequences
    BY <1>5, DatagramParts, ConstantsAssumption DEF Sequences
  <2>2. Before(d) \in Chunks
    BY <2>1 DEF Before, Chunks
  <2> QED
    BY <1>1, <1>5, <2>2, BeforePort
<1>6. Ordered(clQueue[k], AtClient')
  BY <1>3, <1>5 DEF Ordered
<1>7. Ordered(clQueue'[k], AtClient')
  <2>1. CASE clQueue[k] # <<>> /\ clQueue'[k] = Tail(clQueue[k])
    <3>1. ASSUME NEW i \in 1..Len(Tail(clQueue[k]))
          PROVE  i + 1 \in 1..Len(clQueue[k]) /\ Tail(clQueue[k])[i] = clQueue[k][i + 1]
      BY <1>2, <2>1
    <3> QED
      BY <1>3, <1>5, <2>1, <3>1 DEF Ordered
  <2>2. CASE clQueue'[k] = clQueue[k] \/ clQueue'[k] = <<>>
    BY <1>6, <2>2, OrderedNone
  <2> QED
    BY <2>1, <2>2, ClientStepShape
<1> QED
  BY <1>4, <1>7, AtClientGrows, ClientStepShape, ClientStepKeepsOrder

LEMMA RunningKeepsOrder ==
  ASSUME OnePortEach, AckInv, NEW k \in Clients, InboundClient(k),
         clState'[k] \notin {"writerDone", "dead"}
  PROVE  InOrder' /\ HasTarget' /\ Safe \subseteq Safe'
<1>1. CASE UNCHANGED clQueue
  <2>1. Ordered(clQueue'[k], AtClient')
    BY <1>1, AtClientGrows, OrderedMore DEF AckInv, InOrder
  <2> QED
    BY <1>1, <2>1, AtClientGrows, ClientStepShape, ClientStepKeepsOrder
<1>2. CASE /\ WriteChunk(k) \/ DropOutOfSequence(k)
           /\ clState[k] = "open" /\ clQueue[k] # <<>> /\ clQueue'[k] = Tail(clQueue[k])
  <2> DEFINE d == Head(clQueue[k])
  <2>1. d # Close
    BY <1>2 DEF WriteChunk, DropOutOfSequence
  <2>2. d.chunk \in AtClient'
    <3>1. CASE WriteChunk(k)
      <4>1. written'[k] = Append(written[k], d.chunk) /\ written[k] \in Seq(Chunks)
        BY <3>1, QueueTypes DEF WriteChunk
      <4>2. /\ Len(written[k]) + 1 \in DOMAIN Append(written[k], d.chunk)
            /\ Append(written[k], d.chunk)[Len(written[k]) + 1] = d.chunk
        BY <4>1
      <4>3. d.chunk \in Range(written'[k])
        BY <4>1, <4>2 DEF Range
      <4> QED
        BY <4>3 DEF AtClient, Written
    <3>2. CASE DropOutOfSequence(k)
      <4>1. d.chunk \in Written
        BY <1>2, <2>1, <3>2, DropsOnlyCopies DEF DropOutOfSequence, InSequence
      <4> QED
        BY <4>1, AtClientGrows DEF AtClient
    <3> QED
      BY <1>2, <3>1, <3>2
  <2>3. clQueue[k] \in Seq(Datagrams \cup {Close}) /\ Carried(<<d>>) = {d.chunk}
    BY <2>1, QueueTypes, CarriedOne
  <2>4. Carried(clQueue[k]) \subseteq AtClient' \cup Carried(clQueue'[k])
    BY <1>2, <2>2, <2>3, CarriedTail
  <2>5. Ordered(clQueue'[k], AtClient')
    <3>1. Ordered(clQueue'[k], AtClient \cup {d.chunk})
      BY <1>2, <2>3, OrderedTail DEF AckInv, InOrder
    <3> QED
      BY <2>2, <3>1, AtClientGrows, OrderedMore
  <2> QED
    BY <2>4, <2>5, AtClientGrows, ClientStepShape, ClientStepKeepsOrder
<1>3. CASE Connect(k) \/ ConnectFails(k) \/ ServerCloses(k)
  BY <1>1, <1>3, QueueTypes DEF Connect, ConnectFails, ServerCloses
<1>4. CASE WriteChunk(k) \/ DropOutOfSequence(k)
  BY <1>2, <1>4, QueueTypes DEF WriteChunk, DropOutOfSequence, AfterIteration, Writing
<1>5. CASE WriteFails(k) \/ RecvClose(k)
  BY <1>5, QueueTypes DEF WriteFails, RecvClose, WriterEnds, Writing
<1> QED
  BY <1>3, <1>4, <1>5 DEF InboundClient

-----------------------------------------------------------------------------
(***************************************************************************)
(* Who learns of an acknowledgement, and when.                             *)
(***************************************************************************)
LEMMA AckTypes ==
  ASSUME AckInv
  PROVE  /\ sequence \in [Conns -> Nat]
         /\ ackState \in [Conns -> AckStates]
         /\ ackQueue \in [Conns -> Seq(Ids)]
         /\ ackNet \subseteq Ids
         /\ net \subseteq Datagrams
BY ConstantsAssumption DEF AckInv, StreamInv, PrefixInv, TypeInv, TypeOK

\* An acknowledgement that is new to peer A comes from the waiter's channel.
LEMMA ReaderLearnsNothing ==
  ASSUME AckInv, NEW e \in Conns, Reader(e), NEW c \in Conns, NEW n \in Sequences, Acked(c, n)'
  PROVE  Acked(c, n)
<1> USE AckTypes DEF Acked
<1>1. UNCHANGED ackNet /\ n \in Nat
  BY DEF Reader, Accept, ReadChunk, ReaderStops, AckObserved, Resend, AwaitRoom, SendFails, WaiterRecv, netVars,
         Sequences
<1>2. CASE Accept(e) \/ ReaderStops(e) \/ Resend(e) \/ AwaitRoom(e) \/ SendFails(e)
  BY <1>1, <1>2 DEF Accept, ReaderStops, Resend, AwaitRoom, SendFails, waiterVars
<1>3. CASE ReadChunk(e)
  <2>1. /\ sequence' = sequence
        /\ ackState' = [ackState EXCEPT ![e] = "listening"]
        /\ ackQueue' = [ackQueue EXCEPT ![e] = <<>>]
    BY <1>3 DEF ReadChunk
  <2>2. \A f \in Conns : ackQueue'[f] = ackQueue[f] \/ ackQueue'[f] = <<>>
    BY <2>1
  <2>3. ackState'[c] = "finished" => ackState[c] = "finished"
    BY <2>1
  <2> QED
    BY <1>1, <2>1, <2>2, <2>3, ContainsNone
<1>4. CASE AckObserved(e)
  <2>1. /\ sequence' = [sequence EXCEPT ![e] = @ + 1] /\ ackState[e] = "finished"
        /\ ackState' = [ackState EXCEPT ![e] = "idle"]
        /\ UNCHANGED ackQueue
    BY <1>4 DEF AckObserved, AckReceived
  <2> QED
    BY <1>1, <2>1
<1>5. CASE WaiterRecv(e)
  <2>1. UNCHANGED sequence /\ ackState[e] # "lagged"
    BY <1>5 DEF WaiterRecv, readerVars, AckInv, NeverLagged
  <2>2. ackQueue[e] \in Seq(Ids) /\ ackQueue[e] # <<>>
    BY <1>5, <2>1 DEF WaiterRecv
  <2>3. \A f \in Conns : \/ ackQueue'[f] = ackQueue[f] \/ ackQueue'[f] = <<>>
                         \/ ackQueue[f] # <<>> /\ ackQueue'[f] = Tail(ackQueue[f])
    BY <1>5, <2>1, <2>2 DEF WaiterRecv
  <2>4. \A f \in Conns : Contains(ackQueue'[f], IdOf(PortOf[c], n)) => Contains(ackQueue[f], IdOf(PortOf[c], n))
    BY <2>3, ContainsTail, ContainsNone
  <2>5. ASSUME ackState'[c] = "finished", n = sequence[c]
        PROVE  ackState[c] = "finished" \/ Contains(ackQueue[c], IdOf(PortOf[c], n))
    <3>1. CASE ackState'[c] = ackState[c]
      BY <2>5, <3>1
    <3>2. CASE ackState'[c] # ackState[c]
      <4>1. c = e /\ Head(ackQueue[c]) = IdOf(PortOf[c], n)
        BY <1>5, <2>1, <2>5, <3>2 DEF WaiterRecv
      <4> QED
        BY <2>2, <4>1, ContainsHead
    <3> QED
      BY <3>1, <3>2
  <2> QED
    BY <1>1, <2>1, <2>4, <2>5
<1> QED
  BY <1>2, <1>3, <1>4, <1>5 DEF Reader

\* Nothing is acknowledged but what peer B takes from the network.
LEMMA OnlyRecvAcknowledges ==
  ASSUME OnePortEach, "lag" \notin Faults, AckInv, [Next]_vars,
         NEW c \in Conns, NEW n \in Sequences, Acked(c, n)'
  PROVE  \/ Acked(c, n)
         \/ \E d \in Datagrams : TunnelRecv(d) /\ d.chunk = <<c, n>>
<1> USE AckTypes DEF readerVars, waiterVars, netVars, rxVars, mapVars, clientVars
<1>1. CASE \E e \in Conns : Reader(e)
  BY <1>1, ReaderLearnsNothing
<1>2. CASE \E id \in ackNet : AckRecv(id)
  <2> PICK id \in ackNet : AckRecv(id)
    BY <1>2
  <2>1. UNCHANGED <<sequence, ackState>> /\ ackNet' \subseteq ackNet
    BY DEF AckRecv
  <2>2. \A f \in Conns : \/ ackQueue'[f] = ackQueue[f]
                         \/ ackQueue'[f] = Append(ackQueue[f], id)
    BY DEF AckRecv
  <2>3. ASSUME NEW f \in Conns, Contains(ackQueue'[f], IdOf(PortOf[c], n))
        PROVE  Contains(ackQueue[f], IdOf(PortOf[c], n)) \/ IdOf(PortOf[c], n) \in ackNet
    <3>1. ackQueue[f] \in Seq(Ids) /\ id \in Ids
      OBVIOUS
    <3>2. CASE ackQueue'[f] = Append(ackQueue[f], id)
      <4>1. Contains(Append(ackQueue[f], id), IdOf(PortOf[c], n))
        BY <2>3, <3>2
      <4> QED
        BY <3>1, <4>1, ContainsAppend
    <3> QED
      BY <2>2, <2>3, <3>2
  <2> QED
    BY <2>1, <2>3 DEF Acked
<1>3. CASE \E d \in net : TunnelRecv(d)
  <2> PICK d \in net : TunnelRecv(d)
    BY <1>3
  <2>1. UNCHANGED <<sequence, ackState, ackQueue>> /\ ackNet' \subseteq ackNet \cup {Id(d)}
    BY DEF TunnelRecv, Transmit
  <2>2. ASSUME Id(d) = IdOf(PortOf[c], n)
        PROVE  d.chunk = <<c, n>>
    <3>1. d.port = PortOf[c] /\ d.sequence = n
      BY <2>2 DEF Id, IdOf
    <3> QED
      BY <3>1, DatagramParts DEF OnePortEach, Chunks
  <2> QED
    BY <2>1, <2>2 DEF Acked
<1>4. CASE Network
  BY <1>4 DEF Network, LoseDatagram, LoseAck, Acked
<1>5. CASE \/ TunnelSend \/ TunnelSendFails \/ AckLoopFails \/ PushClientData
           \/ \E d \in net : AckSendFails(d)
  BY <1>5 DEF TunnelSend, TunnelSendFails, AckLoopFails, PushClientData, AckSendFails, Acked
<1>6. CASE Dispatcher
  BY <1>6 DEF Dispatcher, SkipUnknown, FindClient, SpawnClient, HandOver, HandOverFails, Cleanup, Acked
<1>7. CASE \E k \in Clients : InboundClient(k)
  BY <1>7 DEF InboundClient, Connect, ConnectFails, WriteChunk, DropOutOfSequence, WriteFails,
              RecvClose, ServerCloses, Acked
<1>8. CASE UNCHANGED vars
  BY <1>8 DEF vars, Acked
<1> QED
  BY <1>1, <1>2, <1>3, <1>4, <1>5, <1>6, <1>7, <1>8 DEF Next, Tunnel

LEMMA NeverLaggedStep ==
  ASSUME "lag" \notin Faults, AckInv, [Next]_vars
  PROVE  NeverLagged'
<1> USE AckTypes DEF NeverLagged, readerVars, waiterVars, netVars, rxVars, mapVars, clientVars
<1>1. \A c \in Conns : ackState[c] # "lagged"
  BY DEF AckInv
<1>2. CASE \E e \in Conns : Reader(e)
  BY <1>1, <1>2 DEF Reader, Accept, ReadChunk, ReaderStops, AckObserved, Resend, AwaitRoom, SendFails, WaiterRecv
<1>3. CASE \E id \in ackNet : AckRecv(id)
  BY <1>1, <1>3 DEF AckRecv
<1>4. CASE UNCHANGED ackState
  BY <1>1, <1>4
<1>5. \/ TunnelSend \/ TunnelSendFails \/ AckLoopFails \/ PushClientData \/ Network \/ Dispatcher
      \/ \E d \in net : TunnelRecv(d) \/ AckSendFails(d)
      \/ \E k \in Clients : InboundClient(k)
      \/ UNCHANGED vars
      => UNCHANGED ackState
  BY DEF vars, TunnelSend, TunnelSendFails, AckLoopFails, TunnelRecv, AckSendFails, PushClientData, Network,
         LoseDatagram, LoseAck, Dispatcher, SkipUnknown, FindClient, SpawnClient, HandOver,
         HandOverFails, Cleanup, InboundClient, Connect, ConnectFails, WriteChunk,
         DropOutOfSequence, WriteFails, RecvClose, ServerCloses
<1> QED
  BY <1>2, <1>3, <1>4, <1>5 DEF Next, Tunnel

-----------------------------------------------------------------------------
(***************************************************************************)
(* The invariant.                                                          *)
(***************************************************************************)
LEMMA InitAckInv == Init => AckInv
<1> SUFFICES ASSUME Init PROVE AckInv
  OBVIOUS
<1>1. StreamInv
  BY InitStreamInv
<1>2. InOrder
  BY OrderedNone DEF Init, InOrder
<1>3. HasTarget /\ NeverLagged
  BY DEF Init, HasTarget, NeverLagged
<1>4. ASSUME NEW c \in Conns, NEW n \in Sequences
      PROVE  ~Acked(c, n)
  <2>1. /\ sequence[c] = 0 /\ ackState[c] = "idle" /\ ackNet = {}
        /\ \A e \in Conns : ackQueue[e] = <<>>
    BY DEF Init
  <2>2. n \in Nat
    BY DEF Sequences
  <2> QED
    BY <2>1, <2>2, ContainsNone DEF Acked
<1> QED
  BY <1>1, <1>2, <1>3, <1>4 DEF AckInv, AckedSafe

\* No step takes anything out of peer B that is still wanted.
LEMMA NextKeepsOrder ==
  ASSUME OnePortEach, "cleanup" \notin Faults, AckInv, [Next]_vars
  PROVE  InOrder' /\ HasTarget' /\ Safe \subseteq Safe'
<1>1. CASE \E k \in Clients : InboundClient(k)
  BY <1>1, EndKeepsOrder, RunningKeepsOrder
<1>2. CASE \E d \in net : TunnelRecv(d)
  BY <1>2, AckTypes, RecvKeepsOrder
<1>3. CASE PushClientData
  BY <1>3, PushKeepsOrder
<1>4. CASE FindClient \/ \E k \in Clients : SpawnClient(k)
  BY <1>4, TakeKeepsOrder
<1>5. CASE HandOver
  BY <1>5, HandOverKeepsOrder
<1>6. CASE HandOverFails
  BY <1>6, HandOverFailsKeepsOrder
<1>7. ~SkipUnknown /\ ~Cleanup
  BY NeverSkips DEF Cleanup
<1>8. CASE UNCHANGED <<rxHold, clientData, dispHold, inboundClients, clientVars>>
  BY <1>8, ElsewhereKeepsOrder
<1>9. \/ \E c \in Conns : Reader(c)
      \/ TunnelSend \/ TunnelSendFails \/ AckLoopFails \/ Network
      \/ \E id \in ackNet : AckRecv(id)
      \/ \E d \in net : AckSendFails(d)
      \/ UNCHANGED vars
      => UNCHANGED <<rxHold, clientData, dispHold, inboundClients, clientVars>>
  BY DEF vars, rxVars, mapVars, Reader, Accept, ReadChunk, ReaderStops, AckObserved, Resend,
         AwaitRoom, SendFails, WaiterRecv, TunnelSend, TunnelSendFails, AckLoopFails, Network, LoseDatagram, LoseAck,
         AckRecv, AckSendFails
<1> QED
  BY <1>1, <1>2, <1>3, <1>4, <1>5, <1>6, <1>7, <1>8, <1>9 DEF Next, Tunnel, Dispatcher

LEMMA NextKeepsAckedSafe ==
  ASSUME OnePortEach, "cleanup" \notin Faults, "lag" \notin Faults, AckInv, [Next]_vars
  PROVE  AckedSafe'
<1> SUFFICES ASSUME NEW c \in Conns, NEW n \in Sequences, Acked(c, n)'
             PROVE  <<c, n>> \in Safe'
  BY DEF AckedSafe
<1>1. CASE Acked(c, n)
  BY <1>1, NextKeepsOrder DEF AckInv, AckedSafe
<1>2. CASE \E d \in Datagrams : TunnelRecv(d) /\ d.chunk = <<c, n>>
  BY <1>2, RecvKeepsOrder
<1> QED
  BY <1>1, <1>2, OnlyRecvAcknowledges

LEMMA NextKeepsAckInv ==
  ASSUME OnePortEach, "cleanup" \notin Faults, "lag" \notin Faults
  PROVE  AckInv /\ [Next]_vars => AckInv'
<1> SUFFICES ASSUME AckInv, [Next]_vars PROVE AckInv'
  OBVIOUS
<1>1. StreamInv'
  BY NextKeepsStreamInv DEF AckInv
<1> QED
  BY <1>1, NextKeepsOrder, NeverLaggedStep, NextKeepsAckedSafe DEF AckInv

\* A chunk a queue carries is held in it.
LEMMA CarriedIsHeld ==
  ASSUME NEW S, NEW q \in Seq(S), NEW ch \in Carried(q)
  PROVE  \E d \in Range(q) : d # Close /\ d.chunk = ch
<1>1. PICK i \in 1..Len(q) : q[i] # Close /\ q[i].chunk = ch
  BY DEF Carried
<1>2. q[i] \in Range(q)
  BY DEF Range
<1> QED
  BY <1>1, <1>2

LEMMA AckInvSuffices == AckInv => AckedNotLost
<1> SUFFICES ASSUME AckInv, NEW c \in Conns, NEW n \in 0..(sequence[c] - 1)
             PROVE  Held(<<c, n>>) \/ ServerGone(PortOf[c])
  BY DEF AckedNotLost
<1>1. n \in Sequences /\ n < sequence[c]
  <2>1. sequence[c] \in 0..MaxChunks
    BY DEF AckInv, StreamInv, PrefixInv, TypeInv, TypeOK
  <2> QED
    BY <2>1, ConstantsAssumption DEF Sequences
<1>2. <<c, n>> \in Safe
  BY <1>1 DEF AckInv, AckedSafe, Acked
<1>3. CASE <<c, n>> \in Gone
  BY <1>3 DEF Gone
<1>4. CASE <<c, n>> \in Written
  BY <1>4 DEF Written, Held
<1>5. CASE \E k \in Clients : <<c, n>> \in Carried(clQueue[k])
  <2>1. PICK k \in Clients : <<c, n>> \in Carried(clQueue[k])
    BY <1>5
  <2>2. clQueue[k] \in Seq(Datagrams \cup {Close})
    BY QueueTypes
  <2>3. \E d \in Range(clQueue[k]) : d # Close /\ d.chunk = <<c, n>>
    BY <2>1, <2>2, CarriedIsHeld
  <2> QED
    BY <2>3 DEF Held
<1>6. CASE <<c, n>> \in Carried(dispHold) \cup Carried(clientData) \cup Carried(rxHold)
  <2>1. PICK q \in {dispHold, clientData, rxHold} : <<c, n>> \in Carried(q)
    BY <1>6
  <2>2. PICK d \in Range(q) : d.chunk = <<c, n>>
    BY <2>1, QueueTypes, CarriedIsHeld
  <2> QED
    BY <2>1, <2>2 DEF Held
<1> QED
  BY <1>2, <1>3, <1>4, <1>5, <1>6 DEF Safe, Forwarded, Dispatched, Queued, AtClient

\* What the reader of OutboundServer has taken as acknowledged is written by the
\* other peer or waits there on its way to a local server that is still there,
\* for any number of connections and chunks and any capacities of the channels,
\* as long as no port is used twice, the cleanup has not come round and no
\* acknowledgement waiter is overrun.
THEOREM AckedNotLostHolds ==
  ASSUME OnePortEach, "cleanup" \notin Faults, "lag" \notin Faults
  PROVE  Spec => []AckedNotLost
<1>1. AckInv /\ [Next]_vars => AckInv'
  BY NextKeepsAckInv
<1> QED
  BY <1>1, InitAckInv, AckInvSuffices, PTL DEF Spec

=============================================================================
