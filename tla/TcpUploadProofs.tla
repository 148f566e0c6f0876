--------------------------- MODULE TcpUploadProofs ---------------------------
(***************************************************************************)
(* Proofs about TcpUpload, for every number of connections, clients and    *)
(* chunks and every capacity.                                              *)
(***************************************************************************)
EXTENDS TcpUpload, TLAPS

\* A reader that sends has a chunk to send.
SendsInRange ==
  \A c \in Conns : readerState[c] \in {"tick", "push"} => sequence[c] < MaxChunks

TypeInv == TypeOK /\ SendsInRange

-----------------------------------------------------------------------------
LEMMA DatagramShape ==
  ASSUME NEW c \in Conns, NEW n \in Sequences
  PROVE  /\ ClientDataDatagram(c, n) \in Datagrams
         /\ ClientDataDatagram(c, n).port = PortOf[c]
         /\ ClientDataDatagram(c, n).chunk = <<c, n>>
BY DEF Datagrams, ClientDataDatagram, Chunks

LEMMA DatagramParts ==
  ASSUME NEW d \in Datagrams
  PROVE  /\ d.port \in Ports
         /\ d.sequence \in Sequences
         /\ d.chunk \in Chunks
         /\ d.chunk[1] \in Conns
         /\ d.chunk[2] = d.sequence
         /\ PortOf[d.chunk[1]] = d.port
         /\ d # Close
         /\ Id(d) \in Ids
BY ConstantsAssumption, CloseAssumption
DEF Datagrams, ClientDataDatagram, Chunks, Id, IdOf, Ids

LEMMA EmptyChannel ==
  ASSUME NEW S, NEW cap \in Nat
  PROVE  <<>> \in Seq(S) /\ Len(<<>>) = 0 /\ Len(<<>>) <= cap
OBVIOUS

LEMMA InitTypeInv == Init => TypeInv
<1> SUFFICES ASSUME Init PROVE TypeInv
  OBVIOUS
<1>1. /\ <<>> \in Seq(Ids) /\ <<>> \in Seq(Datagrams) /\ <<>> \in Seq(Chunks)
      /\ <<>> \in Seq(Datagrams \cup {Close})
      /\ Len(<<>>) = 0
  BY EmptyChannel
<1>2. /\ ackQueue \in [Conns -> Seq(Ids)]
      /\ \A c \in Conns : Len(ackQueue[c]) <= AckCap
      /\ clQueue \in [Clients -> Seq(Datagrams \cup {Close})]
      /\ \A k \in Clients : Len(clQueue[k]) <= ClientCap
      /\ written \in [Clients -> Seq(Chunks)]
  BY <1>1, ConstantsAssumption DEF Init
<1>3. /\ toTunnel \in Seq(Datagrams) /\ Len(toTunnel) <= ToTunnelCap
      /\ rxHold \in Seq(Datagrams) /\ Len(rxHold) <= 1
      /\ clientData \in Seq(Datagrams) /\ Len(clientData) <= ClientDataCap
      /\ dispHold \in Seq(Datagrams) /\ Len(dispHold) <= 1
  BY <1>1, ConstantsAssumption DEF Init
<1>4. /\ readerState \in [Conns -> ReaderStates]
      /\ sequence \in [Conns -> 0..MaxChunks]
      /\ ackState \in [Conns -> AckStates]
      /\ inboundClients \in [Ports -> Clients \cup {NoClient}]
      /\ clState \in [Clients -> ClientStates]
      /\ clPort \in [Clients -> Ports \cup {NoPort}]
      /\ nextSequence \in [Clients -> 0..MaxChunks]
  BY ConstantsAssumption DEF Init, ReaderStates, AckStates, ClientStates
<1>5. SendsInRange
  BY DEF Init, SendsInRange
<1> QED
  BY <1>2, <1>3, <1>4, <1>5 DEF Init, TypeInv, TypeOK

-----------------------------------------------------------------------------
(***************************************************************************)
(* Channels: what the operations on a sequence keep.                       *)
(***************************************************************************)
LEMMA PushKeepsType ==
  ASSUME NEW S, NEW q \in Seq(S), NEW x \in S, NEW cap \in Nat, HasRoom(q, cap)
  PROVE  /\ Append(q, x) \in Seq(S)
         /\ Len(Append(q, x)) <= cap
BY DEF HasRoom

LEMMA PopKeepsType ==
  ASSUME NEW S, NEW q \in Seq(S), q # <<>>, NEW cap \in Nat, Len(q) <= cap
  PROVE  /\ Head(q) \in S
         /\ Tail(q) \in Seq(S)
         /\ Len(Tail(q)) <= cap
OBVIOUS

LEMMA TransmitKeepsType ==
  ASSUME NEW S, NEW network \in SUBSET S, NEW m \in S
  PROVE  Transmit(network, m) \in SUBSET S
BY DEF Transmit

-----------------------------------------------------------------------------
(***************************************************************************)
(* Every step keeps the types. One lemma for each group of tasks.          *)
(***************************************************************************)
LEMMA ReaderKeepsTypes ==
  ASSUME TypeInv, NEW c \in Conns, Reader(c)
  PROVE  TypeInv'
<1> USE ConstantsAssumption
       DEF TypeInv, TypeOK, SendsInRange, readerVars, waiterVars, netVars, rxVars,
           mapVars, clientVars, ReaderStates, AckStates, ClientStates
<1>1. CASE Accept(c)
  BY <1>1 DEF Accept
<1>2. CASE ReadChunk(c)
  BY <1>2 DEF ReadChunk
<1>3. CASE ReaderStops(c)
  BY <1>3 DEF ReaderStops
<1>4. CASE AckObserved(c)
  <2>1. sequence[c] \in 0..MaxChunks /\ sequence[c] < MaxChunks
    BY <1>4 DEF AckObserved
  <2>2. sequence[c] + 1 \in 0..MaxChunks
    BY <2>1
  <2> QED
    BY <1>4, <2>2 DEF AckObserved
<1>5. CASE Resend(c)
  <2>1. ClientDataDatagram(c, sequence[c]) \in Datagrams
    BY <1>5, DatagramShape DEF Resend, Sends, Sequences
  <2> QED
    BY <1>5, <2>1, PushKeepsType DEF Resend, Sends
<1>6. CASE AwaitRoom(c)
  BY <1>6 DEF AwaitRoom, Sends
<1>7. CASE WaiterRecv(c)
  <2>1. CASE ackState[c] = "lagged"
    BY <1>7, <2>1 DEF WaiterRecv
  <2>2. CASE ackState[c] = "listening"
    <3>1. /\ Tail(ackQueue[c]) \in Seq(Ids)
          /\ Len(Tail(ackQueue[c])) <= AckCap
      BY <1>7, <2>2, PopKeepsType DEF WaiterRecv
    <3>2. <<>> \in Seq(Ids) /\ Len(<<>>) <= AckCap
      BY EmptyChannel
    <3>3. /\ ackState' \in [Conns -> AckStates]
          /\ ackQueue' \in [Conns -> Seq(Ids)]
          /\ \A e \in Conns : Len(ackQueue'[e]) <= AckCap
      BY <1>7, <2>2, <3>1, <3>2 DEF WaiterRecv
    <3> QED
      BY <1>7, <2>2, <3>3 DEF WaiterRecv
  <2> QED
    BY <1>7, <2>1, <2>2 DEF WaiterRecv
<1>8. CASE SendFails(c)
  BY <1>8 DEF SendFails
<1> QED
  BY <1>1, <1>2, <1>3, <1>4, <1>5, <1>6, <1>7, <1>8 DEF Reader

LEMMA TunnelKeepsTypes ==
  ASSUME TypeInv, Tunnel
  PROVE  TypeInv'
<1> USE ConstantsAssumption
       DEF TypeInv, TypeOK, SendsInRange, readerVars, waiterVars, netVars, rxVars,
           mapVars, clientVars, ReaderStates, AckStates, ClientStates
<1>1. CASE TunnelSend
  <2>1. Head(toTunnel) \in Datagrams /\ Tail(toTunnel) \in Seq(Datagrams)
        /\ Len(Tail(toTunnel)) <= ToTunnelCap
    BY <1>1, PopKeepsType DEF TunnelSend
  <2>2. net' \in SUBSET Datagrams
    BY <1>1, <2>1, TransmitKeepsType DEF TunnelSend
  <2> QED
    BY <1>1, <2>1, <2>2 DEF TunnelSend
<1>2. CASE TunnelSendFails
  <2>1. Tail(toTunnel) \in Seq(Datagrams) /\ Len(Tail(toTunnel)) <= ToTunnelCap
    BY <1>2, PopKeepsType DEF TunnelSendFails
  <2> QED
    BY <1>2, <2>1 DEF TunnelSendFails
<1>3. CASE \E id \in ackNet : AckRecv(id)
  <2> PICK id \in ackNet : AckRecv(id)
    BY <1>3
  <2>1. \A c \in Conns : ~Overrun(c) /\ c \in Listening =>
          /\ Append(ackQueue[c], id) \in Seq(Ids)
          /\ Len(Append(ackQueue[c], id)) <= AckCap
    BY PushKeepsType DEF Overrun, Listening
  <2>2. /\ ackState' \in [Conns -> AckStates]
        /\ ackQueue' \in [Conns -> Seq(Ids)]
        /\ \A c \in Conns : Len(ackQueue'[c]) <= AckCap
    BY <2>1 DEF AckRecv
  <2> QED
    BY <2>2 DEF AckRecv
<1>4. CASE \E d \in net : TunnelRecv(d)
  <2> PICK d \in net : TunnelRecv(d)
    BY <1>4
  <2>1. Transmit(ackNet, Id(d)) \in SUBSET Ids
    BY DatagramParts, TransmitKeepsType
  <2> QED
    BY <2>1 DEF TunnelRecv
<1>5. CASE AckLoopFails \/ \E d \in net : AckSendFails(d)
  <2>1. CASE AckLoopFails
    BY <2>1 DEF AckLoopFails
  <2>2. CASE \E d \in net : AckSendFails(d)
    BY <2>2 DEF AckSendFails
  <2> QED
    BY <1>5, <2>1, <2>2
<1>6. CASE PushClientData
  <2>1. Head(rxHold) \in Datagrams
    BY <1>6, PopKeepsType DEF PushClientData
  <2>2. clientData' \in Seq(Datagrams) /\ Len(clientData') <= ClientDataCap
    BY <1>6, <2>1, PushKeepsType DEF PushClientData
  <2> QED
    BY <1>6, <2>2 DEF PushClientData
<1> QED
  BY <1>1, <1>2, <1>3, <1>4, <1>5, <1>6 DEF Tunnel

LEMMA NetworkKeepsTypes ==
  ASSUME TypeInv, Network
  PROVE  TypeInv'
<1> USE ConstantsAssumption
       DEF TypeInv, TypeOK, SendsInRange, readerVars, waiterVars, netVars, rxVars,
           mapVars, clientVars, ReaderStates, AckStates, ClientStates
<1>1. CASE \E d \in net : LoseDatagram(d)
  BY <1>1 DEF LoseDatagram
<1>2. CASE \E id \in ackNet : LoseAck(id)
  BY <1>2 DEF LoseAck
<1> QED
  BY <1>1, <1>2 DEF Network

LEMMA DispatcherKeepsTypes ==
  ASSUME TypeInv, Dispatcher
  PROVE  TypeInv'
<1> USE ConstantsAssumption
       DEF TypeInv, TypeOK, SendsInRange, readerVars, waiterVars, netVars, rxVars,
           mapVars, clientVars, ReaderStates, AckStates, ClientStates
<1>1. CASE SkipUnknown
  <2>1. /\ Head(clientData) \in Datagrams
        /\ Tail(clientData) \in Seq(Datagrams)
        /\ Len(Tail(clientData)) <= ClientDataCap
    BY <1>1, PopKeepsType DEF SkipUnknown
  <2> QED
    BY <1>1, <2>1 DEF SkipUnknown
<1>2. CASE FindClient
  <2>1. /\ Head(clientData) \in Datagrams
        /\ Tail(clientData) \in Seq(Datagrams)
        /\ Len(Tail(clientData)) <= ClientDataCap
    BY <1>2, PopKeepsType DEF FindClient
  <2> QED
    BY <1>2, <2>1 DEF FindClient
<1>3. CASE HandOver
  <2>1. Head(dispHold) \in Datagrams
    BY <1>3, PopKeepsType DEF HandOver
  <2>2. \A k \in Clients : k = Target =>
          /\ Append(clQueue[k], Head(dispHold)) \in Seq(Datagrams \cup {Close})
          /\ Len(Append(clQueue[k], Head(dispHold))) <= ClientCap
    BY <1>3, <2>1, PushKeepsType DEF HandOver
  <2>3. /\ clQueue' \in [Clients -> Seq(Datagrams \cup {Close})]
        /\ \A k \in Clients : Len(clQueue'[k]) <= ClientCap
    BY <1>3, <2>2 DEF HandOver
  <2>4. dispHold' \in Seq(Datagrams) /\ Len(dispHold') <= 1
    BY <1>3, EmptyChannel DEF HandOver
  <2> QED
    BY <1>3, <2>3, <2>4 DEF HandOver
<1>4. CASE HandOverFails
  BY <1>4 DEF HandOverFails
<1>5. CASE Cleanup
  <2>1. PICK told \in SUBSET Clients :
          /\ TellClose(told)
          /\ \A k \in told : HasRoom(clQueue[k], ClientCap)
    <3>1. PICK expired \in SUBSET {p \in Ports : inboundClients[p] # NoClient /\ Quiet(p)} :
            \E told \in SUBSET {inboundClients[p] : p \in expired} :
              /\ TellClose(told)
              /\ \A k \in told : HasRoom(clQueue[k], ClientCap)
      BY <1>5 DEF Cleanup
    <3>2. {inboundClients[p] : p \in expired} \subseteq Clients
      OBVIOUS
    <3> QED
      BY <3>1, <3>2
  <2>2. \A k \in told :
          /\ Append(clQueue[k], Close) \in Seq(Datagrams \cup {Close})
          /\ Len(Append(clQueue[k], Close)) <= ClientCap
    BY <2>1, PushKeepsType
  <2>3. /\ clQueue' \in [Clients -> Seq(Datagrams \cup {Close})]
        /\ \A k \in Clients : Len(clQueue'[k]) <= ClientCap
    BY <2>1, <2>2 DEF TellClose
  <2>4. inboundClients' \in [Ports -> Clients \cup {NoClient}] /\ cleanerAlive' \in BOOLEAN
    <3>1. \/ \E expired \in SUBSET Ports :
               inboundClients' = [p \in Ports |-> IF p \in expired THEN NoClient
                                                  ELSE inboundClients[p]]
          \/ UNCHANGED inboundClients
      BY <1>5 DEF Cleanup
    <3>2. cleanerAlive' = FALSE \/ cleanerAlive' = cleanerAlive
      BY <1>5 DEF Cleanup
    <3> QED
      BY <3>1, <3>2
  <2> QED
    <3>1. /\ UNCHANGED <<readerVars, waiterVars, toTunnel, txStopped, netVars, rxVars>>
          /\ UNCHANGED <<clientData, dispHold, clState, clPort, nextSequence, written>>
      BY <1>5 DEF Cleanup
    <3> QED
      BY <3>1, <2>3, <2>4
<1>6. CASE \E k \in Clients : SpawnClient(k)
  <2> PICK k \in Clients : SpawnClient(k)
    BY <1>6
  <2>1. /\ Head(clientData) \in Datagrams
        /\ Tail(clientData) \in Seq(Datagrams)
        /\ Len(Tail(clientData)) <= ClientDataCap
    BY PopKeepsType DEF SpawnClient
  <2>2. Head(clientData).port \in Ports
    BY <2>1, DatagramParts
  <2>3. /\ inboundClients' \in [Ports -> Clients \cup {NoClient}]
        /\ clPort' \in [Clients -> Ports \cup {NoPort}]
        /\ clState' \in [Clients -> ClientStates]
    BY <2>2 DEF SpawnClient
  <2>4. dispHold' \in Seq(Datagrams) /\ Len(dispHold') <= 1
    BY <2>1 DEF SpawnClient
  <2> QED
    BY <2>1, <2>3, <2>4 DEF SpawnClient
<1> QED
  BY <1>1, <1>2, <1>3, <1>4, <1>5, <1>6 DEF Dispatcher

\* What a writer leaves of its queue is still a queue.
LEMMA WriterPops ==
  ASSUME TypeOK, NEW k \in Clients, Writing(k), AfterIteration(k) \/ WriterEnds(k)
  PROVE  /\ clState' \in [Clients -> ClientStates]
         /\ clQueue' \in [Clients -> Seq(Datagrams \cup {Close})]
         /\ \A l \in Clients : Len(clQueue'[l]) <= ClientCap
<1>1. /\ Tail(clQueue[k]) \in Seq(Datagrams \cup {Close})
      /\ Len(Tail(clQueue[k])) <= ClientCap
  BY ConstantsAssumption, PopKeepsType DEF TypeOK, Writing
<1>2. <<>> \in Seq(Datagrams \cup {Close}) /\ Len(<<>>) <= ClientCap
  BY ConstantsAssumption, EmptyChannel
<1>3. clState' \in [Clients -> ClientStates]
  BY DEF TypeOK, AfterIteration, WriterEnds, ClientStates
<1>4. PICK rest \in Seq(Datagrams \cup {Close}) :
        /\ Len(rest) <= ClientCap
        /\ clQueue' = [clQueue EXCEPT ![k] = rest]
  BY <1>1, <1>2 DEF TypeOK, AfterIteration, WriterEnds
<1> QED
  BY <1>3, <1>4 DEF TypeOK

LEMMA ClientKeepsTypes ==
  ASSUME TypeInv, NEW k \in Clients, InboundClient(k)
  PROVE  TypeInv'
<1> USE ConstantsAssumption
       DEF TypeInv, TypeOK, SendsInRange, readerVars, waiterVars, netVars, rxVars,
           mapVars, clientVars, ReaderStates, AckStates, ClientStates
<1>1. CASE Connect(k)
  BY <1>1 DEF Connect
<1>2. CASE ConnectFails(k)
  <2>1. /\ <<>> \in Seq(Datagrams \cup {Close})
        /\ Len(<<>>) <= ClientCap
    BY EmptyChannel
  <2> QED
    BY <1>2, <2>1 DEF ConnectFails
<1>3. CASE WriteChunk(k)
  <2>1. Head(clQueue[k]) \in Datagrams
    <3>1. clQueue[k] \in Seq(Datagrams \cup {Close}) /\ clQueue[k] # <<>>
      BY <1>3 DEF WriteChunk, Writing
    <3>2. Head(clQueue[k]) \in Datagrams \cup {Close}
      BY <3>1
    <3> QED
      BY <1>3, <3>2 DEF WriteChunk
  <2>2. Head(clQueue[k]).chunk \in Chunks /\ nextSequence[k] \in Sequences
    BY <1>3, <2>1, DatagramParts DEF WriteChunk, InSequence
  <2>3. nextSequence[k] + 1 \in 0..MaxChunks
    BY <2>2 DEF Sequences
  <2>4. /\ written' \in [Clients -> Seq(Chunks)]
        /\ nextSequence' \in [Clients -> 0..MaxChunks]
    BY <1>3, <2>2, <2>3 DEF WriteChunk
  <2> QED
    BY <1>3, <2>4, WriterPops DEF WriteChunk
<1>4. CASE DropOutOfSequence(k)
  BY <1>4, WriterPops DEF DropOutOfSequence
<1>5. CASE WriteFails(k)
  BY <1>5, WriterPops DEF WriteFails
<1>6. CASE RecvClose(k)
  BY <1>6, WriterPops DEF RecvClose
<1>7. CASE ServerCloses(k)
  <2>1. /\ <<>> \in Seq(Datagrams \cup {Close})
        /\ Len(<<>>) <= ClientCap
    BY EmptyChannel
  <2>2. CASE clState[k] = "open"
    BY <1>7, <2>2 DEF ServerCloses
  <2>3. CASE clState[k] = "writerDone"
    <3>1. /\ clState' \in [Clients -> ClientStates]
          /\ clQueue' \in [Clients -> Seq(Datagrams \cup {Close})]
          /\ \A l \in Clients : Len(clQueue'[l]) <= ClientCap
      <4>1. clQueue' = [clQueue EXCEPT ![k] = <<>>] /\ clState' = [clState EXCEPT ![k] = "dead"]
        BY <1>7, <2>3 DEF ServerCloses
      <4> QED
        BY <4>1, <2>1
    <3> QED
      BY <1>7, <3>1 DEF ServerCloses
  <2> QED
    BY <1>7, <2>2, <2>3 DEF ServerCloses
<1> QED
  BY <1>1, <1>2, <1>3, <1>4, <1>5, <1>6, <1>7 DEF InboundClient

LEMMA StutterKeepsTypes ==
  ASSUME TypeInv, UNCHANGED vars
  PROVE  TypeInv'
BY DEF TypeInv, TypeOK, SendsInRange, vars, readerVars, waiterVars, netVars, rxVars,
       mapVars, clientVars

LEMMA NextKeepsTypes == TypeInv /\ [Next]_vars => TypeInv'
BY ReaderKeepsTypes, TunnelKeepsTypes, NetworkKeepsTypes, DispatcherKeepsTypes,
   ClientKeepsTypes, StutterKeepsTypes DEF Next

\* Every state keeps to its types: no channel over its capacity, no sequence
\* number of a chunk that was never read.
THEOREM TypeCorrect == Spec => []TypeOK
<1>1. TypeInv => TypeOK
  BY DEF TypeInv
<1> QED
  BY <1>1, InitTypeInv, NextKeepsTypes, PTL DEF Spec

-----------------------------------------------------------------------------
(***************************************************************************)
(* StreamPrefix. It is not inductive: that the chunk a writer takes next   *)
(* belongs to its connection rests on what is in its channel (QueuesOwn),  *)
(* which rests on which client the map names (MapOwn); that it is the next *)
(* one rests on the counter agreeing with what was written (WrittenOwn).   *)
(***************************************************************************)
QueuesOwn ==
  \A k \in Clients : \A i \in 1..Len(clQueue[k]) :
    clQueue[k][i] # Close => clQueue[k][i].port = clPort[k]

MapOwn ==
  \A p \in Ports : inboundClients[p] # NoClient =>
    /\ clPort[inboundClients[p]] = p
    /\ clState[inboundClients[p]] # "unused"

Spawned ==
  \A k \in Clients :
    /\ clState[k] = "unused" => /\ clQueue[k] = <<>>
                                /\ written[k] = <<>>
    /\ clState[k] # "unused" => \E c \in Conns : PortOf[c] = clPort[k]

WrittenOwn ==
  \A k \in Clients :
    /\ Len(written[k]) = nextSequence[k]
    /\ \A i \in 1..Len(written[k]) :
         /\ written[k][i][2] = i - 1
         /\ PortOf[written[k][i][1]] = clPort[k]

PrefixInv == TypeInv /\ QueuesOwn /\ MapOwn /\ Spawned /\ WrittenOwn

LEMMA InitPrefixInv == Init => PrefixInv
<1> SUFFICES ASSUME Init PROVE PrefixInv
  OBVIOUS
<1>1. \A k \in Clients : clQueue[k] = <<>> /\ written[k] = <<>> /\ nextSequence[k] = 0
  BY DEF Init
<1>2. Len(<<>>) = 0 /\ 1..0 = {}
  BY EmptyChannel
<1>3. QueuesOwn /\ Spawned /\ WrittenOwn
  BY <1>1, <1>2 DEF Init, QueuesOwn, Spawned, WrittenOwn
<1>4. MapOwn
  BY DEF Init, MapOwn
<1> QED
  BY <1>3, <1>4, InitTypeInv DEF PrefixInv

\* The invariant speaks of the map and of the clients only.
LEMMA ElsewhereKeepsPrefixInv ==
  ASSUME PrefixInv, TypeInv', UNCHANGED <<inboundClients, clientVars>>
  PROVE  PrefixInv'
BY DEF PrefixInv, QueuesOwn, MapOwn, Spawned, WrittenOwn, clientVars

LEMMA SpawnKeepsPrefixInv ==
  ASSUME PrefixInv, TypeInv', NEW k \in Clients, SpawnClient(k)
  PROVE  PrefixInv'
<1> DEFINE d == Head(clientData)
<1>1. d \in Datagrams
  BY PopKeepsType DEF PrefixInv, TypeInv, TypeOK, SpawnClient
<1>2. d.port \in Ports /\ \E c \in Conns : PortOf[c] = d.port
  BY <1>1, DatagramParts
<1>3. /\ clState[k] = "unused" /\ clQueue[k] = <<>> /\ written[k] = <<>>
      /\ \A p \in Ports : inboundClients[p] # k
  BY ConstantsAssumption DEF PrefixInv, Spawned, MapOwn, SpawnClient
<1>4. QueuesOwn' /\ WrittenOwn'
  <2>1. Len(<<>>) = 0 /\ 1..0 = {}
    BY EmptyChannel
  <2>2. \A l \in Clients : l # k => clPort'[l] = clPort[l]
    BY DEF SpawnClient, PrefixInv, TypeInv, TypeOK
  <2>3. UNCHANGED <<clQueue, nextSequence, written>>
    BY DEF SpawnClient
  <2> QED
    BY <1>3, <2>1, <2>2, <2>3 DEF PrefixInv, QueuesOwn, WrittenOwn
<1>5. MapOwn'
  BY <1>2, <1>3, ConstantsAssumption DEF SpawnClient, PrefixInv, MapOwn, TypeInv, TypeOK
<1>6. Spawned'
  BY <1>2, <1>3 DEF SpawnClient, PrefixInv, Spawned, TypeInv, TypeOK
<1> QED
  BY <1>4, <1>5, <1>6 DEF PrefixInv

\* What is put at the end of a queue is the only new thing in it.
LEMMA AppendAddsLast ==
  ASSUME NEW S, NEW q \in Seq(S), NEW x \in S, NEW i \in 1..Len(Append(q, x))
  PROVE  \/ i \in 1..Len(q) /\ Append(q, x)[i] = q[i]
         \/ i = Len(q) + 1 /\ Append(q, x)[i] = x
OBVIOUS

LEMMA HandOverKeepsPrefixInv ==
  ASSUME PrefixInv, TypeInv', HandOver
  PROVE  PrefixInv'
<1> DEFINE d == Head(dispHold)
<1>1. d \in Datagrams /\ d.port \in Ports
  BY PopKeepsType, DatagramParts DEF PrefixInv, TypeInv, TypeOK, HandOver
<1>2. UNCHANGED <<inboundClients, clState, clPort, nextSequence, written>>
  BY DEF HandOver, mapVars
<1>3. CASE Target = NoClient
  <2>1. UNCHANGED clQueue
    BY <1>3, ConstantsAssumption DEF HandOver, PrefixInv, TypeInv, TypeOK
  <2> QED
    BY <1>2, <2>1, ElsewhereKeepsPrefixInv DEF clientVars
<1>4. CASE Target # NoClient
  <2>1. Target \in Clients /\ clPort[Target] = d.port /\ clState[Target] # "unused"
    BY <1>1, <1>4 DEF Target, PrefixInv, MapOwn, TypeInv, TypeOK
  <2>2. clQueue' = [clQueue EXCEPT ![Target] = Append(@, d)]
    BY DEF HandOver
  <2>3. clQueue \in [Clients -> Seq(Datagrams \cup {Close})]
    BY DEF PrefixInv, TypeInv, TypeOK
  <2>4. QueuesOwn'
    <3> SUFFICES ASSUME NEW k \in Clients, NEW i \in 1..Len(clQueue'[k]), clQueue'[k][i] # Close
                 PROVE  clQueue'[k][i].port = clPort[k]
      BY <1>2 DEF QueuesOwn
    <3>1. CASE k = Target
      <4>1. \/ i \in 1..Len(clQueue[k]) /\ clQueue'[k][i] = clQueue[k][i]
            \/ clQueue'[k][i] = d
        BY <3>1, <1>1, <2>2, <2>3, AppendAddsLast
      <4> QED
        BY <3>1, <2>1, <4>1 DEF PrefixInv, QueuesOwn
    <3>2. CASE k # Target
      BY <3>2, <2>2, <2>3 DEF PrefixInv, QueuesOwn
    <3> QED
      BY <3>1, <3>2
  <2>5. Spawned'
    BY <1>2, <2>1, <2>2, <2>3 DEF PrefixInv, Spawned
  <2>6. MapOwn' /\ WrittenOwn'
    BY <1>2 DEF PrefixInv, MapOwn, WrittenOwn
  <2> QED
    BY <2>4, <2>5, <2>6 DEF PrefixInv
<1> QED
  BY <1>3, <1>4

LEMMA CleanupKeepsPrefixInv ==
  ASSUME PrefixInv, TypeInv', Cleanup
  PROVE  PrefixInv'
<1>1. UNCHANGED <<clState, clPort, nextSequence, written>>
  BY DEF Cleanup
<1>2. \A p \in Ports : inboundClients'[p] # NoClient => inboundClients'[p] = inboundClients[p]
  <2>1. \/ \E expired \in SUBSET Ports :
             inboundClients' = [p \in Ports |-> IF p \in expired THEN NoClient
                                                ELSE inboundClients[p]]
        \/ UNCHANGED inboundClients
    BY DEF Cleanup
  <2> QED
    BY <2>1
<1>3. PICK told \in SUBSET Clients :
        /\ TellClose(told)
        /\ \A k \in told : clState[k] # "unused"
  <2>1. PICK expired \in SUBSET {p \in Ports : inboundClients[p] # NoClient} :
          \E told \in SUBSET {inboundClients[p] : p \in expired} : TellClose(told)
    BY DEF Cleanup
  <2>2. \A p \in expired : inboundClients[p] \in Clients /\ clState[inboundClients[p]] # "unused"
    BY DEF PrefixInv, MapOwn, TypeInv, TypeOK
  <2> QED
    BY <2>1, <2>2
<1>4. \A k \in Clients : clQueue[k] \in Seq(Datagrams \cup {Close})
  BY DEF PrefixInv, TypeInv, TypeOK
<1>5. QueuesOwn'
  <2> SUFFICES ASSUME NEW k \in Clients, NEW i \in 1..Len(clQueue'[k]), clQueue'[k][i] # Close
               PROVE  clQueue'[k][i].port = clPort[k]
    BY <1>1 DEF QueuesOwn
  <2>1. clQueue'[k] = clQueue[k] \/ clQueue'[k] = Append(clQueue[k], Close)
    BY <1>3 DEF TellClose
  <2>2. i \in 1..Len(clQueue[k]) /\ clQueue'[k][i] = clQueue[k][i]
    BY <2>1, <1>4, AppendAddsLast
  <2> QED
    BY <2>2 DEF PrefixInv, QueuesOwn
<1>6. Spawned'
  BY <1>1, <1>3 DEF PrefixInv, Spawned, TellClose
<1>7. MapOwn' /\ WrittenOwn'
  BY <1>1, <1>2 DEF PrefixInv, MapOwn, WrittenOwn
<1> QED
  BY <1>5, <1>6, <1>7 DEF PrefixInv

\* A client's queue only ever gets shorter at its head, or is dropped.
LEMMA ShorterKeepsQueuesOwn ==
  ASSUME PrefixInv, NEW k \in Clients, UNCHANGED clPort,
         \/ UNCHANGED clQueue
         \/ clQueue' = [clQueue EXCEPT ![k] = <<>>]
         \/ clQueue[k] # <<>> /\ clQueue' = [clQueue EXCEPT ![k] = Tail(@)]
  PROVE  QueuesOwn'
<1>1. clQueue \in [Clients -> Seq(Datagrams \cup {Close})]
  BY DEF PrefixInv, TypeInv, TypeOK
<1> SUFFICES ASSUME NEW l \in Clients, NEW i \in 1..Len(clQueue'[l]), clQueue'[l][i] # Close
             PROVE  clQueue'[l][i].port = clPort[l]
  BY DEF QueuesOwn
<1>2. \/ i \in 1..Len(clQueue[l]) /\ clQueue'[l][i] = clQueue[l][i]
      \/ i + 1 \in 1..Len(clQueue[l]) /\ clQueue'[l][i] = clQueue[l][i + 1]
  <2>1. CASE clQueue'[l] = clQueue[l]
    BY <2>1
  <2>2. CASE clQueue'[l] = <<>>
    BY <2>2, EmptyChannel
  <2>3. CASE clQueue[l] # <<>> /\ clQueue'[l] = Tail(clQueue[l])
    <3>1. clQueue[l] \in Seq(Datagrams \cup {Close})
      BY <1>1
    <3> QED
      BY <2>3, <3>1
  <2> QED
    BY <1>1, <2>1, <2>2, <2>3
<1> QED
  BY <1>2 DEF PrefixInv, QueuesOwn

\* A step of a client that writes nothing.
LEMMA IdleClientKeepsPrefixInv ==
  ASSUME PrefixInv, TypeInv', NEW k \in Clients,
         UNCHANGED <<inboundClients, clPort, nextSequence, written>>,
         clState[k] # "unused",
         \E s \in ClientStates \ {"unused"} : clState' = [clState EXCEPT ![k] = s],
         \/ UNCHANGED clQueue
         \/ clQueue' = [clQueue EXCEPT ![k] = <<>>]
         \/ clQueue[k] # <<>> /\ clQueue' = [clQueue EXCEPT ![k] = Tail(@)]
  PROVE  PrefixInv'
<1>1. QueuesOwn'
  BY ShorterKeepsQueuesOwn
<1>2. MapOwn' /\ WrittenOwn'
  BY DEF PrefixInv, MapOwn, WrittenOwn, TypeInv, TypeOK
<1>3. Spawned'
  BY DEF PrefixInv, Spawned, TypeInv, TypeOK
<1> QED
  BY <1>1, <1>2, <1>3 DEF PrefixInv

\* How an iteration of the writing half leaves the client, in any case.
LEMMA IterationShape ==
  ASSUME TypeOK, NEW k \in Clients, Writing(k), AfterIteration(k) \/ WriterEnds(k)
  PROVE  /\ clState[k] # "unused" /\ clQueue[k] # <<>>
         /\ \E s \in ClientStates \ {"unused"} : clState' = [clState EXCEPT ![k] = s]
         /\ \/ clQueue' = [clQueue EXCEPT ![k] = <<>>]
            \/ clQueue' = [clQueue EXCEPT ![k] = Tail(@)]
<1>1. clState[k] \in {"open", "halfClosed"} /\ clQueue[k] # <<>>
  BY DEF Writing
<1>2. \E s \in ClientStates \ {"unused"} : clState' = [clState EXCEPT ![k] = s]
  BY <1>1 DEF AfterIteration, WriterEnds, ClientStates
<1> QED
  BY <1>1, <1>2 DEF AfterIteration, WriterEnds

LEMMA WriteKeepsPrefixInv ==
  ASSUME PrefixInv, TypeInv', NEW k \in Clients, WriteChunk(k)
  PROVE  PrefixInv'
<1> DEFINE d == Head(clQueue[k])
<1>1. TypeOK /\ Writing(k) /\ AfterIteration(k) /\ d # Close /\ InSequence(d, k)
  BY DEF WriteChunk, PrefixInv, TypeInv
<1>2. UNCHANGED <<inboundClients, clPort>>
  BY DEF WriteChunk, mapVars
<1>3. clQueue[k] \in Seq(Datagrams \cup {Close}) /\ clQueue[k] # <<>>
  BY <1>1 DEF TypeOK, Writing
<1>4. d \in Datagrams /\ d.port = clPort[k]
  <2>1. d \in Datagrams \cup {Close} /\ d = clQueue[k][1] /\ 1 \in 1..Len(clQueue[k])
    BY <1>3
  <2> QED
    BY <1>1, <2>1 DEF PrefixInv, QueuesOwn
<1>5. /\ d.chunk \in Chunks
      /\ d.chunk[2] = nextSequence[k]
      /\ PortOf[d.chunk[1]] = clPort[k]
  BY <1>1, <1>4, DatagramParts DEF InSequence
<1>6. QueuesOwn'
  BY <1>1, <1>2, IterationShape, ShorterKeepsQueuesOwn
<1>7. MapOwn' /\ Spawned'
  <2>1. PICK s \in ClientStates \ {"unused"} : clState' = [clState EXCEPT ![k] = s]
    BY <1>1, IterationShape
  <2>2. \A l \in Clients : (clState'[l] = "unused") = (clState[l] = "unused")
    BY <1>1, <2>1 DEF Writing, TypeOK
  <2>3. MapOwn'
    BY <1>1, <1>2, <2>1 DEF PrefixInv, MapOwn, TypeOK
  <2>4. \A l \in Clients : clState[l] = "unused" => clQueue'[l] = clQueue[l] /\ written'[l] = written[l]
    BY <1>1, IterationShape DEF WriteChunk, TypeOK
  <2>5. Spawned'
    BY <1>2, <2>2, <2>4 DEF PrefixInv, Spawned
  <2> QED
    BY <2>3, <2>5
<1>8. WrittenOwn'
  <2>1. /\ written \in [Clients -> Seq(Chunks)]
        /\ nextSequence \in [Clients -> 0..MaxChunks]
    BY <1>1 DEF TypeOK
  <2>2. /\ written' = [written EXCEPT ![k] = Append(@, d.chunk)]
        /\ nextSequence' = [nextSequence EXCEPT ![k] = @ + 1]
    BY DEF WriteChunk
  <2> SUFFICES ASSUME NEW l \in Clients
               PROVE  /\ Len(written'[l]) = nextSequence'[l]
                      /\ \A i \in 1..Len(written'[l]) :
                           /\ written'[l][i][2] = i - 1
                           /\ PortOf[written'[l][i][1]] = clPort[l]
    BY <1>2 DEF WrittenOwn
  <2>3. CASE l # k
    BY <2>1, <2>2, <2>3 DEF PrefixInv, WrittenOwn
  <2>4. CASE l = k
    <3>1. Len(written[k]) = nextSequence[k]
      BY DEF PrefixInv, WrittenOwn
    <3>2. written[k] \in Seq(Chunks) /\ written'[k] = Append(written[k], d.chunk)
      BY <2>1, <2>2
    <3>3. Len(written'[k]) = nextSequence'[k]
      BY <2>1, <2>2, <3>1, <3>2, <1>5
    <3>4. \A i \in 1..Len(written'[k]) :
            \/ i \in 1..Len(written[k]) /\ written'[k][i] = written[k][i]
            \/ i = Len(written[k]) + 1 /\ written'[k][i] = d.chunk
      BY <1>5, <3>2, AppendAddsLast
    <3>5. \A i \in 1..Len(written[k]) :
            /\ written[k][i][2] = i - 1
            /\ PortOf[written[k][i][1]] = clPort[k]
      BY DEF PrefixInv, WrittenOwn
    <3>6. Len(written[k]) + 1 - 1 = nextSequence[k]
      BY <3>1, <2>1
    <3>7. ASSUME NEW i \in 1..Len(written'[k])
          PROVE  /\ written'[k][i][2] = i - 1
                 /\ PortOf[written'[k][i][1]] = clPort[k]
      BY <3>4, <3>5, <3>6, <1>5
    <3> QED
      BY <2>4, <3>3, <3>7
  <2> QED
    BY <2>3, <2>4
<1> QED
  BY <1>6, <1>7, <1>8 DEF PrefixInv

LEMMA ClientKeepsPrefixInv ==
  ASSUME PrefixInv, TypeInv', NEW k \in Clients, InboundClient(k)
  PROVE  PrefixInv'
<1> USE DEF mapVars
<1>0. TypeOK
  BY DEF PrefixInv, TypeInv
<1>1. CASE Connect(k)
  BY <1>1, IdleClientKeepsPrefixInv DEF Connect, ClientStates
<1>2. CASE ConnectFails(k)
  BY <1>2, IdleClientKeepsPrefixInv DEF ConnectFails, ClientStates
<1>3. CASE WriteChunk(k)
  BY <1>3, WriteKeepsPrefixInv
<1>4. CASE DropOutOfSequence(k)
  <2>1. Writing(k) /\ AfterIteration(k)
    BY <1>4 DEF DropOutOfSequence
  <2> QED
    BY <1>0, <1>4, <2>1, IterationShape, IdleClientKeepsPrefixInv DEF DropOutOfSequence
<1>5. CASE WriteFails(k)
  <2>1. Writing(k) /\ WriterEnds(k)
    BY <1>5 DEF WriteFails
  <2> QED
    BY <1>0, <1>5, <2>1, IterationShape, IdleClientKeepsPrefixInv DEF WriteFails
<1>6. CASE RecvClose(k)
  <2>1. Writing(k) /\ WriterEnds(k)
    BY <1>6 DEF RecvClose
  <2> QED
    BY <1>0, <1>6, <2>1, IterationShape, IdleClientKeepsPrefixInv DEF RecvClose
<1>7. CASE ServerCloses(k)
  BY <1>7, IdleClientKeepsPrefixInv DEF ServerCloses, ClientStates
<1> QED
  BY <1>1, <1>2, <1>3, <1>4, <1>5, <1>6, <1>7 DEF InboundClient

\* Which steps touch neither the map nor a client.
LEMMA StepsElsewhere ==
  ASSUME \/ \E c \in Conns : Reader(c)
         \/ Tunnel \/ Network
         \/ SkipUnknown \/ FindClient \/ HandOverFails
         \/ UNCHANGED vars
  PROVE  UNCHANGED <<inboundClients, clientVars>>
BY DEF Reader, Accept, ReadChunk, ReaderStops, AckObserved, Resend, AwaitRoom, SendFails, WaiterRecv,
       Tunnel, TunnelSend, TunnelSendFails, AckLoopFails, AckRecv, TunnelRecv, AckSendFails,
       PushClientData,
       Network, LoseDatagram, LoseAck, SkipUnknown, FindClient, HandOverFails, vars, mapVars

LEMMA NextKeepsPrefixInv == PrefixInv /\ [Next]_vars => PrefixInv'
<1> SUFFICES ASSUME PrefixInv, [Next]_vars PROVE PrefixInv'
  OBVIOUS
<1>1. TypeInv'
  BY NextKeepsTypes DEF PrefixInv
<1>2. CASE \/ \E c \in Conns : Reader(c)
           \/ Tunnel \/ Network
           \/ SkipUnknown \/ FindClient \/ HandOverFails
           \/ UNCHANGED vars
  BY <1>1, <1>2, StepsElsewhere, ElsewhereKeepsPrefixInv
<1>3. CASE \E k \in Clients : SpawnClient(k)
  BY <1>1, <1>3, SpawnKeepsPrefixInv
<1>4. CASE HandOver
  BY <1>1, <1>4, HandOverKeepsPrefixInv
<1>5. CASE Cleanup
  BY <1>1, <1>5, CleanupKeepsPrefixInv
<1>6. CASE \E k \in Clients : InboundClient(k)
  BY <1>1, <1>6, ClientKeepsPrefixInv
<1> QED
  BY <1>2, <1>3, <1>4, <1>5, <1>6 DEF Next, Dispatcher

LEMMA PrefixInvSuffices ==
  ASSUME OnePortEach, PrefixInv
  PROVE  StreamPrefix
<1> SUFFICES ASSUME NEW k \in Clients, clState[k] # "unused"
             PROVE  \E c \in Conns :
                      /\ PortOf[c] = clPort[k]
                      /\ written[k] = [i \in 1..Len(written[k]) |-> <<c, i - 1>>]
  BY DEF StreamPrefix
<1>1. PICK c \in Conns : PortOf[c] = clPort[k]
  BY DEF PrefixInv, Spawned
<1>2. written[k] \in Seq(Chunks)
  BY DEF PrefixInv, TypeInv, TypeOK
<1>3. ASSUME NEW i \in 1..Len(written[k])
      PROVE  written[k][i] = <<c, i - 1>>
  <2>1. written[k][i] \in Conns \X Sequences
    BY <1>2 DEF Chunks
  <2>2. written[k][i][2] = i - 1 /\ PortOf[written[k][i][1]] = clPort[k]
    BY DEF PrefixInv, WrittenOwn
  <2>3. written[k][i][1] = c
    BY <1>1, <2>1, <2>2 DEF OnePortEach
  <2> QED
    BY <2>1, <2>2, <2>3
<1>4. written[k] = [i \in 1..Len(written[k]) |-> written[k][i]]
  BY <1>2
<1> QED
  BY <1>1, <1>3, <1>4

\* As long as no two connections come from the same port, whatever is lost,
\* duplicated, reordered, refused, closed or cleaned up, a server reads the
\* beginning of the stream one application wrote, and nothing else.
THEOREM StreamPrefixHolds ==
  ASSUME OnePortEach
  PROVE  Spec => []StreamPrefix
<1>1. PrefixInv => StreamPrefix
  BY PrefixInvSuffices
<1> QED
  BY <1>1, InitPrefixInv, NextKeepsPrefixInv, PTL DEF Spec

-----------------------------------------------------------------------------
(***************************************************************************)
(* TcpUpload implements ByteStream when the cleanup never runs. Beyond     *)
(* PrefixInv this takes that no datagram on its way is ahead of what its   *)
(* reader has sent (NothingEarly), and that every client is still the one  *)
(* the map names for its port (MapComplete).                               *)
(***************************************************************************)
Contains(q, d) == \E i \in 1..Len(q) : q[i] = d

OnItsWay(d) ==
  \/ d \in net
  \/ Contains(toTunnel, d) \/ Contains(rxHold, d) \/ Contains(clientData, d) \/ Contains(dispHold, d)
  \/ \E k \in Clients : Contains(clQueue[k], d)

NothingEarly == \A d \in Datagrams : OnItsWay(d) => d.sequence < Sent(d.chunk[1])

MapComplete ==
  \A k \in Clients : clState[k] # "unused" => inboundClients[clPort[k]] = k

StreamInv == PrefixInv /\ NothingEarly /\ MapComplete

LEMMA ContainsTail ==
  ASSUME NEW S, NEW q \in Seq(S), q # <<>>, NEW d, Contains(Tail(q), d)
  PROVE  Contains(q, d)
<1>1. PICK i \in 1..Len(Tail(q)) : Tail(q)[i] = d
  BY DEF Contains
<1>2. i + 1 \in 1..Len(q) /\ q[i + 1] = d
  BY <1>1
<1> QED
  BY <1>2 DEF Contains

LEMMA ContainsHead ==
  ASSUME NEW S, NEW q \in Seq(S), q # <<>>
  PROVE  Contains(q, Head(q))
<1>1. 1 \in 1..Len(q) /\ q[1] = Head(q)
  OBVIOUS
<1> QED
  BY <1>1 DEF Contains

LEMMA ContainsAppend ==
  ASSUME NEW S, NEW q \in Seq(S), NEW x \in S, NEW d, Contains(Append(q, x), d)
  PROVE  Contains(q, d) \/ d = x
BY AppendAddsLast DEF Contains

LEMMA ContainsOne ==
  ASSUME NEW x, NEW d, Contains(<<x>>, d)
  PROVE  d = x
BY DEF Contains

LEMMA ContainsNone ==
  ASSUME NEW d
  PROVE  ~Contains(<<>>, d)
<1>1. Len(<<>>) = 0 /\ 1..0 = {}
  BY EmptyChannel
<1> QED
  BY <1>1 DEF Contains

\* A step brings no datagram onto the way but a copy of the chunk a reader is
\* sending.
LEMMA OnlyReadersSend ==
  ASSUME TypeInv, [Next]_vars, NEW d \in Datagrams, OnItsWay(d)'
  PROVE  \/ OnItsWay(d)
         \/ \E c \in Conns : Resend(c) /\ d = ClientDataDatagram(c, sequence[c])
<1> USE DEF OnItsWay, readerVars, waiterVars, netVars, rxVars, mapVars, clientVars
<1>0. /\ toTunnel \in Seq(Datagrams) /\ rxHold \in Seq(Datagrams)
      /\ clientData \in Seq(Datagrams) /\ dispHold \in Seq(Datagrams)
      /\ clQueue \in [Clients -> Seq(Datagrams \cup {Close})]
      /\ d # Close
  BY DatagramParts DEF TypeInv, TypeOK
<1>1. CASE \E c \in Conns : Reader(c)
  <2> PICK c \in Conns : Reader(c)
    BY <1>1
  <2>1. CASE Resend(c)
    <3>1. sequence[c] \in Sequences
      BY <2>1, ConstantsAssumption DEF Resend, Sends, Sequences, TypeInv, TypeOK, SendsInRange
    <3>2. ClientDataDatagram(c, sequence[c]) \in Datagrams
      BY <3>1, DatagramShape
    <3>3. Contains(toTunnel', d) => Contains(toTunnel, d) \/ d = ClientDataDatagram(c, sequence[c])
      BY <1>0, <2>1, <3>2, ContainsAppend DEF Resend
    <3> QED
      BY <2>1, <3>3 DEF Resend, Contains
  <2>2. CASE ~Resend(c)
    BY <2>2 DEF Reader, Accept, ReadChunk, ReaderStops, AckObserved, AwaitRoom, SendFails, WaiterRecv
  <2> QED
    BY <2>1, <2>2
<1>2. CASE Tunnel
  <2>1. CASE TunnelSend
    <3>1. Contains(toTunnel', d) => Contains(toTunnel, d)
      BY <1>0, <2>1, ContainsTail DEF TunnelSend
    <3>2. d \in net' => d \in net \/ Contains(toTunnel, d)
      BY <1>0, <2>1, ContainsHead DEF TunnelSend, Transmit
    <3> QED
      BY <2>1, <3>1, <3>2 DEF TunnelSend
  <2>2. CASE TunnelSendFails
    <3>1. Contains(toTunnel', d) => Contains(toTunnel, d)
      BY <1>0, <2>2, ContainsTail DEF TunnelSendFails
    <3> QED
      BY <2>2, <3>1 DEF TunnelSendFails
  <2>3. CASE \E id \in ackNet : AckRecv(id)
    BY <2>3 DEF AckRecv
  <2>4. CASE \E e \in net : TunnelRecv(e)
    <3> PICK e \in net : TunnelRecv(e)
      BY <2>4
    <3>1. Contains(rxHold', d) => d \in net
      BY ContainsOne DEF TunnelRecv
    <3> QED
      BY <3>1 DEF TunnelRecv
  <2>5. CASE AckLoopFails \/ \E e \in net : AckSendFails(e)
    BY <2>5 DEF AckLoopFails, AckSendFails
  <2>6. CASE PushClientData
    <3>1. Head(rxHold) \in Datagrams /\ Contains(rxHold, Head(rxHold))
      BY <1>0, <2>6, PopKeepsType, ContainsHead DEF PushClientData, TypeInv, TypeOK
    <3>2. Contains(clientData', d) => Contains(clientData, d) \/ d = Head(rxHold)
      BY <1>0, <2>6, <3>1, ContainsAppend DEF PushClientData
    <3>3. ~Contains(rxHold', d)
      BY <2>6, ContainsNone DEF PushClientData
    <3> QED
      BY <2>6, <3>1, <3>2, <3>3 DEF PushClientData
  <2> QED
    BY <1>2, <2>1, <2>2, <2>3, <2>4, <2>5, <2>6 DEF Tunnel
<1>3. CASE Network
  BY <1>3 DEF Network, LoseDatagram, LoseAck
<1>4. CASE Dispatcher
  <2>1. CASE SkipUnknown
    <3>1. Contains(clientData', d) => Contains(clientData, d)
      BY <1>0, <2>1, ContainsTail DEF SkipUnknown
    <3> QED
      BY <2>1, <3>1 DEF SkipUnknown
  <2>2. CASE FindClient \/ \E k \in Clients : SpawnClient(k)
    <3>1. /\ clientData # <<>> /\ clientData' = Tail(clientData)
          /\ dispHold' = <<Head(clientData)>>
          /\ UNCHANGED <<toTunnel, net, rxHold, clQueue>>
      BY <2>2 DEF FindClient, SpawnClient
    <3>2. Contains(clientData', d) => Contains(clientData, d)
      BY <1>0, <3>1, ContainsTail
    <3>3. Contains(dispHold', d) => Contains(clientData, d)
      BY <1>0, <3>1, ContainsOne, ContainsHead
    <3> QED
      BY <3>1, <3>2, <3>3
  <2>3. CASE HandOver
    <3>1. Head(dispHold) \in Datagrams /\ Contains(dispHold, Head(dispHold))
      BY <1>0, <2>3, PopKeepsType, ContainsHead DEF HandOver, TypeInv, TypeOK
    <3>2. ~Contains(dispHold', d)
      BY <2>3, ContainsNone DEF HandOver
    <3>3. ASSUME NEW k \in Clients, Contains(clQueue'[k], d)
          PROVE  Contains(clQueue[k], d) \/ d = Head(dispHold)
      <4>1. clQueue[k] \in Seq(Datagrams \cup {Close})
        BY <1>0
      <4>2. clQueue'[k] = clQueue[k] \/ clQueue'[k] = Append(clQueue[k], Head(dispHold))
        BY <1>0, <2>3 DEF HandOver
      <4>3. CASE clQueue'[k] = Append(clQueue[k], Head(dispHold))
        <5>1. Contains(Append(clQueue[k], Head(dispHold)), d)
          BY <3>3, <4>3
        <5>2. Head(dispHold) \in Datagrams \cup {Close}
          BY <3>1
        <5> QED
          BY <4>1, <5>1, <5>2, ContainsAppend
      <4> QED
        BY <3>3, <4>2, <4>3
    <3> QED
      BY <2>3, <3>1, <3>2, <3>3 DEF HandOver
  <2>4. CASE HandOverFails
    <3>1. ~Contains(dispHold', d)
      BY <2>4, ContainsNone DEF HandOverFails
    <3> QED
      BY <2>4, <3>1 DEF HandOverFails
  <2>5. CASE Cleanup
    <3>1. PICK told : TellClose(told)
      BY <2>5 DEF Cleanup
    <3>2. ASSUME NEW k \in Clients, Contains(clQueue'[k], d)
          PROVE  Contains(clQueue[k], d)
      <4>1. clQueue[k] \in Seq(Datagrams \cup {Close})
        BY <1>0
      <4>2. clQueue'[k] = clQueue[k] \/ clQueue'[k] = Append(clQueue[k], Close)
        BY <3>1 DEF TellClose
      <4>3. CASE clQueue'[k] = Append(clQueue[k], Close)
        <5>1. Contains(Append(clQueue[k], Close), d)
          BY <3>2, <4>3
        <5>2. Close \in Datagrams \cup {Close}
          OBVIOUS
        <5> QED
          BY <1>0, <4>1, <5>1, <5>2, ContainsAppend
      <4> QED
        BY <3>2, <4>2, <4>3
    <3> QED
      BY <2>5, <3>2 DEF Cleanup
  <2> QED
    BY <1>4, <2>1, <2>2, <2>3, <2>4, <2>5 DEF Dispatcher
<1>5. CASE \E k \in Clients : InboundClient(k)
  <2> PICK k \in Clients : InboundClient(k)
    BY <1>5
  <2>1. UNCHANGED <<toTunnel, net, rxHold, clientData, dispHold>>
    BY DEF InboundClient, Connect, ConnectFails, WriteChunk, DropOutOfSequence, WriteFails,
           RecvClose, ServerCloses
  <2>2. \/ UNCHANGED clQueue
        \/ clQueue' = [clQueue EXCEPT ![k] = <<>>]
        \/ clQueue[k] # <<>> /\ clQueue' = [clQueue EXCEPT ![k] = Tail(@)]
    BY IterationShape
    DEF InboundClient, Connect, ConnectFails, WriteChunk, DropOutOfSequence, WriteFails,
        RecvClose, ServerCloses, TypeInv
  <2>3. ASSUME NEW l \in Clients, Contains(clQueue'[l], d)
        PROVE  Contains(clQueue[l], d)
    <3>1. \/ clQueue'[l] = clQueue[l]
          \/ clQueue'[l] = <<>>
          \/ clQueue[l] # <<>> /\ clQueue'[l] = Tail(clQueue[l])
      BY <1>0, <2>2
    <3>2. clQueue[l] \in Seq(Datagrams \cup {Close})
      BY <1>0
    <3> QED
      BY <2>3, <3>1, <3>2, ContainsTail, ContainsNone
  <2> QED
    BY <2>1, <2>3
<1>6. CASE UNCHANGED vars
  BY <1>6 DEF vars
<1> QED
  BY <1>1, <1>2, <1>3, <1>4, <1>5, <1>6 DEF Next

\* What a reader has sent is never taken back, and only reading a chunk adds to it.
LEMMA SentGrows ==
  ASSUME TypeInv, [Next]_vars, NEW c \in Conns
  PROVE  /\ Sent(c) \in Nat
         /\ \/ Sent(c)' = Sent(c)
            \/ Sent(c)' = Sent(c) + 1 /\ ReadChunk(c)
<1> USE DEF Sent
<1>0. sequence[c] \in Nat /\ readerState \in [Conns -> ReaderStates] /\ sequence \in [Conns -> 0..MaxChunks]
  BY ConstantsAssumption DEF TypeInv, TypeOK
<1>1. CASE \E e \in Conns : Reader(e)
  <2> PICK e \in Conns : Reader(e)
    BY <1>1
  <2>1. CASE ReadChunk(e)
    <3>1. /\ readerState[e] = "read" /\ sequence' = sequence
          /\ readerState' = [readerState EXCEPT ![e] = "tick"]
      BY <2>1 DEF ReadChunk
    <3>2. CASE c = e
      <4>1. Sent(c) = sequence[c] /\ Sent(c)' = sequence[c] + 1
        BY <1>0, <3>1, <3>2
      <4> QED
        BY <1>0, <2>1, <3>2, <4>1
    <3>3. CASE c # e
      BY <1>0, <3>1, <3>3
    <3> QED
      BY <3>2, <3>3
  <2>2. CASE AckObserved(e)
    BY <1>0, <2>2 DEF AckObserved
  <2>3. CASE Accept(e) \/ ReaderStops(e) \/ Resend(e) \/ AwaitRoom(e)
           \/ SendFails(e) \/ WaiterRecv(e)
    BY <1>0, <2>3 DEF Accept, ReaderStops, Sends, Resend, AwaitRoom, SendFails, WaiterRecv, readerVars
  <2> QED
    BY <2>1, <2>2, <2>3 DEF Reader
<1>2. CASE UNCHANGED <<readerState, sequence>>
  BY <1>0, <1>2
<1>3. Tunnel \/ Network \/ Dispatcher \/ (\E k \in Clients : InboundClient(k)) \/ UNCHANGED vars
        => UNCHANGED <<readerState, sequence>>
  BY DEF readerVars, vars, Tunnel, TunnelSend, TunnelSendFails, AckLoopFails, AckRecv, TunnelRecv,
         AckSendFails, PushClientData, Network, LoseDatagram, LoseAck, Dispatcher, SkipUnknown, FindClient,
         SpawnClient, HandOver, HandOverFails, Cleanup, InboundClient, Connect, ConnectFails,
         WriteChunk, DropOutOfSequence, WriteFails, RecvClose, ServerCloses
<1> QED
  BY <1>1, <1>2, <1>3 DEF Next

LEMMA NothingEarlyStep ==
  ASSUME TypeInv, NothingEarly, [Next]_vars
  PROVE  NothingEarly'
<1> SUFFICES ASSUME NEW d \in Datagrams, OnItsWay(d)'
             PROVE  d.sequence < Sent(d.chunk[1])'
  BY DEF NothingEarly
<1> DEFINE c == d.chunk[1]
<1>1. c \in Conns /\ d.sequence \in Nat
  BY DatagramParts DEF Sequences
<1>2. d.sequence < Sent(c)
  <2>1. CASE OnItsWay(d)
    BY <2>1 DEF NothingEarly
  <2>2. CASE \E e \in Conns : Resend(e) /\ d = ClientDataDatagram(e, sequence[e])
    <3> PICK e \in Conns : Resend(e) /\ d = ClientDataDatagram(e, sequence[e])
      BY <2>2
    <3>1. c = e /\ d.sequence = sequence[e] /\ readerState[e] \in {"tick", "push"}
      BY DEF ClientDataDatagram, Resend, Sends
    <3>2. Sent(c) = d.sequence + 1
      BY <3>1 DEF Sent
    <3> QED
      BY <1>1, <3>2
  <2> QED
    BY <2>1, <2>2, OnlyReadersSend
<1>3. Sent(c) \in Nat /\ (Sent(c)' = Sent(c) \/ Sent(c)' = Sent(c) + 1)
  BY <1>1, SentGrows
<1> QED
  BY <1>1, <1>2, <1>3

LEMMA MapCompleteStep ==
  ASSUME "cleanup" \notin Faults, PrefixInv, MapComplete, [Next]_vars
  PROVE  MapComplete'
<1>0. TypeOK
  BY DEF PrefixInv, TypeInv
<1>1. CASE \E k \in Clients : SpawnClient(k)
  <2> PICK k \in Clients : SpawnClient(k)
    BY <1>1
  <2> DEFINE p == Head(clientData).port
  <2>1. p \in Ports
    BY <1>0, PopKeepsType, DatagramParts DEF TypeOK, SpawnClient
  <2>2. /\ inboundClients[p] = NoClient
        /\ inboundClients' = [inboundClients EXCEPT ![p] = k]
        /\ clState' = [clState EXCEPT ![k] = "connecting"]
        /\ clPort' = [clPort EXCEPT ![k] = p]
    BY DEF SpawnClient, MakesClient
  <2>3. \A l \in Clients : clState[l] # "unused" => clPort[l] # p
    BY <2>2, ConstantsAssumption DEF MapComplete
  <2>4. inboundClients \in [Ports -> Clients \cup {NoClient}]
        /\ clState \in [Clients -> ClientStates] /\ clPort \in [Clients -> Ports \cup {NoPort}]
    BY <1>0 DEF TypeOK
  <2> SUFFICES ASSUME NEW l \in Clients, clState'[l] # "unused"
               PROVE  inboundClients'[clPort'[l]] = l
    BY DEF MapComplete
  <2>5. CASE l = k
    BY <2>5, <2>1, <2>2, <2>4
  <2>6. CASE l # k
    <3>1. clState[l] # "unused" /\ clPort'[l] = clPort[l] /\ clPort[l] # p
      BY <2>6, <2>2, <2>3, <2>4
    <3>2. inboundClients[clPort[l]] = l
      BY <3>1 DEF MapComplete
    <3> QED
      BY <3>1, <3>2, <2>2, <2>4
  <2> QED
    BY <2>5, <2>6
<1>2. CASE UNCHANGED <<inboundClients, clState, clPort>>
  BY <1>2 DEF MapComplete
<1>3. CASE \E k \in Clients : InboundClient(k)
  <2> PICK k \in Clients : InboundClient(k)
    BY <1>3
  <2>1. UNCHANGED <<inboundClients, clPort>>
    BY DEF InboundClient, Connect, ConnectFails, WriteChunk, DropOutOfSequence, WriteFails,
           RecvClose, ServerCloses, mapVars
  <2>2. clState[k] # "unused"
    BY DEF InboundClient, Connect, ConnectFails, WriteChunk, DropOutOfSequence, WriteFails,
           RecvClose, ServerCloses, Writing
  <2>3. \E s : clState' = [clState EXCEPT ![k] = s]
    BY <1>0, IterationShape
    DEF InboundClient, Connect, ConnectFails, WriteChunk, DropOutOfSequence, WriteFails,
        RecvClose, ServerCloses
  <2> QED
    BY <1>0, <2>1, <2>2, <2>3 DEF MapComplete, TypeOK
<1>4. ~Cleanup
  BY DEF Cleanup
<1>5. CASE HandOver
  BY <1>5, <1>2 DEF HandOver, mapVars
<1>6. CASE \/ \E c \in Conns : Reader(c)
           \/ Tunnel \/ Network
           \/ SkipUnknown \/ FindClient \/ HandOverFails
           \/ UNCHANGED vars
  BY <1>6, <1>2, StepsElsewhere DEF clientVars
<1> QED
  BY <1>1, <1>3, <1>4, <1>5, <1>6 DEF Next, Dispatcher

LEMMA InitStreamInv == Init => StreamInv
<1> SUFFICES ASSUME Init PROVE StreamInv
  OBVIOUS
<1>1. NothingEarly
  BY ContainsNone DEF Init, NothingEarly, OnItsWay
<1>2. MapComplete
  BY DEF Init, MapComplete
<1> QED
  BY <1>1, <1>2, InitPrefixInv DEF StreamInv

LEMMA NextKeepsStreamInv ==
  ASSUME "cleanup" \notin Faults
  PROVE  StreamInv /\ [Next]_vars => StreamInv'
BY NextKeepsPrefixInv, NothingEarlyStep, MapCompleteStep DEF StreamInv, PrefixInv

-----------------------------------------------------------------------------
LEMMA InitIsStreamInit == Init => Stream!Init
<1> SUFFICES ASSUME Init PROVE Stream!Init
  OBVIOUS
<1>1. \A c \in Conns : Sent(c) = 0
  BY DEF Init, Sent
<1>2. \A c \in Conns : Delivered(c) = 0
  BY ConstantsAssumption DEF Init, Delivered
<1> QED
  BY <1>1, <1>2 DEF Stream!Init

\* Which step of the byte stream a step of the program is.
LEMMA WriteIsDeliver ==
  ASSUME OnePortEach, StreamInv, NEW k \in Clients, WriteChunk(k)
  PROVE  \E c \in Conns : Stream!Deliver(c)
<1> DEFINE d == Head(clQueue[k])
<1>1. /\ clQueue[k] \in Seq(Datagrams \cup {Close}) /\ clQueue[k] # <<>> /\ d # Close
      /\ clState[k] # "unused" /\ d.sequence = nextSequence[k]
  BY DEF StreamInv, PrefixInv, TypeInv, TypeOK, WriteChunk, Writing, InSequence
<1>2. d \in Datagrams /\ d.port = clPort[k] /\ Contains(clQueue[k], d)
  <2>1. d \in Datagrams \cup {Close} /\ d = clQueue[k][1] /\ 1 \in 1..Len(clQueue[k])
    BY <1>1
  <2> QED
    BY <1>1, <2>1 DEF StreamInv, PrefixInv, QueuesOwn, Contains
<1>3. PICK c \in Conns : c = d.chunk[1] /\ PortOf[c] = clPort[k]
  BY <1>2, DatagramParts
<1>4. inboundClients[PortOf[c]] = k /\ k # NoClient
  BY <1>1, <1>3, ConstantsAssumption DEF StreamInv, MapComplete
<1>5. Delivered(c) = nextSequence[k] /\ Len(written[k]) = nextSequence[k]
  BY <1>4 DEF Delivered, StreamInv, PrefixInv, WrittenOwn
<1>6. d.sequence < Sent(c)
  BY <1>2, <1>3 DEF StreamInv, NothingEarly, OnItsWay
<1>7. \A e \in Conns : e # c => PortOf[e] # PortOf[c]
  BY <1>3 DEF OnePortEach
<1>8. /\ written \in [Clients -> Seq(Chunks)]
      /\ d.chunk \in Chunks
      /\ written' = [written EXCEPT ![k] = Append(@, d.chunk)]
      /\ UNCHANGED <<readerState, sequence, inboundClients>>
  BY <1>2, DatagramParts DEF WriteChunk, readerVars, mapVars, StreamInv, PrefixInv, TypeInv, TypeOK
<1>9. Delivered(c)' = Delivered(c) + 1
  <2>1. written'[k] = Append(written[k], d.chunk) /\ written[k] \in Seq(Chunks)
    BY <1>8
  <2>2. Len(written'[k]) = Len(written[k]) + 1
    BY <1>8, <2>1
  <2>3. inboundClients'[PortOf[c]] = k
    BY <1>4, <1>8
  <2>4. Delivered(c)' = Len(written'[k])
    BY <1>4, <2>3 DEF Delivered
  <2>5. Delivered(c) = Len(written[k])
    BY <1>4 DEF Delivered
  <2> QED
    BY <2>2, <2>4, <2>5
<1>10. \A e \in Conns : e # c => Delivered(e)' = Delivered(e)
  <2> SUFFICES ASSUME NEW e \in Conns, e # c PROVE Delivered(e)' = Delivered(e)
    OBVIOUS
  <2>1. PortOf[e] \in Ports
    BY ConstantsAssumption
  <2>2. inboundClients[PortOf[e]] # k
    BY <1>3, <1>4, <1>7, <2>1 DEF StreamInv, PrefixInv, MapOwn
  <2> QED
    BY <1>8, <2>2 DEF Delivered
<1>11. \A e \in Conns : Sent(e)' = Sent(e)
  BY <1>8 DEF Sent
<1>12. Stream!Deliver(c)
  <2>1. Delivered(c) < Sent(c)
    BY <1>1, <1>5, <1>6
  <2>2. [e \in Conns |-> Delivered(e)]' = [[e \in Conns |-> Delivered(e)] EXCEPT ![c] = @ + 1]
    BY <1>3, <1>9, <1>10
  <2>3. [e \in Conns |-> Sent(e)]' = [e \in Conns |-> Sent(e)]
    BY <1>11
  <2> QED
    BY <1>3, <2>1, <2>2, <2>3 DEF Stream!Deliver
<1> QED
  BY <1>3, <1>12

\* Every other step delivers nothing.
LEMMA OthersDeliverNothing ==
  ASSUME "cleanup" \notin Faults, StreamInv, [Next]_vars,
         \A k \in Clients : ~WriteChunk(k), NEW c \in Conns
  PROVE  Delivered(c)' = Delivered(c)
<1>1. CASE UNCHANGED <<inboundClients, written>>
  BY <1>1 DEF Delivered
<1>2. CASE \E k \in Clients : SpawnClient(k)
  <2> PICK k \in Clients : SpawnClient(k)
    BY <1>2
  <2>1. /\ written[k] = <<>> /\ k # NoClient /\ UNCHANGED written
        /\ inboundClients[Head(clientData).port] = NoClient
        /\ inboundClients' = [inboundClients EXCEPT ![Head(clientData).port] = k]
    BY ConstantsAssumption DEF SpawnClient, MakesClient, StreamInv, PrefixInv, Spawned
  <2>2. Len(<<>>) = 0
    BY EmptyChannel
  <2>3. PortOf[c] \in Ports /\ inboundClients \in [Ports -> Clients \cup {NoClient}]
    BY ConstantsAssumption DEF StreamInv, PrefixInv, TypeInv, TypeOK
  <2>4. CASE PortOf[c] = Head(clientData).port
    BY <2>1, <2>2, <2>3, <2>4 DEF Delivered
  <2>5. CASE PortOf[c] # Head(clientData).port
    BY <2>1, <2>3, <2>5 DEF Delivered
  <2> QED
    BY <2>4, <2>5
<1>3. CASE \E k \in Clients : InboundClient(k)
  BY <1>1, <1>3
  DEF InboundClient, Connect, ConnectFails, DropOutOfSequence, WriteFails, RecvClose,
      ServerCloses, mapVars
<1>4. ~Cleanup
  BY DEF Cleanup
<1>5. CASE HandOver
  BY <1>5, <1>1 DEF HandOver, mapVars
<1>6. CASE \/ \E e \in Conns : Reader(e)
           \/ Tunnel \/ Network
           \/ SkipUnknown \/ FindClient \/ HandOverFails
           \/ UNCHANGED vars
  BY <1>6, <1>1, StepsElsewhere DEF clientVars
<1> QED
  BY <1>2, <1>3, <1>4, <1>5, <1>6 DEF Next, Dispatcher

LEMMA ReadIsSend ==
  ASSUME "cleanup" \notin Faults, StreamInv, NEW c \in Conns, ReadChunk(c)
  PROVE  Stream!Send(c)
<1>1. [Next]_vars /\ \A k \in Clients : ~WriteChunk(k)
  <2>1. Reader(c)
    BY DEF Reader
  <2>2. UNCHANGED clState /\ UNCHANGED written
    BY DEF ReadChunk, clientVars
  <2>3. ASSUME NEW k \in Clients, WriteChunk(k) PROVE FALSE
    BY <2>3 DEF WriteChunk, readerVars, ReadChunk, StreamInv, PrefixInv, TypeInv, TypeOK
  <2> QED
    BY <2>1, <2>3 DEF Next
<1>2. \A e \in Conns : Delivered(e)' = Delivered(e)
  BY <1>1, OthersDeliverNothing
<1>3. /\ sequence \in [Conns -> 0..MaxChunks] /\ readerState \in [Conns -> ReaderStates]
      /\ readerState[c] = "read" /\ sequence[c] < MaxChunks
      /\ readerState' = [readerState EXCEPT ![c] = "tick"] /\ sequence' = sequence
  BY DEF ReadChunk, StreamInv, PrefixInv, TypeInv, TypeOK
<1>4. Sent(c) = sequence[c] /\ Sent(c)' = sequence[c] + 1
  BY <1>3, ConstantsAssumption DEF Sent
<1>5. \A e \in Conns : e # c => Sent(e)' = Sent(e)
  BY <1>3 DEF Sent
<1> QED
  BY <1>2, <1>3, <1>4, <1>5 DEF Stream!Send

LEMMA StepIsStreamStep ==
  ASSUME OnePortEach, "cleanup" \notin Faults, StreamInv, [Next]_vars
  PROVE  [Stream!Next]_(Stream!vars)
<1>1. CASE \E k \in Clients : WriteChunk(k)
  BY <1>1, WriteIsDeliver DEF Stream!Next
<1>2. CASE \E c \in Conns : ReadChunk(c)
  BY <1>2, ReadIsSend DEF Stream!Next
<1>3. CASE /\ \A k \in Clients : ~WriteChunk(k)
           /\ \A c \in Conns : ~ReadChunk(c)
  <2>1. \A c \in Conns : Delivered(c)' = Delivered(c)
    BY <1>3, OthersDeliverNothing
  <2>2. \A c \in Conns : Sent(c)' = Sent(c)
    BY <1>3, SentGrows DEF StreamInv, PrefixInv
  <2> QED
    BY <2>1, <2>2 DEF Stream!vars
<1> QED
  BY <1>1, <1>2, <1>3

\* When the cleanup never runs, every step of the forwarded connections is a
\* chunk sent, a chunk delivered in its turn and once, or neither.
THEOREM StreamImplemented ==
  ASSUME OnePortEach, "cleanup" \notin Faults
  PROVE  Spec => ImplementsStream
<1>1. StreamInv /\ [Next]_vars => StreamInv'
  BY NextKeepsStreamInv
<1>2. StreamInv /\ [Next]_vars => [Stream!Next]_(Stream!vars)
  BY StepIsStreamStep
<1> QED
  BY <1>1, <1>2, InitStreamInv, InitIsStreamInit, PTL DEF Spec, ImplementsStream, Stream!Spec

=============================================================================
