------------------------------ MODULE TcpUpload ------------------------------
(***************************************************************************)
(* The upload half of TCP forwarding: bytes that local applications write  *)
(* to a port the OutboundServer of peer A listens on are read in chunks,   *)
(* carried as client_data datagrams over the UDP tunnel with stop-and-wait *)
(* retransmission, and written by the InboundClient tasks of peer B into   *)
(* the connections they opened to the local server.                        *)
(*                                                                         *)
(*   application -> reader task -> to_tunnel channel -> UDP socket of A    *)
(*     -> network -> tunnel_handler of B -> client_data channel            *)
(*     -> dispatcher -> channel of one InboundClient -> writer -> server   *)
(*                                                                         *)
(* Acknowledgements travel straight back: tunnel_handler of B sends one on *)
(* the socket before it forwards the datagram, and tunnel_handler of A     *)
(* broadcasts it to the acknowledgement waiters of every reader.           *)
(***************************************************************************)
EXTENDS Naturals, Sequences, FiniteSets, Functions

CONSTANTS
  Conns,          \* TCP connections the applications make to the OutboundServer
  Ports,          \* TCP port numbers applications connect from
  PortOf,         \* PortOf[c]: the port connection c is made from
  Clients,        \* InboundClient tasks that can be spawned (bounds how many)
  NoClient,       \* "the map has no entry"
  NoPort,         \* the port of a client that has not been spawned
  Close,          \* the "close" datagram of the cleanup pass
  MaxChunks,      \* chunks one connection carries (bounds the sequence numbers)
  ToTunnelCap,    \* capacity of the to_tunnel channel            (1024 in the code)
  ClientDataCap,  \* capacity of from_tunnel_client_data          (1024 in the code)
  ClientCap,      \* capacity of the channel of one InboundClient (1024 in the code)
  AckCap,         \* capacity of the ACK broadcast channel        (1024 in the code)
  MaxInFlight,    \* datagrams the network carries at a time in each direction
  Faults          \* which environment faults a run allows, see FaultKinds

FaultKinds ==
  {"lag",         \* an acknowledgement waiter is not scheduled for AckCap acknowledgements
   "send",        \* a send on the UDP socket returns an error
   "connect",     \* the local server refuses the connection of an InboundClient
   "write",       \* a write to the local server fails
   "serverClose", \* the local server closes or half-closes its connection
   "cleanup"}     \* the two-hour cleanup of idle InboundClients runs

ASSUME ConstantsAssumption ==
  /\ PortOf \in [Conns -> Ports]
  /\ NoClient \notin Clients
  /\ NoPort \notin Ports
  /\ MaxChunks \in Nat \ {0}
  /\ ToTunnelCap \in Nat \ {0}
  /\ ClientDataCap \in Nat \ {0}
  /\ ClientCap \in Nat \ {0}
  /\ AckCap \in Nat \ {0}
  /\ MaxInFlight \in Nat \ {0}
  /\ Faults \subseteq FaultKinds

(***************************************************************************)
(* A datagram carries the port and the sequence number the code looks at,  *)
(* and the chunk it was made from, which the code only copies.             *)
(***************************************************************************)
Sequences == 0..(MaxChunks - 1)
Chunks == Conns \X Sequences

ClientDataDatagram(c, n) == [port |-> PortOf[c], sequence |-> n, chunk |-> <<c, n>>]
Datagrams == {ClientDataDatagram(c, n) : c \in Conns, n \in Sequences}

ASSUME CloseAssumption == Close \notin Datagrams

\* The id of a client_data datagram: "tcp_client_{host_port}_{port}_{sequence}".
IdOf(p, n) == <<p, n>>
Id(d) == IdOf(d.port, d.sequence)
Ids == Ports \X Sequences

-----------------------------------------------------------------------------
VARIABLES
  readerState,    \* peer A, one reader task per connection
  sequence,       \*   its sequence counter
  ackState,       \*   the waiter task it spawned for the current chunk
  ackQueue,       \*   what the waiter's broadcast receiver has not taken yet
  toTunnel,       \* channel to_tunnel of peer A
  txStopped,      \* the sending loop of tunnel_handler of A has ended
  net,            \* client_data datagrams on their way from A to B
  ackNet,         \* ids of the ACK datagrams on their way from B to A
  rxHold,         \* peer B: datagram acknowledged, not yet in the channel
  rxStopped,      \* the receiving loop of tunnel_handler has ended, on A and on B
  clientData,     \*   channel from_tunnel_client_data
  dispHold,       \*   datagram the dispatcher is handing over, holding the map's lock
  inboundClients, \*   the map from client ports to InboundClients
  cleanerAlive,   \*   the cleanup loop is still running
  clState,        \*   life cycle of each InboundClient task
  clPort,         \*   its remote_client_port
  clQueue,        \*   its channel
  nextSequence,   \*   the sequence number its writer expects
  written         \*   chunks written so far to its connection to the local server

readerVars == <<readerState, sequence>>
waiterVars == <<ackState, ackQueue>>
netVars == <<net, ackNet>>
rxVars == <<rxHold, rxStopped>>
mapVars == <<inboundClients, cleanerAlive>>
clientVars == <<clState, clPort, clQueue, nextSequence, written>>
vars == <<readerVars, waiterVars, toTunnel, txStopped, netVars, rxVars,
          clientData, dispHold, mapVars, clientVars>>

ReaderStates == {"unborn", "read", "tick", "push", "stopped", "failed"}
AckStates == {"idle", "listening", "lagged", "finished"}
(***************************************************************************)
(* An InboundClient is open while both its halves run. halfClosed: the     *)
(* reading half has ended and set "stopped"; the writing half notices only *)
(* after its next datagram. writerDone: the writing half has ended, the    *)
(* reading half has not. dead: both have ended and the channel's receiver  *)
(* is dropped.                                                             *)
(***************************************************************************)
ClientStates ==
  {"unused", "connecting", "open", "halfClosed", "writerDone", "dead"}

TypeOK ==
  /\ readerState \in [Conns -> ReaderStates]
  /\ sequence \in [Conns -> 0..MaxChunks]
  /\ ackState \in [Conns -> AckStates]
  /\ ackQueue \in [Conns -> Seq(Ids)]
  /\ \A c \in Conns : Len(ackQueue[c]) <= AckCap
  /\ toTunnel \in Seq(Datagrams) /\ Len(toTunnel) <= ToTunnelCap
  /\ txStopped \in BOOLEAN
  /\ net \subseteq Datagrams
  /\ ackNet \subseteq Ids
  /\ rxHold \in Seq(Datagrams) /\ Len(rxHold) <= 1
  /\ rxStopped \in [{"A", "B"} -> BOOLEAN]
  /\ clientData \in Seq(Datagrams) /\ Len(clientData) <= ClientDataCap
  /\ dispHold \in Seq(Datagrams) /\ Len(dispHold) <= 1
  /\ inboundClients \in [Ports -> Clients \cup {NoClient}]
  /\ cleanerAlive \in BOOLEAN
  /\ clState \in [Clients -> ClientStates]
  /\ clPort \in [Clients -> Ports \cup {NoPort}]
  /\ clQueue \in [Clients -> Seq(Datagrams \cup {Close})]
  /\ \A k \in Clients : Len(clQueue[k]) <= ClientCap
  /\ nextSequence \in [Clients -> 0..MaxChunks]
  /\ written \in [Clients -> Seq(Chunks)]

Init ==
  /\ readerState = [c \in Conns |-> "unborn"]
  /\ sequence = [c \in Conns |-> 0]
  /\ ackState = [c \in Conns |-> "idle"]
  /\ ackQueue = [c \in Conns |-> <<>>]
  /\ toTunnel = <<>>
  /\ txStopped = FALSE
  /\ net = {}
  /\ ackNet = {}
  /\ rxHold = <<>>
  /\ rxStopped = [peer \in {"A", "B"} |-> FALSE]
  /\ clientData = <<>>
  /\ dispHold = <<>>
  /\ inboundClients = [p \in Ports |-> NoClient]
  /\ cleanerAlive = TRUE
  /\ clState = [k \in Clients |-> "unused"]
  /\ clPort = [k \in Clients |-> NoPort]
  /\ clQueue = [k \in Clients |-> <<>>]
  /\ nextSequence = [k \in Clients |-> 0]
  /\ written = [k \in Clients |-> <<>>]

NoRoomCheck(channel, capacity) == TRUE  \* mutant of HasRoom
HasRoom(channel, capacity) == Len(channel) < capacity

\* A datagram sent into a network that carries MaxInFlight others is lost.
Transmit(network, m) ==
  IF Cardinality(network) < MaxInFlight THEN network \cup {m} ELSE network

-----------------------------------------------------------------------------
(***************************************************************************)
(* Peer A: accept loop and reader task of OutboundServer.tcp_accept.       *)
(***************************************************************************)

\* The operating system gives a port to a new connection only when no earlier
\* connection from that port is still open.
PortFree(p) == \A c \in Conns : PortOf[c] = p => readerState[c] \in {"unborn", "stopped", "failed"}

Accept(c) ==
  /\ readerState[c] = "unborn"
  /\ PortFree(PortOf[c])
  /\ readerState' = [readerState EXCEPT ![c] = "read"]
  /\ UNCHANGED <<sequence, waiterVars, toTunnel, txStopped, netVars, rxVars,
                 clientData, dispHold, mapVars, clientVars>>

\* One chunk is read, its waiter is subscribed to the broadcast and spawned.
ReadChunk(c) ==
  /\ readerState[c] = "read"
  /\ sequence[c] < MaxChunks
  /\ readerState' = [readerState EXCEPT ![c] = "tick"]
  /\ ackState' = [ackState EXCEPT ![c] = "listening"]
  /\ ackQueue' = [ackQueue EXCEPT ![c] = <<>>]
  /\ UNCHANGED <<sequence, toTunnel, txStopped, netVars, rxVars, clientData,
                 dispHold, mapVars, clientVars>>

\* End of file, a read error, or "stopped" set by the writing half. Nothing
\* tells peer B.
ReaderStops(c) ==
  /\ readerState[c] = "read"
  /\ readerState' = [readerState EXCEPT ![c] = "stopped"]
  /\ UNCHANGED <<sequence, waiterVars, toTunnel, txStopped, netVars, rxVars,
                 clientData, dispHold, mapVars, clientVars>>

\* ack_received.is_finished(): also true when the waiter ended with an error.
DoesNotWait(c) == TRUE  \* mutant of AckReceived
AckReceived(c) == ackState[c] = "finished"

\* A tick of the 50 ms interval that finds the waiter finished.
AckObserved(c) ==
  /\ readerState[c] = "tick"
  /\ AckReceived(c)
  /\ sequence' = [sequence EXCEPT ![c] = @ + 1]
  /\ readerState' = [readerState EXCEPT ![c] = "read"]
  /\ ackState' = [ackState EXCEPT ![c] = "idle"]
  /\ UNCHANGED <<ackQueue, toTunnel, txStopped, netVars, rxVars, clientData,
                 dispHold, mapVars, clientVars>>

\* A tick that does not: the reader (re)sends the chunk, at once if the channel
\* has room. Otherwise it waits for room, and the acknowledgement that arrives
\* meanwhile does not spare the copy.
Sends(c) ==
  \/ readerState[c] = "tick" /\ ~AckReceived(c)
  \/ readerState[c] = "push"

\* to_tunnel is closed when both loops of tunnel_handler of A have ended.
Closed == txStopped /\ rxStopped["A"]

Resend(c) ==
  /\ Sends(c) /\ ~Closed
  /\ HasRoom(toTunnel, ToTunnelCap)
  /\ toTunnel' = Append(toTunnel, ClientDataDatagram(c, sequence[c]))
  /\ readerState' = [readerState EXCEPT ![c] = "tick"]
  /\ UNCHANGED <<sequence, waiterVars, txStopped, netVars, rxVars, clientData,
                 dispHold, mapVars, clientVars>>

AwaitRoom(c) ==
  /\ readerState[c] = "tick"
  /\ Sends(c) /\ ~Closed
  /\ ~HasRoom(toTunnel, ToTunnelCap)
  /\ readerState' = [readerState EXCEPT ![c] = "push"]
  /\ UNCHANGED <<sequence, waiterVars, toTunnel, txStopped, netVars, rxVars,
                 clientData, dispHold, mapVars, clientVars>>

\* Sending into the closed channel, or waiting for its room, is an error: the reader
\* ends, and nothing acknowledges the chunk it has read. Its waiter lives on.
SendFails(c) ==
  /\ Sends(c) /\ Closed
  /\ readerState' = [readerState EXCEPT ![c] = "failed"]
  /\ UNCHANGED <<sequence, waiterVars, toTunnel, txStopped, netVars, rxVars,
                 clientData, dispHold, mapVars, clientVars>>

\* The waiter takes one broadcast acknowledgement: its own id, or Lagged, ends
\* it; any other id does not.
WaiterRecv(c) ==
  /\ \/ /\ ackState[c] = "lagged"
        /\ ackState' = [ackState EXCEPT ![c] = "finished"]
        /\ UNCHANGED ackQueue
     \/ /\ ackState[c] = "listening"
        /\ ackQueue[c] # <<>>
        /\ IF Head(ackQueue[c]) = IdOf(PortOf[c], sequence[c])
           THEN /\ ackState' = [ackState EXCEPT ![c] = "finished"]
                /\ ackQueue' = [ackQueue EXCEPT ![c] = <<>>]
           ELSE /\ ackQueue' = [ackQueue EXCEPT ![c] = Tail(@)]
                /\ UNCHANGED ackState
  /\ UNCHANGED <<readerVars, toTunnel, txStopped, netVars, rxVars, clientData,
                 dispHold, mapVars, clientVars>>

-----------------------------------------------------------------------------
(***************************************************************************)
(* Peer A: the two loops of tunnel_handler.                                *)
(***************************************************************************)

TunnelSend ==
  /\ ~txStopped
  /\ toTunnel # <<>>
  /\ net' = Transmit(net, Head(toTunnel))
  /\ toTunnel' = Tail(toTunnel)
  /\ UNCHANGED <<readerVars, waiterVars, txStopped, ackNet, rxVars, clientData,
                 dispHold, mapVars, clientVars>>

\* A failed send ends the loop for good.
TunnelSendFails ==
  /\ "send" \in Faults
  /\ ~txStopped
  /\ toTunnel # <<>>
  /\ toTunnel' = Tail(toTunnel)
  /\ txStopped' = TRUE
  /\ UNCHANGED <<readerVars, waiterVars, netVars, rxVars, clientData, dispHold,
                 mapVars, clientVars>>

Listening == {c \in Conns : ackState[c] = "listening"}

\* broadcast::Sender::send: a receiver that has AckCap acknowledgements still
\* to take loses the oldest, and its next recv returns Lagged.
Overrun(c) == c \in Listening /\ ~HasRoom(ackQueue[c], AckCap)

AckRecv(id) ==
  /\ ~rxStopped["A"]
  /\ id \in ackNet
  /\ "lag" \in Faults \/ \A c \in Conns : ~Overrun(c)
  /\ \/ ackNet' = ackNet \ {id}
     \/ UNCHANGED ackNet
  /\ ackState' = [c \in Conns |-> IF Overrun(c) THEN "lagged" ELSE ackState[c]]
  /\ ackQueue' = [c \in Conns |->
                    CASE Overrun(c) -> <<>>
                      [] c \in Listening /\ ~Overrun(c) -> Append(ackQueue[c], id)
                      [] OTHER -> ackQueue[c]]
  /\ UNCHANGED <<readerVars, toTunnel, txStopped, net, rxVars, clientData,
                 dispHold, mapVars, clientVars>>

\* The loop that takes acknowledgements also sends some, for what B sends of its
\* own, and ends when that fails.
AckLoopFails ==
  /\ "send" \in Faults
  /\ ~rxStopped["A"]
  /\ rxStopped' = [rxStopped EXCEPT !["A"] = TRUE]
  /\ UNCHANGED <<readerVars, waiterVars, toTunnel, txStopped, netVars, rxHold,
                 clientData, dispHold, mapVars, clientVars>>

-----------------------------------------------------------------------------
(***************************************************************************)
(* The network loses, duplicates and reorders.                             *)
(***************************************************************************)

LoseDatagram(d) ==
  /\ d \in net
  /\ net' = net \ {d}
  /\ UNCHANGED <<readerVars, waiterVars, toTunnel, txStopped, ackNet, rxVars,
                 clientData, dispHold, mapVars, clientVars>>

LoseAck(id) ==
  /\ id \in ackNet
  /\ ackNet' = ackNet \ {id}
  /\ UNCHANGED <<readerVars, waiterVars, toTunnel, txStopped, net, rxVars,
                 clientData, dispHold, mapVars, clientVars>>

-----------------------------------------------------------------------------
(***************************************************************************)
(* Peer B: the receiving loop of tunnel_handler.                           *)
(***************************************************************************)

\* The datagram is acknowledged first and forwarded afterwards.
TunnelRecv(d) ==
  /\ ~rxStopped["B"]
  /\ rxHold = <<>>
  /\ d \in net
  /\ \/ net' = net \ {d}
     \/ UNCHANGED net
  /\ ackNet' = Transmit(ackNet, Id(d))
  /\ rxHold' = <<d>>
  /\ UNCHANGED <<readerVars, waiterVars, toTunnel, txStopped, rxStopped,
                 clientData, dispHold, mapVars, clientVars>>

\* Sending the acknowledgement fails: the loop ends, the datagram is dropped.
AckSendFails(d) ==
  /\ "send" \in Faults
  /\ ~rxStopped["B"]
  /\ rxHold = <<>>
  /\ d \in net
  /\ net' = net \ {d}
  /\ rxStopped' = [rxStopped EXCEPT !["B"] = TRUE]
  /\ UNCHANGED <<readerVars, waiterVars, toTunnel, txStopped, ackNet, rxHold,
                 clientData, dispHold, mapVars, clientVars>>

PushClientData ==
  /\ rxHold # <<>>
  /\ HasRoom(clientData, ClientDataCap)
  /\ clientData' = Append(clientData, Head(rxHold))
  /\ rxHold' = <<>>
  /\ UNCHANGED <<readerVars, waiterVars, toTunnel, txStopped, netVars,
                 rxStopped, dispHold, mapVars, clientVars>>

-----------------------------------------------------------------------------
(***************************************************************************)
(* Peer B: the dispatcher and the map of InboundClients.                   *)
(***************************************************************************)

\* With no entry for the port only a datagram of sequence 0 makes a client.
SkipUnknown ==
  /\ dispHold = <<>>
  /\ clientData # <<>>
  /\ inboundClients[Head(clientData).port] = NoClient
  /\ Head(clientData).sequence # 0
  /\ clientData' = Tail(clientData)
  /\ UNCHANGED <<readerVars, waiterVars, toTunnel, txStopped, netVars, rxVars,
                 dispHold, mapVars, clientVars>>

MakesClient(d) == inboundClients[d.port] = NoClient /\ d.sequence = 0

SpawnClient(k) ==
  /\ dispHold = <<>>
  /\ clientData # <<>>
  /\ MakesClient(Head(clientData))
  /\ clState[k] = "unused"
  /\ inboundClients' = [inboundClients EXCEPT ![Head(clientData).port] = k]
  /\ clState' = [clState EXCEPT ![k] = "connecting"]
  /\ clPort' = [clPort EXCEPT ![k] = Head(clientData).port]
  /\ dispHold' = <<Head(clientData)>>
  /\ clientData' = Tail(clientData)
  /\ UNCHANGED <<readerVars, waiterVars, toTunnel, txStopped, netVars, rxVars,
                 cleanerAlive, clQueue, nextSequence, written>>

FindClient ==
  /\ dispHold = <<>>
  /\ clientData # <<>>
  /\ inboundClients[Head(clientData).port] # NoClient
  /\ dispHold' = <<Head(clientData)>>
  /\ clientData' = Tail(clientData)
  /\ UNCHANGED <<readerVars, waiterVars, toTunnel, txStopped, netVars, rxVars,
                 mapVars, clientVars>>

Target == inboundClients[Head(dispHold).port]

HandOver ==
  /\ dispHold # <<>>
  /\ clState[Target] # "dead"
  /\ HasRoom(clQueue[Target], ClientCap)
  /\ clQueue' = [clQueue EXCEPT ![Target] = Append(@, Head(dispHold))]
  /\ dispHold' = <<>>
  /\ UNCHANGED <<readerVars, waiterVars, toTunnel, txStopped, netVars, rxVars,
                 clientData, mapVars, clState, clPort, nextSequence, written>>

\* The client has ended and dropped its receiver: the error is only logged.
HandOverFails ==
  /\ dispHold # <<>>
  /\ clState[Target] = "dead"
  /\ dispHold' = <<>>
  /\ UNCHANGED <<readerVars, waiterVars, toTunnel, txStopped, netVars, rxVars,
                 clientData, mapVars, clientVars>>

(***************************************************************************)
(* The hourly cleanup. An entry expires after two hours without a          *)
(* client_data datagram of its port, longer than any datagram lives in     *)
(* the network or in a channel that still moves. The pass sends "close"    *)
(* to each expired client in some order and removes the entries at the     *)
(* end; the first client whose receiver is gone ends the loop with an      *)
(* error.                                                                  *)
(***************************************************************************)
Quiet(p) ==
  LET leaving == IF txStopped THEN {} ELSE Range(toTunnel)
      arriving == IF rxStopped["B"] THEN {} ELSE leaving \cup net
  IN \A d \in arriving \cup Range(rxHold) \cup Range(clientData) : d.port # p

TellClose(told) ==
  clQueue' = [k \in Clients |-> IF k \in told THEN Append(clQueue[k], Close) ELSE clQueue[k]]

Cleanup ==
  /\ "cleanup" \in Faults
  /\ cleanerAlive
  /\ dispHold = <<>>
  /\ \E expired \in SUBSET {p \in Ports : inboundClients[p] # NoClient /\ Quiet(p)} :
       LET idle == {inboundClients[p] : p \in expired}
           live == {k \in idle : clState[k] # "dead"}
       IN /\ expired # {}
          /\ \A k \in live : HasRoom(clQueue[k], ClientCap)
          /\ \/ /\ live = idle
                /\ TellClose(live)
                /\ inboundClients' = [p \in Ports |-> IF p \in expired
                                                      THEN NoClient
                                                      ELSE inboundClients[p]]
                /\ UNCHANGED cleanerAlive
             \/ /\ live # idle
                /\ \E told \in SUBSET live : TellClose(told)
                /\ cleanerAlive' = FALSE
                /\ UNCHANGED inboundClients
  /\ UNCHANGED <<readerVars, waiterVars, toTunnel, txStopped, netVars, rxVars,
                 clientData, dispHold, clState, clPort, nextSequence, written>>

-----------------------------------------------------------------------------
(***************************************************************************)
(* Peer B: one InboundClient task.                                         *)
(***************************************************************************)

Connect(k) ==
  /\ clState[k] = "connecting"
  /\ clState' = [clState EXCEPT ![k] = "open"]
  /\ UNCHANGED <<readerVars, waiterVars, toTunnel, txStopped, netVars, rxVars,
                 clientData, dispHold, mapVars, clPort, clQueue, nextSequence, written>>

\* start() returns before the loops begin; the map keeps the entry.
ConnectFails(k) ==
  /\ "connect" \in Faults
  /\ clState[k] = "connecting"
  /\ clState' = [clState EXCEPT ![k] = "dead"]
  /\ clQueue' = [clQueue EXCEPT ![k] = <<>>]
  /\ UNCHANGED <<readerVars, waiterVars, toTunnel, txStopped, netVars, rxVars,
                 clientData, dispHold, mapVars, clPort, nextSequence, written>>

AnySequence(d, k) == TRUE  \* mutant of InSequence
InSequence(d, k) == d.sequence = nextSequence[k]

\* What the writing half leaves behind after an iteration that does not break:
\* it runs on, unless the reading half has set "stopped" meanwhile.
AfterIteration(k) ==
  /\ clState' = [clState EXCEPT ![k] = IF @ = "halfClosed" THEN "dead" ELSE @]
  /\ clQueue' = [clQueue EXCEPT ![k] = IF clState[k] = "halfClosed" THEN <<>> ELSE Tail(@)]

\* What it leaves behind when it breaks or fails.
WriterEnds(k) ==
  /\ clState' = [clState EXCEPT ![k] = IF @ = "halfClosed" THEN "dead" ELSE "writerDone"]
  /\ clQueue' = [clQueue EXCEPT ![k] = IF clState[k] = "halfClosed" THEN <<>> ELSE Tail(@)]

Writing(k) == clState[k] \in {"open", "halfClosed"} /\ clQueue[k] # <<>>

WriteChunk(k) ==
  /\ Writing(k)
  /\ Head(clQueue[k]) # Close
  /\ InSequence(Head(clQueue[k]), k)
  /\ written' = [written EXCEPT ![k] = Append(@, Head(clQueue[k]).chunk)]
  /\ nextSequence' = [nextSequence EXCEPT ![k] = @ + 1]
  /\ AfterIteration(k)
  /\ UNCHANGED <<readerVars, waiterVars, toTunnel, txStopped, netVars, rxVars,
                 clientData, dispHold, mapVars, clPort>>

DropOutOfSequence(k) ==
  /\ Writing(k)
  /\ Head(clQueue[k]) # Close
  /\ ~InSequence(Head(clQueue[k]), k)
  /\ AfterIteration(k)
  /\ UNCHANGED <<readerVars, waiterVars, toTunnel, txStopped, netVars, rxVars,
                 clientData, dispHold, mapVars, clPort, nextSequence, written>>

WriteFails(k) ==
  /\ "write" \in Faults
  /\ Writing(k)
  /\ Head(clQueue[k]) # Close
  /\ InSequence(Head(clQueue[k]), k)
  /\ WriterEnds(k)
  /\ UNCHANGED <<readerVars, waiterVars, toTunnel, txStopped, netVars, rxVars,
                 clientData, dispHold, mapVars, clPort, nextSequence, written>>

RecvClose(k) ==
  /\ Writing(k)
  /\ Head(clQueue[k]) = Close
  /\ WriterEnds(k)
  /\ UNCHANGED <<readerVars, waiterVars, toTunnel, txStopped, netVars, rxVars,
                 clientData, dispHold, mapVars, clPort, nextSequence, written>>

\* The reading half sees end of file or an error (reading, or sending an answer), or
\* notices "stopped" after the server's next data, and ends.
ServerCloses(k) ==
  /\ "serverClose" \in Faults
  /\ \/ /\ clState[k] = "open"
        /\ clState' = [clState EXCEPT ![k] = "halfClosed"]
        /\ UNCHANGED clQueue
     \/ /\ clState[k] = "writerDone"
        /\ clState' = [clState EXCEPT ![k] = "dead"]
        /\ clQueue' = [clQueue EXCEPT ![k] = <<>>]
  /\ UNCHANGED <<readerVars, waiterVars, toTunnel, txStopped, netVars, rxVars,
                 clientData, dispHold, mapVars, clPort, nextSequence, written>>

-----------------------------------------------------------------------------
Reader(c) ==
  \/ Accept(c) \/ ReadChunk(c) \/ ReaderStops(c)
  \/ AckObserved(c) \/ Resend(c) \/ AwaitRoom(c) \/ SendFails(c)
  \/ WaiterRecv(c)

Network ==
  \/ \E d \in net : LoseDatagram(d)
  \/ \E id \in ackNet : LoseAck(id)

Tunnel ==
  \/ TunnelSend \/ TunnelSendFails \/ AckLoopFails
  \/ \E id \in ackNet : AckRecv(id)
  \/ \E d \in net : TunnelRecv(d) \/ AckSendFails(d)
  \/ PushClientData

Dispatcher ==
  \/ SkipUnknown \/ FindClient \/ HandOver \/ HandOverFails \/ Cleanup
  \/ \E k \in Clients : SpawnClient(k)

InboundClient(k) ==
  \/ Connect(k) \/ ConnectFails(k)
  \/ WriteChunk(k) \/ DropOutOfSequence(k) \/ WriteFails(k) \/ RecvClose(k)
  \/ ServerCloses(k)

Next ==
  \/ \E c \in Conns : Reader(c)
  \/ Tunnel \/ Network \/ Dispatcher
  \/ \E k \in Clients : InboundClient(k)

Spec == Init /\ [][Next]_vars

(***************************************************************************)
(* Fairness. Every tokio task that can run is run: the reader at each tick,*)
(* the waiter, both loops of tunnel_handler, the dispatcher, the writing   *)
(* half; the local server accepts and reads. The network may lose a        *)
(* datagram again and again, but not for ever one that is sent for ever,   *)
(* and goes on duplicating only what is sent again and again. Nothing makes*)
(* an application connect or write.                                        *)
(***************************************************************************)
Ticks(c) == AckObserved(c) \/ Resend(c) \/ AwaitRoom(c) \/ SendFails(c)
Dispatches == SkipUnknown \/ FindClient \/ HandOver \/ HandOverFails \/ \E k \in Clients : SpawnClient(k)
Writes(k) == Connect(k) \/ WriteChunk(k) \/ DropOutOfSequence(k)

Copied(d) == TunnelRecv(d) /\ d \in net'
AckCopied(id) == AckRecv(id) /\ id \in ackNet'
Transmits(d) == TunnelSend /\ Head(toTunnel) = d
Acknowledges(id) == \E d \in net : Id(d) = id /\ TunnelRecv(d)

Fairness ==
  /\ \A c \in Conns : WF_vars(Ticks(c)) /\ WF_vars(WaiterRecv(c))
  /\ WF_vars(TunnelSend) /\ WF_vars(PushClientData) /\ WF_vars(Dispatches)
  /\ \A k \in Clients : WF_vars(Writes(k))
  /\ \A d \in Datagrams :
       /\ SF_vars(TunnelRecv(d))
       /\ []<><<Copied(d)>>_vars => []<><<Transmits(d)>>_vars
  /\ \A id \in Ids :
       /\ SF_vars(AckRecv(id))
       /\ []<><<AckCopied(id)>>_vars => []<><<Acknowledges(id)>>_vars

FairSpec == Spec /\ Fairness

-----------------------------------------------------------------------------
(***************************************************************************)
(* Properties.                                                             *)
(***************************************************************************)

\* No two connections are made from the same port.
OnePortEach == \A c, e \in Conns : PortOf[c] = PortOf[e] => c = e

\* What the connection of an InboundClient to the local server carries is, at
\* any time, the first chunks of one application connection made from its port:
\* nothing repeated, skipped, reordered or taken from another connection,
\* whatever the network, the channels and the faults do.
StreamPrefix ==
  \A k \in Clients : clState[k] # "unused" =>
    \E c \in Conns :
      /\ PortOf[c] = clPort[k]
      /\ written[k] = [i \in 1..Len(written[k]) |-> <<c, i - 1>>]

\* Where a chunk of connection c can be once peer B has acknowledged it.
Held(ch) ==
  \/ \E d \in Range(rxHold) \cup Range(clientData) \cup Range(dispHold) : d.chunk = ch
  \/ \E k \in Clients :
       \/ ch \in Range(written[k])
       \/ \E d \in Range(clQueue[k]) : d # Close /\ d.chunk = ch

\* The client that served port p has ended: its local server refused, failed or
\* went away.
ServerGone(p) == \E k \in Clients : clPort[k] = p /\ clState[k] \in {"writerDone", "dead"}

\* A chunk its reader has moved on from is never lost on the way: it is written
\* or waits in peer B behind nothing but a working local server. (Neither for
\* "lag" nor for "cleanup".)
AckedNotLost ==
  \A c \in Conns : \A n \in 0..(sequence[c] - 1) :
    Held(<<c, n>>) \/ ServerGone(PortOf[c])

\* The cleanup pass is there for stopped clients: an entry it removes is the one
\* of a client that has stopped. (Does not hold: README, section 4.)
CleanupRemovesStopped ==
  [][\A p \in Ports :
       LET k == inboundClients[p]
       IN k # NoClient /\ inboundClients'[p] = NoClient
            => clState[k] \in {"halfClosed", "writerDone", "dead"}]_vars

\* The hourly cleanup goes on for as long as the program runs. (Does not hold:
\* README, section 4.)
CleanupGoesOn == cleanerAlive

\* The byte stream a connection promises: a chunk is sent when the reader takes
\* it and delivered when the client of its port has written it.
Sent(c) == sequence[c] + (IF readerState[c] \in {"tick", "push", "failed"} THEN 1 ELSE 0)
Delivered(c) ==
  IF inboundClients[PortOf[c]] = NoClient
  THEN 0
  ELSE Len(written[inboundClients[PortOf[c]]])

Stream == INSTANCE ByteStream WITH
  sent <- [c \in Conns |-> Sent(c)],
  delivered <- [c \in Conns |-> Delivered(c)]

\* Every step is a send, a delivery or neither (without "cleanup").
ImplementsStream == Stream!Spec

\* And every chunk sent is delivered in the end, whatever the network loses,
\* duplicates and reorders (without faults).
ImplementsFairStream == Stream!FairSpec

=============================================================================
