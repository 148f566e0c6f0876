----------------------------- MODULE TcpDownload -----------------------------
(***************************************************************************)
(* The download half of TCP forwarding, and the requests that share its    *)
(* tunnel. Peer B has the local servers; peer A the applications.          *)
(*                                                                         *)
(*   server -> reader of an InboundClient -> to_tunnel -> network          *)
(*     -> tunnel_handler of A -> server_data -> dispatcher                 *)
(*     -> OutboundServer -> broadcast to its connections -> writer         *)
(*     -> application                                                      *)
(*                                                                         *)
(* tunnel_handler of B reads the acknowledgements of all this in the loop  *)
(* that hands requests (client_data) on, one at a time, to dispatcher,     *)
(* InboundClient and server. How requests get here is TcpUpload; here they *)
(* only count. A connection begins when its InboundClient has connected.   *)
(***************************************************************************)
EXTENDS Naturals, Sequences, FiniteSets, Functions

CONSTANTS
  Conns,         \* TCP connections, each from a port of its own
  Unasked,       \* Unasked[c]: chunks the server of c writes without a request
  MaxRequests,   \* requests that arrive in all, each answered by one chunk
  Patient,       \* does a server read on before it has written its answer?
  MaxChunks,     \* chunks one connection carries (bounds the sequence numbers)
  SocketCap,     \* chunks a server can write ahead of the InboundClient's reading
  ToTunnelCap,   \* capacity of the to_tunnel channel             (1024 in the code)
  ClientDataCap, \* capacity of from_tunnel_client_data           (1024 in the code)
  ClientCap,     \* capacity of the channel of one InboundClient  (1024 in the code)
  ServerDataCap, \* capacity of from_tunnel_server_data and of the channel of
                 \* the OutboundServer together             (1024 each in the code)
  BroadcastCap,  \* capacity of the broadcast to the connections  (1024 in the code)
  AckCap,        \* capacity of the ACK broadcast channel         (1024 in the code)
  MaxInFlight,   \* datagrams the network carries at a time in each direction
  Faults         \* which environment faults a run allows, see FaultKinds

FaultKinds ==
  {"lag",     \* a writer, waiting for its application, is overrun by the broadcast
   "ackLag",  \* an acknowledgement waiter is not scheduled for AckCap acknowledgements
   "send",    \* a send on the UDP socket returns an error
   "close"}   \* an application or a server closes its connection, or fails

Sequences == 0..(MaxChunks - 1)
ServerDataDatagram(c, n) == [port |-> c, sequence |-> n]
Datagrams == [port : Conns, sequence : Sequences]

ASSUME ConstantsAssumption ==
  /\ Unasked \in [Conns -> Nat]
  /\ MaxRequests \in Nat
  /\ \A c \in Conns : Unasked[c] + MaxRequests <= MaxChunks
  /\ Patient \in BOOLEAN
  /\ {MaxChunks, SocketCap, ToTunnelCap, ClientDataCap, ClientCap, ServerDataCap,
      BroadcastCap, AckCap, MaxInFlight} \subseteq Nat \ {0}
  /\ Faults \subseteq FaultKinds

-----------------------------------------------------------------------------
VARIABLES
  server,      \* per connection: answers it owes, chunks written but not read
  reader,      \* reader task of the InboundClient: state, sequence counter, the
               \*   waiter it spawned and what that has not yet taken
  toTunnel,    \* channel to_tunnel of B
  txStopped,   \* the sending loop of tunnel_handler of B has ended
  net,         \* server_data datagrams on their way from B to A
  ackNet,      \* their acknowledgements on the way back
  asked,       \* requests that have arrived so far
  rxHold,      \* request that tunnel_handler of B has acknowledged and holds
  clientData,  \* channel from_tunnel_client_data of B
  dispHold,    \* request the dispatcher of B is handing over
  clQueue,     \* per connection: requests in the channel of its InboundClient
  rxStopped,   \* the receiving loop of tunnel_handler has ended, on A and on B
  rxData,      \* datagram that tunnel_handler of A has acknowledged and holds
  serverData,  \* from_tunnel_server_data and the channel of the OutboundServer
  writer       \* writer task of the OutboundServer: is it running, its broadcast
               \*   receiver, the sequence number it expects, what it has written

wireVars == <<toTunnel, txStopped, net, ackNet>>
requestVars == <<asked, rxHold, clientData, dispHold, clQueue>>
arrivalVars == <<rxData, serverData, writer>>
vars == <<server, reader, wireVars, requestVars, rxStopped, arrivalVars>>

TypeOK ==
  /\ server \in [Conns -> [owes : 0..MaxChunks, ahead : 0..SocketCap]]
  /\ \A c \in Conns :
       /\ reader[c].state \in {"read", "tick", "push", "stopped", "failed"}
       /\ reader[c].sequence \in 0..MaxChunks
       /\ reader[c].ack \in {"idle", "listening", "finished", "lagged"}
       /\ reader[c].queue \in Seq(Datagrams) /\ Len(reader[c].queue) <= AckCap
       /\ writer[c].state \in {"recv", "closing", "ended"}
       /\ writer[c].queue \in Seq(Datagrams) /\ Len(writer[c].queue) <= BroadcastCap
       /\ writer[c].next = Len(writer[c].written)
       /\ writer[c].written \in Seq(Datagrams)
  /\ toTunnel \in Seq(Datagrams) /\ Len(toTunnel) <= ToTunnelCap
  /\ net \subseteq Datagrams /\ ackNet \subseteq Datagrams
  /\ asked \in 0..MaxRequests
  /\ clientData \in Seq(Conns) /\ Len(clientData) <= ClientDataCap
  /\ \A held \in {rxHold, dispHold} : held \in Seq(Conns) /\ Len(held) <= 1
  /\ clQueue \in [Conns -> 0..ClientCap]
  /\ rxData \in Seq(Datagrams) /\ Len(rxData) <= 1
  /\ serverData \in Seq(Datagrams) /\ Len(serverData) <= ServerDataCap
  /\ txStopped \in BOOLEAN /\ rxStopped \in [{"A", "B"} -> BOOLEAN]

Init ==
  /\ server = [c \in Conns |-> [owes |-> Unasked[c], ahead |-> 0]]
  /\ reader = [c \in Conns |->
                 [state |-> "read", sequence |-> 0, ack |-> "idle", queue |-> <<>>]]
  /\ toTunnel = <<>> /\ txStopped = FALSE
  /\ net = {} /\ ackNet = {}
  /\ asked = 0 /\ rxHold = <<>> /\ clientData = <<>> /\ dispHold = <<>>
  /\ clQueue = [c \in Conns |-> 0]
  /\ rxStopped = [peer \in {"A", "B"} |-> FALSE]
  /\ rxData = <<>> /\ serverData = <<>>
  /\ writer = [c \in Conns |->
                 [state |-> "recv", queue |-> <<>>, next |-> 0, written |-> <<>>]]

NoRoomCheck(channel, capacity) == TRUE  \* mutant of HasRoom
HasRoom(channel, capacity) == Len(channel) < capacity

\* A datagram sent into a network that carries MaxInFlight others is lost.
Transmit(network, m) ==
  IF Cardinality(network) < MaxInFlight THEN network \cup {m} ELSE network

-----------------------------------------------------------------------------
(***************************************************************************)
(* Peer B: requests on their way to the servers.                           *)
(***************************************************************************)

\* tunnel_handler acknowledges a request and then waits for room for it, in the
\* same loop that AckRecv is an iteration of.
Listens(peer) == ~rxStopped[peer] /\ (IF peer = "A" THEN rxData ELSE rxHold) = <<>>

RequestArrives(c) ==
  /\ asked < MaxRequests
  /\ Listens("B")
  /\ asked' = asked + 1
  /\ rxHold' = <<c>>
  /\ UNCHANGED <<server, reader, wireVars, clientData, dispHold, clQueue, rxStopped, arrivalVars>>

\* The acknowledgement of a request, or of a heart beat, cannot be sent: the loop
\* ends, and with it the reading of acknowledgements.
RxFails ==
  /\ "send" \in Faults
  /\ Listens("B")
  /\ rxStopped' = [rxStopped EXCEPT !["B"] = TRUE]
  /\ UNCHANGED <<server, reader, wireVars, requestVars, arrivalVars>>

PushClientData ==
  /\ rxHold # <<>>
  /\ HasRoom(clientData, ClientDataCap)
  /\ clientData' = clientData \o rxHold
  /\ rxHold' = <<>>
  /\ UNCHANGED <<server, reader, wireVars, asked, dispHold, clQueue, rxStopped, arrivalVars>>

\* The dispatcher takes a request, and holds the map's lock until it has given it on.
Dispatch ==
  /\ dispHold = <<>> /\ clientData # <<>>
  /\ dispHold' = <<Head(clientData)>>
  /\ clientData' = Tail(clientData)
  /\ UNCHANGED <<server, reader, wireVars, asked, rxHold, clQueue, rxStopped, arrivalVars>>

HandOver ==
  /\ dispHold # <<>>
  /\ clQueue[Head(dispHold)] < ClientCap
  /\ clQueue' = [clQueue EXCEPT ![Head(dispHold)] = @ + 1]
  /\ dispHold' = <<>>
  /\ UNCHANGED <<server, reader, wireVars, asked, rxHold, clientData, rxStopped, arrivalVars>>

\* write_all of the InboundClient ends when the server reads. A server that is
\* not patient reads nothing as long as it has an answer to write.
WriteRequest(c) ==
  /\ clQueue[c] > 0
  /\ Patient \/ server[c].owes = 0
  /\ clQueue' = [clQueue EXCEPT ![c] = @ - 1]
  /\ server' = [server EXCEPT ![c].owes = @ + 1]
  /\ UNCHANGED <<reader, wireVars, asked, rxHold, clientData, dispHold, rxStopped, arrivalVars>>

ServerWrites(c) ==
  /\ server[c].owes > 0
  /\ server[c].ahead < SocketCap
  /\ server' = [server EXCEPT ![c].owes = @ - 1, ![c].ahead = @ + 1]
  /\ UNCHANGED <<reader, wireVars, requestVars, rxStopped, arrivalVars>>

-----------------------------------------------------------------------------
(***************************************************************************)
(* Peer B: the reader task of an InboundClient.                            *)
(***************************************************************************)

\* One chunk is read, its waiter is subscribed to the broadcast and spawned.
ReadChunk(c) ==
  /\ reader[c].state = "read"
  /\ server[c].ahead > 0
  /\ server' = [server EXCEPT ![c].ahead = @ - 1]
  /\ reader' = [reader EXCEPT ![c].state = "tick", ![c].ack = "listening", ![c].queue = <<>>]
  /\ UNCHANGED <<wireVars, requestVars, rxStopped, arrivalVars>>

\* End of file, a read error, or "stopped" set by the writing half. Nothing
\* tells peer A.
ReaderStops(c) ==
  /\ "close" \in Faults
  /\ reader[c].state = "read"
  /\ reader' = [reader EXCEPT ![c].state = "stopped"]
  /\ UNCHANGED <<server, wireVars, requestVars, rxStopped, arrivalVars>>

\* A tick that finds the waiter finished, with whatever result.
DoesNotWait(c) == TRUE  \* mutant of AckReceived
AckReceived(c) == reader[c].ack = "finished"

AckObserved(c) ==
  /\ reader[c].state = "tick"
  /\ AckReceived(c)
  /\ reader' = [reader EXCEPT ![c].state = "read", ![c].ack = "idle", ![c].sequence = @ + 1]
  /\ UNCHANGED <<server, wireVars, requestVars, rxStopped, arrivalVars>>

\* A tick that does not: another copy, now or when the channel has room.
Sends(c) ==
  \/ reader[c].state = "tick" /\ ~AckReceived(c)
  \/ reader[c].state = "push"

\* to_tunnel is closed when both loops of tunnel_handler of B have ended.
Closed == txStopped /\ rxStopped["B"]

Resend(c) ==
  /\ Sends(c) /\ ~Closed
  /\ \/ /\ HasRoom(toTunnel, ToTunnelCap)
        /\ toTunnel' = Append(toTunnel, ServerDataDatagram(c, reader[c].sequence))
        /\ reader' = [reader EXCEPT ![c].state = "tick"]
     \/ /\ ~HasRoom(toTunnel, ToTunnelCap)
        /\ reader' = [reader EXCEPT ![c].state = "push"]
        /\ UNCHANGED toTunnel
  /\ UNCHANGED <<server, txStopped, net, ackNet, requestVars, rxStopped, arrivalVars>>

\* Sending into the closed channel, or waiting for its room, is an error: the reader
\* ends, and nothing acknowledges the chunk it has read. Its waiter lives on.
SendFails(c) ==
  /\ Sends(c) /\ Closed
  /\ reader' = [reader EXCEPT ![c].state = "failed"]
  /\ UNCHANGED <<server, wireVars, requestVars, rxStopped, arrivalVars>>

WaiterRecv(c) ==
  /\ \/ /\ reader[c].ack = "lagged"
        /\ reader' = [reader EXCEPT ![c].ack = "finished"]
     \/ /\ reader[c].ack = "listening" /\ reader[c].queue # <<>>
        /\ IF Head(reader[c].queue) = ServerDataDatagram(c, reader[c].sequence)
           THEN reader' = [reader EXCEPT ![c].ack = "finished", ![c].queue = <<>>]
           ELSE reader' = [reader EXCEPT ![c].queue = Tail(@)]
  /\ UNCHANGED <<server, wireVars, requestVars, rxStopped, arrivalVars>>

-----------------------------------------------------------------------------
(***************************************************************************)
(* The tunnel between B and A, which loses, duplicates and reorders.       *)
(***************************************************************************)

TunnelSend ==
  /\ ~txStopped /\ toTunnel # <<>>
  /\ toTunnel' = Tail(toTunnel)
  /\ \/ /\ net' = Transmit(net, Head(toTunnel))
        /\ UNCHANGED txStopped
     \/ /\ "send" \in Faults
        /\ txStopped' = TRUE
        /\ UNCHANGED net
  /\ UNCHANGED <<server, reader, ackNet, requestVars, rxStopped, arrivalVars>>

Lose ==
  /\ \/ \E d \in net : net' = net \ {d} /\ UNCHANGED ackNet
     \/ \E d \in ackNet : ackNet' = ackNet \ {d} /\ UNCHANGED net
  /\ UNCHANGED <<server, reader, toTunnel, txStopped, requestVars, rxStopped, arrivalVars>>

\* A datagram stands for its id here; both name its connection and number.
AckRecv(d) ==
  LET hears == {c \in Conns : reader[c].ack = "listening"}
      overrun == {c \in hears : ~HasRoom(reader[c].queue, AckCap)}
  IN /\ Listens("B")
     /\ d \in ackNet
     /\ "ackLag" \in Faults \/ overrun = {}
     /\ ackNet' \in {ackNet, ackNet \ {d}}
     /\ reader' = [c \in Conns |->
          CASE c \in overrun -> [reader[c] EXCEPT !.ack = "lagged", !.queue = <<>>]
            [] c \in hears \ overrun -> [reader[c] EXCEPT !.queue = Append(@, d)]
            [] OTHER -> reader[c]]
     /\ UNCHANGED <<server, toTunnel, txStopped, net, requestVars, rxStopped, arrivalVars>>

\* The datagram is acknowledged first and forwarded afterwards.
TunnelRecv(d) ==
  /\ Listens("A")
  /\ d \in net
  /\ net' \in {net, net \ {d}}
  /\ ackNet' = Transmit(ackNet, d)
  /\ rxData' = <<d>>
  /\ UNCHANGED <<server, reader, toTunnel, txStopped, requestVars, rxStopped, serverData, writer>>

AckSendFails(d) ==
  /\ "send" \in Faults
  /\ Listens("A")
  /\ d \in net
  /\ net' = net \ {d}
  /\ rxStopped' = [rxStopped EXCEPT !["A"] = TRUE]
  /\ UNCHANGED <<server, reader, toTunnel, txStopped, ackNet, requestVars, arrivalVars>>

-----------------------------------------------------------------------------
(***************************************************************************)
(* Peer A: server_data to the OutboundServer and its connections.          *)
(***************************************************************************)

PushServerData ==
  /\ rxData # <<>>
  /\ HasRoom(serverData, ServerDataCap)
  /\ serverData' = serverData \o rxData
  /\ rxData' = <<>>
  /\ UNCHANGED <<server, reader, wireVars, requestVars, rxStopped, writer>>

\* The OutboundServer never waits: a writer with BroadcastCap datagrams still to
\* take loses the oldest, and its next recv returns the error that ends it.
Broadcast ==
  LET subscribed == {c \in Conns : writer[c].state # "ended"}
      overrun == {c \in subscribed : ~HasRoom(writer[c].queue, BroadcastCap)}
  IN /\ serverData # <<>>
     /\ "lag" \in Faults \/ overrun = {}
     /\ serverData' = Tail(serverData)
     /\ writer' = [c \in Conns |->
          CASE c \in overrun -> [writer[c] EXCEPT !.state = "ended", !.queue = <<>>]
            [] c \in subscribed \ overrun -> [writer[c] EXCEPT !.queue = Append(@, Head(serverData))]
            [] OTHER -> writer[c]]
     /\ UNCHANGED <<server, reader, wireVars, requestVars, rxStopped, rxData>>

AnyPort(d, c) == d.sequence = writer[c].next  \* mutant of Expected
AnySequence(d, c) == d.port = c               \* mutant of Expected
Expected(d, c) == d.port = c /\ d.sequence = writer[c].next

\* An iteration of a writer: what it does not expect it skips. It notices only
\* afterwards that the other half of the connection has set "stopped".
WriterRecv(c) ==
  LET d == Head(writer[c].queue)
      left == [writer[c] EXCEPT
                 !.state = IF @ = "closing" THEN "ended" ELSE @,
                 !.queue = IF writer[c].state = "closing" THEN <<>> ELSE Tail(@)]
  IN /\ writer[c].queue # <<>>
     /\ writer' = [writer EXCEPT ![c] =
          IF Expected(d, c)
          THEN [left EXCEPT !.written = Append(@, d), !.next = @ + 1]
          ELSE left]
     /\ UNCHANGED <<server, reader, wireVars, requestVars, rxStopped, rxData, serverData>>

\* The application closes, or the write to it fails.
ApplicationCloses(c) ==
  /\ "close" \in Faults
  /\ \/ /\ writer[c].state = "recv"
        /\ writer' = [writer EXCEPT ![c].state = "closing"]
     \/ /\ writer[c].state # "ended"
        /\ writer[c].queue # <<>> /\ Expected(Head(writer[c].queue), c)
        /\ writer' = [writer EXCEPT ![c].state = "ended", ![c].queue = <<>>]
  /\ UNCHANGED <<server, reader, wireVars, requestVars, rxStopped, rxData, serverData>>

-----------------------------------------------------------------------------
Requests ==
  \/ RxFails \/ PushClientData \/ Dispatch \/ HandOver
  \/ \E c \in Conns : RequestArrives(c) \/ WriteRequest(c) \/ ServerWrites(c)

Reader(c) ==
  \/ ReadChunk(c) \/ ReaderStops(c) \/ AckObserved(c)
  \/ Resend(c) \/ SendFails(c) \/ WaiterRecv(c)

Tunnel ==
  \/ TunnelSend \/ Lose \/ PushServerData \/ Broadcast
  \/ \E d \in net : TunnelRecv(d) \/ AckSendFails(d)
  \/ \E d \in ackNet : AckRecv(d)

Next ==
  \/ Requests \/ Tunnel
  \/ \E c \in Conns : Reader(c) \/ WriterRecv(c) \/ ApplicationCloses(c)

Spec == Init /\ [][Next]_vars

(***************************************************************************)
(* Fairness, as for TcpUpload: every task that can run is run, servers and *)
(* applications included; the network may lose a datagram again and again, *)
(* but not for ever one that is sent for ever, and goes on repeating only  *)
(* what is sent again and again. Nothing makes a request arrive.           *)
(***************************************************************************)
RecvAgain(d) == TunnelRecv(d) /\ d \in net'
SendsAgain(d) == TunnelSend /\ Head(toTunnel) = d
AckAgain(d) == AckRecv(d) /\ d \in ackNet'

Fairness ==
  /\ WF_vars(TunnelSend) /\ WF_vars(PushServerData) /\ WF_vars(Broadcast)
  /\ WF_vars(PushClientData) /\ WF_vars(Dispatch) /\ WF_vars(HandOver)
  /\ \A c \in Conns :
       /\ WF_vars(WriteRequest(c)) /\ WF_vars(ServerWrites(c))
       /\ WF_vars(ReadChunk(c)) /\ WF_vars(AckObserved(c) \/ Resend(c) \/ SendFails(c))
       /\ WF_vars(WaiterRecv(c)) /\ WF_vars(WriterRecv(c))
  /\ \A d \in Datagrams :
       /\ SF_vars(TunnelRecv(d)) /\ SF_vars(AckRecv(d))
       /\ []<><<RecvAgain(d)>>_vars => []<><<SendsAgain(d)>>_vars
       /\ []<><<AckAgain(d)>>_vars => []<><<TunnelRecv(d)>>_vars

FairSpec == Spec /\ Fairness

-----------------------------------------------------------------------------
(***************************************************************************)
(* Properties.                                                             *)
(***************************************************************************)

\* What an application has read is, at any time, the first chunks its own server
\* wrote: nothing repeated, skipped, reordered or of another connection of the
\* same broadcast, whatever the network, the channels and the faults do.
StreamPrefix ==
  \A c \in Conns :
    writer[c].written = [i \in 1..Len(writer[c].written) |-> ServerDataDatagram(c, i - 1)]

\* A chunk the reader of an InboundClient has moved on from is written or on its
\* way in peer A, unless the application is gone. (Not so with "ackLag", nor, for
\* a slow application, with "lag": README, section 4.)
AckedNotLost ==
  \A c \in Conns : \A n \in 0..(reader[c].sequence - 1) :
    \/ "close" \in Faults /\ writer[c].state # "recv"
    \/ ServerDataDatagram(c, n) \in
         Range(rxData) \cup Range(serverData) \cup Range(writer[c].queue) \cup Range(writer[c].written)

\* The byte stream a connection promises.
Stream == INSTANCE ByteStream WITH
  sent <- [c \in Conns |->
             reader[c].sequence
               + (IF reader[c].state \in {"tick", "push", "failed"} THEN 1 ELSE 0)],
  delivered <- [c \in Conns |-> writer[c].next]

ImplementsStream == Stream!Spec
\* Without faults every chunk a reader takes is delivered in the end.
ImplementsFairStream == Stream!FairSpec

\* tunnel_handler of B does not wait, directly or through others, for itself: while
\* it waits for room, one of the tasks behind it can move. It is the only one that
\* could wake the others: all they can do otherwise is send copies. (Servers that read
\* on before they have answered never keep it waiting.)
NoCircularWait ==
  rxHold # <<>> =>
    \/ ENABLED (PushClientData \/ Dispatch \/ HandOver)
    \/ \E c \in Conns :
         ENABLED (\/ WriteRequest(c) \/ ServerWrites(c)
                  \/ ReadChunk(c) \/ AckObserved(c) \/ WaiterRecv(c))

=============================================================================
