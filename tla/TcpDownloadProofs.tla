-------------------------- MODULE TcpDownloadProofs --------------------------
(***************************************************************************)
(* Proofs about TcpDownload, for every number of connections and requests, *)
(* every capacity and every fault: type correctness, StreamPrefix, that it *)
(* implements ByteStream, and AckedNotLost of unhurried broadcasts.        *)
(***************************************************************************)
EXTENDS TcpDownload, QueueLemmas, TLAPS

\* The chunks of c that its reader has taken, the one it repeats included.
Sent(c) == reader[c].sequence + (IF reader[c].state \in {"tick", "push", "failed"} THEN 1 ELSE 0)

\* Datagrams that have been on their way: no other one is anywhere.
Known == {d \in Datagrams : d.sequence < Sent(d.port)}

\* Chunks c has carried or may still have to carry: each has been asked for.
AtServer(c) == server[c].owes + server[c].ahead
Pending == Len(rxHold) + Len(clientData) + Len(dispHold)
Load(c) == AtServer(c) + Sent(c) + clQueue[c] + Pending

-----------------------------------------------------------------------------
(***************************************************************************)
(* The invariant: TypeOK with reader and writer as functions, what the     *)
(* channels hold, and a budget that bounds the sequence numbers.           *)
(***************************************************************************)
Readers ==
  [state : {"read", "tick", "push", "stopped", "failed"}, sequence : Nat,
   ack : {"idle", "listening", "finished", "lagged"}, queue : Seq(Datagrams)]
Writers ==
  [state : {"recv", "closing", "ended"}, queue : Seq(Datagrams),
   next : Nat, written : Seq(Datagrams)]

TasksTyped ==
  /\ server \in [Conns -> [owes : Nat, ahead : 0..SocketCap]]
  /\ reader \in [Conns -> Readers]
  /\ writer \in [Conns -> Writers]
  /\ \A c \in Conns : writer[c].next = Len(writer[c].written)
  /\ txStopped \in BOOLEAN /\ rxStopped \in [{"A", "B"} -> BOOLEAN]

RequestsTyped ==
  /\ asked \in 0..MaxRequests
  /\ clientData \in Seq(Conns) /\ Len(clientData) <= ClientDataCap
  /\ rxHold \in Seq(Conns) /\ Len(rxHold) <= 1
  /\ dispHold \in Seq(Conns) /\ Len(dispHold) <= 1
  /\ clQueue \in [Conns -> 0..ClientCap]

ChannelsFit ==
  /\ Len(toTunnel) <= ToTunnelCap /\ Len(rxData) <= 1 /\ Len(serverData) <= ServerDataCap
  /\ \A c \in Conns : Len(reader[c].queue) <= AckCap /\ Len(writer[c].queue) <= BroadcastCap

ChannelsHold(S) ==
  /\ toTunnel \in Seq(S) /\ rxData \in Seq(S) /\ serverData \in Seq(S)
  /\ net \subseteq S /\ ackNet \subseteq S
  /\ \A c \in Conns : reader[c].queue \in Seq(S) /\ writer[c].queue \in Seq(S)

WithinBudget == \A c \in Conns : Load(c) <= Unasked[c] + asked

DownloadInv ==
  TasksTyped /\ RequestsTyped /\ ChannelsFit /\ ChannelsHold(Known) /\ WithinBudget

-----------------------------------------------------------------------------
LEMMA SentType ==
  ASSUME TasksTyped, NEW c \in Conns
  PROVE  Sent(c) \in Nat
BY DEF TasksTyped, Readers, Sent

LEMMA KnownGrows ==
  ASSUME TasksTyped, TasksTyped', \A c \in Conns : Sent(c) <= Sent(c)'
  PROVE  Known \subseteq Known'
<1> SUFFICES ASSUME NEW d \in Datagrams, d.sequence < Sent(d.port)
             PROVE  d.sequence < Sent(d.port)'
  BY DEF Known
<1>1. d.port \in Conns /\ d.sequence \in Nat
  BY DEF Datagrams, Sequences
<1>2. Sent(d.port) \in Nat /\ Sent(d.port)' \in Nat
  BY <1>1, SentType DEF TasksTyped, Readers, Sent
<1> QED
  BY <1>1, <1>2

\* What the channels hold, they hold when more is known.
LEMMA HoldMore ==
  ASSUME NEW S, NEW T, ChannelsHold(S), S \subseteq T
  PROVE  ChannelsHold(T)
BY SeqMonotonic DEF ChannelsHold

LEMMA LoadParts ==
  ASSUME TasksTyped, RequestsTyped, NEW c \in Conns
  PROVE  /\ AtServer(c) \in Nat /\ Sent(c) \in Nat /\ clQueue[c] \in Nat /\ Pending \in Nat
         /\ server[c].owes \in Nat /\ server[c].ahead \in Nat
<1>1. /\ server[c].owes \in Nat /\ server[c].ahead \in 0..SocketCap
      /\ clQueue[c] \in 0..ClientCap
  BY DEF TasksTyped, RequestsTyped
<1>2. Len(rxHold) \in Nat /\ Len(clientData) \in Nat /\ Len(dispHold) \in Nat
  BY DEF RequestsTyped
<1> QED
  BY <1>1, <1>2, SentType DEF AtServer, Pending

LEMMA LoadBounds ==
  ASSUME DownloadInv, NEW c \in Conns
  PROVE  /\ Load(c) \in Nat /\ Load(c) <= MaxChunks
         /\ server[c].owes <= MaxChunks /\ Sent(c) <= MaxChunks
         /\ server[c].ahead + Sent(c) <= MaxChunks
<1> DEFINE owes == server[c].owes
           ahead == server[c].ahead
           taken == Sent(c)
           queued == clQueue[c]
           unasked == Unasked[c]
<1>1. owes \in Nat /\ ahead \in Nat /\ taken \in Nat /\ queued \in Nat /\ Pending \in Nat
  BY LoadParts DEF DownloadInv
<1>2. Load(c) = owes + ahead + taken + queued + Pending /\ Load(c) <= unasked + asked
  BY DEF Load, AtServer, DownloadInv, WithinBudget
<1>3. /\ unasked \in Nat /\ MaxRequests \in Nat /\ asked \in 0..MaxRequests
      /\ MaxChunks \in Nat /\ unasked + MaxRequests <= MaxChunks
  BY ConstantsAssumption DEF DownloadInv, RequestsTyped
<1> HIDE DEF owes, ahead, taken, queued, unasked
<1>4. /\ Load(c) \in Nat /\ Load(c) <= MaxChunks
      /\ owes <= MaxChunks /\ taken <= MaxChunks /\ ahead + taken <= MaxChunks
  BY <1>1, <1>2, <1>3
<1> QED
  BY <1>4 DEF owes, ahead, taken

LEMMA InitDownloadInv == Init => DownloadInv
<1> SUFFICES ASSUME Init PROVE DownloadInv
  OBVIOUS
<1>1. \A S : <<>> \in Seq(S) /\ Len(<<>>) = 0
  BY EmptyQueue
<1>2. TasksTyped
  <2>1. 0 \in 0..SocketCap /\ \A c \in Conns : Unasked[c] \in Nat
    BY ConstantsAssumption
  <2>2. server \in [Conns -> [owes : Nat, ahead : 0..SocketCap]]
    BY <2>1 DEF Init
  <2>3. <<>> \in Seq(Datagrams)
    BY <1>1
  <2>4. [state |-> "read", sequence |-> 0, ack |-> "idle", queue |-> <<>>] \in Readers
    BY <2>3 DEF Readers
  <2>5. [state |-> "recv", queue |-> <<>>, next |-> 0, written |-> <<>>] \in Writers
    BY <2>3 DEF Writers
  <2> QED
    BY <1>1, <2>2, <2>4, <2>5 DEF Init, TasksTyped
<1>3. RequestsTyped
  BY <1>1, ConstantsAssumption DEF Init, RequestsTyped
<1>4. ChannelsFit
  BY <1>1, ConstantsAssumption DEF Init, ChannelsFit
<1>5. ChannelsHold(Known)
  BY <1>1 DEF Init, ChannelsHold
<1>6. WithinBudget
  BY <1>1, ConstantsAssumption DEF Init, WithinBudget, Load, AtServer, Pending, Sent
<1> QED
  BY <1>2, <1>3, <1>4, <1>5, <1>6 DEF DownloadInv

LEMMA InvGivesTypeOK == DownloadInv => TypeOK
<1> SUFFICES ASSUME DownloadInv PROVE TypeOK
  OBVIOUS
<1>1. Known \subseteq Datagrams
  BY DEF Known
<1>2. ChannelsHold(Datagrams)
  BY <1>1, HoldMore DEF DownloadInv
<1>3. server \in [Conns -> [owes : 0..MaxChunks, ahead : 0..SocketCap]]
  BY LoadBounds DEF DownloadInv, TasksTyped
<1>4. \A c \in Conns : reader[c].sequence \in 0..MaxChunks
  <2> SUFFICES ASSUME NEW c \in Conns PROVE reader[c].sequence \in 0..MaxChunks
    OBVIOUS
  <2>1. reader[c].sequence \in Nat /\ Sent(c) <= MaxChunks /\ MaxChunks \in Nat
    BY LoadBounds, ConstantsAssumption DEF DownloadInv, TasksTyped, Readers
  <2> QED
    BY <2>1 DEF Sent
<1> QED
  BY <1>2, <1>3, <1>4
  DEF DownloadInv, TypeOK, TasksTyped, RequestsTyped, ChannelsFit, ChannelsHold, Readers, Writers

-----------------------------------------------------------------------------
(***************************************************************************)
(* Every step keeps the invariant. Requests first: they change the load.   *)
(***************************************************************************)

\* The budget of one connection, from what a step adds to the parts of its load.
LEMMA LoadMoves ==
  ASSUME DownloadInv, TasksTyped', RequestsTyped', NEW c \in Conns,
         NEW k \in 0..1, asked' = asked + k,
         AtServer(c)' + Sent(c)' + clQueue'[c] + Pending'
           <= AtServer(c) + Sent(c) + clQueue[c] + Pending + k
  PROVE  Load(c)' <= Unasked[c] + asked'
<1> DEFINE now == AtServer(c) + Sent(c) + clQueue[c] + Pending
           then == AtServer(c)' + Sent(c)' + clQueue'[c] + Pending'
           unasked == Unasked[c]
<1>1. now \in Nat
  BY LoadParts DEF DownloadInv
<1>2. then \in Nat
  <2>1. /\ server'[c].owes \in Nat /\ server'[c].ahead \in 0..SocketCap
        /\ clQueue'[c] \in 0..ClientCap
    BY DEF TasksTyped, RequestsTyped
  <2>2. Sent(c)' \in Nat
    BY DEF TasksTyped, Readers, Sent
  <2>3. Len(rxHold') \in Nat /\ Len(clientData') \in Nat /\ Len(dispHold') \in Nat
    BY DEF RequestsTyped
  <2>4. AtServer(c)' \in Nat /\ Pending' \in Nat /\ clQueue'[c] \in Nat
    BY <2>1, <2>3 DEF AtServer, Pending
  <2> QED
    BY <2>2, <2>4
<1>3. now <= unasked + asked /\ unasked \in Nat /\ asked \in Nat
  BY ConstantsAssumption DEF DownloadInv, WithinBudget, Load, RequestsTyped
<1> QED
  BY <1>1, <1>2, <1>3 DEF Load

LEMMA ChannelsUntouched ==
  ASSUME DownloadInv,
         UNCHANGED <<reader, writer, toTunnel, net, ackNet, rxData, serverData>>
  PROVE  /\ ChannelsFit' /\ ChannelsHold(Known)'
         /\ \A c \in Conns : Sent(c)' = Sent(c)
BY DEF DownloadInv, ChannelsFit, ChannelsHold, Known, Sent

LEMMA RequestsKeepInv ==
  ASSUME DownloadInv, Requests
  PROVE  DownloadInv'
<1> USE DEF wireVars, requestVars, arrivalVars
<1>1. /\ ChannelsFit' /\ ChannelsHold(Known)'
      /\ \A c \in Conns : Sent(c)' = Sent(c)
  BY ChannelsUntouched
  DEF Requests, RxFails, PushClientData, Dispatch, HandOver, RequestArrives, WriteRequest,
      ServerWrites
<1>2. \A c \in Conns : /\ AtServer(c) \in Nat /\ Sent(c) \in Nat /\ clQueue[c] \in Nat
                       /\ Pending \in Nat /\ server[c].owes \in Nat /\ server[c].ahead \in Nat
  BY LoadParts DEF DownloadInv
<1>3. /\ TasksTyped /\ RequestsTyped /\ ClientDataCap \in Nat /\ ClientCap \in Nat /\ SocketCap \in Nat
  BY ConstantsAssumption DEF DownloadInv
<1>4. SUFFICES /\ TasksTyped' /\ RequestsTyped'
               /\ \E k \in 0..1 :
                    /\ asked' = asked + k
                    /\ \A c \in Conns : AtServer(c)' + Sent(c)' + clQueue'[c] + Pending'
                         <= AtServer(c) + Sent(c) + clQueue[c] + Pending + k
  BY <1>1, LoadMoves DEF DownloadInv, WithinBudget
<1>5. CASE RxFails
  <2>1. TasksTyped' /\ RequestsTyped'
    BY <1>3, <1>5 DEF RxFails, TasksTyped, RequestsTyped
  <2>2. asked' = asked + 0
    BY <1>3, <1>5 DEF RxFails, RequestsTyped
  <2>3. \A c \in Conns : AtServer(c)' = AtServer(c) /\ clQueue'[c] = clQueue[c] /\ Pending' = Pending
    BY <1>5 DEF RxFails, AtServer, Pending
  <2> QED
    BY <1>1, <1>2, <2>1, <2>2, <2>3
<1>6. CASE PushClientData
  <2>1. rxHold \in Seq(Conns) /\ Len(rxHold) = 1 /\ clientData \in Seq(Conns)
    BY <1>3, <1>6, HeldOne DEF PushClientData, RequestsTyped
  <2>2. /\ clientData' \in Seq(Conns) /\ Len(clientData') = Len(clientData) + 1
        /\ rxHold' = <<>> /\ rxHold' \in Seq(Conns) /\ Len(rxHold') = 0
    <3>1. clientData' = Append(clientData, Head(rxHold)) /\ Head(rxHold) \in Conns
      <4>1. rxHold # <<>> /\ Len(rxHold) <= 1 /\ clientData' = clientData \o rxHold
        BY <1>6, <2>1 DEF PushClientData
      <4> QED
        BY <2>1, <4>1, PushHeld, Zenon
    <3> QED
      BY <1>6, <2>1, <3>1, PushKeeps, EmptyQueue DEF PushClientData
  <2>3. TasksTyped' /\ RequestsTyped'
    BY <1>3, <1>6, <2>2 DEF PushClientData, TasksTyped, RequestsTyped, HasRoom
  <2>4. Pending' = Pending
    BY <1>3, <1>6, <2>1, <2>2 DEF PushClientData, RequestsTyped, Pending
  <2>5. asked' = asked + 0 /\ \A c \in Conns : AtServer(c)' = AtServer(c) /\ clQueue'[c] = clQueue[c]
    BY <1>3, <1>6 DEF PushClientData, RequestsTyped, AtServer
  <2> QED
    BY <1>1, <1>2, <2>3, <2>4, <2>5
<1>7. CASE Dispatch
  <2>1. /\ Head(clientData) \in Conns /\ clientData' \in Seq(Conns)
        /\ Len(clientData') = Len(clientData) - 1
    BY <1>3, <1>7, PopKeeps DEF Dispatch, RequestsTyped
  <2>2. /\ dispHold = <<>> /\ Len(dispHold) = 0
        /\ dispHold' \in Seq(Conns) /\ Len(dispHold') = 1
    BY <1>7, <2>1, OneInQueue DEF Dispatch
  <2>3. TasksTyped' /\ RequestsTyped'
    BY <1>3, <1>7, <2>1, <2>2 DEF Dispatch, TasksTyped, RequestsTyped
  <2>4. Pending' = Pending
    BY <1>3, <1>7, <2>1, <2>2 DEF Dispatch, RequestsTyped, Pending
  <2>5. asked' = asked + 0 /\ \A c \in Conns : AtServer(c)' = AtServer(c) /\ clQueue'[c] = clQueue[c]
    BY <1>3, <1>7 DEF Dispatch, RequestsTyped, AtServer
  <2> QED
    BY <1>1, <1>2, <2>3, <2>4, <2>5
<1>8. CASE HandOver
  <2>1. /\ Head(dispHold) \in Conns /\ Len(dispHold) = 1
        /\ dispHold' = <<>> /\ dispHold' \in Seq(Conns) /\ Len(dispHold') = 0
    BY <1>3, <1>8, HeldOne, EmptyQueue DEF HandOver, RequestsTyped
  <2>2. clQueue' \in [Conns -> 0..ClientCap]
    BY <1>3, <1>8, <2>1 DEF HandOver, RequestsTyped
  <2>3. TasksTyped' /\ RequestsTyped'
    BY <1>3, <1>8, <2>1, <2>2 DEF HandOver, TasksTyped, RequestsTyped
  <2>4. Pending = Pending' + 1 /\ Pending' \in Nat
    BY <1>3, <1>8, <2>1 DEF HandOver, RequestsTyped, Pending
  <2>5. asked' = asked + 0 /\ \A c \in Conns : AtServer(c)' = AtServer(c)
    BY <1>3, <1>8 DEF HandOver, RequestsTyped, AtServer
  <2>6. \A c \in Conns : clQueue'[c] <= clQueue[c] + 1 /\ clQueue'[c] \in Nat
    BY <1>2, <1>3, <1>8, <2>1 DEF HandOver, RequestsTyped
  <2>7. ASSUME NEW c \in Conns
        PROVE  AtServer(c)' + Sent(c)' + clQueue'[c] + Pending'
                 <= AtServer(c) + Sent(c) + clQueue[c] + Pending + 0
    <3>1. AtServer(c)' = AtServer(c) /\ Sent(c)' = Sent(c)
      BY <1>1, <2>5
    <3>2. /\ AtServer(c) \in Nat /\ Sent(c) \in Nat /\ clQueue[c] \in Nat
          /\ clQueue'[c] \in Nat /\ clQueue'[c] <= clQueue[c] + 1
      BY <1>2, <2>6
    <3> QED
      BY <2>4, <3>1, <3>2
  <2> QED
    BY <2>3, <2>5, <2>7
<1>9. ASSUME NEW c \in Conns, RequestArrives(c)
      PROVE  /\ TasksTyped' /\ RequestsTyped'
             /\ \E k \in 0..1 :
                  /\ asked' = asked + k
                  /\ \A e \in Conns : AtServer(e)' + Sent(e)' + clQueue'[e] + Pending'
                       <= AtServer(e) + Sent(e) + clQueue[e] + Pending + k
  <2>1. rxHold = <<>> /\ Len(rxHold) = 0 /\ rxHold' \in Seq(Conns) /\ Len(rxHold') = 1
    BY <1>9, OneInQueue DEF RequestArrives, Listens
  <2>2. asked' = asked + 1 /\ asked' \in 0..MaxRequests
    BY <1>3, <1>9, ConstantsAssumption DEF RequestArrives, RequestsTyped
  <2>3. TasksTyped' /\ RequestsTyped'
    BY <1>3, <1>9, <2>1, <2>2 DEF RequestArrives, TasksTyped, RequestsTyped
  <2>4. Pending' = Pending + 1
    BY <1>3, <1>9, <2>1 DEF RequestArrives, RequestsTyped, Pending
  <2>5. \A e \in Conns : AtServer(e)' = AtServer(e) /\ clQueue'[e] = clQueue[e]
    BY <1>9 DEF RequestArrives, AtServer
  <2> QED
    BY <1>1, <1>2, <2>2, <2>3, <2>4, <2>5
<1>10. ASSUME NEW c \in Conns, WriteRequest(c)
       PROVE  /\ TasksTyped' /\ RequestsTyped' /\ asked' = asked + 0 /\ Pending' = Pending
              /\ \A e \in Conns : AtServer(e)' + clQueue'[e] = AtServer(e) + clQueue[e]
  <2>1. server' = [server EXCEPT ![c] = [server[c] EXCEPT !.owes = server[c].owes + 1]]
    BY <1>10 DEF WriteRequest
  <2>2. [server[c] EXCEPT !.owes = server[c].owes + 1] \in [owes : Nat, ahead : 0..SocketCap]
    <3>1. server[c] \in [owes : Nat, ahead : 0..SocketCap]
      BY <1>3 DEF TasksTyped
    <3> QED
      BY <3>1
  <2>3. TasksTyped'
    BY <1>3, <1>10, <2>1, <2>2 DEF WriteRequest, TasksTyped
  <2>4. clQueue[c] \in 0..ClientCap /\ clQueue[c] > 0
    BY <1>3, <1>10 DEF WriteRequest, RequestsTyped
  <2>5. RequestsTyped' /\ Pending' = Pending /\ asked' = asked + 0
    BY <1>3, <1>10, <2>4 DEF WriteRequest, RequestsTyped, Pending
  <2>6. \A e \in Conns : /\ server'[e].ahead = server[e].ahead
                         /\ server'[e].owes = IF e = c THEN server[e].owes + 1 ELSE server[e].owes
    BY <1>3, <2>1 DEF TasksTyped
  <2>7. \A e \in Conns : clQueue'[e] = IF e = c THEN clQueue[e] - 1 ELSE clQueue[e]
    BY <1>3, <1>10 DEF WriteRequest, RequestsTyped
  <2>8. \A e \in Conns : AtServer(e)' + clQueue'[e] = AtServer(e) + clQueue[e]
    BY <1>2, <2>6, <2>7 DEF AtServer
  <2> QED
    BY <2>3, <2>5, <2>8
<1>11. ASSUME NEW c \in Conns, ServerWrites(c)
       PROVE  /\ TasksTyped' /\ RequestsTyped' /\ asked' = asked + 0 /\ Pending' = Pending
              /\ \A e \in Conns : AtServer(e)' + clQueue'[e] = AtServer(e) + clQueue[e]
  <2> DEFINE s == [server[c] EXCEPT !.owes = server[c].owes - 1, !.ahead = server[c].ahead + 1]
  <2>1. server' = [server EXCEPT ![c] = s]
    BY <1>11 DEF ServerWrites
  <2>2. server[c] \in [owes : Nat, ahead : 0..SocketCap] /\ server[c].owes > 0 /\ server[c].ahead < SocketCap
    BY <1>3, <1>11 DEF ServerWrites, TasksTyped
  <2>3. /\ s \in [owes : Nat, ahead : 0..SocketCap]
        /\ s.owes = server[c].owes - 1 /\ s.ahead = server[c].ahead + 1
    <3>1. /\ server[c].owes - 1 \in Nat /\ server[c].ahead + 1 \in 0..SocketCap
      BY <1>3, <2>2
    <3> QED
      BY <2>2, <3>1
  <2> HIDE DEF s
  <2>4. TasksTyped'
    BY <1>3, <1>11, <2>1, <2>3 DEF ServerWrites, TasksTyped
  <2>5. RequestsTyped' /\ Pending' = Pending /\ asked' = asked + 0 /\ clQueue' = clQueue
    BY <1>3, <1>11 DEF ServerWrites, RequestsTyped, Pending
  <2>6. \A e \in Conns : AtServer(e)' = AtServer(e)
    BY <1>2, <1>3, <2>1, <2>3 DEF AtServer, TasksTyped
  <2> QED
    BY <2>4, <2>5, <2>6
<1>12. ASSUME TasksTyped', RequestsTyped', asked' = asked + 0, Pending' = Pending,
              \A e \in Conns : AtServer(e)' + clQueue'[e] = AtServer(e) + clQueue[e]
       PROVE  \A e \in Conns : AtServer(e)' + Sent(e)' + clQueue'[e] + Pending'
                <= AtServer(e) + Sent(e) + clQueue[e] + Pending + 0
  <2> SUFFICES ASSUME NEW e \in Conns
               PROVE  AtServer(e)' + Sent(e)' + clQueue'[e] + Pending'
                        <= AtServer(e) + Sent(e) + clQueue[e] + Pending + 0
    OBVIOUS
  <2>1. server'[e].owes \in Nat /\ server'[e].ahead \in 0..SocketCap /\ clQueue'[e] \in 0..ClientCap
    BY <1>12 DEF TasksTyped, RequestsTyped
  <2>2. AtServer(e)' \in Nat /\ clQueue'[e] \in Nat
    BY <2>1 DEF AtServer
  <2> QED
    BY <1>1, <1>2, <1>12, <2>2
<1> QED
  BY <1>5, <1>6, <1>7, <1>8, <1>9, <1>10, <1>11, <1>12 DEF Requests

-----------------------------------------------------------------------------
(***************************************************************************)
(* The reader of an InboundClient and its waiter.                          *)
(***************************************************************************)
SentBy(r) == r.sequence + (IF r.state \in {"tick", "push", "failed"} THEN 1 ELSE 0)

\* A step of one reader, which may take k chunks and may send a copy.
ReaderMove(c, r, k) ==
  /\ reader' = [reader EXCEPT ![c] = r]
  /\ server' = [server EXCEPT ![c] = [@ EXCEPT !.ahead = server[c].ahead - k]]
  /\ Sent(c) <= SentBy(r) /\ SentBy(r) <= Sent(c) + k
  /\ r.queue \in Seq(Known) /\ Len(r.queue) <= AckCap
  /\ toTunnel' \in Seq(Known) /\ Len(toTunnel') <= ToTunnelCap
  /\ UNCHANGED <<writer, txStopped, rxStopped, requestVars, net, ackNet, rxData, serverData>>

\* What the channels hold after a step was known before it.
LEMMA HoldLater ==
  ASSUME Known \subseteq Known',
         toTunnel' \in Seq(Known), rxData' \in Seq(Known), serverData' \in Seq(Known),
         net' \subseteq Known, ackNet' \subseteq Known,
         \A c \in Conns : reader'[c].queue \in Seq(Known) /\ writer'[c].queue \in Seq(Known)
  PROVE  ChannelsHold(Known)'
<1>1. \A q \in Seq(Known) : q \in Seq(Known')
  BY SeqMonotonic
<1> QED
  BY <1>1 DEF ChannelsHold

LEMMA ReaderMoveKeepsInv ==
  ASSUME DownloadInv, NEW c \in Conns, NEW r \in Readers, NEW k \in 0..server[c].ahead,
         ReaderMove(c, r, k)
  PROVE  DownloadInv'
<1> USE DEF requestVars
<1>1. TasksTyped /\ RequestsTyped /\ ChannelsFit /\ ChannelsHold(Known)
  BY DEF DownloadInv
<1>2. server[c] \in [owes : Nat, ahead : 0..SocketCap] /\ SocketCap \in Nat
  BY <1>1, ConstantsAssumption DEF TasksTyped
<1>3. k \in Nat /\ server[c].ahead - k \in 0..SocketCap
  BY <1>2
<1>4. server' \in [Conns -> [owes : Nat, ahead : 0..SocketCap]]
  <2>1. [server[c] EXCEPT !.ahead = server[c].ahead - k] \in [owes : Nat, ahead : 0..SocketCap]
    BY <1>2, <1>3
  <2>2. server' = [server EXCEPT ![c] = [server[c] EXCEPT !.ahead = server[c].ahead - k]]
    BY DEF ReaderMove
  <2> QED
    BY <1>1, <2>1, <2>2 DEF TasksTyped
<1>5. reader' \in [Conns -> Readers] /\ reader'[c] = r /\ \A e \in Conns : e # c => reader'[e] = reader[e]
  BY <1>1 DEF TasksTyped, ReaderMove
<1>6. TasksTyped' /\ RequestsTyped'
  BY <1>1, <1>4, <1>5 DEF TasksTyped, RequestsTyped, ReaderMove
<1>7. ChannelsFit'
  BY <1>1, <1>5 DEF ChannelsFit, ReaderMove
<1>8. Sent(c)' = SentBy(r) /\ \A e \in Conns : e # c => Sent(e)' = Sent(e)
  BY <1>5 DEF Sent, SentBy
<1>9. ASSUME NEW e \in Conns PROVE Sent(e) <= Sent(e)'
  <2>1. Sent(e) \in Nat
    BY <1>1, SentType
  <2> QED
    BY <1>8, <2>1 DEF ReaderMove
<1>10. ChannelsHold(Known)'
  <2>1. Known \subseteq Known'
    BY <1>1, <1>6, <1>9, KnownGrows
  <2>2. \A e \in Conns : reader'[e].queue \in Seq(Known) /\ writer'[e].queue \in Seq(Known)
    BY <1>1, <1>5 DEF ChannelsHold, ReaderMove
  <2> QED
    BY <1>1, <2>1, <2>2, HoldLater DEF ChannelsHold, ReaderMove
<1>11. ASSUME NEW e \in Conns PROVE Load(e)' <= Unasked[e] + asked'
  <2>1. Pending' = Pending /\ clQueue'[e] = clQueue[e]
    BY DEF Pending, ReaderMove
  <2>2. /\ AtServer(e) \in Nat /\ Sent(e) \in Nat /\ clQueue[e] \in Nat /\ Pending \in Nat
        /\ server[e].owes \in Nat /\ server[e].ahead \in Nat
    BY <1>1, LoadParts
  <2>3. AtServer(e)' = IF e = c THEN AtServer(e) - k ELSE AtServer(e)
    <3>1. /\ server'[e].owes = server[e].owes
          /\ server'[e].ahead = IF e = c THEN server[e].ahead - k ELSE server[e].ahead
      BY <1>1 DEF TasksTyped, ReaderMove
    <3> QED
      BY <1>3, <2>2, <3>1 DEF AtServer
  <2>4. SentBy(r) \in Nat /\ SentBy(r) <= Sent(c) + k
    BY DEF SentBy, Readers, ReaderMove
  <2>5. AtServer(e)' + Sent(e)' + clQueue'[e] + Pending'
          <= AtServer(e) + Sent(e) + clQueue[e] + Pending + 0
    <3>1. CASE e = c
      BY <1>3, <1>8, <2>1, <2>2, <2>3, <2>4, <3>1
    <3>2. CASE e # c
      BY <1>8, <2>1, <2>2, <2>3, <3>2
    <3> QED
      BY <3>1, <3>2
  <2>6. asked' = asked + 0 /\ 0 \in 0..1
    BY <1>1 DEF RequestsTyped, ReaderMove
  <2> QED
    BY <1>6, <2>5, <2>6, LoadMoves
<1> QED
  BY <1>6, <1>7, <1>10, <1>11 DEF DownloadInv, WithinBudget

LEMMA ReaderParts ==
  ASSUME NEW r \in Readers
  PROVE  /\ r.sequence \in Nat /\ r.queue \in Seq(Datagrams)
         /\ r.state \in {"read", "tick", "push", "stopped", "failed"}
         /\ r.ack \in {"idle", "listening", "finished", "lagged"}
         /\ r = [state |-> r.state, sequence |-> r.sequence, ack |-> r.ack, queue |-> r.queue]
BY DEF Readers

LEMMA ReaderKeepsInv ==
  ASSUME DownloadInv, NEW c \in Conns, Reader(c)
  PROVE  DownloadInv'
<1> USE DEF wireVars, requestVars, arrivalVars
<1>1. /\ reader \in [Conns -> Readers] /\ server \in [Conns -> [owes : Nat, ahead : 0..SocketCap]]
      /\ toTunnel \in Seq(Known) /\ Len(toTunnel) <= ToTunnelCap
      /\ reader[c].queue \in Seq(Known) /\ Len(reader[c].queue) <= AckCap
      /\ AckCap \in Nat /\ SocketCap \in Nat /\ ToTunnelCap \in Nat
  BY ConstantsAssumption DEF DownloadInv, TasksTyped, ChannelsFit, ChannelsHold
<1>2. /\ reader[c] \in Readers /\ server[c] \in [owes : Nat, ahead : 0..SocketCap]
      /\ server[c].ahead \in Nat /\ Sent(c) = SentBy(reader[c]) /\ Sent(c) \in Nat
      /\ reader[c].sequence \in Nat /\ reader[c].queue \in Seq(Datagrams)
      /\ reader[c].state \in {"read", "tick", "push", "stopped", "failed"}
      /\ reader[c].ack \in {"idle", "listening", "finished", "lagged"}
  BY <1>1, SentType, ReaderParts DEF DownloadInv, Sent, SentBy
<1>3. \A S : <<>> \in Seq(S) /\ Len(<<>>) = 0
  BY EmptyQueue
<1>4. UNCHANGED <<writer, txStopped, rxStopped, requestVars, net, ackNet, rxData, serverData>>
  BY DEF Reader, ReadChunk, ReaderStops, AckObserved, Resend, SendFails, WaiterRecv
<1>5. 0 \in 0..server[c].ahead /\ server = [server EXCEPT ![c] = [@ EXCEPT !.ahead = server[c].ahead - 0]]
  <2>1. [server[c] EXCEPT !.ahead = server[c].ahead - 0] = server[c]
    BY <1>2
  <2> QED
    BY <1>1, <1>2, <2>1
<1>6. CASE ReadChunk(c)
  <2> DEFINE r == [reader[c] EXCEPT !.state = "tick", !.ack = "listening", !.queue = <<>>]
  <2>1. reader' = [reader EXCEPT ![c] = r]
    BY <1>1, <1>6 DEF ReadChunk
  <2>2. /\ r.state = "tick" /\ r.sequence = reader[c].sequence /\ r.queue = <<>> /\ r \in Readers
    BY <1>2, <1>3 DEF Readers
  <2>3. 1 \in 0..server[c].ahead /\ toTunnel' = toTunnel
        /\ server' = [server EXCEPT ![c] = [@ EXCEPT !.ahead = server[c].ahead - 1]]
    BY <1>2, <1>6 DEF ReadChunk
  <2> HIDE DEF r
  <2>4. SentBy(r) = Sent(c) + 1
    BY <1>2, <1>6, <2>2 DEF ReadChunk, SentBy
  <2>5. ReaderMove(c, r, 1)
    BY <1>1, <1>2, <1>3, <1>4, <2>1, <2>2, <2>3, <2>4 DEF ReaderMove
  <2> QED
    BY <2>2, <2>3, <2>5, ReaderMoveKeepsInv
<1>7. CASE ReaderStops(c)
  <2> DEFINE r == [reader[c] EXCEPT !.state = "stopped"]
  <2>1. reader' = [reader EXCEPT ![c] = r] /\ server' = server /\ toTunnel' = toTunnel
    BY <1>1, <1>7 DEF ReaderStops
  <2>2. r \in Readers /\ SentBy(r) = Sent(c) /\ r.queue = reader[c].queue
    BY <1>2, <1>7 DEF ReaderStops, Readers, SentBy
  <2> HIDE DEF r
  <2>3. ReaderMove(c, r, 0)
    BY <1>1, <1>2, <1>4, <1>5, <2>1, <2>2 DEF ReaderMove
  <2> QED
    BY <1>5, <2>2, <2>3, ReaderMoveKeepsInv
<1>8. CASE AckObserved(c)
  <2> DEFINE n == reader[c].sequence + 1
             r == [reader[c] EXCEPT !.state = "read", !.ack = "idle", !.sequence = n]
  <2>1. reader' = [reader EXCEPT ![c] = r] /\ server' = server /\ toTunnel' = toTunnel
    BY <1>1, <1>8 DEF AckObserved
  <2>2. n \in Nat /\ Sent(c) = n
    BY <1>2, <1>8 DEF AckObserved, SentBy
  <2> HIDE DEF n
  <2>3. r \in Readers /\ r.state = "read" /\ r.sequence = n /\ r.queue = reader[c].queue
    BY <1>2, <2>2 DEF Readers
  <2> HIDE DEF r
  <2>4. SentBy(r) = Sent(c)
    BY <2>2, <2>3 DEF SentBy
  <2>5. ReaderMove(c, r, 0)
    BY <1>1, <1>2, <1>4, <1>5, <2>1, <2>3, <2>4 DEF ReaderMove
  <2> QED
    BY <1>5, <2>3, <2>5, ReaderMoveKeepsInv
<1>9. CASE Resend(c)
  <2>1. PICK s \in {"tick", "push"} : reader' = [reader EXCEPT ![c].state = s]
    BY <1>9 DEF Resend
  <2> DEFINE r == [reader[c] EXCEPT !.state = s]
             d == ServerDataDatagram(c, reader[c].sequence)
  <2>2. reader' = [reader EXCEPT ![c] = r] /\ server' = server
    BY <1>1, <1>9, <2>1 DEF Resend
  <2>3. reader[c].state \in {"tick", "push"}
    BY <1>9 DEF Resend, Sends
  <2>4. r \in Readers /\ SentBy(r) = Sent(c) /\ r.queue = reader[c].queue
    BY <1>2, <2>3 DEF Readers, SentBy
  <2>5. d \in Known
    <3>1. Sent(c) = reader[c].sequence + 1 /\ reader[c].sequence \in Nat
      BY <1>2, <2>3 DEF SentBy
    <3>2. Sent(c) <= MaxChunks /\ MaxChunks \in Nat
      BY LoadBounds, ConstantsAssumption
    <3>3. reader[c].sequence \in Sequences /\ reader[c].sequence < Sent(c)
      BY <3>1, <3>2 DEF Sequences
    <3> QED
      BY <3>3 DEF Known, Datagrams, ServerDataDatagram
  <2>6. toTunnel' = toTunnel \/ (HasRoom(toTunnel, ToTunnelCap) /\ toTunnel' = Append(toTunnel, d))
    BY <1>9 DEF Resend
  <2> HIDE DEF r, d
  <2>7. toTunnel' \in Seq(Known) /\ Len(toTunnel') <= ToTunnelCap
    <3>1. Append(toTunnel, d) \in Seq(Known) /\ Len(Append(toTunnel, d)) = Len(toTunnel) + 1
      BY <1>1, <2>5, PushKeeps
    <3>2. CASE toTunnel' = toTunnel
      BY <1>1, <3>2
    <3>3. CASE Len(toTunnel) < ToTunnelCap /\ toTunnel' = Append(toTunnel, d)
      <4>1. Len(toTunnel) \in Nat
        BY <1>1
      <4>2. Len(Append(toTunnel, d)) <= ToTunnelCap
        BY <1>1, <3>1, <3>3, <4>1
      <4> QED
        BY <3>1, <3>3, <4>2
    <3> QED
      BY <2>6, <3>2, <3>3 DEF HasRoom
  <2>8. ReaderMove(c, r, 0)
    BY <1>1, <1>2, <1>4, <1>5, <2>2, <2>4, <2>7 DEF ReaderMove
  <2> QED
    BY <1>5, <2>4, <2>8, ReaderMoveKeepsInv
<1>10. CASE SendFails(c)
  <2> DEFINE r == [reader[c] EXCEPT !.state = "failed"]
  <2>1. /\ reader' = [reader EXCEPT ![c] = r] /\ server' = server /\ toTunnel' = toTunnel
        /\ reader[c].state \in {"tick", "push"}
    BY <1>1, <1>10 DEF SendFails, Sends
  <2>2. r \in Readers /\ SentBy(r) = Sent(c) /\ r.queue = reader[c].queue
    BY <1>2, <2>1 DEF Readers, SentBy
  <2> HIDE DEF r
  <2>3. ReaderMove(c, r, 0)
    BY <1>1, <1>2, <1>4, <1>5, <2>1, <2>2 DEF ReaderMove
  <2> QED
    BY <1>5, <2>2, <2>3, ReaderMoveKeepsInv
<1>11. CASE WaiterRecv(c)
  <2>1. \E a \in {"listening", "finished"} : \E q \in {reader[c].queue, <<>>, Tail(reader[c].queue)} :
          /\ reader' = [reader EXCEPT ![c] = [reader[c] EXCEPT !.ack = a, !.queue = q]]
          /\ q = reader[c].queue \/ reader[c].queue # <<>>
    <3>1. CASE reader' = [reader EXCEPT ![c].ack = "finished"]
      <4>1. [reader[c] EXCEPT !.ack = "finished"] =
              [reader[c] EXCEPT !.ack = "finished", !.queue = reader[c].queue]
        BY <1>2 DEF Readers
      <4> QED
        BY <3>1, <4>1
    <3>2. CASE reader[c].queue # <<>> /\ reader' = [reader EXCEPT ![c].ack = "finished", ![c].queue = <<>>]
      BY <1>1, <3>2
    <3>3. CASE /\ reader[c].ack = "listening" /\ reader[c].queue # <<>>
               /\ reader' = [reader EXCEPT ![c].queue = Tail(@)]
      <4>1. [reader[c] EXCEPT !.queue = Tail(reader[c].queue)] =
              [reader[c] EXCEPT !.ack = "listening", !.queue = Tail(reader[c].queue)]
        BY <1>2, <3>3 DEF Readers
      <4> QED
        BY <3>3, <4>1
    <3> QED
      BY <1>11, <3>1, <3>2, <3>3 DEF WaiterRecv
  <2>2. PICK a \in {"listening", "finished"}, q \in {reader[c].queue, <<>>, Tail(reader[c].queue)} :
          /\ reader' = [reader EXCEPT ![c] = [reader[c] EXCEPT !.ack = a, !.queue = q]]
          /\ q = reader[c].queue \/ reader[c].queue # <<>>
    BY <2>1
  <2> DEFINE r == [reader[c] EXCEPT !.ack = a, !.queue = q]
  <2>3. q \in Seq(Known) /\ q \in Seq(Datagrams) /\ Len(q) <= AckCap
    <3>1. CASE q = Tail(reader[c].queue) /\ reader[c].queue # <<>>
      <4>1. Len(reader[c].queue) \in Nat
        BY <1>2
      <4>2. /\ Tail(reader[c].queue) \in Seq(Known) /\ Tail(reader[c].queue) \in Seq(Datagrams)
            /\ Len(Tail(reader[c].queue)) = Len(reader[c].queue) - 1
        BY <1>1, <1>2, <3>1, PopKeeps
      <4> QED
        BY <1>1, <3>1, <4>1, <4>2
    <3>2. CASE q = reader[c].queue
      BY <1>1, <1>2, <3>2
    <3>3. CASE q = <<>>
      BY <1>1, <1>3, <3>3
    <3> QED
      BY <2>2, <3>1, <3>2, <3>3
  <2>4. r \in Readers /\ SentBy(r) = Sent(c) /\ r.queue = q
    BY <1>2, <2>3 DEF Readers, SentBy
  <2>5. reader' = [reader EXCEPT ![c] = r] /\ server' = server /\ toTunnel' = toTunnel
    BY <1>11, <2>2 DEF WaiterRecv
  <2> HIDE DEF r
  <2>6. ReaderMove(c, r, 0)
    BY <1>1, <1>2, <1>4, <1>5, <2>3, <2>4, <2>5 DEF ReaderMove
  <2> QED
    BY <1>5, <2>4, <2>6, ReaderMoveKeepsInv
<1> QED
  BY <1>6, <1>7, <1>8, <1>9, <1>10, <1>11 DEF Reader

-----------------------------------------------------------------------------
(***************************************************************************)
(* The tunnel and the writers.                                             *)
(***************************************************************************)

\* A step that takes no chunk: nothing is known that was not known before.
LEMMA QuietStep ==
  ASSUME DownloadInv, UNCHANGED <<server, requestVars>>,
         reader' \in [Conns -> Readers], \A c \in Conns : Sent(c)' = Sent(c),
         TasksTyped', ChannelsFit', ChannelsHold(Known)'
  PROVE  DownloadInv'
<1> USE DEF requestVars
<1>1. RequestsTyped'
  BY DEF DownloadInv, RequestsTyped
<1>2. WithinBudget'
  BY DEF DownloadInv, WithinBudget, Load, AtServer, Pending
<1> QED
  BY <1>1, <1>2 DEF DownloadInv

LEMMA SameSentSameKnown ==
  ASSUME \A c \in Conns : Sent(c)' = Sent(c)
  PROVE  Known' = Known
BY DEF Known, Datagrams

LEMMA TransmitKeeps ==
  ASSUME NEW S, NEW network, network \subseteq S, NEW m \in S
  PROVE  Transmit(network, m) \subseteq S
BY DEF Transmit

LEMMA NetKeepsInv ==
  ASSUME DownloadInv,
         \/ TunnelSend \/ Lose \/ \E d \in net : TunnelRecv(d) \/ AckSendFails(d)
         \/ PushServerData
  PROVE  DownloadInv'
<1> USE DEF wireVars, requestVars, arrivalVars
<1>1. /\ TasksTyped /\ ChannelsFit /\ ChannelsHold(Known)
      /\ toTunnel \in Seq(Known) /\ rxData \in Seq(Known) /\ serverData \in Seq(Known)
      /\ net \subseteq Known /\ ackNet \subseteq Known
      /\ Len(toTunnel) <= ToTunnelCap /\ Len(rxData) <= 1 /\ Len(serverData) <= ServerDataCap
      /\ ToTunnelCap \in Nat /\ ServerDataCap \in Nat
  BY ConstantsAssumption DEF DownloadInv, ChannelsFit, ChannelsHold
<1>2. UNCHANGED <<server, reader, requestVars, writer>>
  BY DEF TunnelSend, Lose, TunnelRecv, AckSendFails, PushServerData
<1>3. (\A c \in Conns : Sent(c)' = Sent(c)) /\ Known' = Known
  <2>1. \A c \in Conns : Sent(c)' = Sent(c)
    BY <1>2 DEF Sent
  <2> QED
    BY <2>1, SameSentSameKnown
<1>4. txStopped' \in BOOLEAN /\ rxStopped' \in [{"A", "B"} -> BOOLEAN]
  BY <1>1 DEF TunnelSend, Lose, TunnelRecv, AckSendFails, PushServerData, TasksTyped
<1>5. TasksTyped'
  BY <1>1, <1>2, <1>4 DEF TasksTyped
<1>6. /\ toTunnel' \in Seq(Known) /\ Len(toTunnel') <= ToTunnelCap
      /\ net' \subseteq Known /\ ackNet' \subseteq Known
      /\ rxData' \in Seq(Known) /\ Len(rxData') <= 1
      /\ serverData' \in Seq(Known) /\ Len(serverData') <= ServerDataCap
  <2>1. CASE TunnelSend
    <3>1. /\ Head(toTunnel) \in Known /\ Tail(toTunnel) \in Seq(Known)
          /\ Len(Tail(toTunnel)) = Len(toTunnel) - 1
      BY <1>1, <2>1, PopKeeps DEF TunnelSend
    <3>2. Len(Tail(toTunnel)) <= ToTunnelCap
      BY <1>1, <3>1
    <3>3. net' \subseteq Known
      BY <1>1, <2>1, <3>1, TransmitKeeps DEF TunnelSend
    <3> QED
      BY <1>1, <2>1, <3>1, <3>2, <3>3 DEF TunnelSend
  <2>2. CASE Lose
    BY <1>1, <2>2 DEF Lose
  <2>3. ASSUME NEW d \in net, TunnelRecv(d)
        PROVE  /\ toTunnel' = toTunnel /\ net' \subseteq Known /\ ackNet' \subseteq Known
               /\ rxData' \in Seq(Known) /\ Len(rxData') <= 1 /\ serverData' = serverData
    <3>1. d \in Known
      BY <1>1
    <3>2. rxData' \in Seq(Known) /\ Len(rxData') <= 1
      BY <2>3, <3>1, OneInQueue DEF TunnelRecv
    <3>3. ackNet' \subseteq Known
      BY <1>1, <2>3, <3>1, TransmitKeeps DEF TunnelRecv
    <3> QED
      BY <1>1, <2>3, <3>2, <3>3 DEF TunnelRecv
  <2>4. ASSUME NEW d \in net, AckSendFails(d)
        PROVE  /\ net' \subseteq Known
               /\ UNCHANGED <<toTunnel, ackNet, rxData, serverData>>
    BY <1>1, <2>4 DEF AckSendFails
  <2>5. CASE PushServerData
    <3>1. serverData' = Append(serverData, Head(rxData)) /\ Head(rxData) \in Known
      <4>1. rxData # <<>> /\ serverData' = serverData \o rxData
        BY <2>5 DEF PushServerData
      <4> QED
        BY <1>1, <4>1, PushHeld, Zenon
    <3>2. serverData' \in Seq(Known) /\ Len(serverData') = Len(serverData) + 1
      BY <1>1, <3>1, PushKeeps
    <3>3. Len(serverData) \in Nat /\ Len(serverData) < ServerDataCap
      BY <1>1, <2>5 DEF PushServerData, HasRoom
    <3>4. Len(serverData') <= ServerDataCap
      BY <1>1, <3>2, <3>3
    <3>5. rxData' = <<>> /\ rxData' \in Seq(Known) /\ Len(rxData') = 0
      BY <2>5, EmptyQueue DEF PushServerData
    <3> QED
      BY <1>1, <2>5, <3>2, <3>4, <3>5 DEF PushServerData
  <2> QED
    BY <1>1, <2>1, <2>2, <2>3, <2>4, <2>5
<1>7. ChannelsFit'
  BY <1>1, <1>2, <1>6 DEF ChannelsFit
<1>8. ChannelsHold(Known)'
  BY <1>1, <1>2, <1>3, <1>6 DEF ChannelsHold
<1> QED
  BY <1>1, <1>2, <1>3, <1>5, <1>7, <1>8, QuietStep DEF TasksTyped

LEMMA AckRecvKeepsInv ==
  ASSUME DownloadInv, NEW d \in ackNet, AckRecv(d)
  PROVE  DownloadInv'
<1> USE DEF requestVars, arrivalVars
<1>1. /\ TasksTyped /\ ChannelsFit /\ ChannelsHold(Known) /\ d \in Known /\ d \in Datagrams
      /\ reader \in [Conns -> Readers] /\ AckCap \in Nat
  BY ConstantsAssumption DEF DownloadInv, TasksTyped, ChannelsHold, Known
<1>2. ASSUME NEW c \in Conns
      PROVE  /\ reader'[c] \in Readers
             /\ reader'[c].state = reader[c].state /\ reader'[c].sequence = reader[c].sequence
             /\ reader'[c].queue \in Seq(Known) /\ Len(reader'[c].queue) <= AckCap
  <2> DEFINE q == reader[c].queue
  <2>1. /\ reader[c] \in Readers /\ q \in Seq(Known) /\ q \in Seq(Datagrams)
        /\ Len(q) <= AckCap /\ Len(q) \in Nat
    BY <1>1, ReaderParts DEF ChannelsHold, ChannelsFit
  <2>2. CASE reader'[c] = [reader[c] EXCEPT !.ack = "lagged", !.queue = <<>>]
    <3>1. <<>> \in Seq(Known) /\ <<>> \in Seq(Datagrams) /\ Len(<<>>) = 0
      BY EmptyQueue
    <3>2. /\ reader'[c].queue = <<>> /\ reader'[c].state = reader[c].state
          /\ reader'[c].sequence = reader[c].sequence /\ reader'[c] \in Readers
      BY <2>1, <2>2, <3>1 DEF Readers
    <3> QED
      BY <1>1, <3>1, <3>2
  <2>3. CASE HasRoom(q, AckCap) /\ reader'[c] = [reader[c] EXCEPT !.queue = Append(@, d)]
    <3>1. /\ Append(q, d) \in Seq(Known) /\ Append(q, d) \in Seq(Datagrams)
          /\ Len(Append(q, d)) = Len(q) + 1
      BY <1>1, <2>1, PushKeeps
    <3>2. Len(Append(q, d)) <= AckCap
      BY <1>1, <2>1, <2>3, <3>1 DEF HasRoom
    <3> QED
      BY <2>1, <2>3, <3>1, <3>2 DEF Readers
  <2>4. CASE reader'[c] = reader[c]
    BY <2>1, <2>4
  <2> QED
    BY <1>1, <2>2, <2>3, <2>4 DEF AckRecv
<1>3. reader' \in [Conns -> Readers]
  <2>1. reader' = [c \in Conns |-> reader'[c]]
    BY DEF AckRecv
  <2> QED
    BY <1>2, <2>1
<1>4. (\A c \in Conns : Sent(c)' = Sent(c)) /\ Known' = Known
  <2>1. \A c \in Conns : Sent(c)' = Sent(c)
    BY <1>2 DEF Sent
  <2> QED
    BY <2>1, SameSentSameKnown
<1>5. ackNet' \subseteq ackNet
      /\ UNCHANGED <<server, toTunnel, txStopped, net, requestVars, rxStopped, arrivalVars>>
  BY DEF AckRecv
<1>6. TasksTyped' /\ ChannelsFit'
  BY <1>1, <1>2, <1>3, <1>5 DEF TasksTyped, ChannelsFit
<1>7. ChannelsHold(Known)'
  BY <1>1, <1>2, <1>4, <1>5 DEF ChannelsHold
<1> QED
  BY <1>3, <1>4, <1>5, <1>6, <1>7, QuietStep

LEMMA WritersMoveKeepsInv ==
  ASSUME DownloadInv,
         writer' \in [Conns -> Writers],
         \A c \in Conns : /\ writer'[c].next = Len(writer'[c].written)
                          /\ writer'[c].queue \in Seq(Known)
                          /\ Len(writer'[c].queue) <= BroadcastCap,
         serverData' \in Seq(Known), Len(serverData') <= ServerDataCap,
         UNCHANGED <<server, reader, wireVars, requestVars, rxStopped, rxData>>
  PROVE  DownloadInv'
<1> USE DEF wireVars, requestVars
<1>1. (\A c \in Conns : Sent(c)' = Sent(c)) /\ Known' = Known
  <2>1. \A c \in Conns : Sent(c)' = Sent(c)
    BY DEF Sent
  <2> QED
    BY <2>1, SameSentSameKnown
<1>2. TasksTyped' /\ ChannelsFit'
  BY DEF DownloadInv, TasksTyped, ChannelsFit
<1>3. ChannelsHold(Known)'
  BY <1>1 DEF DownloadInv, ChannelsHold
<1> QED
  BY <1>1, <1>2, <1>3, QuietStep DEF TasksTyped

LEMMA WriterParts ==
  ASSUME NEW w \in Writers
  PROVE  /\ w.state \in {"recv", "closing", "ended"} /\ w.queue \in Seq(Datagrams)
         /\ w.next \in Nat /\ w.written \in Seq(Datagrams)
BY DEF Writers

\* What Broadcast does to one writer.
LEMMA BroadcastEffect ==
  ASSUME DownloadInv, Broadcast, NEW c \in Conns
  PROVE  \/ /\ writer[c].state # "ended" /\ HasRoom(writer[c].queue, BroadcastCap)
            /\ writer'[c] = [writer[c] EXCEPT !.queue = Append(writer[c].queue, Head(serverData))]
         \/ /\ "lag" \in Faults
            /\ writer'[c] = [writer[c] EXCEPT !.state = "ended", !.queue = <<>>]
         \/ writer[c].state = "ended" /\ writer'[c] = writer[c]
BY DEF Broadcast

LEMMA BroadcastKeepsInv ==
  ASSUME DownloadInv, Broadcast
  PROVE  DownloadInv'
<1>1. /\ ChannelsFit /\ ChannelsHold(Known) /\ writer \in [Conns -> Writers] /\ BroadcastCap \in Nat
      /\ \A c \in Conns : writer[c].next = Len(writer[c].written)
      /\ serverData \in Seq(Known) /\ serverData # <<>> /\ serverData' = Tail(serverData)
      /\ Len(serverData) <= ServerDataCap /\ ServerDataCap \in Nat
  BY ConstantsAssumption DEF DownloadInv, TasksTyped, ChannelsHold, ChannelsFit, Broadcast
<1>2. /\ Head(serverData) \in Known /\ Tail(serverData) \in Seq(Known)
      /\ Len(Tail(serverData)) = Len(serverData) - 1 /\ Head(serverData) \in Datagrams
  BY <1>1, PopKeeps DEF Known
<1>3. serverData' \in Seq(Known) /\ Len(serverData') <= ServerDataCap
  BY <1>1, <1>2
<1> DEFINE d == Head(serverData)
<1> HIDE DEF d
<1>4. ASSUME NEW c \in Conns
      PROVE  /\ writer'[c] \in Writers /\ writer'[c].next = Len(writer'[c].written)
             /\ writer'[c].queue \in Seq(Known) /\ Len(writer'[c].queue) <= BroadcastCap
  <2> DEFINE q == writer[c].queue
  <2>1. /\ writer[c] \in Writers /\ q \in Seq(Known) /\ q \in Seq(Datagrams)
        /\ Len(q) <= BroadcastCap /\ Len(q) \in Nat
    BY <1>1, WriterParts DEF ChannelsHold, ChannelsFit
  <2>2. CASE HasRoom(q, BroadcastCap) /\ writer'[c] = [writer[c] EXCEPT !.queue = Append(q, d)]
    <3>1. /\ Append(q, d) \in Seq(Known) /\ Append(q, d) \in Seq(Datagrams)
          /\ Len(Append(q, d)) = Len(q) + 1
      BY <1>2, <2>1, PushKeeps DEF d
    <3>2. Len(Append(q, d)) <= BroadcastCap
      BY <1>1, <2>1, <2>2, <3>1 DEF HasRoom
    <3> QED
      BY <1>1, <2>1, <2>2, <3>1, <3>2 DEF Writers
  <2>3. CASE writer'[c] = [writer[c] EXCEPT !.state = "ended", !.queue = <<>>]
    <3>1. <<>> \in Seq(Known) /\ <<>> \in Seq(Datagrams) /\ Len(<<>>) = 0
      BY EmptyQueue
    <3>2. /\ writer'[c].queue = <<>> /\ writer'[c].next = writer[c].next
          /\ writer'[c].written = writer[c].written /\ writer'[c] \in Writers
      BY <2>1, <2>3, <3>1 DEF Writers
    <3> QED
      BY <1>1, <3>1, <3>2
  <2>4. CASE writer'[c] = writer[c]
    BY <1>1, <2>1, <2>4
  <2> QED
    BY <2>2, <2>3, <2>4, BroadcastEffect DEF d
<1>5. writer' \in [Conns -> Writers]
  <2>1. writer' = [c \in Conns |-> writer'[c]]
    BY DEF Broadcast
  <2> QED
    BY <1>4, <2>1
<1>6. UNCHANGED <<server, reader, wireVars, requestVars, rxStopped, rxData>>
  BY DEF Broadcast
<1> QED
  BY <1>3, <1>4, <1>5, <1>6, WritersMoveKeepsInv

\* What an iteration of a writer does: it takes the first datagram, and writes it
\* if it is the expected one.
LEMMA WriterRecvEffect ==
  ASSUME DownloadInv, NEW c \in Conns, WriterRecv(c)
  PROVE  /\ writer' = [writer EXCEPT ![c] = writer'[c]]
         /\ writer'[c] \in Writers
         /\ writer'[c].queue \in {<<>>, Tail(writer[c].queue)}
         /\ writer[c].state # "closing" =>
              writer'[c].state = writer[c].state /\ writer'[c].queue = Tail(writer[c].queue)
         /\ writer[c].state = "closing" => writer'[c].state = "ended"
         /\ Head(writer[c].queue) \in Known /\ Head(writer[c].queue) \in Datagrams
         /\ Expected(Head(writer[c].queue), c) =>
              /\ writer'[c].written = Append(writer[c].written, Head(writer[c].queue))
              /\ writer'[c].next = writer[c].next + 1
         /\ ~Expected(Head(writer[c].queue), c) =>
              writer'[c].written = writer[c].written /\ writer'[c].next = writer[c].next
<1> DEFINE d == Head(writer[c].queue)
           s == IF writer[c].state = "closing" THEN "ended" ELSE writer[c].state
           q == IF writer[c].state = "closing" THEN <<>> ELSE Tail(writer[c].queue)
           w == [writer[c] EXCEPT !.state = s, !.queue = q]
           v == [w EXCEPT !.written = Append(writer[c].written, d), !.next = writer[c].next + 1]
<1>1. /\ writer \in [Conns -> Writers] /\ writer[c] \in Writers
      /\ writer[c].queue \in Seq(Known) /\ writer[c].queue # <<>>
      /\ writer[c].state \in {"recv", "closing", "ended"} /\ writer[c].queue \in Seq(Datagrams)
      /\ writer[c].next \in Nat /\ writer[c].written \in Seq(Datagrams)
  BY WriterParts DEF DownloadInv, TasksTyped, ChannelsHold, WriterRecv
<1>2. /\ d \in Known /\ d \in Datagrams /\ Tail(writer[c].queue) \in Seq(Datagrams)
      /\ <<>> \in Seq(Datagrams)
  BY <1>1, PopKeeps, EmptyQueue
<1>3. s \in {"recv", "closing", "ended"} /\ q \in Seq(Datagrams)
  BY <1>1, <1>2
<1>4. Append(writer[c].written, d) \in Seq(Datagrams) /\ writer[c].next + 1 \in Nat
  BY <1>1, <1>2, PushKeeps
<1>5. writer' = [writer EXCEPT ![c] = IF Expected(d, c) THEN v ELSE w]
  <2>1. w = [writer[c] EXCEPT !.state = IF @ = "closing" THEN "ended" ELSE @,
                              !.queue = IF writer[c].state = "closing" THEN <<>> ELSE Tail(@)]
    BY <1>1 DEF Writers
  <2>2. v = [w EXCEPT !.written = Append(@, d), !.next = @ + 1]
    BY <1>1 DEF Writers
  <2> QED
    BY <2>1, <2>2 DEF WriterRecv
<1> HIDE DEF s, q, d
<1>6. /\ w \in Writers /\ w.state = s /\ w.queue = q
      /\ w.written = writer[c].written /\ w.next = writer[c].next
  BY <1>1, <1>3 DEF Writers
<1> HIDE DEF w
<1>7. /\ v \in Writers /\ v.state = s /\ v.queue = q
      /\ v.written = Append(writer[c].written, d) /\ v.next = writer[c].next + 1
  BY <1>4, <1>6 DEF Writers
<1> HIDE DEF v
<1>8. writer'[c] = (IF Expected(d, c) THEN v ELSE w) /\ writer' = [writer EXCEPT ![c] = writer'[c]]
  BY <1>1, <1>5
<1>9. /\ writer'[c] \in Writers /\ writer'[c].state = s /\ writer'[c].queue = q
      /\ Expected(d, c) => /\ writer'[c].written = Append(writer[c].written, d)
                           /\ writer'[c].next = writer[c].next + 1
      /\ ~Expected(d, c) => writer'[c].written = writer[c].written /\ writer'[c].next = writer[c].next
  BY <1>6, <1>7, <1>8
<1>10. /\ q \in {<<>>, Tail(writer[c].queue)}
       /\ writer[c].state # "closing" => s = writer[c].state /\ q = Tail(writer[c].queue)
       /\ writer[c].state = "closing" => s = "ended"
  BY DEF s, q
<1> QED
  BY <1>2, <1>8, <1>9, <1>10 DEF d

LEMMA WriterRecvKeepsInv ==
  ASSUME DownloadInv, NEW c \in Conns, WriterRecv(c)
  PROVE  DownloadInv'
<1> DEFINE q == writer[c].queue
<1>1. /\ serverData \in Seq(Known) /\ Len(serverData) <= ServerDataCap /\ BroadcastCap \in Nat
      /\ writer \in [Conns -> Writers] /\ q \in Seq(Known) /\ q # <<>>
      /\ \A e \in Conns : /\ writer[e].next = Len(writer[e].written)
                          /\ writer[e].queue \in Seq(Known) /\ Len(writer[e].queue) <= BroadcastCap
  BY ConstantsAssumption
  DEF DownloadInv, TasksTyped, ChannelsHold, ChannelsFit, WriterRecv
<1>2. /\ writer' = [writer EXCEPT ![c] = writer'[c]] /\ writer'[c] \in Writers
      /\ writer'[c].queue \in {<<>>, Tail(q)} /\ Head(q) \in Datagrams
  BY WriterRecvEffect
<1>3. writer' \in [Conns -> Writers]
  BY <1>1, <1>2
<1>4. writer'[c].queue \in Seq(Known) /\ Len(writer'[c].queue) <= BroadcastCap
  <2>1. /\ <<>> \in Seq(Known) /\ Len(<<>>) = 0 /\ Tail(q) \in Seq(Known)
        /\ Len(Tail(q)) = Len(q) - 1 /\ Len(q) \in Nat /\ Len(q) <= BroadcastCap
    BY <1>1, PopKeeps, EmptyQueue
  <2>2. Len(Tail(q)) <= BroadcastCap /\ Len(<<>>) <= BroadcastCap
    BY <1>1, <2>1
  <2> QED
    BY <1>2, <2>1, <2>2
<1>5. writer'[c].next = Len(writer'[c].written)
  <2>1. writer[c].written \in Seq(Datagrams) /\ writer[c].next = Len(writer[c].written)
    BY <1>1, WriterParts
  <2>2. Len(Append(writer[c].written, Head(q))) = Len(writer[c].written) + 1
    BY <1>2, <2>1, PushKeeps
  <2> QED
    BY <2>1, <2>2, WriterRecvEffect
<1>6. \A e \in Conns : /\ writer'[e].next = Len(writer'[e].written)
                       /\ writer'[e].queue \in Seq(Known) /\ Len(writer'[e].queue) <= BroadcastCap
  BY <1>1, <1>2, <1>4, <1>5
<1>7. UNCHANGED <<server, reader, wireVars, requestVars, rxStopped, rxData, serverData>>
  BY DEF WriterRecv
<1> QED
  BY <1>1, <1>3, <1>6, <1>7, WritersMoveKeepsInv

\* Closing leaves what was written as it is.
LEMMA ClosesEffect ==
  ASSUME DownloadInv, NEW c \in Conns, ApplicationCloses(c)
  PROVE  /\ writer' = [writer EXCEPT ![c] = writer'[c]]
         /\ writer'[c] \in Writers /\ writer'[c].queue \in {<<>>, writer[c].queue}
         /\ writer'[c].next = writer[c].next /\ writer'[c].written = writer[c].written
         /\ writer'[c].state # "recv" /\ "close" \in Faults
<1>1. writer \in [Conns -> Writers] /\ writer[c] \in Writers /\ <<>> \in Seq(Datagrams)
  BY EmptyQueue DEF DownloadInv, TasksTyped
<1>2. CASE writer' = [writer EXCEPT ![c].state = "closing"]
  BY <1>1, <1>2 DEF Writers, ApplicationCloses
<1>3. CASE writer' = [writer EXCEPT ![c].state = "ended", ![c].queue = <<>>]
  BY <1>1, <1>3 DEF Writers, ApplicationCloses
<1> QED
  BY <1>2, <1>3 DEF ApplicationCloses

LEMMA ClosesKeepsInv ==
  ASSUME DownloadInv, NEW c \in Conns, ApplicationCloses(c)
  PROVE  DownloadInv'
<1>1. /\ serverData \in Seq(Known) /\ Len(serverData) <= ServerDataCap /\ BroadcastCap \in Nat
      /\ writer \in [Conns -> Writers]
      /\ \A e \in Conns : /\ writer[e].next = Len(writer[e].written)
                          /\ writer[e].queue \in Seq(Known) /\ Len(writer[e].queue) <= BroadcastCap
  BY ConstantsAssumption DEF DownloadInv, TasksTyped, ChannelsHold, ChannelsFit
<1>2. <<>> \in Seq(Known) /\ Len(<<>>) = 0
  BY EmptyQueue
<1>3. /\ writer' = [writer EXCEPT ![c] = writer'[c]] /\ writer'[c] \in Writers
      /\ writer'[c].queue \in {<<>>, writer[c].queue}
      /\ writer'[c].next = writer[c].next /\ writer'[c].written = writer[c].written
  BY ClosesEffect
<1>4. writer'[c].queue \in Seq(Known) /\ Len(writer'[c].queue) <= BroadcastCap
  <2>1. CASE writer'[c].queue = <<>>
    BY <1>1, <1>2, <2>1
  <2>2. CASE writer'[c].queue = writer[c].queue
    BY <1>1, <2>2
  <2> QED
    BY <1>3, <2>1, <2>2
<1>5. writer' \in [Conns -> Writers]
  BY <1>1, <1>3
<1>6. \A e \in Conns : /\ writer'[e].next = Len(writer'[e].written)
                       /\ writer'[e].queue \in Seq(Known) /\ Len(writer'[e].queue) <= BroadcastCap
  BY <1>1, <1>3, <1>4
<1>7. UNCHANGED <<server, reader, wireVars, requestVars, rxStopped, rxData, serverData>>
  BY DEF ApplicationCloses
<1> QED
  BY <1>1, <1>5, <1>6, <1>7, WritersMoveKeepsInv

LEMMA NextKeepsInv ==
  ASSUME DownloadInv, [Next]_vars
  PROVE  DownloadInv'
<1>1. CASE Requests
  BY <1>1, RequestsKeepInv
<1>2. CASE Tunnel
  BY <1>2, NetKeepsInv, BroadcastKeepsInv, AckRecvKeepsInv DEF Tunnel
<1>3. ASSUME NEW c \in Conns, Reader(c) \/ WriterRecv(c) \/ ApplicationCloses(c)
      PROVE  DownloadInv'
  BY <1>3, ReaderKeepsInv, WriterRecvKeepsInv, ClosesKeepsInv
<1>4. CASE UNCHANGED vars
  <2> USE <1>4 DEF vars, wireVars, requestVars, arrivalVars
  <2>1. /\ ChannelsFit' /\ ChannelsHold(Known)' /\ \A c \in Conns : Sent(c)' = Sent(c)
    BY ChannelsUntouched
  <2> QED
    BY <2>1, QuietStep DEF DownloadInv, TasksTyped
<1> QED
  BY <1>1, <1>2, <1>3, <1>4 DEF Next

LEMMA DownloadInvariant == Spec => []DownloadInv
<1>1. Init => DownloadInv
  BY InitDownloadInv
<1>2. DownloadInv /\ [Next]_vars => DownloadInv'
  BY NextKeepsInv
<1> QED
  BY <1>1, <1>2, PTL DEF Spec

\* Every variable keeps its type, and every channel its capacity: the sequence
\* numbers stay below the chunks that were asked for.
THEOREM TypeCorrect == Spec => []TypeOK
BY DownloadInvariant, InvGivesTypeOK, PTL

-----------------------------------------------------------------------------
(***************************************************************************)
(* StreamPrefix: a writer writes what has its port and the next number.    *)
(***************************************************************************)
WrittenOwn ==
  \A c \in Conns : \A i \in 1..Len(writer[c].written) :
    writer[c].written[i] = ServerDataDatagram(c, i - 1)

LEMMA DatagramShape ==
  ASSUME NEW d \in Datagrams
  PROVE  d.port \in Conns /\ d.sequence \in Nat /\ d = ServerDataDatagram(d.port, d.sequence)
BY DEF Datagrams, Sequences, ServerDataDatagram

\* A step of the writers that is no WriterRecv writes nothing.
LEMMA OthersWriteNothing ==
  ASSUME DownloadInv, [Next]_vars, \A c \in Conns : ~WriterRecv(c), NEW e \in Conns
  PROVE  writer'[e].written = writer[e].written /\ writer'[e].next = writer[e].next
<1>1. CASE writer' = writer
  BY <1>1
<1>2. CASE Broadcast
  BY <1>2, BroadcastEffect DEF DownloadInv, TasksTyped, Writers
<1>3. ASSUME NEW c \in Conns, ApplicationCloses(c)
      PROVE  writer'[e].written = writer[e].written /\ writer'[e].next = writer[e].next
  <2>1. /\ writer' = [writer EXCEPT ![c] = writer'[c]]
        /\ writer'[c].next = writer[c].next /\ writer'[c].written = writer[c].written
    BY <1>3, ClosesEffect
  <2> QED
    BY <2>1 DEF DownloadInv, TasksTyped
<1>4. CASE Requests \/ \E c \in Conns : Reader(c)
  BY <1>1, <1>4
  DEF arrivalVars, Requests, RxFails, PushClientData, Dispatch, HandOver, RequestArrives,
      WriteRequest, ServerWrites, Reader, ReadChunk, ReaderStops, AckObserved, Resend, SendFails, WaiterRecv
<1>5. CASE Tunnel
  BY <1>1, <1>2, <1>5
  DEF arrivalVars, Tunnel, TunnelSend, Lose, PushServerData, TunnelRecv, AckSendFails, AckRecv
<1>6. CASE UNCHANGED vars
  BY <1>1, <1>6 DEF vars, arrivalVars
<1> QED
  BY <1>3, <1>4, <1>5, <1>6 DEF Next

LEMMA WritesInSequence ==
  ASSUME DownloadInv, NEW c \in Conns, WriterRecv(c), Expected(Head(writer[c].queue), c)
  PROVE  /\ writer'[c].written = Append(writer[c].written, ServerDataDatagram(c, writer[c].next))
         /\ writer'[c].next = writer[c].next + 1
         /\ writer[c].next < Sent(c)
         /\ writer' = [writer EXCEPT ![c] = writer'[c]]
<1> DEFINE d == Head(writer[c].queue)
<1>1. /\ d \in Known /\ d \in Datagrams /\ writer' = [writer EXCEPT ![c] = writer'[c]]
      /\ writer'[c].written = Append(writer[c].written, d)
      /\ writer'[c].next = writer[c].next + 1
  BY WriterRecvEffect
<1>2. d.port = c /\ d.sequence = writer[c].next
  BY DEF Expected
<1>3. d = ServerDataDatagram(c, writer[c].next)
  BY <1>1, <1>2, DatagramShape
<1>4. d.sequence < Sent(d.port)
  BY <1>1 DEF Known
<1> HIDE DEF d
<1> QED
  BY <1>1, <1>2, <1>3, <1>4

LEMMA NextKeepsWrittenOwn ==
  ASSUME DownloadInv, WrittenOwn, [Next]_vars
  PROVE  WrittenOwn'
<1> SUFFICES ASSUME NEW e \in Conns, NEW i \in 1..Len(writer'[e].written)
             PROVE  writer'[e].written[i] = ServerDataDatagram(e, i - 1)
  BY DEF WrittenOwn
<1>1. writer[e].written \in Seq(Datagrams) /\ writer[e].next = Len(writer[e].written)
  BY WriterParts DEF DownloadInv, TasksTyped
<1>2. CASE writer'[e].written = writer[e].written
  BY <1>2 DEF WrittenOwn
<1>3. CASE writer'[e].written = Append(writer[e].written, ServerDataDatagram(e, writer[e].next))
  <2> DEFINE s == writer[e].written
             x == ServerDataDatagram(e, writer[e].next)
  <2>1. s \in Seq({s[j] : j \in 1..Len(s)} \cup {x})
    BY <1>1
  <2>2. i = Len(s) + 1 \/ i \in 1..Len(s)
    BY <1>1, <1>3
  <2> QED
    BY <1>1, <1>3, <2>2 DEF WrittenOwn
<1>4. ASSUME NEW c \in Conns, WriterRecv(c)
      PROVE  \/ writer'[e].written = writer[e].written
             \/ writer'[e].written = Append(writer[e].written, ServerDataDatagram(e, writer[e].next))
  BY <1>4, WriterRecvEffect, WritesInSequence DEF DownloadInv, TasksTyped
<1> QED
  BY <1>2, <1>3, <1>4, OthersWriteNothing

\* The application reads the first chunks its server wrote, in order, each once,
\* whatever the network does, whichever sends fail and whoever is overrun.
THEOREM StreamPrefixHolds == Spec => []StreamPrefix
<1>1. Init => WrittenOwn
  BY DEF Init, WrittenOwn
<1>2. DownloadInv /\ WrittenOwn /\ [Next]_vars => WrittenOwn'
  BY NextKeepsWrittenOwn
<1>3. DownloadInv /\ WrittenOwn => StreamPrefix
  <2> SUFFICES ASSUME DownloadInv, WrittenOwn, NEW c \in Conns
               PROVE  writer[c].written =
                        [i \in 1..Len(writer[c].written) |-> ServerDataDatagram(c, i - 1)]
    BY DEF StreamPrefix
  <2> DEFINE s == writer[c].written
             n == Len(s)
  <2>1. s \in [1..n -> Datagrams]
    <3>1. s \in Seq(Datagrams)
      BY WriterParts DEF DownloadInv, TasksTyped
    <3> QED
      BY <3>1, LenProperties
  <2>2. \A i \in 1..n : s[i] = ServerDataDatagram(c, i - 1)
    BY DEF WrittenOwn
  <2> HIDE DEF s, n
  <2>3. s = [i \in 1..n |-> ServerDataDatagram(c, i - 1)]
    BY <2>1, <2>2
  <2> QED
    BY <2>3 DEF s, n
<1> QED
  BY <1>1, <1>2, <1>3, DownloadInvariant, PTL DEF Spec

-----------------------------------------------------------------------------
(***************************************************************************)
(* Refinement: a chunk is sent when it is read, delivered when it is       *)
(* written. Every other step is a stutter of the stream.                   *)
(***************************************************************************)
LEMMA InitIsStreamInit == Init => Stream!Init
BY DEF Init, Stream!Init

LEMMA ReadIsSend ==
  ASSUME DownloadInv, NEW c \in Conns, ReadChunk(c)
  PROVE  Stream!Send(c)
<1>1. /\ reader \in [Conns -> Readers] /\ reader[c] \in Readers
      /\ reader[c].state = "read" /\ writer' = writer
      /\ reader' = [reader EXCEPT ![c].state = "tick", ![c].ack = "listening", ![c].queue = <<>>]
  BY DEF ReadChunk, arrivalVars, DownloadInv, TasksTyped
<1>2. reader'[c].sequence = reader[c].sequence /\ reader'[c].state = "tick"
  BY <1>1 DEF Readers
<1>3. \A e \in Conns : e # c => reader'[e] = reader[e]
  BY <1>1
<1>4. Sent(c) = reader[c].sequence /\ Sent(c)' = Sent(c) + 1
  BY <1>1, <1>2 DEF Sent, Readers
<1>5. \A e \in Conns : e # c => Sent(e)' = Sent(e)
  BY <1>3 DEF Sent
<1>6. Sent(c) < MaxChunks
  <2>1. server[c].ahead \in Nat /\ server[c].ahead > 0 /\ Sent(c) \in Nat /\ MaxChunks \in Nat
    BY LoadParts, ConstantsAssumption DEF ReadChunk, DownloadInv
  <2>2. server[c].ahead + Sent(c) <= MaxChunks
    BY LoadBounds
  <2> QED
    BY <2>1, <2>2
<1>7. [e \in Conns |-> Sent(e)]' = [[e \in Conns |-> Sent(e)] EXCEPT ![c] = @ + 1]
  BY <1>4, <1>5
<1>8. [e \in Conns |-> writer[e].next]' = [e \in Conns |-> writer[e].next]
  BY <1>1
<1> QED
  BY <1>6, <1>7, <1>8 DEF Stream!Send, Sent

LEMMA ExpectedIsDeliver ==
  ASSUME DownloadInv, NEW c \in Conns, WriterRecv(c), Expected(Head(writer[c].queue), c)
  PROVE  Stream!Deliver(c)
<1>1. /\ writer'[c].next = writer[c].next + 1 /\ writer[c].next < Sent(c)
      /\ writer' = [writer EXCEPT ![c] = writer'[c]]
      /\ writer \in [Conns -> Writers] /\ reader' = reader
  BY WritesInSequence DEF DownloadInv, TasksTyped, WriterRecv
<1>2. [e \in Conns |-> writer[e].next]' = [[e \in Conns |-> writer[e].next] EXCEPT ![c] = @ + 1]
  BY <1>1
<1>3. [e \in Conns |-> Sent(e)]' = [e \in Conns |-> Sent(e)]
  BY <1>1 DEF Sent
<1> QED
  BY <1>1, <1>2, <1>3 DEF Stream!Deliver, Sent

\* Only ReadChunk takes a chunk.
LEMMA OthersTakeNothing ==
  ASSUME DownloadInv, [Next]_vars, \A c \in Conns : ~ReadChunk(c), NEW e \in Conns
  PROVE  Sent(e)' = Sent(e)
<1>1. CASE reader' = reader
  BY <1>1 DEF Sent
<1>2. reader \in [Conns -> Readers] /\ reader[e] \in Readers
  BY DEF DownloadInv, TasksTyped
<1>3. ASSUME NEW c \in Conns, Reader(c)
      PROVE  Sent(e)' = Sent(e)
  <2>1. CASE e # c
    <3>1. reader'[e] = reader[e]
      BY <1>2, <1>3, <2>1
      DEF Reader, ReaderStops, AckObserved, Resend, SendFails, WaiterRecv
    <3> QED
      BY <3>1 DEF Sent
  <2>2. CASE e = c /\ AckObserved(c)
    <3>1. reader'[c].state = "read" /\ reader'[c].sequence = reader[c].sequence + 1
      BY <1>2, <2>2 DEF AckObserved, Readers
    <3>2. reader[c].state = "tick" /\ reader[c].sequence \in Nat
      BY <1>2, <2>2, ReaderParts DEF AckObserved
    <3> QED
      BY <2>2, <3>1, <3>2 DEF Sent
  <2>3. CASE e = c /\ ReaderStops(c)
    <3>1. reader'[c].state = "stopped" /\ reader'[c].sequence = reader[c].sequence
      BY <1>2, <2>3 DEF ReaderStops, Readers
    <3> QED
      BY <1>2, <2>3, <3>1 DEF Sent, ReaderStops
  <2>4. CASE e = c /\ Resend(c)
    <3>1. /\ reader'[c].state \in {"tick", "push"} /\ reader[c].state \in {"tick", "push"}
          /\ reader'[c].sequence = reader[c].sequence
      BY <1>2, <2>4 DEF Resend, Sends, Readers
    <3> QED
      BY <2>4, <3>1 DEF Sent
  <2>5. CASE e = c /\ SendFails(c)
    <3>1. /\ reader'[c].state = "failed" /\ reader[c].state \in {"tick", "push"}
          /\ reader'[c].sequence = reader[c].sequence
      BY <1>2, <2>5 DEF SendFails, Sends, Readers
    <3> QED
      BY <2>5, <3>1 DEF Sent
  <2>6. CASE e = c /\ WaiterRecv(c)
    <3>1. reader'[c].state = reader[c].state /\ reader'[c].sequence = reader[c].sequence
      BY <1>2, <2>6 DEF WaiterRecv, Readers
    <3> QED
      BY <2>6, <3>1 DEF Sent
  <2> QED
    BY <1>3, <2>1, <2>2, <2>3, <2>4, <2>6, <2>5 DEF Reader
<1>4. ASSUME NEW d \in ackNet, AckRecv(d)
      PROVE  Sent(e)' = Sent(e)
  <2>1. reader'[e].state = reader[e].state /\ reader'[e].sequence = reader[e].sequence
    BY <1>2, <1>4 DEF AckRecv, Readers
  <2> QED
    BY <2>1 DEF Sent
<1>5. CASE Requests \/ \E c \in Conns : WriterRecv(c) \/ ApplicationCloses(c)
  BY <1>1, <1>5
  DEF Requests, RxFails, PushClientData, Dispatch, HandOver, RequestArrives, WriteRequest,
      ServerWrites, WriterRecv, ApplicationCloses
<1>6. CASE Tunnel
  BY <1>1, <1>4, <1>6
  DEF Tunnel, TunnelSend, Lose, PushServerData, Broadcast, TunnelRecv, AckSendFails
<1>7. CASE UNCHANGED vars
  BY <1>1, <1>7 DEF vars
<1> QED
  BY <1>3, <1>5, <1>6, <1>7 DEF Next

LEMMA StepIsStreamStep ==
  ASSUME DownloadInv, [Next]_vars
  PROVE  [Stream!Next]_(Stream!vars)
<1>1. CASE \E c \in Conns : ReadChunk(c)
  BY <1>1, ReadIsSend DEF Stream!Next
<1>2. CASE \E c \in Conns : WriterRecv(c) /\ Expected(Head(writer[c].queue), c)
  BY <1>2, ExpectedIsDeliver DEF Stream!Next
<1>3. CASE /\ \A c \in Conns : ~ReadChunk(c)
           /\ \A c \in Conns : ~(WriterRecv(c) /\ Expected(Head(writer[c].queue), c))
  <2>1. \A e \in Conns : Sent(e)' = Sent(e)
    BY <1>3, OthersTakeNothing
  <2>2. ASSUME NEW e \in Conns PROVE writer'[e].next = writer[e].next
    <3>1. CASE \A c \in Conns : ~WriterRecv(c)
      BY <3>1, OthersWriteNothing
    <3>2. ASSUME NEW c \in Conns, WriterRecv(c)
          PROVE  writer'[e].next = writer[e].next
      <4>1. /\ writer' = [writer EXCEPT ![c] = writer'[c]] /\ writer'[c].next = writer[c].next
            /\ writer \in [Conns -> Writers]
        BY <1>3, <3>2, WriterRecvEffect DEF DownloadInv, TasksTyped
      <4> QED
        BY <4>1
    <3> QED
      BY <3>1, <3>2
  <2>3. [e \in Conns |-> Sent(e)]' = [e \in Conns |-> Sent(e)]
    BY <2>1
  <2>4. [e \in Conns |-> writer[e].next]' = [e \in Conns |-> writer[e].next]
    BY <2>2
  <2> QED
    BY <2>3, <2>4 DEF Stream!vars, Sent
<1> QED
  BY <1>1, <1>2, <1>3

\* Every step is a chunk sent, a chunk delivered in its turn, once and not before
\* it was sent, or neither: for any fault and any number of connections. A chunk is
\* sent when its reader takes it from the server, and stays so when to_tunnel is
\* closed before a copy could leave and the reader fails.
THEOREM StreamImplemented == Spec => ImplementsStream
BY DownloadInvariant, InitIsStreamInit, StepIsStreamStep, PTL DEF Spec, ImplementsStream, Stream!Spec

-----------------------------------------------------------------------------
(***************************************************************************)
(* AckedNotLost, of broadcasts that overrun nobody. The path of a chunk    *)
(* through peer A is three queues in a row. Copies may be on it, and       *)
(* chunks of later numbers; but never one before the first copy of its     *)
(* predecessor, so what a writer skips it has already written.             *)
(***************************************************************************)
Path(c) == Range(writer[c].queue) \cup Range(serverData) \cup Range(rxData)
Gone(c) == writer[c].state # "recv"

\* d comes after its predecessor, which is in S, or after it has been written.
InTurn(d, S, c, n) ==
  d.port = c => d.sequence <= n \/ ServerDataDatagram(c, d.sequence - 1) \in S

\* q holds the datagrams of c in turn, when those of S are in front of it.
InOrder(q, S, c, n) ==
  \A i \in 1..Len(q) : InTurn(q[i], S \cup {q[j] : j \in 1..(i - 1)}, c, n)

Ordered(c) ==
  /\ InOrder(writer[c].queue, {}, c, writer[c].next)
  /\ InOrder(serverData, Range(writer[c].queue), c, writer[c].next)
  /\ InOrder(rxData, Range(writer[c].queue) \cup Range(serverData), c, writer[c].next)

\* Chunks whose acknowledgement has been sent, whether or not it got through.
Acked(c, n) ==
  \/ n < reader[c].sequence
  \/ reader[c].ack = "finished" /\ n = reader[c].sequence
  \/ ServerDataDatagram(c, n) \in ackNet
  \/ \E e \in Conns : ServerDataDatagram(c, n) \in Range(reader[e].queue)

Arrived(c, n) == n < writer[c].next \/ ServerDataDatagram(c, n) \in Path(c)

Kept(c) == Gone(c) \/ (Ordered(c) /\ \A n \in Nat : Acked(c, n) => Arrived(c, n))

AckInv ==
  /\ DownloadInv /\ WrittenOwn
  /\ \A c \in Conns : reader[c].ack # "lagged"
  /\ \A c \in Conns : Gone(c) => "close" \in Faults
  /\ \A c \in Conns : Kept(c)

LEMMA PushInOrder ==
  ASSUME NEW T, NEW q \in Seq(T), NEW x \in T, NEW S, NEW c, NEW n,
         InOrder(q, S, c, n), InTurn(x, S \cup Range(q), c, n)
  PROVE  InOrder(Append(q, x), S, c, n)
<1> DEFINE r == Append(q, x)
<1> SUFFICES ASSUME NEW i \in 1..Len(r)
             PROVE  InTurn(r[i], S \cup {r[j] : j \in 1..(i - 1)}, c, n)
  BY DEF InOrder
<1>1. Len(r) = Len(q) + 1 /\ Len(q) \in Nat /\ r[Len(q) + 1] = x /\ \A j \in 1..Len(q) : r[j] = q[j]
  OBVIOUS
<1> HIDE DEF r
<1>2. CASE i = Len(q) + 1
  <2>1. Range(q) = {q[j] : j \in 1..Len(q)}
    BY RangeEquality
  <2>2. Range(q) \subseteq {r[j] : j \in 1..(i - 1)}
    BY <1>1, <1>2, <2>1
  <2> QED
    BY <1>1, <1>2, <2>2 DEF InTurn
<1>3. CASE i \in 1..Len(q)
  <2>1. {q[j] : j \in 1..(i - 1)} \subseteq {r[j] : j \in 1..(i - 1)}
    BY <1>1, <1>3
  <2> QED
    BY <1>1, <1>3, <2>1 DEF InOrder, InTurn
<1> QED
  BY <1>1, <1>2, <1>3

LEMMA PopInOrder ==
  ASSUME NEW T, NEW q \in Seq(T), q # <<>>, NEW S, NEW c, NEW n, InOrder(q, S, c, n)
  PROVE  /\ InTurn(Head(q), S, c, n)
         /\ InOrder(Tail(q), S \cup {Head(q)}, c, n)
<1>1. Len(q) \in Nat /\ Len(q) # 0 /\ Head(q) = q[1]
  BY EmptySeq
<1>2. Len(Tail(q)) = Len(q) - 1 /\ \A i \in 1..(Len(q) - 1) : Tail(q)[i] = q[i + 1]
  BY <1>1
<1>3. InTurn(Head(q), S, c, n)
  <2>1. PICK i \in 1..Len(q) : i = 1
    BY <1>1
  <2>2. InTurn(q[i], S \cup {q[j] : j \in 1..(i - 1)}, c, n)
    BY DEF InOrder
  <2>3. {q[j] : j \in 1..(i - 1)} = {}
    BY <2>1
  <2> QED
    BY <1>1, <2>1, <2>2, <2>3 DEF InTurn
<1>4. ASSUME NEW i \in 1..Len(Tail(q))
      PROVE  InTurn(Tail(q)[i], S \cup {Head(q)} \cup {Tail(q)[j] : j \in 1..(i - 1)}, c, n)
  <2>1. i + 1 \in 1..Len(q) /\ Tail(q)[i] = q[i + 1]
    BY <1>1, <1>2
  <2>2. {q[j] : j \in 1..i} \subseteq {Head(q)} \cup {Tail(q)[j] : j \in 1..(i - 1)}
    <3> SUFFICES ASSUME NEW j \in 1..i
                 PROVE  q[j] \in {Head(q)} \cup {Tail(q)[k] : k \in 1..(i - 1)}
      OBVIOUS
    <3>1. j = 1 \/ (j - 1 \in 1..(i - 1) /\ Tail(q)[j - 1] = q[j])
      BY <1>1, <1>2, <2>1
    <3> QED
      BY <1>1, <3>1
  <2>3. InTurn(q[i + 1], S \cup {q[j] : j \in 1..i}, c, n)
    <3>1. InTurn(q[i + 1], S \cup {q[j] : j \in 1..((i + 1) - 1)}, c, n)
      BY <2>1 DEF InOrder
    <3>2. (i + 1) - 1 = i
      OBVIOUS
    <3> QED
      BY <3>1, <3>2
  <2> QED
    BY <2>1, <2>2, <2>3 DEF InTurn
<1> QED
  BY <1>3, <1>4 DEF InOrder

LEMMA MoreInOrder ==
  ASSUME NEW q, NEW S, NEW T, NEW c, NEW n, InOrder(q, S, c, n), S \subseteq T
  PROVE  InOrder(q, T, c, n)
BY DEF InOrder, InTurn

\* What was in front may go when it has been written.
LEMMA PassInOrder ==
  ASSUME NEW q \in Seq(Datagrams), NEW S, NEW x, NEW c, NEW n \in Nat, NEW m \in Nat, n <= m,
         x.port = c => x.sequence < m,
         InOrder(q, S \cup {x}, c, n)
  PROVE  InOrder(q, S, c, m)
<1> SUFFICES ASSUME NEW i \in 1..Len(q), q[i].port = c
             PROVE  \/ q[i].sequence <= m
                    \/ ServerDataDatagram(c, q[i].sequence - 1) \in S \cup {q[j] : j \in 1..(i - 1)}
  BY DEF InOrder, InTurn
<1> DEFINE k == q[i].sequence
<1>1. k \in Nat
  BY DatagramShape
<1>2. \/ k <= n
      \/ ServerDataDatagram(c, k - 1) \in S \cup {x} \cup {q[j] : j \in 1..(i - 1)}
  BY DEF InOrder, InTurn
<1> HIDE DEF k
<1>3. CASE ServerDataDatagram(c, k - 1) = x
  <2>1. x.port = c /\ x.sequence = k - 1
    BY <1>3 DEF ServerDataDatagram
  <2> QED
    BY <1>1, <2>1 DEF k
<1>4. CASE k <= n
  BY <1>1, <1>4 DEF k
<1> QED
  BY <1>2, <1>3, <1>4 DEF k

\* A step that acknowledges nothing new and leaves the path as it is.
LEMMA QuietKeeps ==
  ASSUME NEW c \in Conns, Kept(c),
         writer'[c] = writer[c], serverData' = serverData, rxData' = rxData,
         \A n \in Nat : Acked(c, n)' => Acked(c, n)
  PROVE  Kept(c)'
BY DEF Kept, Gone, Ordered, Arrived, Path

\* What a reader and its waiter do acknowledges nothing new.
LEMMA ReaderAcksNothing ==
  ASSUME DownloadInv, \A c \in Conns : reader[c].ack # "lagged",
         NEW e \in Conns, Reader(e), NEW c \in Conns, NEW n \in Nat, Acked(c, n)'
  PROVE  Acked(c, n)
<1>1. /\ reader \in [Conns -> Readers] /\ reader[e] \in Readers /\ reader[e].sequence \in Nat
      /\ reader[e].queue \in Seq(Datagrams)
  BY ReaderParts DEF DownloadInv, TasksTyped
<1>2. ackNet' = ackNet /\ \A f \in Conns : f # e => reader'[f] = reader[f]
  BY <1>1 DEF Reader, ReadChunk, ReaderStops, AckObserved, Resend, SendFails, WaiterRecv, wireVars
<1> DEFINE x == ServerDataDatagram(c, n)
<1>3. Range(reader'[e].queue) \subseteq Range(reader[e].queue)
  <2>1. Range(<<>>) = {}
    BY DEF Range
  <2>2. reader[e].queue # <<>> => Range(Tail(reader[e].queue)) \subseteq Range(reader[e].queue)
    BY <1>1, PopRange
  <2>3. \/ reader'[e].queue = <<>> \/ reader'[e].queue = reader[e].queue
        \/ reader[e].queue # <<>> /\ reader'[e].queue = Tail(reader[e].queue)
    BY <1>1 DEF Reader, ReadChunk, ReaderStops, AckObserved, Resend, SendFails, WaiterRecv, Readers
  <2> QED
    BY <2>1, <2>2, <2>3
<1>4. \/ reader'[e].sequence = reader[e].sequence /\ reader'[e].ack \in {reader[e].ack, "listening"}
      \/ /\ reader[e].ack = "finished" /\ reader'[e].ack = "idle"
         /\ reader'[e].sequence = reader[e].sequence + 1
      \/ /\ reader'[e].sequence = reader[e].sequence /\ reader[e].queue # <<>>
         /\ Head(reader[e].queue) = ServerDataDatagram(e, reader[e].sequence)
  <2>1. CASE ReadChunk(e) \/ ReaderStops(e) \/ Resend(e) \/ SendFails(e)
    BY <1>1, <2>1 DEF ReadChunk, ReaderStops, Resend, SendFails, Readers
  <2>2. CASE AckObserved(e)
    BY <1>1, <2>2 DEF AckObserved, AckReceived, Readers
  <2>3. CASE WaiterRecv(e)
    BY <1>1, <2>3 DEF WaiterRecv, Readers
  <2> QED
    BY <2>1, <2>2, <2>3 DEF Reader
<1>5. CASE x \in ackNet' \/ \E f \in Conns : x \in Range(reader'[f].queue)
  BY <1>2, <1>3, <1>5 DEF Acked
<1>6. CASE n < reader'[c].sequence \/ (reader'[c].ack = "finished" /\ n = reader'[c].sequence)
  <2>1. CASE c # e
    BY <1>2, <1>6, <2>1 DEF Acked
  <2>2. CASE c = e /\ reader'[e].sequence = reader[e].sequence /\ reader'[e].ack \in {reader[e].ack, "listening"}
    BY <1>6, <2>2 DEF Acked
  <2>3. CASE /\ c = e /\ reader[e].ack = "finished" /\ reader'[e].ack = "idle"
             /\ reader'[e].sequence = reader[e].sequence + 1
    BY <1>1, <1>6, <2>3 DEF Acked
  <2>4. CASE /\ c = e /\ reader'[e].sequence = reader[e].sequence /\ reader[e].queue # <<>>
             /\ Head(reader[e].queue) = ServerDataDatagram(e, reader[e].sequence)
    <3>1. Head(reader[e].queue) \in Range(reader[e].queue)
      BY <1>1, <2>4, PopRange
    <3> QED
      BY <1>1, <1>6, <2>4, <3>1 DEF Acked
  <2> QED
    BY <1>4, <2>1, <2>2, <2>3, <2>4
<1> QED
  BY <1>5, <1>6 DEF Acked

LEMMA ReaderNeverLags ==
  ASSUME DownloadInv, \A c \in Conns : reader[c].ack # "lagged", NEW e \in Conns, Reader(e)
  PROVE  \A c \in Conns : reader'[c].ack # "lagged"
<1>1. reader \in [Conns -> Readers] /\ reader[e] \in Readers
  BY DEF DownloadInv, TasksTyped
<1>2. \A f \in Conns : f # e => reader'[f] = reader[f]
  BY <1>1 DEF Reader, ReadChunk, ReaderStops, AckObserved, Resend, SendFails, WaiterRecv
<1>3. reader'[e].ack # "lagged"
  <2>1. CASE ReadChunk(e) \/ ReaderStops(e) \/ AckObserved(e) \/ Resend(e) \/ SendFails(e)
    BY <1>1, <2>1 DEF ReadChunk, ReaderStops, AckObserved, Resend, SendFails, Readers
  <2>2. CASE WaiterRecv(e)
    BY <1>1, <2>2 DEF WaiterRecv, Readers
  <2> QED
    BY <2>1, <2>2 DEF Reader
<1> QED
  BY <1>2, <1>3

\* The broadcast of an acknowledgement hands on what is on its way.
LEMMA AckRecvAcksNothing ==
  ASSUME DownloadInv, "ackLag" \notin Faults, NEW d \in ackNet, AckRecv(d)
  PROVE  /\ \A c \in Conns : \A n \in Nat : Acked(c, n)' => Acked(c, n)
         /\ \A c \in Conns : reader'[c].ack = reader[c].ack
<1>1. reader \in [Conns -> Readers] /\ d \in Datagrams
  BY DEF DownloadInv, TasksTyped, ChannelsHold, Known
<1>2. ASSUME NEW c \in Conns
      PROVE  /\ reader'[c].sequence = reader[c].sequence /\ reader'[c].ack = reader[c].ack
             /\ Range(reader'[c].queue) \subseteq Range(reader[c].queue) \cup {d}
  <2>1. reader[c] \in Readers /\ reader[c].queue \in Seq(Datagrams)
    BY <1>1, ReaderParts
  <2>2. CASE reader'[c] = reader[c]
    BY <2>2
  <2>3. CASE reader'[c] = [reader[c] EXCEPT !.queue = Append(@, d)]
    <3>1. Range(Append(reader[c].queue, d)) = Range(reader[c].queue) \cup {d}
      BY <1>1, <2>1, PushRange
    <3>2. /\ reader'[c].sequence = reader[c].sequence /\ reader'[c].ack = reader[c].ack
          /\ reader'[c].queue = Append(reader[c].queue, d)
      BY <2>1, <2>3 DEF Readers
    <3> QED
      BY <3>1, <3>2
  <2> QED
    BY <2>2, <2>3 DEF AckRecv
<1>3. ackNet' \subseteq ackNet
  BY DEF AckRecv
<1> QED
  BY <1>2, <1>3 DEF Acked

LEMMA PathTypes ==
  ASSUME DownloadInv, NEW c \in Conns
  PROVE  /\ writer[c].queue \in Seq(Datagrams) /\ serverData \in Seq(Datagrams)
         /\ rxData \in Seq(Datagrams) /\ writer[c].next \in Nat /\ writer[c] \in Writers
         /\ reader[c].sequence \in Nat
<1>1. Known \subseteq Datagrams
  BY DEF Known
<1>2. ChannelsHold(Datagrams)
  BY <1>1, HoldMore DEF DownloadInv
<1>3. writer[c] \in Writers /\ reader[c] \in Readers
  BY DEF DownloadInv, TasksTyped
<1> QED
  BY <1>2, <1>3, WriterParts, ReaderParts DEF ChannelsHold

LEMMA TunnelRecvKeeps ==
  ASSUME DownloadInv, NEW d \in net, TunnelRecv(d), NEW c \in Conns, Kept(c)
  PROVE  Kept(c)'
<1> SUFFICES ASSUME ~Gone(c) PROVE Kept(c)'
  BY DEF Kept, Gone, TunnelRecv
<1> DEFINE q == writer[c].queue
           S == Range(q) \cup Range(serverData)
           n == writer[c].next
<1>1. /\ rxData = <<>> /\ rxData' = <<d>> /\ ackNet' \subseteq ackNet \cup {d}
      /\ UNCHANGED <<reader, writer, serverData>>
  BY DEF TunnelRecv, Listens, Transmit
<1>2. d \in Datagrams /\ d.port \in Conns /\ d.sequence \in Nat /\ d.sequence < Sent(d.port)
  BY DatagramShape DEF DownloadInv, ChannelsHold, Known
<1>3. Ordered(c) /\ \A k \in Nat : Acked(c, k) => Arrived(c, k)
  BY DEF Kept
<1>4. Range(<<d>>) = {d} /\ Range(<<>>) = {}
  BY DEF Range
<1>5. InTurn(d, S, c, n)
  <2> SUFFICES ASSUME d.port = c, ~(d.sequence <= n)
               PROVE  ServerDataDatagram(c, d.sequence - 1) \in S
    BY DEF InTurn
  <2>1. n \in Nat /\ reader[c].sequence \in Nat
    BY PathTypes
  <2>2. d.sequence - 1 \in Nat /\ d.sequence - 1 >= n
    BY <1>2, <2>1
  <2>3. d.sequence - 1 < reader[c].sequence
    <3>1. d.sequence < Sent(c) /\ Sent(c) <= reader[c].sequence + 1 /\ Sent(c) \in Nat
      BY <1>2, <2>1 DEF Sent
    <3> QED
      BY <1>2, <2>1, <3>1
  <2>4. Arrived(c, d.sequence - 1)
    BY <1>3, <2>2, <2>3 DEF Acked
  <2>5. ~(d.sequence - 1 < n)
    BY <2>1, <2>2
  <2> QED
    BY <1>1, <1>4, <2>4, <2>5 DEF Arrived, Path
<1>6. InOrder(<<d>>, S, c, n)
  <2>1. \A i \in 1..Len(<<d>>) : <<d>>[i] = d
    OBVIOUS
  <2> QED
    BY <1>5, <2>1 DEF InOrder, InTurn
<1>7. Ordered(c)'
  BY <1>1, <1>3, <1>6 DEF Ordered
<1>8. ASSUME NEW k \in Nat, Acked(c, k)' PROVE Arrived(c, k)'
  <2>1. Acked(c, k) \/ ServerDataDatagram(c, k) = d
    BY <1>1, <1>8 DEF Acked
  <2>2. CASE ServerDataDatagram(c, k) = d
    BY <1>1, <1>4, <2>2 DEF Arrived, Path
  <2>3. CASE Acked(c, k)
    <3>1. Arrived(c, k)
      BY <1>3, <2>3
    <3> QED
      BY <1>1, <1>4, <3>1 DEF Arrived, Path
  <2> QED
    BY <2>1, <2>2, <2>3
<1> QED
  BY <1>7, <1>8 DEF Kept

LEMMA PushServerDataKeeps ==
  ASSUME DownloadInv, PushServerData, NEW c \in Conns, Kept(c)
  PROVE  Kept(c)'
<1> SUFFICES ASSUME ~Gone(c) PROVE Kept(c)'
  BY DEF Kept, Gone, PushServerData
<1> DEFINE q == writer[c].queue
           n == writer[c].next
           d == Head(rxData)
<1>1. /\ rxData # <<>> /\ rxData' = <<>> /\ serverData' = serverData \o rxData
      /\ UNCHANGED <<reader, writer, ackNet>>
  BY DEF PushServerData, wireVars
<1>2. serverData \in Seq(Datagrams) /\ rxData \in Seq(Datagrams) /\ Len(rxData) <= 1
  BY PathTypes DEF DownloadInv, ChannelsFit
<1>3. serverData' = Append(serverData, d) /\ d \in Datagrams /\ rxData = <<d>>
  <2>1. serverData \o rxData = Append(serverData, Head(rxData)) /\ Head(rxData) \in Datagrams
    BY <1>1, <1>2, PushHeld, Zenon
  <2>2. rxData = <<Head(rxData)>>
    BY <1>1, <1>2, HeldOne
  <2> QED
    BY <1>1, <2>1, <2>2
<1>4. Ordered(c) /\ \A k \in Nat : Acked(c, k) => Arrived(c, k)
  BY DEF Kept
<1>5. /\ Range(rxData) = {d} /\ Range(rxData') = {}
      /\ Range(serverData') = Range(serverData) \cup {d}
  BY <1>1, <1>2, <1>3, PushRange DEF Range
<1>6. InTurn(d, Range(q) \cup Range(serverData), c, n)
  BY <1>1, <1>2, <1>4, PopInOrder DEF Ordered
<1>7. InOrder(serverData', Range(q), c, n)
  BY <1>2, <1>3, <1>4, <1>6, PushInOrder DEF Ordered
<1>8. InOrder(rxData', Range(q) \cup Range(serverData'), c, n)
  <2>1. Len(rxData') = 0
    BY <1>1, EmptyQueue
  <2> QED
    BY <2>1 DEF InOrder
<1>9. Ordered(c)'
  BY <1>1, <1>4, <1>7, <1>8 DEF Ordered
<1>10. Path(c)' = Path(c)
  BY <1>1, <1>5 DEF Path
<1> QED
  BY <1>1, <1>4, <1>9, <1>10 DEF Kept, Acked, Arrived

LEMMA BroadcastKeeps ==
  ASSUME DownloadInv, "lag" \notin Faults, Broadcast, NEW c \in Conns, Kept(c)
  PROVE  Kept(c)'
<1> DEFINE q == writer[c].queue
           n == writer[c].next
           d == Head(serverData)
<1>1. /\ serverData # <<>> /\ serverData' = Tail(serverData)
      /\ UNCHANGED <<reader, rxData, ackNet>>
  BY DEF Broadcast, wireVars
<1>2. /\ serverData \in Seq(Datagrams) /\ q \in Seq(Datagrams) /\ writer[c] \in Writers
      /\ d \in Datagrams
  BY <1>1, PathTypes, PopKeeps
<1>3. CASE Gone(c)
  <2>1. writer'[c].state # "recv"
    BY <1>2, <1>3, BroadcastEffect DEF Gone, Writers
  <2> QED
    BY <2>1 DEF Kept, Gone
<1>4. CASE ~Gone(c)
  <2>1. writer'[c].queue = Append(q, d) /\ writer'[c].next = n
    BY <1>2, <1>4, BroadcastEffect DEF Gone, Writers
  <2>2. Ordered(c) /\ \A k \in Nat : Acked(c, k) => Arrived(c, k)
    BY <1>4 DEF Kept
  <2>3. /\ Range(writer'[c].queue) = Range(q) \cup {d}
        /\ Range(serverData) = {d} \cup Range(serverData')
    BY <1>1, <1>2, <2>1, PushRange, PopRange
  <2>4. InTurn(d, Range(q), c, n) /\ InOrder(serverData', Range(q) \cup {d}, c, n)
    BY <1>1, <1>2, <2>2, PopInOrder DEF Ordered
  <2>5. InOrder(writer'[c].queue, {}, c, n)
    <3>1. {} \cup Range(q) = Range(q)
      OBVIOUS
    <3> QED
      BY <1>2, <2>1, <2>2, <2>4, <3>1, PushInOrder DEF Ordered
  <2>6. InOrder(rxData', Range(writer'[c].queue) \cup Range(serverData'), c, n)
    <3>1. Range(writer'[c].queue) \cup Range(serverData') = Range(q) \cup Range(serverData)
      BY <2>3
    <3> QED
      BY <1>1, <2>2, <3>1 DEF Ordered
  <2>7. Ordered(c)'
    BY <2>1, <2>3, <2>4, <2>5, <2>6 DEF Ordered
  <2>8. Path(c)' = Path(c)
    BY <1>1, <2>3 DEF Path
  <2> QED
    BY <1>1, <2>1, <2>2, <2>7, <2>8 DEF Kept, Acked, Arrived
<1> QED
  BY <1>3, <1>4

\* A writer that goes on passes what it has written, or writes it now.
LEMMA WriterRecvKeeps ==
  ASSUME DownloadInv, NEW e \in Conns, WriterRecv(e), NEW c \in Conns, Kept(c)
  PROVE  Kept(c)'
<1> DEFINE q == writer[c].queue
           d == Head(q)
           n == writer[c].next
           m == writer'[c].next
<1>1. UNCHANGED <<reader, ackNet, serverData, rxData>>
  BY DEF WriterRecv, wireVars
<1>2. /\ writer \in [Conns -> Writers] /\ writer' = [writer EXCEPT ![e] = writer'[e]]
      /\ \A k \in Nat : Acked(c, k)' <=> Acked(c, k)
  BY <1>1, WriterRecvEffect DEF DownloadInv, TasksTyped, Acked
<1>3. CASE c # e
  <2>1. writer'[c] = writer[c]
    BY <1>2, <1>3
  <2> QED
    BY <1>1, <1>2, <2>1, QuietKeeps
<1>4. CASE c = e /\ Gone(c)
  <2>1. writer'[c].state # "recv"
    BY <1>4, WriterRecvEffect DEF Gone
  <2> QED
    BY <2>1 DEF Kept, Gone
<1>5. CASE c = e /\ ~Gone(c)
  <2>1. /\ writer'[c].queue = Tail(q) /\ d \in Datagrams
        /\ Expected(d, c) => m = n + 1
        /\ ~Expected(d, c) => m = n
    BY <1>5, WriterRecvEffect DEF Gone
  <2>2. Ordered(c) /\ \A k \in Nat : Acked(c, k) => Arrived(c, k)
    BY <1>5 DEF Kept
  <2>3. /\ q \in Seq(Datagrams) /\ q # <<>> /\ n \in Nat /\ m \in Nat /\ n <= m
        /\ serverData \in Seq(Datagrams) /\ rxData \in Seq(Datagrams)
    <3>1. q \in Seq(Datagrams) /\ q # <<>> /\ n \in Nat
          /\ serverData \in Seq(Datagrams) /\ rxData \in Seq(Datagrams)
      BY <1>5, PathTypes DEF WriterRecv
    <3> QED
      BY <2>1, <3>1
  <2>4. Range(q) = {d} \cup Range(Tail(q)) /\ Tail(q) \in Seq(Datagrams)
    BY <2>3, PopRange, PopKeeps
  <2>5. InTurn(d, {}, c, n) /\ InOrder(Tail(q), {} \cup {d}, c, n)
    BY <2>2, <2>3, PopInOrder DEF Ordered
  <2>6. d.port = c => d.sequence < m
    <3> SUFFICES ASSUME d.port = c PROVE d.sequence < m
      OBVIOUS
    <3>1. d.sequence \in Nat /\ d.sequence <= n
      BY <2>1, <2>5, DatagramShape DEF InTurn
    <3>2. Expected(d, c) <=> d.sequence = n
      BY DEF Expected
    <3> QED
      BY <2>1, <2>3, <3>1, <3>2
  <2> HIDE DEF q, d, n, m
  <2>7. InOrder(Tail(q), {}, c, m)
    BY <2>3, <2>4, <2>5, <2>6, PassInOrder
  <2>8. InOrder(serverData, Range(Tail(q)), c, m)
    <3>1. InOrder(serverData, Range(Tail(q)) \cup {d}, c, n)
      BY <2>2, <2>4, MoreInOrder DEF Ordered, q, n
    <3> QED
      BY <2>3, <2>6, <3>1, PassInOrder
  <2>9. InOrder(rxData, Range(Tail(q)) \cup Range(serverData), c, m)
    <3>1. InOrder(rxData, (Range(Tail(q)) \cup Range(serverData)) \cup {d}, c, n)
      BY <2>2, <2>4, MoreInOrder DEF Ordered, q, n
    <3> QED
      BY <2>3, <2>6, <3>1, PassInOrder
  <2>10. Ordered(c)'
    BY <1>1, <2>1, <2>7, <2>8, <2>9 DEF Ordered, m
  <2>11. ASSUME NEW k \in Nat, Acked(c, k)' PROVE Arrived(c, k)'
    <3>1. k < n \/ ServerDataDatagram(c, k) \in {d} \cup Range(Tail(q)) \cup Range(serverData) \cup Range(rxData)
      <4>1. Arrived(c, k)
        BY <1>2, <2>2, <2>11
      <4> QED
        BY <2>4, <4>1 DEF Arrived, Path, q, n
    <3>2. ServerDataDatagram(c, k) = d => k < m
      BY <2>6 DEF ServerDataDatagram
    <3>3. k < m \/ ServerDataDatagram(c, k) \in Range(Tail(q)) \cup Range(serverData) \cup Range(rxData)
      BY <2>3, <3>1, <3>2
    <3> QED
      BY <1>1, <2>1, <3>3 DEF Arrived, Path, m
  <2> QED
    BY <2>10, <2>11 DEF Kept
<1> QED
  BY <1>3, <1>4, <1>5

LEMMA ApplicationClosesKeeps ==
  ASSUME DownloadInv, NEW e \in Conns, ApplicationCloses(e), NEW c \in Conns, Kept(c)
  PROVE  Kept(c)'
<1>1. /\ writer \in [Conns -> Writers] /\ writer' = [writer EXCEPT ![e] = writer'[e]]
      /\ writer'[e].state # "recv"
  BY ClosesEffect DEF DownloadInv, TasksTyped
<1>2. CASE c = e
  BY <1>1, <1>2 DEF Kept, Gone
<1>3. CASE c # e
  <2>1. writer'[c] = writer[c] /\ UNCHANGED <<reader, ackNet, serverData, rxData>>
    BY <1>1, <1>3 DEF ApplicationCloses, wireVars
  <2>2. \A k \in Nat : Acked(c, k)' => Acked(c, k)
    BY <2>1 DEF Acked
  <2> QED
    BY <2>1, <2>2, QuietKeeps
<1> QED
  BY <1>2, <1>3

LEMMA InitAckInv == Init => AckInv
<1> SUFFICES ASSUME Init PROVE AckInv
  OBVIOUS
<1>1. DownloadInv
  BY InitDownloadInv
<1>2. /\ \A c \in Conns : /\ writer[c].state = "recv" /\ writer[c].queue = <<>>
                          /\ writer[c].next = 0 /\ writer[c].written = <<>>
                          /\ reader[c].sequence = 0 /\ reader[c].ack = "idle"
                          /\ reader[c].queue = <<>>
      /\ serverData = <<>> /\ rxData = <<>> /\ ackNet = {}
  BY DEF Init
<1>3. Len(<<>>) = 0 /\ Range(<<>>) = {}
  BY DEF Range
<1>4. WrittenOwn
  BY <1>2, <1>3 DEF WrittenOwn
<1>5. \A c \in Conns : Ordered(c)
  BY <1>2, <1>3 DEF Ordered, InOrder
<1>6. \A c \in Conns : \A n \in Nat : ~Acked(c, n)
  BY <1>2, <1>3 DEF Acked
<1> QED
  BY <1>1, <1>2, <1>4, <1>5, <1>6 DEF AckInv, Kept, Gone

\* Everything that is neither the reader of a connection nor the end of its path
\* leaves both as they are, and acknowledges nothing new.
LEMMA OthersAreQuiet ==
  ASSUME \/ Requests \/ TunnelSend \/ Lose \/ UNCHANGED vars
         \/ \E d \in net : AckSendFails(d)
  PROVE  /\ UNCHANGED <<reader, writer, serverData, rxData>>
         /\ ackNet' \subseteq ackNet
<1>1. CASE Requests
  BY <1>1
  DEF Requests, RxFails, PushClientData, Dispatch, HandOver, RequestArrives, WriteRequest,
      ServerWrites, wireVars, arrivalVars
<1>2. CASE UNCHANGED vars
  BY <1>2 DEF vars, wireVars, arrivalVars
<1>3. CASE TunnelSend \/ Lose \/ \E d \in net : AckSendFails(d)
  BY <1>3 DEF TunnelSend, Lose, AckSendFails, arrivalVars
<1> QED
  BY <1>1, <1>2, <1>3

LEMMA QuietStepKeeps ==
  ASSUME UNCHANGED <<reader, writer, serverData, rxData>>, ackNet' \subseteq ackNet,
         NEW c \in Conns, Kept(c)
  PROVE  Kept(c)'
<1>1. \A n \in Nat : Acked(c, n)' => Acked(c, n)
  BY DEF Acked
<1> QED
  BY <1>1, QuietKeeps

\* Nobody is overrun: acknowledgement waiters hear everything, and a writer leaves
\* its loop only when its application closes.
LEMMA NobodyOverrun ==
  ASSUME AckInv, "lag" \notin Faults, "ackLag" \notin Faults, [Next]_vars, NEW c \in Conns
  PROVE  reader'[c].ack # "lagged" /\ (Gone(c)' => "close" \in Faults)
<1>1. /\ DownloadInv /\ reader[c].ack # "lagged" /\ (Gone(c) => "close" \in Faults)
      /\ writer \in [Conns -> Writers] /\ writer[c] \in Writers
      /\ \A e \in Conns : reader[e].ack # "lagged"
  BY DEF AckInv, DownloadInv, TasksTyped
<1>2. CASE \/ Requests \/ TunnelSend \/ Lose \/ UNCHANGED vars
           \/ \E d \in net : AckSendFails(d)
  BY <1>1, <1>2, OthersAreQuiet DEF Gone
<1>3. CASE PushServerData \/ \E d \in net : TunnelRecv(d)
  BY <1>1, <1>3 DEF PushServerData, TunnelRecv, Gone
<1>4. CASE Broadcast
  <2>1. reader' = reader
    BY <1>4 DEF Broadcast
  <2>2. writer'[c].state = writer[c].state
    BY <1>1, <1>4, BroadcastEffect DEF Writers
  <2> QED
    BY <1>1, <2>1, <2>2 DEF Gone
<1>5. ASSUME NEW d \in ackNet, AckRecv(d)
      PROVE  reader'[c].ack # "lagged" /\ (Gone(c)' => "close" \in Faults)
  <2>1. writer' = writer
    BY <1>5 DEF AckRecv, arrivalVars
  <2> QED
    BY <1>1, <1>5, <2>1, AckRecvAcksNothing DEF Gone
<1>6. ASSUME NEW e \in Conns, Reader(e)
      PROVE  reader'[c].ack # "lagged" /\ (Gone(c)' => "close" \in Faults)
  <2>1. writer' = writer
    BY <1>6 DEF Reader, ReadChunk, ReaderStops, AckObserved, Resend, SendFails, WaiterRecv, arrivalVars
  <2> QED
    BY <1>1, <1>6, <2>1, ReaderNeverLags DEF Gone
<1>7. ASSUME NEW e \in Conns, WriterRecv(e)
      PROVE  reader'[c].ack # "lagged" /\ (Gone(c)' => "close" \in Faults)
  <2>1. /\ reader' = reader /\ writer' = [writer EXCEPT ![e] = writer'[e]]
        /\ writer[e].state = "recv" => writer'[e].state = "recv"
    BY <1>1, <1>7, WriterRecvEffect DEF WriterRecv
  <2> QED
    BY <1>1, <2>1 DEF Gone
<1>8. ASSUME NEW e \in Conns, ApplicationCloses(e)
      PROVE  reader'[c].ack # "lagged" /\ (Gone(c)' => "close" \in Faults)
  <2>1. "close" \in Faults /\ reader' = reader
    BY <1>8 DEF ApplicationCloses
  <2> QED
    BY <1>1, <2>1
<1> QED
  BY <1>2, <1>3, <1>4, <1>5, <1>6, <1>7, <1>8 DEF Next, Tunnel

LEMMA NextKeepsAckInv ==
  ASSUME AckInv, "lag" \notin Faults, "ackLag" \notin Faults, [Next]_vars
  PROVE  AckInv'
<1>1. /\ DownloadInv /\ WrittenOwn /\ \A e \in Conns : reader[e].ack # "lagged"
  BY DEF AckInv
<1>2. DownloadInv' /\ WrittenOwn'
  BY <1>1, NextKeepsInv, NextKeepsWrittenOwn
<1>3. ASSUME NEW c \in Conns PROVE Kept(c)'
  <2>1. Kept(c)
    BY DEF AckInv
  <2>2. CASE \/ Requests \/ TunnelSend \/ Lose \/ UNCHANGED vars
             \/ \E d \in net : AckSendFails(d)
    BY <2>1, <2>2, OthersAreQuiet, QuietStepKeeps
  <2>3. CASE PushServerData
    BY <1>1, <2>1, <2>3, PushServerDataKeeps
  <2>4. CASE Broadcast
    BY <1>1, <2>1, <2>4, BroadcastKeeps
  <2>5. ASSUME NEW d \in net, TunnelRecv(d) PROVE Kept(c)'
    BY <1>1, <2>1, <2>5, TunnelRecvKeeps
  <2>6. ASSUME NEW d \in ackNet, AckRecv(d) PROVE Kept(c)'
    <3>1. writer'[c] = writer[c] /\ serverData' = serverData /\ rxData' = rxData
      BY <2>6 DEF AckRecv, arrivalVars
    <3>2. \A n \in Nat : Acked(c, n)' => Acked(c, n)
      BY <1>1, <2>6, AckRecvAcksNothing
    <3> QED
      BY <2>1, <3>1, <3>2, QuietKeeps
  <2>7. ASSUME NEW e \in Conns, Reader(e) PROVE Kept(c)'
    <3>1. writer'[c] = writer[c] /\ serverData' = serverData /\ rxData' = rxData
      BY <2>7 DEF Reader, ReadChunk, ReaderStops, AckObserved, Resend, SendFails, WaiterRecv, arrivalVars
    <3>2. \A n \in Nat : Acked(c, n)' => Acked(c, n)
      BY <1>1, <2>7, ReaderAcksNothing
    <3> QED
      BY <2>1, <3>1, <3>2, QuietKeeps
  <2>8. ASSUME NEW e \in Conns, WriterRecv(e) PROVE Kept(c)'
    BY <1>1, <2>1, <2>8, WriterRecvKeeps
  <2>9. ASSUME NEW e \in Conns, ApplicationCloses(e) PROVE Kept(c)'
    BY <1>1, <2>1, <2>9, ApplicationClosesKeeps
  <2> QED
    BY <2>2, <2>3, <2>4, <2>5, <2>6, <2>7, <2>8, <2>9 DEF Next, Tunnel
<1> QED
  BY <1>2, <1>3, NobodyOverrun DEF AckInv

LEMMA AckInvGivesAckedNotLost == AckInv => AckedNotLost
<1> SUFFICES ASSUME AckInv, NEW c \in Conns, NEW n \in 0..(reader[c].sequence - 1), ~Gone(c)
             PROVE  \/ ServerDataDatagram(c, n) \in Path(c)
                    \/ ServerDataDatagram(c, n) \in Range(writer[c].written)
  BY DEF AckInv, AckedNotLost, Path, Gone
<1>1. n \in Nat /\ n < reader[c].sequence /\ writer[c].next \in Nat
  BY PathTypes DEF AckInv
<1>2. Arrived(c, n)
  BY <1>1 DEF AckInv, Kept, Acked
<1>3. CASE n < writer[c].next
  <2>1. writer[c].written \in Seq(Datagrams) /\ writer[c].next = Len(writer[c].written)
    BY WriterParts DEF AckInv, DownloadInv, TasksTyped
  <2>2. n + 1 \in 1..Len(writer[c].written) /\ (n + 1) - 1 = n
    BY <1>1, <1>3, <2>1
  <2>3. writer[c].written[n + 1] = ServerDataDatagram(c, n)
    BY <2>2 DEF AckInv, WrittenOwn
  <2> QED
    BY <2>1, <2>2, <2>3 DEF Range
<1> QED
  BY <1>2, <1>3 DEF Arrived

\* When nobody is overrun, no chunk is lost that its server was made to move on
\* from: peer A acknowledges a datagram before it has room for it, yet does not
\* drop it, and a writer skips only what it has written. (A broadcast that overruns
\* a writer or an acknowledgement waiter does lose chunks: README, section 4.)
THEOREM AckedNotLostHolds ==
  ASSUME "lag" \notin Faults, "ackLag" \notin Faults
  PROVE  Spec => []AckedNotLost
<1>1. Init => AckInv
  BY InitAckInv
<1>2. AckInv /\ [Next]_vars => AckInv'
  BY NextKeepsAckInv
<1> QED
  BY <1>1, <1>2, AckInvGivesAckedNotLost, PTL DEF Spec

=============================================================================
