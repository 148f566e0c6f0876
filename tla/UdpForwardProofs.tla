--------------------------- MODULE UdpForwardProofs ---------------------------
(***************************************************************************)
(* Type correctness of UdpForward and FlowsApart, for every number of      *)
(* ports, clients and datagrams, every capacity and every fault.           *)
(***************************************************************************)
EXTENDS UdpForward, QueueLemmas, TLAPS

\* A datagram that handle_udp holds has not yet been counted.
CountsAfter == holding # <<>> => sequence[Head(holding).port] < MaxDatagrams

\* An InboundClient that runs or ran has a port to send answers to.
HasPort == \A k \in Clients : clState[k] # "unused" => clPort[k] \in Ports

TypeInv == TypeOK /\ CountsAfter /\ HasPort

-----------------------------------------------------------------------------
(***************************************************************************)
(* Queues.                                                                 *)
(***************************************************************************)
LEMMA WithoutKeeps ==
  ASSUME NEW S, NEW q \in Seq(S), NEW i \in 1..Len(q)
  PROVE  Without(q, i) \in Seq(S) /\ Len(Without(q, i)) = Len(q) - 1
BY LossKeeps DEF Without

\* A mishap brings nothing into a queue and makes it no longer than it may be.
LEMMA DisturbsKeeps ==
  ASSUME NEW S, NEW q \in Seq(S), NEW r, Disturbs(q, r), Len(q) <= PathCap
  PROVE  r \in Seq(S) /\ Len(r) <= PathCap
<1> PICK i \in 1..Len(q) :
      \/ r = Without(q, i)
      \/ HasRoom(q, PathCap) /\ r = Append(q, q[i])
      \/ r = <<q[i]>> \o Without(q, i)
  BY DEF Disturbs
<1>1. q[i] \in S /\ PathCap \in Nat
  BY UdpAssumption
<1>2. Without(q, i) \in Seq(S) /\ Len(Without(q, i)) = Len(q) - 1
  BY WithoutKeeps
<1>3. <<q[i]>> \o Without(q, i) \in Seq(S) /\ Len(<<q[i]>> \o Without(q, i)) = Len(q)
  <2>1. /\ <<q[i]>> \o Without(q, i) \in Seq(S)
        /\ Len(<<q[i]>> \o Without(q, i)) = Len(Without(q, i)) + 1
    BY <1>1, <1>2, FrontKeeps
  <2>2. Len(Without(q, i)) + 1 = Len(q)
    BY <1>2
  <2> QED
    BY <2>1, <2>2, Zenon
<1>4. Append(q, q[i]) \in Seq(S) /\ Len(Append(q, q[i])) = Len(q) + 1
  BY <1>1, PushKeeps
<1>5. CASE r = Without(q, i)
  BY <1>1, <1>2, <1>5
<1>6. CASE HasRoom(q, PathCap) /\ r = Append(q, q[i])
  BY <1>1, <1>4, <1>6 DEF HasRoom
<1>7. CASE r = <<q[i]>> \o Without(q, i)
  BY <1>3, <1>7, Zenon
<1> QED
  BY <1>5, <1>6, <1>7

-----------------------------------------------------------------------------
(***************************************************************************)
(* Type correctness.                                                       *)
(***************************************************************************)
LEMMA InitTypeInv == Init => TypeInv
<1> SUFFICES ASSUME Init PROVE TypeInv
  OBVIOUS
<1>1. /\ <<>> \in Seq(ClientData) /\ <<>> \in Seq(ServerData)
      /\ <<>> \in Seq(ClientData \cup {Close}) /\ Len(<<>>) = 0
  BY EmptyQueue
<1> QED
  BY <1>1, UdpAssumption DEF Init, TypeInv, TypeOK, CountsAfter, HasPort, ClientStates

LEMMA PortOf ==
  ASSUME NEW m \in ClientData
  PROVE  m.port \in Ports
BY DEF ClientData

LEMMA CounterTypes ==
  ASSUME TypeInv, NEW p \in Ports
  PROVE  CounterOf(p) \in Nat
BY UdpAssumption DEF TypeInv, TypeOK, CounterOf

LEMMA ServerKeepsTypes ==
  ASSUME TypeInv, Server
  PROVE  TypeInv'
<1> USE UdpAssumption DEF serverVars, mapVars, clientVars
<1>1. ASSUME NEW p \in Ports, AppSends(p)
      PROVE  TypeInv'
  <2> DEFINE m == [port |-> p, sequence |-> CounterOf(p)]
  <2>1. m \in ClientData /\ CounterOf(p) \in 0..MaxDatagrams
    BY <1>1, CounterTypes DEF AppSends, ClientData, Sequences
  <2>2. <<m>> \in Seq(ClientData) /\ Len(<<m>>) = 1 /\ Head(<<m>>) = m
    BY <2>1, OneInQueue
  <2>3. sequence' \in [Ports -> 0..MaxDatagrams] /\ sequence'[p] < MaxDatagrams
    BY <1>1, <2>1 DEF AppSends, TypeInv, TypeOK
  <2>4. CountsAfter'
    BY <1>1, <2>2, <2>3 DEF AppSends, CountsAfter
  <2> QED
    BY <1>1, <2>2, <2>3, <2>4 DEF AppSends, TypeInv, TypeOK, HasPort
<1>2. CASE PushClientData
  <2> DEFINE m == Head(holding)
  <2>1. m \in ClientData /\ m.port \in Ports /\ up \in Seq(ClientData)
    <3>1. m \in ClientData /\ up \in Seq(ClientData)
      BY <1>2, PopKeeps DEF PushClientData, TypeInv, TypeOK
    <3> QED
      BY <3>1, PortOf
  <2>2. up' \in Seq(ClientData) /\ Len(up') <= PathCap
    BY <1>2, <2>1, PushKeeps DEF PushClientData, HasRoom
  <2>3. sequence' \in [Ports -> 0..MaxDatagrams]
    BY <1>2, <2>1 DEF PushClientData, TypeInv, TypeOK, CountsAfter
  <2>4. holding' = <<>> /\ holding' \in Seq(ClientData) /\ Len(holding') <= 1
    BY <1>2, EmptyQueue DEF PushClientData
  <2> QED
    BY <1>2, <2>2, <2>3, <2>4 DEF PushClientData, TypeInv, TypeOK, CountsAfter, HasPort
<1>3. ASSUME NEW p \in Ports, AppSendsNothing(p)
      PROVE  TypeInv'
  BY <1>3 DEF AppSendsNothing, TypeInv, TypeOK, CountsAfter, HasPort
<1>4. CASE AnswerArrives
  <2> DEFINE m == Head(down)
  <2>1. m \in ServerData /\ Tail(down) \in Seq(ServerData) /\ Len(Tail(down)) = Len(down) - 1
    BY <1>4, PopKeeps DEF AnswerArrives, TypeInv, TypeOK
  <2>2. m.port \in Ports /\ m.answers \in ClientData
    BY <2>1 DEF ServerData
  <2>3. answered' \in [Ports -> SUBSET ClientData]
    BY <1>4, <2>2 DEF AnswerArrives, TypeInv, TypeOK
  <2>4. down' \in Seq(ServerData) /\ Len(down') <= PathCap
    BY <1>4, <2>1 DEF AnswerArrives, TypeInv, TypeOK
  <2> QED
    BY <1>4, <2>3, <2>4 DEF AnswerArrives, TypeInv, TypeOK, CountsAfter, HasPort
<1> QED
  BY <1>1, <1>2, <1>3, <1>4 DEF Server

\* The dispatcher takes the head of what comes up.
LEMMA TakeHead ==
  ASSUME TypeInv, up # <<>>
  PROVE  /\ Head(up) \in ClientData /\ Head(up).port \in Ports /\ Head(up) # Close
         /\ Tail(up) \in Seq(ClientData) /\ Len(Tail(up)) <= PathCap
<1>1. Head(up) \in ClientData /\ Tail(up) \in Seq(ClientData) /\ Len(Tail(up)) = Len(up) - 1
  BY PopKeeps DEF TypeInv, TypeOK
<1>2. Head(up).port \in Ports /\ Head(up) # Close
  BY <1>1, PortOf, CloseAssumption
<1>3. Len(Tail(up)) <= PathCap
  BY <1>1, UdpAssumption DEF TypeInv, TypeOK
<1> QED
  BY <1>1, <1>2, <1>3

\* Clients are told to close only where there is room.
LEMMA TellCloseKeepsTypes ==
  ASSUME TypeInv, NEW told, TellClose(told)
  PROVE  /\ clQueue' \in [Clients -> Seq(ClientData \cup {Close})]
         /\ \A k \in Clients : Len(clQueue'[k]) <= ClientCap
<1>1. ASSUME NEW k \in Clients
      PROVE  clQueue'[k] \in Seq(ClientData \cup {Close}) /\ Len(clQueue'[k]) <= ClientCap
  <2>1. clQueue[k] \in Seq(ClientData \cup {Close}) /\ Len(clQueue[k]) <= ClientCap
    BY DEF TypeInv, TypeOK
  <2>2. CASE k \in told
    <3>1. clQueue'[k] = Append(clQueue[k], Close) /\ HasRoom(clQueue[k], ClientCap)
      BY <2>2 DEF TellClose
    <3>2. /\ Append(clQueue[k], Close) \in Seq(ClientData \cup {Close})
          /\ Len(Append(clQueue[k], Close)) = Len(clQueue[k]) + 1
      BY <2>1, PushKeeps
    <3> QED
      BY <2>1, <3>1, <3>2, UdpAssumption DEF HasRoom
  <2>3. CASE k \notin told
    BY <2>1, <2>3 DEF TellClose
  <2> QED
    BY <2>2, <2>3
<1>2. clQueue' = [k \in Clients |-> clQueue'[k]]
  BY DEF TellClose
<1> QED
  BY <1>1, <1>2

LEMMA DispatcherKeepsTypes ==
  ASSUME TypeInv, Dispatcher
  PROVE  TypeInv'
<1> USE UdpAssumption DEF serverVars, mapVars, clientVars, Key
<1>1. CASE SkipUnknown
  BY <1>1, TakeHead DEF SkipUnknown, TypeInv, TypeOK, CountsAfter, HasPort
<1>2. ASSUME NEW k \in Clients, SpawnClient(k)
      PROVE  TypeInv'
  <2>1. Head(up) \in ClientData \cup {Close} /\ Head(up).port \in Ports
    BY <1>2, TakeHead DEF SpawnClient
  <2>2. <<Head(up)>> \in Seq(ClientData \cup {Close}) /\ Len(<<Head(up)>>) = 1
    BY <2>1, OneInQueue
  <2>3. /\ clQueue' \in [Clients -> Seq(ClientData \cup {Close})]
        /\ \A l \in Clients : Len(clQueue'[l]) <= ClientCap
    BY <1>2, <2>2 DEF SpawnClient, TypeInv, TypeOK
  <2>4. up' \in Seq(ClientData) /\ Len(up') <= PathCap
    BY <1>2, TakeHead DEF SpawnClient
  <2> QED
    BY <1>2, <2>1, <2>3, <2>4 DEF SpawnClient, TypeInv, TypeOK, CountsAfter, HasPort, ClientStates
<1>3. CASE Dispatch
  <2> DEFINE k == inboundClients[Head(up).port]
  <2>1. /\ k \in Clients /\ clQueue[k] \in Seq(ClientData \cup {Close})
        /\ Head(up) \in ClientData \cup {Close}
    BY <1>3, TakeHead DEF Dispatch, TypeInv, TypeOK
  <2>2. /\ clQueue' \in [Clients -> Seq(ClientData \cup {Close})]
        /\ \A l \in Clients : Len(clQueue'[l]) <= ClientCap
    <3>1. CASE UNCHANGED clQueue
      BY <3>1 DEF TypeInv, TypeOK
    <3>2. CASE HasRoom(clQueue[k], ClientCap) /\ clQueue' = [clQueue EXCEPT ![k] = Append(@, Head(up))]
      <4>1. /\ Append(clQueue[k], Head(up)) \in Seq(ClientData \cup {Close})
            /\ Len(Append(clQueue[k], Head(up))) <= ClientCap
        BY <2>1, <3>2, PushKeeps DEF HasRoom
      <4> QED
        BY <2>1, <3>2, <4>1 DEF TypeInv, TypeOK
    <3> QED
      BY <1>3, <3>1, <3>2 DEF Dispatch
  <2>3. up' \in Seq(ClientData) /\ Len(up') <= PathCap
    BY <1>3, TakeHead DEF Dispatch
  <2> QED
    BY <1>3, <2>2, <2>3 DEF Dispatch, TypeInv, TypeOK, CountsAfter, HasPort
<1>4. ASSUME NEW expired \in SUBSET Ports, Cleanup(expired)
      PROVE  TypeInv'
  <2>1. /\ clQueue' \in [Clients -> Seq(ClientData \cup {Close})]
        /\ \A k \in Clients : Len(clQueue'[k]) <= ClientCap
    <3> DEFINE told == {inboundClients[p] : p \in expired}
    <3>1. TellClose(told)
      BY <1>4 DEF Cleanup
    <3> QED
      BY <3>1, TellCloseKeepsTypes
  <2>2. inboundClients' \in [Ports -> Clients \cup {NoClient}]
    BY <1>4 DEF Cleanup, TypeInv, TypeOK
  <2> QED
    BY <1>4, <2>1, <2>2 DEF Cleanup, TypeInv, TypeOK, CountsAfter, HasPort
<1>5. ASSUME NEW expired \in SUBSET Ports, CleanupFails(expired)
      PROVE  TypeInv'
  <2>1. /\ clQueue' \in [Clients -> Seq(ClientData \cup {Close})]
        /\ \A k \in Clients : Len(clQueue'[k]) <= ClientCap
    <3> DEFINE told == {k \in {inboundClients[p] : p \in expired} : clState[k] # "dead"}
    <3>1. TellClose(told)
      BY <1>5 DEF CleanupFails
    <3> QED
      BY <3>1, TellCloseKeepsTypes
  <2> QED
    BY <1>5, <2>1 DEF CleanupFails, TypeInv, TypeOK, CountsAfter, HasPort
<1> QED
  BY <1>1, <1>2, <1>3, <1>4, <1>5 DEF Dispatcher

LEMMA InboundClientKeepsTypes ==
  ASSUME TypeInv, NEW k \in Clients, InboundClient(k)
  PROVE  TypeInv'
<1> USE DEF serverVars, mapVars, clientVars
<1>1. clQueue[k] \in Seq(ClientData \cup {Close}) /\ served[k] \in Seq(ClientData)
  BY DEF TypeInv, TypeOK
\* Every step leaves its channel as it is, takes the head of it or empties it.
<1>2. ASSUME \/ clQueue' = clQueue
             \/ clQueue' = [clQueue EXCEPT ![k] = <<>>]
             \/ clQueue[k] # <<>> /\ clQueue' = [clQueue EXCEPT ![k] = Tail(@)]
      PROVE  /\ clQueue' \in [Clients -> Seq(ClientData \cup {Close})]
             /\ \A l \in Clients : Len(clQueue'[l]) <= ClientCap
  <2>1. CASE clQueue' = clQueue
    BY <2>1 DEF TypeInv, TypeOK
  <2>2. CASE clQueue' = [clQueue EXCEPT ![k] = <<>>]
    <3>1. <<>> \in Seq(ClientData \cup {Close}) /\ Len(<<>>) = 0
      BY EmptyQueue
    <3> QED
      BY <2>2, <3>1, UdpAssumption DEF TypeInv, TypeOK
  <2>3. CASE clQueue[k] # <<>> /\ clQueue' = [clQueue EXCEPT ![k] = Tail(@)]
    <3>1. Tail(clQueue[k]) \in Seq(ClientData \cup {Close})
          /\ Len(Tail(clQueue[k])) = Len(clQueue[k]) - 1
      BY <1>1, <2>3, PopKeeps
    <3> QED
      BY <1>1, <2>3, <3>1, UdpAssumption DEF TypeInv, TypeOK
  <2> QED
    BY <1>2, <2>1, <2>2, <2>3
<1>3. ASSUME EndOfWriter(k), Writing(k)
      PROVE  /\ \A l \in Clients : clState'[l] # "unused" => clState[l] # "unused"
             /\ clState' \in [Clients -> ClientStates]
             /\ clQueue' \in [Clients -> Seq(ClientData \cup {Close})]
             /\ \A l \in Clients : Len(clQueue'[l]) <= ClientCap
  <2>1. \/ clQueue' = [clQueue EXCEPT ![k] = <<>>]
        \/ clQueue' = [clQueue EXCEPT ![k] = Tail(@)]
    BY <1>3 DEF EndOfWriter
  <2> QED
    BY <1>2, <1>3, <2>1 DEF EndOfWriter, Writing, TypeInv, TypeOK, ClientStates
<1>4. ASSUME EndOfReader(k), Reading(k)
      PROVE  /\ \A l \in Clients : clState'[l] # "unused" => clState[l] # "unused"
             /\ clState' \in [Clients -> ClientStates]
             /\ clQueue' \in [Clients -> Seq(ClientData \cup {Close})]
             /\ \A l \in Clients : Len(clQueue'[l]) <= ClientCap
  <2>1. \/ clQueue' = [clQueue EXCEPT ![k] = <<>>]
        \/ clQueue' = clQueue
    BY <1>4 DEF EndOfReader, TypeInv, TypeOK
  <2> QED
    BY <1>2, <1>4, <2>1 DEF EndOfReader, Reading, TypeInv, TypeOK, ClientStates
<1>5. CASE Write(k)
  <2>1. Head(clQueue[k]) \in ClientData
    BY <1>1, <1>5, PopKeeps DEF Write, Writing
  <2>2. served' \in [Clients -> Seq(ClientData)]
    <3>1. Append(served[k], Head(clQueue[k])) \in Seq(ClientData)
      BY <1>1, <2>1, PushKeeps
    <3> QED
      BY <1>5, <3>1 DEF Write, TypeInv, TypeOK
  <2>3. /\ \A l \in Clients : clState'[l] # "unused" => clState[l] # "unused"
        /\ clState' \in [Clients -> ClientStates]
        /\ clQueue' \in [Clients -> Seq(ClientData \cup {Close})]
        /\ \A l \in Clients : Len(clQueue'[l]) <= ClientCap
    BY <1>2, <1>3, <1>5 DEF Write, Writing, TypeInv, TypeOK
  <2> QED
    BY <1>5, <2>2, <2>3 DEF Write, TypeInv, TypeOK, CountsAfter, HasPort
<1>6. CASE WriterEnds(k)
  BY <1>3, <1>6 DEF WriterEnds, TypeInv, TypeOK, CountsAfter, HasPort
<1>7. CASE ReaderEnds(k)
  BY <1>4, <1>7 DEF ReaderEnds, TypeInv, TypeOK, CountsAfter, HasPort
<1>8. ASSUME NEW m \in ClientData, Answer(k, m)
      PROVE  TypeInv'
  <2>1. clPort[k] \in Ports
    BY <1>8 DEF Answer, Reading, TypeInv, HasPort
  <2>2. [port |-> clPort[k], answers |-> m] \in ServerData
    BY <2>1 DEF ServerData
  <2>3. down' \in Seq(ServerData) /\ Len(down') <= PathCap
    BY <1>8, <2>2, PushKeeps, UdpAssumption DEF Answer, ReplyPort, HasRoom, TypeInv, TypeOK
  <2>4. /\ \A l \in Clients : clState'[l] # "unused" => clState[l] # "unused"
        /\ clState' \in [Clients -> ClientStates]
        /\ clQueue' \in [Clients -> Seq(ClientData \cup {Close})]
        /\ \A l \in Clients : Len(clQueue'[l]) <= ClientCap
    BY <1>4, <1>8 DEF Answer, TypeInv, TypeOK
  <2>5. answers' \in 0..MaxAnswers
    BY <1>8, UdpAssumption DEF Answer, TypeInv, TypeOK
  <2>6. TypeOK'
    BY <1>8, <2>3, <2>4, <2>5 DEF Answer, TypeInv, TypeOK
  <2>7. CountsAfter' /\ HasPort'
    BY <1>8, <2>4 DEF Answer, TypeInv, CountsAfter, HasPort
  <2> QED
    BY <2>6, <2>7 DEF TypeInv
<1> QED
  BY <1>5, <1>6, <1>7, <1>8 DEF InboundClient

LEMMA MishapKeepsTypes ==
  ASSUME TypeInv, Mishap
  PROVE  TypeInv'
<1> USE DEF serverVars, mapVars, clientVars
<1>1. up' \in Seq(ClientData) /\ Len(up') <= PathCap
  <2>1. up \in Seq(ClientData) /\ Len(up) <= PathCap
    BY DEF TypeInv, TypeOK
  <2>2. Disturbs(up, up') \/ up' = up
    BY DEF Mishap
  <2> QED
    BY <2>1, <2>2, DisturbsKeeps
<1>2. down' \in Seq(ServerData) /\ Len(down') <= PathCap
  <2>1. down \in Seq(ServerData) /\ Len(down) <= PathCap
    BY DEF TypeInv, TypeOK
  <2>2. Disturbs(down, down') \/ down' = down
    BY DEF Mishap
  <2> QED
    BY <2>1, <2>2, DisturbsKeeps
<1>3. mishaps' \in 0..MaxMishaps
  BY UdpAssumption DEF Mishap, TypeInv, TypeOK
<1> QED
  BY <1>1, <1>2, <1>3 DEF Mishap, TypeInv, TypeOK, CountsAfter, HasPort

LEMMA NextTypeInv == TypeInv /\ [Next]_vars => TypeInv'
<1> SUFFICES ASSUME TypeInv, [Next]_vars PROVE TypeInv'
  OBVIOUS
<1>1. CASE Server
  BY <1>1, ServerKeepsTypes
<1>2. CASE Dispatcher
  BY <1>2, DispatcherKeepsTypes
<1>3. ASSUME NEW k \in Clients, InboundClient(k)
      PROVE  TypeInv'
  BY <1>3, InboundClientKeepsTypes
<1>4. CASE Mishap
  BY <1>4, MishapKeepsTypes
<1>5. CASE UNCHANGED vars
  BY <1>5 DEF vars, serverVars, mapVars, clientVars, TypeInv, TypeOK, CountsAfter, HasPort
<1> QED
  BY <1>1, <1>2, <1>3, <1>4, <1>5 DEF Next

\* The state is well formed in every run: no counter passes its bound, no queue
\* its capacity, and no answer is on its way to a client without a port.
THEOREM TypeCorrect == Spec => []TypeOK
<1>1. Spec => []TypeInv
  BY InitTypeInv, NextTypeInv, PTL DEF Spec
<1>2. TypeInv => TypeOK
  BY DEF TypeInv
<1> QED
  BY <1>1, <1>2, PTL

-----------------------------------------------------------------------------
(***************************************************************************)
(* FlowsApart. Its two parts hold because of where datagrams are kept: the *)
(* channel of an InboundClient holds those of its own port only, and an    *)
(* answer on its way goes to the port whose datagram it answers.           *)
(***************************************************************************)
Own(p) == {m \in ClientData : m.port = p}
Matched == {m \in ServerData : m.answers.port = m.port}

ClientsOwn ==
  \A k \in Clients : /\ clQueue[k] \in Seq(Own(clPort[k]) \cup {Close})
                     /\ served[k] \in Seq(Own(clPort[k]))

\* A client that is not spawned has carried nothing, so its port can be chosen.
Idle == \A k \in Clients : clState[k] = "unused" => clQueue[k] = <<>> /\ served[k] = <<>>

\* Two ports never share a client.
MapOwn ==
  \A p \in Ports : LET k == inboundClients[p]
                  IN k # NoClient => clPort[k] = p /\ clState[k] # "unused"

AnswersOwn == down \in Seq(Matched) /\ \A p \in Ports : answered[p] \subseteq Own(p)

FlowInv == ClientsOwn /\ Idle /\ MapOwn /\ AnswersOwn

LEMMA FlowInvImplies == TypeInv /\ FlowInv => FlowsApart
<1> SUFFICES ASSUME TypeInv, FlowInv PROVE FlowsApart
  OBVIOUS
<1>1. ASSUME NEW k \in Clients, NEW m \in Range(served[k])
      PROVE  m.port = clPort[k]
  <2>1. served[k] \in Seq(Own(clPort[k]))
    BY DEF FlowInv, ClientsOwn
  <2>2. m \in Own(clPort[k])
    BY <1>1, <2>1, InRange
  <2> QED
    BY <2>2 DEF Own
<1>2. ASSUME NEW p \in Ports, NEW m \in answered[p]
      PROVE  m.port = p
  BY <1>2 DEF FlowInv, AnswersOwn, Own
<1> QED
  BY <1>1, <1>2 DEF FlowsApart

LEMMA InitFlowInv == Init => FlowInv
<1> SUFFICES ASSUME Init PROVE FlowInv
  OBVIOUS
<1>1. AnswersOwn
  BY EmptyQueue DEF Init, AnswersOwn
<1>2. ClientsOwn /\ Idle
  BY EmptyQueue DEF Init, ClientsOwn, Idle
<1>3. MapOwn
  BY DEF Init, MapOwn
<1> QED
  BY <1>1, <1>2, <1>3 DEF FlowInv

LEMMA ServerKeepsFlows ==
  ASSUME TypeInv, FlowInv, Server
  PROVE  FlowInv'
<1> USE DEF serverVars, mapVars, clientVars
<1>1. CASE AnswerArrives
  <2> DEFINE m == Head(down)
  <2>1. m \in Matched /\ Tail(down) \in Seq(Matched)
    BY <1>1, PopKeeps DEF AnswerArrives, FlowInv, AnswersOwn
  <2>2. m.answers \in Own(m.port)
    BY <2>1 DEF Matched, ServerData, Own
  <2>3. \A p \in Ports : answered'[p] \subseteq Own(p)
    BY <1>1, <2>2 DEF AnswerArrives, FlowInv, AnswersOwn, TypeInv, TypeOK
  <2>4. AnswersOwn'
    BY <1>1, <2>1, <2>3 DEF AnswerArrives, AnswersOwn
  <2> QED
    BY <1>1, <2>4 DEF AnswerArrives, FlowInv, ClientsOwn, Idle, MapOwn
<1>2. ASSUME UNCHANGED <<inboundClients, clientVars, down, answered>>
      PROVE  FlowInv'
  BY <1>2 DEF FlowInv, ClientsOwn, Idle, MapOwn, AnswersOwn
<1> QED
  BY <1>1, <1>2 DEF Server, PushClientData, AppSends, AppSendsNothing

\* What is put in the channel of a client has to be of its port.
LEMMA PushOwn ==
  ASSUME TypeInv, FlowInv, NEW k \in Clients,
         NEW x \in Own(clPort[k]) \cup {Close},
         clState[k] # "unused",
         clQueue' = [clQueue EXCEPT ![k] = Append(@, x)],
         UNCHANGED <<clState, clPort, served>>
  PROVE  ClientsOwn' /\ Idle'
<1>1. clQueue[k] \in Seq(Own(clPort[k]) \cup {Close})
  BY DEF FlowInv, ClientsOwn
<1>2. Append(clQueue[k], x) \in Seq(Own(clPort[k]) \cup {Close})
  BY <1>1, PushKeeps
<1>3. /\ clQueue'[k] = Append(clQueue[k], x)
      /\ \A l \in Clients \ {k} : clQueue'[l] = clQueue[l]
  BY DEF TypeInv, TypeOK
<1> QED
  BY <1>2, <1>3 DEF FlowInv, ClientsOwn, Idle

\* And "close" belongs to every port.
LEMMA TellCloseOwn ==
  ASSUME TypeInv, FlowInv, NEW told,
         \A k \in told : k \in Clients /\ clState[k] # "unused",
         TellClose(told),
         UNCHANGED <<clState, clPort, served>>
  PROVE  ClientsOwn' /\ Idle'
<1>1. ASSUME NEW k \in Clients
      PROVE  clQueue'[k] \in Seq(Own(clPort[k]) \cup {Close})
  <2>1. clQueue[k] \in Seq(Own(clPort[k]) \cup {Close})
    BY DEF FlowInv, ClientsOwn
  <2>2. Append(clQueue[k], Close) \in Seq(Own(clPort[k]) \cup {Close})
    BY <2>1, PushKeeps
  <2> QED
    BY <2>1, <2>2 DEF TellClose
<1>2. \A k \in Clients : clState[k] = "unused" => clQueue'[k] = clQueue[k]
  BY DEF TellClose
<1>3. ClientsOwn'
  BY <1>1 DEF FlowInv, ClientsOwn
<1>4. Idle'
  BY <1>2 DEF FlowInv, Idle
<1> QED
  BY <1>3, <1>4

LEMMA DispatcherKeepsFlows ==
  ASSUME TypeInv, FlowInv, Dispatcher
  PROVE  FlowInv'
<1> USE DEF serverVars, mapVars, clientVars, Key
<1>1. CASE SkipUnknown
  BY <1>1 DEF SkipUnknown, FlowInv, ClientsOwn, Idle, MapOwn, AnswersOwn
<1>2. ASSUME NEW k \in Clients, SpawnClient(k)
      PROVE  FlowInv'
  <2> DEFINE m == Head(up)
  <2>1. m \in ClientData /\ m.port \in Ports
    BY <1>2, TakeHead DEF SpawnClient
  <2>2. m \in Own(m.port) \cup {Close}
    BY <2>1 DEF Own
  <2>3. <<m>> \in Seq(Own(m.port) \cup {Close}) /\ <<>> \in Seq(Own(m.port))
    BY <2>2, OneInQueue, EmptyQueue
  <2>4. /\ clQueue'[k] = <<m>> /\ clPort'[k] = m.port /\ served'[k] = <<>>
        /\ clState'[k] = "open"
        /\ \A l \in Clients \ {k} :
             clQueue'[l] = clQueue[l] /\ clPort'[l] = clPort[l] /\ served'[l] = served[l]
             /\ clState'[l] = clState[l]
    BY <1>2 DEF SpawnClient, TypeInv, TypeOK, FlowInv, Idle
  <2>5. ClientsOwn' /\ Idle'
    BY <2>3, <2>4 DEF FlowInv, ClientsOwn, Idle
  <2>6. MapOwn'
    <3> SUFFICES ASSUME NEW p \in Ports, inboundClients'[p] # NoClient
                 PROVE  /\ clPort'[inboundClients'[p]] = p
                        /\ clState'[inboundClients'[p]] # "unused"
      BY DEF MapOwn
    <3>1. CASE p = m.port
      <4>1. inboundClients'[p] = k
        BY <1>2, <2>1, <3>1 DEF SpawnClient, TypeInv, TypeOK
      <4> QED
        BY <2>4, <3>1, <4>1
    <3>2. CASE p # m.port
      <4>1. inboundClients'[p] = inboundClients[p] /\ inboundClients[p] \in Clients
        BY <1>2, <2>1, <3>2 DEF SpawnClient, TypeInv, TypeOK
      <4>2. clPort[inboundClients[p]] = p /\ clState[inboundClients[p]] # "unused"
        BY <4>1 DEF FlowInv, MapOwn
      <4>3. inboundClients[p] # k
        BY <1>2, <4>2 DEF SpawnClient
      <4> QED
        BY <2>4, <4>1, <4>2, <4>3
    <3> QED
      BY <3>1, <3>2
  <2> QED
    BY <1>2, <2>5, <2>6 DEF SpawnClient, FlowInv, AnswersOwn
<1>3. CASE Dispatch
  <2> DEFINE k == inboundClients[Head(up).port]
  <2>1. Head(up) \in ClientData /\ Head(up).port \in Ports /\ k \in Clients
    BY <1>3, TakeHead DEF Dispatch, TypeInv, TypeOK
  <2>2. clPort[k] = Head(up).port /\ clState[k] # "unused"
    BY <1>3, <2>1 DEF Dispatch, FlowInv, MapOwn
  <2>3. Head(up) \in Own(clPort[k]) \cup {Close}
    BY <2>1, <2>2 DEF Own
  <2>4. CASE UNCHANGED clQueue
    BY <1>3, <2>4 DEF Dispatch, FlowInv, ClientsOwn, Idle, MapOwn, AnswersOwn
  <2>5. CASE clQueue' = [clQueue EXCEPT ![k] = Append(@, Head(up))]
    <3>1. ClientsOwn' /\ Idle'
      BY <1>3, <2>1, <2>2, <2>3, <2>5, PushOwn DEF Dispatch
    <3> QED
      BY <1>3, <3>1 DEF Dispatch, FlowInv, MapOwn, AnswersOwn
  <2> QED
    BY <1>3, <2>4, <2>5 DEF Dispatch
<1>4. ASSUME NEW expired \in SUBSET Ports, Cleanup(expired)
      PROVE  FlowInv'
  <2> DEFINE told == {inboundClients[p] : p \in expired}
  <2>1. \A k \in told : k \in Clients /\ clState[k] # "unused"
    BY <1>4 DEF Cleanup, Silent, FlowInv, MapOwn, TypeInv, TypeOK
  <2>2. ClientsOwn' /\ Idle'
    BY <1>4, <2>1, TellCloseOwn DEF Cleanup
  <2>3. MapOwn'
    BY <1>4 DEF Cleanup, FlowInv, MapOwn, TypeInv, TypeOK
  <2> QED
    BY <1>4, <2>2, <2>3 DEF Cleanup, FlowInv, AnswersOwn
<1>5. ASSUME NEW expired \in SUBSET Ports, CleanupFails(expired)
      PROVE  FlowInv'
  <2> DEFINE told == {k \in {inboundClients[p] : p \in expired} : clState[k] # "dead"}
  <2>1. \A k \in told : k \in Clients /\ clState[k] # "unused"
    BY <1>5 DEF CleanupFails, Silent, FlowInv, MapOwn, TypeInv, TypeOK
  <2>2. ClientsOwn' /\ Idle'
    BY <1>5, <2>1, TellCloseOwn DEF CleanupFails
  <2> QED
    BY <1>5, <2>2 DEF CleanupFails, FlowInv, MapOwn, AnswersOwn
<1> QED
  BY <1>1, <1>2, <1>3, <1>4, <1>5 DEF Dispatcher

LEMMA InboundClientKeepsFlows ==
  ASSUME TypeInv, FlowInv, NEW k \in Clients, InboundClient(k)
  PROVE  FlowInv'
<1> USE DEF serverVars, mapVars, clientVars
<1>1. /\ clQueue[k] \in Seq(Own(clPort[k]) \cup {Close})
      /\ served[k] \in Seq(Own(clPort[k]))
  BY DEF FlowInv, ClientsOwn
\* No step puts anything into its channel, and only a spawned client has steps.
<1>2. ASSUME \/ clQueue' = clQueue
             \/ clQueue' = [clQueue EXCEPT ![k] = <<>>]
             \/ clQueue[k] # <<>> /\ clQueue' = [clQueue EXCEPT ![k] = Tail(@)]
      PROVE  /\ clQueue'[k] \in Seq(Own(clPort[k]) \cup {Close})
             /\ \A l \in Clients \ {k} : clQueue'[l] = clQueue[l]
  <2>1. CASE clQueue' = clQueue
    BY <1>1, <2>1
  <2>2. CASE clQueue' = [clQueue EXCEPT ![k] = <<>>]
    BY <2>2, EmptyQueue DEF TypeInv, TypeOK
  <2>3. CASE clQueue[k] # <<>> /\ clQueue' = [clQueue EXCEPT ![k] = Tail(@)]
    <3>1. Tail(clQueue[k]) \in Seq(Own(clPort[k]) \cup {Close})
      BY <1>1, <2>3, PopKeeps
    <3> QED
      BY <2>3, <3>1 DEF TypeInv, TypeOK
  <2> QED
    BY <1>2, <2>1, <2>2, <2>3
<1>3. ASSUME \/ Writing(k) /\ EndOfWriter(k)
             \/ Reading(k) /\ EndOfReader(k)
             \/ Writing(k) /\ clQueue' = [clQueue EXCEPT ![k] = Tail(@)] /\ clState' = clState
             \/ Reading(k) /\ UNCHANGED <<clState, clQueue>>,
             clPort' = clPort,
             \/ served' = served
             \/ \E m \in Own(clPort[k]) : served' = [served EXCEPT ![k] = Append(@, m)],
             inboundClients' = inboundClients
      PROVE  ClientsOwn' /\ Idle' /\ MapOwn'
  <2>1. /\ clState[k] # "unused" /\ clState'[k] # "unused"
        /\ \A l \in Clients \ {k} : clState'[l] = clState[l]
    BY <1>3 DEF Writing, Reading, EndOfWriter, EndOfReader, TypeInv, TypeOK
  <2>2. /\ clQueue'[k] \in Seq(Own(clPort[k]) \cup {Close})
        /\ \A l \in Clients \ {k} : clQueue'[l] = clQueue[l]
    <3>1. \/ clQueue' = clQueue
          \/ clQueue' = [clQueue EXCEPT ![k] = <<>>]
          \/ clQueue[k] # <<>> /\ clQueue' = [clQueue EXCEPT ![k] = Tail(@)]
      BY <1>3 DEF Writing, EndOfWriter, EndOfReader, TypeInv, TypeOK
    <3> QED
      BY <1>2, <3>1
  <2>3. /\ served'[k] \in Seq(Own(clPort[k]))
        /\ \A l \in Clients \ {k} : served'[l] = served[l]
    <3>1. CASE served' = served
      BY <1>1, <3>1
    <3>2. ASSUME NEW m \in Own(clPort[k]), served' = [served EXCEPT ![k] = Append(@, m)]
          PROVE  /\ served'[k] \in Seq(Own(clPort[k]))
                 /\ \A l \in Clients \ {k} : served'[l] = served[l]
      <4>1. Append(served[k], m) \in Seq(Own(clPort[k]))
        BY <1>1, PushKeeps
      <4> QED
        BY <3>2, <4>1 DEF TypeInv, TypeOK
    <3> QED
      BY <1>3, <3>1, <3>2
  <2>4. ClientsOwn' /\ Idle'
    BY <1>3, <2>1, <2>2, <2>3 DEF FlowInv, ClientsOwn, Idle
  <2>5. MapOwn'
    BY <1>3, <2>1 DEF FlowInv, MapOwn, TypeInv, TypeOK
  <2> QED
    BY <2>4, <2>5
<1>4. CASE Write(k)
  <2>1. Head(clQueue[k]) \in Own(clPort[k])
    BY <1>1, <1>4, PopKeeps DEF Write, Writing
  <2>2. ClientsOwn' /\ Idle' /\ MapOwn'
    BY <1>3, <1>4, <2>1 DEF Write
  <2> QED
    BY <1>4, <2>2 DEF Write, FlowInv, AnswersOwn
<1>5. CASE WriterEnds(k)
  BY <1>3, <1>5 DEF WriterEnds, FlowInv, AnswersOwn
<1>6. CASE ReaderEnds(k)
  BY <1>3, <1>6 DEF ReaderEnds, FlowInv, AnswersOwn
<1>7. ASSUME NEW m \in ClientData, Answer(k, m)
      PROVE  FlowInv'
  <2> DEFINE answer == [port |-> clPort[k], answers |-> m]
  <2>1. m \in Own(clPort[k])
    BY <1>1, <1>7, InRange DEF Answer
  <2>2. clPort[k] \in Ports
    BY <1>7 DEF Answer, Reading, TypeInv, HasPort
  <2>3. answer \in Matched
    BY <2>1, <2>2 DEF Matched, Own, ServerData
  <2>4. down' \in Seq(Matched)
    BY <1>7, <2>3, PushKeeps DEF Answer, ReplyPort, FlowInv, AnswersOwn
  <2>5. ClientsOwn' /\ Idle' /\ MapOwn'
    BY <1>3, <1>7 DEF Answer
  <2> QED
    BY <1>7, <2>4, <2>5 DEF Answer, FlowInv, AnswersOwn
<1> QED
  BY <1>4, <1>5, <1>6, <1>7 DEF InboundClient

LEMMA MishapKeepsFlows ==
  ASSUME TypeInv, FlowInv, Mishap
  PROVE  FlowInv'
<1> USE DEF serverVars, mapVars, clientVars
<1>1. down' \in Seq(Matched)
  <2>1. down \in Seq(Matched) /\ Len(down) <= PathCap
    BY DEF TypeInv, TypeOK, FlowInv, AnswersOwn
  <2>2. Disturbs(down, down') \/ down' = down
    BY DEF Mishap
  <2> QED
    BY <2>1, <2>2, DisturbsKeeps
<1> QED
  BY <1>1 DEF Mishap, FlowInv, ClientsOwn, Idle, MapOwn, AnswersOwn

LEMMA NextFlowInv == TypeInv /\ FlowInv /\ [Next]_vars => FlowInv'
<1> SUFFICES ASSUME TypeInv, FlowInv, [Next]_vars PROVE FlowInv'
  OBVIOUS
<1>1. CASE Server
  BY <1>1, ServerKeepsFlows
<1>2. CASE Dispatcher
  BY <1>2, DispatcherKeepsFlows
<1>3. ASSUME NEW k \in Clients, InboundClient(k)
      PROVE  FlowInv'
  BY <1>3, InboundClientKeepsFlows
<1>4. CASE Mishap
  BY <1>4, MishapKeepsFlows
<1>5. CASE UNCHANGED vars
  BY <1>5 DEF vars, serverVars, mapVars, clientVars, FlowInv, ClientsOwn, Idle, MapOwn, AnswersOwn
<1> QED
  BY <1>1, <1>2, <1>3, <1>4, <1>5 DEF Next

\* No mishap of the network, no early end of a task and no cleanup makes a socket
\* to the local server carry the datagrams of two ports, or brings an answer to
\* another application than the one it answers.
THEOREM FlowsApartHolds == Spec => []FlowsApart
<1>1. Spec => [](TypeInv /\ FlowInv)
  BY InitTypeInv, NextTypeInv, InitFlowInv, NextFlowInv, PTL DEF Spec
<1>2. TypeInv /\ FlowInv => FlowsApart
  BY FlowInvImplies
<1> QED
  BY <1>1, <1>2, PTL

=============================================================================
