------------------------------ MODULE UdpForward ------------------------------
(***************************************************************************)
(* UDP forwarding, both directions. Peer A: handle_udp of one              *)
(* OutboundServer, which reads the datagrams of local applications and     *)
(* sends them the answers. Peer B: the dispatcher, the map of              *)
(* InboundClients and the InboundClient tasks, each with its own socket to *)
(* the local server.                                                       *)
(*                                                                         *)
(*   application -> up -> dispatcher -> InboundClient -> local server      *)
(*   application <- handle_udp <- down <- InboundClient <- local server    *)
(*                                                                         *)
(* Nothing is sent again: handle_udp starts no acknowledgement waiter. So  *)
(* up and down each stand for all that lies between two tasks (the channels*)
(* of the tunnel, its two loops and the network), one queue that keeps its *)
(* order unless a run allows "reorder".                                    *)
(***************************************************************************)
EXTENDS Naturals, Sequences, FiniteSets, Functions

CONSTANTS
  Ports,        \* ports local applications send from
  Clients,      \* InboundClient tasks that can be spawned (bounds how many)
  NoClient,     \* "the map has no entry"
  NoPort,       \* the port of a client that has not been spawned
  Close,        \* the "close" datagram of the cleanup pass
  MaxDatagrams, \* datagrams one application sends (bounds the sequence numbers)
  MaxAnswers,   \* answers of the local server (bounds the runs)
  PathCap,      \* datagrams up and down hold
  ClientCap,    \* capacity of the channel of one InboundClient (1024 in the code)
  MaxMishaps,   \* mishaps of the network (bounds the runs)
  Faults        \* which faults a run allows, see FaultKinds

FaultKinds ==
  {"lose", "duplicate", "reorder",  \* the network
   "empty",    \* an application sends a datagram of no bytes
   "refuse",   \* the local server is not there: a send or a read fails
   "cleanup"}  \* the two-hour cleanup of idle InboundClients runs

ASSUME UdpAssumption ==
  /\ NoClient \notin Clients
  /\ NoPort \notin Ports
  /\ MaxDatagrams \in Nat \ {0}
  /\ MaxAnswers \in Nat
  /\ PathCap \in Nat \ {0}
  /\ ClientCap \in Nat \ {0}
  /\ MaxMishaps \in Nat
  /\ Faults \subseteq FaultKinds

Sequences == 0..(MaxDatagrams - 1)

\* client_data: the port the application sends from and the sequence number;
\* together they also stand for the bytes, which the code only copies.
ClientData == [port : Ports, sequence : Sequences]

\* server_data: the port it goes to, and the application's datagram it answers.
ServerData == [port : Ports, answers : ClientData]

ASSUME CloseAssumption == Close \notin ClientData

-----------------------------------------------------------------------------
VARIABLES
  receiving,      \* the loop of handle_udp that reads the applications runs
  holding,        \* the datagram it has read and not sent on, holding the map's lock
  clients,        \* ports in the map of handle_udp
  sequence,       \* the sequence counter it keeps for a port
  up,             \* client_data on its way
  inboundClients, \* the map of the dispatcher, from ports to InboundClients
  cleanerAlive,   \* the cleanup loop is still running
  clState,        \* life cycle of each InboundClient
  clPort,         \* its remote_client_port
  clQueue,        \* its channel
  served,         \* what its socket has carried to the local server
  answers,        \* answers given by the local server so far
  down,           \* server_data on its way
  answered,       \* what an application has received
  mishaps         \* mishaps of the network so far

serverVars == <<receiving, holding, clients, sequence>>
mapVars == <<inboundClients, cleanerAlive>>
clientVars == <<clState, clPort, clQueue, served>>
vars == <<serverVars, up, mapVars, clientVars, answers, down, answered, mishaps>>

\* As for TCP: readerDone, the reading half has ended and set "stopped";
\* writerDone, the writing half has; dead, both have.
ClientStates == {"unused", "open", "readerDone", "writerDone", "dead"}

TypeOK ==
  /\ receiving \in BOOLEAN
  /\ holding \in Seq(ClientData) /\ Len(holding) <= 1
  /\ clients \subseteq Ports
  /\ sequence \in [Ports -> 0..MaxDatagrams]
  /\ up \in Seq(ClientData) /\ Len(up) <= PathCap
  /\ inboundClients \in [Ports -> Clients \cup {NoClient}]
  /\ cleanerAlive \in BOOLEAN
  /\ clState \in [Clients -> ClientStates]
  /\ clPort \in [Clients -> Ports \cup {NoPort}]
  /\ clQueue \in [Clients -> Seq(ClientData \cup {Close})]
  /\ \A k \in Clients : Len(clQueue[k]) <= ClientCap
  /\ served \in [Clients -> Seq(ClientData)]
  /\ answers \in 0..MaxAnswers
  /\ down \in Seq(ServerData) /\ Len(down) <= PathCap
  /\ answered \in [Ports -> SUBSET ClientData]
  /\ mishaps \in 0..MaxMishaps

Init ==
  /\ receiving = TRUE
  /\ holding = <<>>
  /\ clients = {}
  /\ sequence = [p \in Ports |-> 0]
  /\ up = <<>>
  /\ inboundClients = [p \in Ports |-> NoClient]
  /\ cleanerAlive = TRUE
  /\ clState = [k \in Clients |-> "unused"]
  /\ clPort = [k \in Clients |-> NoPort]
  /\ clQueue = [k \in Clients |-> <<>>]
  /\ served = [k \in Clients |-> <<>>]
  /\ answers = 0
  /\ down = <<>>
  /\ answered = [p \in Ports |-> {}]
  /\ mishaps = 0

NoRoomCheck(queue, capacity) == TRUE  \* mutant of HasRoom
HasRoom(queue, capacity) == Len(queue) < capacity

-----------------------------------------------------------------------------
(***************************************************************************)
(* Peer A: the two loops of handle_udp.                                    *)
(***************************************************************************)

\* The counter of a port, which is new if the port is not in the map.
CountsFromOne(p) == IF p \in clients THEN sequence[p] ELSE 1  \* mutant of CounterOf
CounterOf(p) == IF p \in clients THEN sequence[p] ELSE 0

\* A datagram is read; the map stays locked until it is in the channel.
AppSends(p) ==
  /\ receiving /\ holding = <<>>
  /\ CounterOf(p) < MaxDatagrams
  /\ clients' = clients \cup {p}
  /\ sequence' = [sequence EXCEPT ![p] = CounterOf(p)]
  /\ holding' = <<[port |-> p, sequence |-> CounterOf(p)]>>
  /\ UNCHANGED <<receiving, up, mapVars, clientVars, answers, down, answered, mishaps>>

PushClientData ==
  /\ holding # <<>>
  /\ HasRoom(up, PathCap)
  /\ up' = Append(up, Head(holding))
  /\ sequence' = [sequence EXCEPT ![Head(holding).port] = @ + 1]
  /\ holding' = <<>>
  /\ UNCHANGED <<receiving, clients, mapVars, clientVars, answers, down, answered, mishaps>>

\* A datagram of no bytes is taken for the end of the application: it is
\* forgotten, and the loop that reads all of them ends.
AppSendsNothing(p) ==
  /\ "empty" \in Faults
  /\ receiving /\ holding = <<>>
  /\ clients' = clients \ {p}
  /\ receiving' = FALSE
  /\ UNCHANGED <<holding, sequence, up, mapVars, clientVars, answers, down, answered, mishaps>>

\* An answer for a port that is not in the map is dropped.
AnswerArrives ==
  /\ holding = <<>>
  /\ down # <<>>
  /\ LET m == Head(down)
     IN answered' = IF m.port \in clients
                    THEN [answered EXCEPT ![m.port] = @ \cup {m.answers}]
                    ELSE answered
  /\ down' = Tail(down)
  /\ UNCHANGED <<serverVars, up, mapVars, clientVars, answers, mishaps>>

-----------------------------------------------------------------------------
(***************************************************************************)
(* Peer B: the dispatcher. It holds the map's lock until the client's      *)
(* channel has room.                                                       *)
(***************************************************************************)

\* The key of the map.
AnyPort(p) == CHOOSE q \in Ports : TRUE  \* mutant of Key
Key(p) == p

SkipUnknown ==
  /\ up # <<>>
  /\ inboundClients[Key(Head(up).port)] = NoClient
  /\ Head(up).sequence # 0
  /\ up' = Tail(up)
  /\ UNCHANGED <<serverVars, mapVars, clientVars, answers, down, answered, mishaps>>

SpawnClient(k) ==
  /\ up # <<>>
  /\ inboundClients[Key(Head(up).port)] = NoClient
  /\ Head(up).sequence = 0
  /\ clState[k] = "unused"
  /\ inboundClients' = [inboundClients EXCEPT ![Key(Head(up).port)] = k]
  /\ clState' = [clState EXCEPT ![k] = "open"]
  /\ clPort' = [clPort EXCEPT ![k] = Head(up).port]
  /\ clQueue' = [clQueue EXCEPT ![k] = <<Head(up)>>]
  /\ up' = Tail(up)
  /\ UNCHANGED <<serverVars, cleanerAlive, served, answers, down, answered, mishaps>>

\* A client that has ended keeps its entry: what is sent to it is only logged.
Dispatch ==
  /\ up # <<>>
  /\ LET k == inboundClients[Key(Head(up).port)]
     IN /\ k # NoClient
        /\ \/ /\ clState[k] = "dead"
              /\ UNCHANGED clQueue
           \/ /\ clState[k] # "dead"
              /\ HasRoom(clQueue[k], ClientCap)
              /\ clQueue' = [clQueue EXCEPT ![k] = Append(@, Head(up))]
  /\ up' = Tail(up)
  /\ UNCHANGED <<serverVars, mapVars, clState, clPort, served, answers, down,
                 answered, mishaps>>

\* The hourly cleanup: the entries without client_data for two hours expire, their
\* clients are told to close, and then the entries are removed.
Silent(p) == inboundClients[p] # NoClient /\ \A m \in Range(up) : m.port # p

TellClose(told) ==
  /\ \A k \in told : HasRoom(clQueue[k], ClientCap)
  /\ clQueue' = [k \in Clients |-> IF k \in told THEN Append(clQueue[k], Close) ELSE clQueue[k]]

Cleanup(expired) ==
  /\ "cleanup" \in Faults
  /\ cleanerAlive
  /\ expired # {} /\ \A p \in expired : Silent(p) /\ clState[inboundClients[p]] # "dead"
  /\ TellClose({inboundClients[p] : p \in expired})
  /\ inboundClients' = [p \in Ports |-> IF p \in expired THEN NoClient ELSE inboundClients[p]]
  /\ UNCHANGED <<serverVars, up, cleanerAlive, clState, clPort, served, answers, down,
                 answered, mishaps>>

\* A client that has ended receives nothing: the error ends the loop for good.
\* Those told before it close, and keep their entries as it does.
CleanupFails(expired) ==
  /\ "cleanup" \in Faults
  /\ cleanerAlive
  /\ \A p \in expired : Silent(p)
  /\ \E p \in expired : clState[inboundClients[p]] = "dead"
  /\ TellClose({k \in {inboundClients[p] : p \in expired} : clState[k] # "dead"})
  /\ cleanerAlive' = FALSE
  /\ UNCHANGED <<serverVars, up, inboundClients, clState, clPort, served, answers, down,
                 answered, mishaps>>

-----------------------------------------------------------------------------
(***************************************************************************)
(* Peer B: one InboundClient.                                              *)
(***************************************************************************)
Writing(k) == clState[k] \in {"open", "readerDone"} /\ clQueue[k] # <<>>
Reading(k) == clState[k] \in {"open", "writerDone"}

\* A half that is the second to end takes the client with it; the channel goes.
EndOfWriter(k) ==
  /\ clState' = [clState EXCEPT ![k] = IF @ = "readerDone" THEN "dead" ELSE "writerDone"]
  /\ clQueue' = [clQueue EXCEPT ![k] = IF clState[k] = "readerDone" THEN <<>> ELSE Tail(@)]

EndOfReader(k) ==
  /\ clState' = [clState EXCEPT ![k] = IF @ = "writerDone" THEN "dead" ELSE "readerDone"]
  /\ clQueue' = [clQueue EXCEPT ![k] = IF clState[k] = "writerDone" THEN <<>> ELSE @]

\* The sequence number is not looked at. With the reading half gone this is the
\* last datagram: "stopped" is tested before the next.
Write(k) ==
  /\ Writing(k)
  /\ Head(clQueue[k]) # Close
  /\ served' = [served EXCEPT ![k] = Append(@, Head(clQueue[k]))]
  /\ IF clState[k] = "readerDone"
     THEN EndOfWriter(k)
     ELSE clQueue' = [clQueue EXCEPT ![k] = Tail(@)] /\ UNCHANGED clState
  /\ UNCHANGED <<serverVars, up, mapVars, clPort, answers, down, answered, mishaps>>

WriterEnds(k) ==
  /\ Writing(k)
  /\ Head(clQueue[k]) = Close \/ "refuse" \in Faults
  /\ EndOfWriter(k)
  /\ UNCHANGED <<serverVars, up, mapVars, clPort, served, answers, down, answered,
                 mishaps>>

\* The local server answers one of the datagrams that came from this socket.
\* With the writing half gone this is the last answer.
ReplyToAll(k) == CHOOSE q \in Ports : TRUE  \* mutant of ReplyPort
ReplyPort(k) == clPort[k]

Answer(k, m) ==
  /\ Reading(k)
  /\ answers < MaxAnswers
  /\ HasRoom(down, PathCap)
  /\ m \in Range(served[k])
  /\ answers' = answers + 1
  /\ down' = Append(down, [port |-> ReplyPort(k), answers |-> m])
  /\ IF clState[k] = "writerDone" THEN EndOfReader(k) ELSE UNCHANGED <<clState, clQueue>>
  /\ UNCHANGED <<serverVars, up, mapVars, clPort, served, answered, mishaps>>

ReaderEnds(k) ==
  /\ "refuse" \in Faults
  /\ Reading(k)
  /\ EndOfReader(k)
  /\ UNCHANGED <<serverVars, up, mapVars, clPort, served, answers, down, answered,
                 mishaps>>

-----------------------------------------------------------------------------
(***************************************************************************)
(* The network.                                                            *)
(***************************************************************************)
Without(q, i) == SubSeq(q, 1, i - 1) \o SubSeq(q, i + 1, Len(q))

Disturbs(q, disturbed) ==
  \E i \in 1..Len(q) :
    \/ "lose" \in Faults /\ disturbed = Without(q, i)
    \/ "duplicate" \in Faults /\ HasRoom(q, PathCap) /\ disturbed = Append(q, q[i])
    \/ "reorder" \in Faults /\ disturbed = <<q[i]>> \o Without(q, i)

Mishap ==
  /\ mishaps < MaxMishaps
  /\ mishaps' = mishaps + 1
  /\ \/ Disturbs(up, up') /\ UNCHANGED down
     \/ Disturbs(down, down') /\ UNCHANGED up
  /\ UNCHANGED <<serverVars, mapVars, clientVars, answers, answered>>

-----------------------------------------------------------------------------
Server == PushClientData \/ AnswerArrives \/ \E p \in Ports : AppSends(p) \/ AppSendsNothing(p)
Dispatcher ==
  \/ SkipUnknown \/ Dispatch \/ \E k \in Clients : SpawnClient(k)
  \/ \E expired \in SUBSET Ports : Cleanup(expired) \/ CleanupFails(expired)
InboundClient(k) ==
  Write(k) \/ WriterEnds(k) \/ ReaderEnds(k) \/ \E m \in ClientData : Answer(k, m)

Next == Server \/ Dispatcher \/ (\E k \in Clients : InboundClient(k)) \/ Mishap

Spec == Init /\ [][Next]_vars

(***************************************************************************)
(* The tokio tasks that can run are run. Nothing makes an application send *)
(* or the local server answer, and no mishap has to happen.                *)
(***************************************************************************)
Dispatches == SkipUnknown \/ Dispatch \/ \E k \in Clients : SpawnClient(k)

FairSpec ==
  /\ Spec
  /\ WF_vars(PushClientData) /\ WF_vars(AnswerArrives)
  /\ WF_vars(Dispatches)
  /\ \A k \in Clients : WF_vars(Write(k))

-----------------------------------------------------------------------------
(***************************************************************************)
(* Properties.                                                             *)
(***************************************************************************)

\* Applications are kept apart, whatever goes wrong: a socket to the local
\* server carries the datagrams of one port only, and an application gets the
\* answers to its own datagrams only.
FlowsApart ==
  /\ \A k \in Clients : \A m \in Range(served[k]) : m.port = clPort[k]
  /\ \A p \in Ports : \A m \in answered[p] : m.port = p

Taken(m) == sequence[m.port] > m.sequence
IsServed(m) == \E k \in Clients : m \in Range(served[k])
OnItsWay(m) == m \in Range(up) \cup UNION {Range(clQueue[k]) : k \in Clients}

\* Only the network loses: of the datagrams taken from the applications, no more
\* are missing than mishaps have happened ("sequence doesn't matter for udp").
\* (Does not hold: README, section 4.)
OnlyTheNetworkLoses ==
  Cardinality({m \in ClientData : Taken(m) /\ ~IsServed(m) /\ ~OnItsWay(m)}) <= mishaps

\* What an application sends reaches the local server in the end, when nothing
\* is lost or overtaken on the way and no task has ended.
EverySentIsServed == \A m \in ClientData : Taken(m) ~> IsServed(m)

\* And an answer reaches the application it is for, even while handle_udp holds
\* its map locked for a datagram the tunnel has no room for.
EveryAnswerArrives ==
  \A m \in ServerData : (m \in Range(down) ~> m.answers \in answered[m.port])

\* While an application is connected its datagrams are read: another one's
\* disconnecting does not matter to it. (Does not hold: README, section 4.)
DisconnectIsLocal == clients # {} => receiving

=============================================================================
