# A TLA+ model of hamesh

hamesh forwards TCP and UDP ports between two programs ("peers") over one UDP
socket each, punched through their NATs. This directory models the program in
`core/`, with the rendezvous service in `stun/` that introduces the peers to each
other. TLC checks the models on small instances; TLAPS proves the main safety
theorems of every module for every instance.

## 1. Inventory

| Part | Code | State it keeps | Operations |
|---|---|---|---|
| Rendezvous service | `stun/*.go` | a DynamoDB table of records, key (subscription id, second) | subscribe, check, join; each removes records of a minute ago first |
| Rendezvous client | `core/src/main.rs` `get_subscription`, `get_peers`; `stun_client.rs` | `peers`, `error`, shared by two tasks | subscribe, poll once a second, join an entered id |
| Tunnel set-up | `tunnel.rs` `perform_handshake`, `exchange_port_settings` | `syn`, `done`, index of the acknowledged setting, matches, a count of empty reads | two loops per phase and peer, each on a one-second interval |
| tunnel_handler | `tunnel.rs` 609-777 | none but its two loops and a fragment buffer | send what is in `to_tunnel`; read, acknowledge, forward by type |
| Dispatcher and cleanup | `tunnel.rs` 133-283 | map of InboundClients with the time of the last `client_data` | look up, create, hand over; hourly removal |
| OutboundServer | `outbound_server.rs` | TCP: per connection a sequence counter and what is awaited; UDP: a map of ports | accept, read, send until acknowledged; write answers |
| InboundClient | `inbound_client.rs` | a connection to the local server, expected and own sequence numbers, `stopped` | connect, write in order, read, send until acknowledged |
| Fragmentation | `control_datagram.rs` 143-209, `fragment_handler.rs` | map of fragments | cut above 1400 bytes, collect |
| Requests | `main.rs` `http3get`, `run_client` | QUIC endpoint | one request |
| Programs | `cli/`, `desktop/` | user interface | arguments; subscribe, get peers, connect |

How they interact. A program subscribes, shows its id, polls; the other program
joins with that id; both then know each other's address, and `Tunnel::start` runs
handshake, exchange and the tunnel in turn on the same socket. In the tunnel every
arrow below is a tokio channel of 1024 unless it is the network:

    application -> OutboundServer -> to_tunnel -> tunnel_handler -> network
      -> tunnel_handler -> client_data -> dispatcher -> InboundClient -> server

and back as `server_data`. An `ACK` is sent by tunnel_handler itself as soon as it
has read a datagram, and broadcast at the other end to a waiter per unacknowledged
chunk. TCP chunks are sent every 50 ms until acknowledged, one at a time; UDP
datagrams are sent once.

What is hard here: stop-and-wait over a network that loses, repeats and reorders,
with copies that may sit in any of five queues; an acknowledgement given long
before the chunk is written; one receiving loop that takes acknowledgements and also
waits for room behind requests; broadcast receivers that lag; a map of fragments that
is emptied when it is full; a map whose entries
outlive connections and whose cleanup can fail half-way; two peers that go through
their phases at different times while datagrams of one phase arrive in the next;
handlers of the service that query, decide and store without a condition; records
that expire between two requests. `PROJECT.json` lists each hazard at its line.

What makes each part correct:

- upload, download: the server gets a prefix of what one application wrote,
  nothing acknowledged is lost before a working server, all of it arrives in the end;
  the two directions do not wait for each other in a circle;
- fragments: only whole datagrams come out, and emptying the map delays them only;
- set-up: a peer that reports success is right about the other one; ports opened
  are ports served; matching settings are matched; both peers get to the tunnel;
- UDP: flows stay apart; only the network loses; no flow stops another;
- cleanup: it removes what has stopped, and goes on;
- rendezvous: a program never takes itself for another; the two of a pair both
  learn of it; a third stays out; ids are unique.

## 2. Modules

| Module | Models | Size of state |
|---|---|---|
| `ByteStream` | abstract: per connection, chunks sent and chunks delivered | 2 variables |
| `TcpUpload` | the upload path of TCP, both peers and the network between | 19 |
| `TcpUploadProofs`, `TcpUploadAckProofs` | its theorems | |
| `TcpDownload` | the download path of TCP, and the requests that share the tunnel with it | 15 |
| `TcpDownloadProofs` | its theorems | |
| `Fragments` | cutting and collecting of large datagrams | 5 |
| `FragmentsProofs` | its theorems | |
| `TunnelSetup` | `Tunnel::start` up to the tunnel, both peers | 15 |
| `TunnelSetupProofs` | its theorems | |
| `UdpForward` | UDP forwarding in both directions | 15 |
| `UdpForwardProofs` | its theorems | |
| `Rendezvous` | the service and `get_peers` in each program | 12 |
| `RendezvousProofs` | its theorems | |
| `QueueLemmas` | lemmas about channels and about counting that the proofs share | |
| `MC...` | the instances TLC checks | |

**ByteStream** is what a forwarded TCP connection promises: `Deliver` never
overtakes `Send`, and with `FairSpec` catches up with it.

**TcpUpload.** One action per step between two awaits. Peer A: `Accept`,
`ReadChunk` (reads, subscribes and spawns the waiter), the ticks of the resend loop
(`AckObserved` / `Resend` / `AwaitRoom`: a tick may find the channel full, and then
its copy goes out later, acknowledged or not), `WaiterRecv`, `TunnelSend`, `AckRecv`
(broadcast: each listening waiter gets it, one that is full is overrun). Peer B:
`TunnelRecv` (acknowledge, then hold) and `PushClientData`; the dispatcher
`SkipUnknown`, `SpawnClient`, `FindClient`, then `HandOver` (holds the map's lock
while it waits, which is why `Cleanup` needs `dispHold = <<>>`); the InboundClient
`Connect`, `WriteChunk`, `DropOutOfSequence`, `RecvClose`. Errors are the actions
named `...Fails`, `ServerCloses`, `Cleanup`, enabled by the constant `Faults`. `SendFails`
needs no fault of its own: once both loops of peer A's tunnel_handler have ended
(`TunnelSendFails`, `AckLoopFails`), the receiver of `to_tunnel` is gone (`Closed`), and a
reader with a chunk not yet acknowledged fails at its next copy, from the tick or while
it waits for room.
Abstractions: a chunk is (connection, number); its id is the pair (port, number)
the id's text spells; one OutboundServer; a datagram in fragments is one datagram;
the time of the last activity is not kept: an entry may expire whenever no datagram
of its port is on its way (two hours outlast everything in a queue that moves; what is in
front of a loop that has ended counts no more, `Quiet`); a
cleanup pass over several entries is one step, because it holds the map's lock and
only its sends await, so it is enabled when they would not wait.
The network is a set with `MaxInFlight` places; receiving may leave the datagram
there (duplication), and order is free.

**TcpDownload.** The same from the server's end: `ServerWrites` is the local server,
`ReadChunk`, `AckObserved`, `Resend`, `WaiterRecv` the reader of an InboundClient,
`TunnelRecv` and `PushServerData` tunnel_handler of the applications' peer, `Broadcast`
the OutboundServer, which never waits but overruns, and `WriterRecv` its writers, each
of which reads everything and writes what it expects. The difference to the upload is
what it shares: `AckRecv` is an iteration of the loop that also takes requests, so both
need `Listens("B")`, and a request on its way (`RequestArrives`, `PushClientData`,
`Dispatch`, `HandOver`, `WriteRequest`) can keep that loop from the acknowledgements.
`SendFails` and `Closed` are as in the upload, on peer B.
Each request is answered by one chunk (`owes`), written when the socket has room
(`ahead`); `Patient` says whether a server reads while it still has to write.
Abstractions: requests only count, since `TcpUpload` tells how they get here;
`server_data`, its dispatcher and the channel of the OutboundServer are one queue, for
nothing is decided between them; a writer that is overrun ends when it is overrun, not
at its next look; a connection begins when its InboundClient has connected; every
port has its OutboundServer.

**Fragments.** `Guarded`, `Parts`, `Cut` are `ControlDatagram::fragments`: double each
quote by a NUL, cut at byte counts, drop the NULs (`WithoutNuls`). `GetCompleteDatagram` is one call of
the handler, with any fragment of any datagram that was sent, any number of times. The
map is the set of fragments in it, since its key is part of each fragment. The digest
is free of collisions, and all copies of a datagram have the same text. `arrived` and
`whole` are history: the code does not read them.

**TunnelSetup.** `wire[p]` is the socket buffer of p, in order, with mishaps of
the network as actions that change it. `dueSend`/`dueRecv` are pending ticks of the
one-second intervals; the first tick of a tokio interval is immediate, hence TRUE at
the start, which is why two SYNs and two input_ports leave at once. `Tick` happens
when nothing else can (a second is long compared with what the tasks do) unless
`Late`. The exchange begins even when the handshake has failed, the tunnel even when
the exchange has; both as in the code.

**UdpForward.** Since nothing is sent again, all between two tasks (channels, loops,
network) is one queue in each direction, disturbed by `Mishap`. `holding` is the
datagram `handle_udp` sends while it keeps its map locked. `Cleanup` is a pass over any
number of expired entries, `CleanupFails` one that meets a client that has ended: those told
before it close and stay in the map, and no pass follows.

**Rendezvous.** Between a handler's query and its store, and between its answer and
the program's use of it, other programs run. `Cleaned` is the cleanup each handler
starts with, `Stored` replaces an item of the same key. One clock in seconds serves
ids, records, expiry and polls; `Prompt` says that requests take less than a second.
`Take` is the end of get_peers: it empties `peers`, or else `error`, and the joining task,
which shares both, may have replaced `peers` just before or may look at them after.
With `HttpFails` a request fails (`PollFails`, `JoinFails`), or the service does: its answer
is then an `Ok` that the poll cannot parse (`PollPanics`: get_peers panics, the joining task
does not) and the join does not look at (`JoinServiceFails`: it goes on without a record).
An id is (address, second), free of checksum collisions.

## 3. What TLC checks

`CHECK_DEADLOCK FALSE` everywhere: a system with `MaxChunks`, `MaxTime`,
`MaxDatagrams` or a finished set-up does stop when that is used up.

Passing runs:

| Run | Shows | Bounds, and why they are enough |
|---|---|---|
| `upload_faults` | `StreamPrefix`, `TypeOK` under every fault, lag and cleanup included | one connection, 2 chunks (copies of an older chunk beside the current one), 2 clients: a removed entry and a second client; channels of 1 (a full channel at each hop), one datagram in flight each way (a receive that leaves it is a duplicate; reordering comes from the copies in the channels) |
| `upload_live` | `AckedNotLost`; each step is one of `ByteStream`; `ByteStream!FairSpec` | the same without faults; the first two are proved for every instance and with faults (section 5) |
| `setup_late` | `HandshakeAgreement`, `MatchesAreReal`, `TypeOK` | the README's example of a server and a client, with a second outbound setting that nobody serves; late datagrams and tasks, every failing send, buffers of 2 |
| `setup_live` | `BothReachTunnel`, `HandshakeAgreement` | the example itself; one datagram lost, repeated or overtaken, no failing send, buffers of 3, an `IdleLimit` of 2 for 10 (0, below and at the limit) |
| `udp_faults` | `FlowsApart`, `TypeOK` | two ports, two datagrams each, two answers, one mishap and each fault |
| `udp_ordered` | `EverySentIsServed`, `EveryAnswerArrives` | repeats only; queues of 2 and 1, so that each lock is held for room |
| `rendezvous` | `SourceIsSelf`, `NobodyWaitsAlone`, `TypeOK` | two programs, each may enter the other's id; requests and the service may fail; a record lasts 3 seconds and the clock runs to 3, so that records made at 0 expire, ids of seconds 0 and 1 come under `NobodyWaitsAlone`, and without its margin it is violated |
| `download_faults` | `StreamPrefix`, `TypeOK`; each step is one of `ByteStream` | two chunks of one connection and none of the other, which reads the same broadcast; every fault, capacities of 1 |
| `download_live` | `AckedNotLost`, which is proved with more faults too; `ByteStream!FairSpec` | two requests and their answers, capacities of 1: a request takes the receiving loop while the first answer is acknowledged |
| `fragments` | `SizesAsTested`, `OnlyWhole`, `OneOfTwoCopies`, `TypeOK` | fragments of 5 bytes, 4 of them data; all texts of up to 4 characters, and longer ones with quotes near the ends, cut; two datagrams of three fragments, or of three and two, at a time in a map of 3, so that it overflows before both are whole |

`NobodyWaitsAlone` has a margin of one second that is needed: within it the
subscriber's record can expire between the joiner's query and the next poll. It is
also for this that it says nothing when the clock of the run is at its end. Requests
take less than a second in this run (`Prompt`), which liveness needs; `SourceIsSelf` and
`TypeOK` hold with `Prompt = FALSE` under `Spec` too.

No run asks that the receiving loop always come back to the acknowledgements when every
server reads: to hold it up behind a server takes four requests, one in each place from the
client's channel to `rxHold`, and a liveness run of that size is out of reach. `FairSpec`
of `ByteStream` says what comes of it for two, `download_circle` shows the loop held for good.

`SizesAsTested` says what `datagram_tests.rs` tests, for texts with quotes near the ends
only. A quote that a cut divides begins the next fragment at two bytes for the one
counted, so elsewhere a fragment can have 1401 bytes, which is proved to be the most it
can have (`FragmentSizes`); the JSON of a real datagram has
its quotes in the keys before its long value and at its end. `OneOfTwoCopies` assumes
that a datagram has no more fragments than the map; the longest has about 71 of 512.

Each property of a passing run has a mutant in `PROJECT.json`: an operator that
stands beside the definition it could be mistaken for, and breaks the property.

### Fairness

`TcpUpload!FairSpec`: weak fairness of each tokio task that can run (the runtime
polls every woken task; channels are first come, first served); of the local
server's accepting and reading (what one that does not read does to the tunnel is
`download_circle`); strong fairness of receiving each datagram and each
acknowledgement (a network that loses some, not all of what is sent for ever); and
no endless duplication of what is not sent again. Nothing makes an application
connect or write, and no fault is enabled.

`TcpDownload!FairSpec`: the same for its tasks, and for servers and applications. An
acknowledgement is received again and again only while the receiving loop comes back to
it, so strong fairness of `AckRecv` does not assume that it does. Nothing
makes a request arrive.

`TunnelSetup!FairSpec`: weak fairness of both peers' start and loops and of time;
the mishaps are finitely many, so the network needs none.

`UdpForward!FairSpec`: weak fairness of the tasks; none for applications, servers
or mishaps. `Rendezvous!FairSpec`: weak fairness of requests once made, of the
polls and of time; nobody has to start a program or enter an id.

## 4. Where the code and its text disagree

Two disagreements have a run that keeps showing them:

- `upload_port_reuse`: a second connection from a port is handed to the first one's
  client: its first chunks vanish, the rest reach the first one's server.
- `download_circle`: a server that writes its answer before it reads on, and channels
  that are full, stop the tunnel for good: its receiving loop waits for room behind a
  request, the server for the InboundClient to read, the InboundClient for an
  acknowledgement, and the acknowledgement for the receiving loop. With channels of 1024
  this takes that many requests ahead of the server, of this or of other connections, for
  the dispatcher holds the map's lock all the while.

The others are stated in the modules as properties that do not hold; each was
found by TLC with the configuration named, changed as said.

| Property | Configuration | What happens |
|---|---|---|
| `TcpUpload!AckedNotLost` | `upload_live` with `Spec`, `Conns = {c1, c2}`, `Ports = {p1, p2}`, `PortOf <- OwnPorts`, `Clients = {k1, k2}`, `MaxChunks = 1`, `Faults = {"lag"}` | A waiter that lags behind the broadcast ends with an error, which counts as its acknowledgement (`outbound_server.rs` 192, 210): the chunk is lost and the stream stands still. |
| `TcpDownload!AckedNotLost` | `download_faults`, `Faults = {"ackLag"}` | As in the upload: a waiter overrun by acknowledgements ends, and its reader takes that for the acknowledgement (`inbound_client.rs` 133, 150). |
| `TcpDownload!AckedNotLost` | `download_faults`, `Faults = {"lag"}` | The OutboundServer does not wait for a slow application: its writer is overrun and ends (`outbound_server.rs` 233) with chunks that tunnel_handler has acknowledged, while the server is still connected. |
| `TunnelSetup!MatchesComplete` | `setup_live` with `Spec`, `Inbound <- BothInbound`, `Outbound <- BothOutbound`, `MaxWire = 4`, `Mishaps = {}`, `MaxMishaps = 0` | Two SYNs leave at once (`tunnel.rs` 314: the first tick of an interval is immediate); the second, read in the exchange, ends it (`tunnel.rs` 563), and a setting both peers gave is logged as "UNMATCHED OUTBOUND" and not opened. |
| `TcpUpload!CleanupRemovesStopped` | `upload_live` with `Spec`, `MaxChunks = 1`, `Faults = {"cleanup"}` | "Running stopped clients cleanup" (`tunnel.rs` 149) closes a running client. |
| `TcpUpload!CleanupGoesOn` | the same, `Faults = {"cleanup", "connect"}` | The cleanup ends for good at the first stopped client it tells to close (`tunnel.rs` 182). |
| `TunnelSetup!UnmatchedIsUnmatched` | `setup_live` with `Spec`, `MaxMishaps = 0` | The second of two input_ports sent at once is read in the tunnel and logged as "UNMATCHED REMOTE INBOUND" (`tunnel.rs` 735), though matched. |
| `UdpForward!OnlyTheNetworkLoses` | one port, `MaxDatagrams = 3`, `ClientCap = 2`, `Faults = {"lose"}` | "sequence doesn't matter for udp" (`inbound_client.rs` 204), but without the first datagram the dispatcher skips all others (`tunnel.rs` 235). |
| `UdpForward!OnlyTheNetworkLoses` | the same, `MaxMishaps = 0`, `Faults = {"cleanup"}` | After a cleanup the counter at the other end runs on, so the dispatcher skips all that follows. |
| `UdpForward!DisconnectIsLocal` | `udp_ordered` with `Spec`, `Faults = {"empty"}` | An empty datagram, logged as one application "disconnected" (`outbound_server.rs` 307), ends the reading of all. |
| `Rendezvous!RefusedStaysOut` | three nodes, two addresses, `Enters <- OneEnters`, `TTL = 3`, `MaxTime = 4` | A third program told "This subscription already has a pair. Could not join." (`join_handler.go` 60) goes on with the pair's addresses (`main.rs` 99). |
| `Rendezvous!OnePair` | the same, `Prompt = FALSE` | Two joins at a time: three records, and a subscriber that never sees a pair. |
| `Rendezvous!IdsAreUnique` | two nodes, one address, `TTL = 3`, `MaxTime = 4` | Two programs behind one address, in one second, between query and store: one id, one record. |
| `Rendezvous!ConflictIsSurvived` | the same | The answer "Conflict. Try again." (`subscription_handler.go` 51) makes the program panic (`stun_client.rs` 17). |
| `Rendezvous!ConnectedJoinsNoMore` | `rendezvous.cfg` with `Spec`, `MaxTime = 2`, `HttpFails = FALSE` | "already connected!" (`main.rs` 80) is said only until get_peers has taken the peers (`main.rs` 184): an id entered after that is joined, and another program's pair made, by a program that is connected. |

`OnePair` and `IdsAreUnique` are not without value for that: section 5 proves that what
breaks them is two handlers between query and store at a time, and nothing else.

## 5. What is proved

### Upload

In `TcpUploadProofs` and `TcpUploadAckProofs`, for any connections, ports, clients,
numbers of chunks, capacities and faults, from the assumptions in `TcpUpload` on its
constants alone:

- `TypeCorrect`: `Spec => []TypeOK`, the bounds of all queues included. The
  invariant is `TypeInv`: `TypeOK` and that a reader that has read a chunk has
  not yet used its last number.
- `StreamPrefixHolds`: `Spec => []StreamPrefix`, assuming `OnePortEach`: no two
  connections are made from one port. Without it the property is false
  (`upload_port_reuse`). `StreamPrefix` is not inductive: `PrefixInv` adds that
  what is in a client's channel was sent from the client's port (`QueuesOwn`), that
  the map leads a port to a client spawned for it (`MapOwn`), that a client has
  written nothing before it is spawned and then has the port of a connection
  (`Spawned`), and that what it has written is of its port, numbered from 0 up to the
  number it expects next (`WrittenOwn`). The sequence check in the
  writer then does the rest, which is why every fault may be enabled.
- `StreamImplemented`: `Spec => ImplementsStream`, assuming `OnePortEach` and no
  cleanup. `StreamInv` adds `NothingEarly` (no datagram anywhere carries a number
  its reader has not reached, so a delivery never overtakes a send) and
  `MapComplete` (every client spawned is the one the map has for its port,
  so `Delivered` counts all). A cleanup breaks the second: an entry removed makes
  `Delivered` fall back to 0. Each action of `TcpUpload` is then shown to be a `Send`,
  a `Deliver` or a stutter.
- `AckedNotLostHolds`: `Spec => []AckedNotLost`, assuming `OnePortEach`, no cleanup
  and no overrun waiter; every other fault is allowed. An acknowledged datagram has
  several places yet to pass where datagrams are thrown away, and the property says
  nothing of why it is not the one. The reason is order: a chunk enters peer B only
  after its sender has seen the one before it acknowledged, so the one before is
  already there, ahead of it, and stays ahead in every queue (`InOrder`). Hence the
  dispatcher never meets an unknown port, for a datagram before it has made the client
  (`NeverSkips`), the writer drops only what it has written (`DropsOnlyCopies`), and the
  hand-over fails only when the server has gone. `AckInv` adds that what the dispatcher
  holds has an entry (`HasTarget`), and that whatever peer A can learn to be
  acknowledged, from the network or from a waiter's queue, is in one of the queues of
  peer B or written (`AckedSafe`). Each action either moves a chunk from one of these
  places to the next or leaves it (`NextKeepsOrder`), and only `TunnelRecv` creates an
  acknowledgement (`OnlyRecvAcknowledges`).

### UDP

In `UdpForwardProofs`, for any ports, clients, numbers of datagrams, capacities, mishaps
and faults, from the assumptions in `UdpForward` on its constants alone:

- `TypeCorrect`: `Spec => []TypeOK`. The invariant is `TypeInv`: `TypeOK`, that the datagram
  `handle_udp` holds is not yet counted (`CountsAfter`), and that a client that has been
  spawned has a port (`HasPort`), so that its answers have somewhere to go.
- `FlowsApartHolds`: `Spec => []FlowsApart`. `FlowInv` says where datagrams are kept: a
  client's channel and its socket have those of its own port (`ClientsOwn`), an answer
  on its way goes to the port whose datagram it answers (`AnswersOwn`), the map leads a port
  to a client spawned for it (`MapOwn`), and a client not spawned has carried nothing (`Idle`),
  so that the port it is given is the port of all it ever carries. The network's mishaps
  do no harm because they bring nothing new into a queue (`DisturbsKeeps`).

### Download

In `TcpDownloadProofs`, for any connections, numbers of requests, capacities and faults:

- `TypeCorrect`: `Spec => []TypeOK`. `TypeOK` bounds the sequence numbers by the requests
  that can be asked, and nothing a single task looks at does: a chunk is written for
  a request, and the request has come through three queues. `DownloadInv` therefore
  adds a budget (`WithinBudget`): chunks taken, answers owed or in the socket, and
  requests anywhere on the way are together at most the requests asked. It also says that no
  channel holds a chunk its reader has not reached (`ChannelsHold(Known)`).
- `StreamPrefixHolds`: `Spec => []StreamPrefix`, under every fault and overrun. What a
  writer has written is of its port and numbered from 0 (`WrittenOwn`), since it checks
  port and number itself.
- `StreamImplemented`: `Spec => ImplementsStream`, under every fault: the download has
  no map whose entries a cleanup removes, and a port here is one connection. A chunk is sent
  when its reader takes it from the server. A reader that fails at a closed `to_tunnel` leaves
  with its sequence number not yet advanced; the chunk stays sent (`"failed"` in the mapping
  of `sent`), for a copy of it may be written yet.
- `AckedNotLostHolds`: `Spec => []AckedNotLost`, assuming that neither a writer nor a waiter
  is overrun; without either half it is false (section 4). `AckInv` says, of every
  connection whose writer is there: its chunks stand in turn in the queues up to it (`Ordered`),
  and each one whose acknowledgement has been sent, is in a waiter's queue, or has been
  used, is in one of these queues or written (`Arrived`).

### Set-up

In `TunnelSetupProofs`, for all port settings of both peers, sizes of the buffers, mishaps
and failing sends; `SetupInv` is the invariant of all three theorems:

- `TypeCorrect`: `Spec => []TypeOK`.
- `HandshakeAgreementHolds`: `Spec => []HandshakeAgreement`. A peer believes an `ACK` of SYN,
  and all that reads a SYN sends one: the handshake, which looks at it, and exchange and
  tunnel, which do not. The last two are harmless because the peer
  is past its handshake then, and so has seen a SYN or failed (`Settled`,
  `KnowsBoth`). Hence each `ACK` of SYN in a buffer is on its way from a peer that has
  seen the SYN or failed (`Incoming`), and so is each one already believed (`Heard`).
- `MatchesAreRealHolds`: `Spec => []MatchesAreReal`: an input_port in a buffer carries one of its
  sender's inbound settings (`Incoming`), repeated and reordered or not.

### Rendezvous

In `RendezvousProofs`, for any programs, addresses, time to live and failing
requests, `Prompt` or not:

- `TypeCorrect`: `Spec => []TypeOK`.
- `SourceIsSelfHolds`: `Spec /\ []IdsAreUnique => []SourceIsSelf`, assuming that no two
  programs enter one id (`EnteredOnce`). The handlers store
  without a condition, so what is true of the table has to be true of every answer on its
  way as well: `RendezvousInv` says that a record belongs to the program that was
  given the id or to the one that enters it (`TableInv`), that an answer is such a
  set (`ReplyInv`), and that a program stores under an id only while it has no other record
  there (`JoinInv`). So the older of two records is the subscriber's (`PairOf`), and who is
  who in a pair is decided alike at both ends.
- `OnePairWithoutOverlap`: `Spec /\ []OneHandlerAtATime => [](OnePair /\ IdsAreUnique)`.
  `OneHandlerAtATime` says that no two handlers are between query and store of the same id,
  as a conditional store would have it; it says nothing of handlers that come one
  after the other, nor of who enters what. Programs that share an address, any number of
  programs that enter one id, failing requests and late expiry are all allowed. `ApartInv`
  says that what a handler has found still holds when it stores: nothing for a
  subscription, one record at most for a join (`QueriesHold`), although records of the id may
  have been replaced or have expired meanwhile; and that an id given in this second has a record of
  this second, which no cleanup removes and no store does without (`GivenNow`), so that the next
  subscription of the same address sees the conflict, and in a later second has another
  id. Each store adds one record to at most one (`NoThird`).
- `SourceIsSelfWithoutOverlap`: with `EnteredOnce` as well, `[]SourceIsSelf`, at one address or many.

Without the hypothesis both are false: section 4's counterexamples of `OnePair` and
`IdsAreUnique` are two joins and two subscriptions that overlap. TLC agrees with the theorem for
three programs at one address (`Spec`, `AddressOf <- OneAddress`, `Enters <- BothEnter`,
`TTL = 1`, `MaxTime = 2`, `Prompt = FALSE`, `HttpFails = FALSE`, the hypothesis as a CONSTRAINT).
That ids are unique is of ids as pairs: two pairs whose checksums collide are not in the model.

For `SourceIsSelf` neither hypothesis can be dropped. TLC finds it violated by `rendezvous.cfg` with
`Spec`, `Nodes = {a, b, c}`, `Enters <- OneEnters`, `TTL = 2`, `MaxTime = 2`,
`HttpFails = FALSE` (two programs enter one id; three addresses do not help), and with
`Spec`, `AddressOf <- OneAddress`, `TTL = 2`, `MaxTime = 3` (two programs at one address).

### Fragments

In `FragmentsProofs`, for all texts, fragment sizes and limits of the map:

- `CutShape`: the fragments of a text are numbered from 0, each carries the number of all, and
  their data in order is the text. A cut may fall between a quote and the NUL that guards it;
  the NULs are dropped part by part, and the lemmas show that this commutes with joining
  the parts (`ImageFlatten`, `WithoutNulsOfGuarded`, `PartsJoin`).
- `TypeCorrect`: `Spec => []TypeOK`: no more than `Limit` fragments in the map, and what comes
  out is a text that was sent, so that putting together the found fragments in the order
  of their index undoes the cut (`JoinedIs`, `FoundIs`).
- `OnlyWholeHolds`: `Spec => []OnlyWhole`. Since a map that is emptied and a datagram that
  comes out both only remove fragments, every fragment in the map has arrived since its
  datagram last came out (`FreshInv`). Neither theorem has a hypothesis.
- `OneOfTwoCopiesHolds`: `Spec => []OneOfTwoCopies`, assuming `AllFit`: no datagram has more
  fragments than the map may hold (about 71 of 512 in the code). `CopyInv` says why the
  second copy cannot fail like the first: while a copy may still come to nothing, either
  all of it so far is in the map (`Here`), or the map has room for all of it (`Room`), as it
  has after it was emptied; once a copy has come to nothing, both are so.

- `FragmentSizes`: a fragment has at most one byte more than allowed, and all but the last at
  most one less. In the guarded text a NUL stands before each quote and nowhere else
  (`Paired`), so the bytes of a part are its characters, one more if it begins with a quote
  and one less if it ends with a NUL (`PartBytes`, by induction on the part).
- `SizesAsTestedHolds`: `Spec => []SizesAsTested`, without a hypothesis. A part that begins with
  a quote is not the first; its quote is in the text at least half as far from either
  end as in the guarded text (`NearAs`), so that near the end it is in the last part, which
  then has room for it (`CutBytes`).

### How the proofs are built

Each theorem is the usual three facts about an invariant, one lemma per action or per group of
actions that change a part alike. The prover cannot instantiate an induction theorem that
takes an operator, so induction on data is stated with a set of numbers instead
(`CountingUp` in `QueueLemmas`, from the least number outside the set): `FlattenIs` and what
follows from it, and `PartBytes`, use that.

### Only model-checked

- All liveness (`BothReachTunnel`, `EverySentIsServed`, `EveryAnswerArrives`, `NobodyWaitsAlone`,
  and `FairSpec` of `ByteStream` in both directions): the prover has neither fairness
  rules nor ENABLED.
- The properties of section 4 are false; there is nothing to prove.

## 6. Not modelled

- Wrap of the u32 sequence numbers: 2^32 chunks are beyond any bounded run.
- Requests over QUIC, address parsing, command line and user interface: I/O.
- The regular expression that reads port settings: a setting is a constant.
- Versions and malformed datagrams: both ends run the same code.
- A subscription whose request or whose service fails: the program has no id then and stops,
  and a record that was stored for it expires unused.
- Collisions of a subscription id's checksum (crc32) and of a fragment's digest (sha256).
- A query of DynamoDB that returns an older state: the table is strongly consistent.
- The socket that the rendezvous' QUIC endpoint and the tunnel share: a datagram read by the
  wrong one is a lost datagram of `TunnelSetup`.
- Fragments inside the other modules: a datagram in fragments is one datagram there,
  which arrives when all its fragments do; `Fragments` shows that it does so whole.
- The load of both directions together with the contents of both: `TcpDownload` has the
  requests as counts.

## 7. Plan

1. `PortSettings`: what the command line's text becomes, and which texts are refused.
2. Proofs: of `UdpForward`, that each datagram served was sent, and none twice on one socket
   while the network does not repeat it.
