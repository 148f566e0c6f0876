----------------------------- MODULE TunnelSetup -----------------------------
(***************************************************************************)
(* Tunnel.start up to a working tunnel, on both peers: perform_handshake,  *)
(* exchange_port_settings, then tunnel_handler as far as it answers the    *)
(* datagrams of a peer that is still in an earlier phase.                  *)
(*                                                                         *)
(* In every phase a peer acknowledges whatever is not an ACK, including    *)
(* the datagrams that phase has no use for.                                *)
(***************************************************************************)
EXTENDS Naturals, Sequences, FiniteSets, Functions

CONSTANTS
  Peers,       \* the two ends
  Inbound,     \* Inbound[p]: sequence of port settings given with --inbound
  Outbound,    \* Outbound[p]: set of port settings given with --outbound
  IdleLimit,   \* empty reads before exchange_port_settings gives up (10 in the code)
  MaxWire,     \* datagrams the socket buffer of a peer holds
  Mishaps,     \* what the network does wrong: some of MishapKinds
  MaxMishaps,  \* how many times (bounds the runs)
  Late,        \* TRUE: a datagram may take longer than the one-second interval
  SendFails    \* TRUE: a send on the socket may return an error

MishapKinds == {"lose", "duplicate", "reorder"}

Settings ==
  (UNION {Range(Inbound[p]) : p \in Peers}) \cup (UNION {Outbound[p] : p \in Peers})

ASSUME SetupAssumption ==
  /\ IsFiniteSet(Peers) /\ Cardinality(Peers) = 2
  /\ \A p \in Peers : Inbound[p] \in Seq(Settings)
  /\ IdleLimit \in Nat
  /\ MaxWire \in Nat \ {0}
  /\ Mishaps \subseteq MishapKinds
  /\ MaxMishaps \in Nat
  /\ Late \in BOOLEAN
  /\ SendFails \in BOOLEAN

Other(p) == CHOOSE q \in Peers : q # p

\* A datagram is its type and the id its acknowledgement repeats: the "id" of an
\* input_port, the type itself for SYN and heart_beat.
SYN == [type |-> "SYN", id |-> <<"SYN">>]
HeartBeat == [type |-> "heart_beat", id |-> <<"heart_beat">>]
InputPort(s) == [type |-> "input_port", id |-> <<"input_port", s>>]
Ack(m) == [type |-> "ACK", id |-> m.id]
Requests == {SYN, HeartBeat} \cup {InputPort(s) : s \in Settings}
Datagrams == Requests \cup {Ack(m) : m \in Requests}

-----------------------------------------------------------------------------
VARIABLES
  phase,      \* where Tunnel.start is
  synAcked,   \* syn_atomic: our SYN has been acknowledged
  synSeen,    \* done_atomic: the SYN of the other peer has arrived
  hsSender,   \* perform_handshake: the sending loop
  hsReceiver, \*   the receiving loop
  index,      \* current_index_atomic: inbound settings acknowledged so far
  matches,    \* outbound_matches
  idle,       \* count_timeout
  xSender,    \* exchange_port_settings: the sending loop
  xReceiver,  \*   the receiving loop; "sleep" while it waits for its interval
  dueSend,    \* the interval of the sending loop (or of the heart beat) has a tick
  dueRecv,    \* the interval of the receiving loop has a tick
  wire,       \* wire[p]: datagrams sent to p and not read by p
  mishaps,    \* what the network did wrong so far
  unmatched   \* unmatched[p]: remote settings p has logged as UNMATCHED REMOTE INBOUND

handshakeVars == <<synAcked, synSeen, hsSender, hsReceiver>>
exchangeVars == <<index, matches, idle, xSender, xReceiver, unmatched>>
timerVars == <<dueSend, dueRecv>>
vars == <<phase, handshakeVars, exchangeVars, timerVars, wire, mishaps>>

Loops == {"run", "done", "failed"}

TypeOK ==
  /\ phase \in [Peers -> {"down", "handshake", "exchange", "tunnel"}]
  /\ synAcked \in [Peers -> BOOLEAN] /\ synSeen \in [Peers -> BOOLEAN]
  /\ hsSender \in [Peers -> Loops] /\ hsReceiver \in [Peers -> Loops]
  /\ \A p \in Peers : index[p] \in 0..Len(Inbound[p])
  /\ \A p \in Peers : matches[p] \subseteq Outbound[p]
  /\ idle \in [Peers -> 0..IdleLimit]
  /\ xSender \in [Peers -> Loops]
  /\ xReceiver \in [Peers -> Loops \cup {"sleep"}]
  /\ dueSend \in [Peers -> BOOLEAN] /\ dueRecv \in [Peers -> BOOLEAN]
  /\ \A p \in Peers : wire[p] \in Seq(Datagrams) /\ Len(wire[p]) <= MaxWire
  /\ mishaps \in 0..MaxMishaps
  /\ unmatched \in [Peers -> SUBSET Settings]

Init ==
  /\ phase = [p \in Peers |-> "down"]
  /\ synAcked = [p \in Peers |-> FALSE] /\ synSeen = [p \in Peers |-> FALSE]
  /\ hsSender = [p \in Peers |-> "run"] /\ hsReceiver = [p \in Peers |-> "run"]
  /\ index = [p \in Peers |-> 0]
  /\ matches = [p \in Peers |-> {}]
  /\ idle = [p \in Peers |-> 0]
  /\ xSender = [p \in Peers |-> "run"] /\ xReceiver = [p \in Peers |-> "run"]
  /\ dueSend = [p \in Peers |-> TRUE] /\ dueRecv = [p \in Peers |-> TRUE]
  /\ wire = [p \in Peers |-> <<>>]
  /\ mishaps = 0
  /\ unmatched = [p \in Peers |-> {}]

-----------------------------------------------------------------------------
(***************************************************************************)
(* Sockets. A full socket buffer drops what arrives.                       *)
(***************************************************************************)
Put(w, q, m) == IF Len(w[q]) < MaxWire THEN [w EXCEPT ![q] = Append(@, m)] ELSE w

NotInTunnel(w, p, m) ==  \* mutant of Acknowledge
  IF m.type = "ACK" \/ phase[p] = "tunnel" THEN w ELSE Put(w, Other(p), Ack(m))
Acknowledge(w, p, m) == IF m.type = "ACK" THEN w ELSE Put(w, Other(p), Ack(m))

\* p reads the first datagram of its buffer and acknowledges it.
Reads(p, m) == wire[p] # <<>> /\ m = Head(wire[p])
WireAfter(p, m) == Acknowledge([wire EXCEPT ![p] = Tail(@)], p, m)

\* The acknowledgement cannot be sent: the loop that reads ends.
AckFails(p, m) == SendFails /\ m.type # "ACK"
WireWithoutAck(p) == [wire EXCEPT ![p] = Tail(@)]

-----------------------------------------------------------------------------
(***************************************************************************)
(* perform_handshake. The first tick of the interval is immediate, so two  *)
(* SYNs leave at once; the sending loop ends only at a later tick.         *)
(***************************************************************************)
Start(p) ==
  /\ phase[p] = "down"
  /\ phase' = [phase EXCEPT ![p] = "handshake"]
  /\ wire' = Put(wire, Other(p), SYN)
  /\ dueSend' = [dueSend EXCEPT ![p] = TRUE]
  /\ UNCHANGED <<handshakeVars, exchangeVars, dueRecv, mishaps>>

StartFails(p) ==
  /\ SendFails
  /\ phase[p] = "down"
  /\ phase' = [phase EXCEPT ![p] = "handshake"]
  /\ hsSender' = [hsSender EXCEPT ![p] = "failed"]
  /\ UNCHANGED <<synAcked, synSeen, hsReceiver, exchangeVars, timerVars, wire, mishaps>>

EitherIsEnough(p) == synAcked[p] \/ synSeen[p]  \* mutant of Shaken
Shaken(p) == synAcked[p] /\ synSeen[p]

HandshakeSend(p) ==
  /\ phase[p] = "handshake"
  /\ hsSender[p] = "run"
  /\ dueSend[p]
  /\ dueSend' = [dueSend EXCEPT ![p] = FALSE]
  /\ IF Shaken(p)
     THEN hsSender' = [hsSender EXCEPT ![p] = "done"] /\ UNCHANGED wire
     ELSE \/ /\ wire' = IF synAcked[p] THEN wire ELSE Put(wire, Other(p), SYN)
             /\ UNCHANGED hsSender
          \/ /\ SendFails /\ ~synAcked[p]
             /\ hsSender' = [hsSender EXCEPT ![p] = "failed"]
             /\ UNCHANGED wire
  /\ UNCHANGED <<phase, synAcked, synSeen, hsReceiver, exchangeVars, dueRecv, mishaps>>

\* Anything but SYN and its acknowledgement is acknowledged and skipped.
HandshakeRecv(p, m) ==
  /\ phase[p] = "handshake"
  /\ hsReceiver[p] = "run"
  /\ Reads(p, m)
  /\ \/ /\ wire' = WireAfter(p, m)
        /\ synAcked' = [synAcked EXCEPT ![p] = @ \/ m = Ack(SYN)]
        /\ synSeen' = [synSeen EXCEPT ![p] = @ \/ m = SYN]
        /\ hsReceiver' = [hsReceiver EXCEPT ![p] = IF Shaken(p)' THEN "done" ELSE @]
     \/ /\ AckFails(p, m)
        /\ wire' = WireWithoutAck(p)
        /\ hsReceiver' = [hsReceiver EXCEPT ![p] = "failed"]
        /\ UNCHANGED <<synAcked, synSeen>>
  /\ UNCHANGED <<phase, hsSender, exchangeVars, timerVars, mishaps>>

-----------------------------------------------------------------------------
(***************************************************************************)
(* exchange_port_settings. It is entered even when the handshake failed.   *)
(***************************************************************************)
HandshakeOver(p) ==
  phase[p] = "handshake" /\ hsSender[p] # "run" /\ hsReceiver[p] # "run"

\* The first round of the sending loop runs before the other one starts.
EnterExchange(p) ==
  /\ HandshakeOver(p)
  /\ phase' = [phase EXCEPT ![p] = "exchange"]
  /\ \/ /\ Inbound[p] = <<>>
        /\ xSender' = [xSender EXCEPT ![p] = "done"]
        /\ UNCHANGED wire
     \/ /\ Inbound[p] # <<>>
        /\ wire' = Put(wire, Other(p), InputPort(Inbound[p][1]))
        /\ UNCHANGED xSender
     \/ /\ Inbound[p] # <<>> /\ SendFails
        /\ xSender' = [xSender EXCEPT ![p] = "failed"]
        /\ UNCHANGED wire
  /\ dueSend' = [dueSend EXCEPT ![p] = TRUE]
  /\ dueRecv' = [dueRecv EXCEPT ![p] = TRUE]
  /\ UNCHANGED <<handshakeVars, index, matches, idle, xReceiver, unmatched, mishaps>>

AllAcked(p) == index[p] >= Len(Inbound[p])
ReceiverStopped(p) == xReceiver[p] = "done"

ExchangeSend(p) ==
  /\ phase[p] = "exchange"
  /\ xSender[p] = "run"
  /\ dueSend[p]
  /\ dueSend' = [dueSend EXCEPT ![p] = FALSE]
  /\ IF AllAcked(p) \/ ReceiverStopped(p)
     THEN xSender' = [xSender EXCEPT ![p] = "done"] /\ UNCHANGED wire
     ELSE \/ /\ wire' = Put(wire, Other(p), InputPort(Inbound[p][index[p] + 1]))
             /\ UNCHANGED xSender
          \/ /\ SendFails
             /\ xSender' = [xSender EXCEPT ![p] = "failed"]
             /\ UNCHANGED wire
  /\ UNCHANGED <<phase, handshakeVars, index, matches, idle, xReceiver, unmatched,
                 dueRecv, mishaps>>

\* The condition at the top of the receiving loop.
Satisfied(p) ==
  AllAcked(p) /\ (Cardinality(matches[p]) >= Cardinality(Outbound[p]) \/ idle[p] >= IdleLimit)

Polls(p) == phase[p] = "exchange" /\ xReceiver[p] = "run"

ExchangeEnds(p) ==
  /\ Polls(p)
  /\ Satisfied(p)
  /\ xReceiver' = [xReceiver EXCEPT ![p] = "done"]
  /\ UNCHANGED <<phase, handshakeVars, index, matches, idle, xSender, unmatched,
                 timerVars, wire, mishaps>>

\* Nothing to read: WouldBlock counts, then the interval is awaited.
ExchangeIdle(p) ==
  /\ Polls(p)
  /\ ~Satisfied(p)
  /\ wire[p] = <<>>
  /\ idle' = [idle EXCEPT ![p] = IF @ < IdleLimit THEN @ + 1 ELSE @]
  /\ xReceiver' = [xReceiver EXCEPT ![p] = "sleep"]
  /\ UNCHANGED <<phase, handshakeVars, index, matches, xSender, unmatched, timerVars,
                 wire, mishaps>>

ExchangeWakes(p) ==
  /\ phase[p] = "exchange"
  /\ xReceiver[p] = "sleep"
  /\ dueRecv[p]
  /\ dueRecv' = [dueRecv EXCEPT ![p] = FALSE]
  /\ xReceiver' = [xReceiver EXCEPT ![p] = "run"]
  /\ UNCHANGED <<phase, handshakeVars, index, matches, idle, xSender, unmatched,
                 dueSend, wire, mishaps>>

\* An inbound setting of the other peer mirrors an outbound one of ours.
Mirror(s) == [protocol |-> s.protocol, host |-> s.remote, remote |-> s.host]
MatchesProtocolOnly(p, s) == {o \in Outbound[p] : o.protocol = s.protocol}  \* mutant of MatchesOf
RemoteAsGiven(p, s) == {s}  \* mutant of MatchesOf
MatchesOf(p, s) == Outbound[p] \cap {Mirror(s)}

\* A datagram of a type that is not expected ends the exchange.
ExchangeRecv(p, m) ==
  /\ Polls(p)
  /\ ~Satisfied(p)
  /\ Reads(p, m)
  /\ idle' = [idle EXCEPT ![p] = 0]
  /\ \/ /\ wire' = WireAfter(p, m)
        /\ index' = [index EXCEPT ![p] =
                       IF ~AllAcked(p) /\ m = Ack(InputPort(Inbound[p][@ + 1])) THEN @ + 1 ELSE @]
        /\ matches' = [matches EXCEPT ![p] =
                         IF m.type = "input_port" THEN @ \cup MatchesOf(p, m.id[2]) ELSE @]
        /\ xReceiver' = [xReceiver EXCEPT ![p] =
                           IF m.type \in {"ACK", "input_port"} THEN @ ELSE "done"]
     \/ /\ AckFails(p, m)
        /\ wire' = WireWithoutAck(p)
        /\ xReceiver' = [xReceiver EXCEPT ![p] = "failed"]
        /\ UNCHANGED <<index, matches>>
  /\ UNCHANGED <<phase, handshakeVars, xSender, unmatched, timerVars, mishaps>>

-----------------------------------------------------------------------------
(***************************************************************************)
(* The tunnel. A failed exchange leaves it with no matches.                *)
(***************************************************************************)
ExchangeOver(p) ==
  /\ phase[p] = "exchange"
  /\ xSender[p] \in {"done", "failed"}
  /\ xReceiver[p] \in {"done", "failed"}

EnterTunnel(p) ==
  /\ ExchangeOver(p)
  /\ phase' = [phase EXCEPT ![p] = "tunnel"]
  /\ matches' = [matches EXCEPT ![p] = IF "failed" \in {xSender[p], xReceiver[p]} THEN {} ELSE @]
  /\ dueSend' = [dueSend EXCEPT ![p] = TRUE]
  /\ UNCHANGED <<handshakeVars, index, idle, xSender, xReceiver, unmatched, dueRecv,
                 wire, mishaps>>

HeartBeats(p) ==
  /\ phase[p] = "tunnel"
  /\ dueSend[p]
  /\ dueSend' = [dueSend EXCEPT ![p] = FALSE]
  /\ wire' = Put(wire, Other(p), HeartBeat)
  /\ UNCHANGED <<phase, handshakeVars, exchangeVars, dueRecv, mishaps>>

\* tunnel_handler acknowledges and, of the datagrams of this module, uses none;
\* it logs the setting of an input_port as unmatched. (A failed send in the
\* tunnel is TcpUpload's TunnelSendFails and AckSendFails.)
TunnelRecv(p, m) ==
  /\ phase[p] = "tunnel"
  /\ Reads(p, m)
  /\ wire' = WireAfter(p, m)
  /\ unmatched' = [unmatched EXCEPT ![p] = IF m.type = "input_port" THEN @ \cup {m.id[2]} ELSE @]
  /\ UNCHANGED <<phase, handshakeVars, index, matches, idle, xSender, xReceiver,
                 timerVars, mishaps>>

-----------------------------------------------------------------------------
(***************************************************************************)
(* Time and the network. A tick of the one-second intervals comes when     *)
(* nothing else can happen, unless datagrams or tasks are Late.            *)
(***************************************************************************)
Busy(p) ==
  \/ phase[p] = "handshake" /\ \/ hsSender[p] = "run" /\ dueSend[p]
                               \/ hsReceiver[p] = "run" /\ wire[p] # <<>>
  \/ HandshakeOver(p) \/ ExchangeOver(p) \/ Polls(p)
  \/ phase[p] = "exchange" /\ \/ xSender[p] = "run" /\ dueSend[p]
                              \/ xReceiver[p] = "sleep" /\ dueRecv[p]
  \/ phase[p] = "tunnel" /\ (dueSend[p] \/ wire[p] # <<>>)

Tick ==
  /\ Late \/ \A p \in Peers : ~Busy(p)
  /\ \E p \in Peers : phase[p] # "tunnel"
  /\ dueSend' = [p \in Peers |-> TRUE]
  /\ dueRecv' = [p \in Peers |-> TRUE]
  /\ UNCHANGED <<phase, handshakeVars, exchangeVars, wire, mishaps>>

Without(q, i) == SubSeq(q, 1, i - 1) \o SubSeq(q, i + 1, Len(q))

Mishap(p, i) ==
  /\ mishaps < MaxMishaps
  /\ mishaps' = mishaps + 1
  /\ \/ "lose" \in Mishaps /\ wire' = [wire EXCEPT ![p] = Without(@, i)]
     \/ "duplicate" \in Mishaps /\ wire' = Put(wire, p, wire[p][i])
     \/ "reorder" \in Mishaps /\ wire' = [wire EXCEPT ![p] = <<@[i]>> \o Without(@, i)]
  /\ UNCHANGED <<phase, handshakeVars, exchangeVars, timerVars>>

-----------------------------------------------------------------------------
Recv(p) == \E m \in Range(wire[p]) : HandshakeRecv(p, m) \/ ExchangeRecv(p, m) \/ TunnelRecv(p, m)

Handshake(p) == Start(p) \/ StartFails(p) \/ HandshakeSend(p)
Exchange(p) ==
  EnterExchange(p) \/ ExchangeSend(p) \/ ExchangeEnds(p) \/ ExchangeIdle(p) \/ ExchangeWakes(p)
Tunnel(p) == EnterTunnel(p) \/ HeartBeats(p)

Next ==
  \/ \E p \in Peers : Handshake(p) \/ Exchange(p) \/ Tunnel(p) \/ Recv(p)
  \/ \E p \in Peers : \E i \in 1..Len(wire[p]) : Mishap(p, i)
  \/ Tick

Spec == Init /\ [][Next]_vars

(***************************************************************************)
(* Both peers are started, every loop that can go on goes on, and time     *)
(* passes. The network's mishaps are finite in number, so nothing more is  *)
(* asked of it.                                                            *)
(***************************************************************************)
FairSpec ==
  /\ Spec
  /\ WF_vars(Tick)
  /\ \A p \in Peers :
       /\ WF_vars(Start(p)) /\ WF_vars(HandshakeSend(p)) /\ WF_vars(EnterExchange(p))
       /\ WF_vars(ExchangeSend(p)) /\ WF_vars(ExchangeEnds(p)) /\ WF_vars(ExchangeIdle(p))
       /\ WF_vars(ExchangeWakes(p)) /\ WF_vars(EnterTunnel(p)) /\ WF_vars(HeartBeats(p))
       /\ WF_vars(Recv(p))

-----------------------------------------------------------------------------
(***************************************************************************)
(* Properties.                                                             *)
(***************************************************************************)

\* A peer whose handshake succeeded ("connection established!") knows that the
\* other one has its SYN too, whatever was lost, repeated or could not be sent,
\* unless the other one's receiving loop failed.
HandshakeAgreement ==
  \A p \in Peers :
    hsSender[p] = "done" /\ hsReceiver[p] = "done" /\ hsReceiver[Other(p)] # "failed"
      => synSeen[Other(p)]

Mirrored(p) == {o \in Outbound[p] : \E s \in Range(Inbound[Other(p)]) : Mirror(s) = o}

\* An outbound server is opened only for a setting the other peer serves.
MatchesAreReal == \A p \in Peers : matches[p] \subseteq Mirrored(p)

\* Of a peer in the tunnel, every outbound setting the other one mirrors is
\* matched: what is logged as UNMATCHED OUTBOUND has no counterpart. (Does not
\* hold: README, section 4.)
MatchesComplete ==
  \A p \in Peers : phase[p] = "tunnel" => Mirrored(p) \subseteq matches[p]

\* What a peer logs as UNMATCHED REMOTE INBOUND matches none of its settings.
\* (Does not hold: README, section 4.)
UnmatchedIsUnmatched ==
  \A p \in Peers : \A s \in unmatched[p] : MatchesOf(p, s) = {}

\* Both peers get to the tunnel in the end, each with its settings settled one
\* way or the other.
BothReachTunnel == <>(\A p \in Peers : phase[p] = "tunnel")

=============================================================================
