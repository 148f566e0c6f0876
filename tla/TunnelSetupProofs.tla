-------------------------- MODULE TunnelSetupProofs --------------------------
(***************************************************************************)
(* Type correctness of TunnelSetup, HandshakeAgreement and MatchesAreReal, *)
(* for all port settings, every size of the buffers and every fault.       *)
(***************************************************************************)
EXTENDS TunnelSetup, QueueLemmas, FiniteSetTheorems, TLAPS

\* TypeOK, and that index, matches and wire are functions on the peers.
TypeInv == TypeOK /\ index \in [Peers -> Nat] /\ matches \in [Peers -> SUBSET Settings]

-----------------------------------------------------------------------------
(***************************************************************************)
(* The peers and their datagrams.                                          *)
(***************************************************************************)
LEMMA TwoPeers ==
  \A p \in Peers : /\ Other(p) \in Peers /\ Other(p) # p /\ Other(Other(p)) = p
                   /\ \A q \in Peers : q = p \/ q = Other(p)
<1>1. ASSUME NEW p \in Peers
      PROVE  \E q : Peers \ {p} = {q}
  <2>1. IsFiniteSet(Peers \ {p}) /\ Cardinality(Peers \ {p}) = 1
    BY FS_RemoveElement, SetupAssumption
  <2> QED
    BY <2>1, FS_Singleton
<1>2. ASSUME NEW p \in Peers
      PROVE  /\ Other(p) \in Peers /\ Other(p) # p
             /\ \A q \in Peers : q = p \/ q = Other(p)
  <2>1. PICK q : Peers \ {p} = {q}
    BY <1>1
  <2>2. Other(p) = q
    BY <2>1 DEF Other
  <2> QED
    BY <2>1, <2>2
<1> QED
  BY <1>2

LEMMA AckOf ==
  ASSUME NEW m \in Datagrams, m.type # "ACK"
  PROVE  /\ m \in Requests /\ Ack(m) \in Datagrams /\ Ack(m).type = "ACK"
         /\ Ack(m) = Ack(SYN) => m = SYN
<1>1. m \in Requests
  BY DEF Datagrams, Ack
<1>2. m \in {SYN, HeartBeat} \/ \E s \in Settings : m = InputPort(s)
  BY <1>1 DEF Requests
<1>3. /\ Ack(m).type = "ACK" /\ Ack(m).id = m.id
      /\ SYN.id[1] = "SYN" /\ HeartBeat.id[1] = "heart_beat" /\ Ack(SYN).id = SYN.id
      /\ \A s \in Settings : InputPort(s).id[1] = "input_port"
  BY DEF Ack, SYN, HeartBeat, InputPort
<1>4. Ack(m) = Ack(SYN) => m = SYN
  BY <1>2, <1>3
<1> QED
  BY <1>1, <1>3, <1>4 DEF Datagrams

LEMMA SynDatagram ==
  SYN \in Datagrams /\ SYN.type = "SYN" /\ SYN # Ack(SYN)
BY DEF Datagrams, Requests, SYN, Ack

LEMMA HeartBeatDatagram ==
  HeartBeat \in Datagrams /\ HeartBeat.type = "heart_beat" /\ HeartBeat # Ack(SYN)
BY DEF Datagrams, Requests, HeartBeat, Ack

LEMMA InputPortDatagram ==
  ASSUME NEW s \in Settings
  PROVE  /\ InputPort(s) \in Datagrams /\ InputPort(s).type = "input_port"
         /\ InputPort(s).id[2] = s /\ InputPort(s) # Ack(SYN)
BY DEF Datagrams, Requests, InputPort, Ack

LEMMA SettingOf ==
  ASSUME NEW m \in Datagrams, m.type = "input_port"
  PROVE  m.id[2] \in Settings
<1>1. m \in Requests
  BY DEF Datagrams, Ack
<1>2. PICK s \in Settings : m = InputPort(s)
  BY <1>1 DEF Requests, SYN, HeartBeat
<1> QED
  BY <1>2, InputPortDatagram

-----------------------------------------------------------------------------
(***************************************************************************)
(* The buffers: w[p] holds datagrams of S[p] only.                         *)
(***************************************************************************)
Carries(w, S) ==
  /\ w \in [Peers -> Seq(Datagrams)]
  /\ \A p \in Peers : w[p] \in Seq(S[p]) /\ Len(w[p]) <= MaxWire

LEMMA PutCarries ==
  ASSUME NEW S, NEW w, NEW q \in Peers, NEW m \in Datagrams, Carries(w, S), m \in S[q]
  PROVE  Carries(Put(w, q, m), S)
<1>1. w[q] \in Seq(S[q]) /\ w[q] \in Seq(Datagrams) /\ Len(w[q]) <= MaxWire
  BY DEF Carries
<1>2. /\ Append(w[q], m) \in Seq(S[q]) /\ Append(w[q], m) \in Seq(Datagrams)
      /\ Len(Append(w[q], m)) = Len(w[q]) + 1
  BY <1>1, PushKeeps
<1>3. CASE Len(w[q]) < MaxWire
  <2>1. Len(Append(w[q], m)) <= MaxWire
    BY <1>1, <1>2, <1>3, SetupAssumption
  <2>2. Put(w, q, m) = [w EXCEPT ![q] = Append(w[q], m)]
    BY <1>3 DEF Put
  <2> QED
    BY <1>2, <2>1, <2>2 DEF Carries
<1>4. CASE ~(Len(w[q]) < MaxWire)
  BY <1>4 DEF Put
<1> QED
  BY <1>3, <1>4

LEMMA PopCarries ==
  ASSUME NEW S, NEW w, NEW p \in Peers, Carries(w, S), w[p] # <<>>
  PROVE  /\ Carries([w EXCEPT ![p] = Tail(@)], S)
         /\ Head(w[p]) \in S[p] /\ Head(w[p]) \in Datagrams
<1>1. w[p] \in Seq(S[p]) /\ w[p] \in Seq(Datagrams) /\ Len(w[p]) <= MaxWire
  BY DEF Carries
<1>2. /\ Tail(w[p]) \in Seq(S[p]) /\ Tail(w[p]) \in Seq(Datagrams)
      /\ Len(Tail(w[p])) = Len(w[p]) - 1
      /\ Head(w[p]) \in S[p] /\ Head(w[p]) \in Datagrams
  BY <1>1, PopKeeps
<1>3. Len(Tail(w[p])) <= MaxWire
  BY <1>1, <1>2, SetupAssumption
<1> QED
  BY <1>2, <1>3 DEF Carries

\* What a peer reads and what it leaves behind, its acknowledgement included.
LEMMA ReadCarries ==
  ASSUME NEW S, NEW p \in Peers, NEW m, Carries(wire, S), Reads(p, m),
         m.type # "ACK" => Ack(m) \in S[Other(p)]
  PROVE  Carries(WireAfter(p, m), S)
<1> DEFINE popped == [wire EXCEPT ![p] = Tail(@)]
<1>1. m \in Datagrams /\ Carries(popped, S)
  BY PopCarries DEF Reads
<1>2. WireAfter(p, m) = IF m.type = "ACK" THEN popped ELSE Put(popped, Other(p), Ack(m))
  BY DEF WireAfter, Acknowledge
<1> HIDE DEF popped
<1>3. CASE m.type = "ACK"
  BY <1>1, <1>2, <1>3
<1>4. CASE m.type # "ACK"
  BY <1>1, <1>2, <1>4, TwoPeers, AckOf, PutCarries
<1> QED
  BY <1>3, <1>4

\* A mishap brings nothing new.
LEMMA MishapCarries ==
  ASSUME NEW S, NEW p \in Peers, NEW i \in 1..Len(wire[p]), Carries(wire, S), Mishap(p, i)
  PROVE  Carries(wire', S)
<1> DEFINE q == wire[p]
<1>1. q \in Seq(S[p]) /\ q \in Seq(Datagrams) /\ Len(q) <= MaxWire
  BY DEF Carries
<1>2. q[i] \in S[p] /\ q[i] \in Datagrams
  BY <1>1
<1>3. /\ Without(q, i) \in Seq(S[p]) /\ Without(q, i) \in Seq(Datagrams)
      /\ Len(Without(q, i)) = Len(q) - 1
  BY <1>1, LossKeeps DEF Without
<1>4. Len(Without(q, i)) <= MaxWire
  BY <1>1, <1>3, SetupAssumption
<1>5. CASE wire' = [wire EXCEPT ![p] = Without(@, i)]
  BY <1>3, <1>4, <1>5 DEF Carries
<1>6. CASE wire' = Put(wire, p, wire[p][i])
  BY <1>2, <1>6, PutCarries
<1>7. CASE wire' = [wire EXCEPT ![p] = <<@[i]>> \o Without(@, i)]
  <2> DEFINE r == <<q[i]>> \o Without(q, i)
  <2>1. r \in Seq(S[p]) /\ r \in Seq(Datagrams) /\ Len(r) = Len(Without(q, i)) + 1
    BY <1>2, <1>3, FrontKeeps
  <2>2. Len(Without(q, i)) + 1 = Len(q)
    BY <1>3
  <2>3. wire' = [wire EXCEPT ![p] = r]
    BY <1>7
  <2> HIDE DEF r
  <2>4. Len(r) <= MaxWire
    BY <1>1, <2>1, <2>2
  <2> QED
    BY <2>1, <2>3, <2>4 DEF Carries
<1> QED
  BY <1>5, <1>6, <1>7 DEF Mishap

LEMMA MoreCarries ==
  ASSUME NEW S, NEW T, NEW w, Carries(w, S), \A p \in Peers : S[p] \subseteq T[p]
  PROVE  Carries(w, T)
<1> SUFFICES ASSUME NEW p \in Peers PROVE w[p] \in Seq(T[p])
  BY DEF Carries
<1>1. w[p] \in Seq(S[p]) /\ S[p] \subseteq T[p]
  BY DEF Carries
<1> QED
  BY <1>1, SeqMonotonic

-----------------------------------------------------------------------------
(***************************************************************************)
(* The inductive invariant. An acknowledgement of SYN proves that the SYN  *)
(* has been seen: the only peer that gives one without looking at the SYN  *)
(* has its handshake behind it, and so has seen it before or failed.       *)
(***************************************************************************)
FailedOrSeen(q) == hsReceiver[q] = "failed" \/ synSeen[q]

Settled == \A p \in Peers : phase[p] \in {"exchange", "tunnel"} => hsReceiver[p] # "run"
KnowsBoth == \A p \in Peers : hsReceiver[p] = "done" => synAcked[p] /\ synSeen[p]
Heard == \A p \in Peers : synAcked[p] => FailedOrSeen(Other(p))

HandshakeInv == Settled /\ KnowsBoth /\ Heard

\* What may be on its way to a peer: acknowledgements of a SYN that was seen, and
\* settings the other peer was given.
Incoming ==
  [p \in Peers |-> {m \in Datagrams :
     /\ m = Ack(SYN) => FailedOrSeen(Other(p))
     /\ m.type = "input_port" => m.id[2] \in Range(Inbound[Other(p)])}]

SetupInv == TypeInv /\ HandshakeInv /\ Carries(wire, Incoming) /\ MatchesAreReal

LEMMA InitSetupInv == Init => SetupInv
<1> SUFFICES ASSUME Init PROVE SetupInv
  OBVIOUS
<1>1. \A p \in Peers : 0 \in 0..Len(Inbound[p])
  BY SetupAssumption
<1>2. Carries(wire, Incoming)
  <2>1. <<>> \in Seq(Datagrams) /\ Len(<<>>) = 0 /\ \A p \in Peers : <<>> \in Seq(Incoming[p])
    BY EmptyQueue
  <2> QED
    BY <2>1, SetupAssumption DEF Init, Carries
<1>3. TypeOK
  BY <1>1, <1>2, SetupAssumption DEF Init, TypeOK, Loops, Carries
<1>4. TypeInv
  BY <1>3 DEF Init, TypeInv
<1>5. HandshakeInv /\ MatchesAreReal
  BY DEF Init, HandshakeInv, Settled, KnowsBoth, Heard, MatchesAreReal
<1> QED
  BY <1>2, <1>4, <1>5 DEF SetupInv

\* What may be on its way once may be later: nothing seen is unseen.
LEMMA IncomingGrows ==
  ASSUME \A q \in Peers : FailedOrSeen(q) => FailedOrSeen(q)'
  PROVE  \A p \in Peers : Incoming[p] \subseteq Incoming'[p]
BY TwoPeers DEF Incoming

\* What a peer may send: anything but an acknowledgement of SYN or a setting.
LEMMA PlainIncoming ==
  ASSUME NEW q \in Peers, NEW m \in Datagrams, m # Ack(SYN), m.type # "input_port"
  PROVE  m \in Incoming[q]
BY DEF Incoming

LEMMA OwnSettingIncoming ==
  ASSUME NEW p \in Peers, NEW i \in 1..Len(Inbound[p])
  PROVE  /\ InputPort(Inbound[p][i]) \in Datagrams
         /\ InputPort(Inbound[p][i]) \in Incoming[Other(p)]
<1>1. Inbound[p] \in Seq(Settings) /\ Other(p) \in Peers /\ Other(Other(p)) = p
  BY TwoPeers, SetupAssumption
<1>2. Inbound[p][i] \in Settings /\ Inbound[p][i] \in Range(Inbound[p])
  BY <1>1 DEF Range
<1> HIDE DEF Settings
<1> QED
  BY <1>1, <1>2, InputPortDatagram DEF Incoming

\* An acknowledgement a peer gives, of whatever it has read in a phase of its own.
LEMMA AckIncoming ==
  ASSUME NEW p \in Peers, NEW m \in Datagrams, m.type # "ACK", m = SYN => FailedOrSeen(p)
  PROVE  Ack(m) \in Incoming[Other(p)]
<1>1. Ack(m) \in Datagrams /\ Ack(m).type = "ACK" /\ (Ack(m) = Ack(SYN) => m = SYN)
  BY AckOf
<1>2. Other(p) \in Peers /\ Other(Other(p)) = p
  BY TwoPeers
<1> QED
  BY <1>1, <1>2 DEF Incoming

\* A peer past its handshake has seen the SYN or failed.
LEMMA SettledHasSeen ==
  ASSUME SetupInv, NEW p \in Peers, phase[p] \in {"exchange", "tunnel"}
  PROVE  FailedOrSeen(p)
BY DEF SetupInv, TypeInv, TypeOK, Loops, HandshakeInv, Settled, KnowsBoth, FailedOrSeen

-----------------------------------------------------------------------------
(***************************************************************************)
(* Every step keeps the invariant.                                         *)
(***************************************************************************)

\* A step that sends at most one datagram and leaves the handshake's facts alone.
LEMMA SendKeepsWires ==
  ASSUME SetupInv, NEW p \in Peers, NEW m \in Datagrams, m \in Incoming[Other(p)],
         wire' \in {wire, Put(wire, Other(p), m)},
         \A q \in Peers : FailedOrSeen(q) => FailedOrSeen(q)'
  PROVE  Carries(wire', Incoming')
<1>1. Carries(wire, Incoming) /\ Other(p) \in Peers
  BY TwoPeers DEF SetupInv
<1>2. Carries(wire', Incoming)
  BY <1>1, PutCarries
<1> QED
  BY <1>2, IncomingGrows, MoreCarries

LEMMA WiresAreTyped ==
  ASSUME NEW S, Carries(wire', S)
  PROVE  \A p \in Peers : wire'[p] \in Seq(Datagrams) /\ Len(wire'[p]) <= MaxWire
BY DEF Carries

LEMMA HandshakeKeepsInv ==
  ASSUME SetupInv, NEW p \in Peers, Handshake(p)
  PROVE  SetupInv'
<1> USE DEF handshakeVars, exchangeVars, timerVars
<1>1. SYN \in Datagrams /\ SYN \in Incoming[Other(p)]
  BY TwoPeers, SynDatagram, PlainIncoming
<1>2. \A q \in Peers : FailedOrSeen(q) => FailedOrSeen(q)'
  BY DEF Handshake, Start, StartFails, HandshakeSend, FailedOrSeen
<1>3. wire' \in {wire, Put(wire, Other(p), SYN)}
  BY DEF Handshake, Start, StartFails, HandshakeSend
<1>4. Carries(wire', Incoming')
  BY <1>1, <1>2, <1>3, SendKeepsWires
<1>5. TypeInv'
  <2>1. \A q \in Peers : wire'[q] \in Seq(Datagrams) /\ Len(wire'[q]) <= MaxWire
    BY <1>4, WiresAreTyped
  <2>2. phase' \in [Peers -> {"down", "handshake", "exchange", "tunnel"}]
    BY DEF Handshake, Start, StartFails, HandshakeSend, SetupInv, TypeInv, TypeOK
  <2>3. hsSender' \in [Peers -> Loops]
    <3>1. hsSender \in [Peers -> Loops] /\ {"done", "failed"} \subseteq Loops
      BY DEF SetupInv, TypeInv, TypeOK, Loops
    <3>2. \/ hsSender' = hsSender
          \/ \E s \in {"done", "failed"} : hsSender' = [hsSender EXCEPT ![p] = s]
      BY DEF Handshake, Start, StartFails, HandshakeSend
    <3> QED
      BY <3>1, <3>2
  <2>4. dueSend' \in [Peers -> BOOLEAN]
    BY DEF Handshake, Start, StartFails, HandshakeSend, SetupInv, TypeInv, TypeOK
  <2> QED
    BY <2>1, <2>2, <2>3, <2>4
    DEF Handshake, Start, StartFails, HandshakeSend, SetupInv, TypeInv, TypeOK
<1>6. HandshakeInv'
  BY DEF Handshake, Start, StartFails, HandshakeSend, SetupInv, TypeInv, TypeOK,
         HandshakeInv, Settled, KnowsBoth, Heard, FailedOrSeen
<1>7. MatchesAreReal'
  BY DEF Handshake, Start, StartFails, HandshakeSend, SetupInv, MatchesAreReal, Mirrored
<1> QED
  BY <1>4, <1>5, <1>6, <1>7 DEF SetupInv

LEMMA HandshakeRecvKeepsInv ==
  ASSUME SetupInv, NEW p \in Peers, NEW m, HandshakeRecv(p, m)
  PROVE  SetupInv'
<1> USE DEF handshakeVars, exchangeVars, timerVars
<1>1. /\ Carries(wire, Incoming) /\ wire[p] # <<>> /\ m = Head(wire[p])
      /\ m \in Incoming[p] /\ m \in Datagrams /\ Other(p) \in Peers
  BY PopCarries, TwoPeers DEF SetupInv, HandshakeRecv, Reads
<1>2. /\ synAcked' \in [Peers -> BOOLEAN] /\ synSeen' \in [Peers -> BOOLEAN]
      /\ hsReceiver' \in [Peers -> Loops]
      /\ hsReceiver[p] = "run" /\ \A q \in Peers : q # p => hsReceiver'[q] = hsReceiver[q]
      /\ \A q \in Peers : synSeen[q] => synSeen'[q]
      /\ \A q \in Peers : synAcked'[q] => synAcked[q] \/ (q = p /\ m = Ack(SYN))
  <2>1. /\ synAcked \in [Peers -> BOOLEAN] /\ synSeen \in [Peers -> BOOLEAN]
        /\ hsReceiver \in [Peers -> Loops] /\ {"done", "failed"} \subseteq Loops
    BY DEF SetupInv, TypeInv, TypeOK, Loops
  <2>2. /\ \/ synAcked' = synAcked
           \/ synAcked' = [synAcked EXCEPT ![p] = synAcked[p] \/ m = Ack(SYN)]
        /\ \/ synSeen' = synSeen
           \/ synSeen' = [synSeen EXCEPT ![p] = synSeen[p] \/ m = SYN]
        /\ hsReceiver[p] = "run"
    BY DEF HandshakeRecv
  <2>3. \E s \in {hsReceiver[p], "done", "failed"} : hsReceiver' = [hsReceiver EXCEPT ![p] = s]
    BY DEF HandshakeRecv
  <2>4. synAcked' \in [Peers -> BOOLEAN] /\ synSeen' \in [Peers -> BOOLEAN]
    BY <2>1, <2>2
  <2>5. /\ hsReceiver' \in [Peers -> Loops]
        /\ \A q \in Peers : q # p => hsReceiver'[q] = hsReceiver[q]
    BY <2>1, <2>3
  <2>6. /\ \A q \in Peers : synSeen[q] => synSeen'[q]
        /\ \A q \in Peers : synAcked'[q] => synAcked[q] \/ (q = p /\ m = Ack(SYN))
    BY <2>1, <2>2
  <2> QED
    BY <2>2, <2>4, <2>5, <2>6
<1>3. \A q \in Peers : FailedOrSeen(q) => FailedOrSeen(q)'
  BY <1>2 DEF FailedOrSeen
<1>4. Carries(wire', Incoming')
  <2>1. Carries(wire, Incoming')
    BY <1>1, <1>3, IncomingGrows, MoreCarries
  <2>2. CASE wire' = WireAfter(p, m) /\ synSeen' = [synSeen EXCEPT ![p] = @ \/ m = SYN]
    <3>1. m = SYN => FailedOrSeen(p)'
      BY <2>2 DEF FailedOrSeen, SetupInv, TypeInv, TypeOK
    <3>2. m.type # "ACK" => Ack(m) \in Incoming'[Other(p)]
      <4> SUFFICES ASSUME m.type # "ACK" PROVE Ack(m) \in Incoming'[Other(p)]
        OBVIOUS
      <4>1. Ack(m) \in Datagrams /\ Ack(m).type = "ACK" /\ (Ack(m) = Ack(SYN) => m = SYN)
        BY <1>1, AckOf
      <4>2. Other(Other(p)) = p
        BY TwoPeers
      <4> QED
        BY <1>1, <3>1, <4>1, <4>2 DEF Incoming
    <3> QED
      BY <1>1, <2>1, <2>2, <3>2, ReadCarries DEF Reads
  <2>3. CASE wire' = WireWithoutAck(p)
    BY <1>1, <2>1, <2>3, PopCarries DEF WireWithoutAck
  <2> QED
    BY <2>2, <2>3 DEF HandshakeRecv
<1>5. TypeInv'
  <2>1. \A q \in Peers : wire'[q] \in Seq(Datagrams) /\ Len(wire'[q]) <= MaxWire
    BY <1>4, WiresAreTyped
  <2> QED
    BY <1>2, <2>1 DEF HandshakeRecv, SetupInv, TypeInv, TypeOK
<1>6. Settled'
  BY <1>2 DEF HandshakeRecv, SetupInv, HandshakeInv, Settled
<1>7. KnowsBoth'
  <2>1. hsReceiver'[p] = "done" => synAcked'[p] /\ synSeen'[p]
    BY <1>2 DEF HandshakeRecv, Shaken, SetupInv, TypeInv, TypeOK
  <2>2. \A q \in Peers : q # p => synAcked'[q] = synAcked[q] /\ synSeen'[q] = synSeen[q]
    BY DEF HandshakeRecv, SetupInv, TypeInv, TypeOK
  <2> QED
    BY <1>2, <2>1, <2>2 DEF SetupInv, HandshakeInv, KnowsBoth
<1>8. Heard'
  <2> SUFFICES ASSUME NEW q \in Peers, synAcked'[q] PROVE FailedOrSeen(Other(q))'
    BY DEF Heard
  <2>1. CASE synAcked[q]
    <3>1. FailedOrSeen(Other(q)) /\ Other(q) \in Peers
      BY <2>1, TwoPeers DEF SetupInv, HandshakeInv, Heard
    <3> QED
      BY <1>3, <3>1
  <2>2. CASE q = p /\ m = Ack(SYN)
    <3>1. FailedOrSeen(Other(p))
      BY <1>1, <2>2 DEF Incoming
    <3> QED
      BY <1>1, <1>3, <2>2, <3>1
  <2> QED
    BY <1>2, <2>1, <2>2
<1>9. MatchesAreReal'
  BY DEF HandshakeRecv, SetupInv, MatchesAreReal, Mirrored
<1> QED
  BY <1>4, <1>5, <1>6, <1>7, <1>8, <1>9 DEF SetupInv, HandshakeInv

\* The phases after the handshake leave what it has found out alone.
LEMMA LaterKeepsHandshake ==
  ASSUME SetupInv, NEW p \in Peers, UNCHANGED handshakeVars,
         \/ phase' = phase
         \/ hsReceiver[p] # "run" /\ \E s \in {"exchange", "tunnel"} : phase' = [phase EXCEPT ![p] = s]
  PROVE  HandshakeInv' /\ \A q \in Peers : FailedOrSeen(q) => FailedOrSeen(q)'
<1> USE DEF handshakeVars
<1>1. Settled'
  BY DEF SetupInv, TypeInv, TypeOK, HandshakeInv, Settled
<1>2. KnowsBoth' /\ Heard'
  BY DEF SetupInv, HandshakeInv, KnowsBoth, Heard, FailedOrSeen
<1> QED
  BY <1>1, <1>2 DEF HandshakeInv, FailedOrSeen

LEMMA ExchangeKeepsInv ==
  ASSUME SetupInv, NEW p \in Peers, Exchange(p)
  PROVE  SetupInv'
<1> USE DEF handshakeVars, exchangeVars, timerVars
<1>1. HandshakeInv' /\ \A q \in Peers : FailedOrSeen(q) => FailedOrSeen(q)'
  <2>1. UNCHANGED handshakeVars
    BY DEF Exchange, EnterExchange, ExchangeSend, ExchangeEnds, ExchangeIdle, ExchangeWakes
  <2>2. \/ phase' = phase
        \/ hsReceiver[p] # "run" /\ phase' = [phase EXCEPT ![p] = "exchange"]
    BY DEF Exchange, EnterExchange, ExchangeSend, ExchangeEnds, ExchangeIdle, ExchangeWakes,
           HandshakeOver
  <2> QED
    BY <2>1, <2>2, LaterKeepsHandshake
<1>2. Carries(wire', Incoming')
  <2>1. CASE wire' = wire
    <3>1. Carries(wire', Incoming)
      BY <2>1 DEF SetupInv
    <3> QED
      BY <1>1, <3>1, IncomingGrows, MoreCarries
  <2>2. ASSUME NEW i \in 1..Len(Inbound[p]), wire' = Put(wire, Other(p), InputPort(Inbound[p][i]))
        PROVE  Carries(wire', Incoming')
    <3>1. /\ InputPort(Inbound[p][i]) \in Datagrams
          /\ InputPort(Inbound[p][i]) \in Incoming[Other(p)]
      BY OwnSettingIncoming
    <3> QED
      BY <1>1, <2>2, <3>1, SendKeepsWires
  <2>3. CASE EnterExchange(p)
    <3>1. Inbound[p] # <<>> => 1 \in 1..Len(Inbound[p])
      BY SetupAssumption
    <3> QED
      BY <2>1, <2>2, <2>3, <3>1 DEF EnterExchange
  <2>4. CASE ExchangeSend(p)
    <3>1. CASE AllAcked(p) \/ ReceiverStopped(p) \/ wire' = wire
      BY <2>1, <2>4, <3>1 DEF ExchangeSend
    <3>2. CASE ~AllAcked(p) /\ wire' # wire
      <4>1. index[p] + 1 \in 1..Len(Inbound[p])
        BY <3>2, SetupAssumption DEF AllAcked, SetupInv, TypeInv, TypeOK
      <4> QED
        BY <2>2, <2>4, <3>2, <4>1 DEF ExchangeSend
    <3> QED
      BY <3>1, <3>2
  <2> QED
    BY <2>1, <2>3, <2>4 DEF Exchange, ExchangeEnds, ExchangeIdle, ExchangeWakes
<1>3. TypeInv'
  <2>1. \A q \in Peers : wire'[q] \in Seq(Datagrams) /\ Len(wire'[q]) <= MaxWire
    BY <1>2, WiresAreTyped
  <2>2. phase' \in [Peers -> {"down", "handshake", "exchange", "tunnel"}]
    BY DEF Exchange, EnterExchange, ExchangeSend, ExchangeEnds, ExchangeIdle, ExchangeWakes,
           SetupInv, TypeInv, TypeOK
  <2>3. xSender' \in [Peers -> Loops] /\ xReceiver' \in [Peers -> Loops \cup {"sleep"}]
    <3>1. /\ xSender \in [Peers -> Loops] /\ xReceiver \in [Peers -> Loops \cup {"sleep"}]
          /\ {"run", "done", "failed"} \subseteq Loops
      BY DEF SetupInv, TypeInv, TypeOK, Loops
    <3>2. /\ \/ xSender' = xSender
             \/ \E s \in {"done", "failed"} : xSender' = [xSender EXCEPT ![p] = s]
          /\ \/ xReceiver' = xReceiver
             \/ \E s \in {"run", "done", "sleep"} : xReceiver' = [xReceiver EXCEPT ![p] = s]
      BY DEF Exchange, EnterExchange, ExchangeSend, ExchangeEnds, ExchangeIdle, ExchangeWakes
    <3> QED
      BY <3>1, <3>2
  <2>4. dueSend' \in [Peers -> BOOLEAN] /\ dueRecv' \in [Peers -> BOOLEAN]
    BY DEF Exchange, EnterExchange, ExchangeSend, ExchangeEnds, ExchangeIdle, ExchangeWakes,
           SetupInv, TypeInv, TypeOK
  <2>5. idle' \in [Peers -> 0..IdleLimit]
    <3>1. idle \in [Peers -> 0..IdleLimit] /\ IdleLimit \in Nat
      BY SetupAssumption DEF SetupInv, TypeInv, TypeOK
    <3>2. idle' = idle \/ idle' = [idle EXCEPT ![p] = IF @ < IdleLimit THEN @ + 1 ELSE @]
      BY DEF Exchange, EnterExchange, ExchangeSend, ExchangeEnds, ExchangeIdle, ExchangeWakes
    <3> QED
      BY <3>1, <3>2
  <2>6. UNCHANGED <<synAcked, synSeen, hsSender, hsReceiver, index, matches, mishaps, unmatched>>
    BY DEF Exchange, EnterExchange, ExchangeSend, ExchangeEnds, ExchangeIdle, ExchangeWakes
  <2> QED
    BY <2>1, <2>2, <2>3, <2>4, <2>5, <2>6 DEF SetupInv, TypeInv, TypeOK
<1>4. MatchesAreReal'
  BY DEF Exchange, EnterExchange, ExchangeSend, ExchangeEnds, ExchangeIdle, ExchangeWakes,
         SetupInv, MatchesAreReal, Mirrored
<1> QED
  BY <1>1, <1>2, <1>3, <1>4 DEF SetupInv

\* A datagram read after the handshake: its acknowledgement claims nothing new.
LEMMA ReadLater ==
  ASSUME SetupInv, NEW p \in Peers, NEW m, Reads(p, m), phase[p] \in {"exchange", "tunnel"},
         wire' \in {WireAfter(p, m), WireWithoutAck(p)}
  PROVE  Carries(wire', Incoming) /\ m \in Incoming[p] /\ m \in Datagrams
<1>1. Carries(wire, Incoming) /\ m \in Incoming[p] /\ m \in Datagrams
  BY PopCarries DEF SetupInv, Reads
<1>2. m.type # "ACK" => Ack(m) \in Incoming[Other(p)]
  BY <1>1, SettledHasSeen, AckIncoming
<1>3. CASE wire' = WireAfter(p, m)
  BY <1>1, <1>2, <1>3, ReadCarries
<1>4. CASE wire' = WireWithoutAck(p)
  BY <1>1, <1>4, PopCarries DEF WireWithoutAck, Reads
<1> QED
  BY <1>1, <1>3, <1>4

LEMMA ExchangeRecvKeepsInv ==
  ASSUME SetupInv, NEW p \in Peers, NEW m, ExchangeRecv(p, m)
  PROVE  SetupInv'
<1> USE DEF handshakeVars, exchangeVars, timerVars
<1>1. HandshakeInv' /\ \A q \in Peers : FailedOrSeen(q) => FailedOrSeen(q)'
  BY LaterKeepsHandshake DEF ExchangeRecv
<1>2. Carries(wire', Incoming) /\ m \in Incoming[p] /\ m \in Datagrams
  BY ReadLater DEF ExchangeRecv, Polls
<1>3. Carries(wire', Incoming')
  BY <1>1, <1>2, IncomingGrows, MoreCarries
<1>4. m.type = "input_port" =>
        MatchesOf(p, m.id[2]) \subseteq Mirrored(p) /\ MatchesOf(p, m.id[2]) \subseteq Outbound[p]
  BY <1>2 DEF Incoming, MatchesOf, Mirrored
<1>5. /\ matches' \in [Peers -> SUBSET Settings]
      /\ \A q \in Peers : matches'[q] \subseteq Outbound[q] /\ matches'[q] \subseteq Mirrored(q)
  <2>1. /\ matches \in [Peers -> SUBSET Settings]
        /\ \A q \in Peers : matches[q] \subseteq Outbound[q] /\ matches[q] \subseteq Mirrored(q)
    BY DEF SetupInv, TypeInv, TypeOK, MatchesAreReal
  <2>2. CASE matches' = matches
    BY <2>1, <2>2
  <2>3. CASE m.type = "input_port" /\ matches' = [matches EXCEPT ![p] = @ \cup MatchesOf(p, m.id[2])]
    <3>1. Outbound[p] \subseteq Settings
      <4>1. Outbound[p] \subseteq UNION {Outbound[q] : q \in Peers}
        BY Zenon
      <4> QED
        BY <4>1, Zenon DEF Settings
    <3> HIDE DEF Settings
    <3> QED
      BY <1>4, <2>1, <2>3, <3>1
  <2> QED
    BY <2>1, <2>2, <2>3 DEF ExchangeRecv
<1>6. index' \in [Peers -> Nat] /\ \A q \in Peers : index'[q] \in 0..Len(Inbound[q])
  <2>1. /\ index \in [Peers -> Nat] /\ \A q \in Peers : index[q] \in 0..Len(Inbound[q])
        /\ Len(Inbound[p]) \in Nat
    BY SetupAssumption DEF SetupInv, TypeInv, TypeOK
  <2>2. \/ index' = index
        \/ ~AllAcked(p) /\ index' = [index EXCEPT ![p] = index[p] + 1]
    <3>1. index' = index \/ index' = [index EXCEPT ![p] =
                       IF ~AllAcked(p) /\ m = Ack(InputPort(Inbound[p][@ + 1])) THEN @ + 1 ELSE @]
      BY DEF ExchangeRecv
    <3> QED
      BY <2>1, <3>1
  <2> QED
    BY <2>1, <2>2 DEF AllAcked
<1>7. idle' \in [Peers -> 0..IdleLimit] /\ xReceiver' \in [Peers -> Loops \cup {"sleep"}]
  <2>1. /\ idle \in [Peers -> 0..IdleLimit] /\ 0 \in 0..IdleLimit
        /\ xReceiver \in [Peers -> Loops \cup {"sleep"}] /\ {"done", "failed"} \subseteq Loops
    BY SetupAssumption DEF SetupInv, TypeInv, TypeOK, Loops
  <2>2. /\ idle' = [idle EXCEPT ![p] = 0]
        /\ \E s \in {xReceiver[p], "done", "failed"} : xReceiver' = [xReceiver EXCEPT ![p] = s]
    BY DEF ExchangeRecv
  <2> QED
    BY <2>1, <2>2
<1>8. TypeInv'
  <2>1. \A q \in Peers : wire'[q] \in Seq(Datagrams) /\ Len(wire'[q]) <= MaxWire
    BY <1>3, WiresAreTyped
  <2> QED
    BY <1>5, <1>6, <1>7, <2>1 DEF ExchangeRecv, SetupInv, TypeInv, TypeOK
<1>9. MatchesAreReal'
  BY <1>5 DEF MatchesAreReal, Mirrored
<1> QED
  BY <1>1, <1>3, <1>8, <1>9 DEF SetupInv

LEMMA TunnelKeepsInv ==
  ASSUME SetupInv, NEW p \in Peers, Tunnel(p)
  PROVE  SetupInv'
<1> USE DEF handshakeVars, exchangeVars, timerVars
<1>1. HandshakeInv' /\ \A q \in Peers : FailedOrSeen(q) => FailedOrSeen(q)'
  <2>1. \/ phase' = phase
        \/ hsReceiver[p] # "run" /\ phase' = [phase EXCEPT ![p] = "tunnel"]
    BY DEF Tunnel, EnterTunnel, HeartBeats, ExchangeOver, SetupInv, HandshakeInv, Settled
  <2> QED
    BY <2>1, LaterKeepsHandshake DEF Tunnel, EnterTunnel, HeartBeats
<1>2. Carries(wire', Incoming')
  <2>1. HeartBeat \in Datagrams /\ HeartBeat \in Incoming[Other(p)]
    BY TwoPeers, HeartBeatDatagram, PlainIncoming
  <2>2. wire' \in {wire, Put(wire, Other(p), HeartBeat)}
    BY DEF Tunnel, EnterTunnel, HeartBeats
  <2> QED
    BY <1>1, <2>1, <2>2, SendKeepsWires
<1>3. /\ \A q \in Peers : matches'[q] \subseteq matches[q]
      /\ matches' \in [Peers -> SUBSET Settings]
  <2>1. matches \in [Peers -> SUBSET Settings]
    BY DEF SetupInv, TypeInv
  <2> HIDE DEF Settings
  <2>2. \/ matches' = matches \/ matches' = [matches EXCEPT ![p] = {}]
        \/ matches' = [matches EXCEPT ![p] = matches[p]]
    BY DEF Tunnel, EnterTunnel, HeartBeats
  <2> QED
    BY <2>1, <2>2
<1>4. TypeInv'
  <2>1. \A q \in Peers : wire'[q] \in Seq(Datagrams) /\ Len(wire'[q]) <= MaxWire
    BY <1>2, WiresAreTyped
  <2>2. phase' \in [Peers -> {"down", "handshake", "exchange", "tunnel"}]
    BY DEF Tunnel, EnterTunnel, HeartBeats, SetupInv, TypeInv, TypeOK
  <2>3. dueSend' \in [Peers -> BOOLEAN]
    BY DEF Tunnel, EnterTunnel, HeartBeats, SetupInv, TypeInv, TypeOK
  <2>4. UNCHANGED <<synAcked, synSeen, hsSender, hsReceiver, index, idle, xSender, xReceiver,
                    dueRecv, mishaps, unmatched>>
    BY DEF Tunnel, EnterTunnel, HeartBeats
  <2> QED
    BY <1>3, <2>1, <2>2, <2>3, <2>4 DEF SetupInv, TypeInv, TypeOK
<1>5. MatchesAreReal'
  BY <1>3 DEF SetupInv, MatchesAreReal, Mirrored
<1> QED
  BY <1>1, <1>2, <1>4, <1>5 DEF SetupInv

LEMMA TunnelRecvKeepsInv ==
  ASSUME SetupInv, NEW p \in Peers, NEW m, TunnelRecv(p, m)
  PROVE  SetupInv'
<1> USE DEF handshakeVars, exchangeVars, timerVars
<1>1. HandshakeInv' /\ \A q \in Peers : FailedOrSeen(q) => FailedOrSeen(q)'
  BY LaterKeepsHandshake DEF TunnelRecv
<1>2. Carries(wire', Incoming) /\ m \in Datagrams
  BY ReadLater DEF TunnelRecv
<1>3. Carries(wire', Incoming')
  BY <1>1, <1>2, IncomingGrows, MoreCarries
<1>4. unmatched' \in [Peers -> SUBSET Settings]
  <2>1. unmatched \in [Peers -> SUBSET Settings]
    BY DEF SetupInv, TypeInv, TypeOK
  <2>2. CASE m.type = "input_port"
    <3>1. m.id[2] \in Settings
      BY <1>2, <2>2, SettingOf
    <3>2. unmatched' = [unmatched EXCEPT ![p] = @ \cup {m.id[2]}]
      BY <2>2 DEF TunnelRecv
    <3> QED
      BY <2>1, <3>1, <3>2
  <2>3. CASE m.type # "input_port"
    BY <2>1, <2>3 DEF TunnelRecv
  <2> QED
    BY <2>2, <2>3
<1>5. TypeInv'
  <2>1. \A q \in Peers : wire'[q] \in Seq(Datagrams) /\ Len(wire'[q]) <= MaxWire
    BY <1>3, WiresAreTyped
  <2> QED
    BY <1>4, <2>1 DEF TunnelRecv, SetupInv, TypeInv, TypeOK
<1>6. MatchesAreReal'
  BY DEF TunnelRecv, SetupInv, MatchesAreReal, Mirrored
<1> QED
  BY <1>1, <1>3, <1>5, <1>6 DEF SetupInv

LEMMA MishapKeepsInv ==
  ASSUME SetupInv, NEW p \in Peers, NEW i \in 1..Len(wire[p]), Mishap(p, i)
  PROVE  SetupInv'
<1> USE DEF handshakeVars, exchangeVars, timerVars
<1>1. HandshakeInv' /\ \A q \in Peers : FailedOrSeen(q) => FailedOrSeen(q)'
  BY LaterKeepsHandshake DEF Mishap
<1>2. Carries(wire', Incoming')
  BY <1>1, MishapCarries, IncomingGrows, MoreCarries DEF SetupInv
<1>3. TypeInv'
  <2>1. \A q \in Peers : wire'[q] \in Seq(Datagrams) /\ Len(wire'[q]) <= MaxWire
    BY <1>2, WiresAreTyped
  <2>2. mishaps' \in 0..MaxMishaps
    BY SetupAssumption DEF Mishap, SetupInv, TypeInv, TypeOK
  <2> QED
    BY <2>1, <2>2 DEF Mishap, SetupInv, TypeInv, TypeOK
<1>4. MatchesAreReal'
  BY DEF Mishap, SetupInv, MatchesAreReal, Mirrored
<1> QED
  BY <1>1, <1>2, <1>3, <1>4 DEF SetupInv

LEMMA TickKeepsInv ==
  ASSUME SetupInv, Tick
  PROVE  SetupInv'
<1> USE DEF handshakeVars, exchangeVars
<1>1. HandshakeInv' /\ \A q \in Peers : FailedOrSeen(q) => FailedOrSeen(q)'
  BY DEF Tick, SetupInv, HandshakeInv, Settled, KnowsBoth, Heard, FailedOrSeen
<1>2. Carries(wire', Incoming')
  BY <1>1, IncomingGrows, MoreCarries DEF Tick, SetupInv
<1>3. TypeInv' /\ MatchesAreReal'
  BY DEF Tick, SetupInv, TypeInv, TypeOK, MatchesAreReal, Mirrored
<1> QED
  BY <1>1, <1>2, <1>3 DEF SetupInv

LEMMA StutterKeepsInv ==
  ASSUME SetupInv, UNCHANGED vars
  PROVE  SetupInv'
<1> USE DEF vars, handshakeVars, exchangeVars, timerVars
<1>1. HandshakeInv' /\ \A q \in Peers : FailedOrSeen(q) => FailedOrSeen(q)'
  BY DEF SetupInv, HandshakeInv, Settled, KnowsBoth, Heard, FailedOrSeen
<1>2. Carries(wire', Incoming')
  BY <1>1, IncomingGrows, MoreCarries DEF SetupInv
<1>3. TypeInv' /\ MatchesAreReal'
  BY DEF SetupInv, TypeInv, TypeOK, MatchesAreReal, Mirrored
<1> QED
  BY <1>1, <1>2, <1>3 DEF SetupInv

-----------------------------------------------------------------------------
(***************************************************************************)
(* The theorems.                                                           *)
(***************************************************************************)
LEMMA SetupInvariant == Spec => []SetupInv
<1>1. Init => SetupInv
  BY InitSetupInv
<1>2. SetupInv /\ [Next]_vars => SetupInv'
  <2> SUFFICES ASSUME SetupInv, Next PROVE SetupInv'
    BY StutterKeepsInv
  <2>1. CASE \E p \in Peers : Handshake(p) \/ Exchange(p) \/ Tunnel(p)
    BY <2>1, HandshakeKeepsInv, ExchangeKeepsInv, TunnelKeepsInv
  <2>2. CASE \E p \in Peers : Recv(p)
    <3>1. PICK p \in Peers : Recv(p)
      BY <2>2
    <3>2. PICK m : HandshakeRecv(p, m) \/ ExchangeRecv(p, m) \/ TunnelRecv(p, m)
      BY <3>1 DEF Recv
    <3> QED
      BY <3>2, HandshakeRecvKeepsInv, ExchangeRecvKeepsInv, TunnelRecvKeepsInv
  <2>3. CASE \E p \in Peers : \E i \in 1..Len(wire[p]) : Mishap(p, i)
    BY <2>3, MishapKeepsInv
  <2>4. CASE Tick
    BY <2>4, TickKeepsInv
  <2> QED
    BY <2>1, <2>2, <2>3, <2>4 DEF Next
<1> QED
  BY <1>1, <1>2, PTL DEF Spec

\* Every variable keeps its type: an index never passes the inbound settings, the
\* matches are settings given with --outbound, the buffers hold what fits.
THEOREM TypeCorrect == Spec => []TypeOK
<1>1. SetupInv => TypeOK
  BY DEF SetupInv, TypeInv
<1> QED
  BY <1>1, SetupInvariant, PTL

\* perform_handshake: whatever the network loses, repeats and reorders, and
\* whichever sends fail, a peer whose handshake succeeded has got its SYN across,
\* unless the other one's receiving loop failed.
THEOREM HandshakeAgreementHolds == Spec => []HandshakeAgreement
<1>1. SetupInv => HandshakeAgreement
  BY DEF SetupInv, HandshakeInv, KnowsBoth, Heard, FailedOrSeen, HandshakeAgreement
<1> QED
  BY <1>1, SetupInvariant, PTL

\* exchange_port_settings: an outbound server is opened only for a setting that
\* mirrors an inbound one of the other peer.
THEOREM MatchesAreRealHolds == Spec => []MatchesAreReal
<1>1. SetupInv => MatchesAreReal
  BY DEF SetupInv
<1> QED
  BY <1>1, SetupInvariant, PTL

=============================================================================
