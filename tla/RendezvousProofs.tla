-------------------------- MODULE RendezvousProofs --------------------------
(***************************************************************************)
(* Proofs about Rendezvous, for every number of programs, every address,   *)
(* time to live and interleaving: type correctness; when ids are unique    *)
(* and no id is entered twice, that nobody takes another program for       *)
(* itself; and, when no two handlers overlap between query and store of    *)
(* one id, that ids are unique and a subscription has one pair.            *)
(***************************************************************************)
EXTENDS Rendezvous, QueueLemmas, FiniteSetTheorems, TLAPS

-----------------------------------------------------------------------------
(***************************************************************************)
(* The order of a query's result.                                          *)
(***************************************************************************)
LEMMA OldestExists ==
  ASSUME NEW S \in SUBSET Records, S # {}
  PROVE  Oldest(S) \in S /\ \A s \in S : Oldest(S).creationUnix <= s.creationUnix
<1> DEFINE T == {s.creationUnix : s \in S}
<1>1. T \in SUBSET Nat /\ T # {}
  BY RendezvousAssumption DEF Records, Times
<1>2. PICK t \in T : \A u \in T : t <= u
  BY <1>1, LeastExists
<1>3. \E r \in S : \A s \in S : r.creationUnix <= s.creationUnix
  BY <1>2
<1> QED
  BY <1>3 DEF Oldest

\* What IsPair, and a Cardinality that is not below two, say of a set.
LEMMA NotAPair ==
  ASSUME NEW S, Cardinality(S) = 2 \/ ~(Cardinality(S) < 2)
  PROVE  S # {} /\ \A x \in S : S # {x}
<1>1. Cardinality({}) = 0 /\ \A x : Cardinality({x}) = 1
  BY FS_EmptySet, FS_Singleton
<1> QED
  BY <1>1

LEMMA OldestTwo ==
  ASSUME NEW S \in SUBSET Records, Cardinality(S) = 2 \/ ~(Cardinality(S) < 2)
  PROVE  PeerA(S) \in Nodes /\ PeerB(S) \in Nodes
<1>1. S # {} /\ Oldest(S) \in S
  BY NotAPair, OldestExists
<1> DEFINE R == S \ {Oldest(S)}
<1>2. R # {} /\ R \in SUBSET Records
  BY <1>1, NotAPair
<1>3. Oldest(R) \in R
  BY <1>2, OldestExists
<1>4. Oldest(S).source \in Nodes /\ Oldest(R).source \in Nodes
  BY <1>1, <1>2, <1>3 DEF Records
<1> QED
  BY <1>4 DEF PeerA, PeerB

-----------------------------------------------------------------------------
(***************************************************************************)
(* Types.                                                                  *)
(***************************************************************************)
IdKnown == \A n \in Nodes : poller[n] \notin {"start", "panicked"} => subscription[n] # None
RecordKnown == \A n \in Nodes : joiner[n] = "storing" => joinRecord[n] # None
\* A table has one record of a key.
Keyed(S) ==
  \A p, q \in S : p.subscriptionId = q.subscriptionId /\ p.creationUnix = q.creationUnix => p = q
TypeInv == TypeOK /\ IdKnown /\ RecordKnown

LEMMA CleanedFewer ==
  ASSUME NEW S
  PROVE  /\ Cleaned(S) \subseteq S
         /\ \A id : Find(S, id) \subseteq S
BY DEF Cleaned, Find

LEMMA StoredTyped ==
  ASSUME NEW S \in SUBSET Records, NEW r \in Records, Keyed(S)
  PROVE  Stored(S, r) \in SUBSET Records /\ Keyed(Stored(S, r))
BY DEF Stored, Keyed

LEMMA InitTypeInv == Init => TypeInv
BY RendezvousAssumption
DEF Init, TypeInv, TypeOK, IdKnown, RecordKnown, Times, Records, Pairs, PollerStates

LEMMA SubscribeFindTypes ==
  ASSUME TypeInv, NEW n \in Nodes, SubscribeFind(n)
  PROVE  TypeInv'
<1> USE DEF TypeInv, TypeOK, IdKnown, RecordKnown
<1>1. table' \subseteq table
  BY CleanedFewer DEF SubscribeFind
<1>2. <<AddressOf[n], now>> \in SubscriptionIds /\ <<AddressOf[n], now>> # None
  BY RendezvousAssumption DEF SubscriptionIds
<1>3. UNCHANGED <<now, pollReply, joinVars, resultVars>>
  BY DEF SubscribeFind
<1>4. \/ /\ subscription' = [subscription EXCEPT ![n] = <<AddressOf[n], now>>]
         /\ poller' = [poller EXCEPT ![n] = "storing"]
      \/ poller' = [poller EXCEPT ![n] = "panicked"] /\ subscription' = subscription
  BY DEF SubscribeFind
<1>5. /\ subscription' \in [Nodes -> SubscriptionIds \cup {None}] /\ IdKnown'
      /\ poller' \in [Nodes -> PollerStates]
  BY <1>2, <1>4 DEF PollerStates
<1> QED
  BY <1>1, <1>3, <1>5 DEF joinVars, resultVars

LEMMA SubscribeStoreTypes ==
  ASSUME TypeInv, NEW n \in Nodes, SubscribeStore(n)
  PROVE  TypeInv'
<1> USE DEF TypeInv, TypeOK, IdKnown, RecordKnown
<1> DEFINE id == subscription[n]
           r == [subscriptionId |-> id, creationUnix |-> id[2], source |-> n]
<1>1. id \in SubscriptionIds
  BY DEF SubscribeStore
<1>2. id[2] \in Times
  BY <1>1 DEF SubscriptionIds
<1>3. r \in Records /\ table' = Stored(table, r)
  BY <1>1, <1>2 DEF SubscribeStore, Records
<1> HIDE DEF r
<1>4. table' \in SUBSET Records /\ Keyed(table')
  <2>1. Keyed(table)
    BY DEF Keyed
  <2> QED
    BY <1>3, <2>1, StoredTyped
<1>5. /\ UNCHANGED <<now, subscription, pollReply, joinVars, resultVars>>
      /\ poller[n] = "storing" /\ poller' = [poller EXCEPT ![n] = "check"]
  BY DEF SubscribeStore
<1> QED
  BY <1>1, <1>4, <1>5 DEF joinVars, resultVars, Keyed, PollerStates

LEMMA PollingTypes ==
  ASSUME TypeInv, NEW n \in Nodes, Polling(n)
  PROVE  TypeInv'
<1> USE DEF TypeInv, TypeOK, IdKnown, RecordKnown
<1>1. CASE PollEnds(n) \/ PollFails(n) \/ PollPanics(n) \/ PollExpired(n) \/ PollAgain(n)
  BY <1>1
  DEF PollEnds, PollFails, PollPanics, PollExpired, PollAgain, PollerStates, joinVars, resultVars
<1>2. CASE Poll(n)
  <2>1. table' \subseteq table /\ Find(table', subscription[n]) \subseteq table'
    BY <1>2, CleanedFewer DEF Poll
  <2>2. pollReply' \in [Nodes -> SUBSET Records]
    BY <1>2, <2>1 DEF Poll
  <2> QED
    BY <1>2, <2>1, <2>2 DEF Poll, PollerStates, joinVars, resultVars
<1>3. CASE PollPaired(n)
  <2> DEFINE pair == AsPolled(pollReply[n])
  <2>1. pair \in Pairs
    BY <1>3, OldestTwo DEF PollPaired, IsPair, AsPolled, Pairs
  <2>2. /\ peers' = [peers EXCEPT ![n] = pair]
        /\ poller' = [poller EXCEPT ![n] = "take"]
        /\ UNCHANGED <<now, table, subscription, pollReply, joinVars, error, decision>>
    BY <1>3 DEF PollPaired
  <2> HIDE DEF pair
  <2>3. peers' \in [Nodes -> Pairs \cup {None}]
    BY <2>1, <2>2
  <2>4. IdKnown' /\ poller' \in [Nodes -> PollerStates]
    BY <1>3, <2>2 DEF PollPaired, PollerStates
  <2> QED
    BY <2>2, <2>3, <2>4 DEF joinVars
<1>4. CASE Take(n)
  <2>1. /\ decision' \in [Nodes -> Pairs \cup {None}] /\ peers' \in [Nodes -> Pairs \cup {None}]
        /\ error' \in [Nodes -> BOOLEAN] /\ poller' \in [Nodes -> PollerStates] /\ IdKnown'
    BY <1>4 DEF Take, PollerStates
  <2> QED
    BY <1>4, <2>1 DEF Take, joinVars
<1> QED
  BY <1>1, <1>2, <1>3, <1>4 DEF Polling

LEMMA JoinTypes ==
  ASSUME TypeInv, NEW n \in Nodes, Join(n)
  PROVE  TypeInv'
<1> USE DEF TypeInv, TypeOK, IdKnown, RecordKnown
<1> DEFINE id == subscription[Enters[n]]
           found == Find(table', id)
           r == [subscriptionId |-> id, creationUnix |-> now, source |-> n]
<1>1. table' \subseteq table /\ found \subseteq table'
  BY CleanedFewer DEF Join
<1>2. Cardinality(found) = 1 => r \in Records
  <2> SUFFICES ASSUME Cardinality(found) = 1 PROVE r \in Records
    OBVIOUS
  <2>1. found # {}
    <3> HIDE DEF found, TypeInv, TypeOK, IdKnown, RecordKnown
    <3>1. Cardinality({}) = 0
      BY FS_EmptySet
    <3> QED
      BY <3>1
  <2>2. PICK s \in found : s.subscriptionId = id
    BY <2>1 DEF Find
  <2>3. id \in SubscriptionIds
    BY <1>1, <2>2 DEF Records
  <2> QED
    BY <2>3 DEF Records
<1>3. \/ /\ Cardinality(found) = 1
         /\ joiner' = [joiner EXCEPT ![n] = "storing"]
         /\ joinRecord' = [joinRecord EXCEPT ![n] = r]
      \/ joiner' = [joiner EXCEPT ![n] = "get"] /\ joinRecord' = joinRecord
  BY DEF Join
<1>4. /\ UNCHANGED <<now, pollVars, joinReply, resultVars>>
      /\ refused' \in [Nodes -> BOOLEAN]
  BY DEF Join
<1> HIDE DEF r, found
<1>5. /\ joinRecord' \in [Nodes -> Records \cup {None}] /\ RecordKnown'
      /\ joiner' \in [Nodes -> {"waiting", "join", "storing", "get", "got", "done"}]
  BY <1>2, <1>3, RendezvousAssumption
<1> QED
  BY <1>1, <1>4, <1>5 DEF pollVars, resultVars

LEMMA JoinStoreTypes ==
  ASSUME TypeInv, NEW n \in Nodes, JoinStore(n)
  PROVE  TypeInv'
<1> USE DEF TypeInv, TypeOK, IdKnown, RecordKnown
<1>1. joinRecord[n] \in Records /\ table' = Stored(table, joinRecord[n])
  BY DEF JoinStore
<1>2. table' \in SUBSET Records /\ Keyed(table')
  <2>1. Keyed(table)
    BY DEF Keyed
  <2> QED
    BY <1>1, <2>1, StoredTyped
<1>3. /\ joinRecord' = [joinRecord EXCEPT ![n] = None]
      /\ joiner' = [joiner EXCEPT ![n] = "get"]
      /\ UNCHANGED <<now, pollVars, joinReply, refused, resultVars>>
  BY DEF JoinStore
<1>4. joinRecord' \in [Nodes -> Records \cup {None}] /\ RecordKnown'
  BY <1>3
<1> QED
  BY <1>2, <1>3, <1>4 DEF pollVars, resultVars, Keyed

LEMMA JoiningTypes ==
  ASSUME TypeInv, NEW n \in Nodes, Joining(n)
  PROVE  TypeInv'
<1> USE DEF TypeInv, TypeOK, IdKnown, RecordKnown
<1>1. CASE Enter(n) \/ JoinServiceFails(n) \/ JoinFails(n)
  BY <1>1 DEF Enter, JoinServiceFails, JoinFails, pollVars, resultVars
<1>2. CASE JoinGet(n)
  <2>1. table' \subseteq table /\ Find(table', subscription[Enters[n]]) \subseteq table'
    BY <1>2, CleanedFewer DEF JoinGet
  <2>2. joinReply' \in [Nodes -> SUBSET Records]
    BY <1>2, <2>1 DEF JoinGet
  <2> QED
    BY <1>2, <2>1, <2>2 DEF JoinGet, pollVars, resultVars
<1>3. CASE JoinDecides(n)
  <2> DEFINE pair == AsJoined(joinReply[n])
  <2>1. ~(Cardinality(joinReply[n]) < 2) => pair \in Pairs
    BY OldestTwo DEF AsJoined, Pairs
  <2>2. /\ \/ error' = [error EXCEPT ![n] = TRUE] /\ peers' = peers
           \/ /\ ~(Cardinality(joinReply[n]) < 2)
              /\ peers' = [peers EXCEPT ![n] = pair] /\ error' = error
        /\ joiner' = [joiner EXCEPT ![n] = "done"]
        /\ UNCHANGED <<now, table, pollVars, joinRecord, joinReply, refused, decision>>
    BY <1>3 DEF JoinDecides
  <2> HIDE DEF pair
  <2>3. peers' \in [Nodes -> Pairs \cup {None}] /\ error' \in [Nodes -> BOOLEAN]
    BY <2>1, <2>2
  <2> QED
    BY <2>2, <2>3 DEF pollVars
<1> QED
  BY <1>1, <1>2, <1>3, JoinTypes, JoinStoreTypes DEF Joining

LEMMA NextKeepsTypes ==
  ASSUME TypeInv, [Next]_vars
  PROVE  TypeInv'
<1>1. CASE Tick
  <2> USE DEF TypeInv, TypeOK, IdKnown, RecordKnown
  <2>1. now' \in Times
    BY <1>1, RendezvousAssumption DEF Tick, Times
  <2> QED
    BY <1>1, <2>1 DEF Tick, PollerStates, joinVars, resultVars
<1>2. CASE UNCHANGED vars
  BY <1>2 DEF TypeInv, TypeOK, IdKnown, RecordKnown, vars, pollVars, joinVars, resultVars
<1> QED
  BY <1>1, <1>2, SubscribeFindTypes, SubscribeStoreTypes, PollingTypes, JoiningTypes
  DEF Next, Subscribe

LEMMA TypeInvariant == Spec => []TypeInv
<1>1. TypeInv /\ [Next]_vars => TypeInv'
  BY NextKeepsTypes
<1> QED
  BY <1>1, InitTypeInv, PTL DEF Spec

\* Every variable keeps its type, the table has one record of a key, and what is
\* made of a reply of three records is a pair of programs all the same.
THEOREM TypeCorrect == Spec => []TypeOK
BY TypeInvariant, PTL DEF TypeInv

-----------------------------------------------------------------------------
(***************************************************************************)
(* Records, and whose they are. A subscription has its subscriber's record *)
(* and, later, one of a program that enters its id.                        *)
(***************************************************************************)

\* No two programs enter the same id.
EnteredOnce == \A m, n \in Nodes : Enters[m] = Enters[n] /\ Enters[m] # None => m = n

BelongsTo(r, m) ==
  /\ Subscribed(m)
  /\ r.subscriptionId = subscription[m]
  /\ r.creationUnix >= subscription[m][2]
  /\ r.source = m => r.creationUnix = subscription[m][2]
  /\ r.source # m => Enters[r.source] = m

OneEach(S) == \A r, s \in S : r.subscriptionId = s.subscriptionId /\ r.source = s.source => r = s

\* What is found of the subscription of m.
Answer(S, m) == OneEach(S) /\ Keyed(S) /\ \A r \in S : BelongsTo(r, m)

TableInv == OneEach(table) /\ \A r \in table : \E m \in Nodes : BelongsTo(r, m)

IdsInv == \A n \in Nodes : subscription[n] # None => subscription[n][2] <= now

JoinInv(n) ==
  /\ joiner[n] \notin {"waiting", "done"} => Enters[n] \in Nodes /\ Subscribed(Enters[n])
  /\ joiner[n] = "storing" =>
       Enters[n] # n /\ joinRecord[n].source = n /\ BelongsTo(joinRecord[n], Enters[n])
  /\ joiner[n] \in {"waiting", "join", "storing"} =>
       \A r \in table : r.source = n => BelongsTo(r, n)

ReplyInv(n) ==
  /\ poller[n] = "asked" => Answer(pollReply[n], n)
  /\ joiner[n] = "got" => Answer(joinReply[n], Enters[n])

SelfInv(n) ==
  /\ peers[n] # None => peers[n].source = n /\ peers[n].dest # n
  /\ decision[n] # None => decision[n].source = n /\ decision[n].dest # n

RendezvousInv ==
  /\ TypeInv /\ IdsInv /\ TableInv
  /\ \A n \in Nodes : JoinInv(n) /\ ReplyInv(n) /\ SelfInv(n)

\* A pair is the subscriber's record, the older one, and one of the program that
\* entered the id.
LEMMA PairOf ==
  ASSUME EnteredOnce, NEW S \in SUBSET Records, NEW m \in Nodes, Answer(S, m),
         Cardinality(S) = 2 \/ ~(Cardinality(S) < 2)
  PROVE  \E k \in Nodes : k # m /\ Enters[k] = m /\ PeerA(S) = m /\ PeerB(S) = k
<1> DEFINE x == Oldest(S)
           R == S \ {x}
           y == Oldest(R)
<1>1. x \in S /\ \A s \in S : x.creationUnix <= s.creationUnix
  BY NotAPair, OldestExists
<1>2. R # {} /\ R \in SUBSET Records
  BY <1>1, NotAPair
<1>3. y \in S /\ y # x
  BY <1>2, OldestExists
<1>4. PeerA(S) = x.source /\ PeerB(S) = y.source
  BY DEF PeerA, PeerB
<1> HIDE DEF R, x, y
<1>5. /\ x.source \in Nodes /\ y.source \in Nodes
      /\ x.creationUnix \in Nat /\ y.creationUnix \in Nat
      /\ BelongsTo(x, m) /\ BelongsTo(y, m)
  BY <1>1, <1>3, RendezvousAssumption DEF Answer, Records, Times
<1>6. x.source # y.source
  BY <1>1, <1>3, <1>5 DEF Answer, OneEach, BelongsTo
<1>7. x.source = m \/ y.source = m
  BY <1>5, <1>6, RendezvousAssumption DEF BelongsTo, EnteredOnce
<1>8. y.source # m
  <2> SUFFICES ASSUME y.source = m PROVE FALSE
    OBVIOUS
  <2>1. /\ x.creationUnix >= subscription[m][2] /\ y.creationUnix = subscription[m][2]
        /\ x.creationUnix <= y.creationUnix
    BY <1>1, <1>3, <1>5 DEF BelongsTo
  <2>2. x.creationUnix = y.creationUnix
    BY <1>5, <2>1
  <2> QED
    BY <1>1, <1>3, <1>5, <2>2 DEF Answer, Keyed, BelongsTo
<1> QED
  BY <1>4, <1>5, <1>6, <1>7, <1>8 DEF BelongsTo

\* An id that has been given stays, and so does what belongs to it.
LEMMA BelongingLasts ==
  ASSUME TypeInv, [Next]_vars, NEW m \in Nodes, Subscribed(m)
  PROVE  /\ Subscribed(m)' /\ subscription'[m] = subscription[m]
         /\ \A r : BelongsTo(r, m) => BelongsTo(r, m)'
<1>1. /\ poller \in [Nodes -> PollerStates]
      /\ subscription \in [Nodes -> SubscriptionIds \cup {None}]
      /\ poller[m] \notin {"start", "storing", "panicked"}
  BY DEF TypeInv, TypeOK, Subscribed
<1>2. poller'[m] \notin {"start", "storing", "panicked"} /\ subscription'[m] = subscription[m]
  <2>1. CASE Tick \/ UNCHANGED vars
    BY <1>1, <2>1 DEF Tick, vars, pollVars
  <2>2. ASSUME NEW n \in Nodes, Subscribe(n)
        PROVE  poller'[m] \notin {"start", "storing", "panicked"} /\ subscription'[m] = subscription[m]
    BY <1>1, <2>2 DEF Subscribe, SubscribeFind, SubscribeStore
  <2>3. ASSUME NEW n \in Nodes, Polling(n)
        PROVE  poller'[m] \notin {"start", "storing", "panicked"} /\ subscription'[m] = subscription[m]
    BY <1>1, <2>3
    DEF Polling, PollEnds, Poll, PollFails, PollPanics, PollExpired, PollPaired, PollAgain, Take
  <2>4. ASSUME NEW n \in Nodes, Joining(n)
        PROVE  poller'[m] \notin {"start", "storing", "panicked"} /\ subscription'[m] = subscription[m]
    BY <1>1, <2>4
    DEF Joining, Enter, Join, JoinStore, JoinServiceFails, JoinGet, JoinDecides, JoinFails, pollVars
  <2> QED
    BY <2>1, <2>2, <2>3, <2>4 DEF Next
<1> QED
  BY <1>1, <1>2 DEF Subscribed, BelongsTo

LEMMA AnswerLasts ==
  ASSUME TypeInv, [Next]_vars, NEW m \in Nodes
  PROVE  \A S : Answer(S, m) => Answer(S, m)'
BY BelongingLasts DEF Answer, BelongsTo

\* When ids are unique, what a query finds belongs to the subscription.
LEMMA FoundAnswer ==
  ASSUME TypeInv, TableInv, IdsAreUnique, NEW m \in Nodes, Subscribed(m)
  PROVE  Answer(Find(Cleaned(table), subscription[m]), m)
<1> DEFINE S == Find(Cleaned(table), subscription[m])
<1>1. S \subseteq table /\ \A r \in S : r.subscriptionId = subscription[m]
  BY DEF Find, Cleaned
<1>2. OneEach(table) /\ Keyed(table)
  BY DEF TableInv, TypeInv, TypeOK, Keyed
<1>3. ASSUME NEW r \in S PROVE BelongsTo(r, m)
  <2>1. PICK k \in Nodes : BelongsTo(r, k)
    BY <1>1 DEF TableInv
  <2>2. k = m
    BY <1>1, <2>1 DEF IdsAreUnique, BelongsTo
  <2> QED
    BY <2>1, <2>2
<1> HIDE DEF S
<1>4. OneEach(S) /\ Keyed(S)
  BY <1>1, <1>2 DEF OneEach, Keyed
<1> QED
  BY <1>3, <1>4 DEF Answer, S

-----------------------------------------------------------------------------
(***************************************************************************)
(* The steps. Only a store adds to the table; only its own tasks change    *)
(* what a program knows.                                                   *)
(***************************************************************************)
LEMMA TableShrinks ==
  ASSUME [Next]_vars, \A n \in Nodes : ~SubscribeStore(n) /\ ~JoinStore(n)
  PROVE  table' \subseteq table
<1>1. CASE Tick \/ UNCHANGED vars
  BY <1>1 DEF Tick, vars
<1>2. ASSUME NEW n \in Nodes, Subscribe(n) \/ Polling(n)
      PROVE  table' \subseteq table
  BY <1>2, CleanedFewer
  DEF Subscribe, SubscribeFind, Polling, PollEnds, Poll, PollFails, PollPanics, PollExpired, PollPaired,
      PollAgain, Take
<1>3. ASSUME NEW n \in Nodes, Joining(n)
      PROVE  table' \subseteq table
  BY <1>3, CleanedFewer DEF Joining, Enter, Join, JoinServiceFails, JoinGet, JoinDecides, JoinFails
<1> QED
  BY <1>1, <1>2, <1>3 DEF Next

LEMMA JoinerAlone ==
  ASSUME TypeInv, [Next]_vars, NEW n \in Nodes, ~Joining(n)
  PROVE  /\ joiner'[n] = joiner[n] /\ joinRecord'[n] = joinRecord[n]
         /\ joinReply'[n] = joinReply[n]
<1>1. CASE Tick \/ UNCHANGED vars
  BY <1>1 DEF Tick, vars, joinVars
<1>2. ASSUME NEW m \in Nodes, Subscribe(m) \/ Polling(m)
      PROVE  UNCHANGED joinVars
  BY <1>2
  DEF Subscribe, SubscribeFind, SubscribeStore, Polling, PollEnds, Poll, PollFails, PollPanics, PollExpired,
      PollPaired, PollAgain, Take
<1>3. ASSUME NEW m \in Nodes, Joining(m)
      PROVE  /\ joiner'[n] = joiner[n] /\ joinRecord'[n] = joinRecord[n]
             /\ joinReply'[n] = joinReply[n]
  <2>1. m # n
    BY <1>3
  <2> QED
    BY <1>3, <2>1
    DEF Joining, Enter, Join, JoinStore, JoinServiceFails, JoinGet, JoinDecides, JoinFails, TypeInv, TypeOK
<1> QED
  BY <1>1, <1>2, <1>3 DEF Next, joinVars

LEMMA IdsStep ==
  ASSUME TypeInv, IdsInv, [Next]_vars
  PROVE  IdsInv'
<1> SUFFICES ASSUME NEW m \in Nodes, subscription'[m] # None PROVE subscription'[m][2] <= now'
  BY DEF IdsInv
<1>1. now \in Nat /\ subscription \in [Nodes -> SubscriptionIds \cup {None}]
  BY RendezvousAssumption DEF TypeInv, TypeOK, Times
<1>2. CASE Tick
  <2>1. subscription' = subscription /\ now' = now + 1
    BY <1>2 DEF Tick
  <2>2. subscription[m] \in SubscriptionIds /\ subscription[m][2] <= now
    BY <1>1, <2>1 DEF IdsInv
  <2>3. subscription[m][2] \in Nat
    BY <2>2, RendezvousAssumption DEF SubscriptionIds, Times
  <2> QED
    BY <1>1, <2>1, <2>2, <2>3
<1>3. ASSUME NEW n \in Nodes, SubscribeFind(n)
      PROVE  subscription'[m][2] <= now'
  <2>1. now' = now /\ (subscription'[m] = subscription[m] \/ subscription'[m] = <<AddressOf[n], now>>)
    BY <1>1, <1>3 DEF SubscribeFind
  <2> QED
    BY <1>1, <2>1 DEF IdsInv
<1>4. ASSUME UNCHANGED <<now, subscription>>
      PROVE  subscription'[m][2] <= now'
  BY <1>4 DEF IdsInv
<1>5. ASSUME NEW n \in Nodes, SubscribeStore(n) \/ Polling(n) \/ Joining(n)
      PROVE  UNCHANGED <<now, subscription>>
  BY <1>5
  DEF SubscribeStore, Polling, PollEnds, Poll, PollFails, PollPanics, PollExpired, PollPaired, PollAgain, Take,
      Joining, Enter, Join, JoinStore, JoinServiceFails, JoinGet, JoinDecides, JoinFails, pollVars
<1>6. CASE UNCHANGED vars
  BY <1>4, <1>6 DEF vars, pollVars
<1> QED
  BY <1>2, <1>3, <1>4, <1>5, <1>6 DEF Next, Subscribe

\* What the two stores add, and that there is none of its kind yet.
LEMMA StoreOfSubscriber ==
  ASSUME RendezvousInv, IdsAreUnique', [Next]_vars, NEW n \in Nodes, SubscribeStore(n)
  PROVE  \E r : /\ table' \subseteq table \cup {r}
                /\ r.source = n /\ BelongsTo(r, n)'
                /\ \A s \in table : s.subscriptionId = r.subscriptionId => s.source # n
<1> DEFINE id == subscription[n]
<1>1. TypeInv /\ id \in SubscriptionIds /\ poller[n] = "storing" /\ n \in Nodes
  BY DEF SubscribeStore, RendezvousInv, TypeInv, TypeOK, IdKnown
<1>2. id[2] \in Nat
  BY <1>1, RendezvousAssumption DEF SubscriptionIds, Times
<1>3. PICK r : r = [subscriptionId |-> id, creationUnix |-> id[2], source |-> n]
  OBVIOUS
<1>4. /\ table' = Stored(table, r) /\ subscription' = subscription
      /\ poller' = [poller EXCEPT ![n] = "check"]
  BY <1>3 DEF SubscribeStore
<1>5. Subscribed(n)' /\ ~Subscribed(n)
  BY <1>1, <1>4 DEF Subscribed, TypeInv, TypeOK
<1>6. r.source = n /\ r.subscriptionId = id /\ r.creationUnix = id[2]
  BY <1>3
<1>7. BelongsTo(r, n)'
  BY <1>2, <1>4, <1>5, <1>6 DEF BelongsTo
<1>8. ASSUME NEW s \in table, s.subscriptionId = id PROVE s.source # n
  <2>1. PICK m \in Nodes : BelongsTo(s, m)
    BY DEF RendezvousInv, TableInv
  <2>2. Subscribed(m) /\ subscription[m] = id
    BY <1>8, <2>1 DEF BelongsTo
  <2>3. Subscribed(m)' /\ subscription'[m] = subscription'[n]
    BY <1>1, <1>4, <2>2, BelongingLasts
  <2>4. m = n
    BY <1>5, <2>3 DEF IdsAreUnique
  <2> QED
    BY <1>5, <2>2, <2>4
<1>9. table' \subseteq table \cup {r}
  BY <1>4 DEF Stored
<1> QED
  BY <1>6, <1>7, <1>8, <1>9

LEMMA StoreOfJoiner ==
  ASSUME RendezvousInv, IdsAreUnique, [Next]_vars, NEW n \in Nodes, JoinStore(n)
  PROVE  \E r : /\ table' \subseteq table \cup {r}
                /\ r.source = n /\ BelongsTo(r, Enters[n])' /\ Enters[n] \in Nodes
                /\ \A s \in table : s.subscriptionId = r.subscriptionId => s.source # n
<1> DEFINE m == Enters[n]
<1>1. joiner[n] = "storing" /\ table' = Stored(table, joinRecord[n]) /\ JoinInv(n) /\ TypeInv
  BY DEF JoinStore, RendezvousInv
<1>2. PICK r : r = joinRecord[n]
  OBVIOUS
<1>3. m \in Nodes /\ Subscribed(m) /\ m # n /\ r.source = n /\ BelongsTo(r, m)
  BY <1>1, <1>2 DEF JoinInv
<1>4. ASSUME NEW s \in table, s.subscriptionId = r.subscriptionId PROVE s.source # n
  <2> SUFFICES ASSUME s.source = n PROVE FALSE
    OBVIOUS
  <2>1. BelongsTo(s, n)
    BY <1>1 DEF JoinInv
  <2>2. Subscribed(n) /\ subscription[n] = subscription[m]
    BY <1>3, <1>4, <2>1 DEF BelongsTo
  <2> QED
    BY <1>3, <2>2 DEF IdsAreUnique
<1>5. BelongsTo(r, m)'
  BY <1>1, <1>3, BelongingLasts
<1>6. table' \subseteq table \cup {r}
  BY <1>1, <1>2 DEF Stored
<1> QED
  BY <1>3, <1>4, <1>5, <1>6

LEMMA TableStep ==
  ASSUME RendezvousInv, IdsAreUnique, IdsAreUnique', [Next]_vars
  PROVE  TableInv'
<1>1. TypeInv /\ OneEach(table) /\ \A r \in table : \E m \in Nodes : BelongsTo(r, m)
  BY DEF RendezvousInv, TableInv
<1>2. \A r \in table : \E m \in Nodes : BelongsTo(r, m)'
  <2> SUFFICES ASSUME NEW r \in table PROVE \E m \in Nodes : BelongsTo(r, m)'
    OBVIOUS
  <2>1. PICK m \in Nodes : BelongsTo(r, m)
    BY <1>1
  <2> QED
    BY <1>1, <2>1, BelongingLasts DEF BelongsTo
<1>3. CASE table' \subseteq table
  BY <1>1, <1>2, <1>3 DEF TableInv, OneEach
<1>4. ASSUME NEW n \in Nodes, SubscribeStore(n) \/ JoinStore(n)
      PROVE  TableInv'
  <2>1. PICK r : /\ table' \subseteq table \cup {r} /\ r.source = n
                 /\ \E m \in Nodes : BelongsTo(r, m)'
                 /\ \A s \in table : s.subscriptionId = r.subscriptionId => s.source # n
    BY <1>4, StoreOfSubscriber, StoreOfJoiner
  <2>2. OneEach(table')
    BY <1>1, <2>1 DEF OneEach
  <2>3. \A s \in table' : \E m \in Nodes : BelongsTo(s, m)'
    BY <1>2, <2>1
  <2> QED
    BY <2>2, <2>3 DEF TableInv, OneEach
<1> QED
  BY <1>3, <1>4, TableShrinks

\* A program that has not stored its join has nothing but its own record there.
LEMMA NotYetJoined ==
  ASSUME RendezvousInv, IdsAreUnique', [Next]_vars, NEW n \in Nodes, ~JoinStore(n),
         joiner[n] \in {"waiting", "join", "storing"}
  PROVE  \A r \in table' : r.source = n => BelongsTo(r, n)'
<1>1. TypeInv /\ \A r \in table : r.source = n => BelongsTo(r, n)
  BY DEF RendezvousInv, JoinInv
<1>2. \A r \in table : r.source = n => BelongsTo(r, n)'
  <2> SUFFICES ASSUME NEW r \in table, r.source = n PROVE BelongsTo(r, n)'
    OBVIOUS
  <2>1. BelongsTo(r, n) /\ Subscribed(n)
    BY <1>1 DEF BelongsTo
  <2> QED
    BY <1>1, <2>1, BelongingLasts
<1>3. CASE table' \subseteq table
  BY <1>2, <1>3
<1>4. ASSUME NEW k \in Nodes, SubscribeStore(k)
      PROVE  \A r \in table' : r.source = n => BelongsTo(r, n)'
  <2>1. PICK r : table' \subseteq table \cup {r} /\ r.source = k /\ BelongsTo(r, k)'
    BY <1>4, StoreOfSubscriber
  <2> QED
    BY <1>2, <2>1
<1>5. ASSUME NEW k \in Nodes, JoinStore(k)
      PROVE  \A r \in table' : r.source = n => BelongsTo(r, n)'
  <2>1. k # n /\ joinRecord[k].source = k
    BY <1>5 DEF RendezvousInv, JoinInv, JoinStore
  <2>2. table' \subseteq table \cup {joinRecord[k]}
    BY <1>5 DEF JoinStore, Stored
  <2> QED
    BY <1>2, <2>1, <2>2
<1> QED
  BY <1>3, <1>4, <1>5, TableShrinks

\* A join that goes on to its store is of another's id.
LEMMA JoinOfAnother ==
  ASSUME EnteredOnce, RendezvousInv, IdsAreUnique, NEW n \in Nodes, Join(n),
         joiner'[n] = "storing"
  PROVE  /\ Enters[n] # n /\ joinRecord'[n].source = n
         /\ BelongsTo(joinRecord'[n], Enters[n])
<1> DEFINE m == Enters[n]
           found == Find(Cleaned(table), subscription[m])
<1>1. TypeInv /\ TableInv /\ m \in Nodes /\ Subscribed(m) /\ joiner[n] = "join"
  BY DEF RendezvousInv, JoinInv, Join
<1>2. /\ Cardinality(found) = 1 /\ n \notin {r.source : r \in found}
      /\ joinRecord'[n] = [subscriptionId |-> subscription[m], creationUnix |-> now, source |-> n]
  BY <1>1 DEF Join, TypeInv, TypeOK
<1>3. Answer(found, m)
  BY <1>1, FoundAnswer
<1>4. PICK s : s \in found
  <2> HIDE DEF found
  <2>1. Cardinality({}) = 0
    BY FS_EmptySet
  <2> QED
    BY <1>2, <2>1
<1> HIDE DEF found
<1>5. m # n
  <2> SUFFICES ASSUME m = n PROVE FALSE
    OBVIOUS
  <2>1. s.source # n /\ BelongsTo(s, m)
    BY <1>2, <1>3, <1>4 DEF Answer
  <2>2. Enters[s.source] = m
    BY <2>1 DEF BelongsTo
  <2>3. s.source \in Nodes
    BY <1>1, <1>4 DEF found, Find, Cleaned, TypeInv, TypeOK, Records
  <2>4. n # None /\ Enters[n] = n
    BY RendezvousAssumption
  <2> QED
    BY <2>1, <2>2, <2>3, <2>4 DEF EnteredOnce
<1>6. subscription[m] # None /\ subscription[m][2] <= now
  BY <1>1 DEF RendezvousInv, IdsInv, TypeInv, IdKnown, Subscribed
<1>7. now >= subscription[m][2]
  <2>1. subscription[m] \in SubscriptionIds
    BY <1>1, <1>6 DEF TypeInv, TypeOK
  <2>2. subscription[m][2] \in Nat /\ now \in Nat
    BY <1>1, <2>1, RendezvousAssumption DEF TypeInv, TypeOK, SubscriptionIds, Times
  <2> QED
    BY <1>6, <2>2
<1> QED
  BY <1>1, <1>2, <1>5, <1>7 DEF BelongsTo

LEMMA JoinStep ==
  ASSUME EnteredOnce, RendezvousInv, IdsAreUnique, IdsAreUnique', [Next]_vars, NEW n \in Nodes
  PROVE  JoinInv(n)'
<1>1. TypeInv /\ JoinInv(n) /\ joiner \in [Nodes -> {"waiting", "join", "storing", "get", "got", "done"}]
  BY DEF RendezvousInv, TypeInv, TypeOK
<1>2. \A m \in Nodes : Subscribed(m) => Subscribed(m)' /\ \A r : BelongsTo(r, m) => BelongsTo(r, m)'
  BY <1>1, BelongingLasts
<1>3. CASE ~Joining(n)
  <2>1. joiner'[n] = joiner[n] /\ joinRecord'[n] = joinRecord[n] /\ ~JoinStore(n)
    BY <1>1, <1>3, JoinerAlone DEF Joining
  <2>2. joiner'[n] \in {"waiting", "join", "storing"} =>
          \A r \in table' : r.source = n => BelongsTo(r, n)'
    BY <2>1, NotYetJoined
  <2>3. joiner'[n] = "storing" => BelongsTo(joinRecord[n], Enters[n])'
    <3> SUFFICES ASSUME joiner'[n] = "storing" PROVE BelongsTo(joinRecord[n], Enters[n])'
      OBVIOUS
    <3>1. PICK r : r = joinRecord[n]
      OBVIOUS
    <3>2. BelongsTo(r, Enters[n])'
      BY <1>1, <1>2, <2>1, <3>1 DEF JoinInv
    <3> QED
      BY <2>1, <3>1, <3>2 DEF BelongsTo
  <2> QED
    BY <1>1, <1>2, <2>1, <2>2, <2>3 DEF JoinInv, BelongsTo
<1>4. CASE Enter(n)
  <2>1. joiner[n] = "waiting" /\ joiner'[n] \in {"done", "join"} /\ ~JoinStore(n)
        /\ Enters[n] \in Nodes /\ Subscribed(Enters[n])
    BY <1>1, <1>4, RendezvousAssumption DEF Enter, JoinStore
  <2> QED
    BY <1>2, <2>1, NotYetJoined DEF JoinInv
<1>5. CASE Join(n)
  <2>1. joiner[n] = "join" /\ joiner'[n] \in {"storing", "get"} /\ ~JoinStore(n)
        /\ Enters[n] \in Nodes /\ Subscribed(Enters[n])
    BY <1>1, <1>5 DEF Join, JoinStore, JoinInv
  <2>2. CASE joiner'[n] = "storing"
    <3>1. PICK r : r = joinRecord'[n]
      OBVIOUS
    <3>2. Enters[n] # n /\ r.source = n /\ BelongsTo(r, Enters[n])
      BY <1>5, <2>2, <3>1, JoinOfAnother
    <3>3. BelongsTo(r, Enters[n])'
      BY <1>2, <2>1, <3>2
    <3> QED
      BY <1>2, <2>1, <3>1, <3>2, <3>3, NotYetJoined DEF JoinInv
  <2>3. CASE joiner'[n] = "get"
    BY <1>2, <2>1, <2>3 DEF JoinInv
  <2> QED
    BY <2>1, <2>2, <2>3
<1>6. CASE JoinStore(n) \/ JoinServiceFails(n) \/ JoinGet(n) \/ JoinDecides(n) \/ JoinFails(n)
  <2>1. joiner[n] \notin {"waiting", "done"} /\ joiner'[n] \in {"get", "got", "done"}
    BY <1>1, <1>6 DEF JoinStore, JoinServiceFails, JoinGet, JoinDecides, JoinFails
  <2>2. Enters[n] \in Nodes /\ Subscribed(Enters[n])'
    BY <1>1, <1>2, <2>1 DEF JoinInv
  <2> QED
    BY <2>1, <2>2 DEF JoinInv
<1> QED
  BY <1>3, <1>4, <1>5, <1>6 DEF Joining

LEMMA ReplyStep ==
  ASSUME RendezvousInv, IdsAreUnique, [Next]_vars, NEW n \in Nodes
  PROVE  ReplyInv(n)'
<1>1. TypeInv /\ TableInv /\ JoinInv(n) /\ ReplyInv(n)
  BY DEF RendezvousInv
<1>2. /\ poller \in [Nodes -> PollerStates]
      /\ joiner \in [Nodes -> {"waiting", "join", "storing", "get", "got", "done"}]
      /\ pollReply \in [Nodes -> SUBSET Records] /\ joinReply \in [Nodes -> SUBSET Records]
  BY <1>1 DEF TypeInv, TypeOK
<1>3. poller'[n] = "asked" => \E S : S = pollReply'[n] /\ Answer(S, n)
  <2>1. CASE Poll(n)
    <3>1. pollReply'[n] = Find(Cleaned(table), subscription[n]) /\ Subscribed(n)
      BY <1>2, <2>1 DEF Poll, Subscribed
    <3> QED
      BY <1>1, <3>1, FoundAnswer
  <2>2. CASE ~Poll(n)
    <3>1. poller'[n] = "asked" => poller[n] = "asked" /\ pollReply'[n] = pollReply[n]
      <4>1. CASE Tick \/ UNCHANGED vars
        BY <1>2, <4>1 DEF Tick, vars, pollVars
      <4>2. ASSUME NEW m \in Nodes, Subscribe(m)
            PROVE  poller'[n] = "asked" => poller[n] = "asked" /\ pollReply'[n] = pollReply[n]
        BY <1>2, <4>2 DEF Subscribe, SubscribeFind, SubscribeStore
      <4>3. ASSUME NEW m \in Nodes, Polling(m)
            PROVE  poller'[n] = "asked" => poller[n] = "asked" /\ pollReply'[n] = pollReply[n]
        BY <1>2, <2>2, <4>3
        DEF Polling, PollEnds, Poll, PollFails, PollPanics, PollExpired, PollPaired, PollAgain, Take
      <4>4. ASSUME NEW m \in Nodes, Joining(m)
            PROVE  UNCHANGED pollVars
        BY <4>4 DEF Joining, Enter, Join, JoinStore, JoinServiceFails, JoinGet, JoinDecides, JoinFails
      <4> QED
        BY <4>1, <4>2, <4>3, <4>4 DEF Next, pollVars
    <3> QED
      BY <1>1, <3>1 DEF ReplyInv
  <2> QED
    BY <2>1, <2>2
<1>4. joiner'[n] = "got" => Enters[n] \in Nodes /\ \E S : S = joinReply'[n] /\ Answer(S, Enters[n])
  <2>1. CASE JoinGet(n)
    <3>1. /\ joinReply'[n] = Find(Cleaned(table), subscription[Enters[n]])
          /\ Enters[n] \in Nodes /\ Subscribed(Enters[n])
      BY <1>1, <1>2, <2>1 DEF JoinGet, JoinInv
    <3> QED
      BY <1>1, <3>1, FoundAnswer
  <2>2. CASE ~JoinGet(n)
    <3>1. joiner'[n] = "got" => joiner[n] = "got" /\ joinReply'[n] = joinReply[n]
      <4>1. CASE ~Joining(n)
        BY <1>1, <4>1, JoinerAlone
      <4>2. CASE Joining(n)
        BY <1>2, <2>2, <4>2 DEF Joining, Enter, Join, JoinStore, JoinServiceFails, JoinDecides, JoinFails
      <4> QED
        BY <4>1, <4>2
    <3> QED
      BY <1>1, <3>1 DEF ReplyInv, JoinInv
  <2> QED
    BY <2>1, <2>2
<1>5. poller'[n] = "asked" => Answer(pollReply[n], n)'
  <2> SUFFICES ASSUME poller'[n] = "asked" PROVE Answer(pollReply[n], n)'
    OBVIOUS
  <2>1. PICK S : S = pollReply'[n] /\ Answer(S, n)
    BY <1>3
  <2>2. Answer(S, n)'
    BY <1>1, <2>1, AnswerLasts
  <2> QED
    BY <2>1, <2>2 DEF Answer
<1>6. joiner'[n] = "got" => Answer(joinReply[n], Enters[n])'
  <2> SUFFICES ASSUME joiner'[n] = "got" PROVE Answer(joinReply[n], Enters[n])'
    OBVIOUS
  <2>1. PICK S : S = joinReply'[n] /\ Answer(S, Enters[n])
    BY <1>4
  <2>2. Answer(S, Enters[n])'
    BY <1>1, <1>4, <2>1, AnswerLasts
  <2> QED
    BY <2>1, <2>2 DEF Answer
<1> QED
  BY <1>5, <1>6 DEF ReplyInv

LEMMA SelfStep ==
  ASSUME EnteredOnce, RendezvousInv, [Next]_vars, NEW n \in Nodes
  PROVE  SelfInv(n)'
<1>1. /\ TypeInv /\ JoinInv(n) /\ ReplyInv(n) /\ SelfInv(n)
      /\ peers \in [Nodes -> Pairs \cup {None}] /\ decision \in [Nodes -> Pairs \cup {None}]
      /\ pollReply[n] \in SUBSET Records /\ joinReply[n] \in SUBSET Records
  BY DEF RendezvousInv, TypeInv, TypeOK
<1>2. CASE UNCHANGED resultVars
  BY <1>1, <1>2 DEF SelfInv, resultVars
<1>3. CASE Tick \/ UNCHANGED vars
  BY <1>2, <1>3 DEF Tick, vars
<1>4. ASSUME NEW m \in Nodes, Subscribe(m)
      PROVE  UNCHANGED resultVars
  BY <1>4 DEF Subscribe, SubscribeFind, SubscribeStore
<1>5. ASSUME NEW m \in Nodes, Polling(m)
      PROVE  SelfInv(n)'
  <2>1. CASE PollFails(m) \/ PollExpired(m) \/ Take(m)
    BY <1>1, <2>1 DEF PollFails, PollExpired, Take, SelfInv
  <2>2. CASE PollEnds(m) \/ Poll(m) \/ PollPanics(m) \/ PollAgain(m)
    BY <1>2, <2>2 DEF PollEnds, Poll, PollPanics, PollAgain
  <2>3. CASE PollPaired(m)
    <3>1. CASE m = n
      <4>1. Answer(pollReply[n], n) /\ Cardinality(pollReply[n]) = 2
        BY <1>1, <2>3, <3>1 DEF PollPaired, ReplyInv, IsPair
      <4>2. PeerA(pollReply[n]) = n /\ PeerB(pollReply[n]) # n
        BY <1>1, <4>1, PairOf
      <4>3. /\ peers'[n] = [source |-> PeerA(pollReply[n]), dest |-> PeerB(pollReply[n])]
            /\ decision' = decision
        BY <1>1, <2>3, <3>1 DEF PollPaired, AsPolled
      <4> QED
        BY <1>1, <4>2, <4>3 DEF SelfInv
    <3>2. CASE m # n
      BY <1>1, <2>3, <3>2 DEF PollPaired, SelfInv
    <3> QED
      BY <3>1, <3>2
  <2> QED
    BY <1>5, <2>1, <2>2, <2>3 DEF Polling
<1>6. ASSUME NEW m \in Nodes, Joining(m)
      PROVE  SelfInv(n)'
  <2>1. CASE ~JoinDecides(m)
    <3>1. UNCHANGED resultVars
      BY <1>6, <2>1 DEF Joining, Enter, Join, JoinStore, JoinServiceFails, JoinGet, JoinFails
    <3> QED
      BY <1>2, <3>1
  <2>2. CASE JoinDecides(m)
    <3>1. CASE m = n /\ ~(Cardinality(joinReply[n]) < 2)
      <4>1. Answer(joinReply[n], Enters[n]) /\ Enters[n] \in Nodes
        BY <1>1, <2>2, <3>1 DEF JoinDecides, ReplyInv, JoinInv
      <4>2. PICK k \in Nodes : /\ k # Enters[n] /\ Enters[k] = Enters[n]
                               /\ PeerA(joinReply[n]) = Enters[n] /\ PeerB(joinReply[n]) = k
        BY <1>1, <3>1, <4>1, PairOf
      <4>3. k = n
        <5>1. Enters[n] # None
          BY <4>1, RendezvousAssumption
        <5> QED
          BY <4>2, <5>1 DEF EnteredOnce
      <4>4. peers'[n] = [source |-> n, dest |-> Enters[n]] /\ decision'[n] = decision[n]
        BY <1>1, <2>2, <3>1, <4>2, <4>3 DEF JoinDecides, AsJoined
      <4> QED
        BY <1>1, <4>2, <4>3, <4>4 DEF SelfInv
    <3>2. CASE m # n \/ Cardinality(joinReply[n]) < 2
      BY <1>1, <2>2, <3>2 DEF JoinDecides, SelfInv
    <3> QED
      BY <3>1, <3>2
  <2> QED
    BY <2>1, <2>2
<1> QED
  BY <1>2, <1>3, <1>4, <1>5, <1>6 DEF Next

LEMMA InitRendezvousInv == Init => RendezvousInv
<1> SUFFICES ASSUME Init PROVE RendezvousInv
  OBVIOUS
<1>1. TypeInv
  BY InitTypeInv
<1>2. IdsInv /\ TableInv
  BY DEF Init, IdsInv, TableInv, OneEach
<1>3. \A n \in Nodes : JoinInv(n) /\ ReplyInv(n) /\ SelfInv(n)
  BY DEF Init, JoinInv, ReplyInv, SelfInv
<1> QED
  BY <1>1, <1>2, <1>3 DEF RendezvousInv

LEMMA NextKeepsRendezvousInv ==
  ASSUME EnteredOnce, RendezvousInv, IdsAreUnique, IdsAreUnique', [Next]_vars
  PROVE  RendezvousInv'
<1>1. TypeInv' /\ IdsInv'
  BY NextKeepsTypes, IdsStep DEF RendezvousInv
<1>2. TableInv'
  BY TableStep
<1>3. ASSUME NEW n \in Nodes PROVE JoinInv(n)' /\ ReplyInv(n)' /\ SelfInv(n)'
  BY JoinStep, ReplyStep, SelfStep
<1> QED
  BY <1>1, <1>2, <1>3 DEF RendezvousInv

LEMMA RendezvousInvariant ==
  ASSUME EnteredOnce
  PROVE  Spec /\ []IdsAreUnique => []RendezvousInv
<1>1. RendezvousInv /\ IdsAreUnique /\ IdsAreUnique' /\ [Next]_vars => RendezvousInv'
  BY NextKeepsRendezvousInv
<1> QED
  BY <1>1, InitRendezvousInv, PTL DEF Spec

\* A program does not take another's record for its own (get_peers tells the two of
\* a reply apart by their age), unless two programs were given one id or two entered
\* one: with either it does, as README, section 5, shows.
THEOREM SourceIsSelfHolds ==
  ASSUME EnteredOnce
  PROVE  Spec /\ []IdsAreUnique => []SourceIsSelf
<1>1. RendezvousInv => SourceIsSelf
  BY DEF RendezvousInv, SelfInv, SourceIsSelf
<1> QED
  BY <1>1, RendezvousInvariant, PTL

-----------------------------------------------------------------------------
(***************************************************************************)
(* One pair to a subscription, and one program to an id, as soon as no two *)
(* handlers are between query and store of one id: whoever enters what,    *)
(* shares an address, fails or comes late. Nothing else is needed.         *)
(***************************************************************************)

\* A handler is about to store a record of id for n.
Stores(n, id) ==
  \/ poller[n] = "storing" /\ subscription[n] = id
  \/ joiner[n] = "storing" /\ joinRecord[n].subscriptionId = id

OneHandlerAtATime ==
  \A m, n \in Nodes, id \in SubscriptionIds : Stores(m, id) /\ Stores(n, id) => m = n

AtMostOne(S) == \A r, s \in S : r = s
AtMostTwo(S) == \A r, s, t \in S : r = s \/ r = t \/ s = t

LEMMA TwoAtMost ==
  ASSUME NEW S, AtMostTwo(S)
  PROVE  IsFiniteSet(S) /\ Cardinality(S) <= 2
<1>1. PICK r, s : S \subseteq {r, s}
  <2>1. CASE S = {}
    BY <2>1
  <2>2. ASSUME NEW r \in S PROVE \E p, s : S \subseteq {p, s}
    <3>1. CASE S = {r}
      BY <3>1
    <3>2. ASSUME NEW s \in S, s # r PROVE S \subseteq {r, s}
      BY <3>2 DEF AtMostTwo
    <3> QED
      BY <2>2, <3>1, <3>2
  <2> QED
    BY <2>1, <2>2
<1>2. IsFiniteSet({r, s}) /\ Cardinality({r, s}) <= 2
  <2>1. IsFiniteSet({r}) /\ Cardinality({r}) = 1
    BY FS_Singleton
  <2>2. IsFiniteSet({r} \cup {s}) /\ Cardinality({r} \cup {s}) <= 2
    BY <2>1, FS_AddElement
  <2>3. {r, s} = {r} \cup {s}
    OBVIOUS
  <2> QED
    BY <2>2, <2>3
<1>3. IsFiniteSet(S) /\ Cardinality(S) <= Cardinality({r, s}) /\ Cardinality(S) \in Nat
  BY <1>1, <1>2, FS_Subset, FS_CardinalityType
<1>4. Cardinality({r, s}) \in Nat
  BY <1>2, FS_CardinalityType
<1> QED
  BY <1>2, <1>3, <1>4

LEMMA OneElement ==
  ASSUME NEW S, AtMostTwo(S), Cardinality(S) = 1
  PROVE  AtMostOne(S)
<1>1. IsFiniteSet(S)
  BY TwoAtMost
<1>2. PICK x : S = {x}
  BY <1>1, FS_Singleton
<1> QED
  BY <1>2 DEF AtMostOne

\* A join is of an id that has been given.
JoinsGiven ==
  \A n \in Nodes :
    /\ joiner[n] \in {"join", "storing"} => Enters[n] \in Nodes /\ Subscribed(Enters[n])
    /\ joiner[n] = "storing" => joinRecord[n].subscriptionId = subscription[Enters[n]]

\* An id of this second has a record of this second, which no cleanup removes yet:
\* that is how the handler of the next subscription sees the conflict.
GivenNow ==
  \A n \in Nodes :
    Subscribed(n) /\ subscription[n][2] = now =>
      \E r \in table : r.subscriptionId = subscription[n] /\ r.creationUnix = now

\* What a handler has found still holds when it stores.
QueriesHold ==
  \A n \in Nodes :
    /\ poller[n] = "storing" =>
         /\ Find(table, subscription[n]) = {}
         /\ \A m \in Nodes : Subscribed(m) => subscription[m] # subscription[n]
    /\ joiner[n] = "storing" => AtMostOne(Find(table, joinRecord[n].subscriptionId))

NoThird == \A id : AtMostTwo(Find(table, id))

ApartInv == JoinsGiven /\ GivenNow /\ QueriesHold /\ NoThird /\ IdsAreUnique

LEMMA InitApartInv == Init => ApartInv
BY DEF Init, ApartInv, JoinsGiven, GivenNow, QueriesHold, NoThird, AtMostTwo, Find, IdsAreUnique,
       Subscribed

\* A record of this second survives the cleanup, and its key a store.
LEMMA FreshSurvives ==
  ASSUME TypeInv, NEW r \in table, r.creationUnix = now
  PROVE  /\ r \in Cleaned(table)
         /\ \A x : \E s \in Stored(table, x) :
              s.subscriptionId = r.subscriptionId /\ s.creationUnix = r.creationUnix
<1>1. now \in Nat /\ now + TTL > now
  BY RendezvousAssumption DEF TypeInv, TypeOK, Times
<1> QED
  BY <1>1 DEF Cleaned, Stored

\* A step that gives no id and begins no store disturbs none of it.
LEMMA OtherStepsApart ==
  ASSUME TypeInv, ApartInv,
         now' = now, subscription' = subscription,
         table' = table \/ table' = Cleaned(table),
         \A n \in Nodes : /\ Subscribed(n)' <=> Subscribed(n)
                          /\ poller'[n] = "storing" => poller[n] = "storing",
         \A n \in Nodes :
           /\ joiner'[n] \in {"join", "storing"} => Enters[n] \in Nodes /\ Subscribed(Enters[n])
           /\ joiner'[n] = "storing" => joiner[n] = "storing" /\ joinRecord'[n] = joinRecord[n]
  PROVE  ApartInv'
<1>1. table' \subseteq table /\ \A id : Find(table', id) \subseteq Find(table, id)
  BY CleanedFewer DEF Find
<1>2. JoinsGiven'
  BY DEF ApartInv, JoinsGiven
<1>3. GivenNow'
  <2> SUFFICES ASSUME NEW n \in Nodes, Subscribed(n), subscription[n][2] = now
               PROVE  \E r \in table' : r.subscriptionId = subscription[n] /\ r.creationUnix = now
    BY DEF GivenNow
  <2>1. PICK r \in table : r.subscriptionId = subscription[n] /\ r.creationUnix = now
    BY DEF ApartInv, GivenNow
  <2> QED
    BY <2>1, FreshSurvives
<1>4. QueriesHold'
  BY <1>1 DEF ApartInv, QueriesHold, AtMostOne
<1>5. NoThird'
  BY <1>1 DEF ApartInv, NoThird, AtMostTwo
<1>6. IdsAreUnique'
  BY DEF ApartInv, IdsAreUnique
<1> QED
  BY <1>2, <1>3, <1>4, <1>5, <1>6 DEF ApartInv

LEMMA SubscribeFindApart ==
  ASSUME TypeInv, ApartInv, OneHandlerAtATime', NEW n \in Nodes, SubscribeFind(n)
  PROVE  ApartInv'
<1> DEFINE id == <<AddressOf[n], now>>
<1>1. /\ poller[n] = "start" /\ table' = Cleaned(table) /\ now' = now
      /\ joiner' = joiner /\ joinRecord' = joinRecord
      /\ poller \in [Nodes -> PollerStates]
      /\ subscription \in [Nodes -> SubscriptionIds \cup {None}]
      /\ id \in SubscriptionIds
  BY RendezvousAssumption DEF SubscribeFind, joinVars, TypeInv, TypeOK, SubscriptionIds
<1>2. ~Subscribed(n)
  BY <1>1 DEF Subscribed
<1>3. CASE Find(table', id) # {}
  <2>1. poller' = [poller EXCEPT ![n] = "panicked"] /\ subscription' = subscription
    BY <1>3 DEF SubscribeFind
  <2>2. \A m \in Nodes : /\ Subscribed(m)' <=> Subscribed(m)
                         /\ poller'[m] = "storing" => poller[m] = "storing"
    BY <1>1, <2>1 DEF Subscribed
  <2>3. \A m \in Nodes : joiner[m] \in {"join", "storing"}
                           => Enters[m] \in Nodes /\ Subscribed(Enters[m])
    BY DEF ApartInv, JoinsGiven
  <2> QED
    BY <1>1, <2>1, <2>2, <2>3, OtherStepsApart
<1>4. CASE Find(table', id) = {}
  <2>1. /\ subscription' = [subscription EXCEPT ![n] = id]
        /\ poller' = [poller EXCEPT ![n] = "storing"]
    BY <1>4 DEF SubscribeFind
  <2>2. /\ table' \subseteq table /\ \A i : Find(table', i) \subseteq Find(table, i)
        /\ subscription'[n] = id /\ poller'[n] = "storing" /\ ~Subscribed(n)'
    BY <1>1, <2>1, CleanedFewer DEF Find, Subscribed
  <2>3. \A m \in Nodes \ {n} : /\ Subscribed(m)' <=> Subscribed(m)
                               /\ subscription'[m] = subscription[m] /\ poller'[m] = poller[m]
    BY <1>1, <2>1 DEF Subscribed
  <2>4. \A m \in Nodes : Subscribed(m) => Subscribed(m)' /\ subscription'[m] = subscription[m]
    BY <1>2, <2>3
  <2>5. \A m \in Nodes : Subscribed(m)' => Subscribed(m) /\ m # n
    BY <2>2, <2>3
  <2>6. JoinsGiven'
    BY <1>1, <2>4 DEF ApartInv, JoinsGiven
  <2>7. GivenNow'
    <3> SUFFICES ASSUME NEW m \in Nodes, Subscribed(m)', subscription'[m][2] = now
                 PROVE  \E r \in table' : r.subscriptionId = subscription'[m] /\ r.creationUnix = now
      BY <1>1 DEF GivenNow
    <3>1. Subscribed(m) /\ subscription'[m] = subscription[m]
      BY <2>4, <2>5
    <3>2. PICK r \in table : r.subscriptionId = subscription[m] /\ r.creationUnix = now
      BY <3>1 DEF ApartInv, GivenNow
    <3> QED
      BY <1>1, <3>1, <3>2, FreshSurvives
\* An id given this second has its record, which the query would have found.
  <2>8. \A m \in Nodes : Subscribed(m) => subscription[m] # id
    <3> SUFFICES ASSUME NEW m \in Nodes, Subscribed(m), subscription[m] = id PROVE FALSE
      OBVIOUS
    <3>1. PICK r \in table : r.subscriptionId = id /\ r.creationUnix = now
      BY DEF ApartInv, GivenNow
    <3>2. r \in table'
      BY <1>1, <3>1, FreshSurvives
    <3> QED
      BY <1>4, <3>1, <3>2 DEF Find
  <2>9. QueriesHold'
    <3>1. ASSUME NEW m \in Nodes, poller'[m] = "storing"
          PROVE  /\ Find(table', subscription'[m]) = {}
                 /\ \A k \in Nodes : Subscribed(k)' => subscription'[k] # subscription'[m]
      <4>1. CASE m = n
        BY <1>4, <2>2, <2>4, <2>5, <2>8, <4>1
      <4>2. CASE m # n
        <5>1. /\ poller[m] = "storing" /\ subscription'[m] = subscription[m]
              /\ Find(table, subscription[m]) = {}
              /\ \A k \in Nodes : Subscribed(k) => subscription[k] # subscription[m]
          BY <2>3, <3>1, <4>2 DEF ApartInv, QueriesHold
        <5> QED
          BY <2>2, <2>4, <2>5, <5>1
      <4> QED
        BY <4>1, <4>2
    <3>2. \A m \in Nodes : joiner'[m] = "storing" =>
            AtMostOne(Find(table', joinRecord'[m].subscriptionId))
      BY <1>1, <2>2 DEF ApartInv, QueriesHold, AtMostOne
    <3> QED
      BY <3>1, <3>2 DEF QueriesHold
  <2>10. NoThird'
    BY <2>2 DEF ApartInv, NoThird, AtMostTwo
  <2>11. IdsAreUnique'
    BY <2>4, <2>5 DEF ApartInv, IdsAreUnique
  <2> QED
    BY <2>6, <2>7, <2>9, <2>10, <2>11 DEF ApartInv
<1> QED
  BY <1>3, <1>4

\* What a store does to what is found of an id.
LEMMA FindStored ==
  ASSUME NEW S, NEW x, NEW id
  PROVE  /\ x.subscriptionId # id => Find(Stored(S, x), id) \subseteq Find(S, id)
         /\ Find(Stored(S, x), id) \subseteq Find(S, id) \cup {x}
BY DEF Find, Stored

LEMMA SubscribeStoreApart ==
  ASSUME TypeInv, ApartInv, OneHandlerAtATime, NEW n \in Nodes, SubscribeStore(n)
  PROVE  ApartInv'
<1> DEFINE id == subscription[n]
<1>1. PICK x : x = [subscriptionId |-> id, creationUnix |-> id[2], source |-> n]
  OBVIOUS
<1>2. /\ poller[n] = "storing" /\ table' = Stored(table, x) /\ now' = now
      /\ poller' = [poller EXCEPT ![n] = "check"] /\ subscription' = subscription
      /\ joiner' = joiner /\ joinRecord' = joinRecord
      /\ poller \in [Nodes -> PollerStates]
      /\ id \in SubscriptionIds
  BY <1>1 DEF SubscribeStore, joinVars, TypeInv, TypeOK, IdKnown
<1>3. x.subscriptionId = id /\ x.creationUnix = id[2] /\ x \in table'
  BY <1>1, <1>2 DEF Stored
<1>4. /\ Subscribed(n)' /\ poller'[n] # "storing"
      /\ \A m \in Nodes \ {n} : (Subscribed(m)' <=> Subscribed(m)) /\ poller'[m] = poller[m]
  BY <1>2 DEF Subscribed
<1>5. /\ Find(table, id) = {}
      /\ \A m \in Nodes : Subscribed(m) => subscription[m] # id
  BY <1>2 DEF ApartInv, QueriesHold
\* No other handler is about to store a record of id.
<1>6. \A m \in Nodes \ {n} : /\ poller[m] = "storing" => subscription[m] # id
                             /\ joiner[m] = "storing" => joinRecord[m].subscriptionId # id
  BY <1>2 DEF OneHandlerAtATime, Stores
<1>7. joiner[n] = "storing" => joinRecord[n].subscriptionId # id
  BY <1>5 DEF ApartInv, JoinsGiven
<1>8. JoinsGiven'
  BY <1>2, <1>4 DEF ApartInv, JoinsGiven
<1>9. GivenNow'
  <2> SUFFICES ASSUME NEW m \in Nodes, Subscribed(m)', subscription[m][2] = now
               PROVE  \E r \in table' : r.subscriptionId = subscription[m] /\ r.creationUnix = now
    BY <1>2 DEF GivenNow
  <2>1. CASE m = n
    BY <1>3, <2>1
  <2>2. CASE m # n
    <3>1. PICK r \in table : r.subscriptionId = subscription[m] /\ r.creationUnix = now
      BY <1>4, <2>2 DEF ApartInv, GivenNow
    <3>2. \A y : \E s \in Stored(table, y) :
            s.subscriptionId = r.subscriptionId /\ s.creationUnix = r.creationUnix
      BY <3>1, FreshSurvives
    <3> QED
      BY <1>2, <3>1, <3>2
  <2> QED
    BY <2>1, <2>2
<1>10. \A i : /\ i # id => Find(table', i) \subseteq Find(table, i)
              /\ Find(table', id) \subseteq {x}
  BY <1>2, <1>3, <1>5, FindStored
<1>11. QueriesHold'
  <2>1. ASSUME NEW m \in Nodes, poller'[m] = "storing"
        PROVE  /\ Find(table', subscription[m]) = {}
               /\ \A k \in Nodes : Subscribed(k)' => subscription[k] # subscription[m]
    <3>1. m # n /\ poller[m] = "storing" /\ subscription[m] # id
      BY <1>4, <1>6, <2>1
    <3>2. /\ Find(table, subscription[m]) = {}
          /\ \A k \in Nodes : Subscribed(k) => subscription[k] # subscription[m]
      BY <3>1 DEF ApartInv, QueriesHold
    <3>3. Find(table', subscription[m]) = {}
      BY <1>10, <3>1, <3>2
    <3> QED
      BY <1>4, <3>1, <3>2, <3>3
  <2>2. ASSUME NEW m \in Nodes, joiner[m] = "storing"
        PROVE  AtMostOne(Find(table', joinRecord[m].subscriptionId))
    <3>1. joinRecord[m].subscriptionId # id
      BY <1>6, <1>7, <2>2
    <3>2. AtMostOne(Find(table, joinRecord[m].subscriptionId))
      BY <2>2 DEF ApartInv, QueriesHold
    <3> QED
      BY <1>10, <3>1, <3>2 DEF AtMostOne
  <2> QED
    BY <1>2, <2>1, <2>2 DEF QueriesHold
<1>12. NoThird'
  <2> SUFFICES ASSUME NEW i PROVE AtMostTwo(Find(table', i))
    BY DEF NoThird
  <2>1. CASE i = id
    BY <1>10, <2>1 DEF AtMostTwo
  <2>2. CASE i # id
    BY <1>10, <2>2 DEF ApartInv, NoThird, AtMostTwo
  <2> QED
    BY <2>1, <2>2
<1>13. IdsAreUnique'
  BY <1>2, <1>4, <1>5 DEF ApartInv, IdsAreUnique
<1> QED
  BY <1>8, <1>9, <1>11, <1>12, <1>13 DEF ApartInv

LEMMA JoinApart ==
  ASSUME TypeInv, ApartInv, NEW n \in Nodes, Join(n)
  PROVE  ApartInv'
<1> DEFINE id == subscription[Enters[n]]
           found == Find(table', id)
<1>1. /\ joiner[n] = "join" /\ table' = Cleaned(table) /\ now' = now
      /\ poller' = poller /\ subscription' = subscription
      /\ joiner \in [Nodes -> {"waiting", "join", "storing", "get", "got", "done"}]
      /\ joinRecord \in [Nodes -> Records \cup {None}]
  BY DEF Join, pollVars, TypeInv, TypeOK
<1>2. /\ \A m \in Nodes : Subscribed(m)' <=> Subscribed(m)
      /\ Enters[n] \in Nodes /\ Subscribed(Enters[n])
  BY <1>1 DEF Subscribed, ApartInv, JoinsGiven
<1>3. \/ joiner' = [joiner EXCEPT ![n] = "get"] /\ joinRecord' = joinRecord
      \/ /\ Cardinality(found) = 1
         /\ joiner' = [joiner EXCEPT ![n] = "storing"]
         /\ joinRecord' = [joinRecord EXCEPT ![n] =
                             [subscriptionId |-> id, creationUnix |-> now, source |-> n]]
  BY DEF Join
<1>4. CASE joiner' = [joiner EXCEPT ![n] = "get"] /\ joinRecord' = joinRecord
  <2>1. \A m \in Nodes :
          /\ joiner'[m] \in {"join", "storing"} => Enters[m] \in Nodes /\ Subscribed(Enters[m])
          /\ joiner'[m] = "storing" => joiner[m] = "storing" /\ joinRecord'[m] = joinRecord[m]
    BY <1>1, <1>4 DEF ApartInv, JoinsGiven
  <2> QED
    BY <1>1, <1>2, <2>1, OtherStepsApart
<1>5. CASE /\ Cardinality(found) = 1
           /\ joiner' = [joiner EXCEPT ![n] = "storing"]
           /\ joinRecord' = [joinRecord EXCEPT ![n] =
                               [subscriptionId |-> id, creationUnix |-> now, source |-> n]]
  <2>1. /\ joinRecord'[n].subscriptionId = id
        /\ \A m \in Nodes \ {n} : joiner'[m] = joiner[m] /\ joinRecord'[m] = joinRecord[m]
    BY <1>1, <1>5
\* The rest is as if nothing but the cleanup had happened.
  <2>2. table' \subseteq table /\ \A i : Find(table', i) \subseteq Find(table, i)
    BY <1>1, CleanedFewer DEF Find
  <2>3. AtMostOne(found)
    <3>1. AtMostTwo(found)
      BY <2>2 DEF ApartInv, NoThird, AtMostTwo
    <3> HIDE DEF found
    <3> QED
      BY <1>5, <3>1, OneElement
  <2>4. JoinsGiven'
    BY <1>1, <1>2, <2>1 DEF ApartInv, JoinsGiven
  <2>5. GivenNow'
    <3> SUFFICES ASSUME NEW m \in Nodes, Subscribed(m), subscription[m][2] = now
                 PROVE  \E r \in table' : r.subscriptionId = subscription[m] /\ r.creationUnix = now
      BY <1>1, <1>2 DEF GivenNow
    <3>1. PICK r \in table : r.subscriptionId = subscription[m] /\ r.creationUnix = now
      BY DEF ApartInv, GivenNow
    <3> QED
      BY <1>1, <3>1, FreshSurvives
  <2>6. QueriesHold'
    <3>1. ASSUME NEW m \in Nodes, joiner'[m] = "storing"
          PROVE  AtMostOne(Find(table', joinRecord'[m].subscriptionId))
      <4>1. CASE m = n
        BY <2>1, <2>3, <4>1
      <4>2. CASE m # n
        BY <2>1, <2>2, <3>1, <4>2 DEF ApartInv, QueriesHold, AtMostOne
      <4> QED
        BY <4>1, <4>2
    <3>2. ASSUME NEW m \in Nodes, poller[m] = "storing"
          PROVE  /\ Find(table', subscription[m]) = {}
                 /\ \A k \in Nodes : Subscribed(k) => subscription[k] # subscription[m]
      BY <2>2, <3>2 DEF ApartInv, QueriesHold
    <3> QED
      BY <1>1, <1>2, <3>1, <3>2 DEF QueriesHold
  <2>7. NoThird'
    BY <2>2 DEF ApartInv, NoThird, AtMostTwo
  <2>8. IdsAreUnique'
    BY <1>1, <1>2 DEF ApartInv, IdsAreUnique
  <2> QED
    BY <2>4, <2>5, <2>6, <2>7, <2>8 DEF ApartInv
<1> QED
  BY <1>3, <1>4, <1>5

LEMMA JoinStoreApart ==
  ASSUME TypeInv, ApartInv, OneHandlerAtATime, NEW n \in Nodes, JoinStore(n)
  PROVE  ApartInv'
<1>1. PICK x : x = joinRecord[n]
  OBVIOUS
<1>2. PICK id : id = x.subscriptionId
  OBVIOUS
<1>3. /\ joiner[n] = "storing" /\ table' = Stored(table, x) /\ now' = now
      /\ poller' = poller /\ subscription' = subscription
      /\ joiner \in [Nodes -> {"waiting", "join", "storing", "get", "got", "done"}]
      /\ joinRecord \in [Nodes -> Records \cup {None}] /\ x \in Records
      /\ joiner' = [joiner EXCEPT ![n] = "get"]
      /\ joinRecord' = [joinRecord EXCEPT ![n] = None]
  BY <1>1 DEF JoinStore, pollVars, TypeInv, TypeOK, RecordKnown
<1>4. id \in SubscriptionIds
  BY <1>2, <1>3 DEF Records
<1>5. /\ \A m \in Nodes : Subscribed(m)' <=> Subscribed(m)
      /\ joiner'[n] = "get"
      /\ \A m \in Nodes \ {n} : joiner'[m] = joiner[m] /\ joinRecord'[m] = joinRecord[m]
  BY <1>3 DEF Subscribed
<1>6. /\ Enters[n] \in Nodes /\ Subscribed(Enters[n]) /\ subscription[Enters[n]] = id
      /\ AtMostOne(Find(table, id))
  BY <1>1, <1>2, <1>3 DEF ApartInv, JoinsGiven, QueriesHold
<1>7. \A m \in Nodes \ {n} : joiner[m] = "storing" => joinRecord[m].subscriptionId # id
  BY <1>1, <1>2, <1>3, <1>4 DEF OneHandlerAtATime, Stores
<1>8. \A m \in Nodes : poller[m] = "storing" => subscription[m] # id
  BY <1>6 DEF ApartInv, QueriesHold
<1>9. /\ \A i : i # id => Find(table', i) \subseteq Find(table, i)
      /\ Find(table', id) \subseteq Find(table, id) \cup {x}
  BY <1>2, <1>3, FindStored
<1>10. JoinsGiven'
  BY <1>3, <1>5 DEF ApartInv, JoinsGiven
<1>11. GivenNow'
  <2> SUFFICES ASSUME NEW m \in Nodes, Subscribed(m), subscription[m][2] = now
               PROVE  \E r \in table' : r.subscriptionId = subscription[m] /\ r.creationUnix = now
    BY <1>3, <1>5 DEF GivenNow
  <2>1. PICK r \in table : r.subscriptionId = subscription[m] /\ r.creationUnix = now
    BY DEF ApartInv, GivenNow
  <2>2. \A y : \E s \in Stored(table, y) :
          s.subscriptionId = r.subscriptionId /\ s.creationUnix = r.creationUnix
    BY <2>1, FreshSurvives
  <2> QED
    BY <1>3, <2>1, <2>2
<1>12. QueriesHold'
  <2>1. ASSUME NEW m \in Nodes, poller[m] = "storing"
        PROVE  /\ Find(table', subscription[m]) = {}
               /\ \A k \in Nodes : Subscribed(k) => subscription[k] # subscription[m]
    <3>1. /\ Find(table, subscription[m]) = {}
          /\ \A k \in Nodes : Subscribed(k) => subscription[k] # subscription[m]
      BY <2>1 DEF ApartInv, QueriesHold
    <3>2. subscription[m] # id
      BY <1>8, <2>1
    <3> QED
      BY <1>9, <3>1, <3>2
  <2>2. ASSUME NEW m \in Nodes, joiner'[m] = "storing"
        PROVE  AtMostOne(Find(table', joinRecord'[m].subscriptionId))
    <3>1. /\ m # n /\ joiner[m] = "storing" /\ joinRecord'[m] = joinRecord[m]
          /\ joinRecord[m].subscriptionId # id
      BY <1>5, <1>7, <2>2
    <3>2. AtMostOne(Find(table, joinRecord[m].subscriptionId))
      BY <3>1 DEF ApartInv, QueriesHold
    <3> QED
      BY <1>9, <3>1, <3>2 DEF AtMostOne
  <2> QED
    BY <1>3, <1>5, <2>1, <2>2 DEF QueriesHold
<1>13. NoThird'
  <2> SUFFICES ASSUME NEW i PROVE AtMostTwo(Find(table', i))
    BY DEF NoThird
  <2>1. CASE i = id
    BY <1>6, <1>9, <2>1 DEF AtMostOne, AtMostTwo
  <2>2. CASE i # id
    BY <1>9, <2>2 DEF ApartInv, NoThird, AtMostTwo
  <2> QED
    BY <2>1, <2>2
<1>14. IdsAreUnique'
  BY <1>3, <1>5 DEF ApartInv, IdsAreUnique
<1> QED
  BY <1>10, <1>11, <1>12, <1>13, <1>14 DEF ApartInv

LEMMA PollingApart ==
  ASSUME TypeInv, ApartInv, NEW n \in Nodes, Polling(n)
  PROVE  ApartInv'
<1>1. /\ now' = now /\ subscription' = subscription
      /\ table' = table \/ table' = Cleaned(table)
      /\ joiner' = joiner /\ joinRecord' = joinRecord
  BY DEF Polling, PollEnds, Poll, PollFails, PollPanics, PollExpired, PollPaired, PollAgain, Take,
         joinVars
<1>2. \A m \in Nodes : /\ Subscribed(m)' <=> Subscribed(m)
                       /\ poller'[m] = "storing" => poller[m] = "storing"
  BY DEF Polling, PollEnds, Poll, PollFails, PollPanics, PollExpired, PollPaired, PollAgain, Take,
         Subscribed, TypeInv, TypeOK, PollerStates
<1>3. \A m \in Nodes :
        joiner[m] \in {"join", "storing"} => Enters[m] \in Nodes /\ Subscribed(Enters[m])
  BY DEF ApartInv, JoinsGiven
<1> QED
  BY <1>1, <1>2, <1>3, OtherStepsApart

LEMMA JoiningApart ==
  ASSUME TypeInv, ApartInv, NEW n \in Nodes,
         \/ Enter(n) \/ JoinServiceFails(n) \/ JoinGet(n) \/ JoinDecides(n) \/ JoinFails(n)
  PROVE  ApartInv'
<1>1. /\ now' = now /\ subscription' = subscription /\ poller' = poller
      /\ table' = table \/ table' = Cleaned(table)
  BY DEF Enter, JoinServiceFails, JoinGet, JoinDecides, JoinFails, pollVars
<1>2. \A m \in Nodes : /\ Subscribed(m)' <=> Subscribed(m)
                       /\ poller'[m] = "storing" => poller[m] = "storing"
  BY <1>1 DEF Subscribed
<1>3. \A m \in Nodes :
        /\ joiner'[m] \in {"join", "storing"} => Enters[m] \in Nodes /\ Subscribed(Enters[m])
        /\ joiner'[m] = "storing" => joiner[m] = "storing" /\ joinRecord'[m] = joinRecord[m]
  <2>1. \A m \in Nodes :
          joiner[m] \in {"join", "storing"} => Enters[m] \in Nodes /\ Subscribed(Enters[m])
    BY DEF ApartInv, JoinsGiven
  <2>2. CASE Enter(n)
    BY <2>1, <2>2, RendezvousAssumption DEF Enter, TypeInv, TypeOK
  <2>3. CASE JoinServiceFails(n) \/ JoinGet(n) \/ JoinDecides(n) \/ JoinFails(n)
    BY <2>1, <2>3 DEF JoinServiceFails, JoinGet, JoinDecides, JoinFails, TypeInv, TypeOK
  <2> QED
    BY <2>2, <2>3
<1> QED
  BY <1>1, <1>2, <1>3, OtherStepsApart

LEMMA TickApart ==
  ASSUME TypeInv, IdsInv, ApartInv, Tick
  PROVE  ApartInv'
<1>1. /\ now \in Nat /\ now' = now + 1 /\ table' = table /\ subscription' = subscription
      /\ joiner' = joiner /\ joinRecord' = joinRecord
  BY RendezvousAssumption DEF Tick, joinVars, TypeInv, TypeOK, Times
<1>2. \A m \in Nodes : /\ Subscribed(m)' <=> Subscribed(m)
                       /\ poller'[m] = "storing" => poller[m] = "storing"
  BY DEF Tick, Subscribed, TypeInv, TypeOK
<1>3. GivenNow'
  <2> SUFFICES ASSUME NEW n \in Nodes, Subscribed(n), subscription[n][2] = now + 1
               PROVE  FALSE
    BY <1>1, <1>2 DEF GivenNow
  <2>1. subscription[n] # None
    BY DEF TypeInv, IdKnown, Subscribed
  <2>2. subscription[n][2] <= now
    BY <2>1 DEF IdsInv
  <2> QED
    BY <1>1, <2>2
<1>4. JoinsGiven' /\ NoThird' /\ IdsAreUnique'
  BY <1>1, <1>2 DEF ApartInv, JoinsGiven, NoThird, IdsAreUnique
<1>5. QueriesHold'
  BY <1>1, <1>2 DEF ApartInv, QueriesHold
<1> QED
  BY <1>3, <1>4, <1>5 DEF ApartInv

LEMMA NextApartInv ==
  ASSUME TypeInv, IdsInv, ApartInv, OneHandlerAtATime, OneHandlerAtATime', [Next]_vars
  PROVE  ApartInv'
<1>1. CASE Tick
  BY <1>1, TickApart
<1>2. ASSUME NEW n \in Nodes, Subscribe(n)
      PROVE  ApartInv'
  BY <1>2, SubscribeFindApart, SubscribeStoreApart DEF Subscribe
<1>3. ASSUME NEW n \in Nodes, Polling(n)
      PROVE  ApartInv'
  BY <1>3, PollingApart
<1>4. ASSUME NEW n \in Nodes, Joining(n)
      PROVE  ApartInv'
  BY <1>4, JoinApart, JoinStoreApart, JoiningApart DEF Joining
<1>5. CASE UNCHANGED vars
  <2>1. /\ now' = now /\ subscription' = subscription /\ poller' = poller /\ table' = table
        /\ joiner' = joiner /\ joinRecord' = joinRecord
    BY <1>5 DEF vars, pollVars, joinVars
  <2> QED
    BY <2>1
    DEF ApartInv, JoinsGiven, GivenNow, QueriesHold, NoThird, IdsAreUnique, Subscribed
<1> QED
  BY <1>1, <1>2, <1>3, <1>4, <1>5 DEF Next

LEMMA ApartInvariant == Spec /\ []OneHandlerAtATime => [](TypeInv /\ ApartInv)
<1>1. Init => IdsInv
  BY DEF Init, IdsInv
<1>2. /\ TypeInv /\ IdsInv /\ ApartInv /\ OneHandlerAtATime /\ OneHandlerAtATime' /\ [Next]_vars
      => TypeInv' /\ IdsInv' /\ ApartInv'
  BY NextKeepsTypes, IdsStep, NextApartInv
<1> QED
  BY <1>1, <1>2, InitTypeInv, InitApartInv, PTL DEF Spec

\* What the service lacks is a store on condition that nothing has been stored since
\* its query (join_handler.go:40, subscription_handler.go:44). If no two handlers are
\* between query and store of one id at a time, every subscription has one pair at
\* most and every id is one program's, whichever programs enter an id or share an
\* address, whatever requests fail and however late the records expire.
THEOREM OnePairWithoutOverlap ==
  Spec /\ []OneHandlerAtATime => [](OnePair /\ IdsAreUnique)
<1>1. ApartInv => OnePair
  BY TwoAtMost DEF ApartInv, NoThird, OnePair
<1>2. ApartInv => IdsAreUnique
  BY DEF ApartInv
<1> QED
  BY <1>1, <1>2, ApartInvariant, PTL

\* Then nobody takes another program for itself either, if no id is entered twice: a
\* program that is refused a pair goes on with the two records of others.
THEOREM SourceIsSelfWithoutOverlap ==
  ASSUME EnteredOnce
  PROVE  Spec /\ []OneHandlerAtATime => []SourceIsSelf
BY OnePairWithoutOverlap, SourceIsSelfHolds, PTL

=============================================================================
