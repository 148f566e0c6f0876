----------------------------- MODULE Rendezvous -----------------------------
(***************************************************************************)
(* How two programs find each other: the handlers of the STUN-like service *)
(* (subscribe, check subscription, join) over their table of records, and  *)
(* get_peers in the programs that call them.                               *)
(*                                                                         *)
(* Handlers run concurrently: between the query of subscribe or join and   *)
(* the store that follows it, others read and write the table. Between a   *)
(* handler's answer and its use by the program, others run too.            *)
(***************************************************************************)
EXTENDS Naturals, FiniteSets

CONSTANTS
  Nodes,      \* programs, each with an address and a port of its own
  Addresses,
  AddressOf,  \* AddressOf[n]: the address of n, perhaps shared with another
  Enters,     \* Enters[n]: the node whose subscription id is entered at n
  None,       \* no node, no id, nothing
  TTL,        \* seconds after which a record is removed (60 in the code)
  MaxTime,    \* seconds a run lasts
  Prompt,     \* TRUE: every request is answered and handled within its second
  HttpFails   \* TRUE: a request may fail

Times == 0..MaxTime

\* A subscription id is a checksum of the address and the second, not the port.
SubscriptionIds == Addresses \X Times
Records == [subscriptionId : SubscriptionIds, creationUnix : Times, source : Nodes]
Pairs == [source : Nodes, dest : Nodes]

ASSUME RendezvousAssumption ==
  /\ AddressOf \in [Nodes -> Addresses]
  /\ Enters \in [Nodes -> Nodes \cup {None}]
  /\ None \notin Nodes \cup SubscriptionIds \cup Records \cup Pairs
  /\ TTL \in Nat \ {0}
  /\ MaxTime \in Nat
  /\ Prompt \in BOOLEAN
  /\ HttpFails \in BOOLEAN

-----------------------------------------------------------------------------
VARIABLES
  now,          \* the clock, in seconds
  table,        \* the records
  subscription, \* the id a node has been given, or computed for it and not stored
  poller,       \* get_peers: its loop
  pollReply,    \*   the records the last poll was answered with
  joiner,       \*   the task that joins the entered subscription
  joinRecord,   \*   the record the join handler is about to store
  joinReply,    \*   the records that task was answered with
  refused,      \*   the join was answered with 403
  peers,        \*   (source, dest), once known
  error,        \*   an error has been noted
  decision      \* what get_peers returned: None unless it was peers

pollVars == <<subscription, poller, pollReply>>
joinVars == <<joiner, joinRecord, joinReply, refused>>
resultVars == <<peers, error, decision>>
vars == <<now, table, pollVars, joinVars, resultVars>>

\* panicked, without a subscription; take, get_peers is about to take the peers;
\* crashed, an answer to a poll could not be parsed.
PollerStates ==
  {"start", "storing", "panicked", "check", "asked", "tick", "take", "done", "crashed"}

TypeOK ==
  /\ now \in Times
  /\ table \subseteq Records
  /\ \A r, s \in table :
       r.subscriptionId = s.subscriptionId /\ r.creationUnix = s.creationUnix => r = s
  /\ subscription \in [Nodes -> SubscriptionIds \cup {None}]
  /\ poller \in [Nodes -> PollerStates]
  /\ pollReply \in [Nodes -> SUBSET Records]
  /\ joiner \in [Nodes -> {"waiting", "join", "storing", "get", "got", "done"}]
  /\ joinRecord \in [Nodes -> Records \cup {None}]
  /\ joinReply \in [Nodes -> SUBSET Records]
  /\ refused \in [Nodes -> BOOLEAN]
  /\ peers \in [Nodes -> Pairs \cup {None}]
  /\ error \in [Nodes -> BOOLEAN]
  /\ decision \in [Nodes -> Pairs \cup {None}]

Init ==
  /\ now = 0
  /\ table = {}
  /\ subscription = [n \in Nodes |-> None]
  /\ poller = [n \in Nodes |-> "start"]
  /\ pollReply = [n \in Nodes |-> {}]
  /\ joiner = [n \in Nodes |-> "waiting"]
  /\ joinRecord = [n \in Nodes |-> None]
  /\ joinReply = [n \in Nodes |-> {}]
  /\ refused = [n \in Nodes |-> FALSE]
  /\ peers = [n \in Nodes |-> None]
  /\ error = [n \in Nodes |-> FALSE]
  /\ decision = [n \in Nodes |-> None]

-----------------------------------------------------------------------------
(***************************************************************************)
(* The table.                                                              *)
(***************************************************************************)

\* cleanup, at the start of every handler: records TTL seconds old go.
Cleaned(records) == {r \in records : r.creationUnix + TTL > now}

Find(records, id) == {r \in records : r.subscriptionId = id}

\* storeRecord: an item with the same key, id and second, is replaced.
AddsItem(records, record) == records \cup {record}  \* mutant of Stored
Stored(records, record) ==
  {r \in records : r.subscriptionId # record.subscriptionId
                     \/ r.creationUnix # record.creationUnix} \cup {record}

\* The order of a query's result is that of the sort key, creation_unix.
Oldest(records) == CHOOSE r \in records : \A s \in records : r.creationUnix <= s.creationUnix
PeerA(records) == Oldest(records).source
PeerB(records) == Oldest(records \ {Oldest(records)}).source

-----------------------------------------------------------------------------
(***************************************************************************)
(* Subscribing. An answer other than the id, 409 of a conflict included,   *)
(* cannot be parsed: the program panics.                                   *)
(***************************************************************************)
SubscribeFind(n) ==
  /\ poller[n] = "start"
  /\ table' = Cleaned(table)
  /\ LET id == <<AddressOf[n], now>>
     IN IF Find(table', id) = {}
        THEN /\ subscription' = [subscription EXCEPT ![n] = id]
             /\ poller' = [poller EXCEPT ![n] = "storing"]
        ELSE /\ poller' = [poller EXCEPT ![n] = "panicked"]
             /\ UNCHANGED subscription
  /\ UNCHANGED <<now, pollReply, joinVars, resultVars>>

SubscribeStore(n) ==
  /\ poller[n] = "storing"
  /\ LET id == subscription[n]
     IN table' = Stored(table, [subscriptionId |-> id, creationUnix |-> id[2], source |-> n])
  /\ poller' = [poller EXCEPT ![n] = "check"]
  /\ UNCHANGED <<now, subscription, pollReply, joinVars, resultVars>>

Subscribed(n) == poller[n] \notin {"start", "storing", "panicked"}

-----------------------------------------------------------------------------
(***************************************************************************)
(* get_peers: the polling loop.                                            *)
(***************************************************************************)

PollEnds(n) ==
  /\ poller[n] = "check"
  /\ peers[n] # None \/ error[n]
  /\ poller' = [poller EXCEPT ![n] = "take"]
  /\ UNCHANGED <<now, table, subscription, pollReply, joinVars, resultVars>>

Poll(n) ==
  /\ poller[n] = "check"
  /\ peers[n] = None /\ ~error[n]
  /\ table' = Cleaned(table)
  /\ pollReply' = [pollReply EXCEPT ![n] = Find(table', subscription[n])]
  /\ poller' = [poller EXCEPT ![n] = "asked"]
  /\ UNCHANGED <<now, subscription, joinVars, resultVars>>

PollFails(n) ==
  /\ HttpFails
  /\ poller[n] = "check"
  /\ peers[n] = None /\ ~error[n]
  /\ poller' = [poller EXCEPT ![n] = "tick"]
  /\ error' = [error EXCEPT ![n] = TRUE]
  /\ UNCHANGED <<now, table, subscription, pollReply, joinVars, peers, decision>>

\* The service has failed: its answer is a status nobody looks at and a text that
\* is no answer. get_peers panics; what it has spawned may go on.
PollPanics(n) ==
  /\ HttpFails
  /\ poller[n] = "check"
  /\ peers[n] = None /\ ~error[n]
  /\ poller' = [poller EXCEPT ![n] = "crashed"]
  /\ UNCHANGED <<now, table, subscription, pollReply, joinVars, resultVars>>

PollExpired(n) ==
  /\ poller[n] = "asked"
  /\ pollReply[n] = {}
  /\ error' = [error EXCEPT ![n] = TRUE]
  /\ poller' = [poller EXCEPT ![n] = "take"]
  /\ UNCHANGED <<now, table, subscription, pollReply, joinVars, peers, decision>>

MoreThanOne(records) == Cardinality(records) > 2  \* mutant of IsPair
IsPair(records) == Cardinality(records) = 2

AsPolled(records) == [source |-> PeerA(records), dest |-> PeerB(records)]

PollPaired(n) ==
  /\ poller[n] = "asked"
  /\ IsPair(pollReply[n])
  /\ peers' = [peers EXCEPT ![n] = AsPolled(pollReply[n])]
  /\ poller' = [poller EXCEPT ![n] = "take"]
  /\ UNCHANGED <<now, table, subscription, pollReply, joinVars, error, decision>>

PollAgain(n) ==
  /\ poller[n] = "asked"
  /\ pollReply[n] # {}
  /\ ~IsPair(pollReply[n])
  /\ poller' = [poller EXCEPT ![n] = "tick"]
  /\ UNCHANGED <<now, table, subscription, pollReply, joinVars, resultVars>>

\* get_peers takes the peers there are by then, or else the error, and returns it.
Take(n) ==
  /\ poller[n] = "take"
  /\ decision' = [decision EXCEPT ![n] = peers[n]]
  /\ peers' = [peers EXCEPT ![n] = None]
  /\ error' = [error EXCEPT ![n] = @ /\ peers[n] # None]
  /\ poller' = [poller EXCEPT ![n] = "done"]
  /\ UNCHANGED <<now, table, subscription, pollReply, joinVars>>

-----------------------------------------------------------------------------
(***************************************************************************)
(* get_peers: the task that joins. It runs on when get_peers has returned. *)
(***************************************************************************)

\* The id is entered; it is of no use any more if there are peers or an error, and
\* is used all the same once get_peers has taken them.
Enter(n) ==
  /\ joiner[n] = "waiting"
  /\ Subscribed(n)
  /\ Enters[n] # None
  /\ Subscribed(Enters[n])
  /\ joiner' = [joiner EXCEPT ![n] =
                  IF peers[n] # None \/ error[n] THEN "done" ELSE "join"]
  /\ UNCHANGED <<now, table, pollVars, joinRecord, joinReply, refused, resultVars>>

\* joinHandler up to its query. The status of its answer is not looked at.
Join(n) ==
  /\ joiner[n] = "join"
  /\ table' = Cleaned(table)
  /\ LET id == subscription[Enters[n]]
         found == Find(table', id)
         sources == {r.source : r \in found}
     IN /\ refused' = [refused EXCEPT ![n] = Cardinality(found) > 1 /\ n \notin sources]
        /\ IF Cardinality(found) = 1 /\ n \notin sources
           THEN /\ joiner' = [joiner EXCEPT ![n] = "storing"]
                /\ joinRecord' = [joinRecord EXCEPT ![n] =
                     [subscriptionId |-> id, creationUnix |-> now, source |-> n]]
           ELSE /\ joiner' = [joiner EXCEPT ![n] = "get"]
                /\ UNCHANGED joinRecord
  /\ UNCHANGED <<now, pollVars, joinReply, resultVars>>

JoinStore(n) ==
  /\ joiner[n] = "storing"
  /\ table' = Stored(table, joinRecord[n])
  /\ joinRecord' = [joinRecord EXCEPT ![n] = None]
  /\ joiner' = [joiner EXCEPT ![n] = "get"]
  /\ UNCHANGED <<now, pollVars, joinReply, refused, resultVars>>

\* The service fails before it has stored: nobody looks at the status.
JoinServiceFails(n) ==
  /\ HttpFails
  /\ joiner[n] \in {"join", "storing"}
  /\ joiner' = [joiner EXCEPT ![n] = "get"]
  /\ joinRecord' = [joinRecord EXCEPT ![n] = None]
  /\ UNCHANGED <<now, table, pollVars, joinReply, refused, resultVars>>

JoinGet(n) ==
  /\ joiner[n] = "get"
  /\ table' = Cleaned(table)
  /\ joinReply' = [joinReply EXCEPT ![n] = Find(table', subscription[Enters[n]])]
  /\ joiner' = [joiner EXCEPT ![n] = "got"]
  /\ UNCHANGED <<now, pollVars, joinRecord, refused, resultVars>>

\* The newer of the two records is taken to be one's own.
AsThePoller(records) == AsPolled(records)  \* mutant of AsJoined
AsJoined(records) == [source |-> PeerB(records), dest |-> PeerA(records)]

JoinDecides(n) ==
  /\ joiner[n] = "got"
  /\ IF Cardinality(joinReply[n]) < 2
     THEN error' = [error EXCEPT ![n] = TRUE] /\ UNCHANGED peers
     ELSE peers' = [peers EXCEPT ![n] = AsJoined(joinReply[n])] /\ UNCHANGED error
  /\ joiner' = [joiner EXCEPT ![n] = "done"]
  /\ UNCHANGED <<now, table, pollVars, joinRecord, joinReply, refused, decision>>

\* A request fails or its answer cannot be parsed: the task panics. What its join
\* has stored stays.
JoinFails(n) ==
  /\ HttpFails
  /\ joiner[n] \in {"join", "get", "got"}
  /\ joiner' = [joiner EXCEPT ![n] = "done"]
  /\ UNCHANGED <<now, table, pollVars, joinRecord, joinReply, refused, resultVars>>

-----------------------------------------------------------------------------
(***************************************************************************)
(* Time. A tick of the clock is one of every polling interval.             *)
(***************************************************************************)
Busy(n) ==
  poller[n] \in {"storing", "check", "asked", "take"} \/ joiner[n] \notin {"waiting", "done"}

Tick ==
  /\ now < MaxTime
  /\ Prompt => \A n \in Nodes : ~Busy(n)
  /\ now' = now + 1
  /\ poller' = [n \in Nodes |-> IF poller[n] = "tick" THEN "check" ELSE poller[n]]
  /\ UNCHANGED <<table, subscription, pollReply, joinVars, resultVars>>

-----------------------------------------------------------------------------
Subscribe(n) == SubscribeFind(n) \/ SubscribeStore(n)
Polling(n) ==
  \/ PollEnds(n) \/ Poll(n) \/ PollFails(n) \/ PollPanics(n)
  \/ PollExpired(n) \/ PollPaired(n) \/ PollAgain(n) \/ Take(n)
Joining(n) ==
  \/ Enter(n) \/ Join(n) \/ JoinStore(n) \/ JoinServiceFails(n)
  \/ JoinGet(n) \/ JoinDecides(n) \/ JoinFails(n)

Next == Tick \/ \E n \in Nodes : Subscribe(n) \/ Polling(n) \/ Joining(n)

Spec == Init /\ [][Next]_vars

\* Requests that are made are answered and time passes; nobody has to start a
\* program or to enter an id.
FairSpec ==
  /\ Spec
  /\ WF_vars(Tick)
  /\ \A n \in Nodes :
       WF_vars(SubscribeStore(n)) /\ WF_vars(Polling(n)) /\ WF_vars(Joining(n) /\ ~Enter(n))

-----------------------------------------------------------------------------
(***************************************************************************)
(* Properties.                                                             *)
(***************************************************************************)

\* get_peers never takes another program's record for its own: the source it
\* returns is the program itself and the destination another one.
SourceIsSelf ==
  \A n \in Nodes : decision[n] # None => decision[n].source = n /\ decision[n].dest # n

Polls(n) == poller[n] \in {"check", "asked", "tick"}

\* The joiner of a live subscription is not left alone: if it sees the pair more
\* than a second before the subscriber's record expires, a subscriber that still
\* polls gets its peers too, unless a request of its own fails first.
NobodyWaitsAlone ==
  \A n \in Nodes :
    LET m == Enters[n]
    IN m # None =>
         ( /\ Cardinality(joinReply[n]) = 2 /\ Polls(m)
           /\ now + 1 < subscription[m][2] + TTL /\ now < MaxTime )
         ~> decision[m] # None \/ (error[m] /\ Polls(m)) \/ poller[m] = "crashed"

\* A program that is told "This subscription already has a pair. Could not
\* join." does not go on to connect. (Does not hold: README, section 4.)
RefusedStaysOut == \A n \in Nodes : refused[n] => peers[n] = None /\ decision[n] = None

\* A program that has its peers joins no other subscription: "already connected!"
\* (Does not hold: README, section 4.)
ConnectedJoinsNoMore ==
  [][\A n \in Nodes : decision[n] # None /\ joiner[n] = "waiting" => joiner'[n] # "join"]_vars

\* A subscription has one pair. (Only while no two of its handlers are between
\* query and store: README, sections 4 and 5.)
OnePair == \A id \in SubscriptionIds : Cardinality(Find(table, id)) <= 2

\* A subscription id is one program's. (Only while no two of its handlers are
\* between query and store: README, sections 4 and 5.)
IdsAreUnique ==
  \A m, n \in Nodes :
    Subscribed(m) /\ Subscribed(n) /\ subscription[m] = subscription[n] => m = n

\* A subscriber is not told that its id conflicts and then fails: "Conflict. Try
\* again." (Does not hold: README, section 4.)
ConflictIsSurvived == \A n \in Nodes : poller[n] # "panicked"

=============================================================================
