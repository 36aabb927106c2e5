------------------------------ MODULE Capture ------------------------------
(***************************************************************************)
(* From the exchange to the event log: the feed (src/services/feed) hands  *)
(* fills to a Kafka producer, the capture service (src/services/capture)   *)
(* consumes the topic and appends each fill to KurrentDB as TradeExecuted, *)
(* in a stream of its own that must not exist yet.                         *)
(*                                                                         *)
(* The consumer runs with enable.auto.commit: a message counts as consumed *)
(* when poll hands it out, and a timer commits that, append or no append.  *)
(* One partition is modelled; partitions do not interact.  Its owner may   *)
(* change while the previous one is still appending.                       *)
(***************************************************************************)
EXTENDS Naturals, Sequences, FiniteSets, SequencesExt

CONSTANTS
    Trades,         \* trade ids the feed may generate
    Consumers,      \* capture processes in the consumer group
    None,           \* nobody, nothing
    MaxCrashes,     \* bound on crashes of capture
    MaxRebalances,  \* bound on takeovers of the partition from a live owner
    MaxResends      \* bound on produce requests the broker sees twice

ASSUME NoneAssumption == None \notin Trades \cup Consumers
ASSUME BoundsAssumption == {MaxCrashes, MaxRebalances, MaxResends} \subseteq Nat

VARIABLES
    buffer,     \* fills the producer has accepted and not yet delivered
    topic,      \* the partition of trades.fills
    committed,  \* the group's committed offset: messages before it are done
    owner,      \* the consumer the partition is assigned to, or None
    position,   \* position[c]: messages c has polled, or skipped as committed
    hand,       \* hand[c]: the fill c has polled and not yet appended, or None
    running,    \* the consumers that are up
    log,        \* the TradeExecuted events of $all, in log order
    crashes, rebalances, resends

feed == <<buffer, resends>>
consumer == <<committed, owner, position, hand, running, rebalances>>
vars == <<buffer, topic, committed, owner, position, hand, running, log,
          crashes, rebalances, resends>>

TypeOK ==
    /\ buffer \in Seq(Trades)
    /\ topic \in Seq(Trades)
    /\ log \in Seq(Trades)
    /\ committed \in 0..Len(topic)
    /\ position \in [Consumers -> 0..Len(topic)]
    /\ owner \in running \cup {None}
    /\ hand \in [Consumers -> Trades \cup {None}]
    /\ running \subseteq Consumers
    /\ crashes \in 0..MaxCrashes
    /\ rebalances \in 0..MaxRebalances
    /\ resends \in 0..MaxResends

Init ==
    /\ buffer = << >>
    /\ topic = << >>
    /\ committed = 0
    /\ owner = None
    /\ position = [c \in Consumers |-> 0]
    /\ hand = [c \in Consumers |-> None]
    /\ running = {}
    /\ log = << >>
    /\ crashes = 0 /\ rebalances = 0 /\ resends = 0

-----------------------------------------------------------------------------
(* The feed.  uuid4 makes every trade id new.                              *)

Produce(t) ==
    /\ t \notin ToSet(buffer) \cup ToSet(topic)
    /\ buffer' = Append(buffer, t)
    /\ UNCHANGED <<topic, consumer, log, crashes, resends>>

\* The producer's background delivery, or flush.
DeliverToTopic ==
    /\ buffer # << >>
    /\ topic' = Append(topic, Head(buffer))
    /\ buffer' = Tail(buffer)
    /\ UNCHANGED <<consumer, log, crashes, resends>>

\* The acknowledgement is lost, and the producer is going to send it again.
ResendToTopic ==
    /\ buffer # << >>
    /\ resends < MaxResends
    /\ topic' = Append(topic, Head(buffer))
    /\ resends' = resends + 1
    /\ UNCHANGED <<buffer, consumer, log, crashes>>

\* produce() is fire and forget: a crash takes the buffered fills with it.
FeedCrash ==
    /\ buffer # << >>
    /\ buffer' = << >>
    /\ UNCHANGED <<topic, consumer, log, crashes, resends>>

-----------------------------------------------------------------------------
(* Capture.                                                                *)

\* main up to the loop: connect to KurrentDB, subscribe to the topic.
Start(c) ==
    /\ c \notin running
    /\ running' = running \cup {c}
    /\ UNCHANGED <<feed, topic, committed, owner, position, hand, log, crashes,
                   rebalances>>

\* The group gives the partition to c, which reads on from the committed offset.
Assign(c) ==
    /\ c \in running
    /\ owner' = c
    /\ position' = [position EXCEPT ![c] = committed]
    /\ UNCHANGED <<feed, topic, committed, hand, running, log, crashes>>

Join(c) ==
    /\ owner = None
    /\ Assign(c)
    /\ UNCHANGED rebalances

\* The owner is alive but too slow to poll: the group takes the partition away.
Rebalance(c) ==
    /\ owner \notin {None, c}
    /\ rebalances < MaxRebalances
    /\ rebalances' = rebalances + 1
    /\ Assign(c)

\* consumer.poll: the message is handed out, and stored as consumed.
Poll(c) ==
    /\ owner = c
    /\ hand[c] = None
    /\ position[c] < Len(topic)
    /\ hand' = [hand EXCEPT ![c] = topic[position[c] + 1]]
    /\ position' = [position EXCEPT ![c] = @ + 1]
    /\ UNCHANGED <<feed, topic, committed, owner, running, log, crashes, rebalances>>

\* Bug: append_to_stream with StreamState.ANY.
AppendAny(c) ==
    /\ hand[c] # None
    /\ log' = Append(log, hand[c])
    /\ hand' = [hand EXCEPT ![c] = None]
    /\ UNCHANGED <<feed, topic, committed, owner, position, running, crashes, rebalances>>

\* Bug: an append that fails with WrongCurrentVersionError is tried again.
RetryExisting(c) ==
    /\ hand[c] \notin ToSet(log) \cup {None}
    /\ log' = Append(log, hand[c])
    /\ hand' = [hand EXCEPT ![c] = None]
    /\ UNCHANGED <<feed, topic, committed, owner, position, running, crashes, rebalances>>

\* append_to_stream with NO_STREAM; WrongCurrentVersionError passes.
AppendToStream(c) ==
    /\ hand[c] # None
    /\ log' = IF hand[c] \in ToSet(log) THEN log ELSE Append(log, hand[c])
    /\ hand' = [hand EXCEPT ![c] = None]
    /\ UNCHANGED <<feed, topic, committed, owner, position, running, crashes, rebalances>>

\* Bug: everything fetched counts as consumed.
CommitFetched ==
    /\ owner # None
    /\ committed' = Len(topic)
    /\ UNCHANGED <<feed, topic, owner, position, hand, running, log, crashes, rebalances>>

\* Bug: the offset after the one that is next.
CommitPastNext ==
    /\ owner # None
    /\ committed' = position[owner] + 1
    /\ UNCHANGED <<feed, topic, owner, position, hand, running, log, crashes, rebalances>>

\* enable.auto.commit: the timer commits what poll has handed out.
AutoCommit ==
    /\ owner # None
    /\ committed' = position[owner]
    /\ UNCHANGED <<feed, topic, owner, position, hand, running, log, crashes, rebalances>>

\* The process dies, or any other error of the append ends main: KurrentDB is
\* down, say.  The fill in hand is gone with it.
Crash(c) ==
    /\ c \in running
    /\ crashes < MaxCrashes
    /\ crashes' = crashes + 1
    /\ running' = running \ {c}
    /\ owner' = IF owner = c THEN None ELSE owner
    /\ hand' = [hand EXCEPT ![c] = None]
    /\ UNCHANGED <<feed, topic, committed, position, log, rebalances>>

-----------------------------------------------------------------------------
Next ==
    \/ \E t \in Trades : Produce(t)
    \/ DeliverToTopic
    \/ ResendToTopic
    \/ FeedCrash
    \/ \E c \in Consumers :
          \/ Start(c)
          \/ Join(c)
          \/ Rebalance(c)
          \/ Poll(c)
          \/ AppendToStream(c)
          \/ Crash(c)
    \/ AutoCommit

Spec == Init /\ [][Next]_vars

\* A process that died is restarted, the group assigns a partition nobody has,
\* and main loops for ever.
Fairness ==
    \A c \in Consumers : /\ WF_vars(Start(c)) /\ WF_vars(Poll(c))
                         /\ WF_vars(AppendToStream(c))
                         /\ WF_vars(owner = None /\ Join(c))

FairSpec == Spec /\ Fairness

-----------------------------------------------------------------------------
(* Properties.                                                             *)

\* A fill is executed once, although the topic may hold it twice, a restart
\* reads it again and two consumers may append it at the same time.
CapturedOnce == \A i, j \in 1..Len(log) : log[i] = log[j] => i = j

\* The stream trade-<t>, as far as capture writes it.
Stream(t) == [i \in 1..Cardinality({j \in 1..Len(log) : log[j] = t}) |-> "TradeExecuted"]

Lifecycle == INSTANCE TradeLifecycle
    WITH Malformed <- {}, streams <- [t \in Trades |-> Stream(t)], posted <- << >>

\* Capture is the first part of a trade's life: every stream begins with one
\* TradeExecuted, and what has been executed stays executed.
ImplementsLifecycle == Lifecycle!Spec

\* The fills the group will not read again and that never reached the log.
Lost ==
    {topic[i] : i \in 1..committed} \ (ToSet(log) \cup {hand[c] : c \in Consumers})

\* How far the fills have been read, whether that is committed or not.
ReadTo == IF owner = None THEN committed ELSE position[owner]
Gone == {topic[i] : i \in 1..ReadTo} \ (ToSet(log) \cup {hand[c] : c \in Consumers})

\* The inductive invariant behind LossBounded: the committed offset never overtakes
\* the reader, and even of what is read and not committed only a crash loses any.
IInv == committed <= ReadTo /\ IsFiniteSet(Gone) /\ Cardinality(Gone) <= crashes

\* A crash of capture loses the fill in hand and no more, and nothing else loses
\* any: not a rebalance, a resend or a duplicate that is passed over.
LossBounded == Cardinality(Lost) <= crashes

\* Every fill in the topic is executed, unless a crash lost it.
ReachesTheLog ==
    \A t \in Trades : t \in ToSet(topic) ~> t \in ToSet(log) \cup Lost

\* "Nothing is lost; fills queue in the trades.fills topic."
NothingLost == Lost = {}
=============================================================================
