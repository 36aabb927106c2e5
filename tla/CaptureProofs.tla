--------------------------- MODULE CaptureProofs ---------------------------
(***************************************************************************)
(* Capture for any trades, consumers and number of crashes, rebalances and *)
(* resends: a fill is executed once, a crash loses at most one, and        *)
(* capture is the first step of TradeLifecycle.                            *)
(***************************************************************************)
EXTENDS Capture, SequenceTheorems, FiniteSetTheorems, TLAPS

-----------------------------------------------------------------------------
(* Sequences.                                                              *)

\* What a message or an event appended at the end leaves as it was.
LEMMA AppendFacts ==
    ASSUME NEW S, NEW s \in Seq(S), NEW x \in S
    PROVE  /\ Append(s, x) \in Seq(S)
           /\ Len(Append(s, x)) = Len(s) + 1
           /\ Len(s) \in Nat
           /\ \A i \in 1..Len(s) : Append(s, x)[i] = s[i]
           /\ Append(s, x)[Len(s) + 1] = x
           /\ ToSet(Append(s, x)) = ToSet(s) \cup {x}
<1>1. /\ Append(s, x) \in Seq(S) /\ Len(Append(s, x)) = Len(s) + 1
      /\ \A i \in 1..Len(s) : Append(s, x)[i] = s[i]
      /\ Append(s, x)[Len(s) + 1] = x
  BY AppendProperties
<1>2. DOMAIN s = 1..Len(s) /\ Len(s) \in Nat
  BY LenProperties
<1>3. DOMAIN Append(s, x) = 1..(Len(s) + 1)
  BY <1>1, LenProperties
<1>4. 1..(Len(s) + 1) = (1..Len(s)) \cup {Len(s) + 1}
  BY <1>2
<1>5. ToSet(Append(s, x)) = ToSet(s) \cup {x}
  BY <1>1, <1>2, <1>3, <1>4 DEF ToSet
<1> QED BY <1>1, <1>2, <1>5

LEMMA InToSet ==
    ASSUME NEW S, NEW s \in Seq(S)
    PROVE  /\ ToSet(s) = {s[i] : i \in 1..Len(s)}
           /\ ToSet(s) \subseteq S
<1>1. DOMAIN s = 1..Len(s) /\ \A i \in 1..Len(s) : s[i] \in S
  BY LenProperties, ElementOfSeq
<1> QED BY <1>1 DEF ToSet

-----------------------------------------------------------------------------
(* Types.                                                                  *)

LEMMA TypeInit == Init => TypeOK
<1> SUFFICES ASSUME Init PROVE TypeOK
  OBVIOUS
<1>1. << >> \in Seq(Trades) /\ Len(<< >>) = 0
  OBVIOUS
<1> QED BY <1>1, BoundsAssumption DEF Init, TypeOK

LEMMA TypeStep == TypeOK /\ [Next]_vars => TypeOK'
<1> SUFFICES ASSUME TypeOK, [Next]_vars PROVE TypeOK'
  OBVIOUS
<1> USE BoundsAssumption DEF TypeOK, feed, consumer
<1>0. Len(topic) \in Nat
  BY LenProperties
<1>1. ASSUME NEW t \in Trades, Produce(t) PROVE TypeOK'
  BY <1>1, AppendFacts DEF Produce
<1> DEFINE Longer == /\ buffer # << >> /\ topic' = Append(topic, Head(buffer))
                     /\ UNCHANGED <<consumer, log, crashes>>
<1>2. ASSUME Longer
      PROVE  topic' \in Seq(Trades) /\ Len(topic') = Len(topic) + 1
  <2>1. Head(buffer) \in Trades
    BY <1>2, HeadTailProperties
  <2> QED BY <1>2, <2>1, AppendFacts
<1>3. ASSUME DeliverToTopic PROVE TypeOK'
  <2>1. Tail(buffer) \in Seq(Trades)
    BY <1>3, HeadTailProperties DEF DeliverToTopic
  <2> QED BY <1>0, <1>2, <1>3, <2>1 DEF DeliverToTopic
<1>4. ASSUME ResendToTopic PROVE TypeOK'
  BY <1>0, <1>2, <1>4 DEF ResendToTopic
<1>5. ASSUME FeedCrash PROVE TypeOK'
  BY <1>5 DEF FeedCrash
<1>6. ASSUME NEW c \in Consumers, Start(c) PROVE TypeOK'
  BY <1>6 DEF Start
<1>7. ASSUME NEW c \in Consumers, Join(c) PROVE TypeOK'
  BY <1>7 DEF Join, Assign
<1>8. ASSUME NEW c \in Consumers, Rebalance(c) PROVE TypeOK'
  BY <1>8 DEF Rebalance, Assign
<1>9. ASSUME NEW c \in Consumers, Poll(c) PROVE TypeOK'
  <2>1. position[c] + 1 \in 1..Len(topic)
    BY <1>0, <1>9 DEF Poll
  <2>2. topic[position[c] + 1] \in Trades
    BY <2>1, ElementOfSeq
  <2> QED BY <1>0, <1>9, <2>1, <2>2 DEF Poll
<1>10. ASSUME NEW c \in Consumers, AppendToStream(c) PROVE TypeOK'
  <2>1. hand[c] \in Trades
    BY <1>10 DEF AppendToStream
  <2>2. Append(log, hand[c]) \in Seq(Trades)
    BY <2>1, AppendFacts
  <2> QED BY <1>10, <2>1, <2>2 DEF AppendToStream
<1>11. ASSUME NEW c \in Consumers, Crash(c) PROVE TypeOK'
  BY <1>11 DEF Crash
<1>12. ASSUME AutoCommit PROVE TypeOK'
  BY <1>12, NoneAssumption DEF AutoCommit
<1>13. CASE UNCHANGED vars
  BY <1>13 DEF vars
<1> QED BY <1>1, <1>3, <1>4, <1>5, <1>6, <1>7, <1>8, <1>9, <1>10, <1>11, <1>12, <1>13
        DEF Next

\* The state of feed, topic, group and log is always well typed: no consumer is
\* ever ahead of the topic, nor is the committed offset.
THEOREM TypeCorrect == Spec => []TypeOK
BY TypeInit, TypeStep, PTL DEF Spec

-----------------------------------------------------------------------------
(* A fill is executed once.                                                *)

\* Only an append changes the log, and it adds what the log does not have.
LEMMA LogStep ==
    ASSUME TypeOK, [Next]_vars
    PROVE  \/ log' = log
           \/ \E t \in Trades \ ToSet(log) : log' = Append(log, t)
<1>1. ASSUME NEW c \in Consumers, AppendToStream(c)
      PROVE  log' = log \/ \E t \in Trades \ ToSet(log) : log' = Append(log, t)
  <2>1. hand[c] \in Trades
    BY <1>1 DEF AppendToStream, TypeOK
  <2> QED BY <1>1, <2>1 DEF AppendToStream
<1>2. ASSUME \A c \in Consumers : ~AppendToStream(c)
      PROVE  log' = log
  BY <1>2 DEF Next, vars, Produce, DeliverToTopic, ResendToTopic, FeedCrash, Start, Join,
              Rebalance, Assign, Poll, AutoCommit, Crash
<1> QED BY <1>1, <1>2

LEMMA OnceStep == TypeOK /\ CapturedOnce /\ [Next]_vars => CapturedOnce'
<1> SUFFICES ASSUME TypeOK, CapturedOnce, [Next]_vars PROVE CapturedOnce'
  OBVIOUS
<1>1. CASE log' = log
  BY <1>1 DEF CapturedOnce
<1>2. ASSUME NEW t \in Trades \ ToSet(log), log' = Append(log, t) PROVE CapturedOnce'
  <2>1. /\ Len(log') = Len(log) + 1 /\ Len(log) \in Nat
        /\ \A i \in 1..Len(log) : log'[i] = log[i]
        /\ log'[Len(log) + 1] = t
    BY <1>2, AppendFacts DEF TypeOK
  <2>2. \A i \in 1..Len(log) : log[i] # t
    BY <1>2, InToSet DEF TypeOK
  <2> QED BY <2>1, <2>2 DEF CapturedOnce
<1> QED BY <1>1, <1>2, LogStep

\* A fill is executed once, for any trades, consumers, resends and rebalances.
THEOREM EffectivelyOnce == Spec => []CapturedOnce
<1>1. Init => CapturedOnce
  BY DEF Init, CapturedOnce
<1> QED BY <1>1, TypeInit, TypeStep, OnceStep, PTL DEF Spec

-----------------------------------------------------------------------------
(* A crash loses one fill at most.                                         *)

LEMMA ReadToType == TypeOK => ReadTo \in 0..Len(topic) /\ Len(topic) \in Nat
BY LenProperties, NoneAssumption DEF TypeOK, ReadTo

\* What is gone stays within what was gone before, and the fill a crash took.
LEMMA GoneSubset ==
    ASSUME TypeOK, IInv, TypeOK', committed' <= ReadTo',
           Gone' \subseteq Gone, crashes' = crashes
    PROVE  IInv'
<1>1. IsFiniteSet(Gone') /\ Cardinality(Gone') <= Cardinality(Gone)
  BY FS_Subset DEF IInv
<1>2. Cardinality(Gone') \in Nat /\ Cardinality(Gone) \in Nat
  BY <1>1, FS_CardinalityType DEF IInv
<1> QED BY <1>1, <1>2 DEF IInv, TypeOK

LEMMA GoneOneMore ==
    ASSUME TypeOK, IInv, TypeOK', committed' <= ReadTo', NEW x,
           Gone' \subseteq Gone \cup {x}, crashes' = crashes + 1
    PROVE  IInv'
<1>1. /\ IsFiniteSet(Gone \cup {x})
      /\ Cardinality(Gone \cup {x}) <= Cardinality(Gone) + 1
  <2>1. IsFiniteSet(Gone)
    BY DEF IInv
  <2>2. Cardinality(Gone) \in Nat
    BY <2>1, FS_CardinalityType
  <2>3. /\ IsFiniteSet(Gone \cup {x})
        /\ Cardinality(Gone \cup {x}) = IF x \in Gone THEN Cardinality(Gone)
                                        ELSE Cardinality(Gone) + 1
    BY ONLY <2>1, FS_AddElement
  <2> QED BY <2>2, <2>3
<1>2. IsFiniteSet(Gone') /\ Cardinality(Gone') <= Cardinality(Gone \cup {x})
  BY <1>1, FS_Subset
<1>3. /\ Cardinality(Gone') \in Nat /\ Cardinality(Gone) \in Nat
      /\ Cardinality(Gone \cup {x}) \in Nat
  BY <1>1, <1>2, FS_CardinalityType DEF IInv
<1> QED BY <1>1, <1>2, <1>3 DEF IInv, TypeOK

LEMMA GoneStep == TypeOK /\ IInv /\ [Next]_vars => IInv'
<1> SUFFICES ASSUME TypeOK, IInv, [Next]_vars PROVE IInv'
  OBVIOUS
<1>0. /\ TypeOK' /\ Len(topic) \in Nat /\ committed \in 0..Len(topic)
      /\ ReadTo \in 0..Len(topic) /\ committed <= ReadTo
      /\ ReadTo' \in 0..Len(topic') /\ Len(topic') \in Nat
  <2>1. TypeOK'
    BY TypeStep
  <2>2. ReadTo' \in 0..Len(topic') /\ Len(topic') \in Nat
    BY <2>1, LenProperties, NoneAssumption DEF TypeOK, ReadTo
  <2> QED BY <2>1, <2>2, ReadToType DEF TypeOK, IInv
<1>1. ASSUME UNCHANGED <<topic, committed, owner, position, hand, log, crashes>>
      PROVE  IInv'
  <2>1. Gone' = Gone /\ ReadTo' = ReadTo
    BY <1>1 DEF Gone, ReadTo
  <2> QED BY <1>0, <1>1, <2>1, GoneSubset
<1>2. ASSUME buffer # << >>, topic' = Append(topic, Head(buffer)),
             UNCHANGED <<consumer, log, crashes>>
      PROVE  IInv'
  <2>1. Head(buffer) \in Trades
    BY <1>2, HeadTailProperties DEF TypeOK
  <2>2. \A i \in 1..Len(topic) : topic'[i] = topic[i]
    BY <1>2, <2>1, AppendFacts DEF TypeOK
  <2>3. ReadTo' = ReadTo /\ committed' = committed
    BY <1>2 DEF consumer, ReadTo
  <2>4. Gone' \subseteq Gone
    BY <1>0, <1>2, <2>2, <2>3 DEF consumer, Gone
  <2> QED BY <1>0, <1>2, <2>3, <2>4, GoneSubset
<1>3. ASSUME NEW c \in Consumers, Assign(c) PROVE IInv'
  <2>1. ReadTo' = committed /\ committed' = committed
    BY <1>3, NoneAssumption DEF Assign, ReadTo, TypeOK
  <2>2. Gone' \subseteq Gone
    BY <1>0, <1>3, <2>1 DEF Assign, Gone
  <2> QED BY <1>0, <1>3, <2>1, <2>2, GoneSubset DEF Assign
<1>4. ASSUME NEW c \in Consumers, Poll(c) PROVE IInv'
  <2>1. /\ ReadTo = position[c] /\ ReadTo' = position[c] + 1 /\ position[c] \in Nat
        /\ committed' = committed /\ topic' = topic /\ log' = log
    BY <1>4, NoneAssumption DEF Poll, ReadTo, TypeOK
  <2>2. hand' = [hand EXCEPT ![c] = topic[ReadTo']]
    BY <1>4, <2>1 DEF Poll
  <2>3. \A d \in Consumers : hand[d] # None => hand'[d] = hand[d]
    BY <1>4, <2>2 DEF Poll, TypeOK
  <2>4. hand'[c] = topic[ReadTo']
    BY <2>2 DEF TypeOK
  <2>5. ASSUME NEW i \in 1..ReadTo', topic[i] \in Gone' PROVE topic[i] \in Gone
    <3>1. i # ReadTo'
      BY <2>1, <2>4, <2>5 DEF Gone
    <3>2. i \in 1..ReadTo
      BY <2>1, <3>1
    <3>3. topic[i] # None
      <4>1. topic \in Seq(Trades) /\ i \in 1..Len(topic)
        BY <1>0, <3>2 DEF TypeOK
      <4>2. topic[i] \in Trades
        BY <4>1, ElementOfSeq
      <4> QED BY <4>2, NoneAssumption
    <3>4. topic[i] \notin ToSet(log) /\ \A d \in Consumers : topic[i] # hand'[d]
      BY <2>1, <2>5 DEF Gone
    <3>5. \A d \in Consumers : topic[i] # hand[d]
      BY <2>3, <3>3, <3>4
    <3> QED BY <3>2, <3>4, <3>5 DEF Gone
  <2>6. Gone' \subseteq Gone
    BY <2>1, <2>5 DEF Gone
  <2> QED BY <1>0, <1>4, <2>1, <2>6, GoneSubset DEF Poll
<1>5. ASSUME NEW c \in Consumers, AppendToStream(c) PROVE IInv'
  <2>1. hand[c] \in Trades /\ ReadTo' = ReadTo
    BY <1>5 DEF AppendToStream, TypeOK, ReadTo
  <2>2. ToSet(log) \subseteq ToSet(log') /\ hand[c] \in ToSet(log')
    BY <1>5, <2>1, AppendFacts DEF AppendToStream, TypeOK
  <2>3. \A d \in Consumers : d # c => hand'[d] = hand[d]
    BY <1>5 DEF AppendToStream, TypeOK
  <2>4. Gone' \subseteq Gone
    BY <1>5, <2>1, <2>2, <2>3 DEF AppendToStream, Gone
  <2> QED BY <1>0, <1>5, <2>1, <2>4, GoneSubset DEF AppendToStream
<1>6. ASSUME NEW c \in Consumers, Crash(c) PROVE IInv'
  <2>1. ReadTo' \in {ReadTo, committed} /\ committed' = committed
    BY <1>6, NoneAssumption DEF Crash, ReadTo, TypeOK
  <2>2. \A d \in Consumers : d # c => hand'[d] = hand[d]
    BY <1>6 DEF Crash, TypeOK
  <2>3. Gone' \subseteq Gone \cup {hand[c]}
    BY <1>0, <1>6, <2>1, <2>2 DEF Crash, Gone
  <2> QED BY <1>0, <1>6, <2>1, <2>3, GoneOneMore DEF Crash
<1>7. ASSUME AutoCommit PROVE IInv'
  <2>1. ReadTo' = ReadTo /\ committed' = ReadTo
    BY <1>7 DEF AutoCommit, ReadTo
  <2>2. Gone' = Gone
    BY <1>7, <2>1 DEF AutoCommit, Gone
  <2> QED BY <1>0, <1>7, <2>1, <2>2, GoneSubset DEF AutoCommit
<1> QED BY <1>1, <1>2, <1>3, <1>4, <1>5, <1>6, <1>7
        DEF Next, vars, consumer, Produce, DeliverToTopic, ResendToTopic, FeedCrash,
            Start, Join, Rebalance

LEMMA GoneInit == Init => IInv
<1> SUFFICES ASSUME Init PROVE IInv
  OBVIOUS
<1>1. ReadTo = 0 /\ Gone = {}
  BY DEF Init, ReadTo, Gone
<1> QED BY <1>1, FS_EmptySet DEF Init, IInv

\* The committed offset never overtakes the reader, and of what was read, committed
\* or not, no more fills are missing than capture crashed.
THEOREM InvariantHolds == Spec => []IInv
BY TypeInit, TypeStep, GoneInit, GoneStep, PTL DEF Spec

\* Auto-commit loses the one fill in hand when capture crashes, and nothing else
\* loses any.
THEOREM CrashLosesOne == Spec => []LossBounded
<1>1. TypeOK /\ IInv => LossBounded
  <2> SUFFICES ASSUME TypeOK, IInv PROVE LossBounded
    OBVIOUS
  <2>1. committed <= ReadTo /\ committed \in Nat /\ ReadTo \in Nat
    BY ReadToType DEF TypeOK, IInv
  <2>2. Lost \subseteq Gone
    BY <2>1 DEF Lost, Gone
  <2>3. Cardinality(Lost) <= Cardinality(Gone) /\ IsFiniteSet(Lost)
    BY <2>2, FS_Subset DEF IInv
  <2>4. Cardinality(Lost) \in Nat /\ Cardinality(Gone) \in Nat
    BY <2>3, FS_CardinalityType DEF IInv
  <2> QED BY <2>3, <2>4 DEF IInv, TypeOK, LossBounded
<1> QED BY <1>1, TypeInit, TypeStep, InvariantHolds, PTL DEF Spec

-----------------------------------------------------------------------------
(* Refinement of TradeLifecycle.                                           *)

\* What the stream of a trade holds under CapturedOnce.
LEMMA StreamOfLog ==
    ASSUME TypeOK, CapturedOnce, NEW t \in Trades
    PROVE  Stream(t) = IF t \in ToSet(log) THEN Lifecycle!Executed ELSE << >>
<1> DEFINE At == {j \in 1..Len(log) : log[j] = t}
<1>0. ToSet(log) = {log[i] : i \in 1..Len(log)}
  BY InToSet DEF TypeOK
<1>1. CASE t \notin ToSet(log)
  <2>1. At = {}
    BY <1>0, <1>1
  <2>2. Cardinality(At) = 0
    BY <2>1, FS_EmptySet
  <2>3. Stream(t) = [i \in 1..0 |-> "TradeExecuted"]
    BY <2>2 DEF Stream
  <2> QED BY <1>1, <2>3
<1>2. CASE t \in ToSet(log)
  <2>1. PICK j \in 1..Len(log) : log[j] = t
    BY <1>0, <1>2
  <2>2. At = {j}
    BY <2>1 DEF CapturedOnce
  <2>3. Cardinality(At) = 1
    BY <2>2, FS_Singleton
  <2>4. Stream(t) = [i \in 1..1 |-> "TradeExecuted"]
    BY <2>3 DEF Stream
  <2>5. [i \in 1..1 |-> "TradeExecuted"] = <<"TradeExecuted">>
    OBVIOUS
  <2> QED BY <1>2, <2>4, <2>5 DEF Lifecycle!Executed
<1> QED BY <1>1, <1>2

Streams == [t \in Trades |-> Stream(t)]
StreamsOf(set) == [t \in Trades |-> IF t \in set THEN Lifecycle!Executed ELSE << >>]

LEMMA StreamsOfLog == TypeOK /\ CapturedOnce => Streams = StreamsOf(ToSet(log))
BY StreamOfLog DEF Streams, StreamsOf

\* Every step of feed, group and capture is a step of the trade's life or none.
LEMMA RefinementStep ==
    TypeOK /\ CapturedOnce /\ [Next]_vars => [Lifecycle!Next]_(Lifecycle!vars)
<1> SUFFICES ASSUME TypeOK, CapturedOnce, [Next]_vars
             PROVE  [Lifecycle!Next]_(Lifecycle!vars)
  OBVIOUS
<1>1. Streams = StreamsOf(ToSet(log))
  BY StreamsOfLog
<1>2. TypeOK' /\ CapturedOnce'
  BY TypeStep, OnceStep
<1>3. (TypeOK /\ CapturedOnce => Streams = StreamsOf(ToSet(log)))'
  BY StreamsOfLog, PTL
<1>4. Streams' = StreamsOf(ToSet(log'))
  BY <1>2, <1>3 DEF StreamsOf
<1>5. CASE log' = log
  <2>1. Streams' = Streams
    BY <1>1, <1>4, <1>5
  <2> QED BY <2>1 DEF Lifecycle!vars, Streams
<1>6. ASSUME NEW t \in Trades \ ToSet(log), log' = Append(log, t)
      PROVE  Lifecycle!Next
  <2>1. ToSet(log') = ToSet(log) \cup {t}
    BY <1>6, AppendFacts DEF TypeOK
  <2>2. Streams[t] = << >> /\ Streams' = [Streams EXCEPT ![t] = Lifecycle!Executed]
    BY <1>1, <1>4, <1>6, <2>1 DEF StreamsOf
  <2>3. Lifecycle!Execute(t)
    BY <1>6, <2>2 DEF Lifecycle!Execute, Streams
  <2> QED BY <1>6, <2>3 DEF Lifecycle!Next
<1> QED BY <1>5, <1>6, LogStep

\* Capture implements the first step of TradeLifecycle: however often a fill is
\* delivered, its stream begins with one TradeExecuted and keeps it.
THEOREM Refinement == Spec => ImplementsLifecycle
<1>1. Init => Lifecycle!Init
  <2> SUFFICES ASSUME Init PROVE Lifecycle!Init
    OBVIOUS
  <2>1. TypeOK /\ CapturedOnce /\ ToSet(log) = {}
    BY TypeInit DEF Init, CapturedOnce, ToSet
  <2> QED BY <2>1, StreamOfLog DEF Lifecycle!Init
<1> QED BY <1>1, TypeInit, TypeStep, EffectivelyOnce, RefinementStep, PTL
        DEF Spec, ImplementsLifecycle, Lifecycle!Spec
=============================================================================
