-------------------------- MODULE SettlementProofs --------------------------
(***************************************************************************)
(* Safety of Settlement for any trades, replicas, retry limit and number   *)
(* of failures, and its refinement of TradeLifecycle.                      *)
(***************************************************************************)
EXTENDS Settlement, SequenceTheorems, FiniteSetTheorems, TLAPS

-----------------------------------------------------------------------------
(* The three shapes of a trade's stream.                                   *)

LEMMA StreamShapes ==
    /\ Len(<< >>) = 0 /\ Len(Executed) = 1 /\ Len(ExecutedAndSettled) = 2
    /\ Append(Executed, "TradeSettled") = ExecutedAndSettled
    /\ << >> # Executed /\ << >> # ExecutedAndSettled
    /\ Executed # ExecutedAndSettled
<1>1. /\ Len(<< >>) = 0
  OBVIOUS
<1>3. Len(Executed) = 1
  BY DEF Executed
<1>4. Len(ExecutedAndSettled) = 2
  BY DEF ExecutedAndSettled
<1>2. Append(Executed, "TradeSettled") = ExecutedAndSettled
  <2> DEFINE Types == {"TradeExecuted", "TradeSettled"}
  <2>1. Executed \in Seq(Types) /\ ExecutedAndSettled \in Seq(Types)
    BY DEF Executed, ExecutedAndSettled
  <2>2. Executed[1] = ExecutedAndSettled[1] /\ ExecutedAndSettled[2] = "TradeSettled"
    BY DEF Executed, ExecutedAndSettled
  <2> HIDE DEF Types
  <2>3. "TradeSettled" \in Types
    BY DEF Types
  <2> DEFINE s == Append(Executed, "TradeSettled")
  <2>4. /\ s \in Seq(Types) /\ Len(s) = Len(Executed) + 1
        /\ \A i \in 1..Len(Executed) : s[i] = Executed[i]
        /\ s[Len(Executed) + 1] = "TradeSettled"
    BY <2>1, <2>3, AppendProperties
  <2> HIDE DEF s
  <2>5. Len(s) = Len(ExecutedAndSettled)
    BY <1>3, <1>4, <2>4
  <2>6. \A i \in 1..Len(s) : s[i] = ExecutedAndSettled[i]
    BY <1>3, <2>2, <2>4
  <2>7. s = ExecutedAndSettled
    BY <2>1, <2>4, <2>5, <2>6, SeqEqual
  <2> QED BY <2>7 DEF s
<1> QED BY <1>1, <1>2, <1>3, <1>4

\* A replica that is busy holds a delivery of some trade.
LEMMA BusyHolds ==
    ASSUME TypeOK, NEW w \in Workers, pc[w] \in Busy
    PROVE  hand[w] # None /\ hand[w] \in Delivery /\ hand[w].trade \in Trades
BY DEF TypeOK, Delivery

\* The server's answer to a retry keeps the types of what it changes.
LEMMA RetryMessageType ==
    ASSUME TypeOK, NEW t \in Trades, RetryMessage(t)
    PROVE  sub' \in [Trades -> SubStates] /\ retries' \in [Trades -> Nat]
<1>1. retries[t] \in Nat /\ retries[t] + 1 \in Nat
  BY DEF TypeOK
<1>2. CASE retries[t] < MaxRetries
  BY <1>1, <1>2 DEF TypeOK, RetryMessage, SubStates
<1>3. CASE ~(retries[t] < MaxRetries)
  BY <1>3 DEF TypeOK, RetryMessage, SubStates
<1> QED BY <1>2, <1>3

LEMMA NackType ==
    ASSUME TypeOK, NEW w \in Workers, pc[w] \in Busy, Nack(w)
    PROVE  /\ sub' \in [Trades -> SubStates] /\ retries' \in [Trades -> Nat]
           /\ pc' = [pc EXCEPT ![w] = "idle"] /\ hand' = [hand EXCEPT ![w] = None]
           /\ UNCHANGED <<streams, filtered, group, checkpoint, ledger>>
BY BusyHolds, RetryMessageType DEF TypeOK, Nack, LetGo, Goto

-----------------------------------------------------------------------------
(* Types.                                                                  *)

\* Types hold: in particular a trade's stream never holds anything but
\* TradeExecuted, or TradeExecuted followed by one TradeSettled.
LEMMA TypeInit == Init => TypeOK
<1> SUFFICES ASSUME Init PROVE TypeOK
  OBVIOUS
<1>1. filtered \in Seq(Trades) /\ ledger \in Seq([id : Trades, trade : Trades])
  BY DEF Init
<1>2. checkpoint \in 0..Len(filtered)
  BY StreamShapes DEF Init
<1>3. streams \in [Trades -> {<< >>, Executed, ExecutedAndSettled}]
  BY DEF Init
<1> QED BY <1>1, <1>2, <1>3 DEF Init, TypeOK, SubStates, Busy

LEMMA TypeStep == TypeOK /\ [Next]_vars => TypeOK'
<1> SUFFICES ASSUME TypeOK, [Next]_vars PROVE TypeOK'
  OBVIOUS
<1> USE DEF TypeOK, Goto, LetGo, kurrent, Busy, Delivery, SubStates
<1>1. ASSUME NEW w \in Workers, Restart(w) PROVE TypeOK'
  BY <1>1 DEF Restart, EnsureSubscription
<1>2. ASSUME NEW w \in Workers, NEW t \in Trades, Deliver(w, t) PROVE TypeOK'
  <2>1. retries[t] \in Nat
    OBVIOUS
  <2> QED BY <1>2, <2>1, NoneAssumption DEF Deliver
<1>3. ASSUME NEW w \in Workers, RejectMalformed(w) PROVE TypeOK'
  BY <1>3, NackType DEF RejectMalformed
<1>4. ASSUME NEW w \in Workers, LookupTransfers(w) PROVE TypeOK'
  BY <1>4 DEF LookupTransfers, AfterLookup
<1>5. ASSUME NEW w \in Workers, CreateTransfers(w) PROVE TypeOK'
  <2>1. hand[w].trade \in Trades
    BY <1>5, BusyHolds DEF CreateTransfers
  <2> QED BY <1>5, <2>1 DEF CreateTransfers, TransferId
<1>6. ASSUME NEW w \in Workers, CreateRefused(w) PROVE TypeOK'
  BY <1>6, NackType DEF CreateRefused
<1>7. ASSUME NEW w \in Workers, RecordSettled(w) PROVE TypeOK'
  <2>1. hand[w].trade \in Trades
    BY <1>7, BusyHolds DEF RecordSettled
  <2> DEFINE t == hand[w].trade
  <2>2. CASE Len(streams[t]) = 1
    <3>1. streams[t] = Executed
      BY <2>1, <2>2, StreamShapes
    <3>2. streams' = [streams EXCEPT ![t] = ExecutedAndSettled]
      BY <1>7, <2>2, <3>1, StreamShapes DEF RecordSettled
    <3> QED BY <1>7, <2>1, <3>2 DEF RecordSettled
  <2>3. CASE Len(streams[t]) # 1
    BY <1>7, <2>3 DEF RecordSettled
  <2> QED BY <2>2, <2>3
<1>8. ASSUME NEW w \in Workers, Ack(w) PROVE TypeOK'
  BY <1>8 DEF Ack
<1>9. ASSUME NEW w \in Workers, Report(w) PROVE TypeOK'
  BY <1>9 DEF Report
<1>10. ASSUME NEW w \in Workers, Raise(w) PROVE TypeOK'
  <2>1. faults' \in Nat
    BY <1>10 DEF Raise, Fault
  <2>2. pc[w] \in Busy /\ Nack(w)
    BY <1>10 DEF Raise
  <2> QED BY <2>1, <2>2, NackType
<1>11. ASSUME NEW w \in Workers, AckLost(w) PROVE TypeOK'
  BY <1>11 DEF AckLost, Fault
<1>12. ASSUME NEW w \in Workers, Crash(w) PROVE TypeOK'
  BY <1>12 DEF Crash, Fault
<1>13. ASSUME NEW t \in Trades, Capture(t) PROVE TypeOK'
  BY <1>13 DEF Capture
<1>14. ASSUME NEW t \in Trades, OrphanTimeout(t) PROVE TypeOK'
  BY <1>14, RetryMessageType DEF OrphanTimeout
<1>15. ASSUME NEW t \in Trades, SlowTimeout(t) PROVE TypeOK'
  BY <1>15, RetryMessageType DEF SlowTimeout, Fault
<1>16. CASE SaveCheckpoint
  BY <1>16 DEF SaveCheckpoint
<1>17. CASE ServerRestart
  BY <1>17 DEF ServerRestart, Fault
<1>18. CASE UNCHANGED vars
  BY <1>18 DEF vars
<1> QED
  BY <1>1, <1>2, <1>3, <1>4, <1>5, <1>6, <1>7, <1>8, <1>9, <1>10, <1>11, <1>12,
     <1>13, <1>14, <1>15, <1>16, <1>17, <1>18 DEF Next, Step

\* The service's state keeps its types; in particular no stream gets a second
\* TradeSettled, because the append names the version it expects.
THEOREM TypeCorrect == Spec => []TypeOK
BY TypeInit, TypeStep, PTL DEF Spec

-----------------------------------------------------------------------------
(* What the steps have in common.                                          *)

\* A retry moves an event that is outstanding, and only that one.
LEMMA RetryMessageEffect ==
    ASSUME TypeOK, NEW t \in Trades, RetryMessage(t)
    PROVE  \E x \in {"queued", "parked"} : sub' = [sub EXCEPT ![t] = x]
BY DEF RetryMessage

\* So does a nack, if it does anything.
LEMMA NackEffect ==
    ASSUME TypeOK, NEW w \in Workers, pc[w] \in Busy, Nack(w)
    PROVE  \/ sub' = sub
           \/ \E t \in Trades, x \in {"queued", "parked"} :
                 sub[t] = "outstanding" /\ sub' = [sub EXCEPT ![t] = x]
<1>1. hand[w].trade \in Trades
  BY BusyHolds
<1>2. CASE sub[hand[w].trade] = "outstanding"
  <2>1. RetryMessage(hand[w].trade)
    BY <1>2 DEF Nack
  <2> QED BY <1>1, <1>2, <2>1, RetryMessageEffect
<1>3. CASE sub[hand[w].trade] # "outstanding"
  BY <1>3 DEF Nack
<1> QED BY <1>2, <1>3

\* A stream changes in two ways only: capture starts it, and record_settled
\* completes it.
LEMMA RecordSettledEffect ==
    ASSUME TypeOK, NEW w \in Workers, RecordSettled(w)
    PROVE  /\ hand[w].trade \in Trades
           /\ \/ /\ streams[hand[w].trade] = Executed
                 /\ streams' = [streams EXCEPT ![hand[w].trade] = ExecutedAndSettled]
              \/ /\ streams[hand[w].trade] # Executed
                 /\ streams' = streams
<1> DEFINE t == hand[w].trade
<1>1. t \in Trades
  BY BusyHolds DEF RecordSettled, Busy
<1>2. streams[t] \in {<< >>, Executed, ExecutedAndSettled}
  BY <1>1 DEF TypeOK
<1>3. CASE streams[t] = Executed
  <2>1. streams' = [streams EXCEPT ![t] = Append(streams[t], "TradeSettled")]
    BY <1>3, StreamShapes DEF RecordSettled
  <2> QED BY <1>1, <1>3, <2>1, StreamShapes
<1>4. CASE streams[t] # Executed
  <2>1. Len(streams[t]) # 1
    BY <1>2, <1>4, StreamShapes
  <2> QED BY <1>1, <1>4, <2>1 DEF RecordSettled
<1> QED BY <1>3, <1>4

LEMMA CreateTransfersEffect ==
    ASSUME TypeOK, LedgerOK, NEW w \in Workers, CreateTransfers(w)
    PROVE  LET t == hand[w].trade
           IN  /\ t \in Trades
               /\ ~Posted(t)
               /\ ledger' = Append(ledger, [id |-> t, trade |-> t])
               /\ Len(ledger') = Len(ledger) + 1
               /\ \A i \in 1..Len(ledger) : ledger'[i] = ledger[i]
               /\ ledger'[Len(ledger) + 1] = [id |-> t, trade |-> t]
<1> DEFINE t == hand[w].trade
           e == [id |-> t, trade |-> t]
<1>1. t \in Trades
  BY BusyHolds DEF CreateTransfers, Busy
<1>2. ledger' = Append(ledger, e) /\ ~TransferExists(t)
  BY DEF CreateTransfers, TransferId
<1>3. ~Posted(t)
  BY <1>2 DEF TransferExists, Posted, LedgerOK
<1>4. ledger \in Seq([id : Trades, trade : Trades]) /\ e \in [id : Trades, trade : Trades]
  BY <1>1 DEF TypeOK
<1> HIDE DEF e
<1>5. /\ Len(ledger') = Len(ledger) + 1
      /\ \A i \in 1..Len(ledger) : ledger'[i] = ledger[i]
      /\ ledger'[Len(ledger) + 1] = e
  BY <1>2, <1>4, AppendProperties
<1> QED BY <1>1, <1>2, <1>3, <1>5 DEF e

\* Nothing a trade has reached is ever taken back, by any step of anyone.
LEMMA Monotone ==
    ASSUME TypeOK, LedgerOK, [Next]_vars, NEW t \in Trades
    PROVE  /\ streams[t] # << >> => streams'[t] # << >>
           /\ Settled(t) => Settled(t)'
           /\ Posted(t) => Posted(t)'
<1>1. ASSUME UNCHANGED ledger PROVE Posted(t) => Posted(t)'
  BY <1>1 DEF Posted
<1>2. ASSUME UNCHANGED streams
      PROVE (streams[t] # << >> => streams'[t] # << >>) /\ (Settled(t) => Settled(t)')
  BY <1>2 DEF Settled
<1>3. ASSUME NEW w \in Workers, CreateTransfers(w)
      PROVE UNCHANGED streams /\ (Posted(t) => Posted(t)')
  <2>1. Len(ledger) \in Nat
    BY DEF TypeOK
  <2> QED BY <1>3, <2>1, CreateTransfersEffect DEF Posted, CreateTransfers, kurrent
<1>4. ASSUME NEW w \in Workers, RecordSettled(w)
      PROVE /\ UNCHANGED ledger
            /\ streams[t] # << >> => streams'[t] # << >>
            /\ Settled(t) => Settled(t)'
  <2>1. UNCHANGED ledger
    BY <1>4 DEF RecordSettled
  <2> QED BY <1>4, <2>1, RecordSettledEffect, StreamShapes DEF TypeOK, Settled
<1>5. ASSUME NEW u \in Trades, Capture(u)
      PROVE /\ UNCHANGED ledger
            /\ streams[t] # << >> => streams'[t] # << >>
            /\ Settled(t) => Settled(t)'
  BY <1>5, StreamShapes DEF Capture, TypeOK, Settled
<1>6. \/ \E w \in Workers : CreateTransfers(w) \/ RecordSettled(w)
      \/ \E u \in Trades : Capture(u)
      \/ UNCHANGED <<streams, ledger>>
  BY DEF Next, Step, vars, kurrent, Restart, Deliver, RejectMalformed, Nack,
         LookupTransfers, CreateRefused, Ack, Report, Raise, AckLost, Crash,
         OrphanTimeout, SlowTimeout, SaveCheckpoint, ServerRestart
<1> QED BY <1>1, <1>2, <1>3, <1>4, <1>5, <1>6

-----------------------------------------------------------------------------
(* The conjuncts of the inductive invariant, one lemma each.               *)

LEMMA LedgerStep ==
    ASSUME TypeOK, LedgerOK, AtMostOncePosted, HandOK, [Next]_vars
    PROVE  LedgerOK' /\ AtMostOncePosted'
<1>1. ASSUME NEW w \in Workers, CreateTransfers(w)
      PROVE  LedgerOK' /\ AtMostOncePosted'
  <2> DEFINE t == hand[w].trade
  <2>1. /\ ~Posted(t)
        /\ Len(ledger') = Len(ledger) + 1
        /\ \A i \in 1..Len(ledger) : ledger'[i] = ledger[i]
        /\ ledger'[Len(ledger) + 1] = [id |-> t, trade |-> t]
    BY <1>1, CreateTransfersEffect
  <2>2. t \notin Malformed
    BY <1>1 DEF CreateTransfers, HandOK, Busy
  <2>3. Len(ledger) \in Nat
    BY DEF TypeOK
  <2>4. \A i \in 1..Len(ledger') : i \in 1..Len(ledger) \/ i = Len(ledger) + 1
    BY <2>1, <2>3
  <2> HIDE DEF t
  <2>5. LedgerOK'
    BY <2>1, <2>2, <2>4 DEF LedgerOK
  <2>6. AtMostOncePosted'
    BY <2>1, <2>4 DEF AtMostOncePosted, Posted
  <2> QED BY <2>5, <2>6
<1>2. CASE UNCHANGED ledger
  BY <1>2 DEF LedgerOK, AtMostOncePosted
<1>3. (\E w \in Workers : CreateTransfers(w)) \/ UNCHANGED ledger
  BY DEF Next, Step, vars, kurrent, Restart, Deliver, RejectMalformed, Nack,
         LookupTransfers, CreateRefused, RecordSettled, Ack, Report, Raise,
         AckLost, Crash, Capture, OrphanTimeout, SlowTimeout, SaveCheckpoint,
         ServerRestart
<1> QED BY <1>1, <1>2, <1>3

LEMMA HandStep ==
    ASSUME TypeOK, LedgerOK, HandOK, LogOK, [Next]_vars
    PROVE  HandOK'
<1> DEFINE Known(v) ==
        /\ streams[hand[v].trade] # << >>
        /\ pc[v] # "lookup" => hand[v].trade \notin Malformed
        /\ pc[v] \in {"record", "ack", "report"} => Posted(hand[v].trade)
        /\ pc[v] \in {"ack", "report"} => Settled(hand[v].trade)
<1> SUFFICES ASSUME NEW v \in Workers, pc'[v] \in Busy PROVE Known(v)'
  BY DEF HandOK
<1>1. ASSUME pc'[v] = pc[v], hand'[v] = hand[v] PROVE Known(v)'
  \* v did nothing: what it knows stays true.
  <2>1. pc[v] \in Busy /\ Known(v)
    BY <1>1 DEF HandOK
  <2>2. hand[v].trade \in Trades
    BY <2>1, BusyHolds
  <2> QED BY <1>1, <2>1, <2>2, Monotone
<1>2. ASSUME NEW t \in Trades, Deliver(v, t) PROVE Known(v)'
  <2>1. pc'[v] = "lookup" /\ hand'[v].trade = t /\ UNCHANGED streams
    BY <1>2 DEF Deliver, Goto, TypeOK
  <2>2. streams[t] # << >>
    BY <1>2 DEF Deliver, LogOK
  <2> QED BY <2>1, <2>2
<1>3. ASSUME LookupTransfers(v) PROVE Known(v)'
  <2>1. /\ UNCHANGED <<hand, streams, ledger>> /\ hand[v].trade \notin Malformed
        /\ pc[v] \in Busy
        /\ pc'[v] = IF TransferExists(hand[v].trade) THEN "record" ELSE "create"
    BY <1>3 DEF LookupTransfers, AfterLookup, Goto, TransferId, kurrent, TypeOK, Busy
  <2>2. TransferExists(hand[v].trade) => Posted(hand[v].trade)
    BY DEF TransferExists, Posted, LedgerOK
  <2>3. Known(v)
    BY <2>1 DEF HandOK
  <2> QED BY <2>1, <2>2, <2>3 DEF Posted
<1>4. ASSUME CreateTransfers(v) PROVE Known(v)'
  <2>1. /\ UNCHANGED <<hand, streams>> /\ pc[v] = "create" /\ pc'[v] = "record"
    BY <1>4 DEF CreateTransfers, Goto, kurrent, TypeOK
  <2>2. Known(v)
    BY <2>1 DEF HandOK, Busy
  <2>3. Posted(hand[v].trade)'
    <3> DEFINE t == hand[v].trade
    <3>1. /\ Len(ledger') = Len(ledger) + 1
          /\ ledger'[Len(ledger) + 1] = [id |-> t, trade |-> t]
      BY <1>4, CreateTransfersEffect
    <3>2. Len(ledger) + 1 \in 1..Len(ledger')
      BY <3>1 DEF TypeOK
    <3> QED BY <2>1, <3>1, <3>2 DEF Posted
  <2> QED BY <2>1, <2>2, <2>3
<1>5. ASSUME RecordSettled(v) PROVE Known(v)'
  <2> DEFINE t == hand[v].trade
  <2>1. /\ UNCHANGED <<hand, ledger>> /\ pc[v] = "record" /\ pc'[v] = "ack"
    BY <1>5 DEF RecordSettled, Goto, TypeOK
  <2>2. Known(v)
    BY <2>1 DEF HandOK, Busy
  <2>3. t \in Trades /\ streams[t] \in {<< >>, Executed, ExecutedAndSettled}
    BY <1>5, RecordSettledEffect DEF TypeOK
  <2>4. streams'[t] = ExecutedAndSettled
    BY <1>5, <2>2, <2>3, RecordSettledEffect DEF TypeOK
  <2> QED BY <2>1, <2>2, <2>4, StreamShapes DEF Settled, Posted
<1>6. ASSUME Ack(v) \/ AckLost(v) PROVE Known(v)'
  <2>1. UNCHANGED <<hand, streams, ledger>> /\ pc[v] = "ack" /\ pc'[v] = "report"
    BY <1>6 DEF Ack, AckLost, Goto, kurrent, TypeOK
  <2>2. Known(v)
    BY <2>1 DEF HandOK, Busy
  <2> QED BY <2>1, <2>2 DEF Posted, Settled
<1>7. CASE pc'[v] \in {"idle", "down"}
  BY <1>7 DEF Busy
<1>8. \/ pc'[v] = pc[v] /\ hand'[v] = hand[v]
      \/ \E t \in Trades : Deliver(v, t)
      \/ LookupTransfers(v) \/ CreateTransfers(v) \/ RecordSettled(v)
      \/ Ack(v) \/ AckLost(v)
      \/ pc'[v] \in {"idle", "down"}
  <2>1. ASSUME NEW w \in Workers,
               \/ Restart(w) \/ (\E t \in Trades : Deliver(w, t)) \/ Step(w)
               \/ Raise(w) \/ AckLost(w) \/ Crash(w)
        PROVE  \/ w = v
               \/ pc'[v] = pc[v] /\ hand'[v] = hand[v]
    BY <2>1 DEF Step, kurrent, Restart, Deliver, RejectMalformed, Nack, LetGo, Goto,
           LookupTransfers, CreateTransfers, CreateRefused, RecordSettled, Ack,
           Report, Raise, AckLost, Crash, TypeOK
  <2>2. ASSUME \/ Restart(v) \/ RejectMalformed(v) \/ CreateRefused(v) \/ Report(v)
               \/ Raise(v) \/ Crash(v)
        PROVE  pc'[v] \in {"idle", "down"}
    BY <2>2 DEF Restart, RejectMalformed, CreateRefused, Report, Raise, Crash,
           Nack, LetGo, Goto, TypeOK
  <2>3. \/ \E w \in Workers :
              \/ Restart(w) \/ (\E t \in Trades : Deliver(w, t)) \/ Step(w)
              \/ Raise(w) \/ AckLost(w) \/ Crash(w)
        \/ UNCHANGED <<pc, hand>>
    BY DEF Next, vars, Capture, OrphanTimeout, SlowTimeout, SaveCheckpoint,
           ServerRestart
  <2> QED BY <2>1, <2>2, <2>3 DEF Step
<1> QED BY <1>1, <1>2, <1>3, <1>4, <1>5, <1>6, <1>7, <1>8

\* Every way a step can change what the subscription holds of one event.
LEMMA SubEffect ==
    ASSUME TypeOK, [Next]_vars, NEW t \in Trades
    PROVE  /\ group => group'
           /\ \/ sub'[t] = sub[t]
              \/ /\ sub[t] \in {"queued", "outstanding"}
                 /\ sub'[t] \in {"queued", "outstanding", "parked"}
              \/ \E w \in Workers : /\ Ack(w) /\ hand[w].trade = t
                                    /\ sub[t] = "outstanding" /\ sub'[t] = "acked"
              \/ /\ ~group /\ group'
                 /\ sub'[t] = IF streams[t] = << >> THEN "absent" ELSE "queued"
              \/ /\ group /\ sub'[t] = "queued"
                 /\ streams[t] = << >> /\ streams'[t] # << >>
              \/ /\ group /\ sub'[t] = "queued"
                 /\ UNCHANGED <<streams, filtered, checkpoint>>
                 /\ \E i \in (checkpoint + 1)..Len(filtered) : filtered[i] = t
<1> DEFINE Retried == /\ sub[t] \in {"queued", "outstanding"}
                      /\ sub'[t] \in {"queued", "outstanding", "parked"}
<1>1. ASSUME NEW w \in Workers, Restart(w)
      PROVE  /\ group'
             /\ \/ sub'[t] = sub[t]
                \/ ~group /\ sub'[t] = IF streams[t] = << >> THEN "absent" ELSE "queued"
  BY <1>1 DEF Restart, EnsureSubscription
<1>2. ASSUME NEW w \in Workers, NEW u \in Trades, Deliver(w, u)
      PROVE  UNCHANGED group /\ (sub'[t] = sub[t] \/ Retried)
  BY <1>2 DEF Deliver, TypeOK
<1>3. ASSUME NEW w \in Workers, RejectMalformed(w) \/ CreateRefused(w) \/ Raise(w)
      PROVE  UNCHANGED group /\ (sub'[t] = sub[t] \/ Retried)
  <2>1. pc[w] \in Busy /\ Nack(w)
    BY <1>3 DEF RejectMalformed, CreateRefused, Raise, Busy
  <2> QED BY <2>1, NackEffect DEF Nack, TypeOK
<1>4. ASSUME NEW w \in Workers, Ack(w)
      PROVE  /\ UNCHANGED group
             /\ \/ sub'[t] = sub[t]
                \/ hand[w].trade = t /\ sub[t] = "outstanding" /\ sub'[t] = "acked"
  BY <1>4 DEF Ack, TypeOK
<1>5. ASSUME NEW u \in Trades, OrphanTimeout(u) \/ SlowTimeout(u)
      PROVE  UNCHANGED group /\ (sub'[t] = sub[t] \/ Retried)
  <2>1. sub[u] = "outstanding" /\ RetryMessage(u) /\ UNCHANGED group
    BY <1>5 DEF OrphanTimeout, SlowTimeout
  <2> QED BY <2>1, RetryMessageEffect DEF TypeOK
<1>6. ASSUME NEW u \in Trades, Capture(u)
      PROVE  /\ UNCHANGED group
             /\ \/ sub'[t] = sub[t]
                \/ /\ group /\ sub'[t] = "queued"
                   /\ streams[t] = << >> /\ streams'[t] # << >>
  BY <1>6, StreamShapes DEF Capture, TypeOK
<1>7. CASE ServerRestart
  BY <1>7 DEF ServerRestart
<1>8. CASE UNCHANGED <<group, sub>>
  BY <1>8
<1>9. \/ \E w \in Workers : \/ Restart(w) \/ (\E u \in Trades : Deliver(w, u))
                            \/ RejectMalformed(w) \/ CreateRefused(w) \/ Raise(w)
                            \/ Ack(w)
      \/ \E u \in Trades : OrphanTimeout(u) \/ SlowTimeout(u) \/ Capture(u)
      \/ ServerRestart
      \/ UNCHANGED <<group, sub>>
  BY DEF Next, Step, vars, kurrent, LookupTransfers, CreateTransfers, RecordSettled,
         Report, AckLost, Crash, SaveCheckpoint
<1> QED BY <1>1, <1>2, <1>3, <1>4, <1>5, <1>6, <1>7, <1>8, <1>9

\* The log only grows, by trades it does not hold.
LEMMA FilteredEffect ==
    ASSUME TypeOK, [Next]_vars
    PROVE  \/ UNCHANGED filtered
           \/ /\ UNCHANGED checkpoint
              /\ \E t \in Trades : /\ streams[t] = << >> /\ streams'[t] # << >>
                                   /\ Len(filtered') = Len(filtered) + 1
                                   /\ filtered'[Len(filtered) + 1] = t
                                   /\ \A i \in 1..Len(filtered) :
                                         filtered'[i] = filtered[i]
<1>1. ASSUME NEW t \in Trades, Capture(t)
      PROVE  /\ UNCHANGED checkpoint
             /\ streams[t] = << >> /\ streams'[t] # << >>
             /\ Len(filtered') = Len(filtered) + 1
             /\ filtered'[Len(filtered) + 1] = t
             /\ \A i \in 1..Len(filtered) : filtered'[i] = filtered[i]
  <2>1. filtered' = Append(filtered, t) /\ filtered \in Seq(Trades)
    BY <1>1 DEF Capture, TypeOK
  <2> QED BY <1>1, <2>1, AppendProperties, StreamShapes DEF Capture, TypeOK
<1>2. (\E t \in Trades : Capture(t)) \/ UNCHANGED filtered
  BY DEF Next, Step, vars, kurrent, Restart, Deliver, RejectMalformed, Nack,
         LookupTransfers, CreateTransfers, CreateRefused, RecordSettled, Ack, Report,
         Raise, AckLost, Crash, OrphanTimeout, SlowTimeout, SaveCheckpoint,
         ServerRestart
<1> QED BY <1>1, <1>2

LEMMA LogStep ==
    ASSUME TypeOK, LedgerOK, LogOK, [Next]_vars
    PROVE  LogOK'
<1>1. \A i \in 1..Len(filtered) : filtered[i] \in Trades
  BY DEF TypeOK
<1>2. /\ \A i \in 1..Len(filtered') : streams'[filtered'[i]] # << >>
      /\ \A i, j \in 1..Len(filtered') : filtered'[i] = filtered'[j] => i = j
  <2>1. CASE UNCHANGED filtered
    BY <1>1, <2>1, Monotone DEF LogOK
  <2>2. ASSUME NEW t \in Trades, streams[t] = << >>, streams'[t] # << >>,
               Len(filtered') = Len(filtered) + 1,
               filtered'[Len(filtered) + 1] = t,
               \A i \in 1..Len(filtered) : filtered'[i] = filtered[i]
        PROVE  /\ \A i \in 1..Len(filtered') : streams'[filtered'[i]] # << >>
               /\ \A i, j \in 1..Len(filtered') : filtered'[i] = filtered'[j] => i = j
    <3>1. \A i \in 1..Len(filtered') : i \in 1..Len(filtered) \/ i = Len(filtered) + 1
      BY <2>2 DEF TypeOK
    <3>2. \A i \in 1..Len(filtered) : filtered[i] # t
      BY <2>2 DEF LogOK
    <3> QED BY <1>1, <2>2, <3>1, <3>2, Monotone DEF LogOK
  <2> QED BY <2>1, <2>2, FilteredEffect
<1>3. ASSUME NEW t \in Trades, sub'[t] # "absent"
      PROVE  group' /\ streams'[t] # << >>
  <2>1. CASE sub[t] # "absent"
    BY <2>1, SubEffect, Monotone DEF LogOK
  <2>2. CASE sub[t] = "absent"
    <3>1. \A i \in (checkpoint + 1)..Len(filtered) : streams[filtered[i]] # << >>
      <4>1. checkpoint \in Nat
        BY DEF TypeOK
      <4> QED BY <4>1 DEF LogOK
    <3>2. group' /\ (streams[t] # << >> \/ streams'[t] # << >>)
      BY <1>3, <2>2, <3>1, SubEffect
    <3> QED BY <3>2, Monotone
  <2> QED BY <2>1, <2>2
<1> QED BY <1>2, <1>3 DEF LogOK

LEMMA SettledStep ==
    ASSUME TypeOK, LedgerOK, HandOK, SettledImpliesPosted, [Next]_vars
    PROVE  SettledImpliesPosted'
<1> SUFFICES ASSUME NEW t \in Trades, Settled(t)' PROVE Posted(t)'
  BY DEF SettledImpliesPosted
<1>1. CASE Settled(t)
  BY <1>1, Monotone DEF SettledImpliesPosted
<1>2. CASE ~Settled(t)
  <2>1. ASSUME NEW w \in Workers, RecordSettled(w) PROVE Posted(t)
    <3>1. hand[w].trade = t
      BY <1>2, <2>1, RecordSettledEffect DEF Settled, TypeOK
    <3> QED BY <2>1, <3>1 DEF RecordSettled, HandOK, Busy
  <2>2. ASSUME NEW u \in Trades, Capture(u) PROVE FALSE
    BY <1>2, <2>2, StreamShapes DEF Capture, Settled, TypeOK
  <2>3. ASSUME UNCHANGED streams PROVE FALSE
    BY <1>2, <2>3 DEF Settled
  <2>4. \/ \E w \in Workers : RecordSettled(w)
        \/ \E u \in Trades : Capture(u)
        \/ UNCHANGED streams
    BY DEF Next, Step, vars, kurrent, Restart, Deliver, RejectMalformed, Nack,
           LookupTransfers, CreateTransfers, CreateRefused, Ack, Report, Raise,
           AckLost, Crash, OrphanTimeout, SlowTimeout, SaveCheckpoint, ServerRestart
  <2> QED BY <2>1, <2>2, <2>3, <2>4, Monotone
<1> QED BY <1>1, <1>2

LEMMA AckedStep ==
    ASSUME TypeOK, LedgerOK, HandOK, AckedImpliesSettled, [Next]_vars
    PROVE  AckedImpliesSettled'
<1> SUFFICES ASSUME NEW t \in Trades, sub'[t] = "acked"
             PROVE  Posted(t)' /\ Settled(t)'
  BY DEF AckedImpliesSettled
<1>1. Posted(t) /\ Settled(t)
  <2>1. CASE sub[t] = "acked"
    BY <2>1 DEF AckedImpliesSettled
  <2>2. ASSUME NEW w \in Workers, Ack(w), hand[w].trade = t
        PROVE  Posted(t) /\ Settled(t)
    BY <2>2 DEF Ack, HandOK, Busy
  <2> QED BY <2>1, <2>2, SubEffect
<1> QED BY <1>1, Monotone

LEMMA CheckpointStep ==
    ASSUME TypeOK, LedgerOK, LogOK, AckedImpliesSettled, CheckpointCoversSettled,
           [Next]_vars
    PROVE  CheckpointCoversSettled'
<1>1. checkpoint \in Nat /\ checkpoint <= Len(filtered) /\ Len(filtered) \in Nat
  BY DEF TypeOK
<1>2. \A i \in 1..Len(filtered) : filtered[i] \in Trades
  BY DEF TypeOK
<1>3. ASSUME NEW i \in 1..checkpoint, UNCHANGED checkpoint, filtered'[i] = filtered[i]
      PROVE  Settled(filtered[i])' \/ sub'[filtered[i]] = "parked"
  <2> DEFINE t == filtered[i]
  <2>1. i \in 1..Len(filtered) /\ t \in Trades
    BY <1>1, <1>2
  <2>2. CASE Settled(t)
    BY <1>3, <2>1, <2>2, Monotone DEF Settled
  <2>3. CASE sub[t] = "parked"
    <3>1. group /\ streams[t] # << >>
      BY <2>1, <2>3 DEF LogOK
    <3>2. \A j \in (checkpoint + 1)..Len(filtered) : filtered[j] # t
      BY <1>1, <2>1 DEF LogOK
    <3> QED BY <2>1, <2>3, <3>1, <3>2, SubEffect
  <2> QED BY <2>2, <2>3 DEF CheckpointCoversSettled
<1>4. CASE UNCHANGED <<filtered, checkpoint>>
  BY <1>3, <1>4 DEF CheckpointCoversSettled, Settled
<1>5. CASE SaveCheckpoint
  <2>1. PICK n \in (checkpoint + 1)..Len(filtered) :
            /\ \A i \in 1..n : Resolved(filtered[i])
            /\ checkpoint' = n
            /\ UNCHANGED <<streams, filtered, sub>>
    BY <1>5 DEF SaveCheckpoint
  <2>2. ASSUME NEW i \in 1..n PROVE Settled(filtered[i]) \/ sub[filtered[i]] = "parked"
    <3>1. filtered[i] \in Trades
      BY <1>1, <1>2
    <3> QED BY <2>1, <3>1 DEF Resolved, AckedImpliesSettled
  <2> QED BY <2>1, <2>2 DEF CheckpointCoversSettled, Settled
<1>6. CASE ~UNCHANGED filtered
  <2>1. UNCHANGED checkpoint /\ \A i \in 1..Len(filtered) : filtered'[i] = filtered[i]
    BY <1>6, FilteredEffect
  <2>2. \A i \in 1..checkpoint : i \in 1..Len(filtered)
    BY <1>1
  <2> QED BY <1>3, <2>1, <2>2 DEF CheckpointCoversSettled, Settled
<1>7. UNCHANGED checkpoint \/ SaveCheckpoint
  BY DEF Next, Step, vars, kurrent, Restart, Deliver, RejectMalformed, Nack,
         LookupTransfers, CreateTransfers, CreateRefused, RecordSettled, Ack, Report,
         Raise, AckLost, Crash, Capture, OrphanTimeout, SlowTimeout, ServerRestart
<1> QED BY <1>4, <1>5, <1>6, <1>7

-----------------------------------------------------------------------------
(* The retry budget.                                                       *)

\* What RetriesPaid and RetryBudget say of one trade.
Paid(t) ==
    /\ IsFiniteSet(Racers(t))
    /\ retries[t] + Refusals(t) + (IF Orphaned(t) THEN 1 ELSE 0) <= 2 * faults
    /\ sub[t] = "parked" => 2 * faults > MaxRetries

LEMMA CountFacts ==
    ASSUME NEW S, IsFiniteSet(S)
    PROVE  /\ Cardinality(S) \in Nat /\ (S = {} <=> Cardinality(S) = 0)
           /\ \A T : T \subseteq S => /\ IsFiniteSet(T)
                                      /\ Cardinality(T) <= Cardinality(S)
           /\ \A x : /\ IsFiniteSet(S \cup {x}) /\ IsFiniteSet(S \ {x})
                     /\ x \notin S => Cardinality(S \cup {x}) = Cardinality(S) + 1
                     /\ x \in S => Cardinality(S \ {x}) = Cardinality(S) - 1
BY FS_CardinalityType, FS_EmptySet, FS_Subset, FS_AddElement, FS_RemoveElement

\* A step of replica w moves no other replica.
LEMMA OneReplica ==
    ASSUME TypeOK, NEW w \in Workers,
           \/ Restart(w) \/ (\E t \in Trades : Deliver(w, t)) \/ Step(w)
           \/ Raise(w) \/ AckLost(w) \/ Crash(w)
    PROVE  \A v \in Workers \ {w} : pc'[v] = pc[v] /\ hand'[v] = hand[v]
BY DEF Step, kurrent, Restart, Deliver, RejectMalformed, Nack, LetGo, Goto,
       LookupTransfers, CreateTransfers, CreateRefused, RecordSettled, Ack,
       Report, Raise, AckLost, Crash, TypeOK

\* So it changes at most its own place among the racers.
LEMMA RacersOf ==
    ASSUME NEW w \in Workers, NEW t \in Trades, Posted(t)' = Posted(t),
           \A v \in Workers \ {w} : pc'[v] = pc[v] /\ hand'[v] = hand[v]
    PROVE  Racers(t)' \ {w} = Racers(t) \ {w}
BY DEF Racers

\* A step that leaves t's event and t's racers alone leaves its account alone.
LEMMA Untouched ==
    ASSUME TypeOK, TypeOK', NEW t \in Trades, Paid(t),
           Racers(t)' = Racers(t), Posted(t)' = Posted(t),
           retries'[t] = retries[t], faults' >= faults,
           sub'[t] = sub[t] \/ (sub[t] = "absent" /\ sub'[t] = "queued"),
           Orphaned(t)' => Orphaned(t)
    PROVE  Paid(t)'
<1>1. faults \in Nat /\ faults' \in Nat /\ retries[t] \in Nat
  BY DEF TypeOK
<1>2. Refusals(t)' = Refusals(t)
  BY DEF Refusals
<1>3. Refusals(t) \in Int
  BY CountFacts DEF Paid, Refusals
<1>4. sub'[t] = "parked" => sub[t] = "parked"
  OBVIOUS
<1>5. (retries[t] + Refusals(t) + (IF Orphaned(t) THEN 1 ELSE 0))' <= 2 * faults'
  BY <1>1, <1>2, <1>3 DEF Paid
<1>6. IsFiniteSet(Racers(t))'
  BY DEF Paid
<1>7. sub'[t] = "parked" => 2 * faults' > MaxRetries
  <2>1. MaxRetries \in Nat
    BY RetriesAssumption
  <2>2. \A x, y, z \in Nat : y >= x /\ 2 * x > z => 2 * y > z
    OBVIOUS
  <2>3. 2 * faults > MaxRetries => 2 * faults' > MaxRetries
    BY <1>1, <2>1, <2>2
  <2> QED BY <1>4, <2>3 DEF Paid
<1> QED BY <1>5, <1>6, <1>7 DEF Paid

\* A retry is granted or the event is parked, and somebody paid for it.
LEMMA RetryPaid ==
    ASSUME TypeOK, TypeOK', NEW t \in Trades, RetryMessage(t),
           IsFiniteSet(Racers(t)'), faults' >= faults,
           retries[t] + 1 + Cardinality(Racers(t)') <= 2 * faults'
    PROVE  Paid(t)'
<1>1. /\ faults' \in Nat /\ retries[t] \in Nat /\ MaxRetries \in Nat
      /\ Cardinality(Racers(t)') \in Nat
  BY CountFacts, RetriesAssumption DEF TypeOK
<1>2. sub'[t] \in {"queued", "parked"}
  BY RetryMessageEffect DEF TypeOK
<1>3. ~Orphaned(t)'
  BY <1>2 DEF Orphaned
<1>4. Refusals(t)' \in Int /\ Refusals(t)' <= Cardinality(Racers(t)')
  <2>1. Racers(t)' = {} => Cardinality(Racers(t)') = 0
    BY CountFacts
  <2> QED BY <1>1, <2>1 DEF Refusals
<1>5. CASE retries[t] < MaxRetries
  <2>1. sub'[t] = "queued" /\ retries'[t] = retries[t] + 1
    BY <1>5 DEF RetryMessage, TypeOK
  <2> QED BY <1>1, <1>3, <1>4, <2>1 DEF Paid
<1>6. CASE ~(retries[t] < MaxRetries)
  <2>1. retries'[t] = retries[t]
    BY <1>6 DEF RetryMessage
  <2> QED BY <1>1, <1>3, <1>4, <1>6, <2>1 DEF Paid
<1> QED BY <1>5, <1>6

\* A replica that fails with a delivery of t costs the trade one retry at most.
LEMMA NackPaid ==
    ASSUME TypeOK, TypeOK', LedgerOK, HandOK, NEW w \in Workers, NEW t \in Trades,
           pc[w] \in Busy, hand[w].trade = t, Nack(w), Paid(t),
           \/ faults' = faults + 1
           \/ faults' = faults /\ w \in Racers(t) /\ Posted(t)
    PROVE  Paid(t)'
<1>1. /\ faults \in Nat /\ faults' \in Nat /\ retries[t] \in Nat /\ faults' >= faults
      /\ sub[t] \in SubStates /\ hand[w] # None
  BY BusyHolds DEF TypeOK
<1>2. /\ Posted(t)' = Posted(t) /\ pc'[w] = "idle" /\ hand'[w] = None
      /\ \A v \in Workers \ {w} : pc'[v] = pc[v] /\ hand'[v] = hand[v]
  BY DEF Nack, LetGo, Goto, Posted, TypeOK
<1>3. Racers(t)' = Racers(t) \ {w}
  <2>1. w \notin Racers(t)'
    BY <1>2 DEF Racers
  <2> QED BY <1>2, <2>1, RacersOf
<1>4. w \notin Racers(t) => Posted(t)
  BY <1>1 DEF Racers, HandOK, Busy
<1> DEFINE n == Cardinality(Racers(t))
           m == Cardinality(Racers(t)')
<1>5. /\ n \in Nat /\ m \in Nat /\ IsFiniteSet(Racers(t)')
      /\ m <= n
      /\ w \in Racers(t) => m = n - 1
      /\ Racers(t) = {} <=> n = 0
      /\ Racers(t)' = {} <=> m = 0
  <2>1. IsFiniteSet(Racers(t))
    BY DEF Paid
  <2>2. IsFiniteSet(Racers(t)')
    BY <1>3, <2>1, CountFacts
  <2>3. n \in Nat /\ (Racers(t) = {} <=> n = 0)
    BY <2>1, CountFacts
  <2>4. m \in Nat /\ (Racers(t)' = {} <=> m = 0)
    BY <2>2, CountFacts
  <2>5. m <= n
    BY <1>3, <2>1, CountFacts
  <2>6. w \in Racers(t) => m = n - 1
    BY <1>3, <2>1, CountFacts
  <2> QED BY <2>2, <2>3, <2>4, <2>5, <2>6
<1> HIDE DEF n, m
<1>6. CASE sub[t] = "outstanding"
  <2>1. RetryMessage(t)
    BY <1>6 DEF Nack
  <2>2. Refusals(t) \in Nat /\ m <= Refusals(t)
    BY <1>4, <1>5, <1>6 DEF Refusals, n
  <2>3. w \in Racers(t) /\ Posted(t) => m + 1 = Refusals(t)
    BY <1>5, <1>6 DEF Refusals, n
  <2>4. retries[t] + 1 + m <= 2 * faults'
    BY <1>1, <1>5, <2>2, <2>3 DEF Paid
  <2> QED BY <1>1, <1>5, <2>1, <2>4, RetryPaid DEF m
<1>7. CASE sub[t] # "outstanding"
  <2>1. sub' = sub /\ retries' = retries
    BY <1>7 DEF Nack
  <2>2. ~Orphaned(t) /\ ~Orphaned(t)'
    BY <1>7, <2>1 DEF Orphaned
  <2>3. /\ Refusals(t) \in Nat /\ Refusals(t)' \in Nat
        /\ Refusals(t)' <= Refusals(t)
    BY <1>2, <1>5, <2>1 DEF Refusals, n, m
  <2>4. retries[t] + Refusals(t)' <= 2 * faults'
    BY <1>1, <2>2, <2>3 DEF Paid
  <2>5. sub[t] = "parked" => 2 * faults' > MaxRetries
    BY <1>1, RetriesAssumption DEF Paid
  <2>6. retries[t] + Refusals(t)' + (IF Orphaned(t)' THEN 1 ELSE 0) <= 2 * faults'
    BY <1>1, <2>2, <2>3, <2>4
  <2> QED BY <1>5, <2>1, <2>5, <2>6 DEF Paid
<1> QED BY <1>6, <1>7

\* Every retry a step grants, and every one it makes certain, is paid for: two
\* by each failure, and none by anything else.
LEMMA BudgetStep ==
    ASSUME TypeOK, TypeOK', LedgerOK, HandOK, LogOK, RetriesPaid, RetryBudget,
           [Next]_vars
    PROVE  RetriesPaid' /\ RetryBudget'
<1> SUFFICES ASSUME NEW t \in Trades \ Malformed PROVE Paid(t)'
  BY DEF RetriesPaid, RetryBudget, Paid
<1>1. Paid(t) /\ IsFiniteSet(Racers(t)) /\ t \in Trades
  BY DEF RetriesPaid, RetryBudget, Paid
<1>2. /\ faults \in Nat /\ faults' \in Nat /\ retries[t] \in Nat
      /\ sub[t] \in SubStates
  BY DEF TypeOK
<1> DEFINE Mine(w) == hand[w] # None /\ hand[w].trade = t
           n == Cardinality(Racers(t))
           m == Cardinality(Racers(t)')
<1>3. n \in Nat /\ (Racers(t) = {} <=> n = 0)
  BY <1>1, CountFacts
<1>4. \A w \in Workers : /\ w \in Racers(t) => Mine(w)
                         /\ pc[w] \in Busy <=> hand[w] # None
  BY DEF Racers, TypeOK
\* A step of a replica that holds no delivery of t.
<1>5. ASSUME NEW w \in Workers, ~Mine(w), ~(Mine(w)'), Posted(t)' = Posted(t),
             \A v \in Workers \ {w} : pc'[v] = pc[v] /\ hand'[v] = hand[v],
             sub'[t] = sub[t] \/ (sub[t] = "absent" /\ sub'[t] = "queued"),
             retries'[t] = retries[t], faults' >= faults
      PROVE  Paid(t)'
  <2>1. w \notin Racers(t) /\ w \notin Racers(t)'
    BY <1>5 DEF Racers
  <2>2. Racers(t)' = Racers(t)
    BY <1>1, <1>5, <2>1, RacersOf
  <2>3. Orphaned(t)' => Orphaned(t)
    BY <1>5 DEF Orphaned
  <2> QED BY <1>1, <1>5, <2>2, <2>3, Untouched
<1>6. ASSUME NEW w \in Workers, Restart(w) PROVE Paid(t)'
  <2>1. /\ pc'[w] = "idle" /\ hand' = hand /\ retries' = retries /\ faults' = faults
        /\ ledger' = ledger /\ hand[w] = None
        /\ sub'[t] = sub[t] \/ (sub[t] = "absent" /\ sub'[t] = "queued")
    BY <1>1, <1>4, <1>6 DEF Restart, EnsureSubscription, Goto, TypeOK, LogOK, Busy, SubStates
  <2> QED BY <1>2, <1>5, <1>6, <2>1, OneReplica DEF Posted
<1>7. ASSUME NEW w \in Workers, NEW u \in Trades, Deliver(w, u) PROVE Paid(t)'
  <2>1. /\ pc[w] = "idle" /\ hand[w] = None /\ pc'[w] = "lookup"
        /\ hand'[w] = [trade |-> u, retry |-> retries[u]] /\ hand'[w] # None
        /\ sub[u] = "queued" /\ sub' = [sub EXCEPT ![u] = "outstanding"]
        /\ UNCHANGED <<ledger, retries, faults>>
        /\ \A v \in Workers \ {w} : pc'[v] = pc[v] /\ hand'[v] = hand[v]
    BY <1>4, <1>7, NoneAssumption DEF Deliver, Goto, TypeOK, Busy
  <2>2. CASE u # t
    <3>1. ~Mine(w) /\ ~(Mine(w)')
      BY <2>1, <2>2
    <3>2. sub'[t] = sub[t] /\ retries'[t] = retries[t] /\ faults' >= faults
      BY <1>2, <2>1, <2>2 DEF TypeOK
    <3>3. Posted(t)' = Posted(t)
      BY <2>1 DEF Posted
    <3> QED BY <1>5, <2>1, <3>1, <3>2, <3>3
  <2>3. CASE u = t
    <3>1. Posted(t)' = Posted(t) /\ sub'[t] = "outstanding" /\ sub[t] = "queued"
      BY <2>1, <2>3 DEF Posted, TypeOK
    <3>2. ~Orphaned(t)' /\ ~Orphaned(t)
      BY <2>1, <2>3, <3>1 DEF Orphaned
    <3>3. w \notin Racers(t) /\ (w \in Racers(t)' <=> ~Posted(t))
      BY <2>1, <2>3, <3>1 DEF Racers
    <3>4. Racers(t)' \ {w} = Racers(t)
      BY <1>1, <2>1, <3>1, <3>3, RacersOf
    <3>5. /\ IsFiniteSet(Racers(t)') /\ m \in Nat
          /\ m = IF Posted(t) THEN n ELSE n + 1
      <4>1. CASE Posted(t)
        <5>1. Racers(t)' = Racers(t)
          BY <3>3, <3>4, <4>1
        <5> QED BY <1>1, <1>3, <4>1, <5>1
      <4>2. CASE ~Posted(t)
        <5>1. Racers(t)' = Racers(t) \cup {w}
          BY <3>3, <3>4, <4>2
        <5>2. IsFiniteSet(Racers(t)') /\ m = n + 1
          BY <1>1, <3>3, <5>1, CountFacts
        <5> QED BY <1>3, <4>2, <5>2
      <4> QED BY <4>1, <4>2
    <3>6. Racers(t)' = {} <=> m = 0
      BY <3>5, CountFacts
    <3> HIDE DEF n, m
    <3>7. Refusals(t)' = Refusals(t) /\ Refusals(t) \in Int
      BY <1>3, <3>1, <3>5, <3>6 DEF Refusals, n, m
    <3> QED BY <1>1, <1>2, <2>1, <3>1, <3>2, <3>5, <3>7 DEF Paid
  <2> QED BY <2>2, <2>3
\* A replica's own steps, for another trade.
<1>8. ASSUME NEW w \in Workers, ~Mine(w), Step(w) \/ Raise(w) \/ AckLost(w) \/ Crash(w)
      PROVE  Paid(t)'
  <2>1. \A v \in Workers \ {w} : pc'[v] = pc[v] /\ hand'[v] = hand[v]
    BY <1>8, OneReplica
  <2>2. hand'[w] = hand[w] \/ hand'[w] = None
    BY <1>8 DEF Step, RejectMalformed, Nack, LetGo, LookupTransfers, CreateTransfers,
                CreateRefused, RecordSettled, Ack, Report, Raise, AckLost, Crash,
                kurrent, TypeOK
  <2>3. ~(Mine(w)')
    BY <1>8, <2>2
  <2>4. faults' >= faults
    BY <1>2, <1>8 DEF Step, RejectMalformed, LookupTransfers, CreateTransfers,
                CreateRefused, RecordSettled, Ack, Report, Raise, AckLost, Crash, Fault
  <2>5. CASE Crash(w)
    BY <1>5, <1>8, <2>1, <2>3, <2>4, <2>5 DEF Crash, kurrent, Posted
  <2>6. CASE pc[w] \in Busy /\ ~Crash(w)
    <3>1. hand[w] # None /\ hand[w].trade \in Trades /\ hand[w].trade # t
      BY <1>8, <2>6, BusyHolds
    <3>2. sub'[t] = sub[t] /\ retries'[t] = retries[t]
      BY <1>8, <2>6, <3>1 DEF Step, RejectMalformed, Nack, RetryMessage, LetGo,
            LookupTransfers, CreateTransfers, CreateRefused, RecordSettled, Ack,
            Report, Raise, AckLost, kurrent, TypeOK
    <3>3. Posted(t)' = Posted(t)
      <4>1. CASE CreateTransfers(w)
        <5> DEFINE u == hand[w].trade
        <5>1. /\ Len(ledger) \in Nat /\ Len(ledger') = Len(ledger) + 1
              /\ \A i \in 1..Len(ledger) : ledger'[i] = ledger[i]
              /\ ledger'[Len(ledger) + 1] = [id |-> u, trade |-> u]
          BY <4>1, CreateTransfersEffect DEF TypeOK
        <5>2. \A i \in 1..Len(ledger') : i \in 1..Len(ledger) \/ i = Len(ledger) + 1
          BY <5>1
        <5>3. ledger'[Len(ledger) + 1].trade # t
          BY <3>1, <5>1
        <5>4. \A i \in 1..Len(ledger) : i \in 1..Len(ledger')
          BY <5>1
        <5> QED BY <5>1, <5>2, <5>3, <5>4 DEF Posted
      <4>2. CASE ~CreateTransfers(w)
        <5>1. UNCHANGED ledger
          BY <1>8, <2>6, <4>2 DEF Step, RejectMalformed, Nack, LookupTransfers,
                CreateRefused, RecordSettled, Ack, Report, Raise, AckLost, kurrent
        <5> QED BY <5>1 DEF Posted
      <4> QED BY <4>1, <4>2
    <3> QED BY <1>5, <2>1, <2>3, <2>4, <3>2, <3>3, <1>8
  <2>7. pc[w] \in Busy \/ Crash(w)
    BY <1>8 DEF Step, RejectMalformed, LookupTransfers, CreateTransfers, CreateRefused,
         RecordSettled, Ack, Report, Raise, AckLost, Busy
  <2> QED BY <2>5, <2>6, <2>7
\* And for t.
<1>9. ASSUME NEW w \in Workers, Mine(w), pc[w] \in Busy,
             \A v \in Workers \ {w} : pc'[v] = pc[v] /\ hand'[v] = hand[v],
             hand' = hand, pc'[w] \in Busy, UNCHANGED <<ledger, sub, retries, faults>>,
             w \in Racers(t)' <=> w \in Racers(t),
             pc[w] # "report", pc'[w] # "report"
      PROVE  Paid(t)'
  <2>1. Posted(t)' = Posted(t)
    BY <1>9 DEF Posted
  <2>2. Racers(t)' = Racers(t)
    BY <1>1, <1>9, <2>1, RacersOf
  <2>3. ~Orphaned(t) /\ ~Orphaned(t)'
    BY <1>9 DEF Orphaned
  <2> QED BY <1>1, <1>2, <1>9, <2>1, <2>2, <2>3, Untouched
<1>10. ASSUME NEW w \in Workers, Mine(w), LookupTransfers(w) PROVE Paid(t)'
  <2>1. /\ pc[w] = "lookup" /\ UNCHANGED <<hand, ledger, sub, retries, faults>>
        /\ pc'[w] = IF TransferExists(t) THEN "record" ELSE "create"
    BY <1>10 DEF LookupTransfers, AfterLookup, TransferId, Goto, kurrent, TypeOK
  <2>2. TransferExists(t) <=> Posted(t)
    BY DEF TransferExists, Posted, LedgerOK
  <2>3. Posted(t)' = Posted(t)
    BY <2>1 DEF Posted
  <2>4. w \in Racers(t)' <=> w \in Racers(t)
    BY <1>10, <2>1, <2>2, <2>3 DEF Racers
  <2> QED BY <1>9, <1>10, <2>1, <2>4, OneReplica DEF Step, Busy
<1>11. ASSUME NEW w \in Workers, Mine(w), CreateTransfers(w) PROVE Paid(t)'
  <2>1. /\ pc[w] = "create" /\ pc'[w] = "record"
        /\ UNCHANGED <<hand, sub, retries, faults>>
        /\ \A v \in Workers \ {w} : pc'[v] = pc[v]
    BY <1>11 DEF CreateTransfers, Goto, kurrent, TypeOK
  <2>2. ~Posted(t)
    BY <1>11, CreateTransfersEffect
  <2>3. Posted(t)'
    <3>1. /\ Len(ledger) \in Nat /\ Len(ledger') = Len(ledger) + 1
          /\ ledger'[Len(ledger) + 1] = [id |-> t, trade |-> t]
      BY <1>11, CreateTransfersEffect DEF TypeOK
    <3>2. Len(ledger) + 1 \in 1..Len(ledger') /\ ledger'[Len(ledger) + 1].trade = t
      BY <3>1
    <3> QED BY <3>2 DEF Posted
  <2>4. w \in Racers(t) /\ Racers(t)' \subseteq Racers(t) \ {w}
    BY <1>11, <2>1, <2>2, <2>3 DEF Racers
  <2>5. IsFiniteSet(Racers(t)') /\ m \in Nat /\ m <= n - 1
    <3>1. IsFiniteSet(Racers(t) \ {w}) /\ Cardinality(Racers(t) \ {w}) = n - 1
      BY <1>1, <2>4, CountFacts
    <3>2. IsFiniteSet(Racers(t)') /\ m <= n - 1
      BY <2>4, <3>1, CountFacts
    <3> QED BY <3>2, CountFacts
  <2>6. ~Orphaned(t) /\ ~Orphaned(t)'
    BY <1>11, <2>1 DEF Orphaned
  <2> HIDE DEF n, m
  <2>7. /\ Refusals(t) \in Int /\ Refusals(t)' \in Int
        /\ Refusals(t)' <= Refusals(t)
    BY <1>3, <2>2, <2>3, <2>4, <2>5 DEF Refusals, n, m
  <2> QED BY <1>1, <1>2, <2>1, <2>5, <2>6, <2>7 DEF Paid
<1>12. ASSUME NEW w \in Workers, Mine(w), CreateRefused(w) PROVE Paid(t)'
  <2>1. pc[w] = "create" /\ Posted(t) /\ Nack(w) /\ faults' = faults
    BY <1>12 DEF CreateRefused, TransferId, TransferExists, Posted, LedgerOK
  <2>2. w \in Racers(t)
    BY <1>12, <2>1 DEF Racers
  <2> QED BY <1>1, <1>12, <2>1, <2>2, NackPaid DEF Busy
<1>13. ASSUME NEW w \in Workers, Mine(w), RejectMalformed(w) PROVE Paid(t)'
  BY <1>13 DEF RejectMalformed
<1>14. ASSUME NEW w \in Workers, Mine(w), RecordSettled(w) PROVE Paid(t)'
  <2>1. /\ pc[w] = "record" /\ pc'[w] = "ack"
        /\ UNCHANGED <<hand, ledger, sub, retries, faults>>
    BY <1>14 DEF RecordSettled, Goto, TypeOK
  <2>2. w \in Racers(t)' <=> w \in Racers(t)
    BY <2>1 DEF Racers
  <2> QED BY <1>9, <1>14, <2>1, <2>2, OneReplica DEF Step, Busy
<1>15. ASSUME NEW w \in Workers, Mine(w), Ack(w) \/ Report(w) \/ AckLost(w)
       PROVE  Paid(t)'
  <2>1. /\ pc[w] \in {"ack", "report"} /\ pc'[w] \in {"report", "idle"}
        /\ UNCHANGED <<ledger, retries>>
        /\ \A v \in Workers \ {w} : pc'[v] = pc[v] /\ hand'[v] = hand[v]
    BY <1>15, OneReplica DEF Step, Ack, Report, AckLost, Goto, LetGo, kurrent, TypeOK
  <2>2. Posted(t)' = Posted(t)
    BY <2>1 DEF Posted
  <2>7. Posted(t)
    BY <1>15, <2>1 DEF HandOK, Busy
  <2>3. Racers(t)' = Racers(t)
    <3>1. pc[w] \notin {"lookup", "create"} /\ pc'[w] \notin {"lookup", "create"}
      BY <2>1
    <3>2. w \notin Racers(t) /\ w \notin Racers(t)'
      BY <3>1 DEF Racers
    <3> QED BY <1>1, <2>1, <2>2, <3>2, RacersOf
  <2>4. CASE Report(w)
    <3>1. UNCHANGED <<sub, faults>> /\ pc[w] = "report" /\ hand'[w] = None
      BY <2>4 DEF Report, LetGo, kurrent, TypeOK
    <3>2. ASSUME Orphaned(t)', NEW v \in Workers, hand[v] # None, hand[v].trade = t
          PROVE  pc[v] = "report"
      <4>1. v # w => pc'[v] = pc[v] /\ hand'[v] = hand[v]
        BY <2>1
      <4> QED BY <3>1, <3>2, <4>1 DEF Orphaned
    <3>3. Orphaned(t)' => Orphaned(t)
      BY <3>1, <3>2 DEF Orphaned
    <3> QED BY <1>1, <1>2, <2>1, <2>2, <2>3, <3>1, <3>3, Untouched
  <2>5. CASE Ack(w)
    <3>1. /\ UNCHANGED faults
          /\ sub'[t] = IF sub[t] = "outstanding" THEN "acked" ELSE sub[t]
      BY <1>1, <1>15, <2>5 DEF Ack, TypeOK
    <3>2. ~Orphaned(t) /\ ~Orphaned(t)'
      BY <1>15, <2>5, <3>1 DEF Orphaned, Ack
    <3>3. Refusals(t)' = Refusals(t)
      BY <2>2, <2>3, <2>7 DEF Refusals
    <3>4. sub'[t] = "parked" => sub[t] = "parked"
      BY <3>1
    <3>5. IsFiniteSet(Racers(t))'
      BY <1>1, <2>3
    <3> QED BY <1>1, <1>2, <2>1, <3>1, <3>2, <3>3, <3>4, <3>5 DEF Paid
  <2>6. CASE AckLost(w)
    <3>1. UNCHANGED sub /\ faults' = faults + 1
      BY <2>6 DEF AckLost, Fault, kurrent
    <3>2. Refusals(t)' = Refusals(t) /\ Refusals(t) \in Int
      BY <1>3, <2>2, <2>3, <2>7 DEF Refusals
    <3>3. IsFiniteSet(Racers(t))'
      BY <1>1, <2>3
    <3> QED BY <1>1, <1>2, <2>1, <3>1, <3>2, <3>3, RetriesAssumption DEF Paid
  <2> QED BY <1>15, <2>4, <2>5, <2>6
<1>16. ASSUME NEW w \in Workers, Mine(w), Raise(w) PROVE Paid(t)'
  BY <1>1, <1>16, NackPaid DEF Raise, Fault
<1>17. ASSUME NEW w \in Workers, Mine(w), Crash(w) PROVE Paid(t)'
  <2>1. /\ pc'[w] = "down" /\ UNCHANGED <<ledger, sub, retries>> /\ faults' = faults + 1
        /\ \A v \in Workers \ {w} : pc'[v] = pc[v] /\ hand'[v] = hand[v]
    BY <1>17, OneReplica DEF Crash, Fault, LetGo, Goto, kurrent, TypeOK
  <2>2. Posted(t)' = Posted(t)
    BY <2>1 DEF Posted
  <2>3. Racers(t)' \subseteq Racers(t)
    <3>1. w \notin Racers(t)'
      BY <2>1 DEF Racers
    <3> QED BY <1>1, <2>1, <2>2, <3>1, RacersOf
  <2>4. /\ IsFiniteSet(Racers(t)') /\ m \in Nat /\ m <= n
        /\ Racers(t)' = {} <=> m = 0
    <3>1. IsFiniteSet(Racers(t)') /\ m <= n
      BY <1>1, <2>3, CountFacts
    <3> QED BY <3>1, CountFacts
  <2> HIDE DEF n, m
  <2>5. /\ Refusals(t) \in Int /\ Refusals(t)' \in Int
        /\ Refusals(t)' <= Refusals(t)
    BY <1>3, <2>1, <2>2, <2>4 DEF Refusals, n, m
  <2> QED BY <1>1, <1>2, <2>1, <2>4, <2>5, RetriesAssumption DEF Paid
<1>18. ASSUME NEW u \in Trades, Capture(u) PROVE Paid(t)'
  <2>1. /\ UNCHANGED <<ledger, retries, pc, hand, faults>>
        /\ sub'[t] = sub[t] \/ (sub[t] = "absent" /\ sub'[t] = "queued")
    BY <1>1, <1>18 DEF Capture, TypeOK, LogOK
  <2>2. Posted(t)' = Posted(t) /\ Racers(t)' = Racers(t)
    BY <2>1 DEF Posted, Racers
  <2>3. Orphaned(t)' => Orphaned(t)
    BY <2>1 DEF Orphaned
  <2> QED BY <1>1, <1>2, <2>1, <2>2, <2>3, Untouched
<1>19. ASSUME NEW u \in Trades, u # t, OrphanTimeout(u) \/ SlowTimeout(u)
       PROVE  Paid(t)'
  <2>1. /\ UNCHANGED <<ledger, pc, hand>> /\ faults' >= faults
        /\ sub'[t] = sub[t] /\ retries'[t] = retries[t]
    BY <1>1, <1>2, <1>19 DEF OrphanTimeout, SlowTimeout, RetryMessage, Fault, TypeOK
  <2>2. Posted(t)' = Posted(t) /\ Racers(t)' = Racers(t) /\ Orphaned(t)' = Orphaned(t)
    BY <2>1 DEF Posted, Racers, Orphaned
  <2> QED BY <1>1, <1>2, <2>1, <2>2, Untouched
<1>20. CASE OrphanTimeout(t)
  <2>1. /\ UNCHANGED <<ledger, pc, hand, faults>> /\ RetryMessage(t)
        /\ sub[t] = "outstanding" /\ ~Held(t)
    BY <1>20 DEF OrphanTimeout
  <2>2. Orphaned(t) /\ Racers(t) = {}
    BY <2>1 DEF Orphaned, Held, Racers
  <2>3. Racers(t)' = Racers(t)
    BY <2>1 DEF Racers, Posted
  <2>4. m = 0 /\ IsFiniteSet(Racers(t)')
    BY <1>1, <1>3, <2>2, <2>3
  <2>5. Refusals(t) = 0
    BY <1>3, <2>2 DEF Refusals
  <2>6. retries[t] + 1 + m <= 2 * faults'
    BY <1>1, <1>2, <2>1, <2>2, <2>4, <2>5 DEF Paid
  <2> QED BY <1>1, <1>2, <2>1, <2>4, <2>6, RetryPaid
<1>21. CASE SlowTimeout(t)
  <2>1. /\ UNCHANGED <<ledger, pc, hand>> /\ RetryMessage(t) /\ faults' = faults + 1
        /\ sub[t] = "outstanding"
    BY <1>21 DEF SlowTimeout, Fault
  <2>2. Racers(t)' = Racers(t)
    BY <2>1 DEF Racers, Posted
  <2>3. m = n /\ IsFiniteSet(Racers(t)')
    BY <1>1, <2>2
  <2> HIDE DEF n, m
  <2>4. Refusals(t) \in Int /\ n <= Refusals(t) + 1
    BY <1>3 DEF Refusals, n
  <2>5. retries[t] + 1 + m <= 2 * faults'
    BY <1>1, <1>2, <1>3, <2>1, <2>3, <2>4 DEF Paid
  <2> QED BY <1>1, <1>2, <2>1, <2>3, <2>5, RetryPaid DEF m
<1>22. CASE ServerRestart
  <2> DEFINE Forgotten == {filtered[i] : i \in (checkpoint + 1)..Len(filtered)}
  <2>1. /\ UNCHANGED <<ledger, pc, hand>> /\ faults' = faults + 1
        /\ sub'[t] = IF t \in Forgotten THEN "queued" ELSE sub[t]
        /\ retries'[t] = IF t \in Forgotten THEN 0 ELSE retries[t]
    BY <1>1, <1>22 DEF ServerRestart, Fault
  <2> HIDE DEF Forgotten
  <2>2. Posted(t)' = Posted(t) /\ Racers(t)' = Racers(t)
    BY <2>1 DEF Posted, Racers
  <2>3. m = n /\ IsFiniteSet(Racers(t)')
    BY <1>1, <2>2
  <2>4. Orphaned(t)' => Orphaned(t)
    BY <2>1 DEF Orphaned
  <2> HIDE DEF n, m
  <2>5. /\ Refusals(t) \in Int /\ Refusals(t)' \in Int
        /\ Refusals(t)' <= Refusals(t) + 1
    BY <1>3, <2>1, <2>2, <2>3 DEF Refusals, n, m
  <2>6. sub'[t] = "parked" => sub[t] = "parked"
    BY <2>1
  <2>7. retries'[t] \in Nat /\ retries'[t] <= retries[t]
    BY <1>2, <2>1
  <2> QED BY <1>1, <1>2, <2>1, <2>3, <2>4, <2>5, <2>6, <2>7, RetriesAssumption DEF Paid
<1>23. CASE UNCHANGED <<ledger, sub, retries, pc, hand, faults>>
  <2>1. Posted(t)' = Posted(t) /\ Racers(t)' = Racers(t) /\ Orphaned(t)' = Orphaned(t)
    BY <1>23 DEF Posted, Racers, Orphaned
  <2> QED BY <1>1, <1>2, <1>23, <2>1, Untouched
<1>24. SaveCheckpoint \/ UNCHANGED vars => UNCHANGED <<ledger, sub, retries, pc, hand, faults>>
  BY DEF SaveCheckpoint, vars
<1> HIDE DEF Mine, n, m
<1> QED
  BY <1>6, <1>7, <1>8, <1>10, <1>11, <1>12, <1>13, <1>14, <1>15, <1>16, <1>17, <1>18,
     <1>19, <1>20, <1>21, <1>22, <1>23, <1>24 DEF Next, Step

-----------------------------------------------------------------------------
(* The theorems.                                                           *)

\* A replica's place in settle always says truly what the ledger and the
\* stream already hold, whatever the other replicas and the server do.
THEOREM InvariantHolds == Spec => []IInv
<1>1. Init => IInv
  <2> SUFFICES ASSUME Init PROVE IInv
    OBVIOUS
  <2>1. TypeOK
    BY TypeInit
  <2>2. Len(ledger) = 0 /\ Len(filtered) = 0 /\ checkpoint = 0
    BY StreamShapes DEF Init
  <2>3. LedgerOK /\ AtMostOncePosted /\ CheckpointCoversSettled
    BY <2>2 DEF LedgerOK, AtMostOncePosted, CheckpointCoversSettled
  <2>4. HandOK /\ LogOK /\ AckedImpliesSettled
    BY <2>2 DEF Init, HandOK, Busy, LogOK, AckedImpliesSettled
  <2>5. SettledImpliesPosted
    BY StreamShapes DEF Init, SettledImpliesPosted, Settled
  <2>6. RetriesPaid /\ RetryBudget
    <3> SUFFICES ASSUME NEW t \in Trades \ Malformed
                 PROVE  /\ IsFiniteSet(Racers(t)) /\ Refusals(t) = 0 /\ retries[t] = 0
                        /\ ~Orphaned(t) /\ faults = 0 /\ sub[t] # "parked"
      BY DEF RetriesPaid, RetryBudget
    <3>1. Racers(t) = {}
      BY DEF Init, Racers
    <3>2. IsFiniteSet({}) /\ Cardinality({}) = 0
      BY FS_EmptySet
    <3> QED BY <3>1, <3>2 DEF Init, Refusals, Orphaned
  <2> QED BY <2>1, <2>3, <2>4, <2>5, <2>6 DEF IInv
<1>2. IInv /\ [Next]_vars => IInv'
  BY TypeStep, LedgerStep, SettledStep, HandStep, LogStep, AckedStep, CheckpointStep,
     BudgetStep
  DEF IInv
<1> QED BY <1>1, <1>2, PTL DEF Spec

\* Redelivery, retries and races never post a trade to the ledger twice.
THEOREM EffectivelyOnce == Spec => []AtMostOncePosted
<1>1. IInv => AtMostOncePosted
  BY DEF IInv
<1> QED BY <1>1, InvariantHolds, PTL

\* A malformed trade never reaches the ledger and is never recorded as settled,
\* however often it is delivered: parking is all that can become of it.
THEOREM MalformedGoesNoFurther ==
    Spec => [](\A t \in Malformed : ~Posted(t) /\ ~Settled(t) /\ sub[t] # "acked")
<1>1. IInv => \A t \in Malformed : ~Posted(t) /\ ~Settled(t) /\ sub[t] # "acked"
  <2> SUFFICES ASSUME IInv, NEW t \in Malformed
               PROVE  ~Posted(t) /\ ~Settled(t) /\ sub[t] # "acked"
    OBVIOUS
  <2>1. ~Posted(t)
    BY DEF IInv, LedgerOK, Posted
  <2>2. ~Settled(t) /\ sub[t] # "acked"
    BY <2>1, MalformedAssumption DEF IInv, SettledImpliesPosted, AckedImpliesSettled
  <2> QED BY <2>1, <2>2
<1> QED BY <1>1, InvariantHolds, PTL

\* An acknowledged event's trade is posted and settled.
THEOREM AckedTradesAreSettled == Spec => []AckedImpliesSettled
<1>1. IInv => AckedImpliesSettled
  BY DEF IInv
<1> QED BY <1>1, InvariantHolds, PTL

\* The server's checkpoint never passes a trade that is neither settled nor
\* parked, so a restart loses no work.
THEOREM RestartsLoseNothing == Spec => []CheckpointCoversSettled
<1>1. IInv => CheckpointCoversSettled
  BY DEF IInv
<1> QED BY <1>1, InvariantHolds, PTL

\* A well-formed trade is parked only after more than MaxRetries / 2 failures:
\* the races that redelivery itself provokes never use the retries up.
THEOREM RetriesLastLongEnough == Spec => []RetryBudget
<1>1. IInv => RetryBudget
  BY DEF IInv
<1> QED BY <1>1, InvariantHolds, PTL

-----------------------------------------------------------------------------
(* Settlement implements the life cycle of a trade.                        *)

PostedTrades == [i \in 1..Len(ledger) |-> ledger[i].trade]

\* The mapped ledger grows by the trade that is posted.
LEMMA PostedGrows ==
    ASSUME TypeOK, LedgerOK, NEW w \in Workers, CreateTransfers(w)
    PROVE  PostedTrades' = Append(PostedTrades, hand[w].trade)
<1> DEFINE t == hand[w].trade
           P == PostedTrades
           A == Append(P, t)
<1>1. /\ t \in Trades
      /\ Len(ledger') = Len(ledger) + 1
      /\ \A i \in 1..Len(ledger) : ledger'[i] = ledger[i]
      /\ ledger'[Len(ledger) + 1] = [id |-> t, trade |-> t]
  BY CreateTransfersEffect
<1>2. Len(ledger) \in Nat /\ \A i \in 1..Len(ledger) : ledger[i].trade \in Trades
  <2>1. ledger \in Seq([id : Trades, trade : Trades])
    BY DEF TypeOK
  <2>2. \A i \in 1..Len(ledger) : ledger[i] \in [id : Trades, trade : Trades]
    BY <2>1, ElementOfSeq
  <2> QED BY <2>1, <2>2
<1>3. P \in Seq(Trades) /\ Len(P) = Len(ledger)
  BY <1>2 DEF PostedTrades
<1> HIDE DEF t, P
<1>4. /\ A \in Seq(Trades) /\ Len(A) = Len(P) + 1
      /\ \A i \in 1..Len(P) : A[i] = P[i]
      /\ A[Len(P) + 1] = t
  BY <1>1, <1>3, AppendProperties
<1>5. PostedTrades' \in Seq(Trades) /\ Len(PostedTrades') = Len(ledger) + 1
  <2>1. \A i \in 1..Len(ledger') : ledger'[i].trade \in Trades
    BY <1>1, <1>2
  <2> QED BY <1>1, <1>2, <2>1 DEF PostedTrades
<1>6. \A i \in 1..Len(PostedTrades') : PostedTrades'[i] = A[i]
  BY <1>1, <1>2, <1>3, <1>4, <1>5 DEF PostedTrades, P
<1> HIDE DEF A
<1>7. PostedTrades' = A
  BY <1>3, <1>4, <1>5, <1>6, SeqEqual
<1> QED BY <1>7 DEF A, P, t

\* Each step of the service, of KurrentDB or of capture is a step of the life
\* cycle or leaves it alone: a trade is posted once, from Executed, and
\* recorded as settled once, after it is posted.
THEOREM Refinement == Spec => ImplementsLifecycle
<1>1. Init => Lifecycle!Init
  <2> SUFFICES ASSUME Init PROVE Lifecycle!Init
    OBVIOUS
  <2>1. [i \in 1..Len(ledger) |-> ledger[i].trade] = << >>
    BY DEF Init
  <2> QED BY <2>1 DEF Init, Lifecycle!Init
<1>2. IInv /\ [Next]_vars => [Lifecycle!Next]_(Lifecycle!vars)
  <2> SUFFICES ASSUME IInv, [Next]_vars PROVE [Lifecycle!Next]_(Lifecycle!vars)
    OBVIOUS
  <2>1. ASSUME NEW w \in Workers, NEW t \in Trades, CreateTransfers(w),
               t = hand[w].trade
        PROVE  Lifecycle!Next
    <3>1. t \in Trades /\ ~Posted(t)
      BY <2>1, CreateTransfersEffect DEF IInv
    <3>2. streams[t] # << >> /\ t \notin Malformed
      BY <2>1 DEF CreateTransfers, IInv, HandOK, Busy
    <3>3. streams[t] = Executed
      BY <3>1, <3>2 DEF IInv, TypeOK, SettledImpliesPosted, Settled
    <3>4. PostedTrades' = Append(PostedTrades, t)
      BY <2>1, PostedGrows DEF IInv
    <3>5. \A i \in 1..Len(PostedTrades) : PostedTrades[i] # t
      <4>1. Len(PostedTrades) = Len(ledger)
        BY DEF PostedTrades, IInv, TypeOK
      <4> QED BY <3>1, <4>1 DEF PostedTrades, Posted
    <3>6. UNCHANGED streams
      BY <2>1 DEF CreateTransfers, kurrent
    <3>7. Lifecycle!Post(t)
      <4>1. streams[t] = Lifecycle!Executed
        BY <3>3 DEF Executed, Lifecycle!Executed
      <4> QED BY <3>2, <3>4, <3>5, <3>6, <4>1 DEF Lifecycle!Post, PostedTrades
    <3> QED BY <3>1, <3>7 DEF Lifecycle!Next
  <2>2. ASSUME NEW w \in Workers, RecordSettled(w)
        PROVE  Lifecycle!Next \/ UNCHANGED Lifecycle!vars
    <3> DEFINE t == hand[w].trade
    <3>1. t \in Trades /\ UNCHANGED ledger
      BY <2>2, RecordSettledEffect DEF IInv, RecordSettled
    <3>2. Posted(t)
      BY <2>2 DEF RecordSettled, IInv, HandOK, Busy
    <3>3. CASE UNCHANGED streams
      BY <3>1, <3>3 DEF Lifecycle!vars
    <3>4. CASE /\ streams[t] = Executed
               /\ streams' = [streams EXCEPT ![t] = ExecutedAndSettled]
      <4>1. \E i \in 1..Len(PostedTrades) : PostedTrades[i] = t
        <5>1. Len(PostedTrades) = Len(ledger)
          BY DEF PostedTrades, IInv, TypeOK
        <5> QED BY <3>2, <5>1 DEF PostedTrades, Posted
      <4>2. Lifecycle!Settle(t)
        BY <3>1, <3>4, <4>1
        DEF Lifecycle!Settle, PostedTrades, Executed, ExecutedAndSettled,
            Lifecycle!Executed, Lifecycle!ExecutedAndSettled
      <4> QED BY <3>1, <4>2 DEF Lifecycle!Next
    <3> QED BY <2>2, <3>3, <3>4, RecordSettledEffect DEF IInv
  <2>3. ASSUME NEW t \in Trades, Capture(t) PROVE Lifecycle!Next
    <3>1. Lifecycle!Execute(t)
      BY <2>3 DEF Capture, Lifecycle!Execute, Executed, Lifecycle!Executed
    <3> QED BY <3>1 DEF Lifecycle!Next
  <2>4. CASE UNCHANGED <<streams, ledger>>
    BY <2>4 DEF Lifecycle!vars
  <2>5. \/ \E w \in Workers : CreateTransfers(w) \/ RecordSettled(w)
        \/ \E t \in Trades : Capture(t)
        \/ UNCHANGED <<streams, ledger>>
    BY DEF Next, Step, vars, kurrent, Restart, Deliver, RejectMalformed, Nack,
           LookupTransfers, CreateRefused, Ack, Report, Raise, AckLost, Crash,
           OrphanTimeout, SlowTimeout, SaveCheckpoint, ServerRestart
  <2>6. \A w \in Workers : CreateTransfers(w) => hand[w].trade \in Trades
    BY CreateTransfersEffect DEF IInv
  <2> QED BY <2>1, <2>2, <2>3, <2>4, <2>5, <2>6
<1> QED BY <1>1, <1>2, InvariantHolds, PTL
        DEF Spec, ImplementsLifecycle, Lifecycle!Spec
=============================================================================
