--------------------------- MODULE TradeLifecycle ---------------------------
(***************************************************************************)
(* What the pipeline promises of a trade, without any of the machinery     *)
(* that keeps the promise: a fill is executed once, its movements are      *)
(* posted to the ledger once, and only then is TradeSettled recorded next  *)
(* to TradeExecuted in the trade's stream.  A malformed fill (one that     *)
(* compute_postings rejects) is executed and goes no further.              *)
(***************************************************************************)
EXTENDS Naturals, Sequences

CONSTANTS
    Trades,     \* trade ids
    Malformed   \* the trades whose fill compute_postings rejects

VARIABLES
    streams,    \* streams[t]: the event types in the stream trade-<t>
    posted      \* the trades whose movements the ledger holds, in posting order

vars == <<streams, posted>>

Executed == <<"TradeExecuted">>
ExecutedAndSettled == <<"TradeExecuted", "TradeSettled">>

TypeOK ==
    /\ streams \in [Trades -> {<< >>, Executed, ExecutedAndSettled}]
    /\ posted \in Seq(Trades \ Malformed)

Init ==
    /\ streams = [t \in Trades |-> << >>]
    /\ posted = << >>

\* The first capture of the fill: the stream must not exist yet.
Execute(t) ==
    /\ streams[t] = << >>
    /\ streams' = [streams EXCEPT ![t] = Executed]
    /\ UNCHANGED posted

\* The trade's transfers reach the ledger, all of them and only once.
Post(t) ==
    /\ streams[t] = Executed
    /\ t \notin Malformed
    /\ \A i \in 1..Len(posted) : posted[i] # t
    /\ posted' = Append(posted, t)
    /\ UNCHANGED streams

\* TradeSettled is recorded, after the posting and at stream version 1.
Settle(t) ==
    /\ streams[t] = Executed
    /\ \E i \in 1..Len(posted) : posted[i] = t
    /\ streams' = [streams EXCEPT ![t] = ExecutedAndSettled]
    /\ UNCHANGED posted

Next == \E t \in Trades : Execute(t) \/ Post(t) \/ Settle(t)

Spec == Init /\ [][Next]_vars
=============================================================================
