----------------------------- MODULE Reconciler -----------------------------
(***************************************************************************)
(* The reconciler (src/services/reconciler/main.py) beside the pipeline it *)
(* watches.  Each cycle replays the event log into expected balances, then *)
(* reads the ledger's posted balances, and publishes the difference as     *)
(* aequor_reconciliation_drift.  The two reads are not one: trades are     *)
(* executed, posted and settled before, between and after them.            *)
(*                                                                         *)
(* The pipeline is any implementation of TradeLifecycle; Settlement is     *)
(* one.  Amounts are the real ones: a trade only the log read saw and one  *)
(* only the ledger read saw can cancel out, as they can in the code.       *)
(***************************************************************************)
EXTENDS Postings, FiniteSets, Functions

CONSTANTS
    Trades,     \* trade ids
    FillOf,     \* FillOf[t]: the fill t is executed with
    MaxErrors   \* bound on cycles that end in an exception

Malformed == {t \in Trades : ~Accepted(FillOf[t])}

\* A trade id is a uuid in hexadecimal, so that there are finitely many.
ASSUME TradesAssumption == IsFiniteSet(Trades)

\* float() has made numbers of the quantity and the price.
ASSUME FillsAssumption ==
    /\ DOMAIN FillOf = Trades
    /\ \A t \in Trades : FillOf[t].qty \in Int /\ FillOf[t].price \in Int
ASSUME ErrorsAssumption == MaxErrors \in Nat

VARIABLES
    streams, posted,  \* the pipeline, see TradeLifecycle
    pc,         \* "log" or "ledger": the read that comes next
    seen,       \* the trades this cycle has replayed; the balances it expects
    settled,    \* the number of TradeSettled events it has replayed
    drift,      \* the gauges: published difference,
    unsettled,  \* and number of trades executed and not settled
    errors      \* cycles that have failed

pipeline == <<streams, posted>>
gauges == <<drift, unsettled>>
vars == <<streams, posted, pc, seen, settled, drift, unsettled, errors>>

Pipeline == INSTANCE TradeLifecycle

TypeOK ==
    /\ Pipeline!TypeOK
    /\ pc \in {"log", "ledger"}
    /\ seen \subseteq Trades
    /\ settled \in 0..Cardinality(Trades)
    /\ drift \in Nat
    /\ unsettled \in 0..Cardinality(Trades)
    /\ errors \in 0..MaxErrors

Init ==
    /\ Pipeline!Init
    /\ pc = "log"
    /\ seen = {}
    /\ settled = 0
    /\ drift = 0 /\ unsettled = 0
    /\ errors = 0

-----------------------------------------------------------------------------
(* Balances.                                                               *)

Entries == {"debit", "credit"} \X all_accounts

Total(f, S) == SumFunctionOnSet(f, S)

\* What a trade's movements add to each account's debits and credits.
Turnover ==
    [t \in Trades |->
        LET movements == compute_postings(t, FillOf[t])
        IN  [e \in Entries |->
                Total([i \in 1..Len(movements) |->
                          IF movements[i][e[1]] = e[2] THEN movements[i].amount ELSE 0],
                      1..Len(movements))]]

\* The debits and credits of every account after a set of trades.
Balances ==
    [S \in SUBSET Trades |-> [e \in Entries |-> Total([t \in S |-> Turnover[t][e]], S)]]

\* All that a trade debits and credits.
Volume == [t \in Trades |-> Total(Turnover[t], Entries)]

\* Bug: no abs.
SignedDistance(m, n) == m - n

Distance(m, n) == IF m > n THEN m - n ELSE n - m

\* The drift when the log read saw the trades S and the ledger read saw P.
Drift(S, P) == Total([e \in Entries |-> Distance(Balances[S][e], Balances[P][e])], Entries)

\* The trades whose movements actual_from_ledger finds in the balances.
InLedger == {posted[i] : i \in 1..Len(posted)}

SettledInLog == Cardinality({t \in Trades : streams[t] = Pipeline!ExecutedAndSettled})

-----------------------------------------------------------------------------
(* A cycle.                                                                *)

Replay(trades) ==
    /\ pc = "log"
    /\ pc' = "ledger"
    /\ seen' = trades
    /\ settled' = SettledInLog
    /\ UNCHANGED <<pipeline, gauges, errors>>

\* Bug: a trade is counted before compute_postings rejects it.
CountMalformed == Replay({t \in Trades : streams[t] # << >>})

\* Every TradeExecuted of the log, settled or not, except the malformed ones.
\* read_all follows the log to its end as of the last read, so what is
\* replayed is all of the log at one moment.
expected_from_log == Replay({t \in Trades \ Malformed : streams[t] # << >>})

Difference(m, n) == IF m > n THEN m - n ELSE 0

\* Bugs: a difference is added to the gauge instead of replacing it; unsettled
\* trades are counted against the log as it is by now.
AccumulatedDrift == drift + Drift(seen, InLedger)
LagCountedLate == Difference(Cardinality(seen), SettledInLog)

NewDrift == Drift(seen, InLedger)
Lag == Difference(Cardinality(seen), settled)

\* The rest of reconcile: read the ledger, compare, publish.
reconcile ==
    /\ pc = "ledger"
    /\ pc' = "log"
    /\ drift' = NewDrift
    /\ unsettled' = Lag
    /\ UNCHANGED <<pipeline, seen, settled, errors>>

\* main catches what a read raises; the gauges keep their last values.
CycleError ==
    /\ errors < MaxErrors
    /\ errors' = errors + 1
    /\ pc' = "log"
    /\ UNCHANGED <<pipeline, seen, settled, gauges>>

PipelineStep ==
    /\ Pipeline!Next
    /\ UNCHANGED <<pc, seen, settled, gauges, errors>>

Next == expected_from_log \/ reconcile \/ CycleError \/ PipelineStep

Spec == Init /\ [][Next]_vars

\* The reconciler's loop goes on, each read of a cycle ending normally or not,
\* and well-formed trades are posted and settled (what Settlement guarantees of
\* a trade that is not parked).
Fairness ==
    /\ WF_vars(expected_from_log)
    /\ WF_pc(pc = "ledger" /\ pc' = "log")
    /\ \A t \in Trades :
          WF_vars(/\ Pipeline!Post(t) \/ Pipeline!Settle(t)
                  /\ UNCHANGED <<pc, seen, settled, gauges, errors>>)

FairSpec == Spec /\ Fairness

-----------------------------------------------------------------------------
(* Properties.                                                             *)

\* The lag is never understated: of the trades a cycle has replayed, no more
\* are without TradeSettled when it publishes than the gauge says.
LagNotUnderstated ==
    [][reconcile => Cardinality({t \in seen : Len(streams[t]) = 1}) <= unsettled']_vars

\* The published drift is explained by the trades that only one of the two
\* reads saw: no other trade, and no earlier cycle, contributes to it.  When
\* both reads saw the same trades it is zero.
DriftExplained ==
    [][reconcile =>
        LET between == (seen \cup InLedger) \ (seen \cap InLedger)
        IN  drift' <= Total(Volume, between)]_vars

\* When trading stops, drift and lag come down to zero for good: no skipped
\* fill, failed cycle or unlucky pair of reads leaves a difference behind.
DriftSubsides == <>[](drift = 0 /\ unsettled = 0)

\* "aequor_reconciliation_drift - it must always be 0."
DriftAlwaysZero == drift = 0
=============================================================================
