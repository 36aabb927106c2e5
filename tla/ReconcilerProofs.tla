--------------------------- MODULE ReconcilerProofs ---------------------------
(***************************************************************************)
(* What the reconciler's gauges say of the pipeline, for any number of     *)
(* trades, any fills and any interleaving of its two reads with trading:   *)
(* the published drift never exceeds the volume of the trades that only    *)
(* one of the reads saw, and the lag is never understated.                 *)
(***************************************************************************)
EXTENDS Reconciler, AmountTheorems

WellFormed == Trades \ Malformed

LEMMA EntriesFinite == IsFiniteSet(Entries)
<1>1. all_accounts \subseteq 0..100
  <2>1. ASSUME NEW e \in Entities, NEW a \in DOMAIN ASSETS
        PROVE  account_id(e, a) \in 0..100
    <3>1. e \in 1..4 /\ ASSETS[a].index \in 1..3
      BY AssetTable DEF Entities, CUSTOMER, VENUE, FEE, CLEARING
    <3> QED BY <3>1 DEF account_id
  <2> QED BY <2>1 DEF all_accounts
<1>2. IsFiniteSet(all_accounts)
  <2>1. 100 \in Nat /\ all_accounts \in SUBSET Nat /\ \A a \in all_accounts : a <= 100
    BY <1>1
  <2> QED BY <2>1, FS_BoundedSetOfNaturals
<1>3. IsFiniteSet({"debit", "credit"})
  <2>1. IsFiniteSet({"debit"} \cup {"credit"}) /\ {"debit"} \cup {"credit"} = {"debit", "credit"}
    BY FS_Singleton, FS_AddElement
  <2> QED BY <2>1
<1> QED BY <1>2, <1>3, FS_Product DEF Entries

-----------------------------------------------------------------------------
(* Balances.                                                               *)

LEMMA TurnoverType ==
    ASSUME NEW t \in WellFormed, NEW e \in Entries
    PROVE  Turnover[t][e] \in Nat
<1> DEFINE movements == compute_postings(t, FillOf[t])
           entered == [i \in 1..Len(movements) |->
                          IF movements[i][e[1]] = e[2] THEN movements[i].amount ELSE 0]
<1>1. /\ t \in Trades /\ Accepted(FillOf[t])
      /\ FillOf[t].qty \in Int /\ FillOf[t].price \in Int
  BY FillsAssumption DEF WellFormed, Malformed
<1>2. \A i \in 1..Len(movements) : movements[i].amount \in Nat
  BY <1>1, DoubleEntry
<1>3. Len(movements) \in Nat
  BY <1>1, MovementShapes
<1> HIDE DEF movements
<1>4. IsFiniteSet(1..Len(movements))
  BY <1>3, FS_Interval
<1>5. \A i \in 1..Len(movements) : entered[i] \in Nat
  BY <1>2
<1> HIDE DEF entered
<1>6. SumFunctionOnSet(entered, 1..Len(movements)) \in Nat
  BY <1>4, <1>5, SumType
<1> QED BY <1>1, <1>6 DEF Turnover, Total, entered, movements

\* The sum behind an account's column, and how far two of them can be apart.
LEMMA BalancesDiffer ==
    ASSUME NEW S \in SUBSET WellFormed, NEW P \in SUBSET WellFormed, NEW e \in Entries
    PROVE  LET between == (S \cup P) \ (S \cap P)
               d == Distance(Balances[S][e], Balances[P][e])
           IN  /\ Balances[S][e] \in Nat /\ Balances[P][e] \in Nat
               /\ d \in Nat
               /\ d <= SumFunctionOnSet([t \in between |-> Turnover[t][e]], between)
               /\ S \subseteq P \/ P \subseteq S =>
                     d = SumFunctionOnSet([t \in between |-> Turnover[t][e]], between)
<1> DEFINE f == [t \in WellFormed |-> Turnover[t][e]]
           Sum(s) == SumFunctionOnSet(f, s)
           between == (S \cup P) \ (S \cap P)
<1>1. \A t \in WellFormed : f[t] \in Nat /\ f[t] = Turnover[t][e]
  BY TurnoverType
<1> HIDE DEF f
<1>2. \A s \in SUBSET WellFormed : IsFiniteSet(s)
  BY TradesAssumption, FS_Subset DEF WellFormed
<1>3. ASSUME NEW s \in SUBSET WellFormed
      PROVE  /\ Sum(s) \in Nat
             /\ SumFunctionOnSet([t \in s |-> Turnover[t][e]], s) = Sum(s)
  <2> DEFINE g == [t \in s |-> Turnover[t][e]]
  <2>1. \A t \in s : f[t] \in Int /\ f[t] = g[t]
    BY <1>1
  <2> HIDE DEF g
  <2>2. SumFunctionOnSet(f, s) = SumFunctionOnSet(g, s)
    BY <1>2, <2>1, SumSame
  <2>3. SumFunctionOnSet(f, s) \in Nat
    BY <1>1, <1>2, SumType
  <2> QED BY <2>2, <2>3 DEF g
<1>4. Balances[S][e] = Sum(S) /\ Balances[P][e] = Sum(P)
  <2>1. S \in SUBSET Trades /\ P \in SUBSET Trades
    BY DEF WellFormed
  <2> QED BY <1>3, <2>1 DEF Balances, Total
<1>5. ASSUME NEW s \in SUBSET WellFormed, NEW r \in SUBSET WellFormed, s \cap r = {}
      PROVE  Sum(s \cup r) = Sum(s) + Sum(r)
  <2>1. \A t \in s \cup r : f[t] \in Int
    BY <1>1
  <2> QED BY <1>2, <1>5, <2>1, SumUnion
<1> DEFINE both == S \cap P
<1>6. /\ S \ P \in SUBSET WellFormed /\ P \ S \in SUBSET WellFormed
      /\ both \in SUBSET WellFormed
      /\ (S \ P) \cap both = {} /\ (P \ S) \cap both = {} /\ (S \ P) \cap (P \ S) = {}
      /\ (S \ P) \cup both = S /\ (P \ S) \cup both = P /\ (S \ P) \cup (P \ S) = between
  OBVIOUS
<1> HIDE DEF Sum, both, between
<1>7. /\ Sum(S) = Sum(S \ P) + Sum(both)
      /\ Sum(P) = Sum(P \ S) + Sum(both)
      /\ Sum(between) = Sum(S \ P) + Sum(P \ S)
  BY <1>5, <1>6
<1>8. Sum(S \ P) \in Nat /\ Sum(P \ S) \in Nat /\ Sum(both) \in Nat
  BY <1>3, <1>6
<1>9. Distance(Sum(S), Sum(P)) \in Nat /\ Distance(Sum(S), Sum(P)) <= Sum(between)
  BY <1>7, <1>8 DEF Distance
<1>10. between \in SUBSET WellFormed
  BY <1>6
<1>11. SumFunctionOnSet([t \in between |-> Turnover[t][e]], between) = Sum(between)
  BY <1>3, <1>10
<1>12. Sum(S) \in Nat /\ Sum(P) \in Nat
  BY <1>7, <1>8
<1>13. S \subseteq P \/ P \subseteq S => Distance(Sum(S), Sum(P)) = Sum(between)
  <2>1. SumFunctionOnSet(f, {}) = 0
    BY SumEmpty
  <2>2. CASE S \subseteq P
    <3>1. S \ P = {}
      BY <2>2
    <3>2. Sum(S \ P) = 0
      BY <2>1, <3>1 DEF Sum
    <3> QED BY <1>7, <1>8, <3>2 DEF Distance
  <2>3. CASE P \subseteq S
    <3>1. P \ S = {}
      BY <2>3
    <3>2. Sum(P \ S) = 0
      BY <2>1, <3>1 DEF Sum
    <3> QED BY <1>7, <1>8, <3>2 DEF Distance
  <2> QED BY <2>2, <2>3
<1> QED BY <1>4, <1>9, <1>11, <1>12, <1>13 DEF between

\* The triangle inequality of the whole comparison: however the trades that only
\* one read saw spread over the accounts, and whatever cancels out, the drift is
\* at most all they debit and credit.  Nothing cancels out, and it is exactly
\* that, when the trades of one read include those of the other.
THEOREM DriftBounded ==
    ASSUME NEW S \in SUBSET WellFormed, NEW P \in SUBSET WellFormed
    PROVE  /\ Drift(S, P) \in Nat
           /\ Drift(S, P) <= Total(Volume, (S \cup P) \ (S \cap P))
           /\ S \subseteq P \/ P \subseteq S =>
                 Drift(S, P) = Total(Volume, (S \cup P) \ (S \cap P))
<1> DEFINE between == (S \cup P) \ (S \cap P)
           d == [e \in Entries |-> Distance(Balances[S][e], Balances[P][e])]
           c == [e \in Entries |-> SumFunctionOnSet([t \in between |-> Turnover[t][e]], between)]
           r == [t \in between |-> SumFunctionOnSet(Turnover[t], Entries)]
<1>1. IsFiniteSet(between) /\ between \in SUBSET WellFormed
  BY TradesAssumption, FS_Subset DEF WellFormed
<1>2. S \in SUBSET Trades /\ P \in SUBSET Trades /\ between \in SUBSET Trades
  BY DEF WellFormed
<1>3. Drift(S, P) = SumFunctionOnSet(d, Entries)
  BY DEF Drift, Total
<1>4. \A e \in Entries : /\ d[e] \in Nat /\ c[e] \in Nat /\ d[e] <= c[e]
                         /\ S \subseteq P \/ P \subseteq S => d[e] = c[e]
  <2> SUFFICES ASSUME NEW e \in Entries
               PROVE  /\ d[e] \in Nat /\ c[e] \in Nat /\ d[e] <= c[e]
                      /\ S \subseteq P \/ P \subseteq S => d[e] = c[e]
    OBVIOUS
  <2>1. \A t \in between : [u \in between |-> Turnover[u][e]][t] \in Nat
    BY <1>1, TurnoverType
  <2>2. SumFunctionOnSet([u \in between |-> Turnover[u][e]], between) \in Nat
    BY <1>1, <2>1, SumType
  <2> QED BY <2>2, BalancesDiffer
<1>5. SumFunctionOnSet(r, between) = SumFunctionOnSet(c, Entries)
  <2>1. \A t \in between, e \in Entries : Turnover[t][e] \in Int
    BY <1>1, TurnoverType
  <2> HIDE DEF between
  <2> QED BY Zenon, <1>1, <2>1, EntriesFinite, SumOfTable
<1>6. SumFunctionOnSet(r, between) = Total(Volume, between)
  <2>1. ASSUME NEW t \in between
        PROVE  r[t] \in Int /\ r[t] = Volume[t]
    <3>1. \A e \in Entries : Turnover[t][e] \in Nat
      BY <1>1, TurnoverType
    <3>2. SumFunctionOnSet(Turnover[t], Entries) \in Nat
      BY <3>1, EntriesFinite, SumType
    <3> QED BY <1>2, <3>2 DEF Volume, Total
  <2> HIDE DEF r, between
  <2>2. SumFunctionOnSet(r, between) = SumFunctionOnSet(Volume, between)
    BY <1>1, <2>1, SumSame
  <2> QED BY <2>2 DEF Total
<1> HIDE DEF d, c, r, between
<1>7. SumFunctionOnSet(d, Entries) \in Nat
  BY <1>4, EntriesFinite, SumType
<1>8. SumFunctionOnSet(d, Entries) <= SumFunctionOnSet(c, Entries)
  BY <1>4, EntriesFinite, SumMonotone
<1>9. Drift(S, P) \in Nat /\ Drift(S, P) <= Total(Volume, between)
  BY <1>3, <1>5, <1>6, <1>7, <1>8
<1>10. ASSUME S \subseteq P \/ P \subseteq S
       PROVE  Drift(S, P) = Total(Volume, between)
  <2>1. \A e \in Entries : d[e] \in Int /\ d[e] = c[e]
    BY <1>4, <1>10
  <2>2. SumFunctionOnSet(d, Entries) = SumFunctionOnSet(c, Entries)
    BY <2>1, EntriesFinite, SumSame
  <2> QED BY <1>3, <1>5, <1>6, <2>2
<1> QED BY <1>9, <1>10 DEF between

-----------------------------------------------------------------------------
(* The inductive invariant.                                                *)

Final == <<"TradeExecuted", "TradeSettled">>

\* What a cycle has in hand between its reads: well-formed trades that are in
\* the log, among them as many as it counted TradeSettled events for, and those
\* are settled still.
Replayed ==
    /\ seen \subseteq WellFormed
    /\ pc = "ledger" =>
          \E S \in SUBSET seen : /\ Cardinality(S) = settled
                                 /\ \A t \in S : streams[t] = Final

\* A settled trade is in the ledger, hence well-formed.
SettledIsPosted == \A t \in Trades : streams[t] = Final => t \in InLedger

IInv == TypeOK /\ Replayed /\ SettledIsPosted

LEMMA InLedgerWellFormed == Pipeline!TypeOK => InLedger \subseteq WellFormed
BY DEF Pipeline!TypeOK, InLedger, WellFormed

LEMMA CountOfTrades ==
    ASSUME NEW S \in SUBSET Trades
    PROVE  /\ IsFiniteSet(S)
           /\ Cardinality(S) \in 0..Cardinality(Trades)
<1>1. /\ IsFiniteSet(S) /\ Cardinality(S) <= Cardinality(Trades)
      /\ Cardinality(Trades) \in Nat /\ Cardinality(S) \in Nat
  BY TradesAssumption, FS_Subset, FS_CardinalityType
<1> QED BY <1>1

LEMMA InitIInv == Init => IInv
<1> SUFFICES ASSUME Init
             PROVE  IInv
  OBVIOUS
<1>1. Pipeline!TypeOK
  BY DEF Init, Pipeline!Init, Pipeline!TypeOK
<1>2. TypeOK
  BY <1>1, CountOfTrades, ErrorsAssumption, TradesAssumption, FS_CardinalityType DEF Init, TypeOK
<1>3. Replayed
  BY DEF Init, Replayed
<1>4. SettledIsPosted
  BY DEF Init, Pipeline!Init, SettledIsPosted, Final
<1> QED BY <1>2, <1>3, <1>4 DEF IInv

\* The pipeline goes on: no trade leaves the ledger, none is unsettled again.
LEMMA PipelineIInv ==
    ASSUME IInv, PipelineStep
    PROVE  IInv'
<1> USE DEF IInv, TypeOK
<1>1. PICK t \in Trades : Pipeline!Execute(t) \/ Pipeline!Post(t) \/ Pipeline!Settle(t)
  BY DEF PipelineStep, Pipeline!Next
<1>2. UNCHANGED <<pc, seen, settled, drift, unsettled, errors>>
  BY DEF PipelineStep, gauges
<1>3. \/ /\ streams' = streams
         /\ t \in WellFormed /\ posted' = Append(posted, t)
      \/ /\ posted' = posted /\ streams[t] = << >>
         /\ streams' = [streams EXCEPT ![t] = Pipeline!Executed]
      \/ /\ posted' = posted /\ t \in InLedger
         /\ streams' = [streams EXCEPT ![t] = Final]
  BY <1>1 DEF Pipeline!Execute, Pipeline!Post, Pipeline!Settle, InLedger, WellFormed,
              Pipeline!ExecutedAndSettled, Final
<1>4. Pipeline!TypeOK'
  BY <1>3 DEF Pipeline!TypeOK, WellFormed, Final, Pipeline!ExecutedAndSettled
<1>5. InLedger \subseteq InLedger'
  <2>1. CASE posted' = posted
    BY <2>1 DEF InLedger
  <2>2. CASE posted' = Append(posted, t)
    <3>1. posted \in Seq(Trades) /\ t \in Trades
      BY DEF Pipeline!TypeOK
    <3>2. /\ Len(posted') = Len(posted) + 1 /\ Len(posted) \in Nat
          /\ \A i \in 1..Len(posted) : posted'[i] = posted[i]
      BY <2>2, <3>1, AppendProperties, LenProperties
    <3> QED BY <3>2 DEF InLedger
  <2> QED BY <1>3, <2>1, <2>2
<1>6. \A u \in Trades : /\ streams[u] = Final => streams'[u] = Final
                        /\ streams'[u] = Final => streams[u] = Final \/ u \in InLedger
  BY <1>3 DEF Pipeline!TypeOK, Final, Pipeline!Executed
<1>7. Replayed'
  <2>1. seen \subseteq Trades
    OBVIOUS
  <2> QED BY <1>2, <1>6, <2>1 DEF Replayed, WellFormed
<1>8. SettledIsPosted'
  BY <1>5, <1>6 DEF SettledIsPosted
<1>9. TypeOK'
  BY <1>2, <1>4 DEF TypeOK
<1> QED BY <1>7, <1>8, <1>9

\* expected_from_log: the settled trades are among those it replays.
LEMMA ReplayIInv ==
    ASSUME IInv, expected_from_log
    PROVE  IInv'
<1> USE DEF IInv, TypeOK
<1> DEFINE S == {t \in Trades : streams[t] = Pipeline!ExecutedAndSettled}
<1>1. /\ pc' = "ledger"
      /\ seen' = {t \in Trades \ Malformed : streams[t] # << >>}
      /\ settled' = Cardinality(S)
      /\ UNCHANGED <<streams, posted, drift, unsettled, errors>>
  BY DEF expected_from_log, Replay, SettledInLog, pipeline, gauges
<1>2. S \subseteq seen'
  BY <1>1, InLedgerWellFormed
     DEF SettledIsPosted, WellFormed, Final, Pipeline!ExecutedAndSettled
<1>3. Cardinality(S) \in 0..Cardinality(Trades)
  BY CountOfTrades
<1>4. \A t \in S : streams'[t] = Final
  BY <1>1 DEF Final, Pipeline!ExecutedAndSettled
<1> HIDE DEF S
<1>5. Replayed'
  BY <1>1, <1>2, <1>4 DEF Replayed, WellFormed
<1>6. SettledIsPosted'
  BY <1>1 DEF SettledIsPosted, InLedger
<1>7. Pipeline!TypeOK'
  BY <1>1 DEF Pipeline!TypeOK
<1>8. TypeOK'
  BY <1>1, <1>3, <1>7 DEF TypeOK
<1> QED BY <1>5, <1>6, <1>8

LEMMA LagType ==
    ASSUME NEW m \in Nat, NEW n \in Nat
    PROVE  Difference(m, n) \in 0..m /\ m - n <= Difference(m, n)
BY DEF Difference

LEMMA CycleEndsIInv ==
    ASSUME IInv, reconcile \/ CycleError
    PROVE  IInv'
<1> USE DEF IInv, TypeOK
<1>1. pc' = "log" /\ UNCHANGED <<streams, posted, seen, settled>>
  BY DEF reconcile, CycleError, pipeline
<1>2. /\ drift' \in Nat
      /\ unsettled' \in 0..Cardinality(Trades)
      /\ errors' \in 0..MaxErrors
  <2>1. CASE reconcile
    <3>1. NewDrift \in Nat
      BY InLedgerWellFormed, DriftBounded DEF NewDrift, Replayed
    <3>2. Cardinality(seen) \in 0..Cardinality(Trades) /\ settled \in Nat
      BY CountOfTrades
    <3>3. Cardinality(Trades) \in Nat
      BY TradesAssumption, FS_CardinalityType
    <3>4. Lag \in 0..Cardinality(seen)
      BY <3>2, LagType DEF Lag
    <3>5. Lag \in 0..Cardinality(Trades)
      BY <3>2, <3>3, <3>4
    <3> QED BY <2>1, <3>1, <3>5 DEF reconcile
  <2>2. CASE CycleError
    BY <2>2, ErrorsAssumption DEF CycleError, gauges
  <2> QED BY <2>1, <2>2
<1>3. Pipeline!TypeOK'
  BY <1>1 DEF Pipeline!TypeOK
<1>4. TypeOK'
  BY <1>1, <1>2, <1>3 DEF TypeOK
<1>5. Replayed' /\ SettledIsPosted'
  BY <1>1 DEF Replayed, SettledIsPosted, InLedger
<1> QED BY <1>4, <1>5

LEMMA InvariantHolds == Spec => []IInv
<1>1. ASSUME IInv, [Next]_vars
      PROVE  IInv'
  <2>1. CASE UNCHANGED vars
    <3>1. UNCHANGED <<streams, posted, pc, seen, settled, drift, unsettled, errors>>
      BY <2>1 DEF vars
    <3>2. Pipeline!TypeOK'
      BY <1>1, <3>1 DEF Pipeline!TypeOK, IInv, TypeOK
    <3> QED BY <1>1, <3>1, <3>2 DEF IInv, TypeOK, Replayed, SettledIsPosted, InLedger
  <2> QED BY <1>1, <2>1, PipelineIInv, ReplayIInv, CycleEndsIInv DEF Next
<1> QED BY <1>1, InitIInv, PTL DEF Spec

-----------------------------------------------------------------------------
\* The reconciler's variables keep their types; in particular the drift, a sum
\* of absolute differences, is a natural number.
THEOREM TypeCorrect == Spec => []TypeOK
BY InvariantHolds, PTL DEF IInv

\* The published drift is at most the volume of the trades that only one of the
\* two reads saw.
THEOREM DriftIsExplained == Spec => DriftExplained
<1>1. ASSUME IInv, reconcile
      PROVE  drift' <= Total(Volume, (seen \cup InLedger) \ (seen \cap InLedger))
  <2>1. seen \in SUBSET WellFormed /\ InLedger \in SUBSET WellFormed
    BY <1>1, InLedgerWellFormed DEF IInv, TypeOK, Replayed
  <2>2. drift' = Drift(seen, InLedger)
    BY <1>1 DEF reconcile, NewDrift
  <2> QED BY <2>1, <2>2, DriftBounded
<1>2. IInv /\ [Next]_vars =>
        [reconcile =>
            LET between == (seen \cup InLedger) \ (seen \cap InLedger)
            IN  drift' <= Total(Volume, between)]_vars
  BY <1>1
<1> QED BY <1>2, InvariantHolds, PTL DEF Spec, DriftExplained

\* What is in flight cannot hide: when the trades of one read include those of
\* the other, the published drift is exactly the volume of the trades in between,
\* however many there are and whichever accounts they share.
THEOREM OneSidedDriftIsExact ==
    Spec => [][reconcile /\ (seen \subseteq InLedger \/ InLedger \subseteq seen) =>
                  drift' = Total(Volume, (seen \cup InLedger) \ (seen \cap InLedger))]_vars
<1>1. ASSUME IInv, reconcile, seen \subseteq InLedger \/ InLedger \subseteq seen
      PROVE  drift' = Total(Volume, (seen \cup InLedger) \ (seen \cap InLedger))
  <2>1. seen \in SUBSET WellFormed /\ InLedger \in SUBSET WellFormed
    BY <1>1, InLedgerWellFormed DEF IInv, TypeOK, Replayed
  <2>2. drift' = Drift(seen, InLedger)
    BY <1>1 DEF reconcile, NewDrift
  <2> QED BY <1>1, <2>1, <2>2, DriftBounded
<1>2. IInv /\ [Next]_vars =>
        [reconcile /\ (seen \subseteq InLedger \/ InLedger \subseteq seen) =>
            drift' = Total(Volume, (seen \cup InLedger) \ (seen \cap InLedger))]_vars
  BY <1>1
<1> QED BY <1>2, InvariantHolds, PTL DEF Spec

\* When both reads saw the same trades, the published drift is zero.
THEOREM NoDriftWithoutDifference ==
    Spec => [][reconcile /\ seen = InLedger => drift' = 0]_vars
<1>1. ASSUME IInv, reconcile, seen = InLedger
      PROVE  drift' = 0
  <2>1. seen \in SUBSET WellFormed
    BY <1>1, InLedgerWellFormed DEF IInv, TypeOK, Replayed
  <2>2. drift' = Drift(seen, seen)
    BY <1>1 DEF reconcile, NewDrift
  <2>3. (seen \cup seen) \ (seen \cap seen) = {} /\ Total(Volume, {}) = 0
    BY SumEmpty DEF Total
  <2>4. Drift(seen, seen) \in Nat /\ Drift(seen, seen) <= 0
    BY <2>1, <2>3, DriftBounded
  <2> QED BY <2>2, <2>4
<1>2. IInv /\ [Next]_vars => [reconcile /\ seen = InLedger => drift' = 0]_vars
  BY <1>1
<1> QED BY <1>2, InvariantHolds, PTL DEF Spec

\* The published lag is at least the number of replayed trades that have no
\* TradeSettled when it is published.
THEOREM LagIsNotUnderstated == Spec => LagNotUnderstated
<1>1. ASSUME IInv, reconcile
      PROVE  Cardinality({t \in seen : Len(streams[t]) = 1}) <= unsettled'
  <2> DEFINE Open == {t \in seen : Len(streams[t]) = 1}
  <2>1. PICK S \in SUBSET seen : /\ Cardinality(S) = settled
                                 /\ \A t \in S : streams[t] = Final
    BY <1>1 DEF reconcile, IInv, Replayed
  <2>2. Open \in SUBSET (seen \ S)
    <3>1. Len(Final) = 2
      BY DEF Final
    <3> QED BY <2>1, <3>1
  <2>3. seen \in SUBSET Trades
    BY <1>1 DEF IInv, TypeOK
  <2>4. IsFiniteSet(seen) /\ IsFiniteSet(S) /\ IsFiniteSet(seen \ S)
    BY <2>3, TradesAssumption, FS_Subset
  <2> HIDE DEF Open
  <2>5. Cardinality(Open) <= Cardinality(seen \ S) /\ IsFiniteSet(Open)
    BY <2>2, <2>4, FS_Subset
  <2>6. Cardinality(seen \ S) = Cardinality(seen) - Cardinality(S)
    <3>1. seen \cap S = S
      BY <2>1
    <3> QED BY <2>4, <3>1, FS_Difference
  <2>7. /\ Cardinality(seen) \in Nat /\ Cardinality(S) \in Nat /\ Cardinality(Open) \in Nat
    BY <2>4, <2>5, FS_CardinalityType
  <2>8. Cardinality(seen) - settled <= Lag /\ Lag \in Int
    BY <2>1, <2>7, LagType DEF Lag
  <2>9. unsettled' = Lag
    BY <1>1 DEF reconcile
  <2>10. Cardinality(Open) <= unsettled'
    BY <2>1, <2>5, <2>6, <2>7, <2>8, <2>9
  <2> QED BY <2>10 DEF Open
<1>2. IInv /\ [Next]_vars =>
        [reconcile => Cardinality({t \in seen : Len(streams[t]) = 1}) <= unsettled']_vars
  BY <1>1
<1> QED BY <1>2, InvariantHolds, PTL DEF Spec, LagNotUnderstated
=============================================================================
