---------------------------- MODULE RolloutProofs ----------------------------
(***************************************************************************)
(* Rollout for any trades, amounts, errors of a bad build, limits and      *)
(* number of faults: its types, and what the drift that the gate sees says *)
(* of the errors in the ledger.                                            *)
(***************************************************************************)
EXTENDS Rollout, AmountTheorems

Phases == {"progressing", "held", "full", "aborted", "promoted"}
Entries == {"absent", "right", "wrong"}

LEMMA StepsAreSeven == Len(Steps) = 7 /\ DOMAIN Steps = 1..7
BY DEF Steps

LEMMA AdvanceIs ==
    ASSUME Advance
    PROVE  step \in 1..7 /\ step' = step + 1 /\ UNCHANGED <<build, pods, phase>>
<1>1. step \in DOMAIN Steps /\ step' = step + 1 /\ UNCHANGED <<build, pods, phase>>
  BY Zenon DEF Advance, StartStep
<1> QED BY <1>1, StepsAreSeven

\* The parts of TypeOK: what is traded and reconciled, and the rollout.
TradingOK ==
    /\ executed \subseteq Trades
    /\ ledger \in [Trades -> Entries]
    /\ seen \subseteq Trades /\ drift \in Nat
    /\ reading \in BOOLEAN

RolloutOK ==
    /\ build \in [ReplicaSets -> Builds]
    /\ pods \subseteq ReplicaSets
    /\ phase \in Phases
    /\ step \in 1..8

AnalysesOK ==
    /\ errors \in [Runs -> 0..ErrorLimit]
    /\ latency \in [Runs -> [taken : 0..LatencyCount, slow : 0..1]]

FaultsOK == faults \in 0..MaxFaults

LEMMA TypeParts == TypeOK <=> TradingOK /\ RolloutOK /\ AnalysesOK /\ FaultsOK
<1>1. 1..(Len(Steps) + 1) = 1..8
  BY StepsAreSeven
<1> QED BY <1>1 DEF TypeOK, TradingOK, RolloutOK, AnalysesOK, FaultsOK, Phases, Entries

LEMMA TypePartsNext == TypeOK' <=> (TradingOK /\ RolloutOK /\ AnalysesOK /\ FaultsOK)'
<1>1. 1..(Len(Steps) + 1) = 1..8
  BY StepsAreSeven
<1> QED BY <1>1 DEF TypeOK, TradingOK, RolloutOK, AnalysesOK, FaultsOK, Phases, Entries

-----------------------------------------------------------------------------
(* Sums over the trades.                                                   *)

\* Expected as sums of one function.
DueOn(a) == [t \in Trades |-> Due[t][a]]

LEMMA DueIsNat ==
    /\ IsFiniteSet(Trades) /\ IsFiniteSet(Sides)
    /\ \A t \in Trades, a \in Sides : Due[t][a] \in Nat /\ Misposted[t][a] \in Nat
BY AmountsAssumption

LEMMA ExpectedIs ==
    ASSUME NEW S \in SUBSET Trades, NEW a \in Sides
    PROVE  Expected(S, a) = SumFunctionOnSet(DueOn(a), S) /\ Expected(S, a) \in Nat
<1> DEFINE f == [t \in S |-> Due[t][a]]
           g == DueOn(a)
<1>1. IsFiniteSet(S)
  BY DueIsNat, FS_Subset
<1>2. \A t \in S : f[t] = g[t] /\ f[t] \in Nat /\ f[t] \in Int
  BY DueIsNat DEF DueOn
<1>3. Expected(S, a) = SumFunctionOnSet(f, S)
  BY DEF Expected
<1> HIDE DEF f, g
<1>4. SumFunctionOnSet(f, S) = SumFunctionOnSet(g, S)
  BY <1>1, <1>2, SumSame
<1>5. SumFunctionOnSet(f, S) \in Nat
  BY <1>1, <1>2, SumType
<1> QED BY <1>3, <1>4, <1>5 DEF g

\* More trades come to as much or more.
LEMMA ExpectedGrows ==
    ASSUME NEW S \in SUBSET Trades, NEW R \in SUBSET S, NEW a \in Sides
    PROVE  Expected(R, a) <= Expected(S, a)
<1> DEFINE g == DueOn(a)
           T == S \ R
<1>1. IsFiniteSet(R) /\ IsFiniteSet(T) /\ R \cap T = {} /\ R \cup T = S
  BY DueIsNat, FS_Subset
<1>2. \A t \in R \cup T : g[t] \in Int
  BY <1>1, DueIsNat DEF DueOn
<1>3. Expected(R, a) = SumFunctionOnSet(g, R) /\ Expected(S, a) = SumFunctionOnSet(g, S)
  BY ExpectedIs
<1>4. Expected(T, a) = SumFunctionOnSet(g, T) /\ Expected(T, a) \in Nat
  BY ExpectedIs
<1>5. Expected(R, a) \in Nat /\ Expected(S, a) \in Nat
  BY ExpectedIs
<1> HIDE DEF g, T
<1>6. SumFunctionOnSet(g, R \cup T) = SumFunctionOnSet(g, R) + SumFunctionOnSet(g, T)
  BY <1>1, <1>2, SumUnion
<1> QED BY <1>1, <1>3, <1>4, <1>5, <1>6

\* What was posted is what was due, and the errors.
LEMMA ActualIs ==
    ASSUME TradingOK, NEW a \in Sides
    PROVE  /\ Errors(a) \in Int
           /\ Actual(a) = Expected(Posted, a) + Errors(a)
           /\ Actual(a) \in Nat
<1> DEFINE m == [t \in Posted |-> Amount(t)[a]]
           d == [t \in Posted |-> Due[t][a]]
           e == [t \in Posted |-> Amount(t)[a] - Due[t][a]]
           w == [t \in Wrong |-> Misposted[t][a] - Due[t][a]]
           R == Posted \ Wrong
<1>1. /\ IsFiniteSet(Posted) /\ IsFiniteSet(Wrong) /\ IsFiniteSet(R)
      /\ Wrong \cap R = {} /\ Wrong \cup R = Posted
  <2>1. Posted \subseteq Trades /\ Wrong \subseteq Posted
    BY DEF Posted, Wrong
  <2> QED BY <2>1, DueIsNat, FS_Subset
<1>2. \A t \in Posted : Amount(t)[a] \in Nat /\ Due[t][a] \in Nat
  BY DueIsNat DEF Posted, Amount
<1>3. \A t \in Wrong : Amount(t) = Misposted[t]
  BY DEF Wrong, Amount
<1>4. \A t \in R : Amount(t) = Due[t]
  BY DEF Posted, Wrong, Amount
<1>5. \A t \in Posted : m[t] \in Nat /\ d[t] \in Int /\ e[t] \in Int /\ m[t] = d[t] + e[t]
  BY <1>2
<1>6. \A t \in Wrong : e[t] \in Int /\ w[t] = e[t]
  BY <1>1, <1>3, <1>5
<1>7. \A t \in R : e[t] = 0
  BY <1>1, <1>2, <1>4
<1>8. /\ Actual(a) = SumFunctionOnSet(m, Posted)
      /\ Expected(Posted, a) = SumFunctionOnSet(d, Posted)
      /\ Errors(a) = SumFunctionOnSet(w, Wrong)
  BY DEF Actual, Expected, Errors
<1> HIDE DEF m, d, e, w, R
<1>9. SumFunctionOnSet(m, Posted) = SumFunctionOnSet(d, Posted) + SumFunctionOnSet(e, Posted)
  BY <1>1, <1>5, SumOfSums
<1>10. SumFunctionOnSet(e, Wrong \cup R) = SumFunctionOnSet(e, Wrong) + SumFunctionOnSet(e, R)
  BY <1>1, <1>5, SumUnion
<1>11. SumFunctionOnSet(e, R) = 0
  BY <1>1, <1>7, SumZero
<1>12. SumFunctionOnSet(e, Wrong) = SumFunctionOnSet(w, Wrong)
  BY <1>1, <1>6, SumSame
<1>13. SumFunctionOnSet(e, Wrong) \in Int
  BY <1>1, <1>6, SumType
<1>14. SumFunctionOnSet(m, Posted) \in Nat
  BY <1>1, <1>5, SumType
<1>15. SumFunctionOnSet(d, Posted) \in Int
  BY <1>1, <1>5, SumType
<1>16. SumFunctionOnSet(e, Posted) = SumFunctionOnSet(w, Wrong)
  <2>1. SumFunctionOnSet(e, Posted) = SumFunctionOnSet(e, Wrong \cup R)
    BY <1>1, Zenon
  <2> QED BY <2>1, <1>10, <1>11, <1>12, <1>13
<1> QED BY <1>8, <1>9, <1>12, <1>13, <1>14, <1>15, <1>16

\* The drift, as a sum of natural numbers.
LEMMA DifferenceIs ==
    ASSUME TradingOK
    PROVE  /\ Difference \in Nat
           /\ Difference = 0 <=> \A a \in Sides : Expected(seen, a) = Actual(a)
<1> DEFINE f == [a \in Sides |-> Abs(Expected(seen, a) - Actual(a))]
<1>1. \A a \in Sides : Expected(seen, a) \in Nat /\ Actual(a) \in Nat
  BY ExpectedIs, ActualIs DEF TradingOK
<1>2. \A a \in Sides : f[a] \in Nat /\ (f[a] = 0 <=> Expected(seen, a) = Actual(a))
  BY <1>1 DEF Abs
<1>3. Difference = SumFunctionOnSet(f, Sides)
  BY DEF Difference
<1>4. IsFiniteSet(Sides)
  BY DueIsNat
<1> HIDE DEF f
<1>5. SumFunctionOnSet(f, Sides) \in Nat
  BY <1>2, <1>4, SumType
<1>6. (\A a \in Sides : f[a] = 0) => SumFunctionOnSet(f, Sides) = 0
  BY <1>4, SumZero
<1>7. (\E a \in Sides : f[a] # 0) => SumFunctionOnSet(f, Sides) # 0
  BY <1>2, <1>4, SumPositive
<1> QED BY <1>2, <1>3, <1>5, <1>6, <1>7

-----------------------------------------------------------------------------
(* Types.                                                                  *)

LEMMA TypeInit == Init => TypeOK
<1> SUFFICES ASSUME Init PROVE TypeOK
  OBVIOUS
<1>1. TradingOK
  BY DEF Init, TradingOK, Entries
<1>2. RolloutOK
  BY StepsAreSeven DEF Init, RolloutOK, ReplicaSets, Phases, Builds
<1>3. ErrorLimit \in Nat /\ LatencyCount \in Nat /\ MaxFaults \in Nat
  BY LimitsAssumption
<1>4. AnalysesOK
  BY <1>3 DEF Init, AnalysesOK, NoErrors, NoLatency
<1>5. FaultsOK
  BY <1>3 DEF Init, FaultsOK
<1> QED BY <1>1, <1>2, <1>4, <1>5, TypeParts

\* Steps that only move the rollout: what is traded and reconciled stays.
RolloutActions ==
    \/ \E b \in Builds : SetImage(b)
    \/ Retry
    \/ Advance \/ Promote \/ PromoteFull \/ Complete
    \/ CanaryUp \/ CanaryDown \/ StableUp \/ StableDown \/ FormerDown

Measurements ==
    \/ \E r \in Runs : \/ MeasureDrift(r) \/ MeasureNothing(r)
                       \/ MeasureError(r) \/ MeasureLatency(r)
    \/ Abort

TradingActions ==
    \/ \E t \in Trades : Execute(t) \/ Post(t)
    \/ ReadLog \/ Reconcile \/ ReconcilerFault

LEMMA NextIs == Next <=> TradingActions \/ RolloutActions \/ Measurements
BY DEF Next, TradingActions, RolloutActions, Measurements

LEMMA RolloutFrame == RolloutActions => UNCHANGED <<trading, reconciler, faults>>
BY DEF RolloutActions, SetImage, Retry, Advance, Promote, PromoteFull, Complete, StartStep,
       CanaryUp, CanaryDown, StableUp, StableDown, FormerDown, Scale

LEMMA MeasurementFrame == Measurements => UNCHANGED <<trading, reconciler, build, pods>>
BY DEF Measurements, MeasureDrift, MeasureNothing, MeasureError, MeasureLatency, Abort, GoesOn,
       IsAborted

LEMMA TradingFrame == TradingActions => UNCHANGED <<build, pods, phase, step, analyses>>
BY DEF TradingActions, Execute, Post, ReadLog, Reconcile, ReconcilerFault

LEMMA TradingStep == TypeOK /\ [Next]_vars => TradingOK'
<1> SUFFICES ASSUME TradingOK, [Next]_vars PROVE TradingOK'
  BY TypeParts
<1>1. ASSUME UNCHANGED <<trading, reconciler>> PROVE TradingOK'
  BY <1>1 DEF TradingOK, trading, reconciler
<1>2. ASSUME NEW t \in Trades, Execute(t) PROVE TradingOK'
  BY <1>2 DEF TradingOK, Execute, reconciler
<1>3. ASSUME NEW t \in Trades, Post(t) PROVE TradingOK'
  BY <1>3 DEF TradingOK, Post, reconciler, Entries
<1>4. CASE ReadLog
  BY <1>4 DEF TradingOK, ReadLog, trading
<1>5. CASE Reconcile
  <2>1. Difference \in Nat
    BY DifferenceIs
  <2> QED BY <1>5, <2>1 DEF TradingOK, Reconcile, trading
<1>6. CASE ReconcilerFault
  <2>1. drift' = drift \/ drift' = 0
    BY <1>6 DEF ReconcilerFault
  <2>2. reading' = FALSE /\ seen' = {} /\ UNCHANGED trading
    BY <1>6 DEF ReconcilerFault
  <2>3. drift' \in Nat
    BY <2>1 DEF TradingOK
  <2>4. executed' = executed /\ ledger' = ledger
    BY <2>2 DEF trading
  <2> QED BY <2>2, <2>3, <2>4 DEF TradingOK
<1>7. CASE UNCHANGED vars
  BY <1>1, <1>7 DEF vars, trading, reconciler
<1> QED BY <1>1, <1>2, <1>3, <1>4, <1>5, <1>6, <1>7, NextIs, RolloutFrame, MeasurementFrame
        DEF TradingActions

LEMMA RolloutStep == TypeOK /\ [Next]_vars => RolloutOK'
<1> SUFFICES ASSUME RolloutOK, [Next]_vars PROVE RolloutOK'
  BY TypeParts
<1> USE StepsAreSeven
<1>1. ASSUME UNCHANGED <<build, pods, phase, step>> PROVE RolloutOK'
  BY <1>1 DEF RolloutOK
<1>2. ASSUME NEW b \in Builds, SetImage(b) PROVE RolloutOK'
  <2>1. \E c \in Builds : build' = [build EXCEPT !["canary"] = b, !["former"] = c]
    BY <1>2 DEF SetImage, Builds
  <2>2. pods' \subseteq ReplicaSets /\ phase' = "progressing" /\ step' = 1
    BY <1>2 DEF SetImage, ReplicaSets
  <2>3. build' \in [ReplicaSets -> Builds]
    BY <2>1 DEF RolloutOK
  <2> QED BY <2>2, <2>3 DEF RolloutOK, Phases
<1>11. CASE Retry
  BY <1>11 DEF RolloutOK, Retry, Phases
<1>3. CASE Advance
  BY <1>3, AdvanceIs DEF RolloutOK
<1>4. CASE Promote
  BY <1>4 DEF RolloutOK, Promote, StartStep, Phases
<1>5. CASE PromoteFull
  BY <1>5 DEF RolloutOK, PromoteFull, StartStep, Phases
<1>6. CASE Complete
  BY <1>6 DEF RolloutOK, Complete, Phases, ReplicaSets
<1>7. ASSUME NEW s \in SUBSET ReplicaSets, Scale(s) PROVE RolloutOK'
  BY <1>7 DEF RolloutOK, Scale
<1>8. CASE CanaryUp \/ CanaryDown \/ StableUp \/ StableDown
  BY <1>7, <1>8 DEF CanaryUp, CanaryDown, StableUp, StableDown, RolloutOK, ReplicaSets
<1>12. CASE FormerDown
  BY <1>12 DEF RolloutOK, FormerDown, ReplicaSets, Builds
<1>9. CASE Measurements
  <2>1. phase' \in Phases /\ step' \in 1..8
    BY <1>9 DEF Measurements, MeasureDrift, MeasureNothing, MeasureError, MeasureLatency,
                Abort, GoesOn, IsAborted, Phases, RolloutOK
  <2> QED BY <1>9, <2>1, MeasurementFrame DEF RolloutOK
<1>10. CASE UNCHANGED vars
  BY <1>1, <1>10 DEF vars
<1> QED BY <1>1, <1>2, <1>3, <1>4, <1>5, <1>6, <1>8, <1>9, <1>10, <1>11, <1>12, NextIs,
        TradingFrame DEF RolloutActions

\* The counters of an analysis stop at their limits.
LEMMA AnalysesStep == TypeOK /\ [Next]_vars => AnalysesOK'
<1> SUFFICES ASSUME AnalysesOK, [Next]_vars PROVE AnalysesOK'
  BY TypeParts
<1>0. ErrorLimit \in Nat /\ LatencyCount \in Nat
  BY LimitsAssumption
<1>1. ASSUME UNCHANGED analyses PROVE AnalysesOK'
  BY <1>1 DEF AnalysesOK, analyses
<1>2. ASSUME NoAnalyses PROVE AnalysesOK'
  BY <1>0, <1>2 DEF AnalysesOK, NoAnalyses, NoErrors, NoLatency
<1>3. CASE TradingActions
  BY <1>1, <1>3, TradingFrame
<1>11. CASE Promote
  BY <1>0, <1>11 DEF AnalysesOK, Promote, NoLatency, Runs
<1>4. CASE RolloutActions
  BY <1>1, <1>2, <1>4, <1>11
  DEF RolloutActions, SetImage, Retry, Advance, PromoteFull, Complete,
      CanaryUp, CanaryDown, StableUp, StableDown, FormerDown, Scale
<1>12. IsAborted => AnalysesOK'
  BY <1>2 DEF IsAborted
<1>5. ASSUME NEW r \in Runs, MeasureDrift(r) PROVE AnalysesOK'
  <2>1. CASE errors' = [errors EXCEPT ![r] = 0] /\ UNCHANGED latency
    BY <1>0, <2>1 DEF AnalysesOK
  <2> QED BY <1>5, <1>12, <2>1 DEF MeasureDrift
<1>6. ASSUME NEW r \in Runs, MeasureNothing(r) PROVE AnalysesOK'
  BY <1>2, <1>6 DEF MeasureNothing
<1>7. ASSUME NEW r \in Runs, MeasureError(r) PROVE AnalysesOK'
  <2>1. errors[r] \in 0..ErrorLimit
    BY DEF AnalysesOK
  <2>2. CASE /\ errors[r] < ErrorLimit
             /\ errors' = [errors EXCEPT ![r] = @ + 1] /\ UNCHANGED latency
    BY <1>0, <2>1, <2>2 DEF AnalysesOK
  <2> QED BY <1>7, <1>12, <2>2 DEF MeasureError
<1>8. ASSUME NEW r \in Runs, MeasureLatency(r) PROVE AnalysesOK'
  <2>1. /\ latency[r] \in [taken : 0..LatencyCount, slow : 0..1]
        /\ latency[r].taken \in 0..LatencyCount /\ latency[r].taken < LatencyCount
    BY <1>8 DEF AnalysesOK, MeasureLatency
  <2>2. latency[r].taken + 1 \in 0..LatencyCount
    BY <1>0, <2>1
  <2>3. CASE latency' = [latency EXCEPT ![r].taken = @ + 1] /\ UNCHANGED errors
    BY <2>1, <2>2, <2>3 DEF AnalysesOK
  <2>4. CASE latency' = [latency EXCEPT ![r] = [taken |-> @.taken + 1, slow |-> 1]] /\ UNCHANGED errors
    BY <2>1, <2>2, <2>4 DEF AnalysesOK
  <2> QED BY <1>8, <1>12, <2>3, <2>4 DEF MeasureLatency
<1>9. CASE Abort
  BY <1>12, <1>9 DEF Abort
<1>10. CASE UNCHANGED vars
  BY <1>1, <1>10 DEF vars, analyses
<1> QED BY <1>3, <1>4, <1>5, <1>6, <1>7, <1>8, <1>9, <1>10, NextIs DEF Measurements

LEMMA FaultsStep == TypeOK /\ [Next]_vars => FaultsOK'
<1> SUFFICES ASSUME FaultsOK, [Next]_vars PROVE FaultsOK'
  BY TypeParts
<1>0. MaxFaults \in Nat
  BY LimitsAssumption
<1>1. UNCHANGED faults \/ Fault => FaultsOK'
  BY <1>0 DEF FaultsOK, Fault
<1>2. TradingActions \/ Measurements => UNCHANGED faults \/ Fault
  BY DEF TradingActions, Execute, Post, ReadLog, Reconcile, ReconcilerFault, Measurements,
         MeasureDrift, MeasureNothing, MeasureError, MeasureLatency, Abort, GoesOn, IsAborted
<1> QED BY <1>1, <1>2, NextIs, RolloutFrame DEF vars

LEMMA TypeStep == TypeOK /\ [Next]_vars => TypeOK'
BY TradingStep, RolloutStep, AnalysesStep, FaultsStep, TypePartsNext

\* Types hold: a rollout is never past its last step, no analysis measures or fails
\* more often than the template lets it, and the drift is a natural number.
THEOREM TypeCorrect == Spec => []TypeOK
BY TypeInit, TypeStep, PTL DEF Spec

-----------------------------------------------------------------------------
(* What the gate sees.                                                     *)

\* If both reads saw the same trades, it sees exactly what does not cancel out.
LEMMA SameTrades ==
    ASSUME TradingOK, seen = Posted
    PROVE  Difference # 0 <=> Divergent
<1>1. \A a \in Sides : Expected(seen, a) = Actual(a) <=> Errors(a) = 0
  <2> TAKE a \in Sides
  <2>1. Expected(seen, a) \in Nat
    BY ExpectedIs DEF TradingOK
  <2> QED BY <2>1, ActualIs
<1> QED BY <1>1, DifferenceIs DEF Divergent

\* Errors of one sign do not cancel out, and trades posted meanwhile add to them.
LEMMA OneSign ==
    ASSUME TradingOK, Wrong # {}, seen \subseteq Posted,
           \A t \in Wrong : \A a \in Sides : Misposted[t][a] >= Due[t][a]
    PROVE  Difference # 0
<1>1. PICK t \in Wrong : TRUE
  OBVIOUS
<1>2. Posted \subseteq Trades /\ Wrong \subseteq Trades /\ t \in Trades
  BY <1>1 DEF Posted, Wrong
<1>3. PICK a \in Sides : Misposted[t][a] # Due[t][a]
  <2>1. Misposted[t] # Due[t] /\ Misposted[t] \in [Sides -> Nat] /\ Due[t] \in [Sides -> Nat]
    BY <1>2, AmountsAssumption
  <2> QED BY <2>1
<1> DEFINE w == [u \in Wrong |-> Misposted[u][a] - Due[u][a]]
<1>4. \A u \in Wrong : w[u] \in Nat
  BY <1>2, DueIsNat
<1>5. w[t] # 0
  BY <1>1, <1>2, <1>3, DueIsNat
<1>6. Errors(a) = SumFunctionOnSet(w, Wrong)
  BY DEF Errors
<1>7. IsFiniteSet(Wrong)
  BY <1>2, DueIsNat, FS_Subset
<1> HIDE DEF w
<1>8. Errors(a) \in Nat /\ Errors(a) # 0
  BY <1>1, <1>4, <1>5, <1>6, <1>7, SumPositive
<1>9. Expected(seen, a) <= Expected(Posted, a)
  BY <1>2, ExpectedGrows
<1>10. Expected(seen, a) \in Nat /\ Expected(Posted, a) \in Nat
  BY <1>2, ExpectedIs DEF TradingOK
<1>11. Expected(seen, a) # Actual(a)
  BY <1>8, <1>9, <1>10, ActualIs
<1> QED BY <1>11, DifferenceIs

\* Whatever the trades, their amounts and what a bad build makes of them: a cycle whose
\* reads saw the same trades shows the errors unless they cancel out on every account,
\* and errors of one sign show whenever no trade is in flight.
THEOREM GateIsRight == Spec => GateSees
<1>1. TypeOK /\ [Next]_vars =>
         [Reconcile =>
            /\ seen = Posted => (drift' # 0 <=> Divergent)
            /\ /\ Wrong # {} /\ seen \subseteq Posted
               /\ \A t \in Wrong : \A a \in Sides : Misposted[t][a] >= Due[t][a]
               => drift' # 0]_vars
  <2> SUFFICES ASSUME TradingOK, Reconcile
               PROVE  /\ seen = Posted => (drift' # 0 <=> Divergent)
                      /\ /\ Wrong # {} /\ seen \subseteq Posted
                         /\ \A t \in Wrong : \A a \in Sides : Misposted[t][a] >= Due[t][a]
                         => drift' # 0
    BY TypeParts
  <2>1. drift' = Difference
    BY DEF Reconcile
  <2> QED BY <2>1, SameTrades, OneSign
<1> QED BY <1>1, TypeCorrect, PTL DEF Spec, GateSees
=============================================================================
