-------------------------- MODULE TelemetryProofs --------------------------
(***************************************************************************)
(* Telemetry for any instances, points, time and number of faults: what an *)
(* instance finds provisioned when it writes, and what is rolled up.       *)
(***************************************************************************)
EXTENDS Telemetry, TLAPS

-----------------------------------------------------------------------------
(* Types.                                                                  *)

LEMMA NextStages ==
    /\ NextStage["connect"] = "telemetry_raw"
    /\ NextStage["telemetry_raw"] = "telemetry_downsampled"
    /\ NextStage["telemetry_downsampled"] = "task"
    /\ NextStage["task"] = "write"
    /\ DOMAIN NextStage = {"connect", "telemetry_raw", "telemetry_downsampled", "task"}
BY DEF NextStage

Stages == {"connect", "telemetry_raw", "telemetry_downsampled", "task", "write"}

\* Steps of boot leave the points alone, and lead to a stage of main.
BootOK ==
    /\ buckets \subseteq Buckets
    /\ tasks \subseteq Instances
    /\ stage \in [Instances -> Stages]
    /\ absent \in [Instances -> BOOLEAN]
    /\ faults \in 0..MaxFaults

SeriesOK ==
    /\ now \in Minutes
    /\ raw \in [Minutes -> SUBSET Points]
    /\ rollup \in [Minutes -> SUBSET Points]
    /\ due \subseteq tasks \X (1..now)
    /\ ran \subseteq 1..now

LEMMA TypeParts == TypeOK <=> BootOK /\ SeriesOK
BY NextStages DEF TypeOK, BootOK, SeriesOK, Stages

LEMMA TypeInit == Init => TypeOK
<1>1. Init => BootOK /\ SeriesOK
  BY BoundsAssumption DEF Init, BootOK, SeriesOK, Stages, Minutes, Buckets
<1> QED BY <1>1, TypeParts

\* A step of one instance's boot: nothing provisioned is taken away, and nobody
\* else is affected.
BootStep(i) ==
    connect(i) \/ Find(i) \/ Create(i) \/ CreateConflict(i) \/ CallFails(i) \/ Crash(i)

LEMMA BootEffect ==
    ASSUME BootOK, NEW i \in Instances, BootStep(i)
    PROVE  /\ BootOK' /\ UNCHANGED series
           /\ buckets \subseteq buckets' /\ tasks \subseteq tasks'
           /\ faults <= faults' /\ faults \in Nat /\ faults' \in Nat
           /\ \A j \in Instances \ {i} : stage'[j] = stage[j]
<1> USE NextStages, BoundsAssumption
    DEF BootOK, Stages, Go, influx, series, Ensuring, Exists, CreateIn, Buckets, Fault, AfterError
<1>1. CASE connect(i)
  BY <1>1 DEF connect
<1>0. Ensuring(i) => NextStage[stage[i]] \in Stages
  OBVIOUS
<1>2. CASE Find(i)
  <2> DEFINE Same == UNCHANGED <<buckets, tasks, faults, now, raw, rollup, due, ran>>
  <2>1. CASE Exists(stage[i])
    <3>1. /\ Same /\ stage' = [stage EXCEPT ![i] = NextStage[stage[i]]]
          /\ absent' = [absent EXCEPT ![i] = FALSE]
      BY ONLY <1>2, <2>1 DEF Find, Go, influx, series
    <3> QED BY <1>0, <1>2, <3>1 DEF Find
  <2>2. CASE ~Exists(stage[i])
    <3>1. Same /\ stage' = stage /\ absent' = [absent EXCEPT ![i] = TRUE]
      BY ONLY <1>2, <2>2 DEF Find, influx, series
    <3> QED BY <3>1
  <2> QED BY <2>1, <2>2
<1>3. CASE Create(i)
  BY <1>3 DEF Create
<1>4. CASE CreateConflict(i)
  BY <1>4 DEF CreateConflict
<1>5. CASE CallFails(i)
  <2>1. AfterError(i) \in Stages /\ UNCHANGED series
    BY <1>5 DEF CallFails
  <2>2. faults' = faults + 1 /\ faults' \in 0..MaxFaults /\ faults \in Nat /\ faults' \in Nat
    BY <1>5 DEF CallFails
  <2>3. /\ buckets' \subseteq Buckets /\ tasks' \subseteq Instances
        /\ buckets \subseteq buckets' /\ tasks \subseteq tasks'
    BY <1>5 DEF CallFails
  <2>4. /\ stage' \in [Instances -> Stages] /\ absent' \in [Instances -> BOOLEAN]
        /\ \A j \in Instances \ {i} : stage'[j] = stage[j]
    BY <1>5, <2>1 DEF CallFails
  <2> QED BY <2>1, <2>2, <2>3, <2>4
<1>6. CASE Crash(i)
  BY <1>6 DEF Crash
<1> QED BY <1>1, <1>2, <1>3, <1>4, <1>5, <1>6 DEF BootStep

LEMMA SeriesStep ==
    ASSUME SeriesOK, [Next]_vars, tasks \subseteq tasks'
    PROVE  SeriesOK'
<1> USE BoundsAssumption DEF SeriesOK, Minutes
<1>1. ASSUME UNCHANGED series PROVE SeriesOK'
  BY <1>1 DEF series
<1>2. ASSUME NEW i \in Instances, NEW p \in Points, Write(i, p) PROVE SeriesOK'
  BY <1>2 DEF Write, influx
<1>3. ASSUME Tick PROVE SeriesOK'
  BY <1>3 DEF Tick, influx
<1>4. ASSUME NEW i \in Instances, NEW start \in Minutes, Downsample(i, start) PROVE SeriesOK'
  BY <1>4 DEF Downsample, influx
<1>5. ASSUME NEW i \in Instances, NEW start \in Minutes, RunFails(i, start) PROVE SeriesOK'
  BY <1>5 DEF RunFails, influx
<1> QED BY <1>1, <1>2, <1>3, <1>4, <1>5
        DEF Next, vars, series, connect, Find, Create, CreateConflict, CallFails, Crash, Go

\* The other steps leave what is provisioned alone.
LEMMA OtherEffect ==
    ASSUME BootOK, [Next]_vars, \A i \in Instances : ~BootStep(i)
    PROVE  /\ UNCHANGED <<buckets, tasks, stage, absent>>
           /\ faults \in Nat /\ faults' \in 0..MaxFaults /\ faults <= faults'
<1> USE BoundsAssumption DEF influx, BootOK
<1>1. ASSUME NEW i \in Instances, NEW p \in Points, Write(i, p)
      PROVE  UNCHANGED <<buckets, tasks, stage, absent, faults>>
  BY <1>1 DEF Write
<1>2. ASSUME NEW i \in Instances, NEW start \in Minutes, Downsample(i, start)
      PROVE  UNCHANGED <<buckets, tasks, stage, absent, faults>>
  BY <1>2 DEF Downsample
<1>3. ASSUME NEW i \in Instances, NEW start \in Minutes, RunFails(i, start)
      PROVE  /\ UNCHANGED <<buckets, tasks, stage, absent>>
             /\ faults' = faults + 1 /\ faults < MaxFaults
  BY <1>3 DEF RunFails, Fault
<1>4. Tick => UNCHANGED <<buckets, tasks, stage, absent, faults>>
  BY DEF Tick
<1>5. UNCHANGED vars => UNCHANGED <<buckets, tasks, stage, absent, faults>>
  BY DEF vars
<1>6. \/ UNCHANGED <<buckets, tasks, stage, absent, faults>>
      \/ /\ UNCHANGED <<buckets, tasks, stage, absent>>
         /\ faults' = faults + 1 /\ faults < MaxFaults
  BY <1>1, <1>2, <1>3, <1>4, <1>5 DEF Next, BootStep
<1> QED BY <1>6

LEMMA TypePartsNext == TypeOK' <=> (BootOK /\ SeriesOK)'
BY TypeParts, PTL

LEMMA TypeStep == TypeOK /\ [Next]_vars => TypeOK'
<1> SUFFICES ASSUME BootOK, SeriesOK, [Next]_vars PROVE BootOK' /\ SeriesOK'
  BY TypeParts, TypePartsNext
<1>1. ASSUME NEW i \in Instances, BootStep(i) PROVE BootOK' /\ SeriesOK'
  BY <1>1, BootEffect, SeriesStep
<1>2. ASSUME \A i \in Instances : ~BootStep(i) PROVE BootOK' /\ SeriesOK'
  BY <1>2, OtherEffect, SeriesStep DEF BootOK
<1> QED BY <1>1, <1>2

\* Everything stays well typed; in particular a task never has a run to come that it
\* was not created for, nor one that starts in a minute still to come.
THEOREM TypeCorrect == Spec => []TypeOK
BY TypeInit, TypeStep, PTL DEF Spec

-----------------------------------------------------------------------------
(* Provisioning.                                                           *)

\* Whoever is past a stage has what that stage ensures, but a task it failed to
\* create.
IInv ==
    \A i \in Instances :
        /\ stage[i] \in {"telemetry_downsampled", "task", "write"} => "telemetry_raw" \in buckets
        /\ stage[i] \in {"task", "write"} => "telemetry_downsampled" \in buckets
        /\ stage[i] = "write" /\ faults = 0 => tasks # {}

LEMMA ProvisionStep == TypeOK /\ IInv /\ [Next]_vars => IInv'
<1> SUFFICES ASSUME BootOK, IInv, [Next]_vars PROVE IInv'
  BY TypeParts
<1>1. ASSUME NEW i \in Instances, BootStep(i) PROVE IInv'
  <2>1. /\ buckets \subseteq buckets' /\ tasks \subseteq tasks'
        /\ faults <= faults' /\ faults \in Nat /\ faults' \in Nat
        /\ \A j \in Instances \ {i} : stage'[j] = stage[j]
    BY <1>1, BootEffect
  <2>2. /\ stage'[i] \in {"telemetry_downsampled", "task", "write"} => "telemetry_raw" \in buckets'
        /\ stage'[i] \in {"task", "write"} => "telemetry_downsampled" \in buckets'
        /\ stage'[i] = "write" /\ faults' = 0 => tasks' # {}
    <3> USE NextStages
        DEF BootOK, Stages, IInv, Go, influx, Ensuring, Exists, CreateIn, Buckets, Fault, AfterError
    <3>1. CASE connect(i)
      BY <3>1 DEF connect
    <3>2. CASE Find(i)
      BY <3>2 DEF Find
    <3>3. CASE Create(i)
      BY <3>3 DEF Create
    <3>4. CASE CreateConflict(i)
      BY <3>4 DEF CreateConflict
    <3>5. CASE CallFails(i)
      BY <3>5, <2>1 DEF CallFails
    <3>6. CASE Crash(i)
      BY <3>6 DEF Crash
    <3> QED BY <1>1, <3>1, <3>2, <3>3, <3>4, <3>5, <3>6 DEF BootStep
  <2> QED BY <2>1, <2>2 DEF IInv
<1>2. ASSUME \A i \in Instances : ~BootStep(i) PROVE IInv'
  <2>1. UNCHANGED <<buckets, tasks, stage>> /\ (faults' = 0 => faults = 0)
    BY <1>2, OtherEffect, BoundsAssumption
  <2> QED BY <2>1 DEF IInv
<1> QED BY <1>1, <1>2

\* However many instances boot at the same time and get into each other's way,
\* whoever writes has both buckets, and a task if no call ever failed.
THEOREM WritersAreProvisioned == Spec => []Provisioned
<1>1. Init => IInv
  BY DEF Init, IInv
<1>2. TypeOK /\ IInv => Provisioned
  BY DEF TypeOK, IInv, Provisioned, Buckets
<1> QED BY <1>1, <1>2, TypeInit, TypeStep, ProvisionStep, PTL DEF Spec

-----------------------------------------------------------------------------
(* The rollup.                                                             *)

\* Runs read minutes that are over, so that a point is never too late for them.
LEMMA RollupStep == TypeOK /\ RolledUp /\ [Next]_vars => RolledUp'
<1> SUFFICES ASSUME SeriesOK, RolledUp, [Next]_vars PROVE RolledUp'
  BY TypeParts
<1> USE DEF SeriesOK, Minutes
<1>1. ASSUME UNCHANGED <<raw, rollup, ran>> PROVE RolledUp'
  BY <1>1 DEF RolledUp
<1>2. ASSUME NEW i \in Instances, NEW p \in Points, Write(i, p) PROVE RolledUp'
  <2>1. now \in Nat /\ {now + 1, now + 2} \cap ran = {}
    BY BoundsAssumption
  <2>2. \A m \in Minutes : m # now => raw'[m] = raw[m]
    BY <1>2 DEF Write
  <2>3. rollup' = rollup /\ ran' = ran
    BY <1>2 DEF Write
  <2> QED BY <2>1, <2>2, <2>3 DEF RolledUp
<1>3. ASSUME NEW i \in Instances, NEW start \in Minutes, Downsample(i, start) PROVE RolledUp'
  <2>1. raw' = raw /\ ran' = ran \cup {start} /\ start \in Nat /\ start >= 1
    BY <1>3, BoundsAssumption DEF Downsample
  <2>2. ASSUME NEW m \in Minutes
        PROVE  rollup'[m] = IF {m + 1, m + 2} \cap ran' # {} THEN raw[m] ELSE {}
    <3>1. m \in Nat /\ (m \in Windows(start) <=> start \in {m + 1, m + 2})
      BY <2>1, BoundsAssumption DEF Windows
    <3>2. rollup'[m] = IF m \in Windows(start) /\ raw[m] # {} THEN raw[m] ELSE rollup[m]
      BY <1>3 DEF Downsample
    <3>3. rollup[m] = IF {m + 1, m + 2} \cap ran # {} THEN raw[m] ELSE {}
      BY DEF RolledUp
    <3> QED BY <2>1, <3>1, <3>2, <3>3
  <2> QED BY <2>1, <2>2 DEF RolledUp
<1> QED BY <1>1, <1>2, <1>3
        DEF Next, vars, series, connect, Find, Create, CreateConflict, CallFails, Crash,
            Go, Tick, RunFails

\* The mean of a minute is of all its points, and is there if one of the two runs
\* that read it was completed, for any number of tasks, runs and failures.
THEOREM RollupIsRight == Spec => []RolledUp
<1>1. Init => RolledUp
  BY DEF Init, RolledUp
<1> QED BY <1>1, TypeInit, TypeStep, RollupStep, PTL DEF Spec
=============================================================================
