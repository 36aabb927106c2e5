------------------------------ MODULE Telemetry ------------------------------
(***************************************************************************)
(* The telemetry service (src/services/telemetry/main.py) and InfluxDB as  *)
(* it uses it: instances that overlap during a rolling update provision    *)
(* two buckets and a task and then write points, which the task rolls up   *)
(* by the minute.                                                          *)
(*                                                                         *)
(* Time is counted in minutes.  Points carry the time at which they were   *)
(* received, since the service gives them none.                            *)
(***************************************************************************)
EXTENDS Naturals

CONSTANTS
    Instances,  \* processes of the service
    Points,     \* values a point can have
    LastMinute, \* bound on time
    MaxFaults   \* bound on calls that fail, crashes and runs of a task that fail

ASSUME BoundsAssumption == LastMinute \in Nat /\ MaxFaults \in Nat

VARIABLES
    buckets,    \* the buckets there are
    tasks,      \* the instances whose downsampling task was created: all do the same
    stage,      \* stage[i]: "connect", what i ensures, or "write"
    absent,     \* absent[i]: has i looked for it in vain?
    now,        \* the minute
    raw,        \* raw[m]: the points of minute m
    rollup,     \* rollup[m]: the points that the mean stored for minute m is of
    due,        \* runs of tasks to come: the task and the minute it starts in
    ran,        \* minutes in which a task started that was completed
    faults

influx == <<buckets, tasks>>
series == <<now, raw, rollup, due, ran>>
vars == <<buckets, tasks, stage, absent, now, raw, rollup, due, ran, faults>>

Buckets == {"telemetry_raw", "telemetry_downsampled"}
Minutes == 0..LastMinute

\* What main does, in order.
NextStage == [connect |-> "telemetry_raw", telemetry_raw |-> "telemetry_downsampled",
              telemetry_downsampled |-> "task", task |-> "write"]

TypeOK ==
    /\ buckets \subseteq Buckets
    /\ tasks \subseteq Instances
    /\ stage \in [Instances -> DOMAIN NextStage \cup {"write"}]
    /\ absent \in [Instances -> BOOLEAN]
    /\ now \in Minutes
    /\ raw \in [Minutes -> SUBSET Points]
    /\ rollup \in [Minutes -> SUBSET Points]
    /\ due \subseteq tasks \X (1..now)
    /\ ran \subseteq 1..now
    /\ faults \in 0..MaxFaults

\* The local stack sets InfluxDB up with the first bucket, the chart does not.
Init ==
    /\ buckets \in {{}, {"telemetry_raw"}} /\ tasks = {}
    /\ stage = [i \in Instances |-> "connect"] /\ absent = [i \in Instances |-> FALSE]
    /\ now = 0
    /\ raw = [m \in Minutes |-> {}] /\ rollup = [m \in Minutes |-> {}]
    /\ due = {} /\ ran = {}
    /\ faults = 0

Fault ==
    /\ faults < MaxFaults
    /\ faults' = faults + 1

Go(i, s) ==
    /\ stage' = [stage EXCEPT ![i] = s]
    /\ absent' = [absent EXCEPT ![i] = FALSE]
    /\ UNCHANGED series

-----------------------------------------------------------------------------
(* Boot: connect, ensure_bucket twice, ensure_downsample_task.             *)

connect(i) ==
    /\ stage[i] = "connect"
    /\ Go(i, NextStage[stage[i]])
    /\ UNCHANGED <<influx, faults>>

Ensuring(i) == stage[i] \in Buckets \cup {"task"}
Exists(what) == IF what = "task" THEN tasks # {} ELSE what \in buckets

\* Bug: nothing is looked for, and what is there already is an error.
FindNothing(i) ==
    /\ Ensuring(i) /\ ~absent[i]
    /\ absent' = [absent EXCEPT ![i] = TRUE]
    /\ UNCHANGED <<stage, series, influx, faults>>

Find(i) ==
    /\ Ensuring(i) /\ ~absent[i]
    /\ IF Exists(stage[i])
       THEN Go(i, NextStage[stage[i]])
       ELSE absent' = [absent EXCEPT ![i] = TRUE] /\ UNCHANGED <<stage, series>>
    /\ UNCHANGED <<influx, faults>>

\* Names of buckets are unique, those of tasks are not.
CreateIn(i) ==
    /\ buckets' = buckets \cup ({stage[i]} \cap Buckets)
    /\ tasks' = IF stage[i] = "task" THEN tasks \cup {i} ELSE tasks

Create(i) ==
    /\ Ensuring(i) /\ absent[i]
    /\ stage[i] \notin buckets
    /\ CreateIn(i)
    /\ Go(i, NextStage[stage[i]])
    /\ UNCHANGED faults

\* Bug: a bucket that cannot be created is taken for one that is there.
AfterErrorSwallowed(i) == NextStage[stage[i]]

\* An exception of ensure_bucket ends the process, which is started again; that of
\* ensure_downsample_task is printed.
AfterError(i) == IF stage[i] = "task" THEN "write" ELSE "connect"

\* The other instance was faster.
CreateConflict(i) ==
    /\ absent[i]
    /\ stage[i] \in buckets
    /\ Go(i, AfterError(i))
    /\ UNCHANGED <<influx, faults>>

\* A call fails, whether it had its effect or not.
CallFails(i) ==
    /\ Ensuring(i)
    /\ Fault
    /\ \/ UNCHANGED influx
       \/ absent[i] /\ stage[i] \notin buckets /\ CreateIn(i)
    /\ Go(i, AfterError(i))

Crash(i) ==
    /\ stage[i] # "connect"
    /\ Fault
    /\ Go(i, "connect")
    /\ UNCHANGED influx

-----------------------------------------------------------------------------
(* The points and the rollup.                                              *)

\* A write that fails is printed, and its point is stored or is not.
Write(i, p) ==
    /\ stage[i] = "write"
    /\ raw' = [raw EXCEPT ![now] = @ \cup {p}]
    /\ UNCHANGED <<influx, stage, absent, now, rollup, due, ran, faults>>

\* Bug: the run of the next minute is started.
TickAhead ==
    /\ now < LastMinute
    /\ now' = now + 1
    /\ due' = due \cup (tasks \X {now' + 1})
    /\ UNCHANGED <<influx, stage, absent, raw, rollup, ran, faults>>

\* Every task has a run that starts with the minute, and may come later: it reads
\* the minutes before its start whenever it does.
Tick ==
    /\ now < LastMinute
    /\ now' = now + 1
    /\ due' = due \cup (tasks \X {now'})
    /\ UNCHANGED <<influx, stage, absent, raw, rollup, ran, faults>>

\* Bug: range(start: -1m).
WindowsOneMinute(start) == {start - 1} \cap Minutes

\* range(start: -2m), with windows of one minute.
Windows(start) == {start - 1, start - 2} \cap Minutes

\* A mean of the same points overwrites the one there is; createEmpty is false.
Downsample(i, start) ==
    /\ <<i, start>> \in due
    /\ due' = due \ {<<i, start>>}
    /\ rollup' = [m \in Minutes |-> IF m \in Windows(start) /\ raw[m] # {}
                                    THEN raw[m] ELSE rollup[m]]
    /\ ran' = ran \cup {start}
    /\ UNCHANGED <<influx, stage, absent, now, raw, faults>>

RunFails(i, start) ==
    /\ <<i, start>> \in due
    /\ Fault
    /\ due' = due \ {<<i, start>>}
    /\ UNCHANGED <<influx, stage, absent, now, raw, rollup, ran>>

-----------------------------------------------------------------------------
Next ==
    \/ \E i \in Instances :
          \/ connect(i) \/ Find(i) \/ Create(i) \/ CreateConflict(i)
          \/ CallFails(i) \/ Crash(i)
          \/ \E p \in Points : Write(i, p)
          \/ \E start \in Minutes : Downsample(i, start) \/ RunFails(i, start)
    \/ Tick

Spec == Init /\ [][Next]_vars

\* A process that can go on does, and one that ended is started again.
Fairness == \A i \in Instances : WF_vars(connect(i) \/ Find(i) \/ Create(i) \/ CreateConflict(i))

FairSpec == Spec /\ Fairness

-----------------------------------------------------------------------------
(* Properties.                                                             *)

\* Whoever writes points has both buckets, and a task too if nothing ever failed,
\* though another instance creates the same at the same time (main.py:75-99).
Provisioned ==
    \A i \in Instances : stage[i] = "write" =>
        buckets = Buckets /\ (faults = 0 => tasks # {})

\* The mean of a minute is that of all its points, and is there if one of the two
\* runs that read that minute was completed: one run may be missed, and tasks
\* created twice do no harm ("dedup on write keeps it idempotent").
RolledUp ==
    \A m \in Minutes :
        rollup[m] = IF {m + 1, m + 2} \cap ran # {} THEN raw[m] ELSE {}

\* However instances get into each other's way, all of them write in the end.
AllWrite == <>[](\A i \in Instances : stage[i] = "write")
=============================================================================
