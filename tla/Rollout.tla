------------------------------- MODULE Rollout -------------------------------
(***************************************************************************)
(* The canary gate of settlement: the Rollout and the AnalysisTemplate of  *)
(* src/argo/rollouts, as Argo Rollouts carries them out, over the gauge    *)
(* that the reconciler publishes.                                          *)
(*                                                                         *)
(* A build is good, or bad: it may post a trade with wrong amounts.  Old   *)
(* and new pods share one subscription, so that either may post any trade, *)
(* and the transfer ids do not depend on the build: a trade posted wrong   *)
(* stays so, since whoever gets it next finds its id and skips it.  What   *)
(* the gate sees is the drift, a sum over accounts, in which wrong amounts *)
(* and trades in flight can cancel out.                                    *)
(***************************************************************************)
EXTENDS Integers, Sequences, FiniteSets, FiniteSetsExt

CONSTANTS
    Trades,       \* trade ids
    Sides,        \* the accounts, each with its debits and with its credits
    Due,          \* Due[t][a]: what t comes to on a
    Misposted,    \* Misposted[t][a]: what a bad build makes of it
    ErrorLimit,   \* consecutiveErrorLimit (3 in the template)
    LatencyCount, \* count of the latency metric (5 in the template)
    MaxFaults     \* bound on faults, and on rollouts a person aborts

ASSUME LimitsAssumption == {ErrorLimit, LatencyCount, MaxFaults} \subseteq Nat
ASSUME AmountsAssumption ==
    /\ IsFiniteSet(Trades) /\ IsFiniteSet(Sides)
    /\ Due \in [Trades -> [Sides -> Nat]] /\ Misposted \in [Trades -> [Sides -> Nat]]
    /\ \A t \in Trades : Misposted[t] # Due[t]

\* spec.strategy.canary.steps.
Steps == <<"setWeight 20", "pause 2m", "analysis", "setWeight 50", "pause 5m",
           "pause", "setWeight 100">>

Builds == {"good", "bad"}
Runs == {"background", "inline"}

\* Replica sets: the stable one, the canary, and those of rollouts given up for
\* another image.
ReplicaSets == {"stable", "canary", "former"}

VARIABLES
    executed,   \* the trades in the log
    ledger,     \* ledger[t]: "absent", "right" or "wrong"
    seen,       \* the trades the reconciler's cycle has read, or {} outside one
    reading,    \* is it between its two reads?
    drift,      \* the gauge
    build,      \* the build of each replica set
    pods,       \* the replica sets that have pods
    phase,      \* of the rollout, see TypeOK
    step,       \* the step of the canary, Len(Steps) + 1 when all are done
    errors,     \* errors[r]: consecutive measurements of drift that failed to be one
    latency,    \* latency[r]: latency measurements taken, and those too slow
    faults

trading == <<executed, ledger>>
reconciler == <<seen, reading, drift>>
analyses == <<errors, latency>>
vars == <<executed, ledger, seen, reading, drift, build, pods, phase, step, errors,
          latency, faults>>

TypeOK ==
    /\ executed \subseteq Trades
    /\ ledger \in [Trades -> {"absent", "right", "wrong"}]
    /\ seen \subseteq Trades /\ drift \in Nat
    /\ reading \in BOOLEAN
    /\ build \in [ReplicaSets -> Builds]
    /\ pods \subseteq ReplicaSets
    /\ phase \in {"progressing", "held", "full", "aborted", "promoted"}
    /\ step \in 1..(Len(Steps) + 1)
    /\ errors \in [Runs -> 0..ErrorLimit]
    /\ latency \in [Runs -> [taken : 0..LatencyCount, slow : 0..1]]
    /\ faults \in 0..MaxFaults

NoErrors == [r \in Runs |-> 0]
NoLatency == [r \in Runs |-> [taken |-> 0, slow |-> 0]]

\* A good build is in service.
Init ==
    /\ executed = {} /\ ledger = [t \in Trades |-> "absent"]
    /\ seen = {} /\ reading = FALSE /\ drift = 0
    /\ build = [s \in ReplicaSets |-> "good"]
    /\ pods = {"stable"} /\ phase = "promoted" /\ step = Len(Steps) + 1
    /\ errors = NoErrors /\ latency = NoLatency
    /\ faults = 0

\* Analysis runs end with the rollout, the step or the verdict they were for.
NoAnalyses == errors' = NoErrors /\ latency' = NoLatency

Fault ==
    /\ faults < MaxFaults
    /\ faults' = faults + 1

-----------------------------------------------------------------------------
(* Trading and reconciling.                                                *)

Execute(t) ==
    /\ executed' = executed \cup {t}
    /\ UNCHANGED <<ledger, reconciler, build, pods, phase, step, analyses, faults>>

Posted == {t \in Trades : ledger[t] # "absent"}
Wrong == {t \in Trades : ledger[t] = "wrong"}

\* A pod settles a trade whose id the ledger does not have yet.
Post(t) ==
    /\ t \in executed \ Posted
    /\ \E p \in pods, amount \in {"right", "wrong"} :
          /\ amount = "wrong" => build[p] = "bad"
          /\ ledger' = [ledger EXCEPT ![t] = amount]
    /\ UNCHANGED <<executed, reconciler, build, pods, phase, step, analyses, faults>>

ReadLog ==
    /\ ~reading
    /\ reading' = TRUE
    /\ seen' = executed
    /\ UNCHANGED <<trading, drift, build, pods, phase, step, analyses, faults>>

\* What trades come to on a side of an account, and what was posted there.
Expected(trades, a) == SumFunctionOnSet([t \in trades |-> Due[t][a]], trades)

Amount(t) == IF ledger[t] = "wrong" THEN Misposted[t] ELSE Due[t]

\* Bug: what should have been posted, and not what was.
ActualAsDue(a) == Expected(Posted, a)

Actual(a) == SumFunctionOnSet([t \in Posted |-> Amount(t)[a]], Posted)

Abs(n) == IF n < 0 THEN -n ELSE n

\* Bug: once it is not zero, the drift stays.
DriftLatched ==
    IF drift # 0 THEN drift
    ELSE SumFunctionOnSet([a \in Sides |-> Abs(Expected(seen, a) - Actual(a))], Sides)

\* Per account and side, and then the absolute values.
Difference ==
    SumFunctionOnSet([a \in Sides |-> Abs(Expected(seen, a) - Actual(a))], Sides)

Reconcile ==
    /\ reading
    /\ reading' = FALSE
    /\ seen' = {}
    /\ drift' = Difference
    /\ UNCHANGED <<trading, build, pods, phase, step, analyses, faults>>

\* A cycle fails and leaves the gauge as it was; or the process restarts, and
\* the gauge is zero until a cycle ends.
ReconcilerFault ==
    /\ Fault
    /\ reading' = FALSE
    /\ seen' = {}
    /\ drift' \in {drift, 0}
    /\ UNCHANGED <<trading, build, pods, phase, step, analyses>>

-----------------------------------------------------------------------------
(* The rollout.                                                            *)

\* A new image, of a rollout that is done or aborted.  It waits for nothing: pods of
\* the canary before it become those of a former one.
SetImage(b) ==
    LET left == {build[s] : s \in pods \cap {"canary", "former"}}
    IN  /\ phase \in {"promoted", "aborted"}
        /\ phase' = "progressing" /\ step' = 1
        /\ build' = [build EXCEPT !["canary"] = b,
                                  !["former"] = IF "bad" \in left THEN "bad" ELSE "good"]
        /\ pods' = (pods \cap {"stable"}) \cup (IF left = {} THEN {} ELSE {"former"})
        /\ UNCHANGED <<trading, reconciler, analyses, faults>>

\* retry: the same image again, whatever pods are left of it or of the stable one.
Retry ==
    /\ phase = "aborted"
    /\ phase' = "progressing"
    /\ UNCHANGED <<trading, reconciler, build, pods, step, analyses, faults>>

StartStep(n) ==
    /\ step' = n
    /\ UNCHANGED <<trading, reconciler, build, pods, faults>>

\* setWeight is done when its pods are there, a pause with a duration when that
\* is over.  The analysis is never done: its drift metric has an interval and no
\* count, and goes on measuring.
Advance ==
    /\ phase = "progressing"
    /\ step \in DOMAIN Steps
    /\ Steps[step] \notin {"analysis", "pause"}
    /\ Steps[step] \in {"setWeight 20", "setWeight 50"} => pods = {"stable", "canary"}
    /\ Steps[step] = "setWeight 100" => pods = {"canary"}
    /\ StartStep(step + 1)
    /\ UNCHANGED <<phase, analyses>>

\* Bug: a rollout whose steps are all done is promoted once more.
PromoteOnceMore ==
    /\ phase = "progressing"
    /\ StartStep(step + 1)
    /\ UNCHANGED <<phase, analyses>>

\* promote skips the current step, and resumes a rollout that is held.
Promote ==
    /\ phase = "held" \/ (phase = "progressing" /\ step \in DOMAIN Steps)
    /\ StartStep(IF phase = "held" THEN step ELSE step + 1)
    /\ phase' = "progressing"
    /\ errors' = [errors EXCEPT !["inline"] = 0]
    /\ latency' = [latency EXCEPT !["inline"] = NoLatency["inline"]]

\* promote --full skips all of them, and ends the analyses.
PromoteFull ==
    /\ phase \in {"progressing", "held"}
    /\ phase' = "full"
    /\ StartStep(Len(Steps) + 1)
    /\ NoAnalyses

Scale(s) ==
    /\ pods' = s
    /\ UNCHANGED <<trading, reconciler, build, phase, step, analyses, faults>>

Rolling == phase \in {"progressing", "held", "full"}
FullWeight == step >= Len(Steps)

CanaryUp == Rolling /\ "canary" \notin pods /\ Scale(pods \cup {"canary"})

\* Bug: an abort removes the canary before it brings back the stable pods, which it
\* may not.
StableUpLate ==
    /\ phase = "aborted" \/ (Rolling /\ ~FullWeight)
    /\ pods \cap {"stable", "canary"} = {}
    /\ Scale(pods \cup {"stable"})

\* An abort, or a retry of one that came late, brings back the stable pods.
StableUp ==
    /\ phase = "aborted" \/ (Rolling /\ ~FullWeight)
    /\ "stable" \notin pods
    /\ Scale(pods \cup {"stable"})

\* maxUnavailable is 0: nobody leaves before the others are there.
StableDown ==
    /\ Rolling /\ FullWeight
    /\ {"stable", "canary"} \subseteq pods
    /\ Scale(pods \ {"stable"})

CanaryDown ==
    /\ phase = "aborted"
    /\ {"stable", "canary"} \subseteq pods
    /\ Scale(pods \ {"canary"})

FormerDown ==
    /\ "former" \in pods /\ pods # {"former"}
    /\ pods' = pods \ {"former"}
    /\ build' = [build EXCEPT !["former"] = "good"]
    /\ UNCHANGED <<trading, reconciler, phase, step, analyses, faults>>

\* All steps are done and the old pods are gone: the canary is the stable build.
Complete ==
    /\ phase \in {"progressing", "full"}
    /\ step > Len(Steps) /\ pods = {"canary"}
    /\ phase' = "promoted"
    /\ build' = [build EXCEPT !["stable"] = build["canary"]]
    /\ pods' = {"stable"}
    /\ NoAnalyses
    /\ UNCHANGED <<trading, reconciler, step, faults>>

-----------------------------------------------------------------------------
(* The analyses: the template's two metrics, in the background for the     *)
(* whole of the rollout and once more as its third step.                   *)

\* Bug: no analysis in the background, only the one of the third step.
ActiveInStep(r) ==
    /\ phase = "progressing"
    /\ step \in DOMAIN Steps /\ Steps[step] = "analysis"

Active(r) ==
    /\ phase = "progressing"
    /\ r = "inline" => step \in DOMAIN Steps /\ Steps[step] = "analysis"

GoesOn == UNCHANGED <<trading, reconciler, build, pods, phase, step>>

\* From an abort it is back to the first step.
IsAborted ==
    /\ phase' = "aborted" /\ step' = 1
    /\ NoAnalyses
    /\ UNCHANGED <<trading, reconciler, build, pods>>

\* reconciliation-drift: failureLimit 0, a reading other than zero aborts.
MeasureDrift(r) ==
    /\ Active(r)
    /\ \/ drift = 0 /\ errors' = [errors EXCEPT ![r] = 0] /\ GoesOn /\ UNCHANGED latency
       \/ drift # 0 /\ IsAborted
    /\ UNCHANGED faults

\* No series: neither condition is met, which is inconclusive and holds the
\* rollout until somebody promotes it.
MeasureNothing(r) ==
    /\ Active(r)
    /\ Fault
    /\ phase' = "held"
    /\ NoAnalyses
    /\ UNCHANGED <<trading, reconciler, build, pods, step>>

\* Prometheus does not answer: consecutiveErrorLimit.  Errors in a row are one fault.
MeasureError(r) ==
    /\ Active(r)
    /\ IF errors[r] = 0 THEN Fault ELSE UNCHANGED faults
    /\ \/ /\ errors[r] < ErrorLimit
          /\ errors' = [errors EXCEPT ![r] = @ + 1]
          /\ GoesOn /\ UNCHANGED latency
       \/ errors[r] = ErrorLimit /\ IsAborted

\* settlement-latency-slo: count measurements, of which one may be too slow (the
\* fault is the first).
MeasureLatency(r) ==
    /\ Active(r)
    /\ latency[r].taken < LatencyCount
    /\ \/ /\ latency' = [latency EXCEPT ![r].taken = @ + 1]
          /\ GoesOn /\ UNCHANGED <<errors, faults>>
       \/ /\ Fault
          /\ latency[r].slow = 0
          /\ latency' = [latency EXCEPT ![r] = [taken |-> @.taken + 1, slow |-> 1]]
          /\ GoesOn /\ UNCHANGED errors
       \/ latency[r].slow = 1 /\ IsAborted /\ UNCHANGED faults

\* kubectl argo rollouts abort.
Abort ==
    /\ Rolling
    /\ Fault
    /\ IsAborted

-----------------------------------------------------------------------------
Next ==
    \/ \E t \in Trades : Execute(t) \/ Post(t)
    \/ ReadLog \/ Reconcile \/ ReconcilerFault
    \/ \E b \in Builds : SetImage(b)
    \/ Retry
    \/ Advance \/ Promote \/ PromoteFull \/ Complete
    \/ CanaryUp \/ CanaryDown \/ StableUp \/ StableDown \/ FormerDown
    \/ \E r \in Runs : \/ MeasureDrift(r) \/ MeasureNothing(r)
                       \/ MeasureError(r) \/ MeasureLatency(r)
    \/ Abort

Spec == Init /\ [][Next]_vars

\* Pods settle, the reconciler's cycles begin and end, the measurements go on, and the
\* controller brings the rollout and its replica sets on.
Fairness ==
    /\ WF_vars(\E t \in Trades : Post(t))
    /\ []<>reading /\ []<>~reading
    /\ WF_vars(MeasureDrift("background"))
    /\ WF_vars(\/ Advance \/ Complete
               \/ CanaryUp \/ CanaryDown \/ StableUp \/ StableDown \/ FormerDown)

FairSpec == Spec /\ Fairness

-----------------------------------------------------------------------------
(* Properties.                                                             *)

\* The errors in the ledger add up to something on some account.
Errors(a) == SumFunctionOnSet([t \in Wrong |-> Misposted[t][a] - Due[t][a]], Wrong)
Divergent == \E a \in Sides : Errors(a) # 0

\* What a cycle tells the gate.  If both its reads saw the same trades, the drift is
\* zero exactly if the errors made so far cancel out on every account.  And errors of
\* one sign, like those of a fee that is rounded up, show in every cycle for which no
\* trade is in flight, whatever else was posted since it read the log.
GateSees ==
    [][Reconcile =>
         /\ seen = Posted => (drift' # 0 <=> Divergent)
         /\ /\ Wrong # {} /\ seen \subseteq Posted
            /\ \A t \in Wrong : \A a \in Sides : Misposted[t][a] >= Due[t][a]
            => drift' # 0]_vars

\* A rollout does not stay in progress when what was posted wrong does not cancel
\* out, though nobody attends to it, trades in flight hide it for a while, and cycles
\* and measurements fail: the gate ends it, unless a person promoted it first.
WrongIsCaught ==
    (phase = "progressing" /\ Divergent) ~> (phase # "progressing" \/ ~Divergent)

\* An abort is carried out, also one that comes when the stable pods are gone: only
\* they are left to settle in the end, unless somebody tries again before.
RolledBack == phase = "aborted" ~> (pods = {"stable"} \/ phase # "aborted")

\* Somebody promotes a rollout that waits for it and retries one that was aborted.
Attended == WF_vars(Promote) /\ WF_vars(Retry)

\* As long as nothing was posted wrong, what aborts or holds a rollout passes, be
\* it trades in flight or measurements that fail: a good build is promoted in the
\* end, if somebody attends to it.
GoodIsPromoted ==
    Attended /\ [](Wrong = {}) /\ <>[](build["canary"] = "good") => []<>(phase = "promoted")

\* "The reconciler returns to drift = 0 once the good build is the only one
\* settling."
DriftReturnsToZero ==
    <>[](pods = {"stable"} /\ build["stable"] = "good") => <>[](drift = 0)
=============================================================================
