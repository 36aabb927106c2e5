# A TLA+ verification of the Aequor settlement pipeline

Aequor takes fills from a (synthetic) exchange through Kafka into an immutable
event log, settles them into a double-entry ledger, and watches that log and
ledger agree. This directory specifies that pipeline in TLA+, checks it with TLC
on small instances, and proves its core for every instance with TLAPS.

    feed --Kafka trades.fills--> capture --TradeExecuted--> KurrentDB
                                                             |  ^ TradeSettled
                                     persistent subscription v  |
                                                          settlement --> TigerBeetle
                                                             |               |
                               reconciler  <----- read_all --+---- balances -+
                               projection, rebuild <- log    |
                               canary gate <- Prometheus <- reconciler's gauge

## 1. Inventory

Paths are relative to `src/`.

| Component | State | Operations | Talks to |
|---|---|---|---|
| feed `services/feed/main.py` | producer buffer | make a fill, produce, flush | Kafka topic |
| capture `services/capture/main.py` | consumer position, committed offset, fill in hand | poll, append TradeExecuted expecting no stream, auto-commit | Kafka, KurrentDB |
| KurrentDB (external) | streams with versions, `$all`, subscription state per event, checkpoint | append, push, ack, nack, timeout, park, save checkpoint, restart | capture, settlement, readers |
| settlement `services/settlement/main.py` | delivery in hand, place in `settle` | ensure accounts and subscription, look up, create, record, ack, nack | KurrentDB, TigerBeetle |
| TigerBeetle (external) | accounts, transfers, four counters per account | create accounts, create transfers in linked chains, look up | settlement, reconciler |
| model `services/common/model.py` | none (pure) | account ids, transfer ids, fee, movements | settlement, reconciler |
| reconciler `services/reconciler/main.py` | replayed totals, gauges | read log, read ledger, publish | KurrentDB, TigerBeetle, Prometheus |
| projections `services/projection/*.js` | counts per symbol, pending trades | fold TradeExecuted and TradeSettled; checkpoint, reset, stop | inside KurrentDB |
| projection service `services/projection/main.py` | place in the boot and poll loops, gauges | create, update, enable at boot; read head, health and states, export | KurrentDB |
| rebuild `services/rebuild/main.py` | the same fold | read log, read projection, compare, exit code | KurrentDB |
| canary gate `argo/rollouts/*.yaml` | step, replica sets, analysis runs | widen, measure, hold, abort, promote | Prometheus, replicas of settlement |
| telemetry `services/telemetry/main.py` | buckets, task | find or create, write samples, roll up | InfluxDB |
| deployment (`helm`, `terraform`, `terragrunt`, `confluent`, CI) | none at run time | declarations | |

What is hard, and what makes each component correct:

- **settlement.** Delivery is at least once and to many replicas at a time;
  replicas crash between any two calls, acks get lost, deliveries time out while
  they are still being processed, the server restarts from an old checkpoint.
  Correct: a trade is posted once; TradeSettled follows the posting, once; an
  acknowledged or checkpointed event is settled (or parked); good trades are not
  parked by ordinary failures; every executed trade is settled in the end, and a
  malformed one is parked.
- **TigerBeetle as used, and the posting rules.** A chain of up to eight linked
  transfers; ids that must not collide; amounts that round to nothing; a ledger
  that is lost. Correct: chains are whole or absent; nothing stays reserved; the
  balances are what the fills economically come to.
- **feed and capture.** Resends, rebalances, restarts and auto-commit. Correct:
  a fill is executed once; a crash loses at most the fill in hand; every other
  fill in the topic reaches the log.
- **reconciler.** Two reads at different moments of a system that moves on.
  Correct: drift has a cause among the trades in flight, lag is not understated,
  and both return to zero.
- **projections, projection service, rebuild.** A fold that falls back to a
  checkpoint, is reset or is stopped while the log grows; a service that polls
  one thing after another; a comparison of two readings of one log at two
  moments. Correct: a state is what the events up to its position come to;
  rebuild's verdict is exact; the gauges come to tell the truth.
- **canary gate.** A gate that reads a gauge which is zero before it is ever
  computed, stale while cycles fail, and non-zero while trades are in flight;
  pods of two builds that post into one ledger; differences that cancel out in a
  sum. Correct: the gauge shows what does not cancel out; a rollout that posted
  such amounts does not stay in progress; an abort is carried out whenever it comes;
  a good build gets through.
- **telemetry.** Instances that overlap find and create the same things, and
  task runs that are late, missed or doubled. Correct: whoever writes has what it
  needs; a minute's mean is that of all its points.

`PROJECT.json` lists the same components with their status, and under "hazards"
each hard spot at its line with the properties that cover it.

## 2. Modules

| Module | What it is |
|---|---|
| `TradeLifecycle` | the abstract specification: executed, posted, settled, each once and in this order |
| `Settlement` | replicas of settlement, the persistent subscription, and their faults; implements `TradeLifecycle` |
| `SettlementProofs` | TLAPS proofs about `Settlement` for all constants |
| `Postings` | `common/model.py` and `build_transfers` as operators |
| `TradeBook` | the abstract specification of the ledger: a trade is booked whole and once |
| `Ledger` | TigerBeetle transfer by transfer, under `Postings`' chains; implements `TradeBook` |
| `LedgerProofs` | TLAPS proofs about `Ledger` for all trades, fills and losses |
| `Capture` | feed, topic, consumer group, and the append; implements the first step of `TradeLifecycle` |
| `CaptureProofs` | TLAPS proofs about `Capture` for all constants |
| `ReadModel` | the two projections, the projection service and `rebuild`, over one log |
| `ReadModelProofs` | TLAPS proofs about both projections, what their service exports, and `rebuild` |
| `Rollout` | the Rollout and its AnalysisTemplate, pods of two builds, and the drift gauge |
| `RolloutProofs` | TLAPS proofs about `Rollout` for all trades, amounts, limits and faults |
| `Telemetry` | overlapping instances of telemetry, and InfluxDB's buckets and task |
| `TelemetryProofs` | TLAPS proofs about `Telemetry` for all constants |
| `Reconciler` | the reconciler beside an instance of `TradeLifecycle`, with `Postings`' amounts |
| `ReconcilerProofs` | TLAPS proofs about `Reconciler` for all trades and fills |
| `AmountTheorems` | TLAPS proofs about `Postings` for all fills, and about sums over finite sets: what the proofs of `Ledger`, `Reconciler`, `ReadModel` and `Rollout` rest on |
| `MC...` | instances for TLC: symmetry sets and the fills to use |

The components are composed through the log. `TradeLifecycle` is the interface:
`Settlement` and `Capture` implement it, `Reconciler` runs beside an instance of
it, and `ReadModel` and `Rollout` use its steps in the form in which they see
them (`Execute` before `Settle` or `Post`, each once). So no product of two
detailed modules has to be explored.

A module also contains a few operators whose comment starts with "Bug:". Each is
a plausible mistake in the operator after it (a guard dropped, a check skipped,
an argument swapped); putting one in its place must break a property, which is
how we know that the property constrains the code. Nothing else uses them.

### TradeLifecycle

`streams[t]` is the list of event types in stream `trade-<t>`, `posted` the
sequence of trades in the ledger. `Execute`, `Post`, `Settle`. It says nothing of
deliveries, replicas or faults; malformed trades are executed and go no further.

### Settlement

State and code:

| Variable | Code |
|---|---|
| `streams`, `filtered` | the trade streams, and TradeExecuted events in `$all` order |
| `group` | the subscription `settlement` exists |
| `sub[t]`, `retries[t]`, `checkpoint` | the server's state of t's event: queued, outstanding, acked or parked; its retries; the prefix a restart will not redeliver |
| `ledger` | committed chains. One chain is one entry, since `Ledger` implements `TradeBook` |
| `pc[w]`, `hand[w]` | where a replica is in `main`/`settle`, with which delivery |
| `faults` | failures so far; bookkeeping for the bound |

Actions follow the calls that another process can observe: `Restart` (connect,
ensure accounts and subscription), `Deliver`, `RejectMalformed`
(`compute_postings` raises), `LookupTransfers`, `CreateTransfers` or
`CreateRefused` (the id exists by now: EXISTS for the first transfer,
LINKED_EVENT_FAILED for the others, an exception, a nack), `RecordSettled`,
`Ack`, `Report` (the metrics after the ack, inside the same `try`). `Raise` is an
exception of any of these calls; since a call may fail before or after it took
effect, it may come before or after the step. `Crash` may come anywhere.
`AckLost` is an ack the client has batched and never sends. The server's own
steps are `OrphanTimeout`, `SlowTimeout`, `SaveCheckpoint` and `ServerRestart`;
`Capture` is the append of `services/capture`.

The server is modelled liberally: a late ack by a replica whose delivery timed
out counts if the event is outstanding for another replica; an event that is
parked stays parked; a restart forgets every ack and retry count after the
checkpoint.

Not in this module: the loss of the ledger (see `Ledger`), a second subscription
group, and replay of parked messages by an operator.

### Postings and Ledger

`Postings` keeps Python's names. A quantity is an integer in units of 1/QtyUnit
and a price one in units of 1/PriceUnit, as `feed` rounds them to four and two
places; `round` is to the nearest integer, halves to even. A transfer id is the
triple of what it hashes, so that ids collide only if SHA-256 does. The error
of binary floats below the rounding step is not modelled; `RoundsToNearest`
bounds what rounding itself does.

`Ledger` applies a batch transfer by transfer, chain by chain, with the statuses
the code reads. `settle` is split into `SettleSkipped` (found) and
`SettleCreated` (not found when it looked: perhaps no longer so, as another
replica may have created it since). `ensure_accounts` may fail for one account,
which the code only prints. `Wipe` loses the data file with replicas running.
The set `settled` holds the trades `settle` returned normally for.

Two points where the model needed care. The obstacles a transfer can meet overlap
(an id that exists, on an account that does not), so `Status` is a chain of IFs in
the order in which they are met, not a CASE, which would leave the choice open. And
`compute_postings` accepts an asset traded against itself: `NetOf` adds up base,
quote and fee instead of taking one of them per asset, and the run has such a fill.

In one point the server is modelled liberally. TigerBeetle remembers an id that
failed for a passing reason, such as a missing account, and refuses it ever after;
`Status` lets the same chain succeed once the accounts are there. A refusal makes
`settle` raise and leaves the ledger as it is, so the safety properties cover it.
That such a trade is settled in the end is not claimed: `ExecutedIsSettled` is about
`Settlement`, where a chain is refused only for being there already.

`TradeBook` keeps the set of booked trades and a net amount per entity and asset.
`Book(t)` books a trade that is not booked and moves every position by what its fill
comes to; `Lose` is the loss of the data file. It has no transfers, ids, accounts,
statuses or retries: in `Ledger`, everything but the batch that applies a trade's
chain maps to a stutter.

### Capture

One partition (fills of one symbol share a partition: the key is the symbol). A
producer without idempotence may deliver twice (`ResendToTopic`); a crash loses
its buffer (`FeedCrash`). librdkafka stores a message's offset when `poll` hands
it out, and the auto-commit timer commits the stored offset whenever it fires:
`AutoCommit` may come at any time. After a rebalance the former owner can still
have a fill in hand and append it. `Stream(t)` is the stream that capture has
written so far; with it, `ImplementsLifecycle` says that `Capture` is
`TradeLifecycle` without `Post` and `Settle`.

### Reconciler

`expected_from_log` reads the log (all of it at one moment: `read_all` follows
the log to its end), `reconcile` then reads the ledger and publishes; steps of
the pipeline come in between. The pipeline is `TradeLifecycle`, of which
`Settlement` is an implementation, so that the two need not be multiplied out.
Expected balances are kept as the set of trades replayed (`seen`); `Turnover`
and `Balances` turn it into the debits and credits per account with the amounts
of `compute_postings`, and `Drift` sums the absolute differences. Two equal
trades can mask each other, as in the code.

### ReadModel

| Variable | Code |
|---|---|
| `log` | the TradeExecuted and TradeSettled events of `$all` |
| `status[p]` | the projection does not exist, runs, or is stopped |
| `folded[p]` | the states `p` has had since `$init`, so that its position is their number minus one and a checkpoint is one of them |
| `pc`, `at`, `head` | the statement of the projection service's `main`, the projection it is at, and the end of the log it read when this poll began |
| `gauges` | what it exports, as a scrape sees it at this moment |
| `export` | the loop of an export: the values it has read, the symbol it is at, the symbols to come |
| `read` | what `rebuild` has read of the log |

`StatusExecuted`, `StatusSettled` and `AddFill` are the handlers of the `.js`
files; `FoldEvent` is `rebuild`'s loop, which is the same fold written again.
JavaScript objects and dicts are functions on their keys, with `Put`, `Delete`
and `Lookup`. `Advance`, `FallBack`, `Reset` and `Disable` are KurrentDB's and
the operator's. `Create` and `Enable` are the two halves of `ensure_projection`,
`ReadHead`, `poll_health`, `get_status` and `get_volume` the calls of the poll. Metrics
are scraped by a thread of their own, so that an export is as many steps as it sets
gauges: `export_settlement_status` sets three of a symbol and `export_volume` two,
each with `SetGauge`, and `NextSymbol` goes on to any symbol that is left. (The two
gauges of `poll_health` are set in one step, as no property relates them.) A
projection that is cold ends the exports (`NotMaterialized`), an exception the poll
(`PollError`). The lag is computed from the `head` of the beginning of the poll, so
"caught up" can be out of date when it is published. `Exit` is the rest of `rebuild`: what it finds is the
operator `Problems`, whenever it reads the live state.

`ensure_projection` runs at boot only (`projection/main.py:170-171`), so a projection
that is disabled stays so until the service boots again (see the disagreements
below), and `GaugesConverge` says that the gauges show this. A reset does not
disable it. The two exports share one `try`: as long as the status projection has
no state, the volume is not exported either (found by TLC: stopped before its
first event, the one holds up the other for good), which `GaugesConverge` grants.

### Rollout

| Variable | Code |
|---|---|
| `executed`, `ledger[t]` | the trades in the log, and what was posted of each: nothing, the right amounts or wrong ones |
| `seen`, `reading`, `drift` | a cycle of the reconciler, and its gauge |
| `build[s]`, `pods` | the build of each replica set, and the replica sets that have pods |
| `phase`, `step` | the Rollout's status: in progress, held, promoted with `--full`, aborted or complete; and its place in `Steps` |
| `errors`, `latency` | the counters of the two analysis runs (in the background, and as the third step) |
| `faults` | bookkeeping for the bound |

A bad build may post a trade with wrong amounts: `Due[t]` is what `t` comes to on
each account and side, `Misposted[t]` what a bad build makes of it, both constants.
Since transfer ids do not depend on the build (`settlement/main.py:144` skips an id
it finds), nobody posts that trade again. `Difference` is the reconciler's sum:
`Expected` and `Actual` are added up per account and side before their absolute
values are taken, so that errors of opposite sign, or an error and a trade in flight,
can cancel out. `Reconciler` has no wrong amounts, and this module no settled
events; the two share the arithmetic.

`Advance` completes a step; the inline analysis is never completed, because a metric
without a count does not end, so that `Promote` or a verdict is what leaves it.
`MeasureDrift` aborts on a non-zero gauge (`failureLimit: 0`), `MeasureError` after
more than `consecutiveErrorLimit` errors in a row, `MeasureLatency` on the second slow
one of its `count`; `MeasureNothing` is the inconclusive measurement without a series,
which holds the rollout (`phase = "held"`). `PromoteFull` ends the analyses.
`CanaryUp`, `CanaryDown`, `StableUp`, `StableDown` and `FormerDown` are the
controller's, under `maxUnavailable: 0`.

`Retry` and `SetImage` wait for nothing: an abort may still be scaling down when the
next rollout begins, with canary pods left and, if the abort came in the last step, no
stable pods yet. Canary pods of an image that is replaced become those of the
replica set "former", which go on settling until the controller removes them.

The manifests are taken as they are written. A controller that refuses an inline
analysis without a count would refuse the Rollout. Not modelled: a new image in the
middle of a rollout that is neither complete nor aborted, the number of pods behind a
weight, and the delay before a canary is scaled down (`CanaryDown` may come at any
time).

### Telemetry

`stage[i]` is where an instance is in `connect`, `ensure_bucket` (twice),
`ensure_downsample_task` and the writing loop; each "ensure" is a `Find` and a
`Create` with other instances in between. `CreateConflict` is a bucket created
by another meanwhile: the exception is not caught and the process starts again
(for the task, every exception is caught, and names need not be unique). Points
carry no time of their own, so the server stamps them with the present minute.
Each task has a run at every minute (`Tick`), which may come later than that or
fail (`Downsample`, `RunFails`) and rolls up the two minutes before its start.

## 3. Checks

| Run | Instance | Properties |
|---|---|---|
| `settlement_safety` | 2 trades, 3 replicas, 3 retries, 3 faults; symmetry in trades and replicas | `TypeOK`, `AtMostOncePosted`, `AckedImpliesSettled`, `CheckpointCoversSettled`, `RetryBudget`, `IInv`, `ImplementsLifecycle` |
| `settlement_live` | 2 trades, one malformed, 2 replicas, 4 retries, 2 faults | `ExecutedIsSettled`, `MalformedIsParked` |
| `ledger` | 2 trades, 10 fills at the edges of the posting rules, 1 loss of the ledger | `TypeOK`, `ChainAtomic`, `SettledIsPosted`, `NothingPending`, `NetPositions`, `ImplementsBook` |
| `capture` | 3 fills, 2 consumers, 1 crash, 1 rebalance, 1 resend | `TypeOK`, `CapturedOnce`, `LossBounded`, `ImplementsLifecycle`, `ReachesTheLog` |
| `capture_loss` | as `capture`, 2 crashes; symmetry | `NothingLost`, violated |
| `reconciler` | 2 equal purchases, 1 sale, 1 malformed fill, 1 failed cycle | `TypeOK`, `LagNotUnderstated`, `DriftExplained`, `DriftSubsides` |
| `reconciler_drift` | the same | `DriftAlwaysZero`, violated |
| `readmodel` | 3 trades of 2 instruments, 2 of them never settle, 3 events, 1 fault or intervention | `TypeOK`, `StatusOfPrefix`, `VolumeOfPrefix`, `VerdictExact`, `GaugesWereTrue`, `GaugesConverge` |
| `rebuild_exit` | the same | `ExitOnlyOnDivergence`, violated |
| `rollout` | 2 trades whose errors have opposite signs, any number of rollouts, 1 fault, 1 error in a row, 2 latency measurements | `TypeOK`, `GateSees`, `WrongIsCaught`, `RolledBack`, `GoodIsPromoted` |
| `rollout_drift` | 1 trade, 1 fault | `DriftReturnsToZero`, violated |
| `telemetry` | 2 instances, 4 minutes, 1 value, 2 faults | `TypeOK`, `Provisioned`, `RolledUp`, `AllWrite` |

What the properties say is in the comment at each.

**Why these bounds.** Trades interact only through replicas and the checkpoint,
so two of them suffice to order and overtake. Three replicas: one whose delivery
is stale, one that lost a race, one that won. Three faults reach every
combination of two failures and a restart after them. The bounds on retries are
chosen so that events do get parked in `settlement_safety` (3 retries can be
used up by 2 faults, since a fault can cost an event two retries) and cannot be
in `settlement_live`, for well-formed trades (4 retries, 2 faults): that bound is
what `RetryBudget` says, and it is tight. The ledger runs need one trade per
submission pattern and a second one that shares its accounts. Its fills include
a half-cent amount (rounds to even, to zero), 999 and 1000 cents (largest amount
without a fee, smallest with one), zero and negative quantities, an unknown side,
an unknown asset, and an asset traded against itself.

`capture` has a crash while another consumer reads on, appends late or reads
again; that every further crash loses one more fill at most is proved.
In `readmodel`, two trades of one instrument make rows add up and a third one of
another makes rows go missing; the log ends after any three of their events
(`MaxEvents`), since an export takes a step per gauge, with everything else in
between. Its one fault is a reset, a fallback, a stop or a crash, anywhere in the
poll or in the middle of an export, or that rebuild reads the log, so that
`VerdictExact` is not checked after a reset; but it depends only on how far
`rebuild` has read and where the projection is, and every pair of the two occurs
without a fault. What holds after resets and restarts is `StatusOfPrefix`, which
is also proved for any number of them. In `rollout`, one of the two trades is posted
twice by a bad build and the other one lost, both with the same amounts: the second is
in flight, hides the error of the first, or is posted wrong itself and cancels it.
The limits (1 error, 2 measurements) are below the template's (3 and 5), so that one
fault, a series of errors or of slow measurements, can use them up; the other faults (a
cycle that fails, a measurement without a series, an abort by hand) come one at a time.
Four minutes give a point of minute 0 and 1 both of its runs, and time to miss
either.

**Fairness.** Replicas that died are restarted (`restart: unless-stopped` in
`docker-compose.yml`, the Rollout's ReplicaSet on Kubernetes), and a running
loop goes on: weak fairness of `Restart(w)` and of the replica's own steps. The
server pushes queued events to idle consumers and its message timers expire:
weak fairness of `Deliver` and `OrphanTimeout` per trade. Nothing makes a fault,
a capture or a checkpoint happen. In `Capture`: processes restart, an unowned
partition is assigned, and the loop of `main` goes on; the auto-commit timer
needs no fairness. In `Reconciler`: the loop goes on, and the pipeline posts and
settles well-formed trades, which is `ExecutedIsSettled` of `Settlement`. In
`ReadModel`: the service is restarted and its loop goes on, and a running
projection takes the next event; nobody is obliged to enable, trade or rebuild.
In `Rollout`: pods settle, the reconciler's cycles begin and end for ever (also those
that a fault ends), the measurements of drift go on, and the controller, as one
process, completes steps and scales whatever is to be done. People are not fair: that
somebody promotes what is held and retries what was aborted is an assumption of
`GoodIsPromoted` alone (`Attended`), stated in the property. In `Telemetry`: an
instance goes on and is restarted; task runs need no fairness, as `RolledUp`
says what a minute looks like after the runs there were. Trades are finite
everywhere, so "in the end" means after trading stops: as long as trades are in
flight, drift is non-zero at times (see below) and the gate may abort a good
build again and again.

**Deadlock.** The two settlement runs set `CHECK_DEADLOCK FALSE`: when every
trade is acknowledged and the faults are used up, the service waits for more.

**Disagreements with the documentation.**

1. `capture_loss`. `chaos/README.md:120-121` and `chaos/kill-kurrentdb-node.sh:130`
   say of a KurrentDB outage that nothing is lost, as fills queue in the topic.
   capture auto-commits what it has polled (`capture/main.py:39`), and an append
   that fails ends the process; if the timer fires between poll and append, the
   fill is committed and never appended. `LossBounded` says how far this goes:
   one fill per crash.
2. `reconciler_drift`. `reconciler/main.py:6` says that drift "must always be
   0", `chaos/README.md:61-62` that it "never leaves 0" while unsettled trades
   rise. Unsettled trades are counted in the expected balances
   (`reconciler/main.py:84-87`), so any trade in flight is drift.
   `DriftExplained` and `DriftSubsides` are what holds instead.
3. `rebuild_exit`. `rebuild/main.py:138` says "Non-zero exit only on a genuine
   divergence". The log is folded first and the live projection read later
   (`rebuild/main.py:116-117`); if they are not at the same event, the rows differ
   and the exit code is 1, with both being right. `VerdictExact` is what holds:
   zero means that the projection stood exactly where rebuild had read.
4. `rollout_drift`. `argo/rollouts/README.md:121` says that the drift returns to
   zero "once the good build is the only one settling", and `docs/POSTMORTEM.md:31-34`
   and line 54 that it did. What the bad build posted stays posted, and with it the
   drift, unless it cancels out. As a consequence the gate aborts every later build, the
   one with the fix too, until the ledger is corrected. `WrongIsCaught` is what holds:
   the bad rollout does not go on by itself.

Two more, found while modelling and plain from the code, have no run of their own:

- `docs/DR.md:41` says that the service re-enables a reset projection "on its next
  loop", and the docstring of `projection/main.py` (lines 7-10) lists registering and
  enabling under "each loop". Both happen once, before the loop
  (`projection/main.py:170-171`): a projection that is disabled later stays so.
  `GaugesConverge` is what holds: the gauges show it.
- `analysistemplate-consistency.yaml:13-17` says that "even one transfer that
  disagrees" makes drift non-zero. The reconciler compares sums per account
  (`reconciler/main.py:103-107`): a trade posted twice and another one lost leave the
  sums right, and the rollout goes on. `GateSees` says exactly what the gauge shows:
  everything but errors that cancel out; and errors of one sign, such as a fee that
  is rounded up, in every cycle without a trade in flight.

## 4. Proofs

Proved for all values of the constants, from the assumptions the modules state:
bounds are natural numbers, `None` is not a value, `Malformed \subseteq Trades`
(`Settlement`), units are positive (`Postings`), fills have integer quantities and
prices (`Ledger` and `Reconciler`, as `float()` has made numbers of them; natural
ones with a known symbol in `ReadModel`, from `feed`), and `Trades` is finite in
`Reconciler` and `Rollout`, whose gauges are sums over trades (in `Ledger` it need not
be: only finitely many trades are ever in the ledger). In `Rollout` amounts are
natural numbers on finitely many accounts, and `Misposted[t]` is not `Due[t]`.

`SettlementProofs`:

- `TypeCorrect`: `Spec => []TypeOK`. Not trivial in one place: a stream has at
  most one TradeSettled because the append names version 0.
- `InvariantHolds`: `Spec => []IInv`, and from it `EffectivelyOnce`
  (`AtMostOncePosted`), `AckedTradesAreSettled`, `RestartsLoseNothing`
  (`CheckpointCoversSettled`).
- `Refinement`: `Spec => ImplementsLifecycle`, with
  `posted <- [i \in 1..Len(ledger) |-> ledger[i].trade]`.
- `RetriesLastLongEnough` (`RetryBudget`).
- `MalformedGoesNoFurther`: a malformed trade is never posted, recorded as settled
  or acknowledged. That it is parked in the end is `MalformedIsParked`, a matter of
  liveness.

The argument. None of the safety properties is inductive: an ack is sent by a
replica that has forgotten everything but its place in the code. `HandOK` states
what that place implies: beyond the lookup, the trade is well formed; at
"record" and after, its chain is in the ledger; at "ack" and after, its stream
has TradeSettled. Each of these facts is stable (the ledger and the streams only
grow), so no step of another replica, however stale its delivery, can take it
back. `LedgerOK` (a chain's id is its trade) makes "the id is absent" mean "the
trade is not posted", which gives `AtMostOncePosted` at `CreateTransfers`;
`LogOK` (the log has each trade once, the subscription only those in the log)
carries `CheckpointCoversSettled` through `Capture` and `ServerRestart`. The
proof has one lemma per conjunct of `IInv` and under it one step per group of
actions that can disturb it.

`RetryBudget` (a well-formed trade is parked only if the failures exceed half the
retries) is about a counter that the service's own races drive up as well: a
replica whose delivery timed out goes on, loses to another one and nacks. What has
been counted says nothing of what is still to come, so the invariant `RetriesPaid`
counts debts: with the retries so far, the refusals that are already certain (all
`Racers` but the one who will create the chain, `Refusals`) and the timeout of an
event that nobody holds any more (`Orphaned`) come to at most twice the failures.
A refusal turns a debt into a retry; a slow replica's timeout is one failure and
adds at most two, one retry now and one racer more.

For the refinement, the steps that map to a step
are `Capture`, `CreateTransfers` and `RecordSettled`; all the others stutter.

`AmountTheorems`, of the posting rules: `AccountIdsUnique`, `FeeBounds`, `RoundsToNearest`,
`DoubleEntry` (positive amounts, two different accounts, both on the movement's
ledger) and `ClearingPassThrough` (what enters clearing leaves it), for every
accepted fill.

`CaptureProofs`: `TypeCorrect`, `EffectivelyOnce` (`CapturedOnce`),
`InvariantHolds` (`IInv`), `CrashLosesOne` (`LossBounded`) and `Refinement`
(`ImplementsLifecycle`). `LossBounded` is not inductive: it counts what is lost
behind the committed offset, and the next auto-commit moves that offset to where
the owner has read, making everything skipped on the way count at once. `Gone`
counts behind the reader's position instead, and `IInv` says that at most one
fill per crash is in it and that the committed offset never overtakes the reader.
Then `Poll` moves a fill from the topic into a hand, an append from the hand into
the log, and a rebalance moves the reader back; only a crash, which empties a
hand, adds to `Gone`, and `GoneOneMore` bounds that by one.

`LedgerProofs`: `InvariantHolds` (`IInv`), and from it `TypeCorrect`,
`ChainIsAtomic` (`ChainAtomic`), `SettledIsInLedger` (`SettledIsPosted`),
`NothingStaysReserved` (`NothingPending`), `PositionsAreRight` (`NetPositions`)
and `MoneyIsConserved`; and `Refinement` (`ImplementsBook`). The invariant is the
statement the skip in `settle` relies on, `Whole`: every transfer in the ledger
belongs to a trade whose whole chain is there. It survives because a batch is one
chain and its first transfer is new. The proof takes a batch through
`create_transfers` in stages:

1. `RunsExist`, `ChainRuns` open up the fold over a chain, so that it can be run
   step by step.
2. `PairPosts`: a PENDING and its POST_PENDING, from a ledger without reservations,
   leave none and post the amount on both sides; `PairIsApplied` runs such a pair.
3. `ChainIsApplied`: three or four pairs that do not fail add all of their transfers,
   the first of them new, and post the sum of their effects.
4. `BatchIsOneChain`: of `build_transfers`' six or eight transfers only the last is
   not LINKED, so `create_transfers` makes one chain of them. `BatchOutcome` sums up:
   the ledger is as before and some status is not OK, or all has been applied.
5. `MovementsAreSound`, `NetOfMovements`: what `compute_postings` returns is of this
   kind, and its effect on an account is `NetOf`, which knows no movements.

Then `SettleCreatedStep` adds one trade to the sum in `NetPositions`, and
`SettleSkippedStep` finds the whole chain behind the one id that `settle` looks up.
For the refinement, `SettleCreated` maps to `Book` or a stutter.

`ReconcilerProofs`: `TypeCorrect`, `DriftIsExplained` (`DriftExplained`),
`OneSidedDriftIsExact`, `NoDriftWithoutDifference` and `LagIsNotUnderstated`
(`LagNotUnderstated`).
`DriftBounded` is the arithmetic: the drift, a sum over accounts of absolute
differences of sums over trades, is at most the sum over the trades that only one
read saw of all they debit and credit (a triangle inequality, and a change of the
order of summation, `SumOfTable`). Trades can mask one another only if each read
saw some that the other did not: otherwise the drift is exactly their volume. The
lag needs an invariant about the time
between the two reads, `Replayed`: the number of settled trades that was read is
that of a set of replayed trades which are settled still.

`ReadModelProofs`: `TypeCorrect`, `StatusIsRight` (`StatusOfPrefix`),
`VolumeIsCorrect` (`VolumeOfPrefix`) and `VerdictIsExact` (`VerdictExact`). The live
state alone does not give an induction, because a restart brings back any earlier
one. `IInv` therefore says of every state a projection has had that it is right for
the events before it (`PastIsRight`), and of the log that it holds an event once and
TradeSettled after TradeExecuted (`LogShape`): without that, a settlement would
find its trade not pending and be dropped. `ExecutedIsRight` and `SettledIsRight`
are the two handlers of the status projection, `PastOfPrefix` and `PastOfStart` the
fallback and the reset. For the verdict, `RebuildIsRight` shows by induction over
the log that `rebuild`'s loop computes the counts of what it read, `DiffFinds` that
the comparison finds a difference exactly when two counts differ, and `HavingGrows`
that the counts of two different lengths of the log always differ somewhere.
`GaugesAreOnceTrue` (`GaugesWereTrue`) is about the service, gauge by gauge. An export
reads a state that is right for its own position, and of the symbol it is at, the
gauges already set are of that moment and the others of an earlier one; a symbol is
left with all of them set, a symbol that the state does not have keeps what an earlier
export gave it, a crash leaves what is true of the empty log, and a moment of the log
stays one while the log grows. What the projection goes through meanwhile does not
matter, as the values have been read (that is the mutant: reading them anew). Since
a settlement never precedes its execution (`SettledWereExecuted`), it follows that
the `max(0, ...)` of the unsettled count (`projection/main.py:144`) never takes effect
and that the counts of a symbol add up, except while an export is at this symbol
(`UnsettledIsExact`).

`AmountTheorems` also has the lemmas about sums that the other proofs use. The sum over
a set of the community modules takes its elements in an order left open by CHOOSE;
`SumRemove` shows that the order does not matter, and `SumAdd`, `SumSame`, `SumUnion`,
`SumOfSums`, `SumMonotone`, `SumPositive` and `SumOfTable` follow. The library's
induction rules have a predicate as a parameter, which the provers cannot instantiate;
`FiniteInduction` and `UpwardInduction` say the same of the set of those for which the
statement holds, and are proved from a smallest counterexample.

`TelemetryProofs`: `TypeCorrect`, `WritersAreProvisioned` (`Provisioned`) from an
invariant on which buckets exist at which stage of any instance (buckets are
never deleted, so no other instance can take them back), and `RollupIsRight`
(`RolledUp`), which holds because a run only reads minutes that are over
and whose points do not change any more.

`RolloutProofs`: `TypeCorrect`, and `GateIsRight` (`GateSees`) for any trades, amounts
and errors. `ActualIs` splits what was posted on an account into what was due and the
errors; `DifferenceIs` says when a sum of absolute values is zero. If both reads of a
cycle saw the same trades, the dues cancel and the errors are what is left
(`SameTrades`). If no trade is in flight, trades posted since the log was read add to
the posted side only (`ExpectedGrows`), so that errors of one sign cannot be
outweighed (`OneSign`).

**Only model-checked.** Liveness (`ExecutedIsSettled`, `MalformedIsParked`,
`ReachesTheLog`, `DriftSubsides`, `GaugesConverge`, `RolledBack`, `WrongIsCaught`,
`GoodIsPromoted`, `AllWrite`), which is out of the prover's reach, as is ENABLED.
Every invariant, action property and refinement of the passing runs is proved.

## 5. Plan

Done: all modules of section 2, with every safety property of the passing runs
proved. What is left would go beyond the present modules:

1. Messages that are not fills, which stop capture, once `Capture` has an
   intervention that skips them.
2. A second subscription group, for which `Settlement` would need one subscription
   state per group; its proofs speak of one group only in `LogOK` and the
   checkpoint.
3. A new image in the middle of a rollout, with more than one former replica set.
4. Ids that TigerBeetle refuses after a passing failure: a set of failed ids in
   `Ledger`, and what an operator does about the trades that need them.

## 6. Not modelled

- Metrics beyond the gauges named above, latencies and wall-clock time; the
  contents of events beyond what the services read. In `Telemetry`: retention,
  and the values of points.
- TigerBeetle's and KurrentDB's replication: each is one reliable server that may
  restart. An update of a projection to a changed query: the two files are part
  of the image, and a new one would start from another `$init`.
- A message in the topic that is not a well-formed fill in JSON, which stops
  capture (`capture/main.py:53`): `feed` never produces one. Fills that are lost
  in the producer's buffer are an action (`FeedCrash`), but nothing is promised
  about them.
- SLO and alert rules: PromQL over real-valued series, without a state of their
  own. The quantity they watch, drift, is modelled; their thresholds and `for:`
  durations are a matter of time.
- The chaos drills, as scripts: the faults they cause are actions of the modules,
  and what they expect to see is checked (`capture_loss`, `reconciler_drift`).
- The local stack, Helm, Argo CD applications, Terraform, Terragrunt, Confluent
  manifests and CI: declarations that external tools interpret. Their restart
  policies and limits are where the fairness and the faults above come from.
