----------------------------- MODULE Settlement -----------------------------
(***************************************************************************)
(* The settlement service (src/services/settlement/main.py): any number of *)
(* replicas read the KurrentDB persistent subscription "settlement" over   *)
(* TradeExecuted events, post each trade's transfers to TigerBeetle, and   *)
(* append TradeSettled to the trade's stream.                              *)
(*                                                                         *)
(* KurrentDB delivers at least once: a delivery that is not acknowledged   *)
(* in time, is nacked, or is lost with its consumer is retried, up to a    *)
(* retry limit after which the event is parked; a restart of the server    *)
(* resumes from the last saved checkpoint.  Transfer ids are functions of  *)
(* the trade, TigerBeetle refuses an id it holds, and the append names the *)
(* version it expects: these three together must make settlement           *)
(* effectively once.                                                       *)
(*                                                                         *)
(* A settlement chain (all the linked transfers of a trade) is one ledger  *)
(* entry here, because TigerBeetle commits it all or nothing; the module   *)
(* Ledger opens it up.                                                     *)
(***************************************************************************)
EXTENDS Naturals, Sequences, FiniteSets

CONSTANTS
    Trades,      \* trade ids
    Malformed,   \* the trades whose fill compute_postings rejects
    Workers,     \* replicas of the settlement service
    None,        \* no delivery in hand
    MaxRetries,  \* retries the subscription grants before it parks an event
    MaxFaults    \* bound on the failures of a run

ASSUME MalformedAssumption == Malformed \subseteq Trades
ASSUME RetriesAssumption == MaxRetries \in Nat
ASSUME FaultsAssumption == MaxFaults \in Nat
ASSUME NoneAssumption == None \notin [trade : Trades, retry : Nat]

VARIABLES
    \* KurrentDB
    streams,     \* streams[t]: the event types in the stream trade-<t>
    filtered,    \* the TradeExecuted events of $all, in log order
    group,       \* has the persistent subscription been created?
    sub,         \* sub[t]: the subscription's state for t's TradeExecuted
    retries,     \* retries[t]: how often that event has been retried
    checkpoint,  \* prefix of filtered a restarted server will not redeliver
    \* TigerBeetle
    ledger,      \* the committed settlement chains, in commit order
    \* the replicas
    pc,          \* pc[w]: where replica w is in main and settle
    hand,        \* hand[w]: the delivery w is processing, or None
    \* bookkeeping
    faults       \* failures so far, at most MaxFaults

kurrent == <<streams, filtered, group, sub, retries, checkpoint>>
vars == <<streams, filtered, group, sub, retries, checkpoint, ledger, pc, hand,
          faults>>

Executed == <<"TradeExecuted">>
ExecutedAndSettled == <<"TradeExecuted", "TradeSettled">>

Delivery == [trade : Trades, retry : Nat]

SubStates == {"absent", "queued", "outstanding", "acked", "parked"}

\* A replica with one of these values of pc is processing a delivery.
Busy == {"lookup", "create", "record", "ack", "report"}

TypeOK ==
    /\ streams \in [Trades -> {<< >>, Executed, ExecutedAndSettled}]
    /\ filtered \in Seq(Trades)
    /\ group \in BOOLEAN
    /\ sub \in [Trades -> SubStates]
    /\ retries \in [Trades -> Nat]
    /\ checkpoint \in 0..Len(filtered)
    /\ ledger \in Seq([id : Trades, trade : Trades])
    /\ pc \in [Workers -> Busy \cup {"idle", "down"}]
    /\ hand \in [Workers -> Delivery \cup {None}]
    /\ \A w \in Workers : pc[w] \in Busy <=> hand[w] # None
    /\ faults \in Nat

Init ==
    /\ streams = [t \in Trades |-> << >>]
    /\ filtered = << >>
    /\ group = FALSE
    /\ sub = [t \in Trades |-> "absent"]
    /\ retries = [t \in Trades |-> 0]
    /\ checkpoint = 0
    /\ ledger = << >>
    /\ pc = [w \in Workers |-> "down"]
    /\ hand = [w \in Workers |-> None]
    /\ faults = 0

-----------------------------------------------------------------------------
(* Queries.                                                                *)

\* Bug: the id also depends on the attempt.
TransferIdPerAttempt(d) == <<d.trade, d.retry>>

\* The deterministic id under which a delivery's chain is created: of the
\* delivery, only the trade counts.
TransferId(d) == d.trade

TransferExists(id) == \E i \in 1..Len(ledger) : ledger[i].id = id

Posted(t) == \E i \in 1..Len(ledger) : ledger[i].trade = t
Settled(t) == streams[t] = ExecutedAndSettled

\* A replica holds a delivery of t; it may be stale.
Held(t) == \E w \in Workers : hand[w] # None /\ hand[w].trade = t

Resolved(t) == sub[t] \in {"acked", "parked"}

-----------------------------------------------------------------------------
(* Steps that several actions take.                                        *)

Fault ==
    /\ faults < MaxFaults
    /\ faults' = faults + 1

Goto(w, l) == pc' = [pc EXCEPT ![w] = l]

\* Replica w is done with its delivery.
LetGo(w, l) ==
    /\ Goto(w, l)
    /\ hand' = [hand EXCEPT ![w] = None]

\* The server retries t's event, or parks it once the retries are used up.
RetryMessage(t) ==
    IF retries[t] < MaxRetries
    THEN /\ sub' = [sub EXCEPT ![t] = "queued"]
         /\ retries' = [retries EXCEPT ![t] = @ + 1]
    ELSE /\ sub' = [sub EXCEPT ![t] = "parked"]
         /\ UNCHANGED retries

\* Bug: nack(event, action="skip").
NackSkips(w) ==
    /\ sub' = [sub EXCEPT ![hand[w].trade] = "acked"]
    /\ LetGo(w, "idle")
    /\ UNCHANGED <<streams, filtered, group, retries, checkpoint, ledger>>

\* nack(event, action="retry").  The server ignores one for an event that is
\* not outstanding (timed out meanwhile, or already acknowledged).
Nack(w) ==
    /\ LET t == hand[w].trade
       IN IF sub[t] = "outstanding"
          THEN RetryMessage(t)
          ELSE UNCHANGED <<sub, retries>>
    /\ LetGo(w, "idle")
    /\ UNCHANGED <<streams, filtered, group, checkpoint, ledger>>

\* Bug: from_end=True.
SubscribeFromEnd ==
    /\ group' = TRUE
    /\ UNCHANGED sub

\* A created subscription starts at the beginning of $all; creating it again
\* changes nothing.
EnsureSubscription ==
    /\ group' = TRUE
    /\ sub' = IF group
              THEN sub
              ELSE [t \in Trades |->
                       IF streams[t] = << >> THEN "absent" ELSE "queued"]

-----------------------------------------------------------------------------
(* The replicas.                                                           *)

\* main up to the loop: connect, ensure the accounts and the subscription.
Restart(w) ==
    /\ pc[w] = "down"
    /\ Goto(w, "idle")
    /\ EnsureSubscription
    /\ UNCHANGED <<streams, filtered, retries, checkpoint, ledger, hand, faults>>

\* The loop takes the next event of the subscription.
Deliver(w, t) ==
    /\ pc[w] = "idle"
    /\ sub[t] = "queued"
    /\ sub' = [sub EXCEPT ![t] = "outstanding"]
    /\ hand' = [hand EXCEPT ![w] = [trade |-> t, retry |-> retries[t]]]
    /\ Goto(w, "lookup")
    /\ UNCHANGED <<streams, filtered, group, retries, checkpoint, ledger, faults>>

\* Bug: a malformed fill is acknowledged and dropped.
DropMalformed(w) ==
    /\ pc[w] = "lookup"
    /\ hand[w].trade \in Malformed
    /\ Goto(w, "ack")
    /\ UNCHANGED <<kurrent, ledger, hand, faults>>

\* json.loads or compute_postings raises on a malformed fill: nack.
RejectMalformed(w) ==
    /\ pc[w] = "lookup"
    /\ hand[w].trade \in Malformed
    /\ Nack(w)
    /\ UNCHANGED faults

\* Bugs: create_transfers without looking the id up first; a skipped trade is
\* acknowledged without record_settled; TradeSettled is recorded first.
NoLookup(d) == "create"
SkipForgetsRecord(d) == IF TransferExists(TransferId(d)) THEN "ack" ELSE "create"
RecordFirst(d) == "record"

\* Skip the creation if the first pending id is there.
AfterLookup(d) == IF TransferExists(TransferId(d)) THEN "record" ELSE "create"

\* lookup_transfers([first_pending]).
LookupTransfers(w) ==
    /\ pc[w] = "lookup"
    /\ hand[w].trade \notin Malformed
    /\ Goto(w, AfterLookup(hand[w]))
    /\ UNCHANGED <<kurrent, ledger, hand, faults>>

\* create_transfers of an id the ledger does not hold.
CreateTransfers(w) ==
    /\ pc[w] = "create"
    /\ ~TransferExists(TransferId(hand[w]))
    /\ ledger' = Append(ledger, [id |-> TransferId(hand[w]),
                                 trade |-> hand[w].trade])
    /\ Goto(w, "record")
    /\ UNCHANGED <<kurrent, hand, faults>>

\* create_transfers after another replica's: the first transfer is EXISTS, the
\* rest of the chain LINKED_EVENT_FAILED, which is not in OK: raise, nack.
CreateRefused(w) ==
    /\ pc[w] = "create"
    /\ TransferExists(TransferId(hand[w]))
    /\ Nack(w)
    /\ UNCHANGED faults

\* Bug: record_settled appends at any version.
RecordAnyVersion(w) ==
    /\ pc[w] = "record"
    /\ streams' = [streams EXCEPT ![hand[w].trade] = Append(@, "TradeSettled")]
    /\ Goto(w, "ack")
    /\ UNCHANGED <<filtered, group, sub, retries, checkpoint, ledger, hand, faults>>

\* record_settled: append at current_version=0; WrongCurrentVersionError passes.
RecordSettled(w) ==
    /\ pc[w] = "record"
    /\ LET t == hand[w].trade
       IN streams' = IF Len(streams[t]) = 1
                     THEN [streams EXCEPT ![t] = Append(@, "TradeSettled")]
                     ELSE streams
    /\ Goto(w, "ack")
    /\ UNCHANGED <<filtered, group, sub, retries, checkpoint, ledger, hand, faults>>

\* subscription.ack; without effect on an event that is not outstanding.
Ack(w) ==
    /\ pc[w] = "ack"
    /\ LET t == hand[w].trade
       IN sub' = IF sub[t] = "outstanding" THEN [sub EXCEPT ![t] = "acked"] ELSE sub
    /\ Goto(w, "report")
    /\ UNCHANGED <<streams, filtered, group, retries, checkpoint, ledger, hand, faults>>

\* The latency and lag metrics, one of which asks KurrentDB for its position.
Report(w) ==
    /\ pc[w] = "report"
    /\ LetGo(w, "idle")
    /\ UNCHANGED <<kurrent, ledger, faults>>

\* Any call in the try block raises, before or after it took effect: nack,
\* which after the ack is a nack of an acknowledged event.
Raise(w) ==
    /\ pc[w] \in Busy
    /\ Fault
    /\ Nack(w)

\* The client collects acks and sends them later: this one never leaves.
AckLost(w) ==
    /\ pc[w] = "ack"
    /\ Fault
    /\ Goto(w, "report")
    /\ UNCHANGED <<kurrent, ledger, hand>>

\* The process dies at any point, or leaves the loop on a broken subscription.
Crash(w) ==
    /\ pc[w] # "down"
    /\ Fault
    /\ LetGo(w, "down")
    /\ UNCHANGED <<kurrent, ledger>>

-----------------------------------------------------------------------------
(* KurrentDB and the capture service.                                      *)

\* capture appends TradeExecuted expecting NO_STREAM.
Capture(t) ==
    /\ streams[t] = << >>
    /\ streams' = [streams EXCEPT ![t] = Executed]
    /\ filtered' = Append(filtered, t)
    /\ sub' = IF group THEN [sub EXCEPT ![t] = "queued"] ELSE sub
    /\ UNCHANGED <<group, retries, checkpoint, ledger, pc, hand, faults>>

\* The message timeout of a delivery no replica holds any more.
OrphanTimeout(t) ==
    /\ sub[t] = "outstanding"
    /\ ~Held(t)
    /\ RetryMessage(t)
    /\ UNCHANGED <<streams, filtered, group, checkpoint, ledger, pc, hand, faults>>

\* The message timeout of a delivery that is still being processed.
SlowTimeout(t) ==
    /\ sub[t] = "outstanding"
    /\ Held(t)
    /\ Fault
    /\ RetryMessage(t)
    /\ UNCHANGED <<streams, filtered, group, checkpoint, ledger, pc, hand>>

\* The server saves how far every event is resolved.
SaveCheckpoint ==
    \E n \in (checkpoint + 1)..Len(filtered) :
        /\ \A i \in 1..n : Resolved(filtered[i])
        /\ checkpoint' = n
        /\ UNCHANGED <<streams, filtered, group, sub, retries, ledger, pc, hand, faults>>

\* The server restarts and reads on from the checkpoint: acknowledgements and
\* retry counts after it are forgotten.
ServerRestart ==
    LET Forgotten == {filtered[i] : i \in (checkpoint + 1)..Len(filtered)}
    IN  /\ group
        /\ Fault
        /\ sub' = [t \in Trades |-> IF t \in Forgotten THEN "queued" ELSE sub[t]]
        /\ retries' = [t \in Trades |-> IF t \in Forgotten THEN 0 ELSE retries[t]]
        /\ UNCHANGED <<streams, filtered, group, checkpoint, ledger, pc, hand>>

-----------------------------------------------------------------------------
\* What a replica does when nothing fails.
Step(w) ==
    \/ RejectMalformed(w)
    \/ LookupTransfers(w)
    \/ CreateTransfers(w)
    \/ CreateRefused(w)
    \/ RecordSettled(w)
    \/ Ack(w)
    \/ Report(w)

Next ==
    \/ \E w \in Workers :
          \/ Restart(w)
          \/ \E t \in Trades : Deliver(w, t)
          \/ Step(w)
          \/ Raise(w)
          \/ AckLost(w)
          \/ Crash(w)
    \/ \E t \in Trades : Capture(t) \/ OrphanTimeout(t) \/ SlowTimeout(t)
    \/ SaveCheckpoint
    \/ ServerRestart

Spec == Init /\ [][Next]_vars

(***************************************************************************)
(* Fairness.  A replica that runs keeps running its loop and one that died *)
(* is restarted (restart: unless-stopped, and the Rollout's pods); the     *)
(* server pushes queued events to idle consumers and its timers expire.    *)
(* Nothing is assumed of captures, faults and checkpoints.                 *)
(***************************************************************************)
Fairness ==
    /\ \A w \in Workers : WF_vars(Restart(w)) /\ WF_vars(Step(w))
    /\ \A t \in Trades : /\ WF_vars(\E w \in Workers : Deliver(w, t))
                         /\ WF_vars(OrphanTimeout(t))

FairSpec == Spec /\ Fairness

-----------------------------------------------------------------------------
(* Properties.                                                             *)

\* No trade is posted to the ledger twice, however often its event is
\* redelivered and to however many replicas at once (the deterministic ids of
\* model.py and the lookup before create_transfers).
AtMostOncePosted ==
    \A i, j \in 1..Len(ledger) : ledger[i].trade = ledger[j].trade => i = j

\* An event the subscription counts as done belongs to a trade that is posted
\* and recorded as settled: acknowledging last is what makes this so.
AckedImpliesSettled ==
    \A t \in Trades : sub[t] = "acked" => Posted(t) /\ Settled(t)

\* A restart of the server never skips a trade that is neither settled nor
\* parked, although it forgets every later acknowledgement.
CheckpointCoversSettled ==
    \A i \in 1..checkpoint : Settled(filtered[i]) \/ sub[filtered[i]] = "parked"

\* A failure costs a well-formed trade at most two of its retries (a slow
\* replica's event times out, and whoever loses the race to create is nacked),
\* so it is parked only after more than MaxRetries / 2 of them.
RetryBudget ==
    \A t \in Trades \ Malformed : sub[t] = "parked" => 2 * faults > MaxRetries

\* The log never says a trade is settled before the ledger holds it, so the
\* settled events are evidence the reconciler can count on.
SettledImpliesPosted == \A t \in Trades : Settled(t) => Posted(t)

\* The ledger holds well-formed trades under their own ids.
LedgerOK ==
    \A i \in 1..Len(ledger) : /\ ledger[i].id = ledger[i].trade
                              /\ ledger[i].trade \notin Malformed

\* What a replica has established about the trade in its hand, which no other
\* replica's step can take back: this is why a stale delivery does no harm.
HandOK ==
    \A w \in Workers : pc[w] \in Busy =>
        /\ streams[hand[w].trade] # << >>
        /\ pc[w] # "lookup" => hand[w].trade \notin Malformed
        /\ pc[w] \in {"record", "ack", "report"} => Posted(hand[w].trade)
        /\ pc[w] \in {"ack", "report"} => Settled(hand[w].trade)

\* The log holds each executed trade once, and the subscription only those.
LogOK ==
    /\ \A i \in 1..Len(filtered) : streams[filtered[i]] # << >>
    /\ \A i, j \in 1..Len(filtered) : filtered[i] = filtered[j] => i = j
    /\ \A t \in Trades : sub[t] # "absent" => group /\ streams[t] # << >>

\* The replicas that will ask TigerBeetle to create t's transfers, unless they
\* fail first: once the transfers are there, a lookup finds them.
Racers(t) ==
    {w \in Workers : /\ hand[w] # None /\ hand[w].trade = t
                     /\ pc[w] = "create" \/ (pc[w] = "lookup" /\ ~Posted(t))}

\* How many of them TigerBeetle will refuse: all but the first, who may be the
\* replica that takes the event next.
Refusals(t) ==
    IF Posted(t) \/ sub[t] \in {"absent", "queued"} THEN Cardinality(Racers(t))
    ELSE IF Racers(t) = {} THEN 0
    ELSE Cardinality(Racers(t)) - 1

\* Nobody will acknowledge or nack t's outstanding event: it will time out.
Orphaned(t) ==
    /\ sub[t] = "outstanding"
    /\ \A w \in Workers : hand[w] # None /\ hand[w].trade = t => pc[w] = "report"

\* The retries of a well-formed trade, with the refusals and the timeout that
\* are already certain to come, are paid for by the failures so far.
RetriesPaid ==
    \A t \in Trades \ Malformed :
        /\ IsFiniteSet(Racers(t))
        /\ retries[t] + Refusals(t) + (IF Orphaned(t) THEN 1 ELSE 0) <= 2 * faults

\* The inductive invariant: the safety properties hold because a replica's
\* place in settle says what is already in the ledger and in the stream, and
\* the retry budget because every retry to come is paid for in advance.
IInv ==
    /\ TypeOK
    /\ LedgerOK
    /\ AtMostOncePosted
    /\ SettledImpliesPosted
    /\ HandOK
    /\ LogOK
    /\ AckedImpliesSettled
    /\ CheckpointCoversSettled
    /\ RetriesPaid
    /\ RetryBudget

\* The service implements the trade's life cycle: posted once, and only then
\* recorded as settled, once.
Lifecycle ==
    INSTANCE TradeLifecycle
        WITH posted <- [i \in 1..Len(ledger) |-> ledger[i].trade]

ImplementsLifecycle == Lifecycle!Spec

\* Every well-formed trade that is executed is settled and acknowledged for
\* good, when the failures stay within the retry budget.
ExecutedIsSettled ==
    \A t \in Trades \ Malformed :
        streams[t] # << >> ~> [](Settled(t) /\ sub[t] = "acked")

\* A malformed trade ends up parked instead of being redelivered for ever.
MalformedIsParked ==
    \A t \in Malformed : streams[t] # << >> ~> [](sub[t] = "parked")
=============================================================================
