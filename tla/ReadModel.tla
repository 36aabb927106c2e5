------------------------------ MODULE ReadModel ------------------------------
(***************************************************************************)
(* The read models of the event log: two projections that run inside       *)
(* KurrentDB (src/services/projection/*.js), the service that creates them *)
(* and exports their states as gauges (src/services/projection/main.py),   *)
(* and the one-shot tool that folds the log a second time and compares     *)
(* (src/services/rebuild/main.py).                                         *)
(*                                                                         *)
(* All of them read one log that goes on growing, each at its own pace: a  *)
(* projection folds event by event, and can fall back to a checkpoint, be  *)
(* reset or be disabled; the service polls one thing after another; the    *)
(* rebuild reads the log first and the live state later.                   *)
(***************************************************************************)
EXTENDS Naturals, Sequences, FiniteSets, SequencesExt

CONSTANTS
    Trades,     \* trade ids
    Stuck,      \* the trades that never settle (malformed fills, parked events)
    Symbols,    \* instruments
    Fill,       \* Fill[t]: the symbol, qty and price of t
    None,
    MaxEvents,  \* bound on the length of the log
    MaxFaults   \* bound on faults and on interventions of an operator

ASSUME FillAssumption == Fill \in [Trades -> [symbol : Symbols, qty : Nat, price : Nat]]
ASSUME StuckAssumption == Stuck \subseteq Trades
ASSUME EventsAssumption == MaxEvents \in Nat
ASSUME FaultsAssumption == MaxFaults \in Nat

\* The projections in the order in which main creates and polls them.
PROJECTIONS == <<"settlement_status", "volume_by_instrument">>
Projections == ToSet(PROJECTIONS)

VARIABLES
    log,        \* the trade events of $all
    status,     \* status[p]: "absent", "running" or "stopped"
    folded,     \* folded[p]: the states p has been in since $init, one per event
    pc, at,     \* where the service is in main, and at which projection
    head,       \* the end of the log when the poll began, 0 outside poll_health
    gauges,     \* what the service exports, as a scrape sees it
    export,     \* the loop of an export: the values read, the symbol it is at, and
                \* the symbols after it
    read,       \* the length of the log rebuild has folded, or None
    faults

database == <<log, status, folded>>
service == <<pc, at, head, gauges, export>>
vars == <<log, status, folded, pc, at, head, gauges, export, read, faults>>

Event == [type : {"TradeExecuted", "TradeSettled"}, trade : Trades]

Position(p) == Len(folded[p]) - 1
Live(p) == Last(folded[p])

-----------------------------------------------------------------------------
(* The folds.  A JavaScript object and a dict are functions on their keys. *)

Put(f, key, value) ==
    [k \in DOMAIN f \cup {key} |-> IF k = key THEN value ELSE f[k]]

Delete(f, key) == [k \in DOMAIN f \ {key} |-> f[k]]

Lookup(f, key, default) == IF key \in DOMAIN f THEN f[key] ELSE default

NoKeys == [k \in {} |-> None]
NoStatus == [executed |-> 0, settled |-> 0]
NoVolume == [fills |-> 0, qty |-> 0, notional |-> 0]

\* Count an event of a symbol, which gets a row of zeros if it has none.
Bump(symbols, s, field) ==
    Put(symbols, s, [Lookup(symbols, s, NoStatus) EXCEPT ![field] = @ + 1])

\* $init.
StartState(p) ==
    IF p = "settlement_status" THEN [symbols |-> NoKeys, pending |-> NoKeys]
    ELSE [symbols |-> NoKeys]

\* settlement_status.js, TradeExecuted.
StatusExecuted(state, t) ==
    [symbols |-> Bump(state.symbols, Fill[t].symbol, "executed"),
     pending |-> Put(state.pending, t, Fill[t].symbol)]

\* Bug: delete state.pending[d.trade_id] is forgotten.
StatusSettledKeepsPending(state, t) ==
    IF t \notin DOMAIN state.pending THEN state
    ELSE [state EXCEPT !.symbols = Bump(@, state.pending[t], "settled")]

\* settlement_status.js, TradeSettled, which has no symbol of its own.
StatusSettled(state, t) ==
    IF t \notin DOMAIN state.pending THEN state
    ELSE [symbols |-> Bump(state.symbols, state.pending[t], "settled"),
          pending |-> Delete(state.pending, t)]

\* Bug: the price of a fill is applied to all that was traded so far.
VolumeAtLastPrice(s, fill) ==
    [fills |-> s.fills + 1, qty |-> s.qty + fill.qty, notional |-> (s.qty + fill.qty) * fill.price]

\* volume_by_instrument.js, TradeExecuted, on the row of the fill's symbol.
AddFill(s, fill) ==
    [fills |-> s.fills + 1, qty |-> s.qty + fill.qty, notional |-> s.notional + fill.qty * fill.price]

VolumeExecuted(state, t) ==
    LET symbol == Fill[t].symbol
    IN  [symbols |-> Put(state.symbols, symbol, AddFill(Lookup(state.symbols, symbol, NoVolume), Fill[t]))]

\* The handler of an event in each of the projections.
Handle(p, state, event) ==
    CASE p = "settlement_status" /\ event.type = "TradeExecuted" -> StatusExecuted(state, event.trade)
      [] p = "settlement_status" /\ event.type = "TradeSettled" -> StatusSettled(state, event.trade)
      [] p # "settlement_status" /\ event.type = "TradeExecuted" -> VolumeExecuted(state, event.trade)
      [] OTHER -> state

\* executed, settled and unsettled of a symbol, in rebuild and in the gauges.
Row(s) ==
    [executed |-> s.executed, settled |-> s.settled,
     unsettled |-> IF s.executed > s.settled THEN s.executed - s.settled ELSE 0]

Rows(symbols) == [s \in DOMAIN symbols |-> Row(symbols[s])]

\* The body of rebuild's loop: the same fold, written again in Python.
FoldEvent(state, event) ==
    LET t == event.trade
    IN  CASE event.type = "TradeExecuted" ->
               [symbols |-> Bump(state.symbols, Fill[t].symbol, "executed"),
                pending |-> Put(state.pending, t, Fill[t].symbol)]
          [] event.type = "TradeSettled" /\ t \in DOMAIN state.pending ->
               [symbols |-> Bump(state.symbols, state.pending[t], "settled"),
                pending |-> Delete(state.pending, t)]
          [] OTHER -> state

rebuild_from_log(n) ==
    FoldLeft(FoldEvent, [symbols |-> NoKeys, pending |-> NoKeys], SubSeq(log, 1, n))

\* Bug: a symbol only one of the two knows is skipped.
DiffOfCommon(rebuilt, live) ==
    {k \in (DOMAIN rebuilt \cap DOMAIN live) \X {"executed", "settled", "unsettled"} :
        rebuilt[k[1]][k[2]] # live[k[1]][k[2]]}

\* The fields in which two tables of rows differ; a missing row counts as zeros.
diff(rebuilt, live) ==
    {k \in (DOMAIN rebuilt \cup DOMAIN live) \X {"executed", "settled", "unsettled"} :
        Lookup(rebuilt, k[1], Row(NoStatus))[k[2]] # Lookup(live, k[1], Row(NoStatus))[k[2]]}

-----------------------------------------------------------------------------
\* The calls of the service, and the gauges of a symbol in the order they are set.
Stages == {"down", "create", "enable", "head", "health",
           "status", "executed", "settled", "unsettled", "volume", "qty", "notional"}

\* No series yet: a gauge reads as zero.
NoGauges ==
    [rows |-> [s \in Symbols |-> Row(NoStatus)],
     volume |-> [s \in Symbols |-> [qty |-> 0, notional |-> 0]],
     running |-> [p \in Projections |-> FALSE],
     caughtUp |-> [p \in Projections |-> FALSE]]

NoExport == [values |-> NoKeys, symbol |-> None, left |-> {}]

TypeOK ==
    /\ log \in Seq(Event)
    /\ status \in [Projections -> {"absent", "running", "stopped"}]
    /\ \A p \in Projections : Len(folded[p]) \in 1..(Len(log) + 1)
    /\ pc \in Stages
    /\ at \in DOMAIN PROJECTIONS
    /\ head \in 0..Len(log)
    /\ gauges.running \in [Projections -> BOOLEAN]
    /\ gauges.caughtUp \in [Projections -> BOOLEAN]
    /\ DOMAIN gauges.rows = Symbols /\ DOMAIN gauges.volume = Symbols
    /\ export.symbol \in Symbols \cup {None} /\ export.left \subseteq Symbols
    /\ read \in 0..Len(log) \cup {None}
    /\ faults \in 0..MaxFaults

Init ==
    /\ log = << >>
    /\ status = [p \in Projections |-> "absent"]
    /\ folded = [p \in Projections |-> <<StartState(p)>>]
    /\ pc = "down" /\ at = 1 /\ head = 0
    /\ gauges = NoGauges /\ export = NoExport
    /\ read = None
    /\ faults = 0

Fault ==
    /\ faults < MaxFaults
    /\ faults' = faults + 1

-----------------------------------------------------------------------------
(* The log.                                                                *)

Record(type, t) ==
    /\ Len(log) < MaxEvents
    /\ log' = Append(log, [type |-> type, trade |-> t])
    /\ UNCHANGED <<status, folded, service, read, faults>>

In(type, t) == [type |-> type, trade |-> t] \in ToSet(log)

\* capture appends TradeExecuted once per trade, settlement TradeSettled after it.
Execute(t) == ~In("TradeExecuted", t) /\ Record("TradeExecuted", t)
Settle(t) ==
    /\ t \notin Stuck
    /\ In("TradeExecuted", t) /\ ~In("TradeSettled", t)
    /\ Record("TradeSettled", t)

-----------------------------------------------------------------------------
(* Projections inside KurrentDB, and the operator.                         *)

\* The projection takes the next event.
Advance(p) ==
    /\ status[p] = "running"
    /\ Position(p) < Len(log)
    /\ folded' = [folded EXCEPT ![p] = Append(@, Handle(p, Last(@), log[Len(@)]))]
    /\ UNCHANGED <<log, status, service, read, faults>>

\* KurrentDB restarts: the projection goes on from its last checkpoint, which
\* holds the position and the state there.
FallBack(p) ==
    /\ Fault
    /\ \E n \in 1..(Len(folded[p]) - 1) :
          folded' = [folded EXCEPT ![p] = SubSeq(@, 1, n)]
    /\ UNCHANGED <<log, status, service, read>>

\* reset_projection: from $init again; whether it runs does not change.
Reset(p) ==
    /\ Fault
    /\ status[p] # "absent"
    /\ folded' = [folded EXCEPT ![p] = <<StartState(p)>>]
    /\ UNCHANGED <<log, status, service, read>>

Disable(p) ==
    /\ Fault
    /\ status[p] = "running"
    /\ status' = [status EXCEPT ![p] = "stopped"]
    /\ UNCHANGED <<log, folded, service, read>>

-----------------------------------------------------------------------------
(* The projection service.                                                 *)

Goto(stage, i) ==
    /\ pc' = stage /\ at' = i
    /\ head' = IF stage = "health" THEN head ELSE 0

\* connect_kurrent retries until KurrentDB answers.
Boot ==
    /\ pc = "down"
    /\ Goto("create", 1)
    /\ UNCHANGED <<database, gauges, export, read, faults>>

\* ensure_projection: create, or update the query of the one that exists.  The
\* query is the same, so that update and its failure leave the same projection.
Create ==
    LET p == PROJECTIONS[at]
    IN  /\ pc = "create"
        /\ Goto("enable", at)
        /\ status' = IF status[p] = "absent" THEN [status EXCEPT ![p] = "running"] ELSE status
        /\ UNCHANGED <<log, folded, gauges, export, read, faults>>

\* Bug: one too many.
AfterEnableOffByOne == IF at <= Len(PROJECTIONS) THEN Goto("create", at + 1) ELSE Goto("head", 1)

AfterEnable == IF at < Len(PROJECTIONS) THEN Goto("create", at + 1) ELSE Goto("head", 1)

\* ensure_projection: enable_projection.
Enable ==
    /\ pc = "enable"
    /\ status' = [status EXCEPT ![PROJECTIONS[at]] = "running"]
    /\ AfterEnable
    /\ UNCHANGED <<log, folded, gauges, export, read, faults>>

\* enable_projection fails, which is only printed.
EnableWarning ==
    /\ pc = "enable"
    /\ Fault
    /\ AfterEnable
    /\ UNCHANGED <<database, gauges, export, read>>

\* get_commit_position, where each poll begins.
ReadHead ==
    /\ pc = "head"
    /\ pc' = "health" /\ at' = 1
    /\ head' = Len(log)
    /\ UNCHANGED <<database, gauges, export, read, faults>>

\* poll_health: is the projection's status Running?
Running(p) == status[p] = "running"

poll_health ==
    LET p == PROJECTIONS[at]
    IN  /\ pc = "health"
        /\ gauges' = [gauges EXCEPT
                         !.running[p] = Running(p),
                         !.caughtUp[p] = Position(p) >= head]
        /\ IF at < Len(PROJECTIONS)
           THEN Goto("health", at + 1)
           ELSE Goto("status", 1)
        /\ UNCHANGED <<database, export, read, faults>>

\* The loop over the symbols of a state: the next one, in whatever order the state
\* has them, begins with its first gauge.
Loop(values, left, first, done) ==
    IF left = {} THEN Goto(done, 1) /\ export' = NoExport
    ELSE \E s \in left : /\ Goto(first, 1)
                         /\ export' = [values |-> values, symbol |-> s, left |-> left \ {s}]

\* Bug: only one symbol is exported.
OneSymbol(first, done) == Loop(export.values, {}, first, done)

NextSymbol(first, done) == Loop(export.values, export.left, first, done)

Volumes(symbols) ==
    [s \in DOMAIN symbols |-> [qty |-> symbols[s].qty, notional |-> symbols[s].notional]]

\* get_projection_state, for each of the exports.
get_status ==
    LET rows == Rows(Live("settlement_status").symbols)
    IN  /\ pc = "status"
        /\ Loop(rows, DOMAIN rows, "executed", "volume")
        /\ UNCHANGED <<database, gauges, read, faults>>

get_volume ==
    LET volumes == Volumes(Live("volume_by_instrument").symbols)
    IN  /\ pc = "volume"
        /\ Loop(volumes, DOMAIN volumes, "qty", "head")
        /\ UNCHANGED <<database, gauges, read, faults>>

\* Bug: the state is read again for every gauge.
SetGaugeAnew(table, field) ==
    LET s == export.symbol
        live == IF table = "rows" THEN Rows(Live("settlement_status").symbols)
                ELSE Volumes(Live("volume_by_instrument").symbols)
    IN  /\ pc = field
        /\ gauges' = [gauges EXCEPT ![table][s][field] = Lookup(live, s, export.values[s])[field]]
        /\ UNCHANGED <<database, read, faults>>

\* labels(symbol).set: one gauge at a time, while start_http_server's thread serves
\* scrapes.  A symbol that the state does not have keeps what it was given last.
SetGauge(table, field) ==
    LET s == export.symbol
    IN  /\ pc = field
        /\ gauges' = [gauges EXCEPT ![table][s][field] = export.values[s][field]]
        /\ UNCHANGED <<database, read, faults>>

export_settlement_status ==
    \/ SetGauge("rows", "executed") /\ Goto("settled", 1) /\ UNCHANGED export
    \/ SetGauge("rows", "settled") /\ Goto("unsettled", 1) /\ UNCHANGED export
    \/ SetGauge("rows", "unsettled") /\ NextSymbol("executed", "volume")

export_volume ==
    \/ SetGauge("volume", "qty") /\ Goto("notional", 1) /\ UNCHANGED export
    \/ SetGauge("volume", "notional") /\ NextSymbol("qty", "head")

\* NotFoundError: a cold projection has no state yet.  That ends the exports.
NotMaterialized ==
    /\ \/ pc = "status" /\ Position("settlement_status") = 0
       \/ pc = "volume" /\ Position("volume_by_instrument") = 0
    /\ Goto("head", 1)
    /\ UNCHANGED <<database, gauges, export, read, faults>>

\* A call of the loop raises: printed, and the loop goes on.  (If it is the first
\* one, nothing has changed.)
PollError ==
    /\ pc \in {"health", "status", "volume"}
    /\ Fault
    /\ Goto("head", 1)
    /\ UNCHANGED <<database, gauges, export, read>>

\* The process dies, or ensure_projection raises something it does not catch.
ServiceCrash ==
    /\ pc # "down"
    /\ Fault
    /\ Goto("down", 1)
    /\ gauges' = NoGauges /\ export' = NoExport
    /\ UNCHANGED <<database, read>>

-----------------------------------------------------------------------------
(* rebuild.                                                                *)

\* rebuild_from_log: all of the log at one moment.
ReadLog ==
    /\ Fault
    /\ read = None
    /\ read' = Len(log)
    /\ UNCHANGED <<database, service>>

\* The rows that differ, if main reads the live projection now.
Problems == diff(Rows(rebuild_from_log(read).symbols), Rows(Live("settlement_status").symbols))

\* The rest of main: read the live state, which may not be there or not be
\* readable, compare, exit.
Exit ==
    /\ read # None
    /\ read' = None
    /\ UNCHANGED <<database, service, faults>>

-----------------------------------------------------------------------------
Next ==
    \/ \E t \in Trades : Execute(t) \/ Settle(t)
    \/ \E p \in Projections : Advance(p) \/ FallBack(p) \/ Reset(p) \/ Disable(p)
    \/ Boot \/ Create \/ Enable \/ EnableWarning
    \/ ReadHead \/ poll_health \/ get_status \/ export_settlement_status
    \/ get_volume \/ export_volume \/ NotMaterialized
    \/ PollError \/ ServiceCrash
    \/ ReadLog \/ Exit

Spec == Init /\ [][Next]_vars

\* A process that died is restarted, its loop goes on, and a running projection
\* takes what there is.
Fairness ==
    /\ WF_vars(\/ Boot \/ Create \/ Enable \/ ReadHead \/ poll_health
               \/ get_status \/ export_settlement_status \/ get_volume \/ export_volume)
    /\ \A p \in Projections : WF_vars(Advance(p))

FairSpec == Spec /\ Fairness

-----------------------------------------------------------------------------
(* Properties.                                                             *)

\* The trades of a symbol with an event of the type among the first n.
Among(type, n, s) ==
    {t \in Trades : Fill[t].symbol = s /\ \E i \in 1..n : log[i] = [type |-> type, trade |-> t]}

\* Whatever it went through, the status projection holds what counting the
\* events up to its position gives: per symbol, the trades executed and settled,
\* each settlement under the symbol its TradeExecuted named, and as pending
\* exactly the trades executed and not settled.
StatusOfPrefix ==
    LET n == Position("settlement_status")
        state == Live("settlement_status")
    IN  /\ \A s \in Symbols :
             Lookup(state.symbols, s, NoStatus) =
                 [executed |-> Cardinality(Among("TradeExecuted", n, s)),
                  settled |-> Cardinality(Among("TradeSettled", n, s))]
        /\ DOMAIN state.pending =
             UNION {Among("TradeExecuted", n, s) \ Among("TradeSettled", n, s) : s \in Symbols}

Qty(trades) == SumFunctionOnSet([t \in trades |-> Fill[t].qty], trades)
Notional(trades) == SumFunctionOnSet([t \in trades |-> Fill[t].qty * Fill[t].price], trades)

\* The volume projection holds the fills, quantity and turnover of the trades
\* executed up to its own position.
VolumeOfPrefix ==
    \A s \in Symbols :
        LET trades == Among("TradeExecuted", Position("volume_by_instrument"), s)
        IN  Lookup(Live("volume_by_instrument").symbols, s, NoVolume) =
                [fills |-> Cardinality(trades), qty |-> Qty(trades), notional |-> Notional(trades)]

\* There is a live state to compare with.
LiveFound == status["settlement_status"] # "absent" /\ Position("settlement_status") > 0

\* rebuild's verdict is exact: compared with a live projection, it exits 0 if and
\* only if that has folded the very events rebuild has read, none fewer or more.
VerdictExact ==
    read # None /\ LiveFound => (Problems = {} <=> Position("settlement_status") = read)

\* What the gauges of a symbol say if they are right for the first n events.
RowAt(n, s) == Row([executed |-> Cardinality(Among("TradeExecuted", n, s)),
                    settled |-> Cardinality(Among("TradeSettled", n, s))])
VolumeAt(n, s) ==
    LET trades == Among("TradeExecuted", n, s)
    IN  [qty |-> Qty(trades), notional |-> Notional(trades)]

\* The stages in which a gauge of the symbol that the export is at is set already.
SetBefore ==
    [executed |-> {"settled", "unsettled"}, settled |-> {"unsettled"}, qty |-> {"notional"}]

Fresh(s) == {f \in DOMAIN SetBefore : s = export.symbol /\ pc \in SetBefore[f]}

Overlay(old, new, fields) == [f \in DOMAIN old |-> IF f \in fields THEN new[f] ELSE old[f]]

\* What a scrape sees of a symbol was the truth of the log at one moment, or, while
\* the export is at this very symbol, at two: of the gauges set already and of the
\* others.  So at most one symbol at a time is mixed, nothing stays so once it was
\* exported, and no gauge is ever ahead of the log, though projections are reset,
\* fall back and go on in the middle of an export, and symbols have no row any more.
GaugesWereTrue ==
    \A s \in Symbols :
        /\ \E m, n \in 0..Len(log) :
              gauges.rows[s] = Overlay(RowAt(m, s), RowAt(n, s), Fresh(s))
        /\ \E m, n \in 0..Len(log) :
              gauges.volume[s] = Overlay(VolumeAt(m, s), VolumeAt(n, s), Fresh(s))

\* The gauges come to tell the truth for good, whatever was reset, lost or stale
\* on the way: whether each projection runs (ProjectionNotRunning watches that),
\* and, of one that does, that it has caught up and what the whole log says.  (The
\* volume is not exported while the other projection is cold, see NotMaterialized.)
GaugesConverge ==
    <>[]/\ \A p \in Projections :
             /\ gauges.running[p] <=> status[p] = "running"
             /\ status[p] = "running" => gauges.caughtUp[p]
        /\ status["settlement_status"] = "running" =>
             \A s \in Symbols : gauges.rows[s] = RowAt(Len(log), s)
        /\ status["volume_by_instrument"] = "running" /\ Position("settlement_status") > 0 =>
             \A s \in Symbols : gauges.volume[s] = VolumeAt(Len(log), s)

\* "Non-zero exit only on a genuine divergence."
ExitOnlyOnDivergence ==
    read # None /\ LiveFound /\ Problems # {} => ~StatusOfPrefix
=============================================================================
