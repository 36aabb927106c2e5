-------------------------- MODULE ReadModelProofs --------------------------
(***************************************************************************)
(* The projections of ReadModel and rebuild's fold, for any log that       *)
(* capture and settlement can write and any restarts and resets: a state   *)
(* is that of the events up to its position, and two of them agree only at *)
(* the same position.                                                      *)
(***************************************************************************)
EXTENDS ReadModel, SequenceTheorems, AmountTheorems

-----------------------------------------------------------------------------
(* What the log looks like, and a state that is right for its first n      *)
(* events.                                                                 *)

Executed(t) == [type |-> "TradeExecuted", trade |-> t]
Settled(t) == [type |-> "TradeSettled", trade |-> t]

\* Every event once, and TradeSettled after TradeExecuted.
LogShape(l) ==
    /\ l \in Seq(Event)
    /\ \A i, j \in 1..Len(l) : l[i] = l[j] => i = j
    /\ \A i \in 1..Len(l) : l[i].type = "TradeSettled" =>
          \E j \in 1..(i - 1) : l[j] = Executed(l[i].trade)

\* Among, for any log.
Having(l, type, n, s) ==
    {t \in Trades : Fill[t].symbol = s /\ \E i \in 1..n : l[i] = [type |-> type, trade |-> t]}

Counts == [executed : Nat, settled : Nat]
StatusStates ==
    [symbols : UNION {[D -> Counts] : D \in SUBSET Symbols},
     pending : UNION {[D -> Symbols] : D \in SUBSET Trades}]

RightRow(l, state, n, s) ==
    /\ IsFiniteSet(Having(l, "TradeExecuted", n, s))
    /\ IsFiniteSet(Having(l, "TradeSettled", n, s))
    /\ Lookup(state.symbols, s, NoStatus) =
          [executed |-> Cardinality(Having(l, "TradeExecuted", n, s)),
           settled |-> Cardinality(Having(l, "TradeSettled", n, s))]

RightPending(l, state, n) ==
    /\ \A t \in Trades : t \in DOMAIN state.pending <=>
          /\ \E i \in 1..n : l[i] = Executed(t)
          /\ ~ \E i \in 1..n : l[i] = Settled(t)
    /\ \A t \in DOMAIN state.pending : state.pending[t] = Fill[t].symbol

Right(l, state, n) ==
    /\ state \in StatusStates
    /\ \A s \in Symbols : RightRow(l, state, n, s)
    /\ RightPending(l, state, n)

\* The same of the volume projection.
VolumeRows == [fills : Nat, qty : Nat, notional : Nat]
VolumeStates == [symbols : UNION {[D -> VolumeRows] : D \in SUBSET Symbols}]

RightVolumeRow(l, state, n, s) ==
    LET trades == Having(l, "TradeExecuted", n, s)
    IN  /\ IsFiniteSet(trades)
        /\ Lookup(state.symbols, s, NoVolume) =
              [fills |-> Cardinality(trades), qty |-> Qty(trades), notional |-> Notional(trades)]

RightVolume(l, state, n) ==
    /\ state \in VolumeStates
    /\ \A s \in Symbols : RightVolumeRow(l, state, n, s)

\* And of either.
St == "settlement_status"
Vol == "volume_by_instrument"

States == StatusStates \cup VolumeStates

RightFor(p, l, state, n) == IF p = St THEN Right(l, state, n) ELSE RightVolume(l, state, n)

-----------------------------------------------------------------------------
(* Objects.                                                                *)

LEMMA LookupPut ==
    ASSUME NEW f, NEW key, NEW value, NEW k, NEW default
    PROVE  Lookup(Put(f, key, value), k, default) =
               IF k = key THEN value ELSE Lookup(f, k, default)
BY DEF Lookup, Put

LEMMA LookupCounts ==
    ASSUME NEW state \in StatusStates, NEW s \in Symbols
    PROVE  Lookup(state.symbols, s, NoStatus) \in Counts
BY DEF StatusStates, Lookup, NoStatus, Counts

LEMMA BumpFacts ==
    ASSUME NEW state \in StatusStates, NEW s \in Symbols, NEW field \in {"executed", "settled"}
    PROVE  /\ Bump(state.symbols, s, field) \in UNION {[D -> Counts] : D \in SUBSET Symbols}
           /\ \A k \in Symbols : Lookup(Bump(state.symbols, s, field), k, NoStatus) =
                IF k = s THEN [Lookup(state.symbols, s, NoStatus) EXCEPT ![field] = @ + 1]
                ELSE Lookup(state.symbols, k, NoStatus)
<1> DEFINE row == [Lookup(state.symbols, s, NoStatus) EXCEPT ![field] = @ + 1]
<1>1. row \in Counts
  BY LookupCounts DEF Counts
<1>2. PICK D \in SUBSET Symbols : state.symbols \in [D -> Counts]
  BY DEF StatusStates
<1>3. Put(state.symbols, s, row) \in [D \cup {s} -> Counts]
  BY <1>1, <1>2 DEF Put
<1>4. D \cup {s} \in SUBSET Symbols
  BY <1>2
<1>5. Put(state.symbols, s, row) \in UNION {[E -> Counts] : E \in SUBSET Symbols}
  BY <1>3, <1>4
<1> QED BY <1>5, LookupPut DEF Bump

-----------------------------------------------------------------------------
(* The sets of trades that are counted.                                    *)

\* An event of another type or symbol changes nothing; one of this type and
\* symbol adds its trade.
LEMMA HavingNext ==
    ASSUME NEW l \in Seq(Event), LogShape(l), NEW n \in Nat, n < Len(l), NEW s \in Symbols,
           NEW type \in {"TradeExecuted", "TradeSettled"},
           IsFiniteSet(Having(l, type, n, s))
    PROVE  LET t == l[n + 1].trade
               now == Having(l, type, n + 1, s)
               before == Having(l, type, n, s)
               counts == l[n + 1].type = type /\ Fill[t].symbol = s
           IN  /\ IsFiniteSet(now) /\ Cardinality(before) \in Nat
               /\ t \in Trades
               /\ now = IF counts THEN before \cup {t} ELSE before
               /\ counts => t \notin before
               /\ Cardinality(now) = IF counts THEN Cardinality(before) + 1
                                     ELSE Cardinality(before)
<1> DEFINE t == l[n + 1].trade
           now == Having(l, type, n + 1, s)
           before == Having(l, type, n, s)
           counts == l[n + 1].type = type /\ Fill[t].symbol = s
<1>1. /\ Len(l) \in Nat /\ n + 1 \in 1..Len(l) /\ l[n + 1] \in Event
      /\ 1..(n + 1) = (1..n) \cup {n + 1} /\ 1..n \subseteq 1..Len(l)
  BY LenProperties, ElementOfSeq
<1>2. l[n + 1] = [type |-> l[n + 1].type, trade |-> t] /\ t \in Trades
  BY <1>1 DEF Event
<1>3. CASE counts
  <2>1. now = before \cup {t}
    BY <1>1, <1>2, <1>3 DEF Having
  <2>2. t \notin before
    BY <1>1, <1>2, <1>3 DEF Having, LogShape
  <2> QED BY <1>2, <1>3, <2>1, <2>2, FS_AddElement, FS_CardinalityType
<1>4. CASE ~counts
  <2>1. now = before
    BY <1>1, <1>2, <1>4 DEF Having
  <2> QED BY <1>2, <1>4, <2>1, FS_CardinalityType
<1> QED BY <1>3, <1>4

-----------------------------------------------------------------------------
(* One more event is folded.                                               *)

LEMMA EventCases ==
    ASSUME NEW l \in Seq(Event), LogShape(l), NEW n \in Nat, n < Len(l)
    PROVE  /\ n + 1 \in 1..Len(l) /\ 1..(n + 1) = (1..n) \cup {n + 1}
           /\ l[n + 1].trade \in Trades /\ Fill[l[n + 1].trade].symbol \in Symbols
           /\ \/ l[n + 1] = Executed(l[n + 1].trade) /\ l[n + 1].type = "TradeExecuted"
              \/ /\ l[n + 1] = Settled(l[n + 1].trade) /\ l[n + 1].type = "TradeSettled"
                 /\ \E i \in 1..n : l[i] = Executed(l[n + 1].trade)
           /\ \A i \in 1..n : l[i] # l[n + 1]
<1>1. /\ Len(l) \in Nat /\ n + 1 \in 1..Len(l) /\ l[n + 1] \in Event
      /\ 1..(n + 1) = (1..n) \cup {n + 1} /\ 1..n \subseteq 1..Len(l)
  BY LenProperties, ElementOfSeq
<1>2. l[n + 1].trade \in Trades /\ Fill[l[n + 1].trade].symbol \in Symbols
  BY <1>1, FillAssumption DEF Event
<1>3. \/ l[n + 1] = Executed(l[n + 1].trade) /\ l[n + 1].type = "TradeExecuted"
      \/ l[n + 1] = Settled(l[n + 1].trade) /\ l[n + 1].type = "TradeSettled"
  BY <1>1 DEF Event, Executed, Settled
<1>4. l[n + 1].type = "TradeSettled" => \E i \in 1..n : l[i] = Executed(l[n + 1].trade)
  <2>1. (n + 1) - 1 = n
    OBVIOUS
  <2> QED BY <1>1, <2>1 DEF LogShape
<1>5. \A i \in 1..n : l[i] # l[n + 1]
  BY <1>1 DEF LogShape
<1> QED BY <1>1, <1>2, <1>3, <1>4, <1>5

LEMMA ExecutedIsRight ==
    ASSUME NEW l \in Seq(Event), LogShape(l), NEW n \in Nat, n < Len(l),
           NEW state, Right(l, state, n), l[n + 1].type = "TradeExecuted"
    PROVE  Right(l, StatusExecuted(state, l[n + 1].trade), n + 1)
<1> DEFINE t == l[n + 1].trade
           symbol == Fill[t].symbol
           next == StatusExecuted(state, t)
<1>1. /\ t \in Trades /\ symbol \in Symbols /\ l[n + 1] = Executed(t)
      /\ 1..(n + 1) = (1..n) \cup {n + 1}
      /\ \A i \in 1..n : l[i] # l[n + 1]
  BY EventCases DEF Settled
<1>2. state \in StatusStates
  BY DEF Right
<1>3. /\ next.symbols = Bump(state.symbols, symbol, "executed")
      /\ next.pending = Put(state.pending, t, symbol)
  BY DEF StatusExecuted
<1>4. next \in StatusStates
  <2>1. next.symbols \in UNION {[D -> Counts] : D \in SUBSET Symbols}
    <3>1. Bump(state.symbols, symbol, "executed") \in UNION {[D -> Counts] : D \in SUBSET Symbols}
      BY <1>1, <1>2, BumpFacts
    <3> QED BY <1>3, <3>1
  <2>2. PICK D \in SUBSET Trades : state.pending \in [D -> Symbols]
    BY <1>2 DEF StatusStates
  <2>3. next.pending \in [D \cup {t} -> Symbols] /\ D \cup {t} \in SUBSET Trades
    BY <1>1, <1>3, <2>2 DEF Put
  <2>4. next.pending \in UNION {[E -> Symbols] : E \in SUBSET Trades}
    BY <2>3
  <2> QED BY <2>1, <2>4 DEF StatusStates, StatusExecuted
<1>5. ASSUME NEW s \in Symbols PROVE RightRow(l, next, n + 1, s)
  <2>1. RightRow(l, state, n, s)
    BY DEF Right
  <2>2. /\ IsFiniteSet(Having(l, "TradeExecuted", n + 1, s))
        /\ IsFiniteSet(Having(l, "TradeSettled", n + 1, s))
        /\ Cardinality(Having(l, "TradeExecuted", n + 1, s)) =
             IF s = symbol THEN Cardinality(Having(l, "TradeExecuted", n, s)) + 1
             ELSE Cardinality(Having(l, "TradeExecuted", n, s))
        /\ Cardinality(Having(l, "TradeSettled", n + 1, s)) =
             Cardinality(Having(l, "TradeSettled", n, s))
    BY <2>1, HavingNext DEF RightRow
  <2>3. Lookup(next.symbols, s, NoStatus) =
          IF s = symbol THEN [Lookup(state.symbols, s, NoStatus) EXCEPT !.executed = @ + 1]
          ELSE Lookup(state.symbols, s, NoStatus)
    <3>1. Lookup(Bump(state.symbols, symbol, "executed"), s, NoStatus) =
            IF s = symbol THEN [Lookup(state.symbols, symbol, NoStatus) EXCEPT !["executed"] = @ + 1]
            ELSE Lookup(state.symbols, s, NoStatus)
      BY <1>1, <1>2, BumpFacts
    <3> QED BY <1>3, <3>1
  <2> QED BY <2>1, <2>2, <2>3 DEF RightRow
<1>6. RightPending(l, next, n + 1)
  <2>1. DOMAIN next.pending = DOMAIN state.pending \cup {t}
    BY <1>3 DEF Put
  <2>2. \A u \in DOMAIN next.pending :
           next.pending[u] = IF u = t THEN symbol ELSE state.pending[u]
    BY <1>3 DEF Put
  <2>3. RightPending(l, state, n)
    BY DEF Right
  <2>4. \A i \in 1..n : l[i] # Settled(t)
    <3>1. SUFFICES ASSUME NEW i \in 1..n, l[i] = Settled(t) PROVE FALSE
      OBVIOUS
    <3>2. Len(l) \in Nat /\ i \in 1..Len(l) /\ l[i].type = "TradeSettled" /\ l[i].trade = t
      BY <3>1, LenProperties DEF Settled
    <3>3. PICK j \in 1..(i - 1) : l[j] = Executed(t)
      BY <3>2 DEF LogShape
    <3>4. j \in 1..n /\ l[j] = l[n + 1]
      BY <1>1, <3>3
    <3> QED BY <1>1, <3>4
  <2>5. l[n + 1] # Settled(t) /\ \A u \in Trades : u # t => l[n + 1] # Settled(u) /\ l[n + 1] # Executed(u)
    BY <1>1 DEF Executed, Settled
  <2>6. ASSUME NEW u \in Trades
        PROVE  u \in DOMAIN next.pending <=>
                  /\ \E i \in 1..(n + 1) : l[i] = Executed(u)
                  /\ ~ \E i \in 1..(n + 1) : l[i] = Settled(u)
    <3>1. CASE u = t
      BY <1>1, <2>1, <2>4, <2>5, <3>1
    <3>2. CASE u # t
      BY <1>1, <2>1, <2>3, <2>5, <3>2 DEF RightPending
    <3> QED BY <3>1, <3>2
  <2>7. ASSUME NEW u \in DOMAIN next.pending PROVE next.pending[u] = Fill[u].symbol
    BY <2>1, <2>2, <2>3, <2>7 DEF RightPending
  <2> QED BY <2>6, <2>7 DEF RightPending
<1> QED BY <1>4, <1>5, <1>6 DEF Right

LEMMA SettledIsRight ==
    ASSUME NEW l \in Seq(Event), LogShape(l), NEW n \in Nat, n < Len(l),
           NEW state, Right(l, state, n), l[n + 1].type = "TradeSettled"
    PROVE  Right(l, StatusSettled(state, l[n + 1].trade), n + 1)
<1> DEFINE t == l[n + 1].trade
           symbol == Fill[t].symbol
           next == StatusSettled(state, t)
<1>1. /\ t \in Trades /\ symbol \in Symbols /\ l[n + 1] = Settled(t)
      /\ 1..(n + 1) = (1..n) \cup {n + 1}
      /\ \A i \in 1..n : l[i] # l[n + 1]
      /\ \E i \in 1..n : l[i] = Executed(t)
  BY EventCases DEF Executed
<1>2. state \in StatusStates /\ RightPending(l, state, n)
  BY DEF Right
<1>3. t \in DOMAIN state.pending /\ state.pending[t] = symbol
  BY <1>1, <1>2 DEF RightPending
<1>4. /\ next.symbols = Bump(state.symbols, symbol, "settled")
      /\ next.pending = Delete(state.pending, t)
  BY <1>3 DEF StatusSettled
<1>5. next \in StatusStates
  <2>1. next.symbols \in UNION {[D -> Counts] : D \in SUBSET Symbols}
    <3>1. Bump(state.symbols, symbol, "settled") \in UNION {[D -> Counts] : D \in SUBSET Symbols}
      BY <1>1, <1>2, BumpFacts
    <3> QED BY <1>4, <3>1
  <2>2. PICK D \in SUBSET Trades : state.pending \in [D -> Symbols]
    BY <1>2 DEF StatusStates
  <2>3. next.pending \in [D \ {t} -> Symbols] /\ D \ {t} \in SUBSET Trades
    BY <1>4, <2>2 DEF Delete
  <2>4. next.pending \in UNION {[E -> Symbols] : E \in SUBSET Trades}
    BY <2>3
  <2> QED BY <1>3, <2>1, <2>4 DEF StatusStates, StatusSettled
<1>6. ASSUME NEW s \in Symbols PROVE RightRow(l, next, n + 1, s)
  <2>1. RightRow(l, state, n, s)
    BY DEF Right
  <2>2. /\ IsFiniteSet(Having(l, "TradeExecuted", n + 1, s))
        /\ IsFiniteSet(Having(l, "TradeSettled", n + 1, s))
        /\ Cardinality(Having(l, "TradeSettled", n + 1, s)) =
             IF s = symbol THEN Cardinality(Having(l, "TradeSettled", n, s)) + 1
             ELSE Cardinality(Having(l, "TradeSettled", n, s))
        /\ Cardinality(Having(l, "TradeExecuted", n + 1, s)) =
             Cardinality(Having(l, "TradeExecuted", n, s))
    BY <2>1, HavingNext DEF RightRow
  <2>3. Lookup(next.symbols, s, NoStatus) =
          IF s = symbol THEN [Lookup(state.symbols, s, NoStatus) EXCEPT !.settled = @ + 1]
          ELSE Lookup(state.symbols, s, NoStatus)
    <3>1. Lookup(Bump(state.symbols, symbol, "settled"), s, NoStatus) =
            IF s = symbol THEN [Lookup(state.symbols, symbol, NoStatus) EXCEPT !["settled"] = @ + 1]
            ELSE Lookup(state.symbols, s, NoStatus)
      BY <1>1, <1>2, BumpFacts
    <3> QED BY <1>4, <3>1
  <2> QED BY <2>1, <2>2, <2>3 DEF RightRow
<1>7. RightPending(l, next, n + 1)
  <2>1. DOMAIN next.pending = DOMAIN state.pending \ {t}
    BY <1>4 DEF Delete
  <2>2. \A u \in DOMAIN next.pending : next.pending[u] = Fill[u].symbol
    BY <1>2, <1>4 DEF Delete, RightPending
  <2>3. \A u \in Trades : l[n + 1] # Executed(u) /\ (u # t => l[n + 1] # Settled(u))
    BY <1>1 DEF Executed, Settled
  <2>4. ASSUME NEW u \in Trades
        PROVE  u \in DOMAIN next.pending <=>
                  /\ \E i \in 1..(n + 1) : l[i] = Executed(u)
                  /\ ~ \E i \in 1..(n + 1) : l[i] = Settled(u)
    <3>1. CASE u = t
      BY <1>1, <2>1, <3>1
    <3>2. CASE u # t
      BY <1>1, <1>2, <2>1, <2>3, <3>2 DEF RightPending
    <3> QED BY <3>1, <3>2
  <2> QED BY <2>2, <2>4 DEF RightPending
<1> QED BY <1>5, <1>6, <1>7 DEF Right

-----------------------------------------------------------------------------
(* Quantity and turnover.                                                  *)

LEMMA FillFacts == \A t \in Trades : /\ Fill[t].symbol \in Symbols
                                     /\ Fill[t].qty \in Nat
                                     /\ Fill[t].qty * Fill[t].price \in Nat
<1> SUFFICES ASSUME NEW t \in Trades
             PROVE  /\ Fill[t].symbol \in Symbols
                    /\ Fill[t].qty \in Nat
                    /\ Fill[t].qty * Fill[t].price \in Nat
  OBVIOUS
<1>1. Fill[t].symbol \in Symbols /\ Fill[t].qty \in Nat /\ Fill[t].price \in Nat
  BY FillAssumption
<1>2. \A x, y \in Nat : x * y \in Nat
  OBVIOUS
<1> QED BY <1>1, <1>2

\* One more trade adds its own quantity and turnover, whatever the order in
\* which the others were counted.
LEMMA SumsGrow ==
    ASSUME NEW S \in SUBSET Trades, IsFiniteSet(S), NEW t \in Trades, t \notin S
    PROVE  /\ Qty(S) \in Nat /\ Notional(S) \in Nat
           /\ Qty(S \cup {t}) = Qty(S) + Fill[t].qty
           /\ Notional(S \cup {t}) = Notional(S) + Fill[t].qty * Fill[t].price
<1> DEFINE T == S \cup {t}
<1>1. ASSUME NEW f, \A u \in Trades : f[u] \in Nat
      PROVE  /\ SumFunctionOnSet([u \in S |-> f[u]], S) \in Nat
             /\ SumFunctionOnSet([u \in T |-> f[u]], T) =
                  SumFunctionOnSet([u \in S |-> f[u]], S) + f[t]
  <2> DEFINE g == [u \in S |-> f[u]]
             h == [u \in T |-> f[u]]
  <2>1. /\ \A u \in S : g[u] \in Nat /\ g[u] \in Int /\ h[u] \in Int /\ g[u] = h[u]
        /\ \A u \in S \cup {t} : h[u] \in Int
        /\ h[t] = f[t]
    BY <1>1
  <2> HIDE DEF g, h
  <2>2. SumFunctionOnSet(g, S) \in Nat
    BY <2>1, SumType
  <2>3. SumFunctionOnSet(h, S \cup {t}) = h[t] + SumFunctionOnSet(h, S)
    BY <2>1, SumAdd
  <2>4. SumFunctionOnSet(g, S) = SumFunctionOnSet(h, S)
    BY <2>1, SumSame
  <2>5. f[t] \in Nat
    BY <1>1
  <2> QED BY <2>1, <2>2, <2>3, <2>4, <2>5 DEF g, h
<1> DEFINE qty == [u \in Trades |-> Fill[u].qty]
           notional == [u \in Trades |-> Fill[u].qty * Fill[u].price]
<1>2. /\ \A u \in Trades : qty[u] \in Nat /\ notional[u] \in Nat
      /\ \A R \in SUBSET Trades : /\ [u \in R |-> qty[u]] = [u \in R |-> Fill[u].qty]
                                  /\ [u \in R |-> notional[u]] = [u \in R |-> Fill[u].qty * Fill[u].price]
      /\ qty[t] = Fill[t].qty /\ notional[t] = Fill[t].qty * Fill[t].price
  BY FillFacts
<1>3. T \in SUBSET Trades
  OBVIOUS
<1> HIDE DEF qty, notional, T
<1>4. /\ Qty(S) = SumFunctionOnSet([u \in S |-> qty[u]], S)
      /\ Qty(T) = SumFunctionOnSet([u \in T |-> qty[u]], T)
      /\ Notional(S) = SumFunctionOnSet([u \in S |-> notional[u]], S)
      /\ Notional(T) = SumFunctionOnSet([u \in T |-> notional[u]], T)
  BY <1>2, <1>3 DEF Qty, Notional
<1>5. Qty(S) \in Nat /\ Qty(T) = Qty(S) + qty[t]
  <2>1. \A u \in Trades : qty[u] \in Nat
    BY <1>2
  <2>2. /\ SumFunctionOnSet([u \in S |-> qty[u]], S) \in Nat
        /\ SumFunctionOnSet([u \in T |-> qty[u]], T) =
             SumFunctionOnSet([u \in S |-> qty[u]], S) + qty[t]
    BY Zenon, <1>1, <2>1
  <2> QED BY Zenon, <1>4, <2>2
<1>6. Notional(S) \in Nat /\ Notional(T) = Notional(S) + notional[t]
  <2>1. \A u \in Trades : notional[u] \in Nat
    BY <1>2
  <2>2. /\ SumFunctionOnSet([u \in S |-> notional[u]], S) \in Nat
        /\ SumFunctionOnSet([u \in T |-> notional[u]], T) =
             SumFunctionOnSet([u \in S |-> notional[u]], S) + notional[t]
    BY Zenon, <1>1, <2>1
  <2> QED BY Zenon, <1>4, <2>2
<1> QED BY <1>2, <1>5, <1>6 DEF T

LEMMA VolumeIsRight ==
    ASSUME NEW l \in Seq(Event), LogShape(l), NEW n \in Nat, n < Len(l),
           NEW state, RightVolume(l, state, n)
    PROVE  /\ l[n + 1].type = "TradeExecuted" =>
                RightVolume(l, VolumeExecuted(state, l[n + 1].trade), n + 1)
           /\ l[n + 1].type # "TradeExecuted" => RightVolume(l, state, n + 1)
<1> DEFINE t == l[n + 1].trade
           symbol == Fill[t].symbol
           before(s) == Having(l, "TradeExecuted", n, s)
           now(s) == Having(l, "TradeExecuted", n + 1, s)
<1>1. t \in Trades /\ symbol \in Symbols
  BY EventCases
<1>2. ASSUME NEW s \in Symbols
      PROVE  /\ IsFiniteSet(before(s)) /\ IsFiniteSet(now(s)) /\ before(s) \in SUBSET Trades
             /\ Cardinality(before(s)) \in Nat
             /\ now(s) = IF l[n + 1].type = "TradeExecuted" /\ symbol = s
                         THEN before(s) \cup {t} ELSE before(s)
             /\ l[n + 1].type = "TradeExecuted" /\ symbol = s =>
                  /\ t \notin before(s)
                  /\ Cardinality(now(s)) = Cardinality(before(s)) + 1
  <2>1. IsFiniteSet(before(s))
    BY DEF RightVolume, RightVolumeRow
  <2>2. before(s) \in SUBSET Trades
    BY DEF Having
  <2> QED BY <2>1, <2>2, HavingNext
<1>3. ASSUME l[n + 1].type # "TradeExecuted" PROVE RightVolume(l, state, n + 1)
  <2>1. \A s \in Symbols : now(s) = before(s)
    BY <1>2, <1>3
  <2> QED BY <2>1 DEF RightVolume, RightVolumeRow
<1>4. ASSUME l[n + 1].type = "TradeExecuted"
      PROVE  RightVolume(l, VolumeExecuted(state, t), n + 1)
  <2> DEFINE next == VolumeExecuted(state, t)
             old == Lookup(state.symbols, symbol, NoVolume)
             row == AddFill(old, Fill[t])
  <2>1. old = [fills |-> Cardinality(before(symbol)), qty |-> Qty(before(symbol)),
               notional |-> Notional(before(symbol))]
    BY <1>1 DEF RightVolume, RightVolumeRow
  <2>2. /\ Qty(before(symbol)) \in Nat /\ Notional(before(symbol)) \in Nat
        /\ Qty(now(symbol)) = Qty(before(symbol)) + Fill[t].qty
        /\ Notional(now(symbol)) = Notional(before(symbol)) + Fill[t].qty * Fill[t].price
    BY <1>1, <1>2, <1>4, SumsGrow
  <2>3. row = [fills |-> Cardinality(now(symbol)), qty |-> Qty(now(symbol)),
               notional |-> Notional(now(symbol))]
    <3>1. Cardinality(now(symbol)) = Cardinality(before(symbol)) + 1
      BY <1>1, <1>2, <1>4
    <3> HIDE DEF before, now
    <3> QED BY <2>1, <2>2, <3>1 DEF AddFill
  <2>4. row \in VolumeRows
    <3>1. /\ Cardinality(now(symbol)) \in Nat /\ Qty(now(symbol)) \in Nat
          /\ Notional(now(symbol)) \in Nat
      <4>1. Cardinality(now(symbol)) = Cardinality(before(symbol)) + 1
        BY <1>1, <1>2, <1>4
      <4>2. Cardinality(before(symbol)) \in Nat
        BY <1>1, <1>2
      <4> HIDE DEF before, now
      <4> QED BY <1>1, <2>2, <4>1, <4>2, FillFacts
    <3> HIDE DEF before, now, row
    <3> QED BY <2>3, <3>1 DEF VolumeRows
  <2> HIDE DEF row
  <2>5. next = [symbols |-> Put(state.symbols, symbol, row)]
    BY DEF VolumeExecuted, row
  <2>6. next \in VolumeStates
    <3>1. PICK D \in SUBSET Symbols : state.symbols \in [D -> VolumeRows]
      BY DEF RightVolume, VolumeStates
    <3>2. Put(state.symbols, symbol, row) \in [D \cup {symbol} -> VolumeRows]
      BY <2>4, <3>1 DEF Put
    <3>3. D \cup {symbol} \in SUBSET Symbols
      BY <1>1, <3>1
    <3>4. Put(state.symbols, symbol, row) \in UNION {[E -> VolumeRows] : E \in SUBSET Symbols}
      BY <3>2, <3>3
    <3> QED BY <2>5, <3>4 DEF VolumeStates
  <2>7. ASSUME NEW s \in Symbols PROVE RightVolumeRow(l, next, n + 1, s)
    <3>1. Lookup(next.symbols, s, NoVolume) =
            IF s = symbol THEN row ELSE Lookup(state.symbols, s, NoVolume)
      BY <2>5, LookupPut
    <3>2. CASE s = symbol
      BY <1>2, <2>3, <3>1, <3>2 DEF RightVolumeRow
    <3>3. CASE s # symbol
      <4>1. now(s) = before(s)
        BY <1>2, <3>3
      <4> QED BY <3>1, <3>3, <4>1 DEF RightVolume, RightVolumeRow
    <3> QED BY <3>2, <3>3
  <2> QED BY <2>6, <2>7 DEF RightVolume
<1> QED BY <1>3, <1>4

-----------------------------------------------------------------------------
(* The log grows, and a projection's past stays right.                     *)

\* The states a projection has been in, each right for its own prefix.
PastIsRight(p, l, states) ==
    /\ states \in Seq(States)
    /\ Len(states) \in 1..(Len(l) + 1)
    /\ \A k \in 1..Len(states) : RightFor(p, l, states[k], k - 1)

LEMMA RightOfLonger ==
    ASSUME NEW p, NEW l \in Seq(Event), NEW e \in Event, NEW n \in 0..Len(l), NEW state,
           RightFor(p, l, state, n)
    PROVE  RightFor(p, Append(l, e), state, n)
<1>1. \A i \in 1..n : Append(l, e)[i] = l[i]
  BY AppendProperties, LenProperties
<1>2. \A type, s : Having(Append(l, e), type, n, s) = Having(l, type, n, s)
  BY <1>1 DEF Having
<1>3. ASSUME NEW s \in Symbols, RightRow(l, state, n, s)
      PROVE  RightRow(Append(l, e), state, n, s)
  BY <1>2, <1>3 DEF RightRow
<1>4. RightPending(l, state, n) => RightPending(Append(l, e), state, n)
  BY <1>1 DEF RightPending
<1>5. ASSUME NEW s \in Symbols, RightVolumeRow(l, state, n, s)
      PROVE  RightVolumeRow(Append(l, e), state, n, s)
  BY <1>2, <1>5 DEF RightVolumeRow
<1> QED BY <1>3, <1>4, <1>5 DEF RightFor, Right, RightVolume

LEMMA PastOfLonger ==
    ASSUME NEW p, NEW l \in Seq(Event), NEW e \in Event, NEW states,
           PastIsRight(p, l, states)
    PROVE  PastIsRight(p, Append(l, e), states)
<1>1. Len(Append(l, e)) = Len(l) + 1 /\ Len(l) \in Nat
  BY AppendProperties, LenProperties
<1>2. ASSUME NEW k \in 1..Len(states) PROVE RightFor(p, Append(l, e), states[k], k - 1)
  <2>1. k - 1 \in 0..Len(l) /\ RightFor(p, l, states[k], k - 1)
    BY <1>1 DEF PastIsRight
  <2> QED BY <2>1, RightOfLonger
<1> QED BY <1>1, <1>2 DEF PastIsRight

LEMMA PastOfPrefix ==
    ASSUME NEW p, NEW l \in Seq(Event), NEW states, PastIsRight(p, l, states),
           NEW n \in 1..Len(states)
    PROVE  PastIsRight(p, l, SubSeq(states, 1, n))
<1>1. states \in Seq(States) /\ Len(states) \in Nat /\ Len(l) \in Nat
  BY LenProperties DEF PastIsRight
<1>2. /\ SubSeq(states, 1, n) \in Seq(States) /\ Len(SubSeq(states, 1, n)) = n
      /\ \A k \in 1..n : SubSeq(states, 1, n)[k] = states[k]
  BY <1>1, SubSeqProperties
<1> QED BY <1>1, <1>2 DEF PastIsRight

\* $init is right for the empty prefix.
LEMMA StartIsRight ==
    ASSUME NEW l \in Seq(Event), NEW p \in {St, Vol}
    PROVE  RightFor(p, l, StartState(p), 0) /\ StartState(p) \in States
<1> DEFINE start == StartState(p)
<1>1. start.symbols = NoKeys /\ DOMAIN NoKeys = {} /\ (p = St => start.pending = NoKeys)
  BY DEF StartState, NoKeys, St
<1>2. \A type, s : Having(l, type, 0, s) = {}
  BY DEF Having
<1>3. IsFiniteSet({}) /\ Cardinality({}) = 0
  BY FS_EmptySet
<1>4. \A R, S : NoKeys \in UNION {[D -> R] : D \in SUBSET S}
  <2> SUFFICES ASSUME NEW R, NEW S PROVE NoKeys \in UNION {[D -> R] : D \in SUBSET S}
    OBVIOUS
  <2>1. NoKeys \in [{} -> R] /\ {} \in SUBSET S
    BY DEF NoKeys
  <2> QED BY <2>1
<1>5. CASE p = St
  <2>1. start \in StatusStates
    <3>1. /\ NoKeys \in UNION {[D -> Counts] : D \in SUBSET Symbols}
          /\ NoKeys \in UNION {[D -> Symbols] : D \in SUBSET Trades}
      BY <1>4
    <3> QED BY <1>5, <3>1 DEF StartState, StatusStates, St
  <2>2. \A s \in Symbols : RightRow(l, start, 0, s)
    BY <1>1, <1>2, <1>3 DEF RightRow, Lookup, NoStatus
  <2>3. RightPending(l, start, 0)
    BY <1>1, <1>5 DEF RightPending
  <2> QED BY <1>5, <2>1, <2>2, <2>3 DEF RightFor, Right, States
<1>6. CASE p = Vol
  <2>1. start \in VolumeStates
    <3>1. NoKeys \in UNION {[D -> VolumeRows] : D \in SUBSET Symbols}
      BY <1>4
    <3> QED BY <1>6, <3>1 DEF StartState, VolumeStates, Vol
  <2>2. Qty({}) = 0 /\ Notional({}) = 0
    BY SumEmpty DEF Qty, Notional
  <2>3. \A s \in Symbols : RightVolumeRow(l, start, 0, s)
    BY <1>1, <1>2, <1>3, <2>2 DEF RightVolumeRow, Lookup, NoVolume
  <2> QED BY <1>6, <2>1, <2>3 DEF RightFor, RightVolume, States, St, Vol
<1> QED BY <1>5, <1>6

LEMMA PastOfStart ==
    ASSUME NEW l \in Seq(Event), NEW p \in {St, Vol}
    PROVE  PastIsRight(p, l, <<StartState(p)>>)
<1> DEFINE start == StartState(p)
<1>1. RightFor(p, l, start, 0) /\ start \in States
  BY StartIsRight
<1> HIDE DEF start
<1>2. /\ <<start>> \in Seq(States) /\ Len(<<start>>) = 1 /\ <<start>>[1] = start
      /\ Len(l) \in Nat
  BY <1>1, LenProperties
<1> QED BY <1>1, <1>2 DEF PastIsRight, start

-----------------------------------------------------------------------------
(* Types, and the invariant.                                               *)

\* The inductive invariant: every state a projection has had is right for as
\* many events as it had folded, because a restart brings back any of them.
IInv ==
    /\ TypeOK
    /\ DOMAIN gauges = {"rows", "volume", "running", "caughtUp"}
    /\ LogShape(log)
    /\ folded = [p \in Projections |-> folded[p]]
    /\ \A p \in Projections : PastIsRight(p, log, folded[p])

LEMMA TheProjections ==
    /\ Projections = {St, Vol} /\ St # Vol
    /\ Len(PROJECTIONS) = 2 /\ DOMAIN PROJECTIONS = 1..2
    /\ \A i \in 1..2 : PROJECTIONS[i] \in Projections
<1>1. /\ DOMAIN PROJECTIONS = 1..2 /\ Len(PROJECTIONS) = 2
      /\ PROJECTIONS[1] = St /\ PROJECTIONS[2] = Vol
  BY DEF PROJECTIONS, St, Vol
<1>2. 1..2 = {1, 2}
  OBVIOUS
<1> QED BY <1>1, <1>2 DEF Projections, ToSet, St, Vol

LEMMA InvInit == Init => IInv
<1> SUFFICES ASSUME Init PROVE IInv
  OBVIOUS
<1>1. log \in Seq(Event) /\ LogShape(log) /\ Len(log) = 0
  BY DEF Init, LogShape
<1>2. /\ DOMAIN folded = Projections /\ folded = [p \in Projections |-> folded[p]]
      /\ \A p \in Projections : folded[p] = <<StartState(p)>>
  BY DEF Init
<1>3. \A p \in Projections : PastIsRight(p, log, folded[p])
  BY <1>1, <1>2, PastOfStart, TheProjections
<1>4. TypeOK
  <2>1. \A p \in Projections : Len(folded[p]) \in 1..(Len(log) + 1)
    BY <1>3 DEF PastIsRight
  <2>2. /\ gauges.running \in [Projections -> BOOLEAN]
        /\ gauges.caughtUp \in [Projections -> BOOLEAN]
        /\ DOMAIN gauges.rows = Symbols /\ DOMAIN gauges.volume = Symbols
    BY DEF Init, NoGauges
  <2>5. export.symbol \in Symbols \cup {None} /\ export.left \subseteq Symbols
    BY DEF Init, NoExport
  <2>3. status \in [Projections -> {"absent", "running", "stopped"}]
    BY DEF Init
  <2>4. pc \in Stages /\ at \in DOMAIN PROJECTIONS /\ head \in 0..Len(log)
        /\ read = None /\ faults \in 0..MaxFaults
    BY <1>1, TheProjections, FaultsAssumption DEF Init, Stages
  <2> QED BY <1>1, <2>1, <2>2, <2>3, <2>4, <2>5 DEF TypeOK
<1>5. DOMAIN gauges = {"rows", "volume", "running", "caughtUp"}
  BY DEF Init, NoGauges
<1> QED BY <1>1, <1>2, <1>3, <1>4, <1>5 DEF IInv

\* Both services record an event once, settlement after capture.
LEMMA RecordStep ==
    ASSUME LogShape(log), NEW t \in Trades, Execute(t) \/ Settle(t)
    PROVE  LogShape(log') /\ \E e \in Event : log' = Append(log, e)
<1> DEFINE e == IF Execute(t) THEN Executed(t) ELSE Settled(t)
<1>1. e \in Event /\ log' = Append(log, e) /\ e \notin ToSet(log)
  BY DEF Execute, Settle, Record, In, Executed, Settled, Event
<1>2. log \in Seq(Event) /\ Len(log) \in Nat /\ DOMAIN log = 1..Len(log)
  BY LenProperties DEF LogShape
<1>3. /\ log' \in Seq(Event) /\ Len(log') = Len(log) + 1
      /\ \A i \in 1..Len(log) : log'[i] = log[i]
      /\ log'[Len(log) + 1] = e
  BY <1>1, <1>2, AppendProperties
<1>4. \A i \in 1..Len(log) : log[i] # e
  BY <1>1, <1>2 DEF ToSet
<1>5. e.type = "TradeSettled" => \E j \in 1..Len(log) : log[j] = Executed(e.trade)
  BY <1>2 DEF Settle, In, ToSet, Executed, Settled
<1>6. \A i, j \in 1..Len(log') : log'[i] = log'[j] => i = j
  BY <1>2, <1>3, <1>4 DEF LogShape
<1>7. ASSUME NEW i \in 1..Len(log'), log'[i].type = "TradeSettled"
      PROVE  \E j \in 1..(i - 1) : log'[j] = Executed(log'[i].trade)
  <2>1. CASE i = Len(log) + 1
    BY <1>2, <1>3, <1>5, <1>7, <2>1
  <2>2. CASE i \in 1..Len(log)
    <3>1. PICK j \in 1..(i - 1) : log[j] = Executed(log[i].trade)
      BY <1>3, <1>7, <2>2 DEF LogShape
    <3>2. log'[j] = log[j]
      BY <1>2, <1>3, <2>2, <3>1
    <3> QED BY <1>3, <2>2, <3>1, <3>2
  <2> QED BY <1>2, <1>3, <2>1, <2>2
<1>8. LogShape(log')
  BY <1>3, <1>6, <1>7 DEF LogShape
<1> HIDE DEF e
<1> QED BY <1>1, <1>8

\* A handler turns the state of n events into that of n + 1.
LEMMA HandleIsRight ==
    ASSUME NEW l \in Seq(Event), LogShape(l), NEW n \in Nat, n < Len(l),
           NEW p \in {St, Vol}, NEW state, RightFor(p, l, state, n)
    PROVE  RightFor(p, l, Handle(p, state, l[n + 1]), n + 1)
<1>1. l[n + 1].type \in {"TradeExecuted", "TradeSettled"}
  BY EventCases
<1>2. CASE p = St /\ l[n + 1].type = "TradeExecuted"
  <2>1. Handle(p, state, l[n + 1]) = StatusExecuted(state, l[n + 1].trade)
    BY <1>2 DEF Handle, St
  <2> QED BY <1>2, <2>1, ExecutedIsRight DEF RightFor
<1>3. CASE p = St /\ l[n + 1].type = "TradeSettled"
  <2>1. Handle(p, state, l[n + 1]) = StatusSettled(state, l[n + 1].trade)
    BY <1>3 DEF Handle, St
  <2> QED BY <1>3, <2>1, SettledIsRight DEF RightFor
<1>4. CASE p # St /\ l[n + 1].type = "TradeExecuted"
  <2>1. Handle(p, state, l[n + 1]) = VolumeExecuted(state, l[n + 1].trade)
    BY <1>4 DEF Handle, St
  <2> QED BY <1>4, <2>1, VolumeIsRight DEF RightFor
<1>5. CASE p # St /\ l[n + 1].type = "TradeSettled"
  <2>1. Handle(p, state, l[n + 1]) = state
    BY <1>5 DEF Handle, St
  <2> QED BY <1>5, <2>1, VolumeIsRight DEF RightFor
<1> QED BY <1>1, <1>2, <1>3, <1>4, <1>5

LEMMA RightIsState ==
    ASSUME NEW p, NEW l, NEW state, NEW n, RightFor(p, l, state, n)
    PROVE  state \in States
BY DEF RightFor, Right, RightVolume, States

\* The projection folds the event after those it has folded.
LEMMA AdvanceStep ==
    ASSUME IInv, NEW p \in Projections, Advance(p)
    PROVE  PastIsRight(p, log, folded'[p])
<1> DEFINE states == folded[p]
           m == Len(states)
           next == Handle(p, Last(states), log[m])
<1>1. /\ states \in Seq(States) /\ m \in Nat /\ m \in 1..(Len(log) + 1)
      /\ log \in Seq(Event) /\ Len(log) \in Nat
  BY LenProperties DEF IInv, PastIsRight, LogShape
<1>2. m - 1 \in Nat /\ m - 1 < Len(log) /\ (m - 1) + 1 = m
  BY <1>1 DEF Advance, Position
<1>3. folded'[p] = Append(states, next)
  BY DEF Advance, IInv
<1>4. RightFor(p, log, states[m], m - 1) /\ Last(states) = states[m]
  <2>1. \A k \in 1..m : RightFor(p, log, states[k], k - 1)
    BY DEF IInv, PastIsRight
  <2>2. m \in 1..m
    BY <1>1
  <2>3. RightFor(p, log, states[m], m - 1)
    BY <2>1, <2>2
  <2> QED BY <2>3 DEF Last
<1>5. RightFor(p, log, next, m)
  <2>1. RightFor(p, log, Handle(p, states[m], log[(m - 1) + 1]), (m - 1) + 1)
    BY <1>1, <1>2, <1>4, HandleIsRight, TheProjections DEF IInv
  <2> QED BY <1>2, <1>4, <2>1
<1>6. next \in States
  BY <1>5, RightIsState
<1> HIDE DEF next
<1>7. /\ Append(states, next) \in Seq(States) /\ Len(Append(states, next)) = m + 1
      /\ \A k \in 1..m : Append(states, next)[k] = states[k]
      /\ Append(states, next)[m + 1] = next
  BY <1>1, <1>6, AppendProperties
<1>8. ASSUME NEW k \in 1..(m + 1) PROVE RightFor(p, log, Append(states, next)[k], k - 1)
  <2>1. CASE k = m + 1
    BY <1>1, <1>5, <1>7, <2>1
  <2>2. CASE k \in 1..m
    BY <1>7, <2>2 DEF IInv, PastIsRight
  <2> QED BY <1>1, <2>1, <2>2
<1> QED BY <1>1, <1>2, <1>3, <1>7, <1>8 DEF PastIsRight

\* Only these steps touch the log or what the projections have folded.
LEMMA PastStep ==
    ASSUME IInv, [Next]_vars
    PROVE  /\ LogShape(log)' /\ folded' = [p \in Projections |-> folded'[p]]
           /\ Len(log') >= Len(log) /\ log' \in Seq(Event)
           /\ \A p \in Projections : PastIsRight(p, log', folded'[p])
<1> DEFINE Goal == /\ LogShape(log)' /\ folded' = [p \in Projections |-> folded'[p]]
                   /\ Len(log') >= Len(log) /\ log' \in Seq(Event)
                   /\ \A p \in Projections : PastIsRight(p, log', folded'[p])
<1>1. log \in Seq(Event) /\ Len(log) \in Nat /\ LogShape(log)
  BY LenProperties DEF IInv, LogShape
<1>2. ASSUME NEW t \in Trades, Execute(t) \/ Settle(t) PROVE Goal
  <2>1. LogShape(log') /\ (\E e \in Event : log' = Append(log, e)) /\ folded' = folded
    BY <1>1, <1>2, RecordStep DEF Execute, Settle, Record
  <2>2. \A p \in Projections : PastIsRight(p, log', folded[p])
    BY <1>1, <2>1, PastOfLonger DEF IInv
  <2>3. Len(log') >= Len(log)
    BY <1>1, <2>1, AppendProperties
  <2> QED BY <2>1, <2>2, <2>3 DEF IInv, LogShape
<1>3. ASSUME NEW p \in Projections, Advance(p) \/ FallBack(p) \/ Reset(p) PROVE Goal
  <2>1. log' = log /\ \E states : folded' = [folded EXCEPT ![p] = states]
    BY <1>3 DEF Advance, FallBack, Reset
  <2>2. folded' = [q \in Projections |-> folded'[q]]
    BY <2>1 DEF IInv
  <2>3. \A q \in Projections : q # p => folded'[q] = folded[q]
    BY <2>1 DEF IInv
  <2>4. CASE Advance(p)
    BY <1>1, <2>1, <2>2, <2>3, <2>4, AdvanceStep DEF IInv
  <2>5. CASE FallBack(p)
    <3>1. PICK n \in 1..(Len(folded[p]) - 1) :
             folded' = [folded EXCEPT ![p] = SubSeq(@, 1, n)]
      BY <2>5 DEF FallBack
    <3>2. n \in 1..Len(folded[p]) /\ folded'[p] = SubSeq(folded[p], 1, n)
      BY <3>1, LenProperties DEF IInv, PastIsRight
    <3>3. PastIsRight(p, log, folded'[p])
      BY <1>1, <3>2, PastOfPrefix DEF IInv
    <3> QED BY <1>1, <2>1, <2>2, <2>3, <3>3 DEF IInv
  <2>6. CASE Reset(p)
    <3>1. folded'[p] = <<StartState(p)>>
      BY <2>6 DEF Reset, IInv
    <3>2. PastIsRight(p, log, folded'[p])
      BY <1>1, <3>1, PastOfStart, TheProjections
    <3> QED BY <1>1, <2>1, <2>2, <2>3, <3>2 DEF IInv
  <2> QED BY <1>3, <2>4, <2>5, <2>6
<1>4. ASSUME UNCHANGED <<log, folded>> PROVE Goal
  BY <1>1, <1>4 DEF IInv
<1> QED BY <1>2, <1>3, <1>4
        DEF Next, vars, database, Disable, Boot, Create, Enable, EnableWarning, ReadHead,
            poll_health, get_status, export_settlement_status, get_volume, export_volume,
            SetGauge, NotMaterialized, PollError, ServiceCrash, ReadLog, Exit

\* The state a projection has now is right for its position.
LEMMA LiveIsRight ==
    ASSUME IInv, NEW p \in Projections
    PROVE  RightFor(p, log, Live(p), Position(p)) /\ Position(p) \in 0..Len(log)
<1> DEFINE states == folded[p]
<1>1. \A k \in 1..Len(states) : RightFor(p, log, states[k], k - 1)
  BY DEF IInv, PastIsRight
<1>2. Len(states) \in Nat /\ Len(states) \in 1..(Len(log) + 1) /\ Len(log) \in Nat
  BY LenProperties DEF IInv, PastIsRight, LogShape
<1>3. Len(states) \in 1..Len(states)
  BY <1>2
<1>4. RightFor(p, log, states[Len(states)], Len(states) - 1)
  BY <1>1, <1>3
<1> QED BY <1>2, <1>4 DEF Position, Live, Last

\* What an export reads is about symbols there are.
LEMMA ReadSymbols ==
    ASSUME IInv
    PROVE  /\ DOMAIN Rows(Live(St).symbols) \subseteq Symbols
           /\ DOMAIN Volumes(Live(Vol).symbols) \subseteq Symbols
<1>1. Live(St) \in StatusStates /\ Live(Vol) \in VolumeStates
  BY LiveIsRight, TheProjections DEF RightFor, Right, RightVolume
<1>2. DOMAIN Live(St).symbols \subseteq Symbols /\ DOMAIN Live(Vol).symbols \subseteq Symbols
  BY <1>1 DEF StatusStates, VolumeStates
<1> QED BY <1>2 DEF Rows, Volumes

LEMMA GotoType ==
    ASSUME IInv, NEW stage \in Stages, NEW i \in 1..2, Goto(stage, i)
    PROVE  pc' \in Stages /\ at' \in DOMAIN PROJECTIONS /\ head' \in 0..Len(log)
<1>1. 0 \in 0..Len(log)
  BY LenProperties DEF IInv, LogShape
<1> QED BY <1>1, TheProjections DEF Goto, IInv, TypeOK

\* The service, the operator and rebuild keep their types; a position, and what
\* rebuild has read, never exceed the log.
LEMMA TypeStep ==
    ASSUME IInv, [Next]_vars
    PROVE  TypeOK' /\ DOMAIN gauges' = {"rows", "volume", "running", "caughtUp"}
<1>0. /\ Len(log) \in Nat /\ Len(log') \in Nat /\ Len(log') >= Len(log)
      /\ log' \in Seq(Event)
      /\ \A p \in Projections : Len(folded'[p]) \in 1..(Len(log') + 1)
  BY PastStep, LenProperties DEF IInv, LogShape, PastIsRight
<1> USE TheProjections
<1> DEFINE S == /\ status' \in [Projections -> {"absent", "running", "stopped"}]
           W == pc' \in Stages /\ at' \in DOMAIN PROJECTIONS /\ head' \in 0..Len(log)
           G == /\ gauges'.running \in [Projections -> BOOLEAN]
                /\ gauges'.caughtUp \in [Projections -> BOOLEAN]
                /\ DOMAIN gauges'.rows = Symbols /\ DOMAIN gauges'.volume = Symbols
                /\ DOMAIN gauges' = {"rows", "volume", "running", "caughtUp"}
           X == export'.symbol \in Symbols \cup {None} /\ export'.left \subseteq Symbols
           R == read' \in 0..Len(log) \cup {None}
           F == faults' \in 0..MaxFaults
<1>1. UNCHANGED status => S
  BY DEF IInv, TypeOK
<1>2. UNCHANGED <<pc, at, head>> => W
  BY DEF IInv, TypeOK
<1>3. UNCHANGED gauges => G
  BY DEF IInv, TypeOK
<1>4. UNCHANGED read => R
  BY DEF IInv, TypeOK
<1>5. UNCHANGED faults \/ Fault => F
  BY FaultsAssumption DEF IInv, TypeOK, Fault
<1>6. ASSUME NEW stage \in Stages, NEW i \in 1..2, Goto(stage, i) PROVE W
  BY <1>6, GotoType
<1>7. AfterEnable => W
  <2>1. at \in 1..2
    BY DEF IInv, TypeOK
  <2>2. CASE at < Len(PROJECTIONS)
    <3>1. at + 1 \in 1..2
      BY <2>1, <2>2
    <3> QED BY <1>6, <2>2, <3>1 DEF AfterEnable, Stages
  <2>3. CASE ~(at < Len(PROJECTIONS))
    BY <1>6, <2>3 DEF AfterEnable, Stages
  <2> QED BY <2>2, <2>3
<1>8. \A x \in Projections, b \in {"absent", "running", "stopped"} :
         status' = [status EXCEPT ![x] = b] => S
  BY DEF IInv, TypeOK
<1>9. at \in 1..2 /\ PROJECTIONS[at] \in Projections
  BY DEF IInv, TypeOK
<1>10. 1 \in 1..2 /\ 2 \in 1..2
  OBVIOUS
<1>27. UNCHANGED export \/ export' = NoExport => X
  BY DEF IInv, TypeOK, NoExport
<1>28. ASSUME NEW values, NEW left, left \subseteq Symbols, NEW first \in Stages,
              NEW done \in Stages, Loop(values, left, first, done)
       PROVE  W /\ X
  <2>1. CASE left = {}
    BY <1>6, <1>10, <1>27, <1>28, <2>1 DEF Loop
  <2>2. CASE left # {}
    BY <1>6, <1>10, <1>28, <2>2 DEF Loop
  <2> QED BY <2>1, <2>2
<1> HIDE DEF S, W, X
<1>11. ASSUME NEW t \in Trades, Execute(t) \/ Settle(t) PROVE S /\ W /\ G /\ X /\ R /\ F
  BY <1>1, <1>2, <1>3, <1>4, <1>5, <1>27, <1>11 DEF Execute, Settle, Record, service
<1>12. ASSUME NEW p \in Projections, Advance(p) \/ FallBack(p) \/ Reset(p) \/ Disable(p)
       PROVE  S /\ W /\ G /\ X /\ R /\ F
  BY <1>1, <1>2, <1>3, <1>4, <1>5, <1>27, <1>8, <1>12
  DEF Advance, FallBack, Reset, Disable, service
<1>13. ASSUME Boot PROVE S /\ W /\ G /\ X /\ R /\ F
  BY <1>1, <1>3, <1>4, <1>5, <1>27, <1>6, <1>10, <1>13 DEF Boot, database, Stages
<1>14. ASSUME Create PROVE S /\ W /\ G /\ X /\ R /\ F
  BY <1>1, <1>3, <1>4, <1>5, <1>27, <1>6, <1>8, <1>9, <1>14 DEF Create, Stages
<1>15. ASSUME Enable \/ EnableWarning PROVE S /\ W /\ G /\ X /\ R /\ F
  BY <1>1, <1>3, <1>4, <1>5, <1>27, <1>7, <1>8, <1>9, <1>15 DEF Enable, EnableWarning, database
<1>16. ASSUME ReadHead PROVE S /\ W /\ G /\ X /\ R /\ F
  <2>1. W
    BY <1>0, <1>16 DEF W, ReadHead, Stages
  <2> QED BY <1>1, <1>3, <1>4, <1>5, <1>27, <1>16, <2>1 DEF ReadHead, database
<1>17. ASSUME poll_health PROVE S /\ W /\ G /\ X /\ R /\ F
  <2>1. W
    <3>1. CASE at < Len(PROJECTIONS)
      <4>1. at + 1 \in 1..2
        BY <1>9, <3>1
      <4> QED BY <1>6, <1>17, <3>1, <4>1 DEF poll_health, Stages
    <3>2. CASE ~(at < Len(PROJECTIONS))
      BY <1>6, <1>10, <1>17, <3>2 DEF poll_health, Stages
    <3> QED BY <3>1, <3>2
  <2>2. G
    <3> DEFINE p == PROJECTIONS[at]
    <3>1. gauges' = [gauges EXCEPT !.running[p] = Running(p), !.caughtUp[p] = Position(p) >= head]
      BY <1>17 DEF poll_health
    <3>2. Running(p) \in BOOLEAN /\ (Position(p) >= head) \in BOOLEAN
      BY DEF Running
    <3>3. /\ gauges'.running = [gauges.running EXCEPT ![p] = Running(p)]
          /\ gauges'.caughtUp = [gauges.caughtUp EXCEPT ![p] = Position(p) >= head]
          /\ gauges'.rows = gauges.rows /\ gauges'.volume = gauges.volume
          /\ DOMAIN gauges' = DOMAIN gauges
      BY <3>1 DEF IInv
    <3> QED BY <1>9, <3>2, <3>3 DEF IInv, TypeOK
  <2> QED BY <1>1, <1>4, <1>5, <1>27, <1>17, <2>1, <2>2 DEF poll_health, database
<1>18. ASSUME get_status \/ get_volume PROVE S /\ W /\ G /\ X /\ R /\ F
  <2>1. W /\ X
    BY <1>18, <1>28, ReadSymbols DEF get_status, get_volume, Stages, St, Vol
  <2> QED BY <1>1, <1>3, <1>4, <1>5, <1>18, <2>1 DEF get_status, get_volume, database
<1>20. ASSUME export_settlement_status \/ export_volume PROVE S /\ W /\ G /\ X /\ R /\ F
  <2>1. G /\ S /\ R /\ F
    <3>1. \A field : \A table \in {"rows", "volume"} : SetGauge(table, field) => G
      BY DEF SetGauge, IInv, TypeOK
    <3>2. \A table, field : SetGauge(table, field) => UNCHANGED <<status, read, faults>>
      BY DEF SetGauge, database
    <3> QED BY <1>1, <1>4, <1>5, <1>20, <3>1, <3>2 DEF export_settlement_status, export_volume
  <2>2. export.left \subseteq Symbols
    BY DEF IInv, TypeOK
  <2>3. ASSUME NEW first \in Stages, NEW done \in Stages, NextSymbol(first, done)
        PROVE  W /\ X
    BY <1>28, <2>2, <2>3 DEF NextSymbol
  <2>4. ASSUME NEW stage \in Stages, Goto(stage, 1), UNCHANGED export PROVE W /\ X
    BY <1>6, <1>10, <1>27, <2>4
  <2>5. {"executed", "settled", "unsettled", "volume", "qty", "notional", "head"} \subseteq Stages
    BY DEF Stages
  <2>6. W /\ X
    BY <1>20, <2>3, <2>4, <2>5 DEF export_settlement_status, export_volume
  <2> QED BY <2>1, <2>6
<1>19. ASSUME NotMaterialized \/ PollError PROVE S /\ W /\ G /\ X /\ R /\ F
  BY <1>1, <1>3, <1>4, <1>5, <1>27, <1>6, <1>10, <1>19
  DEF NotMaterialized, PollError, database, Stages
<1>21. ASSUME ServiceCrash PROVE S /\ W /\ G /\ X /\ R /\ F
  <2>1. G
    BY <1>21 DEF ServiceCrash, NoGauges
  <2> QED BY <1>1, <1>4, <1>5, <1>27, <1>6, <1>10, <1>21, <2>1 DEF ServiceCrash, database, Stages
<1>22. ASSUME ReadLog PROVE S /\ W /\ G /\ X /\ R /\ F
  <2>1. R
    BY <1>0, <1>22 DEF ReadLog
  <2> QED BY <1>1, <1>2, <1>3, <1>5, <1>27, <1>22, <2>1 DEF ReadLog, database, service
<1>23. ASSUME Exit PROVE S /\ W /\ G /\ X /\ R /\ F
  <2>1. R
    BY <1>23 DEF Exit
  <2> QED BY <1>1, <1>2, <1>3, <1>5, <1>27, <1>23, <2>1 DEF Exit, database, service
<1>24. ASSUME UNCHANGED vars PROVE S /\ W /\ G /\ X /\ R /\ F
  BY <1>1, <1>2, <1>3, <1>4, <1>5, <1>27, <1>24 DEF vars
<1>25. S /\ W /\ G /\ X /\ R /\ F
  BY <1>11, <1>12, <1>13, <1>14, <1>15, <1>16, <1>17, <1>18, <1>19, <1>20, <1>21, <1>22,
     <1>23, <1>24 DEF Next
<1>26. \A x : x \in 0..Len(log) => x \in 0..Len(log')
  BY <1>0
<1> QED BY <1>0, <1>25, <1>26 DEF TypeOK, S, W, X

\* Every state a projection ever falls back to is that of the events it folded,
\* each settlement among them under the symbol of its execution.
THEOREM InvariantHolds == Spec => []IInv
<1>1. IInv /\ [Next]_vars => IInv'
  BY PastStep, TypeStep DEF IInv
<1> QED BY <1>1, InvInit, PTL DEF Spec

\* Types hold: in particular no projection, no poll and no rebuild is ever ahead
\* of the log.
THEOREM TypeCorrect == Spec => []TypeOK
<1>1. IInv => TypeOK
  BY DEF IInv
<1> QED BY <1>1, InvariantHolds, PTL

\* However the log grows and whatever the projection went through, its counts per
\* symbol and its pending trades are those of the events up to its position.
THEOREM StatusIsRight == Spec => []StatusOfPrefix
<1>1. IInv => StatusOfPrefix
  <2> SUFFICES ASSUME IInv PROVE StatusOfPrefix
    OBVIOUS
  <2> DEFINE n == Position(St)
             state == Live(St)
  <2>1. Right(log, state, n)
    BY LiveIsRight, TheProjections DEF RightFor
  <2>2. \A type, s : Among(type, n, s) = Having(log, type, n, s)
    BY DEF Among, Having
  <2>3. ASSUME NEW s \in Symbols
        PROVE  Lookup(state.symbols, s, NoStatus) =
                  [executed |-> Cardinality(Among("TradeExecuted", n, s)),
                   settled |-> Cardinality(Among("TradeSettled", n, s))]
    BY <2>1, <2>2 DEF Right, RightRow
  <2>4. DOMAIN state.pending =
          UNION {Having(log, "TradeExecuted", n, s) \ Having(log, "TradeSettled", n, s) : s \in Symbols}
    <3>1. DOMAIN state.pending \subseteq Trades
      BY <2>1 DEF Right, StatusStates
    <3>2. \A t \in Trades : Fill[t].symbol \in Symbols
      BY FillAssumption
    <3>3. ASSUME NEW t \in Trades
          PROVE  t \in DOMAIN state.pending <=>
                   \E s \in Symbols : t \in Having(log, "TradeExecuted", n, s) \ Having(log, "TradeSettled", n, s)
      BY <2>1, <3>2 DEF Right, RightPending, Having, Executed, Settled
    <3>4. \A s : Having(log, "TradeExecuted", n, s) \subseteq Trades
      BY DEF Having
    <3> QED BY <3>1, <3>3, <3>4
  <2> QED BY <2>2, <2>3, <2>4 DEF StatusOfPrefix, St
<1> QED BY <1>1, InvariantHolds, PTL
\* However the log grows and whatever the projection went through, it holds the
\* number, the quantity and the turnover of the trades executed up to its position.
THEOREM VolumeIsCorrect == Spec => []VolumeOfPrefix
<1>1. IInv => VolumeOfPrefix
  <2> SUFFICES ASSUME IInv PROVE VolumeOfPrefix
    OBVIOUS
  <2>1. RightVolume(log, Live(Vol), Position(Vol))
    BY LiveIsRight, TheProjections DEF RightFor
  <2>2. \A s : Among("TradeExecuted", Position(Vol), s) =
               Having(log, "TradeExecuted", Position(Vol), s)
    BY DEF Among, Having
  <2> QED BY <2>1, <2>2 DEF VolumeOfPrefix, RightVolume, RightVolumeRow, Vol
<1> QED BY <1>1, InvariantHolds, PTL

-----------------------------------------------------------------------------
(* rebuild's loop is the status projection.                                *)

NothingFolded == [symbols |-> NoKeys, pending |-> NoKeys]

\* g is the function with which the loop computes over l[1], ..., l[n].
Rebuilds(g, l, n) ==
    g = [s \in SUBSET (1..n) |->
            IF s = {} THEN NothingFolded ELSE FoldEvent(g[s \ {Max(s)}], l[Max(s)])]

LEMMA RebuildExists ==
    ASSUME NEW l, NEW n \in Nat
    PROVE  \E g : Rebuilds(g, l, n)
<1> DEFINE Good == {k \in 0..n : \E g : Rebuilds(g, l, k)}
<1>1. 0 \in Good
  <2>1. Rebuilds([s \in SUBSET (1..0) |-> NothingFolded], l, 0)
    BY DEF Rebuilds
  <2> QED BY <2>1
<1>2. ASSUME NEW k \in 0..(n - 1), k \in Good PROVE k + 1 \in Good
  <2>1. PICK g : Rebuilds(g, l, k)
    BY <1>2
  <2> DEFINE h == [s \in SUBSET (1..(k + 1)) |->
                      IF k + 1 \in s THEN FoldEvent(g[s \ {k + 1}], l[k + 1]) ELSE g[s]]
  <2>2. \A s \in SUBSET (1..(k + 1)) : k + 1 \notin s => s \in SUBSET (1..k)
    OBVIOUS
  <2>3. ASSUME NEW s \in SUBSET (1..(k + 1))
        PROVE  h[s] = IF s = {} THEN NothingFolded
                      ELSE FoldEvent(h[s \ {Max(s)}], l[Max(s)])
    <3>1. CASE k + 1 \in s
      <4>1. Max(s) = k + 1
        BY <3>1, MaxOf
      <4>2. h[s \ {k + 1}] = g[s \ {k + 1}]
        OBVIOUS
      <4> QED BY <3>1, <4>1, <4>2
    <3>2. CASE k + 1 \notin s
      <4>1. s \in SUBSET (1..k) /\ h[s] = g[s] /\ h[s \ {Max(s)}] = g[s \ {Max(s)}]
        BY <2>2, <3>2
      <4> QED BY <2>1, <4>1 DEF Rebuilds
    <3> QED BY <3>1, <3>2
  <2> HIDE DEF h
  <2>4. h = [s \in SUBSET (1..(k + 1)) |-> h[s]]
    BY DEF h
  <2>5. Rebuilds(h, l, k + 1)
    BY <2>3, <2>4 DEF Rebuilds
  <2> QED BY <2>5
<1> HIDE DEF Good
<1>3. n \in Good
  BY <1>1, <1>2, UpwardInduction
<1> QED BY <1>3 DEF Good

\* The fold of the community modules, opened up.
LEMMA RebuildIsIterate ==
    \A n : rebuild_from_log(n) =
       (CHOOSE g : g = [s \in SUBSET (DOMAIN SubSeq(log, 1, n)) |->
            IF s = {} THEN NothingFolded
            ELSE FoldEvent(g[s \ {Max(s)}], SubSeq(log, 1, n)[Max(s)])])[DOMAIN SubSeq(log, 1, n)]
BY Zenon DEF rebuild_from_log, FoldLeft, MapThenFoldSet, NothingFolded

LEMMA FoldEventIsHandle ==
    ASSUME NEW state, NEW e \in Event
    PROVE  FoldEvent(state, e) = Handle(St, state, e)
<1>1. CASE e.type = "TradeExecuted"
  BY <1>1 DEF FoldEvent, Handle, StatusExecuted, St
<1>2. CASE e.type = "TradeSettled"
  BY <1>2 DEF FoldEvent, Handle, StatusSettled, St
<1> QED BY <1>1, <1>2 DEF Event

\* What rebuild computes from the first n events is right for them.
LEMMA RebuildIsRight ==
    ASSUME LogShape(log), NEW n \in 0..Len(log)
    PROVE  Right(log, rebuild_from_log(n), n)
<1> DEFINE l == SubSeq(log, 1, n)
<1>1. /\ log \in Seq(Event) /\ Len(log) \in Nat /\ n \in Nat
      /\ DOMAIN l = 1..n /\ \A i \in 1..n : l[i] = log[i] /\ i \in 1..Len(log)
  <2>1. log \in Seq(Event) /\ Len(log) \in Nat /\ n \in Nat
    BY LenProperties DEF LogShape
  <2>2. Len(l) = n /\ l \in Seq(Event) /\ \A i \in 1..n : l[i] = log[i]
    BY <2>1, SubSeqProperties
  <2> QED BY <2>1, <2>2, LenProperties
<1> DEFINE g == CHOOSE h : Rebuilds(h, l, n)
<1> HIDE DEF l
<1>2. rebuild_from_log(n) = g[1..n]
  BY Zenon, <1>1, RebuildIsIterate DEF l, Rebuilds
<1>3. Rebuilds(g, l, n)
  BY <1>1, RebuildExists
<1> HIDE DEF g
<1> DEFINE Good == {k \in 0..n : Right(log, g[1..k], k)}
<1>4. 0 \in Good
  <2>1. 1..0 = {} /\ {} \in SUBSET (1..n)
    OBVIOUS
  <2>2. g[1..0] = NothingFolded
    BY <1>3, <2>1 DEF Rebuilds
  <2>3. NothingFolded = StartState(St)
    BY DEF NothingFolded, StartState, St
  <2>4. Right(log, g[1..0], 0)
    BY <1>1, <2>2, <2>3, StartIsRight DEF RightFor
  <2> QED BY <1>1, <2>4
<1>5. ASSUME NEW k \in 0..(n - 1), k \in Good PROVE k + 1 \in Good
  <2> k \in Nat /\ n \in Nat /\ Len(log) \in Nat /\ k < n /\ n <= Len(log)
    BY <1>1
  <2>1. /\ k \in Nat /\ k + 1 \in 1..n /\ k < Len(log) /\ k + 1 \in 1..Len(log)
        /\ 1..(k + 1) # {} /\ 1..(k + 1) \in SUBSET (1..n) /\ k + 1 \in 1..(k + 1)
        /\ (1..(k + 1)) \ {k + 1} = 1..k
    <3>1. 1..(k + 1) # {}
      <4>1. k + 1 \in 1..(k + 1)
        OBVIOUS
      <4> QED BY <4>1
    <3>2. 1..(k + 1) \in SUBSET (1..n)
      <4>1. \A i \in 1..(k + 1) : i \in 1..n
        OBVIOUS
      <4> QED BY <4>1
    <3>3. (1..(k + 1)) \ {k + 1} = 1..k
      OBVIOUS
    <3> QED BY <3>1, <3>2, <3>3
  <2>2. Max(1..(k + 1)) = k + 1
    BY <2>1, MaxOf
  <2>3. g[1..(k + 1)] = FoldEvent(g[1..k], log[k + 1])
    BY <1>1, <1>3, <2>1, <2>2 DEF Rebuilds
  <2>4. log[k + 1] \in Event
    BY <1>1, <2>1, ElementOfSeq
  <2>5. Right(log, g[1..k], k)
    BY <1>5
  <2>6. RightFor(St, log, Handle(St, g[1..k], log[k + 1]), k + 1)
    BY <1>1, <2>1, <2>5, HandleIsRight DEF RightFor
  <2> QED BY <2>1, <2>3, <2>4, <2>6, FoldEventIsHandle DEF RightFor
<1> HIDE DEF Good
<1>6. n \in Good
  BY <1>1, <1>4, <1>5, UpwardInduction
<1> QED BY <1>2, <1>6 DEF Good

-----------------------------------------------------------------------------
(* The verdict.                                                            *)

LEMMA HavingGrows ==
    ASSUME LogShape(log), NEW n \in 0..Len(log), NEW m \in 0..Len(log), n < m,
           NEW a, Right(log, a, n), NEW b, Right(log, b, m)
    PROVE  \E s \in Symbols, type \in {"TradeExecuted", "TradeSettled"} :
              Cardinality(Having(log, type, n, s)) < Cardinality(Having(log, type, m, s))
<1> DEFINE type == log[n + 1].type
           s == Fill[log[n + 1].trade].symbol
<1>1. log \in Seq(Event) /\ Len(log) \in Nat /\ n \in Nat /\ m \in Nat /\ n < Len(log)
  BY LenProperties DEF LogShape
<1>2. s \in Symbols /\ type \in {"TradeExecuted", "TradeSettled"}
  BY <1>1, EventCases
<1>3. /\ IsFiniteSet(Having(log, type, n, s)) /\ IsFiniteSet(Having(log, type, m, s))
  BY <1>2 DEF Right, RightRow
<1>4. /\ IsFiniteSet(Having(log, type, n + 1, s))
      /\ Cardinality(Having(log, type, n, s)) \in Nat
      /\ Cardinality(Having(log, type, n + 1, s)) = Cardinality(Having(log, type, n, s)) + 1
  BY <1>1, <1>2, <1>3, HavingNext
<1>5. Having(log, type, n + 1, s) \subseteq Having(log, type, m, s)
  BY <1>1 DEF Having
<1>6. /\ Cardinality(Having(log, type, n + 1, s)) <= Cardinality(Having(log, type, m, s))
      /\ Cardinality(Having(log, type, m, s)) \in Nat
  BY <1>3, <1>5, FS_Subset, FS_CardinalityType
<1> HIDE DEF type, s
<1>7. Cardinality(Having(log, type, n, s)) < Cardinality(Having(log, type, m, s))
  BY <1>4, <1>6
<1> QED BY <1>2, <1>7

\* Two tables of rows differ in a field exactly when the counts do.
LEMMA DiffFinds ==
    ASSUME NEW a \in StatusStates, NEW b \in StatusStates
    PROVE  diff(Rows(a.symbols), Rows(b.symbols)) = {} <=>
              \A s \in Symbols : Lookup(a.symbols, s, NoStatus) = Lookup(b.symbols, s, NoStatus)
<1> DEFINE A(s) == Lookup(a.symbols, s, NoStatus)
           B(s) == Lookup(b.symbols, s, NoStatus)
           Fields == {"executed", "settled", "unsettled"}
<1>1. \A s : /\ Lookup(Rows(a.symbols), s, Row(NoStatus)) = Row(A(s))
             /\ Lookup(Rows(b.symbols), s, Row(NoStatus)) = Row(B(s))
  BY DEF Lookup, Rows
<1>2. /\ DOMAIN a.symbols \subseteq Symbols /\ DOMAIN b.symbols \subseteq Symbols
      /\ DOMAIN Rows(a.symbols) = DOMAIN a.symbols
      /\ DOMAIN Rows(b.symbols) = DOMAIN b.symbols
  BY DEF StatusStates, Rows
<1>3. \A s \in Symbols : A(s) \in Counts /\ B(s) \in Counts
  BY LookupCounts
<1>4. \A s : s \notin DOMAIN a.symbols \cup DOMAIN b.symbols => A(s) = B(s)
  BY DEF Lookup
<1>5. \A x, y \in Counts : x = y <=> x.executed = y.executed /\ x.settled = y.settled
  BY DEF Counts
<1> HIDE DEF A, B
<1>6. ASSUME \A s \in Symbols : A(s) = B(s), NEW k \in diff(Rows(a.symbols), Rows(b.symbols))
      PROVE  FALSE
  <2>1. k[1] \in Symbols /\ Row(A(k[1]))[k[2]] # Row(B(k[1]))[k[2]]
    BY <1>1, <1>2, <1>6 DEF diff
  <2> QED BY <1>6, <2>1
<1>7. ASSUME NEW s \in Symbols, A(s) # B(s)
      PROVE  diff(Rows(a.symbols), Rows(b.symbols)) # {}
  <2>1. s \in DOMAIN a.symbols \cup DOMAIN b.symbols
    BY <1>4, <1>7
  <2>2. PICK f \in {"executed", "settled"} : A(s)[f] # B(s)[f]
    BY <1>3, <1>5, <1>7
  <2>3. Row(A(s))[f] # Row(B(s))[f]
    BY <2>2 DEF Row
  <2>4. <<s, f>> \in diff(Rows(a.symbols), Rows(b.symbols))
    BY <1>1, <1>2, <2>1, <2>3 DEF diff
  <2> QED BY <2>4
<1> QED BY <1>6, <1>7 DEF A, B

\* Whatever rebuild has read and however far the projection is, or has fallen
\* back, by the time it looks: it finds no difference if and only if both have
\* folded the very same events.
THEOREM VerdictIsExact == Spec => []VerdictExact
<1>1. IInv => VerdictExact
  <2> SUFFICES ASSUME IInv, read # None
               PROVE  Problems = {} <=> Position(St) = read
    BY DEF VerdictExact, St
  <2> DEFINE a == rebuild_from_log(read)
             b == Live(St)
             n == Position(St)
  <2>1. LogShape(log) /\ read \in 0..Len(log)
    BY DEF IInv, TypeOK
  <2>2. Right(log, a, read) /\ Right(log, b, n) /\ n \in 0..Len(log)
    BY <2>1, RebuildIsRight, LiveIsRight, TheProjections DEF RightFor
  <2>3. Problems = {} <=>
          \A s \in Symbols : Lookup(a.symbols, s, NoStatus) = Lookup(b.symbols, s, NoStatus)
    BY <2>2, DiffFinds DEF Problems, Right, St
  <2>4. \A s \in Symbols :
          /\ Lookup(a.symbols, s, NoStatus) =
               [executed |-> Cardinality(Having(log, "TradeExecuted", read, s)),
                settled |-> Cardinality(Having(log, "TradeSettled", read, s))]
          /\ Lookup(b.symbols, s, NoStatus) =
               [executed |-> Cardinality(Having(log, "TradeExecuted", n, s)),
                settled |-> Cardinality(Having(log, "TradeSettled", n, s))]
    BY <2>2 DEF Right, RightRow
  <2>5. \A s \in Symbols, i \in {read, n}, type \in {"TradeExecuted", "TradeSettled"} :
           Cardinality(Having(log, type, i, s)) \in Nat
    BY <2>2, FS_CardinalityType DEF Right, RightRow
  <2> HIDE DEF a, b, n
  <2>6. CASE n = read
    BY <2>3, <2>4, <2>6 DEF n
  <2>7. CASE n # read
    <3>1. n < read \/ read < n
      BY <2>1, <2>2, <2>7
    <3>2. PICK s \in Symbols, type \in {"TradeExecuted", "TradeSettled"} :
             \/ Cardinality(Having(log, type, n, s)) < Cardinality(Having(log, type, read, s))
             \/ Cardinality(Having(log, type, read, s)) < Cardinality(Having(log, type, n, s))
      BY <2>1, <2>2, <3>1, HavingGrows
    <3>3. Cardinality(Having(log, type, n, s)) # Cardinality(Having(log, type, read, s))
      BY <2>5, <3>2
    <3>6. ASSUME NEW x, NEW y, NEW v, NEW w,
                 [executed |-> x, settled |-> y] = [executed |-> v, settled |-> w]
          PROVE  x = v /\ y = w
      <4>1. [executed |-> x, settled |-> y].executed = x /\ [executed |-> x, settled |-> y].settled = y
        OBVIOUS
      <4>2. [executed |-> v, settled |-> w].executed = v /\ [executed |-> v, settled |-> w].settled = w
        OBVIOUS
      <4> QED BY <3>6, <4>1, <4>2
    <3>7. SUFFICES Lookup(a.symbols, s, NoStatus) # Lookup(b.symbols, s, NoStatus)
      BY <2>3, <2>7 DEF n
    <3>8. SUFFICES ASSUME Lookup(a.symbols, s, NoStatus) = Lookup(b.symbols, s, NoStatus)
                   PROVE  FALSE
      OBVIOUS
    <3>9. /\ Cardinality(Having(log, "TradeExecuted", read, s)) =
               Cardinality(Having(log, "TradeExecuted", n, s))
          /\ Cardinality(Having(log, "TradeSettled", read, s)) =
               Cardinality(Having(log, "TradeSettled", n, s))
      <4>1. [executed |-> Cardinality(Having(log, "TradeExecuted", read, s)),
             settled |-> Cardinality(Having(log, "TradeSettled", read, s))] =
            [executed |-> Cardinality(Having(log, "TradeExecuted", n, s)),
             settled |-> Cardinality(Having(log, "TradeSettled", n, s))]
        BY Zenon, <2>4, <3>8
      <4> QED BY Zenon, <3>6, <4>1
    <3>10. CASE type = "TradeExecuted"
      BY <3>3, <3>9, <3>10
    <3>11. CASE type = "TradeSettled"
      BY <3>3, <3>9, <3>11
    <3> QED BY <3>10, <3>11
  <2> QED BY <2>6, <2>7
<1> QED BY <1>1, InvariantHolds, PTL

-----------------------------------------------------------------------------
(* What the service exports.                                               *)

RowOf(l, n, s) ==
    Row([executed |-> Cardinality(Having(l, "TradeExecuted", n, s)),
         settled |-> Cardinality(Having(l, "TradeSettled", n, s))])

VolumeOf(l, n, s) ==
    LET trades == Having(l, "TradeExecuted", n, s)
    IN  [qty |-> Qty(trades), notional |-> Notional(trades)]

\* Fresh, in any state.
FreshAt(e, c, s) == {f \in DOMAIN SetBefore : s = e.symbol /\ c \in SetBefore[f]}

\* The gauges of a symbol are those of one moment, overlaid with those that the export
\* has set already.
RowsTold(l, g, e, c) ==
    \A s \in Symbols : \E n \in 0..Len(l) :
        g.rows[s] = Overlay(RowOf(l, n, s), e.values[s], FreshAt(e, c, s))
VolumesTold(l, g, e, c) ==
    \A s \in Symbols : \E n \in 0..Len(l) :
        g.volume[s] = Overlay(VolumeOf(l, n, s), e.values[s], FreshAt(e, c, s))

\* The values that an export has read and not yet set are those of some moment.
RowsRead(l, e, c) ==
    c \in {"executed", "settled", "unsettled"} =>
        \A s \in {e.symbol} \cup e.left :
            s \in Symbols /\ \E n \in 0..Len(l) : e.values[s] = RowOf(l, n, s)
VolumesRead(l, e, c) ==
    c \in {"qty", "notional"} =>
        \A s \in {e.symbol} \cup e.left :
            s \in Symbols /\ \E n \in 0..Len(l) : e.values[s] = VolumeOf(l, n, s)

WereTrue(l, g, e, c) ==
    /\ RowsTold(l, g, e, c) /\ VolumesTold(l, g, e, c)
    /\ RowsRead(l, e, c) /\ VolumesRead(l, e, c)

LEMMA FreshStages ==
    ASSUME NEW e, NEW c, NEW s
    PROVE  /\ s # e.symbol => FreshAt(e, c, s) = {}
           /\ c \notin {"settled", "unsettled", "notional"} => FreshAt(e, c, s) = {}
           /\ FreshAt(e, "settled", e.symbol) = {"executed"}
           /\ FreshAt(e, "unsettled", e.symbol) = {"executed", "settled"}
           /\ FreshAt(e, "notional", e.symbol) = {"qty"}
BY DEF FreshAt, SetBefore

LEMMA RowShape ==
    ASSUME NEW l, NEW n, NEW s
    PROVE  /\ \E a, b, c : RowOf(l, n, s) = [executed |-> a, settled |-> b, unsettled |-> c]
           /\ \E a, b : VolumeOf(l, n, s) = [qty |-> a, notional |-> b]
BY DEF RowOf, Row, VolumeOf

LEMMA HavingIsFinite ==
    ASSUME NEW l \in Seq(Event), NEW n \in 0..Len(l), NEW type, NEW s
    PROVE  IsFiniteSet(Having(l, type, n, s))
<1> DEFINE f == [i \in 1..n |-> l[i].trade]
           R == {f[i] : i \in 1..n}
<1>1. n \in Nat /\ IsFiniteSet(1..n)
  BY LenProperties, FS_Interval
<1>2. f \in Surjection(1..n, R)
  BY DEF Surjection
<1>3. \A t \in Having(l, type, n, s) : t \in R
  BY DEF Having
<1> HIDE DEF f, R
<1>4. IsFiniteSet(R)
  BY <1>1, <1>2, FS_Surjection
<1>5. Having(l, type, n, s) \in SUBSET R
  BY <1>3
<1> QED BY <1>4, <1>5, FS_Subset

\* Every settlement in a prefix of the log has its execution in there too.
LEMMA SettledWereExecuted ==
    ASSUME NEW l, LogShape(l), NEW n \in 0..Len(l), NEW s
    PROVE  /\ Cardinality(Having(l, "TradeExecuted", n, s)) \in Nat
           /\ Cardinality(Having(l, "TradeSettled", n, s)) \in Nat
           /\ Cardinality(Having(l, "TradeSettled", n, s)) <=
                 Cardinality(Having(l, "TradeExecuted", n, s))
<1>1. l \in Seq(Event) /\ Len(l) \in Nat
  BY LenProperties DEF LogShape
<1>2. \A i \in 1..n : l[i].type = "TradeSettled" => \E j \in 1..n : l[j] = Executed(l[i].trade)
  <2> SUFFICES ASSUME NEW i \in 1..n, l[i].type = "TradeSettled"
               PROVE  \E j \in 1..n : l[j] = Executed(l[i].trade)
    OBVIOUS
  <2>1. PICK j \in 1..(i - 1) : l[j] = Executed(l[i].trade)
    BY <1>1 DEF LogShape
  <2>2. j \in 1..n
    BY <1>1, <2>1
  <2> QED BY <2>1, <2>2
<1>3. Having(l, "TradeSettled", n, s) \subseteq Having(l, "TradeExecuted", n, s)
  BY <1>2 DEF Having, Executed
<1> QED BY <1>1, <1>3, HavingIsFinite, FS_Subset, FS_CardinalityType


\* What is not of a table leaves it alone.
LEMMA NotOverlaid ==
    ASSUME NEW l, NEW n, NEW s, NEW v
    PROVE  /\ Overlay(RowOf(l, n, s), v, {}) = RowOf(l, n, s)
           /\ Overlay(RowOf(l, n, s), v, {"qty"}) = RowOf(l, n, s)
           /\ Overlay(VolumeOf(l, n, s), v, {}) = VolumeOf(l, n, s)
           /\ Overlay(VolumeOf(l, n, s), v, {"executed"}) = VolumeOf(l, n, s)
           /\ Overlay(VolumeOf(l, n, s), v, {"executed", "settled"}) = VolumeOf(l, n, s)
<1>1. PICK a, b, c : RowOf(l, n, s) = [executed |-> a, settled |-> b, unsettled |-> c]
  BY RowShape
<1>2. PICK d, e : VolumeOf(l, n, s) = [qty |-> d, notional |-> e]
  BY RowShape
<1>3. /\ Overlay(RowOf(l, n, s), v, {}) = RowOf(l, n, s)
      /\ Overlay(RowOf(l, n, s), v, {"qty"}) = RowOf(l, n, s)
  BY <1>1 DEF Overlay
<1>4. /\ Overlay(VolumeOf(l, n, s), v, {}) = VolumeOf(l, n, s)
      /\ Overlay(VolumeOf(l, n, s), v, {"executed"}) = VolumeOf(l, n, s)
      /\ Overlay(VolumeOf(l, n, s), v, {"executed", "settled"}) = VolumeOf(l, n, s)
  BY <1>2 DEF Overlay
<1> QED BY <1>3, <1>4

LEMMA GaugesAndLog == WereTrue(log, gauges, export, pc) => GaugesWereTrue
<1> SUFFICES ASSUME WereTrue(log, gauges, export, pc), NEW s \in Symbols
             PROVE  /\ \E m, n \in 0..Len(log) :
                          gauges.rows[s] = Overlay(RowAt(m, s), RowAt(n, s), Fresh(s))
                    /\ \E m, n \in 0..Len(log) :
                          gauges.volume[s] = Overlay(VolumeAt(m, s), VolumeAt(n, s), Fresh(s))
  BY DEF GaugesWereTrue
<1>1. \A type, n : Among(type, n, s) = Having(log, type, n, s)
  BY DEF Among, Having
<1>2. \A n : RowAt(n, s) = RowOf(log, n, s) /\ VolumeAt(n, s) = VolumeOf(log, n, s)
  BY <1>1 DEF RowAt, RowOf, VolumeAt, VolumeOf
<1>3. Fresh(s) = FreshAt(export, pc, s)
  BY DEF Fresh, FreshAt
<1>4. PICK m \in 0..Len(log) :
         gauges.rows[s] = Overlay(RowOf(log, m, s), export.values[s], Fresh(s))
  BY <1>3 DEF WereTrue, RowsTold
<1>5. PICK k \in 0..Len(log) :
         gauges.volume[s] = Overlay(VolumeOf(log, k, s), export.values[s], Fresh(s))
  BY <1>3 DEF WereTrue, VolumesTold
<1>6. \/ Fresh(s) = {}
      \/ pc = "notional"
      \/ s = export.symbol /\ pc \in {"settled", "unsettled"}
  BY <1>3, FreshStages
<1>7. Fresh(s) \in {{}, {"executed"}, {"executed", "settled"}, {"qty"}}
  BY <1>3, <1>6, FreshStages
<1>8. pc = "notional" => Fresh(s) \in {{}, {"qty"}}
  BY <1>3, FreshStages
<1>9. pc # "notional" => Fresh(s) \in {{}, {"executed"}, {"executed", "settled"}}
  BY <1>3, <1>6, FreshStages
<1>10. \E n \in 0..Len(log) :
          gauges.rows[s] = Overlay(RowOf(log, m, s), RowOf(log, n, s), Fresh(s))
  <2>1. CASE Fresh(s) \in {{}, {"qty"}}
    <3>1. \A v : Overlay(RowOf(log, m, s), v, Fresh(s)) = RowOf(log, m, s)
      BY <2>1, NotOverlaid
    <3> QED BY <1>4, <3>1
  <2>2. CASE s = export.symbol /\ pc \in {"settled", "unsettled"}
    <3>1. PICK n \in 0..Len(log) : export.values[s] = RowOf(log, n, s)
      BY <2>2 DEF WereTrue, RowsRead
    <3> QED BY <1>4, <3>1
  <2> QED BY <1>6, <1>8, <2>1, <2>2
<1>11. \E n \in 0..Len(log) :
          gauges.volume[s] = Overlay(VolumeOf(log, k, s), VolumeOf(log, n, s), Fresh(s))
  <2>1. CASE Fresh(s) \in {{}, {"executed"}, {"executed", "settled"}}
    <3>1. \A v : Overlay(VolumeOf(log, k, s), v, Fresh(s)) = VolumeOf(log, k, s)
      BY <2>1, NotOverlaid
    <3> QED BY <1>5, <3>1
  <2>2. CASE s = export.symbol /\ pc = "notional"
    <3>1. PICK n \in 0..Len(log) : export.values[s] = VolumeOf(log, n, s)
      BY <2>2 DEF WereTrue, VolumesRead
    <3> QED BY <1>5, <3>1
  <2>3. s # export.symbol => Fresh(s) = {}
    BY <1>3, FreshStages
  <2> QED BY <1>9, <2>1, <2>2, <2>3
<1> QED BY <1>2, <1>4, <1>5, <1>10, <1>11

\* A moment of the log stays one when the log grows.
LEMMA WereTrueLonger ==
    ASSUME NEW l \in Seq(Event), NEW event \in Event, NEW g, NEW e, NEW c, WereTrue(l, g, e, c)
    PROVE  WereTrue(Append(l, event), g, e, c)
<1> DEFINE k == Append(l, event)
<1>1. /\ Len(l) \in Nat /\ Len(k) = Len(l) + 1
      /\ \A i \in 1..Len(l) : k[i] = l[i]
  BY AppendProperties, LenProperties
<1>2. \A n \in 0..Len(l) : \A i \in 1..n : k[i] = l[i]
  BY <1>1
<1>3. \A n \in 0..Len(l) : \A type, s : Having(k, type, n, s) = Having(l, type, n, s)
  BY <1>2 DEF Having
<1>4. \A n \in 0..Len(l) : \A s : /\ RowOf(k, n, s) = RowOf(l, n, s)
                                   /\ VolumeOf(k, n, s) = VolumeOf(l, n, s)
  BY <1>3 DEF RowOf, VolumeOf
<1>5. 0..Len(l) \subseteq 0..Len(k)
  BY <1>1
<1> HIDE DEF k
<1>6. RowsTold(k, g, e, c)
  BY <1>4, <1>5 DEF WereTrue, RowsTold
<1>7. VolumesTold(k, g, e, c)
  BY <1>4, <1>5 DEF WereTrue, VolumesTold
<1>8. RowsRead(k, e, c)
  BY <1>4, <1>5 DEF WereTrue, RowsRead
<1>9. VolumesRead(k, e, c)
  BY <1>4, <1>5 DEF WereTrue, VolumesRead
<1> QED BY <1>6, <1>7, <1>8, <1>9 DEF WereTrue, k

\* No gauges are the truth about an empty log.
LEMMA NoGaugesWereTrue ==
    ASSUME NEW l \in Seq(Event)
    PROVE  WereTrue(l, NoGauges, NoExport, "down")
<1>1. 0 \in 0..Len(l)
  BY LenProperties
<1>2. \A type, s : Having(l, type, 0, s) = {}
  BY DEF Having
<1>3. Cardinality({}) = 0 /\ Qty({}) = 0 /\ Notional({}) = 0
  BY FS_EmptySet, SumEmpty DEF Qty, Notional
<1>4. \A s : RowOf(l, 0, s) = Row(NoStatus)
  BY <1>2, <1>3 DEF RowOf, NoStatus
<1>5. \A s : VolumeOf(l, 0, s) = [qty |-> 0, notional |-> 0]
  BY <1>2, <1>3 DEF VolumeOf
<1>6. /\ NoGauges.rows = [s \in Symbols |-> Row(NoStatus)]
      /\ NoGauges.volume = [s \in Symbols |-> [qty |-> 0, notional |-> 0]]
  BY DEF NoGauges
<1>7. \A e, s : FreshAt(e, "down", s) = {}
  BY FreshStages
<1>8. RowsTold(l, NoGauges, NoExport, "down")
  <2>1. \A s \in Symbols : NoGauges.rows[s] = RowOf(l, 0, s)
    BY <1>4, <1>6
  <2>2. \A s, v : RowOf(l, 0, s) = Overlay(RowOf(l, 0, s), v, {})
    BY NotOverlaid
  <2> QED BY <1>1, <1>7, <2>1, <2>2 DEF RowsTold
<1>9. VolumesTold(l, NoGauges, NoExport, "down")
  <2>1. \A s \in Symbols : NoGauges.volume[s] = VolumeOf(l, 0, s)
    BY <1>5, <1>6
  <2>2. \A s, v : VolumeOf(l, 0, s) = Overlay(VolumeOf(l, 0, s), v, {})
    BY NotOverlaid
  <2> QED BY <1>1, <1>7, <2>1, <2>2 DEF VolumesTold
<1> QED BY <1>8, <1>9 DEF WereTrue, RowsRead, VolumesRead

\* Where the other table is half set, this one is not.
LEMMA RowsAlone ==
    ASSUME NEW l, NEW g, NEW h, NEW e, NEW f, NEW c, NEW d,
           c \notin {"settled", "unsettled"}, d \notin {"settled", "unsettled"},
           RowsTold(l, g, e, c), h.rows = g.rows
    PROVE  RowsTold(l, h, f, d)
<1>1. \A s : /\ FreshAt(e, c, s) = {} \/ FreshAt(e, c, s) = {"qty"}
             /\ FreshAt(f, d, s) = {} \/ FreshAt(f, d, s) = {"qty"}
  BY DEF FreshAt, SetBefore
<1>2. \A n, s, v : /\ Overlay(RowOf(l, n, s), v, FreshAt(e, c, s)) = RowOf(l, n, s)
                   /\ Overlay(RowOf(l, n, s), v, FreshAt(f, d, s)) = RowOf(l, n, s)
  BY <1>1, NotOverlaid
<1> QED BY <1>2 DEF RowsTold

LEMMA VolumesAlone ==
    ASSUME NEW l, NEW g, NEW h, NEW e, NEW f, NEW c, NEW d, c # "notional", d # "notional",
           VolumesTold(l, g, e, c), h.volume = g.volume
    PROVE  VolumesTold(l, h, f, d)
<1> DEFINE Sets == {{}, {"executed"}, {"executed", "settled"}}
<1>1. \A s : FreshAt(e, c, s) \in Sets /\ FreshAt(f, d, s) \in Sets
  <2>1. \A x, y, s : \/ FreshAt(x, y, s) = {} \/ y = "notional"
                     \/ y \in {"settled", "unsettled"} /\ s = x.symbol
    BY FreshStages
  <2> QED BY <2>1, FreshStages
<1>2. \A n, s, v : \A F \in Sets : Overlay(VolumeOf(l, n, s), v, F) = VolumeOf(l, n, s)
  BY NotOverlaid
<1> HIDE DEF Sets
<1>3. \A n, s, v : /\ Overlay(VolumeOf(l, n, s), v, FreshAt(e, c, s)) = VolumeOf(l, n, s)
                   /\ Overlay(VolumeOf(l, n, s), v, FreshAt(f, d, s)) = VolumeOf(l, n, s)
  BY <1>1, <1>2
<1> QED BY <1>3 DEF VolumesTold

\* The next symbol of a loop, and its end.
LEMMA LoopReads ==
    ASSUME NEW l, NEW values, NEW left, NEW first, NEW done, Loop(values, left, first, done),
           done \in {"volume", "head"},
           \/ /\ first = "executed"
              /\ \A s \in left :
                    s \in Symbols /\ \E n \in 0..Len(l) : values[s] = RowOf(l, n, s)
           \/ /\ first = "qty"
              /\ \A s \in left :
                    s \in Symbols /\ \E n \in 0..Len(l) : values[s] = VolumeOf(l, n, s)
    PROVE  /\ pc' \in {first, done}
           /\ RowsRead(l, export', pc') /\ VolumesRead(l, export', pc')
<1>1. CASE left = {}
  BY <1>1 DEF Loop, Goto, RowsRead, VolumesRead
<1>2. CASE left # {}
  <2>1. PICK s \in left : /\ pc' = first
                          /\ export' = [values |-> values, symbol |-> s, left |-> left \ {s}]
    BY <1>2 DEF Loop, Goto
  <2>2. /\ export'.values = values
        /\ {export'.symbol} \cup export'.left \subseteq left
    BY <2>1
  <2> QED BY <2>1, <2>2 DEF RowsRead, VolumesRead
<1> QED BY <1>1, <1>2

\* What an export reads was the truth at the position of the projection.
LEMMA ReadIsTrue ==
    ASSUME IInv, WereTrue(log, gauges, export, pc), get_status \/ get_volume
    PROVE  WereTrue(log', gauges', export', pc')
<1>1. log' = log /\ gauges' = gauges
  BY DEF get_status, get_volume, database
<1>2. CASE get_status
  <2> DEFINE symbols == Live(St).symbols
             n == Position(St)
  <2>1. Right(log, Live(St), n) /\ n \in 0..Len(log)
    BY LiveIsRight, TheProjections DEF RightFor
  <2>2. ASSUME NEW s \in DOMAIN Rows(symbols)
        PROVE  s \in Symbols /\ Rows(symbols)[s] = RowOf(log, n, s)
    <3>1. s \in DOMAIN symbols /\ s \in Symbols /\ Rows(symbols)[s] = Row(symbols[s])
      BY <2>2, ReadSymbols DEF Rows
    <3>2. symbols[s] = [executed |-> Cardinality(Having(log, "TradeExecuted", n, s)),
                        settled |-> Cardinality(Having(log, "TradeSettled", n, s))]
      BY <2>1, <3>1 DEF Right, RightRow, Lookup
    <3> QED BY <3>1, <3>2 DEF RowOf
  <2>3. Loop(Rows(symbols), DOMAIN Rows(symbols), "executed", "volume") /\ pc = "status"
    BY <1>2 DEF get_status, St
  <2> HIDE DEF symbols, n
  <2>4. /\ pc' \in {"executed", "volume"}
        /\ RowsRead(log, export', pc') /\ VolumesRead(log, export', pc')
    BY <2>1, <2>2, <2>3, LoopReads
  <2>5. RowsTold(log, gauges', export', pc') /\ VolumesTold(log, gauges', export', pc')
    BY <1>1, <2>3, <2>4, RowsAlone, VolumesAlone DEF WereTrue
  <2> QED BY <1>1, <2>4, <2>5 DEF WereTrue
<1>3. CASE get_volume
  <2> DEFINE symbols == Live(Vol).symbols
             n == Position(Vol)
  <2>1. RightVolume(log, Live(Vol), n) /\ n \in 0..Len(log)
    BY LiveIsRight, TheProjections DEF RightFor
  <2>2. ASSUME NEW s \in DOMAIN Volumes(symbols)
        PROVE  s \in Symbols /\ Volumes(symbols)[s] = VolumeOf(log, n, s)
    <3> DEFINE trades == Having(log, "TradeExecuted", n, s)
    <3>1. /\ s \in DOMAIN symbols /\ s \in Symbols
          /\ Volumes(symbols)[s] = [qty |-> symbols[s].qty, notional |-> symbols[s].notional]
      BY <2>2, ReadSymbols DEF Volumes
    <3>2. symbols[s] = [fills |-> Cardinality(trades), qty |-> Qty(trades),
                        notional |-> Notional(trades)]
      BY <2>1, <3>1 DEF RightVolume, RightVolumeRow, Lookup
    <3>3. symbols[s].qty = Qty(trades) /\ symbols[s].notional = Notional(trades)
      BY <3>2
    <3> QED BY <3>1, <3>3 DEF VolumeOf
  <2>3. Loop(Volumes(symbols), DOMAIN Volumes(symbols), "qty", "head") /\ pc = "volume"
    BY <1>3 DEF get_volume, Vol
  <2> HIDE DEF symbols, n
  <2>4. /\ pc' \in {"qty", "head"}
        /\ RowsRead(log, export', pc') /\ VolumesRead(log, export', pc')
    BY <2>1, <2>2, <2>3, LoopReads
  <2>5. RowsTold(log, gauges', export', pc') /\ VolumesTold(log, gauges', export', pc')
    BY <1>1, <2>3, <2>4, RowsAlone, VolumesAlone DEF WereTrue
  <2> QED BY <1>1, <2>4, <2>5 DEF WereTrue
<1> QED BY <1>2, <1>3

\* One gauge of the row that the export is at; the other rows are left alone.
LEMMA RowSet ==
    ASSUME IInv, WereTrue(log, gauges, export, pc), export_settlement_status
    PROVE  WereTrue(log', gauges', export', pc')
<1> DEFINE x == export.symbol
           v == export.values[x]
<1>1. /\ log' = log /\ gauges'.volume = gauges.volume
      /\ \A s \in Symbols : s # x => gauges'.rows[s] = gauges.rows[s]
  BY DEF export_settlement_status, SetGauge, database, IInv, TypeOK
<1>2. /\ x \in Symbols /\ \E n \in 0..Len(log) : v = RowOf(log, n, x)
      /\ \A s \in export.left :
            s \in Symbols /\ \E n \in 0..Len(log) : export.values[s] = RowOf(log, n, s)
  BY DEF export_settlement_status, SetGauge, WereTrue, RowsRead
<1>3. PICK k \in 0..Len(log) : v = RowOf(log, k, x)
  BY <1>2
<1>4. PICK n \in 0..Len(log) :
         gauges.rows[x] = Overlay(RowOf(log, n, x), v, FreshAt(export, pc, x))
  BY <1>2 DEF WereTrue, RowsTold
<1>5. PICK a, b, c : RowOf(log, n, x) = [executed |-> a, settled |-> b, unsettled |-> c]
  BY RowShape
<1>6. PICK d, e, f : RowOf(log, k, x) = [executed |-> d, settled |-> e, unsettled |-> f]
  BY RowShape
<1>7. \A s, c1, c2 : s # x => FreshAt(export, c1, s) = FreshAt(export, c2, s)
  BY FreshStages
<1>8. CASE SetGauge("rows", "executed") /\ Goto("settled", 1) /\ UNCHANGED export
  <2>1. pc = "executed" /\ pc' = "settled"
    BY <1>8 DEF SetGauge, Goto
  <2>2. gauges'.rows[x] = [gauges.rows[x] EXCEPT !.executed = v.executed]
    BY <1>2, <1>8 DEF SetGauge, IInv, TypeOK
  <2>3. gauges.rows[x] = RowOf(log, n, x)
    <3>1. FreshAt(export, pc, x) = {}
      BY <2>1, FreshStages
    <3> QED BY <1>4, <3>1, NotOverlaid
  <2>4. FreshAt(export, pc', x) = {"executed"}
    BY <2>1, FreshStages
  <2>5. gauges'.rows[x] = Overlay(RowOf(log, n, x), v, {"executed"})
    BY <1>5, <2>2, <2>3 DEF Overlay
  <2>6. RowsTold(log, gauges', export, pc')
    BY <1>1, <1>7, <2>4, <2>5 DEF WereTrue, RowsTold
  <2>7. VolumesTold(log, gauges', export, pc')
    BY <1>1, <2>1, VolumesAlone DEF WereTrue
  <2> QED BY <1>1, <1>8, <2>1, <2>6, <2>7 DEF WereTrue, RowsRead, VolumesRead
<1>9. CASE SetGauge("rows", "settled") /\ Goto("unsettled", 1) /\ UNCHANGED export
  <2>1. pc = "settled" /\ pc' = "unsettled"
    BY <1>9 DEF SetGauge, Goto
  <2>2. gauges'.rows[x] = [gauges.rows[x] EXCEPT !.settled = v.settled]
    BY <1>2, <1>9 DEF SetGauge, IInv, TypeOK
  <2>3. gauges.rows[x] = Overlay(RowOf(log, n, x), v, {"executed"})
    BY <1>4, <2>1, FreshStages
  <2>4. FreshAt(export, pc', x) = {"executed", "settled"}
    BY <2>1, FreshStages
  <2>5. gauges'.rows[x] = Overlay(RowOf(log, n, x), v, {"executed", "settled"})
    BY <1>5, <2>2, <2>3 DEF Overlay
  <2>6. RowsTold(log, gauges', export, pc')
    BY <1>1, <1>7, <2>4, <2>5 DEF WereTrue, RowsTold
  <2>8. VolumesTold(log, gauges', export, pc')
    BY <1>1, <2>1, VolumesAlone DEF WereTrue
  <2> QED BY <1>1, <1>9, <2>1, <2>6, <2>8 DEF WereTrue, RowsRead, VolumesRead
<1>10. CASE SetGauge("rows", "unsettled") /\ NextSymbol("executed", "volume")
  <2>1. pc = "unsettled" /\ Loop(export.values, export.left, "executed", "volume")
    BY <1>10 DEF SetGauge, NextSymbol
  <2>2. gauges'.rows[x] = [gauges.rows[x] EXCEPT !.unsettled = v.unsettled]
    BY <1>2, <1>10 DEF SetGauge, IInv, TypeOK
  <2>3. gauges.rows[x] = Overlay(RowOf(log, n, x), v, {"executed", "settled"})
    BY <1>4, <2>1, FreshStages
  <2>4. gauges'.rows[x] = RowOf(log, k, x)
    BY <1>3, <1>5, <1>6, <2>2, <2>3 DEF Overlay
  <2>5. /\ pc' \in {"executed", "volume"}
        /\ RowsRead(log, export', pc') /\ VolumesRead(log, export', pc')
    BY <1>2, <2>1, LoopReads
  <2>6. \A s : FreshAt(export', pc', s) = {}
    BY <2>5, FreshStages
  <2>7. \A s : s # x => FreshAt(export, pc, s) = {}
    BY FreshStages
  <2>8. RowsTold(log, gauges', export', pc')
    <3>1. \A s, m, w : Overlay(RowOf(log, m, s), w, {}) = RowOf(log, m, s)
      BY NotOverlaid
    <3>2. ASSUME NEW s \in Symbols
          PROVE  \E m \in 0..Len(log) : gauges'.rows[s] = RowOf(log, m, s)
      <4>1. CASE s = x
        BY <2>4, <4>1
      <4>2. CASE s # x
        <5>1. \E m \in 0..Len(log) :
                 gauges.rows[s] = Overlay(RowOf(log, m, s), export.values[s], {})
          BY <2>7, <4>2 DEF WereTrue, RowsTold
        <5> QED BY <1>1, <3>1, <4>2, <5>1
      <4> QED BY <4>1, <4>2
    <3> HIDE DEF x
    <3> QED BY <2>6, <3>1, <3>2 DEF RowsTold
  <2>10. VolumesTold(log, gauges', export', pc')
    BY <1>1, <2>1, <2>5, VolumesAlone DEF WereTrue
  <2> QED BY <1>1, <2>5, <2>8, <2>10 DEF WereTrue
<1> QED BY <1>8, <1>9, <1>10 DEF export_settlement_status

\* The same of a volume, which has two gauges.
LEMMA VolumeSet ==
    ASSUME IInv, WereTrue(log, gauges, export, pc), export_volume
    PROVE  WereTrue(log', gauges', export', pc')
<1> DEFINE x == export.symbol
           v == export.values[x]
<1>1. /\ log' = log /\ gauges'.rows = gauges.rows
      /\ \A s \in Symbols : s # x => gauges'.volume[s] = gauges.volume[s]
  BY DEF export_volume, SetGauge, database, IInv, TypeOK
<1>2. /\ x \in Symbols /\ \E n \in 0..Len(log) : v = VolumeOf(log, n, x)
      /\ \A s \in export.left :
            s \in Symbols /\ \E n \in 0..Len(log) : export.values[s] = VolumeOf(log, n, s)
  BY DEF export_volume, SetGauge, WereTrue, VolumesRead
<1>3. PICK k \in 0..Len(log) : v = VolumeOf(log, k, x)
  BY <1>2
<1>4. PICK n \in 0..Len(log) :
         gauges.volume[x] = Overlay(VolumeOf(log, n, x), v, FreshAt(export, pc, x))
  BY <1>2 DEF WereTrue, VolumesTold
<1>5. PICK a, b : VolumeOf(log, n, x) = [qty |-> a, notional |-> b]
  BY RowShape
<1>6. PICK d, e : VolumeOf(log, k, x) = [qty |-> d, notional |-> e]
  BY RowShape
<1>7. \A s, c1, c2 : s # x => FreshAt(export, c1, s) = FreshAt(export, c2, s)
  BY FreshStages
<1>8. CASE SetGauge("volume", "qty") /\ Goto("notional", 1) /\ UNCHANGED export
  <2>1. pc = "qty" /\ pc' = "notional"
    BY <1>8 DEF SetGauge, Goto
  <2>2. gauges'.volume[x] = [gauges.volume[x] EXCEPT !.qty = v.qty]
    BY <1>2, <1>8 DEF SetGauge, IInv, TypeOK
  <2>3. gauges.volume[x] = VolumeOf(log, n, x)
    <3>1. FreshAt(export, pc, x) = {}
      BY <2>1, FreshStages
    <3> QED BY <1>4, <3>1, NotOverlaid
  <2>4. FreshAt(export, pc', x) = {"qty"}
    BY <2>1, FreshStages
  <2>5. gauges'.volume[x] = Overlay(VolumeOf(log, n, x), v, {"qty"})
    BY <1>5, <2>2, <2>3 DEF Overlay
  <2>6. VolumesTold(log, gauges', export, pc')
    BY <1>1, <1>7, <2>4, <2>5 DEF WereTrue, VolumesTold
  <2>7. RowsTold(log, gauges', export, pc')
    BY <1>1, <2>1, RowsAlone DEF WereTrue
  <2> QED BY <1>1, <1>8, <2>1, <2>6, <2>7 DEF WereTrue, RowsRead, VolumesRead
<1>9. CASE SetGauge("volume", "notional") /\ NextSymbol("qty", "head")
  <2>1. pc = "notional" /\ Loop(export.values, export.left, "qty", "head")
    BY <1>9 DEF SetGauge, NextSymbol
  <2>2. gauges'.volume[x] = [gauges.volume[x] EXCEPT !.notional = v.notional]
    BY <1>2, <1>9 DEF SetGauge, IInv, TypeOK
  <2>3. gauges.volume[x] = Overlay(VolumeOf(log, n, x), v, {"qty"})
    BY <1>4, <2>1, FreshStages
  <2>4. gauges'.volume[x] = VolumeOf(log, k, x)
    BY <1>3, <1>5, <1>6, <2>2, <2>3 DEF Overlay
  <2>5. /\ pc' \in {"qty", "head"}
        /\ RowsRead(log, export', pc') /\ VolumesRead(log, export', pc')
    BY <1>2, <2>1, LoopReads
  <2>6. \A s : FreshAt(export', pc', s) = {}
    BY <2>5, FreshStages
  <2>7. \A s : s # x => FreshAt(export, pc, s) = {}
    BY FreshStages
  <2>8. VolumesTold(log, gauges', export', pc')
    <3>1. \A s, m, w : Overlay(VolumeOf(log, m, s), w, {}) = VolumeOf(log, m, s)
      BY NotOverlaid
    <3>2. ASSUME NEW s \in Symbols
          PROVE  \E m \in 0..Len(log) : gauges'.volume[s] = VolumeOf(log, m, s)
      <4>1. CASE s = x
        BY <2>4, <4>1
      <4>2. CASE s # x
        <5>1. \E m \in 0..Len(log) :
                 gauges.volume[s] = Overlay(VolumeOf(log, m, s), export.values[s], {})
          BY <2>7, <4>2 DEF WereTrue, VolumesTold
        <5> QED BY <1>1, <3>1, <4>2, <5>1
      <4> QED BY <4>1, <4>2
    <3> HIDE DEF x
    <3> QED BY <2>6, <3>1, <3>2 DEF VolumesTold
  <2>9. RowsTold(log, gauges', export', pc')
    BY <1>1, <2>1, <2>5, RowsAlone DEF WereTrue
  <2> QED BY <1>1, <2>5, <2>8, <2>9 DEF WereTrue
<1> QED BY <1>8, <1>9 DEF export_volume

LEMMA GaugesStep ==
    ASSUME IInv, WereTrue(log, gauges, export, pc), [Next]_vars
    PROVE  WereTrue(log', gauges', export', pc')
<1> DEFINE Goal == WereTrue(log', gauges', export', pc')
           Between == {"down", "create", "enable", "head", "health", "status", "volume"}
<1>1. log \in Seq(Event) /\ LogShape(log)
  BY DEF IInv, LogShape
<1>2. ASSUME NEW t \in Trades, Execute(t) \/ Settle(t) PROVE Goal
  <2>1. PICK e \in Event : log' = Append(log, e)
    BY <1>1, <1>2, RecordStep
  <2>2. gauges' = gauges /\ export' = export /\ pc' = pc
    BY <1>2 DEF Execute, Settle, Record, service
  <2> QED BY <1>1, <2>1, <2>2, WereTrueLonger
<1>3. ASSUME UNCHANGED <<log, gauges, export, pc>> PROVE Goal
  BY <1>3
<1>4. ASSUME log' = log, gauges'.rows = gauges.rows, gauges'.volume = gauges.volume,
             pc \in Between, pc' \in Between
      PROVE  Goal
  <2>1. RowsTold(log', gauges', export', pc')
    BY <1>4, RowsAlone DEF WereTrue
  <2>2. VolumesTold(log', gauges', export', pc')
    BY <1>4, VolumesAlone DEF WereTrue
  <2> QED BY <1>4, <2>1, <2>2 DEF WereTrue, RowsRead, VolumesRead
<1>5. ASSUME NEW p \in Projections, Advance(p) \/ FallBack(p) \/ Reset(p) \/ Disable(p)
      PROVE  Goal
  BY <1>3, <1>5 DEF Advance, FallBack, Reset, Disable, service
<1>6. ASSUME \/ Boot \/ Create \/ Enable \/ EnableWarning \/ ReadHead \/ NotMaterialized
             \/ PollError
      PROVE  Goal
  BY <1>4, <1>6 DEF Boot, Create, Enable, EnableWarning, AfterEnable, ReadHead,
                    NotMaterialized, PollError, Goto, database
<1>7. ASSUME ReadLog \/ Exit PROVE Goal
  BY <1>3, <1>7 DEF ReadLog, Exit, database, service
<1>8. CASE poll_health
  BY <1>4, <1>8 DEF poll_health, Goto, database, IInv
<1>9. CASE get_status \/ get_volume
  BY <1>9, ReadIsTrue
<1>10. CASE export_settlement_status \/ export_volume
  BY <1>10, RowSet, VolumeSet
<1>11. CASE ServiceCrash
  BY <1>1, <1>11, NoGaugesWereTrue DEF ServiceCrash, Goto, database
<1>12. CASE UNCHANGED vars
  BY <1>3, <1>12 DEF vars
<1> HIDE DEF Goal
<1> QED BY <1>2, <1>5, <1>6, <1>7, <1>8, <1>9, <1>10, <1>11, <1>12 DEF Next, Goal

LEMMA GaugesHold == Spec => []WereTrue(log, gauges, export, pc)
<1>1. Init => WereTrue(log, gauges, export, pc)
  BY NoGaugesWereTrue, InvInit DEF Init, IInv, LogShape
<1>2. IInv /\ WereTrue(log, gauges, export, pc) /\ [Next]_vars =>
         WereTrue(log, gauges, export, pc)'
  BY GaugesStep
<1> QED BY <1>1, <1>2, InvariantHolds, PTL DEF Spec

\* Nobody ever sees an invented number, while projections are reset, fall back or stop
\* and the service crashes: a scrape sees of a symbol the truth of one moment of the
\* log, and of two moments only while an export is at this symbol.
THEOREM GaugesAreOnceTrue == Spec => []GaugesWereTrue
BY GaugesHold, GaugesAndLog, PTL


\* max(0, executed - settled) hides nothing: unless the export is at this symbol, what
\* the gauges of a symbol say adds up, and never more trades are settled than executed.
THEOREM UnsettledIsExact ==
    Spec => [](\A s \in Symbols : Fresh(s) = {} =>
                  /\ gauges.rows[s].settled <= gauges.rows[s].executed
                  /\ gauges.rows[s].unsettled = gauges.rows[s].executed - gauges.rows[s].settled)
<1> DEFINE AddsUp(r) == r.settled <= r.executed /\ r.unsettled = r.executed - r.settled
<1>1. ASSUME NEW e \in Nat, NEW f \in Nat, f <= e
      PROVE  AddsUp(Row([executed |-> e, settled |-> f]))
  BY <1>1 DEF Row
<1>2. ASSUME IInv, WereTrue(log, gauges, export, pc), NEW s \in Symbols, Fresh(s) = {}
      PROVE  AddsUp(gauges.rows[s])
  <2>1. FreshAt(export, pc, s) = {}
    BY <1>2 DEF Fresh, FreshAt
  <2>2. PICK n \in 0..Len(log) : gauges.rows[s] = Overlay(RowOf(log, n, s), export.values[s], {})
    BY <1>2, <2>1 DEF WereTrue, RowsTold
  <2>3. gauges.rows[s] = RowOf(log, n, s)
    BY <2>2, NotOverlaid
  <2>4. AddsUp(RowOf(log, n, s))
    BY <1>1, <1>2, SettledWereExecuted DEF IInv, RowOf
  <2> QED BY <2>3, <2>4
<1>3. IInv /\ WereTrue(log, gauges, export, pc) =>
         \A s \in Symbols : Fresh(s) = {} =>
            /\ gauges.rows[s].settled <= gauges.rows[s].executed
            /\ gauges.rows[s].unsettled = gauges.rows[s].executed - gauges.rows[s].settled
  BY <1>2
<1> QED BY <1>3, InvariantHolds, GaugesHold, PTL
=============================================================================
