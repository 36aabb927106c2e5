------------------------------ MODULE Postings ------------------------------
(***************************************************************************)
(* The chart of accounts and the posting rules every service shares        *)
(* (src/services/common/model.py), and the two-phase transfer chain that   *)
(* settlement builds from them.  Quantities and prices are decimals; here  *)
(* they are integers, in units of 1/QtyUnit and 1/PriceUnit.  A transfer   *)
(* id, a hash of trade, movement and phase, is the triple of the three.    *)
(***************************************************************************)
EXTENDS Integers, Sequences

CONSTANTS
    QtyUnit,    \* quantity units per whole asset, a power of ten
    PriceUnit   \* price units per whole quote asset, a power of ten

ASSUME UnitsAssumption == QtyUnit \in Nat \ {0} /\ PriceUnit \in Nat \ {0}

ASSETS == [USD |-> [ledger |-> 840, scale |-> 100, index |-> 1],
           BTC |-> [ledger |-> 1001, scale |-> 100000000, index |-> 2],
           ETH |-> [ledger |-> 1002, scale |-> 100000000, index |-> 3]]

CUSTOMER == 1
VENUE == 2
FEE == 3
CLEARING == 4
Entities == {CUSTOMER, VENUE, FEE, CLEARING}

account_id(entity, asset) == entity * 10 + ASSETS[asset].index

all_accounts == {account_id(e, a) : e \in Entities, a \in DOMAIN ASSETS}

\* The ledger of an account of the chart: each asset is a ledger of its own.
ledger_of(account) ==
    LET asset == CHOOSE a \in DOMAIN ASSETS : ASSETS[a].index = account % 10
    IN  ASSETS[asset].ledger

FEE_BPS == 10

compute_fee(quote_amount) == (quote_amount * FEE_BPS) \div 10000

\* Python's round(n / d): to the nearest integer, halves to the even one.
RoundRatio(n, d) ==
    LET q == n \div d
        r == n % d
    IN  IF 2 * r < d \/ (2 * r = d /\ q % 2 = 0) THEN q ELSE q + 1

\* round(x * scale) for x = n / unit; the units and scales are powers of ten.
ScaledAmount(n, unit, scale) ==
    IF scale >= unit THEN n * (scale \div unit) ELSE RoundRatio(n, unit \div scale)

quote_amount(fill) ==
    ScaledAmount(fill.qty * fill.price, QtyUnit * PriceUnit, ASSETS[fill.quote].scale)

base_amount(fill) == ScaledAmount(fill.qty, QtyUnit, ASSETS[fill.base].scale)

\* Bug: amounts are not checked.
AcceptedUnchecked(fill) ==
    /\ {fill.base, fill.quote} \subseteq DOMAIN ASSETS
    /\ fill.side \in {"buy", "sell"}

\* compute_postings returns: known assets and side, positive amounts.
Accepted(fill) ==
    /\ {fill.base, fill.quote} \subseteq DOMAIN ASSETS
    /\ fill.side \in {"buy", "sell"}
    /\ quote_amount(fill) > 0
    /\ base_amount(fill) > 0

transfer_id(trade, name, phase) == <<trade, name, phase>>

Movement(trade, name, debit, credit, amount, asset) ==
    [debit |-> debit, credit |-> credit, amount |-> amount,
     ledger |-> ASSETS[asset].ledger,
     pending_id |-> transfer_id(trade, name, "pending"),
     post_id |-> transfer_id(trade, name, "post")]

\* Bug: the branch for a sale is a copy of the one for a purchase.
SellLikeBuy(trade, fill) ==
    LET q == fill.quote
        b == fill.base
    IN  << Movement(trade, "quote", account_id(CUSTOMER, q), account_id(VENUE, q),
                    quote_amount(fill), q),
           Movement(trade, "base_in", account_id(VENUE, b), account_id(CLEARING, b),
                    base_amount(fill), b),
           Movement(trade, "base_out", account_id(CLEARING, b), account_id(CUSTOMER, b),
                    base_amount(fill), b) >>

\* The double-entry movements of an accepted fill: the buyer pays the quote
\* amount and receives the base amount, through clearing; the customer pays
\* the fee, if there is one.
compute_postings(trade, fill) ==
    LET q == fill.quote
        b == fill.base
        buyer == IF fill.side = "buy" THEN CUSTOMER ELSE VENUE
        seller == IF fill.side = "buy" THEN VENUE ELSE CUSTOMER
        fee == compute_fee(quote_amount(fill))
        traded ==
            << Movement(trade, "quote", account_id(buyer, q), account_id(seller, q),
                        quote_amount(fill), q),
               Movement(trade, "base_in", account_id(seller, b), account_id(CLEARING, b),
                        base_amount(fill), b),
               Movement(trade, "base_out", account_id(CLEARING, b), account_id(buyer, b),
                        base_amount(fill), b) >>
    IN  IF fee > 0
        THEN Append(traded, Movement(trade, "fee", account_id(CUSTOMER, q),
                                     account_id(FEE, q), fee, q))
        ELSE traded

\* The PENDING transfer of a movement, or the POST_PENDING that confirms it.
Transfer(m, pending, linked) ==
    [id |-> IF pending THEN m.pending_id ELSE m.post_id,
     pending_id |-> m.pending_id, pending |-> pending, debit |-> m.debit,
     credit |-> m.credit, amount |-> m.amount, ledger |-> m.ledger,
     linked |-> linked]

\* Bug: only the reservations are LINKED.
PostsNotLinked(movements) ==
    [i \in 1..(2 * Len(movements)) |->
        Transfer(movements[(i + 1) \div 2], i % 2 = 1, i % 2 = 1)]

\* Bug: the reservations are never confirmed.
ReserveOnly(movements) ==
    [i \in 1..Len(movements) |-> Transfer(movements[i], TRUE, i < Len(movements))]

\* Both transfers of every movement, LINKED into one chain: only the last one
\* is not, which ends the chain.
build_transfers(movements) ==
    LET n == 2 * Len(movements)
    IN  [i \in 1..n |-> Transfer(movements[(i + 1) \div 2], i % 2 = 1, i < n)]
=============================================================================
