------------------------------- MODULE Ledger -------------------------------
(***************************************************************************)
(* TigerBeetle as settlement uses it, transfer by transfer: the accounts   *)
(* that ensure_accounts creates, create_transfers with its LINKED chains   *)
(* and its statuses, pending and posted balances, and settle's decision to *)
(* skip a trade whose first pending id exists.  TigerBeetle itself is      *)
(* modelled from that use: a batch is applied in order, a chain commits    *)
(* all of its transfers or none, an id is accepted once.                   *)
(*                                                                         *)
(* A trade may be submitted any number of times: at each redelivery, and   *)
(* by replicas that looked it up before another one created it.  The data  *)
(* file may be lost; replicas that are running then go on against a ledger *)
(* without accounts, until one of them restarts.                           *)
(***************************************************************************)
EXTENDS Postings, FiniteSets, Functions, SequencesExt

CONSTANTS
    Trades,    \* trade ids
    Fills,     \* the fills a trade may have been executed with
    None,      \* no fill yet
    MaxWipes   \* bound on losses of the ledger's data file

ASSUME NoneAssumption == None \notin Fills

\* float() has made numbers of the quantity and the price.
ASSUME FillsAssumption == \A f \in Fills : f.qty \in Int /\ f.price \in Int
ASSUME WipesAssumption == MaxWipes \in Nat

VARIABLES
    fills,     \* fills[t]: the fill in the log for t, or None
    accounts,  \* the accounts that exist
    transfers, \* the transfers that exist
    balance,   \* balance[a]: what the accounts' four counters say
    settled,   \* the trades settle returned normally for, since the last wipe
    ready,     \* has a replica passed ensure_accounts?
    wipes      \* losses of the data file so far

vars == <<fills, accounts, transfers, balance, settled, ready, wipes>>

Columns == {"debits_pending", "credits_pending", "debits_posted", "credits_posted"}
Zero == [c \in Columns |-> 0]
OK == {"CREATED", "EXISTS"}

TypeOK ==
    /\ fills \in [Trades -> Fills \cup {None}]
    /\ accounts \subseteq all_accounts
    /\ IsFiniteSet(transfers)
    /\ balance \in [all_accounts -> [Columns -> Nat]]
    /\ settled \subseteq Trades
    /\ ready \in BOOLEAN
    /\ wipes \in 0..MaxWipes

Init ==
    /\ fills = [t \in Trades |-> None]
    /\ accounts = {}
    /\ transfers = {}
    /\ balance = [a \in all_accounts |-> Zero]
    /\ settled = {}
    /\ ready = FALSE
    /\ wipes = 0

-----------------------------------------------------------------------------
(* create_transfers.  A ledger is a record of transfers and balance.       *)

lookup_transfers(id) == {x \in transfers : x.id = id}

\* The status of one transfer: the first obstacle that is met.  An id that failed for
\* want of an account may be used again here, which TigerBeetle refuses; settle would
\* raise once more and nothing change.
Status(ledger, x) ==
    IF \E y \in ledger.transfers : y.id = x.id THEN "EXISTS"
    ELSE IF ~({x.debit, x.credit} \subseteq accounts) THEN "ACCOUNT_NOT_FOUND"
    ELSE IF x.ledger # ledger_of(x.debit) \/ x.ledger # ledger_of(x.credit)
         THEN "ACCOUNTS_MUST_HAVE_THE_SAME_LEDGER"
    ELSE IF ~x.pending /\ ~\E y \in ledger.transfers : y.id = x.pending_id
         THEN "PENDING_TRANSFER_NOT_FOUND"
    ELSE "CREATED"

\* A PENDING transfer reserves its amount; POST_PENDING moves it to posted.
Entry(x, row, pending, posted) ==
    IF x.pending
    THEN [row EXCEPT ![pending] = @ + x.amount]
    ELSE [row EXCEPT ![pending] = @ - x.amount, ![posted] = @ + x.amount]

Apply(ledger, x) ==
    [transfers |-> ledger.transfers \cup {x},
     balance |-> [ledger.balance EXCEPT
         ![x.debit] = Entry(x, @, "debits_pending", "debits_posted"),
         ![x.credit] = Entry(x, @, "credits_pending", "credits_posted")]]

\* The transfers of a chain are applied up to its first failure...
RunTransfer(r, x) ==
    LET status == Status(r.ledger, x)
    IN  IF r.failure # "none" THEN r
        ELSE IF status = "CREATED" THEN [ledger |-> Apply(r.ledger, x), failure |-> "none"]
        ELSE [ledger |-> r.ledger, failure |-> status]

\* ...and then not at all: every other transfer is then LINKED_EVENT_FAILED.
RunChain(run, chain) ==
    LET done == FoldLeft(RunTransfer, [ledger |-> run.ledger, failure |-> "none"], chain)
    IN  IF done.failure = "none"
        THEN [ledger |-> done.ledger, statuses |-> run.statuses \cup {"CREATED"}]
        ELSE [ledger |-> run.ledger,
              statuses |-> run.statuses \cup {done.failure} \cup
                  IF Len(chain) > 1 THEN {"LINKED_EVENT_FAILED"} ELSE {}]

\* The chains of a batch: each transfer without LINKED ends one.  What follows
\* the last of them is open, and fails.
create_transfers(batch) ==
    LET ends == {i \in 1..Len(batch) : ~batch[i].linked}
        ChainTo(i) == SubSeq(batch, 1 + Max({j \in ends : j < i} \cup {0}), i)
        chains == [k \in 1..Cardinality(ends) |->
                      ChainTo(CHOOSE i \in ends :
                                  Cardinality({j \in ends : j <= i}) = k)]
        none == [ledger |-> [transfers |-> transfers, balance |-> balance],
                 statuses |-> {}]
        run == FoldLeft(RunChain, none, chains)
    IN  IF Len(batch) \in ends
        THEN run
        ELSE [run EXCEPT !.statuses = @ \cup {"LINKED_EVENT_CHAIN_OPEN"}]

-----------------------------------------------------------------------------
(* The operations.                                                         *)

\* capture: the fill is in the log, for good.
Execute(t) ==
    /\ fills[t] = None
    /\ \E f \in Fills : fills' = [fills EXCEPT ![t] = f]
    /\ UNCHANGED <<accounts, transfers, balance, settled, ready, wipes>>

\* ensure_accounts, as a replica starts.  An account that exists is fine, one
\* that cannot be created (at most one here) is only reported.
ensure_accounts ==
    /\ \E failed \in {{}} \cup {{a} : a \in all_accounts} :
           accounts' = accounts \cup (all_accounts \ failed)
    /\ ready' = TRUE
    /\ UNCHANGED <<fills, transfers, balance, settled, wipes>>

\* settle on a trade whose first pending id is found: skip the creation.
SettleSkipped(t) ==
    /\ ready /\ fills[t] # None /\ Accepted(fills[t])
    /\ lookup_transfers(compute_postings(t, fills[t])[1].pending_id) # {}
    /\ settled' = settled \cup {t}
    /\ UNCHANGED <<fills, accounts, transfers, balance, ready, wipes>>

\* Bug: any status is taken for success.
AnyStatus(statuses) == TRUE

\* settle raises on a status not in OK, so that the event is nacked.
Succeeded(statuses) == statuses \subseteq OK

\* settle on a trade that was not found, perhaps no longer so: create the chain.
SettleCreated(t) ==
    /\ ready /\ fills[t] # None /\ Accepted(fills[t])
    /\ LET run == create_transfers(build_transfers(compute_postings(t, fills[t])))
       IN  /\ transfers' = run.ledger.transfers
           /\ balance' = run.ledger.balance
           /\ settled' = IF Succeeded(run.statuses) THEN settled \cup {t} ELSE settled
    /\ UNCHANGED <<fills, accounts, ready, wipes>>

\* The data file is lost; every trade is to be replayed from the log.
Wipe ==
    /\ wipes < MaxWipes
    /\ wipes' = wipes + 1
    /\ accounts' = {}
    /\ transfers' = {}
    /\ balance' = [a \in all_accounts |-> Zero]
    /\ settled' = {}
    /\ UNCHANGED <<fills, ready>>

Next ==
    \/ ensure_accounts
    \/ Wipe
    \/ \E t \in Trades : Execute(t) \/ SettleSkipped(t) \/ SettleCreated(t)

Spec == Init /\ [][Next]_vars

-----------------------------------------------------------------------------
(* Properties.                                                             *)

Chain(t) == compute_postings(t, fills[t])

Known(t) == fills[t] # None /\ Accepted(fills[t])

InLedger(id) == lookup_transfers(id) # {}

\* The ledger holds the trade's whole chain.
PostedWhole(t) ==
    Known(t) /\ \A i \in 1..Len(Chain(t)) :
        InLedger(Chain(t)[i].pending_id) /\ InLedger(Chain(t)[i].post_id)

Done == {t \in Trades : PostedWhole(t)}

\* "The presence of the first pending id implies the entire settlement
\* committed": a chain is in the ledger whole or not at all, even when an
\* account is missing.  The skip in settle rests on this.
ChainAtomic ==
    \A t \in Trades : Known(t) =>
        \/ PostedWhole(t)
        \/ \A x \in transfers : x.id[1] # t

\* settle returns normally only for a trade that is in the ledger whole, so
\* TradeSettled is never recorded for one that is not.
SettledIsPosted == \A t \in settled : PostedWhole(t)

\* Every reservation is confirmed by the time a batch is done.
NothingPending ==
    \A a \in all_accounts :
        balance[a].debits_pending = 0 /\ balance[a].credits_pending = 0

\* What the trades in the ledger come to for an entity in an asset: the base
\* amount changes hands against the quote amount, the customer bears the fee,
\* and nothing stays in clearing.  Stated without reference to movements.
NetOf(fill, entity, asset) ==
    LET base == IF asset = fill.base THEN base_amount(fill) ELSE 0
        quote == IF asset = fill.quote THEN quote_amount(fill) ELSE 0
        fee == IF asset = fill.quote THEN compute_fee(quote_amount(fill)) ELSE 0
        traded == IF fill.side = "buy" THEN base - quote ELSE quote - base
    IN  CASE entity = CUSTOMER -> traded - fee
          [] entity = VENUE -> -traded
          [] entity = FEE -> fee
          [] entity = CLEARING -> 0

\* The net posted balance of an entity in an asset.
Position(e, a) ==
    LET row == balance[account_id(e, a)]
    IN  row.credits_posted - row.debits_posted

\* Posted balances are exactly what the posted trades come to, each counted
\* once however often it was submitted.
NetPositions ==
    \A e \in Entities, a \in DOMAIN ASSETS :
        Position(e, a) = SumFunctionOnSet([t \in Done |-> NetOf(fills[t], e, a)], Done)

\* The ledger implements the book: whichever transfers a batch is made of and
\* however it ends, a trade is booked whole and once, or nothing happens.
Good == {f \in Fills : Accepted(f)}
Positions == Entities \X DOMAIN ASSETS
Net == [f \in Good |-> [p \in Positions |-> NetOf(f, p[1], p[2])]]

Book ==
    INSTANCE TradeBook
        WITH booked <- Done, position <- [p \in Positions |-> Position(p[1], p[2])]

ImplementsBook == Book!Spec

\* Every transfer belongs to a trade whose whole chain is in the ledger.
Whole == \A x \in transfers : x.id[1] \in Trades /\ PostedWhole(x.id[1])

\* The inductive invariant.
IInv == TypeOK /\ NothingPending /\ Whole /\ SettledIsPosted /\ NetPositions
=============================================================================
