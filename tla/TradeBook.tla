------------------------------ MODULE TradeBook ------------------------------
(***************************************************************************)
(* What the ledger promises to settlement, without transfers, chains, ids  *)
(* or accounts: a trade is booked as a whole and once, which moves every   *)
(* position by what its fill comes to; a submission that fails or that     *)
(* comes again changes nothing.  Settlement counts a trade's chain as one  *)
(* entry of its ledger on the strength of this.                            *)
(***************************************************************************)
EXTENDS Integers

CONSTANTS
    Trades,     \* trade ids
    Fills,      \* the fills a trade may have been executed with
    Good,       \* those that compute_postings accepts
    None,       \* no fill yet
    Positions,  \* what the book keeps a net amount for
    Net         \* Net[f][p]: what the fill f comes to for the position p

VARIABLES
    fills,      \* fills[t]: the fill in the log for t, or None
    booked,     \* the trades that are booked
    position    \* position[p]: the net amount

vars == <<fills, booked, position>>

Flat == [p \in Positions |-> 0]

Init ==
    /\ fills = [t \in Trades |-> None]
    /\ booked = {}
    /\ position = Flat

Execute(t) ==
    /\ fills[t] = None
    /\ \E f \in Fills : fills' = [fills EXCEPT ![t] = f]
    /\ UNCHANGED <<booked, position>>

\* settle's create_transfers succeeds.
Book(t) ==
    /\ fills[t] \in Good
    /\ t \notin booked
    /\ booked' = booked \cup {t}
    /\ position' = [p \in Positions |-> position[p] + Net[fills[t]][p]]
    /\ UNCHANGED fills

\* The ledger's data file is lost; the log is not.
Lose ==
    /\ booked' = {}
    /\ position' = Flat
    /\ UNCHANGED fills

Next == Lose \/ \E t \in Trades : Execute(t) \/ Book(t)

Spec == Init /\ [][Next]_vars
=============================================================================
