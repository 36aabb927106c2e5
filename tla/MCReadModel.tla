---------------------------- MODULE MCReadModel ----------------------------
(* ReadModel for TLC: two trades of one instrument, one of another. *)
EXTENDS ReadModel

CONSTANTS t1, t2, t3, BTC, ETH

MCTrades == {t1, t2, t3}
MCSymbols == {BTC, ETH}

MCFill ==
    [t \in Trades |->
        CASE t = t1 -> [symbol |-> BTC, qty |-> 1, price |-> 5]
          [] t = t2 -> [symbol |-> ETH, qty |-> 2, price |-> 3]
          [] t = t3 -> [symbol |-> BTC, qty |-> 4, price |-> 7]]
=============================================================================
