---------------------------- MODULE MCReconciler ----------------------------
(***************************************************************************)
(* Reconciler for TLC: two equal purchases, whose differences mask each    *)
(* other when one read saw the first and the other the second, a sale of   *)
(* another asset, and a fill that compute_postings rejects.                *)
(***************************************************************************)
EXTENDS Reconciler

CONSTANTS t1, t2, t3, t4

MCTrades == {t1, t2, t3, t4}

Fill(base, side, qty, price) ==
    [base |-> base, quote |-> "USD", side |-> side, qty |-> qty, price |-> price]

MCFillOf ==
    [t \in MCTrades |->
        CASE t \in {t1, t2} -> Fill("BTC", "buy", 10000, 10000)
          [] t = t3 -> Fill("ETH", "sell", 20000, 500)
          [] t = t4 -> Fill("ETH", "buy", 0, 10000)]
=============================================================================
