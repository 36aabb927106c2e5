------------------------------ MODULE MCLedger ------------------------------
(***************************************************************************)
(* Ledger for TLC.  Quantities are in 1/10000 and prices in 1/100, as feed *)
(* rounds them.  The fills take the posting rules to their edges: an       *)
(* amount that rounds to zero (1 x 50.00 is half a cent, rounded to even), *)
(* the largest amount without a fee and the smallest with one (999 and     *)
(* 1000 cents), no quantity and a negative one, both sides, an unknown     *)
(* side and an unknown asset, and one asset traded against itself.         *)
(***************************************************************************)
EXTENDS Ledger

Fill(base, side, qty, price) ==
    [base |-> base, quote |-> "USD", side |-> side, qty |-> qty, price |-> price]

MCFills ==
    { Fill("BTC", "buy", 10000, 100000),
      Fill("BTC", "sell", 10000, 1000),
      Fill("BTC", "sell", 9990, 1000),
      Fill("ETH", "buy", 1, 15000),
      Fill("ETH", "sell", 1, 5000),
      Fill("ETH", "buy", 0, 100000),
      Fill("ETH", "buy", -10000, 1000),
      Fill("BTC", "hodl", 10000, 1000),
      Fill("DOGE", "buy", 10000, 1000),
      Fill("USD", "sell", 10000, 100000) }
=============================================================================
