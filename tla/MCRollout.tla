----------------------------- MODULE MCRollout -----------------------------
(***************************************************************************)
(* Rollout for TLC: two trades that come to the same, of which a bad build *)
(* posts one twice and loses the other.  The first error is hidden as long *)
(* as the second trade is in flight, and for good if both are made.        *)
(***************************************************************************)
EXTENDS Rollout

CONSTANTS t1, t2

MCSides == {"client debits", "fee-income credits"}

Once == [a \in MCSides |-> IF a = "client debits" THEN 2 ELSE 1]

MCDue == [t \in Trades |-> Once]
MCMisposted == [t \in Trades |-> [a \in MCSides |-> IF t = t1 THEN 2 * Once[a] ELSE 0]]
=============================================================================
