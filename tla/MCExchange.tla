----------------------------- MODULE MCExchange -----------------------------
(* Exchange with an order to sell more than the trader has, and one to     *)
(* buy.  A coin has two units, and debts grow fast.                        *)
EXTENDS Exchange, TLC

CONSTANTS s1, b1, t1, t2

MCOrder == s1 :> [side |-> "sell", amount |-> 2] @@ b1 :> [side |-> "buy", amount |-> 2]

Symmetric == Permutations({t1, t2})

MCGrowth == [d \in 1 .. 10 |-> 10 + d]

=============================================================================
