------------------------------ MODULE MCEngine ------------------------------
(* Engine on one market with two prices: A sells, B buys; b1 crosses both   *)
(* sell orders, and takes s2 in part when it has taken s1.                  *)
EXTENDS EngineAccounts, TLC

CONSTANTS A, B, s1, s2, b1

Market == <<"base", "quote">>

MCOrder ==
    s1 :> [trader |-> A, market |-> Market, side |-> "sell", price |-> 1, amount |-> 1]
 @@ s2 :> [trader |-> A, market |-> Market, side |-> "sell", price |-> 2, amount |-> 2]
 @@ b1 :> [trader |-> B, market |-> Market, side |-> "buy", price |-> 2, amount |-> 2]

(* A can pay for s1, s2 and s1 again, not for s2 twice; B for b1 only once. *)
MCBalance == A :> ("base" :> 4 @@ "quote" :> 0) @@ B :> ("base" :> 0 @@ "quote" :> 6)

=============================================================================
