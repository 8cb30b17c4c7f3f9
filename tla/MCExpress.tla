----------------------------- MODULE MCExpress -----------------------------
(* Express with two pairs, with CNYC as the quote and as the base, and     *)
(* order books that are deep, thin or empty.                               *)
EXTENDS Express

Buy(price, amount) == [side |-> "buy", price |-> price, amount |-> amount]

Sell(price, amount) == [side |-> "sell", price |-> price, amount |-> amount]

(* Two orders at one level, or at two; no bids and a deep ask.             *)
MCBooks ==
    { {Buy(4, 1), Buy(3, 3), Sell(1, 1), Sell(3, 1), Sell(4, 1)},
      {Sell(2, 2), Sell(1, 3)} }

MCPairs == { <<"T", "CNYC">>, <<"CNYC", "T">> }

MCPool == [token \in {"T", "CNYC"} |-> 22000]

(* An exchange of tokens neither of which is CNYC: for three CNYC the asks *)
(* give two U, one for one CNYC and one for two.                           *)
SwapPairs == { <<"T", "U">> }

SwapBooks == { {Buy(3, 1), Sell(1, 1), Sell(2, 2)} }

SwapPool == [token \in {"T", "U"} |-> 100000]

=============================================================================
