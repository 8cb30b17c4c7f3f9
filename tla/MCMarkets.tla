----------------------------- MODULE MCMarkets -----------------------------
(* Markets with one market from the first and one to add, whose prices are *)
(* in a token that the first one prices, and time for either to be taken   *)
(* down and up again between a trade and its call.                         *)
EXTENDS Markets, TLC

MCMarket == {<<"A", "CNYC">>, <<"B", "A">>}

MCSeeded == {<<"A", "CNYC">>}

=============================================================================
