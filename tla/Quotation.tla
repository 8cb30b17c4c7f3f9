----------------------------- MODULE Quotation -----------------------------
(***************************************************************************)
(* What the trades of the last 24 hours say of a market: the queries of    *)
(* src/src/adex/models/db.ts on mist_trades_tmp, the price of a token in   *)
(* CNYC of src/src/adex/api/mist_wallet.ts, and getMarketQuotation of      *)
(* src/src/adex/api/market.ts.  A market is a pair of tokens.  The trades  *)
(* of a day are a function, of markets, to sets of places in the sequence  *)
(* of all trades, which is the order of their created_at.                  *)
(***************************************************************************)
EXTENDS Integers, Sequences, FiniteSets, Sums

(* The highest and the lowest price; one trade or none is returned, and    *)
(* for none the price is zero.                                             *)
get_market_max_price(trades, day, m) ==
    IF day[m] = {} THEN <<0>> ELSE <<Max({trades[n].price : n \in day[m]})>>

get_market_min_price(trades, day, m) ==
    IF day[m] = {} THEN <<0>> ELSE <<Min({trades[n].price : n \in day[m]})>>

get_market_current_price(trades, day, m) ==
    IF m \notin DOMAIN day \/ day[m] = {} THEN <<0>> ELSE <<trades[Max(day[m])].price>>

(* The price of a token in CNYC.  The answer is never empty, so that the   *)
(* markets against USDT and MT, which come next, are never asked.          *)
get_token_price2pi(trades, day, symbol) ==
    IF symbol = "CNYC" THEN 1
    ELSE get_market_current_price(trades, day, <<symbol, "CNYC">>)[1]

(* The last price, its change since the first one of the day, for what     *)
(* price, and the amount traded.                                           *)
get_market_quotations(trades, day, m) ==
    LET newest == trades[Max(day[m])].price
        oldest == trades[Min(day[m])].price IN
    [price |-> newest, ratio |-> <<newest - oldest, oldest>>,
     volume |-> Sum([n \in day[m] |-> trades[n].amount])]

NoQuotation ==
    [price |-> 0, ratio |-> <<0, 1>>, volume |-> 0, CNYC_price |-> 0, maxprice |-> 0,
     minprice |-> 0, min_CNYC_price |-> 0, max_CNYC_price |-> 0]

(* The extremes are left zero when the quote token has no price in CNYC.   *)
getMarketQuotation(trades, day, m) ==
    LET quote_price == get_token_price2pi(trades, day, m[2])
        max_price == get_market_max_price(trades, day, m)[1]
        min_price == get_market_min_price(trades, day, m)[1]
        result == get_market_quotations(trades, day, m)
        last == [NoQuotation EXCEPT !.price = result.price, !.ratio = result.ratio,
                                    !.volume = result.volume] IN
    CASE day[m] = {} -> NoQuotation
      [] day[m] # {} /\ quote_price = 0 -> last
      [] day[m] # {} /\ quote_price > 0 ->
            [last EXCEPT !.CNYC_price = get_token_price2pi(trades, day, m[1]),
                         !.maxprice = max_price, !.minprice = min_price,
                         !.min_CNYC_price = min_price * quote_price,
                         !.max_CNYC_price = max_price * quote_price]

=============================================================================
