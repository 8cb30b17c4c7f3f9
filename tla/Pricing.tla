------------------------------ MODULE Pricing ------------------------------
(***************************************************************************)
(* What an amount of one token is worth in another: get_price of           *)
(* src/src/express/index.ts walks the order books of both against CNYC,    *)
(* which order_book_v2 of src/src/adex/api/order.ts puts together from the *)
(* resting orders.  A book is a sequence of levels, the best one first:    *)
(* the highest bid, the lowest ask.  Prices of get_price are in units of   *)
(* 1 / Unit.                                                               *)
(***************************************************************************)
EXTENDS Integers, Sequences, FiniteSets, Sums

CONSTANTS
    Unit,           \* 10 ^ 8 in the code
    Tick            \* a level: 10 ^ 6 of the smallest units of a price

ASSUME UnitAssumption == Unit \in Nat \ {0} /\ Tick \in Nat \ {0}

RestingOrder == [side : {"buy", "sell"}, price : Nat \ {0}, amount : Nat \ {0}]

Level == [price : Nat, amount : Nat \ {0}]

(* The prices of a level: bids are rounded down, asks up.                  *)
LevelOf(order) ==
    IF order.side = "buy" THEN (order.price \div Tick) * Tick
    ELSE ((order.price - 1) \div Tick + 1) * Tick

(* One level for all orders of a side that are shown at its price.         *)
order_book(orders, side) ==
    LET here == {order \in orders : order.side = side}
        prices == {LevelOf(order) : order \in here}
        better(p) == {q \in prices : IF side = "buy" THEN q > p ELSE q < p}
        nth(n) == CHOOSE p \in prices : Cardinality(better(p)) = n - 1 IN
    [n \in 1 .. Cardinality(prices) |->
        [price |-> nth(n),
         amount |-> Sum([order \in {o \in here : LevelOf(o) = nth(n)} |-> order.amount])]]

(* The bids and the asks.  Those who write a book turn its asks around,    *)
(* and get_price turns them back.                                          *)
order_book_v2(orders) == << order_book(orders, "buy"), order_book(orders, "sell") >>

(* A division by zero is an answer, too.                                   *)
Price == [is : {"number", "infinite", "nan"}, value : Nat]

Number(n) == [is |-> "number", value |-> n]

(* toFixed: to the nearest unit.                                           *)
Rounded(a, b) == (2 * a * Unit + b) \div (2 * b)

(* The totals of the first levels, and the level at which a walk breaks.   *)
Amounts(book) == [n \in 0 .. Len(book) |-> Sum([k \in 1 .. n |-> book[k].amount])]

Values(book) ==
    [n \in 0 .. Len(book) |-> Sum([k \in 1 .. n |-> book[k].amount * book[k].price])]

Breaks(totals, goal) == {n \in DOMAIN totals \ {0} : totals[n] >= goal}

(* base_value: what the bids pay for an amount.  The last level is used in *)
(* part; a book that is too small pays for what it has.                    *)
Mut_BaseValue(bids, amount) ==
    LET sold == Amounts(bids) IN
    IF Breaks(sold, amount) # {} THEN Values(bids)[Min(Breaks(sold, amount))]
    ELSE Values(bids)[Len(bids)]

BaseValue(bids, amount) ==
    LET sold == Amounts(bids) IN
    IF Breaks(sold, amount) # {}
    THEN LET n == Min(Breaks(sold, amount)) IN
         Values(bids)[n - 1] + (amount - sold[n - 1]) * bids[n].price
    ELSE Values(bids)[Len(bids)]

(* quote_amount for a value, over the amount it is to be the price of.  At *)
(* the last level the value is divided by what was spent before.           *)
QuotePrice(asks, value, amount) ==
    LET spent == Values(asks) IN
    IF Breaks(spent, value) # {}
    THEN LET n == Min(Breaks(spent, value))
             divisor == spent[n - 1] * asks[n].price IN
         IF divisor > 0
         THEN Number(Rounded(Amounts(asks)[n - 1] * divisor + value, divisor * amount))
         ELSE [is |-> IF value > 0 THEN "infinite" ELSE "nan", value |-> 0]
    ELSE Number(Rounded(Amounts(asks)[Len(asks)], amount))

(* get_price.                                                              *)
GetPrice(base, quote, amount, bids, asks) ==
    LET value == IF base = "CNYC" THEN amount ELSE BaseValue(bids, amount) IN
    IF quote = "CNYC" THEN Number(Rounded(value, amount))
    ELSE QuotePrice(asks, value, amount)

----------------------------------------------------------------------------
(* For comparison: the most that can be had from the books, with lots of   *)
(* one unit.                                                               *)

Lots(book) ==
    {lots \in [DOMAIN book -> 0 .. Unit * Amounts(book)[Len(book)]] :
        \A n \in DOMAIN book : lots[n] <= Unit * book[n].amount}

Quantity(lots) == Sum(lots)

Turnover(book, lots) == Sum([n \in DOMAIN lots |-> lots[n] * book[n].price])

(* Sold for CNYC, and bought for CNYC, in units.                           *)
SoldFor(bids, quantity) ==
    Max({Turnover(bids, lots) : lots \in {l \in Lots(bids) : Quantity(l) <= quantity}})

BoughtFor(asks, turnover) ==
    Max({Quantity(lots) : lots \in {l \in Lots(asks) : Turnover(asks, l) <= turnover}})

Worth(base, quote, amount, bids, asks) ==
    LET value == IF base = "CNYC" THEN Unit * amount ELSE SoldFor(bids, Unit * amount) IN
    IF quote = "CNYC" THEN value ELSE BoughtFor(asks, value)

=============================================================================
