------------------------------ MODULE Markets ------------------------------
(***************************************************************************)
(* The life of a market.  The operator adds it, and sets the times between *)
(* which it is on the list (src/src/admin/index.ts, src/src/adex/api/      *)
(* market.ts).  The signer takes orders for any market id, and the engine  *)
(* matches them; the launcher calls the contract for the trades of the     *)
(* markets that are on the list when it launches.  data_process takes old  *)
(* trades out of mist_trades_tmp, and keeps the quotations of the markets, *)
(* which it reads from there, in a table that it fills when it starts.     *)
(* What becomes of a call is in module Settlement, of orders that are      *)
(* taken out with the trades in module Exchange.                           *)
(***************************************************************************)
EXTENDS Quotation

CONSTANTS
    Market,         \* pairs of tokens
    Seeded,         \* those in mist_markets from the first
    Price,          \* what trades are made at,
    Amount,         \* and how much of the base token is traded
    Day,            \* 24 hours
    Decade,         \* ten years
    MaxTime,        \* bound: the hours the model lasts, below ten years
    MaxTrades,      \* bound: trades
    MaxChanges      \* bound: commands of the operator

None == <<>>

ASSUME MarketAssumption == Seeded \subseteq Market /\ None \notin Market
ASSUME TradeAssumption == Price \subseteq Nat \ {0} /\ Amount \subseteq Nat \ {0}
ASSUME TimeAssumption ==
    /\ Day \in Nat \ {0} /\ Decade \in Nat /\ MaxTime \in Nat /\ MaxTime < Decade
    /\ MaxTrades \in Nat /\ MaxChanges \in Nat

VARIABLES
    markets,        \* mist_markets
    now,
    changes,        \* commands so far
    trades,         \* mist_trades, in the order of created_at
    recent,         \* the places of those that are in mist_trades_tmp
    quotations,     \* mist_market_quotation_tmp
    pass,           \* markets marketQuotationLoop has still to refresh
    expected        \* trades matched on a market that was on the list, and
                    \* that the operator has left alone since

vars == <<markets, now, changes, trades, recent, quotations, pass, expected>>

----------------------------------------------------------------------------

Row == [online : BOOLEAN, up_at : Nat, down_at : Nat]

NoRow == [online |-> FALSE, up_at |-> 0, down_at |-> 0]

(* A trade is launched with the tokens of its call, if there are any.      *)
Trade ==
    [market : Market, price : Price, amount : Amount, at : Nat, transaction_id : Nat,
     status : {"matched", "launched", "successful"}, tokens : Market \cup {None}]

TypeOK ==
    /\ markets \in [Market -> Row]
    /\ now \in 0 .. MaxTime
    /\ changes \in 0 .. MaxChanges
    /\ trades \in Seq(Trade) /\ Len(trades) <= MaxTrades
    /\ \A n \in DOMAIN trades : trades[n].status = "matched" => trades[n].tokens = None
    /\ recent \subseteq DOMAIN trades
    /\ DOMAIN quotations \subseteq Market
    /\ pass \subseteq Market
    /\ expected \subseteq DOMAIN trades

Init ==
    /\ markets = [m \in Market |->
                    IF m \in Seeded THEN [online |-> TRUE, up_at |-> 0, down_at |-> Decade]
                    ELSE NoRow]
    /\ now = 0 /\ changes = 0
    /\ trades = <<>>
    /\ recent = {}
    /\ quotations = <<>>
    /\ pass = {}
    /\ expected = {}

----------------------------------------------------------------------------

(* A row that is not there is in no list.                                  *)
get_existed_market(m) == markets[m] # NoRow

list_online_markets ==
    {m \in Market : now > markets[m].up_at /\ now < markets[m].down_at}

(* What the engine asks for, and does nothing about.                       *)
get_market(m) == markets[m].online

----------------------------------------------------------------------------
(* The operator.  Times that are over are refused.                         *)

Changed(m, row) ==
    /\ changes < MaxChanges
    /\ changes' = changes + 1
    /\ markets' = [markets EXCEPT ![m] = row]
    /\ expected' = {n \in expected : trades[n].market # m}
    /\ UNCHANGED <<now, trades, recent, quotations, pass>>

Added == [online |-> FALSE, up_at |-> now, down_at |-> now]

(* Ten years are added to the end, whatever it was.                        *)
Mut_Up(row, at) == [row EXCEPT !.online = TRUE, !.up_at = at]

Up(row, at) == [online |-> TRUE, up_at |-> at, down_at |-> row.down_at + Decade]

Down(row, at) == [row EXCEPT !.online = FALSE, !.down_at = at]

(* It is added at the second hour or later, when rows differ from NoRow.   *)
market_add(m) ==
    /\ ~ get_existed_market(m)
    /\ now > 0
    /\ Changed(m, Added)

market_up(m, at) ==
    /\ get_existed_market(m)
    /\ at >= now
    /\ Changed(m, Up(markets[m], at))

Mut_market_down(m, at) ==
    /\ get_existed_market(m)
    /\ at >= now
    /\ Changed(m, [markets[m] EXCEPT !.online = FALSE, !.down_at = @ - Decade])

market_down(m, at) ==
    /\ get_existed_market(m)
    /\ at >= now
    /\ Changed(m, Down(markets[m], at))

Tick ==
    /\ now < MaxTime
    /\ now' = now + 1
    /\ UNCHANGED <<markets, changes, trades, recent, quotations, pass, expected>>

----------------------------------------------------------------------------
(* Trading.                                                                *)

(* The id of the batch follows the highest id of a trade that is launched. *)
(* There are fewer than a hundred matched ones here.                       *)
BatchId ==
    LET ids == {trades[n].transaction_id :
                    n \in {k \in DOMAIN trades : trades[k].status # "matched"}} IN
    IF ids = {} THEN 0 ELSE Max(ids) + 1

(* A trade of any market, listed or not, in the table or not.              *)
Match(m, price, amount) ==
    /\ Len(trades) < MaxTrades
    /\ trades' = Append(trades, [market |-> m, price |-> price, amount |-> amount,
                                 at |-> now, transaction_id |-> BatchId,
                                 status |-> "matched", tokens |-> None])
    /\ recent' = recent \cup {Len(trades) + 1}
    /\ expected' = IF m \in list_online_markets THEN expected \cup {Len(trades) + 1}
                   ELSE expected
    /\ UNCHANGED <<markets, now, changes, quotations, pass>>

(* The trades of a batch, also of several markets, in mist_trades_tmp; all *)
(* that are matched have the same id here.                                 *)
Batch == {n \in recent : trades[n].status = "matched"}

(* token_address, looked up for each trade afresh; without one the trade   *)
(* is left out of the call.                                                *)
Mut_TokensOf(n) ==
    LET others == {trades[k].market : k \in Batch} \cap list_online_markets IN
    CASE trades[n].market \in list_online_markets -> trades[n].market
      [] trades[n].market \notin list_online_markets /\ others # {} ->
            CHOOSE m \in others : TRUE
      [] OTHER -> None

TokensOf(n) ==
    IF trades[n].market \in list_online_markets THEN trades[n].market ELSE None

(* The books are moved, and the hash recorded, for the whole batch.        *)
Launch ==
    /\ Batch # {}
    /\ trades' = [n \in DOMAIN trades |->
                    IF n \in Batch
                    THEN [trades[n] EXCEPT !.status = "launched", !.tokens = TokensOf(n)]
                    ELSE trades[n]]
    /\ UNCHANGED <<markets, now, changes, recent, quotations, pass, expected>>

(* A transaction is mined and its trades are confirmed.                    *)
Confirm(id) ==
    LET mined == {n \in recent : /\ trades[n].status = "launched"
                                 /\ trades[n].transaction_id = id} IN
    /\ mined # {}
    /\ trades' = [n \in DOMAIN trades |->
                    IF n \in mined THEN [trades[n] EXCEPT !.status = "successful"]
                    ELSE trades[n]]
    /\ UNCHANGED <<markets, now, changes, recent, quotations, pass, expected>>

----------------------------------------------------------------------------
(* data_process.                                                           *)

(* Settled trades of earlier transactions than the newest trade's go when  *)
(* they are more than 25 hours old.                                        *)
Mut_Old(n, top) ==
    /\ trades[n].transaction_id < trades[top].transaction_id
    /\ trades[n].status = "successful"

Old(n, top) ==
    /\ now - trades[n].at > Day + 1
    /\ trades[n].transaction_id < trades[top].transaction_id
    /\ trades[n].status = "successful"

cleanupTempOrders ==
    /\ recent # {}
    /\ LET old == {n \in recent : Old(n, Max(recent))} IN
       /\ old # {}
       /\ recent' = recent \ old
    /\ UNCHANGED <<markets, now, changes, trades, quotations, pass, expected>>

Today == [m \in Market |->
            {n \in recent : trades[n].market = m /\ trades[n].at > now - Day}]

(* The table is emptied, and filled market by market until all are there   *)
(* or a query fails.                                                       *)
init(done) ==
    /\ done \subseteq list_online_markets
    /\ quotations' = [m \in done |-> getMarketQuotation(trades, Today, m)]
    /\ pass' = {}
    /\ UNCHANGED <<markets, now, changes, trades, recent, expected>>

(* The list is read at the start of a pass.                                *)
StartPass ==
    /\ pass = {}
    /\ list_online_markets # {}
    /\ pass' = list_online_markets
    /\ UNCHANGED <<markets, now, changes, trades, recent, quotations, expected>>

(* Only rows that are there are updated.                                   *)
update_market_quotation(m, quotation) ==
    quotations' = [k \in DOMAIN quotations |-> IF k = m THEN quotation ELSE quotations[k]]

Refresh(m) ==
    /\ m \in pass
    /\ pass' = pass \ {m}
    /\ update_market_quotation(m, getMarketQuotation(trades, Today, m))
    /\ UNCHANGED <<markets, now, changes, trades, recent, expected>>

----------------------------------------------------------------------------

Operator ==
    \E m \in Market :
        market_add(m) \/ \E at \in 0 .. MaxTime : market_up(m, at) \/ market_down(m, at)

Next ==
    \/ Operator
    \/ Tick
    \/ \E m \in Market, price \in Price, amount \in Amount : Match(m, price, amount)
    \/ Launch \/ \E n \in DOMAIN trades : Confirm(trades[n].transaction_id)
    \/ cleanupTempOrders
    \/ \E done \in SUBSET Market : init(done)
    \/ StartPass \/ \E m \in Market : Refresh(m)

Spec == Init /\ [][Next]_vars

----------------------------------------------------------------------------
(* Properties.                                                             *)

(* A trade that is called has the tokens of its own market, whichever      *)
(* others are in its batch; and one that was matched on a listed market is *)
(* called, unless the operator has changed the market or its time is over. *)
(* The others are left out, although their books are moved.  The clean-up  *)
(* leaves what is not settled where launcher and watcher look for it.      *)
CallsFit ==
    \A n \in DOMAIN trades :
        LET m == trades[n].market IN
        /\ trades[n].tokens \in {m, None}
        /\ trades[n].status # "matched" /\ n \in expected /\ trades[n].tokens = None
               => now >= markets[m].down_at
        /\ trades[n].status # "successful" => n \in recent

(* The engine goes by the flag and the launcher by the times: a market     *)
(* with the flag is on the list as soon as its time has come, however      *)
(* often it was taken up and down before.                                  *)
FlagFollowsTimes ==
    \A m \in Market :
        get_market(m) /\ now > markets[m].up_at => m \in list_online_markets

(* What a quotation of m is to tell of the trades of the last 24 hours,    *)
(* those the clean-up has taken out included: the last price, its change   *)
(* since the first, the sum of the amounts, and extremes that contain      *)
(* every price, where the quote token has a price of its own.              *)
Tells(quotation, m) ==
    LET day == {n \in DOMAIN trades : trades[n].market = m /\ trades[n].at > now - Day}
        first == CHOOSE n \in day : \A k \in day : n <= k
        last == CHOOSE n \in day : \A k \in day : n >= k IN
    IF day = {} THEN quotation = NoQuotation
    ELSE /\ quotation.price = trades[last].price
         /\ quotation.ratio = <<trades[last].price - trades[first].price, trades[first].price>>
         /\ quotation.volume = Sum([n \in day |-> trades[n].amount])
         /\ quotation.maxprice > 0 =>
              /\ \A n \in day : trades[n].price \in quotation.minprice .. quotation.maxprice
              /\ {quotation.minprice, quotation.maxprice} \subseteq {trades[n].price : n \in day}

(* A quotation that is written tells of all trades of the last 24 hours,   *)
(* although the trades it is read from are cleaned up, by another loop.    *)
QuotesTrue ==
    [][\A m \in DOMAIN quotations' :
         m \notin DOMAIN quotations \/ quotations'[m] # quotations[m]
            => Tells(quotations'[m], m)]_vars

=============================================================================
