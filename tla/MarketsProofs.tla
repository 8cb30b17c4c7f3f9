--------------------------- MODULE MarketsProofs ---------------------------
(***************************************************************************)
(* Theorems about module Markets, for every set of markets, every price    *)
(* and amount, and every number of trades and commands.                    *)
(***************************************************************************)
EXTENDS Markets, SumTheorems, TLAPS

----------------------------------------------------------------------------
(* The highest id.                                                         *)

LEMMA MaxIsHighest ==
    ASSUME NEW S, S \subseteq Nat, S # {}, NEW bound \in Nat, \A x \in S : x <= bound
    PROVE  Max(S) \in S
<1>1. IsFiniteSet(S)
    BY FS_BoundedSetOfNaturals
<1>2. S \in SUBSET Int
    OBVIOUS
<1> QED
    BY <1>1, <1>2, MaxOf

----------------------------------------------------------------------------
(* The inductive invariant.                                                *)

(* A trade's id is below its place.                                        *)
IdsBounded == \A n \in DOMAIN trades : trades[n].transaction_id < n

(* A market with the flag has its ten years.                               *)
FlagInv == \A m \in Market : markets[m].online => markets[m].down_at >= Decade

(* A trade that is expected to be called was matched when the time of its  *)
(* market had come.                                                        *)
Came ==
    \A n \in expected : trades[n].status = "matched" => now > markets[trades[n].market].up_at

(* The clean-up leaves the trades that the quotations look back to.        *)
Kept == \A n \in DOMAIN trades : n \in recent \/ trades[n].at < now - Day

MarketInv == TypeOK /\ IdsBounded /\ FlagInv /\ Came /\ CallsFit /\ Kept

LEMMA BatchIdBounded ==
    ASSUME TypeOK, IdsBounded
    PROVE  BatchId \in Nat /\ BatchId <= Len(trades)
<1> DEFINE ids == {trades[n].transaction_id :
                     n \in {k \in DOMAIN trades : trades[k].status # "matched"}}
<1>1. ids \subseteq Nat /\ \A x \in ids : x < Len(trades)
  <2>1. ASSUME NEW n \in DOMAIN trades
        PROVE  trades[n].transaction_id \in Nat /\ trades[n].transaction_id < Len(trades)
    <3>1. trades[n] \in Trade /\ n \in 1 .. Len(trades) /\ Len(trades) \in Nat
        BY DEF TypeOK
    <3>2. trades[n].transaction_id \in Nat
        BY <3>1 DEF Trade
    <3>3. trades[n].transaction_id < n
        BY DEF IdsBounded
    <3> QED
        BY <3>1, <3>2, <3>3
  <2> QED
      BY <2>1
<1>2. CASE ids = {}
    BY <1>2 DEF BatchId, TypeOK
<1>3. CASE ids # {}
  <2>1. Max(ids) \in ids
    <3>1. Len(trades) \in Nat
        BY DEF TypeOK
    <3> HIDE DEF ids
    <3>2. \A x \in ids : x <= Len(trades)
        BY <1>1, <3>1
    <3> QED
      BY <1>1, <1>3, <3>1, <3>2, MaxIsHighest
  <2>2. BatchId = Max(ids) + 1
      BY <1>3 DEF BatchId
  <2>3. Len(trades) \in Nat
      BY DEF TypeOK
  <2> HIDE DEF ids
  <2>4. Max(ids) \in Nat /\ Max(ids) < Len(trades)
      BY <1>1, <2>1
  <2> QED
      BY <2>2, <2>3, <2>4
<1> QED
    BY <1>2, <1>3


----------------------------------------------------------------------------
(* Type correctness.                                                       *)

LEMMA MarketInit == Init => MarketInv
<1> SUFFICES ASSUME Init PROVE MarketInv
    OBVIOUS
<1> USE DEF Init
<1>1. markets \in [Market -> Row]
    BY MarketAssumption, TimeAssumption DEF Row, NoRow
<1>2. trades = <<>> /\ trades \in Seq(Trade) /\ Len(trades) = 0 /\ DOMAIN trades = {}
    OBVIOUS
<1>3. TypeOK
  <2>1. now \in 0 .. MaxTime /\ changes \in 0 .. MaxChanges /\ Len(trades) <= MaxTrades
      BY <1>2, TimeAssumption
  <2>2. DOMAIN quotations = {}
      OBVIOUS
  <2> QED
      BY <1>1, <1>2, <2>1, <2>2 DEF TypeOK
<1>4. IdsBounded /\ Came /\ CallsFit /\ Kept
    BY <1>2 DEF IdsBounded, Came, CallsFit, Kept
<1>5. FlagInv
    BY TimeAssumption DEF FlagInv, NoRow
<1> QED
    BY <1>3, <1>4, <1>5 DEF MarketInv

(* The operator's commands change one row.                                 *)
LEMMA OperatorType ==
    ASSUME TypeOK, Operator
    PROVE  TypeOK'
<1>1. ASSUME NEW m \in Market, NEW row \in Row, Changed(m, row) PROVE TypeOK'
  <2>1. markets' \in [Market -> Row] /\ changes' \in 0 .. MaxChanges
      BY <1>1, TimeAssumption DEF Changed, TypeOK
  <2>2. expected' \subseteq DOMAIN trades
      BY <1>1 DEF Changed, TypeOK
  <2> QED
      BY <1>1, <2>1, <2>2 DEF Changed, TypeOK
<1>2. ASSUME NEW m \in Market, NEW at \in 0 .. MaxTime
      PROVE  /\ Added \in Row /\ Up(markets[m], at) \in Row
             /\ Down(markets[m], at) \in Row
  <2>1. markets[m] \in Row /\ now \in Nat /\ at \in Nat
      BY TimeAssumption DEF TypeOK
  <2>2. /\ markets[m].up_at \in Nat /\ markets[m].down_at \in Nat
        /\ markets[m].down_at + Decade \in Nat
      BY <2>1, TimeAssumption DEF Row
  <2>3. Up(markets[m], at) \in Row
      BY <2>1, <2>2 DEF Up, Row
  <2>4. Down(markets[m], at) \in Row
      BY <2>1 DEF Down, Row
  <2> QED
      BY <2>1, <2>3, <2>4 DEF Added, Row
<1>3. Added \in Row
    BY TimeAssumption DEF TypeOK, Added, Row
<1> QED
    BY <1>1, <1>2, <1>3 DEF Operator, market_add, market_up, market_down

(* Launching and confirming change fields of trades.                       *)
LEMMA TradesChanged ==
    ASSUME TypeOK, NEW f, f \in [DOMAIN trades -> Trade]
    PROVE  f \in Seq(Trade) /\ Len(f) = Len(trades)
<1>1. Len(trades) \in Nat /\ DOMAIN trades = 1 .. Len(trades)
    BY DEF TypeOK
<1> QED
    BY <1>1

LEMMA NextType == TypeOK /\ IdsBounded /\ [Next]_vars => TypeOK' /\ IdsBounded'
<1> SUFFICES ASSUME TypeOK, IdsBounded, [Next]_vars PROVE TypeOK' /\ IdsBounded'
    OBVIOUS
<1>l. Len(trades) \in Nat /\ DOMAIN trades = 1 .. Len(trades)
    BY DEF TypeOK
<1>t. \A n \in DOMAIN trades : trades[n] \in Trade
    BY DEF TypeOK
<1>1. CASE Operator
  <2>1. trades' = trades
      BY <1>1 DEF Operator, market_add, market_up, market_down, Changed
  <2> QED
      BY <1>1, <2>1, OperatorType DEF IdsBounded
<1>2. CASE Tick
  <2>1. now' \in 0 .. MaxTime
      BY <1>2, TimeAssumption DEF Tick, TypeOK
  <2> QED
      BY <1>2, <2>1 DEF Tick, TypeOK, IdsBounded
<1>3. ASSUME NEW m \in Market, NEW price \in Price, NEW amount \in Amount,
             Match(m, price, amount)
      PROVE  TypeOK' /\ IdsBounded'
  <2> DEFINE trade == [market |-> m, price |-> price, amount |-> amount, at |-> now,
                       transaction_id |-> BatchId, status |-> "matched", tokens |-> None]
  <2>1. trade \in Trade
      BY BatchIdBounded, TimeAssumption DEF Trade, TypeOK
  <2>2. trades' = Append(trades, trade) /\ trades' \in Seq(Trade)
        /\ Len(trades') = Len(trades) + 1
      BY <1>3, <2>1 DEF Match, TypeOK
  <2>3. /\ DOMAIN trades' = 1 .. Len(trades) + 1
        /\ \A n \in DOMAIN trades : trades'[n] = trades[n]
        /\ trades'[Len(trades) + 1] = trade
    <3> HIDE DEF trade
    <3> QED
      BY <2>2, <1>l DEF TypeOK
  <2>4. \A n \in DOMAIN trades' : n \in DOMAIN trades \/ n = Len(trades) + 1
      BY <2>3, <1>l
  <2>5. trade.status = "matched" /\ trade.tokens = None /\ trade.transaction_id = BatchId
      OBVIOUS
  <2> HIDE DEF trade
  <2>6. IdsBounded'
      BY <2>3, <2>4, <2>5, <1>l, BatchIdBounded DEF IdsBounded
  <2>7. \A n \in DOMAIN trades' : trades'[n].status = "matched" => trades'[n].tokens = None
      BY <2>3, <2>4, <2>5 DEF TypeOK
  <2>8. Len(trades') <= MaxTrades
      BY <1>3, <2>2, <1>l, TimeAssumption DEF Match
  <2>9. recent' \subseteq DOMAIN trades' /\ expected' \subseteq DOMAIN trades'
      BY <1>3, <2>3, <1>l DEF Match, TypeOK
  <2> QED
      BY <1>3, <2>2, <2>6, <2>7, <2>8, <2>9 DEF Match, TypeOK
<1>4. CASE Launch
  <2>1. \A n \in DOMAIN trades : TokensOf(n) \in Market \cup {None}
      BY <1>t DEF TokensOf, Trade
  <2>2. trades' \in [DOMAIN trades -> Trade]
      BY <1>4, <1>t, <2>1 DEF Launch, Trade
  <2>3. \A n \in DOMAIN trades :
            /\ trades'[n].transaction_id = trades[n].transaction_id
            /\ trades'[n].status = "matched" => trades'[n] = trades[n]
      BY <1>4, <1>t DEF Launch, Trade
  <2>4. trades' \in Seq(Trade) /\ Len(trades') = Len(trades) /\ DOMAIN trades' = DOMAIN trades
      BY <2>2, TradesChanged
  <2>5. IdsBounded'
      BY <2>3, <2>4 DEF IdsBounded
  <2>6. \A n \in DOMAIN trades' : trades'[n].status = "matched" => trades'[n].tokens = None
      BY <2>3, <2>4 DEF TypeOK
  <2> QED
      BY <1>4, <2>4, <2>5, <2>6 DEF Launch, TypeOK
<1>5. ASSUME NEW id, Confirm(id) PROVE TypeOK' /\ IdsBounded'
  <2>2. trades' \in [DOMAIN trades -> Trade]
      BY <1>5, <1>t DEF Confirm, Trade
  <2>3. \A n \in DOMAIN trades :
            /\ trades'[n].transaction_id = trades[n].transaction_id
            /\ trades'[n].status = "matched" => trades'[n] = trades[n]
      BY <1>5, <1>t DEF Confirm, Trade
  <2>4. trades' \in Seq(Trade) /\ Len(trades') = Len(trades) /\ DOMAIN trades' = DOMAIN trades
      BY <2>2, TradesChanged
  <2>5. IdsBounded'
      BY <2>3, <2>4 DEF IdsBounded
  <2>6. \A n \in DOMAIN trades' : trades'[n].status = "matched" => trades'[n].tokens = None
      BY <2>3, <2>4 DEF TypeOK
  <2> QED
      BY <1>5, <2>4, <2>5, <2>6 DEF Confirm, TypeOK
<1>6. CASE cleanupTempOrders
    BY <1>6 DEF cleanupTempOrders, TypeOK, IdsBounded
<1>7. ASSUME NEW done \in SUBSET Market, init(done) PROVE TypeOK' /\ IdsBounded'
    BY <1>7 DEF init, TypeOK, IdsBounded
<1>8. CASE StartPass
    BY <1>8 DEF StartPass, list_online_markets, TypeOK, IdsBounded
<1>9. ASSUME NEW m \in Market, Refresh(m) PROVE TypeOK' /\ IdsBounded'
    BY <1>9 DEF Refresh, update_market_quotation, TypeOK, IdsBounded
<1>10. CASE UNCHANGED vars
    BY <1>10 DEF vars, TypeOK, IdsBounded
<1> QED
    BY <1>1, <1>2, <1>3, <1>4, <1>5, <1>6, <1>7, <1>8, <1>9, <1>10 DEF Next


----------------------------------------------------------------------------
(* The flag.                                                               *)

LEMMA FlagStep == MarketInv /\ [Next]_vars => FlagInv'
<1> SUFFICES ASSUME MarketInv, [Next]_vars PROVE FlagInv'
    OBVIOUS
<1> USE DEF MarketInv
<1>1. ASSUME NEW m \in Market, NEW row \in Row, Changed(m, row),
             row.online => row.down_at >= Decade
      PROVE  FlagInv'
    BY <1>1 DEF Changed, FlagInv, TypeOK
<1>2. ASSUME NEW m \in Market, NEW at \in 0 .. MaxTime
      PROVE  /\ Up(markets[m], at) \in Row /\ Up(markets[m], at).down_at >= Decade
             /\ Down(markets[m], at) \in Row /\ ~ Down(markets[m], at).online
  <2>1. markets[m] \in Row /\ at \in Nat
      BY TimeAssumption DEF TypeOK
  <2>2. markets[m].up_at \in Nat /\ markets[m].down_at \in Nat /\ Decade \in Nat
      BY <2>1, TimeAssumption DEF Row
  <2>3. Up(markets[m], at) \in Row /\ Up(markets[m], at).down_at >= Decade
      BY <2>1, <2>2 DEF Up, Row
  <2>4. Down(markets[m], at) \in Row /\ ~ Down(markets[m], at).online
      BY <2>1 DEF Down, Row
  <2> QED
      BY <2>3, <2>4
<1>3. Added \in Row /\ ~ Added.online
    BY TimeAssumption DEF TypeOK, Added, Row
<1>4. CASE Operator
    BY <1>1, <1>2, <1>3, <1>4 DEF Operator, market_add, market_up, market_down
<1>5. CASE UNCHANGED markets
    BY <1>5 DEF FlagInv
<1> QED
    BY <1>4, <1>5 DEF Next, vars, Tick, Match, Launch, Confirm, cleanupTempOrders, init,
                      StartPass, Refresh

LEMMA FlagIsEnough == TypeOK /\ FlagInv => FlagFollowsTimes
<1> SUFFICES ASSUME TypeOK, FlagInv, NEW m \in Market,
                    markets[m].online, now > markets[m].up_at
             PROVE  now < markets[m].down_at
    BY DEF FlagFollowsTimes, get_market, list_online_markets
<1>1. markets[m].down_at \in Nat /\ now \in Nat /\ now <= MaxTime
    BY TimeAssumption DEF TypeOK, Row
<1> QED
    BY <1>1, TimeAssumption DEF FlagInv

----------------------------------------------------------------------------
(* The calls.                                                              *)

(* What CallsFit and Came say of one trade.                                *)
Fits(n) ==
    LET m == trades[n].market IN
    /\ trades[n].tokens \in {m, None}
    /\ trades[n].status # "matched" /\ n \in expected /\ trades[n].tokens = None
           => now >= markets[m].down_at
    /\ trades[n].status # "successful" => n \in recent
    /\ trades[n].status = "matched" /\ n \in expected => now > markets[m].up_at

LEMMA FitsIsEnough ==
    expected \subseteq DOMAIN trades =>
        ((\A n \in DOMAIN trades : Fits(n)) <=> Came /\ CallsFit)
  BY DEF Fits, Came, CallsFit

LEMMA FitsStep ==
    ASSUME MarketInv, [Next]_vars, NEW n \in DOMAIN trades'
    PROVE  Fits(n)'
<1> USE DEF MarketInv
<1>l. Len(trades) \in Nat /\ DOMAIN trades = 1 .. Len(trades)
    BY DEF TypeOK
<1>t. \A k \in DOMAIN trades : trades[k] \in Trade /\ trades[k].market \in Market
  <2>1. \A k \in DOMAIN trades : trades[k] \in Trade
      BY <1>l DEF TypeOK
  <2> QED
      BY <2>1 DEF Trade
<1>f. \A k \in DOMAIN trades : Fits(k)
    BY FitsIsEnough DEF TypeOK
<1>m. \A m \in Market : markets[m].up_at \in Nat /\ markets[m].down_at \in Nat
    BY DEF TypeOK, Row
<1>n. now \in Nat
    BY TimeAssumption DEF TypeOK
<1>1. CASE Operator
  <2>0. PICK m \in Market : \E row : Changed(m, row)
      BY <1>1 DEF Operator, market_add, market_up, market_down
  <2>1. PICK row : Changed(m, row)
      BY <2>0
  <2>2. CASE trades[n].market = m
      BY <2>1, <2>2, <1>f DEF Changed, Fits
  <2>3. CASE trades[n].market # m
    <3>1. markets'[trades[n].market] = markets[trades[n].market]
        BY <2>1, <2>3, <1>t DEF Changed, TypeOK
    <3>2. trades' = trades /\ now' = now /\ recent' = recent /\ expected' \subseteq expected
        BY <2>1 DEF Changed
    <3> QED
        BY <3>1, <3>2, <1>f DEF Fits
  <2> QED
      BY <2>2, <2>3
<1>2. CASE Tick
  <2>1. UNCHANGED <<markets, trades, recent, expected>> /\ now' = now + 1
      BY <1>2 DEF Tick
  <2>2. trades[n].market \in Market
      BY <2>1, <1>t
  <2> QED
      BY <2>1, <2>2, <1>f, <1>m, <1>n DEF Fits
<1>3. ASSUME NEW m \in Market, NEW price \in Price, NEW amount \in Amount,
             Match(m, price, amount)
      PROVE  Fits(n)'
  <2> DEFINE trade == [market |-> m, price |-> price, amount |-> amount, at |-> now,
                       transaction_id |-> BatchId, status |-> "matched", tokens |-> None]
  <2>1. trades' = Append(trades, trade) /\ UNCHANGED <<markets, now>>
      BY <1>3 DEF Match
  <2>2. /\ DOMAIN trades' = 1 .. Len(trades) + 1
        /\ \A k \in DOMAIN trades : trades'[k] = trades[k]
        /\ trades'[Len(trades) + 1] = trade
    <3> HIDE DEF trade
    <3> QED
      BY <2>1, <1>l DEF TypeOK
  <2>3. CASE n \in DOMAIN trades
    <3>1. n # Len(trades) + 1
        BY <2>3, <1>l
    <3>2. (n \in expected' <=> n \in expected) /\ (n \in recent => n \in recent')
        BY <1>3, <3>1 DEF Match
    <3> HIDE DEF trade
    <3> QED
        BY <2>1, <2>2, <2>3, <3>2, <1>f DEF Fits
  <2>4. CASE n = Len(trades) + 1
    <3>1. n \in recent' /\ n \notin expected
        BY <1>3, <2>4, <1>l DEF Match, TypeOK
    <3>2. n \in expected' => m \in list_online_markets
        BY <1>3, <3>1 DEF Match
    <3>3. trade.status = "matched" /\ trade.tokens = None /\ trade.market = m
        OBVIOUS
    <3> HIDE DEF trade
    <3> QED
        BY <2>1, <2>2, <2>4, <3>1, <3>2, <3>3 DEF Fits, list_online_markets
  <2> QED
      BY <2>2, <2>3, <2>4, <1>l
<1>4. CASE Launch
  <2>1. n \in DOMAIN trades /\ UNCHANGED <<markets, now, recent, expected>>
      BY <1>4 DEF Launch
  <2>2. CASE n \in Batch
    <3>1. trades'[n] = [trades[n] EXCEPT !.status = "launched", !.tokens = TokensOf(n)]
        BY <1>4, <2>1, <2>2 DEF Launch
    <3>2. /\ trades'[n].market = trades[n].market /\ trades'[n].tokens = TokensOf(n)
          /\ trades'[n].status = "launched"
        BY <3>1, <2>1, <1>t DEF Trade
    <3>3. trades[n].status = "matched" /\ n \in recent
        BY <2>2 DEF Batch
    <3>4. trades[n].market \in Market /\ trades[n].market # None
        BY <2>1, <1>t, MarketAssumption
    <3>5. n \in expected /\ TokensOf(n) = None => now >= markets[trades[n].market].down_at
        BY <3>3, <3>4, <2>1, <1>f, <1>m, <1>n DEF Fits, TokensOf, list_online_markets
    <3>6. TokensOf(n) \in {trades[n].market, None}
        BY DEF TokensOf
    <3> QED
        BY <2>1, <3>2, <3>3, <3>5, <3>6 DEF Fits
  <2>3. CASE n \notin Batch
    <3>1. trades'[n] = trades[n]
        BY <1>4, <2>1, <2>3 DEF Launch
    <3> QED
        BY <2>1, <3>1, <1>f DEF Fits
  <2> QED
      BY <2>2, <2>3
<1>5. ASSUME NEW id, Confirm(id) PROVE Fits(n)'
  <2>1. n \in DOMAIN trades /\ UNCHANGED <<markets, now, recent, expected>>
      BY <1>5 DEF Confirm
  <2>2. \/ trades'[n] = trades[n]
        \/ /\ trades[n].status = "launched"
           /\ trades'[n] = [trades[n] EXCEPT !.status = "successful"]
      BY <1>5, <2>1 DEF Confirm
  <2>3. /\ trades'[n].market = trades[n].market /\ trades'[n].tokens = trades[n].tokens
        /\ \/ trades'[n].status = trades[n].status
           \/ trades[n].status = "launched" /\ trades'[n].status = "successful"
      BY <2>1, <2>2, <1>t DEF Trade
  <2> QED
      BY <2>1, <2>3, <1>f DEF Fits
<1>6. CASE cleanupTempOrders
  <2>1. UNCHANGED <<markets, now, trades, expected>>
      BY <1>6 DEF cleanupTempOrders
  <2>2. n \in recent /\ trades[n].status # "successful" => n \in recent'
      BY <1>6 DEF cleanupTempOrders, Old
  <2> QED
      BY <2>1, <2>2, <1>f DEF Fits
<1>7. CASE UNCHANGED <<markets, now, trades, recent, expected>>
    BY <1>7, <1>f DEF Fits
<1> QED
    BY <1>1, <1>2, <1>3, <1>4, <1>5, <1>6, <1>7
       DEF Next, vars, init, StartPass, Refresh

----------------------------------------------------------------------------
(* The quotations.                                                         *)

LEMMA KeptStep == MarketInv /\ [Next]_vars => Kept'
<1> SUFFICES ASSUME MarketInv, [Next]_vars, NEW n \in DOMAIN trades', n \notin recent'
             PROVE  trades'[n].at < now' - Day
    BY DEF Kept
<1>l. Len(trades) \in Nat /\ DOMAIN trades = 1 .. Len(trades)
    BY DEF MarketInv, TypeOK
<1>t. \A k \in DOMAIN trades : trades[k] \in Trade /\ trades[k].at \in Nat
  <2>1. \A k \in DOMAIN trades : trades[k] \in Trade
      BY DEF MarketInv, TypeOK
  <2> QED
      BY <2>1 DEF Trade
<1>n. now \in Nat /\ Day \in Nat
    BY TimeAssumption DEF MarketInv, TypeOK
<1>k. \A k \in DOMAIN trades : k \notin recent => trades[k].at < now - Day
    BY DEF MarketInv, Kept
<1>1. CASE UNCHANGED <<now, trades, recent>>
    BY <1>1, <1>k
<1>2. CASE Operator
    BY <1>1, <1>2 DEF Operator, market_add, market_up, market_down, Changed
<1>3. CASE Tick
  <2>1. now' = now + 1 /\ UNCHANGED <<trades, recent>>
      BY <1>3 DEF Tick
  <2>2. trades[n].at < now - Day /\ trades[n].at \in Nat
      BY <2>1, <1>k, <1>t
  <2> QED
      BY <2>1, <2>2, <1>n
<1>4. ASSUME NEW m \in Market, NEW price \in Price, NEW amount \in Amount,
             Match(m, price, amount)
      PROVE  trades'[n].at < now' - Day
  <2> DEFINE trade == [market |-> m, price |-> price, amount |-> amount, at |-> now,
                       transaction_id |-> BatchId, status |-> "matched", tokens |-> None]
  <2>1. trades' = Append(trades, trade) /\ now' = now
        /\ recent' = recent \cup {Len(trades) + 1}
      BY <1>4 DEF Match
  <2> HIDE DEF trade
  <2>2. DOMAIN trades' = 1 .. Len(trades) + 1 /\ \A k \in DOMAIN trades : trades'[k] = trades[k]
      BY <2>1, <1>l DEF MarketInv, TypeOK
  <2>3. n \in DOMAIN trades /\ n \notin recent
      BY <2>1, <2>2, <1>l
  <2> QED
      BY <2>1, <2>2, <2>3, <1>k
<1>5. CASE Launch \/ \E k \in DOMAIN trades : Confirm(trades[k].transaction_id)
  <2>1. UNCHANGED <<now, recent>> /\ n \in DOMAIN trades
      BY <1>5 DEF Launch, Confirm
  <2>2. \/ trades'[n] = trades[n]
        \/ trades'[n] = [trades[n] EXCEPT !.status = "launched", !.tokens = TokensOf(n)]
        \/ trades'[n] = [trades[n] EXCEPT !.status = "successful"]
      BY <1>5, <2>1 DEF Launch, Confirm
  <2>3. trades[n] \in Trade
      BY <2>1, <1>t
  <2>4. trades'[n].at = trades[n].at
      BY <2>2, <2>3 DEF Trade
  <2> QED
      BY <2>1, <2>4, <1>k
<1>6. CASE cleanupTempOrders
  <2>1. UNCHANGED <<now, trades>>
      BY <1>6 DEF cleanupTempOrders
  <2>2. n \in recent => now - trades[n].at > Day + 1
      BY <1>6 DEF cleanupTempOrders, Old
  <2>3. trades[n].at \in Nat /\ (n \notin recent => trades[n].at < now - Day)
      BY <2>1, <1>k, <1>t
  <2>4. n \in recent => trades[n].at < now - Day
      BY <2>2, <2>3, <1>n
  <2> QED
      BY <2>1, <2>3, <2>4
<1>7. CASE (\E done \in SUBSET Market : init(done)) \/ StartPass \/ \E m \in Market : Refresh(m)
    BY <1>1, <1>7 DEF init, StartPass, Refresh
<1>8. CASE UNCHANGED vars
    BY <1>1, <1>8 DEF vars
<1> QED
    BY <1>2, <1>3, <1>4, <1>5, <1>6, <1>7, <1>8 DEF Next

(* The trades of a day in mist_trades_tmp are all trades of the day.       *)
LEMMA TodayIs ==
    ASSUME MarketInv, NEW m \in Market
    PROVE  /\ Today[m] = {n \in DOMAIN trades : trades[n].market = m /\ trades[n].at > now - Day}
           /\ IsFiniteSet(Today[m]) /\ Today[m] \in SUBSET Nat
           /\ \A n \in Today[m] : trades[n].price \in Nat
<1>1. Len(trades) \in Nat /\ DOMAIN trades = 1 .. Len(trades) /\ recent \subseteq DOMAIN trades
    BY DEF MarketInv, TypeOK
<1>2. \A n \in DOMAIN trades : trades[n].at \in Nat /\ trades[n].price \in Nat
  <2>1. \A n \in DOMAIN trades : trades[n] \in Trade
      BY DEF MarketInv, TypeOK
  <2> QED
      BY <2>1, TradeAssumption DEF Trade
<1>3. now - Day \in Int
    BY TimeAssumption DEF MarketInv, TypeOK
<1>4. \A n \in DOMAIN trades : n \in recent \/ trades[n].at < now - Day
    BY DEF MarketInv, Kept
<1>5. \A n \in DOMAIN trades : trades[n].at > now - Day => n \in recent
    BY <1>2, <1>3, <1>4
<1>6. Today[m] = {n \in recent : trades[n].market = m /\ trades[n].at > now - Day}
    BY DEF Today
<1>7. Today[m] = {n \in DOMAIN trades : trades[n].market = m /\ trades[n].at > now - Day}
    BY <1>1, <1>5, <1>6
<1>8. IsFiniteSet(1 .. Len(trades))
    BY <1>1, FS_Interval
<1>9. Today[m] \subseteq 1 .. Len(trades)
    BY <1>1, <1>7
<1>10. IsFiniteSet(Today[m])
    BY <1>8, <1>9, FS_Subset
<1> QED
    BY <1>1, <1>2, <1>7, <1>9, <1>10

LEMMA PricesOfDay ==
    ASSUME MarketInv, NEW m \in Market, Today[m] # {}
    PROVE  LET prices == {trades[n].price : n \in Today[m]} IN
           /\ prices \in SUBSET Nat
           /\ Max(prices) \in prices /\ \A p \in prices : p <= Max(prices)
           /\ Min(prices) \in prices /\ \A p \in prices : Min(prices) <= p
<1> DEFINE day == Today[m]
           prices == {trades[n].price : n \in day}
           f == [n \in day |-> trades[n].price]
<1>1. IsFiniteSet(day) /\ day # {} /\ \A n \in day : trades[n].price \in Nat
    BY TodayIs
<1> HIDE DEF day
<1>2. prices \in SUBSET Nat /\ prices \in SUBSET Int /\ prices # {}
    BY <1>1
<1>3. f \in Surjection(day, prices)
    BY DEF Surjection
<1> HIDE DEF f, prices
<1>4. IsFiniteSet(prices)
    BY <1>1, <1>3, FS_Surjection
<1>5. Max(prices) \in prices /\ \A p \in prices : p <= Max(prices)
    BY <1>2, <1>4, MaxOf
<1>6. Min(prices) \in prices /\ \A p \in prices : Min(prices) <= p
    BY <1>2, MinOf
<1> QED
    BY <1>2, <1>5, <1>6 DEF prices, day

(* The price of a token in CNYC is a number.                               *)
LEMMA TokenPrice ==
    ASSUME MarketInv, NEW symbol
    PROVE  get_token_price2pi(trades, Today, symbol) \in Nat
<1> DEFINE m == <<symbol, "CNYC">>
           day == Today[m]
<1>1. DOMAIN Today = Market
    BY DEF Today
<1>2. CASE symbol = "CNYC"
    BY <1>2 DEF get_token_price2pi
<1>3. CASE symbol # "CNYC" /\ (m \notin DOMAIN Today \/ day = {})
    BY <1>3 DEF get_token_price2pi, get_market_current_price
<1>4. CASE symbol # "CNYC" /\ m \in DOMAIN Today /\ day # {}
  <2>1. get_token_price2pi(trades, Today, symbol) = trades[Max(day)].price
      BY <1>4 DEF get_token_price2pi, get_market_current_price
  <2>2. /\ IsFiniteSet(day) /\ day \in SUBSET Nat /\ day \in SUBSET Int /\ day # {}
        /\ \A n \in day : trades[n].price \in Nat
      BY <1>1, <1>4, TodayIs
  <2> HIDE DEF day
  <2>3. Max(day) \in day
      BY <2>2, MaxOf
  <2> QED
      BY <2>1, <2>2, <2>3
<1> QED
    BY <1>2, <1>3, <1>4

LEMMA QuotationTells ==
    ASSUME MarketInv, NEW m \in Market
    PROVE  Tells(getMarketQuotation(trades, Today, m), m)
<1> DEFINE day == Today[m]
           quotation == getMarketQuotation(trades, Today, m)
           quote == get_token_price2pi(trades, Today, m[2])
           base == get_token_price2pi(trades, Today, m[1])
           prices == {trades[n].price : n \in day}
           first == CHOOSE n \in day : \A k \in day : n <= k
           last == CHOOSE n \in day : \A k \in day : n >= k
<1>1. day = {n \in DOMAIN trades : trades[n].market = m /\ trades[n].at > now - Day}
    BY TodayIs
<1>2. Tells(quotation, m) <=>
         IF day = {} THEN quotation = NoQuotation
         ELSE /\ quotation.price = trades[last].price
              /\ quotation.ratio
                    = <<trades[last].price - trades[first].price, trades[first].price>>
              /\ quotation.volume = Sum([n \in day |-> trades[n].amount])
              /\ quotation.maxprice > 0 =>
                   /\ \A n \in day : trades[n].price \in quotation.minprice .. quotation.maxprice
                   /\ {quotation.minprice, quotation.maxprice} \subseteq prices
    BY <1>1 DEF Tells
<1>3. CASE day = {}
  <2>1. quotation = NoQuotation
      BY <1>3 DEF getMarketQuotation
  <2> QED
      BY <1>2, <1>3, <2>1
<1>4. CASE day # {}
  <2>1. Max(day) = last /\ Min(day) = first
      BY DEF Max, Min
  <2> DEFINE result == get_market_quotations(trades, Today, m)
             price == [NoQuotation EXCEPT !.price = result.price, !.ratio = result.ratio,
                                          !.volume = result.volume]
             highest == get_market_max_price(trades, Today, m)[1]
             lowest == get_market_min_price(trades, Today, m)[1]
  <2>2. /\ result.price = trades[last].price
        /\ result.ratio = <<trades[last].price - trades[first].price, trades[first].price>>
        /\ result.volume = Sum([n \in day |-> trades[n].amount])
      BY <2>1 DEF get_market_quotations
  <2>3. highest = Max(prices) /\ lowest = Min(prices)
      BY <1>4 DEF get_market_max_price, get_market_min_price
  <2>4. quote \in Nat
      BY TokenPrice
  <2>5. /\ quote = 0 => quotation = price
        /\ quote > 0 => quotation =
              [price EXCEPT !.CNYC_price = base, !.maxprice = highest, !.minprice = lowest,
                            !.min_CNYC_price = lowest * quote, !.max_CNYC_price = highest * quote]
    <3> HIDE DEF price, highest, lowest, quote, base
    <3>1. ~ (quote = 0 /\ quote > 0)
        BY <2>4
    <3> QED
        BY <1>4, <3>1 DEF getMarketQuotation, price, highest, lowest, quote, base
  <2> HIDE DEF result, highest, lowest, quote, base, day, first, last
  <2>6. /\ price.price = result.price /\ price.ratio = result.ratio
        /\ price.volume = result.volume /\ price.maxprice = 0
      BY DEF NoQuotation
  <2>7. /\ quotation.price = result.price /\ quotation.ratio = result.ratio
        /\ quotation.volume = result.volume
        /\ \/ quotation.maxprice = 0
           \/ quotation.maxprice = highest /\ quotation.minprice = lowest
    <3>1. quote = 0 \/ quote > 0
        BY <2>4
    <3> HIDE DEF quotation
    <3> QED
        BY <2>5, <2>6, <3>1 DEF NoQuotation
  <2>8. /\ prices \in SUBSET Nat
        /\ highest \in prices /\ \A p \in prices : p <= highest
        /\ lowest \in prices /\ \A p \in prices : lowest <= p
      BY <1>4, <2>3, PricesOfDay DEF day
  <2> HIDE DEF quotation, price
  <2>9. quotation.maxprice > 0 =>
           /\ \A n \in day : trades[n].price \in quotation.minprice .. quotation.maxprice
           /\ {quotation.minprice, quotation.maxprice} \subseteq prices
    <3>1. ~ (0 > 0)
        OBVIOUS
    <3>2. \A n \in day : trades[n].price \in prices
        OBVIOUS
    <3> HIDE DEF prices
    <3>3. \A n \in day : trades[n].price \in lowest .. highest
      <4>1. \A p \in prices : p \in lowest .. highest
          BY <2>8
      <4> QED
          BY <3>2, <4>1
    <3> QED
        BY <2>7, <2>8, <3>1, <3>3
  <2>10. Tells(quotation, m)
      BY <1>2, <1>4, <2>2, <2>7, <2>9
  <2> QED
      BY <2>10 DEF quotation
<1> QED
    BY <1>3, <1>4

(* Only data_process writes quotations.                                    *)
LEMMA QuoteStep ==
    ASSUME MarketInv, [Next]_vars, NEW m \in DOMAIN quotations',
           m \notin DOMAIN quotations \/ quotations'[m] # quotations[m]
    PROVE  Tells(quotations'[m], m)
<1>1. ~ UNCHANGED quotations
    OBVIOUS
<1>2. (\E done \in SUBSET Market : init(done)) \/ \E k \in Market : Refresh(k)
    BY <1>1 DEF Next, vars, Operator, market_add, market_up, market_down, Changed, Tick, Match,
                Launch, Confirm, cleanupTempOrders, StartPass
<1>3. m \in Market /\ quotations'[m] = getMarketQuotation(trades, Today, m)
  <2>1. ASSUME NEW done \in SUBSET Market, init(done)
        PROVE  m \in Market /\ quotations'[m] = getMarketQuotation(trades, Today, m)
      BY <2>1 DEF init
  <2>2. ASSUME NEW k \in Market, Refresh(k)
        PROVE  m \in Market /\ quotations'[m] = getMarketQuotation(trades, Today, m)
    <3>1. quotations' = [j \in DOMAIN quotations |->
                           IF j = k THEN getMarketQuotation(trades, Today, k) ELSE quotations[j]]
        BY <2>2 DEF Refresh, update_market_quotation
    <3>2. m = k
        BY <3>1
    <3> QED
        BY <3>1, <3>2
  <2> QED
      BY <1>2, <2>1, <2>2
<1> QED
    BY <1>3, QuotationTells

----------------------------------------------------------------------------
(* The theorems.                                                           *)

LEMMA MarketInvariant == Spec => []MarketInv
<1>1. MarketInv /\ [Next]_vars => MarketInv'
  <2> SUFFICES ASSUME MarketInv, [Next]_vars PROVE MarketInv'
      OBVIOUS
  <2>1. TypeOK' /\ IdsBounded'
      BY NextType DEF MarketInv
  <2>2. FlagInv'
      BY FlagStep
  <2>3. \A n \in DOMAIN trades' : Fits(n)'
      BY FitsStep
  <2>4. Came' /\ CallsFit'
    <3>1. expected' \subseteq DOMAIN trades'
        BY <2>1 DEF TypeOK
    <3> QED
        BY <2>3, <3>1 DEF Fits, Came, CallsFit
  <2>5. Kept'
      BY KeptStep
  <2> QED
      BY <2>1, <2>2, <2>4, <2>5 DEF MarketInv
<1> QED
    BY <1>1, MarketInit, PTL DEF Spec

(* Every reachable state of the markets, their trades and quotations has   *)
(* its type.                                                               *)
THEOREM TypeCorrect == Spec => []TypeOK
<1>1. MarketInv => TypeOK
    BY DEF MarketInv
<1> QED
    BY <1>1, MarketInvariant, PTL

(* A trade is called with its own tokens, and left out only when its       *)
(* market was not on the list; and it stays in reach until it is settled.  *)
THEOREM CallsAlwaysFit == Spec => []CallsFit
<1>1. MarketInv => CallsFit
    BY DEF MarketInv
<1> QED
    BY <1>1, MarketInvariant, PTL

(* Whatever data_process writes of a market is true of all trades of the   *)
(* last 24 hours, although it reads them from a table that is cleaned up:  *)
(* getMarketQuotation and cleanupTempOrders.                               *)
THEOREM QuotesAlwaysTrue == Spec => QuotesTrue
<1>1. MarketInv /\ [Next]_vars =>
         [\A m \in DOMAIN quotations' :
            m \notin DOMAIN quotations \/ quotations'[m] # quotations[m]
               => Tells(quotations'[m], m)]_vars
    BY QuoteStep
<1> QED
    BY <1>1, MarketInvariant, PTL DEF Spec, QuotesTrue

(* The flag the engine goes by agrees with the times the launcher goes by. *)
THEOREM FlagAlwaysFollows == Spec => []FlagFollowsTimes
<1>1. MarketInv => FlagFollowsTimes
    BY FlagIsEnough DEF MarketInv
<1> QED
    BY <1>1, MarketInvariant, PTL

=============================================================================
