----------------------------- MODULE Settlement -----------------------------
(***************************************************************************)
(* From a match to its settlement.  Three processes share the trades       *)
(* table: the engine (src/src/adex/api/engine.ts, call_asimov) gives each  *)
(* trade the transaction_id of a batch and inserts it in the transaction   *)
(* of its order; the launcher (src/src/adex_laucher/index.ts) sends the    *)
(* batch with the lowest id to the chain, moves the local books and        *)
(* records the hash; the watcher (src/src/adex_watcher/index.ts) reads the *)
(* receipt and confirms the orders, unfreezing in redis trade by trade.    *)
(*                                                                         *)
(* The chain is what the launcher and the watcher see of it: a transaction *)
(* that was sent may be mined, successfully or not, or never.              *)
(*                                                                         *)
(* mist_trades and mist_trades_tmp are one table here; each statement that *)
(* writes both is one step.                                                *)
(***************************************************************************)
EXTENDS Integers, Sequences, FiniteSets

CONSTANTS
    TradeId,        \* the trades the engine can make
    Offline,        \* those on a market that is not online when launched
    BatchSize,      \* trades per batch (100)
    CheckTimes,     \* times the watcher looks for a receipt again (60)
    MaxSends,       \* bound: transactions sent
    MaxFailures     \* bound: crashes, refused and lost calls, database errors

ASSUME SettlementAssumption ==
    /\ IsFiniteSet(TradeId) /\ Offline \subseteq TradeId
    /\ BatchSize \in Nat \ {0} /\ CheckTimes \in Nat
    /\ MaxSends \in Nat /\ MaxFailures \in Nat

VARIABLES
    row,            \* the trades table
    open,           \* the batch of each trade in the engine's open transaction
    last,           \* what list_all_trades returned to the engine
    lpc,            \* where the launcher is
    cur,            \* its tmpTransactionId
    batch,          \* its tx_trades: the trades it has read for cur
    hash,           \* the transaction it has sent for them
    sent,           \* the trades in each transaction sent so far
    pool,           \* transactions on their way
    mined,          \* transactions mined, the contract having succeeded
    reverted,       \* transactions mined, the contract having failed
    transactions,   \* table mist_transactions
    wpc,            \* where the watcher is
    tx,             \* the transaction it works on
    tries,          \* its getReceiptTimes
    seen,           \* the number of trades it has read for tx
    outcome,        \* the status and contract_status it is about to write
    todo,           \* trades of tx it has not unfrozen yet
    moved,          \* times a trade was applied to the local books
    unfrozen,       \* times a trade was taken from the freezes
    confirmed,      \* times a trade was confirmed in its orders
    closed,         \* ids of the batches the launcher has read
    late,           \* a trade was committed into one of those
    failures        \* failures so far

engine == <<open, last>>
launcher == <<lpc, cur, batch, hash>>
chain == <<sent, pool, mined, reverted>>
watcher == <<wpc, tx, tries, seen, outcome, todo>>
counts == <<moved, unfrozen, confirmed>>
vars == <<row, open, last, lpc, cur, batch, hash, sent, pool, mined, reverted,
          transactions, wpc, tx, tries, seen, outcome, todo, moved, unfrozen,
          confirmed, closed, late, failures>>

----------------------------------------------------------------------------
(* The tables.                                                             *)

Null == -1

Unread == -2

Hash == 1 .. MaxSends

TradeStatus == {"none", "matched", "pending", "successful", "failed"}

(* A row of the trades table; "none" is the status of a trade with no row. *)
TradeRow == [txid : Nat, status : TradeStatus, hash : Hash \cup {Null}]

NoTrade == [txid |-> 0, status |-> "none", hash |-> Null]

TxStatus == {"pending", "successful", "failed"}

Transaction == [id : Nat, hash : Hash, status : TxStatus, contract : TxStatus]

Committed == {t \in TradeId : row[t].status # "none"}

TradesOf(id) == {t \in Committed : row[t].txid = id}

Opened == {t \in TradeId : open[t] # Null}

(* UPDATE of all the trades of a batch.                                    *)
launch_update_trades(id, h) ==
    row' = [t \in TradeId |->
              IF t \in TradesOf(id) THEN [txid |-> id, status |-> "pending", hash |-> h]
              ELSE row[t]]

update_trades(id, status) ==
    row' = [t \in TradeId |->
              IF t \in TradesOf(id) THEN [row[t] EXCEPT !.status = status] ELSE row[t]]

(* The batches with trades to launch, or to launch again.                  *)
Mut_Waiting ==
    {row[t].txid : t \in {u \in Committed : row[u].status \in {"pending", "matched"}}}

Waiting ==
    {row[t].txid : t \in {u \in Committed : /\ row[u].status \in {"pending", "matched"}
                                            /\ row[u].hash = Null}}

Pending == {r \in transactions : r.status = "pending"}

TypeOK ==
    /\ row \in [TradeId -> TradeRow]
    /\ open \in [TradeId -> Nat \cup {Null}]
    /\ last \in Nat \cup {Null, Unread}
    /\ lpc \in {"idle", "marked", "collected", "verify", "book", "record", "giveup"}
    /\ cur \in Nat /\ batch \subseteq TradeId /\ hash \in Hash \cup {Null}
    /\ lpc \in {"verify", "book", "record"} => hash \in Hash
    /\ sent \in Seq(SUBSET TradeId) /\ Len(sent) <= MaxSends
    /\ pool \subseteq Hash /\ mined \subseteq Hash /\ reverted \subseteq Hash
    /\ transactions \subseteq Transaction
    /\ wpc \in {"idle", "receipt", "trades"}
    /\ tx \in Transaction \cup {<<>>} /\ (wpc # "idle" => tx \in Transaction)
    /\ tries \in 0 .. CheckTimes + 1
    /\ seen \in Nat /\ outcome \in TxStatus \X TxStatus /\ todo \subseteq TradeId
    /\ moved \in [TradeId -> Nat] /\ unfrozen \in [TradeId -> Nat]
    /\ confirmed \in [TradeId -> Nat]
    /\ closed \subseteq Nat /\ late \in BOOLEAN /\ failures \in 0 .. MaxFailures

NoOutcome == <<"pending", "pending">>

NoCount == [t \in TradeId |-> 0]

Init ==
    /\ row = [t \in TradeId |-> NoTrade]
    /\ open = [t \in TradeId |-> Null] /\ last = Unread
    /\ lpc = "idle" /\ cur = 0 /\ batch = {} /\ hash = Null
    /\ sent = <<>> /\ pool = {} /\ mined = {} /\ reverted = {}
    /\ transactions = {}
    /\ wpc = "idle" /\ tx = <<>> /\ tries = 0 /\ seen = 0
    /\ outcome = NoOutcome /\ todo = {}
    /\ moved = NoCount /\ unfrozen = NoCount /\ confirmed = NoCount
    /\ closed = {} /\ late = FALSE /\ failures = 0

Fail ==
    /\ failures < MaxFailures
    /\ failures' = failures + 1

----------------------------------------------------------------------------
(* The engine: call_asimov, once for each round of an order's matching.    *)

(* list_all_trades: the greatest id among the trades that are not matched. *)
ReadLast ==
    /\ last = Unread
    /\ \E t \in TradeId : row[t].status = "none" /\ open[t] = Null
    /\ LET ids == {row[t].txid : t \in {u \in Committed : row[u].status # "matched"}} IN
       IF ids = {} THEN last' = Null
       ELSE \E n \in ids : (\A k \in ids : k <= n) /\ last' = n
    /\ UNCHANGED <<row, open, launcher, chain, transactions, watcher, counts, closed,
                   late, failures>>

(* list_matched_trades, which sees the transaction's own trades, and       *)
(* insert_trades of the round.                                             *)
BatchId(matched) == IF last = Null THEN 0 ELSE last + matched \div BatchSize + 1

InsertTrades(round) ==
    /\ last # Unread
    /\ round # {} /\ Cardinality(round) <= BatchSize
    /\ \A t \in round : row[t].status = "none" /\ open[t] = Null
    /\ LET matched == {u \in Committed : row[u].status = "matched"} \cup Opened IN
       open' = [t \in TradeId |-> IF t \in round THEN BatchId(Cardinality(matched))
                                  ELSE open[t]]
    /\ last' = Unread
    /\ UNCHANGED <<row, launcher, chain, transactions, watcher, counts, closed, late,
                   failures>>

CommitTrades ==
    /\ last = Unread
    /\ Opened # {}
    /\ row' = [t \in TradeId |->
                 IF t \in Opened
                 THEN [txid |-> open[t], status |-> "matched", hash |-> Null]
                 ELSE row[t]]
    /\ open' = [t \in TradeId |-> Null]
    /\ late' = (late \/ \E t \in Opened : open[t] \in closed)
    /\ UNCHANGED <<last, launcher, chain, transactions, watcher, counts, closed,
                   failures>>

(* The engine dies, or one of its calls fails: rollback.                   *)
RollbackTrades ==
    /\ last # Unread \/ Opened # {}
    /\ Fail
    /\ open' = [t \in TradeId |-> Null] /\ last' = Unread
    /\ UNCHANGED <<row, launcher, chain, transactions, watcher, counts, closed, late>>

----------------------------------------------------------------------------
(* The launcher.                                                           *)

(* A statement that updates the trades of id waits for the rows the        *)
(* watcher has updated in its transaction.                                 *)
Unlocked(id) == wpc = "trades" => tx.id # id

Rest ==
    /\ lpc' = "idle" /\ cur' = 0 /\ batch' = {} /\ hash' = Null

(* mainLoop: get_laucher_trades and the update that closes the batch to    *)
(* the engine.                                                             *)
Mark ==
    /\ lpc = "idle"
    /\ \E n \in Waiting : (\A k \in Waiting : n <= k) /\ cur' = n
    /\ Unlocked(cur')
    /\ launch_update_trades(cur', Null)
    /\ lpc' = "marked"
    /\ UNCHANGED <<engine, batch, hash, chain, transactions, watcher, counts, closed,
                   late, failures>>

(* doLaunch, half a second later: transactions_trades.                     *)
Collect ==
    /\ lpc = "marked"
    /\ batch' = TradesOf(cur)
    /\ closed' = closed \cup {cur}
    /\ lpc' = "collected"
    /\ UNCHANGED <<row, engine, cur, hash, chain, transactions, watcher, counts, late,
                   failures>>

(* matchorder is called for the trades of markets that are online.         *)
Send(next) ==
    /\ lpc = "collected"
    /\ Len(sent) < MaxSends
    /\ sent' = Append(sent, batch \ Offline)
    /\ hash' = Len(sent) + 1
    /\ lpc' = next
    /\ UNCHANGED <<row, engine, cur, batch, mined, reverted, transactions, watcher,
                   counts, closed, late>>

SendAccepted ==
    /\ Send("book")
    /\ pool' = pool \cup {hash'}
    /\ UNCHANGED failures

(* The call times out: the transaction may have got through or not.        *)
SendTimesOut ==
    /\ Send("verify")
    /\ Fail
    /\ pool' \in {pool, pool \cup {hash'}}

(* The node refuses it, or the answer is lost.                             *)
SendFails ==
    /\ Send("giveup")
    /\ Fail
    /\ pool' \in {pool, pool \cup {hash'}}

(* verifyLocalTXid: found, or not found in 20 tries although it may be     *)
(* there.                                                                  *)
Mut_Verify ==
    /\ lpc = "verify"
    /\ lpc' = "book"
    /\ UNCHANGED <<row, engine, cur, batch, hash, chain, transactions, watcher, counts,
                   closed, late, failures>>

Verify ==
    /\ lpc = "verify"
    /\ \/ hash \in pool \cup mined \cup reverted /\ lpc' = "book"
       \/ lpc' = "giveup"
    /\ UNCHANGED <<row, engine, cur, batch, hash, chain, transactions, watcher, counts,
                   closed, late, failures>>

(* updateLocalBook, for every trade of the batch.                          *)
MoveBooks ==
    /\ lpc = "book"
    /\ moved' = [t \in TradeId |-> IF t \in batch THEN moved[t] + 1 ELSE moved[t]]
    /\ lpc' = "record"
    /\ UNCHANGED <<row, engine, cur, batch, hash, chain, transactions, watcher,
                   unfrozen, confirmed, closed, late, failures>>

NewTransaction ==
    [id |-> cur, hash |-> hash, status |-> "pending", contract |-> "pending"]

(* The rest of updateDataBase: both writes, or none when the id already    *)
(* has a row in mist_transactions.                                         *)
Mut_Record ==
    /\ lpc = "record"
    /\ Unlocked(cur)
    /\ transactions' = {r \in transactions : r.id # cur}
                          \cup {NewTransaction}
    /\ launch_update_trades(cur, hash)
    /\ Rest
    /\ UNCHANGED <<engine, chain, watcher, counts, closed, late, failures>>

Record ==
    /\ lpc = "record"
    /\ Unlocked(cur)
    /\ IF \E r \in transactions : r.id = cur
       THEN UNCHANGED <<row, transactions>>
       ELSE /\ transactions' = transactions \cup {NewTransaction}
            /\ launch_update_trades(cur, hash)
    /\ Rest
    /\ UNCHANGED <<engine, chain, watcher, counts, closed, late, failures>>

(* The batch is left to be launched again.                                 *)
GiveUp ==
    /\ lpc = "giveup"
    /\ Unlocked(cur)
    /\ launch_update_trades(cur, Null)
    /\ Rest
    /\ UNCHANGED <<engine, chain, transactions, watcher, counts, closed, late, failures>>

(* The launcher dies or a call fails, possibly half way through the books. *)
LauncherFails ==
    /\ lpc # "idle"
    /\ Fail
    /\ \E part \in SUBSET batch :
          /\ lpc # "book" => part = {}
          /\ moved' = [t \in TradeId |-> IF t \in part THEN moved[t] + 1 ELSE moved[t]]
    /\ Rest
    /\ UNCHANGED <<row, engine, chain, transactions, watcher, unfrozen, confirmed,
                   closed, late>>

----------------------------------------------------------------------------
(* The chain.                                                              *)

Mine(h) ==
    /\ h \in pool
    /\ pool' = pool \ {h}
    /\ \/ mined' = mined \cup {h} /\ UNCHANGED reverted
       \/ reverted' = reverted \cup {h} /\ UNCHANGED mined
    /\ UNCHANGED <<row, engine, launcher, sent, transactions, watcher, counts, closed,
                   late, failures>>

----------------------------------------------------------------------------
(* The watcher.                                                            *)

(* loop: the oldest pending transaction, and get_trades.                   *)
PickTransaction ==
    /\ wpc = "idle"
    /\ \E r \in Pending : (\A q \in Pending : r.hash <= q.hash) /\ tx' = r
    /\ seen' = Cardinality(TradesOf(tx'.id))
    /\ wpc' = "receipt"
    /\ UNCHANGED <<row, engine, launcher, chain, transactions, tries, outcome, todo,
                   counts, closed, late, failures>>

Forget == wpc' = "idle" /\ tx' = <<>> /\ seen' = 0 /\ outcome' = NoOutcome /\ todo' = {}

(* get_receipt_log has no receipt yet, or the call fails.                  *)
ReceiptError ==
    /\ wpc = "receipt"
    /\ IF tx.hash \in mined \cup reverted THEN Fail ELSE UNCHANGED failures

(* Look again later.                                                       *)
Mut_NoReceiptForever ==
    /\ ReceiptError
    /\ tries' = tries + 1
    /\ Forget
    /\ UNCHANGED <<row, engine, launcher, chain, transactions, counts, closed, late>>

Mut_NoReceipt ==
    /\ ReceiptError
    /\ tries <= CheckTimes
    /\ Forget
    /\ UNCHANGED <<row, engine, launcher, chain, transactions, tries, counts, closed,
                   late>>

NoReceipt ==
    /\ ReceiptError
    /\ tries <= CheckTimes
    /\ tries' = tries + 1
    /\ Forget
    /\ UNCHANGED <<row, engine, launcher, chain, transactions, counts, closed, late>>

(* A receipt, or too many tries: updateDB begins.  What it writes to the   *)
(* tables is seen by others when it commits.                               *)
StartUpdate(status, contract) ==
    /\ wpc = "receipt"
    /\ outcome' = <<status, contract>>
    /\ tries' = 0
    /\ todo' = TradesOf(tx.id)
    /\ wpc' = "trades"
    /\ UNCHANGED <<row, engine, launcher, chain, transactions, tx, seen, counts, closed,
                   late>>

(* The contract writes four logs for each trade, or none.  Whatever it     *)
(* did, the status is successful.                                          *)
Receipt ==
    LET logs == IF tx.hash \in mined THEN 4 * Cardinality(sent[tx.hash]) ELSE 0 IN
    /\ wpc = "receipt"
    /\ tx.hash \in mined \cup reverted
    /\ UNCHANGED failures
    /\ StartUpdate("successful", IF logs = 4 * seen THEN "successful" ELSE "failed")

Mut_GiveUpReceipt ==
    /\ ReceiptError
    /\ tries > CheckTimes
    /\ StartUpdate("successful", "successful")

GiveUpReceipt ==
    /\ ReceiptError
    /\ tries > CheckTimes
    /\ StartUpdate("failed", "successful")

(* updateFreeze of one trade, in redis.                                    *)
Unfreeze(t) ==
    /\ wpc = "trades"
    /\ t \in todo
    /\ todo' = todo \ {t}
    /\ unfrozen' = [unfrozen EXCEPT ![t] = @ + 1]
    /\ UNCHANGED <<row, engine, launcher, chain, transactions, wpc, tx, tries, seen,
                   outcome, moved, confirmed, closed, late, failures>>

(* The transaction, the status of its trades and the confirmed amounts of  *)
(* their orders are committed together.                                    *)
Mut_CommitEarly ==
    /\ wpc = "trades"
    /\ transactions' = (transactions \ {tx}) \cup
          {[tx EXCEPT !.status = outcome[1], !.contract = outcome[2]]}
    /\ update_trades(tx.id, outcome[1])
    /\ confirmed' = [t \in TradeId |-> IF t \in TradesOf(tx.id) THEN confirmed[t] + 1
                                                               ELSE confirmed[t]]
    /\ Forget
    /\ UNCHANGED <<engine, launcher, chain, tries, moved, unfrozen, closed, late,
                   failures>>

CommitOutcome ==
    /\ wpc = "trades" /\ todo = {}
    /\ transactions' = (transactions \ {tx}) \cup
          {[tx EXCEPT !.status = outcome[1], !.contract = outcome[2]]}
    /\ update_trades(tx.id, outcome[1])
    /\ confirmed' = [t \in TradeId |-> IF t \in TradesOf(tx.id) THEN confirmed[t] + 1
                                                               ELSE confirmed[t]]
    /\ Forget
    /\ UNCHANGED <<engine, launcher, chain, tries, moved, unfrozen, closed, late,
                   failures>>

(* The watcher dies or a call fails: the database is rolled back, redis is *)
(* not.                                                                    *)
WatcherFails ==
    /\ wpc # "idle"
    /\ Fail
    /\ tries' \in {0, tries}
    /\ Forget
    /\ UNCHANGED <<row, engine, launcher, chain, transactions, counts, closed, late>>

----------------------------------------------------------------------------

Engine ==
    \/ ReadLast \/ CommitTrades
    \/ \E round \in SUBSET TradeId : InsertTrades(round)

Launcher ==
    \/ Mark \/ Collect \/ SendAccepted \/ Verify \/ MoveBooks \/ Record \/ GiveUp

Watcher ==
    \/ PickTransaction \/ NoReceipt \/ Receipt \/ GiveUpReceipt \/ CommitOutcome
    \/ \E t \in TradeId : Unfreeze(t)

Failures ==
    RollbackTrades \/ SendTimesOut \/ SendFails \/ LauncherFails \/ WatcherFails

Next ==
    \/ Engine \/ Launcher \/ Watcher \/ Failures
    \/ \E h \in Hash : Mine(h)

Spec == Init /\ [][Next]_vars

(* The launcher and the watcher are endless loops that pm2 restarts.       *)
(* Nothing makes the engine trade or the chain mine a transaction.         *)
FairSpec ==
    /\ Spec
    /\ WF_vars(Launcher)
    /\ WF_vars(Watcher)

----------------------------------------------------------------------------
(* Properties.                                                             *)

Final(t) == row[t].status \in {"successful", "failed"}

(* The transactions that can have settled t.                               *)
Carriers(t) ==
    {h \in DOMAIN sent : t \in sent[h] /\ h \in pool \cup mined \cup reverted}

(* A trade is confirmed in its orders at most once, whatever fails, and    *)
(* also when a batch is launched again: mist_transactions has one row for  *)
(* a batch, and the watcher handles a row once.                            *)
ConfirmedOnce == \A t \in TradeId : confirmed[t] <= 1

(* A trade is sent to the chain once.  Only a failure makes the launcher   *)
(* send it again, once for each, unless the engine has committed into a    *)
(* batch that was already read.                                            *)
SentOnce ==
    ~ late => \A t \in TradeId : Cardinality(Carriers(t)) <= 1 + failures

(* The local books do not run ahead of the chain: a trade is applied to    *)
(* them no more often than it was sent.                                    *)
BooksFollowChain ==
    \A t \in TradeId \ Offline : moved[t] <= Cardinality(Carriers(t))

(* Each call is counted: chain and books take a trade once for each time   *)
(* it had to be sent.                                                      *)
CallsCounted == SentOnce /\ BooksFollowChain

(* What the watcher has unfrozen in redis is what it has confirmed in the  *)
(* tables, up to the transaction it works on and to what it had unfrozen   *)
(* when a failure rolled the tables back.                                  *)
UnfrozenIsConfirmed ==
    \A t \in TradeId :
        LET now == IF wpc = "trades" /\ t \in TradesOf(tx.id) \ todo THEN 1 ELSE 0 IN
        /\ ~ late => confirmed[t] + now <= unfrozen[t]
        /\ unfrozen[t] <= confirmed[t] + now + failures

(* A trade marked successful is in the transaction whose hash it shows,    *)
(* and that transaction was mined; contract_status tells whether the       *)
(* contract succeeded.                                                     *)
SuccessfulIsMined ==
    \A t \in TradeId \ Offline :
        ~ late /\ row[t].status = "successful" =>
            /\ row[t].hash \in mined \cup reverted
            /\ t \in sent[row[t].hash]
            /\ \E r \in transactions :
                  /\ r.id = row[t].txid /\ r.hash = row[t].hash
                  /\ r.contract = "successful" => r.hash \in mined

(* A settled trade stays settled.                                          *)
FinalStays ==
    [][\A t \in TradeId : Final(t) => row'[t] = row[t] \/ late']_vars

(* Every trade of the table is settled or marked failed in the end.        *)
TradesSettle ==
    \A t \in TradeId : t \in Committed ~> Final(t) \/ late

(* The comment in mainLoop: once the launcher has marked a batch, the      *)
(* engine puts no more trades into it.                                     *)
BatchClosed ==
    [][\A t \in TradeId :
          t \in Committed' \ Committed => lpc = "idle" \/ row'[t].txid # cur]_vars

============================================================================
