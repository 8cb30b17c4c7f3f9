-------------------------- MODULE SettlementProofs --------------------------
(***************************************************************************)
(* Theorems about module Settlement, for every set of trades, every batch  *)
(* size and every number of failures.                                      *)
(***************************************************************************)
EXTENDS Settlement, FiniteSetTheorems, TLAPS

----------------------------------------------------------------------------
(* The inductive invariant.                                                *)

(* A batch has one row in mist_transactions; the watcher works on a        *)
(* pending one and remembers it as it is in the table.                     *)
TxInv ==
    /\ \A r, q \in transactions : r.id = q.id => r = q
    /\ wpc # "idle" => tx \in transactions /\ tx.status = "pending"
    /\ wpc = "trades" => outcome[1] # "pending" /\ todo \subseteq TradesOf(tx.id)
    /\ \A t \in TradeId : open[t] # Null => row[t].status = "none"

(* A trade is confirmed when its transaction is no longer pending.         *)
ConfirmInv ==
    \A t \in TradeId :
        /\ confirmed[t] \in {0, 1}
        /\ confirmed[t] = 1 \/ Final(t) =>
              /\ row[t].status # "none"
              /\ \E r \in transactions : r.id = row[t].txid /\ r.status # "pending"

(* No batch is empty, and what was sent has a place in sent.               *)
BatchInv ==
    /\ lpc # "idle" => TradesOf(cur) # {}
    /\ lpc \in {"verify", "book", "record"} => hash \in 1 .. Len(sent)
    /\ \A r \in transactions : r.hash \in 1 .. Len(sent) /\ TradesOf(r.id) # {}
    /\ wpc # "idle" => seen > 0

(* What a status says about the chain.                                     *)
OnChain(h, status, contract) ==
    status = "successful" =>
        /\ h \in mined \cup reverted
        /\ contract = "successful" => h \in mined

MinedInv ==
    /\ \A r \in transactions : OnChain(r.hash, r.status, r.contract)
    /\ wpc = "trades" => OnChain(tx.hash, outcome[1], outcome[2])

(* Once read, a batch keeps its trades, and they show what its transaction *)
(* shows.                                                                  *)
ClosedTx(r) ==
    /\ r.id \in closed
    /\ sent[r.hash] = TradesOf(r.id) \ Offline
    /\ \A t \in TradesOf(r.id) : row[t].hash = r.hash /\ row[t].status = r.status

ClosedInv ==
    ~ late =>
        /\ lpc # "idle" => \A r \in transactions : r.id # cur
        /\ lpc \in {"collected", "verify", "book", "record"} =>
              cur \in closed /\ batch = TradesOf(cur)
        /\ lpc \in {"verify", "book", "record"} => sent[hash] = batch \ Offline
        /\ \A r \in transactions : ClosedTx(r)

OnTheWay(h) == h \in pool \cup mined \cup reverted

(* The launcher has sent t and is about to apply it to the books.          *)
Applying(t) ==
    t \in batch /\ (lpc = "book" \/ (lpc = "verify" /\ OnTheWay(hash)))

(* What t has been sent for is, or will be, in mist_transactions.          *)
HasRow(t) == \E r \in transactions : t \in TradesOf(r.id)

Launched(t) == HasRow(t) \/ (t \in batch /\ lpc \in {"book", "record"})

BooksInv ==
    \A t \in TradeId \ Offline :
        moved[t] + (IF Applying(t) THEN 1 ELSE 0) <= Cardinality(Carriers(t))

SendsInv ==
    ~ late =>
        \A t \in TradeId :
            Cardinality(Carriers(t)) <= failures + (IF Launched(t) THEN 1 ELSE 0)

SettlementInv ==
    /\ TypeOK /\ TxInv /\ ConfirmInv /\ BatchInv /\ MinedInv /\ ClosedInv
    /\ UnfrozenIsConfirmed /\ BooksInv /\ SendsInv

----------------------------------------------------------------------------
(* Updates of the trades table.                                            *)

(* A step that changes neither the trades that exist nor their batches.    *)
KeepsTrades ==
    \A t \in TradeId :
        /\ row'[t].txid = row[t].txid
        /\ row'[t].status = "none" <=> row[t].status = "none"

LEMMA KeepsTradesOf ==
    ASSUME KeepsTrades
    PROVE  \A id : {t \in Committed' : row'[t].txid = id} = TradesOf(id)
  BY DEF KeepsTrades, TradesOf, Committed

LEMMA LaunchUpdate ==
    ASSUME TypeOK, NEW id \in Nat, NEW h \in Hash \cup {Null}, launch_update_trades(id, h)
    PROVE  row' \in [TradeId -> TradeRow] /\ KeepsTrades
<1>1. [txid |-> id, status |-> "pending", hash |-> h] \in TradeRow
    BY DEF TradeRow, TradeStatus
<1> QED
    BY <1>1 DEF TypeOK, launch_update_trades, KeepsTrades, TradesOf, Committed, TradeRow

LEMMA UpdateTrades ==
    ASSUME TypeOK, NEW id, NEW status \in TxStatus, update_trades(id, status)
    PROVE  row' \in [TradeId -> TradeRow] /\ KeepsTrades
<1>1. status \in TradeStatus /\ status # "none"
    BY DEF TradeStatus, TxStatus
<1>2. ASSUME NEW t \in TradeId
      PROVE  /\ row'[t] \in TradeRow /\ row'[t].txid = row[t].txid
             /\ row'[t].status = "none" <=> row[t].status = "none"
  <2>1. row[t] \in TradeRow /\ (t \in TradesOf(id) => row[t].status # "none")
      BY DEF TypeOK, TradesOf, Committed
  <2>2. row'[t] = IF t \in TradesOf(id) THEN [row[t] EXCEPT !.status = status] ELSE row[t]
      BY DEF update_trades
  <2> QED
      BY <1>1, <2>1, <2>2 DEF TradeRow
<1>3. row' \in [TradeId -> TradeRow]
    BY <1>2 DEF update_trades
<1> QED
    BY <1>2, <1>3 DEF KeepsTrades

LEMMA FiniteTrades ==
    ASSUME NEW S \in SUBSET TradeId
    PROVE  /\ Cardinality(S) \in Nat
           /\ S # {} => Cardinality(S) > 0
<1>1. IsFiniteSet(S)
    BY SettlementAssumption, FS_Subset
<1>2. Cardinality(S) \in Nat /\ (Cardinality(S) = 0 <=> S = {})
    BY <1>1, FS_CardinalityType, FS_EmptySet
<1> QED
    BY <1>2

----------------------------------------------------------------------------
(* Type correctness.                                                       *)

LEMMA InitType == Init => TypeOK
<1> SUFFICES ASSUME Init PROVE TypeOK
    OBVIOUS
<1>1. row \in [TradeId -> TradeRow]
    BY DEF Init, NoTrade, TradeRow, TradeStatus
<1>2. sent \in Seq(SUBSET TradeId) /\ Len(sent) <= MaxSends
    BY SettlementAssumption DEF Init
<1>3. tx \in Transaction \cup {<<>>} /\ (wpc # "idle" => tx \in Transaction)
    BY DEF Init
<1>4. outcome \in TxStatus \X TxStatus
    BY DEF Init, NoOutcome, TxStatus
<1>5. /\ moved \in [TradeId -> Nat] /\ unfrozen \in [TradeId -> Nat]
      /\ confirmed \in [TradeId -> Nat]
    BY DEF Init, NoCount
<1>6. failures \in 0 .. MaxFailures /\ tries \in 0 .. CheckTimes + 1
    BY SettlementAssumption DEF Init
<1> QED
    BY <1>1, <1>2, <1>3, <1>4, <1>5, <1>6 DEF Init, TypeOK

LEMMA TransactionType ==
    ASSUME TypeOK, NEW r \in Transaction, NEW s \in TxStatus, NEW c \in TxStatus
    PROVE  [r EXCEPT !.status = s, !.contract = c] \in Transaction
  BY DEF Transaction

LEMMA EngineType == TypeOK /\ (Engine \/ RollbackTrades) => TypeOK'
<1> SUFFICES ASSUME TypeOK, Engine \/ RollbackTrades PROVE TypeOK'
    OBVIOUS
<1>1. CASE ReadLast
  <2>1. last' \in Nat \cup {Null, Unread}
    BY <1>1 DEF ReadLast, TypeOK, Committed, TradeRow
  <2> QED
    BY <1>1, <2>1 DEF ReadLast, TypeOK, launcher, chain, watcher, counts
<1>2. ASSUME NEW round \in SUBSET TradeId, InsertTrades(round) PROVE TypeOK'
  <2> DEFINE matched == {u \in Committed : row[u].status = "matched"} \cup Opened
  <2>1. Cardinality(matched) \in Nat
    BY FiniteTrades DEF Committed, Opened
  <2>d. \A n \in Nat : n \div BatchSize \in Nat
    BY SettlementAssumption
  <2>l. last = Null \/ last \in Nat
    BY <1>2 DEF InsertTrades, TypeOK
  <2>2. BatchId(Cardinality(matched)) \in Nat
    BY <2>1, <2>d, <2>l DEF BatchId
  <2>3. open' \in [TradeId -> Nat \cup {Null}]
    BY <1>2, <2>2 DEF InsertTrades, TypeOK
  <2> QED
    BY <1>2, <2>3 DEF InsertTrades, TypeOK, launcher, chain, watcher, counts
<1>3. CASE CommitTrades
  <2>1. row' \in [TradeId -> TradeRow]
    BY <1>3 DEF CommitTrades, TypeOK, Opened, TradeRow, TradeStatus
  <2> QED
    BY <1>3, <2>1 DEF CommitTrades, TypeOK, launcher, chain, watcher, counts
<1>4. CASE RollbackTrades
    BY <1>4, SettlementAssumption
    DEF RollbackTrades, Fail, TypeOK, launcher, chain, watcher, counts
<1> QED
    BY <1>1, <1>2, <1>3, <1>4 DEF Engine

LEMMA LauncherType == TypeOK /\ (Launcher \/ SendTimesOut \/ SendFails \/ LauncherFails)
                        => TypeOK'
<1> SUFFICES ASSUME TypeOK, Launcher \/ SendTimesOut \/ SendFails \/ LauncherFails
             PROVE  TypeOK'
    OBVIOUS
<1> USE DEF engine, watcher
<1>s. ASSUME NEW next \in {"book", "verify", "giveup"}, Send(next)
      PROVE  /\ sent' \in Seq(SUBSET TradeId) /\ Len(sent') <= MaxSends
             /\ hash' \in Hash
             /\ pool \cup {hash'} \subseteq Hash
  <2>1. batch \ Offline \in SUBSET TradeId
    BY DEF TypeOK
  <2>2. Len(sent) \in Nat /\ Len(sent) < MaxSends
    BY <1>s DEF Send, TypeOK
  <2>3. sent' \in Seq(SUBSET TradeId) /\ Len(sent') = Len(sent) + 1
    BY <1>s, <2>1 DEF Send, TypeOK
  <2>4. hash' \in Hash
    BY <1>s, <2>2, SettlementAssumption DEF Send, Hash
  <2> QED
    BY <2>2, <2>3, <2>4, SettlementAssumption DEF TypeOK
<1>1. CASE Mark
  <2>1. cur' \in Nat
    BY <1>1 DEF Mark, Waiting, Committed, TypeOK, TradeRow
  <2>2. row' \in [TradeId -> TradeRow]
    BY <1>1, <2>1, LaunchUpdate DEF Mark
  <2> QED
    BY <1>1, <2>1, <2>2 DEF Mark, TypeOK, chain, counts
<1>2. CASE Collect
    BY <1>2 DEF Collect, TypeOK, chain, counts, TradesOf, Committed
<1>3. CASE SendAccepted
    BY <1>3, <1>s DEF SendAccepted, Send, TypeOK, counts
<1>4. CASE SendTimesOut
    BY <1>4, <1>s, SettlementAssumption DEF SendTimesOut, Send, Fail, TypeOK, counts
<1>5. CASE SendFails
    BY <1>5, <1>s, SettlementAssumption DEF SendFails, Send, Fail, TypeOK, counts
<1>6. CASE Verify
    BY <1>6 DEF Verify, TypeOK, chain, counts
<1>7. CASE MoveBooks
    BY <1>7 DEF MoveBooks, TypeOK, chain
<1>8. CASE Record
  <2>1. CASE \E r \in transactions : r.id = cur
    BY <1>8, <2>1 DEF Record, Rest, TypeOK, chain, counts
  <2>2. CASE ~ \E r \in transactions : r.id = cur
    <3>1. hash \in Hash
      BY <1>8 DEF Record, TypeOK
    <3>2. NewTransaction \in Transaction
      BY <3>1 DEF NewTransaction, Transaction, TxStatus, TypeOK
    <3>3. row' \in [TradeId -> TradeRow]
      BY <1>8, <2>2, LaunchUpdate DEF Record, TypeOK
    <3> QED
      BY <1>8, <2>2, <3>2, <3>3 DEF Record, Rest, TypeOK, chain, counts
  <2> QED
    BY <2>1, <2>2
<1>9. CASE GiveUp
  <2>1. row' \in [TradeId -> TradeRow]
    BY <1>9, LaunchUpdate DEF GiveUp, TypeOK
  <2> QED
    BY <1>9, <2>1 DEF GiveUp, Rest, TypeOK, chain, counts
<1>10. CASE LauncherFails
    BY <1>10, SettlementAssumption DEF LauncherFails, Rest, Fail, TypeOK, chain
<1> QED
    BY <1>1, <1>2, <1>3, <1>4, <1>5, <1>6, <1>7, <1>8, <1>9, <1>10 DEF Launcher

LEMMA WatcherType ==
    TypeOK /\ (Watcher \/ WatcherFails \/ \E h \in Hash : Mine(h)) => TypeOK'
<1> SUFFICES ASSUME TypeOK, Watcher \/ WatcherFails \/ \E h \in Hash : Mine(h)
             PROVE  TypeOK'
    OBVIOUS
<1> USE DEF engine, launcher
<1>f. ASSUME ReceiptError
      PROVE  wpc = "receipt" /\ failures' \in 0 .. MaxFailures
    BY <1>f, SettlementAssumption DEF ReceiptError, Fail, TypeOK
<1>o. NoOutcome \in TxStatus \X TxStatus
    BY DEF NoOutcome, TxStatus
<1>s. ASSUME NEW status \in TxStatus, NEW contract \in TxStatus,
             StartUpdate(status, contract), failures' \in 0 .. MaxFailures
      PROVE  TypeOK'
  <2>1. outcome' \in TxStatus \X TxStatus /\ todo' \subseteq TradeId
    BY <1>s DEF StartUpdate, TradesOf, Committed
  <2> QED
    BY <1>s, <2>1, SettlementAssumption DEF StartUpdate, TypeOK, chain, counts
<1>1. CASE PickTransaction
  <2>1. tx' \in Transaction
    BY <1>1 DEF PickTransaction, Pending, TypeOK
  <2>2. seen' \in Nat
    BY <1>1, FiniteTrades DEF PickTransaction, TradesOf, Committed
  <2> QED
    BY <1>1, <2>1, <2>2 DEF PickTransaction, TypeOK, chain, counts
<1>2. CASE NoReceipt
    BY <1>2, <1>f, <1>o, SettlementAssumption DEF NoReceipt, Forget, TypeOK, chain, counts
<1>3. CASE Receipt
    BY <1>3, <1>s DEF Receipt, TypeOK, TxStatus
<1>4. CASE GiveUpReceipt
    BY <1>4, <1>f, <1>s DEF GiveUpReceipt, TxStatus
<1>5. ASSUME NEW t \in TradeId, Unfreeze(t) PROVE TypeOK'
    BY <1>5 DEF Unfreeze, TypeOK, chain
<1>6. CASE CommitOutcome
  <2>1. outcome[1] \in TxStatus /\ outcome[2] \in TxStatus /\ tx \in Transaction
    BY <1>6 DEF CommitOutcome, TypeOK
  <2>i. [tx EXCEPT !.status = outcome[1], !.contract = outcome[2]] \in Transaction
    BY <2>1, TransactionType
  <2>2. transactions' \subseteq Transaction
    BY <1>6, <2>i DEF CommitOutcome, TypeOK
  <2>3. row' \in [TradeId -> TradeRow]
    BY <1>6, <2>1, UpdateTrades DEF CommitOutcome
  <2> QED
    BY <1>6, <2>2, <2>3, <1>o DEF CommitOutcome, Forget, TypeOK, chain
<1>7. CASE WatcherFails
    BY <1>7, <1>o, SettlementAssumption DEF WatcherFails, Forget, Fail, TypeOK, chain, counts
<1>8. ASSUME NEW h \in Hash, Mine(h) PROVE TypeOK'
    BY <1>8 DEF Mine, TypeOK, watcher, counts
<1> QED
    BY <1>1, <1>2, <1>3, <1>4, <1>5, <1>6, <1>7, <1>8 DEF Watcher

LEMMA NextType == TypeOK /\ [Next]_vars => TypeOK'
<1>1. CASE UNCHANGED vars
    BY <1>1 DEF vars, TypeOK
<1> QED
    BY <1>1, EngineType, LauncherType, WatcherType DEF Next, Failures

(* Every reachable state has its type.                                     *)
THEOREM TypeCorrect == Spec => []TypeOK
  BY InitType, NextType, PTL DEF Spec

----------------------------------------------------------------------------
(* What a step does to the trades and to the transactions.                 *)

LEMMA RowsStep ==
    ASSUME TypeOK, [Next]_vars, ~ CommitTrades
    PROVE  KeepsTrades
<1>0. CASE row' = row
    BY <1>0 DEF KeepsTrades
<1>1. CASE Mark
  <2>1. cur' \in Nat
    BY <1>1 DEF Mark, Waiting, Committed, TypeOK, TradeRow
  <2> QED
    BY <1>1, <2>1, LaunchUpdate DEF Mark
<1>2. CASE Record /\ row' # row
    BY <1>2, LaunchUpdate DEF Record, TypeOK
<1>3. CASE GiveUp
    BY <1>3, LaunchUpdate DEF GiveUp, TypeOK
<1>4. CASE CommitOutcome
    BY <1>4, UpdateTrades DEF CommitOutcome, TypeOK
<1> QED
    BY <1>0, <1>1, <1>2, <1>3, <1>4
    DEF Next, Engine, Launcher, Watcher, Failures, vars, ReadLast, InsertTrades, Collect,
        SendAccepted, SendTimesOut, SendFails, Send, Verify, MoveBooks, PickTransaction,
        NoReceipt, Receipt, GiveUpReceipt, StartUpdate, Unfreeze, RollbackTrades,
        LauncherFails, WatcherFails, Mine

(* Only the watcher makes a trade final.                                   *)
LEMMA NewStatus ==
    ASSUME TypeOK, [Next]_vars, ~ CommitOutcome, NEW t \in TradeId
    PROVE  row'[t] = row[t] \/ row'[t].status \in {"pending", "matched"}
<1>u. ASSUME NEW id, NEW h, launch_update_trades(id, h)
      PROVE  row'[t] = row[t] \/ row'[t].status = "pending"
    BY <1>u DEF launch_update_trades
<1>1. CASE Mark
    BY <1>1, <1>u DEF Mark
<1>2. CASE Record
    BY <1>2, <1>u DEF Record
<1>3. CASE GiveUp
    BY <1>3, <1>u DEF GiveUp
<1>4. CASE CommitTrades
    BY <1>4 DEF CommitTrades
<1>5. CASE ~ (Mark \/ Record \/ GiveUp \/ CommitTrades)
    BY <1>5
    DEF Next, Engine, Launcher, Watcher, Failures, vars, ReadLast, InsertTrades, Collect,
        SendAccepted, SendTimesOut, SendFails, Send, Verify, MoveBooks, PickTransaction,
        NoReceipt, Receipt, GiveUpReceipt, StartUpdate, Unfreeze, RollbackTrades,
        LauncherFails, WatcherFails, Mine
<1> QED
    BY <1>1, <1>2, <1>3, <1>4, <1>5

(* No trade is ever lost.                                                  *)
LEMMA TradesStay ==
    ASSUME TypeOK, TxInv, [Next]_vars, NEW t \in TradeId, row[t].status # "none"
    PROVE  row'[t].status # "none" /\ row'[t].txid = row[t].txid
<1>1. CASE CommitTrades
    BY <1>1 DEF CommitTrades, Opened, TxInv, TypeOK
<1>2. CASE ~ CommitTrades
    BY <1>2, RowsStep DEF KeepsTrades
<1> QED
    BY <1>1, <1>2

LEMMA BatchesStay ==
    ASSUME TypeOK, TxInv, [Next]_vars, NEW id, TradesOf(id) # {}
    PROVE  {t \in Committed' : row'[t].txid = id} # {}
<1>1. PICK t \in TradeId : row[t].status # "none" /\ row[t].txid = id
    BY DEF TradesOf, Committed
<1> QED
    BY <1>1, TradesStay DEF Committed

(* The steps that change the transactions or what the watcher works on.    *)
LEMMA TransactionSteps ==
    ASSUME [Next]_vars
    PROVE  \/ Record \/ PickTransaction \/ Receipt \/ GiveUpReceipt \/ CommitOutcome
           \/ transactions' = transactions /\ wpc' = "idle"
           \/ UNCHANGED <<transactions, wpc, tx, seen, outcome>>
  BY DEF Next, Engine, Launcher, Watcher, Failures, vars, watcher, ReadLast, InsertTrades,
         CommitTrades, Mark, Collect, SendAccepted, SendTimesOut, SendFails, Send, Verify,
         MoveBooks, GiveUp, Unfreeze, RollbackTrades, LauncherFails, WatcherFails, Mine,
         NoReceipt, Forget

Settled == [tx EXCEPT !.status = outcome[1], !.contract = outcome[2]]

LEMMA SettledTx ==
    ASSUME TypeOK, wpc # "idle"
    PROVE  /\ Settled \in Transaction
           /\ Settled.id = tx.id /\ Settled.hash = tx.hash
           /\ Settled.status = outcome[1] /\ Settled.contract = outcome[2]
<1>1. tx \in Transaction /\ outcome[1] \in TxStatus /\ outcome[2] \in TxStatus
    BY DEF TypeOK
<1> QED
    BY <1>1 DEF Settled, Transaction

LEMMA NewTx ==
    /\ NewTransaction.id = cur /\ NewTransaction.hash = hash
    /\ NewTransaction.status = "pending"
  BY DEF NewTransaction

(* What was sent and what was mined stays so.                              *)
LEMMA SentStep ==
    ASSUME [Next]_vars
    PROVE  sent' = sent \/ sent' = Append(sent, batch \ Offline)
  BY DEF Next, Engine, Launcher, Watcher, Failures, vars, chain, ReadLast, InsertTrades,
         CommitTrades, RollbackTrades, Mark, Collect, SendAccepted, SendTimesOut,
         SendFails, Send, Verify, MoveBooks, Record, GiveUp, LauncherFails,
         PickTransaction, NoReceipt, Receipt, GiveUpReceipt, StartUpdate, Unfreeze,
         CommitOutcome, WatcherFails, Mine

LEMMA ChainStep ==
    ASSUME [Next]_vars
    PROVE  mined \subseteq mined' /\ reverted \subseteq reverted'
  BY DEF Next, Engine, Launcher, Watcher, Failures, vars, chain, ReadLast, InsertTrades,
         CommitTrades, RollbackTrades, Mark, Collect, SendAccepted, SendTimesOut,
         SendFails, Send, Verify, MoveBooks, Record, GiveUp, LauncherFails,
         PickTransaction, NoReceipt, Receipt, GiveUpReceipt, StartUpdate, Unfreeze,
         CommitOutcome, WatcherFails, Mine

----------------------------------------------------------------------------
(* The invariant.                                                          *)

LEMMA TxStep == TypeOK /\ TxInv /\ [Next]_vars => TxInv'
<1> SUFFICES ASSUME TypeOK, TxInv, [Next]_vars PROVE TxInv'
    OBVIOUS
<1>o. ASSUME NEW t \in TradeId, open'[t] # Null PROVE row'[t].status = "none"
  <2>1. CASE CommitTrades
    BY <1>o, <2>1 DEF CommitTrades
  <2>2. CASE ~ CommitTrades /\ open[t] # Null
    BY <2>2, RowsStep DEF KeepsTrades, TxInv
  <2>3. CASE ~ CommitTrades /\ open[t] = Null
    <3>1. PICK round \in SUBSET TradeId : InsertTrades(round)
      BY <1>o, <2>3
      DEF Next, Engine, Launcher, Watcher, Failures, vars, engine, ReadLast,
          RollbackTrades, Mark, Collect, SendAccepted, SendTimesOut, SendFails, Send,
          Verify, MoveBooks, Record, GiveUp, LauncherFails, PickTransaction, NoReceipt,
          Receipt, GiveUpReceipt, StartUpdate, Unfreeze, CommitOutcome, WatcherFails, Mine
    <3> QED
      BY <1>o, <2>3, <3>1 DEF InsertTrades, TypeOK
  <2> QED
    BY <2>1, <2>2, <2>3
<1>d. wpc' = "trades" => todo' \subseteq TradesOf(tx.id)'
  <2> SUFFICES ASSUME wpc' = "trades", NEW t \in todo'
               PROVE  t \in TradeId /\ row'[t].status # "none" /\ row'[t].txid = tx'.id
    BY DEF TradesOf, Committed
  <2>1. CASE Receipt \/ GiveUpReceipt
    BY <2>1 DEF Receipt, GiveUpReceipt, StartUpdate, TradesOf, Committed
  <2>2. CASE wpc = "trades" /\ tx' = tx /\ todo' \subseteq todo
    <3>1. t \in TradeId /\ row[t].status # "none" /\ row[t].txid = tx.id
      BY <2>2 DEF TxInv, TradesOf, Committed
    <3> QED
      BY <2>2, <3>1, TradesStay
  <2> QED
    BY <2>1, <2>2
    DEF Next, Engine, Launcher, Watcher, Failures, vars, watcher, ReadLast, InsertTrades,
        CommitTrades, RollbackTrades, Mark, Collect, SendAccepted, SendTimesOut,
        SendFails, Send, Verify, MoveBooks, Record, GiveUp, LauncherFails,
        PickTransaction, NoReceipt, Forget, Unfreeze, CommitOutcome, WatcherFails, Mine
<1>1. CASE Record
  <2>1. transactions' = transactions \/
          (/\ transactions' = transactions \cup {NewTransaction}
           /\ \A r \in transactions : r.id # cur)
    BY <1>1 DEF Record
  <2>2. wpc' = wpc /\ tx' = tx /\ outcome' = outcome
    BY <1>1 DEF Record, watcher
  <2> QED
    BY <1>o, <1>d, <2>1, <2>2, NewTx DEF TxInv
<1>2. CASE PickTransaction
    BY <1>o, <1>d, <1>2 DEF PickTransaction, Pending, TxInv
<1>3. CASE Receipt
    BY <1>o, <1>d, <1>3 DEF Receipt, StartUpdate, TxInv
<1>4. CASE GiveUpReceipt
    BY <1>o, <1>d, <1>4 DEF GiveUpReceipt, StartUpdate, TxInv
<1>5. CASE CommitOutcome
  <2>1. /\ transactions' = (transactions \ {tx}) \cup {Settled} /\ wpc' = "idle"
        /\ tx \in transactions /\ Settled.id = tx.id
    BY <1>5, SettledTx DEF CommitOutcome, Settled, Forget, TxInv
  <2> QED
    BY <1>o, <1>d, <2>1 DEF TxInv
<1>6. CASE transactions' = transactions /\ wpc' = "idle"
    BY <1>o, <1>d, <1>6 DEF TxInv
<1>7. CASE UNCHANGED <<transactions, wpc, tx, seen, outcome>>
    BY <1>o, <1>d, <1>7 DEF TxInv
<1> QED
    BY <1>1, <1>2, <1>3, <1>4, <1>5, <1>6, <1>7, TransactionSteps

LEMMA ConfirmStep == TypeOK /\ TxInv /\ ConfirmInv /\ [Next]_vars => ConfirmInv'
<1> SUFFICES ASSUME TypeOK, TxInv, ConfirmInv, [Next]_vars PROVE ConfirmInv'
    OBVIOUS
<1>t. ASSUME NEW t \in TradeId, row[t].status # "none"
      PROVE  row'[t].status # "none" /\ row'[t].txid = row[t].txid
    BY <1>t, TradesStay
<1>r. ASSUME ~ CommitOutcome, NEW r \in transactions, r.status # "pending"
      PROVE  r \in transactions'
    BY <1>r, TransactionSteps DEF Record, PickTransaction, Receipt, GiveUpReceipt, StartUpdate
<1>c. ~ CommitOutcome => confirmed' = confirmed
    BY DEF Next, Engine, Launcher, Watcher, Failures, vars, counts, ReadLast, InsertTrades,
           CommitTrades, RollbackTrades, Mark, Collect, SendAccepted, SendTimesOut,
           SendFails, Send, Verify, MoveBooks, Record, GiveUp, LauncherFails,
           PickTransaction, NoReceipt, Receipt, GiveUpReceipt, StartUpdate, Unfreeze,
           WatcherFails, Mine
<1>1. CASE CommitOutcome
  <2>1. /\ transactions' = (transactions \ {tx}) \cup {Settled}
        /\ Settled.id = tx.id /\ Settled.status # "pending"
        /\ tx \in transactions /\ tx.status = "pending"
    BY <1>1, SettledTx DEF CommitOutcome, Settled, TxInv
  <2> SUFFICES ASSUME NEW t \in TradeId
               PROVE  /\ confirmed'[t] \in {0, 1}
                      /\ confirmed'[t] = 1 \/ Final(t)' =>
                            /\ row'[t].status # "none"
                            /\ \E r \in transactions' :
                                  r.id = row'[t].txid /\ r.status # "pending"
    BY DEF ConfirmInv
  <2>2. CASE t \in TradesOf(tx.id)
    <3>1. row[t].status # "none" /\ row[t].txid = tx.id
      BY <2>2 DEF TradesOf, Committed
    <3>2. confirmed[t] = 0
      BY <2>1, <3>1 DEF ConfirmInv, TxInv
    <3>3. confirmed'[t] = 1
      BY <1>1, <2>2, <3>2 DEF CommitOutcome
    <3> QED
      BY <1>t, <2>1, <3>1, <3>3
  <2>3. CASE t \notin TradesOf(tx.id)
    <3>1. confirmed'[t] = confirmed[t] /\ row'[t] = row[t]
      BY <1>1, <2>3 DEF CommitOutcome, update_trades
    <3>2. CASE confirmed[t] = 1 \/ Final(t)
      <4>1. PICK r \in transactions : r.id = row[t].txid /\ r.status # "pending"
        BY <3>2 DEF ConfirmInv
      <4> QED
        BY <2>1, <3>1, <3>2, <4>1 DEF ConfirmInv
    <3>3. CASE ~ (confirmed[t] = 1 \/ Final(t))
      BY <3>1, <3>3 DEF ConfirmInv, Final
    <3> QED
      BY <3>2, <3>3
  <2> QED
    BY <2>2, <2>3
<1>2. CASE ~ CommitOutcome
  <2>1. ASSUME NEW t \in TradeId, Final(t)' PROVE Final(t)
    BY <1>2, <2>1, NewStatus DEF Final
  <2> QED
    BY <1>2, <1>t, <1>r, <1>c, <2>1 DEF ConfirmInv
<1> QED
    BY <1>1, <1>2

LEMMA BatchStep == TypeOK /\ TxInv /\ BatchInv /\ [Next]_vars => BatchInv'
<1> SUFFICES ASSUME TypeOK, TxInv, BatchInv, [Next]_vars PROVE BatchInv'
    OBVIOUS
<1>c. lpc' # "idle" => TradesOf(cur)' # {}
  <2>1. CASE Mark
    <3>1. TradesOf(cur') # {}
      BY <2>1 DEF Mark, Waiting, TradesOf
    <3> QED
      BY <3>1, BatchesStay DEF TradesOf
  <2>2. CASE lpc # "idle" /\ cur' = cur
    BY <2>2, BatchesStay DEF BatchInv, TradesOf
  <2> QED
    BY <2>1, <2>2
    DEF Next, Engine, Launcher, Watcher, Failures, vars, launcher, ReadLast, InsertTrades,
        CommitTrades, RollbackTrades, Collect, SendAccepted, SendTimesOut, SendFails,
        Send, Verify, MoveBooks, Record, GiveUp, LauncherFails, Rest, PickTransaction,
        NoReceipt, Receipt, GiveUpReceipt, StartUpdate, Unfreeze, CommitOutcome,
        WatcherFails, Mine
<1>s. Len(sent) \in Nat /\ Len(sent') >= Len(sent)
  <2>1. CASE sent' = Append(sent, batch \ Offline)
    BY <2>1 DEF TypeOK
  <2>2. CASE sent' = sent
    BY <2>2 DEF TypeOK
  <2> QED
    BY <2>1, <2>2, SentStep
<1>h. lpc' \in {"verify", "book", "record"} => hash' \in 1 .. Len(sent')
  <2>1. ASSUME NEW next, Send(next) PROVE hash' \in 1 .. Len(sent')
    BY <2>1 DEF Send, TypeOK
  <2>2. CASE SendAccepted \/ SendTimesOut \/ SendFails
    BY <2>1, <2>2 DEF SendAccepted, SendTimesOut, SendFails
  <2>3. CASE lpc \in {"verify", "book", "record"} /\ hash' = hash
    BY <1>s, <2>3 DEF BatchInv
  <2> QED
    BY <2>2, <2>3
    DEF Next, Engine, Launcher, Watcher, Failures, vars, launcher, ReadLast, InsertTrades,
        CommitTrades, RollbackTrades, Mark, Collect, Verify, MoveBooks, Record, GiveUp,
        LauncherFails, Rest, PickTransaction, NoReceipt, Receipt, GiveUpReceipt,
        StartUpdate, Unfreeze, CommitOutcome, WatcherFails, Mine
<1>r. ASSUME NEW r \in transactions'
      PROVE  r.hash \in 1 .. Len(sent') /\ TradesOf(r.id)' # {}
  <2>1. ASSUME NEW q \in transactions, r.id = q.id, r.hash = q.hash
        PROVE  r.hash \in 1 .. Len(sent') /\ TradesOf(r.id)' # {}
    <3>1. q.hash \in 1 .. Len(sent) /\ TradesOf(q.id) # {}
      BY DEF BatchInv
    <3>2. {t \in Committed' : row'[t].txid = q.id} # {}
      BY <3>1, BatchesStay
    <3> QED
      BY <1>s, <2>1, <3>1, <3>2 DEF TradesOf
  <2>2. CASE r \in transactions
    BY <2>1, <2>2
  <2>3. CASE Record /\ r = NewTransaction
    <3>1. r.id = cur /\ r.hash = hash /\ lpc = "record"
      BY <2>3, NewTx DEF Record
    <3>2. hash \in 1 .. Len(sent) /\ TradesOf(cur) # {}
      BY <3>1 DEF BatchInv
    <3>3. {t \in Committed' : row'[t].txid = cur} # {}
      BY <3>2, BatchesStay
    <3> QED
      BY <1>s, <3>1, <3>2, <3>3 DEF TradesOf
  <2>4. CASE CommitOutcome /\ r = Settled
    BY <2>1, <2>4, SettledTx DEF CommitOutcome, TxInv
  <2> QED
    BY <2>2, <2>3, <2>4, TransactionSteps
    DEF Record, PickTransaction, Receipt, GiveUpReceipt, StartUpdate, CommitOutcome,
        Settled
<1>w. wpc' # "idle" => seen' > 0
  <2>1. CASE PickTransaction
    <3>1. PICK r \in transactions : tx' = r /\ seen' = Cardinality(TradesOf(r.id))
      BY <2>1 DEF PickTransaction, Pending
    <3>2. TradesOf(r.id) # {} /\ TradesOf(r.id) \subseteq TradeId
      BY DEF BatchInv, TradesOf, Committed
    <3> QED
      BY <3>1, <3>2, FiniteTrades
  <2>2. CASE Receipt \/ GiveUpReceipt
    BY <2>2 DEF Receipt, GiveUpReceipt, StartUpdate, BatchInv
  <2> QED
    BY <2>1, <2>2, TransactionSteps DEF Record, watcher, CommitOutcome, Forget, BatchInv
<1> QED
    BY <1>c, <1>h, <1>r, <1>w DEF BatchInv

LEMMA MinedStep == TypeOK /\ TxInv /\ BatchInv /\ MinedInv /\ [Next]_vars => MinedInv'
<1> SUFFICES ASSUME TypeOK, TxInv, BatchInv, MinedInv, [Next]_vars PROVE MinedInv'
    OBVIOUS
<1>c. ASSUME NEW h, NEW status, NEW contract, OnChain(h, status, contract)
      PROVE  OnChain(h, status, contract)'
  <2>1. mined \subseteq mined' /\ reverted \subseteq reverted'
    BY ChainStep
  <2> QED
    BY <1>c, <2>1 DEF OnChain
<1>1. CASE Record
    BY <1>1, <1>c, NewTx DEF Record, watcher, MinedInv, OnChain
<1>2. CASE PickTransaction
    BY <1>2, <1>c DEF PickTransaction, MinedInv
<1>3. CASE Receipt
  <2>1. /\ tx.hash \in mined \cup reverted
        /\ tx' = tx /\ transactions' = transactions /\ outcome'[1] = "successful"
    BY <1>3 DEF Receipt, StartUpdate
  <2>2. tx.hash \notin mined => outcome'[2] = "failed"
    <3>1. seen > 0 /\ seen \in Nat
      BY <1>3 DEF Receipt, BatchInv, TypeOK
    <3>2. 0 # 4 * seen
      BY <3>1
    <3> QED
      BY <1>3, <3>2 DEF Receipt, StartUpdate
  <2> QED
    BY <1>c, <2>1, <2>2, ChainStep DEF MinedInv, OnChain
<1>4. CASE GiveUpReceipt
    BY <1>4, <1>c DEF GiveUpReceipt, StartUpdate, MinedInv, OnChain
<1>5. CASE CommitOutcome
  <2>1. /\ transactions' = (transactions \ {tx}) \cup {Settled} /\ wpc' = "idle"
        /\ OnChain(Settled.hash, Settled.status, Settled.contract)
    BY <1>5, SettledTx DEF CommitOutcome, Settled, Forget, MinedInv
  <2> QED
    BY <1>c, <2>1 DEF MinedInv
<1>6. CASE transactions' = transactions /\ wpc' = "idle"
    BY <1>c, <1>6 DEF MinedInv
<1>7. CASE UNCHANGED <<transactions, wpc, tx, seen, outcome>>
    BY <1>c, <1>7 DEF MinedInv
<1> QED
    BY <1>1, <1>2, <1>3, <1>4, <1>5, <1>6, <1>7, TransactionSteps

LEMMA LateStep ==
    ASSUME [Next]_vars, ~ late'
    PROVE  ~ late /\ closed \subseteq closed'
           /\ (CommitTrades => \A t \in TradeId : open[t] # Null => open[t] \notin closed)
<1>1. CASE CommitTrades
  <2>1. ~ late /\ closed' = closed
    BY <1>1 DEF CommitTrades
  <2>2. \A t \in Opened : open[t] \notin closed
    BY <1>1 DEF CommitTrades
  <2> QED
    BY <2>1, <2>2 DEF Opened
<1>2. CASE ~ CommitTrades
  <2>1. late' = late /\ closed \subseteq closed'
    BY <1>2
    DEF Next, Engine, Launcher, Watcher, Failures, vars, ReadLast, InsertTrades,
        RollbackTrades, Mark, Collect, SendAccepted, SendTimesOut, SendFails, Send,
        Verify, MoveBooks, Record, GiveUp, LauncherFails, PickTransaction, NoReceipt,
        Receipt, GiveUpReceipt, StartUpdate, Unfreeze, CommitOutcome, WatcherFails, Mine
  <2> QED
    BY <1>2, <2>1
<1> QED
    BY <1>1, <1>2

(* A batch that was read gets no more trades.                              *)
LEMMA ClosedBatch ==
    ASSUME TypeOK, TxInv, [Next]_vars, ~ late', NEW id \in closed
    PROVE  {t \in Committed' : row'[t].txid = id} = TradesOf(id)
<1>1. CASE CommitTrades
  <2>1. \A t \in TradeId : open[t] = Null => row'[t] = row[t]
    BY <1>1 DEF CommitTrades, Opened
  <2>2. \A t \in TradeId : open[t] # Null => row'[t].txid # id /\ row[t].status = "none"
    BY <1>1, LateStep DEF CommitTrades, Opened, TxInv
  <2> QED
    BY <2>1, <2>2 DEF TradesOf, Committed
<1>2. CASE ~ CommitTrades
    BY <1>2, RowsStep, KeepsTradesOf
<1> QED
    BY <1>1, <1>2

LEMMA SentStays ==
    ASSUME TypeOK, [Next]_vars, NEW h \in 1 .. Len(sent)
    PROVE  sent'[h] = sent[h]
  BY SentStep DEF TypeOK

(* A batch with a transaction is not launched again.                       *)
LEMMA MarkNew ==
    ASSUME TypeOK, ClosedInv, ~ late, Mark, NEW r \in transactions
    PROVE  r.id # cur'
<1>1. ASSUME r.id = cur' PROVE FALSE
  <2>1. PICK t \in TradesOf(r.id) : row[t].hash = Null
    BY <1>1 DEF Mark, Waiting, TradesOf
  <2>2. r.hash \in Hash
    BY DEF TypeOK, Transaction
  <2>3. row[t].hash = r.hash
    BY DEF ClosedInv, ClosedTx
  <2> QED
    BY <2>1, <2>2, <2>3, SettlementAssumption DEF Hash, Null
<1> QED
    BY <1>1

(* The trades of a transaction change only with it.                        *)
LEMMA RowsOfTx ==
    ASSUME TypeOK, TxInv, [Next]_vars, NEW r, lpc # "idle" => r.id # cur,
           Mark => r.id # cur', CommitOutcome => r.id # tx.id, NEW t \in TradesOf(r.id)
    PROVE  row'[t] = row[t]
<1>1. t \in TradeId /\ row[t].status # "none" /\ row[t].txid = r.id
  BY DEF TradesOf, Committed
<1>u. ASSUME NEW id, NEW h, launch_update_trades(id, h), r.id # id
      PROVE  row'[t] = row[t]
  BY <1>1, <1>u DEF launch_update_trades, TradesOf
<1>2. CASE Mark
  BY <1>2, <1>u DEF Mark
<1>3. CASE Record
  BY <1>3, <1>u DEF Record
<1>4. CASE GiveUp
  BY <1>4, <1>u DEF GiveUp
<1>5. CASE CommitOutcome
  BY <1>1, <1>5 DEF CommitOutcome, update_trades, TradesOf
<1>6. CASE CommitTrades
  BY <1>1, <1>6 DEF CommitTrades, Opened, TxInv
<1>7. CASE ~ (Mark \/ Record \/ GiveUp \/ CommitOutcome \/ CommitTrades)
  BY <1>7
  DEF Next, Engine, Launcher, Watcher, Failures, vars, ReadLast, InsertTrades, Collect,
      SendAccepted, SendTimesOut, SendFails, Send, Verify, MoveBooks, PickTransaction,
      NoReceipt, Receipt, GiveUpReceipt, StartUpdate, Unfreeze, RollbackTrades,
      LauncherFails, WatcherFails, Mine
<1> QED
  BY <1>2, <1>3, <1>4, <1>5, <1>6, <1>7

LEMMA ClosedTxStep ==
    ASSUME TypeOK, TxInv, BatchInv, [Next]_vars, ~ late', NEW r \in transactions,
           ClosedTx(r), lpc # "idle" => r.id # cur, Mark => r.id # cur',
           CommitOutcome => r.id # tx.id
    PROVE  ClosedTx(r)'
<1>1. r.id \in closed'
    BY LateStep DEF ClosedTx
<1>2. {t \in Committed' : row'[t].txid = r.id} = TradesOf(r.id)
    BY ClosedBatch DEF ClosedTx
<1>3. sent'[r.hash] = sent[r.hash]
    BY SentStays DEF BatchInv
<1>4. \A t \in TradesOf(r.id) : row'[t] = row[t]
    BY RowsOfTx
<1> QED
    BY <1>1, <1>2, <1>3, <1>4 DEF ClosedTx, TradesOf

LEMMA ClosedStep ==
    TypeOK /\ TxInv /\ BatchInv /\ ClosedInv /\ [Next]_vars => ClosedInv'
<1> SUFFICES ASSUME TypeOK, TxInv, BatchInv, ClosedInv, [Next]_vars, ~ late'
             PROVE  /\ lpc' # "idle" => \A r \in transactions' : r.id # cur'
                    /\ lpc' \in {"collected", "verify", "book", "record"} =>
                          cur' \in closed' /\ batch' = TradesOf(cur)'
                    /\ lpc' \in {"verify", "book", "record"} =>
                          sent'[hash'] = batch' \ Offline
                    /\ \A r \in transactions' : ClosedTx(r)'
    BY DEF ClosedInv
<1>l. /\ ~ late
      /\ lpc # "idle" => \A r \in transactions : r.id # cur
      /\ \A r \in transactions : ClosedTx(r)
    BY LateStep DEF ClosedInv
<1>m. Mark => \A r \in transactions : r.id # cur'
    BY <1>l, MarkNew
<1>i. \A r \in transactions' :
         \/ r \in transactions
         \/ Record /\ r = NewTransaction
         \/ CommitOutcome /\ r = Settled
    BY TransactionSteps
    DEF Record, PickTransaction, Receipt, GiveUpReceipt, StartUpdate, CommitOutcome, Settled
<1>1. ASSUME lpc' # "idle", NEW r \in transactions' PROVE r.id # cur'
  <2>1. \E q \in transactions : r.id = q.id
    <3>1. ~ Record
      BY <1>1 DEF Record, Rest
    <3> QED
      BY <1>i, <3>1, SettledTx DEF CommitOutcome, TxInv
  <2>2. CASE lpc # "idle" /\ cur' = cur
    BY <1>l, <2>1, <2>2
  <2>3. CASE Mark
    BY <1>m, <2>1, <2>3
  <2> QED
    BY <1>1, <2>2, <2>3
    DEF Next, Engine, Launcher, Watcher, Failures, vars, launcher, ReadLast, InsertTrades,
        CommitTrades, RollbackTrades, Collect, SendAccepted, SendTimesOut, SendFails,
        Send, Verify, MoveBooks, Record, GiveUp, LauncherFails, Rest, PickTransaction,
        NoReceipt, Receipt, GiveUpReceipt, StartUpdate, Unfreeze, CommitOutcome,
        WatcherFails, Mine
<1>2. ASSUME lpc' \in {"collected", "verify", "book", "record"}
      PROVE  cur' \in closed' /\ batch' = TradesOf(cur)'
  <2>1. CASE Collect
    BY <2>1 DEF Collect, TradesOf, Committed
  <2>2. CASE /\ lpc \in {"collected", "verify", "book", "record"}
             /\ cur' = cur /\ batch' = batch
    <3>1. cur \in closed /\ batch = TradesOf(cur)
      BY <1>l, <2>2 DEF ClosedInv
    <3>2. {t \in Committed' : row'[t].txid = cur} = TradesOf(cur)
      BY <3>1, ClosedBatch
    <3> QED
      BY <2>2, <3>1, <3>2, LateStep DEF TradesOf
  <2> QED
    BY <1>2, <2>1, <2>2
    DEF Next, Engine, Launcher, Watcher, Failures, vars, launcher, ReadLast, InsertTrades,
        CommitTrades, RollbackTrades, Mark, SendAccepted, SendTimesOut, SendFails,
        Send, Verify, MoveBooks, Record, GiveUp, LauncherFails, Rest, PickTransaction,
        NoReceipt, Receipt, GiveUpReceipt, StartUpdate, Unfreeze, CommitOutcome,
        WatcherFails, Mine
<1>3. ASSUME lpc' \in {"verify", "book", "record"} PROVE sent'[hash'] = batch' \ Offline
  <2>1. ASSUME NEW next, Send(next) PROVE sent'[hash'] = batch' \ Offline
    <3>1. batch \ Offline \in SUBSET TradeId /\ Len(sent) \in Nat
      BY DEF TypeOK
    <3>2. Append(sent, batch \ Offline)[Len(sent) + 1] = batch \ Offline
      BY <3>1 DEF TypeOK
    <3> QED
      BY <2>1, <3>2 DEF Send
  <2>2. CASE SendAccepted \/ SendTimesOut \/ SendFails
    BY <2>1, <2>2 DEF SendAccepted, SendTimesOut, SendFails
  <2>3. CASE lpc \in {"verify", "book", "record"} /\ hash' = hash /\ batch' = batch
    BY <1>l, <2>3, SentStays DEF BatchInv, ClosedInv
  <2> QED
    BY <1>3, <2>2, <2>3
    DEF Next, Engine, Launcher, Watcher, Failures, vars, launcher, ReadLast, InsertTrades,
        CommitTrades, RollbackTrades, Mark, Collect, Verify, MoveBooks, Record, GiveUp,
        LauncherFails, Rest, PickTransaction, NoReceipt, Receipt, GiveUpReceipt,
        StartUpdate, Unfreeze, CommitOutcome, WatcherFails, Mine
<1>4. ASSUME NEW r \in transactions' PROVE ClosedTx(r)'
  <2>1. CASE r \in transactions /\ (CommitOutcome => r.id # tx.id)
    BY <1>l, <1>m, <2>1, ClosedTxStep
  <2>2. CASE r \in transactions /\ CommitOutcome /\ r.id = tx.id
    <3>1. r = tx /\ tx \in transactions /\ tx.status = "pending"
      BY <2>2 DEF TxInv, CommitOutcome
    <3>2. Settled.status # "pending" /\ r = Settled
      BY <2>2, <3>1, SettledTx DEF CommitOutcome, Settled, TxInv
    <3> QED
      BY <3>1, <3>2
  <2>3. CASE Record /\ r = NewTransaction /\ r \notin transactions
    <3>1. r.id = cur /\ r.hash = hash /\ r.status = "pending" /\ lpc = "record"
      BY <2>3, NewTx DEF Record
    <3>2. cur \in closed /\ batch = TradesOf(cur) /\ sent[hash] = batch \ Offline
      BY <1>l, <3>1 DEF ClosedInv
    <3>3. {t \in Committed' : row'[t].txid = cur} = TradesOf(cur)
      BY <3>2, ClosedBatch
    <3>4. sent'[hash] = sent[hash] /\ closed' = closed
      BY <2>3, <3>1, SentStays DEF BatchInv, Record
    <3>5. launch_update_trades(cur, hash)
      BY <2>3 DEF Record
    <3>6. \A t \in TradesOf(cur) : row'[t].hash = hash /\ row'[t].status = "pending"
      BY <3>5 DEF launch_update_trades, TradesOf, Committed
    <3> QED
      BY <3>1, <3>2, <3>3, <3>4, <3>6 DEF ClosedTx, TradesOf
  <2>4. CASE CommitOutcome /\ r = Settled
    <3>1. /\ r.id = tx.id /\ r.hash = tx.hash /\ r.status = outcome[1]
          /\ tx \in transactions /\ ClosedTx(tx)
      BY <1>l, <2>4, SettledTx DEF CommitOutcome, TxInv
    <3>2. {t \in Committed' : row'[t].txid = tx.id} = TradesOf(tx.id)
      BY <3>1, ClosedBatch DEF ClosedTx
    <3>3. sent'[tx.hash] = sent[tx.hash] /\ closed' = closed
      BY <2>4, <3>1, SentStays DEF BatchInv, CommitOutcome
    <3>4. \A t \in TradesOf(tx.id) : row'[t].hash = tx.hash /\ row'[t].status = outcome[1]
      BY <2>4, <3>1 DEF CommitOutcome, update_trades, TradesOf, Committed, ClosedTx, TypeOK,
         TradeRow
    <3> QED
      BY <3>1, <3>2, <3>3, <3>4 DEF ClosedTx, TradesOf
  <2> QED
    BY <1>i, <2>1, <2>2, <2>3, <2>4
<1> QED
    BY <1>1, <1>2, <1>3, <1>4

LEMMA UnfrozenStep ==
    TypeOK /\ TxInv /\ ClosedInv /\ UnfrozenIsConfirmed /\ [Next]_vars
        => UnfrozenIsConfirmed'
<1> DEFINE now(t) == IF wpc = "trades" /\ t \in TradesOf(tx.id) \ todo THEN 1 ELSE 0
           Between(t) == /\ ~ late => confirmed[t] + now(t) <= unfrozen[t]
                         /\ unfrozen[t] <= confirmed[t] + now(t) + failures
<1> SUFFICES ASSUME TypeOK, TxInv, ClosedInv, UnfrozenIsConfirmed, [Next]_vars,
                    NEW t \in TradeId
             PROVE  Between(t)'
    BY DEF UnfrozenIsConfirmed
<1>b. Between(t)
    BY DEF UnfrozenIsConfirmed
<1>n. /\ confirmed[t] \in Nat /\ unfrozen[t] \in Nat /\ failures \in Nat
      /\ now(t) \in {0, 1} /\ now(t)' \in {0, 1}
    BY SettlementAssumption DEF TypeOK
<1>l. late => late'
    BY LateStep
<1>1. CASE CommitOutcome
  <2>1. /\ late' = late /\ unfrozen' = unfrozen /\ failures' = failures /\ todo = {}
        /\ wpc = "trades" /\ wpc' = "idle"
    BY <1>1 DEF CommitOutcome, Forget
  <2>2. now(t)' = 0 /\ confirmed'[t] = confirmed[t] + now(t)
    BY <1>1, <2>1 DEF CommitOutcome, TypeOK
  <2> HIDE DEF now
  <2> QED
    BY <1>b, <1>n, <2>1, <2>2
<1>2. ASSUME NEW s \in TradeId, Unfreeze(s) PROVE Between(t)'
  <2>1. /\ late' = late /\ confirmed' = confirmed /\ failures' = failures
        /\ wpc = "trades" /\ wpc' = "trades" /\ tx' = tx /\ row' = row
        /\ todo' = todo \ {s} /\ s \in todo
    BY <1>2 DEF Unfreeze
  <2>2. TradesOf(tx.id)' = TradesOf(tx.id)
    BY <2>1 DEF TradesOf, Committed
  <2>3. s \in TradesOf(tx.id)
    BY <2>1 DEF TxInv
  <2>4. CASE t = s
    <3>1. now(t) = 0 /\ now(t)' = 1
      BY <2>1, <2>2, <2>3, <2>4
    <3>2. unfrozen'[t] = unfrozen[t] + 1
      BY <1>2, <2>4 DEF Unfreeze, TypeOK
    <3> HIDE DEF now
    <3> QED
      BY <1>b, <1>n, <2>1, <3>1, <3>2
  <2>5. CASE t # s
    <3>1. now(t)' = now(t)
      BY <2>1, <2>2, <2>5
    <3>2. unfrozen'[t] = unfrozen[t]
      BY <1>2, <2>5 DEF Unfreeze, TypeOK
    <3> HIDE DEF now
    <3> QED
      BY <1>b, <1>n, <2>1, <3>1, <3>2
  <2> QED
    BY <2>4, <2>5
<1>3. CASE Receipt \/ GiveUpReceipt
  <2>1. /\ late' = late /\ unfrozen' = unfrozen /\ confirmed' = confirmed
        /\ failures' >= failures /\ failures' \in Nat /\ wpc = "receipt"
        /\ todo' = TradesOf(tx.id) /\ tx' = tx /\ row' = row
    BY <1>3, <1>n DEF Receipt, GiveUpReceipt, ReceiptError, Fail, StartUpdate, counts
  <2>2. now(t) = 0 /\ now(t)' = 0
    BY <2>1 DEF TradesOf, Committed
  <2> HIDE DEF now
  <2> QED
    BY <1>b, <1>n, <2>1, <2>2
<1>4. CASE PickTransaction \/ NoReceipt
  <2>1. /\ late' = late /\ unfrozen' = unfrozen /\ confirmed' = confirmed
        /\ failures' >= failures /\ failures' \in Nat
        /\ wpc # "trades" /\ wpc' # "trades"
    BY <1>4, <1>n DEF PickTransaction, NoReceipt, ReceiptError, Fail, Forget, counts
  <2>2. now(t) = 0 /\ now(t)' = 0
    BY <2>1
  <2> HIDE DEF now
  <2> QED
    BY <1>b, <1>n, <2>1, <2>2
<1>5. CASE WatcherFails
  <2>1. /\ late' = late /\ unfrozen' = unfrozen /\ confirmed' = confirmed
        /\ failures' = failures + 1 /\ wpc' = "idle"
    BY <1>5 DEF WatcherFails, Fail, Forget, counts
  <2>2. now(t)' = 0
    BY <2>1
  <2> HIDE DEF now
  <2> QED
    BY <1>b, <1>n, <2>1, <2>2
<1>6. CASE /\ UNCHANGED <<wpc, tx, todo, unfrozen, confirmed>>
           /\ failures' \in Nat /\ failures' >= failures
  <2>1. now(t) <= now(t)'
    BY <1>6, TradesStay DEF TradesOf, Committed
  <2>2. ASSUME ~ late', wpc = "trades" PROVE now(t)' = now(t)
    <3>1. tx.id \in closed
      BY <2>2, LateStep DEF TxInv, ClosedInv, ClosedTx
    <3>2. {u \in Committed' : row'[u].txid = tx.id} = TradesOf(tx.id)
      BY <2>2, <3>1, ClosedBatch
    <3> QED
      BY <1>6, <3>2 DEF TradesOf
  <2>3. wpc # "trades" => now(t)' = now(t)
    BY <1>6
  <2> HIDE DEF now
  <2> QED
    BY <1>6, <1>b, <1>n, <1>l, <2>1, <2>2, <2>3
<1> QED
  <2>1. \/ CommitOutcome \/ (\E s \in TradeId : Unfreeze(s)) \/ Receipt \/ GiveUpReceipt
        \/ PickTransaction \/ NoReceipt \/ WatcherFails
        \/ /\ UNCHANGED <<wpc, tx, todo, unfrozen, confirmed>>
           /\ failures' \in Nat /\ failures' >= failures
    BY <1>n
    DEF Next, Engine, Launcher, Watcher, Failures, vars, watcher, counts, ReadLast,
        InsertTrades, CommitTrades, RollbackTrades, Mark, Collect, SendAccepted,
        SendTimesOut, SendFails, Send, Verify, MoveBooks, Record, GiveUp, LauncherFails,
        Fail, Mine
  <2> QED
    BY <1>1, <1>2, <1>3, <1>4, <1>5, <1>6, <2>1

----------------------------------------------------------------------------
(* The calls, counted.                                                     *)

Sending == SendAccepted \/ SendTimesOut \/ SendFails

(* Only a call of the contract adds a transaction, and only one.           *)
LEMMA ChainStays ==
    ASSUME [Next]_vars, ~ Sending
    PROVE  sent' = sent /\ \A h : OnTheWay(h)' <=> OnTheWay(h)
<1>1. ASSUME NEW h, Mine(h) PROVE sent' = sent /\ \A k : OnTheWay(k)' <=> OnTheWay(k)
    BY <1>1 DEF Mine, OnTheWay
<1>2. CASE UNCHANGED chain
    BY <1>2 DEF chain, OnTheWay
<1> QED
    BY <1>1, <1>2
    DEF Sending, Next, Engine, Launcher, Watcher, Failures, vars, chain, ReadLast,
        InsertTrades, CommitTrades, RollbackTrades, Mark, Collect, Verify, MoveBooks,
        Record, GiveUp, LauncherFails, PickTransaction, NoReceipt, Receipt,
        GiveUpReceipt, StartUpdate, Unfreeze, CommitOutcome, WatcherFails

LEMMA CarriersFinite ==
    ASSUME TypeOK, NEW t \in TradeId
    PROVE  IsFiniteSet(Carriers(t)) /\ Cardinality(Carriers(t)) \in Nat
<1>1. Carriers(t) \subseteq 1 .. Len(sent) /\ Len(sent) \in Nat
    BY DEF Carriers, TypeOK
<1>2. IsFiniteSet(1 .. Len(sent))
    BY <1>1, FS_Interval
<1> QED
    BY <1>1, <1>2, FS_Subset, FS_CardinalityType

LEMMA CarriersStay ==
    ASSUME [Next]_vars, ~ Sending, NEW t \in TradeId
    PROVE  Carriers(t)' = Carriers(t)
  BY ChainStays DEF Carriers, OnTheWay

LEMMA CarriersGrow ==
    ASSUME TypeOK, Sending, NEW t \in TradeId
    PROVE  /\ hash' = Len(sent) + 1
           /\ Carriers(t)' = Carriers(t) \/
              (/\ t \in batch \ Offline
               /\ Carriers(t)' = Carriers(t) \cup {hash'})
           /\ t \in batch \ Offline /\ OnTheWay(hash)'
                 => Carriers(t)' = Carriers(t) \cup {hash'}
<1>1. /\ sent' = Append(sent, batch \ Offline) /\ hash' = Len(sent) + 1
      /\ pool' \in {pool, pool \cup {hash'}} /\ mined' = mined /\ reverted' = reverted
    BY DEF Sending, SendAccepted, SendTimesOut, SendFails, Send
<1>2. Len(sent) \in Nat /\ DOMAIN sent = 1 .. Len(sent)
    BY DEF TypeOK
<1>3. batch \ Offline \in SUBSET TradeId
    BY DEF TypeOK
<1>4. /\ DOMAIN sent' = DOMAIN sent \cup {hash'} /\ hash' \notin DOMAIN sent
      /\ sent'[hash'] = batch \ Offline
      /\ \A h \in DOMAIN sent : sent'[h] = sent[h]
    BY <1>1, <1>2, <1>3 DEF TypeOK
<1>5. \A h \in DOMAIN sent : OnTheWay(h)' <=> OnTheWay(h)
    BY <1>1, <1>4 DEF OnTheWay
<1>6. Carriers(t)' = Carriers(t) \cup
         {h \in {hash'} : t \in batch \ Offline /\ OnTheWay(hash)'}
    BY <1>4, <1>5 DEF Carriers, OnTheWay
<1> QED
    BY <1>1, <1>6

(* The same in numbers.                                                    *)
LEMMA CarriersCount ==
    ASSUME TypeOK, Sending, NEW t \in TradeId
    PROVE  /\ Cardinality(Carriers(t)') \in {Cardinality(Carriers(t)),
                                             Cardinality(Carriers(t)) + 1}
           /\ t \notin batch => Cardinality(Carriers(t)') = Cardinality(Carriers(t))
           /\ t \in batch \ Offline /\ OnTheWay(hash)'
                 => Cardinality(Carriers(t)') = Cardinality(Carriers(t)) + 1
<1>1. hash' \notin Carriers(t)
  <2>1. hash' = Len(sent) + 1 /\ Len(sent) \in Nat /\ DOMAIN sent = 1 .. Len(sent)
    BY CarriersGrow DEF TypeOK
  <2> QED
    BY <2>1 DEF Carriers
<1>2. Cardinality(Carriers(t) \cup {hash'}) = Cardinality(Carriers(t)) + 1
    BY <1>1, CarriersFinite, FS_AddElement
<1> QED
    BY <1>2, CarriersGrow

(* The launcher's place, and the batch it is at.                           *)
LEMMA LauncherStep ==
    ASSUME [Next]_vars
    PROVE  \/ UNCHANGED <<lpc, batch, hash>> /\ moved' = moved /\ ~ Sending
           \/ (Mark \/ Collect \/ GiveUp) /\ moved' = moved /\ ~ Sending
                 /\ lpc' \notin {"verify", "book", "record"}
                 /\ lpc \notin {"verify", "book", "record"}
           \/ Sending \/ Verify \/ MoveBooks \/ Record \/ LauncherFails
  BY DEF Sending, Next, Engine, Launcher, Watcher, Failures, vars, launcher, counts,
         ReadLast, InsertTrades, CommitTrades, RollbackTrades, Mark, Collect,
         SendAccepted, SendTimesOut, SendFails, Send, Verify, MoveBooks, Record, GiveUp,
         LauncherFails, Rest, PickTransaction, NoReceipt, Receipt, GiveUpReceipt,
         StartUpdate, Unfreeze, CommitOutcome, WatcherFails, Mine

LEMMA BooksStep == TypeOK /\ BooksInv /\ [Next]_vars => BooksInv'
<1> DEFINE now(t) == IF Applying(t) THEN 1 ELSE 0
<1> SUFFICES ASSUME TypeOK, BooksInv, [Next]_vars, NEW t \in TradeId \ Offline
             PROVE  (moved[t] + now(t) <= Cardinality(Carriers(t)))'
    BY DEF BooksInv
<1>b. moved[t] + now(t) <= Cardinality(Carriers(t))
    BY DEF BooksInv
<1>n. moved[t] \in Nat /\ Cardinality(Carriers(t)) \in Nat /\ now(t) \in {0, 1}
    BY CarriersFinite DEF TypeOK
<1>s. ~ Sending => Cardinality(Carriers(t)') = Cardinality(Carriers(t))
    BY CarriersStay
<1>1. CASE Sending
  <2>1. moved' = moved /\ batch' = batch /\ lpc = "collected"
    BY <1>1 DEF Sending, SendAccepted, SendTimesOut, SendFails, Send, counts
  <2>2. now(t) = 0
    BY <2>1 DEF Applying
  <2>3. Applying(t)' => t \in batch \ Offline /\ OnTheWay(hash)'
    BY <1>1, <2>1
    DEF Applying, OnTheWay, Sending, SendAccepted, SendTimesOut, SendFails, Send
  <2>4. now(t)' <= Cardinality(Carriers(t)') - Cardinality(Carriers(t))
    BY <1>1, <1>n, <2>3, CarriersCount
  <2>5. now(t)' \in {0, 1} /\ Cardinality(Carriers(t)') \in Nat
    BY <1>1, <1>n, CarriersCount
  <2> HIDE DEF now
  <2> QED
    BY <1>b, <1>n, <2>1, <2>2, <2>4, <2>5
<1>2. CASE ~ Sending /\ moved'[t] + now(t)' <= moved[t] + now(t)
  <2>1. TypeOK'
    BY NextType
  <2>2. moved'[t] \in Nat /\ now(t)' \in {0, 1}
    BY <2>1 DEF TypeOK
  <2> HIDE DEF now
  <2> QED
    BY <1>2, <1>b, <1>n, <1>s, <2>2
<1>3. CASE UNCHANGED <<lpc, batch, hash>> /\ moved' = moved /\ ~ Sending
  <2>1. Applying(t)' <=> Applying(t)
    BY <1>3, ChainStays DEF Applying
  <2> QED
    BY <1>2, <1>3, <1>n, <2>1
<1>4. CASE /\ moved' = moved /\ ~ Sending /\ lpc' \notin {"verify", "book", "record"}
    BY <1>2, <1>4, <1>n DEF Applying
<1>5. CASE Verify
  <2>1. /\ lpc = "verify" /\ batch' = batch /\ moved' = moved /\ ~ Sending
        /\ lpc' = "giveup" \/ (OnTheWay(hash) /\ lpc' = "book")
    BY <1>5 DEF Verify, counts, OnTheWay, Sending, SendAccepted, SendTimesOut, SendFails,
                Send
  <2>2. Applying(t)' => Applying(t)
    BY <2>1 DEF Applying
  <2> QED
    BY <1>2, <1>n, <2>1, <2>2
<1>6. CASE MoveBooks
  <2>1. /\ lpc = "book" /\ lpc' = "record" /\ ~ Sending
        /\ moved'[t] = IF t \in batch THEN moved[t] + 1 ELSE moved[t]
    BY <1>6 DEF MoveBooks, Sending, SendAccepted, SendTimesOut, SendFails, Send
  <2>2. now(t)' = 0 /\ now(t) = IF t \in batch THEN 1 ELSE 0
    BY <2>1 DEF Applying
  <2> QED
    BY <1>2, <1>n, <2>1, <2>2
<1>7. CASE Record
  <2>1. moved' = moved /\ lpc' = "idle" /\ ~ Sending
    BY <1>7 DEF Record, Rest, counts, Sending, SendAccepted, SendTimesOut, SendFails, Send
  <2> QED
    BY <1>4, <2>1
<1>8. CASE LauncherFails
  <2>1. lpc' = "idle" /\ ~ Sending
    BY <1>8 DEF LauncherFails, Rest, Sending, SendAccepted, SendTimesOut, SendFails, Send,
                chain, TypeOK
  <2>2. PICK part \in SUBSET batch :
           /\ lpc # "book" => part = {}
           /\ moved'[t] = IF t \in part THEN moved[t] + 1 ELSE moved[t]
    BY <1>8 DEF LauncherFails
  <2>3. now(t)' = 0 /\ (t \in part => now(t) = 1)
    BY <2>1, <2>2 DEF Applying
  <2>4. moved'[t] + now(t)' <= moved[t] + now(t)
    BY <1>n, <2>2, <2>3
  <2> QED
    BY <1>2, <2>1, <2>4
<1> QED
    BY <1>1, <1>3, <1>4, <1>5, <1>6, <1>7, <1>8, LauncherStep

(* A batch in mist_transactions stays there with its trades.               *)
LEMMA RowStays ==
    ASSUME TypeOK, TxInv, [Next]_vars, NEW t \in TradeId, HasRow(t)
    PROVE  HasRow(t)'
<1>1. PICK r \in transactions : row[t].status # "none" /\ row[t].txid = r.id
    BY DEF HasRow, TradesOf, Committed
<1>2. row'[t].status # "none" /\ row'[t].txid = r.id
    BY <1>1, TradesStay
<1>3. \E q \in transactions' : q.id = r.id
    BY <1>1, TransactionSteps, SettledTx
    DEF Record, PickTransaction, Receipt, GiveUpReceipt, StartUpdate, CommitOutcome,
        Settled, TxInv
<1> QED
    BY <1>2, <1>3 DEF HasRow, TradesOf, Committed

LEMMA SendsStep ==
    TypeOK /\ TxInv /\ ClosedInv /\ SendsInv /\ [Next]_vars => SendsInv'
<1> DEFINE one(t) == IF Launched(t) THEN 1 ELSE 0
<1> SUFFICES ASSUME TypeOK, TxInv, ClosedInv, SendsInv, [Next]_vars, ~ late',
                    NEW t \in TradeId
             PROVE  (Cardinality(Carriers(t)) <= failures + one(t))'
    BY DEF SendsInv
<1>l. ~ late
    BY LateStep
<1>b. Cardinality(Carriers(t)) <= failures + one(t)
    BY <1>l DEF SendsInv
<1>n. /\ failures \in Nat /\ failures' \in Nat /\ Cardinality(Carriers(t)) \in Nat
      /\ one(t) \in {0, 1} /\ one(t)' \in {0, 1}
  <2>1. TypeOK'
    BY NextType
  <2>2. failures \in Nat /\ failures' \in Nat
    BY <2>1, SettlementAssumption DEF TypeOK
  <2> QED
    BY <2>2, CarriersFinite
<1>f. failures' >= failures
    BY <1>n
    DEF Next, Engine, Launcher, Watcher, Failures, vars, ReadLast, InsertTrades,
        CommitTrades, RollbackTrades, Mark, Collect, SendAccepted, SendTimesOut,
        SendFails, Send, Verify, MoveBooks, Record, GiveUp, LauncherFails,
        PickTransaction, NoReceipt, Receipt, GiveUpReceipt, ReceiptError, StartUpdate,
        Unfreeze, CommitOutcome, WatcherFails, Mine, Fail
<1>s. ~ Sending => Cardinality(Carriers(t)') = Cardinality(Carriers(t))
    BY CarriersStay
<1>k. HasRow(t) => HasRow(t)'
    BY RowStays
<1>1. CASE SendAccepted
  <2>1. lpc = "collected" /\ lpc' = "book" /\ batch' = batch /\ failures' = failures
    BY <1>1 DEF SendAccepted, Send
  <2>2. CASE t \notin batch
    <3>1. Cardinality(Carriers(t)') = Cardinality(Carriers(t))
      BY <1>1, <2>2, CarriersCount DEF Sending
    <3>2. one(t) <= one(t)'
      BY <1>k, <2>1 DEF Launched
    <3> HIDE DEF one
    <3> QED
      BY <1>b, <1>n, <2>1, <3>1, <3>2
  <2>3. CASE t \in batch
    <3>1. batch = TradesOf(cur) /\ \A r \in transactions : r.id # cur
      BY <1>l, <2>1 DEF ClosedInv
    <3>2. one(t) = 0 /\ one(t)' = 1
      BY <2>1, <2>3, <3>1 DEF Launched, HasRow, TradesOf
    <3>3. Cardinality(Carriers(t)') <= Cardinality(Carriers(t)) + 1
          /\ Cardinality(Carriers(t)') \in Nat
      BY <1>1, <1>n, CarriersCount DEF Sending
    <3> HIDE DEF one
    <3> QED
      BY <1>b, <1>n, <2>1, <3>2, <3>3
  <2> QED
    BY <2>2, <2>3
<1>2. CASE SendTimesOut \/ SendFails
  <2>1. lpc = "collected" /\ failures' = failures + 1
    BY <1>2 DEF SendTimesOut, SendFails, Send, Fail
  <2>2. one(t) <= one(t)'
    BY <1>k, <2>1 DEF Launched
  <2>3. Cardinality(Carriers(t)') <= Cardinality(Carriers(t)) + 1
        /\ Cardinality(Carriers(t)') \in Nat
    BY <1>2, <1>n, CarriersCount DEF Sending
  <2> HIDE DEF one
  <2> QED
    BY <1>b, <1>n, <2>1, <2>2, <2>3
<1>3. CASE LauncherFails
  <2>1. failures' = failures + 1 /\ ~ Sending
    BY <1>3 DEF LauncherFails, Rest, Fail, Sending, SendAccepted, SendTimesOut, SendFails,
                Send, TypeOK
  <2> HIDE DEF one
  <2> QED
    BY <1>b, <1>n, <1>s, <2>1
<1>4. CASE Record
  <2>1. ~ Sending /\ lpc = "record"
    BY <1>4 DEF Record, Sending, SendAccepted, SendTimesOut, SendFails, Send
  <2>2. cur \in closed /\ batch = TradesOf(cur) /\ \A r \in transactions : r.id # cur
    BY <1>l, <2>1 DEF ClosedInv
  <2>3. NewTransaction \in transactions'
    BY <1>4, <2>2 DEF Record
  <2>4. {u \in Committed' : row'[u].txid = cur} = TradesOf(cur)
    BY <2>2, ClosedBatch
  <2>5. t \in batch => HasRow(t)'
    BY <2>2, <2>3, <2>4, NewTx DEF HasRow, TradesOf
  <2>6. one(t) <= one(t)'
    BY <1>k, <2>1, <2>5 DEF Launched
  <2> HIDE DEF one
  <2> QED
    BY <1>b, <1>n, <1>f, <1>s, <2>1, <2>6
<1>5. CASE ~ Sending /\ (Launched(t) => Launched(t)')
  <2>1. one(t) <= one(t)'
    BY <1>5
  <2> HIDE DEF one
  <2> QED
    BY <1>b, <1>n, <1>f, <1>s, <1>5, <2>1
<1>6. CASE Verify \/ MoveBooks
  <2>1. /\ ~ Sending /\ batch' = batch
        /\ lpc \in {"book", "record"} => lpc' \in {"book", "record"}
    BY <1>6 DEF Verify, MoveBooks, Sending, SendAccepted, SendTimesOut, SendFails, Send
  <2> QED
    BY <1>5, <1>k, <2>1 DEF Launched
<1> QED
    BY <1>1, <1>2, <1>3, <1>4, <1>5, <1>6, <1>k, LauncherStep DEF Sending, Launched

LEMMA InvInit == Init => SettlementInv
<1> SUFFICES ASSUME Init PROVE SettlementInv
    OBVIOUS
<1>1. TxInv /\ BatchInv /\ MinedInv /\ ClosedInv
    BY DEF Init, TxInv, BatchInv, MinedInv, ClosedInv
<1>2. ConfirmInv
    BY DEF Init, ConfirmInv, Final, NoTrade, NoCount
<1>3. UnfrozenIsConfirmed
    BY DEF Init, UnfrozenIsConfirmed, NoCount
<1>4. BooksInv /\ SendsInv
  <2>1. ASSUME NEW t \in TradeId PROVE Cardinality(Carriers(t)) = 0
    BY FS_EmptySet DEF Init, Carriers
  <2>2. failures = 0 /\ lpc = "idle" /\ moved = NoCount
    BY DEF Init
  <2> QED
    BY <2>1, <2>2 DEF BooksInv, SendsInv, Applying, NoCount
<1> QED
    BY <1>1, <1>2, <1>3, <1>4, InitType DEF SettlementInv

LEMMA Invariant == Spec => []SettlementInv
<1>1. SettlementInv /\ [Next]_vars => SettlementInv'
    BY NextType, TxStep, ConfirmStep, BatchStep, MinedStep, ClosedStep, UnfrozenStep,
       BooksStep, SendsStep
    DEF SettlementInv
<1> QED
    BY <1>1, InvInit, PTL DEF Spec

----------------------------------------------------------------------------
(* The theorems.                                                           *)

(* No trade is confirmed twice in its orders, whatever fails and however   *)
(* often a batch is launched.                                              *)
THEOREM ConfirmedAtMostOnce == Spec => []ConfirmedOnce
<1>1. SettlementInv => ConfirmedOnce
    BY DEF SettlementInv, ConfirmInv, ConfirmedOnce
<1> QED
    BY <1>1, Invariant, PTL

(* The freezes in redis and the confirmed amounts of the tables differ by  *)
(* the transaction in progress and by what failures rolled back.           *)
THEOREM FreezesFollowOrders == Spec => []UnfrozenIsConfirmed
<1>1. SettlementInv => UnfrozenIsConfirmed
    BY DEF SettlementInv
<1> QED
    BY <1>1, Invariant, PTL

(* Chain and books take a trade once for each time it had to be sent.      *)
THEOREM CallsAreCounted == Spec => []CallsCounted
<1>1. SettlementInv => CallsCounted
  <2> SUFFICES ASSUME SettlementInv, NEW t \in TradeId
               PROVE  /\ ~ late => Cardinality(Carriers(t)) <= 1 + failures
                      /\ t \notin Offline => moved[t] <= Cardinality(Carriers(t))
    BY DEF CallsCounted, SentOnce, BooksFollowChain
  <2>1. /\ Cardinality(Carriers(t)) \in Nat /\ moved[t] \in Nat /\ failures \in Nat
    BY CarriersFinite, SettlementAssumption DEF SettlementInv, TypeOK
  <2> QED
    BY <2>1 DEF SettlementInv, BooksInv, SendsInv
<1> QED
    BY <1>1, Invariant, PTL

(* The transaction of a final trade, until a trade is late.                *)
LEMMA FinalTx ==
    ASSUME SettlementInv, ~ late, NEW t \in TradeId, Final(t)
    PROVE  \E r \in transactions :
              /\ ClosedTx(r) /\ t \in TradesOf(r.id) /\ r.status # "pending"
              /\ row[t].hash = r.hash /\ row[t].status = r.status
<1>1. PICK r \in transactions : r.id = row[t].txid /\ r.status # "pending"
    BY DEF SettlementInv, ConfirmInv
<1>2. ClosedTx(r) /\ t \in TradesOf(r.id)
    BY <1>1 DEF SettlementInv, ClosedInv, TradesOf, Committed, Final
<1> QED
    BY <1>1, <1>2 DEF ClosedTx

(* A trade shown as successful is in a transaction that was mined.         *)
THEOREM SuccessIsOnChain == Spec => []SuccessfulIsMined
<1>1. SettlementInv => SuccessfulIsMined
  <2> SUFFICES ASSUME SettlementInv, ~ late, NEW t \in TradeId \ Offline,
                      row[t].status = "successful"
               PROVE  /\ row[t].hash \in mined \cup reverted
                      /\ t \in sent[row[t].hash]
                      /\ \E r \in transactions :
                            /\ r.id = row[t].txid /\ r.hash = row[t].hash
                            /\ r.contract = "successful" => r.hash \in mined
    BY DEF SuccessfulIsMined
  <2>1. PICK r \in transactions :
           /\ ClosedTx(r) /\ t \in TradesOf(r.id)
           /\ row[t].hash = r.hash /\ row[t].status = r.status
    BY FinalTx DEF Final
  <2>2. OnChain(r.hash, r.status, r.contract)
    BY DEF SettlementInv, MinedInv
  <2>3. r.id = row[t].txid /\ t \in sent[r.hash]
    BY <2>1 DEF ClosedTx, TradesOf
  <2> QED
    BY <2>1, <2>2, <2>3 DEF OnChain
<1> QED
    BY <1>1, Invariant, PTL

(* A settled trade stays as it is, until a trade is late.                  *)
THEOREM SettledStays == Spec => FinalStays
<1>1. SettlementInv /\ [Next]_vars
        => [\A t \in TradeId : Final(t) => row'[t] = row[t] \/ late']_vars
  <2> SUFFICES ASSUME SettlementInv, [Next]_vars, NEW t \in TradeId, Final(t), ~ late'
               PROVE  row'[t] = row[t]
    OBVIOUS
  <2>1. ~ late
    BY LateStep
  <2>2. PICK r \in transactions : t \in TradesOf(r.id) /\ r.status # "pending"
    BY <2>1, FinalTx
  <2>3. lpc # "idle" => r.id # cur
    BY <2>1 DEF SettlementInv, ClosedInv
  <2>4. Mark => r.id # cur'
    BY <2>1, MarkNew DEF SettlementInv
  <2>5. CommitOutcome => r.id # tx.id
    BY <2>2 DEF SettlementInv, TxInv, CommitOutcome
  <2> QED
    BY <2>2, <2>3, <2>4, <2>5, RowsOfTx DEF SettlementInv
<1> QED
    BY <1>1, Invariant, PTL DEF Spec, FinalStays

=============================================================================
