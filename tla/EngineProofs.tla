---------------------------- MODULE EngineProofs ----------------------------
(***************************************************************************)
(* Theorems about modules Engine and EngineAccounts, for every set of      *)
(* orders, traders and tokens, every balance and every bound: the tables,  *)
(* the abstract ledger, price priority and the freeze, and then what adds  *)
(* up rows.                                                                *)
(***************************************************************************)
EXTENDS EngineInvariant, SumTheorems, TLAPS

USE DEF api, tables, txTables, published, history

----------------------------------------------------------------------------
(* Lemmas about the operators the actions are built from.                  *)

LEMMA OrderType ==
    ASSUME NEW o \in OrderId
    PROVE  /\ Order[o] \in Contents
           /\ Order[o].trader \in Trader
           /\ Order[o].market \in Token \X Token
           /\ Order[o].side \in Side
           /\ Order[o].price \in Nat \ {0}
           /\ Order[o].amount \in Nat \ {0}
           /\ Level(o) \in Levels
           /\ PayToken(o) \in Token
  BY OrderAssumption DEF Contents, Level, Levels, PayToken

LEMMA CostType ==
    /\ \A o \in OrderId : \A amount \in Int : Cost(o, amount) \in Int
    /\ \A o \in OrderId : \A amount \in Nat : Cost(o, amount) \in Nat
  BY OrderType DEF Cost

LEMMA UpdatedType ==
    ASSUME NEW table \in [OrderId -> Row], NEW o \in OrderId,
           NEW avail \in Int, NEW canc \in Int, NEW pend \in Int,
           NEW status \in Status
    PROVE  Updated(table, o, avail, canc, pend, status) \in [OrderId -> Row]
  BY DEF Updated, Row

LEMMA StallsType ==
    ASSUME NEW j \in Job
    PROVE  [j EXCEPT !.stalls = @ + 1] \in Job
  BY DEF Job

LEMMA FreezingType ==
    ASSUME freeze \in [Trader -> [Token -> Int]],
           NEW o \in OrderId, NEW amount \in Int
    PROVE  Freezing(o, amount) \in [Trader -> [Token -> Int]]
  BY OrderType, CostType DEF Freezing

LEMMA FillAmountType ==
    ASSUME TypeOK, NEW m \in OrderId, txTmp[m].avail > 0
    PROVE  /\ FillAmount(m) \in Nat
           /\ FillAmount(m) <= msg.avail
           /\ FillAmount(m) <= txTmp[m].avail
  BY DEF TypeOK, FillAmount, Row

----------------------------------------------------------------------------
(* Type correctness.                                                       *)

LEMMA InitType == Init => TypeOK
<1> SUFFICES ASSUME Init PROVE TypeOK
    OBVIOUS
<1>1. NoRow \in Row /\ NoTrades \in [Levels -> Nat]
    BY DEF NoRow, Row, Status, NoTrades
<1>2. orders \in [OrderId -> Row] /\ tmp = orders /\ txOrders = orders /\ txTmp = tmp
    BY <1>1 DEF Init
<1>3. NoTrades \in [Levels -> Int] /\ freeze \in [Trader -> [Token -> Int]]
    BY <1>1 DEF Init
<1>4. queue \in Seq(Job) /\ stalled \in Seq(Job)
    BY DEF Init
<1> QED
    BY <1>1, <1>2, <1>3, <1>4 DEF Init, TypeOK, NoMsg, Phase

LEMMA NextType == TypeOK /\ [Next]_vars => TypeOK'
<1> SUFFICES ASSUME TypeOK, [Next]_vars PROVE TypeOK'
    OBVIOUS
<1> USE DEF TypeOK
<1>d. ASSUME Drop PROVE /\ pc' \in Phase
                        /\ pc' = "idle"
                        /\ msg' \in [avail : Nat, pend : Nat]
                        /\ lastTrades' \in [Levels -> Nat]
                        /\ orders' = orders /\ tmp' = tmp /\ trades' = trades
                        /\ txOrders' = orders /\ txTmp' = tmp /\ txTrades' = trades
                        /\ freeze' = freeze /\ depth' = depth
    BY <1>d DEF Drop, NoMsg, NoTrades, Phase
<1>1. CASE UNCHANGED vars
    BY <1>1 DEF vars
<1>2. ASSUME NEW o \in OrderId,
             BuildOrder(o) \/ CancelOrder(o) \/ CancelOrders(o) \/ CancelAllOrders(o)
      PROVE  TypeOK'
    BY <1>2 DEF BuildOrder, CancelOrder, CancelOrders, CancelAllOrders, Admit,
                Request
<1>3. ASSUME NEW r \in Request, Enqueue(r) PROVE TypeOK'
    <2>1. [kind |-> r.kind, id |-> r.id, stalls |-> 0] \in Job
        BY DEF Request, Job
    <2> QED
        BY <2>1, <1>3 DEF Enqueue
<1>4. CASE TakeJob
    <2>1. Head(queue) \in Job /\ Tail(queue) \in Seq(Job)
        BY <1>4 DEF TakeJob
    <2>2. pc' \in Phase
        BY <1>4 DEF TakeJob, Dispatch, Phase, TxPhase, CancelPhase
    <2> QED
        BY <2>1, <2>2, <1>4 DEF TakeJob
<1>5. CASE Done
    BY <1>5, <1>d DEF Done
<1>6. CASE CheckPassed
    BY <1>6 DEF CheckPassed, Phase
<1>7. CASE CheckFailed
    BY <1>7, <1>d DEF CheckFailed
<1>8. CASE Flush
    BY <1>8, <1>d DEF Flush
<1>9. CASE Freeze
    <2>1. job.id \in OrderId
        BY <1>9 DEF Freeze, Job
    <2>2. freeze' \in [Trader -> [Token -> Int]]
        BY <1>9, <2>1, FreezingType, OrderType DEF Freeze
    <2>3. msg' \in [avail : Nat, pend : Nat]
        BY <1>9, <2>1, OrderType DEF Freeze
    <2> QED
        BY <1>9, <2>2, <2>3 DEF Freeze, Phase, TxPhase
<1>10. ASSUME NEW m \in OrderId, Fill(m) PROVE TypeOK'
    <2>1. job.id \in OrderId /\ txTmp[m].avail > 0
        BY <1>10 DEF Fill, Job, Best, filter_orders
    <2>2. FillAmount(m) \in Nat /\ FillAmount(m) <= msg.avail
        BY <2>1, FillAmountType
    <2>3. txOrders' \in [OrderId -> Row] /\ txTmp' \in [OrderId -> Row]
        <3>1. Filled(txOrders, m) \in [OrderId -> Row]
            <4>1. /\ - FillAmount(m) \in Int /\ FillAmount(m) \in Int /\ 0 \in Int
                  /\ "partial_filled" \in Status /\ "full_filled" \in Status
                BY <2>2 DEF Status
            <4> QED
                BY <4>1, UpdatedType DEF Filled
        <3>2. Filled(txTmp, m) \in [OrderId -> Row]
            <4>1. /\ - FillAmount(m) \in Int /\ FillAmount(m) \in Int /\ 0 \in Int
                  /\ "partial_filled" \in Status /\ "full_filled" \in Status
                BY <2>2 DEF Status
            <4> QED
                BY <4>1, UpdatedType DEF Filled
        <3> QED
            BY <1>10, <3>1, <3>2 DEF Fill
    <2>4. txTrades' \subseteq Trade
        BY <1>10, <2>1, <2>2 DEF Fill, Trade
    <2>5. msg' \in [avail : Nat, pend : Nat]
        BY <1>10, <2>2 DEF Fill
    <2>6. lastTrades' \in [Levels -> Nat]
        BY <1>10, <2>2, OrderType DEF Fill
    <2> QED
        BY <1>10, <2>3, <2>4, <2>5, <2>6 DEF Fill
<1>11. CASE EndMatch
    BY <1>11 DEF EndMatch, Phase, TxPhase
<1>12. CASE Publish
    <2>1. job.id \in OrderId
        BY <1>12 DEF Publish, Job
    <2>2. depth' \in [Levels -> Int]
        BY <1>12, <2>1 DEF Publish, BookUpdates
    <2> QED
        BY <1>12, <2>2 DEF Publish, Phase, TxPhase
<1>13. CASE Insert
    <2>1. NewRow \in Row
        BY DEF NewRow, Row, Status
    <2> QED
        BY <1>13, <2>1 DEF Insert, Phase, TxPhase
<1>14. CASE InsertRefused
    BY <1>14, <1>d DEF InsertRefused
<1>15. CASE Commit
    BY <1>15 DEF Commit, Phase
<1>16. CASE CancelNothing
    BY <1>16, <1>d DEF CancelNothing
<1>17. CASE CancelMain
    <2>1. job.id \in OrderId
        BY <1>17 DEF CancelMain, Job
    <2>2. orders[job.id].avail \in Nat
        BY <1>17, <2>1 DEF CancelMain, Row
    <2>3. orders' \in [OrderId -> Row]
        <3> DEFINE left == orders[job.id].avail
        <3>0. - left \in Int /\ left \in Int /\ 0 \in Int /\ "cancled" \in Status
            BY <2>2 DEF Status
        <3> HIDE DEF left
        <3>1. Updated(orders, job.id, - left, left, 0, "cancled") \in [OrderId -> Row]
            BY <2>1, <3>0, UpdatedType
        <3> QED
            BY <1>17, <3>1 DEF CancelMain, left
    <2> QED
        BY <1>17, <2>2, <2>3 DEF CancelMain, Phase, CancelPhase
<1>18. CASE CancelTmp
    <2>1. job.id \in OrderId
        BY <1>18 DEF CancelTmp, Job
    <2>2. tmp' \in [OrderId -> Row]
        <3>1. Updated(tmp, job.id, - msg.avail, msg.avail, 0, "cancled")
                  \in [OrderId -> Row]
            <4>1. /\ - msg.avail \in Int /\ msg.avail \in Int /\ 0 \in Int
                  /\ "cancled" \in Status
                BY DEF Status
            <4> QED
                BY <2>1, <4>1, UpdatedType
        <3> QED
            BY <1>18, <3>1 DEF CancelTmp
    <2> QED
        BY <1>18, <2>2 DEF CancelTmp, Phase, CancelPhase
<1>19. CASE CancelBook
    <2>1. job.id \in OrderId
        BY <1>19 DEF CancelBook, Job
    <2>2. depth' \in [Levels -> Int]
        BY <1>19, <2>1, OrderType DEF CancelBook
    <2> QED
        BY <1>19, <2>2 DEF CancelBook, Phase, CancelPhase
<1>20. CASE CancelFreeze
    <2>1. job.id \in OrderId
        BY <1>20 DEF CancelFreeze, Job
    <2>2. freeze' \in [Trader -> [Token -> Int]]
        BY <1>20, <2>1, FreezingType DEF CancelFreeze
    <2> QED
        BY <1>20, <2>2 DEF CancelFreeze, Phase
<1>21. CASE CallFails
    BY <1>21, <1>d DEF CallFails, Fail
<1>22. CASE PublishFails
    BY <1>22 DEF PublishFails, Fail, Phase, TxPhase
<1>23. CASE Crash
    <2>1. [job EXCEPT !.stalls = @ + 1] \in Job
        <3>1. job \in Job
            BY <1>23 DEF Crash
        <3> QED
            BY <3>1, StallsType
    <2> QED
        BY <1>23, <1>d, <2>1 DEF Crash, Fail
<1>24. CASE Redeliver
    <2>1. Head(stalled) \in Job /\ Tail(stalled) \in Seq(Job)
        BY <1>24 DEF Redeliver
    <2>2. <<Head(stalled)>> \o queue \in Seq(Job)
        BY <2>1
    <2> QED
        BY <1>24, <2>1, <2>2 DEF Redeliver
<1> QED
    BY <1>1, <1>2, <1>3, <1>4, <1>5, <1>6, <1>7, <1>8, <1>9, <1>10, <1>11, <1>12,
       <1>13, <1>14, <1>15, <1>16, <1>17, <1>18, <1>19, <1>20, <1>21, <1>22, <1>23,
       <1>24
    DEF Next, Requests, Worker

(* Every variable keeps its type; in particular the worker's copy of an    *)
(* order never goes below zero.                                            *)
THEOREM TypeCorrect == Spec => []TypeOK
  BY InitType, NextType, PTL DEF Spec

----------------------------------------------------------------------------
(* The rows of one order, step by step.                                    *)

LEMMA AmountType ==
    ASSUME NEW o \in OrderId
    PROVE  Order[o].amount \in Nat /\ Order[o].amount > 0
  BY OrderType

LEMMA CrossesSymmetric ==
    ASSUME NEW o \in OrderId, NEW m \in OrderId
    PROVE  /\ Crosses(o, m) <=> Crosses(m, o)
           /\ ~ Crosses(o, o)
           /\ AsGood(o, m, m)
  BY OrderType DEF Crosses, AsGood, Side

LEMMA FilledRows ==
    ASSUME NEW main \in Row, NEW row \in Row, NEW amount \in Nat, NEW k \in Nat,
           NEW status \in Status \ {"none"},
           RowsAgree(main, row, amount), row.status # "none", k <= row.avail
    PROVE  RowsAgree([avail |-> main.avail + (- k), canc |-> main.canc + 0,
                      pend |-> main.pend + k, status |-> status],
                     [avail |-> row.avail + (- k), canc |-> row.canc + 0,
                      pend |-> row.pend + k, status |-> status],
                     amount)
  BY DEF RowsAgree, Row

LEMMA CancelledRows ==
    ASSUME NEW main \in Row, NEW row \in Row, NEW amount \in Nat,
           RowsAgree(main, row, amount), main.avail > 0
    PROVE  /\ row.avail = main.avail /\ row.status # "none" /\ main.status # "none"
           /\ RowsAgree([avail |-> main.avail + (- main.avail),
                         canc |-> main.canc + main.avail,
                         pend |-> main.pend + 0, status |-> "cancled"], row, amount)
  BY DEF RowsAgree, Row, NoRow, Status

LEMMA CancelledBothRows ==
    ASSUME NEW main \in Row, NEW row \in Row, NEW amount \in Nat,
           RowsAgree(main, row, amount), main.avail = 0, row.status # "none"
    PROVE  RowsAgree(main, [avail |-> row.avail + (- row.avail),
                            canc |-> row.canc + row.avail,
                            pend |-> row.pend + 0, status |-> "cancled"], amount)
<1>1. /\ row.avail \in Int /\ row.canc \in Int /\ row.pend \in Int
      /\ main.avail \in Int /\ main.canc \in Int /\ main.pend \in Int
    BY DEF Row
<1> DEFINE left == [avail |-> row.avail + (- row.avail), canc |-> row.canc + row.avail,
                   pend |-> row.pend + 0, status |-> "cancled"]
<1>2. /\ left.avail = 0 /\ left.canc = row.canc + row.avail /\ left.pend = row.pend
      /\ left.status = "cancled"
    BY <1>1
<1> HIDE DEF left
<1>3. /\ main.status # "none"
      /\ row.avail + row.pend + row.canc = amount
      /\ row.avail >= 0 /\ row.pend >= 0 /\ row.canc >= 0
      /\ main.pend = row.pend
      /\ main.canc = row.avail + row.canc
    BY <1>1 DEF RowsAgree
<1>4. RowsAgree(main, left, amount)
    BY <1>1, <1>2, <1>3 DEF RowsAgree
<1> QED
    BY <1>4 DEF left

----------------------------------------------------------------------------
(* The invariant of the tables.                                            *)

LEMMA TableInit == Init => TableInv
<1> SUFFICES ASSUME Init PROVE TableInv
    OBVIOUS
<1>1. TypeOK
    BY InitType
<1>2. \A o \in OrderId : orders[o] = NoRow /\ tmp[o] = NoRow
    BY DEF Init
<1>3. RowsInv(orders, tmp)
    BY <1>2 DEF RowsInv, RowsAgree, NoRow
<1>4. NoCross(tmp)
    BY <1>2 DEF NoCross, NoRow
<1>5. TxInv /\ CancelInv
    BY DEF Init, TxInv, CancelInv, TxPhase
<1> QED
    BY <1>1, <1>3, <1>4, <1>5 DEF Init, TableInv

LEMMA TableStep == TableInv /\ [Next]_vars => TableInv'
<1> SUFFICES ASSUME TableInv, [Next]_vars PROVE TableInv'
    OBVIOUS
<1>t. TypeOK /\ TypeOK'
    BY NextType DEF TableInv
<1>u. ASSUME UNCHANGED <<pc, job, msg, tables, txTables>> PROVE TableInv'
    BY <1>u, <1>t DEF TableInv, RowsInv, NoCross, TxInv, CancelInv, Exists, filter_orders
<1>q. ASSUME UNCHANGED <<tables, txTables>>,
             pc \notin TxPhase, pc' \notin TxPhase, pc' # "cancelTmp"
      PROVE  TableInv'
    BY <1>q, <1>t DEF TableInv, RowsInv, NoCross, TxInv, CancelInv, TxPhase
<1>d. ASSUME Drop PROVE TableInv'
    BY <1>d, <1>t DEF Drop, TableInv, RowsInv, NoCross, TxInv, CancelInv, TxPhase
<1>1. CASE UNCHANGED vars
    BY <1>1, <1>u DEF vars
<1>2. CASE Requests
    BY <1>2, <1>u
    DEF Requests, BuildOrder, CancelOrder, CancelOrders, CancelAllOrders, Admit, Enqueue
<1>3. CASE TakeJob
    BY <1>3, <1>q DEF TakeJob, Dispatch, TxPhase
<1>4. CASE Done \/ CheckFailed \/ Flush \/ InsertRefused \/ CancelNothing
           \/ CallFails \/ Crash
    BY <1>4, <1>d DEF Done, CheckFailed, Flush, InsertRefused, CancelNothing,
                      CallFails, Crash
<1>5. CASE CheckPassed \/ CancelBook \/ CancelFreeze
    BY <1>5, <1>q DEF CheckPassed, CancelBook, CancelFreeze, TxPhase
<1>6. CASE Redeliver
    BY <1>6, <1>u DEF Redeliver
<1>7. CASE Freeze
    <2>1. pc = "freeze" /\ pc' = "match" /\ job.id \in OrderId
        BY <1>7, <1>t DEF Freeze, TypeOK, Job
    <2>2. txOrders = orders /\ txTmp = tmp /\ txTrades = trades
        BY <2>1 DEF TableInv, TxInv, TxPhase
    <2>3. msg'.avail + msg'.pend = Order[job.id].amount
        BY <1>7, <2>1, AmountType DEF Freeze
    <2>4. \A m \in OrderId : FilledFrom(tmp[m], txTmp[m])
        <3>1. \A m \in OrderId : tmp[m].avail \in Int
            BY <1>t DEF TypeOK, Row
        <3> QED
            BY <2>2, <3>1 DEF FilledFrom
    <2>5. TxInv'
        BY <1>7, <2>1, <2>2, <2>3, <2>4 DEF Freeze, TxInv, TxPhase
    <2> QED
        BY <1>7, <1>t, <2>1, <2>5 DEF Freeze, TableInv, RowsInv, NoCross, CancelInv
<1>8. ASSUME NEW m \in OrderId, Fill(m) PROVE TableInv'
    <2> DEFINE k == FillAmount(m)
               status == IF msg.avail < txTmp[m].avail THEN "partial_filled"
                                                       ELSE "full_filled"
    <2>1. /\ pc = "match" /\ pc' = "match" /\ job' = job
          /\ m \in filter_orders(job.id) /\ txTmp[m].avail > 0
        BY <1>8 DEF Fill, Best, filter_orders
    <2>2. k \in Nat /\ k <= msg.avail /\ k <= txTmp[m].avail
        BY <2>1, <1>t, FillAmountType
    <2>3. status \in Status \ {"none"}
        BY DEF Status
    <2>4. /\ RowsAgree(txOrders[m], txTmp[m], Order[m].amount)
          /\ txOrders[m] \in Row /\ txTmp[m] \in Row
        BY <1>t DEF TableInv, RowsInv, TypeOK
    <2>5. Exists(txTmp, m) /\ Exists(txOrders, m)
        BY <2>1, <2>4 DEF RowsAgree, Exists, NoRow
    <2> DEFINE main == [avail |-> txOrders[m].avail + (- k),
                        canc |-> txOrders[m].canc + 0,
                        pend |-> txOrders[m].pend + k, status |-> status]
               row == [avail |-> txTmp[m].avail + (- k), canc |-> txTmp[m].canc + 0,
                       pend |-> txTmp[m].pend + k, status |-> status]
    <2>6. txOrders' = [txOrders EXCEPT ![m] = main] /\ txTmp' = [txTmp EXCEPT ![m] = row]
        BY <1>8, <2>5 DEF Fill, Filled, Updated
    <2>7. RowsAgree(main, row, Order[m].amount)
        BY <2>2, <2>3, <2>4, <2>5, AmountType, FilledRows DEF Exists
    <2>8. /\ row.avail = txTmp[m].avail - k /\ row.pend = txTmp[m].pend + k
          /\ row.canc = txTmp[m].canc /\ row.status # "none"
        BY <2>2, <2>3, <2>4 DEF Row
    <2> HIDE DEF k, status, main, row
    <2>9. RowsInv(txOrders, txTmp)'
        BY <2>6, <2>7, <1>t DEF TableInv, RowsInv, TypeOK
    <2>10. \A n \in OrderId : txTmp'[n].avail <= txTmp[n].avail
        <3>1. txTmp \in [OrderId -> Row] /\ \A n \in OrderId : txTmp[n].avail \in Int
            BY <1>t DEF TypeOK, Row
        <3>2. txTmp'[m].avail = txTmp[m].avail - k
            BY <2>6, <2>8, <3>1
        <3>3. \A n \in OrderId \ {m} : txTmp'[n] = txTmp[n]
            BY <2>6, <3>1
        <3> QED
            BY <2>2, <3>1, <3>2, <3>3
    <2>11. NoCross(txTmp)'
        <3>1. \A n \in OrderId : txTmp[n].avail \in Int /\ txTmp'[n].avail \in Int
            BY <1>t DEF TypeOK, Row
        <3> QED
            BY <2>10, <3>1 DEF TableInv, NoCross
    <2>12. \A n \in OrderId : FilledFrom(tmp[n], txTmp'[n])
        <3>1. \A n \in OrderId : FilledFrom(tmp[n], txTmp[n])
            BY <2>1 DEF TableInv, TxInv, TxPhase
        <3>2. tmp[m] \in Row
            BY <1>t DEF TypeOK
        <3>3. FilledFrom(tmp[m], row)
            BY <3>1, <3>2, <2>2, <2>4, <2>5, <2>8 DEF FilledFrom, Row, Exists
        <3> QED
            BY <3>1, <3>3, <2>6, <1>t DEF TypeOK
    <2>13. msg'.avail + msg'.pend = Order[job.id].amount
        <3>1. /\ msg.avail \in Nat /\ msg.pend \in Nat
              /\ msg.avail + msg.pend = Order[job.id].amount
            BY <2>1, <1>t DEF TableInv, TxInv, TxPhase, TypeOK
        <3>2. msg'.avail = msg.avail - k /\ msg'.pend = msg.pend + k
            BY <1>8 DEF Fill, k
        <3> QED
            BY <3>1, <3>2, <2>2
    <2>14. TxInv' /\ CancelInv'
        BY <1>8, <2>1, <2>12, <2>13 DEF Fill, TxInv, CancelInv, TxPhase
    <2> QED
        BY <1>8, <1>t, <2>9, <2>11, <2>14 DEF Fill, TableInv, RowsInv, NoCross
<1>9. CASE EndMatch \/ Publish \/ PublishFails
    <2>1. /\ pc \in {"match", "publish"} /\ pc' \in {"publish", "insert"}
          /\ UNCHANGED <<job, msg, tables, txTables>>
          /\ msg.avail = 0 \/ filter_orders(job.id) = {}
        BY <1>9 DEF EndMatch, Publish, PublishFails, TableInv, TxInv
    <2>2. filter_orders(job.id)' = filter_orders(job.id)
        BY <2>1 DEF filter_orders
    <2>3. TxInv'
        BY <2>1, <2>2 DEF TableInv, TxInv, TxPhase
    <2> QED
        BY <1>t, <2>1, <2>3 DEF TableInv, RowsInv, NoCross, CancelInv
<1>10. CASE Insert
    <2> DEFINE id == job.id
    <2>1. /\ pc = "insert" /\ pc' = "commit" /\ id \in OrderId
          /\ UNCHANGED <<job, msg, tables, txTrades>>
          /\ txOrders' = [txOrders EXCEPT ![id] = NewRow]
          /\ txTmp' = [txTmp EXCEPT ![id] = NewRow]
        BY <1>10, <1>t DEF Insert, TypeOK, Job
    <2>2. NewRow.canc = 0 /\ NewRow.avail = msg.avail /\ NewRow.pend = msg.pend
          /\ NewRow.status # "none"
        BY DEF NewRow
    <2>3. /\ msg.avail \in Nat /\ msg.pend \in Nat
          /\ msg.avail + msg.pend = Order[id].amount
        BY <2>1, <1>t DEF TableInv, TxInv, TxPhase, TypeOK
    <2>4. RowsAgree(NewRow, NewRow, Order[id].amount)
        BY <2>2, <2>3 DEF RowsAgree
    <2>5. RowsInv(txOrders, txTmp)'
        BY <2>1, <2>4, <1>t DEF TableInv, RowsInv, TypeOK
    <2>6. NoCross(txTmp)'
        <3>1. \A n \in OrderId :
                 Crosses(id, n) => msg.avail = 0 \/ ~ (txTmp[n].avail > 0)
            BY <2>1 DEF TableInv, TxInv, filter_orders
        <3>2. \A n \in OrderId : txTmp[n].avail \in Int
            BY <1>t DEF TypeOK, Row
        <3>3. \A n \in OrderId \ {id} : txTmp'[n] = txTmp[n]
            BY <2>1, <1>t DEF TypeOK
        <3>4. txTmp'[id].avail = msg.avail
            BY <2>1, <2>2, <1>t DEF TypeOK
        <3> SUFFICES ASSUME NEW o \in OrderId, NEW m \in OrderId, Crosses(o, m)
                     PROVE  txTmp'[o].avail <= 0 \/ txTmp'[m].avail <= 0
            BY DEF NoCross
        <3>5. CASE o # id /\ m # id
            BY <3>3, <3>5 DEF TableInv, NoCross
        <3>6. CASE o = id
            BY <3>1, <3>2, <3>3, <3>4, <3>6, CrossesSymmetric
        <3>7. CASE m = id
            BY <3>1, <3>2, <3>3, <3>4, <3>7, CrossesSymmetric
        <3> QED
            BY <3>5, <3>6, <3>7
    <2>7. ~ Exists(tmp, id)
        <3>1. ~ Exists(txTmp, id)
            BY <1>10, <2>1 DEF Insert, TableInv, RowsInv, RowsAgree, Exists
        <3> QED
            BY <3>1, <2>1 DEF TableInv, TxInv, TxPhase, FilledFrom, Exists
    <2>8. Exists(txTmp', id) /\ txTmp'[id].canc = 0
        BY <2>1, <2>2, <1>t DEF TypeOK, Exists
    <2>9. \A m \in OrderId : m # id => FilledFrom(tmp[m], txTmp'[m])
        BY <2>1, <1>t DEF TableInv, TxInv, TxPhase, TypeOK
    <2>10. TxInv' /\ CancelInv'
        BY <2>1, <2>3, <2>7, <2>8, <2>9 DEF TxInv, CancelInv, TxPhase, Exists
    <2> QED
        BY <1>t, <2>1, <2>5, <2>6, <2>10 DEF TableInv, RowsInv, NoCross
<1>11. CASE Commit
    BY <1>11, <1>t DEF Commit, TableInv, RowsInv, NoCross, TxInv, CancelInv, TxPhase
<1>12. CASE CancelMain
    <2> DEFINE id == job.id
               left == orders[id].avail
               main == [avail |-> left + (- left), canc |-> orders[id].canc + left,
                        pend |-> orders[id].pend + 0, status |-> "cancled"]
    <2>1. /\ pc = "cancel" /\ pc' = "cancelTmp" /\ id \in OrderId /\ left > 0
          /\ UNCHANGED <<job, tmp, trades, txTmp, txTrades>>
          /\ msg' = [avail |-> left, pend |-> 0] /\ txOrders' = orders'
          /\ orders' = Updated(orders, id, - left, left, 0, "cancled")
        BY <1>12, <1>t DEF CancelMain, TypeOK, Job
    <2>2. txTmp = tmp /\ txTrades = trades
        BY <2>1 DEF TableInv, TxInv, TxPhase
    <2>3. /\ RowsAgree(orders[id], tmp[id], Order[id].amount)
          /\ orders[id] \in Row /\ tmp[id] \in Row
        BY <2>1, <1>t DEF TableInv, RowsInv, TypeOK
    <2>4. /\ tmp[id].avail = left /\ tmp[id].status # "none"
          /\ orders[id].status # "none"
          /\ RowsAgree(main, tmp[id], Order[id].amount)
        BY <2>1, <2>3, AmountType, CancelledRows
    <2>5. orders' = [orders EXCEPT ![id] = main]
        BY <2>1, <2>4 DEF Updated, Exists
    <2>6. main.avail = 0
        BY <2>3 DEF Row
    <2> HIDE DEF main
    <2>7. RowsInv(orders, tmp)'
        BY <2>1, <2>4, <2>5, <1>t DEF TableInv, RowsInv, TypeOK
    <2>8. TxInv' /\ CancelInv'
        BY <2>1, <2>2, <2>4, <2>5, <2>6, <1>t
        DEF TxInv, CancelInv, TxPhase, TypeOK, Exists
    <2> QED
        BY <1>t, <2>1, <2>2, <2>7, <2>8 DEF TableInv, RowsInv, NoCross
<1>13. CASE CancelTmp
    <2> DEFINE id == job.id
               row == [avail |-> tmp[id].avail + (- tmp[id].avail),
                       canc |-> tmp[id].canc + tmp[id].avail,
                       pend |-> tmp[id].pend + 0, status |-> "cancled"]
    <2>1. /\ pc = "cancelTmp" /\ pc' = "cancelBook" /\ id \in OrderId
          /\ UNCHANGED <<job, msg, orders, trades, txOrders, txTrades>>
          /\ txTmp' = tmp'
          /\ tmp' = Updated(tmp, id, - msg.avail, msg.avail, 0, "cancled")
        BY <1>13, <1>t DEF CancelTmp, TypeOK, Job
    <2>2. /\ txOrders = orders /\ txTrades = trades
          /\ tmp[id].status # "none" /\ orders[id].avail = 0
          /\ tmp[id].avail = msg.avail
        BY <2>1 DEF TableInv, TxInv, TxPhase, CancelInv, Exists
    <2>3. /\ RowsAgree(orders[id], tmp[id], Order[id].amount)
          /\ orders[id] \in Row /\ tmp[id] \in Row
        BY <2>1, <1>t DEF TableInv, RowsInv, TypeOK
    <2>4. RowsAgree(orders[id], row, Order[id].amount)
        BY <2>1, <2>2, <2>3, AmountType, CancelledBothRows
    <2>5. tmp' = [tmp EXCEPT ![id] = row]
        BY <2>1, <2>2 DEF Updated, Exists
    <2>6. row.avail = 0
        BY <2>3 DEF Row
    <2> HIDE DEF row
    <2>7. RowsInv(orders, tmp)'
        BY <2>1, <2>4, <2>5, <1>t DEF TableInv, RowsInv, TypeOK
    <2>8. NoCross(tmp)'
        <3>1. tmp'[id].avail = 0 /\ \A n \in OrderId \ {id} : tmp'[n] = tmp[n]
            BY <2>1, <2>5, <2>6, <1>t DEF TypeOK
        <3> QED
            BY <3>1 DEF TableInv, NoCross
    <2>9. TxInv' /\ CancelInv'
        BY <2>1, <2>2 DEF TxInv, CancelInv, TxPhase
    <2> QED
        BY <1>t, <2>1, <2>2, <2>7, <2>8, <2>9 DEF TableInv, RowsInv, NoCross
<1> QED
    BY <1>1, <1>2, <1>3, <1>4, <1>5, <1>6, <1>7, <1>8, <1>9, <1>10, <1>11, <1>12, <1>13
    DEF Next, Worker

LEMMA TableInvariant == Spec => []TableInv
  BY TableInit, TableStep, PTL DEF Spec

LEMMA TableConserved == TableInv => OrderConserved
<1> SUFFICES ASSUME TableInv, NEW o \in OrderId
             PROVE  /\ Exists(orders, o) <=> Exists(tmp, o)
                    /\ Exists(tmp, o) =>
                        /\ tmp[o].avail >= 0 /\ tmp[o].pend >= 0 /\ tmp[o].canc >= 0
                        /\ tmp[o].avail + tmp[o].pend + tmp[o].canc = Order[o].amount
                        /\ tmp[o].canc > 0 => tmp[o].avail = 0
                    /\ orders[o].pend = tmp[o].pend
                    /\ orders[o].avail + orders[o].canc = tmp[o].avail + tmp[o].canc
                    /\ orders[o].avail <= tmp[o].avail
                    /\ orders[o].avail > 0 => orders[o].avail = tmp[o].avail
    BY DEF OrderConserved
<1>1. RowsAgree(orders[o], tmp[o], Order[o].amount)
    BY DEF TableInv, RowsInv
<1> QED
    BY <1>1 DEF RowsAgree, Exists

(* No amount is lost or made up by matching and cancelling (api/engine.ts, *)
(* api/order.ts), with crashes, failed calls, redelivered and resubmitted  *)
(* jobs, for any number of orders.                                         *)
THEOREM OrdersConserved == Spec => []OrderConserved
  BY TableInvariant, TableConserved, PTL

(* The book of the matching engine is never crossed.                       *)
THEOREM BookNotCrossed == Spec => []NoCrossedBook
<1>1. TableInv => NoCrossedBook
    BY DEF TableInv, NoCrossedBook
<1> QED
    BY <1>1, TableInvariant, PTL

----------------------------------------------------------------------------
(* The order ledger.                                                       *)

LEMMA LedgerInit == Init => Ledger!Init
<1> SUFFICES ASSUME Init PROVE Ledger!Init
    OBVIOUS
<1>1. \A o \in OrderId : tmp[o] = NoRow
    BY DEF Init
<1>2. \A o \in OrderId : [placed |-> Exists(tmp, o), avail |-> tmp[o].avail,
                         pend |-> tmp[o].pend, canc |-> tmp[o].canc] = Ledger!Unplaced
    <2>1. \A o \in OrderId : /\ Exists(tmp, o) = FALSE /\ tmp[o].avail = 0
                             /\ tmp[o].pend = 0 /\ tmp[o].canc = 0
        BY <1>1 DEF Exists, NoRow
    <2> QED
        BY <2>1 DEF Ledger!Unplaced
<1> QED
    BY <1>2 DEF Ledger!Init, LedgerRows

LEMMA LedgerRowsType == TableInv => LedgerRows \in [OrderId -> Ledger!Row]
<1> SUFFICES ASSUME TableInv, NEW o \in OrderId
             PROVE  /\ Exists(tmp, o) \in BOOLEAN
                    /\ tmp[o].avail \in Nat /\ tmp[o].pend \in Nat
                    /\ tmp[o].canc \in Nat
    BY DEF LedgerRows, Ledger!Row
<1>1. RowsAgree(orders[o], tmp[o], Order[o].amount) /\ tmp[o] \in Row
    BY DEF TableInv, RowsInv, TypeOK
<1> QED
    BY <1>1 DEF RowsAgree, Row, Exists

(* The commit of an order's transaction is the abstract Place.             *)
LEMMA CommitPlaces ==
    ASSUME TableInv, TableInv', Commit
    PROVE  Ledger!Place(job.id)
<1> DEFINE id == job.id
           bar == LedgerRows
<1>t. TypeOK /\ TypeOK'
    BY DEF TableInv
<1>1. /\ pc = "commit" /\ id \in OrderId /\ tmp' = txTmp
      /\ ~ Exists(tmp, id) /\ Exists(txTmp, id) /\ txTmp[id].canc = 0
    BY <1>t DEF Commit, TableInv, TxInv, TypeOK, Job
<1>2. bar' \in [OrderId -> Ledger!Row]
    <2>1. ASSUME NEW o \in OrderId
          PROVE  /\ Exists(tmp', o) \in BOOLEAN
                 /\ tmp'[o].avail \in Nat /\ tmp'[o].pend \in Nat
                 /\ tmp'[o].canc \in Nat
        <3>1. RowsAgree(orders'[o], tmp'[o], Order[o].amount) /\ tmp'[o] \in Row
            BY <1>t DEF TableInv, RowsInv, TypeOK
        <3> QED
            BY <3>1 DEF RowsAgree, Row, Exists
    <2> QED
        BY <2>1 DEF LedgerRows, Ledger!Row, Exists
<1>3. ~ bar[id].placed
    BY <1>1 DEF LedgerRows
<1>4. bar'[id] \in Ledger!Placed(LedgerAmount[id])
    <2>1. RowsAgree(txOrders[id], txTmp[id], Order[id].amount) /\ txTmp[id] \in Row
        BY <1>1, <1>t DEF TableInv, RowsInv, TypeOK
    <2> DEFINE k == txTmp[id].pend
    <2>2. /\ k \in 0 .. Order[id].amount
          /\ txTmp[id].avail = Order[id].amount - k
        BY <2>1, <1>1, AmountType DEF RowsAgree, Row, Exists
    <2>3. bar'[id] = [placed |-> TRUE, avail |-> LedgerAmount[id] - k, pend |-> k,
                      canc |-> 0]
        BY <1>1, <2>2 DEF LedgerRows, LedgerAmount, Exists
    <2>4. k \in 0 .. LedgerAmount[id]
        BY <1>1, <2>2 DEF LedgerAmount
    <2> QED
        BY <2>3, <2>4 DEF Ledger!Placed
<1>5. ASSUME NEW m \in OrderId \ {id} PROVE bar'[m] \in Ledger!Matched(bar[m])
    <2>1. FilledFrom(tmp[m], txTmp[m]) /\ tmp[m] \in Row /\ txTmp[m] \in Row
        BY <1>1, <1>t DEF TableInv, TxInv, TxPhase, TypeOK
    <2>2. txTmp[m].avail >= 0
        BY DEF TableInv, RowsInv, RowsAgree
    <2> DEFINE k == tmp[m].avail - txTmp[m].avail
    <2>3. /\ k \in 0 .. tmp[m].avail
          /\ txTmp[m].avail = tmp[m].avail - k
          /\ txTmp[m].pend = tmp[m].pend + k
        <3>1. /\ tmp[m].avail \in Int /\ tmp[m].pend \in Int
              /\ txTmp[m].avail \in Int /\ txTmp[m].pend \in Int
            BY <2>1 DEF Row
        <3>2. /\ txTmp[m].avail <= tmp[m].avail
              /\ txTmp[m].avail + txTmp[m].pend = tmp[m].avail + tmp[m].pend
            BY <2>1 DEF FilledFrom
        <3> QED
            BY <3>1, <3>2, <2>2
    <2>4. /\ bar[m] = [placed |-> Exists(tmp, m), avail |-> tmp[m].avail,
                       pend |-> tmp[m].pend, canc |-> tmp[m].canc]
          /\ bar'[m] = [placed |-> Exists(txTmp, m), avail |-> txTmp[m].avail,
                        pend |-> txTmp[m].pend, canc |-> txTmp[m].canc]
        BY <1>1 DEF LedgerRows, Exists
    <2>5. /\ Exists(tmp, m) = Exists(txTmp, m) /\ txTmp[m].canc = tmp[m].canc
        BY <2>1 DEF FilledFrom, Exists
    <2>6. /\ bar[m].placed = Exists(tmp, m) /\ bar[m].avail = tmp[m].avail
          /\ bar[m].pend = tmp[m].pend /\ bar[m].canc = tmp[m].canc
        BY <2>4
    <2> HIDE DEF k, bar
    <2>7. /\ bar'[m] = [placed |-> bar[m].placed, avail |-> bar[m].avail - k,
                        pend |-> bar[m].pend + k, canc |-> bar[m].canc]
          /\ k \in 0 .. bar[m].avail
        BY <2>3, <2>4, <2>5, <2>6
    <2> QED
        BY <2>7 DEF Ledger!Matched
<1> QED
    BY <1>2, <1>3, <1>4, <1>5 DEF Ledger!Place

(* The second update of a cancellation is the abstract Cancel.             *)
LEMMA CancelTmpCancels ==
    ASSUME TableInv, CancelTmp
    PROVE  job.id \in OrderId /\ Ledger!Cancel(job.id)
<1> DEFINE id == job.id
           bar == LedgerRows
<1>1. /\ id \in OrderId /\ tmp \in [OrderId -> Row]
      /\ Exists(tmp, id) /\ tmp[id].avail = msg.avail /\ msg.avail > 0
      /\ tmp' = Updated(tmp, id, - msg.avail, msg.avail, 0, "cancled")
    BY DEF CancelTmp, TableInv, CancelInv, TypeOK, Job
<1>2. tmp' = [tmp EXCEPT ![id] = [avail |-> 0, canc |-> tmp[id].canc + tmp[id].avail,
                                  pend |-> tmp[id].pend, status |-> "cancled"]]
    <2>1. /\ tmp[id].avail + (- msg.avail) = 0 /\ tmp[id].pend + 0 = tmp[id].pend
          /\ tmp[id].canc + msg.avail = tmp[id].canc + tmp[id].avail
        BY <1>1 DEF Row
    <2> QED
        BY <1>1, <2>1 DEF Updated
<1>3. bar' = [bar EXCEPT ![id] = [placed |-> bar[id].placed, avail |-> 0,
                                  pend |-> bar[id].pend,
                                  canc |-> bar[id].canc + bar[id].avail]]
    <2>1. \A o \in OrderId \ {id} : tmp'[o] = tmp[o]
        BY <1>1, <1>2
    <2>2. /\ tmp'[id].avail = 0 /\ tmp'[id].canc = tmp[id].canc + tmp[id].avail
          /\ tmp'[id].pend = tmp[id].pend /\ Exists(tmp', id)
        BY <1>1, <1>2 DEF Exists
    <2>3. bar' = [o \in OrderId |->
                    IF o = id THEN [placed |-> TRUE, avail |-> 0, pend |-> tmp[id].pend,
                                    canc |-> tmp[id].canc + tmp[id].avail]
                    ELSE bar[o]]
        BY <1>1, <2>1, <2>2 DEF LedgerRows, Exists
    <2>4. bar[id] = [placed |-> TRUE, avail |-> tmp[id].avail, pend |-> tmp[id].pend,
                     canc |-> tmp[id].canc]
        BY <1>1 DEF LedgerRows
    <2> QED
        BY <1>1, <2>3, <2>4 DEF LedgerRows
<1> QED
    BY <1>1, <1>3 DEF Ledger!Cancel, LedgerRows

LEMMA LedgerStep ==
    TableInv /\ TableInv' /\ [Next]_vars => [Ledger!Next]_LedgerRows
<1> SUFFICES ASSUME TableInv, TableInv', [Next]_vars
             PROVE  Ledger!Next \/ UNCHANGED LedgerRows
    OBVIOUS
<1>1. CASE Commit
    <2>1. job.id \in OrderId
        BY <1>1 DEF Commit, TableInv, TypeOK, Job
    <2> QED
        BY <1>1, <2>1, CommitPlaces DEF Ledger!Next
<1>2. CASE CancelTmp
    BY <1>2, CancelTmpCancels DEF Ledger!Next
<1>3. CASE UNCHANGED tmp
    BY <1>3 DEF LedgerRows, Exists
<1>4. Commit \/ CancelTmp \/ UNCHANGED tmp
    BY DEF Next, vars, Requests, Worker, BuildOrder, CancelOrder, CancelOrders,
           CancelAllOrders, Admit, Enqueue, TakeJob, Done, CheckPassed, CheckFailed,
           Flush, Freeze, Fill, EndMatch, Publish, Insert, InsertRefused,
           CancelNothing, CancelMain, CancelBook, CancelFreeze, CallFails,
           PublishFails, Crash, Redeliver, Drop
<1> QED
    BY <1>1, <1>2, <1>3, <1>4

(* The engine, its queue, crashes and failures included, implements the    *)
(* order ledger: what the tables show of an order changes only by being    *)
(* placed once with all its fills, and by being cancelled.                 *)
THEOREM EngineImplementsLedger == Spec => ImplementsLedger
<1>1. Spec => Ledger!Init /\ [][Ledger!Next]_LedgerRows
    BY LedgerInit, LedgerStep, TableInvariant, PTL DEF Spec
<1> QED
    BY <1>1 DEF ImplementsLedger, Ledger!Spec

----------------------------------------------------------------------------
(* The two order tables without failures.                                  *)

LEMMA AgreeInit == Init => AgreeInv
  BY DEF Init, AgreeInv, TxPhase

LEMMA AgreeStep == TableInv /\ AgreeInv /\ [Next]_vars => AgreeInv'
<1> SUFFICES ASSUME TableInv, AgreeInv, [Next]_vars, failures' = 0
             PROVE  /\ orders' = IF pc' = "cancelTmp"
                                 THEN Updated(tmp, job.id, - msg.avail, msg.avail, 0,
                                              "cancled")'
                                 ELSE tmp'
                    /\ pc' \in TxPhase => txOrders' = txTmp'
    BY DEF AgreeInv
<1> DEFINE Agree == /\ orders = IF pc = "cancelTmp"
                                THEN Updated(tmp, job.id, - msg.avail, msg.avail, 0,
                                             "cancled")
                                ELSE tmp
                    /\ pc \in TxPhase => txOrders = txTmp
<1>t. TypeOK
    BY DEF TableInv
<1>f. /\ ~ Fail /\ failures = 0
      /\ ~ CallFails /\ ~ PublishFails /\ ~ Crash
    <2>1. ~ Fail
        BY <1>t DEF Fail, TypeOK
    <2>2. failures = 0
        BY <2>1 DEF Next, vars, Requests, Worker, BuildOrder, CancelOrder, CancelOrders,
           CancelAllOrders, Admit, Enqueue, TakeJob, Done, CheckPassed, CheckFailed,
           Flush, Freeze, Fill, EndMatch, Publish, Insert, InsertRefused, Commit,
           CancelNothing, CancelMain, CancelTmp, CancelBook, CancelFreeze, CallFails,
           PublishFails, Crash, Redeliver
    <2> QED
        BY <2>1, <2>2 DEF CallFails, PublishFails, Crash
<1>a. Agree
    BY <1>f DEF AgreeInv
<1>u. ASSUME UNCHANGED <<pc, job, msg, tables, txTables>> PROVE Agree'
    BY <1>u, <1>a DEF Updated, Exists
<1>q. ASSUME UNCHANGED tables, pc # "cancelTmp", pc' # "cancelTmp", pc' \notin TxPhase
      PROVE  Agree'
    BY <1>q, <1>a
<1>d. ASSUME Drop, pc # "cancelTmp" PROVE Agree'
    BY <1>d, <1>q DEF Drop, TxPhase
<1>1. CASE UNCHANGED vars
    BY <1>1, <1>u DEF vars
<1>2. CASE Requests \/ Redeliver
    BY <1>2, <1>u
    DEF Requests, BuildOrder, CancelOrder, CancelOrders, CancelAllOrders, Admit,
        Enqueue, Redeliver
<1>3. CASE TakeJob
    BY <1>3, <1>q DEF TakeJob, Dispatch, TxPhase
<1>4. CASE Done \/ CheckFailed \/ Flush \/ InsertRefused \/ CancelNothing
    BY <1>4, <1>d DEF Done, CheckFailed, Flush, InsertRefused, CancelNothing
<1>5. CASE CheckPassed \/ CancelBook \/ CancelFreeze
    BY <1>5, <1>q DEF CheckPassed, CancelBook, CancelFreeze, TxPhase
<1>6. CASE Freeze
    <2>1. txOrders = orders /\ txTmp = tmp
        BY <1>6 DEF Freeze, TableInv, TxInv, TxPhase
    <2> QED
        BY <1>6, <1>a, <2>1 DEF Freeze
<1>7. ASSUME NEW m \in OrderId, Fill(m) PROVE Agree'
    BY <1>7, <1>a DEF Fill, TxPhase
<1>8. CASE EndMatch \/ Publish
    BY <1>8, <1>a DEF EndMatch, Publish, TxPhase
<1>9. CASE Insert
    BY <1>9, <1>a DEF Insert, TxPhase
<1>10. CASE Commit
    BY <1>10, <1>a DEF Commit, TxPhase
<1>11. CASE CancelMain
    <2> DEFINE id == job.id
               left == orders[id].avail
    <2>1. /\ pc = "cancel" /\ pc' = "cancelTmp" /\ msg'.avail = left
          /\ job' = job /\ tmp' = tmp
          /\ orders' = Updated(orders, id, - left, left, 0, "cancled")
        BY <1>11 DEF CancelMain
    <2>2. orders = tmp
        BY <2>1, <1>a
    <2>3. orders' = Updated(tmp, job.id, - msg.avail, msg.avail, 0, "cancled")'
        BY <2>1, <2>2 DEF Updated, Exists
    <2> QED
        BY <2>1, <2>3 DEF TxPhase
<1>12. CASE CancelTmp
    BY <1>12, <1>a DEF CancelTmp, TxPhase
<1> QED
    BY <1>1, <1>2, <1>3, <1>4, <1>5, <1>6, <1>7, <1>8, <1>9, <1>10, <1>11, <1>12, <1>f
    DEF Next, Worker

(* As long as nothing fails, every update reaches both tables              *)
(* (models/db.ts, update_orders and insert_order_v2).                      *)
THEOREM TablesAlwaysAgree == Spec => []TablesAgree
<1>1. AgreeInv => TablesAgree
    BY DEF AgreeInv, TablesAgree
<1> QED
    BY <1>1, AgreeInit, AgreeStep, TableInvariant, PTL DEF Spec

----------------------------------------------------------------------------
(* Price priority.                                                         *)

LEMMA TradesInit == Init => TradesInv
  BY DEF Init, TradesInv

LEMMA TradesStep == TableInv /\ TableInv' /\ TradesInv /\ [Next]_vars => TradesInv'
<1> SUFFICES ASSUME TableInv, TableInv', TradesInv, [Next]_vars PROVE TradesInv'
    OBVIOUS
<1>t. TypeOK
    BY DEF TableInv
<1>u. ASSUME pc' \in TxPhase => job' = job /\ UNCHANGED <<trades, txTmp, txTrades>>
      PROVE  TradesInv'
    BY <1>u DEF TradesInv, TableInv, TxInv
<1>1. CASE UNCHANGED vars
    BY <1>1, <1>u DEF vars
<1>2. CASE Requests \/ Redeliver
    BY <1>2, <1>u
    DEF Requests, BuildOrder, CancelOrder, CancelOrders, CancelAllOrders, Admit,
        Enqueue, Redeliver
<1>3. CASE TakeJob
    BY <1>3, <1>u DEF TakeJob, Dispatch, TxPhase
<1>4. CASE Done \/ CheckFailed \/ Flush \/ InsertRefused \/ CancelNothing
           \/ CallFails \/ Crash
    BY <1>4, <1>u DEF Done, CheckFailed, Flush, InsertRefused, CancelNothing,
                      CallFails, Crash, Drop, TxPhase
<1>5. CASE CheckPassed \/ CancelMain \/ CancelTmp \/ CancelBook \/ CancelFreeze \/ Commit
    BY <1>5, <1>u DEF CheckPassed, CancelMain, CancelTmp, CancelBook, CancelFreeze,
                      Commit, TxPhase
<1>6. CASE Freeze \/ EndMatch \/ Publish \/ PublishFails
    BY <1>6, <1>u DEF Freeze, EndMatch, Publish, PublishFails
<1>7. ASSUME NEW m \in OrderId, Fill(m) PROVE TradesInv'
    <2> DEFINE o == job.id
               new == [taker |-> o, maker |-> m, amount |-> FillAmount(m)]
    <2>1. /\ m \in Best(o) /\ txTmp[m].avail > 0 /\ Crosses(o, m)
          /\ UNCHANGED <<job, trades>>
          /\ txTrades' = txTrades \cup {new}
          /\ txTmp' = Filled(txTmp, m)
        BY <1>7 DEF Fill, Best, filter_orders
    <2>2. \A n \in OrderId \ {m} : txTmp'[n] = txTmp[n]
        BY <2>1, <1>t DEF TypeOK, Filled, Updated
    <2>3. ASSUME NEW t \in txTrades \ trades PROVE
            /\ t.taker = o
            /\ \A n \in OrderId :
                 Crosses(o, n) /\ ~ AsGood(o, t.maker, n) => txTmp'[n].avail = 0
        BY <2>1, <2>2 DEF TradesInv
    <2>4. ASSUME NEW n \in OrderId, Crosses(o, n), ~ AsGood(o, m, n)
          PROVE  txTmp'[n].avail = 0
        <3>1. n # m
            BY <2>1, <2>4 DEF Best
        <3>2. ~ (txTmp[n].avail > 0)
            BY <2>1, <2>4 DEF Best, filter_orders
        <3>3. txTmp[n].avail \in Int /\ txTmp[n].avail >= 0
            BY <1>t DEF TableInv, RowsInv, RowsAgree, TypeOK, Row
        <3> QED
            BY <2>2, <3>1, <3>2, <3>3
    <2>5. new.taker = o /\ new.maker = m
        OBVIOUS
    <2> HIDE DEF new
    <2> QED
        BY <2>1, <2>3, <2>4, <2>5 DEF TradesInv
<1>8. CASE Insert
    <2> DEFINE id == job.id
    <2>1. /\ id \in OrderId /\ UNCHANGED <<job, trades, txTrades>>
          /\ \A n \in OrderId \ {id} : txTmp'[n] = txTmp[n]
        BY <1>8, <1>t DEF Insert, TypeOK, Job
    <2>2. ~ Crosses(id, id)
        BY <2>1, CrossesSymmetric
    <2> QED
        BY <2>1, <2>2 DEF TradesInv
<1> QED
    BY <1>1, <1>2, <1>3, <1>4, <1>5, <1>6, <1>7, <1>8 DEF Next, Worker

(* A taker is matched with the best prices of the book (api/engine.ts,     *)
(* match; models/db.ts, filter_orders).                                    *)
THEOREM BestPriceAlwaysFirst == Spec => BestPriceFirst
<1> DEFINE A == \A t \in trades' \ trades :
                    \A n \in OrderId :
                        /\ Crosses(t.taker, n)
                        /\ tmp[n].avail > 0
                        /\ ~ AsGood(t.taker, t.maker, n)
                        => tmp'[n].avail = 0
<1>1. TableInv /\ TradesInv /\ [Next]_vars => [A]_vars
    <2> SUFFICES ASSUME TableInv, TradesInv, Next PROVE A
        OBVIOUS
    <2>1. CASE Commit
        BY <2>1 DEF Commit, TradesInv
    <2>2. Commit \/ trades' = trades
        BY DEF Next, Requests, Worker, BuildOrder, CancelOrder, CancelOrders,
           CancelAllOrders, Admit, Enqueue, TakeJob, Done, CheckPassed, CheckFailed,
           Flush, Freeze, Fill, EndMatch, Publish, Insert, InsertRefused,
           CancelNothing, CancelMain, CancelTmp, CancelBook, CancelFreeze, CallFails,
           PublishFails, Crash, Redeliver, Drop
    <2> QED
        BY <2>1, <2>2
<1> QED
    BY <1>1, TradesInit, TradesStep, TableInvariant, PTL DEF Spec, BestPriceFirst

----------------------------------------------------------------------------
(* The freeze and the balance.                                             *)

LEMMA FreezeInit == Init => FreezeInv
  BY BalanceAssumption DEF Init, FreezeInv, FreezeWithinBalance

LEMMA FreezeStep == TableInv /\ FreezeInv /\ [Next]_vars => FreezeInv'
<1> SUFFICES ASSUME TableInv, FreezeInv, [Next]_vars PROVE FreezeInv'
    OBVIOUS
<1>t. TypeOK
    BY DEF TableInv
<1>u. ASSUME UNCHANGED <<freeze, skipped>>, pc' = "freeze" => pc = "freeze" /\ job' = job
      PROVE  FreezeInv'
    BY <1>u DEF FreezeInv, FreezeWithinBalance, Affordable, Frozen
<1>d. ASSUME Drop, skipped' = skipped PROVE FreezeInv'
    BY <1>d, <1>u DEF Drop
<1>1. CASE UNCHANGED vars
    BY <1>1, <1>u DEF vars
<1>2. CASE Requests \/ Redeliver
    BY <1>2, <1>u
    DEF Requests, BuildOrder, CancelOrder, CancelOrders, CancelAllOrders, Admit,
        Enqueue, Redeliver
<1>3. CASE TakeJob
    BY <1>3 DEF TakeJob, FreezeInv, FreezeWithinBalance
<1>4. CASE Done \/ CheckFailed \/ Flush \/ InsertRefused \/ CancelNothing
           \/ CallFails \/ Crash
    BY <1>4, <1>d DEF Done, CheckFailed, Flush, InsertRefused, CancelNothing,
                      CallFails, Crash, Fail
<1>5. CASE CheckPassed
    BY <1>5 DEF CheckPassed, FreezeInv, FreezeWithinBalance, Affordable, Frozen
<1>6. CASE (\E m \in OrderId : Fill(m)) \/ EndMatch \/ Publish \/ Insert \/ Commit
           \/ CancelMain \/ CancelTmp \/ CancelBook \/ PublishFails
    BY <1>6, <1>u DEF Fill, EndMatch, Publish, PublishFails, Fail, Insert, Commit, CancelMain, CancelTmp,
                      CancelBook
<1>7. CASE Freeze
    <2> DEFINE id == job.id
               cost == Cost(id, Order[id].amount)
    <2>1. /\ id \in OrderId /\ pc' = "match" /\ skipped' = skipped
          /\ freeze' = Freezing(id, Order[id].amount)
          /\ Affordable(id) \/ skipped
        BY <1>7, <1>t DEF Freeze, FreezeInv, TypeOK, Job
    <2>2. Order[id].trader \in Trader /\ PayToken(id) \in Token
        BY <2>1, OrderType
    <2>3. ASSUME NEW t \in Trader, NEW k \in Token, ~ skipped
          PROVE  freeze'[t][k] <= Balance[t][k]
        <3>1. freeze[t][k] <= Balance[t][k]
            BY <2>3 DEF FreezeInv, FreezeWithinBalance
        <3>2. CASE t = Order[id].trader /\ k = PayToken(id)
            <4>1. freeze'[t][k] = freeze[t][k] + cost
                BY <2>1, <2>2, <3>2, <1>t DEF Freezing, TypeOK
            <4>2. cost <= Balance[t][k] - freeze[t][k]
                BY <2>1, <2>3, <3>2 DEF Affordable, Frozen
            <4>3. cost \in Int
                BY <2>1, AmountType, CostType
            <4>4. freeze[t][k] \in Int /\ Balance[t][k] \in Int
                BY <1>t, BalanceAssumption DEF TypeOK
            <4> HIDE DEF cost
            <4> QED
                BY <4>1, <4>2, <4>3, <4>4
        <3>3. CASE ~ (t = Order[id].trader /\ k = PayToken(id))
            <4>1. freeze'[t][k] = freeze[t][k]
                BY <2>1, <2>2, <3>3, <1>t DEF Freezing, TypeOK
            <4> QED
                BY <3>1, <4>1
        <3> QED
            BY <3>2, <3>3
    <2> QED
        BY <2>1, <2>3 DEF FreezeInv, FreezeWithinBalance
<1>8. CASE CancelFreeze
    <2> DEFINE id == job.id
    <2>1. /\ id \in OrderId /\ pc' = "done" /\ skipped' = skipped
          /\ freeze' = Freezing(id, - msg.avail)
          /\ msg.avail \in Nat
        BY <1>8, <1>t DEF CancelFreeze, TypeOK, Job
    <2>2. Order[id].trader \in Trader /\ PayToken(id) \in Token
        BY <2>1, OrderType
    <2>3. Cost(id, - msg.avail) \in Int /\ Cost(id, - msg.avail) <= 0
        <3>1. Order[id].price \in Nat
            BY <2>1, OrderType
        <3>2. Order[id].price * (- msg.avail) = - (Order[id].price * msg.avail)
            BY <2>1, <3>1
        <3>3. Order[id].price * msg.avail \in Nat
            BY <2>1, <3>1
        <3> QED
            BY <2>1, <3>2, <3>3 DEF Cost
    <2>4. ASSUME NEW t \in Trader, NEW k \in Token PROVE freeze'[t][k] <= freeze[t][k]
        <3>1. freeze[t][k] \in Int
            BY <1>t DEF TypeOK
        <3>2. freeze'[t][k] = freeze[t][k] \/ freeze'[t][k] = freeze[t][k] + Cost(id, - msg.avail)
            BY <2>1, <2>2, <1>t DEF Freezing, TypeOK
        <3> QED
            BY <2>3, <3>1, <3>2
    <2>5. \A t \in Trader, k \in Token :
             freeze[t][k] \in Int /\ freeze'[t][k] \in Int /\ Balance[t][k] \in Int
        <3>1. freeze' \in [Trader -> [Token -> Int]]
            BY <2>1, <1>t, FreezingType DEF TypeOK
        <3> QED
            BY <3>1, <1>t, BalanceAssumption DEF TypeOK
    <2> QED
        BY <2>1, <2>4, <2>5 DEF FreezeInv, FreezeWithinBalance
<1> QED
    BY <1>1, <1>2, <1>3, <1>4, <1>5, <1>6, <1>7, <1>8 DEF Next, Worker

(* No trader freezes more than its balance while the queue is short        *)
(* (adex_engine/index.ts, checkOrderAvailability before updateFreeze).     *)
THEOREM FreezeBounded == Spec => []FreezeWithinBalance
<1>1. FreezeInv => FreezeWithinBalance
    BY DEF FreezeInv
<1> QED
    BY <1>1, FreezeInit, FreezeStep, TableInvariant, PTL DEF Spec

----------------------------------------------------------------------------
(* The sums over a table or a set of trades, as sums over all orders or    *)
(* trades.                                                                 *)

Table == [OrderId -> Row]

NeededOf(table, t, k) ==
    [o \in OrderId |-> IF Order[o].trader = t /\ PayToken(o) = k
                       THEN Cost(o, table[o].avail + table[o].pend) ELSE 0]

RestingOf(table, l) ==
    [o \in OrderId |-> IF Level(o) = l THEN table[o].avail ELSE 0]

TradedOf(made, o) == [t \in made |-> IF o \in {t.taker, t.maker} THEN t.amount ELSE 0]

LEMMA NeededFacts ==
    ASSUME NEW table \in Table, NEW t, NEW k
    PROVE  /\ Integral(NeededOf(table, t, k))
           /\ Needed(table, t, k) = Sum(NeededOf(table, t, k))
           /\ Needed(table, t, k) \in Int
<1> DEFINE f == NeededOf(table, t, k)
           S == {o \in OrderId : Order[o].trader = t /\ PayToken(o) = k}
           g == [o \in S |-> Cost(o, table[o].avail + table[o].pend)]
<1>1. \A o \in OrderId : Cost(o, table[o].avail + table[o].pend) \in Int
    BY CostType DEF Table, Row
<1>2. Integral(f) /\ DOMAIN f = OrderId
    BY <1>1, OrderAssumption DEF Integral, NeededOf
<1>3. /\ DOMAIN g \subseteq DOMAIN f
      /\ \A o \in DOMAIN g : g[o] = f[o]
      /\ \A o \in DOMAIN f \ DOMAIN g : f[o] = 0
    BY DEF NeededOf
<1>4. Needed(table, t, k) = Sum(g)
    BY DEF Needed
<1> HIDE DEF f, g
<1>5. Sum(g) = Sum(f) /\ Sum(f) \in Int
    BY <1>2, <1>3, SumWithout, SumType
<1> QED
    BY <1>2, <1>4, <1>5 DEF f

LEMMA RestingFacts ==
    ASSUME NEW table \in Table, NEW l
    PROVE  /\ Integral(RestingOf(table, l))
           /\ Resting(table, l) = Sum(RestingOf(table, l))
           /\ Resting(table, l) \in Int
<1> DEFINE f == RestingOf(table, l)
           g == [o \in {o \in OrderId : Level(o) = l} |-> table[o].avail]
<1>1. Integral(f) /\ DOMAIN f = OrderId
    BY OrderAssumption DEF Integral, RestingOf, Table, Row
<1>2. /\ DOMAIN g \subseteq DOMAIN f
      /\ \A o \in DOMAIN g : g[o] = f[o]
      /\ \A o \in DOMAIN f \ DOMAIN g : f[o] = 0
    BY DEF RestingOf
<1>3. Resting(table, l) = Sum(g)
    BY DEF Resting
<1> HIDE DEF f, g
<1>4. Sum(g) = Sum(f) /\ Sum(f) \in Int
    BY <1>1, <1>2, SumWithout, SumType
<1> QED
    BY <1>1, <1>3, <1>4 DEF f

LEMMA TradedFacts ==
    ASSUME NEW made, IsFiniteSet(made), made \subseteq Trade, NEW o
    PROVE  /\ Integral(TradedOf(made, o))
           /\ Traded(made, o) = Sum(TradedOf(made, o))
           /\ Traded(made, o) \in Int
<1> DEFINE f == TradedOf(made, o)
           g == [t \in {t \in made : o \in {t.taker, t.maker}} |-> t.amount]
<1>1. Integral(f) /\ DOMAIN f = made
    BY DEF Integral, TradedOf, Trade
<1>2. /\ DOMAIN g \subseteq DOMAIN f
      /\ \A t \in DOMAIN g : g[t] = f[t]
      /\ \A t \in DOMAIN f \ DOMAIN g : f[t] = 0
    BY DEF TradedOf
<1>3. Traded(made, o) = Sum(g)
    BY DEF Traded
<1> HIDE DEF f, g
<1>4. Sum(g) = Sum(f) /\ Sum(f) \in Int
    BY <1>1, <1>2, SumWithout, SumType
<1> QED
    BY <1>1, <1>3, <1>4 DEF f

(* A table that differs in one order.                                      *)
LEMMA NeededChange ==
    ASSUME NEW old \in Table, NEW new \in Table, NEW o \in OrderId,
           \A p \in OrderId \ {o} : new[p].avail + new[p].pend = old[p].avail + old[p].pend
    PROVE  /\ Needed(new, Order[o].trader, PayToken(o))
                = Needed(old, Order[o].trader, PayToken(o))
                  + Cost(o, new[o].avail + new[o].pend) - Cost(o, old[o].avail + old[o].pend)
           /\ \A t \in Trader, k \in Token :
                 t # Order[o].trader \/ k # PayToken(o) => Needed(new, t, k) = Needed(old, t, k)
<1>1. ASSUME NEW t, NEW k
      PROVE  Needed(new, t, k) = Needed(old, t, k) + NeededOf(new, t, k)[o]
                                                  - NeededOf(old, t, k)[o]
    <2>1. PICK f, g : f = NeededOf(old, t, k) /\ g = NeededOf(new, t, k)
        OBVIOUS
    <2>2. DOMAIN f = OrderId /\ DOMAIN g = OrderId
        BY <2>1 DEF NeededOf
    <2>3. \A p \in OrderId \ {o} : g[p] = f[p]
        BY <2>1 DEF NeededOf
    <2>4. /\ Integral(f) /\ Needed(old, t, k) = Sum(f)
          /\ Integral(g) /\ Needed(new, t, k) = Sum(g)
        BY <2>1, NeededFacts
    <2>5. g[o] \in Int
        BY <2>2, <2>4 DEF Integral
    <2>6. Sum(g) = Sum(f) + g[o] - f[o]
        BY <2>2, <2>3, <2>4, <2>5, SumChange
    <2> QED
        BY <2>1, <2>4, <2>6
<1>2. /\ NeededOf(new, Order[o].trader, PayToken(o))[o] = Cost(o, new[o].avail + new[o].pend)
      /\ NeededOf(old, Order[o].trader, PayToken(o))[o] = Cost(o, old[o].avail + old[o].pend)
      /\ \A t \in Trader, k \in Token :
            t # Order[o].trader \/ k # PayToken(o) =>
               NeededOf(new, t, k)[o] = 0 /\ NeededOf(old, t, k)[o] = 0
    BY DEF NeededOf
<1>3. \A t \in Trader, k \in Token : Needed(old, t, k) \in Int
    BY NeededFacts
<1>4. ASSUME NEW t \in Trader, NEW k \in Token, t # Order[o].trader \/ k # PayToken(o)
      PROVE  Needed(new, t, k) = Needed(old, t, k)
    <2>1. Needed(new, t, k) = Needed(old, t, k) + 0 - 0
        BY <1>1, <1>2, <1>4
    <2> QED
        BY <1>3, <2>1
<1> QED
    BY <1>1, <1>2, <1>4

LEMMA RestingChange ==
    ASSUME NEW old \in Table, NEW new \in Table, NEW o \in OrderId,
           \A p \in OrderId \ {o} : new[p].avail = old[p].avail
    PROVE  /\ Resting(new, Level(o)) = Resting(old, Level(o)) + new[o].avail - old[o].avail
           /\ \A l \in Levels : l # Level(o) => Resting(new, l) = Resting(old, l)
<1>1. ASSUME NEW l
      PROVE  Resting(new, l) = Resting(old, l) + RestingOf(new, l)[o] - RestingOf(old, l)[o]
    <2>1. PICK f, g : f = RestingOf(old, l) /\ g = RestingOf(new, l)
        OBVIOUS
    <2>2. DOMAIN f = OrderId /\ DOMAIN g = OrderId
        BY <2>1 DEF RestingOf
    <2>3. \A p \in OrderId \ {o} : g[p] = f[p]
        BY <2>1 DEF RestingOf
    <2>4. /\ Integral(f) /\ Resting(old, l) = Sum(f)
          /\ Integral(g) /\ Resting(new, l) = Sum(g)
        BY <2>1, RestingFacts
    <2>5. g[o] \in Int
        BY <2>2, <2>4 DEF Integral
    <2>6. Sum(g) = Sum(f) + g[o] - f[o]
        BY <2>2, <2>3, <2>4, <2>5, SumChange
    <2> QED
        BY <2>1, <2>4, <2>6
<1>2. /\ RestingOf(new, Level(o))[o] = new[o].avail
      /\ RestingOf(old, Level(o))[o] = old[o].avail
      /\ \A l \in Levels : l # Level(o) =>
            RestingOf(new, l)[o] = 0 /\ RestingOf(old, l)[o] = 0
    BY DEF RestingOf
<1>3. \A l \in Levels : Resting(old, l) \in Int
    BY RestingFacts
<1>4. ASSUME NEW l \in Levels, l # Level(o)
      PROVE  Resting(new, l) = Resting(old, l)
    <2>1. Resting(new, l) = Resting(old, l) + 0 - 0
        BY <1>1, <1>2, <1>4
    <2> QED
        BY <1>3, <2>1
<1> QED
    BY <1>1, <1>2, <1>4

(* One trade more.                                                         *)
LEMMA TradedAdd ==
    ASSUME NEW made, IsFiniteSet(made), made \subseteq Trade,
           NEW n \in Trade, n \notin made, NEW o
    PROVE  Traded(made \cup {n}, o)
              = IF o \in {n.taker, n.maker} THEN Traded(made, o) + n.amount
                                            ELSE Traded(made, o)
<1>1. IsFiniteSet(made \cup {n}) /\ made \cup {n} \subseteq Trade
    BY FS_AddElement
<1>2. PICK f, g : f = TradedOf(made, o) /\ g = TradedOf(made \cup {n}, o)
    OBVIOUS
<1>3. DOMAIN f = made /\ DOMAIN g = made \cup {n}
    BY <1>2 DEF TradedOf
<1>4. /\ \A t \in made : g[t] = f[t]
      /\ g[n] = IF o \in {n.taker, n.maker} THEN n.amount ELSE 0
    BY <1>2 DEF TradedOf
<1>5. /\ Integral(f) /\ Traded(made, o) = Sum(f) /\ Traded(made, o) \in Int
      /\ Integral(g) /\ Traded(made \cup {n}, o) = Sum(g)
    BY <1>1, <1>2, TradedFacts
<1>6. g[n] \in Int
    BY <1>3, <1>5 DEF Integral
<1>7. Sum(g) = Sum(f) + g[n]
    BY <1>3, <1>4, <1>5, <1>6, SumAdd
<1> QED
    BY <1>4, <1>5, <1>7

----------------------------------------------------------------------------
(* Pending amounts and trades.                                             *)

LEMMA PendingInit == Init => PendingInv
<1> SUFFICES ASSUME Init PROVE PendingInv
    OBVIOUS
<1>1. /\ trades = {} /\ txTrades = {} /\ pc \notin TxPhase /\ pc # "match"
      /\ \A o \in OrderId : tmp[o].pend = 0
    BY DEF Init, TxPhase, NoRow
<1>2. MadeInv
    BY <1>1, FS_EmptySet DEF MadeInv
<1>3. ASSUME NEW o \in OrderId PROVE Traded({}, o) = 0
    <2>1. Traded({}, o) = Sum(TradedOf({}, o))
        BY TradedFacts, FS_EmptySet
    <2>2. DOMAIN TradedOf({}, o) = {}
        BY DEF TradedOf
    <2> QED
        BY <2>1, <2>2, SumEmpty
<1> QED
    BY <1>1, <1>2, <1>3 DEF PendingInv, PendingBacked

LEMMA PendingStep == TableInv /\ TableInv' /\ PendingInv /\ [Next]_vars => PendingInv'
<1> SUFFICES ASSUME TableInv, TableInv', PendingInv, [Next]_vars PROVE PendingInv'
    OBVIOUS
<1>t. TypeOK /\ TypeOK'
    BY DEF TableInv
<1>u. ASSUME UNCHANGED <<pc, job, msg, tmp, trades, txTmp, txTrades>> PROVE PendingInv'
    BY <1>u DEF PendingInv, MadeInv, PendingBacked, Exists
<1>q. ASSUME UNCHANGED <<tmp, trades>>, txTrades' = trades, pc' \notin TxPhase
      PROVE  PendingInv'
    <2>1. MadeInv'
        BY <1>q, FS_Subset DEF PendingInv, MadeInv, Exists, TxPhase
    <2> QED
        BY <1>q, <2>1 DEF PendingInv, PendingBacked
<1>1. CASE UNCHANGED vars
    BY <1>1, <1>u DEF vars
<1>2. CASE Requests \/ Redeliver
    BY <1>2, <1>u
    DEF Requests, BuildOrder, CancelOrder, CancelOrders, CancelAllOrders, Admit,
        Enqueue, Redeliver
<1>3. CASE TakeJob \/ CheckPassed \/ CancelMain \/ CancelBook \/ CancelFreeze
    <2>1. /\ pc \notin TxPhase /\ pc' \notin TxPhase
          /\ UNCHANGED <<tmp, trades, txTrades>>
        BY <1>3 DEF TakeJob, Dispatch, CheckPassed, CancelMain, CancelBook,
                    CancelFreeze, TxPhase
    <2>2. txTrades = trades
        BY <2>1 DEF TableInv, TxInv
    <2> QED
        BY <1>q, <2>1, <2>2
<1>4. CASE Done \/ CheckFailed \/ Flush \/ InsertRefused \/ CancelNothing
           \/ CallFails \/ Crash
    BY <1>4, <1>q DEF Done, CheckFailed, Flush, InsertRefused, CancelNothing,
                      CallFails, Crash, Drop, TxPhase
<1>5. CASE Freeze
    <2>1. /\ pc = "freeze" /\ pc' = "match" /\ job.id \in OrderId /\ msg'.pend = 0
          /\ UNCHANGED <<job, tmp, trades, txTmp, txTrades>>
        BY <1>5, <1>t DEF Freeze, TypeOK, Job
    <2>2. txTmp = tmp /\ txTrades = trades
        BY <2>1 DEF TableInv, TxInv, TxPhase
    <2>3. MadeInv'
        BY <2>1, <2>2 DEF PendingInv, MadeInv, Exists
    <2>4. ~ Exists(tmp, job.id) => tmp[job.id].pend = 0
        <3>1. RowsAgree(orders[job.id], tmp[job.id], Order[job.id].amount)
            BY <2>1 DEF TableInv, RowsInv
        <3> QED
            BY <3>1 DEF RowsAgree, Exists, NoRow
    <2>5. \A o \in OrderId : Traded(trades, o) = tmp[o].pend
        BY DEF PendingInv, PendingBacked
    <2> QED
        BY <2>1, <2>2, <2>3, <2>4, <2>5 DEF PendingInv, PendingBacked, Exists
<1>6. ASSUME NEW m \in OrderId, Fill(m) PROVE PendingInv'
    <2> DEFINE k == FillAmount(m)
               n == [taker |-> job.id, maker |-> m, amount |-> k]
    <2>1. /\ pc = "match" /\ pc' = "match" /\ job.id \in OrderId /\ msg.avail > 0
          /\ UNCHANGED <<job, tmp, trades>>
          /\ txTrades' = txTrades \cup {n} /\ txTmp' = Filled(txTmp, m)
          /\ msg' = [avail |-> msg.avail - k, pend |-> msg.pend + k]
          /\ txTmp[m].avail > 0
        BY <1>6, <1>t DEF Fill, Best, filter_orders, TypeOK, Job
    <2>2. /\ k \in Nat /\ k <= msg.avail /\ k <= txTmp[m].avail
          /\ k = msg.avail \/ k = txTmp[m].avail
        BY <2>1, <1>t, FillAmountType DEF FillAmount
    <2>3. Exists(txTmp, m) /\ Exists(tmp, m)
        <3>1. RowsAgree(txOrders[m], txTmp[m], Order[m].amount)
            BY DEF TableInv, RowsInv
        <3>2. FilledFrom(tmp[m], txTmp[m])
            BY <2>1 DEF TableInv, TxInv, TxPhase
        <3> QED
            BY <2>1, <3>1, <3>2 DEF RowsAgree, FilledFrom, Exists, NoRow
    <2>4. /\ \A p \in OrderId \ {m} : txTmp'[p] = txTmp[p]
          /\ txTmp'[m].avail = txTmp[m].avail - k
          /\ txTmp'[m].pend = txTmp[m].pend + k
        <3>1. txTmp[m] \in Row /\ txTmp \in [OrderId -> Row]
            BY <1>t DEF TypeOK
        <3> QED
            BY <2>1, <2>2, <2>3, <3>1 DEF Filled, Updated, Row
    <2>5. n.taker = job.id /\ n.maker = m /\ n.amount = k /\ n \in Trade
        BY <2>1, <2>2 DEF Trade
    <2>6. /\ msg.avail \in Nat /\ msg.pend \in Nat
          /\ msg'.avail = msg.avail - k /\ msg'.pend = msg.pend + k
          /\ \A p \in OrderId : txTmp[p].avail \in Int /\ txTmp[p].pend \in Int
        BY <2>1, <1>t DEF TypeOK, Row
    <2> HIDE DEF n, k
    <2>7. MadeInv'
        <3>1. IsFiniteSet(txTrades') /\ trades' \subseteq txTrades'
            BY <2>1, FS_AddElement DEF PendingInv, MadeInv
        <3>2. \A t \in trades' : Exists(tmp', t.taker) /\ Exists(tmp', t.maker)
            BY <2>1 DEF PendingInv, MadeInv
        <3>3. ASSUME NEW t \in txTrades' \ trades'
              PROVE  /\ t.taker = job.id /\ Exists(tmp, t.maker)
                     /\ txTmp'[t.maker].avail = 0 \/ msg'.avail = 0
            <4>1. CASE t = n
                BY <2>2, <2>3, <2>4, <2>5, <2>6, <4>1
            <4>2. CASE t # n
                <5>1. /\ t \in txTrades \ trades /\ t.maker \in OrderId
                    BY <2>1, <3>3, <4>2, <1>t DEF TypeOK, Trade
                <5>2. /\ t.taker = job.id /\ Exists(tmp, t.maker)
                      /\ txTmp[t.maker].avail = 0
                    BY <2>1, <2>6, <5>1 DEF PendingInv, MadeInv
                <5>3. t.maker # m
                    BY <2>1, <5>2
                <5> QED
                    BY <2>4, <5>1, <5>2, <5>3
            <4> QED
                BY <4>1, <4>2
        <3> QED
            BY <2>1, <3>1, <3>2, <3>3 DEF MadeInv, Exists
    <2>8. ASSUME ~ Exists(tmp, job.id), NEW o \in OrderId
          PROVE  Traded(txTrades', o) = IF o = job.id THEN msg'.pend ELSE txTmp'[o].pend
        <3>1. m # job.id
            BY <2>3, <2>8
        <3>2. n \notin txTrades
            <4>1. n \notin trades
                BY <2>5, <2>8 DEF PendingInv, MadeInv
            <4> QED
                BY <2>1, <2>5, <2>6, <4>1 DEF PendingInv, MadeInv
        <3>3. Traded(txTrades, o) = IF o = job.id THEN msg.pend ELSE txTmp[o].pend
            BY <2>1, <2>8 DEF PendingInv, TxPhase
        <3>4. Traded(txTrades', o) = IF o \in {job.id, m} THEN Traded(txTrades, o) + k
                                                         ELSE Traded(txTrades, o)
            <4>1. IsFiniteSet(txTrades) /\ txTrades \subseteq Trade
                BY <1>t DEF PendingInv, MadeInv, TypeOK
            <4> QED
                BY <2>1, <2>5, <3>2, <4>1, TradedAdd
        <3> QED
            BY <2>4, <2>6, <3>1, <3>3, <3>4
    <2> QED
        BY <2>1, <2>7, <2>8 DEF PendingInv, PendingBacked, Exists
<1>7. CASE EndMatch \/ Publish \/ PublishFails
    <2>1. /\ pc \in {"match", "publish"} /\ pc' \in {"publish", "insert"}
          /\ UNCHANGED <<job, msg, tmp, trades, txTmp, txTrades>>
        BY <1>7 DEF EndMatch, Publish, PublishFails
    <2> QED
        BY <2>1 DEF PendingInv, MadeInv, PendingBacked, Exists, TxPhase
<1>8. CASE Insert
    <2>1. /\ pc = "insert" /\ pc' = "commit" /\ job.id \in OrderId
          /\ UNCHANGED <<job, msg, tmp, trades, txTrades>>
          /\ txTmp' = [txTmp EXCEPT ![job.id] = NewRow]
        BY <1>8, <1>t DEF Insert, TypeOK, Job
    <2>2. MadeInv'
        BY <2>1 DEF PendingInv, MadeInv, Exists
    <2>3. txTmp'[job.id].pend = msg.pend /\ \A o \in OrderId \ {job.id} : txTmp'[o] = txTmp[o]
        BY <2>1, <1>t DEF NewRow, TypeOK
    <2> QED
        BY <2>1, <2>2, <2>3 DEF PendingInv, PendingBacked, Exists, TxPhase
<1>9. CASE Commit
    <2>1. /\ pc = "commit" /\ pc' = "done" /\ job.id \in OrderId
          /\ tmp' = txTmp /\ trades' = txTrades /\ txTrades' = txTrades
        BY <1>9, <1>t DEF Commit, TypeOK, Job
    <2>2. ~ Exists(tmp, job.id) /\ Exists(txTmp, job.id)
        BY <2>1 DEF TableInv, TxInv
    <2>3. \A o \in OrderId : Traded(txTrades, o) = txTmp[o].pend
        BY <2>1, <2>2 DEF PendingInv, TxPhase
    <2>4. ASSUME NEW o \in OrderId, Exists(tmp, o) PROVE Exists(txTmp, o)
        BY <2>1, <2>2, <2>4 DEF TableInv, TxInv, TxPhase, FilledFrom, Exists
    <2>5. \A t \in txTrades : Exists(txTmp, t.taker) /\ Exists(txTmp, t.maker)
        <3>1. \A t \in txTrades : t.taker \in OrderId /\ t.maker \in OrderId
            BY <1>t DEF TypeOK, Trade
        <3> QED
            BY <2>2, <2>4, <3>1 DEF PendingInv, MadeInv
    <2>6. MadeInv'
        BY <2>1, <2>5 DEF PendingInv, MadeInv, Exists
    <2> QED
        BY <2>1, <2>3, <2>6 DEF PendingInv, PendingBacked, TxPhase
<1>10. CASE CancelTmp
    <2>1. /\ pc = "cancelTmp" /\ pc' = "cancelBook" /\ job.id \in OrderId
          /\ UNCHANGED <<trades, txTrades>>
          /\ tmp' = Updated(tmp, job.id, - msg.avail, msg.avail, 0, "cancled")
        BY <1>10, <1>t DEF CancelTmp, TypeOK, Job
    <2>2. txTrades = trades /\ Exists(tmp, job.id)
        BY <2>1 DEF TableInv, TxInv, TxPhase, CancelInv
    <2>3. \A o \in OrderId : tmp'[o].pend = tmp[o].pend /\ (Exists(tmp, o) => Exists(tmp', o))
        <3>1. tmp \in [OrderId -> Row] /\ tmp[job.id].pend \in Int
            BY <2>1, <1>t DEF TypeOK, Row
        <3> QED
            BY <2>1, <2>2, <3>1 DEF Updated, Exists
    <2>4. \A t \in trades : Exists(tmp', t.taker) /\ Exists(tmp', t.maker)
        <3>1. \A t \in trades : t.taker \in OrderId /\ t.maker \in OrderId
            BY <1>t DEF TypeOK, Trade
        <3> QED
            BY <2>3, <3>1 DEF PendingInv, MadeInv
    <2>5. MadeInv'
        BY <2>1, <2>2, <2>4 DEF PendingInv, MadeInv, Exists
    <2>6. PendingBacked'
        BY <2>1, <2>3 DEF PendingInv, PendingBacked
    <2> QED
        BY <2>1, <2>5, <2>6 DEF PendingInv, TxPhase
<1> QED
    BY <1>1, <1>2, <1>3, <1>4, <1>5, <1>6, <1>7, <1>8, <1>9, <1>10 DEF Next, Worker

(* The pending amount of an order is what its trades add up to             *)
(* (models/db.ts, update_orders and insert_trades), for takers and makers, *)
(* any number of orders and jobs, and with crashes, failed calls,          *)
(* redelivered and resubmitted jobs.                                       *)
THEOREM PendingAlwaysBacked == Spec => []PendingBacked
<1>1. PendingInv => PendingBacked
    BY DEF PendingInv
<1> QED
    BY <1>1, PendingInit, PendingStep, TableInvariant, PTL DEF Spec

----------------------------------------------------------------------------
(* Frozen amounts.                                                         *)

LEMMA CostAdds ==
    ASSUME NEW o \in OrderId, NEW a \in Int, NEW b \in Int
    PROVE  /\ Cost(o, a + b) = Cost(o, a) + Cost(o, b)
           /\ Cost(o, - a) = - Cost(o, a)
           /\ Cost(o, 0) = 0
<1>1. Order[o].price \in Nat
    BY OrderType
<1>2. /\ Order[o].price * (a + b) = Order[o].price * a + Order[o].price * b
      /\ Order[o].price * (- a) = - (Order[o].price * a)
      /\ Order[o].price * 0 = 0
    BY <1>1
<1> QED
    BY <1>2 DEF Cost

LEMMA FreezingFacts ==
    ASSUME TypeOK, NEW o \in OrderId, NEW amount \in Int
    PROVE  /\ Freezing(o, amount)[Order[o].trader][PayToken(o)]
                = freeze[Order[o].trader][PayToken(o)] + Cost(o, amount)
           /\ \A t \in Trader, k \in Token :
                 t # Order[o].trader \/ k # PayToken(o)
                     => Freezing(o, amount)[t][k] = freeze[t][k]
  BY OrderType DEF TypeOK, Freezing

LEMMA HeldType ==
    ASSUME TypeOK, NEW t \in Trader, NEW k \in Token
    PROVE  /\ Held(t, k) \in Nat /\ freeze[t][k] \in Int /\ Needed(tmp, t, k) \in Int
<1>1. freeze[t][k] \in Int
    BY DEF TypeOK
<1>2. Needed(tmp, t, k) \in Int
    BY NeededFacts DEF TypeOK, Table
<1>3. CASE pc \in TxPhase \cup {"cancelBook", "cancelFreeze"}
    <2>1. job.id \in OrderId
        BY <1>3 DEF TypeOK, Job, TxPhase
    <2>2. (IF pc \in TxPhase THEN Order[job.id].amount ELSE msg.avail) \in Nat
        BY <2>1, AmountType DEF TypeOK
    <2> QED
        BY <1>1, <1>2, <2>1, <2>2, CostType DEF Held
<1>4. CASE pc \notin TxPhase \cup {"cancelBook", "cancelFreeze"}
    BY <1>1, <1>2, <1>4 DEF Held
<1> QED
    BY <1>3, <1>4

LEMMA HeldTypeNext ==
    TypeOK' => (\A t \in Trader, k \in Token :
                   Held(t, k) \in Nat /\ freeze[t][k] \in Int /\ Needed(tmp, t, k) \in Int)'
<1>1. TypeOK => \A t \in Trader, k \in Token :
                   Held(t, k) \in Nat /\ freeze[t][k] \in Int /\ Needed(tmp, t, k) \in Int
    BY HeldType
<1> QED
    BY <1>1, PTL

LEMMA HeldInit == Init => HeldInv
<1> SUFFICES ASSUME Init, NEW t \in Trader, NEW k \in Token
             PROVE  freeze[t][k] = Needed(tmp, t, k) + Held(t, k) /\ freeze[t][k] \in Int
    BY DEF HeldInv
<1>1. tmp \in Table /\ freeze[t][k] = 0 /\ Held(t, k) = 0
    BY InitType DEF Init, TypeOK, Table, Held, TxPhase
<1>2. PICK f : f = NeededOf(tmp, t, k)
    OBVIOUS
<1>3. DOMAIN f = OrderId /\ \A o \in OrderId : f[o] = 0
    <2>1. \A o \in OrderId : tmp[o].avail + tmp[o].pend = 0
        BY DEF Init, NoRow
    <2> QED
        BY <1>2, <2>1, CostAdds DEF NeededOf
<1>4. Sum(f) = 0
    BY <1>3, SumZero, OrderAssumption
<1> QED
    BY <1>1, <1>2, <1>4, NeededFacts

(* A step at which the order of the worker's job starts or stops to be     *)
(* held, to be needed or to be frozen; by is how much.                     *)
LEMMA HeldMoves ==
    ASSUME TypeOK, TypeOK', HeldInv, NEW o \in OrderId, NEW by \in Int,
           failures' = 0 /\ ~ refused' => failures = 0 /\ ~ refused,
           \A t \in Trader, k \in Token :
              t # Order[o].trader \/ k # PayToken(o) =>
                 /\ freeze'[t][k] = freeze[t][k]
                 /\ Needed(tmp', t, k) = Needed(tmp, t, k)
                 /\ Held(t, k)' = Held(t, k),
           freeze'[Order[o].trader][PayToken(o)]
               = freeze[Order[o].trader][PayToken(o)] + by,
           Needed(tmp', Order[o].trader, PayToken(o)) + Held(Order[o].trader, PayToken(o))'
               = Needed(tmp, Order[o].trader, PayToken(o))
                     + Held(Order[o].trader, PayToken(o)) + by
    PROVE  HeldInv'
<1>1. Order[o].trader \in Trader /\ PayToken(o) \in Token
    BY OrderType
<1> SUFFICES ASSUME NEW t \in Trader, NEW k \in Token
             PROVE  /\ freeze'[t][k] >= Needed(tmp', t, k) + Held(t, k)'
                    /\ failures' = 0 /\ ~ refused'
                          => freeze'[t][k] = Needed(tmp', t, k) + Held(t, k)'
    BY DEF HeldInv
<1>2. /\ freeze[t][k] >= Needed(tmp, t, k) + Held(t, k)
      /\ failures = 0 /\ ~ refused => freeze[t][k] = Needed(tmp, t, k) + Held(t, k)
    BY DEF HeldInv
<1>3. /\ Held(t, k) \in Int /\ freeze[t][k] \in Int /\ Needed(tmp, t, k) \in Int
      /\ Held(t, k)' \in Int /\ freeze'[t][k] \in Int /\ Needed(tmp', t, k) \in Int
    BY HeldType, HeldTypeNext
<1>4. CASE t # Order[o].trader \/ k # PayToken(o)
    BY <1>2, <1>3, <1>4
<1>5. CASE t = Order[o].trader /\ k = PayToken(o)
    <2>1. /\ freeze'[t][k] = freeze[t][k] + by
          /\ Needed(tmp', t, k) + Held(t, k)' = Needed(tmp, t, k) + Held(t, k) + by
        BY <1>5
    <2> QED
        BY <1>2, <1>3, <2>1
<1> QED
    BY <1>4, <1>5

LEMMA HeldStep == TableInv /\ TableInv' /\ HeldInv /\ [Next]_vars => HeldInv'
<1> SUFFICES ASSUME TableInv, TableInv', HeldInv, [Next]_vars PROVE HeldInv'
    OBVIOUS
<1>t. TypeOK /\ TypeOK'
    BY DEF TableInv
<1>s. ASSUME UNCHANGED <<tmp, freeze, failures, refused>>,
             \A t \in Trader, k \in Token : Held(t, k)' = Held(t, k)
      PROVE  HeldInv'
    BY <1>s DEF HeldInv
<1>f. ASSUME UNCHANGED <<tmp, freeze>>, failures' # 0 \/ refused',
             \A t \in Trader, k \in Token : Held(t, k)' \in {0, Held(t, k)}
      PROVE  HeldInv'
    <2> SUFFICES ASSUME NEW t \in Trader, NEW k \in Token
                 PROVE  freeze[t][k] >= Needed(tmp, t, k) + Held(t, k)'
        BY <1>f DEF HeldInv
    <2>1. Held(t, k) \in Nat /\ freeze[t][k] \in Int /\ Needed(tmp, t, k) \in Int
        BY <1>t, HeldType
    <2>2. freeze[t][k] >= Needed(tmp, t, k) + Held(t, k)
        BY DEF HeldInv
    <2> QED
        BY <1>f, <2>1, <2>2
<1>n. Fail => failures' # 0
    BY <1>t DEF Fail, TypeOK
<1>1. CASE UNCHANGED vars
    BY <1>1, <1>s DEF vars, Held
<1>2. CASE Requests \/ Redeliver
    <2>1. UNCHANGED <<pc, job, msg, tmp, freeze, failures, refused>>
        BY <1>2 DEF Requests, BuildOrder, CancelOrder, CancelOrders, CancelAllOrders,
                    Admit, Enqueue, Redeliver
    <2> QED
        BY <2>1, <1>s DEF Held
<1>3. CASE TakeJob \/ CheckPassed \/ CancelMain
    <2>1. /\ pc \notin TxPhase \cup {"cancelBook", "cancelFreeze"}
          /\ pc' \notin TxPhase \cup {"cancelBook", "cancelFreeze"}
          /\ UNCHANGED <<tmp, freeze, failures, refused>>
        BY <1>3 DEF TakeJob, Dispatch, CheckPassed, CancelMain, TxPhase
    <2> QED
        BY <2>1, <1>s DEF Held
<1>4. CASE Done \/ CheckFailed \/ Flush \/ CancelNothing
    <2>1. /\ pc \notin TxPhase \cup {"cancelBook", "cancelFreeze"}
          /\ pc' \notin TxPhase \cup {"cancelBook", "cancelFreeze"}
          /\ UNCHANGED <<tmp, freeze, failures, refused>>
        BY <1>4 DEF Done, CheckFailed, Flush, CancelNothing, Drop, TxPhase
    <2> QED
        BY <2>1, <1>s DEF Held
<1>5. CASE (\E m \in OrderId : Fill(m)) \/ EndMatch \/ Publish \/ Insert
    <2>1. /\ pc \in TxPhase /\ pc' \in TxPhase
          /\ UNCHANGED <<job, tmp, freeze, failures, refused>>
        BY <1>5 DEF Fill, EndMatch, Publish, Insert, TxPhase
    <2> QED
        BY <2>1, <1>s DEF Held
<1>6. CASE PublishFails
    <2>1. /\ pc \in TxPhase /\ pc' \in TxPhase /\ failures' # 0
          /\ UNCHANGED <<job, tmp, freeze>>
        BY <1>6, <1>n DEF PublishFails, TxPhase
    <2> QED
        BY <2>1, <1>f DEF Held
<1>7. CASE InsertRefused \/ CallFails \/ Crash
    <2>1. /\ pc' = "idle" /\ (failures' # 0 \/ refused')
          /\ UNCHANGED <<tmp, freeze>>
        BY <1>7, <1>n DEF InsertRefused, CallFails, Crash, Drop
    <2>2. \A t \in Trader, k \in Token : Held(t, k)' = 0
        BY <2>1 DEF Held, TxPhase
    <2> QED
        BY <2>1, <2>2, <1>f
<1>8. CASE CancelBook
    <2>1. /\ pc = "cancelBook" /\ pc' = "cancelFreeze"
          /\ UNCHANGED <<job, msg, tmp, freeze, failures, refused>>
        BY <1>8 DEF CancelBook
    <2> QED
        BY <2>1, <1>s DEF Held, TxPhase
<1>9. CASE Freeze
    <2> DEFINE id == job.id
               trader == Order[id].trader
               token == PayToken(id)
               cost == Cost(id, Order[id].amount)
    <2>1. /\ id \in OrderId /\ pc = "freeze" /\ pc' = "match"
          /\ freeze' = Freezing(id, Order[id].amount)
          /\ UNCHANGED <<job, tmp, failures, refused>>
        BY <1>9, <1>t DEF Freeze, TypeOK, Job
    <2>2. cost \in Int /\ Order[id].amount \in Int
        BY <2>1, CostType, AmountType
    <2>3. /\ freeze'[trader][token] = freeze[trader][token] + cost
          /\ \A t \in Trader, k \in Token :
                t # trader \/ k # token => freeze'[t][k] = freeze[t][k]
        BY <2>1, <2>2, <1>t, FreezingFacts
    <2>4. /\ Held(trader, token) = 0 /\ Held(trader, token)' = cost
          /\ \A t \in Trader, k \in Token :
                t # trader \/ k # token => Held(t, k) = 0 /\ Held(t, k)' = 0
        BY <2>1 DEF Held, TxPhase
    <2>5. Needed(tmp, trader, token) \in Int
        BY <2>1, <1>t, OrderType, HeldType
    <2>6. Needed(tmp', trader, token) + Held(trader, token)'
             = Needed(tmp, trader, token) + Held(trader, token) + cost
        BY <2>1, <2>2, <2>4, <2>5
    <2> HIDE DEF cost
    <2> QED
        BY <2>1, <2>2, <2>3, <2>4, <2>6, <1>t, HeldMoves
<1>10. CASE CancelFreeze
    <2> DEFINE id == job.id
               trader == Order[id].trader
               token == PayToken(id)
               cost == Cost(id, msg.avail)
    <2>1. /\ id \in OrderId /\ pc = "cancelFreeze" /\ pc' = "done"
          /\ freeze' = Freezing(id, - msg.avail)
          /\ msg.avail \in Int /\ - msg.avail \in Int
          /\ UNCHANGED <<job, tmp, failures, refused>>
        BY <1>10, <1>t DEF CancelFreeze, TypeOK, Job
    <2>2. cost \in Int /\ Cost(id, - msg.avail) = - cost /\ - cost \in Int
        BY <2>1, CostType, CostAdds
    <2>3. /\ freeze'[trader][token] = freeze[trader][token] + (- cost)
          /\ \A t \in Trader, k \in Token :
                t # trader \/ k # token => freeze'[t][k] = freeze[t][k]
        BY <2>1, <2>2, <1>t, FreezingFacts
    <2>4. /\ Held(trader, token) = cost /\ Held(trader, token)' = 0
          /\ \A t \in Trader, k \in Token :
                t # trader \/ k # token => Held(t, k) = 0 /\ Held(t, k)' = 0
        BY <2>1 DEF Held, TxPhase
    <2>5. Needed(tmp, trader, token) \in Int
        BY <2>1, <1>t, OrderType, HeldType
    <2>6. Needed(tmp', trader, token) + Held(trader, token)'
             = Needed(tmp, trader, token) + Held(trader, token) + (- cost)
        BY <2>1, <2>2, <2>4, <2>5
    <2> HIDE DEF cost
    <2> QED
        BY <2>1, <2>2, <2>3, <2>4, <2>6, <1>t, HeldMoves
<1>11. CASE Commit
    <2> DEFINE id == job.id
               trader == Order[id].trader
               token == PayToken(id)
               cost == Cost(id, Order[id].amount)
    <2>1. /\ id \in OrderId /\ pc = "commit" /\ pc' = "done" /\ tmp' = txTmp
          /\ tmp \in Table /\ txTmp \in Table
          /\ UNCHANGED <<job, freeze, failures, refused>>
        BY <1>11, <1>t DEF Commit, TypeOK, Job, Table
    <2>2. /\ tmp[id].avail + tmp[id].pend = 0
          /\ txTmp[id].avail + txTmp[id].pend = Order[id].amount
        <3>1. /\ RowsAgree(orders[id], tmp[id], Order[id].amount)
              /\ RowsAgree(txOrders[id], txTmp[id], Order[id].amount)
            BY <2>1 DEF TableInv, RowsInv
        <3>2. ~ Exists(tmp, id) /\ Exists(txTmp, id) /\ txTmp[id].canc = 0
            BY <2>1 DEF TableInv, TxInv
        <3>3. txTmp[id].avail \in Int /\ txTmp[id].pend \in Int
            BY <2>1 DEF Table, Row
        <3> QED
            BY <3>1, <3>2, <3>3 DEF RowsAgree, Exists, NoRow
    <2>3. \A p \in OrderId \ {id} :
             txTmp[p].avail + txTmp[p].pend = tmp[p].avail + tmp[p].pend
        BY <2>1 DEF TableInv, TxInv, TxPhase, FilledFrom
    <2>4. /\ Needed(txTmp, trader, token)
                = Needed(tmp, trader, token) + Cost(id, txTmp[id].avail + txTmp[id].pend)
                                             - Cost(id, tmp[id].avail + tmp[id].pend)
          /\ \A t \in Trader, k \in Token :
                t # trader \/ k # token => Needed(txTmp, t, k) = Needed(tmp, t, k)
        BY <2>1, <2>3, NeededChange
    <2>5. /\ Held(trader, token) = cost /\ Held(trader, token)' = 0
          /\ \A t \in Trader, k \in Token :
                t # trader \/ k # token => Held(t, k) = 0 /\ Held(t, k)' = 0
        BY <2>1 DEF Held, TxPhase
    <2>6. cost \in Int /\ Cost(id, 0) = 0 /\ Needed(tmp, trader, token) \in Int
          /\ freeze[trader][token] \in Int
        <3>1. cost \in Int
            BY <2>1, AmountType, CostType
        <3>2. Cost(id, 0) = 0
            BY <2>1, CostAdds
        <3> QED
            BY <2>1, <3>1, <3>2, <1>t, OrderType, HeldType
    <2>7. Needed(tmp', trader, token) + Held(trader, token)'
             = Needed(tmp, trader, token) + Held(trader, token) + 0
        BY <2>1, <2>2, <2>4, <2>5, <2>6
    <2>8. freeze'[trader][token] = freeze[trader][token] + 0
        BY <2>1, <2>6
    <2>9. \A t \in Trader, k \in Token :
             t # trader \/ k # token =>
                /\ freeze'[t][k] = freeze[t][k]
                /\ Needed(tmp', t, k) = Needed(tmp, t, k)
                /\ Held(t, k)' = Held(t, k)
        BY <2>1, <2>4, <2>5
    <2>10. 0 \in Int /\ (failures' = 0 /\ ~ refused' => failures = 0 /\ ~ refused)
        BY <2>1
    <2> HIDE DEF cost
    <2> QED
        BY <2>1, <2>7, <2>8, <2>9, <2>10, <1>t, HeldMoves
<1>12. CASE CancelTmp
    <2> DEFINE id == job.id
               trader == Order[id].trader
               token == PayToken(id)
               cost == Cost(id, msg.avail)
    <2>1. /\ id \in OrderId /\ pc = "cancelTmp" /\ pc' = "cancelBook"
          /\ tmp' = Updated(tmp, id, - msg.avail, msg.avail, 0, "cancled")
          /\ tmp \in Table /\ tmp' \in Table /\ msg.avail \in Int
          /\ UNCHANGED <<job, msg, freeze, failures, refused>>
        BY <1>12, <1>t DEF CancelTmp, TypeOK, Job, Table
    <2>2. Exists(tmp, id) /\ tmp[id].avail = msg.avail
        BY <2>1 DEF TableInv, CancelInv
    <2>3. /\ tmp'[id].avail + tmp'[id].pend = tmp[id].pend /\ tmp[id].pend \in Int
          /\ \A p \in OrderId \ {id} : tmp'[p] = tmp[p]
        BY <2>1, <2>2 DEF Updated, Table, Row
    <2>4. /\ Needed(tmp', trader, token)
                = Needed(tmp, trader, token) + Cost(id, tmp'[id].avail + tmp'[id].pend)
                                             - Cost(id, tmp[id].avail + tmp[id].pend)
          /\ \A t \in Trader, k \in Token :
                t # trader \/ k # token => Needed(tmp', t, k) = Needed(tmp, t, k)
        BY <2>1, <2>3, NeededChange
    <2>5. /\ Held(trader, token) = 0 /\ Held(trader, token)' = cost
          /\ \A t \in Trader, k \in Token :
                t # trader \/ k # token => Held(t, k) = 0 /\ Held(t, k)' = 0
        BY <2>1 DEF Held, TxPhase
    <2>6. /\ cost \in Int /\ Needed(tmp, trader, token) \in Int
          /\ freeze[trader][token] \in Int
          /\ Cost(id, msg.avail + tmp[id].pend) = cost + Cost(id, tmp[id].pend)
          /\ Cost(id, tmp[id].pend) \in Int
        BY <2>1, <2>3, <1>t, OrderType, HeldType, CostType, CostAdds
    <2>7. Needed(tmp', trader, token) + Held(trader, token)'
             = Needed(tmp, trader, token) + Held(trader, token) + 0
        BY <2>2, <2>3, <2>4, <2>5, <2>6
    <2>8. freeze'[trader][token] = freeze[trader][token] + 0
        BY <2>1, <2>6
    <2>9. \A t \in Trader, k \in Token :
             t # trader \/ k # token =>
                /\ freeze'[t][k] = freeze[t][k]
                /\ Needed(tmp', t, k) = Needed(tmp, t, k)
                /\ Held(t, k)' = Held(t, k)
        BY <2>1, <2>4, <2>5
    <2>10. 0 \in Int /\ (failures' = 0 /\ ~ refused' => failures = 0 /\ ~ refused)
        BY <2>1
    <2> HIDE DEF cost
    <2> QED
        BY <2>1, <2>7, <2>8, <2>9, <2>10, <1>t, HeldMoves
<1> QED
    BY <1>1, <1>2, <1>3, <1>4, <1>5, <1>6, <1>7, <1>8, <1>9, <1>10, <1>11, <1>12
    DEF Next, Worker

----------------------------------------------------------------------------
(* Published depth.                                                        *)

LEMMA ShownInit == Init => ShownInv
<1> SUFFICES ASSUME Init PROVE ShownInv
    OBVIOUS
<1>1. /\ pc = "idle" /\ lastTrades = NoTrades /\ depth = NoTrades
      /\ txTmp \in Table /\ \A o \in OrderId : txTmp[o].avail = 0
    BY InitType DEF Init, NoRow, TypeOK, Table
<1>2. ASSUME NEW l \in Levels PROVE depth[l] = Resting(txTmp, l) + Unpublished(l)
    <2>1. PICK f : f = RestingOf(txTmp, l)
        OBVIOUS
    <2>2. DOMAIN f = OrderId /\ \A o \in OrderId : f[o] = 0
        BY <1>1, <2>1 DEF RestingOf
    <2>3. Sum(f) = 0
        BY <2>2, SumZero, OrderAssumption
    <2>4. Resting(txTmp, l) = 0
        BY <1>1, <2>1, <2>3, RestingFacts
    <2>5. Unpublished(l) = 0 /\ depth[l] = 0
        BY <1>1 DEF Unpublished, NoTrades
    <2> QED
        BY <2>4, <2>5
<1> QED
    BY <1>1, <1>2 DEF ShownInv

LEMMA UnpublishedType ==
    ASSUME TypeOK, NEW l \in Levels
    PROVE  /\ Unpublished(l) \in Nat /\ depth[l] \in Int /\ Resting(txTmp, l) \in Int
           /\ lastTrades[l] \in Nat
<1>1. depth[l] \in Int /\ lastTrades[l] \in Nat /\ msg.avail \in Nat
    BY DEF TypeOK
<1>2. Resting(txTmp, l) \in Int
    BY RestingFacts DEF TypeOK, Table
<1> QED
    BY <1>1, <1>2 DEF Unpublished

LEMMA ShownStep == TableInv /\ TableInv' /\ ShownInv /\ [Next]_vars => ShownInv'
<1> SUFFICES ASSUME TableInv, TableInv', ShownInv, [Next]_vars PROVE ShownInv'
    OBVIOUS
<1>t. TypeOK /\ TypeOK'
    BY DEF TableInv
<1>s. ASSUME UNCHANGED <<txTmp, depth, failures, refused>>,
             pc' \in {"idle", "check", "flush", "freeze"} => lastTrades' = NoTrades,
             \A l \in Levels : Unpublished(l)' = Unpublished(l)
      PROVE  ShownInv'
    BY <1>s DEF ShownInv
<1>f. ASSUME failures' # 0 \/ refused',
             pc' \in {"idle", "check", "flush", "freeze"} => lastTrades' = NoTrades
      PROVE  ShownInv'
    BY <1>f DEF ShownInv
<1>n. Fail => failures' # 0
    BY <1>t DEF Fail, TypeOK
<1>1. CASE UNCHANGED vars
    BY <1>1, <1>s DEF vars, Unpublished, ShownInv
<1>2. CASE Requests \/ Redeliver
    <2>1. UNCHANGED <<pc, job, msg, lastTrades, txTmp, depth, failures, refused>>
        BY <1>2 DEF Requests, BuildOrder, CancelOrder, CancelOrders, CancelAllOrders,
                    Admit, Enqueue, Redeliver
    <2> QED
        BY <2>1, <1>s DEF Unpublished, ShownInv
<1>3. CASE TakeJob \/ CheckPassed \/ CancelMain \/ CancelFreeze \/ Commit
    <2>1. /\ pc \notin {"match", "publish", "insert", "cancelBook"}
          /\ pc' \notin {"match", "publish", "insert", "cancelBook"}
          /\ pc \in {"idle", "check", "flush", "freeze"}
                \/ pc' \notin {"idle", "check", "flush", "freeze"}
          /\ UNCHANGED <<lastTrades, txTmp, depth, failures, refused>>
        BY <1>3 DEF TakeJob, Dispatch, CheckPassed, CancelMain, CancelFreeze, Commit
    <2> QED
        BY <2>1, <1>s DEF Unpublished, ShownInv
<1>4. CASE Done \/ CheckFailed \/ Flush \/ CancelNothing
    <2>1. /\ pc \notin {"match", "publish", "insert", "cancelBook"} /\ pc \notin TxPhase
          /\ pc' = "idle" /\ lastTrades' = NoTrades /\ txTmp' = tmp
          /\ UNCHANGED <<depth, failures, refused>>
        BY <1>4 DEF Done, CheckFailed, Flush, CancelNothing, Drop, TxPhase
    <2>2. txTmp' = txTmp
        BY <2>1 DEF TableInv, TxInv
    <2> QED
        BY <2>1, <2>2, <1>s DEF Unpublished
<1>5. CASE EndMatch
    BY <1>5, <1>s DEF EndMatch, Unpublished, ShownInv
<1>6. CASE PublishFails
    BY <1>6, <1>n, <1>f DEF PublishFails
<1>7. CASE InsertRefused \/ CallFails \/ Crash
    BY <1>7, <1>n, <1>f DEF InsertRefused, CallFails, Crash, Drop
<1>8. CASE Freeze
    <2>1. /\ pc = "freeze" /\ pc' = "match"
          /\ UNCHANGED <<lastTrades, txTmp, depth, failures, refused>>
        BY <1>8 DEF Freeze
    <2>2. \A l \in Levels : lastTrades[l] = 0
        BY <2>1 DEF ShownInv, NoTrades
    <2> QED
        BY <2>1, <2>2, <1>s DEF Unpublished
<1>9. ASSUME NEW m \in OrderId, Fill(m) PROVE ShownInv'
    <2> DEFINE k == FillAmount(m)
    <2>1. /\ pc = "match" /\ pc' = "match" /\ txTmp[m].avail > 0
          /\ txTmp' = Filled(txTmp, m)
          /\ lastTrades' = [lastTrades EXCEPT ![Level(m)] = @ + k]
          /\ UNCHANGED <<depth, failures, refused>>
        BY <1>9 DEF Fill, Best, filter_orders
    <2>2. k \in Nat
        BY <2>1, <1>t, FillAmountType
    <2>3. txTmp \in Table /\ txTmp' \in Table /\ Level(m) \in Levels
        BY <1>t, OrderType DEF TypeOK, Table
    <2>4. Exists(txTmp, m)
        <3>1. RowsAgree(txOrders[m], txTmp[m], Order[m].amount)
            BY DEF TableInv, RowsInv
        <3> QED
            BY <2>1, <3>1 DEF RowsAgree, Exists, NoRow
    <2>5. /\ \A p \in OrderId \ {m} : txTmp'[p] = txTmp[p]
          /\ txTmp'[m].avail = txTmp[m].avail - k
          /\ txTmp[m].avail \in Int
        BY <2>1, <2>2, <2>3, <2>4 DEF Filled, Updated, Row, Table
    <2>6. /\ lastTrades'[Level(m)] = lastTrades[Level(m)] + k
          /\ \A l \in Levels : l # Level(m) => lastTrades'[l] = lastTrades[l]
        BY <2>1, <2>3, <1>t DEF TypeOK
    <2> HIDE DEF k
    <2>7. /\ Resting(txTmp', Level(m))
                = Resting(txTmp, Level(m)) + txTmp'[m].avail - txTmp[m].avail
          /\ \A l \in Levels : l # Level(m) => Resting(txTmp', l) = Resting(txTmp, l)
        BY <2>3, <2>5, RestingChange
    <2>8. ASSUME NEW l \in Levels, failures = 0 /\ ~ refused
          PROVE  depth'[l] = Resting(txTmp', l) + Unpublished(l)'
        <3>1. depth[l] = Resting(txTmp, l) + lastTrades[l]
            BY <2>1, <2>8 DEF ShownInv, Unpublished
        <3>2. Unpublished(l)' = lastTrades'[l]
            BY <2>1 DEF Unpublished
        <3>3. Resting(txTmp, l) \in Int /\ lastTrades[l] \in Int
            BY <1>t, UnpublishedType
        <3>4. Resting(txTmp', l) + lastTrades'[l] = Resting(txTmp, l) + lastTrades[l]
            BY <2>2, <2>5, <2>6, <2>7, <3>3
        <3> QED
            BY <2>1, <3>1, <3>2, <3>4
    <2> QED
        BY <2>1, <2>8 DEF ShownInv
<1>10. CASE Publish
    <2>1. /\ pc = "publish" /\ pc' = "insert" /\ job.id \in OrderId
          /\ depth' = [l \in Levels |-> depth[l] + BookUpdates(job.id)[l]]
          /\ UNCHANGED <<job, msg, txTmp, failures, refused>>
        BY <1>10, <1>t DEF Publish, TypeOK, Job
    <2>2. ASSUME NEW l \in Levels, failures = 0 /\ ~ refused
          PROVE  depth'[l] = Resting(txTmp, l) + Unpublished(l)'
        <3>1. depth[l] = Resting(txTmp, l) + lastTrades[l]
            BY <2>1, <2>2 DEF ShownInv, Unpublished
        <3>2. depth'[l] = depth[l] + ((IF l = Level(job.id) THEN msg.avail ELSE 0)
                                         - lastTrades[l])
            BY <2>1 DEF BookUpdates
        <3>3. Unpublished(l)' = IF l = Level(job.id) THEN msg.avail ELSE 0
            BY <2>1 DEF Unpublished, Level
        <3>4. Resting(txTmp, l) \in Int /\ lastTrades[l] \in Int /\ msg.avail \in Int
            BY <1>t, UnpublishedType DEF TypeOK
        <3> QED
            BY <3>1, <3>2, <3>3, <3>4
    <2> QED
        BY <2>1, <2>2 DEF ShownInv
<1>11. CASE Insert
    <2>1. /\ pc = "insert" /\ pc' = "commit" /\ job.id \in OrderId
          /\ ~ Exists(txOrders, job.id)
          /\ txTmp' = [txTmp EXCEPT ![job.id] = NewRow]
          /\ UNCHANGED <<job, msg, depth, failures, refused>>
        BY <1>11, <1>t DEF Insert, TypeOK, Job
    <2>2. txTmp \in Table /\ txTmp' \in Table /\ Level(job.id) \in Levels
        BY <2>1, <1>t, OrderType DEF TypeOK, Table
    <2>3. txTmp[job.id].avail = 0
        <3>1. RowsAgree(txOrders[job.id], txTmp[job.id], Order[job.id].amount)
            BY <2>1 DEF TableInv, RowsInv
        <3> QED
            BY <2>1, <3>1 DEF RowsAgree, Exists, NoRow
    <2>4. /\ txTmp'[job.id].avail = msg.avail
          /\ \A p \in OrderId \ {job.id} : txTmp'[p] = txTmp[p]
        BY <2>1, <2>2 DEF NewRow, Table
    <2>5. /\ Resting(txTmp', Level(job.id))
                = Resting(txTmp, Level(job.id)) + txTmp'[job.id].avail - txTmp[job.id].avail
          /\ \A l \in Levels : l # Level(job.id) => Resting(txTmp', l) = Resting(txTmp, l)
        <3>1. job.id \in OrderId
            BY <2>1
        <3> QED
            BY <2>2, <2>4, <3>1, RestingChange
    <2>6. ASSUME NEW l \in Levels, failures = 0 /\ ~ refused
          PROVE  depth[l] = Resting(txTmp', l) + Unpublished(l)'
        <3>1. depth[l] = Resting(txTmp, l) + IF l = Level(job.id) THEN msg.avail ELSE 0
            BY <2>1, <2>6 DEF ShownInv, Unpublished
        <3>2. Unpublished(l)' = 0
            BY <2>1 DEF Unpublished
        <3>3. Resting(txTmp, l) \in Int /\ msg.avail \in Int
            BY <1>t, UnpublishedType DEF TypeOK
        <3> QED
            BY <2>3, <2>4, <2>5, <3>1, <3>2, <3>3
    <2> QED
        BY <2>1, <2>6 DEF ShownInv
<1>12. CASE CancelTmp
    <2>1. /\ pc = "cancelTmp" /\ pc' = "cancelBook" /\ job.id \in OrderId
          /\ tmp' = Updated(tmp, job.id, - msg.avail, msg.avail, 0, "cancled")
          /\ txTmp' = tmp' /\ msg.avail \in Int
          /\ UNCHANGED <<job, msg, depth, failures, refused>>
        BY <1>12, <1>t DEF CancelTmp, TypeOK, Job
    <2>2. txTmp \in Table /\ txTmp' \in Table /\ Level(job.id) \in Levels
        BY <2>1, <1>t, OrderType DEF TypeOK, Table
    <2>3. txTmp = tmp /\ Exists(tmp, job.id) /\ tmp[job.id].avail = msg.avail
        BY <2>1 DEF TableInv, TxInv, TxPhase, CancelInv
    <2>4. /\ txTmp'[job.id].avail = 0
          /\ \A p \in OrderId \ {job.id} : txTmp'[p] = txTmp[p]
        BY <2>1, <2>2, <2>3 DEF Updated, Table, Row
    <2>5. /\ Resting(txTmp', Level(job.id))
                = Resting(txTmp, Level(job.id)) + txTmp'[job.id].avail - txTmp[job.id].avail
          /\ \A l \in Levels : l # Level(job.id) => Resting(txTmp', l) = Resting(txTmp, l)
        BY <2>1, <2>2, <2>4, RestingChange
    <2>6. ASSUME NEW l \in Levels, failures = 0 /\ ~ refused
          PROVE  depth[l] = Resting(txTmp', l) + Unpublished(l)'
        <3>1. depth[l] = Resting(txTmp, l) + 0
            BY <2>1, <2>6 DEF ShownInv, Unpublished
        <3>2. Unpublished(l)' = IF l = Level(job.id) THEN msg.avail ELSE 0
            BY <2>1 DEF Unpublished, Level
        <3>3. Resting(txTmp, l) \in Int
            BY <1>t, UnpublishedType
        <3> QED
            BY <2>1, <2>3, <2>4, <2>5, <3>1, <3>2, <3>3
    <2> QED
        BY <2>1, <2>6 DEF ShownInv
<1>13. CASE CancelBook
    <2>1. /\ pc = "cancelBook" /\ pc' = "cancelFreeze" /\ job.id \in OrderId
          /\ depth' = [depth EXCEPT ![Level(job.id)] = @ - msg.avail]
          /\ UNCHANGED <<job, msg, txTmp, failures, refused>>
        BY <1>13, <1>t DEF CancelBook, TypeOK, Job
    <2>2. ASSUME NEW l \in Levels, failures = 0 /\ ~ refused
          PROVE  depth'[l] = Resting(txTmp, l) + Unpublished(l)'
        <3>1. depth[l] = Resting(txTmp, l) + IF l = Level(job.id) THEN msg.avail ELSE 0
            BY <2>1, <2>2 DEF ShownInv, Unpublished
        <3>2. depth'[l] = depth[l] - (IF l = Level(job.id) THEN msg.avail ELSE 0)
            BY <2>1, <1>t DEF TypeOK
        <3>3. Unpublished(l)' = 0
            BY <2>1 DEF Unpublished
        <3>4. Resting(txTmp, l) \in Int /\ msg.avail \in Int
            BY <1>t, UnpublishedType DEF TypeOK
        <3> QED
            BY <3>1, <3>2, <3>3, <3>4
    <2> QED
        BY <2>1, <2>2 DEF ShownInv
<1> QED
    BY <1>1, <1>2, <1>3, <1>4, <1>5, <1>6, <1>7, <1>8, <1>9, <1>10, <1>11, <1>12,
       <1>13
    DEF Next, Worker

(* Redis and the socket server follow the tables, for any orders, traders  *)
(* and tokens: what is frozen always covers what open and pending orders   *)
(* cost (adex_engine/index.ts freezes before it commits, and unfreezes     *)
(* after it has cancelled), and between jobs, when nothing failed and no   *)
(* id was used twice, the freeze is exactly that and the published depth   *)
(* is that of the book.                                                    *)
THEOREM AccountsAlwaysSound == Spec => []AccountsSound
<1>1. TableInv /\ HeldInv => FreezeCovers
    <2> SUFFICES ASSUME TableInv, HeldInv, NEW t \in Trader, NEW k \in Token
                 PROVE  freeze[t][k] >= Needed(tmp, t, k)
        BY DEF FreezeCovers
    <2>1. Held(t, k) \in Nat /\ freeze[t][k] \in Int /\ Needed(tmp, t, k) \in Int
        BY HeldType DEF TableInv
    <2>2. freeze[t][k] >= Needed(tmp, t, k) + Held(t, k)
        BY DEF HeldInv
    <2> QED
        BY <2>1, <2>2
<1>2. TableInv /\ HeldInv /\ pc = "idle" /\ failures = 0 /\ ~ refused => FreezeExact
    <2> SUFFICES ASSUME TableInv, HeldInv, pc = "idle", failures = 0, ~ refused,
                        NEW t \in Trader, NEW k \in Token
                 PROVE  freeze[t][k] = Needed(tmp, t, k)
        BY DEF FreezeExact
    <2>1. Held(t, k) = 0
        BY DEF Held, TxPhase
    <2>2. Needed(tmp, t, k) \in Int
        BY HeldType DEF TableInv
    <2> QED
        BY <2>1, <2>2 DEF HeldInv
<1>3. TableInv /\ ShownInv /\ pc = "idle" /\ failures = 0 /\ ~ refused => DepthExact
    <2> SUFFICES ASSUME TableInv, ShownInv, pc = "idle", failures = 0, ~ refused,
                        NEW l \in Levels
                 PROVE  depth[l] = Resting(tmp, l)
        BY DEF DepthExact
    <2>1. Unpublished(l) = 0
        BY DEF Unpublished
    <2>2. txTmp = tmp
        BY DEF TableInv, TxInv, TxPhase
    <2>3. Resting(txTmp, l) \in Int
        BY UnpublishedType DEF TableInv
    <2> QED
        BY <2>1, <2>2, <2>3 DEF ShownInv
<1>4. TableInv /\ HeldInv /\ ShownInv => AccountsSound
    BY <1>1, <1>2, <1>3 DEF AccountsSound
<1> QED
    BY <1>4, HeldInit, HeldStep, ShownInit, ShownStep, TableInvariant, PTL DEF Spec

=============================================================================
