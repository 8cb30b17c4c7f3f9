------------------------------- MODULE Engine -------------------------------
(***************************************************************************)
(* The matching engine and what feeds it: the signer API that admits       *)
(* orders and cancellations (src/src/adex/index.ts), the Bull queue        *)
(* OrderQueue, and the single worker of src/src/adex_engine/index.ts with  *)
(* the helpers it calls (src/src/adex/api/engine.ts, api/order.ts,         *)
(* models/db.ts).                                                          *)
(*                                                                         *)
(* The worker takes one job at a time.  For an order it checks the         *)
(* trader's book, freezes the order's cost in redis, opens a database      *)
(* transaction, fills the order against the resting ones, publishes the    *)
(* change of depth, inserts the order and commits.  The freeze and the     *)
(* publication are outside the transaction.  For a cancellation it updates *)
(* the two order tables one after the other, publishes and unfreezes,      *)
(* without a transaction.  The process can die between any two steps and   *)
(* any database call can fail; Bull then delivers a job of a dead worker   *)
(* again, after other jobs if need be.                                     *)
(*                                                                         *)
(* The balances of the traders are constant here: what the launcher, the   *)
(* watcher and the bridge do to them belongs to other modules.             *)
(*                                                                         *)
(* A definition named Mut_X is X with a plausible mistake; the mutation    *)
(* runs put it in the place of X, and nothing else uses it.                *)
(***************************************************************************)
EXTENDS Integers, Sequences, FiniteSets

CONSTANTS
    OrderId,        \* hashes of the signed orders
    Trader,         \* addresses
    Token,          \* token symbols
    Order,          \* the signed contents of each order
    Balance,        \* balance in each trader's local book, with the constant
                    \* get_available_erc20_amount adds
    MaxWaiting,     \* OrderQueueConfig.maxWaiting
    SkipWaiting,    \* maxWaiting * 2: from here the balance check is skipped
    FlushWaiting,   \* maxWaiting * 10: beyond it the queue is emptied
    MaxStalled,     \* times Bull delivers the job of a dead worker again
    MaxRequests,    \* bound: requests the API admits
    MaxInflight,    \* bound: requests admitted at the same time
    MaxFailures     \* bound: crashes and database errors

Side == {"buy", "sell"}

Contents == [trader : Trader, market : Token \X Token, side : Side,
             price : Nat \ {0}, amount : Nat \ {0}]

ASSUME OrderAssumption == IsFiniteSet(OrderId) /\ Order \in [OrderId -> Contents]
ASSUME BalanceAssumption == Balance \in [Trader -> [Token -> Nat]]
ASSUME BoundAssumption ==
    /\ MaxWaiting \in Nat /\ SkipWaiting \in Nat /\ FlushWaiting \in Nat
    /\ MaxStalled \in Nat
    /\ MaxRequests \in Nat /\ MaxInflight \in Nat /\ MaxFailures \in Nat

VARIABLES
    requests,       \* requests admitted so far
    inflight,       \* requests admitted, not yet in the queue
    queue,          \* OrderQueue: the waiting jobs
    stalled,        \* jobs that were active when the worker died
    pc,             \* where the worker is
    job,            \* the job it works on
    msg,            \* its copy of the order: amounts available and pending
    lastTrades,     \* amount traded by the current job at each price level
    orders,         \* table mist_orders
    tmp,            \* table mist_orders_tmp
    trades,         \* table mist_trades
    txOrders,       \* the three tables as the open transaction sees them
    txTmp,
    txTrades,
    freeze,         \* freezeAmount of each trader and token, in redis
    depth,          \* sum of the depth updates sent to addOrderBookQueue
    skipped,        \* some job skipped the balance check
    failures,       \* crashes and database errors so far
    refused         \* some order was refused by the insert (id already there)

api == <<requests, inflight>>
tables == <<orders, tmp, trades>>
txTables == <<txOrders, txTmp, txTrades>>
published == <<freeze, depth>>
history == <<skipped, failures, refused>>
vars == <<requests, inflight, queue, stalled, pc, job, msg, lastTrades,
          orders, tmp, trades, txOrders, txTmp, txTrades, freeze, depth,
          skipped, failures, refused>>

----------------------------------------------------------------------------
(* Types.                                                                  *)

Status == {"none", "pending", "partial_filled", "full_filled", "cancled"}

(* A row of an order table; "none" is the status of an order with no row.  *)
Row == [avail : Int, pend : Int, canc : Int, status : Status]

NoRow == [avail |-> 0, pend |-> 0, canc |-> 0, status |-> "none"]

Request == [kind : {"order", "cancel"}, id : OrderId]

Job == [kind : {"order", "cancel"}, id : OrderId, stalls : Nat]

Trade == [taker : OrderId, maker : OrderId, amount : Nat]

Level(o) == <<Order[o].market, Order[o].side, Order[o].price>>

Levels == {Level(o) : o \in OrderId}

CancelPhase == {"cancel", "cancelTmp", "cancelBook", "cancelFreeze"}

TxPhase == {"match", "publish", "insert", "commit"}

Phase == {"idle", "check", "flush", "freeze", "done"} \cup TxPhase \cup CancelPhase

NoMsg == [avail |-> 0, pend |-> 0]

TypeOK ==
    /\ requests \in Nat
    /\ inflight \in SUBSET Request
    /\ queue \in Seq(Job)
    /\ stalled \in Seq(Job)
    /\ pc \in Phase
    /\ pc # "idle" => job \in Job
    /\ msg \in [avail : Nat, pend : Nat]
    /\ lastTrades \in [Levels -> Nat]
    /\ orders \in [OrderId -> Row]
    /\ tmp \in [OrderId -> Row]
    /\ trades \subseteq Trade
    /\ txOrders \in [OrderId -> Row]
    /\ txTmp \in [OrderId -> Row]
    /\ txTrades \subseteq Trade
    /\ freeze \in [Trader -> [Token -> Int]]
    /\ depth \in [Levels -> Int]
    /\ skipped \in BOOLEAN
    /\ failures \in Nat
    /\ refused \in BOOLEAN

----------------------------------------------------------------------------
(* Orders, tables and the local book.                                      *)

Exists(table, o) == table[o].status # "none"

(* The token an order pays with and how much of it an amount costs.        *)
PayToken(o) == IF Order[o].side = "buy" THEN Order[o].market[2]
                                        ELSE Order[o].market[1]

Cost(o, amount) == IF Order[o].side = "buy" THEN Order[o].price * amount
                                            ELSE amount

Frozen(o) == freeze[Order[o].trader][PayToken(o)]

(* checkOrderAvailability, and the same test in build_order_v4.            *)
Mut_Affordable(o) ==
    Order[o].amount <= Balance[Order[o].trader][PayToken(o)] - Frozen(o)

Affordable(o) ==
    Cost(o, Order[o].amount) <= Balance[Order[o].trader][PayToken(o)] - Frozen(o)

(* Adds the cost of an amount of o to its trader's freezeAmount.           *)
Freezing(o, amount) ==
    [freeze EXCEPT ![Order[o].trader][PayToken(o)] = @ + Cost(o, amount)]

(* UPDATE of one order table by deltas: no row, no effect.                 *)
Updated(table, o, avail, canc, pend, status) ==
    IF ~ Exists(table, o) THEN table
    ELSE [table EXCEPT ![o] = [avail |-> @.avail + avail, canc |-> @.canc + canc,
                               pend |-> @.pend + pend, status |-> status]]

(* m can be matched by o: other side of the same market, price acceptable. *)
Crosses(o, m) ==
    /\ Order[m].market = Order[o].market
    /\ Order[m].side # Order[o].side
    /\ IF Order[o].side = "buy" THEN Order[m].price <= Order[o].price
                                ELSE Order[m].price >= Order[o].price

(* m's price is at least as good as n's for a taker o.                     *)
AsGood(o, m, n) == IF Order[o].side = "buy" THEN Order[m].price <= Order[n].price
                                            ELSE Order[m].price >= Order[n].price

(* The resting orders match() may use for o, and those it uses first; rows *)
(* of equal price come in any order.                                       *)
filter_orders(o) == {m \in OrderId : Crosses(o, m) /\ txTmp[m].avail > 0}

Mut_Best(o) == filter_orders(o)

Best(o) == {m \in filter_orders(o) : \A n \in filter_orders(o) : AsGood(o, m, n)}

NoTrades == [l \in Levels |-> 0]

----------------------------------------------------------------------------
(* The initial state: empty tables, empty queue, idle worker.              *)

Init ==
    /\ requests = 0 /\ inflight = {}
    /\ queue = <<>> /\ stalled = <<>>
    /\ pc = "idle" /\ job = <<>> /\ msg = NoMsg /\ lastTrades = NoTrades
    /\ orders = [o \in OrderId |-> NoRow] /\ tmp = orders /\ trades = {}
    /\ txOrders = orders /\ txTmp = tmp /\ txTrades = trades
    /\ freeze = [t \in Trader |-> [k \in Token |-> 0]]
    /\ depth = NoTrades
    /\ skipped = FALSE /\ failures = 0 /\ refused = FALSE

----------------------------------------------------------------------------
(* The API.  A request is admitted on what it reads, and is put in the     *)
(* queue some time later: other requests and the worker run in between.    *)

Admit(kind, o) ==
    /\ requests < MaxRequests
    /\ Cardinality(inflight) < MaxInflight
    /\ [kind |-> kind, id |-> o] \notin inflight
    /\ inflight' = inflight \cup {[kind |-> kind, id |-> o]}
    /\ requests' = requests + 1
    /\ UNCHANGED <<queue, stalled, pc, job, msg, lastTrades, tables, txTables,
                   published, history>>

(* build_order_v4: not when the queue is long, nor beyond the balance.     *)
BuildOrder(o) ==
    /\ Len(queue) <= MaxWaiting
    /\ Affordable(o)
    /\ Admit("order", o)

(* cancle_order_v8: the order must have something left.                    *)
CancelOrder(o) ==
    /\ orders[o].avail > 0
    /\ Len(queue) <= MaxWaiting
    /\ Admit("cancel", o)

(* cancle_orders_v3: the same without a look at the queue.                 *)
CancelOrders(o) ==
    /\ orders[o].avail > 0
    /\ Admit("cancel", o)

(* The administrator's cancel_all_orders reads the temporary table.        *)
CancelAllOrders(o) ==
    /\ tmp[o].avail > 0
    /\ Admit("cancel", o)

Enqueue(r) ==
    /\ r \in inflight
    /\ inflight' = inflight \ {r}
    /\ queue' = Append(queue, [kind |-> r.kind, id |-> r.id, stalls |-> 0])
    /\ UNCHANGED <<requests, stalled, pc, job, msg, lastTrades, tables, txTables,
                   published, history>>

----------------------------------------------------------------------------
(* The worker, between two jobs.                                           *)

(* The job ends without writing anything more: the worker forgets it, its  *)
(* copy of the order and its transaction.                                  *)
Drop ==
    /\ pc' = "idle" /\ job' = <<>> /\ msg' = NoMsg /\ lastTrades' = NoTrades
    /\ txOrders' = orders /\ txTmp' = tmp /\ txTrades' = trades
    /\ UNCHANGED <<tables, published>>

(* What the worker does with a job depends on its kind and, for an order,  *)
(* on the number of jobs still waiting.                                    *)
Dispatch(kind, waiting) ==
    IF kind = "cancel" THEN "cancel"
    ELSE IF waiting < SkipWaiting THEN "check"
    ELSE IF waiting > FlushWaiting THEN "flush"
    ELSE "freeze"

TakeJob ==
    /\ pc = "idle"
    /\ queue # <<>>
    /\ job' = Head(queue)
    /\ queue' = Tail(queue)
    /\ pc' = Dispatch(Head(queue).kind, Len(queue) - 1)
    /\ skipped' = (skipped \/ pc' = "freeze")
    /\ UNCHANGED <<api, stalled, msg, lastTrades, tables, txTables, published,
                   failures, refused>>

(* done(): the job leaves the queue.                                       *)
Done ==
    /\ pc = "done"
    /\ Drop
    /\ UNCHANGED <<api, queue, stalled, history>>

----------------------------------------------------------------------------
(* The worker on an order.                                                 *)

CheckPassed ==
    /\ pc = "check"
    /\ Affordable(job.id)
    /\ pc' = "freeze"
    /\ UNCHANGED <<api, queue, stalled, job, msg, lastTrades, tables, txTables,
                   published, history>>

(* The order is dropped without a trace.                                   *)
CheckFailed ==
    /\ pc = "check"
    /\ ~ Affordable(job.id)
    /\ Drop
    /\ UNCHANGED <<api, queue, stalled, history>>

(* Too many jobs: all of them are dropped, this one included.              *)
Flush ==
    /\ pc = "flush"
    /\ queue' = <<>>
    /\ Drop
    /\ UNCHANGED <<api, stalled, history>>

(* updateFreeze, then begin.                                               *)
Freeze ==
    /\ pc = "freeze"
    /\ freeze' = Freezing(job.id, Order[job.id].amount)
    /\ msg' = [avail |-> Order[job.id].amount, pend |-> 0]
    /\ pc' = "match"
    /\ UNCHANGED <<api, queue, stalled, job, lastTrades, tables, txTables, depth,
                   history>>

(* What the taker and a resting order m can trade, and m's row after it.   *)
Mut_FillAmount(m) == txTmp[m].avail

FillAmount(m) == IF msg.avail < txTmp[m].avail THEN msg.avail ELSE txTmp[m].avail

Mut_Filled(table, m) ==
    Updated(table, m, - txTmp[m].avail, 0, FillAmount(m), "full_filled")

Filled(table, m) ==
    Updated(table, m, - FillAmount(m), 0, FillAmount(m),
            IF msg.avail < txTmp[m].avail THEN "partial_filled" ELSE "full_filled")

(* One iteration of makeTrades: m, one of the best resting orders, is      *)
(* filled by what the taker and it still have.  match() prepares at most   *)
(* 100 of them at a time, in this order, and call_asimov records their     *)
(* trades; the rounds follow each other in one transaction.                *)
Fill(m) ==
    LET amount == FillAmount(m) IN
    /\ pc = "match"
    /\ msg.avail > 0
    /\ m \in Best(job.id)
    /\ txOrders' = Filled(txOrders, m)
    /\ txTmp' = Filled(txTmp, m)
    /\ txTrades' = txTrades \cup {[taker |-> job.id, maker |-> m, amount |-> amount]}
    /\ msg' = [avail |-> msg.avail - amount, pend |-> msg.pend + amount]
    /\ lastTrades' = [lastTrades EXCEPT ![Level(m)] = @ + amount]
    /\ UNCHANGED <<api, queue, stalled, pc, job, tables, published, history>>

(* The loop ends when the order is filled or nothing crosses it.           *)
Mut_EndMatch ==
    /\ pc = "match"
    /\ msg.avail = 0
    /\ pc' = "publish"
    /\ UNCHANGED <<api, queue, stalled, job, msg, lastTrades, tables, txTables,
                   published, history>>

Mut_EndMatchEarly ==
    /\ pc = "match"
    /\ lastTrades # NoTrades \/ filter_orders(job.id) = {}
    /\ pc' = "publish"
    /\ UNCHANGED <<api, queue, stalled, job, msg, lastTrades, tables, txTables,
                   published, history>>

EndMatch ==
    /\ pc = "match"
    /\ msg.avail = 0 \/ filter_orders(job.id) = {}
    /\ pc' = "publish"
    /\ UNCHANGED <<api, queue, stalled, job, msg, lastTrades, tables, txTables,
                   published, history>>

(* computeOrderBookUpdates: what the order leaves on its own side is       *)
(* added, what it traded is taken from the levels of the makers.           *)
Mut_BookUpdates(o) ==
    [l \in Levels |-> (IF l = Level(o) THEN Order[o].amount ELSE 0) - lastTrades[l]]

BookUpdates(o) ==
    [l \in Levels |-> (IF l = Level(o) THEN msg.avail ELSE 0) - lastTrades[l]]

Publish ==
    /\ pc = "publish"
    /\ depth' = [l \in Levels |-> depth[l] + BookUpdates(job.id)[l]]
    /\ pc' = "insert"
    /\ UNCHANGED <<api, queue, stalled, job, msg, lastTrades, tables, txTables,
                   freeze, history>>

NewRow ==
    [avail |-> msg.avail, pend |-> msg.pend, canc |-> 0,
     status |-> IF msg.pend = 0 THEN "pending"
                ELSE IF msg.avail = 0 THEN "full_filled" ELSE "partial_filled"]

(* insert_order_v2: into both tables.                                      *)
Mut_Insert ==
    /\ pc = "insert"
    /\ txOrders' = [txOrders EXCEPT ![job.id] = NewRow]
    /\ txTmp' = [txTmp EXCEPT ![job.id] = NewRow]
    /\ pc' = "commit"
    /\ UNCHANGED <<api, queue, stalled, job, msg, lastTrades, tables, txTrades,
                   published, history>>

Insert ==
    /\ pc = "insert"
    /\ ~ Exists(txOrders, job.id)
    /\ txOrders' = [txOrders EXCEPT ![job.id] = NewRow]
    /\ txTmp' = [txTmp EXCEPT ![job.id] = NewRow]
    /\ pc' = "commit"
    /\ UNCHANGED <<api, queue, stalled, job, msg, lastTrades, tables, txTrades,
                   published, history>>

(* The id is already there: rollback.  Neither the freeze nor what was     *)
(* published is taken back.                                                *)
Mut_InsertRefused ==
    /\ pc = "insert"
    /\ Exists(txOrders, job.id)
    /\ refused' = TRUE
    /\ orders' = txOrders /\ tmp' = txTmp /\ trades' = txTrades
    /\ pc' = "done"
    /\ UNCHANGED <<api, queue, stalled, job, msg, lastTrades, txTables, published,
                   skipped, failures>>

InsertRefused ==
    /\ pc = "insert"
    /\ Exists(txOrders, job.id)
    /\ refused' = TRUE
    /\ Drop
    /\ UNCHANGED <<api, queue, stalled, skipped, failures>>

Commit ==
    /\ pc = "commit"
    /\ orders' = txOrders /\ tmp' = txTmp /\ trades' = txTrades
    /\ pc' = "done"
    /\ UNCHANGED <<api, queue, stalled, job, msg, lastTrades, txTables, published,
                   history>>

----------------------------------------------------------------------------
(* The worker on a cancellation: what is left when it runs is cancelled.   *)

(* No such order, or nothing left.                                         *)
CancelNothing ==
    /\ pc = "cancel"
    /\ orders[job.id].avail <= 0
    /\ Drop
    /\ UNCHANGED <<api, queue, stalled, history>>

(* cancle_order: update_orders writes mist_orders first ...                *)
CancelMain ==
    /\ pc = "cancel"
    /\ orders[job.id].avail > 0
    /\ LET left == orders[job.id].avail IN
       /\ msg' = [avail |-> left, pend |-> 0]
       /\ orders' = Updated(orders, job.id, - left, left, 0, "cancled")
       /\ txOrders' = orders'
    /\ pc' = "cancelTmp"
    /\ UNCHANGED <<api, queue, stalled, job, lastTrades, tmp, trades, txTmp,
                   txTrades, published, history>>

(* ... then mist_orders_tmp ...                                            *)
Mut_CancelTmp ==
    /\ pc = "cancelTmp"
    /\ pc' = "cancelBook"
    /\ UNCHANGED <<api, queue, stalled, job, msg, lastTrades, tables, txTables,
                   published, history>>

CancelTmp ==
    /\ pc = "cancelTmp"
    /\ tmp' = Updated(tmp, job.id, - msg.avail, msg.avail, 0, "cancled")
    /\ txTmp' = tmp'
    /\ pc' = "cancelBook"
    /\ UNCHANGED <<api, queue, stalled, job, msg, lastTrades, orders, trades,
                   txOrders, txTrades, published, history>>

(* ... then the depth is published ...                                     *)
Mut_CancelBook ==
    /\ pc = "cancelBook"
    /\ depth' = [depth EXCEPT ![Level(job.id)] = @ - msg.avail]
    /\ pc' = "done"
    /\ UNCHANGED <<api, queue, stalled, job, msg, lastTrades, tables, txTables,
                   freeze, history>>

CancelBook ==
    /\ pc = "cancelBook"
    /\ depth' = [depth EXCEPT ![Level(job.id)] = @ - msg.avail]
    /\ pc' = "cancelFreeze"
    /\ UNCHANGED <<api, queue, stalled, job, msg, lastTrades, tables, txTables,
                   freeze, history>>

(* ... and updateCancelFreeze gives the cost back.                         *)
Mut_CancelFreeze ==
    /\ pc = "cancelFreeze"
    /\ freeze' = Freezing(job.id, - Order[job.id].amount)
    /\ pc' = "done"
    /\ UNCHANGED <<api, queue, stalled, job, msg, lastTrades, tables, txTables,
                   depth, history>>

CancelFreeze ==
    /\ pc = "cancelFreeze"
    /\ freeze' = Freezing(job.id, - msg.avail)
    /\ pc' = "done"
    /\ UNCHANGED <<api, queue, stalled, job, msg, lastTrades, tables, txTables,
                   depth, history>>

----------------------------------------------------------------------------
(* Failures.                                                               *)

Fail ==
    /\ failures < MaxFailures
    /\ failures' = failures + 1
    /\ UNCHANGED <<skipped, refused>>

(* A database or redis call returns an error.  A transaction is rolled     *)
(* back and the job fails; a cancellation logs the error and is done, and  *)
(* keeps what it has written.  Bull does not try a failed job again.       *)
CallFails ==
    /\ pc \in {"match", "insert"} \cup CancelPhase
    /\ Fail
    /\ Drop
    /\ UNCHANGED <<api, queue, stalled>>

(* addOrderBookQueue refuses the update: the error is logged, and the      *)
(* worker goes on.                                                         *)
PublishFails ==
    /\ pc = "publish"
    /\ Fail
    /\ pc' = "insert"
    /\ UNCHANGED <<api, queue, stalled, job, msg, lastTrades, tables, txTables,
                   published>>

(* The process dies: Postgres rolls back, and Bull holds the job for a     *)
(* later delivery, unless it has stalled too often.                        *)
Crash ==
    /\ pc # "idle"
    /\ Fail
    /\ Drop
    /\ stalled' = IF job.stalls < MaxStalled
                  THEN Append(stalled, [job EXCEPT !.stalls = @ + 1])
                  ELSE stalled
    /\ UNCHANGED <<api, queue>>

(* Bull puts a stalled job at the head of the queue.                       *)
Redeliver ==
    /\ stalled # <<>>
    /\ queue' = <<Head(stalled)>> \o queue
    /\ stalled' = Tail(stalled)
    /\ UNCHANGED <<api, pc, job, msg, lastTrades, tables, txTables, published,
                   history>>

----------------------------------------------------------------------------

Requests ==
    \/ \E o \in OrderId :
        BuildOrder(o) \/ CancelOrder(o) \/ CancelOrders(o) \/ CancelAllOrders(o)
    \/ \E r \in Request : Enqueue(r)

Worker ==
    \/ TakeJob \/ Done
    \/ CheckPassed \/ CheckFailed \/ Flush \/ Freeze
    \/ (\E m \in OrderId : Fill(m))
    \/ EndMatch \/ Publish \/ Insert \/ InsertRefused \/ Commit
    \/ CancelNothing \/ CancelMain \/ CancelTmp \/ CancelBook \/ CancelFreeze

Next == Requests \/ Worker \/ Redeliver \/ CallFails \/ PublishFails \/ Crash

Spec == Init /\ [][Next]_vars

(* The worker keeps running (a dead one is restarted by pm2), Bull keeps   *)
(* looking for stalled jobs, and an admitted request is sent.  Nothing     *)
(* makes users send requests, and nothing makes calls fail.                *)
FairSpec ==
    /\ Spec
    /\ WF_vars(Worker)
    /\ WF_vars(Redeliver)
    /\ \A r \in Request : WF_vars(Enqueue(r))

----------------------------------------------------------------------------
(* Properties.                                                             *)

(* No amount is lost or made up by matching and cancelling, whatever fails *)
(* or is delivered twice: the parts of an order in the table the matching  *)
(* reads add up to its signed amount, and the other table can differ only  *)
(* by an amount it already shows as cancelled.                             *)
OrderConserved ==
    \A o \in OrderId :
        /\ Exists(orders, o) <=> Exists(tmp, o)
        /\ Exists(tmp, o) =>
            /\ tmp[o].avail >= 0 /\ tmp[o].pend >= 0 /\ tmp[o].canc >= 0
            /\ tmp[o].avail + tmp[o].pend + tmp[o].canc = Order[o].amount
            /\ tmp[o].canc > 0 => tmp[o].avail = 0
        /\ orders[o].pend = tmp[o].pend
        /\ orders[o].avail + orders[o].canc = tmp[o].avail + tmp[o].canc
        /\ orders[o].avail <= tmp[o].avail
        /\ orders[o].avail > 0 => orders[o].avail = tmp[o].avail

(* Two resting orders that could trade with each other never both rest:    *)
(* the matching loop leaves an order in the book only when it crosses      *)
(* nothing, also with resubmitted, cancelled and redelivered orders.       *)
NoCross(table) ==
    \A o, m \in OrderId :
        Crosses(o, m) => table[o].avail <= 0 \/ table[m].avail <= 0

NoCrossedBook == NoCross(tmp)

(* Without failures the two order tables agree whenever the worker is      *)
(* between jobs: update_orders and insert_order_v2 write both.             *)
TablesAgree == pc = "idle" /\ failures = 0 => orders = tmp

(* A trade is made with the best orders there are: when a transaction      *)
(* commits trades with m, no order n in the book before with a better      *)
(* price for the taker has anything left.                                  *)
BestPriceFirst ==
    [][\A t \in trades' \ trades :
        \A n \in OrderId :
            /\ Crosses(t.taker, n)
            /\ tmp[n].avail > 0
            /\ ~ AsGood(t.taker, t.maker, n)
            => tmp'[n].avail = 0]_vars

(* While the worker is alive, the freeze is only raised up to the balance, *)
(* unless the queue was so long that the check was skipped.                *)
FreezeWithinBalance ==
    \A t \in Trader, k \in Token : freeze[t][k] <= Balance[t][k] \/ skipped

(* The order tables in the terms of the abstract specification.            *)
LedgerAmount == [o \in OrderId |-> Order[o].amount]

LedgerRows ==
    [o \in OrderId |-> [placed |-> Exists(tmp, o), avail |-> tmp[o].avail,
                        pend |-> tmp[o].pend, canc |-> tmp[o].canc]]

Ledger == INSTANCE OrderLedger WITH Amount <- LedgerAmount, ledger <- LedgerRows

(* Each step of the system is a step of the abstract order ledger: fills   *)
(* appear with their order and all at once, an order enters once, and a    *)
(* cancellation takes everything that is left.                             *)
ImplementsLedger == Ledger!Spec

(* With the worker, Bull and the network running, every admitted request   *)
(* is handled in the end: nothing stays in the queue or with a dead worker.*)
QueueDrains ==
    <>[](inflight = {} /\ queue = <<>> /\ stalled = <<>> /\ pc = "idle")

=============================================================================
