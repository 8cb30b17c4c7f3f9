-------------------------- MODULE EngineInvariant ---------------------------
(***************************************************************************)
(* The inductive invariant of modules Engine and EngineAccounts: what      *)
(* holds between any two steps and explains why the properties hold.       *)
(***************************************************************************)
EXTENDS EngineAccounts

(* The two rows of an order.  A cancellation that wrote only mist_orders   *)
(* leaves the row there behind: what it cancelled there is still available *)
(* or traded in the row the matching reads.                                *)
RowsAgree(main, row, amount) ==
    /\ main.status = "none" <=> row.status = "none"
    /\ row.status = "none" => main = NoRow /\ row = NoRow
    /\ row.status # "none" => row.avail + row.pend + row.canc = amount
    /\ row.avail >= 0 /\ row.pend >= 0 /\ row.canc >= 0
    /\ row.canc > 0 => row.avail = 0
    /\ main.pend = row.pend
    /\ main.avail + main.canc = row.avail + row.canc
    /\ main.avail <= row.avail
    /\ main.avail > 0 => main.avail = row.avail

RowsInv(mains, rows) ==
    \A o \in OrderId : RowsAgree(mains[o], rows[o], Order[o].amount)

(* new is old after some fills.                                            *)
FilledFrom(old, new) ==
    /\ old.status = "none" <=> new.status = "none"
    /\ new.avail <= old.avail
    /\ new.avail + new.pend = old.avail + old.pend
    /\ new.canc = old.canc

(* What the open transaction has done to the tables.                       *)
TxInv ==
    /\ pc \notin TxPhase => txOrders = orders /\ txTmp = tmp /\ txTrades = trades
    /\ pc \in TxPhase =>
        /\ msg.avail + msg.pend = Order[job.id].amount
        /\ \A m \in OrderId :
              (m # job.id \/ pc # "commit") => FilledFrom(tmp[m], txTmp[m])
    /\ pc \in {"publish", "insert"} => msg.avail = 0 \/ filter_orders(job.id) = {}
    /\ pc = "commit" =>
        /\ ~ Exists(tmp, job.id)
        /\ Exists(txTmp, job.id)
        /\ txTmp[job.id].canc = 0

(* A cancellation between its two updates.                                 *)
CancelInv ==
    pc = "cancelTmp" =>
        /\ Exists(tmp, job.id)
        /\ orders[job.id].avail = 0
        /\ tmp[job.id].avail = msg.avail /\ msg.avail > 0

(* Without failures only such a cancellation makes the tables differ.      *)
AgreeInv ==
    failures = 0 =>
        /\ orders = IF pc = "cancelTmp"
                    THEN Updated(tmp, job.id, - msg.avail, msg.avail, 0, "cancled")
                    ELSE tmp
        /\ pc \in TxPhase => txOrders = txTmp

(* The trades of the open transaction are the taker's, and orders with a   *)
(* better price than their makers' have nothing left.                      *)
TradesInv ==
    \A t \in txTrades \ trades :
        /\ t.taker = job.id
        /\ \A n \in OrderId :
              Crosses(t.taker, n) /\ ~ AsGood(t.taker, t.maker, n) => txTmp[n].avail = 0

(* Freezing comes after the check, if there was one.                       *)
FreezeInv ==
    /\ FreezeWithinBalance
    /\ pc = "freeze" => Affordable(job.id) \/ skipped

TableInv ==
    /\ TypeOK
    /\ RowsInv(orders, tmp) /\ RowsInv(txOrders, txTmp)
    /\ NoCross(tmp) /\ NoCross(txTmp)
    /\ TxInv
    /\ CancelInv

----------------------------------------------------------------------------
(* Sums.                                                                   *)

(* The open transaction adds trades of its taker to those that are         *)
(* committed, and none twice: it empties a maker or the taker.             *)
MadeInv ==
    /\ IsFiniteSet(txTrades) /\ trades \subseteq txTrades
    /\ \A t \in trades : Exists(tmp, t.taker) /\ Exists(tmp, t.maker)
    /\ \A t \in txTrades \ trades :
          /\ t.taker = job.id /\ Exists(tmp, t.maker)
          /\ pc = "match" => txTmp[t.maker].avail = 0 \/ msg.avail = 0

(* What is pending of the taker is in the worker's copy before its row is  *)
(* inserted.  The trades of a taker whose id is in use may be ones it has  *)
(* made before; they are not committed.                                    *)
PendingInv ==
    /\ MadeInv
    /\ PendingBacked
    /\ pc \in TxPhase /\ ~ Exists(tmp, job.id) =>
         \A o \in OrderId :
           Traded(txTrades, o) = IF o = job.id /\ pc # "commit" THEN msg.pend
                                                               ELSE txTmp[o].pend

(* What is frozen and not needed by an order in the tables: the cost of an *)
(* order that is not committed, or is cancelled there and not in redis.    *)
Held(t, k) ==
    IF pc \notin TxPhase \cup {"cancelBook", "cancelFreeze"} THEN 0
    ELSE IF t # Order[job.id].trader \/ k # PayToken(job.id) THEN 0
    ELSE Cost(job.id, IF pc \in TxPhase THEN Order[job.id].amount ELSE msg.avail)

HeldInv ==
    \A t \in Trader, k \in Token :
        /\ freeze[t][k] >= Needed(tmp, t, k) + Held(t, k)
        /\ failures = 0 /\ ~ refused => freeze[t][k] = Needed(tmp, t, k) + Held(t, k)

(* What the socket server shows beside what rests in the tables as the     *)
(* worker sees them.                                                       *)
Unpublished(l) ==
    IF pc \in {"match", "publish"} THEN lastTrades[l]
    ELSE IF pc \in {"insert", "cancelBook"} /\ l = Level(job.id) THEN msg.avail
    ELSE 0

ShownInv ==
    /\ pc \in {"idle", "check", "flush", "freeze"} => lastTrades = NoTrades
    /\ failures = 0 /\ ~ refused =>
          \A l \in Levels : depth[l] = Resting(txTmp, l) + Unpublished(l)

=============================================================================
