------------------------------ MODULE Exchange ------------------------------
(***************************************************************************)
(* One trader's orders, trades and local book among the processes that     *)
(* write them: what the modules Engine and Settlement show of the engine,  *)
(* the launcher and the watcher is one action each here, and beside them   *)
(* run                                                                     *)
(*                                                                         *)
(*   rollback   rollback_trades of src/src/adex/api/trades.ts, called by   *)
(*              an operator who has stopped the launcher: it restores the  *)
(*              orders of trades that were not launched and deletes them   *)
(*   clean-up   every hour rows leave mist_orders_tmp (models/db.ts)       *)
(*   refresh    every day data_process reads the balances of the contract  *)
(*              and the freezes of the tables, and overwrites the local    *)
(*              books in redis                                             *)
(*                                                                         *)
(* The book is of the base token of a market; buy orders freeze the quote, *)
(* which is left out.                                                      *)
(***************************************************************************)
EXTENDS Debt, FiniteSets, Sums

CONSTANTS
    OrderId,        \* the trader's orders
    Order,          \* their sides and amounts
    TradeId,
    Deposit,        \* what the trader has in the contract at first
    Epoch,          \* hours since 1970
    MaxHours,       \* bound: hours more
    MaxFailures     \* bound: restorations that fail

Side == {"buy", "sell"}

ASSUME OrderAssumption == Order \in [OrderId -> [side : Side, amount : Nat \ {0}]]
ASSUME ExchangeAssumption ==
    /\ IsFiniteSet(OrderId) /\ IsFiniteSet(TradeId)
    /\ Deposit \in Nat /\ Epoch \in Nat \ {0} /\ MaxHours \in Nat /\ MaxFailures \in Nat
    /\ 1 .. Epoch + MaxHours + 1 \subseteq DOMAIN Growth

VARIABLES
    main,           \* mist_orders
    tmp,            \* mist_orders_tmp
    trades,         \* mist_trades
    net,            \* the account in the contract: what it has, or owes
    book,           \* the local book in redis
    rollback,       \* "idle", or "read": orders are restored, trades not deleted
    matched,        \* the trades it has read
    restore,        \* how far each of them is restored
    refresh,        \* the next step of the refresh
    account,        \* the account it has read,
    frozen,         \* and the freeze
    failures,       \* failed restorations so far
    doubtful,       \* orders whose restoration failed or was overtaken
    swept,          \* orders cleaned up with trades to settle
    loose,          \* the freeze in redis may be wrong,
    drift,          \* and the balance
    moved           \* something changed what the refresh has read

tables == <<main, tmp, trades>>
rolling == <<rollback, matched, restore>>
refreshing == <<refresh, account, frozen>>
vars == <<main, tmp, trades, net, book, rollback, matched, restore, refresh,
          account, frozen, failures, doubtful, swept, loose, drift, moved>>

----------------------------------------------------------------------------

(* pending and partial_filled make no difference here.                     *)
Row ==
    [avail : Int, pend : Int, conf : Nat, canc : Nat,
     status : {"live", "full_filled", "cancled"}]

NoRow == [avail |-> 0, pend |-> 0, conf |-> 0, canc |-> 0, status |-> "none"]

(* A trade without a transaction hash is matched or pending.               *)
Trade ==
    [order : OrderId, amount : Nat \ {0},
     status : {"matched", "pending", "launched", "successful", "deleted"}]

NoTrade == [status |-> "none"]

TypeOK ==
    /\ main \in [OrderId -> Row \cup {NoRow}]
    /\ tmp \in [OrderId -> Row \cup {NoRow}]
    /\ trades \in [TradeId -> Trade \cup {NoTrade}]
    /\ net \in Int
    /\ book \in Book
    /\ rollback \in {"idle", "read"}
    /\ matched \subseteq TradeId
    /\ restore \in [TradeId -> {"no", "main", "tmp", "done"}]
    /\ refresh \in {"idle", "freeze", "write"}
    /\ account \in Int /\ frozen \in Int
    /\ failures \in Nat
    /\ doubtful \subseteq OrderId /\ swept \subseteq OrderId
    /\ loose \in BOOLEAN /\ drift \in BOOLEAN /\ moved \in BOOLEAN

(* A book as the refresh writes it.  The interest of the contract is left  *)
(* out.                                                                    *)
BookOf(amount, freeze, time) ==
    [balance |-> IF amount >= 0 THEN amount ELSE 0,
     borrow |-> IF amount >= 0 THEN 0 ELSE - amount,
     debt |-> IF amount >= 0 THEN 0 ELSE - amount,
     since |-> IF amount >= 0 THEN 0 ELSE time,
     freeze |-> freeze, broken |-> FALSE]

Init ==
    /\ main = [o \in OrderId |-> NoRow]
    /\ tmp = [o \in OrderId |-> NoRow]
    /\ trades = [t \in TradeId |-> NoTrade]
    /\ net = Deposit
    /\ book = BookOf(Deposit, 0, Epoch)
    /\ rollback = "idle"
    /\ matched = {}
    /\ restore = [t \in TradeId |-> "no"]
    /\ refresh = "idle"
    /\ account = 0 /\ frozen = 0
    /\ failures = 0
    /\ doubtful = {} /\ swept = {}
    /\ loose = FALSE /\ drift = FALSE /\ moved = FALSE

----------------------------------------------------------------------------
(* Rows and books.                                                         *)

Exists(table, o) == table[o] # NoRow

(* update_orders: an update of a row that is not there changes nothing.    *)
Updated(table, o, avail, pend, canc, status) ==
    IF ~ Exists(table, o) THEN table
    ELSE [table EXCEPT ![o] = [avail |-> @.avail + avail, pend |-> @.pend + pend,
                               conf |-> @.conf, canc |-> @.canc + canc,
                               status |-> status]]

(* update_order_confirm leaves the status alone.                           *)
Confirmed(table, o, amount) ==
    IF ~ Exists(table, o) THEN table
    ELSE [table EXCEPT ![o].conf = @ + amount, ![o].pend = @ - amount]

Of(o) == {t \in TradeId : trades[t].status # "none" /\ trades[t].order = o}

(* The refresh may have read what changes now.                             *)
Changes == moved' = (refresh # "idle")

(* Only sell orders freeze the base.                                       *)
Freezing(o, amount) ==
    IF Order[o].side = "sell" THEN [book EXCEPT !.freeze = @ + amount] ELSE book

----------------------------------------------------------------------------
(* Engine, launcher and watcher.                                           *)

Place(o) ==
    LET row == [NoRow EXCEPT !.avail = Order[o].amount, !.status = "live"] IN
    /\ ~ Exists(main, o)
    /\ main' = [main EXCEPT ![o] = row]
    /\ tmp' = [tmp EXCEPT ![o] = row]
    /\ book' = Freezing(o, Order[o].amount)
    /\ Changes
    /\ UNCHANGED <<trades, net, rolling, refreshing, failures, doubtful, swept,
                   loose, drift>>

insert_trades(t, o, amount) ==
    trades' = [trades EXCEPT ![t] = [order |-> o, amount |-> amount, status |-> "matched"]]

(* What rests is looked up in mist_orders_tmp.                             *)
Match(o, t, amount) ==
    LET status == IF tmp[o].avail = amount THEN "full_filled" ELSE "live" IN
    /\ trades[t] = NoTrade
    /\ amount <= tmp[o].avail
    /\ main' = Updated(main, o, - amount, amount, 0, status)
    /\ tmp' = Updated(tmp, o, - amount, amount, 0, status)
    /\ insert_trades(t, o, amount)
    /\ Changes
    /\ UNCHANGED <<net, book, rolling, refreshing, failures, doubtful, swept,
                   loose, drift>>

find_order(o) == main[o]

(* And what is left to cancel in mist_orders.                              *)
Cancel(o) ==
    LET left == find_order(o).avail IN
    /\ left > 0
    /\ main' = Updated(main, o, - left, 0, left, "cancled")
    /\ tmp' = Updated(tmp, o, - left, 0, left, "cancled")
    /\ book' = Freezing(o, - left)
    /\ Changes
    /\ UNCHANGED <<trades, net, rolling, refreshing, failures, doubtful, swept,
                   loose, drift>>

Becomes(t, from, to) ==
    /\ trades[t].status = from
    /\ trades' = [trades EXCEPT ![t] = [@ EXCEPT !.status = to]]

(* The launcher collects a batch; if it dies now, the trade stays pending. *)
Mark(t) ==
    /\ rollback = "idle"
    /\ Becomes(t, "matched", "pending")
    /\ UNCHANGED <<main, tmp, net, book, rolling, refreshing, failures, doubtful,
                   swept, loose, drift, moved>>

(* The hours at which something may happen to the book.                    *)
Hour == (IF book.since = 0 THEN Epoch ELSE book.since) .. Epoch + MaxHours

(* The transaction is sent, the book moved and the hash recorded.  A move  *)
(* of a book without a balance is not exact.                               *)
Launch(t, now) ==
    LET trade == trades[t] IN
    /\ rollback = "idle"
    /\ Becomes(t, "pending", "launched")
    /\ book' = Settled(book, Order[trade.order].side, trade.amount, now)
    /\ drift' = (drift \/ book.balance = 0)
    /\ Changes
    /\ UNCHANGED <<main, tmp, net, rolling, refreshing, failures, doubtful, swept,
                   loose>>

(* The transaction is mined, and the watcher confirms it.                  *)
Confirm(t) ==
    LET o == trades[t].order
        amount == trades[t].amount IN
    /\ Becomes(t, "launched", "successful")
    /\ net' = net + Effect(Order[o].side, amount)
    /\ main' = Confirmed(main, o, amount)
    /\ tmp' = Confirmed(tmp, o, amount)
    /\ book' = Freezing(o, - amount)
    /\ Changes
    /\ UNCHANGED <<rolling, refreshing, failures, doubtful, swept, loose, drift>>

----------------------------------------------------------------------------
(* The rollback.                                                           *)

Unlaunched == {t \in TradeId : trades[t].status \in {"matched", "pending"}}

(* get_matched_trades.  The orders are restored from here on, and nobody   *)
(* waits for it.                                                           *)
StartRollback ==
    /\ rollback = "idle"
    /\ Unlaunched # {}
    /\ rollback' = "read"
    /\ matched' = Unlaunched
    /\ restore' = [t \in TradeId |-> IF t \in Unlaunched THEN "main" ELSE restore[t]]
    /\ UNCHANGED <<tables, net, book, refreshing, failures, doubtful, swept, loose,
                   drift, moved>>

(* restore_order updates the two tables one after the other.               *)
Mut_RestoreMain(t) ==
    /\ restore[t] = "main"
    /\ main' = Updated(main, trades[t].order, trades[t].amount, 0, 0, "live")
    /\ restore' = [restore EXCEPT ![t] = "tmp"]
    /\ Changes
    /\ UNCHANGED <<tmp, trades, net, book, rollback, matched, refreshing, failures,
                   doubtful, swept, loose, drift>>

RestoreMain(t) ==
    LET amount == trades[t].amount IN
    /\ restore[t] = "main"
    /\ main' = Updated(main, trades[t].order, amount, - amount, 0, "live")
    /\ restore' = [restore EXCEPT ![t] = "tmp"]
    /\ Changes
    /\ UNCHANGED <<tmp, trades, net, book, rollback, matched, refreshing, failures,
                   doubtful, swept, loose, drift>>

RestoreTmp(t) ==
    LET amount == trades[t].amount IN
    /\ restore[t] = "tmp"
    /\ tmp' = Updated(tmp, trades[t].order, amount, - amount, 0, "live")
    /\ restore' = [restore EXCEPT ![t] = "done"]
    /\ Changes
    /\ UNCHANGED <<main, trades, net, book, rollback, matched, refreshing, failures,
                   doubtful, swept, loose, drift>>

(* Nobody handles its errors, and the process may die meanwhile.           *)
RestoreFails(t) ==
    /\ failures < MaxFailures
    /\ restore[t] \in {"main", "tmp"}
    /\ restore' = [restore EXCEPT ![t] = "done"]
    /\ failures' = failures + 1
    /\ doubtful' = doubtful \cup {trades[t].order}
    /\ UNCHANGED <<tables, net, book, rollback, matched, refreshing, swept, loose,
                   drift, moved>>

(* delete_matched_trades asks for the trades again: one matched since then *)
(* is deleted without being restored.                                      *)
DeleteTrades ==
    /\ rollback = "read"
    /\ rollback' = "idle"
    /\ matched' = {}
    /\ trades' = [t \in TradeId |-> IF t \in Unlaunched
                                    THEN [trades[t] EXCEPT !.status = "deleted"]
                                    ELSE trades[t]]
    /\ doubtful' = doubtful \cup {trades[t].order : t \in Unlaunched \ matched}
    /\ UNCHANGED <<main, tmp, net, book, restore, refreshing, failures, swept, loose,
                   drift, moved>>

----------------------------------------------------------------------------
(* The clean-up: rows without an available amount go.                      *)

Swept == {o \in OrderId : Exists(tmp, o) /\ tmp[o].avail = 0}

Cleanup ==
    /\ Swept # {}
    /\ tmp' = [o \in OrderId |-> IF o \in Swept THEN NoRow ELSE tmp[o]]
    /\ swept' = swept \cup {o \in Swept : main[o].avail + main[o].pend > 0}
    /\ Changes
    /\ UNCHANGED <<main, trades, net, book, rolling, refreshing, failures, doubtful,
                   loose, drift>>

----------------------------------------------------------------------------
(* The refresh.                                                            *)

(* batchquery.                                                             *)
ReadAccount ==
    /\ refresh = "idle"
    /\ refresh' = "freeze"
    /\ account' = net
    /\ moved' = FALSE
    /\ UNCHANGED <<tables, net, book, rolling, frozen, failures, doubtful, swept,
                   loose, drift>>

(* get_freeze_amount: the rows of mist_orders_tmp that are live.           *)
Sells == {o \in OrderId : Order[o].side = "sell"}

Mut_LiveFreeze == Sum([o \in {o \in Sells : tmp[o].status = "live"} |-> tmp[o].avail])

LiveFreeze ==
    Sum([o \in {o \in Sells : tmp[o].status = "live"} |-> tmp[o].avail + tmp[o].pend])

ReadFreeze ==
    /\ refresh = "freeze"
    /\ refresh' = "write"
    /\ frozen' = LiveFreeze
    /\ UNCHANGED <<tables, net, book, rolling, account, failures, doubtful, swept,
                   loose, drift, moved>>

(* What the query leaves out: orders that are filled or cancelled and have *)
(* trades to settle, also where no row is left.                            *)
Forgotten(o) ==
    /\ Order[o].side = "sell"
    /\ main[o].pend + main[o].avail > 0
    /\ tmp[o].status # "live"

(* The refresh is quiet if nothing changes meanwhile.                      *)
WriteBook(now) ==
    /\ refresh = "write"
    /\ refresh' = "idle"
    /\ book' = BookOf(account, frozen, now)
    /\ loose' = (moved \/ \E o \in OrderId : Forgotten(o) \/ \E t \in Of(o) : restore[t] = "tmp")
    /\ drift' = (moved \/ \E t \in TradeId : trades[t].status = "launched")
    /\ account' = 0 /\ frozen' = 0
    /\ moved' = FALSE
    /\ UNCHANGED <<tables, net, rolling, failures, doubtful, swept>>

----------------------------------------------------------------------------

Next ==
    \/ \E o \in OrderId : Place(o) \/ Cancel(o)
    \/ \E o \in OrderId, t \in TradeId : \E amount \in 1 .. tmp[o].avail : Match(o, t, amount)
    \/ \E t \in TradeId : Mark(t) \/ Confirm(t) \/ \E now \in Hour : Launch(t, now)
    \/ StartRollback \/ DeleteTrades
    \/ \E t \in TradeId : RestoreMain(t) \/ RestoreTmp(t) \/ RestoreFails(t)
    \/ Cleanup
    \/ ReadAccount \/ ReadFreeze \/ \E now \in Hour : WriteBook(now)

Spec == Init /\ [][Next]_vars

----------------------------------------------------------------------------
(* Properties.                                                             *)

(* Nothing of an order is lost or made, whatever is rolled back or fails.  *)
Conserved ==
    \A o \in OrderId : Exists(main, o) =>
        main[o].avail + main[o].pend + main[o].conf + main[o].canc = Order[o].amount

(* A trade whose amount is pending: it is not settled, and not yet         *)
(* restored.                                                               *)
Outstanding(t) ==
    /\ trades[t].status \in {"matched", "pending", "launched", "deleted"}
    /\ restore[t] \in {"no", "main"}

Traded(o) == Sum([t \in {t \in Of(o) : Outstanding(t)} |-> trades[t].amount])

(* The pending amount of an order is what its trades add up to, however    *)
(* late it is restored after they are deleted, unless a restoration failed *)
(* or the engine matched the order while they were rolled back.            *)
PendingIsTraded ==
    \A o \in OrderId \ doubtful : main[o].pend = Traded(o)

(* What is available of an order rests in the book, also after a rollback, *)
(* unless its row was cleaned up while its trades were still to settle, or *)
(* it is being restored.                                                   *)
RestsInTmp ==
    \A o \in OrderId \ (swept \cup doubtful) :
        main[o].avail > 0 /\ (\A t \in Of(o) : restore[t] # "tmp")
            => Exists(tmp, o) /\ tmp[o].avail = main[o].avail

TablesSound == Conserved /\ PendingIsTraded /\ RestsInTmp

(* The freeze in redis is what the trader's orders need, through           *)
(* cancellations, rollbacks and refreshes, as long as the last refresh was *)
(* quiet and left no order out.                                            *)
FreezeExact ==
    ~ loose => book.freeze = Sum([o \in Sells |-> main[o].avail + main[o].pend])

(* What the contract has still to do to the account.                       *)
Unmined ==
    Sum([t \in {t \in TradeId : trades[t].status = "launched"} |->
            Effect(Order[trades[t].order].side, trades[t].amount)])

(* The balance in redis is that of the contract with the trades that are   *)
(* launched and not mined, as long as no book without a balance was moved  *)
(* and the last refresh was quiet.                                         *)
BookExact ==
    ~ drift => Net(book) = net + Unmined

(* The local book is right, for whatever order these processes come in.    *)
BookSound == FreezeExact /\ BookExact

(* A book with a balance owes nothing, however it was moved: the next      *)
(* borrowing overwrites what is owed.                                      *)
NeverBoth == book.balance > 0 => book.borrow = 0 /\ book.debt = 0

(* A buyer's book is credited 'according to the logic of the contract', as *)
(* test_repayment repeats it: in particular an account that owes nothing   *)
(* gets the amount.                                                        *)
CreditedInFull ==
    [][\A t \in TradeId :
          LET amount == trades[t].amount IN
          /\ trades[t].status = "pending" /\ trades'[t].status = "launched"
          /\ Order[trades[t].order].side = "buy"
          /\ ~ book.broken /\ book.since = 0
          => Net(book') = Net(test_repayment(book, amount, Epoch)) - Fee(amount)]_vars

=============================================================================
