--------------------------- MODULE EngineAccounts ---------------------------
(***************************************************************************)
(* What the engine's tables, the local books in redis and the published    *)
(* depth say about each other: properties of module Engine that add up     *)
(* rows.                                                                   *)
(***************************************************************************)
EXTENDS Engine, Sums

(* The amount of o in a set of trades.                                     *)
Traded(made, o) ==
    Sum([t \in {t \in made : o \in {t.taker, t.maker}} |-> t.amount])

(* What the orders of a trader that are not settled cost it of a token.    *)
Needed(table, t, k) ==
    Sum([o \in {o \in OrderId : Order[o].trader = t /\ PayToken(o) = k} |->
            Cost(o, table[o].avail + table[o].pend)])

(* What rests in the book at a price level.                                *)
Resting(table, l) ==
    Sum([o \in {o \in OrderId : Level(o) = l} |-> table[o].avail])

(* An order's pending amount is what its trades add up to: the rows the    *)
(* engine updates and the trades it inserts stay together through          *)
(* rollbacks, redeliveries and resubmissions, for takers and makers alike. *)
PendingBacked == \A o \in OrderId : tmp[o].pend = Traded(trades, o)

(* The freeze of a trader always covers its open and pending orders, also  *)
(* after crashes and failed calls: the engine freezes before it commits    *)
(* and unfreezes after it has cancelled.                                   *)
FreezeCovers ==
    \A t \in Trader, k \in Token : freeze[t][k] >= Needed(tmp, t, k)

(* When nothing has failed and no id was used twice, the freeze is exactly *)
(* that between jobs, and the depth published to the socket server adds up *)
(* to the book: nothing is left frozen or shown.                           *)
FreezeExact == \A t \in Trader, k \in Token : freeze[t][k] = Needed(tmp, t, k)

DepthExact == \A l \in Levels : depth[l] = Resting(tmp, l)

(* Redis and the socket server follow the tables.                          *)
AccountsSound ==
    /\ FreezeCovers
    /\ pc = "idle" /\ failures = 0 /\ ~ refused => FreezeExact /\ DepthExact

=============================================================================
