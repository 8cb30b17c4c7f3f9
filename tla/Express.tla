------------------------------ MODULE Express ------------------------------
(***************************************************************************)
(* The express exchange: a user sends an asset to the express account      *)
(* (base) and gets another one from its pool (quote), at the price of the  *)
(* order books.  src/src/express/index.ts broadcasts and stores the        *)
(* request; two loops of src/src/express_watcher/index.ts serve it:        *)
(*                                                                         *)
(*   decode   reads the transaction, prices it and makes an offer: the     *)
(*            quote less a fee, or the base back if the pool is too small  *)
(*   pay      sends what was offered and records it, the newest first      *)
(*                                                                         *)
(* Both go on for ever, and start over when anything fails.  The books are *)
(* a snapshot in mist_order_book_tmp, which src/src/data_process/index.ts  *)
(* empties and fills when it starts and then keeps up to date.  The amount *)
(* of a payment is in units of 1 / (1000 * Unit), so that it and its fee   *)
(* are natural numbers.                                                    *)
(***************************************************************************)
EXTENDS Pricing

CONSTANTS
    Token,
    Kinds,          \* the requests to consider,
    Pairs,          \* the base and quote tokens they are about,
    BaseAmounts,    \* and what users send
    Books,          \* the orders there may be: to buy the base, to sell the quote
    Pool,           \* the assets of the express account at first
    MaxRows,        \* bound: requests
    MaxTroubles,    \* bound: failed queries and calls, lost replies, restarts
    MaxPayments     \* bound: payments of one row

Id == 1 .. MaxRows

(* A request is good, goes to another address than the express account's,  *)
(* has a transaction that cannot be decoded or a base asset that is not in *)
(* mist_tokens, or asks for a quote asset that is not there.               *)
Kind == {"good", "stray", "unreadable", "unquoted"}

ASSUME KindsAssumption == Kinds \subseteq Kind
ASSUME PairsAssumption == Pairs \subseteq {p \in Token \X Token : p[1] # p[2]}
ASSUME AmountAssumption == BaseAmounts \subseteq Nat \ {0} /\ Pool \in [Token -> Nat]
ASSUME BooksAssumption ==
    \A orders \in Books : orders \subseteq RestingOrder /\ IsFiniteSet(orders)
ASSUME BoundAssumption == MaxRows \in Nat /\ MaxTroubles \in Nat /\ MaxPayments \in Nat

VARIABLES
    table,          \* asim_express_records
    snapshot,       \* mist_order_book_tmp
    pc,             \* the next step of each loop
    at,             \* the row it is at
    sent,           \* the payments made for each row, in the master chain
    pool,           \* the assets of the express account
    troubles,       \* accidents so far
    doubtful        \* the rows that met one

vars == <<table, snapshot, pc, at, sent, pool, troubles, doubtful>>

----------------------------------------------------------------------------

(* A side of the pair, the amount and the fee; or an amount that is not a  *)
(* number.                                                                 *)
Offer == [side : {1, 2}, amount : Nat, fee : Nat]

NotANumber == [side |-> 0, amount |-> 0, fee |-> 0]

NoOffer == [side |-> 3, amount |-> 0, fee |-> 0]

(* What the base was worth in the books is not in the table: worth is for  *)
(* the properties.                                                         *)
Row ==
    [kind : Kind, pair : Pairs, amount : BaseAmounts, worth : Nat,
     offer : Offer \cup {NotANumber, NoOffer},
     base : {"pending", "successful", "illegaled"}, quote : {"pending", "successful"}]

NoRow ==
    [kind |-> "none", pair |-> <<>>, amount |-> 0, worth |-> 0, offer |-> NoOffer,
     base |-> "none", quote |-> "none"]

(* The snapshot while data_process starts.                                 *)
NoBooks == << >>

Loop == {"decode", "pay"}

TypeOK ==
    /\ table \in [Id -> Row \cup {NoRow}]
    /\ snapshot \in {order_book_v2(orders) : orders \in Books} \cup {NoBooks}
    /\ pc \in [Loop -> {"idle", "decode", "record", "dead"}]
    /\ at \in [Loop -> Id \cup {0}]
    /\ \A l \in Loop : at[l] = 0 <=> pc[l] \in {"idle", "dead"}
    /\ sent \in [Id -> Seq(Offer)]
    /\ pool \in [Token -> Nat]
    /\ troubles \in Nat
    /\ doubtful \subseteq Id

Init ==
    /\ table = [i \in Id |-> NoRow]
    /\ snapshot = NoBooks
    /\ pc = [l \in Loop |-> "idle"]
    /\ at = [l \in Loop |-> 0]
    /\ sent = [i \in Id |-> <<>>]
    /\ pool = Pool
    /\ troubles = 0
    /\ doubtful = {}

Goto(l, step, i) ==
    /\ pc' = [pc EXCEPT ![l] = step]
    /\ at' = [at EXCEPT ![l] = i]

Trouble == troubles < MaxTroubles /\ troubles' = troubles + 1

InDoubt(S) == doubtful' = doubtful \cup S

----------------------------------------------------------------------------
(* build_express_v2: the base is broadcast, and the request stored without *)
(* a word about its contents.                                              *)
InAccount(asset, amount) == [pool EXCEPT ![asset] = @ + amount]

insert_express(i, kind, pair, amount) ==
    table' = [table EXCEPT ![i] = [kind |-> kind, pair |-> pair, amount |-> amount,
                                   worth |-> 0, offer |-> NoOffer,
                                   base |-> "pending", quote |-> "pending"]]

Ask(i, kind, pair, amount) ==
    /\ table[i] = NoRow
    /\ \A j \in Id : j < i => table[j] # NoRow
    /\ insert_express(i, kind, pair, amount)
    /\ pool' = IF kind = "good" THEN InAccount(pair[1], 1000 * Unit * amount) ELSE pool
    /\ UNCHANGED <<snapshot, pc, at, sent, troubles, doubtful>>

----------------------------------------------------------------------------
(* data_process.                                                           *)

get_order_book_tmp == snapshot

insert_order_book_tmp(books) == snapshot' = books

(* An update of a row that is not there changes nothing.                   *)
update_order_book_tmp(books) ==
    snapshot' = IF get_order_book_tmp = NoBooks THEN NoBooks ELSE books

truncate == snapshot' = NoBooks

(* init empties the table, and inserts the books if nothing fails.         *)
FillBooks(orders) ==
    /\ get_order_book_tmp = NoBooks
    /\ insert_order_book_tmp(order_book_v2(orders))
    /\ UNCHANGED <<table, pc, at, sent, pool, troubles, doubtful>>

(* orderBookLoop.                                                          *)
RefreshBooks(orders) ==
    /\ update_order_book_tmp(order_book_v2(orders))
    /\ UNCHANGED <<table, pc, at, sent, pool, troubles, doubtful>>

EmptyBooks ==
    /\ Trouble
    /\ truncate
    /\ UNCHANGED <<table, pc, at, sent, pool, doubtful>>

----------------------------------------------------------------------------
(* baseTXDecodeLoop.                                                       *)

(* getPendingDecodeBaseTX: the row has no address yet.                     *)
Undecoded(i) == table[i] # NoRow /\ table[i].offer = NoOffer

(* Any row without an address may be the one the query returns.            *)
Pick(i) ==
    /\ pc["decode"] = "idle"
    /\ Undecoded(i)
    /\ Goto("decode", "decode", i)
    /\ UNCHANGED <<table, snapshot, sent, pool, troubles, doubtful>>

(* Nothing is written when the transaction or its asset says nothing, or a *)
(* call fails: the loop asks for a row again.                              *)
DecodeFails ==
    /\ pc["decode"] = "decode"
    /\ \/ table[at["decode"]].kind = "unreadable" /\ UNCHANGED troubles
       \/ Trouble
    /\ Goto("decode", "idle", 0)
    /\ UNCHANGED <<table, snapshot, sent, pool, doubtful>>

(* Without a balance of the quote asset the loop throws, and is not        *)
(* scheduled again.                                                        *)
DecodeThrows ==
    /\ pc["decode"] = "decode"
    /\ table[at["decode"]].kind = "unquoted"
    /\ Goto("decode", "dead", 0)
    /\ UNCHANGED <<table, snapshot, sent, pool, troubles, doubtful>>

(* get_asset_balances of the express account.                              *)
Balance(token) == pool[token]

(* The fee is 0.5 percent.  If the account has less of the quote than what *)
(* remains, the base goes back.  Nothing is more than it has if that is    *)
(* not a number.                                                           *)
Refund(row) == [side |-> 1, amount |-> 1000 * Unit * row.amount, fee |-> 0]

Exchange(row, value) ==
    [side |-> 2, amount |-> 995 * row.amount * value, fee |-> 5 * row.amount * value]

OfferFor(row, price) ==
    CASE price.is = "nan" -> NotANumber
      [] price.is = "number" /\ Exchange(row, price.value).amount <= Balance(row.pair[2])
            -> Exchange(row, price.value)
      [] OTHER -> Refund(row)

(* update_base.  A price of zero is an answer like any other.              *)
Mut_BaseStatus(kind) == IF kind = "stray" THEN "successful" ELSE "illegaled"

BaseStatus(kind) == IF kind = "good" THEN "successful" ELSE "illegaled"

update_base(i, offer, worth, status) ==
    [table EXCEPT ![i].offer = offer, ![i].worth = worth, ![i].base = status,
                  ![i].quote = "pending"]

Decode ==
    LET i == at["decode"]
        row == table[i]
        base == row.pair[1]
        quote == row.pair[2]
        books == get_order_book_tmp
        price == GetPrice(base, quote, row.amount, books[1], books[2])
        worth == Worth(base, quote, row.amount, books[1], books[2]) IN
    /\ pc["decode"] = "decode"
    /\ row.kind \in {"good", "stray"}
    /\ books # NoBooks
    /\ table' = update_base(i, OfferFor(row, price), worth, BaseStatus(row.kind))
    /\ Goto("decode", "idle", 0)
    /\ UNCHANGED <<snapshot, sent, pool, troubles, doubtful>>

(* Without a price, as when the order book cannot be read or data_process  *)
(* has just started, the amounts are not numbers, no balance is too small  *)
(* for them, and the row is illegal: the base stays where it is.           *)
NoPrice ==
    LET i == at["decode"] IN
    /\ pc["decode"] = "decode"
    /\ table[i].kind \in {"good", "stray"}
    /\ (get_order_book_tmp = NoBooks /\ UNCHANGED troubles) \/ Trouble
    /\ table' = update_base(i, NotANumber, 0, "illegaled")
    /\ Goto("decode", "idle", 0)
    /\ InDoubt({i})
    /\ UNCHANGED <<snapshot, sent, pool>>

----------------------------------------------------------------------------
(* quoteTXProcessLoop.                                                     *)

Mut_Payable(i) ==
    table[i].base = "successful" /\ table[i].quote = "pending" /\ table[i].offer.side = 2

Payable(i) == table[i].base = "successful" /\ table[i].quote = "pending"

(* laucher_pending_trade.                                                  *)
IsNewestPayable(i) == Payable(i) /\ \A j \in Id : j > i => ~ Payable(j)

Mut_InPool(row) == row.offer.side \in {1, 2}

InPool(row) ==
    /\ row.offer.side \in {1, 2}
    /\ row.offer.amount <= pool[row.pair[row.offer.side]]

Send(i) ==
    LET row == table[i] IN
    /\ pc["pay"] = "idle"
    /\ IsNewestPayable(i)
    /\ InPool(row)
    /\ Len(sent[i]) < MaxPayments
    /\ sent' = [sent EXCEPT ![i] = Append(@, row.offer)]
    /\ pool' = InAccount(row.pair[row.offer.side], - row.offer.amount)
    /\ UNCHANGED <<table, snapshot>>

(* transfer.  A refused one, as for want of assets, changes nothing.       *)
Pay(i) ==
    /\ Send(i)
    /\ Goto("pay", "record", i)
    /\ UNCHANGED <<troubles, doubtful>>

(* The reply is lost: two seconds later the newest row is sent again.      *)
ReplyLost(i) ==
    /\ Send(i)
    /\ Trouble
    /\ InDoubt({i})
    /\ UNCHANGED <<pc, at>>

update_quote(i, status) == [table EXCEPT ![i].quote = status]

PaymentRecorded ==
    /\ pc["pay"] = "record"
    /\ table' = update_quote(at["pay"], "successful")
    /\ Goto("pay", "idle", 0)
    /\ UNCHANGED <<snapshot, sent, pool, troubles, doubtful>>

PaymentNotRecorded ==
    /\ pc["pay"] = "record"
    /\ Trouble
    /\ InDoubt({at["pay"]})
    /\ Goto("pay", "idle", 0)
    /\ UNCHANGED <<table, snapshot, sent, pool>>

----------------------------------------------------------------------------

(* The process dies and starts again.                                      *)
Restart ==
    /\ Trouble
    /\ InDoubt({i \in Id : i = at["pay"]})
    /\ pc' = [l \in Loop |-> "idle"]
    /\ at' = [l \in Loop |-> 0]
    /\ UNCHANGED <<table, snapshot, sent, pool>>

DecodeLoop ==
    \/ \E i \in Id : Pick(i)
    \/ Decode \/ NoPrice \/ DecodeFails \/ DecodeThrows

PayLoop == PaymentRecorded \/ \E i \in Id : Pay(i)

Accident == EmptyBooks \/ PaymentNotRecorded \/ Restart \/ \E i \in Id : ReplyLost(i)

Next ==
    \/ \E i \in Id, kind \in Kinds, pair \in Pairs, amount \in BaseAmounts :
          Ask(i, kind, pair, amount)
    \/ \E orders \in Books : FillBooks(orders) \/ RefreshBooks(orders)
    \/ DecodeLoop \/ PayLoop
    \/ Accident

Spec == Init /\ [][Next]_vars

(* A loop that is not dead goes on.                                        *)
FairSpec == Spec /\ WF_vars(DecodeLoop) /\ WF_vars(PayLoop)

----------------------------------------------------------------------------
(* Properties.                                                             *)

(* Whatever is sent for a row is what it was offered, and it is sent once, *)
(* although the payment is made before it is recorded, unless the row met  *)
(* an accident.                                                            *)
PaidAsOffered ==
    \A i \in Id :
        /\ i \notin doubtful => Len(sent[i]) <= 1
        /\ \A n \in DOMAIN sent[i] : sent[i][n] = table[i].offer

(* What a user gets and the fee are what the base was worth in the books,  *)
(* but for the rounding of the price; or the base goes back.  Nothing is   *)
(* sent for a base that went to somebody else.                             *)
Deal(row) ==
    /\ row.kind = "good"
    /\ row.offer.side = 2 =>
          LET paid == row.offer.amount + row.offer.fee
              error == 500 * row.amount + 1000 IN
          paid \in 1000 * row.worth - error .. 1000 * row.worth + error
    /\ row.offer.side = 1 => row.offer.amount = 1000 * Unit * row.amount

(* Users who ask for CNYC get what they were offered, once and at the      *)
(* price of the books, although the payment is made before it is recorded. *)
FairDeal ==
    /\ PaidAsOffered
    /\ \A i \in Id : sent[i] # <<>> /\ table[i].pair[2] = "CNYC" => Deal(table[i])

(* 'First sell all the base, then buy the quote with everything': also for *)
(* a quote with a book of its own.                                         *)
BookPrice == \A i \in Id : sent[i] # <<>> => Deal(table[i])

StageOf(i) ==
    IF table[i] = NoRow THEN "none"
    ELSE IF i \in doubtful THEN "doubtful"
    ELSE IF sent[i] # <<>> THEN "paid"
    ELSE IF table[i].base = "illegaled" THEN "refused"
    ELSE IF table[i].kind = "good" THEN "taken" ELSE "requested"

Ledger == INSTANCE TransferLedger WITH stage <- [i \in Id |-> StageOf(i)]

(* The exchange keeps the promises of TransferLedger: a base that reached  *)
(* the express account is never refused, and what is paid or refused stays *)
(* so.                                                                     *)
KeepsPromises == Ledger!Spec

(* An offer the pool no longer covers, as the balance was compared when    *)
(* the offer was made, or one that is not a number.                        *)
Overdrawn == \E i \in Id : Payable(i) /\ ~ InPool(table[i])

(* A base that reached the express account is exchanged or refunded in the *)
(* end, unless its row met an accident, another row keeps the decode loop  *)
(* or has killed it, or an offer that the pool does not cover any more     *)
(* stands before it.                                                       *)
Served ==
    \A i \in Id :
        table[i].kind = "good"
            ~> \/ StageOf(i) \in {"paid", "doubtful"}
               \/ \E j \in Id : table[j].kind \in {"unreadable", "unquoted"}
               \/ Overdrawn

=============================================================================
