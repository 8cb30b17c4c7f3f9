------------------------------- MODULE Bridge -------------------------------
(***************************************************************************)
(* The bridge between the master chain (assets) and the child chain        *)
(* (coins): the requests of src/src/wallet/index.ts and the four loops of  *)
(* src/src/bridge_watcher/index.ts over the table mist_bridge.             *)
(*                                                                         *)
(*   decode   reads the transaction of a deposit and says whose it is      *)
(*   mint     mints the coins of a deposit                                 *)
(*   burn     burns the coins of a withdrawal and waits for the receipt    *)
(*   release  sends the assets of a withdrawal, the refused ones first     *)
(*                                                                         *)
(* A loop reads the newest row it can do something for, calls a chain and  *)
(* records the outcome; a step of the model ends where another loop or an  *)
(* accident can make a difference.  The loops share one pool of database   *)
(* clients, each query taking whichever client is free, and release sends  *)
(* begin, commit and rollback through the pool like any query: a           *)
(* transaction belongs to a client, and may hold the writes of any loop    *)
(* until someone ends it.                                                  *)
(***************************************************************************)
EXTENDS Codec

CONSTANTS
    Client,         \* the clients of the pool
    Deposit,        \* the deposits to consider, by name,
    Tx,             \* and their transactions
    BridgeAddress,  \* where they should go
    Listed,         \* the assets in mist_tokens
    MaxRows,        \* bound: requests
    MaxRefusals,    \* bound: calls a chain refuses
    MaxTroubles,    \* bound: failed queries, lost replies, late receipts, restarts
    MaxPayments     \* bound: payments and burns of one row

Id == 1 .. MaxRows

Withdrawal == {"withdrawal"}

Kind == Deposit \cup Withdrawal

ASSUME ClientAssumption == Client # {}
ASSUME DepositAssumption == Deposit \cap Withdrawal = {} /\ "none" \notin Deposit
ASSUME TxAssumption == Tx \in [Deposit -> Transaction]
ASSUME BoundAssumption ==
    /\ MaxRows \in Nat /\ MaxRefusals \in Nat /\ MaxTroubles \in Nat
    /\ MaxPayments \in Nat

VARIABLES
    table,          \* mist_bridge, as committed
    open,           \* the clients in a transaction
    draft,          \* the rows a client has written in its transaction
    pc,             \* the next step of each loop
    at,             \* the row it is at
    minedBurn,      \* whether the last burn was effective
    taken,          \* times the asset or the coins of a row were taken
    paid,           \* times its coins were minted or its assets sent
    booked,         \* times the local book in redis was moved for it
    refusals,       \* calls refused so far
    troubles,       \* accidents so far
    doubtful        \* rows that met an accident or went through a draft

database == <<table, open, draft>>
chains == <<taken, paid>>
vars == <<table, open, draft, pc, at, minedBurn, taken, paid, booked, refusals,
          troubles, doubtful>>

----------------------------------------------------------------------------

Status == {"pending", "successful", "failed", "illegaled"}

Amount == {0} \cup {ToAmount(Tx[kind]) : kind \in Deposit}

Row == [kind : Kind, decoded : BOOLEAN, amount : Amount, master : Status, child : Status]

NoRow ==
    [kind |-> "none", decoded |-> FALSE, amount |-> 0, master |-> "none",
     child |-> "none"]

Loop == {"decode", "mint", "burn", "release"}

Step == {"idle", "receipt", "record", "recordRetry", "recordRefused", "pending",
         "commit", "dead"}

TypeOK ==
    /\ table \in [Id -> Row \cup {NoRow}]
    /\ open \subseteq Client
    /\ draft \in [Client -> [Id -> Row \cup {NoRow}]]
    /\ \A c \in Client, i \in Id :
          draft[c][i] # NoRow => c \in open /\ draft[c][i].kind = table[i].kind
    /\ pc \in [Loop -> Step]
    /\ at \in [Loop -> Id \cup {0}]
    /\ \A l \in Loop : at[l] = 0 <=> pc[l] \in {"idle", "pending", "commit", "dead"}
    /\ minedBurn \in BOOLEAN
    /\ taken \in [Id -> Nat] /\ paid \in [Id -> Nat] /\ booked \in [Id -> Nat]
    /\ refusals \in Nat /\ troubles \in Nat
    /\ doubtful \subseteq Id

Init ==
    /\ table = [i \in Id |-> NoRow]
    /\ open = {}
    /\ draft = [c \in Client |-> [i \in Id |-> NoRow]]
    /\ pc = [l \in Loop |-> "idle"]
    /\ at = [l \in Loop |-> 0]
    /\ minedBurn = FALSE
    /\ taken = [i \in Id |-> 0]
    /\ paid = [i \in Id |-> 0]
    /\ booked = [i \in Id |-> 0]
    /\ refusals = 0 /\ troubles = 0
    /\ doubtful = {}

----------------------------------------------------------------------------
(* The pool.                                                               *)

NoDraft == [i \in Id |-> NoRow]

(* The table as client c sees it: with its own uncommitted writes.         *)
Seen(c) == [i \in Id |-> IF draft[c][i] # NoRow THEN draft[c][i] ELSE table[i]]

(* An update waits for the transaction of another client that has written  *)
(* the row.                                                                *)
Writable(c, i) == \A d \in Client \ {c} : draft[d][i] = NoRow

(* A write is committed at once or stays in the draft of the client's      *)
(* transaction.                                                            *)
Write(c, i, row) ==
    /\ Writable(c, i)
    /\ IF c \in open
       THEN /\ draft' = [draft EXCEPT ![c][i] = row]
            /\ doubtful' = doubtful \cup {i}
            /\ UNCHANGED table
       ELSE /\ table' = [table EXCEPT ![i] = row]
            /\ UNCHANGED <<draft, doubtful>>
    /\ UNCHANGED open

(* The transactions of the clients D are forgotten: rolled back, or ended  *)
(* by the server when the pool drops the client after an error.            *)
Mut_Forget(D) ==
    /\ open' = open \ D
    /\ UNCHANGED <<table, draft>>

Forget(D) ==
    /\ open' = open \ D
    /\ draft' = [c \in Client |-> IF c \in D THEN NoDraft ELSE draft[c]]
    /\ UNCHANGED table

(* Only the newest of the rows that a filter lets through is returned.     *)
filter_bridge(i, rows) == i \in rows /\ \A j \in rows : j <= i

Goto(l, step, i) ==
    /\ pc' = [pc EXCEPT ![l] = step]
    /\ at' = [at EXCEPT ![l] = i]

Trouble == troubles < MaxTroubles /\ troubles' = troubles + 1

NoTrouble == UNCHANGED <<refusals, troubles>>

----------------------------------------------------------------------------
(* The updates of a row.                                                   *)

update_asset2coin_decode(row, decoded, amount, master) ==
    [row EXCEPT !.decoded = decoded, !.amount = amount, !.master = master,
                !.child = "pending"]

update_asset2coin_bridge(row, child) == [row EXCEPT !.child = child]

update_coin2asset_bridge(row, master, child) ==
    [row EXCEPT !.master = master, !.child = child]

update_coin2asset_failed(row, master) == [row EXCEPT !.master = master]

----------------------------------------------------------------------------
(* The requests.                                                           *)

(* get_tokens knows what a transaction pays, and what it pays its fee in.  *)
Known(tx) == {AssetOf(tx), tx.fee} \subseteq Listed

(* A deposit the bridge can honour.  One that it cannot read is nobody's,  *)
(* wherever its assets went.                                               *)
Proper ==
    {kind \in Deposit : /\ Decodable(Tx[kind]) /\ PaidTo(Tx[kind], BridgeAddress)
                        /\ Known(Tx[kind])}

(* sendrawtransaction/asset2coin_v3: the deposit is broadcast, and stored  *)
(* without a word about its contents.  The decoder leaves it alone for 10  *)
(* seconds; here the row appears when they are over, as nobody else looks  *)
(* at it before.                                                           *)
NewDeposit(i, kind) ==
    /\ table' = [table EXCEPT ![i] = [kind |-> kind, decoded |-> FALSE, amount |-> 0,
                                      master |-> "pending", child |-> "pending"]]
    /\ taken' = [taken EXCEPT ![i] = IF kind \in Proper THEN 1 ELSE 0]

(* sendrawtransaction/coin2asset_v4, for a signed request above the fee    *)
(* and within the assets of the bridge.  Its amount is left out.           *)
NewWithdrawal(i, kind) ==
    /\ table' = [table EXCEPT ![i] = [kind |-> kind, decoded |-> TRUE, amount |-> 0,
                                      master |-> "pending", child |-> "pending"]]
    /\ UNCHANGED taken

Ask(i, kind) ==
    /\ table[i] = NoRow
    /\ \A j \in Id : j < i => table[j] # NoRow
    /\ IF kind \in Deposit THEN NewDeposit(i, kind) ELSE NewWithdrawal(i, kind)
    /\ UNCHANGED <<open, draft, pc, at, minedBurn, paid, booked, doubtful>>
    /\ NoTrouble

----------------------------------------------------------------------------
(* asset2coin_decode_loop.                                                 *)

Undecoded(row) == row.kind \in Deposit /\ ~ row.decoded /\ row.master = "pending"

(* A deposit that cannot be decoded keeps an empty address.                *)
Mut_Decoded(row) ==
    IF ~ Decodable(Tx[row.kind])
    THEN update_asset2coin_decode(row, FALSE, 0, "illegaled")
    ELSE update_asset2coin_decode(row, TRUE, ToAmount(Tx[row.kind]), "successful")

Decoded(row) ==
    IF ~ Decodable(Tx[row.kind])
    THEN update_asset2coin_decode(row, FALSE, 0, "illegaled")
    ELSE update_asset2coin_decode(row, TRUE, ToAmount(Tx[row.kind]),
             IF PaidTo(Tx[row.kind], BridgeAddress) THEN "successful" ELSE "illegaled")

(* The newest row is read, decoded and updated; nobody else touches an     *)
(* undecoded row.                                                          *)
Decode(c, d, i) ==
    /\ pc["decode"] = "idle"
    /\ filter_bridge(i, {j \in Id : Undecoded(Seen(c)[j])})
    /\ Decodable(Tx[table[i].kind]) => Known(Tx[table[i].kind])
    /\ Write(d, i, Decoded(Seen(d)[i]))
    /\ UNCHANGED <<pc, at, minedBurn, chains, booked>>
    /\ NoTrouble

(* The token of another asset is undefined: the loop throws and is not     *)
(* scheduled again.                                                        *)
DecodeThrows(c, i) ==
    /\ pc["decode"] = "idle"
    /\ filter_bridge(i, {j \in Id : Undecoded(Seen(c)[j])})
    /\ Decodable(Tx[table[i].kind]) /\ ~ Known(Tx[table[i].kind])
    /\ Goto("decode", "dead", 0)
    /\ UNCHANGED <<database, minedBurn, chains, booked, doubtful>>
    /\ NoTrouble

----------------------------------------------------------------------------
(* asset2coin_loop.                                                        *)

Mut_Mintable(row) ==
    row.kind \in Deposit /\ row.master = "successful"

Mintable(row) ==
    row.kind \in Deposit /\ row.master = "successful" /\ row.child = "pending"

(* A call to a chain: done, refused, or done while its reply is lost.      *)
Done(l, i, step, count) ==
    /\ count[i] < MaxPayments
    /\ Goto(l, step, i)
    /\ UNCHANGED doubtful
    /\ NoTrouble

Refused == refusals < MaxRefusals /\ refusals' = refusals + 1 /\ UNCHANGED troubles

ReplyLost(i, count) ==
    /\ count[i] < MaxPayments
    /\ Trouble
    /\ doubtful' = doubtful \cup {i}
    /\ UNCHANGED refusals

Counted(count, i) == [count EXCEPT ![i] = @ + 1]

Mint(c, i) ==
    /\ pc["mint"] = "idle"
    /\ filter_bridge(i, {j \in Id : Mintable(Seen(c)[j])})
    /\ \/ Done("mint", i, "record", paid) /\ paid' = Counted(paid, i)
       \/ Refused /\ UNCHANGED <<pc, at, paid, doubtful>>
       \/ ReplyLost(i, paid) /\ paid' = Counted(paid, i) /\ UNCHANGED <<pc, at>>
    /\ UNCHANGED <<database, minedBurn, taken, booked>>

(* The row, then the balance of the local book.                            *)
MintRecorded(c) ==
    LET i == at["mint"] IN
    /\ pc["mint"] = "record"
    /\ Write(c, i, update_asset2coin_bridge(Seen(c)[i], "successful"))
    /\ booked' = Counted(booked, i)
    /\ Goto("mint", "idle", 0)
    /\ UNCHANGED <<minedBurn, chains>>
    /\ NoTrouble

(* When the update fails the loop returns, and is not scheduled again.     *)
MintNotRecorded(c) ==
    /\ pc["mint"] = "record"
    /\ Trouble
    /\ Forget({c})
    /\ doubtful' = doubtful \cup {at["mint"]}
    /\ Goto("mint", "dead", 0)
    /\ UNCHANGED <<minedBurn, chains, booked, refusals>>

----------------------------------------------------------------------------
(* coin2asset_burn_loop.                                                   *)

Burnable(row) ==
    row.kind \in Withdrawal /\ row.master = "pending" /\ row.child = "pending"

(* The burn is effective, or the contract rejects it and leaves no log.    *)
Burn(c, i) ==
    /\ pc["burn"] = "idle"
    /\ filter_bridge(i, {j \in Id : Burnable(Seen(c)[j])})
    /\ \/ /\ Done("burn", i, "receipt", taken)
          /\ minedBurn' \in BOOLEAN
          /\ taken' = IF minedBurn' THEN Counted(taken, i) ELSE taken
       \/ Refused /\ UNCHANGED <<pc, at, taken, doubtful, minedBurn>>
       \/ /\ ReplyLost(i, taken)
          /\ taken' = Counted(taken, i)
          /\ UNCHANGED <<pc, at, minedBurn>>
    /\ UNCHANGED <<database, paid, booked>>

(* Ten seconds later there is no receipt yet, or it cannot be read: the    *)
(* loop starts over with the same row.                                     *)
NoReceipt ==
    /\ pc["burn"] = "receipt"
    /\ Trouble
    /\ doubtful' = doubtful \cup {at["burn"]}
    /\ Goto("burn", "idle", 0)
    /\ UNCHANGED <<database, minedBurn, chains, booked, refusals>>

(* The local book is moved before the row is updated.                      *)
Mut_BookBurn(i) == booked' = Counted(booked, i)

BookBurn(i) == booked' = IF minedBurn THEN Counted(booked, i) ELSE booked

Burned(row) ==
    IF minedBurn THEN update_coin2asset_bridge(row, "pending", "successful")
    ELSE update_coin2asset_bridge(row, "failed", "failed")

BurnRecorded(c) ==
    LET i == at["burn"] IN
    /\ pc["burn"] = "receipt"
    /\ Write(c, i, Burned(Seen(c)[i]))
    /\ BookBurn(i)
    /\ Goto("burn", "idle", 0)
    /\ UNCHANGED <<minedBurn, chains>>
    /\ NoTrouble

(* A failed update is logged, and the row is burned again.                 *)
BurnNotRecorded(c) ==
    LET i == at["burn"] IN
    /\ pc["burn"] = "receipt"
    /\ Trouble
    /\ Forget({c})
    /\ doubtful' = doubtful \cup {i}
    /\ BookBurn(i)
    /\ Goto("burn", "idle", 0)
    /\ UNCHANGED <<minedBurn, chains, refusals>>

----------------------------------------------------------------------------
(* coin2asset_release_loop.                                                *)

Mut_Retriable(row) ==
    row.kind \in Withdrawal /\ row.master = "failed" /\ row.child = "pending"

Retriable(row) ==
    row.kind \in Withdrawal /\ row.master = "failed" /\ row.child = "successful"

Mut_Releasable(row) == row.kind \in Withdrawal /\ row.master = "pending"

Releasable(row) ==
    row.kind \in Withdrawal /\ row.master = "pending" /\ row.child = "successful"

(* A release that was refused before is sent again.  Only then a           *)
(* transaction begins, on some client, whether it was sent or not.         *)
Begin(d) == open' = open \cup {d}

Retry(c, d, i) ==
    /\ pc["release"] = "idle"
    /\ filter_bridge(i, {j \in Id : Retriable(Seen(c)[j])})
    /\ Begin(d)
    /\ \/ Done("release", i, "recordRetry", paid) /\ paid' = Counted(paid, i)
       \/ Refused /\ Goto("release", "pending", 0) /\ UNCHANGED <<paid, doubtful>>
       \/ /\ ReplyLost(i, paid)
          /\ paid' = Counted(paid, i)
          /\ Goto("release", "pending", 0)
    /\ UNCHANGED <<table, draft, minedBurn, taken, booked>>

(* The transaction stays open.                                             *)
RetryRecorded(c) ==
    LET i == at["release"] IN
    /\ pc["release"] = "recordRetry"
    /\ Write(c, i, update_coin2asset_failed(Seen(c)[i], "successful"))
    /\ Goto("release", "pending", 0)
    /\ UNCHANGED <<minedBurn, chains, booked>>
    /\ NoTrouble

(* With nothing to release either the loop is back where it was.           *)
NothingToRetry(c) ==
    /\ pc["release"] = "idle"
    /\ \A i \in Id : ~ Retriable(Seen(c)[i])
    /\ \E i \in Id : Releasable(Seen(c)[i])
    /\ Goto("release", "pending", 0)
    /\ UNCHANGED <<database, minedBurn, chains, booked, doubtful>>
    /\ NoTrouble

(* Nothing is pending: the loop rests for two seconds, and leaves an open  *)
(* transaction open.                                                       *)
NothingToRelease(c) ==
    /\ pc["release"] = "pending"
    /\ \A i \in Id : ~ Releasable(Seen(c)[i])
    /\ Goto("release", "idle", 0)
    /\ UNCHANGED <<database, minedBurn, chains, booked, doubtful>>
    /\ NoTrouble

Release(c, i) ==
    /\ pc["release"] = "pending"
    /\ filter_bridge(i, {j \in Id : Releasable(Seen(c)[j])})
    /\ \/ Done("release", i, "record", paid) /\ paid' = Counted(paid, i)
       \/ Refused /\ Goto("release", "recordRefused", i) /\ UNCHANGED <<paid, doubtful>>
       \/ /\ ReplyLost(i, paid)
          /\ paid' = Counted(paid, i)
          /\ Goto("release", "recordRefused", i)
    /\ UNCHANGED <<database, minedBurn, taken, booked>>

ReleaseRecorded(c) ==
    LET i == at["release"]
        master == IF pc["release"] = "record" THEN "successful" ELSE "failed" IN
    /\ pc["release"] \in {"record", "recordRefused"}
    /\ Write(c, i, update_coin2asset_bridge(Seen(c)[i], master, "successful"))
    /\ Goto("release", "commit", 0)
    /\ UNCHANGED <<minedBurn, chains, booked>>
    /\ NoTrouble

(* The commit ends the transaction of whichever client it comes to.        *)
Commit(d) ==
    /\ pc["release"] = "commit"
    /\ table' = Seen(d)
    /\ open' = open \ {d}
    /\ draft' = [draft EXCEPT ![d] = NoDraft]
    /\ Goto("release", "idle", 0)
    /\ UNCHANGED <<minedBurn, chains, booked, doubtful>>
    /\ NoTrouble

(* An update fails, the pool drops client c, and a rollback goes to d.     *)
ReleaseNotRecorded(c, d) ==
    /\ pc["release"] \in {"record", "recordRefused", "recordRetry"}
    /\ Trouble
    /\ Forget({c, d})
    /\ doubtful' = doubtful \cup {at["release"]}
    /\ Goto("release", "idle", 0)
    /\ UNCHANGED <<minedBurn, chains, booked, refusals>>

----------------------------------------------------------------------------
(* Accidents.                                                              *)

(* get_tokens, or a rollback, throws where nobody catches it.              *)
LoopDies(l) ==
    /\ l \in {"decode", "release"}
    /\ pc[l] \in {"idle", "pending"}
    /\ Trouble
    /\ Goto(l, "dead", 0)
    /\ UNCHANGED <<database, minedBurn, chains, booked, doubtful, refusals>>

(* The pool closes a client that nobody has used for ten seconds, and with *)
(* it a transaction that was left open.                                    *)
ClientClosed(c) ==
    /\ c \in open
    /\ Trouble
    /\ Forget({c})
    /\ UNCHANGED <<pc, at, minedBurn, chains, booked, doubtful, refusals>>

(* The process dies, also by a begin or a commit that fails, and starts    *)
(* again: what it was doing is forgotten.                                  *)
Restart ==
    /\ Trouble
    /\ Forget(Client)
    /\ doubtful' = doubtful \cup {i \in Id : \E l \in Loop : at[l] = i}
    /\ pc' = [l \in Loop |-> "idle"]
    /\ at' = [l \in Loop |-> 0]
    /\ UNCHANGED <<minedBurn, chains, booked, refusals>>

----------------------------------------------------------------------------

DecodeLoop ==
    \E c \in Client, i \in Id :
        DecodeThrows(c, i) \/ \E d \in Client : Decode(c, d, i)

MintLoop == \E c \in Client : MintRecorded(c) \/ \E i \in Id : Mint(c, i)

BurnLoop == \E c \in Client : BurnRecorded(c) \/ \E i \in Id : Burn(c, i)

ReleaseLoop ==
    \E c \in Client :
        \/ RetryRecorded(c) \/ NothingToRetry(c) \/ NothingToRelease(c)
        \/ ReleaseRecorded(c) \/ Commit(c)
        \/ \E i \in Id : Release(c, i) \/ \E d \in Client : Retry(c, d, i)

Accident ==
    \/ NoReceipt \/ Restart
    \/ \E l \in Loop : LoopDies(l)
    \/ \E c \in Client : MintNotRecorded(c) \/ BurnNotRecorded(c) \/ ClientClosed(c)
    \/ \E c, d \in Client : ReleaseNotRecorded(c, d)

Next ==
    \/ \E i \in Id, kind \in Kind : Ask(i, kind)
    \/ DecodeLoop \/ MintLoop \/ BurnLoop \/ ReleaseLoop
    \/ Accident

Spec == Init /\ [][Next]_vars

(* A loop that is not dead is scheduled again and again.                   *)
FairSpec ==
    /\ Spec
    /\ WF_vars(DecodeLoop) /\ WF_vars(MintLoop)
    /\ WF_vars(BurnLoop) /\ WF_vars(ReleaseLoop)

----------------------------------------------------------------------------
(* Properties.                                                             *)

(* A row no accident has touched and that went through no draft is taken   *)
(* once and paid once, although every loop reads a row, calls a chain and  *)
(* only then records it.                                                   *)
PaidOnce == \A i \in Id \ doubtful : taken[i] <= 1 /\ paid[i] <= 1

(* What the table, or the draft of a client, says was done on a chain has  *)
(* been done there, also when replies, records or transactions were lost.  *)
Truthful(rows) ==
    \A i \in Id :
        IF rows[i].kind \in Withdrawal
        THEN /\ rows[i].master = "successful" => paid[i] > 0
             /\ rows[i].child = "successful" => taken[i] > 0
        ELSE rows[i].child = "successful" => paid[i] > 0

(* Coins are minted only for assets the bridge received, and assets are    *)
(* sent only for coins that were burned, whatever goes wrong; and the      *)
(* table is truthful to every client.                                      *)
Backed ==
    /\ \A i \in Id : paid[i] > 0 => taken[i] > 0
    /\ \A c \in Client : Truthful(Seen(c))

(* A transaction as wallets make them: what it pays is of one asset, which *)
(* its first output names.                                                 *)
Plain(tx) == \A n \in Payments(tx) : tx.vout[n].asset = AssetOf(tx)

(* What the bridge received of an asset.                                   *)
Received(tx, asset) ==
    ValueOf(tx, {n \in DOMAIN tx.vout : tx.vout[n].address = BridgeAddress
                                          /\ tx.vout[n].asset = asset})

(* A deposit any client sees ready to be minted, by a plain transaction to *)
(* the bridge, has the amount that the bridge received with it: neither    *)
(* the change of the sender nor what pays the fee counts.                  *)
MintedAsReceived ==
    \A c \in Client, i \in Id :
        LET row == Seen(c)[i]
            tx == Tx[row.kind] IN
        row.kind \in Deposit /\ row.master = "successful" /\ Plain(tx)
            => row.amount = Received(tx, AssetOf(tx))

(* The local book is moved once for each coin minted or burned, but for    *)
(* what a loop has still to record and rows that met an accident.          *)
BooksFollowChains ==
    \A i \in Id \ doubtful :
        LET coins == IF table[i].kind \in Withdrawal THEN taken[i] ELSE paid[i] IN
        booked[i] = coins \/ (booked[i] + 1 = coins /\ \E l \in {"mint", "burn"} : at[l] = i)

(* The stage of a row in the eyes of the user.                             *)
StageOf(i) ==
    IF table[i] = NoRow THEN "none"
    ELSE IF i \in doubtful THEN "doubtful"
    ELSE IF paid[i] > 0 THEN "paid"
    ELSE IF table[i].master = "illegaled" \/ table[i].child = "failed" THEN "refused"
    ELSE IF taken[i] > 0 THEN "taken" ELSE "requested"

Ledger == INSTANCE TransferLedger WITH stage <- [i \in Id |-> StageOf(i)]

(* The bridge keeps the promises of TransferLedger: in particular coins    *)
(* that were burned are never refused, and what is paid or refused stays.  *)
KeepsPromises == Ledger!Spec

(* A deposit to the bridge is minted in the end and a withdrawal released  *)
(* or rejected, newest first and with refused calls tried again, unless    *)
(* the loop it needs has died or a row is in doubt.                        *)
Delivered ==
    \A i \in Id :
        table[i].kind \in Withdrawal \cup Proper
            ~> \/ StageOf(i) \in {"paid", "refused"}
               \/ doubtful # {}
               \/ \E l \in Loop : pc[l] = "dead"

=============================================================================
