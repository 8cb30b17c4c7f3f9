---------------------------- MODULE BridgeProofs ----------------------------
(***************************************************************************)
(* Theorems about module Bridge, for every pool of clients, every kind of  *)
(* deposit, and any number of requests, refusals and accidents.            *)
(***************************************************************************)
EXTENDS Bridge, TLAPS

----------------------------------------------------------------------------
(* Rows, and what a client sees of them.                                   *)

LEMMA NoRowFacts ==
    /\ NoRow \notin Row /\ NoRow.kind \notin Kind
    /\ \A row \in Row : row.kind \in Kind /\ row # NoRow
<1>1. NoRow.kind \notin Kind
    BY DepositAssumption DEF NoRow, Kind, Withdrawal
<1>2. \A row \in Row : row.kind \in Kind
    BY DEF Row
<1> QED
    BY <1>1, <1>2

LEMMA KindFacts ==
    /\ Deposit \cap Withdrawal = {} /\ Proper \subseteq Deposit
    /\ \A k : k \in Kind <=> k \in Deposit \/ k \in Withdrawal
  BY DepositAssumption DEF Kind, Proper

(* The rows of the database and of the drafts.                             *)
DataOK ==
    /\ table \in [Id -> Row \cup {NoRow}]
    /\ open \subseteq Client
    /\ draft \in [Client -> [Id -> Row \cup {NoRow}]]
    /\ \A c \in Client, i \in Id :
          draft[c][i] # NoRow => c \in open /\ draft[c][i].kind = table[i].kind

DoubtOK == doubtful \subseteq {i \in Id : table[i] \in Row}

(* Where a loop can be, and at which row.                                  *)
StepsOf(l) ==
    CASE l = "decode" -> {"idle", "dead"}
      [] l = "mint" -> {"idle", "record", "dead"}
      [] l = "burn" -> {"idle", "receipt"}
      [] l = "release" -> Step \ {"receipt"}

KindOf(l) == IF l = "mint" THEN Deposit ELSE Withdrawal

Resting == {"idle", "pending", "commit", "dead"}

ControlOK ==
    /\ pc \in [Loop -> Step]
    /\ at \in [Loop -> Id \cup {0}]
    /\ \A l \in Loop :
          /\ pc[l] \in StepsOf(l)
          /\ at[l] = 0 <=> pc[l] \in Resting
          /\ at[l] # 0 => table[at[l]].kind \in KindOf(l)

CountsOK ==
    /\ minedBurn \in BOOLEAN
    /\ taken \in [Id -> Nat] /\ paid \in [Id -> Nat] /\ booked \in [Id -> Nat]
    /\ refusals \in Nat /\ troubles \in Nat

Typed == DataOK /\ DoubtOK /\ ControlOK /\ CountsOK

LEMMA TypedIsEnough == Typed => TypeOK
  BY DEF Typed, DataOK, DoubtOK, ControlOK, Resting, CountsOK, TypeOK

LEMMA SeenFacts ==
    ASSUME DataOK, NEW c \in Client, NEW i \in Id
    PROVE  /\ Seen(c)[i] \in Row \cup {NoRow}
           /\ Seen(c)[i].kind = table[i].kind
           /\ Seen(c)[i].kind \in Kind => Seen(c)[i] \in Row /\ table[i] \in Row
           /\ table[i] \in Row => Seen(c)[i] \in Row
           /\ Seen(c)[i] = table[i] \/ Seen(c)[i] = draft[c][i]
           /\ draft[c][i] = NoRow => Seen(c)[i] = table[i]
<1>1. Seen(c)[i] = IF draft[c][i] # NoRow THEN draft[c][i] ELSE table[i]
    BY DEF Seen
<1>2. table[i] \in Row \cup {NoRow} /\ draft[c][i] \in Row \cup {NoRow}
    BY DEF DataOK
<1>3. draft[c][i] # NoRow => draft[c][i].kind = table[i].kind
    BY DEF DataOK
<1> QED
    BY <1>1, <1>2, <1>3, NoRowFacts

LEMMA MintUpdate ==
    ASSUME NEW row \in Row, NEW r, r = update_asset2coin_bridge(row, "successful")
    PROVE  /\ r \in Row /\ r.kind = row.kind /\ r.decoded = row.decoded
           /\ r.amount = row.amount /\ r.master = row.master /\ r.child = "successful"
  BY DEF update_asset2coin_bridge, Row, Status

LEMMA WithdrawalUpdate ==
    ASSUME NEW row \in Row, NEW master \in Status, NEW child \in Status, NEW r,
           r = update_coin2asset_bridge(row, master, child)
    PROVE  r \in Row /\ r.kind = row.kind /\ r.master = master /\ r.child = child
  BY DEF update_coin2asset_bridge, Row

LEMMA RetryUpdate ==
    ASSUME NEW row \in Row, NEW r, r = update_coin2asset_failed(row, "successful")
    PROVE  /\ r \in Row /\ r.kind = row.kind /\ r.master = "successful"
           /\ r.child = row.child
  BY DEF update_coin2asset_failed, Row, Status

LEMMA DecodedFacts ==
    ASSUME NEW row \in Row, Undecoded(row),
           Decodable(Tx[row.kind]) => Known(Tx[row.kind]),
           NEW r, r = Decoded(row)
    PROVE  /\ r \in Row /\ r.kind = row.kind /\ r.child = "pending"
           /\ r.master = IF row.kind \in Proper THEN "successful" ELSE "illegaled"
           /\ row.kind \in Proper => r.amount = ToAmount(Tx[row.kind])
<1>1. row.kind \in Deposit
    BY DEF Undecoded
<1>2. 0 \in Amount /\ ToAmount(Tx[row.kind]) \in Amount
    BY <1>1 DEF Amount
<1>3. "illegaled" \in Status /\ "successful" \in Status
    BY DEF Status
<1>4. row.kind \in Proper <=>
        Decodable(Tx[row.kind]) /\ PaidTo(Tx[row.kind], BridgeAddress)
    BY <1>1 DEF Proper
<1>5. CASE ~ Decodable(Tx[row.kind])
  <2>1. r = update_asset2coin_decode(row, FALSE, 0, "illegaled")
      BY <1>5 DEF Decoded
  <2>2. /\ r \in Row /\ r.kind = row.kind /\ r.child = "pending"
        /\ r.master = "illegaled"
      BY <1>2, <1>3, <2>1 DEF update_asset2coin_decode, Row, Status
  <2> QED
      BY <1>4, <1>5, <2>2
<1>6. CASE Decodable(Tx[row.kind])
  <2> DEFINE master == IF PaidTo(Tx[row.kind], BridgeAddress) THEN "successful"
                       ELSE "illegaled"
  <2>1. r = update_asset2coin_decode(row, TRUE, ToAmount(Tx[row.kind]), master)
      BY <1>6 DEF Decoded
  <2>2. master \in Status
      BY <1>3
  <2>3. master = IF row.kind \in Proper THEN "successful" ELSE "illegaled"
      BY <1>4, <1>6
  <2> HIDE DEF master
  <2>4. /\ r \in Row /\ r.kind = row.kind /\ r.child = "pending" /\ r.master = master
        /\ r.amount = ToAmount(Tx[row.kind])
      BY <1>2, <2>1, <2>2 DEF update_asset2coin_decode, Row, Status
  <2> QED
      BY <2>3, <2>4
<1> QED
    BY <1>5, <1>6


----------------------------------------------------------------------------
(* Type correctness.                                                       *)

(* A row keeps its kind.                                                   *)
KindsKept ==
    \A j \in Id : table[j] \in Row => table'[j] \in Row /\ table'[j].kind = table[j].kind

LEMMA IdFacts == 0 \notin Id /\ Id \subseteq Nat
  BY BoundAssumption DEF Id

LEMMA TypedInit == Init => Typed
<1> SUFFICES ASSUME Init PROVE Typed
    OBVIOUS
<1> USE DEF Init
<1>1. DataOK /\ DoubtOK
    BY DEF DataOK, DoubtOK
<1>2. \A l \in Loop : "idle" \in StepsOf(l)
    BY DEF StepsOf, Loop, Step
<1>3. ControlOK
    BY <1>2 DEF ControlOK, Resting, Step
<1>4. CountsOK
    BY DEF CountsOK
<1> QED
    BY <1>1, <1>3, <1>4 DEF Typed

LEMMA WriteOK ==
    ASSUME DataOK, DoubtOK, NEW c \in Client, NEW i \in Id, NEW row \in Row,
           row.kind = table[i].kind, Write(c, i, row)
    PROVE  /\ DataOK' /\ KindsKept /\ DoubtOK'
           /\ doubtful' = IF c \in open THEN doubtful \cup {i} ELSE doubtful
           /\ \A j \in Id : table'[j] = table[j] \/ (j = i /\ c \notin open /\ table'[j] = row)
           /\ \A d \in Client, j \in Id :
                 draft'[d][j] = draft[d][j] \/ (j = i /\ c \in open /\ draft'[d][j] = row)
           /\ c \notin open => table'[i] = row
<1>1. table[i] \in Row
    BY NoRowFacts DEF DataOK
<1>2. CASE c \in open
  <2>1. table' = table /\ draft' = [draft EXCEPT ![c][i] = row] /\ open' = open
        /\ doubtful' = doubtful \cup {i}
      BY <1>2 DEF Write
  <2>2. \A d \in Client, j \in Id :
            draft'[d][j] = IF d = c /\ j = i THEN row ELSE draft[d][j]
      BY <2>1 DEF DataOK
  <2>3. draft' \in [Client -> [Id -> Row \cup {NoRow}]]
      BY <2>1 DEF DataOK
  <2>4. DataOK'
      BY <1>2, <2>1, <2>2, <2>3 DEF DataOK
  <2> QED
      BY <1>1, <1>2, <2>1, <2>2, <2>4 DEF DoubtOK, KindsKept
<1>3. CASE c \notin open
  <2>1. table' = [table EXCEPT ![i] = row] /\ UNCHANGED <<draft, doubtful, open>>
      BY <1>3 DEF Write
  <2>2. \A j \in Id : table'[j] = IF j = i THEN row ELSE table[j]
      BY <2>1 DEF DataOK
  <2>3. table' \in [Id -> Row \cup {NoRow}]
      BY <2>1 DEF DataOK
  <2>4. DataOK'
      BY <2>1, <2>2, <2>3 DEF DataOK
  <2> QED
      BY <1>1, <1>3, <2>1, <2>2, <2>4 DEF DoubtOK, KindsKept
<1> QED
    BY <1>2, <1>3

LEMMA ForgetOK ==
    ASSUME DataOK, NEW D, Forget(D)
    PROVE  /\ DataOK' /\ KindsKept /\ table' = table
           /\ \A c \in Client, i \in Id : draft'[c][i] \in {draft[c][i], NoRow}
<1>1. \A c \in Client : draft'[c] = IF c \in D THEN NoDraft ELSE draft[c]
    BY DEF Forget
<1>2. \A c \in Client, i \in Id : draft'[c][i] = IF c \in D THEN NoRow ELSE draft[c][i]
    BY <1>1 DEF NoDraft
<1>3. draft' \in [Client -> [Id -> Row \cup {NoRow}]]
    BY DEF Forget, NoDraft, DataOK
<1>4. table' = table /\ open' = open \ D
    BY DEF Forget
<1>5. DataOK'
    BY <1>2, <1>3, <1>4 DEF DataOK
<1> QED
    BY <1>2, <1>4, <1>5 DEF KindsKept

LEMMA ControlKept ==
    ASSUME DataOK, ControlOK, KindsKept, UNCHANGED <<pc, at>>
    PROVE  ControlOK'
<1>1. ASSUME NEW l \in Loop, at[l] # 0 PROVE table'[at[l]].kind \in KindOf(l)
  <2>1. at[l] \in Id /\ table[at[l]].kind \in KindOf(l)
      BY <1>1 DEF ControlOK
  <2>2. table[at[l]] \in Row
      BY <2>1, NoRowFacts, KindFacts DEF DataOK, KindOf
  <2> QED
      BY <2>1, <2>2 DEF KindsKept
<1> QED
    BY <1>1 DEF ControlOK

LEMMA GotoOK ==
    ASSUME DataOK, ControlOK, KindsKept, NEW l \in Loop, NEW i \in Id \cup {0},
           NEW step \in StepsOf(l), Goto(l, step, i),
           i = 0 <=> step \in Resting, i # 0 => table[i].kind \in KindOf(l)
    PROVE  /\ ControlOK'
           /\ pc'[l] = step /\ at'[l] = i
           /\ \A k \in Loop \ {l} : pc'[k] = pc[k] /\ at'[k] = at[k]
<1>1. StepsOf(l) \subseteq Step
    BY DEF StepsOf, Step, Loop
<1>2. pc' \in [Loop -> Step] /\ at' \in [Loop -> Id \cup {0}]
    BY <1>1 DEF Goto, ControlOK
<1>3. \A k \in Loop : /\ pc'[k] = IF k = l THEN step ELSE pc[k]
                     /\ at'[k] = IF k = l THEN i ELSE at[k]
    BY DEF Goto, ControlOK
<1>4. ASSUME NEW k \in Loop, NEW j \in Id, table[j].kind \in KindOf(k)
      PROVE  table'[j].kind \in KindOf(k)
  <2>1. table[j] \in Row
      BY <1>4, NoRowFacts, KindFacts DEF DataOK, KindOf
  <2> QED
      BY <1>4, <2>1 DEF KindsKept
<1>5. \A k \in Loop : at'[k] # 0 => table'[at'[k]].kind \in KindOf(k)
    BY <1>2, <1>3, <1>4 DEF ControlOK
<1> QED
    BY <1>2, <1>3, <1>5 DEF ControlOK


LEMMA CountedType ==
    ASSUME NEW count \in [Id -> Nat], NEW i \in Id
    PROVE  /\ Counted(count, i) \in [Id -> Nat]
           /\ Counted(count, i)[i] = count[i] + 1
           /\ \A j \in Id \ {i} : Counted(count, i)[j] = count[j]
  BY DEF Counted

(* A row that a client sees as of some kind.                               *)
LEMMA SeenIsRow ==
    ASSUME DataOK, NEW c \in Client, NEW i \in Id, Seen(c)[i].kind \in Kind
    PROVE  Seen(c)[i] \in Row /\ table[i] \in Row /\ Seen(c)[i].kind = table[i].kind
  BY SeenFacts

(* The row a loop is at.                                                   *)
LEMMA AtRow ==
    ASSUME DataOK, ControlOK, NEW l \in Loop, pc[l] \notin Resting
    PROVE  /\ at[l] \in Id /\ at[l] # 0
           /\ table[at[l]] \in Row /\ table[at[l]].kind \in KindOf(l)
           /\ \A c \in Client : /\ Seen(c)[at[l]] \in Row
                              /\ Seen(c)[at[l]].kind = table[at[l]].kind
<1>1. at[l] \in Id /\ at[l] # 0 /\ table[at[l]].kind \in KindOf(l)
    BY DEF ControlOK
<1>2. table[at[l]] \in Row
    BY <1>1, NoRowFacts, KindFacts DEF DataOK, KindOf
<1> QED
    BY <1>1, <1>2, SeenFacts

LEMMA AskOK ==
    ASSUME Typed, NEW i \in Id, NEW kind \in Kind, Ask(i, kind)
    PROVE  /\ Typed' /\ KindsKept
           /\ table[i] = NoRow /\ i \notin doubtful
           /\ \A c \in Client : draft[c][i] = NoRow
           /\ \A l \in Loop : at[l] # i
           /\ \A j \in Id \ {i} : table'[j] = table[j] /\ taken'[j] = taken[j]
           /\ table'[i] = [kind |-> kind, decoded |-> kind \in Withdrawal, amount |-> 0,
                            master |-> "pending", child |-> "pending"]
           /\ taken'[i] = IF kind \in Deposit THEN IF kind \in Proper THEN 1 ELSE 0
                          ELSE taken[i]
<1> USE DEF Typed
<1> DEFINE row == [kind |-> kind, decoded |-> kind \in Withdrawal, amount |-> 0,
                   master |-> "pending", child |-> "pending"]
<1>1. row \in Row
    BY DEF Row, Status, Amount
<1>2. table' = [table EXCEPT ![i] = row]
  <2>1. CASE kind \in Deposit
    <3>1. (kind \in Withdrawal) = FALSE
        BY <2>1, KindFacts
    <3> QED
        BY <2>1, <3>1 DEF Ask, NewDeposit
  <2>2. CASE kind \notin Deposit
    <3>1. (kind \in Withdrawal) = TRUE
        BY <2>2, KindFacts
    <3> QED
        BY <2>2, <3>1 DEF Ask, NewWithdrawal
  <2> QED
      BY <2>1, <2>2
<1>3. taken' = [taken EXCEPT ![i] = IF kind \in Deposit
                                    THEN IF kind \in Proper THEN 1 ELSE 0
                                    ELSE taken[i]]
    BY KindFacts DEF Ask, NewDeposit, NewWithdrawal, CountsOK
<1>4. table[i] = NoRow
    BY DEF Ask
<1>5. i \notin doubtful /\ \A c \in Client : draft[c][i] = NoRow
    BY <1>4, NoRowFacts DEF DoubtOK, DataOK
<1>6. \A l \in Loop : at[l] # i
  <2> SUFFICES ASSUME NEW l \in Loop, at[l] = i PROVE FALSE
      OBVIOUS
  <2>1. table[i].kind \in KindOf(l)
      BY IdFacts DEF ControlOK
  <2> QED
      BY <2>1, <1>4, NoRowFacts, KindFacts DEF KindOf
<1>7. table'[i] = row /\ \A j \in Id \ {i} : table'[j] = table[j]
    BY <1>2 DEF DataOK
<1>8. DataOK' /\ KindsKept
  <2>1. table' \in [Id -> Row \cup {NoRow}]
      BY <1>1, <1>2 DEF DataOK
  <2>2. UNCHANGED <<open, draft>>
      BY DEF Ask
  <2> QED
      BY <1>1, <1>4, <1>5, <1>7, <2>1, <2>2, NoRowFacts DEF DataOK, KindsKept
<1>9. DoubtOK'
    BY <1>1, <1>7 DEF Ask, DoubtOK
<1>10. ControlOK'
    BY <1>8, ControlKept DEF Ask
<1>11. CountsOK'
    BY <1>3 DEF Ask, NoTrouble, CountsOK
<1> QED
    BY <1>3, <1>4, <1>5, <1>6, <1>7, <1>8, <1>9, <1>10, <1>11 DEF CountsOK


(* What a call to a chain does to the counts.                              *)
LEMMA CallOK ==
    ASSUME Typed, NEW i \in Id, NEW count \in [Id -> Nat], UNCHANGED database,
           \/ NoTrouble /\ UNCHANGED doubtful
           \/ Refused /\ UNCHANGED doubtful
           \/ table[i] \in Row /\ ReplyLost(i, count)
    PROVE  /\ DataOK' /\ KindsKept /\ DoubtOK' /\ doubtful' \subseteq doubtful \cup {i}
           /\ refusals' \in Nat /\ troubles' \in Nat
  BY DEF Typed, DataOK, DoubtOK, CountsOK, KindsKept, database, NoTrouble, Refused,
         ReplyLost, Trouble

LEMMA DecodeOK ==
    ASSUME Typed, NEW c \in Client, NEW d \in Client, NEW i \in Id, Decode(c, d, i)
    PROVE  /\ Typed' /\ KindsKept
           /\ Undecoded(Seen(c)[i]) /\ Seen(c)[i] \in Row /\ Seen(d)[i] \in Row
           /\ Decodable(Tx[table[i].kind]) => Known(Tx[table[i].kind])
           /\ Decoded(Seen(d)[i]) \in Row /\ Decoded(Seen(d)[i]).kind = table[i].kind
           /\ UNCHANGED <<pc, at, minedBurn, taken, paid, booked>>
<1> USE DEF Typed
<1>1. Undecoded(Seen(c)[i])
    BY DEF Decode, filter_bridge
<1>2. Seen(c)[i].kind \in Deposit /\ Seen(c)[i].kind \in Kind
    BY <1>1, KindFacts DEF Undecoded
<1>3. /\ table[i] \in Row /\ table[i].kind \in Deposit
      /\ Seen(c)[i] \in Row /\ Seen(d)[i] \in Row /\ Seen(d)[i].kind = table[i].kind
    BY <1>2, SeenIsRow, SeenFacts
<1>4. Decoded(Seen(d)[i]) \in Row /\ Decoded(Seen(d)[i]).kind = table[i].kind
  <2> DEFINE row == Seen(d)[i]
  <2>1. row \in Row /\ row.kind \in Deposit
      BY <1>3
  <2> HIDE DEF row
  <2>2. 0 \in Amount /\ ToAmount(Tx[row.kind]) \in Amount
      BY <2>1 DEF Amount
  <2>3. Decoded(row) \in Row /\ Decoded(row).kind = row.kind
    <3>1. CASE ~ Decodable(Tx[row.kind])
        BY <2>1, <2>2, <3>1 DEF Decoded, update_asset2coin_decode, Row, Status
    <3>2. CASE Decodable(Tx[row.kind])
        BY <2>1, <2>2, <3>2 DEF Decoded, update_asset2coin_decode, Row, Status
    <3> QED
        BY <3>1, <3>2
  <2> QED
      BY <2>3, <1>3 DEF row
<1>5. Write(d, i, Decoded(Seen(d)[i]))
    BY DEF Decode
<1>6. DataOK' /\ KindsKept /\ DoubtOK'
    BY <1>4, <1>5, WriteOK
<1>7. UNCHANGED <<pc, at, minedBurn, taken, paid, booked>>
    BY DEF Decode, chains
<1>8. ControlOK'
    BY <1>6, <1>7, ControlKept
<1>9. CountsOK'
    BY <1>7 DEF Decode, NoTrouble, CountsOK
<1> QED
    BY <1>1, <1>3, <1>4, <1>6, <1>7, <1>8, <1>9 DEF Decode

LEMMA MintOK ==
    ASSUME Typed, NEW c \in Client, NEW i \in Id, Mint(c, i)
    PROVE  /\ Typed' /\ KindsKept /\ pc["mint"] = "idle" /\ at["mint"] = 0
           /\ Mintable(Seen(c)[i]) /\ Seen(c)[i] \in Row /\ table[i] \in Row
           /\ Seen(c)[i].kind = table[i].kind
           /\ paid' = paid \/ paid' = Counted(paid, i)
<1> USE DEF Typed
<1>1. Mintable(Seen(c)[i])
    BY DEF Mint, filter_bridge
<1>2. Seen(c)[i].kind \in Deposit /\ Seen(c)[i].kind \in Kind
    BY <1>1, KindFacts DEF Mintable
<1>3. Seen(c)[i] \in Row /\ table[i] \in Row /\ Seen(c)[i].kind = table[i].kind
    BY <1>2, SeenIsRow
<1>4. \/ NoTrouble /\ UNCHANGED doubtful
      \/ Refused /\ UNCHANGED doubtful
      \/ ReplyLost(i, paid)
    BY DEF Mint, Done
<1>5. DataOK' /\ DoubtOK' /\ KindsKept /\ refusals' \in Nat /\ troubles' \in Nat
    BY <1>3, <1>4, CallOK DEF Mint, CountsOK
<1>6. paid' = paid \/ paid' = Counted(paid, i)
    BY DEF Mint
<1>7. CountsOK'
    BY <1>5, <1>6, CountedType DEF Mint, CountsOK
<1>8. /\ "mint" \in Loop /\ "record" \in StepsOf("mint") /\ "record" \notin Resting
      /\ "idle" \in Resting
    BY DEF Loop, StepsOf, Resting
<1>9. ControlOK'
  <2>1. CASE UNCHANGED <<pc, at>>
      BY <1>5, <2>1, ControlKept
  <2>2. CASE Goto("mint", "record", i)
      BY <1>2, <1>3, <1>5, <1>8, <2>2, IdFacts, GotoOK DEF KindOf
  <2> QED
      BY <2>1, <2>2 DEF Mint, Done
<1>10. pc["mint"] = "idle" /\ at["mint"] = 0
    BY <1>8 DEF Mint, ControlOK
<1> QED
    BY <1>1, <1>3, <1>5, <1>6, <1>7, <1>9, <1>10


(* A step that writes one row and leaves the loops' counts of calls alone. *)
LEMMA MintRecordedOK ==
    ASSUME Typed, NEW c \in Client, MintRecorded(c)
    PROVE  /\ Typed' /\ KindsKept
           /\ update_asset2coin_bridge(Seen(c)[at["mint"]], "successful") \in Row
           /\ update_asset2coin_bridge(Seen(c)[at["mint"]], "successful").kind
                 = table[at["mint"]].kind
           /\ at["mint"] \in Id /\ pc'["mint"] = "idle" /\ at'["mint"] = 0
           /\ \A k \in Loop \ {"mint"} : pc'[k] = pc[k] /\ at'[k] = at[k]
<1> USE DEF Typed
<1> DEFINE i == at["mint"]
<1>1. "mint" \in Loop /\ pc["mint"] \notin Resting
    BY DEF MintRecorded, Loop, Resting
<1>2. /\ i \in Id /\ table[i] \in Row /\ Seen(c)[i] \in Row
      /\ Seen(c)[i].kind = table[i].kind
    BY <1>1, AtRow
<1>3. /\ update_asset2coin_bridge(Seen(c)[i], "successful") \in Row
      /\ update_asset2coin_bridge(Seen(c)[i], "successful").kind = table[i].kind
    BY <1>2, MintUpdate
<1>4. /\ Write(c, i, update_asset2coin_bridge(Seen(c)[i], "successful"))
      /\ booked' = Counted(booked, i) /\ Goto("mint", "idle", 0)
      /\ UNCHANGED <<minedBurn, chains, refusals, troubles>>
    BY DEF MintRecorded, NoTrouble
<1> HIDE DEF i
<1>5. DataOK' /\ KindsKept /\ DoubtOK'
    BY <1>2, <1>3, <1>4, WriteOK
<1>6. "idle" \in StepsOf("mint") /\ "idle" \in Resting
    BY DEF StepsOf, Resting
<1>7. /\ ControlOK' /\ pc'["mint"] = "idle" /\ at'["mint"] = 0
      /\ \A k \in Loop \ {"mint"} : pc'[k] = pc[k] /\ at'[k] = at[k]
    BY <1>1, <1>4, <1>5, <1>6, GotoOK
<1>8. CountsOK'
    BY <1>2, <1>4, CountedType DEF CountsOK, chains
<1> QED
    BY <1>2, <1>3, <1>5, <1>7, <1>8 DEF i

(* A loop that comes to rest, whatever is forgotten.                       *)
LEMMA RestOK ==
    ASSUME Typed, DataOK', KindsKept, NEW l \in Loop, NEW step \in StepsOf(l),
           step \in Resting, Goto(l, step, 0)
    PROVE  /\ ControlOK' /\ pc'[l] = step /\ at'[l] = 0
           /\ \A k \in Loop \ {l} : pc'[k] = pc[k] /\ at'[k] = at[k]
  BY GotoOK DEF Typed

LEMMA AllSteps ==
    /\ {"decode", "mint", "burn", "release"} = Loop
    /\ {"idle", "dead"} \subseteq StepsOf("decode")
    /\ {"idle", "record", "dead"} \subseteq StepsOf("mint")
    /\ {"idle", "receipt"} \subseteq StepsOf("burn")
    /\ {"idle", "pending", "record", "recordRetry", "recordRefused", "commit", "dead"}
         \subseteq StepsOf("release")
    /\ {"idle", "pending", "commit", "dead"} = Resting
    /\ {"record", "recordRetry", "recordRefused", "receipt"} \cap Resting = {}
  BY DEF Loop, StepsOf, Step, Resting

LEMMA DoubtMore ==
    ASSUME DataOK, DoubtOK, KindsKept, NEW S, S \subseteq {i \in Id : table[i] \in Row},
           doubtful' = doubtful \cup S
    PROVE  DoubtOK'
  BY DEF DoubtOK, KindsKept

LEMMA MintNotRecordedOK ==
    ASSUME Typed, NEW c \in Client, MintNotRecorded(c)
    PROVE  Typed' /\ KindsKept
<1> USE DEF Typed
<1>1. at["mint"] \in Id /\ table[at["mint"]] \in Row
    BY AtRow, AllSteps DEF MintNotRecorded
<1>2. DataOK' /\ KindsKept
    BY ForgetOK DEF MintNotRecorded
<1>3. DoubtOK'
    BY <1>1, <1>2, DoubtMore DEF MintNotRecorded
<1>4. ControlOK'
    BY <1>2, RestOK, AllSteps DEF MintNotRecorded
<1>5. CountsOK'
    BY DEF MintNotRecorded, Trouble, CountsOK, chains
<1> QED
    BY <1>2, <1>3, <1>4, <1>5

LEMMA BurnOK ==
    ASSUME Typed, NEW c \in Client, NEW i \in Id, Burn(c, i)
    PROVE  /\ Typed' /\ KindsKept /\ pc["burn"] = "idle" /\ at["burn"] = 0
           /\ Burnable(Seen(c)[i]) /\ Seen(c)[i] \in Row /\ table[i] \in Row
           /\ Seen(c)[i].kind = table[i].kind
           /\ taken' = taken \/ taken' = Counted(taken, i)
<1> USE DEF Typed
<1>1. Burnable(Seen(c)[i])
    BY DEF Burn, filter_bridge
<1>2. Seen(c)[i].kind \in Withdrawal /\ Seen(c)[i].kind \in Kind
    BY <1>1, KindFacts DEF Burnable
<1>3. Seen(c)[i] \in Row /\ table[i] \in Row /\ Seen(c)[i].kind = table[i].kind
    BY <1>2, SeenIsRow
<1>4. \/ NoTrouble /\ UNCHANGED doubtful
      \/ Refused /\ UNCHANGED doubtful
      \/ ReplyLost(i, taken)
    BY DEF Burn, Done
<1>5. DataOK' /\ DoubtOK' /\ KindsKept /\ refusals' \in Nat /\ troubles' \in Nat
    BY <1>3, <1>4, CallOK DEF Burn, CountsOK
<1>6. taken' = taken \/ taken' = Counted(taken, i)
    BY DEF Burn
<1>7. minedBurn' \in BOOLEAN
    BY DEF Burn, CountsOK
<1>8. CountsOK'
    BY <1>5, <1>6, <1>7, CountedType DEF Burn, CountsOK
<1>9. ControlOK'
  <2>1. CASE UNCHANGED <<pc, at>>
      BY <1>5, <2>1, ControlKept
  <2>2. CASE Goto("burn", "receipt", i)
      BY <1>2, <1>3, <1>5, <2>2, IdFacts, GotoOK, AllSteps DEF KindOf
  <2> QED
      BY <2>1, <2>2 DEF Burn, Done
<1>10. pc["burn"] = "idle" /\ at["burn"] = 0
    BY AllSteps DEF Burn, ControlOK
<1> QED
    BY <1>1, <1>3, <1>5, <1>6, <1>8, <1>9, <1>10

LEMMA NoReceiptOK == Typed /\ NoReceipt => Typed' /\ KindsKept
<1> SUFFICES ASSUME Typed, NoReceipt PROVE Typed' /\ KindsKept
    OBVIOUS
<1> USE DEF Typed
<1>1. at["burn"] \in Id /\ table[at["burn"]] \in Row
    BY AtRow, AllSteps DEF NoReceipt
<1>2. DataOK' /\ KindsKept
    BY DEF NoReceipt, database, DataOK, KindsKept
<1>3. DoubtOK'
    BY <1>1, <1>2, DoubtMore DEF NoReceipt
<1>4. ControlOK'
    BY <1>2, RestOK, AllSteps DEF NoReceipt
<1>5. CountsOK'
    BY DEF NoReceipt, Trouble, CountsOK, chains
<1> QED
    BY <1>2, <1>3, <1>4, <1>5

LEMMA BurnedFacts ==
    ASSUME NEW row \in Row
    PROVE  /\ Burned(row) \in Row /\ Burned(row).kind = row.kind
           /\ minedBurn => Burned(row).master = "pending" /\ Burned(row).child = "successful"
           /\ ~ minedBurn => Burned(row).master = "failed" /\ Burned(row).child = "failed"
<1>2. CASE minedBurn
  <2>1. Burned(row) = update_coin2asset_bridge(row, "pending", "successful")
      BY <1>2 DEF Burned
  <2>2. /\ Burned(row) \in Row /\ Burned(row).kind = row.kind
        /\ Burned(row).master = "pending" /\ Burned(row).child = "successful"
      BY <2>1 DEF update_coin2asset_bridge, Row, Status
  <2> QED
      BY <1>2, <2>2, Zenon
<1>3. CASE ~ minedBurn
  <2>1. Burned(row) = update_coin2asset_bridge(row, "failed", "failed")
      BY <1>3 DEF Burned
  <2>2. /\ Burned(row) \in Row /\ Burned(row).kind = row.kind
        /\ Burned(row).master = "failed" /\ Burned(row).child = "failed"
      BY <2>1 DEF update_coin2asset_bridge, Row, Status
  <2> QED
      BY <1>3, <2>2, Zenon
<1> QED
    BY <1>2, <1>3

LEMMA BurnRecordedOK ==
    ASSUME Typed, NEW c \in Client, BurnRecorded(c)
    PROVE  /\ Typed' /\ KindsKept
           /\ Burned(Seen(c)[at["burn"]]) \in Row
           /\ Burned(Seen(c)[at["burn"]]).kind = table[at["burn"]].kind
           /\ at["burn"] \in Id /\ pc'["burn"] = "idle" /\ at'["burn"] = 0
           /\ \A k \in Loop \ {"burn"} : pc'[k] = pc[k] /\ at'[k] = at[k]
<1> USE DEF Typed
<1> DEFINE i == at["burn"]
<1>1. pc["burn"] \notin Resting /\ "burn" \in Loop
    BY AllSteps DEF BurnRecorded
<1>2. /\ i \in Id /\ table[i] \in Row /\ Seen(c)[i] \in Row
      /\ Seen(c)[i].kind = table[i].kind
    BY <1>1, AtRow
<1>3. Burned(Seen(c)[i]) \in Row /\ Burned(Seen(c)[i]).kind = table[i].kind
    BY <1>2, BurnedFacts
<1>4. /\ Write(c, i, Burned(Seen(c)[i])) /\ BookBurn(i) /\ Goto("burn", "idle", 0)
      /\ UNCHANGED <<minedBurn, chains, refusals, troubles>>
    BY DEF BurnRecorded, NoTrouble
<1> HIDE DEF i
<1>5. DataOK' /\ KindsKept /\ DoubtOK'
    BY <1>2, <1>3, <1>4, WriteOK
<1>6. /\ ControlOK' /\ pc'["burn"] = "idle" /\ at'["burn"] = 0
      /\ \A k \in Loop \ {"burn"} : pc'[k] = pc[k] /\ at'[k] = at[k]
    BY <1>1, <1>4, <1>5, RestOK, AllSteps
<1>7. CountsOK'
    BY <1>2, <1>4, CountedType DEF CountsOK, chains, BookBurn
<1> QED
    BY <1>2, <1>3, <1>5, <1>6, <1>7 DEF i

LEMMA BurnNotRecordedOK ==
    ASSUME Typed, NEW c \in Client, BurnNotRecorded(c)
    PROVE  Typed' /\ KindsKept
<1> USE DEF Typed
<1>1. at["burn"] \in Id /\ table[at["burn"]] \in Row
    BY AtRow, AllSteps DEF BurnNotRecorded
<1>2. DataOK' /\ KindsKept
    BY ForgetOK DEF BurnNotRecorded
<1>3. DoubtOK'
    BY <1>1, <1>2, DoubtMore DEF BurnNotRecorded
<1>4. ControlOK'
    BY <1>2, RestOK, AllSteps DEF BurnNotRecorded
<1>5. CountsOK'
    BY <1>1, CountedType DEF BurnNotRecorded, BookBurn, Trouble, CountsOK, chains
<1> QED
    BY <1>2, <1>3, <1>4, <1>5

LEMMA RetryOK ==
    ASSUME Typed, NEW c \in Client, NEW d \in Client, NEW i \in Id, Retry(c, d, i)
    PROVE  /\ Typed' /\ KindsKept /\ pc["release"] = "idle" /\ at["release"] = 0
           /\ Retriable(Seen(c)[i]) /\ Seen(c)[i] \in Row /\ table[i] \in Row
           /\ Seen(c)[i].kind = table[i].kind
           /\ paid' = paid \/ paid' = Counted(paid, i)
<1> USE DEF Typed
<1>1. Retriable(Seen(c)[i])
    BY DEF Retry, filter_bridge
<1>2. Seen(c)[i].kind \in Withdrawal /\ Seen(c)[i].kind \in Kind
    BY <1>1, KindFacts DEF Retriable
<1>3. Seen(c)[i] \in Row /\ table[i] \in Row /\ Seen(c)[i].kind = table[i].kind
    BY <1>2, SeenIsRow
<1>4. \/ NoTrouble /\ UNCHANGED doubtful
      \/ Refused /\ UNCHANGED doubtful
      \/ ReplyLost(i, paid)
    BY DEF Retry, Done
<1>5. DataOK' /\ KindsKept
  <2>1. UNCHANGED <<table, draft>> /\ open' = open \cup {d}
      BY DEF Retry, Begin
  <2> QED
      BY <2>1 DEF DataOK, KindsKept
<1>6. DoubtOK' /\ refusals' \in Nat /\ troubles' \in Nat
    BY <1>3, <1>4 DEF Retry, DoubtOK, CountsOK, NoTrouble, Refused, ReplyLost, Trouble
<1>7. paid' = paid \/ paid' = Counted(paid, i)
    BY DEF Retry
<1>8. CountsOK'
    BY <1>6, <1>7, CountedType DEF Retry, CountsOK
<1>9. ControlOK'
  <2>1. CASE Goto("release", "pending", 0)
      BY <1>5, <2>1, RestOK, AllSteps
  <2>2. CASE Goto("release", "recordRetry", i)
      BY <1>2, <1>3, <1>5, <2>2, IdFacts, GotoOK, AllSteps DEF KindOf
  <2> QED
      BY <2>1, <2>2 DEF Retry, Done
<1>10. pc["release"] = "idle" /\ at["release"] = 0
    BY AllSteps DEF Retry, ControlOK
<1> QED
    BY <1>1, <1>3, <1>5, <1>6, <1>7, <1>8, <1>9, <1>10

LEMMA RetryRecordedOK ==
    ASSUME Typed, NEW c \in Client, RetryRecorded(c)
    PROVE  /\ Typed' /\ KindsKept
           /\ update_coin2asset_failed(Seen(c)[at["release"]], "successful") \in Row
           /\ update_coin2asset_failed(Seen(c)[at["release"]], "successful").kind
                 = table[at["release"]].kind
           /\ at["release"] \in Id /\ pc'["release"] = "pending" /\ at'["release"] = 0
           /\ \A k \in Loop \ {"release"} : pc'[k] = pc[k] /\ at'[k] = at[k]
<1> USE DEF Typed
<1> DEFINE i == at["release"]
           row == update_coin2asset_failed(Seen(c)[i], "successful")
<1>1. pc["release"] \notin Resting /\ "release" \in Loop
    BY AllSteps DEF RetryRecorded
<1>2. /\ i \in Id /\ table[i] \in Row /\ Seen(c)[i] \in Row
      /\ Seen(c)[i].kind = table[i].kind
    BY <1>1, AtRow
<1>3. row \in Row /\ row.kind = table[i].kind
    BY <1>2, RetryUpdate
<1>4. /\ Write(c, i, row) /\ Goto("release", "pending", 0)
      /\ UNCHANGED <<minedBurn, chains, booked, refusals, troubles>>
    BY DEF RetryRecorded, NoTrouble
<1> HIDE DEF i, row
<1>5. DataOK' /\ KindsKept /\ DoubtOK'
    BY <1>2, <1>3, <1>4, WriteOK
<1>6. /\ ControlOK' /\ pc'["release"] = "pending" /\ at'["release"] = 0
      /\ \A k \in Loop \ {"release"} : pc'[k] = pc[k] /\ at'[k] = at[k]
    BY <1>1, <1>4, <1>5, RestOK, AllSteps
<1>7. CountsOK'
    BY <1>4 DEF CountsOK, chains
<1> QED
    BY <1>2, <1>3, <1>5, <1>6, <1>7 DEF i, row

(* The steps of the release loop that find nothing to do, and a loop that  *)
(* dies.                                                                   *)
LEMMA IdleStepOK ==
    ASSUME Typed, NEW l \in Loop, NEW step \in StepsOf(l), step \in Resting,
           Goto(l, step, 0), UNCHANGED <<database, minedBurn, chains, booked, doubtful>>,
           NoTrouble \/ (Trouble /\ UNCHANGED refusals)
    PROVE  /\ Typed' /\ KindsKept /\ pc'[l] = step /\ at'[l] = 0
           /\ \A k \in Loop \ {l} : pc'[k] = pc[k] /\ at'[k] = at[k]
<1> USE DEF Typed
<1>1. DataOK' /\ DoubtOK' /\ KindsKept
    BY DEF database, DataOK, DoubtOK, KindsKept
<1>2. /\ ControlOK' /\ pc'[l] = step /\ at'[l] = 0
      /\ \A k \in Loop \ {l} : pc'[k] = pc[k] /\ at'[k] = at[k]
    BY <1>1, RestOK
<1>3. CountsOK'
    BY DEF CountsOK, NoTrouble, Trouble, chains
<1> QED
    BY <1>1, <1>2, <1>3

LEMMA ReleaseOK ==
    ASSUME Typed, NEW c \in Client, NEW i \in Id, Release(c, i)
    PROVE  /\ Typed' /\ KindsKept /\ pc["release"] = "pending" /\ at["release"] = 0
           /\ Releasable(Seen(c)[i]) /\ Seen(c)[i] \in Row /\ table[i] \in Row
           /\ Seen(c)[i].kind = table[i].kind
           /\ paid' = paid \/ paid' = Counted(paid, i)
<1> USE DEF Typed
<1>1. Releasable(Seen(c)[i])
    BY DEF Release, filter_bridge
<1>2. Seen(c)[i].kind \in Withdrawal /\ Seen(c)[i].kind \in Kind
    BY <1>1, KindFacts DEF Releasable
<1>3. Seen(c)[i] \in Row /\ table[i] \in Row /\ Seen(c)[i].kind = table[i].kind
    BY <1>2, SeenIsRow
<1>4. \/ NoTrouble /\ UNCHANGED doubtful
      \/ Refused /\ UNCHANGED doubtful
      \/ ReplyLost(i, paid)
    BY DEF Release, Done
<1>5. DataOK' /\ DoubtOK' /\ KindsKept /\ refusals' \in Nat /\ troubles' \in Nat
    BY <1>3, <1>4, CallOK DEF Release, CountsOK
<1>6. paid' = paid \/ paid' = Counted(paid, i)
    BY DEF Release
<1>7. CountsOK'
    BY <1>5, <1>6, CountedType DEF Release, CountsOK
<1>8. ControlOK'
  <2>1. PICK step \in {"record", "recordRefused"} : Goto("release", step, i)
      BY DEF Release, Done
  <2>2. step \in StepsOf("release") /\ step \notin Resting
      BY <2>1, AllSteps
  <2> QED
      BY <1>2, <1>3, <1>5, <2>1, <2>2, IdFacts, GotoOK, AllSteps DEF KindOf
<1>9. pc["release"] = "pending" /\ at["release"] = 0
    BY AllSteps DEF Release, ControlOK
<1> QED
    BY <1>1, <1>3, <1>5, <1>6, <1>7, <1>8, <1>9

ReleasedAs == IF pc["release"] = "record" THEN "successful" ELSE "failed"

LEMMA ReleaseRecordedOK ==
    ASSUME Typed, NEW c \in Client, ReleaseRecorded(c)
    PROVE  /\ Typed' /\ KindsKept
           /\ Write(c, at["release"],
                    update_coin2asset_bridge(Seen(c)[at["release"]], ReleasedAs, "successful"))
           /\ update_coin2asset_bridge(Seen(c)[at["release"]], ReleasedAs, "successful")
                 \in Row
           /\ update_coin2asset_bridge(Seen(c)[at["release"]], ReleasedAs, "successful").kind
                 = table[at["release"]].kind
           /\ at["release"] \in Id /\ pc'["release"] = "commit" /\ at'["release"] = 0
           /\ \A k \in Loop \ {"release"} : pc'[k] = pc[k] /\ at'[k] = at[k]
<1> USE DEF Typed
<1> DEFINE i == at["release"]
           row == update_coin2asset_bridge(Seen(c)[i], ReleasedAs, "successful")
<1>1. pc["release"] \notin Resting /\ "release" \in Loop
    BY AllSteps DEF ReleaseRecorded
<1>2. /\ i \in Id /\ table[i] \in Row /\ Seen(c)[i] \in Row
      /\ Seen(c)[i].kind = table[i].kind
    BY <1>1, AtRow
<1>3. row \in Row /\ row.kind = table[i].kind
  <2>1. ReleasedAs \in Status /\ "successful" \in Status
      BY DEF ReleasedAs, Status
  <2> QED
      BY <1>2, <2>1, WithdrawalUpdate
<1>4. /\ Write(c, i, row) /\ Goto("release", "commit", 0)
      /\ UNCHANGED <<minedBurn, chains, booked, refusals, troubles>>
    BY DEF ReleaseRecorded, NoTrouble, ReleasedAs
<1> HIDE DEF i, row
<1>5. DataOK' /\ KindsKept /\ DoubtOK'
    BY <1>2, <1>3, <1>4, WriteOK
<1>6. /\ ControlOK' /\ pc'["release"] = "commit" /\ at'["release"] = 0
      /\ \A k \in Loop \ {"release"} : pc'[k] = pc[k] /\ at'[k] = at[k]
    BY <1>1, <1>4, <1>5, RestOK, AllSteps
<1>7. CountsOK'
    BY <1>4 DEF CountsOK, chains
<1> QED
    BY <1>2, <1>3, <1>4, <1>5, <1>6, <1>7 DEF i, row

LEMMA CommitOK ==
    ASSUME Typed, NEW d \in Client, Commit(d)
    PROVE  /\ Typed' /\ KindsKept
           /\ \A i \in Id : table'[i] = Seen(d)[i]
           /\ \A c \in Client, i \in Id : draft'[c][i] \in {draft[c][i], NoRow}
           /\ pc["release"] = "commit" /\ pc'["release"] = "idle" /\ at'["release"] = 0
           /\ \A k \in Loop \ {"release"} : pc'[k] = pc[k] /\ at'[k] = at[k]
<1> USE DEF Typed
<1>1. /\ table' = Seen(d) /\ open' = open \ {d}
      /\ draft' = [draft EXCEPT ![d] = NoDraft] /\ Goto("release", "idle", 0)
      /\ UNCHANGED <<minedBurn, chains, booked, doubtful, refusals, troubles>>
    BY DEF Commit, NoTrouble
<1>2. \A i \in Id : table'[i] \in Row \cup {NoRow} /\ table'[i].kind = table[i].kind
    BY <1>1, SeenFacts
<1>3. table' \in [Id -> Row \cup {NoRow}]
  <2>1. table' = [i \in Id |-> table'[i]]
      BY <1>1 DEF Seen
  <2> QED
      BY <1>2, <2>1
<1>4. \A c \in Client, i \in Id : draft'[c][i] = IF c = d THEN NoRow ELSE draft[c][i]
    BY <1>1 DEF DataOK, NoDraft
<1>5. draft' \in [Client -> [Id -> Row \cup {NoRow}]]
    BY <1>1 DEF DataOK, NoDraft
<1>6. DataOK'
    BY <1>1, <1>2, <1>3, <1>4, <1>5 DEF DataOK
<1>7. KindsKept
    BY <1>1, <1>2, SeenFacts DEF KindsKept
<1>8. DoubtOK'
    BY <1>1, <1>7 DEF DoubtOK, KindsKept
<1>9. /\ ControlOK' /\ pc'["release"] = "idle" /\ at'["release"] = 0
      /\ \A k \in Loop \ {"release"} : pc'[k] = pc[k] /\ at'[k] = at[k]
    BY <1>1, <1>6, <1>7, RestOK, AllSteps
<1>10. CountsOK'
    BY <1>1 DEF CountsOK, chains
<1> QED
    BY <1>1, <1>4, <1>6, <1>7, <1>8, <1>9, <1>10 DEF Commit

LEMMA ReleaseNotRecordedOK ==
    ASSUME Typed, NEW c \in Client, NEW d \in Client, ReleaseNotRecorded(c, d)
    PROVE  Typed' /\ KindsKept
<1> USE DEF Typed
<1>1. at["release"] \in Id /\ table[at["release"]] \in Row
    BY AtRow, AllSteps DEF ReleaseNotRecorded
<1>2. DataOK' /\ KindsKept
    BY ForgetOK DEF ReleaseNotRecorded
<1>3. DoubtOK'
    BY <1>1, <1>2, DoubtMore DEF ReleaseNotRecorded
<1>4. ControlOK'
    BY <1>2, RestOK, AllSteps DEF ReleaseNotRecorded
<1>5. CountsOK'
    BY DEF ReleaseNotRecorded, Trouble, CountsOK, chains
<1> QED
    BY <1>2, <1>3, <1>4, <1>5

LEMMA ClientClosedOK ==
    ASSUME Typed, NEW c \in Client, ClientClosed(c)
    PROVE  Typed' /\ KindsKept
<1> USE DEF Typed
<1>1. DataOK' /\ KindsKept
    BY ForgetOK DEF ClientClosed
<1>2. DoubtOK'
    BY <1>1 DEF ClientClosed, DoubtOK, KindsKept
<1>3. ControlOK'
    BY <1>1, ControlKept DEF ClientClosed
<1>4. CountsOK'
    BY DEF ClientClosed, Trouble, CountsOK, chains
<1> QED
    BY <1>1, <1>2, <1>3, <1>4

LEMMA RestartOK == Typed /\ Restart => Typed' /\ KindsKept
<1> SUFFICES ASSUME Typed, Restart PROVE Typed' /\ KindsKept
    OBVIOUS
<1> USE DEF Typed
<1>1. DataOK' /\ KindsKept
    BY ForgetOK DEF Restart
<1>2. DoubtOK'
  <2>1. ASSUME NEW i \in Id, NEW l \in Loop, at[l] = i PROVE table[i] \in Row
      BY <2>1, IdFacts, AtRow, AllSteps DEF ControlOK
  <2> QED
      BY <1>1, <2>1, DoubtMore DEF Restart
<1>3. ControlOK'
  <2>1. \A l \in Loop : "idle" \in StepsOf(l)
      BY AllSteps
  <2>2. \A l \in Loop : pc'[l] = "idle" /\ at'[l] = 0
      BY DEF Restart
  <2>3. pc' \in [Loop -> Step] /\ at' \in [Loop -> Id \cup {0}]
      BY DEF Restart, Step
  <2> QED
      BY <2>1, <2>2, <2>3, AllSteps DEF ControlOK
<1>4. CountsOK'
    BY DEF Restart, Trouble, CountsOK, chains
<1> QED
    BY <1>1, <1>2, <1>3, <1>4

LEMMA StutterOK == Typed /\ UNCHANGED vars => Typed' /\ KindsKept
  BY DEF vars, Typed, DataOK, DoubtOK, ControlOK, CountsOK, KindsKept, Seen

(* The names of the actions, one by one.                                   *)
LEMMA Actions ==
    ASSUME [Next]_vars
    PROVE  \/ \E i \in Id, kind \in Kind : Ask(i, kind)
           \/ \E c \in Client, i \in Id : DecodeThrows(c, i)
           \/ \E c, d \in Client, i \in Id : Decode(c, d, i)
           \/ \E c \in Client, i \in Id : Mint(c, i)
           \/ \E c \in Client : MintRecorded(c)
           \/ \E c \in Client, i \in Id : Burn(c, i)
           \/ \E c \in Client : BurnRecorded(c)
           \/ \E c, d \in Client, i \in Id : Retry(c, d, i)
           \/ \E c \in Client : RetryRecorded(c)
           \/ \E c \in Client : NothingToRetry(c)
           \/ \E c \in Client : NothingToRelease(c)
           \/ \E c \in Client, i \in Id : Release(c, i)
           \/ \E c \in Client : ReleaseRecorded(c)
           \/ \E c \in Client : Commit(c)
           \/ NoReceipt
           \/ Restart
           \/ \E l \in Loop : LoopDies(l)
           \/ \E c \in Client : MintNotRecorded(c)
           \/ \E c \in Client : BurnNotRecorded(c)
           \/ \E c \in Client : ClientClosed(c)
           \/ \E c, d \in Client : ReleaseNotRecorded(c, d)
           \/ UNCHANGED vars
  BY Zenon DEF Next, DecodeLoop, MintLoop, BurnLoop, ReleaseLoop, Accident

LEMMA TypedNext == Typed /\ [Next]_vars => Typed' /\ KindsKept
<1> SUFFICES ASSUME Typed, [Next]_vars PROVE Typed' /\ KindsKept
    OBVIOUS
<1>1. CASE \E i \in Id, kind \in Kind : Ask(i, kind)
    BY <1>1, AskOK
<1>2. CASE \E c \in Client, i \in Id : DecodeThrows(c, i)
  <2>1. PICK c \in Client, i \in Id : DecodeThrows(c, i)
      BY <1>2
  <2> QED
      BY <2>1, IdleStepOK, AllSteps DEF DecodeThrows
<1>3. CASE \E c, d \in Client, i \in Id : Decode(c, d, i)
    BY <1>3, DecodeOK
<1>4. CASE \E c \in Client, i \in Id : Mint(c, i)
    BY <1>4, MintOK
<1>5. CASE \E c \in Client : MintRecorded(c)
    BY <1>5, MintRecordedOK
<1>6. CASE \E c \in Client, i \in Id : Burn(c, i)
    BY <1>6, BurnOK
<1>7. CASE \E c \in Client : BurnRecorded(c)
    BY <1>7, BurnRecordedOK
<1>8. CASE \E c, d \in Client, i \in Id : Retry(c, d, i)
    BY <1>8, RetryOK
<1>9. CASE \E c \in Client : RetryRecorded(c)
    BY <1>9, RetryRecordedOK
<1>10. CASE \E c \in Client : NothingToRetry(c)
    BY <1>10, IdleStepOK, AllSteps DEF NothingToRetry
<1>11. CASE \E c \in Client : NothingToRelease(c)
    BY <1>11, IdleStepOK, AllSteps DEF NothingToRelease
<1>12. CASE \E c \in Client, i \in Id : Release(c, i)
    BY <1>12, ReleaseOK
<1>13. CASE \E c \in Client : ReleaseRecorded(c)
    BY <1>13, ReleaseRecordedOK
<1>14. CASE \E c \in Client : Commit(c)
    BY <1>14, CommitOK
<1>15. CASE NoReceipt
    BY <1>15, NoReceiptOK
<1>16. CASE Restart
    BY <1>16, RestartOK
<1>17. CASE \E l \in Loop : LoopDies(l)
    BY <1>17, IdleStepOK, AllSteps DEF LoopDies
<1>18. CASE \E c \in Client : MintNotRecorded(c)
    BY <1>18, MintNotRecordedOK
<1>19. CASE \E c \in Client : BurnNotRecorded(c)
    BY <1>19, BurnNotRecordedOK
<1>20. CASE \E c \in Client : ClientClosed(c)
    BY <1>20, ClientClosedOK
<1>21. CASE \E c, d \in Client : ReleaseNotRecorded(c, d)
    BY <1>21, ReleaseNotRecordedOK
<1>22. CASE UNCHANGED vars
    BY <1>22, StutterOK
<1> QED
    BY <1>1, <1>2, <1>3, <1>4, <1>5, <1>6, <1>7, <1>8, <1>9, <1>10, <1>11, <1>12, <1>13,
       <1>14, <1>15, <1>16, <1>17, <1>18, <1>19, <1>20, <1>21, <1>22, Actions, Zenon

(* Whatever the chains answer, whichever queries fail and whenever the     *)
(* process dies, the table, the drafts and the loops keep their types, and *)
(* only a client in a transaction has drafts.                              *)
THEOREM TypeCorrect == Spec => []TypeOK
<1>1. Spec => []Typed
  <2>1. Typed /\ [Next]_vars => Typed'
      BY TypedNext
  <2> QED
      BY <2>1, TypedInit, PTL DEF Spec
<1> QED
    BY <1>1, TypedIsEnough, PTL

----------------------------------------------------------------------------
(* What rows and loops say has happened.                                   *)

(* A row whose coins or assets were taken t times and paid p times.        *)
TrueRow(row, t, p) ==
    /\ row.kind \in Withdrawal =>
          /\ row.master = "successful" => p > 0
          /\ row.child = "successful" => t > 0
    /\ row.kind \in Deposit =>
          /\ row.child = "successful" => p > 0
          /\ row.master = "successful" =>
                row.kind \in Proper /\ row.amount = ToAmount(Tx[row.kind])

RowsTrue ==
    \A i \in Id : /\ TrueRow(table[i], taken[i], paid[i])
                  /\ \A c \in Client : TrueRow(draft[c][i], taken[i], paid[i])

StepsTrue ==
    /\ pc["mint"] = "record" => paid[at["mint"]] > 0
    /\ pc["burn"] = "receipt" /\ minedBurn => taken[at["burn"]] > 0
    /\ pc["release"] \in {"record", "recordRetry"} => paid[at["release"]] > 0
    /\ pc["release"] \in {"record", "recordRefused"} => taken[at["release"]] > 0

CountsTrue ==
    \A i \in Id :
        /\ table[i] = NoRow => taken[i] = 0 /\ paid[i] = 0
        /\ table[i].kind \in Proper => taken[i] > 0
        /\ paid[i] > 0 => taken[i] > 0

BackedInv == Typed /\ RowsTrue /\ StepsTrue /\ CountsTrue

LEMMA NoRowIsTrue == \A t, p : TrueRow(NoRow, t, p)
  BY NoRowFacts, KindFacts DEF TrueRow

LEMMA TrueRowKept ==
    ASSUME NEW row, NEW t \in Nat, NEW p \in Nat, NEW u \in Nat, NEW q \in Nat,
           t <= u, p <= q, TrueRow(row, t, p)
    PROVE  TrueRow(row, u, q)
  BY DEF TrueRow

LEMMA SeenIsTrue ==
    ASSUME BackedInv, NEW c \in Client, NEW i \in Id
    PROVE  TrueRow(Seen(c)[i], taken[i], paid[i])
  BY SeenFacts DEF BackedInv, Typed, RowsTrue

(* Payments and burns are never undone.                                    *)
Grows == \A i \in Id : taken[i] <= taken'[i] /\ paid[i] <= paid'[i]

LEMMA CountedGrows ==
    ASSUME CountsOK, NEW i \in Id,
           \/ UNCHANGED <<taken, paid>>
           \/ taken' = Counted(taken, i) /\ UNCHANGED paid
           \/ paid' = Counted(paid, i) /\ UNCHANGED taken
    PROVE  /\ Grows
           /\ \A j \in Id \ {i} : taken'[j] = taken[j] /\ paid'[j] = paid[j]
           /\ taken' = Counted(taken, i) => taken'[i] > 0
           /\ paid' = Counted(paid, i) => paid'[i] > 0
<1>1. \A j \in Id : taken[j] \in Nat /\ paid[j] \in Nat
    BY DEF CountsOK
<1>2. /\ Counted(taken, i)[i] = taken[i] + 1 /\ Counted(paid, i)[i] = paid[i] + 1
      /\ \A j \in Id \ {i} : Counted(taken, i)[j] = taken[j] /\ Counted(paid, i)[j] = paid[j]
    BY CountedType DEF CountsOK
<1>3. /\ taken' = Counted(taken, i) => taken'[i] > 0
      /\ paid' = Counted(paid, i) => paid'[i] > 0
    BY <1>1, <1>2
<1>4. \A j \in Id \ {i} : taken'[j] = taken[j] /\ paid'[j] = paid[j]
    BY <1>2
<1>5. taken[i] <= taken'[i] /\ paid[i] <= paid'[i]
    BY <1>1, <1>2
<1>6. Grows
    BY <1>1, <1>4, <1>5 DEF Grows
<1> QED
    BY <1>3, <1>4, <1>6

(* Rows stay true where each of them is an old one, or one that is true.   *)
LEMMA RowsKept ==
    ASSUME BackedInv, Typed', Grows,
           \A i \in Id :
              /\ \/ table'[i] = table[i] \/ table'[i] = NoRow
                 \/ \E c \in Client : table'[i] = Seen(c)[i]
                 \/ TrueRow(table'[i], taken'[i], paid'[i])
              /\ \A c \in Client :
                    \/ draft'[c][i] = draft[c][i] \/ draft'[c][i] = NoRow
                    \/ TrueRow(draft'[c][i], taken'[i], paid'[i])
    PROVE  RowsTrue'
<1> SUFFICES ASSUME NEW i \in Id
             PROVE  /\ TrueRow(table'[i], taken'[i], paid'[i])
                    /\ \A c \in Client : TrueRow(draft'[c][i], taken'[i], paid'[i])
    BY DEF RowsTrue
<1>1. /\ taken[i] \in Nat /\ paid[i] \in Nat /\ taken'[i] \in Nat /\ paid'[i] \in Nat
      /\ taken[i] <= taken'[i] /\ paid[i] <= paid'[i]
    BY DEF BackedInv, Typed, CountsOK, Grows
<1>2. \A row : TrueRow(row, taken[i], paid[i]) => TrueRow(row, taken'[i], paid'[i])
    BY <1>1, TrueRowKept
<1>3. /\ TrueRow(table[i], taken[i], paid[i])
      /\ \A c \in Client : TrueRow(draft[c][i], taken[i], paid[i])
    BY DEF BackedInv, RowsTrue
<1>4. \A c \in Client : TrueRow(Seen(c)[i], taken[i], paid[i])
    BY SeenIsTrue
<1> QED
    BY <1>2, <1>3, <1>4, NoRowIsTrue

LEMMA RowsWritten ==
    ASSUME BackedInv, Typed', NEW c \in Client, NEW i \in Id, NEW row \in Row,
           row.kind = table[i].kind, Write(c, i, row), UNCHANGED <<taken, paid>>,
           TrueRow(row, taken[i], paid[i])
    PROVE  RowsTrue' /\ \A j \in Id : table'[j].kind = table[j].kind
<1>1. /\ \A j \in Id : table'[j] = table[j] \/ (j = i /\ table'[j] = row)
      /\ \A d \in Client, j \in Id : draft'[d][j] = draft[d][j] \/ (j = i /\ draft'[d][j] = row)
    BY WriteOK DEF BackedInv, Typed
<1>2. Grows
    BY DEF BackedInv, Typed, CountsOK, Grows
<1>3. RowsTrue'
    BY <1>1, <1>2, RowsKept
<1> QED
    BY <1>1, <1>3

(* The counts after any step but a request.                                *)
LEMMA CountsKept ==
    ASSUME BackedInv, Typed', Grows,
           \A i \in Id :
              /\ table'[i].kind = table[i].kind
              /\ paid'[i] = paid[i] \/ (taken[i] > 0 /\ table[i] \in Row)
              /\ taken'[i] = taken[i] \/ table[i] \in Row
    PROVE  CountsTrue'
<1> SUFFICES ASSUME NEW i \in Id
             PROVE  /\ table'[i] = NoRow => taken'[i] = 0 /\ paid'[i] = 0
                    /\ table'[i].kind \in Proper => taken'[i] > 0
                    /\ paid'[i] > 0 => taken'[i] > 0
    BY DEF CountsTrue
<1>1. /\ taken[i] \in Nat /\ paid[i] \in Nat /\ taken'[i] \in Nat /\ paid'[i] \in Nat
      /\ taken[i] <= taken'[i] /\ paid[i] <= paid'[i]
    BY DEF BackedInv, Typed, CountsOK, Grows
<1>2. table[i] \in Row \cup {NoRow}
    BY DEF BackedInv, Typed, DataOK
<1>3. table'[i].kind = table[i].kind
    OBVIOUS
<1>4. table'[i] = NoRow => table[i] = NoRow
    BY <1>2, <1>3, NoRowFacts
<1>5. /\ table[i] = NoRow => taken[i] = 0 /\ paid[i] = 0
      /\ table[i].kind \in Proper => taken[i] > 0
      /\ paid[i] > 0 => taken[i] > 0
    BY DEF BackedInv, CountsTrue
<1>6. table'[i] = NoRow => taken'[i] = 0 /\ paid'[i] = 0
    BY <1>4, <1>5, NoRowFacts
<1>7. table'[i].kind \in Proper => taken'[i] > 0
    BY <1>1, <1>3, <1>5
<1>8. paid'[i] > 0 => taken'[i] > 0
    BY <1>1, <1>5
<1> QED
    BY <1>6, <1>7, <1>8

(* A loop that stays where it is, or comes to rest, still says the truth.  *)
LEMMA StepsKept ==
    ASSUME BackedInv, Typed', Grows,
           \/ pc'["mint"] = pc["mint"] /\ at'["mint"] = at["mint"]
           \/ pc'["mint"] \in Resting
           \/ pc'["mint"] = "record" /\ paid'[at'["mint"]] > 0,
           \/ pc'["burn"] = pc["burn"] /\ at'["burn"] = at["burn"] /\ minedBurn' = minedBurn
           \/ pc'["burn"] \in Resting
           \/ pc'["burn"] = "receipt" /\ (minedBurn' => taken'[at'["burn"]] > 0),
           \/ pc'["release"] = pc["release"] /\ at'["release"] = at["release"]
           \/ pc'["release"] \in Resting
           \/ pc'["release"] = "recordRetry" /\ paid'[at'["release"]] > 0
           \/ pc'["release"] = "recordRefused" /\ taken'[at'["release"]] > 0
           \/ /\ pc'["release"] = "record"
              /\ paid'[at'["release"]] > 0 /\ taken'[at'["release"]] > 0
    PROVE  StepsTrue'
<1>1. \A i \in Id : /\ taken[i] \in Nat /\ paid[i] \in Nat
                    /\ taken'[i] \in Nat /\ paid'[i] \in Nat
                    /\ taken[i] <= taken'[i] /\ paid[i] <= paid'[i]
    BY DEF BackedInv, Typed, CountsOK, Grows
<1>2. \A l \in Loop : pc[l] \notin Resting => at[l] \in Id
    BY AtRow DEF BackedInv, Typed
<1>3. pc'["mint"] = "record" => paid'[at'["mint"]] > 0
    BY <1>1, <1>2, AllSteps DEF BackedInv, StepsTrue
<1>4. pc'["burn"] = "receipt" /\ minedBurn' => taken'[at'["burn"]] > 0
  <2>1. SUFFICES ASSUME pc'["burn"] = "receipt", minedBurn' = TRUE
                 PROVE  taken'[at'["burn"]] > 0
      OBVIOUS
  <2>2. CASE /\ pc'["burn"] = pc["burn"] /\ at'["burn"] = at["burn"]
             /\ minedBurn' = minedBurn
    <3>1. at["burn"] \in Id
        BY <1>2, <2>1, <2>2, AllSteps
    <3>2. taken[at["burn"]] > 0
        BY <2>1, <2>2 DEF BackedInv, StepsTrue
    <3> QED
        BY <1>1, <2>2, <3>1, <3>2
  <2> QED
      BY <2>1, <2>2, AllSteps
<1>5. pc'["release"] \in {"record", "recordRetry"} => paid'[at'["release"]] > 0
    BY <1>1, <1>2, AllSteps DEF BackedInv, StepsTrue
<1>6. pc'["release"] \in {"record", "recordRefused"} => taken'[at'["release"]] > 0
    BY <1>1, <1>2, AllSteps DEF BackedInv, StepsTrue
<1> QED
    BY <1>3, <1>4, <1>5, <1>6 DEF StepsTrue

LEMMA GotoValues ==
    ASSUME ControlOK, NEW l \in Loop, NEW step, NEW i, Goto(l, step, i)
    PROVE  /\ pc'[l] = step /\ at'[l] = i
           /\ \A k \in Loop \ {l} : pc'[k] = pc[k] /\ at'[k] = at[k]
  BY DEF Goto, ControlOK

LEMMA AskBacked ==
    ASSUME BackedInv, NEW i \in Id, NEW kind \in Kind, Ask(i, kind)
    PROVE  BackedInv'
<1>1. /\ Typed' /\ table[i] = NoRow
      /\ \A j \in Id \ {i} : table'[j] = table[j] /\ taken'[j] = taken[j]
      /\ table'[i] = [kind |-> kind, decoded |-> kind \in Withdrawal, amount |-> 0,
                       master |-> "pending", child |-> "pending"]
      /\ taken'[i] = IF kind \in Deposit THEN IF kind \in Proper THEN 1 ELSE 0
                     ELSE taken[i]
    BY AskOK DEF BackedInv
<1>2. /\ UNCHANGED <<draft, pc, at, minedBurn, paid>>
    BY DEF Ask
<1>3. \A j \in Id : taken[j] \in Nat /\ paid[j] \in Nat
    BY DEF BackedInv, Typed, CountsOK
<1>4. taken[i] = 0 /\ paid[i] = 0
    BY <1>1 DEF BackedInv, CountsTrue
<1>5. Grows
    BY <1>1, <1>2, <1>3, <1>4 DEF Grows
<1>6. table'[i].kind = kind /\ TrueRow(table'[i], taken'[i], paid'[i])
    BY <1>1 DEF TrueRow
<1>7. RowsTrue'
    BY <1>1, <1>2, <1>5, <1>6, RowsKept
<1>8. StepsTrue'
    BY <1>1, <1>2, <1>5, StepsKept
<1>9. CountsTrue'
  <2> SUFFICES ASSUME NEW j \in Id
               PROVE  /\ table'[j] = NoRow => taken'[j] = 0 /\ paid'[j] = 0
                      /\ table'[j].kind \in Proper => taken'[j] > 0
                      /\ paid'[j] > 0 => taken'[j] > 0
      BY DEF CountsTrue
  <2>1. CASE j # i
      BY <1>1, <1>2, <2>1 DEF BackedInv, CountsTrue
  <2>2. CASE j = i
      BY <1>1, <1>2, <1>4, <1>6, <2>2, NoRowFacts, KindFacts
  <2> QED
      BY <2>1, <2>2
<1> QED
    BY <1>1, <1>7, <1>8, <1>9 DEF BackedInv

LEMMA DecodeBacked ==
    ASSUME BackedInv, NEW c \in Client, NEW d \in Client, NEW i \in Id, Decode(c, d, i)
    PROVE  BackedInv'
<1> DEFINE row == Decoded(Seen(d)[i])
<1>1. /\ Typed' /\ Undecoded(Seen(c)[i]) /\ Seen(c)[i] \in Row /\ Seen(d)[i] \in Row
      /\ Decodable(Tx[table[i].kind]) => Known(Tx[table[i].kind])
      /\ row \in Row /\ row.kind = table[i].kind
      /\ UNCHANGED <<pc, at, minedBurn, taken, paid, booked>>
    BY DecodeOK DEF BackedInv
<1>2. Seen(d)[i].kind = table[i].kind /\ Seen(c)[i].kind = table[i].kind
    BY SeenFacts DEF BackedInv, Typed
<1>3. table[i].kind \in Deposit
    BY <1>1, <1>2 DEF Undecoded
<1>4. TrueRow(row, taken[i], paid[i])
  <2>1. CASE ~ Decodable(Tx[table[i].kind])
    <3>1. row = update_asset2coin_decode(Seen(d)[i], FALSE, 0, "illegaled")
        BY <1>2, <2>1 DEF Decoded
    <3>2. row.master = "illegaled" /\ row.child = "pending"
        BY <1>1, <3>1 DEF update_asset2coin_decode, Row
    <3> QED
        BY <1>1, <1>3, <3>2, KindFacts DEF TrueRow
  <2>2. CASE Decodable(Tx[table[i].kind])
    <3>1. row = update_asset2coin_decode(Seen(d)[i], TRUE, ToAmount(Tx[table[i].kind]),
                    IF PaidTo(Tx[table[i].kind], BridgeAddress) THEN "successful"
                    ELSE "illegaled")
        BY <1>2, <2>2 DEF Decoded
    <3>2. /\ row.child = "pending" /\ row.amount = ToAmount(Tx[table[i].kind])
          /\ row.master = "successful" => PaidTo(Tx[table[i].kind], BridgeAddress)
        BY <1>1, <3>1 DEF update_asset2coin_decode, Row
    <3>3. row.master = "successful" => table[i].kind \in Proper
        BY <1>1, <1>3, <2>2, <3>2 DEF Proper
    <3> QED
        BY <1>1, <1>3, <3>2, <3>3, KindFacts DEF TrueRow
  <2> QED
      BY <2>1, <2>2
<1>5. Write(d, i, row)
    BY DEF Decode
<1> HIDE DEF row
<1>6. RowsTrue' /\ \A j \in Id : table'[j].kind = table[j].kind
    BY <1>1, <1>4, <1>5, RowsWritten
<1>7. Grows
    BY <1>1 DEF BackedInv, Typed, CountsOK, Grows
<1>8. StepsTrue'
    BY <1>1, <1>7, StepsKept
<1>9. CountsTrue'
    BY <1>1, <1>6, <1>7, CountsKept
<1> QED
    BY <1>1, <1>6, <1>8, <1>9 DEF BackedInv

LEMMA MintBacked ==
    ASSUME BackedInv, NEW c \in Client, NEW i \in Id, Mint(c, i)
    PROVE  BackedInv'
<1>1. /\ Typed' /\ Mintable(Seen(c)[i]) /\ table[i] \in Row
      /\ Seen(c)[i].kind = table[i].kind
      /\ paid' = paid \/ paid' = Counted(paid, i)
    BY MintOK DEF BackedInv
<1>2. UNCHANGED <<database, minedBurn, taken>>
    BY DEF Mint
<1>3. /\ Grows /\ \A j \in Id \ {i} : paid'[j] = paid[j]
      /\ paid' = Counted(paid, i) => paid'[i] > 0
    BY <1>1, <1>2, CountedGrows DEF BackedInv, Typed
<1>4. RowsTrue'
    BY <1>1, <1>2, <1>3, RowsKept DEF database
<1>5. taken[i] > 0
  <2>1. TrueRow(Seen(c)[i], taken[i], paid[i])
      BY SeenIsTrue
  <2>2. table[i].kind \in Proper
      BY <1>1, <2>1 DEF Mintable, TrueRow
  <2> QED
      BY <2>2 DEF BackedInv, CountsTrue
<1>6. CountsTrue'
  <2>1. \A j \in Id : table'[j].kind = table[j].kind /\ taken'[j] = taken[j]
      BY <1>2 DEF database
  <2> QED
      BY <1>1, <1>3, <1>5, <2>1, CountsKept
<1>7. StepsTrue'
  <2>1. CASE UNCHANGED <<pc, at>>
      BY <1>1, <1>2, <1>3, <2>1, StepsKept
  <2>2. CASE Goto("mint", "record", i) /\ paid' = Counted(paid, i)
    <3>1. /\ pc'["mint"] = "record" /\ at'["mint"] = i
          /\ \A k \in Loop \ {"mint"} : pc'[k] = pc[k] /\ at'[k] = at[k]
        BY <2>2, GotoValues, AllSteps DEF BackedInv, Typed
    <3>2. /\ pc'["burn"] = pc["burn"] /\ at'["burn"] = at["burn"]
          /\ pc'["release"] = pc["release"] /\ at'["release"] = at["release"]
        BY <3>1, AllSteps
    <3> QED
        BY <1>1, <1>2, <1>3, <2>2, <3>1, <3>2, StepsKept
  <2> QED
      BY <2>1, <2>2 DEF Mint, Done
<1> QED
    BY <1>1, <1>4, <1>6, <1>7 DEF BackedInv

LEMMA MintRecordedBacked ==
    ASSUME BackedInv, NEW c \in Client, MintRecorded(c)
    PROVE  BackedInv'
<1> DEFINE i == at["mint"]
           row == update_asset2coin_bridge(Seen(c)[i], "successful")
<1>1. /\ Typed' /\ row \in Row /\ row.kind = table[i].kind
      /\ i \in Id /\ pc'["mint"] = "idle" /\ at'["mint"] = 0
      /\ \A k \in Loop \ {"mint"} : pc'[k] = pc[k] /\ at'[k] = at[k]
    BY MintRecordedOK DEF BackedInv
<1>2. Write(c, i, row) /\ UNCHANGED <<taken, paid, minedBurn>> /\ pc["mint"] = "record"
    BY DEF MintRecorded, chains
<1>3. paid[i] > 0
    BY <1>2 DEF BackedInv, StepsTrue
<1>4. TrueRow(row, taken[i], paid[i])
  <2>1. /\ row.kind = Seen(c)[i].kind /\ row.amount = Seen(c)[i].amount
        /\ row.master = Seen(c)[i].master /\ row.kind \in Deposit
    <3>1. Seen(c)[i] \in Row /\ table[i].kind \in Deposit
        BY <1>2, AtRow, AllSteps DEF BackedInv, Typed, KindOf
    <3> QED
        BY <1>1, <3>1, MintUpdate
  <2>2. TrueRow(Seen(c)[i], taken[i], paid[i])
      BY <1>1, SeenIsTrue
  <2> QED
      BY <1>3, <2>1, <2>2, KindFacts DEF TrueRow
<1> HIDE DEF row, i
<1>5. RowsTrue' /\ \A j \in Id : table'[j].kind = table[j].kind
    BY <1>1, <1>2, <1>4, RowsWritten
<1>6. Grows
    BY <1>2 DEF BackedInv, Typed, CountsOK, Grows
<1>7. StepsTrue'
    BY <1>1, <1>2, <1>6, StepsKept, AllSteps
<1>8. CountsTrue'
    BY <1>1, <1>2, <1>5, <1>6, CountsKept
<1> QED
    BY <1>1, <1>5, <1>7, <1>8 DEF BackedInv

LEMMA BurnBacked ==
    ASSUME BackedInv, NEW c \in Client, NEW i \in Id, Burn(c, i)
    PROVE  BackedInv'
<1>1. /\ Typed' /\ table[i] \in Row
      /\ taken' = taken \/ taken' = Counted(taken, i)
    BY BurnOK DEF BackedInv
<1>2. UNCHANGED <<database, paid>>
    BY DEF Burn
<1>3. /\ Grows /\ \A j \in Id \ {i} : taken'[j] = taken[j]
      /\ taken' = Counted(taken, i) => taken'[i] > 0
    BY <1>1, <1>2, CountedGrows DEF BackedInv, Typed
<1>4. RowsTrue'
    BY <1>1, <1>2, <1>3, RowsKept DEF database
<1>5. CountsTrue'
  <2>1. \A j \in Id : table'[j].kind = table[j].kind /\ paid'[j] = paid[j]
      BY <1>2 DEF database
  <2> QED
      BY <1>1, <1>3, <2>1, CountsKept
<1>6. StepsTrue'
  <2>1. CASE UNCHANGED <<pc, at, minedBurn>>
      BY <1>1, <1>2, <1>3, <2>1, StepsKept
  <2>2. CASE UNCHANGED <<pc, at>> /\ pc["burn"] = "idle"
      BY <1>1, <1>2, <1>3, <2>2, StepsKept, AllSteps
  <2>3. CASE /\ Goto("burn", "receipt", i)
             /\ taken' = IF minedBurn' THEN Counted(taken, i) ELSE taken
    <3>1. /\ pc'["burn"] = "receipt" /\ at'["burn"] = i
          /\ \A k \in Loop \ {"burn"} : pc'[k] = pc[k] /\ at'[k] = at[k]
        BY <2>3, GotoValues, AllSteps DEF BackedInv, Typed
    <3>2. /\ pc'["mint"] = pc["mint"] /\ at'["mint"] = at["mint"]
          /\ pc'["release"] = pc["release"] /\ at'["release"] = at["release"]
        BY <3>1, AllSteps
    <3>3. minedBurn' => taken'[at'["burn"]] > 0
        BY <1>3, <2>3, <3>1
    <3> QED
        BY <1>1, <1>2, <1>3, <3>1, <3>2, <3>3, StepsKept
  <2> QED
      BY <2>1, <2>2, <2>3 DEF Burn, Done
<1> QED
    BY <1>1, <1>4, <1>5, <1>6 DEF BackedInv

LEMMA BurnRecordedBacked ==
    ASSUME BackedInv, NEW c \in Client, BurnRecorded(c)
    PROVE  BackedInv'
<1> DEFINE i == at["burn"]
           row == Burned(Seen(c)[i])
<1>1. /\ Typed' /\ row \in Row /\ row.kind = table[i].kind
      /\ i \in Id /\ pc'["burn"] = "idle" /\ at'["burn"] = 0
      /\ \A k \in Loop \ {"burn"} : pc'[k] = pc[k] /\ at'[k] = at[k]
    BY BurnRecordedOK DEF BackedInv
<1>2. Write(c, i, row) /\ UNCHANGED <<taken, paid, minedBurn>> /\ pc["burn"] = "receipt"
    BY DEF BurnRecorded, chains
<1>3. minedBurn => taken[i] > 0
    BY <1>2 DEF BackedInv, StepsTrue
<1>4. TrueRow(row, taken[i], paid[i])
  <2>1. Seen(c)[i] \in Row /\ table[i].kind \in Withdrawal
      BY <1>2, AtRow, AllSteps DEF BackedInv, Typed, KindOf
  <2>2. /\ minedBurn => row.master = "pending" /\ row.child = "successful"
        /\ ~ minedBurn => row.master = "failed" /\ row.child = "failed"
      BY <2>1, BurnedFacts
  <2>3. row.master # "successful" /\ (row.child = "successful" => taken[i] > 0)
      BY <1>3, <2>2
  <2> QED
      BY <1>1, <2>1, <2>3, KindFacts DEF TrueRow
<1> HIDE DEF row, i
<1>5. RowsTrue' /\ \A j \in Id : table'[j].kind = table[j].kind
    BY <1>1, <1>2, <1>4, RowsWritten
<1>6. Grows
    BY <1>2 DEF BackedInv, Typed, CountsOK, Grows
<1>7. StepsTrue'
    BY <1>1, <1>2, <1>6, StepsKept, AllSteps
<1>8. CountsTrue'
    BY <1>1, <1>2, <1>5, <1>6, CountsKept
<1> QED
    BY <1>1, <1>5, <1>7, <1>8 DEF BackedInv

(* A step that pays and burns nothing and writes no row, while loops stay  *)
(* where they are or come to rest.                                         *)
LEMMA QuietBacked ==
    ASSUME BackedInv, Typed', UNCHANGED <<table, taken, paid, minedBurn>>,
           \A c \in Client, i \in Id : draft'[c][i] \in {draft[c][i], NoRow},
           \A l \in Loop : pc'[l] \in Resting \/ (pc'[l] = pc[l] /\ at'[l] = at[l])
    PROVE  BackedInv'
<1>1. Grows
    BY DEF BackedInv, Typed, CountsOK, Grows
<1>2. RowsTrue'
    BY <1>1, RowsKept
<1>3. StepsTrue'
    BY <1>1, StepsKept, AllSteps
<1>4. CountsTrue'
    BY <1>1, CountsKept
<1> QED
    BY <1>2, <1>3, <1>4 DEF BackedInv

LEMMA RetryBacked ==
    ASSUME BackedInv, NEW c \in Client, NEW d \in Client, NEW i \in Id, Retry(c, d, i)
    PROVE  BackedInv'
<1>1. /\ Typed' /\ Retriable(Seen(c)[i]) /\ table[i] \in Row
      /\ paid' = paid \/ paid' = Counted(paid, i)
    BY RetryOK DEF BackedInv
<1>2. UNCHANGED <<table, draft, minedBurn, taken>>
    BY DEF Retry
<1>3. /\ Grows /\ \A j \in Id \ {i} : paid'[j] = paid[j]
      /\ paid' = Counted(paid, i) => paid'[i] > 0
    BY <1>1, <1>2, CountedGrows DEF BackedInv, Typed
<1>4. RowsTrue'
    BY <1>1, <1>2, <1>3, RowsKept
<1>5. taken[i] > 0
    BY <1>1, SeenIsTrue DEF Retriable, TrueRow
<1>6. CountsTrue'
    BY <1>1, <1>2, <1>3, <1>5, CountsKept
<1>7. StepsTrue'
  <2>1. PICK step, j : /\ Goto("release", step, j)
                       /\ \/ step = "pending"
                          \/ step = "recordRetry" /\ j = i /\ paid' = Counted(paid, i)
      BY DEF Retry, Done
  <2>2. /\ pc'["release"] = step /\ at'["release"] = j
        /\ \A k \in Loop \ {"release"} : pc'[k] = pc[k] /\ at'[k] = at[k]
      BY <2>1, GotoValues, AllSteps DEF BackedInv, Typed
  <2>3. /\ pc'["mint"] = pc["mint"] /\ at'["mint"] = at["mint"]
        /\ pc'["burn"] = pc["burn"] /\ at'["burn"] = at["burn"]
      BY <2>2, AllSteps
  <2> QED
      BY <1>1, <1>2, <1>3, <2>1, <2>2, <2>3, StepsKept, AllSteps
<1> QED
    BY <1>1, <1>4, <1>6, <1>7 DEF BackedInv

LEMMA ReleaseBacked ==
    ASSUME BackedInv, NEW c \in Client, NEW i \in Id, Release(c, i)
    PROVE  BackedInv'
<1>1. /\ Typed' /\ Releasable(Seen(c)[i]) /\ table[i] \in Row
      /\ paid' = paid \/ paid' = Counted(paid, i)
    BY ReleaseOK DEF BackedInv
<1>2. UNCHANGED <<table, draft, minedBurn, taken>>
    BY DEF Release, database
<1>3. /\ Grows /\ \A j \in Id \ {i} : paid'[j] = paid[j]
      /\ paid' = Counted(paid, i) => paid'[i] > 0
    BY <1>1, <1>2, CountedGrows DEF BackedInv, Typed
<1>4. RowsTrue'
    BY <1>1, <1>2, <1>3, RowsKept
<1>5. taken[i] > 0
    BY <1>1, SeenIsTrue DEF Releasable, TrueRow
<1>6. CountsTrue'
    BY <1>1, <1>2, <1>3, <1>5, CountsKept
<1>7. StepsTrue'
  <2>1. PICK step : /\ Goto("release", step, i)
                    /\ \/ step = "recordRefused"
                       \/ step = "record" /\ paid' = Counted(paid, i)
      BY DEF Release, Done
  <2>2. /\ pc'["release"] = step /\ at'["release"] = i
        /\ \A k \in Loop \ {"release"} : pc'[k] = pc[k] /\ at'[k] = at[k]
      BY <2>1, GotoValues, AllSteps DEF BackedInv, Typed
  <2>3. /\ pc'["mint"] = pc["mint"] /\ at'["mint"] = at["mint"]
        /\ pc'["burn"] = pc["burn"] /\ at'["burn"] = at["burn"]
      BY <2>2, AllSteps
  <2> QED
      BY <1>1, <1>2, <1>3, <1>5, <2>1, <2>2, <2>3, StepsKept
<1> QED
    BY <1>1, <1>4, <1>6, <1>7 DEF BackedInv

LEMMA RetryRecordedBacked ==
    ASSUME BackedInv, NEW c \in Client, RetryRecorded(c)
    PROVE  BackedInv'
<1> DEFINE i == at["release"]
           row == update_coin2asset_failed(Seen(c)[i], "successful")
<1>1. /\ Typed' /\ row \in Row /\ row.kind = table[i].kind
      /\ i \in Id /\ pc'["release"] = "pending" /\ at'["release"] = 0
      /\ \A k \in Loop \ {"release"} : pc'[k] = pc[k] /\ at'[k] = at[k]
    BY RetryRecordedOK DEF BackedInv
<1>2. /\ Write(c, i, row) /\ UNCHANGED <<taken, paid, minedBurn>>
      /\ pc["release"] = "recordRetry"
    BY DEF RetryRecorded, chains
<1>3. paid[i] > 0
    BY <1>2 DEF BackedInv, StepsTrue
<1>4. TrueRow(row, taken[i], paid[i])
  <2>1. Seen(c)[i] \in Row /\ table[i].kind \in Withdrawal
      BY <1>2, AtRow, AllSteps DEF BackedInv, Typed, KindOf
  <2>2. row.kind = Seen(c)[i].kind /\ row.child = Seen(c)[i].child
      BY <2>1, RetryUpdate
  <2>3. TrueRow(Seen(c)[i], taken[i], paid[i])
      BY <1>1, SeenIsTrue
  <2> QED
      BY <1>1, <1>3, <2>1, <2>2, <2>3, KindFacts DEF TrueRow
<1> HIDE DEF row, i
<1>5. RowsTrue' /\ \A j \in Id : table'[j].kind = table[j].kind
    BY <1>1, <1>2, <1>4, RowsWritten
<1>6. Grows
    BY <1>2 DEF BackedInv, Typed, CountsOK, Grows
<1>7. StepsTrue'
    BY <1>1, <1>2, <1>6, StepsKept, AllSteps
<1>8. CountsTrue'
    BY <1>1, <1>2, <1>5, <1>6, CountsKept
<1> QED
    BY <1>1, <1>5, <1>7, <1>8 DEF BackedInv

LEMMA ReleaseRecordedBacked ==
    ASSUME BackedInv, NEW c \in Client, ReleaseRecorded(c)
    PROVE  BackedInv'
<1> DEFINE i == at["release"]
           row == update_coin2asset_bridge(Seen(c)[i], ReleasedAs, "successful")
<1>1. /\ Typed' /\ row \in Row /\ row.kind = table[i].kind /\ Write(c, i, row)
      /\ i \in Id /\ pc'["release"] = "commit" /\ at'["release"] = 0
      /\ \A k \in Loop \ {"release"} : pc'[k] = pc[k] /\ at'[k] = at[k]
    BY ReleaseRecordedOK DEF BackedInv
<1>2. /\ UNCHANGED <<taken, paid, minedBurn>>
      /\ pc["release"] \in {"record", "recordRefused"}
    BY DEF ReleaseRecorded, chains
<1>3. /\ ReleasedAs = "successful" => paid[i] > 0
      /\ taken[i] > 0
    BY <1>2 DEF BackedInv, StepsTrue, ReleasedAs
<1>4. TrueRow(row, taken[i], paid[i])
  <2>1. Seen(c)[i] \in Row /\ table[i].kind \in Withdrawal
      BY <1>2, AtRow, AllSteps DEF BackedInv, Typed, KindOf
  <2>2. ReleasedAs \in Status /\ "successful" \in Status
      BY DEF ReleasedAs, Status
  <2>3. row.master = ReleasedAs
      BY <2>1, <2>2, WithdrawalUpdate
  <2> QED
      BY <1>1, <1>3, <2>1, <2>3, KindFacts DEF TrueRow
<1> HIDE DEF row, i
<1>5. RowsTrue' /\ \A j \in Id : table'[j].kind = table[j].kind
    BY <1>1, <1>2, <1>4, RowsWritten
<1>6. Grows
    BY <1>2 DEF BackedInv, Typed, CountsOK, Grows
<1>7. StepsTrue'
    BY <1>1, <1>2, <1>6, StepsKept, AllSteps
<1>8. CountsTrue'
    BY <1>1, <1>2, <1>5, <1>6, CountsKept
<1> QED
    BY <1>1, <1>5, <1>7, <1>8 DEF BackedInv

LEMMA CommitBacked ==
    ASSUME BackedInv, NEW d \in Client, Commit(d)
    PROVE  BackedInv'
<1>1. /\ Typed' /\ \A i \in Id : table'[i] = Seen(d)[i]
      /\ \A c \in Client, i \in Id : draft'[c][i] \in {draft[c][i], NoRow}
      /\ pc'["release"] = "idle"
      /\ \A k \in Loop \ {"release"} : pc'[k] = pc[k] /\ at'[k] = at[k]
    BY CommitOK DEF BackedInv
<1>2. UNCHANGED <<taken, paid, minedBurn>>
    BY DEF Commit, chains
<1>3. Grows
    BY <1>2 DEF BackedInv, Typed, CountsOK, Grows
<1>4. RowsTrue'
    BY <1>1, <1>2, <1>3, RowsKept
<1>5. \A i \in Id : table'[i].kind = table[i].kind
    BY <1>1, SeenFacts DEF BackedInv, Typed
<1>6. CountsTrue'
    BY <1>1, <1>2, <1>3, <1>5, CountsKept
<1>7. StepsTrue'
    BY <1>1, <1>2, <1>3, StepsKept, AllSteps
<1> QED
    BY <1>1, <1>4, <1>6, <1>7 DEF BackedInv

(* Accidents, and steps that find nothing to do.                           *)
LEMMA RestBacked ==
    ASSUME BackedInv, Typed', NEW l \in Loop, NEW step \in Resting, Goto(l, step, 0),
           UNCHANGED <<taken, paid, minedBurn>>,
           UNCHANGED <<table, draft>> \/ \E D : Forget(D)
    PROVE  BackedInv'
<1>1. /\ pc'[l] = step /\ at'[l] = 0
      /\ \A k \in Loop \ {l} : pc'[k] = pc[k] /\ at'[k] = at[k]
    BY GotoValues DEF BackedInv, Typed
<1>2. \A k \in Loop : pc'[k] \in Resting \/ (pc'[k] = pc[k] /\ at'[k] = at[k])
    BY <1>1
<1>3. /\ table' = table
      /\ \A c \in Client, i \in Id : draft'[c][i] \in {draft[c][i], NoRow}
    BY ForgetOK DEF BackedInv, Typed
<1> QED
    BY <1>2, <1>3, QuietBacked

LEMMA BackedInit == Init => BackedInv
<1> SUFFICES ASSUME Init PROVE BackedInv
    OBVIOUS
<1>1. Typed
    BY TypedInit
<1>2. RowsTrue
    BY NoRowIsTrue DEF Init, RowsTrue
<1>3. StepsTrue
    BY AllSteps DEF Init, StepsTrue
<1>4. CountsTrue
    BY NoRowFacts, KindFacts DEF Init, CountsTrue
<1> QED
    BY <1>1, <1>2, <1>3, <1>4 DEF BackedInv

LEMMA BackedNext == BackedInv /\ [Next]_vars => BackedInv'
<1> SUFFICES ASSUME BackedInv, [Next]_vars PROVE BackedInv'
    OBVIOUS
<1>0. Typed'
    BY TypedNext DEF BackedInv
<1>1. CASE \E i \in Id, kind \in Kind : Ask(i, kind)
    BY <1>1, AskBacked
<1>2. CASE \E c \in Client, i \in Id : DecodeThrows(c, i)
    BY <1>0, <1>2, RestBacked, AllSteps DEF DecodeThrows, database, chains
<1>3. CASE \E c, d \in Client, i \in Id : Decode(c, d, i)
    BY <1>3, DecodeBacked
<1>4. CASE \E c \in Client, i \in Id : Mint(c, i)
    BY <1>4, MintBacked
<1>5. CASE \E c \in Client : MintRecorded(c)
    BY <1>5, MintRecordedBacked
<1>6. CASE \E c \in Client, i \in Id : Burn(c, i)
    BY <1>6, BurnBacked
<1>7. CASE \E c \in Client : BurnRecorded(c)
    BY <1>7, BurnRecordedBacked
<1>8. CASE \E c, d \in Client, i \in Id : Retry(c, d, i)
    BY <1>8, RetryBacked
<1>9. CASE \E c \in Client : RetryRecorded(c)
    BY <1>9, RetryRecordedBacked
<1>10. CASE \E c \in Client : NothingToRetry(c)
    BY <1>0, <1>10, RestBacked, AllSteps DEF NothingToRetry, database, chains
<1>11. CASE \E c \in Client : NothingToRelease(c)
    BY <1>0, <1>11, RestBacked, AllSteps DEF NothingToRelease, database, chains
<1>12. CASE \E c \in Client, i \in Id : Release(c, i)
    BY <1>12, ReleaseBacked
<1>13. CASE \E c \in Client : ReleaseRecorded(c)
    BY <1>13, ReleaseRecordedBacked
<1>14. CASE \E c \in Client : Commit(c)
    BY <1>14, CommitBacked
<1>15. CASE NoReceipt
    BY <1>0, <1>15, RestBacked, AllSteps DEF NoReceipt, database, chains
<1>16. CASE Restart
  <2>1. \A l \in Loop : pc'[l] \in Resting
      BY <1>16, AllSteps DEF Restart
  <2>2. /\ UNCHANGED <<table, taken, paid, minedBurn>>
        /\ \A c \in Client, i \in Id : draft'[c][i] \in {draft[c][i], NoRow}
      BY <1>16, ForgetOK DEF Restart, chains, BackedInv, Typed
  <2> QED
      BY <1>0, <2>1, <2>2, QuietBacked
<1>17. CASE \E l \in Loop : LoopDies(l)
    BY <1>0, <1>17, RestBacked, AllSteps DEF LoopDies, database, chains
<1>18. CASE \E c \in Client : MintNotRecorded(c)
    BY <1>0, <1>18, RestBacked, AllSteps DEF MintNotRecorded, chains
<1>19. CASE \E c \in Client : BurnNotRecorded(c)
    BY <1>0, <1>19, RestBacked, AllSteps DEF BurnNotRecorded, chains
<1>20. CASE \E c \in Client : ClientClosed(c)
  <2>1. /\ UNCHANGED <<table, taken, paid, minedBurn, pc, at>>
        /\ \A c \in Client, i \in Id : draft'[c][i] \in {draft[c][i], NoRow}
      BY <1>20, ForgetOK DEF ClientClosed, chains, BackedInv, Typed
  <2> QED
      BY <1>0, <2>1, QuietBacked
<1>21. CASE \E c, d \in Client : ReleaseNotRecorded(c, d)
    BY <1>0, <1>21, RestBacked, AllSteps DEF ReleaseNotRecorded, chains
<1>22. CASE UNCHANGED vars
    BY <1>0, <1>22, QuietBacked DEF vars
<1> QED
    BY <1>1, <1>2, <1>3, <1>4, <1>5, <1>6, <1>7, <1>8, <1>9, <1>10, <1>11, <1>12, <1>13,
       <1>14, <1>15, <1>16, <1>17, <1>18, <1>19, <1>20, <1>21, <1>22, Actions, Zenon

(* Coins are minted only for assets the bridge received, and assets are    *)
(* sent only for coins that were burned, whatever calls, replies, records  *)
(* and transactions are lost; and no client ever reads a row that claims   *)
(* more than was done.                                                     *)
THEOREM EverythingIsBacked == Spec => []Backed
<1>1. BackedInv => Backed
  <2> SUFFICES ASSUME BackedInv PROVE Backed
      OBVIOUS
  <2>1. \A i \in Id : paid[i] > 0 => taken[i] > 0
      BY DEF BackedInv, CountsTrue
  <2>2. ASSUME NEW c \in Client, NEW i \in Id
        PROVE  IF Seen(c)[i].kind \in Withdrawal
               THEN /\ Seen(c)[i].master = "successful" => paid[i] > 0
                    /\ Seen(c)[i].child = "successful" => taken[i] > 0
               ELSE Seen(c)[i].child = "successful" => paid[i] > 0
    <3>1. TrueRow(Seen(c)[i], taken[i], paid[i])
        BY SeenIsTrue
    <3>2. Seen(c)[i] \in Row \cup {NoRow}
        BY SeenFacts DEF BackedInv, Typed
    <3>3. NoRow.child # "successful"
        BY DEF NoRow
    <3> QED
        BY <3>1, <3>2, <3>3, NoRowFacts, KindFacts DEF TrueRow
  <2> QED
      BY <2>1, <2>2 DEF Backed, Truthful
<1> QED
    BY <1>1, BackedInit, BackedNext, PTL DEF Spec

(* A deposit any client sees ready to be minted has the amount the bridge  *)
(* received with it: what the sender gets back and what pays the fee does  *)
(* not count.                                                              *)
THEOREM AmountsAreReceived == Spec => []MintedAsReceived
<1>1. ASSUME BackedInv, NEW c \in Client, NEW i \in Id,
             Seen(c)[i].kind \in Deposit, Seen(c)[i].master = "successful",
             Plain(Tx[Seen(c)[i].kind])
      PROVE  Seen(c)[i].amount
                = Received(Tx[Seen(c)[i].kind], AssetOf(Tx[Seen(c)[i].kind]))
  <2> DEFINE tx == Tx[Seen(c)[i].kind]
             received == {n \in DOMAIN tx.vout : tx.vout[n].address = BridgeAddress
                                                /\ tx.vout[n].asset = AssetOf(tx)}
  <2>1. Seen(c)[i].kind \in Proper /\ Seen(c)[i].amount = ToAmount(tx)
      BY <1>1, SeenIsTrue DEF TrueRow
  <2>2. Receivers(tx) = {BridgeAddress}
      BY <2>1 DEF Proper, PaidTo
  <2>3. Plain(tx)
      BY <1>1
  <2> HIDE DEF tx
  <2>4. \A n \in Payments(tx) : tx.vout[n].address = BridgeAddress
      BY <2>2 DEF Receivers
  <2>5. BridgeAddress # Sender(tx)
      BY <2>2 DEF Receivers, Payments
  <2>6. Payments(tx) = received
      BY <2>3, <2>4, <2>5 DEF Payments, Plain
  <2>7. ToAmount(tx) = Received(tx, AssetOf(tx))
      BY <2>6, Zenon DEF ToAmount, Received
  <2> QED
      BY <2>1, <2>7 DEF tx
<1>2. BackedInv => MintedAsReceived
    BY <1>1 DEF MintedAsReceived
<1> QED
    BY <1>2, BackedInit, BackedNext, PTL DEF Spec

----------------------------------------------------------------------------
(* Rows that met no accident.                                              *)

(* How often such a row was taken, paid and booked follows from its        *)
(* statuses and from what the loops have still to record.                  *)
CleanDeposit(row, t, p, b, minting) ==
    /\ t = IF row.kind \in Proper THEN 1 ELSE 0
    /\ p = IF row.child = "successful" \/ minting THEN 1 ELSE 0
    /\ b = IF row.child = "successful" THEN 1 ELSE 0
    /\ row.child \in {"pending", "successful"}
    /\ row.child = "successful" \/ minting => row.master = "successful"
    /\ minting => row.child = "pending"
    /\ row.master = "successful" => row.kind \in Proper
    /\ row.master = "illegaled" => row.kind \notin Proper

CleanWithdrawal(row, t, p, b, burning, mined, releasing) ==
    /\ t = IF row.child = "successful" \/ mined THEN 1 ELSE 0
    /\ p = IF row.master = "successful" \/ releasing \in {"record", "recordRetry"}
           THEN 1 ELSE 0
    /\ b = IF row.child = "successful" THEN 1 ELSE 0
    /\ row.master # "illegaled"
    /\ row.master = "successful" => row.child = "successful"
    /\ mined => burning
    /\ burning => row.master = "pending" /\ row.child = "pending"
    /\ releasing \in {"record", "recordRefused"} =>
          row.master = "pending" /\ row.child = "successful"
    /\ releasing = "recordRetry" => row.master = "failed" /\ row.child = "successful"

Minting(i) == at["mint"] = i

Burning(i) == at["burn"] = i

Mined(i) == at["burn"] = i /\ minedBurn = TRUE

Releasing(i) == IF at["release"] = i THEN pc["release"] ELSE "idle"

Clean(i) ==
    /\ \A c \in Client : draft[c][i] = NoRow
    /\ table[i] = NoRow => taken[i] = 0 /\ paid[i] = 0 /\ booked[i] = 0
    /\ table[i].kind \in Deposit =>
          CleanDeposit(table[i], taken[i], paid[i], booked[i], Minting(i))
    /\ table[i].kind \in Withdrawal =>
          CleanWithdrawal(table[i], taken[i], paid[i], booked[i], Burning(i), Mined(i),
                          Releasing(i))

CleanInv == Typed /\ \A i \in Id \ doubtful : Clean(i)

(* What a step may leave alone of a row.                                   *)
Untouched(i) ==
    /\ table'[i] = table[i]
    /\ taken'[i] = taken[i] /\ paid'[i] = paid[i] /\ booked'[i] = booked[i]
    /\ \A c \in Client : draft'[c][i] = draft[c][i] \/ draft'[c][i] = NoRow
    /\ Minting(i)' = Minting(i) /\ Burning(i)' = Burning(i)
    /\ Mined(i)' = Mined(i) /\ Releasing(i)' = Releasing(i)

(* The stage of a row without an accident, and how it may move.            *)
Stage(row, t, p) ==
    IF row = NoRow THEN "none"
    ELSE IF p > 0 THEN "paid"
    ELSE IF row.master = "illegaled" \/ row.child = "failed" THEN "refused"
    ELSE IF t > 0 THEN "taken" ELSE "requested"

MayMove(from, to) ==
    \/ from = to
    \/ from = "none" /\ to \in {"requested", "taken"}
    \/ from = "requested" /\ to \in {"taken", "refused"}
    \/ from = "taken" /\ to = "paid"

Moves(i) == MayMove(Stage(table[i], taken[i], paid[i]), Stage(table'[i], taken'[i], paid'[i]))

(* A step that is about one row,                                           *)
Advances(j) ==
    /\ \A i \in Id \ {j} : Untouched(i)
    /\ doubtful \subseteq doubtful'
    /\ \/ j \in doubtful' /\ table[j] \in Row
       \/ doubtful' = doubtful /\ (j \notin doubtful => Clean(j)' /\ Moves(j))

(* and one that is not.                                                    *)
Rests ==
    /\ \A i \in Id \ doubtful' : Untouched(i)
    /\ doubtful \subseteq doubtful' /\ \A i \in doubtful' : table[i] \in Row

LEMMA SeenClean ==
    ASSUME Typed, NEW i \in Id, Clean(i), NEW c \in Client
    PROVE  Seen(c)[i] = table[i]
  BY SeenFacts DEF Typed, Clean

LEMMA UntouchedIsClean ==
    ASSUME NEW i \in Id, Clean(i), Untouched(i)
    PROVE  Clean(i)'
<1>1. \A c \in Client : draft'[c][i] = NoRow
    BY DEF Clean, Untouched
<1>2. table'[i] = NoRow => taken'[i] = 0 /\ paid'[i] = 0 /\ booked'[i] = 0
    BY DEF Clean, Untouched
<1>3. table'[i].kind \in Deposit =>
          CleanDeposit(table'[i], taken'[i], paid'[i], booked'[i], Minting(i)')
    BY DEF Clean, Untouched
<1>4. table'[i].kind \in Withdrawal =>
          CleanWithdrawal(table'[i], taken'[i], paid'[i], booked'[i], Burning(i)', Mined(i)',
                          Releasing(i)')
    BY DEF Clean, Untouched
<1> QED
    BY <1>1, <1>2, <1>3, <1>4 DEF Clean

LEMMA StepsAreClean ==
    ASSUME CleanInv, Typed', Rests \/ \E j \in Id : Advances(j)
    PROVE  CleanInv'
<1> SUFFICES ASSUME NEW i \in Id, i \notin doubtful' PROVE Clean(i)'
    BY DEF CleanInv
<1>1. i \notin doubtful
    BY DEF Rests, Advances
<1>2. Clean(i)
    BY <1>1 DEF CleanInv
<1>3. CASE Untouched(i)
    BY <1>2, <1>3, UntouchedIsClean
<1>4. CASE Advances(i)
    BY <1>1, <1>4 DEF Advances
<1> QED
    BY <1>3, <1>4 DEF Rests, Advances

(* A loop that leaves a row, comes to it, or has nothing to do with it.    *)
LEMMA LoopsUntouched ==
    ASSUME NEW j \in Id, NEW i \in Id \ {j}, NEW l \in Loop,
           at[l] \in {0, j}, at'[l] \in {0, j},
           \A k \in Loop \ {l} : pc'[k] = pc[k] /\ at'[k] = at[k],
           l # "burn" => minedBurn' = minedBurn
    PROVE  /\ Minting(i)' = Minting(i) /\ Burning(i)' = Burning(i)
           /\ Mined(i)' = Mined(i) /\ Releasing(i)' = Releasing(i)
<1>1. i # 0 /\ i # j
    BY IdFacts
<1>2. CASE l = "mint"
    BY <1>1, <1>2, AllSteps DEF Minting, Burning, Mined, Releasing
<1>3. CASE l = "burn"
    BY <1>1, <1>3, AllSteps DEF Minting, Burning, Mined, Releasing
<1>4. CASE l = "release"
    BY <1>1, <1>4, AllSteps DEF Minting, Burning, Mined, Releasing
<1>5. CASE l = "decode"
    BY <1>1, <1>5, AllSteps DEF Minting, Burning, Mined, Releasing
<1> QED
    BY <1>2, <1>3, <1>4, <1>5, AllSteps

LEMMA LoopsStay ==
    ASSUME NEW i, UNCHANGED <<pc, at, minedBurn>>
    PROVE  /\ Minting(i)' = Minting(i) /\ Burning(i)' = Burning(i)
           /\ Mined(i)' = Mined(i) /\ Releasing(i)' = Releasing(i)
  BY DEF Minting, Burning, Mined, Releasing

LEMMA SameRow ==
    ASSUME NEW i \in Id, Untouched(i)
    PROVE  Moves(i) /\ (Clean(i) => Clean(i)')
<1>1. Moves(i)
    BY DEF Untouched, Moves, MayMove
<1> QED
    BY <1>1, UntouchedIsClean

(* A write to row j that advances it, unless it goes to a draft.           *)
LEMMA WriteAdvances ==
    ASSUME CleanInv, Typed', NEW c \in Client, NEW j \in Id, NEW row \in Row,
           row.kind = table[j].kind, Write(c, j, row), UNCHANGED <<taken, paid>>,
           \A i \in Id \ {j} : booked'[i] = booked[i],
           NEW l \in Loop, at[l] \in {0, j}, at'[l] \in {0, j},
           \A k \in Loop \ {l} : pc'[k] = pc[k] /\ at'[k] = at[k],
           minedBurn' = minedBurn,
           table'[j] = row /\ table[j] \in Row /\ Clean(j) =>
              /\ MayMove(Stage(table[j], taken[j], paid[j]), Stage(row, taken[j], paid[j]))
              /\ row.kind \in Deposit =>
                    CleanDeposit(row, taken[j], paid[j], booked'[j], Minting(j)')
              /\ row.kind \in Withdrawal =>
                    CleanWithdrawal(row, taken[j], paid[j], booked'[j], Burning(j)',
                                    Mined(j)', Releasing(j)')
    PROVE  Advances(j)
<1>1. /\ doubtful' = IF c \in open THEN doubtful \cup {j} ELSE doubtful
      /\ \A i \in Id : table'[i] = table[i] \/ i = j
      /\ \A d \in Client, i \in Id : draft'[d][i] = draft[d][i] \/ i = j
      /\ c \notin open => table'[j] = row
    BY WriteOK DEF CleanInv, Typed
<1>2. \A i \in Id \ {j} : Untouched(i)
  <2> SUFFICES ASSUME NEW i \in Id \ {j} PROVE Untouched(i)
      OBVIOUS
  <2>1. /\ Minting(i)' = Minting(i) /\ Burning(i)' = Burning(i)
        /\ Mined(i)' = Mined(i) /\ Releasing(i)' = Releasing(i)
      BY LoopsUntouched
  <2> QED
      BY <1>1, <2>1 DEF Untouched
<1>3. table[j] \in Row
    BY NoRowFacts DEF CleanInv, Typed, DataOK
<1>4. ASSUME c \notin open, j \notin doubtful PROVE Clean(j)' /\ Moves(j)
  <2>1. /\ table'[j] = row /\ Clean(j) /\ draft' = draft
        /\ taken'[j] = taken[j] /\ paid'[j] = paid[j]
      BY <1>1, <1>4 DEF CleanInv, Write
  <2>2. Moves(j)
      BY <1>3, <2>1 DEF Moves
  <2>3. /\ \A d \in Client : draft'[d][j] = NoRow
        /\ table'[j] # NoRow
      BY <2>1, NoRowFacts DEF Clean
  <2>4. /\ table'[j].kind \in Deposit =>
             CleanDeposit(table'[j], taken'[j], paid'[j], booked'[j], Minting(j)')
        /\ table'[j].kind \in Withdrawal =>
             CleanWithdrawal(table'[j], taken'[j], paid'[j], booked'[j], Burning(j)',
                             Mined(j)', Releasing(j)')
      BY <1>3, <2>1
  <2> QED
      BY <2>2, <2>3, <2>4 DEF Clean
<1> QED
    BY <1>1, <1>2, <1>3, <1>4 DEF Advances

(* A call for row j that advances it, unless its reply is lost.            *)
LEMMA CallAdvances ==
    ASSUME CleanInv, Typed', NEW j \in Id, table[j] \in Row,
           UNCHANGED <<table, draft, booked>>,
           \A i \in Id \ {j} : taken'[i] = taken[i] /\ paid'[i] = paid[i],
           NEW l \in Loop, at[l] \in {0, j}, at'[l] \in {0, j},
           \A k \in Loop \ {l} : pc'[k] = pc[k] /\ at'[k] = at[k],
           l # "burn" => minedBurn' = minedBurn,
           \/ doubtful' = doubtful \cup {j}
           \/ doubtful' = doubtful /\ Untouched(j)
           \/ doubtful' = doubtful /\ (Clean(j) => 
              /\ MayMove(Stage(table[j], taken[j], paid[j]), Stage(table[j], taken'[j], paid'[j]))
              /\ table[j].kind \in Deposit =>
                    CleanDeposit(table[j], taken'[j], paid'[j], booked[j], Minting(j)')
              /\ table[j].kind \in Withdrawal =>
                    CleanWithdrawal(table[j], taken'[j], paid'[j], booked[j], Burning(j)',
                                    Mined(j)', Releasing(j)'))
    PROVE  Advances(j)
<1>1. \A i \in Id \ {j} : Untouched(i)
  <2> SUFFICES ASSUME NEW i \in Id \ {j} PROVE Untouched(i)
      OBVIOUS
  <2>1. /\ Minting(i)' = Minting(i) /\ Burning(i)' = Burning(i)
        /\ Mined(i)' = Mined(i) /\ Releasing(i)' = Releasing(i)
      BY LoopsUntouched
  <2> QED
      BY <2>1 DEF Untouched
<1>2. CASE doubtful' = doubtful \cup {j}
    BY <1>1, <1>2 DEF Advances
<1>3. CASE doubtful' = doubtful /\ Untouched(j)
    BY <1>1, <1>3, SameRow DEF Advances, CleanInv
<1>4. CASE doubtful' = doubtful /\ (Clean(j) => 
              /\ MayMove(Stage(table[j], taken[j], paid[j]), Stage(table[j], taken'[j], paid'[j]))
              /\ table[j].kind \in Deposit =>
                    CleanDeposit(table[j], taken'[j], paid'[j], booked[j], Minting(j)')
              /\ table[j].kind \in Withdrawal =>
                    CleanWithdrawal(table[j], taken'[j], paid'[j], booked[j], Burning(j)',
                                    Mined(j)', Releasing(j)'))
  <2>1. ASSUME j \notin doubtful PROVE Clean(j)' /\ Moves(j)
    <3>1. Clean(j)
        BY <2>1 DEF CleanInv
    <3>2. /\ \A d \in Client : draft'[d][j] = NoRow
          /\ table'[j] = table[j] /\ table'[j] # NoRow /\ booked'[j] = booked[j]
        BY <3>1, NoRowFacts DEF Clean
    <3> QED
        BY <1>4, <3>1, <3>2 DEF Moves, Clean
  <2> QED
      BY <1>1, <1>4, <2>1 DEF Advances
<1> QED
    BY <1>2, <1>3, <1>4

LEMMA StageValues ==
    ASSUME NEW row \in Row, NEW t, NEW p \in Nat
    PROVE  /\ p > 0 => Stage(row, t, p) = "paid"
           /\ p = 0 /\ (row.master = "illegaled" \/ row.child = "failed") =>
                 Stage(row, t, p) = "refused"
           /\ p = 0 /\ ~ (row.master = "illegaled" \/ row.child = "failed") =>
                 Stage(row, t, p) = IF t > 0 THEN "taken" ELSE "requested"
<1>1. row # NoRow
    BY NoRowFacts
<1>2. p > 0 => Stage(row, t, p) = "paid"
    BY <1>1 DEF Stage
<1>3. p = 0 /\ (row.master = "illegaled" \/ row.child = "failed") =>
        Stage(row, t, p) = "refused"
    BY <1>1 DEF Stage
<1>4. p = 0 /\ ~ (row.master = "illegaled" \/ row.child = "failed") =>
        Stage(row, t, p) = IF t > 0 THEN "taken" ELSE "requested"
    BY <1>1 DEF Stage
<1> QED
    BY <1>2, <1>3, <1>4

LEMMA MintClean ==
    ASSUME CleanInv, NEW c \in Client, NEW i \in Id, Mint(c, i)
    PROVE  Advances(i)
<1>1. /\ Typed' /\ at["mint"] = 0 /\ Mintable(Seen(c)[i]) /\ table[i] \in Row
      /\ paid' = paid \/ paid' = Counted(paid, i)
    BY MintOK DEF CleanInv
<1>2. UNCHANGED <<table, draft, booked, taken, minedBurn>>
    BY DEF Mint, database
<1>3. /\ \A j \in Id \ {i} : taken'[j] = taken[j] /\ paid'[j] = paid[j]
      /\ paid \in [Id -> Nat]
    BY <1>1, <1>2, CountedGrows DEF CleanInv, Typed, CountsOK
<1>4. CASE UNCHANGED <<pc, at, paid>> /\ doubtful' = doubtful
  <2>1. Untouched(i)
      BY <1>2, <1>4, LoopsStay DEF Untouched
  <2> QED
      BY <1>1, <1>2, <1>3, <1>4, <2>1, CallAdvances, AllSteps
<1>5. CASE UNCHANGED <<pc, at>> /\ doubtful' = doubtful \cup {i}
    BY <1>1, <1>2, <1>3, <1>5, CallAdvances, AllSteps
<1>6. CASE Goto("mint", "record", i) /\ doubtful' = doubtful /\ paid' = Counted(paid, i)
  <2>1. /\ at'["mint"] = i /\ \A k \in Loop \ {"mint"} : pc'[k] = pc[k] /\ at'[k] = at[k]
      BY <1>6, GotoValues, AllSteps DEF CleanInv, Typed
  <2>2. ASSUME Clean(i)
        PROVE  /\ MayMove(Stage(table[i], taken[i], paid[i]),
                           Stage(table[i], taken'[i], paid'[i]))
               /\ table[i].kind \in Deposit /\ table[i].kind \notin Withdrawal
               /\ CleanDeposit(table[i], taken'[i], paid'[i], booked[i], Minting(i)')
    <3>1. Mintable(table[i])
        BY <1>1, <2>2, SeenClean DEF CleanInv
    <3>2. /\ table[i].kind \in Deposit /\ table[i].kind \notin Withdrawal
          /\ table[i].master = "successful" /\ table[i].child = "pending"
        BY <3>1, KindFacts DEF Mintable
    <3>3. CleanDeposit(table[i], taken[i], paid[i], booked[i], Minting(i))
        BY <2>2, <3>2 DEF Clean
    <3>4. Minting(i) = FALSE /\ Minting(i)' = TRUE
        BY <1>1, <2>1, IdFacts DEF Minting
    <3>5. taken[i] = 1 /\ paid[i] = 0 /\ booked[i] = 0 /\ table[i].kind \in Proper
        BY <3>2, <3>3, <3>4 DEF CleanDeposit
    <3>6. taken'[i] = 1 /\ paid'[i] = 1
        BY <1>2, <1>3, <1>6, <3>5, CountedType
    <3>7. CleanDeposit(table[i], taken'[i], paid'[i], booked[i], Minting(i)')
        BY <3>2, <3>4, <3>5, <3>6 DEF CleanDeposit
    <3>8. Stage(table[i], 1, 0) = "taken" /\ Stage(table[i], 1, 1) = "paid"
        BY <1>1, <3>2, StageValues
    <3> QED
        BY <3>2, <3>5, <3>6, <3>7, <3>8 DEF MayMove
  <2> QED
      BY <1>1, <1>2, <1>3, <1>6, <2>1, <2>2, CallAdvances, AllSteps
<1> QED
    BY <1>4, <1>5, <1>6 DEF Mint, Done, Refused, ReplyLost

LEMMA AskClean ==
    ASSUME CleanInv, NEW i \in Id, NEW kind \in Kind, Ask(i, kind)
    PROVE  Advances(i)
<1> DEFINE row == [kind |-> kind, decoded |-> kind \in Withdrawal, amount |-> 0,
                   master |-> "pending", child |-> "pending"]
<1>1. /\ table[i] = NoRow /\ i \notin doubtful /\ \A c \in Client : draft[c][i] = NoRow
      /\ \A l \in Loop : at[l] # i
      /\ \A j \in Id \ {i} : table'[j] = table[j] /\ taken'[j] = taken[j]
      /\ table'[i] = row
      /\ taken'[i] = IF kind \in Deposit THEN IF kind \in Proper THEN 1 ELSE 0
                     ELSE taken[i]
    BY AskOK DEF CleanInv
<1>2. UNCHANGED <<draft, pc, at, minedBurn, paid, booked, doubtful>>
    BY DEF Ask
<1>3. Typed'
    BY AskOK DEF CleanInv
<1>4. \A j \in Id \ {i} : Untouched(j)
    BY <1>1, <1>2, LoopsStay DEF Untouched
<1>5. Clean(i)
    BY <1>1 DEF CleanInv
<1>6. taken[i] = 0 /\ paid[i] = 0 /\ booked[i] = 0
    BY <1>1, <1>5 DEF Clean
<1>7. table'[i] \in Row /\ table'[i] # NoRow
    BY <1>1, <1>3, NoRowFacts DEF Typed, DataOK
<1>8. /\ Minting(i)' = FALSE /\ Burning(i)' = FALSE /\ Mined(i)' = FALSE
      /\ Releasing(i)' = "idle"
    BY <1>1, <1>2, AllSteps DEF Minting, Burning, Mined, Releasing
<1>9. /\ table'[i].kind = kind /\ table'[i].master = "pending"
      /\ table'[i].child = "pending"
    BY <1>1
<1>10. Moves(i)
  <2>1. Stage(table[i], taken[i], paid[i]) = "none"
      BY <1>1 DEF Stage
  <2>2. Stage(table'[i], taken'[i], paid'[i]) \in {"requested", "taken"}
      BY <1>2, <1>6, <1>7, <1>9, StageValues
  <2> QED
      BY <2>1, <2>2 DEF Moves, MayMove
<1>11. Clean(i)'
  <2>1. kind \in Deposit =>
          CleanDeposit(table'[i], taken'[i], paid'[i], booked'[i], Minting(i)')
      BY <1>1, <1>2, <1>6, <1>8, <1>9 DEF CleanDeposit
  <2>2. kind \in Withdrawal =>
          CleanWithdrawal(table'[i], taken'[i], paid'[i], booked'[i], Burning(i)', Mined(i)',
                          Releasing(i)')
    <3>1. kind \in Withdrawal => taken'[i] = 0
        BY <1>1, <1>6, KindFacts
    <3> QED
        BY <1>2, <1>6, <1>8, <1>9, <3>1 DEF CleanWithdrawal
  <2> QED
      BY <1>1, <1>2, <1>7, <1>9, <2>1, <2>2 DEF Clean
<1> QED
    BY <1>2, <1>4, <1>10, <1>11 DEF Advances

LEMMA DecodeClean ==
    ASSUME CleanInv, NEW c \in Client, NEW d \in Client, NEW i \in Id, Decode(c, d, i)
    PROVE  Advances(i)
<1> DEFINE row == Decoded(Seen(d)[i])
<1>1. /\ Typed' /\ Undecoded(Seen(c)[i])
      /\ Decodable(Tx[table[i].kind]) => Known(Tx[table[i].kind])
      /\ row \in Row /\ row.kind = table[i].kind
      /\ UNCHANGED <<pc, at, minedBurn, taken, paid, booked>>
    BY DecodeOK DEF CleanInv
<1>2. Write(d, i, row)
    BY DEF Decode
<1>3. ASSUME table[i] \in Row, Clean(i)
      PROVE  /\ MayMove(Stage(table[i], taken[i], paid[i]), Stage(row, taken[i], paid[i]))
             /\ row.kind \notin Withdrawal
             /\ CleanDeposit(row, taken[i], paid[i], booked'[i], Minting(i)')
  <2>1. Seen(c)[i] = table[i] /\ Seen(d)[i] = table[i]
      BY <1>3, SeenClean DEF CleanInv
  <2>2. Undecoded(table[i])
      BY <1>1, <2>1
  <2>3. /\ table[i].kind \in Deposit /\ table[i].kind \notin Withdrawal
        /\ table[i].master = "pending"
      BY <2>2, KindFacts DEF Undecoded
  <2>4. /\ row.child = "pending"
        /\ row.master = IF row.kind \in Proper THEN "successful" ELSE "illegaled"
      BY <1>1, <1>3, <2>1, <2>2, DecodedFacts
  <2>5. CleanDeposit(table[i], taken[i], paid[i], booked[i], Minting(i))
      BY <1>3, <2>3 DEF Clean
  <2>6. /\ table[i].child = "pending" /\ Minting(i) = FALSE
        /\ taken[i] = IF row.kind \in Proper THEN 1 ELSE 0
        /\ paid[i] = 0 /\ booked[i] = 0
      BY <1>1, <2>3, <2>5 DEF CleanDeposit, Minting
  <2>7. Minting(i)' = FALSE
      BY <1>1, <2>6 DEF Minting
  <2>8. CleanDeposit(row, taken[i], paid[i], booked'[i], Minting(i)')
      BY <1>1, <2>4, <2>6, <2>7 DEF CleanDeposit
  <2>9. Stage(table[i], taken[i], 0) = IF row.kind \in Proper THEN "taken" ELSE "requested"
      BY <1>3, <2>3, <2>6, StageValues
  <2>10. Stage(row, taken[i], 0) = IF row.kind \in Proper THEN "taken" ELSE "refused"
      BY <1>1, <2>4, <2>6, StageValues
  <2> QED
      BY <1>1, <2>3, <2>6, <2>8, <2>9, <2>10 DEF MayMove
<1> HIDE DEF row
<1>4. at["decode"] = 0 /\ "decode" \in Loop
    BY AllSteps DEF Decode, CleanInv, Typed, ControlOK
<1> QED
    BY <1>1, <1>2, <1>3, <1>4, WriteAdvances

LEMMA MintRecordedClean ==
    ASSUME CleanInv, NEW c \in Client, NEW i, i = at["mint"], MintRecorded(c)
    PROVE  Advances(i)
<1> DEFINE row == update_asset2coin_bridge(Seen(c)[i], "successful")
<1>1. /\ Typed' /\ row \in Row /\ row.kind = table[i].kind
      /\ i \in Id /\ at'["mint"] = 0
      /\ \A k \in Loop \ {"mint"} : pc'[k] = pc[k] /\ at'[k] = at[k]
    BY MintRecordedOK DEF CleanInv
<1>2. /\ Write(c, i, row) /\ UNCHANGED <<taken, paid, minedBurn>>
      /\ pc["mint"] = "record" /\ booked' = Counted(booked, i)
    BY DEF MintRecorded, chains
<1>3. table[i].kind \in Deposit /\ table[i].kind \notin Withdrawal
    BY <1>2, AtRow, AllSteps, KindFacts DEF CleanInv, Typed, KindOf
<1>4. booked \in [Id -> Nat] /\ \A j \in Id \ {i} : booked'[j] = booked[j]
    BY <1>1, <1>2, CountedType DEF CleanInv, Typed, CountsOK
<1>5. ASSUME table[i] \in Row, Clean(i)
      PROVE  /\ MayMove(Stage(table[i], taken[i], paid[i]), Stage(row, taken[i], paid[i]))
             /\ CleanDeposit(row, taken[i], paid[i], booked'[i], Minting(i)')
  <2>1. Seen(c)[i] = table[i]
      BY <1>1, <1>5, SeenClean DEF CleanInv
  <2>2. row.master = table[i].master /\ row.child = "successful"
      BY <1>5, <2>1, MintUpdate
  <2>3. CleanDeposit(table[i], taken[i], paid[i], booked[i], Minting(i))
      BY <1>3, <1>5 DEF Clean
  <2>4. Minting(i) = TRUE /\ Minting(i)' = FALSE
      BY <1>1, IdFacts DEF Minting
  <2>5. /\ table[i].master = "successful" /\ table[i].kind \in Proper
        /\ taken[i] = 1 /\ paid[i] = 1 /\ booked[i] = 0
      BY <2>3, <2>4 DEF CleanDeposit
  <2>6. booked'[i] = 1
      BY <1>1, <1>2, <1>4, <2>5, CountedType
  <2>7. CleanDeposit(row, taken[i], paid[i], booked'[i], Minting(i)')
      BY <1>1, <2>2, <2>4, <2>5, <2>6 DEF CleanDeposit
  <2>8. Stage(table[i], 1, 1) = "paid" /\ Stage(row, 1, 1) = "paid"
      BY <1>1, <1>5, StageValues
  <2> QED
      BY <2>5, <2>7, <2>8 DEF MayMove
<1>6. table[i] \in Row
    BY <1>2, AtRow, AllSteps DEF CleanInv, Typed
<1> HIDE DEF row
<1> QED
    BY <1>1, <1>2, <1>3, <1>4, <1>5, <1>6, WriteAdvances, AllSteps

LEMMA BurnClean ==
    ASSUME CleanInv, NEW c \in Client, NEW i \in Id, Burn(c, i)
    PROVE  Advances(i)
<1>1. /\ Typed' /\ at["burn"] = 0 /\ Burnable(Seen(c)[i]) /\ table[i] \in Row
      /\ taken' = taken \/ taken' = Counted(taken, i)
    BY BurnOK DEF CleanInv
<1>2. UNCHANGED <<table, draft, booked, paid>>
    BY DEF Burn, database
<1>3. /\ \A j \in Id \ {i} : taken'[j] = taken[j] /\ paid'[j] = paid[j]
      /\ taken \in [Id -> Nat]
    BY <1>1, <1>2, CountedGrows DEF CleanInv, Typed, CountsOK
<1>4. CASE UNCHANGED <<pc, at, taken, minedBurn>> /\ doubtful' = doubtful
  <2>1. Untouched(i)
      BY <1>2, <1>4, LoopsStay DEF Untouched
  <2> QED
      BY <1>1, <1>2, <1>3, <1>4, <2>1, CallAdvances, AllSteps
<1>5. CASE UNCHANGED <<pc, at>> /\ doubtful' = doubtful \cup {i}
    BY <1>1, <1>2, <1>3, <1>5, CallAdvances, AllSteps
<1>6. CASE /\ Goto("burn", "receipt", i) /\ doubtful' = doubtful
           /\ taken' = IF minedBurn' THEN Counted(taken, i) ELSE taken
  <2>1. /\ at'["burn"] = i /\ \A k \in Loop \ {"burn"} : pc'[k] = pc[k] /\ at'[k] = at[k]
      BY <1>6, GotoValues, AllSteps DEF CleanInv, Typed
  <2>2. ASSUME Clean(i)
        PROVE  /\ MayMove(Stage(table[i], taken[i], paid[i]),
                           Stage(table[i], taken'[i], paid'[i]))
               /\ table[i].kind \in Withdrawal /\ table[i].kind \notin Deposit
               /\ CleanWithdrawal(table[i], taken'[i], paid'[i], booked[i], Burning(i)',
                                  Mined(i)', Releasing(i)')
    <3>1. Burnable(table[i])
        BY <1>1, <2>2, SeenClean DEF CleanInv
    <3>2. /\ table[i].kind \in Withdrawal /\ table[i].kind \notin Deposit
          /\ table[i].master = "pending" /\ table[i].child = "pending"
        BY <3>1, KindFacts DEF Burnable
    <3>3. CleanWithdrawal(table[i], taken[i], paid[i], booked[i], Burning(i), Mined(i),
                          Releasing(i))
        BY <2>2, <3>2 DEF Clean
    <3>4. Mined(i) = FALSE /\ Burning(i)' = TRUE /\ Mined(i)' = (minedBurn' = TRUE)
        BY <1>1, <2>1, IdFacts DEF Mined, Burning
    <3>5. Releasing(i)' = Releasing(i)
        BY <2>1, AllSteps DEF Releasing
    <3>6. /\ taken[i] = 0 /\ paid[i] = 0 /\ booked[i] = 0
          /\ Releasing(i) \notin {"record", "recordRetry", "recordRefused"}
        BY <3>2, <3>3, <3>4 DEF CleanWithdrawal
    <3>7. taken'[i] = (IF Mined(i)' THEN 1 ELSE 0) /\ paid'[i] = 0
      <4>1. Counted(taken, i)[i] = 1
          BY <1>3, <3>6, CountedType
      <4>2. minedBurn' \in BOOLEAN
          BY <1>1 DEF Typed, CountsOK
      <4> QED
          BY <1>2, <1>6, <3>4, <3>6, <4>1, <4>2
    <3>8. CleanWithdrawal(table[i], taken'[i], paid'[i], booked[i], Burning(i)', Mined(i)',
                          Releasing(i)')
        BY <3>2, <3>4, <3>5, <3>6, <3>7 DEF CleanWithdrawal
    <3>9. /\ Stage(table[i], 0, 0) = "requested"
          /\ taken'[i] > 0 => Stage(table[i], taken'[i], 0) = "taken"
        BY <1>1, <3>2, StageValues
    <3>10. taken'[i] = 0 \/ taken'[i] > 0
        BY <3>7
    <3> QED
        BY <3>2, <3>6, <3>7, <3>8, <3>9, <3>10 DEF MayMove
  <2> QED
      BY <1>1, <1>2, <1>3, <1>6, <2>1, <2>2, CallAdvances, AllSteps
<1> QED
    BY <1>4, <1>5, <1>6 DEF Burn, Done, Refused, ReplyLost

LEMMA BurnRecordedClean ==
    ASSUME CleanInv, NEW c \in Client, NEW i, i = at["burn"], BurnRecorded(c)
    PROVE  Advances(i)
<1> DEFINE row == Burned(Seen(c)[i])
<1>1. /\ Typed' /\ row \in Row /\ row.kind = table[i].kind
      /\ i \in Id /\ at'["burn"] = 0
      /\ \A k \in Loop \ {"burn"} : pc'[k] = pc[k] /\ at'[k] = at[k]
    BY BurnRecordedOK DEF CleanInv
<1>2. /\ Write(c, i, row) /\ UNCHANGED <<taken, paid, minedBurn>>
      /\ pc["burn"] = "receipt" /\ BookBurn(i)
    BY DEF BurnRecorded, chains
<1>3. table[i].kind \in Withdrawal /\ table[i].kind \notin Deposit
    BY <1>2, AtRow, AllSteps, KindFacts DEF CleanInv, Typed, KindOf
<1>4. booked \in [Id -> Nat] /\ \A j \in Id \ {i} : booked'[j] = booked[j]
    BY <1>1, <1>2, CountedType DEF CleanInv, Typed, CountsOK, BookBurn
<1>5. ASSUME table[i] \in Row, Clean(i)
      PROVE  /\ MayMove(Stage(table[i], taken[i], paid[i]), Stage(row, taken[i], paid[i]))
             /\ CleanWithdrawal(row, taken[i], paid[i], booked'[i], Burning(i)', Mined(i)',
                                Releasing(i)')
  <2>1. Seen(c)[i] = table[i]
      BY <1>1, <1>5, SeenClean DEF CleanInv
  <2>2. CleanWithdrawal(table[i], taken[i], paid[i], booked[i], Burning(i), Mined(i),
                        Releasing(i))
      BY <1>3, <1>5 DEF Clean
  <2>3. /\ Burning(i) = TRUE /\ Mined(i) = (minedBurn = TRUE)
        /\ Burning(i)' = FALSE /\ Mined(i)' = FALSE /\ Releasing(i)' = Releasing(i)
      BY <1>1, IdFacts, AllSteps DEF Burning, Mined, Releasing
  <2>4. /\ table[i].master = "pending" /\ table[i].child = "pending"
        /\ Releasing(i) \notin {"record", "recordRetry", "recordRefused"}
        /\ paid[i] = 0 /\ booked[i] = 0
      BY <2>2, <2>3 DEF CleanWithdrawal
  <2>5. CASE minedBurn = TRUE
    <3>1. row.master = "pending" /\ row.child = "successful"
        BY <1>5, <2>1, <2>5, BurnedFacts
    <3>2. taken[i] = 1
        BY <2>2, <2>3, <2>5 DEF CleanWithdrawal
    <3>3. booked'[i] = 1
        BY <1>1, <1>2, <1>4, <2>4, <2>5, CountedType DEF BookBurn
    <3>4. CleanWithdrawal(row, taken[i], paid[i], booked'[i], Burning(i)', Mined(i)',
                          Releasing(i)')
        BY <2>3, <2>4, <3>1, <3>2, <3>3 DEF CleanWithdrawal
    <3>5. Stage(table[i], 1, 0) = "taken" /\ Stage(row, 1, 0) = "taken"
        BY <1>1, <1>5, <2>4, <3>1, StageValues
    <3> QED
        BY <2>4, <3>2, <3>4, <3>5 DEF MayMove
  <2>6. CASE minedBurn = FALSE
    <3>1. row.master = "failed" /\ row.child = "failed"
        BY <1>5, <2>1, <2>6, BurnedFacts
    <3>2. taken[i] = 0
        BY <2>2, <2>3, <2>4, <2>6 DEF CleanWithdrawal
    <3>3. booked'[i] = 0
        BY <1>2, <2>4, <2>6 DEF BookBurn
    <3>4. CleanWithdrawal(row, taken[i], paid[i], booked'[i], Burning(i)', Mined(i)',
                          Releasing(i)')
        BY <2>3, <2>4, <3>1, <3>2, <3>3 DEF CleanWithdrawal
    <3>5. Stage(table[i], 0, 0) = "requested" /\ Stage(row, 0, 0) = "refused"
        BY <1>1, <1>5, <2>4, <3>1, StageValues
    <3> QED
        BY <2>4, <3>2, <3>4, <3>5 DEF MayMove
  <2> QED
      BY <2>5, <2>6 DEF CleanInv, Typed, CountsOK
<1>6. table[i] \in Row
    BY <1>2, AtRow, AllSteps DEF CleanInv, Typed
<1> HIDE DEF row
<1> QED
    BY <1>1, <1>2, <1>3, <1>4, <1>5, <1>6, WriteAdvances, AllSteps

LEMMA RetryClean ==
    ASSUME CleanInv, NEW c \in Client, NEW d \in Client, NEW i \in Id, Retry(c, d, i)
    PROVE  Advances(i)
<1>1. /\ Typed' /\ at["release"] = 0 /\ Retriable(Seen(c)[i]) /\ table[i] \in Row
      /\ paid' = paid \/ paid' = Counted(paid, i)
    BY RetryOK DEF CleanInv
<1>2. UNCHANGED <<table, draft, booked, taken, minedBurn>>
    BY DEF Retry
<1>3. /\ \A j \in Id \ {i} : taken'[j] = taken[j] /\ paid'[j] = paid[j]
      /\ paid \in [Id -> Nat]
    BY <1>1, <1>2, CountedGrows DEF CleanInv, Typed, CountsOK
<1>4. CASE Goto("release", "pending", 0) /\ paid' = paid /\ doubtful' = doubtful
  <2>1. /\ at'["release"] = 0
        /\ \A k \in Loop \ {"release"} : pc'[k] = pc[k] /\ at'[k] = at[k]
      BY <1>4, GotoValues, AllSteps DEF CleanInv, Typed
  <2>2. Untouched(i)
      BY <1>1, <1>2, <1>4, <2>1, IdFacts, AllSteps
         DEF Untouched, Minting, Burning, Mined, Releasing
  <2> QED
      BY <1>1, <1>2, <1>3, <1>4, <2>1, <2>2, CallAdvances, AllSteps
<1>5. CASE Goto("release", "pending", 0) /\ doubtful' = doubtful \cup {i}
  <2>1. /\ at'["release"] = 0
        /\ \A k \in Loop \ {"release"} : pc'[k] = pc[k] /\ at'[k] = at[k]
      BY <1>5, GotoValues, AllSteps DEF CleanInv, Typed
  <2> QED
      BY <1>1, <1>2, <1>3, <1>5, <2>1, CallAdvances, AllSteps
<1>6. CASE /\ Goto("release", "recordRetry", i) /\ doubtful' = doubtful
           /\ paid' = Counted(paid, i)
  <2>1. /\ at'["release"] = i /\ pc'["release"] = "recordRetry"
        /\ \A k \in Loop \ {"release"} : pc'[k] = pc[k] /\ at'[k] = at[k]
      BY <1>6, GotoValues, AllSteps DEF CleanInv, Typed
  <2>2. ASSUME Clean(i)
        PROVE  /\ MayMove(Stage(table[i], taken[i], paid[i]),
                           Stage(table[i], taken'[i], paid'[i]))
               /\ table[i].kind \in Withdrawal /\ table[i].kind \notin Deposit
               /\ CleanWithdrawal(table[i], taken'[i], paid'[i], booked[i], Burning(i)',
                                  Mined(i)', Releasing(i)')
    <3>1. Retriable(table[i])
        BY <1>1, <2>2, SeenClean DEF CleanInv
    <3>2. /\ table[i].kind \in Withdrawal /\ table[i].kind \notin Deposit
          /\ table[i].master = "failed" /\ table[i].child = "successful"
        BY <3>1, KindFacts DEF Retriable
    <3>3. CleanWithdrawal(table[i], taken[i], paid[i], booked[i], Burning(i), Mined(i),
                          Releasing(i))
        BY <2>2, <3>2 DEF Clean
    <3>4. Releasing(i) = "idle" /\ Releasing(i)' = "recordRetry"
        BY <1>1, <2>1, IdFacts DEF Releasing
    <3>5. Mined(i)' = Mined(i) /\ Burning(i)' = Burning(i)
        BY <1>2, <2>1, AllSteps DEF Mined, Burning
    <3>6. /\ taken[i] = 1 /\ paid[i] = 0 /\ booked[i] = 1 /\ Burning(i) = FALSE
        BY <3>2, <3>3, <3>4 DEF CleanWithdrawal, Burning
    <3>7. taken'[i] = 1 /\ paid'[i] = 1
        BY <1>2, <1>3, <1>6, <3>6, CountedType
    <3>8. CleanWithdrawal(table[i], taken'[i], paid'[i], booked[i], Burning(i)', Mined(i)',
                          Releasing(i)')
        BY <3>2, <3>3, <3>4, <3>5, <3>6, <3>7 DEF CleanWithdrawal
    <3>9. Stage(table[i], 1, 0) = "taken" /\ Stage(table[i], 1, 1) = "paid"
        BY <1>1, <3>2, StageValues
    <3> QED
        BY <3>2, <3>6, <3>7, <3>8, <3>9 DEF MayMove
  <2> QED
      BY <1>1, <1>2, <1>3, <1>6, <2>1, <2>2, CallAdvances, AllSteps
<1> QED
    BY <1>4, <1>5, <1>6 DEF Retry, Done, Refused, ReplyLost

LEMMA RetryRecordedClean ==
    ASSUME CleanInv, NEW c \in Client, NEW i, i = at["release"], RetryRecorded(c)
    PROVE  Advances(i)
<1> DEFINE row == update_coin2asset_failed(Seen(c)[i], "successful")
<1>1. /\ Typed' /\ row \in Row /\ row.kind = table[i].kind
      /\ i \in Id /\ at'["release"] = 0
      /\ \A k \in Loop \ {"release"} : pc'[k] = pc[k] /\ at'[k] = at[k]
    BY RetryRecordedOK DEF CleanInv
<1>2. /\ Write(c, i, row) /\ UNCHANGED <<taken, paid, minedBurn, booked>>
      /\ pc["release"] = "recordRetry"
    BY DEF RetryRecorded, chains
<1>3. table[i].kind \in Withdrawal /\ table[i].kind \notin Deposit
    BY <1>2, AtRow, AllSteps, KindFacts DEF CleanInv, Typed, KindOf
<1>4. ASSUME table[i] \in Row, Clean(i)
      PROVE  /\ MayMove(Stage(table[i], taken[i], paid[i]), Stage(row, taken[i], paid[i]))
             /\ CleanWithdrawal(row, taken[i], paid[i], booked'[i], Burning(i)', Mined(i)',
                                Releasing(i)')
  <2>1. Seen(c)[i] = table[i]
      BY <1>1, <1>4, SeenClean DEF CleanInv
  <2>2. CleanWithdrawal(table[i], taken[i], paid[i], booked[i], Burning(i), Mined(i),
                        Releasing(i))
      BY <1>3, <1>4 DEF Clean
  <2>3. /\ Releasing(i) = "recordRetry" /\ Releasing(i)' = "idle"
        /\ Burning(i)' = Burning(i) /\ Mined(i)' = Mined(i)
      BY <1>1, <1>2, IdFacts, AllSteps DEF Burning, Mined, Releasing
  <2>4. /\ table[i].master = "failed" /\ table[i].child = "successful"
        /\ taken[i] = 1 /\ paid[i] = 1 /\ booked[i] = 1 /\ Burning(i) = FALSE
      BY <2>2, <2>3 DEF CleanWithdrawal, Burning
  <2>5. row.master = "successful" /\ row.child = "successful"
      BY <1>4, <2>1, <2>4, RetryUpdate
  <2>6. CleanWithdrawal(row, taken[i], paid[i], booked'[i], Burning(i)', Mined(i)',
                        Releasing(i)')
      BY <1>2, <2>2, <2>3, <2>4, <2>5 DEF CleanWithdrawal
  <2>7. Stage(table[i], 1, 1) = "paid" /\ Stage(row, 1, 1) = "paid"
      BY <1>1, <1>4, StageValues
  <2> QED
      BY <2>4, <2>6, <2>7 DEF MayMove
<1>5. table[i] \in Row
    BY <1>2, AtRow, AllSteps DEF CleanInv, Typed
<1> HIDE DEF row
<1> QED
    BY <1>1, <1>2, <1>3, <1>4, <1>5, WriteAdvances, AllSteps

LEMMA ReleaseClean ==
    ASSUME CleanInv, NEW c \in Client, NEW i \in Id, Release(c, i)
    PROVE  Advances(i)
<1>1. /\ Typed' /\ at["release"] = 0 /\ Releasable(Seen(c)[i]) /\ table[i] \in Row
      /\ paid' = paid \/ paid' = Counted(paid, i)
    BY ReleaseOK DEF CleanInv
<1>2. UNCHANGED <<table, draft, booked, taken, minedBurn>>
    BY DEF Release, database
<1>3. /\ \A j \in Id \ {i} : taken'[j] = taken[j] /\ paid'[j] = paid[j]
      /\ paid \in [Id -> Nat]
    BY <1>1, <1>2, CountedGrows DEF CleanInv, Typed, CountsOK
<1>4. PICK step : /\ Goto("release", step, i)
                  /\ \/ doubtful' = doubtful \cup {i}
                     \/ /\ doubtful' = doubtful
                        /\ \/ step = "recordRefused" /\ paid' = paid
                           \/ step = "record" /\ paid' = Counted(paid, i)
    BY DEF Release, Done, Refused, ReplyLost
<1>5. /\ at'["release"] = i /\ pc'["release"] = step
      /\ \A k \in Loop \ {"release"} : pc'[k] = pc[k] /\ at'[k] = at[k]
    BY <1>4, GotoValues, AllSteps DEF CleanInv, Typed
<1>6. CASE doubtful' = doubtful \cup {i}
    BY <1>1, <1>2, <1>3, <1>5, <1>6, CallAdvances, AllSteps
<1>7. CASE /\ doubtful' = doubtful
           /\ \/ step = "recordRefused" /\ paid' = paid
              \/ step = "record" /\ paid' = Counted(paid, i)
  <2>1. ASSUME Clean(i)
        PROVE  /\ MayMove(Stage(table[i], taken[i], paid[i]),
                           Stage(table[i], taken'[i], paid'[i]))
               /\ table[i].kind \in Withdrawal /\ table[i].kind \notin Deposit
               /\ CleanWithdrawal(table[i], taken'[i], paid'[i], booked[i], Burning(i)',
                                  Mined(i)', Releasing(i)')
    <3>1. Releasable(table[i])
        BY <1>1, <2>1, SeenClean DEF CleanInv
    <3>2. /\ table[i].kind \in Withdrawal /\ table[i].kind \notin Deposit
          /\ table[i].master = "pending" /\ table[i].child = "successful"
        BY <3>1, KindFacts DEF Releasable
    <3>3. CleanWithdrawal(table[i], taken[i], paid[i], booked[i], Burning(i), Mined(i),
                          Releasing(i))
        BY <2>1, <3>2 DEF Clean
    <3>4. Releasing(i) = "idle" /\ Releasing(i)' = step
        BY <1>1, <1>5, IdFacts DEF Releasing
    <3>5. Mined(i)' = Mined(i) /\ Burning(i)' = Burning(i)
        BY <1>2, <1>5, AllSteps DEF Mined, Burning
    <3>6. /\ taken[i] = 1 /\ paid[i] = 0 /\ booked[i] = 1 /\ Burning(i) = FALSE
        BY <3>2, <3>3, <3>4 DEF CleanWithdrawal, Burning
    <3>7. /\ taken'[i] = 1
          /\ step = "record" => paid'[i] = 1
          /\ step = "recordRefused" => paid'[i] = 0
        BY <1>2, <1>3, <1>7, <3>6, CountedType
    <3>8. CleanWithdrawal(table[i], taken'[i], paid'[i], booked[i], Burning(i)', Mined(i)',
                          Releasing(i)')
        BY <1>7, <3>2, <3>3, <3>4, <3>5, <3>6, <3>7 DEF CleanWithdrawal
    <3>9. Stage(table[i], 1, 0) = "taken" /\ Stage(table[i], 1, 1) = "paid"
        BY <1>1, <3>2, StageValues
    <3> QED
        BY <1>7, <3>2, <3>6, <3>7, <3>8, <3>9 DEF MayMove
  <2> QED
      BY <1>1, <1>2, <1>3, <1>5, <1>7, <2>1, CallAdvances, AllSteps
<1> QED
    BY <1>4, <1>6, <1>7

LEMMA ReleaseRecordedClean ==
    ASSUME CleanInv, NEW c \in Client, NEW i, i = at["release"], ReleaseRecorded(c)
    PROVE  Advances(i)
<1> DEFINE row == update_coin2asset_bridge(Seen(c)[i], ReleasedAs, "successful")
<1>1. /\ Typed' /\ row \in Row /\ row.kind = table[i].kind /\ Write(c, i, row)
      /\ i \in Id /\ at'["release"] = 0
      /\ \A k \in Loop \ {"release"} : pc'[k] = pc[k] /\ at'[k] = at[k]
    BY ReleaseRecordedOK DEF CleanInv
<1>2. /\ UNCHANGED <<taken, paid, minedBurn, booked>>
      /\ pc["release"] \in {"record", "recordRefused"}
    BY DEF ReleaseRecorded, chains
<1>3. table[i].kind \in Withdrawal /\ table[i].kind \notin Deposit
    BY <1>2, AtRow, AllSteps, KindFacts DEF CleanInv, Typed, KindOf
<1>4. ASSUME table[i] \in Row, Clean(i)
      PROVE  /\ MayMove(Stage(table[i], taken[i], paid[i]), Stage(row, taken[i], paid[i]))
             /\ CleanWithdrawal(row, taken[i], paid[i], booked'[i], Burning(i)', Mined(i)',
                                Releasing(i)')
  <2>1. Seen(c)[i] = table[i]
      BY <1>1, <1>4, SeenClean DEF CleanInv
  <2>2. CleanWithdrawal(table[i], taken[i], paid[i], booked[i], Burning(i), Mined(i),
                        Releasing(i))
      BY <1>3, <1>4 DEF Clean
  <2>3. /\ Releasing(i) = pc["release"] /\ Releasing(i)' = "idle"
        /\ Burning(i)' = Burning(i) /\ Mined(i)' = Mined(i)
      BY <1>1, <1>2, IdFacts, AllSteps DEF Burning, Mined, Releasing
  <2>4. /\ table[i].master = "pending" /\ table[i].child = "successful"
        /\ taken[i] = 1 /\ booked[i] = 1 /\ Burning(i) = FALSE
        /\ paid[i] = IF pc["release"] = "record" THEN 1 ELSE 0
      BY <1>2, <2>2, <2>3 DEF CleanWithdrawal, Burning
  <2>5. row.master = ReleasedAs /\ row.child = "successful"
    <3>1. ReleasedAs \in Status /\ "successful" \in Status
        BY DEF ReleasedAs, Status
    <3> QED
        BY <1>4, <2>1, <3>1, WithdrawalUpdate
  <2>6. CleanWithdrawal(row, taken[i], paid[i], booked'[i], Burning(i)', Mined(i)',
                        Releasing(i)')
      BY <1>2, <2>2, <2>3, <2>4, <2>5 DEF CleanWithdrawal, ReleasedAs
  <2>7. /\ Stage(table[i], 1, 1) = "paid" /\ Stage(row, 1, 1) = "paid"
        /\ Stage(table[i], 1, 0) = "taken"
        /\ row.master = "failed" => Stage(row, 1, 0) = "taken"
      BY <1>1, <1>4, <2>4, <2>5, StageValues
  <2> QED
      BY <1>2, <2>4, <2>5, <2>6, <2>7 DEF MayMove, ReleasedAs
<1>5. table[i] \in Row
    BY <1>2, AtRow, AllSteps DEF CleanInv, Typed
<1> HIDE DEF row
<1> QED
    BY <1>1, <1>2, <1>3, <1>4, <1>5, WriteAdvances, AllSteps

LEMMA CommitClean ==
    ASSUME CleanInv, NEW d \in Client, Commit(d)
    PROVE  Rests
<1>1. /\ \A i \in Id : table'[i] = Seen(d)[i]
      /\ \A c \in Client, i \in Id : draft'[c][i] \in {draft[c][i], NoRow}
      /\ at'["release"] = 0
      /\ \A k \in Loop \ {"release"} : pc'[k] = pc[k] /\ at'[k] = at[k]
    BY CommitOK DEF CleanInv
<1>2. /\ UNCHANGED <<taken, paid, booked, minedBurn, doubtful>>
      /\ at["release"] = 0
    BY AllSteps DEF Commit, chains, CleanInv, Typed, ControlOK
<1>3. ASSUME NEW i \in Id \ doubtful PROVE Untouched(i)
  <2>1. table'[i] = table[i]
      BY <1>1, SeenClean DEF CleanInv
  <2> QED
      BY <1>1, <1>2, <2>1, IdFacts, AllSteps
         DEF Untouched, Minting, Burning, Mined, Releasing
<1>4. \A i \in doubtful : table[i] \in Row
    BY DEF CleanInv, Typed, DoubtOK
<1> QED
    BY <1>2, <1>3, <1>4 DEF Rests

(* A loop leaves its row, if it was at one, in doubt.                      *)
LEMMA LeavesInDoubt ==
    ASSUME CleanInv, NEW l \in Loop, NEW step, Goto(l, step, 0),
           UNCHANGED <<taken, paid, minedBurn>>,
           UNCHANGED <<table, draft>> \/ \E D : Forget(D),
           doubtful' = doubtful \cup ({at[l]} \ {0}),
           \A i \in Id \ {at[l]} : booked'[i] = booked[i]
    PROVE  Rests
<1>1. /\ pc'[l] = step /\ at'[l] = 0
      /\ \A k \in Loop \ {l} : pc'[k] = pc[k] /\ at'[k] = at[k]
    BY GotoValues DEF CleanInv, Typed
<1>2. /\ table' = table
      /\ \A c \in Client, i \in Id : draft'[c][i] \in {draft[c][i], NoRow}
    BY ForgetOK DEF CleanInv, Typed
<1>3. ASSUME NEW i \in Id, i \notin doubtful' PROVE Untouched(i)
  <2>1. at[l] # i /\ at'[l] # i
      BY <1>1, <1>3, IdFacts
  <2>2. /\ Minting(i)' = Minting(i) /\ Burning(i)' = Burning(i)
        /\ Mined(i)' = Mined(i) /\ Releasing(i)' = Releasing(i)
    <3>1. \A k \in Loop : (at'[k] = i) = (at[k] = i) /\ (at[k] = i => pc'[k] = pc[k])
        BY <1>1, <2>1
    <3> QED
        BY <3>1, AllSteps DEF Minting, Burning, Mined, Releasing
  <2> QED
      BY <1>2, <2>1, <2>2 DEF Untouched
<1>4. \A i \in doubtful' : table[i] \in Row
  <2>1. at[l] # 0 => table[at[l]] \in Row
      BY AtRow DEF CleanInv, Typed, ControlOK
  <2> QED
      BY <2>1 DEF CleanInv, Typed, DoubtOK
<1> QED
    BY <1>3, <1>4 DEF Rests

LEMMA RestartClean == CleanInv /\ Restart => Rests
<1> SUFFICES ASSUME CleanInv, Restart PROVE Rests
    OBVIOUS
<1>1. /\ doubtful' = doubtful \cup {i \in Id : \E l \in Loop : at[l] = i}
      /\ \A l \in Loop : at'[l] = 0
      /\ UNCHANGED <<taken, paid, booked, minedBurn>>
    BY DEF Restart, chains
<1>2. /\ table' = table
      /\ \A c \in Client, i \in Id : draft'[c][i] \in {draft[c][i], NoRow}
    BY ForgetOK DEF Restart, CleanInv, Typed
<1>3. ASSUME NEW i \in Id, i \notin doubtful' PROVE Untouched(i)
  <2>1. \A l \in Loop : at[l] # i /\ at'[l] # i
      BY <1>1, <1>3, IdFacts
  <2> QED
      BY <1>1, <1>2, <2>1, AllSteps DEF Untouched, Minting, Burning, Mined, Releasing
<1>4. \A i \in doubtful' : table[i] \in Row
  <2>1. \A l \in Loop : at[l] # 0 => table[at[l]] \in Row
      BY AtRow DEF CleanInv, Typed, ControlOK
  <2> QED
      BY <1>1, <2>1, IdFacts DEF CleanInv, Typed, DoubtOK
<1> QED
    BY <1>1, <1>3, <1>4 DEF Rests

LEMMA RestingAtNone ==
    ASSUME CleanInv, NEW l \in Loop, pc[l] \in Resting
    PROVE  doubtful = doubtful \cup ({at[l]} \ {0})
<1>1. at[l] = 0
    BY DEF CleanInv, Typed, ControlOK
<1> QED
    BY <1>1

LEMMA BusyAtRow ==
    ASSUME CleanInv, NEW l \in Loop, pc[l] \notin Resting
    PROVE  at[l] \in Id /\ {at[l]} = {at[l]} \ {0}
<1>1. at[l] \in Id /\ at[l] # 0
    BY AtRow DEF CleanInv, Typed
<1> QED
    BY <1>1

LEMMA EveryStep == CleanInv /\ [Next]_vars => Rests \/ \E j \in Id : Advances(j)
<1> SUFFICES ASSUME CleanInv, [Next]_vars PROVE Rests \/ \E j \in Id : Advances(j)
    OBVIOUS
<1>1. CASE \E i \in Id, kind \in Kind : Ask(i, kind)
    BY <1>1, AskClean
<1>2. CASE \E c \in Client, i \in Id : DecodeThrows(c, i)
  <2>1. doubtful' = doubtful \cup ({at["decode"]} \ {0})
      BY <1>2, RestingAtNone, AllSteps DEF DecodeThrows
  <2> QED
      BY <1>2, <2>1, LeavesInDoubt, AllSteps DEF DecodeThrows, database, chains
<1>3. CASE \E c, d \in Client, i \in Id : Decode(c, d, i)
    BY <1>3, DecodeClean
<1>4. CASE \E c \in Client, i \in Id : Mint(c, i)
    BY <1>4, MintClean
<1>5. CASE \E c \in Client : MintRecorded(c)
    BY <1>5, MintRecordedClean, BusyAtRow, AllSteps DEF MintRecorded
<1>6. CASE \E c \in Client, i \in Id : Burn(c, i)
    BY <1>6, BurnClean
<1>7. CASE \E c \in Client : BurnRecorded(c)
    BY <1>7, BurnRecordedClean, BusyAtRow, AllSteps DEF BurnRecorded
<1>8. CASE \E c, d \in Client, i \in Id : Retry(c, d, i)
    BY <1>8, RetryClean
<1>9. CASE \E c \in Client : RetryRecorded(c)
    BY <1>9, RetryRecordedClean, BusyAtRow, AllSteps DEF RetryRecorded
<1>10. CASE \E c \in Client : NothingToRetry(c)
  <2>1. doubtful' = doubtful \cup ({at["release"]} \ {0})
      BY <1>10, RestingAtNone, AllSteps DEF NothingToRetry
  <2> QED
      BY <1>10, <2>1, LeavesInDoubt, AllSteps DEF NothingToRetry, database, chains
<1>11. CASE \E c \in Client : NothingToRelease(c)
  <2>1. doubtful' = doubtful \cup ({at["release"]} \ {0})
      BY <1>11, RestingAtNone, AllSteps DEF NothingToRelease
  <2> QED
      BY <1>11, <2>1, LeavesInDoubt, AllSteps DEF NothingToRelease, database, chains
<1>12. CASE \E c \in Client, i \in Id : Release(c, i)
    BY <1>12, ReleaseClean
<1>13. CASE \E c \in Client : ReleaseRecorded(c)
    BY <1>13, ReleaseRecordedClean, BusyAtRow, AllSteps DEF ReleaseRecorded
<1>14. CASE \E c \in Client : Commit(c)
    BY <1>14, CommitClean
<1>15. CASE NoReceipt
  <2>1. doubtful' = doubtful \cup ({at["burn"]} \ {0})
      BY <1>15, BusyAtRow, AllSteps DEF NoReceipt
  <2> QED
      BY <1>15, <2>1, LeavesInDoubt, AllSteps DEF NoReceipt, database, chains
<1>16. CASE Restart
    BY <1>16, RestartClean
<1>17. CASE \E l \in Loop : LoopDies(l)
  <2>1. PICK l \in Loop : LoopDies(l)
      BY <1>17
  <2>2. doubtful' = doubtful \cup ({at[l]} \ {0})
      BY <2>1, RestingAtNone, AllSteps DEF LoopDies
  <2> QED
      BY <2>1, <2>2, LeavesInDoubt DEF LoopDies, database, chains
<1>18. CASE \E c \in Client : MintNotRecorded(c)
  <2>1. doubtful' = doubtful \cup ({at["mint"]} \ {0})
      BY <1>18, BusyAtRow, AllSteps DEF MintNotRecorded
  <2> QED
      BY <1>18, <2>1, LeavesInDoubt, AllSteps DEF MintNotRecorded, chains
<1>19. CASE \E c \in Client : BurnNotRecorded(c)
  <2>1. at["burn"] \in Id /\ doubtful' = doubtful \cup ({at["burn"]} \ {0})
      BY <1>19, BusyAtRow, AllSteps DEF BurnNotRecorded
  <2>2. \A i \in Id \ {at["burn"]} : booked'[i] = booked[i]
      BY <1>19, <2>1, CountedType DEF BurnNotRecorded, BookBurn, CleanInv, Typed, CountsOK
  <2> QED
      BY <1>19, <2>1, <2>2, LeavesInDoubt, AllSteps DEF BurnNotRecorded, chains
<1>20. CASE \E c \in Client : ClientClosed(c)
  <2>1. /\ UNCHANGED <<table, taken, paid, booked, doubtful>>
        /\ UNCHANGED <<pc, at, minedBurn>>
        /\ \A c \in Client, i \in Id : draft'[c][i] \in {draft[c][i], NoRow}
      BY <1>20, ForgetOK DEF ClientClosed, chains, CleanInv, Typed
  <2> QED
      BY <2>1, LoopsStay DEF Rests, Untouched, CleanInv, Typed, DoubtOK
<1>21. CASE \E c, d \in Client : ReleaseNotRecorded(c, d)
  <2>1. doubtful' = doubtful \cup ({at["release"]} \ {0})
      BY <1>21, BusyAtRow, AllSteps DEF ReleaseNotRecorded
  <2> QED
      BY <1>21, <2>1, LeavesInDoubt, AllSteps DEF ReleaseNotRecorded, chains
<1>22. CASE UNCHANGED vars
    BY <1>22, LoopsStay DEF vars, Rests, Untouched, CleanInv, Typed, DoubtOK
<1> QED
    BY <1>1, <1>2, <1>3, <1>4, <1>5, <1>6, <1>7, <1>8, <1>9, <1>10, <1>11, <1>12, <1>13,
       <1>14, <1>15, <1>16, <1>17, <1>18, <1>19, <1>20, <1>21, <1>22, Actions, Zenon

LEMMA CleanInit == Init => CleanInv
<1> SUFFICES ASSUME Init PROVE CleanInv
    OBVIOUS
<1>1. Typed
    BY TypedInit
<1>2. ASSUME NEW i \in Id PROVE Clean(i)
    BY NoRowFacts, KindFacts DEF Init, Clean
<1> QED
    BY <1>1, <1>2 DEF CleanInv

LEMMA CleanNext == CleanInv /\ [Next]_vars => CleanInv'
  BY TypedNext, EveryStep, StepsAreClean DEF CleanInv

LEMMA CleanAlways == Spec => []CleanInv
  BY CleanInit, CleanNext, PTL DEF Spec

(* What a row can be.                                                      *)
LEMMA CleanCounts ==
    ASSUME CleanInv, NEW i \in Id \ doubtful
    PROVE  /\ taken[i] \in {0, 1} /\ paid[i] \in {0, 1}
           /\ table[i].kind \in Withdrawal =>
                 booked[i] = taken[i] \/ (booked[i] + 1 = taken[i] /\ at["burn"] = i)
           /\ table[i].kind \notin Withdrawal =>
                 booked[i] = paid[i] \/ (booked[i] + 1 = paid[i] /\ at["mint"] = i)
<1>1. Clean(i)
    BY DEF CleanInv
<1>2. CASE table[i].kind \in Deposit
  <2>1. CleanDeposit(table[i], taken[i], paid[i], booked[i], Minting(i))
      BY <1>1, <1>2 DEF Clean
  <2> QED
      BY <1>2, <2>1, KindFacts DEF CleanDeposit, Minting
<1>3. CASE table[i].kind \in Withdrawal
  <2>1. CleanWithdrawal(table[i], taken[i], paid[i], booked[i], Burning(i), Mined(i),
                        Releasing(i))
      BY <1>1, <1>3 DEF Clean
  <2> QED
      BY <1>3, <2>1 DEF CleanWithdrawal, Burning, Mined
<1>4. CASE table[i] = NoRow
    BY <1>1, <1>4, NoRowFacts, KindFacts DEF Clean
<1> QED
    BY <1>2, <1>3, <1>4, KindFacts, NoRowFacts DEF CleanInv, Typed, DataOK

(* A row that met no accident is taken once and paid once, although every  *)
(* loop calls a chain first and records it afterwards.                     *)
THEOREM PaidNoMoreThanOnce == Spec => []PaidOnce
<1>1. CleanInv => PaidOnce
    BY CleanCounts DEF PaidOnce
<1> QED
    BY <1>1, CleanAlways, PTL

(* The local book follows the chains for every such row.                   *)
THEOREM BooksFollow == Spec => []BooksFollowChains
<1>1. CleanInv => BooksFollowChains
    BY CleanCounts, AllSteps DEF BooksFollowChains
<1> QED
    BY <1>1, CleanAlways, PTL

----------------------------------------------------------------------------
(* The bridge keeps the promises of TransferLedger.                        *)

LEMMA StageIs ==
    ASSUME NEW i
    PROVE  /\ i \notin doubtful => StageOf(i) = Stage(table[i], taken[i], paid[i])
           /\ i \notin doubtful' => StageOf(i)' = Stage(table'[i], taken'[i], paid'[i])
           /\ i \in doubtful /\ table[i] # NoRow => StageOf(i) = "doubtful"
           /\ i \in doubtful' /\ table'[i] # NoRow => StageOf(i)' = "doubtful"
<1>1. i \notin doubtful => StageOf(i) = Stage(table[i], taken[i], paid[i])
    BY DEF StageOf, Stage
<1>2. i \notin doubtful' => StageOf(i)' = Stage(table'[i], taken'[i], paid'[i])
    BY DEF StageOf, Stage
<1>3. /\ i \in doubtful /\ table[i] # NoRow => StageOf(i) = "doubtful"
      /\ i \in doubtful' /\ table'[i] # NoRow => StageOf(i)' = "doubtful"
    BY DEF StageOf
<1> QED
    BY <1>1, <1>2, <1>3

Stages == [i \in Id |-> StageOf(i)]

LEMMA LedgerStep ==
    ASSUME CleanInv, CleanInv', Rests \/ \E j \in Id : Advances(j)
    PROVE  [Ledger!Next]_Stages
<1>1. \A i \in Id : /\ i \in doubtful => StageOf(i) = "doubtful"
                    /\ i \in doubtful' => StageOf(i)' = "doubtful"
    BY StageIs, NoRowFacts DEF CleanInv, Typed, DoubtOK
<1>2. doubtful \subseteq doubtful'
    BY DEF Rests, Advances
<1>3. ASSUME NEW i \in Id, Untouched(i), i \notin doubtful'
      PROVE  StageOf(i)' = StageOf(i)
    BY <1>2, <1>3, StageIs DEF Untouched
<1>4. \A i \in Id : table[i] \in Row => StageOf(i) # "none"
    BY NoRowFacts DEF StageOf
<1>5. ASSUME \A i \in Id \ doubtful' : Untouched(i),
             \A i \in doubtful' \ doubtful : table[i] \in Row
      PROVE  Ledger!Next
  <2>1. doubtful' \subseteq Id
      BY DEF CleanInv, Typed, DoubtOK
  <2>2. \A i \in doubtful' : Stages[i] # "none"
      BY <1>1, <1>4, <1>5, <2>1 DEF Stages
  <2>3. Stages' = [i \in Id |-> IF i \in doubtful' THEN "doubtful" ELSE Stages[i]]
      BY <1>1, <1>3, <1>5 DEF Stages
  <2>4. Ledger!Doubt(doubtful')
      BY <2>2, <2>3 DEF Ledger!Doubt, Stages
  <2> QED
      BY <2>1, <2>4 DEF Ledger!Next
<1>6. CASE Rests
    BY <1>5, <1>6 DEF Rests
<1>7. ASSUME NEW j \in Id, Advances(j) PROVE [Ledger!Next]_Stages
  <2>1. \A i \in Id \ {j} : Untouched(i)
      BY <1>7 DEF Advances
  <2>2. CASE j \in doubtful' /\ table[j] \in Row
    <3>1. \A i \in Id \ doubtful' : Untouched(i)
        BY <2>1, <2>2
    <3>2. \A i \in doubtful' \ doubtful : table[i] \in Row
        BY <2>1, <2>2 DEF CleanInv, Typed, DoubtOK, Untouched
    <3> QED
        BY <1>5, <3>1, <3>2
  <2>3. CASE doubtful' = doubtful /\ j \in doubtful
    <3>1. \A i \in Id : StageOf(i)' = StageOf(i)
        BY <1>1, <1>3, <2>1, <2>3
    <3> QED
        BY <3>1 DEF Stages
  <2>4. CASE doubtful' = doubtful /\ j \notin doubtful
    <3>1. MayMove(StageOf(j), StageOf(j)')
        BY <1>7, <2>4, StageIs DEF Advances, Moves
    <3>2. \A i \in Id \ {j} : StageOf(i)' = StageOf(i)
        BY <1>1, <1>3, <2>1, <2>4
    <3>3. Stages' = [Stages EXCEPT ![j] = StageOf(j)']
        BY <3>2 DEF Stages
    <3>4. Stages[j] = StageOf(j)
        BY DEF Stages
    <3>5. CASE StageOf(j) = StageOf(j)'
        BY <3>3, <3>4, <3>5 DEF Stages
    <3>6. CASE StageOf(j) = "none" /\ StageOf(j)' \in {"requested", "taken"}
      <4>1. Ledger!Request(j)
          BY <3>3, <3>4, <3>6 DEF Ledger!Request, Ledger!Move, Stages
      <4> QED
          BY <4>1 DEF Ledger!Next
    <3>7. CASE StageOf(j) = "requested" /\ StageOf(j)' \in {"taken", "refused"}
      <4>1. Ledger!Take(j) \/ Ledger!Refuse(j)
          BY <3>3, <3>4, <3>7 DEF Ledger!Take, Ledger!Refuse, Ledger!Move, Stages
      <4> QED
          BY <4>1 DEF Ledger!Next
    <3>8. CASE StageOf(j) = "taken" /\ StageOf(j)' = "paid"
      <4>1. Ledger!Pay(j)
          BY <3>3, <3>4, <3>8 DEF Ledger!Pay, Ledger!Move, Stages
      <4> QED
          BY <4>1 DEF Ledger!Next
    <3> QED
        BY <3>1, <3>5, <3>6, <3>7, <3>8 DEF MayMove
  <2> QED
      BY <1>7, <2>2, <2>3, <2>4 DEF Advances
<1> QED
    BY <1>6, <1>7

(* For every request, whatever goes wrong for others: what the bridge took *)
(* it pays, what it refused it did not take, and what is paid or refused   *)
(* is over.                                                                *)
THEOREM PromisesKept == Spec => KeepsPromises
<1>1. Init => Ledger!Init
  <2> SUFFICES ASSUME Init PROVE Ledger!Init
      OBVIOUS
  <2>1. \A i \in Id : StageOf(i) = "none"
      BY DEF Init, StageOf
  <2> QED
      BY <2>1 DEF Ledger!Init
<1>2. CleanInv /\ CleanInv' /\ [Next]_vars => [Ledger!Next]_Stages
    BY EveryStep, LedgerStep
<1>3. Spec => Ledger!Init /\ [][Ledger!Next]_Stages
    BY <1>1, <1>2, CleanAlways, PTL DEF Spec
<1> QED
    BY <1>3, PTL DEF KeepsPromises, Ledger!Spec, Stages

=============================================================================
