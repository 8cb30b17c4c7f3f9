--------------------------- MODULE ExchangeProofs ---------------------------
(***************************************************************************)
(* Theorems about module Exchange, for any orders, trades, growth of debts *)
(* and number of failures.  Inv is what a step says of single rows and of  *)
(* the book; Sound adds what the rows of orders, their trades, the book in *)
(* redis and the account say of each other.                                *)
(***************************************************************************)
EXTENDS Exchange, SumTheorems, TLAPS

----------------------------------------------------------------------------
(* The book.                                                               *)

Since == {0} \cup Epoch .. Epoch + MaxHours

BookOK(b) ==
    /\ \E f : b \in [balance : Nat, borrow : Int, debt : Int, since : Since,
                     freeze : {f}, broken : BOOLEAN]
    /\ b.balance > 0 => b.borrow = 0 /\ b.debt = 0
    /\ b.broken => b.balance = 0

Hours(b) == (IF b.since = 0 THEN Epoch ELSE b.since) .. Epoch + MaxHours

LEMMA DivFacts ==
    ASSUME NEW a \in Int, NEW b \in Nat \ {0}
    PROVE  /\ a \div b \in Int
           /\ a >= 0 => a \div b >= 0
           /\ \A c \in Int : c * b <= a => c <= a \div b
           /\ \A c \in Int : c * b = a => c = a \div b
<1>1. a \div b \in Int
    OBVIOUS
<1>2. ASSUME a >= 0 PROVE a \div b >= 0
    BY <1>2
<1>3. ASSUME NEW c \in Int, c * b <= a PROVE c <= a \div b
    BY <1>3
<1>4. ASSUME NEW c \in Int, c * b = a PROVE c = a \div b
    BY <1>4
<1> QED
    BY <1>1, <1>2, <1>3, <1>4

LEMMA GrowthFacts ==
    ASSUME NEW b, BookOK(b), NEW now \in Hours(b)
    PROVE  /\ now \in Since /\ now # 0
           /\ Growth[Duration(b, now)] \in Nat \ {0}
<1>1. now \in Since /\ now # 0 /\ Duration(b, now) \in 1 .. Epoch + MaxHours + 1
    BY ExchangeAssumption DEF Hours, Duration, BookOK, Since
<1>2. Growth[Duration(b, now)] \in Nat /\ Growth[Duration(b, now)] >= Whole
    BY <1>1, ExchangeAssumption, DebtAssumption
<1> QED
    BY <1>1, <1>2, DebtAssumption

LEMMA DebtFacts ==
    ASSUME NEW b, BookOK(b), NEW now \in Hours(b), NEW add \in Int
    PROVE  /\ DebtAtNow(b, now) \in Int
           /\ OriginAmount(b, add, now) \in Int
<1> DEFINE g == Growth[Duration(b, now)]
<1>1. g \in Nat \ {0} /\ Coin \in Nat \ {0} /\ Whole \in Nat \ {0} /\ b.debt \in Int
    BY GrowthFacts, DebtAssumption DEF BookOK
<1> HIDE DEF g
<1>2. Whole * Coin \in Nat \ {0} /\ b.debt * g \in Int
    BY <1>1
<1>3. (b.debt * g) \div (Whole * Coin) \in Int
    BY <1>2, DivFacts
<1>4. DebtAtNow(b, now) \in Int
    BY <1>1, <1>3 DEF DebtAtNow, g
<1>5. \A a \in Int : (a * Whole) \div g \in Int
    BY <1>1, DivFacts
<1>6. OriginAmount(b, add, now) \in Int
    BY <1>5 DEF OriginAmount, g
<1> QED
    BY <1>4, <1>6

LEMMA ClearedOK ==
    ASSUME NEW b, BookOK(b), NEW rest \in Nat
    PROVE  /\ BookOK(Cleared(b, rest)) /\ Cleared(b, rest).since = 0
           /\ Cleared(b, rest).freeze = b.freeze
           /\ \A broken \in BOOLEAN : (broken => rest = 0) =>
                LET c == [Cleared(b, rest) EXCEPT !.broken = broken] IN
                BookOK(c) /\ c.since = 0 /\ c.freeze = b.freeze
<1>1. PICK f : b \in [balance : Nat, borrow : Int, debt : Int, since : Since,
                      freeze : {f}, broken : BOOLEAN]
    BY DEF BookOK
<1>2. ASSUME NEW k \in BOOLEAN, NEW c, k => rest = 0,
             c = [b EXCEPT !.debt = 0, !.since = 0, !.borrow = 0, !.balance = rest,
                           !.broken = k]
      PROVE  BookOK(c) /\ c.since = 0 /\ c.freeze = b.freeze
  <2>1. c = [balance |-> rest, borrow |-> 0, debt |-> 0, since |-> 0, freeze |-> b.freeze,
             broken |-> k]
      BY <1>1, <1>2
  <2>2. b.freeze = f /\ 0 \in Since
      BY <1>1 DEF Since
  <2>3. /\ c \in [balance : Nat, borrow : Int, debt : Int, since : Since,
                  freeze : {f}, broken : BOOLEAN]
        /\ c.borrow = 0 /\ c.debt = 0 /\ c.since = 0 /\ c.freeze = b.freeze
        /\ c.broken => c.balance = 0
      BY <1>2, <2>1, <2>2
  <2> QED
      BY <2>3 DEF BookOK
<1>3. PICK k \in BOOLEAN : k = (rest = 0)
    OBVIOUS
<1>4. Cleared(b, rest) = [b EXCEPT !.debt = 0, !.since = 0, !.borrow = 0,
                                   !.balance = rest, !.broken = k]
    BY <1>3 DEF Cleared
<1>5. BookOK(Cleared(b, rest)) /\ Cleared(b, rest).since = 0 /\ Cleared(b, rest).freeze = b.freeze
    BY <1>2, <1>3, <1>4
<1>6. ASSUME NEW broken \in BOOLEAN, broken => rest = 0, NEW c,
             c = [Cleared(b, rest) EXCEPT !.broken = broken]
      PROVE  BookOK(c) /\ c.since = 0 /\ c.freeze = b.freeze
  <2>1. c = [b EXCEPT !.debt = 0, !.since = 0, !.borrow = 0, !.balance = rest,
                      !.broken = broken]
      BY <1>1, <1>4, <1>6
  <2> QED
      BY <1>2, <1>6, <2>1
<1> QED
    BY <1>5, <1>6

LEMMA MovedBalanceOK ==
    ASSUME NEW b, BookOK(b), b.balance > 0, NEW add \in Int, NEW now \in Hours(b)
    PROVE  /\ BookOK(MovedBalance(b, add, now))
           /\ MovedBalance(b, add, now).since \in {b.since, now}
           /\ MovedBalance(b, add, now).freeze = b.freeze
           /\ Net(MovedBalance(b, add, now)) = Net(b) + add
<1> DEFINE c == MovedBalance(b, add, now)
<1>1. PICK f : b \in [balance : Nat, borrow : Int, debt : Int, since : Since,
                      freeze : {f}, broken : BOOLEAN]
    BY DEF BookOK
<1>2. /\ b.borrow = 0 /\ b.debt = 0 /\ b.balance + add \in Int /\ now \in Since
      /\ ~ b.broken /\ b.balance \in Nat /\ Net(b) = b.balance
    BY <1>1, GrowthFacts DEF BookOK, Net
<1>3. CASE b.balance + add >= 0
  <2>1. c = [b EXCEPT !.balance = b.balance + add]
      BY <1>3 DEF MovedBalance
  <2>2. /\ c \in [balance : Nat, borrow : Int, debt : Int, since : Since,
                  freeze : {f}, broken : BOOLEAN]
        /\ c.borrow = 0 /\ c.debt = 0 /\ c.since = b.since
        /\ c.freeze = b.freeze /\ c.broken = b.broken /\ c.balance = b.balance + add
      BY <1>1, <1>2, <1>3, <2>1
  <2> HIDE DEF c
  <2>3. BookOK(c) /\ c.since = b.since /\ c.freeze = b.freeze
      BY <1>2, <2>2 DEF BookOK
  <2>4. Net(c) = Net(b) + add
      BY <1>2, <2>2 DEF Net
  <2> QED
      BY <2>3, <2>4 DEF c
<1>4. CASE ~ (b.balance + add >= 0)
  <2> DEFINE m == - (b.balance + add)
  <2>1. c = [b EXCEPT !.balance = 0, !.borrow = m, !.debt = m, !.since = now]
      BY <1>4 DEF MovedBalance
  <2> m \in Int
      BY <1>2
  <2> HIDE DEF m, c
  <2>2. /\ c \in [balance : Nat, borrow : Int, debt : Int, since : Since,
                  freeze : {f}, broken : BOOLEAN]
        /\ c.balance = 0 /\ c.since = now /\ c.freeze = b.freeze /\ c.borrow = m
      BY <1>1, <1>2, <2>1
  <2>3. BookOK(c)
      BY <2>2 DEF BookOK
  <2>4. Net(c) = Net(b) + add
      BY <1>2, <2>2 DEF Net, m
  <2> QED
      BY <2>2, <2>3, <2>4 DEF c
<1> QED
    BY <1>3, <1>4

LEMMA OwedOK ==
    ASSUME NEW b, BookOK(b), ~ (b.balance > 0), NEW debt \in Int, NEW borrow \in Int
    PROVE  /\ BookOK([b EXCEPT !.debt = debt, !.borrow = borrow])
           /\ [b EXCEPT !.debt = debt, !.borrow = borrow].since = b.since
           /\ [b EXCEPT !.debt = debt, !.borrow = borrow].freeze = b.freeze
<1> DEFINE c == [b EXCEPT !.debt = debt, !.borrow = borrow]
<1>1. PICK f : b \in [balance : Nat, borrow : Int, debt : Int, since : Since,
                      freeze : {f}, broken : BOOLEAN]
    BY DEF BookOK
<1>2. /\ c \in [balance : Nat, borrow : Int, debt : Int, since : Since,
                freeze : {f}, broken : BOOLEAN]
      /\ c.balance = b.balance /\ c.since = b.since /\ c.freeze = b.freeze
    BY <1>1
<1>3. b.balance = 0
    BY <1>1
<1> QED
    BY <1>2, <1>3 DEF BookOK

LEMMA MovedDebtOK ==
    ASSUME NEW b, BookOK(b), ~ (b.balance > 0), NEW add \in Int, NEW now \in Hours(b)
    PROVE  /\ BookOK(MovedDebt(b, add, now))
           /\ MovedDebt(b, add, now).since \in {b.since, 0}
           /\ MovedDebt(b, add, now).freeze = b.freeze
<1> DEFINE fee == DebtAtNow(b, now) - b.borrow
           left == b.debt - OriginAmount(b, add, now)
<1>1. b.borrow \in Int /\ b.debt \in Int
    BY DEF BookOK
<1>2. fee \in Int /\ left \in Int
    BY <1>1, DebtFacts
<1>3. MovedDebt(b, add, now) =
        CASE left <= 0 -> Cleared(b, - left)
          [] left > 0 /\ add >= fee -> [b EXCEPT !.debt = left, !.borrow = @ - (add - fee)]
          [] left > 0 /\ add < fee /\ add < 0 -> [b EXCEPT !.debt = left, !.borrow = @ - add]
          [] OTHER -> [b EXCEPT !.debt = left]
    BY DEF MovedDebt
<1> HIDE DEF fee, left
<1>4. CASE left <= 0
  <2>1. - left \in Nat /\ MovedDebt(b, add, now) = Cleared(b, - left)
      BY <1>2, <1>3, <1>4
  <2> QED
      BY <2>1, ClearedOK
<1>5. CASE left > 0
  <2>1. PICK borrow \in {b.borrow - (add - fee), b.borrow - add, b.borrow} :
            MovedDebt(b, add, now) = [b EXCEPT !.debt = left, !.borrow = borrow]
    <3>1. [b EXCEPT !.debt = left] = [b EXCEPT !.debt = left, !.borrow = b.borrow]
        BY DEF BookOK
    <3> QED
        BY <1>2, <1>3, <1>5, <3>1
  <2>2. borrow \in Int
      BY <1>1, <1>2
  <2>3. /\ BookOK([b EXCEPT !.debt = left, !.borrow = borrow])
        /\ [b EXCEPT !.debt = left, !.borrow = borrow].since = b.since
        /\ [b EXCEPT !.debt = left, !.borrow = borrow].freeze = b.freeze
      BY <1>2, <2>2, OwedOK
  <2> QED
      BY <2>1, <2>3
<1> QED
    BY <1>2, <1>4, <1>5

LEMMA MovedBorrowOK ==
    ASSUME NEW b, BookOK(b), ~ (b.balance > 0), NEW add \in Int, NEW now \in Hours(b)
    PROVE  /\ BookOK(MovedBorrow(b, add, now))
           /\ MovedBorrow(b, add, now).since \in {b.since, 0}
           /\ MovedBorrow(b, add, now).freeze = b.freeze
<1>1. b.borrow \in Int /\ b.debt \in Int /\ Coin \in Nat \ {0}
    BY DebtAssumption DEF BookOK
<1>2. CASE b.borrow * Coin <= add
  <2>1. add \div Coin - b.borrow \in Nat
      BY <1>1, <1>2, DivFacts
  <2> DEFINE rest == add \div Coin - b.borrow
  <2>2. PICK k \in BOOLEAN : k = (b.borrow * Coin = add)
      OBVIOUS
  <2>3. MovedBorrow(b, add, now) = [Cleared(b, rest) EXCEPT !.broken = k]
      BY <1>2, <2>2 DEF MovedBorrow
  <2>5. k => rest = 0
    <3>1. k => b.borrow * Coin = add
        BY <2>2
    <3>2. k => b.borrow = add \div Coin
        BY <1>1, <3>1, DivFacts
    <3> QED
        BY <1>1, <3>2
  <2> HIDE DEF rest
  <2>4. /\ BookOK([Cleared(b, rest) EXCEPT !.broken = k])
        /\ [Cleared(b, rest) EXCEPT !.broken = k].since = 0
        /\ [Cleared(b, rest) EXCEPT !.broken = k].freeze = b.freeze
      BY <2>1, <2>5, ClearedOK DEF rest
  <2> QED
      BY <2>3, <2>4
<1>3. CASE ~ (b.borrow * Coin <= add)
  <2> DEFINE debt == b.debt - OriginAmount(b, add, now)
             borrow == b.borrow - add
  <2>1. MovedBorrow(b, add, now) = [b EXCEPT !.debt = debt, !.borrow = borrow]
      BY <1>3 DEF MovedBorrow
  <2>2. debt \in Int /\ borrow \in Int
      BY <1>1, DebtFacts
  <2> HIDE DEF debt, borrow
  <2>3. /\ BookOK([b EXCEPT !.debt = debt, !.borrow = borrow])
        /\ [b EXCEPT !.debt = debt, !.borrow = borrow].since = b.since
        /\ [b EXCEPT !.debt = debt, !.borrow = borrow].freeze = b.freeze
      BY <2>2, OwedOK
  <2> QED
      BY <2>1, <2>3
<1> QED
    BY <1>2, <1>3

(* However a book is moved, it stays one.                                  *)
LEMMA MovedOK ==
    ASSUME NEW b, BookOK(b), NEW add \in Int, NEW now \in Hours(b)
    PROVE  /\ BookOK(Moved(b, add, now)) /\ now \in Hours(Moved(b, add, now))
           /\ Moved(b, add, now).freeze = b.freeze
           /\ b.balance > 0 => Net(Moved(b, add, now)) = Net(b) + add
<1> DEFINE c == Moved(b, add, now)
<1>1. /\ BookOK(c) /\ c.since \in {b.since, now, 0} /\ c.freeze = b.freeze
      /\ b.balance > 0 => Net(c) = Net(b) + add
  <2>1. CASE b.broken
    <3>1. c = b /\ b.balance = 0
        BY <2>1 DEF Moved, BookOK
    <3> HIDE DEF c
    <3> QED
        BY <3>1
  <2>2. CASE ~ b.broken /\ b.balance > 0
    <3>1. c = MovedBalance(b, add, now)
        BY <2>2 DEF Moved
    <3> QED
        BY <2>2, <3>1, MovedBalanceOK
  <2>3. CASE ~ b.broken /\ ~ (b.balance > 0)
    <3>1. c = MovedDebt(b, add, now) \/ c = MovedBorrow(b, add, now)
        BY <2>3 DEF Moved
    <3> QED
        BY <2>3, <3>1, MovedDebtOK, MovedBorrowOK
  <2> QED
      BY <2>1, <2>2, <2>3 DEF BookOK
<1> HIDE DEF c
<1>2. now \in Hours(c)
    BY <1>1, ExchangeAssumption DEF Hours, BookOK, Since
<1> QED
    BY <1>1, <1>2 DEF c

LEMMA SettledOK ==
    ASSUME NEW b, BookOK(b), NEW side, NEW amount \in Nat, NEW now \in Hours(b)
    PROVE  /\ BookOK(Settled(b, side, amount, now))
           /\ Settled(b, side, amount, now).freeze = b.freeze
           /\ b.balance > 0 =>
                 Net(Settled(b, side, amount, now)) = Net(b) + Effect(side, amount)
<1>1. - amount \in Int /\ Fee(amount) \in Int /\ - Fee(amount) \in Int
    BY DebtAssumption, DivFacts DEF Fee
<1>2. CASE side = "sell"
  <2>1. Settled(b, side, amount, now) = Moved(b, - amount, now)
      BY <1>2 DEF Settled
  <2>2. Effect(side, amount) = - amount
      BY <1>2 DEF Effect
  <2> QED
      BY <1>1, <2>1, <2>2, MovedOK
<1>3. CASE side # "sell"
  <2>1. PICK c : c = Moved(b, amount, now)
      OBVIOUS
  <2>2. /\ BookOK(c) /\ now \in Hours(c) /\ c.freeze = b.freeze
        /\ b.balance > 0 => Net(c) = Net(b) + amount
      BY <2>1, MovedOK
  <2>3. PICK d : d = Moved(c, - Fee(amount), now)
      OBVIOUS
  <2>4. /\ BookOK(d) /\ d.freeze = c.freeze
        /\ c.balance > 0 => Net(d) = Net(c) + (- Fee(amount))
      BY <1>1, <2>2, <2>3, MovedOK
  <2>5. Settled(b, side, amount, now) = d
      BY <1>3, <2>1, <2>3 DEF Settled
  <2>6. ASSUME b.balance > 0 PROVE Net(d) = Net(b) + Effect(side, amount)
    <3>1. c = [b EXCEPT !.balance = b.balance + amount]
        BY <2>1, <2>6 DEF Moved, MovedBalance, BookOK
    <3>2. c.balance > 0
        BY <2>6, <3>1 DEF BookOK
    <3>3. Net(b) \in Int
        BY DEF Net, BookOK
    <3>4. Effect(side, amount) = amount - Fee(amount)
        BY <1>3 DEF Effect
    <3> QED
        BY <1>1, <2>2, <2>4, <2>6, <3>2, <3>3, <3>4
  <2> QED
      BY <2>2, <2>4, <2>5, <2>6
<1> QED
    BY <1>2, <1>3

----------------------------------------------------------------------------
(* The rows.                                                               *)

Tables == [OrderId -> Row \cup {NoRow}]

Total(row) == row.avail + row.pend + row.conf + row.canc

(* Nothing is added to a row, nor a row to the table.                      *)
Keeps(table, new) ==
    \A p \in OrderId : Exists(new, p) => Exists(table, p) /\ Total(new[p]) = Total(table[p])

LEMMA UpdatedFacts ==
    ASSUME NEW table \in Tables, NEW o \in OrderId, NEW avail \in Int, NEW pend \in Int,
           NEW canc \in Nat, NEW status \in {"live", "full_filled", "cancled"}
    PROVE  /\ Updated(table, o, avail, pend, canc, status) \in Tables
           /\ avail + pend + canc = 0 =>
                 Keeps(table, Updated(table, o, avail, pend, canc, status))
<1> DEFINE new == Updated(table, o, avail, pend, canc, status)
<1>1. CASE ~ Exists(table, o)
  <2>1. new = table
      BY <1>1 DEF Updated
  <2> QED
      BY <2>1 DEF Keeps
<1>2. CASE Exists(table, o)
  <2> DEFINE r == [avail |-> table[o].avail + avail, pend |-> table[o].pend + pend,
                   conf |-> table[o].conf, canc |-> table[o].canc + canc,
                   status |-> status]
  <2>1. table[o] \in Row
      BY <1>2 DEF Exists, Tables
  <2>2. r \in Row
      BY <2>1 DEF Row
  <2>3. new = [table EXCEPT ![o] = r]
      BY <1>2 DEF Updated
  <2>4. avail + pend + canc = 0 => Total(r) = Total(table[o])
      BY <2>1 DEF Total, Row
  <2> HIDE DEF r, new
  <2>5. new \in Tables /\ new[o] = r /\ \A p \in OrderId \ {o} : new[p] = table[p]
      BY <2>2, <2>3 DEF Tables
  <2>6. avail + pend + canc = 0 => Keeps(table, new)
      BY <1>2, <2>4, <2>5 DEF Keeps, Exists
  <2> QED
      BY <2>5, <2>6 DEF new
<1> QED
    BY <1>1, <1>2

RowConfirmed(row, amount) == [row EXCEPT !.conf = @ + amount, !.pend = @ - amount]

LEMMA ConfirmedRow ==
    ASSUME NEW row \in Row, NEW amount \in Nat
    PROVE  /\ RowConfirmed(row, amount) \in Row
           /\ Total(RowConfirmed(row, amount)) = Total(row)
<1>1. PICK pend \in Int, conf \in Nat : pend = row.pend - amount /\ conf = row.conf + amount
    BY DEF Row
<1> DEFINE r == RowConfirmed(row, amount)
<1>2. r = [row EXCEPT !.conf = conf, !.pend = pend]
    BY <1>1 DEF RowConfirmed
<1> HIDE DEF r
<1>3. /\ r \in Row /\ r.avail = row.avail /\ r.canc = row.canc
      /\ r.conf = conf /\ r.pend = pend
    BY <1>2 DEF Row
<1>4. Total(r) = Total(row)
    BY <1>1, <1>3 DEF Total, Row
<1> QED
    BY <1>3, <1>4 DEF r

LEMMA ConfirmedFacts ==
    ASSUME NEW table \in Tables, NEW o \in OrderId, NEW amount \in Nat
    PROVE  /\ Confirmed(table, o, amount) \in Tables
           /\ Keeps(table, Confirmed(table, o, amount))
<1> DEFINE new == Confirmed(table, o, amount)
<1>1. CASE ~ Exists(table, o)
  <2>1. new = table
      BY <1>1 DEF Confirmed
  <2> QED
      BY <2>1 DEF Keeps
<1>2. CASE Exists(table, o)
  <2> DEFINE r == RowConfirmed(table[o], amount)
  <2>1. table[o] \in Row
      BY <1>2 DEF Exists, Tables
  <2>2. r \in Row /\ Total(r) = Total(table[o])
      BY <2>1, ConfirmedRow
  <2>3. new = [table EXCEPT ![o] = r]
      BY <1>2 DEF Confirmed, RowConfirmed
  <2> HIDE DEF r, new
  <2>4. new \in Tables /\ new[o] = r /\ \A p \in OrderId \ {o} : new[p] = table[p]
      BY <2>2, <2>3 DEF Tables
  <2>5. Keeps(table, new)
      BY <1>2, <2>2, <2>4 DEF Keeps, Exists
  <2> QED
      BY <2>4, <2>5 DEF new
<1> QED
    BY <1>1, <1>2

LEMMA FreezingOK ==
    ASSUME BookOK(book), NEW o \in OrderId, NEW amount
    PROVE  BookOK(Freezing(o, amount))
<1>1. PICK f : book \in [balance : Nat, borrow : Int, debt : Int, since : Since,
                         freeze : {f}, broken : BOOLEAN]
    BY DEF BookOK
<1>2. ASSUME NEW g, NEW c, c = [book EXCEPT !.freeze = g]
      PROVE  BookOK(c)
  <2>1. /\ c \in [balance : Nat, borrow : Int, debt : Int, since : Since,
                  freeze : {g}, broken : BOOLEAN]
        /\ c.balance = book.balance /\ c.borrow = book.borrow /\ c.debt = book.debt
        /\ c.broken = book.broken
      BY <1>1, <1>2
  <2> QED
      BY <2>1 DEF BookOK
<1>3. Freezing(o, amount) \in {book, [book EXCEPT !.freeze = book.freeze + amount]}
    BY DEF Freezing
<1> QED
    BY <1>2, <1>3

LEMMA BookOfOK ==
    ASSUME NEW amount \in Int, NEW freeze, NEW time \in Since
    PROVE  BookOK(BookOf(amount, freeze, time))
<1> DEFINE c == BookOf(amount, freeze, time)
<1>1. CASE amount >= 0
  <2>1. c = [balance |-> amount, borrow |-> 0, debt |-> 0, since |-> 0,
             freeze |-> freeze, broken |-> FALSE]
      BY <1>1 DEF BookOf
  <2>2. 0 \in Since /\ amount \in Nat
      BY <1>1 DEF Since
  <2> HIDE DEF c
  <2>3. /\ c \in [balance : Nat, borrow : Int, debt : Int, since : Since,
                  freeze : {freeze}, broken : BOOLEAN]
        /\ c.borrow = 0 /\ c.debt = 0 /\ ~ c.broken
      BY <2>1, <2>2
  <2> QED
      BY <2>3 DEF BookOK, c
<1>2. CASE ~ (amount >= 0)
  <2>1. c = [balance |-> 0, borrow |-> - amount, debt |-> - amount, since |-> time,
             freeze |-> freeze, broken |-> FALSE]
      BY <1>2 DEF BookOf
  <2> HIDE DEF c
  <2>2. /\ c \in [balance : Nat, borrow : Int, debt : Int, since : Since,
                  freeze : {freeze}, broken : BOOLEAN]
        /\ c.balance = 0 /\ ~ c.broken
      BY <2>1
  <2> QED
      BY <2>2 DEF BookOK, c
<1> QED
    BY <1>1, <1>2

----------------------------------------------------------------------------
(* The invariant.                                                          *)

Typed ==
    /\ main \in Tables /\ tmp \in Tables
    /\ trades \in [TradeId -> Trade \cup {NoTrade}]
    /\ restore \in [TradeId -> {"no", "main", "tmp", "done"}]
    /\ \A t \in TradeId : restore[t] \in {"main", "tmp"} => trades[t] \in Trade
    /\ net \in Int /\ account \in Int

Inv == Typed /\ Conserved /\ BookOK(book)

LEMMA KeptIsConserved ==
    ASSUME Conserved, main' = main \/ Keeps(main, main')
    PROVE  Conserved'
  BY DEF Conserved, Keeps, Exists, Total

LEMMA TradeFacts ==
    ASSUME Typed, NEW t \in TradeId, trades[t].status # "none"
    PROVE  /\ trades[t] \in Trade /\ trades[t].order \in OrderId
           /\ trades[t].amount \in Nat \ {0}
<1>1. trades[t] # NoTrade
    BY DEF NoTrade
<1> QED
    BY <1>1 DEF Typed, Trade

LEMMA TradeIsOne == \A trade \in Trade : trade.status # "none"
  BY DEF Trade

LEMMA BecomesTyped ==
    ASSUME Typed, NEW t \in TradeId, NEW from \in {"matched", "pending", "launched"},
           NEW to \in {"pending", "launched", "successful", "deleted"}, Becomes(t, from, to)
    PROVE  /\ trades' \in [TradeId -> Trade \cup {NoTrade}]
           /\ \A u \in TradeId : trades[u] \in Trade => trades'[u] \in Trade
<1>1. trades[t].status # "none" /\ trades' = [trades EXCEPT ![t] = [@ EXCEPT !.status = to]]
    BY DEF Becomes
<1>2. trades[t] \in Trade
    BY <1>1, TradeFacts
<1>3. [trades[t] EXCEPT !.status = to] \in Trade
    BY <1>2 DEF Trade
<1> QED
    BY <1>1, <1>3 DEF Typed

----------------------------------------------------------------------------
(* The operations.                                                         *)

LEMMA InvInit == Init => Inv
<1> SUFFICES ASSUME Init PROVE Inv
    OBVIOUS
<1>1. Typed
    BY ExchangeAssumption DEF Init, Typed, Tables
<1>2. Conserved
    BY DEF Init, Conserved, Exists
<1>3. BookOK(book)
    BY BookOfOK, ExchangeAssumption DEF Init, Since
<1> QED
    BY <1>1, <1>2, <1>3 DEF Inv

LEMMA PlaceStep ==
    ASSUME Inv, NEW o \in OrderId, Place(o)
    PROVE  Inv'
<1> DEFINE row == [NoRow EXCEPT !.avail = Order[o].amount, !.status = "live"]
<1>1. /\ main' = [main EXCEPT ![o] = row] /\ tmp' = [tmp EXCEPT ![o] = row]
      /\ book' = Freezing(o, Order[o].amount)
      /\ UNCHANGED <<trades, net, restore, account>>
    BY DEF Place, rolling, refreshing
<1>2. row \in Row /\ Total(row) = Order[o].amount
  <2>1. /\ NoRow \in [avail : Int, pend : Int, conf : Nat, canc : Nat, status : {"none"}]
        /\ NoRow.pend = 0 /\ NoRow.conf = 0 /\ NoRow.canc = 0
      BY DEF NoRow
  <2>2. PICK amount \in Nat : amount = Order[o].amount
      BY OrderAssumption
  <2>3. row = [NoRow EXCEPT !.avail = amount, !.status = "live"]
      BY <2>2
  <2> HIDE DEF row
  <2>4. row = [avail |-> amount, pend |-> 0, conf |-> 0, canc |-> 0, status |-> "live"]
      BY <2>1, <2>3
  <2>5. /\ row \in Row /\ row.avail = amount /\ row.pend = 0 /\ row.conf = 0
        /\ row.canc = 0
      BY <2>4 DEF Row
  <2> QED
      BY <2>2, <2>5 DEF Total
<1> HIDE DEF row
<1>3. Typed'
    BY <1>1, <1>2 DEF Inv, Typed, Tables
<1>4. Conserved'
    BY <1>1, <1>2 DEF Inv, Typed, Tables, Conserved, Exists, Total
<1>5. BookOK(book')
    BY <1>1, FreezingOK DEF Inv
<1> QED
    BY <1>3, <1>4, <1>5 DEF Inv

(* A step that updates the two tables alike.                               *)
LEMMA BothUpdated ==
    ASSUME Inv, NEW o \in OrderId, NEW avail \in Int, NEW pend \in Int, NEW canc \in Nat,
           avail + pend + canc = 0, NEW status \in {"live", "full_filled", "cancled"},
           main' \in {main, Updated(main, o, avail, pend, canc, status)},
           tmp' \in {tmp, Updated(tmp, o, avail, pend, canc, status)}
    PROVE  main' \in Tables /\ tmp' \in Tables /\ Conserved'
<1>1. main' \in Tables /\ (main' = main \/ Keeps(main, main'))
    BY UpdatedFacts DEF Inv, Typed
<1>2. tmp' \in Tables
    BY UpdatedFacts DEF Inv, Typed
<1> QED
    BY <1>1, <1>2, KeptIsConserved DEF Inv

LEMMA MatchStep ==
    ASSUME Inv, NEW o \in OrderId, NEW t \in TradeId, NEW amount \in 1 .. tmp[o].avail,
           Match(o, t, amount)
    PROVE  Inv'
<1>1. amount \in Nat \ {0}
  <2>1. tmp[o].avail \in Int
      BY DEF Inv, Typed, Tables, Row, NoRow
  <2> QED
      BY <2>1
<1>2. PICK status \in {"live", "full_filled"} :
        /\ main' = Updated(main, o, - amount, amount, 0, status)
        /\ tmp' = Updated(tmp, o, - amount, amount, 0, status)
    BY DEF Match
<1>3. /\ trades' = [trades EXCEPT ![t] = [order |-> o, amount |-> amount,
                                         status |-> "matched"]]
      /\ UNCHANGED <<net, book, restore, account>>
    BY DEF Match, insert_trades, rolling, refreshing
<1>4. main' \in Tables /\ tmp' \in Tables /\ Conserved'
    BY <1>1, <1>2, BothUpdated
<1>5. [order |-> o, amount |-> amount, status |-> "matched"] \in Trade
    BY <1>1 DEF Trade
<1>6. Typed'
    BY <1>3, <1>4, <1>5 DEF Inv, Typed
<1> QED
    BY <1>3, <1>4, <1>6 DEF Inv

LEMMA CancelStep ==
    ASSUME Inv, NEW o \in OrderId, Cancel(o)
    PROVE  Inv'
<1>1. PICK left : /\ left = main[o].avail /\ left > 0
                  /\ main' = Updated(main, o, - left, 0, left, "cancled")
                  /\ tmp' = Updated(tmp, o, - left, 0, left, "cancled")
                  /\ book' = Freezing(o, - left)
                  /\ UNCHANGED <<trades, net, restore, account>>
    BY DEF Cancel, find_order, rolling, refreshing
<1>2. left \in Nat
    BY <1>1 DEF Inv, Typed, Tables, Row, NoRow
<1>3. main' \in Tables /\ tmp' \in Tables /\ Conserved'
    BY <1>1, <1>2, BothUpdated
<1>4. Typed'
    BY <1>1, <1>3 DEF Inv, Typed
<1>5. BookOK(book')
    BY <1>1, FreezingOK DEF Inv
<1> QED
    BY <1>3, <1>4, <1>5 DEF Inv

LEMMA MarkStep ==
    ASSUME Inv, NEW t \in TradeId, Mark(t)
    PROVE  Inv'
<1>1. /\ Becomes(t, "matched", "pending")
      /\ UNCHANGED <<main, tmp, net, book, restore, account>>
    BY DEF Mark, rolling, refreshing
<1>2. Typed'
    BY <1>1, BecomesTyped DEF Inv, Typed
<1>3. Conserved'
    BY <1>1, KeptIsConserved DEF Inv
<1> QED
    BY <1>1, <1>2, <1>3 DEF Inv

LEMMA LaunchStep ==
    ASSUME Inv, NEW t \in TradeId, NEW now \in Hour, Launch(t, now)
    PROVE  Inv'
<1>1. /\ Becomes(t, "pending", "launched")
      /\ book' = Settled(book, Order[trades[t].order].side, trades[t].amount, now)
      /\ UNCHANGED <<main, tmp, net, restore, account>>
    BY DEF Launch, rolling, refreshing
<1>2. Typed'
    BY <1>1, BecomesTyped DEF Inv, Typed
<1>3. Conserved'
    BY <1>1, KeptIsConserved DEF Inv
<1>4. trades[t].amount \in Nat
    BY <1>1, TradeFacts DEF Becomes, Inv
<1>5. now \in Hours(book)
    BY DEF Hour, Hours
<1>6. BookOK(book')
    BY <1>1, <1>4, <1>5, SettledOK DEF Inv
<1> QED
    BY <1>2, <1>3, <1>6 DEF Inv

LEMMA ConfirmStep ==
    ASSUME Inv, NEW t \in TradeId, Confirm(t)
    PROVE  Inv'
<1>1. PICK o, amount :
        /\ o = trades[t].order /\ amount = trades[t].amount
        /\ Becomes(t, "launched", "successful")
        /\ net' = net + Effect(Order[o].side, amount)
        /\ main' = Confirmed(main, o, amount) /\ tmp' = Confirmed(tmp, o, amount)
        /\ book' = Freezing(o, - amount)
        /\ UNCHANGED <<restore, account>>
    BY DEF Confirm, rolling, refreshing
<1>2. o \in OrderId /\ amount \in Nat
    BY <1>1, TradeFacts DEF Becomes, Inv
<1>3. main' \in Tables /\ Keeps(main, main') /\ tmp' \in Tables
    BY <1>1, <1>2, ConfirmedFacts DEF Inv, Typed
<1>4. net' \in Int
  <2>1. Effect(Order[o].side, amount) \in Int
      BY <1>2, DivFacts, DebtAssumption DEF Effect, Fee
  <2> QED
      BY <1>1, <2>1 DEF Inv, Typed
<1>5. Typed'
    BY <1>1, <1>3, <1>4, BecomesTyped DEF Inv, Typed
<1>6. Conserved'
    BY <1>3, KeptIsConserved DEF Inv
<1>7. BookOK(book')
    BY <1>1, <1>2, FreezingOK DEF Inv
<1> QED
    BY <1>5, <1>6, <1>7 DEF Inv

LEMMA StartRollbackStep ==
    ASSUME Inv, StartRollback
    PROVE  Inv'
<1>1. /\ restore' = [t \in TradeId |-> IF t \in Unlaunched THEN "main" ELSE restore[t]]
      /\ UNCHANGED <<main, tmp, trades, net, book, account>>
    BY DEF StartRollback, tables, refreshing
<1>2. ASSUME NEW t \in Unlaunched PROVE trades[t] \in Trade
    BY <1>2, TradeFacts DEF Unlaunched, Inv
<1>3. restore' \in [TradeId -> {"no", "main", "tmp", "done"}]
    BY <1>1 DEF Inv, Typed
<1>4. \A t \in TradeId : restore'[t] \in {"main", "tmp"} => trades[t] \in Trade
    BY <1>1, <1>2 DEF Inv, Typed
<1>5. Typed'
    BY <1>1, <1>3, <1>4 DEF Inv, Typed
<1>6. Conserved'
    BY <1>1, KeptIsConserved DEF Inv
<1> QED
    BY <1>1, <1>5, <1>6 DEF Inv

LEMMA RestoreStep ==
    ASSUME Inv, NEW t \in TradeId, RestoreMain(t) \/ RestoreTmp(t)
    PROVE  Inv'
<1>1. PICK o, amount :
        /\ o = trades[t].order /\ amount = trades[t].amount
        /\ main' \in {main, Updated(main, o, amount, - amount, 0, "live")}
        /\ tmp' \in {tmp, Updated(tmp, o, amount, - amount, 0, "live")}
        /\ UNCHANGED <<trades, net, book, account>>
    BY DEF RestoreMain, RestoreTmp, refreshing
<1>2. trades[t] \in Trade /\ o \in OrderId /\ amount \in Nat
  <2>1. restore[t] \in {"main", "tmp"}
      BY DEF RestoreMain, RestoreTmp
  <2>2. trades[t] \in Trade
      BY <2>1 DEF Inv, Typed
  <2> QED
      BY <1>1, <2>2 DEF Trade
<1>3. \/ restore' = [restore EXCEPT ![t] = "tmp"]
      \/ restore' = [restore EXCEPT ![t] = "done"]
    BY DEF RestoreMain, RestoreTmp
<1>4. main' \in Tables /\ tmp' \in Tables /\ Conserved'
    BY <1>1, <1>2, BothUpdated
<1>5. Typed'
    BY <1>1, <1>2, <1>3, <1>4 DEF Inv, Typed
<1> QED
    BY <1>1, <1>4, <1>5 DEF Inv

LEMMA RestoreFailsStep ==
    ASSUME Inv, NEW t \in TradeId, RestoreFails(t)
    PROVE  Inv'
<1>1. /\ restore' = [restore EXCEPT ![t] = "done"]
      /\ UNCHANGED <<main, tmp, trades, net, book, account>>
    BY DEF RestoreFails, tables, refreshing
<1>2. Typed'
    BY <1>1 DEF Inv, Typed
<1>3. Conserved'
    BY <1>1, KeptIsConserved DEF Inv
<1> QED
    BY <1>1, <1>2, <1>3 DEF Inv

LEMMA DeleteTradesStep ==
    ASSUME Inv, DeleteTrades
    PROVE  Inv'
<1>1. /\ trades' = [t \in TradeId |-> IF t \in Unlaunched
                                      THEN [trades[t] EXCEPT !.status = "deleted"]
                                      ELSE trades[t]]
      /\ UNCHANGED <<main, tmp, net, book, restore, account>>
    BY DEF DeleteTrades, refreshing
<1>2. ASSUME NEW t \in Unlaunched
      PROVE  [trades[t] EXCEPT !.status = "deleted"] \in Trade
  <2>1. trades[t] \in Trade
      BY <1>2, TradeFacts DEF Unlaunched, Inv
  <2> QED
      BY <2>1 DEF Trade
<1>3. \A t \in TradeId : /\ trades'[t] \in Trade \cup {NoTrade}
                         /\ trades[t] \in Trade => trades'[t] \in Trade
    BY <1>1, <1>2 DEF Inv, Typed
<1>4. trades' \in [TradeId -> Trade \cup {NoTrade}]
    BY <1>1, <1>3
<1>5. Typed'
    BY <1>1, <1>3, <1>4 DEF Inv, Typed
<1>6. Conserved'
    BY <1>1, KeptIsConserved DEF Inv
<1> QED
    BY <1>1, <1>5, <1>6 DEF Inv

LEMMA CleanupStep ==
    ASSUME Inv, Cleanup
    PROVE  Inv'
<1>1. /\ tmp' = [o \in OrderId |-> IF o \in Swept THEN NoRow ELSE tmp[o]]
      /\ UNCHANGED <<main, trades, net, book, restore, account>>
    BY DEF Cleanup, rolling, refreshing
<1>2. Typed'
    BY <1>1 DEF Inv, Typed, Tables
<1>3. Conserved'
    BY <1>1, KeptIsConserved DEF Inv
<1> QED
    BY <1>1, <1>2, <1>3 DEF Inv

LEMMA RefreshStep ==
    ASSUME Inv, ReadAccount \/ ReadFreeze \/ \E now \in Hour : WriteBook(now)
    PROVE  Inv'
<1>1. UNCHANGED <<main, tmp, trades, net, restore>> /\ account' \in {account, net, 0}
    BY DEF ReadAccount, ReadFreeze, WriteBook, tables, rolling
<1>2. Typed'
    BY <1>1 DEF Inv, Typed
<1>3. Conserved'
    BY <1>1, KeptIsConserved DEF Inv
<1>4. BookOK(book')
  <2>1. CASE ReadAccount \/ ReadFreeze
      BY <2>1 DEF Inv, ReadAccount, ReadFreeze
  <2>2. ASSUME NEW now \in Hour, WriteBook(now) PROVE BookOK(book')
    <3>1. now \in Since
        BY GrowthFacts DEF Hour, Hours, Inv
    <3>2. account \in Int /\ book' = BookOf(account, frozen, now)
        BY <2>2 DEF Inv, Typed, WriteBook
    <3> QED
        BY <3>1, <3>2, BookOfOK
  <2> QED
      BY <2>1, <2>2
<1> QED
    BY <1>2, <1>3, <1>4 DEF Inv

LEMMA InvNext == Inv /\ [Next]_vars => Inv'
<1> SUFFICES ASSUME Inv, [Next]_vars PROVE Inv'
    OBVIOUS
<1>1. CASE \E o \in OrderId : Place(o) \/ Cancel(o)
    BY <1>1, PlaceStep, CancelStep
<1>2. CASE \E o \in OrderId, t \in TradeId : \E amount \in 1 .. tmp[o].avail :
              Match(o, t, amount)
    BY <1>2, MatchStep
<1>3. CASE \E t \in TradeId : Mark(t) \/ Confirm(t) \/ \E now \in Hour : Launch(t, now)
    BY <1>3, MarkStep, ConfirmStep, LaunchStep
<1>4. CASE StartRollback \/ DeleteTrades \/ Cleanup
    BY <1>4, StartRollbackStep, DeleteTradesStep, CleanupStep
<1>5. CASE \E t \in TradeId : RestoreMain(t) \/ RestoreTmp(t) \/ RestoreFails(t)
    BY <1>5, RestoreStep, RestoreFailsStep
<1>6. CASE ReadAccount \/ ReadFreeze \/ \E now \in Hour : WriteBook(now)
    BY <1>6, RefreshStep
<1>7. CASE UNCHANGED vars
  <2>1. UNCHANGED <<main, tmp, trades, net, book, restore, account>>
      BY <1>7 DEF vars
  <2>2. Typed' /\ Conserved'
      BY <2>1, KeptIsConserved DEF Inv, Typed
  <2> QED
      BY <2>1, <2>2 DEF Inv
<1> QED
    BY <1>1, <1>2, <1>3, <1>4, <1>5, <1>6, <1>7 DEF Next

LEMMA Always == Spec => []Inv
  BY InvInit, InvNext, PTL DEF Spec

----------------------------------------------------------------------------
(* The trades of an order, added up.                                       *)

PendingOf(o) ==
    [t \in TradeId |-> IF trades[t].status # "none" /\ trades[t].order = o /\ Outstanding(t)
                       THEN trades[t].amount ELSE 0]

RestoringOf(o) ==
    [t \in TradeId |-> IF trades[t].status # "none" /\ trades[t].order = o /\ restore[t] = "tmp"
                       THEN trades[t].amount ELSE 0]

(* What is restored in mist_orders, but not yet in mist_orders_tmp.        *)
Restoring(o) == Sum(RestoringOf(o))

LEMMA TradedFacts ==
    Typed => \A o \in OrderId :
                /\ \A t \in TradeId : PendingOf(o)[t] \in Nat /\ RestoringOf(o)[t] \in Nat
                /\ Traded(o) = Sum(PendingOf(o))
                /\ Integral(PendingOf(o)) /\ Integral(RestoringOf(o))
                /\ Traded(o) \in Nat /\ Restoring(o) \in Nat
<1> SUFFICES ASSUME Typed, NEW o \in OrderId
             PROVE  /\ \A t \in TradeId : PendingOf(o)[t] \in Nat /\ RestoringOf(o)[t] \in Nat
                    /\ Traded(o) = Sum(PendingOf(o))
                    /\ Integral(PendingOf(o)) /\ Integral(RestoringOf(o))
                    /\ Traded(o) \in Nat /\ Restoring(o) \in Nat
    OBVIOUS
<1>1. \A t \in TradeId : PendingOf(o)[t] \in Nat /\ RestoringOf(o)[t] \in Nat
    BY TradeFacts DEF PendingOf, RestoringOf
<1>2. DOMAIN PendingOf(o) = TradeId /\ DOMAIN RestoringOf(o) = TradeId
    BY DEF PendingOf, RestoringOf
<1>3. /\ Integral(PendingOf(o)) /\ Sum(PendingOf(o)) \in Nat
      /\ Integral(RestoringOf(o)) /\ Sum(RestoringOf(o)) \in Nat
    BY <1>1, <1>2, SumNat, ExchangeAssumption
<1>4. Traded(o) = Sum(PendingOf(o))
  <2> DEFINE g == [t \in {t \in Of(o) : Outstanding(t)} |-> trades[t].amount]
  <2>1. /\ DOMAIN g \subseteq DOMAIN PendingOf(o)
        /\ \A t \in DOMAIN g : g[t] = PendingOf(o)[t]
        /\ \A t \in DOMAIN PendingOf(o) \ DOMAIN g : PendingOf(o)[t] = 0
      BY DEF PendingOf, Of
  <2>2. Traded(o) = Sum(g)
      BY DEF Traded
  <2> HIDE DEF g
  <2> QED
      BY <1>3, <2>1, <2>2, SumWithout
<1> QED
    BY <1>1, <1>3, <1>4 DEF Restoring

LEMMA TradedFactsNext ==
    Typed' => (\A o \in OrderId :
                /\ \A t \in TradeId : PendingOf(o)[t] \in Nat /\ RestoringOf(o)[t] \in Nat
                /\ Traded(o) = Sum(PendingOf(o))
                /\ Integral(PendingOf(o)) /\ Integral(RestoringOf(o))
                /\ Traded(o) \in Nat /\ Restoring(o) \in Nat)'
  BY TradedFacts, PTL

(* The amounts after a step that is about one trade.                       *)
LEMMA TradedChange ==
    ASSUME Typed, Typed', NEW o \in OrderId, NEW t \in TradeId,
           \A u \in TradeId \ {t} : trades'[u] = trades[u] /\ restore'[u] = restore[u]
    PROVE  /\ Traded(o)' = Traded(o) + PendingOf(o)'[t] - PendingOf(o)[t]
           /\ Restoring(o)' = Restoring(o) + RestoringOf(o)'[t] - RestoringOf(o)[t]
<1>1. PICK f, g : f = PendingOf(o) /\ g = PendingOf(o)'
    OBVIOUS
<1>2. PICK h, k : h = RestoringOf(o) /\ k = RestoringOf(o)'
    OBVIOUS
<1>3. /\ Integral(f) /\ Integral(g) /\ DOMAIN f = TradeId /\ DOMAIN g = TradeId
      /\ Traded(o) = Sum(f) /\ Traded(o)' = Sum(g)
      /\ g[t] \in Int
      /\ \A u \in TradeId \ {t} : g[u] = f[u]
  <2>1. DOMAIN f = TradeId /\ DOMAIN g = TradeId
      BY <1>1 DEF PendingOf
  <2>2. \A u \in TradeId \ {t} : g[u] = f[u]
      BY <1>1 DEF PendingOf, Outstanding
  <2>3. /\ Integral(f) /\ Integral(g) /\ g[t] \in Int
        /\ Traded(o) = Sum(f) /\ Traded(o)' = Sum(g)
      BY <1>1, TradedFacts, TradedFactsNext
  <2> QED
      BY <2>1, <2>2, <2>3
<1>4. /\ Integral(h) /\ Integral(k) /\ DOMAIN h = TradeId /\ DOMAIN k = TradeId
      /\ Restoring(o) = Sum(h) /\ Restoring(o)' = Sum(k)
      /\ k[t] \in Int
      /\ \A u \in TradeId \ {t} : k[u] = h[u]
    BY <1>2, TradedFacts, TradedFactsNext DEF RestoringOf, Restoring
<1>5. Sum(g) = Sum(f) + g[t] - f[t]
    BY <1>3, SumChange
<1>6. Sum(k) = Sum(h) + k[t] - h[t]
    BY <1>4, SumChange
<1> QED
    BY <1>1, <1>2, <1>3, <1>4, <1>5, <1>6

(* And after one that changes none of the amounts.                         *)
LEMMA TradedSame ==
    ASSUME Typed, Typed', NEW o \in OrderId,
           \A t \in TradeId : /\ PendingOf(o)'[t] = PendingOf(o)[t]
                              /\ RestoringOf(o)'[t] = RestoringOf(o)[t]
    PROVE  Traded(o)' = Traded(o) /\ Restoring(o)' = Restoring(o)
<1>1. PICK f, g : f = PendingOf(o) /\ g = PendingOf(o)'
    OBVIOUS
<1>2. PICK h, k : h = RestoringOf(o) /\ k = RestoringOf(o)'
    OBVIOUS
<1>3. /\ Integral(f) /\ DOMAIN f = TradeId /\ DOMAIN g = TradeId
      /\ Traded(o) = Sum(f) /\ Traded(o)' = Sum(g)
      /\ \A t \in TradeId : f[t] = g[t]
    BY <1>1, TradedFacts, TradedFactsNext DEF PendingOf
<1>4. /\ Integral(h) /\ DOMAIN h = TradeId /\ DOMAIN k = TradeId
      /\ Restoring(o) = Sum(h) /\ Restoring(o)' = Sum(k)
      /\ \A t \in TradeId : h[t] = k[t]
    BY <1>2, TradedFacts, TradedFactsNext DEF RestoringOf, Restoring
<1>5. Sum(f) = Sum(g) /\ Sum(h) = Sum(k)
    BY <1>3, <1>4, SumSame
<1> QED
    BY <1>3, <1>4, <1>5

----------------------------------------------------------------------------
(* What the rows of an order say of each other and of its trades.          *)

(* m and r are its rows in the two tables; exact if no restoration failed  *)
(* or was overtaken, gone if the clean-up took r with trades to settle.    *)
Fits(m, r, pending, restoring, exact, gone) ==
    /\ r # NoRow => m # NoRow
    /\ m = NoRow => restoring = 0
    /\ m.avail >= 0
    /\ m.pend >= pending
    /\ exact => m.pend = pending
    /\ r # NoRow => /\ r.avail + r.pend = m.avail + m.pend
                    /\ r.avail + restoring <= m.avail
                    /\ exact => r.avail + restoring = m.avail
    /\ r = NoRow /\ ~ gone => m.avail = 0 /\ m.pend = 0

FitsAll ==
    \A o \in OrderId :
        Fits(main[o], tmp[o], Traded(o), Restoring(o), o \notin doubtful, o \in swept)

(* Only trades that are not launched are restored, by a rollback that has  *)
(* not deleted them yet, or after it has.                                  *)
Restored ==
    \A t \in TradeId :
        /\ trades[t].status \in {"none", "launched", "successful"} => restore[t] = "no"
        /\ rollback = "idle" /\ trades[t].status \in {"matched", "pending"}
               => restore[t] = "no"
        /\ trades[t].status # "none" => Exists(main, trades[t].order)

Sound == FitsAll /\ Restored

LEMMA RowFacts ==
    ASSUME Inv, NEW o \in OrderId
    PROVE  /\ main[o] \in Row \cup {NoRow} /\ tmp[o] \in Row \cup {NoRow}
           /\ main[o].avail \in Int /\ main[o].pend \in Int
           /\ tmp[o].avail \in Int /\ tmp[o].pend \in Int
           /\ Traded(o) \in Nat /\ Restoring(o) \in Nat
<1>1. main[o] \in Row \cup {NoRow} /\ tmp[o] \in Row \cup {NoRow}
    BY DEF Inv, Typed, Tables
<1>2. \A row \in Row \cup {NoRow} : row.avail \in Int /\ row.pend \in Int
    BY DEF Row, NoRow
<1> QED
    BY <1>1, <1>2, TradedFacts DEF Inv

LEMMA RowFactsNext ==
    ASSUME Inv', NEW o \in OrderId
    PROVE  /\ main'[o] \in Row \cup {NoRow} /\ tmp'[o] \in Row \cup {NoRow}
           /\ main'[o].avail \in Int /\ main'[o].pend \in Int
           /\ tmp'[o].avail \in Int /\ tmp'[o].pend \in Int
           /\ Traded(o)' \in Nat /\ Restoring(o)' \in Nat
<1>1. main'[o] \in Row \cup {NoRow} /\ tmp'[o] \in Row \cup {NoRow}
    BY DEF Inv, Typed, Tables
<1>2. \A row \in Row \cup {NoRow} : row.avail \in Int /\ row.pend \in Int
    BY DEF Row, NoRow
<1> QED
    BY <1>1, <1>2, TradedFactsNext DEF Inv

(* A row after an update.                                                  *)
RowUpdated(old, new, avail, pend) ==
    /\ old = NoRow => new = NoRow
    /\ old # NoRow => /\ new # NoRow
                      /\ new.avail = old.avail + avail
                      /\ new.pend = old.pend + pend

LEMMA UpdatedRows ==
    ASSUME NEW table \in Tables, NEW o \in OrderId, NEW avail \in Int, NEW pend \in Int,
           NEW canc \in Nat, NEW status \in {"live", "full_filled", "cancled"}, NEW new,
           new = Updated(table, o, avail, pend, canc, status)
    PROVE  /\ RowUpdated(table[o], new[o], avail, pend)
           /\ \A p \in OrderId \ {o} : new[p] = table[p]
<1>1. CASE ~ Exists(table, o)
  <2>1. new = table
      BY <1>1 DEF Updated
  <2> QED
      BY <1>1, <2>1 DEF RowUpdated, Exists
<1>2. CASE Exists(table, o)
  <2> DEFINE r == [avail |-> table[o].avail + avail, pend |-> table[o].pend + pend,
                   conf |-> table[o].conf, canc |-> table[o].canc + canc,
                   status |-> status]
  <2>1. new = [table EXCEPT ![o] = r]
      BY <1>2 DEF Updated
  <2>2. r # NoRow /\ r.avail = table[o].avail + avail /\ r.pend = table[o].pend + pend
      BY DEF NoRow
  <2> HIDE DEF r
  <2>3. new[o] = r /\ \A p \in OrderId \ {o} : new[p] = table[p]
      BY <2>1 DEF Tables
  <2> QED
      BY <1>2, <2>2, <2>3 DEF RowUpdated, Exists
<1> QED
    BY <1>1, <1>2

LEMMA ConfirmedRows ==
    ASSUME NEW table \in Tables, NEW o \in OrderId, NEW amount \in Nat, NEW new,
           new = Confirmed(table, o, amount)
    PROVE  /\ RowUpdated(table[o], new[o], 0, - amount)
           /\ \A p \in OrderId \ {o} : new[p] = table[p]
<1>1. CASE ~ Exists(table, o)
  <2>1. new = table
      BY <1>1 DEF Confirmed
  <2> QED
      BY <1>1, <2>1 DEF RowUpdated, Exists
<1>2. CASE Exists(table, o)
  <2> DEFINE r == RowConfirmed(table[o], amount)
  <2>1. table[o] \in Row
      BY <1>2 DEF Exists, Tables
  <2>2. new = [table EXCEPT ![o] = r]
      BY <1>2 DEF Confirmed, RowConfirmed
  <2>3. r \in Row /\ r.avail = table[o].avail /\ r.pend = table[o].pend - amount
    <3>1. PICK pend \in Int, conf \in Nat : /\ pend = table[o].pend - amount
                                            /\ conf = table[o].conf + amount
        BY <2>1 DEF Row
    <3>2. r = [table[o] EXCEPT !.conf = conf, !.pend = pend]
        BY <3>1 DEF RowConfirmed
    <3> HIDE DEF r
    <3> QED
        BY <2>1, <3>1, <3>2 DEF Row
  <2> HIDE DEF r
  <2>4. new[o] = r /\ \A p \in OrderId \ {o} : new[p] = table[p]
      BY <2>2 DEF Tables
  <2>5. r # NoRow
      BY <2>3 DEF Row, NoRow
  <2>6. table[o].avail \in Int /\ table[o].avail + 0 = table[o].avail
      BY <2>1 DEF Row
  <2>7. table[o].pend \in Int /\ table[o].pend + (- amount) = table[o].pend - amount
      BY <2>1 DEF Row
  <2> QED
      BY <1>2, <2>3, <2>4, <2>5, <2>6, <2>7 DEF RowUpdated, Exists
<1> QED
    BY <1>1, <1>2

(* The orders a step leaves alone still fit.                               *)
LEMMA FitsOthers ==
    ASSUME FitsAll, NEW S,
           \A o \in OrderId \ S :
              /\ main'[o] = main[o] /\ tmp'[o] = tmp[o]
              /\ Traded(o)' = Traded(o) /\ Restoring(o)' = Restoring(o)
              /\ o \in doubtful => o \in doubtful'
              /\ o \in swept => o \in swept',
           \A o \in OrderId \cap S :
              Fits(main'[o], tmp'[o], Traded(o)', Restoring(o)', o \notin doubtful', o \in swept')
    PROVE  FitsAll'
<1>1. ASSUME NEW o \in OrderId \ S
      PROVE  Fits(main'[o], tmp'[o], Traded(o)', Restoring(o)', o \notin doubtful', o \in swept')
  <2>1. Fits(main[o], tmp[o], Traded(o), Restoring(o), o \notin doubtful, o \in swept)
      BY DEF FitsAll
  <2> QED
      BY <2>1 DEF Fits
<1> QED
    BY <1>1 DEF FitsAll

LEMMA FitsButOne ==
    ASSUME FitsAll, NEW o \in OrderId,
           \A p \in OrderId \ {o} :
              /\ main'[p] = main[p] /\ tmp'[p] = tmp[p]
              /\ Traded(p)' = Traded(p) /\ Restoring(p)' = Restoring(p),
           doubtful \subseteq doubtful', swept \subseteq swept',
           Fits(main'[o], tmp'[o], Traded(o)', Restoring(o)', o \notin doubtful', o \in swept')
    PROVE  FitsAll'
<1> DEFINE S == {o}
<1>1. /\ \A p \in OrderId \ S :
            /\ main'[p] = main[p] /\ tmp'[p] = tmp[p]
            /\ Traded(p)' = Traded(p) /\ Restoring(p)' = Restoring(p)
            /\ p \in doubtful => p \in doubtful'
            /\ p \in swept => p \in swept'
      /\ \A p \in OrderId \cap S :
            Fits(main'[p], tmp'[p], Traded(p)', Restoring(p)', p \notin doubtful', p \in swept')
    OBVIOUS
<1> HIDE DEF S
<1> QED
    BY <1>1, FitsOthers

LEMMA FitsSame ==
    ASSUME FitsAll, main' = main, tmp' = tmp, swept' = swept, doubtful \subseteq doubtful',
           \A p \in OrderId : Traded(p)' = Traded(p) /\ Restoring(p)' = Restoring(p)
    PROVE  FitsAll'
<1> DEFINE S == {}
<1>1. /\ \A p \in OrderId \ S :
            /\ main'[p] = main[p] /\ tmp'[p] = tmp[p]
            /\ Traded(p)' = Traded(p) /\ Restoring(p)' = Restoring(p)
            /\ p \in doubtful => p \in doubtful'
            /\ p \in swept => p \in swept'
      /\ \A p \in OrderId \cap S :
            Fits(main'[p], tmp'[p], Traded(p)', Restoring(p)', p \notin doubtful', p \in swept')
    OBVIOUS
<1> HIDE DEF S
<1> QED
    BY <1>1, FitsOthers

(* A step that changes no trade.                                           *)
LEMMA SameTrades ==
    ASSUME Inv, Inv', UNCHANGED <<trades, restore>>, NEW o \in OrderId
    PROVE  Traded(o)' = Traded(o) /\ Restoring(o)' = Restoring(o)
<1>1. \A t \in TradeId : /\ PendingOf(o)'[t] = PendingOf(o)[t]
                         /\ RestoringOf(o)'[t] = RestoringOf(o)[t]
    BY DEF PendingOf, RestoringOf, Outstanding
<1> QED
    BY <1>1, TradedSame DEF Inv

LEMMA SoundInit == Init => Sound
<1> SUFFICES ASSUME Init
             PROVE  Sound
    OBVIOUS
<1>1. Inv
    BY InvInit
<1>2. Restored
    BY DEF Init, Restored, NoTrade
<1>3. ASSUME NEW o \in OrderId
      PROVE  Fits(main[o], tmp[o], Traded(o), Restoring(o), o \notin doubtful, o \in swept)
  <2>1. main[o] = NoRow /\ tmp[o] = NoRow /\ \A t \in TradeId : trades[t].status = "none"
      BY DEF Init, NoTrade
  <2>2. Sum(PendingOf(o)) = 0 /\ Sum(RestoringOf(o)) = 0
    <3>1. DOMAIN PendingOf(o) = TradeId /\ DOMAIN RestoringOf(o) = TradeId
        BY DEF PendingOf, RestoringOf
    <3>2. \A t \in TradeId : PendingOf(o)[t] = 0 /\ RestoringOf(o)[t] = 0
        BY <2>1 DEF PendingOf, RestoringOf
    <3> QED
        BY <3>1, <3>2, SumZero, ExchangeAssumption
  <2>3. Traded(o) = 0 /\ Restoring(o) = 0
      BY <1>1, <2>2, TradedFacts DEF Restoring, Inv
  <2> QED
      BY <2>1, <2>3 DEF Fits, NoRow
<1> QED
    BY <1>2, <1>3 DEF Sound, FitsAll

LEMMA PlaceSound ==
    ASSUME Inv, Inv', Sound, NEW o \in OrderId, Place(o)
    PROVE  Sound'
<1> DEFINE row == [NoRow EXCEPT !.avail = Order[o].amount, !.status = "live"]
<1>1. /\ main[o] = NoRow
      /\ main' = [main EXCEPT ![o] = row] /\ tmp' = [tmp EXCEPT ![o] = row]
      /\ UNCHANGED <<trades, restore, rollback, doubtful, swept>>
    BY DEF Place, Exists, rolling
<1>2. row.avail \in Nat /\ row.pend = 0 /\ row # NoRow
    BY OrderAssumption DEF NoRow
<1> HIDE DEF row
<1>3. /\ main'[o] = row /\ tmp'[o] = row
      /\ \A p \in OrderId \ {o} : main'[p] = main[p] /\ tmp'[p] = tmp[p]
    BY <1>1 DEF Inv, Typed, Tables
<1>4. \A p \in OrderId : Traded(p)' = Traded(p) /\ Restoring(p)' = Restoring(p)
    BY <1>1, SameTrades
<1>5. Fits(main'[o], tmp'[o], Traded(o)', Restoring(o)', o \notin doubtful', o \in swept')
  <2>1. Fits(main[o], tmp[o], Traded(o), Restoring(o), o \notin doubtful, o \in swept)
      BY DEF Sound, FitsAll
  <2>2. Traded(o) = 0 /\ Restoring(o) = 0
      BY <1>1, <2>1, RowFacts DEF Fits, NoRow
  <2> QED
      BY <1>2, <1>3, <1>4, <2>2 DEF Fits
<1>6. FitsAll'
    BY <1>1, <1>3, <1>4, <1>5, FitsButOne DEF Sound
<1>7. Restored'
  <2>1. \A t \in TradeId : trades[t].status # "none" => trades[t].order \in OrderId
      BY TradeFacts DEF Inv
  <2> QED
      BY <1>1, <1>2, <1>3, <2>1 DEF Sound, Restored, Exists
<1> QED
    BY <1>6, <1>7 DEF Sound

LEMMA CancelSound ==
    ASSUME Inv, Inv', Sound, NEW o \in OrderId, Cancel(o)
    PROVE  Sound'
<1>1. PICK left : /\ left = main[o].avail /\ left > 0
                  /\ main' = Updated(main, o, - left, 0, left, "cancled")
                  /\ tmp' = Updated(tmp, o, - left, 0, left, "cancled")
                  /\ UNCHANGED <<trades, restore, rollback, doubtful, swept>>
    BY DEF Cancel, find_order, rolling
<1>2. left \in Nat /\ - left \in Int
    BY <1>1, RowFacts
<1>3. /\ RowUpdated(main[o], main'[o], - left, 0)
      /\ \A p \in OrderId \ {o} : main'[p] = main[p]
    BY <1>1, <1>2, UpdatedRows DEF Inv, Typed
<1>4. /\ RowUpdated(tmp[o], tmp'[o], - left, 0)
      /\ \A p \in OrderId \ {o} : tmp'[p] = tmp[p]
    BY <1>1, <1>2, UpdatedRows DEF Inv, Typed
<1>5. \A p \in OrderId : Traded(p)' = Traded(p) /\ Restoring(p)' = Restoring(p)
    BY <1>1, SameTrades
<1>6. Fits(main'[o], tmp'[o], Traded(o)', Restoring(o)', o \notin doubtful', o \in swept')
  <2>1. Fits(main[o], tmp[o], Traded(o), Restoring(o), o \notin doubtful, o \in swept)
      BY DEF Sound, FitsAll
  <2>2. main[o] # NoRow
      BY <1>1 DEF NoRow
  <2>3. main'[o] # NoRow /\ main'[o].avail = 0 /\ main'[o].pend = main[o].pend
      BY <1>1, <1>2, <1>3, <2>2, RowFacts DEF RowUpdated
  <2>4. tmp[o] = NoRow => tmp'[o] = NoRow
      BY <1>4 DEF RowUpdated
  <2>5. tmp[o] # NoRow => /\ tmp'[o] # NoRow /\ tmp'[o].avail = tmp[o].avail - main[o].avail
                          /\ tmp'[o].pend = tmp[o].pend
      BY <1>1, <1>2, <1>4, RowFacts DEF RowUpdated
  <2>6. Traded(o)' = Traded(o) /\ Restoring(o)' = Restoring(o)
      BY <1>5
  <2> QED
      BY <1>1, <2>1, <2>2, <2>3, <2>4, <2>5, <2>6, RowFacts DEF Fits
<1>7. FitsAll'
    BY <1>1, <1>3, <1>4, <1>5, <1>6, FitsButOne DEF Sound
<1>8. Restored'
  <2>1. \A t \in TradeId : trades[t].status # "none" => trades[t].order \in OrderId
      BY TradeFacts DEF Inv
  <2> QED
      BY <1>1, <1>3, <2>1 DEF Sound, Restored, Exists, RowUpdated
<1> QED
    BY <1>7, <1>8 DEF Sound

LEMMA MatchSound ==
    ASSUME Inv, Inv', Sound, NEW o \in OrderId, NEW t \in TradeId,
           NEW amount \in 1 .. tmp[o].avail, Match(o, t, amount)
    PROVE  Sound'
<1>1. amount \in Nat \ {0} /\ - amount \in Int /\ amount <= tmp[o].avail
    BY RowFacts
<1>2. PICK status \in {"live", "full_filled"} :
        /\ main' = Updated(main, o, - amount, amount, 0, status)
        /\ tmp' = Updated(tmp, o, - amount, amount, 0, status)
    BY DEF Match
<1>3. /\ trades[t] = NoTrade
      /\ trades' = [trades EXCEPT ![t] = [order |-> o, amount |-> amount,
                                         status |-> "matched"]]
      /\ UNCHANGED <<restore, rollback, doubtful, swept>>
    BY DEF Match, insert_trades, rolling
<1>u. /\ amount \in Int /\ status \in {"live", "full_filled", "cancled"}
      /\ main \in Tables /\ tmp \in Tables /\ 0 \in Nat
    BY <1>1, <1>2 DEF Inv, Typed
<1>4. /\ RowUpdated(main[o], main'[o], - amount, amount)
      /\ \A p \in OrderId \ {o} : main'[p] = main[p]
    BY <1>1, <1>2, <1>u, UpdatedRows
<1>5. /\ RowUpdated(tmp[o], tmp'[o], - amount, amount)
      /\ \A p \in OrderId \ {o} : tmp'[p] = tmp[p]
    BY <1>1, <1>2, <1>u, UpdatedRows
<1>6. /\ trades[t].status = "none" /\ restore[t] = "no" /\ restore'[t] = "no"
      /\ trades'[t].status = "matched" /\ trades'[t].order = o /\ trades'[t].amount = amount
      /\ \A u \in TradeId \ {t} : trades'[u] = trades[u] /\ restore'[u] = restore[u]
    BY <1>3 DEF Inv, Typed, Sound, Restored, NoTrade
<1>7. \A p \in OrderId : /\ Traded(p)' = Traded(p) + (IF p = o THEN amount ELSE 0)
                         /\ Restoring(p)' = Restoring(p)
  <2> SUFFICES ASSUME NEW p \in OrderId
               PROVE  /\ Traded(p)' = Traded(p) + (IF p = o THEN amount ELSE 0)
                      /\ Restoring(p)' = Restoring(p)
      OBVIOUS
  <2>1. /\ PendingOf(p)[t] = 0 /\ RestoringOf(p)[t] = 0
        /\ PendingOf(p)'[t] = IF p = o THEN amount ELSE 0
        /\ RestoringOf(p)'[t] = 0
      BY <1>6 DEF PendingOf, RestoringOf, Outstanding
  <2> QED
      BY <1>1, <1>6, <2>1, TradedChange, RowFacts DEF Inv
<1>8. main[o] # NoRow /\ tmp[o] # NoRow
  <2>1. tmp[o] # NoRow
      BY <1>1 DEF NoRow
  <2> QED
      BY <2>1 DEF Sound, FitsAll, Fits
<1>9. Fits(main'[o], tmp'[o], Traded(o)', Restoring(o)', o \notin doubtful', o \in swept')
  <2>1. Fits(main[o], tmp[o], Traded(o), Restoring(o), o \notin doubtful, o \in swept)
      BY DEF Sound, FitsAll
  <2> QED
      BY <1>1, <1>3, <1>4, <1>5, <1>7, <1>8, <2>1, RowFacts DEF Fits, RowUpdated
<1>10. \A p \in OrderId \ {o} : Traded(p)' = Traded(p)
    BY <1>7, RowFacts
<1>11. FitsAll'
    BY <1>3, <1>4, <1>5, <1>7, <1>9, <1>10, FitsButOne DEF Sound
<1>12. Restored'
  <2>1. \A u \in TradeId : trades[u].status # "none" => trades[u].order \in OrderId
      BY TradeFacts DEF Inv
  <2>2. \A p \in OrderId : Exists(main, p) => Exists(main', p)
      BY <1>4, <1>8 DEF Exists, RowUpdated
  <2>3. Exists(main', o)
      BY <1>4, <1>8 DEF Exists, RowUpdated
  <2> QED
      BY <1>3, <1>6, <2>1, <2>2, <2>3 DEF Sound, Restored
<1> QED
    BY <1>11, <1>12 DEF Sound

(* A trade's status changes, or how far it is restored.                    *)
LEMMA TradeSound ==
    ASSUME Inv, Inv', Sound, NEW t \in TradeId, Restored',
           \A u \in TradeId \ {t} : trades'[u] = trades[u] /\ restore'[u] = restore[u],
           UNCHANGED <<main, tmp, swept>>, doubtful \subseteq doubtful',
           \A o \in OrderId : /\ PendingOf(o)'[t] <= PendingOf(o)[t]
                              /\ RestoringOf(o)'[t] <= RestoringOf(o)[t]
                              /\ o \notin doubtful' => /\ PendingOf(o)'[t] = PendingOf(o)[t]
                                                       /\ RestoringOf(o)'[t] = RestoringOf(o)[t]
    PROVE  Sound'
<1>1. ASSUME NEW o \in OrderId
      PROVE  Fits(main'[o], tmp'[o], Traded(o)', Restoring(o)', o \notin doubtful', o \in swept')
  <2>1. Fits(main[o], tmp[o], Traded(o), Restoring(o), o \notin doubtful, o \in swept)
      BY DEF Sound, FitsAll
  <2>2. /\ PendingOf(o)[t] \in Nat /\ PendingOf(o)'[t] \in Nat
        /\ RestoringOf(o)[t] \in Nat /\ RestoringOf(o)'[t] \in Nat
      BY TradedFacts, TradedFactsNext DEF Inv
  <2>3. /\ Traded(o)' = Traded(o) + PendingOf(o)'[t] - PendingOf(o)[t]
        /\ Restoring(o)' = Restoring(o) + RestoringOf(o)'[t] - RestoringOf(o)[t]
      BY TradedChange DEF Inv
  <2>4. /\ Traded(o)' <= Traded(o) /\ Restoring(o)' <= Restoring(o)
        /\ o \notin doubtful' => Traded(o)' = Traded(o) /\ Restoring(o)' = Restoring(o)
      BY <2>2, <2>3, RowFacts
  <2>5. o \notin doubtful' => o \notin doubtful
      OBVIOUS
  <2> QED
      BY <2>1, <2>4, <2>5, RowFacts, RowFactsNext DEF Fits
<1> QED
    BY <1>1 DEF Sound, FitsAll

LEMMA LaunchSound ==
    ASSUME Inv, Inv', Sound, NEW t \in TradeId,
           Mark(t) \/ \E now \in Hour : Launch(t, now)
    PROVE  Sound'
<1>1. /\ Becomes(t, "matched", "pending") \/ Becomes(t, "pending", "launched")
      /\ rollback = "idle"
      /\ UNCHANGED <<main, tmp, restore, rollback, doubtful, swept>>
    BY DEF Mark, Launch, rolling
<1>2. PICK to \in {"pending", "launched"} :
        trades' = [trades EXCEPT ![t] = [@ EXCEPT !.status = to]]
    BY <1>1 DEF Becomes
<1>3. trades[t].status \in {"matched", "pending"} /\ trades[t] \in Trade
    BY <1>1, TradeFacts DEF Becomes, Inv
<1>4. /\ trades'[t].order = trades[t].order /\ trades'[t].amount = trades[t].amount
      /\ trades'[t].status = to
      /\ \A u \in TradeId \ {t} : trades'[u] = trades[u]
    BY <1>2, <1>3 DEF Inv, Typed, Trade
<1>5. restore[t] = "no"
    BY <1>1, <1>3 DEF Sound, Restored
<1>6. Restored'
    BY <1>1, <1>3, <1>4, <1>5 DEF Sound, Restored
<1>7. \A o \in OrderId : /\ PendingOf(o)'[t] = PendingOf(o)[t]
                         /\ RestoringOf(o)'[t] = RestoringOf(o)[t]
    BY <1>1, <1>3, <1>4, <1>5 DEF PendingOf, RestoringOf, Outstanding
<1>8. \A o \in OrderId : PendingOf(o)[t] \in Nat /\ RestoringOf(o)[t] \in Nat
    BY TradedFacts DEF Inv
<1> QED
    BY <1>1, <1>4, <1>6, <1>7, <1>8, TradeSound

LEMMA ConfirmSound ==
    ASSUME Inv, Inv', Sound, NEW t \in TradeId, Confirm(t)
    PROVE  Sound'
<1>1. PICK o, amount :
        /\ o = trades[t].order /\ amount = trades[t].amount
        /\ Becomes(t, "launched", "successful")
        /\ main' = Confirmed(main, o, amount) /\ tmp' = Confirmed(tmp, o, amount)
        /\ UNCHANGED <<restore, rollback, doubtful, swept>>
    BY DEF Confirm, rolling
<1>2. /\ o \in OrderId /\ amount \in Nat /\ trades[t] \in Trade
      /\ trades[t].status = "launched"
      /\ trades' = [trades EXCEPT ![t] = [@ EXCEPT !.status = "successful"]]
    BY <1>1, TradeFacts DEF Becomes, Inv
<1>3. /\ RowUpdated(main[o], main'[o], 0, - amount)
      /\ \A p \in OrderId \ {o} : main'[p] = main[p]
    BY <1>1, <1>2, ConfirmedRows DEF Inv, Typed
<1>4. /\ RowUpdated(tmp[o], tmp'[o], 0, - amount)
      /\ \A p \in OrderId \ {o} : tmp'[p] = tmp[p]
    BY <1>1, <1>2, ConfirmedRows DEF Inv, Typed
<1>5. /\ trades'[t].order = o /\ trades'[t].amount = amount
      /\ trades'[t].status = "successful"
      /\ \A u \in TradeId \ {t} : trades'[u] = trades[u]
    BY <1>1, <1>2 DEF Inv, Typed, Trade
<1>6. restore[t] = "no" /\ main[o] # NoRow
    BY <1>1, <1>2 DEF Sound, Restored, Exists
<1>7. \A p \in OrderId : /\ Traded(p)' = Traded(p) - (IF p = o THEN amount ELSE 0)
                         /\ Restoring(p)' = Restoring(p)
  <2> SUFFICES ASSUME NEW p \in OrderId
               PROVE  /\ Traded(p)' = Traded(p) - (IF p = o THEN amount ELSE 0)
                      /\ Restoring(p)' = Restoring(p)
      OBVIOUS
  <2>1. /\ PendingOf(p)[t] = (IF p = o THEN amount ELSE 0) /\ RestoringOf(p)[t] = 0
        /\ PendingOf(p)'[t] = 0 /\ RestoringOf(p)'[t] = 0
      BY <1>1, <1>2, <1>5, <1>6 DEF PendingOf, RestoringOf, Outstanding
  <2> QED
      BY <1>1, <1>2, <1>5, <2>1, TradedChange, RowFacts DEF Inv
<1>8. Fits(main'[o], tmp'[o], Traded(o)', Restoring(o)', o \notin doubtful', o \in swept')
  <2>1. Fits(main[o], tmp[o], Traded(o), Restoring(o), o \notin doubtful, o \in swept)
      BY <1>2 DEF Sound, FitsAll
  <2>2. amount <= Traded(o)
      BY <1>2, <1>7, RowFacts, RowFactsNext
  <2>3. amount > 0
      BY <1>1, <1>2 DEF Trade
  <2>4. /\ main'[o] # NoRow /\ main'[o].avail = main[o].avail
        /\ main'[o].pend = main[o].pend - amount
      BY <1>2, <1>3, <1>6, RowFacts DEF RowUpdated
  <2>5. tmp[o] = NoRow => tmp'[o] = NoRow
      BY <1>4 DEF RowUpdated
  <2>6. tmp[o] # NoRow => /\ tmp'[o] # NoRow /\ tmp'[o].avail = tmp[o].avail
                          /\ tmp'[o].pend = tmp[o].pend - amount
      BY <1>2, <1>4, RowFacts DEF RowUpdated
  <2>7. Traded(o)' = Traded(o) - amount /\ Restoring(o)' = Restoring(o)
      BY <1>2, <1>7
  <2> QED
      BY <1>1, <1>2, <2>1, <2>2, <2>3, <2>4, <2>5, <2>6, <2>7, RowFacts DEF Fits
<1>9. \A p \in OrderId \ {o} : Traded(p)' = Traded(p)
    BY <1>7, RowFacts
<1>10. FitsAll'
    BY <1>1, <1>2, <1>3, <1>4, <1>7, <1>8, <1>9, FitsButOne DEF Sound
<1>11. Restored'
  <2>1. \A u \in TradeId : trades[u].status # "none" => trades[u].order \in OrderId
      BY TradeFacts DEF Inv
  <2>2. \A p \in OrderId : Exists(main, p) => Exists(main', p)
      BY <1>3, <1>6 DEF Exists, RowUpdated
  <2> QED
      BY <1>1, <1>2, <1>5, <1>6, <2>1, <2>2 DEF Sound, Restored
<1> QED
    BY <1>10, <1>11 DEF Sound

LEMMA StartRollbackSound ==
    ASSUME Inv, Inv', Sound, StartRollback
    PROVE  Sound'
<1>1. /\ rollback = "idle" /\ rollback' = "read"
      /\ restore' = [t \in TradeId |-> IF t \in Unlaunched THEN "main" ELSE restore[t]]
      /\ UNCHANGED <<main, tmp, trades, doubtful, swept>>
    BY DEF StartRollback, tables
<1>2. \A t \in TradeId : IF trades[t].status \in {"matched", "pending"}
                         THEN restore[t] = "no" /\ restore'[t] = "main"
                         ELSE restore'[t] = restore[t]
    BY <1>1 DEF Unlaunched, Sound, Restored
<1>3. ASSUME NEW o \in OrderId
      PROVE  Traded(o)' = Traded(o) /\ Restoring(o)' = Restoring(o)
  <2>1. \A t \in TradeId : /\ PendingOf(o)'[t] = PendingOf(o)[t]
                           /\ RestoringOf(o)'[t] = RestoringOf(o)[t]
      BY <1>1, <1>2 DEF PendingOf, RestoringOf, Outstanding
  <2> QED
      BY <2>1, TradedSame DEF Inv
<1>4. FitsAll'
    BY <1>1, <1>3, FitsSame DEF Sound
<1>5. Restored'
    BY <1>1, <1>2 DEF Sound, Restored
<1> QED
    BY <1>4, <1>5 DEF Sound

LEMMA RestoreFacts ==
    ASSUME Inv, Sound, NEW t \in TradeId, restore[t] \in {"main", "tmp"}
    PROVE  /\ trades[t] \in Trade /\ trades[t].order \in OrderId
           /\ trades[t].amount \in Nat \ {0}
           /\ trades[t].status \in {"matched", "pending", "deleted"}
           /\ main[trades[t].order] # NoRow
<1>1. trades[t] \in Trade
    BY DEF Inv, Typed
<1>2. /\ trades[t].order \in OrderId /\ trades[t].amount \in Nat \ {0}
      /\ trades[t].status \in {"matched", "pending", "launched", "successful", "deleted"}
    BY <1>1 DEF Trade
<1> QED
    BY <1>1, <1>2 DEF Sound, Restored, Exists

LEMMA RestoreMainSound ==
    ASSUME Inv, Inv', Sound, NEW t \in TradeId, RestoreMain(t)
    PROVE  Sound'
<1>1. PICK o, amount :
        /\ o = trades[t].order /\ amount = trades[t].amount
        /\ restore[t] = "main" /\ restore' = [restore EXCEPT ![t] = "tmp"]
        /\ main' = Updated(main, o, amount, - amount, 0, "live")
        /\ UNCHANGED <<tmp, trades, rollback, doubtful, swept>>
    BY DEF RestoreMain
<1>2. /\ o \in OrderId /\ amount \in Nat \ {0} /\ - amount \in Int /\ main[o] # NoRow
      /\ trades[t].status \in {"matched", "pending", "deleted"}
    BY <1>1, RestoreFacts
<1>3. /\ RowUpdated(main[o], main'[o], amount, - amount)
      /\ \A p \in OrderId \ {o} : main'[p] = main[p]
    BY <1>1, <1>2, UpdatedRows DEF Inv, Typed
<1>4. restore'[t] = "tmp" /\ \A u \in TradeId \ {t} : restore'[u] = restore[u]
    BY <1>1 DEF Inv, Typed
<1>5. \A p \in OrderId : /\ Traded(p)' = Traded(p) - (IF p = o THEN amount ELSE 0)
                         /\ Restoring(p)' = Restoring(p) + (IF p = o THEN amount ELSE 0)
  <2> SUFFICES ASSUME NEW p \in OrderId
               PROVE  /\ Traded(p)' = Traded(p) - (IF p = o THEN amount ELSE 0)
                      /\ Restoring(p)' = Restoring(p) + (IF p = o THEN amount ELSE 0)
      OBVIOUS
  <2>1. /\ PendingOf(p)[t] = (IF p = o THEN amount ELSE 0) /\ RestoringOf(p)[t] = 0
        /\ PendingOf(p)'[t] = 0 /\ RestoringOf(p)'[t] = IF p = o THEN amount ELSE 0
      BY <1>1, <1>2, <1>4 DEF PendingOf, RestoringOf, Outstanding
  <2> QED
      BY <1>1, <1>2, <1>4, <2>1, TradedChange, RowFacts DEF Inv
<1>6. Fits(main'[o], tmp'[o], Traded(o)', Restoring(o)', o \notin doubtful', o \in swept')
  <2>1. Fits(main[o], tmp[o], Traded(o), Restoring(o), o \notin doubtful, o \in swept)
      BY <1>2 DEF Sound, FitsAll
  <2>2. amount <= Traded(o)
      BY <1>2, <1>5, RowFacts, RowFactsNext
  <2> QED
      BY <1>1, <1>2, <1>3, <1>5, <2>1, <2>2, RowFacts DEF Fits, RowUpdated
<1>7. \A p \in OrderId \ {o} : Traded(p)' = Traded(p) /\ Restoring(p)' = Restoring(p)
    BY <1>5, RowFacts
<1>8. FitsAll'
    BY <1>1, <1>2, <1>3, <1>6, <1>7, FitsButOne DEF Sound
<1>9. Restored'
  <2>1. \A u \in TradeId : trades[u].status # "none" => trades[u].order \in OrderId
      BY TradeFacts DEF Inv
  <2>2. \A p \in OrderId : Exists(main, p) => Exists(main', p)
      BY <1>2, <1>3 DEF Exists, RowUpdated
  <2> QED
      BY <1>1, <1>2, <1>4, <2>1, <2>2 DEF Sound, Restored
<1> QED
    BY <1>8, <1>9 DEF Sound

LEMMA RestoreTmpSound ==
    ASSUME Inv, Inv', Sound, NEW t \in TradeId, RestoreTmp(t)
    PROVE  Sound'
<1>1. PICK o, amount :
        /\ o = trades[t].order /\ amount = trades[t].amount
        /\ restore[t] = "tmp" /\ restore' = [restore EXCEPT ![t] = "done"]
        /\ tmp' = Updated(tmp, o, amount, - amount, 0, "live")
        /\ UNCHANGED <<main, trades, rollback, doubtful, swept>>
    BY DEF RestoreTmp
<1>2. /\ o \in OrderId /\ amount \in Nat \ {0} /\ - amount \in Int /\ main[o] # NoRow
      /\ trades[t].status \in {"matched", "pending", "deleted"}
    BY <1>1, RestoreFacts
<1>3. /\ RowUpdated(tmp[o], tmp'[o], amount, - amount)
      /\ \A p \in OrderId \ {o} : tmp'[p] = tmp[p]
  <2>1. amount \in Int /\ tmp \in Tables /\ 0 \in Nat /\ "live" \in {"live", "full_filled", "cancled"}
      BY <1>2 DEF Inv, Typed
  <2> QED
      BY <1>1, <1>2, <2>1, UpdatedRows
<1>4. restore'[t] = "done" /\ \A u \in TradeId \ {t} : restore'[u] = restore[u]
    BY <1>1 DEF Inv, Typed
<1>5. \A p \in OrderId : /\ Traded(p)' = Traded(p)
                         /\ Restoring(p)' = Restoring(p) - (IF p = o THEN amount ELSE 0)
  <2> SUFFICES ASSUME NEW p \in OrderId
               PROVE  /\ Traded(p)' = Traded(p)
                      /\ Restoring(p)' = Restoring(p) - (IF p = o THEN amount ELSE 0)
      OBVIOUS
  <2>1. /\ PendingOf(p)[t] = 0 /\ RestoringOf(p)[t] = IF p = o THEN amount ELSE 0
        /\ PendingOf(p)'[t] = 0 /\ RestoringOf(p)'[t] = 0
      BY <1>1, <1>2, <1>4 DEF PendingOf, RestoringOf, Outstanding
  <2> QED
      BY <1>1, <1>2, <1>4, <2>1, TradedChange, RowFacts DEF Inv
<1>6. Fits(main'[o], tmp'[o], Traded(o)', Restoring(o)', o \notin doubtful', o \in swept')
  <2>1. Fits(main[o], tmp[o], Traded(o), Restoring(o), o \notin doubtful, o \in swept)
      BY <1>2 DEF Sound, FitsAll
  <2> QED
      BY <1>1, <1>2, <1>3, <1>5, <2>1, RowFacts DEF Fits, RowUpdated
<1>7. \A p \in OrderId \ {o} : Restoring(p)' = Restoring(p)
    BY <1>5, RowFacts
<1>8. FitsAll'
    BY <1>1, <1>2, <1>3, <1>5, <1>6, <1>7, FitsButOne DEF Sound
<1>9. Restored'
    BY <1>1, <1>2, <1>4 DEF Sound, Restored
<1> QED
    BY <1>8, <1>9 DEF Sound

LEMMA RestoreFailsSound ==
    ASSUME Inv, Inv', Sound, NEW t \in TradeId, RestoreFails(t)
    PROVE  Sound'
<1>1. /\ restore[t] \in {"main", "tmp"} /\ restore' = [restore EXCEPT ![t] = "done"]
      /\ doubtful' = doubtful \cup {trades[t].order}
      /\ UNCHANGED <<main, tmp, trades, rollback, swept>>
    BY DEF RestoreFails, tables
<1>2. trades[t].status \in {"matched", "pending", "deleted"}
    BY <1>1, RestoreFacts
<1>3. restore'[t] = "done" /\ \A u \in TradeId \ {t} : restore'[u] = restore[u]
    BY <1>1 DEF Inv, Typed
<1>4. Restored'
    BY <1>1, <1>2, <1>3 DEF Sound, Restored
<1>5. \A o \in OrderId : PendingOf(o)'[t] = 0 /\ RestoringOf(o)'[t] = 0
    BY <1>1, <1>3 DEF PendingOf, RestoringOf, Outstanding
<1>6. \A o \in OrderId : PendingOf(o)[t] \in Nat /\ RestoringOf(o)[t] \in Nat
    BY TradedFacts DEF Inv
<1>7. \A o \in OrderId : o \notin doubtful' => PendingOf(o)[t] = 0 /\ RestoringOf(o)[t] = 0
  <2>1. \A o \in OrderId : o \notin doubtful' => trades[t].order # o
      BY <1>1
  <2> QED
      BY <2>1 DEF PendingOf, RestoringOf
<1> QED
    BY <1>1, <1>3, <1>4, <1>5, <1>6, <1>7, TradeSound

LEMMA DeleteTradesSound ==
    ASSUME Inv, Inv', Sound, DeleteTrades
    PROVE  Sound'
<1>1. /\ trades' = [t \in TradeId |-> IF t \in Unlaunched
                                      THEN [trades[t] EXCEPT !.status = "deleted"]
                                      ELSE trades[t]]
      /\ doubtful \subseteq doubtful'
      /\ UNCHANGED <<main, tmp, restore, swept>>
    BY DEF DeleteTrades
<1>2. ASSUME NEW t \in TradeId
      PROVE  IF trades[t].status \in {"matched", "pending"}
             THEN /\ trades'[t].status = "deleted"
                  /\ trades'[t].order = trades[t].order /\ trades'[t].amount = trades[t].amount
             ELSE trades'[t] = trades[t]
  <2>1. CASE t \in Unlaunched
    <3>1. trades[t] \in Trade /\ trades'[t] = [trades[t] EXCEPT !.status = "deleted"]
        BY <1>1, <2>1, TradeFacts DEF Unlaunched, Inv
    <3>2. /\ trades'[t].status = "deleted"
          /\ trades'[t].order = trades[t].order /\ trades'[t].amount = trades[t].amount
        BY <3>1 DEF Trade
    <3> QED
        BY <2>1, <3>2 DEF Unlaunched
  <2>2. CASE t \notin Unlaunched
      BY <1>1, <2>2 DEF Unlaunched
  <2> QED
      BY <2>1, <2>2
<1>3. ASSUME NEW o \in OrderId
      PROVE  Traded(o)' = Traded(o) /\ Restoring(o)' = Restoring(o)
  <2>1. ASSUME NEW t \in TradeId
        PROVE  /\ PendingOf(o)'[t] = PendingOf(o)[t]
               /\ RestoringOf(o)'[t] = RestoringOf(o)[t]
    <3>1. CASE trades[t].status \in {"matched", "pending"}
      <4>1. /\ trades'[t].status = "deleted" /\ restore'[t] = restore[t]
            /\ trades'[t].order = trades[t].order /\ trades'[t].amount = trades[t].amount
          BY <1>1, <1>2, <3>1
      <4> QED
          BY <3>1, <4>1 DEF PendingOf, RestoringOf, Outstanding
    <3>2. CASE trades[t].status \notin {"matched", "pending"}
      <4>1. trades'[t] = trades[t] /\ restore'[t] = restore[t]
          BY <1>1, <1>2, <3>2
      <4> QED
          BY <4>1 DEF PendingOf, RestoringOf, Outstanding
    <3> QED
        BY <3>1, <3>2
  <2> QED
      BY <2>1, TradedSame DEF Inv
<1>4. FitsAll'
    BY <1>1, <1>3, FitsSame DEF Sound
<1>5. Restored'
    BY <1>1, <1>2 DEF Sound, Restored
<1> QED
    BY <1>4, <1>5 DEF Sound

LEMMA CleanupSound ==
    ASSUME Inv, Inv', Sound, Cleanup
    PROVE  Sound'
<1>1. /\ tmp' = [o \in OrderId |-> IF o \in Swept THEN NoRow ELSE tmp[o]]
      /\ swept' = swept \cup {o \in Swept : main[o].avail + main[o].pend > 0}
      /\ UNCHANGED <<main, trades, restore, rollback, doubtful>>
    BY DEF Cleanup, rolling
<1>2. \A p \in OrderId : Traded(p)' = Traded(p) /\ Restoring(p)' = Restoring(p)
    BY <1>1, SameTrades
<1>3. ASSUME NEW o \in Swept
      PROVE  Fits(main'[o], tmp'[o], Traded(o)', Restoring(o)', o \notin doubtful', o \in swept')
  <2>1. o \in OrderId /\ tmp[o] # NoRow /\ tmp'[o] = NoRow
      BY <1>1 DEF Swept, Exists
  <2>2. Fits(main[o], tmp[o], Traded(o), Restoring(o), o \notin doubtful, o \in swept)
      BY <2>1 DEF Sound, FitsAll
  <2>3. o \in swept' \/ main[o].avail + main[o].pend <= 0
      BY <1>1, <2>1, RowFacts
  <2> QED
      BY <1>1, <1>2, <2>1, <2>2, <2>3, RowFacts DEF Fits
<1>4. \A o \in OrderId \ Swept : /\ main'[o] = main[o] /\ tmp'[o] = tmp[o]
                                 /\ o \in swept => o \in swept'
    BY <1>1
<1>5. FitsAll'
    BY <1>1, <1>2, <1>3, <1>4, FitsOthers DEF Sound
<1>6. Restored'
    BY <1>1 DEF Sound, Restored
<1> QED
    BY <1>5, <1>6 DEF Sound

LEMMA SoundNext == Inv /\ Inv' /\ Sound /\ [Next]_vars => Sound'
<1> SUFFICES ASSUME Inv, Inv', Sound, [Next]_vars
             PROVE  Sound'
    OBVIOUS
<1>1. CASE \E o \in OrderId : Place(o) \/ Cancel(o)
    BY <1>1, PlaceSound, CancelSound
<1>2. CASE \E o \in OrderId, t \in TradeId : \E amount \in 1 .. tmp[o].avail :
              Match(o, t, amount)
    BY <1>2, MatchSound
<1>3. CASE \E t \in TradeId : Mark(t) \/ Confirm(t) \/ \E now \in Hour : Launch(t, now)
    BY <1>3, LaunchSound, ConfirmSound
<1>4. CASE StartRollback \/ DeleteTrades \/ Cleanup
    BY <1>4, StartRollbackSound, DeleteTradesSound, CleanupSound
<1>5. CASE \E t \in TradeId : RestoreMain(t) \/ RestoreTmp(t) \/ RestoreFails(t)
    BY <1>5, RestoreMainSound, RestoreTmpSound, RestoreFailsSound
<1>6. CASE \/ ReadAccount \/ ReadFreeze \/ \E now \in Hour : WriteBook(now)
           \/ UNCHANGED vars
  <2>1. UNCHANGED <<main, tmp, trades, restore, rollback, doubtful, swept>>
      BY <1>6 DEF ReadAccount, ReadFreeze, WriteBook, tables, rolling, vars
  <2>2. \A p \in OrderId : Traded(p)' = Traded(p) /\ Restoring(p)' = Restoring(p)
      BY <2>1, SameTrades
  <2>3. FitsAll'
      BY <2>1, <2>2, FitsSame DEF Sound
  <2>4. Restored'
      BY <2>1 DEF Sound, Restored
  <2> QED
      BY <2>3, <2>4 DEF Sound
<1> QED
    BY <1>1, <1>2, <1>3, <1>4, <1>5, <1>6 DEF Next

----------------------------------------------------------------------------
(* What the book says of the orders and of the account.                    *)

NeedOf == [o \in Sells |-> main[o].avail + main[o].pend]

LiveOf == [o \in Sells |-> IF tmp[o].status = "live" THEN tmp[o].avail + tmp[o].pend ELSE 0]

UnminedOf ==
    [t \in TradeId |-> IF trades[t].status = "launched"
                       THEN Effect(Order[trades[t].order].side, trades[t].amount) ELSE 0]

LEMMA NeedFacts ==
    Inv => /\ Integral(NeedOf) /\ Integral(LiveOf)
           /\ LiveFreeze = Sum(LiveOf) /\ LiveFreeze \in Int
<1> SUFFICES ASSUME Inv
             PROVE  /\ Integral(NeedOf) /\ Integral(LiveOf)
                    /\ LiveFreeze = Sum(LiveOf) /\ LiveFreeze \in Int
    OBVIOUS
<1>1. IsFiniteSet(Sells) /\ Sells \subseteq OrderId
    BY ExchangeAssumption, FS_Subset DEF Sells
<1>2. \A o \in Sells : NeedOf[o] \in Int /\ LiveOf[o] \in Int
    BY <1>1, RowFacts DEF NeedOf, LiveOf
<1>3. DOMAIN NeedOf = Sells /\ DOMAIN LiveOf = Sells
    BY DEF NeedOf, LiveOf
<1>4. Integral(NeedOf) /\ Integral(LiveOf)
    BY <1>1, <1>2, <1>3 DEF Integral
<1>5. LiveFreeze = Sum(LiveOf)
  <2> DEFINE g == [o \in {o \in Sells : tmp[o].status = "live"} |-> tmp[o].avail + tmp[o].pend]
  <2>1. /\ DOMAIN g \subseteq DOMAIN LiveOf
        /\ \A o \in DOMAIN g : g[o] = LiveOf[o]
        /\ \A o \in DOMAIN LiveOf \ DOMAIN g : LiveOf[o] = 0
      BY DEF LiveOf
  <2>2. LiveFreeze = Sum(g)
      BY DEF LiveFreeze
  <2> HIDE DEF g
  <2> QED
      BY <1>4, <2>1, <2>2, SumWithout
<1> QED
    BY <1>4, <1>5, SumType

LEMMA NeedFactsNext ==
    Inv' => (/\ Integral(NeedOf) /\ Integral(LiveOf)
             /\ LiveFreeze = Sum(LiveOf) /\ LiveFreeze \in Int)'
  BY NeedFacts, PTL

LEMMA EffectType ==
    ASSUME NEW side, NEW amount \in Nat
    PROVE  Effect(side, amount) \in Int
  BY DivFacts, DebtAssumption DEF Effect, Fee

LEMMA UnminedFacts == Inv => Integral(UnminedOf) /\ Unmined = Sum(UnminedOf) /\ Unmined \in Int
<1> SUFFICES ASSUME Inv
             PROVE  Integral(UnminedOf) /\ Unmined = Sum(UnminedOf) /\ Unmined \in Int
    OBVIOUS
<1>1. \A t \in TradeId : UnminedOf[t] \in Int
  <2>1. \A t \in TradeId : trades[t].status = "launched" => trades[t].amount \in Nat
      BY TradeFacts DEF Inv
  <2> QED
      BY <2>1, EffectType DEF UnminedOf
<1>2. DOMAIN UnminedOf = TradeId
    BY DEF UnminedOf
<1>3. Integral(UnminedOf)
    BY <1>1, <1>2, ExchangeAssumption DEF Integral
<1>4. Unmined = Sum(UnminedOf)
  <2> DEFINE g == [t \in {t \in TradeId : trades[t].status = "launched"} |->
                      Effect(Order[trades[t].order].side, trades[t].amount)]
  <2>1. /\ DOMAIN g \subseteq DOMAIN UnminedOf
        /\ \A t \in DOMAIN g : g[t] = UnminedOf[t]
        /\ \A t \in DOMAIN UnminedOf \ DOMAIN g : UnminedOf[t] = 0
      BY DEF UnminedOf
  <2>2. Unmined = Sum(g)
      BY DEF Unmined
  <2> HIDE DEF g
  <2> QED
      BY <1>3, <2>1, <2>2, SumWithout
<1> QED
    BY <1>3, <1>4, SumType

LEMMA UnminedFactsNext ==
    Inv' => (Integral(UnminedOf) /\ Unmined = Sum(UnminedOf) /\ Unmined \in Int)'
  BY UnminedFacts, PTL

(* What the refresh has read is so, unless something changed since.        *)
ReadIsTrue ==
    /\ refresh # "idle" /\ ~ moved => account = net
    /\ refresh = "write" /\ ~ moved => frozen = LiveFreeze

BookInv ==
    /\ book.freeze \in Int /\ frozen \in Int
    /\ ReadIsTrue
    /\ FreezeExact
    /\ BookExact

(* The freeze moves with what an order needs.                              *)
LEMMA FreezeChange ==
    ASSUME Inv, Inv', FreezeExact, book.freeze \in Int, NEW o \in OrderId, NEW amount \in Int,
           loose' = loose,
           \A p \in OrderId \ {o} : main'[p] = main[p],
           main'[o].avail + main'[o].pend = main[o].avail + main[o].pend + amount,
           book'.freeze = IF Order[o].side = "sell" THEN book.freeze + amount ELSE book.freeze
    PROVE  FreezeExact'
<1>1. PICK f, g : f = NeedOf /\ g = NeedOf'
    OBVIOUS
<1>2. Integral(f) /\ Integral(g) /\ DOMAIN f = Sells /\ DOMAIN g = Sells
    BY <1>1, NeedFacts, NeedFactsNext DEF NeedOf, Sells
<1>3. CASE Order[o].side = "sell"
  <2>1. /\ o \in DOMAIN f /\ g[o] \in Int /\ g[o] - f[o] = amount
        /\ \A p \in DOMAIN f \ {o} : g[p] = f[p]
      BY <1>1, <1>2, <1>3, RowFacts, RowFactsNext DEF NeedOf, Sells
  <2>2. Sum(g) = Sum(f) + g[o] - f[o]
      BY <1>2, <2>1, SumChange
  <2>3. f[o] \in Int /\ Sum(f) \in Int
      BY <1>2, <2>1, SumType DEF Integral
  <2>4. Sum(g) = Sum(f) + amount
      BY <2>1, <2>2, <2>3
  <2> QED
      BY <1>1, <1>3, <2>4 DEF FreezeExact, NeedOf
<1>4. CASE Order[o].side # "sell"
  <2>1. \A p \in DOMAIN f : f[p] = g[p]
      BY <1>1, <1>2, <1>4 DEF NeedOf, Sells
  <2>2. Sum(f) = Sum(g)
      BY <1>2, <2>1, SumSame
  <2> QED
      BY <1>1, <1>4, <2>2 DEF FreezeExact, NeedOf
<1> QED
    BY <1>3, <1>4

LEMMA FreezeSame ==
    ASSUME Inv, Inv', FreezeExact, main' = main, book'.freeze = book.freeze, loose' = loose
    PROVE  FreezeExact'
<1>1. PICK f, g : f = NeedOf /\ g = NeedOf'
    OBVIOUS
<1>2. /\ Integral(f) /\ DOMAIN f = Sells /\ DOMAIN g = Sells
      /\ \A p \in DOMAIN f : f[p] = g[p]
    BY <1>1, NeedFacts DEF NeedOf, Sells
<1>3. Sum(f) = Sum(g)
    BY <1>2, SumSame
<1> QED
    BY <1>1, <1>3 DEF FreezeExact, NeedOf

(* The contract has the same to do, or one trade more or less.             *)
LEMMA UnminedSame ==
    ASSUME Inv, Inv', \A t \in TradeId : UnminedOf'[t] = UnminedOf[t]
    PROVE  Unmined' = Unmined
<1>1. PICK f, g : f = UnminedOf /\ g = UnminedOf'
    OBVIOUS
<1>2. /\ Integral(f) /\ DOMAIN f = TradeId /\ DOMAIN g = TradeId
      /\ \A t \in DOMAIN f : f[t] = g[t]
    BY <1>1, UnminedFacts DEF UnminedOf
<1>3. Sum(f) = Sum(g)
    BY <1>2, SumSame
<1> QED
    BY <1>1, <1>3, UnminedFacts, UnminedFactsNext

LEMMA UnminedChange ==
    ASSUME Inv, Inv', NEW t \in TradeId, \A u \in TradeId \ {t} : trades'[u] = trades[u]
    PROVE  Unmined' = Unmined + UnminedOf'[t] - UnminedOf[t]
<1>1. PICK f, g : f = UnminedOf /\ g = UnminedOf'
    OBVIOUS
<1>2. DOMAIN f = TradeId /\ DOMAIN g = TradeId
    BY <1>1 DEF UnminedOf
<1>3. Integral(f) /\ Integral(g) /\ g[t] \in Int
    BY <1>1, <1>2, UnminedFacts, UnminedFactsNext DEF Integral
<1>4. \A u \in DOMAIN f \ {t} : g[u] = f[u]
    BY <1>1, <1>2 DEF UnminedOf
<1>5. Sum(g) = Sum(f) + g[t] - f[t]
    BY <1>2, <1>3, <1>4, SumChange
<1> QED
    BY <1>1, <1>5, UnminedFacts, UnminedFactsNext

LEMMA FreezingFacts ==
    ASSUME BookOK(book), NEW o \in OrderId, NEW amount
    PROVE  /\ Freezing(o, amount).freeze =
                IF Order[o].side = "sell" THEN book.freeze + amount ELSE book.freeze
           /\ Net(Freezing(o, amount)) = Net(book)
<1>1. PICK f : book \in [balance : Nat, borrow : Int, debt : Int, since : Since,
                         freeze : {f}, broken : BOOLEAN]
    BY DEF BookOK
<1>2. CASE Order[o].side = "sell"
  <2> DEFINE c == [book EXCEPT !.freeze = book.freeze + amount]
  <2>1. Freezing(o, amount) = c
      BY <1>2 DEF Freezing
  <2>2. c.freeze = book.freeze + amount /\ c.balance = book.balance /\ c.borrow = book.borrow
      BY <1>1
  <2> QED
      BY <1>2, <2>1, <2>2 DEF Net
<1>3. CASE Order[o].side # "sell"
    BY <1>3 DEF Freezing
<1> QED
    BY <1>2, <1>3

LEMMA BookOfFacts ==
    ASSUME NEW amount \in Int, NEW freeze, NEW time
    PROVE  BookOf(amount, freeze, time).freeze = freeze /\ Net(BookOf(amount, freeze, time)) = amount
<1>1. CASE amount >= 0
    BY <1>1 DEF BookOf, Net
<1>2. CASE amount < 0
    BY <1>2 DEF BookOf, Net
<1> QED
    BY <1>1, <1>2

LEMMA LiveSame ==
    ASSUME Inv, Inv', tmp' = tmp
    PROVE  LiveFreeze' = LiveFreeze
<1>1. PICK f, g : f = LiveOf /\ g = LiveOf'
    OBVIOUS
<1>2. /\ Integral(f) /\ DOMAIN f = Sells /\ DOMAIN g = Sells
      /\ \A p \in DOMAIN f : f[p] = g[p]
    BY <1>1, NeedFacts DEF LiveOf, Sells
<1>3. Sum(f) = Sum(g)
    BY <1>2, SumSame
<1> QED
    BY <1>1, <1>3, NeedFacts, NeedFactsNext

LEMMA ReadChanges ==
    ASSUME Changes, UNCHANGED refreshing
    PROVE  ReadIsTrue'
  BY DEF Changes, refreshing, ReadIsTrue

LEMMA ReadSame ==
    ASSUME Inv, Inv', ReadIsTrue, UNCHANGED <<tmp, net, refreshing, moved>>
    PROVE  ReadIsTrue'
<1>1. LiveFreeze' = LiveFreeze
    BY LiveSame
<1> QED
    BY <1>1 DEF refreshing, ReadIsTrue

LEMMA NetType == ASSUME BookOK(book) PROVE Net(book) \in Int
  BY DEF BookOK, Net

(* An order takes what it needs into the freeze, or gives it back.         *)
LEMMA FreezeBook ==
    ASSUME Inv, Inv', BookInv, NEW o \in OrderId, NEW amount \in Int,
           \A p \in OrderId \ {o} : main'[p] = main[p],
           main'[o].avail + main'[o].pend = main[o].avail + main[o].pend + amount,
           book' = Freezing(o, amount), Changes,
           UNCHANGED <<refreshing, loose, drift>>,
           net' + Unmined' = net + Unmined
    PROVE  BookInv'
<1>1. /\ book'.freeze = IF Order[o].side = "sell" THEN book.freeze + amount ELSE book.freeze
      /\ Net(book') = Net(book)
    BY FreezingFacts DEF Inv
<1>2. book'.freeze \in Int /\ frozen' \in Int
    BY <1>1 DEF BookInv, refreshing
<1>3. FreezeExact'
    BY <1>1, FreezeChange DEF BookInv
<1>4. BookExact'
    BY <1>1 DEF BookInv, BookExact
<1> QED
    BY <1>2, <1>3, <1>4, ReadChanges DEF BookInv

(* Neither the freeze, the account nor what the contract has to do changes.*)
LEMMA OtherBook ==
    ASSUME Inv, Inv', BookInv, UNCHANGED <<book, net, refreshing, loose, drift>>,
           \/ main' = main
           \/ \E o \in OrderId :
                /\ \A p \in OrderId \ {o} : main'[p] = main[p]
                /\ main'[o].avail + main'[o].pend = main[o].avail + main[o].pend,
           Changes \/ UNCHANGED <<tmp, moved>>,
           \A t \in TradeId : UnminedOf'[t] = UnminedOf[t]
    PROVE  BookInv'
<1>1. ReadIsTrue'
    BY ReadChanges, ReadSame DEF BookInv
<1>2. FreezeExact'
  <2>1. CASE main' = main
      BY <2>1, FreezeSame DEF BookInv
  <2>2. ASSUME NEW o \in OrderId, \A p \in OrderId \ {o} : main'[p] = main[p],
               main'[o].avail + main'[o].pend = main[o].avail + main[o].pend
        PROVE  FreezeExact'
    <3>1. main'[o].avail + main'[o].pend = main[o].avail + main[o].pend + 0
        BY <2>2, RowFacts
    <3>2. book'.freeze = IF Order[o].side = "sell" THEN book.freeze + 0 ELSE book.freeze
        BY DEF BookInv
    <3>3. 0 \in Int
        OBVIOUS
    <3> QED
        BY <2>2, <3>1, <3>2, <3>3, FreezeChange DEF BookInv
  <2> QED
      BY <2>1, <2>2
<1>3. BookExact'
    BY UnminedSame DEF BookInv, BookExact
<1> QED
    BY <1>1, <1>2, <1>3 DEF BookInv, refreshing

LEMMA PlaceBook ==
    ASSUME Inv, Inv', Sound, BookInv, NEW o \in OrderId, Place(o)
    PROVE  BookInv'
<1> DEFINE row == [NoRow EXCEPT !.avail = Order[o].amount, !.status = "live"]
<1>1. /\ main[o] = NoRow /\ main' = [main EXCEPT ![o] = row]
      /\ book' = Freezing(o, Order[o].amount) /\ Changes
      /\ UNCHANGED <<trades, net, refreshing, loose, drift>>
    BY DEF Place, Exists
<1>2. Order[o].amount \in Nat
    BY OrderAssumption
<1>3. row.avail = Order[o].amount /\ row.pend = 0
    BY DEF NoRow
<1> HIDE DEF row
<1>4. /\ \A p \in OrderId \ {o} : main'[p] = main[p]
      /\ main'[o].avail + main'[o].pend = main[o].avail + main[o].pend + Order[o].amount
    BY <1>1, <1>2, <1>3 DEF Inv, Typed, Tables, NoRow
<1>5. \A t \in TradeId : UnminedOf'[t] = UnminedOf[t]
    BY <1>1 DEF UnminedOf
<1>6. net' + Unmined' = net + Unmined
    BY <1>1, <1>5, UnminedSame
<1> QED
    BY <1>1, <1>2, <1>4, <1>6, FreezeBook

LEMMA CancelBook ==
    ASSUME Inv, Inv', Sound, BookInv, NEW o \in OrderId, Cancel(o)
    PROVE  BookInv'
<1>1. PICK left : /\ left = main[o].avail /\ left > 0
                  /\ main' = Updated(main, o, - left, 0, left, "cancled")
                  /\ book' = Freezing(o, - left) /\ Changes
                  /\ UNCHANGED <<trades, net, refreshing, loose, drift>>
    BY DEF Cancel, find_order
<1>2. left \in Nat /\ - left \in Int
    BY <1>1, RowFacts
<1>3. /\ RowUpdated(main[o], main'[o], - left, 0)
      /\ \A p \in OrderId \ {o} : main'[p] = main[p]
    BY <1>1, <1>2, UpdatedRows DEF Inv, Typed
<1>4. main'[o].avail + main'[o].pend = main[o].avail + main[o].pend + (- left)
  <2>1. main[o] # NoRow
      BY <1>1 DEF NoRow
  <2> QED
      BY <1>1, <1>2, <1>3, <2>1, RowFacts DEF RowUpdated
<1>5. \A t \in TradeId : UnminedOf'[t] = UnminedOf[t]
    BY <1>1 DEF UnminedOf
<1>6. net' + Unmined' = net + Unmined
    BY <1>1, <1>5, UnminedSame
<1> QED
    BY <1>1, <1>2, <1>3, <1>4, <1>6, FreezeBook

LEMMA MatchBook ==
    ASSUME Inv, Inv', Sound, BookInv, NEW o \in OrderId, NEW t \in TradeId,
           NEW amount \in 1 .. tmp[o].avail, Match(o, t, amount)
    PROVE  BookInv'
<1>1. PICK status \in {"live", "full_filled"} :
        main' = Updated(main, o, - amount, amount, 0, status)
    BY DEF Match
<1>2. /\ trades[t] = NoTrade /\ Changes
      /\ trades' = [trades EXCEPT ![t] = [order |-> o, amount |-> amount,
                                         status |-> "matched"]]
      /\ UNCHANGED <<book, net, refreshing, loose, drift>>
    BY DEF Match, insert_trades
<1>3. /\ amount \in Int /\ - amount \in Int /\ status \in {"live", "full_filled", "cancled"}
      /\ main \in Tables /\ 0 \in Nat
    BY RowFacts DEF Inv, Typed
<1>4. /\ RowUpdated(main[o], main'[o], - amount, amount)
      /\ \A p \in OrderId \ {o} : main'[p] = main[p]
    BY <1>1, <1>3, UpdatedRows
<1>5. main'[o].avail + main'[o].pend = main[o].avail + main[o].pend
    BY <1>3, <1>4, RowFacts DEF RowUpdated
<1>6. \A u \in TradeId : UnminedOf'[u] = UnminedOf[u]
    BY <1>2 DEF UnminedOf, NoTrade, Inv, Typed
<1> QED
    BY <1>2, <1>4, <1>5, <1>6, OtherBook

LEMMA MarkBook ==
    ASSUME Inv, Inv', Sound, BookInv, NEW t \in TradeId, Mark(t)
    PROVE  BookInv'
<1>1. /\ Becomes(t, "matched", "pending")
      /\ UNCHANGED <<main, tmp, net, book, refreshing, loose, drift, moved>>
    BY DEF Mark
<1>2. /\ trades[t].status = "matched" /\ trades[t] \in Trade
      /\ trades' = [trades EXCEPT ![t] = [@ EXCEPT !.status = "pending"]]
    BY <1>1, TradeFacts DEF Becomes, Inv
<1>3. trades'[t].status = "pending" /\ \A u \in TradeId \ {t} : trades'[u] = trades[u]
    BY <1>2 DEF Inv, Typed, Trade
<1>4. \A u \in TradeId : UnminedOf'[u] = UnminedOf[u]
    BY <1>2, <1>3 DEF UnminedOf
<1> QED
    BY <1>1, <1>4, OtherBook

LEMMA LaunchBook ==
    ASSUME Inv, Inv', Sound, BookInv, NEW t \in TradeId, NEW now \in Hour, Launch(t, now)
    PROVE  BookInv'
<1>1. PICK side, amount :
        /\ side = Order[trades[t].order].side /\ amount = trades[t].amount
        /\ Becomes(t, "pending", "launched") /\ Changes
        /\ book' = Settled(book, side, amount, now)
        /\ drift' = (drift \/ book.balance = 0)
        /\ UNCHANGED <<main, net, refreshing, loose>>
    BY DEF Launch
<1>2. /\ trades[t].status = "pending" /\ trades[t] \in Trade /\ amount \in Nat
      /\ trades' = [trades EXCEPT ![t] = [@ EXCEPT !.status = "launched"]]
    BY <1>1, TradeFacts DEF Becomes, Inv
<1>3. /\ trades'[t].status = "launched" /\ trades'[t].order = trades[t].order
      /\ trades'[t].amount = trades[t].amount
      /\ \A u \in TradeId \ {t} : trades'[u] = trades[u]
    BY <1>2 DEF Inv, Typed, Trade
<1>4. now \in Hours(book)
    BY DEF Hour, Hours
<1>5. /\ book'.freeze = book.freeze
      /\ book.balance > 0 => Net(book') = Net(book) + Effect(side, amount)
    BY <1>1, <1>2, <1>4, SettledOK DEF Inv
<1>6. Unmined' = Unmined + Effect(side, amount)
  <2>1. UnminedOf[t] = 0 /\ UnminedOf'[t] = Effect(side, amount)
      BY <1>1, <1>2, <1>3 DEF UnminedOf
  <2>2. Effect(side, amount) \in Int
      BY <1>2, EffectType
  <2> QED
      BY <1>3, <2>1, <2>2, UnminedChange, UnminedFacts
<1>7. BookExact'
  <2>1. ~ drift' => ~ drift /\ book.balance # 0
      BY <1>1, Zenon
  <2>3. book.balance \in Nat
      BY DEF Inv, BookOK
  <2>2. Effect(side, amount) \in Int /\ Net(book) \in Int /\ net \in Int /\ Unmined \in Int
      BY <1>2, EffectType, NetType, UnminedFacts DEF Inv, Typed
  <2> QED
      BY <1>1, <1>5, <1>6, <2>1, <2>2, <2>3 DEF BookInv, BookExact
<1>8. FreezeExact'
    BY <1>1, <1>5, FreezeSame DEF BookInv
<1> QED
    BY <1>1, <1>5, <1>7, <1>8, ReadChanges DEF BookInv, refreshing

LEMMA ConfirmBook ==
    ASSUME Inv, Inv', Sound, BookInv, NEW t \in TradeId, Confirm(t)
    PROVE  BookInv'
<1>1. PICK o, amount :
        /\ o = trades[t].order /\ amount = trades[t].amount
        /\ Becomes(t, "launched", "successful") /\ Changes
        /\ net' = net + Effect(Order[o].side, amount)
        /\ main' = Confirmed(main, o, amount)
        /\ book' = Freezing(o, - amount)
        /\ UNCHANGED <<refreshing, loose, drift>>
    BY DEF Confirm
<1>2. /\ o \in OrderId /\ amount \in Nat /\ - amount \in Int /\ trades[t] \in Trade
      /\ trades[t].status = "launched"
      /\ trades' = [trades EXCEPT ![t] = [@ EXCEPT !.status = "successful"]]
    BY <1>1, TradeFacts DEF Becomes, Inv
<1>3. trades'[t].status = "successful" /\ \A u \in TradeId \ {t} : trades'[u] = trades[u]
    BY <1>2 DEF Inv, Typed, Trade
<1>4. /\ RowUpdated(main[o], main'[o], 0, - amount)
      /\ \A p \in OrderId \ {o} : main'[p] = main[p]
    BY <1>1, <1>2, ConfirmedRows DEF Inv, Typed
<1>5. main'[o].avail + main'[o].pend = main[o].avail + main[o].pend + (- amount)
  <2>1. main[o] # NoRow
      BY <1>1, <1>2 DEF Sound, Restored, Exists
  <2> QED
      BY <1>2, <1>4, <2>1, RowFacts DEF RowUpdated
<1>6. net' + Unmined' = net + Unmined
  <2>1. UnminedOf[t] = Effect(Order[o].side, amount) /\ UnminedOf'[t] = 0
      BY <1>1, <1>2, <1>3 DEF UnminedOf
  <2>2. Effect(Order[o].side, amount) \in Int /\ net \in Int
      BY <1>2, EffectType DEF Inv, Typed
  <2> QED
      BY <1>1, <1>3, <2>1, <2>2, UnminedChange, UnminedFacts
<1> QED
    BY <1>1, <1>2, <1>4, <1>5, <1>6, FreezeBook

LEMMA RestoreBook ==
    ASSUME Inv, Inv', Sound, BookInv, NEW t \in TradeId,
           RestoreMain(t) \/ RestoreTmp(t) \/ RestoreFails(t)
    PROVE  BookInv'
<1>1. /\ UNCHANGED <<trades, book, net, refreshing, loose, drift>>
      /\ Changes \/ UNCHANGED <<tmp, moved>>
    BY DEF RestoreMain, RestoreTmp, RestoreFails, tables
<1>2. \/ main' = main
      \/ \E o \in OrderId :
           /\ \A p \in OrderId \ {o} : main'[p] = main[p]
           /\ main'[o].avail + main'[o].pend = main[o].avail + main[o].pend
  <2>1. CASE RestoreMain(t)
    <3>1. PICK o, amount :
            /\ o = trades[t].order /\ amount = trades[t].amount /\ restore[t] = "main"
            /\ main' = Updated(main, o, amount, - amount, 0, "live")
        BY <2>1 DEF RestoreMain
    <3>2. o \in OrderId /\ amount \in Nat \ {0} /\ - amount \in Int
        BY <3>1, RestoreFacts
    <3>3. /\ RowUpdated(main[o], main'[o], amount, - amount)
          /\ \A p \in OrderId \ {o} : main'[p] = main[p]
        BY <3>1, <3>2, UpdatedRows DEF Inv, Typed
    <3>4. main'[o].avail + main'[o].pend = main[o].avail + main[o].pend
        BY <3>2, <3>3, RowFacts DEF RowUpdated
    <3> QED
        BY <3>2, <3>3, <3>4
  <2>2. CASE RestoreTmp(t) \/ RestoreFails(t)
      BY <2>2 DEF RestoreTmp, RestoreFails, tables
  <2> QED
      BY <2>1, <2>2
<1>3. \A u \in TradeId : UnminedOf'[u] = UnminedOf[u]
    BY <1>1 DEF UnminedOf
<1> QED
    BY <1>1, <1>2, <1>3, OtherBook

LEMMA RollbackBook ==
    ASSUME Inv, Inv', Sound, BookInv, StartRollback \/ DeleteTrades \/ Cleanup
    PROVE  BookInv'
<1>1. /\ UNCHANGED <<main, book, net, refreshing, loose, drift>>
      /\ Changes \/ UNCHANGED <<tmp, moved>>
    BY DEF StartRollback, DeleteTrades, Cleanup, tables
<1>2. \A t \in TradeId : UnminedOf'[t] = UnminedOf[t]
  <2>1. CASE StartRollback \/ Cleanup
    <3>1. trades' = trades
        BY <2>1 DEF StartRollback, Cleanup, tables
    <3> QED
        BY <3>1 DEF UnminedOf
  <2>2. CASE DeleteTrades
    <3> SUFFICES ASSUME NEW t \in TradeId
                 PROVE  UnminedOf'[t] = UnminedOf[t]
        OBVIOUS
    <3>1. trades'[t] = IF t \in Unlaunched THEN [trades[t] EXCEPT !.status = "deleted"]
                       ELSE trades[t]
        BY <2>2 DEF DeleteTrades
    <3>2. CASE t \in Unlaunched
      <4>1. trades[t] \in Trade /\ trades[t].status # "launched"
          BY <3>2, TradeFacts DEF Unlaunched, Inv
      <4>2. trades'[t].status = "deleted"
          BY <3>1, <3>2, <4>1 DEF Trade
      <4> QED
          BY <4>1, <4>2 DEF UnminedOf
    <3>3. CASE t \notin Unlaunched
        BY <3>1, <3>3 DEF UnminedOf
    <3> QED
        BY <3>2, <3>3
  <2> QED
      BY <2>1, <2>2
<1> QED
    BY <1>1, <1>2, OtherBook

LEMMA ReadBook ==
    ASSUME Inv, Inv', Sound, BookInv, ReadAccount \/ ReadFreeze
    PROVE  BookInv'
<1>1. UNCHANGED <<main, tmp, trades, net, book, loose, drift>>
    BY DEF ReadAccount, ReadFreeze, tables
<1>2. LiveFreeze' = LiveFreeze
    BY <1>1, LiveSame
<1>3. ReadIsTrue'
  <2>1. CASE ReadAccount
      BY <2>1 DEF ReadAccount, ReadIsTrue
  <2>2. CASE ReadFreeze
      BY <1>1, <1>2, <2>2 DEF ReadFreeze, ReadIsTrue, BookInv
  <2> QED
      BY <2>1, <2>2
<1>4. FreezeExact'
    BY <1>1, FreezeSame DEF BookInv
<1>5. BookExact'
  <2>1. \A t \in TradeId : UnminedOf'[t] = UnminedOf[t]
      BY <1>1 DEF UnminedOf
  <2> QED
      BY <1>1, <2>1, UnminedSame DEF BookInv, BookExact
<1>6. frozen' \in Int
    BY NeedFacts DEF BookInv, ReadAccount, ReadFreeze
<1> QED
    BY <1>1, <1>3, <1>4, <1>5, <1>6 DEF BookInv

(* A quiet refresh writes what the orders need: the query finds the rows   *)
(* that are live, and leaves none of the others with an amount.            *)
LEMMA WriteBookBook ==
    ASSUME Inv, Inv', Sound, BookInv, NEW now \in Hour, WriteBook(now)
    PROVE  BookInv'
<1>1. /\ refresh = "write" /\ refresh' = "idle"
      /\ book' = BookOf(account, frozen, now)
      /\ loose' = (moved \/ \E o \in OrderId :
                               Forgotten(o) \/ \E t \in Of(o) : restore[t] = "tmp")
      /\ drift' = (moved \/ \E t \in TradeId : trades[t].status = "launched")
      /\ frozen' = 0
      /\ UNCHANGED <<main, tmp, trades, net>>
    BY DEF WriteBook, tables
<1>2. book'.freeze = frozen /\ Net(book') = account
    BY <1>1, BookOfFacts DEF Inv, Typed
<1>3. FreezeExact'
  <2> SUFFICES ASSUME ~ loose'
               PROVE  book'.freeze = Sum(NeedOf')
      BY DEF FreezeExact, NeedOf
  <2>1. ~ moved /\ \A o \in OrderId : ~ Forgotten(o)
      BY <1>1
  <2>2. book'.freeze = Sum(LiveOf)
      BY <1>1, <1>2, <2>1, NeedFacts DEF BookInv, ReadIsTrue
  <2>3. PICK f, g : f = LiveOf /\ g = NeedOf'
      OBVIOUS
  <2>4. DOMAIN f = Sells /\ DOMAIN g = Sells
      BY <2>3 DEF LiveOf, NeedOf, Sells
  <2>5. ASSUME NEW o \in Sells
        PROVE  f[o] = g[o]
    <3>1. o \in OrderId /\ Order[o].side = "sell"
        BY DEF Sells
    <3>2. g[o] = main[o].avail + main[o].pend
        BY <1>1, <2>3, <3>1 DEF NeedOf, Sells
    <3>3. Fits(main[o], tmp[o], Traded(o), Restoring(o), o \notin doubtful, o \in swept)
        BY <3>1 DEF Sound, FitsAll
    <3>4. CASE tmp[o].status = "live"
      <4>1. tmp[o] # NoRow
          BY <3>4 DEF NoRow
      <4> QED
          BY <2>3, <3>2, <3>3, <3>4, <4>1 DEF Fits, LiveOf
    <3>5. CASE tmp[o].status # "live"
      <4>1. main[o].pend + main[o].avail <= 0
          BY <2>1, <3>1, <3>5, RowFacts DEF Forgotten
      <4> QED
          BY <2>3, <3>1, <3>2, <3>3, <3>5, <4>1, RowFacts DEF Fits, LiveOf
    <3> QED
        BY <3>4, <3>5
  <2>6. Integral(f)
      BY <2>3, NeedFacts
  <2>7. Sum(f) = Sum(g)
      BY <2>4, <2>5, <2>6, SumSame
  <2> QED
      BY <2>2, <2>3, <2>7
<1>4. BookExact'
  <2> SUFFICES ASSUME ~ drift'
               PROVE  Net(book') = net' + Unmined'
      BY DEF BookExact
  <2>1. account = net
      BY <1>1 DEF BookInv, ReadIsTrue
  <2>2. Unmined' = 0
    <3>1. PICK f : f = UnminedOf'
        OBVIOUS
    <3>2. DOMAIN f = TradeId /\ \A t \in TradeId : f[t] = 0
        BY <1>1, <3>1 DEF UnminedOf
    <3>3. Sum(f) = 0
        BY <3>2, SumZero, ExchangeAssumption
    <3> QED
        BY <3>1, <3>3, UnminedFactsNext
  <2> QED
      BY <1>1, <1>2, <2>1, <2>2 DEF Inv, Typed
<1> QED
    BY <1>1, <1>2, <1>3, <1>4 DEF BookInv, ReadIsTrue

LEMMA BookInit == Init => BookInv
<1> SUFFICES ASSUME Init
             PROVE  BookInv
    OBVIOUS
<1>0. Inv
    BY InvInit
<1>1. book.freeze = 0 /\ Net(book) = net
    BY BookOfFacts, ExchangeAssumption DEF Init
<1>2. Sum(NeedOf) = 0
  <2>1. DOMAIN NeedOf = Sells /\ IsFiniteSet(Sells)
      BY ExchangeAssumption, FS_Subset DEF NeedOf, Sells
  <2>2. \A o \in Sells : NeedOf[o] = 0
      BY DEF NeedOf, Init, NoRow, Sells
  <2> QED
      BY <2>1, <2>2, SumZero
<1>3. Unmined = 0
  <2>1. DOMAIN UnminedOf = TradeId /\ \A t \in TradeId : UnminedOf[t] = 0
      BY DEF UnminedOf, Init, NoTrade
  <2>2. Sum(UnminedOf) = 0
      BY <2>1, SumZero, ExchangeAssumption
  <2> QED
      BY <1>0, <2>2, UnminedFacts
<1>4. FreezeExact /\ BookExact
    BY <1>0, <1>1, <1>2, <1>3 DEF FreezeExact, BookExact, NeedOf, Inv, Typed
<1> QED
    BY <1>1, <1>4 DEF BookInv, ReadIsTrue, Init

LEMMA BookNext == Inv /\ Inv' /\ Sound /\ BookInv /\ [Next]_vars => BookInv'
<1> SUFFICES ASSUME Inv, Inv', Sound, BookInv, [Next]_vars
             PROVE  BookInv'
    OBVIOUS
<1>1. CASE \E o \in OrderId : Place(o) \/ Cancel(o)
    BY <1>1, PlaceBook, CancelBook
<1>2. CASE \E o \in OrderId, t \in TradeId : \E amount \in 1 .. tmp[o].avail :
              Match(o, t, amount)
    BY <1>2, MatchBook
<1>3. CASE \E t \in TradeId : Mark(t) \/ Confirm(t) \/ \E now \in Hour : Launch(t, now)
    BY <1>3, MarkBook, ConfirmBook, LaunchBook
<1>4. CASE StartRollback \/ DeleteTrades \/ Cleanup
    BY <1>4, RollbackBook
<1>5. CASE \E t \in TradeId : RestoreMain(t) \/ RestoreTmp(t) \/ RestoreFails(t)
    BY <1>5, RestoreBook
<1>6. CASE ReadAccount \/ ReadFreeze \/ \E now \in Hour : WriteBook(now)
    BY <1>6, ReadBook, WriteBookBook
<1>7. CASE UNCHANGED vars
  <2>1. UNCHANGED <<main, tmp, trades, net, book, refreshing, loose, drift, moved>>
      BY <1>7 DEF vars, refreshing
  <2>2. \A t \in TradeId : UnminedOf'[t] = UnminedOf[t]
      BY <2>1 DEF UnminedOf
  <2> QED
      BY <2>1, <2>2, OtherBook
<1> QED
    BY <1>1, <1>2, <1>3, <1>4, <1>5, <1>6, <1>7 DEF Next

(* What the rest of TypeOK says.                                           *)
Others ==
    /\ rollback \in {"idle", "read"} /\ matched \subseteq TradeId
    /\ refresh \in {"idle", "freeze", "write"} /\ failures \in Nat
    /\ doubtful \subseteq OrderId /\ swept \subseteq OrderId
    /\ loose \in BOOLEAN /\ drift \in BOOLEAN /\ moved \in BOOLEAN

LEMMA OthersTyped == Inv /\ Others /\ [Next]_vars => Others'
<1> SUFFICES ASSUME Inv, Others, [Next]_vars
             PROVE  Others'
    OBVIOUS
<1> USE DEF Others
<1>1. ASSUME NEW t \in TradeId, trades[t].status # "none"
      PROVE  trades[t].order \in OrderId
    BY <1>1, TradeFacts DEF Inv
<1>2. CASE \E o \in OrderId : Place(o) \/ Cancel(o)
    BY <1>2 DEF Place, Cancel, rolling, refreshing, Changes
<1>3. CASE \E o \in OrderId, t \in TradeId : \E amount \in 1 .. tmp[o].avail :
              Match(o, t, amount)
    BY <1>3 DEF Match, rolling, refreshing, Changes
<1>4. CASE \E t \in TradeId : Mark(t) \/ Confirm(t) \/ \E now \in Hour : Launch(t, now)
    BY <1>4 DEF Mark, Confirm, Launch, rolling, refreshing, Changes
<1>5. CASE StartRollback \/ Cleanup
    BY <1>5 DEF StartRollback, Cleanup, Unlaunched, Swept, rolling, refreshing, Changes
<1>6. CASE DeleteTrades
  <2>1. {trades[t].order : t \in Unlaunched \ matched} \subseteq OrderId
      BY <1>1 DEF Unlaunched
  <2> QED
      BY <1>6, <2>1 DEF DeleteTrades, refreshing
<1>7. CASE \E t \in TradeId : RestoreMain(t) \/ RestoreTmp(t)
    BY <1>7 DEF RestoreMain, RestoreTmp, refreshing, Changes
<1>8. CASE \E t \in TradeId : RestoreFails(t)
  <2>1. PICK t \in TradeId : RestoreFails(t)
      BY <1>8
  <2>2. trades[t].order \in OrderId
    <3>1. restore[t] \in {"main", "tmp"}
        BY <2>1 DEF RestoreFails
    <3>2. trades[t] \in Trade
        BY <3>1 DEF Inv, Typed
    <3> QED
        BY <3>2 DEF Trade
  <2> QED
      BY <2>1, <2>2 DEF RestoreFails, refreshing
<1>9. CASE ReadAccount \/ ReadFreeze \/ \E now \in Hour : WriteBook(now)
    BY <1>9 DEF ReadAccount, ReadFreeze, WriteBook, rolling
<1>10. CASE UNCHANGED vars
    BY <1>10 DEF vars
<1> QED
    BY <1>2, <1>3, <1>4, <1>5, <1>6, <1>7, <1>8, <1>9, <1>10 DEF Next

LEMMA AlwaysAll == Spec => [](Inv /\ Sound /\ BookInv /\ Others)
<1>1. Init => Inv /\ Sound /\ BookInv /\ Others
  <2>1. Init => Others
    <3> SUFFICES ASSUME Init
                 PROVE  Others
        OBVIOUS
    <3>1. failures \in Nat
        BY DEF Init
    <3>2. /\ rollback = "idle" /\ matched = {} /\ refresh = "idle"
          /\ doubtful = {} /\ swept = {}
          /\ loose = FALSE /\ drift = FALSE /\ moved = FALSE
        BY Zenon DEF Init
    <3> QED
        BY <3>1, <3>2 DEF Others
  <2> QED
      BY <2>1, InvInit, SoundInit, BookInit
<1>2. Inv /\ Sound /\ BookInv /\ Others /\ [Next]_vars
          => Inv' /\ Sound' /\ BookInv' /\ Others'
  <2> SUFFICES ASSUME Inv, Sound, BookInv, Others, [Next]_vars
               PROVE  Inv' /\ Sound' /\ BookInv' /\ Others'
      OBVIOUS
  <2>1. Inv'
      BY InvNext
  <2>2. Sound'
      BY <2>1, SoundNext
  <2>3. BookInv'
      BY <2>1, BookNext
  <2>4. Others'
      BY OthersTyped
  <2> QED
      BY <2>1, <2>2, <2>3, <2>4
<1> QED
    BY <1>1, <1>2, PTL DEF Spec

----------------------------------------------------------------------------
(* The theorems.                                                           *)

(* A book with a balance owes nothing, whatever updateBalanceBorrow2 adds  *)
(* to it or takes from it, at whatever hour, and whatever data_process     *)
(* writes over it: no debt is overwritten by the next borrowing.           *)
THEOREM BalanceOrDebt == Spec => []NeverBoth
<1>1. Inv => NeverBoth
    BY DEF Inv, BookOK, NeverBoth
<1> QED
    BY <1>1, Always, PTL

(* The balance of updateBalanceBorrow2 is never negative, and what it owes *)
(* is owed since an hour of the program's life, or since 1970.             *)
THEOREM BookFits ==
    Spec => [](book.balance \in Nat /\ book.since \in {0} \cup Epoch .. Epoch + MaxHours)
<1>1. Inv => book.balance \in Nat /\ book.since \in {0} \cup Epoch .. Epoch + MaxHours
    BY DEF Inv, BookOK, Since
<1> QED
    BY <1>1, Always, PTL

(* Nothing of an order is lost or made by the updates of mist_orders: of   *)
(* the engine, of cancellations and confirmations, and of rollback_trades, *)
(* also when a restoration fails or overlaps with new matches.             *)
THEOREM OrdersConserved == Spec => []Conserved
<1>1. Inv => Conserved
    BY DEF Inv
<1> QED
    BY <1>1, Always, PTL


(* Every row, trade and book that these processes write is one the tables  *)
(* and redis can hold, and the refresh has read numbers.                   *)
THEOREM TypeCorrect == Spec => []TypeOK
<1>1. Inv /\ Sound /\ BookInv /\ Others => TypeOK
  <2> SUFFICES ASSUME Inv, BookInv, Others
               PROVE  TypeOK
      OBVIOUS
  <2>1. book \in Book
    <3>1. Since \subseteq Nat
        BY ExchangeAssumption DEF Since
    <3> QED
        BY <3>1 DEF Inv, BookOK, BookInv, Book
  <2> QED
      BY <2>1 DEF TypeOK, Inv, Typed, BookInv, Tables, Others
<1> QED
    BY <1>1, AlwaysAll, PTL

(* The tables stay consistent, for any orders and trades, while the        *)
(* engine, rollback_trades, the clean-up and failures interleave: nothing  *)
(* of an order is lost; its pending amount is what its trades add up to,   *)
(* unless its restoration failed or was overtaken; and what is available   *)
(* rests in the book, unless its row was cleaned up too early.             *)
THEOREM TablesStaySound == Spec => []TablesSound
<1>1. Inv /\ Sound => TablesSound
  <2> SUFFICES ASSUME Inv, Sound
               PROVE  TablesSound
      OBVIOUS
  <2>1. PendingIsTraded
      BY DEF Sound, FitsAll, Fits, PendingIsTraded
  <2>2. RestsInTmp
    <3> SUFFICES ASSUME NEW o \in OrderId \ (swept \cup doubtful), main[o].avail > 0,
                        \A t \in Of(o) : restore[t] # "tmp"
                 PROVE  Exists(tmp, o) /\ tmp[o].avail = main[o].avail
        BY DEF RestsInTmp
    <3>1. Restoring(o) = 0
      <4>1. PICK f : f = RestoringOf(o)
          OBVIOUS
      <4>2. DOMAIN f = TradeId /\ \A t \in TradeId : f[t] = 0
          BY <4>1 DEF RestoringOf, Of
      <4> QED
          BY <4>1, <4>2, SumZero, ExchangeAssumption DEF Restoring
    <3>2. Fits(main[o], tmp[o], Traded(o), Restoring(o), o \notin doubtful, o \in swept)
        BY DEF Sound, FitsAll
    <3> QED
        BY <3>1, <3>2, RowFacts DEF Fits, Exists
  <2> QED
      BY <2>1, <2>2 DEF TablesSound, Inv
<1> QED
    BY <1>1, AlwaysAll, PTL

(* The local book in redis is right for any orders, trades, hours and      *)
(* growth of debts: its freeze is what the trader's orders need, and its   *)
(* balance is what the contract has once it has mined what is launched,    *)
(* whatever placements, matches, cancellations, confirmations, rollbacks   *)
(* and clean-ups a refresh runs among, as long as the last refresh was     *)
(* quiet and no book without a balance was moved.                          *)
THEOREM BookStaysSound == Spec => []BookSound
<1>1. BookInv => BookSound
    BY DEF BookInv, BookSound
<1> QED
    BY <1>1, AlwaysAll, PTL

=============================================================================
