-------------------------------- MODULE Debt --------------------------------
(***************************************************************************)
(* How the launcher moves a local book: updateBalanceBorrow2 of            *)
(* src/src/adex_laucher/index.ts, for one trader and token.  A book has a  *)
(* balance or a debt; the debt grows by the hour.                          *)
(*                                                                         *)
(* Amounts are whole numbers of the smallest unit, of which a coin has     *)
(* Coin.  Books stay below ten coins, so that the strings of two amounts   *)
(* compare like the digits before the point, and these like numbers.       *)
(***************************************************************************)
EXTENDS Integers

CONSTANTS
    Coin,           \* 10 ^ 8 units
    Whole,          \* the growth of a debt in d hours is Growth[d] / Whole:
    Growth,         \* 1.000017 ^ d
    FeeDivisor      \* 1000: a buyer pays a thousandth of what it gets

ASSUME DebtAssumption ==
    /\ Coin \in Nat \ {0} /\ Whole \in Nat \ {0} /\ FeeDivisor \in Nat \ {0}
    /\ \A d \in DOMAIN Growth : Growth[d] \in Nat /\ Growth[d] >= Whole

(* broken: the balance is not a number.  repayAmount, which nothing reads, *)
(* is left out.                                                            *)
Book ==
    [balance : Nat, borrow : Int, debt : Int, since : Nat, freeze : Int,
     broken : BOOLEAN]

(* What the trader has, or owes.                                           *)
Net(book) == book.balance - book.borrow

(* The hours a book owes for, begun ones included.  A book that owes       *)
(* nothing has done so since 1970.                                         *)
Duration(book, now) == now - book.since + 1

(* The debt with interest, in whole coins.                                 *)
DebtAtNow(book, now) ==
    ((book.debt * Growth[Duration(book, now)]) \div (Whole * Coin)) * Coin

(* DebtAtNow and borrowAmount are compared as strings.                     *)
AtLeast(a, b) == IF a < 0 /\ b < 0 THEN a <= b ELSE a >= b

(* What an amount is worth at the time of the debt.                        *)
OriginAmount(book, add, now) ==
    LET discounted(a) == (a * Whole) \div Growth[Duration(book, now)] IN
    IF add < 0 THEN - discounted(- add) ELSE discounted(add)

(* Nothing is owed any more.  The sign of what is left is cut off, and if  *)
(* nothing is left it is its only digit that goes.                         *)
Cleared(book, rest) ==
    [book EXCEPT !.debt = 0, !.since = 0, !.borrow = 0, !.balance = rest,
                 !.broken = rest = 0]

(* A balance is spent, and the rest borrowed.                              *)
Mut_MovedBalance(book, add, now) == [book EXCEPT !.balance = @ + add]

MovedBalance(book, add, now) ==
    LET balance == book.balance + add IN
    IF balance >= 0 THEN [book EXCEPT !.balance = balance]
    ELSE [book EXCEPT !.balance = 0, !.borrow = - balance, !.debt = - balance,
                      !.since = now]

(* The debt with interest is at least what was borrowed.                   *)
MovedDebt(book, add, now) ==
    LET fee == DebtAtNow(book, now) - book.borrow
        left == book.debt - OriginAmount(book, add, now) IN
    CASE left <= 0 -> Cleared(book, - left)
      [] left > 0 /\ add >= fee ->
            [book EXCEPT !.debt = left, !.borrow = @ - (add - fee)]
      [] left > 0 /\ add < fee /\ add < 0 ->
            [book EXCEPT !.debt = left, !.borrow = @ - add]
      [] OTHER ->
            [book EXCEPT !.debt = left]

(* Or it is less, being rounded down.  The amount is compared in coins     *)
(* with what was borrowed in units.                                        *)
MovedBorrow(book, add, now) ==
    IF book.borrow * Coin <= add
    THEN [Cleared(book, add \div Coin - book.borrow) EXCEPT
             !.broken = book.borrow * Coin = add]
    ELSE [book EXCEPT !.debt = @ - OriginAmount(book, add, now), !.borrow = @ - add]

(* updateBalanceBorrow2; a broken book makes it throw.                     *)
Mut_Moved(book, add, now) ==
    CASE book.broken -> book
      [] ~ book.broken /\ book.balance > 0 ->
            [MovedBalance(book, add, now) EXCEPT !.balance = book.balance]
      [] OTHER ->
            IF AtLeast(DebtAtNow(book, now), book.borrow) THEN MovedDebt(book, add, now)
            ELSE MovedBorrow(book, add, now)

Moved(book, add, now) ==
    CASE book.broken -> book
      [] ~ book.broken /\ book.balance > 0 -> MovedBalance(book, add, now)
      [] OTHER ->
            IF AtLeast(DebtAtNow(book, now), book.borrow) THEN MovedDebt(book, add, now)
            ELSE MovedBorrow(book, add, now)

(* updateLocalBook, as far as it is about the base token: the seller pays  *)
(* the amount, the buyer gets it and then pays the fee.                    *)
Fee(amount) == amount \div FeeDivisor

Mut_Settled(book, side, amount, now) ==
    IF side = "sell" THEN Moved(book, - amount, now) ELSE Moved(book, amount, now)

Settled(book, side, amount, now) ==
    IF side = "sell" THEN Moved(book, - amount, now)
    ELSE Moved(Moved(book, amount, now), - Fee(amount), now)

(* The contract's repayment, as the launcher repeats it in test_repayment  *)
(* for comparison: an account without a debt gets the amount, and else it  *)
(* is repaid with interest.                                                *)
test_repayment(account, amount, now) ==
    LET growth == Growth[Duration(account, now)]
        total == (account.debt * growth) \div Whole
        rep == (amount * Whole) \div growth
        interest == total - account.borrow
        free(rest) == [account EXCEPT !.debt = 0, !.borrow = 0, !.since = 0,
                                      !.balance = @ + rest] IN
    CASE account.since = 0 ->
            [account EXCEPT !.balance = @ + amount]
      [] account.since # 0 /\ interest >= 0 /\ amount >= total ->
            free(amount - total)
      [] account.since # 0 /\ interest >= 0 /\ amount \in interest .. total - 1 ->
            [account EXCEPT !.debt = @ - rep, !.borrow = @ - (amount - interest)]
      [] account.since # 0 /\ interest >= 0 /\ amount < interest ->
            [account EXCEPT !.debt = @ - rep]
      [] account.since # 0 /\ interest < 0 /\ amount >= account.borrow ->
            free(amount)
      [] OTHER ->
            [account EXCEPT !.debt = @ - rep, !.borrow = @ - amount]

(* What the contract does to an account for the same trade.                *)
Effect(side, amount) == IF side = "sell" THEN - amount ELSE amount - Fee(amount)

=============================================================================
