-------------------------------- MODULE Sums --------------------------------
(***************************************************************************)
(* Sums over the rows of a table: of the amounts of trades, of what orders *)
(* cost, of the levels of a book.                                          *)
(***************************************************************************)
EXTENDS Integers, FiniteSetsExt

(* The sum of the values of f.                                             *)
Sum(f) == MapThenSumSet(LAMBDA x : f[x], DOMAIN f)

=============================================================================
