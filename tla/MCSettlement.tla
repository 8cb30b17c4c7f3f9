---------------------------- MODULE MCSettlement ----------------------------
(* Settlement with three trades, batches of two.                           *)
EXTENDS Settlement, TLC

CONSTANTS t1, t2, t3

Symmetric == Permutations({t1, t2, t3})

=============================================================================
