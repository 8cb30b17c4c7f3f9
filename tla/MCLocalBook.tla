---------------------------- MODULE MCLocalBook ----------------------------
(* LocalBook with two traders.                                             *)
EXTENDS LocalBook

CONSTANTS A, B

=============================================================================
