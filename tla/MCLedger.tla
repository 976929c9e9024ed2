----------------------------- MODULE MCLedger -----------------------------
(* Ledger with invoices numbered in the order they fall due.               *)
EXTENDS Ledger, TLC

InOrder == [i \in Invoices |-> i]
Symmetry == Permutations(Sessions)
===========================================================================
