----------------------------- MODULE OnAccount -----------------------------
(***************************************************************************)
(* What the ledger promises about money: a payment arrives once, and all   *)
(* of it is either applied to invoices or kept on account.  Nothing moves  *)
(* afterwards.  Ledger implements this, whatever transactions overlap.     *)
(***************************************************************************)
EXTENDS Naturals

VARIABLES received, applied, onAccount

Init == received = 0 /\ applied = 0 /\ onAccount = 0

\* A payment of more than nothing, in two parts.
Receive == \E taken, kept \in 0 .. (received' - received) :
             /\ received' > received
             /\ received' = received + taken + kept
             /\ applied' = applied + taken
             /\ onAccount' = onAccount + kept

Spec == Init /\ [][Receive]_<<received, applied, onAccount>>
===========================================================================
