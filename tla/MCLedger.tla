------------------------------- MODULE MCLedger ------------------------------
(* A ledger of a few rows over a few days, for TLC. *)
EXTENDS Ledger
=============================================================================
