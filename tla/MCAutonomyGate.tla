--------------------------- MODULE MCAutonomyGate ---------------------------
(* A gate that changes mode a few times, for TLC. *)
EXTENDS AutonomyGate

\* The events a ledger row may hold.
Events == (1 .. MaxChanges) \X Modes
=============================================================================
