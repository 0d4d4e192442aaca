------------------------------ MODULE MCLMRule ------------------------------
(* Two applications of one rule whose breaker opens on the second failure.    *)
EXTENDS LMRule
=============================================================================
