------------------------------- MODULE MCUtil -------------------------------
(* The util package for TLC: a bag of four places, five items and four      *)
(* priorities, and a ledger of a few rows over a few days, each by itself.  *)
EXTENDS PriorityBag, Ledger

VARIABLE part
utilVars == <<bagVars, ledgerVars, part>>

\* The keys differ only by name, and so do the items; four of the five are
\* enough of them, and cheaper.
UtilSymmetry ==
  Permutations(Items \ {CHOOSE i \in Items : TRUE}) \cup Permutations(Keys)

UtilInit == Init /\ LedgerInit /\ part \in {"bag", "ledger"} /\ (part = "bag" => compacts)

UtilNext ==
  \/ part = "bag" /\ Next /\ UNCHANGED <<ledgerVars, part>>
  \/ part = "ledger" /\ LedgerNext /\ UNCHANGED <<bagVars, part>>

UtilSpec == UtilInit /\ [][UtilNext]_utilVars
=============================================================================
