--------------------------- MODULE MCProposalSeam ---------------------------
(* The proposal seam by itself: two works over two premises, two proposals. *)
EXTENDS ProposalSeam

PremiseOf == [w \in Works |-> IF w = "w1" THEN "a" ELSE "b"]
StampsOf == [w \in Works |-> IF Premise[w] = "a" THEN "stamp-a" ELSE "stamp-b"]
RulesOf == [p \in Proposals |-> p]
ReferencesOf == [p \in Proposals |-> {"a"}]
=============================================================================
