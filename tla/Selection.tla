----------------------------- MODULE Selection -----------------------------
(***************************************************************************)
(* Array.prototype.filter, by the positions that pass.                     *)
(***************************************************************************)
EXTENDS Integers, Sequences

\* The elements of s at the positions in K, in order.
Selected(s, K) ==
  LET selected[n \in 0 .. Len(s)] ==
        IF n = 0 THEN <<>>
        ELSE IF n \in K THEN Append(selected[n - 1], s[n]) ELSE selected[n - 1]
  IN  selected[Len(s)]
=============================================================================
