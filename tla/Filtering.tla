------------------------------ MODULE Filtering ------------------------------
(***************************************************************************)
(* Filters as the code has them: a loop over a list that appends what      *)
(* passes.  It is SelectSeq with a set for its test, written out so that   *)
(* proofs can say what it does.                                            *)
(***************************************************************************)
EXTENDS Integers, Sequences

\* The elements of s that are in T, in their order.
Kept(s, T) ==
  LET kept[n \in 0 .. Len(s)] ==
        IF n = 0 THEN <<>>
        ELSE IF s[n] \in T THEN Append(kept[n - 1], s[n]) ELSE kept[n - 1]
  IN  kept[Len(s)]

==============================================================================
