------------------------------- MODULE Filters -------------------------------
(* SelectSeq with a set for its test, as the proofs can reason about it.    *)
EXTENDS Naturals, Sequences

(* The elements of s that are in keep, in the order of s.                   *)
Kept(s, keep) ==
  LET upTo[n \in 0..Len(s)] ==
        IF n = 0 THEN <<>>
        ELSE IF s[n] \in keep THEN Append(upTo[n - 1], s[n]) ELSE upTo[n - 1]
  IN upTo[Len(s)]
=============================================================================
