--------------------------------- MODULE Lists ---------------------------------
(***************************************************************************)
(* Selection from a list by a set instead of a predicate: SelectSeq, in a  *)
(* form that lemmas about every list and every selection can speak of.     *)
(***************************************************************************)
EXTENDS Integers, Sequences

\* The elements of s that lie in T, in their order.
Matching(s, T) ==
  LET upTo[n \in 0..Len(s)] ==
        IF n = 0 THEN <<>>
        ELSE IF s[n] \in T THEN Append(upTo[n - 1], s[n]) ELSE upTo[n - 1]
  IN upTo[Len(s)]
===============================================================================
