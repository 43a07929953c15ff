----------------------------- MODULE Selection -----------------------------
(***************************************************************************)
(* SelectSeq with a set of values for its test, as the rows that a query   *)
(* returns in order, and sorted with a set of pairs for its key:           *)
(* definitions the provers can expand.                                     *)
(***************************************************************************)
EXTENDS Naturals, Sequences, FiniteSets

Among(s, S) ==
  LET upTo[n \in 0..Len(s)] ==
        IF n = 0 THEN <<>>
        ELSE IF s[n] \in S THEN Append(upTo[n - 1], s[n]) ELSE upTo[n - 1]
  IN upTo[Len(s)]

(* The members of S in the order of R: the k-th has k - 1 before it.       *)
Ranked(S, R) ==
  [k \in 1..Cardinality(S) |-> CHOOSE x \in S : Cardinality({y \in S : <<y, x>> \in R}) = k - 1]
=============================================================================
