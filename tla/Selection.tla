------------------------------ MODULE Selection ------------------------------
(***************************************************************************)
(* What a loop over a list, or a list comprehension with a condition,      *)
(* keeps of it.                                                            *)
(***************************************************************************)
EXTENDS Integers, Sequences

\* The indices that were found, in order.
Where(s, found) ==
    LET upTo[n \in 0..Len(s)] ==
            IF n = 0 THEN <<>>
            ELSE IF n \in found THEN Append(upTo[n - 1], n) ELSE upTo[n - 1]
    IN  upTo[Len(s)]

\* The elements at the indices that were found.
Kept(s, found) == LET at == Where(s, found) IN [n \in 1..Len(at) |-> s[at[n]]]

=============================================================================
