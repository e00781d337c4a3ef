------------------------------- MODULE Filters -------------------------------
(* A Python comprehension with a condition, as a recursive function: the      *)
(* members of a sequence that are in a set, in their order.                   *)
EXTENDS Naturals, Sequences

Only(s, set) ==
    LET only[n \in 0..Len(s)] ==
            IF n = 0 THEN <<>>
            ELSE IF s[n] \in set THEN Append(only[n - 1], s[n]) ELSE only[n - 1]
    IN  only[Len(s)]

=============================================================================
