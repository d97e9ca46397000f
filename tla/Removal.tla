------------------------------- MODULE Removal -------------------------------
(* std::remove_if, with the erase that follows it. *)
EXTENDS Naturals, Sequences

\* What is left of s when every x is taken out of it, in the order it had.
Without(s, x) ==
  LET left[n \in 0..Len(s)] == IF n = 0 THEN <<>>
                               ELSE IF s[n] = x THEN left[n - 1]
                               ELSE Append(left[n - 1], s[n])
  IN  left[Len(s)]
=============================================================================
