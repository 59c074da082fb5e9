------------------------------ MODULE MCTokens ------------------------------
(* Small instances of Tokens for TLC. *)
EXTENDS Tokens, TLC

\* Tokens live one tick.
MCTTL == [ty \in Type |-> 1]

\* Ids are interchangeable, and so are calls.
Symm == Permutations(Id) \cup Permutations(Proc)
=============================================================================
