--------------------------- MODULE MCCredentials ---------------------------
(* Small instances of Credentials for TLC. *)
EXTENDS Credentials, TLC

\* Calls are interchangeable.
Symm == Permutations(Proc)

\* No two calls have overlapped that may write the scopes of one credential, and one
\* credential at most has been deleted under a call, or its scopes set as a whole.
FewExempt == raced = {} /\ Cardinality(cut) + Cardinality(put) <= 1
=============================================================================
