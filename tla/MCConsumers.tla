---------------------------- MODULE MCConsumers ----------------------------
(* Small instances of Consumers for TLC. *)
EXTENDS Consumers, TLC

\* Ids and calls are each interchangeable.
Symm == Permutations(UserId) \cup Permutations(AppId) \cup Permutations(Proc)
=============================================================================
