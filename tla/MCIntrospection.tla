-------------------------- MODULE MCIntrospection --------------------------
(* Small instances of Introspection for TLC. *)
EXTENDS Introspection
=============================================================================
