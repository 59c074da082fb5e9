----------------------------- MODULE MCAuthCodes -----------------------------
(* Small instances of AuthCodes for TLC. *)
EXTENDS AuthCodes, TLC
=============================================================================
