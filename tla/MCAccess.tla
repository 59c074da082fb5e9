------------------------------ MODULE MCAccess ------------------------------
(* A small instance of Access for TLC. *)
EXTENDS Access

CONSTANTS app, user

\* A client with an oauth2 credential and a key, a user with a password.
MCRegistered == {<<app, "oauth2">>, <<app, "key-auth">>, <<user, "basic-auth">>}
=============================================================================
