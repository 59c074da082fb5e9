-------------------------- MODULE MCGatewayConfig --------------------------
(* Small instances of GatewayConfig for TLC. *)
EXTENDS GatewayConfig
=============================================================================
