----------------------- MODULE MCGatewayRegistration -----------------------
(* Small instances of the gateway registration. *)
EXTENDS GatewayRegistration
=============================================================================
