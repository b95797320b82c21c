-------------------------- MODULE MCGatewayPublish --------------------------
(* A small instance of the publish transaction with a registered gateway.  *)
EXTENDS GatewayPublish

(* The service runs from the first install location; its code is what that *)
(* location holds.                                                         *)
MCCode == Seen
=============================================================================
