--------------------------- MODULE MCBridgeUpdate ---------------------------
(* An instance of BridgeUpdate for TLC. *)
EXTENDS BridgeUpdate

AnyFault == FaultNames
=============================================================================
