------------------------- MODULE MCSessionLifecycle -------------------------
(* An instance of SessionLifecycle for TLC. *)
EXTENDS SessionLifecycle

AnyFault == FaultNames
=============================================================================
