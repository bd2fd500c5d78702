------------------------- MODULE MCOutboundPipeline -------------------------
(* An instance of OutboundPipeline for TLC. *)
EXTENDS OutboundPipeline
CONSTANT caller
=============================================================================
