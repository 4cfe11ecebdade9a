------------------------- MODULE MCOutboundDelivery -------------------------
(* Small instances of OutboundDelivery for TLC. *)
EXTENDS OutboundDelivery
=============================================================================
