--------------------------- MODULE MCPacketTransport ---------------------------
(* Instances of PacketTransport for TLC. *)
EXTENDS PacketTransport

=============================================================================
