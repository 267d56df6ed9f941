--------------------------- MODULE MCPacketWriter ---------------------------
(* The packet writer for TLC.                                              *)
EXTENDS PacketWriter

\* OutBuffer objects.
CONSTANTS b1, b2, b3
=============================================================================
