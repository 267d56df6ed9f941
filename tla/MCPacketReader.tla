--------------------------- MODULE MCPacketReader ---------------------------
(* The packet reader for TLC: packets that end at, before and behind the   *)
(* end of a buffer, and headers that straddle it, all fit into a few short *)
(* buffers.                                                                *)
EXTENDS PacketReader
=============================================================================
