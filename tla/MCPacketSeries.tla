--------------------------- MODULE MCPacketSeries ---------------------------
(* Three entries, distances of -2 .. 1, a counter that saturates at 2. *)
EXTENDS PacketSeries

MCInt32Min == -2
=============================================================================
