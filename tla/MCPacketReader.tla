---------------------------- MODULE MCPacketReader ----------------------------
(* PacketReader on packets of a few bytes. *)
EXTENDS PacketReader

\* MAX_PACKET_LEN scaled down to 7: no body, the shortest and the longest body,
\* one too long, and the length that is PACKET_INVALID.
SomeLengths == {-1, 4, 5, 7, 8}
===============================================================================
