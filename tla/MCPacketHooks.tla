--------------------------- MODULE MCPacketHooks ---------------------------
(***************************************************************************)
(* Two workers and two packets: two callbacks, or a vector and the         *)
(* receiving thread, meet at a channel, which may refuse what there would  *)
(* be room for or fail: with -1, with a code beyond the vector and with    *)
(* one that 16 bits make the index 1.  Two connections, so that both       *)
(* workers can come to wait for acknowledgements.                          *)
(***************************************************************************)
EXTENDS PacketHooks

MCFailCodes == {-1, -2, -65535}
=============================================================================
