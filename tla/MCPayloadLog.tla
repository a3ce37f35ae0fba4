---------------------------- MODULE MCPayloadLog ----------------------------
(* Bytes of two bits; a wanted message of two bytes. *)
EXTENDS PayloadLog

MCWanted == <<2, 1>>
MCParity == <<3>>
=============================================================================
