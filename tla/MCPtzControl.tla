---------------------------- MODULE MCPtzControl ----------------------------
(* Every command byte, with the other bytes at the bounds of their conversions. *)
EXTENDS PtzControl

MCMessage == [cmd : Byte, p5 : {0, 7, 8, 255}, p6 : {0, 3, 255}, p7 : {0, 15, 16, 255}]
=============================================================================
