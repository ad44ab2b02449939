---------------------------- MODULE MCSbnReceive ----------------------------
(* Small instances of SbnReceive: frames of a two-byte header and bodies of *)
(* up to MaxSize bytes, some of them larger than the buffer.                *)
EXTENDS SbnReceive

CONSTANT MaxSize

MCSizes == 0 .. MaxSize
=============================================================================
