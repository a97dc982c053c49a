--------------------------- MODULE MCEventBuffer ---------------------------
(* Two slots on an arena of three bytes: blocks side by side and gaps that *)
(* are too small. One envelope and a queue of two.                         *)
EXTENDS EventBuffer

MCItem == [handle : Handle, length : 1 .. ArenaLen, copied : Byte]
=============================================================================
