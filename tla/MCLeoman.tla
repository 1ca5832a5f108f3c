------------------------------ MODULE MCLeoman ------------------------------
(* A single key, which is a Shift key: it sets the mask, and is a key that *)
(* MSG_GETC is answered with like any other.                               *)
EXTENDS Leoman

MCGarbage == Msg("garbage", 7)
=============================================================================
