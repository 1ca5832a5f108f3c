----------------------------- MODULE MCConsole -----------------------------
(* Zero, a negative number, and one that fills a line.                     *)
EXTENDS Console

MCValues == {0, -9, 105}
=============================================================================
