-------------------------------- MODULE MCSar --------------------------------
(* Names of two lengths.                                                   *)
EXTENDS Sar

MCNameLen == [n \in Names |-> IF n = "sh" THEN 2 ELSE 3]
=============================================================================
