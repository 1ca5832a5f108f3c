------------------------------ MODULE MCWindow ------------------------------
EXTENDS Window

(* An answer always differs from its message.                              *)
MCAnswer == [m \in Data |-> 1 - m]
=============================================================================
