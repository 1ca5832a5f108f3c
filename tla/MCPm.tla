-------------------------------- MODULE MCPm --------------------------------
(* Pm for TLC: the loaders are interchangeable.                            *)
EXTENDS Pm, TLC

LoaderSymmetry == Permutations(Loaders)
=============================================================================
