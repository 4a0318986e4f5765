------------------------- MODULE MCForgeRepository --------------------------
(* Instances of ForgeRepository for TLC: acts are interchangeable. *)
EXTENDS ForgeRepository, TLC

Interchangeable == Permutations(Acts)
=============================================================================
