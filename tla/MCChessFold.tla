---------------------------- MODULE MCChessFold ----------------------------
(* Instances of ChessFold for TLC: keys and identities are interchangeable. *)
EXTENDS LocalCommands, TLC

Interchangeable == Permutations(Keys) \cup Permutations(Identities)
=============================================================================
