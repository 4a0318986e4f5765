--------------------------- MODULE MCKeyCustody ---------------------------
(* An instance of KeyCustody for TLC: processes are interchangeable. *)
EXTENDS KeyCustody, TLC

Interchangeable == Permutations(Processes)
=============================================================================
