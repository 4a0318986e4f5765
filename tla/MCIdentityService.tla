-------------------------- MODULE MCIdentityService --------------------------
(* Instances of IdentityService for TLC: actors and witnesses are alike. *)
EXTENDS IdentityService, TLC

Interchangeable == Permutations(Actors) \cup Permutations(Witnesses)
=============================================================================
