---------------------------- MODULE MCLiveRoom ----------------------------
(* An instance of LiveRoom for TLC: requests are interchangeable. *)
EXTENDS LiveRoom, TLC

Interchangeable == Permutations(Requests)
=============================================================================
