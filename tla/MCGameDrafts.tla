---------------------------- MODULE MCGameDrafts ----------------------------
(* Instances of GameDrafts for TLC: tabs are interchangeable. *)
EXTENDS GameDrafts, TLC

Interchangeable == Permutations(Tabs)
=============================================================================
