-------------------------- MODULE MCAgentTransport --------------------------
(* Symmetry sets for the runs of AgentTransport that check no liveness.    *)
EXTENDS AgentTransport, TLC

Symmetry == Permutations(Procs) \cup Permutations(Custodies) \cup Permutations(Keys)
=============================================================================
