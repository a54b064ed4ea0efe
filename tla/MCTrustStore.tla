---------------------------- MODULE MCTrustStore ----------------------------
(* TrustStore for TLC: devices, commands and handlers are interchangeable. *)
EXTENDS TrustStore, TLC

Symmetry ==
  Permutations(Peers) \cup Permutations(Commands) \cup Permutations(Handlers)
=============================================================================
