------------------------- MODULE MCEVMNonceManager -------------------------
(* Small instances of EVMNonceManager for TLC. *)
EXTENDS EVMNonceManager, TLC

Symmetry == Permutations(Requests)
=============================================================================
