------------------------------- MODULE MCStorage -------------------------------
(* A small instance of Storage: its constants are set in the .cfg.              *)
EXTENDS Storage, TLC

CONSTANTS cli1, cli2, alice, bob

Symmetry == Permutations({cli1, cli2}) \union Permutations({alice, bob})
===============================================================================
