------------------------- MODULE MCParallelProposer -------------------------
(* Instances of ParallelProposer for TLC.                                  *)
EXTENDS ParallelProposer

Symmetry == Permutations(Acceptor)
=============================================================================
