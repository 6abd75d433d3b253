---------------------------- MODULE MCBroadcast ----------------------------
(***************************************************************************)
(* BroadcastParts for TLC: four replicas with a faulty publisher, two      *)
(* learners.                                                               *)
(***************************************************************************)
EXTENDS BroadcastParts, TLC

(* The learners of authbc and of the window are interchangeable, and so    *)
(* are the values.                                                         *)
Symmetry == Permutations(AuthLearner) \cup Permutations(Value)
=============================================================================
