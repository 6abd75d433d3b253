---------------------------- MODULE MCMultiPaxos ----------------------------
(* TLC instances of MultiPaxos.  Proposers are numbers, for their rounds   *)
(* are compared; acceptors, which are not, are interchangeable.            *)
EXTENDS MultiPaxosInv, TLC

CONSTANTS v1, v2, a1, a2, a3

OneRoundEach == 0 :> 2 @@ 1 :> 2
ThreeRounds == 0 :> 3 @@ 1 :> 2
TwoRounds == 0 :> 3

OneRequestEach == 0 :> {v1} @@ 1 :> {v2}
BothRequests == 0 :> {v1, v2}

Symmetry == Permutations({a1, a2, a3})
=============================================================================
