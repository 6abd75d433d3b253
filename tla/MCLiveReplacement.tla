-------------------------- MODULE MCLiveReplacement --------------------------
(***************************************************************************)
(* LiveReplacement for TLC.  The initial state says of which instance a    *)
(* behaviour is.                                                           *)
(*                                                                         *)
(* "two": all replacers are installed, nobody learns.                      *)
(* "learner": one of them is installed, and a learner counts.              *)
(***************************************************************************)
EXTENDS LiveReplacement

VARIABLE instance

ThreePids == 1..3

OneReplacer == {<<2, 1>>}
TwoReplacers == {<<2, 1>>, <<3, 1>>}

FirstProposes == [r \in Round |-> <<1, 0>>]
First == <<1, 0>>

MCInit == Init /\ instance \in {"two", "learner"}

Two == instance = "two" /\ Next /\ UNCHANGED slot

WithLearner ==
    /\ instance = "learner"
    /\ Next
    /\ Cardinality({x \in Replacer : pes'[x] # {}}) <= 1

MCNext == UNCHANGED instance /\ (Two \/ WithLearner)

MCSpec == MCInit /\ [][MCNext]_<<instance, vars>>
=============================================================================
