----------------------------- MODULE MCVariants -----------------------------
(***************************************************************************)
(* ParallelPaxos and BatchPaxos for TLC.  The parts share no state, so a   *)
(* behaviour is one of a single instance: the initial state says of which, *)
(* and the variables of the others stay as they are.                       *)
(*                                                                         *)
(* "acceptor": two processors, two slots and two rounds.                   *)
(* "learner": two processors, three slots, learns of two rounds from three *)
(*     acceptors, for any slot first.                                      *)
(* "proposer": two processors, alpha of 2, two rounds as a leader.         *)
(* "order": three replicas, two batches, one request of each of two        *)
(*     clients.                                                            *)
(* "gaps": three replicas, two batches, two requests of one client.        *)
(***************************************************************************)
EXTENDS VariantParts, TLC

VARIABLE instance

MCClients == <<"c", "d">>

Is(i) == instance = i

MCInit ==
    /\ instance \in {"acceptor", "learner", "proposer", "order", "gaps"}
    /\ Init
    /\ Learner!Init
    /\ Proposer!Init
    /\ Batch!Init

MCNext ==
    /\ UNCHANGED instance
    /\ \/ /\ Is("acceptor") /\ Next
          /\ UNCHANGED <<learnerVars, proposerVars, batchVars>>
       \/ /\ Is("learner") /\ Learner!Next
          /\ UNCHANGED <<vars, proposerVars, batchVars>>
       \/ /\ Is("proposer") /\ Proposer!Next
          /\ UNCHANGED <<vars, learnerVars, batchVars>>
       \/ /\ Is("order") \/ Is("gaps")
          /\ Batch!Next
          /\ \A r \in Acceptor :
                 IF Is("gaps") THEN batchNext'[r]["d"] = 0
                 ELSE \A c \in {"c", "d"} : batchNext'[r][c] <= 1
          /\ UNCHANGED <<vars, learnerVars, proposerVars>>

MCSpec ==
    MCInit /\ [][MCNext]_<<instance, vars, learnerVars, proposerVars, batchVars>>

(* The acceptors of the learner and of the proposer are interchangeable,   *)
(* and so are the replicas of BatchPaxos.                                  *)
Symmetry == Permutations(Acceptor)
=============================================================================
