------------------------------ MODULE Broadcast ------------------------------
(***************************************************************************)
(* What the two broadcast protocols (packages reliablebc, authenticatedbc) *)
(* share: the replicas, the faults they are built for and the thresholds.  *)
(*                                                                         *)
(* Rounds do not interact before delivery (PublishWindow has that part),   *)
(* so one round is modelled.  A value stands for its hash: two values with *)
(* the same 32-bit hash are not told apart by either protocol.  A message  *)
(* with a wrong MAC is dropped by every handler, so a message of a correct *)
(* replica is what that replica sent.                                      *)
(***************************************************************************)
EXTENDS Integers, FiniteSets

CONSTANTS
    Replica,    \* PaxosIDs; every node is publisher, acceptor and learner
    Publisher,  \* PaxosID 0
    Faulty,     \* replicas that may send anything to anyone
    Stopped,    \* replicas that send nothing
    Learner,    \* correct replicas whose learner takes part
    Value,
    None        \* the zero Value, and an absent map entry

nFaulty == (Cardinality(Replica) - 1) \div 3

(* The code computes nFaulty for every number of replicas; its thresholds  *)
(* make quorums intersect in a correct replica only for 3 * nFaulty + 1.   *)
ASSUME ReplicaAssumption ==
    /\ IsFiniteSet(Replica)
    /\ Publisher \in Replica
    /\ Cardinality(Replica) = 3 * nFaulty + 1

ASSUME FaultAssumption ==
    /\ Faulty \subseteq Replica
    /\ Stopped \subseteq Replica
    /\ Cardinality(Faulty \cup Stopped) <= nFaulty

ASSUME BroadcastValueAssumption == None \notin Value

Correct == Replica \ (Faulty \cup Stopped)

ASSUME LearnerAssumption == Learner \subseteq Correct

(* What a replica keeps per sender: the hash in its first message.         *)
Received == [Replica -> Value \cup {None}]
Nothing == [q \in Replica |-> None]

(* The senders whose message carried v.                                    *)
From(rec, v) == {q \in Replica : rec[q] = v}

(* compareCommits, comparePrepares, compareForwards: whether some hash has *)
(* more than t entries, not which.                                         *)
SomeHashAbove(rec, t) == \E v \in Value : Cardinality(From(rec, v)) > t

(* A message of q with v may arrive, when correct replicas sent sent: a    *)
(* faulty one may have sent anything.                                      *)
MayReceive(sent, q, v) ==
    \/ q \in Faulty
    \/ q \in Correct /\ v \in sent[q]

(* v may reach a learner's threshold: more than 2 * nFaulty replicas sent  *)
(* it, or may have.                                                        *)
Decidable(sent, v) ==
    Cardinality({q \in Replica : MayReceive(sent, q, v)}) > 2 * nFaulty
=============================================================================
