---------------------------- MODULE VariantParts -----------------------------
(***************************************************************************)
(* The acceptor of ParallelPaxos with the learner and the proposer of the  *)
(* same replica, and BatchPaxos with the same acceptors as replicas.  They *)
(* share no state here: each is a specification of its own over its own    *)
(* variables.                                                              *)
(***************************************************************************)
EXTENDS ParallelAcceptor, Sequences

CONSTANTS
    Acceptor,
    NumLearners,     \* parallelPaxosLearners
    NumProposers,    \* parallelPaxosProposers
    ChanSize, MaxSlot,
    Alpha, QueueSize, UintSize, MaxRequests, Reports, MaxVRnd,
    Clients, MaxSeq, MaxBatch, BatchMaxReq   \* of BatchPaxos

ASSUME ProcessorsAssumption ==
    /\ IsFiniteSet(Acceptor)
    /\ NumLearners \in Nat \ {0} /\ NumProposers \in Nat \ {0}
    /\ MaxSlot \in Nat

(* Requests are counted in a uint, and are fewer than it can hold.         *)
ASSUME RequestsAssumption ==
    /\ Alpha \in Nat /\ MaxRequests \in Nat /\ UintSize \in Nat
    /\ MaxRequests + 1 < UintSize

(* Client ids in their order; numbers of requests start at 0.              *)
ASSUME BatchAssumption ==
    /\ Clients \in Seq({Clients[i] : i \in DOMAIN Clients})
    /\ MaxSeq \in Nat /\ MaxBatch \in Nat /\ BatchMaxReq \in Nat \ {0}

VARIABLES
    starter, learnChan, tokenChan, token, nextToDecide, slots, decided,
    isLeader, crnd, phase1done, phase1promises, adu, next, reqQueueLength,
    aduInProcessor, reqQueue, requests, sendAccepts, command, pnext, padu,
    proposal, isDecided, advanceChan, accepts, slotsDecided,
    batchNext, values, entries, batchMap, learns, batchPoints, commits,
    committed, execute, executed, batchAru, updates

Learner == INSTANCE ParallelLearner WITH NumProcessors <- NumLearners

Proposer == INSTANCE ParallelProposer WITH
    NumProcessors <- NumProposers, decided <- slotsDecided

Batch == INSTANCE BatchPaxos WITH Replica <- Acceptor, next <- batchNext

learnerVars == <<starter, learnChan, tokenChan, token, nextToDecide, slots,
                 decided>>
proposerVars == <<isLeader, crnd, phase1done, phase1promises, adu, next,
                  reqQueueLength, aduInProcessor, reqQueue, requests,
                  sendAccepts, command, pnext, padu, proposal, isDecided,
                  advanceChan, accepts, slotsDecided>>
batchVars == <<batchNext, values, entries, batchMap, learns, batchPoints,
               commits, committed, execute, executed, batchAru, updates>>

(* The processors of the parallel learner deliver in turn, each its own    *)
(* slots without a gap, and each slot learned from a quorum of one round   *)
(* (ParallelLearner): what the token of learner.go does, wherever the      *)
(* first learn makes it.                                                   *)
DeliversInTurn ==
    /\ Learner!InTurn
    /\ Learner!OneToken
    /\ Learner!LearnedByQuorum

(* The value delivered i-th is that of slot i (ParallelLearner).  The code *)
(* violates it.                                                            *)
InOrder == Learner!InOrder

(* A processor that sends an accept finds a request in the queue, and in   *)
(* the window of alpha slots (ParallelProposer), however late the commands *)
(* of proposer_demuxer.go reach it.                                        *)
QueueSuffices == Proposer!QueueSuffices /\ Proposer!AlphaRespected

(* All replicas execute the same requests in the same order, and only what *)
(* they have (BatchPaxos): the ranges of batchpoint.go.                    *)
SameOrder == Batch!SameOrder /\ Batch!ExecutesWhatItHas

(* No request of a client is left out between two batches (BatchPaxos).    *)
NoRequestSkipped == Batch!NoRequestSkipped
=============================================================================
