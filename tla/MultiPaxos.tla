----------------------------- MODULE MultiPaxos -----------------------------
(***************************************************************************)
(* A static goxos group running MultiPaxos: proposers, acceptors and       *)
(* learners that interact through the network and, on one node, through    *)
(* the server (the learner's decisions advance the proposer's adu).        *)
(*                                                                         *)
(* Trust messages arrive in any order at any node: the leader detector may *)
(* err, so several proposers may believe they lead at the same time.       *)
(***************************************************************************)
EXTENDS MultiProposer, MultiAcceptor, MultiLearner

vars == <<netVars, propVars, accVars, lrnVars>>

TypeOK == NetTypeOK /\ PropTypeOK /\ AccTypeOK /\ LrnTypeOK

Init == NetInit /\ PropInit /\ AccInit /\ LrnInit

(* propDcdChan holds one signal per slot the server executed and the       *)
(* proposer has not yet counted.                                           *)
ProposerStep(p) ==
    \/ p \in Learner /\ adu[p] < aru[p] /\ HandleNewDcd(p)
    \/ \E v \in Value : HandleProposal(p, v)
    \/ \E id \in Proposer : HandleTrust(p, id)
    \/ \E m \in promises : HandlePromise(p, m)
    \/ PhaseOneTimeout(p)
    \/ ResendAccepts(p)
    \/ ResendLimitReached(p)

Next ==
    \/ \E p \in Proposer : ProposerStep(p) /\ UNCHANGED <<accVars, lrnVars>>
    \/ AccNext /\ UNCHANGED <<propVars, lrnVars>>
    \/ LrnNext /\ UNCHANGED <<propVars, accVars>>

Spec == Init /\ [][Next]_vars

-----------------------------------------------------------------------------
(* Correctness.                                                            *)

(* Two learners that have learned a slot, from a quorum of Learns or by    *)
(* catch-up, have learned the same value: replicas execute the same        *)
(* commands in the same order, whatever leader changes, timeouts, resends  *)
(* and losses happened (handleLrn, handleCUResp).                          *)
Agreement ==
    \A l1, l2 \in Learner, s \in Slot :
        lslots[l1][s].learned /\ lslots[l2][s].learned
            => lslots[l1][s].val = lslots[l2][s].val

(* No two values are ever chosen for a slot, in whatever rounds: the new   *)
(* leader's setStateFromPromises together with its retained proposals must *)
(* find every value that an earlier round may have chosen.                 *)
ChosenUnique ==
    \A s \in Slot, v, w \in Value : Chosen(s, v) /\ Chosen(s, w) => v = w

(* A learner only learns chosen values, also when the value reached it in  *)
(* a catch-up response from a node that is itself no longer the leader.    *)
LearnedIsChosen ==
    \A l \in Learner, s \in Slot :
        lslots[l][s].learned => Chosen(s, lslots[l][s].val)

(* inAlphaRange: when an Accept for a slot is out, every slot Alpha or     *)
(* more below it is chosen.  Reconfiguration counts on it: after a         *)
(* reconfiguration in slot i, handleReconfigCmd waits for the Alpha - 1    *)
(* slots that follow, and no later one may be open in the old group.       *)
AlphaRespected ==
    \A m \in accepts, s \in Slot :
        s + Alpha <= m.slot => \E v \in Value : Chosen(s, v)

(* The slots a learner has passed are all learned, so that handleLrn       *)
(* filters every late Learn for them before learnVal could panic.          *)
PassedSlotsLearned ==
    \A l \in Learner, s \in Slot : Decided(l, s) => lslots[l][s].learned

(* A Promise for round r accounts for every vote its acceptor cast below   *)
(* r in the slots the Prepare asked about: it reports that vote or a later *)
(* one.  A vote cast after the promise must not be of a lower round.       *)
PromiseComplete ==
    \A m \in promises, q \in prepares, n \in learns :
        /\ q.crnd = m.rnd
        /\ n.id = m.id
        /\ q.slot <= n.slot
        /\ RoundLess(n.rnd, m.rnd)
        => \E as \in m.accslots : as.id = n.slot /\ ~RoundLess(as.vrnd, n.rnd)

(* What resendAcceptsIfNecessary finds in its window is an Accept this     *)
(* proposer made for that slot, in the current round while Phase 1 is      *)
(* complete: a proposal copied from a vote (with Slot 0 and a foreign      *)
(* round) is never the one that is resent.                                 *)
ResendsOwnAccepts ==
    \A p \in Proposer : IsLeaderAndPhaseOneComplete(p) =>
        \A s \in AlphaWindow(p) :
            /\ proposal[p][s].rnd = <<crnd[p], p>>
            /\ proposal[p][s].slot = s

(* Every replica executes every slot for which there are requests: the     *)
(* window of alpha slots opens again, requests that a restart of Phase 1   *)
(* threw away are made up for by the clients, and a learner that misses a  *)
(* slot gets it by its Learns or by catch-up.                              *)
AllExecuted == <>(\A l \in Learner : aru[l] = MaxSlot)

(* setStateFromPromise says of a reported slot at or below adu that it     *)
(* should not happen: then no promise held during Phase 1 reports one. The *)
(* code violates it: the Prepare asks from adu on, and acceptors report    *)
(* that slot.                                                              *)
ReportsAboveAdu ==
    \A p \in Proposer : ~phaseOneDone[p] =>
        \A m \in p1Promises[p] : \A as \in m.accslots : as.id > adu[p]

-----------------------------------------------------------------------------
(* The group implements the replicated log: slot s holds the value chosen  *)
(* for it, and a replica has executed what its server took from the        *)
(* learner.                                                                *)

logBar ==
    [s \in Slot |-> IF \E v \in Value : Chosen(s, v)
                    THEN CHOOSE v \in Value : Chosen(s, v)
                    ELSE None]

executedBar ==
    [l \in Learner |-> [s \in 1..aru[l] |-> lslots[l][s].val]]

Log == INSTANCE ReplicatedLog
           WITH Replica <- Learner, log <- logBar, executed <- executedBar

(* Every step of the group is a step of the replicated log, or none: once  *)
(* chosen a command is never replaced, and the server hands each slot's    *)
(* command to the application exactly once and in order, also when the     *)
(* learner got it by catch-up.                                             *)
ImplementsLog == Log!Spec
=============================================================================
